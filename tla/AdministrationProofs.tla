------------------------- MODULE AdministrationProofs -------------------------
(***************************************************************************)
(* Theorems about the areas of Administration together: what becomes of    *)
(* the flavors and images of tenants and servers, the VLANs of networks,   *)
(* the macs of the dhcp thread, the types of all, and the changes of       *)
(* external ports.                                                         *)
(***************************************************************************)
EXTENDS Administration, FiniteSetTheorems, WellFoundedInduction, Integers, TLAPS

-----------------------------------------------------------------------------
(* Sets of numbers: their least and greatest elements *)

Less == {p \in Nat \X Nat : p[1] < p[2]}

LEMMA Least ==
  ASSUME NEW S, S \subseteq Nat, S # {}
  PROVE  \E x \in S : \A y \in S : x <= y
<1>1. IsWellFoundedOn(Less, Nat)
  BY NatLessThanWellFounded, Zenon DEF OpToRel, Less
<1>2. PICK x \in S : \A y \in S : <<y, x>> \notin Less
  <2>1. \E x \in S : \A y \in S : ~(<<y, x>> \in Less)
    BY <1>1, WFMin, Zenon
  <2> QED BY <2>1
<1>3. ASSUME NEW y \in S PROVE x <= y
  <2>1. x \in Nat /\ y \in Nat /\ <<y, x>> \notin Less
    BY <1>2
  <2> QED BY <2>1 DEF Less
<1> QED BY <1>3

LEMMA Greatest ==
  ASSUME NEW S, S \subseteq Nat, S # {}, NEW b \in Nat, \A y \in S : y <= b
  PROVE  \E x \in S : \A y \in S : y <= x
<1> DEFINE B == {c \in Nat : \A y \in S : y <= c}
<1>1. PICK c \in B : \A d \in B : c <= d
  BY Least
<1>2. CASE c \in S
  BY <1>1, <1>2
<1>3. CASE c \notin S
  <2>1. c \in Nat /\ \A y \in S : y <= c
    BY <1>1
  <2>2. \A y \in S : y <= c - 1 /\ c - 1 \in Nat
    BY <1>3, <2>1
  <2>3. c - 1 \in B
    BY <2>2
  <2> QED BY <1>1, <2>1, <2>3
<1> QED BY <1>2, <1>3

(***************************************************************************)
(* The first n elements of a set, as a query with a LIMIT gives them.  If  *)
(* it gives less, it gives all, and in any case all up to its last.        *)
(***************************************************************************)
First(S, n) == {x \in S : Cardinality({y \in S : y < x}) < n}

LEMMA FirstIsDownClosed ==
  ASSUME NEW n \in Nat \ {0}, NEW S, S \subseteq Nat, IsFiniteSet(S),
         NEW u \in First(S, n), NEW v \in S, v <= u
  PROVE  v \in First(S, n)
<1>1. {y \in S : y < v} \in SUBSET {y \in S : y < u}
  <2>1. u \in S /\ u \in Nat /\ v \in Nat
    BY DEF First
  <2>2. ASSUME NEW y \in S, y < v PROVE y < u
    <3>1. y \in Nat
      OBVIOUS
    <3> QED BY <2>1, <2>2, <3>1
  <2> QED BY <2>2
<1>2. IsFiniteSet({y \in S : y < u}) /\ IsFiniteSet({y \in S : y < v})
  BY FS_Subset
<1>3. Cardinality({y \in S : y < v}) <= Cardinality({y \in S : y < u})
  BY <1>1, <1>2, FS_Subset
<1>4. Cardinality({y \in S : y < v}) \in Nat /\ Cardinality({y \in S : y < u}) \in Nat
  BY <1>2, FS_CardinalityType
<1> QED BY <1>3, <1>4 DEF First

LEMMA LeastIsFirst ==
  ASSUME NEW n \in Nat \ {0}, NEW S, S \subseteq Nat, NEW v \in S, \A y \in S : v <= y
  PROVE  v \in First(S, n)
<1>1. {y \in S : y < v} = {}
  <2>1. \A y \in S : ~(y < v)
    OBVIOUS
  <2> QED BY <2>1
<1> QED BY <1>1, FS_EmptySet DEF First

LEMMA FirstIsFull ==
  ASSUME NEW n \in Nat \ {0}, NEW S, S \subseteq Nat, IsFiniteSet(S),
         NEW v \in S, v \notin First(S, n)
  PROVE  Cardinality(First(S, n)) = n
<1> DEFINE F == First(S, n)
           below(x) == {y \in S : y < x}
<1>1. F \in SUBSET S /\ IsFiniteSet(F) /\ Cardinality(F) \in Nat
  BY FS_Subset, FS_CardinalityType DEF First
<1>2. \A x : IsFiniteSet(below(x)) /\ Cardinality(below(x)) \in Nat
  BY FS_Subset, FS_CardinalityType
<1>3. PICK w \in S \ F : \A y \in S \ F : w <= y
  <2>1. S \ F \in SUBSET Nat /\ S \ F # {}
    OBVIOUS
  <2> QED BY <2>1, Least
<1>4. below(w) = F
  <2>1. ASSUME NEW y \in S, y < w PROVE y \in F
    BY <1>3, <2>1
  <2>2. ASSUME NEW y \in F PROVE y < w
    <3>1. y \in S /\ ~(w <= y)
      BY <1>1, <1>3, FirstIsDownClosed
    <3> QED BY <3>1
  <2> QED BY <1>1, <2>1, <2>2
<1>5. n <= Cardinality(F)
  <2>1. ~(Cardinality(below(w)) < n)
    BY <1>3 DEF First
  <2> QED BY <1>2, <1>4, <2>1
<1>6. Cardinality(F) <= n
  <2>1. CASE F = {}
    BY <2>1, FS_EmptySet
  <2>2. CASE F # {}
    <3>1. PICK m \in F : \A y \in F : y <= m
      <4>1. F \subseteq Nat /\ w \in Nat
        BY <1>1, <1>3
      <4>2. \A y \in F : y < w
        BY <1>4
      <4>3. \A y \in F : y <= w
        BY <4>1, <4>2
      <4> HIDE DEF F
      <4> QED BY <2>2, <4>1, <4>3, Greatest
    <3>2. F \ {m} = below(m)
      <4>1. F \subseteq Nat /\ m \in Nat
        BY <1>1
      <4>2. ASSUME NEW y \in F, y # m PROVE y \in S /\ y < m
        <5>1. y \in Nat /\ y <= m /\ y \in S
          BY <1>1, <3>1, <4>1
        <5> QED BY <4>1, <4>2, <5>1
      <4>3. ASSUME NEW y \in S, y < m PROVE y \in F /\ y # m
        <5>1. y \in Nat /\ y <= m /\ y # m
          BY <4>1, <4>3
        <5> QED BY <5>1, FirstIsDownClosed
      <4> QED BY <1>1, <4>2, <4>3
    <3>3. Cardinality(F \ {m}) = Cardinality(F) - 1
      BY <1>1, FS_RemoveElement
    <3>4. Cardinality(below(m)) < n
      BY DEF First
    <3> QED BY <1>1, <1>2, <3>2, <3>3, <3>4
  <2> QED BY <2>1, <2>2
<1> QED BY <1>1, <1>5, <1>6

-----------------------------------------------------------------------------
(* The catalogue: tenants, flavors, images and what servers need of them *)

DeployOps == {"image", "link", "instance"}
DeletionOps == {"delete_private", "delete_orphan"}
CatOps == {"share", "delete_row", "delete_items", "attach", "detach", "put"}
          \cup DeployOps \cup DeletionOps

\* The requests on tenants, flavors and images.
CatRequest ==
  [op : {"share"}, tenant : Tenants]
  \cup [op : {"delete_row", "delete_items"}, tenant : Tenants, items : SUBSET Items]
  \cup [op : {"delete_private"}, item : Items]
  \cup [op : {"attach"}, tenant : Tenants, item : Items]
  \cup [op : {"detach", "delete_orphan"}, tenant : Tenants, item : Items,
        saw : {"no", "public", "private"}]
  \cup [op : {"put"}, item : Items, value : {"public", "private"}]
  \cup [op : DeployOps, tenant : Tenants, flavor : Flavors, image : Images]

HttpTyped ==
  /\ http = [h \in HttpThreads |-> http[h]]
  /\ \A h \in HttpThreads :
       "op" \in DOMAIN http[h] /\ (http[h].op \in CatOps => http[h] \in CatRequest)

CatTyped == HttpTyped /\ CatalogueTypeOK /\ given \subseteq Items

NetOps == {"choose", "insert", "mark", "update", "redhcp", "free"}
DhcpOps == {"ports", "add", "delete", "del"}
OfcOps ==
  {"load", "delete_ofc", "forget_ofc", "forget_dpid", "remove_dpid", "exit_ofc", "insert_port", "pick", "tell"}

\* A request of another kind takes its next step, or begins, or none does.
Aside(Kind) ==
  \/ UNCHANGED http
  \/ \E h \in HttpThreads :
       /\ http[h].op \notin Kind
       /\ "op" \in DOMAIN http'[h]
       /\ http'[h].op \notin Kind
       /\ http' = [http EXCEPT ![h] = http'[h]]

USE DEF Idle, Begin, Continue, Finish

LEMMA RequestAside ==
  ASSUME HttpTyped, NEW Kind, NEW h \in HttpThreads, NEW q,
         http[h].op \notin Kind, "op" \in DOMAIN q, q.op \notin Kind,
         http' = [http EXCEPT ![h] = q]
  PROVE  Aside(Kind)
BY DEF HttpTyped, Aside

LEMMA AsideOfMore ==
  ASSUME NEW A, NEW B, Aside(A \cup B)
  PROVE  Aside(A) /\ Aside(B)
BY DEF Aside

LEMMA NextOp ==
  ASSUME NEW r, "op" \in DOMAIN r, NEW o
  PROVE  LET q == [r EXCEPT !.op = o] IN "op" \in DOMAIN q /\ q.op = o
OBVIOUS

\* What a turn of the search for a VLAN does, with the list it has or gets.
TurnOf(h, used) ==
  LET last == NextVlan(cache[h].last)
  IN  /\ cache' = [cache EXCEPT ![h] = [last |-> last, used |-> used]]
      /\ \/ used = None /\ http' = [http EXCEPT ![h] = Idle]
         \/ used # None /\ last \in used /\ http' = [http EXCEPT ![h] = http[h]]
         \/ /\ used # None /\ last \notin used
            /\ http' = [http EXCEPT ![h] =
                          [http[h] EXCEPT !.op = "insert", !.row.vlan = last, !.chosen = TRUE]]

\* The list it has is long enough, or it is read, or that fails.
ListOf(h, used) ==
  LET last == NextVlan(cache[h].last)
      kept == IF StartsAgain(cache[h].last) THEN None ELSE cache[h].used
  IN  \/ used = kept /\ ~MustRead(last, kept) /\ UNCHANGED unseen
      \/ used = UsedFrom(last) /\ unseen' = [unseen EXCEPT ![h] = {}]
      \/ used = kept /\ unseen' = [unseen EXCEPT ![h] = @ \cup VlansInUse]

LEMMA GetFreeNetVlanForm ==
  ASSUME NEW h \in HttpThreads, GetFreeNetVlan(h)
  PROVE  /\ http[h].op = "choose"
         /\ UNCHANGED <<nets, bridgeNet, dhcpNets, made, raced, moved, dropped, passed>>
         /\ \E used : ListOf(h, used) /\ TurnOf(h, used)
<1> DEFINE last == NextVlan(cache[h].last)
           kept == IF StartsAgain(cache[h].last) THEN None ELSE cache[h].used
<1>1. \A used : Turn(h, last, used) => TurnOf(h, used)
  BY DEF Turn, TurnOf
<1>2. \/ ~MustRead(last, kept) /\ Turn(h, last, kept) /\ UNCHANGED unseen
      \/ Turn(h, last, UsedFrom(last)) /\ unseen' = [unseen EXCEPT ![h] = {}]
      \/ Turn(h, last, kept) /\ unseen' = [unseen EXCEPT ![h] = @ \cup VlansInUse]
  BY DEF GetFreeNetVlan
<1>3. \E used : ListOf(h, used) /\ Turn(h, last, used)
  BY <1>2 DEF ListOf
<1>4. /\ http[h].op = "choose"
      /\ UNCHANGED <<nets, bridgeNet, dhcpNets, made, raced, moved, dropped, passed>>
  BY DEF GetFreeNetVlan
<1> QED BY <1>1, <1>3, <1>4

LEMMA NetworksAside ==
  ASSUME HttpTyped, NEW h \in HttpThreads, NetworkRequest(h) \/ NetworkStep(h)
  PROVE  Aside(CatOps \cup DhcpOps \cup OfcOps)
<1>1. CASE NetworkRequest(h)
  BY <1>1, SMTT(30) DEF NetworkRequest, DataRequest, BridgeRequest, NewNetwork, EditNetwork, DeleteNetwork,
              HttpTyped, Aside, CatOps, DhcpOps, OfcOps, DeployOps, DeletionOps
<1>2. CASE NetworkStep(h)
  <2>1. CASE GetFreeNetVlan(h)
    <3> DEFINE q == [http[h] EXCEPT !.op = "insert", !.row.vlan = NextVlan(cache[h].last),
                                   !.chosen = TRUE]
    <3>1. http[h].op \notin CatOps \cup DhcpOps \cup OfcOps /\ "op" \in DOMAIN http[h]
      BY <2>1 DEF GetFreeNetVlan, HttpTyped, CatOps, DhcpOps, OfcOps, DeployOps, DeletionOps
    <3>2. \/ http' = [http EXCEPT ![h] = q]
          \/ http' = [http EXCEPT ![h] = http[h]]
          \/ http' = [http EXCEPT ![h] = Idle]
      BY <2>1, GetFreeNetVlanForm DEF TurnOf
    <3>3. "op" \in DOMAIN q /\ q.op \notin CatOps \cup DhcpOps \cup OfcOps
      BY <3>1, NextOp DEF CatOps, DhcpOps, OfcOps, DeployOps, DeletionOps
    <3> HIDE DEF q
    <3>4. "op" \in DOMAIN Idle /\ Idle.op \notin CatOps \cup DhcpOps \cup OfcOps
      BY DEF CatOps, DhcpOps, OfcOps, DeployOps, DeletionOps
    <3> QED BY <3>1, <3>2, <3>3, <3>4, RequestAside
  <2>2. CASE InsertNet(h)
    BY <2>2, RequestAside, NextOp DEF InsertNet, HttpTyped, CatOps, DhcpOps, OfcOps, DeployOps, DeletionOps
  <2>3. CASE MarkNet(h)
    BY <2>3, RequestAside, NextOp DEF MarkNet, HttpTyped, CatOps, DhcpOps, OfcOps, DeployOps, DeletionOps
  <2>4. CASE UpdateNet(h)
    <3> DEFINE q == [http[h] EXCEPT !.op = "redhcp"]
    <3>1. http[h].op \notin CatOps \cup DhcpOps \cup OfcOps /\ "op" \in DOMAIN http[h]
      BY <2>4 DEF UpdateNet, HttpTyped, CatOps, DhcpOps, OfcOps, DeployOps, DeletionOps
    <3>2. http' = [http EXCEPT ![h] = q] \/ http' = [http EXCEPT ![h] = Idle]
      BY <2>4 DEF UpdateNet
    <3>3. "op" \in DOMAIN q /\ q.op \notin CatOps \cup DhcpOps \cup OfcOps
      BY <3>1, NextOp DEF CatOps, DhcpOps, OfcOps, DeployOps, DeletionOps
    <3> HIDE DEF q
    <3>4. "op" \in DOMAIN Idle /\ Idle.op \notin CatOps \cup DhcpOps \cup OfcOps
      BY DEF CatOps, DhcpOps, OfcOps, DeployOps, DeletionOps
    <3> QED BY <3>1, <3>2, <3>3, <3>4, RequestAside
  <2>5. CASE EditDhcpNets(h)
    BY <2>5, RequestAside, NextOp DEF EditDhcpNets, HttpTyped, CatOps, DhcpOps, OfcOps, DeployOps, DeletionOps
  <2>6. CASE FreeNet(h)
    BY <2>6, RequestAside, NextOp DEF FreeNet, HttpTyped, CatOps, DhcpOps, OfcOps, DeployOps, DeletionOps
  <2> QED BY <1>2, <2>1, <2>2, <2>3, <2>4, <2>5, <2>6 DEF NetworkStep
<1> QED BY <1>1, <1>2

LEMMA DhcpAside ==
  ASSUME HttpTyped,
         \/ \E h \in HttpThreads : DhcpRequest(h) \/ DhcpStep(h)
         \/ \E m \in Macs : MacStep(m)
         \/ ThreadStep
         \/ DhcpEnvironment
  PROVE  Aside(CatOps \cup NetOps \cup OfcOps)
<1>1. CASE \E h \in HttpThreads : DhcpRequest(h)
  BY <1>1 DEF DhcpRequest, PostServer, DeleteServer, HttpTyped, Aside, CatOps, NetOps, OfcOps, DeployOps, DeletionOps
<1>2. CASE \E h \in HttpThreads : DhcpStep(h)
  <2> PICK h \in HttpThreads : DhcpStep(h)
    BY <1>2
  <2>1. CASE AskPorts(h)
    BY <2>1, RequestAside, NextOp DEF AskPorts, HttpTyped, CatOps, NetOps, OfcOps, DeployOps, DeletionOps
  <2>2. CASE InsertAdd(h)
    BY <2>2, RequestAside, NextOp DEF InsertAdd, HttpTyped, CatOps, NetOps, OfcOps, DeployOps, DeletionOps
  <2>3. CASE DeleteInstance(h)
    BY <2>3, RequestAside, NextOp DEF DeleteInstance, HttpTyped, CatOps, NetOps, OfcOps, DeployOps, DeletionOps
  <2>4. CASE InsertDel(h)
    BY <2>4, RequestAside, NextOp DEF InsertDel, HttpTyped, CatOps, NetOps, OfcOps, DeployOps, DeletionOps
  <2> QED BY <1>2, <2>1, <2>2, <2>3, <2>4 DEF DhcpStep
<1>3. CASE (\E m \in Macs : MacStep(m)) \/ ThreadStep \/ DhcpEnvironment
  BY <1>3 DEF MacStep, CheckActive, ReadLease, ThreadStep, LoadMacs, TakeTask, UseLease,
              DhcpEnvironment, Late, Report, GuestAsks, Aside
<1> QED BY <1>1, <1>2, <1>3

LEMMA ControllersAside ==
  ASSUME HttpTyped,
         \/ \E h \in HttpThreads : OfcRequest(h) \/ OfcStep(h)
         \/ \E c \in Known : TakeOfTask(c)
  PROVE  Aside(CatOps \cup NetOps \cup DhcpOps)
<1>1. CASE \E h \in HttpThreads : OfcRequest(h)
  BY <1>1 DEF OfcRequest, NewOfController, EditOfController, DeleteOfController, NewExternalPort,
              DeletePort, HttpTyped, Aside, CatOps, NetOps, DhcpOps, DeployOps, DeletionOps
<1>2. CASE \E h \in HttpThreads : OfcStep(h)
  <2> PICK h \in HttpThreads : OfcStep(h)
    BY <1>2
  <2>1. CASE CreateOfcTask(h)
    BY <2>1, RequestAside, NextOp DEF CreateOfcTask, HttpTyped, CatOps, NetOps, DhcpOps, DeployOps, DeletionOps
  <2>2. CASE DeleteOfc(h)
    <3> DEFINE q == [http[h] EXCEPT !.op = "forget_ofc"]
    <3>1. http[h].op \notin CatOps \cup NetOps \cup DhcpOps /\ "op" \in DOMAIN http[h]
      BY <2>2 DEF DeleteOfc, HttpTyped, CatOps, NetOps, DhcpOps, DeployOps, DeletionOps
    <3>2. http' = [http EXCEPT ![h] = q] \/ http' = [http EXCEPT ![h] = Idle]
      BY <2>2 DEF DeleteOfc
    <3>3. "op" \in DOMAIN q /\ q.op \notin CatOps \cup NetOps \cup DhcpOps
      BY <3>1, NextOp DEF CatOps, NetOps, DhcpOps, DeployOps, DeletionOps
    <3> HIDE DEF q
    <3>4. "op" \in DOMAIN Idle /\ Idle.op \notin CatOps \cup NetOps \cup DhcpOps
      BY DEF CatOps, NetOps, DhcpOps, DeployOps, DeletionOps
    <3> QED BY <3>1, <3>2, <3>3, <3>4, RequestAside
  <2>3. CASE ForgetOfc(h)
    <3> DEFINE q == [op |-> "forget_dpid", ofc |-> http[h].ofc, dpid |-> http[h].dpid, at |-> 1]
    <3>1. http[h].op = "forget_ofc" /\ (http' = [http EXCEPT ![h] = q] \/ http' = [http EXCEPT ![h] = Idle])
      BY <2>3 DEF ForgetOfc
    <3>2. "op" \in DOMAIN q /\ q.op = "forget_dpid"
      OBVIOUS
    <3>3. "op" \in DOMAIN Idle /\ Idle.op = "idle"
      OBVIOUS
    <3> HIDE DEF q
    <3> QED
      BY <3>1, <3>2, <3>3, RequestAside DEF CatOps, NetOps, DhcpOps, DeployOps, DeletionOps
  <2>4. CASE ExitOfc(h)
    BY <2>4, RequestAside, NextOp DEF ExitOfc, HttpTyped, CatOps, NetOps, DhcpOps, DeployOps, DeletionOps
  <2>5. CASE InsertPort(h)
    <3> DEFINE q == [http[h] EXCEPT !.op = "pick", !.dpid = Nothing]
    <3>1. http[h].op \notin CatOps \cup NetOps \cup DhcpOps /\ "op" \in DOMAIN http[h]
      BY <2>5 DEF InsertPort, HttpTyped, CatOps, NetOps, DhcpOps, DeployOps, DeletionOps
    <3>2. http' = [http EXCEPT ![h] = q] \/ http' = [http EXCEPT ![h] = Idle]
      BY <2>5 DEF InsertPort
    <3>3. "op" \in DOMAIN q /\ q.op \notin CatOps \cup NetOps \cup DhcpOps
      BY <3>1, NextOp DEF CatOps, NetOps, DhcpOps, DeployOps, DeletionOps
    <3> HIDE DEF q
    <3>4. "op" \in DOMAIN Idle /\ Idle.op \notin CatOps \cup NetOps \cup DhcpOps
      BY DEF CatOps, NetOps, DhcpOps, DeployOps, DeletionOps
    <3> QED BY <3>1, <3>2, <3>3, <3>4, RequestAside
  <2>6. CASE PickThread(h)
    <3> DEFINE q == [op |-> "tell", ofc |-> http[h].ofc,
                   to |-> ThreadsFor(http[h].ofc, http[h].dpid)]
    <3>1. http[h].op \notin CatOps \cup NetOps \cup DhcpOps /\ "op" \in DOMAIN http[h]
      BY <2>6 DEF PickThread, HttpTyped, CatOps, NetOps, DhcpOps, DeployOps, DeletionOps
    <3>2. http' = [http EXCEPT ![h] = q] \/ http' = [http EXCEPT ![h] = Idle]
      BY <2>6 DEF PickThread
    <3>3. "op" \in DOMAIN q /\ q.op \notin CatOps \cup NetOps \cup DhcpOps
      BY <3>1, NextOp DEF CatOps, NetOps, DhcpOps, DeployOps, DeletionOps
    <3> HIDE DEF q
    <3>4. "op" \in DOMAIN Idle /\ Idle.op \notin CatOps \cup NetOps \cup DhcpOps
      BY DEF CatOps, NetOps, DhcpOps, DeployOps, DeletionOps
    <3> QED BY <3>1, <3>2, <3>3, <3>4, RequestAside
  <2>7. CASE TellThread(h)
    <3>1. CASE http[h].to = {}
      <4>1. http[h].op = "tell" /\ http' = [http EXCEPT ![h] = Idle]
        BY <2>7, <3>1 DEF TellThread
      <4>2. "op" \in DOMAIN Idle /\ Idle.op = "idle"
        OBVIOUS
      <4> QED BY <4>1, <4>2, RequestAside DEF CatOps, NetOps, DhcpOps, DeployOps, DeletionOps
    <3>2. CASE http[h].to # {}
      <4> PICK c \in http[h].to : Continue(h, [http[h] EXCEPT !.to = http[h].to \ {c}])
        BY <2>7, <3>2 DEF TellThread
      <4> DEFINE q == [http[h] EXCEPT !.to = http[h].to \ {c}]
      <4>1. http[h].op = "tell" /\ "op" \in DOMAIN http[h]
        BY <2>7 DEF TellThread, HttpTyped
      <4>2. "op" \in DOMAIN q /\ q.op = "tell"
        BY <4>1
      <4> HIDE DEF q
      <4>3. http' = [http EXCEPT ![h] = q]
        BY DEF q
      <4> QED BY <4>1, <4>2, <4>3, RequestAside DEF CatOps, NetOps, DhcpOps, DeployOps, DeletionOps
    <3> QED BY <3>1, <3>2
  <2>8. CASE ForgetDpid(h)
    <3> DEFINE q == [http[h] EXCEPT !.at = http[h].at + 1]
    <3>1. http[h].op = "forget_dpid" /\ "op" \in DOMAIN http[h]
      BY <2>8 DEF ForgetDpid, HttpTyped
    <3>2. \/ \E r \in [op : {"exit_ofc", "remove_dpid"}, ofc : {http[h].ofc}, dpid : {http[h].dpid}] :
                http' = [http EXCEPT ![h] = r]
          \/ \E i, k : http' = [http EXCEPT ![h] =
                [op |-> "remove_dpid", ofc |-> http[h].ofc, dpid |-> http[h].dpid, at |-> i, listed |-> k]]
          \/ http' = [http EXCEPT ![h] = q]
      BY <2>8 DEF ForgetDpid
    <3>3. "op" \in DOMAIN q /\ q.op = "forget_dpid"
      BY <3>1
    <3> HIDE DEF q
    <3>4. CASE http' = [http EXCEPT ![h] = q]
      BY <3>1, <3>3, <3>4, RequestAside DEF CatOps, NetOps, DhcpOps, DeployOps, DeletionOps
    <3> QED BY <3>1, <3>2, <3>4, RequestAside DEF CatOps, NetOps, DhcpOps, DeployOps, DeletionOps
  <2>9. CASE RemoveDpid(h)
    BY <2>9, RequestAside DEF RemoveDpid, HttpTyped, CatOps, NetOps, DhcpOps, DeployOps, DeletionOps
  <2> QED BY <1>2, <2>1, <2>2, <2>3, <2>4, <2>5, <2>6, <2>7, <2>8, <2>9 DEF OfcStep
<1>3. CASE \E c \in Known : TakeOfTask(c)
  BY <1>3 DEF TakeOfTask, Aside
<1> QED BY <1>1, <1>2, <1>3

-----------------------------------------------------------------------------
(* What the items and the requests on them are like, between the steps. *)

LinksAreOfItems == \A t \in Tenants, i \in Items : <<t, i>> \in links => Exist(i)
ItemsAreGiven == \A i \in Items : Exist(i) => i \in given
UsedAreLinked == \A s \in servers : Linked(s.flavor) /\ Linked(s.image)

ItemInv == LinksAreOfItems /\ ItemsAreGiven /\ UsedAreLinked

\* A server that is deployed still has what was checked for it, or it was taken
\* from its tenant since then.
FlavorIsKept ==
  \A h \in HttpThreads :
    http[h].op \in DeployOps =>
      <<http[h].tenant, http[h].flavor>> \in links \/ http[h].flavor \in late

ImageIsKept ==
  \A h \in HttpThreads :
    http[h].op = "instance" =>
      \/ <<http[h].tenant, http[h].image>> \in links
      \/ visible[http[h].image] = "public"
      \/ visible[http[h].image] = "no" /\ http[h].image \in given
      \/ http[h].image \in late \cup strays

DeployInv == FlavorIsKept /\ ImageIsKept /\ ServersHaveTheirItems

\* Some request will look whether anybody has the item.
ToBeDropped(i) ==
  \E h \in HttpThreads :
    \/ http[h].op \in DeletionOps /\ http[h].item = i
    \/ http[h].op = "delete_items" /\ i \in http[h].items

OrphansAreDropped ==
  \A i \in Items \ strays : visible[i] = "private" => Linked(i) \/ ToBeDropped(i)

\* What was not private when its link was to be deleted still is not, unless edited.
SawItRight ==
  \A h \in HttpThreads :
    http[h].op = "detach" /\ http[h].saw # "private" =>
      /\ http[h].item \in given
      /\ visible[http[h].item] # "private" \/ http[h].item \in strays

OrphanInv == OrphansAreDropped /\ SawItRight

CatInv == CatTyped /\ ItemInv /\ DeployInv /\ OrphanInv

LEMMA InitCat == Init => CatInv
<1> SUFFICES ASSUME Init PROVE CatInv
  OBVIOUS
<1>1. http = [h \in HttpThreads |-> Idle] /\ CatalogueInit({CHOOSE t \in Tenants : TRUE})
  BY DEF Init
<1>2. CatTyped
  BY <1>1, ItemsAreTold DEF CatTyped, HttpTyped, CatalogueTypeOK, CatalogueInit, CatOps,
     DeployOps, DeletionOps
<1>3. ItemInv /\ DeployInv /\ OrphanInv
  BY <1>1 DEF CatalogueInit, ItemInv, LinksAreOfItems, ItemsAreGiven, UsedAreLinked, Exist,
              DeployInv, FlavorIsKept, ImageIsKept, ServersHaveTheirItems, DeployOps,
              OrphanInv, OrphansAreDropped, SawItRight
<1> QED BY <1>2, <1>3 DEF CatInv

LEMMA AsideCat ==
  ASSUME CatInv, Aside(CatOps), UNCHANGED catVars
  PROVE  CatInv'
<1>1. CatTyped'
  <2>1. HttpTyped'
    <3>1. CASE UNCHANGED http
      BY <3>1 DEF CatInv, CatTyped, HttpTyped, CatRequest
    <3>2. ASSUME NEW h \in HttpThreads, "op" \in DOMAIN http'[h], http'[h].op \notin CatOps,
                 http' = [http EXCEPT ![h] = http'[h]]
          PROVE  HttpTyped'
      <4>1. http' = [k \in HttpThreads |-> IF k = h THEN http'[h] ELSE http[k]]
        BY <3>2 DEF CatInv, CatTyped, HttpTyped
      <4> QED BY <3>2, <4>1 DEF CatInv, CatTyped, HttpTyped, CatRequest
    <3> QED BY <3>1, <3>2 DEF Aside
  <2> QED BY <2>1 DEF CatInv, CatTyped, CatalogueTypeOK, catVars
<1>2. ItemInv'
  <2>1. UNCHANGED <<visible, links, servers, given>>
    BY DEF catVars
  <2> QED
    BY <2>1 DEF CatInv, ItemInv, LinksAreOfItems, ItemsAreGiven, UsedAreLinked, Exist, Linked, Items
<1>3. DeployInv'
  <2>1. UNCHANGED <<visible, links, servers, given, late, strays>>
    BY DEF catVars
  <2>2. \A h \in HttpThreads : http'[h].op \in DeployOps => http'[h] = http[h]
    BY DEF Aside, CatInv, CatTyped, HttpTyped, CatOps
  <2> QED
    BY <2>1, <2>2 DEF CatInv, DeployInv, FlavorIsKept, ImageIsKept, ServersHaveTheirItems, DeployOps
<1>4. OrphanInv'
  BY DEF CatInv, OrphanInv, OrphansAreDropped, SawItRight, ToBeDropped, Linked, CatOps, Aside,
     catVars,
         CatTyped, HttpTyped
<1> QED BY <1>1, <1>2, <1>3, <1>4 DEF CatInv

LEMMA RestartCat ==
  ASSUME CatInv, Restart
  PROVE  CatInv'
<1>1. CatTyped'
  BY DEF CatInv, CatTyped, HttpTyped, CatalogueTypeOK, Restart, CatalogueStop, CatOps, DeployOps,
         DeletionOps
<1>2. ItemInv'
  BY DEF CatInv, ItemInv, LinksAreOfItems, ItemsAreGiven, UsedAreLinked, Exist, Linked, Restart,
         CatalogueStop
<1>3. DeployInv'
  BY DEF CatInv, DeployInv, FlavorIsKept, ImageIsKept, ServersHaveTheirItems, DeployOps, Restart,
         CatalogueStop
<1>4. OrphanInv'
  BY DEF CatInv, OrphanInv, OrphansAreDropped, SawItRight, ToBeDropped, DeletionOps, Linked,
     Restart,
         CatalogueStop
<1> QED BY <1>1, <1>2, <1>3, <1>4 DEF CatInv

-----------------------------------------------------------------------------
(* The steps of the catalogue. *)

LEMMA RequestForms ==
  /\ \A t \in Tenants : [op |-> "share", tenant |-> t] \in CatRequest
  /\ \A t \in Tenants, x \in SUBSET Items :
       /\ [op |-> "delete_row", tenant |-> t, items |-> x] \in CatRequest
       /\ [op |-> "delete_items", tenant |-> t, items |-> x] \in CatRequest
  /\ \A i \in Items : [op |-> "delete_private", item |-> i] \in CatRequest
  /\ \A i \in Items, v \in {"public", "private"} :
       [op |-> "put", item |-> i, value |-> v] \in CatRequest
  /\ \A t \in Tenants, i \in Items : [op |-> "attach", tenant |-> t, item |-> i] \in CatRequest
  /\ \A t \in Tenants, i \in Items, v \in {"no", "public", "private"} :
       /\ [op |-> "detach", tenant |-> t, item |-> i, saw |-> v] \in CatRequest
       /\ [op |-> "delete_orphan", tenant |-> t, item |-> i, saw |-> v] \in CatRequest
  /\ \A o \in DeployOps, t \in Tenants, f \in Flavors, m \in Images :
       [op |-> o, tenant |-> t, flavor |-> f, image |-> m] \in CatRequest
BY DEF CatRequest

\* What a request has, by what it does next.
LEMMA RequestFields ==
  ASSUME HttpTyped, NEW h \in HttpThreads
  PROVE  /\ http[h].op = "share" => http[h].tenant \in Tenants
         /\ http[h].op \in {"delete_row", "delete_items"} =>
              http[h].tenant \in Tenants /\ http[h].items \subseteq Items
         /\ http[h].op \in {"delete_private", "put"} => http[h].item \in Items
         /\ http[h].op \in {"attach", "detach", "delete_orphan"} =>
              http[h].tenant \in Tenants /\ http[h].item \in Items
         /\ http[h].op = "put" => http[h].value \in {"public", "private"}
         /\ http[h].op = "detach" => http[h].saw \in {"no", "public", "private"}
         /\ http[h].op \in DeployOps =>
              http[h].tenant \in Tenants /\ http[h].flavor \in Flavors /\ http[h].image \in Images
<1>1. http[h].op \in CatOps => http[h] \in CatRequest
  BY DEF HttpTyped
<1> QED BY <1>1 DEF CatOps, CatRequest, DeployOps, DeletionOps

\* What it goes on with.
LEMMA RequestGoesOn ==
  ASSUME HttpTyped, NEW h \in HttpThreads
  PROVE  /\ http[h].op = "delete_row" =>
              [http[h] EXCEPT !.op = "delete_items"] =
                [op |-> "delete_items", tenant |-> http[h].tenant, items |-> http[h].items]
         /\ http[h].op = "delete_items" =>
              \A x \in SUBSET Items :
                [http[h] EXCEPT !.items = x] =
                  [op |-> "delete_items", tenant |-> http[h].tenant, items |-> x]
         /\ http[h].op = "detach" =>
              [http[h] EXCEPT !.op = "delete_orphan"] =
                [op |-> "delete_orphan", tenant |-> http[h].tenant, item |-> http[h].item,
                 saw |-> http[h].saw]
         /\ http[h].op \in DeployOps =>
              \A o \in DeployOps :
                [http[h] EXCEPT !.op = o] =
                  [op |-> o, tenant |-> http[h].tenant, flavor |-> http[h].flavor,
                   image |-> http[h].image]
<1>1. http[h].op \in CatOps => http[h] \in CatRequest
  BY DEF HttpTyped
<1> QED BY <1>1 DEF CatOps, CatRequest, DeployOps, DeletionOps

LEMMA NewRequest ==
  ASSUME HttpTyped, NEW h \in HttpThreads, NEW q \in CatRequest \cup {Idle},
         http' = [http EXCEPT ![h] = q]
  PROVE  HttpTyped'
<1>1. "op" \in DOMAIN q /\ (q.op \in CatOps => q \in CatRequest)
  BY DEF CatRequest, CatOps, DeployOps, DeletionOps
<1>2. http' = [k \in HttpThreads |-> IF k = h THEN q ELSE http[k]]
  BY DEF HttpTyped
<1> QED BY <1>1, <1>2 DEF HttpTyped, CatRequest

(* Steps that end the request or go on with it: what they do in each case. *)

DeleteTenantRowDone(h) ==
  /\ http' = [http EXCEPT ![h] =
         [op |-> "delete_items", tenant |-> http[h].tenant, items |-> http[h].items]]
  /\ LET t == http[h].tenant
         mine == {i \in Items : <<t, i>> \in links}
     IN  /\ \A s \in servers : s.tenant # t /\ {s.flavor, s.image} \cap mine = {}
         /\ links' = {l \in links : l[1] # t}
         /\ strays' = strays \cup (mine \ http[h].items)
         /\ late' = late \cup {i \in mine : Deploying(t, i)}
  /\ UNCHANGED <<visible, servers, given>>

DeleteItemsOfTenantDone(h, i) ==
  /\ http' = [http EXCEPT ![h] = [op |-> "delete_items", tenant |-> http[h].tenant,
                                  items |-> http[h].items \ {i}]]
  /\ \/ DropItem(i) /\ UNCHANGED strays
     \/ strays' = strays \cup {i} /\ UNCHANGED visible
  /\ UNCHANGED <<links, servers, given, late>>

DeleteLinkDone(h) ==
  /\ \/ http' = [http EXCEPT ![h] = [op |-> "delete_orphan", tenant |-> http[h].tenant,
                                     item |-> http[h].item, saw |-> http[h].saw]]
     \/ http' = [http EXCEPT ![h] = Idle] /\ http[h].saw # "private"
  /\ <<http[h].tenant, http[h].item>> \in links => ~InUse(http[h].item)
  /\ Unlink(http[h].tenant, http[h].item)
  /\ UNCHANGED <<visible, servers, given, strays>>

LinkImageDone(h) ==
  /\ http' = [http EXCEPT ![h] = [op |-> "instance", tenant |-> http[h].tenant,
                                  flavor |-> http[h].flavor, image |-> http[h].image]]
  /\ Exist(http[h].image)
  /\ links' = links \cup {<<http[h].tenant, http[h].image>>}
  /\ UNCHANGED <<visible, servers, given, strays, late>>

Ended(h) ==
  /\ http' = [http EXCEPT ![h] = Idle]
  /\ UNCHANGED <<visible, links, servers, given, strays, late>>

LEMMA Branches ==
  ASSUME CatInv, NEW h \in HttpThreads
  PROVE  /\ DeleteTenantRow(h) => Ended(h) \/ DeleteTenantRowDone(h)
         /\ DeleteItemsOfTenant(h) =>
              \/ Ended(h) /\ http[h].items = {}
              \/ \E i \in http[h].items : DeleteItemsOfTenantDone(h, i)
         /\ DeleteLink(h) => Ended(h) \/ DeleteLinkDone(h)
         /\ LinkImage(h) => Ended(h) \/ LinkImageDone(h)
<1>1. DeleteTenantRow(h) => Ended(h) \/ DeleteTenantRowDone(h)
  BY RequestGoesOn DEF CatInv, CatTyped, DeleteTenantRow, Ended, DeleteTenantRowDone, catVars, InUse
<1>2. ASSUME DeleteItemsOfTenant(h)
      PROVE  \/ Ended(h) /\ http[h].items = {}
             \/ \E i \in http[h].items : DeleteItemsOfTenantDone(h, i)
  <2>1. CASE http[h].items = {}
    BY <1>2, <2>1 DEF DeleteItemsOfTenant, Ended
  <2>2. CASE http[h].items # {}
    <3> PICK i \in http[h].items :
           /\ \/ DropItem(i) /\ UNCHANGED strays
              \/ strays' = strays \cup {i} /\ UNCHANGED visible
           /\ Continue(h, [http[h] EXCEPT !.items = http[h].items \ {i}])
      BY <1>2, <2>2 DEF DeleteItemsOfTenant
    <3> DEFINE q == [op |-> "delete_items", tenant |-> http[h].tenant,
    items |-> http[h].items \ {i}]
    <3>1. http[h].items \in SUBSET Items /\ http[h].op = "delete_items"
      BY <1>2, RequestFields DEF DeleteItemsOfTenant, CatInv, CatTyped
    <3>2. [http[h] EXCEPT !.items = http[h].items \ {i}] = q
      BY <3>1, RequestGoesOn DEF CatInv, CatTyped
    <3> QED BY <1>2, <3>2 DEF DeleteItemsOfTenant, DeleteItemsOfTenantDone
  <2> QED BY <2>1, <2>2
<1>3. DeleteLink(h) => Ended(h) \/ DeleteLinkDone(h)
  BY RequestGoesOn DEF CatInv, CatTyped, DeleteLink, Ended, DeleteLinkDone
<1>4. LinkImage(h) => Ended(h) \/ LinkImageDone(h)
  BY RequestGoesOn DEF CatInv, CatTyped, LinkImage, Ended, LinkImageDone, DeployOps
<1> QED BY <1>1, <1>2, <1>3, <1>4

LEMMA EndedCat ==
  ASSUME CatInv, NEW h \in HttpThreads, Ended(h),
         http[h].op \notin DeletionOps,
         http[h].op = "delete_items" => http[h].items = {}
  PROVE  ItemInv' /\ DeployInv' /\ OrphanInv'
<1>1. UNCHANGED <<visible, links, servers, given, strays, late>>
  BY DEF Ended
<1>2. \A k \in HttpThreads : http'[k] = IF k = h THEN Idle ELSE http[k]
  BY DEF Ended, CatInv, CatTyped, HttpTyped
<1>3. ItemInv'
  BY <1>1 DEF CatInv, ItemInv, LinksAreOfItems, ItemsAreGiven, UsedAreLinked, Exist, Linked, Items
<1>4. DeployInv'
  BY <1>1, <1>2 DEF CatInv, DeployInv, FlavorIsKept, ImageIsKept, ServersHaveTheirItems, DeployOps
<1>5. OrphanInv'
  BY <1>1, <1>2 DEF CatInv, OrphanInv, OrphansAreDropped, SawItRight, ToBeDropped, Linked, Items,
     DeletionOps
<1> QED BY <1>3, <1>4, <1>5

LEMMA DeleteTenantRowKeeps ==
  ASSUME CatInv, NEW h \in HttpThreads, http[h].op = "delete_row", DeleteTenantRowDone(h)
  PROVE  ItemInv' /\ DeployInv' /\ OrphanInv'
<1>1. (\A k \in HttpThreads \ {h} : http'[k] = http[k]) /\ http'[h].op = "delete_items"
     /\ http'[h].items = http[h].items
  BY DEF DeleteTenantRowDone, CatInv, CatTyped, HttpTyped
<1>2. ItemInv'
  BY RequestFields DEF DeleteTenantRowDone, CatInv, CatTyped, CatalogueTypeOK, ItemInv,
     LinksAreOfItems, ItemsAreGiven, UsedAreLinked,
     Exist, Linked, Items
<1>3. FlavorIsKept'
  BY <1>1, RequestFields DEF DeleteTenantRowDone, CatInv, CatTyped, CatalogueTypeOK, DeployInv,
     FlavorIsKept, DeployOps, Deploying, Items
<1>4. ImageIsKept'
  BY <1>1, RequestFields DEF DeleteTenantRowDone, CatInv, CatTyped, CatalogueTypeOK, DeployInv,
     ImageIsKept, DeployOps, Deploying, Items
<1>5. ServersHaveTheirItems'
  BY RequestFields DEF DeleteTenantRowDone, CatInv, CatTyped, CatalogueTypeOK, DeployInv,
     ServersHaveTheirItems
<1>6. OrphansAreDropped'
  <2> SUFFICES ASSUME NEW x \in Items \ strays', visible'[x] = "private", ~Linked(x)'
               PROVE  ToBeDropped(x)'
    BY DEF OrphansAreDropped, Items
  <2>1. visible[x] = "private" /\ x \notin strays /\ (ToBeDropped(x) \/ Linked(x))
    BY DEF DeleteTenantRowDone, CatInv, OrphanInv, OrphansAreDropped, CatTyped, CatalogueTypeOK,
       Items
  <2> QED BY <1>1, <2>1, RequestFields DEF DeleteTenantRowDone, CatInv, CatTyped,
  CatalogueTypeOK, ToBeDropped, DeletionOps, Linked, Items
<1>7. SawItRight'
  BY <1>1 DEF DeleteTenantRowDone, CatInv, CatTyped, CatalogueTypeOK, OrphanInv, SawItRight
<1> QED BY <1>2, <1>3, <1>4, <1>5, <1>6, <1>7 DEF DeployInv, OrphanInv

LEMMA DeleteItemsOfTenantKeeps ==
  ASSUME CatInv, NEW h \in HttpThreads, http[h].op = "delete_items",
         NEW i \in http[h].items, DeleteItemsOfTenantDone(h, i)
  PROVE  ItemInv' /\ DeployInv' /\ OrphanInv'
<1>1. (\A k \in HttpThreads \ {h} : http'[k] = http[k]) /\ http'[h].op = "delete_items"
     /\ http'[h].items = http[h].items \ {i}
  BY DEF DeleteItemsOfTenantDone, CatInv, CatTyped, HttpTyped
<1>2. ItemInv'
  BY RequestFields DEF DeleteItemsOfTenantDone, CatInv, CatTyped, CatalogueTypeOK, ItemInv,
     LinksAreOfItems, ItemsAreGiven, UsedAreLinked,
     Exist, Linked, Items, DropItem
<1>3. FlavorIsKept'
  BY <1>1, RequestFields DEF DeleteItemsOfTenantDone, CatInv, CatTyped, CatalogueTypeOK,
     DeployInv, FlavorIsKept, DeployOps
<1>4. ImageIsKept'
  BY <1>1, RequestFields DEF DeleteItemsOfTenantDone, CatInv, CatTyped, CatalogueTypeOK,
     DeployInv, ImageIsKept, DeployOps, DropItem, ItemInv, ItemsAreGiven, Exist, Items
<1>5. ServersHaveTheirItems'
  BY RequestFields DEF DeleteItemsOfTenantDone, CatInv, CatTyped, CatalogueTypeOK, DeployInv,
     ServersHaveTheirItems, DropItem, ItemInv, UsedAreLinked, Items
<1>6. OrphansAreDropped'
  <2> SUFFICES ASSUME NEW x \in Items \ strays', visible'[x] = "private", ~Linked(x)'
               PROVE  ToBeDropped(x)'
    BY DEF OrphansAreDropped, Items
  <2>1. visible[x] = "private" /\ x \notin strays /\ (ToBeDropped(x) \/ Linked(x))
    BY DEF DeleteItemsOfTenantDone, CatInv, OrphanInv, OrphansAreDropped, CatTyped,
       CatalogueTypeOK, Items, DropItem
  <2> QED BY <1>1, <2>1, RequestFields DEF DeleteItemsOfTenantDone, CatInv, CatTyped,
  CatalogueTypeOK, ToBeDropped, DeletionOps, Linked, DropItem
<1>7. SawItRight'
  BY <1>1 DEF DeleteItemsOfTenantDone, CatInv, CatTyped, CatalogueTypeOK, OrphanInv, SawItRight,
     DropItem, Items
<1> QED BY <1>2, <1>3, <1>4, <1>5, <1>6, <1>7 DEF DeployInv, OrphanInv

LEMMA DeleteLinkKeeps ==
  ASSUME CatInv, NEW h \in HttpThreads, http[h].op = "detach", DeleteLinkDone(h)
  PROVE  ItemInv' /\ DeployInv' /\ OrphanInv'
<1>1. (\A k \in HttpThreads \ {h} : http'[k] = http[k]) /\
     \/ http'[h].op = "delete_orphan" /\ http'[h].item = http[h].item
     \/ http'[h].op = "idle" /\ http[h].saw # "private"
  BY DEF DeleteLinkDone, CatInv, CatTyped, HttpTyped
<1>2. ItemInv'
  BY RequestFields DEF DeleteLinkDone, CatInv, CatTyped, CatalogueTypeOK, ItemInv,
     LinksAreOfItems, ItemsAreGiven, UsedAreLinked,
     Exist, Linked, Items, Unlink, InUse
<1>3. FlavorIsKept'
  BY <1>1, RequestFields DEF DeleteLinkDone, CatInv, CatTyped, CatalogueTypeOK, DeployInv,
     FlavorIsKept, DeployOps, Unlink, Deploying
<1>4. ImageIsKept'
  BY <1>1, RequestFields DEF DeleteLinkDone, CatInv, CatTyped, CatalogueTypeOK, DeployInv,
     ImageIsKept, DeployOps, Unlink, Deploying
<1>5. ServersHaveTheirItems'
  BY RequestFields DEF DeleteLinkDone, CatInv, CatTyped, CatalogueTypeOK, DeployInv,
     ServersHaveTheirItems, Unlink, InUse
<1>6. OrphansAreDropped'
  <2> SUFFICES ASSUME NEW x \in Items \ strays', visible'[x] = "private", ~Linked(x)'
               PROVE  ToBeDropped(x)'
    BY DEF OrphansAreDropped, Items
  <2>1. visible[x] = "private" /\ x \notin strays /\ (ToBeDropped(x) \/ Linked(x))
    BY DEF DeleteLinkDone, CatInv, OrphanInv, OrphansAreDropped, CatTyped, CatalogueTypeOK,
       Items, Unlink
  <2> QED BY <1>1, <2>1, RequestFields DEF DeleteLinkDone, CatInv, CatTyped, CatalogueTypeOK,
  ToBeDropped, DeletionOps, Linked, Unlink, OrphanInv, SawItRight
<1>7. SawItRight'
  BY <1>1 DEF DeleteLinkDone, CatInv, CatTyped, CatalogueTypeOK, OrphanInv, SawItRight, Unlink
<1> QED BY <1>2, <1>3, <1>4, <1>5, <1>6, <1>7 DEF DeployInv, OrphanInv

LEMMA LinkImageKeeps ==
  ASSUME CatInv, NEW h \in HttpThreads, http[h].op = "link", LinkImageDone(h)
  PROVE  ItemInv' /\ DeployInv' /\ OrphanInv'
<1>1. (\A k \in HttpThreads \ {h} : http'[k] = http[k])
     /\ http'[h] = [op |-> "instance", tenant |-> http[h].tenant,
                                                             flavor |-> http[h].flavor, image |-> http[h].image]
  BY DEF LinkImageDone, CatInv, CatTyped, HttpTyped
<1>2. ItemInv'
  BY RequestFields DEF LinkImageDone, CatInv, CatTyped, CatalogueTypeOK, ItemInv,
     LinksAreOfItems, ItemsAreGiven, UsedAreLinked,
     Exist, Linked, Items
<1>3. FlavorIsKept'
  BY <1>1, RequestFields DEF LinkImageDone, CatInv, CatTyped, CatalogueTypeOK, DeployInv,
     FlavorIsKept, DeployOps
<1>4. ImageIsKept'
  BY <1>1, RequestFields DEF LinkImageDone, CatInv, CatTyped, CatalogueTypeOK, DeployInv,
     ImageIsKept, DeployOps
<1>5. ServersHaveTheirItems'
  BY RequestFields DEF LinkImageDone, CatInv, CatTyped, CatalogueTypeOK, DeployInv,
     ServersHaveTheirItems
<1>6. OrphansAreDropped'
  <2> SUFFICES ASSUME NEW x \in Items \ strays', visible'[x] = "private", ~Linked(x)'
               PROVE  ToBeDropped(x)'
    BY DEF OrphansAreDropped, Items
  <2>1. visible[x] = "private" /\ x \notin strays /\ (ToBeDropped(x) \/ Linked(x))
    BY DEF LinkImageDone, CatInv, OrphanInv, OrphansAreDropped, CatTyped, CatalogueTypeOK, Items
  <2> QED BY <1>1, <2>1, RequestFields DEF LinkImageDone, CatInv, CatTyped, CatalogueTypeOK,
  ToBeDropped, DeletionOps, Linked
<1>7. SawItRight'
  BY <1>1 DEF LinkImageDone, CatInv, CatTyped, CatalogueTypeOK, OrphanInv, SawItRight
<1> QED BY <1>2, <1>3, <1>4, <1>5, <1>6, <1>7 DEF DeployInv, OrphanInv

LEMMA StepRequests ==
  ASSUME CatInv, NEW h \in HttpThreads, CatalogueRequest(h) \/ CatalogueStep(h)
  PROVE  \E q \in CatRequest \cup {Idle} : http' = [http EXCEPT ![h] = q]
<1>1. ASSUME NEW t \in Tenants, NewTenant(h, t)
      PROVE  \E q \in CatRequest \cup {Idle} : http' = [http EXCEPT ![h] = q]
  BY <1>1, RequestForms DEF NewTenant, CatInv, CatTyped, CatalogueTypeOK, Items, DeployOps
<1>2. ASSUME NEW t \in Tenants, DeleteTenant(h, t)
      PROVE  \E q \in CatRequest \cup {Idle} : http' = [http EXCEPT ![h] = q]
  BY <1>2, RequestForms DEF DeleteTenant, CatInv, CatTyped, CatalogueTypeOK, Items, DeployOps
<1>3. ASSUME NEW t \in Tenants \cup {Anybody}, NEW i \in Items, NEW v \in {"public", "private"},
             NewItem(h, t, i, v)
      PROVE  \E q \in CatRequest \cup {Idle} : http' = [http EXCEPT ![h] = q]
  BY <1>3, RequestForms DEF NewItem, CatInv, CatTyped, CatalogueTypeOK, Items, DeployOps
<1>4. ASSUME NEW t \in Tenants \cup {Anybody}, NEW i \in Items, NEW v \in {"public", "private"},
             PutItem(h, t, i, v)
      PROVE  \E q \in CatRequest \cup {Idle} : http' = [http EXCEPT ![h] = q]
  BY <1>4, RequestForms DEF PutItem, CatInv, CatTyped, CatalogueTypeOK, Items, DeployOps
<1>5. ASSUME NEW i \in Items, DeleteItemOfAll(h, i)
      PROVE  \E q \in CatRequest \cup {Idle} : http' = [http EXCEPT ![h] = q]
  BY <1>5, RequestForms DEF DeleteItemOfAll, CatInv, CatTyped, CatalogueTypeOK, Items, DeployOps
<1>6. ASSUME NEW t \in Tenants, NEW i \in Items, DeleteItem(h, t, i)
      PROVE  \E q \in CatRequest \cup {Idle} : http' = [http EXCEPT ![h] = q]
  BY <1>6, RequestForms DEF DeleteItem, CatInv, CatTyped, CatalogueTypeOK, Items, DeployOps
<1>7. ASSUME NEW t \in Tenants, NEW i \in Items, AttachItem(h, t, i)
      PROVE  \E q \in CatRequest \cup {Idle} : http' = [http EXCEPT ![h] = q]
  BY <1>7, RequestForms DEF AttachItem, CatInv, CatTyped, CatalogueTypeOK, Items, DeployOps
<1>8. ASSUME NEW t \in Tenants, NEW i \in Items, DetachItem(h, t, i)
      PROVE  \E q \in CatRequest \cup {Idle} : http' = [http EXCEPT ![h] = q]
  BY <1>8, RequestForms DEF DetachItem, CatInv, CatTyped, CatalogueTypeOK, Items, DeployOps
<1>9. ASSUME NEW t \in Tenants, NEW f \in Flavors, NEW m \in Images, Deploy(h, t, f, m)
      PROVE  \E q \in CatRequest \cup {Idle} : http' = [http EXCEPT ![h] = q]
  BY <1>9, RequestForms DEF Deploy, CatInv, CatTyped, CatalogueTypeOK, Items, DeployOps
<1>10. ASSUME NEW s \in servers, Undeploy(h, s)
       PROVE  \E q \in CatRequest \cup {Idle} : http' = [http EXCEPT ![h] = q]
  BY <1>10, RequestForms DEF Undeploy, CatInv, CatTyped, CatalogueTypeOK, Items, DeployOps
<1>11. CASE ShareItems(h)
  BY <1>11, RequestFields, RequestForms DEF ShareItems, CatInv, CatTyped, CatalogueTypeOK, Items,
     DeployOps
<1>12. CASE DeleteTenantRow(h)
  <2>1. http[h].tenant \in Tenants /\ http[h].items \in SUBSET Items
    BY <1>12, RequestFields DEF DeleteTenantRow, CatInv, CatTyped
  <2>2. Ended(h) \/ DeleteTenantRowDone(h)
    BY <1>12, Branches
  <2> QED BY <2>1, <2>2, RequestForms DEF Ended, DeleteTenantRowDone
<1>13. CASE DeleteItemsOfTenant(h)
  BY <1>13, Branches, RequestFields, RequestForms DEF DeleteItemsOfTenant, Ended,
     DeleteItemsOfTenantDone, CatInv,
         CatTyped
<1>14. CASE DeletePrivate(h)
  BY <1>14, RequestFields, RequestForms DEF DeletePrivate, CatInv, CatTyped, CatalogueTypeOK,
     Items, DeployOps
<1>15. CASE InsertLink(h)
  BY <1>15, RequestFields, RequestForms DEF InsertLink, CatInv, CatTyped, CatalogueTypeOK, Items,
     DeployOps
<1>16. CASE DeleteLink(h)
  BY <1>16, Branches, RequestFields, RequestForms DEF DeleteLink, Ended, DeleteLinkDone, CatInv,
     CatTyped
<1>17. CASE DeleteOrphan(h)
  BY <1>17, RequestFields, RequestForms DEF DeleteOrphan, CatInv, CatTyped, CatalogueTypeOK,
     Items, DeployOps
<1>18. CASE UpdateItem(h)
  BY <1>18, RequestFields, RequestForms DEF UpdateItem, CatInv, CatTyped, CatalogueTypeOK, Items,
     DeployOps
<1>19. CASE CheckImage(h)
  <2> DEFINE q == [op |-> IF Linked(http[h].image) THEN "instance" ELSE "link",
              tenant |-> http[h].tenant, flavor |-> http[h].flavor, image |-> http[h].image]
  <2>1. http' = [http EXCEPT ![h] = q] \/ http' = [http EXCEPT ![h] = Idle]
    BY <1>19, RequestGoesOn DEF CheckImage, CatInv, CatTyped, DeployOps
  <2>2. q \in CatRequest
    BY <1>19, RequestForms, RequestFields DEF CheckImage, CatInv, CatTyped, DeployOps
  <2> QED BY <2>1, <2>2
<1>20. CASE LinkImage(h)
  BY <1>20, Branches, RequestFields, RequestForms DEF LinkImage, Ended, LinkImageDone, DeployOps,
     CatInv, CatTyped
<1>21. CASE NewInstance(h)
  BY <1>21, RequestFields, RequestForms DEF NewInstance, CatInv, CatTyped, CatalogueTypeOK,
     Items, DeployOps
<1> QED BY <1>1, <1>2, <1>3, <1>4, <1>5, <1>6, <1>7, <1>8, <1>9, <1>10, <1>11, <1>12, <1>13,
       <1>14, <1>15, <1>16, <1>17, <1>18, <1>19, <1>20, <1>21 DEF CatalogueRequest, CatalogueStep

LEMMA NothingChanges ==
  ASSUME CatInv, UNCHANGED catVars
  PROVE  CatalogueTypeOK' /\ (given \subseteq Items)' /\ ItemInv'
<1>1. CatalogueTypeOK' /\ (given \subseteq Items)'
  BY DEF CatInv, CatTyped, CatalogueTypeOK, catVars, Items
<1>2. UNCHANGED <<visible, links, servers, given>>
  BY DEF catVars
<1>3. ItemInv'
  BY <1>2 DEF CatInv, ItemInv, LinksAreOfItems, ItemsAreGiven, UsedAreLinked, Exist, Linked, Items
<1> QED BY <1>1, <1>3

LEMMA RequestBegins ==
  ASSUME NEW h \in HttpThreads, CatalogueRequest(h)
  PROVE  http[h] = Idle /\ ops' = ops + 1
<1>1. CASE \E t \in Tenants : NewTenant(h, t) \/ DeleteTenant(h, t)
  BY <1>1 DEF NewTenant, DeleteTenant
<1>2. CASE \E t \in Tenants \cup {Anybody}, i \in Items, v \in {"public", "private"} :
             NewItem(h, t, i, v) \/ PutItem(h, t, i, v)
  BY <1>2 DEF NewItem, PutItem
<1>3. CASE \E i \in Items : DeleteItemOfAll(h, i)
  BY <1>3 DEF DeleteItemOfAll
<1>4. CASE \E t \in Tenants, i \in Items :
             DeleteItem(h, t, i) \/ AttachItem(h, t, i) \/ DetachItem(h, t, i)
  BY <1>4 DEF DeleteItem, AttachItem, DetachItem
<1>5. CASE \E t \in Tenants, f \in Flavors, m \in Images : Deploy(h, t, f, m)
  BY <1>5 DEF Deploy
<1>6. CASE \E s \in servers : Undeploy(h, s)
  BY <1>6 DEF Undeploy
<1> QED BY <1>1, <1>2, <1>3, <1>4, <1>5, <1>6 DEF CatalogueRequest

LEMMA CatalogueAside ==
  ASSUME CatInv, NEW h \in HttpThreads, CatalogueRequest(h) \/ CatalogueStep(h)
  PROVE  Aside(NetOps \cup DhcpOps \cup OfcOps)
<1>1. PICK q \in CatRequest \cup {Idle} : http' = [http EXCEPT ![h] = q]
  BY StepRequests
<1>2. "op" \in DOMAIN q /\ q.op \notin NetOps \cup DhcpOps \cup OfcOps
  BY DEF CatRequest, NetOps, DhcpOps, OfcOps, DeployOps, DeletionOps
<1>3. http[h].op \notin NetOps \cup DhcpOps \cup OfcOps
  <2>1. CASE CatalogueRequest(h)
    <3>1. http[h] = Idle
      BY <2>1, RequestBegins
    <3> QED BY <3>1 DEF NetOps, DhcpOps, OfcOps
  <2>2. CASE CatalogueStep(h)
    <3>1. http[h].op \in CatOps
      BY <2>2 DEF CatalogueStep, ShareItems, DeleteTenantRow, DeleteItemsOfTenant, DeletePrivate,
                  InsertLink, DeleteLink, DeleteOrphan, UpdateItem, CheckImage, LinkImage,
                  NewInstance, CatOps, DeployOps, DeletionOps
    <3> QED BY <3>1 DEF CatOps, DeployOps, DeletionOps, NetOps, DhcpOps, OfcOps
  <2> QED BY <2>1, <2>2
<1> QED BY <1>1, <1>2, <1>3, RequestAside DEF CatInv, CatTyped

LEMMA StepTypes ==
  ASSUME CatInv, NEW h \in HttpThreads, CatalogueRequest(h) \/ CatalogueStep(h)
  PROVE  CatalogueTypeOK' /\ (given \subseteq Items)'
<1>1. ASSUME NEW t \in Tenants, NewTenant(h, t) PROVE CatalogueTypeOK' /\ (given \subseteq Items)'
  BY <1>1 DEF NewTenant, CatInv, CatTyped, CatalogueTypeOK, DropItem, Unlink, Items,
         DeployOps, catVars
<1>2. ASSUME NEW t \in Tenants, DeleteTenant(h, t)
      PROVE  CatalogueTypeOK' /\ (given \subseteq Items)'
  BY <1>2, NothingChanges DEF DeleteTenant
<1>3. ASSUME NEW t \in Tenants \cup {Anybody}, NEW i \in Items, NEW v \in {"public", "private"},
             NewItem(h, t, i, v)
      PROVE  CatalogueTypeOK' /\ (given \subseteq Items)'
  BY <1>3 DEF NewItem, CatInv, CatTyped, CatalogueTypeOK, DropItem, Unlink, Items,
         DeployOps, catVars
<1>4. ASSUME NEW t \in Tenants \cup {Anybody}, NEW i \in Items, NEW v \in {"public", "private"},
             PutItem(h, t, i, v)
      PROVE  CatalogueTypeOK' /\ (given \subseteq Items)'
  BY <1>4, NothingChanges DEF PutItem
<1>5. ASSUME NEW i \in Items, DeleteItemOfAll(h, i)
      PROVE  CatalogueTypeOK' /\ (given \subseteq Items)'
  BY <1>5 DEF DeleteItemOfAll, CatInv, CatTyped, CatalogueTypeOK, DropItem, Unlink, Items,
         DeployOps, catVars
<1>6. ASSUME NEW t \in Tenants, NEW i \in Items, DeleteItem(h, t, i)
      PROVE  CatalogueTypeOK' /\ (given \subseteq Items)'
  BY <1>6 DEF DeleteItem, CatInv, CatTyped, CatalogueTypeOK, DropItem, Unlink, Items,
         DeployOps, catVars
<1>7. ASSUME NEW t \in Tenants, NEW i \in Items, AttachItem(h, t, i)
      PROVE  CatalogueTypeOK' /\ (given \subseteq Items)'
  BY <1>7, NothingChanges DEF AttachItem
<1>8. ASSUME NEW t \in Tenants, NEW i \in Items, DetachItem(h, t, i)
      PROVE  CatalogueTypeOK' /\ (given \subseteq Items)'
  BY <1>8, NothingChanges DEF DetachItem
<1>9. ASSUME NEW t \in Tenants, NEW f \in Flavors, NEW m \in Images, Deploy(h, t, f, m)
      PROVE  CatalogueTypeOK' /\ (given \subseteq Items)'
  BY <1>9, NothingChanges DEF Deploy
<1>10. ASSUME NEW s \in servers, Undeploy(h, s) PROVE CatalogueTypeOK' /\ (given \subseteq Items)'
  BY <1>10 DEF Undeploy, CatInv, CatTyped, CatalogueTypeOK, DropItem, Unlink, Items,
         DeployOps, catVars
<1>11. CASE ShareItems(h)
  BY <1>11, RequestFields DEF ShareItems, CatInv, CatTyped, CatalogueTypeOK, DropItem, Unlink,
     Items,
         DeployOps, catVars
<1>12. CASE DeleteTenantRow(h)
  BY <1>12, RequestFields DEF DeleteTenantRow, CatInv, CatTyped, CatalogueTypeOK, DropItem,
     Unlink, Items,
         DeployOps, catVars
<1>13. CASE DeleteItemsOfTenant(h)
  BY <1>13, RequestFields DEF DeleteItemsOfTenant, CatInv, CatTyped, CatalogueTypeOK, DropItem,
     Unlink, Items,
         DeployOps, catVars
<1>14. CASE DeletePrivate(h)
  BY <1>14, RequestFields DEF DeletePrivate, CatInv, CatTyped, CatalogueTypeOK, DropItem, Unlink,
     Items,
         DeployOps, catVars
<1>15. CASE InsertLink(h)
  BY <1>15, RequestFields DEF InsertLink, CatInv, CatTyped, CatalogueTypeOK, DropItem, Unlink,
     Items,
         DeployOps, catVars
<1>16. CASE DeleteLink(h)
  BY <1>16, RequestFields DEF DeleteLink, CatInv, CatTyped, CatalogueTypeOK, DropItem, Unlink,
     Items,
         DeployOps, catVars
<1>17. CASE DeleteOrphan(h)
  BY <1>17, RequestFields DEF DeleteOrphan, CatInv, CatTyped, CatalogueTypeOK, DropItem, Unlink,
     Items,
         DeployOps, catVars
<1>18. CASE UpdateItem(h)
  BY <1>18, RequestFields DEF UpdateItem, CatInv, CatTyped, CatalogueTypeOK, DropItem, Unlink,
     Items,
         DeployOps, catVars
<1>19. CASE CheckImage(h)
  BY <1>19, NothingChanges DEF CheckImage
<1>20. CASE LinkImage(h)
  BY <1>20, RequestFields DEF LinkImage, CatInv, CatTyped, CatalogueTypeOK, DropItem, Unlink, Items,
         DeployOps, catVars
<1>21. CASE NewInstance(h)
  BY <1>21, RequestFields DEF NewInstance, CatInv, CatTyped, CatalogueTypeOK, DropItem, Unlink,
     Items,
         DeployOps, catVars
<1> QED BY <1>1, <1>2, <1>3, <1>4, <1>5, <1>6, <1>7, <1>8, <1>9, <1>10, <1>11, <1>12, <1>13,
       <1>14, <1>15, <1>16, <1>17, <1>18, <1>19, <1>20, <1>21 DEF CatalogueRequest, CatalogueStep

LEMMA StepItems ==
  ASSUME CatInv, NEW h \in HttpThreads, CatalogueRequest(h) \/ CatalogueStep(h)
  PROVE  ItemInv'
<1>1. ASSUME NEW t \in Tenants, NewTenant(h, t) PROVE ItemInv'
  BY <1>1 DEF NewTenant, CatInv, CatTyped, CatalogueTypeOK, ItemInv,
         LinksAreOfItems, ItemsAreGiven, UsedAreLinked, Exist, Linked, InUse, DropItem, Unlink,
         DeployOps, Items
<1>2. ASSUME NEW t \in Tenants, DeleteTenant(h, t) PROVE ItemInv'
  BY <1>2, NothingChanges DEF DeleteTenant
<1>3. ASSUME NEW t \in Tenants \cup {Anybody}, NEW i \in Items, NEW v \in {"public", "private"},
             NewItem(h, t, i, v)
      PROVE  ItemInv'
  BY <1>3 DEF NewItem, CatInv, CatTyped, CatalogueTypeOK, ItemInv,
         LinksAreOfItems, ItemsAreGiven, UsedAreLinked, Exist, Linked, InUse, DropItem, Unlink,
         DeployOps, Items
<1>4. ASSUME NEW t \in Tenants \cup {Anybody}, NEW i \in Items, NEW v \in {"public", "private"},
             PutItem(h, t, i, v)
      PROVE  ItemInv'
  BY <1>4, NothingChanges DEF PutItem
<1>5. ASSUME NEW i \in Items, DeleteItemOfAll(h, i) PROVE ItemInv'
  BY <1>5 DEF DeleteItemOfAll, CatInv, CatTyped, CatalogueTypeOK, ItemInv,
         LinksAreOfItems, ItemsAreGiven, UsedAreLinked, Exist, Linked, InUse, DropItem, Unlink,
         DeployOps, Items
<1>6. ASSUME NEW t \in Tenants, NEW i \in Items, DeleteItem(h, t, i) PROVE ItemInv'
  BY <1>6 DEF DeleteItem, CatInv, CatTyped, CatalogueTypeOK, ItemInv,
         LinksAreOfItems, ItemsAreGiven, UsedAreLinked, Exist, Linked, InUse, DropItem, Unlink,
         DeployOps, Items
<1>7. ASSUME NEW t \in Tenants, NEW i \in Items, AttachItem(h, t, i) PROVE ItemInv'
  BY <1>7, NothingChanges DEF AttachItem
<1>8. ASSUME NEW t \in Tenants, NEW i \in Items, DetachItem(h, t, i) PROVE ItemInv'
  BY <1>8, NothingChanges DEF DetachItem
<1>9. ASSUME NEW t \in Tenants, NEW f \in Flavors, NEW m \in Images, Deploy(h, t, f, m)
      PROVE  ItemInv'
  BY <1>9, NothingChanges DEF Deploy
<1>10. ASSUME NEW s \in servers, Undeploy(h, s) PROVE ItemInv'
  BY <1>10 DEF Undeploy, CatInv, CatTyped, CatalogueTypeOK, ItemInv,
         LinksAreOfItems, ItemsAreGiven, UsedAreLinked, Exist, Linked, InUse, DropItem, Unlink,
         DeployOps, Items
<1>11. CASE ShareItems(h)
  BY <1>11, RequestFields DEF ShareItems, CatInv, CatTyped, CatalogueTypeOK, ItemInv,
         LinksAreOfItems, ItemsAreGiven, UsedAreLinked, Exist, Linked, InUse, DropItem, Unlink,
         DeployOps, Items
<1>12. CASE DeleteTenantRow(h)
  BY <1>12, Branches, EndedCat, DeleteTenantRowKeeps DEF DeleteTenantRow, DeletionOps
<1>13. CASE DeleteItemsOfTenant(h)
  BY <1>13, Branches, EndedCat, DeleteItemsOfTenantKeeps DEF DeleteItemsOfTenant, DeletionOps
<1>14. CASE DeletePrivate(h)
  BY <1>14, RequestFields DEF DeletePrivate, CatInv, CatTyped, CatalogueTypeOK, ItemInv,
         LinksAreOfItems, ItemsAreGiven, UsedAreLinked, Exist, Linked, InUse, DropItem, Unlink,
         DeployOps, Items
<1>15. CASE InsertLink(h)
  BY <1>15, RequestFields DEF InsertLink, CatInv, CatTyped, CatalogueTypeOK, ItemInv,
         LinksAreOfItems, ItemsAreGiven, UsedAreLinked, Exist, Linked, InUse, DropItem, Unlink,
         DeployOps, Items
<1>16. CASE DeleteLink(h)
  BY <1>16, Branches, EndedCat, DeleteLinkKeeps DEF DeleteLink, DeletionOps
<1>17. CASE DeleteOrphan(h)
  BY <1>17, RequestFields DEF DeleteOrphan, CatInv, CatTyped, CatalogueTypeOK, ItemInv,
         LinksAreOfItems, ItemsAreGiven, UsedAreLinked, Exist, Linked, InUse, DropItem, Unlink,
         DeployOps, Items
<1>18. CASE UpdateItem(h)
  BY <1>18, RequestFields DEF UpdateItem, CatInv, CatTyped, CatalogueTypeOK, ItemInv,
         LinksAreOfItems, ItemsAreGiven, UsedAreLinked, Exist, Linked, InUse, DropItem, Unlink,
         DeployOps, Items
<1>19. CASE CheckImage(h)
  BY <1>19, NothingChanges DEF CheckImage
<1>20. CASE LinkImage(h)
  BY <1>20, Branches, EndedCat, LinkImageKeeps DEF LinkImage, DeletionOps
<1>21. CASE NewInstance(h)
  BY <1>21, RequestFields DEF NewInstance, CatInv, CatTyped, CatalogueTypeOK, ItemInv,
         LinksAreOfItems, ItemsAreGiven, UsedAreLinked, Exist, Linked, InUse, DropItem, Unlink,
         DeployOps, Items
<1> QED BY <1>1, <1>2, <1>3, <1>4, <1>5, <1>6, <1>7, <1>8, <1>9, <1>10, <1>11, <1>12, <1>13,
       <1>14, <1>15, <1>16, <1>17, <1>18, <1>19, <1>20, <1>21 DEF CatalogueRequest, CatalogueStep

LEMMA StepDeploys ==
  ASSUME CatInv, NEW h \in HttpThreads, CatalogueRequest(h) \/ CatalogueStep(h)
  PROVE  DeployInv'
<1>1. ASSUME NEW t \in Tenants, NewTenant(h, t) PROVE DeployInv'
  BY <1>1 DEF NewTenant, CatInv, CatTyped, HttpTyped, CatalogueTypeOK, ItemInv,
         LinksAreOfItems, ItemsAreGiven, UsedAreLinked, Exist, Linked, InUse, DropItem, Unlink,
         DeployOps, catVars,
         DeployInv, FlavorIsKept, ImageIsKept, ServersHaveTheirItems, Deploying, Sees, Items
<1>2. ASSUME NEW t \in Tenants, DeleteTenant(h, t) PROVE DeployInv'
  BY <1>2 DEF DeleteTenant, CatInv, CatTyped, HttpTyped, CatalogueTypeOK, ItemInv,
         LinksAreOfItems, ItemsAreGiven, UsedAreLinked, Exist, Linked, InUse, DropItem, Unlink,
         DeployOps, catVars,
         DeployInv, FlavorIsKept, ImageIsKept, ServersHaveTheirItems, Deploying, Sees, Items
<1>3. ASSUME NEW t \in Tenants \cup {Anybody}, NEW i \in Items, NEW v \in {"public", "private"},
             NewItem(h, t, i, v)
      PROVE  DeployInv'
  BY <1>3 DEF NewItem, CatInv, CatTyped, HttpTyped, CatalogueTypeOK, ItemInv,
         LinksAreOfItems, ItemsAreGiven, UsedAreLinked, Exist, Linked, InUse, DropItem, Unlink,
         DeployOps, catVars,
         DeployInv, FlavorIsKept, ImageIsKept, ServersHaveTheirItems, Deploying, Sees, Items
<1>4. ASSUME NEW t \in Tenants \cup {Anybody}, NEW i \in Items, NEW v \in {"public", "private"},
             PutItem(h, t, i, v)
      PROVE  DeployInv'
  BY <1>4 DEF PutItem, CatInv, CatTyped, HttpTyped, CatalogueTypeOK, ItemInv,
         LinksAreOfItems, ItemsAreGiven, UsedAreLinked, Exist, Linked, InUse, DropItem, Unlink,
         DeployOps, catVars,
         DeployInv, FlavorIsKept, ImageIsKept, ServersHaveTheirItems, Deploying, Sees, Items
<1>5. ASSUME NEW i \in Items, DeleteItemOfAll(h, i) PROVE DeployInv'
  BY <1>5 DEF DeleteItemOfAll, CatInv, CatTyped, HttpTyped, CatalogueTypeOK, ItemInv,
         LinksAreOfItems, ItemsAreGiven, UsedAreLinked, Exist, Linked, InUse, DropItem, Unlink,
         DeployOps, catVars,
         DeployInv, FlavorIsKept, ImageIsKept, ServersHaveTheirItems, Deploying, Sees, Items
<1>6. ASSUME NEW t \in Tenants, NEW i \in Items, DeleteItem(h, t, i) PROVE DeployInv'
  BY <1>6 DEF DeleteItem, CatInv, CatTyped, HttpTyped, CatalogueTypeOK, ItemInv,
         LinksAreOfItems, ItemsAreGiven, UsedAreLinked, Exist, Linked, InUse, DropItem, Unlink,
         DeployOps, catVars,
         DeployInv, FlavorIsKept, ImageIsKept, ServersHaveTheirItems, Deploying, Sees, Items
<1>7. ASSUME NEW t \in Tenants, NEW i \in Items, AttachItem(h, t, i) PROVE DeployInv'
  BY <1>7 DEF AttachItem, CatInv, CatTyped, HttpTyped, CatalogueTypeOK, ItemInv,
         LinksAreOfItems, ItemsAreGiven, UsedAreLinked, Exist, Linked, InUse, DropItem, Unlink,
         DeployOps, catVars,
         DeployInv, FlavorIsKept, ImageIsKept, ServersHaveTheirItems, Deploying, Sees, Items
<1>8. ASSUME NEW t \in Tenants, NEW i \in Items, DetachItem(h, t, i) PROVE DeployInv'
  BY <1>8 DEF DetachItem, CatInv, CatTyped, HttpTyped, CatalogueTypeOK, ItemInv,
         LinksAreOfItems, ItemsAreGiven, UsedAreLinked, Exist, Linked, InUse, DropItem, Unlink,
         DeployOps, catVars,
         DeployInv, FlavorIsKept, ImageIsKept, ServersHaveTheirItems, Deploying, Sees, Items
<1>9. ASSUME NEW t \in Tenants, NEW f \in Flavors, NEW m \in Images, Deploy(h, t, f, m)
      PROVE  DeployInv'
  BY <1>9 DEF Deploy, CatInv, CatTyped, HttpTyped, CatalogueTypeOK, ItemInv,
         LinksAreOfItems, ItemsAreGiven, UsedAreLinked, Exist, Linked, InUse, DropItem, Unlink,
         DeployOps, catVars,
         DeployInv, FlavorIsKept, ImageIsKept, ServersHaveTheirItems, Deploying, Sees, Items
<1>10. ASSUME NEW s \in servers, Undeploy(h, s) PROVE DeployInv'
  BY <1>10 DEF Undeploy, CatInv, CatTyped, HttpTyped, CatalogueTypeOK, ItemInv,
         LinksAreOfItems, ItemsAreGiven, UsedAreLinked, Exist, Linked, InUse, DropItem, Unlink,
         DeployOps, catVars,
         DeployInv, FlavorIsKept, ImageIsKept, ServersHaveTheirItems, Deploying, Sees, Items
<1>11. CASE ShareItems(h)
  BY <1>11, RequestFields, RequestGoesOn DEF ShareItems, CatInv, CatTyped, HttpTyped,
     CatalogueTypeOK, ItemInv,
         LinksAreOfItems, ItemsAreGiven, UsedAreLinked, Exist, Linked, InUse, DropItem, Unlink,
         DeployOps, catVars,
         DeployInv, FlavorIsKept, ImageIsKept, ServersHaveTheirItems, Deploying, Sees, Items
<1>12. CASE DeleteTenantRow(h)
  BY <1>12, Branches, EndedCat, DeleteTenantRowKeeps DEF DeleteTenantRow, DeletionOps
<1>13. CASE DeleteItemsOfTenant(h)
  BY <1>13, Branches, EndedCat, DeleteItemsOfTenantKeeps DEF DeleteItemsOfTenant, DeletionOps
<1>14. CASE DeletePrivate(h)
  BY <1>14, RequestFields, RequestGoesOn, ZenonT(60) DEF DeletePrivate, CatInv, CatTyped, HttpTyped,
     CatalogueTypeOK, ItemInv,
         LinksAreOfItems, ItemsAreGiven, UsedAreLinked, Exist, Linked, InUse, DropItem, Unlink,
         DeployOps, catVars,
         DeployInv, FlavorIsKept, ImageIsKept, ServersHaveTheirItems, Deploying, Sees, Items
<1>15. CASE InsertLink(h)
  BY <1>15, RequestFields, RequestGoesOn DEF InsertLink, CatInv, CatTyped, HttpTyped,
     CatalogueTypeOK, ItemInv,
         LinksAreOfItems, ItemsAreGiven, UsedAreLinked, Exist, Linked, InUse, DropItem, Unlink,
         DeployOps, catVars,
         DeployInv, FlavorIsKept, ImageIsKept, ServersHaveTheirItems, Deploying, Sees, Items
<1>16. CASE DeleteLink(h)
  BY <1>16, Branches, EndedCat, DeleteLinkKeeps DEF DeleteLink, DeletionOps
<1>17. CASE DeleteOrphan(h)
  BY <1>17, RequestFields, RequestGoesOn, ZenonT(60) DEF DeleteOrphan, CatInv, CatTyped, HttpTyped,
     CatalogueTypeOK, ItemInv,
         LinksAreOfItems, ItemsAreGiven, UsedAreLinked, Exist, Linked, InUse, DropItem, Unlink,
         DeployOps, catVars,
         DeployInv, FlavorIsKept, ImageIsKept, ServersHaveTheirItems, Deploying, Sees, Items
<1>18. CASE UpdateItem(h)
  BY <1>18, RequestFields, RequestGoesOn, ZenonT(60) DEF UpdateItem, CatInv, CatTyped, HttpTyped,
     CatalogueTypeOK, ItemInv,
         LinksAreOfItems, ItemsAreGiven, UsedAreLinked, Exist, Linked, InUse, DropItem, Unlink,
         DeployOps, catVars,
         DeployInv, FlavorIsKept, ImageIsKept, ServersHaveTheirItems, Deploying, Sees, Items
<1>19. CASE CheckImage(h)
  <2> DEFINE q == [op |-> IF Linked(http[h].image) THEN "instance" ELSE "link",
                   tenant |-> http[h].tenant, flavor |-> http[h].flavor, image |-> http[h].image]
  <2>1. http[h].op = "image" /\ UNCHANGED catVars
    BY <1>19 DEF CheckImage
  <2>2. \/ http' = [http EXCEPT ![h] = q] /\ Sees(http[h].tenant, http[h].image)
        \/ http' = [http EXCEPT ![h] = Idle]
    BY <1>19, RequestGoesOn DEF CheckImage, CatInv, CatTyped, DeployOps
  <2> HIDE DEF q
  <2>3. \A k \in HttpThreads \ {h} : http'[k] = http[k]
    BY <2>2 DEF CatInv, CatTyped, HttpTyped
  <2>4. \/ http'[h] = q /\ Sees(http[h].tenant, http[h].image)
        \/ http'[h] = Idle
    BY <2>2 DEF CatInv, CatTyped, HttpTyped
  <2>5. \/ http'[h].op = "idle"
        \/ /\ Sees(http[h].tenant, http[h].image)
           /\ http'[h].tenant = http[h].tenant
           /\ http'[h].flavor = http[h].flavor
           /\ http'[h].image = http[h].image
    BY <2>4 DEF q
  <2>6. Sees(http[h].tenant, http[h].image) =>
          <<http[h].tenant, http[h].image>> \in links \/ visible[http[h].image] = "public"
    BY <2>1, RequestFields, ItemsAreTold DEF Sees, CatInv, CatTyped, DeployOps
  <2>7. FlavorIsKept'
    BY <2>1, <2>3, <2>5 DEF catVars, FlavorIsKept, CatInv, DeployInv, DeployOps
  <2>8. ImageIsKept'
    BY <2>1, <2>3, <2>5, <2>6 DEF catVars, ImageIsKept, CatInv, DeployInv
  <2>9. ServersHaveTheirItems'
    BY <2>1 DEF catVars, ServersHaveTheirItems, CatInv, DeployInv
  <2> QED BY <2>7, <2>8, <2>9 DEF DeployInv
<1>20. CASE LinkImage(h)
  BY <1>20, Branches, EndedCat, LinkImageKeeps DEF LinkImage, DeletionOps
<1>21. CASE NewInstance(h)
  <2> DEFINE s == [tenant |-> http[h].tenant, flavor |-> http[h].flavor, image |-> http[h].image]
  <2>1. /\ http[h].op = "instance"
        /\ http' = [http EXCEPT ![h] = Idle]
        /\ UNCHANGED <<visible, links, given, strays, late>>
        /\ servers' = servers \/ (servers' = servers \cup {s} /\ Linked(s.image))
    BY <1>21 DEF NewInstance
  <2>2. \A k \in HttpThreads : http'[k] = IF k = h THEN Idle ELSE http[k]
    BY <2>1 DEF CatInv, CatTyped, HttpTyped
  <2>3. FlavorIsKept' /\ ImageIsKept'
    BY <2>1, <2>2 DEF FlavorIsKept, ImageIsKept, CatInv, DeployInv, DeployOps
  <2>4. <<s.tenant, s.flavor>> \in links \/ s.flavor \in late
    BY <2>1 DEF FlavorIsKept, CatInv, DeployInv, DeployOps
  <2>5. ASSUME Linked(s.image)
        PROVE  \/ <<s.tenant, s.image>> \in links
               \/ visible[s.image] = "public"
               \/ s.image \in late \cup strays
    <3>1. visible[http[h].image] # "no"
      BY <2>1, <2>5, RequestFields DEF Linked, CatInv, CatTyped, ItemInv, LinksAreOfItems, Exist,
         Items,
                                       DeployOps
    <3> QED BY <2>1, <3>1 DEF ImageIsKept, CatInv, DeployInv
  <2>6. ServersHaveTheirItems'
    <3> HIDE DEF s
    <3> QED BY <2>1, <2>4, <2>5 DEF ServersHaveTheirItems, CatInv, DeployInv
  <2> QED BY <2>3, <2>6 DEF DeployInv
<1> QED BY <1>1, <1>2, <1>3, <1>4, <1>5, <1>6, <1>7, <1>8, <1>9, <1>10, <1>11, <1>12, <1>13,
       <1>14, <1>15, <1>16, <1>17, <1>18, <1>19, <1>20, <1>21 DEF CatalogueRequest, CatalogueStep

LEMMA StepOrphans ==
  ASSUME CatInv, NEW h \in HttpThreads, CatalogueRequest(h) \/ CatalogueStep(h)
  PROVE  OrphanInv'
<1>1. ASSUME NEW t \in Tenants, NewTenant(h, t) PROVE OrphanInv'
  <2>1. http[h] = Idle
       /\ \A k \in HttpThreads : http'[k] =
            IF k = h THEN [op |-> "share", tenant |-> t] ELSE http[k]
    BY <1>1 DEF NewTenant, CatInv, CatTyped, HttpTyped
  <2>2. \A x : ToBeDropped(x) => ToBeDropped(x)'
    BY <2>1 DEF ToBeDropped, DeletionOps
  <2>3. OrphansAreDropped'
    BY <1>1, <2>1, <2>2 DEF NewTenant, OrphansAreDropped, CatInv, CatTyped, CatalogueTypeOK,
       ItemInv, LinksAreOfItems, ItemsAreGiven,
           Exist, Linked, DropItem, Unlink, catVars, OrphanInv, Items
  <2>4. SawItRight'
    BY <1>1, <2>1 DEF NewTenant, SawItRight, CatInv, CatTyped, CatalogueTypeOK, ItemInv,
       LinksAreOfItems, ItemsAreGiven,
           Exist, Linked, DropItem, Unlink, catVars, OrphanInv, Items
  <2> QED BY <2>3, <2>4 DEF OrphanInv
<1>2. ASSUME NEW t \in Tenants, DeleteTenant(h, t) PROVE OrphanInv'
  <2>1. (\A k \in HttpThreads \ {h} : http'[k] = http[k])
    BY <1>2 DEF DeleteTenant, CatInv, CatTyped, HttpTyped
  <2>2. http[h] = Idle /\ http'[h].op = "delete_row"
    BY <1>2, RequestFields, RequestGoesOn DEF DeleteTenant, CatInv, CatTyped, HttpTyped, DeployOps
  <2>3. OrphansAreDropped'
    BY <1>2, <2>1, <2>2, RequestFields DEF DeleteTenant, OrphansAreDropped, ToBeDropped,
       DeletionOps, CatInv, CatTyped, CatalogueTypeOK, ItemInv, LinksAreOfItems, ItemsAreGiven,
           Exist, Linked, DropItem, Unlink, catVars, OrphanInv, Items
  <2>4. SawItRight'
    BY <1>2, <2>1, <2>2 DEF DeleteTenant, SawItRight, CatInv, CatTyped, CatalogueTypeOK, ItemInv,
       LinksAreOfItems, ItemsAreGiven,
           Exist, Linked, DropItem, Unlink, catVars, OrphanInv, Items
  <2> QED BY <2>3, <2>4 DEF OrphanInv
<1>3. ASSUME NEW t \in Tenants \cup {Anybody}, NEW i \in Items, NEW v \in {"public", "private"},
             NewItem(h, t, i, v)
      PROVE  OrphanInv'
  BY <1>3 DEF NewItem, CatInv, CatTyped, HttpTyped, CatalogueTypeOK, ItemInv,
         LinksAreOfItems, ItemsAreGiven, Exist, Linked, DropItem, Unlink, DeletionOps, catVars,
         OrphanInv, OrphansAreDropped, SawItRight, ToBeDropped, Items
<1>4. ASSUME NEW t \in Tenants \cup {Anybody}, NEW i \in Items, NEW v \in {"public", "private"},
             PutItem(h, t, i, v)
      PROVE  OrphanInv'
  <2>1. http[h] = Idle
       /\ \A k \in HttpThreads : http'[k] =
            IF k = h THEN [op |-> "put", item |-> i, value |-> v] ELSE http[k]
    BY <1>4 DEF PutItem, CatInv, CatTyped, HttpTyped
  <2>2. \A x : ToBeDropped(x) => ToBeDropped(x)'
    BY <2>1 DEF ToBeDropped, DeletionOps
  <2>3. OrphansAreDropped'
    BY <1>4, <2>1, <2>2 DEF PutItem, OrphansAreDropped, CatInv, CatTyped, CatalogueTypeOK,
       ItemInv, LinksAreOfItems, ItemsAreGiven,
           Exist, Linked, DropItem, Unlink, catVars, OrphanInv, Items
  <2>4. SawItRight'
    BY <1>4, <2>1 DEF PutItem, SawItRight, CatInv, CatTyped, CatalogueTypeOK, ItemInv,
       LinksAreOfItems, ItemsAreGiven,
           Exist, Linked, DropItem, Unlink, catVars, OrphanInv, Items
  <2> QED BY <2>3, <2>4 DEF OrphanInv
<1>5. ASSUME NEW i \in Items, DeleteItemOfAll(h, i) PROVE OrphanInv'
  BY <1>5 DEF DeleteItemOfAll, CatInv, CatTyped, HttpTyped, CatalogueTypeOK, ItemInv,
         LinksAreOfItems, ItemsAreGiven, Exist, Linked, DropItem, Unlink, DeletionOps, catVars,
         OrphanInv, OrphansAreDropped, SawItRight, ToBeDropped, Items
<1>6. ASSUME NEW t \in Tenants, NEW i \in Items, DeleteItem(h, t, i) PROVE OrphanInv'
  <2>1. http[h] = Idle
       /\ \A k \in HttpThreads : http'[k] =
            IF k = h THEN [op |-> "delete_private", item |-> i] ELSE http[k]
    BY <1>6 DEF DeleteItem, CatInv, CatTyped, HttpTyped
  <2>2. (\A x : ToBeDropped(x) => ToBeDropped(x)') /\ ToBeDropped(i)'
    BY <2>1 DEF ToBeDropped, DeletionOps
  <2>3. OrphansAreDropped'
    BY <1>6, <2>1, <2>2 DEF DeleteItem, OrphansAreDropped, CatInv, CatTyped, CatalogueTypeOK,
       ItemInv, LinksAreOfItems, ItemsAreGiven,
           Exist, Linked, DropItem, Unlink, catVars, OrphanInv, Items
  <2>4. SawItRight'
    BY <1>6, <2>1 DEF DeleteItem, SawItRight, CatInv, CatTyped, CatalogueTypeOK, ItemInv,
       LinksAreOfItems, ItemsAreGiven,
           Exist, Linked, DropItem, Unlink, catVars, OrphanInv, Items
  <2> QED BY <2>3, <2>4 DEF OrphanInv
<1>7. ASSUME NEW t \in Tenants, NEW i \in Items, AttachItem(h, t, i) PROVE OrphanInv'
  <2>1. http[h] = Idle
       /\ \A k \in HttpThreads : http'[k] =
            IF k = h THEN [op |-> "attach", tenant |-> t, item |-> i] ELSE http[k]
    BY <1>7 DEF AttachItem, CatInv, CatTyped, HttpTyped
  <2>2. \A x : ToBeDropped(x) => ToBeDropped(x)'
    BY <2>1 DEF ToBeDropped, DeletionOps
  <2>3. OrphansAreDropped'
    BY <1>7, <2>1, <2>2 DEF AttachItem, OrphansAreDropped, CatInv, CatTyped, CatalogueTypeOK,
       ItemInv, LinksAreOfItems, ItemsAreGiven,
           Exist, Linked, DropItem, Unlink, catVars, OrphanInv, Items
  <2>4. SawItRight'
    BY <1>7, <2>1 DEF AttachItem, SawItRight, CatInv, CatTyped, CatalogueTypeOK, ItemInv,
       LinksAreOfItems, ItemsAreGiven,
           Exist, Linked, DropItem, Unlink, catVars, OrphanInv, Items
  <2> QED BY <2>3, <2>4 DEF OrphanInv
<1>8. ASSUME NEW t \in Tenants, NEW i \in Items, DetachItem(h, t, i) PROVE OrphanInv'
  <2>1. http[h] = Idle
       /\ \A k \in HttpThreads : http'[k] =
            IF k = h THEN [op |-> "detach", tenant |-> t, item |-> i,
                                                               saw |-> visible[i]] ELSE http[k]
    BY <1>8 DEF DetachItem, CatInv, CatTyped, HttpTyped
  <2>2. \A x : ToBeDropped(x) => ToBeDropped(x)'
    BY <2>1 DEF ToBeDropped, DeletionOps
  <2>3. OrphansAreDropped'
    BY <1>8, <2>1, <2>2 DEF DetachItem, OrphansAreDropped, CatInv, CatTyped, CatalogueTypeOK,
       ItemInv, LinksAreOfItems, ItemsAreGiven,
           Exist, Linked, DropItem, Unlink, catVars, OrphanInv, Items
  <2>4. SawItRight'
    BY <1>8, <2>1 DEF DetachItem, SawItRight, CatInv, CatTyped, CatalogueTypeOK, ItemInv,
       LinksAreOfItems, ItemsAreGiven,
           Exist, Linked, DropItem, Unlink, catVars, OrphanInv, Items
  <2> QED BY <2>3, <2>4 DEF OrphanInv
<1>9. ASSUME NEW t \in Tenants, NEW f \in Flavors, NEW m \in Images, Deploy(h, t, f, m)
      PROVE  OrphanInv'
  <2>1. http[h] = Idle
       /\ \A k \in HttpThreads : http'[k] =
            IF k = h THEN [op |-> "image", tenant |-> t, flavor |-> f, image |-> m] ELSE http[k]
    BY <1>9 DEF Deploy, CatInv, CatTyped, HttpTyped
  <2>2. \A x : ToBeDropped(x) => ToBeDropped(x)'
    BY <2>1 DEF ToBeDropped, DeletionOps
  <2>3. OrphansAreDropped'
    BY <1>9, <2>1, <2>2 DEF Deploy, OrphansAreDropped, CatInv, CatTyped, CatalogueTypeOK,
       ItemInv, LinksAreOfItems, ItemsAreGiven,
           Exist, Linked, DropItem, Unlink, catVars, OrphanInv, Items
  <2>4. SawItRight'
    BY <1>9, <2>1 DEF Deploy, SawItRight, CatInv, CatTyped, CatalogueTypeOK, ItemInv,
       LinksAreOfItems, ItemsAreGiven,
           Exist, Linked, DropItem, Unlink, catVars, OrphanInv, Items
  <2> QED BY <2>3, <2>4 DEF OrphanInv
<1>10. ASSUME NEW s \in servers, Undeploy(h, s) PROVE OrphanInv'
  BY <1>10 DEF Undeploy, CatInv, CatTyped, HttpTyped, CatalogueTypeOK, ItemInv,
         LinksAreOfItems, ItemsAreGiven, Exist, Linked, DropItem, Unlink, DeletionOps, catVars,
         OrphanInv, OrphansAreDropped, SawItRight, ToBeDropped, Items
<1>11. CASE ShareItems(h)
  BY <1>11, RequestFields, RequestGoesOn DEF ShareItems, CatInv, CatTyped, HttpTyped,
     CatalogueTypeOK, ItemInv,
         LinksAreOfItems, ItemsAreGiven, Exist, Linked, DropItem, Unlink, DeletionOps, catVars,
         OrphanInv, OrphansAreDropped, SawItRight, ToBeDropped, Items
<1>12. CASE DeleteTenantRow(h)
  BY <1>12, Branches, EndedCat, DeleteTenantRowKeeps DEF DeleteTenantRow, DeletionOps
<1>13. CASE DeleteItemsOfTenant(h)
  BY <1>13, Branches, EndedCat, DeleteItemsOfTenantKeeps DEF DeleteItemsOfTenant, DeletionOps
<1>14. CASE DeletePrivate(h)
  BY <1>14, RequestFields, RequestGoesOn, ZenonT(60) DEF DeletePrivate, CatInv, CatTyped, HttpTyped,
     CatalogueTypeOK, ItemInv,
         LinksAreOfItems, ItemsAreGiven, Exist, Linked, DropItem, Unlink, DeletionOps, catVars,
         OrphanInv, OrphansAreDropped, SawItRight, ToBeDropped, Items
<1>15. CASE InsertLink(h)
  BY <1>15, RequestFields, RequestGoesOn DEF InsertLink, CatInv, CatTyped, HttpTyped,
     CatalogueTypeOK, ItemInv,
         LinksAreOfItems, ItemsAreGiven, Exist, Linked, DropItem, Unlink, DeletionOps, catVars,
         OrphanInv, OrphansAreDropped, SawItRight, ToBeDropped, Items
<1>16. CASE DeleteLink(h)
  BY <1>16, Branches, EndedCat, DeleteLinkKeeps DEF DeleteLink, DeletionOps
<1>17. CASE DeleteOrphan(h)
  BY <1>17, RequestFields, RequestGoesOn, ZenonT(60) DEF DeleteOrphan, CatInv, CatTyped, HttpTyped,
     CatalogueTypeOK, ItemInv,
         LinksAreOfItems, ItemsAreGiven, Exist, Linked, DropItem, Unlink, DeletionOps, catVars,
         OrphanInv, OrphansAreDropped, SawItRight, ToBeDropped, Items
<1>18. CASE UpdateItem(h)
  BY <1>18, RequestFields, RequestGoesOn DEF UpdateItem, CatInv, CatTyped, HttpTyped,
     CatalogueTypeOK, ItemInv,
         LinksAreOfItems, ItemsAreGiven, Exist, Linked, DropItem, Unlink, DeletionOps, catVars,
         OrphanInv, OrphansAreDropped, SawItRight, ToBeDropped, Items
<1>19. CASE CheckImage(h)
  BY <1>19, RequestFields, RequestGoesOn DEF CheckImage, CatInv, CatTyped, HttpTyped,
     CatalogueTypeOK, ItemInv,
         LinksAreOfItems, ItemsAreGiven, Exist, Linked, DropItem, Unlink, DeletionOps, catVars,
         OrphanInv, OrphansAreDropped, SawItRight, ToBeDropped, Items
<1>20. CASE LinkImage(h)
  BY <1>20, Branches, EndedCat, LinkImageKeeps DEF LinkImage, DeletionOps
<1>21. CASE NewInstance(h)
  BY <1>21, RequestFields, RequestGoesOn DEF NewInstance, CatInv, CatTyped, HttpTyped,
     CatalogueTypeOK, ItemInv,
         LinksAreOfItems, ItemsAreGiven, Exist, Linked, DropItem, Unlink, DeletionOps, catVars,
         OrphanInv, OrphansAreDropped, SawItRight, ToBeDropped, Items
<1> QED BY <1>1, <1>2, <1>3, <1>4, <1>5, <1>6, <1>7, <1>8, <1>9, <1>10, <1>11, <1>12, <1>13,
       <1>14, <1>15, <1>16, <1>17, <1>18, <1>19, <1>20, <1>21 DEF CatalogueRequest, CatalogueStep

-----------------------------------------------------------------------------

LEMMA NextCat ==
  ASSUME CatInv, [Next]_vars
  PROVE  CatInv'
<1>1. ASSUME NEW h \in HttpThreads, CatalogueRequest(h) \/ CatalogueStep(h)
      PROVE  CatInv'
  <2>1. CatTyped'
    BY <1>1, StepRequests, StepTypes, NewRequest DEF CatInv, CatTyped
  <2> QED BY <1>1, <2>1, StepItems, StepDeploys, StepOrphans DEF CatInv
<1>2. CASE \E h \in HttpThreads :
             /\ NetworkRequest(h) \/ NetworkStep(h)
             /\ UNCHANGED <<dhcpVars, catVars, ofcVars, area>>
  <2>1. Aside(CatOps \cup (DhcpOps \cup OfcOps))
    BY <1>2, NetworksAside DEF CatInv, CatTyped
  <2> QED BY <1>2, <2>1, AsideOfMore, AsideCat
<1>3. CASE /\ \/ \E h \in HttpThreads : (area = "servers" /\ DhcpRequest(h)) \/ DhcpStep(h)
              \/ \E m \in Macs : MacStep(m)
              \/ ThreadStep
              \/ DhcpEnvironment
           /\ UNCHANGED <<netVars, catVars, ofcVars, area>>
  <2>1. Aside(CatOps \cup (NetOps \cup OfcOps))
    BY <1>3, DhcpAside DEF CatInv, CatTyped
  <2> QED BY <1>3, <2>1, AsideOfMore, AsideCat
<1>4. CASE /\ \/ \E h \in HttpThreads : (area = "controllers" /\ OfcRequest(h)) \/ OfcStep(h)
              \/ \E c \in Known : TakeOfTask(c)
           /\ UNCHANGED <<netVars, dhcpVars, catVars, area>>
  <2>1. Aside(CatOps \cup (NetOps \cup DhcpOps))
    BY <1>4, ControllersAside DEF CatInv, CatTyped
  <2> QED BY <1>4, <2>1, AsideOfMore, AsideCat
<1>5. CASE Restart
  BY <1>5, RestartCat
<1>6. CASE UNCHANGED vars
  BY <1>6, AsideCat DEF vars, Aside
<1> QED BY <1>1, <1>2, <1>3, <1>4, <1>5, <1>6 DEF Next

\* The strengthening of the two theorems below is an invariant, whatever the
\* requests of the other areas, the dhcp thread and stops of the process do.
THEOREM CatalogueInvariant == Spec => []CatInv
<1>1. Init => CatInv
  BY InitCat
<1>2. CatInv /\ [Next]_vars => CatInv'
  BY NextCat
<1> QED BY <1>1, <1>2, PTL DEF Spec

\* A private flavor or image that no tenant has left is deleted, but for the
\* exceptions that NoOrphans names.
THEOREM ItemsAreNotOrphaned == Spec => []NoOrphans
<1>1. CatInv => NoOrphans
  BY DEF CatInv, OrphanInv, OrphansAreDropped, NoOrphans, AllAnswered, ToBeDropped, DeletionOps
<1> QED BY <1>1, CatalogueInvariant, PTL

\* A server has the flavor and the image of its tenant, although the keys of
\* the database only ask for those of any tenant.
THEOREM ServersKeepTheirItems == Spec => []ServersHaveTheirItems
<1>1. CatInv => ServersHaveTheirItems
  BY DEF CatInv, DeployInv
<1> QED BY <1>1, CatalogueInvariant, PTL

-----------------------------------------------------------------------------
(* The VLANs of networks *)

\* The requests on networks, as far as their VLANs are concerned.
VlanRequest(r) ==
  /\ r.op \in {"choose", "insert"} =>
       /\ {"op", "net", "row", "chosen"} \subseteq DOMAIN r
       /\ r.net \in Nets
       /\ r.row \in Row
  /\ r.op = "choose" => r.row.bridge = None
  /\ r.op = "insert" => r.chosen \in BOOLEAN
  /\ r.op = "insert" /\ r.row.bridge = None => r.row.vlan \in Nat
  /\ r.op = "update" =>
       /\ r.net \in Nets
       /\ \/ r.column = "vlan" /\ r.value \in Explicit
          \/ r.column = "bridge" /\ r.value \in Bridges
          \/ r.column = "name" /\ r.value \in Names

VlanList == [last : (FirstVlan - 1)..(EndVlan - 1), used : (SUBSET Nat) \cup {None}]

DataNetsHaveVlans == \A n \in Nets : Exists(n) /\ nets[n].bridge = None => nets[n].vlan \in Nat

VlanTyped ==
  /\ \A h \in HttpThreads : VlanRequest(http[h])
  /\ nets \in [Nets -> Row \cup {None}]
  /\ made \subseteq Nets
  /\ DataNetsHaveVlans
  /\ cache \in [HttpThreads -> VlanList]
  /\ unseen \in [HttpThreads -> SUBSET Nat]

\* The VLANs that the list tells of: those after last, to the end of the list
\* or, if it has all, to the end.
Covers(list, v) ==
  /\ list.last < v
  /\ Cardinality(list.used) # ListSize \/ \E u \in list.used : v <= u

ListIsTrue(h) ==
  cache[h].used # None =>
    \A v \in VlansInUse : Covers(cache[h], v) => v \in cache[h].used \cup unseen[h]

ChosenIsLast(h) ==
  http[h].op = "insert" /\ http[h].chosen =>
    /\ http[h].row.bridge = None
    /\ http[h].row.vlan = cache[h].last
    /\ http[h].row.vlan \in VlansInUse => http[h].row.vlan \in unseen[h]

VlanInv == VlanTyped /\ \A h \in HttpThreads : ListIsTrue(h) /\ ChosenIsLast(h)

LEMMA VlansAreFinite ==
  ASSUME VlanTyped
  PROVE  VlansInUse \subseteq Nat /\ IsFiniteSet(VlansInUse)
<1> DEFINE K == {n \in Nets : Exists(n) /\ nets[n].bridge = None}
           f == [n \in K |-> nets[n].vlan]
<1>1. VlansInUse \subseteq Nat
  BY DEF VlanTyped, DataNetsHaveVlans, VlansInUse
<1>2. K \in SUBSET Nets /\ IsFiniteSet(Nets)
  BY VlansAreNumbers
<1>3. IsFiniteSet(K)
  BY <1>2, FS_Subset
<1>4. f \in Surjection(K, VlansInUse)
  <2>1. VlansInUse = {nets[n].vlan : n \in K}
    BY DEF VlansInUse
  <2>2. f \in [K -> VlansInUse]
    BY <2>1
  <2>3. \A t \in VlansInUse : \E n \in K : f[n] = t
    BY <2>1
  <2> QED BY <2>2, <2>3 DEF Surjection
<1> QED BY <1>1, <1>3, <1>4, FS_Surjection

LEMMA UsedIsFirst ==
  ASSUME VlanTyped, NEW v \in Nat
  PROVE  /\ UsedFrom(v) \subseteq Nat
         /\ v \in VlansInUse => v \in UsedFrom(v)
         /\ \A x \in VlansInUse :
              v < x /\ x \notin UsedFrom(v) =>
                /\ Cardinality(UsedFrom(v)) = ListSize
                /\ \A u \in UsedFrom(v) : ~(x <= u)
<1> DEFINE S == {x \in VlansInUse : x >= v}
<1>1. S \subseteq Nat /\ IsFiniteSet(S) /\ VlansInUse \subseteq Nat
  BY VlansAreFinite, FS_Subset
<1>2. UsedFrom(v) = First(S, ListSize)
  BY DEF UsedFrom, First
<1>8. ListSize \in Nat \ {0}
  BY VlansAreNumbers
<1>3. \A x \in VlansInUse : v <= x => x \in S
  BY <1>1
<1>4. \A x \in S : v <= x
  BY <1>1
<1>5. v \in VlansInUse => v \in First(S, ListSize)
  <2> SUFFICES ASSUME v \in VlansInUse PROVE v \in First(S, ListSize)
    OBVIOUS
  <2>1. v \in S
    BY <1>3
  <2> HIDE DEF S
  <2> QED BY <1>1, <1>8, <1>4, <2>1, LeastIsFirst
<1>6. ASSUME NEW x \in VlansInUse, v < x, x \notin First(S, ListSize)
      PROVE  /\ Cardinality(First(S, ListSize)) = ListSize
             /\ \A u \in First(S, ListSize) : ~(x <= u)
  <2>1. x \in S
    BY <1>1, <1>3, <1>6
  <2> HIDE DEF S
  <2> QED BY <1>1, <1>8, <1>6, <2>1, FirstIsFull, FirstIsDownClosed
<1>7. First(S, ListSize) \subseteq Nat
  BY <1>1 DEF First
<1> QED BY <1>2, <1>5, <1>6, <1>7

-----------------------------------------------------------------------------
(* What steps leave of it. *)

LEMMA OneRequest ==
  ASSUME HttpTyped, NEW h \in HttpThreads, NEW q, http' = [http EXCEPT ![h] = q]
  PROVE  http'[h] = q /\ \A k \in HttpThreads \ {h} : http'[k] = http[k]
BY DEF HttpTyped

\* No new VLAN is in use, and none is chosen.
NoneIsChosen ==
  \A h \in HttpThreads :
    http'[h].op = "insert" /\ http'[h].chosen => http'[h] = http[h]

LEMMA NoVlanIsTaken ==
  ASSUME VlanInv, VlanTyped', VlansInUse' \subseteq VlansInUse, UNCHANGED <<cache, unseen>>,
         NoneIsChosen
  PROVE  VlanInv'
<1>1. \A h \in HttpThreads : ListIsTrue(h)'
  BY DEF VlanInv, ListIsTrue, Covers
<1>2. \A h \in HttpThreads : ChosenIsLast(h)'
  BY DEF VlanInv, ChosenIsLast, NoneIsChosen
<1> QED BY <1>1, <1>2 DEF VlanInv

\* One more is in use, and all know of it, or all but the thread that has chosen it.
LEMMA OneVlanIsTaken ==
  ASSUME VlanInv, VlanTyped', NEW v \in Nat, VlansInUse' \subseteq VlansInUse \cup {v},
         UNCHANGED cache, NoneIsChosen, NEW h \in HttpThreads, NEW chosen \in BOOLEAN,
         chosen => v = cache[h].last /\ http'[h].op # "insert",
         unseen' = [k \in HttpThreads |->
                       IF k = h /\ chosen THEN unseen[k] ELSE unseen[k] \cup {v}]
  PROVE  VlanInv'
<1>1. ASSUME NEW k \in HttpThreads PROVE ListIsTrue(k)'
  <2>1. CASE k = h /\ chosen
    <3>1. unseen'[k] = unseen[k] /\ cache'[k] = cache[k]
      BY <2>1
    <3>2. ~Covers(cache[k], v)
      BY <2>1 DEF Covers, VlanInv, VlanTyped
    <3> QED BY <3>1, <3>2 DEF VlanInv, ListIsTrue, Covers
  <2>2. CASE ~(k = h /\ chosen)
    <3>1. unseen'[k] = unseen[k] \cup {v} /\ cache'[k] = cache[k]
      BY <2>2
    <3> QED BY <3>1 DEF VlanInv, ListIsTrue, Covers
  <2> QED BY <2>1, <2>2
<1>2. ASSUME NEW k \in HttpThreads PROVE ChosenIsLast(k)'
  <2>1. CASE k = h /\ chosen
    BY <2>1 DEF ChosenIsLast
  <2>2. CASE ~(k = h /\ chosen)
    <3>1. unseen'[k] = unseen[k] \cup {v} /\ cache'[k] = cache[k]
      BY <2>2
    <3> QED BY <3>1 DEF VlanInv, ChosenIsLast, NoneIsChosen
  <2> QED BY <2>1, <2>2
<1> QED BY <1>1, <1>2 DEF VlanInv

\* A step of another area.
LEMMA AsideVlan ==
  ASSUME CatInv, VlanInv, Aside(NetOps), UNCHANGED netVars
  PROVE  VlanInv'
<1>1. \A h \in HttpThreads : http'[h].op \in NetOps => http'[h] = http[h]
  BY DEF CatInv, CatTyped, HttpTyped, Aside
<1>2. \A h \in HttpThreads : VlanRequest(http'[h])
  BY <1>1 DEF VlanInv, VlanTyped, VlanRequest, NetOps
<1>3. VlanTyped'
  BY <1>2 DEF VlanInv, VlanTyped, netVars, DataNetsHaveVlans, Exists, VlanRequest
<1>4. NoneIsChosen
  BY <1>1 DEF NoneIsChosen, NetOps
<1>5. VlansInUse' \subseteq VlansInUse /\ UNCHANGED <<cache, unseen>>
  BY DEF netVars, VlansInUse, Exists
<1> QED BY <1>3, <1>4, <1>5, NoVlanIsTaken

LEMMA FirstList == [last |-> FirstVlan - 1, used |-> None] \in VlanList
<1>1. FirstVlan - 1 \in (FirstVlan - 1)..(EndVlan - 1)
  BY VlansAreNumbers
<1>2. \A D, v : v \in D =>
             [last |-> v, used |-> None] \in [last : D, used : (SUBSET Nat) \cup {None}]
  OBVIOUS
<1> QED BY <1>1, <1>2 DEF VlanList

LEMMA InitVlan == Init => VlanInv
<1> SUFFICES ASSUME Init PROVE VlanInv
  OBVIOUS
<1> PICK rows \in Stored(area) : NetworksInit(rows)
  BY DEF Init
<1>1. http = [h \in HttpThreads |-> Idle]
  BY DEF Init
<1>2. \A h \in HttpThreads : http[h].op = "idle"
  BY <1>1
<1>3. rows \in [Nets -> [bridge : Bridges, vlan : {None}, name : Names] \cup {None}]
  BY DEF Stored
<1>4. VlanTyped
  <2>1. nets \in [Nets -> Row \cup {None}]
    BY <1>3 DEF NetworksInit, Row
  <2>2. DataNetsHaveVlans
    BY <1>3, VlansAreNumbers DEF NetworksInit, DataNetsHaveVlans, Exists
  <2>3. made \subseteq Nets
    BY DEF NetworksInit
  <2>4. cache \in [HttpThreads -> VlanList]
    BY FirstList DEF NetworksInit
  <2>5. unseen \in [HttpThreads -> SUBSET Nat]
    BY DEF NetworksInit
  <2>6. \A h \in HttpThreads : VlanRequest(http[h])
    BY <1>2 DEF VlanRequest
  <2> QED BY <2>1, <2>2, <2>3, <2>4, <2>5, <2>6 DEF VlanTyped
<1> QED BY <1>2, <1>4 DEF VlanInv, ListIsTrue, ChosenIsLast, NetworksInit

LEMMA RestartVlan ==
  ASSUME VlanInv, Restart
  PROVE  VlanInv'
<1>1. \A h \in HttpThreads : http'[h].op = "idle"
  BY DEF Restart
<1>2. VlanTyped'
  <2>1. cache' \in [HttpThreads -> VlanList]
    BY FirstList DEF Restart, LoadNetworks
  <2>2. unseen' \in [HttpThreads -> SUBSET Nat]
    BY DEF Restart, LoadNetworks
  <2>3. UNCHANGED <<nets, made>>
    BY DEF Restart, LoadNetworks
  <2>4. \A h \in HttpThreads : VlanRequest(http'[h])
    BY <1>1 DEF VlanRequest
  <2> QED BY <2>1, <2>2, <2>3, <2>4 DEF VlanInv, VlanTyped, VlanRequest, DataNetsHaveVlans, Exists
<1> QED BY <1>1, <1>2 DEF VlanInv, ListIsTrue, ChosenIsLast, Restart, LoadNetworks

-----------------------------------------------------------------------------
(* The requests on networks, and their steps. *)

\* A step that leaves the networks and the lists alone needs only good requests.
LEMMA RequestsChange ==
  ASSUME CatInv, VlanInv, NEW h \in HttpThreads, NEW q, http' = [http EXCEPT ![h] = q],
         VlanRequest(q), q.op = "insert" => ~q.chosen,
         UNCHANGED <<nets, cache, unseen>>, made' \subseteq Nets
  PROVE  VlanInv'
<1>1. http'[h] = q /\ \A k \in HttpThreads \ {h} : http'[k] = http[k]
  BY OneRequest DEF CatInv, CatTyped
<1>2. \A k \in HttpThreads : VlanRequest(http'[k])
  BY <1>1 DEF VlanInv, VlanTyped
<1>3. VlanTyped'
  BY <1>2 DEF VlanInv, VlanTyped, DataNetsHaveVlans, Exists, VlanRequest
<1>4. VlansInUse' \subseteq VlansInUse
  BY DEF VlansInUse, Exists
<1> QED BY <1>1, <1>3, <1>4, NoVlanIsTaken DEF NoneIsChosen

LEMMA NewNetworkVlan ==
  ASSUME CatInv, VlanInv, NEW h \in HttpThreads, NEW r \in Row, NewNetwork(h, r),
         r.bridge = None => r.vlan \in Explicit \cup {None}
  PROVE  VlanInv'
<1> DEFINE n == CHOOSE k \in Nets : k \notin made
           q == [op |-> IF r.bridge = None /\ r.vlan = None THEN "choose" ELSE "insert",
                 net |-> n, row |-> r, chosen |-> FALSE]
<1>1. n \in Nets
  BY DEF NewNetwork, VlanInv, VlanTyped
<1>2. http' = [http EXCEPT ![h] = q] /\ UNCHANGED <<nets, cache, unseen>> /\ made' = made \cup {n}
  BY DEF NewNetwork
<1> HIDE DEF n
<1>3. VlanRequest(q) /\ ~q.chosen
  BY <1>1, VlansAreNumbers DEF VlanRequest
<1> HIDE DEF q
<1> QED BY <1>1, <1>2, <1>3, RequestsChange DEF VlanInv, VlanTyped

LEMMA EditNetworkVlan ==
  ASSUME CatInv, VlanInv, NEW h \in HttpThreads, NEW n \in Nets, NEW c, NEW v,
         EditNetwork(h, n, c, v),
         \/ c = "vlan" /\ v \in Explicit
         \/ c = "bridge" /\ v \in Bridges
         \/ c = "name" /\ v \in Names
  PROVE  VlanInv'
<1> DEFINE q == [op |-> "update", net |-> n, column |-> c, value |-> v, old |-> nets[n]]
<1>1. http' = [http EXCEPT ![h] = q] /\ UNCHANGED <<nets, cache, unseen, made>>
  BY DEF EditNetwork, netVars
<1>2. VlanRequest(q) /\ q.op # "insert"
  BY DEF VlanRequest
<1> HIDE DEF q
<1> QED BY <1>1, <1>2, RequestsChange DEF VlanInv, VlanTyped

LEMMA DeleteNetworkVlan ==
  ASSUME CatInv, VlanInv, NEW h \in HttpThreads, NEW n \in Nets, DeleteNetwork(h, n)
  PROVE  VlanInv'
<1> DEFINE q == [op |-> "free", net |-> n]
<1>1. http' = [http EXCEPT ![h] = q] /\ nets' = [nets EXCEPT ![n] = None]
      /\ UNCHANGED <<cache, unseen, made>>
  BY DEF DeleteNetwork
<1>2. http'[h] = q /\ \A k \in HttpThreads \ {h} : http'[k] = http[k]
  BY <1>1, OneRequest DEF CatInv, CatTyped
<1>3. \A k \in HttpThreads : VlanRequest(http'[k])
  BY <1>2 DEF VlanInv, VlanTyped, VlanRequest
<1>4. nets' \in [Nets -> Row \cup {None}]
  BY <1>1 DEF VlanInv, VlanTyped
<1>5. \A k \in Nets : Exists(k)' => Exists(k) /\ nets'[k] = nets[k]
  BY <1>1 DEF VlanInv, VlanTyped, Exists
<1>6. VlanTyped'
  BY <1>1, <1>3, <1>4, <1>5 DEF VlanInv, VlanTyped, DataNetsHaveVlans, VlanRequest
<1>7. VlansInUse' \subseteq VlansInUse
  BY <1>5 DEF VlansInUse
<1>8. NoneIsChosen
  BY <1>2 DEF NoneIsChosen
<1> QED BY <1>1, <1>6, <1>7, <1>8, NoVlanIsTaken

LEMMA RequestVlan ==
  ASSUME CatInv, VlanInv, NEW h \in HttpThreads, NetworkRequest(h)
  PROVE  VlanInv'
<1>1. CASE \E r \in Row : NewNetwork(h, r) /\ (r.bridge = None => r.vlan \in Explicit \cup {None})
  BY <1>1, NewNetworkVlan
<1>2. CASE \E n \in Nets : DeleteNetwork(h, n)
  BY <1>2, DeleteNetworkVlan
<1>3. CASE \E n \in Nets :
             \/ \E v \in Explicit : EditNetwork(h, n, "vlan", v)
             \/ \E v \in Bridges : EditNetwork(h, n, "bridge", v)
             \/ \E v \in Names : EditNetwork(h, n, "name", v)
  BY <1>3, EditNetworkVlan
<1>4. ASSUME \E v \in Explicit \cup {None} :
               NewNetwork(h, [bridge |-> None, vlan |-> v, name |-> None])
      PROVE  VlanInv'
  <2> PICK v \in Explicit \cup {None} :
        NewNetwork(h, [bridge |-> None, vlan |-> v, name |-> None])
    BY <1>4
  <2>1. [bridge |-> None, vlan |-> v, name |-> None] \in Row
    BY VlansAreNumbers DEF Row, Names
  <2> QED BY <1>1, <2>1
<1>5. ASSUME \E b \in Bridges, x \in Names :
               NewNetwork(h, [bridge |-> b, vlan |-> None, name |-> x])
      PROVE  VlanInv'
  <2> PICK b \in Bridges, x \in Names :
        NewNetwork(h, [bridge |-> b, vlan |-> None, name |-> x])
    BY <1>5
  <2>1. [bridge |-> b, vlan |-> None, name |-> x] \in Row /\ b # None
    BY VlansAreNumbers DEF Row, Names
  <2> QED BY <1>1, <2>1
<1> QED BY <1>2, <1>3, <1>4, <1>5 DEF NetworkRequest, DataRequest, BridgeRequest

LEMMA InsertNetVlan ==
  ASSUME CatInv, VlanInv, NEW h \in HttpThreads, InsertNet(h)
  PROVE  VlanInv'
<1> DEFINE n == http[h].net
           r == http[h].row
           chosen == http[h].chosen
           q == [http[h] EXCEPT !.op = "mark"]
<1>1. http[h].op = "insert" /\ VlanRequest(http[h]) /\ n \in Nets /\ r \in Row
  BY DEF InsertNet, VlanInv, VlanTyped, VlanRequest
<1>2. CASE Conflicts(n, r)
  <2>1. http' = [http EXCEPT ![h] = Idle] /\ UNCHANGED <<nets, cache, unseen, made>>
    BY <1>2 DEF InsertNet
  <2>2. VlanRequest(Idle) /\ Idle.op # "insert"
    BY DEF VlanRequest
  <2> QED BY <2>1, <2>2, RequestsChange DEF VlanInv, VlanTyped
<1>3. CASE ~Conflicts(n, r)
  <2>1. /\ http' = [http EXCEPT ![h] = q]
        /\ nets' = [nets EXCEPT ![n] = r]
        /\ unseen' = Noted(h, r, chosen)
        /\ UNCHANGED <<cache, made>>
    BY <1>3 DEF InsertNet
  <2>2. q.op = "mark"
    BY <1>1 DEF VlanRequest
  <2> HIDE DEF q
  <2>3. http'[h] = q /\ \A k \in HttpThreads \ {h} : http'[k] = http[k]
    BY <2>1, OneRequest DEF CatInv, CatTyped
  <2>4. \A k \in HttpThreads : VlanRequest(http'[k])
    BY <2>2, <2>3 DEF VlanInv, VlanTyped, VlanRequest
  <2>5. nets' \in [Nets -> Row \cup {None}]
    BY <1>1, <2>1 DEF VlanInv, VlanTyped
  <2>6. \A k \in Nets : nets'[k] = IF k = n THEN r ELSE nets[k]
    BY <1>1, <2>1 DEF VlanInv, VlanTyped
  <2>7. r.bridge = None => r.vlan \in Nat
    BY <1>1 DEF VlanRequest
  <2>8. NoneIsChosen
    BY <2>2, <2>3 DEF NoneIsChosen
  <2>9. DataNetsHaveVlans'
    BY <2>6, <2>7 DEF DataNetsHaveVlans, Exists, VlanInv, VlanTyped
  <2>10. CASE r.bridge # None
    <3>1. UNCHANGED unseen
      BY <2>1, <2>10 DEF Noted
    <3>2. VlanTyped'
      BY <2>1, <2>4, <2>5, <2>9, <3>1 DEF VlanInv, VlanTyped, VlanRequest
    <3>3. VlansInUse' \subseteq VlansInUse
      BY <2>6, <2>10 DEF VlansInUse, Exists
    <3> QED BY <2>1, <2>8, <3>1, <3>2, <3>3, NoVlanIsTaken
  <2>11. CASE r.bridge = None
    <3> DEFINE c == chosen = TRUE
    <3>1. unseen' = [k \in HttpThreads |->
                        IF k = h /\ chosen THEN unseen[k] ELSE unseen[k] \cup {r.vlan}]
      BY <2>1, <2>11 DEF Noted
    <3>2. unseen' \in [HttpThreads -> SUBSET Nat]
      BY <2>7, <2>11, <3>1 DEF VlanInv, VlanTyped
    <3>3. VlanTyped'
      BY <2>1, <2>4, <2>5, <2>9, <3>2 DEF VlanInv, VlanTyped, VlanRequest
    <3>4. VlansInUse' \subseteq VlansInUse \cup {r.vlan}
      BY <2>6 DEF VlansInUse, Exists
    <3>5. chosen => r.vlan = cache[h].last
      BY <1>1 DEF VlanInv, ChosenIsLast
    <3>6. chosen \in BOOLEAN
      BY <1>1 DEF VlanRequest
    <3> QED BY <2>1, <2>2, <2>3, <2>7, <2>8, <2>11, <3>1, <3>3, <3>4, <3>5, <3>6, OneVlanIsTaken
  <2> QED BY <2>10, <2>11
<1> QED BY <1>2, <1>3

LEMMA UpdateNetVlan ==
  ASSUME CatInv, VlanInv, NEW h \in HttpThreads, UpdateNet(h)
  PROVE  VlanInv'
<1> DEFINE n == http[h].net
           c == http[h].column
           r == [nets[n] EXCEPT ![c] = http[h].value]
           q == [http[h] EXCEPT !.op = "redhcp"]
<1>1. http[h].op = "update" /\ VlanRequest(http[h]) /\ n \in Nets
  BY DEF UpdateNet, VlanInv, VlanTyped, VlanRequest
<1>2. CASE ~Exists(n) \/ r = nets[n] \/ Conflicts(n, r)
  <2>1. http' = [http EXCEPT ![h] = Idle] /\ UNCHANGED <<nets, cache, unseen, made>>
    BY <1>2 DEF UpdateNet
  <2>2. VlanRequest(Idle) /\ Idle.op # "insert"
    BY DEF VlanRequest
  <2> QED BY <2>1, <2>2, RequestsChange DEF VlanInv, VlanTyped
<1>3. CASE ~(~Exists(n) \/ r = nets[n] \/ Conflicts(n, r))
  <2>1. /\ http' = [http EXCEPT ![h] = q]
        /\ nets' = [nets EXCEPT ![n] = r]
        /\ unseen' = IF c = "vlan" THEN Noted(h, r, FALSE) ELSE unseen
        /\ UNCHANGED <<cache, made>>
    BY <1>3 DEF UpdateNet
  <2>2. q.op = "redhcp"
    <3>1. "op" \in DOMAIN http[h]
      BY DEF CatInv, CatTyped, HttpTyped
    <3> QED BY <3>1
  <2> HIDE DEF q
  <2>3. http'[h] = q /\ \A k \in HttpThreads \ {h} : http'[k] = http[k]
    BY <2>1, OneRequest DEF CatInv, CatTyped
  <2>4. \A k \in HttpThreads : VlanRequest(http'[k])
    BY <2>2, <2>3 DEF VlanInv, VlanTyped, VlanRequest
  <2>5. nets[n] \in Row
    BY <1>1, <1>3 DEF VlanInv, VlanTyped, Exists
  <2>6. /\ r \in Row
        /\ c = "vlan" => r.bridge = nets[n].bridge /\ r.vlan \in Nat
        /\ c = "bridge" => r.bridge # None
        /\ c = "name" => r.bridge = nets[n].bridge /\ r.vlan = nets[n].vlan
        /\ c \in {"vlan", "bridge", "name"}
    BY <1>1, <2>5, VlansAreNumbers DEF VlanRequest, Row
  <2>7. DataNetsHaveVlans
    BY DEF VlanInv, VlanTyped
  <2>8. r.bridge = None => r.vlan \in Nat
    BY <1>1, <1>3, <2>6, <2>7 DEF DataNetsHaveVlans
  <2> HIDE DEF r
  <2>9. nets' \in [Nets -> Row \cup {None}]
    BY <1>1, <2>1, <2>6 DEF VlanInv, VlanTyped
  <2>10. \A k \in Nets : nets'[k] = IF k = n THEN r ELSE nets[k]
    BY <1>1, <2>1 DEF VlanInv, VlanTyped
  <2>11. NoneIsChosen
    BY <2>2, <2>3 DEF NoneIsChosen
  <2>12. DataNetsHaveVlans'
    BY <2>7, <2>8, <2>10 DEF DataNetsHaveVlans, Exists
  <2>13. CASE c # "vlan" \/ r.bridge # None
    <3>1. UNCHANGED unseen
      BY <2>1, <2>13 DEF Noted
    <3>2. VlanTyped'
      BY <2>1, <2>4, <2>9, <2>12, <3>1 DEF VlanInv, VlanTyped, VlanRequest
    <3>3. VlansInUse' \subseteq VlansInUse
      BY <1>1, <1>3, <2>6, <2>10, <2>13 DEF VlansInUse, Exists
    <3> QED BY <2>1, <2>11, <3>1, <3>2, <3>3, NoVlanIsTaken
  <2>14. CASE c = "vlan" /\ r.bridge = None
    <3>1. unseen' = [k \in HttpThreads |->
                        IF k = h /\ FALSE THEN unseen[k] ELSE unseen[k] \cup {r.vlan}]
      BY <2>1, <2>14 DEF Noted
    <3>2. unseen' \in [HttpThreads -> SUBSET Nat]
      BY <2>8, <2>14, <3>1 DEF VlanInv, VlanTyped
    <3>3. VlanTyped'
      BY <2>1, <2>4, <2>9, <2>12, <3>2 DEF VlanInv, VlanTyped, VlanRequest
    <3>4. VlansInUse' \subseteq VlansInUse \cup {r.vlan}
      BY <2>10 DEF VlansInUse, Exists
    <3> QED BY <2>1, <2>8, <2>11, <2>14, <3>1, <3>3, <3>4, OneVlanIsTaken
  <2> QED BY <2>13, <2>14
<1> QED BY <1>2, <1>3

\* The turn that reads the list: the list it reads is true, and what it finds
\* not to be in the list is free.
LEMMA ReadListVlan ==
  ASSUME VlanInv, NEW h \in HttpThreads, NEW last \in Nat,
         UNCHANGED nets,
         cache' = [cache EXCEPT ![h] = [last |-> last, used |-> UsedFrom(last)]],
         unseen' = [unseen EXCEPT ![h] = {}]
  PROVE  /\ ListIsTrue(h)'
         /\ last \notin UsedFrom(last) => last \notin VlansInUse
<1>1. VlansInUse' = VlansInUse
  BY DEF VlansInUse, Exists
<1>2. cache'[h] = [last |-> last, used |-> UsedFrom(last)] /\ unseen'[h] = {}
  BY DEF VlanInv, VlanTyped
<1>3. ASSUME NEW v \in VlansInUse, Covers(cache'[h], v)
      PROVE  v \in UsedFrom(last)
  <2>1. /\ last < v
        /\ Cardinality(UsedFrom(last)) # ListSize \/ \E u \in UsedFrom(last) : v <= u
    BY <1>2, <1>3 DEF Covers
  <2> QED BY <2>1, UsedIsFirst DEF VlanInv
<1>4. ListIsTrue(h)'
  BY <1>1, <1>2, <1>3 DEF ListIsTrue
<1>5. last \notin UsedFrom(last) => last \notin VlansInUse
  BY UsedIsFirst DEF VlanInv
<1> QED BY <1>4, <1>5

\* The turn that does not: what is not in the list and covered by it is free, or
\* was taken since it was read.
LEMMA KeepListVlan ==
  ASSUME VlanInv, NEW h \in HttpThreads, NEW last \in Int, cache[h].last < last,
         ~MustRead(last, cache[h].used),
         UNCHANGED <<nets, unseen>>,
         cache' = [cache EXCEPT ![h] = [last |-> last, used |-> cache[h].used]]
  PROVE  /\ ListIsTrue(h)'
         /\ last \notin cache[h].used /\ last \in VlansInUse => last \in unseen[h]
<1>1. VlansInUse' = VlansInUse
  BY DEF VlansInUse, Exists
<1>2. cache'[h] = [last |-> last, used |-> cache[h].used] /\ unseen'[h] = unseen[h]
  BY DEF VlanInv, VlanTyped
<1>3. cache[h].used # None /\ cache[h].used \subseteq Nat /\ cache[h].last \in Int
  BY VlansAreNumbers DEF VlanInv, VlanTyped, VlanList, MustRead
<1>4. VlansInUse \subseteq Nat
  BY VlansAreFinite DEF VlanInv
<1>5. ASSUME NEW v \in VlansInUse, Covers(cache'[h], v)
      PROVE  Covers(cache[h], v)
  <2>1. last < v /\ v \in Nat
    BY <1>2, <1>4, <1>5 DEF Covers
  <2>2. cache[h].last < v
    BY <1>3, <2>1
  <2> QED BY <1>2, <1>5, <2>2 DEF Covers
<1>6. ListIsTrue(h)'
  BY <1>1, <1>2, <1>5 DEF ListIsTrue, VlanInv
<1>7. ASSUME last \in VlansInUse, last \notin cache[h].used
      PROVE  last \in unseen[h]
  <2>1. Cardinality(cache[h].used) # ListSize \/ \E u \in cache[h].used : ~(last >= u)
    BY <1>3 DEF MustRead
  <2>2. Covers(cache[h], last)
    BY <1>3, <2>1 DEF Covers
  <2> QED BY <1>3, <1>7, <2>2 DEF VlanInv, ListIsTrue
<1> QED BY <1>6, <1>7

LEMMA ChosenForm ==
  ASSUME NEW r, {"op", "net", "row", "chosen"} \subseteq DOMAIN r, NEW v
  PROVE  LET q == [r EXCEPT !.op = "insert", !.row.vlan = v, !.chosen = TRUE]
         IN  /\ q.op = "insert" /\ q.net = r.net /\ q.row = [r.row EXCEPT !.vlan = v]
             /\ q.chosen = TRUE
             /\ {"op", "net", "row", "chosen"} \subseteq DOMAIN q
OBVIOUS

\* The turn that wanted to read it and could not: what was in use then is known
\* to be unseen.
LEMMA FailedListVlan ==
  ASSUME VlanInv, NEW h \in HttpThreads, NEW last, UNCHANGED nets,
         unseen' = [unseen EXCEPT ![h] = @ \cup VlansInUse]
  PROVE  /\ ListIsTrue(h)'
         /\ last \in VlansInUse => last \in unseen'[h]
<1>1. VlansInUse' = VlansInUse
  BY DEF VlansInUse, Exists
<1>2. VlansInUse \subseteq unseen'[h]
  BY DEF VlanInv, VlanTyped
<1> QED BY <1>1, <1>2 DEF ListIsTrue

LEMMA GetFreeNetVlanVlan ==
  ASSUME CatInv, VlanInv, NEW h \in HttpThreads, GetFreeNetVlan(h)
  PROVE  VlanInv'
<1> DEFINE last == NextVlan(cache[h].last)
           kept == IF StartsAgain(cache[h].last) THEN None ELSE cache[h].used
           found == [http[h] EXCEPT !.op = "insert", !.row.vlan = last, !.chosen = TRUE]
<1> PICK used : ListOf(h, used) /\ TurnOf(h, used)
  BY GetFreeNetVlanForm
<1> DEFINE q == IF used = None THEN Idle ELSE IF last \in used THEN http[h] ELSE found
<1>1. /\ http[h].op = "choose" /\ VlanRequest(http[h])
      /\ UNCHANGED <<nets, made>>
      /\ cache' = [cache EXCEPT ![h] = [last |-> last, used |-> used]]
  BY GetFreeNetVlanForm DEF TurnOf, VlanInv, VlanTyped
<1>2. /\ {"op", "net", "row", "chosen"} \subseteq DOMAIN http[h]
      /\ http[h].net \in Nets /\ http[h].row \in Row /\ http[h].row.bridge = None
  BY <1>1 DEF VlanRequest
<1>3. /\ found.op = "insert" /\ found.net = http[h].net
      /\ found.row = [http[h].row EXCEPT !.vlan = last] /\ found.chosen = TRUE
      /\ {"op", "net", "row", "chosen"} \subseteq DOMAIN found
  BY <1>2, ChosenForm
<1>4. http' = [http EXCEPT ![h] = q]
  BY DEF TurnOf
<1>5. /\ cache[h].last \in (FirstVlan - 1)..(EndVlan - 1)
      /\ last \in FirstVlan..(EndVlan - 1)
      /\ ~StartsAgain(cache[h].last) => cache[h].last < last
  BY VlansAreNumbers DEF VlanInv, VlanTyped, VlanList, NextVlan, StartsAgain
<1>6. last \in Nat
  BY <1>5, VlansAreNumbers
<1>7. cache[h].used \in (SUBSET Nat) \cup {None}
  BY DEF VlanInv, VlanTyped, VlanList
<1>8. \/ /\ used = cache[h].used /\ ~MustRead(last, cache[h].used) /\ UNCHANGED unseen
         /\ cache[h].last < last
      \/ used = UsedFrom(last) /\ unseen' = [unseen EXCEPT ![h] = {}]
      \/ used = kept /\ unseen' = [unseen EXCEPT ![h] = @ \cup VlansInUse]
  <2>1. StartsAgain(cache[h].last) => MustRead(last, kept)
    BY DEF MustRead
  <2> QED BY <1>5, <2>1 DEF ListOf
<1> HIDE DEF last
<1>9. used \in (SUBSET Nat) \cup {None}
  <2>1. UsedFrom(last) \subseteq Nat
    BY <1>6, UsedIsFirst DEF VlanInv
  <2> QED BY <1>7, <1>8, <2>1
<1> HIDE DEF kept
<1>10. /\ cache' \in [HttpThreads -> VlanList] /\ unseen' \in [HttpThreads -> SUBSET Nat]
       /\ ListIsTrue(h)'
       /\ used # None /\ last \notin used /\ last \in VlansInUse => last \in unseen'[h]
  <2>1. cache' \in [HttpThreads -> VlanList]
    <3>1. [last |-> last, used |-> used] \in VlanList
      BY <1>5, <1>9, VlansAreNumbers DEF VlanList
    <3> QED BY <1>1, <3>1 DEF VlanInv, VlanTyped
  <2>2. unseen' \in [HttpThreads -> SUBSET Nat]
    <3>1. unseen \in [HttpThreads -> SUBSET Nat] /\ VlansInUse \subseteq Nat
      BY VlansAreFinite DEF VlanInv, VlanTyped
    <3> QED BY <1>8, <3>1
  <2>3. CASE /\ used = cache[h].used /\ ~MustRead(last, cache[h].used) /\ UNCHANGED unseen
             /\ cache[h].last < last
    <3>1. last \in Int /\ UNCHANGED <<nets, unseen>>
      BY <1>1, <1>6, <2>3
    <3>2. cache' = [cache EXCEPT ![h] = [last |-> last, used |-> cache[h].used]]
      BY <1>1, <2>3
    <3> QED BY <2>1, <2>2, <2>3, <3>1, <3>2, KeepListVlan
  <2>4. CASE used = UsedFrom(last) /\ unseen' = [unseen EXCEPT ![h] = {}]
    BY <1>1, <1>6, <2>1, <2>2, <2>4, ReadListVlan
  <2>5. CASE unseen' = [unseen EXCEPT ![h] = @ \cup VlansInUse]
    BY <1>1, <2>1, <2>2, <2>5, FailedListVlan
  <2> QED BY <1>8, <2>3, <2>4, <2>5
<1>11. \A k \in HttpThreads \ {h} : cache'[k] = cache[k] /\ unseen'[k] = unseen[k]
  BY <1>1, <1>8 DEF VlanInv, VlanTyped
<1>12. cache'[h].last = last /\ VlansInUse' = VlansInUse
  BY <1>1 DEF VlanInv, VlanTyped, VlansInUse, Exists
<1>13. \/ q = http[h] /\ q.op = "choose"
       \/ q = found /\ used # None /\ last \notin used
       \/ q = Idle /\ q.op = "idle"
  BY <1>1
<1> HIDE DEF found
<1>14. VlanRequest(found)
  <2>1. [http[h].row EXCEPT !.vlan = last] \in Row
    BY <1>2, <1>6 DEF Row
  <2>2. [http[h].row EXCEPT !.vlan = last].vlan = last
    BY <1>2 DEF Row
  <2> QED BY <1>2, <1>3, <1>6, <2>1, <2>2 DEF VlanRequest
<1>15. found.row.bridge = None /\ found.row.vlan = last
  BY <1>2, <1>3 DEF Row
<1>16. VlanRequest(q)
  <2>1. VlanRequest(Idle)
    BY DEF VlanRequest
  <2> QED BY <1>1, <1>13, <1>14, <2>1
<1> HIDE DEF q
<1>17. http'[h] = q /\ \A k \in HttpThreads \ {h} : http'[k] = http[k]
  BY <1>4, OneRequest DEF CatInv, CatTyped
<1>18. VlanTyped'
  <2>1. \A k \in HttpThreads : VlanRequest(http'[k])
    BY <1>16, <1>17 DEF VlanInv, VlanTyped
  <2> QED BY <1>1, <1>10, <2>1 DEF VlanInv, VlanTyped, DataNetsHaveVlans, Exists, VlanRequest
<1>19. ASSUME NEW k \in HttpThreads PROVE ListIsTrue(k)'
  BY <1>10, <1>11, <1>12 DEF VlanInv, ListIsTrue, Covers
<1>20. ASSUME NEW k \in HttpThreads PROVE ChosenIsLast(k)'
  <2>1. CASE k # h
    BY <1>11, <1>12, <1>17, <2>1 DEF VlanInv, ChosenIsLast
  <2>2. CASE k = h
    BY <1>10, <1>12, <1>13, <1>15, <1>17, <2>2 DEF ChosenIsLast
  <2> QED BY <2>1, <2>2
<1> QED BY <1>18, <1>19, <1>20 DEF VlanInv

LEMMA StepVlan ==
  ASSUME CatInv, VlanInv, NEW h \in HttpThreads, NetworkStep(h)
  PROVE  VlanInv'
<1>1. CASE MarkNet(h) \/ EditDhcpNets(h) \/ FreeNet(h)
  <2>1. http' = [http EXCEPT ![h] = Idle] /\ UNCHANGED <<nets, cache, unseen, made>>
    BY <1>1 DEF MarkNet, EditDhcpNets, FreeNet
  <2>2. VlanRequest(Idle) /\ Idle.op # "insert"
    BY DEF VlanRequest
  <2> QED BY <2>1, <2>2, RequestsChange DEF VlanInv, VlanTyped
<1> QED
  BY <1>1, GetFreeNetVlanVlan, InsertNetVlan, UpdateNetVlan DEF NetworkStep

LEMMA NextVlanInv == CatInv /\ VlanInv /\ [Next]_vars => VlanInv'
<1> SUFFICES ASSUME CatInv, VlanInv, [Next]_vars PROVE VlanInv'
  OBVIOUS
<1>1. HttpTyped
  BY DEF CatInv, CatTyped
<1>2. ASSUME NEW h \in HttpThreads, NetworkRequest(h) \/ NetworkStep(h)
      PROVE  VlanInv'
  BY <1>2, RequestVlan, StepVlan
<1>3. CASE /\ \/ \E h \in HttpThreads : (area = "servers" /\ DhcpRequest(h)) \/ DhcpStep(h)
              \/ \E m \in Macs : MacStep(m)
              \/ ThreadStep
              \/ DhcpEnvironment
           /\ UNCHANGED <<netVars, catVars, ofcVars, area>>
  <2>1. Aside((CatOps \cup NetOps) \cup OfcOps)
    BY <1>1, <1>3, DhcpAside
  <2> QED BY <1>3, <2>1, AsideOfMore, AsideVlan
<1>4. CASE /\ \/ \E h \in HttpThreads : (area = "controllers" /\ OfcRequest(h)) \/ OfcStep(h)
              \/ \E c \in Known : TakeOfTask(c)
           /\ UNCHANGED <<netVars, dhcpVars, catVars, area>>
  <2>1. Aside((CatOps \cup NetOps) \cup DhcpOps)
    BY <1>1, <1>4, ControllersAside
  <2> QED BY <1>4, <2>1, AsideOfMore, AsideVlan
<1>5. ASSUME NEW h \in HttpThreads, (area = "catalogue" /\ CatalogueRequest(h)) \/ CatalogueStep(h),
             UNCHANGED <<netVars, dhcpVars, ofcVars, area>>
      PROVE  VlanInv'
  <2>1. Aside(NetOps \cup (DhcpOps \cup OfcOps))
    BY <1>5, CatalogueAside
  <2> QED BY <1>5, <2>1, AsideOfMore, AsideVlan
<1>6. CASE Restart
  BY <1>6, RestartVlan
<1>7. CASE UNCHANGED vars
  BY <1>7, AsideVlan DEF vars, Aside
<1> QED BY <1>2, <1>3, <1>4, <1>5, <1>6, <1>7 DEF Next

(***************************************************************************)
(* A network is never given a VLAN that is in use because the list of the  *)
(* process was old or short, however many VLANs, networks and threads      *)
(* there are and wherever the service stops (get_free_net_vlan of          *)
(* vim_db.py): what is wrong with a choice is what others did since.       *)
(***************************************************************************)
THEOREM VlansAreChosenRight == Spec => []ChosenVlanIsFree
<1>1. VlanInv => ChosenVlanIsFree
  BY DEF VlanInv, ChosenIsLast, ChosenVlanIsFree
<1>2. Spec => []CatInv
  BY CatalogueInvariant
<1> QED BY <1>1, <1>2, InitVlan, NextVlanInv, PTL DEF Spec

-----------------------------------------------------------------------------
(* Requests of one kind *)

\* The requests with these next steps are of this form.
Typed(Kind, Form) == \A h \in HttpThreads : http[h].op \in Kind => http[h] \in Form

LEMMA AsideTyped ==
  ASSUME HttpTyped, NEW Kind, NEW Form, Typed(Kind, Form), Aside(Kind)
  PROVE  /\ \A h \in HttpThreads : http'[h].op \in Kind => http'[h] \in Form
         /\ \A h \in HttpThreads : http'[h].op \in Kind => http'[h] = http[h]
         /\ \A h \in HttpThreads : http[h].op \in Kind => http'[h] = http[h]
BY DEF HttpTyped, Typed, Aside

LEMMA RequestTyped ==
  ASSUME HttpTyped, NEW Kind, NEW Form, Typed(Kind, Form), NEW h \in HttpThreads, NEW q,
         http' = [http EXCEPT ![h] = q], q.op \in Kind => q \in Form
  PROVE  \A k \in HttpThreads : http'[k].op \in Kind => http'[k] \in Form
BY OneRequest DEF Typed

LEMMA OpsAreCounted == ops \in Nat /\ [Next]_vars => ops' \in Nat
<1> SUFFICES ASSUME ops \in Nat, [Next]_vars PROVE ops' \in Nat
  OBVIOUS
<1>1. ASSUME NEW h \in HttpThreads, NetworkRequest(h) \/ NetworkStep(h) PROVE ops' \in Nat
  <2>1. CASE NetworkRequest(h)
    BY <2>1 DEF NetworkRequest, DataRequest, BridgeRequest, NewNetwork, EditNetwork, DeleteNetwork
  <2>2. CASE GetFreeNetVlan(h) \/ InsertNet(h) \/ MarkNet(h)
    BY <2>2 DEF GetFreeNetVlan, Turn, InsertNet, MarkNet
  <2>3. CASE UpdateNet(h)
    BY <2>3 DEF UpdateNet
  <2>4. CASE EditDhcpNets(h) \/ FreeNet(h)
    BY <2>4 DEF EditDhcpNets, FreeNet
  <2> QED BY <1>1, <2>1, <2>2, <2>3, <2>4 DEF NetworkStep
<1>2. ASSUME NEW h \in HttpThreads, DhcpRequest(h) \/ DhcpStep(h) PROVE ops' \in Nat
  BY <1>2 DEF DhcpRequest, PostServer, DeleteServer, DhcpStep, AskPorts, InsertAdd, DeleteInstance,
              InsertDel
<1>3. CASE (\E m \in Macs : MacStep(m)) \/ ThreadStep \/ DhcpEnvironment
  BY <1>3 DEF MacStep, CheckActive, ReadLease, ThreadStep, LoadMacs, TakeTask, UseLease,
              DhcpEnvironment, Late, Report, GuestAsks
<1>4. ASSUME NEW h \in HttpThreads, CatalogueRequest(h) \/ CatalogueStep(h) PROVE ops' \in Nat
  <2>1. CASE CatalogueRequest(h)
    BY <2>1, RequestBegins
  <2>2. CASE ShareItems(h) \/ DeleteTenantRow(h) \/ DeleteItemsOfTenant(h) \/ DeletePrivate(h)
    BY <2>2 DEF ShareItems, DeleteTenantRow, DeleteItemsOfTenant, DeletePrivate
  <2>3. CASE InsertLink(h) \/ DeleteLink(h) \/ DeleteOrphan(h) \/ UpdateItem(h)
    BY <2>3 DEF InsertLink, DeleteLink, DeleteOrphan, UpdateItem
  <2>4. CASE CheckImage(h) \/ LinkImage(h) \/ NewInstance(h)
    BY <2>4 DEF CheckImage, LinkImage, NewInstance
  <2> QED BY <1>4, <2>1, <2>2, <2>3, <2>4 DEF CatalogueStep
<1>5. ASSUME NEW h \in HttpThreads, OfcRequest(h) \/ OfcStep(h) PROVE ops' \in Nat
  <2>1. CASE OfcRequest(h)
    BY <2>1 DEF OfcRequest, NewOfController, EditOfController, DeleteOfController,
                NewExternalPort, DeletePort
  <2>2. CASE CreateOfcTask(h) \/ DeleteOfc(h) \/ ForgetOfc(h) \/ ForgetDpid(h) \/ RemoveDpid(h)
    BY <2>2 DEF CreateOfcTask, DeleteOfc, ForgetOfc, ForgetDpid, RemoveDpid
  <2>3. CASE ExitOfc(h) \/ InsertPort(h) \/ PickThread(h) \/ TellThread(h)
    BY <2>3 DEF ExitOfc, InsertPort, PickThread, TellThread
  <2> QED BY <1>5, <2>1, <2>2, <2>3 DEF OfcStep
<1>6. CASE \E c \in Known : TakeOfTask(c)
  BY <1>6 DEF TakeOfTask
<1>7. CASE Restart \/ UNCHANGED vars
  BY <1>7 DEF Restart, vars
<1> QED BY <1>1, <1>2, <1>3, <1>4, <1>5, <1>6, <1>7 DEF Next

-----------------------------------------------------------------------------
(* The macs of the dhcp thread *)

ServerRequest ==
  [op : {"ports", "add"}, mac : Macs, id : 1..MaxOps]
  \cup [op : {"delete", "del"}, mac : Macs, id : 1..MaxOps, net : Nets \cup {None}]

MacTask == [op : {"add", "del"}, mac : Macs]

\* A lease was read for a mac that is still looked for.
LeaseIsTracked ==
  lease # None =>
    /\ lease \in Macs \X BOOLEAN
    /\ macStatus[lease[1]] # None
    /\ dhcpPc = "round"

DhcpTyped ==
  /\ Typed(DhcpOps, ServerRequest)
  /\ DhcpTypeOK
  /\ tasks \in Seq(MacTask)
  /\ LeaseIsTracked

\* The thread will have an entry for the mac when it has done its tasks.
WillTrack(m) ==
  \/ \E i \in DOMAIN tasks :
       tasks[i] = [op |-> "add", mac |-> m] /\ \A j \in DOMAIN tasks : i < j => tasks[j].mac # m
  \/ macStatus[m] # None /\ \A i \in DOMAIN tasks : tasks[i].mac # m

ToBeTold(m) == \E h \in HttpThreads : http[h].op = "del" /\ http[h].mac = m

TrackedAreMinded ==
  \A m \in Macs : WillTrack(m) => Here(m) \/ ToBeTold(m) \/ m \in untold \cup misled

DhcpInv == DhcpTyped /\ TrackedAreMinded

LEMMA InitDhcp == Init => DhcpInv
<1> SUFFICES ASSUME Init PROVE DhcpInv
  OBVIOUS
<1>1. http = [h \in HttpThreads |-> Idle] /\ DhcpInit
  BY DEF Init
<1>2. Typed(DhcpOps, ServerRequest)
  BY <1>1 DEF Typed, DhcpOps
<1>3. DhcpTypeOK /\ tasks \in Seq(MacTask) /\ LeaseIsTracked
  BY <1>1 DEF DhcpInit, DhcpTypeOK, LeaseIsTracked
<1>4. TrackedAreMinded
  BY <1>1 DEF DhcpInit, TrackedAreMinded, WillTrack
<1> QED BY <1>2, <1>3, <1>4 DEF DhcpInv, DhcpTyped

LEMMA RestartDhcp ==
  ASSUME DhcpInv, Restart
  PROVE  DhcpInv'
<1>1. http' = [h \in HttpThreads |-> Idle] /\ DhcpStart
  BY DEF Restart
<1>2. Typed(DhcpOps, ServerRequest)'
  BY <1>1 DEF Typed, DhcpOps
<1>3. DhcpTypeOK' /\ (tasks \in Seq(MacTask))' /\ LeaseIsTracked'
  BY <1>1 DEF DhcpStart, DhcpTypeOK, LeaseIsTracked, DhcpInv, DhcpTyped
<1>4. TrackedAreMinded'
  BY <1>1 DEF DhcpStart, TrackedAreMinded, WillTrack
<1> QED BY <1>2, <1>3, <1>4 DEF DhcpInv, DhcpTyped

\* A step of another area.
LEMMA AsideDhcp ==
  ASSUME CatInv, DhcpInv, Aside(DhcpOps), UNCHANGED dhcpVars
  PROVE  DhcpInv'
<1>1. /\ \A h \in HttpThreads : http'[h].op \in DhcpOps => http'[h] \in ServerRequest
      /\ \A h \in HttpThreads : http[h].op \in DhcpOps => http'[h] = http[h]
  BY AsideTyped DEF CatInv, CatTyped, DhcpInv, DhcpTyped
<1>2. UNCHANGED <<port, leased, macStatus, tasks, lease, dhcpPc, untold, misled>>
  BY DEF dhcpVars
<1>3. DhcpTyped'
  BY <1>1, <1>2 DEF DhcpInv, DhcpTyped, Typed, DhcpTypeOK, LeaseIsTracked
<1>4. ASSUME NEW m \in Macs PROVE ToBeTold(m) => ToBeTold(m)'
  BY <1>1 DEF ToBeTold, DhcpOps
<1>5. TrackedAreMinded'
  BY <1>2, <1>4 DEF DhcpInv, TrackedAreMinded, WillTrack, Here
<1> QED BY <1>3, <1>5 DEF DhcpInv

\* What the requests on servers have, by what they do next.
LEMMA ServerRequestIs ==
  ASSUME Typed(DhcpOps, ServerRequest), NEW h \in HttpThreads
  PROVE  /\ http[h].op \in DhcpOps => http[h].mac \in Macs /\ http[h].id \in 1..MaxOps
         /\ http[h].op = "ports" => [http[h] EXCEPT !.op = "add"] \in ServerRequest
         /\ http[h].op \in {"delete", "del"} => http[h].net \in Nets \cup {None}
         /\ http[h].op = "delete" =>
              /\ [http[h] EXCEPT !.op = "del"] \in ServerRequest
              /\ [http[h] EXCEPT !.op = "del"].op = "del"
              /\ [http[h] EXCEPT !.op = "del"].mac = http[h].mac
BY DEF Typed, ServerRequest, DhcpOps

LEMMA DhcpRequestTyped ==
  ASSUME CatInv, DhcpInv, ops \in Nat, NEW h \in HttpThreads, DhcpRequest(h) \/ DhcpStep(h)
  PROVE  DhcpTyped'
<1>1. ASSUME NEW m \in Macs, NEW n \in Nets, PostServer(h, m, n)
      PROVE  DhcpTyped'
  <2> DEFINE q == [op |-> "ports", mac |-> m, id |-> ops + 1]
             p == [id |-> ops + 1, net |-> n, status |-> "CREATING", ip |-> "none"]
  <2>1. ops + 1 \in 1..MaxOps
    BY <1>1, BoundsAreNumbers DEF PostServer
  <2>2. q \in ServerRequest /\ p \in Port
    BY <2>1 DEF ServerRequest, Port, Addresses
  <2>3. http' = [http EXCEPT ![h] = q] /\ port' = [port EXCEPT ![m] = p]
        /\ UNCHANGED <<leased, tasks, macStatus, lease, dhcpPc>>
    BY <1>1 DEF PostServer, thingsOfDhcp
  <2> HIDE DEF q, p
  <2>4. \A k \in HttpThreads : http'[k].op \in DhcpOps => http'[k] \in ServerRequest
    BY <2>2, <2>3, RequestTyped DEF CatInv, CatTyped, DhcpInv, DhcpTyped
  <2>5. port' \in [Macs -> Port \cup {None}]
    BY <2>2, <2>3 DEF DhcpInv, DhcpTyped, DhcpTypeOK
  <2> QED BY <2>3, <2>4, <2>5 DEF DhcpInv, DhcpTyped, Typed, DhcpTypeOK, LeaseIsTracked
<1>2. ASSUME NEW m \in Macs, DeleteServer(h, m)
      PROVE  DhcpTyped'
  <2> DEFINE q(n) == [op |-> "delete", mac |-> m, id |-> port[m].id, net |-> n]
  <2>1. port[m] \in Port
    BY <1>2 DEF DeleteServer, Here, DhcpInv, DhcpTyped, DhcpTypeOK
  <2> PICK n \in Nets \cup {None} : http' = [http EXCEPT ![h] = q(n)]
    BY <1>2, <2>1 DEF DeleteServer, Port
  <2>2. q(n) \in ServerRequest
    BY <2>1 DEF ServerRequest, Port
  <2>3. http' = [http EXCEPT ![h] = q(n)] /\ UNCHANGED dhcpVars
    BY <1>2 DEF DeleteServer
  <2> HIDE DEF q
  <2>4. \A k \in HttpThreads : http'[k].op \in DhcpOps => http'[k] \in ServerRequest
    BY <2>2, <2>3, RequestTyped DEF CatInv, CatTyped, DhcpInv, DhcpTyped
  <2> QED BY <2>3, <2>4 DEF DhcpInv, DhcpTyped, Typed, DhcpTypeOK, LeaseIsTracked, dhcpVars
<1>3. ASSUME DhcpStep(h) PROVE DhcpTyped'
  <2>1. PICK q \in ServerRequest \cup {Idle} : http' = [http EXCEPT ![h] = q]
    <3>1. CASE AskPorts(h)
      BY <3>1, ServerRequestIs DEF AskPorts, DhcpInv, DhcpTyped
    <3>2. CASE DeleteInstance(h)
      BY <3>2, ServerRequestIs DEF DeleteInstance, DhcpInv, DhcpTyped
    <3>3. CASE InsertAdd(h) \/ InsertDel(h)
      BY <3>3 DEF InsertAdd, InsertDel
    <3> QED BY <1>3, <3>1, <3>2, <3>3 DEF DhcpStep
  <2>2. \A k \in HttpThreads : http'[k].op \in DhcpOps => http'[k] \in ServerRequest
    <3>1. q.op \in DhcpOps => q \in ServerRequest
      BY DEF DhcpOps
    <3> QED BY <2>1, <3>1, RequestTyped DEF CatInv, CatTyped, DhcpInv, DhcpTyped
  <2>3. UNCHANGED <<leased, macStatus, lease, dhcpPc>>
    BY <1>3 DEF DhcpStep, AskPorts, InsertAdd, DeleteInstance, InsertDel, thingsOfDhcp
  <2>4. port' \in [Macs -> Port \cup {None}]
    BY <1>3 DEF DhcpStep, AskPorts, InsertAdd, DeleteInstance, InsertDel, DhcpInv, DhcpTyped, DhcpTypeOK
  <2>5. tasks' \in Seq(MacTask)
    <3>1. http[h].op \in {"add", "del"} =>
            /\ [op |-> "add", mac |-> http[h].mac] \in MacTask
            /\ [op |-> "del", mac |-> http[h].mac] \in MacTask
      BY ServerRequestIs DEF DhcpInv, DhcpTyped, DhcpOps, MacTask
    <3>2. tasks \in Seq(MacTask)
      BY DEF DhcpInv, DhcpTyped
    <3>3. CASE AskPorts(h) \/ DeleteInstance(h)
      BY <3>2, <3>3 DEF AskPorts, DeleteInstance
    <3>4. \A t \in MacTask : Append(tasks, t) \in Seq(MacTask)
      BY <3>2
    <3>5. CASE InsertAdd(h)
      BY <3>1, <3>4, <3>5 DEF InsertAdd
    <3>6. CASE InsertDel(h)
      <4>1. tasks' = tasks \/ tasks' = Append(tasks, [op |-> "del", mac |-> http[h].mac])
        BY <3>6 DEF InsertDel
      <4> QED BY <3>1, <3>2, <3>4, <3>6, <4>1 DEF InsertDel
    <3> QED BY <1>3, <3>3, <3>5, <3>6 DEF DhcpStep
  <2> QED BY <2>2, <2>3, <2>4, <2>5 DEF DhcpInv, DhcpTyped, Typed, DhcpTypeOK, LeaseIsTracked
<1> QED BY <1>1, <1>2, <1>3 DEF DhcpRequest

\* A step of the thread or around it.
ThreadMoves ==
  \/ \E m \in Macs : MacStep(m)
  \/ ThreadStep
  \/ DhcpEnvironment

LEMMA ThreadIsAside ==
  ASSUME ThreadMoves
  PROVE  UNCHANGED <<http, ops>>
BY DEF ThreadMoves, MacStep, CheckActive, ReadLease, ThreadStep, LoadMacs, TakeTask, UseLease,
       DhcpEnvironment, Late, Report, GuestAsks

LEMMA NewEntryTyped ==
  ASSUME NEW a \in Addresses
  PROVE  NewEntry(a) \in Entry
BY DEF NewEntry, Entry

\* An entry given up stays an entry, and the port one.
LEMMA GiveUpTyped ==
  ASSUME DhcpTypeOK, NEW m \in Macs, macStatus[m] # None, GiveUp(m, macStatus[m])
  PROVE  /\ macStatus' \in [Macs -> Entry \cup {None}]
         /\ \A k \in Macs : macStatus'[k] # None => macStatus[k] # None
         /\ port' \in [Macs -> Port \cup {None}]
         /\ \A k \in Macs : Here(k) => Here(k)'
<1>1. macStatus[m] \in Entry
  BY DEF DhcpTypeOK
<1>2. [macStatus[m] EXCEPT !.ip = "0.0.0.0"] \in Entry
  BY <1>1 DEF Entry, Addresses
<1>3. \E e \in Entry : macStatus' = [macStatus EXCEPT ![m] = e]
  BY <1>1, <1>2 DEF GiveUp
<1>4. UNCHANGED port \/ WriteAddress(m, "0.0.0.0")
  BY DEF GiveUp
<1>5. port' \in [Macs -> Port \cup {None}] /\ \A k \in Macs : Here(k) => Here(k)'
  BY <1>4, NoneIsNoRecord DEF WriteAddress, DhcpTypeOK, Here, Port, Addresses
<1> QED BY <1>3, <1>5 DEF DhcpTypeOK

\* What the steps of the thread do to the macs that it has entries of, or will have.
LEMMA EntriesKept ==
  ASSUME DhcpInv, NEW m \in Macs,
         \/ CheckActive(m) \/ ReadLease(m) \/ Late(m) \/ Report(m) \/ GuestAsks(m)
         \/ UseLease /\ m = lease[1]
  PROVE  /\ DhcpTypeOK' /\ LeaseIsTracked'
         /\ UNCHANGED <<tasks, untold, misled>>
         /\ \A k \in Macs : macStatus'[k] # None => macStatus[k] # None
         /\ \A k \in Macs : Here(k) => Here(k)'
<1>1. DhcpTypeOK /\ LeaseIsTracked
  BY DEF DhcpInv, DhcpTyped
<1>2. CASE CheckActive(m)
  <2>1. macStatus[m] # None /\ lease = None /\ lease' = lease
        /\ UNCHANGED <<leased, tasks, dhcpPc, untold, misled>>
    BY <1>2 DEF CheckActive, Due
  <2>2. CASE Here(m) /\ port[m].status = "ACTIVE"
    <3>1. macStatus' = [macStatus EXCEPT ![m].active = TRUE, ![m].young = TRUE] /\ UNCHANGED port
      BY <1>2, <2>2 DEF CheckActive
    <3>2. macStatus[m] \in Entry
      BY <1>1, <2>1 DEF DhcpTypeOK
    <3>3. macStatus' \in [Macs -> Entry \cup {None}]
      BY <1>1, <3>1, <3>2 DEF DhcpTypeOK, Entry
    <3>4. \A k \in Macs : macStatus'[k] # None => macStatus[k] # None
      BY <1>1, <2>1, <3>1 DEF DhcpTypeOK
    <3> QED BY <1>1, <2>1, <3>1, <3>3, <3>4 DEF DhcpTypeOK, LeaseIsTracked, Here
  <2>3. CASE ~(Here(m) /\ port[m].status = "ACTIVE")
    <3>1. GiveUp(m, macStatus[m])
      BY <1>2, <2>3 DEF CheckActive
    <3> QED BY <1>1, <2>1, <3>1, GiveUpTyped DEF DhcpTypeOK, LeaseIsTracked
  <2> QED BY <2>2, <2>3
<1>3. CASE ReadLease(m)
  <2>1. /\ dhcpPc = "round" /\ macStatus[m] # None
        /\ UNCHANGED <<port, leased, macStatus, tasks, dhcpPc, untold, misled>>
        /\ lease' = <<m, leased[m]>> \/ lease' = <<m, FALSE>>
    BY <1>3 DEF ReadLease, Due
  <2>2. leased[m] \in BOOLEAN
    BY <1>1 DEF DhcpTypeOK
  <2>3. PICK b \in BOOLEAN : lease' = <<m, b>>
    BY <2>1, <2>2
  <2>4. lease' \in Macs \X BOOLEAN /\ lease'[1] = m
    BY <2>3
  <2>5. LeaseIsTracked'
    BY <2>1, <2>4 DEF LeaseIsTracked
  <2> QED BY <1>1, <2>1, <2>5 DEF DhcpTypeOK, Here
<1>4. CASE Late(m)
  <2>1. /\ macStatus[m] # None
        /\ macStatus' = [macStatus EXCEPT ![m].young = FALSE]
        /\ UNCHANGED <<port, leased, tasks, lease, dhcpPc, untold, misled>>
    BY <1>4 DEF Late
  <2>2. macStatus[m] \in Entry
    BY <1>1, <2>1 DEF DhcpTypeOK
  <2>3. macStatus' \in [Macs -> Entry \cup {None}] /\ macStatus'[m] \in Entry
    BY <1>1, <2>1, <2>2 DEF DhcpTypeOK, Entry
  <2>4. \A k \in Macs : macStatus'[k] # None <=> macStatus[k] # None
    BY <1>1, <2>1, <2>3, NoneIsNoRecord DEF DhcpTypeOK
  <2>5. LeaseIsTracked'
    BY <1>1, <2>1, <2>4 DEF LeaseIsTracked
  <2> QED BY <1>1, <2>1, <2>3, <2>4, <2>5 DEF DhcpTypeOK, Here
<1>5. CASE Report(m)
  <2>1. /\ Here(m) /\ port' = [port EXCEPT ![m].status = "ACTIVE"]
        /\ UNCHANGED <<macStatus, leased, tasks, lease, dhcpPc, untold, misled>>
    BY <1>5 DEF Report, thingsOfDhcp
  <2>2. port[m] \in Port
    BY <1>1, <2>1 DEF DhcpTypeOK, Here
  <2>3. port' \in [Macs -> Port \cup {None}] /\ port'[m] \in Port
    BY <1>1, <2>1, <2>2 DEF DhcpTypeOK, Port
  <2>4. \A k \in Macs : Here(k) => Here(k)'
    BY <1>1, <2>1, <2>3, NoneIsNoRecord DEF DhcpTypeOK, Here
  <2> QED BY <1>1, <2>1, <2>3, <2>4 DEF DhcpTypeOK, LeaseIsTracked
<1>6. CASE GuestAsks(m)
  <2>1. /\ leased' = [leased EXCEPT ![m] = TRUE]
        /\ UNCHANGED <<port, macStatus, tasks, lease, dhcpPc, untold, misled>>
    BY <1>6 DEF GuestAsks, thingsOfDhcp
  <2> QED BY <1>1, <2>1 DEF DhcpTypeOK, LeaseIsTracked, Here
<1>7. CASE UseLease /\ m = lease[1]
  <2>1. /\ lease # None /\ lease' = None
        /\ UNCHANGED <<leased, tasks, dhcpPc, untold, misled>>
    BY <1>7 DEF UseLease
  <2>2. macStatus[m] \in Entry /\ macStatus[m] # None
    BY <1>1, <1>7, <2>1 DEF DhcpTypeOK, LeaseIsTracked
  <2>3. CASE GiveUp(m, macStatus[m])
    BY <1>1, <2>1, <2>2, <2>3, GiveUpTyped DEF DhcpTypeOK, LeaseIsTracked
  <2>4. CASE ~GiveUp(m, macStatus[m])
    <3>1. /\ \/ macStatus' = [macStatus EXCEPT ![m].ip = "known", ![m].done = TRUE]
             \/ macStatus' = [macStatus EXCEPT ![m].ip = "known"]
          /\ WriteAddress(m, "known") \/ UNCHANGED port
      BY <1>7, <2>4 DEF UseLease
    <3>2. macStatus' \in [Macs -> Entry \cup {None}]
      BY <1>1, <2>2, <3>1 DEF DhcpTypeOK, Entry, Addresses
    <3>3. \A k \in Macs : macStatus'[k] # None => macStatus[k] # None
      BY <1>1, <2>2, <3>1 DEF DhcpTypeOK
    <3>4. port' \in [Macs -> Port \cup {None}] /\ \A k \in Macs : Here(k) => Here(k)'
      BY <1>1, <3>1, NoneIsNoRecord DEF WriteAddress, DhcpTypeOK, Here, Port, Addresses
    <3> QED BY <1>1, <2>1, <3>2, <3>3, <3>4 DEF DhcpTypeOK, LeaseIsTracked
  <2> QED BY <2>3, <2>4
<1> QED BY <1>2, <1>3, <1>4, <1>5, <1>6, <1>7

LEMMA ThreadKeeps ==
  ASSUME CatInv, DhcpInv, ThreadMoves
  PROVE  DhcpInv'
<1>1. UNCHANGED http
  BY ThreadIsAside
<1>2. Typed(DhcpOps, ServerRequest)'
  BY <1>1 DEF DhcpInv, DhcpTyped, Typed
<1>3. ASSUME NEW m \in Macs,
             \/ CheckActive(m) \/ ReadLease(m) \/ Late(m) \/ Report(m) \/ GuestAsks(m)
             \/ UseLease /\ m = lease[1]
      PROVE  DhcpInv'
  <2>1. /\ DhcpTypeOK' /\ LeaseIsTracked'
        /\ UNCHANGED <<tasks, untold, misled>>
        /\ \A k \in Macs : macStatus'[k] # None => macStatus[k] # None
        /\ \A k \in Macs : Here(k) => Here(k)'
    BY <1>3, EntriesKept
  <2>2. TrackedAreMinded'
    BY <1>1, <2>1 DEF DhcpInv, TrackedAreMinded, WillTrack, ToBeTold
  <2> QED BY <1>2, <2>1, <2>2 DEF DhcpInv, DhcpTyped
<1>4. CASE LoadMacs
  <2>1. /\ dhcpPc = "load" /\ dhcpPc' = "round"
        /\ UNCHANGED <<port, leased, tasks, lease, misled>>
        /\ untold \subseteq untold'
    BY <1>4 DEF LoadMacs
  <2>2. lease = None
    BY <2>1 DEF DhcpInv, DhcpTyped, LeaseIsTracked
  <2>3. /\ macStatus' \in [Macs -> Entry \cup {None}]
        /\ \A m \in Macs : macStatus'[m] # None => Here(m)
    <3>1. CASE macStatus' = [m \in Macs |-> None]
      BY <3>1
    <3>2. CASE macStatus' = [m \in Macs |-> IF Here(m) /\ dhcpNets[port[m].net] > 0
                                            THEN NewEntry(port[m].ip) ELSE None]
      <4>1. ASSUME NEW m \in Macs, Here(m) PROVE NewEntry(port[m].ip) \in Entry
        <5>1. port[m].ip \in Addresses
          BY <4>1 DEF DhcpInv, DhcpTyped, DhcpTypeOK, Here, Port
        <5> QED BY <5>1, NewEntryTyped
      <4> QED BY <3>2, <4>1
    <3> QED BY <1>4, <3>1, <3>2 DEF LoadMacs
  <2>4. DhcpTypeOK' /\ LeaseIsTracked' /\ (tasks \in Seq(MacTask))'
    BY <2>1, <2>2, <2>3 DEF DhcpInv, DhcpTyped, DhcpTypeOK, LeaseIsTracked
  <2>5. TrackedAreMinded'
    BY <1>1, <2>1, <2>3 DEF DhcpInv, TrackedAreMinded, WillTrack, ToBeTold, Here
  <2> QED BY <1>2, <2>4, <2>5 DEF DhcpInv, DhcpTyped
<1>5. CASE TakeTask
  <2> DEFINE t == Head(tasks)
  <2>1. /\ tasks # << >> /\ tasks \in Seq(MacTask) /\ t \in MacTask
    BY <1>5 DEF TakeTask, DhcpInv, DhcpTyped
  <2>2. /\ tasks' = Tail(tasks) /\ tasks' \in Seq(MacTask)
        /\ Len(tasks') = Len(tasks) - 1 /\ Len(tasks) \in Nat
        /\ \A i \in DOMAIN tasks' : i + 1 \in DOMAIN tasks /\ tasks'[i] = tasks[i + 1]
        /\ \A i \in DOMAIN tasks : i = 1 \/ (i - 1 \in DOMAIN tasks' /\ tasks'[i - 1] = tasks[i])
        /\ 1 \in DOMAIN tasks /\ tasks[1] = t
        /\ DOMAIN tasks \subseteq Nat /\ DOMAIN tasks' \subseteq Nat
        /\ \A i \in DOMAIN tasks' : i > 0
    BY <1>5, <2>1 DEF TakeTask
  <2>3. /\ macStatus' = [macStatus EXCEPT ![t.mac] = IF t.op = "add" THEN NewEntry("none") ELSE None]
        /\ lease = None
        /\ UNCHANGED <<port, leased, lease, dhcpPc, untold, misled>>
    BY <1>5 DEF TakeTask
  <2>4. t.mac \in Macs /\ (t.op = "add" => t = [op |-> "add", mac |-> t.mac])
    BY <2>1 DEF MacTask
  <2> HIDE DEF t
  <2>5. macStatus' \in [Macs -> Entry \cup {None}]
    <3>1. NewEntry("none") \in Entry
      BY NewEntryTyped DEF Addresses
    <3> QED BY <2>3, <2>4, <3>1 DEF DhcpInv, DhcpTyped, DhcpTypeOK
  <2>6. DhcpTypeOK' /\ LeaseIsTracked'
    BY <2>3, <2>5 DEF DhcpInv, DhcpTyped, DhcpTypeOK, LeaseIsTracked
  <2>7. ASSUME NEW m \in Macs, WillTrack(m)' PROVE WillTrack(m)
    <3>1. CASE \E i \in DOMAIN tasks' :
                 /\ tasks'[i] = [op |-> "add", mac |-> m]
                 /\ \A j \in DOMAIN tasks' : i < j => tasks'[j].mac # m
      <4> PICK i \in DOMAIN tasks' :
                 /\ tasks'[i] = [op |-> "add", mac |-> m]
                 /\ \A j \in DOMAIN tasks' : i < j => tasks'[j].mac # m
        BY <3>1
      <4>1. i + 1 \in DOMAIN tasks /\ tasks[i + 1] = [op |-> "add", mac |-> m]
        BY <2>2
      <4>2. ASSUME NEW j \in DOMAIN tasks, i + 1 < j PROVE tasks[j].mac # m
        <5>1. j # 1 /\ j - 1 \in DOMAIN tasks' /\ i < j - 1
          BY <2>2, <4>2
        <5> QED BY <2>2, <5>1
      <4> QED BY <4>1, <4>2 DEF WillTrack
    <3>2. CASE macStatus'[m] # None /\ \A i \in DOMAIN tasks' : tasks'[i].mac # m
      <4>1. CASE m # t.mac
        <5>1. macStatus[m] # None
          BY <2>3, <2>4, <3>2, <4>1 DEF DhcpInv, DhcpTyped, DhcpTypeOK
        <5>2. \A i \in DOMAIN tasks : tasks[i].mac # m
          BY <2>2, <3>2, <4>1
        <5> QED BY <5>1, <5>2 DEF WillTrack
      <4>2. CASE m = t.mac
        <5>1. t = [op |-> "add", mac |-> m]
          BY <2>3, <2>4, <3>2, <4>2 DEF DhcpInv, DhcpTyped, DhcpTypeOK
        <5>2. ASSUME NEW j \in DOMAIN tasks, 1 < j PROVE tasks[j].mac # m
          <6>1. j # 1 /\ j - 1 \in DOMAIN tasks' /\ tasks'[j - 1] = tasks[j]
            BY <2>2, <5>2
          <6> QED BY <3>2, <6>1
        <5> QED BY <2>2, <5>1, <5>2 DEF WillTrack
      <4> QED BY <4>1, <4>2
    <3> QED BY <2>7, <3>1, <3>2 DEF WillTrack
  <2>8. TrackedAreMinded'
    BY <1>1, <2>3, <2>7 DEF DhcpInv, TrackedAreMinded, ToBeTold, Here
  <2> QED BY <1>2, <2>2, <2>6, <2>8 DEF DhcpInv, DhcpTyped
<1>6. CASE UseLease
  <2>1. lease[1] \in Macs
    BY <1>6 DEF UseLease, DhcpInv, DhcpTyped, LeaseIsTracked
  <2> QED BY <1>3, <1>6, <2>1
<1> QED BY <1>3, <1>4, <1>5, <1>6 DEF ThreadMoves, MacStep, ThreadStep, DhcpEnvironment

\* A task at the end of the queue decides for its mac, and for no other.
LEMMA TaskAtTheEnd ==
  ASSUME tasks \in Seq(MacTask), NEW t \in MacTask, tasks' = Append(tasks, t),
         UNCHANGED macStatus, NEW m \in Macs
  PROVE  /\ m # t.mac /\ WillTrack(m)' => WillTrack(m)
         /\ m = t.mac /\ t.op = "del" => ~WillTrack(m)'
<1> DEFINE last == Len(tasks) + 1
<1>1. /\ DOMAIN tasks' = DOMAIN tasks \cup {last} /\ tasks'[last] = t
      /\ \A i \in DOMAIN tasks : tasks'[i] = tasks[i] /\ i \in Nat /\ i < last
      /\ last \in Nat
  OBVIOUS
<1> HIDE DEF last
<1>2. ASSUME m # t.mac, WillTrack(m)' PROVE WillTrack(m)
  <2>1. CASE macStatus'[m] # None /\ \A i \in DOMAIN tasks' : tasks'[i].mac # m
    BY <1>1, <2>1 DEF WillTrack
  <2>2. CASE \E i \in DOMAIN tasks' :
               /\ tasks'[i] = [op |-> "add", mac |-> m]
               /\ \A j \in DOMAIN tasks' : i < j => tasks'[j].mac # m
    <3> PICK i \in DOMAIN tasks' :
               /\ tasks'[i] = [op |-> "add", mac |-> m]
               /\ \A j \in DOMAIN tasks' : i < j => tasks'[j].mac # m
      BY <2>2
    <3>1. i \in DOMAIN tasks /\ tasks[i] = [op |-> "add", mac |-> m]
      BY <1>1, <1>2
    <3>2. \A j \in DOMAIN tasks : i < j => tasks[j].mac # m
      BY <1>1
    <3> QED BY <3>1, <3>2 DEF WillTrack
  <2> QED BY <1>2, <2>1, <2>2 DEF WillTrack
<1>3. ASSUME m = t.mac, t.op = "del" PROVE ~WillTrack(m)'
  <2>1. ASSUME NEW i \in DOMAIN tasks', tasks'[i] = [op |-> "add", mac |-> m]
        PROVE  \E j \in DOMAIN tasks' : i < j /\ tasks'[j].mac = m
    <3>1. i # last
      BY <1>1, <1>3, <2>1
    <3> QED BY <1>1, <1>3, <3>1
  <2> QED BY <1>1, <1>3, <2>1 DEF WillTrack
<1> QED BY <1>2, <1>3

LEMMA TrackedStayMinded ==
  ASSUME CatInv, DhcpInv, ops \in Nat, NEW h \in HttpThreads, DhcpRequest(h) \/ DhcpStep(h)
  PROVE  TrackedAreMinded'
<1>1. \A k \in HttpThreads \ {h} : http'[k] = http[k]
  BY DEF DhcpRequest, PostServer, DeleteServer, DhcpStep, AskPorts, InsertAdd, DeleteInstance,
         InsertDel, CatInv, CatTyped, HttpTyped
<1>2. ASSUME http[h].op # "del" PROVE \A m \in Macs : ToBeTold(m) => ToBeTold(m)'
  BY <1>1, <1>2 DEF ToBeTold
<1>3. TrackedAreMinded /\ tasks \in Seq(MacTask) /\ port \in [Macs -> Port \cup {None}]
  BY DEF DhcpInv, DhcpTyped, DhcpTypeOK
<1>4. ASSUME NEW n \in Macs, UNCHANGED <<tasks, macStatus>> PROVE WillTrack(n)' = WillTrack(n)
  BY <1>4 DEF WillTrack
<1>5. ASSUME NEW m \in Macs, NEW n \in Nets, PostServer(h, m, n) PROVE TrackedAreMinded'
  <2> DEFINE p == [id |-> ops + 1, net |-> n, status |-> "CREATING", ip |-> "none"]
  <2>1. /\ http[h].op # "del" /\ port' = [port EXCEPT ![m] = p]
        /\ untold' = untold \ {m} /\ misled' = misled \ {m}
        /\ UNCHANGED <<tasks, macStatus>>
    BY <1>5 DEF PostServer, thingsOfDhcp
  <2>2. p \in Port
    <3>1. ops + 1 \in 1..MaxOps
      BY <1>5, BoundsAreNumbers DEF PostServer
    <3> QED BY <3>1 DEF Port, Addresses
  <2> HIDE DEF p
  <2>3. Here(m)' /\ \A k \in Macs : Here(k) => Here(k)'
    BY <1>3, <2>1, <2>2, NoneIsNoRecord DEF Here
  <2> QED BY <1>2, <1>3, <1>4, <2>1, <2>3 DEF TrackedAreMinded
<1>6. CASE (\E m \in Macs : DeleteServer(h, m)) \/ AskPorts(h)
  <2>1. /\ http[h].op # "del" /\ untold \subseteq untold'
        /\ UNCHANGED <<tasks, macStatus, port, misled>>
    BY <1>6 DEF DeleteServer, AskPorts, dhcpVars, thingsOfDhcp
  <2>2. \A k \in Macs : Here(k) => Here(k)'
    BY <2>1 DEF Here
  <2> QED BY <1>2, <1>3, <1>4, <2>1, <2>2 DEF TrackedAreMinded
<1>7. CASE InsertAdd(h)
  <2> PICK m \in Macs : m = http[h].mac
    BY <1>7, ServerRequestIs DEF DhcpInv, DhcpTyped, DhcpOps, InsertAdd
  <2> DEFINE t == [op |-> "add", mac |-> m]
  <2>1. /\ http[h].op = "add" /\ tasks' = Append(tasks, t) /\ misled \subseteq misled'
        /\ Same(m, http[h].id) \/ m \in misled'
        /\ UNCHANGED <<macStatus, port, untold>>
    BY <1>7 DEF InsertAdd, thingsOfDhcp
  <2>3. t \in MacTask /\ t.mac = m
    BY DEF MacTask
  <2>4. \A k \in Macs : k # m /\ WillTrack(k)' => WillTrack(k)
    BY <1>3, <2>1, <2>3, TaskAtTheEnd
  <2>5. \A k \in Macs : Here(k) => Here(k)'
    BY <2>1 DEF Here
  <2>6. Here(m)' \/ m \in misled'
    BY <2>1, <2>5 DEF Same
  <2> HIDE DEF t
  <2> QED BY <1>2, <1>3, <2>1, <2>4, <2>5, <2>6 DEF TrackedAreMinded
<1>8. CASE DeleteInstance(h)
  <2> PICK m \in Macs : m = http[h].mac
    BY <1>8, ServerRequestIs DEF DhcpInv, DhcpTyped, DhcpOps, DeleteInstance
  <2>1. /\ http[h].op = "delete"
        /\ port' = port \/ port' = [port EXCEPT ![m] = None]
        /\ http' = [http EXCEPT ![h] = [http[h] EXCEPT !.op = "del"]]
        /\ misled \subseteq misled'
        /\ UNCHANGED <<tasks, macStatus, untold>>
    BY <1>8 DEF DeleteInstance
  <2>2. http'[h].op = "del" /\ http'[h].mac = m
    BY <2>1, ServerRequestIs DEF DhcpInv, DhcpTyped, CatInv, CatTyped, HttpTyped
  <2>3. ToBeTold(m)'
    BY <2>2 DEF ToBeTold
  <2>4. \A k \in Macs : k # m /\ Here(k) => Here(k)'
    BY <1>3, <2>1 DEF Here
  <2> QED BY <1>2, <1>3, <1>4, <2>1, <2>3, <2>4 DEF TrackedAreMinded
<1>9. CASE InsertDel(h)
  <2> PICK m \in Macs : m = http[h].mac
    BY <1>9, ServerRequestIs DEF DhcpInv, DhcpTyped, DhcpOps, InsertDel
  <2> DEFINE t == [op |-> "del", mac |-> m]
  <2>1. /\ http[h].op = "del"
        /\ misled \subseteq misled' /\ untold \subseteq untold'
        /\ tasks' = Append(tasks, t) \/ (tasks' = tasks /\ m \in untold')
        /\ UNCHANGED <<macStatus, port>>
    BY <1>9 DEF InsertDel, thingsOfDhcp
  <2>3. t \in MacTask /\ t.mac = m /\ t.op = "del"
    BY DEF MacTask
  <2> HIDE DEF t
  <2>4. /\ \A k \in Macs : k # m /\ WillTrack(k)' => WillTrack(k)
        /\ WillTrack(m)' => m \in untold'
    <3>1. CASE tasks' = Append(tasks, t)
      BY <1>3, <2>1, <2>3, <3>1, TaskAtTheEnd
    <3>2. CASE tasks' = tasks /\ m \in untold'
      BY <1>4, <2>1, <3>2
    <3> QED BY <2>1, <3>1, <3>2
  <2>5. \A k \in Macs : Here(k) => Here(k)'
    BY <2>1 DEF Here
  <2>6. \A k \in Macs : k # m /\ ToBeTold(k) => ToBeTold(k)'
    BY <1>1 DEF ToBeTold
  <2> QED BY <1>3, <2>1, <2>4, <2>5, <2>6 DEF TrackedAreMinded
<1> QED BY <1>5, <1>6, <1>7, <1>8, <1>9 DEF DhcpRequest, DhcpStep

LEMMA NextDhcp == CatInv /\ DhcpInv /\ ops \in Nat /\ [Next]_vars => DhcpInv'
<1> SUFFICES ASSUME CatInv, DhcpInv, ops \in Nat, [Next]_vars PROVE DhcpInv'
  OBVIOUS
<1>1. HttpTyped
  BY DEF CatInv, CatTyped
<1>2. ASSUME NEW h \in HttpThreads, NetworkRequest(h) \/ NetworkStep(h), UNCHANGED dhcpVars
      PROVE  DhcpInv'
  <2>1. Aside((CatOps \cup DhcpOps) \cup OfcOps)
    BY <1>1, <1>2, NetworksAside
  <2> QED BY <1>2, <2>1, AsideOfMore, AsideDhcp
<1>3. ASSUME NEW h \in HttpThreads, (area = "catalogue" /\ CatalogueRequest(h)) \/ CatalogueStep(h),
             UNCHANGED dhcpVars
      PROVE  DhcpInv'
  <2>1. Aside((NetOps \cup DhcpOps) \cup OfcOps)
    BY <1>1, <1>3, CatalogueAside
  <2> QED BY <1>3, <2>1, AsideOfMore, AsideDhcp
<1>4. CASE /\ \/ \E h \in HttpThreads : (area = "controllers" /\ OfcRequest(h)) \/ OfcStep(h)
              \/ \E c \in Known : TakeOfTask(c)
           /\ UNCHANGED <<netVars, dhcpVars, catVars, area>>
  <2>1. Aside((CatOps \cup NetOps) \cup DhcpOps)
    BY <1>1, <1>4, ControllersAside
  <2> QED BY <1>4, <2>1, AsideOfMore, AsideDhcp
<1>5. ASSUME NEW h \in HttpThreads, DhcpRequest(h) \/ DhcpStep(h)
      PROVE  DhcpInv'
  BY <1>5, DhcpRequestTyped, TrackedStayMinded DEF DhcpInv
<1>6. CASE ThreadMoves
  BY <1>6, ThreadKeeps
<1>7. CASE Restart
  BY <1>7, RestartDhcp
<1>8. CASE UNCHANGED vars
  BY <1>8, AsideDhcp DEF vars, Aside
<1> QED BY <1>2, <1>3, <1>4, <1>5, <1>6, <1>7, <1>8 DEF Next, ThreadMoves

\* The count of the requests stays a number.
LEMMA RequestsAreCounted == Spec => [](ops \in Nat)
<1>1. Init => ops \in Nat
  BY DEF Init
<1>2. (ops \in Nat) /\ [Next]_vars => (ops \in Nat)'
  BY OpsAreCounted
<1> QED BY <1>1, <1>2, PTL DEF Spec

\* When all is answered and done the thread has no entry for the mac of a server
\* that was deleted, however the requests of the two http servers and the thread
\* went between one another and wherever the service stopped (create_server and
\* delete_server of ovim.py and dhcp_thread.py): but for the macs it was not to
\* be told of, and those with tasks out of order.
THEOREM MacsAreForgotten == Spec => []TrackedMacsExist
<1>1. DhcpInv => TrackedMacsExist
  <2> SUFFICES ASSUME DhcpInv, AllAnswered, tasks = << >>, NEW m \in Macs \ (untold \cup misled),
                      macStatus[m] # None
               PROVE  Here(m)
    BY DEF TrackedMacsExist
  <2>1. WillTrack(m)
    BY DEF WillTrack
  <2>2. ~ToBeTold(m)
    BY DEF AllAnswered, ToBeTold
  <2> QED BY <2>1, <2>2 DEF DhcpInv, TrackedAreMinded
<1>2. Spec => []CatInv
  BY CatalogueInvariant
<1> QED BY <1>1, <1>2, InitDhcp, NextDhcp, RequestsAreCounted, PTL DEF Spec

-----------------------------------------------------------------------------
(* The requests on networks *)

NewNetRequest == [op : {"choose", "insert", "mark"}, net : Nets, row : Row, chosen : BOOLEAN]

EditNetRequest ==
  [op : {"update", "redhcp"}, net : Nets, column : {"vlan"}, value : Explicit, old : Row]
  \cup [op : {"update", "redhcp"}, net : Nets, column : {"bridge"}, value : Bridges, old : Row]
  \cup [op : {"update", "redhcp"}, net : Nets, column : {"name"}, value : Names, old : Row]

FreeNetRequest == [op : {"free"}, net : Nets]

NetRequest == NewNetRequest \cup EditNetRequest \cup FreeNetRequest

ConfigTyped ==
  /\ Typed(NetOps, NetRequest)
  /\ bridgeNet \in [Bridges -> Nets \cup {None}]
  /\ dhcpNets \in [Nets -> Nat]

\* What the requests on networks have, by what they do next.
LEMMA NetRequestIs ==
  ASSUME Typed(NetOps, NetRequest), NEW h \in HttpThreads
  PROVE  /\ http[h].op \in {"choose", "insert", "mark"} => http[h] \in NewNetRequest
         /\ http[h].op \in {"update", "redhcp"} => http[h] \in EditNetRequest
         /\ http[h].op = "free" => http[h] \in FreeNetRequest
<1>1. ASSUME http[h].op \in NetOps PROVE http[h] \in NewNetRequest \cup EditNetRequest \cup FreeNetRequest
  BY <1>1 DEF Typed, NetRequest
<1>2. \A r \in NewNetRequest : r.op \in {"choose", "insert", "mark"}
  BY DEF NewNetRequest
<1>3. \A r \in EditNetRequest : r.op \in {"update", "redhcp"}
  BY DEF EditNetRequest
<1>4. \A r \in FreeNetRequest : r.op = "free"
  BY DEF FreeNetRequest
<1> QED BY <1>1, <1>2, <1>3, <1>4 DEF NetOps

LEMMA NewNetRequestIs ==
  ASSUME NEW r \in NewNetRequest
  PROVE  /\ r.net \in Nets /\ r.row \in Row /\ r.chosen \in BOOLEAN
         /\ [r EXCEPT !.op = "mark"] \in NewNetRequest
         /\ [r EXCEPT !.op = "mark"].op = "mark"
         /\ [r EXCEPT !.op = "mark"].net = r.net
         /\ [r EXCEPT !.op = "mark"].row = r.row
BY DEF NewNetRequest

LEMMA EditNetRequestIs ==
  ASSUME NEW r \in EditNetRequest
  PROVE  /\ r.net \in Nets /\ r.old \in Row
         /\ \/ r.column = "vlan" /\ r.value \in Explicit
            \/ r.column = "bridge" /\ r.value \in Bridges
            \/ r.column = "name" /\ r.value \in Names
         /\ [r EXCEPT !.op = "redhcp"] \in EditNetRequest
         /\ [r EXCEPT !.op = "redhcp"].op = "redhcp"
         /\ [r EXCEPT !.op = "redhcp"].net = r.net
         /\ [r EXCEPT !.op = "redhcp"].column = r.column
         /\ [r EXCEPT !.op = "redhcp"].value = r.value
         /\ [r EXCEPT !.op = "redhcp"].old = r.old
BY DEF EditNetRequest

LEMMA ChosenIsNew ==
  ASSUME NEW r \in NewNetRequest, NEW v \in Nat
  PROVE  LET q == [r EXCEPT !.op = "insert", !.row.vlan = v, !.chosen = TRUE]
         IN  /\ q \in NewNetRequest
             /\ q.op = "insert" /\ q.net = r.net
             /\ q.row.bridge = r.row.bridge /\ q.row.name = r.row.name
BY DEF NewNetRequest, Row

\* A new request takes a network that nobody has had.
LEMMA NewNetworkForm ==
  ASSUME CatInv, VlanInv, NEW h \in HttpThreads, NEW r, NewNetwork(h, r), r \in Row
  PROVE  \E q \in NewNetRequest :
           /\ http' = [http EXCEPT ![h] = q]
           /\ q.op \in {"choose", "insert"} /\ q.row = r
           /\ q.net \in Nets \ made /\ made' = made \cup {q.net}
<1> DEFINE n == CHOOSE k \in Nets : k \notin made
           q == [op |-> IF r.bridge = None /\ r.vlan = None THEN "choose" ELSE "insert",
                 net |-> n, row |-> r, chosen |-> FALSE]
<1>1. n \in Nets \ made
  BY DEF NewNetwork, VlanInv, VlanTyped
<1>2. http' = [http EXCEPT ![h] = q] /\ made' = made \cup {n}
  BY DEF NewNetwork
<1> HIDE DEF n
<1>3. q \in NewNetRequest /\ q.op \in {"choose", "insert"} /\ q.row = r /\ q.net = n
  BY <1>1 DEF NewNetRequest
<1> HIDE DEF q
<1> QED BY <1>1, <1>2, <1>3

LEMMA EditNetworkForm ==
  ASSUME VlanInv, NEW h \in HttpThreads, NEW n \in Nets, NEW c, NEW v, EditNetwork(h, n, c, v),
         \/ c = "vlan" /\ v \in Explicit
         \/ c = "bridge" /\ v \in Bridges
         \/ c = "name" /\ v \in Names
  PROVE  \E q \in EditNetRequest :
           /\ http' = [http EXCEPT ![h] = q]
           /\ q.op = "update" /\ q.net = n /\ q.column = c /\ q.value = v /\ q.old = nets[n]
           /\ Exists(n)
<1> DEFINE q == [op |-> "update", net |-> n, column |-> c, value |-> v, old |-> nets[n]]
<1>1. nets[n] \in Row /\ Exists(n)
  BY DEF EditNetwork, Exists, VlanInv, VlanTyped
<1>2. q \in EditNetRequest
  BY <1>1 DEF EditNetRequest
<1>3. http' = [http EXCEPT ![h] = q]
  BY DEF EditNetwork
<1>4. /\ q.op = "update" /\ q.net = n /\ q.column = c /\ q.value = v /\ q.old = nets[n]
  OBVIOUS
<1> HIDE DEF q
<1> QED BY <1>1, <1>2, <1>3, <1>4

\* The ways a request on networks begins.
LEMMA NetworkRequestIs ==
  ASSUME NEW h \in HttpThreads, NetworkRequest(h)
  PROVE  \/ \E r \in Row : NewNetwork(h, r)
         \/ \E n \in Nets, v \in Explicit : EditNetwork(h, n, "vlan", v)
         \/ \E n \in Nets, v \in Bridges : EditNetwork(h, n, "bridge", v)
         \/ \E n \in Nets, v \in Names : EditNetwork(h, n, "name", v)
         \/ \E n \in Nets : DeleteNetwork(h, n)
<1>1. /\ \A b \in Bridges \cup {None}, v \in Nat \cup {None}, x \in Names :
            [bridge |-> b, vlan |-> v, name |-> x] \in Row
      /\ None \in Names
  BY DEF Row, Names
<1>2. \A v \in Explicit : v \in Nat
  BY VlansAreNumbers
<1>3. CASE DataRequest(h)
  BY <1>1, <1>2, <1>3 DEF DataRequest
<1>4. CASE BridgeRequest(h)
  BY <1>1, <1>4 DEF BridgeRequest
<1>5. CASE \E n \in Nets :
             DeleteNetwork(h, n) \/ \E x \in Names : EditNetwork(h, n, "name", x)
  BY <1>5
<1> QED BY <1>3, <1>4, <1>5 DEF NetworkRequest

LEMMA InitConfigTyped == Init => ConfigTyped
<1> SUFFICES ASSUME Init PROVE ConfigTyped
  OBVIOUS
<1>1. http = [h \in HttpThreads |-> Idle]
  BY DEF Init
<1>2. PICK rows : NetworksInit(rows)
  BY DEF Init
<1>3. Typed(NetOps, NetRequest)
  BY <1>1 DEF Typed, NetOps
<1>4. \A b \in Bridges : LoadedBridge(b) \in Nets \cup {None}
  BY DEF LoadedBridge
<1>5. \A first : \A n \in Nets : TimesLoaded(first, n) \in Nat
  BY DEF TimesLoaded
<1> QED BY <1>2, <1>3, <1>4, <1>5 DEF NetworksInit, ConfigTyped

LEMMA RestartConfigTyped ==
  ASSUME Restart
  PROVE  ConfigTyped'
<1>1. http' = [h \in HttpThreads |-> Idle] /\ LoadNetworks
  BY DEF Restart
<1>2. Typed(NetOps, NetRequest)'
  BY <1>1 DEF Typed, NetOps
<1>3. \A b \in Bridges : LoadedBridge(b) \in Nets \cup {None}
  BY DEF LoadedBridge
<1>4. \A first : \A n \in Nets : TimesLoaded(first, n) \in Nat
  BY DEF TimesLoaded
<1> QED BY <1>1, <1>2, <1>3, <1>4 DEF LoadNetworks, ConfigTyped

LEMMA AsideConfigTyped ==
  ASSUME CatInv, ConfigTyped, Aside(NetOps), UNCHANGED netVars
  PROVE  ConfigTyped'
<1>1. Typed(NetOps, NetRequest)'
  BY AsideTyped DEF CatInv, CatTyped, ConfigTyped, Typed
<1> QED BY <1>1 DEF ConfigTyped, netVars

LEMMA NetworksConfigTyped ==
  ASSUME CatInv, VlanInv, ConfigTyped, NEW h \in HttpThreads, NetworkRequest(h) \/ NetworkStep(h)
  PROVE  ConfigTyped'
<1>1. PICK q : http' = [http EXCEPT ![h] = q] /\ (q.op \in NetOps => q \in NetRequest)
  <2>1. CASE NetworkRequest(h)
    <3>1. CASE \E r \in Row : NewNetwork(h, r)
      BY <3>1, NewNetworkForm DEF NetRequest
    <3>2. CASE \/ \E n \in Nets, v \in Explicit : EditNetwork(h, n, "vlan", v)
               \/ \E n \in Nets, v \in Bridges : EditNetwork(h, n, "bridge", v)
               \/ \E n \in Nets, v \in Names : EditNetwork(h, n, "name", v)
      BY <3>2, EditNetworkForm DEF NetRequest
    <3>3. CASE \E n \in Nets : DeleteNetwork(h, n)
      <4> PICK n \in Nets : DeleteNetwork(h, n)
        BY <3>3
      <4>1. [op |-> "free", net |-> n] \in NetRequest
        BY DEF NetRequest, FreeNetRequest
      <4> QED BY <4>1 DEF DeleteNetwork
    <3> QED BY <2>1, <3>1, <3>2, <3>3, NetworkRequestIs
  <2>2. CASE GetFreeNetVlan(h)
    <3> DEFINE last == NextVlan(cache[h].last)
    <3>1. last \in Nat
      <4>1. cache[h].last \in (FirstVlan - 1)..(EndVlan - 1)
        BY DEF VlanInv, VlanTyped, VlanList
      <4> QED BY <4>1, VlansAreNumbers DEF NextVlan
    <3>2. http[h] \in NewNetRequest
      BY <2>2, NetRequestIs DEF GetFreeNetVlan, ConfigTyped
    <3>3. \/ http' = [http EXCEPT ![h] = http[h]]
          \/ http' = [http EXCEPT ![h] = Idle]
          \/ http' = [http EXCEPT ![h] =
                        [http[h] EXCEPT !.op = "insert", !.row.vlan = last, !.chosen = TRUE]]
      BY <2>2, GetFreeNetVlanForm DEF TurnOf
    <3> HIDE DEF last
    <3>4. [http[h] EXCEPT !.op = "insert", !.row.vlan = last, !.chosen = TRUE] \in NetRequest
      BY <3>1, <3>2, ChosenIsNew DEF NetRequest
    <3>5. Idle.op \notin NetOps
      BY DEF NetOps
    <3> QED BY <3>2, <3>3, <3>4, <3>5 DEF NetRequest
  <2>3. CASE InsertNet(h)
    BY <2>3, NetRequestIs, NewNetRequestIs DEF InsertNet, NetRequest, ConfigTyped, NetOps
  <2>4. CASE UpdateNet(h)
    <3>1. http[h] \in EditNetRequest
      BY <2>4, NetRequestIs DEF UpdateNet, ConfigTyped
    <3>2. \/ http' = [http EXCEPT ![h] = Idle]
          \/ http' = [http EXCEPT ![h] = [http[h] EXCEPT !.op = "redhcp"]]
      BY <2>4 DEF UpdateNet
    <3> QED BY <3>1, <3>2, EditNetRequestIs DEF NetRequest, NetOps
  <2>5. CASE MarkNet(h) \/ EditDhcpNets(h) \/ FreeNet(h)
    <3>1. http' = [http EXCEPT ![h] = Idle]
      BY <2>5 DEF MarkNet, EditDhcpNets, FreeNet
    <3>2. Idle.op \notin NetOps
      BY DEF NetOps
    <3> QED BY <3>1, <3>2
  <2> QED BY <2>1, <2>2, <2>3, <2>4, <2>5 DEF NetworkStep
<1>2. Typed(NetOps, NetRequest)'
  BY <1>1, RequestTyped DEF CatInv, CatTyped, ConfigTyped, Typed
<1>3. bridgeNet' \in [Bridges -> Nets \cup {None}]
  <2>1. bridgeNet \in [Bridges -> Nets \cup {None}]
    BY DEF ConfigTyped
  <2>2. CASE MarkNet(h)
    <3>1. http[h].net \in Nets
      BY <2>2, NetRequestIs, NewNetRequestIs DEF MarkNet, ConfigTyped
    <3> QED BY <2>1, <2>2, <3>1 DEF MarkNet
  <2>3. CASE FreeNet(h)
    BY <2>1, <2>3 DEF FreeNet
  <2>4. CASE NetworkRequest(h)
    BY <2>1, <2>4, NetworkRequestIs DEF NewNetwork, EditNetwork, DeleteNetwork, netVars
  <2>5. CASE GetFreeNetVlan(h) \/ InsertNet(h) \/ UpdateNet(h) \/ EditDhcpNets(h)
    BY <2>1, <2>5, GetFreeNetVlanForm DEF InsertNet, UpdateNet, EditDhcpNets
  <2> QED BY <2>2, <2>3, <2>4, <2>5 DEF NetworkStep
<1>4. dhcpNets' \in [Nets -> Nat]
  <2>1. dhcpNets \in [Nets -> Nat]
    BY DEF ConfigTyped
  <2>2. ASSUME NEW n \in Nets PROVE Removed(n) \in [Nets -> Nat]
    <3>1. (IF dhcpNets[n] = 0 THEN 0 ELSE dhcpNets[n] - 1) \in Nat
      BY <2>1
    <3> QED BY <2>1, <3>1 DEF Removed
  <2>3. CASE MarkNet(h)
    <3> PICK n \in Nets : n = http[h].net
      BY <2>3, NetRequestIs, NewNetRequestIs DEF MarkNet, ConfigTyped
    <3>1. dhcpNets' = [dhcpNets EXCEPT ![n] = @ + 1] \/ dhcpNets' = dhcpNets
      BY <2>3 DEF MarkNet
    <3>2. dhcpNets[n] + 1 \in Nat
      BY <2>1
    <3> QED BY <2>1, <3>1, <3>2
  <2>4. CASE FreeNet(h)
    <3>1. http[h].net \in Nets
      BY <2>4, NetRequestIs DEF FreeNet, ConfigTyped, FreeNetRequest
    <3> QED BY <2>2, <2>4, <3>1 DEF FreeNet
  <2>5. CASE EditDhcpNets(h)
    <3> PICK n \in Nets : n = http[h].net
      BY <2>5, NetRequestIs, EditNetRequestIs DEF EditDhcpNets, ConfigTyped
    <3> DEFINE f == Removed(n)
    <3>1. \/ dhcpNets' = [f EXCEPT ![n] = f[n] + 1]
          \/ dhcpNets' = [f EXCEPT ![n] = f[n]]
      <4> HIDE DEF f
      <4> DEFINE name == IF http[h].column = "name" THEN http[h].value ELSE http[h].old.name
      <4>1. dhcpNets' = [f EXCEPT ![n] = IF name = None THEN f[n] ELSE f[n] + 1]
        BY <2>5 DEF EditDhcpNets, f
      <4> QED BY <4>1
    <3>2. f \in [Nets -> Nat]
      BY <2>2
    <3> HIDE DEF f
    <3>3. f[n] + 1 \in Nat
      BY <3>2
    <3> QED BY <3>1, <3>2, <3>3
  <2>6. CASE NetworkRequest(h)
    BY <2>1, <2>6, NetworkRequestIs DEF NewNetwork, EditNetwork, DeleteNetwork, netVars
  <2>7. CASE GetFreeNetVlan(h) \/ InsertNet(h) \/ UpdateNet(h)
    BY <2>1, <2>7, GetFreeNetVlanForm DEF InsertNet, UpdateNet
  <2> QED BY <2>3, <2>4, <2>5, <2>6, <2>7 DEF NetworkStep
<1> QED BY <1>2, <1>3, <1>4 DEF ConfigTyped

-----------------------------------------------------------------------------
(* The requests on controllers and external ports *)

OfcRequests ==
  [op : {"load", "delete_ofc", "forget_ofc", "exit_ofc"}, ofc : Ofcs, dpid : Dpids]
  \cup [op : {"forget_dpid"}, ofc : Ofcs, dpid : Dpids, at : Nat \ {0}]
  \cup [op : {"remove_dpid"}, ofc : Ofcs, dpid : Dpids, at : Nat \ {0}, listed : Known]
  \cup [op : {"insert_port"}, port : OfPorts, ofc : Known, dpid : Dpids]
  \cup [op : {"pick"}, port : OfPorts, ofc : Known, dpid : Dpids \cup {Nothing}]
  \cup [op : {"tell"}, ofc : Known, to : SUBSET Known]

OfcTyped ==
  /\ Typed(OfcOps, OfcRequests)
  /\ ControllersTypeOK
  /\ ofTasks \in [Known -> Seq({"exit", "update"})]
  /\ ofcsThreadDpid \in Seq(Dpids \X Known)
  /\ ofcsMade \subseteq Ofcs
  /\ behind \subseteq Known

OfcRowsTyped ==
  /\ ofcs \in [Ofcs -> Dpids \cup {Nothing}]
  /\ ofcsMade \subseteq Ofcs
  /\ behind \subseteq Known
  /\ ofPort \in [OfPorts -> [ofc : Known, dpid : Dpids] \cup {Nothing}]

\* What these requests have, by what they do next.
LEMMA OfcRequestIs ==
  ASSUME Typed(OfcOps, OfcRequests), NEW h \in HttpThreads, http[h].op \in OfcOps
  PROVE  /\ http[h].ofc \in Known
         /\ http[h].op \in {"load", "delete_ofc", "forget_ofc", "exit_ofc", "forget_dpid", "remove_dpid"} =>
              http[h].ofc \in Ofcs /\ http[h].dpid \in Dpids
         /\ http[h].op \in {"forget_dpid", "remove_dpid"} => http[h].at \in Nat \ {0}
         /\ http[h].op = "forget_dpid" =>
              http[h] = [op |-> "forget_dpid", ofc |-> http[h].ofc, dpid |-> http[h].dpid, at |-> http[h].at]
         /\ http[h].op = "remove_dpid" => http[h].listed \in Known
         /\ http[h].op = "delete_ofc" => [http[h] EXCEPT !.op = "forget_ofc"] \in OfcRequests
         /\ http[h].op = "insert_port" =>
              /\ http[h].port \in OfPorts /\ http[h].dpid \in Dpids
              /\ [http[h] EXCEPT !.op = "pick", !.dpid = Nothing] \in OfcRequests
         /\ http[h].op = "pick" => http[h].port \in OfPorts
         /\ http[h].op = "tell" =>
              /\ http[h].to \subseteq Known
              /\ \A S \in SUBSET Known : [http[h] EXCEPT !.to = S] \in OfcRequests
<1>1. http[h] \in OfcRequests
  BY DEF Typed
<1>2. CASE http[h] \in [op : {"load", "delete_ofc", "forget_ofc", "exit_ofc"}, ofc : Ofcs, dpid : Dpids]
  BY <1>2 DEF OfcRequests, Known
<1>3. CASE http[h] \in [op : {"insert_port"}, port : OfPorts, ofc : Known, dpid : Dpids]
  BY <1>3 DEF OfcRequests
<1>4. CASE http[h] \in [op : {"pick"}, port : OfPorts, ofc : Known, dpid : Dpids \cup {Nothing}]
  BY <1>4 DEF OfcRequests
<1>5. CASE http[h] \in [op : {"tell"}, ofc : Known, to : SUBSET Known]
  BY <1>5 DEF OfcRequests
<1>6. CASE http[h] \in [op : {"forget_dpid"}, ofc : Ofcs, dpid : Dpids, at : Nat \ {0}]
  BY <1>6 DEF Known
<1>7. CASE http[h] \in [op : {"remove_dpid"}, ofc : Ofcs, dpid : Dpids, at : Nat \ {0}, listed : Known]
  BY <1>7 DEF Known
<1> QED BY <1>1, <1>2, <1>3, <1>4, <1>5, <1>6, <1>7 DEF OfcRequests

\* A start makes a list of all rows.
LEMMA StartedList ==
  ASSUME NEW S, IsFiniteSet(S), S \subseteq Dpids \X Known
  PROVE  /\ << <<DefaultDpid, Default>> >> \o SetToSeq(S) \in Seq(Dpids \X Known)
         /\ (<< <<DefaultDpid, Default>> >> \o SetToSeq(S))[1] = <<DefaultDpid, Default>>
         /\ 1 \in DOMAIN (<< <<DefaultDpid, Default>> >> \o SetToSeq(S))
<1>1. ExistsBijection(1..Cardinality(S), S) /\ Cardinality(S) \in Nat
  BY FS_CardinalityType
<1>2. \E f \in [1..Cardinality(S) -> S] : IsInjective(f)
  BY <1>1 DEF ExistsBijection, Bijection, Injection, IsInjective
<1>3. SetToSeq(S) \in [1..Cardinality(S) -> S]
  BY <1>2 DEF SetToSeq
<1>4. SetToSeq(S) \in Seq(Dpids \X Known)
  BY <1>1, <1>3
<1>5. <<DefaultDpid, Default>> \in Dpids \X Known
  BY DpidsAreTold DEF Known
<1> HIDE DEF SetToSeq
<1> QED BY <1>4, <1>5

\* The rows are finitely many.
LEMMA RowsAreFinite ==
  ASSUME NEW C \in SUBSET Ofcs, NEW f
  PROVE  IsFiniteSet({<<f[c], c>> : c \in C})
<1>1. IsFiniteSet(C)
  BY DpidsAreTold, FS_Subset
<1> DEFINE T == {<<f[c], c>> : c \in C}
           g == [c \in C |-> <<f[c], c>>]
<1>2. g \in [C -> T] /\ \A t \in T : \E c \in C : g[c] = t
  OBVIOUS
<1>3. \A a, b \in C : g[a] = g[b] => a = b
  OBVIOUS
<1>4. g \in Bijection(C, T)
  BY <1>2, <1>3 DEF Bijection, Injection, Surjection, IsInjective
<1> HIDE DEF T, g
<1>5. ExistsBijection(C, T)
  BY <1>4 DEF ExistsBijection
<1>6. IsFiniteSet(T)
  BY <1>1, <1>5, FS_Bijection
<1> QED BY <1>6 DEF T

LEMMA InitOfcTyped == Init => OfcTyped
<1> SUFFICES ASSUME Init PROVE OfcTyped
  OBVIOUS
<1>1. http = [h \in HttpThreads |-> Idle]
  BY DEF Init
<1>2. PICK d \in Dpids :
        ControllersInit([c \in Ofcs |-> IF area = "controllers" /\ c = FirstOfc THEN d ELSE Nothing])
  BY DEF Init
<1>3. Typed(OfcOps, OfcRequests)
  BY <1>1 DEF Typed, OfcOps
<1>4. \A c : << >> \in Seq({"exit", "update"})
  OBVIOUS
<1>5. ofcs \in [Ofcs -> Dpids \cup {Nothing}]
  BY <1>2 DEF ControllersInit
<1>6. ofcsThreadDpid \in Seq(Dpids \X Known)
  <2> DEFINE S == {<<ofcs[c], c>> : c \in ofcsMade}
  <2>1. ofcsMade = {c \in Ofcs : HasRow(c)} /\ ofcsThreadDpid = << <<DefaultDpid, Default>> >> \o SetToSeq(S)
    BY <1>2 DEF ControllersInit
  <2>2. S \subseteq Dpids \X Known
    BY <1>5, <2>1 DEF HasRow, Known
  <2>3. IsFiniteSet(S)
    BY <2>1, RowsAreFinite
  <2> HIDE DEF S
  <2> QED BY <2>1, <2>2, <2>3, StartedList
<1> QED BY <1>2, <1>3, <1>4, <1>5, <1>6 DEF ControllersInit, OfcTyped, ControllersTypeOK, Present, Known

LEMMA RestartList ==
  ASSUME ofcs \in [Ofcs -> Dpids \cup {Nothing}], StartOfcs
  PROVE  /\ ofcsThreadDpid' \in Seq(Dpids \X Known)
         /\ ofcsThreadDpid'[1] = <<DefaultDpid, Default>> /\ 1 \in DOMAIN ofcsThreadDpid'
<1> DEFINE S == {<<ofcs[c], c>> : c \in Present \ {Default}}
<1>1. ofcsThreadDpid' = << <<DefaultDpid, Default>> >> \o SetToSeq(S)
  BY DEF StartOfcs
<1>2. Present \ {Default} \in SUBSET Ofcs
  BY DEF Present
<1>3. IsFiniteSet(S)
  BY <1>2, RowsAreFinite
<1>4. S \subseteq Dpids \X Known
  BY DEF Present, HasRow, Known
<1> HIDE DEF S
<1> QED BY <1>1, <1>3, <1>4, StartedList

LEMMA RestartOfcTyped ==
  ASSUME OfcTyped, Restart
  PROVE  OfcTyped'
<1>1. http' = [h \in HttpThreads |-> Idle] /\ StartOfcs
  BY DEF Restart
<1>2. Typed(OfcOps, OfcRequests)'
  BY <1>1 DEF Typed, OfcOps
<1>3. ofcsThreadDpid' \in Seq(Dpids \X Known)
  BY <1>1, RestartList DEF OfcTyped, ControllersTypeOK
<1> QED
  BY <1>1, <1>2, <1>3 DEF StartOfcs, OfcTyped, ControllersTypeOK, Present, Known, ofcRows

LEMMA AsideOfcTyped ==
  ASSUME CatInv, OfcTyped, Aside(OfcOps), UNCHANGED ofcVars
  PROVE  OfcTyped'
<1>1. Typed(OfcOps, OfcRequests)'
  BY AsideTyped DEF CatInv, CatTyped, OfcTyped, Typed
<1> QED BY <1>1 DEF OfcTyped, ControllersTypeOK, ofcVars

LEMMA OfcRequestTyped ==
  ASSUME CatInv, OfcTyped, NEW h \in HttpThreads, OfcRequest(h)
  PROVE  OfcTyped'
<1>1. PICK q \in OfcRequests \cup {Idle} : http' = [http EXCEPT ![h] = q]
  <2>1. ASSUME NEW c \in Ofcs, NEW d \in Dpids, NewOfController(h, c, d) \/ EditOfController(h, c, d)
        PROVE  \E q \in OfcRequests \cup {Idle} : http' = [http EXCEPT ![h] = q]
    <3>1. [op |-> "load", ofc |-> c, dpid |-> d] \in OfcRequests
      BY DEF OfcRequests
    <3> QED BY <2>1, <3>1 DEF NewOfController, EditOfController
  <2>2. ASSUME NEW c \in Ofcs, DeleteOfController(h, c)
        PROVE  \E q \in OfcRequests \cup {Idle} : http' = [http EXCEPT ![h] = q]
    <3>1. ofcs[c] \in Dpids
      BY <2>2 DEF DeleteOfController, HasRow, OfcTyped, ControllersTypeOK
    <3>2. [op |-> "delete_ofc", ofc |-> c, dpid |-> ofcs[c]] \in OfcRequests
      BY <3>1 DEF OfcRequests
    <3> QED BY <2>2, <3>2 DEF DeleteOfController
  <2>3. ASSUME NEW p \in OfPorts, NEW c \in Known, NewExternalPort(h, p, c)
        PROVE  \E q \in OfcRequests \cup {Idle} : http' = [http EXCEPT ![h] = q]
    <3>1. DpidOf(c) \in Dpids
      BY <2>3, DpidsAreTold DEF NewExternalPort, Present, DpidOf, HasRow, OfcTyped, ControllersTypeOK
    <3>2. [op |-> "insert_port", port |-> p, ofc |-> c, dpid |-> DpidOf(c)] \in OfcRequests
      BY <3>1 DEF OfcRequests
    <3> QED BY <2>3, <3>2 DEF NewExternalPort
  <2>4. ASSUME NEW p \in OfPorts, DeletePort(h, p)
        PROVE  \E q \in OfcRequests \cup {Idle} : http' = [http EXCEPT ![h] = q]
    <3>1. ofPort[p] \in [ofc : Known, dpid : Dpids]
      BY <2>4 DEF DeletePort, OfcTyped, ControllersTypeOK
    <3>2. [op |-> "pick", port |-> p, ofc |-> ofPort[p].ofc, dpid |-> ofPort[p].dpid] \in OfcRequests
      BY <3>1 DEF OfcRequests
    <3> QED BY <2>4, <3>2 DEF DeletePort
  <2> QED BY <2>1, <2>2, <2>3, <2>4 DEF OfcRequest
<1>2. Typed(OfcOps, OfcRequests)'
  <2>1. q.op \in OfcOps => q \in OfcRequests
    BY DEF OfcOps
  <2> QED BY <1>1, <2>1, RequestTyped DEF CatInv, CatTyped, OfcTyped, Typed
<1>3. OfcRowsTyped'
  <2>1. ASSUME NEW c \in Ofcs, NEW d \in Dpids, NewOfController(h, c, d) \/ EditOfController(h, c, d)
        PROVE  OfcRowsTyped'
    BY <2>1 DEF NewOfController, EditOfController, OfcTyped, ControllersTypeOK, OfcRowsTyped
  <2>2. CASE \/ \E c \in Ofcs : DeleteOfController(h, c)
             \/ \E p \in OfPorts, c \in Known : NewExternalPort(h, p, c)
    BY <2>2 DEF DeleteOfController, NewExternalPort, OfcTyped, ControllersTypeOK, ofcVars,
                OfcRowsTyped
  <2>3. ASSUME NEW p \in OfPorts, DeletePort(h, p)
        PROVE  OfcRowsTyped'
    BY <2>3 DEF DeletePort, OfcTyped, ControllersTypeOK, OfcRowsTyped
  <2> QED BY <2>1, <2>2, <2>3 DEF OfcRequest
<1>4. UNCHANGED ofcThreads
  BY DEF OfcRequest, NewOfController, EditOfController, DeleteOfController, NewExternalPort,
         DeletePort, ofcVars, ofcThreads
<1> QED BY <1>2, <1>3, <1>4 DEF OfcTyped, ControllersTypeOK, OfcRowsTyped, ofcThreads

LEMMA ConcatenatedAt ==
  ASSUME NEW S, NEW a \in Seq(S), NEW b \in Seq(S), NEW i \in 1..Len(a \o b)
  PROVE  (a \o b)[i] = IF i <= Len(a) THEN a[i] ELSE b[i - Len(a)]
OBVIOUS

\* remove takes one entry out of a list and leaves the others.
LEMMA WithoutOne ==
  ASSUME NEW S, NEW s \in Seq(S), NEW i \in DOMAIN s
  PROVE  /\ RemoveAt(s, i) \in Seq(S)
         /\ \A j \in DOMAIN s : s[j] # s[i] =>
              \E k \in DOMAIN RemoveAt(s, i) : RemoveAt(s, i)[k] = s[j]
<1> DEFINE a == SubSeq(s, 1, i - 1)
           b == SubSeq(s, i + 1, Len(s))
<1>1. i \in 1..Len(s) /\ Len(s) \in Nat
  OBVIOUS
<1>2. a \in Seq(S) /\ Len(a) = i - 1 /\ \A j \in 1..(i - 1) : a[j] = s[j]
  BY <1>1
<1>3. b \in Seq(S) /\ Len(b) = Len(s) - i /\ \A j \in 1..(Len(s) - i) : b[j] = s[j + i]
  BY <1>1
<1> HIDE DEF a, b
<1>4. a \o b \in Seq(S) /\ Len(a \o b) = Len(s) - 1
  BY <1>1, <1>2, <1>3
<1>5. ASSUME NEW j \in DOMAIN s, s[j] # s[i]
      PROVE  \E k \in DOMAIN (a \o b) : (a \o b)[k] = s[j]
  <2>1. CASE j < i
    <3>1. j \in 1..Len(a) /\ j \in 1..Len(a \o b)
      BY <1>1, <1>2, <1>4, <2>1
    <3>2. (a \o b)[j] = a[j]
      BY <1>2, <1>3, <3>1, ConcatenatedAt
    <3> QED BY <1>1, <1>2, <1>4, <2>1, <3>1, <3>2
  <2>2. CASE j > i
    <3>1. j - 1 \in 1..Len(a \o b) /\ j - 1 > Len(a) /\ j - 1 - Len(a) = j - i /\ j - i \in 1..Len(b)
      BY <1>1, <1>2, <1>3, <1>4, <2>2
    <3>2. (a \o b)[j - 1] = b[j - i]
      <4>1. a \in Seq(S) /\ b \in Seq(S) /\ j - 1 \in 1..Len(a \o b)
        BY <1>2, <1>3, <3>1
      <4>2. (a \o b)[j - 1] = IF j - 1 <= Len(a) THEN a[j - 1] ELSE b[(j - 1) - Len(a)]
        BY <4>1, ConcatenatedAt
      <4>3. (j - 1) - Len(a) = j - i /\ ~(j - 1 <= Len(a))
        BY <1>1, <1>2, <3>1
      <4> QED BY <4>2, <4>3
    <3>3. (j - i) + i = j
      BY <1>1
    <3>4. b[j - i] = s[(j - i) + i]
      BY <1>3, <3>1
    <3>5. (a \o b)[j - 1] = s[j] /\ j - 1 \in DOMAIN (a \o b)
      BY <1>4, <3>1, <3>2, <3>3, <3>4
    <3> QED BY <3>5
  <2>3. j # i
    BY <1>5
  <2> QED BY <1>1, <2>1, <2>2, <2>3
<1>6. RemoveAt(s, i) = a \o b
  BY DEF RemoveAt, a, b
<1> QED BY <1>4, <1>5, <1>6

LEMMA ForgetDpidForm ==
  ASSUME OfcTyped, NEW h \in HttpThreads, ForgetDpid(h)
  PROVE  \E q \in OfcRequests : http' = [http EXCEPT ![h] = q]
<1> DEFINE c == http[h].ofc
           d == http[h].dpid
           i == http[h].at
<1>1. http[h].op = "forget_dpid" /\ http[h].op \in OfcOps
  BY DEF ForgetDpid, OfcOps
<1>2. /\ c \in Ofcs /\ d \in Dpids /\ i \in Nat \ {0}
      /\ http[h] = [op |-> "forget_dpid", ofc |-> c, dpid |-> d, at |-> i]
  BY <1>1, OfcRequestIs DEF OfcTyped
<1>3. CASE i > Len(ofcsThreadDpid)
  <2>1. [op |-> "exit_ofc", ofc |-> c, dpid |-> d] \in OfcRequests
    BY <1>2 DEF OfcRequests
  <2> QED BY <1>3, <2>1 DEF ForgetDpid
<1>4. CASE ~(i > Len(ofcsThreadDpid))
  <2>1. ofcsThreadDpid[i] \in Dpids \X Known
    BY <1>2, <1>4 DEF OfcTyped
  <2>2. CASE ofcsThreadDpid[i][1] = d
    <3>1. [op |-> "remove_dpid", ofc |-> c, dpid |-> d, at |-> i + 1, listed |-> ofcsThreadDpid[i][2]]
            \in OfcRequests
      BY <1>2, <2>1 DEF OfcRequests
    <3> QED BY <1>4, <2>2, <3>1 DEF ForgetDpid
  <2>3. CASE ofcsThreadDpid[i][1] # d
    <3>1. [http[h] EXCEPT !.at = i + 1] = [op |-> "forget_dpid", ofc |-> c, dpid |-> d, at |-> i + 1]
      BY <1>2
    <3>2. [op |-> "forget_dpid", ofc |-> c, dpid |-> d, at |-> i + 1] \in OfcRequests
      BY <1>2 DEF OfcRequests
    <3> QED BY <1>4, <2>3, <3>1, <3>2 DEF ForgetDpid
  <2> QED BY <2>2, <2>3
<1> QED BY <1>3, <1>4

LEMMA OfcStepTyped ==
  ASSUME CatInv, OfcTyped, NEW h \in HttpThreads, OfcStep(h)
  PROVE  OfcTyped'
<1>1. http[h].op \in OfcOps
  BY DEF OfcStep, CreateOfcTask, DeleteOfc, ForgetOfc, ForgetDpid, RemoveDpid, ExitOfc, InsertPort,
         PickThread, TellThread, OfcOps
<1>2. PICK c \in Known : c = http[h].ofc
  BY <1>1, OfcRequestIs DEF OfcTyped
<1>3. PICK q \in OfcRequests \cup {Idle} : http' = [http EXCEPT ![h] = q]
  <2>1. CASE CreateOfcTask(h) \/ ExitOfc(h)
    BY <2>1 DEF CreateOfcTask, ExitOfc
  <2>2. CASE DeleteOfc(h)
    BY <1>1, <2>2, OfcRequestIs DEF DeleteOfc, OfcTyped
  <2>3. CASE ForgetOfc(h)
    <3>1. [op |-> "forget_dpid", ofc |-> c, dpid |-> http[h].dpid, at |-> 1] \in OfcRequests
      <4>1. http[h].op = "forget_ofc" /\ Typed(OfcOps, OfcRequests)
        BY <2>3 DEF ForgetOfc, OfcTyped
      <4>2. c \in Ofcs /\ http[h].dpid \in Dpids
        BY <1>1, <1>2, <4>1, OfcRequestIs
      <4> QED BY <4>2 DEF OfcRequests
    <3> QED BY <1>2, <2>3, <3>1 DEF ForgetOfc
  <2>7. CASE ForgetDpid(h)
    BY <1>1, <1>2, <2>7, ForgetDpidForm
  <2>8. CASE RemoveDpid(h)
    <3>1. [op |-> "forget_dpid", ofc |-> c, dpid |-> http[h].dpid, at |-> http[h].at] \in OfcRequests
      BY <1>1, <1>2, <2>8, OfcRequestIs DEF RemoveDpid, OfcTyped, OfcRequests
    <3> QED BY <1>2, <2>8, <3>1 DEF RemoveDpid
  <2>4. CASE InsertPort(h)
    BY <1>1, <2>4, OfcRequestIs DEF InsertPort, OfcTyped
  <2>5. CASE PickThread(h)
    <3> DEFINE to == ThreadsFor(http[h].ofc, http[h].dpid)
    <3>1. to \in SUBSET Known
      BY <1>2 DEF ThreadsFor, Listed, Known
    <3>2. http' = [http EXCEPT ![h] = [op |-> "tell", ofc |-> c, to |-> to]]
      BY <1>2, <2>5 DEF PickThread
    <3> HIDE DEF to
    <3>3. [op |-> "tell", ofc |-> c, to |-> to] \in OfcRequests
      BY <3>1 DEF OfcRequests
    <3> QED BY <3>2, <3>3
  <2>6. CASE TellThread(h)
    <3>1. CASE http[h].to = {}
      BY <2>6, <3>1 DEF TellThread
    <3>2. CASE http[h].to # {}
      <4> PICK k \in http[h].to : http' = [http EXCEPT ![h] = [http[h] EXCEPT !.to = @ \ {k}]]
        BY <2>6, <3>2 DEF TellThread
      <4>1. http[h].to \subseteq Known
        BY <1>1, <2>6, OfcRequestIs DEF OfcTyped, TellThread
      <4>2. Typed(OfcOps, OfcRequests) /\ http[h].op = "tell"
        BY <2>6 DEF OfcTyped, TellThread
      <4>3. \A S \in SUBSET Known : [http[h] EXCEPT !.to = S] \in OfcRequests
        BY <1>1, <4>2, OfcRequestIs
      <4>4. [http[h] EXCEPT !.to = http[h].to \ {k}] \in OfcRequests
        BY <4>1, <4>3
      <4> QED BY <4>4
    <3> QED BY <3>1, <3>2
  <2> QED BY <2>1, <2>2, <2>3, <2>4, <2>5, <2>6, <2>7, <2>8 DEF OfcStep
<1>4. Typed(OfcOps, OfcRequests)'
  <2>1. q.op \in OfcOps => q \in OfcRequests
    BY DEF OfcOps
  <2> QED BY <1>3, <2>1, RequestTyped DEF CatInv, CatTyped, OfcTyped, Typed
<1>5. /\ ofcs' \in [Ofcs -> Dpids \cup {Nothing}] /\ ofcsMade' = ofcsMade
      /\ ofcsThread' \subseteq Known /\ running' \subseteq Known /\ behind' \subseteq Known
      /\ ofPort' \in [OfPorts -> [ofc : Known, dpid : Dpids] \cup {Nothing}]
  <2>1. CASE CreateOfcTask(h)
    BY <1>2, <2>1 DEF CreateOfcTask, OfcTyped, ControllersTypeOK, ofcRows
  <2>2. CASE DeleteOfc(h)
    BY <2>2 DEF DeleteOfc, OfcTyped, ControllersTypeOK, ofcThreads
  <2>3. CASE ForgetOfc(h) \/ ForgetDpid(h) \/ RemoveDpid(h) \/ ExitOfc(h)
    BY <2>3 DEF ForgetOfc, ForgetDpid, RemoveDpid, ExitOfc, OfcTyped, ControllersTypeOK, ofcRows, ofcThreads
  <2>4. CASE InsertPort(h)
    <3>1. [ofc |-> c, dpid |-> http[h].dpid] \in [ofc : Known, dpid : Dpids]
      BY <1>1, <2>4, OfcRequestIs DEF InsertPort, OfcTyped
    <3>2. /\ UNCHANGED <<ofcs, ofcsMade, ofcsThread, running>>
          /\ \/ ofPort' = ofPort
             \/ ofPort' = [ofPort EXCEPT ![http[h].port] = [ofc |-> c, dpid |-> http[h].dpid]]
          /\ behind' \subseteq behind \cup {c}
      BY <1>2, <2>4 DEF InsertPort, ofcThreads
    <3> QED BY <3>1, <3>2 DEF OfcTyped, ControllersTypeOK
  <2>5. CASE PickThread(h) \/ TellThread(h)
    BY <2>5 DEF PickThread, TellThread, OfcTyped, ControllersTypeOK, ofcRows, ofcThreads
  <2> QED BY <2>1, <2>2, <2>3, <2>4, <2>5 DEF OfcStep
<1>6. ofTasks' \in [Known -> Seq({"exit", "update"})]
  <2>1. \A s \in Seq({"exit", "update"}) :
          Append(s, "exit") \in Seq({"exit", "update"}) /\ Append(s, "update") \in Seq({"exit", "update"})
    OBVIOUS
  <2>2. ofTasks \in [Known -> Seq({"exit", "update"})]
    BY DEF OfcTyped
  <2>3. CASE ExitOfc(h)
    BY <1>2, <2>1, <2>2, <2>3 DEF ExitOfc
  <2>4. CASE TellThread(h)
    <3>1. http[h].to \subseteq Known
      BY <1>1, <2>4, OfcRequestIs DEF OfcTyped, TellThread
    <3>2. \/ UNCHANGED ofTasks
          \/ \E k \in Known : ofTasks' = [ofTasks EXCEPT ![k] = Append(ofTasks[k], "update")]
      BY <2>4, <3>1 DEF TellThread
    <3> QED BY <2>1, <2>2, <3>2
  <2>5. CASE ~ExitOfc(h) /\ ~TellThread(h)
    BY <2>2, <2>5 DEF OfcStep, CreateOfcTask, DeleteOfc, ForgetOfc, ForgetDpid, RemoveDpid,
                      InsertPort, PickThread, ofcThreads
  <2> QED BY <2>3, <2>4, <2>5
<1>7. ofcsThreadDpid' \in Seq(Dpids \X Known)
  <2>1. ofcsThreadDpid \in Seq(Dpids \X Known)
    BY DEF OfcTyped
  <2>2. CASE CreateOfcTask(h)
    <3>1. <<http[h].dpid, c>> \in Dpids \X Known
      BY <1>1, <2>2, OfcRequestIs DEF CreateOfcTask, OfcTyped
    <3>2. ofcsThreadDpid' \in {ofcsThreadDpid, Append(ofcsThreadDpid, <<http[h].dpid, c>>)}
      BY <1>2, <2>2 DEF CreateOfcTask
    <3> QED BY <2>1, <3>1, <3>2
  <2>3. CASE RemoveDpid(h)
    <3>1. \/ UNCHANGED ofcsThreadDpid
          \/ \E j \in DOMAIN ofcsThreadDpid : ofcsThreadDpid' = RemoveAt(ofcsThreadDpid, j)
      BY <2>3 DEF RemoveDpid
    <3> QED BY <2>1, <3>1, WithoutOne
  <2>4. CASE ~CreateOfcTask(h) /\ ~RemoveDpid(h)
    BY <2>1, <2>4 DEF OfcStep, DeleteOfc, ForgetOfc, ForgetDpid, ExitOfc, InsertPort, PickThread,
                      TellThread, ofcThreads
  <2> QED BY <2>2, <2>3, <2>4
<1> QED BY <1>4, <1>5, <1>6, <1>7 DEF OfcTyped, ControllersTypeOK

LEMMA TakeOfTaskTyped ==
  ASSUME OfcTyped, NEW c \in Known, TakeOfTask(c)
  PROVE  OfcTyped'
<1>1. UNCHANGED <<http, ofcs, ofPort, ofcsMade, ofcsThread, ofcsThreadDpid>>
  BY DEF TakeOfTask, ofcRows
<1>2. running' \subseteq running /\ behind' \subseteq behind
  BY DEF TakeOfTask
<1>3. ofTasks' \in [Known -> Seq({"exit", "update"})]
  <2>1. Tail(ofTasks[c]) \in Seq({"exit", "update"})
    <3>1. ofTasks[c] \in Seq({"exit", "update"}) /\ ofTasks[c] # << >>
      BY DEF OfcTyped, TakeOfTask
    <3> QED BY <3>1
  <2> QED BY <2>1 DEF OfcTyped, TakeOfTask
<1> QED BY <1>1, <1>2, <1>3 DEF OfcTyped, ControllersTypeOK, Typed

-----------------------------------------------------------------------------
(* All of them *)

TypeInv == ConfigTyped /\ OfcTyped

LEMMA NextTyped == CatInv /\ VlanInv /\ TypeInv /\ [Next]_vars => TypeInv'
<1> SUFFICES ASSUME CatInv, VlanInv, TypeInv, [Next]_vars PROVE TypeInv'
  OBVIOUS
<1>1. HttpTyped /\ ConfigTyped /\ OfcTyped
  BY DEF CatInv, CatTyped, TypeInv
<1>2. ASSUME NEW h \in HttpThreads, NetworkRequest(h) \/ NetworkStep(h), UNCHANGED ofcVars
      PROVE  TypeInv'
  <2>1. Aside(OfcOps \cup (CatOps \cup DhcpOps))
    BY <1>1, <1>2, NetworksAside
  <2> QED BY <1>1, <1>2, <2>1, AsideOfMore, AsideOfcTyped, NetworksConfigTyped DEF TypeInv
<1>3. CASE /\ ThreadMoves \/ \E h \in HttpThreads : DhcpRequest(h) \/ DhcpStep(h)
           /\ UNCHANGED <<netVars, ofcVars>>
  <2>1. Aside((CatOps \cup NetOps) \cup OfcOps)
    BY <1>1, <1>3, DhcpAside DEF ThreadMoves
  <2>2. Aside(NetOps \cup CatOps)
    BY <2>1, AsideOfMore
  <2> QED BY <1>1, <1>3, <2>1, <2>2, AsideOfMore, AsideOfcTyped, AsideConfigTyped DEF TypeInv
<1>4. ASSUME NEW h \in HttpThreads, CatalogueRequest(h) \/ CatalogueStep(h),
             UNCHANGED <<netVars, ofcVars>>
      PROVE  TypeInv'
  <2>1. Aside((NetOps \cup DhcpOps) \cup OfcOps)
    BY <1>4, CatalogueAside
  <2>2. Aside(NetOps \cup DhcpOps)
    BY <2>1, AsideOfMore
  <2> QED BY <1>1, <1>4, <2>1, <2>2, AsideOfMore, AsideOfcTyped, AsideConfigTyped DEF TypeInv
<1>5. CASE /\ \/ \E h \in HttpThreads : OfcRequest(h) \/ OfcStep(h)
              \/ \E c \in Known : TakeOfTask(c)
           /\ UNCHANGED netVars
  <2>1. Aside(NetOps \cup (CatOps \cup DhcpOps))
    BY <1>1, <1>5, ControllersAside
  <2>2. ConfigTyped'
    BY <1>1, <1>5, <2>1, AsideOfMore, AsideConfigTyped
  <2> QED BY <1>1, <1>5, <2>2, OfcRequestTyped, OfcStepTyped, TakeOfTaskTyped DEF TypeInv
<1>6. CASE Restart
  BY <1>1, <1>6, RestartConfigTyped, RestartOfcTyped DEF TypeInv
<1>7. CASE UNCHANGED vars
  BY <1>1, <1>7, AsideOfcTyped, AsideConfigTyped DEF vars, Aside, TypeInv
<1> QED BY <1>2, <1>3, <1>4, <1>5, <1>6, <1>7 DEF Next, ThreadMoves

\* The invariant on which the theorems about the networks and the controllers rest.
LEMMA TypeInvariant == Spec => [](CatInv /\ VlanInv /\ TypeInv)
<1>1. Init => TypeInv
  BY InitConfigTyped, InitOfcTyped DEF TypeInv
<1>2. Spec => []CatInv
  BY CatalogueInvariant
<1> QED BY <1>1, <1>2, InitVlan, NextVlanInv, NextTyped, PTL DEF Spec

\* All that the requests and the threads share, in the database and in
\* config_dic, is of its type.
THEOREM SharedTypesAreRight == Spec => []TypeOK
<1>1. CatInv => CatalogueTypeOK
  BY DEF CatInv, CatTyped
<1>2. DhcpInv => DhcpTypeOK
  BY DEF DhcpInv, DhcpTyped
<1>3. VlanInv /\ TypeInv => NetworksTypeOK /\ ControllersTypeOK
  BY DEF VlanInv, VlanTyped, VlanList, TypeInv, ConfigTyped, OfcTyped, NetworksTypeOK
<1>4. CatInv /\ DhcpInv /\ VlanInv /\ TypeInv => TypeOK
  BY <1>1, <1>2, <1>3 DEF TypeOK
<1>5. Spec => []CatInv
  BY CatalogueInvariant
<1>6. Spec => []DhcpInv
  BY <1>5, InitDhcp, NextDhcp, RequestsAreCounted, PTL DEF Spec
<1> QED BY <1>4, <1>5, <1>6, TypeInvariant, PTL

-----------------------------------------------------------------------------
(* Changes of ports *)

\* A request on the controller is to take one of these steps.
Asked(Kind, c) == \E h \in HttpThreads : http[h].op \in Kind /\ http[h].ofc = c

NoExit(c) == \A i \in DOMAIN ofTasks[c] : ofTasks[c][i] # "exit"

\* Steps that follow the removal of a thread from ofcs_thread.
Leaving == {"forget_dpid", "remove_dpid", "exit_ofc"}

\* Nothing has come of it yet but, it may be, its row.
Fresh(c) == c \notin ofcsThread /\ NoExit(c) /\ ~Asked(Leaving, c)

NewAreFresh ==
  \A c \in Ofcs \ ofcsMade : Fresh(c) /\ ~HasRow(c) /\ ~Asked({"load", "forget_ofc"}, c)

LoadsAreFresh ==
  \A h \in HttpThreads : http[h].op = "load" =>
    /\ http[h].ofc \in ofcsMade
    /\ Fresh(http[h].ofc)
    /\ \A k \in HttpThreads \ {h} : http[k].op = "load" => http[k].ofc # http[h].ofc

ThreadsRun == \A c \in ofcsThread : c \in running /\ NoExit(c)

DeletedHaveNoRow ==
  \A h \in HttpThreads :
    /\ http[h].op \in {"forget_ofc"} \cup Leaving => ~HasRow(http[h].ofc)
    /\ http[h].op \in Leaving => http[h].ofc \notin ofcsThread

RowsHaveThreads ==
  \A c \in Ofcs : HasRow(c) => c \in ofcsThread \cup threadless \/ Asked({"load"}, c)

DefaultStays ==
  Default \in ofcsThread /\ (DefaultDpid \notin blurred => Default \in Listed(DefaultDpid))

PortsHaveControllers ==
  /\ \A p \in OfPorts : ofPort[p] # Nothing =>
       ofPort[p].ofc \in Present /\ (ofPort[p].ofc = Default => ofPort[p].dpid = DefaultDpid)
  /\ \A h \in HttpThreads :
       http[h].op = "insert_port" /\ http[h].ofc = Default => http[h].dpid = DefaultDpid

Forgiven(c) == c \in threadless \cup hurried

\* A request finds the thread of its controller, as long as there is one.
ThreadsAreFound ==
  \A h \in HttpThreads :
    /\ http[h].op = "pick" =>
         IF http[h].ofc = Default THEN http[h].dpid \in {Nothing, DefaultDpid}
         ELSE \/ http[h].ofc \in ofcsThread \/ Forgiven(http[h].ofc)
              \/ Asked({"load"}, http[h].ofc)
    /\ http[h].op = "tell" /\ http[h].ofc \in http[h].to =>
         http[h].ofc \in ofcsThread \/ Forgiven(http[h].ofc)

\* The thread comes to an update before it ends.
ToUpdate(c) ==
  /\ c \in running
  /\ \E i \in DOMAIN ofTasks[c] :
       ofTasks[c][i] = "update" /\ \A j \in 1..i : ofTasks[c][j] # "exit"

WillBeTold(c) == \E h \in HttpThreads : http[h].op = "tell" /\ http[h].ofc = c /\ c \in http[h].to

ChangesAreFollowed ==
  \A c \in behind :
    \/ Forgiven(c) \/ (c = Default /\ DefaultDpid \in blurred)
    \/ Asked({"pick"}, c) \/ WillBeTold(c) \/ ToUpdate(c)

OfcInv ==
  /\ NewAreFresh /\ LoadsAreFresh /\ ThreadsRun /\ DeletedHaveNoRow
  /\ RowsHaveThreads /\ DefaultStays /\ PortsHaveControllers
  /\ ThreadsAreFound /\ ChangesAreFollowed

LEMMA OfcRequestShape ==
  ASSUME Typed(OfcOps, OfcRequests), NEW h \in HttpThreads
  PROVE  LET r == http[h] IN
         /\ r.op \in {"load", "forget_ofc", "remove_dpid", "exit_ofc"} => r.ofc \in Ofcs
         /\ r.op = "delete_ofc" =>
              r.ofc \in Ofcs /\ r = [op |-> "delete_ofc", ofc |-> r.ofc, dpid |-> r.dpid]
         /\ r.op = "forget_dpid" =>
              r.ofc \in Ofcs /\ r = [op |-> "forget_dpid", ofc |-> r.ofc, dpid |-> r.dpid, at |-> r.at]
         /\ r.op = "insert_port" =>
              /\ r.ofc \in Known /\ r.port \in OfPorts
              /\ r = [op |-> "insert_port", port |-> r.port, ofc |-> r.ofc, dpid |-> r.dpid]
         /\ r.op = "pick" => r.ofc \in Known
         /\ r.op = "tell" =>
              /\ r.ofc \in Known /\ r.to \subseteq Known
              /\ r = [op |-> "tell", ofc |-> r.ofc, to |-> r.to]
<1> DEFINE r == http[h]
<1>1. r.op \in OfcOps => r \in OfcRequests
  BY DEF Typed
<1> HIDE DEF r
<1>2. ASSUME r \in [op : {"load", "delete_ofc", "forget_ofc", "exit_ofc"}, ofc : Ofcs, dpid : Dpids]
      PROVE  r.ofc \in Ofcs /\ (r.op = "delete_ofc" => r = [op |-> "delete_ofc", ofc |-> r.ofc, dpid |-> r.dpid])
  BY <1>2
<1>3. ASSUME r \in [op : {"insert_port"}, port : OfPorts, ofc : Known, dpid : Dpids]
      PROVE  /\ r.ofc \in Known /\ r.port \in OfPorts
             /\ r = [op |-> "insert_port", port |-> r.port, ofc |-> r.ofc, dpid |-> r.dpid]
  BY <1>3
<1>4. ASSUME r \in [op : {"tell"}, ofc : Known, to : SUBSET Known]
      PROVE  /\ r.ofc \in Known /\ r.to \subseteq Known
             /\ r = [op |-> "tell", ofc |-> r.ofc, to |-> r.to]
  BY <1>4
<1>5. ASSUME r \in [op : {"forget_dpid"}, ofc : Ofcs, dpid : Dpids, at : Nat \ {0}]
      PROVE  r.ofc \in Ofcs /\ r = [op |-> "forget_dpid", ofc |-> r.ofc, dpid |-> r.dpid, at |-> r.at]
  BY <1>5
<1>6. r \in [op : {"remove_dpid"}, ofc : Ofcs, dpid : Dpids, at : Nat \ {0}, listed : Known] => r.ofc \in Ofcs
  OBVIOUS
<1>7. r \in [op : {"pick"}, port : OfPorts, ofc : Known, dpid : Dpids \cup {Nothing}] => r.ofc \in Known
  OBVIOUS
<1> QED BY <1>1, <1>2, <1>3, <1>4, <1>5, <1>6, <1>7 DEF OfcRequests, OfcOps, r

LEMMA OfcPart ==
  ASSUME OfcTyped
  PROVE  \A k \in HttpThreads :
           /\ http[k].op \in {"load", "forget_ofc"} \cup Leaving => http[k].ofc \in Ofcs
           /\ http[k].op \in {"insert_port", "pick", "tell"} => http[k].ofc \in Known
<1>1. \A k \in HttpThreads : http[k].op \in OfcOps =>
        http[k].ofc \in Known /\ (http[k].op \in {"load", "forget_ofc"} \cup Leaving => http[k].ofc \in Ofcs)
  BY OfcRequestIs DEF OfcTyped, Leaving
<1> QED BY <1>1 DEF OfcOps, Leaving

LEMMA Appended ==
  ASSUME NEW S, NEW s \in Seq(S), NEW e
  PROVE  /\ DOMAIN Append(s, e) = DOMAIN s \cup {Len(s) + 1}
         /\ \A i \in DOMAIN s : Append(s, e)[i] = s[i]
         /\ Append(s, e)[Len(s) + 1] = e
         /\ DOMAIN s = 1..Len(s) /\ Len(s) \in Nat
OBVIOUS

\* What is appended does not come before an update, and is none itself.
LEMMA ToUpdateStays ==
  ASSUME NEW c, NEW S, ofTasks[c] \in Seq(S), NEW e,
         ofTasks'[c] = ofTasks[c] \/ ofTasks'[c] = Append(ofTasks[c], e),
         running \subseteq running', ToUpdate(c)
  PROVE  ToUpdate(c)'
<1>1. PICK i \in DOMAIN ofTasks[c] : ofTasks[c][i] = "update" /\ \A j \in 1..i : ofTasks[c][j] # "exit"
  BY DEF ToUpdate
<1>2. 1..i \subseteq DOMAIN ofTasks[c]
  OBVIOUS
<1>3. \A j \in DOMAIN ofTasks[c] : j \in DOMAIN ofTasks'[c] /\ ofTasks'[c][j] = ofTasks[c][j]
  <2>1. CASE ofTasks'[c] = ofTasks[c]
    BY <2>1
  <2>2. CASE ofTasks'[c] = Append(ofTasks[c], e)
    <3> DEFINE s == ofTasks[c]
               t == Append(s, e)
    <3>1. DOMAIN t = DOMAIN s \cup {Len(s) + 1} /\ \A j \in DOMAIN s : t[j] = s[j]
      BY Appended
    <3> HIDE DEF t
    <3>2. ofTasks'[c] = t
      BY <2>2 DEF t
    <3> QED BY <3>1, <3>2
  <2> QED BY <2>1, <2>2
<1> QED BY <1>1, <1>2, <1>3 DEF ToUpdate

LEMMA ToldUpdates ==
  ASSUME NEW c, NEW S, ofTasks[c] \in Seq(S), NoExit(c), c \in running',
         ofTasks'[c] = Append(ofTasks[c], "update")
  PROVE  ToUpdate(c)' /\ NoExit(c)'
<1> DEFINE s == ofTasks[c]
           t == Append(s, "update")
<1>1. DOMAIN t = DOMAIN s \cup {Len(s) + 1} /\ DOMAIN s = 1..Len(s) /\ Len(s) \in Nat
  BY Appended
<1>2. (\A i \in DOMAIN s : t[i] # "exit") /\ t[Len(s) + 1] = "update"
  BY Appended DEF NoExit
<1> HIDE DEF t
<1>3. \A j \in 1..(Len(s) + 1) : t[j] # "exit"
  BY <1>1, <1>2
<1>4. ofTasks'[c] = t
  BY DEF t
<1> QED BY <1>1, <1>2, <1>3, <1>4 DEF ToUpdate, NoExit

LEMMA NewOfControllerInv ==
  ASSUME CatInv, OfcTyped, OfcInv, NEW h \in HttpThreads, NEW c \in Ofcs, NEW d \in Dpids, NewOfController(h, c, d)
  PROVE  OfcInv'
<1>1. /\ \A k \in HttpThreads \ {h} : http'[k] = http[k]
      /\ http[h].op = "idle" /\ http'[h] = [op |-> "load", ofc |-> c, dpid |-> d]
      /\ c \notin ofcsMade /\ ofcsMade' = ofcsMade \cup {c}
      /\ \A k \in Ofcs : ofcs'[k] = IF k = c THEN d ELSE ofcs[k]
      /\ UNCHANGED <<ofcsThread, ofcsThreadDpid, running, ofTasks, ofPort, behind, threadless, blurred, hurried>>
  <2>1. http = [k \in HttpThreads |-> http[k]]
    BY DEF CatInv, CatTyped, HttpTyped
  <2> QED BY <2>1 DEF NewOfController, ofcThreads, OfcTyped, ControllersTypeOK
<1>2. NewAreFresh'
  BY <1>1 DEF OfcInv, NewAreFresh, Fresh, NoExit, HasRow, Asked, Leaving
<1>3. LoadsAreFresh'
  BY <1>1 DEF OfcInv, LoadsAreFresh, Fresh, NoExit, Asked, Leaving, NewAreFresh
<1>4. ThreadsRun'
  BY <1>1 DEF OfcInv, ThreadsRun, NoExit
<1>5. DeletedHaveNoRow'
  BY <1>1, OfcPart DEF OfcInv, DeletedHaveNoRow, HasRow, Leaving, NewAreFresh, Asked, Fresh
<1>6. RowsHaveThreads'
  BY <1>1 DEF OfcInv, RowsHaveThreads, HasRow, Asked
<1>7. DefaultStays'
  BY <1>1 DEF OfcInv, DefaultStays, Listed
<1>8. PortsHaveControllers'
  BY <1>1, DpidsAreTold DEF OfcInv, PortsHaveControllers, Present, HasRow, NewAreFresh
<1>9. ThreadsAreFound'
  BY <1>1 DEF OfcInv, ThreadsAreFound, Forgiven, Asked
<1>10. ChangesAreFollowed'
  BY <1>1 DEF OfcInv, ChangesAreFollowed, Forgiven, Asked, WillBeTold, ToUpdate
<1> QED BY <1>2, <1>3, <1>4, <1>5, <1>6, <1>7, <1>8, <1>9, <1>10 DEF OfcInv

LEMMA EditOfControllerInv ==
  ASSUME CatInv, OfcTyped, OfcInv, NEW h \in HttpThreads, NEW c \in Ofcs, NEW d \in Dpids, EditOfController(h, c, d)
  PROVE  OfcInv'
<1>1. /\ \A k \in HttpThreads : http'[k] = http[k]
      /\ HasRow(c)
      /\ \A k \in Ofcs : ofcs'[k] = IF k = c THEN d ELSE ofcs[k]
      /\ UNCHANGED <<ofcsThread, ofcsThreadDpid, running, ofTasks, ofPort, ofcsMade, behind, threadless, blurred, hurried>>
  <2>1. http = [k \in HttpThreads |-> http[k]]
    BY DEF CatInv, CatTyped, HttpTyped
  <2> QED BY <2>1 DEF EditOfController, ofcThreads, OfcTyped, ControllersTypeOK
<1>2. NewAreFresh'
  BY <1>1 DEF OfcInv, NewAreFresh, Fresh, NoExit, HasRow, Asked, Leaving
<1>3. LoadsAreFresh'
  BY <1>1 DEF OfcInv, LoadsAreFresh, Fresh, NoExit, Asked, Leaving
<1>4. ThreadsRun'
  BY <1>1 DEF OfcInv, ThreadsRun, NoExit
<1>5. DeletedHaveNoRow'
  BY <1>1, OfcPart DEF OfcInv, DeletedHaveNoRow, HasRow, Leaving
<1>6. RowsHaveThreads'
  BY <1>1 DEF OfcInv, RowsHaveThreads, HasRow, Asked
<1>7. DefaultStays'
  BY <1>1 DEF OfcInv, DefaultStays, Listed
<1>8. PortsHaveControllers'
  BY <1>1, DpidsAreTold DEF OfcInv, PortsHaveControllers, Present, HasRow
<1>9. ThreadsAreFound'
  BY <1>1 DEF OfcInv, ThreadsAreFound, Forgiven, Asked
<1>10. ChangesAreFollowed'
  BY <1>1 DEF OfcInv, ChangesAreFollowed, Forgiven, Asked, WillBeTold, ToUpdate
<1> QED BY <1>2, <1>3, <1>4, <1>5, <1>6, <1>7, <1>8, <1>9, <1>10 DEF OfcInv

LEMMA DeleteOfControllerInv ==
  ASSUME CatInv, OfcTyped, OfcInv, NEW h \in HttpThreads, NEW c \in Ofcs, DeleteOfController(h, c)
  PROVE  OfcInv'
<1>1. /\ \A k \in HttpThreads \ {h} : http'[k] = http[k]
      /\ http[h].op = "idle" /\ http'[h].op = "delete_ofc"
      /\ UNCHANGED <<ofcs, ofcsThread, ofcsThreadDpid, running, ofTasks, ofPort, ofcsMade, behind, threadless, blurred, hurried>>
  <2>1. http = [k \in HttpThreads |-> http[k]]
    BY DEF CatInv, CatTyped, HttpTyped
  <2> QED BY <2>1 DEF DeleteOfController, ofcVars
<1>2. NewAreFresh'
  BY <1>1 DEF OfcInv, NewAreFresh, Fresh, NoExit, HasRow, Asked, Leaving
<1>3. LoadsAreFresh'
  BY <1>1 DEF OfcInv, LoadsAreFresh, Fresh, NoExit, Asked, Leaving
<1>4. ThreadsRun'
  BY <1>1 DEF OfcInv, ThreadsRun, NoExit
<1>5. DeletedHaveNoRow'
  BY <1>1 DEF OfcInv, DeletedHaveNoRow, HasRow, Leaving
<1>6. RowsHaveThreads'
  BY <1>1 DEF OfcInv, RowsHaveThreads, HasRow, Asked
<1>7. DefaultStays'
  BY <1>1 DEF OfcInv, DefaultStays, Listed
<1>8. PortsHaveControllers'
  BY <1>1 DEF OfcInv, PortsHaveControllers, Present, HasRow
<1>9. ThreadsAreFound'
  BY <1>1 DEF OfcInv, ThreadsAreFound, Forgiven, Asked
<1>10. ChangesAreFollowed'
  BY <1>1 DEF OfcInv, ChangesAreFollowed, Forgiven, Asked, WillBeTold, ToUpdate
<1> QED BY <1>2, <1>3, <1>4, <1>5, <1>6, <1>7, <1>8, <1>9, <1>10 DEF OfcInv

LEMMA NewExternalPortInv ==
  ASSUME CatInv, OfcTyped, OfcInv, NEW h \in HttpThreads, NEW p \in OfPorts, NEW c \in Known, NewExternalPort(h, p, c)
  PROVE  OfcInv'
<1>1. /\ \A k \in HttpThreads \ {h} : http'[k] = http[k]
      /\ http[h].op = "idle" /\ http'[h].op = "insert_port"
      /\ http'[h].ofc = c /\ http'[h].dpid = DpidOf(c)
      /\ UNCHANGED <<ofcs, ofcsThread, ofcsThreadDpid, running, ofTasks, ofPort, ofcsMade, behind, threadless, blurred, hurried>>
  <2>1. http = [k \in HttpThreads |-> http[k]]
    BY DEF CatInv, CatTyped, HttpTyped
  <2> QED BY <2>1 DEF NewExternalPort, ofcVars
<1>2. NewAreFresh'
  BY <1>1 DEF OfcInv, NewAreFresh, Fresh, NoExit, HasRow, Asked, Leaving
<1>3. LoadsAreFresh'
  BY <1>1 DEF OfcInv, LoadsAreFresh, Fresh, NoExit, Asked, Leaving
<1>4. ThreadsRun'
  BY <1>1 DEF OfcInv, ThreadsRun, NoExit
<1>5. DeletedHaveNoRow'
  BY <1>1 DEF OfcInv, DeletedHaveNoRow, HasRow, Leaving
<1>6. RowsHaveThreads'
  BY <1>1 DEF OfcInv, RowsHaveThreads, HasRow, Asked
<1>7. DefaultStays'
  BY <1>1 DEF OfcInv, DefaultStays, Listed
<1>8. PortsHaveControllers'
  BY <1>1 DEF OfcInv, PortsHaveControllers, Present, HasRow, DpidOf
<1>9. ThreadsAreFound'
  BY <1>1 DEF OfcInv, ThreadsAreFound, Forgiven, Asked
<1>10. ChangesAreFollowed'
  BY <1>1 DEF OfcInv, ChangesAreFollowed, Forgiven, Asked, WillBeTold, ToUpdate
<1> QED BY <1>2, <1>3, <1>4, <1>5, <1>6, <1>7, <1>8, <1>9, <1>10 DEF OfcInv

LEMMA DeletePortInv ==
  ASSUME CatInv, OfcTyped, OfcInv, NEW h \in HttpThreads, NEW p \in OfPorts, DeletePort(h, p)
  PROVE  OfcInv'
<1>1. /\ \A k \in HttpThreads \ {h} : http'[k] = http[k]
      /\ http[h].op = "idle" /\ http'[h].op = "pick"
      /\ http'[h].ofc = ofPort[p].ofc /\ http'[h].dpid = ofPort[p].dpid
      /\ ofPort[p] # Nothing /\ ofPort' = [ofPort EXCEPT ![p] = Nothing]
      /\ behind' = behind \cup {ofPort[p].ofc}
      /\ ofPort[p].ofc \in Known
      /\ UNCHANGED <<ofcs, ofcsThread, ofcsThreadDpid, running, ofTasks, ofcsMade, threadless, blurred, hurried>>
  <2>1. http = [k \in HttpThreads |-> http[k]]
    BY DEF CatInv, CatTyped, HttpTyped
  <2> QED BY <2>1 DEF DeletePort, ofcThreads, OfcTyped, ControllersTypeOK
<1>2. NewAreFresh'
  BY <1>1 DEF OfcInv, NewAreFresh, Fresh, NoExit, HasRow, Asked, Leaving
<1>3. LoadsAreFresh'
  BY <1>1 DEF OfcInv, LoadsAreFresh, Fresh, NoExit, Asked, Leaving
<1>4. ThreadsRun'
  BY <1>1 DEF OfcInv, ThreadsRun, NoExit
<1>5. DeletedHaveNoRow'
  BY <1>1 DEF OfcInv, DeletedHaveNoRow, HasRow, Leaving
<1>6. RowsHaveThreads'
  BY <1>1 DEF OfcInv, RowsHaveThreads, HasRow, Asked
<1>7. DefaultStays'
  BY <1>1 DEF OfcInv, DefaultStays, Listed
<1>8. PortsHaveControllers'
  BY <1>1 DEF OfcInv, PortsHaveControllers, Present, HasRow
<1>9. ThreadsAreFound'
  BY <1>1 DEF OfcInv, ThreadsAreFound, Forgiven, Asked, PortsHaveControllers, RowsHaveThreads, Present, HasRow
<1>10. ChangesAreFollowed'
  BY <1>1 DEF OfcInv, ChangesAreFollowed, Forgiven, Asked, WillBeTold, ToUpdate
<1> QED BY <1>2, <1>3, <1>4, <1>5, <1>6, <1>7, <1>8, <1>9, <1>10 DEF OfcInv

LEMMA CreateOfcTaskInv ==
  ASSUME CatInv, OfcTyped, OfcInv, NEW h \in HttpThreads, CreateOfcTask(h)
  PROVE  OfcInv'
<1>1. /\ \A k \in HttpThreads \ {h} : http'[k] = http[k]
      /\ http[h].op = "load" /\ http[h].ofc \in Ofcs /\ http'[h] = Idle
      /\ \/ /\ ofcsThread' = ofcsThread \cup {http[h].ofc} /\ running' = running \cup {http[h].ofc}
            /\ ofcsThreadDpid' = Append(ofcsThreadDpid, <<http[h].dpid, http[h].ofc>>)
         \/ /\ threadless' = threadless \cup {http[h].ofc}
            /\ UNCHANGED <<ofcsThread, running, ofcsThreadDpid>>
      /\ threadless \subseteq threadless'
      /\ UNCHANGED <<ofcs, ofTasks, ofPort, ofcsMade, behind, blurred, hurried>>
  <2>1. http = [k \in HttpThreads |-> http[k]] /\ Typed(OfcOps, OfcRequests)
    BY DEF CatInv, CatTyped, HttpTyped, OfcTyped
  <2>2. http[h].op = "load"
    BY DEF CreateOfcTask
  <2>3. http[h].ofc \in Ofcs
    BY <2>1, <2>2, OfcRequestShape
  <2>4. \A k \in HttpThreads \ {h} : http'[k] = http[k]
    BY <2>1 DEF CreateOfcTask
  <2> QED BY <2>1, <2>2, <2>3, <2>4 DEF CreateOfcTask, ofcRows
<1>2. NewAreFresh'
  BY <1>1 DEF OfcInv, NewAreFresh, Fresh, NoExit, HasRow, Asked, Leaving
<1>3. LoadsAreFresh'
  BY <1>1 DEF OfcInv, LoadsAreFresh, Fresh, NoExit, Asked, Leaving
<1>4. ThreadsRun'
  <2>1. NoExit(http[h].ofc)
    BY <1>1 DEF OfcInv, LoadsAreFresh, Fresh
  <2>2. \A c : NoExit(c) => NoExit(c)'
    BY <1>1 DEF NoExit
  <2>3. ofcsThread' \subseteq ofcsThread \cup {http[h].ofc} /\ running \subseteq running'
        /\ (http[h].ofc \in ofcsThread' => http[h].ofc \in running' \/ http[h].ofc \in ofcsThread)
    BY <1>1
  <2> QED BY <2>1, <2>2, <2>3 DEF OfcInv, ThreadsRun
<1>5. DeletedHaveNoRow'
  BY <1>1 DEF OfcInv, DeletedHaveNoRow, HasRow, Leaving, LoadsAreFresh, Fresh, Asked
<1>6. RowsHaveThreads'
  BY <1>1 DEF OfcInv, RowsHaveThreads, HasRow, Asked
<1>7. DefaultStays'
  <2>1. Default \in ofcsThread'
    BY <1>1 DEF OfcInv, DefaultStays
  <2>2. \A i \in DOMAIN ofcsThreadDpid : i \in DOMAIN ofcsThreadDpid' /\ ofcsThreadDpid'[i] = ofcsThreadDpid[i]
    <3>1. ofcsThreadDpid \in Seq(Dpids \X Known)
      BY DEF OfcTyped
    <3>2. \/ UNCHANGED ofcsThreadDpid
          \/ ofcsThreadDpid' = Append(ofcsThreadDpid, <<http[h].dpid, http[h].ofc>>)
      BY <1>1
    <3> DEFINE e == <<http[h].dpid, http[h].ofc>>
    <3>3. \/ UNCHANGED ofcsThreadDpid
          \/ ofcsThreadDpid' = Append(ofcsThreadDpid, e)
      BY <3>2
    <3> HIDE DEF e
    <3> QED BY <3>1, <3>3, Appended
  <2>3. Listed(DefaultDpid) \subseteq Listed(DefaultDpid)'
    BY <2>2 DEF Listed, Known
  <2> QED BY <1>1, <2>1, <2>3 DEF OfcInv, DefaultStays
<1>8. PortsHaveControllers'
  BY <1>1 DEF OfcInv, PortsHaveControllers, Present, HasRow
<1>9. ThreadsAreFound'
  BY <1>1 DEF OfcInv, ThreadsAreFound, Forgiven, Asked
<1>10. ChangesAreFollowed'
  BY <1>1 DEF OfcInv, ChangesAreFollowed, Forgiven, Asked, WillBeTold, ToUpdate
<1> QED BY <1>2, <1>3, <1>4, <1>5, <1>6, <1>7, <1>8, <1>9, <1>10 DEF OfcInv

LEMMA DeleteOfcInv ==
  ASSUME CatInv, OfcTyped, OfcInv, NEW h \in HttpThreads, DeleteOfc(h)
  PROVE  OfcInv'
<1>1. /\ \A k \in HttpThreads \ {h} : http'[k] = http[k]
      /\ http[h].op = "delete_ofc" /\ http[h].ofc \in Ofcs
      /\ \/ http'[h] = Idle /\ UNCHANGED ofcs
         \/ /\ http'[h].op = "forget_ofc" /\ http'[h].ofc = http[h].ofc /\ HasRow(http[h].ofc)
            /\ ofcs' = [ofcs EXCEPT ![http[h].ofc] = Nothing]
            /\ \A p \in OfPorts : ofPort[p] # Nothing => ofPort[p].ofc # http[h].ofc
      /\ ofcs \in [Ofcs -> Dpids \cup {Nothing}]
      /\ UNCHANGED <<ofcsThread, ofcsThreadDpid, running, ofTasks, ofPort, ofcsMade, behind, threadless, blurred, hurried>>
  <2>1. http = [k \in HttpThreads |-> http[k]] /\ Typed(OfcOps, OfcRequests)
    BY DEF CatInv, CatTyped, HttpTyped, OfcTyped
  <2>2. http[h].op = "delete_ofc"
    BY DEF DeleteOfc
  <2>3. http[h].ofc \in Ofcs /\ http[h] = [op |-> "delete_ofc", ofc |-> http[h].ofc, dpid |-> http[h].dpid]
    BY <2>1, <2>2, OfcRequestShape
  <2>4. \A k \in HttpThreads \ {h} : http'[k] = http[k]
    BY <2>1 DEF DeleteOfc
  <2>5. ofcs \in [Ofcs -> Dpids \cup {Nothing}]
    BY DEF OfcTyped, ControllersTypeOK, Known
  <2> QED BY <2>1, <2>2, <2>3, <2>4, <2>5 DEF DeleteOfc, ofcThreads
<1>2. NewAreFresh'
  BY <1>1 DEF OfcInv, NewAreFresh, Fresh, NoExit, HasRow, Asked, Leaving
<1>3. LoadsAreFresh'
  BY <1>1 DEF OfcInv, LoadsAreFresh, Fresh, NoExit, Asked, Leaving
<1>4. ThreadsRun'
  BY <1>1 DEF OfcInv, ThreadsRun, NoExit
<1>5. DeletedHaveNoRow'
  BY <1>1, OfcPart DEF OfcInv, DeletedHaveNoRow, HasRow, Leaving
<1>6. RowsHaveThreads'
  BY <1>1 DEF OfcInv, RowsHaveThreads, HasRow, Asked
<1>7. DefaultStays'
  BY <1>1 DEF OfcInv, DefaultStays, Listed
<1>8. PortsHaveControllers'
  BY <1>1 DEF OfcInv, PortsHaveControllers, Present, HasRow
<1>9. ThreadsAreFound'
  BY <1>1 DEF OfcInv, ThreadsAreFound, Forgiven, Asked
<1>10. ChangesAreFollowed'
  BY <1>1 DEF OfcInv, ChangesAreFollowed, Forgiven, Asked, WillBeTold, ToUpdate
<1> QED BY <1>2, <1>3, <1>4, <1>5, <1>6, <1>7, <1>8, <1>9, <1>10 DEF OfcInv

LEMMA ForgetOfcInv ==
  ASSUME CatInv, OfcTyped, OfcInv, NEW h \in HttpThreads, ForgetOfc(h)
  PROVE  OfcInv'
<1>1. /\ \A k \in HttpThreads \ {h} : http'[k] = http[k]
      /\ http[h].op = "forget_ofc" /\ http[h].ofc \in Ofcs
      /\ \/ http'[h] = Idle /\ UNCHANGED <<ofcsThread, hurried>>
         \/ /\ http'[h].op = "forget_dpid" /\ http'[h].ofc = http[h].ofc
            /\ http[h].ofc \in ofcsThread /\ ofcsThread' = ofcsThread \ {http[h].ofc}
            /\ PortRequestOn(http[h].ofc) => http[h].ofc \in hurried'
      /\ hurried \subseteq hurried'
      /\ UNCHANGED <<ofcs, ofcsThreadDpid, running, ofTasks, ofPort, ofcsMade, behind, threadless, blurred>>
  <2>1. http = [k \in HttpThreads |-> http[k]] /\ Typed(OfcOps, OfcRequests)
    BY DEF CatInv, CatTyped, HttpTyped, OfcTyped
  <2>2. http[h].op = "forget_ofc"
    BY DEF ForgetOfc
  <2>3. http[h].ofc \in Ofcs
    BY <2>1, <2>2, OfcRequestShape
  <2>4. \A k \in HttpThreads \ {h} : http'[k] = http[k]
    BY <2>1 DEF ForgetOfc
  <2> QED BY <2>1, <2>2, <2>3, <2>4 DEF ForgetOfc, ofcRows
<1>2. NewAreFresh'
  BY <1>1 DEF OfcInv, NewAreFresh, Fresh, NoExit, HasRow, Asked, Leaving
<1>3. LoadsAreFresh'
  BY <1>1 DEF OfcInv, LoadsAreFresh, Fresh, NoExit, Asked, Leaving
<1>4. ThreadsRun'
  BY <1>1 DEF OfcInv, ThreadsRun, NoExit
<1>5. DeletedHaveNoRow'
  BY <1>1 DEF OfcInv, DeletedHaveNoRow, HasRow, Leaving
<1>6. RowsHaveThreads'
  BY <1>1 DEF OfcInv, RowsHaveThreads, HasRow, Asked, DeletedHaveNoRow
<1>7. DefaultStays'
  BY <1>1, DpidsAreTold DEF OfcInv, DefaultStays, Listed
<1>8. PortsHaveControllers'
  BY <1>1 DEF OfcInv, PortsHaveControllers, Present, HasRow
<1>9. ThreadsAreFound'
  BY <1>1 DEF OfcInv, ThreadsAreFound, Forgiven, Asked, PortRequestOn
<1>10. ChangesAreFollowed'
  BY <1>1 DEF OfcInv, ChangesAreFollowed, Forgiven, Asked, WillBeTold, ToUpdate
<1> QED BY <1>2, <1>3, <1>4, <1>5, <1>6, <1>7, <1>8, <1>9, <1>10 DEF OfcInv

LEMMA ForgetDpidInv ==
  ASSUME CatInv, OfcTyped, OfcInv, NEW h \in HttpThreads, ForgetDpid(h)
  PROVE  OfcInv'
<1>1. /\ \A k \in HttpThreads \ {h} : http'[k] = http[k]
      /\ http[h].op = "forget_dpid" /\ http[h].ofc \in Ofcs
      /\ http'[h].op \in Leaving /\ http'[h].ofc = http[h].ofc
      /\ blurred \subseteq blurred'
      /\ UNCHANGED <<ofcs, ofcsThread, ofcsThreadDpid, running, ofTasks, ofPort, ofcsMade, behind, threadless, hurried>>
  <2>1. http = [k \in HttpThreads |-> http[k]] /\ Typed(OfcOps, OfcRequests)
    BY DEF CatInv, CatTyped, HttpTyped, OfcTyped
  <2>2. http[h].op = "forget_dpid"
    BY DEF ForgetDpid
  <2>3. http[h].ofc \in Ofcs /\ http[h] = [op |-> "forget_dpid", ofc |-> http[h].ofc, dpid |-> http[h].dpid, at |-> http[h].at]
    BY <2>1, <2>2, OfcRequestShape
  <2>4. \A k \in HttpThreads \ {h} : http'[k] = http[k]
    BY <2>1 DEF ForgetDpid
  <2> QED BY <2>1, <2>2, <2>3, <2>4 DEF ForgetDpid, ofcRows, ofcThreads, Leaving
<1>2. NewAreFresh'
  BY <1>1 DEF OfcInv, NewAreFresh, Fresh, NoExit, HasRow, Asked, Leaving
<1>3. LoadsAreFresh'
  BY <1>1 DEF OfcInv, LoadsAreFresh, Fresh, NoExit, Asked, Leaving
<1>4. ThreadsRun'
  BY <1>1 DEF OfcInv, ThreadsRun, NoExit
<1>5. DeletedHaveNoRow'
  BY <1>1 DEF OfcInv, DeletedHaveNoRow, HasRow, Leaving
<1>6. RowsHaveThreads'
  BY <1>1 DEF OfcInv, RowsHaveThreads, HasRow, Asked
<1>7. DefaultStays'
  BY <1>1 DEF OfcInv, DefaultStays, Listed
<1>8. PortsHaveControllers'
  BY <1>1 DEF OfcInv, PortsHaveControllers, Present, HasRow, Leaving
<1>9. ThreadsAreFound'
  BY <1>1 DEF OfcInv, ThreadsAreFound, Forgiven, Asked, Leaving
<1>10. ChangesAreFollowed'
  BY <1>1 DEF OfcInv, ChangesAreFollowed, Forgiven, Asked, WillBeTold, ToUpdate
<1> QED BY <1>2, <1>3, <1>4, <1>5, <1>6, <1>7, <1>8, <1>9, <1>10 DEF OfcInv

LEMMA RemoveDpidInv ==
  ASSUME CatInv, OfcTyped, OfcInv, NEW h \in HttpThreads, RemoveDpid(h)
  PROVE  OfcInv'
<1>1. /\ \A k \in HttpThreads \ {h} : http'[k] = http[k]
      /\ http[h].op = "remove_dpid" /\ http[h].ofc \in Ofcs
      /\ http'[h] = Idle \/ (http'[h].op = "forget_dpid" /\ http'[h].ofc = http[h].ofc)
      /\ \/ UNCHANGED ofcsThreadDpid
         \/ \E j \in DOMAIN ofcsThreadDpid :
              /\ ofcsThreadDpid[j] = <<http[h].dpid, http[h].listed>>
              /\ ofcsThreadDpid' = RemoveAt(ofcsThreadDpid, j)
              /\ http[h].listed = http[h].ofc \/ http[h].dpid \in blurred'
      /\ blurred \subseteq blurred' /\ threadless \subseteq threadless'
      /\ UNCHANGED <<ofcs, ofcsThread, running, ofTasks, ofPort, ofcsMade, behind, hurried>>
  <2>1. http = [k \in HttpThreads |-> http[k]] /\ Typed(OfcOps, OfcRequests)
    BY DEF CatInv, CatTyped, HttpTyped, OfcTyped
  <2>2. http[h].op = "remove_dpid"
    BY DEF RemoveDpid
  <2>3. http[h].ofc \in Ofcs
    BY <2>1, <2>2, OfcRequestShape
  <2>4. \A k \in HttpThreads \ {h} : http'[k] = http[k]
    BY <2>1 DEF RemoveDpid
  <2> QED BY <2>1, <2>2, <2>3, <2>4 DEF RemoveDpid, ofcRows
<1>2. NewAreFresh'
  BY <1>1 DEF OfcInv, NewAreFresh, Fresh, NoExit, HasRow, Asked, Leaving
<1>3. LoadsAreFresh'
  BY <1>1 DEF OfcInv, LoadsAreFresh, Fresh, NoExit, Asked, Leaving
<1>4. ThreadsRun'
  BY <1>1 DEF OfcInv, ThreadsRun, NoExit
<1>5. DeletedHaveNoRow'
  BY <1>1 DEF OfcInv, DeletedHaveNoRow, HasRow, Leaving
<1>6. RowsHaveThreads'
  BY <1>1 DEF OfcInv, RowsHaveThreads, HasRow, Asked
<1>7. DefaultStays'
  <2>1. Default \in ofcsThread' /\ ofcsThreadDpid \in Seq(Dpids \X Known)
    BY <1>1 DEF OfcInv, DefaultStays, OfcTyped
  <2> SUFFICES ASSUME DefaultDpid \notin blurred' PROVE Default \in Listed(DefaultDpid)'
    BY <2>1 DEF DefaultStays
  <2>2. \E i \in DOMAIN ofcsThreadDpid : ofcsThreadDpid[i] = <<DefaultDpid, Default>>
    BY <1>1 DEF OfcInv, DefaultStays, Listed
  <2>3. CASE UNCHANGED ofcsThreadDpid
    BY <2>2, <2>3 DEF Listed, Known
  <2>4. CASE ~UNCHANGED ofcsThreadDpid
    <3> PICK j \in DOMAIN ofcsThreadDpid :
          /\ ofcsThreadDpid[j] = <<http[h].dpid, http[h].listed>>
          /\ ofcsThreadDpid' = RemoveAt(ofcsThreadDpid, j)
          /\ http[h].listed = http[h].ofc \/ http[h].dpid \in blurred'
      BY <1>1, <2>4
    <3>1. ofcsThreadDpid[j] # <<DefaultDpid, Default>>
      BY <1>1, DpidsAreTold
    <3>2. PICK i \in DOMAIN ofcsThreadDpid : ofcsThreadDpid[i] = <<DefaultDpid, Default>>
      BY <2>2
    <3>3. <<DefaultDpid, Default>> # ofcsThreadDpid[j]
      BY <3>1
    <3>4. \E k \in DOMAIN ofcsThreadDpid' : ofcsThreadDpid'[k] = <<DefaultDpid, Default>>
      <4>1. \E k \in DOMAIN RemoveAt(ofcsThreadDpid, j) : RemoveAt(ofcsThreadDpid, j)[k] = ofcsThreadDpid[i]
        BY <2>1, <3>2, <3>3, WithoutOne
      <4> QED BY <3>2, <4>1
    <3> QED BY <3>4 DEF Listed, Known
  <2> QED BY <2>3, <2>4
<1>8. PortsHaveControllers'
  BY <1>1 DEF OfcInv, PortsHaveControllers, Present, HasRow
<1>9. ThreadsAreFound'
  BY <1>1 DEF OfcInv, ThreadsAreFound, Forgiven, Asked
<1>10. ChangesAreFollowed'
  BY <1>1 DEF OfcInv, ChangesAreFollowed, Forgiven, Asked, WillBeTold, ToUpdate
<1> QED BY <1>2, <1>3, <1>4, <1>5, <1>6, <1>7, <1>8, <1>9, <1>10 DEF OfcInv

LEMMA ExitOfcInv ==
  ASSUME CatInv, OfcTyped, OfcInv, NEW h \in HttpThreads, ExitOfc(h)
  PROVE  OfcInv'
<1>1. /\ \A k \in HttpThreads \ {h} : http'[k] = http[k]
      /\ http[h].op = "exit_ofc" /\ http[h].ofc \in Ofcs /\ http'[h] = Idle
      /\ \A k \in Known : ofTasks[k] \in Seq({"exit", "update"})
      /\ \A k \in Known : ofTasks'[k] = IF k = http[h].ofc THEN Append(ofTasks[k], "exit") ELSE ofTasks[k]
      /\ ofcsThread \subseteq Known /\ running \subseteq Known /\ Ofcs \subseteq Known
      /\ UNCHANGED <<ofcs, ofcsThread, ofcsThreadDpid, running, ofPort, ofcsMade, behind, threadless, blurred, hurried>>
  <2>1. http = [k \in HttpThreads |-> http[k]] /\ Typed(OfcOps, OfcRequests)
    BY DEF CatInv, CatTyped, HttpTyped, OfcTyped
  <2>2. http[h].op = "exit_ofc"
    BY DEF ExitOfc
  <2>3. http[h].ofc \in Ofcs
    BY <2>1, <2>2, OfcRequestShape
  <2>4. \A k \in HttpThreads \ {h} : http'[k] = http[k]
    BY <2>1 DEF ExitOfc
  <2>5. /\ ofTasks \in [Known -> Seq({"exit", "update"})]
        /\ ofcsThread \subseteq Known /\ running \subseteq Known /\ Ofcs \subseteq Known
    BY DEF OfcTyped, ControllersTypeOK, Known
  <2> QED BY <2>1, <2>2, <2>3, <2>4, <2>5 DEF ExitOfc, ofcRows
<1>2. NewAreFresh'
  <2>1. \A k \in Known : NoExit(k) /\ k # http[h].ofc => NoExit(k)'
    BY <1>1 DEF NoExit
  <2>2. \A S, k : Asked(S, k)' => Asked(S, k) \/ "idle" \in S
    BY <1>1 DEF Asked
  <2>3. \A k \in Ofcs \ ofcsMade : k # http[h].ofc
    BY <1>1 DEF OfcInv, NewAreFresh, Fresh, Asked, Leaving
  <2> QED BY <1>1, <2>1, <2>2, <2>3 DEF OfcInv, NewAreFresh, Fresh, HasRow, Leaving
<1>3. LoadsAreFresh'
  <2>1. \A k \in Known : NoExit(k) /\ k # http[h].ofc => NoExit(k)'
    BY <1>1 DEF NoExit
  <2>2. \A S, k : Asked(S, k)' => Asked(S, k) \/ "idle" \in S
    BY <1>1 DEF Asked
  <2>3. \A k \in HttpThreads : http[k].op = "load" => http[k].ofc \in Known /\ http[k].ofc # http[h].ofc
    BY <1>1, OfcPart DEF OfcInv, LoadsAreFresh, Fresh, Asked, Leaving
  <2> QED BY <1>1, <2>1, <2>2, <2>3 DEF OfcInv, LoadsAreFresh, Fresh, Leaving
<1>4. ThreadsRun'
  BY <1>1 DEF OfcInv, ThreadsRun, NoExit, DeletedHaveNoRow, Leaving
<1>5. DeletedHaveNoRow'
  BY <1>1 DEF OfcInv, DeletedHaveNoRow, HasRow, Leaving
<1>6. RowsHaveThreads'
  BY <1>1 DEF OfcInv, RowsHaveThreads, HasRow, Asked
<1>7. DefaultStays'
  BY <1>1 DEF OfcInv, DefaultStays, Listed
<1>8. PortsHaveControllers'
  BY <1>1 DEF OfcInv, PortsHaveControllers, Present, HasRow
<1>9. ThreadsAreFound'
  BY <1>1 DEF OfcInv, ThreadsAreFound, Forgiven, Asked
<1>10. ChangesAreFollowed'
  <2>1. \A k \in Known : ToUpdate(k) => ToUpdate(k)'
    <3> SUFFICES ASSUME NEW k \in Known, ToUpdate(k) PROVE ToUpdate(k)'
      OBVIOUS
    <3>1. ofTasks[k] \in Seq({"exit", "update"}) /\ running \subseteq running'
      BY <1>1
    <3>2. CASE k = http[h].ofc
      <4>1. ofTasks'[k] = Append(ofTasks[k], "exit")
        BY <1>1, <3>2
      <4> QED BY <3>1, <4>1, ToUpdateStays
    <3>3. CASE k # http[h].ofc
      <4>1. ofTasks'[k] = ofTasks[k]
        BY <1>1, <3>3
      <4> QED BY <3>1, <4>1, ToUpdateStays
    <3> QED BY <3>2, <3>3
  <2>2. \A k : (Asked({"pick"}, k) => Asked({"pick"}, k)') /\ (WillBeTold(k) => WillBeTold(k)')
    BY <1>1 DEF Asked, WillBeTold
  <2>3. behind \subseteq Known
    BY DEF OfcTyped
  <2> QED BY <1>1, <2>1, <2>2, <2>3 DEF OfcInv, ChangesAreFollowed, Forgiven
<1> QED BY <1>2, <1>3, <1>4, <1>5, <1>6, <1>7, <1>8, <1>9, <1>10 DEF OfcInv

LEMMA InsertPortInv ==
  ASSUME CatInv, OfcTyped, OfcInv, NEW h \in HttpThreads, InsertPort(h)
  PROVE  OfcInv'
<1>1. /\ \A k \in HttpThreads \ {h} : http'[k] = http[k]
      /\ http[h].op = "insert_port" /\ http[h].ofc \in Known /\ http[h].port \in OfPorts
      /\ \/ http'[h] = Idle /\ UNCHANGED <<ofPort, behind>>
         \/ /\ http'[h].op = "pick" /\ http'[h].ofc = http[h].ofc /\ http'[h].dpid = Nothing
            /\ http[h].ofc \in Present /\ behind' = behind \cup {http[h].ofc}
            /\ ofPort' = [ofPort EXCEPT ![http[h].port] = [ofc |-> http[h].ofc, dpid |-> http[h].dpid]]
      /\ ofPort = [p \in OfPorts |-> ofPort[p]]
      /\ UNCHANGED <<ofcs, ofcsThread, ofcsThreadDpid, running, ofTasks, ofcsMade, threadless, blurred, hurried>>
  <2>1. http = [k \in HttpThreads |-> http[k]] /\ Typed(OfcOps, OfcRequests)
    BY DEF CatInv, CatTyped, HttpTyped, OfcTyped
  <2>2. http[h].op = "insert_port"
    BY DEF InsertPort
  <2>3. /\ http[h].ofc \in Known /\ http[h].port \in OfPorts
        /\ http[h] = [op |-> "insert_port", port |-> http[h].port, ofc |-> http[h].ofc, dpid |-> http[h].dpid]
    BY <2>1, <2>2, OfcRequestShape
  <2>4. \A k \in HttpThreads \ {h} : http'[k] = http[k]
    BY <2>1 DEF InsertPort
  <2>5. ofPort = [p \in OfPorts |-> ofPort[p]]
    BY DEF OfcTyped, ControllersTypeOK, Known
  <2> QED BY <2>1, <2>2, <2>3, <2>4, <2>5 DEF InsertPort, ofcThreads
<1>2. NewAreFresh'
  <2>1. \A S, k : Asked(S, k)' => Asked(S, k) \/ "idle" \in S \/ "pick" \in S
    BY <1>1 DEF Asked
  <2> QED BY <1>1, <2>1 DEF OfcInv, NewAreFresh, Fresh, NoExit, HasRow, Leaving
<1>3. LoadsAreFresh'
  <2>1. \A S, k : Asked(S, k)' => Asked(S, k) \/ "idle" \in S \/ "pick" \in S
    BY <1>1 DEF Asked
  <2> QED BY <1>1, <2>1 DEF OfcInv, LoadsAreFresh, Fresh, NoExit, Leaving
<1>4. ThreadsRun'
  BY <1>1 DEF OfcInv, ThreadsRun, NoExit
<1>5. DeletedHaveNoRow'
  BY <1>1 DEF OfcInv, DeletedHaveNoRow, HasRow, Leaving
<1>6. RowsHaveThreads'
  BY <1>1 DEF OfcInv, RowsHaveThreads, HasRow, Asked
<1>7. DefaultStays'
  BY <1>1 DEF OfcInv, DefaultStays, Listed
<1>8. PortsHaveControllers'
  BY <1>1 DEF OfcInv, PortsHaveControllers, Present, HasRow
<1>9. ThreadsAreFound'
  BY <1>1 DEF OfcInv, ThreadsAreFound, Forgiven, Asked, RowsHaveThreads, Present, HasRow
<1>10. ChangesAreFollowed'
  BY <1>1 DEF OfcInv, ChangesAreFollowed, Forgiven, Asked, WillBeTold, ToUpdate
<1> QED BY <1>2, <1>3, <1>4, <1>5, <1>6, <1>7, <1>8, <1>9, <1>10 DEF OfcInv

LEMMA PickThreadInv ==
  ASSUME CatInv, OfcTyped, OfcInv, NEW h \in HttpThreads, PickThread(h)
  PROVE  OfcInv'
<1>1. /\ \A k \in HttpThreads \ {h} : http'[k] = http[k]
      /\ http[h].op = "pick" /\ http[h].ofc \in Known
      /\ http'[h] = [op |-> "tell", ofc |-> http[h].ofc, to |-> ThreadsFor(http[h].ofc, http[h].dpid)]
      /\ hurried \subseteq hurried' /\ (Asked({"load"}, http[h].ofc) => http[h].ofc \in hurried')
      /\ UNCHANGED <<ofcs, ofcsThread, ofcsThreadDpid, running, ofTasks, ofPort, ofcsMade, behind, threadless, blurred>>
  <2>1. http = [k \in HttpThreads |-> http[k]] /\ Typed(OfcOps, OfcRequests)
    BY DEF CatInv, CatTyped, HttpTyped, OfcTyped
  <2>2. http[h].op = "pick"
    BY DEF PickThread
  <2>3. http[h].ofc \in Known
    BY <2>1, <2>2, OfcRequestShape
  <2>4. \A k \in HttpThreads \ {h} : http'[k] = http[k]
    BY <2>1 DEF PickThread
  <2> QED BY <2>1, <2>2, <2>3, <2>4 DEF PickThread, ofcRows, ofcThreads, Asked
<1>2. NewAreFresh'
  BY <1>1 DEF OfcInv, NewAreFresh, Fresh, NoExit, HasRow, Asked, Leaving
<1>3. LoadsAreFresh'
  BY <1>1 DEF OfcInv, LoadsAreFresh, Fresh, NoExit, Asked, Leaving
<1>4. ThreadsRun'
  BY <1>1 DEF OfcInv, ThreadsRun, NoExit
<1>5. DeletedHaveNoRow'
  BY <1>1 DEF OfcInv, DeletedHaveNoRow, HasRow, Leaving
<1>6. RowsHaveThreads'
  BY <1>1 DEF OfcInv, RowsHaveThreads, HasRow, Asked
<1>7. DefaultStays'
  BY <1>1 DEF OfcInv, DefaultStays, Listed
<1>8. PortsHaveControllers'
  BY <1>1 DEF OfcInv, PortsHaveControllers, Present, HasRow
<1>9. ThreadsAreFound'
  BY <1>1 DEF OfcInv, ThreadsAreFound, Forgiven, Asked, DefaultStays
<1>10. ChangesAreFollowed'
  <2> DEFINE c == http[h].ofc
             to == ThreadsFor(c, http[h].dpid)
  <2>1. CASE c \in ofcsThread /\ c # Default
    <3>1. c \in to
      BY <2>1 DEF ThreadsFor
    <3> QED BY <1>1, <3>1 DEF OfcInv, ChangesAreFollowed, Forgiven, Asked, WillBeTold, ToUpdate
  <2>2. CASE c \notin ofcsThread /\ c # Default
    <3>1. Forgiven(c)'
      BY <1>1, <2>2 DEF OfcInv, ThreadsAreFound, Forgiven
    <3> QED BY <1>1, <3>1 DEF OfcInv, ChangesAreFollowed, Forgiven, Asked, WillBeTold, ToUpdate
  <2>3. CASE c = Default
    <3>1. http[h].dpid \in {Nothing, DefaultDpid}
      BY <1>1, <2>3 DEF OfcInv, ThreadsAreFound
    <3>2. DefaultDpid \notin blurred => c \in to
      BY <2>3, <3>1, DpidsAreTold DEF OfcInv, DefaultStays, ThreadsFor
    <3>3. DefaultDpid \notin blurred => WillBeTold(c)'
      BY <1>1, <3>2 DEF WillBeTold
    <3> QED BY <1>1, <2>3, <3>3 DEF OfcInv, ChangesAreFollowed, Forgiven, Asked, WillBeTold, ToUpdate
  <2> QED BY <2>1, <2>2, <2>3
<1> QED BY <1>2, <1>3, <1>4, <1>5, <1>6, <1>7, <1>8, <1>9, <1>10 DEF OfcInv

LEMMA TellThreadInv ==
  ASSUME CatInv, OfcTyped, OfcInv, NEW h \in HttpThreads, TellThread(h)
  PROVE  OfcInv'
<1> DEFINE r == http[h]
           ofTasksOf == \A k \in Known : ofTasks[k] \in Seq({"exit", "update"})
<1>1. /\ http = [k \in HttpThreads |-> http[k]] /\ Typed(OfcOps, OfcRequests)
      /\ ofTasks \in [Known -> Seq({"exit", "update"})]
      /\ ofcsThread \subseteq Known /\ running \subseteq Known /\ Ofcs \subseteq Known
      /\ behind \subseteq Known
  BY DEF CatInv, CatTyped, HttpTyped, OfcTyped, ControllersTypeOK, Known
<1>2. /\ r.op = "tell" /\ r.ofc \in Known /\ r.to \subseteq Known
      /\ r = [op |-> "tell", ofc |-> r.ofc, to |-> r.to]
  BY <1>1, OfcRequestShape DEF TellThread
<1>3. \A k \in HttpThreads \ {h} : http'[k] = http[k]
  BY <1>1 DEF TellThread
<1>4. UNCHANGED <<ofcs, ofcsThread, ofcsThreadDpid, running, ofPort, ofcsMade, behind,
                  threadless, blurred, hurried>>
  BY DEF TellThread, ofcRows
<1>5. CASE r.to = {}
  <2>1. http'[h] = Idle /\ UNCHANGED ofTasks
    BY <1>1, <1>5 DEF TellThread
  <2>2. NewAreFresh'
    BY <1>2, <1>3, <1>4, <2>1 DEF OfcInv, NewAreFresh, Fresh, NoExit, HasRow, Asked, Leaving
  <2>3. LoadsAreFresh'
    BY <1>2, <1>3, <1>4, <2>1 DEF OfcInv, LoadsAreFresh, Fresh, NoExit, Asked, Leaving
  <2>4. ThreadsRun'
    BY <1>4, <2>1 DEF OfcInv, ThreadsRun, NoExit
  <2>5. ChangesAreFollowed'
    BY <1>2, <1>3, <1>4, <1>5, <2>1
    DEF OfcInv, ChangesAreFollowed, Forgiven, Asked, WillBeTold, ToUpdate
  <2>6. DeletedHaveNoRow' /\ RowsHaveThreads'
    BY <1>2, <1>3, <1>4, <2>1 DEF OfcInv, DeletedHaveNoRow, RowsHaveThreads, HasRow, Leaving, Asked
  <2>7. DefaultStays' /\ PortsHaveControllers'
    BY <1>2, <1>3, <1>4, <2>1 DEF OfcInv, DefaultStays, Listed, PortsHaveControllers, Present, HasRow
  <2>8. ThreadsAreFound'
    BY <1>2, <1>3, <1>4, <2>1 DEF OfcInv, ThreadsAreFound, Forgiven, Asked
  <2> QED BY <2>2, <2>3, <2>4, <2>5, <2>6, <2>7, <2>8 DEF OfcInv
<1>6. CASE r.to # {}
  <2>1. PICK c \in r.to : /\ ofTasks' = [ofTasks EXCEPT ![c] = Append(@, "update")]
                          /\ http' = [http EXCEPT ![h] = [r EXCEPT !.to = @ \ {c}]]
    BY <1>6 DEF TellThread
  <2>2. c \in Known /\ http'[h] = [op |-> "tell", ofc |-> r.ofc, to |-> r.to \ {c}]
    BY <1>1, <1>2, <2>1
  <2>3. /\ ofTasks'[c] = Append(ofTasks[c], "update")
        /\ \A k \in Known \ {c} : ofTasks'[k] = ofTasks[k]
    BY <1>1, <2>1, <2>2
  <2>4. \A k \in Known : NoExit(k) => NoExit(k)'
    <3> SUFFICES ASSUME NEW k \in Known, NoExit(k) PROVE NoExit(k)'
      OBVIOUS
    <3>1. CASE k = c
      <4>1. /\ DOMAIN ofTasks'[c] = DOMAIN ofTasks[c] \cup {Len(ofTasks[c]) + 1}
            /\ \A i \in DOMAIN ofTasks[c] : ofTasks'[c][i] = ofTasks[c][i]
            /\ ofTasks'[c][Len(ofTasks[c]) + 1] = "update"
        BY <1>1, <2>2, <2>3, Appended
      <4> QED BY <3>1, <4>1 DEF NoExit
    <3>2. CASE k # c
      BY <2>3, <3>2 DEF NoExit
    <3> QED BY <3>1, <3>2
  <2>5. \A k \in Known : ToUpdate(k) => ToUpdate(k)'
    <3> SUFFICES ASSUME NEW k \in Known, ToUpdate(k) PROVE ToUpdate(k)'
      OBVIOUS
    <3>1. ofTasks[k] \in Seq({"exit", "update"}) /\ running \subseteq running'
      BY <1>1, <1>4
    <3>2. CASE k = c
      <4>1. ofTasks'[k] = Append(ofTasks[k], "update")
        BY <2>3, <3>2
      <4> QED BY <3>1, <4>1, ToUpdateStays
    <3>3. CASE k # c
      <4>1. ofTasks'[k] = ofTasks[k]
        BY <2>3, <3>3
      <4> QED BY <3>1, <4>1, ToUpdateStays
    <3> QED BY <3>2, <3>3
  <2>6. \A S, k : Asked(S, k)' <=> Asked(S, k)
    BY <1>2, <1>3, <2>2 DEF Asked
  <2>7. NewAreFresh'
    BY <1>1, <1>4, <2>4, <2>6 DEF OfcInv, NewAreFresh, Fresh, HasRow
  <2>8. LoadsAreFresh'
    <3>1. \A k \in HttpThreads : http'[k].op = "load" => k # h /\ http[k].op = "load" /\ http[k].ofc \in Known
      BY <1>1, <1>2, <1>3, <2>2, OfcPart
    <3> QED BY <1>3, <1>4, <2>4, <2>6, <3>1 DEF OfcInv, LoadsAreFresh, Fresh
  <2>9. ThreadsRun'
    BY <1>1, <1>4, <2>4 DEF OfcInv, ThreadsRun
  <2>10. DeletedHaveNoRow' /\ RowsHaveThreads'
    BY <1>2, <1>3, <1>4, <2>2, <2>6 DEF OfcInv, DeletedHaveNoRow, RowsHaveThreads, HasRow, Leaving
  <2>11. DefaultStays' /\ PortsHaveControllers'
    BY <1>2, <1>3, <1>4, <2>2 DEF OfcInv, DefaultStays, Listed, PortsHaveControllers, Present, HasRow
  <2>12. ThreadsAreFound'
    BY <1>2, <1>3, <1>4, <2>2, <2>6 DEF OfcInv, ThreadsAreFound, Forgiven
  <2>13. WillBeTold(c) /\ c = r.ofc /\ ~Forgiven(c) => ToUpdate(c)'
    <3> SUFFICES ASSUME c = r.ofc, ~Forgiven(c) PROVE ToUpdate(c)'
      OBVIOUS
    <3>1. c \in ofcsThread
      BY <1>2 DEF OfcInv, ThreadsAreFound
    <3>2. c \in running' /\ NoExit(c)
      BY <1>4, <3>1 DEF OfcInv, ThreadsRun
    <3> QED BY <1>1, <2>2, <2>3, <3>2, ToldUpdates
  <2>14. ASSUME NEW k \in Known, WillBeTold(k), ~Forgiven(k) PROVE WillBeTold(k)' \/ ToUpdate(k)'
    <3>1. PICK g \in HttpThreads : http[g].op = "tell" /\ http[g].ofc = k /\ k \in http[g].to
      BY <2>14 DEF WillBeTold
    <3>2. CASE g # h
      BY <1>3, <3>1, <3>2 DEF WillBeTold
    <3>3. CASE g = h /\ k # c
      BY <2>2, <3>1, <3>3 DEF WillBeTold
    <3>4. CASE g = h /\ k = c
      BY <2>13, <2>14, <3>1, <3>4
    <3> QED BY <3>2, <3>3, <3>4
  <2>15. ChangesAreFollowed'
    BY <1>1, <1>4, <2>5, <2>6, <2>14 DEF OfcInv, ChangesAreFollowed, Forgiven
  <2> QED BY <2>7, <2>8, <2>9, <2>10, <2>11, <2>12, <2>15 DEF OfcInv
<1> QED BY <1>5, <1>6

LEMMA TakeOfTaskInv ==
  ASSUME OfcTyped, OfcInv, NEW c \in Known, TakeOfTask(c)
  PROVE  OfcInv'
<1> DEFINE s == ofTasks[c]
<1>1. /\ ofTasks \in [Known -> Seq({"exit", "update"})]
      /\ ofcsThread \subseteq Known /\ running \subseteq Known /\ Ofcs \subseteq Known
      /\ behind \subseteq Known
  BY DEF OfcTyped, ControllersTypeOK, Known
<1>2. UNCHANGED <<http, ofcs, ofPort, ofcsMade, ofcsThread, ofcsThreadDpid, threadless, blurred, hurried>>
  BY DEF TakeOfTask, ofcRows
<1>3. /\ c \in running /\ s # << >> /\ s \in Seq({"exit", "update"})
      /\ ofTasks'[c] = Tail(s) /\ \A k \in Known \ {c} : ofTasks'[k] = ofTasks[k]
  BY <1>1 DEF TakeOfTask
<1>4. /\ DOMAIN s = 1..Len(s) /\ Len(s) \in Nat \ {0} /\ DOMAIN Tail(s) = 1..(Len(s) - 1)
      /\ \A i \in 1..(Len(s) - 1) : Tail(s)[i] = s[i + 1]
      /\ Head(s) = s[1]
  <2> HIDE DEF s
  <2> QED BY <1>3
<1>5. \/ Head(s) = "exit" /\ running' = running \ {c} /\ UNCHANGED behind
      \/ Head(s) # "exit" /\ behind' = behind \ {c} /\ UNCHANGED running
  BY DEF TakeOfTask
<1>6. \A k \in Known : NoExit(k) => NoExit(k)'
  <2> SUFFICES ASSUME NEW k \in Known, NoExit(k) PROVE NoExit(k)'
    OBVIOUS
  <2>1. CASE k = c
    <3>1. \A i \in 1..Len(s) : s[i] # "exit"
      BY <1>4, <2>1 DEF NoExit
    <3>2. \A i \in 1..(Len(s) - 1) : Tail(s)[i] # "exit"
      BY <1>4, <3>1
    <3> QED BY <1>3, <1>4, <2>1, <3>2 DEF NoExit
  <2>2. CASE k # c
    BY <1>3, <2>2 DEF NoExit
  <2> QED BY <2>1, <2>2
<1>7. c \in ofcsThread => Head(s) # "exit"
  BY <1>4 DEF OfcInv, ThreadsRun, NoExit
<1>8. ThreadsRun'
  BY <1>1, <1>2, <1>5, <1>6, <1>7 DEF OfcInv, ThreadsRun
<1>9. NewAreFresh'
  BY <1>1, <1>2, <1>6 DEF OfcInv, NewAreFresh, Fresh, HasRow, Asked
<1>10. LoadsAreFresh'
  <2>1. \A k \in HttpThreads : http[k].op = "load" => http[k].ofc \in Known
    BY <1>1, OfcPart
  <2> QED BY <1>2, <1>6, <2>1 DEF OfcInv, LoadsAreFresh, Fresh, Asked
<1>11. DeletedHaveNoRow' /\ RowsHaveThreads' /\ DefaultStays' /\ PortsHaveControllers' /\ ThreadsAreFound'
  BY <1>2 DEF OfcInv, DeletedHaveNoRow, RowsHaveThreads, HasRow, DefaultStays, Listed,
              PortsHaveControllers, Present, ThreadsAreFound, Forgiven, Asked
<1>12. ASSUME NEW k \in Known, ToUpdate(k), k # c PROVE ToUpdate(k)'
  <2>1. ofTasks'[k] = ofTasks[k] /\ k \in running'
    BY <1>3, <1>5, <1>12 DEF ToUpdate
  <2> QED BY <1>12, <2>1 DEF ToUpdate
<1>13. ASSUME ToUpdate(c), c \in behind' PROVE ToUpdate(c)'
  <2>1. PICK i \in DOMAIN s : s[i] = "update" /\ \A j \in 1..i : s[j] # "exit"
    BY <1>13 DEF ToUpdate
  <2>2. s[1] # "exit"
    BY <1>4, <2>1
  <2>3. c \notin behind'
    BY <1>4, <1>5, <2>2
  <2> QED BY <1>13, <2>3
<1>14. ChangesAreFollowed'
  <2>1. behind' \subseteq behind
    BY <1>5
  <2> QED BY <1>1, <1>2, <1>12, <1>13, <2>1
      DEF OfcInv, ChangesAreFollowed, Forgiven, Asked, WillBeTold
<1> QED BY <1>8, <1>9, <1>10, <1>11, <1>14 DEF OfcInv

LEMMA InitOfcInv == Init => OfcInv
<1> SUFFICES ASSUME Init PROVE OfcInv
  OBVIOUS
<1>1. http = [h \in HttpThreads |-> Idle]
  BY DEF Init
<1>2. PICK d \in Dpids :
        ControllersInit([c \in Ofcs |-> IF area = "controllers" /\ c = FirstOfc THEN d ELSE Nothing])
  BY DEF Init
<1>3. \A c \in Known : NoExit(c)
  BY <1>2 DEF ControllersInit, NoExit
<1>4. \A S, c : Asked(S, c) => "idle" \in S
  BY <1>1 DEF Asked
<1>5. /\ ofcsMade = {c \in Ofcs : HasRow(c)} /\ ofcsThread = Present /\ running = ofcsThread
      /\ ofPort = [p \in OfPorts |-> Nothing] /\ behind = {}
  BY <1>2 DEF ControllersInit
<1>6. Default \in Listed(DefaultDpid)
  <2> DEFINE S == {<<ofcs[c], c>> : c \in ofcsMade}
  <2>1. ofcs \in [Ofcs -> Dpids \cup {Nothing}] /\ ofcsThreadDpid = << <<DefaultDpid, Default>> >> \o SetToSeq(S)
    BY <1>2 DEF ControllersInit
  <2>2. S \subseteq Dpids \X Known
    BY <1>5, <2>1 DEF HasRow, Known
  <2>3. IsFiniteSet(S)
    BY <1>5, <2>1, RowsAreFinite
  <2>4. 1 \in DOMAIN ofcsThreadDpid /\ ofcsThreadDpid[1] = <<DefaultDpid, Default>>
    <3> HIDE DEF S
    <3> QED BY <2>1, <2>2, <2>3, StartedList
  <2> QED BY <2>4 DEF Listed, Known
<1>7. NewAreFresh /\ ThreadsRun /\ RowsHaveThreads
  BY <1>3, <1>4, <1>5, DpidsAreTold
  DEF NewAreFresh, Fresh, ThreadsRun, RowsHaveThreads, Present, Known, Leaving
<1>8. LoadsAreFresh /\ DeletedHaveNoRow /\ ThreadsAreFound
  BY <1>1 DEF LoadsAreFresh, DeletedHaveNoRow, ThreadsAreFound, Leaving
<1>9. DefaultStays /\ PortsHaveControllers /\ ChangesAreFollowed
  BY <1>1, <1>5, <1>6 DEF DefaultStays, PortsHaveControllers, ChangesAreFollowed, Present
<1> QED BY <1>7, <1>8, <1>9 DEF OfcInv

LEMMA RestartOfcInv ==
  ASSUME OfcTyped, OfcInv, Restart
  PROVE  OfcInv'
<1>1. http' = [h \in HttpThreads |-> Idle] /\ StartOfcs
  BY DEF Restart
<1>2. \A c \in Known : NoExit(c)'
  BY <1>1 DEF StartOfcs, NoExit
<1>3. \A S, c : Asked(S, c)' => "idle" \in S
  BY <1>1 DEF Asked
<1>4. /\ ofcsThread' = Present /\ running' = ofcsThread' /\ behind' = {} /\ UNCHANGED <<ofcs, ofPort, ofcsMade>>
  BY <1>1 DEF StartOfcs, ofcRows
<1>5. Default \in Listed(DefaultDpid)'
  BY <1>1, RestartList DEF OfcTyped, ControllersTypeOK, Listed, Known
<1>6. NewAreFresh' /\ ThreadsRun' /\ RowsHaveThreads'
  BY <1>2, <1>3, <1>4, DpidsAreTold
  DEF OfcInv, NewAreFresh, Fresh, ThreadsRun, RowsHaveThreads, Present, Known, Leaving, HasRow
<1>7. LoadsAreFresh' /\ DeletedHaveNoRow' /\ ThreadsAreFound'
  BY <1>1 DEF LoadsAreFresh, DeletedHaveNoRow, ThreadsAreFound, Leaving
<1>8. DefaultStays' /\ PortsHaveControllers' /\ ChangesAreFollowed'
  BY <1>1, <1>4, <1>5
  DEF OfcInv, DefaultStays, PortsHaveControllers, ChangesAreFollowed, Present, HasRow
<1> QED BY <1>6, <1>7, <1>8 DEF OfcInv

LEMMA AsideOfcInv ==
  ASSUME CatInv, OfcTyped, OfcInv, Aside(OfcOps), UNCHANGED ofcVars
  PROVE  OfcInv'
<1>1. /\ \A k \in HttpThreads : http'[k].op \in OfcOps => http'[k] = http[k]
      /\ \A k \in HttpThreads : http[k].op \in OfcOps => http'[k] = http[k]
  BY AsideTyped DEF CatInv, CatTyped, OfcTyped
<1>2. \A S, c : S \subseteq OfcOps => (Asked(S, c)' <=> Asked(S, c))
  BY <1>1 DEF Asked
<1>3. UNCHANGED <<ofcs, ofcsThread, ofcsThreadDpid, running, ofTasks, ofPort, ofcsMade, behind,
                  threadless, blurred, hurried>>
  BY DEF ofcVars
<1>4. Leaving \subseteq OfcOps /\ {"load", "forget_ofc", "insert_port", "pick", "tell"} \subseteq OfcOps
  BY DEF Leaving, OfcOps
<1>5. NewAreFresh' /\ LoadsAreFresh' /\ ThreadsRun' /\ RowsHaveThreads'
  <2>1. \A c : (Fresh(c)' <=> Fresh(c)) /\ (NoExit(c)' <=> NoExit(c)) /\ (HasRow(c)' <=> HasRow(c))
    BY <1>2, <1>3, <1>4 DEF Fresh, NoExit, HasRow
  <2>2. \A c : (Asked({"load"}, c)' <=> Asked({"load"}, c))
               /\ (Asked({"load", "forget_ofc"}, c)' <=> Asked({"load", "forget_ofc"}, c))
    BY <1>2, <1>4
  <2>3. LoadsAreFresh'
    BY <1>1, <1>3, <1>4, <2>1 DEF OfcInv, LoadsAreFresh
  <2> QED BY <1>3, <2>1, <2>2, <2>3 DEF OfcInv, NewAreFresh, ThreadsRun, RowsHaveThreads
<1>6. DeletedHaveNoRow' /\ DefaultStays' /\ PortsHaveControllers'
  BY <1>1, <1>3, <1>4
  DEF OfcInv, DeletedHaveNoRow, DefaultStays, Listed, PortsHaveControllers, Present, HasRow
<1>7. ThreadsAreFound'
  <2>1. \A c : Asked({"load"}, c)' <=> Asked({"load"}, c)
    BY <1>2, <1>4
  <2> QED BY <1>1, <1>3, <1>4, <2>1 DEF OfcInv, ThreadsAreFound, Forgiven
<1>8. ChangesAreFollowed'
  <2>1. \A c : /\ Asked({"pick"}, c)' <=> Asked({"pick"}, c)
               /\ WillBeTold(c) => WillBeTold(c)'
               /\ ToUpdate(c)' <=> ToUpdate(c)
    BY <1>1, <1>2, <1>3, <1>4 DEF WillBeTold, ToUpdate
  <2> QED BY <1>3, <2>1 DEF OfcInv, ChangesAreFollowed, Forgiven
<1> QED BY <1>5, <1>6, <1>7, <1>8 DEF OfcInv

LEMMA NextOfcInv == CatInv /\ TypeInv /\ OfcInv /\ [Next]_vars => OfcInv'
<1> SUFFICES ASSUME CatInv, TypeInv, OfcInv, [Next]_vars PROVE OfcInv'
  OBVIOUS
<1>1. HttpTyped /\ OfcTyped
  BY DEF CatInv, CatTyped, TypeInv
<1>2. ASSUME NEW h \in HttpThreads, NetworkRequest(h) \/ NetworkStep(h), UNCHANGED ofcVars
      PROVE  OfcInv'
  <2>1. Aside(OfcOps \cup (CatOps \cup DhcpOps))
    BY <1>1, <1>2, NetworksAside
  <2> QED BY <1>1, <1>2, <2>1, AsideOfMore, AsideOfcInv
<1>3. CASE /\ ThreadMoves \/ \E h \in HttpThreads : DhcpRequest(h) \/ DhcpStep(h)
           /\ UNCHANGED <<netVars, ofcVars>>
  <2>1. Aside((CatOps \cup NetOps) \cup OfcOps)
    BY <1>1, <1>3, DhcpAside DEF ThreadMoves
  <2> QED BY <1>1, <1>3, <2>1, AsideOfMore, AsideOfcInv
<1>4. ASSUME NEW h \in HttpThreads, CatalogueRequest(h) \/ CatalogueStep(h),
             UNCHANGED <<netVars, ofcVars>>
      PROVE  OfcInv'
  <2>1. Aside((NetOps \cup DhcpOps) \cup OfcOps)
    BY <1>4, CatalogueAside
  <2> QED BY <1>1, <1>4, <2>1, AsideOfMore, AsideOfcInv
<1>5. ASSUME NEW h \in HttpThreads, OfcRequest(h)
      PROVE  OfcInv'
  BY <1>1, <1>5, NewOfControllerInv, EditOfControllerInv, DeleteOfControllerInv,
     NewExternalPortInv, DeletePortInv DEF OfcRequest
<1>6. ASSUME NEW h \in HttpThreads, OfcStep(h)
      PROVE  OfcInv'
  BY <1>1, <1>6, CreateOfcTaskInv, DeleteOfcInv, ForgetOfcInv, ForgetDpidInv, RemoveDpidInv,
     ExitOfcInv, InsertPortInv, PickThreadInv, TellThreadInv DEF OfcStep
<1>7. ASSUME NEW c \in Known, TakeOfTask(c)
      PROVE  OfcInv'
  BY <1>1, <1>7, TakeOfTaskInv
<1>8. CASE Restart
  BY <1>1, <1>8, RestartOfcInv
<1>9. CASE UNCHANGED vars
  BY <1>1, <1>9, AsideOfcInv DEF vars, Aside
<1> QED BY <1>2, <1>3, <1>4, <1>5, <1>6, <1>7, <1>8, <1>9 DEF Next, ThreadMoves

\* Whenever all requests are answered and the threads have done what they were
\* told, each has updated its network after the last change of a port
\* (net_update_ofc_thread), but for the controllers that the property names.
THEOREM PortChangesReachTheThread == Spec => []PortChangesAreTold
<1>1. ASSUME OfcTyped, OfcInv PROVE PortChangesAreTold
  <2> SUFFICES ASSUME AllAnswered, \A c \in running : ofTasks[c] = << >>, NEW c \in behind
               PROVE  Forgiven(c) \/ (c = Default /\ DefaultDpid \in blurred)
    BY DEF PortChangesAreTold, Forgiven
  <2>1. ~Asked({"pick"}, c) /\ ~WillBeTold(c)
    BY DEF AllAnswered, Asked, WillBeTold
  <2>2. ~ToUpdate(c)
    BY DEF ToUpdate
  <2> QED BY <1>1, <2>1, <2>2 DEF OfcInv, ChangesAreFollowed
<1>2. CatInv /\ VlanInv /\ TypeInv /\ OfcInv => PortChangesAreTold
  BY <1>1 DEF TypeInv
<1> QED BY <1>2, InitOfcInv, NextOfcInv, TypeInvariant, PTL DEF Spec
=============================================================================
