----------------------------- MODULE ConfigProofs -----------------------------
(***************************************************************************)
(* The configuration that the threads share, config_dic, stays what a      *)
(* start of the service would make of the database: the threads of the     *)
(* openflow controllers, the networks of the bridges and those with a dhcp *)
(* server.                                                                 *)
(***************************************************************************)
EXTENDS AdministrationProofs

USE DEF Idle, Begin, Continue, Finish

-----------------------------------------------------------------------------
(* The controllers as a start would have them *)

\* The request has a dpid with it.
AskedFor(Kind, c, d) ==
  \E h \in HttpThreads : http[h].op \in Kind /\ http[h].ofc = c /\ http[h].dpid = d

\* What a request read, or wrote, is still in the row, or the dpid was edited.
ReadRight ==
  \A h \in HttpThreads : http[h].op \in {"load", "delete_ofc"} =>
    LET c == http[h].ofc
    IN  c \in ofcsMade /\ (HasRow(c) => http[h].dpid = ofcs[c] \/ {http[h].dpid, ofcs[c]} \subseteq edited)

\* A row is deleted once.
OneDeletes ==
  \A h, k \in HttpThreads :
    /\ {http[h].op, http[k].op} \subseteq {"forget_ofc"} \cup Leaving
    /\ http[h].ofc = http[k].ofc
    => h = k

ThreadsHaveRows ==
  \A c \in ofcsThread \ threadless : c \in Present \/ Asked({"forget_ofc"}, c)

LeaversEnd ==
  \A c \in running \ (ofcsThread \cup threadless) : Asked(Leaving, c) \/ ~NoExit(c)

\* An entry of the list is that of a row, or its request has still to come to it.
ListedAreRight ==
  \A d \in Dpids \ (edited \cup blurred) : \A c \in Listed(d) \ threadless :
    \/ c \in ofcsThread /\ ((c \in Present /\ DpidOf(c) = d) \/ AskedFor({"forget_ofc"}, c, d))
    \/ AskedFor({"forget_dpid", "remove_dpid"}, c, d)

RowsAreListed ==
  \A c \in Present \ threadless : DpidOf(c) \notin edited \cup blurred =>
    c \in Listed(DpidOf(c)) \/ AskedFor({"load"}, c, DpidOf(c))

ListInv ==
  /\ ReadRight /\ OneDeletes /\ ThreadsHaveRows /\ LeaversEnd /\ ListedAreRight /\ RowsAreListed

\* Nothing else comes in when an entry is removed.
LEMMA NothingIsAdded ==
  ASSUME NEW S, NEW s \in Seq(S), NEW i \in DOMAIN s, NEW k \in DOMAIN RemoveAt(s, i)
  PROVE  \E j \in DOMAIN s : RemoveAt(s, i)[k] = s[j]
<1>1. i \in 1..Len(s) /\ Len(s) \in Nat /\ DOMAIN s = 1..Len(s)
  OBVIOUS
<1> DEFINE a == SubSeq(s, 1, i - 1)
           b == SubSeq(s, i + 1, Len(s))
<1>2. a \in Seq(S) /\ Len(a) = i - 1 /\ \A j \in 1..(i - 1) : a[j] = s[j]
  BY <1>1
<1>3. b \in Seq(S) /\ Len(b) = Len(s) - i /\ \A j \in 1..(Len(s) - i) : b[j] = s[j + i]
  <2>1. b \in Seq(S)
    BY <1>1
  <2>2. Len(b) = Len(s) - i
    BY <1>1
  <2>3. \A j \in 1..(Len(s) - i) : b[j] = s[j + i]
    BY <1>1
  <2> QED BY <2>1, <2>2, <2>3
<1>4. RemoveAt(s, i) = a \o b
  BY DEF RemoveAt
<1> HIDE DEF a, b
<1>5. k \in 1..(Len(s) - 1) /\ Len(a \o b) = Len(s) - 1
  <2>1. a \o b \in Seq(S) /\ Len(a \o b) = (i - 1) + (Len(s) - i)
    BY <1>2, <1>3
  <2>2. (i - 1) + (Len(s) - i) = Len(s) - 1
    BY <1>1
  <2>3. k \in DOMAIN (a \o b) /\ DOMAIN (a \o b) = 1..Len(a \o b)
    BY <1>4, <2>1
  <2> QED BY <2>1, <2>2, <2>3
<1>6. (a \o b)[k] = IF k <= Len(a) THEN a[k] ELSE b[k - Len(a)]
  BY <1>2, <1>3, <1>5, ConcatenatedAt
<1>7. CASE k <= i - 1
  <2>1. k \in 1..(i - 1) /\ k \in 1..Len(s)
    BY <1>1, <1>5, <1>7
  <2> QED BY <1>1, <1>2, <1>4, <1>6, <1>7, <2>1
<1>8. CASE k > i - 1
  <2> DEFINE j == k - (i - 1)
  <2>1. j \in 1..(Len(s) - i) /\ j + i \in 1..Len(s)
    BY <1>1, <1>5, <1>8
  <2>2. (a \o b)[k] = b[j]
    BY <1>1, <1>2, <1>5, <1>6, <1>8
  <2>3. b[j] = s[j + i]
    BY <1>3, <2>1
  <2> QED BY <1>1, <1>4, <2>1, <2>2, <2>3
<1> QED BY <1>1, <1>5, <1>7, <1>8

\* SetToSeq leaves no element out.
LEMMA AllAreListed ==
  ASSUME NEW S, IsFiniteSet(S)
  PROVE  /\ SetToSeq(S) \in Seq(S)
         /\ \A e \in S : \E i \in DOMAIN SetToSeq(S) : SetToSeq(S)[i] = e
<1> DEFINE n == Cardinality(S)
           f == SetToSeq(S)
<1>1. ExistsBijection(1..n, S) /\ n \in Nat
  BY FS_CardinalityType
<1>2. \E g \in [1..n -> S] : IsInjective(g)
  BY <1>1 DEF ExistsBijection, Bijection, Injection, IsInjective
<1>3. f \in [1..n -> S] /\ IsInjective(f)
  BY <1>2 DEF SetToSeq
<1> HIDE DEF f
<1>4. ASSUME NEW e \in S, \A i \in 1..n : f[i] # e PROVE FALSE
  <2>1. IsFiniteSet(S \ {e}) /\ Cardinality(S \ {e}) = n - 1
    BY FS_RemoveElement
  <2>2. IsFiniteSet(1..n) /\ Cardinality(1..n) = n
    BY <1>1, FS_Interval
  <2>3. f \in [1..n -> S \ {e}]
    BY <1>3, <1>4
  <2>4. \E x, y \in 1..n : x # y /\ f[x] = f[y]
    <3> HIDE DEF n
    <3>1. n - 1 < n
      BY <1>1
    <3> QED BY <2>1, <2>2, <2>3, <3>1, FS_PigeonHole
  <2> QED BY <1>3, <2>4 DEF IsInjective
<1>5. f \in Seq(S) /\ DOMAIN f = 1..n
  BY <1>1, <1>3
<1> QED BY <1>4, <1>5 DEF f

LEMMA ConcatenatedLen ==
  ASSUME NEW S, NEW a \in Seq(S), NEW b \in Seq(S)
  PROVE  Len(a \o b) = Len(a) + Len(b)
OBVIOUS

LEMMA Prefixed ==
  ASSUME NEW W, NEW f \in Seq(W), Len(f) = 1, NEW s \in Seq(W)
  PROVE  /\ 1 \in DOMAIN (f \o s) /\ (f \o s)[1] = f[1]
         /\ \A k \in DOMAIN s : k + 1 \in DOMAIN (f \o s) /\ (f \o s)[k + 1] = s[k]
         /\ \A i \in DOMAIN (f \o s) : i = 1 \/ (i - 1 \in DOMAIN s /\ (f \o s)[i] = s[i - 1])
<1> DEFINE list == f \o s
<1>1. DOMAIN s = 1..Len(s) /\ Len(s) \in Nat
  OBVIOUS
<1>2. DOMAIN list = 1..Len(list) /\ Len(list) = 1 + Len(s)
  <2>1. list \in Seq(W)
    OBVIOUS
  <2>2. Len(list) = Len(f) + Len(s)
    BY ConcatenatedLen
  <2> HIDE DEF list
  <2> QED BY <2>1, <2>2
<1>3. \A i \in 1..Len(list) : list[i] = IF i <= Len(f) THEN f[i] ELSE s[i - Len(f)]
  BY ConcatenatedAt
<1> HIDE DEF list
<1>4. 1 \in DOMAIN list /\ list[1] = f[1]
  BY <1>1, <1>2, <1>3
<1>5. ASSUME NEW k \in DOMAIN s PROVE k + 1 \in DOMAIN list /\ list[k + 1] = s[k]
  <2>1. k + 1 \in 1..Len(list) /\ ~(k + 1 <= Len(f)) /\ (k + 1) - Len(f) = k
    BY <1>1, <1>2
  <2> QED BY <1>2, <1>3, <2>1
<1>6. ASSUME NEW i \in DOMAIN list, i # 1 PROVE i - 1 \in DOMAIN s /\ list[i] = s[i - 1]
  <2>1. i - 1 \in DOMAIN s /\ ~(i <= Len(f)) /\ i - Len(f) = i - 1
    BY <1>1, <1>2, <1>6
  <2> QED BY <1>2, <1>3, <2>1
<1> QED BY <1>4, <1>5, <1>6 DEF list

\* The list of a start: the Default controller and those of C.
StartList(C) == << <<DefaultDpid, Default>> >> \o SetToSeq({<<ofcs[c], c>> : c \in C})

\* The list s has the controllers that are present, with their dpids, and nothing else.
ListsAll(s) == \A d, c : (\E i \in DOMAIN s : s[i] = <<d, c>>) <=> (c \in Present /\ DpidOf(c) = d)

\* A start lists what is present.
LEMMA StartListsAll ==
  ASSUME ofcs \in [Ofcs -> Dpids \cup {Nothing}], NEW C, C = {c \in Ofcs : HasRow(c)}
  PROVE  ListsAll(StartList(C))
<1> DEFINE list == StartList(C)
           T == {<<ofcs[c], c>> : c \in C}
           first == <<DefaultDpid, Default>>
           s == SetToSeq(T)
<1>1. IsFiniteSet(T)
  BY RowsAreFinite
<1>2. s \in Seq(T) /\ \A e \in T : \E i \in DOMAIN s : s[i] = e
  BY <1>1, AllAreListed
<1>3. \A d, c : <<d, c>> \in T <=> c \in C /\ d = ofcs[c]
  OBVIOUS
<1>4. \A d, c : <<d, c>> = first <=> d = DefaultDpid /\ c = Default
  OBVIOUS
<1>5. list = <<first>> \o s
  BY DEF StartList
<1> HIDE DEF list, s, first, T
<1>6. s \in Seq(T \cup {first}) /\ first \in T \cup {first}
  BY <1>2
<1>7. \A e : (\E i \in DOMAIN list : list[i] = e) <=> (e = first \/ e \in T)
  <2> SUFFICES ASSUME NEW e
               PROVE  (\E i \in DOMAIN list : list[i] = e) <=> (e = first \/ e \in T)
    OBVIOUS
  <2>1. (\E i \in DOMAIN list : list[i] = e) <=> (e = first \/ \E i \in DOMAIN s : s[i] = e)
    <3> DEFINE W == T \cup {first}
               f == <<first>>
    <3>1. f \in Seq(W) /\ Len(f) = 1 /\ f[1] = first /\ s \in Seq(W)
      BY <1>6
    <3>2. list = f \o s
      BY <1>5
    <3> HIDE DEF W, f
    <3>3. /\ 1 \in DOMAIN list /\ list[1] = f[1]
          /\ \A k \in DOMAIN s : k + 1 \in DOMAIN list /\ list[k + 1] = s[k]
          /\ \A i \in DOMAIN list : i = 1 \/ (i - 1 \in DOMAIN s /\ list[i] = s[i - 1])
      <4>1. /\ 1 \in DOMAIN (f \o s) /\ (f \o s)[1] = f[1]
            /\ \A k \in DOMAIN s : k + 1 \in DOMAIN (f \o s) /\ (f \o s)[k + 1] = s[k]
            /\ \A i \in DOMAIN (f \o s) : i = 1 \/ (i - 1 \in DOMAIN s /\ (f \o s)[i] = s[i - 1])
        BY <3>1, Prefixed
      <4> QED BY <3>2, <4>1
    <3>4. ASSUME NEW i \in DOMAIN list, list[i] = e PROVE e = first \/ \E k \in DOMAIN s : s[k] = e
      BY <3>1, <3>3, <3>4
    <3>5. ASSUME NEW k \in DOMAIN s, s[k] = e PROVE \E i \in DOMAIN list : list[i] = e
      BY <3>3, <3>5
    <3> QED BY <3>1, <3>3, <3>4, <3>5
  <2>2. \A i \in DOMAIN s : s[i] \in T
    BY <1>2
  <2>3. (\E i \in DOMAIN s : s[i] = e) <=> e \in T
    BY <1>2, <2>2
  <2> QED BY <2>1, <2>3
<1>8. Default \notin C /\ C = Present \ {Default} /\ \A c \in C : DpidOf(c) = ofcs[c]
  BY DpidsAreTold DEF Present, DpidOf
<1>9. Default \in Present /\ DpidOf(Default) = DefaultDpid
  BY DEF Present, DpidOf
<1>10. ASSUME NEW d, NEW c
       PROVE  (\E i \in DOMAIN list : list[i] = <<d, c>>) <=> (c \in Present /\ DpidOf(c) = d)
  <2> DEFINE e == <<d, c>>
  <2>1. e = first <=> d = DefaultDpid /\ c = Default
    BY <1>4
  <2>2. e \in T <=> c \in C /\ d = ofcs[c]
    BY <1>3
  <2>3. (\E i \in DOMAIN list : list[i] = e) <=> (e = first \/ e \in T)
    <3> HIDE DEF e
    <3> QED BY <1>7
  <2>4. (e = first \/ e \in T) <=> (c \in Present /\ DpidOf(c) = d)
    BY <1>8, <1>9, <2>1, <2>2
  <2> QED BY <2>3, <2>4
<1>11. ListsAll(list)
  BY <1>10 DEF ListsAll
<1> QED BY <1>11 DEF list

\* The next steps of requests that the invariant is about.
ListOps == {"load", "delete_ofc", "forget_ofc"} \cup Leaving

LEMMA OneStillDeletes ==
  ASSUME OneDeletes,
         \A k \in HttpThreads : http'[k].op \in {"forget_ofc"} \cup Leaving =>
           http[k].op \in {"forget_ofc"} \cup Leaving /\ http'[k].ofc = http[k].ofc
  PROVE  OneDeletes'
<1>1. ASSUME NEW h \in HttpThreads, NEW k \in HttpThreads,
             {http'[h].op, http'[k].op} \subseteq {"forget_ofc"} \cup Leaving, http'[h].ofc = http'[k].ofc
      PROVE  h = k
  <2>1. /\ http[h].op \in {"forget_ofc"} \cup Leaving /\ http[k].op \in {"forget_ofc"} \cup Leaving
        /\ http[h].ofc = http[k].ofc
    BY <1>1
  <2> QED BY <2>1 DEF OneDeletes
<1> QED BY <1>1 DEF OneDeletes

LEMMA ListAside ==
  ASSUME OfcTyped, ListInv,
         UNCHANGED <<ofcs, ofcsThread, ofcsThreadDpid, running, ofcsMade, threadless, edited, blurred>>,
         \A k \in Known : NoExit(k)' => NoExit(k),
         \A k \in HttpThreads : {http[k].op, http'[k].op} \cap ListOps # {} => http'[k] = http[k]
  PROVE  ListInv'
<1>1. /\ {"load", "delete_ofc", "forget_ofc", "forget_dpid", "remove_dpid"} \subseteq ListOps
      /\ Leaving \subseteq ListOps
  BY DEF ListOps, Leaving
<1>2. \A S, c : S \subseteq ListOps => (Asked(S, c)' <=> Asked(S, c))
  BY DEF Asked
<1>3. \A S, c, d : S \subseteq ListOps => (AskedFor(S, c, d)' <=> AskedFor(S, c, d))
  BY DEF AskedFor
<1>4. \A d : Listed(d)' = Listed(d)
  BY DEF Listed
<1>5. Present' = Present /\ (\A c : DpidOf(c)' = DpidOf(c)) /\ (\A c : HasRow(c)' <=> HasRow(c))
  BY DEF Present, DpidOf, HasRow
<1>6. ReadRight'
  <2>1. \A k \in HttpThreads : http'[k].op \in {"load", "delete_ofc"} => http'[k] = http[k]
    BY <1>1
  <2> QED BY <1>5, <2>1 DEF ListInv, ReadRight
<1>7. OneDeletes'
  <2>1. \A k \in HttpThreads : http'[k].op \in {"forget_ofc"} \cup Leaving => http'[k] = http[k]
    BY <1>1
  <2> QED BY <2>1, OneStillDeletes DEF ListInv
<1>8. ThreadsHaveRows'
  BY <1>1, <1>2, <1>5 DEF ListInv, ThreadsHaveRows
<1>9. LeaversEnd'
  <2>1. running \subseteq Known
    BY DEF OfcTyped, ControllersTypeOK
  <2> QED BY <1>1, <1>2, <2>1 DEF ListInv, LeaversEnd
<1>10. ListedAreRight'
  <2>1. /\ \A c, d : AskedFor({"forget_ofc"}, c, d)' <=> AskedFor({"forget_ofc"}, c, d)
        /\ \A c, d : AskedFor({"forget_dpid", "remove_dpid"}, c, d)' <=> AskedFor({"forget_dpid", "remove_dpid"}, c, d)
    BY <1>1, <1>3
  <2> QED BY <1>4, <1>5, <2>1 DEF ListInv, ListedAreRight
<1>11. RowsAreListed'
  <2>1. \A c, d : AskedFor({"load"}, c, d)' <=> AskedFor({"load"}, c, d)
    BY <1>1, <1>3
  <2> QED BY <1>4, <1>5, <2>1 DEF ListInv, RowsAreListed
<1> QED BY <1>6, <1>7, <1>8, <1>9, <1>10, <1>11 DEF ListInv

\* A row comes with its request.
LEMMA NewOfControllerList ==
  ASSUME CatInv, OfcTyped, OfcInv, ListInv, NEW h \in HttpThreads, NEW c \in Ofcs, NEW d \in Dpids,
         NewOfController(h, c, d)
  PROVE  ListInv'
<1>1. /\ \A k \in HttpThreads \ {h} : http'[k] = http[k]
      /\ http[h].op = "idle" /\ http'[h] = [op |-> "load", ofc |-> c, dpid |-> d]
      /\ c \notin ofcsMade /\ ofcsMade' = ofcsMade \cup {c}
      /\ \A k \in Ofcs : ofcs'[k] = IF k = c THEN d ELSE ofcs[k]
      /\ UNCHANGED <<ofcsThread, ofcsThreadDpid, running, ofTasks, threadless, edited, blurred>>
  <2>1. http = [k \in HttpThreads |-> http[k]]
    BY DEF CatInv, CatTyped, HttpTyped
  <2> QED BY <2>1 DEF NewOfController, ofcThreads, OfcTyped, ControllersTypeOK
<1>2. Fresh(c) /\ ~HasRow(c) /\ ~Asked({"load", "forget_ofc"}, c) /\ c # Default
  BY <1>1, DpidsAreTold DEF OfcInv, NewAreFresh
<1>3. \A k \in HttpThreads : http[k].op \in {"load", "delete_ofc"} => http[k].ofc \in ofcsMade /\ http[k].ofc # c
  BY <1>1 DEF ListInv, ReadRight
<1>4. \A e : Listed(e)' = Listed(e)
  BY <1>1 DEF Listed
<1>5. \A S, k : Asked(S, k) => Asked(S, k)' \/ "idle" \in S
  BY <1>1 DEF Asked
<1>6. \A S, k, e : AskedFor(S, k, e) => AskedFor(S, k, e)' \/ "idle" \in S
  BY <1>1 DEF AskedFor
<1>7. /\ \A k \in Known \ {c} : (k \in Present' <=> k \in Present) /\ DpidOf(k)' = DpidOf(k)
      /\ DpidOf(c)' = d /\ Present' \subseteq Known /\ Present \subseteq Known
  BY <1>1, <1>2 DEF Present, DpidOf, HasRow, Known
<1>8. ReadRight'
  <2> SUFFICES ASSUME NEW k \in HttpThreads, http'[k].op \in {"load", "delete_ofc"}
               PROVE  LET o == http'[k].ofc
                      IN  o \in ofcsMade' /\ (ofcs'[o] # Nothing =>
                            http'[k].dpid = ofcs'[o] \/ {http'[k].dpid, ofcs'[o]} \subseteq edited')
    BY DEF ReadRight, HasRow
  <2>1. CASE k = h
    BY <1>1, <2>1
  <2>2. CASE k # h
    <3>1. http'[k] = http[k] /\ http[k].ofc \in Ofcs /\ http[k].ofc # c /\ http[k].ofc \in ofcsMade
      BY <1>1, <1>3, <2>2 DEF OfcTyped
    <3> QED BY <1>1, <3>1 DEF ListInv, ReadRight, HasRow
  <2> QED BY <2>1, <2>2
<1>9. OneDeletes'
  <2>1. \A k \in HttpThreads : http'[k].op \in {"forget_ofc"} \cup Leaving => http'[k] = http[k]
    BY <1>1 DEF Leaving
  <2> QED BY <2>1, OneStillDeletes DEF ListInv
<1>10. ThreadsHaveRows'
  <2>1. ofcsThread \subseteq Known /\ c \notin ofcsThread
    BY <1>2 DEF OfcTyped, ControllersTypeOK, Fresh
  <2> QED BY <1>1, <1>5, <1>7, <2>1 DEF ListInv, ThreadsHaveRows
<1>11. LeaversEnd'
  <2>1. \A k : NoExit(k)' <=> NoExit(k)
    BY <1>1 DEF NoExit
  <2> QED BY <1>1, <1>5, <2>1 DEF ListInv, LeaversEnd, Leaving
<1>12. ListedAreRight'
  <2> SUFFICES ASSUME NEW e \in Dpids \ (edited \cup blurred), NEW k \in Listed(e) \ threadless
               PROVE  \/ k \in ofcsThread /\ ((k \in Present' /\ DpidOf(k)' = e) \/ AskedFor({"forget_ofc"}, k, e)')
                      \/ AskedFor({"forget_dpid", "remove_dpid"}, k, e)'
    BY <1>1, <1>4 DEF ListedAreRight
  <2>1. k \in Known
    BY DEF Listed
  <2>2. \/ k \in ofcsThread /\ ((k \in Present /\ DpidOf(k) = e) \/ AskedFor({"forget_ofc"}, k, e))
        \/ AskedFor({"forget_dpid", "remove_dpid"}, k, e)
    BY DEF ListInv, ListedAreRight
  <2>3. AskedFor({"forget_dpid", "remove_dpid"}, k, e) => Asked(Leaving, k)
    BY DEF AskedFor, Asked, Leaving
  <2>4. k # c
    BY <1>2, <2>2, <2>3 DEF Fresh
  <2> QED BY <1>6, <1>7, <2>1, <2>2, <2>4
<1>13. RowsAreListed'
  <2>1. AskedFor({"load"}, c, d)'
    BY <1>1 DEF AskedFor
  <2> QED BY <1>1, <1>4, <1>6, <1>7, <2>1 DEF ListInv, RowsAreListed
<1> QED BY <1>8, <1>9, <1>10, <1>11, <1>12, <1>13 DEF ListInv

\* A row that gets another dpid leaves the old one in the list.
LEMMA EditOfControllerList ==
  ASSUME CatInv, OfcTyped, ListInv, NEW h \in HttpThreads, NEW c \in Ofcs, NEW d \in Dpids,
         EditOfController(h, c, d)
  PROVE  ListInv'
<1>1. /\ UNCHANGED <<ofcsThread, ofcsThreadDpid, running, ofTasks, ofcsMade, threadless, blurred>>
      /\ HasRow(c) /\ ofcs' = [ofcs EXCEPT ![c] = d]
      /\ edited' = IF ofcs[c] = d THEN edited ELSE edited \cup {ofcs[c], d}
      /\ http[h].op = "idle" /\ http'[h].op = "idle" /\ \A k \in HttpThreads \ {h} : http'[k] = http[k]
      /\ ofcs \in [Ofcs -> Dpids \cup {Nothing}]
  <2>1. http = [k \in HttpThreads |-> http[k]]
    BY DEF CatInv, CatTyped, HttpTyped
  <2> QED BY <2>1 DEF EditOfController, ofcThreads, OfcTyped, ControllersTypeOK
<1>2. CASE ofcs[c] = d
  <2>1. UNCHANGED <<ofcs, edited>>
    BY <1>1, <1>2
  <2>2. \A k \in HttpThreads : {http[k].op, http'[k].op} \cap ListOps # {} => http'[k] = http[k]
    BY <1>1 DEF ListOps, Leaving
  <2>3. \A k \in Known : NoExit(k)' => NoExit(k)
    BY <1>1 DEF NoExit
  <2> QED BY <1>1, <2>1, <2>2, <2>3, ListAside
<1>3. CASE ofcs[c] # d
  <2>1. edited' = edited \cup {ofcs[c], d} /\ d # Nothing
    BY <1>1, <1>3, DpidsAreTold
  <2>2. \A k : (HasRow(k) /\ k \in Ofcs) <=> (HasRow(k)' /\ k \in Ofcs)
    BY <1>1, <2>1 DEF HasRow
  <2>3. /\ Present' = Present /\ \A k \in Ofcs \ {c} : ofcs'[k] = ofcs[k]
        /\ ofcs'[c] = d /\ c # Default
    BY <1>1, <2>2, DpidsAreTold DEF Present
  <2>4. \A k \in Known \ {c} : DpidOf(k)' = DpidOf(k)
    BY <2>3 DEF DpidOf, Known
  <2>5. \A S, k : Asked(S, k) => Asked(S, k)' \/ "idle" \in S
    BY <1>1 DEF Asked
  <2>6. \A S, k, e : AskedFor(S, k, e) => AskedFor(S, k, e)' \/ "idle" \in S
    BY <1>1 DEF AskedFor
  <2>7. \A e : Listed(e)' = Listed(e)
    BY <1>1 DEF Listed
  <2>8. ReadRight'
    <3> SUFFICES ASSUME NEW k \in HttpThreads, http'[k].op \in {"load", "delete_ofc"}
                 PROVE  LET o == http'[k].ofc
                        IN  o \in ofcsMade' /\ (ofcs'[o] # Nothing =>
                              http'[k].dpid = ofcs'[o] \/ {http'[k].dpid, ofcs'[o]} \subseteq edited')
      BY DEF ReadRight, HasRow
    <3>1. http'[k] = http[k] /\ http[k].ofc \in ofcsMade /\ http[k].ofc \in Ofcs
      BY <1>1 DEF ListInv, ReadRight, OfcTyped
    <3>2. HasRow(http[k].ofc) => http[k].dpid = ofcs[http[k].ofc] \/ {http[k].dpid, ofcs[http[k].ofc]} \subseteq edited
      BY <3>1 DEF ListInv, ReadRight
    <3>3. CASE http[k].ofc = c
      BY <1>1, <2>1, <2>3, <3>1, <3>2, <3>3 DEF HasRow
    <3>4. CASE http[k].ofc # c
      BY <1>1, <2>1, <2>2, <2>3, <3>1, <3>2, <3>4 DEF HasRow
    <3> QED BY <3>3, <3>4
  <2>9. OneDeletes'
    <3>1. \A k \in HttpThreads : http'[k].op \in {"forget_ofc"} \cup Leaving => http'[k] = http[k]
      BY <1>1 DEF Leaving
    <3> QED BY <3>1, OneStillDeletes DEF ListInv
  <2>10. ThreadsHaveRows'
    BY <1>1, <2>3, <2>5 DEF ListInv, ThreadsHaveRows
  <2>11. LeaversEnd'
    <3>1. \A k : NoExit(k)' <=> NoExit(k)
      BY <1>1 DEF NoExit
    <3> QED BY <1>1, <2>5, <3>1 DEF ListInv, LeaversEnd, Leaving
  <2>12. ListedAreRight'
    <3> SUFFICES ASSUME NEW e \in Dpids \ (edited' \cup blurred), NEW k \in Listed(e) \ threadless
                 PROVE  \/ k \in ofcsThread /\ ((k \in Present /\ DpidOf(k)' = e) \/ AskedFor({"forget_ofc"}, k, e)')
                        \/ AskedFor({"forget_dpid", "remove_dpid"}, k, e)'
      BY <1>1, <2>3, <2>7 DEF ListedAreRight
    <3>1. k \in Known
      BY DEF Listed
    <3>2. \/ k \in ofcsThread /\ ((k \in Present /\ DpidOf(k) = e) \/ AskedFor({"forget_ofc"}, k, e))
          \/ AskedFor({"forget_dpid", "remove_dpid"}, k, e)
      BY <2>1 DEF ListInv, ListedAreRight
    <3>3. k = c => DpidOf(k) # e
      BY <2>1, <2>3 DEF DpidOf
    <3> QED BY <2>4, <2>6, <3>1, <3>2, <3>3
  <2>13. RowsAreListed'
    <3>1. DpidOf(c)' \in edited' /\ Present \subseteq Known
      BY <2>1, <2>3 DEF DpidOf, Present, Known
    <3> QED BY <1>1, <2>1, <2>3, <2>4, <2>6, <2>7, <3>1 DEF ListInv, RowsAreListed
  <2> QED BY <2>8, <2>9, <2>10, <2>11, <2>12, <2>13 DEF ListInv
<1> QED BY <1>2, <1>3

\* The dpid is read with the row.
LEMMA DeleteOfControllerList ==
  ASSUME CatInv, OfcTyped, OfcInv, ListInv, NEW h \in HttpThreads, NEW c \in Ofcs, DeleteOfController(h, c)
  PROVE  ListInv'
<1>1. /\ UNCHANGED <<ofcs, ofcsThread, ofcsThreadDpid, running, ofTasks, ofcsMade, threadless, edited, blurred>>
      /\ HasRow(c) /\ http[h].op = "idle" /\ http'[h] = [op |-> "delete_ofc", ofc |-> c, dpid |-> ofcs[c]]
      /\ \A k \in HttpThreads \ {h} : http'[k] = http[k]
  <2>1. http = [k \in HttpThreads |-> http[k]]
    BY DEF CatInv, CatTyped, HttpTyped
  <2> QED BY <2>1 DEF DeleteOfController, ofcVars
<1>2. c \in ofcsMade
  BY <1>1 DEF OfcInv, NewAreFresh
<1>3. \A S, k : Asked(S, k) => Asked(S, k)' \/ "idle" \in S
  BY <1>1 DEF Asked
<1>4. \A S, k, e : AskedFor(S, k, e) => AskedFor(S, k, e)' \/ "idle" \in S
  BY <1>1 DEF AskedFor
<1>5. \A e : Listed(e)' = Listed(e)
  BY <1>1 DEF Listed
<1>6. Present' = Present /\ \A k : DpidOf(k)' = DpidOf(k)
  BY <1>1 DEF Present, HasRow, DpidOf
<1>7. ReadRight'
  BY <1>1, <1>2 DEF ListInv, ReadRight, HasRow
<1>8. OneDeletes'
  <2>1. \A k \in HttpThreads : http'[k].op \in {"forget_ofc"} \cup Leaving => http'[k] = http[k]
    BY <1>1 DEF Leaving
  <2> QED BY <2>1, OneStillDeletes DEF ListInv
<1>9. ThreadsHaveRows'
  BY <1>1, <1>3, <1>6 DEF ListInv, ThreadsHaveRows
<1>10. LeaversEnd'
  <2>1. \A k : NoExit(k)' <=> NoExit(k)
    BY <1>1 DEF NoExit
  <2> QED BY <1>1, <1>3, <2>1 DEF ListInv, LeaversEnd, Leaving
<1>11. ListedAreRight'
  BY <1>1, <1>4, <1>5, <1>6 DEF ListInv, ListedAreRight
<1>12. RowsAreListed'
  BY <1>1, <1>4, <1>5, <1>6 DEF ListInv, RowsAreListed
<1> QED BY <1>7, <1>8, <1>9, <1>10, <1>11, <1>12 DEF ListInv


\* An entry comes with the thread, for a row with its dpid.
LEMMA CreateOfcTaskList ==
  ASSUME CatInv, OfcTyped, ListInv, NEW h \in HttpThreads, CreateOfcTask(h)
  PROVE  ListInv'
<1> DEFINE c == http[h].ofc
           d == http[h].dpid
<1>1. /\ \A k \in HttpThreads \ {h} : http'[k] = http[k]
      /\ http[h].op = "load" /\ c \in Ofcs /\ http'[h] = Idle
      /\ threadless \subseteq threadless'
      /\ UNCHANGED <<ofcs, ofTasks, ofcsMade, edited, blurred>>
      /\ \/ /\ ofcsThread' = ofcsThread \cup {c} /\ running' = running \cup {c}
            /\ ofcsThreadDpid' = Append(ofcsThreadDpid, <<d, c>>)
            /\ HasRow(c) \/ c \in threadless'
         \/ /\ c \in threadless'
            /\ UNCHANGED <<ofcsThread, running, ofcsThreadDpid>>
  <2>1. http = [k \in HttpThreads |-> http[k]] /\ Typed(OfcOps, OfcRequests)
    BY DEF CatInv, CatTyped, HttpTyped, OfcTyped
  <2>2. http[h].op = "load"
    BY DEF CreateOfcTask
  <2>3. http[h].ofc \in Ofcs
    BY <2>1, <2>2, OfcRequestShape
  <2>4. \A k \in HttpThreads \ {h} : http'[k] = http[k]
    BY <2>1 DEF CreateOfcTask
  <2> QED BY <2>1, <2>2, <2>3, <2>4 DEF CreateOfcTask, ofcRows
<1>2. Present' = Present /\ (\A k : DpidOf(k)' = DpidOf(k)) /\ c \in Known /\ c # Default
  BY <1>1, DpidsAreTold DEF Present, HasRow, DpidOf, Known
<1>3. \A S, k : Asked(S, k) => Asked(S, k)' \/ "load" \in S
  BY <1>1 DEF Asked
<1>4. \A S, k, e : AskedFor(S, k, e) => AskedFor(S, k, e)' \/ ("load" \in S /\ k = c /\ e = d)
  BY <1>1 DEF AskedFor
<1>5. \A e : /\ Listed(e) \subseteq Listed(e)'
             /\ \A k \in Listed(e)' \ Listed(e) : k = c /\ e = d /\ c \in ofcsThread'
             /\ e = d => c \in Listed(e)' \/ c \in threadless'
  <2>1. CASE UNCHANGED ofcsThreadDpid /\ c \in threadless'
    BY <2>1 DEF Listed
  <2>2. CASE ofcsThreadDpid' = Append(ofcsThreadDpid, <<d, c>>) /\ c \in ofcsThread'
    <3> DEFINE s == ofcsThreadDpid
               p == <<d, c>>
               t == Append(s, p)
    <3>1. s \in Seq(Dpids \X Known)
      BY DEF OfcTyped
    <3> HIDE DEF p
    <3>2. /\ DOMAIN t = DOMAIN s \cup {Len(s) + 1} /\ \A i \in DOMAIN s : t[i] = s[i]
          /\ t[Len(s) + 1] = p
      BY <3>1, Appended
    <3> HIDE DEF t
    <3>3. ofcsThreadDpid' = t
      BY <2>2 DEF t, p
    <3>4. \A e, k : p = <<e, k>> <=> e = d /\ k = c
      BY DEF p
    <3>5. \A e, k : (\E i \in DOMAIN t : t[i] = <<e, k>>) <=> ((\E i \in DOMAIN s : s[i] = <<e, k>>) \/ (e = d /\ k = c))
      <4> SUFFICES ASSUME NEW e, NEW k
                   PROVE  (\E i \in DOMAIN t : t[i] = <<e, k>>) <=> ((\E i \in DOMAIN s : s[i] = <<e, k>>) \/ (e = d /\ k = c))
        OBVIOUS
      <4>1. p = <<e, k>> <=> e = d /\ k = c
        BY <3>4
      <4> DEFINE q == <<e, k>>
      <4> HIDE DEF q
      <4>2. (\E i \in DOMAIN t : t[i] = q) <=> ((\E i \in DOMAIN s : s[i] = q) \/ p = q)
        BY <3>2
      <4> QED BY <4>1, <4>2 DEF q
    <3>6. \A e : Listed(e)' = Listed(e) \cup {k \in {c} : e = d}
      BY <1>2, <3>3, <3>5 DEF Listed
    <3> QED BY <2>2, <3>6
  <2> QED BY <1>1, <2>1, <2>2
<1>6. ReadRight'
  <2>1. \A k \in HttpThreads : http'[k].op \in {"load", "delete_ofc"} => http'[k] = http[k]
    BY <1>1
  <2> QED BY <1>1, <2>1 DEF ListInv, ReadRight, HasRow
<1>7. OneDeletes'
  <2>1. \A k \in HttpThreads : http'[k].op \in {"forget_ofc"} \cup Leaving => http'[k] = http[k]
    BY <1>1 DEF Leaving
  <2> QED BY <2>1, OneStillDeletes DEF ListInv
<1>8. ThreadsHaveRows'
  <2>1. HasRow(c) => c \in Present
    BY <1>1 DEF Present
  <2> QED BY <1>1, <1>2, <1>3, <2>1 DEF ListInv, ThreadsHaveRows
<1>9. LeaversEnd'
  <2>1. \A k : NoExit(k)' <=> NoExit(k)
    BY <1>1 DEF NoExit
  <2> QED BY <1>1, <1>3, <2>1 DEF ListInv, LeaversEnd, Leaving
<1>10. ListedAreRight'
  <2> SUFFICES ASSUME NEW e \in Dpids \ (edited \cup blurred), NEW k \in Listed(e)' \ threadless'
               PROVE  \/ k \in ofcsThread' /\ ((k \in Present /\ DpidOf(k) = e) \/ AskedFor({"forget_ofc"}, k, e)')
                      \/ AskedFor({"forget_dpid", "remove_dpid"}, k, e)'
    BY <1>1, <1>2 DEF ListedAreRight
  <2>1. CASE k \in Listed(e)
    <3>1. \/ k \in ofcsThread /\ ((k \in Present /\ DpidOf(k) = e) \/ AskedFor({"forget_ofc"}, k, e))
          \/ AskedFor({"forget_dpid", "remove_dpid"}, k, e)
      BY <1>1, <2>1 DEF ListInv, ListedAreRight
    <3> QED BY <1>1, <1>4, <3>1
  <2>2. CASE k \notin Listed(e)
    <3>1. k = c /\ e = d /\ c \in ofcsThread'
      BY <1>5, <2>2
    <3>2. HasRow(c) /\ ofcs[c] = d
      BY <1>1, <3>1 DEF ListInv, ReadRight
    <3> QED BY <1>1, <1>2, <3>1, <3>2 DEF Present, DpidOf
  <2> QED BY <2>1, <2>2
<1>11. RowsAreListed'
  <2> SUFFICES ASSUME NEW k \in Present \ threadless', DpidOf(k) \notin edited \cup blurred
               PROVE  k \in Listed(DpidOf(k))' \/ AskedFor({"load"}, k, DpidOf(k))'
    BY <1>1, <1>2 DEF RowsAreListed
  <2>1. k \in Listed(DpidOf(k)) \/ AskedFor({"load"}, k, DpidOf(k))
    BY <1>1 DEF ListInv, RowsAreListed
  <2> PICK e : e = DpidOf(k)
    OBVIOUS
  <2>2. AskedFor({"load"}, k, e) => AskedFor({"load"}, k, e)' \/ (k = c /\ e = d)
    BY <1>4
  <2>3. Listed(e) \subseteq Listed(e)' /\ (e = d => c \in Listed(e)' \/ c \in threadless')
    BY <1>5
  <2> QED BY <1>2, <2>1, <2>2, <2>3
<1> QED BY <1>6, <1>7, <1>8, <1>9, <1>10, <1>11 DEF ListInv

\* The request that deletes a row is the only one, and knows the dpid it had.
LEMMA DeleteOfcList ==
  ASSUME CatInv, OfcTyped, OfcInv, ListInv, NEW h \in HttpThreads, DeleteOfc(h)
  PROVE  ListInv'
<1> DEFINE c == http[h].ofc
           d == http[h].dpid
<1>1. /\ \A k \in HttpThreads \ {h} : http'[k] = http[k]
      /\ http[h].op = "delete_ofc" /\ c \in Ofcs
      /\ \/ http'[h] = Idle /\ UNCHANGED ofcs
         \/ /\ http'[h] = [op |-> "forget_ofc", ofc |-> c, dpid |-> d] /\ HasRow(c)
            /\ ofcs' = [ofcs EXCEPT ![c] = Nothing]
      /\ ofcs \in [Ofcs -> Dpids \cup {Nothing}]
      /\ UNCHANGED <<ofcsThread, ofcsThreadDpid, running, ofTasks, ofcsMade, threadless, edited, blurred>>
  <2>1. http = [k \in HttpThreads |-> http[k]] /\ Typed(OfcOps, OfcRequests)
    BY DEF CatInv, CatTyped, HttpTyped, OfcTyped
  <2>2. http[h].op = "delete_ofc"
    BY DEF DeleteOfc
  <2>3. http[h].ofc \in Ofcs /\ http[h] = [op |-> "delete_ofc", ofc |-> http[h].ofc, dpid |-> http[h].dpid]
    BY <2>1, <2>2, OfcRequestShape
  <2>4. [http[h] EXCEPT !.op = "forget_ofc"] = [op |-> "forget_ofc", ofc |-> http[h].ofc, dpid |-> http[h].dpid]
    BY <2>3
  <2>5. \A k \in HttpThreads \ {h} : http'[k] = http[k]
    BY <2>1 DEF DeleteOfc
  <2>6. ofcs \in [Ofcs -> Dpids \cup {Nothing}]
    BY DEF OfcTyped, ControllersTypeOK, Known
  <2> QED BY <2>1, <2>2, <2>3, <2>4, <2>5, <2>6 DEF DeleteOfc, ofcThreads
<1>2. \A S, k : Asked(S, k) => Asked(S, k)' \/ "delete_ofc" \in S
  BY <1>1 DEF Asked
<1>3. \A S, k, e : AskedFor(S, k, e) => AskedFor(S, k, e)' \/ "delete_ofc" \in S
  BY <1>1 DEF AskedFor
<1>4. (\A e : Listed(e)' = Listed(e)) /\ (\A k : NoExit(k)' <=> NoExit(k))
  BY <1>1 DEF Listed, NoExit
<1>5. CASE http'[h] = Idle /\ UNCHANGED ofcs
  <2>1. Present' = Present /\ \A k : DpidOf(k)' = DpidOf(k)
    BY <1>5 DEF Present, HasRow, DpidOf
  <2>2. ReadRight'
    <3>1. \A k \in HttpThreads : http'[k].op \in {"load", "delete_ofc"} => http'[k] = http[k]
      BY <1>1, <1>5
    <3> QED BY <1>1, <1>5, <3>1 DEF ListInv, ReadRight, HasRow
  <2>3. OneDeletes'
    <3>1. \A k \in HttpThreads : http'[k].op \in {"forget_ofc"} \cup Leaving => http'[k] = http[k]
      BY <1>1, <1>5 DEF Leaving
    <3> QED BY <3>1, OneStillDeletes DEF ListInv
  <2>4. ThreadsHaveRows' /\ LeaversEnd'
    BY <1>1, <1>2, <1>4, <2>1 DEF ListInv, ThreadsHaveRows, LeaversEnd, Leaving
  <2>5. ListedAreRight'
    BY <1>1, <1>3, <1>4, <2>1 DEF ListInv, ListedAreRight
  <2>6. RowsAreListed'
    BY <1>1, <1>3, <1>4, <2>1 DEF ListInv, RowsAreListed
  <2> QED BY <2>2, <2>3, <2>4, <2>5, <2>6 DEF ListInv
<1>6. CASE /\ http'[h] = [op |-> "forget_ofc", ofc |-> c, dpid |-> d] /\ HasRow(c)
           /\ ofcs' = [ofcs EXCEPT ![c] = Nothing]
  <2>1. ofcs'[c] = Nothing /\ \A k \in Ofcs \ {c} : ofcs'[k] = ofcs[k]
    BY <1>1, <1>6
  <2>2. Present' = Present \ {c} /\ c # Default /\ c \in Present
    BY <1>1, <1>6, <2>1, DpidsAreTold DEF Present, HasRow
  <2>3. \A k \in Known \ {c} : DpidOf(k)' = DpidOf(k)
    BY <2>1 DEF DpidOf, Known
  <2>4. ReadRight'
    <3> SUFFICES ASSUME NEW k \in HttpThreads, http'[k].op \in {"load", "delete_ofc"}
                 PROVE  LET o == http'[k].ofc
                        IN  o \in ofcsMade' /\ (ofcs'[o] # Nothing =>
                              http'[k].dpid = ofcs'[o] \/ {http'[k].dpid, ofcs'[o]} \subseteq edited')
      BY DEF ReadRight, HasRow
    <3>1. http'[k] = http[k] /\ http[k].op \in {"load", "delete_ofc"}
      BY <1>1, <1>6
    <3>2. http[k].ofc \in ofcsMade /\ http[k].ofc \in Ofcs
      BY <3>1 DEF ListInv, ReadRight, OfcTyped
    <3>3. HasRow(http[k].ofc) => http[k].dpid = ofcs[http[k].ofc] \/ {http[k].dpid, ofcs[http[k].ofc]} \subseteq edited
      BY <3>1 DEF ListInv, ReadRight
    <3> QED BY <1>1, <2>1, <3>1, <3>2, <3>3 DEF HasRow
  <2>5. OneDeletes'
    <3>1. \A k \in HttpThreads \ {h} : http'[k].op \in {"forget_ofc"} \cup Leaving => http'[k].ofc # c
      BY <1>1, <1>6 DEF OfcInv, DeletedHaveNoRow
    <3>2. ASSUME NEW i \in HttpThreads, NEW k \in HttpThreads, i # k,
                 {http'[i].op, http'[k].op} \subseteq {"forget_ofc"} \cup Leaving, http'[i].ofc = http'[k].ofc
          PROVE  FALSE
      <4>1. i # h /\ k # h
        BY <1>6, <3>1, <3>2
      <4>2. http'[i] = http[i] /\ http'[k] = http[k]
        BY <1>1, <4>1
      <4> QED BY <3>2, <4>2 DEF ListInv, OneDeletes
    <3> QED BY <3>2 DEF OneDeletes
  <2>6. ThreadsHaveRows'
    <3>1. Asked({"forget_ofc"}, c)'
      BY <1>6 DEF Asked
    <3>2. \A k : Asked({"forget_ofc"}, k) => Asked({"forget_ofc"}, k)'
      BY <1>2
    <3> QED BY <1>1, <1>6, <2>2, <3>1, <3>2 DEF ListInv, ThreadsHaveRows
  <2>7. LeaversEnd'
    BY <1>1, <1>2, <1>4 DEF ListInv, LeaversEnd, Leaving
  <2>8. ListedAreRight'
    <3> SUFFICES ASSUME NEW e \in Dpids \ (edited \cup blurred), NEW k \in Listed(e) \ threadless
                 PROVE  \/ k \in ofcsThread /\ ((k \in Present' /\ DpidOf(k)' = e) \/ AskedFor({"forget_ofc"}, k, e)')
                        \/ AskedFor({"forget_dpid", "remove_dpid"}, k, e)'
      BY <1>1, <1>4 DEF ListedAreRight
    <3>1. k \in Known
      BY DEF Listed
    <3>2. \/ k \in ofcsThread /\ ((k \in Present /\ DpidOf(k) = e) \/ AskedFor({"forget_ofc"}, k, e))
          \/ AskedFor({"forget_dpid", "remove_dpid"}, k, e)
      BY DEF ListInv, ListedAreRight
    <3>3. ASSUME k = c, DpidOf(k) = e PROVE AskedFor({"forget_ofc"}, k, e)'
      <4>1. ofcs[c] = e
        BY <2>2, <3>3 DEF DpidOf
      <4>2. d = e
        BY <1>1, <1>6, <4>1 DEF ListInv, ReadRight
      <4> QED BY <1>6, <3>3, <4>2 DEF AskedFor
    <3> QED BY <1>3, <2>2, <2>3, <3>1, <3>2, <3>3
  <2>9. RowsAreListed'
    <3>1. Present \subseteq Known
      BY DEF Present, Known
    <3> QED BY <1>1, <1>3, <1>4, <2>2, <2>3, <3>1 DEF ListInv, RowsAreListed
  <2> QED BY <2>4, <2>5, <2>6, <2>7, <2>8, <2>9 DEF ListInv
<1> QED BY <1>1, <1>5, <1>6

\* A thread that is taken out has an entry to be removed, if it has any.
LEMMA ForgetOfcList ==
  ASSUME CatInv, OfcTyped, OfcInv, ListInv, NEW h \in HttpThreads, ForgetOfc(h)
  PROVE  ListInv'
<1>1. PICK c, d : c = http[h].ofc /\ d = http[h].dpid
  OBVIOUS
<1>2. /\ \A k \in HttpThreads \ {h} : http'[k] = http[k]
      /\ http[h].op = "forget_ofc" /\ c \in Ofcs
      /\ \/ http'[h] = Idle /\ UNCHANGED ofcsThread /\ c \notin ofcsThread
         \/ /\ http'[h] = [op |-> "forget_dpid", ofc |-> c, dpid |-> d, at |-> 1]
            /\ c \in ofcsThread /\ ofcsThread' = ofcsThread \ {c}
      /\ UNCHANGED <<ofcs, ofcsThreadDpid, running, ofTasks, ofcsMade, threadless, edited, blurred>>
  <2>1. http = [k \in HttpThreads |-> http[k]] /\ Typed(OfcOps, OfcRequests)
    BY DEF CatInv, CatTyped, HttpTyped, OfcTyped
  <2>2. http[h].op = "forget_ofc"
    BY DEF ForgetOfc
  <2>3. http[h].ofc \in Ofcs
    BY <2>1, <2>2, OfcRequestShape
  <2>4. \A k \in HttpThreads \ {h} : http'[k] = http[k]
    BY <2>1 DEF ForgetOfc
  <2> QED BY <1>1, <2>1, <2>2, <2>3, <2>4 DEF ForgetOfc, ofcRows
<1>3. \A S, k : Asked(S, k) => Asked(S, k)' \/ ("forget_ofc" \in S /\ k = c)
  BY <1>1, <1>2 DEF Asked
<1>4. \A S, k, e : AskedFor(S, k, e) => AskedFor(S, k, e)' \/ ("forget_ofc" \in S /\ k = c)
  BY <1>1, <1>2 DEF AskedFor
<1>5. (\A e : Listed(e)' = Listed(e)) /\ (\A k : NoExit(k)' <=> NoExit(k))
  BY <1>2 DEF Listed, NoExit
<1>6. Present' = Present /\ (\A k : DpidOf(k)' = DpidOf(k)) /\ c \notin Present
  BY <1>1, <1>2, DpidsAreTold DEF OfcInv, DeletedHaveNoRow, Present, HasRow, DpidOf
<1>7. ReadRight'
  <2>1. \A k \in HttpThreads : http'[k].op \in {"load", "delete_ofc"} => http'[k] = http[k]
    BY <1>2
  <2> QED BY <1>2, <2>1 DEF ListInv, ReadRight, HasRow
<1>8. OneDeletes'
  <2>1. \A k \in HttpThreads : http'[k].op \in {"forget_ofc"} \cup Leaving =>
          http[k].op \in {"forget_ofc"} \cup Leaving /\ http'[k].ofc = http[k].ofc
    BY <1>1, <1>2 DEF Leaving
  <2> QED BY <2>1, OneStillDeletes DEF ListInv
<1>9. ThreadsHaveRows'
  <2>1. c \notin ofcsThread' /\ ofcsThread' \subseteq ofcsThread
    BY <1>2
  <2>2. \A k : Asked({"forget_ofc"}, k) => Asked({"forget_ofc"}, k)' \/ k = c
    BY <1>3
  <2> QED BY <1>2, <1>6, <2>1, <2>2 DEF ListInv, ThreadsHaveRows
<1>10. LeaversEnd'
  <2>1. c \in ofcsThread => Asked(Leaving, c)' /\ ofcsThread' = ofcsThread \ {c}
    BY <1>2 DEF Asked, Leaving
  <2>2. \A k : Asked(Leaving, k) => Asked(Leaving, k)'
    BY <1>3 DEF Leaving
  <2>3. ofcsThread \subseteq ofcsThread' \cup {c} /\ (c \notin ofcsThread => ofcsThread' = ofcsThread)
    BY <1>2
  <2> QED BY <1>2, <1>5, <2>1, <2>2, <2>3 DEF ListInv, LeaversEnd
<1>11. ListedAreRight'
  <2> SUFFICES ASSUME NEW e \in Dpids \ (edited \cup blurred), NEW k \in Listed(e) \ threadless
               PROVE  \/ k \in ofcsThread' /\ ((k \in Present /\ DpidOf(k) = e) \/ AskedFor({"forget_ofc"}, k, e)')
                      \/ AskedFor({"forget_dpid", "remove_dpid"}, k, e)'
    BY <1>2, <1>5, <1>6 DEF ListedAreRight
  <2>1. \/ k \in ofcsThread /\ ((k \in Present /\ DpidOf(k) = e) \/ AskedFor({"forget_ofc"}, k, e))
        \/ AskedFor({"forget_dpid", "remove_dpid"}, k, e)
    BY DEF ListInv, ListedAreRight
  <2>2. AskedFor({"forget_dpid", "remove_dpid"}, k, e) => AskedFor({"forget_dpid", "remove_dpid"}, k, e)'
    BY <1>4
  <2>3. CASE k # c
    <3>1. AskedFor({"forget_ofc"}, k, e) => AskedFor({"forget_ofc"}, k, e)'
      BY <1>4, <2>3
    <3>2. k \in ofcsThread => k \in ofcsThread'
      BY <1>2, <2>3
    <3> QED BY <2>1, <2>2, <3>1, <3>2
  <2>4. CASE k = c
    <3>1. ASSUME c \in ofcsThread, AskedFor({"forget_ofc"}, c, e)
          PROVE  AskedFor({"forget_dpid", "remove_dpid"}, c, e)'
      <4>1. PICK g \in HttpThreads : http[g].op \in {"forget_ofc"} /\ http[g].ofc = c /\ http[g].dpid = e
        BY <3>1 DEF AskedFor
      <4>2. g = h
        BY <1>1, <1>2, <4>1 DEF ListInv, OneDeletes
      <4>3. d = e /\ http'[h] = [op |-> "forget_dpid", ofc |-> c, dpid |-> d, at |-> 1]
        BY <1>1, <1>2, <3>1, <4>1, <4>2
      <4> QED BY <4>3 DEF AskedFor
    <3> QED BY <1>6, <2>1, <2>2, <2>4, <3>1
  <2> QED BY <2>3, <2>4
<1>12. RowsAreListed'
  <2>1. \A k, e : AskedFor({"load"}, k, e) => AskedFor({"load"}, k, e)'
    BY <1>4
  <2> QED BY <1>2, <1>5, <1>6, <2>1 DEF ListInv, RowsAreListed
<1> QED BY <1>7, <1>8, <1>9, <1>10, <1>11, <1>12 DEF ListInv

\* The loop ends when it comes to the end of the list; if it has missed the
\* entry, the dpid is blurred.
LEMMA ForgetDpidList ==
  ASSUME CatInv, OfcTyped, OfcInv, ListInv, NEW h \in HttpThreads, ForgetDpid(h)
  PROVE  ListInv'
<1>1. PICK c, d : c = http[h].ofc /\ d = http[h].dpid
  OBVIOUS
<1>2. /\ \A k \in HttpThreads \ {h} : http'[k] = http[k]
      /\ http[h].op = "forget_dpid" /\ http'[h].op \in Leaving /\ http'[h].ofc = c
      /\ blurred \subseteq blurred'
      /\ \/ http'[h].op \in {"forget_dpid", "remove_dpid"} /\ http'[h].dpid = d
         \/ c \in Listed(d) => d \in blurred'
      /\ UNCHANGED <<ofcs, ofcsThread, ofcsThreadDpid, running, ofTasks, ofcsMade, threadless, edited>>
  <2>1. http = [k \in HttpThreads |-> http[k]] /\ Typed(OfcOps, OfcRequests)
    BY DEF CatInv, CatTyped, HttpTyped, OfcTyped
  <2>2. http[h].op = "forget_dpid"
    BY DEF ForgetDpid
  <2>3. http[h].ofc \in Ofcs /\ http[h] = [op |-> "forget_dpid", ofc |-> http[h].ofc, dpid |-> http[h].dpid, at |-> http[h].at]
    BY <2>1, <2>2, OfcRequestShape
  <2>4. \A k \in HttpThreads \ {h} : http'[k] = http[k]
    BY <2>1 DEF ForgetDpid
  <2>5. [http[h] EXCEPT !.at = http[h].at + 1] =
          [op |-> "forget_dpid", ofc |-> http[h].ofc, dpid |-> http[h].dpid, at |-> http[h].at + 1]
    BY <2>3
  <2> QED BY <1>1, <2>1, <2>2, <2>3, <2>4, <2>5 DEF ForgetDpid, ofcRows, ofcThreads, Leaving
<1>3. \A S, k : Asked(S, k) => Asked(S, k)' \/ "forget_dpid" \in S
  BY <1>2 DEF Asked
<1>4. Asked(Leaving, c)'
  BY <1>2 DEF Asked
<1>5. \A S, k, e : AskedFor(S, k, e) => AskedFor(S, k, e)' \/ ("forget_dpid" \in S /\ k = c /\ e = d)
  BY <1>1, <1>2 DEF AskedFor
<1>6. (\A e : Listed(e)' = Listed(e)) /\ (\A k : NoExit(k)' <=> NoExit(k))
  BY <1>2 DEF Listed, NoExit
<1>7. Present' = Present /\ (\A k : DpidOf(k)' = DpidOf(k))
  BY <1>2 DEF Present, HasRow, DpidOf
<1>8. ReadRight'
  <2>1. \A k \in HttpThreads : http'[k].op \in {"load", "delete_ofc"} => http'[k] = http[k]
    BY <1>2 DEF Leaving
  <2> QED BY <1>2, <2>1 DEF ListInv, ReadRight, HasRow
<1>9. OneDeletes'
  <2>1. \A k \in HttpThreads : http'[k].op \in {"forget_ofc"} \cup Leaving =>
          http[k].op \in {"forget_ofc"} \cup Leaving /\ http'[k].ofc = http[k].ofc
    BY <1>1, <1>2 DEF Leaving
  <2> QED BY <2>1, OneStillDeletes DEF ListInv
<1>10. ThreadsHaveRows'
  <2>1. \A k : Asked({"forget_ofc"}, k) => Asked({"forget_ofc"}, k)'
    BY <1>3
  <2> QED BY <1>2, <1>7, <2>1 DEF ListInv, ThreadsHaveRows
<1>11. LeaversEnd'
  <2>1. \A k : Asked(Leaving, k) => Asked(Leaving, k)'
    BY <1>1, <1>2, <1>4 DEF Asked
  <2> QED BY <1>2, <1>6, <2>1 DEF ListInv, LeaversEnd
<1>12. ListedAreRight'
  <2> SUFFICES ASSUME NEW e \in Dpids \ (edited \cup blurred'), NEW k \in Listed(e) \ threadless
               PROVE  \/ k \in ofcsThread /\ ((k \in Present /\ DpidOf(k) = e) \/ AskedFor({"forget_ofc"}, k, e)')
                      \/ AskedFor({"forget_dpid", "remove_dpid"}, k, e)'
    BY <1>2, <1>6, <1>7 DEF ListedAreRight
  <2>1. \/ k \in ofcsThread /\ ((k \in Present /\ DpidOf(k) = e) \/ AskedFor({"forget_ofc"}, k, e))
        \/ AskedFor({"forget_dpid", "remove_dpid"}, k, e)
    BY <1>2 DEF ListInv, ListedAreRight
  <2>2. AskedFor({"forget_ofc"}, k, e) => AskedFor({"forget_ofc"}, k, e)'
    BY <1>5
  <2>3. AskedFor({"forget_dpid", "remove_dpid"}, k, e) => AskedFor({"forget_dpid", "remove_dpid"}, k, e)'
    <3>1. CASE k = c /\ e = d
      <4>1. http'[h].op \in {"forget_dpid", "remove_dpid"} /\ http'[h].dpid = d
        BY <1>2, <3>1
      <4> QED BY <1>2, <3>1, <4>1 DEF AskedFor
    <3> QED BY <1>5, <3>1
  <2> QED BY <2>1, <2>2, <2>3
<1>13. RowsAreListed'
  <2>1. \A k, e : AskedFor({"load"}, k, e) => AskedFor({"load"}, k, e)'
    BY <1>5
  <2> QED BY <1>2, <1>6, <1>7, <2>1 DEF ListInv, RowsAreListed
<1> QED BY <1>8, <1>9, <1>10, <1>11, <1>12, <1>13 DEF ListInv

\* The entry that is removed is the thread's own, or the dpid is blurred.
LEMMA RemoveDpidList ==
  ASSUME CatInv, OfcTyped, OfcInv, ListInv, NEW h \in HttpThreads, RemoveDpid(h)
  PROVE  ListInv'
<1>1. PICK c, d, l : c = http[h].ofc /\ d = http[h].dpid /\ l = http[h].listed
  OBVIOUS
<1>2. /\ \A k \in HttpThreads \ {h} : http'[k] = http[k]
      /\ http[h].op = "remove_dpid" /\ c \in Ofcs
      /\ \/ http'[h] = Idle /\ UNCHANGED <<ofcsThreadDpid, blurred>> /\ threadless' = threadless \cup {c}
         \/ /\ http'[h] = [op |-> "forget_dpid", ofc |-> c, dpid |-> d, at |-> http[h].at]
            /\ \E j \in DOMAIN ofcsThreadDpid :
                 ofcsThreadDpid[j] = <<d, l>> /\ ofcsThreadDpid' = RemoveAt(ofcsThreadDpid, j)
            /\ blurred \subseteq blurred' /\ (l = c \/ d \in blurred')
            /\ UNCHANGED threadless
      /\ ofcsThreadDpid \in Seq(Dpids \X Known)
      /\ UNCHANGED <<ofcs, ofcsThread, running, ofTasks, ofcsMade, edited>>
  <2>1. http = [k \in HttpThreads |-> http[k]] /\ Typed(OfcOps, OfcRequests) /\ ofcsThreadDpid \in Seq(Dpids \X Known)
    BY DEF CatInv, CatTyped, HttpTyped, OfcTyped
  <2>2. http[h].op = "remove_dpid"
    BY DEF RemoveDpid
  <2>3. http[h].ofc \in Ofcs
    BY <2>1, <2>2, OfcRequestShape
  <2>4. \A k \in HttpThreads \ {h} : http'[k] = http[k]
    BY <2>1 DEF RemoveDpid
  <2> QED BY <1>1, <2>1, <2>2, <2>3, <2>4 DEF RemoveDpid, ofcRows
<1>3. \A S, k : Asked(S, k) => Asked(S, k)' \/ "remove_dpid" \in S
  BY <1>2 DEF Asked
<1>4. \A k : Asked(Leaving, k) => Asked(Leaving, k)' \/ k \in threadless'
  BY <1>1, <1>2 DEF Asked, Leaving
<1>5. \A S, k, e : AskedFor(S, k, e) => AskedFor(S, k, e)' \/ "remove_dpid" \in S
  BY <1>2 DEF AskedFor
<1>6. \A k, e : AskedFor({"forget_dpid", "remove_dpid"}, k, e) =>
        AskedFor({"forget_dpid", "remove_dpid"}, k, e)' \/ k \in threadless'
  BY <1>1, <1>2 DEF AskedFor
<1>7. Present' = Present /\ (\A k : DpidOf(k)' = DpidOf(k)) /\ (\A k : NoExit(k)' <=> NoExit(k))
  BY <1>2 DEF Present, HasRow, DpidOf, NoExit
<1>8. threadless \subseteq threadless' /\ blurred \subseteq blurred'
  BY <1>2
<1>9. \A e : Listed(e)' \subseteq Listed(e)
  <2>1. CASE UNCHANGED ofcsThreadDpid
    BY <2>1 DEF Listed
  <2>2. ASSUME NEW j \in DOMAIN ofcsThreadDpid, ofcsThreadDpid' = RemoveAt(ofcsThreadDpid, j)
        PROVE  \A e : Listed(e)' \subseteq Listed(e)
    <3>1. \A k \in DOMAIN ofcsThreadDpid' : \E i \in DOMAIN ofcsThreadDpid : ofcsThreadDpid'[k] = ofcsThreadDpid[i]
      BY <1>2, <2>2, NothingIsAdded
    <3> QED BY <3>1 DEF Listed, Known
  <2> QED BY <1>2, <2>1, <2>2
<1>10. \A e, k : k \in Listed(e) => k \in Listed(e)' \/ e \in blurred' \/ k = c
  <2>1. CASE UNCHANGED ofcsThreadDpid
    BY <2>1 DEF Listed
  <2>2. ASSUME NEW j \in DOMAIN ofcsThreadDpid, ofcsThreadDpid[j] = <<d, l>>, l = c \/ d \in blurred',
               ofcsThreadDpid' = RemoveAt(ofcsThreadDpid, j),
               NEW e, NEW k \in Listed(e), e \notin blurred', k # c
        PROVE  k \in Listed(e)'
    <3>1. PICK i \in DOMAIN ofcsThreadDpid : ofcsThreadDpid[i] = <<e, k>>
      BY DEF Listed
    <3>2. <<e, k>> # <<d, l>>
      BY <2>2
    <3>3. \E m \in DOMAIN ofcsThreadDpid' : ofcsThreadDpid'[m] = ofcsThreadDpid[i]
      <4>1. \E m \in DOMAIN RemoveAt(ofcsThreadDpid, j) : RemoveAt(ofcsThreadDpid, j)[m] = ofcsThreadDpid[i]
        BY <1>2, <2>2, <3>1, <3>2, WithoutOne
      <4> QED BY <2>2, <4>1
    <3>4. k \in Known
      BY DEF Listed
    <3> QED BY <3>1, <3>3, <3>4 DEF Listed, Known
  <2> QED BY <1>2, <2>1, <2>2
<1>11. ReadRight'
  <2>1. \A k \in HttpThreads : http'[k].op \in {"load", "delete_ofc"} => http'[k] = http[k]
    BY <1>2
  <2> QED BY <1>2, <2>1 DEF ListInv, ReadRight, HasRow
<1>12. OneDeletes'
  <2>1. \A k \in HttpThreads : http'[k].op \in {"forget_ofc"} \cup Leaving =>
          http[k].op \in {"forget_ofc"} \cup Leaving /\ http'[k].ofc = http[k].ofc
    BY <1>1, <1>2 DEF Leaving
  <2> QED BY <2>1, OneStillDeletes DEF ListInv
<1>13. ThreadsHaveRows'
  <2>1. \A k : Asked({"forget_ofc"}, k) => Asked({"forget_ofc"}, k)'
    BY <1>3
  <2> QED BY <1>2, <1>7, <1>8, <2>1 DEF ListInv, ThreadsHaveRows
<1>14. LeaversEnd'
  BY <1>2, <1>4, <1>7, <1>8 DEF ListInv, LeaversEnd
<1>15. ListedAreRight'
  <2> SUFFICES ASSUME NEW e \in Dpids \ (edited \cup blurred'), NEW k \in Listed(e)' \ threadless'
               PROVE  \/ k \in ofcsThread /\ ((k \in Present /\ DpidOf(k) = e) \/ AskedFor({"forget_ofc"}, k, e)')
                      \/ AskedFor({"forget_dpid", "remove_dpid"}, k, e)'
    BY <1>2, <1>7 DEF ListedAreRight
  <2>1. k \in Listed(e) \ threadless /\ e \in Dpids \ (edited \cup blurred)
    BY <1>8, <1>9
  <2>2. \/ k \in ofcsThread /\ ((k \in Present /\ DpidOf(k) = e) \/ AskedFor({"forget_ofc"}, k, e))
        \/ AskedFor({"forget_dpid", "remove_dpid"}, k, e)
    BY <2>1 DEF ListInv, ListedAreRight
  <2>3. AskedFor({"forget_ofc"}, k, e) => AskedFor({"forget_ofc"}, k, e)'
    BY <1>5
  <2> QED BY <1>6, <2>2, <2>3
<1>16. RowsAreListed'
  <2> SUFFICES ASSUME NEW k \in Present \ threadless', DpidOf(k) \notin edited \cup blurred'
               PROVE  k \in Listed(DpidOf(k))' \/ AskedFor({"load"}, k, DpidOf(k))'
    BY <1>2, <1>7 DEF RowsAreListed
  <2>1. PICK e : e = DpidOf(k)
    OBVIOUS
  <2>2. k \in Listed(e) \/ AskedFor({"load"}, k, e)
    BY <1>8, <2>1 DEF ListInv, RowsAreListed
  <2>3. AskedFor({"load"}, k, e) => AskedFor({"load"}, k, e)'
    BY <1>5
  <2>4. k # c
    BY <1>1, <1>2, DpidsAreTold DEF OfcInv, DeletedHaveNoRow, Present, Leaving
  <2>5. k \in Listed(e) => k \in Listed(e)'
    BY <1>10, <2>1, <2>4
  <2> QED BY <1>7, <2>1, <2>2, <2>3, <2>5
<1> QED BY <1>11, <1>12, <1>13, <1>14, <1>15, <1>16 DEF ListInv

\* The thread has been told.
LEMMA ExitOfcList ==
  ASSUME CatInv, OfcTyped, ListInv, NEW h \in HttpThreads, ExitOfc(h)
  PROVE  ListInv'
<1>1. PICK c : c = http[h].ofc
  OBVIOUS
<1>2. /\ \A k \in HttpThreads \ {h} : http'[k] = http[k]
      /\ http[h].op = "exit_ofc" /\ c \in Known /\ http'[h] = Idle
      /\ ofTasks[c] \in Seq({"exit", "update"})
      /\ \A k \in Known : ofTasks'[k] = IF k = c THEN Append(ofTasks[k], "exit") ELSE ofTasks[k]
      /\ running \subseteq Known
      /\ UNCHANGED <<ofcs, ofcsThread, ofcsThreadDpid, running, ofcsMade, threadless, edited, blurred>>
  <2>1. http = [k \in HttpThreads |-> http[k]] /\ Typed(OfcOps, OfcRequests)
    BY DEF CatInv, CatTyped, HttpTyped, OfcTyped
  <2>2. http[h].op = "exit_ofc"
    BY DEF ExitOfc
  <2>3. http[h].ofc \in Ofcs
    BY <2>1, <2>2, OfcRequestShape
  <2>4. \A k \in HttpThreads \ {h} : http'[k] = http[k]
    BY <2>1 DEF ExitOfc
  <2>5. ofTasks \in [Known -> Seq({"exit", "update"})] /\ running \subseteq Known /\ Ofcs \subseteq Known
    BY DEF OfcTyped, ControllersTypeOK, Known
  <2> QED BY <1>1, <2>1, <2>2, <2>3, <2>4, <2>5 DEF ExitOfc, ofcRows
<1>3. \A S, k : Asked(S, k) => Asked(S, k)' \/ ("exit_ofc" \in S /\ k = c)
  BY <1>1, <1>2 DEF Asked
<1>4. \A S, k, e : AskedFor(S, k, e) => AskedFor(S, k, e)' \/ "exit_ofc" \in S
  BY <1>2 DEF AskedFor
<1>5. Present' = Present /\ (\A k : DpidOf(k)' = DpidOf(k)) /\ (\A e : Listed(e)' = Listed(e))
  BY <1>2 DEF Present, HasRow, DpidOf, Listed
<1>6. ~NoExit(c)' /\ \A k \in Known \ {c} : NoExit(k)' <=> NoExit(k)
  <2>1. Len(ofTasks[c]) + 1 \in DOMAIN ofTasks'[c] /\ ofTasks'[c][Len(ofTasks[c]) + 1] = "exit"
    <3> DEFINE s == ofTasks[c]
               t == Append(s, "exit")
    <3>1. DOMAIN t = DOMAIN s \cup {Len(s) + 1} /\ t[Len(s) + 1] = "exit"
      BY <1>2, Appended
    <3> HIDE DEF t
    <3>2. ofTasks'[c] = t
      BY <1>2 DEF t
    <3> QED BY <3>1, <3>2
  <2> QED BY <1>2, <2>1 DEF NoExit
<1>7. ReadRight'
  <2>1. \A k \in HttpThreads : http'[k].op \in {"load", "delete_ofc"} => http'[k] = http[k]
    BY <1>2
  <2> QED BY <1>2, <2>1 DEF ListInv, ReadRight, HasRow
<1>8. OneDeletes'
  <2>1. \A k \in HttpThreads : http'[k].op \in {"forget_ofc"} \cup Leaving => http'[k] = http[k]
    BY <1>2 DEF Leaving
  <2> QED BY <2>1, OneStillDeletes DEF ListInv
<1>9. ThreadsHaveRows'
  <2>1. \A k : Asked({"forget_ofc"}, k) => Asked({"forget_ofc"}, k)'
    BY <1>3
  <2> QED BY <1>2, <1>5, <2>1 DEF ListInv, ThreadsHaveRows
<1>10. LeaversEnd'
  <2>1. \A k : Asked(Leaving, k) => Asked(Leaving, k)' \/ k = c
    BY <1>3
  <2> QED BY <1>2, <1>6, <2>1 DEF ListInv, LeaversEnd
<1>11. ListedAreRight'
  <2>1. \A k, e : /\ AskedFor({"forget_ofc"}, k, e) => AskedFor({"forget_ofc"}, k, e)'
                  /\ AskedFor({"forget_dpid", "remove_dpid"}, k, e) => AskedFor({"forget_dpid", "remove_dpid"}, k, e)'
    BY <1>4
  <2> QED BY <1>2, <1>5, <2>1 DEF ListInv, ListedAreRight
<1>12. RowsAreListed'
  <2>1. \A k, e : AskedFor({"load"}, k, e) => AskedFor({"load"}, k, e)'
    BY <1>4
  <2> QED BY <1>2, <1>5, <2>1 DEF ListInv, RowsAreListed
<1> QED BY <1>7, <1>8, <1>9, <1>10, <1>11, <1>12 DEF ListInv

\* A thread that goes on has not come to its end.
LEMMA TakeOfTaskList ==
  ASSUME OfcTyped, ListInv, NEW c \in Known, TakeOfTask(c)
  PROVE  ListInv'
<1> DEFINE s == ofTasks[c]
<1>1. /\ UNCHANGED <<http, ofcs, ofcsMade, ofcsThread, ofcsThreadDpid, threadless, edited, blurred>>
      /\ running \subseteq Known
  BY DEF TakeOfTask, ofcRows, OfcTyped, ControllersTypeOK
<1>2. /\ c \in running /\ s # << >> /\ s \in Seq({"exit", "update"})
      /\ ofTasks'[c] = Tail(s) /\ \A k \in Known \ {c} : ofTasks'[k] = ofTasks[k]
      /\ IF Head(s) = "exit" THEN running' = running \ {c} ELSE running' = running
  BY DEF TakeOfTask, OfcTyped
<1>3. /\ DOMAIN s = 1..Len(s) /\ Len(s) \in Nat \ {0} /\ DOMAIN Tail(s) = 1..(Len(s) - 1)
      /\ \A i \in 1..(Len(s) - 1) : Tail(s)[i] = s[i + 1]
      /\ Head(s) = s[1]
  <2> HIDE DEF s
  <2> QED BY <1>2
<1>4. ASSUME NEW k \in running', ~NoExit(k) PROVE ~NoExit(k)'
  <2>1. CASE k # c
    BY <1>1, <1>2, <1>4, <2>1 DEF NoExit
  <2>2. CASE k = c
    <3>1. Head(s) # "exit"
      BY <1>2, <1>4, <2>2
    <3>2. PICK i \in 1..Len(s) : s[i] = "exit"
      BY <1>3, <1>4, <2>2 DEF NoExit
    <3>3. i - 1 \in 1..(Len(s) - 1) /\ (i - 1) + 1 = i
      BY <1>3, <3>1, <3>2
    <3>4. Tail(s)[i - 1] = "exit"
      BY <1>3, <3>2, <3>3
    <3> QED BY <1>2, <1>3, <2>2, <3>3, <3>4 DEF NoExit
  <2> QED BY <2>1, <2>2
<1>5. LeaversEnd'
  <2>1. running' \subseteq running /\ \A k : Asked(Leaving, k)' <=> Asked(Leaving, k)
    BY <1>1, <1>2 DEF Asked
  <2> QED BY <1>1, <1>4, <2>1 DEF ListInv, LeaversEnd
<1>6. ReadRight' /\ OneDeletes'
  BY <1>1 DEF ListInv, ReadRight, HasRow, OneDeletes
<1>7. ThreadsHaveRows'
  BY <1>1 DEF ListInv, ThreadsHaveRows, Present, HasRow, Asked
<1>8. ListedAreRight' /\ RowsAreListed'
  BY <1>1 DEF ListInv, ListedAreRight, RowsAreListed, Listed, Present, HasRow, DpidOf, AskedFor
<1> QED BY <1>5, <1>6, <1>7, <1>8 DEF ListInv

LEMMA InitList == Init => ListInv
<1> SUFFICES ASSUME Init PROVE ListInv
  OBVIOUS
<1>1. http = [h \in HttpThreads |-> Idle]
  BY DEF Init
<1>2. PICK dpid \in Dpids :
        ControllersInit([c \in Ofcs |-> IF area = "controllers" /\ c = FirstOfc THEN dpid ELSE Nothing])
  BY DEF Init
<1>3. /\ ofcsMade = {c \in Ofcs : HasRow(c)} /\ ofcsThread = Present /\ running = ofcsThread
      /\ threadless = {} /\ edited = {} /\ blurred = {}
      /\ ofcsThreadDpid = << <<DefaultDpid, Default>> >> \o SetToSeq({<<ofcs[c], c>> : c \in ofcsMade})
  BY <1>2 DEF ControllersInit
<1>4. ofcs \in [Ofcs -> Dpids \cup {Nothing}]
  BY <1>2 DEF ControllersInit
<1>5. \A d, c : (\E i \in DOMAIN ofcsThreadDpid : ofcsThreadDpid[i] = <<d, c>>) <=> (c \in Present /\ DpidOf(c) = d)
  <2>1. PICK C : C = ofcsMade
    OBVIOUS
  <2>2. ofcsThreadDpid = StartList(C)
    BY <1>3, <2>1 DEF StartList
  <2>3. C = {c \in Ofcs : HasRow(c)}
    BY <1>3, <2>1
  <2>4. ListsAll(StartList(C))
    BY <1>4, <2>3, StartListsAll
  <2>5. ListsAll(ofcsThreadDpid)
    BY <2>2, <2>4
  <2> QED BY <2>5 DEF ListsAll
<1>6. \A d : Listed(d) = {c \in Present : DpidOf(c) = d}
  BY <1>5 DEF Listed, Present, Known
<1>7. ReadRight /\ OneDeletes
  BY <1>1 DEF ReadRight, OneDeletes, Leaving
<1>8. ThreadsHaveRows /\ LeaversEnd
  BY <1>3 DEF ThreadsHaveRows, LeaversEnd
<1>9. ListedAreRight /\ RowsAreListed
  BY <1>3, <1>6 DEF ListedAreRight, RowsAreListed
<1> QED BY <1>7, <1>8, <1>9 DEF ListInv

\* A start forgets what was edited and blurred, and lists the rows anew.
LEMMA RestartMakesTheList ==
  ASSUME OfcTyped, Restart
  PROVE  ListInv'
<1>1. http' = [h \in HttpThreads |-> Idle] /\ StartOfcs
  BY DEF Restart
<1>2. /\ ofcsThread' = Present /\ running' = ofcsThread'
      /\ threadless' = {} /\ edited' = {} /\ blurred' = {} /\ UNCHANGED ofcs
      /\ ofcsThreadDpid' = << <<DefaultDpid, Default>> >> \o SetToSeq({<<ofcs[c], c>> : c \in Present \ {Default}})
  BY <1>1 DEF StartOfcs, ofcRows
<1>3. Present \ {Default} = {c \in Ofcs : HasRow(c)}
  BY DpidsAreTold DEF Present
<1>4. ofcs \in [Ofcs -> Dpids \cup {Nothing}]
  BY DEF OfcTyped, ControllersTypeOK
<1>5. \A d, c : (\E i \in DOMAIN ofcsThreadDpid' : ofcsThreadDpid'[i] = <<d, c>>) <=> (c \in Present /\ DpidOf(c) = d)
  <2>1. PICK C : C = Present \ {Default}
    OBVIOUS
  <2>2. ofcsThreadDpid' = StartList(C)
    BY <1>2, <2>1 DEF StartList
  <2>3. C = {c \in Ofcs : HasRow(c)}
    BY <1>3, <2>1
  <2>4. ListsAll(StartList(C))
    BY <1>4, <2>3, StartListsAll
  <2>5. PICK s : s = ofcsThreadDpid'
    OBVIOUS
  <2>6. ListsAll(s)
    BY <2>2, <2>4, <2>5
  <2> QED BY <2>5, <2>6 DEF ListsAll
<1>6. \A d : Listed(d)' = {c \in Present : DpidOf(c) = d}
  BY <1>5 DEF Listed, Present, Known
<1>7. Present' = Present /\ \A c : DpidOf(c)' = DpidOf(c)
  BY <1>2 DEF Present, HasRow, DpidOf
<1>8. ReadRight' /\ OneDeletes'
  BY <1>1 DEF ReadRight, OneDeletes, Leaving
<1>9. ThreadsHaveRows' /\ LeaversEnd'
  BY <1>2, <1>7 DEF ThreadsHaveRows, LeaversEnd
<1>10. ListedAreRight' /\ RowsAreListed'
  BY <1>2, <1>6, <1>7 DEF ListedAreRight, RowsAreListed
<1> QED BY <1>8, <1>9, <1>10 DEF ListInv

\* The requests on ports do not change the list.
LEMMA PortsAreAside ==
  ASSUME CatInv, OfcTyped, ListInv, NEW h \in HttpThreads,
         \/ \E p \in OfPorts, c \in Known : NewExternalPort(h, p, c)
         \/ \E p \in OfPorts : DeletePort(h, p)
         \/ InsertPort(h) \/ PickThread(h) \/ TellThread(h)
  PROVE  ListInv'
<1>1. http = [k \in HttpThreads |-> http[k]] /\ Typed(OfcOps, OfcRequests) /\ running \subseteq Known
  BY DEF CatInv, CatTyped, HttpTyped, OfcTyped, ControllersTypeOK
<1>2. UNCHANGED <<ofcs, ofcsThread, ofcsThreadDpid, running, ofcsMade, threadless, edited, blurred>>
  BY DEF NewExternalPort, DeletePort, InsertPort, PickThread, TellThread, ofcVars, ofcThreads, ofcRows
<1>3. /\ http[h].op \in {"idle", "insert_port", "pick", "tell"}
      /\ http'[h].op \in {"idle", "insert_port", "pick", "tell"}
      /\ \A k \in HttpThreads \ {h} : http'[k] = http[k]
  <2>1. CASE \E p \in OfPorts, c \in Known : NewExternalPort(h, p, c)
    BY <1>1, <2>1 DEF NewExternalPort
  <2>2. CASE \E p \in OfPorts : DeletePort(h, p)
    BY <1>1, <2>2 DEF DeletePort
  <2>3. CASE InsertPort(h)
    <3>1. http[h].op = "insert_port"
      BY <2>3 DEF InsertPort
    <3>2. http[h] = [op |-> "insert_port", port |-> http[h].port, ofc |-> http[h].ofc, dpid |-> http[h].dpid]
      BY <1>1, <3>1, OfcRequestShape
    <3>3. PICK r : r = http[h]
      OBVIOUS
    <3>4. \/ http' = [http EXCEPT ![h] = Idle]
          \/ http' = [http EXCEPT ![h] = [r EXCEPT !.op = "pick", !.dpid = Nothing]]
      BY <2>3, <3>3 DEF InsertPort
    <3>5. [r EXCEPT !.op = "pick", !.dpid = Nothing].op = "pick"
      <4>1. "op" \in DOMAIN r
        BY <3>2, <3>3
      <4> QED BY <4>1
    <3> DEFINE q == [r EXCEPT !.op = "pick", !.dpid = Nothing]
    <3> HIDE DEF q
    <3>6. q.op = "pick" /\ (http' = [http EXCEPT ![h] = Idle] \/ http' = [http EXCEPT ![h] = q])
      BY <3>4, <3>5 DEF q
    <3> QED BY <1>1, <3>1, <3>6
  <2>4. CASE PickThread(h)
    BY <1>1, <2>4 DEF PickThread
  <2>5. CASE TellThread(h)
    BY <1>1, <2>5, OfcRequestShape DEF TellThread
  <2> QED BY <2>1, <2>2, <2>3, <2>4, <2>5
<1>4. \A k \in Known : NoExit(k)' => NoExit(k)
  <2>1. CASE UNCHANGED ofTasks
    BY <2>1 DEF NoExit
  <2>2. ASSUME NEW c \in Known, ofTasks' = [ofTasks EXCEPT ![c] = Append(@, "update")], NEW k \in Known, NoExit(k)'
        PROVE  NoExit(k)
    <3>1. ofTasks \in [Known -> Seq({"exit", "update"})]
      BY DEF OfcTyped
    <3>2. CASE k # c
      BY <2>2, <3>1, <3>2 DEF NoExit
    <3>3. CASE k = c
      <4> DEFINE s == ofTasks[c]
                 t == Append(s, "update")
      <4>1. DOMAIN t = DOMAIN s \cup {Len(s) + 1} /\ \A i \in DOMAIN s : t[i] = s[i]
        BY <3>1, Appended
      <4> HIDE DEF t
      <4>2. ofTasks'[c] = t
        BY <2>2, <3>1 DEF t
      <4> QED BY <2>2, <3>3, <4>1, <4>2 DEF NoExit
    <3> QED BY <3>2, <3>3
  <2>3. TellThread(h) => UNCHANGED ofTasks \/ \E c \in Known : ofTasks' = [ofTasks EXCEPT ![c] = Append(@, "update")]
    <3> SUFFICES ASSUME TellThread(h)
                 PROVE  UNCHANGED ofTasks \/ \E c \in Known : ofTasks' = [ofTasks EXCEPT ![c] = Append(@, "update")]
      OBVIOUS
    <3>1. http[h].to \subseteq Known
      BY <1>1, OfcRequestShape DEF TellThread
    <3> QED BY <3>1 DEF TellThread
  <2>4. TellThread(h) \/ UNCHANGED ofTasks
    BY DEF NewExternalPort, DeletePort, InsertPort, PickThread, ofcVars, ofcThreads
  <2> QED BY <2>1, <2>2, <2>3, <2>4
<1>5. \A k \in HttpThreads : {http[k].op, http'[k].op} \cap ListOps # {} => http'[k] = http[k]
  BY <1>3 DEF ListOps, Leaving
<1> QED BY <1>2, <1>4, <1>5, ListAside

LEMMA OthersAreAside ==
  ASSUME CatInv, OfcTyped, ListInv, Aside(OfcOps), UNCHANGED ofcVars
  PROVE  ListInv'
<1>1. \A k \in HttpThreads : {http[k].op, http'[k].op} \cap OfcOps # {} => http'[k] = http[k]
  BY AsideTyped DEF CatInv, CatTyped, OfcTyped
<1>2. ListOps \subseteq OfcOps
  BY DEF ListOps, OfcOps, Leaving
<1>3. UNCHANGED <<ofcs, ofcsThread, ofcsThreadDpid, running, ofTasks, ofcsMade, threadless, edited, blurred>>
  BY DEF ofcVars
<1>4. \A k \in HttpThreads : {http[k].op, http'[k].op} \cap ListOps # {} => http'[k] = http[k]
  BY <1>1, <1>2
<1>5. \A k \in Known : NoExit(k)' => NoExit(k)
  BY <1>3 DEF NoExit
<1> QED BY <1>3, <1>4, <1>5, ListAside

LEMMA NextList == CatInv /\ TypeInv /\ OfcInv /\ ListInv /\ [Next]_vars => ListInv'
<1> SUFFICES ASSUME CatInv, TypeInv, OfcInv, ListInv, [Next]_vars PROVE ListInv'
  OBVIOUS
<1>1. HttpTyped /\ OfcTyped
  BY DEF CatInv, CatTyped, TypeInv
<1>2. ASSUME NEW h \in HttpThreads, NetworkRequest(h) \/ NetworkStep(h), UNCHANGED ofcVars
      PROVE  ListInv'
  <2>1. Aside(OfcOps \cup (CatOps \cup DhcpOps))
    BY <1>1, <1>2, NetworksAside
  <2> QED BY <1>1, <1>2, <2>1, AsideOfMore, OthersAreAside
<1>3. CASE /\ ThreadMoves \/ \E h \in HttpThreads : DhcpRequest(h) \/ DhcpStep(h)
           /\ UNCHANGED <<netVars, ofcVars>>
  <2>1. Aside((CatOps \cup NetOps) \cup OfcOps)
    BY <1>1, <1>3, DhcpAside DEF ThreadMoves
  <2> QED BY <1>1, <1>3, <2>1, AsideOfMore, OthersAreAside
<1>4. ASSUME NEW h \in HttpThreads, CatalogueRequest(h) \/ CatalogueStep(h),
             UNCHANGED <<netVars, ofcVars>>
      PROVE  ListInv'
  <2>1. Aside((NetOps \cup DhcpOps) \cup OfcOps)
    BY <1>4, CatalogueAside
  <2> QED BY <1>1, <1>4, <2>1, AsideOfMore, OthersAreAside
<1>5. ASSUME NEW h \in HttpThreads, OfcRequest(h)
      PROVE  ListInv'
  BY <1>1, <1>5, NewOfControllerList, EditOfControllerList, DeleteOfControllerList, PortsAreAside DEF OfcRequest
<1>6. ASSUME NEW h \in HttpThreads, OfcStep(h)
      PROVE  ListInv'
  BY <1>1, <1>6, CreateOfcTaskList, DeleteOfcList, ForgetOfcList, ForgetDpidList, RemoveDpidList,
     ExitOfcList, PortsAreAside DEF OfcStep
<1>7. ASSUME NEW c \in Known, TakeOfTask(c)
      PROVE  ListInv'
  BY <1>1, <1>7, TakeOfTaskList
<1>8. CASE Restart
  BY <1>1, <1>8, RestartMakesTheList
<1>9. CASE UNCHANGED vars
  BY <1>1, <1>9, OthersAreAside DEF vars, Aside
<1> QED BY <1>2, <1>3, <1>4, <1>5, <1>6, <1>7, <1>8, <1>9 DEF Next, ThreadMoves

\* Whenever all requests are answered, ofcs_thread and ofcs_thread_dpid are
\* those that start_service would make of the rows of ofcs, but for what the
\* property names, and the threads in neither have been told to end
\* (new_of_controller, delete_of_controller).
THEOREM ControllersStayAsLoaded == Spec => []ControllersAsLoaded
<1>1. ASSUME OfcInv, ListInv PROVE ControllersAsLoaded
  <2> SUFFICES ASSUME AllAnswered
               PROVE  /\ ofcsThread \ threadless = Present \ threadless
                      /\ \A d \in Dpids \ (edited \cup blurred) :
                           Listed(d) \ threadless = {c \in Present \ threadless : DpidOf(c) = d}
                      /\ \A c \in running \ (ofcsThread \cup threadless) : "exit" \in ToSet(ofTasks[c])
    BY DEF ControllersAsLoaded
  <2>1. \A S, c, d : (Asked(S, c) \/ AskedFor(S, c, d)) => "idle" \in S
    BY DEF AllAnswered, Asked, AskedFor
  <2>2. ofcsThread \ threadless \subseteq Present
    BY <1>1, <2>1 DEF ListInv, ThreadsHaveRows
  <2>3. Present \ threadless \subseteq ofcsThread
    BY <1>1, <2>1 DEF OfcInv, RowsHaveThreads, DefaultStays, Present
  <2>4. ASSUME NEW d \in Dpids \ (edited \cup blurred)
        PROVE  Listed(d) \ threadless = {c \in Present \ threadless : DpidOf(c) = d}
    <3>1. ASSUME NEW c \in Listed(d) \ threadless PROVE c \in Present /\ DpidOf(c) = d
      BY <1>1, <2>1, <2>4, <3>1 DEF ListInv, ListedAreRight
    <3>2. ASSUME NEW c \in Present \ threadless, DpidOf(c) = d PROVE c \in Listed(d)
      BY <1>1, <2>1, <2>4, <3>2 DEF ListInv, RowsAreListed
    <3> QED BY <3>1, <3>2
  <2>5. ASSUME NEW c \in running \ (ofcsThread \cup threadless) PROVE "exit" \in ToSet(ofTasks[c])
    <3>1. ~NoExit(c)
      BY <1>1, <2>1, <2>5 DEF ListInv, LeaversEnd, Leaving
    <3> QED BY <3>1 DEF NoExit, ToSet
  <2> QED BY <2>2, <2>3, <2>4, <2>5
<1>2. CatInv /\ VlanInv /\ TypeInv /\ OfcInv /\ ListInv => ControllersAsLoaded
  BY <1>1
<1> QED BY <1>2, InitOfcInv, NextOfcInv, InitList, NextList, TypeInvariant, PTL DEF Spec

-----------------------------------------------------------------------------
(* The networks as a start would have them *)

\* A request of this kind is at work on the network.
NetAsked(Kind, n) == \E h \in HttpThreads : http[h].op \in Kind /\ http[h].net = n

OnBridge(n, b) == Exists(n) /\ nets[n].bridge = b

\* Uuids are given once: a new network is that of one request.
NewNetsAreNew ==
  /\ \A h \in HttpThreads : http[h].op \in NetOps => http[h].net \in made
  /\ \A h \in HttpThreads : http[h].op \in {"choose", "insert"} =>
       /\ ~Exists(http[h].net) /\ http[h].net \notin raced
       /\ \A k \in HttpThreads \ {h} : http[k].op \in NetOps => http[k].net # http[h].net
  /\ \A h, k \in HttpThreads :
       http[h].op = "mark" /\ http[k].op = "mark" /\ http[h].net = http[k].net => h = k
  /\ \A n \in Nets : Exists(n) => n \in made
  /\ raced \subseteq made

\* What is deleted does not come back.
GoneStayGone ==
  /\ \A h \in HttpThreads : http[h].op = "free" => ~Exists(http[h].net)
  /\ \A n \in raced : ~Exists(n)

\* The unique key.
OneOnABridge == \A b \in Bridges : \A n, k \in Nets : OnBridge(n, b) /\ OnBridge(k, b) => n = k

\* The row that a new network is to be marked with is its row, or it was deleted
\* or moved meanwhile.
MarksAreRight ==
  \A h \in HttpThreads : http[h].op = "mark" =>
    LET n == http[h].net
        b == http[h].row.bridge
    IN  IF Exists(n) THEN nets[n].bridge = b \/ {nets[n].bridge, b} \subseteq moved ELSE n \in raced

BridgesHaveNets ==
  \A b \in Bridges \ moved : \A n \in Nets : OnBridge(n, b) =>
    bridgeNet[b] = n \/ NetAsked({"mark"}, n) \/ bridgeNet[b] \in raced

NetsHaveBridges ==
  \A b \in Bridges \ moved : bridgeNet[b] # None =>
    OnBridge(bridgeNet[b], b) \/ bridgeNet[b] \in raced \/ NetAsked({"free"}, bridgeNet[b])

\* A bridge that is about to be freed is not in use, or its network is about to
\* take it.
FreedAreUnused ==
  \A b \in Bridges \ moved : NetAsked({"free"}, bridgeNet[b]) =>
    \A n \in Nets : OnBridge(n, b) => NetAsked({"mark"}, n)

\* One thread marks a network that the other deletes: the bridge stays unused.
RacesAreAlone ==
  \A h \in HttpThreads : \A b \in Bridges \ moved :
    http[h].op = "mark" /\ http[h].row.bridge = b /\ NetAsked({"free"}, http[h].net) =>
      \A n \in Nets : ~OnBridge(n, b)

BridgeInv ==
  /\ NewNetsAreNew /\ GoneStayGone /\ OneOnABridge /\ MarksAreRight
  /\ BridgesHaveNets /\ NetsHaveBridges /\ FreedAreUnused /\ RacesAreAlone

\* A network whose entry in dhcp_nets is to be right.
Kept(n) == Exists(n) /\ n \notin moved \cup dropped \cup passed

ByName(n) == nets[n].bridge \notin DhcpBridges

ServedAreRight ==
  \A n \in Nets : Kept(n) /\ ~NetAsked({"mark"}, n) /\ ~NetAsked({"redhcp"}, n) =>
    IF ByName(n) THEN dhcpNets[n] = IF nets[n].name = None THEN 0 ELSE 1 ELSE dhcpNets[n] > 0

ServedOnce ==
  \A n \in Nets : Kept(n) =>
    /\ ByName(n) => dhcpNets[n] <= 1
    /\ NetAsked({"mark"}, n) => dhcpNets[n] = 0

MarkedAsIs ==
  \A h \in HttpThreads, n \in Nets : http[h].op = "mark" /\ http[h].net = n /\ Kept(n) =>
    /\ nets[n].bridge = http[h].row.bridge
    /\ nets[n].name = http[h].row.name \/ NetAsked({"redhcp"}, n)

\* The name that edit_network goes by is that of the row, unless the other thread
\* edits it.
NameOf(h) ==
  IF http[h].op = "redhcp" /\ http[h].column = "name" THEN http[h].value ELSE http[h].old.name

OtherEdits(h, n) == \E k \in HttpThreads \ {h} : http[k].op = "redhcp" /\ http[k].net = n

EditedAsIs ==
  \A h \in HttpThreads, n \in Nets : http[h].op \in {"update", "redhcp"} /\ http[h].net = n /\ Kept(n) =>
    /\ nets[n].bridge = http[h].old.bridge
    /\ nets[n].name = NameOf(h) \/ OtherEdits(h, n)

NewAreNotServed ==
  \A n \in Nets : n \notin made \/ NetAsked({"choose", "insert"}, n) => dhcpNets[n] = 0

ServedInv == ServedAreRight /\ ServedOnce /\ MarkedAsIs /\ EditedAsIs /\ NewAreNotServed

-----------------------------------------------------------------------------
(* What each step makes of its request *)

Others(h) == \A k \in HttpThreads \ {h} : http'[k] = http[k]

memory == <<bridgeNet, dhcpNets>>
excused == <<raced, moved, dropped, passed>>

LEMMA NetFields ==
  ASSUME ConfigTyped, NEW h \in HttpThreads
  PROVE  /\ http[h].op \in NetOps => http[h].net \in Nets
         /\ http[h].op \in {"choose", "insert", "mark"} => http[h].row \in Row
         /\ http[h].op \in {"update", "redhcp"} => http[h].old \in Row
<1>1. ASSUME http[h].op \in {"choose", "insert", "mark"} PROVE http[h].net \in Nets /\ http[h].row \in Row
  BY <1>1, NetRequestIs, NewNetRequestIs DEF ConfigTyped
<1>2. ASSUME http[h].op \in {"update", "redhcp"} PROVE http[h].net \in Nets /\ http[h].old \in Row
  BY <1>2, NetRequestIs, EditNetRequestIs DEF ConfigTyped
<1>3. ASSUME http[h].op = "free" PROVE http[h].net \in Nets
  BY <1>3, NetRequestIs DEF ConfigTyped, FreeNetRequest
<1> QED BY <1>1, <1>2, <1>3 DEF NetOps

LEMMA NewNetworkNets ==
  ASSUME CatInv, VlanInv, NEW h \in HttpThreads, NEW r \in Row, NewNetwork(h, r)
  PROVE  /\ http[h].op = "idle" /\ http'[h].op \in {"choose", "insert"} /\ Others(h)
         /\ http'[h].net \in Nets \ made /\ made' = made \cup {http'[h].net}
         /\ UNCHANGED <<nets, memory, excused>>
<1>1. PICK q \in NewNetRequest :
        /\ http' = [http EXCEPT ![h] = q]
        /\ q.op \in {"choose", "insert"}
        /\ q.net \in Nets \ made /\ made' = made \cup {q.net}
  BY NewNetworkForm
<1>2. http'[h] = q /\ Others(h)
  BY <1>1, OneRequest DEF CatInv, CatTyped, Others
<1>3. http[h].op = "idle" /\ UNCHANGED <<nets, memory, excused>>
  BY DEF NewNetwork, memory, excused
<1> QED BY <1>1, <1>2, <1>3

LEMMA EditNetworkNets ==
  ASSUME CatInv, VlanInv, NEW h \in HttpThreads, NEW n \in Nets, NEW c, NEW v, EditNetwork(h, n, c, v),
         \/ c = "vlan" /\ v \in Explicit
         \/ c = "bridge" /\ v \in Bridges
         \/ c = "name" /\ v \in Names
  PROVE  /\ http[h].op = "idle" /\ http'[h].op = "update" /\ Others(h)
         /\ http'[h].net = n /\ http'[h].old = nets[n] /\ Exists(n)
         /\ UNCHANGED <<nets, memory, excused, made>>
<1>1. PICK q \in EditNetRequest :
        /\ http' = [http EXCEPT ![h] = q]
        /\ q.op = "update" /\ q.net = n /\ q.old = nets[n] /\ Exists(n)
  BY EditNetworkForm
<1>2. http'[h] = q /\ Others(h)
  BY <1>1, OneRequest DEF CatInv, CatTyped, Others
<1>3. http[h].op = "idle" /\ UNCHANGED <<nets, memory, excused, made>>
  BY DEF EditNetwork, memory, excused, netVars
<1> QED BY <1>1, <1>2, <1>3

LEMMA DeleteNetworkNets ==
  ASSUME CatInv, VlanInv, NEW h \in HttpThreads, NEW n \in Nets, DeleteNetwork(h, n)
  PROVE  /\ http[h].op = "idle" /\ http'[h].op = "free" /\ Others(h)
         /\ http'[h].net = n /\ Exists(n)
         /\ \A k \in Nets : nets'[k] = IF k = n THEN None ELSE nets[k]
         /\ raced' = IF NetAsked({"mark"}, n) THEN raced \cup {n} ELSE raced
         /\ UNCHANGED <<memory, moved, dropped, passed, made>>
<1> DEFINE q == [op |-> "free", net |-> n]
<1>1. http' = [http EXCEPT ![h] = q]
  BY DEF DeleteNetwork
<1>2. http'[h] = q /\ Others(h)
  BY <1>1, OneRequest DEF CatInv, CatTyped, Others
<1>3. nets' = [nets EXCEPT ![n] = None] /\ nets \in [Nets -> Row \cup {None}]
  BY DEF DeleteNetwork, VlanInv, VlanTyped
<1>4. /\ http[h].op = "idle" /\ Exists(n)
      /\ raced' = IF NetAsked({"mark"}, n) THEN raced \cup {n} ELSE raced
      /\ UNCHANGED <<memory, moved, dropped, passed, made>>
  BY DEF DeleteNetwork, memory, NetAsked
<1> QED BY <1>2, <1>3, <1>4

LEMMA GetFreeNetVlanNets ==
  ASSUME CatInv, VlanInv, ConfigTyped, NEW h \in HttpThreads, GetFreeNetVlan(h)
  PROVE  /\ http[h].op = "choose" /\ Others(h)
         /\ \/ http'[h].op = "idle"
            \/ http'[h].op \in {"choose", "insert"} /\ http'[h].net = http[h].net
         /\ UNCHANGED <<nets, memory, excused, made>>
<1> DEFINE last == NextVlan(cache[h].last)
<1>1. http[h].op = "choose" /\ UNCHANGED <<nets, memory, excused, made>>
  BY GetFreeNetVlanForm DEF memory, excused
<1>2. last \in Nat
  <2>1. cache[h].last \in (FirstVlan - 1)..(EndVlan - 1)
    BY DEF VlanInv, VlanTyped, VlanList
  <2> QED BY <2>1, VlansAreNumbers DEF NextVlan
<1>3. http[h] \in NewNetRequest
  BY <1>1, NetRequestIs DEF ConfigTyped
<1>4. \/ http' = [http EXCEPT ![h] = http[h]]
      \/ http' = [http EXCEPT ![h] =
                    [http[h] EXCEPT !.op = "insert", !.row.vlan = last, !.chosen = TRUE]]
      \/ http' = [http EXCEPT ![h] = Idle]
  BY GetFreeNetVlanForm DEF TurnOf
<1> HIDE DEF last
<1> DEFINE q == [http[h] EXCEPT !.op = "insert", !.row.vlan = last, !.chosen = TRUE]
<1>5. q.op = "insert" /\ q.net = http[h].net
  BY <1>2, <1>3, ChosenIsNew
<1> HIDE DEF q
<1>6. \/ http' = [http EXCEPT ![h] = http[h]]
      \/ http' = [http EXCEPT ![h] = q]
      \/ http' = [http EXCEPT ![h] = Idle]
  BY <1>4 DEF q
<1>7. (http'[h] = http[h] \/ http'[h] = q \/ http'[h].op = "idle") /\ Others(h)
  BY <1>6, OneRequest DEF CatInv, CatTyped, Others
<1> QED BY <1>1, <1>5, <1>7

LEMMA InsertNetNets ==
  ASSUME CatInv, VlanInv, ConfigTyped, NEW h \in HttpThreads, InsertNet(h)
  PROVE  /\ http[h].op = "insert" /\ Others(h) /\ UNCHANGED <<memory, excused, made>>
         /\ \/ http'[h].op = "idle" /\ UNCHANGED nets
            \/ /\ http'[h].op = "mark" /\ http'[h].net = http[h].net /\ http'[h].row = http[h].row
               /\ ~Conflicts(http[h].net, http[h].row)
               /\ \A k \in Nets : nets'[k] = IF k = http[h].net THEN http[h].row ELSE nets[k]
<1>1. http[h].op = "insert" /\ UNCHANGED <<memory, excused, made>>
  BY DEF InsertNet, memory, excused
<1>2. http[h] \in NewNetRequest /\ nets \in [Nets -> Row \cup {None}]
  BY <1>1, NetRequestIs DEF ConfigTyped, VlanInv, VlanTyped
<1>3. PICK q : q = [http[h] EXCEPT !.op = "mark"]
  OBVIOUS
<1>4. q.op = "mark" /\ q.net = http[h].net /\ q.row = http[h].row /\ http[h].net \in Nets
  BY <1>2, <1>3, NewNetRequestIs
<1>5. \/ http' = [http EXCEPT ![h] = Idle] /\ UNCHANGED nets
      \/ /\ http' = [http EXCEPT ![h] = q]
         /\ ~Conflicts(http[h].net, http[h].row)
         /\ nets' = [nets EXCEPT ![http[h].net] = http[h].row]
  BY <1>3 DEF InsertNet
<1>6. CASE http' = [http EXCEPT ![h] = Idle] /\ UNCHANGED nets
  <2>1. http'[h] = Idle /\ Others(h)
    BY <1>6, OneRequest DEF CatInv, CatTyped, Others
  <2> QED BY <1>1, <1>6, <2>1
<1>7. CASE /\ http' = [http EXCEPT ![h] = q]
           /\ ~Conflicts(http[h].net, http[h].row)
           /\ nets' = [nets EXCEPT ![http[h].net] = http[h].row]
  <2>1. http'[h] = q /\ Others(h)
    BY <1>7, OneRequest DEF CatInv, CatTyped, Others
  <2> QED BY <1>1, <1>2, <1>4, <1>7, <2>1
<1> QED BY <1>5, <1>6, <1>7

LEMMA MarkNetNets ==
  ASSUME CatInv, ConfigTyped, NEW h \in HttpThreads, MarkNet(h)
  PROVE  /\ http[h].op = "mark" /\ http'[h].op = "idle" /\ Others(h) /\ UNCHANGED <<nets, excused, made>>
         /\ \A b \in Bridges : bridgeNet'[b] = IF b = http[h].row.bridge THEN http[h].net ELSE bridgeNet[b]
         /\ \A n \in Nets : dhcpNets'[n] =
              IF n = http[h].net /\ DhcpServed(http[h].row) THEN dhcpNets[n] + 1 ELSE dhcpNets[n]
<1>1. http[h].op = "mark" /\ UNCHANGED <<nets, excused, made>> /\ http' = [http EXCEPT ![h] = Idle]
  BY DEF MarkNet, excused
<1>2. http'[h] = Idle /\ Others(h)
  BY <1>1, OneRequest DEF CatInv, CatTyped, Others
<1>3. PICK n \in Nets, r \in Row : n = http[h].net /\ r = http[h].row
  BY <1>1, NetFields DEF NetOps
<1>4. /\ bridgeNet' = IF r.bridge = None THEN bridgeNet ELSE [bridgeNet EXCEPT ![r.bridge] = n]
      /\ dhcpNets' = IF DhcpServed(r) THEN [dhcpNets EXCEPT ![n] = @ + 1] ELSE dhcpNets
  BY <1>3 DEF MarkNet
<1>5. bridgeNet \in [Bridges -> Nets \cup {None}] /\ dhcpNets \in [Nets -> Nat]
  BY DEF ConfigTyped
<1>6. \A b \in Bridges : bridgeNet'[b] = IF b = r.bridge THEN n ELSE bridgeNet[b]
  BY <1>4, <1>5, VlansAreNumbers
<1>7. \A k \in Nets : dhcpNets'[k] = IF k = n /\ DhcpServed(r) THEN dhcpNets[k] + 1 ELSE dhcpNets[k]
  BY <1>4, <1>5
<1> QED BY <1>1, <1>2, <1>3, <1>6, <1>7

LEMMA UpdateNetNets ==
  ASSUME CatInv, VlanInv, ConfigTyped, NEW h \in HttpThreads, UpdateNet(h)
  PROVE  /\ http[h].op = "update" /\ Others(h) /\ UNCHANGED <<memory, raced, dropped, passed, made>>
         /\ \/ http'[h].op = "idle" /\ UNCHANGED <<nets, moved>>
            \/ \E r \in Row :
               LET n == http[h].net
               IN  /\ http'[h].op = "redhcp" /\ http'[h].net = n /\ http'[h].old = http[h].old
                   /\ http'[h].column = http[h].column /\ http'[h].value = http[h].value
                   /\ Exists(n) /\ ~Conflicts(n, r)
                   /\ \A k \in Nets : nets'[k] = IF k = n THEN r ELSE nets[k]
                   /\ r.name = IF http[h].column = "name" THEN http[h].value ELSE nets[n].name
                   /\ \/ r.bridge = nets[n].bridge /\ moved' = moved \cup {}
                      \/ moved' = moved \cup {n, nets[n].bridge, r.bridge}
<1>1. http[h].op = "update" /\ UNCHANGED <<memory, raced, dropped, passed, made>>
  BY DEF UpdateNet, memory
<1>2. http[h] \in EditNetRequest /\ nets \in [Nets -> Row \cup {None}]
  BY <1>1, NetRequestIs DEF ConfigTyped, VlanInv, VlanTyped
<1>3. PICK q : q = [http[h] EXCEPT !.op = "redhcp"]
  OBVIOUS
<1>4. /\ q.op = "redhcp" /\ q.net = http[h].net /\ q.old = http[h].old
      /\ q.column = http[h].column /\ q.value = http[h].value /\ http[h].net \in Nets
  BY <1>2, <1>3, EditNetRequestIs
<1>5. PICK n, c, v, r :
        n \in Nets /\ n = http[h].net /\ c = http[h].column /\ v = http[h].value /\ r = [nets[n] EXCEPT ![c] = v]
  BY <1>4
<1>6. \/ c = "vlan" /\ v \in Explicit
      \/ c = "bridge" /\ v \in Bridges
      \/ c = "name" /\ v \in Names
  BY <1>2, <1>5, EditNetRequestIs
<1>7. \/ http' = [http EXCEPT ![h] = Idle] /\ UNCHANGED <<nets, moved>>
      \/ /\ http' = [http EXCEPT ![h] = q]
         /\ Exists(n) /\ ~Conflicts(n, r)
         /\ nets' = [nets EXCEPT ![n] = r]
         /\ moved' = IF c = "bridge" THEN moved \cup {n, nets[n].bridge, r.bridge} ELSE moved
  BY <1>3, <1>5 DEF UpdateNet
<1>8. CASE http' = [http EXCEPT ![h] = Idle] /\ UNCHANGED <<nets, moved>>
  <2>1. http'[h] = Idle /\ Others(h)
    BY <1>8, OneRequest DEF CatInv, CatTyped, Others
  <2> QED BY <1>1, <1>8, <2>1
<1>9. CASE /\ http' = [http EXCEPT ![h] = q]
           /\ Exists(n) /\ ~Conflicts(n, r)
           /\ nets' = [nets EXCEPT ![n] = r]
           /\ moved' = IF c = "bridge" THEN moved \cup {n, nets[n].bridge, r.bridge} ELSE moved
  <2>1. http'[h] = q /\ Others(h)
    BY <1>9, OneRequest DEF CatInv, CatTyped, Others
  <2>2. nets[n] \in Row
    BY <1>2, <1>5, <1>9 DEF Exists
  <2>3. /\ r \in Row
        /\ r.name = IF c = "name" THEN v ELSE nets[n].name
        /\ c # "bridge" => r.bridge = nets[n].bridge
    BY <1>5, <1>6, <2>2, VlansAreNumbers DEF Row
  <2>4. \A k \in Nets : nets'[k] = IF k = n THEN r ELSE nets[k]
    BY <1>2, <1>5, <1>9
  <2>5. \/ r.bridge = nets[n].bridge /\ moved' = moved \cup {}
        \/ moved' = moved \cup {n, nets[n].bridge, r.bridge}
    BY <1>9, <2>3
  <2> HIDE <1>5
  <2>6. n = http[h].net /\ c = http[h].column /\ v = http[h].value
    BY <1>5
  <2> QED BY <1>1, <1>4, <1>9, <2>1, <2>3, <2>4, <2>5, <2>6
<1> QED BY <1>7, <1>8, <1>9

LEMMA EditDhcpNetsNets ==
  ASSUME CatInv, ConfigTyped, NEW h \in HttpThreads, EditDhcpNets(h)
  PROVE  LET n == http[h].net
         IN  /\ http[h].op = "redhcp" /\ http'[h].op = "idle" /\ Others(h)
             /\ UNCHANGED <<nets, bridgeNet, raced, moved, passed, made>>
             /\ \A k \in Nets \ {n} : dhcpNets'[k] = dhcpNets[k]
             /\ dhcpNets'[n] = (IF dhcpNets[n] = 0 THEN 0 ELSE dhcpNets[n] - 1) + IF NameOf(h) = None THEN 0 ELSE 1
             /\ dropped' = IF http[h].old.bridge \in DhcpBridges \/ Disturbed(h, n)
                           THEN dropped \cup {n} ELSE dropped
<1>1. http[h].op = "redhcp" /\ UNCHANGED <<nets, bridgeNet, raced, moved, passed, made>> /\ http' = [http EXCEPT ![h] = Idle]
  BY DEF EditDhcpNets
<1>2. http'[h] = Idle /\ Others(h)
  BY <1>1, OneRequest DEF CatInv, CatTyped, Others
<1>3. PICK n \in Nets : n = http[h].net
  BY <1>1, NetFields DEF NetOps
<1>4. dropped' = IF http[h].old.bridge \in DhcpBridges \/ Disturbed(h, n) THEN dropped \cup {n} ELSE dropped
  BY <1>3 DEF EditDhcpNets
<1>5. dhcpNets' = [Removed(n) EXCEPT ![n] = IF NameOf(h) = None THEN @ ELSE @ + 1]
  BY <1>1, <1>3 DEF EditDhcpNets, NameOf
<1>6. dhcpNets \in [Nets -> Nat]
  BY DEF ConfigTyped
<1>7. PICK f : f = Removed(n)
  OBVIOUS
<1>8. /\ DOMAIN f = Nets /\ \A k \in Nets \ {n} : f[k] = dhcpNets[k]
      /\ f[n] = IF dhcpNets[n] = 0 THEN 0 ELSE dhcpNets[n] - 1
      /\ f[n] \in Nat
  BY <1>6, <1>7 DEF Removed
<1>9. dhcpNets' = [f EXCEPT ![n] = IF NameOf(h) = None THEN f[n] ELSE f[n] + 1]
  BY <1>5, <1>7
<1>10. /\ \A k \in Nets \ {n} : dhcpNets'[k] = f[k]
       /\ dhcpNets'[n] = IF NameOf(h) = None THEN f[n] ELSE f[n] + 1
  BY <1>8, <1>9
<1>11. dhcpNets'[n] = (IF dhcpNets[n] = 0 THEN 0 ELSE dhcpNets[n] - 1) + IF NameOf(h) = None THEN 0 ELSE 1
  BY <1>8, <1>10
<1> QED BY <1>1, <1>2, <1>3, <1>4, <1>8, <1>10, <1>11

LEMMA FreeNetNets ==
  ASSUME CatInv, ConfigTyped, NEW h \in HttpThreads, FreeNet(h)
  PROVE  LET n == http[h].net
         IN  /\ http[h].op = "free" /\ http'[h].op = "idle" /\ Others(h) /\ UNCHANGED <<nets, excused, made>>
             /\ \A b \in Bridges : bridgeNet'[b] = IF bridgeNet[b] = n THEN None ELSE bridgeNet[b]
             /\ \A k \in Nets \ {n} : dhcpNets'[k] = dhcpNets[k]
             /\ dhcpNets'[n] = IF dhcpNets[n] = 0 THEN 0 ELSE dhcpNets[n] - 1
<1>1. http[h].op = "free" /\ UNCHANGED <<nets, excused, made>> /\ http' = [http EXCEPT ![h] = Idle]
  BY DEF FreeNet, excused
<1>2. http'[h] = Idle /\ Others(h)
  BY <1>1, OneRequest DEF CatInv, CatTyped, Others
<1>3. PICK n \in Nets : n = http[h].net
  BY <1>1, NetFields DEF NetOps
<1>4. dhcpNets \in [Nets -> Nat]
  BY DEF ConfigTyped
<1>5. dhcpNets' = [dhcpNets EXCEPT ![n] = IF @ = 0 THEN 0 ELSE @ - 1]
  BY <1>3 DEF FreeNet, Removed
<1>6. \A b \in Bridges : bridgeNet'[b] = IF bridgeNet[b] = n THEN None ELSE bridgeNet[b]
  BY <1>3 DEF FreeNet
<1>7. /\ \A k \in Nets \ {n} : dhcpNets'[k] = dhcpNets[k]
      /\ dhcpNets'[n] = IF dhcpNets[n] = 0 THEN 0 ELSE dhcpNets[n] - 1
  BY <1>4, <1>5
<1> QED BY <1>1, <1>2, <1>3, <1>6, <1>7

-----------------------------------------------------------------------------
(* The bridges *)

\* A step that touches no table and neither marks nor frees.
LEMMA QuietBridges ==
  ASSUME NEW h \in HttpThreads, Others(h), UNCHANGED <<nets, bridgeNet, raced, moved>>, BridgeInv,
         http[h].op \notin {"mark", "free"}, http'[h].op \notin {"mark", "free"}, NewNetsAreNew'
  PROVE  BridgeInv'
<1>1. \A n : (NetAsked({"mark"}, n)' <=> NetAsked({"mark"}, n)) /\ (NetAsked({"free"}, n)' <=> NetAsked({"free"}, n))
  BY DEF NetAsked, Others
<1>2. \A n : (Exists(n)' <=> Exists(n)) /\ \A b : OnBridge(n, b)' <=> OnBridge(n, b)
  BY DEF OnBridge, Exists
<1>3. \A k \in HttpThreads : http'[k].op \in {"mark", "free"} => http'[k] = http[k]
  BY DEF Others
<1>4. GoneStayGone' /\ MarksAreRight'
  BY <1>2, <1>3 DEF BridgeInv, GoneStayGone, MarksAreRight
<1>5. OneOnABridge'
  BY <1>2 DEF BridgeInv, OneOnABridge
<1>6. BridgesHaveNets' /\ NetsHaveBridges'
  BY <1>1, <1>2 DEF BridgeInv, BridgesHaveNets, NetsHaveBridges
<1>7. FreedAreUnused'
  BY <1>1, <1>2 DEF BridgeInv, FreedAreUnused
<1>8. RacesAreAlone'
  BY <1>1, <1>2, <1>3 DEF BridgeInv, RacesAreAlone
<1> QED BY <1>4, <1>5, <1>6, <1>7, <1>8 DEF BridgeInv

\* A request that ends, or goes on with its network.
LEMMA SameNets ==
  ASSUME NewNetsAreNew, NEW h \in HttpThreads, Others(h), UNCHANGED <<raced, made>>,
         \A n \in Nets : Exists(n)' => Exists(n),
         \/ http'[h].op \notin NetOps
         \/ /\ http[h].op \in NetOps /\ http'[h].op \in NetOps \ {"mark"} /\ http'[h].net = http[h].net
            /\ http'[h].op \in {"choose", "insert"} => http[h].op \in {"choose", "insert"}
            /\ http[h].net \in Nets,
         ConfigTyped
  PROVE  NewNetsAreNew'
<1>1. \A k \in HttpThreads : http'[k].op \in NetOps => http[k].op \in NetOps /\ http'[k].net = http[k].net /\ http[k].net \in Nets
  BY NetFields DEF Others
<1>2. \A k \in HttpThreads : http'[k].op \in {"choose", "insert"} =>
        http[k].op \in {"choose", "insert"} /\ http'[k].net = http[k].net /\ http[k].net \in Nets
  BY <1>1 DEF Others, NetOps
<1>3. \A k \in HttpThreads : http'[k].op = "mark" => http[k].op = "mark" /\ http'[k].net = http[k].net
  BY <1>1 DEF Others, NetOps
<1>4. \A k \in HttpThreads : http'[k].op \in NetOps => http'[k].net \in made'
  BY <1>1 DEF NewNetsAreNew
<1>5. \A k \in HttpThreads : http'[k].op \in {"choose", "insert"} =>
        /\ ~Exists(http[k].net)' /\ http'[k].net \notin raced'
        /\ \A j \in HttpThreads \ {k} : http'[j].op \in NetOps => http'[j].net # http'[k].net
  <2> SUFFICES ASSUME NEW k \in HttpThreads, http'[k].op \in {"choose", "insert"}
               PROVE  /\ ~Exists(http[k].net)' /\ http'[k].net \notin raced'
                      /\ \A j \in HttpThreads \ {k} : http'[j].op \in NetOps => http'[j].net # http'[k].net
    OBVIOUS
  <2>1. PICK n \in Nets : n = http[k].net
    BY <1>2
  <2>2. /\ http[k].op \in {"choose", "insert"} /\ http'[k].net = n
        /\ ~Exists(n) /\ n \notin raced
        /\ \A j \in HttpThreads \ {k} : http[j].op \in NetOps => http[j].net # n
    BY <1>2, <2>1 DEF NewNetsAreNew
  <2>3. ~Exists(n)'
    BY <2>2
  <2>4. \A j \in HttpThreads \ {k} : http'[j].op \in NetOps => http'[j].net # n
    BY <1>1, <2>2
  <2>5. ~Exists(http[k].net)'
    BY <2>2, <2>3 DEF Exists
  <2> QED BY <2>2, <2>4, <2>5
<1>6. \A k, j \in HttpThreads :
        http'[k].op = "mark" /\ http'[j].op = "mark" /\ http'[k].net = http'[j].net => k = j
  BY <1>3 DEF NewNetsAreNew
<1>7. (\A n \in Nets : Exists(n)' => n \in made') /\ raced' \subseteq made'
  BY DEF NewNetsAreNew
<1> QED BY <1>4, <1>5, <1>6, <1>7 DEF NewNetsAreNew

LEMMA NewNetworkBridge ==
  ASSUME CatInv, VlanInv, ConfigTyped, BridgeInv, NEW h \in HttpThreads, NEW r \in Row, NewNetwork(h, r)
  PROVE  BridgeInv'
<1>1. /\ http[h].op = "idle" /\ http'[h].op \in {"choose", "insert"} /\ Others(h)
      /\ http'[h].net \in Nets \ made /\ made' = made \cup {http'[h].net}
      /\ UNCHANGED <<nets, bridgeNet, raced, moved>>
  BY NewNetworkNets DEF memory, excused
<1>2. NewNetsAreNew
  BY DEF BridgeInv
<1>3. PICK n \in Nets \ made : n = http'[h].net
  BY <1>1
<1>4. ~Exists(n) /\ n \notin raced
  BY <1>2, <1>3 DEF NewNetsAreNew
<1>5. \A k \in HttpThreads \ {h} : http'[k].op \in NetOps => http'[k].net \in made /\ http'[k].net # n
  BY <1>1, <1>2, <1>3 DEF Others, NewNetsAreNew
<1>6. NewNetsAreNew'
  <2>1. \A k \in HttpThreads : http'[k].op \in NetOps => http'[k].net \in made'
    BY <1>1, <1>3, <1>5
  <2>2. \A k \in HttpThreads : http'[k].op \in {"choose", "insert"} =>
          /\ ~Exists(http[k].net)' /\ http'[k].net \notin raced'
          /\ \A j \in HttpThreads \ {k} : http'[j].op \in NetOps => http'[j].net # http'[k].net
    <3>1. ASSUME NEW k \in HttpThreads \ {h}, http'[k].op \in {"choose", "insert"}
          PROVE  /\ ~Exists(http[k].net)' /\ http'[k].net \notin raced'
                 /\ \A j \in HttpThreads \ {k} : http'[j].op \in NetOps => http'[j].net # http'[k].net
      <4>1. http'[k] = http[k] /\ http[k].op \in NetOps
        BY <1>1, <3>1 DEF Others, NetOps
      <4>2. /\ ~Exists(http[k].net) /\ http[k].net \notin raced
            /\ \A j \in HttpThreads \ {k} : http[j].op \in NetOps => http[j].net # http[k].net
        BY <1>2, <3>1, <4>1 DEF NewNetsAreNew
      <4>3. ~Exists(http[k].net)' /\ http'[k].net \notin raced'
        BY <1>1, <4>1, <4>2 DEF Exists
      <4>4. ASSUME NEW j \in HttpThreads \ {k}, http'[j].op \in NetOps PROVE http'[j].net # http'[k].net
        <5>1. CASE j = h
          BY <1>3, <1>5, <4>1, <5>1
        <5>2. CASE j # h
          BY <1>1, <4>1, <4>2, <4>4, <5>2 DEF Others
        <5> QED BY <5>1, <5>2
      <4> QED BY <4>3, <4>4
    <3>2. /\ ~Exists(http[h].net)' /\ http'[h].net \notin raced'
          /\ \A j \in HttpThreads \ {h} : http'[j].op \in NetOps => http'[j].net # http'[h].net
      BY <1>1, <1>3, <1>4, <1>5 DEF Exists
    <3> QED BY <3>1, <3>2
  <2>3. \A k, j \in HttpThreads :
          http'[k].op = "mark" /\ http'[j].op = "mark" /\ http'[k].net = http'[j].net => k = j
    BY <1>1, <1>2 DEF Others, NewNetsAreNew
  <2>4. (\A k \in Nets : Exists(k)' => k \in made') /\ raced' \subseteq made'
    BY <1>1, <1>2 DEF NewNetsAreNew, Exists
  <2> QED BY <2>1, <2>2, <2>3, <2>4 DEF NewNetsAreNew
<1> QED BY <1>1, <1>6, QuietBridges

LEMMA EditNetworkBridge ==
  ASSUME CatInv, VlanInv, ConfigTyped, BridgeInv, NEW h \in HttpThreads, NEW n \in Nets, NEW c, NEW v,
         EditNetwork(h, n, c, v),
         \/ c = "vlan" /\ v \in Explicit
         \/ c = "bridge" /\ v \in Bridges
         \/ c = "name" /\ v \in Names
  PROVE  BridgeInv'
<1>1. /\ http[h].op = "idle" /\ http'[h].op = "update" /\ Others(h)
      /\ http'[h].net = n /\ Exists(n)
      /\ UNCHANGED <<nets, bridgeNet, raced, moved, passed, made>>
  BY EditNetworkNets DEF memory, excused
<1>2. NewNetsAreNew
  BY DEF BridgeInv
<1>3. \A k \in HttpThreads : http'[k].op \in {"choose", "insert", "mark"} => k # h /\ http'[k] = http[k]
  BY <1>1 DEF Others
<1>4. NewNetsAreNew'
  <2>1. \A k \in HttpThreads : http'[k].op \in NetOps => http'[k].net \in made'
    BY <1>1, <1>2 DEF Others, NewNetsAreNew
  <2>2. \A k \in HttpThreads : http'[k].op \in {"choose", "insert"} =>
          /\ ~Exists(http[k].net)' /\ http'[k].net \notin raced'
          /\ \A j \in HttpThreads \ {k} : http'[j].op \in NetOps => http'[j].net # http'[k].net
    <3> SUFFICES ASSUME NEW k \in HttpThreads, http'[k].op \in {"choose", "insert"}
                 PROVE  /\ ~Exists(http[k].net)' /\ http'[k].net \notin raced'
                        /\ \A j \in HttpThreads \ {k} : http'[j].op \in NetOps => http'[j].net # http'[k].net
      OBVIOUS
    <3>1. k # h /\ http'[k] = http[k]
      BY <1>3
    <3>2. /\ ~Exists(http[k].net) /\ http[k].net \notin raced
          /\ \A j \in HttpThreads \ {k} : http[j].op \in NetOps => http[j].net # http[k].net
      BY <1>2, <3>1 DEF NewNetsAreNew
    <3>3. ~Exists(http[k].net)' /\ http'[k].net \notin raced'
      BY <1>1, <3>1, <3>2 DEF Exists
    <3>4. http'[h].net # http'[k].net
      BY <1>1, <3>1, <3>2
    <3> QED BY <1>1, <3>1, <3>2, <3>3, <3>4 DEF Others
  <2>3. \A k, j \in HttpThreads :
          http'[k].op = "mark" /\ http'[j].op = "mark" /\ http'[k].net = http'[j].net => k = j
    BY <1>2, <1>3 DEF NewNetsAreNew
  <2>4. (\A k \in Nets : Exists(k)' => k \in made') /\ raced' \subseteq made'
    BY <1>1, <1>2 DEF NewNetsAreNew, Exists
  <2> QED BY <2>1, <2>2, <2>3, <2>4 DEF NewNetsAreNew
<1> QED BY <1>1, <1>4, QuietBridges

\* The steps that go on with a request, or end it, and touch no bridge.
LEMMA QuietStepBridge ==
  ASSUME CatInv, VlanInv, ConfigTyped, BridgeInv, NEW h \in HttpThreads,
         \/ GetFreeNetVlan(h)
         \/ EditDhcpNets(h)
         \/ (InsertNet(h) \/ UpdateNet(h)) /\ http'[h].op = "idle"
  PROVE  BridgeInv'
<1>1. /\ http[h].op \in {"choose", "insert", "update", "redhcp"} /\ Others(h)
      /\ UNCHANGED <<nets, bridgeNet, raced, moved, passed, made>>
      /\ \/ http'[h].op = "idle"
         \/ /\ http[h].op = "choose" /\ http'[h].op \in {"choose", "insert"} /\ http'[h].net = http[h].net
  <2>1. CASE GetFreeNetVlan(h)
    BY <2>1, GetFreeNetVlanNets DEF memory, excused
  <2>2. CASE EditDhcpNets(h)
    BY <2>2, EditDhcpNetsNets
  <2>3. CASE InsertNet(h) /\ http'[h].op = "idle"
    BY <2>3, InsertNetNets DEF memory, excused
  <2>4. CASE UpdateNet(h) /\ http'[h].op = "idle"
    BY <2>4, UpdateNetNets DEF memory
  <2> QED BY <2>1, <2>2, <2>3, <2>4
<1>2. http[h].op \in NetOps /\ http[h].net \in Nets
  BY <1>1, NetFields DEF NetOps
<1>3. \/ http'[h].op \notin NetOps
      \/ /\ http[h].op \in NetOps /\ http'[h].op \in NetOps \ {"mark"} /\ http'[h].net = http[h].net
         /\ http'[h].op \in {"choose", "insert"} => http[h].op \in {"choose", "insert"}
         /\ http[h].net \in Nets
  BY <1>1, <1>2 DEF NetOps
<1>4. \A n \in Nets : Exists(n)' => Exists(n)
  BY <1>1 DEF Exists
<1>5. NewNetsAreNew'
  BY <1>1, <1>3, <1>4, SameNets DEF BridgeInv
<1> QED BY <1>1, <1>5, QuietBridges

LEMMA DeleteNetworkBridge ==
  ASSUME CatInv, VlanInv, ConfigTyped, BridgeInv, NEW h \in HttpThreads, NEW n \in Nets, DeleteNetwork(h, n)
  PROVE  BridgeInv'
<1>1. /\ http[h].op = "idle" /\ http'[h].op = "free" /\ Others(h)
      /\ http'[h].net = n /\ Exists(n)
      /\ \A k \in Nets : nets'[k] = IF k = n THEN None ELSE nets[k]
      /\ raced' = IF NetAsked({"mark"}, n) THEN raced \cup {n} ELSE raced
      /\ UNCHANGED <<bridgeNet, moved, made>>
  BY DeleteNetworkNets DEF memory
<1>2. /\ NewNetsAreNew /\ GoneStayGone /\ OneOnABridge /\ MarksAreRight
      /\ BridgesHaveNets /\ NetsHaveBridges /\ FreedAreUnused /\ RacesAreAlone
  BY DEF BridgeInv
<1>3. ~Exists(n)' /\ \A k \in Nets : Exists(k)' <=> k # n /\ Exists(k)
  BY <1>1 DEF Exists
<1>4. \A k \in Nets, b \in Bridges : OnBridge(k, b)' <=> k # n /\ OnBridge(k, b)
  BY <1>1, <1>3 DEF OnBridge
<1>5. \A k : NetAsked({"mark"}, k)' <=> NetAsked({"mark"}, k)
  BY <1>1 DEF NetAsked, Others
<1>6. \A k : NetAsked({"free"}, k)' <=> k = n \/ NetAsked({"free"}, k)
  BY <1>1 DEF NetAsked, Others
<1>7. \A k \in HttpThreads : http'[k].op \in NetOps \ {"free"} =>
        k # h /\ http'[k] = http[k] /\ http[k].net \in Nets
  BY <1>1, NetFields DEF Others
<1>8. raced \subseteq raced' /\ raced' \subseteq raced \cup {n}
  BY <1>1
<1>9. NewNetsAreNew'
  <2>1. n \in made
    BY <1>1, <1>2 DEF NewNetsAreNew
  <2>2. \A k \in HttpThreads : http'[k].op \in NetOps => http'[k].net \in made'
    BY <1>1, <1>2, <2>1 DEF Others, NewNetsAreNew
  <2>3. ASSUME NEW k \in HttpThreads, http'[k].op \in {"choose", "insert"}
        PROVE  /\ ~Exists(http[k].net)' /\ http'[k].net \notin raced'
               /\ \A j \in HttpThreads \ {k} : http'[j].op \in NetOps => http'[j].net # http'[k].net
    <3>1. k # h /\ http'[k] = http[k] /\ http[k].net \in Nets
      BY <1>7, <2>3 DEF NetOps
    <3>2. /\ ~Exists(http[k].net) /\ http[k].net \notin raced
          /\ \A j \in HttpThreads \ {k} : http[j].op \in NetOps => http[j].net # http[k].net
      BY <1>2, <2>3, <3>1 DEF NewNetsAreNew
    <3>3. http[k].net # n
      BY <1>1, <3>2
    <3>4. nets'[http[k].net] = nets[http[k].net]
      BY <1>1, <3>1, <3>3
    <3> QED BY <1>1, <1>8, <3>1, <3>2, <3>3, <3>4 DEF Others, Exists
  <2>4. \A k, j \in HttpThreads :
          http'[k].op = "mark" /\ http'[j].op = "mark" /\ http'[k].net = http'[j].net => k = j
    BY <1>1, <1>2 DEF Others, NewNetsAreNew
  <2>5. (\A k \in Nets : Exists(k)' => k \in made') /\ raced' \subseteq made'
    BY <1>1, <1>2, <1>3, <1>8, <2>1 DEF NewNetsAreNew
  <2>6. \A k \in HttpThreads : http'[k].op \in {"choose", "insert"} => http'[k] = http[k]
    BY <1>7 DEF NetOps
  <2> QED BY <2>2, <2>3, <2>4, <2>5, <2>6 DEF NewNetsAreNew, Exists
<1>10. GoneStayGone'
  <2>1. ASSUME NEW k \in HttpThreads, http'[k].op = "free" PROVE nets'[http'[k].net] = None
    <3>1. CASE k = h
      BY <1>1, <3>1
    <3>2. CASE k # h
      <4>1. http'[k] = http[k] /\ http[k].net \in Nets /\ nets[http[k].net] = None
        BY <1>1, <1>2, <2>1, <3>2, NetFields DEF Others, GoneStayGone, NetOps, Exists
      <4> QED BY <1>1, <4>1
    <3> QED BY <3>1, <3>2
  <2>2. raced' \subseteq Nets => \A k \in raced' : ~Exists(k)'
    BY <1>2, <1>3, <1>8 DEF GoneStayGone
  <2>3. raced \subseteq Nets
    BY <1>2 DEF NewNetsAreNew, VlanInv, VlanTyped
  <2> QED BY <1>8, <2>1, <2>2, <2>3 DEF GoneStayGone, Exists
<1>11. OneOnABridge'
  BY <1>2, <1>4 DEF OneOnABridge
<1>12. MarksAreRight'
  <2> SUFFICES ASSUME NEW k \in HttpThreads, http'[k].op = "mark"
               PROVE  IF nets'[http'[k].net] # None
                      THEN \/ nets'[http'[k].net].bridge = http'[k].row.bridge
                           \/ {nets'[http'[k].net].bridge, http'[k].row.bridge} \subseteq moved'
                      ELSE http'[k].net \in raced'
    BY DEF MarksAreRight, Exists
  <2>1. k # h /\ http'[k] = http[k] /\ http[k].net \in Nets
    BY <1>7 DEF NetOps
  <2>2. CASE http[k].net = n
    <3>1. NetAsked({"mark"}, n)
      BY <2>1, <2>2 DEF NetAsked
    <3> QED BY <1>1, <2>1, <2>2, <3>1
  <2>3. CASE http[k].net # n
    <3>1. nets'[http[k].net] = nets[http[k].net]
      BY <1>1, <2>1, <2>3
    <3> QED BY <1>1, <1>2, <1>8, <2>1, <3>1 DEF MarksAreRight, Exists
  <2> QED BY <2>2, <2>3
<1>13. BridgesHaveNets'
  BY <1>1, <1>2, <1>4, <1>5, <1>8 DEF BridgesHaveNets
<1>14. bridgeNet \in [Bridges -> Nets \cup {None}] /\ None \notin Nets
  BY VlansAreNumbers DEF ConfigTyped
<1>15. NetsHaveBridges'
  BY <1>1, <1>2, <1>4, <1>6, <1>8, <1>14 DEF NetsHaveBridges
<1>16. FreedAreUnused'
  <2> SUFFICES ASSUME NEW b \in Bridges \ moved, NetAsked({"free"}, bridgeNet[b])', NEW k \in Nets, OnBridge(k, b)'
               PROVE  NetAsked({"mark"}, k)'
    BY <1>1 DEF FreedAreUnused
  <2>1. k # n /\ OnBridge(k, b)
    BY <1>4
  <2>2. bridgeNet[b] = n \/ NetAsked({"free"}, bridgeNet[b])
    BY <1>1, <1>6
  <2>3. CASE bridgeNet[b] = n
    <3>1. n \notin raced /\ ~NetAsked({"free"}, n)
      BY <1>1, <1>2 DEF GoneStayGone, NetAsked
    <3>2. OnBridge(n, b)
      BY <1>2, <1>14, <2>3, <3>1 DEF NetsHaveBridges
    <3> QED BY <1>2, <2>1, <3>2 DEF OneOnABridge
  <2>4. CASE NetAsked({"free"}, bridgeNet[b])
    BY <1>2, <1>5, <2>1, <2>4 DEF FreedAreUnused
  <2> QED BY <2>2, <2>3, <2>4
<1>17. RacesAreAlone'
  <2> SUFFICES ASSUME NEW k \in HttpThreads, NEW b \in Bridges \ moved,
                      http'[k].op = "mark", http'[k].row.bridge = b, NetAsked({"free"}, http[k].net)',
                      NEW m \in Nets
               PROVE  ~OnBridge(m, b)'
    <3>1. \A k \in HttpThreads : http'[k].op = "mark" => http'[k] = http[k]
      BY <1>7 DEF NetOps
    <3> QED BY <1>1, <3>1 DEF RacesAreAlone, NetAsked
  <2>1. http'[k] = http[k] /\ http[k].net \in Nets
    BY <1>7 DEF NetOps
  <2>2. CASE http[k].net = n
    <3>1. OnBridge(n, b)
      BY <1>1, <1>2, <2>1, <2>2 DEF MarksAreRight, OnBridge
    <3> QED BY <1>2, <1>4, <3>1 DEF OneOnABridge
  <2>3. CASE NetAsked({"free"}, http[k].net)
    BY <1>2, <1>4, <2>1, <2>3 DEF RacesAreAlone
  <2>4. http[k].net = n \/ NetAsked({"free"}, http[k].net)
    BY <1>6, <2>1
  <2> QED BY <2>2, <2>3, <2>4
<1> QED BY <1>9, <1>10, <1>11, <1>12, <1>13, <1>15, <1>16, <1>17 DEF BridgeInv

LEMMA InsertNetBridge ==
  ASSUME CatInv, VlanInv, ConfigTyped, BridgeInv, NEW h \in HttpThreads, InsertNet(h), http'[h].op # "idle"
  PROVE  BridgeInv'
<1>1. PICK n \in Nets, r \in Row : n = http[h].net /\ r = http[h].row
  BY InsertNetNets, NetFields DEF NetOps
<1>2. /\ http[h].op = "insert" /\ http'[h].op = "mark" /\ Others(h)
      /\ http'[h].net = n /\ http'[h].row = r
      /\ ~Conflicts(n, r)
      /\ \A k \in Nets : nets'[k] = IF k = n THEN r ELSE nets[k]
      /\ UNCHANGED <<bridgeNet, raced, moved, made>>
  BY <1>1, InsertNetNets DEF memory, excused
<1>3. /\ NewNetsAreNew /\ GoneStayGone /\ OneOnABridge /\ MarksAreRight
      /\ BridgesHaveNets /\ NetsHaveBridges /\ FreedAreUnused /\ RacesAreAlone
  BY DEF BridgeInv
<1>4. /\ ~Exists(n) /\ n \notin raced /\ n \in made
      /\ \A k \in HttpThreads \ {h} : http[k].op \in NetOps => http[k].net # n
  BY <1>1, <1>2, <1>3 DEF NewNetsAreNew, NetOps
<1>5. Exists(n)' /\ \A k \in Nets : Exists(k)' <=> k = n \/ Exists(k)
  BY <1>2, NoneIsNoRow DEF Exists
<1>6. \A k \in Nets, b \in Bridges : OnBridge(k, b)' <=> (IF k = n THEN r.bridge = b ELSE OnBridge(k, b))
  BY <1>2, <1>5 DEF OnBridge, Exists
<1>7. \A k : NetAsked({"mark"}, k)' <=> k = n \/ NetAsked({"mark"}, k)
  BY <1>2 DEF NetAsked, Others
<1>8. \A k : NetAsked({"free"}, k)' <=> NetAsked({"free"}, k)
  BY <1>2 DEF NetAsked, Others
<1>9. \A k \in HttpThreads \ {h} : http'[k] = http[k] /\ (http[k].op \in NetOps => http[k].net \in Nets \ {n})
  BY <1>2, <1>4, NetFields DEF Others
<1>10. NewNetsAreNew'
  <2>1. \A k \in HttpThreads : http'[k].op \in NetOps => http'[k].net \in made'
    BY <1>2, <1>3, <1>4 DEF Others, NewNetsAreNew
  <2>2. ASSUME NEW k \in HttpThreads, http'[k].op \in {"choose", "insert"}
        PROVE  /\ nets'[http'[k].net] = None /\ http'[k].net \notin raced'
               /\ \A j \in HttpThreads \ {k} : http'[j].op \in NetOps => http'[j].net # http'[k].net
    <3>1. k # h /\ http'[k] = http[k] /\ http[k].net \in Nets \ {n} /\ http[k].op \in {"choose", "insert"}
      BY <1>2, <1>9, <2>2 DEF NetOps
    <3>2. /\ nets[http[k].net] = None /\ http[k].net \notin raced
          /\ \A j \in HttpThreads \ {k} : http[j].op \in NetOps => http[j].net # http[k].net
      BY <1>3, <3>1 DEF NewNetsAreNew, Exists
    <3>3. nets'[http[k].net] = nets[http[k].net]
      BY <1>2, <3>1
    <3> QED BY <1>2, <1>9, <3>1, <3>2, <3>3
  <2>3. \A k, j \in HttpThreads :
          http'[k].op = "mark" /\ http'[j].op = "mark" /\ http'[k].net = http'[j].net => k = j
    BY <1>2, <1>3, <1>9 DEF NewNetsAreNew, NetOps
  <2>4. (\A k \in Nets : Exists(k)' => k \in made') /\ raced' \subseteq made'
    BY <1>2, <1>3, <1>4, <1>5 DEF NewNetsAreNew
  <2> QED BY <2>1, <2>2, <2>3, <2>4 DEF NewNetsAreNew, Exists
<1>11. GoneStayGone'
  <2>1. ASSUME NEW k \in HttpThreads, http'[k].op = "free" PROVE nets'[http'[k].net] = None
    <3>1. k # h /\ http'[k] = http[k] /\ http[k].net \in Nets \ {n}
      BY <1>2, <1>9, <2>1 DEF NetOps
    <3>2. nets'[http[k].net] = nets[http[k].net]
      BY <1>2, <3>1
    <3> QED BY <1>3, <2>1, <3>1, <3>2 DEF GoneStayGone, Exists
  <2>2. \A k \in raced' : nets'[k] = None
    <3>1. raced \subseteq Nets \ {n}
      BY <1>3, <1>4 DEF NewNetsAreNew, VlanInv, VlanTyped
    <3> QED BY <1>2, <1>3, <3>1 DEF GoneStayGone, Exists
  <2> QED BY <2>1, <2>2 DEF GoneStayGone, Exists
<1>12. OneOnABridge'
  <2>1. \A b \in Bridges, k \in Nets \ {n} : r.bridge = b => ~OnBridge(k, b)
    BY <1>2, VlansAreNumbers DEF Conflicts, OnBridge
  <2> QED BY <1>3, <1>6, <2>1 DEF OneOnABridge
<1>13. MarksAreRight'
  <2> SUFFICES ASSUME NEW k \in HttpThreads, http'[k].op = "mark"
               PROVE  IF nets'[http'[k].net] # None
                      THEN \/ nets'[http'[k].net].bridge = http'[k].row.bridge
                           \/ {nets'[http'[k].net].bridge, http'[k].row.bridge} \subseteq moved'
                      ELSE http'[k].net \in raced'
    BY DEF MarksAreRight, Exists
  <2>1. CASE k = h
    BY <1>2, <1>5, <2>1 DEF Exists
  <2>2. CASE k # h
    <3>1. http'[k] = http[k] /\ http[k].net \in Nets \ {n}
      BY <1>9, <2>2 DEF NetOps
    <3>2. nets'[http[k].net] = nets[http[k].net]
      BY <1>2, <3>1
    <3> QED BY <1>2, <1>3, <3>1, <3>2 DEF MarksAreRight, Exists
  <2> QED BY <2>1, <2>2
<1>14. BridgesHaveNets'
  BY <1>2, <1>3, <1>6, <1>7 DEF BridgesHaveNets
<1>15. bridgeNet \in [Bridges -> Nets \cup {None}] /\ None \notin Nets
  BY VlansAreNumbers DEF ConfigTyped
<1>16. NetsHaveBridges'
  <2>1. \A k \in Nets, b \in Bridges : OnBridge(k, b) => OnBridge(k, b)'
    BY <1>4, <1>6 DEF OnBridge
  <2> QED BY <1>2, <1>3, <1>8, <1>15, <2>1 DEF NetsHaveBridges
<1>17. FreedAreUnused'
  BY <1>2, <1>3, <1>6, <1>7, <1>8 DEF FreedAreUnused
<1>18. RacesAreAlone'
  <2> SUFFICES ASSUME NEW k \in HttpThreads, http'[k].op = "mark",
                      NEW j \in HttpThreads, http'[j].op = "free", http'[j].net = http'[k].net
               PROVE  FALSE
    BY DEF RacesAreAlone, NetAsked
  <2>1. j # h /\ j # k
    BY <1>2
  <2>2. k = h
    BY <2>1, TwoServers
  <2> QED BY <1>2, <1>9, <2>1, <2>2 DEF NetOps
<1> QED BY <1>10, <1>11, <1>12, <1>13, <1>14, <1>16, <1>17, <1>18 DEF BridgeInv

LEMMA MarkNetBridge ==
  ASSUME CatInv, VlanInv, ConfigTyped, BridgeInv, NEW h \in HttpThreads, MarkNet(h)
  PROVE  BridgeInv'
<1>1. PICK n \in Nets, r \in Row : n = http[h].net /\ r = http[h].row
  BY MarkNetNets, NetFields DEF NetOps
<1>2. /\ http[h].op = "mark" /\ http'[h].op = "idle" /\ Others(h)
      /\ UNCHANGED <<nets, raced, moved, made>>
      /\ \A b \in Bridges : bridgeNet'[b] = IF b = r.bridge THEN n ELSE bridgeNet[b]
  BY <1>1, MarkNetNets DEF excused
<1>3. /\ NewNetsAreNew /\ GoneStayGone /\ OneOnABridge /\ MarksAreRight
      /\ BridgesHaveNets /\ NetsHaveBridges /\ FreedAreUnused /\ RacesAreAlone
  BY DEF BridgeInv
<1>4. \A k : (Exists(k)' <=> Exists(k)) /\ \A b : OnBridge(k, b)' <=> OnBridge(k, b)
  BY <1>2 DEF OnBridge, Exists
<1>5. \A k : NetAsked({"free"}, k)' <=> NetAsked({"free"}, k)
  BY <1>2 DEF NetAsked, Others
<1>6. \A k \in Nets \ {n} : NetAsked({"mark"}, k) => NetAsked({"mark"}, k)'
  BY <1>1, <1>2 DEF NetAsked, Others
<1>7. \A k \in HttpThreads : http'[k].op \in {"mark", "free"} => http'[k] = http[k]
  BY <1>2 DEF Others
<1>8. \A b \in Bridges \ moved : b = r.bridge => OnBridge(n, b) \/ n \in raced
  BY <1>1, <1>2, <1>3 DEF MarksAreRight, OnBridge
<1>9. \A b \in Bridges \ moved : OnBridge(n, b) => b = r.bridge
  BY <1>1, <1>2, <1>3 DEF MarksAreRight, OnBridge
<1>10. NewNetsAreNew'
  BY <1>2, <1>3, <1>4, SameNets DEF NetOps
<1>11. GoneStayGone' /\ MarksAreRight'
  BY <1>2, <1>3, <1>4, <1>7 DEF GoneStayGone, MarksAreRight
<1>12. OneOnABridge'
  BY <1>3, <1>4 DEF OneOnABridge
<1>13. BridgesHaveNets'
  <2> SUFFICES ASSUME NEW b \in Bridges \ moved, NEW k \in Nets, OnBridge(k, b)
               PROVE  bridgeNet'[b] = k \/ NetAsked({"mark"}, k)' \/ bridgeNet'[b] \in raced
    BY <1>2, <1>4 DEF BridgesHaveNets
  <2>1. CASE b = r.bridge
    BY <1>2, <1>3, <1>8, <2>1 DEF OneOnABridge
  <2>2. CASE b # r.bridge
    BY <1>2, <1>3, <1>6, <1>9, <2>2 DEF BridgesHaveNets
  <2> QED BY <2>1, <2>2
<1>14. NetsHaveBridges'
  <2> SUFFICES ASSUME NEW b \in Bridges \ moved, bridgeNet'[b] # None
               PROVE  OnBridge(bridgeNet'[b], b) \/ bridgeNet'[b] \in raced \/ NetAsked({"free"}, bridgeNet'[b])
    BY <1>2, <1>4, <1>5 DEF NetsHaveBridges, NetAsked, Others, OnBridge, Exists
  <2> QED BY <1>2, <1>3, <1>8 DEF NetsHaveBridges
<1>15. FreedAreUnused'
  <2> SUFFICES ASSUME NEW b \in Bridges \ moved, NetAsked({"free"}, bridgeNet'[b]), NEW k \in Nets, OnBridge(k, b)
               PROVE  NetAsked({"mark"}, k)'
    BY <1>2, <1>4, <1>5 DEF FreedAreUnused, NetAsked, Others
  <2>1. CASE b = r.bridge
    BY <1>1, <1>2, <1>3, <2>1 DEF RacesAreAlone
  <2>2. CASE b # r.bridge
    BY <1>2, <1>3, <1>6, <1>9, <2>2 DEF FreedAreUnused
  <2> QED BY <2>1, <2>2
<1>16. RacesAreAlone'
  BY <1>2, <1>3, <1>4, <1>5, <1>7 DEF RacesAreAlone, NetAsked, Others
<1> QED BY <1>10, <1>11, <1>12, <1>13, <1>14, <1>15, <1>16 DEF BridgeInv

LEMMA UpdateNetBridge ==
  ASSUME CatInv, VlanInv, ConfigTyped, BridgeInv, NEW h \in HttpThreads, UpdateNet(h), http'[h].op # "idle"
  PROVE  BridgeInv'
<1>1. PICK n \in Nets : n = http[h].net
  BY UpdateNetNets, NetFields DEF NetOps
<1>2. /\ http[h].op = "update" /\ http'[h].op = "redhcp" /\ Others(h) /\ http'[h].net = n
      /\ UNCHANGED <<bridgeNet, raced, made>>
      /\ Exists(n)
  BY <1>1, UpdateNetNets DEF memory
<1>3. PICK r \in Row :
        /\ ~Conflicts(n, r)
        /\ \A k \in Nets : nets'[k] = IF k = n THEN r ELSE nets[k]
        /\ \/ r.bridge = nets[n].bridge /\ moved' = moved \cup {}
           \/ moved' = moved \cup {n, nets[n].bridge, r.bridge}
  BY <1>1, <1>2, UpdateNetNets
<1>4. /\ NewNetsAreNew /\ GoneStayGone /\ OneOnABridge /\ MarksAreRight
      /\ BridgesHaveNets /\ NetsHaveBridges /\ FreedAreUnused /\ RacesAreAlone
  BY DEF BridgeInv
<1>5. \A k \in Nets : Exists(k)' <=> Exists(k)
  BY <1>2, <1>3, NoneIsNoRow DEF Exists
<1>6. moved \subseteq moved' /\ \A b \in Bridges \ moved', k \in Nets : OnBridge(k, b)' <=> OnBridge(k, b)
  <2>1. CASE r.bridge = nets[n].bridge /\ moved' = moved \cup {}
    BY <1>3, <1>5, <2>1 DEF OnBridge
  <2>2. CASE moved' = moved \cup {n, nets[n].bridge, r.bridge}
    BY <1>3, <1>5, <2>2 DEF OnBridge
  <2> QED BY <1>3, <2>1, <2>2
<1>7. \A k : (NetAsked({"mark"}, k)' <=> NetAsked({"mark"}, k)) /\ (NetAsked({"free"}, k)' <=> NetAsked({"free"}, k))
  BY <1>2 DEF NetAsked, Others
<1>8. \A k \in HttpThreads : http'[k].op \in {"mark", "free"} => http'[k] = http[k] /\ http[k].net \in Nets
  BY <1>2, NetFields DEF Others, NetOps
<1>9. NewNetsAreNew'
  BY <1>1, <1>2, <1>4, <1>5, SameNets DEF NetOps
<1>10. GoneStayGone'
  <2>1. \A k \in Nets : nets'[k] = None <=> nets[k] = None
    BY <1>5 DEF Exists
  <2>2. raced \subseteq Nets
    BY <1>4 DEF NewNetsAreNew, VlanInv, VlanTyped
  <2> QED BY <1>2, <1>4, <1>8, <2>1, <2>2 DEF GoneStayGone, Exists
<1>11. OneOnABridge'
  <2>1. \A b \in Bridges, k \in Nets \ {n} : r.bridge = b => ~OnBridge(k, b)
    BY <1>3, VlansAreNumbers DEF Conflicts, OnBridge
  <2>2. \A b \in Bridges, k \in Nets \ {n} : OnBridge(k, b)' <=> OnBridge(k, b)
    BY <1>3, <1>5 DEF OnBridge
  <2>3. \A b \in Bridges : OnBridge(n, b)' => r.bridge = b
    BY <1>3 DEF OnBridge
  <2> QED BY <1>4, <2>1, <2>2, <2>3 DEF OneOnABridge
<1>12. MarksAreRight'
  <2> SUFFICES ASSUME NEW k \in HttpThreads, http'[k].op = "mark"
               PROVE  IF nets'[http'[k].net] # None
                      THEN \/ nets'[http'[k].net].bridge = http'[k].row.bridge
                           \/ {nets'[http'[k].net].bridge, http'[k].row.bridge} \subseteq moved'
                      ELSE http'[k].net \in raced'
    BY DEF MarksAreRight, Exists
  <2>1. http'[k] = http[k] /\ http[k].net \in Nets
    BY <1>8
  <2>2. CASE http[k].net = n
    <3>1. nets[n].bridge = http[k].row.bridge \/ {nets[n].bridge, http[k].row.bridge} \subseteq moved
      BY <1>2, <1>4, <2>1, <2>2 DEF MarksAreRight
    <3>2. nets'[n] = r
      BY <1>3
    <3> QED BY <1>3, <2>1, <2>2, <3>1, <3>2, NoneIsNoRow
  <2>3. CASE http[k].net # n
    <3>1. nets'[http[k].net] = nets[http[k].net]
      BY <1>3, <2>1, <2>3
    <3> QED BY <1>2, <1>4, <1>6, <2>1, <3>1 DEF MarksAreRight, Exists
  <2> QED BY <2>2, <2>3
<1>13. bridgeNet \in [Bridges -> Nets \cup {None}] /\ None \notin Nets
  BY VlansAreNumbers DEF ConfigTyped
<1>14. BridgesHaveNets'
  BY <1>2, <1>4, <1>6, <1>7 DEF BridgesHaveNets
<1>15. NetsHaveBridges'
  BY <1>2, <1>4, <1>6, <1>7, <1>13 DEF NetsHaveBridges
<1>16. FreedAreUnused'
  BY <1>2, <1>4, <1>6, <1>7 DEF FreedAreUnused
<1>17. RacesAreAlone'
  BY <1>4, <1>6, <1>7, <1>8 DEF RacesAreAlone, NetAsked
<1> QED BY <1>9, <1>10, <1>11, <1>12, <1>14, <1>15, <1>16, <1>17 DEF BridgeInv

LEMMA FreeNetBridge ==
  ASSUME CatInv, VlanInv, ConfigTyped, BridgeInv, NEW h \in HttpThreads, FreeNet(h)
  PROVE  BridgeInv'
<1>1. PICK n \in Nets : n = http[h].net
  BY FreeNetNets, NetFields DEF NetOps
<1>2. /\ http[h].op = "free" /\ http'[h].op = "idle" /\ Others(h)
      /\ UNCHANGED <<nets, raced, moved, made>>
      /\ \A b \in Bridges : bridgeNet'[b] = IF bridgeNet[b] = n THEN None ELSE bridgeNet[b]
  BY <1>1, FreeNetNets DEF excused
<1>3. /\ NewNetsAreNew /\ GoneStayGone /\ OneOnABridge /\ MarksAreRight
      /\ BridgesHaveNets /\ NetsHaveBridges /\ FreedAreUnused /\ RacesAreAlone
  BY DEF BridgeInv
<1>4. \A k : (Exists(k)' <=> Exists(k)) /\ \A b : OnBridge(k, b)' <=> OnBridge(k, b)
  BY <1>2 DEF OnBridge, Exists
<1>5. \A k : NetAsked({"mark"}, k)' <=> NetAsked({"mark"}, k)
  BY <1>2 DEF NetAsked, Others
<1>6. /\ NetAsked({"free"}, n)
      /\ \A k : NetAsked({"free"}, k)' => NetAsked({"free"}, k) /\ k \in Nets
      /\ \A k : k # n /\ NetAsked({"free"}, k) => NetAsked({"free"}, k)'
  BY <1>1, <1>2, NetFields DEF NetAsked, Others, NetOps
<1>7. \A k \in HttpThreads : http'[k].op \in {"mark", "free"} => http'[k] = http[k]
  BY <1>2 DEF Others
<1>8. NewNetsAreNew'
  BY <1>2, <1>3, <1>4, SameNets DEF NetOps
<1>9. GoneStayGone' /\ MarksAreRight'
  BY <1>2, <1>3, <1>4, <1>7 DEF GoneStayGone, MarksAreRight
<1>10. OneOnABridge'
  BY <1>3, <1>4 DEF OneOnABridge
<1>11. BridgesHaveNets'
  BY <1>2, <1>3, <1>4, <1>5, <1>6 DEF BridgesHaveNets, FreedAreUnused
<1>12. None \notin Nets
  BY VlansAreNumbers
<1>13. NetsHaveBridges'
  <2> SUFFICES ASSUME NEW b \in Bridges \ moved, NEW x, x = bridgeNet'[b], x # None
               PROVE  OnBridge(x, b)' \/ x \in raced \/ NetAsked({"free"}, x)'
    BY <1>2 DEF NetsHaveBridges, OnBridge, Exists, NetAsked
  <2>1. x = bridgeNet[b] /\ x # n
    BY <1>2
  <2>2. OnBridge(x, b) \/ x \in raced \/ NetAsked({"free"}, x)
    BY <1>3, <2>1 DEF NetsHaveBridges
  <2> QED BY <1>4, <1>6, <2>1, <2>2
<1>14. FreedAreUnused'
  <2> SUFFICES ASSUME NEW b \in Bridges \ moved, NEW x, x = bridgeNet'[b], NetAsked({"free"}, x)',
                      NEW k \in Nets, OnBridge(k, b)'
               PROVE  NetAsked({"mark"}, k)'
    BY <1>2 DEF FreedAreUnused, NetAsked
  <2>1. x \in Nets /\ NetAsked({"free"}, x)
    BY <1>6
  <2>2. x = bridgeNet[b]
    BY <1>2, <1>12, <2>1
  <2> QED BY <1>3, <1>4, <1>5, <2>1, <2>2 DEF FreedAreUnused
<1>15. RacesAreAlone'
  <2> SUFFICES ASSUME NEW k \in HttpThreads, NEW b \in Bridges \ moved, NEW x, x = http'[k].net,
                      http'[k].op = "mark", http'[k].row.bridge = b, NetAsked({"free"}, x)',
                      NEW j \in Nets
               PROVE  ~OnBridge(j, b)'
    BY <1>2 DEF RacesAreAlone, NetAsked
  <2>1. http[k].op = "mark" /\ http[k].row.bridge = b /\ http[k].net = x
    BY <1>7
  <2>2. NetAsked({"free"}, x)
    BY <1>6
  <2>3. ~OnBridge(j, b)
    BY <1>3, <2>1, <2>2 DEF RacesAreAlone
  <2> QED BY <1>4, <2>3
<1> QED BY <1>8, <1>9, <1>10, <1>11, <1>13, <1>14, <1>15 DEF BridgeInv

\* What a start finds on a bridge.
LEMMA LoadedBridgeIs ==
  ASSUME NEW b \in Bridges
  PROVE  /\ LoadedBridge(b) # None => LoadedBridge(b) \in Nets /\ OnBridge(LoadedBridge(b), b)
         /\ \A n \in Nets : OneOnABridge /\ OnBridge(n, b) => LoadedBridge(b) = n
<1>1. CASE \E n \in Nets : Exists(n) /\ nets[n].bridge = b
  <2>1. LoadedBridge(b) \in Nets /\ OnBridge(LoadedBridge(b), b)
    BY <1>1 DEF LoadedBridge, OnBridge
  <2> QED BY <2>1 DEF OneOnABridge
<1>2. CASE ~\E n \in Nets : Exists(n) /\ nets[n].bridge = b
  BY <1>2 DEF LoadedBridge, OnBridge
<1> QED BY <1>1, <1>2

\* Nothing is asked: what was loaded is right.
LEMMA LoadedBridges ==
  ASSUME \A h \in HttpThreads : http[h] = Idle, raced = {}, OneOnABridge,
         \A n \in Nets : Exists(n) => n \in made,
         bridgeNet = [b \in Bridges |-> LoadedBridge(b)]
  PROVE  BridgeInv
<1>1. ASSUME NEW h \in HttpThreads PROVE http[h].op = "idle"
  <2>1. http[h] = Idle
    OBVIOUS
  <2> QED BY <2>1
<1>2. NewNetsAreNew /\ GoneStayGone /\ MarksAreRight /\ RacesAreAlone
  BY <1>1 DEF NewNetsAreNew, GoneStayGone, MarksAreRight, RacesAreAlone, NetOps
<1>3. BridgesHaveNets
  BY LoadedBridgeIs DEF BridgesHaveNets
<1>4. NetsHaveBridges
  BY LoadedBridgeIs DEF NetsHaveBridges
<1>5. FreedAreUnused
  BY <1>1 DEF FreedAreUnused, NetAsked
<1> QED BY <1>2, <1>3, <1>4, <1>5 DEF BridgeInv

LEMMA InitBridge == Init => BridgeInv
<1> SUFFICES ASSUME Init PROVE BridgeInv
  OBVIOUS
<1>1. PICK rows \in Stored(area) : NetworksInit(rows)
  BY DEF Init
<1>2. nets = rows /\ \A n \in Nets : Exists(n) => n = CHOOSE k \in Nets : TRUE
  <2>1. nets = rows
    BY <1>1 DEF NetworksInit
  <2> DEFINE first == CHOOSE k \in Nets : TRUE
             one == {[n \in Nets |-> IF n = first THEN r ELSE None] :
                      r \in {x \in [bridge : Bridges, vlan : {None}, name : Names] :
                              (x.name = None) <=> (x.bridge \in DhcpBridges)}}
  <2>2. rows \in one \/ rows = [n \in Nets |-> None]
    BY <1>1 DEF Stored
  <2>3. CASE rows \in one
    <3>1. PICK r : rows = [n \in Nets |-> IF n = first THEN r ELSE None]
      BY <2>3
    <3> HIDE DEF first
    <3>2. \A n \in Nets : Exists(n) => n = first
      BY <2>1, <3>1 DEF Exists
    <3> QED BY <2>1, <3>2 DEF first
  <2>4. CASE rows = [n \in Nets |-> None]
    BY <2>1, <2>4 DEF Exists
  <2> QED BY <2>2, <2>3, <2>4
<1>3. OneOnABridge
  BY <1>2 DEF OneOnABridge, OnBridge
<1>4. /\ made = {n \in Nets : Exists(n)} /\ raced = {}
      /\ bridgeNet = [b \in Bridges |-> LoadedBridge(b)]
      /\ \A h \in HttpThreads : http[h] = Idle
  BY <1>1 DEF NetworksInit, Init
<1> QED BY <1>3, <1>4, LoadedBridges

LEMMA RestartBridge ==
  ASSUME BridgeInv, Restart
  PROVE  BridgeInv'
<1>1. /\ \A h \in HttpThreads : http'[h] = Idle
      /\ bridgeNet' = [b \in Bridges |-> LoadedBridge(b)] /\ raced' = {} /\ UNCHANGED <<nets, made>>
  BY DEF Restart, LoadNetworks
<1>2. \A h \in HttpThreads : http'[h].op = "idle"
  BY <1>1
<1>3. \A k : (Exists(k)' <=> Exists(k)) /\ \A b : OnBridge(k, b)' <=> OnBridge(k, b)
  BY <1>1 DEF OnBridge, Exists
<1>4. OneOnABridge /\ OneOnABridge'
  BY <1>3 DEF BridgeInv, OneOnABridge
<1>5. NewNetsAreNew' /\ GoneStayGone' /\ MarksAreRight' /\ RacesAreAlone'
  BY <1>1, <1>2, <1>3 DEF BridgeInv, NewNetsAreNew, GoneStayGone, MarksAreRight, RacesAreAlone, NetOps
<1>6. BridgesHaveNets'
  BY <1>1, <1>3, <1>4, LoadedBridgeIs DEF BridgesHaveNets
<1>7. NetsHaveBridges'
  <2> SUFFICES ASSUME NEW b \in Bridges, NEW x, x = bridgeNet'[b], x # None
               PROVE  OnBridge(x, b)'
    BY DEF NetsHaveBridges, OnBridge, Exists
  <2> QED BY <1>1, <1>3, LoadedBridgeIs
<1>8. FreedAreUnused'
  BY <1>2 DEF FreedAreUnused, NetAsked
<1> QED BY <1>4, <1>5, <1>6, <1>7, <1>8 DEF BridgeInv

\* The requests on other things.
LEMMA AsideBridge ==
  ASSUME CatInv, ConfigTyped, BridgeInv, Aside(NetOps), UNCHANGED netVars
  PROVE  BridgeInv'
<1>1. \A k \in HttpThreads : http[k].op \in NetOps \/ http'[k].op \in NetOps => http'[k] = http[k]
  BY AsideTyped DEF CatInv, CatTyped, ConfigTyped
<1>2. UNCHANGED <<nets, bridgeNet, made, raced, moved>>
  BY DEF netVars
<1>3. \A k : (NetAsked({"mark"}, k)' <=> NetAsked({"mark"}, k)) /\ (NetAsked({"free"}, k)' <=> NetAsked({"free"}, k))
  BY <1>1 DEF NetAsked, NetOps
<1>4. \A k : (Exists(k)' <=> Exists(k)) /\ \A b : OnBridge(k, b)' <=> OnBridge(k, b)
  BY <1>2 DEF OnBridge, Exists
<1>5. NewNetsAreNew' /\ GoneStayGone'
  BY <1>1, <1>2, <1>4 DEF BridgeInv, NewNetsAreNew, GoneStayGone, NetOps
<1>6. OneOnABridge' /\ MarksAreRight'
  BY <1>1, <1>2, <1>4 DEF BridgeInv, OneOnABridge, MarksAreRight, NetOps
<1>7. BridgesHaveNets' /\ NetsHaveBridges'
  BY <1>2, <1>3, <1>4 DEF BridgeInv, BridgesHaveNets, NetsHaveBridges
<1>8. FreedAreUnused'
  BY <1>2, <1>3, <1>4 DEF BridgeInv, FreedAreUnused
<1>9. RacesAreAlone'
  <2>1. \A k \in HttpThreads : http'[k].op = "mark" => http'[k] = http[k]
    BY <1>1 DEF NetOps
  <2> QED BY <1>2, <1>3, <1>4, <2>1 DEF BridgeInv, RacesAreAlone
<1> QED BY <1>5, <1>6, <1>7, <1>8, <1>9 DEF BridgeInv

LEMMA RequestBridge ==
  ASSUME CatInv, VlanInv, ConfigTyped, BridgeInv, NEW h \in HttpThreads, NetworkRequest(h) \/ NetworkStep(h)
  PROVE  BridgeInv'
<1>1. CASE NetworkRequest(h)
  BY <1>1, NetworkRequestIs, NewNetworkBridge, EditNetworkBridge, DeleteNetworkBridge
<1>2. CASE NetworkStep(h)
  BY <1>2, QuietStepBridge, InsertNetBridge, MarkNetBridge, UpdateNetBridge, FreeNetBridge DEF NetworkStep
<1> QED BY <1>1, <1>2

LEMMA NextBridge == CatInv /\ VlanInv /\ TypeInv /\ BridgeInv /\ [Next]_vars => BridgeInv'
<1> SUFFICES ASSUME CatInv, VlanInv, TypeInv, BridgeInv, [Next]_vars PROVE BridgeInv'
  OBVIOUS
<1>1. HttpTyped /\ ConfigTyped
  BY DEF CatInv, CatTyped, TypeInv
<1>2. ASSUME NEW h \in HttpThreads, NetworkRequest(h) \/ NetworkStep(h)
      PROVE  BridgeInv'
  BY <1>1, <1>2, RequestBridge
<1>3. CASE /\ ThreadMoves \/ \E h \in HttpThreads : DhcpRequest(h) \/ DhcpStep(h)
           /\ UNCHANGED <<netVars, ofcVars>>
  <2>1. Aside((CatOps \cup NetOps) \cup OfcOps)
    BY <1>1, <1>3, DhcpAside DEF ThreadMoves
  <2> QED BY <1>1, <1>3, <2>1, AsideOfMore, AsideBridge
<1>4. ASSUME NEW h \in HttpThreads, CatalogueRequest(h) \/ CatalogueStep(h),
             UNCHANGED <<netVars, ofcVars>>
      PROVE  BridgeInv'
  <2>1. Aside(NetOps \cup (DhcpOps \cup OfcOps))
    BY <1>4, CatalogueAside
  <2> QED BY <1>1, <1>4, <2>1, AsideOfMore, AsideBridge
<1>5. CASE /\ \/ \E h \in HttpThreads : (area = "controllers" /\ OfcRequest(h)) \/ OfcStep(h)
              \/ \E c \in Known : TakeOfTask(c)
           /\ UNCHANGED <<netVars, dhcpVars, catVars, area>>
  <2>1. Aside((CatOps \cup NetOps) \cup DhcpOps)
    BY <1>1, <1>5, ControllersAside
  <2> QED BY <1>1, <1>5, <2>1, AsideOfMore, AsideBridge
<1>6. CASE Restart
  BY <1>6, RestartBridge
<1>7. CASE UNCHANGED vars
  BY <1>1, <1>7, AsideBridge DEF vars, Aside
<1> QED BY <1>2, <1>3, <1>4, <1>5, <1>6, <1>7 DEF Next, ThreadMoves

\* When nothing is asked no bridge has a request of its own.
LEMMA BridgesAreRight ==
  ASSUME ConfigTyped, BridgeInv, AllAnswered, NEW b \in Bridges \ moved
  PROVE  bridgeNet[b] = LoadedBridge(b) \/ bridgeNet[b] \in raced
<1>1. \A K, n : NetAsked(K, n) => "idle" \in K
  BY DEF AllAnswered, NetAsked
<1>2. \A n \in Nets : OnBridge(n, b) => bridgeNet[b] = n \/ bridgeNet[b] \in raced
  BY <1>1 DEF BridgeInv, BridgesHaveNets
<1>3. bridgeNet[b] # None => OnBridge(bridgeNet[b], b) \/ bridgeNet[b] \in raced
  BY <1>1 DEF BridgeInv, NetsHaveBridges
<1>4. OneOnABridge
  BY DEF BridgeInv
<1>5. CASE LoadedBridge(b) # None
  BY <1>2, <1>5, LoadedBridgeIs
<1>6. CASE LoadedBridge(b) = None
  <2>1. \A n \in Nets : ~OnBridge(n, b)
    BY <1>4, <1>6, LoadedBridgeIs, VlansAreNumbers
  <2>2. bridgeNet[b] \in Nets \cup {None}
    BY DEF ConfigTyped
  <2> QED BY <1>3, <1>6, <2>1, <2>2
<1> QED BY <1>5, <1>6

-----------------------------------------------------------------------------
(* The networks with a dhcp server *)

\* A step that touches no table, and neither marks nor edits dhcp_nets.
LEMMA QuietServed ==
  ASSUME NEW h \in HttpThreads, Others(h), UNCHANGED <<nets, dhcpNets, moved, dropped, passed>>, ServedInv,
         http[h].op \notin {"mark", "redhcp"}, http'[h].op \notin {"mark", "redhcp"},
         http'[h].op = "update" => /\ \A n \in Nets : http'[h].net = n => http'[h].old = nets[n],
         NewAreNotServed'
  PROVE  ServedInv'
<1>1. \A n : (NetAsked({"mark"}, n)' <=> NetAsked({"mark"}, n)) /\ (NetAsked({"redhcp"}, n)' <=> NetAsked({"redhcp"}, n))
  BY DEF NetAsked, Others
<1>2. \A n : (Kept(n)' <=> Kept(n)) /\ (ByName(n)' <=> ByName(n))
  BY DEF Kept, ByName, Exists
<1>3. ServedAreRight' /\ ServedOnce'
  BY <1>1, <1>2 DEF ServedInv, ServedAreRight, ServedOnce
<1>4. MarkedAsIs'
  BY <1>1, <1>2 DEF ServedInv, MarkedAsIs, Others
<1>5. \A k \in HttpThreads \ {h} : http'[k] = http[k] /\ NameOf(k)' = NameOf(k) /\ \A n : OtherEdits(k, n)' <=> OtherEdits(k, n)
  BY DEF Others, NameOf, OtherEdits
<1>6. EditedAsIs'
  <2> SUFFICES ASSUME NEW k \in HttpThreads, NEW n \in Nets,
                      http'[k].op \in {"update", "redhcp"}, http'[k].net = n, Kept(n)'
               PROVE  /\ nets'[n].bridge = http'[k].old.bridge
                      /\ nets'[n].name = NameOf(k)' \/ OtherEdits(k, n)'
    BY DEF EditedAsIs
  <2>1. CASE k = h
    BY <2>1 DEF NameOf
  <2>2. CASE k # h
    BY <1>2, <1>5, <2>2 DEF ServedInv, EditedAsIs
  <2> QED BY <2>1, <2>2
<1> QED BY <1>3, <1>4, <1>6 DEF ServedInv

LEMMA RequestServed ==
  ASSUME CatInv, VlanInv, ConfigTyped, BridgeInv, ServedInv, NEW h \in HttpThreads, NetworkRequest(h),
         ~\E n \in Nets : DeleteNetwork(h, n)
  PROVE  ServedInv'
<1>1. CASE \E r \in Row : NewNetwork(h, r)
  <2>1. /\ http[h].op = "idle" /\ http'[h].op \in {"choose", "insert"} /\ Others(h)
        /\ http'[h].net \in Nets \ made /\ made' = made \cup {http'[h].net}
        /\ UNCHANGED <<nets, dhcpNets, moved, dropped, passed>>
    BY <1>1, NewNetworkNets DEF memory, excused
  <2>2. \A n : NetAsked({"choose", "insert"}, n)' => n = http'[h].net \/ NetAsked({"choose", "insert"}, n)
    BY <2>1 DEF NetAsked, Others
  <2>3. NewAreNotServed'
    BY <2>1, <2>2 DEF ServedInv, NewAreNotServed
  <2> QED BY <2>1, <2>3, QuietServed
<1>2. ASSUME NEW n \in Nets, NEW c, NEW v, EditNetwork(h, n, c, v),
             \/ c = "vlan" /\ v \in Explicit
             \/ c = "bridge" /\ v \in Bridges
             \/ c = "name" /\ v \in Names
      PROVE  ServedInv'
  <2>1. /\ http[h].op = "idle" /\ http'[h].op = "update" /\ Others(h)
        /\ http'[h].net = n /\ http'[h].old = nets[n]
        /\ UNCHANGED <<nets, dhcpNets, moved, dropped, passed, made>>
    BY <1>2, EditNetworkNets DEF memory, excused
  <2>2. \A k : NetAsked({"choose", "insert"}, k)' => NetAsked({"choose", "insert"}, k)
    BY <2>1 DEF NetAsked, Others
  <2>3. NewAreNotServed'
    BY <2>1, <2>2 DEF ServedInv, NewAreNotServed
  <2> QED BY <2>1, <2>3, QuietServed
<1> QED BY <1>1, <1>2, NetworkRequestIs

LEMMA QuietStepServed ==
  ASSUME CatInv, VlanInv, ConfigTyped, BridgeInv, ServedInv, NEW h \in HttpThreads,
         \/ GetFreeNetVlan(h)
         \/ (InsertNet(h) \/ UpdateNet(h)) /\ http'[h].op = "idle"
  PROVE  ServedInv'
<1>1. /\ http[h].op \in {"choose", "insert", "update"} /\ Others(h)
      /\ UNCHANGED <<nets, dhcpNets, moved, dropped, passed, made>>
      /\ \/ http'[h].op = "idle"
         \/ /\ http[h].op = "choose" /\ http'[h].op \in {"choose", "insert"} /\ http'[h].net = http[h].net
  <2>1. CASE GetFreeNetVlan(h)
    BY <2>1, GetFreeNetVlanNets DEF memory, excused
  <2>2. CASE InsertNet(h) /\ http'[h].op = "idle"
    BY <2>2, InsertNetNets DEF memory, excused
  <2>3. CASE UpdateNet(h) /\ http'[h].op = "idle"
    BY <2>3, UpdateNetNets DEF memory
  <2> QED BY <2>1, <2>2, <2>3
<1>2. \A k : NetAsked({"choose", "insert"}, k)' => NetAsked({"choose", "insert"}, k)
  BY <1>1 DEF NetAsked, Others
<1>3. NewAreNotServed'
  BY <1>1, <1>2 DEF ServedInv, NewAreNotServed
<1> QED BY <1>1, <1>3, QuietServed

LEMMA DeleteNetworkServed ==
  ASSUME CatInv, VlanInv, ConfigTyped, ServedInv, NEW h \in HttpThreads, NEW n \in Nets, DeleteNetwork(h, n)
  PROVE  ServedInv'
<1>1. /\ http[h].op = "idle" /\ http'[h].op = "free" /\ Others(h)
      /\ \A k \in Nets : nets'[k] = IF k = n THEN None ELSE nets[k]
      /\ UNCHANGED <<dhcpNets, moved, dropped, passed, made>>
  BY DeleteNetworkNets DEF memory
<1>2. \A k \in Nets : Kept(k)' => Kept(k) /\ nets'[k] = nets[k] /\ (ByName(k)' <=> ByName(k))
  BY <1>1 DEF Kept, Exists, ByName
<1>3. \A K, k : "free" \notin K /\ "idle" \notin K => (NetAsked(K, k)' <=> NetAsked(K, k))
  BY <1>1 DEF NetAsked, Others
<1>4. \A k \in HttpThreads : http'[k].op \in {"mark", "update", "redhcp"} =>
        http'[k] = http[k] /\ NameOf(k)' = NameOf(k)
  BY <1>1 DEF Others, NameOf
<1>5. \A k \in HttpThreads : \A m : OtherEdits(k, m)' <=> OtherEdits(k, m)
  BY <1>1 DEF Others, OtherEdits
<1>6. ServedAreRight' /\ ServedOnce'
  BY <1>1, <1>2, <1>3 DEF ServedInv, ServedAreRight, ServedOnce
<1>7. MarkedAsIs' /\ EditedAsIs'
  BY <1>2, <1>3, <1>4, <1>5 DEF ServedInv, MarkedAsIs, EditedAsIs
<1>8. NewAreNotServed'
  BY <1>1, <1>3 DEF ServedInv, NewAreNotServed
<1> QED BY <1>6, <1>7, <1>8 DEF ServedInv

LEMMA InsertNetServed ==
  ASSUME CatInv, VlanInv, ConfigTyped, BridgeInv, ServedInv, NEW h \in HttpThreads, InsertNet(h), http'[h].op # "idle"
  PROVE  ServedInv'
<1>1. PICK n \in Nets, r \in Row : n = http[h].net /\ r = http[h].row
  BY InsertNetNets, NetFields DEF NetOps
<1>2. /\ http[h].op = "insert" /\ http'[h].op = "mark" /\ Others(h)
      /\ http'[h].net = n /\ http'[h].row = r
      /\ \A k \in Nets : nets'[k] = IF k = n THEN r ELSE nets[k]
      /\ UNCHANGED <<dhcpNets, moved, dropped, passed, made>>
  BY <1>1, InsertNetNets DEF memory, excused
<1>3. \A k \in HttpThreads \ {h} : http'[k] = http[k] /\ (http[k].op \in NetOps => http[k].net # n)
  BY <1>1, <1>2 DEF BridgeInv, NewNetsAreNew, Others
<1>4. dhcpNets[n] = 0
  <2>1. NetAsked({"choose", "insert"}, n)
    BY <1>1, <1>2 DEF NetAsked
  <2> QED BY <2>1 DEF ServedInv, NewAreNotServed
<1>5. \A k : (NetAsked({"mark"}, k)' <=> k = n \/ NetAsked({"mark"}, k)) /\ (NetAsked({"redhcp"}, k)' <=> NetAsked({"redhcp"}, k))
  BY <1>2 DEF NetAsked, Others
<1>6. \A k \in Nets \ {n} : (Kept(k)' <=> Kept(k)) /\ nets'[k] = nets[k] /\ (ByName(k)' <=> ByName(k))
  BY <1>2 DEF Kept, Exists, ByName
<1>7. ServedAreRight' /\ ServedOnce'
  <2>1. \A k \in Nets \ {n} :
          /\ Kept(k)' => Kept(k) /\ nets'[k] = nets[k] /\ dhcpNets'[k] = dhcpNets[k]
          /\ NetAsked({"mark"}, k)' <=> NetAsked({"mark"}, k)
    BY <1>2, <1>5, <1>6
  <2>2. dhcpNets'[n] = 0 /\ NetAsked({"mark"}, n)'
    BY <1>2, <1>4, <1>5
  <2> QED BY <1>5, <1>6, <2>1, <2>2 DEF ServedInv, ServedAreRight, ServedOnce
<1>8. MarkedAsIs'
  BY <1>2, <1>3, <1>5, <1>6 DEF ServedInv, MarkedAsIs, NetOps
<1>9. \A k \in HttpThreads \ {h} : NameOf(k)' = NameOf(k) /\ \A m : OtherEdits(k, m)' <=> OtherEdits(k, m)
  BY <1>2, <1>3 DEF NameOf, OtherEdits
<1>10. EditedAsIs'
  BY <1>2, <1>3, <1>6, <1>9 DEF ServedInv, EditedAsIs, NetOps
<1>11. \A k : NetAsked({"choose", "insert"}, k)' => NetAsked({"choose", "insert"}, k)
  BY <1>2 DEF NetAsked, Others
<1>12. NewAreNotServed'
  BY <1>2, <1>11 DEF ServedInv, NewAreNotServed
<1> QED BY <1>7, <1>8, <1>10, <1>12 DEF ServedInv

LEMMA MarkNetServed ==
  ASSUME CatInv, VlanInv, ConfigTyped, BridgeInv, ServedInv, NEW h \in HttpThreads, MarkNet(h)
  PROVE  ServedInv'
<1>1. PICK n \in Nets, r \in Row : n = http[h].net /\ r = http[h].row
  BY MarkNetNets, NetFields DEF NetOps
<1>2. /\ http[h].op = "mark" /\ http'[h].op = "idle" /\ Others(h)
      /\ UNCHANGED <<nets, moved, dropped, passed, made>>
      /\ \A k \in Nets : dhcpNets'[k] = IF k = n /\ DhcpServed(r) THEN dhcpNets[k] + 1 ELSE dhcpNets[k]
  BY <1>1, MarkNetNets DEF excused
<1>3. /\ \A k \in HttpThreads \ {h} : http[k].op \in {"choose", "insert", "mark"} => http[k].net # n
      /\ n \in made
  BY <1>1, <1>2 DEF BridgeInv, NewNetsAreNew, NetOps
<1>4. \A k : (Kept(k)' <=> Kept(k)) /\ (ByName(k)' <=> ByName(k))
  BY <1>2 DEF Kept, Exists, ByName
<1>5. /\ NetAsked({"mark"}, n) /\ ~NetAsked({"mark"}, n)' /\ ~NetAsked({"choose", "insert"}, n)'
      /\ \A k : k # n => (NetAsked({"mark"}, k)' <=> NetAsked({"mark"}, k))
      /\ \A k : NetAsked({"redhcp"}, k)' <=> NetAsked({"redhcp"}, k)
      /\ \A k : NetAsked({"choose", "insert"}, k)' <=> NetAsked({"choose", "insert"}, k)
  BY <1>1, <1>2, <1>3 DEF NetAsked, Others
<1>6. ASSUME Kept(n)
      PROVE  dhcpNets'[n] = (IF DhcpServed(r) THEN 1 ELSE 0) /\ nets[n].bridge = r.bridge
             /\ (nets[n].name = r.name \/ NetAsked({"redhcp"}, n))
  <2>1. dhcpNets[n] = 0
    BY <1>5, <1>6 DEF ServedInv, ServedOnce
  <2> QED BY <1>1, <1>2, <1>6, <2>1 DEF ServedInv, MarkedAsIs
<1>8. ServedAreRight'
  <2> SUFFICES ASSUME NEW k \in Nets, Kept(k), ~NetAsked({"mark"}, k)', ~NetAsked({"redhcp"}, k)
               PROVE  IF ByName(k) THEN dhcpNets'[k] = IF nets[k].name = None THEN 0 ELSE 1 ELSE dhcpNets'[k] > 0
    BY <1>2, <1>4, <1>5 DEF ServedAreRight
  <2>1. CASE k = n
    BY <1>6, <2>1 DEF ByName, DhcpServed
  <2>2. CASE k # n
    BY <1>2, <1>5, <2>2 DEF ServedInv, ServedAreRight
  <2> QED BY <2>1, <2>2
<1>9. ServedOnce'
  <2> SUFFICES ASSUME NEW k \in Nets, Kept(k)
               PROVE  (ByName(k) => dhcpNets'[k] <= 1) /\ (NetAsked({"mark"}, k)' => dhcpNets'[k] = 0)
    BY <1>4 DEF ServedOnce
  <2>1. CASE k = n
    BY <1>5, <1>6, <2>1
  <2>2. CASE k # n
    BY <1>2, <1>5, <2>2 DEF ServedInv, ServedOnce
  <2> QED BY <2>1, <2>2
<1>10. MarkedAsIs'
  BY <1>2, <1>4, <1>5 DEF ServedInv, MarkedAsIs, Others
<1>11. \A k \in HttpThreads \ {h} : NameOf(k)' = NameOf(k) /\ \A m : OtherEdits(k, m)' <=> OtherEdits(k, m)
  BY <1>2 DEF NameOf, OtherEdits, Others
<1>12. EditedAsIs'
  BY <1>2, <1>4, <1>11 DEF ServedInv, EditedAsIs, Others
<1>13. NewAreNotServed'
  BY <1>2, <1>3, <1>5 DEF ServedInv, NewAreNotServed
<1> QED BY <1>8, <1>9, <1>10, <1>12, <1>13 DEF ServedInv

LEMMA UpdateNetServed ==
  ASSUME CatInv, VlanInv, ConfigTyped, BridgeInv, ServedInv, NEW h \in HttpThreads, UpdateNet(h), http'[h].op # "idle"
  PROVE  ServedInv'
<1>1. PICK n \in Nets : n = http[h].net
  BY UpdateNetNets, NetFields DEF NetOps
<1>2. /\ http[h].op = "update" /\ http'[h].op = "redhcp" /\ Others(h) /\ http'[h].net = n
      /\ http'[h].old = http[h].old /\ http'[h].column = http[h].column /\ http'[h].value = http[h].value
      /\ UNCHANGED <<dhcpNets, dropped, passed, made>>
      /\ Exists(n)
  BY <1>1, UpdateNetNets DEF memory
<1>3. PICK r \in Row :
        /\ \A k \in Nets : nets'[k] = IF k = n THEN r ELSE nets[k]
        /\ r.name = IF http[h].column = "name" THEN http[h].value ELSE nets[n].name
        /\ \/ r.bridge = nets[n].bridge /\ moved' = moved \cup {}
           \/ moved' = moved \cup {n, nets[n].bridge, r.bridge}
  BY <1>1, <1>2, UpdateNetNets
<1>4. \A k \in Nets : Kept(k)' => Kept(k) /\ nets'[k].bridge = nets[k].bridge /\ (ByName(k)' <=> ByName(k))
  <2> SUFFICES ASSUME NEW k \in Nets, Kept(k)'
               PROVE  Kept(k) /\ nets'[k].bridge = nets[k].bridge /\ (ByName(k)' <=> ByName(k))
    OBVIOUS
  <2>1. CASE k = n
    BY <1>2, <1>3, <2>1 DEF Kept, ByName
  <2>2. CASE k # n
    BY <1>2, <1>3, <2>2 DEF Kept, Exists, ByName
  <2> QED BY <2>1, <2>2
<1>5. \A k \in Nets \ {n} : nets'[k] = nets[k]
  BY <1>3
<1>6. /\ NetAsked({"redhcp"}, n)'
      /\ \A k : k # n => (NetAsked({"redhcp"}, k)' <=> NetAsked({"redhcp"}, k))
      /\ \A k : NetAsked({"mark"}, k)' <=> NetAsked({"mark"}, k)
      /\ \A k : NetAsked({"choose", "insert"}, k)' <=> NetAsked({"choose", "insert"}, k)
  BY <1>2 DEF NetAsked, Others
<1>7. ServedAreRight'
  BY <1>2, <1>4, <1>5, <1>6 DEF ServedInv, ServedAreRight
<1>8. ServedOnce'
  BY <1>2, <1>4, <1>6 DEF ServedInv, ServedOnce
<1>9. MarkedAsIs'
  <2> SUFFICES ASSUME NEW k \in HttpThreads, NEW m \in Nets, http'[k].op = "mark", http'[k].net = m, Kept(m)'
               PROVE  /\ nets'[m].bridge = http'[k].row.bridge
                      /\ nets'[m].name = http'[k].row.name \/ NetAsked({"redhcp"}, m)'
    BY DEF MarkedAsIs
  <2>1. http'[k] = http[k]
    BY <1>2 DEF Others
  <2>2. /\ nets[m].bridge = http[k].row.bridge
        /\ nets[m].name = http[k].row.name \/ NetAsked({"redhcp"}, m)
    BY <1>4, <2>1 DEF ServedInv, MarkedAsIs
  <2> QED BY <1>4, <1>5, <1>6, <2>1, <2>2
<1>10. EditedAsIs'
  <2> SUFFICES ASSUME NEW k \in HttpThreads, NEW m \in Nets, http'[k].op \in {"update", "redhcp"}, http'[k].net = m, Kept(m)'
               PROVE  /\ nets'[m].bridge = http'[k].old.bridge
                      /\ nets'[m].name = NameOf(k)' \/ OtherEdits(k, m)'
    BY DEF EditedAsIs
  <2>1. http[k].op \in {"update", "redhcp"} /\ http[k].net = m /\ http'[k].old = http[k].old
    BY <1>1, <1>2 DEF Others
  <2>2. /\ nets[m].bridge = http[k].old.bridge
        /\ nets[m].name = NameOf(k) \/ OtherEdits(k, m)
    BY <1>4, <2>1 DEF ServedInv, EditedAsIs
  <2>3. nets'[m].bridge = http'[k].old.bridge
    BY <1>4, <2>1, <2>2
  <2>4. CASE k = h
    <3>1. m = n /\ nets'[n] = r /\ NameOf(h)' = (IF http[h].column = "name" THEN http[h].value ELSE http[h].old.name)
      BY <1>2, <1>3, <2>4 DEF NameOf
    <3>2. NameOf(h) = http[h].old.name
      BY <1>2 DEF NameOf
    <3>3. OtherEdits(h, n) => OtherEdits(h, n)'
      BY <1>2 DEF OtherEdits, Others
    <3> QED BY <1>3, <2>2, <2>3, <2>4, <3>1, <3>2, <3>3
  <2>5. CASE k # h /\ m = n
    BY <1>2, <2>3, <2>5 DEF OtherEdits
  <2>6. CASE k # h /\ m # n
    <3>1. NameOf(k)' = NameOf(k) /\ (OtherEdits(k, m) => OtherEdits(k, m)')
      BY <1>2, <2>6 DEF NameOf, OtherEdits, Others
    <3> QED BY <1>5, <2>2, <2>3, <2>6, <3>1
  <2> QED BY <2>4, <2>5, <2>6
<1>11. NewAreNotServed'
  BY <1>2, <1>6 DEF ServedInv, NewAreNotServed
<1> QED BY <1>7, <1>8, <1>9, <1>10, <1>11 DEF ServedInv

LEMMA EditDhcpNetsServed ==
  ASSUME CatInv, VlanInv, ConfigTyped, BridgeInv, ServedInv, NEW h \in HttpThreads, EditDhcpNets(h)
  PROVE  ServedInv'
<1>1. PICK n \in Nets : n = http[h].net
  BY EditDhcpNetsNets, NetFields DEF NetOps
<1>2. /\ http[h].op = "redhcp" /\ http'[h].op = "idle" /\ Others(h)
      /\ UNCHANGED <<nets, moved, passed, made>>
      /\ \A k \in Nets \ {n} : dhcpNets'[k] = dhcpNets[k]
      /\ dhcpNets'[n] = (IF dhcpNets[n] = 0 THEN 0 ELSE dhcpNets[n] - 1) + IF NameOf(h) = None THEN 0 ELSE 1
      /\ dropped' = IF http[h].old.bridge \in DhcpBridges \/ Disturbed(h, n)
                    THEN dropped \cup {n} ELSE dropped
  BY <1>1, EditDhcpNetsNets
<1>3. \A k : (Kept(k)' => Kept(k)) /\ (ByName(k)' <=> ByName(k))
  BY <1>2 DEF Kept, Exists, ByName
<1>4. \A k \in HttpThreads \ {h} : http[k].op \in {"choose", "insert"} => http[k].net # n
  BY <1>1, <1>2 DEF BridgeInv, NewNetsAreNew, NetOps
<1>5. Kept(n)' => /\ http[h].old.bridge \notin DhcpBridges
                  /\ \A k \in HttpThreads \ {h} : http[k].op \in {"mark", "update", "redhcp"} => http[k].net # n
  BY <1>2 DEF Kept, Disturbed
<1>6. /\ \A k : k # n => (NetAsked({"redhcp"}, k)' <=> NetAsked({"redhcp"}, k))
      /\ \A k : NetAsked({"mark"}, k)' <=> NetAsked({"mark"}, k)
      /\ \A k : NetAsked({"choose", "insert"}, k)' <=> NetAsked({"choose", "insert"}, k)
      /\ Kept(n)' => ~NetAsked({"mark"}, n)
  BY <1>1, <1>2, <1>5 DEF NetAsked, Others
<1>7. Kept(n)' => ByName(n) /\ dhcpNets'[n] = (IF nets[n].name = None THEN 0 ELSE 1) /\ dhcpNets'[n] <= 1
  <2> SUFFICES ASSUME Kept(n)'
               PROVE  ByName(n) /\ dhcpNets'[n] = (IF nets[n].name = None THEN 0 ELSE 1) /\ dhcpNets'[n] <= 1
    OBVIOUS
  <2>1. nets[n].bridge = http[h].old.bridge /\ (nets[n].name = NameOf(h) \/ OtherEdits(h, n))
    BY <1>1, <1>2, <1>3 DEF ServedInv, EditedAsIs
  <2>2. ~OtherEdits(h, n)
    BY <1>5 DEF OtherEdits
  <2>3. ByName(n) /\ dhcpNets[n] <= 1 /\ dhcpNets[n] \in Nat
    BY <1>3, <1>5, <2>1 DEF ServedInv, ServedOnce, ByName, ConfigTyped
  <2> QED BY <1>2, <2>1, <2>2, <2>3
<1>8. ServedAreRight'
  <2> SUFFICES ASSUME NEW k \in Nets, Kept(k)', ~NetAsked({"mark"}, k), ~NetAsked({"redhcp"}, k)'
               PROVE  IF ByName(k) THEN dhcpNets'[k] = IF nets[k].name = None THEN 0 ELSE 1 ELSE dhcpNets'[k] > 0
    BY <1>2, <1>3, <1>6 DEF ServedAreRight
  <2>1. CASE k = n
    BY <1>7, <2>1
  <2>2. CASE k # n
    BY <1>2, <1>3, <1>6, <2>2 DEF ServedInv, ServedAreRight
  <2> QED BY <2>1, <2>2
<1>9. ServedOnce'
  <2> SUFFICES ASSUME NEW k \in Nets, Kept(k)'
               PROVE  (ByName(k) => dhcpNets'[k] <= 1) /\ (NetAsked({"mark"}, k) => dhcpNets'[k] = 0)
    BY <1>3, <1>6 DEF ServedOnce
  <2>1. CASE k = n
    BY <1>6, <1>7, <2>1
  <2>2. CASE k # n
    BY <1>2, <1>3, <2>2 DEF ServedInv, ServedOnce
  <2> QED BY <2>1, <2>2
<1>10. \A k \in HttpThreads : http'[k].op \in {"mark", "update", "redhcp"} =>
         k # h /\ http'[k] = http[k] /\ NameOf(k)' = NameOf(k)
  BY <1>2 DEF Others, NameOf
<1>11. MarkedAsIs'
  <2> SUFFICES ASSUME NEW k \in HttpThreads, NEW m \in Nets, http'[k].op = "mark", http'[k].net = m, Kept(m)'
               PROVE  /\ nets'[m].bridge = http'[k].row.bridge
                      /\ nets'[m].name = http'[k].row.name \/ NetAsked({"redhcp"}, m)'
    BY DEF MarkedAsIs
  <2>1. m # n
    BY <1>5, <1>10
  <2> QED BY <1>2, <1>3, <1>6, <1>10, <2>1 DEF ServedInv, MarkedAsIs
<1>12. EditedAsIs'
  <2> SUFFICES ASSUME NEW k \in HttpThreads, NEW m \in Nets, http'[k].op \in {"update", "redhcp"}, http'[k].net = m, Kept(m)'
               PROVE  /\ nets'[m].bridge = http'[k].old.bridge
                      /\ nets'[m].name = NameOf(k)' \/ OtherEdits(k, m)'
    BY DEF EditedAsIs
  <2>1. m # n /\ k # h /\ http'[k] = http[k] /\ NameOf(k)' = NameOf(k)
    BY <1>5, <1>10
  <2>2. OtherEdits(k, m) => OtherEdits(k, m)'
    BY <1>1, <1>2, <2>1 DEF OtherEdits, Others
  <2>3. /\ nets[m].bridge = http[k].old.bridge
        /\ nets[m].name = NameOf(k) \/ OtherEdits(k, m)
    BY <1>3, <2>1 DEF ServedInv, EditedAsIs
  <2> QED BY <1>2, <2>1, <2>2, <2>3
<1>13. NewAreNotServed'
  <2>1. n \in made /\ ~NetAsked({"choose", "insert"}, n)
    BY <1>1, <1>2, <1>4 DEF BridgeInv, NewNetsAreNew, NetOps, NetAsked
  <2> QED BY <1>2, <1>6, <2>1 DEF ServedInv, NewAreNotServed
<1> QED BY <1>8, <1>9, <1>11, <1>12, <1>13 DEF ServedInv

LEMMA FreeNetServed ==
  ASSUME CatInv, VlanInv, ConfigTyped, BridgeInv, ServedInv, NEW h \in HttpThreads, FreeNet(h)
  PROVE  ServedInv'
<1>1. PICK n \in Nets : n = http[h].net
  BY FreeNetNets, NetFields DEF NetOps
<1>2. /\ http[h].op = "free" /\ http'[h].op = "idle" /\ Others(h)
      /\ UNCHANGED <<nets, moved, dropped, passed, made>>
      /\ \A k \in Nets \ {n} : dhcpNets'[k] = dhcpNets[k]
      /\ dhcpNets'[n] = IF dhcpNets[n] = 0 THEN 0 ELSE dhcpNets[n] - 1
  BY <1>1, FreeNetNets DEF excused
<1>3. ~Exists(n)
  BY <1>1, <1>2 DEF BridgeInv, GoneStayGone
<1>4. \A k \in Nets : /\ Kept(k)' <=> Kept(k)
                      /\ ByName(k)' <=> ByName(k)
                      /\ Kept(k) => dhcpNets'[k] = dhcpNets[k]
  BY <1>2, <1>3 DEF Kept, Exists, ByName
<1>5. \A K, k : "free" \notin K /\ "idle" \notin K => (NetAsked(K, k)' <=> NetAsked(K, k))
  BY <1>2 DEF NetAsked, Others
<1>6. \A k \in HttpThreads : http'[k].op \in {"mark", "update", "redhcp"} =>
        http'[k] = http[k] /\ NameOf(k)' = NameOf(k)
  BY <1>2 DEF Others, NameOf
<1>7. \A k \in HttpThreads : \A m : OtherEdits(k, m)' <=> OtherEdits(k, m)
  BY <1>2 DEF Others, OtherEdits
<1>8. ServedAreRight' /\ ServedOnce'
  BY <1>2, <1>4, <1>5 DEF ServedInv, ServedAreRight, ServedOnce
<1>9. MarkedAsIs' /\ EditedAsIs'
  BY <1>2, <1>4, <1>5, <1>6, <1>7 DEF ServedInv, MarkedAsIs, EditedAsIs
<1>10. NewAreNotServed'
  BY <1>2, <1>5 DEF ServedInv, NewAreNotServed
<1> QED BY <1>8, <1>9, <1>10 DEF ServedInv

\* The entries that n has in dhcp_nets are those that are right for it.
ServedRight(n, times) ==
  IF ByName(n) THEN times = IF nets[n].name = None THEN 0 ELSE 1 ELSE times > 0

\* What a start puts in dhcp_nets, but for what it passes over.
LEMMA LoadedServed ==
  ASSUME NEW first \in [ListedNames -> Nets \cup {None}], NamedFirst(first), NEW n \in Nets
  PROVE  /\ ~Exists(n) => TimesLoaded(first, n) = 0
         /\ Exists(n) /\ n \notin PassedOver(first) => ServedRight(n, TimesLoaded(first, n))
<1> DEFINE byName == \E x \in ListedNames : first[x] = n
<1>1. ASSUME NEW x \in ListedNames, first[x] = n
      PROVE  Exists(n) /\ nets[n].name = x
  <2> DEFINE named == {k \in Nets : Exists(k) /\ nets[k].name = x}
  <2>1. first[x] \in (IF named = {} THEN {None} ELSE named)
    BY DEF NamedFirst
  <2>2. n # None
    BY VlansAreNumbers
  <2> QED BY <1>1, <2>1, <2>2
<1>2. byName => Exists(n) /\ nets[n].name # None
  BY <1>1, VlansAreNumbers
<1>3. TimesLoaded(first, n) = (IF OnDhcpBridge(n) THEN 1 ELSE 0) + (IF byName THEN 1 ELSE 0)
  BY DEF TimesLoaded
<1>4. n \in PassedOver(first) <=> Exists(n) /\ DhcpServed(nets[n]) /\ TimesLoaded(first, n) = 0
  BY DEF PassedOver
<1>5. OnDhcpBridge(n) <=> Exists(n) /\ ~ByName(n)
  BY DEF OnDhcpBridge, ByName
<1> HIDE DEF byName
<1>6. CASE ~Exists(n)
  BY <1>2, <1>3, <1>5, <1>6
<1>7. CASE Exists(n) /\ ByName(n)
  BY <1>2, <1>3, <1>4, <1>5, <1>7 DEF ServedRight, DhcpServed
<1>8. CASE Exists(n) /\ ~ByName(n)
  BY <1>3, <1>5, <1>8 DEF ServedRight
<1> QED BY <1>6, <1>7, <1>8

LEMMA InitServed == Init => ServedInv
<1> SUFFICES ASSUME Init PROVE ServedInv
  OBVIOUS
<1>1. PICK rows : NetworksInit(rows)
  BY DEF Init
<1>2. ASSUME NEW h \in HttpThreads PROVE http[h].op = "idle"
  <2>1. http[h] = Idle
    BY DEF Init
  <2> QED BY <2>1
<1>3. made = {n \in Nets : Exists(n)}
  BY <1>1 DEF NetworksInit
<1>4. PICK first \in [ListedNames -> Nets \cup {None}] :
        /\ NamedFirst(first)
        /\ dhcpNets = [n \in Nets |-> TimesLoaded(first, n)]
        /\ passed = PassedOver(first)
  BY <1>1 DEF NetworksInit
<1>5. \A n \in Nets : (~Exists(n) => dhcpNets[n] = 0) /\ (Kept(n) => ServedRight(n, dhcpNets[n]))
  BY <1>4, LoadedServed DEF Kept
<1>6. \A K, n : NetAsked(K, n) => "idle" \in K
  BY <1>2 DEF NetAsked
<1>7. ServedAreRight /\ ServedOnce
  BY <1>5, <1>6 DEF ServedAreRight, ServedOnce, ServedRight
<1>8. MarkedAsIs /\ EditedAsIs /\ NewAreNotServed
  BY <1>2, <1>3, <1>5, <1>6 DEF MarkedAsIs, EditedAsIs, NewAreNotServed
<1> QED BY <1>7, <1>8 DEF ServedInv

LEMMA RestartServed ==
  ASSUME VlanInv, BridgeInv, Restart
  PROVE  ServedInv'
<1>1. (\A h \in HttpThreads : http'[h] = Idle) /\ UNCHANGED <<nets, made>>
  BY DEF Restart, LoadNetworks
<1>2. \A h \in HttpThreads : http'[h].op = "idle"
  BY <1>1
<1>3. \A n \in Nets : Exists(n) => n \in made
  BY DEF BridgeInv, NewNetsAreNew
<1>4. PICK first \in [ListedNames -> Nets \cup {None}] :
        /\ NamedFirst(first)
        /\ dhcpNets' = [n \in Nets |-> TimesLoaded(first, n)]
        /\ passed' = PassedOver(first)
  BY DEF Restart, LoadNetworks
<1>5. \A n : (Exists(n)' <=> Exists(n)) /\ (ByName(n)' <=> ByName(n))
  BY <1>1 DEF Exists, ByName
<1>6. \A n \in Nets : /\ ~Exists(n) => dhcpNets'[n] = 0
                      /\ Kept(n)' => ServedRight(n, dhcpNets'[n])
  BY <1>4, <1>5, LoadedServed DEF Kept
<1>7. \A K, n : NetAsked(K, n)' => "idle" \in K
  BY <1>2 DEF NetAsked
<1>8. ServedAreRight' /\ ServedOnce'
  BY <1>1, <1>5, <1>6, <1>7 DEF ServedAreRight, ServedOnce, ServedRight
<1>9. MarkedAsIs' /\ EditedAsIs' /\ NewAreNotServed'
  BY <1>1, <1>2, <1>3, <1>5, <1>6, <1>7 DEF MarkedAsIs, EditedAsIs, NewAreNotServed
<1> QED BY <1>8, <1>9 DEF ServedInv

LEMMA AsideServed ==
  ASSUME CatInv, ConfigTyped, ServedInv, Aside(NetOps), UNCHANGED netVars
  PROVE  ServedInv'
<1>1. \A k \in HttpThreads : http[k].op \in NetOps \/ http'[k].op \in NetOps => http'[k] = http[k]
  BY AsideTyped DEF CatInv, CatTyped, ConfigTyped
<1>2. UNCHANGED <<nets, dhcpNets, made, moved, dropped, passed>>
  BY DEF netVars
<1>3. \A K \in SUBSET NetOps : \A k : NetAsked(K, k)' <=> NetAsked(K, k)
  BY <1>1 DEF NetAsked
<1>4. {"mark"} \in SUBSET NetOps /\ {"redhcp"} \in SUBSET NetOps /\ {"choose", "insert"} \in SUBSET NetOps
  BY DEF NetOps
<1>5. \A k : (Kept(k)' <=> Kept(k)) /\ (ByName(k)' <=> ByName(k))
  BY <1>2 DEF Kept, Exists, ByName
<1>6. \A k \in HttpThreads : http'[k].op \in {"mark", "update", "redhcp"} =>
        http'[k] = http[k] /\ NameOf(k)' = NameOf(k)
  BY <1>1 DEF NameOf, NetOps
<1>7. \A k \in HttpThreads : \A m : OtherEdits(k, m)' <=> OtherEdits(k, m)
  BY <1>1 DEF OtherEdits, NetOps
<1>8. ServedAreRight' /\ ServedOnce'
  BY <1>2, <1>3, <1>4, <1>5 DEF ServedInv, ServedAreRight, ServedOnce
<1>9. MarkedAsIs' /\ EditedAsIs'
  BY <1>2, <1>3, <1>4, <1>5, <1>6, <1>7 DEF ServedInv, MarkedAsIs, EditedAsIs
<1>10. NewAreNotServed'
  BY <1>2, <1>3, <1>4 DEF ServedInv, NewAreNotServed
<1> QED BY <1>8, <1>9, <1>10 DEF ServedInv

LEMMA StepServed ==
  ASSUME CatInv, VlanInv, ConfigTyped, BridgeInv, ServedInv, NEW h \in HttpThreads, NetworkRequest(h) \/ NetworkStep(h)
  PROVE  ServedInv'
<1>1. CASE NetworkRequest(h)
  BY <1>1, RequestServed, DeleteNetworkServed
<1>2. CASE NetworkStep(h)
  BY <1>2, QuietStepServed, InsertNetServed, MarkNetServed, UpdateNetServed, EditDhcpNetsServed, FreeNetServed
     DEF NetworkStep
<1> QED BY <1>1, <1>2

LEMMA NextServed == CatInv /\ VlanInv /\ TypeInv /\ BridgeInv /\ ServedInv /\ [Next]_vars => ServedInv'
<1> SUFFICES ASSUME CatInv, VlanInv, TypeInv, BridgeInv, ServedInv, [Next]_vars PROVE ServedInv'
  OBVIOUS
<1>1. HttpTyped /\ ConfigTyped
  BY DEF CatInv, CatTyped, TypeInv
<1>2. ASSUME NEW h \in HttpThreads, NetworkRequest(h) \/ NetworkStep(h)
      PROVE  ServedInv'
  BY <1>1, <1>2, StepServed
<1>3. CASE /\ ThreadMoves \/ \E h \in HttpThreads : DhcpRequest(h) \/ DhcpStep(h)
           /\ UNCHANGED <<netVars, ofcVars>>
  <2>1. Aside((CatOps \cup NetOps) \cup OfcOps)
    BY <1>1, <1>3, DhcpAside DEF ThreadMoves
  <2> QED BY <1>1, <1>3, <2>1, AsideOfMore, AsideServed
<1>4. ASSUME NEW h \in HttpThreads, CatalogueRequest(h) \/ CatalogueStep(h),
             UNCHANGED <<netVars, ofcVars>>
      PROVE  ServedInv'
  <2>1. Aside(NetOps \cup (DhcpOps \cup OfcOps))
    BY <1>4, CatalogueAside
  <2> QED BY <1>1, <1>4, <2>1, AsideOfMore, AsideServed
<1>5. CASE /\ \/ \E h \in HttpThreads : (area = "controllers" /\ OfcRequest(h)) \/ OfcStep(h)
              \/ \E c \in Known : TakeOfTask(c)
           /\ UNCHANGED <<netVars, dhcpVars, catVars, area>>
  <2>1. Aside((CatOps \cup NetOps) \cup DhcpOps)
    BY <1>1, <1>5, ControllersAside
  <2> QED BY <1>1, <1>5, <2>1, AsideOfMore, AsideServed
<1>6. CASE Restart
  BY <1>6, RestartServed
<1>7. CASE UNCHANGED vars
  BY <1>1, <1>7, AsideServed DEF vars, Aside
<1> QED BY <1>2, <1>3, <1>4, <1>5, <1>6, <1>7 DEF Next, ThreadMoves

(***************************************************************************)
(* Whenever all requests are answered, bridge_nets and the table and the   *)
(* list of the openflow threads are what start_service would make of the   *)
(* database, and dhcp_nets has the networks that the database and the      *)
(* configuration ask for, but for what each part names (new_network,       *)
(* edit_network, delete_network, start_service, and those of controllers), *)
(* however many networks, bridges, controllers and requests there are.     *)
(***************************************************************************)
THEOREM ConfigStaysAsLoaded == Spec => []ConfigAsLoaded
<1>1. ASSUME ConfigTyped, BridgeInv PROVE BridgesAsLoaded
  BY <1>1, BridgesAreRight DEF BridgesAsLoaded
<1>2. ASSUME VlanInv, ServedInv PROVE DhcpNetsAsLoaded
  <2> SUFFICES ASSUME AllAnswered, NEW n \in Nets, n \notin moved \cup dropped \cup passed, Exists(n)
               PROVE  dhcpNets[n] > 0 <=> DhcpServed(nets[n])
    BY DEF DhcpNetsAsLoaded
  <2>1. ~NetAsked({"mark"}, n) /\ ~NetAsked({"redhcp"}, n)
    BY DEF AllAnswered, NetAsked
  <2> QED BY <1>2, <2>1 DEF ServedInv, ServedAreRight, Kept, ByName, DhcpServed
<1>3. CatInv /\ VlanInv /\ TypeInv /\ BridgeInv /\ ServedInv => BridgesAsLoaded /\ DhcpNetsAsLoaded
  BY <1>1, <1>2 DEF TypeInv
<1>4. BridgesAsLoaded /\ DhcpNetsAsLoaded /\ ControllersAsLoaded => ConfigAsLoaded
  BY DEF ConfigAsLoaded
<1> QED BY <1>3, <1>4, ControllersStayAsLoaded, InitBridge, NextBridge, InitServed, NextServed, TypeInvariant, PTL DEF Spec
=============================================================================
