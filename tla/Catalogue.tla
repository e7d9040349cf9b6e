------------------------------ MODULE Catalogue ------------------------------
(***************************************************************************)
(* Tenants, and the flavors and images they may use: the requests of       *)
(* httpserver.py with the transactions of vim_db.py and ovim.py that they  *)
(* are made of.  An item is public or private, and linked to tenants by    *)
(* rows of tenants_flavors or tenants_images; a private item without a     *)
(* tenant is of no use to anybody.  A server names a flavor and an image   *)
(* of its tenant.                                                          *)
(*                                                                         *)
(* Kept: every transaction as a step of its own, what a request reads in   *)
(* one and uses in the next, the foreign keys.  check_valid_tenant is      *)
(* part of the step after it, which asks for more.                         *)
(*                                                                         *)
(* The key of a server into tenants_flavors is the flavor alone, which is  *)
(* not unique there: the database then keeps every link of an item that a  *)
(* server uses, whichever tenant's.                                        *)
(*                                                                         *)
(* Abstracted: an item is whether it is public; extended, metadata,        *)
(* checksum and the status of an image are left out, and so is PUT         *)
(* tenants, which changes its name.                                        *)
(***************************************************************************)
EXTENDS HttpRequests

CONSTANTS
  AdminThreads,  \* http-admin
  Tenants,
  Anybody,           \* in place of a tenant: the administrator's
  Flavors,
  Images

VARIABLES
  tenants,     \* the rows of tenants
  visible,     \* visible[i]: "public" or "private"; "no" if there is no such item
  links,       \* the rows of tenants_flavors and tenants_images
  servers,     \* the rows of instances
  (* history *)
  given,       \* uuids of items given
  strays,      \* items that may be left without a tenant, or seen by others
  late         \* items taken from a tenant while it was deploying a server

catVars == <<tenants, visible, links, servers, given, strays, late>>

Items == Flavors \cup Images

ASSUME ItemsAreTold ==
  /\ Flavors \cap Images = {}
  /\ AdminThreads \subseteq HttpThreads
  /\ Anybody \notin Tenants
  /\ Tenants # {}

Exist(i) == visible[i] # "no"

Linked(i) == \E t \in Tenants : <<t, i>> \in links

\* The foreign keys of instances.
InUse(i) == \E s \in servers : i \in {s.flavor, s.image}

Deploying(t, i) ==
  \E k \in HttpThreads :
    /\ http[k].op \in {"image", "link", "instance"}
    /\ http[k].tenant = t
    /\ i \in {http[k].flavor, http[k].image}

\* delete_row and its kin: the item goes if no link keeps it.
DropItem(i) == visible' = IF Linked(i) THEN visible ELSE [visible EXCEPT ![i] = "no"]

\* A request that is not admitted, or finds nothing, changes nothing: those of
\* the guards below are its early returns.

-----------------------------------------------------------------------------
(* Tenants *)

NewTenant(h, t) ==
  /\ t \notin tenants
  /\ tenants' = tenants \cup {t}
  /\ Begin(h, [op |-> "share", tenant |-> t])
  /\ UNCHANGED <<visible, links, servers, given, strays, late, faults>>

\* The second transaction gives it what is public; if it fails the tenant is
\* there all the same.
ShareItems(h) ==
  /\ http[h].op = "share"
  /\ LET t == http[h].tenant
     IN  \/ /\ links' = links \cup (IF t \in tenants
                                    THEN {<<t, i>> : i \in {j \in Items : visible[j] = "public"}}
                                    ELSE {})
            /\ UNCHANGED faults
         \/ UNCHANGED links /\ Fault
  /\ Finish(h)
  /\ UNCHANGED <<tenants, visible, servers, given, strays, late>>

\* delete_tentant reads what the tenant has; what cannot be read is nothing.
DeleteTenant(h, t) ==
  /\ t \in tenants
  /\ \E unread \in {{}, Flavors, Images} :
       /\ Begin(h, [op |-> "delete_row", tenant |-> t,
                    items |-> {i \in Items \ unread : <<t, i>> \in links}])
       /\ IF unread = {} THEN UNCHANGED faults ELSE Fault
  /\ UNCHANGED catVars

\* Its links go with it, and are what may keep it.
DeleteTenantRow(h) ==
  /\ http[h].op = "delete_row"
  /\ LET t == http[h].tenant
         mine == {i \in Items : <<t, i>> \in links}
     IN  IF \/ t \notin tenants
            \/ \E s \in servers : s.tenant = t
            \/ \E i \in mine : InUse(i)
         THEN Finish(h) /\ UNCHANGED catVars
         ELSE /\ tenants' = tenants \ {t}
              /\ links' = {l \in links : l[1] # t}
              /\ strays' = strays \cup (mine \ http[h].items)
              /\ late' = late \cup {i \in mine : Deploying(t, i)}
              /\ Continue(h, [http[h] EXCEPT !.op = "delete_items"])
              /\ UNCHANGED <<visible, servers, given>>
  /\ UNCHANGED faults

\* Then its items one by one, public or not, unless others have them.  Nobody
\* looks whether one could be deleted.
DeleteItemsOfTenant(h) ==
  /\ http[h].op = "delete_items"
  /\ IF http[h].items = {}
     THEN Finish(h) /\ UNCHANGED <<visible, strays, faults>>
     ELSE \E i \in http[h].items :
            /\ \/ DropItem(i) /\ UNCHANGED <<strays, faults>>
               \/ strays' = strays \cup {i} /\ Fault /\ UNCHANGED visible
            /\ Continue(h, [http[h] EXCEPT !.items = @ \ {i}])
  /\ UNCHANGED <<tenants, links, servers, given, late>>

-----------------------------------------------------------------------------
(* Flavors and images *)

Acts(h, t) == IF t = Anybody THEN h \in AdminThreads ELSE t \in tenants

\* new_flavor, new_image: the item and its link in one transaction.
NewItem(h, t, i, v) ==
  /\ Acts(h, t)
  /\ i \notin given
  /\ given' = given \cup {i}
  /\ visible' = [visible EXCEPT ![i] = v]
  /\ links' = IF t = Anybody THEN links ELSE links \cup {<<t, i>>}
  /\ strays' = IF t = Anybody THEN strays \cup {i} ELSE strays
  /\ Begin(h, Idle)
  /\ UNCHANGED <<tenants, servers, late, faults>>

\* delete_image_flavor for all tenants: one transaction.
DeleteItemOfAll(h, i) ==
  /\ Acts(h, Anybody)
  /\ Exist(i)
  /\ ~InUse(i)
  /\ visible' = [visible EXCEPT ![i] = "no"]
  /\ links' = {l \in links : l[2] # i}
  /\ late' = IF \E t \in Tenants : Deploying(t, i) THEN late \cup {i} ELSE late
  /\ Begin(h, Idle)
  /\ UNCHANGED <<tenants, servers, given, strays, faults>>

Unlink(t, i) ==
  /\ links' = links \ {<<t, i>>}
  /\ late' = IF Deploying(t, i) THEN late \cup {i} ELSE late

\* For one tenant: the link in one transaction, and the item in another.
DeleteItem(h, t, i) ==
  /\ Acts(h, t)
  /\ <<t, i>> \in links
  /\ ~InUse(i)
  /\ Unlink(t, i)
  /\ Begin(h, [op |-> "delete_private", item |-> i])
  /\ UNCHANGED <<tenants, visible, servers, given, strays, faults>>

\* Mutant: public and private are confused.
DeletePublic(h) ==
  /\ http[h].op = "delete_private"
  /\ IF visible[http[h].item] = "public" THEN DropItem(http[h].item) ELSE UNCHANGED visible
  /\ Finish(h)
  /\ UNCHANGED <<tenants, links, servers, given, strays, late, faults>>

DeletePrivate(h) ==
  /\ http[h].op = "delete_private"
  /\ LET i == http[h].item
     IN  \/ /\ IF visible[i] = "private" THEN DropItem(i) ELSE UNCHANGED visible
            /\ UNCHANGED <<faults, strays>>
         \/ strays' = strays \cup {i} /\ Fault /\ UNCHANGED visible
  /\ Finish(h)
  /\ UNCHANGED <<tenants, links, servers, given, late>>

\* What http_attach_detach reads is a link of any tenant.
AttachItem(h, t, i) ==
  /\ Acts(h, t)
  /\ Exist(i)
  /\ ~Linked(i)
  /\ visible[i] = "public" \/ h \in AdminThreads
  /\ Begin(h, [op |-> "attach", tenant |-> t, item |-> i])
  /\ UNCHANGED <<catVars, faults>>

InsertLink(h) ==
  /\ http[h].op = "attach"
  /\ LET t == http[h].tenant
         i == http[h].item
     IN  links' = IF t \in tenants /\ Exist(i) THEN links \cup {<<t, i>>} ELSE links
  /\ Finish(h)
  /\ UNCHANGED <<tenants, visible, servers, given, strays, late, faults>>

DetachItem(h, t, i) ==
  /\ Acts(h, t)
  /\ Linked(i)
  /\ Begin(h, [op |-> "detach", tenant |-> t, item |-> i, saw |-> visible[i]])
  /\ UNCHANGED <<catVars, faults>>

\* To delete no link is no error.
DeleteLink(h) ==
  /\ http[h].op = "detach"
  /\ LET t == http[h].tenant
         i == http[h].item
     IN  IF <<t, i>> \in links /\ InUse(i)
         THEN Finish(h) /\ UNCHANGED <<links, late>>
         ELSE /\ Unlink(t, i)
              /\ IF http[h].saw = "private"
                 THEN Continue(h, [http[h] EXCEPT !.op = "delete_orphan"])
                 ELSE Finish(h)
  /\ UNCHANGED <<tenants, visible, servers, given, strays, faults>>

\* To avoid orphan flavors and images.
DeleteOrphan(h) ==
  /\ http[h].op = "delete_orphan"
  /\ LET i == http[h].item
     IN  \/ DropItem(i) /\ UNCHANGED <<faults, strays>>
         \/ strays' = strays \cup {i} /\ Fault /\ UNCHANGED visible
  /\ Finish(h)
  /\ UNCHANGED <<tenants, links, servers, given, late>>

Sees(t, i) ==
  \/ t = Anybody /\ Exist(i)
  \/ <<t, i>> \in links
  \/ i \in Images /\ visible[i] = "public"

\* PUT: only an administrator edits what is public when it is read.
PutItem(h, t, i, v) ==
  /\ Acts(h, t)
  /\ Sees(t, i)
  /\ visible[i] = "public" => h \in AdminThreads
  /\ Begin(h, [op |-> "put", item |-> i, value |-> v])
  /\ UNCHANGED <<catVars, faults>>

UpdateItem(h) ==
  /\ http[h].op = "put"
  /\ LET i == http[h].item
     IN  IF visible[i] \in {"no", http[h].value}
         THEN UNCHANGED <<visible, strays>>
         ELSE /\ visible' = [visible EXCEPT ![i] = http[h].value]
              /\ strays' = strays \cup {i}
  /\ Finish(h)
  /\ UNCHANGED <<tenants, links, servers, given, late, faults>>

-----------------------------------------------------------------------------
(* Servers *)

\* Mutant: the flavor may be another tenant's.
DeployAny(h, t, f, m) ==
  /\ Acts(h, t)
  /\ Linked(f)
  /\ Begin(h, [op |-> "image", tenant |-> t, flavor |-> f, image |-> m])
  /\ UNCHANGED <<catVars, faults>>

\* POST servers: the flavor must be the tenant's.
Deploy(h, t, f, m) ==
  /\ Acts(h, t)
  /\ <<t, f>> \in links
  /\ Begin(h, [op |-> "image", tenant |-> t, flavor |-> f, image |-> m])
  /\ UNCHANGED <<catVars, faults>>

\* The image must be the tenant's or public.  A public image that no tenant
\* has is given to this one.
CheckImage(h) ==
  /\ http[h].op = "image"
  /\ LET t == http[h].tenant
         m == http[h].image
     IN  Continue(h, IF ~Sees(t, m) THEN Idle
                     ELSE [http[h] EXCEPT !.op = IF Linked(m) THEN "instance" ELSE "link"])
  /\ UNCHANGED <<catVars, faults>>

LinkImage(h) ==
  /\ http[h].op = "link"
  /\ LET t == http[h].tenant
         m == http[h].image
     IN  IF t \in tenants /\ Exist(m) /\ <<t, m>> \notin links
         THEN /\ links' = links \cup {<<t, m>>}
              /\ Continue(h, [http[h] EXCEPT !.op = "instance"])
         ELSE Finish(h) /\ UNCHANGED links
  /\ UNCHANGED <<tenants, visible, servers, given, strays, late, faults>>

\* new_instance: the keys look for a link of any tenant.
NewInstance(h) ==
  /\ http[h].op = "instance"
  /\ LET s == [tenant |-> http[h].tenant, flavor |-> http[h].flavor, image |-> http[h].image]
     IN  servers' = IF s.tenant \in tenants /\ Linked(s.flavor) /\ Linked(s.image)
                    THEN servers \cup {s} ELSE servers
  /\ Finish(h)
  /\ UNCHANGED <<tenants, visible, links, given, strays, late, faults>>

Undeploy(h, s) ==
  /\ s \in servers
  /\ servers' = servers \ {s}
  /\ Begin(h, Idle)
  /\ UNCHANGED <<tenants, visible, links, given, strays, late, faults>>

-----------------------------------------------------------------------------

CatalogueInit(stored) ==
  /\ tenants = stored
  /\ visible = [i \in Items |-> "no"]
  /\ links = {}
  /\ servers = {}
  /\ given = {}
  /\ strays = {}
  /\ late = {}

CatalogueRequest(h) ==
  \/ \E t \in Tenants : NewTenant(h, t) \/ DeleteTenant(h, t)
  \/ \E t \in Tenants \cup {Anybody}, i \in Items, v \in {"public", "private"} :
       NewItem(h, t, i, v) \/ PutItem(h, t, i, v)
  \/ \E i \in Items : DeleteItemOfAll(h, i)
  \/ \E t \in Tenants, i \in Items : DeleteItem(h, t, i) \/ AttachItem(h, t, i) \/ DetachItem(h, t, i)
  \/ \E t \in Tenants, f \in Flavors, m \in Images : Deploy(h, t, f, m)
  \/ \E s \in servers : Undeploy(h, s)

CatalogueStep(h) ==
  \/ ShareItems(h) \/ DeleteTenantRow(h) \/ DeleteItemsOfTenant(h)
  \/ DeletePrivate(h) \/ InsertLink(h) \/ DeleteLink(h) \/ DeleteOrphan(h) \/ UpdateItem(h)
  \/ CheckImage(h) \/ LinkImage(h) \/ NewInstance(h)

\* A stop of the process leaves what was still to be deleted.
CatalogueStop ==
  /\ strays' = strays \cup
       {i \in Items : \E h \in HttpThreads :
          \/ http[h].op \in {"delete_private", "delete_orphan"} /\ http[h].item = i
          \/ http[h].op = "delete_items" /\ i \in http[h].items}
  /\ UNCHANGED <<tenants, visible, links, servers, given, late>>

-----------------------------------------------------------------------------
(* Properties *)

CatalogueTypeOK ==
  /\ tenants \subseteq Tenants
  /\ visible \in [Items -> {"no", "public", "private"}]
  /\ links \subseteq Tenants \X Items
  /\ servers \subseteq [tenant : Tenants, flavor : Flavors, image : Images]

\* When all requests are answered a private item has a tenant, whichever ways
\* its tenants have let it go at the same time.  The exceptions: it was made by
\* an administrator for nobody, or was public once; its tenant was deleted with
\* a list of items read before it got this one, or that could not be read; the
\* transaction that was to delete it failed or the process stopped before it.
NoOrphans ==
  AllAnswered =>
    \A i \in Items \ strays : visible[i] = "private" => Linked(i)

\* The flavor of a server is its tenant's, and the image is its tenant's or
\* public, though the foreign keys ask for a link of any tenant.  The
\* exceptions: they were taken from the tenant between the check and the insert,
\* or were edited.
ServersHaveTheirItems ==
  \A s \in servers :
    /\ <<s.tenant, s.flavor>> \in links \/ s.flavor \in late
    /\ <<s.tenant, s.image>> \in links \/ visible[s.image] = "public" \/ s.image \in late \cup strays
=============================================================================
