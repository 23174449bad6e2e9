---------------------------- MODULE ProductInsert ----------------------------
(***************************************************************************)
(* DatabaseManager.insertProduct: publishing a product writes it to four    *)
(* places ("heads" in the code's comments): the list of all products, the   *)
(* list of its category, a node of its own and the owner's node.  The lists *)
(* are read, extended and written back whole, and nothing makes a read and  *)
(* its write one step, on one device or between several.                    *)
(***************************************************************************)
EXTENDS RealtimeDatabase, FiniteSets

CONSTANTS
    MaxDenied,   \* bound: how many writes the rules deny in one behaviour
    MaxFaults    \* bound: how many times a process is killed or a connection breaks

ASSUME BoundsAssumption == MaxDenied \in Nat /\ MaxFaults \in Nat

Heads     == {"user", "id", "products", "category"}
ListHeads == {"products", "category"}   \* read in a callback of their own
ReadHeads == ListHeads \cup {"user"}

\* One head of one publication: nothing yet; a single-value read attached; its
\* event on its way to the main queue with a snapshot; the write in the
\* device's queue; completion(true) or completion(false) called from the
\* acknowledgement; "user not found"; or the process ended first.
Stages  == {"none", "asked", "raised", "queued", "done", "failed", "notFound", "dead"}
Working == {"asked", "raised", "queued"}

VARIABLES
    form,    \* per product: the device, account and category it is published from
    head,    \* [Products -> [Heads -> Stages]]
    snap,    \* [Products -> [ReadHeads -> Content]]: snapshots handed to callbacks
    denied,  \* writes <<p, h>> that the server's rules deny
    faults,  \* how many of the MaxFaults have happened
    ahead,   \* reads <<p, h>> that restoreState sent before the listen of "products"
    behind,  \* devices that have reconnected and not had "products" since
    shared   \* history: lists two publications ever worked on at once, or one
             \* worked on from a value that a reconnected device still had

listens == <<ahead, behind>>
pubVars == <<form, head, snap, denied, faults, listens, shared>>
vars == <<dbVars, pubVars>>

Writes == [by : Products \X Heads, node : Nodes, val : Content, fate : Fates]

Forms == [dev : Devices, owner : Users, cat : Categories \cup {NoCategory}]

Target(p, h) ==
    CASE h = "user"     -> form[p].owner
      [] h = "id"       -> p
      [] h = "products" -> ProductsNode
      [] h = "category" -> form[p].cat

Touched(p) == {ProductsNode, form[p].owner, form[p].cat} \cap ListNodes
Active(p)  == \E h \in Heads : head[p][h] \in Working

Init ==
    /\ DbInit
    /\ form \in [Products -> Forms]
    /\ head = [p \in Products |-> [h \in Heads |-> "none"]]
    /\ snap = [p \in Products |-> [h \in ReadHeads |-> Absent]]
    /\ denied = {}
    /\ faults = 0
    /\ ahead = {}
    /\ behind = {}
    /\ shared = {}

-----------------------------------------------------------------------------
\* insertProduct(with:product:completion:) is called: attach the read of the
\* owner's node.
Begin(p) ==
    /\ alive[form[p].dev]
    /\ head[p]["user"] = "none"
    /\ head' = [head EXCEPT ![p]["user"] = "asked"]
    /\ shared' = shared \cup
          UNION {Touched(p) \cap Touched(q) : q \in {r \in Products : Active(r)}}
    /\ UNCHANGED <<dbVars, form, snap, denied, faults, listens>>

\* The single-value reads of d that are listened to at the server; the read of
\* "products" is Home's listen.
Listens(d) == {r \in Products \X {"user", "category"} :
                  form[r[1]].dev = d /\ head[r[1]][r[2]] = "asked"}

\* The answers on one connection come in the order of the listens: an answer to
\* a read is behind what was sent of "products" before it, except a read that
\* was sent again ahead of "products".
Answered(p, h) ==
    LET d == form[p].dev IN
    IF Cached(d, Target(p, h)) \/ <<p, h>> \in ahead
    THEN ahead' = ahead \ {<<p, h>>} /\ UNCHANGED <<feed, behind>>
    ELSE /\ Listens(d) \cap ahead = {}
         /\ CatchUp(d) /\ behind' = behind \ {d}
         /\ UNCHANGED ahead

\* A read of "products" on d is given a value from before the last reconnect.
Outdated(d) ==
    d \in behind /\ PutsTo(d, ProductsNode) = {} /\ feed[d] # tree[ProductsNode]

\* The SDK has a complete value for the node: it computes the snapshot and
\* sends the event to the main queue.
Raise(p, h) ==
    LET d == form[p].dev  n == Target(p, h) IN
    /\ head[p][h] = "asked"
    /\ \E v \in View(d, n) : snap' = [snap EXCEPT ![p][h] = v]
    /\ head' = [head EXCEPT ![p][h] = "raised"]
    /\ Answered(p, h)
    /\ shared' = IF n = ProductsNode /\ Outdated(d) THEN shared \cup {n} ELSE shared
    /\ UNCHANGED <<tree, pending, alive, form, denied, faults>>

\* A write enters the device's queue; whether the rules deny it is the
\* server's choice, the same one each time the write is sent.
Enqueue(d, puts) ==
    /\ pending' = [pending EXCEPT ![d] = @ \o puts]
    /\ \E refused \in SUBSET {puts[i].by : i \in DOMAIN puts} :
          /\ Cardinality(denied \cup refused) <= MaxDenied
          /\ denied' = denied \cup refused

\* Mutant of UserFound: the user node is written before the product's own.
UserFoundUserFirst(p) ==
    /\ head[p]["user"] = "raised"
    /\ snap[p]["user"].there
    /\ form[p].cat # NoCategory
    /\ head' = [head EXCEPT ![p] = [user |-> "queued", id |-> "queued",
                                    products |-> "asked", category |-> "asked"]]
    /\ Enqueue(form[p].dev,
               << Put(<<p, "user">>, form[p].owner, Listing(snap[p]["user"], p)),
                  Put(<<p, "id">>, p, Record) >>)
    /\ snap' = [snap EXCEPT ![p]["user"] = Absent]
    /\ UNCHANGED <<tree, feed, alive, form, faults, listens, shared>>

\* The callback of the user read finds a node: attach the two list reads, then
\* write the product's own node and the whole user node with the product
\* appended.
UserFound(p) ==
    /\ head[p]["user"] = "raised"
    /\ snap[p]["user"].there
    /\ form[p].cat # NoCategory
    /\ head' = [head EXCEPT ![p] = [user |-> "queued", id |-> "queued",
                                    products |-> "asked", category |-> "asked"]]
    /\ Enqueue(form[p].dev,
               << Put(<<p, "id">>, p, Record),
                  Put(<<p, "user">>, form[p].owner, Listing(snap[p]["user"], p)) >>)
    /\ snap' = [snap EXCEPT ![p]["user"] = Absent]
    /\ UNCHANGED <<tree, feed, alive, form, faults, listens, shared>>

\* No user node: completion(false), nothing else.
UserMissing(p) ==
    /\ head[p]["user"] = "raised"
    /\ ~ snap[p]["user"].there
    /\ head' = [head EXCEPT ![p]["user"] = "notFound"]
    /\ UNCHANGED <<dbVars, form, snap, denied, faults, listens, shared>>

\* The shape ListRead and its mutants share: the head's next stage, and the
\* content the product is appended to.
WriteList(p, h, stage, content) ==
    /\ h \in ListHeads
    /\ head[p][h] = "raised"
    /\ head' = [head EXCEPT ![p][h] = stage]
    /\ Enqueue(form[p].dev, << Put(<<p, h>>, Target(p, h), Listing(content, p)) >>)
    /\ snap' = [snap EXCEPT ![p][h] = Absent]
    /\ UNCHANGED <<tree, feed, alive, form, faults, listens, shared>>

\* Mutants of ListRead: the list is started anew every time; it is never
\* started (no else branch); the other read's snapshot is used; the listener
\* stays attached (observe instead of observeSingleEvent).
ListReadFresh(p, h) == WriteList(p, h, "queued", Absent)
ListReadNoElse(p, h) == snap[p][h].there /\ WriteList(p, h, "queued", snap[p][h])
ListReadSwapped(p, h) == WriteList(p, h, "queued", snap[p]["products"])
ListReadObserving(p, h) == WriteList(p, h, "asked", snap[p][h])

\* The callback of a list read: write the list with the product appended.
ListRead(p, h) == WriteList(p, h, "queued", snap[p][h])

-----------------------------------------------------------------------------
Server(d) == Perform(d, denied) /\ UNCHANGED pubVars

\* Mutant of Completion: the error is not looked at.
CompletionUnchecked(d) ==
    /\ \A p \in Products, h \in ReadHeads :
          form[p].dev = d => head[p][h] # "asked"
    /\ Acknowledge(d)
    /\ LET put == Head(pending[d]) IN
          head' = [head EXCEPT ![put.by[1]][put.by[2]] = "done"]
    /\ behind' = behind \ {d}
    /\ UNCHANGED <<form, snap, denied, faults, ahead, shared>>

\* The completion block of the oldest write runs.  Acknowledgements are held
\* back while a read of this device has no answer.
Completion(d) ==
    /\ \A p \in Products, h \in ReadHeads :
          form[p].dev = d => head[p][h] # "asked"
    /\ Acknowledge(d)
    /\ LET put == Head(pending[d]) IN
          head' = [head EXCEPT ![put.by[1]][put.by[2]] =
                      IF put.fate = "ok" THEN "done" ELSE "failed"]
    /\ behind' = behind \ {d}
    /\ UNCHANGED <<form, snap, denied, faults, ahead, shared>>

\* The process ends: every read attached and every callback due is gone.
Crash(d) ==
    /\ Die(d)
    /\ head' = [p \in Products |-> [h \in Heads |->
          IF form[p].dev = d /\ head[p][h] \in {"asked", "raised"}
          THEN "dead" ELSE head[p][h]]]
    /\ snap' = [p \in Products |-> [h \in ReadHeads |->
          IF form[p].dev = d THEN Absent ELSE snap[p][h]]]
    /\ ahead' = ahead \ Listens(d)
    /\ UNCHANGED <<tree, pending, feed, form, denied, behind, shared>>

Kill(d) ==
    /\ alive[d]
    /\ faults < MaxFaults
    /\ faults' = faults + 1
    /\ Crash(d)

\* child("") raises an exception: publishing from the tab that holds a form
\* without a category ends the app in the middle of the callback, before any
\* of the four writes.
NoCategoryException(p) ==
    /\ head[p]["user"] = "raised"
    /\ snap[p]["user"].there
    /\ form[p].cat = NoCategory
    /\ Crash(form[p].dev)
    /\ UNCHANGED faults

\* The writes a dead device had under way never arrive.
LoseQueue(d) ==
    /\ Drop(d)
    /\ head' = [p \in Products |-> [h \in Heads |->
          IF form[p].dev = d /\ head[p][h] = "queued" THEN "dead" ELSE head[p][h]]]
    /\ UNCHANGED <<form, snap, denied, faults, listens, shared>>

\* Which of the reads under way are sent again before "products" is the order of
\* a dictionary.
ConnectionLost(d) ==
    /\ faults < MaxFaults
    /\ faults' = faults + 1
    /\ Reconnect(d)
    /\ behind' = behind \cup {d}
    /\ \E first \in SUBSET Listens(d) : ahead' = (ahead \ Listens(d)) \cup first
    /\ UNCHANGED <<form, head, snap, denied, shared>>

\* "products" comes: an update, the answer to the listen sent again, or the first
\* value of a new process.
Refresh(d) ==
    /\ \/ /\ Push(d)
          /\ feed[d] # tree[ProductsNode] \/ d \in behind
          /\ Listens(d) \cap ahead = {}
       \/ Relaunch(d)
    /\ behind' = behind \ {d}
    /\ UNCHANGED <<form, head, snap, denied, faults, ahead, shared>>

Publication(p) ==
    \/ Begin(p)
    \/ \E h \in ReadHeads : Raise(p, h)
    \/ UserFound(p)
    \/ UserMissing(p)
    \/ NoCategoryException(p)
    \/ \E h \in ListHeads : ListRead(p, h)

Device(d) ==
    \/ Server(d)
    \/ Completion(d)
    \/ Kill(d)
    \/ LoseQueue(d)
    \/ ConnectionLost(d)
    \/ Refresh(d)

Next == (\E p \in Products : Publication(p)) \/ (\E d \in Devices : Device(d))

Spec == Init /\ [][Next]_vars

\* Two schedulers are relied on.  The main queue of a living process runs the
\* callbacks due on it.  The connection makes progress: reads get answers,
\* writes reach the server and are acknowledged, a dead connection ends.
MainQueue(d) == \E p \in Products :
    /\ form[p].dev = d
    /\ \/ UserFound(p) \/ UserMissing(p) \/ NoCategoryException(p)
       \/ \E h \in ListHeads : ListRead(p, h)

Connection(d) ==
    \/ \E p \in Products, h \in ReadHeads : form[p].dev = d /\ Raise(p, h)
    \/ Server(d) \/ Completion(d) \/ LoseQueue(d)

Fairness == \A d \in Devices : WF_vars(MainQueue(d)) /\ WF_vars(Connection(d))

FairSpec == Spec /\ Fairness
-----------------------------------------------------------------------------
(* Properties *)

Elements(s) == {s[i] : i \in DOMAIN s}
Listed(n)   == Elements(tree[n].list)

\* Every variable keeps its type.
TypeOK ==
    /\ tree \in [Nodes -> Content]
    /\ feed \in [Devices -> Content]
    /\ alive \in [Devices -> BOOLEAN]
    /\ pending \in [Devices -> Seq(Writes)]
    /\ form \in [Products -> Forms]
    /\ head \in [Products -> [Heads -> Stages]]
    /\ snap \in [Products -> [ReadHeads -> Content]]
    /\ faults \in 0..MaxFaults
    /\ denied \in SUBSET (Products \X Heads)
    /\ ahead \in SUBSET (Products \X ReadHeads)
    /\ behind \in SUBSET Devices
    /\ shared \in SUBSET ListNodes

\* A product that any list shows has its own node, unless the database denied
\* that write: the list writes come behind it in one queue, through crashes,
\* resent writes and lists extended from another product's unacknowledged one.
RecordFirst ==
    \A n \in ListNodes : \A p \in Listed(n) :
        tree[p].there \/ <<p, "id">> \in denied

\* No list shows a product twice: neither a resent write nor a snapshot that
\* already holds an unacknowledged write adds the same product again.
NoDuplicates ==
    \A n \in ListNodes : \A i, j \in DOMAIN tree[n].list :
        tree[n].list[i] = tree[n].list[j] => i = j

\* A product is only ever shown by the list of its own category and of the
\* account that published it, and only if it has a category.
FiledCorrectly ==
    \A n \in ListNodes : \A p \in Listed(n) :
        n \in Touched(p) /\ form[p].cat # NoCategory

\* A list no two publications worked on at once shows every product whose write
\* to it was reported as a success, whatever happened on the other lists; unless
\* the list is "products" and a publication was given a value of it from before
\* a reconnect.
UnsharedKeepsAll ==
    \A p \in Products : \A h \in ReadHeads :
        head[p][h] = "done" /\ Target(p, h) \notin shared
            => p \in Listed(Target(p, h))

\* Publishing implements the catalogue: the lists are its shelves, contended
\* where publications have shared a list or worked on an old value of it.
Promise == INSTANCE Catalogue WITH
    Shelves <- ListNodes, Items <- Products,
    shelf <- [n \in ListNodes |-> tree[n].list], contended <- shared

CatalogueKept == Promise!Spec

\* Every publication comes to an end: each of its heads is reported to the
\* completion block, or the user was not found, or the process ended.  A product
\* is published once, so it is enough that at some time none is under way.
PublicationEnds ==
    (\E p \in Products : Active(p)) ~> (\A p \in Products : ~Active(p))

\* "nambahin ke head products": a product whose write to the list of all products
\* was reported as a success is in that list.
AddedStaysListed ==
    \A p \in Products : head[p]["products"] = "done" => p \in Listed(ProductsNode)
=============================================================================
