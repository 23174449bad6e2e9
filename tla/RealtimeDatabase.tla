-------------------------- MODULE RealtimeDatabase --------------------------
(***************************************************************************)
(* The Firebase Realtime Database as Arpegio uses it: one server tree whose *)
(* root children the app reads with observeSingleEvent and overwrites with  *)
(* setValue, and one SDK client per device.                                 *)
(*                                                                         *)
(* The client half is translated from the vendored SDK (FirebaseDatabase):  *)
(* FRepo, FSyncPoint, FSyncTree and FPersistentConnection.  The server half *)
(* is outside the repository; it applies the writes of one connection in    *)
(* the order they were sent and answers on that connection in order.        *)
(*                                                                         *)
(* A node of the tree is abstracted to the products it lists, in order.     *)
(***************************************************************************)
EXTENDS Naturals, Sequences

CONSTANTS
    Devices,     \* phones running the app
    Products,    \* product ids (a fresh UUID for every tap on "Tambah")
    Users,       \* user nodes: safeEmail(email)
    Categories,  \* the category names AddCategoryProductViewController offers
    NoCategory   \* the "" an AddProductViewController has when no category was picked

ProductsNode == "products"

ASSUME NamesAssumption ==
    /\ NoCategory \notin Categories
    /\ ProductsNode \notin Products \cup Users \cup Categories
    /\ Products \cap (Users \cup Categories) = {}
    /\ Users \cap Categories = {}

\* All of them are children of the one root: the app's namespace is flat.
ListNodes == {ProductsNode} \cup Categories \cup Users
Nodes     == ListNodes \cup Products

\* What a snapshot of a node says: whether it exists, and the product list in
\* it (a user node's "products" child; the whole node for the other lists).
Content == [there : BOOLEAN, list : Seq(Products)]
Absent  == [there |-> FALSE, list |-> <<>>]
Record  == [there |-> TRUE, list |-> <<>>]

\* Mutant of Listing: the product is wrapped in an array of its own.
ListingNested(content, p) ==
    [there |-> TRUE, list |-> Append(content.list, <<p>>)]

\* snapshot.value as? [[String:Any]]: append to the list, or start a new one.
Listing(content, p) == [there |-> TRUE, list |-> Append(content.list, p)]

VARIABLES
    tree,     \* server: [Nodes -> Content]
    pending,  \* per device: writes without an acknowledgement, oldest first
    feed,     \* per device: last server value of "products" (Home listens to it)
    alive     \* per device: the app process is running

dbVars == <<tree, pending, feed, alive>>

\* Where a pending write stands: not performed on the current connection,
\* performed, or denied by the server.
Fates == {"sent", "ok", "denied"}

DbInit ==
    /\ \E registered \in SUBSET Users :
          tree = [n \in Nodes |-> IF n \in registered THEN Record ELSE Absent]
    /\ pending = [d \in Devices |-> <<>>]
    /\ feed = [d \in Devices |-> tree[ProductsNode]]
    /\ alive = [d \in Devices |-> TRUE]

-----------------------------------------------------------------------------
(* Reads *)

PutsTo(d, n) == {i \in DOMAIN pending[d] : pending[d][i].node = n}

\* The event cache a read of n sees on d (a set with one element): the newest
\* pending write to n shadows the server; otherwise the cached value of
\* "products", or the server's answer for a node nobody listens to.
View(d, n) ==
    IF PutsTo(d, n) # {}
    THEN {pending[d][i].val :
              i \in {k \in PutsTo(d, n) : \A j \in PutsTo(d, n) : j <= k}}
    ELSE {IF n = ProductsNode THEN feed[d] ELSE tree[n]}

\* A read of n on d is answered on the device, without the server.
Cached(d, n) == n = ProductsNode \/ PutsTo(d, n) # {}

\* The updates of "products" that were sent to d have arrived.
CatchUp(d) == feed' = [feed EXCEPT ![d] = tree[ProductsNode]]

\* The server pushes the current "products" to a listening device.
Push(d) ==
    /\ alive[d]
    /\ CatchUp(d)
    /\ UNCHANGED <<tree, pending, alive>>

-----------------------------------------------------------------------------
(* Writes *)

Put(by, n, v) == [by |-> by, node |-> n, val |-> v, fate |-> "sent"]

\* The server performs the oldest write of d it has not yet performed on this
\* connection; a write its rules deny changes nothing.
Perform(d, denied) ==
    \E i \in DOMAIN pending[d] :
        /\ pending[d][i].fate = "sent"
        /\ \A j \in DOMAIN pending[d] : j < i => pending[d][j].fate # "sent"
        /\ pending' = [pending EXCEPT
              ![d][i].fate = IF pending[d][i].by \in denied THEN "denied" ELSE "ok"]
        /\ tree' = IF pending[d][i].by \in denied THEN tree
                   ELSE [tree EXCEPT ![pending[d][i].node] = pending[d][i].val]
        /\ UNCHANGED <<feed, alive>>

\* d's writes with the first kept of them left as they are, the others unsent.
Unsent(d, kept) ==
    [i \in DOMAIN pending[d] |->
        IF i <= kept THEN pending[d][i] ELSE [pending[d][i] EXCEPT !.fate = "sent"]]

\* Mutant of Reconnect: the writes are sent again newest first.
ReconnectReversed(d) ==
    /\ alive[d]
    /\ pending' = [pending EXCEPT ![d] =
          [i \in DOMAIN pending[d] |-> Unsent(d, 0)[Len(pending[d]) + 1 - i]]]
    /\ UNCHANGED <<tree, feed, alive>>

\* The connection has broken and is there again: restoreState sends every listen
\* again, one by one and in no fixed order, and behind them every outstanding
\* write, oldest first.  No longer outstanding are the writes whose answers had
\* come and only wait in putsToAck for a read to be answered.  The cache is what
\* it was; which reads are answered before "products" is, is for the modules
\* that read it (ProductInsert!ConnectionLost).
Reconnect(d) ==
    /\ alive[d]
    /\ \E kept \in 0..Len(pending[d]) :
          /\ \A i \in 1..kept : pending[d][i].fate # "sent"
          /\ pending' = [pending EXCEPT ![d] = Unsent(d, kept)]
    /\ UNCHANGED <<tree, feed, alive>>

\* The oldest write is acknowledged: it leaves the queue, and the connection
\* has by then delivered the "products" updates sent before.
Acknowledge(d) ==
    /\ alive[d]
    /\ pending[d] # <<>>
    /\ Head(pending[d]).fate # "sent"
    /\ pending' = [pending EXCEPT ![d] = Tail(@)]
    /\ CatchUp(d)
    /\ UNCHANGED <<tree, alive>>

-----------------------------------------------------------------------------
(* The process *)

\* The process ends.  Persistence is off, so its queue lives on only in what
\* the connection has already carried to the server.
Die(d) == alive' = [alive EXCEPT ![d] = FALSE]

\* What was still under way on a dead device's connection is lost.
Drop(d) ==
    /\ ~alive[d]
    /\ pending[d] # <<>>
    /\ pending' = [pending EXCEPT ![d] = <<>>]
    /\ UNCHANGED <<tree, feed, alive>>

\* The app is started again: an empty queue and a fresh listener in Home.
Relaunch(d) ==
    /\ ~alive[d]
    /\ pending[d] = <<>>
    /\ alive' = [alive EXCEPT ![d] = TRUE]
    /\ CatchUp(d)
    /\ UNCHANGED <<tree, pending>>
=============================================================================
