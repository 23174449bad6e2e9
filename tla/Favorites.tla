------------------------------ MODULE Favorites ------------------------------
(***************************************************************************)
(* Favourites of one account: RemoteFavoriteDataSource, the heart button of *)
(* DetailProductViewController and the listener of FavoriteViewController.  *)
(* They live in the "favorites" child of the user node, which publishing    *)
(* rewrites too.  An addition reads the user node and writes it back whole; *)
(* a removal finds keys by a query, reads each key and clears it.           *)
(*                                                                         *)
(* The client works as in RealtimeDatabase (a queue of unacknowledged       *)
(* writes that shadows the server), here with writes to the user node and   *)
(* to single keys below it.                                                 *)
(***************************************************************************)
EXTENDS Naturals, Sequences, FiniteSets

CONSTANTS
    Devices,       \* phones signed in to the account
    Products,      \* products a detail screen can show
    Screens,       \* instances of DetailProductViewController
    Calls,         \* calls of check-, add- and removeProductFromFavorite
    Publications,  \* calls of insertProduct by the account, one product each
    Nothing,       \* a key of the list without a value
    MaxFavorites,  \* bound: length of the list of favourites
    MaxDenied,     \* bound: how many jobs the rules deny
    MaxFaults      \* bound: processes killed and connections broken

ASSUME FavoritesAssumption ==
    /\ Nothing \notin Products
    /\ Calls \cap Publications = {}
    /\ MaxFavorites \in Nat \ {0} /\ MaxDenied \in Nat /\ MaxFaults \in Nat

Jobs  == Calls \cup Publications
Slots == 0..(MaxFavorites - 1)

\* "favorites" as the database keeps it: values under the keys 0, 1, 2...
FavLists    == [Slots -> Products \cup {Nothing}]
NoFavorites == [k \in Slots |-> Nothing]

\* What the properties tell apart in a user node: that it exists, which
\* publications are in its "products" list, and its favourites.
UserNodes == [there : BOOLEAN, made : SUBSET Publications, fav : FavLists]
NoNode    == [there |-> FALSE, made |-> {}, fav |-> NoFavorites]

Favs(fav) == {fav[k] : k \in Slots} \ {Nothing}

\* The keys are 0..n-1: only such a list is exported as an array without
\* NSNull, for which the cast "as? [[String:Any]]" succeeds.
Dense(fav) == \A i, j \in Slots : i < j /\ fav[j] # Nothing => fav[i] # Nothing

Kinds  == {"none", "check", "add", "remove", "publish"}
Stages == {"idle",      \* not called
           "asked",     \* its single-value read or query is attached
           "raised",    \* the event with the snapshot is on its way
           "found",     \* the query's children are being read one by one
           "queued",    \* its write of the user node is in the device's queue
           "done",      \* onNext(true), onCompleted
           "failed",    \* onNext(false) after a denied write or query
           "silent",    \* the query had no children: nothing is emitted
           "notFound",  \* no user node
           "dead"}      \* the process ended first
KeyStages == {"none", "asked", "there", "gone", "handled"}

\* The key of a write that sets the whole user node.
WholeNode == MaxFavorites

Writes == [by : Jobs, key : Slots \cup {WholeNode}, val : UserNodes,
           fate : {"sent", "ok", "denied"}]

VARIABLES
    node,       \* server: the user node
    pending,    \* per device: writes without an acknowledgement, oldest first
    alive,      \* per device: the process is running
    listens,    \* per device: FavoriteViewController has attached its listener
    cache,      \* per device: the favourites that listener was last sent
    place,      \* per screen: the device it is on and the product it shows
    from,       \* per publication: its device
    heart,      \* per screen: unopened, or the colour of favoriteButton, or gone
    paint,      \* per screen: colours in blocks due on the main queue
    kind,       \* per job: which call it is
    caller,     \* per call: its screen
    stage,      \* per job
    snap,       \* per job: the snapshot its callback is handed
    child,      \* per job and key: how far the read of that key is
    denied,     \* jobs whose writes or query the server denies
    faults,     \* how many of the MaxFaults have happened
    contended,  \* history: two writing jobs were ever under way at once
    hurried,    \* history: products two calls worked on at once
    outdated,   \* history: removals whose query a listener behind the server answered
    informed    \* history: screens that were right when last answered or opened,
                \* and whose product no other job has changed since

dbVars     == <<node, pending, alive, listens, cache>>
screenVars == <<place, heart, paint>>
jobVars    == <<from, kind, caller, stage, snap, child>>
histVars   == <<contended, hurried, outdated, informed>>
vars       == <<dbVars, screenVars, jobVars, denied, faults, histVars>>

Product(c) == place[caller[c]].product
DeviceOf(j) == IF j \in Publications THEN from[j] ELSE place[caller[j]].dev

Writers == {"add", "remove", "publish"}

Queued(j)      == \E d \in Devices : \E i \in DOMAIN pending[d] : pending[d][i].by = j
Outstanding(j) == \E k \in Slots : child[j][k] \in {"asked", "there", "gone"}
Busy(j)        == stage[j] \in {"asked", "raised", "queued"} \/ Outstanding(j) \/ Queued(j)

Init ==
    /\ \E fav \in FavLists :
          /\ \A i, j \in Slots : fav[i] = fav[j] => i = j \/ fav[i] = Nothing
          /\ node \in {NoNode, [there |-> TRUE, made |-> {}, fav |-> fav]}
    /\ pending = [d \in Devices |-> <<>>]
    /\ alive = [d \in Devices |-> TRUE]
    /\ listens = [d \in Devices |-> FALSE]
    /\ cache = [d \in Devices |-> NoFavorites]
    /\ place \in [Screens -> [dev : Devices, product : Products]]
    /\ from \in [Publications -> Devices]
    /\ heart = [s \in Screens |-> "unopened"]
    /\ paint = [s \in Screens |-> <<>>]
    /\ kind = [j \in Jobs |-> "none"]
    /\ caller \in [Calls -> Screens]
    /\ stage = [j \in Jobs |-> "idle"]
    /\ snap = [j \in Jobs |-> NoNode]
    /\ child = [j \in Jobs |-> [k \in Slots |-> "none"]]
    /\ denied = {}
    /\ faults = 0
    /\ contended = FALSE
    /\ hurried = {}
    /\ outdated = {}
    /\ informed = {}

-----------------------------------------------------------------------------
(* The client *)

Wholes(d) == {i \in DOMAIN pending[d] : pending[d][i].key = WholeNode}

\* What d sees of a user node the server has as base: the newest pending write
\* of the whole node in its place, less the keys cleared after it.
Seen(d, base) ==
    LET last == {i \in Wholes(d) : \A j \in Wholes(d) : j <= i}
        under == IF last = {} THEN base
                 ELSE pending[d][CHOOSE i \in last : TRUE].val
        cleared == {pending[d][i].key :
                       i \in {k \in DOMAIN pending[d] : \A j \in last : j < k}}
    IN [under EXCEPT !.fav =
           [k \in Slots |-> IF k \in cleared THEN Nothing ELSE under.fav[k]]]

\* A read of the user node is answered by the server; a read below it from the
\* cache of a listener on "favorites", if one is attached.
NodeView(d) == Seen(d, node)
FavView(d)  == Seen(d, IF listens[d] THEN [node EXCEPT !.fav = cache[d]] ELSE node)

\* The favourites listener of d has what the server has: by an update; by the answer
\* to a read of the user node, which covers "favorites"; or because a write is
\* acknowledged, which is sent behind every listen.
CatchUp(d) == cache' = IF listens[d] THEN [cache EXCEPT ![d] = node.fav] ELSE cache

\* A write enters the queue of the job's device.  Whether the rules deny a job is
\* the server's choice, the same for all its writes and each time they are sent.
Enqueue(j, key, val) ==
    /\ pending' = [pending EXCEPT ![DeviceOf(j)] =
          Append(@, [by |-> j, key |-> key, val |-> val, fate |-> "sent"])]
    /\ denied' \in {denied, denied \cup {j}}
    /\ Cardinality(denied') <= MaxDenied

-----------------------------------------------------------------------------
(* The screens *)

\* A call starts: its read is attached.
Start(j, k) ==
    /\ stage[j] = "idle"
    /\ kind' = [kind EXCEPT ![j] = k]
    /\ stage' = [stage EXCEPT ![j] = "asked"]
    /\ contended' = (contended \/ (/\ k \in Writers
                                   /\ \E i \in Jobs : kind[i] \in Writers /\ Busy(i)))
    /\ hurried' = IF j \in Calls /\ (\/ paint[caller[j]] # <<>>
                                     \/ \E i \in Calls : Product(i) = Product(j) /\ Busy(i))
                  THEN hurried \cup {Product(j)} ELSE hurried
    /\ UNCHANGED <<dbVars, place, paint, from, caller, snap, child, denied, faults, outdated>>

\* viewWillAppear: the screen is pushed, or seen again; checkFavorite.
Appear(c) ==
    LET s == caller[c] IN
    /\ alive[place[s].dev]
    /\ heart[s] # "gone"
    /\ Start(c, "check")
    /\ heart' = [heart EXCEPT ![s] = IF @ = "unopened" THEN "white" ELSE @]
    /\ informed' = IF heart[s] = "unopened" /\ Product(c) \notin Favs(node.fav)
                   THEN informed \cup {s} ELSE informed

\* addFavorite, the action of the heart button: it goes by the button's colour.
Tap(c) ==
    /\ heart[caller[c]] \in {"white", "red"}
    /\ Start(c, IF heart[caller[c]] = "white" THEN "add" ELSE "remove")
    /\ UNCHANGED <<heart, informed>>

\* insertProduct is called from a publishing screen of the same account.
Publish(j) ==
    /\ alive[from[j]]
    /\ Start(j, "publish")
    /\ UNCHANGED <<heart, informed>>

\* An answer reaches the screen: a block that sets the colour goes to the main
\* queue.  History: the screen is informed if the colour is right by now, and
\* stays informed if it is the colour its own removal is about to make right.
Answer(c, colour) ==
    /\ paint' = [paint EXCEPT ![caller[c]] = Append(@, colour)]
    /\ informed' = IF (colour = "red") = (Product(c) \in Favs(node.fav))
                   THEN informed \cup {caller[c]}
                   ELSE IF kind[c] = "remove" THEN informed ELSE informed \ {caller[c]}

\* The block runs.
Paint(s) ==
    /\ paint[s] # <<>>
    /\ heart' = [heart EXCEPT ![s] = Head(paint[s])]
    /\ paint' = [paint EXCEPT ![s] = Tail(@)]
    /\ UNCHANGED <<dbVars, place, jobVars, denied, faults, histVars>>

\* FavoriteViewController.viewWillAppear: a live listener on the favourites.
VisitFavorites(d) ==
    /\ alive[d] /\ ~listens[d]
    /\ listens' = [listens EXCEPT ![d] = TRUE]
    /\ cache' = [cache EXCEPT ![d] = node.fav]
    /\ UNCHANGED <<node, pending, alive, screenVars, jobVars, denied, faults, histVars>>

-----------------------------------------------------------------------------
(* RemoteFavoriteDataSource, and insertProduct's part in the user node *)

Step(j, next) == stage' = [stage EXCEPT ![j] = next]

\* The user node's read is answered.
RaiseNode(j) ==
    /\ kind[j] \in {"add", "publish"} /\ stage[j] = "asked"
    /\ snap' = [snap EXCEPT ![j] = NodeView(DeviceOf(j))]
    /\ Step(j, "raised")
    /\ IF Wholes(DeviceOf(j)) = {} THEN CatchUp(DeviceOf(j)) ELSE UNCHANGED cache
    /\ UNCHANGED <<node, pending, alive, listens, screenVars, from, kind, caller,
                   child, denied, faults, histVars>>

\* The query for the product's id is answered.
RaiseQuery(c) ==
    /\ kind[c] \in {"check", "remove"} /\ stage[c] = "asked"
    /\ snap' = [snap EXCEPT ![c] = FavView(DeviceOf(c))]
    /\ Step(c, "raised")
    /\ LET d == DeviceOf(c) IN
       outdated' = IF kind[c] = "remove" /\ listens[d] /\ cache[d] # node.fav
                   THEN outdated \cup {c} ELSE outdated
    /\ UNCHANGED <<dbVars, screenVars, from, kind, caller, child, denied, faults,
                   contended, hurried, informed>>

\* The query is refused: the cancel block emits onNext(false).
QueryDenied(c) ==
    /\ kind[c] \in {"check", "remove"} /\ stage[c] = "asked"
    /\ Cardinality(denied \cup {c}) <= MaxDenied
    /\ denied' = denied \cup {c}
    /\ Step(c, "failed")
    /\ IF kind[c] = "check" THEN Answer(c, "white") ELSE UNCHANGED <<paint, informed>>
    /\ UNCHANGED <<dbVars, place, heart, from, kind, caller, snap, child, faults,
                   contended, hurried, outdated>>

\* No user node: onNext(false), or completion(false).
NodeMissing(j) ==
    /\ kind[j] \in {"add", "publish"} /\ stage[j] = "raised"
    /\ ~snap[j].there
    /\ Step(j, "notFound")
    /\ UNCHANGED <<dbVars, screenVars, from, kind, caller, snap, child, denied, faults,
                   histVars>>

\* Mutants of WithFavorite: the favourite is wrapped in an array of its own; it
\* always starts the list anew.
WithFavoriteNested(fav, p) == [fav EXCEPT ![0] = <<p>>]
WithFavoriteFresh(fav, p) == [NoFavorites EXCEPT ![0] = p]

\* favorites as? [[String:Any]]: append, or start a new list.
WithFavorite(fav, p) ==
    IF Dense(fav)
    THEN [k \in Slots |-> IF fav[k] = Nothing /\ \A i \in Slots : i < k => fav[i] # Nothing
                          THEN p ELSE fav[k]]
    ELSE [NoFavorites EXCEPT ![0] = p]

\* Write the snapshot back, changed.
Rewrite(j, val) ==
    /\ stage[j] = "raised"
    /\ snap[j].there
    /\ Step(j, "queued")
    /\ Enqueue(j, WholeNode, val)
    /\ snap' = [snap EXCEPT ![j] = NoNode]
    /\ UNCHANGED <<node, alive, listens, cache, screenVars, from, kind, caller, child,
                   faults, histVars>>

\* Mutant of AddFavorite: the list is never started (no else branch).
AddFavoriteNoElse(c) ==
    /\ kind[c] = "add"
    /\ Favs(snap[c].fav) # {}
    /\ Dense(snap[c].fav) => \E k \in Slots : snap[c].fav[k] = Nothing
    /\ Rewrite(c, [snap[c] EXCEPT !.fav = WithFavorite(@, Product(c))])

\* addProductToFavorite: the user node with the product among the favourites.
AddFavorite(c) ==
    /\ kind[c] = "add"
    /\ Dense(snap[c].fav) => \E k \in Slots : snap[c].fav[k] = Nothing
    /\ Rewrite(c, [snap[c] EXCEPT !.fav = WithFavorite(@, Product(c))])

\* Mutant of AddProduct: a new user node with the products alone.
AddProductAlone(j) ==
    /\ kind[j] = "publish"
    /\ Rewrite(j, [snap[j] EXCEPT !.made = @ \cup {j}, !.fav = NoFavorites])

\* insertProduct: the user node with the product among its products.
AddProduct(j) ==
    /\ kind[j] = "publish"
    /\ Rewrite(j, [snap[j] EXCEPT !.made = @ \cup {j}])

\* Mutant of Matches: the loop starts at the second child.
MatchesButFirst(c) == {k \in Slots : k # 0 /\ snap[c].fav[k] = Product(c)}

\* The children of the query's snapshot.
Matches(c) == {k \in Slots : snap[c].fav[k] = Product(c)}

\* The query's callback: attach one read per child, or do nothing at all.
QueryAnswered(c) ==
    /\ kind[c] \in {"check", "remove"} /\ stage[c] = "raised"
    /\ Step(c, IF Matches(c) = {} THEN "silent" ELSE "found")
    /\ child' = [child EXCEPT ![c] = [k \in Slots |->
          IF k \in Matches(c) THEN "asked" ELSE "none"]]
    /\ snap' = [snap EXCEPT ![c] = NoNode]
    /\ UNCHANGED <<dbVars, screenVars, from, kind, caller, denied, faults, histVars>>

\* The read of one key is answered.
RaiseChild(c, k) ==
    /\ child[c][k] = "asked"
    /\ child' = [child EXCEPT ![c][k] =
          IF FavView(DeviceOf(c)).fav[k] # Nothing THEN "there" ELSE "gone"]
    /\ UNCHANGED <<dbVars, screenVars, from, kind, caller, stage, snap, denied, faults,
                   histVars>>

\* The shape ChildThere and its mutant share: one key is found, and cleared or not.
ChildFound(c, k, clears) ==
    /\ child[c][k] = "there"
    /\ child' = [child EXCEPT ![c][k] = "handled"]
    /\ IF clears THEN Enqueue(c, k, NoNode) ELSE UNCHANGED <<pending, denied>>
    /\ IF stage[c] = "done" THEN UNCHANGED <<paint, informed>>
       ELSE Answer(c, IF kind[c] = "remove" THEN "white" ELSE "red")
    /\ Step(c, "done")
    /\ UNCHANGED <<node, alive, listens, cache, place, heart, from, kind, caller, snap,
                   faults, contended, hurried, outdated>>

\* Mutant of ChildThere: the answer is given, the key is not cleared.
ChildThereKept(c, k) == ChildFound(c, k, FALSE)

\* Something is under the key: onNext(true) and onCompleted, for a removal after
\* clearing the key.  Only the first answer of a call reaches the screen.
ChildThere(c, k) == ChildFound(c, k, kind[c] = "remove")

\* Nothing is there any more: onNext(false), which only checkFavorite shows.
ChildGone(c, k) ==
    /\ child[c][k] = "gone"
    /\ child' = [child EXCEPT ![c][k] = "handled"]
    /\ IF kind[c] = "check" /\ stage[c] = "found" THEN Answer(c, "white")
       ELSE UNCHANGED <<paint, informed>>
    /\ UNCHANGED <<dbVars, place, heart, from, kind, caller, stage, snap, denied, faults,
                   contended, hurried, outdated>>

-----------------------------------------------------------------------------
(* Server and process *)

\* The user node after a write is applied to it.
Applied(put) ==
    IF put.key = WholeNode THEN put.val
    ELSE [node EXCEPT !.fav[put.key] = Nothing]

\* The server performs the oldest write of d it has not yet performed on this
\* connection.  History: who did not call the job is no longer informed.
Server(d) ==
    \E i \in DOMAIN pending[d] :
        LET put == pending[d][i] IN
        /\ put.fate = "sent"
        /\ \A k \in DOMAIN pending[d] : k < i => pending[d][k].fate # "sent"
        /\ pending' = [pending EXCEPT
              ![d][i].fate = IF put.by \in denied THEN "denied" ELSE "ok"]
        /\ node' = IF put.by \in denied THEN node ELSE Applied(put)
        /\ informed' = {s \in informed :
              \/ (place[s].product \in Favs(node.fav)) = (place[s].product \in Favs(node'.fav))
              \/ put.by \in Calls /\ caller[put.by] = s}
        /\ UNCHANGED <<alive, listens, cache, screenVars, jobVars, denied, faults,
                       contended, hurried, outdated>>

\* Acknowledgements are held back while a read of the device has no answer.
NoReads(d) == \A j \in Jobs : DeviceOf(j) = d =>
                  stage[j] # "asked" /\ \A k \in Slots : child[j][k] # "asked"

\* The oldest write is acknowledged; removeValue has no completion block.
Acknowledge(d, good, bad) ==
    /\ alive[d]
    /\ pending[d] # <<>>
    /\ Head(pending[d]).fate # "sent"
    /\ NoReads(d)
    /\ pending' = [pending EXCEPT ![d] = Tail(@)]
    /\ CatchUp(d)
    /\ LET put == Head(pending[d]) IN
          IF put.key # WholeNode THEN UNCHANGED <<stage, paint, informed>>
          ELSE /\ Step(put.by, IF put.fate = "ok" THEN good ELSE bad)
               /\ IF put.by \in Calls /\ (put.fate = "ok" \/ good = bad)
                  THEN Answer(put.by, "red") ELSE UNCHANGED <<paint, informed>>
    /\ UNCHANGED <<node, alive, listens, place, heart, from, kind, caller, snap, child,
                   denied, faults, contended, hurried, outdated>>

\* Mutant of Completion: the error is not looked at.
CompletionUnchecked(d) == Acknowledge(d, "done", "done")

\* The completion block: onNext(true) and onCompleted, or onNext(false).
Completion(d) == Acknowledge(d, "done", "failed")

\* The process ends with its screens, its reads and the blocks due.
Kill(d) ==
    /\ alive[d]
    /\ faults < MaxFaults
    /\ faults' = faults + 1
    /\ alive' = [alive EXCEPT ![d] = FALSE]
    /\ listens' = [listens EXCEPT ![d] = FALSE]
    /\ cache' = [cache EXCEPT ![d] = NoFavorites]
    /\ heart' = [s \in Screens |->
          IF place[s].dev = d /\ heart[s] # "unopened" THEN "gone" ELSE heart[s]]
    /\ paint' = [s \in Screens |-> IF place[s].dev = d THEN <<>> ELSE paint[s]]
    /\ stage' = [j \in Jobs |->
          IF DeviceOf(j) = d /\ stage[j] \in {"asked", "raised", "found"}
          THEN "dead" ELSE stage[j]]
    /\ snap' = [j \in Jobs |-> IF DeviceOf(j) = d THEN NoNode ELSE snap[j]]
    /\ child' = [j \in Jobs |->
          IF DeviceOf(j) = d THEN [k \in Slots |-> "none"] ELSE child[j]]
    /\ UNCHANGED <<node, pending, place, from, kind, caller, denied, histVars>>

\* What a dead device had under way is lost.
LoseQueue(d) ==
    /\ ~alive[d] /\ pending[d] # <<>>
    /\ pending' = [pending EXCEPT ![d] = <<>>]
    /\ stage' = [j \in Jobs |->
          IF DeviceOf(j) = d /\ stage[j] = "queued" THEN "dead" ELSE stage[j]]
    /\ UNCHANGED <<node, alive, listens, cache, screenVars, from, kind, caller, snap,
                   child, denied, faults, histVars>>

Relaunch(d) ==
    /\ ~alive[d] /\ pending[d] = <<>>
    /\ alive' = [alive EXCEPT ![d] = TRUE]
    /\ UNCHANGED <<node, pending, listens, cache, screenVars, jobVars, denied, faults,
                   histVars>>

\* The connection breaks: the outstanding writes are sent again, oldest first;
\* those answered already, a prefix of the queue, are not outstanding.
ConnectionLost(d) ==
    /\ alive[d]
    /\ faults < MaxFaults
    /\ faults' = faults + 1
    /\ \E kept \in 0..Len(pending[d]) :
          /\ \A i \in 1..kept : pending[d][i].fate # "sent"
          /\ \E i \in DOMAIN pending[d] : i > kept /\ pending[d][i].fate # "sent"
          /\ pending' = [pending EXCEPT ![d] = [i \in DOMAIN @ |->
                IF i <= kept THEN @[i] ELSE [pending[d][i] EXCEPT !.fate = "sent"]]]
    /\ UNCHANGED <<node, alive, listens, cache, screenVars, jobVars, denied, histVars>>

\* The server pushes the current favourites to a listening device.
Push(d) ==
    /\ listens[d] /\ cache[d] # node.fav
    /\ cache' = [cache EXCEPT ![d] = node.fav]
    /\ UNCHANGED <<node, pending, alive, listens, screenVars, jobVars, denied, faults,
                   histVars>>

Callback(j) ==
    \/ NodeMissing(j) \/ QueryAnswered(j)
    \/ j \in Calls /\ AddFavorite(j)
    \/ j \in Publications /\ AddProduct(j)
    \/ \E k \in Slots : ChildThere(j, k) \/ ChildGone(j, k)

Read(j) == RaiseNode(j) \/ RaiseQuery(j) \/ \E k \in Slots : RaiseChild(j, k)

Next ==
    \/ \E c \in Calls : Appear(c) \/ Tap(c) \/ QueryDenied(c)
    \/ \E j \in Publications : Publish(j)
    \/ \E j \in Jobs : Read(j) \/ Callback(j)
    \/ \E s \in Screens : Paint(s)
    \/ \E d \in Devices :
          \/ VisitFavorites(d) \/ Server(d) \/ Completion(d) \/ Kill(d) \/ LoseQueue(d)
          \/ Relaunch(d) \/ ConnectionLost(d) \/ Push(d)

Spec == Init /\ [][Next]_vars

\* The main queue of a living process runs what is due on it; the connection
\* answers reads, carries writes to the server and ends with its process.
MainQueue(d) ==
    \/ \E j \in Jobs : DeviceOf(j) = d /\ Callback(j)
    \/ \E s \in Screens : place[s].dev = d /\ Paint(s)

Connection(d) ==
    \/ \E j \in Jobs : DeviceOf(j) = d /\ Read(j)
    \/ Server(d) \/ Completion(d) \/ LoseQueue(d)

Fairness == \A d \in Devices : WF_vars(MainQueue(d)) /\ WF_vars(Connection(d))

FairSpec == Spec /\ Fairness
-----------------------------------------------------------------------------
(* Properties *)

\* Every variable keeps its type.
FavTypeOK ==
    /\ node \in UserNodes
    /\ pending \in [Devices -> Seq(Writes)]
    /\ alive \in [Devices -> BOOLEAN] /\ listens \in [Devices -> BOOLEAN]
    /\ cache \in [Devices -> FavLists]
    /\ place \in [Screens -> [dev : Devices, product : Products]]
    /\ from \in [Publications -> Devices]
    /\ heart \in [Screens -> {"unopened", "white", "red", "gone"}]
    /\ paint \in [Screens -> Seq({"white", "red"})]
    /\ kind \in [Jobs -> Kinds]
    /\ caller \in [Calls -> Screens]
    /\ stage \in [Jobs -> Stages]
    /\ snap \in [Jobs -> UserNodes]
    /\ child \in [Jobs -> [Slots -> KeyStages]]
    /\ denied \in SUBSET Jobs
    /\ faults \in 0..MaxFaults
    /\ contended \in BOOLEAN
    /\ hurried \in SUBSET Products /\ outdated \in SUBSET Calls /\ informed \in SUBSET Screens

\* While writing jobs take turns, publishing and favourites leave each other's
\* half of the user node alone, and a favourite goes only by a removal that was
\* tapped for that product, by an addition to a list with a hole, or by a removal
\* that took its keys from a listener behind the server.
NodeKept ==
    [][ contended'
        \/ /\ node.made \subseteq node'.made
           /\ \A p \in Favs(node.fav) \ Favs(node'.fav) : \E c \in Calls :
                 /\ Busy(c)
                 /\ \/ kind[c] = "remove" /\ (Product(c) = p \/ c \in outdated)
                    \/ kind[c] = "add" /\ ~Dense(node.fav) ]_vars

\* What is reported as a success has happened: unless writing jobs overlapped,
\* the product is among the favourites, or among the published, by then.
SuccessIsTrue ==
    [][ contended \/ \A j \in Jobs :
          stage[j] # "done" /\ stage'[j] = "done" =>
              /\ kind[j] = "add" => Product(j) \in Favs(node.fav)
              /\ kind[j] = "publish" => j \in node.made ]_vars

\* At rest: nothing due on the screen, no job under way that concerns it.
AtRest(s) ==
    /\ paint[s] = <<>>
    /\ \A c \in Calls : Product(c) = place[s].product => ~Busy(c)

\* The colour tells whether the product is a favourite, on a screen at rest that
\* has once been right, as long as the calls for the product take turns, none is
\* denied or goes by a listener behind the server, and only this screen changes
\* the product.
HeartTellsTruth ==
    \A s \in informed :
        LET p == place[s].product IN
        /\ heart[s] \in {"white", "red"}
        /\ AtRest(s)
        /\ p \notin hurried /\ ~contended
        /\ \A c \in Calls : caller[c] = s => c \notin denied /\ c \notin outdated
        => (heart[s] = "red" <=> p \in Favs(node.fav))

\* Every call and publication that starts comes to an end.
JobsEnd == \A j \in Jobs : Busy(j) ~> ~Busy(j)

\* A screen that opens on what its device sees as a favourite turns red, unless
\* its process ends, the query is refused, the product is removed meanwhile or
\* another call for it is under way.
HeartLearns ==
    \A c \in Calls :
        LET p == Product(c) IN
        /\ kind[c] = "check" /\ stage[c] = "asked"
        /\ p \in Favs(FavView(DeviceOf(c)).fav)
        ~> \/ heart[caller[c]] \in {"red", "gone"}
           \/ c \in denied \/ p \in hurried \/ p \notin Favs(node.fav)
=============================================================================
