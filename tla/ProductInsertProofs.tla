------------------------- MODULE ProductInsertProofs -------------------------
(***************************************************************************)
(* Proofs about publishing, for every number of devices, accounts, products *)
(* and categories, and for any number of faults and denied writes.          *)
(***************************************************************************)
EXTENDS ProductInsert, TLAPS

\* Typing is inductive only together with what keeps "" out of the tree: list
\* heads are worked on, and writes queued, only for products with a category.
Categorized ==
    /\ \A p \in Products : \A h \in Heads \ {"user"} :
          head[p][h] # "none" => form[p].cat \in Categories
    /\ \A d \in Devices : \A i \in DOMAIN pending[d] :
          form[pending[d][i].by[1]].cat \in Categories

TypeInv == TypeOK /\ Categorized

-----------------------------------------------------------------------------
(* Lemmas about the operators *)

\* Appending a product to a content gives a content.
LEMMA ListingType ==
    ASSUME NEW c \in Content, NEW p \in Products
    PROVE  Listing(c, p) \in Content
BY DEF Listing, Content

\* The two contents written by name are contents.
LEMMA ConstantContents == Absent \in Content /\ Record \in Content
BY DEF Absent, Record, Content

\* A head's target is a node of the tree once the product has a category.
LEMMA TargetType ==
    ASSUME TypeOK, NEW p \in Products, NEW h \in Heads,
           h = "category" => form[p].cat \in Categories
    PROVE  Target(p, h) \in Nodes
BY DEF TypeOK, Target, Nodes, ListNodes, Heads, Forms

\* The four heads; three of them are read.
LEMMA ReadHeadsAreHeads == ReadHeads \subseteq Heads /\ ListHeads \subseteq ReadHeads
BY DEF ReadHeads, ListHeads, Heads

\* An entry of a queue is a write, and its place is a number up to the length.
LEMMA EntryType ==
    ASSUME TypeOK, NEW d \in Devices, NEW i \in DOMAIN pending[d]
    PROVE  /\ pending[d] \in Seq(Writes)
           /\ DOMAIN pending[d] = 1..Len(pending[d])
           /\ Len(pending[d]) \in Nat
           /\ pending[d][i] \in Writes
<1>1. pending[d] \in Seq(Writes)
  BY DEF TypeOK
<1> QED
  BY <1>1

\* A queue with some of its writes unsent holds the same writes.
LEMMA UnsentType ==
    ASSUME TypeOK, NEW d \in Devices, NEW kept \in Nat
    PROVE  /\ Unsent(d, kept) \in Seq(Writes)
           /\ DOMAIN Unsent(d, kept) = DOMAIN pending[d]
           /\ \A i \in DOMAIN pending[d] :
                 /\ Unsent(d, kept)[i].by = pending[d][i].by
                 /\ Unsent(d, kept)[i].node = pending[d][i].node
                 /\ Unsent(d, kept)[i].val = pending[d][i].val
                 /\ \/ Unsent(d, kept)[i].fate = "sent"
                    \/ Unsent(d, kept)[i].fate = pending[d][i].fate
<1>1. \A w \in Writes : LET sent == [w EXCEPT !.fate = "sent"] IN
        /\ sent \in Writes
        /\ sent.by = w.by /\ sent.node = w.node /\ sent.val = w.val /\ sent.fate = "sent"
  BY DEF Writes, Fates
<1>2. ASSUME NEW i \in DOMAIN pending[d]
      PROVE  /\ Unsent(d, kept)[i] \in Writes
             /\ Unsent(d, kept)[i].by = pending[d][i].by
             /\ Unsent(d, kept)[i].node = pending[d][i].node
             /\ Unsent(d, kept)[i].val = pending[d][i].val
             /\ \/ Unsent(d, kept)[i].fate = "sent"
                \/ Unsent(d, kept)[i].fate = pending[d][i].fate
  <2>1. pending[d][i] \in Writes
    BY EntryType
  <2>2. CASE i <= kept
    <3>1. Unsent(d, kept)[i] = pending[d][i]
      BY <2>2 DEF Unsent
    <3> QED
      BY <2>1, <3>1
  <2>3. CASE ~(i <= kept)
    <3>1. Unsent(d, kept)[i] = [pending[d][i] EXCEPT !.fate = "sent"]
      BY <2>3 DEF Unsent
    <3> QED
      BY <1>1, <2>1, <3>1
  <2> QED
    BY <2>2, <2>3
<1>3. pending[d] \in Seq(Writes) /\ DOMAIN Unsent(d, kept) = DOMAIN pending[d]
  BY DEF TypeOK, Unsent
<1>4. Unsent(d, kept) \in Seq(Writes)
  <2>1. Unsent(d, kept) = [i \in 1..Len(pending[d]) |-> Unsent(d, kept)[i]]
    BY <1>3 DEF Unsent
  <2>2. \A i \in 1..Len(pending[d]) : Unsent(d, kept)[i] \in Writes
    BY <1>2, <1>3
  <2> QED
    BY <1>3, <2>1, <2>2
<1> QED
  BY <1>2, <1>3, <1>4

\* Whatever a read sees is a content.
LEMMA ViewType ==
    ASSUME TypeOK, NEW d \in Devices, NEW n \in Nodes
    PROVE  View(d, n) \subseteq Content
<1> DEFINE last == {k \in PutsTo(d, n) : \A j \in PutsTo(d, n) : j <= k}
<1>1. \A i \in PutsTo(d, n) : pending[d][i].val \in Content
  BY EntryType DEF PutsTo, Writes
<1>2. tree[n] \in Content /\ feed[d] \in Content
  BY DEF TypeOK
<1>3. \A v \in View(d, n) :
         \/ \E i \in PutsTo(d, n) : v = pending[d][i].val
         \/ v = feed[d]
         \/ v = tree[n]
  BY Zenon DEF View
<1> QED
  BY <1>1, <1>2, <1>3

-----------------------------------------------------------------------------
(* Typing *)

\* The typing holds before anything is published.
LEMMA InitTypeInv == Init => TypeInv
<1> SUFFICES ASSUME Init
             PROVE  TypeInv
  OBVIOUS
<1> USE ConstantContents DEF Init, DbInit
<1>1. tree \in [Nodes -> Content]
  OBVIOUS
<1>2. feed \in [Devices -> Content]
  BY <1>1 DEF Nodes, ListNodes
<1>3. pending \in [Devices -> Seq(Writes)]
  OBVIOUS
<1>4. head \in [Products -> [Heads -> Stages]]
  BY DEF Stages
<1>5. faults \in 0..MaxFaults
  BY BoundsAssumption
<1>6. Categorized
  BY DEF Categorized, Heads
<1> QED
  BY <1>1, <1>2, <1>3, <1>4, <1>5, <1>6 DEF TypeInv, TypeOK

\* What an action adds to a device's queue has the type of its entries.
LEMMA EnqueueType ==
    ASSUME TypeInv, NEW d \in Devices, NEW puts \in Seq(Writes),
           Enqueue(d, puts),
           \A i \in DOMAIN puts : form[puts[i].by[1]].cat \in Categories
    PROVE  /\ pending' \in [Devices -> Seq(Writes)]
           /\ denied' \in SUBSET (Products \X Heads)
           /\ \A e \in Devices : \A i \in DOMAIN pending'[e] :
                 form[pending'[e][i].by[1]].cat \in Categories
<1>1. pending' = [pending EXCEPT ![d] = @ \o puts]
  BY DEF Enqueue
<1>2. pending \in [Devices -> Seq(Writes)]
  BY DEF TypeInv, TypeOK
<1>3. pending' \in [Devices -> Seq(Writes)]
  BY <1>1, <1>2
<1>4. {puts[i].by : i \in DOMAIN puts} \subseteq Products \X Heads
  <2>1. \A i \in DOMAIN puts : puts[i] \in Writes
    OBVIOUS
  <2>2. \A w \in Writes : w.by \in Products \X Heads
    BY DEF Writes
  <2> QED
    BY <2>1, <2>2
<1>5. denied' \in SUBSET (Products \X Heads)
  <2>1. PICK refused \in SUBSET {puts[i].by : i \in DOMAIN puts} :
            denied' = denied \cup refused
    BY Zenon DEF Enqueue
  <2>2. denied \in SUBSET (Products \X Heads)
    BY DEF TypeInv, TypeOK
  <2> QED
    BY <1>4, <2>1, <2>2, Zenon
<1>6. ASSUME NEW e \in Devices, NEW i \in DOMAIN pending'[e]
      PROVE  form[pending'[e][i].by[1]].cat \in Categories
  <2>1. CASE e # d
    BY <1>1, <1>2, <1>6, <2>1 DEF TypeInv, Categorized
  <2>2. CASE e = d
    <3>1. pending'[d] = pending[d] \o puts /\ pending[d] \in Seq(Writes)
      BY <1>1, <1>2
    <3>2. CASE i \in 1..Len(pending[d])
      BY <1>6, <2>2, <3>1, <3>2 DEF TypeInv, Categorized
    <3>3. CASE i \notin 1..Len(pending[d])
      <4>1. i - Len(pending[d]) \in DOMAIN puts
        BY <1>6, <2>2, <3>1, <3>3
      <4>2. pending'[e][i] = puts[i - Len(pending[d])]
        BY <1>6, <2>2, <3>1, <3>3
      <4> QED
        BY <4>1, <4>2
    <3> QED
      BY <3>2, <3>3
  <2> QED
    BY <2>1, <2>2
<1> QED
  BY <1>3, <1>5, <1>6

\* A product one of whose heads is worked on in a list callback has a category.
LEMMA CategoryOfHead ==
    ASSUME TypeInv, NEW p \in Products, NEW h \in ListHeads, head[p][h] # "none"
    PROVE  form[p].cat \in Categories
BY DEF TypeInv, Categorized, ListHeads, Heads

\* The end of a process keeps every type.
LEMMA CrashTypeInv ==
    ASSUME TypeInv, NEW d \in Devices, Crash(d), faults' \in 0..MaxFaults
    PROVE  TypeInv'
<1>1. head' \in [Products -> [Heads -> Stages]]
  BY DEF Crash, TypeInv, TypeOK, Stages
<1>2. snap' \in [Products -> [ReadHeads -> Content]]
  BY ConstantContents DEF Crash, TypeInv, TypeOK
<1>3. alive' \in [Devices -> BOOLEAN]
  BY DEF Crash, Die, TypeInv, TypeOK
<1>4. Categorized'
  BY DEF Crash, TypeInv, TypeOK, Categorized, Heads
<1>5. ahead' \in SUBSET (Products \X ReadHeads)
  BY DEF Crash, TypeInv, TypeOK
<1> QED
  BY <1>1, <1>2, <1>3, <1>4, <1>5 DEF Crash, TypeInv, TypeOK

\* What is known of the listens after a reconnect keeps its type.
LEMMA ListensType ==
    ASSUME TypeInv, [Next]_vars
    PROVE  ahead' \in SUBSET (Products \X ReadHeads) /\ behind' \in SUBSET Devices
<1>0. /\ ahead \in SUBSET (Products \X ReadHeads) /\ behind \in SUBSET Devices
      /\ \A d : Listens(d) \subseteq Products \X ReadHeads
  BY DEF TypeInv, TypeOK, Listens, ReadHeads, ListHeads
<1>1. ASSUME NEW p \in Products, Publication(p)
      PROVE  ahead' \subseteq ahead /\ behind' \subseteq behind
  BY <1>1 DEF Publication, Begin, Raise, Answered, UserFound, UserMissing, ListRead, WriteList,
     NoCategoryException, Crash, listens
<1>2. ASSUME NEW d \in Devices, ConnectionLost(d)
      PROVE  ahead' \subseteq ahead \cup Listens(d) /\ behind' = behind \cup {d}
  BY <1>2 DEF ConnectionLost
<1>3. ASSUME NEW d \in Devices, Device(d), ~ ConnectionLost(d)
      PROVE  ahead' \subseteq ahead /\ behind' \subseteq behind
  BY <1>3 DEF Device, Server, Completion, Kill, Crash, LoseQueue, Refresh, listens, pubVars
<1>4. CASE UNCHANGED vars
  BY <1>0, <1>4 DEF vars, pubVars, listens
<1> QED
  BY <1>0, <1>1, <1>2, <1>3, <1>4 DEF Next

\* Every action keeps the typing.
LEMMA NextTypeInv == TypeInv /\ [Next]_vars => TypeInv'
<1> SUFFICES ASSUME TypeInv, [Next]_vars
             PROVE  TypeInv'
  OBVIOUS
<1>0. ahead' \in SUBSET (Products \X ReadHeads) /\ behind' \in SUBSET Devices
  BY ListensType
<1> USE DEF TypeInv
<1>1. ASSUME NEW p \in Products, Begin(p)
      PROVE  TypeInv'
  <2>1. UNION {Touched(p) \cap Touched(q) : q \in {r \in Products : Active(r)}}
            \subseteq ListNodes
    BY DEF Touched
  <2>2. shared' \in SUBSET ListNodes
    BY <1>1, <2>1 DEF Begin, TypeOK
  <2>3. head' \in [Products -> [Heads -> Stages]]
    BY <1>1 DEF Begin, TypeOK, Stages, Heads
  <2>4. Categorized'
    BY <1>1 DEF Begin, dbVars, TypeOK, Categorized, Heads
  <2> QED
    BY <1>0, <1>1, <2>2, <2>3, <2>4 DEF Begin, dbVars, TypeOK
<1>2. ASSUME NEW p \in Products, NEW h \in ReadHeads, Raise(p, h)
      PROVE  TypeInv'
  <2>1. Target(p, h) \in Nodes /\ form[p].dev \in Devices
    BY <1>2, TargetType, ReadHeadsAreHeads DEF Raise, Categorized, TypeOK, Forms
  <2>2. View(form[p].dev, Target(p, h)) \subseteq Content
    BY <2>1, ViewType
  <2>3. snap' \in [Products -> [ReadHeads -> Content]]
    BY <1>2, <2>2 DEF Raise, TypeOK
  <2>4. feed' \in [Devices -> Content] /\ shared' \in SUBSET ListNodes
    <3>1. feed' = feed \/ feed' = [feed EXCEPT ![form[p].dev] = tree[ProductsNode]]
      BY <1>2 DEF Raise, Answered, CatchUp
    <3>2. tree[ProductsNode] \in Content
      BY DEF TypeOK, Nodes, ListNodes
    <3>3. shared' = shared \/ shared' = shared \cup {ProductsNode}
      BY <1>2 DEF Raise
    <3> QED
      BY <3>1, <3>2, <3>3 DEF TypeOK, ListNodes
  <2>5. head' \in [Products -> [Heads -> Stages]]
    BY <1>2 DEF Raise, TypeOK, Stages, Heads, ReadHeads, ListHeads
  <2>6. Categorized'
    BY <1>2 DEF Raise, TypeOK, Categorized, Heads, ReadHeads, ListHeads
  <2> QED
    BY <1>0, <1>2, <2>3, <2>4, <2>5, <2>6 DEF Raise, TypeOK
<1>3. ASSUME NEW p \in Products, UserFound(p)
      PROVE  TypeInv'
  <2> DEFINE puts == << Put(<<p, "id">>, p, Record),
                        Put(<<p, "user">>, form[p].owner, Listing(snap[p]["user"], p)) >>
  <2>1. form[p].cat \in Categories /\ form[p].dev \in Devices /\ form[p].owner \in Users
    BY <1>3 DEF UserFound, TypeOK, Forms
  <2>2. snap[p]["user"] \in Content
    BY DEF TypeOK, ReadHeads
  <2>3. Put(<<p, "id">>, p, Record) \in Writes
    BY ConstantContents DEF Put, Writes, Heads, Nodes, Fates
  <2>4. Put(<<p, "user">>, form[p].owner, Listing(snap[p]["user"], p)) \in Writes
    BY <2>1, <2>2, ListingType DEF Put, Writes, Heads, Nodes, ListNodes, Fates
  <2>5. puts \in Seq(Writes)
    BY <2>3, <2>4
  <2>6. \A i \in DOMAIN puts : form[puts[i].by[1]].cat \in Categories
    BY <2>1 DEF Put
  <2>7. Enqueue(form[p].dev, puts)
    BY <1>3 DEF UserFound
  <2>8. /\ pending' \in [Devices -> Seq(Writes)]
        /\ denied' \in SUBSET (Products \X Heads)
        /\ \A e \in Devices : \A i \in DOMAIN pending'[e] :
              form[pending'[e][i].by[1]].cat \in Categories
    <3> HIDE DEF puts
    <3> QED
      BY <2>1, <2>5, <2>6, <2>7, EnqueueType
  <2>9. head' \in [Products -> [Heads -> Stages]]
    <3>1. [user |-> "queued", id |-> "queued", products |-> "asked",
           category |-> "asked"] \in [Heads -> Stages]
      BY DEF Heads, Stages
    <3> QED
      BY <1>3, <3>1 DEF UserFound, TypeOK
  <2>10. snap' \in [Products -> [ReadHeads -> Content]]
    BY <1>3, ConstantContents DEF UserFound, TypeOK
  <2>11. Categorized'
    BY <1>3, <2>1, <2>8 DEF UserFound, TypeOK, Categorized
  <2> QED
    BY <1>0, <1>3, <2>8, <2>9, <2>10, <2>11 DEF UserFound, TypeOK
<1>4. ASSUME NEW p \in Products, UserMissing(p)
      PROVE  TypeInv'
  <2>1. head' \in [Products -> [Heads -> Stages]]
    BY <1>4 DEF UserMissing, TypeOK, Stages, Heads
  <2>2. Categorized'
    BY <1>4 DEF UserMissing, dbVars, TypeOK, Categorized, Heads
  <2> QED
    BY <1>0, <1>4, <2>1, <2>2 DEF UserMissing, dbVars, TypeOK
<1>5. ASSUME NEW p \in Products, NEW h \in ListHeads, ListRead(p, h)
      PROVE  TypeInv'
  <2> DEFINE puts == << Put(<<p, h>>, Target(p, h), Listing(snap[p][h], p)) >>
  <2>1. /\ form[p].dev \in Devices
        /\ head[p][h] = "raised"
        /\ h \in Heads
        /\ h \in ReadHeads
    BY <1>5, ReadHeadsAreHeads DEF ListRead, WriteList, TypeOK, Forms
  <2>2. form[p].cat \in Categories
    BY <1>5, <2>1, CategoryOfHead
  <2>3. Target(p, h) \in Nodes
    BY <2>1, <2>2, TargetType
  <2>4. Put(<<p, h>>, Target(p, h), Listing(snap[p][h], p)) \in Writes
    <3>1. Listing(snap[p][h], p) \in Content
      BY <2>1, ListingType DEF TypeOK
    <3> QED
      BY <2>1, <2>3, <3>1 DEF Put, Writes, Fates
  <2>5. puts \in Seq(Writes)
    BY <2>4
  <2>6. \A i \in DOMAIN puts : form[puts[i].by[1]].cat \in Categories
    BY <2>2 DEF Put
  <2>7. Enqueue(form[p].dev, puts)
    BY <1>5 DEF ListRead, WriteList
  <2>8. /\ pending' \in [Devices -> Seq(Writes)]
        /\ denied' \in SUBSET (Products \X Heads)
        /\ \A e \in Devices : \A i \in DOMAIN pending'[e] :
              form[pending'[e][i].by[1]].cat \in Categories
    <3> HIDE DEF puts
    <3> QED
      BY <2>1, <2>5, <2>6, <2>7, EnqueueType
  <2>9. head' = [head EXCEPT ![p][h] = "queued"] /\ snap' = [snap EXCEPT ![p][h] = Absent]
    BY <1>5 DEF ListRead, WriteList
  <2>10. head' \in [Products -> [Heads -> Stages]]
    BY <2>1, <2>9 DEF TypeOK, Stages
  <2>11. snap' \in [Products -> [ReadHeads -> Content]]
    BY <2>1, <2>9, ConstantContents DEF TypeOK
  <2>12. UNCHANGED <<tree, feed, alive, form, faults, shared>>
    BY <1>5 DEF ListRead, WriteList
  <2>13. Categorized'
    BY <2>1, <2>2, <2>8, <2>9, <2>12 DEF TypeOK, Categorized
  <2> QED
    BY <1>0, <2>8, <2>10, <2>11, <2>12, <2>13 DEF TypeOK
<1>6. ASSUME NEW p \in Products, NoCategoryException(p)
      PROVE  TypeInv'
  <2>1. form[p].dev \in Devices
    BY DEF TypeOK, Forms
  <2> QED
    BY <1>0, <1>6, <2>1, CrashTypeInv DEF NoCategoryException, TypeOK
<1>7. ASSUME NEW d \in Devices, Server(d)
      PROVE  TypeInv'
  <2>1. PICK i \in DOMAIN pending[d] :
          /\ pending' = [pending EXCEPT ![d][i].fate =
                IF pending[d][i].by \in denied THEN "denied" ELSE "ok"]
          /\ tree' = IF pending[d][i].by \in denied THEN tree
                     ELSE [tree EXCEPT ![pending[d][i].node] = pending[d][i].val]
    BY <1>7 DEF Server, Perform
  <2>2. /\ pending[d] \in Seq(Writes)
        /\ DOMAIN pending[d] = 1..Len(pending[d])
        /\ Len(pending[d]) \in Nat
        /\ pending[d][i] \in Writes
    BY EntryType
  <2>3. UNCHANGED <<feed, alive, form, head, snap, denied, faults, shared>>
    BY <1>7 DEF Server, Perform, pubVars, listens
  <2>4. tree' \in [Nodes -> Content]
    BY <2>1, <2>2 DEF TypeOK, Writes
  <2> DEFINE w == [pending[d][i] EXCEPT !.fate =
                     IF pending[d][i].by \in denied THEN "denied" ELSE "ok"]
             q == [pending[d] EXCEPT ![i] = w]
  <2>5. w \in Writes /\ w.by = pending[d][i].by
    BY <2>2 DEF Writes, Fates
  <2>6. pending' = [pending EXCEPT ![d] = q]
    BY <2>1, <2>2 DEF TypeOK
  <2> HIDE DEF w
  <2>7. q \in Seq(Writes) /\ DOMAIN q = DOMAIN pending[d]
    BY <2>2, <2>5
  <2>8. \A k \in DOMAIN q : q[k].by = pending[d][k].by
    BY <2>2, <2>5
  <2> HIDE DEF q
  <2>9. pending' \in [Devices -> Seq(Writes)]
    BY <2>6, <2>7 DEF TypeOK
  <2>10. Categorized'
    BY <2>3, <2>6, <2>7, <2>8 DEF TypeOK, Categorized
  <2> QED
    BY <1>0, <2>3, <2>4, <2>9, <2>10 DEF TypeOK
<1>8. ASSUME NEW d \in Devices, Completion(d)
      PROVE  TypeInv'
  <2>1. /\ pending[d] # <<>>
        /\ pending' = [pending EXCEPT ![d] = Tail(@)]
        /\ feed' = [feed EXCEPT ![d] = tree[ProductsNode]]
        /\ UNCHANGED <<tree, alive, form, snap, denied, faults, shared>>
    BY <1>8 DEF Completion, Acknowledge, CatchUp
  <2>2. PICK put \in Writes : /\ put = pending[d][1]
                              /\ 1 \in DOMAIN pending[d]
                              /\ put = Head(pending[d])
    BY <2>1, EntryType DEF TypeOK
  <2>3. PICK p \in Products, h \in Heads : put.by = <<p, h>>
    BY <2>2 DEF Writes
  <2>4. form[p].cat \in Categories
    BY <2>2, <2>3 DEF Categorized
  <2>5. \E stage \in {"done", "failed"} : head' = [head EXCEPT ![p][h] = stage]
    <3>1. head' = [head EXCEPT ![put.by[1]][put.by[2]] =
                      IF put.fate = "ok" THEN "done" ELSE "failed"]
      BY <1>8, <2>2 DEF Completion
    <3>2. put.by[1] = p /\ put.by[2] = h
      BY <2>3
    <3>3. head' = [head EXCEPT ![p][h] = IF put.fate = "ok" THEN "done" ELSE "failed"]
      BY <3>1, <3>2
    <3> QED
      BY <3>3
  <2>6. head' \in [Products -> [Heads -> Stages]]
    BY <2>5 DEF TypeOK, Stages
  <2>7. pending' \in [Devices -> Seq(Writes)]
    BY <2>1 DEF TypeOK
  <2>8. feed' \in [Devices -> Content]
    BY <2>1 DEF TypeOK, Nodes, ListNodes
  <2>9. \A e \in Devices : \A i \in DOMAIN pending'[e] :
           form[pending'[e][i].by[1]].cat \in Categories
    BY <2>1 DEF TypeOK, Categorized
  <2>10. \A q \in Products : \A g \in Heads \ {"user"} :
            head'[q][g] # "none" => form[q].cat \in Categories
    BY <2>4, <2>5 DEF TypeOK, Categorized, Heads
  <2> QED
    BY <1>0, <2>1, <2>6, <2>7, <2>8, <2>9, <2>10 DEF TypeOK, Categorized
<1>9. ASSUME NEW d \in Devices, Kill(d)
      PROVE  TypeInv'
  BY <1>9, CrashTypeInv, BoundsAssumption DEF Kill, TypeOK
<1>10. ASSUME NEW d \in Devices, LoseQueue(d)
      PROVE  TypeInv'
  <2>1. /\ pending' = [pending EXCEPT ![d] = <<>>]
        /\ head' = [p \in Products |-> [h \in Heads |->
              IF form[p].dev = d /\ head[p][h] = "queued" THEN "dead" ELSE head[p][h]]]
        /\ UNCHANGED <<tree, feed, alive, form, snap, denied, faults, shared>>
    BY <1>10 DEF LoseQueue, Drop
  <2>2. head' \in [Products -> [Heads -> Stages]]
    BY <2>1 DEF TypeOK, Stages
  <2>3. Categorized'
    BY <2>1 DEF TypeOK, Categorized, Heads
  <2> QED
    BY <1>0, <2>1, <2>2, <2>3 DEF TypeOK
<1>11. ASSUME NEW d \in Devices, ConnectionLost(d)
      PROVE  TypeInv'
  <2>1. PICK kept \in 0..Len(pending[d]) : pending' = [pending EXCEPT ![d] = Unsent(d, kept)]
    BY <1>11 DEF ConnectionLost, Reconnect
  <2>2. /\ faults' = faults + 1 /\ faults < MaxFaults
        /\ UNCHANGED <<tree, feed, alive, form, head, snap, denied, shared>>
    BY <1>11 DEF ConnectionLost, Reconnect
  <2>3. /\ Unsent(d, kept) \in Seq(Writes)
        /\ DOMAIN Unsent(d, kept) = DOMAIN pending[d]
        /\ \A i \in DOMAIN pending[d] : Unsent(d, kept)[i].by = pending[d][i].by
    BY UnsentType
  <2>4. pending' \in [Devices -> Seq(Writes)]
    BY <2>1, <2>3 DEF TypeOK
  <2>5. Categorized'
    BY <2>1, <2>2, <2>3 DEF TypeOK, Categorized
  <2> QED
    BY <1>0, <2>1, <2>2, <2>4, <2>5, BoundsAssumption DEF TypeOK
<1>12. ASSUME NEW d \in Devices, Refresh(d)
      PROVE  TypeInv'
  <2>1. /\ UNCHANGED <<tree, pending, form, head, snap, denied, faults, shared>>
        /\ feed' = [feed EXCEPT ![d] = tree[ProductsNode]]
        /\ alive' = alive \/ alive' = [alive EXCEPT ![d] = TRUE]
    BY <1>12 DEF Refresh, Push, Relaunch, CatchUp, pubVars, listens
  <2> QED
    BY <1>0, <2>1 DEF TypeOK, Categorized, Nodes, ListNodes
<1>13. CASE UNCHANGED vars
  BY <1>13 DEF vars, dbVars, pubVars, listens, TypeOK, Categorized
<1> QED
  BY <1>1, <1>2, <1>3, <1>4, <1>5, <1>6, <1>7, <1>8, <1>9, <1>10, <1>11, <1>12, <1>13
     DEF Next, Publication, Device

\* Every reachable state is well typed, and no write or list read is under way
\* for a product without a category.
THEOREM TypeCorrect == Spec => []TypeOK
<1>1. Spec => []TypeInv
  BY InitTypeInv, NextTypeInv, PTL DEF Spec
<1>2. TypeInv => TypeOK
  BY DEF TypeInv
<1> QED
  BY <1>1, <1>2, PTL

-----------------------------------------------------------------------------
(***************************************************************************)
(* RecordFirst: no list ever shows a product before its own node has been   *)
(* written (or the write denied), on any number of devices, through crashes *)
(* and resent writes.  The argument follows the content of the lists to     *)
(* where it comes from: a list is only ever a list read earlier with one    *)
(* product appended, and the write of that product's own node is already in *)
(* the same queue, further ahead, or has been performed or denied.          *)
(***************************************************************************)

\* The product's own node is there, or its write will never succeed.
Recorded(q) == tree[q].there \/ <<q, "id">> \in denied

\* It is recorded, or the write that records it waits in d's queue before i.
RecordedBefore(q, d, i) ==
    Recorded(q) \/ \E j \in DOMAIN pending[d] : j < i /\ pending[d][j].by = <<q, "id">>

\* It is recorded, or the write that records it waits anywhere in d's queue.
Promised(q, d) ==
    Recorded(q) \/ \E j \in DOMAIN pending[d] : pending[d][j].by = <<q, "id">>

\* Writes of a product's own node say that it is there and go to that node;
\* all other writes go to lists.  A performed write of this kind has recorded
\* its product.
RecordWrite(w) ==
    /\ w.by[2] = "id" => w.node = w.by[1] /\ w.val = Record
    /\ w.by[2] # "id" => w.node \in ListNodes
    /\ w.by[2] = "id" /\ w.fate # "sent" => Recorded(w.by[1])

RecordWrites ==
    \A d \in Devices : \A i \in DOMAIN pending[d] : RecordWrite(pending[d][i])

\* What the queues hold: every product in a list to be written was recorded
\* further ahead in the same queue.
QueueOrder ==
    \A d \in Devices : \A i \in DOMAIN pending[d] :
        \A q \in Elements(pending[d][i].val.list) : RecordedBefore(q, d, i)

\* What callbacks may append to: snapshots show promised products only, and a
\* product whose list reads are under way is promised.
ReadOrder ==
    \A p \in Products : \A h \in ReadHeads :
        /\ \A q \in Elements(snap[p][h].list) : Promised(q, form[p].dev)
        /\ h \in ListHeads /\ head[p][h] \in {"asked", "raised"}
              => Promised(p, form[p].dev)

\* A dead process has no read under way and no snapshot.
DeadIsIdle ==
    \A p \in Products : ~ alive[form[p].dev] => \A h \in ReadHeads :
        head[p][h] \notin {"asked", "raised"} /\ snap[p][h] = Absent

FeedOrder == \A d \in Devices : \A q \in Elements(feed[d].list) : Recorded(q)

OrderInv ==
    /\ TypeInv
    /\ RecordFirst
    /\ FeedOrder
    /\ RecordWrites
    /\ QueueOrder
    /\ ReadOrder
    /\ DeadIsIdle

-----------------------------------------------------------------------------
(* Lemmas *)

\* Appending to a list adds one product to its elements.
LEMMA ListingElements ==
    ASSUME NEW c \in Content, NEW p \in Products, NEW q \in Elements(Listing(c, p).list)
    PROVE  q \in Elements(c.list) \/ q = p
<1>1. c.list \in Seq(Products)
  BY DEF Content
<1> QED
  BY <1>1 DEF Elements, Listing

\* No product has the name of a list.
LEMMA ProductsAreNoLists == Products \cap ListNodes = {}
BY NamesAssumption DEF ListNodes

\* A step keeps the queues' entries where they are, or adds behind them.
Extended ==
    \A d \in Devices : \A i \in DOMAIN pending[d] :
        i \in DOMAIN pending'[d] /\ pending'[d][i].by = pending[d][i].by

\* Denials are never taken back, and only the server changes the tree.
LEMMA StepShape ==
    ASSUME [Next]_vars
    PROVE  /\ denied \subseteq denied'
           /\ UNCHANGED tree \/ \E d \in Devices : Server(d)
<1>1. ASSUME NEW d, NEW puts, Enqueue(d, puts)
      PROVE  denied \subseteq denied'
  BY <1>1 DEF Enqueue
<1>2. ASSUME NEW p \in Products, Publication(p)
      PROVE  denied \subseteq denied' /\ UNCHANGED tree
  BY <1>1, <1>2 DEF Publication, Begin, Raise, UserFound, UserMissing,
     NoCategoryException, Crash, ListRead, WriteList, dbVars
<1>3. ASSUME NEW d \in Devices, Device(d), ~ Server(d)
      PROVE  denied \subseteq denied' /\ UNCHANGED tree
  BY <1>3 DEF Device, Completion, Acknowledge, Kill, Crash, LoseQueue, Drop,
     ConnectionLost, Reconnect, Refresh, Push, Relaunch, CatchUp, pubVars, listens
<1>4. ASSUME NEW d \in Devices, Server(d)
      PROVE  denied \subseteq denied'
  BY <1>4 DEF Server, pubVars, listens
<1>5. CASE UNCHANGED vars
  BY <1>5 DEF vars, dbVars, pubVars, listens
<1> QED
  BY <1>2, <1>3, <1>4, <1>5 DEF Next

\* What the server does to the tree: nothing, or the oldest write not yet
\* performed, every older one having been performed or denied.
LEMMA ServerStep ==
    ASSUME TypeInv, NEW d \in Devices, Server(d)
    PROVE  \E i \in DOMAIN pending[d] :
             /\ pending[d][i] \in Writes
             /\ \A j \in DOMAIN pending[d] : j < i => pending[d][j].fate # "sent"
             /\ DOMAIN pending'[d] = DOMAIN pending[d]
             /\ \A j \in DOMAIN pending[d] :
                   j # i => pending'[d][j] = pending[d][j]
             /\ pending'[d][i] = [pending[d][i] EXCEPT !.fate =
                   IF pending[d][i].by \in denied THEN "denied" ELSE "ok"]
             /\ \A e \in Devices \ {d} : pending'[e] = pending[e]
             /\ \/ pending[d][i].by \in denied /\ UNCHANGED tree
                \/ /\ pending[d][i].by \notin denied
                   /\ tree' = [tree EXCEPT ![pending[d][i].node] = pending[d][i].val]
             /\ UNCHANGED <<feed, alive, form, head, snap, denied, shared>>
<1>1. PICK i \in DOMAIN pending[d] :
        /\ \A j \in DOMAIN pending[d] : j < i => pending[d][j].fate # "sent"
        /\ pending' = [pending EXCEPT ![d][i].fate =
              IF pending[d][i].by \in denied THEN "denied" ELSE "ok"]
        /\ tree' = IF pending[d][i].by \in denied THEN tree
                   ELSE [tree EXCEPT ![pending[d][i].node] = pending[d][i].val]
  BY DEF Server, Perform
<1>2. UNCHANGED <<feed, alive, form, head, snap, denied, shared>>
  BY DEF Server, Perform, pubVars, listens
<1>3. /\ pending \in [Devices -> Seq(Writes)]
      /\ pending[d] \in Seq(Writes)
      /\ pending[d][i] \in Writes
  BY EntryType DEF TypeInv, TypeOK
<1>4. /\ DOMAIN pending'[d] = DOMAIN pending[d]
      /\ \A j \in DOMAIN pending[d] : j # i => pending'[d][j] = pending[d][j]
      /\ pending'[d][i] = [pending[d][i] EXCEPT !.fate =
            IF pending[d][i].by \in denied THEN "denied" ELSE "ok"]
      /\ \A e \in Devices \ {d} : pending'[e] = pending[e]
  BY <1>1, <1>3
<1> QED
  BY <1>1, <1>2, <1>3, <1>4

\* A product stays recorded: only its own node's writes reach its node, and
\* those say that it is there.
LEMMA RecordedStays ==
    ASSUME OrderInv, [Next]_vars, NEW q \in Products, Recorded(q)
    PROVE  Recorded(q)'
<1>1. CASE <<q, "id">> \in denied
  BY <1>1, StepShape DEF Recorded
<1>2. CASE tree[q].there /\ UNCHANGED tree
  BY <1>2 DEF Recorded
<1>3. ASSUME tree[q].there, NEW d \in Devices, Server(d)
      PROVE  tree'[q].there
  <2>1. PICK i \in DOMAIN pending[d] :
          /\ pending[d][i] \in Writes
          /\ \/ UNCHANGED tree
             \/ tree' = [tree EXCEPT ![pending[d][i].node] = pending[d][i].val]
    BY <1>3, ServerStep DEF OrderInv
  <2>2. CASE pending[d][i].by[2] = "id"
    BY <1>3, <2>1, <2>2 DEF OrderInv, RecordWrites, RecordWrite, Record, TypeInv, TypeOK, Nodes
  <2>3. CASE pending[d][i].by[2] # "id"
    <3>1. pending[d][i].node # q
      BY <2>3, ProductsAreNoLists DEF OrderInv, RecordWrites, RecordWrite
    <3> QED
      BY <1>3, <2>1, <3>1 DEF OrderInv, TypeInv, TypeOK, Nodes
  <2> QED
    BY <2>2, <2>3
<1> QED
  BY <1>1, <1>2, <1>3, StepShape DEF Recorded

\* The elements of a content are products.
LEMMA ElementType ==
    ASSUME NEW c \in Content, NEW q \in Elements(c.list)
    PROVE  q \in Products
<1>1. c.list \in Seq(Products)
  BY DEF Content
<1> QED
  BY <1>1 DEF Elements

\* A promise made in front of an extended queue is kept by the step.
LEMMA ExtendedKeeps ==
    ASSUME OrderInv, [Next]_vars, Extended, NEW q \in Products, NEW d \in Devices
    PROVE  /\ Promised(q, d) => Promised(q, d)'
           /\ \A i : RecordedBefore(q, d, i) => RecordedBefore(q, d, i)'
<1>1. Recorded(q) => Recorded(q)'
  BY RecordedStays
<1>2. \A j \in DOMAIN pending[d] : j \in DOMAIN pending'[d] /\ pending'[d][j].by = pending[d][j].by
  BY DEF Extended
<1> QED
  BY <1>1, <1>2 DEF Promised, RecordedBefore

\* What is there before the step and stays: if no queue, snapshot or list read
\* changes, the order of the queues and of the reads is kept.
LEMMA UnchangedOrder ==
    ASSUME OrderInv, [Next]_vars, Extended, UNCHANGED form
    PROVE  /\ \A d \in Devices : \A i \in DOMAIN pending[d] :
                 \A q \in Elements(pending[d][i].val.list) : RecordedBefore(q, d, i)'
           /\ \A p \in Products : \A h \in ReadHeads :
                 /\ \A q \in Elements(snap[p][h].list) : Promised(q, form[p].dev)'
                 /\ h \in ListHeads /\ head[p][h] \in {"asked", "raised"}
                       => Promised(p, form[p].dev)'
<1>1. ASSUME NEW d \in Devices, NEW i \in DOMAIN pending[d],
             NEW q \in Elements(pending[d][i].val.list)
      PROVE  RecordedBefore(q, d, i)'
  <2>1. q \in Products
    BY EntryType, ElementType DEF OrderInv, TypeInv, Writes
  <2> QED
    BY <2>1, ExtendedKeeps DEF OrderInv, QueueOrder
<1>2. ASSUME NEW p \in Products, NEW h \in ReadHeads
      PROVE  /\ \A q \in Elements(snap[p][h].list) : Promised(q, form[p].dev)'
             /\ h \in ListHeads /\ head[p][h] \in {"asked", "raised"}
                   => Promised(p, form[p].dev)'
  <2>1. form[p].dev \in Devices /\ snap[p][h] \in Content
    BY DEF OrderInv, TypeInv, TypeOK, Forms
  <2>2. \A q \in Products : Promised(q, form[p].dev) => Promised(q, form[p].dev)'
    BY <2>1, ExtendedKeeps
  <2>3. \A q \in Elements(snap[p][h].list) : q \in Products
    BY <2>1, ElementType
  <2> QED
    BY <2>2, <2>3 DEF OrderInv, ReadOrder
<1> QED
  BY <1>1, <1>2

\* Lists and cached lists that do not change, or are copied from the tree, show
\* recorded products only.
LEMMA ListsStay ==
    ASSUME OrderInv, [Next]_vars, UNCHANGED tree,
           \A d \in Devices : feed'[d] = feed[d] \/ feed'[d] = tree[ProductsNode]
    PROVE  RecordFirst' /\ FeedOrder'
<1>1. ASSUME NEW n \in ListNodes, NEW q \in Elements(tree[n].list)
      PROVE  Recorded(q)'
  <2>1. q \in Products /\ Recorded(q)
    BY <1>1, ElementType DEF OrderInv, TypeInv, TypeOK, RecordFirst, Listed, Recorded, Nodes
  <2> QED
    BY <2>1, RecordedStays
<1>2. RecordFirst'
  BY <1>1 DEF RecordFirst, Listed, Recorded
<1>3. ASSUME NEW d \in Devices, NEW q \in Elements(feed[d].list)
      PROVE  Recorded(q)'
  <2>1. q \in Products /\ Recorded(q)
    BY <1>3, ElementType DEF OrderInv, TypeInv, TypeOK, FeedOrder
  <2> QED
    BY <2>1, RecordedStays
<1>4. ProductsNode \in ListNodes
  BY DEF ListNodes
<1> QED
  BY <1>1, <1>2, <1>3, <1>4 DEF FeedOrder

\* A step that leaves queues and tree alone, and at most ends reads or starts
\* one on a living device's user node, keeps the order.
LEMMA QuietStep ==
    ASSUME OrderInv, [Next]_vars, UNCHANGED <<tree, pending, form>>,
           \A d \in Devices : feed'[d] = feed[d] \/ feed'[d] = tree[ProductsNode],
           \A p \in Products : \A h \in ReadHeads :
              /\ snap'[p][h] = snap[p][h] \/ snap'[p][h] = Absent
              /\ h \in ListHeads /\ head'[p][h] \in {"asked", "raised"}
                    => head[p][h] \in {"asked", "raised"},
           DeadIsIdle'
    PROVE  OrderInv'
<1>1. Extended
  BY DEF Extended
<1>2. RecordFirst' /\ FeedOrder'
  BY ListsStay
<1>3. RecordWrites'
  <2>1. \A d \in Devices : \A i \in DOMAIN pending[d] :
          pending[d][i] \in Writes /\ pending[d][i].by[1] \in Products
    BY EntryType DEF OrderInv, TypeInv, Writes
  <2>2. \A q \in Products : Recorded(q) => Recorded(q)'
    BY RecordedStays
  <2> QED
    BY <2>1, <2>2 DEF OrderInv, RecordWrites, RecordWrite
<1>4. QueueOrder'
  BY <1>1, UnchangedOrder DEF QueueOrder
<1>5. ReadOrder'
  <2>1. Elements(Absent.list) = {}
    BY DEF Elements, Absent
  <2> QED
    BY <1>1, <2>1, UnchangedOrder DEF ReadOrder
<1>6. TypeInv'
  BY NextTypeInv DEF OrderInv
<1> QED
  BY <1>2, <1>3, <1>4, <1>5, <1>6 DEF OrderInv

\* The steps of this kind: an insertion begins, the user is missing, a process
\* ends, a device catches up, nothing happens.
LEMMA QuietActions ==
    ASSUME OrderInv, [Next]_vars,
           \/ \E p \in Products : Begin(p) \/ UserMissing(p)
           \/ \E d \in Devices : Crash(d) \/ Refresh(d)
           \/ UNCHANGED vars
    PROVE  OrderInv'
<1> USE DEF OrderInv, TypeInv
<1>1. ASSUME NEW p \in Products, Begin(p)
      PROVE  OrderInv'
  <2>1. DeadIsIdle'
    BY <1>1 DEF Begin, dbVars, DeadIsIdle, TypeOK, ReadHeads, ListHeads, Heads
  <2>2. UNCHANGED <<tree, pending, feed, form, snap>>
    BY <1>1 DEF Begin, dbVars
  <2>3. \A r \in Products : \A h \in ListHeads : head'[r][h] = head[r][h]
    BY <1>1 DEF Begin, TypeOK, ListHeads, Heads
  <2> QED
    BY <2>1, <2>2, <2>3, QuietStep
<1>2. ASSUME NEW p \in Products, UserMissing(p)
      PROVE  OrderInv'
  <2>1. DeadIsIdle'
    BY <1>2 DEF UserMissing, dbVars, DeadIsIdle, TypeOK, ReadHeads, ListHeads, Heads
  <2>2. UNCHANGED <<tree, pending, feed, form, snap>>
    BY <1>2 DEF UserMissing, dbVars
  <2>3. \A r \in Products : \A h \in ListHeads : head'[r][h] = head[r][h]
    BY <1>2 DEF UserMissing, TypeOK, ListHeads, Heads
  <2> QED
    BY <2>1, <2>2, <2>3, QuietStep
<1>3. ASSUME NEW d \in Devices, Crash(d)
      PROVE  OrderInv'
  <2>1. UNCHANGED <<tree, pending, feed, form>>
    BY <1>3 DEF Crash
  <2>2. \A p \in Products : \A h \in ReadHeads :
          /\ snap'[p][h] = IF form[p].dev = d THEN Absent ELSE snap[p][h]
          /\ head'[p][h] = IF form[p].dev = d /\ head[p][h] \in {"asked", "raised"}
                           THEN "dead" ELSE head[p][h]
    BY <1>3, ReadHeadsAreHeads DEF Crash
  <2>3. DeadIsIdle'
    <3> SUFFICES ASSUME NEW p \in Products, ~ alive'[form[p].dev], NEW h \in ReadHeads
                 PROVE  head'[p][h] \notin {"asked", "raised"} /\ snap'[p][h] = Absent
      BY <2>1 DEF DeadIsIdle
    <3>1. CASE form[p].dev = d
      BY <2>2, <3>1
    <3>2. CASE form[p].dev # d
      <4>1. ~ alive[form[p].dev]
        BY <1>3, <3>2 DEF Crash, Die, TypeOK, Forms
      <4> QED
        BY <2>2, <3>2, <4>1 DEF DeadIsIdle
    <3> QED
      BY <3>1, <3>2
  <2> QED
    BY <2>1, <2>2, <2>3, QuietStep
<1>4. ASSUME NEW d \in Devices, Refresh(d)
      PROVE  OrderInv'
  <2>1. /\ UNCHANGED <<tree, pending, form, head, snap>>
        /\ feed' = [feed EXCEPT ![d] = tree[ProductsNode]]
        /\ \A e \in Devices : alive[e] => alive'[e]
    BY <1>4 DEF Refresh, Push, Relaunch, CatchUp, pubVars, listens, TypeOK
  <2>2. DeadIsIdle'
    BY <2>1 DEF DeadIsIdle, TypeOK, Forms
  <2> QED
    BY <2>1, <2>2, QuietStep DEF TypeOK
<1>5. CASE UNCHANGED vars
  <2>1. UNCHANGED <<tree, pending, feed, form, snap, head, alive>>
    BY <1>5 DEF vars, dbVars, pubVars, listens
  <2>2. DeadIsIdle'
    BY <2>1 DEF DeadIsIdle
  <2> QED
    BY <2>1, <2>2, QuietStep
<1> QED
  BY <1>1, <1>2, <1>3, <1>4, <1>5

\* A read is answered: what it sees is recorded, or promised by the queue that
\* shadows the server.
LEMMA RaiseOrder ==
    ASSUME OrderInv, [Next]_vars, NEW p \in Products, NEW h \in ReadHeads, Raise(p, h)
    PROVE  OrderInv'
<1> USE DEF OrderInv, TypeInv
<1> DEFINE d == form[p].dev
           n == Target(p, h)
<1>1. /\ UNCHANGED <<tree, pending, alive, form, denied>>
      /\ head[p][h] = "asked"
      /\ head' = [head EXCEPT ![p][h] = "raised"]
      /\ h \in Heads
  BY ReadHeadsAreHeads DEF Raise
<1>2. PICK v \in View(d, n) : snap' = [snap EXCEPT ![p][h] = v]
  BY DEF Raise
<1>3. d \in Devices /\ n \in ListNodes
  BY <1>1 DEF TypeOK, Forms, Categorized, Target, ReadHeads, ListHeads, Heads, ListNodes
<1>4. \/ \E i \in DOMAIN pending[d] : v = pending[d][i].val
      \/ v = feed[d]
      \/ v = tree[n]
  BY <1>2, Zenon DEF View, PutsTo
<1>5. v \in Content
  <2>1. n \in Nodes
    BY <1>3 DEF Nodes
  <2> QED
    BY <1>2, <1>3, <2>1, ViewType
<1>6. \A q \in Elements(v.list) : Promised(q, d)
  <2>1. ASSUME NEW i \in DOMAIN pending[d], v = pending[d][i].val
        PROVE  \A q \in Elements(v.list) : Promised(q, d)
    BY <1>3, <2>1 DEF QueueOrder, RecordedBefore, Promised
  <2>2. CASE v = feed[d]
    BY <1>3, <2>2 DEF FeedOrder, Promised
  <2>3. CASE v = tree[n]
    BY <1>3, <2>3 DEF RecordFirst, Listed, Promised, Recorded
  <2> QED
    BY <1>4, <2>1, <2>2, <2>3
<1>7. Extended
  BY <1>1 DEF Extended
<1>8. \A q \in Elements(v.list) : Promised(q, d)'
  <2>1. \A q \in Elements(v.list) : q \in Products /\ Promised(q, d)
    BY <1>5, <1>6, ElementType
  <2>2. \A e \in Devices : \A q \in Products : Promised(q, e) => Promised(q, e)'
    BY <1>7, ExtendedKeeps
  <2>3. form'[p].dev = form[p].dev
    BY <1>1
  <2> QED
    BY <1>3, <2>1, <2>2, <2>3 DEF Promised, Recorded
<1>9. RecordFirst' /\ FeedOrder'
  BY <1>1, ListsStay DEF Raise, Answered, CatchUp, TypeOK
<1>10. RecordWrites'
  BY <1>1 DEF RecordWrites, RecordWrite, Recorded
<1>11. QueueOrder'
  BY <1>1, <1>7, UnchangedOrder DEF QueueOrder
<1>12. ReadOrder'
  <2> SUFFICES ASSUME NEW r \in Products, NEW g \in ReadHeads
               PROVE  /\ \A q \in Elements(snap'[r][g].list) : Promised(q, form[r].dev)'
                      /\ g \in ListHeads /\ head'[r][g] \in {"asked", "raised"}
                            => Promised(r, form[r].dev)'
    BY <1>1 DEF ReadOrder
  <2>1. /\ \A q \in Elements(snap[r][g].list) : Promised(q, form[r].dev)'
        /\ g \in ListHeads /\ head[r][g] \in {"asked", "raised"}
              => Promised(r, form[r].dev)'
    BY <1>1, <1>7, UnchangedOrder
  <2>2. snap'[r][g] = IF r = p /\ g = h THEN v ELSE snap[r][g]
    BY <1>2 DEF TypeOK
  <2>3. head'[r][g] = IF r = p /\ g = h THEN "raised" ELSE head[r][g]
    BY <1>1, ReadHeadsAreHeads DEF TypeOK
  <2> QED
    BY <1>1, <1>8, <2>1, <2>2, <2>3
<1>13. DeadIsIdle'
  <2>1. alive[d]
    BY <1>1 DEF DeadIsIdle
  <2> QED
    BY <1>1, <1>2, <2>1 DEF DeadIsIdle, TypeOK, ReadHeads, ListHeads, Heads
<1> QED
  BY <1>9, <1>10, <1>11, <1>12, <1>13, NextTypeInv

\* What is added behind a queue keeps its order, if every product it lists is
\* promised by the queue or recorded by an earlier one of the added writes.
LEMMA EnqueueOrder ==
    ASSUME OrderInv, [Next]_vars, UNCHANGED <<tree, form>>,
           NEW d \in Devices, NEW puts \in Seq(Writes), Enqueue(d, puts),
           \A k \in DOMAIN puts :
              /\ puts[k].fate = "sent"
              /\ puts[k].by[2] = "id" => puts[k].node = puts[k].by[1] /\ puts[k].val = Record
              /\ puts[k].by[2] # "id" => puts[k].node \in ListNodes
              /\ \A q \in Elements(puts[k].val.list) :
                    \/ Promised(q, d)
                    \/ \E j \in DOMAIN puts : j < k /\ puts[j].by = <<q, "id">>
    PROVE  /\ Extended
           /\ RecordWrites'
           /\ QueueOrder'
           /\ \A k \in DOMAIN puts : \E j \in DOMAIN pending'[d] : pending'[d][j] = puts[k]
<1> USE DEF OrderInv, TypeInv
<1> DEFINE len == Len(pending[d])
<1>1. /\ pending \in [Devices -> Seq(Writes)]
      /\ pending[d] \in Seq(Writes)
      /\ pending' = [pending EXCEPT ![d] = @ \o puts]
      /\ len \in Nat
  BY DEF TypeOK, Enqueue
<1>2. \A e \in Devices \ {d} : pending'[e] = pending[e]
  BY <1>1
<1>3. /\ DOMAIN pending'[d] = 1..(len + Len(puts))
      /\ DOMAIN puts = 1..Len(puts) /\ Len(puts) \in Nat
      /\ DOMAIN pending[d] = 1..len
      /\ \A i \in 1..len : pending'[d][i] = pending[d][i]
      /\ \A k \in DOMAIN puts : pending'[d][len + k] = puts[k]
  BY <1>1
<1>4. Extended
  BY <1>2, <1>3 DEF Extended
<1>5. ASSUME NEW i \in DOMAIN pending'[d], i \notin DOMAIN pending[d]
      PROVE  \E k \in DOMAIN puts : i = len + k /\ pending'[d][i] = puts[k]
  <2>1. i - len \in DOMAIN puts /\ i = len + (i - len)
    BY <1>3, <1>5
  <2> QED
    BY <1>3, <2>1
<1>6. RecordWrites'
  <2> SUFFICES ASSUME NEW e \in Devices, NEW i \in DOMAIN pending'[e]
               PROVE  RecordWrite(pending[e][i])'
    BY DEF RecordWrites
  <2>1. CASE i \in DOMAIN pending[e]
    <3>1. pending'[e][i] = pending[e][i]
      BY <1>2, <1>3, <2>1
    <3>2. /\ pending[e][i].by[1] \in Products
          /\ RecordWrite(pending[e][i])
      BY <2>1, EntryType DEF Writes, RecordWrites
    <3>3. \A q \in Products : Recorded(q) => Recorded(q)'
      BY RecordedStays
    <3> QED
      BY <3>1, <3>2, <3>3 DEF RecordWrite
  <2>2. CASE i \notin DOMAIN pending[e]
    <3>1. e = d
      BY <1>2, <2>2
    <3> QED
      BY <1>5, <2>2, <3>1 DEF RecordWrite
  <2> QED
    BY <2>1, <2>2
<1>7. QueueOrder'
  <2> SUFFICES ASSUME NEW e \in Devices, NEW i \in DOMAIN pending'[e],
                      NEW q \in Elements(pending'[e][i].val.list)
               PROVE  RecordedBefore(q, e, i)'
    BY DEF QueueOrder
  <2>1. CASE i \in DOMAIN pending[e]
    <3>1. pending'[e][i] = pending[e][i]
      BY <1>2, <1>3, <2>1
    <3> QED
      BY <1>4, <2>1, <3>1, UnchangedOrder
  <2>2. CASE i \notin DOMAIN pending[e]
    <3>1. e = d
      BY <1>2, <2>2
    <3>2. PICK k \in DOMAIN puts : i = len + k /\ pending'[e][i] = puts[k]
      BY <1>5, <2>2, <3>1
    <3>3. q \in Products
      <4>1. puts[k] \in Writes
        BY <1>3
      <4>2. puts[k].val \in Content
        BY <4>1 DEF Writes
      <4> QED
        BY <3>2, <4>2, ElementType
    <3>4. CASE Recorded(q)
      BY <3>3, <3>4, RecordedStays DEF RecordedBefore
    <3>5. ASSUME NEW j \in DOMAIN pending[d], pending[d][j].by = <<q, "id">>
          PROVE  RecordedBefore(q, e, i)'
      <4>1. j \in DOMAIN pending'[d] /\ j < i /\ pending'[d][j].by = <<q, "id">>
        BY <1>3, <3>2, <3>5
      <4> QED
        BY <3>1, <4>1 DEF RecordedBefore
    <3>6. ASSUME NEW j \in DOMAIN puts, j < k, puts[j].by = <<q, "id">>
          PROVE  RecordedBefore(q, e, i)'
      <4>1. /\ len + j \in DOMAIN pending'[d]
            /\ len + j < i
            /\ pending'[d][len + j].by = <<q, "id">>
        BY <1>3, <3>2, <3>6
      <4> QED
        BY <3>1, <4>1 DEF RecordedBefore
    <3> QED
      BY <3>2, <3>4, <3>5, <3>6 DEF Promised
  <2> QED
    BY <2>1, <2>2
<1>8. \A k \in DOMAIN puts : \E j \in DOMAIN pending'[d] : pending'[d][j] = puts[k]
  <2>1. \A k \in DOMAIN puts : len + k \in DOMAIN pending'[d]
    BY <1>3
  <2> QED
    BY <1>3, <2>1
<1> QED
  BY <1>4, <1>6, <1>7, <1>8

\* A callback that adds its own product's writes and drops its own snapshot
\* keeps the order, if the product is promised from then on.
LEMMA CallbackOrder ==
    ASSUME OrderInv, [Next]_vars, UNCHANGED <<tree, feed, alive, form>>,
           Extended, RecordWrites', QueueOrder',
           NEW p \in Products, NEW d \in Devices, d = form[p].dev, alive[d],
           Promised(p, d)',
           \A r \in Products : \A g \in ReadHeads :
              /\ snap'[r][g] = snap[r][g] \/ snap'[r][g] = Absent
              /\ r # p => head'[r][g] = head[r][g] /\ snap'[r][g] = snap[r][g]
    PROVE  OrderInv'
<1> USE DEF OrderInv
<1>1. RecordFirst' /\ FeedOrder'
  BY ListsStay
<1>2. ReadOrder'
  <2> SUFFICES ASSUME NEW r \in Products, NEW g \in ReadHeads
               PROVE  /\ \A q \in Elements(snap'[r][g].list) : Promised(q, form[r].dev)'
                      /\ g \in ListHeads /\ head'[r][g] \in {"asked", "raised"}
                            => Promised(r, form[r].dev)'
    BY DEF ReadOrder
  <2>1. /\ \A q \in Elements(snap[r][g].list) : Promised(q, form[r].dev)'
        /\ g \in ListHeads /\ head[r][g] \in {"asked", "raised"}
              => Promised(r, form[r].dev)'
    BY UnchangedOrder
  <2>2. Elements(Absent.list) = {}
    BY DEF Elements, Absent
  <2>3. form'[p].dev = d
    OBVIOUS
  <2>4. Promised(p, form[p].dev)'
    BY <2>3 DEF Promised
  <2> QED
    BY <2>1, <2>2, <2>4
<1>3. DeadIsIdle'
  BY DEF DeadIsIdle
<1> QED
  BY <1>1, <1>2, <1>3, NextTypeInv

\* The user's callback queues the record before the write that lists it.
LEMMA UserFoundOrder ==
    ASSUME OrderInv, [Next]_vars, NEW p \in Products, UserFound(p)
    PROVE  OrderInv'
<1> USE DEF OrderInv, TypeInv
<1> DEFINE puts == << Put(<<p, "id">>, p, Record),
                      Put(<<p, "user">>, form[p].owner, Listing(snap[p]["user"], p)) >>
<1>1. PICK d \in Devices : d = form[p].dev
  BY DEF TypeOK, Forms
<1>2. /\ form[p].owner \in Users
      /\ snap[p]["user"] \in Content
      /\ head[p]["user"] = "raised"
      /\ "user" \in ReadHeads
      /\ Enqueue(d, puts)
      /\ UNCHANGED <<tree, feed, alive, form>>
  BY <1>1 DEF UserFound, TypeOK, Forms, ReadHeads
<1>3. puts \in Seq(Writes) /\ DOMAIN puts = {1, 2}
  <2>1. Put(<<p, "id">>, p, Record) \in Writes
    BY ConstantContents DEF Put, Writes, Heads, Nodes, Fates
  <2>2. Put(<<p, "user">>, form[p].owner, Listing(snap[p]["user"], p)) \in Writes
    BY <1>2, ListingType DEF Put, Writes, Heads, Nodes, ListNodes, Fates
  <2> QED
    BY <2>1, <2>2
<1>4. \A q \in Elements(snap[p]["user"].list) : Promised(q, d)
  BY <1>1, <1>2 DEF ReadOrder
<1>5. puts[1].by = <<p, "id">>
  BY DEF Put
<1>6. \A k \in DOMAIN puts :
        /\ puts[k].fate = "sent"
        /\ puts[k].by[2] = "id" => puts[k].node = puts[k].by[1] /\ puts[k].val = Record
        /\ puts[k].by[2] # "id" => puts[k].node \in ListNodes
        /\ \A q \in Elements(puts[k].val.list) :
              \/ Promised(q, d)
              \/ \E j \in DOMAIN puts : j < k /\ puts[j].by = <<q, "id">>
  <2>1. Elements(Record.list) = {}
    BY DEF Elements, Record
  <2>2. form[p].owner \in ListNodes
    BY <1>2 DEF ListNodes
  <2>3. \A q \in Elements(Listing(snap[p]["user"], p).list) : Promised(q, d) \/ q = p
    BY <1>2, <1>4, ListingElements
  <2>4. puts[2].val = Listing(snap[p]["user"], p) /\ puts[1].val = Record
    BY DEF Put
  <2>5. \A k \in {1, 2} : \A q \in Elements(puts[k].val.list) :
          Promised(q, d) \/ (1 < k /\ puts[1].by = <<q, "id">>)
    BY <1>5, <2>1, <2>3, <2>4
  <2>6. \A k \in {1, 2} :
          /\ puts[k].fate = "sent"
          /\ puts[k].by[2] = "id" => puts[k].node = puts[k].by[1] /\ puts[k].val = Record
          /\ puts[k].by[2] # "id" => puts[k].node \in ListNodes
    BY <2>2 DEF Put
  <2> HIDE DEF puts
  <2> QED
    BY <1>3, <2>5, <2>6
<1> HIDE DEF puts
<1>7. /\ Extended
      /\ RecordWrites'
      /\ QueueOrder'
      /\ \A k \in DOMAIN puts : \E j \in DOMAIN pending'[d] : pending'[d][j] = puts[k]
  BY <1>2, <1>3, <1>6, EnqueueOrder
<1>8. Promised(p, d)'
  BY <1>3, <1>5, <1>7 DEF Promised
<1>9. alive[d]
  BY <1>1, <1>2 DEF DeadIsIdle
<1>10. \A r \in Products : \A g \in ReadHeads :
         /\ snap'[r][g] = snap[r][g] \/ snap'[r][g] = Absent
         /\ r # p => head'[r][g] = head[r][g] /\ snap'[r][g] = snap[r][g]
  BY DEF UserFound, TypeOK
<1> QED
  BY <1>1, <1>2, <1>7, <1>8, <1>9, <1>10, CallbackOrder

\* A list's callback lists its product behind the record it queued before.
LEMMA ListReadOrder ==
    ASSUME OrderInv, [Next]_vars, NEW p \in Products, NEW h \in ListHeads, ListRead(p, h)
    PROVE  OrderInv'
<1> USE DEF OrderInv, TypeInv
<1> DEFINE puts == << Put(<<p, h>>, Target(p, h), Listing(snap[p][h], p)) >>
<1>1. PICK d \in Devices : d = form[p].dev
  BY DEF TypeOK, Forms
<1>2. /\ h \in ReadHeads
      /\ h \in Heads
      /\ h # "id"
      /\ snap[p][h] \in Content
      /\ head[p][h] = "raised"
      /\ Enqueue(d, puts)
      /\ UNCHANGED <<tree, feed, alive, form>>
  BY <1>1, ReadHeadsAreHeads DEF ListRead, WriteList, TypeOK, ListHeads
<1>3. Target(p, h) \in ListNodes
  BY <1>2, CategoryOfHead DEF Target, ListHeads, ListNodes
<1>4. puts \in Seq(Writes) /\ DOMAIN puts = {1}
  <2>1. Put(<<p, h>>, Target(p, h), Listing(snap[p][h], p)) \in Writes
    BY <1>2, <1>3, ListingType DEF Put, Writes, Nodes, Fates
  <2> QED
    BY <2>1
<1>5. Promised(p, d) /\ \A q \in Elements(snap[p][h].list) : Promised(q, d)
  BY <1>1, <1>2 DEF ReadOrder
<1>6. \A k \in DOMAIN puts :
        /\ puts[k].fate = "sent"
        /\ puts[k].by[2] = "id" => puts[k].node = puts[k].by[1] /\ puts[k].val = Record
        /\ puts[k].by[2] # "id" => puts[k].node \in ListNodes
        /\ \A q \in Elements(puts[k].val.list) :
              \/ Promised(q, d)
              \/ \E j \in DOMAIN puts : j < k /\ puts[j].by = <<q, "id">>
  <2>1. \A q \in Elements(Listing(snap[p][h], p).list) : Promised(q, d)
    BY <1>2, <1>5, ListingElements
  <2>2. /\ puts[1].val = Listing(snap[p][h], p)
        /\ puts[1].fate = "sent"
        /\ puts[1].by[2] # "id"
        /\ puts[1].node \in ListNodes
    BY <1>2, <1>3 DEF Put
  <2> HIDE DEF puts
  <2> QED
    BY <1>4, <2>1, <2>2
<1> HIDE DEF puts
<1>7. Extended /\ RecordWrites' /\ QueueOrder'
  BY <1>2, <1>4, <1>6, EnqueueOrder
<1>8. Promised(p, d)'
  BY <1>5, <1>7, ExtendedKeeps
<1>9. alive[d]
  BY <1>1, <1>2 DEF DeadIsIdle
<1>10. \A r \in Products : \A g \in ReadHeads :
         /\ snap'[r][g] = snap[r][g] \/ snap'[r][g] = Absent
         /\ r # p => head'[r][g] = head[r][g] /\ snap'[r][g] = snap[r][g]
  BY DEF ListRead, WriteList, TypeOK
<1> QED
  BY <1>1, <1>2, <1>7, <1>8, <1>9, <1>10, CallbackOrder

\* The server performs or denies the oldest write: what that write lists has
\* been recorded by an older one.
LEMMA ServerOrder ==
    ASSUME OrderInv, [Next]_vars, NEW d \in Devices, Server(d)
    PROVE  OrderInv'
<1> USE DEF OrderInv
<1>1. PICK i \in DOMAIN pending[d] :
        /\ pending[d][i] \in Writes
        /\ \A j \in DOMAIN pending[d] : j < i => pending[d][j].fate # "sent"
        /\ DOMAIN pending'[d] = DOMAIN pending[d]
        /\ \A j \in DOMAIN pending[d] : j # i => pending'[d][j] = pending[d][j]
        /\ pending'[d][i] = [pending[d][i] EXCEPT !.fate =
              IF pending[d][i].by \in denied THEN "denied" ELSE "ok"]
        /\ \A e \in Devices \ {d} : pending'[e] = pending[e]
        /\ \/ pending[d][i].by \in denied /\ UNCHANGED tree
           \/ /\ pending[d][i].by \notin denied
              /\ tree' = [tree EXCEPT ![pending[d][i].node] = pending[d][i].val]
        /\ UNCHANGED <<feed, alive, form, head, snap, denied, shared>>
  BY ServerStep
<1>2. tree \in [Nodes -> Content]
  BY DEF TypeInv, TypeOK
<1>3. /\ pending'[d][i].by = pending[d][i].by
      /\ pending'[d][i].node = pending[d][i].node
      /\ pending'[d][i].val = pending[d][i].val
  BY <1>1 DEF Writes
<1>4. \A e \in Devices : \A j \in DOMAIN pending[e] :
        /\ DOMAIN pending'[e] = DOMAIN pending[e]
        /\ pending'[e][j].by = pending[e][j].by
        /\ pending'[e][j].node = pending[e][j].node
        /\ pending'[e][j].val = pending[e][j].val
        /\ e # d \/ j # i => pending'[e][j] = pending[e][j]
  BY <1>1, <1>3
<1>5. Extended
  BY <1>4 DEF Extended
<1>6. \A q \in Products : Recorded(q) => Recorded(q)'
  BY RecordedStays
<1>7. \A q \in Elements(pending[d][i].val.list) : q \in Products /\ Recorded(q)
  <2> SUFFICES ASSUME NEW q \in Elements(pending[d][i].val.list)
               PROVE  q \in Products /\ Recorded(q)
    OBVIOUS
  <2>1. q \in Products
    BY <1>1, ElementType DEF Writes
  <2>2. RecordedBefore(q, d, i)
    BY DEF QueueOrder
  <2>3. ASSUME NEW j \in DOMAIN pending[d], j < i, pending[d][j].by = <<q, "id">>
        PROVE  Recorded(q)
    BY <1>1, <2>3 DEF RecordWrites, RecordWrite
  <2> QED
    BY <2>1, <2>2, <2>3 DEF RecordedBefore
<1>8. RecordFirst'
  <2> SUFFICES ASSUME NEW n \in ListNodes, NEW q \in Elements(tree'[n].list)
               PROVE  Recorded(q)'
    BY DEF RecordFirst, Listed, Recorded
  <2>1. n \in Nodes
    BY DEF Nodes
  <2>2. CASE tree'[n] = tree[n]
    <3>1. q \in Products /\ Recorded(q)
      BY <1>2, <2>1, <2>2, ElementType DEF RecordFirst, Listed, Recorded
    <3> QED
      BY <1>6, <3>1
  <2>3. CASE tree'[n] # tree[n]
    <3>1. tree'[n] = pending[d][i].val
      BY <1>1, <1>2, <2>1, <2>3
    <3> QED
      BY <1>6, <1>7, <3>1
  <2> QED
    BY <2>2, <2>3
<1>9. FeedOrder'
  <2>1. \A e \in Devices : \A q \in Elements(feed[e].list) : q \in Products /\ Recorded(q)
    BY ElementType DEF TypeInv, TypeOK, FeedOrder
  <2> QED
    BY <1>1, <1>6, <2>1 DEF FeedOrder
<1>10. RecordWrites'
  <2> SUFFICES ASSUME NEW e \in Devices, NEW j \in DOMAIN pending[e]
               PROVE  RecordWrite(pending[e][j])'
    <3>1. \A e \in Devices : DOMAIN pending'[e] = DOMAIN pending[e]
      BY <1>1
    <3> QED
      BY <3>1 DEF RecordWrites
  <2>1. RecordWrite(pending[e][j]) /\ pending[e][j].by[1] \in Products
    BY EntryType DEF RecordWrites, Writes, TypeInv
  <2>2. CASE e # d \/ j # i
    BY <1>4, <1>6, <2>1, <2>2 DEF RecordWrite
  <2>3. ASSUME e = d, j = i, pending[d][i].by[2] = "id"
        PROVE  Recorded(pending[d][i].by[1])'
    <3>1. PICK q \in Products : pending[d][i].by = <<q, "id">>
      BY <1>1, <2>3 DEF Writes
    <3>2. CASE pending[d][i].by \in denied
      BY <1>1, <3>1, <3>2 DEF Recorded
    <3>3. CASE pending[d][i].by \notin denied
      <4>1. pending[d][i].node = q /\ pending[d][i].val = Record /\ q \in Nodes
        BY <2>1, <2>3, <3>1 DEF RecordWrite, Nodes
      <4>2. tree'[q].there
        BY <1>1, <1>2, <3>3, <4>1 DEF Record
      <4> QED
        BY <1>1, <3>1, <4>2 DEF Recorded
    <3> QED
      BY <3>2, <3>3
  <2> QED
    BY <1>3, <2>1, <2>2, <2>3 DEF RecordWrite
<1>11. QueueOrder'
  BY <1>1, <1>4, <1>5, UnchangedOrder DEF QueueOrder
<1>12. ReadOrder'
  BY <1>1, <1>5, UnchangedOrder DEF ReadOrder
<1>13. DeadIsIdle'
  BY <1>1 DEF DeadIsIdle
<1> QED
  BY <1>8, <1>9, <1>10, <1>11, <1>12, <1>13, NextTypeInv

\* The connection breaks: the same writes wait in the same order.
LEMMA ConnectionLostOrder ==
    ASSUME OrderInv, [Next]_vars, NEW d \in Devices, ConnectionLost(d)
    PROVE  OrderInv'
<1> USE DEF OrderInv
<1>1. UNCHANGED <<tree, feed, alive, form, head, snap, denied, shared>>
  BY DEF ConnectionLost, Reconnect
<1>2. PICK kept \in 0..Len(pending[d]) : pending' = [pending EXCEPT ![d] = Unsent(d, kept)]
  BY DEF ConnectionLost, Reconnect
<1>3. \A e \in Devices : DOMAIN pending'[e] = DOMAIN pending[e]
  BY <1>2, UnsentType DEF TypeInv, TypeOK
<1>4. \A e \in Devices : \A j \in DOMAIN pending[e] :
        /\ pending'[e][j].by = pending[e][j].by
        /\ pending'[e][j].node = pending[e][j].node
        /\ pending'[e][j].val = pending[e][j].val
        /\ pending'[e][j].fate = "sent" \/ pending'[e][j].fate = pending[e][j].fate
  BY <1>2, UnsentType DEF TypeInv, TypeOK
<1>5. Extended
  BY <1>3, <1>4 DEF Extended
<1>6. RecordFirst' /\ FeedOrder'
  BY <1>1, ListsStay
<1>7. RecordWrites'
  <2> SUFFICES ASSUME NEW e \in Devices, NEW j \in DOMAIN pending[e]
               PROVE  RecordWrite(pending[e][j])'
    BY <1>3 DEF RecordWrites
  <2>1. RecordWrite(pending[e][j])
    BY DEF RecordWrites
  <2>2. \A q : Recorded(q) => Recorded(q)'
    BY <1>1 DEF Recorded
  <2> QED
    BY <1>4, <2>1, <2>2 DEF RecordWrite
<1>8. QueueOrder'
  BY <1>1, <1>3, <1>4, <1>5, UnchangedOrder DEF QueueOrder
<1>9. ReadOrder'
  BY <1>1, <1>5, UnchangedOrder DEF ReadOrder
<1>10. DeadIsIdle'
  BY <1>1 DEF DeadIsIdle
<1> QED
  BY <1>6, <1>7, <1>8, <1>9, <1>10, NextTypeInv

\* An acknowledged write leaves the queue: if it was a product's own node, that
\* product is recorded by now.
LEMMA CompletionOrder ==
    ASSUME OrderInv, [Next]_vars, NEW d \in Devices, Completion(d)
    PROVE  OrderInv'
<1> USE DEF OrderInv
<1> DEFINE len == Len(pending[d])
<1>1. /\ pending[d] # <<>>
      /\ Head(pending[d]).fate # "sent"
      /\ pending' = [pending EXCEPT ![d] = Tail(@)]
      /\ feed' = [feed EXCEPT ![d] = tree[ProductsNode]]
      /\ UNCHANGED <<tree, alive, form, snap, denied, faults, shared>>
  BY DEF Completion, Acknowledge, CatchUp
<1>2. /\ pending \in [Devices -> Seq(Writes)]
      /\ pending[d] \in Seq(Writes)
      /\ head \in [Products -> [Heads -> Stages]]
  BY DEF TypeInv, TypeOK
<1>3. /\ len \in Nat
      /\ DOMAIN pending[d] = 1..len
      /\ 1 \in DOMAIN pending[d]
      /\ pending[d][1].fate # "sent"
      /\ DOMAIN pending'[d] = 1..(len - 1)
      /\ \A i \in 1..(len - 1) : pending'[d][i] = pending[d][i + 1]
      /\ \A e \in Devices \ {d} : pending'[e] = pending[e]
  BY <1>1, <1>2
<1>4. \A q : Recorded(q)' <=> Recorded(q)
  BY <1>1 DEF Recorded
<1>5. \A e \in Devices : \A q \in Products : Promised(q, e) => Promised(q, e)'
  <2> SUFFICES ASSUME NEW e \in Devices, NEW q \in Products, NEW j \in DOMAIN pending[e],
                      pending[e][j].by = <<q, "id">>
               PROVE  Promised(q, e)'
    BY <1>4 DEF Promised
  <2>1. CASE e # d
    BY <1>3, <2>1 DEF Promised
  <2>2. CASE e = d /\ j = 1
    BY <1>3, <1>4, <2>2 DEF RecordWrites, RecordWrite, Promised
  <2>3. CASE e = d /\ j # 1
    <3>1. j - 1 \in DOMAIN pending'[d] /\ pending'[d][j - 1] = pending[d][j]
      BY <1>3, <2>3
    <3> QED
      BY <2>3, <3>1 DEF Promised
  <2> QED
    BY <2>1, <2>2, <2>3
<1>6. RecordFirst' /\ FeedOrder'
  <2>1. \A e \in Devices : feed'[e] = feed[e] \/ feed'[e] = tree[ProductsNode]
    BY <1>1 DEF TypeInv, TypeOK
  <2> QED
    BY <1>1, <2>1, ListsStay
<1>7. RecordWrites'
  <2> SUFFICES ASSUME NEW e \in Devices, NEW i \in DOMAIN pending'[e]
               PROVE  RecordWrite(pending[e][i])'
    BY DEF RecordWrites
  <2>1. PICK j \in DOMAIN pending[e] : pending'[e][i] = pending[e][j]
    <3>1. CASE e = d
      <4>1. i + 1 \in DOMAIN pending[d] /\ pending'[d][i] = pending[d][i + 1]
        BY <1>3, <3>1
      <4> QED
        BY <3>1, <4>1
    <3>2. CASE e # d
      BY <1>3, <3>2
    <3> QED
      BY <3>1, <3>2
  <2> QED
    BY <1>4, <2>1 DEF RecordWrites, RecordWrite
<1>8. QueueOrder'
  <2> SUFFICES ASSUME NEW e \in Devices, NEW i \in DOMAIN pending'[e],
                      NEW q \in Elements(pending'[e][i].val.list)
               PROVE  RecordedBefore(q, e, i)'
    BY DEF QueueOrder
  <2>1. CASE e # d
    <3>1. pending'[e] = pending[e]
      BY <1>3, <2>1
    <3>2. RecordedBefore(q, e, i)
      BY <3>1 DEF QueueOrder
    <3> QED
      BY <1>4, <3>1, <3>2 DEF RecordedBefore
  <2>2. CASE e = d
    <3>1. /\ i + 1 \in DOMAIN pending[d]
          /\ i \in Nat
          /\ pending'[d][i] = pending[d][i + 1]
      BY <1>3, <2>2
    <3>2. RecordedBefore(q, d, i + 1)
      BY <2>2, <3>1 DEF QueueOrder
    <3>3. ASSUME NEW j \in DOMAIN pending[d], j < i + 1, pending[d][j].by = <<q, "id">>
          PROVE  RecordedBefore(q, d, i)'
      <4>1. CASE j = 1
        BY <1>3, <1>4, <3>3, <4>1 DEF RecordWrites, RecordWrite, RecordedBefore
      <4>2. CASE j # 1
        <5>1. /\ j - 1 \in DOMAIN pending'[d]
              /\ j - 1 < i
              /\ pending'[d][j - 1].by = <<q, "id">>
          BY <1>3, <3>1, <3>3, <4>2
        <5> QED
          BY <5>1 DEF RecordedBefore
      <4> QED
        BY <4>1, <4>2
    <3> QED
      BY <1>4, <2>2, <3>2, <3>3 DEF RecordedBefore
  <2> QED
    BY <2>1, <2>2
<1>9. \A p \in Products : \A h \in ReadHeads :
        head'[p][h] \in {"asked", "raised"} => head[p][h] \in {"asked", "raised"}
  <2>1. PICK p \in Products, h \in Heads : pending[d][1].by = <<p, h>>
    <3>1. pending[d][1] \in Writes
      BY <1>2, <1>3
    <3> QED
      BY <3>1 DEF Writes
  <2>2. Head(pending[d]) = pending[d][1]
    BY <1>2, <1>3
  <2>3. \E stage \in {"done", "failed"} : head' = [head EXCEPT ![p][h] = stage]
    <3>1. head' = [head EXCEPT ![pending[d][1].by[1]][pending[d][1].by[2]] =
                      IF pending[d][1].fate = "ok" THEN "done" ELSE "failed"]
      BY <2>2 DEF Completion
    <3>2. pending[d][1].by[1] = p /\ pending[d][1].by[2] = h
      BY <2>1
    <3>3. head' = [head EXCEPT ![p][h] = IF pending[d][1].fate = "ok"
                                         THEN "done" ELSE "failed"]
      BY <3>1, <3>2
    <3> QED
      BY <3>3
  <2> QED
    BY <1>2, <2>3, ReadHeadsAreHeads
<1>10. ReadOrder'
  <2> SUFFICES ASSUME NEW r \in Products, NEW g \in ReadHeads
               PROVE  /\ \A q \in Elements(snap[r][g].list) : Promised(q, form[r].dev)'
                      /\ g \in ListHeads /\ head'[r][g] \in {"asked", "raised"}
                            => Promised(r, form[r].dev)'
    BY <1>1 DEF ReadOrder
  <2>1. PICK e \in Devices : e = form[r].dev
    BY DEF TypeInv, TypeOK, Forms
  <2>2. snap[r][g] \in Content
    BY DEF TypeInv, TypeOK
  <2>3. \A q \in Elements(snap[r][g].list) : q \in Products /\ Promised(q, e)
    BY <2>1, <2>2, ElementType DEF ReadOrder
  <2>4. g \in ListHeads /\ head'[r][g] \in {"asked", "raised"} => Promised(r, e)
    BY <1>9, <2>1 DEF ReadOrder
  <2>5. form'[r].dev = e
    BY <1>1, <2>1
  <2> QED
    BY <1>5, <2>3, <2>4, <2>5 DEF Promised, Recorded
<1>11. DeadIsIdle'
  BY <1>1, <1>9 DEF DeadIsIdle
<1> QED
  BY <1>6, <1>7, <1>8, <1>10, <1>11, NextTypeInv

\* A dead device's queue is lost, and with it every promise: but nothing that
\* could still rely on one is left there.
LEMMA LoseQueueOrder ==
    ASSUME OrderInv, [Next]_vars, NEW d \in Devices, LoseQueue(d)
    PROVE  OrderInv'
<1> USE DEF OrderInv
<1>1. /\ ~ alive[d]
      /\ pending' = [pending EXCEPT ![d] = <<>>]
      /\ UNCHANGED <<tree, feed, alive, form, snap, denied>>
  BY DEF LoseQueue, Drop
<1>2. \A p \in Products : \A h \in ReadHeads :
        head'[p][h] \in {"asked", "raised"} => head[p][h] \in {"asked", "raised"}
  BY ReadHeadsAreHeads DEF LoseQueue
<1>3. pending'[d] = <<>> /\ \A e \in Devices \ {d} : pending'[e] = pending[e]
  BY <1>1 DEF TypeInv, TypeOK
<1>4. \A q : Recorded(q)' <=> Recorded(q)
  BY <1>1 DEF Recorded
<1>5. RecordFirst' /\ FeedOrder'
  BY <1>1, ListsStay
<1>6. RecordWrites'
  BY <1>3, <1>4 DEF RecordWrites, RecordWrite
<1>7. QueueOrder'
  <2> SUFFICES ASSUME NEW e \in Devices, NEW i \in DOMAIN pending'[e],
                      NEW q \in Elements(pending'[e][i].val.list)
               PROVE  RecordedBefore(q, e, i)'
    BY DEF QueueOrder
  <2>1. e # d
    BY <1>3
  <2>2. pending'[e] = pending[e]
    BY <1>3, <2>1
  <2>3. RecordedBefore(q, e, i)
    BY <2>2 DEF QueueOrder
  <2> QED
    BY <1>4, <2>2, <2>3 DEF RecordedBefore
<1>8. ReadOrder'
  <2> SUFFICES ASSUME NEW r \in Products, NEW g \in ReadHeads
               PROVE  /\ \A q \in Elements(snap[r][g].list) : Promised(q, form[r].dev)'
                      /\ g \in ListHeads /\ head'[r][g] \in {"asked", "raised"}
                            => Promised(r, form[r].dev)'
    BY <1>1 DEF ReadOrder
  <2>1. CASE form[r].dev = d
    <3>1. head[r][g] \notin {"asked", "raised"} /\ snap[r][g] = Absent
      BY <1>1, <2>1 DEF DeadIsIdle
    <3>2. Elements(Absent.list) = {}
      BY DEF Elements, Absent
    <3> QED
      BY <1>2, <3>1, <3>2
  <2>2. CASE form[r].dev # d
    <3>1. PICK e \in Devices \ {d} : e = form[r].dev
      BY <2>2 DEF TypeInv, TypeOK, Forms
    <3>2. pending'[e] = pending[e] /\ form'[r].dev = e
      BY <1>1, <1>3, <3>1
    <3>3. \A q : Promised(q, e) => Promised(q, form[r].dev)'
      BY <1>4, <3>2 DEF Promised
    <3> QED
      BY <1>2, <3>1, <3>3 DEF ReadOrder
  <2> QED
    BY <2>1, <2>2
<1>9. DeadIsIdle'
  BY <1>1, <1>2 DEF DeadIsIdle
<1> QED
  BY <1>5, <1>6, <1>7, <1>8, <1>9, NextTypeInv

-----------------------------------------------------------------------------
(* The invariant *)

\* Nothing is listed, queued or read at the start.
LEMMA InitOrderInv == Init => OrderInv
<1> SUFFICES ASSUME Init
             PROVE  OrderInv
  OBVIOUS
<1>1. \A n \in ListNodes : tree[n].list = <<>>
  BY DEF Init, DbInit, Absent, Record, Nodes
<1>2. \A d \in Devices : pending[d] = <<>> /\ feed[d].list = <<>>
  <2>1. ProductsNode \in ListNodes
    BY DEF ListNodes
  <2> QED
    BY <1>1, <2>1 DEF Init, DbInit
<1>3. \A p \in Products : \A h \in ReadHeads :
        head[p][h] = "none" /\ snap[p][h] = Absent
  BY ReadHeadsAreHeads DEF Init
<1>4. Elements(<<>>) = {} /\ Absent.list = <<>>
  BY DEF Elements, Absent
<1>5. RecordFirst /\ FeedOrder
  BY <1>1, <1>2, <1>4 DEF RecordFirst, Listed, FeedOrder
<1>6. RecordWrites /\ QueueOrder
  BY <1>2 DEF RecordWrites, QueueOrder
<1>7. ReadOrder /\ DeadIsIdle
  BY <1>3, <1>4 DEF ReadOrder, DeadIsIdle
<1> QED
  BY <1>5, <1>6, <1>7, InitTypeInv DEF OrderInv

\* Every action keeps the order.
LEMMA NextOrderInv == OrderInv /\ [Next]_vars => OrderInv'
<1> SUFFICES ASSUME OrderInv, [Next]_vars
             PROVE  OrderInv'
  OBVIOUS
<1>1. ASSUME NEW p \in Products, Publication(p)
      PROVE  OrderInv'
  <2>1. CASE Begin(p) \/ UserMissing(p)
    BY <2>1, QuietActions
  <2>2. ASSUME NEW h \in ReadHeads, Raise(p, h)
        PROVE  OrderInv'
    BY <2>2, RaiseOrder
  <2>3. CASE UserFound(p)
    BY <2>3, UserFoundOrder
  <2>4. CASE NoCategoryException(p)
    <3>1. form[p].dev \in Devices /\ Crash(form[p].dev)
      BY <2>4 DEF NoCategoryException, OrderInv, TypeInv, TypeOK, Forms
    <3> QED
      BY <3>1, QuietActions
  <2>5. ASSUME NEW h \in ListHeads, ListRead(p, h)
        PROVE  OrderInv'
    BY <2>5, ListReadOrder
  <2> QED
    BY <1>1, <2>1, <2>2, <2>3, <2>4, <2>5 DEF Publication
<1>2. ASSUME NEW d \in Devices, Device(d)
      PROVE  OrderInv'
  <2>1. CASE Kill(d) \/ Refresh(d)
    BY <2>1, QuietActions DEF Kill
  <2>2. CASE Server(d)
    BY <2>2, ServerOrder
  <2>3. CASE Completion(d)
    BY <2>3, CompletionOrder
  <2>4. CASE LoseQueue(d)
    BY <2>4, LoseQueueOrder
  <2>5. CASE ConnectionLost(d)
    BY <2>5, ConnectionLostOrder
  <2> QED
    BY <1>2, <2>1, <2>2, <2>3, <2>4, <2>5 DEF Device
<1>3. CASE UNCHANGED vars
  BY <1>3, QuietActions
<1> QED
  BY <1>1, <1>2, <1>3 DEF Next

\* On any number of devices, with any number of kills, broken connections and
\* denied writes, no list shows a product whose own node is not there, unless
\* the write of that node was denied.
THEOREM RecordFirstCorrect == Spec => []RecordFirst
<1>1. Spec => []OrderInv
  BY InitOrderInv, NextOrderInv, PTL DEF Spec
<1>2. OrderInv => RecordFirst
  BY DEF OrderInv
<1> QED
  BY <1>1, <1>2, PTL
=============================================================================
