--------------------------- MODULE ProductListProofs ---------------------------
(***************************************************************************)
(* What the lists hold: a product is only ever in the list of its category, *)
(* of its account and of all products, and no list repeats one.  Contents   *)
(* travel: from the tree into a cache, from there into a snapshot, into a   *)
(* queued write, and back into the tree.  Wherever one is, it holds only    *)
(* products that have written to its node, and each of them once.           *)
(***************************************************************************)
EXTENDS PublishScreenProofs

\* The stages of a head whose write has been queued, or never will be.
Behind == {"queued", "done", "failed", "dead"}

\* The products that have been written to node n, by a head whose list it is.
Placed(n) == {q \in Products :
    /\ form[q].cat \in Categories
    /\ \E h \in ReadHeads : Target(q, h) = n /\ head[q][h] \in Behind}

\* The content holds some of these products, each at most once.
Sound(c, placed) ==
    /\ Elements(c.list) \subseteq placed
    /\ \A i, j \in DOMAIN c.list : c.list[i] = c.list[j] => i = j

\* Every content, wherever it is, is sound for the node it belongs to.
AllSound ==
    /\ \A n \in Nodes : Sound(tree[n], Placed(n))
    /\ \A d \in Devices : Sound(feed[d], Placed(ProductsNode))
    /\ \A d \in Devices : \A i \in DOMAIN pending[d] :
          Sound(pending[d][i].val, Placed(pending[d][i].node))
    /\ \A p \in Products : \A h \in ReadHeads : Sound(snap[p][h], Placed(Target(p, h)))

ListInv == FoundInv /\ AllSound

-----------------------------------------------------------------------------
(* Lemmas about contents *)

\* Sound for some products is sound for more.
LEMMA SoundMore ==
    ASSUME NEW c, NEW few, NEW many, few \subseteq many, Sound(c, few)
    PROVE  Sound(c, many)
BY DEF Sound

\* Contents without a list are sound.
LEMMA EmptySound == \A placed : Sound(Absent, placed) /\ Sound(Record, placed)
BY DEF Sound, Elements, Absent, Record

\* Appending a product that is not yet placed keeps a content sound.
LEMMA ListingSound ==
    ASSUME NEW c \in Content, NEW p \in Products, NEW few, NEW many,
           Sound(c, few), few \subseteq many, p \in many, p \notin few
    PROVE  Sound(Listing(c, p), many)
<1>1. c.list \in Seq(Products) /\ Listing(c, p).list = Append(c.list, p)
  BY DEF Content, Listing
<1>2. Elements(Listing(c, p).list) \subseteq many
  BY ListingElements DEF Sound
<1>3. ASSUME NEW i \in DOMAIN Append(c.list, p), NEW j \in DOMAIN Append(c.list, p),
             Append(c.list, p)[i] = Append(c.list, p)[j]
      PROVE  i = j
  <2>1. /\ DOMAIN Append(c.list, p) = 1..(Len(c.list) + 1)
        /\ DOMAIN c.list = 1..Len(c.list) /\ Len(c.list) \in Nat
    BY <1>1
  <2>2. \A k \in 1..Len(c.list) : Append(c.list, p)[k] = c.list[k] /\ c.list[k] # p
    BY <1>1, <2>1 DEF Sound, Elements
  <2>3. Append(c.list, p)[Len(c.list) + 1] = p
    BY <1>1
  <2>4. \A k, l \in 1..Len(c.list) : c.list[k] = c.list[l] => k = l
    BY <2>1 DEF Sound
  <2>5. CASE i \in 1..Len(c.list) /\ j \in 1..Len(c.list)
    BY <1>3, <2>2, <2>4, <2>5
  <2>6. CASE i \in 1..Len(c.list) /\ j = Len(c.list) + 1
    BY <1>3, <2>2, <2>3, <2>6
  <2>7. CASE i = Len(c.list) + 1 /\ j \in 1..Len(c.list)
    BY <1>3, <2>2, <2>3, <2>7
  <2>8. CASE i = Len(c.list) + 1 /\ j = Len(c.list) + 1
    BY <2>8
  <2> QED
    BY <2>1, <2>5, <2>6, <2>7, <2>8
<1> QED
  BY <1>1, <1>2, <1>3 DEF Sound

\* The heads of one product have different targets.
LEMMA TargetsDiffer ==
    ASSUME TypeOK, NEW p \in Products, form[p].cat \in Categories,
           NEW g \in ReadHeads, NEW h \in ReadHeads, Target(p, g) = Target(p, h)
    PROVE  g = h
BY NamesAssumption DEF TypeOK, Forms, Target, ReadHeads, ListHeads

\* A product whose head has not written yet is not placed in its target.
LEMMA NotYetPlaced ==
    ASSUME TypeOK, NEW p \in Products, NEW h \in ReadHeads, head[p][h] \notin Behind
    PROVE  p \notin Placed(Target(p, h))
BY TargetsDiffer DEF Placed

-----------------------------------------------------------------------------
(* Placed products stay placed *)

\* The form a product is published from never changes.
LEMMA FormStays ==
    ASSUME [Next]_vars
    PROVE  UNCHANGED form
<1>1. ASSUME NEW p \in Products, Publication(p)
      PROVE  UNCHANGED form
  BY <1>1 DEF Publication, Begin, Raise, UserFound, UserMissing, NoCategoryException,
     Crash, ListRead, WriteList
<1>2. ASSUME NEW d \in Devices, Device(d)
      PROVE  UNCHANGED form
  BY <1>2 DEF Device, Server, Completion, Kill, Crash, LoseQueue, ConnectionLost,
     Refresh, pubVars, listens
<1> QED
  BY <1>1, <1>2 DEF Next, vars, pubVars, listens

\* A head that has written never writes again.
LEMMA BehindStays ==
    ASSUME FoundInv, [Next]_vars, NEW q \in Products, NEW g \in ReadHeads,
           head[q][g] \in Behind
    PROVE  head'[q][g] \in Behind
<1> USE DEF FoundInv, TypeInv, TypeOK, Behind
<1>0. ReadHeads \subseteq Heads /\ ListHeads \subseteq ReadHeads
  BY ReadHeadsAreHeads
<1>1. ASSUME NEW p \in Products, Publication(p)
      PROVE  head'[q][g] \in Behind
  <2>1. CASE Begin(p)
    BY <1>0, <2>1 DEF Begin
  <2>2. ASSUME NEW h \in ReadHeads, Raise(p, h)
        PROVE  head'[q][g] \in Behind
    BY <1>0, <2>2 DEF Raise
  <2>3. CASE UserFound(p)
    <3>1. p \notin Found
      BY <2>3 DEF UserFound, Found
    <3>2. head[p][g] \notin Behind
      BY <1>0, <2>3, <3>1 DEF UserFound, OnlyFound
    <3> QED
      BY <2>3, <3>2 DEF UserFound
  <2>4. CASE UserMissing(p)
    BY <1>0, <2>4 DEF UserMissing
  <2>5. CASE NoCategoryException(p)
    BY <1>0, <2>5 DEF NoCategoryException, Crash
  <2>6. ASSUME NEW h \in ListHeads, ListRead(p, h)
        PROVE  head'[q][g] \in Behind
    BY <1>0, <2>6 DEF ListRead, WriteList
  <2> QED
    BY <1>1, <2>1, <2>2, <2>3, <2>4, <2>5, <2>6 DEF Publication
<1>2. ASSUME NEW d \in Devices, Device(d)
      PROVE  head'[q][g] \in Behind
  <2>1. CASE Server(d) \/ ConnectionLost(d) \/ Refresh(d)
    BY <2>1 DEF Server, ConnectionLost, Refresh, pubVars, listens
  <2>2. CASE Completion(d)
    BY <1>0, <2>2 DEF Completion
  <2>3. CASE Kill(d)
    BY <1>0, <2>3 DEF Kill, Crash
  <2>4. CASE LoseQueue(d)
    BY <1>0, <2>4 DEF LoseQueue
  <2> QED
    BY <1>2, <2>1, <2>2, <2>3, <2>4 DEF Device
<1>3. CASE UNCHANGED vars
  BY <1>3 DEF vars, pubVars, listens
<1> QED
  BY <1>1, <1>2, <1>3 DEF Next

\* A product stays placed.
LEMMA PlacedStays ==
    ASSUME FoundInv, [Next]_vars, NEW n
    PROVE  Placed(n) \subseteq Placed(n)'
<1>1. ASSUME NEW q \in Products, NEW h \in ReadHeads
      PROVE  Target(q, h)' = Target(q, h)
  BY FormStays DEF Target
<1> QED
  BY <1>1, FormStays, BehindStays DEF Placed

-----------------------------------------------------------------------------
(* Every action keeps contents sound *)

\* Whatever a read sees is sound for the node it reads.
LEMMA ViewSound ==
    ASSUME ListInv, NEW d \in Devices, NEW n \in Nodes, NEW v \in View(d, n)
    PROVE  Sound(v, Placed(n))
<1>1. \/ \E i \in PutsTo(d, n) : v = pending[d][i].val
      \/ n = ProductsNode /\ v = feed[d]
      \/ v = tree[n]
  BY Zenon DEF View
<1>2. \A i \in PutsTo(d, n) : i \in DOMAIN pending[d] /\ pending[d][i].node = n
  BY DEF PutsTo
<1> QED
  BY <1>1, <1>2 DEF ListInv, AllSound

\* A step that only moves contents, from where they were sound for a node to
\* another place of the same node, keeps them sound.
LEMMA MovesSound ==
    ASSUME ListInv, [Next]_vars,
           \A n \in Nodes : Sound(tree'[n], Placed(n)),
           \A d \in Devices : Sound(feed'[d], Placed(ProductsNode)),
           \A d \in Devices : \A i \in DOMAIN pending'[d] :
              Sound(pending[d][i].val, Placed(pending[d][i].node))',
           \A p \in Products : \A h \in ReadHeads :
              Sound(snap'[p][h], Placed(Target(p, h)))
    PROVE  AllSound'
<1>1. \A n : Placed(n) \subseteq Placed(n)'
  BY PlacedStays DEF ListInv
<1>2. \A p : \A h : Target(p, h)' = Target(p, h)
  BY FormStays DEF Target
<1>3. ASSUME NEW n \in Nodes
      PROVE  Sound(tree[n], Placed(n))'
  <2>1. Sound(tree'[n], Placed(n)) /\ Placed(n) \subseteq Placed(n)'
    BY <1>1
  <2> QED
    BY <2>1 DEF Sound
<1>4. ASSUME NEW d \in Devices
      PROVE  Sound(feed[d], Placed(ProductsNode))'
  <2>1. Sound(feed'[d], Placed(ProductsNode)) /\ Placed(ProductsNode) \subseteq Placed(ProductsNode)'
    BY <1>1
  <2> QED
    BY <2>1 DEF Sound
<1>5. ASSUME NEW p \in Products, NEW h \in ReadHeads
      PROVE  Sound(snap[p][h], Placed(Target(p, h)))'
  <2>1. PICK n : n = Target(p, h)
    OBVIOUS
  <2>2. Sound(snap'[p][h], Placed(n)) /\ Placed(n) \subseteq Placed(n)'
    BY <1>1, <2>1
  <2>3. Target(p, h)' = n
    BY <1>2, <2>1
  <2> QED
    BY <2>2, <2>3 DEF Sound, Placed
<1> QED
  BY <1>3, <1>4, <1>5 DEF AllSound

\* A queued write is sound after a step if it was sound for its node before.
LEMMA EntrySound ==
    ASSUME NEW n, NEW v, Placed(n) \subseteq Placed(n)', NEW few,
           Sound(v, few), few \subseteq Placed(n)',
           NEW d, NEW i, pending'[d][i].val = v, pending'[d][i].node = n
    PROVE  Sound(pending[d][i].val, Placed(pending[d][i].node))'
<1>1. Sound(v, Placed(n)')
  BY DEF Sound
<1> QED
  BY <1>1 DEF Sound, Placed

\* The entries a step leaves in a queue, or moves up in it, stay sound.
LEMMA OldEntrySound ==
    ASSUME ListInv, [Next]_vars, NEW d \in Devices, NEW i \in DOMAIN pending[d],
           NEW j, pending'[d][j].val = pending[d][i].val,
           pending'[d][j].node = pending[d][i].node
    PROVE  Sound(pending[d][j].val, Placed(pending[d][j].node))'
<1>1. PICK n, v : n = pending[d][i].node /\ v = pending[d][i].val
  OBVIOUS
<1>2. Sound(v, Placed(n)) /\ Placed(n) \subseteq Placed(n)'
  BY <1>1, PlacedStays DEF ListInv, AllSound
<1> QED
  BY <1>1, <1>2, EntrySound

\* Queueing sound writes keeps the queues sound.
LEMMA EnqueueSound ==
    ASSUME ListInv, [Next]_vars, NEW d \in Devices, NEW puts \in Seq(Writes),
           Enqueue(d, puts),
           \A k \in DOMAIN puts : Sound(puts[k].val, Placed(puts[k].node)')
    PROVE  \A e \in Devices : \A i \in DOMAIN pending'[e] :
               Sound(pending[e][i].val, Placed(pending[e][i].node))'
<1>1. pending' = [pending EXCEPT ![d] = @ \o puts] /\ pending \in [Devices -> Seq(Writes)]
  BY DEF Enqueue, ListInv, FoundInv, TypeInv, TypeOK
<1> SUFFICES ASSUME NEW e \in Devices, NEW i \in DOMAIN pending'[e]
             PROVE  Sound(pending[e][i].val, Placed(pending[e][i].node))'
  OBVIOUS
<1>2. CASE e # d
  <2>1. pending'[e] = pending[e]
    BY <1>1, <1>2
  <2> QED
    BY <2>1, OldEntrySound
<1>3. CASE e = d
  <2>1. pending'[d] = pending[d] \o puts /\ pending[d] \in Seq(Writes)
    BY <1>1
  <2>2. CASE i \in 1..Len(pending[d])
    <3>1. pending'[e][i] = pending[d][i] /\ i \in DOMAIN pending[d]
      BY <1>3, <2>1, <2>2
    <3> QED
      BY <1>3, <3>1, OldEntrySound
  <2>3. CASE i \notin 1..Len(pending[d])
    <3>1. i - Len(pending[d]) \in DOMAIN puts
      BY <1>3, <2>1, <2>3
    <3>2. PICK k \in DOMAIN puts : pending'[e][i] = puts[k]
      BY <1>3, <2>1, <2>3, <3>1
    <3>3. Sound(puts[k].val, Placed(puts[k].node)')
      OBVIOUS
    <3>4. PICK n, v : n = puts[k].node /\ v = puts[k].val
      OBVIOUS
    <3>5. Sound(v, Placed(n)') /\ Placed(n) \subseteq Placed(n)'
      BY <3>3, <3>4, PlacedStays DEF ListInv
    <3> QED
      BY <3>2, <3>4, <3>5 DEF Sound, Placed
  <2> QED
    BY <2>2, <2>3
<1> QED
  BY <1>2, <1>3

\* An event is raised with what its device sees.
LEMMA RaiseSound ==
    ASSUME ListInv, [Next]_vars, NEW p \in Products, NEW h \in ReadHeads, Raise(p, h)
    PROVE  AllSound'
<1> USE DEF ListInv, FoundInv, TypeInv
<1>1. Target(p, h) \in Nodes /\ form[p].dev \in Devices
  BY TargetType, ReadHeadsAreHeads DEF Raise, Categorized, TypeOK, Forms
<1>2. PICK v \in View(form[p].dev, Target(p, h)) : snap' = [snap EXCEPT ![p][h] = v]
  BY DEF Raise
<1>3. Sound(v, Placed(Target(p, h)))
  BY <1>1, <1>2, ViewSound
<1>4. ASSUME NEW q \in Products, NEW g \in ReadHeads
      PROVE  Sound(snap'[q][g], Placed(Target(q, g)))
  <2>1. \/ q = p /\ g = h /\ snap'[q][g] = v
        \/ snap'[q][g] = snap[q][g]
    BY <1>2 DEF TypeOK
  <2> QED
    BY <1>3, <2>1 DEF AllSound
<1>5. ASSUME NEW d \in Devices
      PROVE  Sound(feed'[d], Placed(ProductsNode))
  <2>1. feed'[d] = feed[d] \/ feed'[d] = tree[ProductsNode]
    BY DEF Raise, Answered, CatchUp, TypeOK
  <2>2. ProductsNode \in Nodes
    BY DEF Nodes, ListNodes
  <2> QED
    BY <2>1, <2>2 DEF AllSound
<1>6. UNCHANGED <<tree, pending>>
  BY DEF Raise
<1>7. \A d \in Devices : \A i \in DOMAIN pending'[d] :
          Sound(pending[d][i].val, Placed(pending[d][i].node))'
  BY <1>6, OldEntrySound
<1>8. \A n \in Nodes : Sound(tree'[n], Placed(n))
  BY <1>6 DEF AllSound
<1> QED
  BY <1>4, <1>5, <1>7, <1>8, MovesSound

\* A callback that only empties a snapshot and queues writes.
LEMMA CallbackSound ==
    ASSUME ListInv, [Next]_vars, UNCHANGED <<tree, feed>>,
           NEW p \in Products, NEW h \in ReadHeads, snap' = [snap EXCEPT ![p][h] = Absent],
           \A d \in Devices : \A i \in DOMAIN pending'[d] :
              Sound(pending[d][i].val, Placed(pending[d][i].node))'
    PROVE  AllSound'
<1>1. ASSUME NEW q \in Products, NEW g \in ReadHeads
      PROVE  Sound(snap'[q][g], Placed(Target(q, g)))
  <2>1. snap'[q][g] = Absent \/ snap'[q][g] = snap[q][g]
    BY DEF ListInv, FoundInv, TypeInv, TypeOK
  <2> QED
    BY <2>1, EmptySound DEF ListInv, AllSound
<1>2. \A n \in Nodes : Sound(tree'[n], Placed(n))
  BY DEF ListInv, AllSound
<1>3. \A d \in Devices : Sound(feed'[d], Placed(ProductsNode))
  BY DEF ListInv, AllSound
<1> QED
  BY <1>1, <1>2, <1>3, MovesSound

\* The callback of the user read appends p to a snapshot that cannot hold it.
LEMMA UserFoundSound ==
    ASSUME ListInv, [Next]_vars, NEW p \in Products, UserFound(p)
    PROVE  AllSound'
<1> USE DEF ListInv, FoundInv, TypeInv
<1>1. PICK n, c : n = form[p].owner /\ c = snap[p]["user"]
  OBVIOUS
<1>2. /\ form[p].cat \in Categories /\ form[p].dev \in Devices
      /\ n \in Users /\ c \in Content /\ "user" \in ReadHeads /\ n = Target(p, "user")
  BY <1>1 DEF UserFound, TypeOK, Forms, ReadHeads, Target
<1>3. PICK puts : puts = << Put(<<p, "id">>, p, Record), Put(<<p, "user">>, n, Listing(c, p)) >>
  OBVIOUS
<1>4. puts \in Seq(Writes)
  <2>1. Put(<<p, "id">>, p, Record) \in Writes
    BY ConstantContents DEF Put, Writes, Heads, Nodes, Fates
  <2>2. Put(<<p, "user">>, n, Listing(c, p)) \in Writes
    BY <1>2, ListingType DEF Put, Writes, Heads, Nodes, ListNodes, Fates
  <2> QED
    BY <1>3, <2>1, <2>2
<1>5. p \notin Placed(n)
  <2>1. head[p]["user"] \notin Behind
    BY DEF UserFound, Behind
  <2> QED
    BY <1>2, <2>1, NotYetPlaced
<1>6. p \in Placed(n)'
  <2>1. form'[p] = form[p] /\ head'[p]["user"] = "queued"
    BY DEF UserFound, TypeOK
  <2> QED
    BY <1>1, <1>2, <2>1 DEF Placed, Target, Behind
<1>7. Sound(c, Placed(n)) /\ Placed(n) \subseteq Placed(n)'
  BY <1>1, <1>2, PlacedStays DEF AllSound
<1>8. Sound(Listing(c, p), Placed(n)')
  BY <1>2, <1>5, <1>6, <1>7, ListingSound
<1>9. \A k \in DOMAIN puts : Sound(puts[k].val, Placed(puts[k].node)')
  <2>1. puts[1].val = Record /\ puts[2].val = Listing(c, p) /\ puts[2].node = n
    BY <1>3 DEF Put
  <2>2. DOMAIN puts = {1, 2}
    BY <1>3
  <2>3. Sound(puts[1].val, Placed(puts[1].node)')
    BY <2>1, EmptySound
  <2>4. Sound(puts[2].val, Placed(puts[2].node)')
    BY <1>8, <2>1
  <2> QED
    BY <2>2, <2>3, <2>4
<1>10. Enqueue(form[p].dev, puts)
  BY <1>1, <1>3 DEF UserFound
<1>11. \A e \in Devices : \A i \in DOMAIN pending'[e] :
           Sound(pending[e][i].val, Placed(pending[e][i].node))'
  BY <1>2, <1>4, <1>9, <1>10, EnqueueSound
<1>12. UNCHANGED <<tree, feed>> /\ snap' = [snap EXCEPT ![p]["user"] = Absent]
  BY DEF UserFound
<1> QED
  BY <1>2, <1>11, <1>12, CallbackSound

\* So does the callback of a list read.
LEMMA ListReadSound ==
    ASSUME ListInv, [Next]_vars, NEW p \in Products, NEW h \in ListHeads, ListRead(p, h)
    PROVE  AllSound'
<1> USE DEF ListInv, FoundInv, TypeInv
<1>1. PICK n, c : n = Target(p, h) /\ c = snap[p][h]
  OBVIOUS
<1>2. h \in Heads /\ h \in ReadHeads /\ form[p].dev \in Devices /\ head[p][h] = "raised"
  BY ReadHeadsAreHeads DEF ListRead, WriteList, TypeOK, Forms
<1>3. form[p].cat \in Categories /\ c \in Content /\ n \in Nodes
  <2>1. form[p].cat \in Categories
    BY <1>2, CategoryOfHead
  <2> QED
    BY <1>1, <1>2, <2>1, TargetType DEF TypeOK
<1>4. PICK puts : puts = << Put(<<p, h>>, n, Listing(c, p)) >>
  OBVIOUS
<1>5. puts \in Seq(Writes)
  <2>1. Put(<<p, h>>, n, Listing(c, p)) \in Writes
    BY <1>2, <1>3, ListingType DEF Put, Writes, Fates
  <2> QED
    BY <1>4, <2>1
<1>6. p \notin Placed(n)
  BY <1>1, <1>2, NotYetPlaced DEF Behind
<1>7. p \in Placed(n)'
  <2>1. form' = form /\ head'[p][h] = "queued"
    BY <1>2 DEF ListRead, WriteList, TypeOK
  <2>2. Target(p, h)' = n
    BY <1>1, <2>1 DEF Target
  <2> QED
    BY <1>2, <1>3, <2>1, <2>2 DEF Placed, Behind
<1>8. Sound(c, Placed(n)) /\ Placed(n) \subseteq Placed(n)'
  BY <1>1, <1>2, PlacedStays DEF AllSound
<1>9. Sound(Listing(c, p), Placed(n)')
  BY <1>3, <1>6, <1>7, <1>8, ListingSound
<1>10. \A k \in DOMAIN puts : Sound(puts[k].val, Placed(puts[k].node)')
  <2>1. puts[1].val = Listing(c, p) /\ puts[1].node = n /\ DOMAIN puts = {1}
    BY <1>4 DEF Put
  <2> QED
    BY <1>9, <2>1
<1>11. Enqueue(form[p].dev, puts)
  BY <1>1, <1>4 DEF ListRead, WriteList
<1>12. \A e \in Devices : \A i \in DOMAIN pending'[e] :
           Sound(pending[e][i].val, Placed(pending[e][i].node))'
  BY <1>2, <1>5, <1>10, <1>11, EnqueueSound
<1>13. UNCHANGED <<tree, feed>> /\ snap' = [snap EXCEPT ![p][h] = Absent]
  BY DEF ListRead, WriteList
<1> QED
  BY <1>2, <1>12, <1>13, CallbackSound

\* A step that leaves the tree and the queues, may refresh caches from the tree
\* and may empty snapshots.
LEMMA QuietSound ==
    ASSUME ListInv, [Next]_vars, UNCHANGED <<tree, pending>>,
           \A d \in Devices : feed'[d] = feed[d] \/ feed'[d] = tree[ProductsNode],
           \A p \in Products : \A h \in ReadHeads :
              snap'[p][h] = snap[p][h] \/ snap'[p][h] = Absent
    PROVE  AllSound'
<1>1. \A d \in Devices : Sound(feed'[d], Placed(ProductsNode))
  BY DEF ListInv, AllSound, Nodes, ListNodes
<1>2. \A p \in Products : \A h \in ReadHeads : Sound(snap'[p][h], Placed(Target(p, h)))
  <2> SUFFICES ASSUME NEW p \in Products, NEW h \in ReadHeads
               PROVE  Sound(snap'[p][h], Placed(Target(p, h)))
    OBVIOUS
  <2>1. Sound(snap[p][h], Placed(Target(p, h)))
    BY DEF ListInv, AllSound
  <2> QED
    BY <2>1, EmptySound
<1>3. \A d \in Devices : \A i \in DOMAIN pending'[d] :
          Sound(pending[d][i].val, Placed(pending[d][i].node))'
  BY OldEntrySound
<1>4. \A n \in Nodes : Sound(tree'[n], Placed(n))
  BY DEF ListInv, AllSound
<1> QED
  BY <1>1, <1>2, <1>3, <1>4, MovesSound

\* The server puts the content of a queued write into the node it is for.
LEMMA ServerSound ==
    ASSUME ListInv, [Next]_vars, NEW d \in Devices, Server(d)
    PROVE  AllSound'
<1> USE DEF ListInv, FoundInv
<1>1. PICK i \in DOMAIN pending[d] :
        /\ pending[d][i] \in Writes
        /\ DOMAIN pending'[d] = DOMAIN pending[d]
        /\ \A j \in DOMAIN pending[d] : j # i => pending'[d][j] = pending[d][j]
        /\ pending'[d][i] = [pending[d][i] EXCEPT !.fate =
              IF pending[d][i].by \in denied THEN "denied" ELSE "ok"]
        /\ \A e \in Devices \ {d} : pending'[e] = pending[e]
        /\ \/ pending[d][i].by \in denied /\ UNCHANGED tree
           \/ /\ pending[d][i].by \notin denied
              /\ tree' = [tree EXCEPT ![pending[d][i].node] = pending[d][i].val]
        /\ UNCHANGED <<feed, alive, form, head, snap, denied, shared>>
  BY ServerStep, Zenon
<1>2. pending'[d][i].node = pending[d][i].node /\ pending'[d][i].val = pending[d][i].val
  BY <1>1 DEF Writes
<1>3. ASSUME NEW e \in Devices, NEW j \in DOMAIN pending'[e]
      PROVE  Sound(pending[e][j].val, Placed(pending[e][j].node))'
  <2>1. /\ j \in DOMAIN pending[e]
        /\ pending'[e][j].node = pending[e][j].node
        /\ pending'[e][j].val = pending[e][j].val
    BY <1>1, <1>2, <1>3
  <2> QED
    BY <2>1, OldEntrySound
<1>4. ASSUME NEW n \in Nodes
      PROVE  Sound(tree'[n], Placed(n))
  <2>1. \/ tree'[n] = tree[n]
        \/ n = pending[d][i].node /\ tree'[n] = pending[d][i].val
    BY <1>1 DEF TypeInv, TypeOK
  <2> QED
    BY <2>1 DEF AllSound
<1>5. /\ \A e \in Devices : Sound(feed'[e], Placed(ProductsNode))
      /\ \A p \in Products : \A h \in ReadHeads : Sound(snap'[p][h], Placed(Target(p, h)))
  BY <1>1 DEF AllSound
<1> QED
  BY <1>3, <1>4, <1>5, MovesSound

\* A broken connection leaves every content in its queue.
LEMMA ConnectionLostSound ==
    ASSUME ListInv, [Next]_vars, NEW d \in Devices, ConnectionLost(d)
    PROVE  AllSound'
<1> USE DEF ListInv, FoundInv, TypeInv
<1>1. PICK kept \in 0..Len(pending[d]) : pending' = [pending EXCEPT ![d] = Unsent(d, kept)]
  BY DEF ConnectionLost, Reconnect
<1>2. kept \in Nat
  BY DEF TypeOK
<1>3. ASSUME NEW e \in Devices, NEW j \in DOMAIN pending'[e]
      PROVE  Sound(pending[e][j].val, Placed(pending[e][j].node))'
  <2>1. /\ j \in DOMAIN pending[e]
        /\ pending'[e][j].node = pending[e][j].node
        /\ pending'[e][j].val = pending[e][j].val
    BY <1>1, <1>2, <1>3, UnsentType DEF TypeOK
  <2> QED
    BY <2>1, OldEntrySound
<1>4. UNCHANGED <<tree, feed, snap>>
  BY DEF ConnectionLost, Reconnect
<1> QED
  BY <1>3, <1>4, MovesSound DEF AllSound

\* A completion shortens a queue and brings the device's cache up to date.
LEMMA CompletionSound ==
    ASSUME ListInv, [Next]_vars, NEW d \in Devices, Completion(d)
    PROVE  AllSound'
<1> USE DEF ListInv, FoundInv, TypeInv
<1>1. /\ pending' = [pending EXCEPT ![d] = Tail(@)]
      /\ feed' = [feed EXCEPT ![d] = tree[ProductsNode]]
      /\ UNCHANGED <<tree, snap>>
      /\ pending[d] # <<>>
  BY DEF Completion, Acknowledge, CatchUp
<1>2. pending[d] \in Seq(Writes) /\ ProductsNode \in Nodes
  BY DEF TypeOK, Nodes, ListNodes
<1>3. ASSUME NEW e \in Devices, NEW j \in DOMAIN pending'[e]
      PROVE  Sound(pending[e][j].val, Placed(pending[e][j].node))'
  <2>1. CASE e = d
    <3>1. j + 1 \in DOMAIN pending[d] /\ pending'[e][j] = pending[d][j + 1]
      BY <1>1, <1>2, <1>3, <2>1 DEF TypeOK
    <3> QED
      BY <2>1, <3>1, OldEntrySound
  <2>2. CASE e # d
    <3>1. pending'[e] = pending[e]
      BY <1>1, <2>2 DEF TypeOK
    <3> QED
      BY <1>3, <3>1, OldEntrySound
  <2> QED
    BY <2>1, <2>2
<1>4. \A e \in Devices : Sound(feed'[e], Placed(ProductsNode))
  BY <1>1, <1>2 DEF AllSound, TypeOK
<1>5. \A p \in Products : \A h \in ReadHeads : Sound(snap'[p][h], Placed(Target(p, h)))
  BY <1>1 DEF AllSound
<1>6. \A n \in Nodes : Sound(tree'[n], Placed(n))
  BY <1>1 DEF AllSound
<1> QED
  BY <1>3, <1>4, <1>5, <1>6, MovesSound

\* The writes a dead process leaves behind are dropped.
LEMMA LoseQueueSound ==
    ASSUME ListInv, [Next]_vars, NEW d \in Devices, LoseQueue(d)
    PROVE  AllSound'
<1>1. pending' = [pending EXCEPT ![d] = <<>>] /\ UNCHANGED <<tree, feed, snap>>
  BY DEF LoseQueue, Drop
<1>2. ASSUME NEW e \in Devices, NEW j \in DOMAIN pending'[e]
      PROVE  Sound(pending[e][j].val, Placed(pending[e][j].node))'
  <2>1. pending'[e] = pending[e]
    BY <1>1, <1>2 DEF ListInv, FoundInv, TypeInv, TypeOK
  <2> QED
    BY <1>2, <2>1, OldEntrySound
<1>3. \A p \in Products : \A h \in ReadHeads : Sound(snap'[p][h], Placed(Target(p, h)))
  BY <1>1 DEF ListInv, AllSound
<1> QED
  BY <1>1, <1>2, <1>3, MovesSound DEF ListInv, AllSound

\* Every action keeps every content sound.
LEMMA NextListInv == ListInv /\ [Next]_vars => ListInv'
<1> SUFFICES ASSUME ListInv, [Next]_vars
             PROVE  AllSound'
  BY NextFoundInv DEF ListInv
<1>1. ASSUME NEW p \in Products, Publication(p)
      PROVE  AllSound'
  <2>1. CASE Begin(p) \/ UserMissing(p)
    BY <2>1, QuietSound DEF Begin, UserMissing, dbVars
  <2>2. ASSUME NEW h \in ReadHeads, Raise(p, h)
        PROVE  AllSound'
    BY <2>2, RaiseSound
  <2>3. CASE UserFound(p)
    BY <2>3, UserFoundSound
  <2>4. CASE NoCategoryException(p)
    BY <2>4, QuietSound DEF NoCategoryException, Crash
  <2>5. ASSUME NEW h \in ListHeads, ListRead(p, h)
        PROVE  AllSound'
    BY <2>5, ListReadSound
  <2> QED
    BY <1>1, <2>1, <2>2, <2>3, <2>4, <2>5 DEF Publication
<1>2. ASSUME NEW d \in Devices, Device(d)
      PROVE  AllSound'
  <2>1. CASE Server(d)
    BY <2>1, ServerSound
  <2>2. CASE Completion(d)
    BY <2>2, CompletionSound
  <2>3. CASE Kill(d)
    BY <2>3, QuietSound DEF Kill, Crash
  <2>4. CASE LoseQueue(d)
    BY <2>4, LoseQueueSound
  <2>5. CASE ConnectionLost(d)
    BY <2>5, ConnectionLostSound
  <2>6. CASE Refresh(d)
    <3>1. \A e \in Devices : feed'[e] = feed[e] \/ feed'[e] = tree[ProductsNode]
      BY <2>6 DEF Refresh, Push, Relaunch, CatchUp, ListInv, FoundInv, TypeInv, TypeOK
    <3>2. UNCHANGED <<tree, pending, snap>>
      BY <2>6 DEF Refresh, Push, Relaunch, CatchUp, pubVars, listens
    <3> QED
      BY <3>1, <3>2, QuietSound
  <2> QED
    BY <1>2, <2>1, <2>2, <2>3, <2>4, <2>5, <2>6 DEF Device
<1>3. CASE UNCHANGED vars
  BY <1>3, QuietSound DEF vars, dbVars, pubVars, listens
<1> QED
  BY <1>1, <1>2, <1>3 DEF Next

\* Before anything is published every content is empty.
LEMMA InitListInv == Init => ListInv
<1> SUFFICES ASSUME Init
             PROVE  AllSound
  BY InitFoundInv DEF ListInv
<1>1. \A n \in Nodes : tree[n] = Absent \/ tree[n] = Record
  BY DEF Init, DbInit
<1>2. \A d \in Devices : pending[d] = <<>> /\ feed[d] = tree[ProductsNode]
  BY DEF Init, DbInit
<1>3. \A p \in Products : \A h \in ReadHeads : snap[p][h] = Absent
  BY DEF Init
<1>4. ProductsNode \in Nodes
  BY DEF Nodes, ListNodes
<1> QED
  BY <1>1, <1>2, <1>3, <1>4, EmptySound DEF AllSound

LEMMA ListInvHolds == Spec => []ListInv
BY InitListInv, NextListInv, PTL DEF Spec

-----------------------------------------------------------------------------
(* The theorems *)

\* A product is only ever shown by the lists insertProduct publishes it to:
\* all products, its category, its account; and only if it has a category.
THEOREM FiledCorrectlyCorrect == Spec => []FiledCorrectly
<1>1. ListInv => FiledCorrectly
  <2> SUFFICES ASSUME ListInv, NEW n \in ListNodes, NEW q \in Listed(n)
               PROVE  n \in Touched(q) /\ form[q].cat # NoCategory
    BY DEF FiledCorrectly
  <2>1. q \in Placed(n)
    BY DEF ListInv, AllSound, Sound, Listed, Nodes
  <2> QED
    BY <2>1, NamesAssumption DEF Placed, Touched, Target, ReadHeads, ListHeads
<1> QED
  BY <1>1, ListInvHolds, PTL

\* No list shows a product twice, however its writes were read back, resent or
\* extended by others.
THEOREM NoDuplicatesCorrect == Spec => []NoDuplicates
<1>1. ListInv => NoDuplicates
  BY DEF ListInv, AllSound, Sound, NoDuplicates, Nodes
<1> QED
  BY <1>1, ListInvHolds, PTL

=============================================================================
