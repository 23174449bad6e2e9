--------------------------- MODULE CatalogueProofs ---------------------------
(***************************************************************************)
(* Publishing implements the catalogue, and what was reported as added to   *)
(* an unshared list stays in it.  On such a list there is one writer at a   *)
(* time, so every copy of it that counts follows the server's: the snapshot *)
(* a callback appends to is the list, so is the cache it was taken from     *)
(* (unless the device has reconnected, when a read of another list shares   *)
(* it), and the one queued write is the list or the list with its own       *)
(* product behind.                                                          *)
(***************************************************************************)
EXTENDS ProductListProofs

\* A queued write belongs to a head that waits for it, on the head's device.
QueueOwned ==
    \A d \in Devices : \A i \in DOMAIN pending[d] :
        LET p == pending[d][i].by[1]  h == pending[d][i].by[2] IN
        form[p].dev = d /\ head[p][h] = "queued" /\ pending[d][i].node = Target(p, h)

\* No head has two writes in a queue.
QueueOnce ==
    \A d \in Devices : \A i, j \in DOMAIN pending[d] :
        pending[d][i].by = pending[d][j].by => i = j

\* Two publications at work at the same time share every list they both touch.
Apart ==
    \A p, q \in Products :
        p # q /\ Active(p) /\ Active(q) => Touched(p) \cap Touched(q) \subseteq shared

\* A write queued for an unshared list repeats it, or puts its product behind.
Follows(w) ==
    \/ w.val.list = tree[w.node].list
    \/ /\ w.val.list = Append(tree[w.node].list, w.by[1])
       /\ w.by[1] \notin Listed(w.node)
       /\ w.fate # "ok"

QueueFollows ==
    \A d \in Devices : \A i \in DOMAIN pending[d] :
        pending[d][i].node \in ListNodes \ shared => Follows(pending[d][i])

\* A snapshot of an unshared list is the list.
SnapFollows ==
    \A p \in Products : \A h \in ReadHeads :
        head[p][h] = "raised" /\ Target(p, h) \notin shared
            => snap[p][h].list = tree[Target(p, h)].list

\* So is the cache of "products" from the event of the user read until the
\* event of the list read, on a device that has "products" since it reconnected.
FeedFollows ==
    ProductsNode \notin shared => \A p \in Products :
        /\ form[p].dev \notin behind
        /\ head[p]["user"] = "raised" \/ head[p]["products"] = "asked"
        => feed[form[p].dev].list = tree[ProductsNode].list

\* A read sent again ahead of "products" has no answer yet, and its device has
\* not had "products" since.
AheadIsBehind ==
    \A p \in Products : \A h \in ReadHeads :
        <<p, h>> \in ahead => <<p, h>> \in Listens(form[p].dev) /\ form[p].dev \in behind

CatalogueInv ==
    /\ OrderInv
    /\ ListInv
    /\ QueueOwned
    /\ QueueOnce
    /\ Apart
    /\ QueueFollows
    /\ SnapFollows
    /\ FeedFollows
    /\ AheadIsBehind
    /\ UnsharedKeepsAll

-----------------------------------------------------------------------------
(* Who is at work *)

\* A publication is only at work after a step if it was before, or begins.
LEMMA ActiveBefore ==
    ASSUME TypeInv, [Next]_vars, NEW q \in Products, Active(q)', ~ Begin(q)
    PROVE  Active(q)
<1> USE DEF TypeInv, TypeOK
<1>1. PICK g \in Heads : head'[q][g] \in Working
  BY DEF Active
<1>2. ReadHeads \subseteq Heads /\ ListHeads \subseteq ReadHeads
  BY ReadHeadsAreHeads
<1>3. ASSUME NEW p \in Products, Publication(p)
      PROVE  Active(q)
  <2>1. CASE Begin(p)
    <3>1. p # q
      BY <2>1
    <3> QED
      BY <1>1, <2>1, <3>1 DEF Begin, Active
  <2>2. ASSUME NEW h \in ReadHeads, Raise(p, h)
        PROVE  Active(q)
    BY <1>1, <1>2, <2>2 DEF Raise, Active, Working
  <2>3. CASE UserFound(p)
    BY <1>1, <2>3 DEF UserFound, Active, Working, Heads
  <2>4. CASE UserMissing(p)
    BY <1>1, <2>4 DEF UserMissing, Active, Working
  <2>5. CASE NoCategoryException(p)
    BY <1>1, <2>5 DEF NoCategoryException, Crash, Active, Working
  <2>6. ASSUME NEW h \in ListHeads, ListRead(p, h)
        PROVE  Active(q)
    BY <1>1, <1>2, <2>6 DEF ListRead, WriteList, Active, Working
  <2> QED
    BY <1>3, <2>1, <2>2, <2>3, <2>4, <2>5, <2>6 DEF Publication
<1>4. ASSUME NEW d \in Devices, Device(d)
      PROVE  Active(q)
  <2>1. CASE Server(d) \/ ConnectionLost(d) \/ Refresh(d)
    BY <1>1, <2>1 DEF Server, ConnectionLost, Refresh, pubVars, listens, Active
  <2>2. CASE Completion(d)
    BY <1>1, <2>2 DEF Completion, Active, Working
  <2>3. CASE Kill(d)
    BY <1>1, <2>3 DEF Kill, Crash, Active, Working
  <2>4. CASE LoseQueue(d)
    BY <1>1, <2>4 DEF LoseQueue, Active, Working
  <2> QED
    BY <1>4, <2>1, <2>2, <2>3, <2>4 DEF Device
<1>5. CASE UNCHANGED vars
  BY <1>1, <1>5 DEF vars, pubVars, listens, Active
<1> QED
  BY <1>3, <1>4, <1>5 DEF Next

\* No list stops being shared.
LEMMA SharedGrows ==
    ASSUME [Next]_vars
    PROVE  /\ shared \subseteq shared'
           /\ \E met \in SUBSET ListNodes : shared' = shared \cup met
<1>1. ASSUME NEW p \in Products, Publication(p)
      PROVE  \E met \in SUBSET ListNodes : shared' = shared \cup met
  <2>1. CASE Begin(p)
    <3>1. UNION {Touched(p) \cap Touched(q) : q \in {r \in Products : Active(r)}}
              \subseteq ListNodes
      BY DEF Touched
    <3> QED
      BY <2>1, <3>1 DEF Begin
  <2>2. ASSUME NEW h \in ReadHeads, Raise(p, h)
        PROVE  shared' = shared \/ shared' = shared \cup {ProductsNode}
    BY <2>2 DEF Raise
  <2>3. ASSUME ~ Begin(p), \A h \in ReadHeads : ~ Raise(p, h)
        PROVE  UNCHANGED shared
    BY <1>1, <2>3 DEF Publication, UserFound, UserMissing, NoCategoryException,
       Crash, ListRead, WriteList
  <2>4. {} \in SUBSET ListNodes /\ {ProductsNode} \in SUBSET ListNodes
    BY DEF ListNodes
  <2>5. CASE UNCHANGED shared
    <3>1. shared' = shared \cup {}
      BY <2>5
    <3> QED
      BY <2>4, <3>1
  <2>6. CASE shared' = shared \cup {ProductsNode}
    BY <2>4, <2>6
  <2> QED
    BY <2>1, <2>2, <2>3, <2>5, <2>6
<1>2. ASSUME NEW d \in Devices, Device(d)
      PROVE  UNCHANGED shared
  BY <1>2 DEF Device, Server, Completion, Kill, Crash, LoseQueue, ConnectionLost,
     Refresh, pubVars, listens
<1>3. ASSUME UNCHANGED vars
      PROVE  UNCHANGED shared
  BY <1>3 DEF vars, pubVars, listens
<1>4. ASSUME UNCHANGED shared
      PROVE  \E met \in SUBSET ListNodes : shared' = shared \cup met
  <2>1. shared' = shared \cup {} /\ {} \in SUBSET ListNodes
    BY <1>4
  <2> QED
    BY <2>1
<1> QED
  BY <1>1, <1>2, <1>3, <1>4 DEF Next

\* The lists two publications at work both touch are shared.
LEMMA NextApart ==
    ASSUME CatalogueInv, [Next]_vars
    PROVE  Apart'
<1> SUFFICES ASSUME NEW p \in Products, NEW q \in Products,
                    p # q, Active(p)', Active(q)'
             PROVE  Touched(p) \cap Touched(q) \subseteq shared'
  BY FormStays DEF Apart, Touched
<1>1. ASSUME NEW r \in Products, NEW s \in Products, r # s, Begin(r), Active(s)
      PROVE  Touched(r) \cap Touched(s) \subseteq shared'
  BY <1>1 DEF Begin
<1>2. ASSUME Begin(p), Begin(q)
      PROVE  FALSE
  <2>1. /\ head[q]["user"] = "none" /\ head'[q]["user"] = "asked"
        /\ head' = [head EXCEPT ![p]["user"] = "asked"]
    BY <1>2 DEF Begin, CatalogueInv, OrderInv, TypeInv, TypeOK, Heads
  <2> QED
    BY <2>1 DEF CatalogueInv, OrderInv, TypeInv, TypeOK
<1>3. Active(p) \/ Begin(p)
  BY ActiveBefore DEF CatalogueInv, OrderInv
<1>4. Active(q) \/ Begin(q)
  BY ActiveBefore DEF CatalogueInv, OrderInv
<1>5. CASE Active(p) /\ Active(q)
  BY <1>5, SharedGrows DEF CatalogueInv, Apart
<1>6. CASE Begin(p) /\ Active(q)
  BY <1>1, <1>6
<1>7. CASE Active(p) /\ Begin(q)
  BY <1>1, <1>7
<1> QED
  BY <1>2, <1>3, <1>4, <1>5, <1>6, <1>7

-----------------------------------------------------------------------------
(* One writer per unshared list *)

\* The list a head works on is one its product touches.
LEMMA HeadTouches ==
    ASSUME TypeInv, NEW p \in Products, NEW h \in Heads, Target(p, h) \in ListNodes
    PROVE  Target(p, h) \in Touched(p) /\ h \in ReadHeads
BY ProductsAreNoLists DEF Target, Touched, Heads, ReadHeads, ListHeads

\* A queued write to a list is that of a product at work that touches it.
LEMMA Writer ==
    ASSUME CatalogueInv, NEW d \in Devices, NEW i \in DOMAIN pending[d],
           pending[d][i].node \in ListNodes
    PROVE  \E p \in Products : \E h \in ReadHeads :
              /\ pending[d][i].by = <<p, h>>
              /\ form[p].dev = d
              /\ head[p][h] = "queued"
              /\ Active(p)
              /\ Target(p, h) = pending[d][i].node
              /\ pending[d][i].node \in Touched(p)
              /\ form[p].cat \in Categories
<1> USE DEF CatalogueInv, OrderInv
<1>1. pending[d][i] \in Writes
  BY EntryType DEF TypeInv
<1>2. PICK p \in Products, h \in Heads : pending[d][i].by = <<p, h>>
  BY <1>1 DEF Writes
<1>3. pending[d][i].by[1] = p /\ pending[d][i].by[2] = h
  BY <1>2
<1>4. form[p].dev = d /\ head[p][h] = "queued" /\ pending[d][i].node = Target(p, h)
  BY <1>3 DEF QueueOwned
<1>5. Active(p)
  BY <1>4 DEF Active, Working
<1>6. Target(p, h) \in Touched(p) /\ h \in ReadHeads
  BY <1>4, HeadTouches
<1>7. form[p].cat \in Categories
  BY <1>3 DEF TypeInv, Categorized
<1> QED
  BY <1>2, <1>4, <1>5, <1>6, <1>7

\* Two products at work that touch the same unshared list are one.
LEMMA OneAtWork ==
    ASSUME CatalogueInv, NEW p \in Products, NEW q \in Products, Active(p), Active(q),
           NEW n \in Touched(p) \cap Touched(q), n \notin shared
    PROVE  p = q
BY DEF CatalogueInv, Apart

\* An unshared list has at most one queued write, over all devices.
LEMMA OneWrite ==
    ASSUME CatalogueInv, NEW d \in Devices, NEW i \in DOMAIN pending[d],
           NEW e \in Devices, NEW j \in DOMAIN pending[e],
           pending[d][i].node \in ListNodes \ shared,
           pending[e][j].node = pending[d][i].node
    PROVE  d = e /\ i = j
<1>1. PICK p \in Products, h \in ReadHeads :
        /\ pending[d][i].by = <<p, h>>
        /\ form[p].dev = d
        /\ Active(p)
        /\ Target(p, h) = pending[d][i].node
        /\ pending[d][i].node \in Touched(p)
        /\ form[p].cat \in Categories
  BY Writer
<1>2. PICK q \in Products, g \in ReadHeads :
        /\ pending[e][j].by = <<q, g>>
        /\ form[q].dev = e
        /\ Active(q)
        /\ Target(q, g) = pending[e][j].node
        /\ pending[e][j].node \in Touched(q)
  BY Writer
<1>3. p = q
  BY <1>1, <1>2, OneAtWork
<1>4. h = g
  BY <1>1, <1>2, <1>3, TargetsDiffer DEF CatalogueInv, OrderInv, TypeInv
<1> QED
  BY <1>1, <1>2, <1>3, <1>4 DEF CatalogueInv, QueueOnce

\* While a head reads an unshared list nobody's write to it is queued.
LEMMA NoWriteWhileReading ==
    ASSUME CatalogueInv, NEW p \in Products, NEW h \in ReadHeads,
           head[p][h] \in {"asked", "raised"},
           NEW n \in ListNodes \ shared, n = Target(p, h)
    PROVE  \A d \in Devices : \A i \in DOMAIN pending[d] : pending[d][i].node # n
<1> SUFFICES ASSUME NEW d \in Devices, NEW i \in DOMAIN pending[d], pending[d][i].node = n
             PROVE  FALSE
  OBVIOUS
<1>1. PICK q \in Products, g \in ReadHeads :
        /\ head[q][g] = "queued"
        /\ Active(q)
        /\ Target(q, g) = n
        /\ n \in Touched(q)
        /\ form[q].cat \in Categories
  BY Writer
<1>2. Active(p) /\ n \in Touched(p)
  BY ReadHeadsAreHeads, HeadTouches DEF Active, Working, CatalogueInv, OrderInv
<1>3. p = q
  BY <1>1, <1>2, OneAtWork
<1>4. g = h
  BY <1>1, <1>3, TargetsDiffer DEF CatalogueInv, OrderInv, TypeInv
<1> QED
  BY <1>1, <1>3, <1>4

\* Nor, until the event of the list read, one to an unshared "products".
LEMMA NoWriteAhead ==
    ASSUME CatalogueInv, NEW p \in Products,
           head[p]["user"] \in {"asked", "raised"} \/ head[p]["products"] = "asked",
           ProductsNode \notin shared, NEW n \in Touched(p),
           n = ProductsNode \/ head[p]["user"] = "asked"
    PROVE  \A d \in Devices : \A i \in DOMAIN pending[d] : pending[d][i].node # n
<1> SUFFICES ASSUME NEW d \in Devices, NEW i \in DOMAIN pending[d], pending[d][i].node = n
             PROVE  FALSE
  OBVIOUS
<1>0. n \in ListNodes /\ ProductsNode \in ListNodes /\ ProductsNode \in Touched(p)
  BY DEF Touched, ListNodes
<1>1. PICK q \in Products, g \in ReadHeads :
        /\ head[q][g] = "queued"
        /\ Active(q)
        /\ Target(q, g) = n
        /\ form[q].cat \in Categories
  BY <1>0, Writer
<1>2. ProductsNode \in Touched(q)
  BY DEF Touched, ListNodes
<1>3. Active(p)
  BY DEF Active, Working, Heads
<1>4. p = q
  BY <1>0, <1>1, <1>2, <1>3, OneAtWork
<1>5. CASE head[p]["user"] \in {"asked", "raised"}
  <2>1. p \notin Found
    BY <1>5 DEF Found
  <2>2. head[p][g] \in {"none", "asked", "raised"}
    BY <1>5, <2>1, ReadHeadsAreHeads DEF CatalogueInv, ListInv, FoundInv, OnlyFound
  <2> QED
    BY <1>1, <1>4, <2>2
<1>6. CASE n = ProductsNode /\ head[p]["products"] = "asked"
  <2>1. g = "products"
    BY <1>1, <1>6, NamesAssumption
       DEF Target, ReadHeads, ListHeads, CatalogueInv, OrderInv, TypeInv, TypeOK, Forms
  <2> QED
    BY <1>1, <1>4, <1>6, <2>1
<1> QED
  BY <1>5, <1>6

-----------------------------------------------------------------------------
(* The queues belong to waiting heads *)

\* The queues hold the same writes, their fates apart, and waiting heads wait.
LEMMA SameOwned ==
    ASSUME CatalogueInv, [Next]_vars,
           \A d \in Devices : DOMAIN pending'[d] = DOMAIN pending[d],
           \A d \in Devices : \A i \in DOMAIN pending[d] :
              pending'[d][i].by = pending[d][i].by /\ pending'[d][i].node = pending[d][i].node,
           \A p \in Products : \A h \in Heads :
              head[p][h] = "queued" => head'[p][h] = "queued"
    PROVE  QueueOwned' /\ QueueOnce'
<1>1. ASSUME NEW d \in Devices, NEW i \in DOMAIN pending'[d]
      PROVE  /\ form'[pending'[d][i].by[1]].dev = d
             /\ head'[pending'[d][i].by[1]][pending'[d][i].by[2]] = "queued"
             /\ pending'[d][i].node = Target(pending[d][i].by[1], pending[d][i].by[2])'
  <2>1. i \in DOMAIN pending[d]
    BY <1>1
  <2>2. pending[d][i] \in Writes
    BY <2>1, EntryType DEF CatalogueInv, OrderInv, TypeInv
  <2>3. PICK p \in Products, h \in Heads : pending[d][i].by = <<p, h>>
    BY <2>2 DEF Writes
  <2>4. pending'[d][i].by = <<p, h>> /\ pending[d][i].by[1] = p /\ pending[d][i].by[2] = h
    BY <2>1, <2>3
  <2>5. form[p].dev = d /\ head[p][h] = "queued" /\ pending[d][i].node = Target(p, h)
    BY <2>1, <2>4 DEF CatalogueInv, QueueOwned
  <2>6. head'[p][h] = "queued" /\ form' = form /\ pending'[d][i].node = Target(p, h)
    BY <2>1, <2>5, FormStays
  <2> QED
    BY <2>4, <2>5, <2>6 DEF Target
<1>2. QueueOwned'
  BY <1>1 DEF QueueOwned
<1>3. QueueOnce'
  BY DEF CatalogueInv, QueueOnce
<1> QED
  BY <1>2, <1>3

\* A callback queues writes of one product for heads that did not wait before.
LEMMA EnqueueOwned ==
    ASSUME CatalogueInv, [Next]_vars, NEW p \in Products, NEW puts \in Seq(Writes),
           Enqueue(form[p].dev, puts),
           \A k \in DOMAIN puts :
              /\ puts[k].by[1] = p
              /\ head[p][puts[k].by[2]] # "queued"
              /\ head'[p][puts[k].by[2]] = "queued"
              /\ puts[k].node = Target(p, puts[k].by[2]),
           \A k, l \in DOMAIN puts : puts[k].by = puts[l].by => k = l,
           \A q \in Products : \A h \in Heads :
              head[q][h] = "queued" => head'[q][h] = "queued"
    PROVE  QueueOwned' /\ QueueOnce'
<1> USE DEF CatalogueInv, OrderInv, TypeInv
<1>1. PICK d \in Devices : d = form[p].dev
  BY DEF TypeOK, Forms
<1>2. pending' = [pending EXCEPT ![d] = @ \o puts] /\ pending \in [Devices -> Seq(Writes)]
  BY <1>1 DEF Enqueue, TypeOK
<1>3. /\ pending'[d] = pending[d] \o puts /\ pending[d] \in Seq(Writes)
      /\ \A e \in Devices \ {d} : pending'[e] = pending[e]
  BY <1>2
<1>4. /\ \A i \in DOMAIN pending[d] : pending'[d][i] = pending[d][i]
      /\ \A k \in DOMAIN puts : pending'[d][Len(pending[d]) + k] = puts[k]
      /\ \A i \in DOMAIN pending'[d] :
            \/ i \in DOMAIN pending[d]
            \/ \E k \in DOMAIN puts : i = Len(pending[d]) + k
  <2>1. /\ DOMAIN pending[d] = 1..Len(pending[d]) /\ Len(pending[d]) \in Nat
        /\ DOMAIN puts = 1..Len(puts) /\ Len(puts) \in Nat
        /\ DOMAIN pending'[d] = 1..(Len(pending[d]) + Len(puts))
    BY <1>3
  <2>2. \A i \in DOMAIN pending[d] : pending'[d][i] = pending[d][i]
    BY <1>3, <2>1
  <2>3. \A k \in DOMAIN puts : pending'[d][Len(pending[d]) + k] = puts[k]
    BY <1>3, <2>1
  <2>4. ASSUME NEW i \in DOMAIN pending'[d], i \notin DOMAIN pending[d]
        PROVE  \E k \in DOMAIN puts : i = Len(pending[d]) + k
    <3>1. PICK m \in Nat, l \in Nat : m = Len(pending[d]) /\ l = Len(puts)
      BY <2>1
    <3>2. i \in 1..(m + l) /\ i \notin 1..m /\ DOMAIN puts = 1..l
      BY <2>1, <2>4, <3>1
    <3>3. i - m \in 1..l /\ i = m + (i - m)
      BY <3>2
    <3> QED
      BY <3>1, <3>2, <3>3
  <2> QED
    BY <2>2, <2>3, <2>4
<1>5. form' = form /\ \A q, h : Target(q, h)' = Target(q, h)
  BY FormStays DEF Target
<1>6. ASSUME NEW e \in Devices, NEW i \in DOMAIN pending[e],
             NEW q, q = pending[e][i].by[1], NEW h, h = pending[e][i].by[2]
      PROVE  /\ q \in Products /\ h \in Heads /\ form[q].dev = e /\ head[q][h] = "queued"
             /\ head'[q][h] = "queued" /\ pending[e][i].node = Target(q, h)
  <2>1. pending[e][i] \in Writes
    BY EntryType
  <2>2. q \in Products /\ h \in Heads
    BY <1>6, <2>1 DEF Writes
  <2> QED
    BY <1>6, <2>2 DEF QueueOwned
<1>7. ASSUME NEW e \in Devices, NEW i \in DOMAIN pending'[e],
             NEW q, q = pending'[e][i].by[1], NEW h, h = pending'[e][i].by[2]
      PROVE  form[q].dev = e /\ head'[q][h] = "queued" /\ pending'[e][i].node = Target(q, h)
  <2>1. CASE e # d \/ i \in DOMAIN pending[d]
    <3>1. i \in DOMAIN pending[e] /\ pending'[e][i] = pending[e][i]
      BY <1>3, <1>4, <1>7, <2>1
    <3> QED
      BY <1>6, <1>7, <3>1
  <2>2. CASE e = d /\ i \notin DOMAIN pending[d]
    <3>1. PICK k \in DOMAIN puts : pending'[e][i] = puts[k]
      BY <1>4, <1>7, <2>2
    <3>2. q = p /\ h = puts[k].by[2]
      BY <1>7, <3>1
    <3> QED
      BY <1>1, <2>2, <3>1, <3>2
  <2> QED
    BY <2>1, <2>2
<1>8. QueueOwned'
  <2> SUFFICES ASSUME NEW e \in Devices, NEW i \in DOMAIN pending'[e]
               PROVE  /\ form'[pending'[e][i].by[1]].dev = e
                      /\ head'[pending'[e][i].by[1]][pending'[e][i].by[2]] = "queued"
                      /\ pending'[e][i].node = Target(pending[e][i].by[1], pending[e][i].by[2])'
    BY DEF QueueOwned
  <2>1. PICK q, h : q = pending'[e][i].by[1] /\ h = pending'[e][i].by[2]
    OBVIOUS
  <2>2. form[q].dev = e /\ head'[q][h] = "queued" /\ pending'[e][i].node = Target(q, h)
    BY <1>7, <2>1
  <2> QED
    BY <1>5, <2>1, <2>2 DEF Target
<1>9. ASSUME NEW e \in Devices, NEW i \in DOMAIN pending'[e], NEW j \in DOMAIN pending'[e],
             pending'[e][i].by = pending'[e][j].by
      PROVE  i = j
  <2>1. CASE e # d
    BY <1>3, <1>9, <2>1 DEF QueueOnce
  <2>2. ASSUME e = d, NEW a \in DOMAIN pending[d], NEW k \in DOMAIN puts
        PROVE  pending[d][a].by # puts[k].by
    <3>1. PICK q, h : q = pending[d][a].by[1] /\ h = pending[d][a].by[2]
      OBVIOUS
    <3>2. head[q][h] = "queued"
      BY <1>6, <3>1
    <3> QED
      BY <3>1, <3>2
  <2>3. CASE e = d /\ i \in DOMAIN pending[d] /\ j \in DOMAIN pending[d]
    BY <1>4, <1>9, <2>3 DEF QueueOnce
  <2>4. CASE e = d /\ i \in DOMAIN pending[d] /\ j \notin DOMAIN pending[d]
    BY <1>4, <1>9, <2>2, <2>4
  <2>5. CASE e = d /\ i \notin DOMAIN pending[d] /\ j \in DOMAIN pending[d]
    BY <1>4, <1>9, <2>2, <2>5
  <2>6. CASE e = d /\ i \notin DOMAIN pending[d] /\ j \notin DOMAIN pending[d]
    <3>1. PICK k \in DOMAIN puts : i = Len(pending[d]) + k
      BY <1>4, <1>9, <2>6
    <3>2. PICK l \in DOMAIN puts : j = Len(pending[d]) + l
      BY <1>4, <1>9, <2>6
    <3>3. k = l
      BY <1>4, <1>9, <2>6, <3>1, <3>2
    <3> QED
      BY <3>1, <3>2, <3>3
  <2> QED
    BY <2>1, <2>3, <2>4, <2>5, <2>6
<1> QED
  BY <1>8, <1>9 DEF QueueOnce

\* The two callbacks that write: what they queue, and for which heads.
LEMMA CallbackOwned ==
    ASSUME CatalogueInv, [Next]_vars, NEW p \in Products,
           UserFound(p) \/ \E h \in ListHeads : ListRead(p, h)
    PROVE  QueueOwned' /\ QueueOnce'
<1> USE DEF CatalogueInv, OrderInv, TypeInv
<1>1. ReadHeads \subseteq Heads /\ ListHeads \subseteq ReadHeads /\ "user" \in ReadHeads
  BY ReadHeadsAreHeads DEF ReadHeads
<1>2. CASE UserFound(p)
  <2>1. PICK n, c : n = form[p].owner /\ c = snap[p]["user"]
    OBVIOUS
  <2>2. n \in Users /\ c \in Content /\ n = Target(p, "user") /\ p = Target(p, "id")
    BY <1>1, <2>1 DEF TypeOK, Forms, Target
  <2>3. PICK puts : puts = << Put(<<p, "id">>, p, Record), Put(<<p, "user">>, n, Listing(c, p)) >>
    OBVIOUS
  <2>4. puts \in Seq(Writes)
    <3>1. Put(<<p, "id">>, p, Record) \in Writes
      BY ConstantContents DEF Put, Writes, Heads, Nodes, Fates
    <3>2. Put(<<p, "user">>, n, Listing(c, p)) \in Writes
      BY <2>2, ListingType DEF Put, Writes, Heads, Nodes, ListNodes, Fates
    <3> QED
      BY <2>3, <3>1, <3>2
  <2>5. Enqueue(form[p].dev, puts)
    BY <1>2, <2>1, <2>3 DEF UserFound
  <2>6. head[p]["user"] = "raised" /\ head[p]["id"] = "none"
        /\ head[p]["products"] = "none" /\ head[p]["category"] = "none"
    <3>1. head[p]["user"] = "raised" /\ p \notin Found
      BY <1>2 DEF UserFound, Found
    <3> QED
      BY <3>1 DEF ListInv, FoundInv, OnlyFound, Heads
  <2>7. head'[p]["user"] = "queued" /\ head'[p]["id"] = "queued"
        /\ \A q \in Products : q # p => head'[q] = head[q]
    BY <1>2 DEF UserFound, TypeOK
  <2>8. /\ puts[1].by = <<p, "id">> /\ puts[1].node = p
        /\ puts[2].by = <<p, "user">> /\ puts[2].node = n
        /\ DOMAIN puts = {1, 2}
    BY <2>3 DEF Put
  <2>9. \A k \in DOMAIN puts :
          /\ puts[k].by[1] = p
          /\ head[p][puts[k].by[2]] # "queued"
          /\ head'[p][puts[k].by[2]] = "queued"
          /\ puts[k].node = Target(p, puts[k].by[2])
    BY <2>2, <2>6, <2>7, <2>8
  <2>10. \A k, l \in DOMAIN puts : puts[k].by = puts[l].by => k = l
    BY <2>8
  <2>11. \A q \in Products : \A h \in Heads : head[q][h] = "queued" => head'[q][h] = "queued"
    BY <2>6, <2>7 DEF Heads
  <2> QED
    BY <2>4, <2>5, <2>9, <2>10, <2>11, EnqueueOwned
<1>3. ASSUME NEW h \in ListHeads, ListRead(p, h)
      PROVE  QueueOwned' /\ QueueOnce'
  <2>1. PICK n, c : n = Target(p, h) /\ c = snap[p][h]
    OBVIOUS
  <2>2. /\ h \in Heads /\ head[p][h] = "raised" /\ c \in Content /\ n \in Nodes
    <3>1. h \in Heads /\ head[p][h] = "raised"
      BY <1>1, <1>3 DEF ListRead, WriteList
    <3>2. form[p].cat \in Categories
      BY <3>1, CategoryOfHead
    <3> QED
      BY <1>1, <2>1, <3>1, <3>2, TargetType DEF TypeOK
  <2>3. PICK puts : puts = << Put(<<p, h>>, n, Listing(c, p)) >>
    OBVIOUS
  <2>4. puts \in Seq(Writes)
    <3>1. Put(<<p, h>>, n, Listing(c, p)) \in Writes
      BY <2>2, ListingType DEF Put, Writes, Fates
    <3> QED
      BY <2>3, <3>1
  <2>5. Enqueue(form[p].dev, puts)
    BY <1>3, <2>1, <2>3 DEF ListRead, WriteList
  <2>6. head' = [head EXCEPT ![p][h] = "queued"]
    BY <1>3 DEF ListRead, WriteList
  <2>7. puts[1].by = <<p, h>> /\ puts[1].node = n /\ DOMAIN puts = {1}
    BY <2>3 DEF Put
  <2>8. head'[p][h] = "queued"
    BY <2>2, <2>6 DEF TypeOK
  <2>9. \A k \in DOMAIN puts :
          /\ puts[k].by[1] = p
          /\ head[p][puts[k].by[2]] # "queued"
          /\ head'[p][puts[k].by[2]] = "queued"
          /\ puts[k].node = Target(p, puts[k].by[2])
    BY <2>1, <2>2, <2>7, <2>8
  <2>10. \A k, l \in DOMAIN puts : puts[k].by = puts[l].by => k = l
    BY <2>7
  <2>11. \A q \in Products : \A g \in Heads : head[q][g] = "queued" => head'[q][g] = "queued"
    BY <2>6 DEF TypeOK
  <2> QED
    BY <2>4, <2>5, <2>9, <2>10, <2>11, EnqueueOwned
<1> QED
  BY <1>2, <1>3

\* A completion takes the oldest write out of its queue, and with it the only
\* one of its head.
LEMMA CompletionOwned ==
    ASSUME CatalogueInv, [Next]_vars, NEW d \in Devices, Completion(d)
    PROVE  QueueOwned' /\ QueueOnce'
<1> USE DEF CatalogueInv, OrderInv, TypeInv
<1>1. /\ pending' = [pending EXCEPT ![d] = Tail(@)]
      /\ pending[d] # <<>> /\ pending[d] \in Seq(Writes)
  BY DEF Completion, Acknowledge, CatchUp, TypeOK
<1>2. /\ 1 \in DOMAIN pending[d]
      /\ \A e \in Devices \ {d} : pending'[e] = pending[e]
      /\ \A i \in DOMAIN pending'[d] :
            i \in Nat /\ i + 1 \in DOMAIN pending[d] /\ pending'[d][i] = pending[d][i + 1]
            /\ i + 1 # 1
  BY <1>1 DEF TypeOK
<1>3. PICK put \in Writes : put = pending[d][1] /\ put = Head(pending[d])
  BY <1>1, <1>2, EntryType
<1>4. PICK q \in Products, g \in Heads : put.by = <<q, g>>
  BY DEF Writes
<1>5. head' = [head EXCEPT ![q][g] = IF put.fate = "ok" THEN "done" ELSE "failed"]
  <2>1. head' = [head EXCEPT ![put.by[1]][put.by[2]] =
                    IF put.fate = "ok" THEN "done" ELSE "failed"]
    BY <1>3 DEF Completion
  <2>2. put.by[1] = q /\ put.by[2] = g
    BY <1>4
  <2> QED
    BY <2>1, <2>2
<1>6. ASSUME NEW e \in Devices, NEW i \in DOMAIN pending[e], pending[e][i].by # put.by,
             NEW r, r = pending[e][i].by[1], NEW h, h = pending[e][i].by[2]
      PROVE  form[r].dev = e /\ head'[r][h] = "queued" /\ pending[e][i].node = Target(r, h)
  <2>1. pending[e][i] \in Writes
    BY EntryType
  <2>2. r \in Products /\ h \in Heads /\ pending[e][i].by = <<r, h>>
    BY <1>6, <2>1 DEF Writes
  <2>3. form[r].dev = e /\ head[r][h] = "queued" /\ pending[e][i].node = Target(r, h)
    BY <1>6 DEF QueueOwned
  <2>4. r # q \/ h # g
    BY <1>4, <1>6, <2>2
  <2> QED
    BY <1>5, <2>2, <2>3, <2>4 DEF TypeOK
<1>7. ASSUME NEW e \in Devices, NEW i \in DOMAIN pending'[e]
      PROVE  \E j \in DOMAIN pending[e] :
                pending'[e][i] = pending[e][j] /\ pending[e][j].by # put.by
  <2>1. CASE e = d
    <3>1. pending[d][i + 1].by # pending[d][1].by
      BY <1>2, <1>7, <2>1 DEF QueueOnce
    <3> QED
      BY <1>2, <1>3, <1>7, <2>1, <3>1
  <2>2. CASE e # d
    <3>1. i \in DOMAIN pending[e] /\ pending'[e] = pending[e]
      BY <1>2, <1>7, <2>2
    <3>2. PICK r, h : r = pending[e][i].by[1] /\ h = pending[e][i].by[2]
      OBVIOUS
    <3>3. form[r].dev = e
      BY <3>1, <3>2 DEF QueueOwned
    <3>4. form[q].dev = d
      <4>1. pending[d][1].by[1] = q
        BY <1>3, <1>4
      <4> QED
        BY <1>2, <4>1 DEF QueueOwned
    <3>5. pending[e][i].by # put.by
      BY <1>4, <2>2, <3>2, <3>3, <3>4
    <3> QED
      BY <3>1, <3>5
  <2> QED
    BY <2>1, <2>2
<1>8. form' = form /\ \A r, h : Target(r, h)' = Target(r, h)
  BY FormStays DEF Target
<1>9. QueueOwned'
  <2> SUFFICES ASSUME NEW e \in Devices, NEW i \in DOMAIN pending'[e]
               PROVE  /\ form'[pending'[e][i].by[1]].dev = e
                      /\ head'[pending'[e][i].by[1]][pending'[e][i].by[2]] = "queued"
                      /\ pending'[e][i].node = Target(pending[e][i].by[1], pending[e][i].by[2])'
    BY DEF QueueOwned
  <2>1. PICK j \in DOMAIN pending[e] :
            pending'[e][i] = pending[e][j] /\ pending[e][j].by # put.by
    BY <1>7
  <2>2. PICK r, h : r = pending[e][j].by[1] /\ h = pending[e][j].by[2]
    OBVIOUS
  <2>3. form[r].dev = e /\ head'[r][h] = "queued" /\ pending[e][j].node = Target(r, h)
    BY <1>6, <2>1, <2>2
  <2>4. r = pending'[e][i].by[1] /\ h = pending'[e][i].by[2]
    BY <2>1, <2>2
  <2> QED
    BY <1>8, <2>1, <2>3, <2>4 DEF Target
<1>10. QueueOnce'
  <2> SUFFICES ASSUME NEW e \in Devices, NEW i \in DOMAIN pending'[e],
                      NEW j \in DOMAIN pending'[e], pending'[e][i].by = pending'[e][j].by
               PROVE  i = j
    BY DEF QueueOnce
  <2>1. CASE e = d
    <3>1. i + 1 = j + 1
      BY <1>2, <2>1 DEF QueueOnce
    <3> QED
      BY <1>2, <2>1, <3>1
  <2>2. CASE e # d
    BY <1>2, <2>2 DEF QueueOnce
  <2> QED
    BY <2>1, <2>2
<1> QED
  BY <1>9, <1>10

\* Every step keeps the queues with their heads.
LEMMA NextOwned ==
    ASSUME CatalogueInv, [Next]_vars
    PROVE  QueueOwned' /\ QueueOnce'
<1> USE DEF CatalogueInv, OrderInv, TypeInv
<1>0. ReadHeads \subseteq Heads
  BY ReadHeadsAreHeads
<1>1. ASSUME NEW p \in Products, Publication(p)
      PROVE  QueueOwned' /\ QueueOnce'
  <2>1. CASE Begin(p)
    <3>1. \A q \in Products : \A h \in Heads : head[q][h] = "queued" => head'[q][h] = "queued"
      BY <2>1 DEF Begin, TypeOK
    <3> QED
      BY <2>1, <3>1, SameOwned DEF Begin, dbVars
  <2>2. ASSUME NEW h \in ReadHeads, Raise(p, h)
        PROVE  QueueOwned' /\ QueueOnce'
    <3>1. \A q \in Products : \A g \in Heads : head[q][g] = "queued" => head'[q][g] = "queued"
      BY <2>2 DEF Raise, TypeOK
    <3> QED
      BY <2>2, <3>1, SameOwned DEF Raise
  <2>3. CASE UserFound(p) \/ \E h \in ListHeads : ListRead(p, h)
    BY <2>3, CallbackOwned
  <2>4. CASE UserMissing(p)
    <3>1. \A q \in Products : \A g \in Heads : head[q][g] = "queued" => head'[q][g] = "queued"
      BY <2>4 DEF UserMissing, TypeOK
    <3> QED
      BY <2>4, <3>1, SameOwned DEF UserMissing, dbVars
  <2>5. CASE NoCategoryException(p)
    <3>1. \A q \in Products : \A g \in Heads : head[q][g] = "queued" => head'[q][g] = "queued"
      BY <2>5 DEF NoCategoryException, Crash
    <3> QED
      BY <2>5, <3>1, SameOwned DEF NoCategoryException, Crash
  <2> QED
    BY <1>1, <2>1, <2>2, <2>3, <2>4, <2>5 DEF Publication
<1>2. ASSUME NEW d \in Devices, Device(d)
      PROVE  QueueOwned' /\ QueueOnce'
  <2>1. CASE Server(d)
    <3>1. PICK i \in DOMAIN pending[d] :
            /\ pending[d][i] \in Writes
            /\ DOMAIN pending'[d] = DOMAIN pending[d]
            /\ \A j \in DOMAIN pending[d] : j # i => pending'[d][j] = pending[d][j]
            /\ pending'[d][i] = [pending[d][i] EXCEPT !.fate =
                  IF pending[d][i].by \in denied THEN "denied" ELSE "ok"]
            /\ \A e \in Devices \ {d} : pending'[e] = pending[e]
            /\ UNCHANGED head
      BY <2>1, ServerStep, Zenon
    <3>2. pending'[d][i].by = pending[d][i].by /\ pending'[d][i].node = pending[d][i].node
      BY <3>1 DEF Writes
    <3> QED
      BY <3>1, <3>2, SameOwned
  <2>2. CASE Completion(d)
    BY <2>2, CompletionOwned
  <2>3. CASE Kill(d)
    <3>1. \A q \in Products : \A g \in Heads : head[q][g] = "queued" => head'[q][g] = "queued"
      BY <2>3 DEF Kill, Crash
    <3> QED
      BY <2>3, <3>1, SameOwned DEF Kill, Crash
  <2>4. CASE LoseQueue(d)
    <3>1. /\ pending' = [pending EXCEPT ![d] = <<>>]
          /\ head' = [p \in Products |-> [h \in Heads |->
                IF form[p].dev = d /\ head[p][h] = "queued" THEN "dead" ELSE head[p][h]]]
      BY <2>4 DEF LoseQueue, Drop
    <3>2. ASSUME NEW e \in Devices, NEW i \in DOMAIN pending'[e]
          PROVE  e # d /\ pending'[e] = pending[e] /\ i \in DOMAIN pending[e]
      BY <3>1, <3>2 DEF TypeOK
    <3>3. ASSUME NEW e \in Devices, NEW i \in DOMAIN pending'[e]
          PROVE  /\ form'[pending'[e][i].by[1]].dev = e
                 /\ head'[pending'[e][i].by[1]][pending'[e][i].by[2]] = "queued"
                 /\ pending'[e][i].node = Target(pending[e][i].by[1], pending[e][i].by[2])'
      <4>1. e # d /\ pending'[e] = pending[e] /\ i \in DOMAIN pending[e]
        BY <3>2
      <4>2. pending[e][i] \in Writes
        BY <4>1, EntryType
      <4>3. PICK q \in Products, h \in Heads : pending[e][i].by[1] = q /\ pending[e][i].by[2] = h
        BY <4>2 DEF Writes
      <4>4. form[q].dev = e /\ head[q][h] = "queued" /\ pending[e][i].node = Target(q, h)
        BY <4>1, <4>3 DEF QueueOwned
      <4>5. head'[q][h] = "queued" /\ form' = form
        BY <3>1, <4>1, <4>4, FormStays
      <4> QED
        BY <4>1, <4>3, <4>4, <4>5 DEF Target
    <3>4. QueueOwned'
      BY <3>3 DEF QueueOwned
    <3> QED
      BY <3>2, <3>4 DEF QueueOnce
  <2>5. CASE ConnectionLost(d)
    <3>1. PICK kept \in 0..Len(pending[d]) : pending' = [pending EXCEPT ![d] = Unsent(d, kept)]
      BY <2>5 DEF ConnectionLost, Reconnect
    <3>2. kept \in Nat /\ UNCHANGED head
      BY <2>5 DEF TypeOK, ConnectionLost
    <3>3. \A e \in Devices : DOMAIN pending'[e] = DOMAIN pending[e]
      BY <3>1, <3>2, UnsentType DEF TypeOK
    <3>4. \A e \in Devices : \A i \in DOMAIN pending[e] :
              pending'[e][i].by = pending[e][i].by /\ pending'[e][i].node = pending[e][i].node
      BY <3>1, <3>2, UnsentType DEF TypeOK
    <3> QED
      BY <3>2, <3>3, <3>4, SameOwned
  <2>6. CASE Refresh(d)
    BY <2>6, SameOwned DEF Refresh, Push, Relaunch, CatchUp, pubVars, listens
  <2> QED
    BY <1>2, <2>1, <2>2, <2>3, <2>4, <2>5, <2>6 DEF Device
<1>3. CASE UNCHANGED vars
  BY <1>3, SameOwned DEF vars, dbVars, pubVars, listens
<1> QED
  BY <1>1, <1>2, <1>3 DEF Next

-----------------------------------------------------------------------------
(* Reads sent again ahead of "products" *)

\* A reconnected device stays behind until its cache is up to date, and the
\* reads sent ahead are answered before.
LEMMA NextAhead ==
    ASSUME CatalogueInv, [Next]_vars
    PROVE  AheadIsBehind'
<1> USE DEF CatalogueInv, OrderInv, TypeInv
<1>0. /\ form' = form /\ {"user", "category"} \subseteq Heads
      /\ {"user", "category"} \subseteq ReadHeads /\ ListHeads \subseteq Heads
  BY FormStays DEF Heads, ReadHeads, ListHeads
<1> SUFFICES ASSUME NEW q \in Products, NEW g \in ReadHeads, <<q, g>> \in ahead'
             PROVE  /\ g \in {"user", "category"}
                    /\ head'[q][g] = "asked"
                    /\ form[q].dev \in behind'
  BY <1>0 DEF AheadIsBehind, Listens
<1>1. <<q, g>> \in ahead =>
         g \in {"user", "category"} /\ head[q][g] = "asked" /\ form[q].dev \in behind
  BY DEF AheadIsBehind, Listens
<1>2. ASSUME NEW p \in Products, Publication(p)
      PROVE  <<q, g>> \in ahead /\ head'[q][g] = "asked" /\ form[q].dev \in behind'
  <2>1. CASE Begin(p)
    BY <1>0, <1>1, <2>1 DEF Begin, listens, TypeOK
  <2>2. ASSUME NEW h \in ReadHeads, Raise(p, h)
        PROVE  <<q, g>> \in ahead /\ head'[q][g] = "asked" /\ form[q].dev \in behind'
    <3>1. <<q, g>> \in ahead /\ <<q, g>> # <<p, h>> /\ form[q].dev \in behind'
      <4>1. CASE ahead' = ahead \ {<<p, h>>} /\ UNCHANGED behind
        BY <1>1, <4>1
      <4>2. CASE /\ Listens(form[p].dev) \cap ahead = {}
                 /\ behind' = behind \ {form[p].dev} /\ UNCHANGED ahead
                 /\ <<p, h>> \notin ahead
        <5>1. <<q, g>> \in Listens(form[q].dev)
          BY <1>1, <4>2 DEF AheadIsBehind
        <5>2. form[q].dev # form[p].dev
          BY <4>2, <5>1
        <5> QED
          BY <1>1, <4>2, <5>2
      <4> QED
        BY <2>2, <4>1, <4>2 DEF Raise, Answered
    <3>2. head' = [head EXCEPT ![p][h] = "raised"]
      BY <2>2 DEF Raise
    <3> QED
      BY <1>0, <1>1, <3>1, <3>2 DEF TypeOK
  <2>3. CASE UserFound(p)
    BY <1>0, <1>1, <2>3 DEF UserFound, listens, TypeOK
  <2>4. CASE UserMissing(p)
    BY <1>0, <1>1, <2>4 DEF UserMissing, listens, TypeOK
  <2>5. CASE NoCategoryException(p)
    BY <1>0, <1>1, <2>5 DEF NoCategoryException, Crash, Listens
  <2>6. ASSUME NEW h \in ListHeads, ListRead(p, h)
        PROVE  <<q, g>> \in ahead /\ head'[q][g] = "asked" /\ form[q].dev \in behind'
    <3>1. head[p][h] = "raised" /\ head' = [head EXCEPT ![p][h] = "queued"]
          /\ UNCHANGED <<ahead, behind>>
      BY <2>6 DEF ListRead, WriteList, listens
    <3> QED
      BY <1>0, <1>1, <3>1 DEF TypeOK
  <2> QED
    BY <1>2, <2>1, <2>2, <2>3, <2>4, <2>5, <2>6 DEF Publication
<1>3. ASSUME NEW d \in Devices, Device(d)
      PROVE  /\ g \in {"user", "category"}
             /\ head'[q][g] = "asked"
             /\ form[q].dev \in behind'
  <2>1. CASE Server(d)
    BY <1>1, <2>1 DEF Server, pubVars, listens
  <2>2. CASE Completion(d)
    <3>1. <<q, g>> \in ahead /\ behind' = behind \ {d} /\ form[q].dev # d
      BY <1>1, <2>2 DEF Completion
    <3>2. PICK put : put = Head(pending[d])
      OBVIOUS
    <3>3. head' = [head EXCEPT ![put.by[1]][put.by[2]] =
                      IF put.fate = "ok" THEN "done" ELSE "failed"]
      BY <2>2, <3>2 DEF Completion
    <3>4. put.by \in Products \X Heads /\ head[put.by[1]][put.by[2]] = "queued"
      <4>1. 1 \in DOMAIN pending[d] /\ put = pending[d][1]
        BY <2>2, <3>2 DEF Completion, Acknowledge, TypeOK
      <4>2. put \in Writes
        BY <4>1, EntryType
      <4> QED
        BY <4>1, <4>2 DEF Writes, QueueOwned
    <3>5. head'[q][g] = head[q][g]
      BY <1>0, <1>1, <3>1, <3>3, <3>4 DEF TypeOK
    <3> QED
      BY <1>1, <3>1, <3>5
  <2>3. CASE Kill(d)
    BY <1>0, <1>1, <2>3 DEF Kill, Crash, Listens
  <2>4. CASE LoseQueue(d)
    BY <1>0, <1>1, <2>4 DEF LoseQueue, listens
  <2>5. CASE ConnectionLost(d)
    <3>1. /\ UNCHANGED head
          /\ behind' = behind \cup {d}
          /\ <<q, g>> \in ahead \/ <<q, g>> \in Listens(d)
      BY <2>5 DEF ConnectionLost
    <3> QED
      BY <1>1, <3>1 DEF Listens
  <2>6. CASE Refresh(d)
    <3>1. <<q, g>> \in ahead /\ behind' = behind \ {d} /\ UNCHANGED head
      BY <2>6 DEF Refresh
    <3>2. <<q, g>> \in Listens(form[q].dev)
      BY <3>1 DEF AheadIsBehind
    <3>3. form[q].dev # d
      <4>1. CASE Listens(d) \cap ahead = {}
        BY <3>1, <3>2, <4>1
      <4>2. CASE Relaunch(d)
        BY <1>0, <1>1, <3>1, <4>2 DEF Relaunch, DeadIsIdle
      <4> QED
        BY <2>6, <4>1, <4>2 DEF Refresh
    <3> QED
      BY <1>1, <3>1, <3>3
  <2> QED
    BY <1>3, <2>1, <2>2, <2>3, <2>4, <2>5, <2>6 DEF Device
<1>4. CASE UNCHANGED vars
  BY <1>1, <1>4 DEF vars, pubVars, listens
<1> QED
  BY <1>1, <1>2, <1>3, <1>4 DEF Next

-----------------------------------------------------------------------------
(* What counts follows the list *)

\* What remains to be shown of a step.
Followed == QueueFollows /\ SnapFollows /\ FeedFollows /\ UnsharedKeepsAll

\* A queued write still follows while its list stays, unless it is performed.
LEMMA FollowsStays ==
    ASSUME CatalogueInv, [Next]_vars, UNCHANGED tree,
           NEW d \in Devices, NEW i \in DOMAIN pending[d], NEW j,
           pending'[d][j].by = pending[d][i].by, pending'[d][j].val = pending[d][i].val,
           pending'[d][j].node = pending[d][i].node,
           pending'[d][j].fate \in {pending[d][i].fate, "sent"},
           pending'[d][j].node \in ListNodes \ shared'
    PROVE  Follows(pending[d][j])'
<1>1. Follows(pending[d][i])
  BY SharedGrows DEF CatalogueInv, QueueFollows
<1> QED
  BY <1>1 DEF Follows, Listed

\* The steps that leave lists, caches and snapshots of readers as they are.
LEMMA StillFollowed ==
    ASSUME CatalogueInv, [Next]_vars, UNCHANGED tree,
           \A d \in Devices :
              \/ feed'[d] = feed[d] /\ (d \in behind => d \in behind')
              \/ feed'[d] = tree[ProductsNode],
           \A p \in Products : \A h \in ReadHeads :
              head'[p][h] = "raised" => head[p][h] = "raised" /\ snap'[p][h] = snap[p][h],
           \A p \in Products :
              head'[p]["user"] = "raised" \/ head'[p]["products"] = "asked"
                 => head[p]["user"] = "raised" \/ head[p]["products"] = "asked"
    PROVE  SnapFollows' /\ FeedFollows'
<1> USE DEF CatalogueInv
<1>1. form' = form /\ shared \subseteq shared' /\ \A p, h : Target(p, h)' = Target(p, h)
  BY FormStays, SharedGrows DEF Target
<1>2. ASSUME NEW p \in Products, NEW h \in ReadHeads, head'[p][h] = "raised",
             NEW n, n = Target(p, h), n \notin shared'
      PROVE  snap'[p][h].list = tree'[n].list
  BY <1>1, <1>2 DEF SnapFollows
<1>3. SnapFollows'
  <2> SUFFICES ASSUME NEW p \in Products, NEW h \in ReadHeads, head'[p][h] = "raised",
                      Target(p, h)' \notin shared'
               PROVE  snap'[p][h].list = tree'[Target(p, h)'].list
    BY DEF SnapFollows
  <2>1. PICK n : n = Target(p, h)
    OBVIOUS
  <2>2. Target(p, h)' = n
    BY <1>1, <2>1
  <2> QED
    BY <1>2, <2>1, <2>2
<1>4. FeedFollows'
  <2> SUFFICES ASSUME ProductsNode \notin shared', NEW p \in Products,
                      form'[p].dev \notin behind',
                      head'[p]["user"] = "raised" \/ head'[p]["products"] = "asked"
               PROVE  feed'[form'[p].dev].list = tree'[ProductsNode].list
    BY DEF FeedFollows
  <2>1. form[p].dev \notin behind => feed[form[p].dev].list = tree[ProductsNode].list
    BY <1>1 DEF FeedFollows
  <2>2. form[p].dev \in Devices
    BY DEF OrderInv, TypeInv, TypeOK, Forms
  <2> QED
    BY <1>1, <2>1, <2>2
<1> QED
  BY <1>3, <1>4

\* What has been reported stays while lists only grow and nothing is reported.
LEMMA StillKept ==
    ASSUME CatalogueInv, [Next]_vars, UNCHANGED tree,
           \A p \in Products : \A h \in ReadHeads : head'[p][h] = "done" => head[p][h] = "done"
    PROVE  UnsharedKeepsAll'
<1> SUFFICES ASSUME NEW p \in Products, NEW h \in ReadHeads, head'[p][h] = "done",
                    Target(p, h)' \notin shared'
             PROVE  p \in Elements(tree'[Target(p, h)'].list)
  BY DEF UnsharedKeepsAll, Listed
<1>1. shared \subseteq shared' /\ Target(p, h)' = Target(p, h)
  BY FormStays, SharedGrows DEF Target
<1>2. p \in Elements(tree[Target(p, h)].list)
  BY <1>1 DEF CatalogueInv, UnsharedKeepsAll, Listed
<1> QED
  BY <1>1, <1>2

\* A step that changes no queue and no list.
LEMMA SameQueue ==
    ASSUME CatalogueInv, [Next]_vars, UNCHANGED <<tree, pending>>
    PROVE  QueueFollows'
<1> SUFFICES ASSUME NEW d \in Devices, NEW i \in DOMAIN pending'[d],
                    pending'[d][i].node \in ListNodes \ shared'
             PROVE  Follows(pending[d][i])'
  BY DEF QueueFollows
<1> QED
  BY FollowsStays

\* The steps that change nothing a reader or a queue holds.
LEMMA QuietFollowed ==
    ASSUME CatalogueInv, [Next]_vars,
           \/ \E p \in Products : Begin(p) \/ UserMissing(p)
           \/ \E d \in Devices : Crash(d) \/ Refresh(d)
           \/ UNCHANGED vars
    PROVE  Followed'
<1> USE DEF CatalogueInv, OrderInv, TypeInv
<1>1. UNCHANGED <<tree, pending>>
  BY DEF Begin, UserMissing, Crash, Die, Refresh, Push, Relaunch, CatchUp, vars, dbVars
<1>2. \A d \in Devices :
        \/ feed'[d] = feed[d] /\ (d \in behind => d \in behind')
        \/ feed'[d] = tree[ProductsNode]
  <2>1. ASSUME NEW e \in Devices, Refresh(e)
        PROVE  feed' = [feed EXCEPT ![e] = tree[ProductsNode]] /\ behind' = behind \ {e}
    BY <2>1 DEF Refresh, Push, Relaunch, CatchUp
  <2>2. CASE ~ \E e \in Devices : Refresh(e)
    BY <2>2 DEF Begin, UserMissing, Crash, vars, dbVars, pubVars, listens
  <2> QED
    BY <2>1, <2>2 DEF TypeOK
<1>3. \A p \in Products : \A h \in Heads :
        /\ head'[p][h] = "raised" => head[p][h] = "raised"
        /\ head'[p][h] = "done" => head[p][h] = "done"
        /\ h # "user" /\ head'[p][h] = "asked" => head[p][h] = "asked"
  <2>1. ASSUME NEW q \in Products, Begin(q) \/ UserMissing(q)
        PROVE  \E stage \in {"asked", "notFound"} : head' = [head EXCEPT ![q]["user"] = stage]
    BY <2>1 DEF Begin, UserMissing
  <2>2. CASE \E q \in Products : Begin(q) \/ UserMissing(q)
    <3>1. PICK q \in Products, stage \in {"asked", "notFound"} :
              head' = [head EXCEPT ![q]["user"] = stage]
      BY <2>1, <2>2
    <3> QED
      BY <3>1 DEF TypeOK
  <2>3. CASE \E d \in Devices : Crash(d)
    BY <2>3 DEF Crash
  <2>4. CASE (\E d \in Devices : Refresh(d)) \/ UNCHANGED vars
    BY <2>4 DEF Refresh, vars, pubVars, listens
  <2> QED
    BY <2>2, <2>3, <2>4
<1>4. ASSUME NEW p \in Products, NEW h \in ReadHeads, head'[p][h] = "raised"
      PROVE  snap'[p][h] = snap[p][h]
  <2>1. CASE \E d \in Devices : Crash(d)
    <3>1. PICK d \in Devices : Crash(d)
      BY <2>1
    <3>2. form[p].dev # d
      BY <1>4, <3>1, ReadHeadsAreHeads DEF Crash
    <3> QED
      BY <3>1, <3>2 DEF Crash
  <2>2. CASE ~ \E d \in Devices : Crash(d)
    BY <2>2 DEF Begin, UserMissing, Refresh, vars, pubVars, listens
  <2> QED
    BY <2>1, <2>2
<1>5. ReadHeads \subseteq Heads /\ "user" \in Heads /\ "products" \in Heads
  BY ReadHeadsAreHeads DEF Heads
<1>6. SnapFollows' /\ FeedFollows'
  BY <1>1, <1>2, <1>3, <1>4, <1>5, StillFollowed
<1>7. UnsharedKeepsAll'
  BY <1>1, <1>3, <1>5, StillKept
<1> QED
  BY <1>1, <1>6, <1>7, SameQueue DEF Followed

\* An event is raised: on an unshared list the value it carries is the list,
\* and the event of the user read leaves an unshared "products" up to date.
LEMMA RaiseFollowed ==
    ASSUME CatalogueInv, [Next]_vars, NEW p \in Products, NEW h \in ReadHeads, Raise(p, h)
    PROVE  Followed'
<1> USE DEF CatalogueInv, OrderInv, TypeInv
<1>0. ReadHeads \subseteq Heads /\ "user" \in ReadHeads /\ "products" \in ReadHeads
  BY ReadHeadsAreHeads DEF ReadHeads, ListHeads
<1>1. /\ UNCHANGED <<tree, pending, form>> /\ shared \subseteq shared'
      /\ head[p][h] = "asked" /\ head' = [head EXCEPT ![p][h] = "raised"]
  BY DEF Raise
<1>2. PICK d, n : d = form[p].dev /\ n = Target(p, h)
  OBVIOUS
<1>3. d \in Devices /\ n \in ListNodes /\ n \in Touched(p)
  <2>1. n \in Nodes
    BY <1>0, <1>1, <1>2, TargetType DEF Categorized
  <2>2. n \notin Products
    BY <1>0, <1>1, <1>2, NamesAssumption
       DEF Target, ReadHeads, ListHeads, TypeOK, Forms, Categorized, Heads
  <2>3. n \in ListNodes
    BY <2>1, <2>2 DEF Nodes
  <2> QED
    BY <1>0, <1>2, <2>3, HeadTouches DEF TypeOK, Forms
<1>4. PICK v \in View(d, n) : snap' = [snap EXCEPT ![p][h] = v]
  BY <1>2 DEF Raise
<1>5. ASSUME n \notin shared'
      PROVE  v.list = tree[n].list
  <2>1. PutsTo(d, n) = {}
    BY <1>1, <1>2, <1>3, <1>5, NoWriteWhileReading DEF PutsTo
  <2>2. v = IF n = ProductsNode THEN feed[d] ELSE tree[n]
    BY <2>1, Zenon DEF View
  <2>3. n = ProductsNode => h = "products"
    BY <1>1, <1>2, NamesAssumption
       DEF Target, ReadHeads, ListHeads, TypeOK, Forms, Categorized, Heads
  <2>4. n = ProductsNode => feed[d].list = tree[ProductsNode].list
    <3> SUFFICES ASSUME n = ProductsNode
                 PROVE  feed[d].list = tree[ProductsNode].list
      OBVIOUS
    <3>1. ~ Outdated(d)
      BY <1>2, <1>5 DEF Raise
    <3>2. CASE feed[d] = tree[ProductsNode]
      BY <3>2
    <3>3. CASE d \notin behind
      BY <1>1, <1>2, <1>5, <2>3, <3>3 DEF FeedFollows
    <3> QED
      BY <2>1, <3>1, <3>2, <3>3 DEF Outdated
  <2> QED
    BY <2>2, <2>4
<1>6. SnapFollows'
  <2> SUFFICES ASSUME NEW q \in Products, NEW g \in ReadHeads, head'[q][g] = "raised",
                      Target(q, g)' \notin shared'
               PROVE  snap'[q][g].list = tree'[Target(q, g)'].list
    BY DEF SnapFollows
  <2>0. PICK m : m = Target(q, g)
    OBVIOUS
  <2>3. Target(q, g)' = m /\ m \notin shared' /\ m \notin shared /\ tree' = tree
    <3>1. Target(q, g)' = Target(q, g)
      BY FormStays DEF Target
    <3> QED
      BY <1>1, <2>0, <3>1
  <2> SUFFICES snap'[q][g].list = tree[m].list
    BY <2>3
  <2>1. CASE q = p /\ g = h
    BY <1>2, <1>4, <1>5, <2>0, <2>1, <2>3 DEF TypeOK
  <2>2. CASE ~ (q = p /\ g = h)
    <3>1. head[q][g] = "raised" /\ snap'[q][g] = snap[q][g]
      BY <1>0, <1>1, <1>4, <2>2 DEF TypeOK
    <3> QED
      BY <2>0, <2>3, <3>1 DEF SnapFollows
  <2> QED
    BY <2>1, <2>2
<1>7. FeedFollows'
  <2> SUFFICES ASSUME ProductsNode \notin shared, NEW q \in Products,
                      form[q].dev \notin behind',
                      head'[q]["user"] = "raised" \/ head'[q]["products"] = "asked"
               PROVE  feed'[form[q].dev].list = tree[ProductsNode].list
    BY <1>1 DEF FeedFollows
  <2>1. form[q].dev \in Devices
    BY DEF TypeOK, Forms
  <2>2. \A e \in Devices :
          \/ feed'[e] = feed[e] /\ (e \in behind => e \in behind')
          \/ feed'[e] = tree[ProductsNode]
    <3>1. CASE UNCHANGED <<feed, behind>>
      BY <3>1
    <3>2. CASE CatchUp(d) /\ behind' = behind \ {d}
      BY <1>3, <3>2 DEF CatchUp, TypeOK
    <3> QED
      BY <1>2, <3>1, <3>2 DEF Raise, Answered
  <2>3. CASE head[q]["user"] = "raised" \/ head[q]["products"] = "asked"
    BY <2>1, <2>2, <2>3 DEF FeedFollows
  <2>4. CASE ~ (head[q]["user"] = "raised" \/ head[q]["products"] = "asked")
    <3>1. q = p /\ h = "user"
      BY <1>0, <1>1, <2>4 DEF TypeOK
    <3>2. \A i \in DOMAIN pending[d] : pending[d][i].node # n
      BY <1>1, <1>3, <3>1, NoWriteAhead
    <3>3. PutsTo(d, n) = {}
      BY <3>2 DEF PutsTo
    <3>4. n # ProductsNode
      BY <1>2, <3>1, NamesAssumption DEF Target, TypeOK, Forms
    <3>5. CASE <<p, h>> \in ahead
      <4>1. d \in behind /\ UNCHANGED behind
        BY <1>2, <3>5 DEF Raise, Answered, AheadIsBehind
      <4> QED
        BY <1>2, <3>1, <4>1
    <3>6. CASE <<p, h>> \notin ahead
      <4>1. feed' = [feed EXCEPT ![d] = tree[ProductsNode]]
        BY <1>2, <3>3, <3>4, <3>6 DEF Raise, Answered, Cached, CatchUp
      <4> QED
        BY <1>2, <1>3, <3>1, <4>1 DEF TypeOK
    <3> QED
      BY <3>5, <3>6
  <2> QED
    BY <2>3, <2>4
<1>8. UnsharedKeepsAll'
  BY <1>0, <1>1, StillKept DEF TypeOK
<1> QED
  BY <1>1, <1>6, <1>7, <1>8, SameQueue DEF Followed

\* Queueing writes that follow keeps what is queued so.
LEMMA EnqueueFollows ==
    ASSUME CatalogueInv, [Next]_vars, UNCHANGED <<tree, shared>>,
           NEW d \in Devices, NEW puts \in Seq(Writes), Enqueue(d, puts),
           \A k \in DOMAIN puts : puts[k].node \in ListNodes \ shared => Follows(puts[k])
    PROVE  QueueFollows'
<1>1. pending' = [pending EXCEPT ![d] = @ \o puts] /\ pending \in [Devices -> Seq(Writes)]
  BY DEF Enqueue, CatalogueInv, OrderInv, TypeInv, TypeOK
<1> SUFFICES ASSUME NEW e \in Devices, NEW i \in DOMAIN pending'[e],
                    pending'[e][i].node \in ListNodes \ shared'
             PROVE  Follows(pending[e][i])'
  BY DEF QueueFollows
<1>2. CASE e # d
  <2>1. pending'[e] = pending[e]
    BY <1>1, <1>2
  <2> QED
    BY <2>1, FollowsStays
<1>3. CASE e = d
  <2>1. pending'[d] = pending[d] \o puts /\ pending[d] \in Seq(Writes)
    BY <1>1
  <2>2. CASE i \in 1..Len(pending[d])
    <3>1. pending'[e][i] = pending[d][i] /\ i \in DOMAIN pending[d]
      BY <1>3, <2>1, <2>2
    <3> QED
      BY <1>3, <3>1, FollowsStays
  <2>3. CASE i \notin 1..Len(pending[d])
    <3>1. i - Len(pending[d]) \in DOMAIN puts
      BY <1>3, <2>1, <2>3
    <3>2. PICK k \in DOMAIN puts : pending'[e][i] = puts[k]
      BY <1>3, <2>1, <2>3, <3>1
    <3>3. Follows(puts[k])
      BY <3>2
    <3> QED
      BY <3>2, <3>3 DEF Follows, Listed
  <2> QED
    BY <2>2, <2>3
<1> QED
  BY <1>2, <1>3

\* The list a callback appends to, if unshared, is the server's, without p.
LEMMA ListingFollows ==
    ASSUME CatalogueInv, NEW p \in Products, NEW h \in ReadHeads, head[p][h] = "raised",
           NEW n \in ListNodes \ shared, n = Target(p, h), NEW c, c = snap[p][h]
    PROVE  Follows(Put(<<p, h>>, n, Listing(c, p)))
<1>1. c.list = tree[n].list
  BY DEF CatalogueInv, SnapFollows
<1>2. p \notin Placed(n)
  BY NotYetPlaced DEF Behind, CatalogueInv, OrderInv, TypeInv
<1>3. p \notin Listed(n)
  BY <1>2 DEF CatalogueInv, ListInv, AllSound, Sound, Listed, Nodes
<1> QED
  BY <1>1, <1>3 DEF Follows, Put, Listing

\* The two callbacks that write.
LEMMA CallbackFollowed ==
    ASSUME CatalogueInv, [Next]_vars, NEW p \in Products,
           UserFound(p) \/ \E h \in ListHeads : ListRead(p, h)
    PROVE  Followed'
<1> USE DEF CatalogueInv, OrderInv, TypeInv
<1>1. ReadHeads \subseteq Heads /\ ListHeads \subseteq ReadHeads /\ "user" \in ReadHeads
  BY ReadHeadsAreHeads DEF ReadHeads
<1>2. CASE UserFound(p)
  <2>1. PICK n, c : n = form[p].owner /\ c = snap[p]["user"]
    OBVIOUS
  <2>2. n \in Users /\ c \in Content /\ n = Target(p, "user") /\ n \in ListNodes
        /\ form[p].dev \in Devices
    BY <1>1, <2>1 DEF TypeOK, Forms, Target, ListNodes
  <2>3. PICK puts : puts = << Put(<<p, "id">>, p, Record), Put(<<p, "user">>, n, Listing(c, p)) >>
    OBVIOUS
  <2>4. puts \in Seq(Writes)
    <3>1. Put(<<p, "id">>, p, Record) \in Writes
      BY ConstantContents DEF Put, Writes, Heads, Nodes, Fates
    <3>2. Put(<<p, "user">>, n, Listing(c, p)) \in Writes
      BY <2>2, ListingType DEF Put, Writes, Heads, Nodes, ListNodes, Fates
    <3> QED
      BY <2>3, <3>1, <3>2
  <2>5. Enqueue(form[p].dev, puts)
    BY <1>2, <2>1, <2>3 DEF UserFound
  <2>6. head[p]["user"] = "raised" /\ UNCHANGED <<tree, feed, shared, behind>>
        /\ snap' = [snap EXCEPT ![p]["user"] = Absent]
        /\ head' = [head EXCEPT ![p] = [user |-> "queued", id |-> "queued",
                                         products |-> "asked", category |-> "asked"]]
    BY <1>2 DEF UserFound, listens
  <2>7. \A k \in DOMAIN puts : puts[k].node \in ListNodes \ shared => Follows(puts[k])
    <3>1. puts[1] = Put(<<p, "id">>, p, Record) /\ DOMAIN puts = {1, 2}
          /\ puts[2] = Put(<<p, "user">>, n, Listing(c, p))
      BY <2>3
    <3>2. puts[1].node \notin ListNodes
      BY <3>1, ProductsAreNoLists DEF Put
    <3>3. puts[2].node = n
      BY <3>1 DEF Put
    <3>4. n \notin shared => Follows(puts[2])
      BY <1>1, <2>1, <2>2, <2>6, <3>1, ListingFollows
    <3> QED
      BY <3>1, <3>2, <3>3, <3>4
  <2>8. QueueFollows'
    BY <2>2, <2>4, <2>5, <2>6, <2>7, EnqueueFollows
  <2>9. /\ head'[p]["user"] = "queued" /\ head'[p]["id"] = "queued"
        /\ head'[p]["products"] = "asked" /\ head'[p]["category"] = "asked"
        /\ \A q \in Products : q # p => head'[q] = head[q] /\ snap'[q] = snap[q]
    BY <2>6 DEF TypeOK
  <2>10. \A q \in Products : \A h \in ReadHeads :
           /\ head'[q][h] = "raised" => head[q][h] = "raised" /\ snap'[q][h] = snap[q][h]
           /\ head'[q][h] = "done" => head[q][h] = "done"
    BY <2>9 DEF ReadHeads, ListHeads
  <2>11. \A q \in Products :
           head'[q]["user"] = "raised" \/ head'[q]["products"] = "asked"
              => head[q]["user"] = "raised" \/ head[q]["products"] = "asked"
    BY <2>6, <2>9
  <2>12. SnapFollows' /\ FeedFollows'
    BY <2>6, <2>10, <2>11, StillFollowed
  <2>13. UnsharedKeepsAll'
    BY <2>6, <2>10, StillKept
  <2> QED
    BY <2>8, <2>12, <2>13 DEF Followed
<1>3. ASSUME NEW h \in ListHeads, ListRead(p, h)
      PROVE  Followed'
  <2>1. PICK n, c : n = Target(p, h) /\ c = snap[p][h]
    OBVIOUS
  <2>2. /\ h \in Heads /\ h \in ReadHeads /\ head[p][h] = "raised" /\ c \in Content /\ n \in Nodes
        /\ form[p].dev \in Devices
    <3>1. h \in Heads /\ head[p][h] = "raised"
      BY <1>1, <1>3 DEF ListRead, WriteList
    <3>2. form[p].cat \in Categories
      BY <3>1, CategoryOfHead
    <3> QED
      BY <1>1, <2>1, <3>1, <3>2, TargetType DEF TypeOK, Forms
  <2>3. PICK puts : puts = << Put(<<p, h>>, n, Listing(c, p)) >>
    OBVIOUS
  <2>4. puts \in Seq(Writes)
    <3>1. Put(<<p, h>>, n, Listing(c, p)) \in Writes
      BY <2>2, ListingType DEF Put, Writes, Fates
    <3> QED
      BY <2>3, <3>1
  <2>5. Enqueue(form[p].dev, puts)
    BY <1>3, <2>1, <2>3 DEF ListRead, WriteList
  <2>6. /\ head' = [head EXCEPT ![p][h] = "queued"] /\ UNCHANGED <<tree, feed, shared, behind>>
        /\ snap' = [snap EXCEPT ![p][h] = Absent]
    BY <1>3 DEF ListRead, WriteList, listens
  <2>7. \A k \in DOMAIN puts : puts[k].node \in ListNodes \ shared => Follows(puts[k])
    <3>1. puts[1] = Put(<<p, h>>, n, Listing(c, p)) /\ DOMAIN puts = {1}
      BY <2>3
    <3>2. puts[1].node = n
      BY <3>1 DEF Put
    <3> QED
      BY <2>1, <2>2, <3>1, <3>2, ListingFollows
  <2>8. QueueFollows'
    BY <2>2, <2>4, <2>5, <2>6, <2>7, EnqueueFollows
  <2>9. \A q \in Products : \A g \in ReadHeads :
          /\ head'[q][g] = "raised" => head[q][g] = "raised" /\ snap'[q][g] = snap[q][g]
          /\ head'[q][g] = "done" => head[q][g] = "done"
    BY <1>1, <2>2, <2>6 DEF TypeOK
  <2>10. \A q \in Products :
           head'[q]["user"] = "raised" \/ head'[q]["products"] = "asked"
              => head[q]["user"] = "raised" \/ head[q]["products"] = "asked"
    BY <2>2, <2>6 DEF TypeOK, Heads
  <2>11. SnapFollows' /\ FeedFollows'
    BY <2>6, <2>9, <2>10, StillFollowed
  <2>12. UnsharedKeepsAll'
    BY <2>6, <2>9, StillKept
  <2> QED
    BY <2>8, <2>11, <2>12 DEF Followed
<1> QED
  BY <1>2, <1>3

\* The server performs a write: the list of an unshared node is what it was, or
\* has the writer's product behind.
LEMMA ServerLists ==
    ASSUME CatalogueInv, NEW d \in Devices, Server(d)
    PROVE  \E i \in DOMAIN pending[d] :
             /\ pending[d][i] \in Writes
             /\ DOMAIN pending'[d] = DOMAIN pending[d]
             /\ \A j \in DOMAIN pending[d] : j # i => pending'[d][j] = pending[d][j]
             /\ \A e \in Devices \ {d} : pending'[e] = pending[e]
             /\ pending'[d][i].by = pending[d][i].by
             /\ pending'[d][i].node = pending[d][i].node
             /\ pending'[d][i].val = pending[d][i].val
             /\ \A n \in Nodes :
                   \/ /\ tree'[n] = tree[n]
                      /\ n = pending[d][i].node => pending'[d][i].fate = "denied"
                   \/ n = pending[d][i].node /\ tree'[n] = pending[d][i].val
             /\ UNCHANGED tree \/ tree' = [tree EXCEPT ![pending[d][i].node] = pending[d][i].val]
             /\ UNCHANGED <<feed, alive, form, head, snap, denied, shared>>
<1>1. PICK i \in DOMAIN pending[d] :
        /\ pending[d][i] \in Writes
        /\ DOMAIN pending'[d] = DOMAIN pending[d]
        /\ \A j \in DOMAIN pending[d] : j # i => pending'[d][j] = pending[d][j]
        /\ pending'[d][i] = [pending[d][i] EXCEPT !.fate =
              IF pending[d][i].by \in denied THEN "denied" ELSE "ok"]
        /\ \A e \in Devices \ {d} : pending'[e] = pending[e]
        /\ \/ pending[d][i].by \in denied /\ UNCHANGED tree
           \/ /\ pending[d][i].by \notin denied
              /\ tree' = [tree EXCEPT ![pending[d][i].node] = pending[d][i].val]
        /\ UNCHANGED <<feed, alive, form, head, snap, denied, shared>>
  BY ServerStep, Zenon DEF CatalogueInv, OrderInv
<1>2. /\ pending'[d][i].by = pending[d][i].by
      /\ pending'[d][i].node = pending[d][i].node
      /\ pending'[d][i].val = pending[d][i].val
      /\ pending[d][i].by \in denied => pending'[d][i].fate = "denied"
  BY <1>1 DEF Writes
<1>3. ASSUME NEW n \in Nodes
      PROVE  \/ /\ tree'[n] = tree[n]
                /\ n = pending[d][i].node => pending'[d][i].fate = "denied"
             \/ n = pending[d][i].node /\ tree'[n] = pending[d][i].val
  BY <1>1, <1>2 DEF CatalogueInv, OrderInv, TypeInv, TypeOK
<1>4. UNCHANGED tree \/ tree' = [tree EXCEPT ![pending[d][i].node] = pending[d][i].val]
  BY <1>1
<1> QED
  BY <1>1, <1>2, <1>3, <1>4

\* An unshared list never loses a product.
LEMMA UnsharedGrows ==
    ASSUME CatalogueInv, NEW d \in Devices, Server(d), NEW n \in ListNodes \ shared
    PROVE  /\ \/ tree'[n].list = tree[n].list
              \/ \E q \in Products :
                    q \notin Listed(n) /\ tree'[n].list = Append(tree[n].list, q)
           /\ Listed(n) \subseteq Elements(tree'[n].list)
<1>0. n \in Nodes /\ tree[n].list \in Seq(Products)
  BY DEF Nodes, CatalogueInv, OrderInv, TypeInv, TypeOK, Content
<1>1. PICK i \in DOMAIN pending[d] :
        /\ pending[d][i] \in Writes
        /\ \/ tree'[n] = tree[n]
           \/ n = pending[d][i].node /\ tree'[n] = pending[d][i].val
  BY <1>0, ServerLists
<1>2. n = pending[d][i].node => Follows(pending[d][i])
  BY DEF CatalogueInv, QueueFollows
<1>3. pending[d][i].by[1] \in Products
  BY <1>1 DEF Writes
<1>4. \/ tree'[n].list = tree[n].list
      \/ \E q \in Products :
            q \notin Listed(n) /\ tree'[n].list = Append(tree[n].list, q)
  BY <1>1, <1>2, <1>3 DEF Follows
<1>5. ASSUME NEW q \in Products, tree'[n].list = Append(tree[n].list, q)
      PROVE  Listed(n) \subseteq Elements(tree'[n].list)
  <2>1. PICK l \in Seq(Products) : l = tree[n].list
    BY <1>0
  <2>2. \A k \in DOMAIN l : k \in DOMAIN Append(l, q) /\ Append(l, q)[k] = l[k]
    OBVIOUS
  <2>3. Elements(l) \subseteq Elements(Append(l, q))
    BY <2>2 DEF Elements
  <2> QED
    BY <1>5, <2>1, <2>3 DEF Listed
<1> QED
  BY <1>4, <1>5 DEF Listed

\* Performing a write leaves everything following.
LEMMA ServerFollowed ==
    ASSUME CatalogueInv, [Next]_vars, NEW d \in Devices, Server(d)
    PROVE  Followed'
<1> USE DEF CatalogueInv
<1>1. PICK i \in DOMAIN pending[d] :
        /\ pending[d][i] \in Writes
        /\ DOMAIN pending'[d] = DOMAIN pending[d]
        /\ \A j \in DOMAIN pending[d] : j # i => pending'[d][j] = pending[d][j]
        /\ \A e \in Devices \ {d} : pending'[e] = pending[e]
        /\ pending'[d][i].by = pending[d][i].by
        /\ pending'[d][i].node = pending[d][i].node
        /\ pending'[d][i].val = pending[d][i].val
        /\ \A n \in Nodes :
              \/ /\ tree'[n] = tree[n]
                 /\ n = pending[d][i].node => pending'[d][i].fate = "denied"
              \/ n = pending[d][i].node /\ tree'[n] = pending[d][i].val
        /\ UNCHANGED <<feed, alive, form, head, snap, denied, shared>>
  BY ServerLists
<1>2. ASSUME NEW e \in Devices, NEW j \in DOMAIN pending'[e],
             pending'[e][j].node \in ListNodes \ shared'
      PROVE  Follows(pending[e][j])'
  <2>1. j \in DOMAIN pending[e]
    BY <1>1, <1>2
  <2>2. pending'[e][j].by = pending[e][j].by /\ pending'[e][j].node = pending[e][j].node
        /\ pending'[e][j].val = pending[e][j].val
    BY <1>1, <2>1
  <2>3. PICK n : n = pending[e][j].node
    OBVIOUS
  <2>4. n \in ListNodes \ shared /\ n \in Nodes
    BY <1>1, <1>2, <2>2, <2>3 DEF Nodes
  <2>5. Follows(pending[e][j])
    BY <2>1, <2>3, <2>4 DEF QueueFollows
  <2>6. CASE tree'[n] = tree[n] /\ pending'[e][j].fate # "ok"
    BY <2>2, <2>3, <2>5, <2>6 DEF Follows, Listed
  <2>7. CASE tree'[n] = tree[n] /\ pending'[e][j] = pending[e][j]
    BY <2>3, <2>5, <2>7 DEF Follows, Listed
  <2>8. CASE tree'[n] = tree[n] /\ e = d /\ j = i
    <3>1. CASE pending'[e][j].fate = "denied"
      BY <2>6, <2>8, <3>1
    <3>2. CASE tree'[n] = pending[d][i].val
      BY <2>2, <2>3, <2>8, <3>2 DEF Follows
    <3> QED
      BY <1>1, <2>3, <2>4, <2>8, <3>1, <3>2
  <2>9. CASE tree'[n] = tree[n] /\ ~ (e = d /\ j = i)
    BY <1>1, <2>1, <2>7, <2>9
  <2>10. CASE tree'[n] # tree[n]
    <3>1. n = pending[d][i].node /\ tree'[n] = pending[d][i].val
      BY <1>1, <2>4, <2>10
    <3>2. d = e /\ i = j
      BY <2>1, <2>3, <2>4, <3>1, OneWrite
    <3> QED
      BY <2>2, <2>3, <3>1, <3>2 DEF Follows
  <2> QED
    BY <2>8, <2>9, <2>10
<1>3. ASSUME NEW n \in Nodes,
             \A k \in DOMAIN pending[d] : pending[d][k].node # n
      PROVE  tree'[n] = tree[n]
  BY <1>1, <1>3
<1>4. \A p, h : Target(p, h)' = Target(p, h)
  BY FormStays DEF Target
<1>5. ASSUME NEW p \in Products, NEW h \in ReadHeads, head'[p][h] = "raised",
             Target(p, h)' \notin shared'
      PROVE  snap'[p][h].list = tree'[Target(p, h)'].list
  <2>1. PICK n : n = Target(p, h)
    OBVIOUS
  <2>2. Target(p, h)' = n /\ n \notin shared /\ head[p][h] = "raised"
    BY <1>1, <1>4, <1>5, <2>1
  <2>3. n \in Nodes /\ n \notin Products
    BY <2>1, <2>2, TargetType, ReadHeadsAreHeads, NamesAssumption
       DEF Target, ReadHeads, ListHeads, OrderInv, TypeInv, TypeOK, Forms, Categorized, Heads
  <2>4. n \in ListNodes \ shared
    BY <2>2, <2>3 DEF Nodes
  <2>5. tree'[n] = tree[n]
    BY <1>3, <2>1, <2>2, <2>3, <2>4, NoWriteWhileReading
  <2> QED
    BY <1>1, <2>1, <2>2, <2>5 DEF SnapFollows
<1>6. ASSUME ProductsNode \notin shared', NEW p \in Products,
             form'[p].dev \notin behind',
             head'[p]["user"] = "raised" \/ head'[p]["products"] = "asked"
      PROVE  feed'[form'[p].dev].list = tree'[ProductsNode].list
  <2>1. ProductsNode \in Nodes /\ ProductsNode \in Touched(p)
    BY DEF Nodes, ListNodes, Touched
  <2>2. tree'[ProductsNode] = tree[ProductsNode]
    BY <1>1, <1>3, <1>6, <2>1, NoWriteAhead
  <2>3. UNCHANGED behind
    BY DEF Server, pubVars, listens
  <2> QED
    BY <1>1, <1>6, <2>2, <2>3 DEF FeedFollows
<1>7. ASSUME NEW p \in Products, NEW h \in ReadHeads, head'[p][h] = "done",
             Target(p, h)' \notin shared'
      PROVE  p \in Elements(tree'[Target(p, h)'].list)
  <2>1. PICK n : n = Target(p, h)
    OBVIOUS
  <2>2. Target(p, h)' = n /\ n \notin shared /\ head[p][h] = "done"
    BY <1>1, <1>4, <1>7, <2>1
  <2>3. n \in Nodes /\ n \notin Products
    BY <2>1, <2>2, TargetType, ReadHeadsAreHeads, NamesAssumption
       DEF Target, ReadHeads, ListHeads, OrderInv, TypeInv, TypeOK, Forms, Categorized, Heads
  <2>4. n \in ListNodes \ shared
    BY <2>2, <2>3 DEF Nodes
  <2>5. p \in Listed(n)
    BY <2>1, <2>2 DEF UnsharedKeepsAll
  <2> QED
    BY <2>2, <2>4, <2>5, UnsharedGrows
<1>8. QueueFollows'
  BY <1>2 DEF QueueFollows
<1>9. SnapFollows'
  BY <1>5 DEF SnapFollows
<1>10. FeedFollows'
  BY <1>6 DEF FeedFollows
<1>11. UnsharedKeepsAll'
  BY <1>7 DEF UnsharedKeepsAll, Listed
<1> QED
  BY <1>8, <1>9, <1>10, <1>11 DEF Followed

\* A completion reports a success only for a write that was performed: on an
\* unshared list its product is there.
LEMMA CompletionFollowed ==
    ASSUME CatalogueInv, [Next]_vars, NEW d \in Devices, Completion(d)
    PROVE  Followed'
<1> USE DEF CatalogueInv, OrderInv, TypeInv
<1>1. /\ pending' = [pending EXCEPT ![d] = Tail(@)]
      /\ pending[d] # <<>> /\ pending[d] \in Seq(Writes)
      /\ feed' = [feed EXCEPT ![d] = tree[ProductsNode]]
      /\ behind' = behind \ {d}
      /\ UNCHANGED <<tree, form, snap, shared>>
  BY DEF Completion, Acknowledge, CatchUp, TypeOK
<1>2. /\ 1 \in DOMAIN pending[d]
      /\ \A e \in Devices \ {d} : pending'[e] = pending[e]
      /\ \A i \in DOMAIN pending'[d] :
            i + 1 \in DOMAIN pending[d] /\ pending'[d][i] = pending[d][i + 1]
  BY <1>1 DEF TypeOK
<1>3. PICK put \in Writes : put = pending[d][1] /\ put = Head(pending[d])
  BY <1>1, <1>2, EntryType
<1>4. PICK q \in Products, g \in Heads : put.by = <<q, g>> /\ put.by[1] = q /\ put.by[2] = g
  BY DEF Writes
<1>5. head' = [head EXCEPT ![q][g] = IF put.fate = "ok" THEN "done" ELSE "failed"]
  <2>1. head' = [head EXCEPT ![put.by[1]][put.by[2]] =
                    IF put.fate = "ok" THEN "done" ELSE "failed"]
    BY <1>3 DEF Completion
  <2> QED
    BY <1>4, <2>1
<1>6. QueueFollows'
  <2> SUFFICES ASSUME NEW e \in Devices, NEW i \in DOMAIN pending'[e],
                      pending'[e][i].node \in ListNodes \ shared'
               PROVE  Follows(pending[e][i])'
    BY DEF QueueFollows
  <2>1. PICK j \in DOMAIN pending[e] : pending'[e][i] = pending[e][j]
    BY <1>2
  <2> QED
    BY <1>1, <2>1, FollowsStays
<1>7. ReadHeads \subseteq Heads /\ "user" \in Heads /\ "products" \in Heads
  BY ReadHeadsAreHeads DEF Heads
<1>8. \A p \in Products : \A h \in Heads :
        /\ head'[p][h] = head[p][h] \/ head'[p][h] \in {"done", "failed"}
        /\ head'[p][h] = "done" =>
              head[p][h] = "done" \/ (p = q /\ h = g /\ put.fate = "ok")
  BY <1>5 DEF TypeOK
<1>9. SnapFollows' /\ FeedFollows'
  <2>1. \A e \in Devices :
          \/ feed'[e] = feed[e] /\ (e \in behind => e \in behind')
          \/ feed'[e] = tree[ProductsNode]
    BY <1>1 DEF TypeOK
  <2> QED
    BY <1>1, <1>7, <1>8, <2>1, StillFollowed
<1>10. ASSUME NEW p \in Products, NEW h \in ReadHeads, head'[p][h] = "done",
              Target(p, h)' \notin shared'
       PROVE  p \in Elements(tree'[Target(p, h)'].list)
  <2>1. PICK n : n = Target(p, h)
    OBVIOUS
  <2>2. Target(p, h)' = n /\ n \notin shared /\ tree' = tree
    <3>1. Target(p, h)' = Target(p, h)
      BY FormStays DEF Target
    <3> QED
      BY <1>1, <1>10, <2>1, <3>1
  <2>3. CASE head[p][h] = "done"
    BY <2>1, <2>2, <2>3 DEF UnsharedKeepsAll, Listed
  <2>4. CASE p = q /\ h = g /\ put.fate = "ok"
    <3>1. put.node = n
      BY <1>2, <1>3, <1>4, <2>1, <2>4 DEF QueueOwned
    <3>2. n \in ListNodes
      <4>1. put.by[2] # "id"
        BY <1>4, <1>10, <2>4 DEF ReadHeads, ListHeads
      <4> QED
        BY <1>2, <1>3, <3>1, <4>1 DEF RecordWrites, RecordWrite
    <3>3. put.val.list = tree[n].list
      BY <1>2, <1>3, <2>2, <2>4, <3>1, <3>2 DEF QueueFollows, Follows
    <3>4. p \in Elements(put.val.list)
      <4>1. Fits(put, Found)
        BY <1>2, <1>3 DEF ListInv, FoundInv, OnlyFound
      <4>2. put.by[2] # "id"
        BY <1>4, <1>10, <2>4 DEF ReadHeads, ListHeads
      <4> QED
        BY <1>4, <2>4, <4>1, <4>2 DEF Fits
    <3> QED
      BY <2>2, <3>3, <3>4
  <2> QED
    BY <1>7, <1>8, <1>10, <2>3, <2>4
<1>11. UnsharedKeepsAll'
  BY <1>10 DEF UnsharedKeepsAll, Listed
<1> QED
  BY <1>6, <1>9, <1>11 DEF Followed

\* Losing a queue, or its connection, changes no list and reports nothing.
LEMMA LostFollowed ==
    ASSUME CatalogueInv, [Next]_vars, NEW d \in Devices, LoseQueue(d) \/ ConnectionLost(d)
    PROVE  Followed'
<1> USE DEF CatalogueInv, OrderInv, TypeInv
<1>1. UNCHANGED <<tree, feed, snap>> /\ behind \subseteq behind'
  BY DEF LoseQueue, Drop, ConnectionLost, Reconnect, listens
<1>2. \A p \in Products : \A h \in Heads : head'[p][h] = head[p][h] \/ head'[p][h] = "dead"
  BY DEF LoseQueue, ConnectionLost
<1>3. ReadHeads \subseteq Heads /\ "user" \in Heads /\ "products" \in Heads
  BY ReadHeadsAreHeads DEF Heads
<1>4. ASSUME NEW e \in Devices, NEW i \in DOMAIN pending'[e]
      PROVE  /\ i \in DOMAIN pending[e]
             /\ pending'[e][i].by = pending[e][i].by
             /\ pending'[e][i].node = pending[e][i].node
             /\ pending'[e][i].val = pending[e][i].val
             /\ pending'[e][i].fate \in {pending[e][i].fate, "sent"}
  <2>1. CASE LoseQueue(d)
    BY <1>4, <2>1 DEF LoseQueue, Drop, TypeOK
  <2>2. CASE ConnectionLost(d)
    <3>1. PICK kept \in 0..Len(pending[d]) : pending' = [pending EXCEPT ![d] = Unsent(d, kept)]
      BY <2>2 DEF ConnectionLost, Reconnect
    <3>2. kept \in Nat
      BY DEF TypeOK
    <3> QED
      BY <1>4, <3>1, <3>2, UnsentType DEF TypeOK
  <2> QED
    BY <2>1, <2>2
<1>5. QueueFollows'
  <2> SUFFICES ASSUME NEW e \in Devices, NEW i \in DOMAIN pending'[e],
                      pending'[e][i].node \in ListNodes \ shared'
               PROVE  Follows(pending[e][i])'
    BY DEF QueueFollows
  <2> QED
    BY <1>1, <1>4, FollowsStays
<1>6. SnapFollows' /\ FeedFollows'
  BY <1>1, <1>2, <1>3, StillFollowed
<1>7. UnsharedKeepsAll'
  BY <1>1, <1>2, <1>3, StillKept
<1> QED
  BY <1>5, <1>6, <1>7 DEF Followed

\* The invariant holds from the start, and every step keeps it.
LEMMA InitCatalogueInv == Init => CatalogueInv
<1> SUFFICES ASSUME Init
             PROVE  CatalogueInv
  OBVIOUS
<1>1. OrderInv /\ ListInv
  BY InitOrderInv, InitListInv
<1>2. \A d \in Devices : pending[d] = <<>>
  BY DEF Init, DbInit
<1>3. \A p \in Products : \A h \in Heads : head[p][h] = "none"
  BY DEF Init
<1>4. Apart
  BY <1>3 DEF Apart, Active, Working
<1>5. SnapFollows /\ FeedFollows /\ UnsharedKeepsAll
  BY <1>3, ReadHeadsAreHeads DEF SnapFollows, FeedFollows, UnsharedKeepsAll, Heads
<1>6. AheadIsBehind
  BY DEF AheadIsBehind, Init
<1> QED
  BY <1>1, <1>2, <1>4, <1>5, <1>6 DEF CatalogueInv, QueueOwned, QueueOnce, QueueFollows

LEMMA NextCatalogueInv == CatalogueInv /\ [Next]_vars => CatalogueInv'
<1> SUFFICES ASSUME CatalogueInv, [Next]_vars
             PROVE  CatalogueInv'
  OBVIOUS
<1>1. OrderInv' /\ ListInv'
  BY NextOrderInv, NextListInv DEF CatalogueInv
<1>2. ASSUME NEW p \in Products, Publication(p)
      PROVE  Followed'
  <2>1. CASE Begin(p) \/ UserMissing(p)
    BY <2>1, QuietFollowed
  <2>2. ASSUME NEW h \in ReadHeads, Raise(p, h)
        PROVE  Followed'
    BY <2>2, RaiseFollowed
  <2>3. CASE UserFound(p) \/ \E h \in ListHeads : ListRead(p, h)
    BY <2>3, CallbackFollowed
  <2>4. CASE NoCategoryException(p)
    <3>1. form[p].dev \in Devices /\ Crash(form[p].dev)
      BY <2>4 DEF NoCategoryException, CatalogueInv, OrderInv, TypeInv, TypeOK, Forms
    <3> QED
      BY <3>1, QuietFollowed
  <2> QED
    BY <1>2, <2>1, <2>2, <2>3, <2>4 DEF Publication
<1>3. ASSUME NEW d \in Devices, Device(d)
      PROVE  Followed'
  <2>1. CASE Server(d)
    BY <2>1, ServerFollowed
  <2>2. CASE Completion(d)
    BY <2>2, CompletionFollowed
  <2>3. CASE Kill(d)
    BY <2>3, QuietFollowed DEF Kill
  <2>4. CASE LoseQueue(d) \/ ConnectionLost(d)
    BY <2>4, LostFollowed
  <2>5. CASE Refresh(d)
    BY <2>5, QuietFollowed
  <2> QED
    BY <1>3, <2>1, <2>2, <2>3, <2>4, <2>5 DEF Device
<1>4. ASSUME UNCHANGED vars
      PROVE  Followed'
  BY <1>4, QuietFollowed
<1>5. Followed'
  BY <1>2, <1>3, <1>4 DEF Next
<1>6. Apart' /\ QueueOwned' /\ QueueOnce' /\ AheadIsBehind'
  BY NextApart, NextOwned, NextAhead
<1> QED
  BY <1>1, <1>5, <1>6 DEF CatalogueInv, Followed

LEMMA CatalogueInvHolds == Spec => []CatalogueInv
BY InitCatalogueInv, NextCatalogueInv, PTL DEF Spec

-----------------------------------------------------------------------------
(* The theorems *)

\* An unshared list (no two publications ever worked on it at once, and none on a
\* value of it from before a reconnect) shows every product whose write to it was
\* reported as a success, through crashes, reconnects and resent writes.
THEOREM UnsharedKeepsAllCorrect == Spec => []UnsharedKeepsAll
<1>1. CatalogueInv => UnsharedKeepsAll
  BY DEF CatalogueInv
<1> QED
  BY <1>1, CatalogueInvHolds, PTL

\* Publishing implements the catalogue: every step puts a product at the end of
\* one list, replaces a contended one, makes lists contended (two publications
\* meet, or one is given a value from before a reconnect), or stutters.
THEOREM CatalogueKeptCorrect == Spec => CatalogueKept
<1> DEFINE Shelf == [n \in ListNodes |-> tree[n].list]
<1>1. Init => Promise!Init
  <2> SUFFICES ASSUME Init
               PROVE  Shelf = [n \in ListNodes |-> <<>>] /\ shared = {}
    BY DEF Promise!Init
  <2>1. \A n \in ListNodes : tree[n].list = <<>>
    BY DEF Init, DbInit, Absent, Record, Nodes
  <2> QED
    BY <2>1 DEF Init
<1>2. CatalogueInv /\ CatalogueInv' /\ [Next]_vars => [Promise!Next]_<<Shelf, shared>>
  <2> SUFFICES ASSUME CatalogueInv, CatalogueInv', [Next]_vars
               PROVE  Promise!Next \/ UNCHANGED <<Shelf, shared>>
    OBVIOUS
  <2>1. CASE UNCHANGED tree
    <3>1. UNCHANGED Shelf
      BY <2>1
    <3>2. \E met \in SUBSET ListNodes : shared' = shared \cup met
      BY SharedGrows
    <3>3. Promise!Meet
      BY <3>1, <3>2 DEF Promise!Meet
    <3> QED
      BY <3>3 DEF Promise!Next
  <2>2. ASSUME NEW d \in Devices, Server(d)
        PROVE  Promise!Next \/ UNCHANGED <<Shelf, shared>>
    <3>1. PICK i \in DOMAIN pending[d] :
            /\ pending[d][i] \in Writes
            /\ \A n \in Nodes :
                  \/ /\ tree'[n] = tree[n]
                     /\ n = pending[d][i].node => pending'[d][i].fate = "denied"
                  \/ n = pending[d][i].node /\ tree'[n] = pending[d][i].val
            /\ UNCHANGED shared
      BY <2>2, ServerLists DEF CatalogueInv
    <3>2. PICK n : n = pending[d][i].node
      OBVIOUS
    <3>3. \A m \in ListNodes : m \in Nodes /\ (m # n => tree'[m] = tree[m])
      BY <3>1, <3>2 DEF Nodes
    <3>4. CASE n \notin ListNodes \/ tree'[n].list = tree[n].list
      <4>1. \A m \in ListNodes : tree'[m].list = tree[m].list
        BY <3>3, <3>4
      <4>2. UNCHANGED Shelf
        BY <4>1
      <4> QED
        BY <3>1, <4>2
    <3>5. CASE n \in ListNodes /\ tree'[n].list # tree[n].list
      <4>1. Shelf' = [Shelf EXCEPT ![n] = tree'[n].list] /\ Shelf'[n] = tree'[n].list
            /\ Shelf[n] = tree[n].list
        BY <3>3, <3>5
      <4> HIDE DEF Shelf
      <4>2. CASE n \notin shared
        <5>1. PICK q \in Products :
                q \notin Listed(n) /\ tree'[n].list = Append(tree[n].list, q)
          BY <2>2, <3>5, <4>2, UnsharedGrows
        <5>2. \A k \in DOMAIN Shelf[n] : Shelf[n][k] # q
          BY <4>1, <5>1 DEF Listed, Elements
        <5>3. Shelf' = [Shelf EXCEPT ![n] = Append(@, q)]
          BY <4>1, <5>1
        <5>4. Promise!PlaceLast(n)
          BY <3>1, <5>2, <5>3 DEF Promise!PlaceLast, Shelf
        <5> QED
          BY <3>5, <5>4 DEF Promise!Next
      <4>3. CASE n \in shared
        <5>1. tree'[n] = pending[d][i].val
          BY <3>1, <3>3, <3>5
        <5>2. tree'[n].list # <<>>
          <6>1. pending[d][i].by[2] # "id"
            <7>1. pending[d][i].by[1] \in Products
              BY <3>1 DEF Writes
            <7>2. pending[d][i].by[2] = "id" => pending[d][i].node = pending[d][i].by[1]
              BY DEF CatalogueInv, OrderInv, RecordWrites, RecordWrite
            <7> QED
              BY <3>2, <3>5, <7>1, <7>2, ProductsAreNoLists
          <6>2. pending[d][i].by[1] \in Elements(pending[d][i].val.list)
            BY <6>1 DEF CatalogueInv, ListInv, FoundInv, OnlyFound, Fits
          <6> QED
            BY <5>1, <6>2 DEF Elements
        <5>3. \A a, b \in DOMAIN tree'[n].list : tree'[n].list[a] = tree'[n].list[b] => a = b
          BY <3>3, <3>5, <5>1 DEF CatalogueInv, ListInv, AllSound, Sound
        <5>4. Promise!Replace(n)
          BY <3>1, <4>1, <4>3, <5>2, <5>3 DEF Promise!Replace, Promise!Distinct, Shelf
        <5> QED
          BY <3>5, <5>4 DEF Promise!Next
      <4> QED
        BY <4>2, <4>3
    <3> QED
      BY <3>4, <3>5
  <2> QED
    BY <2>1, <2>2, StepShape
<1> QED
  BY <1>1, <1>2, CatalogueInvHolds, PTL DEF Spec, CatalogueKept, Promise!Spec

\* The screens keep the catalogue's promise too.
THEOREM ScreenCatalogueKept == ScreenSpec => CatalogueKept
BY ScreenImplements, CatalogueKeptCorrect, PTL

\* What the lists show is right on the screens as well, where a retry may publish
\* the same form again: products where they belong, once, and none lost from a
\* list that no two publications worked on at once, nor one on a value of it from
\* before a reconnect.
THEOREM ScreenListsCorrect ==
    ScreenSpec => [](FiledCorrectly /\ NoDuplicates /\ UnsharedKeepsAll)
BY ScreenImplements, FiledCorrectlyCorrect, NoDuplicatesCorrect, UnsharedKeepsAllCorrect, PTL

=============================================================================
