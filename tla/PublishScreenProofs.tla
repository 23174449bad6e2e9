-------------------------- MODULE PublishScreenProofs --------------------------
(***************************************************************************)
(* The publishing screen implements the insertion, so what is proved of the *)
(* insertion holds under it; no list ever shows a product whose picture is  *)
(* not in the storage; and a screen is only dismissed once its product is   *)
(* recorded.  All three rest on an invariant of the insertion alone: what   *)
(* is in a list, or on its way into one, is a product whose user was found. *)
(***************************************************************************)
EXTENDS PublishScreen, ProductInsertProofs

\* The callback of the user read has found a node for these, or their process
\* has ended.
Found == {p \in Products : head[p]["user"] \in {"queued", "done", "failed", "dead"}}

Shows(c) == Elements(c.list) \subseteq Found

\* A queued write is one of a found product's and shows found products only; a
\* write to a list shows its own product.
Fits(w, found) ==
    /\ w.by[1] \in found
    /\ Elements(w.val.list) \subseteq found
    /\ w.by[2] # "id" => w.by[1] \in Elements(w.val.list)

\* Lists, caches, queued writes and snapshots show found products only, and
\* only for those the other three heads are worked on.
OnlyFound ==
    /\ \A n \in Nodes : Shows(tree[n])
    /\ \A d \in Devices : Shows(feed[d])
    /\ \A d \in Devices : \A i \in DOMAIN pending[d] : Fits(pending[d][i], Found)
    /\ \A p \in Products : \A h \in ReadHeads : Shows(snap[p][h])
    /\ \A p \in Products : \A h \in Heads \ {"user"} : head[p][h] # "none" => p \in Found

FoundInv == TypeInv /\ OnlyFound

-----------------------------------------------------------------------------
(* Only found products *)

\* A product stays found.
LEMMA FoundStays ==
    ASSUME TypeInv, [Next]_vars
    PROVE  Found \subseteq Found'
<1> USE DEF TypeInv, TypeOK, Found, Heads
<1>1. ASSUME NEW p \in Products, Publication(p)
      PROVE  Found \subseteq Found'
  <2>1. CASE Begin(p)
    BY <2>1 DEF Begin
  <2>2. ASSUME NEW h \in ReadHeads, Raise(p, h)
        PROVE  Found \subseteq Found'
    BY <2>2 DEF Raise, ReadHeads, ListHeads
  <2>3. CASE UserFound(p)
    BY <2>3 DEF UserFound
  <2>4. CASE UserMissing(p)
    BY <2>4 DEF UserMissing
  <2>5. CASE NoCategoryException(p)
    BY <2>5 DEF NoCategoryException, Crash
  <2>6. ASSUME NEW h \in ListHeads, ListRead(p, h)
        PROVE  Found \subseteq Found'
    BY <2>6 DEF ListRead, WriteList, ListHeads
  <2> QED
    BY <1>1, <2>1, <2>2, <2>3, <2>4, <2>5, <2>6 DEF Publication
<1>2. ASSUME NEW d \in Devices, Device(d)
      PROVE  Found \subseteq Found'
  <2>1. CASE Server(d) \/ ConnectionLost(d) \/ Refresh(d)
    BY <2>1 DEF Server, ConnectionLost, Refresh, pubVars, listens
  <2>2. CASE Completion(d)
    BY <2>2 DEF Completion
  <2>3. CASE Kill(d)
    BY <2>3 DEF Kill, Crash
  <2>4. CASE LoseQueue(d)
    BY <2>4 DEF LoseQueue
  <2> QED
    BY <1>2, <2>1, <2>2, <2>3, <2>4 DEF Device
<1>3. CASE UNCHANGED vars
  BY <1>3 DEF vars, pubVars, listens
<1> QED
  BY <1>1, <1>2, <1>3 DEF Next

\* Whatever a read sees shows found products only.
LEMMA ViewShows ==
    ASSUME FoundInv, NEW d \in Devices, NEW n \in Nodes, NEW v \in View(d, n)
    PROVE  Shows(v)
<1>1. \/ \E i \in PutsTo(d, n) : v = pending[d][i].val
      \/ v = feed[d]
      \/ v = tree[n]
  BY Zenon DEF View
<1>2. \A i \in PutsTo(d, n) : i \in DOMAIN pending[d]
  BY DEF PutsTo
<1> QED
  BY <1>1, <1>2 DEF FoundInv, OnlyFound, Shows, Fits

\* The write of a list with its product appended fits.
LEMMA ListingFits ==
    ASSUME FoundInv, Found \subseteq Found', NEW c \in Content, Shows(c),
           NEW p \in Products, p \in Found', NEW h \in Heads, NEW n
    PROVE  Fits(Put(<<p, h>>, n, Listing(c, p)), Found')
<1>1. Listing(c, p).list = Append(c.list, p) /\ c.list \in Seq(Products)
  BY DEF Listing, Content
<1>2. p \in Elements(Listing(c, p).list)
  <2>1. Append(c.list, p)[Len(c.list) + 1] = p
    BY <1>1
  <2>2. Len(c.list) + 1 \in DOMAIN Append(c.list, p)
    BY <1>1
  <2> QED
    BY <1>1, <2>1, <2>2 DEF Elements
<1>3. Elements(Listing(c, p).list) \subseteq Found'
  BY ListingElements DEF Shows
<1> QED
  BY <1>2, <1>3 DEF Fits, Put

\* So does an empty content.
LEMMA EmptyShows == Shows(Absent) /\ Shows(Record)
BY DEF Shows, Absent, Record, Elements

\* What fits before a step still does after it, its fate apart.
LEMMA FitsStays ==
    ASSUME Found \subseteq Found', NEW v, NEW w, Fits(v, Found),
           w.by = v.by, w.val = v.val
    PROVE  Fits(w, Found')
BY DEF Fits

\* Queueing writes of such contents keeps the queues so.
LEMMA EnqueueShows ==
    ASSUME FoundInv, NEW d \in Devices, NEW puts \in Seq(Writes), Enqueue(d, puts),
           Found \subseteq Found',
           \A i \in DOMAIN puts : Fits(puts[i], Found')
    PROVE  \A e \in Devices : \A i \in DOMAIN pending'[e] :
               Fits(pending'[e][i], Found')
<1>1. pending' = [pending EXCEPT ![d] = @ \o puts] /\ pending \in [Devices -> Seq(Writes)]
  BY DEF Enqueue, FoundInv, TypeInv, TypeOK
<1> SUFFICES ASSUME NEW e \in Devices, NEW i \in DOMAIN pending'[e]
             PROVE  Fits(pending'[e][i], Found')
  OBVIOUS
<1>2. CASE e # d
  <2>1. pending'[e] = pending[e]
    BY <1>1, <1>2
  <2> QED
    BY <2>1, FitsStays DEF FoundInv, OnlyFound
<1>3. CASE e = d
  <2>1. pending'[d] = pending[d] \o puts /\ pending[d] \in Seq(Writes)
    BY <1>1
  <2>2. CASE i \in 1..Len(pending[d])
    <3>1. pending'[e][i] = pending[d][i] /\ i \in DOMAIN pending[d]
      BY <1>3, <2>1, <2>2
    <3> QED
      BY <3>1, FitsStays DEF FoundInv, OnlyFound
  <2>3. CASE i \notin 1..Len(pending[d])
    <3>1. i - Len(pending[d]) \in DOMAIN puts
      BY <1>3, <2>1, <2>3
    <3>2. pending'[e][i] = puts[i - Len(pending[d])]
      BY <1>3, <2>1, <2>3
    <3> QED
      BY <3>1, <3>2
  <2> QED
    BY <2>2, <2>3
<1> QED
  BY <1>2, <1>3

\* insertProduct is called: no content changes.
LEMMA BeginFound ==
    ASSUME FoundInv, NEW p \in Products, Begin(p), Found \subseteq Found'
    PROVE  OnlyFound'
<1>1. UNCHANGED <<tree, pending, feed, snap>>
  BY DEF Begin, dbVars
<1>2. \A q \in Products : \A h \in Heads \ {"user"} : head'[q][h] # "none" => q \in Found'
  BY DEF Begin, FoundInv, OnlyFound, TypeInv, TypeOK, Found, Heads
<1> QED
  BY <1>1, <1>2 DEF FoundInv, OnlyFound, Shows, Fits

\* An event is raised with what its device sees.
LEMMA RaiseFound ==
    ASSUME FoundInv, NEW p \in Products, NEW h \in ReadHeads, Raise(p, h),
           Found \subseteq Found'
    PROVE  OnlyFound'
<1>1. Target(p, h) \in Nodes /\ form[p].dev \in Devices
  BY TargetType, ReadHeadsAreHeads DEF FoundInv, TypeInv, Raise, Categorized, TypeOK, Forms
<1>2. PICK v \in View(form[p].dev, Target(p, h)) : snap' = [snap EXCEPT ![p][h] = v]
  BY DEF Raise
<1>3. Shows(v)
  BY <1>1, <1>2, ViewShows
<1>4. ASSUME NEW q \in Products, NEW g \in ReadHeads
      PROVE  Elements(snap'[q][g].list) \subseteq Found'
  <2>1. snap'[q][g] = v \/ snap'[q][g] = snap[q][g]
    BY <1>2 DEF FoundInv, TypeInv, TypeOK
  <2> QED
    BY <1>3, <2>1 DEF FoundInv, OnlyFound, Shows
<1>5. ASSUME NEW d \in Devices
      PROVE  Elements(feed'[d].list) \subseteq Found'
  <2>1. feed'[d] = feed[d] \/ feed'[d] = tree[ProductsNode]
    BY DEF Raise, Answered, CatchUp, FoundInv, TypeInv, TypeOK
  <2>2. ProductsNode \in Nodes
    BY DEF Nodes, ListNodes
  <2> QED
    BY <2>1, <2>2 DEF FoundInv, OnlyFound, Shows
<1>6. \A q \in Products : \A g \in Heads \ {"user"} : head'[q][g] # "none" => q \in Found'
  BY ReadHeadsAreHeads DEF Raise, FoundInv, OnlyFound, TypeInv, TypeOK, Found
<1>7. UNCHANGED <<tree, pending>>
  BY DEF Raise
<1> QED
  BY <1>4, <1>5, <1>6, <1>7 DEF FoundInv, OnlyFound, Shows, Fits

\* The callback of the user read writes the snapshot it was given and p.
LEMMA UserFoundFound ==
    ASSUME FoundInv, NEW p \in Products, UserFound(p), Found \subseteq Found'
    PROVE  OnlyFound'
<1> DEFINE puts == << Put(<<p, "id">>, p, Record),
                      Put(<<p, "user">>, form[p].owner, Listing(snap[p]["user"], p)) >>
<1>1. p \in Found' /\ "user" \in ReadHeads
  BY DEF UserFound, Found, ReadHeads, FoundInv, TypeInv, TypeOK
<1>2. /\ form[p].cat \in Categories /\ form[p].dev \in Devices
      /\ form[p].owner \in Users /\ snap[p]["user"] \in Content
  BY <1>1 DEF UserFound, FoundInv, TypeInv, TypeOK, Forms
<1>3. puts \in Seq(Writes)
  <2>1. Put(<<p, "id">>, p, Record) \in Writes
    BY ConstantContents DEF Put, Writes, Heads, Nodes, Fates
  <2>2. Put(<<p, "user">>, form[p].owner, Listing(snap[p]["user"], p)) \in Writes
    BY <1>2, ListingType DEF Put, Writes, Heads, Nodes, ListNodes, Fates
  <2> QED
    BY <2>1, <2>2
<1>4. \A i \in DOMAIN puts : Fits(puts[i], Found')
  <2>1. Fits(Put(<<p, "id">>, p, Record), Found')
    BY <1>1, EmptyShows DEF Fits, Put, Shows
  <2>2. Fits(Put(<<p, "user">>, form[p].owner, Listing(snap[p]["user"], p)), Found')
    BY <1>1, <1>2, ListingFits, ReadHeadsAreHeads DEF FoundInv, OnlyFound
  <2> QED
    BY <2>1, <2>2
<1>5. \A e \in Devices : \A i \in DOMAIN pending'[e] :
          Fits(pending'[e][i], Found')
  <2>1. Enqueue(form[p].dev, puts)
    BY DEF UserFound
  <2> HIDE DEF puts
  <2> QED
    BY <1>2, <1>3, <1>4, <2>1, EnqueueShows
<1>6. \A q \in Products : \A h \in ReadHeads : Elements(snap'[q][h].list) \subseteq Found'
  <2>1. \A q \in Products : \A h \in ReadHeads :
            snap'[q][h] = Absent \/ snap'[q][h] = snap[q][h]
    BY DEF UserFound, FoundInv, TypeInv, TypeOK
  <2> QED
    BY <2>1, EmptyShows DEF FoundInv, OnlyFound, Shows
<1>7. \A q \in Products : \A h \in Heads \ {"user"} : head'[q][h] # "none" => q \in Found'
  BY <1>1 DEF UserFound, FoundInv, OnlyFound, TypeInv, TypeOK
<1>8. UNCHANGED <<tree, feed>>
  BY DEF UserFound
<1> QED
  BY <1>5, <1>6, <1>7, <1>8 DEF FoundInv, OnlyFound, Shows

\* So does the callback of a list read.
LEMMA ListReadFound ==
    ASSUME FoundInv, NEW p \in Products, NEW h \in ListHeads, ListRead(p, h),
           Found \subseteq Found'
    PROVE  OnlyFound'
<1> DEFINE puts == << Put(<<p, h>>, Target(p, h), Listing(snap[p][h], p)) >>
<1>1. h \in Heads /\ h \in ReadHeads /\ form[p].dev \in Devices /\ head[p][h] = "raised"
  BY ReadHeadsAreHeads DEF ListRead, WriteList, FoundInv, TypeInv, TypeOK, Forms
<1>2. p \in Found /\ snap[p][h] \in Content /\ form[p].cat \in Categories
  BY <1>1, CategoryOfHead DEF FoundInv, OnlyFound, TypeInv, TypeOK, ListHeads
<1>3. puts \in Seq(Writes)
  <2>1. Target(p, h) \in Nodes /\ Listing(snap[p][h], p) \in Content
    BY <1>1, <1>2, TargetType, ListingType DEF FoundInv, TypeInv
  <2>2. Put(<<p, h>>, Target(p, h), Listing(snap[p][h], p)) \in Writes
    BY <1>1, <2>1 DEF Put, Writes, Fates
  <2> QED
    BY <2>2
<1>4. \A i \in DOMAIN puts : Fits(puts[i], Found')
  <2>1. Fits(Put(<<p, h>>, Target(p, h), Listing(snap[p][h], p)), Found')
    BY <1>1, <1>2, ListingFits DEF FoundInv, OnlyFound
  <2> QED
    BY <2>1
<1>5. \A e \in Devices : \A i \in DOMAIN pending'[e] :
          Fits(pending'[e][i], Found')
  <2>1. Enqueue(form[p].dev, puts)
    BY DEF ListRead, WriteList
  <2> HIDE DEF puts
  <2> QED
    BY <1>1, <1>3, <1>4, <2>1, EnqueueShows
<1>6. \A q \in Products : \A g \in ReadHeads : Elements(snap'[q][g].list) \subseteq Found'
  <2>1. \A q \in Products : \A g \in ReadHeads :
            snap'[q][g] = Absent \/ snap'[q][g] = snap[q][g]
    BY DEF ListRead, WriteList, FoundInv, TypeInv, TypeOK
  <2> QED
    BY <2>1, EmptyShows DEF FoundInv, OnlyFound, Shows
<1>7. \A q \in Products : \A g \in Heads \ {"user"} : head'[q][g] # "none" => q \in Found'
  BY <1>2 DEF ListRead, WriteList, FoundInv, OnlyFound, TypeInv, TypeOK
<1>8. UNCHANGED <<tree, feed>>
  BY DEF ListRead, WriteList
<1> QED
  BY <1>5, <1>6, <1>7, <1>8 DEF FoundInv, OnlyFound, Shows

\* The end of a process empties its snapshots and changes no other content.
LEMMA CrashFound ==
    ASSUME FoundInv, NEW d \in Devices, Crash(d), Found \subseteq Found'
    PROVE  OnlyFound'
<1>1. \A q \in Products : \A h \in ReadHeads : Elements(snap'[q][h].list) \subseteq Found'
  <2>1. \A q \in Products : \A h \in ReadHeads :
            snap'[q][h] = Absent \/ snap'[q][h] = snap[q][h]
    BY DEF Crash
  <2> QED
    BY <2>1, EmptyShows DEF FoundInv, OnlyFound, Shows
<1>2. \A q \in Products : \A h \in Heads \ {"user"} : head'[q][h] # "none" => q \in Found'
  BY DEF Crash, FoundInv, OnlyFound, TypeInv, TypeOK
<1> QED
  BY <1>1, <1>2 DEF Crash, FoundInv, OnlyFound, Shows, Fits

\* The server puts the content of a queued write into the tree.
LEMMA ServerFound ==
    ASSUME FoundInv, NEW d \in Devices, Server(d), Found \subseteq Found'
    PROVE  OnlyFound'
<1>1. PICK i \in DOMAIN pending[d] :
        /\ pending[d][i] \in Writes
        /\ DOMAIN pending'[d] = DOMAIN pending[d]
        /\ \A j \in DOMAIN pending[d] : j # i => pending'[d][j] = pending[d][j]
        /\ pending'[d][i] = [pending[d][i] EXCEPT !.fate =
              IF pending[d][i].by \in denied THEN "denied" ELSE "ok"]
        /\ \A e \in Devices \ {d} : pending'[e] = pending[e]
        /\ \/ pending[d][i].by \in denied /\ UNCHANGED tree
           \/ /\ pending[d][i].by \notin denied
              /\ tree' = [tree EXCEPT ![pending[d][i].node] = pending[d][i].val]
        /\ UNCHANGED <<feed, alive, form, head, snap, denied, shared>>
  BY ServerStep, Zenon DEF FoundInv
<1>2. pending'[d][i].by = pending[d][i].by /\ pending'[d][i].val = pending[d][i].val
  BY <1>1 DEF Writes
<1>3. ASSUME NEW e \in Devices, NEW j \in DOMAIN pending'[e]
      PROVE  Fits(pending'[e][j], Found')
  <2>1. /\ j \in DOMAIN pending[e]
        /\ pending'[e][j].by = pending[e][j].by
        /\ pending'[e][j].val = pending[e][j].val
    BY <1>1, <1>2, <1>3
  <2> QED
    BY <2>1, FitsStays DEF FoundInv, OnlyFound
<1>4. ASSUME NEW n \in Nodes
      PROVE  Elements(tree'[n].list) \subseteq Found'
  <2>1. tree'[n] = tree[n] \/ tree'[n] = pending[d][i].val
    BY <1>1 DEF FoundInv, TypeInv, TypeOK
  <2> QED
    BY <2>1 DEF FoundInv, OnlyFound, Shows, Fits
<1> QED
  BY <1>1, <1>3, <1>4 DEF FoundInv, OnlyFound, Shows

\* A broken connection leaves every content in its queue.
LEMMA ConnectionLostFound ==
    ASSUME FoundInv, NEW d \in Devices, ConnectionLost(d), Found \subseteq Found'
    PROVE  OnlyFound'
<1>1. PICK kept \in 0..Len(pending[d]) : pending' = [pending EXCEPT ![d] = Unsent(d, kept)]
  BY DEF ConnectionLost, Reconnect
<1>2. kept \in Nat
  BY DEF FoundInv, TypeInv, TypeOK
<1>3. ASSUME NEW e \in Devices, NEW j \in DOMAIN pending'[e]
      PROVE  Fits(pending'[e][j], Found')
  <2>1. /\ j \in DOMAIN pending[e]
        /\ pending'[e][j].by = pending[e][j].by
        /\ pending'[e][j].val = pending[e][j].val
    BY <1>1, <1>2, <1>3, UnsentType DEF FoundInv, TypeInv, TypeOK
  <2> QED
    BY <2>1, FitsStays DEF FoundInv, OnlyFound
<1> QED
  BY <1>3 DEF ConnectionLost, Reconnect, FoundInv, OnlyFound, Shows

\* The oldest write of a queue is a found product's.
LEMMA OldestWrite ==
    ASSUME FoundInv, NEW d \in Devices, Completion(d)
    PROVE  \E put \in Writes :
              /\ put = Head(pending[d])
              /\ put = pending[d][1]
              /\ 1 \in DOMAIN pending[d]
              /\ put.by[1] \in Found
<1>1. pending[d] # <<>> /\ pending[d] \in Seq(Writes)
  BY DEF Completion, Acknowledge, CatchUp, FoundInv, TypeInv, TypeOK
<1>2. 1 \in DOMAIN pending[d] /\ Head(pending[d]) = pending[d][1]
  BY <1>1
<1>3. pending[d][1] \in Writes /\ pending[d][1].by[1] \in Found
  BY <1>2, EntryType DEF FoundInv, OnlyFound, Fits, TypeInv
<1> QED
  BY <1>2, <1>3

\* A completion shortens a queue and brings the device's cache up to date.
LEMMA CompletionFound ==
    ASSUME FoundInv, NEW d \in Devices, Completion(d), Found \subseteq Found'
    PROVE  OnlyFound'
<1>1. /\ pending' = [pending EXCEPT ![d] = Tail(@)]
      /\ feed' = [feed EXCEPT ![d] = tree[ProductsNode]]
      /\ UNCHANGED <<tree, alive, form, snap>>
      /\ pending[d] # <<>>
  BY DEF Completion, Acknowledge, CatchUp
<1>2. pending[d] \in Seq(Writes) /\ ProductsNode \in Nodes /\ 1 \in DOMAIN pending[d]
  BY <1>1 DEF FoundInv, TypeInv, TypeOK, Nodes, ListNodes
<1>3. ASSUME NEW e \in Devices, NEW j \in DOMAIN pending'[e]
      PROVE  Fits(pending'[e][j], Found')
  <2>1. CASE e = d
    <3>1. j + 1 \in DOMAIN pending[d] /\ pending'[e][j] = pending[d][j + 1]
      BY <1>1, <1>2, <1>3, <2>1 DEF FoundInv, TypeInv, TypeOK
    <3> QED
      BY <3>1, FitsStays DEF FoundInv, OnlyFound
  <2>2. CASE e # d
    <3>1. pending'[e] = pending[e]
      BY <1>1, <2>2 DEF FoundInv, TypeInv, TypeOK
    <3> QED
      BY <1>3, <3>1, FitsStays DEF FoundInv, OnlyFound
  <2> QED
    BY <2>1, <2>2
<1>4. \A e \in Devices : Elements(feed'[e].list) \subseteq Found'
  BY <1>1, <1>2 DEF FoundInv, OnlyFound, Shows, TypeInv, TypeOK
<1>5. \A q \in Products : \A h \in Heads \ {"user"} : head'[q][h] # "none" => q \in Found'
  <2>1. PICK put \in Writes : put = Head(pending[d]) /\ put.by[1] \in Found
    BY OldestWrite
  <2>2. PICK q \in Products, g \in Heads : put.by = <<q, g>>
    BY DEF Writes
  <2>3. q \in Found
    BY <2>1, <2>2
  <2>4. head' = [head EXCEPT ![q][g] = IF put.fate = "ok" THEN "done" ELSE "failed"]
    <3>1. head' = [head EXCEPT ![put.by[1]][put.by[2]] =
                      IF put.fate = "ok" THEN "done" ELSE "failed"]
      BY <2>1 DEF Completion
    <3>2. put.by[1] = q /\ put.by[2] = g
      BY <2>2
    <3> QED
      BY <3>1, <3>2
  <2>5. q \in Found'
    BY <2>3
  <2>6. ASSUME NEW r \in Products, NEW h \in Heads \ {"user"}, head'[r][h] # "none"
        PROVE  r \in Found'
    <3>1. CASE r = q
      BY <2>5, <3>1
    <3>2. CASE r # q
      <4>1. head'[r] = head[r]
        BY <2>4, <3>2 DEF FoundInv, TypeInv, TypeOK
      <4> QED
        BY <2>6, <4>1 DEF FoundInv, OnlyFound
    <3> QED
      BY <3>1, <3>2
  <2> QED
    BY <2>6
<1> QED
  BY <1>1, <1>3, <1>4, <1>5 DEF FoundInv, OnlyFound, Shows

\* Whatever is in a list, or on its way into one, is a found product: every
\* action keeps that.
LEMMA NextFoundInv == FoundInv /\ [Next]_vars => FoundInv'
<1> SUFFICES ASSUME FoundInv, [Next]_vars
             PROVE  OnlyFound'
  BY NextTypeInv DEF FoundInv
<1>1. Found \subseteq Found'
  BY FoundStays DEF FoundInv
<1>2. ASSUME NEW p \in Products, Publication(p)
      PROVE  OnlyFound'
  <2>1. CASE Begin(p)
    BY <1>1, <2>1, BeginFound
  <2>2. ASSUME NEW h \in ReadHeads, Raise(p, h)
        PROVE  OnlyFound'
    BY <1>1, <2>2, RaiseFound
  <2>3. CASE UserFound(p)
    BY <1>1, <2>3, UserFoundFound
  <2>4. CASE UserMissing(p)
    <3>1. \A q \in Products : \A h \in Heads \ {"user"} : head'[q][h] # "none" => q \in Found'
      BY <1>1, <2>4 DEF UserMissing, FoundInv, OnlyFound, TypeInv, TypeOK
    <3> QED
      BY <1>1, <2>4, <3>1 DEF UserMissing, dbVars, FoundInv, OnlyFound, Shows, Fits
  <2>5. CASE NoCategoryException(p)
    <3>1. form[p].dev \in Devices /\ Crash(form[p].dev)
      BY <2>5 DEF NoCategoryException, FoundInv, TypeInv, TypeOK, Forms
    <3> QED
      BY <1>1, <3>1, CrashFound
  <2>6. ASSUME NEW h \in ListHeads, ListRead(p, h)
        PROVE  OnlyFound'
    BY <1>1, <2>6, ListReadFound
  <2> QED
    BY <1>2, <2>1, <2>2, <2>3, <2>4, <2>5, <2>6 DEF Publication
<1>3. ASSUME NEW d \in Devices, Device(d)
      PROVE  OnlyFound'
  <2>1. CASE Server(d)
    BY <1>1, <2>1, ServerFound
  <2>2. CASE Completion(d)
    BY <1>1, <2>2, CompletionFound
  <2>3. CASE Kill(d)
    BY <1>1, <2>3, CrashFound DEF Kill
  <2>4. CASE LoseQueue(d)
    <3>1. \A q \in Products : \A h \in Heads \ {"user"} : head'[q][h] # "none" => q \in Found'
      BY <1>1, <2>4 DEF LoseQueue, FoundInv, OnlyFound, TypeInv, TypeOK
    <3>2. \A e \in Devices : pending'[e] = <<>> \/ pending'[e] = pending[e]
      BY <2>4 DEF LoseQueue, Drop, FoundInv, TypeInv, TypeOK
    <3> QED
      BY <1>1, <2>4, <3>1, <3>2 DEF LoseQueue, Drop, FoundInv, OnlyFound, Shows, Fits
  <2>5. CASE ConnectionLost(d)
    BY <1>1, <2>5, ConnectionLostFound
  <2>6. CASE Refresh(d)
    <3>1. \A e \in Devices : feed'[e] = feed[e] \/ feed'[e] = tree[ProductsNode]
      BY <2>6 DEF Refresh, Push, Relaunch, CatchUp, FoundInv, TypeInv, TypeOK
    <3>2. ProductsNode \in Nodes
      BY DEF Nodes, ListNodes
    <3>3. UNCHANGED <<tree, pending, head, snap>>
      BY <2>6 DEF Refresh, Push, Relaunch, CatchUp, pubVars, listens
    <3> QED
      BY <1>1, <3>1, <3>2, <3>3 DEF FoundInv, OnlyFound, Shows, Fits
  <2> QED
    BY <1>3, <2>1, <2>2, <2>3, <2>4, <2>5, <2>6 DEF Device
<1>4. CASE UNCHANGED vars
  BY <1>4 DEF vars, dbVars, pubVars, listens, FoundInv, OnlyFound, Shows, Found
<1> QED
  BY <1>2, <1>3, <1>4 DEF Next

\* Before anything is published every list is empty.
LEMMA InitFoundInv == Init => FoundInv
<1> SUFFICES ASSUME Init
             PROVE  OnlyFound
  BY InitTypeInv DEF FoundInv
<1>1. \A n \in Nodes : tree[n] = Absent \/ tree[n] = Record
  BY DEF Init, DbInit
<1>2. ProductsNode \in Nodes
  BY DEF Nodes, ListNodes
<1>3. \A d \in Devices : pending[d] = <<>> /\ feed[d] = tree[ProductsNode]
  BY DEF Init, DbInit
<1>4. \A p \in Products : \A h \in ReadHeads : snap[p][h] = Absent
  BY DEF Init
<1>5. \A p \in Products : \A h \in Heads : head[p][h] = "none"
  BY DEF Init
<1> QED
  BY <1>1, <1>2, <1>3, <1>4, <1>5, EmptyShows DEF OnlyFound

-----------------------------------------------------------------------------
(* The screen over the insertion *)

\* Every step of the screen is a step of the insertion, or changes nothing of it.
LEMMA ScreenStep == [ScreenNext]_allVars => [Next]_vars
<1> SUFFICES ASSUME [ScreenNext]_allVars
             PROVE  [Next]_vars
  OBVIOUS
<1>1. ASSUME NEW p \in Products,
             \/ Open(p) \/ Tap(p) \/ TapRefused(p) \/ Stored(p) \/ UploadFails(p)
             \/ Uploaded(p) \/ UserNotFound(p)
      PROVE  [Next]_vars
  <2>1. CASE Open(p) \/ Tap(p) \/ TapRefused(p) \/ Stored(p) \/ UploadFails(p)
    BY <2>1 DEF Open, Tap, TapRefused, Stored, UploadFails
  <2>2. CASE Uploaded(p)
    BY <2>2 DEF Uploaded, Next, Publication
  <2>3. CASE UserNotFound(p)
    BY <2>3 DEF UserNotFound, Next, Publication
  <2> QED
    BY <1>1, <2>1, <2>2, <2>3
<1>2. ASSUME NEW s \in Screens, CloseAlert(s) \/ Back(s)
      PROVE  [Next]_vars
  BY <1>2 DEF CloseAlert, Back
<1>3. ASSUME NEW d \in Devices, Completed(d) \/ Ends(d)
      PROVE  [Next]_vars
  BY <1>3 DEF Completed, Ends, Next, Publication, Device
<1>4. CASE Silent
  BY <1>4 DEF Silent, Next, Publication, Device
<1>5. CASE UNCHANGED allVars
  BY <1>5 DEF allVars
<1> QED
  BY <1>1, <1>2, <1>3, <1>4, <1>5 DEF ScreenNext

\* The screen implements the insertion: it calls insertProduct and hears of its
\* completions, and otherwise leaves it alone.
THEOREM ScreenImplements == ScreenSpec => Spec
<1>1. ScreenInit => Init
  BY DEF ScreenInit
<1> QED
  BY <1>1, ScreenStep, PTL DEF ScreenSpec, Spec

\* What is proved of the insertion holds under the screen: no list shows a
\* product whose own node is not there, unless the write of it was denied.
THEOREM ScreenRecordFirst == ScreenSpec => []RecordFirst
BY ScreenImplements, RecordFirstCorrect, PTL

-----------------------------------------------------------------------------
(* Typing of the screen *)

\* The products one screen makes are made from one form.
OneForm == \A p, q \in Products : screenOf[p] = screenOf[q] => form[p] = form[q]

ScreenTypeInv == TypeInv /\ ScreenTypeOK /\ OneForm

\* The typing holds when the app has just been started.
LEMMA InitScreenTypeInv == ScreenInit => ScreenTypeInv
<1> SUFFICES ASSUME ScreenInit
             PROVE  ScreenTypeInv
  OBVIOUS
<1>1. TypeInv
  BY InitTypeInv DEF ScreenInit
<1> QED
  BY <1>1 DEF ScreenInit, ScreenTypeInv, ScreenTypeOK, OneForm, TypeInv, Uploads, Pages

\* No step changes which screen makes which product, from which form.
LEMMA FormsStay == [ScreenNext]_allVars => UNCHANGED <<form, screenOf>>
<1> SUFFICES ASSUME [ScreenNext]_allVars
             PROVE  UNCHANGED <<form, screenOf>>
  OBVIOUS
<1>1. UNCHANGED form
  <2>1. ASSUME NEW p \in Products, Publication(p)
        PROVE  UNCHANGED form
    BY <2>1 DEF Publication, Begin, Raise, UserFound, UserMissing,
       NoCategoryException, Crash, ListRead, WriteList
  <2>2. ASSUME NEW d \in Devices, Device(d)
        PROVE  UNCHANGED form
    BY <2>2 DEF Device, Server, Completion, Kill, Crash, LoseQueue, ConnectionLost,
       Refresh, pubVars, listens
  <2> QED
    BY <2>1, <2>2, ScreenStep DEF Next, vars, pubVars, listens
<1>2. UNCHANGED screenOf
  BY DEF ScreenNext, Open, Tap, TapRefused, Stored, UploadFails, Uploaded, UserNotFound,
     Report, CloseAlert, Back, Completed, Ends, ScreensEnd, Silent, screenVars, allVars
<1> QED
  BY <1>1, <1>2

\* Alerts and spinners are only on open screens; completions keep it so.
LEMMA ReportType ==
    ASSUME ScreenTypeInv, NEW p \in Products, NEW success \in BOOLEAN, Report(p, success)
    PROVE  /\ page' \in [Screens -> Pages]
           /\ spinner' \in SUBSET {s \in Screens : page'[s] = "open"}
           /\ alert' \in SUBSET {s \in Screens : page'[s] = "open"}
           /\ UNCHANGED <<screenOf, upload, stored>>
<1> USE DEF ScreenTypeInv, ScreenTypeOK
<1> DEFINE s == screenOf[p]
<1>1. s \in Screens
  OBVIOUS
<1>2. UNCHANGED <<screenOf, upload, stored>>
  BY DEF Report
<1>3. CASE page[s] # "open"
  BY <1>2, <1>3 DEF Report
<1>4. ASSUME NEW screens, TakeDown(screens)
      PROVE  /\ page' \in [Screens -> Pages]
             /\ alert' \in SUBSET {t \in Screens : page'[t] = "open"}
             /\ \A t \in Screens \ screens : page'[t] = page[t]
  BY <1>4 DEF TakeDown, Pages
<1>5. CASE page[s] = "open" /\ success
  <2>1. Dismiss(s) /\ spinner' = spinner \ {s}
    BY <1>5 DEF Report, Success
  <2>2. CASE s \in alert
    BY <1>2, <2>1, <2>2 DEF Dismiss
  <2>3. CASE s \notin alert
    BY <1>2, <1>4, <2>1, <2>3 DEF Dismiss
  <2> QED
    BY <2>2, <2>3
<1>6. CASE page[s] = "open" /\ ~ success
  <2> DEFINE over == Modal(form[p].dev)
  <2>1. Failure(s, over)
    BY <1>6 DEF Report
  <2>2. CASE InTab(s) /\ over # {}
    BY <1>2, <1>4, <2>1, <2>2 DEF Failure
  <2>3. CASE ~ (InTab(s) /\ over # {})
    BY <1>1, <1>2, <1>6, <2>1, <2>3 DEF Failure
  <2> QED
    BY <2>2, <2>3
<1> QED
  BY <1>3, <1>5, <1>6

\* Every step keeps the typing.
LEMMA NextScreenTypeInv == ScreenTypeInv /\ [ScreenNext]_allVars => ScreenTypeInv'
<1> SUFFICES ASSUME ScreenTypeInv, [ScreenNext]_allVars
             PROVE  ScreenTypeInv'
  OBVIOUS
<1>1. TypeInv' /\ TypeOK'
  BY ScreenStep, NextTypeInv DEF ScreenTypeInv, TypeInv
<1>2. OneForm'
  BY FormsStay DEF ScreenTypeInv, OneForm
<1> SUFFICES ScreenTypeOK'
  BY <1>1, <1>2 DEF ScreenTypeInv
<1> USE DEF ScreenTypeInv, ScreenTypeOK, Uploads, Pages
<1>3. ASSUME NEW p \in Products,
             Open(p) \/ Tap(p) \/ TapRefused(p) \/ Stored(p) \/ Uploaded(p)
      PROVE  ScreenTypeOK'
  BY <1>1, <1>3 DEF Open, Tap, TapRefused, Touchable, Stored, Uploaded
<1>4. ASSUME NEW p \in Products, UploadFails(p)
      PROVE  ScreenTypeOK'
  BY <1>1, <1>4 DEF UploadFails
<1>5. ASSUME NEW p \in Products, UserNotFound(p)
      PROVE  ScreenTypeOK'
  BY <1>1, <1>5, ReportType DEF UserNotFound
<1>6. ASSUME NEW s \in Screens, CloseAlert(s)
      PROVE  ScreenTypeOK'
  BY <1>1, <1>6 DEF CloseAlert
<1>7. ASSUME NEW s \in Screens, Back(s)
      PROVE  ScreenTypeOK'
  <2>1. s \notin alert
    BY <1>7 DEF Back, Modal
  <2> QED
    BY <1>1, <1>7, <2>1 DEF Back
<1>8. ASSUME NEW d \in Devices, Completed(d)
      PROVE  ScreenTypeOK'
  <2>1. PICK put : put = Head(pending[d]) /\ Report(put.by[1], put.fate = "ok")
    BY <1>8 DEF Completed
  <2>2. pending[d] # <<>>
    BY <1>8 DEF Completed, Completion, Acknowledge, CatchUp
  <2>3. put \in Writes
    BY <2>1, <2>2 DEF TypeOK
  <2>4. put.by[1] \in Products
    BY <2>3 DEF Writes
  <2> QED
    BY <1>1, <2>1, <2>4, ReportType
<1>9. ASSUME NEW d \in Devices, Ends(d)
      PROVE  ScreenTypeOK'
  BY <1>1, <1>9 DEF Ends, ScreensEnd
<1>10. CASE Silent
  BY <1>1, <1>10 DEF Silent, screenVars
<1>11. CASE UNCHANGED allVars
  BY <1>1, <1>11 DEF allVars, screenVars
<1> QED
  BY <1>3, <1>4, <1>5, <1>6, <1>7, <1>8, <1>9, <1>10, <1>11 DEF ScreenNext

\* Every variable of the screen keeps its type; in particular spinners and
\* alerts are only ever on screens that are open.
THEOREM ScreenTypeCorrect == ScreenSpec => []ScreenTypeOK
<1>1. ScreenSpec => []ScreenTypeInv
  BY InitScreenTypeInv, NextScreenTypeInv, PTL DEF ScreenSpec
<1>2. ScreenTypeInv => ScreenTypeOK
  BY DEF ScreenTypeInv
<1> QED
  BY <1>1, <1>2, PTL

-----------------------------------------------------------------------------
(* Pictures come first *)

\* A product that insertProduct was called for, or is about to be, has its
\* picture in the storage.
PictureInv ==
    /\ \A p \in Products : head[p]["user"] # "none" => p \in stored
    /\ \A p \in Products : upload[p] = "fetching" => p \in stored

\* Every step of the insertion but the call of insertProduct.
Continued ==
    \/ \E p \in Products :
          \/ \E h \in ReadHeads : Raise(p, h)
          \/ UserFound(p)
          \/ UserMissing(p)
          \/ NoCategoryException(p)
          \/ \E h \in ListHeads : ListRead(p, h)
    \/ \E d \in Devices : Device(d)
    \/ UNCHANGED vars

\* None of them begins a publication, and a user that was not found stays so.
LEMMA UserHeadStays ==
    ASSUME FoundInv, Continued, NEW q \in Products, head[q]["user"] \in {"none", "notFound"}
    PROVE  head'[q]["user"] = head[q]["user"]
<1> USE DEF FoundInv, TypeInv, TypeOK, Heads
<1>1. ASSUME NEW p \in Products, NEW h \in ReadHeads, Raise(p, h)
      PROVE  head'[q]["user"] = head[q]["user"]
  BY <1>1 DEF Raise, ReadHeads, ListHeads
<1>2. ASSUME NEW p \in Products, UserFound(p) \/ UserMissing(p)
      PROVE  head'[q]["user"] = head[q]["user"]
  BY <1>2 DEF UserFound, UserMissing
<1>3. ASSUME NEW d \in Devices, Crash(d)
      PROVE  head'[q]["user"] = head[q]["user"]
  BY <1>3 DEF Crash
<1>4. ASSUME NEW p \in Products, NoCategoryException(p)
      PROVE  head'[q]["user"] = head[q]["user"]
  BY <1>3, <1>4 DEF NoCategoryException, Forms
<1>5. ASSUME NEW p \in Products, NEW h \in ListHeads, ListRead(p, h)
      PROVE  head'[q]["user"] = head[q]["user"]
  BY <1>5 DEF ListRead, WriteList, ListHeads
<1>6. ASSUME NEW d \in Devices, Device(d)
      PROVE  head'[q]["user"] = head[q]["user"]
  <2>1. CASE Server(d) \/ ConnectionLost(d) \/ Refresh(d)
    BY <2>1 DEF Server, ConnectionLost, Refresh, pubVars, listens
  <2>2. CASE Completion(d)
    <3>1. PICK put \in Writes : put = Head(pending[d]) /\ put.by[1] \in Found
      BY <2>2, OldestWrite
    <3>2. head' = [head EXCEPT ![put.by[1]][put.by[2]] =
                      IF put.fate = "ok" THEN "done" ELSE "failed"]
      BY <2>2, <3>1 DEF Completion
    <3>3. put.by[1] # q
      BY <3>1 DEF Found
    <3> QED
      BY <3>2, <3>3
  <2>3. CASE Kill(d)
    BY <1>3, <2>3 DEF Kill
  <2>4. CASE LoseQueue(d)
    BY <2>4 DEF LoseQueue
  <2> QED
    BY <1>6, <2>1, <2>2, <2>3, <2>4 DEF Device
<1>7. CASE UNCHANGED vars
  BY <1>7 DEF vars, pubVars, listens
<1> QED
  BY <1>1, <1>2, <1>4, <1>5, <1>6, <1>7 DEF Continued

\* Pictures come first in the initial state.
LEMMA InitPictureInv == ScreenInit => PictureInv
BY DEF ScreenInit, Init, PictureInv, Heads

\* Only the callback of the upload calls insertProduct, for a stored picture.
LEMMA NextPictureInv ==
    ASSUME FoundInv, ScreenTypeInv, PictureInv, [ScreenNext]_allVars
    PROVE  PictureInv'
<1> USE DEF PictureInv, ScreenTypeInv, ScreenTypeOK, TypeInv, TypeOK, Heads, Uploads
<1>1. ASSUME Continued, stored \subseteq stored',
             \A p \in Products : upload'[p] = "fetching" => p \in stored'
      PROVE  PictureInv'
  BY <1>1, UserHeadStays
<1>2. ASSUME NEW p \in Products,
             Open(p) \/ Tap(p) \/ TapRefused(p) \/ Stored(p) \/ UploadFails(p)
      PROVE  PictureInv'
  <2>1. UNCHANGED vars
    BY <1>2 DEF Open, Tap, TapRefused, Stored, UploadFails
  <2>2. \A q \in Products : upload'[q] = "fetching" => q \in stored'
    BY <1>2 DEF Open, Tap, TapRefused, Stored, UploadFails
  <2>3. stored \subseteq stored'
    BY <1>2 DEF Open, Tap, TapRefused, Stored, UploadFails
  <2> QED
    BY <1>1, <2>1, <2>2, <2>3 DEF Continued
<1>3. ASSUME NEW p \in Products, Uploaded(p)
      PROVE  PictureInv'
  BY <1>3 DEF Uploaded, Begin
<1>4. ASSUME NEW p \in Products, UserNotFound(p)
      PROVE  PictureInv'
  BY <1>1, <1>4 DEF UserNotFound, Report, Continued
<1>5. ASSUME NEW s \in Screens, CloseAlert(s) \/ Back(s)
      PROVE  PictureInv'
  BY <1>1, <1>5 DEF CloseAlert, Back, Continued
<1>6. ASSUME NEW d \in Devices, Completed(d)
      PROVE  PictureInv'
  BY <1>1, <1>6 DEF Completed, Report, Continued, Device
<1>7. ASSUME NEW d \in Devices, Ends(d)
      PROVE  PictureInv'
  <2>1. Continued
    BY <1>7 DEF Ends, Continued, Device
  <2> QED
    BY <1>1, <1>7, <2>1 DEF Ends, ScreensEnd
<1>8. CASE Silent
  <2>1. Continued
    BY <1>8 DEF Silent, Continued, Device
  <2> QED
    BY <1>1, <1>8, <2>1 DEF Silent, screenVars
<1>9. CASE UNCHANGED allVars
  BY <1>1, <1>9 DEF allVars, screenVars, Continued
<1> QED
  BY <1>2, <1>3, <1>4, <1>5, <1>6, <1>7, <1>8, <1>9 DEF ScreenNext

\* A product that any list shows has a picture in the storage, however many
\* screens, devices and faults there are.
THEOREM PictureFirstCorrect == ScreenSpec => []PictureFirst
<1>1. ScreenInit => FoundInv /\ ScreenTypeInv /\ PictureInv
  BY InitFoundInv, InitScreenTypeInv, InitPictureInv DEF ScreenInit
<1>2. FoundInv /\ ScreenTypeInv /\ PictureInv /\ [ScreenNext]_allVars
        => (FoundInv /\ ScreenTypeInv /\ PictureInv)'
  BY NextFoundInv, NextScreenTypeInv, NextPictureInv, ScreenStep
<1>3. FoundInv /\ PictureInv => PictureFirst
  BY DEF FoundInv, OnlyFound, Shows, Found, PictureInv, PictureFirst, Listed, Nodes
<1> QED
  BY <1>1, <1>2, <1>3, PTL DEF ScreenSpec

-----------------------------------------------------------------------------
(* A dismissed screen has recorded its product *)

\* All that is needed of the insertion, and the types of the screen.
BaseInv == OrderInv /\ FoundInv /\ ScreenTypeInv

\* A write acknowledged as performed is of a recorded product: it records it, or
\* it comes behind the write that does.
LEMMA SuccessIsRecorded ==
    ASSUME BaseInv, NEW d \in Devices, Completion(d), Head(pending[d]).fate = "ok"
    PROVE  \E p \in Products : p = Head(pending[d]).by[1] /\ Recorded(p)
<1>1. PICK put \in Writes : /\ put = Head(pending[d])
                            /\ put = pending[d][1]
                            /\ 1 \in DOMAIN pending[d]
  BY OldestWrite DEF BaseInv
<1>2. put.by[1] \in Products /\ put.fate = "ok"
  BY <1>1 DEF Writes
<1>3. CASE put.by[2] = "id"
  BY <1>1, <1>2, <1>3 DEF BaseInv, OrderInv, RecordWrites, RecordWrite
<1>4. CASE put.by[2] # "id"
  <2>1. put.by[1] \in Elements(put.val.list)
    BY <1>1, <1>4 DEF BaseInv, FoundInv, OnlyFound, Fits
  <2>2. RecordedBefore(put.by[1], d, 1)
    BY <1>1, <2>1 DEF BaseInv, OrderInv, QueueOrder
  <2>3. \A j \in DOMAIN pending[d] : ~ (j < 1)
    BY EntryType DEF BaseInv, OrderInv, TypeInv
  <2> QED
    BY <1>1, <1>2, <2>2, <2>3 DEF RecordedBefore
<1> QED
  BY <1>1, <1>2, <1>3, <1>4

\* What excuses a dismissed screen s stays.
Excused(s) == FailedUnderneath(s) \/ \E p \in Published(s) : Recorded(p)

LEMMA ExcusedStays ==
    ASSUME BaseInv, [ScreenNext]_allVars, NEW s \in Screens, Excused(s)
    PROVE  Excused(s)'
<1>1. [Next]_vars /\ UNCHANGED <<form, screenOf>>
  BY ScreenStep, FormsStay
<1>2. \A p \in Products : Recorded(p) => Recorded(p)'
  BY <1>1, RecordedStays DEF BaseInv
<1>3. ASSUME NEW q \in Products, head[q]["user"] = "notFound"
      PROVE  head'[q]["user"] = "notFound"
  <2>1. CASE Continued
    BY <1>3, <2>1, UserHeadStays DEF BaseInv
  <2>2. ASSUME NEW p \in Products, Begin(p)
        PROVE  head'[q]["user"] = "notFound"
    BY <1>3, <2>2 DEF Begin, BaseInv, OrderInv, TypeInv, TypeOK
  <2> QED
    BY <1>1, <2>1, <2>2 DEF Next, Publication, Continued
<1>4. CASE FailedUnderneath(s)
  BY <1>1, <1>3, <1>4 DEF FailedUnderneath, Excused, InTab, Published
<1>5. CASE \E p \in Published(s) : Recorded(p)
  BY <1>1, <1>2, <1>5 DEF Excused, Published
<1> QED
  BY <1>4, <1>5 DEF Excused

\* Only insertProduct's completions dismiss a screen: the first success its own,
\* a failure on the form in the tab the one above it.
LEMMA DismissedByReport ==
    ASSUME BaseInv, NEW p \in Products, NEW success \in BOOLEAN, Report(p, success),
           NEW s \in Screens, page[s] # "dismissed", page'[s] = "dismissed"
    PROVE  \/ success /\ s = screenOf[p]
           \/ ~ success /\ InTab(screenOf[p]) /\ s \in Modal(form[p].dev)
<1>1. page[screenOf[p]] = "open"
  BY DEF Report
<1>2. ASSUME NEW screens, TakeDown(screens)
      PROVE  s \in screens
  BY <1>2 DEF TakeDown
<1>3. CASE success
  <2>1. Dismiss(screenOf[p])
    BY <1>1, <1>3 DEF Report, Success
  <2> QED
    BY <1>2, <1>3, <2>1 DEF Dismiss
<1>4. CASE ~ success
  <2>1. Failure(screenOf[p], Modal(form[p].dev))
    BY <1>1, <1>4 DEF Report
  <2> QED
    BY <1>2, <1>4, <2>1 DEF Failure
<1> QED
  BY <1>3, <1>4

\* Whatever dismisses a screen excuses it.
LEMMA NextDismissed ==
    ASSUME BaseInv, DismissedMeansRecorded, [ScreenNext]_allVars
    PROVE  DismissedMeansRecorded'
<1> SUFFICES ASSUME NEW s \in Screens, page'[s] = "dismissed"
             PROVE  Excused(s)'
  BY DEF DismissedMeansRecorded, Excused, Recorded
<1>1. [Next]_vars /\ UNCHANGED <<form, screenOf>>
  BY ScreenStep, FormsStay
<1>2. CASE page[s] = "dismissed"
  BY <1>2, ExcusedStays DEF DismissedMeansRecorded, Excused, Recorded
<1>3. ASSUME page[s] # "dismissed", NEW p \in Products, UserNotFound(p)
      PROVE  Excused(s)'
  <2>1. InTab(screenOf[p]) /\ s \in Modal(form[p].dev)
    BY <1>3, DismissedByReport DEF UserNotFound
  <2>2. PICK q \in Published(s) : form[q].dev = form[p].dev
    BY <2>1 DEF Modal, OpenOn
  <2>3. head'[p]["user"] = "notFound"
    BY <1>3 DEF UserNotFound, UserMissing, BaseInv, OrderInv, TypeInv, TypeOK, Heads
  <2> QED
    BY <1>1, <2>1, <2>2, <2>3 DEF Excused, FailedUnderneath, InTab, Published
<1>4. ASSUME page[s] # "dismissed", NEW d \in Devices, Completed(d)
      PROVE  Excused(s)'
  <2>1. PICK put \in Writes : /\ put = Head(pending[d])
                              /\ put = pending[d][1]
                              /\ 1 \in DOMAIN pending[d]
    BY <1>4, OldestWrite DEF BaseInv, Completed
  <2>2. put.by[1] \in Products /\ Report(put.by[1], put.fate = "ok")
    BY <1>4, <2>1 DEF Completed, Writes
  <2>3. CASE put.fate = "ok"
    <3>1. Recorded(put.by[1]) /\ s = screenOf[put.by[1]]
      BY <1>3, <1>4, <2>1, <2>2, <2>3, SuccessIsRecorded, DismissedByReport DEF Completed
    <3>2. Recorded(put.by[1])'
      BY <1>1, <2>2, <3>1, RecordedStays DEF BaseInv
    <3> QED
      BY <1>1, <2>2, <3>1, <3>2 DEF Excused, Published
  <2>4. CASE put.fate # "ok"
    <3>1. InTab(screenOf[put.by[1]])
      BY <1>4, <2>2, <2>4, DismissedByReport
    <3>2. form[put.by[1]].cat = NoCategory
      BY <2>2, <3>1 DEF InTab, Published, BaseInv, ScreenTypeInv, OneForm
    <3>3. form[put.by[1]].cat \in Categories
      BY <2>1 DEF BaseInv, OrderInv, TypeInv, Categorized
    <3> QED
      BY <3>2, <3>3, NamesAssumption
  <2> QED
    BY <2>3, <2>4
<1>5. ASSUME page[s] # "dismissed", ~ \E p \in Products : UserNotFound(p),
             ~ \E d \in Devices : Completed(d)
      PROVE  FALSE
  <2> USE DEF BaseInv, ScreenTypeInv, ScreenTypeOK
  <2>1. ASSUME NEW p \in Products,
               \/ Open(p) \/ Tap(p) \/ TapRefused(p)
               \/ Stored(p) \/ UploadFails(p) \/ Uploaded(p)
        PROVE  FALSE
    BY <1>5, <2>1 DEF Open, Tap, TapRefused, Stored, UploadFails, Uploaded
  <2>2. ASSUME NEW t \in Screens, CloseAlert(t) \/ Back(t)
        PROVE  FALSE
    BY <1>5, <2>2 DEF CloseAlert, Back
  <2>3. ASSUME NEW d \in Devices, Ends(d)
        PROVE  FALSE
    BY <1>5, <2>3 DEF Ends, ScreensEnd
  <2>4. CASE Silent \/ UNCHANGED allVars
    BY <1>5, <2>4 DEF Silent, screenVars, allVars
  <2> QED
    BY <1>5, <2>1, <2>2, <2>3, <2>4 DEF ScreenNext
<1> QED
  BY <1>2, <1>3, <1>4, <1>5

\* Whichever of the up to four completions comes first, and whatever fails, a
\* screen is only dismissed once its product's own node is in the database or
\* the write of it was denied, or because the form in the tab failed under it.
THEOREM DismissedCorrect == ScreenSpec => []DismissedMeansRecorded
<1>1. ScreenInit => BaseInv /\ DismissedMeansRecorded
  <2>1. ScreenInit => BaseInv
    BY InitOrderInv, InitFoundInv, InitScreenTypeInv DEF ScreenInit, BaseInv
  <2>2. ScreenInit => DismissedMeansRecorded
    BY DEF ScreenInit, DismissedMeansRecorded
  <2> QED
    BY <2>1, <2>2
<1>2. BaseInv /\ DismissedMeansRecorded /\ [ScreenNext]_allVars
        => (BaseInv /\ DismissedMeansRecorded)'
  BY NextOrderInv, NextFoundInv, NextScreenTypeInv, ScreenStep, NextDismissed DEF BaseInv
<1> QED
  BY <1>1, <1>2, PTL DEF ScreenSpec

-----------------------------------------------------------------------------
(* Trying again publishes once *)

\* Between the tap and the end of its upload or of its search for the user.
Live(p) ==
    /\ upload[p] \in {"putting", "fetching", "inserting"}
    /\ head[p]["user"] # "notFound"

\* insertProduct is called from the upload; an answer "denied" is of a denied
\* write.
AnswersTrue ==
    /\ \A p \in Products : head[p]["user"] # "none" => upload[p] = "inserting"
    /\ \A d \in Devices : \A i \in DOMAIN pending[d] :
          pending[d][i].fate = "denied" => pending[d][i].by \in denied

\* The screen of a live product was opened, and while it stays open it shows the
\* spinner and no alert, and makes no second live product; all this unless a
\* write of one of its products was denied.
OneLive ==
    /\ \A p \in Products : Live(p) => page[screenOf[p]] # "away"
    /\ \A p, q \in Products :
          screenOf[p] = screenOf[q] /\ Live(p) /\ Live(q)
          => p = q \/ DeniedOn(screenOf[p])
    /\ \A p \in Products :
          Live(p) /\ page[screenOf[p]] = "open"
          => \/ DeniedOn(screenOf[p])
             \/ screenOf[p] \in spinner /\ screenOf[p] \notin alert

OnceInv == FoundInv /\ ScreenTypeInv /\ AnswersTrue /\ OneLive

\* A step of the insertion keeps the answers true.
LEMMA NextAnswers ==
    ASSUME TypeInv, AnswersTrue, [Next]_vars
    PROVE  \A d \in Devices : \A i \in DOMAIN pending'[d] :
               pending'[d][i].fate = "denied" => pending'[d][i].by \in denied'
<1>0. ASSUME NEW d \in Devices, Server(d)
      PROVE  \E k \in DOMAIN pending[d] :
          /\ pending[d][k] \in Writes
          /\ DOMAIN pending'[d] = DOMAIN pending[d]
          /\ \A j \in DOMAIN pending[d] : j # k => pending'[d][j] = pending[d][j]
          /\ pending'[d][k] = [pending[d][k] EXCEPT !.fate =
                IF pending[d][k].by \in denied THEN "denied" ELSE "ok"]
          /\ \A f \in Devices \ {d} : pending'[f] = pending[f]
          /\ UNCHANGED <<feed, alive, form, head, snap, denied, shared>>
  BY <1>0, ServerStep, Zenon
<1> USE DEF AnswersTrue, TypeInv, TypeOK
<1>1. denied \subseteq denied'
  BY StepShape
<1> SUFFICES ASSUME NEW e \in Devices, NEW i \in DOMAIN pending'[e],
                    pending'[e][i].fate = "denied"
             PROVE  pending'[e][i].by \in denied'
  OBVIOUS
<1>2. ASSUME UNCHANGED pending
      PROVE  pending'[e][i].by \in denied'
  BY <1>1, <1>2
<1>3. ASSUME NEW d \in Devices, NEW puts \in Seq(Writes), Enqueue(d, puts),
             \A j \in DOMAIN puts : puts[j].fate = "sent"
      PROVE  pending'[e][i].by \in denied'
  <2>1. pending' = [pending EXCEPT ![d] = @ \o puts] /\ pending[d] \in Seq(Writes)
    BY <1>3 DEF Enqueue
  <2>2. CASE e # d
    BY <1>1, <2>1, <2>2
  <2>3. CASE e = d
    <3>1. pending'[e] = pending[d] \o puts
      BY <2>1, <2>3
    <3>2. CASE i \in DOMAIN pending[d]
      <4>1. pending'[e][i] = pending[d][i]
        BY <2>1, <3>1, <3>2
      <4> QED
        BY <1>1, <3>2, <4>1
    <3>3. CASE i \notin DOMAIN pending[d]
      <4>1. i \in DOMAIN (pending[d] \o puts) /\ i \notin 1..Len(pending[d])
        BY <2>1, <3>1, <3>3
      <4>2. i - Len(pending[d]) \in DOMAIN puts
        BY <1>3, <2>1, <4>1
      <4>3. pending'[e][i] = puts[i - Len(pending[d])]
        BY <1>3, <2>1, <3>1, <4>1
      <4> QED
        BY <1>3, <4>2, <4>3
    <3> QED
      BY <3>2, <3>3
  <2> QED
    BY <2>2, <2>3
<1>4. ASSUME NEW p \in Products, Publication(p)
      PROVE  pending'[e][i].by \in denied'
  <2>1. CASE \/ Begin(p) \/ UserMissing(p) \/ NoCategoryException(p)
             \/ \E h \in ReadHeads : Raise(p, h)
    BY <1>2, <2>1 DEF Begin, UserMissing, NoCategoryException, Crash, Raise, dbVars
  <2>2. CASE UserFound(p)
    <3> DEFINE puts == << Put(<<p, "id">>, p, Record),
                          Put(<<p, "user">>, form[p].owner, Listing(snap[p]["user"], p)) >>
    <3>1. form[p].dev \in Devices /\ Enqueue(form[p].dev, puts)
      BY <2>2 DEF UserFound, Forms
    <3>2. puts \in Seq(Writes)
      <4>1. Put(<<p, "id">>, p, Record) \in Writes
        BY ConstantContents DEF Put, Writes, Heads, Nodes, Fates
      <4>2. form[p].owner \in Users /\ snap[p]["user"] \in Content
        BY DEF Forms, ReadHeads
      <4>3. Put(<<p, "user">>, form[p].owner, Listing(snap[p]["user"], p)) \in Writes
        BY <4>2, ListingType DEF Put, Writes, Heads, Nodes, ListNodes, Fates
      <4> QED
        BY <4>1, <4>3
    <3>3. \A j \in DOMAIN puts : puts[j].fate = "sent"
      BY DEF Put
    <3> HIDE DEF puts
    <3> QED
      BY <1>3, <3>1, <3>2, <3>3
  <2>3. ASSUME NEW h \in ListHeads, ListRead(p, h)
        PROVE  pending'[e][i].by \in denied'
    <3> DEFINE puts == << Put(<<p, h>>, Target(p, h), Listing(snap[p][h], p)) >>
    <3>1. form[p].dev \in Devices /\ Enqueue(form[p].dev, puts) /\ head[p][h] = "raised"
      BY <2>3 DEF ListRead, WriteList, Forms
    <3>2. h \in Heads /\ snap[p][h] \in Content /\ form[p].cat \in Categories
      BY <3>1, CategoryOfHead, ReadHeadsAreHeads DEF ListHeads
    <3>3. puts \in Seq(Writes)
      <4>1. Target(p, h) \in Nodes /\ Listing(snap[p][h], p) \in Content
        BY <3>2, TargetType, ListingType
      <4>2. Put(<<p, h>>, Target(p, h), Listing(snap[p][h], p)) \in Writes
        BY <3>2, <4>1 DEF Put, Writes, Fates
      <4> QED
        BY <4>2
    <3>4. \A j \in DOMAIN puts : puts[j].fate = "sent"
      BY DEF Put
    <3> HIDE DEF puts
    <3> QED
      BY <1>3, <3>1, <3>3, <3>4
  <2> QED
    BY <1>4, <2>1, <2>2, <2>3 DEF Publication
<1>5. ASSUME NEW d \in Devices, Device(d)
      PROVE  pending'[e][i].by \in denied'
  <2>1. CASE Server(d)
    <3>1. PICK k \in DOMAIN pending[d] :
            /\ pending[d][k] \in Writes
            /\ DOMAIN pending'[d] = DOMAIN pending[d]
            /\ \A j \in DOMAIN pending[d] : j # k => pending'[d][j] = pending[d][j]
            /\ pending'[d][k] = [pending[d][k] EXCEPT !.fate =
                  IF pending[d][k].by \in denied THEN "denied" ELSE "ok"]
            /\ \A f \in Devices \ {d} : pending'[f] = pending[f]
            /\ UNCHANGED <<feed, alive, form, head, snap, denied, shared>>
      BY <1>0, <2>1
    <3>2. CASE e = d /\ i = k
      BY <3>1, <3>2 DEF Writes
    <3>3. CASE ~ (e = d /\ i = k)
      <4>1. i \in DOMAIN pending[e] /\ pending'[e][i] = pending[e][i]
        BY <3>1, <3>3
      <4> QED
        BY <1>1, <4>1
    <3> QED
      BY <3>2, <3>3
  <2>2. CASE Completion(d)
    <3>1. pending' = [pending EXCEPT ![d] = Tail(@)] /\ pending[d] # <<>>
      BY <2>2 DEF Completion, Acknowledge, CatchUp
    <3>2. CASE e # d
      BY <1>1, <3>1, <3>2
    <3>3. CASE e = d
      <4>1. i + 1 \in DOMAIN pending[d] /\ pending'[e][i] = pending[d][i + 1]
        BY <3>1, <3>3
      <4> QED
        BY <1>1, <3>3, <4>1
    <3> QED
      BY <3>2, <3>3
  <2>3. CASE ConnectionLost(d)
    <3>1. PICK kept \in 0..Len(pending[d]) : pending' = [pending EXCEPT ![d] = Unsent(d, kept)]
      BY <2>3 DEF ConnectionLost, Reconnect
    <3>2. CASE e # d
      BY <1>1, <3>1, <3>2
    <3>3. CASE e = d
      <4>1. pending'[e] = Unsent(d, kept)
        BY <3>1, <3>3
      <4>2. i \in DOMAIN pending[d] /\ pending[d][i] \in Writes
        BY <4>1, EntryType DEF Unsent
      <4>3. pending'[e][i] = pending[d][i] \/ pending'[e][i].fate = "sent"
        BY <4>1, <4>2 DEF Unsent, Writes
      <4> QED
        BY <1>1, <3>3, <4>2, <4>3
    <3> QED
      BY <3>2, <3>3
  <2>4. CASE LoseQueue(d)
    <3>1. pending'[e] = <<>> \/ pending'[e] = pending[e]
      BY <2>4 DEF LoseQueue, Drop
    <3> QED
      BY <1>1, <3>1
  <2>5. CASE Kill(d) \/ Refresh(d)
    BY <1>2, <2>5 DEF Kill, Crash, Refresh, Push, Relaunch, CatchUp
  <2> QED
    BY <1>5, <2>1, <2>2, <2>3, <2>4, <2>5 DEF Device
<1>6. CASE UNCHANGED vars
  BY <1>2, <1>6 DEF vars, dbVars
<1> QED
  BY <1>4, <1>5, <1>6 DEF Next

\* A completion on one screen leaves every other one as it is or dismisses it; a
\* success on a screen without an alert dismisses that one.
LEMMA ReportElsewhere ==
    ASSUME ScreenTypeInv, NEW p \in Products, NEW success \in BOOLEAN, Report(p, success),
           NEW t \in Screens
    PROVE  /\ page'[t] \in {page[t], "dismissed"}
           /\ t # screenOf[p] /\ page'[t] # "dismissed" =>
                 /\ t \in spinner => t \in spinner'
                 /\ t \notin alert => t \notin alert'
           /\ t = screenOf[p] /\ success /\ t \notin alert => page'[t] # "open"
<1> USE DEF ScreenTypeInv, ScreenTypeOK
<1>1. screenOf[p] \in Screens
  OBVIOUS
<1>2. CASE page[screenOf[p]] # "open"
  BY <1>2 DEF Report
<1>3. ASSUME NEW screens, TakeDown(screens)
      PROVE  /\ page'[t] \in {page[t], "dismissed"}
             /\ t \in screens => page'[t] = "dismissed"
             /\ t \notin alert => t \notin alert'
  BY <1>3 DEF TakeDown
<1>4. CASE page[screenOf[p]] = "open" /\ success
  <2>1. Dismiss(screenOf[p]) /\ spinner' = spinner \ {screenOf[p]}
    BY <1>4 DEF Report, Success
  <2>2. CASE screenOf[p] \in alert
    BY <1>4, <2>1, <2>2 DEF Dismiss
  <2>3. CASE screenOf[p] \notin alert
    BY <1>3, <1>4, <2>1, <2>3 DEF Dismiss
  <2> QED
    BY <2>2, <2>3
<1>5. CASE page[screenOf[p]] = "open" /\ ~ success
  <2> DEFINE over == Modal(form[p].dev)
  <2>1. Failure(screenOf[p], over)
    BY <1>5 DEF Report
  <2>2. CASE InTab(screenOf[p]) /\ over # {}
    <3>1. TakeDown(over) /\ spinner' = spinner \ over
      BY <2>1, <2>2 DEF Failure
    <3> HIDE DEF over
    <3> QED
      BY <1>3, <1>5, <3>1
  <2>3. CASE ~ (InTab(screenOf[p]) /\ over # {})
    <3>1. /\ UNCHANGED <<page, spinner>>
          /\ \/ alert' = alert \ {screenOf[p]}
             \/ alert' = alert \cup {screenOf[p]}
      BY <2>1, <2>3 DEF Failure
    <3> QED
      BY <1>5, <3>1
  <2> QED
    BY <2>2, <2>3
<1> QED
  BY <1>2, <1>4, <1>5

\* A screen has at most one live product, and waits for it.
LEMMA NextOnceInv ==
    ASSUME OnceInv, [ScreenNext]_allVars
    PROVE  AnswersTrue' /\ OneLive'
<1>1. /\ [Next]_vars
      /\ UNCHANGED <<form, screenOf>>
      /\ denied \subseteq denied'
  BY ScreenStep, FormsStay, StepShape DEF OnceInv, FoundInv
<1>2. \A s \in Screens : DeniedOn(s) => DeniedOn(s)'
  BY <1>1 DEF DeniedOn, Published
<1>3. ASSUME \A q \in Products : head'[q]["user"] # "none" => upload'[q] = "inserting"
      PROVE  AnswersTrue'
  BY <1>1, <1>3, NextAnswers DEF OnceInv, FoundInv, AnswersTrue
<1> USE DEF OnceInv, ScreenTypeInv, ScreenTypeOK, TypeInv, TypeOK, Uploads
\* Steps that make no product live.
<1>4. ASSUME \A q \in Products : Live(q)' => Live(q),
             \A t \in Screens : page'[t] = "away" => page[t] = "away",
             \A q \in Products :
                Live(q) /\ Live(q)' /\ page'[screenOf[q]] = "open"
                => \/ DeniedOn(screenOf[q])
                   \/ screenOf[q] \in spinner' /\ screenOf[q] \notin alert'
      PROVE  OneLive'
  <2>1. ASSUME NEW q \in Products, Live(q)'
        PROVE  page'[screenOf'[q]] # "away"
    BY <1>1, <1>4, <2>1 DEF OneLive
  <2>2. ASSUME NEW q \in Products, NEW r \in Products, screenOf'[q] = screenOf'[r],
               Live(q)', Live(r)'
        PROVE  q = r \/ DeniedOn(screenOf[q])'
    BY <1>1, <1>2, <1>4, <2>2 DEF OneLive
  <2>3. ASSUME NEW q \in Products, Live(q)', page'[screenOf'[q]] = "open"
        PROVE  \/ DeniedOn(screenOf[q])'
               \/ screenOf'[q] \in spinner' /\ screenOf'[q] \notin alert'
    BY <1>1, <1>2, <1>4, <2>3
  <2> QED
    BY <2>1, <2>2, <2>3 DEF OneLive
\* Steps of the insertion that do not touch the uploads.
<1>5. ASSUME Continued, UNCHANGED upload
      PROVE  /\ AnswersTrue'
             /\ \A q \in Products : Live(q)' => Live(q)
  <2>1. \A q \in Products : head[q]["user"] \in {"none", "notFound"} =>
            head'[q]["user"] = head[q]["user"]
    BY <1>5, UserHeadStays
  <2> QED
    BY <1>3, <1>5, <2>1 DEF AnswersTrue, Live
<1>6. ASSUME NEW p \in Products, Open(p)
      PROVE  AnswersTrue' /\ OneLive'
  BY <1>4, <1>5, <1>6 DEF Open, OneLive, Continued
<1>7. ASSUME NEW p \in Products, TapRefused(p)
      PROVE  AnswersTrue' /\ OneLive'
  BY <1>4, <1>5, <1>7 DEF TapRefused, Touchable, OneLive, Continued
<1>8. ASSUME NEW s \in Screens, CloseAlert(s) \/ Back(s)
      PROVE  AnswersTrue' /\ OneLive'
  BY <1>4, <1>5, <1>8 DEF CloseAlert, Back, OneLive, Continued
<1>9. ASSUME NEW p \in Products, Tap(p)
      PROVE  AnswersTrue' /\ OneLive'
  <2>1. /\ page[screenOf[p]] = "open" /\ screenOf[p] \notin spinner /\ screenOf[p] \notin alert
        /\ upload[p] = "none" /\ head[p]["user"] = "none"
        /\ UNCHANGED <<vars, page, alert>>
        /\ spinner' = spinner \cup {screenOf[p]}
        /\ \A q \in Products \ {p} : upload'[q] = upload[q]
        /\ upload'[p] # "inserting"
    <3>1. page[screenOf[p]] = "open" /\ OpenOn(form[p].dev) \cap alert = {}
      BY <1>9 DEF Tap, Touchable
    <3>2. screenOf[p] \in OpenOn(form[p].dev)
      BY <3>1 DEF OpenOn, Published
    <3> QED
      BY <1>9, <3>1, <3>2 DEF Tap, Touchable, AnswersTrue
  <2>2. UNCHANGED <<head, denied>>
    BY <2>1 DEF vars, pubVars, listens
  <2>3. AnswersTrue'
    BY <1>3, <2>1, <2>2 DEF AnswersTrue
  <2>4. \A q \in Products \ {p} : Live(q)' => Live(q)
    BY <2>1, <2>2 DEF Live
  <2>5. \A q \in Products : Live(q) /\ screenOf[q] = screenOf[p] => DeniedOn(screenOf[p])
    BY <2>1 DEF OneLive
  <2>6. \A q \in Products : Live(q)' => page'[screenOf'[q]] # "away"
    BY <1>1, <2>1, <2>4 DEF OneLive
  <2>7. ASSUME NEW q \in Products, NEW r \in Products, screenOf'[q] = screenOf'[r],
               Live(q)', Live(r)'
        PROVE  q = r \/ DeniedOn(screenOf[q])'
    <3>1. q = r \/ DeniedOn(screenOf[q])
      BY <1>1, <2>4, <2>5, <2>7 DEF OneLive
    <3>2. CASE DeniedOn(screenOf[q])
      <4>1. PICK s \in Screens : s = screenOf[q] /\ DeniedOn(s)
        BY <3>2
      <4>2. DeniedOn(s)' /\ s = screenOf'[q]
        BY <1>1, <1>2, <4>1
      <4> QED
        BY <4>2
    <3> QED
      BY <3>1, <3>2
  <2>8. ASSUME NEW q \in Products, Live(q)', page'[screenOf'[q]] = "open"
        PROVE  \/ DeniedOn(screenOf[q])'
               \/ screenOf'[q] \in spinner' /\ screenOf'[q] \notin alert'
    <3>1. CASE screenOf[q] = screenOf[p]
      BY <1>1, <2>1, <3>1
    <3>2. CASE screenOf[q] # screenOf[p]
      BY <1>1, <1>2, <2>1, <2>4, <2>8, <3>2 DEF OneLive
    <3> QED
      BY <3>1, <3>2
  <2> QED
    BY <2>3, <2>6, <2>7, <2>8 DEF OneLive
<1>10. ASSUME NEW p \in Products, Stored(p)
       PROVE  AnswersTrue' /\ OneLive'
  <2>1. UNCHANGED <<head, page, spinner, alert>>
    BY <1>10 DEF Stored, vars, pubVars, listens
  <2>2. AnswersTrue'
    BY <1>3, <1>10, <2>1 DEF Stored, AnswersTrue
  <2>3. \A q \in Products : Live(q)' => Live(q)
    BY <1>10, <2>1 DEF Stored, Live
  <2> QED
    BY <1>4, <2>1, <2>2, <2>3 DEF OneLive
<1>11. ASSUME NEW p \in Products, UploadFails(p)
       PROVE  AnswersTrue' /\ OneLive'
  <2>1. /\ UNCHANGED <<head, page>>
        /\ upload' = [upload EXCEPT ![p] = "failed"]
        /\ upload[p] \in {"putting", "fetching"}
        /\ spinner' = spinner \ {screenOf[p]}
        /\ alert' = alert \/ alert' = alert \cup {screenOf[p]}
    BY <1>11 DEF UploadFails, vars, pubVars, listens
  <2>2. AnswersTrue'
    BY <1>3, <2>1 DEF AnswersTrue
  <2>3. \A q \in Products : Live(q)' => Live(q) /\ q # p
    BY <2>1 DEF Live
  <2>4. Live(p)
    BY <2>1 DEF Live, AnswersTrue
  <2>5. \A q \in Products : Live(q)' /\ screenOf[q] = screenOf[p] => DeniedOn(screenOf[q])
    BY <2>3, <2>4 DEF OneLive
  <2> QED
    BY <1>4, <2>1, <2>2, <2>3, <2>5 DEF OneLive
<1>12. ASSUME NEW p \in Products, Uploaded(p)
       PROVE  AnswersTrue' /\ OneLive'
  <2>1. /\ UNCHANGED <<page, spinner, alert>>
        /\ upload' = [upload EXCEPT ![p] = "inserting"] /\ upload[p] = "fetching"
        /\ head' = [head EXCEPT ![p]["user"] = "asked"] /\ head[p]["user"] = "none"
    BY <1>12 DEF Uploaded, Begin
  <2>2. AnswersTrue'
    BY <1>3, <2>1 DEF AnswersTrue
  <2>3. \A q \in Products : Live(q)' => Live(q)
    BY <2>1 DEF Live, Heads
  <2> QED
    BY <1>4, <2>1, <2>2, <2>3 DEF OneLive
<1>13. ASSUME NEW p \in Products, UserNotFound(p)
       PROVE  AnswersTrue' /\ OneLive'
  <2>1. Report(p, FALSE) /\ UNCHANGED upload /\ Continued
    BY <1>13 DEF UserNotFound, Report, Continued
  <2>2. AnswersTrue' /\ \A q \in Products : Live(q)' => Live(q)
    BY <1>5, <2>1
  <2>3. head' = [head EXCEPT ![p]["user"] = "notFound"] /\ head[p]["user"] = "raised"
    BY <1>13 DEF UserNotFound, UserMissing
  <2>4. ~ Live(p)'
    BY <2>3 DEF Live, Heads
  <2>5. Live(p)
    BY <2>3 DEF Live, AnswersTrue
  <2>6. \A q \in Products : Live(q)' /\ screenOf[q] = screenOf[p] => DeniedOn(screenOf[q])
    BY <2>2, <2>4, <2>5 DEF OneLive
  <2>7. ASSUME NEW q \in Products, Live(q), Live(q)', page'[screenOf[q]] = "open"
        PROVE  \/ DeniedOn(screenOf[q])
               \/ screenOf[q] \in spinner' /\ screenOf[q] \notin alert'
    BY <2>1, <2>6, <2>7, ReportElsewhere DEF OneLive
  <2>8. \A t \in Screens : page'[t] = "away" => page[t] = "away"
    BY <2>1, ReportElsewhere
  <2> QED
    BY <1>4, <2>2, <2>7, <2>8
<1>14. ASSUME NEW d \in Devices, Completed(d)
       PROVE  AnswersTrue' /\ OneLive'
  <2>1. PICK put \in Writes : /\ put = Head(pending[d])
                              /\ put = pending[d][1]
                              /\ 1 \in DOMAIN pending[d]
                              /\ put.by[1] \in Found
    BY <1>14, OldestWrite DEF Completed
  <2>2. PICK p \in Products, h \in Heads : put.by = <<p, h>>
    BY DEF Writes
  <2>3. Report(p, put.fate = "ok") /\ UNCHANGED upload /\ Continued
    <3>1. Report(put.by[1], put.fate = "ok")
      BY <1>14, <2>1 DEF Completed
    <3>2. Continued
      BY <1>14 DEF Completed, Continued, Device
    <3>3. put.by[1] = p
      BY <2>2
    <3>4. Report(p, put.fate = "ok")
      BY <3>1, <3>3, Zenon
    <3> QED
      BY <3>2, <3>4 DEF Report
  <2>4. AnswersTrue' /\ \A q \in Products : Live(q)' => Live(q)
    BY <1>5, <2>3
  <2>5. p \in Found
    BY <2>1, <2>2
  <2>6. Live(p)
    BY <2>5 DEF Found, Live, AnswersTrue
  <2>7. put.fate = "ok" \/ DeniedOn(screenOf[p])
    <3>1. put.fate # "sent"
      BY <1>14, <2>1 DEF Completed, Completion, Acknowledge, CatchUp
    <3>2. put.fate = "denied" => <<p, h>> \in denied
      <4>1. put.fate = "denied" => put.by \in denied
        BY <2>1 DEF AnswersTrue
      <4> QED
        BY <2>2, <4>1
    <3> QED
      BY <3>1, <3>2 DEF Writes, Fates, DeniedOn, Published
  <2>8. ASSUME NEW q \in Products, Live(q), page'[screenOf[q]] = "open"
        PROVE  \/ DeniedOn(screenOf[q])
               \/ screenOf[q] \in spinner' /\ screenOf[q] \notin alert'
    <3>1. page[screenOf[q]] = "open" /\ page'[screenOf[q]] # "dismissed"
      BY <2>3, <2>8, ReportElsewhere
    <3>2. CASE screenOf[q] # screenOf[p]
      BY <2>3, <2>8, <3>1, <3>2, ReportElsewhere DEF OneLive
    <3>3. CASE screenOf[q] = screenOf[p] /\ ~ DeniedOn(screenOf[p])
      <4>1. screenOf[p] \notin alert /\ put.fate = "ok"
        BY <2>6, <2>7, <3>1, <3>3 DEF OneLive
      <4>2. page'[screenOf[p]] # "open"
        BY <2>3, <4>1, ReportElsewhere
      <4> QED
        BY <2>8, <3>3, <4>2
    <3> QED
      BY <3>2, <3>3
  <2>9. \A t \in Screens : page'[t] = "away" => page[t] = "away"
    BY <2>3, ReportElsewhere
  <2> QED
    BY <1>4, <2>4, <2>8, <2>9
<1>15. ASSUME NEW d \in Devices, Ends(d)
       PROVE  AnswersTrue' /\ OneLive'
  <2>1. Continued
    BY <1>15 DEF Ends, Continued, Device
  <2>2. \A q \in Products : head[q]["user"] \in {"none", "notFound"} =>
            head'[q]["user"] = head[q]["user"]
    BY <2>1, UserHeadStays
  <2>3. \A q \in Products : \/ upload'[q] = upload[q]
                            \/ upload'[q] = "dead" /\ upload[q] # "inserting"
    BY <1>15 DEF Ends, ScreensEnd
  <2>4. AnswersTrue'
    BY <1>3, <2>2, <2>3 DEF AnswersTrue
  <2>5. \A q \in Products : Live(q)' => Live(q)
    BY <2>2, <2>3 DEF Live
  <2>6. \A t \in Screens : \/ page'[t] = "gone"
                           \/ /\ page'[t] = page[t]
                              /\ t \in spinner => t \in spinner'
                              /\ t \notin alert => t \notin alert'
    BY <1>15 DEF Ends, ScreensEnd
  <2> QED
    BY <1>4, <2>4, <2>5, <2>6 DEF OneLive
<1>16. CASE Silent
  <2>1. Continued
    BY <1>16 DEF Silent, Continued, Device
  <2> QED
    BY <1>4, <1>5, <1>16, <2>1 DEF Silent, screenVars, OneLive
<1>17. CASE UNCHANGED allVars
  BY <1>4, <1>5, <1>17 DEF allVars, screenVars, Continued, OneLive
<1> QED
  BY <1>6, <1>7, <1>8, <1>9, <1>10, <1>11, <1>12, <1>13, <1>14, <1>15, <1>16, <1>17
  DEF ScreenNext

\* However often a form is sent again, of the products one screen made at most
\* one reaches a list, unless a write of one of them was denied.
THEOREM RetryCorrect == ScreenSpec => []RetryPublishesOnce
<1>1. ScreenInit => OnceInv
  <2>1. ScreenInit => AnswersTrue
    BY DEF ScreenInit, Init, DbInit, AnswersTrue, Heads
  <2>2. ScreenInit => OneLive
    BY DEF ScreenInit, OneLive, Live
  <2> QED
    BY <2>1, <2>2, InitFoundInv, InitScreenTypeInv DEF ScreenInit, OnceInv
<1>2. OnceInv /\ [ScreenNext]_allVars => OnceInv'
  BY NextFoundInv, NextScreenTypeInv, NextOnceInv, ScreenStep DEF OnceInv
<1>3. OnceInv => RetryPublishesOnce
  <2> SUFFICES ASSUME OnceInv, NEW p \in Products, NEW q \in Products,
                      NEW m \in ListNodes, NEW n \in ListNodes,
                      screenOf[p] = screenOf[q], p \in Listed(m), q \in Listed(n)
               PROVE  p = q \/ DeniedOn(screenOf[p])
    BY DEF RetryPublishesOnce
  <2>1. p \in Found /\ q \in Found
    BY DEF OnceInv, FoundInv, OnlyFound, Shows, Listed, Nodes
  <2>2. Live(p) /\ Live(q)
    BY <2>1 DEF OnceInv, AnswersTrue, Found, Live
  <2> QED
    BY <2>2 DEF OnceInv, OneLive
<1> QED
  BY <1>1, <1>2, <1>3, PTL DEF ScreenSpec

=============================================================================
