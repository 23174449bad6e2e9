---------------------------- MODULE FavoritesProofs ----------------------------
(***************************************************************************)
(* Favourites, for any number of devices, screens, calls, publications and  *)
(* faults: every variable keeps its type; while writing jobs take turns a   *)
(* favourite goes only by its own removal and a success has happened; and a *)
(* heart at rest tells the truth.                                           *)
(***************************************************************************)
EXTENDS Favorites, SequenceTheorems, WellFoundedInduction, TLAPS

-----------------------------------------------------------------------------
(* The invariants *)

\* What a job is shows in its stage: only queries have children, only rewrites
\* wait for a write of the user node.
KindsMatch == \A j \in Jobs :
    /\ stage[j] = "idle" <=> kind[j] = "none"
    /\ kind[j] \in {"check", "add", "remove"} => j \in Calls
    /\ kind[j] = "publish" => j \in Publications
    /\ stage[j] = "queued" => kind[j] \in {"add", "publish"}
    /\ stage[j] = "found" => kind[j] \in {"check", "remove"}
    /\ \A k \in Slots : child[j][k] # "none" =>
          kind[j] \in {"check", "remove"} /\ stage[j] \in {"found", "done"}

TypeInv == FavTypeOK /\ KindsMatch

\* A queued write is of a job of this device: of the whole node by a job that
\* waits for this write alone, of a key by a removal that has answered.
Owned(d, w) ==
    /\ DeviceOf(w.by) = d
    /\ w.key = WholeNode => stage[w.by] = "queued"
    /\ w.key # WholeNode => /\ kind[w.by] = "remove" /\ stage[w.by] = "done"
                            /\ child[w.by][w.key] \in {"handled", "none"}
    /\ w.fate = "denied" => w.by \in denied

QueueOwned ==
    /\ \A d \in Devices : \A i \in DOMAIN pending[d] : Owned(d, pending[d][i])
    /\ \A d \in Devices : \A i, k \in DOMAIN pending[d] :
          pending[d][i].key = WholeNode /\ pending[d][k].by = pending[d][i].by => i = k
    /\ \A j \in Jobs : stage[j] = "queued" => Queued(j)

\* A job that will write, or whose writes are under way.
Writing(j) == kind[j] \in Writers /\ Busy(j)

\* Unless contended, one job writes at a time; unless hurried, one call is busy
\* with a product.
Turns ==
    /\ ~contended => \A i, j \in Jobs : Writing(i) /\ Writing(j) => i = j
    /\ \A b, c \in Calls : /\ Busy(b) /\ Busy(c)
                           /\ Product(b) = Product(c) /\ Product(c) \notin hurried
                           => b = c

\* A queued write follows the node: performed it is the node, or has cleared its
\* key; before that it changes the node by its own job's change alone.
Follows(w) ==
    /\ w.key = WholeNode =>
          /\ w.fate = "ok" => node = w.val
          /\ node.made \subseteq w.val.made
          /\ Favs(node.fav) \subseteq Favs(w.val.fav) \/ (kind[w.by] = "add" /\ ~Dense(node.fav))
          /\ kind[w.by] = "add" => Product(w.by) \in Favs(w.val.fav)
          /\ kind[w.by] = "publish" => w.by \in w.val.made
    /\ w.key # WholeNode =>
          /\ w.by \notin outdated => node.fav[w.key] \in {Product(w.by), Nothing}
          /\ w.fate = "ok" => node.fav[w.key] = Nothing

\* What a removal under way has seen and not yet cleared.
Looking(c) == kind[c] = "remove" /\ (stage[c] = "raised" \/ Outstanding(c))

\* While jobs take turns, snapshots, found keys and queued writes follow the node,
\* and so does the cache a removal goes by.
NodeFollowed ==
    ~contended =>
      /\ \A d \in Devices : \A i \in DOMAIN pending[d] : Follows(pending[d][i])
      /\ \A j \in Jobs : kind[j] \in {"add", "publish"} /\ stage[j] = "raised" => snap[j] = node
      /\ \A c \in Calls : Looking(c) /\ c \notin outdated =>
            /\ stage[c] = "raised" => snap[c].fav = node.fav
            /\ \A k \in Slots : child[c][k] \in {"asked", "there", "gone"} =>
                  node.fav[k] \in {Product(c), Nothing}
            /\ listens[DeviceOf(c)] =>
                  \A k \in Slots : node.fav[k] \in {cache[DeviceOf(c)][k], Nothing}

WriteInv == TypeInv /\ QueueOwned /\ Turns /\ NodeFollowed

\* Calls run, and blocks wait, for screens that are shown, on living devices.
Shown(s) == heart[s] \in {"white", "red"}

Running(c) == \/ stage[c] \in {"asked", "raised", "found"} \/ Outstanding(c)
              \/ alive[place[caller[c]].dev] /\ Busy(c)

ScreensShown ==
    /\ \A s \in Screens : Shown(s) => alive[place[s].dev]
    /\ \A s \in Screens : paint[s] # <<>> => Shown(s)
    /\ \A c \in Calls : Running(c) => Shown(caller[c])
    /\ \A s \in Screens : heart[s] = "unopened" => s \notin informed

\* The colour screen s will have once its blocks have run.
Last(s) == IF paint[s] = <<>> THEN heart[s] ELSE paint[s][Len(paint[s])]

Agree(s) == Last(s) = "red" <=> place[s].product \in Favs(node.fav)

\* A removal that has answered and is not through with clearing.
Clearing(c) == kind[c] = "remove" /\ stage[c] = "done" /\ Busy(c)

\* A write that clears key k for removal c is still to be performed.
Clears(c, k) == \E i \in DOMAIN pending[DeviceOf(c)] :
    /\ pending[DeviceOf(c)][i].by = c /\ pending[DeviceOf(c)][i].key = k
    /\ pending[DeviceOf(c)][i].fate = "sent"

\* Every key that still holds the product will be cleared by removal c.
Promised(c) ==
    \A k \in Slots : node.fav[k] = Product(c) => child[c][k] \in {"asked", "there"} \/ Clears(c, k)

WhiteKept == \A c \in Calls :
    Clearing(c) /\ Shown(caller[c]) /\ Product(c) \notin hurried => Last(caller[c]) = "white"

\* A removal that has found its keys, and that nothing keeps from clearing them.
Sworn(c) ==
    /\ kind[c] = "remove" /\ stage[c] \in {"found", "done"} /\ Shown(caller[c])
    /\ ~contended /\ c \notin outdated /\ c \notin denied

PromiseKept == \A c \in Calls : Sworn(c) /\ Busy(c) => Promised(c)

\* A call that will paint the screen, or clear the product, to make them agree.
Settling(c) == (kind[c] = "add" /\ stage[c] = "queued") \/ Clearing(c)

\* The heart agrees with the node, or an own call under way will see to it.
HeartFor(s) ==
    /\ Shown(s)
    /\ place[s].product \notin hurried /\ ~contended
    /\ \A c \in Calls : caller[c] = s => c \notin denied /\ c \notin outdated
    => Agree(s) \/ \E c \in Calls : caller[c] = s /\ Settling(c)

HeartKept == \A s \in informed : HeartFor(s)

HeartInv == WriteInv /\ ScreensShown /\ WhiteKept /\ PromiseKept /\ HeartKept
-----------------------------------------------------------------------------
(* Typing *)

LEMMA ConstantTypes ==
    /\ NoFavorites \in FavLists /\ NoNode \in UserNodes
    /\ 0 \in Slots /\ WholeNode \notin Slots
    /\ \A k \in Slots : k \in Nat
BY FavoritesAssumption DEF NoFavorites, FavLists, NoNode, UserNodes, Slots, WholeNode

\* Where a job runs, and what it is about.
LEMMA JobTypes ==
    ASSUME FavTypeOK
    PROVE  /\ \A j \in Jobs : DeviceOf(j) \in Devices
           /\ \A c \in Calls : /\ c \in Jobs /\ c \notin Publications
                               /\ caller[c] \in Screens
                               /\ Product(c) \in Products /\ Product(c) # Nothing
                               /\ Product(c) = place[caller[c]].product
                               /\ DeviceOf(c) = place[caller[c]].dev
           /\ \A j \in Publications : j \in Jobs /\ j \notin Calls /\ DeviceOf(j) = from[j]
           /\ \A s \in Screens : place[s].dev \in Devices /\ place[s].product \in Products
BY FavoritesAssumption DEF FavTypeOK, DeviceOf, Jobs, Product

LEMMA SeenType ==
    ASSUME FavTypeOK, NEW d \in Devices, NEW base \in UserNodes
    PROVE  Seen(d, base) \in UserNodes
<1> DEFINE last == {i \in Wholes(d) : \A j \in Wholes(d) : j <= i}
           under == IF last = {} THEN base ELSE pending[d][CHOOSE i \in last : TRUE].val
           cleared == {pending[d][i].key :
                          i \in {k \in DOMAIN pending[d] : \A j \in last : j < k}}
<1>1. under \in UserNodes
  <2>1. last # {} => (CHOOSE i \in last : TRUE) \in last
    OBVIOUS
  <2>2. \A i \in last : i \in DOMAIN pending[d]
    BY DEF Wholes
  <2>3. \A i \in DOMAIN pending[d] : pending[d][i] \in Writes
    BY DEF FavTypeOK
  <2>4. last # {} => pending[d][CHOOSE i \in last : TRUE].val \in UserNodes
    BY <2>1, <2>2, <2>3 DEF Writes
  <2> QED
    BY <2>4
<1>2. Seen(d, base) = [under EXCEPT !.fav =
          [k \in Slots |-> IF k \in cleared THEN Nothing ELSE under.fav[k]]]
  BY DEF Seen
<1> HIDE DEF under, cleared
<1>3. [k \in Slots |-> IF k \in cleared THEN Nothing ELSE under.fav[k]] \in FavLists
  BY <1>1 DEF UserNodes, FavLists
<1> QED
  BY <1>1, <1>2, <1>3 DEF UserNodes

LEMMA EnqueueType ==
    ASSUME FavTypeOK, NEW j \in Jobs, NEW key \in Slots \cup {WholeNode}, NEW val \in UserNodes,
           Enqueue(j, key, val)
    PROVE  pending' \in [Devices -> Seq(Writes)] /\ denied' \in SUBSET Jobs
<1>d. PICK d \in Devices : d = DeviceOf(j)
  BY JobTypes
<1>w. PICK w \in Writes : w = [by |-> j, key |-> key, val |-> val, fate |-> "sent"]
  BY DEF Writes
<1>1. pending' = [pending EXCEPT ![d] = Append(pending[d], w)]
  BY <1>d, <1>w DEF Enqueue
<1>2. pending[d] \in Seq(Writes)
  BY DEF FavTypeOK
<1>3. Append(pending[d], w) \in Seq(Writes)
  BY <1>2
<1>4. pending' \in [Devices -> Seq(Writes)]
  BY <1>1, <1>3 DEF FavTypeOK
<1> QED
  BY <1>4 DEF FavTypeOK, Enqueue

LEMMA AnswerType ==
    ASSUME FavTypeOK, NEW c \in Calls, NEW colour \in {"white", "red"}, Answer(c, colour)
    PROVE  paint' \in [Screens -> Seq({"white", "red"})] /\ informed' \in SUBSET Screens
<1>s. PICK s \in Screens : s = caller[c]
  BY JobTypes
<1>1. paint' = [paint EXCEPT ![s] = Append(paint[s], colour)]
  BY <1>s DEF Answer
<1>2. Append(paint[s], colour) \in Seq({"white", "red"})
  BY DEF FavTypeOK
<1>3. informed' \in {informed, informed \cup {s}, informed \ {s}}
  BY <1>s DEF Answer
<1> QED
  BY <1>1, <1>2, <1>3 DEF FavTypeOK

LEMMA WithFavoriteType ==
    ASSUME NEW fav \in FavLists, NEW p \in Products
    PROVE  WithFavorite(fav, p) \in FavLists
BY ConstantTypes DEF WithFavorite, FavLists

LEMMA InitTypeInv == Init => TypeInv
<1> SUFFICES ASSUME Init
             PROVE  TypeInv
  OBVIOUS
<1> USE DEF Init
<1>1. node \in UserNodes
  <2>1. PICK fav \in FavLists : node \in {NoNode, [there |-> TRUE, made |-> {}, fav |-> fav]}
    OBVIOUS
  <2>2. [there |-> TRUE, made |-> {}, fav |-> fav] \in UserNodes
    BY DEF UserNodes
  <2> QED
    BY <2>1, <2>2, ConstantTypes
<1>2. cache \in [Devices -> FavLists] /\ snap \in [Jobs -> UserNodes]
  BY ConstantTypes
<1>3. /\ pending \in [Devices -> Seq(Writes)] /\ paint \in [Screens -> Seq({"white", "red"})]
      /\ alive \in [Devices -> BOOLEAN] /\ listens \in [Devices -> BOOLEAN]
      /\ place \in [Screens -> [dev : Devices, product : Products]]
      /\ from \in [Publications -> Devices]
      /\ heart \in [Screens -> {"unopened", "white", "red", "gone"}]
      /\ caller \in [Calls -> Screens]
      /\ faults \in 0..MaxFaults
  BY FavoritesAssumption
<1>4. /\ kind \in [Jobs -> Kinds] /\ stage \in [Jobs -> Stages]
      /\ child \in [Jobs -> [Slots -> KeyStages]]
  BY DEF Kinds, Stages, KeyStages
<1>5. FavTypeOK
  BY <1>1, <1>2, <1>3, <1>4 DEF FavTypeOK
<1>6. KindsMatch
  BY DEF KindsMatch
<1> QED
  BY <1>5, <1>6 DEF TypeInv

LEMMA StartType ==
    ASSUME TypeInv, NEW j \in Jobs, NEW k \in {"check", "add", "remove", "publish"},
           k # "publish" => j \in Calls, k = "publish" => j \in Publications, Start(j, k),
           heart' \in [Screens -> {"unopened", "white", "red", "gone"}],
           informed' \in SUBSET Screens
    PROVE  TypeInv'
<1> USE DEF TypeInv, FavTypeOK
<1>1. /\ kind' = [kind EXCEPT ![j] = k] /\ stage' = [stage EXCEPT ![j] = "asked"]
      /\ UNCHANGED <<dbVars, place, paint, from, caller, snap, child, denied, faults, outdated>>
      /\ stage[j] = "idle"
  BY DEF Start
<1>2. contended' \in BOOLEAN /\ hurried' \in SUBSET Products
  BY JobTypes DEF Start
<1>3. kind' \in [Jobs -> Kinds] /\ stage' \in [Jobs -> Stages]
  BY <1>1 DEF Kinds, Stages
<1>4. FavTypeOK'
  BY <1>1, <1>2, <1>3 DEF dbVars
<1>5. KindsMatch'
  BY <1>1 DEF KindsMatch
<1> QED
  BY <1>4, <1>5

LEMMA TapsType ==
    ASSUME TypeInv,
           \/ \E c \in Calls : Appear(c) \/ Tap(c)
           \/ \E j \in Publications : Publish(j)
    PROVE  TypeInv'
<1>1. ASSUME NEW c \in Calls, Appear(c)
      PROVE  TypeInv'
  <2>1. c \in Jobs /\ caller[c] \in Screens
    BY JobTypes DEF TypeInv
  <2>2. heart' \in [Screens -> {"unopened", "white", "red", "gone"}]
        /\ informed' \in SUBSET Screens
    BY <1>1, <2>1 DEF Appear, TypeInv, FavTypeOK
  <2> QED
    BY <1>1, <2>1, <2>2, StartType DEF Appear
<1>2. ASSUME NEW c \in Calls, Tap(c)
      PROVE  TypeInv'
  <2>1. c \in Jobs
    BY DEF Jobs
  <2>2. heart' \in [Screens -> {"unopened", "white", "red", "gone"}]
        /\ informed' \in SUBSET Screens
    BY <1>2 DEF Tap, TypeInv, FavTypeOK
  <2>3. \E k \in {"add", "remove"} : Start(c, k)
    BY <1>2 DEF Tap
  <2> QED
    BY <2>1, <2>2, <2>3, StartType
<1>3. ASSUME NEW j \in Publications, Publish(j)
      PROVE  TypeInv'
  <2>1. j \in Jobs
    BY DEF Jobs
  <2>2. heart' \in [Screens -> {"unopened", "white", "red", "gone"}]
        /\ informed' \in SUBSET Screens
    BY <1>3 DEF Publish, TypeInv, FavTypeOK
  <2> QED
    BY <1>3, <2>1, <2>2, StartType DEF Publish
<1> QED
  BY <1>1, <1>2, <1>3

LEMMA ReadsType ==
    ASSUME TypeInv, NEW j \in Jobs, Read(j)
    PROVE  TypeInv'
<1> USE DEF TypeInv, FavTypeOK
<1>d. PICK d \in Devices : d = DeviceOf(j)
  BY JobTypes
<1>1. CASE RaiseNode(j)
  <2>1. NodeView(d) \in UserNodes
    BY SeenType DEF NodeView
  <2>2. snap' \in [Jobs -> UserNodes]
    BY <1>1, <1>d, <2>1 DEF RaiseNode
  <2>3. cache' \in [Devices -> FavLists]
    <3>1. node.fav \in FavLists
      BY DEF UserNodes
    <3> QED
      BY <1>1, <1>d, <3>1 DEF RaiseNode, CatchUp
  <2>4. stage' = [stage EXCEPT ![j] = "raised"] /\ stage[j] = "asked"
    BY <1>1 DEF RaiseNode, Step
  <2>5. stage' \in [Jobs -> Stages]
    BY <2>4 DEF Stages
  <2>6. UNCHANGED <<node, pending, alive, listens, screenVars, from, kind, caller, child,
                    denied, faults, histVars>>
    BY <1>1 DEF RaiseNode
  <2>7. FavTypeOK'
    BY <2>2, <2>3, <2>5, <2>6 DEF screenVars, histVars
  <2>8. KindsMatch'
    BY <2>4, <2>6 DEF KindsMatch
  <2> QED
    BY <2>7, <2>8
<1>2. CASE RaiseQuery(j)
  <2>0. j \in Calls
    BY <1>2 DEF RaiseQuery, KindsMatch
  <2>1. FavView(d) \in UserNodes
    <3>1. [node EXCEPT !.fav = cache[d]] \in UserNodes
      BY DEF UserNodes
    <3> QED
      BY <3>1, SeenType DEF FavView
  <2>2. snap' \in [Jobs -> UserNodes]
    BY <1>2, <1>d, <2>1 DEF RaiseQuery
  <2>4. stage' = [stage EXCEPT ![j] = "raised"] /\ stage[j] = "asked"
    BY <1>2 DEF RaiseQuery, Step
  <2>5. stage' \in [Jobs -> Stages]
    BY <2>4 DEF Stages
  <2>6. UNCHANGED <<dbVars, screenVars, from, kind, caller, child, denied, faults,
                    contended, hurried, informed>>
    BY <1>2 DEF RaiseQuery
  <2>7. outdated' \in SUBSET Calls
    BY <1>2, <2>0 DEF RaiseQuery
  <2>8. FavTypeOK'
    BY <2>2, <2>5, <2>6, <2>7 DEF screenVars, dbVars
  <2>9. KindsMatch'
    BY <2>4, <2>6 DEF KindsMatch
  <2> QED
    BY <2>8, <2>9
<1>3. ASSUME NEW k \in Slots, RaiseChild(j, k)
      PROVE  TypeInv'
  <2>1. PICK x \in {"there", "gone"} : child' = [child EXCEPT ![j][k] = x]
    BY <1>3 DEF RaiseChild
  <2>2. child' \in [Jobs -> [Slots -> KeyStages]]
    BY <2>1 DEF KeyStages
  <2>3. UNCHANGED <<dbVars, screenVars, from, kind, caller, stage, snap, denied, faults, histVars>>
    BY <1>3 DEF RaiseChild
  <2>4. FavTypeOK'
    BY <2>2, <2>3 DEF dbVars, screenVars, histVars
  <2>5. KindsMatch'
    BY <1>3, <2>1, <2>3 DEF KindsMatch, RaiseChild
  <2> QED
    BY <2>4, <2>5
<1> QED
  BY <1>1, <1>2, <1>3 DEF Read

LEMMA RewriteType ==
    ASSUME TypeInv, NEW j \in Jobs, NEW val \in UserNodes, kind[j] \in {"add", "publish"},
           Rewrite(j, val)
    PROVE  TypeInv'
<1> USE DEF TypeInv, FavTypeOK
<1>1. pending' \in [Devices -> Seq(Writes)] /\ denied' \in SUBSET Jobs
  BY EnqueueType DEF Rewrite
<1>2. /\ stage' = [stage EXCEPT ![j] = "queued"] /\ stage[j] = "raised"
      /\ snap' = [snap EXCEPT ![j] = NoNode]
      /\ UNCHANGED <<node, alive, listens, cache, screenVars, from, kind, caller, child,
                     faults, histVars>>
  BY DEF Rewrite, Step
<1>3. stage' \in [Jobs -> Stages] /\ snap' \in [Jobs -> UserNodes]
  BY <1>2, ConstantTypes DEF Stages
<1>4. FavTypeOK'
  BY <1>1, <1>2, <1>3 DEF screenVars, histVars
<1>5. KindsMatch'
  BY <1>2 DEF KindsMatch
<1> QED
  BY <1>4, <1>5

LEMMA ChildType ==
    ASSUME TypeInv, NEW c \in Jobs, NEW k \in Slots, ChildThere(c, k) \/ ChildGone(c, k)
    PROVE  TypeInv'
<1> USE DEF TypeInv, FavTypeOK
<1>0. /\ c \in Calls /\ kind[c] \in {"check", "remove"} /\ stage[c] \in {"found", "done"}
      /\ child' = [child EXCEPT ![c][k] = "handled"]
  BY DEF ChildThere, ChildFound, ChildGone, KindsMatch
<1>1. child' \in [Jobs -> [Slots -> KeyStages]]
  BY <1>0 DEF KeyStages
<1>2. CASE ChildThere(c, k)
  <2>1. pending' \in [Devices -> Seq(Writes)] /\ denied' \in SUBSET Jobs
    <3>1. CASE kind[c] = "remove"
      BY <1>2, <3>1, ConstantTypes, EnqueueType DEF ChildThere, ChildFound
    <3>2. CASE kind[c] # "remove"
      BY <1>2, <3>2 DEF ChildThere, ChildFound
    <3> QED
      BY <3>1, <3>2
  <2>2. paint' \in [Screens -> Seq({"white", "red"})] /\ informed' \in SUBSET Screens
    <3>1. CASE stage[c] = "done"
      BY <1>2, <3>1 DEF ChildThere, ChildFound
    <3>2. CASE stage[c] # "done"
      <4>1. \E x \in {"white", "red"} : Answer(c, x)
        BY <1>2, <3>2 DEF ChildThere, ChildFound
      <4> QED
        BY <1>0, <4>1, AnswerType
    <3> QED
      BY <3>1, <3>2
  <2>3. stage' = [stage EXCEPT ![c] = "done"]
    BY <1>2 DEF ChildThere, ChildFound, Step
  <2>4. UNCHANGED <<node, alive, listens, cache, place, heart, from, kind, caller, snap,
                   faults, contended, hurried, outdated>>
    BY <1>2 DEF ChildThere, ChildFound
  <2>5. stage' \in [Jobs -> Stages]
    BY <2>3 DEF Stages
  <2>6. FavTypeOK'
    BY <1>1, <2>1, <2>2, <2>4, <2>5
  <2>7. KindsMatch'
    BY <1>0, <2>3, <2>4 DEF KindsMatch
  <2> QED
    BY <2>6, <2>7
<1>3. CASE ChildGone(c, k)
  <2>1. paint' \in [Screens -> Seq({"white", "red"})] /\ informed' \in SUBSET Screens
    <3>1. CASE UNCHANGED <<paint, informed>>
      BY <3>1
    <3>2. CASE Answer(c, "white")
      BY <1>0, <3>2, AnswerType
    <3> QED
      BY <1>3, <3>1, <3>2 DEF ChildGone
  <2>2. UNCHANGED <<dbVars, place, heart, from, kind, caller, stage, snap, denied, faults,
                   contended, hurried, outdated>>
    BY <1>3 DEF ChildGone
  <2>3. FavTypeOK'
    BY <1>1, <2>1, <2>2 DEF dbVars
  <2>4. KindsMatch'
    BY <1>0, <2>2 DEF KindsMatch
  <2> QED
    BY <2>3, <2>4
<1> QED
  BY <1>2, <1>3

LEMMA CallbacksType ==
    ASSUME TypeInv, NEW j \in Jobs, Callback(j)
    PROVE  TypeInv'
<1> USE DEF TypeInv, FavTypeOK
<1>1. CASE NodeMissing(j)
  <2>1. /\ stage' = [stage EXCEPT ![j] = "notFound"] /\ stage[j] = "raised"
        /\ UNCHANGED <<dbVars, screenVars, from, kind, caller, snap, child, denied, faults, histVars>>
    BY <1>1 DEF NodeMissing, Step
  <2>2. stage' \in [Jobs -> Stages]
    BY <2>1 DEF Stages
  <2>3. FavTypeOK'
    BY <2>1, <2>2 DEF dbVars, screenVars, histVars
  <2>4. KindsMatch'
    BY <2>1 DEF KindsMatch
  <2> QED
    BY <2>3, <2>4
<1>2. CASE QueryAnswered(j)
  <2>1. PICK x \in {"silent", "found"} :
            /\ stage' = [stage EXCEPT ![j] = x]
            /\ Matches(j) # {} => x = "found"
            /\ kind[j] \in {"check", "remove"} /\ stage[j] = "raised"
            /\ snap' = [snap EXCEPT ![j] = NoNode]
            /\ child' = [child EXCEPT ![j] = [k \in Slots |->
                            IF k \in Matches(j) THEN "asked" ELSE "none"]]
            /\ UNCHANGED <<dbVars, screenVars, from, kind, caller, denied, faults, histVars>>
    BY <1>2 DEF QueryAnswered, Step
  <2>a. [k \in Slots |-> IF k \in Matches(j) THEN "asked" ELSE "none"] \in [Slots -> KeyStages]
    BY DEF KeyStages
  <2>b. child' \in [Jobs -> [Slots -> KeyStages]]
    BY <2>1, <2>a
  <2>2. /\ stage' \in [Jobs -> Stages] /\ snap' \in [Jobs -> UserNodes]
        /\ child' \in [Jobs -> [Slots -> KeyStages]]
    BY <2>1, <2>b, ConstantTypes DEF Stages
  <2>3. FavTypeOK'
    BY <2>1, <2>2 DEF dbVars, screenVars, histVars
  <2>4. KindsMatch'
    <3>1. \A i \in Jobs : i # j => stage'[i] = stage[i] /\ child'[i] = child[i]
      BY <2>1
    <3>2. stage'[j] = x /\ \A k \in Slots : child'[j][k] # "none" => k \in Matches(j)
      BY <2>1
    <3>3. \A k \in Slots : child'[j][k] # "none" => x = "found"
      BY <2>1, <3>2
    <3> QED
      BY <2>1, <3>1, <3>2, <3>3 DEF KindsMatch
  <2> QED
    BY <2>3, <2>4
<1>3. CASE j \in Calls /\ AddFavorite(j)
  <2>1. snap[j].fav \in FavLists /\ Product(j) \in Products
    BY <1>3, JobTypes DEF UserNodes
  <2>2. WithFavorite(snap[j].fav, Product(j)) \in FavLists
    BY <2>1, WithFavoriteType
  <2>3. [snap[j] EXCEPT !.fav = WithFavorite(snap[j].fav, Product(j))] \in UserNodes
    BY <2>2 DEF UserNodes
  <2> QED
    BY <1>3, <2>3, RewriteType DEF AddFavorite
<1>4. CASE j \in Publications /\ AddProduct(j)
  <2>1. [snap[j] EXCEPT !.made = snap[j].made \cup {j}] \in UserNodes
    BY <1>4 DEF UserNodes
  <2> QED
    BY <1>4, <2>1, RewriteType DEF AddProduct
<1>5. CASE \E k \in Slots : ChildThere(j, k) \/ ChildGone(j, k)
  BY <1>5, ChildType
<1> QED
  BY <1>1, <1>2, <1>3, <1>4, <1>5 DEF Callback

LEMMA ScreenType ==
    ASSUME TypeInv,
           \/ \E c \in Calls : QueryDenied(c)
           \/ \E s \in Screens : Paint(s)
           \/ \E d \in Devices : VisitFavorites(d) \/ Push(d) \/ Relaunch(d)
    PROVE  TypeInv'
<1> USE DEF TypeInv, FavTypeOK
<1>1. ASSUME NEW c \in Calls, QueryDenied(c)
      PROVE  TypeInv'
  <2>1. /\ stage' = [stage EXCEPT ![c] = "failed"] /\ stage[c] = "asked" /\ c \in Jobs
        /\ denied' = denied \cup {c}
        /\ UNCHANGED <<dbVars, place, heart, from, kind, caller, snap, child, faults,
                       contended, hurried, outdated>>
    BY <1>1 DEF QueryDenied, Step, Jobs
  <2>2. paint' \in [Screens -> Seq({"white", "red"})] /\ informed' \in SUBSET Screens
    <3>1. CASE UNCHANGED <<paint, informed>>
      BY <3>1
    <3>2. CASE Answer(c, "white")
      BY <3>2, AnswerType
    <3> QED
      BY <1>1, <3>1, <3>2 DEF QueryDenied
  <2>3. stage' \in [Jobs -> Stages]
    BY <2>1 DEF Stages
  <2>4. FavTypeOK'
    BY <2>1, <2>2, <2>3 DEF dbVars
  <2>5. KindsMatch'
    BY <2>1 DEF KindsMatch
  <2> QED
    BY <2>4, <2>5
<1>2. ASSUME NEW s \in Screens, Paint(s)
      PROVE  TypeInv'
  <2>1. paint[s] \in Seq({"white", "red"}) /\ paint[s] # <<>>
    BY <1>2 DEF Paint
  <2>2. Head(paint[s]) \in {"white", "red"} /\ Tail(paint[s]) \in Seq({"white", "red"})
    BY <2>1
  <2>3. /\ heart' = [heart EXCEPT ![s] = Head(paint[s])]
        /\ paint' = [paint EXCEPT ![s] = Tail(paint[s])]
        /\ UNCHANGED <<dbVars, place, jobVars, denied, faults, histVars>>
    BY <1>2 DEF Paint
  <2>4. FavTypeOK'
    BY <2>2, <2>3 DEF dbVars, jobVars, histVars
  <2>5. KindsMatch'
    BY <2>3 DEF KindsMatch, jobVars
  <2> QED
    BY <2>4, <2>5
<1>3. ASSUME NEW d \in Devices, VisitFavorites(d) \/ Push(d) \/ Relaunch(d)
      PROVE  TypeInv'
  <2>1. /\ UNCHANGED <<node, pending, screenVars, jobVars, denied, faults, histVars>>
        /\ listens' \in {listens, [listens EXCEPT ![d] = TRUE]}
        /\ alive' \in {alive, [alive EXCEPT ![d] = TRUE]}
        /\ cache' \in {cache, [cache EXCEPT ![d] = node.fav]}
    BY <1>3 DEF VisitFavorites, Push, Relaunch
  <2>2. node.fav \in FavLists
    BY DEF UserNodes
  <2>3. FavTypeOK'
    BY <2>1, <2>2 DEF screenVars, jobVars, histVars
  <2>4. KindsMatch'
    BY <2>1 DEF KindsMatch, jobVars
  <2> QED
    BY <2>3, <2>4
<1> QED
  BY <1>1, <1>2, <1>3

-----------------------------------------------------------------------------
(* What the steps do to the queues *)

\* A write enters device d's queue behind the others.
Entered(d, w) ==
    /\ DOMAIN pending'[d] = 1..(Len(pending[d]) + 1)
    /\ \A i \in DOMAIN pending[d] : pending'[d][i] = pending[d][i]
    /\ pending'[d][Len(pending[d]) + 1] = w
    /\ \A e \in Devices : e # d => pending'[e] = pending[e]

\* Write i of device d is performed, or denied.
Served(d, i) ==
    /\ pending[d][i].fate = "sent"
    /\ DOMAIN pending'[d] = DOMAIN pending[d]
    /\ pending'[d][i] = [pending[d][i] EXCEPT !.fate =
                            IF pending[d][i].by \in denied THEN "denied" ELSE "ok"]
    /\ \A k \in DOMAIN pending[d] : k # i => pending'[d][k] = pending[d][k]
    /\ \A e \in Devices : e # d => pending'[e] = pending[e]
    /\ node' = IF pending[d][i].by \in denied THEN node ELSE Applied(pending[d][i])

\* Some writes of device d are to be sent again.
Resent(d) ==
    /\ DOMAIN pending'[d] = DOMAIN pending[d]
    /\ \A i \in DOMAIN pending[d] : pending'[d][i] \in
           {pending[d][i], [pending[d][i] EXCEPT !.fate = "sent"]}
    /\ \A e \in Devices : e # d => pending'[e] = pending[e]

\* The oldest write leaves device d's queue.
Left(d) ==
    /\ 1 \in DOMAIN pending[d] /\ Head(pending[d]) = pending[d][1]
    /\ \A i \in DOMAIN pending'[d] :
          i \in Nat \ {0} /\ i + 1 \in DOMAIN pending[d] /\ pending'[d][i] = pending[d][i + 1]
    /\ \A i \in DOMAIN pending[d] : i # 1 =>
          i \in Nat /\ i - 1 \in DOMAIN pending'[d] /\ pending'[d][i - 1] = pending[d][i]
    /\ \A e \in Devices : e # d => pending'[e] = pending[e]

LEMMA QueueTypes ==
    ASSUME FavTypeOK, NEW d \in Devices
    PROVE  /\ pending[d] \in Seq(Writes) /\ Len(pending[d]) \in Nat
           /\ DOMAIN pending[d] = 1..Len(pending[d])
           /\ \A i \in DOMAIN pending[d] :
                 /\ i \in Nat /\ pending[d][i] \in Writes
                 /\ pending[d][i].by \in Jobs
                 /\ pending[d][i].key \in Slots \cup {WholeNode}
                 /\ pending[d][i].val \in UserNodes
                 /\ pending[d][i].fate \in {"sent", "ok", "denied"}
<1>1. /\ pending[d] \in Seq(Writes) /\ Len(pending[d]) \in Nat
      /\ DOMAIN pending[d] = 1..Len(pending[d])
  BY DEF FavTypeOK
<1>2. \A i \in DOMAIN pending[d] : i \in Nat /\ pending[d][i] \in Writes
  BY <1>1
<1> QED
  BY <1>1, <1>2 DEF Writes

LEMMA EnqueueShape ==
    ASSUME FavTypeOK, NEW j \in Jobs, NEW key, NEW val, Enqueue(j, key, val)
    PROVE  /\ Entered(DeviceOf(j), [by |-> j, key |-> key, val |-> val, fate |-> "sent"])
           /\ denied' \in {denied, denied \cup {j}}
<1>d. PICK d \in Devices : d = DeviceOf(j)
  BY JobTypes
<1>w. PICK w : w = [by |-> j, key |-> key, val |-> val, fate |-> "sent"]
  OBVIOUS
<1>1. pending' = [pending EXCEPT ![d] = Append(pending[d], w)]
  BY <1>d, <1>w DEF Enqueue
<1>2. pending \in [Devices -> Seq(Writes)] /\ pending[d] \in Seq(Writes)
  BY DEF FavTypeOK
<1>3. pending'[d] = Append(pending[d], w) /\ \A e \in Devices : e # d => pending'[e] = pending[e]
  BY <1>1, <1>2
<1>4. Entered(d, w)
  BY <1>2, <1>3 DEF Entered
<1> QED
  BY <1>4, <1>d, <1>w DEF Enqueue

LEMMA ServerShape ==
    ASSUME FavTypeOK, NEW d \in Devices, Server(d)
    PROVE  /\ \E i \in DOMAIN pending[d] :
                 /\ Served(d, i)
                 /\ informed' = {s \in informed :
                       \/ (place[s].product \in Favs(node.fav))
                             = (place[s].product \in Favs(node'.fav))
                       \/ pending[d][i].by \in Calls /\ caller[pending[d][i].by] = s}
           /\ pending' \in [Devices -> Seq(Writes)] /\ node' \in UserNodes
<1>1. PICK i \in DOMAIN pending[d] :
        /\ pending[d][i].fate = "sent"
        /\ pending' = [pending EXCEPT
              ![d][i].fate = IF pending[d][i].by \in denied THEN "denied" ELSE "ok"]
        /\ node' = IF pending[d][i].by \in denied THEN node ELSE Applied(pending[d][i])
        /\ informed' = {s \in informed :
              \/ (place[s].product \in Favs(node.fav)) = (place[s].product \in Favs(node'.fav))
              \/ pending[d][i].by \in Calls /\ caller[pending[d][i].by] = s}
  BY DEF Server
<1> DEFINE w == [pending[d][i] EXCEPT !.fate =
                    IF pending[d][i].by \in denied THEN "denied" ELSE "ok"]
           q == [pending[d] EXCEPT ![i] = w]
<1>2. pending \in [Devices -> Seq(Writes)] /\ pending[d] \in Seq(Writes)
      /\ pending[d][i] \in Writes
  BY DEF FavTypeOK
<1>3. w \in Writes
  BY <1>2 DEF Writes
<1>4. pending' = [pending EXCEPT ![d] = q]
  BY <1>1, <1>2
<1>5. w = [pending[d][i] EXCEPT !.fate = IF pending[d][i].by \in denied THEN "denied" ELSE "ok"]
  OBVIOUS
<1> HIDE DEF w
<1>6. /\ q \in Seq(Writes) /\ DOMAIN q = DOMAIN pending[d] /\ q[i] = w
      /\ \A k \in DOMAIN pending[d] : k # i => q[k] = pending[d][k]
  BY <1>2, <1>3
<1> HIDE DEF q
<1>7. pending' \in [Devices -> Seq(Writes)] /\ pending'[d] = q
      /\ \A e \in Devices : e # d => pending'[e] = pending[e]
  BY <1>2, <1>4, <1>6
<1>8. Served(d, i)
  BY <1>1, <1>5, <1>6, <1>7 DEF Served
<1>9. node' \in UserNodes
  <2>1. node \in UserNodes /\ pending[d][i].val \in UserNodes
        /\ pending[d][i].key \in Slots \cup {WholeNode}
    BY <1>2 DEF FavTypeOK, Writes
  <2>2. [node EXCEPT !.fav[pending[d][i].key] = Nothing] \in UserNodes
    BY <2>1 DEF UserNodes, FavLists
  <2> QED
    BY <1>1, <2>1, <2>2 DEF Applied
<1> QED
  BY <1>1, <1>7, <1>8, <1>9

LEMMA LostShape ==
    ASSUME FavTypeOK, NEW d \in Devices, ConnectionLost(d)
    PROVE  Resent(d) /\ pending' \in [Devices -> Seq(Writes)]
<1>1. pending \in [Devices -> Seq(Writes)] /\ pending[d] \in Seq(Writes)
      /\ DOMAIN pending[d] = 1..Len(pending[d])
  BY DEF FavTypeOK
<1>2. PICK kept \in 0..Len(pending[d]) :
          pending' = [pending EXCEPT ![d] = [i \in DOMAIN pending[d] |->
                IF i <= kept THEN pending[d][i] ELSE [pending[d][i] EXCEPT !.fate = "sent"]]]
  BY <1>1 DEF ConnectionLost
<1> DEFINE q == [i \in DOMAIN pending[d] |->
                IF i <= kept THEN pending[d][i] ELSE [pending[d][i] EXCEPT !.fate = "sent"]]
<1>3. \A i \in DOMAIN pending[d] :
          q[i] \in Writes /\ q[i] \in {pending[d][i], [pending[d][i] EXCEPT !.fate = "sent"]}
  <2> TAKE i \in DOMAIN pending[d]
  <2>1. pending[d][i] \in Writes
    BY <1>1
  <2>2. [pending[d][i] EXCEPT !.fate = "sent"] \in Writes
    BY <2>1 DEF Writes
  <2>3. q[i] \in {pending[d][i], [pending[d][i] EXCEPT !.fate = "sent"]}
    OBVIOUS
  <2> QED
    BY <2>1, <2>2, <2>3
<1>4. q \in Seq(Writes) /\ DOMAIN q = DOMAIN pending[d]
  BY <1>1, <1>3
<1> HIDE DEF q
<1>5. pending' \in [Devices -> Seq(Writes)] /\ pending'[d] = q
      /\ \A e \in Devices : e # d => pending'[e] = pending[e]
  BY <1>1, <1>2, <1>4 DEF q
<1> QED
  BY <1>3, <1>4, <1>5 DEF Resent

LEMMA LeftShape ==
    ASSUME FavTypeOK, NEW d \in Devices, pending[d] # <<>>,
           pending' = [pending EXCEPT ![d] = Tail(@)]
    PROVE  Left(d) /\ pending' \in [Devices -> Seq(Writes)]
<1>1. pending \in [Devices -> Seq(Writes)] /\ pending[d] \in Seq(Writes)
      /\ DOMAIN pending[d] = 1..Len(pending[d]) /\ Len(pending[d]) \in Nat \ {0}
  BY DEF FavTypeOK
<1>2. pending' = [pending EXCEPT ![d] = Tail(pending[d])]
  BY <1>1
<1>3. /\ pending'[d] = Tail(pending[d]) /\ pending'[d] \in Seq(Writes)
      /\ \A e \in Devices : e # d => pending'[e] = pending[e]
      /\ pending' \in [Devices -> Seq(Writes)]
  BY <1>1, <1>2
<1>4. /\ DOMAIN pending'[d] = 1..(Len(pending[d]) - 1)
      /\ \A i \in 1..(Len(pending[d]) - 1) : pending'[d][i] = pending[d][i + 1]
  BY <1>1, <1>3
<1>5. Head(pending[d]) = pending[d][1] /\ 1 \in DOMAIN pending[d]
  BY <1>1
<1> QED
  BY <1>1, <1>3, <1>4, <1>5 DEF Left

-----------------------------------------------------------------------------
(* Typing, continued *)

LEMMA CompletionType ==
    ASSUME TypeInv, QueueOwned, NEW d \in Devices, Completion(d)
    PROVE  TypeInv'
<1> USE DEF TypeInv, FavTypeOK
<1>1. pending' \in [Devices -> Seq(Writes)] /\ Left(d)
  BY LeftShape DEF Completion, Acknowledge
<1>w. PICK w \in Writes : w = pending[d][1] /\ w = Head(pending[d])
  BY <1>1, QueueTypes DEF Left
<1>2. /\ w.by \in Jobs
      /\ w.key = WholeNode => stage[w.by] = "queued" /\ kind[w.by] \in {"add", "publish"}
  BY <1>1, <1>w DEF QueueOwned, Owned, Left, KindsMatch, Writes
<1>3. cache' \in [Devices -> FavLists]
  BY DEF Completion, Acknowledge, CatchUp, UserNodes
<1>4. UNCHANGED <<node, alive, listens, place, heart, from, kind, caller, snap, child,
                  denied, faults, contended, hurried, outdated>>
  BY DEF Completion, Acknowledge
<1>5. CASE w.key # WholeNode
  <2>1. UNCHANGED <<stage, paint, informed>>
    BY <1>5, <1>w DEF Completion, Acknowledge
  <2>2. FavTypeOK'
    BY <1>1, <1>3, <1>4, <2>1
  <2> QED
    BY <1>4, <2>1, <2>2 DEF KindsMatch
<1>6. CASE w.key = WholeNode
  <2>1. /\ stage' = [stage EXCEPT ![w.by] = IF w.fate = "ok" THEN "done" ELSE "failed"]
        /\ \/ UNCHANGED <<paint, informed>>
           \/ w.by \in Calls /\ Answer(w.by, "red")
    BY <1>6, <1>w DEF Completion, Acknowledge, Step
  <2>2. paint' \in [Screens -> Seq({"white", "red"})] /\ informed' \in SUBSET Screens
    BY <2>1, AnswerType
  <2>3. stage' \in [Jobs -> Stages]
    BY <2>1 DEF Stages
  <2>4. FavTypeOK'
    BY <1>1, <1>3, <1>4, <2>2, <2>3
  <2>5. KindsMatch'
    BY <1>2, <1>4, <1>6, <2>1 DEF KindsMatch
  <2> QED
    BY <2>4, <2>5
<1> QED
  BY <1>5, <1>6

LEMMA ConnectionType ==
    ASSUME TypeInv, QueueOwned, NEW d \in Devices,
           Server(d) \/ Kill(d) \/ LoseQueue(d) \/ ConnectionLost(d)
    PROVE  TypeInv'
<1> USE DEF TypeInv, FavTypeOK
<1>1. CASE Server(d)
  <2>1. pending' \in [Devices -> Seq(Writes)] /\ node' \in UserNodes
    BY <1>1, ServerShape
  <2>2. informed' \in SUBSET Screens
    BY <1>1 DEF Server
  <2>3. UNCHANGED <<alive, listens, cache, screenVars, jobVars, denied, faults, contended,
                    hurried, outdated>>
    BY <1>1 DEF Server
  <2>4. FavTypeOK'
    BY <2>1, <2>2, <2>3 DEF screenVars, jobVars
  <2> QED
    BY <2>3, <2>4 DEF KindsMatch, jobVars
<1>2. CASE Kill(d)
  <2>1. faults' \in 0..MaxFaults
    BY <1>2, FavoritesAssumption DEF Kill
  <2>2. /\ alive' = [alive EXCEPT ![d] = FALSE] /\ listens' = [listens EXCEPT ![d] = FALSE]
        /\ cache' = [cache EXCEPT ![d] = NoFavorites]
        /\ heart' = [s \in Screens |->
              IF place[s].dev = d /\ heart[s] # "unopened" THEN "gone" ELSE heart[s]]
        /\ paint' = [s \in Screens |-> IF place[s].dev = d THEN <<>> ELSE paint[s]]
        /\ stage' = [j \in Jobs |->
              IF DeviceOf(j) = d /\ stage[j] \in {"asked", "raised", "found"}
              THEN "dead" ELSE stage[j]]
        /\ snap' = [j \in Jobs |-> IF DeviceOf(j) = d THEN NoNode ELSE snap[j]]
        /\ child' = [j \in Jobs |->
              IF DeviceOf(j) = d THEN [k \in Slots |-> "none"] ELSE child[j]]
        /\ UNCHANGED <<node, pending, place, from, kind, caller, denied, histVars>>
    BY <1>2 DEF Kill
  <2>3. alive' \in [Devices -> BOOLEAN] /\ listens' \in [Devices -> BOOLEAN]
        /\ cache' \in [Devices -> FavLists]
    BY <2>2, ConstantTypes
  <2>4. /\ heart' \in [Screens -> {"unopened", "white", "red", "gone"}]
        /\ paint' \in [Screens -> Seq({"white", "red"})]
    BY <2>2
  <2>5. /\ stage' \in [Jobs -> Stages] /\ snap' \in [Jobs -> UserNodes]
    BY <2>2, ConstantTypes DEF Stages
  <2>6. child' \in [Jobs -> [Slots -> KeyStages]]
    <3>1. [k \in Slots |-> "none"] \in [Slots -> KeyStages]
      BY DEF KeyStages
    <3> QED
      BY <2>2, <3>1
  <2>7. FavTypeOK'
    BY <2>1, <2>2, <2>3, <2>4, <2>5, <2>6 DEF histVars
  <2>8. KindsMatch'
    <3>1. ASSUME NEW j \in Jobs
          PROVE  /\ stage'[j] = IF DeviceOf(j) = d /\ stage[j] \in {"asked", "raised", "found"}
                                THEN "dead" ELSE stage[j]
                 /\ kind'[j] = kind[j]
                 /\ \A k \in Slots : child'[j][k] # "none" =>
                       child[j][k] # "none" /\ DeviceOf(j) # d
      BY <2>2
    <3> QED
      BY <3>1 DEF KindsMatch
  <2> QED
    BY <2>7, <2>8
<1>3. CASE LoseQueue(d)
  <2>1. /\ pending' = [pending EXCEPT ![d] = <<>>]
        /\ stage' = [j \in Jobs |->
              IF DeviceOf(j) = d /\ stage[j] = "queued" THEN "dead" ELSE stage[j]]
        /\ UNCHANGED <<node, alive, listens, cache, screenVars, from, kind, caller, snap,
                       child, denied, faults, histVars>>
    BY <1>3 DEF LoseQueue
  <2>2. pending' \in [Devices -> Seq(Writes)] /\ stage' \in [Jobs -> Stages]
    BY <2>1 DEF Stages
  <2>3. FavTypeOK'
    BY <2>1, <2>2 DEF screenVars, histVars
  <2>4. KindsMatch'
    BY <2>1 DEF KindsMatch
  <2> QED
    BY <2>3, <2>4
<1>4. CASE ConnectionLost(d)
  <2>1. pending' \in [Devices -> Seq(Writes)]
    BY <1>4, LostShape
  <2>2. faults' \in 0..MaxFaults
    BY <1>4, FavoritesAssumption DEF ConnectionLost
  <2>3. UNCHANGED <<node, alive, listens, cache, screenVars, jobVars, denied, histVars>>
    BY <1>4 DEF ConnectionLost
  <2>4. FavTypeOK'
    BY <2>1, <2>2, <2>3 DEF screenVars, jobVars, histVars
  <2> QED
    BY <2>3, <2>4 DEF KindsMatch, jobVars
<1> QED
  BY <1>1, <1>2, <1>3, <1>4

LEMMA NextTypeInv ==
    ASSUME TypeInv, QueueOwned, [Next]_vars
    PROVE  TypeInv'
<1>1. CASE UNCHANGED vars
  BY <1>1 DEF TypeInv, FavTypeOK, KindsMatch, vars, dbVars, screenVars, jobVars, histVars
<1> QED
  BY <1>1, TapsType, ScreenType, ReadsType, CallbacksType, CompletionType, ConnectionType DEF Next

-----------------------------------------------------------------------------
(* Queued writes and their jobs *)

\* The steps that leave the queues, and what the jobs of queued writes wait for.
Aside ==
    /\ UNCHANGED <<pending, place, from, caller>>
    /\ denied \subseteq denied'
    /\ \A j \in Jobs :
          /\ stage'[j] = "queued" <=> stage[j] = "queued"
          /\ stage[j] = "done" =>
                /\ stage'[j] = "done" /\ kind'[j] = kind[j]
                /\ \A k \in Slots : child[j][k] \in {"handled", "none"} =>
                      child'[j][k] \in {"handled", "none"}

LEMMA AsideOwned ==
    ASSUME FavTypeOK, QueueOwned, Aside
    PROVE  QueueOwned'
<1>1. ASSUME NEW d \in Devices, NEW i \in DOMAIN pending[d]
      PROVE  Owned(d, pending[d][i])'
  <2>1. Owned(d, pending[d][i])
    BY DEF QueueOwned
  <2>2. pending[d][i].by \in Jobs /\ pending[d][i].key \in Slots \cup {WholeNode}
    BY QueueTypes
  <2> QED
    BY <2>1, <2>2 DEF Owned, Aside, DeviceOf
<1> QED
  BY <1>1 DEF QueueOwned, Aside, Queued

\* The answers of reads and queries, the screens and the ends of a process.
LEMMA StartAside ==
    ASSUME TypeInv, NEW j \in Jobs, NEW k, Start(j, k)
    PROVE  Aside
BY DEF Start, Aside, dbVars, TypeInv, FavTypeOK

LEMMA JobsAside ==
    ASSUME TypeInv, NEW j \in Jobs,
           \/ Read(j) \/ NodeMissing(j) \/ QueryAnswered(j) \/ QueryDenied(j)
           \/ \E k \in Slots : ChildGone(j, k)
    PROVE  Aside
<1> USE DEF TypeInv, FavTypeOK
<1>1. CASE RaiseNode(j) \/ RaiseQuery(j) \/ NodeMissing(j) \/ QueryDenied(j)
  <2>1. /\ stage[j] \in {"asked", "raised"}
        /\ \E x \in {"raised", "notFound", "failed"} : stage' = [stage EXCEPT ![j] = x]
        /\ UNCHANGED <<pending, place, from, caller, kind, child>>
        /\ denied \subseteq denied'
    BY <1>1 DEF RaiseNode, RaiseQuery, NodeMissing, QueryDenied, Step, dbVars, screenVars
  <2> QED
    BY <2>1 DEF Aside
<1>2. CASE QueryAnswered(j)
  <2>1. /\ stage[j] = "raised"
        /\ \E x \in {"silent", "found"} : stage' = [stage EXCEPT ![j] = x]
        /\ \E f : child' = [child EXCEPT ![j] = f]
        /\ UNCHANGED <<pending, place, from, caller, kind, denied>>
    BY <1>2 DEF QueryAnswered, Step, dbVars, screenVars
  <2> QED
    BY <2>1 DEF Aside
<1>3. ASSUME NEW k \in Slots, RaiseChild(j, k) \/ ChildGone(j, k)
      PROVE  Aside
  <2>1. /\ child[j][k] \in {"asked", "gone"}
        /\ \E x \in {"there", "gone", "handled"} : child' = [child EXCEPT ![j][k] = x]
        /\ child[j][k] = "gone" => child' = [child EXCEPT ![j][k] = "handled"]
        /\ UNCHANGED <<pending, place, from, caller, kind, denied, stage>>
    BY <1>3 DEF RaiseChild, ChildGone, dbVars, screenVars
  <2>2. \A i \in Jobs : \A m \in Slots :
            child[i][m] \in {"handled", "none"} => child'[i][m] = child[i][m]
    BY <2>1
  <2> QED
    BY <2>1, <2>2 DEF Aside
<1> QED
  BY <1>1, <1>2, <1>3 DEF Read

LEMMA OthersAside ==
    ASSUME TypeInv,
           \/ \E s \in Screens : Paint(s)
           \/ \E d \in Devices : VisitFavorites(d) \/ Push(d) \/ Relaunch(d) \/ Kill(d)
           \/ UNCHANGED vars
    PROVE  Aside
<1> USE DEF TypeInv, FavTypeOK
<1>1. CASE UNCHANGED vars
  BY <1>1 DEF vars, dbVars, screenVars, jobVars, Aside
<1>2. ASSUME NEW s \in Screens, Paint(s)
      PROVE  Aside
  BY <1>2 DEF Paint, dbVars, jobVars, Aside
<1>3. ASSUME NEW d \in Devices, VisitFavorites(d) \/ Push(d) \/ Relaunch(d)
      PROVE  Aside
  BY <1>3 DEF VisitFavorites, Push, Relaunch, screenVars, jobVars, Aside
<1>4. ASSUME NEW d \in Devices, Kill(d)
      PROVE  Aside
  <2>1. /\ stage' = [j \in Jobs |->
              IF DeviceOf(j) = d /\ stage[j] \in {"asked", "raised", "found"}
              THEN "dead" ELSE stage[j]]
        /\ child' = [j \in Jobs |->
              IF DeviceOf(j) = d THEN [k \in Slots |-> "none"] ELSE child[j]]
        /\ UNCHANGED <<pending, place, from, kind, caller, denied>>
    BY <1>4 DEF Kill
  <2>2. \A j \in Jobs : \A k \in Slots : child'[j][k] \in {child[j][k], "none"}
    BY <2>1
  <2> QED
    BY <2>1, <2>2 DEF Aside
<1> QED
  BY <1>1, <1>2, <1>3, <1>4

\* A write enters a queue, and its job waits for it.
LEMMA EnteredOwned ==
    ASSUME FavTypeOK, QueueOwned, NEW j \in Jobs, NEW w, w.by = j,
           NEW d \in Devices, d = DeviceOf(j), Entered(d, w),
           UNCHANGED <<place, from, caller>>, denied \subseteq denied',
           \A i \in DOMAIN pending[d] : pending[d][i].by = j =>
               w.key # WholeNode /\ pending[d][i].key # WholeNode,
           w.fate = "sent",
           w.key = WholeNode => stage'[j] = "queued",
           w.key # WholeNode => /\ kind'[j] = "remove" /\ stage'[j] = "done"
                                /\ child'[j][w.key] \in {"handled", "none"},
           \A b \in Jobs : stage'[b] = "queued" => b = j \/ stage[b] = "queued",
           stage'[j] = "queued" => w.key = WholeNode,
           \A e \in Devices : \A i \in DOMAIN pending[e] : \A b \in Jobs :
               b = pending[e][i].by =>
                  /\ stage'[b] = stage[b] /\ kind'[b] = kind[b]
                  /\ \A k \in Slots : child[b][k] \in {"handled", "none"} =>
                        child'[b][k] \in {"handled", "none"}
    PROVE  QueueOwned'
<1>0. /\ \A b \in Jobs : DeviceOf(b)' = DeviceOf(b)
      /\ WholeNode' = WholeNode
  BY DEF DeviceOf, WholeNode
<1>1. /\ DOMAIN pending'[d] = 1..(Len(pending[d]) + 1)
      /\ DOMAIN pending[d] = 1..Len(pending[d]) /\ Len(pending[d]) \in Nat
      /\ \A i \in DOMAIN pending[d] : pending'[d][i] = pending[d][i]
      /\ pending'[d][Len(pending[d]) + 1] = w
      /\ \A e \in Devices : e # d => pending'[e] = pending[e]
  BY QueueTypes DEF Entered
<1>2. ASSUME NEW e \in Devices, NEW i \in DOMAIN pending[e]
      PROVE  /\ pending'[e][i] = pending[e][i] /\ i \in DOMAIN pending'[e]
             /\ Owned(e, pending[e][i])
             /\ DeviceOf(pending[e][i].by)' = e
             /\ pending[e][i].key = WholeNode => stage'[pending[e][i].by] = "queued"
             /\ pending[e][i].key # WholeNode =>
                    /\ kind'[pending[e][i].by] = "remove" /\ stage'[pending[e][i].by] = "done"
                    /\ child'[pending[e][i].by][pending[e][i].key] \in {"handled", "none"}
             /\ pending[e][i].fate = "denied" => pending[e][i].by \in denied'
  <2>1. pending'[e][i] = pending[e][i] /\ i \in DOMAIN pending'[e]
    BY <1>1
  <2>2. Owned(e, pending[e][i])
    BY DEF QueueOwned
  <2>3. pending[e][i].by \in Jobs /\ pending[e][i].key \in Slots \cup {WholeNode}
    BY QueueTypes
  <2> QED
    BY <1>0, <2>1, <2>2, <2>3 DEF Owned
<1>3. ASSUME NEW e \in Devices, NEW i \in DOMAIN pending'[e]
      PROVE  Owned(e, pending[e][i])'
  <2>1. CASE i \in DOMAIN pending[e]
    BY <1>0, <1>2, <2>1 DEF Owned
  <2>2. CASE i \notin DOMAIN pending[e]
    <3>1. e = d /\ i = Len(pending[d]) + 1
      BY <1>1, <2>2
    <3>2. pending'[e][i] = w
      BY <1>1, <3>1
    <3> QED
      BY <1>0, <3>1, <3>2 DEF Owned
  <2> QED
    BY <2>1, <2>2
<1>4. ASSUME NEW e \in Devices, NEW i \in DOMAIN pending'[e], NEW k \in DOMAIN pending'[e],
             pending'[e][i].key = WholeNode, pending'[e][k].by = pending'[e][i].by
      PROVE  i = k
  <2>1. CASE i \in DOMAIN pending[e] /\ k \in DOMAIN pending[e]
    BY <1>2, <1>4, <2>1 DEF QueueOwned
  <2>2. CASE i \notin DOMAIN pending[e] \/ k \notin DOMAIN pending[e]
    <3>1. e = d
      BY <1>1, <2>2
    <3>2. CASE i = Len(pending[d]) + 1 /\ k \in DOMAIN pending[d]
      BY <1>1, <1>4, <3>1, <3>2
    <3>3. CASE k = Len(pending[d]) + 1 /\ i \in DOMAIN pending[d]
      BY <1>1, <1>4, <3>1, <3>3
    <3> QED
      BY <1>1, <2>2, <3>1, <3>2, <3>3
  <2> QED
    BY <2>1, <2>2
<1>5. ASSUME NEW b \in Jobs, stage'[b] = "queued"
      PROVE  Queued(b)'
  <2>1. CASE b = j
    BY <1>1, <2>1 DEF Queued
  <2>2. CASE b # j
    <3>1. Queued(b)
      BY <1>5, <2>2 DEF QueueOwned
    <3> QED
      BY <1>2, <3>1 DEF Queued
  <2> QED
    BY <2>1, <2>2
<1> QED
  BY <1>3, <1>4, <1>5 DEF QueueOwned

LEMMA RewriteOwned ==
    ASSUME TypeInv, QueueOwned, NEW j \in Jobs, NEW val, Rewrite(j, val)
    PROVE  QueueOwned'
<1> USE DEF TypeInv, FavTypeOK
<1>d. PICK d \in Devices : d = DeviceOf(j)
  BY JobTypes
<1>w. PICK w : w = [by |-> j, key |-> WholeNode, val |-> val, fate |-> "sent"]
  OBVIOUS
<1>1. Entered(d, w) /\ denied' \in {denied, denied \cup {j}}
  BY <1>d, <1>w, EnqueueShape DEF Rewrite
<1>2. /\ stage[j] = "raised" /\ stage' = [stage EXCEPT ![j] = "queued"]
      /\ UNCHANGED <<place, from, caller, kind, child>>
  BY DEF Rewrite, Step, screenVars
<1>3. \A e \in Devices : \A i \in DOMAIN pending[e] : pending[e][i].by # j /\ pending[e][i].by \in Jobs
  BY <1>2, QueueTypes DEF QueueOwned, Owned
<1>4. \A b \in Jobs : /\ b # j => stage'[b] = stage[b] /\ kind'[b] = kind[b]
                      /\ child'[b] = child[b]
  BY <1>2
<1>5. w.by = j /\ w.key = WholeNode /\ w.fate = "sent" /\ stage'[j] = "queued"
  BY <1>2, <1>w
<1>6. \A e \in Devices : \A i \in DOMAIN pending[e] : \A b \in Jobs :
          b = pending[e][i].by =>
             /\ stage'[b] = stage[b] /\ kind'[b] = kind[b]
             /\ \A k \in Slots : child[b][k] \in {"handled", "none"} =>
                   child'[b][k] \in {"handled", "none"}
  BY <1>3, <1>4
<1>7. \A b \in Jobs : stage'[b] = "queued" => b = j \/ stage[b] = "queued"
  BY <1>4
<1>8. \A i \in DOMAIN pending[d] : pending[d][i].by # j
  BY <1>3
<1>9. denied \subseteq denied' /\ UNCHANGED <<place, from, caller>>
  BY <1>1, <1>2
<1> HIDE DEF FavTypeOK
<1> QED
  BY <1>1, <1>5, <1>6, <1>7, <1>8, <1>9, <1>d, EnteredOwned

LEMMA ChildThereOwned ==
    ASSUME TypeInv, QueueOwned, NEW c \in Jobs, NEW k \in Slots, ChildThere(c, k)
    PROVE  QueueOwned'
<1> USE DEF TypeInv, FavTypeOK
<1>1. /\ child[c][k] = "there" /\ child' = [child EXCEPT ![c][k] = "handled"]
      /\ stage[c] \in {"found", "done"} /\ stage' = [stage EXCEPT ![c] = "done"]
      /\ UNCHANGED <<place, from, caller, kind>>
  BY DEF ChildThere, ChildFound, Step, KindsMatch
<1>2. \A b \in Jobs : /\ b # c => stage'[b] = stage[b]
                      /\ stage[b] = "done" => stage'[b] = "done"
                      /\ \A m \in Slots : child[b][m] \in {"handled", "none"} =>
                            child'[b][m] \in {"handled", "none"}
  BY <1>1
<1>3. CASE kind[c] # "remove"
  <2>1. Aside
    BY <1>1, <1>2, <1>3 DEF Aside, ChildThere, ChildFound
  <2> QED
    BY <2>1, AsideOwned
<1>4. CASE kind[c] = "remove"
  <2>d. PICK d \in Devices : d = DeviceOf(c)
    BY JobTypes
  <2>w. PICK w : w = [by |-> c, key |-> k, val |-> NoNode, fate |-> "sent"]
    OBVIOUS
  <2>1. Entered(d, w) /\ denied' \in {denied, denied \cup {c}}
    BY <1>4, <2>d, <2>w, EnqueueShape DEF ChildThere, ChildFound
  <2>2. \A e \in Devices : \A i \in DOMAIN pending[e] :
            /\ pending[e][i].by \in Jobs
            /\ pending[e][i].by = c => pending[e][i].key # WholeNode /\ stage[c] = "done"
    BY <1>1, QueueTypes DEF QueueOwned, Owned
  <2>3. w.key # WholeNode /\ w.by = c /\ w.fate = "sent" /\ w.key = k
    BY <2>w, ConstantTypes
  <2>4. child'[c][k] = "handled" /\ stage'[c] = "done"
    BY <1>1
  <2>5. \A e \in Devices : \A i \in DOMAIN pending[e] : \A b \in Jobs :
            b = pending[e][i].by =>
               /\ stage'[b] = stage[b] /\ kind'[b] = kind[b]
               /\ \A m \in Slots : child[b][m] \in {"handled", "none"} =>
                     child'[b][m] \in {"handled", "none"}
    BY <1>1, <1>2, <2>2
  <2>6. /\ denied \subseteq denied' /\ UNCHANGED <<place, from, caller>>
        /\ \A b \in Jobs : stage'[b] = "queued" => b = c \/ stage[b] = "queued"
        /\ kind'[c] = "remove"
    BY <1>1, <1>2, <1>4, <2>1
  <2>7. \A i \in DOMAIN pending[d] : pending[d][i].by = c => pending[d][i].key # WholeNode
    BY <2>2
  <2> HIDE DEF FavTypeOK
  <2> QED
    BY <2>1, <2>3, <2>4, <2>5, <2>6, <2>7, <2>d, EnteredOwned
<1> QED
  BY <1>3, <1>4

\* The server, the connection and the end of a dead queue.
LEMMA ServedOwned ==
    ASSUME TypeInv, QueueOwned, NEW d \in Devices,
           Server(d) \/ ConnectionLost(d)
    PROVE  QueueOwned'
<1> USE DEF TypeInv
<1>0. UNCHANGED <<place, from, caller, stage, kind, child, denied>>
  BY DEF Server, ConnectionLost, screenVars, jobVars
<1>1. \A e \in Devices : /\ DOMAIN pending'[e] = DOMAIN pending[e]
                         /\ \A i \in DOMAIN pending[e] :
                               /\ pending'[e][i].by = pending[e][i].by
                               /\ pending'[e][i].key = pending[e][i].key
                               /\ pending'[e][i].fate = "denied" =>
                                     \/ pending[e][i].fate = "denied"
                                     \/ pending[e][i].by \in denied
  <2>1. CASE Server(d)
    <3>1. PICK m \in DOMAIN pending[d] : Served(d, m)
      BY <2>1, ServerShape
    <3>2. pending[d][m] \in Writes
      BY QueueTypes
    <3>3. /\ pending'[d][m].by = pending[d][m].by
          /\ pending'[d][m].key = pending[d][m].key
          /\ pending'[d][m].fate = "denied" => pending[d][m].by \in denied
      BY <3>1, <3>2 DEF Served, Writes
    <3> QED
      BY <3>1, <3>3 DEF Served
  <2>2. CASE ConnectionLost(d)
    <3>1. Resent(d)
      BY <2>2, LostShape
    <3>2. \A i \in DOMAIN pending[d] : pending[d][i] \in Writes
      BY QueueTypes
    <3>3. \A i \in DOMAIN pending[d] :
              LET v == [pending[d][i] EXCEPT !.fate = "sent"] IN
              v.by = pending[d][i].by /\ v.key = pending[d][i].key /\ v.fate = "sent"
      BY <3>2 DEF Writes
    <3>4. ASSUME NEW i \in DOMAIN pending[d]
          PROVE  /\ pending'[d][i].by = pending[d][i].by
                 /\ pending'[d][i].key = pending[d][i].key
                 /\ pending'[d][i].fate = "denied" => pending[d][i].fate = "denied"
      <4>1. PICK v : v = [pending[d][i] EXCEPT !.fate = "sent"]
        OBVIOUS
      <4>2. v.by = pending[d][i].by /\ v.key = pending[d][i].key /\ v.fate = "sent"
        BY <3>3, <4>1
      <4>3. pending'[d][i] = pending[d][i] \/ pending'[d][i] = v
        BY <3>1, <4>1 DEF Resent
      <4> QED
        BY <4>2, <4>3
    <3> QED
      BY <3>1, <3>4 DEF Resent
  <2> QED
    BY <2>1, <2>2
<1>2. ASSUME NEW e \in Devices, NEW i \in DOMAIN pending'[e]
      PROVE  Owned(e, pending[e][i])'
  <2>1. i \in DOMAIN pending[e] /\ Owned(e, pending[e][i])
    BY <1>1 DEF QueueOwned
  <2> QED
    BY <1>0, <1>1, <2>1 DEF Owned, DeviceOf
<1>3. \A j \in Jobs : Queued(j)' <=> Queued(j)
  BY <1>1 DEF Queued
<1> QED
  BY <1>0, <1>1, <1>2, <1>3 DEF QueueOwned

LEMMA CompletionOwned ==
    ASSUME TypeInv, QueueOwned, NEW d \in Devices, Completion(d)
    PROVE  QueueOwned'
<1> USE DEF TypeInv, FavTypeOK
<1>1. Left(d)
  BY LeftShape DEF Completion, Acknowledge
<1>w. PICK w \in Writes : w = pending[d][1] /\ w = Head(pending[d])
  BY <1>1, QueueTypes DEF Left
<1>2. /\ w.by \in Jobs /\ Owned(d, w)
      /\ w.key = WholeNode => \A i \in DOMAIN pending[d] : pending[d][i].by = w.by => i = 1
  BY <1>1, <1>w DEF QueueOwned, Left, Writes
<1>3. /\ UNCHANGED <<place, from, caller, kind, child, denied>>
      /\ IF w.key # WholeNode THEN UNCHANGED stage
         ELSE \E x \in {"done", "failed"} : stage' = [stage EXCEPT ![w.by] = x]
  BY <1>w DEF Completion, Acknowledge, Step
<1>4. \A b \in Jobs : /\ b # w.by => stage'[b] = stage[b]
                      /\ stage'[b] = "queued" => stage[b] = "queued" /\ b # w.by
  BY <1>2, <1>3 DEF Owned, KindsMatch
<1>5. ASSUME NEW e \in Devices, NEW i \in DOMAIN pending'[e]
      PROVE  \E m \in DOMAIN pending[e] :
                /\ pending'[e][i] = pending[e][m] /\ m = IF e = d THEN i + 1 ELSE i
                /\ e = d => m # 1 /\ i \in Nat
                /\ w.key = WholeNode => pending[e][m].by # w.by
  <2>1. CASE e = d
    <3>1. i \in Nat /\ i + 1 \in DOMAIN pending[d] /\ pending'[d][i] = pending[d][i + 1]
      BY <1>1, <2>1 DEF Left
    <3>2. 1 \in DOMAIN pending[d] /\ i + 1 # 1
      BY <1>1, <2>1, <3>1 DEF Left
    <3> QED
      BY <1>2, <2>1, <3>1, <3>2
  <2>2. CASE e # d
    <3>1. pending'[e] = pending[e] /\ i \in DOMAIN pending[e]
      BY <1>1, <2>2 DEF Left
    <3>2. DeviceOf(pending[e][i].by) = e
      BY <3>1 DEF QueueOwned, Owned
    <3> QED
      BY <1>2, <2>2, <3>1, <3>2 DEF Owned
  <2> QED
    BY <2>1, <2>2
<1>6. ASSUME NEW e \in Devices, NEW i \in DOMAIN pending'[e]
      PROVE  Owned(e, pending[e][i])'
  <2>1. PICK m \in DOMAIN pending[e] :
            pending'[e][i] = pending[e][m] /\ (w.key = WholeNode => pending[e][m].by # w.by)
    BY <1>5
  <2>2. Owned(e, pending[e][m]) /\ pending[e][m].by \in Jobs
    BY QueueTypes DEF QueueOwned
  <2>3. stage'[pending[e][m].by] = stage[pending[e][m].by]
    BY <1>3, <1>4, <2>1, <2>2
  <2> QED
    BY <1>3, <2>1, <2>2, <2>3 DEF Owned, DeviceOf
<1>7. ASSUME NEW e \in Devices, NEW i \in DOMAIN pending'[e], NEW k \in DOMAIN pending'[e],
             pending'[e][i].key = WholeNode, pending'[e][k].by = pending'[e][i].by
      PROVE  i = k
  <2>1. PICK m \in DOMAIN pending[e] : pending'[e][i] = pending[e][m]
            /\ m = (IF e = d THEN i + 1 ELSE i) /\ (e = d => i \in Nat)
    BY <1>5
  <2>2. PICK n \in DOMAIN pending[e] : pending'[e][k] = pending[e][n]
            /\ n = (IF e = d THEN k + 1 ELSE k) /\ (e = d => k \in Nat)
    BY <1>5
  <2>3. m = n
    BY <1>7, <2>1, <2>2 DEF QueueOwned
  <2> QED
    BY <2>1, <2>2, <2>3
<1>8. ASSUME NEW b \in Jobs, stage'[b] = "queued"
      PROVE  Queued(b)'
  <2>1. stage[b] = "queued" /\ b # w.by
    BY <1>4, <1>8
  <2>2. PICK e \in Devices : \E i \in DOMAIN pending[e] : pending[e][i].by = b
    BY <2>1 DEF QueueOwned, Queued
  <2>i. PICK i \in DOMAIN pending[e] : pending[e][i].by = b
    BY <2>2
  <2>3. CASE e = d
    <3>1. i # 1
      BY <1>w, <2>1, <2>i, <2>3
    <3>2. i - 1 \in DOMAIN pending'[d] /\ pending'[d][i - 1] = pending[d][i]
      BY <1>1, <2>3, <3>1 DEF Left
    <3> QED
      BY <2>i, <2>3, <3>2 DEF Queued
  <2>4. CASE e # d
    <3>1. pending'[e] = pending[e]
      BY <1>1, <2>4 DEF Left
    <3> QED
      BY <2>i, <3>1 DEF Queued
  <2> QED
    BY <2>3, <2>4
<1> QED
  BY <1>6, <1>7, <1>8 DEF QueueOwned

LEMMA LoseOwned ==
    ASSUME TypeInv, QueueOwned, NEW d \in Devices, LoseQueue(d)
    PROVE  QueueOwned'
<1> USE DEF TypeInv, FavTypeOK
<1>1. /\ stage' = [j \in Jobs |->
            IF DeviceOf(j) = d /\ stage[j] = "queued" THEN "dead" ELSE stage[j]]
      /\ UNCHANGED <<place, from, caller, kind, child, denied>>
      /\ pending'[d] = <<>> /\ \A e \in Devices : e # d => pending'[e] = pending[e]
  BY DEF LoseQueue, screenVars
<1>2. ASSUME NEW e \in Devices, NEW i \in DOMAIN pending'[e]
      PROVE  /\ e # d /\ pending'[e] = pending[e] /\ i \in DOMAIN pending[e]
             /\ Owned(e, pending[e][i])'
  <2>1. e # d /\ pending'[e] = pending[e]
    BY <1>1
  <2>2. Owned(e, pending[e][i]) /\ pending[e][i].by \in Jobs
    BY <2>1, QueueTypes DEF QueueOwned
  <2>3. stage'[pending[e][i].by] = stage[pending[e][i].by]
    BY <1>1, <2>1, <2>2 DEF Owned
  <2> QED
    BY <1>1, <2>1, <2>2, <2>3 DEF Owned, DeviceOf
<1>3. ASSUME NEW b \in Jobs, stage'[b] = "queued"
      PROVE  Queued(b)'
  <2>1. stage[b] = "queued" /\ DeviceOf(b) # d
    BY <1>1, <1>3
  <2>2. PICK e \in Devices : \E i \in DOMAIN pending[e] : pending[e][i].by = b
    BY <2>1 DEF QueueOwned, Queued
  <2>i. PICK i \in DOMAIN pending[e] : pending[e][i].by = b
    BY <2>2
  <2>3. e # d
    BY <2>1, <2>i DEF QueueOwned, Owned
  <2> QED
    BY <1>1, <2>i, <2>3 DEF Queued
<1> QED
  BY <1>2, <1>3 DEF QueueOwned

LEMMA NextQueueOwned ==
    ASSUME TypeInv, QueueOwned, [Next]_vars
    PROVE  QueueOwned'
<1> USE DEF TypeInv
<1>1. ASSUME NEW j \in Jobs, Callback(j)
      PROVE  QueueOwned'
  BY <1>1, JobsAside, AsideOwned, RewriteOwned, ChildThereOwned DEF Callback, AddFavorite, AddProduct
<1>2. ASSUME NEW c \in Calls, Appear(c) \/ Tap(c) \/ QueryDenied(c)
      PROVE  QueueOwned'
  <2>1. c \in Jobs
    BY DEF Jobs
  <2> QED
    BY <1>2, <2>1, JobsAside, StartAside, AsideOwned DEF Appear, Tap
<1>3. ASSUME NEW j \in Publications, Publish(j)
      PROVE  QueueOwned'
  <2>1. j \in Jobs
    BY DEF Jobs
  <2> QED
    BY <1>3, <2>1, StartAside, AsideOwned DEF Publish
<1>4. ASSUME NEW j \in Jobs, Read(j)
      PROVE  QueueOwned'
  BY <1>4, JobsAside, AsideOwned
<1> QED
  BY <1>1, <1>2, <1>3, <1>4, OthersAside, AsideOwned, ServedOwned, CompletionOwned, LoseOwned
  DEF Next

-----------------------------------------------------------------------------
(* Turns *)

\* The steps after which no more jobs are busy than before.
Calmer ==
    /\ UNCHANGED <<place, from, caller, kind, contended, hurried>>
    /\ \A j \in Jobs : Busy(j)' => Busy(j)

LEMMA CalmerTurns ==
    ASSUME Turns, Calmer
    PROVE  Turns'
BY DEF Turns, Calmer, Writing, Product, Jobs

LEMMA StartTurns ==
    ASSUME TypeInv, Turns, NEW j \in Jobs, NEW k, Start(j, k)
    PROVE  Turns'
<1>1. /\ stage' = [stage EXCEPT ![j] = "asked"] /\ kind' = [kind EXCEPT ![j] = k]
      /\ UNCHANGED <<pending, child, place, caller>>
      /\ stage \in [Jobs -> Stages] /\ kind \in [Jobs -> Kinds]
  BY DEF Start, dbVars, TypeInv, FavTypeOK
<1>2. \A i \in Jobs : i # j => (Busy(i)' <=> Busy(i)) /\ kind'[i] = kind[i]
  BY <1>1 DEF Busy, Outstanding, Queued
<1>3. ASSUME ~contended', NEW a \in Jobs, NEW b \in Jobs, Writing(a)', Writing(b)', a # b
      PROVE  FALSE
  <2>1. ~contended
    BY <1>3 DEF Start
  <2>2. \A i \in Jobs : i # j /\ Writing(i)' => Writing(i)
    BY <1>2 DEF Writing
  <2>3. CASE a # j /\ b # j
    BY <1>3, <2>1, <2>2, <2>3 DEF Turns
  <2>4. CASE a = j \/ b = j
    <3>1. k \in Writers
      BY <1>1, <1>3, <2>4 DEF Writing, Writers
    <3>2. \E i \in Jobs : Writing(i)
      BY <1>3, <2>2, <2>4
    <3> QED
      BY <1>3, <3>1, <3>2 DEF Start, Writing
  <2> QED
    BY <2>3, <2>4
<1>4. ASSUME NEW b \in Calls, NEW c \in Calls, Busy(b)', Busy(c)', b # c,
             Product(b)' = Product(c)', Product(c)' \notin hurried'
      PROVE  FALSE
  <2>1. b \in Jobs /\ c \in Jobs /\ Product(b)' = Product(b) /\ Product(c)' = Product(c)
    BY <1>1 DEF Jobs, Product
  <2>2. hurried \subseteq hurried'
    BY DEF Start
  <2>3. CASE b # j /\ c # j
    BY <1>2, <1>4, <2>1, <2>2, <2>3 DEF Turns
  <2>4. CASE b = j \/ c = j
    <3>1. j \in Calls /\ \E i \in Calls : Product(i) = Product(j) /\ Busy(i)
      BY <1>2, <1>4, <2>1, <2>4
    <3>2. Product(j) \in hurried'
      BY <3>1 DEF Start
    <3> QED
      BY <1>4, <2>1, <2>4, <3>2
  <2> QED
    BY <2>3, <2>4
<1> QED
  BY <1>3, <1>4 DEF Turns

LEMMA JobsCalmer ==
    ASSUME TypeInv, NEW j \in Jobs, Read(j) \/ Callback(j) \/ QueryDenied(j)
    PROVE  Calmer
<1> USE DEF TypeInv, FavTypeOK
<1>0. UNCHANGED <<place, from, caller, kind, contended, hurried>>
  BY DEF Read, Callback, QueryDenied, RaiseNode, RaiseQuery, RaiseChild, NodeMissing, QueryAnswered,
         AddFavorite, AddProduct, Rewrite, ChildThere, ChildFound, ChildGone,
         screenVars, jobVars, histVars
<1>1. ASSUME NEW i \in Jobs, i # j
      PROVE  stage'[i] = stage[i] /\ child'[i] = child[i]
  BY <1>1 DEF Read, Callback, QueryDenied, RaiseNode, RaiseQuery, RaiseChild, NodeMissing,
         QueryAnswered, AddFavorite, AddProduct, Rewrite, ChildThere, ChildFound, ChildGone, Step
<1>2. Busy(j)
  <2>1. CASE stage[j] \in {"asked", "raised"}
    BY <2>1 DEF Busy
  <2>2. CASE \E k \in Slots : child[j][k] \in {"asked", "there", "gone"}
    BY <2>2 DEF Busy, Outstanding
  <2> QED
    BY <2>1, <2>2 DEF Read, Callback, QueryDenied, RaiseNode, RaiseQuery, RaiseChild, NodeMissing,
         QueryAnswered, AddFavorite, AddProduct, Rewrite, ChildThere, ChildFound, ChildGone
<1>3. ASSUME NEW i \in Jobs, i # j, Queued(i)'
      PROVE  Queued(i)
  <2>1. CASE UNCHANGED pending
    BY <1>3, <2>1 DEF Queued
  <2>2. CASE \E key, val : Enqueue(j, key, val)
    <3>1. PICK key, val : Enqueue(j, key, val)
      BY <2>2
    <3>d. PICK d \in Devices : d = DeviceOf(j)
      BY JobTypes
    <3>w. PICK w : w = [by |-> j, key |-> key, val |-> val, fate |-> "sent"]
      OBVIOUS
    <3>b. w.by = j
      BY <3>w
    <3>2. Entered(d, w)
      BY <3>1, <3>d, <3>w, EnqueueShape
    <3>3. PICK e \in Devices : \E m \in DOMAIN pending'[e] : pending'[e][m].by = i
      BY <1>3 DEF Queued
    <3>4. PICK m \in DOMAIN pending'[e] : pending'[e][m].by = i
      BY <3>3
    <3>5. m \in DOMAIN pending[e] /\ pending[e][m].by = i
      <4>1. CASE e = d
        <5>1. m = Len(pending[d]) + 1 => pending'[d][m] = w
          BY <3>2 DEF Entered
        <5>2. m # Len(pending[d]) + 1
          BY <1>3, <3>4, <3>b, <4>1, <5>1
        <5> QED
          BY <3>2, <3>4, <4>1, <5>2, QueueTypes DEF Entered
      <4>2. CASE e # d
        BY <3>2, <3>4, <4>2 DEF Entered
      <4> QED
        BY <4>1, <4>2
    <3> QED
      BY <3>5 DEF Queued
  <2> QED
    BY <2>1, <2>2 DEF Read, Callback, QueryDenied, RaiseNode, RaiseQuery, RaiseChild, NodeMissing,
         QueryAnswered, AddFavorite, AddProduct, Rewrite, ChildThere, ChildFound, ChildGone, dbVars
<1> QED
  BY <1>0, <1>1, <1>2, <1>3 DEF Calmer, Busy, Outstanding

LEMMA DevicesStages ==
    ASSUME TypeInv, NEW d \in Devices,
           \/ VisitFavorites(d) \/ Server(d) \/ Completion(d) \/ Kill(d) \/ LoseQueue(d)
           \/ Relaunch(d) \/ ConnectionLost(d) \/ Push(d)
    PROVE  \A j \in Jobs :
              /\ stage'[j] \in {"asked", "raised", "found", "queued"} => stage[j] = stage'[j]
              /\ \A k \in Slots : child'[j][k] \in {child[j][k], "none"}
<1> USE DEF TypeInv, FavTypeOK
<1>1. CASE UNCHANGED <<stage, child>>
  BY <1>1
<1>2. CASE Completion(d)
  <2>1. UNCHANGED child
    BY <1>2 DEF Completion, Acknowledge
  <2>2. stage' = stage \/ \E x \in {"done", "failed"} :
            stage' = [stage EXCEPT ![Head(pending[d]).by] = x]
    BY <1>2 DEF Completion, Acknowledge, Step
  <2> QED
    BY <2>1, <2>2
<1>3. CASE Kill(d) \/ LoseQueue(d)
  BY <1>3 DEF Kill, LoseQueue
<1> QED
  BY <1>1, <1>2, <1>3 DEF VisitFavorites, Server, Relaunch, ConnectionLost, Push, jobVars

LEMMA DevicesCalmer ==
    ASSUME TypeInv, NEW d \in Devices,
           \/ VisitFavorites(d) \/ Server(d) \/ Completion(d) \/ Kill(d) \/ LoseQueue(d)
           \/ Relaunch(d) \/ ConnectionLost(d) \/ Push(d)
    PROVE  Calmer
<1> USE DEF TypeInv, FavTypeOK
<1>0. UNCHANGED <<place, from, caller, kind, contended, hurried>>
  BY DEF VisitFavorites, Server, Completion, Acknowledge, Kill, LoseQueue, Relaunch, ConnectionLost,
         Push, screenVars, jobVars, histVars
<1>1. \A j \in Jobs : /\ stage'[j] \in {"asked", "raised", "found", "queued"} => stage[j] = stage'[j]
                      /\ \A k \in Slots : child'[j][k] \in {child[j][k], "none"}
  BY DevicesStages
<1>2. ASSUME NEW j \in Jobs, Queued(j)'
      PROVE  Queued(j)
  <2>1. PICK e \in Devices : \E m \in DOMAIN pending'[e] : pending'[e][m].by = j
    BY <1>2 DEF Queued
  <2>m. PICK m \in DOMAIN pending'[e] : pending'[e][m].by = j
    BY <2>1
  <2>2. \E n \in DOMAIN pending[e] : pending[e][n].by = j
    <3>1. CASE UNCHANGED pending
      BY <2>m, <3>1
    <3>2. CASE Server(d)
      <4>1. PICK i \in DOMAIN pending[d] : Served(d, i)
        BY <3>2, ServerShape
      <4>2. pending'[d][i].by = pending[d][i].by
        BY <4>1, QueueTypes DEF Served, Writes
      <4> QED
        BY <2>m, <4>1, <4>2 DEF Served
    <3>3. CASE ConnectionLost(d)
      <4>1. Resent(d)
        BY <3>3, LostShape
      <4>2. \A i \in DOMAIN pending[d] : [pending[d][i] EXCEPT !.fate = "sent"].by = pending[d][i].by
        BY QueueTypes DEF Writes
      <4> QED
        BY <2>m, <4>1, <4>2 DEF Resent
    <3>4. CASE Completion(d)
      <4>1. Left(d)
        BY <3>4, LeftShape DEF Completion, Acknowledge
      <4>2. CASE e = d
        <5>1. m + 1 \in DOMAIN pending[d] /\ pending'[d][m] = pending[d][m + 1]
          BY <2>m, <4>1, <4>2 DEF Left
        <5> QED
          BY <2>m, <4>2, <5>1
      <4>3. CASE e # d
        BY <2>m, <4>1, <4>3 DEF Left
      <4> QED
        BY <4>2, <4>3
    <3>5. CASE LoseQueue(d)
      BY <2>m, <3>5 DEF LoseQueue
    <3> QED
      BY <3>1, <3>2, <3>3, <3>4, <3>5 DEF VisitFavorites, Kill, Relaunch, Push
  <2> QED
    BY <2>2 DEF Queued
<1> QED
  BY <1>0, <1>1, <1>2 DEF Calmer, Busy, Outstanding

LEMMA NextTurns ==
    ASSUME TypeInv, Turns, [Next]_vars
    PROVE  Turns'
<1>1. CASE UNCHANGED vars
  BY <1>1, CalmerTurns DEF vars, dbVars, screenVars, jobVars, histVars, Calmer, Busy, Queued, Outstanding
<1>2. ASSUME NEW c \in Calls, Appear(c) \/ Tap(c) \/ QueryDenied(c)
      PROVE  Turns'
  <2>1. c \in Jobs
    BY DEF Jobs
  <2> QED
    BY <1>2, <2>1, StartTurns, JobsCalmer, CalmerTurns DEF Appear, Tap
<1>3. ASSUME NEW j \in Publications, Publish(j)
      PROVE  Turns'
  <2>1. j \in Jobs
    BY DEF Jobs
  <2> QED
    BY <1>3, <2>1, StartTurns DEF Publish
<1>4. ASSUME NEW s \in Screens, Paint(s)
      PROVE  Turns'
  BY <1>4, CalmerTurns DEF Paint, dbVars, jobVars, histVars, Calmer, Busy, Queued, Outstanding
<1> QED
  BY <1>1, <1>2, <1>3, <1>4, JobsCalmer, DevicesCalmer, CalmerTurns DEF Next

-----------------------------------------------------------------------------
(* The list of favourites *)

LEMMA Least ==
    ASSUME NEW T \in SUBSET Nat, T # {}
    PROVE  \E x \in T : \A y \in T : x <= y
<1> DEFINE R == {ss \in Nat \X Nat : ss[1] < ss[2]}
<1>1. IsWellFoundedOn(R, Nat)
  BY NatLessThanWellFounded DEF OpToRel
<1> HIDE DEF R
<1>2. PICK x \in T : \A y \in T : ~ (<<y, x>> \in R)
  BY <1>1, WFMin
<1>3. \A y \in T : ~(y < x)
  BY <1>2 DEF R
<1> QED
  BY <1>3

\* A favourite that is added is there; those there already stay unless the list
\* has a hole, which no cast accepts.
LEMMA WithFavoriteKeeps ==
    ASSUME NEW fav \in FavLists, NEW p \in Products,
           Dense(fav) => \E k \in Slots : fav[k] = Nothing
    PROVE  /\ p \in Favs(WithFavorite(fav, p))
           /\ Dense(fav) => Favs(fav) \subseteq Favs(WithFavorite(fav, p))
<1>0. p # Nothing
  BY FavoritesAssumption
<1>1. CASE ~Dense(fav)
  <2>1. WithFavorite(fav, p) = [NoFavorites EXCEPT ![0] = p]
    BY <1>1 DEF WithFavorite
  <2>2. WithFavorite(fav, p)[0] = p
    BY <2>1, ConstantTypes DEF FavLists
  <2> QED
    BY <1>0, <1>1, <2>2, ConstantTypes DEF Favs
<1>2. CASE Dense(fav)
  <2> DEFINE new == [k \in Slots |-> IF fav[k] = Nothing /\ \A i \in Slots : i < k => fav[i] # Nothing
                                     THEN p ELSE fav[k]]
  <2>1. WithFavorite(fav, p) = new
    BY <1>2 DEF WithFavorite
  <2>2. PICK m \in Slots : fav[m] = Nothing /\ \A k \in Slots : fav[k] = Nothing => m <= k
    <3> DEFINE T == {k \in Slots : fav[k] = Nothing}
    <3>1. T \in SUBSET Nat /\ T # {}
      BY <1>2, ConstantTypes
    <3>2. \E x \in T : \A y \in T : x <= y
      BY <3>1, Least
    <3> QED
      BY <3>2
  <2>3. new[m] = p
    <3>1. \A i \in Slots : i < m => fav[i] # Nothing
      BY <2>2, ConstantTypes
    <3> QED
      BY <2>2, <3>1
  <2>4. \A k \in Slots : fav[k] # Nothing => new[k] = fav[k]
    OBVIOUS
  <2> HIDE DEF new
  <2> QED
    BY <1>0, <2>1, <2>3, <2>4 DEF Favs
<1> QED
  BY <1>1, <1>2

\* A list with a key cleared has lost that key's product at most.
LEMMA Cleared ==
    ASSUME NEW fav \in FavLists, NEW k \in Slots, NEW new, new = [fav EXCEPT ![k] = Nothing]
    PROVE  /\ new[k] = Nothing
           /\ \A i \in Slots : new[i] \in {fav[i], Nothing}
           /\ \A i \in Slots : i # k => new[i] = fav[i]
           /\ \A p : p \in Favs(fav) /\ p \notin Favs(new) => p = fav[k]
           /\ Favs(new) \subseteq Favs(fav)
BY DEF Favs, FavLists

\* What a device whose queue is empty sees.
LEMMA SeenAlone ==
    ASSUME NEW d, NEW base \in UserNodes, DOMAIN pending[d] = {}
    PROVE  Seen(d, base) = base
<1>1. Wholes(d) = {}
  BY DEF Wholes
<1>2. {i \in Wholes(d) : \A j \in Wholes(d) : j <= i} = {}
  BY <1>1
<1>3. {k \in DOMAIN pending[d] : \A j \in {} : j < k} = {}
  OBVIOUS
<1>4. Seen(d, base) = [base EXCEPT !.fav = [k \in Slots |-> base.fav[k]]]
  BY <1>2, <1>3 DEF Seen
<1>5. [k \in Slots |-> base.fav[k]] = base.fav
  BY DEF UserNodes, FavLists
<1> QED
  BY <1>4, <1>5 DEF UserNodes

-----------------------------------------------------------------------------
(* Queued writes and the node *)

LEMMA QueuedWriting ==
    ASSUME TypeInv, QueueOwned, NEW e \in Devices, NEW i \in DOMAIN pending[e]
    PROVE  /\ pending[e][i].by \in Jobs /\ Writing(pending[e][i].by)
           /\ DeviceOf(pending[e][i].by) = e
           /\ stage[pending[e][i].by] \in {"queued", "done"}
           /\ pending[e][i].key \in Slots \cup {WholeNode}
<1>1. /\ pending[e][i].by \in Jobs /\ Owned(e, pending[e][i])
      /\ pending[e][i].key \in Slots \cup {WholeNode}
  BY QueueTypes DEF QueueOwned, TypeInv
<1>2. Queued(pending[e][i].by)
  BY DEF Queued
<1> QED
  BY <1>1, <1>2 DEF Owned, Writing, Writers, Busy, TypeInv, KindsMatch

LEMMA LookingWriting ==
    ASSUME TypeInv, NEW c \in Calls, Looking(c)
    PROVE  c \in Jobs /\ Writing(c) /\ stage[c] \in {"raised", "found", "done"}
BY DEF Looking, Writing, Writers, Busy, Jobs, Outstanding, TypeInv, KindsMatch

\* While one job writes, all that is queued or looked for is its own.
LEMMA SoleWriter ==
    ASSUME TypeInv, QueueOwned, Turns, ~contended, NEW j \in Jobs, Writing(j)
    PROVE  /\ \A e \in Devices : \A i \in DOMAIN pending[e] :
                 pending[e][i].by = j /\ e = DeviceOf(j)
           /\ \A b \in Jobs : kind[b] \in {"add", "publish"} /\ stage[b] = "raised" => b = j
           /\ \A c \in Calls : Looking(c) => c = j
<1>1. \A b \in Jobs : Writing(b) => b = j
  BY DEF Turns
<1>2. \A b \in Jobs : kind[b] \in {"add", "publish"} /\ stage[b] = "raised" => Writing(b)
  BY DEF Writing, Writers, Busy
<1> QED
  BY <1>1, <1>2, QueuedWriting, LookingWriting

\* While that job reads, nothing is queued.
LEMMA SoleReader ==
    ASSUME TypeInv, QueueOwned, Turns, ~contended, NEW j \in Jobs, Writing(j),
           stage[j] \in {"asked", "raised"}
    PROVE  /\ \A e \in Devices : DOMAIN pending[e] = {}
           /\ \A b \in Jobs : kind[b] \in {"add", "publish"} /\ stage[b] = "raised" => b = j
           /\ \A c \in Calls : Looking(c) => c = j
<1>1. ASSUME NEW e \in Devices
      PROVE  DOMAIN pending[e] = {}
  <2>1. \A i \in DOMAIN pending[e] : pending[e][i].by = j /\ stage[pending[e][i].by] \in {"queued", "done"}
    BY SoleWriter, QueuedWriting
  <2> QED
    BY <2>1
<1> QED
  BY <1>1, SoleWriter

\* The steps that leave the node and let a removal know no less than before.
Quiet ==
    /\ UNCHANGED <<node, place, caller>>
    /\ contended => contended'
    /\ \A e \in Devices : \A i \in DOMAIN pending'[e] : \E m \in DOMAIN pending[e] :
          LET w == pending'[e][i]
              v == pending[e][m]
          IN /\ w.by = v.by /\ w.key = v.key /\ w.val = v.val /\ (w.fate = "ok" => v.fate = "ok")
             /\ kind'[v.by] = kind[v.by] /\ (v.by \in outdated => v.by \in outdated')
    /\ \A j \in Jobs : kind'[j] \in {"add", "publish"} /\ stage'[j] = "raised" =>
          kind'[j] = kind[j] /\ stage[j] = "raised" /\ snap'[j] = snap[j]
    /\ \A c \in Calls : Looking(c)' =>
          /\ Looking(c) /\ (c \in outdated => c \in outdated')
          /\ stage'[c] = "raised" => stage[c] = "raised" /\ snap'[c] = snap[c]
          /\ \A k \in Slots : child'[c][k] \in {"asked", "there", "gone"} =>
                child[c][k] \in {"asked", "there", "gone"}
    /\ \A d \in Devices : listens'[d] =>
          cache'[d] = node.fav \/ (listens[d] /\ cache'[d] = cache[d])

LEMMA QuietFollowed ==
    ASSUME FavTypeOK, NodeFollowed, Quiet
    PROVE  NodeFollowed'
<1> SUFFICES ASSUME ~contended'
             PROVE  NodeFollowed'
  BY DEF NodeFollowed
<1>0. /\ ~contended /\ UNCHANGED <<node, place, caller>>
      /\ \A c : Product(c)' = Product(c)
      /\ WholeNode' = WholeNode
  BY DEF Quiet, Product, WholeNode
<1>1. ASSUME NEW e \in Devices, NEW i \in DOMAIN pending'[e]
      PROVE  Follows(pending[e][i])'
  <2>1. PICK m \in DOMAIN pending[e] :
             /\ pending'[e][i].by = pending[e][m].by /\ pending'[e][i].key = pending[e][m].key
             /\ pending'[e][i].val = pending[e][m].val
             /\ pending'[e][i].fate = "ok" => pending[e][m].fate = "ok"
             /\ kind'[pending[e][m].by] = kind[pending[e][m].by]
             /\ pending[e][m].by \in outdated => pending[e][m].by \in outdated'
    BY DEF Quiet
  <2>2. Follows(pending[e][m])
    BY <1>0 DEF NodeFollowed
  <2> QED
    BY <1>0, <2>1, <2>2 DEF Follows
<1>2. ASSUME NEW j \in Jobs, kind'[j] \in {"add", "publish"}, stage'[j] = "raised"
      PROVE  snap'[j] = node'
  BY <1>0, <1>2 DEF Quiet, NodeFollowed
<1>3. ASSUME NEW c \in Calls, Looking(c)', c \notin outdated'
      PROVE  /\ stage'[c] = "raised" => snap'[c].fav = node'.fav
             /\ \A k \in Slots : child'[c][k] \in {"asked", "there", "gone"} =>
                   node'.fav[k] \in {Product(c)', Nothing}
             /\ listens'[DeviceOf(c)'] =>
                   \A k \in Slots : node'.fav[k] \in {cache'[DeviceOf(c)'][k], Nothing}
  <2>1. Looking(c) /\ c \notin outdated
    BY <1>3 DEF Quiet
  <2>d. PICK d \in Devices : d = DeviceOf(c) /\ d = DeviceOf(c)'
    <3>1. DeviceOf(c) = place[caller[c]].dev /\ DeviceOf(c) \in Devices /\ c \notin Publications
      BY JobTypes DEF Jobs
    <3>2. DeviceOf(c)' = place'[caller'[c]].dev
      BY <3>1 DEF DeviceOf
    <3> QED
      BY <1>0, <3>1, <3>2
  <2>2. /\ stage[c] = "raised" => snap[c].fav = node.fav
        /\ \A k \in Slots : child[c][k] \in {"asked", "there", "gone"} =>
              node.fav[k] \in {Product(c), Nothing}
        /\ listens[d] => \A k \in Slots : node.fav[k] \in {cache[d][k], Nothing}
    BY <1>0, <2>1, <2>d DEF NodeFollowed
  <2>3. /\ stage'[c] = "raised" => stage[c] = "raised" /\ snap'[c] = snap[c]
        /\ \A k \in Slots : child'[c][k] \in {"asked", "there", "gone"} =>
              child[c][k] \in {"asked", "there", "gone"}
        /\ listens'[d] => cache'[d] = node.fav \/ (listens[d] /\ cache'[d] = cache[d])
    BY <1>3 DEF Quiet
  <2> QED
    BY <1>0, <2>2, <2>3, <2>d
<1> QED
  BY <1>1, <1>2, <1>3 DEF NodeFollowed

LEMMA StartQuiet ==
    ASSUME TypeInv, QueueOwned, NEW j \in Jobs, NEW k, Start(j, k)
    PROVE  Quiet
<1> USE DEF TypeInv, FavTypeOK
<1>1. /\ stage[j] = "idle" /\ kind' = [kind EXCEPT ![j] = k] /\ stage' = [stage EXCEPT ![j] = "asked"]
      /\ UNCHANGED <<dbVars, place, caller, snap, child, outdated>>
      /\ contended => contended'
  BY DEF Start
<1>2. \A e \in Devices : \A i \in DOMAIN pending[e] :
          pending[e][i].by # j /\ pending[e][i].by \in Jobs
  BY <1>1, QueuedWriting
<1>3. \A m \in Slots : child[j][m] = "none"
  BY <1>1 DEF KindsMatch
<1>4. \A c \in Calls : Looking(c)' => c # j /\ Looking(c) /\ c \in Jobs /\ stage'[c] = stage[c]
  BY <1>1, <1>3 DEF Looking, Outstanding, Jobs
<1>5. UNCHANGED <<node, pending, listens, cache>>
  BY <1>1 DEF dbVars
<1> QED
  BY <1>1, <1>2, <1>4, <1>5 DEF Quiet

Checks(j) == kind[j] = "check" /\ (RaiseQuery(j) \/ QueryAnswered(j))

LEMMA CallsQuiet ==
    ASSUME TypeInv, QueueOwned, NEW j \in Jobs,
           \/ NodeMissing(j) \/ QueryDenied(j) \/ Checks(j)
           \/ \E k \in Slots : RaiseChild(j, k) \/ ChildGone(j, k)
    PROVE  Quiet
<1> USE DEF TypeInv, FavTypeOK
<1>1. UNCHANGED <<dbVars, place, caller, kind, contended>>
  BY DEF Checks, NodeMissing, QueryDenied, RaiseQuery, QueryAnswered, RaiseChild, ChildGone,
         screenVars, jobVars, histVars
<1>2. \A c \in Calls : c \in outdated => c \in outdated'
  BY DEF Checks, NodeMissing, QueryDenied, RaiseQuery, QueryAnswered, RaiseChild, ChildGone, histVars
<1>3. \A b \in Jobs : kind[b] # "check" =>
          /\ stage'[b] = "raised" => stage[b] = "raised" /\ snap'[b] = snap[b]
          /\ \A k \in Slots : child'[b][k] \in {"asked", "there", "gone"} =>
                child[b][k] \in {"asked", "there", "gone"}
  BY DEF Checks, NodeMissing, QueryDenied, RaiseQuery, QueryAnswered, RaiseChild, ChildGone, Step, jobVars
<1>4. \A c \in Calls : Looking(c)' => Looking(c) /\ c \in Jobs /\ kind[c] = "remove"
  BY <1>1, <1>3 DEF Looking, Outstanding, Jobs
<1>5. UNCHANGED <<node, pending, listens, cache>>
  BY <1>1 DEF dbVars
<1>6. \A e \in Devices : \A i \in DOMAIN pending[e] :
          pending[e][i].by \in Jobs /\ (pending[e][i].by \in outdated => pending[e][i].by \in outdated')
  BY <1>2, QueuedWriting DEF Jobs
<1> QED
  BY <1>1, <1>2, <1>3, <1>4, <1>5, <1>6 DEF Quiet

LEMMA DevicesQuiet ==
    ASSUME TypeInv, QueueOwned, NEW d \in Devices,
           \/ VisitFavorites(d) \/ Completion(d) \/ Kill(d) \/ LoseQueue(d)
           \/ Relaunch(d) \/ ConnectionLost(d) \/ Push(d)
    PROVE  Quiet
<1> USE DEF TypeInv, FavTypeOK
<1>1. UNCHANGED <<node, place, caller, kind, contended, outdated>>
  BY DEF VisitFavorites, Completion, Acknowledge, Kill, LoseQueue, Relaunch, ConnectionLost, Push,
         screenVars, jobVars, histVars
<1>2. \A b \in Jobs :
          /\ stage'[b] = "raised" => stage[b] = "raised" /\ snap'[b] = snap[b]
          /\ \A k \in Slots : child'[b][k] \in {child[b][k], "none"}
  <2>1. CASE UNCHANGED <<stage, snap, child>>
    BY <2>1
  <2>2. CASE Completion(d)
    <3>1. UNCHANGED <<child, snap>>
      BY <2>2 DEF Completion, Acknowledge
    <3>2. stage' = stage \/ \E x \in {"done", "failed"} :
              stage' = [stage EXCEPT ![Head(pending[d]).by] = x]
      BY <2>2 DEF Completion, Acknowledge, Step
    <3> QED
      BY <3>1, <3>2
  <2>3. CASE Kill(d)
    <3>1. /\ stage' = [j \in Jobs |->
                IF DeviceOf(j) = d /\ stage[j] \in {"asked", "raised", "found"}
                THEN "dead" ELSE stage[j]]
          /\ snap' = [j \in Jobs |-> IF DeviceOf(j) = d THEN NoNode ELSE snap[j]]
          /\ child' = [j \in Jobs |->
                IF DeviceOf(j) = d THEN [k \in Slots |-> "none"] ELSE child[j]]
      BY <2>3 DEF Kill
    <3>2. \A b \in Jobs : stage'[b] = "raised" => stage[b] = "raised" /\ DeviceOf(b) # d
      BY <3>1
    <3> QED
      BY <3>1, <3>2
  <2>4. CASE LoseQueue(d)
    <3>1. /\ stage' = [j \in Jobs |->
                IF DeviceOf(j) = d /\ stage[j] = "queued" THEN "dead" ELSE stage[j]]
          /\ UNCHANGED <<snap, child>>
      BY <2>4 DEF LoseQueue
    <3> QED
      BY <3>1
  <2> QED
    BY <2>1, <2>2, <2>3, <2>4 DEF VisitFavorites, Relaunch, ConnectionLost, Push, jobVars
<1>3. \A c \in Calls : Looking(c)' => Looking(c) /\ c \in Jobs
  BY <1>1, <1>2 DEF Looking, Outstanding, Jobs
<1>4. ASSUME NEW e \in Devices, NEW i \in DOMAIN pending'[e]
      PROVE  \E m \in DOMAIN pending[e] :
                /\ pending'[e][i].by = pending[e][m].by
                /\ pending'[e][i].key = pending[e][m].key /\ pending'[e][i].val = pending[e][m].val
                /\ pending'[e][i].fate = "ok" => pending[e][m].fate = "ok"
  <2>1. CASE UNCHANGED pending
    BY <2>1
  <2>2. CASE Completion(d)
    <3>1. Left(d)
      BY <2>2, LeftShape DEF Completion, Acknowledge
    <3>2. CASE e = d
      <4>1. i + 1 \in DOMAIN pending[d] /\ pending'[d][i] = pending[d][i + 1]
        BY <3>1, <3>2 DEF Left
      <4> QED
        BY <3>2, <4>1
    <3>3. CASE e # d
      BY <3>1, <3>3 DEF Left
    <3> QED
      BY <3>2, <3>3
  <2>3. CASE LoseQueue(d)
    BY <2>3 DEF LoseQueue
  <2>4. CASE ConnectionLost(d)
    <3>1. Resent(d)
      BY <2>4, LostShape
    <3>2. CASE e = d
      <4>1. i \in DOMAIN pending[d]
        BY <3>1, <3>2 DEF Resent
      <4>w. PICK w : w = [pending[d][i] EXCEPT !.fate = "sent"]
        OBVIOUS
      <4>2. w.by = pending[d][i].by /\ w.key = pending[d][i].key /\ w.val = pending[d][i].val
            /\ w.fate = "sent"
        BY <4>1, <4>w, QueueTypes DEF Writes
      <4>3. pending'[d][i] = pending[d][i] \/ pending'[d][i] = w
        BY <3>1, <4>1, <4>w DEF Resent
      <4> QED
        BY <3>2, <4>1, <4>2, <4>3
    <3>3. CASE e # d
      BY <3>1, <3>3 DEF Resent
    <3> QED
      BY <3>2, <3>3
  <2> QED
    BY <2>1, <2>2, <2>3, <2>4 DEF VisitFavorites, Relaunch, Kill, Push
<1>5. \A e \in Devices : listens'[e] => cache'[e] = node.fav \/ (listens[e] /\ cache'[e] = cache[e])
  BY DEF VisitFavorites, Completion, Acknowledge, CatchUp, Kill, LoseQueue, Relaunch,
         ConnectionLost, Push
<1> QED
  BY <1>1, <1>2, <1>3, <1>4, <1>5 DEF Quiet

\* The user node as a writing job's device sees it is the node.
LEMMA RaiseNodeFollowed ==
    ASSUME TypeInv, QueueOwned, Turns, NodeFollowed, NEW j \in Jobs, RaiseNode(j)
    PROVE  NodeFollowed'
<1> SUFFICES ASSUME ~contended'
             PROVE  NodeFollowed'
  BY DEF NodeFollowed
<1>a. ~contended /\ Writing(j) /\ stage[j] \in {"asked", "raised"} /\ QueueOwned /\ Turns
  BY DEF RaiseNode, Writing, Writers, Busy, histVars
<1>b. /\ \A e \in Devices : DOMAIN pending[e] = {}
      /\ \A b \in Jobs : kind[b] \in {"add", "publish"} /\ stage[b] = "raised" => b = j
      /\ \A b \in Calls : Looking(b) => b = j
  BY <1>a, SoleReader
<1> USE DEF TypeInv, FavTypeOK
<1>1. /\ kind[j] \in {"add", "publish"} /\ stage[j] = "asked"
      /\ snap' = [snap EXCEPT ![j] = NodeView(DeviceOf(j))]
      /\ stage' = [stage EXCEPT ![j] = "raised"]
      /\ UNCHANGED <<node, pending, place, from, kind, caller, child, contended, outdated>>
  BY DEF RaiseNode, Step, screenVars, histVars
<1>2. Writing(j)
  BY <1>1 DEF Writing, Writers, Busy
<1>d. PICK d \in Devices : d = DeviceOf(j)
  BY JobTypes
<1>3. \A e \in Devices : DOMAIN pending[e] = {}
  BY <1>b
<1>4. snap'[j] = node
  BY <1>1, <1>3, <1>d, SeenAlone DEF NodeView
<1>5. \A b \in Jobs : kind'[b] \in {"add", "publish"} /\ stage'[b] = "raised" => b = j
  BY <1>1, <1>2, <1>b
<1>6. \A c \in Calls : ~Looking(c)'
  <2>1. \A c \in Calls : ~Looking(c)
    BY <1>1, <1>2, <1>b DEF Looking
  <2>2. \A c \in Calls : c \in Jobs /\ (Looking(c)' => Looking(c))
    BY <1>1 DEF Looking, Outstanding, Jobs
  <2> QED
    BY <2>1, <2>2
<1> QED
  BY <1>1, <1>3, <1>4, <1>5, <1>6 DEF NodeFollowed

\* A removal's query is answered by the node, or the removal is outdated.
LEMMA RaiseQueryFollowed ==
    ASSUME TypeInv, QueueOwned, Turns, NodeFollowed, NEW c \in Jobs, RaiseQuery(c), kind[c] = "remove"
    PROVE  NodeFollowed'
<1> SUFFICES ASSUME ~contended'
             PROVE  NodeFollowed'
  BY DEF NodeFollowed
<1>a. ~contended /\ Writing(c) /\ stage[c] \in {"asked", "raised"} /\ QueueOwned /\ Turns
  BY DEF RaiseQuery, Writing, Writers, Busy, histVars
<1>b. /\ \A e \in Devices : DOMAIN pending[e] = {}
      /\ \A b \in Jobs : kind[b] \in {"add", "publish"} /\ stage[b] = "raised" => b = c
      /\ \A b \in Calls : Looking(b) => b = c
  BY <1>a, SoleReader
<1> USE DEF TypeInv, FavTypeOK
<1>1. /\ stage[c] = "asked" /\ c \in Calls
      /\ snap' = [snap EXCEPT ![c] = FavView(DeviceOf(c))]
      /\ stage' = [stage EXCEPT ![c] = "raised"]
      /\ UNCHANGED <<node, pending, listens, cache, place, from, kind, caller, child, contended>>
  BY DEF RaiseQuery, Step, screenVars, histVars, dbVars, KindsMatch
<1>2. Writing(c)
  BY <1>1 DEF Writing, Writers, Busy
<1>d. PICK d \in Devices : d = DeviceOf(c)
  BY JobTypes
<1>3. \A e \in Devices : DOMAIN pending[e] = {}
  BY <1>b
<1>4. c \notin outdated' /\ listens[d] => cache[d] = node.fav
  BY <1>d DEF RaiseQuery
<1>5. c \notin outdated' => snap'[c].fav = node.fav
  <2>1. FavView(d) = IF listens[d] THEN [node EXCEPT !.fav = cache[d]] ELSE node
    <3>1. [node EXCEPT !.fav = cache[d]] \in UserNodes
      BY DEF UserNodes
    <3> QED
      BY <1>3, <3>1, SeenAlone DEF FavView
  <2>2. FavView(d).fav = IF listens[d] THEN cache[d] ELSE node.fav
    BY <2>1 DEF UserNodes
  <2> QED
    BY <1>1, <1>4, <1>d, <2>2
<1>6. \A b \in Jobs : ~(kind'[b] \in {"add", "publish"} /\ stage'[b] = "raised")
  BY <1>1, <1>2, <1>b
<1>7. \A b \in Calls : Looking(b)' => b = c
  <2>1. \A b \in Calls : b \in Jobs /\ (b # c /\ Looking(b)' => Looking(b))
    BY <1>1 DEF Looking, Outstanding, Jobs
  <2> QED
    BY <1>2, <2>1, <1>b
<1>8. \A k \in Slots : child'[c][k] = "none"
  BY <1>1 DEF KindsMatch
<1>9. DeviceOf(c)' = d
  BY <1>1, <1>d DEF DeviceOf
<1>10. \A k \in Slots : listens[d] /\ c \notin outdated' => node.fav[k] = cache[d][k]
  BY <1>4
<1> QED
  BY <1>1, <1>3, <1>5, <1>6, <1>7, <1>8, <1>9, <1>10 DEF NodeFollowed

\* The keys a removal found hold its product.
LEMMA QueryAnsweredFollowed ==
    ASSUME TypeInv, QueueOwned, Turns, NodeFollowed, NEW c \in Jobs, QueryAnswered(c),
           kind[c] = "remove"
    PROVE  NodeFollowed'
<1> SUFFICES ASSUME ~contended'
             PROVE  NodeFollowed'
  BY DEF NodeFollowed
<1>a. ~contended /\ Writing(c) /\ stage[c] \in {"asked", "raised"} /\ QueueOwned /\ Turns
  BY DEF QueryAnswered, Writing, Writers, Busy, histVars
<1>b. /\ \A e \in Devices : DOMAIN pending[e] = {}
      /\ \A b \in Jobs : kind[b] \in {"add", "publish"} /\ stage[b] = "raised" => b = c
      /\ \A b \in Calls : Looking(b) => b = c
  BY <1>a, SoleReader
<1> USE DEF TypeInv, FavTypeOK
<1>1. /\ stage[c] = "raised" /\ c \in Calls
      /\ \E x \in {"silent", "found"} : stage' = [stage EXCEPT ![c] = x]
      /\ snap' = [snap EXCEPT ![c] = NoNode]
      /\ child' = [child EXCEPT ![c] = [k \in Slots |->
            IF k \in Matches(c) THEN "asked" ELSE "none"]]
      /\ UNCHANGED <<node, pending, listens, cache, place, from, kind, caller, contended, outdated>>
  BY DEF QueryAnswered, Step, screenVars, histVars, dbVars, KindsMatch
<1>2. Writing(c) /\ Looking(c)
  BY <1>1 DEF Writing, Writers, Busy, Looking
<1>3. \A e \in Devices : DOMAIN pending[e] = {}
  BY <1>b
<1>4. \A b \in Jobs : ~(kind'[b] \in {"add", "publish"} /\ stage'[b] = "raised")
  BY <1>1, <1>2, <1>b
<1>5. \A b \in Calls : Looking(b)' => b = c
  <2>1. \A b \in Calls : b \in Jobs /\ (b # c /\ Looking(b)' => Looking(b))
    BY <1>1 DEF Looking, Outstanding, Jobs
  <2> QED
    BY <1>2, <2>1, <1>b
<1>6. stage'[c] # "raised" /\ Product(c)' = Product(c) /\ DeviceOf(c)' = DeviceOf(c)
  BY <1>1 DEF Product, DeviceOf
<1>7. c \notin outdated => \A k \in Slots : child'[c][k] \in {"asked", "there", "gone"} =>
          node.fav[k] = Product(c)
  <2>1. c \notin outdated => snap[c].fav = node.fav
    BY <1>1, <1>2 DEF NodeFollowed
  <2> QED
    BY <1>1, <2>1 DEF Matches
<1>8. c \notin outdated /\ listens[DeviceOf(c)] =>
          \A k \in Slots : node.fav[k] \in {cache[DeviceOf(c)][k], Nothing}
  BY <1>1, <1>2 DEF NodeFollowed
<1> QED
  BY <1>1, <1>3, <1>4, <1>5, <1>6, <1>7, <1>8 DEF NodeFollowed

\* A rewrite of a snapshot that is the node keeps what others put there.
LEMMA RewriteFollowed ==
    ASSUME TypeInv, QueueOwned, Turns, NodeFollowed, NEW j \in Jobs,
           (j \in Calls /\ AddFavorite(j)) \/ (j \in Publications /\ AddProduct(j))
    PROVE  NodeFollowed'
<1> SUFFICES ASSUME ~contended'
             PROVE  NodeFollowed'
  BY DEF NodeFollowed
<1>a. ~contended /\ Writing(j) /\ stage[j] \in {"asked", "raised"} /\ QueueOwned /\ Turns
  BY DEF AddFavorite, AddProduct, Rewrite, Writing, Writers, Busy, histVars
<1>b. /\ \A e \in Devices : DOMAIN pending[e] = {}
      /\ \A b \in Jobs : kind[b] \in {"add", "publish"} /\ stage[b] = "raised" => b = j
      /\ \A b \in Calls : Looking(b) => b = j
  BY <1>a, SoleReader
<1> USE DEF TypeInv, FavTypeOK
<1> DEFINE new == IF kind[j] = "add" THEN [snap[j] EXCEPT !.fav = WithFavorite(@, Product(j))]
                  ELSE [snap[j] EXCEPT !.made = @ \cup {j}]
<1>1. /\ kind[j] \in {"add", "publish"} /\ stage[j] = "raised"
      /\ Enqueue(j, WholeNode, new)
      /\ stage' = [stage EXCEPT ![j] = "queued"]
      /\ UNCHANGED <<node, place, from, kind, caller, child, contended, outdated>>
  BY DEF AddFavorite, AddProduct, Rewrite, Step, screenVars, histVars
<1>2. Writing(j)
  BY <1>1 DEF Writing, Writers, Busy
<1>3. \A e \in Devices : DOMAIN pending[e] = {}
  BY <1>b
<1>4. snap[j] = node
  BY <1>1 DEF NodeFollowed
<1>d. PICK d \in Devices : d = DeviceOf(j)
  BY JobTypes
<1>v. PICK val : val = new
  OBVIOUS
<1>w. PICK w : w = [by |-> j, key |-> WholeNode, val |-> val, fate |-> "sent"]
  OBVIOUS
<1>5. Entered(d, w) /\ w.by = j /\ w.key = WholeNode /\ w.val = val /\ w.fate = "sent"
  BY <1>1, <1>d, <1>v, <1>w, EnqueueShape
<1>6. \A e \in Devices : \A i \in DOMAIN pending'[e] : pending'[e][i] = w
  <2>1. DOMAIN pending[d] = 1..Len(pending[d]) /\ Len(pending[d]) \in Nat
    BY QueueTypes
  <2>2. Len(pending[d]) = 0
    <3>1. Len(pending[d]) # 0 => 1 \in DOMAIN pending[d]
      BY <2>1
    <3> QED
      BY <1>3, <3>1
  <2>3. DOMAIN pending'[d] = {1} /\ pending'[d][1] = w
    BY <1>5, <2>2 DEF Entered
  <2> QED
    BY <1>3, <1>5, <2>3 DEF Entered
<1>7. \A b \in Jobs : ~(kind'[b] \in {"add", "publish"} /\ stage'[b] = "raised")
  BY <1>1, <1>2, <1>b
<1>8. \A c \in Calls : ~Looking(c)'
  <2>1. \A c \in Calls : c \in Jobs /\ ~Looking(c)
    BY <1>1, <1>2, <1>b DEF Looking, Jobs
  <2> QED
    BY <1>1, <2>1 DEF Looking, Outstanding
<1>9. /\ node.made \subseteq val.made
      /\ Favs(node.fav) \subseteq Favs(val.fav) \/ (kind[j] = "add" /\ ~Dense(node.fav))
      /\ kind[j] = "add" => Product(j) \in Favs(val.fav)
      /\ kind[j] = "publish" => j \in val.made
  <2>1. CASE kind[j] = "add"
    <3>1. /\ j \in Calls /\ Product(j) \in Products /\ node.fav \in FavLists
          /\ Dense(node.fav) => \E k \in Slots : node.fav[k] = Nothing
      BY <1>4, <2>1, JobTypes DEF KindsMatch, AddFavorite, AddProduct, UserNodes
    <3>2. val.fav = WithFavorite(node.fav, Product(j)) /\ val.made = node.made
      BY <1>4, <1>v, <2>1 DEF UserNodes
    <3> QED
      BY <2>1, <3>1, <3>2, WithFavoriteKeeps
  <2>2. CASE kind[j] = "publish"
    BY <1>4, <1>v, <2>2 DEF UserNodes
  <2> QED
    BY <1>1, <2>1, <2>2
<1>10. Product(j)' = Product(j) /\ WholeNode' = WholeNode
  BY <1>1 DEF Product, WholeNode
<1>11. ASSUME NEW e \in Devices, NEW i \in DOMAIN pending'[e]
       PROVE  Follows(pending[e][i])'
  BY <1>1, <1>5, <1>6, <1>9, <1>10 DEF Follows
<1> QED
  BY <1>7, <1>8, <1>11 DEF NodeFollowed

\* What a removal found is cleared by its own write.
LEMMA ChildThereFollowed ==
    ASSUME TypeInv, QueueOwned, Turns, NodeFollowed, NEW c \in Jobs, NEW k \in Slots, ChildThere(c, k)
    PROVE  NodeFollowed'
<1>1. /\ child[c][k] = "there" /\ child' = [child EXCEPT ![c][k] = "handled"]
      /\ stage[c] \in {"found", "done"} /\ stage' = [stage EXCEPT ![c] = "done"]
      /\ kind[c] \in {"check", "remove"} /\ c \in Calls
      /\ UNCHANGED <<node, listens, cache, place, from, kind, caller, snap, contended, outdated>>
  BY DEF ChildThere, ChildFound, Step, TypeInv, FavTypeOK, KindsMatch
<1>2. stage \in [Jobs -> Stages] /\ child \in [Jobs -> [Slots -> KeyStages]]
  BY DEF TypeInv, FavTypeOK
<1>3. \A b \in Jobs : /\ stage'[b] = "raised" => stage[b] = "raised"
                      /\ \A m \in Slots : child'[b][m] \in {"asked", "there", "gone"} =>
                            child[b][m] \in {"asked", "there", "gone"}
  BY <1>1, <1>2
<1>4. \A b \in Calls : Looking(b)' => Looking(b) /\ b \in Jobs
  BY <1>1, <1>3 DEF Looking, Outstanding, Jobs
<1>5. CASE kind[c] = "check"
  <2>1. UNCHANGED pending
    BY <1>5 DEF ChildThere, ChildFound
  <2>2. Quiet
    BY <1>1, <1>3, <1>4, <2>1 DEF Quiet
  <2> QED
    BY <2>2, QuietFollowed DEF TypeInv
<1>6. CASE kind[c] = "remove"
  <2> SUFFICES ASSUME ~contended'
               PROVE  NodeFollowed'
    BY DEF NodeFollowed
  <2>1. Looking(c) /\ Product(c)' = Product(c) /\ WholeNode' = WholeNode
    BY <1>1, <1>6 DEF Looking, Outstanding, Product, WholeNode
  <2>d. PICK d \in Devices : d = DeviceOf(c)
    BY JobTypes DEF TypeInv
  <2>w. PICK w : w = [by |-> c, key |-> k, val |-> NoNode, fate |-> "sent"]
    OBVIOUS
  <2>2. Entered(d, w) /\ w.by = c /\ w.key = k /\ w.fate = "sent" /\ k # WholeNode
    <3>1. Enqueue(c, k, NoNode)
      BY <1>6 DEF ChildThere, ChildFound
    <3>2. Entered(d, w)
      BY <2>d, <2>w, <3>1, EnqueueShape DEF TypeInv
    <3> QED
      BY <2>w, <3>2, ConstantTypes
  <2>3. c \notin outdated => node.fav[k] \in {Product(c), Nothing}
    BY <1>1, <2>1 DEF NodeFollowed
  <2>4. ASSUME NEW e \in Devices, NEW i \in DOMAIN pending'[e]
        PROVE  Follows(pending[e][i])'
    <3>1. CASE i \in DOMAIN pending[e]
      <4>1. pending'[e][i] = pending[e][i]
        BY <2>2, <3>1 DEF Entered
      <4>2. Follows(pending[e][i])
        BY <1>1, <3>1 DEF NodeFollowed
      <4> QED
        BY <1>1, <4>1, <4>2 DEF Follows, Product, WholeNode
    <3>2. CASE i \notin DOMAIN pending[e]
      <4>1. pending'[e][i] = w
        <5>1. e = d
          BY <2>2, <3>2 DEF Entered
        <5>2. DOMAIN pending[d] = 1..Len(pending[d]) /\ Len(pending[d]) \in Nat
          BY QueueTypes DEF TypeInv
        <5> QED
          BY <2>2, <3>2, <5>1, <5>2 DEF Entered
      <4> QED
        BY <1>1, <1>6, <2>1, <2>2, <2>3, <4>1 DEF Follows
    <3> QED
      BY <3>1, <3>2
  <2>5. ASSUME NEW j \in Jobs, kind'[j] \in {"add", "publish"}, stage'[j] = "raised"
        PROVE  snap'[j] = node'
    BY <1>1, <1>3, <2>5 DEF NodeFollowed
  <2>6. ASSUME NEW b \in Calls, Looking(b)', b \notin outdated'
        PROVE  /\ stage'[b] = "raised" => snap'[b].fav = node'.fav
               /\ \A m \in Slots : child'[b][m] \in {"asked", "there", "gone"} =>
                     node'.fav[m] \in {Product(b)', Nothing}
               /\ listens'[DeviceOf(b)'] =>
                     \A m \in Slots : node'.fav[m] \in {cache'[DeviceOf(b)'][m], Nothing}
    <3>1. Looking(b) /\ b \in Jobs /\ b \notin outdated
      BY <1>1, <1>4, <2>6
    <3>2. Product(b)' = Product(b) /\ DeviceOf(b)' = DeviceOf(b)
      BY <1>1 DEF Product, DeviceOf
    <3>3. /\ stage[b] = "raised" => snap[b].fav = node.fav
          /\ \A m \in Slots : child[b][m] \in {"asked", "there", "gone"} =>
                node.fav[m] \in {Product(b), Nothing}
          /\ listens[DeviceOf(b)] =>
                \A m \in Slots : node.fav[m] \in {cache[DeviceOf(b)][m], Nothing}
      BY <1>1, <3>1 DEF NodeFollowed
    <3> QED
      BY <1>1, <1>3, <3>1, <3>2, <3>3
  <2> QED
    BY <2>4, <2>5, <2>6 DEF NodeFollowed
<1> QED
  BY <1>1, <1>5, <1>6

\* A performed write changes the node by its own job's change.
LEMMA ServerFollowed ==
    ASSUME TypeInv, QueueOwned, Turns, NodeFollowed, NEW d \in Devices, Server(d)
    PROVE  NodeFollowed'
<1> SUFFICES ASSUME ~contended'
             PROVE  NodeFollowed'
  BY DEF NodeFollowed
<1>1. /\ UNCHANGED <<listens, cache, place, from, kind, caller, stage, snap, child, outdated, denied>>
      /\ ~contended
  BY DEF Server, screenVars, jobVars
<1>2. PICK i \in DOMAIN pending[d] : Served(d, i)
  BY ServerShape DEF TypeInv
<1>w. PICK w : w = pending[d][i]
  OBVIOUS
<1>v. PICK v : v = pending'[d][i]
  OBVIOUS
<1>3. /\ w \in Writes /\ w.by \in Jobs /\ Writing(w.by) /\ DeviceOf(w.by) = d
      /\ w.key \in Slots \cup {WholeNode} /\ w.val \in UserNodes /\ w.fate = "sent"
      /\ Owned(d, w) /\ Follows(w)
  BY <1>1, <1>2, <1>w, QueueTypes, QueuedWriting DEF TypeInv, QueueOwned, Served, NodeFollowed
<1>4. /\ v.by = w.by /\ v.key = w.key /\ v.val = w.val
      /\ v.fate = "ok" <=> w.by \notin denied
  BY <1>2, <1>3, <1>v, <1>w DEF Served, Writes
<1>5. /\ \A e \in Devices : \A n \in DOMAIN pending'[e] : n \in DOMAIN pending[e]
      /\ \A e \in Devices : \A n \in DOMAIN pending[e] :
            /\ pending[e][n].by = w.by /\ e = d
            /\ w.key = WholeNode => n = i
            /\ n # i => pending'[e][n] = pending[e][n]
      /\ \A b \in Jobs : kind[b] \in {"add", "publish"} /\ stage[b] = "raised" => b = w.by
      /\ \A c \in Calls : Looking(c) => c = w.by
  BY <1>1, <1>2, <1>3, <1>w, SoleWriter DEF Served, QueueOwned
<1>6. \A c \in Calls : /\ Product(c)' = Product(c) /\ DeviceOf(c)' = DeviceOf(c)
                       /\ Looking(c)' <=> Looking(c)
  BY <1>1 DEF Product, DeviceOf, Looking, Outstanding
<1>7. node \in UserNodes
  BY DEF TypeInv, FavTypeOK
<1>8. CASE node' = node
  <2>1. ASSUME NEW e \in Devices, NEW n \in DOMAIN pending'[e]
        PROVE  Follows(pending[e][n])'
    <3>1. CASE n = i
      <4>1. pending'[e][n] = v /\ (v.fate = "ok" => node' = Applied(w))
        BY <1>2, <1>4, <1>5, <1>v, <1>w, <3>1 DEF Served
      <4>2. v.fate = "ok" /\ v.key # WholeNode => node'.fav[v.key] = Nothing
        <5>1. ASSUME v.fate = "ok", v.key # WholeNode
              PROVE  node'.fav[v.key] = Nothing
          <6>1. node' = [node EXCEPT !.fav[w.key] = Nothing] /\ w.key \in Slots
            BY <1>3, <1>4, <4>1, <5>1 DEF Applied
          <6> QED
            BY <1>4, <1>7, <6>1 DEF UserNodes, FavLists
        <5> QED
          BY <5>1
      <4>3. v.fate = "ok" /\ v.key = WholeNode => node' = v.val
        BY <1>4, <4>1 DEF Applied
      <4> QED
        BY <1>1, <1>3, <1>4, <1>8, <4>1, <4>2, <4>3 DEF Follows, Product, WholeNode
    <3>2. CASE n # i
      <4>1. n \in DOMAIN pending[e] /\ pending'[e][n] = pending[e][n] /\ Follows(pending[e][n])
        BY <1>1, <1>5, <3>2 DEF NodeFollowed
      <4> QED
        BY <1>1, <1>8, <4>1 DEF Follows, Product, WholeNode
    <3> QED
      BY <3>1, <3>2
  <2> QED
    BY <1>1, <1>6, <1>8, <2>1 DEF NodeFollowed
<1>9. CASE node' = w.val /\ w.key = WholeNode /\ w.by \notin denied
  <2>1. \A b \in Jobs : b = w.by => stage[b] = "queued" /\ kind[b] \in {"add", "publish"}
    BY <1>3, <1>9 DEF Owned, TypeInv, KindsMatch
  <2>2. \A c \in Calls : ~Looking(c)
    BY <1>3, <1>5, <2>1 DEF Looking
  <2>3. ASSUME NEW e \in Devices, NEW n \in DOMAIN pending'[e]
        PROVE  Follows(pending[e][n])'
    <3>1. pending'[e][n] = v
      BY <1>5, <1>9, <1>v
    <3> QED
      BY <1>1, <1>3, <1>4, <1>9, <3>1 DEF Follows, Product, WholeNode
  <2> QED
    BY <1>1, <1>3, <1>5, <1>6, <2>1, <2>2, <2>3 DEF NodeFollowed
<1>10. CASE node' = [node EXCEPT !.fav[w.key] = Nothing] /\ w.key # WholeNode
  <2>1. w.key \in Slots /\ kind[w.by] = "remove" /\ stage[w.by] = "done"
    BY <1>3, <1>10 DEF Owned
  <2>2. node'.fav = [node.fav EXCEPT ![w.key] = Nothing] /\ node.fav \in FavLists
    BY <1>7, <1>10 DEF UserNodes
  <2>3. node'.fav[w.key] = Nothing /\ \A k \in Slots : node'.fav[k] \in {node.fav[k], Nothing}
    BY <2>1, <2>2 DEF FavLists
  <2>4. ASSUME NEW e \in Devices, NEW n \in DOMAIN pending'[e]
        PROVE  Follows(pending[e][n])'
    <3>1. /\ n \in DOMAIN pending[e] /\ Follows(pending[e][n])
          /\ pending[e][n].key \in Slots \cup {WholeNode} /\ Owned(e, pending[e][n])
          /\ pending[e][n].by = w.by
      BY <1>1, <1>5, QueueTypes DEF NodeFollowed, TypeInv, QueueOwned
    <3>2. pending[e][n].key \in Slots /\ pending[e][n].key # WholeNode
      BY <2>1, <3>1 DEF Owned
    <3>3. /\ pending'[e][n].key = pending[e][n].key /\ pending'[e][n].by = w.by
          /\ n = i => pending[e][n].key = w.key
          /\ n # i => pending'[e][n] = pending[e][n]
      BY <1>4, <1>5, <1>v, <1>w, <3>1
    <3>4. /\ pending'[e][n].fate = "ok" => node'.fav[pending'[e][n].key] = Nothing
          /\ w.by \notin outdated => node'.fav[pending'[e][n].key] \in {Product(w.by), Nothing}
      BY <2>3, <3>1, <3>2, <3>3 DEF Follows
    <3> QED
      BY <1>1, <3>2, <3>3, <3>4 DEF Follows, Product, WholeNode
  <2>5. \A b \in Jobs : ~(kind[b] \in {"add", "publish"} /\ stage[b] = "raised")
    BY <1>5, <2>1
  <2>6. \A c \in Calls : Looking(c) => stage[c] # "raised"
    BY <1>5, <2>1
  <2>7. ASSUME NEW c \in Calls, Looking(c), c \notin outdated
        PROVE  /\ \A k \in Slots : child[c][k] \in {"asked", "there", "gone"} =>
                     node'.fav[k] \in {Product(c), Nothing}
               /\ listens[DeviceOf(c)] =>
                     \A k \in Slots : node'.fav[k] \in {cache[DeviceOf(c)][k], Nothing}
    BY <1>1, <2>3, <2>7 DEF NodeFollowed
  <2> QED
    BY <1>1, <1>6, <2>4, <2>5, <2>6, <2>7 DEF NodeFollowed
<1> QED
  BY <1>2, <1>8, <1>9, <1>10, <1>w DEF Served, Applied

LEMMA NextNodeFollowed ==
    ASSUME TypeInv, QueueOwned, Turns, NodeFollowed, [Next]_vars
    PROVE  NodeFollowed'
<1>0. FavTypeOK
  BY DEF TypeInv
<1>1. CASE UNCHANGED vars
  BY <1>1 DEF vars, dbVars, screenVars, jobVars, histVars, NodeFollowed, Follows, Product, DeviceOf,
              Looking, Outstanding
<1>2. ASSUME NEW c \in Calls, Appear(c) \/ Tap(c) \/ QueryDenied(c)
      PROVE  NodeFollowed'
  <2>1. c \in Jobs
    BY DEF Jobs
  <2>2. Quiet
    <3>1. CASE QueryDenied(c)
      BY <2>1, <3>1, CallsQuiet
    <3>2. CASE Appear(c) \/ Tap(c)
      BY <2>1, <3>2, StartQuiet DEF Appear, Tap
    <3> QED
      BY <1>2, <3>1, <3>2
  <2> QED
    BY <1>0, <2>2, QuietFollowed
<1>3. ASSUME NEW j \in Publications, Publish(j)
      PROVE  NodeFollowed'
  <2>1. j \in Jobs
    BY DEF Jobs
  <2> QED
    BY <1>0, <1>3, <2>1, StartQuiet, QuietFollowed DEF Publish
<1>4. ASSUME NEW j \in Jobs, Read(j)
      PROVE  NodeFollowed'
  <2>1. CASE RaiseNode(j)
    BY <2>1, RaiseNodeFollowed
  <2>2. CASE RaiseQuery(j)
    <3>1. kind[j] \in {"check", "remove"}
      BY <2>2 DEF RaiseQuery
    <3> QED
      BY <1>0, <2>2, <3>1, RaiseQueryFollowed, CallsQuiet, QuietFollowed DEF Checks
  <2>3. CASE \E k \in Slots : RaiseChild(j, k)
    BY <1>0, <2>3, CallsQuiet, QuietFollowed
  <2> QED
    BY <1>4, <2>1, <2>2, <2>3 DEF Read
<1>5. ASSUME NEW j \in Jobs, Callback(j)
      PROVE  NodeFollowed'
  <2>1. CASE NodeMissing(j) \/ \E k \in Slots : ChildGone(j, k)
    <3>1. Quiet
      BY <2>1, CallsQuiet
    <3> QED
      BY <1>0, <3>1, QuietFollowed
  <2>2. CASE QueryAnswered(j)
    <3>1. kind[j] \in {"check", "remove"}
      BY <2>2 DEF QueryAnswered
    <3> QED
      BY <1>0, <2>2, <3>1, QueryAnsweredFollowed, CallsQuiet, QuietFollowed DEF Checks
  <2>3. CASE (j \in Calls /\ AddFavorite(j)) \/ (j \in Publications /\ AddProduct(j))
    BY <2>3, RewriteFollowed
  <2>4. CASE \E k \in Slots : ChildThere(j, k)
    BY <2>4, ChildThereFollowed
  <2> QED
    BY <1>5, <2>1, <2>2, <2>3, <2>4 DEF Callback
<1>6. ASSUME NEW s \in Screens, Paint(s)
      PROVE  NodeFollowed'
  BY <1>6 DEF Paint, dbVars, jobVars, histVars, NodeFollowed, Follows, Product, DeviceOf,
              Looking, Outstanding
<1>7. ASSUME NEW d \in Devices,
             \/ VisitFavorites(d) \/ Completion(d) \/ Kill(d) \/ LoseQueue(d)
             \/ Relaunch(d) \/ ConnectionLost(d) \/ Push(d)
      PROVE  NodeFollowed'
  BY <1>0, <1>7, DevicesQuiet, QuietFollowed
<1> QED
  BY <1>1, <1>2, <1>3, <1>4, <1>5, <1>6, <1>7, ServerFollowed DEF Next

LEMMA InitWriteInv == Init => WriteInv
<1> SUFFICES ASSUME Init
             PROVE  WriteInv
  OBVIOUS
<1>1. \A j \in Jobs : ~Busy(j) /\ stage[j] = "idle"
  BY DEF Init, Busy, Outstanding, Queued
<1>2. QueueOwned
  BY <1>1 DEF Init, QueueOwned
<1>3. Turns
  BY <1>1 DEF Turns, Writing, Jobs
<1>4. NodeFollowed
  BY <1>1 DEF Init, NodeFollowed, Looking, Outstanding, Jobs
<1> QED
  BY <1>2, <1>3, <1>4, InitTypeInv DEF WriteInv

LEMMA NextWriteInv == WriteInv /\ [Next]_vars => WriteInv'
BY NextTypeInv, NextQueueOwned, NextTurns, NextNodeFollowed DEF WriteInv

LEMMA AlwaysWriteInv == Spec => []WriteInv
BY InitWriteInv, NextWriteInv, PTL DEF Spec

\* Every variable of the favourites model keeps its type, whatever the calls of
\* RemoteFavoriteDataSource, the publications, the server and the processes do.
THEOREM FavTypeCorrect == Spec => []FavTypeOK
<1>1. WriteInv => FavTypeOK
  BY DEF WriteInv, TypeInv
<1> QED
  BY <1>1, AlwaysWriteInv, PTL

\* A step that changes the node while jobs take turns is the server performing a
\* write of the one job that writes.
LEMMA NodeKeptStep ==
    ASSUME WriteInv, [Next]_vars
    PROVE  \/ contended'
           \/ /\ node.made \subseteq node'.made
              /\ \A p \in Favs(node.fav) \ Favs(node'.fav) : \E c \in Calls :
                    /\ Busy(c)
                    /\ \/ kind[c] = "remove" /\ (Product(c) = p \/ c \in outdated)
                       \/ kind[c] = "add" /\ ~Dense(node.fav)
<1>1. CASE node' = node
  BY <1>1
<1>2. ASSUME NEW d \in Devices, Server(d)
      PROVE  \/ contended'
             \/ /\ node.made \subseteq node'.made
                /\ \A p \in Favs(node.fav) \ Favs(node'.fav) : \E c \in Calls :
                      /\ Busy(c)
                      /\ \/ kind[c] = "remove" /\ (Product(c) = p \/ c \in outdated)
                         \/ kind[c] = "add" /\ ~Dense(node.fav)
  <2> SUFFICES ASSUME ~contended', node' # node
               PROVE  /\ node.made \subseteq node'.made
                      /\ \A p \in Favs(node.fav) \ Favs(node'.fav) : \E c \in Calls :
                            /\ Busy(c)
                            /\ \/ kind[c] = "remove" /\ (Product(c) = p \/ c \in outdated)
                               \/ kind[c] = "add" /\ ~Dense(node.fav)
    BY <1>1
  <2>0. TypeInv /\ QueueOwned /\ FavTypeOK /\ ~contended
    BY <1>2 DEF WriteInv, TypeInv, Server
  <2>1. PICK i \in DOMAIN pending[d] : Served(d, i)
    BY <1>2, <2>0, ServerShape
  <2>w. PICK w : w = pending[d][i]
    OBVIOUS
  <2>2. /\ Follows(w) /\ Owned(d, w) /\ w.by \in Jobs /\ Busy(w.by)
        /\ w.key \in Slots \cup {WholeNode}
        /\ kind[w.by] \in {"add", "remove"} => w.by \in Calls
    BY <2>0, <2>1, <2>w, QueuedWriting DEF WriteInv, NodeFollowed, QueueOwned, Writing, TypeInv,
       KindsMatch
  <2>3. node' = IF w.key = WholeNode THEN w.val ELSE [node EXCEPT !.fav[w.key] = Nothing]
    BY <2>1, <2>w DEF Served, Applied
  <2>4. CASE w.key = WholeNode
    <3>1. /\ node' = w.val /\ node.made \subseteq w.val.made
          /\ Favs(node.fav) \subseteq Favs(w.val.fav) \/ (kind[w.by] = "add" /\ ~Dense(node.fav))
      BY <2>2, <2>3, <2>4 DEF Follows
    <3> QED
      BY <2>2, <3>1
  <2>5. CASE w.key # WholeNode
    <3>1. w.key \in Slots /\ kind[w.by] = "remove" /\ w.by \in Calls
      BY <2>2, <2>5 DEF Owned
    <3>2. node'.made = node.made /\ node'.fav = [node.fav EXCEPT ![w.key] = Nothing]
          /\ node.fav \in FavLists
      BY <2>0, <2>3, <2>5 DEF FavTypeOK, UserNodes
    <3>3. ASSUME NEW p \in Favs(node.fav) \ Favs(node'.fav)
          PROVE  p = node.fav[w.key] /\ p # Nothing
      BY <3>1, <3>2, Cleared DEF Favs
    <3>4. w.by \notin outdated => node.fav[w.key] \in {Product(w.by), Nothing}
      BY <2>2, <2>5 DEF Follows
    <3> QED
      BY <2>2, <3>1, <3>2, <3>3, <3>4
  <2> QED
    BY <2>4, <2>5
<1>3. CASE \A d \in Devices : ~Server(d)
  <2>1. node' = node
    BY <1>3 DEF Next, vars, dbVars, Appear, Tap, Publish, Start, QueryDenied, Read, RaiseNode, RaiseQuery,
       RaiseChild, Callback, NodeMissing, QueryAnswered, AddFavorite, AddProduct, Rewrite, ChildThere,
       ChildFound, ChildGone, Paint, VisitFavorites, Completion, Acknowledge, Kill, LoseQueue,
       Relaunch, ConnectionLost, Push
  <2> QED
    BY <1>1, <2>1
<1> QED
  BY <1>2, <1>3

\* While writing jobs take turns, publishing and favourites leave each other's
\* half of the user node alone, and a favourite goes only by a removal tapped for
\* it, by an addition to a list with a hole, or by a removal that took its keys
\* from a listener behind the server.
THEOREM NodeKeptCorrect == Spec => NodeKept
<1>1. WriteInv /\ [Next]_vars =>
        [ contended'
          \/ /\ node.made \subseteq node'.made
             /\ \A p \in Favs(node.fav) \ Favs(node'.fav) : \E c \in Calls :
                   /\ Busy(c)
                   /\ \/ kind[c] = "remove" /\ (Product(c) = p \/ c \in outdated)
                      \/ kind[c] = "add" /\ ~Dense(node.fav) ]_vars
  BY NodeKeptStep
<1> QED
  BY <1>1, AlwaysWriteInv, PTL DEF Spec, NodeKept

\* A success is the acknowledgement of a write the server has performed.
LEMMA SuccessStep ==
    ASSUME WriteInv, [Next]_vars, ~contended, NEW j \in Jobs, stage[j] # "done", stage'[j] = "done"
    PROVE  /\ kind[j] = "add" => Product(j) \in Favs(node.fav)
           /\ kind[j] = "publish" => j \in node.made
<1> USE DEF WriteInv, TypeInv, FavTypeOK
<1>1. ASSUME NEW d \in Devices, Completion(d)
      PROVE  /\ kind[j] = "add" => Product(j) \in Favs(node.fav)
             /\ kind[j] = "publish" => j \in node.made
  <2>1. Left(d)
    BY <1>1, LeftShape DEF Completion, Acknowledge
  <2>w. PICK w : w = pending[d][1] /\ w = Head(pending[d])
    BY <2>1 DEF Left
  <2>2. /\ w.fate # "sent"
        /\ IF w.key # WholeNode THEN UNCHANGED stage
           ELSE stage' = [stage EXCEPT ![w.by] = IF w.fate = "ok" THEN "done" ELSE "failed"]
    BY <1>1, <2>w DEF Completion, Acknowledge, Step
  <2>3. w.key = WholeNode /\ w.fate = "ok" /\ w.by = j
    BY <2>2
  <2>4. Follows(w)
    BY <2>1, <2>w DEF Left, NodeFollowed
  <2> QED
    BY <2>3, <2>4 DEF Follows
<1>2. ASSUME NEW c \in Jobs, NEW k \in Slots, ChildThere(c, k)
      PROVE  kind[j] \notin {"add", "publish"}
  <2>1. child[c][k] = "there" /\ stage' = [stage EXCEPT ![c] = "done"]
    BY <1>2 DEF ChildThere, ChildFound, Step
  <2>2. kind[c] \in {"check", "remove"} /\ c = j
    BY <2>1 DEF KindsMatch
  <2> QED
    BY <2>2
<1>3. CASE /\ \A d \in Devices : ~Completion(d)
           /\ \A c \in Jobs : \A k \in Slots : ~ChildThere(c, k)
  <2>1. ASSUME NEW i \in Jobs, Callback(i) \/ Read(i) \/ QueryDenied(i) \/ \E k : Start(i, k)
        PROVE  \E x : x # "done" /\ (stage' = stage \/ stage' = [stage EXCEPT ![i] = x])
    <3>1. CASE Callback(i)
      BY <1>3, <3>1 DEF Callback, NodeMissing, QueryAnswered, AddFavorite, AddProduct, Rewrite,
         ChildGone, Step
    <3>2. CASE Read(i)
      BY <3>2 DEF Read, RaiseNode, RaiseQuery, RaiseChild, Step
    <3>3. CASE QueryDenied(i) \/ \E k : Start(i, k)
      BY <3>3 DEF QueryDenied, Start, Step
    <3> QED
      BY <2>1, <3>1, <3>2, <3>3
  <2>2. ASSUME NEW d \in Devices,
               \/ VisitFavorites(d) \/ Server(d) \/ Completion(d) \/ Kill(d) \/ LoseQueue(d)
               \/ Relaunch(d) \/ ConnectionLost(d) \/ Push(d)
        PROVE  \A i \in Jobs : stage'[i] \in {stage[i], "dead"}
    <3>1. CASE Kill(d) \/ LoseQueue(d)
      BY <3>1 DEF Kill, LoseQueue
    <3>2. CASE VisitFavorites(d) \/ Server(d) \/ Relaunch(d) \/ ConnectionLost(d) \/ Push(d)
      BY <3>2 DEF VisitFavorites, Server, Relaunch, ConnectionLost, Push, jobVars
    <3> QED
      BY <1>3, <2>2, <3>1, <3>2
  <2>3. (\E s \in Screens : Paint(s)) \/ UNCHANGED vars => UNCHANGED stage
    BY DEF Paint, vars, jobVars
  <2>4. \A i \in Jobs : Callback(i) \/ Read(i) \/ QueryDenied(i) \/ (\E k : Start(i, k)) => FALSE
    BY <2>1
  <2> QED
    BY <2>2, <2>3, <2>4 DEF Next, Appear, Tap, Publish, Jobs
<1> QED
  BY <1>1, <1>2, <1>3

\* What addProductToFavorite or insertProduct reports as a success has happened:
\* unless writing jobs overlapped, the node the server has holds it by then.
THEOREM SuccessCorrect == Spec => SuccessIsTrue
<1>1. WriteInv /\ [Next]_vars =>
        [ contended \/ \A j \in Jobs :
            stage[j] # "done" /\ stage'[j] = "done" =>
                /\ kind[j] = "add" => Product(j) \in Favs(node.fav)
                /\ kind[j] = "publish" => j \in node.made ]_vars
  BY SuccessStep
<1> QED
  BY <1>1, AlwaysWriteInv, PTL DEF Spec, SuccessIsTrue

-----------------------------------------------------------------------------
(* Hearts *)

\* What the history and the rules' answers never take back.
Grows ==
    /\ UNCHANGED <<place, from, caller>>
    /\ contended => contended'
    /\ hurried \subseteq hurried' /\ denied \subseteq denied' /\ outdated \subseteq outdated'

LEMMA NextGrows ==
    ASSUME [Next]_vars
    PROVE  Grows
<1>1. CASE UNCHANGED vars
  BY <1>1 DEF vars, screenVars, jobVars, histVars, Grows
<1>2. ASSUME NEW j, NEW k, Start(j, k)
      PROVE  Grows
  BY <1>2 DEF Start, Grows
<1>3. ASSUME NEW j, Callback(j)
      PROVE  Grows
  <2>1. CASE NodeMissing(j) \/ QueryAnswered(j) \/ \E k \in Slots : ChildGone(j, k)
    BY <2>1 DEF NodeMissing, QueryAnswered, ChildGone, screenVars, jobVars, histVars, Grows
  <2>2. CASE AddFavorite(j) \/ AddProduct(j)
    BY <2>2 DEF AddFavorite, AddProduct, Rewrite, Enqueue, screenVars, jobVars, histVars, Grows
  <2>3. ASSUME NEW k \in Slots, ChildThere(j, k)
        PROVE  Grows
    <3>1. denied \subseteq denied'
      BY <2>3 DEF ChildThere, ChildFound, Enqueue
    <3> QED
      BY <2>3, <3>1 DEF ChildThere, ChildFound, Grows
  <2> QED
    BY <1>3, <2>1, <2>2, <2>3 DEF Callback
<1>4. ASSUME NEW j, Read(j) \/ QueryDenied(j)
      PROVE  Grows
  BY <1>4 DEF Read, QueryDenied, RaiseNode, RaiseQuery, RaiseChild, screenVars, jobVars, histVars, Grows
<1>5. ASSUME NEW s, Paint(s)
      PROVE  Grows
  BY <1>5 DEF Paint, jobVars, histVars, Grows
<1>6. ASSUME NEW d,
             \/ VisitFavorites(d) \/ Server(d) \/ Completion(d) \/ Kill(d) \/ LoseQueue(d)
             \/ Relaunch(d) \/ ConnectionLost(d) \/ Push(d)
      PROVE  Grows
  BY <1>6 DEF VisitFavorites, Server, Completion, Acknowledge, Kill, LoseQueue, Relaunch,
     ConnectionLost, Push, screenVars, jobVars, histVars, Grows
<1> QED
  BY <1>1, <1>2, <1>3, <1>4, <1>5, <1>6 DEF Next, Appear, Tap, Publish

\* An answer is the last colour of its screen, and says whether that is informed.
LEMMA AnswerShape ==
    ASSUME FavTypeOK, NEW c \in Calls, NEW colour, Answer(c, colour), NEW s \in Screens, s = caller[c]
    PROVE  /\ Last(s)' = colour /\ paint'[s] # <<>>
           /\ \A t \in Screens : t # s => paint'[t] = paint[t] /\ (t \in informed' <=> t \in informed)
           /\ \/ s \notin informed'
              \/ (colour = "red") = (Product(c) \in Favs(node.fav))
              \/ kind[c] = "remove" /\ s \in informed
           /\ \A t \in informed' : t \in informed \/ t = s
<1>1. paint' = [paint EXCEPT ![s] = Append(paint[s], colour)]
  BY DEF Answer
<1>2. paint[s] \in Seq({"white", "red"}) /\ paint \in [Screens -> Seq({"white", "red"})]
  BY DEF FavTypeOK
<1>3. paint'[s] = Append(paint[s], colour) /\ \A t \in Screens : t # s => paint'[t] = paint[t]
  BY <1>1, <1>2
<1>4. paint'[s] # <<>> /\ paint'[s][Len(paint'[s])] = colour
  BY <1>2, <1>3
<1>5. informed' = IF (colour = "red") = (Product(c) \in Favs(node.fav)) THEN informed \cup {s}
                  ELSE IF kind[c] = "remove" THEN informed ELSE informed \ {s}
  BY DEF Answer
<1>6. Last(s)' = colour
  BY <1>4 DEF Last
<1> QED
  BY <1>3, <1>4, <1>5, <1>6

LEMMA SameLast ==
    ASSUME NEW s, paint'[s] = paint[s], heart'[s] = heart[s]
    PROVE  Last(s)' = Last(s)
BY DEF Last

LEMMA PaintLast ==
    ASSUME FavTypeOK, NEW s \in Screens, Paint(s), NEW t \in Screens
    PROVE  /\ Last(t)' = Last(t)
           /\ heart'[t] \in {heart[t], "white", "red"} /\ (t # s => heart'[t] = heart[t])
           /\ paint'[t] # <<>> => paint[t] # <<>>
<1>1. /\ paint[s] \in Seq({"white", "red"}) /\ paint[s] # <<>>
      /\ heart' = [heart EXCEPT ![s] = Head(paint[s])]
      /\ paint' = [paint EXCEPT ![s] = Tail(paint[s])]
      /\ paint \in [Screens -> Seq({"white", "red"})]
      /\ heart \in [Screens -> {"unopened", "white", "red", "gone"}]
  BY DEF FavTypeOK, Paint
<1>2. CASE t # s
  BY <1>1, <1>2 DEF Last
<1>3. CASE t = s
  <2>1. heart'[t] = Head(paint[s]) /\ paint'[t] = Tail(paint[s]) /\ Head(paint[s]) \in {"white", "red"}
    BY <1>1, <1>3
  <2>q. PICK q \in Seq({"white", "red"}) : q = paint[s]
    BY <1>1
  <2>2. Len(q) \in Nat \ {0}
    BY <1>1, <2>q
  <2>t. /\ Tail(q) \in Seq({"white", "red"}) /\ Len(Tail(q)) = Len(q) - 1 /\ Head(q) = q[1]
        /\ \A i \in 1..(Len(q) - 1) : Tail(q)[i] = q[i + 1]
    BY <2>2, EmptySeq, HeadTailProperties
  <2>3. CASE Len(q) = 1
    <3>1. Tail(q) = <<>> /\ Head(q) = q[Len(q)]
      <4>1. Len(Tail(q)) = 0 /\ Head(q) = q[Len(q)]
        BY <2>3, <2>t
      <4>2. Tail(q) = <<>>
        BY <2>t, <4>1, EmptySeq
      <4> QED
        BY <4>1, <4>2
    <3> QED
      BY <1>1, <1>3, <2>1, <2>q, <3>1 DEF Last
  <2>4. CASE Len(q) # 1
    <3>1. Len(Tail(q)) = Len(q) - 1 /\ Len(q) - 1 \in 1..(Len(q) - 1) /\ (Len(q) - 1) + 1 = Len(q)
      BY <2>2, <2>4, <2>t
    <3>2. Tail(q) # <<>> /\ Tail(q)[Len(q) - 1] = q[Len(q)]
      <4>1. Len(Tail(q)) # 0 /\ Len(<<>>) = 0
        BY <2>4, <2>2, <2>t, EmptySeq
      <4>2. Tail(q)[Len(q) - 1] = q[(Len(q) - 1) + 1]
        BY <2>t, <3>1
      <4>3. Tail(q) # <<>>
        BY <4>1
      <4> QED
        BY <3>1, <4>2, <4>3
    <3> QED
      BY <1>1, <1>3, <2>1, <2>q, <3>1, <3>2 DEF Last
  <2> QED
    BY <2>3, <2>4
<1> QED
  BY <1>2, <1>3

-----------------------------------------------------------------------------
(* Shown screens *)

\* The steps that show and hide no screen, and start no call.
LEMMA StillShown ==
    ASSUME ScreensShown, UNCHANGED <<place, caller, heart, alive>>,
           \A s \in Screens : paint'[s] # <<>> => paint[s] # <<>> \/ Shown(s),
           \A c \in Calls : Running(c)' => Running(c),
           \A s \in informed' : s \in informed \/ Shown(s)
    PROVE  ScreensShown'
BY DEF ScreensShown, Shown

LEMMA JobsRunning ==
    ASSUME TypeInv, NEW j \in Jobs, Read(j) \/ Callback(j) \/ QueryDenied(j)
    PROVE  /\ \A c \in Calls : Running(c)' => Running(c)
           /\ UNCHANGED <<place, caller, heart, alive>>
           /\ j \in Calls => Running(j)
<1>0. UNCHANGED <<place, caller, heart, alive>>
  <2>1. CASE Read(j) \/ QueryDenied(j)
    BY <2>1 DEF Read, QueryDenied, RaiseNode, RaiseQuery, RaiseChild, dbVars, screenVars
  <2>2. CASE Callback(j)
    BY <2>2 DEF Callback, NodeMissing, QueryAnswered, AddFavorite, AddProduct, Rewrite, ChildThere,
       ChildFound, ChildGone, dbVars, screenVars
  <2> QED
    BY <2>1, <2>2
<1>1. stage[j] \in {"asked", "raised", "found"} \/ Outstanding(j)
  <2>1. CASE Read(j) \/ QueryDenied(j)
    BY <2>1 DEF Read, QueryDenied, RaiseNode, RaiseQuery, RaiseChild, Outstanding
  <2>2. CASE Callback(j)
    BY <2>2 DEF Callback, NodeMissing, QueryAnswered, AddFavorite, AddProduct, Rewrite, ChildThere,
       ChildFound, ChildGone, Outstanding
  <2> QED
    BY <2>1, <2>2
<1>2. ASSUME NEW i \in Jobs, i # j
      PROVE  stage'[i] = stage[i] /\ child'[i] = child[i]
  <2> USE DEF TypeInv, FavTypeOK
  <2>1. CASE Read(j) \/ QueryDenied(j)
    BY <1>2, <2>1 DEF Read, QueryDenied, RaiseNode, RaiseQuery, RaiseChild, Step
  <2>2. CASE Callback(j)
    BY <1>2, <2>2 DEF Callback, NodeMissing, QueryAnswered, AddFavorite, AddProduct, Rewrite, ChildThere,
       ChildFound, ChildGone, Step
  <2> QED
    BY <2>1, <2>2
<1>3. \A i \in Jobs : Busy(i)' => Busy(i)
  BY JobsCalmer DEF Calmer
<1>4. ASSUME NEW c \in Calls, Running(c)'
      PROVE  Running(c)
  <2>1. c \in Jobs
    BY DEF Jobs
  <2>2. CASE c = j
    BY <1>1, <2>2 DEF Running
  <2>3. CASE c # j
    BY <1>0, <1>2, <1>3, <1>4, <2>1, <2>3 DEF Running, Outstanding
  <2> QED
    BY <2>2, <2>3
<1> QED
  BY <1>0, <1>1, <1>4 DEF Running

LEMMA DevicesRunning ==
    ASSUME TypeInv, NEW d \in Devices,
           \/ VisitFavorites(d) \/ Server(d) \/ Completion(d) \/ LoseQueue(d)
           \/ ConnectionLost(d) \/ Push(d)
    PROVE  /\ \A c \in Calls : Running(c)' => Running(c)
           /\ UNCHANGED <<place, caller, heart, alive>>
<1>0. UNCHANGED <<place, caller, heart, alive>>
  BY DEF VisitFavorites, Server, Completion, Acknowledge, LoseQueue, ConnectionLost, Push,
     screenVars, jobVars
<1>1. \A j \in Jobs : /\ stage'[j] \in {"asked", "raised", "found", "queued"} => stage[j] = stage'[j]
                      /\ \A k \in Slots : child'[j][k] \in {child[j][k], "none"}
  BY DevicesStages
<1>2. \A i \in Jobs : Busy(i)' => Busy(i)
  BY DevicesCalmer DEF Calmer
<1> QED
  BY <1>0, <1>1, <1>2 DEF Running, Outstanding, Jobs

\* A call is answered on a shown screen.
LEMMA AnswerShown ==
    ASSUME TypeInv, ScreensShown, NEW c \in Calls, Running(c), NEW colour,
           Answer(c, colour) \/ UNCHANGED <<paint, informed>>
    PROVE  /\ \A s \in Screens : paint'[s] # <<>> => paint[s] # <<>> \/ Shown(s)
           /\ \A s \in informed' : s \in informed \/ Shown(s)
<1>s. PICK s \in Screens : s = caller[c]
  BY JobTypes DEF TypeInv
<1>1. Shown(s)
  BY <1>s DEF ScreensShown
<1>2. CASE UNCHANGED <<paint, informed>>
  BY <1>2
<1>3. CASE Answer(c, colour)
  <2>1. /\ \A t \in Screens : t # s => paint'[t] = paint[t]
        /\ \A t \in informed' : t \in informed \/ t = s
    BY <1>3, <1>s, AnswerShape DEF TypeInv
  <2> QED
    BY <1>1, <2>1
<1> QED
  BY <1>2, <1>3

LEMMA StartShown ==
    ASSUME TypeInv, ScreensShown, NEW j \in Jobs, NEW k, Start(j, k),
           \/ UNCHANGED <<heart, informed>> /\ (j \in Calls => Shown(caller[j]))
           \/ j \in Calls /\ Appear(j)
    PROVE  ScreensShown'
<1>1. /\ stage' = [stage EXCEPT ![j] = "asked"]
      /\ UNCHANGED <<pending, child, alive, place, caller, paint>>
      /\ stage \in [Jobs -> Stages] /\ heart \in [Screens -> {"unopened", "white", "red", "gone"}]
  BY DEF Start, dbVars, TypeInv, FavTypeOK
<1>2. \A c \in Calls : c \in Jobs /\ caller[c] \in Screens /\ (c # j /\ Running(c)' => Running(c))
  BY <1>1, JobTypes DEF Running, Busy, Outstanding, Queued, TypeInv
<1>3. CASE UNCHANGED <<heart, informed>> /\ (j \in Calls => Shown(caller[j]))
  BY <1>1, <1>2, <1>3 DEF ScreensShown, Shown
<1>4. CASE j \in Calls /\ Appear(j)
  <2>s. PICK s \in Screens : s = caller[j]
    BY <1>4, JobTypes DEF TypeInv
  <2>1. /\ alive[place[s].dev] /\ heart[s] # "gone"
        /\ heart' = [heart EXCEPT ![s] = IF heart[s] = "unopened" THEN "white" ELSE heart[s]]
        /\ informed' \in {informed, informed \cup {s}}
    BY <1>4, <2>s DEF Appear
  <2>2. Shown(s)' /\ \A t \in Screens : t # s => heart'[t] = heart[t]
    BY <1>1, <2>1 DEF Shown
  <2>3. \A t \in Screens : Shown(t) => Shown(t)'
    BY <2>2 DEF Shown
  <2>4. \A c \in Calls : Running(c)' => Shown(caller[c])'
    BY <1>1, <1>2, <2>2, <2>3, <2>s DEF ScreensShown
  <2>5. \A t \in Screens : heart'[t] = "unopened" => heart[t] = "unopened" /\ t # s
    BY <2>2 DEF Shown
  <2> QED
    BY <1>1, <2>1, <2>2, <2>3, <2>4, <2>5 DEF ScreensShown, Shown
<1> QED
  BY <1>3, <1>4

LEMMA KillShown ==
    ASSUME TypeInv, ScreensShown, NEW d \in Devices, Kill(d)
    PROVE  ScreensShown'
<1> USE DEF TypeInv, FavTypeOK
<1>1. /\ alive' = [alive EXCEPT ![d] = FALSE]
      /\ heart' = [s \in Screens |->
            IF place[s].dev = d /\ heart[s] # "unopened" THEN "gone" ELSE heart[s]]
      /\ paint' = [s \in Screens |-> IF place[s].dev = d THEN <<>> ELSE paint[s]]
      /\ stage' = [j \in Jobs |->
            IF DeviceOf(j) = d /\ stage[j] \in {"asked", "raised", "found"}
            THEN "dead" ELSE stage[j]]
      /\ child' = [j \in Jobs |->
            IF DeviceOf(j) = d THEN [k \in Slots |-> "none"] ELSE child[j]]
      /\ UNCHANGED <<pending, place, caller, informed>>
  BY DEF Kill, histVars
<1>2. \A c \in Calls : c \in Jobs /\ caller[c] \in Screens /\ DeviceOf(c) = place[caller[c]].dev
  BY JobTypes
<1>3. ASSUME NEW c \in Calls, Running(c)'
      PROVE  Running(c) /\ place[caller[c]].dev # d
  <2>1. DeviceOf(c) = d => stage'[c] \notin {"asked", "raised", "found"}
    BY <1>1, <1>2
  <2>2. DeviceOf(c) = d => ~Outstanding(c)'
    BY <1>1, <1>2 DEF Outstanding
  <2>3. DeviceOf(c) # d
    BY <1>1, <1>2, <1>3, <2>1, <2>2 DEF Running
  <2>4. stage'[c] = stage[c] /\ child'[c] = child[c] /\ alive'[place[caller[c]].dev] = alive[place[caller[c]].dev]
    BY <1>1, <1>2, <2>3
  <2> QED
    BY <1>1, <1>2, <1>3, <2>3, <2>4 DEF Running, Busy, Outstanding, Queued
<1>4. \A s \in Screens : Shown(s)' <=> Shown(s) /\ place[s].dev # d
  <2> TAKE s \in Screens
  <2>1. Shown(s)' => place[s].dev # d
    <3>1. heart[s] = "unopened" => ~Shown(s)
      BY DEF Shown
    <3> QED
      BY <1>1, <3>1 DEF Shown
  <2> QED
    BY <1>1, <2>1 DEF Shown
<1>5. \A s \in Screens : /\ Shown(s)' => alive'[place[s].dev]
                         /\ paint'[s] # <<>> => Shown(s)'
                         /\ heart'[s] = "unopened" => s \notin informed
  BY <1>1, <1>4 DEF ScreensShown
<1>6. \A c \in Calls : Running(c)' => Shown(caller[c])'
  BY <1>1, <1>2, <1>3, <1>4 DEF ScreensShown
<1> QED
  BY <1>1, <1>5, <1>6 DEF ScreensShown

LEMMA RelaunchShown ==
    ASSUME TypeInv, QueueOwned, ScreensShown, NEW d \in Devices, Relaunch(d)
    PROVE  ScreensShown'
<1>1. /\ ~alive[d] /\ pending[d] = <<>> /\ alive' = [alive EXCEPT ![d] = TRUE]
      /\ UNCHANGED <<pending, place, caller, heart, paint, stage, child, informed>>
  BY DEF Relaunch, screenVars, jobVars, histVars
<1>2. \A e \in Devices : alive[e] => alive'[e]
  BY <1>1 DEF TypeInv, FavTypeOK
<1>3. ASSUME NEW c \in Calls, Running(c)'
      PROVE  Running(c)
  <2>1. c \in Jobs /\ DeviceOf(c) = place[caller[c]].dev
    BY JobTypes DEF TypeInv
  <2>2. ~Queued(c) \/ DeviceOf(c) # d
    BY <1>1, <2>1 DEF Queued, QueueOwned, Owned
  <2>3. stage[c] = "queued" => Queued(c)
    BY <2>1 DEF QueueOwned
  <2>4. DeviceOf(c) # d => alive'[DeviceOf(c)] = alive[DeviceOf(c)]
    BY <1>1
  <2>5. Busy(c)' => Busy(c)
    BY <1>1 DEF Busy, Queued, Outstanding
  <2> QED
    BY <1>1, <1>3, <2>1, <2>2, <2>3, <2>4, <2>5 DEF Running, Busy, Outstanding
<1> QED
  BY <1>1, <1>2, <1>3, JobTypes DEF ScreensShown, Shown, TypeInv

LEMMA JobsShown ==
    ASSUME TypeInv, ScreensShown, NEW j \in Jobs, Read(j) \/ Callback(j) \/ QueryDenied(j)
    PROVE  ScreensShown'
<1>1. /\ \A c \in Calls : Running(c)' => Running(c)
      /\ UNCHANGED <<place, caller, heart, alive>>
      /\ j \in Calls => Running(j)
  BY JobsRunning
<1>2. UNCHANGED <<paint, informed>> \/ (j \in Calls /\ \E colour : Answer(j, colour))
  <2>1. CASE Read(j)
    BY <2>1 DEF Read, RaiseNode, RaiseQuery, RaiseChild, screenVars, histVars
  <2>2. CASE QueryDenied(j)
    BY <2>2 DEF QueryDenied, TypeInv, KindsMatch
  <2>3. CASE NodeMissing(j) \/ QueryAnswered(j) \/ AddFavorite(j) \/ AddProduct(j)
    BY <2>3 DEF NodeMissing, QueryAnswered, AddFavorite, AddProduct, Rewrite, screenVars, histVars
  <2>4. ASSUME NEW k \in Slots, ChildThere(j, k) \/ ChildGone(j, k)
        PROVE  UNCHANGED <<paint, informed>> \/ (j \in Calls /\ \E colour : Answer(j, colour))
    <3>1. child[j][k] # "none"
      BY <2>4 DEF ChildThere, ChildFound, ChildGone
    <3>2. j \in Calls
      BY <3>1 DEF TypeInv, KindsMatch
    <3> QED
      BY <2>4, <3>2 DEF ChildThere, ChildFound, ChildGone
  <2> QED
    BY <2>1, <2>2, <2>3, <2>4 DEF Callback
<1>3. /\ \A s \in Screens : paint'[s] # <<>> => paint[s] # <<>> \/ Shown(s)
      /\ \A s \in informed' : s \in informed \/ Shown(s)
  <2>1. CASE UNCHANGED <<paint, informed>>
    BY <2>1
  <2>2. CASE j \in Calls /\ \E colour : Answer(j, colour)
    <3>1. PICK colour : Answer(j, colour)
      BY <2>2
    <3> QED
      BY <1>1, <2>2, <3>1, AnswerShown
  <2> QED
    BY <1>2, <2>1, <2>2
<1> QED
  BY <1>1, <1>3, StillShown

LEMMA DevicesShown ==
    ASSUME TypeInv, QueueOwned, ScreensShown, NEW d \in Devices,
           \/ VisitFavorites(d) \/ Server(d) \/ Completion(d) \/ LoseQueue(d)
           \/ ConnectionLost(d) \/ Push(d)
    PROVE  ScreensShown'
<1>1. /\ \A c \in Calls : Running(c)' => Running(c)
      /\ UNCHANGED <<place, caller, heart, alive>>
  BY DevicesRunning
<1>2. CASE paint' = paint /\ \A s \in informed' : s \in informed
  BY <1>1, <1>2, StillShown
<1>3. CASE Completion(d)
  <2>1. Left(d) /\ alive[d]
    BY <1>3, LeftShape DEF Completion, Acknowledge, TypeInv
  <2>c. PICK c : c = Head(pending[d]).by
    OBVIOUS
  <2>2. UNCHANGED <<paint, informed>> \/ (c \in Calls /\ \E colour : Answer(c, colour))
    BY <1>3, <2>c DEF Completion, Acknowledge
  <2>3. c \in Calls => Running(c)
    <3>1. 1 \in DOMAIN pending[d] /\ c = pending[d][1].by
      BY <2>1, <2>c DEF Left
    <3>2. Queued(c) /\ DeviceOf(c) = d
      BY <3>1 DEF Queued, QueueOwned, Owned
    <3> QED
      BY <2>1, <3>2, JobTypes DEF Running, Busy, TypeInv
  <2>4. CASE UNCHANGED <<paint, informed>>
    BY <1>2, <2>4
  <2>5. CASE c \in Calls /\ \E colour : Answer(c, colour)
    <3>1. PICK colour : Answer(c, colour)
      BY <2>5
    <3> QED
      BY <1>1, <2>3, <2>5, <3>1, AnswerShown, StillShown
  <2> QED
    BY <2>2, <2>4, <2>5
<1> QED
  BY <1>2, <1>3 DEF VisitFavorites, Server, LoseQueue, ConnectionLost, Push, screenVars, histVars

LEMMA NextScreensShown ==
    ASSUME TypeInv, QueueOwned, ScreensShown, [Next]_vars
    PROVE  ScreensShown'
<1>1. CASE UNCHANGED vars
  BY <1>1 DEF vars, dbVars, screenVars, jobVars, histVars, ScreensShown, Shown, Running, Busy, Outstanding,
     Queued
<1>2. ASSUME NEW c \in Calls, Appear(c) \/ Tap(c)
      PROVE  ScreensShown'
  <2>1. c \in Jobs
    BY DEF Jobs
  <2> QED
    BY <1>2, <2>1, StartShown DEF Appear, Tap, Shown
<1>3. ASSUME NEW j \in Publications, Publish(j)
      PROVE  ScreensShown'
  <2>1. j \in Jobs /\ j \notin Calls
    BY FavoritesAssumption DEF Jobs
  <2> QED
    BY <1>3, <2>1, StartShown DEF Publish
<1>4. ASSUME NEW c \in Calls, QueryDenied(c)
      PROVE  ScreensShown'
  <2>1. c \in Jobs
    BY DEF Jobs
  <2> QED
    BY <1>4, <2>1, JobsShown
<1>5. ASSUME NEW s \in Screens, Paint(s)
      PROVE  ScreensShown'
  <2>1. /\ UNCHANGED <<alive, place, caller, stage, child, pending, informed>>
        /\ Shown(s) /\ s \notin {t \in Screens : heart'[t] = "unopened"}
        /\ \A t \in Screens : t # s => heart'[t] = heart[t]
        /\ Shown(s)'
    <3>1. Shown(s)
      BY <1>5 DEF Paint, ScreensShown
    <3>2. Shown(s)' /\ \A t \in Screens : t # s => heart'[t] = heart[t]
      <4>1. paint[s] \in Seq({"white", "red"}) /\ paint[s] # <<>> /\ heart' = [heart EXCEPT ![s] = Head(paint[s])]
        BY <1>5 DEF Paint, TypeInv, FavTypeOK
      <4> QED
        BY <4>1 DEF Shown, TypeInv, FavTypeOK
    <3> QED
      BY <1>5, <3>1, <3>2 DEF Paint, dbVars, jobVars, histVars, Shown
  <2>2. \A t \in Screens : paint'[t] # <<>> => paint[t] # <<>>
    BY <1>5, PaintLast DEF TypeInv
  <2>3. \A c \in Calls : Running(c)' => Running(c) /\ caller[c] \in Screens
    BY <2>1, JobTypes DEF Running, Busy, Outstanding, Queued, TypeInv
  <2> QED
    BY <2>1, <2>2, <2>3 DEF ScreensShown, Shown
<1>6. ASSUME NEW j \in Jobs, Read(j) \/ Callback(j)
      PROVE  ScreensShown'
  BY <1>6, JobsShown
<1>7. ASSUME NEW d \in Devices,
             \/ VisitFavorites(d) \/ Server(d) \/ Completion(d) \/ Kill(d) \/ LoseQueue(d)
             \/ Relaunch(d) \/ ConnectionLost(d) \/ Push(d)
      PROVE  ScreensShown'
  BY <1>7, DevicesShown, KillShown, RelaunchShown
<1> QED
  BY <1>1, <1>2, <1>3, <1>4, <1>5, <1>6, <1>7 DEF Next

-----------------------------------------------------------------------------
(* Removals that have answered *)

\* Unless the product is hurried, nobody else answers on the screen of a busy call.
LEMMA OthersAnswer ==
    ASSUME TypeInv, Turns, NEW c \in Calls, Busy(c), Product(c) \notin hurried,
           NEW b \in Calls, b # c, Busy(b), NEW colour, Answer(b, colour)
    PROVE  caller[b] # caller[c] /\ paint'[caller[c]] = paint[caller[c]]
<1>s. PICK s \in Screens : s = caller[b]
  BY JobTypes DEF TypeInv
<1>1. caller[b] # caller[c]
  BY DEF Turns, Product
<1>2. \A t \in Screens : t # s => paint'[t] = paint[t]
  BY <1>s, AnswerShape DEF TypeInv
<1> QED
  BY <1>1, <1>2, <1>s, JobTypes DEF TypeInv

\* A screen with a busy call on a living device is not opened anew.
LEMMA AppearLast ==
    ASSUME TypeInv, ScreensShown, NEW b \in Calls, Appear(b), NEW c \in Calls, Busy(c)
    PROVE  Last(caller[c])' = Last(caller[c]) /\ Shown(caller[c])' = Shown(caller[c])
<1>s. PICK s \in Screens : s = caller[c]
  BY JobTypes DEF TypeInv
<1>1. UNCHANGED <<paint, caller>>
  BY DEF Appear, Start
<1>2. heart' = [heart EXCEPT ![caller[b]] = IF @ = "unopened" THEN "white" ELSE @]
      /\ alive[place[caller[b]].dev]
  BY DEF Appear
<1>3. heart'[s] = heart[s]
  <2>1. CASE s # caller[b]
    BY <1>2, <2>1 DEF TypeInv, FavTypeOK
  <2>2. CASE s = caller[b]
    <3>1. Running(c)
      BY <1>2, <1>s, <2>2 DEF Running
    <3>2. heart[s] # "unopened"
      BY <1>s, <3>1 DEF ScreensShown, Shown
    <3> QED
      BY <1>2, <2>2, <3>2 DEF TypeInv, FavTypeOK
  <2> QED
    BY <2>1, <2>2
<1> QED
  BY <1>1, <1>3, <1>s DEF Last, Shown

\* Which step lets a call be done and busy: the first key it finds.
LEMMA JobsClearing ==
    ASSUME TypeInv, NEW j \in Jobs, Read(j) \/ Callback(j) \/ QueryDenied(j),
           NEW c \in Calls, Clearing(c)'
    PROVE  /\ kind[c] = "remove" /\ Busy(c)
           /\ \/ stage[c] = "done"
              \/ c = j /\ stage[c] = "found" /\ \E k \in Slots : ChildThere(c, k)
<1>1. kind[c] = "remove" /\ Busy(c) /\ c \in Jobs
  BY JobsCalmer DEF Calmer, Clearing, Jobs
<1>2. CASE stage[c] # "done" /\ ~\E k \in Slots : ChildThere(j, k)
  <2>1. \E x : x # "done" /\ (stage' = stage \/ stage' = [stage EXCEPT ![j] = x])
    <3>1. CASE Callback(j)
      BY <1>2, <3>1 DEF Callback, NodeMissing, QueryAnswered, AddFavorite, AddProduct, Rewrite,
         ChildGone, Step
    <3>2. CASE Read(j) \/ QueryDenied(j)
      BY <3>2 DEF Read, RaiseNode, RaiseQuery, RaiseChild, QueryDenied, Step
    <3> QED
      BY <3>1, <3>2
  <2> QED
    BY <1>1, <1>2, <2>1 DEF Clearing, TypeInv, FavTypeOK
<1>3. ASSUME NEW k \in Slots, ChildThere(j, k), stage[c] # "done"
      PROVE  c = j /\ stage[c] = "found"
  <2>1. stage' = [stage EXCEPT ![j] = "done"] /\ child[j][k] # "none"
    BY <1>3 DEF ChildThere, ChildFound, Step
  <2>2. c = j
    BY <1>1, <1>3, <2>1 DEF Clearing, TypeInv, FavTypeOK
  <2> QED
    BY <1>3, <2>1, <2>2 DEF TypeInv, KindsMatch
<1> QED
  BY <1>1, <1>2, <1>3

LEMMA JobsWhite ==
    ASSUME TypeInv, Turns, WhiteKept, NEW j \in Jobs, Read(j) \/ Callback(j) \/ QueryDenied(j),
           NEW c \in Calls, Clearing(c)', Shown(caller[c])', Product(c)' \notin hurried'
    PROVE  Last(caller[c])' = "white"
<1>1. /\ kind[c] = "remove" /\ Busy(c)
      /\ \/ stage[c] = "done"
         \/ c = j /\ stage[c] = "found" /\ \E k \in Slots : ChildThere(c, k)
  BY JobsClearing
<1>2. /\ UNCHANGED <<place, caller, heart>>
      /\ Product(c) \notin hurried
  BY JobsRunning, JobsCalmer DEF Calmer, Product
<1>s. PICK s \in Screens : s = caller[c] /\ s = caller'[c]
  BY <1>2, JobTypes DEF TypeInv
<1>3. stage[c] = "done" => Last(s) = "white"
  BY <1>1, <1>2, <1>s DEF WhiteKept, Clearing, Shown
<1>4. CASE stage[c] = "done" /\ paint'[s] = paint[s]
  BY <1>2, <1>3, <1>4, <1>s DEF Last
<1>5. CASE c = j /\ stage[c] = "found"
  <2>1. PICK k \in Slots : ChildThere(c, k)
    BY <1>1, <1>5
  <2>2. Answer(c, "white")
    BY <1>1, <1>5, <2>1 DEF ChildThere, ChildFound
  <2> QED
    BY <1>s, <2>2, AnswerShape DEF TypeInv
<1>6. CASE stage[c] = "done" /\ paint'[s] # paint[s]
  <2>1. CASE j = c
    BY <1>1, <1>6, <2>1 DEF Read, RaiseNode, RaiseQuery, RaiseChild, QueryDenied, Callback, NodeMissing,
       QueryAnswered, AddFavorite, AddProduct, Rewrite, ChildThere, ChildFound, ChildGone, screenVars
  <2>2. CASE j # c
    <3>1. \E colour : Answer(j, colour)
      BY <1>6 DEF Read, RaiseNode, RaiseQuery, RaiseChild, QueryDenied, Callback, NodeMissing,
         QueryAnswered, AddFavorite, AddProduct, Rewrite, ChildThere, ChildFound, ChildGone, screenVars
    <3>2. j \in Calls /\ Busy(j)
      <4>1. Busy(j)
        BY DEF Read, RaiseNode, RaiseQuery, RaiseChild, QueryDenied, Callback, NodeMissing,
           QueryAnswered, AddFavorite, AddProduct, Rewrite, ChildThere, ChildFound, ChildGone, Busy, Outstanding
      <4>2. kind[j] \in {"check", "remove"}
        BY <1>6 DEF Read, RaiseNode, RaiseQuery, RaiseChild, QueryDenied, Callback, NodeMissing,
           QueryAnswered, AddFavorite, AddProduct, Rewrite, ChildThere, ChildFound, ChildGone, screenVars,
           TypeInv, KindsMatch
      <4> QED
        BY <4>1, <4>2 DEF TypeInv, KindsMatch
    <3> QED
      BY <1>1, <1>2, <1>6, <1>s, <2>2, <3>1, <3>2, OthersAnswer
  <2> QED
    BY <2>1, <2>2
<1> QED
  BY <1>1, <1>4, <1>5, <1>6

LEMMA DevicesWhite ==
    ASSUME TypeInv, QueueOwned, Turns, WhiteKept, NEW d \in Devices,
           \/ VisitFavorites(d) \/ Server(d) \/ Completion(d) \/ Kill(d) \/ LoseQueue(d)
           \/ Relaunch(d) \/ ConnectionLost(d) \/ Push(d),
           NEW c \in Calls, Clearing(c)', Shown(caller[c])', Product(c)' \notin hurried'
    PROVE  Last(caller[c])' = "white"
<1>1. /\ kind[c] = "remove" /\ Busy(c) /\ c \in Jobs
      /\ UNCHANGED <<place, caller, kind, hurried>> /\ Product(c) \notin hurried
  BY DevicesCalmer DEF Calmer, Clearing, Jobs, Product
<1>s. PICK s \in Screens : s = caller[c]
  BY JobTypes DEF TypeInv
<1>2. CASE Completion(d)
  <2>1. Left(d) /\ UNCHANGED heart
    BY <1>2, LeftShape DEF Completion, Acknowledge, TypeInv
  <2>w. PICK w : w = pending[d][1] /\ w = Head(pending[d])
    BY <2>1 DEF Left
  <2>2. Owned(d, w) /\ w.by \in Jobs /\ Busy(w.by)
    BY <2>1, <2>w, QueueTypes DEF QueueOwned, Left, Busy, Queued, TypeInv
  <2>3. /\ w.key # WholeNode => UNCHANGED <<stage, paint>>
        /\ w.key = WholeNode =>
              /\ \E x \in {"done", "failed"} : stage' = [stage EXCEPT ![w.by] = x]
              /\ UNCHANGED paint \/ (w.by \in Calls /\ Answer(w.by, "red"))
    BY <1>2, <2>w DEF Completion, Acknowledge, Step
  <2>4. w.key = WholeNode => w.by # c
    BY <1>1, <2>2 DEF Owned, TypeInv, KindsMatch
  <2>5. stage[c] = "done"
    BY <1>1, <2>3, <2>4 DEF Clearing, TypeInv, FavTypeOK
  <2>6. Last(s) = "white"
    BY <1>1, <1>s, <2>1, <2>5 DEF WhiteKept, Clearing, Shown
  <2>7. paint'[s] = paint[s]
    BY <1>1, <1>s, <2>2, <2>3, <2>4, OthersAnswer
  <2> QED
    BY <1>1, <1>s, <2>1, <2>6, <2>7 DEF Last
<1>3. CASE ~Completion(d)
  <2>1. /\ stage'[c] \in {stage[c], "dead"}
        /\ heart'[s] \in {heart[s], "gone"} /\ (Shown(s)' => paint'[s] = paint[s])
    <3>1. CASE Kill(d)
      <4>1. /\ heart' = [t \in Screens |->
                  IF place[t].dev = d /\ heart[t] # "unopened" THEN "gone" ELSE heart[t]]
            /\ paint' = [t \in Screens |-> IF place[t].dev = d THEN <<>> ELSE paint[t]]
            /\ stage' = [j \in Jobs |->
                  IF DeviceOf(j) = d /\ stage[j] \in {"asked", "raised", "found"}
                  THEN "dead" ELSE stage[j]]
        BY <3>1 DEF Kill
      <4>2. Shown(s)' => place[s].dev # d
        BY <4>1 DEF Shown
      <4> QED
        BY <1>1, <4>1, <4>2
    <3>2. CASE LoseQueue(d)
      BY <1>1, <3>2 DEF LoseQueue, screenVars
    <3> QED
      BY <1>3, <3>1, <3>2 DEF VisitFavorites, Server, Relaunch, ConnectionLost, Push, screenVars, jobVars
  <2>2. Shown(s) /\ heart'[s] = heart[s] /\ paint'[s] = paint[s]
    BY <1>1, <1>s, <2>1 DEF Shown
  <2>3. Clearing(c)
    BY <1>1, <2>1 DEF Clearing
  <2>4. Last(s) = "white"
    BY <1>1, <1>s, <2>2, <2>3 DEF WhiteKept
  <2> QED
    BY <1>1, <1>s, <2>2, <2>4 DEF Last
<1> QED
  BY <1>2, <1>3

LEMMA NextWhite ==
    ASSUME TypeInv, QueueOwned, Turns, ScreensShown, WhiteKept, [Next]_vars
    PROVE  WhiteKept'
<1> SUFFICES ASSUME NEW c \in Calls, Clearing(c)', Shown(caller[c])', Product(c)' \notin hurried'
             PROVE  Last(caller[c])' = "white"
  BY DEF WhiteKept
<1>g. Grows
  BY NextGrows
<1>s. PICK s \in Screens : s = caller[c] /\ s = caller'[c]
  BY <1>g, JobTypes DEF TypeInv, Grows
<1>p. Product(c) \notin hurried
  BY <1>g DEF Grows, Product
<1>1. CASE UNCHANGED vars
  BY <1>1 DEF vars, dbVars, screenVars, jobVars, histVars, WhiteKept, Clearing, Busy, Outstanding,
     Queued, Shown, Last, Product
<1>2. ASSUME NEW j \in Jobs, NEW k, Start(j, k)
      PROVE  Clearing(c) /\ UNCHANGED paint
  <2>1. /\ kind' = [kind EXCEPT ![j] = k] /\ stage' = [stage EXCEPT ![j] = "asked"]
        /\ UNCHANGED <<pending, child, paint>>
    BY <1>2 DEF Start, dbVars
  <2>2. c \in Jobs /\ c # j
    BY <2>1 DEF Jobs, Clearing, TypeInv, FavTypeOK
  <2> QED
    BY <2>1, <2>2 DEF Clearing, Busy, Outstanding, Queued, TypeInv, FavTypeOK
<1>3. ASSUME NEW b \in Calls, Appear(b)
      PROVE  Last(caller[c])' = "white"
  <2>1. b \in Jobs /\ Start(b, "check")
    BY <1>3 DEF Jobs, Appear
  <2>2. Clearing(c)
    BY <1>2, <2>1
  <2> QED
    BY <1>3, <1>p, <2>2, AppearLast DEF WhiteKept, Clearing
<1>4. ASSUME NEW j \in Jobs, Publish(j) \/ Tap(j)
      PROVE  Last(caller[c])' = "white"
  <2>1. \E k : Start(j, k)
    BY <1>4 DEF Publish, Tap
  <2>2. Clearing(c) /\ UNCHANGED <<paint, heart>>
    BY <1>2, <1>4, <2>1 DEF Publish, Tap
  <2> QED
    BY <1>p, <1>s, <2>2 DEF WhiteKept, Shown, Last
<1>5. ASSUME NEW t \in Screens, Paint(t)
      PROVE  Last(caller[c])' = "white"
  <2>1. Last(s)' = Last(s)
    BY <1>5, PaintLast DEF TypeInv
  <2>2. Shown(s)
    <3>1. CASE s = t
      BY <1>5, <3>1 DEF Paint, ScreensShown
    <3>2. CASE s # t
      BY <1>5, <1>s, <3>2, PaintLast DEF TypeInv, Shown
    <3> QED
      BY <3>1, <3>2
  <2>3. Clearing(c)
    BY <1>5 DEF Paint, dbVars, jobVars, Clearing, Busy, Outstanding, Queued
  <2> QED
    BY <1>p, <1>s, <2>1, <2>2, <2>3 DEF WhiteKept
<1>6. ASSUME NEW j \in Jobs, Read(j) \/ Callback(j) \/ QueryDenied(j)
      PROVE  Last(caller[c])' = "white"
  BY <1>6, JobsWhite
<1>7. ASSUME NEW d \in Devices,
             \/ VisitFavorites(d) \/ Server(d) \/ Completion(d) \/ Kill(d) \/ LoseQueue(d)
             \/ Relaunch(d) \/ ConnectionLost(d) \/ Push(d)
      PROVE  Last(caller[c])' = "white"
  BY <1>7, DevicesWhite
<1>8. \A b \in Calls : b \in Jobs
  BY DEF Jobs
<1>9. \A b \in Publications : b \in Jobs
  BY DEF Jobs
<1>10. ASSUME NEW b \in Calls, Tap(b) \/ QueryDenied(b)
       PROVE  Last(caller[c])' = "white"
  BY <1>4, <1>6, <1>8, <1>10
<1>11. ASSUME NEW b \in Publications, Publish(b)
       PROVE  Last(caller[c])' = "white"
  BY <1>4, <1>9, <1>11
<1> QED
  BY <1>1, <1>3, <1>5, <1>6, <1>7, <1>10, <1>11 DEF Next

-----------------------------------------------------------------------------
(* The promises of removals *)

\* A sworn removal was sworn before the step, or was just told its keys.
LEMMA SwornBefore ==
    ASSUME TypeInv, QueueOwned, ScreensShown, [Next]_vars, NEW c \in Calls, Busy(c), Sworn(c)'
    PROVE  /\ kind[c] = "remove" /\ kind'[c] = "remove" /\ Shown(caller[c])
           /\ ~contended /\ ~contended' /\ c \notin outdated /\ c \notin denied /\ c \notin denied'
           /\ Writing(c) /\ c \in Jobs
           /\ Product(c)' = Product(c) /\ DeviceOf(c)' = DeviceOf(c)
           /\ stage[c] \in {"found", "done"} \/ QueryAnswered(c)
<1>g. Grows
  BY NextGrows
<1>s. PICK s \in Screens : s = caller[c] /\ s = caller'[c]
  BY <1>g, JobTypes DEF TypeInv, Grows
<1>1. /\ ~contended /\ ~contended' /\ c \notin outdated /\ c \notin denied /\ c \notin denied'
      /\ Product(c)' = Product(c) /\ DeviceOf(c)' = DeviceOf(c) /\ c \in Jobs /\ kind'[c] = "remove"
  BY <1>g DEF Grows, Sworn, Product, DeviceOf, Jobs
<1>2. ASSUME NEW j \in Jobs, NEW k, Start(j, k)
      PROVE  kind[c] = "remove" /\ stage[c] \in {"found", "done"}
  <2>1. stage' = [stage EXCEPT ![j] = "asked"] /\ kind' = [kind EXCEPT ![j] = k]
    BY <1>2 DEF Start
  <2>2. c # j
    BY <1>1, <2>1 DEF Sworn, TypeInv, FavTypeOK
  <2> QED
    BY <1>1, <2>1, <2>2 DEF Sworn, TypeInv, FavTypeOK
<1>3. ASSUME NEW j \in Jobs, Read(j) \/ Callback(j) \/ QueryDenied(j)
      PROVE  /\ kind[c] = "remove" /\ Shown(caller[c])
             /\ stage[c] \in {"found", "done"} \/ QueryAnswered(c)
  <2>1. kind' = kind /\ Shown(caller[c])
    BY <1>3, JobsCalmer, JobsRunning DEF Calmer, Sworn, Shown
  <2>2. CASE j = c /\ (Read(c) \/ QueryDenied(c))
    BY <2>1, <2>2 DEF Read, RaiseNode, RaiseQuery, RaiseChild, QueryDenied, Step, Sworn,
       TypeInv, FavTypeOK
  <2>3. CASE j = c /\ Callback(c)
    <3>1. CASE \E k \in Slots : ChildThere(c, k) \/ ChildGone(c, k)
      <4>1. PICK k \in Slots : child[c][k] # "none"
        BY <3>1 DEF ChildThere, ChildFound, ChildGone
      <4> QED
        BY <1>1, <2>1, <4>1 DEF TypeInv, KindsMatch
    <3> QED
      BY <1>1, <2>1, <2>3, <3>1 DEF Callback, NodeMissing, AddFavorite, AddProduct
  <2>4. CASE j # c
    <3>1. stage'[c] = stage[c]
      <4>1. CASE Read(j) \/ QueryDenied(j)
        BY <1>1, <2>4, <4>1 DEF Read, RaiseNode, RaiseQuery, RaiseChild, QueryDenied, Step,
           TypeInv, FavTypeOK
      <4>2. CASE Callback(j)
        BY <1>1, <2>4, <4>2 DEF Callback, NodeMissing, QueryAnswered, AddFavorite, AddProduct, Rewrite,
           ChildThere, ChildFound, ChildGone, Step, TypeInv, FavTypeOK
      <4> QED
        BY <1>3, <4>1, <4>2
    <3> QED
      BY <1>1, <2>1, <3>1 DEF Sworn
  <2> QED
    BY <1>1, <1>3, <2>1, <2>2, <2>3, <2>4
<1>4. ASSUME NEW d \in Devices,
             \/ VisitFavorites(d) \/ Server(d) \/ Completion(d) \/ Kill(d) \/ LoseQueue(d)
             \/ Relaunch(d) \/ ConnectionLost(d) \/ Push(d)
      PROVE  kind[c] = "remove" /\ Shown(caller[c]) /\ stage[c] \in {"found", "done"}
  <2>1. kind' = kind
    BY <1>4, DevicesCalmer DEF Calmer
  <2>2. Shown(caller[c])
    <3>1. heart'[s] \in {heart[s], "gone"}
      BY <1>4 DEF VisitFavorites, Server, Completion, Acknowledge, Kill, LoseQueue, Relaunch, ConnectionLost,
         Push, screenVars
    <3> QED
      BY <1>s, <3>1 DEF Sworn, Shown
  <2>3. stage[c] \in {"found", "done"}
    <3>1. CASE Completion(d)
      <4>1. Left(d)
        BY <3>1, LeftShape DEF Completion, Acknowledge, TypeInv
      <4>w. PICK w : w = pending[d][1] /\ w = Head(pending[d])
        BY <4>1 DEF Left
      <4>2. Owned(d, w)
        BY <4>1, <4>w DEF QueueOwned, Left
      <4>3. stage' = stage \/ (w.key = WholeNode /\ \E x : stage' = [stage EXCEPT ![w.by] = x])
        BY <3>1, <4>w DEF Completion, Acknowledge, Step
      <4>4. w.key = WholeNode => w.by # c
        BY <1>1, <2>1, <4>2 DEF Owned, TypeInv, KindsMatch
      <4> QED
        BY <1>1, <4>3, <4>4 DEF Sworn, TypeInv, FavTypeOK
    <3>2. CASE Kill(d) \/ LoseQueue(d)
      BY <1>1, <3>2 DEF Kill, LoseQueue, Sworn
    <3> QED
      BY <1>4, <3>1, <3>2 DEF VisitFavorites, Server, Relaunch, ConnectionLost, Push, jobVars, Sworn
  <2> QED
    BY <1>1, <2>1, <2>2, <2>3
<1>5. /\ kind[c] = "remove" /\ Shown(caller[c])
      /\ stage[c] \in {"found", "done"} \/ QueryAnswered(c)
  <2>1. ASSUME NEW b \in Calls, Appear(b)
        PROVE  kind[c] = "remove" /\ Shown(caller[c]) /\ stage[c] \in {"found", "done"}
    <3>1. b \in Jobs /\ Start(b, "check")
      BY <2>1 DEF Jobs, Appear
    <3> QED
      BY <1>2, <2>1, <3>1, AppearLast DEF Sworn
  <2>2. ASSUME NEW j \in Jobs, Tap(j) \/ Publish(j)
        PROVE  kind[c] = "remove" /\ Shown(caller[c]) /\ stage[c] \in {"found", "done"}
    <3>1. \E k : Start(j, k)
      BY <2>2 DEF Tap, Publish
    <3>2. UNCHANGED heart
      BY <2>2 DEF Tap, Publish
    <3> QED
      BY <1>2, <1>s, <3>1, <3>2 DEF Sworn, Shown
  <2>3. ASSUME NEW t \in Screens, Paint(t)
        PROVE  kind[c] = "remove" /\ Shown(caller[c]) /\ stage[c] \in {"found", "done"}
    <3>1. UNCHANGED <<kind, stage>>
      BY <2>3 DEF Paint, jobVars
    <3>2. Shown(s)
      <4>1. CASE s = t
        BY <2>3, <4>1 DEF Paint, ScreensShown
      <4>2. CASE s # t
        BY <1>s, <2>3, <4>2, PaintLast DEF TypeInv, Shown, Sworn
      <4> QED
        BY <4>1, <4>2
    <3> QED
      BY <1>s, <3>1, <3>2 DEF Sworn
  <2>4. CASE UNCHANGED vars
    BY <2>4 DEF vars, screenVars, jobVars, Sworn, Shown
  <2>5. \A b \in Calls \cup Publications : b \in Jobs
    BY DEF Jobs
  <2>6. ASSUME NEW b \in Calls, Tap(b) \/ QueryDenied(b)
        PROVE  /\ kind[c] = "remove" /\ Shown(caller[c])
               /\ stage[c] \in {"found", "done"} \/ QueryAnswered(c)
    BY <1>3, <2>2, <2>5, <2>6
  <2>7. ASSUME NEW b \in Publications, Publish(b)
        PROVE  kind[c] = "remove" /\ Shown(caller[c]) /\ stage[c] \in {"found", "done"}
    BY <2>2, <2>5, <2>7
  <2> QED
    BY <1>3, <1>4, <2>1, <2>3, <2>4, <2>6, <2>7 DEF Next
<1> QED
  BY <1>1, <1>5 DEF Writing, Writers

LEMMA PromiseStays ==
    ASSUME NEW c, Promised(c), Product(c)' = Product(c),
           \A k \in Slots : node'.fav[k] = Product(c) =>
               /\ node.fav[k] = Product(c)
               /\ child[c][k] \in {"asked", "there"} =>
                     child'[c][k] \in {"asked", "there"} \/ Clears(c, k)'
               /\ Clears(c, k) => Clears(c, k)'
    PROVE  Promised(c)'
BY DEF Promised

\* Unless contended, all that is queued is the removal's, each key once cleared.
LEMMA KeysOnly ==
    ASSUME TypeInv, QueueOwned, Turns, ~contended, NEW c \in Jobs, Writing(c),
           stage[c] \in {"found", "done"}
    PROVE  \A e \in Devices : \A i \in DOMAIN pending[e] :
               /\ pending[e][i].by = c /\ e = DeviceOf(c)
               /\ pending[e][i].key \in Slots /\ pending[e][i].key # WholeNode
               /\ child[c][pending[e][i].key] \in {"handled", "none"}
<1> TAKE e \in Devices
<1> TAKE i \in DOMAIN pending[e]
<1>1. pending[e][i].by = c /\ e = DeviceOf(c)
  BY SoleWriter
<1>2. Owned(e, pending[e][i]) /\ pending[e][i].key \in Slots \cup {WholeNode}
  BY QueueTypes DEF QueueOwned, TypeInv
<1> QED
  BY <1>1, <1>2 DEF Owned

\* The query of a removal that is not outdated finds every key with the product.
LEMMA PromiseMade ==
    ASSUME TypeInv, NodeFollowed, NEW c \in Calls, c \in Jobs, QueryAnswered(c), kind[c] = "remove",
           ~contended, c \notin outdated, Product(c)' = Product(c)
    PROVE  Promised(c)'
<1>1. /\ child' = [child EXCEPT ![c] = [k \in Slots |-> IF k \in Matches(c) THEN "asked" ELSE "none"]]
      /\ stage[c] = "raised" /\ node' = node
  BY DEF QueryAnswered, dbVars
<1>2. snap[c].fav = node.fav
  BY <1>1 DEF NodeFollowed, Looking
<1>3. \A k \in Slots : node.fav[k] = Product(c) => child'[c][k] = "asked"
  BY <1>1, <1>2 DEF Matches, TypeInv, FavTypeOK
<1> QED
  BY <1>1, <1>3 DEF Promised

\* A key that holds the product is there for the removal's own device.
LEMMA PromiseRead ==
    ASSUME TypeInv, QueueOwned, Turns, NodeFollowed, NEW c \in Calls, c \in Jobs, NEW k \in Slots,
           RaiseChild(c, k), kind[c] = "remove", stage[c] \in {"found", "done"}, Writing(c),
           ~contended, c \notin outdated, node.fav[k] = Product(c)
    PROVE  child'[c][k] = "there"
<1>1. child[c][k] = "asked"
      /\ child' = [child EXCEPT ![c][k] = IF FavView(DeviceOf(c)).fav[k] # Nothing THEN "there" ELSE "gone"]
  BY DEF RaiseChild
<1>d. PICK d \in Devices : d = DeviceOf(c)
  BY JobTypes DEF TypeInv
<1>2. \A i \in DOMAIN pending[d] : pending[d][i].key # WholeNode /\ pending[d][i].key # k
  BY <1>1, KeysOnly
<1>b. PICK base : base = IF listens[d] THEN [node EXCEPT !.fav = cache[d]] ELSE node
  OBVIOUS
<1>3. base \in UserNodes /\ base.fav[k] = Product(c)
  <2>1. node \in UserNodes /\ cache[d] \in FavLists
    BY DEF TypeInv, FavTypeOK
  <2>2. listens[d] => node.fav[k] \in {cache[d][k], Nothing}
    BY <1>1, <1>d DEF NodeFollowed, Looking, Outstanding
  <2>3. Product(c) # Nothing
    BY JobTypes DEF TypeInv
  <2> QED
    BY <1>b, <2>1, <2>2, <2>3 DEF UserNodes
<1>4. FavView(d).fav[k] = Product(c)
  <2>1. Wholes(d) = {}
    BY <1>2 DEF Wholes
  <2>2. {i \in Wholes(d) : \A j \in Wholes(d) : j <= i} = {}
    BY <2>1
  <2> DEFINE cleared == {pending[d][i].key :
                            i \in {m \in DOMAIN pending[d] : \A j \in {} : j < m}}
             list == [m \in Slots |-> IF m \in cleared THEN Nothing ELSE base.fav[m]]
  <2>3. Seen(d, base) = [base EXCEPT !.fav = list]
    BY <2>2 DEF Seen
  <2>4. list[k] = base.fav[k]
    BY <1>2
  <2> HIDE DEF list
  <2>5. Seen(d, base).fav = list
    BY <1>3, <2>3 DEF UserNodes
  <2> QED
    BY <1>3, <1>b, <2>4, <2>5 DEF FavView
<1>5. FavView(DeviceOf(c)).fav[k] # Nothing
  BY <1>4, <1>d, JobTypes DEF TypeInv
<1> QED
  BY <1>1, <1>5 DEF TypeInv, FavTypeOK

\* Each found key is cleared by a write that is still to be performed.
LEMMA PromiseQueued ==
    ASSUME TypeInv, NEW c \in Calls, c \in Jobs, NEW k \in Slots, ChildThere(c, k), kind[c] = "remove",
           Promised(c), Product(c)' = Product(c), DeviceOf(c)' = DeviceOf(c)
    PROVE  Promised(c)'
<1>d. PICK d \in Devices : d = DeviceOf(c)
  BY JobTypes DEF TypeInv
<1>w. PICK w : w = [by |-> c, key |-> k, val |-> NoNode, fate |-> "sent"]
  OBVIOUS
<1>0. Enqueue(c, k, NoNode) /\ child' = [child EXCEPT ![c][k] = "handled"] /\ node' = node
  BY DEF ChildThere, ChildFound
<1>1. Entered(d, w) /\ w.by = c /\ w.key = k /\ w.fate = "sent"
  BY <1>0, <1>d, <1>w, EnqueueShape DEF TypeInv
<1>2. DOMAIN pending[d] = 1..Len(pending[d]) /\ Len(pending[d]) \in Nat
  BY QueueTypes DEF TypeInv
<1>3. Clears(c, k)'
  <2>1. Len(pending[d]) + 1 \in DOMAIN pending'[d] /\ pending'[d][Len(pending[d]) + 1] = w
    BY <1>1, <1>2 DEF Entered
  <2> QED
    BY <1>1, <1>d, <2>1 DEF Clears
<1>4. \A m \in Slots : Clears(c, m) => Clears(c, m)'
  <2>1. \A i \in DOMAIN pending[d] : i \in DOMAIN pending'[d] /\ pending'[d][i] = pending[d][i]
    BY <1>1, <1>2 DEF Entered
  <2> QED
    BY <1>d, <2>1 DEF Clears
<1>5. \A m \in Slots : m # k => child'[c][m] = child[c][m]
  BY <1>0 DEF TypeInv, FavTypeOK
<1> QED
  BY <1>0, <1>3, <1>4, <1>5, PromiseStays

\* A performed write has cleared its key.
LEMMA PromiseServed ==
    ASSUME TypeInv, QueueOwned, Turns, NEW d \in Devices, Server(d), NEW c \in Calls, c \in Jobs,
           Writing(c), stage[c] \in {"found", "done"}, ~contended, c \notin denied,
           Promised(c), Product(c)' = Product(c), DeviceOf(c)' = DeviceOf(c)
    PROVE  Promised(c)'
<1>1. PICK i \in DOMAIN pending[d] : Served(d, i)
  BY ServerShape DEF TypeInv
<1>w. PICK w : w = pending[d][i]
  OBVIOUS
<1>2. w.by = c /\ d = DeviceOf(c) /\ w.key \in Slots /\ w.key # WholeNode
  BY <1>w, KeysOnly
<1>3. node' = [node EXCEPT !.fav[w.key] = Nothing] /\ UNCHANGED child
  BY <1>1, <1>2, <1>w DEF Served, Applied, Server, jobVars
<1>4. \A k \in Slots : node'.fav[k] = IF k = w.key THEN Nothing ELSE node.fav[k]
  <2>1. node \in UserNodes
    BY DEF TypeInv, FavTypeOK
  <2> QED
    BY <1>2, <1>3, <2>1 DEF UserNodes, FavLists
<1>5. Product(c) # Nothing
  BY JobTypes DEF TypeInv
<1>6. \A k \in Slots : k # w.key /\ Clears(c, k) => Clears(c, k)'
  BY <1>1, <1>2, <1>w DEF Clears, Served
<1> QED
  BY <1>3, <1>4, <1>5, <1>6, PromiseStays

\* The writes that are still to be performed stay in the queue.
LEMMA ClearsStay ==
    ASSUME TypeInv, NEW d \in Devices, Completion(d) \/ ConnectionLost(d),
           NEW c \in Calls, DeviceOf(c)' = DeviceOf(c), NEW k \in Slots, Clears(c, k)
    PROVE  Clears(c, k)'
<1>e. PICK e \in Devices : e = DeviceOf(c)
  BY JobTypes DEF TypeInv
<1>1. PICK i \in DOMAIN pending[e] :
          pending[e][i].by = c /\ pending[e][i].key = k /\ pending[e][i].fate = "sent"
  BY <1>e DEF Clears
<1>2. CASE Completion(d)
  <2>1. Left(d) /\ Head(pending[d]).fate # "sent"
    BY <1>2, LeftShape DEF Completion, Acknowledge, TypeInv
  <2>2. CASE e = d
    <3>1. i # 1
      BY <1>1, <2>1, <2>2 DEF Left
    <3>2. i - 1 \in DOMAIN pending'[d] /\ pending'[d][i - 1] = pending[d][i]
      BY <2>1, <2>2, <3>1 DEF Left
    <3> QED
      BY <1>1, <1>e, <2>2, <3>2 DEF Clears
  <2>3. CASE e # d
    <3>1. pending'[e] = pending[e]
      BY <2>1, <2>3 DEF Left
    <3> QED
      BY <1>1, <1>e, <3>1 DEF Clears
  <2> QED
    BY <2>2, <2>3
<1>3. CASE ConnectionLost(d)
  <2>1. Resent(d)
    BY <1>3, LostShape DEF TypeInv
  <2>2. CASE e = d
    <3>w. PICK w : w = [pending[d][i] EXCEPT !.fate = "sent"]
      OBVIOUS
    <3>1. w.by = c /\ w.key = k /\ w.fate = "sent"
      BY <1>1, <2>2, <3>w, QueueTypes DEF Writes, TypeInv
    <3>2. i \in DOMAIN pending'[d] /\ pending'[d][i] \in {pending[d][i], w}
      BY <2>1, <2>2, <3>w DEF Resent
    <3> QED
      BY <1>1, <1>e, <2>2, <3>1, <3>2 DEF Clears
  <2>3. CASE e # d
    <3>1. pending'[e] = pending[e]
      BY <2>1, <2>3 DEF Resent
    <3> QED
      BY <1>1, <1>e, <3>1 DEF Clears
  <2> QED
    BY <2>2, <2>3
<1> QED
  BY <1>2, <1>3

LEMMA NextPromise ==
    ASSUME WriteInv, ScreensShown, PromiseKept, [Next]_vars, NEW c \in Calls, Busy(c), Sworn(c)'
    PROVE  Promised(c)'
<1>0. TypeInv /\ QueueOwned /\ Turns /\ NodeFollowed
  BY DEF WriteInv
<1>1. /\ kind[c] = "remove" /\ kind'[c] = "remove" /\ Shown(caller[c])
      /\ ~contended /\ ~contended' /\ c \notin outdated /\ c \notin denied /\ c \notin denied'
      /\ Writing(c) /\ c \in Jobs
      /\ Product(c)' = Product(c) /\ DeviceOf(c)' = DeviceOf(c)
      /\ stage[c] \in {"found", "done"} \/ QueryAnswered(c)
  BY <1>0, SwornBefore
<1>2. CASE QueryAnswered(c)
  BY <1>0, <1>1, <1>2, PromiseMade
<1>3. CASE stage[c] \in {"found", "done"}
  <2>1. Promised(c)
    BY <1>1, <1>3 DEF PromiseKept, Sworn
  <2>2. ASSUME node' = node, child'[c] = child[c], pending'[DeviceOf(c)] = pending[DeviceOf(c)]
        PROVE  Promised(c)'
    <3>1. \A k \in Slots : Clears(c, k) => Clears(c, k)'
      BY <1>1, <2>2 DEF Clears
    <3> QED
      BY <1>1, <2>1, <2>2, <3>1, PromiseStays
  <2>d. DeviceOf(c) \in Devices /\ DeviceOf(c) = place[caller[c]].dev /\ alive[DeviceOf(c)]
    BY <1>0, <1>1, JobTypes DEF TypeInv, ScreensShown
  <2>3. ASSUME NEW j \in Jobs, Read(j) \/ Callback(j) \/ QueryDenied(j)
        PROVE  Promised(c)'
    <3>0. node' = node
      BY <2>3 DEF Read, RaiseNode, RaiseQuery, RaiseChild, QueryDenied, Callback, NodeMissing, QueryAnswered,
         AddFavorite, AddProduct, Rewrite, ChildThere, ChildFound, ChildGone, dbVars
    <3>1. CASE AddFavorite(j) \/ AddProduct(j)
      <4>1. kind[j] \in {"add", "publish"} /\ Writing(j)
        BY <3>1 DEF AddFavorite, AddProduct, Rewrite, Writing, Writers, Busy
      <4> QED
        BY <1>0, <1>1, <4>1 DEF Turns
    <3>2. ASSUME NEW k \in Slots, ChildThere(j, k)
          PROVE  Promised(c)'
      <4>1. CASE j = c
        BY <1>0, <1>1, <2>1, <3>2, <4>1, PromiseQueued
      <4>2. CASE j # c
        <5>1. kind[j] # "remove"
          <6>1. Busy(j)
            BY <3>2 DEF ChildThere, ChildFound, Busy, Outstanding
          <6> QED
            BY <1>0, <1>1, <4>2, <6>1 DEF Turns, Writing, Writers
        <5>2. pending' = pending /\ child'[c] = child[c]
          BY <1>0, <1>1, <3>2, <4>2, <5>1 DEF ChildThere, ChildFound, TypeInv, FavTypeOK
        <5> QED
          BY <2>2, <3>0, <5>2
      <4> QED
        BY <4>1, <4>2
    <3>3. ASSUME NEW k \in Slots, RaiseChild(j, k)
          PROVE  Promised(c)'
      <4>1. pending' = pending /\ \A m \in Slots : child'[c][m] = child[c][m] \/ (j = c /\ m = k)
        BY <1>0, <1>1, <3>3 DEF RaiseChild, dbVars, TypeInv, FavTypeOK
      <4>2. j = c /\ node.fav[k] = Product(c) => child'[c][k] = "there"
        BY <1>0, <1>1, <1>3, <3>3, PromiseRead
      <4>3. \A m \in Slots : Clears(c, m) => Clears(c, m)'
        BY <1>1, <4>1 DEF Clears
      <4> QED
        BY <1>1, <2>1, <3>0, <4>1, <4>2, <4>3, PromiseStays
    <3>4. ASSUME NEW k \in Slots, ChildGone(j, k)
          PROVE  Promised(c)'
      <4>1. /\ pending' = pending
            /\ \A m \in Slots : child'[c][m] = child[c][m] \/ child[c][m] = "gone"
        BY <1>0, <1>1, <3>4 DEF ChildGone, dbVars, TypeInv, FavTypeOK
      <4>2. \A m \in Slots : Clears(c, m) => Clears(c, m)'
        BY <1>1, <4>1 DEF Clears
      <4> QED
        BY <1>1, <2>1, <3>0, <4>1, <4>2, PromiseStays
    <3>5. CASE RaiseNode(j) \/ RaiseQuery(j) \/ QueryDenied(j) \/ NodeMissing(j)
      BY <2>2, <3>0, <3>5 DEF RaiseNode, RaiseQuery, QueryDenied, NodeMissing, dbVars
    <3>6. CASE QueryAnswered(j)
      <4>1. j # c
        BY <1>3, <3>6 DEF QueryAnswered
      <4>2. child'[c] = child[c] /\ pending' = pending
        BY <1>0, <1>1, <3>6, <4>1 DEF QueryAnswered, dbVars, TypeInv, FavTypeOK
      <4> QED
        BY <2>2, <3>0, <4>2
    <3> QED
      BY <2>3, <3>1, <3>2, <3>3, <3>4, <3>5, <3>6 DEF Read, Callback
  <2>4. ASSUME NEW d \in Devices,
               \/ VisitFavorites(d) \/ Server(d) \/ Completion(d) \/ Kill(d) \/ LoseQueue(d)
               \/ Relaunch(d) \/ ConnectionLost(d) \/ Push(d)
        PROVE  Promised(c)'
    <3>1. CASE Server(d)
      BY <1>0, <1>1, <1>3, <2>1, <3>1, PromiseServed
    <3>2. CASE Completion(d) \/ ConnectionLost(d)
      <4>1. UNCHANGED <<node, child>>
        BY <3>2 DEF Completion, Acknowledge, ConnectionLost, jobVars
      <4> QED
        BY <1>0, <1>1, <2>1, <3>2, <4>1, ClearsStay, PromiseStays
    <3>3. CASE Kill(d)
      <4>1. DeviceOf(c) # d
        <5>s. PICK s \in Screens : s = caller[c] /\ s = caller'[c]
          BY <1>0, <3>3, JobTypes DEF Kill, TypeInv
        <5>1. Shown(s)'
          BY <5>s DEF Sworn
        <5>2. place[s].dev # d
          BY <3>3, <5>1 DEF Kill, Shown
        <5> QED
          BY <2>d, <5>2, <5>s
      <4>2. child'[c] = child[c] /\ UNCHANGED <<node, pending>>
        BY <1>1, <3>3, <4>1 DEF Kill
      <4> QED
        BY <2>2, <4>2
    <3>4. CASE LoseQueue(d)
      <4>1. DeviceOf(c) # d
        BY <2>d, <3>4 DEF LoseQueue
      <4>2. UNCHANGED <<node, child>> /\ pending'[DeviceOf(c)] = pending[DeviceOf(c)]
        BY <1>0, <2>d, <3>4, <4>1 DEF LoseQueue, TypeInv, FavTypeOK
      <4> QED
        BY <2>2, <4>2
    <3>5. CASE VisitFavorites(d) \/ Relaunch(d) \/ Push(d)
      BY <2>2, <3>5 DEF VisitFavorites, Relaunch, Push, jobVars
    <3> QED
      BY <2>4, <3>1, <3>2, <3>3, <3>4, <3>5
  <2>5. ASSUME NEW j \in Jobs, NEW k, Start(j, k)
        PROVE  Promised(c)'
    BY <2>2, <2>5 DEF Start, dbVars
  <2>6. ASSUME NEW s \in Screens, Paint(s)
        PROVE  Promised(c)'
    BY <2>2, <2>6 DEF Paint, dbVars, jobVars
  <2>7. CASE UNCHANGED vars
    BY <2>2, <2>7 DEF vars, dbVars, jobVars
  <2>8. ASSUME NEW b \in Calls, Appear(b) \/ Tap(b) \/ QueryDenied(b)
        PROVE  Promised(c)'
    BY <2>3, <2>5, <2>8 DEF Appear, Tap, Jobs
  <2>9. ASSUME NEW b \in Publications, Publish(b)
        PROVE  Promised(c)'
    BY <2>5, <2>9 DEF Publish, Jobs
  <2> QED
    BY <2>3, <2>4, <2>6, <2>7, <2>8, <2>9 DEF Next
<1> QED
  BY <1>1, <1>2, <1>3

LEMMA NextPromiseKept ==
    ASSUME WriteInv, ScreensShown, PromiseKept, [Next]_vars
    PROVE  PromiseKept'
<1> SUFFICES ASSUME NEW c \in Calls, Sworn(c)', Busy(c)'
             PROVE  Promised(c)'
  BY DEF PromiseKept
<1>0. TypeInv /\ c \in Jobs
  BY DEF WriteInv, Jobs
<1>1. ASSUME NEW j \in Jobs, NEW k, Start(j, k)
      PROVE  Busy(c)
  <2>1. stage' = [stage EXCEPT ![j] = "asked"] /\ UNCHANGED <<pending, child>>
    BY <1>1 DEF Start, dbVars
  <2>2. c # j
    BY <1>0, <2>1 DEF Sworn, TypeInv, FavTypeOK
  <2> QED
    BY <1>0, <2>1, <2>2 DEF Busy, Outstanding, Queued, TypeInv, FavTypeOK
<1>2. ASSUME Calmer
      PROVE  Busy(c)
  BY <1>0, <1>2 DEF Calmer
<1>3. ASSUME UNCHANGED vars
      PROVE  Busy(c)
  BY <1>3 DEF vars, dbVars, jobVars, Busy, Outstanding, Queued
<1>4. ASSUME NEW s \in Screens, Paint(s)
      PROVE  Busy(c)
  BY <1>4 DEF Paint, dbVars, jobVars, Busy, Outstanding, Queued
<1>5. ASSUME NEW j \in Jobs, Read(j) \/ Callback(j) \/ QueryDenied(j)
      PROVE  Busy(c)
  BY <1>0, <1>2, <1>5, JobsCalmer
<1>6. ASSUME NEW d \in Devices,
             \/ VisitFavorites(d) \/ Server(d) \/ Completion(d) \/ Kill(d) \/ LoseQueue(d)
             \/ Relaunch(d) \/ ConnectionLost(d) \/ Push(d)
      PROVE  Busy(c)
  BY <1>0, <1>2, <1>6, DevicesCalmer
<1>7. ASSUME NEW b \in Calls, Appear(b) \/ Tap(b) \/ QueryDenied(b)
      PROVE  Busy(c)
  BY <1>1, <1>5, <1>7 DEF Appear, Tap, Jobs
<1>8. ASSUME NEW b \in Publications, Publish(b)
      PROVE  Busy(c)
  BY <1>1, <1>8 DEF Publish, Jobs
<1>9. Busy(c)
  BY <1>3, <1>4, <1>5, <1>6, <1>7, <1>8 DEF Next
<1> QED
  BY <1>9, NextPromise

-----------------------------------------------------------------------------
(* Hearts at rest *)

\* What HeartFor asks of a screen's history.
Trusted(s) ==
    /\ Shown(s)
    /\ place[s].product \notin hurried /\ ~contended
    /\ \A c \in Calls : caller[c] = s => c \notin denied /\ c \notin outdated

Settled(s) == Agree(s) \/ \E c \in Calls : caller[c] = s /\ Settling(c)

LEMMA HeartForDef == \A s : HeartFor(s) <=> (Trusted(s) => Settled(s))
BY DEF HeartFor, Trusted, Settled

\* A removal that ends its clearing leaves the heart white and the product gone.
LEMMA ClearingEnds ==
    ASSUME WriteInv, ScreensShown, WhiteKept, PromiseKept, [Next]_vars,
           NEW s \in Screens, NEW c \in Calls, s = caller[c], Clearing(c), Shown(s), Trusted(s)',
           Last(s)' = Last(s), kind'[c] = kind[c], stage'[c] = stage[c], ~Busy(c)'
    PROVE  Agree(s)'
<1>g. Grows /\ TypeInv
  BY NextGrows DEF WriteInv
<1>1. /\ s = caller'[c] /\ place' = place /\ Product(c)' = place[s].product /\ Product(c) \notin hurried
      /\ Product(c) = place[s].product
  BY <1>g DEF Grows, Trusted, Product
<1>2. Sworn(c)'
  BY <1>1 DEF Sworn, Trusted, Clearing
<1>3. Promised(c)'
  BY <1>2, NextPromise DEF Clearing
<1>d. PICK d \in Devices : d = DeviceOf(c) /\ d = DeviceOf(c)'
  BY <1>g, JobTypes DEF TypeInv, Grows, DeviceOf
<1>4. \A k \in Slots : node'.fav[k] # place[s].product
  <2>1. \A k \in Slots : ~Clears(c, k)'
    BY <1>d DEF Clears, Busy, Queued
  <2>2. \A k \in Slots : child'[c][k] \notin {"asked", "there"}
    BY DEF Busy, Outstanding
  <2> QED
    BY <1>1, <1>3, <2>1, <2>2 DEF Promised
<1>5. Last(s) = "white"
  BY <1>1 DEF WhiteKept
<1> QED
  BY <1>1, <1>4, <1>5 DEF Agree, Favs

\* A step that leaves the screen, the product's place and the stages of its calls.
LEMMA HeartStays ==
    ASSUME HeartInv, [Next]_vars, NEW s \in Screens, s \in informed, Shown(s), Trusted(s)',
           Last(s)' = Last(s),
           (place[s].product \in Favs(node.fav)) = (place[s].product \in Favs(node'.fav)),
           \A c \in Calls : caller[c] = s /\ Settling(c) => kind'[c] = kind[c] /\ stage'[c] = stage[c]
    PROVE  Settled(s)'
<1>g. Grows
  BY NextGrows
<1>0. WriteInv /\ ScreensShown /\ WhiteKept /\ PromiseKept
  BY DEF HeartInv
<1>1. Trusted(s)
  BY <1>g DEF Grows, Trusted
<1>2. Settled(s)
  BY <1>1, HeartForDef DEF HeartInv, HeartKept
<1>3. CASE Agree(s)
  <2>1. place' = place
    BY <1>g DEF Grows
  <2> QED
    BY <1>3, <2>1 DEF Agree, Settled
<1>4. ASSUME NEW c \in Calls, caller[c] = s, Settling(c)
      PROVE  Settled(s)'
  <2>1. kind'[c] = kind[c] /\ stage'[c] = stage[c] /\ caller'[c] = s
    BY <1>4, <1>g DEF Grows
  <2>2. CASE Settling(c)'
    BY <2>1, <2>2 DEF Settled
  <2>3. CASE ~Settling(c)'
    <3>1. Clearing(c) /\ ~Busy(c)'
      BY <1>4, <2>1, <2>3 DEF Settling, Clearing
    <3>2. Agree(s)'
      BY <1>0, <1>4, <2>1, <3>1, ClearingEnds
    <3> QED
      BY <3>2 DEF Settled
  <2> QED
    BY <2>2, <2>3
<1> QED
  BY <1>2, <1>3, <1>4 DEF Settled

LEMMA StartHeart ==
    ASSUME HeartInv, [Next]_vars, NEW j \in Jobs, NEW k, Start(j, k),
           UNCHANGED <<heart, informed>> \/ (j \in Calls /\ Appear(j)),
           NEW s \in Screens, s \in informed', Trusted(s)'
    PROVE  Settled(s)'
<1>0. TypeInv /\ ScreensShown
  BY DEF HeartInv, WriteInv
<1>1. /\ stage[j] = "idle" /\ stage' = [stage EXCEPT ![j] = "asked"] /\ kind' = [kind EXCEPT ![j] = k]
      /\ UNCHANGED <<node, paint, place, caller>>
  BY DEF Start, dbVars
<1>2. \A c \in Calls : Settling(c) => kind'[c] = kind[c] /\ stage'[c] = stage[c]
  BY <1>0, <1>1 DEF Settling, Clearing, TypeInv, FavTypeOK
<1>3. CASE s \in informed /\ heart'[s] = heart[s]
  <2>1. Shown(s) /\ Last(s)' = Last(s)
    BY <1>1, <1>3, SameLast DEF Trusted, Shown
  <2> QED
    BY <1>1, <1>2, <1>3, <2>1, HeartStays
<1>4. CASE j \in Calls /\ Appear(j) /\ ~(s \in informed /\ heart'[s] = heart[s])
  <2>1. /\ heart' = [heart EXCEPT ![caller[j]] = IF heart[caller[j]] = "unopened" THEN "white" ELSE heart[caller[j]]]
        /\ informed' = IF heart[caller[j]] = "unopened" /\ Product(j) \notin Favs(node.fav)
                       THEN informed \cup {caller[j]} ELSE informed
    BY <1>4 DEF Appear
  <2>2. s = caller[j] /\ heart[s] = "unopened"
    BY <1>0, <1>4, <2>1 DEF TypeInv, FavTypeOK
  <2>3. s \notin informed /\ paint[s] = <<>>
    BY <2>2, <1>0 DEF ScreensShown, Shown
  <2>4. heart'[s] = "white" /\ place[s].product \notin Favs(node.fav)
    BY <1>0, <2>1, <2>2, <2>3 DEF Product, TypeInv, FavTypeOK
  <2>5. Agree(s)'
    BY <1>1, <2>3, <2>4 DEF Agree, Last
  <2> QED
    BY <2>5 DEF Settled
<1> QED
  BY <1>3, <1>4

LEMMA PaintHeart ==
    ASSUME HeartInv, [Next]_vars, NEW t \in Screens, Paint(t), NEW s \in Screens, s \in informed', Trusted(s)'
    PROVE  Settled(s)'
<1>0. TypeInv /\ ScreensShown
  BY DEF HeartInv, WriteInv
<1>1. UNCHANGED <<node, kind, stage, informed>>
  BY DEF Paint, dbVars, jobVars, histVars
<1>2. Last(s)' = Last(s) /\ (s # t => heart'[s] = heart[s])
  BY <1>0, PaintLast DEF TypeInv
<1>3. Shown(s)
  <2>1. Shown(t)
    BY <1>0 DEF Paint, ScreensShown
  <2> QED
    BY <1>2, <2>1 DEF Trusted, Shown
<1> QED
  BY <1>1, <1>2, <1>3, HeartStays

\* An answer agrees with the node, or its screen is informed no longer, or a
\* removal is yet to clear the product.
LEMMA AnswerHeart ==
    ASSUME HeartInv, [Next]_vars, NEW c \in Calls, NEW colour, Answer(c, colour),
           node' = node, UNCHANGED heart,
           \A b \in Calls : b # c => kind'[b] = kind[b] /\ stage'[b] = stage[b],
           NEW s \in Screens, s \in informed', Trusted(s)',
           caller[c] = s /\ kind[c] = "remove" => Clearing(c)'
    PROVE  Settled(s)'
<1>g. Grows /\ FavTypeOK
  BY NextGrows DEF HeartInv, WriteInv, TypeInv
<1>t. PICK t \in Screens : t = caller[c]
  BY <1>g, JobTypes
<1>1. CASE s = t
  <2>1. \/ (colour = "red") = (Product(c) \in Favs(node.fav))
        \/ kind[c] = "remove"
    BY <1>1, <1>g, <1>t, AnswerShape
  <2>2. Last(s)' = colour
    BY <1>1, <1>g, <1>t, AnswerShape
  <2>3. Product(c) = place'[s].product /\ caller'[c] = s
    BY <1>1, <1>g, <1>t DEF Grows, Product
  <2>4. CASE (colour = "red") = (Product(c) \in Favs(node.fav))
    BY <2>2, <2>3, <2>4 DEF Agree, Settled
  <2>5. CASE kind[c] = "remove"
    BY <1>1, <1>t, <2>3, <2>5 DEF Settling, Settled
  <2> QED
    BY <2>1, <2>4, <2>5
<1>2. CASE s # t
  <2>1. paint'[s] = paint[s] /\ s \in informed
    BY <1>2, <1>g, <1>t, AnswerShape
  <2>2. Last(s)' = Last(s) /\ Shown(s)
    BY <2>1, SameLast DEF Trusted, Shown
  <2> QED
    BY <1>2, <1>t, <2>1, <2>2, HeartStays
<1> QED
  BY <1>1, <1>2

\* A step of job j that neither answers nor changes the node.
LEMMA SilentHeart ==
    ASSUME HeartInv, [Next]_vars, NEW j \in Jobs, UNCHANGED <<node, heart, paint, informed, kind>>,
           stage' = stage \/ (stage[j] \in {"asked", "raised"} /\ \E x : stage' = [stage EXCEPT ![j] = x]),
           NEW s \in Screens, s \in informed', Trusted(s)'
    PROVE  Settled(s)'
<1>1. Shown(s) /\ Last(s)' = Last(s)
  BY SameLast DEF Trusted, Shown
<1>2. \A c \in Calls : Settling(c) => kind'[c] = kind[c] /\ stage'[c] = stage[c]
  BY DEF Settling, Clearing, Jobs, HeartInv, WriteInv, TypeInv, FavTypeOK
<1> QED
  BY <1>1, <1>2, HeartStays

LEMMA ChildHeart ==
    ASSUME HeartInv, [Next]_vars, NEW j \in Jobs, NEW k \in Slots, ChildThere(j, k) \/ ChildGone(j, k),
           NEW s \in Screens, s \in informed', Trusted(s)'
    PROVE  Settled(s)'
<1>0. TypeInv /\ FavTypeOK
  BY DEF HeartInv, WriteInv, TypeInv
<1>1. UNCHANGED <<node, heart, kind, caller>>
  BY DEF ChildThere, ChildFound, ChildGone, dbVars
<1>2. child[j][k] \in {"there", "gone"}
  BY DEF ChildThere, ChildFound, ChildGone
<1>3. j \in Calls /\ kind[j] \in {"check", "remove"} /\ stage[j] \in {"found", "done"}
  BY <1>0, <1>2 DEF TypeInv, KindsMatch
<1>4. CASE UNCHANGED <<paint, informed>> /\ stage' = stage
  BY <1>1, <1>4, SilentHeart
<1>5. CASE ChildThere(j, k) /\ stage[j] # "done"
  <2>1. /\ Answer(j, IF kind[j] = "remove" THEN "white" ELSE "red")
        /\ stage' = [stage EXCEPT ![j] = "done"]
        /\ kind[j] = "remove" => Enqueue(j, k, NoNode)
    BY <1>5 DEF ChildThere, ChildFound, Step
  <2>2. \A b \in Calls : b # j => kind'[b] = kind[b] /\ stage'[b] = stage[b]
    BY <1>0, <1>1, <2>1 DEF Jobs, FavTypeOK
  <2>3. kind[j] = "remove" => Clearing(j)'
    <3>1. SUFFICES ASSUME kind[j] = "remove"
                   PROVE  Clearing(j)'
      OBVIOUS
    <3>d. PICK d \in Devices : d = DeviceOf(j)
      BY <1>0, JobTypes
    <3>w. PICK w : w = [by |-> j, key |-> k, val |-> NoNode, fate |-> "sent"]
      OBVIOUS
    <3>2. Entered(d, w)
      BY <1>0, <2>1, <3>1, <3>d, <3>w, EnqueueShape
    <3>3. w.by = j
      BY <3>w
    <3>n. PICK n : n = Len(pending[d]) + 1
      OBVIOUS
    <3>4. Len(pending[d]) \in Nat
      BY <1>0, QueueTypes
    <3>5. n \in DOMAIN pending'[d] /\ pending'[d][n].by = j
      BY <3>2, <3>3, <3>4, <3>n DEF Entered
    <3>6. Queued(j)'
      BY <3>5 DEF Queued
    <3>7. stage'[j] = "done" /\ kind'[j] = "remove"
      BY <1>0, <1>1, <2>1, <3>1 DEF FavTypeOK
    <3> QED
      BY <3>6, <3>7 DEF Clearing, Busy
  <2>4. \E colour : Answer(j, colour)
    BY <2>1
  <2> QED
    BY <1>1, <1>3, <2>2, <2>3, <2>4, AnswerHeart
<1>6. CASE ChildThere(j, k) /\ stage[j] = "done"
  <2>1. UNCHANGED <<paint, informed>> /\ stage' = [stage EXCEPT ![j] = "done"]
    BY <1>6 DEF ChildThere, ChildFound, Step
  <2>2. stage' = stage
    BY <1>0, <1>6, <2>1 DEF FavTypeOK
  <2> QED
    BY <1>4, <2>1, <2>2
<1>7. CASE ChildGone(j, k)
  <2>1. UNCHANGED stage
    BY <1>7 DEF ChildGone
  <2>2. CASE UNCHANGED <<paint, informed>>
    BY <1>4, <2>1, <2>2
  <2>3. CASE kind[j] = "check" /\ Answer(j, "white")
    BY <1>1, <1>3, <2>1, <2>3, AnswerHeart
  <2> QED
    BY <1>7, <2>2, <2>3 DEF ChildGone
<1> QED
  BY <1>5, <1>6, <1>7

\* A refused query answers a screen that is not trusted any more.
LEMMA DeniedHeart ==
    ASSUME HeartInv, [Next]_vars, NEW j \in Jobs, QueryDenied(j),
           NEW s \in Screens, s \in informed', Trusted(s)'
    PROVE  Settled(s)'
<1>0. TypeInv /\ FavTypeOK
  BY DEF HeartInv, WriteInv, TypeInv
<1>1. /\ UNCHANGED <<node, heart, kind, caller>> /\ denied' = denied \cup {j}
      /\ stage[j] = "asked" /\ stage' = [stage EXCEPT ![j] = "failed"]
      /\ kind[j] \in {"check", "remove"}
  BY DEF QueryDenied, dbVars, Step
<1>2. CASE UNCHANGED <<paint, informed>>
  BY <1>1, <1>2, SilentHeart
<1>3. CASE kind[j] = "check" /\ Answer(j, "white")
  <2>1. j \in Calls
    BY <1>0, <1>1 DEF TypeInv, KindsMatch
  <2>2. \A b \in Calls : b # j => kind'[b] = kind[b] /\ stage'[b] = stage[b]
    BY <1>0, <1>1 DEF Jobs, FavTypeOK
  <2> QED
    BY <1>1, <1>3, <2>1, <2>2, AnswerHeart
<1> QED
  BY <1>2, <1>3 DEF QueryDenied

LEMMA JobsHeart ==
    ASSUME HeartInv, [Next]_vars, NEW j \in Jobs, Read(j) \/ Callback(j),
           NEW s \in Screens, s \in informed', Trusted(s)'
    PROVE  Settled(s)'
<1>1. CASE RaiseNode(j) \/ RaiseQuery(j) \/ NodeMissing(j) \/ QueryAnswered(j)
  BY <1>1, SilentHeart DEF RaiseNode, RaiseQuery, NodeMissing, QueryAnswered, Step, dbVars, screenVars, histVars
<1>2. CASE AddFavorite(j) \/ AddProduct(j)
  BY <1>2, SilentHeart DEF AddFavorite, AddProduct, Rewrite, Step, screenVars, histVars
<1>3. ASSUME NEW k \in Slots, RaiseChild(j, k)
      PROVE  Settled(s)'
  BY <1>3, SilentHeart DEF RaiseChild, dbVars, screenVars, histVars
<1>4. ASSUME NEW k \in Slots, ChildThere(j, k) \/ ChildGone(j, k)
      PROVE  Settled(s)'
  BY <1>4, ChildHeart
<1> QED
  BY <1>1, <1>2, <1>3, <1>4 DEF Read, Callback

\* A performed write settles a screen, or is of a call that has yet to.
LEMMA ServerHeart ==
    ASSUME HeartInv, [Next]_vars, NEW d \in Devices, Server(d),
           NEW s \in Screens, s \in informed', Trusted(s)'
    PROVE  Settled(s)'
<1>0. TypeInv /\ FavTypeOK /\ QueueOwned
  BY DEF HeartInv, WriteInv, TypeInv
<1>1. UNCHANGED <<kind, stage, heart, paint, place, caller>>
  BY DEF Server, screenVars, jobVars
<1>2. Shown(s) /\ Last(s)' = Last(s)
  BY <1>1, SameLast DEF Trusted, Shown
<1>3. PICK i \in DOMAIN pending[d] :
          /\ Served(d, i)
          /\ informed' = {t \in informed :
                \/ (place[t].product \in Favs(node.fav)) = (place[t].product \in Favs(node'.fav))
                \/ pending[d][i].by \in Calls /\ caller[pending[d][i].by] = t}
  BY <1>0, ServerShape
<1>b. PICK b : b = pending[d][i].by
  OBVIOUS
<1>4. CASE (place[s].product \in Favs(node.fav)) = (place[s].product \in Favs(node'.fav))
  BY <1>1, <1>2, <1>3, <1>4, HeartStays
<1>5. CASE b \in Calls /\ caller[b] = s
  <2>1. Owned(d, pending[d][i]) /\ b \in Jobs
    BY <1>0, <1>b, QueueTypes DEF QueueOwned
  <2>2. CASE pending[d][i].key = WholeNode
    <3>1. stage[b] = "queued" /\ kind[b] \in {"add", "publish"}
      BY <1>0, <1>b, <2>1, <2>2 DEF Owned, TypeInv, KindsMatch
    <3>2. kind[b] = "add"
      BY <1>0, <1>5, <3>1, JobTypes DEF TypeInv, KindsMatch
    <3> QED
      BY <1>1, <1>5, <3>1, <3>2 DEF Settling, Settled
  <2>3. CASE pending[d][i].key # WholeNode
    <3>1. stage[b] = "done" /\ kind[b] = "remove"
      BY <1>b, <2>1, <2>3 DEF Owned
    <3>2. i \in DOMAIN pending'[d] /\ pending'[d][i].by = b
      <4>1. pending[d][i] \in Writes
        BY <1>0, QueueTypes
      <4>w. PICK w \in Writes : w = pending[d][i]
        BY <4>1
      <4>2. \A x : [w EXCEPT !.fate = x].by = w.by
        BY DEF Writes
      <4> QED
        BY <1>3, <1>b, <4>w, <4>2 DEF Served
    <3>3. Queued(b)'
      BY <3>2 DEF Queued
    <3> QED
      BY <1>1, <1>5, <3>1, <3>3 DEF Settling, Clearing, Busy, Settled
  <2> QED
    BY <2>2, <2>3
<1> QED
  BY <1>3, <1>4, <1>5, <1>b

\* A completion paints the screen of an addition, or none.
LEMMA CompletionHeart ==
    ASSUME HeartInv, [Next]_vars, NEW d \in Devices, Completion(d),
           NEW s \in Screens, s \in informed', Trusted(s)'
    PROVE  Settled(s)'
<1>0. TypeInv /\ FavTypeOK /\ QueueOwned
  BY DEF HeartInv, WriteInv, TypeInv
<1>1. UNCHANGED <<node, kind, heart, place, caller, denied>> /\ pending[d] # <<>>
      /\ pending' = [pending EXCEPT ![d] = Tail(@)]
  BY DEF Completion, Acknowledge
<1>2. Left(d)
  BY <1>0, <1>1, LeftShape
<1>w. PICK w : w = pending[d][1] /\ w = Head(pending[d])
  BY <1>2 DEF Left
<1>3. Owned(d, w) /\ w.by \in Jobs /\ w.fate \in {"ok", "denied"}
  <2>1. Owned(d, w) /\ w.by \in Jobs /\ w.fate \in {"sent", "ok", "denied"}
    BY <1>0, <1>2, <1>w, QueueTypes DEF QueueOwned, Left
  <2> QED
    BY <1>w, <2>1 DEF Completion, Acknowledge
<1>4. Shown(s)
  BY <1>1 DEF Trusted, Shown
<1>5. CASE w.key # WholeNode
  <2>1. UNCHANGED <<stage, paint, informed>>
    BY <1>5, <1>w DEF Completion, Acknowledge
  <2> QED
    BY <1>1, <1>4, <2>1, SameLast, HeartStays
<1>6. CASE w.key = WholeNode
  <2>1. /\ stage' = [stage EXCEPT ![w.by] = IF w.fate = "ok" THEN "done" ELSE "failed"]
        /\ IF w.by \in Calls /\ w.fate = "ok" THEN Answer(w.by, "red") ELSE UNCHANGED <<paint, informed>>
    BY <1>6, <1>w DEF Completion, Acknowledge, Step
  <2>2. \A b \in Calls : b # w.by => kind'[b] = kind[b] /\ stage'[b] = stage[b]
    BY <1>0, <1>1, <1>3, <2>1 DEF Jobs, FavTypeOK
  <2>3. CASE w.by \in Calls /\ w.fate = "ok"
    <3>1. kind[w.by] # "remove"
      BY <1>0, <1>3, <1>6 DEF Owned, TypeInv, KindsMatch
    <3> QED
      BY <1>1, <2>1, <2>2, <2>3, <3>1, AnswerHeart
  <2>4. CASE ~(w.by \in Calls /\ w.fate = "ok")
    <3>1. UNCHANGED <<paint, informed>>
      BY <2>1, <2>4
    <3>2. \A c \in Calls : caller[c] = s => c # w.by
      BY <1>1, <1>3, <2>4 DEF Owned, Trusted
    <3> QED
      BY <1>1, <1>4, <2>2, <3>1, <3>2, SameLast, HeartStays
  <2> QED
    BY <2>3, <2>4
<1> QED
  BY <1>5, <1>6

\* A step that leaves the node, and the screen with the stages of its calls.
LEMMA SilentDevice ==
    ASSUME HeartInv, [Next]_vars, UNCHANGED <<node, kind, informed>>,
           NEW s \in Screens, s \in informed', Trusted(s)', heart'[s] = heart[s], paint'[s] = paint[s],
           \A c \in Calls : caller[c] = s => stage'[c] = stage[c]
    PROVE  Settled(s)'
<1>1. Shown(s) /\ Last(s)' = Last(s)
  BY SameLast DEF Trusted, Shown
<1> QED
  BY <1>1, HeartStays

LEMMA DevicesHeart ==
    ASSUME HeartInv, [Next]_vars, NEW d \in Devices,
           \/ VisitFavorites(d) \/ Kill(d) \/ LoseQueue(d) \/ Relaunch(d) \/ ConnectionLost(d) \/ Push(d),
           NEW s \in Screens, s \in informed', Trusted(s)'
    PROVE  Settled(s)'
<1>0. TypeInv /\ FavTypeOK /\ ScreensShown
  BY DEF HeartInv, WriteInv, TypeInv
<1>1. UNCHANGED <<node, kind, place, caller, informed>>
  BY DEF VisitFavorites, Kill, LoseQueue, Relaunch, ConnectionLost, Push, screenVars, jobVars, histVars
<1>2. CASE VisitFavorites(d) \/ Relaunch(d) \/ ConnectionLost(d) \/ Push(d)
  <2>1. UNCHANGED <<heart, paint, stage>>
    BY <1>2 DEF VisitFavorites, Relaunch, ConnectionLost, Push, screenVars, jobVars
  <2> QED
    BY <1>1, <2>1, SilentDevice
<1>3. CASE Kill(d)
  <2>1. /\ heart' = [t \in Screens |->
              IF place[t].dev = d /\ heart[t] # "unopened" THEN "gone" ELSE heart[t]]
        /\ paint' = [t \in Screens |-> IF place[t].dev = d THEN <<>> ELSE paint[t]]
        /\ stage' = [j \in Jobs |->
              IF DeviceOf(j) = d /\ stage[j] \in {"asked", "raised", "found"}
              THEN "dead" ELSE stage[j]]
    BY <1>3 DEF Kill
  <2>2. place[s].dev # d /\ heart'[s] = heart[s] /\ paint'[s] = paint[s]
    BY <2>1 DEF Trusted, Shown
  <2>3. \A c \in Calls : caller[c] = s => stage'[c] = stage[c]
    BY <1>0, <2>1, <2>2, JobTypes
  <2> QED
    BY <1>1, <2>2, <2>3, SilentDevice
<1>4. CASE LoseQueue(d)
  <2>1. /\ UNCHANGED <<heart, paint>> /\ ~alive[d]
        /\ stage' = [j \in Jobs |->
              IF DeviceOf(j) = d /\ stage[j] = "queued" THEN "dead" ELSE stage[j]]
    BY <1>4 DEF LoseQueue, screenVars
  <2>2. place[s].dev # d
    BY <1>0, <2>1 DEF Trusted, Shown, ScreensShown
  <2>3. \A c \in Calls : caller[c] = s => stage'[c] = stage[c]
    BY <1>0, <2>1, <2>2, JobTypes
  <2> QED
    BY <1>1, <2>1, <2>3, SilentDevice
<1> QED
  BY <1>2, <1>3, <1>4

LEMMA NextHeart ==
    ASSUME HeartInv, [Next]_vars
    PROVE  HeartKept'
<1> SUFFICES ASSUME NEW s \in Screens, s \in informed', Trusted(s)'
             PROVE  Settled(s)'
  <2>1. informed' \in SUBSET Screens
    BY NextTypeInv DEF HeartInv, WriteInv, TypeInv, FavTypeOK
  <2> QED
    BY <2>1 DEF HeartKept, HeartFor, Trusted, Settled
<1>0. TypeInv /\ FavTypeOK
  BY DEF HeartInv, WriteInv, TypeInv
<1>1. CASE UNCHANGED vars
  <2>1. UNCHANGED <<node, kind, place, caller, informed, heart, paint, stage>>
    BY <1>1 DEF vars, dbVars, screenVars, jobVars, histVars
  <2> QED
    BY <2>1, SilentDevice
<1>2. \A c \in Calls : c \in Jobs
  BY DEF Jobs
<1>3. \A j \in Publications : j \in Jobs
  BY DEF Jobs
<1>4. ASSUME NEW c \in Calls, Appear(c)
      PROVE  Settled(s)'
  BY <1>2, <1>4, StartHeart DEF Appear
<1>5. ASSUME NEW c \in Calls, Tap(c)
      PROVE  Settled(s)'
  BY <1>2, <1>5, StartHeart DEF Tap
<1>6. ASSUME NEW c \in Calls, QueryDenied(c)
      PROVE  Settled(s)'
  BY <1>2, <1>6, DeniedHeart
<1>7. ASSUME NEW j \in Publications, Publish(j)
      PROVE  Settled(s)'
  BY <1>3, <1>7, StartHeart DEF Publish
<1>8. ASSUME NEW j \in Jobs, Read(j) \/ Callback(j)
      PROVE  Settled(s)'
  BY <1>8, JobsHeart
<1>9. ASSUME NEW t \in Screens, Paint(t)
      PROVE  Settled(s)'
  BY <1>9, PaintHeart
<1>10. ASSUME NEW d \in Devices, Server(d)
       PROVE  Settled(s)'
  BY <1>10, ServerHeart
<1>11. ASSUME NEW d \in Devices, Completion(d)
       PROVE  Settled(s)'
  BY <1>11, CompletionHeart
<1>12. ASSUME NEW d \in Devices,
              \/ VisitFavorites(d) \/ Kill(d) \/ LoseQueue(d) \/ Relaunch(d) \/ ConnectionLost(d) \/ Push(d)
       PROVE  Settled(s)'
  BY <1>12, DevicesHeart
<1> QED
  BY <1>1, <1>4, <1>5, <1>6, <1>7, <1>8, <1>9, <1>10, <1>11, <1>12 DEF Next

LEMMA InitHeartInv == Init => HeartInv
<1> SUFFICES ASSUME Init
             PROVE  HeartInv
  OBVIOUS
<1>1. WriteInv
  BY InitWriteInv
<1>2. /\ \A s \in Screens : heart[s] = "unopened" /\ paint[s] = <<>>
      /\ \A j \in Jobs : stage[j] = "idle" /\ kind[j] = "none"
      /\ informed = {} /\ \A d \in Devices : pending[d] = <<>>
      /\ \A j \in Jobs : \A k \in Slots : child[j][k] = "none"
  BY DEF Init
<1>3. \A j \in Jobs : ~Busy(j)
  BY <1>2 DEF Busy, Outstanding, Queued
<1>4. ScreensShown
  <2>1. \A c \in Calls : c \in Jobs
    BY DEF Jobs
  <2>2. \A c \in Calls : ~Running(c)
    BY <1>2, <1>3, <2>1 DEF Running, Outstanding
  <2> QED
    BY <1>2, <2>2 DEF ScreensShown, Shown
<1>5. WhiteKept /\ PromiseKept /\ HeartKept
  BY <1>2, <1>3 DEF WhiteKept, PromiseKept, HeartKept, Clearing, Jobs
<1> QED
  BY <1>1, <1>4, <1>5 DEF HeartInv

LEMMA NextHeartInv == HeartInv /\ [Next]_vars => HeartInv'
BY NextWriteInv, NextScreensShown, NextWhite, NextPromiseKept, NextHeart DEF HeartInv, WriteInv

\* At rest, the heart has its last colour and no call of the screen's product is
\* under way.
LEMMA HeartTold == HeartInv => HeartTellsTruth
<1> SUFFICES ASSUME HeartInv, NEW s \in informed, heart[s] \in {"white", "red"}, AtRest(s),
                    place[s].product \notin hurried, ~contended,
                    \A c \in Calls : caller[c] = s => c \notin denied /\ c \notin outdated
             PROVE  heart[s] = "red" <=> place[s].product \in Favs(node.fav)
  BY DEF HeartTellsTruth
<1>1. Settled(s)
  BY HeartForDef DEF HeartInv, HeartKept, Trusted, Shown
<1>2. ASSUME NEW c \in Calls, caller[c] = s, Settling(c)
      PROVE  FALSE
  BY <1>2 DEF AtRest, Settling, Clearing, Busy, Product
<1>3. Last(s) = heart[s]
  BY DEF Last, AtRest
<1> QED
  BY <1>1, <1>2, <1>3 DEF Settled, Agree

\* HeartTellsTruth for any number of screens, devices, calls and publications: the
\* colour of a heart at rest, set by answers that cross on the main queue and the
\* connection, tells whether the product is among the account's favourites.
THEOREM HeartCorrect == Spec => []HeartTellsTruth
<1>1. Spec => []HeartInv
  BY InitHeartInv, NextHeartInv, PTL DEF Spec
<1> QED
  BY <1>1, HeartTold, PTL
=============================================================================
