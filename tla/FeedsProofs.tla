----------------------------- MODULE FeedsProofs -----------------------------
(***************************************************************************)
(* Proofs about the screens that follow a list, for any number of           *)
(* products, accounts, values, appearances and searches.                    *)
(***************************************************************************)
EXTENDS Feeds, TLAPS

\* A block with a value of its list is due for subscription i.
EventDue(i, k) == due[k].kind = "event" /\ due[k].sub = i

\* Block k can change what the screen shows; block j takes effect after it does.
Fills(k)     == due[k].kind = "event" => subs[due[k].sub].to = "screen"
Behind(j, k) == \/ due[j].kind = due[k].kind /\ j > k
                \/ due[k].kind = "show" /\ due[j].kind = "event"

\* The n-th value is not newer than the m-th, if they are of one list.
Older(n, m) == SameList(n, m) => n <= m

\* The values of a list take effect in their order.
DueInOrder ==
    /\ \A k \in DOMAIN due : Older(shown, due[k].value)
    /\ \A j, k \in DOMAIN due : Behind(j, k) => Older(due[k].value, due[j].value)
    /\ screen = "favorites" => \A k \in DOMAIN due : due[k].kind = "event"

\* Events bring a subscription only values of its list that it could see when it
\* was made, or came since; and it ends by something that is no list.
EventsAreNew ==
    /\ \A k \in DOMAIN due : due[k].kind = "event" =>
          values[due[k].value].list = subs[due[k].sub].list /\ ~Past(due[k].sub, due[k].value)
    /\ \A i \in DOMAIN subs : subs[i].since <= Len(values)
    /\ \A i \in DOMAIN subs : Unbroken(i) => subs[i].open

\* Searches are on Home, and follow its list.
SearchesAtHome ==
    \A i \in DOMAIN subs : subs[i].to = "search" => screen = "home" /\ subs[i].list = ProductsNode

\* What NewestAtRest needs: behind the newest value of the last subscription's
\* list, shown or due, no other is due for the screen.
NewestIsLast ==
    \A i \in 1..joined, n \in DOMAIN values :
        Last(i, "screen") /\ Unbroken(i) /\ Alone(i) /\ Has(subs[i].list, n) =>
            \/ shown = n /\ \A j \in DOMAIN due : Fills(j) => due[j].value = n
            \/ \E k \in DOMAIN due :
                  /\ due[k].value = n /\ (due[k].kind = "show" \/ EventDue(i, k))
                  /\ \A j \in DOMAIN due : Fills(j) /\ Behind(j, k) => due[j].value = n

\* What ResultsOfLastSearch needs: the newest value is due for the last search
\* behind all that is due for others, or is what its results are of.
LastSearchIsLast ==
    \A i \in 1..joined, n \in DOMAIN values :
        Last(i, "search") /\ Unbroken(i) /\ Has(subs[i].list, n) =>
            \/ /\ found = values[n].content \cap subs[i].text
               /\ \A k \in DOMAIN due : Fills(k)
            \/ \E k \in DOMAIN due :
                  /\ due[k].value = n /\ EventDue(i, k)
                  /\ \A j \in DOMAIN due : j > k => Fills(j)

FeedInv ==
    /\ FeedTypeOK /\ DueInOrder /\ EventsAreNew /\ SearchesAtHome
    /\ NewestIsLast /\ LastSearchIsLast /\ CellsMatch

-----------------------------------------------------------------------------
(* Lemmas about the queue and the subscriptions *)

\* What the type invariant says of the sequences, element by element.
LEMMA Elements ==
    ASSUME FeedTypeOK
    PROVE  /\ Len(due) \in Nat /\ DOMAIN due = 1..Len(due)
           /\ Len(subs) \in Nat /\ DOMAIN subs = 1..Len(subs)
           /\ Len(values) \in Nat /\ DOMAIN values = 1..Len(values)
           /\ \A k \in DOMAIN due : /\ due[k] \in Blocks
                                    /\ due[k].kind \in {"event", "show"}
                                    /\ due[k].sub \in DOMAIN subs /\ due[k].sub \in 1..joined
                                    /\ due[k].value \in DOMAIN values /\ due[k].value \in Nat
           /\ \A i \in DOMAIN subs : /\ subs[i] \in Subscriptions
                                     /\ subs[i].since \in Nat
                                     /\ subs[i].to \in {"screen", "search"}
           /\ \A n \in DOMAIN values :
                 values[n] \in Values /\ values[n].content \in SUBSET Products
           /\ joined \in Nat /\ joined <= Len(subs) /\ shown \in Nat /\ shown <= Len(values)
<1>1. due \in Seq(Blocks) /\ subs \in Seq(Subscriptions) /\ values \in Seq(Values)
  BY DEF FeedTypeOK
<1>2. \A k \in DOMAIN due : due[k] \in Blocks
  BY <1>1
<1>3. \A i \in DOMAIN subs : subs[i] \in Subscriptions
  BY <1>1
<1>4. \A n \in DOMAIN values : values[n] \in Values /\ values[n].content \in SUBSET Products
  <2>1. \A n \in DOMAIN values : values[n] \in Values
    BY <1>1
  <2> QED
    BY <2>1 DEF Values, Contents
<1>5. /\ Len(due) \in Nat /\ DOMAIN due = 1..Len(due)
      /\ Len(subs) \in Nat /\ DOMAIN subs = 1..Len(subs)
      /\ Len(values) \in Nat /\ DOMAIN values = 1..Len(values)
  BY <1>1
<1>6. joined \in Nat /\ joined <= Len(subs) /\ shown \in Nat /\ shown <= Len(values)
  BY <1>5 DEF FeedTypeOK
<1>7. \A i \in DOMAIN subs : subs[i].since \in Nat /\ subs[i].to \in {"screen", "search"}
  BY <1>3, FeedsAssumption DEF Subscriptions
<1>8. ASSUME NEW k \in DOMAIN due
      PROVE  /\ due[k].kind \in {"event", "show"} /\ due[k].sub \in 1..joined
             /\ due[k].sub \in DOMAIN subs /\ due[k].value \in DOMAIN values
             /\ due[k].value \in Nat
  <2>1. due[k].kind \in {"event", "show"} /\ due[k].sub \in 1..MaxSubscriptions
        /\ due[k].value \in 1..MaxValues
    BY <1>2 DEF Blocks
  <2>2. due[k].sub <= joined /\ due[k].value <= Len(values)
    BY DEF FeedTypeOK
  <2> QED
    BY <1>5, <1>6, <2>1, <2>2, FeedsAssumption
<1> QED
  BY <1>2, <1>3, <1>4, <1>5, <1>6, <1>7, <1>8

\* The oldest block is taken off: the others move up by one.
LEMMA Popped ==
    ASSUME FeedTypeOK, due # <<>>, Take(1, <<>>)
    PROVE  /\ 1 \in DOMAIN due
           /\ due' \in Seq(Blocks) /\ DOMAIN due' = 1..(Len(due) - 1)
           /\ \A k \in DOMAIN due' : k + 1 \in DOMAIN due /\ due'[k] = due[k + 1]
           /\ \A k \in DOMAIN due : k # 1 => k - 1 \in DOMAIN due' /\ due'[k - 1] = due[k]
<1>1. due \in Seq(Blocks) /\ Len(due) \in Nat \ {0} /\ DOMAIN due = 1..Len(due)
  BY DEF FeedTypeOK
<1>2. due' = SubSeq(due, 1, 0) \o SubSeq(due, 2, Len(due)) \o <<>>
  BY <1>1 DEF Take
<1>3. due' = SubSeq(due, 2, Len(due))
  <2>1. SubSeq(due, 1, 0) = <<>>
    BY <1>1
  <2>2. SubSeq(due, 2, Len(due)) \in Seq(Blocks)
    BY <1>1
  <2> QED
    BY <1>2, <2>1, <2>2
<1> QED
  BY <1>1, <1>3

\* The same with a nested block put at the end.
LEMMA PoppedPushed ==
    ASSUME FeedTypeOK, due # <<>>, NEW b \in Blocks, Take(1, <<b>>)
    PROVE  /\ 1 \in DOMAIN due
           /\ due' \in Seq(Blocks) /\ DOMAIN due' = DOMAIN due
           /\ Len(due) \in DOMAIN due /\ due'[Len(due)] = b
           /\ \A k \in DOMAIN due' : k # Len(due) => k + 1 \in DOMAIN due /\ due'[k] = due[k + 1]
           /\ \A k \in DOMAIN due : k # 1 =>
                 k - 1 \in DOMAIN due' /\ due'[k - 1] = due[k] /\ k - 1 # Len(due)
<1>1. due \in Seq(Blocks) /\ Len(due) \in Nat \ {0} /\ DOMAIN due = 1..Len(due)
  BY DEF FeedTypeOK
<1> DEFINE rest == SubSeq(due, 2, Len(due))
<1>2. /\ rest \in Seq(Blocks) /\ Len(rest) = Len(due) - 1
      /\ \A k \in 1..(Len(due) - 1) : rest[k] = due[k + 1]
  BY <1>1
<1>3. due' = rest \o <<b>>
  <2>1. due' = (SubSeq(due, 1, 1 - 1) \o SubSeq(due, 1 + 1, Len(due))) \o <<b>>
    BY Zenon DEF Take
  <2>2. SubSeq(due, 1, 1 - 1) = <<>> /\ SubSeq(due, 1 + 1, Len(due)) = rest
    BY <1>1
  <2>3. <<>> \o rest = rest
    BY <1>2
  <2> QED
    BY <2>1, <2>2, <2>3, Zenon
<1> HIDE DEF rest
<1>4. due' = Append(rest, b)
  BY <1>2, <1>3
<1>5. due' \in Seq(Blocks) /\ Len(due') = Len(due) /\ DOMAIN due' = 1..Len(due)
  <2>1. due' \in Seq(Blocks)
    BY <1>2, <1>4
  <2>2. Len(due') = Len(rest) + 1
    BY <1>2, <1>4
  <2>3. DOMAIN due' = 1..Len(due')
    BY <2>1
  <2> QED
    BY <1>1, <1>2, <2>1, <2>2, <2>3
<1>6. due'[Len(due)] = b
  BY <1>1, <1>2, <1>4
<1>7. \A k \in 1..(Len(due) - 1) : due'[k] = due[k + 1]
  BY <1>1, <1>2, <1>4
<1> QED
  BY <1>1, <1>5, <1>6, <1>7

\* Subscriptions that agree in what they feed, their list and their time agree in
\* what follows from these, as long as there is no new value.
LEMMA SameSubscription ==
    ASSUME NEW i, values' = values,
           subs'[i].list = subs[i].list, subs'[i].since = subs[i].since
    PROVE  /\ Unbroken(i)' <=> Unbroken(i)
           /\ Alone(i)' <=> Alone(i)
           /\ \A n : Past(i, n)' <=> Past(i, n)
           /\ \A n : Has(subs[i].list, n)' <=> Has(subs[i].list, n)
<1>1. \A n : Past(i, n)' <=> Past(i, n)
  BY DEF Past
<1> QED
  BY <1>1 DEF Unbroken, Alone, Has

\* An event marks its subscription as answered, or ended, and changes no more.
LEMMA AnsweredOnly ==
    ASSUME FeedTypeOK, NEW s \in DOMAIN subs, NEW open \in BOOLEAN, Answered(s, open)
    PROVE  /\ subs' \in Seq(Subscriptions) /\ DOMAIN subs' = DOMAIN subs /\ Len(subs') = Len(subs)
           /\ \A i \in DOMAIN subs :
                 /\ subs'[i].to = subs[i].to /\ subs'[i].text = subs[i].text
                 /\ subs'[i].since = subs[i].since /\ subs'[i].list = subs[i].list
                 /\ i # s => subs'[i] = subs[i]
           /\ subs'[s].open = open /\ subs'[s].answered = TRUE
<1>1. subs \in Seq(Subscriptions) /\ DOMAIN subs = 1..Len(subs) /\ Len(subs) \in Nat
  BY DEF FeedTypeOK
<1>2. subs' = [subs EXCEPT ![s] = [subs[s] EXCEPT !.answered = TRUE, !.open = open]]
  BY <1>1 DEF Answered
<1>3. subs[s] \in Subscriptions
  BY <1>1
<1>4. [subs[s] EXCEPT !.answered = TRUE, !.open = open] \in Subscriptions
  BY <1>3 DEF Subscriptions
<1>5. /\ subs' \in Seq(Subscriptions) /\ DOMAIN subs' = DOMAIN subs /\ Len(subs') = Len(subs)
      /\ \A i \in DOMAIN subs : i # s => subs'[i] = subs[i]
  BY <1>1, <1>2, <1>4
<1>6. /\ subs'[s].to = subs[s].to /\ subs'[s].text = subs[s].text
      /\ subs'[s].since = subs[s].since /\ subs'[s].list = subs[s].list
      /\ subs'[s].open = open /\ subs'[s].answered = TRUE
  BY <1>1, <1>2, <1>3 DEF Subscriptions
<1> QED
  BY <1>5, <1>6

-----------------------------------------------------------------------------
(* The blocks of the main queue *)

\* What every block leaves alone, and what its first element is like.
LEMMA Oldest ==
    ASSUME FeedInv, Run
    PROVE  /\ RunBlock(1) /\ due # <<>> /\ 1 \in DOMAIN due
           /\ UNCHANGED <<screen, values, joined>>
           /\ due[1] \in Blocks /\ due[1].sub \in DOMAIN subs
<1>1. due # <<>> /\ RunBlock(1)
  BY DEF Run
<1>2. 1 \in DOMAIN due
  BY <1>1 DEF FeedInv, FeedTypeOK
<1> QED
  BY <1>1, <1>2, Elements DEF RunBlock, FeedInv

\* A subscription that has ended was broken by a value since it was made.
LEMMA EndedIsBroken ==
    ASSUME FeedInv, NEW i \in DOMAIN subs, ~subs[i].open
    PROVE  ~Unbroken(i)
BY DEF FeedInv, EventsAreNew

\* The order of the queue, when the oldest block is taken off: if it sets what
\* the screen shows, nothing older is left.
LEMMA PoppedInOrder ==
    ASSUME FeedTypeOK, DueInOrder, due # <<>>, Take(1, <<>>), screen' = screen, values' = values,
           \/ shown' = shown
           \/ shown' = due[1].value /\ (due[1].kind = "show" \/ screen = "favorites")
    PROVE  DueInOrder'
<1>1. ASSUME NEW k \in DOMAIN due' PROVE Older(shown, due[k].value)'
  <2>1. k + 1 \in DOMAIN due /\ due'[k] = due[k + 1] /\ 1 \in DOMAIN due
    BY <1>1, Popped
  <2>2. CASE shown' = shown
    BY <2>1, <2>2 DEF DueInOrder, Older, SameList
  <2>3. CASE shown' = due[1].value /\ (due[1].kind = "show" \/ screen = "favorites")
    <3>1. 1 < k + 1
      BY <1>1, Popped
    <3>2. due[k + 1].kind \in {"event", "show"}
      BY <2>1, Elements
    <3>3. Behind(k + 1, 1)
      BY <2>1, <2>3, <3>1, <3>2 DEF DueInOrder, Behind
    <3>4. Older(due[1].value, due[k + 1].value)
      BY <2>1, <3>3 DEF DueInOrder
    <3> QED
      BY <2>1, <2>3, <3>4 DEF Older, SameList
  <2> QED
    BY <2>2, <2>3
<1>2. ASSUME NEW j \in DOMAIN due', NEW k \in DOMAIN due', Behind(j, k)'
      PROVE  Older(due[k].value, due[j].value)'
  <2>1. /\ j + 1 \in DOMAIN due /\ due'[j] = due[j + 1]
        /\ k + 1 \in DOMAIN due /\ due'[k] = due[k + 1]
        /\ j > k => j + 1 > k + 1
    BY <1>2, Popped, Elements
  <2>2. Behind(j + 1, k + 1)
    BY <1>2, <2>1 DEF Behind
  <2>3. Older(due[k + 1].value, due[j + 1].value)
    BY <2>1, <2>2 DEF DueInOrder
  <2> QED
    BY <2>1, <2>3 DEF Older, SameList
<1>3. screen' = "favorites" => \A i \in DOMAIN due' : due'[i].kind = "event"
  BY Popped DEF DueInOrder
<1> QED
  BY <1>1, <1>2, <1>3 DEF DueInOrder

\* The order of the queue, when the oldest event nests a block to show its value.
LEMMA PushedInOrder ==
    ASSUME FeedTypeOK, DueInOrder, due # <<>>, due[1].kind = "event",
           Take(1, << [due[1] EXCEPT !.kind = "show"] >>),
           screen' = screen, screen # "favorites", shown' = shown, values' = values
    PROVE  DueInOrder'
<1> DEFINE b == [due[1] EXCEPT !.kind = "show"]
<1>1. /\ 1 \in DOMAIN due /\ due[1] \in Blocks /\ due[1].value \in Nat
      /\ Len(due) \in Nat /\ DOMAIN due = 1..Len(due)
  BY Elements DEF FeedTypeOK
<1>2. b \in Blocks /\ b.kind = "show" /\ b.value = due[1].value
  BY <1>1 DEF Blocks
<1> HIDE DEF b
<1>3. Take(1, <<b>>)
  BY DEF b
<1>4. /\ DOMAIN due' = DOMAIN due /\ Len(due) \in DOMAIN due /\ due'[Len(due)] = b
      /\ \A k \in DOMAIN due' : k # Len(due) => k + 1 \in DOMAIN due /\ due'[k] = due[k + 1]
  BY <1>2, <1>3, PoppedPushed
<1>5. ASSUME NEW k \in DOMAIN due' PROVE Older(shown, due[k].value)'
  <2>1. Older(shown, due'[k].value)
    BY <1>1, <1>2, <1>4 DEF DueInOrder
  <2> QED
    BY <2>1 DEF Older, SameList
<1>6. ASSUME NEW k \in DOMAIN due, k # 1
      PROVE  /\ due[k].kind = "event" => Older(b.value, due[k].value)
             /\ due[k].kind = "show" => Older(due[k].value, b.value)
  <2>1. k > 1
    BY <1>1, <1>6
  <2>2. /\ due[k].kind = "event" => Behind(k, 1)
        /\ due[k].kind = "show" => Behind(1, k)
    BY <2>1 DEF Behind
  <2> QED
    BY <1>1, <1>2, <2>2 DEF DueInOrder
<1>7. ASSUME NEW j \in DOMAIN due', NEW k \in DOMAIN due', Behind(j, k)'
      PROVE  Older(due'[k].value, due'[j].value)
  <2>1. CASE k # Len(due) /\ j # Len(due)
    <3>1. /\ k + 1 \in DOMAIN due /\ due'[k] = due[k + 1]
          /\ j + 1 \in DOMAIN due /\ due'[j] = due[j + 1]
          /\ j > k => j + 1 > k + 1
      BY <1>1, <1>4, <2>1
    <3>2. Behind(j + 1, k + 1)
      BY <1>7, <3>1 DEF Behind
    <3> QED
      BY <3>1, <3>2 DEF DueInOrder
  <2>2. CASE k = Len(due) /\ j # Len(due)
    <3>1. j + 1 \in DOMAIN due /\ j + 1 # 1 /\ due'[j] = due[j + 1] /\ due'[k] = b /\ ~(j > k)
      BY <1>1, <1>4, <2>2
    <3>2. due[j + 1].kind = "event"
      BY <1>2, <1>7, <3>1 DEF Behind
    <3> QED
      BY <1>6, <3>1, <3>2
  <2>3. CASE k # Len(due) /\ j = Len(due)
    <3>1. k + 1 \in DOMAIN due /\ k + 1 # 1 /\ due'[k] = due[k + 1] /\ due'[j] = b
      BY <1>1, <1>4, <2>3
    <3>2. due[k + 1].kind = "show"
      BY <1>2, <1>7, <3>1 DEF Behind
    <3> QED
      BY <1>6, <3>1, <3>2
  <2>4. CASE k = Len(due) /\ j = Len(due)
    BY <1>1, <1>2, <1>4, <2>4 DEF Older
  <2> QED
    BY <2>1, <2>2, <2>3, <2>4
<1>8. ASSUME NEW j \in DOMAIN due', NEW k \in DOMAIN due', Behind(j, k)'
      PROVE  Older(due[k].value, due[j].value)'
  <2>1. Older(due'[k].value, due'[j].value)
    BY <1>7, <1>8
  <2> QED
    BY <2>1 DEF Older, SameList
<1> QED
  BY <1>5, <1>8 DEF DueInOrder

\* What a block does to the queue: it is taken off, and only a screen's event on
\* Home or My Products nests another.
LEMMA RunQueue ==
    ASSUME FeedInv, Run
    PROVE  \/ Take(1, <<>>)
           \/ /\ Take(1, << [due[1] EXCEPT !.kind = "show"] >>)
              /\ [due[1] EXCEPT !.kind = "show"] \in Blocks
              /\ due[1].kind = "event" /\ subs[due[1].sub].to = "screen"
              /\ screen # "favorites" /\ UNCHANGED <<shown, found>>
<1>1. [due[1] EXCEPT !.kind = "show"] \in Blocks
  BY Oldest DEF Blocks
<1> QED
  BY <1>1, Oldest DEF RunBlock, Ignored, Error, FeedScreen, FedScreen, Show, FeedSearch, FedSearch

\* The blocks there are after one has run: older ones moved up, or one nested.
LEMMA RunBlocks ==
    ASSUME FeedInv, Run
    PROVE  /\ due' \in Seq(Blocks)
           /\ \A k \in DOMAIN due' :
                 \/ k + 1 \in DOMAIN due /\ due'[k] = due[k + 1]
                 \/ /\ due'[k] = [due[1] EXCEPT !.kind = "show"]
                    /\ due'[k].kind = "show" /\ due'[k].value = due[1].value
                    /\ due'[k].sub = due[1].sub
           /\ \A k \in DOMAIN due : k # 1 => k - 1 \in DOMAIN due' /\ due'[k - 1] = due[k]
<1>1. CASE Take(1, <<>>)
  BY <1>1, Oldest, Popped DEF FeedInv
<1>2. CASE /\ Take(1, << [due[1] EXCEPT !.kind = "show"] >>)
           /\ [due[1] EXCEPT !.kind = "show"] \in Blocks
  <2> DEFINE b == [due[1] EXCEPT !.kind = "show"]
  <2>1. b \in Blocks /\ b.kind = "show" /\ b.value = due[1].value /\ b.sub = due[1].sub
    BY <1>2, Oldest DEF Blocks
  <2> HIDE DEF b
  <2>2. Take(1, <<b>>)
    BY <1>2 DEF b
  <2>3. /\ due' \in Seq(Blocks) /\ due'[Len(due)] = b
        /\ \A k \in DOMAIN due' : k # Len(due) => k + 1 \in DOMAIN due /\ due'[k] = due[k + 1]
        /\ \A k \in DOMAIN due : k # 1 => k - 1 \in DOMAIN due' /\ due'[k - 1] = due[k]
    BY <2>1, <2>2, Oldest, PoppedPushed DEF FeedInv
  <2>4. \A k \in DOMAIN due' : (k + 1 \in DOMAIN due /\ due'[k] = due[k + 1]) \/ due'[k] = b
    BY <2>3
  <2> QED
    BY <2>1, <2>3, <2>4 DEF b
<1> QED
  BY <1>1, <1>2, RunQueue

\* The subscriptions after a block: the oldest block's one is marked, at most.
LEMMA RunSubscriptions ==
    ASSUME FeedInv, Run
    PROVE  /\ subs' \in Seq(Subscriptions) /\ DOMAIN subs' = DOMAIN subs /\ Len(subs') = Len(subs)
           /\ \A i \in DOMAIN subs :
                 /\ subs'[i].to = subs[i].to /\ subs'[i].text = subs[i].text
                 /\ subs'[i].since = subs[i].since /\ subs'[i].list = subs[i].list
                 /\ Unbroken(i) => subs'[i].open
<1> DEFINE s == due[1].sub
<1>1. s \in DOMAIN subs /\ RunBlock(1)
  BY Oldest
<1>2. CASE subs' = subs
  <2>1. subs \in Seq(Subscriptions)
    BY DEF FeedInv, FeedTypeOK
  <2> QED
    BY <1>2, <2>1, EndedIsBroken
<1>3. CASE Answered(s, TRUE)
  <2>1. \A i \in DOMAIN subs : Unbroken(i) => subs'[i].open
    BY <1>1, <1>3, AnsweredOnly, EndedIsBroken DEF FeedInv
  <2> QED
    BY <1>1, <1>3, <2>1, AnsweredOnly DEF FeedInv
<1>4. CASE Error(1)
  <2>1. /\ Answered(s, FALSE) /\ due[1].kind = "event"
        /\ values[due[1].value].content = NotAList
    BY <1>4 DEF Error, Content
  <2>2. /\ due[1].value \in DOMAIN values /\ values[due[1].value].list = subs[s].list
        /\ ~Past(s, due[1].value)
    BY <2>1, Oldest, Elements DEF FeedInv, EventsAreNew
  <2>3. ~Unbroken(s)
    BY <2>1, <2>2 DEF Unbroken
  <2>4. \A i \in DOMAIN subs : Unbroken(i) => subs'[i].open
    BY <1>1, <2>1, <2>3, AnsweredOnly, EndedIsBroken DEF FeedInv
  <2> QED
    BY <1>1, <2>1, <2>4, AnsweredOnly DEF FeedInv
<1> QED
  BY <1>1, <1>2, <1>3, <1>4 DEF RunBlock, Ignored, FeedScreen, FedScreen, Show, FeedSearch, FedSearch

\* A block leaves what is said of subscriptions and values as it is.
LEMMA RunSays ==
    ASSUME FeedInv, Run, NEW i \in DOMAIN subs
    PROVE  /\ Unbroken(i)' <=> Unbroken(i)
           /\ Alone(i)' <=> Alone(i)
           /\ \A n : Past(i, n)' <=> Past(i, n)
           /\ \A n : Has(subs[i].list, n)' <=> Has(subs[i].list, n)
           /\ \A to : Last(i, to)' <=> Last(i, to)
<1>1. \A to : Last(i, to)' <=> Last(i, to)
  BY RunSubscriptions DEF Last
<1>2. /\ values' = values
      /\ subs'[i].list = subs[i].list /\ subs'[i].since = subs[i].since
  BY RunSubscriptions, Oldest
<1> QED
  BY <1>1, <1>2, SameSubscription

\* Of the blocks after one has run, those that moved up fill what they did, and
\* the nested one is the screen's.
LEMMA RunFills ==
    ASSUME FeedInv, Run, NEW k \in DOMAIN due'
    PROVE  \/ k + 1 \in DOMAIN due /\ due'[k] = due[k + 1] /\ (Fills(k)' <=> Fills(k + 1))
           \/ /\ due'[k].kind = "show" /\ due'[k].value = due[1].value /\ Fills(k)'
              /\ due[1].kind = "event" /\ Fills(1)
<1>1. CASE k + 1 \in DOMAIN due /\ due'[k] = due[k + 1]
  <2>1. due[k + 1].sub \in DOMAIN subs
    BY <1>1, Elements DEF FeedInv
  <2> QED
    BY <1>1, <2>1, RunSubscriptions DEF Fills
<1>2. CASE /\ ~(k + 1 \in DOMAIN due /\ due'[k] = due[k + 1])
           /\ due'[k].kind = "show" /\ due'[k].value = due[1].value
  <2>1. ~Take(1, <<>>)
    BY <1>2, Oldest, Popped DEF FeedInv
  <2>2. due[1].kind = "event" /\ subs[due[1].sub].to = "screen"
    BY <2>1, RunQueue
  <2> QED
    BY <1>2, <2>2 DEF Fills
<1> QED
  BY <1>1, <1>2, RunBlocks

\* What a block sets: the screen shows the value of the oldest block, or what it
\* did; results are the last value's, or what they were.
LEMMA RunShown ==
    ASSUME FeedInv, Run
    PROVE  /\ \/ shown' = shown
              \/ /\ shown' = due[1].value /\ (due[1].kind = "show" \/ screen = "favorites")
                 /\ Fills(1)
           /\ SameList(shown, shown') => shown' >= shown
           /\ shown' \in 0..Len(values)
           /\ found' \in SUBSET Products /\ laid' \in SUBSET Products
           /\ (found' = found /\ laid' = laid) \/ found' = laid'
<1>1. \/ shown' = shown
      \/ /\ shown' = due[1].value /\ (due[1].kind = "show" \/ screen = "favorites")
         /\ Fills(1)
  BY Oldest DEF RunBlock, Ignored, Error, FeedScreen, FedScreen, Show, FeedSearch, FedSearch, Fills
<1>2. /\ due[1].value <= Len(values) /\ due[1].value \in Nat
      /\ shown \in Nat /\ shown <= Len(values) /\ Len(values) \in Nat
  BY Oldest, Elements DEF FeedInv
<1>3. SameList(shown, due[1].value) => shown <= due[1].value
  BY Oldest DEF FeedInv, DueInOrder, Older
<1>4. Matching(1) \in SUBSET Products
  BY Oldest, Elements DEF FeedInv, Matching, Content
<1>5. \/ found' = found /\ laid' = laid
      \/ found' = Matching(1) /\ laid' = Matching(1)
  BY Oldest DEF RunBlock, Ignored, Error, FeedScreen, FedScreen, Show, FeedSearch, FedSearch
<1>6. SameList(shown, shown') => shown' >= shown
  BY <1>1, <1>2, <1>3
<1> QED
  BY <1>1, <1>2, <1>4, <1>5, <1>6 DEF FeedInv, FeedTypeOK

\* Typing.
LEMMA RunTyped == ASSUME FeedInv, Run PROVE FeedTypeOK'
<1>1. UNCHANGED <<screen, values, joined>>
  BY Oldest
<1>2. \A k \in DOMAIN due' : due'[k].sub <= joined /\ due'[k].value <= Len(values)
  BY Oldest, RunBlocks DEF FeedInv, FeedTypeOK
<1> QED
  BY <1>1, <1>2, RunBlocks, RunSubscriptions, RunShown DEF FeedInv, FeedTypeOK

\* The order of the queue.
LEMMA RunInOrder == ASSUME FeedInv, Run PROVE DueInOrder'
<1>1. CASE Take(1, <<>>)
  BY <1>1, Oldest, RunShown, PoppedInOrder DEF FeedInv
<1>2. CASE /\ Take(1, << [due[1] EXCEPT !.kind = "show"] >>)
           /\ due[1].kind = "event" /\ screen # "favorites" /\ shown' = shown
  BY <1>2, Oldest, PushedInOrder DEF FeedInv
<1> QED
  BY <1>1, <1>2, RunQueue

\* Events stay new, and searches where they are.
LEMMA RunEventsNew == ASSUME FeedInv, Run PROVE EventsAreNew' /\ SearchesAtHome'
<1>1. ASSUME NEW k \in DOMAIN due', due'[k].kind = "event"
      PROVE  /\ values'[due'[k].value].list = subs'[due'[k].sub].list
             /\ ~Past(due[k].sub, due[k].value)'
  <2>1. k + 1 \in DOMAIN due /\ due'[k] = due[k + 1]
    BY <1>1, RunBlocks
  <2>2. due[k + 1].sub \in DOMAIN subs
    BY <2>1, Elements DEF FeedInv
  <2>3. /\ values[due[k + 1].value].list = subs[due[k + 1].sub].list
        /\ ~Past(due[k + 1].sub, due[k + 1].value)
    BY <1>1, <2>1 DEF FeedInv, EventsAreNew
  <2> QED
    BY <2>1, <2>2, <2>3, RunSubscriptions, Oldest DEF Past
<1>2. \A i \in DOMAIN subs' : Unbroken(i)' => subs'[i].open
  BY RunSubscriptions, RunSays
<1>3. \A i \in DOMAIN subs' : subs'[i].since <= Len(values')
  BY Oldest, RunSubscriptions DEF FeedInv, EventsAreNew
<1>4. SearchesAtHome'
  BY Oldest, RunSubscriptions DEF FeedInv, SearchesAtHome
<1> QED
  BY <1>1, <1>2, <1>3, <1>4 DEF EventsAreNew

\* The event of a subscription that has not ended is passed on.
LEMMA EventIsFed ==
    ASSUME FeedInv, Run, NEW i \in DOMAIN subs, Unbroken(i), due[1].kind = "event", due[1].sub = i
    PROVE  /\ subs[i].to = "screen" => FeedScreen(1)
           /\ subs[i].to = "search" => FeedSearch(1)
<1>1. subs[i].open
  BY DEF FeedInv, EventsAreNew
<1>2. /\ due[1].value \in DOMAIN values /\ values[due[1].value].list = subs[i].list
      /\ ~Past(i, due[1].value)
  BY Oldest, Elements DEF FeedInv, EventsAreNew
<1>3. Content(1) # NotAList
  BY <1>2 DEF Unbroken, Content
<1> QED
  BY <1>1, <1>3, Oldest DEF RunBlock, Ignored, Error, Show, FeedScreen, FedScreen, FeedSearch, FedSearch

\* The last subscription's newest value stays last until it is shown, and then.
LEMMA RunNewest == ASSUME FeedInv, Run PROVE NewestIsLast'
<1> SUFFICES ASSUME NEW i \in 1..joined, NEW n \in DOMAIN values,
                    Last(i, "screen"), Unbroken(i), Alone(i), Has(subs[i].list, n)
             PROVE  \/ shown' = n /\ \A j \in DOMAIN due' : Fills(j)' => due'[j].value = n
                    \/ \E k \in DOMAIN due' :
                          /\ due'[k].value = n /\ (due'[k].kind = "show" \/ EventDue(i, k)')
                          /\ \A j \in DOMAIN due' : Fills(j)' /\ Behind(j, k)' => due'[j].value = n
  <2>1. 1..joined \subseteq DOMAIN subs
    BY Elements DEF FeedInv
  <2> QED
    BY <2>1, Oldest, RunSubscriptions, RunSays DEF NewestIsLast
<1>1. i \in DOMAIN subs /\ subs[i].to = "screen"
  BY DEF Last
<1>2. CASE shown = n /\ \A j \in DOMAIN due : Fills(j) => due[j].value = n
  <2>1. shown' = n
    BY <1>2, Oldest, RunShown
  <2>2. \A j \in DOMAIN due' : Fills(j)' => due'[j].value = n
    BY <1>2, Oldest, RunFills
  <2> QED
    BY <2>1, <2>2
<1>3. CASE \E k \in DOMAIN due :
              /\ due[k].value = n /\ (due[k].kind = "show" \/ EventDue(i, k))
              /\ \A j \in DOMAIN due : Fills(j) /\ Behind(j, k) => due[j].value = n
  <2>1. PICK k \in DOMAIN due :
              /\ due[k].value = n /\ (due[k].kind = "show" \/ EventDue(i, k))
              /\ \A j \in DOMAIN due : Fills(j) /\ Behind(j, k) => due[j].value = n
    BY <1>3
  <2>2. k \in Nat /\ DOMAIN due = 1..Len(due) /\ Len(due) \in Nat
    BY Elements DEF FeedInv
  <2>3. CASE k # 1
    <3>1. k - 1 \in DOMAIN due' /\ due'[k - 1] = due[k]
      BY <2>3, RunBlocks
    <3>2. ASSUME NEW j \in DOMAIN due', Fills(j)', Behind(j, k - 1)' PROVE due'[j].value = n
      <4>1. j \in Nat
        BY RunBlocks
      <4>2. CASE k + 0 = k /\ j + 1 \in DOMAIN due /\ due'[j] = due[j + 1] /\ (Fills(j)' <=> Fills(j + 1))
        <5>1. Behind(j + 1, k)
          BY <2>2, <3>1, <3>2, <4>1, <4>2 DEF Behind
        <5> QED
          BY <2>1, <3>2, <4>2, <5>1
      <4>3. CASE /\ due'[j].kind = "show" /\ due'[j].value = due[1].value
                 /\ due[1].kind = "event" /\ Fills(1)
        <5>1. due[k].kind = "show"
          BY <3>1, <3>2, <4>3, Elements DEF FeedInv, Behind
        <5>2. Behind(1, k) /\ 1 \in DOMAIN due
          BY <4>3, <5>1, Oldest DEF Behind
        <5> QED
          BY <2>1, <4>3, <5>2
      <4> QED
        BY <2>2, <4>2, <4>3, RunFills
    <3> QED
      BY <2>1, <3>1, <3>2 DEF EventDue
  <2>4. CASE k = 1 /\ due[1].kind = "show"
    <3>1. shown' = n /\ Take(1, <<>>)
      BY <2>1, <2>4, Oldest DEF RunBlock, Ignored, Error, FeedScreen, FedScreen, Show, FeedSearch, FedSearch
    <3>2. ASSUME NEW j \in DOMAIN due', Fills(j)' PROVE due'[j].value = n
      <4>1. /\ j + 1 \in DOMAIN due /\ due'[j] = due[j + 1] /\ Fills(j + 1)
        BY <2>4, <3>2, RunFills
      <4>2. j + 1 > 1 /\ due[j + 1].kind \in {"event", "show"}
        BY <2>2, <4>1, RunBlocks, Elements DEF FeedInv
      <4>3. Behind(j + 1, 1)
        BY <2>4, <4>2 DEF Behind
      <4> QED
        BY <2>1, <2>4, <4>1, <4>3
    <3> QED
      BY <3>1, <3>2
  <2>5. CASE k = 1 /\ due[1].kind = "event" /\ due[1].sub = i
    <3>1. FeedScreen(1)
      BY <1>1, <2>5, EventIsFed
    <3>2. \A j \in DOMAIN due : j # 1 /\ due[j].kind = "event" /\ Fills(j) => due[j].value = n
      <4>1. \A j \in DOMAIN due : j # 1 /\ due[j].kind = "event" => Behind(j, 1)
        BY <2>2, <2>5 DEF Behind
      <4> QED
        BY <2>1, <2>5, <4>1
    <3>3. CASE screen = "favorites"
      <4>1. shown' = n /\ Take(1, <<>>)
        BY <2>1, <2>5, <3>1, <3>3 DEF FeedScreen, FedScreen
      <4>2. ASSUME NEW j \in DOMAIN due', Fills(j)' PROVE due'[j].value = n
        <5>1. j + 1 \in DOMAIN due /\ due'[j] = due[j + 1] /\ j + 1 # 1
          BY <4>1, Oldest, Popped DEF FeedInv
        <5>2. due[j + 1].kind = "event"
          BY <3>3, <5>1 DEF FeedInv, DueInOrder
        <5>3. Fills(j + 1)
          BY <4>2, <5>1, <5>2, RunFills
        <5> QED
          BY <3>2, <5>1, <5>2, <5>3
      <4> QED
        BY <4>1, <4>2
    <3>4. CASE screen # "favorites"
      <4> DEFINE b == [due[1] EXCEPT !.kind = "show"]
      <4>1. b \in Blocks /\ b.kind = "show" /\ b.value = due[1].value
        BY Oldest DEF Blocks
      <4> HIDE DEF b
      <4>2. Take(1, <<b>>)
        BY <3>1, <3>4 DEF FeedScreen, FedScreen, b
      <4>3. /\ Len(due) \in DOMAIN due' /\ due'[Len(due)] = b /\ DOMAIN due' = DOMAIN due
            /\ \A j \in DOMAIN due' : j # Len(due) => j + 1 \in DOMAIN due /\ due'[j] = due[j + 1]
        BY <4>1, <4>2, Oldest, PoppedPushed DEF FeedInv
      <4>4. ASSUME NEW j \in DOMAIN due', Fills(j)', Behind(j, Len(due))' PROVE due'[j].value = n
        <5>1. j # Len(due) /\ due'[j].kind = "event"
          BY <2>2, <4>1, <4>3, <4>4 DEF Behind
        <5>2. j + 1 \in DOMAIN due /\ due'[j] = due[j + 1] /\ j + 1 # 1
          BY <2>2, <4>3, <5>1
        <5>3. Fills(j + 1)
          BY <4>4, <5>1, <5>2, RunFills
        <5> QED
          BY <3>2, <5>1, <5>2, <5>3
      <4> QED
        BY <2>1, <2>5, <4>1, <4>3, <4>4
    <3> QED
      BY <3>3, <3>4
  <2> QED
    BY <2>1, <2>3, <2>4, <2>5 DEF EventDue
<1> QED
  BY <1>2, <1>3 DEF FeedInv, NewestIsLast

\* The last search's newest value stays last until its results are loaded.
LEMMA RunSearchLast == ASSUME FeedInv, Run PROVE LastSearchIsLast'
<1> SUFFICES ASSUME NEW i \in 1..joined, NEW n \in DOMAIN values,
                    Last(i, "search"), Unbroken(i), Has(subs[i].list, n)
             PROVE  \/ /\ found' = values[n].content \cap subs[i].text
                       /\ \A k \in DOMAIN due' : Fills(k)'
                    \/ \E k \in DOMAIN due' :
                          /\ due'[k].value = n /\ EventDue(i, k)'
                          /\ \A j \in DOMAIN due' : j > k => Fills(j)'
  <2>1. 1..joined \subseteq DOMAIN subs
    BY Elements DEF FeedInv
  <2> QED
    BY <2>1, Oldest, RunSubscriptions, RunSays DEF LastSearchIsLast
<1>1. i \in DOMAIN subs /\ subs[i].to = "search"
  BY DEF Last
<1>2. CASE /\ found = values[n].content \cap subs[i].text
           /\ \A k \in DOMAIN due : Fills(k)
  <2>1. \A k \in DOMAIN due' : Fills(k)'
    BY <1>2, RunFills
  <2>2. found' = found
    <3>1. Fills(1)
      BY <1>2, Oldest
    <3> QED
      BY <3>1, Oldest DEF RunBlock, Ignored, Error, FeedScreen, FedScreen, Show, FeedSearch, FedSearch, Fills
  <2> QED
    BY <1>2, <2>1, <2>2
<1>3. CASE \E k \in DOMAIN due :
              /\ due[k].value = n /\ EventDue(i, k)
              /\ \A j \in DOMAIN due : j > k => Fills(j)
  <2>1. PICK k \in DOMAIN due :
              /\ due[k].value = n /\ EventDue(i, k)
              /\ \A j \in DOMAIN due : j > k => Fills(j)
    BY <1>3
  <2>2. k \in Nat
    BY Elements DEF FeedInv
  <2>3. ASSUME NEW j \in DOMAIN due', j + 1 > k PROVE Fills(j)'
    BY <2>1, <2>3, RunFills
  <2>4. CASE k # 1
    <3>1. k - 1 \in DOMAIN due' /\ due'[k - 1] = due[k] /\ EventDue(i, k - 1)'
      BY <2>1, <2>4, RunBlocks DEF EventDue
    <3>2. \A j \in DOMAIN due' : j > k - 1 => Fills(j)'
      <4>1. DOMAIN due' \subseteq Nat
        BY RunBlocks
      <4> QED
        BY <2>2, <2>3, <4>1
    <3> QED
      BY <2>1, <3>1, <3>2
  <2>5. CASE k = 1
    <3>1. due[1].kind = "event" /\ due[1].sub = i /\ due[1].value = n
      BY <2>1, <2>5 DEF EventDue
    <3>2. FeedSearch(1)
      BY <1>1, <3>1, EventIsFed
    <3>3. found' = values[n].content \cap subs[i].text
      BY <3>1, <3>2 DEF FeedSearch, FedSearch, Matching, Content
    <3>4. \A j \in DOMAIN due' : Fills(j)'
      <4>1. \A j \in DOMAIN due' : j + 1 > 1
        BY RunBlocks
      <4> QED
        BY <2>3, <2>5, <4>1
    <3> QED
      BY <3>3, <3>4
  <2> QED
    BY <2>4, <2>5
<1> QED
  BY <1>2, <1>3 DEF FeedInv, LastSearchIsLast

\* The results and their view part only before an answer, or for an error.
LEMMA RunCells == ASSUME FeedInv, Run PROVE CellsMatch'
<1> SUFFICES ASSUME laid' # found'
             PROVE  \E i \in DOMAIN subs' : Last(i, "search")' /\ (~subs'[i].answered \/ ~subs'[i].open)
  BY DEF CellsMatch
<1>1. laid # found /\ laid' = laid /\ found' = found
  BY RunShown
<1>2. PICK i \in DOMAIN subs : Last(i, "search") /\ (~subs[i].answered \/ ~subs[i].open)
  BY <1>1 DEF FeedInv, CellsMatch
<1>3. DOMAIN subs' = DOMAIN subs /\ Last(i, "search")'
  BY <1>2, RunSubscriptions, RunSays
<1>4. CASE subs' = subs
  BY <1>2, <1>3, <1>4
<1>5. CASE Error(1)
  <2>1. Answered(due[1].sub, FALSE) /\ due[1].sub \in DOMAIN subs
    BY <1>5, Oldest DEF Error
  <2>2. ~subs'[i].answered \/ ~subs'[i].open
    BY <1>2, <2>1, AnsweredOnly DEF FeedInv
  <2> QED
    BY <1>3, <2>2
<1>6. CASE FeedScreen(1)
  <2>1. Answered(due[1].sub, TRUE) /\ due[1].sub \in DOMAIN subs /\ subs[due[1].sub].to = "screen"
    BY <1>6, Oldest DEF FeedScreen, FedScreen
  <2>2. subs'[i] = subs[i]
    BY <1>2, <2>1, AnsweredOnly DEF FeedInv, Last
  <2> QED
    BY <1>2, <1>3, <2>2
<1>7. CASE FeedSearch(1)
  BY <1>1, <1>7 DEF FeedSearch, FedSearch
<1> QED
  BY <1>4, <1>5, <1>6, <1>7, Oldest DEF RunBlock, Ignored, Show

LEMMA RunKeeps == ASSUME FeedInv, Run PROVE FeedInv'
BY RunTyped, RunInOrder, RunEventsNew, RunNewest, RunSearchLast, RunCells DEF FeedInv

-----------------------------------------------------------------------------
(* Subscriptions and values *)

\* A new subscription leaves the others as they are.
LEMMA SubscribedOnly ==
    ASSUME FeedTypeOK, NEW to \in {"screen", "search"}, NEW l \in Paths, NEW text \in SUBSET Products,
           Subscribed(to, l, text)
    PROVE  /\ subs' \in Seq(Subscriptions) /\ Len(subs') <= MaxSubscriptions
           /\ Len(subs') = Len(subs) + 1 /\ DOMAIN subs' = 1..(Len(subs) + 1)
           /\ \A i \in DOMAIN subs : i \in DOMAIN subs' /\ subs'[i] = subs[i]
           /\ subs'[Len(subs) + 1].to = to /\ subs'[Len(subs) + 1].open
           /\ ~subs'[Len(subs) + 1].answered
           /\ subs'[Len(subs) + 1].list = l
           /\ subs'[Len(subs) + 1].since = Len(values)
<1> DEFINE s == [to |-> to, list |-> l, text |-> text, since |-> Len(values),
                 open |-> TRUE, answered |-> FALSE]
<1>1. subs \in Seq(Subscriptions) /\ Len(subs) \in Nat /\ DOMAIN subs = 1..Len(subs)
  BY DEF FeedTypeOK
<1>2. s \in Subscriptions
  <2>1. Len(values) \in 0..MaxValues
    BY Elements, FeedsAssumption DEF FeedTypeOK
  <2>2. l \in {ProductsNode} \cup Lists
    BY DEF Paths
  <2> QED
    BY <2>1, <2>2 DEF Subscriptions
<1>3. /\ s.to = to /\ s.open = TRUE /\ s.answered = FALSE
      /\ s.list = l /\ s.since = Len(values)
  OBVIOUS
<1>4. subs' = Append(subs, s) /\ Len(subs) < MaxSubscriptions
  BY DEF Subscribed
<1> HIDE DEF s
<1>5. /\ subs' \in Seq(Subscriptions) /\ Len(subs') = Len(subs) + 1
      /\ subs'[Len(subs) + 1] = s
      /\ \A i \in DOMAIN subs : subs'[i] = subs[i]
  BY <1>1, <1>2, <1>4
<1>6. DOMAIN subs' = 1..(Len(subs) + 1) /\ Len(subs') <= MaxSubscriptions
  BY <1>1, <1>4, <1>5, FeedsAssumption
<1> QED
  BY <1>1, <1>3, <1>5, <1>6

\* An appearance or a search: what is not about the last subscription.
LEMMA SubscribedKeeps ==
    ASSUME FeedInv, NEW to \in {"screen", "search"}, NEW l \in Paths, NEW text \in SUBSET Products,
           Subscribed(to, l, text), UNCHANGED <<screen, values, joined, due, shown, laid>>,
           found' \in SUBSET Products, to = "search" => screen = "home"
    PROVE  FeedTypeOK' /\ DueInOrder' /\ EventsAreNew' /\ SearchesAtHome'
<1>1. FeedTypeOK /\ values' = values
  BY DEF FeedInv
<1>2. /\ Len(subs') = Len(subs) + 1 /\ DOMAIN subs' = 1..(Len(subs) + 1)
      /\ DOMAIN subs = 1..Len(subs) /\ Len(subs) \in Nat
      /\ \A i \in DOMAIN subs : subs'[i] = subs[i]
      /\ subs'[Len(subs) + 1].open /\ subs'[Len(subs) + 1].since = Len(values)
      /\ subs'[Len(subs) + 1].to = to /\ subs'[Len(subs) + 1].list = l
  BY <1>1, SubscribedOnly, Elements
<1>3. FeedTypeOK'
  <2>1. joined' \in 0..Len(subs')
    BY <1>1, <1>2, Elements
  <2> QED
    BY <1>1, <2>1, SubscribedOnly DEF FeedTypeOK
<1>4. DueInOrder'
  BY DEF FeedInv, DueInOrder, Behind, Older, SameList
<1>5. EventsAreNew'
  <2>1. \A k \in DOMAIN due : due[k].sub \in DOMAIN subs
    BY <1>1, Elements
  <2>2. \A i \in DOMAIN subs' : i \in DOMAIN subs \/ i = Len(subs) + 1
    BY <1>2
  <2>3. ASSUME NEW i \in DOMAIN subs
        PROVE  (Unbroken(i)' <=> Unbroken(i)) /\ \A n : Past(i, n)' <=> Past(i, n)
    BY <1>1, <1>2, SameSubscription
  <2>4. \A i \in DOMAIN subs' : Unbroken(i)' => subs'[i].open
    BY <1>2, <2>2, <2>3 DEF FeedInv, EventsAreNew
  <2>5. \A i \in DOMAIN subs' : subs'[i].since <= Len(values')
    BY <1>1, <1>2, <2>2, Elements DEF FeedInv, EventsAreNew
  <2>6. ASSUME NEW k \in DOMAIN due', due'[k].kind = "event"
        PROVE  /\ values'[due'[k].value].list = subs'[due'[k].sub].list
               /\ ~Past(due[k].sub, due[k].value)'
    <3>1. k \in DOMAIN due /\ due' = due /\ due[k].sub \in DOMAIN subs
      BY <2>1, <2>6
    <3>2. values[due[k].value].list = subs[due[k].sub].list /\ ~Past(due[k].sub, due[k].value)
      BY <2>6, <3>1 DEF FeedInv, EventsAreNew
    <3> QED
      BY <1>1, <1>2, <3>1, <3>2 DEF Past
  <2> QED
    BY <2>4, <2>5, <2>6 DEF EventsAreNew
<1>6. SearchesAtHome'
  <2>1. \A i \in DOMAIN subs' : i \in DOMAIN subs \/ i = Len(subs) + 1
    BY <1>2
  <2>2. to = "search" => l = ProductsNode
    BY DEF Paths
  <2> QED
    BY <1>2, <2>1, <2>2 DEF FeedInv, SearchesAtHome
<1> QED
  BY <1>3, <1>4, <1>5, <1>6

\* An appearance or a search: what is said of an older subscription, and of the
\* blocks, does not change; that a registered one is the last is said no more of
\* those of the same kind.
LEMMA SubscribedSays ==
    ASSUME FeedInv, NEW to \in {"screen", "search"}, NEW l \in Paths, NEW text \in SUBSET Products,
           Subscribed(to, l, text), UNCHANGED <<values, joined, due>>
    PROVE  /\ \A i \in 1..joined :
                 /\ i \in DOMAIN subs /\ subs'[i] = subs[i]
                 /\ Unbroken(i)' <=> Unbroken(i)
                 /\ Alone(i)' <=> Alone(i)
                 /\ \A n : Has(subs[i].list, n)' <=> Has(subs[i].list, n)
                 /\ ~Last(i, to)'
                 /\ \A other : Last(i, other)' => Last(i, other)
           /\ \A k \in DOMAIN due : Fills(k)' <=> Fills(k)
<1>1. /\ DOMAIN subs' = 1..(Len(subs) + 1) /\ DOMAIN subs = 1..Len(subs) /\ Len(subs) \in Nat
      /\ \A i \in DOMAIN subs : subs'[i] = subs[i]
      /\ subs'[Len(subs) + 1].to = to
  BY SubscribedOnly, Elements DEF FeedInv
<1>2. 1..joined \subseteq DOMAIN subs /\ \A k \in DOMAIN due : due[k].sub \in DOMAIN subs
  BY Elements DEF FeedInv
<1>3. \A k \in DOMAIN due : Fills(k)' <=> Fills(k)
  BY <1>1, <1>2 DEF Fills
<1>4. ASSUME NEW i \in 1..joined
      PROVE  /\ i \in DOMAIN subs /\ subs'[i] = subs[i]
             /\ ~Last(i, to)'
             /\ \A other : Last(i, other)' => Last(i, other)
  <2>1. i \in DOMAIN subs /\ subs'[i] = subs[i] /\ Len(subs) + 1 > i
    BY <1>1, <1>2
  <2> QED
    BY <1>1, <2>1 DEF Last
<1>5. ASSUME NEW i \in 1..joined
      PROVE  /\ Unbroken(i)' <=> Unbroken(i)
             /\ Alone(i)' <=> Alone(i)
             /\ \A n : Has(subs[i].list, n)' <=> Has(subs[i].list, n)
  BY <1>4, SameSubscription
<1> QED
  BY <1>3, <1>4, <1>5

LEMMA AppearKeeps ==
    ASSUME FeedInv, NEW l \in Paths, Appear(l)
    PROVE  FeedInv'
<1>1. Subscribed("screen", l, {}) /\ UNCHANGED <<screen, values, joined, due, shown, found, laid>>
  BY DEF Appear
<1>2. FeedTypeOK' /\ DueInOrder' /\ EventsAreNew' /\ SearchesAtHome'
  BY <1>1, SubscribedKeeps DEF FeedInv, FeedTypeOK
<1>3. NewestIsLast'
  BY <1>1, SubscribedSays DEF NewestIsLast
<1>4. LastSearchIsLast'
  <2>1. ASSUME NEW i \in 1..joined, NEW n \in DOMAIN values,
               Last(i, "search")', Unbroken(i)', Has(subs[i].list, n)'
        PROVE  \/ /\ found = values[n].content \cap subs[i].text
                  /\ \A k \in DOMAIN due : Fills(k)'
               \/ \E k \in DOMAIN due :
                     /\ due[k].value = n /\ EventDue(i, k)
                     /\ \A j \in DOMAIN due : j > k => Fills(j)'
    <3>1. Last(i, "search") /\ Unbroken(i) /\ Has(subs[i].list, n)
      BY <1>1, <2>1, SubscribedSays
    <3>2. \A k \in DOMAIN due : Fills(k)' <=> Fills(k)
      BY <1>1, SubscribedSays
    <3> QED
      BY <3>1, <3>2 DEF FeedInv, LastSearchIsLast
  <2>2. \A i \in 1..joined : subs'[i] = subs[i]
    BY <1>1, SubscribedSays
  <2> QED
    BY <1>1, <2>1, <2>2 DEF LastSearchIsLast, EventDue
<1>5. CellsMatch'
  <2>1. /\ DOMAIN subs' = 1..(Len(subs) + 1) /\ DOMAIN subs = 1..Len(subs) /\ Len(subs) \in Nat
        /\ \A i \in DOMAIN subs : subs'[i] = subs[i]
        /\ subs'[Len(subs) + 1].to = "screen"
    BY <1>1, SubscribedOnly, Elements DEF FeedInv
  <2>2. \A i \in DOMAIN subs : Last(i, "search") => Last(i, "search")'
    BY <2>1 DEF Last
  <2>3. laid # found => \E i \in DOMAIN subs : Last(i, "search") /\ (~subs[i].answered \/ ~subs[i].open)
    BY DEF FeedInv, CellsMatch
  <2>4. laid' # found' =>
            \E i \in DOMAIN subs' : Last(i, "search")' /\ (~subs'[i].answered \/ ~subs'[i].open)
    BY <1>1, <2>1, <2>2, <2>3
  <2> QED
    BY <2>4 DEF CellsMatch
<1> QED
  BY <1>2, <1>3, <1>4, <1>5 DEF FeedInv

LEMMA SearchKeeps ==
    ASSUME FeedInv, NEW text \in SUBSET Products, Search(text)
    PROVE  FeedInv'
<1>1. /\ Subscribed("search", ProductsNode, text) /\ screen = "home"
      /\ UNCHANGED <<screen, values, joined, due, shown, laid>> /\ found' = {}
  BY DEF Search
<1>2. ProductsNode \in Paths
  BY <1>1 DEF Paths
<1>3. FeedTypeOK' /\ DueInOrder' /\ EventsAreNew' /\ SearchesAtHome'
  BY <1>1, <1>2, SubscribedKeeps
<1>4. NewestIsLast'
  <2>1. ASSUME NEW i \in 1..joined, NEW n \in DOMAIN values,
               Last(i, "screen")', Unbroken(i)', Alone(i)', Has(subs[i].list, n)'
        PROVE  \/ shown = n /\ \A j \in DOMAIN due : Fills(j)' => due[j].value = n
               \/ \E k \in DOMAIN due :
                     /\ due[k].value = n /\ (due[k].kind = "show" \/ EventDue(i, k))
                     /\ \A j \in DOMAIN due : Fills(j)' /\ Behind(j, k) => due[j].value = n
    <3>1. Last(i, "screen") /\ Unbroken(i) /\ Alone(i) /\ Has(subs[i].list, n)
      BY <1>1, <1>2, <2>1, SubscribedSays
    <3>2. \A k \in DOMAIN due : Fills(k)' <=> Fills(k)
      BY <1>1, <1>2, SubscribedSays
    <3> QED
      BY <3>1, <3>2 DEF FeedInv, NewestIsLast
  <2>2. \A i \in 1..joined : subs'[i] = subs[i]
    BY <1>1, <1>2, SubscribedSays
  <2> QED
    BY <1>1, <2>1, <2>2 DEF NewestIsLast, EventDue, Behind
<1>5. LastSearchIsLast'
  BY <1>1, <1>2, SubscribedSays DEF LastSearchIsLast
<1>6. CellsMatch'
  <2>1. PICK m \in Nat : m = Len(subs) + 1
    BY Elements DEF FeedInv
  <2>2. DOMAIN subs' = 1..m /\ subs'[m].to = "search" /\ ~subs'[m].answered
    BY <1>1, <1>2, <2>1, SubscribedOnly DEF FeedInv
  <2>3. m \in DOMAIN subs'
    BY <2>1, <2>2, Elements DEF FeedInv
  <2>4. Last(m, "search")'
    BY <2>2, <2>3 DEF Last
  <2> QED
    BY <2>2, <2>3, <2>4 DEF CellsMatch
<1> QED
  BY <1>3, <1>4, <1>5, <1>6 DEF FeedInv

\* New events at the end of the queue keep its order if what they carry is not
\* older than any value of its list.
LEMMA EventsAtEnd ==
    ASSUME FeedInv, NEW new \in Seq(Blocks), due' = due \o new, UNCHANGED <<screen, shown>>,
           \A n, m \in DOMAIN values : SameList(n, m)' <=> SameList(n, m),
           NEW last \in Nat, \A n \in DOMAIN values : Older(n, last)',
           \A k \in DOMAIN new : new[k].kind = "event" /\ new[k].value = last
    PROVE  /\ due' \in Seq(Blocks) /\ DOMAIN due' = 1..(Len(due) + Len(new))
           /\ \A k \in DOMAIN due : k \in DOMAIN due' /\ due'[k] = due[k]
           /\ \A k \in DOMAIN new : Len(due) + k \in DOMAIN due' /\ due'[Len(due) + k] = new[k]
           /\ \A k \in DOMAIN due' : \/ k \in DOMAIN due /\ due'[k] = due[k]
                                     \/ /\ k > Len(due) /\ k - Len(due) \in DOMAIN new
                                        /\ due'[k] = new[k - Len(due)]
           /\ DueInOrder'
<1>1. /\ due \in Seq(Blocks) /\ Len(due) \in Nat /\ DOMAIN due = 1..Len(due)
      /\ Len(new) \in Nat /\ DOMAIN new = 1..Len(new)
  BY DEF FeedInv, FeedTypeOK
<1>2. due' \in Seq(Blocks) /\ Len(due') = Len(due) + Len(new)
  BY <1>1
<1>3. DOMAIN due' = 1..(Len(due) + Len(new))
  BY <1>2
<1>4. \A k \in DOMAIN due : k \in DOMAIN due' /\ due'[k] = due[k]
  BY <1>1, <1>3
<1>5. \A k \in DOMAIN new : Len(due) + k \in DOMAIN due' /\ due'[Len(due) + k] = new[k]
  BY <1>1, <1>3
<1>6. ASSUME NEW k \in DOMAIN due'
      PROVE  \/ k \in DOMAIN due /\ due'[k] = due[k]
             \/ k > Len(due) /\ k - Len(due) \in DOMAIN new /\ due'[k] = new[k - Len(due)]
  <2>1. CASE k <= Len(due)
    BY <1>1, <1>3, <1>4, <2>1
  <2>2. CASE k > Len(due)
    <3>1. k - Len(due) \in DOMAIN new /\ Len(due) + (k - Len(due)) = k
      BY <1>1, <1>3, <2>2
    <3> QED
      BY <1>5, <2>2, <3>1
  <2> QED
    BY <1>1, <1>3, <2>1, <2>2
<1>7. \A k \in DOMAIN due : due[k].value \in DOMAIN values
  BY Elements DEF FeedInv
<1>8. shown = 0 \/ shown \in DOMAIN values
  BY Elements DEF FeedInv
<1>9. \A n, m \in DOMAIN values : Older(n, m) => Older(n, m)'
  BY DEF Older
<1>10. \A k \in DOMAIN due' : due'[k].value \in Nat
  <2>1. \A k \in DOMAIN due' : due'[k] \in Blocks
    BY <1>2
  <2> QED
    BY <2>1, FeedsAssumption DEF Blocks
<1>11. ASSUME NEW k \in DOMAIN due' PROVE Older(shown, due[k].value)'
  <2>1. PICK at \in Nat : at = shown
    BY Elements DEF FeedInv
  <2>2. PICK n \in Nat : n = due'[k].value
    BY <1>10
  <2>3. at = 0 \/ Older(at, n)'
    <3>1. CASE k \in DOMAIN due
      BY <1>4, <1>7, <1>8, <1>9, <2>1, <2>2, <3>1 DEF FeedInv, DueInOrder
    <3>2. CASE k \notin DOMAIN due
      BY <1>6, <1>8, <2>1, <2>2, <3>2
    <3> QED
      BY <3>1, <3>2
  <2>4. Older(at, n)'
    BY <2>1, <2>2, <2>3 DEF Older
  <2> QED
    BY <2>1, <2>2, <2>4
<1>12. ASSUME NEW j \in DOMAIN due', NEW k \in DOMAIN due', Behind(j, k)'
       PROVE  Older(due[k].value, due[j].value)'
  <2>1. PICK n \in Nat : n = due'[k].value
    BY <1>10
  <2>2. PICK m \in Nat : m = due'[j].value
    BY <1>10
  <2>3. j \in Nat /\ k \in Nat
    BY <1>1, <1>3
  <2>4. CASE j \in DOMAIN due /\ k \in DOMAIN due
    <3>1. Behind(j, k)
      BY <1>4, <1>12, <2>4 DEF Behind
    <3>2. Older(n, m)
      BY <1>4, <2>1, <2>2, <2>4, <3>1 DEF FeedInv, DueInOrder
    <3>3. Older(n, m)'
      BY <1>4, <1>7, <1>9, <2>1, <2>2, <2>4, <3>2
    <3> QED
      BY <2>1, <2>2, <3>3
  <2>5. CASE j \in DOMAIN due /\ k \notin DOMAIN due
    <3>1. due'[k].kind = "event" /\ k > Len(due)
      BY <1>6, <2>5
    <3>2. ~(j > k)
      BY <1>1, <2>3, <2>5, <3>1
    <3> QED
      BY <1>12, <3>1, <3>2 DEF Behind
  <2>6. CASE j \notin DOMAIN due /\ k \in DOMAIN due
    <3>1. m = last /\ n \in DOMAIN values
      BY <1>4, <1>6, <1>7, <2>1, <2>2, <2>6
    <3>2. Older(n, m)'
      BY <3>1
    <3> QED
      BY <2>1, <2>2, <3>2
  <2>7. CASE j \notin DOMAIN due /\ k \notin DOMAIN due
    <3>1. n = m
      BY <1>6, <2>1, <2>2, <2>7
    <3>2. Older(n, m)'
      BY <2>1, <3>1 DEF Older
    <3> QED
      BY <2>1, <2>2, <3>2
  <2> QED
    BY <2>4, <2>5, <2>6, <2>7
<1>13. screen' = "favorites" => \A k \in DOMAIN due' : due'[k].kind = "event"
  BY <1>6 DEF FeedInv, DueInOrder
<1> QED
  BY <1>2, <1>3, <1>4, <1>5, <1>6, <1>11, <1>12, <1>13 DEF DueInOrder

\* A step that leaves subscriptions and values alone leaves what is said of them.
LEMMA SameSays ==
    ASSUME UNCHANGED <<values, subs>>, NEW i
    PROVE  /\ Unbroken(i)' <=> Unbroken(i)
           /\ Alone(i)' <=> Alone(i)
           /\ \A n : Past(i, n)' <=> Past(i, n)
           /\ \A n : Has(subs[i].list, n)' <=> Has(subs[i].list, n)
           /\ \A to : Last(i, to)' <=> Last(i, to)
           /\ \A n, m : SameList(n, m)' <=> SameList(n, m)
<1>1. \A to : Last(i, to)' <=> Last(i, to)
  BY DEF Last
<1>2. \A n, m : SameList(n, m)' <=> SameList(n, m)
  BY DEF SameList
<1> QED
  BY <1>1, <1>2, SameSubscription

\* A subscription whose list has no value is registered.
LEMMA JoinEmpty ==
    ASSUME FeedInv, joined < Len(subs), joined' = joined + 1, due' = due,
           UNCHANGED <<screen, values, subs, shown, found, laid>>,
           \A n \in DOMAIN values : ~Has(subs[joined + 1].list, n)
    PROVE  FeedInv'
<1>1. joined \in Nat /\ \A i \in 1..(joined + 1) : i \in 1..joined \/ i = joined + 1
  BY Elements DEF FeedInv
<1>2. FeedTypeOK'
  <2>1. joined' \in 0..Len(subs)
    BY Elements DEF FeedInv
  <2>2. \A k \in DOMAIN due : due[k].sub <= joined + 1
    BY <1>1, Elements DEF FeedInv
  <2> QED
    BY <2>1, <2>2 DEF FeedInv, FeedTypeOK
<1>3. DueInOrder' /\ SearchesAtHome' /\ CellsMatch'
  BY DEF FeedInv, DueInOrder, Behind, Older, SameList, SearchesAtHome, CellsMatch, Last
<1>4. EventsAreNew'
  BY SameSays DEF FeedInv, EventsAreNew
<1>5. \A k \in DOMAIN due : Fills(k)' <=> Fills(k)
  BY DEF Fills
<1>6. NewestIsLast'
  <2>1. \A j, k : Behind(j, k)' <=> Behind(j, k)
    BY DEF Behind
  <2>2. ASSUME NEW i \in 1..joined', NEW n \in DOMAIN values,
               Last(i, "screen"), Unbroken(i), Alone(i), Has(subs[i].list, n)
        PROVE  i \in 1..joined
    BY <1>1, <2>2
  <2> QED
    BY <1>5, <2>1, <2>2, SameSays DEF FeedInv, NewestIsLast, EventDue
<1>7. LastSearchIsLast'
  <2>1. ASSUME NEW i \in 1..joined', NEW n \in DOMAIN values,
               Last(i, "search"), Unbroken(i), Has(subs[i].list, n)
        PROVE  i \in 1..joined
    BY <1>1, <2>1
  <2> QED
    BY <1>5, <2>1, SameSays DEF FeedInv, LastSearchIsLast, EventDue
<1> QED
  BY <1>2, <1>3, <1>4, <1>6, <1>7 DEF FeedInv

\* A subscription is registered and gets the value its list has, behind all others.
LEMMA JoinSent ==
    ASSUME FeedInv, joined < Len(subs), joined' = joined + 1,
           UNCHANGED <<screen, values, subs, shown, found, laid>>,
           NEW s \in DOMAIN subs, s = joined + 1,
           NEW n \in DOMAIN values, Has(subs[s].list, n), due' = Append(due, Event(s, n))
    PROVE  FeedInv'
<1> DEFINE new == << Event(s, n) >>
<1>1. /\ s \in 1..MaxSubscriptions /\ s \notin 1..joined
      /\ \A i \in 1..joined' : i \in 1..joined \/ i = s
      /\ 1..joined \subseteq DOMAIN subs /\ \A i \in 1..joined : s > i
  BY Elements, FeedsAssumption DEF FeedInv, FeedTypeOK
<1>2. n \in 1..MaxValues /\ n \in Nat
  BY Elements, FeedsAssumption DEF FeedInv, FeedTypeOK
<1>3. Event(s, n) \in Blocks
  BY <1>1, <1>2 DEF Event, Blocks
<1>4. due \in Seq(Blocks) /\ Len(due) \in Nat /\ DOMAIN due = 1..Len(due)
  BY Elements DEF FeedInv, FeedTypeOK
<1>5. new \in Seq(Blocks) /\ due' = due \o new /\ DOMAIN new = {1}
  BY <1>3, <1>4
<1>6. \A k \in DOMAIN new : new[k].kind = "event" /\ new[k].value = n /\ new[k].sub = s
  BY DEF Event
<1> HIDE DEF new
<1>7. \A m \in DOMAIN values : Older(m, n)'
  <2>1. \A m \in DOMAIN values : m \in Nat
    BY Elements DEF FeedInv
  <2>2. \A m \in DOMAIN values : Older(m, n)
    BY <1>2, <2>1 DEF Older, SameList, Has
  <2> QED
    BY <2>2 DEF Older, SameList
<1>8. /\ due' \in Seq(Blocks)
      /\ \A k \in DOMAIN due : k \in DOMAIN due' /\ due'[k] = due[k]
      /\ \A k \in DOMAIN new : Len(due) + k \in DOMAIN due' /\ due'[Len(due) + k] = new[k]
      /\ \A k \in DOMAIN due' : \/ k \in DOMAIN due /\ due'[k] = due[k]
                                \/ /\ k > Len(due) /\ k - Len(due) \in DOMAIN new
                                   /\ due'[k] = new[k - Len(due)]
      /\ DueInOrder'
  BY <1>2, <1>5, <1>6, <1>7, SameSays, EventsAtEnd
<1>9. PICK end \in Nat : end = Len(due) + 1
  BY <1>4
<1>10. \A k \in DOMAIN due' :
          \/ k \in DOMAIN due /\ due'[k] = due[k] /\ end > k
          \/ due'[k].kind = "event" /\ due'[k].sub = s /\ due'[k].value = n /\ k = end
  <2>1. \A k \in DOMAIN due' : k - Len(due) = 1 /\ k > Len(due) => k = end
    BY <1>4, <1>8, <1>9
  <2>2. \A k \in DOMAIN due : end > k
    BY <1>4, <1>9
  <2> QED
    BY <1>5, <1>6, <1>8, <2>1, <2>2
<1>11. /\ end \in DOMAIN due' /\ due'[end].kind = "event" /\ due'[end].sub = s
       /\ due'[end].value = n
  BY <1>5, <1>6, <1>8, <1>9
<1>12. \A k \in DOMAIN due : Fills(k)' <=> Fills(k)
  BY <1>8 DEF Fills
<1>13. FeedTypeOK'
  <2>1. \A k \in DOMAIN due' : due'[k].sub <= joined' /\ due'[k].value <= Len(values)
    <3>1. \A k \in DOMAIN due : due[k].sub <= joined + 1 /\ due[k].value <= Len(values)
      BY Elements DEF FeedInv
    <3>2. s <= joined + 1 /\ n <= Len(values)
      BY Elements DEF FeedInv
    <3> QED
      BY <1>10, <3>1, <3>2
  <2>2. joined' \in 0..Len(subs)
    BY Elements DEF FeedInv
  <2> QED
    BY <1>8, <2>1, <2>2 DEF FeedInv, FeedTypeOK
<1>14. EventsAreNew' /\ SearchesAtHome' /\ CellsMatch'
  <2>1. ~Past(s, n)
    BY <1>2, Elements DEF FeedInv, Past, Has
  <2>2. ASSUME NEW k \in DOMAIN due', due'[k].kind = "event"
        PROVE  /\ values[due'[k].value].list = subs[due'[k].sub].list
               /\ ~Past(due'[k].sub, due'[k].value)
    BY <1>10, <2>1, <2>2 DEF FeedInv, EventsAreNew, Has
  <2>3. EventsAreNew'
    BY <2>2, SameSays DEF FeedInv, EventsAreNew
  <2> QED
    BY <2>3 DEF FeedInv, SearchesAtHome, CellsMatch, Last
<1>15. NewestIsLast'
  <2> SUFFICES ASSUME NEW i \in 1..joined', NEW m \in DOMAIN values',
                      Last(i, "screen")', Unbroken(i)', Alone(i)', Has(subs[i].list, m)'
               PROVE  \/ shown' = m /\ \A j \in DOMAIN due' : Fills(j)' => due'[j].value = m
                      \/ \E k \in DOMAIN due' :
                            /\ due'[k].value = m /\ (due'[k].kind = "show" \/ EventDue(i, k)')
                            /\ \A j \in DOMAIN due' : Fills(j)' /\ Behind(j, k)' => due'[j].value = m
    BY DEF NewestIsLast
  <2>1. /\ m \in DOMAIN values /\ Last(i, "screen") /\ Unbroken(i) /\ Alone(i)
        /\ Has(subs[i].list, m)
    BY SameSays
  <2>2. CASE i = s
    <3>1. m = n
      BY <2>1, <2>2, Elements DEF FeedInv, Has
    <3>2. \A j \in DOMAIN due' : ~Behind(j, end)'
      <4>1. \A j \in DOMAIN due' : ~(j > end)
        BY <1>9, <1>10
      <4> QED
        BY <1>11, <4>1 DEF Behind
    <3> QED
      BY <1>11, <2>2, <3>1, <3>2 DEF EventDue
  <2>3. CASE i \in 1..joined
    <3>1. ~Fills(end)'
      <4>1. subs[s].to # "screen"
        BY <1>1, <2>1, <2>3 DEF Last
      <4> QED
        BY <1>11, <4>1 DEF Fills
    <3>2. CASE shown = m /\ \A j \in DOMAIN due : Fills(j) => due[j].value = m
      BY <1>10, <1>12, <3>1, <3>2
    <3>3. CASE \E k \in DOMAIN due :
                  /\ due[k].value = m /\ (due[k].kind = "show" \/ EventDue(i, k))
                  /\ \A j \in DOMAIN due : Fills(j) /\ Behind(j, k) => due[j].value = m
      <4>1. PICK k \in DOMAIN due :
                  /\ due[k].value = m /\ (due[k].kind = "show" \/ EventDue(i, k))
                  /\ \A j \in DOMAIN due : Fills(j) /\ Behind(j, k) => due[j].value = m
        BY <3>3
      <4>2. k \in DOMAIN due' /\ due'[k] = due[k]
        BY <1>8
      <4>3. \A j \in DOMAIN due : Behind(j, k)' <=> Behind(j, k)
        BY <1>8, <4>2 DEF Behind
      <4>4. \A j \in DOMAIN due' : Fills(j)' /\ Behind(j, k)' => due'[j].value = m
        BY <1>10, <1>12, <3>1, <4>1, <4>3
      <4> QED
        BY <4>1, <4>2, <4>4 DEF EventDue
    <3> QED
      BY <2>1, <2>3, <3>2, <3>3 DEF FeedInv, NewestIsLast
  <2> QED
    BY <1>1, <2>2, <2>3
<1>16. LastSearchIsLast'
  <2> SUFFICES ASSUME NEW i \in 1..joined', NEW m \in DOMAIN values,
                      Last(i, "search"), Unbroken(i), Has(subs[i].list, m)
               PROVE  \/ /\ found = values[m].content \cap subs[i].text
                         /\ \A k \in DOMAIN due' : Fills(k)'
                      \/ \E k \in DOMAIN due' :
                            /\ due'[k].value = m /\ EventDue(i, k)'
                            /\ \A j \in DOMAIN due' : j > k => Fills(j)'
    BY SameSays DEF LastSearchIsLast
  <2>1. CASE i = s
    <3>1. m = n
      BY <2>1, Elements DEF FeedInv, Has
    <3>2. \A j \in DOMAIN due' : ~(j > end)
      BY <1>9, <1>10
    <3> QED
      BY <1>11, <2>1, <3>1, <3>2 DEF EventDue
  <2>2. CASE i \in 1..joined
    <3>1. Fills(end)'
      <4>1. subs[s].to = "screen"
        BY <1>1, <2>2, Elements DEF FeedInv, Last
      <4> QED
        BY <1>11, <4>1 DEF Fills
    <3>2. CASE /\ found = values[m].content \cap subs[i].text
               /\ \A k \in DOMAIN due : Fills(k)
      BY <1>10, <1>12, <3>1, <3>2
    <3>3. CASE \E k \in DOMAIN due :
                  /\ due[k].value = m /\ EventDue(i, k)
                  /\ \A j \in DOMAIN due : j > k => Fills(j)
      <4>1. PICK k \in DOMAIN due :
                  /\ due[k].value = m /\ EventDue(i, k)
                  /\ \A j \in DOMAIN due : j > k => Fills(j)
        BY <3>3
      <4>2. k \in DOMAIN due' /\ due'[k] = due[k] /\ EventDue(i, k)'
        BY <1>8, <4>1 DEF EventDue
      <4>3. \A j \in DOMAIN due' : j > k => Fills(j)'
        BY <1>10, <1>12, <3>1, <4>1
      <4> QED
        BY <4>1, <4>2, <4>3
    <3> QED
      BY <2>2, <3>2, <3>3 DEF FeedInv, LastSearchIsLast
  <2> QED
    BY <1>1, <2>1, <2>2
<1> QED
  BY <1>8, <1>13, <1>14, <1>15, <1>16 DEF FeedInv

LEMMA JoinKeeps == ASSUME FeedInv, Join PROVE FeedInv'
<1>1. PICK s \in DOMAIN subs : s = joined + 1
  BY Elements DEF FeedInv, Join
<1>2. CASE (\A n \in DOMAIN values : ~Has(subs[joined + 1].list, n)) /\ due' = due
  BY <1>2, JoinEmpty DEF Join
<1>3. CASE \E n \in DOMAIN values :
              Has(subs[joined + 1].list, n) /\ due' = Append(due, Event(joined + 1, n))
  BY <1>1, <1>3, JoinSent DEF Join
<1> QED
  BY <1>2, <1>3 DEF Join

\* A new value changes nothing about those there are, but that its list has it.
LEMMA ArriveSays ==
    ASSUME FeedInv, NEW l, NEW c, values' = Append(values, [list |-> l, content |-> c]),
           subs' = subs, NEW n \in Nat, n = Len(values) + 1
    PROVE  /\ DOMAIN values' = (DOMAIN values) \cup {n} /\ values'[n] = [list |-> l, content |-> c]
           /\ \A m \in DOMAIN values : m < n /\ values'[m] = values[m]
           /\ \A i \in DOMAIN subs :
                 /\ ~Past(i, n)' /\ \A m \in DOMAIN values : Past(i, m)' <=> Past(i, m)
                 /\ Unbroken(i)' => Unbroken(i)
                 /\ Alone(i)' => subs[i].list = l
           /\ \A m : Has(l, m)' => m = n
           /\ \A m, q \in DOMAIN values : SameList(m, q)' <=> SameList(m, q)
<1>1. /\ Len(values) \in Nat /\ DOMAIN values = 1..Len(values) /\ values \in Seq(Values)
  BY Elements DEF FeedInv, FeedTypeOK
<1>2. /\ DOMAIN values' = 1..n /\ values'[n] = [list |-> l, content |-> c]
      /\ \A m \in 1..Len(values) : values'[m] = values[m]
  BY <1>1
<1>3. /\ DOMAIN values' = (DOMAIN values) \cup {n} /\ values'[n].list = l /\ n \in DOMAIN values'
      /\ \A m \in DOMAIN values : m < n /\ m \in Nat /\ values'[m] = values[m]
  BY <1>1, <1>2
<1>4. ASSUME NEW i \in DOMAIN subs
      PROVE  /\ ~Past(i, n)' /\ \A m \in DOMAIN values : Past(i, m)' <=> Past(i, m)
             /\ Unbroken(i)' => Unbroken(i)
             /\ Alone(i)' => subs[i].list = l
  <2>1. subs[i].since \in Nat /\ subs[i].since <= Len(values) /\ subs[i].since < n
    BY <1>1, Elements DEF FeedInv, EventsAreNew
  <2>2. ~Past(i, n)'
    BY <1>3, <2>1 DEF Past
  <2>3. \A m \in DOMAIN values : Past(i, m)' <=> Past(i, m)
    BY <1>3, <2>1 DEF Past
  <2>4. Unbroken(i)' => Unbroken(i)
    BY <1>3, <2>3 DEF Unbroken
  <2>5. Alone(i)' => subs[i].list = l
    BY <1>3, <2>1 DEF Alone
  <2> QED
    BY <2>2, <2>3, <2>4, <2>5
<1>5. \A m : Has(l, m)' => m = n
  BY <1>3 DEF Has
<1>6. \A m, q \in DOMAIN values : SameList(m, q)' <=> SameList(m, q)
  BY <1>3 DEF SameList
<1> QED
  BY <1>2, <1>3, <1>4, <1>5, <1>6

\* A new value of a list is due for every registered subscription of it.
LEMMA ArriveKeeps ==
    ASSUME FeedInv, NEW l \in Paths, NEW c \in Contents, Arrive(l, c)
    PROVE  FeedInv'
<1>1. /\ Len(values) < MaxValues
      /\ values' = Append(values, [list |-> l, content |-> c])
      /\ UNCHANGED <<screen, subs, joined, shown, found, laid>>
  BY DEF Arrive
<1>2. /\ Len(values) \in Nat /\ values \in Seq(Values) /\ DOMAIN values = 1..Len(values)
      /\ Len(due) \in Nat /\ DOMAIN due = 1..Len(due)
      /\ joined \in Nat /\ 1..joined \subseteq DOMAIN subs /\ 1..joined \subseteq 1..MaxSubscriptions
  BY Elements, FeedsAssumption DEF FeedInv, FeedTypeOK
<1>3. PICK n \in Nat : n = Len(values) + 1
  BY <1>2
<1>4. PICK order \in UNION {[1..m -> 1..joined] : m \in 1..joined} :
         Listeners(l, order) /\ due' = due \o [k \in DOMAIN order |-> Event(order[k], n)]
  BY <1>3 DEF Arrive
<1>5. PICK m \in 1..joined : order \in [1..m -> 1..joined]
  BY <1>4
<1>6. /\ \A j, k \in 1..m : j < k => order[j] < order[k]
      /\ \A k \in 1..m : order[k] \in 1..joined /\ subs[order[k]].list = l
      /\ \A i \in 1..joined : subs[i].list = l => \E k \in 1..m : order[k] = i
  <2>1. DOMAIN order = 1..m
    BY <1>5
  <2>2. {order[k] : k \in 1..m} = {i \in 1..joined : subs[i].list = l}
    BY <1>4, <2>1 DEF Listeners
  <2>3. \A j, k \in 1..m : j < k => order[j] < order[k]
    BY <1>4, <2>1 DEF Listeners
  <2> QED
    BY <2>2, <2>3
<1> DEFINE new == [k \in DOMAIN order |-> Event(order[k], n)]
<1>7. n \in 1..MaxValues
  BY <1>1, <1>2, <1>3, FeedsAssumption
<1>8. \A k \in 1..m : Event(order[k], n) \in Blocks
  BY <1>2, <1>6, <1>7 DEF Event, Blocks
<1>9. new \in Seq(Blocks) /\ DOMAIN new = 1..m
  <2>1. m \in Nat /\ new = [k \in 1..m |-> Event(order[k], n)]
    BY <1>2, <1>5
  <2> QED
    BY <1>8, <2>1
<1>10. \A k \in 1..m : new[k].kind = "event" /\ new[k].value = n /\ new[k].sub = order[k]
  BY <1>9 DEF Event
<1>11. due' = due \o new
  BY <1>4
<1> HIDE DEF new
<1>12. /\ DOMAIN values' = (DOMAIN values) \cup {n} /\ values'[n] = [list |-> l, content |-> c]
       /\ \A q \in DOMAIN values : q < n /\ values'[q] = values[q]
       /\ \A i \in DOMAIN subs :
             /\ ~Past(i, n)' /\ \A q \in DOMAIN values : Past(i, q)' <=> Past(i, q)
             /\ Unbroken(i)' => Unbroken(i)
             /\ Alone(i)' => subs[i].list = l
       /\ \A q : Has(l, q)' => q = n
       /\ \A p, q \in DOMAIN values : SameList(p, q)' <=> SameList(p, q)
  BY <1>1, <1>3, ArriveSays
<1>13. /\ due' \in Seq(Blocks)
       /\ \A k \in DOMAIN due : k \in DOMAIN due' /\ due'[k] = due[k]
       /\ \A k \in DOMAIN new : Len(due) + k \in DOMAIN due' /\ due'[Len(due) + k] = new[k]
       /\ \A k \in DOMAIN due' : \/ k \in DOMAIN due /\ due'[k] = due[k]
                                 \/ /\ k > Len(due) /\ k - Len(due) \in DOMAIN new
                                    /\ due'[k] = new[k - Len(due)]
       /\ DueInOrder'
  <2>1. \A q \in DOMAIN values : Older(q, n)'
    BY <1>12, Elements DEF FeedInv, Older
  <2>2. \A p, q \in DOMAIN values : SameList(p, q)' <=> SameList(p, q)
    BY <1>12
  <2>3. \A k \in DOMAIN new : new[k].kind = "event" /\ new[k].value = n
    BY <1>9, <1>10
  <2>4. new \in Seq(Blocks)
    BY <1>9
  <2>5. FeedInv /\ UNCHANGED <<screen, shown>>
    BY <1>3 DEF Arrive
  <2> QED
    BY <1>11, <2>1, <2>2, <2>3, <2>4, <2>5, EventsAtEnd
<1>14. \A k \in DOMAIN due' :
          \/ k \in DOMAIN due /\ due'[k] = due[k]
          \/ /\ due'[k].kind = "event" /\ due'[k].value = n
             /\ k - Len(due) \in 1..m /\ due'[k].sub = order[k - Len(due)]
  BY <1>9, <1>10, <1>13
<1>15. \A i \in 1..joined : subs[i].list = l =>
          \E k \in 1..m : /\ order[k] = i /\ Len(due) + k \in DOMAIN due'
                          /\ due'[Len(due) + k].kind = "event"
                          /\ due'[Len(due) + k].value = n /\ due'[Len(due) + k].sub = i
  <2>1. ASSUME NEW k \in 1..m
        PROVE  /\ Len(due) + k \in DOMAIN due' /\ due'[Len(due) + k].kind = "event"
               /\ due'[Len(due) + k].value = n /\ due'[Len(due) + k].sub = order[k]
    <3>1. Len(due) + k \in DOMAIN due' /\ due'[Len(due) + k] = new[k]
      BY <1>9, <1>13
    <3> QED
      BY <1>10, <3>1
  <2> QED
    BY <1>6, <2>1
<1>16. FeedTypeOK'
  <2>1. values' \in Seq(Values) /\ Len(values') = n /\ n <= MaxValues
    <3>1. [list |-> l, content |-> c] \in Values
      BY DEF Paths, Values
    <3> QED
      BY <1>1, <1>2, <1>3, <1>7, <3>1
  <2>2. \A k \in DOMAIN due' : due'[k].sub <= joined /\ due'[k].value <= n
    <3>1. \A k \in DOMAIN due : due[k].sub <= joined /\ due[k].value < n
      BY <1>12, Elements DEF FeedInv
    <3>2. \A k \in 1..m : order[k] <= joined
      BY <1>2, <1>6
    <3>3. \A k \in DOMAIN due : due[k].value \in Nat
      BY Elements DEF FeedInv
    <3> QED
      BY <1>14, <3>1, <3>2, <3>3
  <2>3. shown \in 0..n
    BY <1>3, Elements DEF FeedInv
  <2> QED
    BY <1>1, <1>13, <2>1, <2>2, <2>3 DEF FeedInv, FeedTypeOK
<1>17. EventsAreNew' /\ SearchesAtHome' /\ CellsMatch'
  <2>1. ASSUME NEW k \in DOMAIN due', due'[k].kind = "event"
        PROVE  /\ values'[due'[k].value].list = subs'[due'[k].sub].list
               /\ ~Past(due[k].sub, due[k].value)'
    <3>1. PICK i \in DOMAIN subs, q \in DOMAIN values' : i = due'[k].sub /\ q = due'[k].value
      <4>1. \A j \in DOMAIN due : due[j].sub \in DOMAIN subs /\ due[j].value \in DOMAIN values
        BY Elements DEF FeedInv
      <4>2. \A j \in 1..m : order[j] \in DOMAIN subs
        BY <1>2, <1>6
      <4> QED
        BY <1>12, <1>14, <4>1, <4>2
    <3>2. values'[q].list = subs[i].list /\ ~Past(i, q)'
      <4>1. CASE k \in DOMAIN due /\ due'[k] = due[k]
        <5>1. q \in DOMAIN values /\ values[q].list = subs[i].list /\ ~Past(i, q)
          BY <2>1, <3>1, <4>1, Elements DEF FeedInv, EventsAreNew
        <5> QED
          BY <1>12, <5>1
      <4>2. CASE q = n /\ k - Len(due) \in 1..m /\ due'[k].sub = order[k - Len(due)]
        BY <1>6, <1>12, <3>1, <4>2
      <4> QED
        BY <1>14, <3>1, <4>1, <4>2
    <3> QED
      BY <1>1, <3>1, <3>2
  <2>2. \A i \in DOMAIN subs' : subs'[i].since <= Len(values')
    <3>1. Len(values') = n
      BY <1>1, <1>2, <1>3
    <3>2. \A i \in DOMAIN subs : subs[i].since \in Nat /\ subs[i].since <= Len(values)
      BY Elements DEF FeedInv, EventsAreNew
    <3> QED
      BY <1>1, <1>2, <1>3, <3>1, <3>2
  <2>3. \A i \in DOMAIN subs' : Unbroken(i)' => subs'[i].open
    BY <1>1, <1>12 DEF FeedInv, EventsAreNew
  <2>4. EventsAreNew'
    BY <2>1, <2>2, <2>3 DEF EventsAreNew
  <2> QED
    BY <1>1, <2>4 DEF FeedInv, SearchesAtHome, CellsMatch, Last
<1>18. NewestIsLast'
  <2> SUFFICES ASSUME NEW i \in 1..joined', NEW q \in DOMAIN values',
                      Last(i, "screen")', Unbroken(i)', Alone(i)', Has(subs[i].list, q)'
               PROVE  \E k \in DOMAIN due' :
                         /\ due'[k].value = q /\ (due'[k].kind = "show" \/ EventDue(i, k)')
                         /\ \A j \in DOMAIN due' : Fills(j)' /\ Behind(j, k)' => due'[j].value = q
    BY DEF NewestIsLast
  <2>1. i \in 1..joined /\ subs[i].list = l
    BY <1>1, <1>2, <1>12
  <2>2. q = n
    BY <1>1, <1>12, <2>1 DEF Has
  <2>3. PICK k \in 1..m : /\ Len(due) + k \in DOMAIN due'
                          /\ due'[Len(due) + k].kind = "event"
                          /\ due'[Len(due) + k].value = n /\ due'[Len(due) + k].sub = i
    BY <1>15, <2>1
  <2>4. PICK at \in DOMAIN due' : at = Len(due) + k /\ at > Len(due)
    BY <1>2, <2>3
  <2>5. ASSUME NEW j \in DOMAIN due', Behind(j, at)' PROVE due'[j].value = n
    <3>1. j > at
      BY <2>3, <2>4, <2>5 DEF Behind
    <3>2. j \notin DOMAIN due
      BY <1>2, <2>4, <3>1
    <3> QED
      BY <1>14, <3>2
  <2> QED
    BY <2>2, <2>3, <2>4, <2>5 DEF EventDue
<1>19. LastSearchIsLast'
  <2> SUFFICES ASSUME NEW i \in 1..joined', NEW q \in DOMAIN values',
                      Last(i, "search")', Unbroken(i)', Has(subs[i].list, q)'
               PROVE  \E k \in DOMAIN due' :
                         /\ due'[k].value = q /\ EventDue(i, k)'
                         /\ \A j \in DOMAIN due' : j > k => Fills(j)'
    BY DEF LastSearchIsLast
  <2>1. i \in 1..joined /\ i \in DOMAIN subs /\ subs[i].to = "search"
    BY <1>1, <1>2 DEF Last
  <2>2. subs[i].list = l
    BY <2>1 DEF FeedInv, SearchesAtHome, Paths
  <2>3. q = n
    BY <1>1, <1>12, <2>2 DEF Has
  <2>4. PICK k \in 1..m : /\ order[k] = i /\ Len(due) + k \in DOMAIN due'
                          /\ due'[Len(due) + k].kind = "event"
                          /\ due'[Len(due) + k].value = n /\ due'[Len(due) + k].sub = i
    BY <1>15, <2>1, <2>2
  <2>5. ASSUME NEW j \in DOMAIN due', j > Len(due) + k PROVE Fills(j)'
    <3>1. j \notin DOMAIN due
      BY <1>2, <2>5
    <3>2. j - Len(due) \in 1..m /\ due'[j].sub = order[j - Len(due)]
      BY <1>14, <3>1
    <3>3. k < j - Len(due)
      BY <1>2, <1>13, <2>5
    <3>4. due'[j].sub > i /\ due'[j].sub \in DOMAIN subs
      BY <1>2, <1>6, <2>4, <3>2, <3>3
    <3>5. subs[due'[j].sub].to = "screen"
      BY <1>1, <3>4, Elements DEF FeedInv, Last
    <3> QED
      BY <1>1, <3>5 DEF Fills
  <2> QED
    BY <2>3, <2>4, <2>5 DEF EventDue
<1> QED
  BY <1>13, <1>16, <1>17, <1>18, <1>19 DEF FeedInv

-----------------------------------------------------------------------------
(* The invariant and the theorems *)

\* Initially nothing is due.
LEMMA FeedInitially == Init => FeedInv
<1> SUFFICES ASSUME Init PROVE FeedInv
  OBVIOUS
<1>1. /\ DOMAIN due = {} /\ DOMAIN subs = {} /\ DOMAIN values = {} /\ Len(values) = 0 /\ Len(subs) = 0
      /\ 1..joined = {}
  BY DEF Init
<1>2. FeedTypeOK
  BY <1>1, FeedsAssumption DEF Init, FeedTypeOK
<1>3. DueInOrder /\ EventsAreNew /\ SearchesAtHome /\ NewestIsLast /\ LastSearchIsLast
  BY <1>1 DEF Init, DueInOrder, EventsAreNew, SearchesAtHome, NewestIsLast, LastSearchIsLast
<1>4. CellsMatch
  BY DEF Init, CellsMatch
<1> QED
  BY <1>2, <1>3, <1>4 DEF FeedInv

\* Every step keeps the invariant.
LEMMA FeedStep == FeedInv /\ [Next]_vars => FeedInv'
<1> SUFFICES ASSUME FeedInv, [Next]_vars PROVE FeedInv'
  OBVIOUS
<1>1. CASE UNCHANGED vars
  <2>1. UNCHANGED <<screen, values, subs, joined, due, shown, found, laid>>
    BY <1>1 DEF vars
  <2>2. FeedTypeOK' /\ DueInOrder' /\ SearchesAtHome' /\ CellsMatch'
    BY <2>1 DEF FeedInv, FeedTypeOK, DueInOrder, Behind, Older, SameList, SearchesAtHome,
                CellsMatch, Last
  <2>3. EventsAreNew'
    BY <2>1, SameSays DEF FeedInv, EventsAreNew
  <2>4. NewestIsLast'
    BY <2>1 DEF FeedInv, NewestIsLast, Last, Unbroken, Past, Alone, Has, EventDue, Fills, Behind
  <2>5. LastSearchIsLast'
    BY <2>1, SameSays DEF FeedInv, LastSearchIsLast, EventDue, Fills
  <2> QED
    BY <2>2, <2>3, <2>4, <2>5 DEF FeedInv
<1> QED
  BY <1>1, AppearKeeps, SearchKeeps, JoinKeeps, ArriveKeeps, RunKeeps DEF Next

\* FeedInv is an invariant.
LEMMA FeedInvariant == Spec => []FeedInv
<1> QED
  BY FeedInitially, FeedStep, PTL DEF Spec

\* The feeds are well typed in every reachable state.
THEOREM FeedTypeCorrect == Spec => []FeedTypeOK
<1>1. FeedInv => FeedTypeOK
  BY DEF FeedInv
<1> QED
  BY <1>1, FeedInvariant, PTL

\* However many subscriptions a screen has stacked up (viewWillAppear), for
\* however many accounts, at rest it shows what the list it last appeared for has,
\* unless that was no list or another account's list has had a value since.
THEOREM NewestCorrect == Spec => []NewestAtRest
<1>1. FeedInv => NewestAtRest
  <2> SUFFICES ASSUME FeedInv, AtRest, NEW i \in DOMAIN subs, NEW n \in DOMAIN values,
                      Last(i, "screen"), Unbroken(i), Alone(i), Has(subs[i].list, n)
               PROVE  shown = n
    BY DEF NewestAtRest
  <2>1. i \in 1..joined /\ DOMAIN due = {}
    BY Elements DEF FeedInv, AtRest
  <2> QED
    BY <2>1 DEF FeedInv, NewestIsLast
<1> QED
  BY <1>1, FeedInvariant, PTL

\* However many searches still listen, at rest the results are the last one's.
THEOREM ResultsCorrect == Spec => []ResultsOfLastSearch
<1>1. FeedInv => ResultsOfLastSearch
  <2> SUFFICES ASSUME FeedInv, AtRest, NEW i \in DOMAIN subs, NEW n \in DOMAIN values,
                      Last(i, "search"), Unbroken(i), Has(subs[i].list, n)
               PROVE  found = values[n].content \cap subs[i].text
    BY DEF ResultsOfLastSearch
  <2>1. i \in 1..joined /\ DOMAIN due = {}
    BY Elements DEF FeedInv, AtRest
  <2> QED
    BY <2>1 DEF FeedInv, LastSearchIsLast
<1> QED
  BY <1>1, FeedInvariant, PTL

\* The results and the cells of their view agree, but for an unanswered search.
THEOREM CellsCorrect == Spec => []CellsMatch
<1>1. FeedInv => CellsMatch
  BY DEF FeedInv
<1> QED
  BY <1>1, FeedInvariant, PTL

\* No screen goes from a value of a list back to an older one, whatever
\* subscription brings it.
THEOREM NeverBackwardsCorrect == Spec => NeverBackwards
<1>1. FeedInv /\ [Next]_vars => [SameList(shown, shown') => shown' >= shown]_shown
  <2> SUFFICES ASSUME FeedInv, [Next]_vars, shown' # shown, SameList(shown, shown')
               PROVE  shown' >= shown
    OBVIOUS
  <2>1. Run
    BY DEF Next, Appear, Search, Join, Arrive, vars
  <2> QED
    BY <2>1, RunShown
<1> QED
  BY <1>1, FeedInvariant, PTL DEF Spec, NeverBackwards
=============================================================================
