-------------------------------- MODULE Feeds --------------------------------
(***************************************************************************)
(* The screens that follow a list of the database (HomeViewController,      *)
(* MyProductViewController, FavoriteViewController) and the search          *)
(* (ResultViewController).  Each appearance and each search subscribes      *)
(* anew and never unsubscribes; the SDK hands every new value to all        *)
(* subscriptions of the list, one block on the main queue for each, and a   *)
(* new subscription the value it has.                                       *)
(*                                                                         *)
(* One screen of one process.  Home and the search follow the products;     *)
(* My Products and Favorites, which outlive an account, subscribe to the    *)
(* list of the email that is in the defaults when they appear, any at each  *)
(* appearance.                                                              *)
(***************************************************************************)
EXTENDS Naturals, Sequences

CONSTANTS
    Products,           \* what a list can hold
    ProductsNode,       \* the list of all products
    Lists,              \* the accounts' lists of products, or of favorites
    MaxValues,          \* bound: values the lists take
    MaxSubscriptions    \* bound: appearances and searches

ASSUME FeedsAssumption ==
    MaxValues \in Nat /\ MaxSubscriptions \in Nat

Screens == {"home", "mine", "favorites"}

\* What a list holds; none stands for a value that is not a list, or one with an
\* entry that lacks a field: the subscription ends with an error.
Contents == SUBSET Products
NotAList == {}

\* A value that one of the lists has taken.
Values == [list : {ProductsNode} \cup Lists, content : Contents]

\* A subscription: what it feeds; its list; for a search, the products whose names
\* contain its text; how many values there had been by then; not ended by an error;
\* answered.
Subscriptions ==
    [to : {"screen", "search"}, list : {ProductsNode} \cup Lists, text : SUBSET Products,
     since : 0..MaxValues, open : BOOLEAN, answered : BOOLEAN]

\* A block due on the main queue: the event with the n-th value for a
\* subscription, or the nested block that shows it.
Blocks == [kind : {"event", "show"}, sub : 1..MaxSubscriptions, value : 1..MaxValues]

VARIABLES
    screen,  \* which screen this is
    values,  \* the values of the lists so far, as the SDK has got them
    subs,    \* the subscriptions, oldest first
    joined,  \* how many of them the SDK's queue has registered
    due,     \* the main queue
    shown,   \* number of the value the screen shows; 0 before the first
    found,   \* filteredItems of the search
    laid     \* the results its collection view has last loaded

vars == <<screen, values, subs, joined, due, shown, found, laid>>

Init ==
    /\ screen \in Screens
    /\ values = <<>>
    /\ subs = <<>>
    /\ joined = 0
    /\ due = <<>>
    /\ shown = 0
    /\ found = {}
    /\ laid = {}

Event(i, n) == [kind |-> "event", sub |-> i, value |-> n]

\* The n-th value is the one list l has.
Has(l, n) ==
    /\ n \in DOMAIN values /\ values[n].list = l
    /\ \A m \in DOMAIN values : m > n => values[m].list # l

\* The lists the screen may subscribe to.
Paths == IF screen = "home" THEN {ProductsNode} ELSE Lists

Subscribed(to, l, text) ==
    /\ Len(subs) < MaxSubscriptions
    /\ subs' = Append(subs, [to |-> to, list |-> l, text |-> text, since |-> Len(values),
                             open |-> TRUE, answered |-> FALSE])

\* What the mutants of Appear and Search do: only the first time they subscribe,
\* later the subscription of the first time is to serve.
SubscribedOnce(to, l, text) ==
    IF \A i \in DOMAIN subs : subs[i].to # to THEN Subscribed(to, l, text)
    ELSE subs' = [i \in DOMAIN subs |->
             IF subs[i].to = to THEN [subs[i] EXCEPT !.since = Len(values)] ELSE subs[i]]

-----------------------------------------------------------------------------
\* Mutant of Appear: the screen subscribes the first time only (viewDidLoad).
AppearOnce(l) ==
    /\ SubscribedOnce("screen", l, {})
    /\ UNCHANGED <<screen, values, joined, due, shown, found, laid>>

\* viewWillAppear.  Without an email My Products and Favorites do nothing.
Appear(l) ==
    /\ Subscribed("screen", l, {})
    /\ UNCHANGED <<screen, values, joined, due, shown, found, laid>>

\* Mutant of Search: hasFetched is looked at, later searches do not subscribe.
SearchOnce(text) ==
    /\ screen = "home"
    /\ found' = {}
    /\ SubscribedOnce("search", ProductsNode, text)
    /\ UNCHANGED <<screen, values, joined, due, shown, laid>>

\* searchBarSearchButtonClicked: the results are emptied without reloading their
\* view, and search(name:) subscribes.
Search(text) ==
    /\ screen = "home"
    /\ found' = {}
    /\ Subscribed("search", ProductsNode, text)
    /\ UNCHANGED <<screen, values, joined, due, shown, laid>>

\* The SDK registers the next subscription; if it has the list's value, the event
\* goes to the new subscription alone.
Join ==
    /\ joined < Len(subs)
    /\ joined' = joined + 1
    /\ LET l == subs[joined + 1].list IN
          \/ (\A n \in DOMAIN values : ~Has(l, n)) /\ due' = due
          \/ \E n \in DOMAIN values : Has(l, n) /\ due' = Append(due, Event(joined + 1, n))
    /\ UNCHANGED <<screen, values, subs, shown, found, laid>>

\* The registered subscriptions of l, in the order they were registered.
Listeners(l, order) ==
    /\ \A j, k \in DOMAIN order : j < k => order[j] < order[k]
    /\ {order[k] : k \in DOMAIN order} = {i \in 1..joined : subs[i].list = l}

\* A list takes a new value, from the server or from a write of this device:
\* one event for every subscription of it.
Arrive(l, c) ==
    /\ Len(values) < MaxValues
    /\ \A n \in DOMAIN values : Has(l, n) => values[n].content # c
    /\ values' = Append(values, [list |-> l, content |-> c])
    /\ \E order \in UNION {[1..n -> 1..joined] : n \in 1..joined} :
          /\ Listeners(l, order)
          /\ due' = due \o [k \in DOMAIN order |-> Event(order[k], Len(values) + 1)]
    /\ UNCHANGED <<screen, subs, joined, shown, found, laid>>

-----------------------------------------------------------------------------
(* The main queue *)

\* A block is taken off the queue, and nested blocks go to its end.
Take(i, nested) ==
    due' = SubSeq(due, 1, i - 1) \o SubSeq(due, i + 1, Len(due)) \o nested

\* What the list of a block holds in its value.
Content(i) == values[due[i].value].content

Answered(s, open) == subs' = [subs EXCEPT ![s].answered = TRUE, ![s].open = open]

\* The event of a subscription that has ended: nothing.
Ignored(i) ==
    /\ due[i].kind = "event" /\ ~subs[due[i].sub].open
    /\ Take(i, <<>>)
    /\ UNCHANGED <<subs, shown, found, laid>>

\* The value is not a list: onError, which ends the subscription.
Error(i) ==
    /\ due[i].kind = "event" /\ subs[due[i].sub].open
    /\ Content(i) = NotAList
    /\ Take(i, <<>>)
    /\ Answered(due[i].sub, FALSE)
    /\ UNCHANGED <<shown, found, laid>>

\* The shape FeedScreen and its mutant share: Home and My Products show the value
\* in a block of their own, Favorites at once.
FedScreen(i, nested) ==
    /\ due[i].kind = "event" /\ subs[due[i].sub].open
    /\ subs[due[i].sub].to = "screen"
    /\ Content(i) # NotAList
    /\ IF screen = "favorites" THEN Take(i, <<>>) /\ shown' = due[i].value
       ELSE Take(i, nested) /\ UNCHANGED shown
    /\ Answered(due[i].sub, TRUE)
    /\ UNCHANGED <<found, laid>>

\* Mutant of FeedScreen: a block that is due already is taken to be enough.
FeedScreenDebounced(i) ==
    FedScreen(i, IF \E k \in DOMAIN due : due[k].kind = "show" THEN <<>>
                 ELSE << [due[i] EXCEPT !.kind = "show"] >>)

\* onNext of a screen's subscription.
FeedScreen(i) == FedScreen(i, << [due[i] EXCEPT !.kind = "show"] >>)

\* itemsProduct and the collection view take the value.
Show(i) ==
    /\ due[i].kind = "show"
    /\ Take(i, <<>>)
    /\ shown' = due[i].value
    /\ UNCHANGED <<subs, found, laid>>

\* The shape FeedSearch and its mutants share.
FedSearch(i, matching, reloaded) ==
    /\ due[i].kind = "event" /\ subs[due[i].sub].open
    /\ subs[due[i].sub].to = "search"
    /\ Content(i) # NotAList
    /\ Take(i, <<>>)
    /\ Answered(due[i].sub, TRUE)
    /\ found' = matching
    /\ laid' = reloaded
    /\ UNCHANGED shown

Matching(i) == Content(i) \cap subs[due[i].sub].text

\* Mutants of FeedSearch: the results are wrapped in an array of their own; the
\* view is reloaded only if the results were empty.
FeedSearchNested(i) == FedSearch(i, {Matching(i)}, {Matching(i)})
FeedSearchLazy(i) == FedSearch(i, Matching(i), IF found = {} THEN Matching(i) ELSE laid)

\* onNext of a search's subscription: filter by its own text, reload.
FeedSearch(i) == FedSearch(i, Matching(i), Matching(i))

RunBlock(i) ==
    /\ \/ Ignored(i) \/ Error(i) \/ FeedScreen(i) \/ Show(i) \/ FeedSearch(i)
    /\ UNCHANGED <<screen, values, joined>>

\* Mutant of Run: blocks run in any order (a concurrent queue).
RunAny == \E i \in DOMAIN due : RunBlock(i)

\* The main queue runs its oldest block.
Run == due # <<>> /\ RunBlock(1)

Next ==
    \/ \E l \in Paths : Appear(l)
    \/ \E text \in SUBSET Products : Search(text)
    \/ Join
    \/ \E l \in Paths, c \in Contents : Arrive(l, c)
    \/ Run

Spec == Init /\ [][Next]_vars

\* The main queue and the SDK's queue run what is on them.
Fairness == WF_vars(Run) /\ WF_vars(Join)

FairSpec == Spec /\ Fairness
-----------------------------------------------------------------------------
(* Properties *)

\* Every variable keeps its type; blocks are for registered subscriptions and
\* values that have come.
FeedTypeOK ==
    /\ screen \in Screens
    /\ values \in Seq(Values) /\ Len(values) <= MaxValues
    /\ subs \in Seq(Subscriptions) /\ Len(subs) <= MaxSubscriptions
    /\ joined \in 0..Len(subs)
    /\ due \in Seq(Blocks)
    /\ \A i \in DOMAIN due : due[i].sub <= joined /\ due[i].value <= Len(values)
    /\ shown \in 0..Len(values)
    /\ found \in SUBSET Products /\ laid \in SUBSET Products

\* The n-th and the m-th value are of one list.
SameList(n, m) ==
    n \in DOMAIN values /\ m \in DOMAIN values /\ values[n].list = values[m].list

\* A screen never goes from a value of a list back to an older one of it, whichever
\* of its subscriptions the newer one came through.
NeverBackwards == [][SameList(shown, shown') => shown' >= shown]_shown

\* Nothing is due on either queue.
AtRest == due = <<>> /\ joined = Len(subs)

\* The n-th value was replaced before subscription i was made.
Past(i, n) ==
    \E m \in DOMAIN values : n < m /\ m <= subs[i].since /\ values[m].list = subs[i].list

\* No value that subscription i could be sent ends it.
Unbroken(i) ==
    \A n \in DOMAIN values :
        values[n].list = subs[i].list /\ ~Past(i, n) => values[n].content # NotAList

\* The last subscription of the screen, or of the search.
Last(i, to) ==
    /\ i \in DOMAIN subs /\ subs[i].to = to
    /\ \A k \in DOMAIN subs : k > i => subs[k].to # to

\* No other list has taken a value since i was made.
Alone(i) == \A n \in DOMAIN values : n > subs[i].since => values[n].list = subs[i].list

\* At rest a screen shows what the list of the account it last appeared for has,
\* unless a value since was no list: coming back heals a subscription that has
\* ended, and takes the screen from an earlier account.  But an earlier account's
\* listener takes it back with the next value of its list.
NewestAtRest ==
    AtRest => \A i \in DOMAIN subs, n \in DOMAIN values :
        Last(i, "screen") /\ Unbroken(i) /\ Alone(i) /\ Has(subs[i].list, n) => shown = n

\* At rest the results are those of the last search in the newest value, for all
\* that the earlier searches still listen; unless a value since was no list.
ResultsOfLastSearch ==
    AtRest => \A i \in DOMAIN subs, n \in DOMAIN values :
        Last(i, "search") /\ Unbroken(i) /\ Has(subs[i].list, n)
            => found = values[n].content \cap subs[i].text

\* The results' view and its array differ, so that a cell asked for can be out of
\* range, only while the last search has no answer or has ended in an error.
CellsMatch ==
    laid # found => \E i \in DOMAIN subs :
        Last(i, "search") /\ (~subs[i].answered \/ ~subs[i].open)

\* A value that comes after a screen has subscribed to its list is shown in the
\* end, or a newer one of the list, unless an error has ended the subscription or
\* another account's list has come in between.
ScreenCatchesUp ==
    \A i \in 1..MaxSubscriptions, n \in 1..MaxValues :
        /\ i <= Len(subs) /\ n <= Len(values)
        /\ subs[i].to = "screen" /\ values[n].list = subs[i].list /\ ~Past(i, n)
        ~> \/ SameList(n, shown) /\ shown >= n
           \/ \E k \in DOMAIN subs : k = i /\ ~subs[k].open
           \/ \E k \in DOMAIN subs : k > i /\ subs[k].list # subs[i].list
           \/ \E k \in DOMAIN subs : k = i /\ ~Alone(i)
=============================================================================
