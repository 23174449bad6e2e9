------------------------------ MODULE Catalogue ------------------------------
(***************************************************************************)
(* What publishing promises the marketplace, without clients or messages:   *)
(* a set of shelves, each a sequence of products.  A shelf that only one    *)
(* publication works on at a time is a log: a product is put at its end and *)
(* nothing ever leaves it.  Once two publications have worked on a shelf at *)
(* the same time, or one from an old value of it, it is contended, and a    *)
(* step may replace it by anything that shows no product twice and is not   *)
(* empty: products may be lost, or return, but a shelf is never emptied.    *)
(***************************************************************************)
EXTENDS Naturals, Sequences

CONSTANTS Shelves, Items

VARIABLES
    shelf,      \* [Shelves -> Seq(Items)]
    contended   \* shelves that no longer are worked on by one at a time

Distinct(s) == \A i, j \in DOMAIN s : s[i] = s[j] => i = j

Init ==
    /\ shelf = [s \in Shelves |-> <<>>]
    /\ contended = {}

\* Two publications meet on some shelves, or one meets its past.
Meet == /\ contended' \in {contended \cup met : met \in SUBSET Shelves}
        /\ UNCHANGED shelf

\* A product takes the place behind the last one.
PlaceLast(s) ==
    /\ \E i \in Items : /\ \A k \in DOMAIN shelf[s] : shelf[s][k] # i
                        /\ shelf' = [shelf EXCEPT ![s] = Append(@, i)]
    /\ UNCHANGED contended

\* A contended shelf is replaced.
Replace(s) ==
    /\ s \in contended
    /\ shelf' = [shelf EXCEPT ![s] = shelf'[s]]
    /\ shelf'[s] # <<>>
    /\ Distinct(shelf'[s])
    /\ UNCHANGED contended

Next == Meet \/ \E s \in Shelves : PlaceLast(s) \/ Replace(s)

Spec == Init /\ [][Next]_<<shelf, contended>>
=============================================================================
