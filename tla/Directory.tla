------------------------------ MODULE Directory ------------------------------
(***************************************************************************)
(* What registration promises the marketplace, without clients, sessions or *)
(* messages: people get a home, for good, and enter a directory that lists   *)
(* homes.  As long as they enter one after the other the directory is a log: *)
(* a name is put at its end, none leaves it, and nobody enters twice unless  *)
(* two have crowded into his home.  Once two have hurried to the directory   *)
(* at the same time a step may replace it: names may be lost or return, but  *)
(* it is never emptied and lists no one who has no home.                     *)
(***************************************************************************)
EXTENDS Naturals, Sequences

CONSTANT Members

VARIABLES
    homes,      \* who has a home, a set of Members
    directory,  \* the names in it, a sequence of Members
    crowded,    \* homes two have been at once
    hurried     \* two have been at the directory at once

vars == <<homes, directory, crowded, hurried>>

Names(s) == {s[i] : i \in DOMAIN s}

\* Nobody is in s twice but those whose homes are crowded.
Once(s) == \A i, j \in DOMAIN s : s[i] = s[j] => i = j \/ s[i] \in crowded

Init ==
    /\ crowded = {} /\ hurried = FALSE
    /\ homes = Names(directory) /\ homes \subseteq Members
    /\ Once(directory)

\* Someone gets a home.
Settle(m) ==
    /\ homes' = homes \cup {m}
    /\ UNCHANGED <<directory, crowded, hurried>>

\* Someone who has a home takes the place behind the last name.
Enter(m) ==
    /\ m \in homes
    /\ m \notin Names(directory) \/ m \in crowded
    /\ directory' = Append(directory, m)
    /\ UNCHANGED <<homes, crowded, hurried>>

\* After a hurry the directory is replaced.
Replace ==
    /\ hurried
    /\ directory' # <<>>
    /\ Names(directory') \subseteq homes /\ Once(directory')
    /\ UNCHANGED <<homes, crowded, hurried>>

\* Two meet in a home, or at the directory.
Meet ==
    /\ crowded \subseteq crowded' /\ crowded' \subseteq Members
    /\ hurried' \in {hurried, TRUE}
    /\ UNCHANGED <<homes, directory>>

Next == Replace \/ Meet \/ \E m \in Members : Settle(m) \/ Enter(m)

Spec == Init /\ [][Next]_vars
=============================================================================
