---------------------------- MODULE MCPublishLost ----------------------------
(***************************************************************************)
(* Two phones with an account each, and of the behaviours of insertProduct  *)
(* those in which each phone serves what is on its main queue in order.     *)
(***************************************************************************)
EXTENDS ProductInsert

TwoPhones ==
    \A p, q \in Products : p # q =>
        form[p].dev # form[q].dev /\ form[p].owner # form[q].owner

\* The read of "products" is attached first and answered from Home's cache at
\* once, so its callback runs before that of "category"; and a completion block
\* runs after the callbacks that are due already.
InOrder ==
    \A p \in Products :
        /\ head[p]["category"] = "asked" /\ head'[p]["category"] = "raised"
              => head[p]["products"] # "asked"
        /\ head[p]["category"] = "raised" /\ head'[p]["category"] = "queued"
              => head[p]["products"] # "raised"
        /\ Len(pending'[form[p].dev]) < Len(pending[form[p].dev])
              => \A h \in ReadHeads : head[p][h] # "raised"

PhonesSpec == Init /\ TwoPhones /\ [][Next /\ InOrder]_vars
=============================================================================
