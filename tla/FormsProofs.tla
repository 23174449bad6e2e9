----------------------------- MODULE FormsProofs -----------------------------
(***************************************************************************)
(* Proofs about the forms.                                                  *)
(***************************************************************************)
EXTENDS Forms, TLAPS

\* What ButtonHonest needs: a stream's last element is what it would say now,
\* for all that it only speaks when one of its fields is edited.
HeardIsNow == \A s \in Mine : heard[s] # "none" => (heard[s] = "yes" <=> Holds(s, text))

FormInv == FormTypeOK /\ HeardIsNow /\ ButtonHonest /\ SentIsComplete

\* The three forms and their fields, one by one.
LEMMA TheForms ==
    /\ DOMAIN Fields = {"login", "register", "product"}
    /\ DOMAIN Streams = {"login", "register", "product"}
    /\ Fields["login"] = {"email", "password"}
    /\ Fields["register"] = {"name", "lastName", "email", "password", "confirm"}
    /\ Fields["product"] = {"name", "price", "condition", "desc", "location", "contact"}
    /\ Streams["login"] = {"email", "password"}
    /\ Streams["register"] = {"name", "email", "password", "confirm"}
    /\ Streams["product"] = {"name", "price", "condition", "desc", "location", "contact"}
BY DEF Fields, Streams

\* All fields there are.
LEMMA TheFields ==
    AllFields = {"email", "password", "name", "lastName", "confirm", "price",
                 "condition", "desc", "location", "contact"}
<1>1. \A f : f \in AllFields <=> \E g \in DOMAIN Fields : f \in Fields[g]
  BY DEF AllFields
<1> QED
  BY <1>1, TheForms

\* What a field may hold after formatting.
LEMMA FormattedType ==
    ASSUME NEW f \in AllFields, NEW t \in Possible(f)
    PROVE  /\ Formatted(f, t) \in Possible(f) \ {"zero"}
           /\ Formatted(f, t) \in Texts
<1>1. Formatted(f, t) \in Possible(f)
  BY DEF Formatted, Possible
<1>2. Formatted(f, t) # "zero"
  BY DEF Formatted, Possible
<1>3. Possible(f) \subseteq Texts
  BY DEF Texts
<1> QED
  BY <1>1, <1>2, <1>3

\* A stream does not depend on a field it does not listen to.
LEMMA HoldsLocal ==
    ASSUME NEW t \in [AllFields -> Texts], NEW f \in AllFields, NEW x \in Texts,
           NEW s \in AllFields, f \notin Watches(s)
    PROVE  Holds(s, [t EXCEPT ![f] = x]) <=> Holds(s, t)
<1>1. \A g \in AllFields : g # f => [t EXCEPT ![f] = x][g] = t[g]
  OBVIOUS
<1>2. CASE s = "confirm"
  <2>1. f # "confirm" /\ f # "password"
    BY <1>2 DEF Watches
  <2> QED
    BY <1>1, <1>2, <2>1, TheFields DEF Holds
<1>3. CASE s = "desc"
  <2>1. f # "condition"
    BY <1>3 DEF Watches
  <2> QED
    BY <1>1, <1>3, <2>1, TheFields DEF Holds
<1>4. CASE s \notin {"confirm", "desc"}
  <2>1. f # s
    BY <1>4 DEF Watches
  <2> QED
    BY <1>1, <1>4, <2>1, TheFields DEF Holds
<1> QED
  BY <1>2, <1>3, <1>4

\* The streams of a form listen to fields, and are named after one.
LEMMA StreamsAreFields == ASSUME FormTypeOK PROVE Mine \subseteq AllFields
BY TheForms, TheFields DEF FormTypeOK, Mine

-----------------------------------------------------------------------------
\* Initially no stream has spoken and the button is disabled.
LEMMA FormInitially == Init => FormInv
<1> SUFFICES ASSUME Init PROVE FormInv
  OBVIOUS
<1>1. FormTypeOK
  <2>1. \A f \in AllFields : "" \in Possible(f) \ {"zero"} /\ "" \in Texts
    BY DEF Possible, Texts
  <2> QED
    BY <2>1 DEF Init, FormTypeOK, Mine
<1>2. \A s \in Mine : heard[s] = "none"
  BY DEF Init, Mine
<1>3. Mine # {}
  BY TheForms DEF Init, Mine
<1> QED
  BY <1>1, <1>2, <1>3 DEF FormInv, HeardIsNow, ButtonHonest, SentIsComplete, Init

\* An edited field: every stream that listens speaks of the texts as they are now.
LEMMA EditKeeps ==
    ASSUME FormInv, NEW f \in AllFields, NEW t \in Texts, Edit(f, t)
    PROVE  FormInv'
<1> DEFINE new == [text EXCEPT ![f] = Formatted(f, t)]
<1>1. /\ t \in Possible(f)
      /\ text' = new
      /\ heard' = [s \in Mine |-> IF f \notin Watches(s) THEN heard[s]
                                  ELSE IF Holds(s, new) THEN "yes" ELSE "no"]
      /\ UNCHANGED <<form, picture, sent>>
  BY DEF Edit, Heard
<1>2. Mine' = Mine /\ Mine \subseteq AllFields /\ text \in [AllFields -> Texts]
  BY <1>1, StreamsAreFields DEF Mine, FormInv, FormTypeOK
<1> HIDE DEF new
<1>2a. ASSUME NEW s \in Mine, f \notin Watches(s)
      PROVE  Holds(s, text') <=> Holds(s, text)
  <2>1. s \in AllFields /\ Formatted(f, t) \in Texts
    BY <1>1, <1>2, FormattedType
  <2>2. Holds(s, [text EXCEPT ![f] = Formatted(f, t)]) <=> Holds(s, text)
    BY <1>2, <1>2a, <2>1, HoldsLocal
  <2> QED
    BY <1>1, <2>2 DEF new
<1>3. FormTypeOK'
  <2>1. text' \in [AllFields -> Texts] /\ \A g \in AllFields : text'[g] \in Possible(g) \ {"zero"}
    BY <1>1, FormattedType DEF FormInv, FormTypeOK, new
  <2>2. heard' \in [Mine -> {"none", "yes", "no"}]
    BY <1>1 DEF FormInv, FormTypeOK
  <2>3. enabled' \in BOOLEAN /\ unseen' \in BOOLEAN
    BY DEF Edit, Heard, FormInv, FormTypeOK
  <2> QED
    BY <1>1, <1>2, <2>1, <2>2, <2>3 DEF FormInv, FormTypeOK
<1>4. ASSUME NEW s \in Mine
      PROVE  heard'[s] # "none" => (heard'[s] = "yes" <=> Holds(s, text'))
  <2>1. CASE f \in Watches(s)
    BY <1>1, <2>1
  <2>2. CASE f \notin Watches(s)
    <3>1. Holds(s, text') <=> Holds(s, text)
      BY <1>2a, <2>2
    <3> QED
      BY <1>1, <2>2, <3>1 DEF FormInv, HeardIsNow
  <2> QED
    BY <2>1, <2>2
<1>5. ButtonHonest'
  <2> DEFINE valid == /\ \A s \in Mine : heard[s] # "none" /\ Holds(s, text)
                      /\ form = "product" => picture
  <2>1. CASE ~((\A s \in Mine : f \notin Watches(s)) \/ (\E s \in Mine : heard'[s] = "none"))
    <3>1. enabled' = ((\A s \in Mine : heard'[s] = "yes") /\ (form = "product" => picture))
      BY <2>1 DEF Edit, Heard
    <3>2. \A s \in Mine : heard'[s] = "yes" <=> heard'[s] # "none" /\ Holds(s, text')
      BY <1>4, <2>1
    <3> QED
      BY <1>1, <1>2, <2>1, <3>1, <3>2 DEF ButtonHonest
  <2>2. CASE \A s \in Mine : f \notin Watches(s)
    <3>1. enabled' = enabled /\ unseen' = unseen
      BY <2>2 DEF Edit, Heard
    <3>2. \A s \in Mine : heard'[s] = heard[s] /\ (Holds(s, text') <=> Holds(s, text))
      BY <1>1, <1>2a, <2>2
    <3> QED
      BY <1>1, <1>2, <3>1, <3>2 DEF ButtonHonest, FormInv
  <2>3. CASE \E s \in Mine : heard'[s] = "none"
    <3>1. enabled' = enabled /\ unseen' = unseen
      BY <2>3 DEF Edit, Heard
    <3>2. PICK s \in Mine : heard'[s] = "none"
      BY <2>3
    <3>3. heard[s] = "none"
      BY <1>1, <3>2
    <3> QED
      BY <1>1, <1>2, <3>1, <3>2, <3>3 DEF ButtonHonest, FormInv
  <2> QED
    BY <2>1, <2>2, <2>3
<1>6. SentIsComplete'
  BY <1>1 DEF SentIsComplete, FormInv
<1> QED
  BY <1>2, <1>3, <1>4, <1>5, <1>6 DEF FormInv, HeardIsNow

\* The picture: the button, if it is enabled, has had one all along.
LEMMA PickPictureKeeps == ASSUME FormInv, PickPicture PROVE FormInv'
<1>1. Mine' = Mine /\ UNCHANGED <<form, text, heard, enabled, sent>> /\ picture' = TRUE /\ unseen' = TRUE
  BY DEF PickPicture, Mine
<1> QED
  BY <1>1 DEF FormInv, FormTypeOK, HeardIsNow, ButtonHonest, SentIsComplete

\* A tap: an enabled button and the guard together leave no field out.
LEMMA TapKeeps == ASSUME FormInv, Tap PROVE FormInv'
<1>1. Mine' = Mine /\ UNCHANGED <<form, text, heard, enabled, picture, unseen>>
  BY DEF Tap, Mine
<1>2. FormTypeOK' /\ HeardIsNow' /\ ButtonHonest'
  BY <1>1 DEF Tap, FormInv, FormTypeOK, HeardIsNow, ButtonHonest
<1>3. \A s \in Mine : Holds(s, text)
  BY DEF Tap, FormInv, ButtonHonest
<1>4. ASSUME Guard
      PROVE  /\ \A f \in Fields[form] \ {"desc"} : text[f] # ""
             /\ form # "product" => text.email = "address" /\ text.password \in Long
             /\ form = "register" => text.confirm = text.password
  <2>1. CASE form = "login"
    BY <1>3, <2>1, TheForms DEF Mine, Holds, Long
  <2>2. CASE form = "register"
    <3>1. text["email"] = "address" /\ text["password"] \in Long /\ text["confirm"] = text["password"]
          /\ text["name"] # ""
      BY <1>3, <2>2, TheForms DEF Mine, Holds
    <3>2. text["lastName"] # ""
      BY <1>4, <2>2 DEF Guard
    <3> QED
      BY <2>2, <3>1, <3>2, TheForms DEF Long
  <2>3. CASE form = "product"
    <3>1. \A s \in Fields["product"] \ {"desc"} : text[s] # ""
      BY <1>3, <2>3, TheForms DEF Mine, Holds
    <3> QED
      BY <2>3, <3>1
  <2> QED
    BY <2>1, <2>2, <2>3, TheForms DEF FormInv, FormTypeOK
<1>5. SentIsComplete'
  BY <1>1, <1>4 DEF Tap, SentIsComplete, FormInv
<1> QED
  BY <1>2, <1>5 DEF FormInv

\* Every step keeps the invariant.
LEMMA FormStep == FormInv /\ [Next]_vars => FormInv'
<1> SUFFICES ASSUME FormInv, [Next]_vars PROVE FormInv'
  OBVIOUS
<1>1. CASE UNCHANGED vars
  BY <1>1 DEF vars, FormInv, FormTypeOK, HeardIsNow, ButtonHonest, SentIsComplete, Mine
<1> QED
  BY <1>1, EditKeeps, PickPictureKeeps, TapKeeps DEF Next

\* FormInv is an invariant.
LEMMA FormInvariant == Spec => []FormInv
<1> QED
  BY FormInitially, FormStep, PTL DEF Spec

\* The forms are well typed in every reachable state.
THEOREM FormTypeCorrect == Spec => []FormTypeOK
<1>1. FormInv => FormTypeOK
  BY DEF FormInv
<1> QED
  BY <1>1, FormInvariant, PTL

\* The button of every form (setupRx) is honest in every reachable state.
THEOREM ButtonCorrect == Spec => []ButtonHonest
<1>1. FormInv => ButtonHonest
  BY DEF FormInv
<1> QED
  BY <1>1, FormInvariant, PTL

\* No incomplete form is passed on by any of the three buttons.
THEOREM SentCorrect == Spec => []SentIsComplete
<1>1. FormInv => SentIsComplete
  BY DEF FormInv
<1> QED
  BY <1>1, FormInvariant, PTL
=============================================================================
