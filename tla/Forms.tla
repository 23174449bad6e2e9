-------------------------------- MODULE Forms --------------------------------
(***************************************************************************)
(* The forms of LoginViewController, RegisterViewController and             *)
(* AddProductViewController: streams of field validity (setupRx), the       *)
(* button combineLatest enables, and the guards of the button's action.     *)
(*                                                                         *)
(* A field's text is one of the few kinds its checks tell apart.  Each      *)
(* stream reads the field when its own control target runs; targets run in  *)
(* the order of the subscriptions.                                          *)
(***************************************************************************)
EXTENDS Naturals

Fields == [login    |-> {"email", "password"},
           register |-> {"name", "lastName", "email", "password", "confirm"},
           product  |-> {"name", "price", "condition", "desc", "location", "contact"}]

AllFields == UNION {Fields[f] : f \in DOMAIN Fields}

\* "long" passwords have six characters or more; "zero" is a price of zeros only.
Possible(f) ==
    {""} \cup CASE f = "email" -> {"malformed", "address"}
                [] f \in {"password", "confirm"} -> {"short", "long", "longToo"}
                [] f = "price" -> {"zero", "amount"}
                [] OTHER -> {"text"}

Texts == UNION {Possible(f) : f \in AllFields}
Long  == {"long", "longToo"}

\* Mutant of Formatted: the text is left as it is typed.
FormattedNever(f, t) == t

\* What stays in a field: currencyInputFormatting empties a price of zero.
Formatted(f, t) == IF f = "price" /\ t = "zero" THEN "" ELSE t

\* The streams combineLatest waits for.
Streams == [login    |-> {"email", "password"},
            register |-> {"name", "email", "password", "confirm"},
            product  |-> {"name", "price", "condition", "desc", "location", "contact"}]

\* Mutant of Watches: the confirmation is compared when it is edited itself.
WatchesOne(s) == IF s = "desc" THEN {"condition"} ELSE {s}

\* The fields a stream listens to: the confirmation's is merged from two, the
\* description's listens to the condition.
Watches(s) ==
    CASE s = "confirm" -> {"confirm", "password"}
      [] s = "desc"    -> {"condition"}
      [] OTHER         -> {s}

\* What a stream makes of the texts.
Holds(s, texts) ==
    CASE s = "email"    -> texts.email = "address"
      [] s = "password" -> texts.password \in Long
      [] s = "confirm"  -> texts.confirm = texts.password
      [] s = "desc"     -> texts.condition # ""
      [] OTHER          -> texts[s] # ""

VARIABLES
    form,     \* which form this is
    text,     \* per field: its text
    heard,    \* per stream: its last element, "none" before the first
    enabled,  \* the button is enabled
    picture,  \* the product has a picture
    unseen,   \* history: the picture came after the last element of a stream
    sent      \* the texts the last accepted tap has passed on, if any

vars == <<form, text, heard, enabled, picture, unseen, sent>>

Mine == Streams[form]

Init ==
    /\ form \in DOMAIN Fields
    /\ text = [f \in AllFields |-> ""]
    /\ heard = [s \in Streams[form] |-> "none"]
    /\ enabled = FALSE
    /\ picture = FALSE
    /\ unseen = FALSE
    /\ sent = {}

\* An editing event of f with t typed: the streams on f read the texts in turn,
\* and combineLatest sets the button once each has had an element.  The events
\* of focus repeat the text; the first element of a stream is skipped.
Heard(f, t, read) ==
    /\ t \in Possible(f)
    /\ text' = [text EXCEPT ![f] = Formatted(f, t)]
    /\ heard' = [s \in Mine |->
          IF f \notin Watches(s) THEN heard[s]
          ELSE IF Holds(s, [text EXCEPT ![f] = read]) THEN "yes" ELSE "no"]
    /\ IF (\A s \in Mine : f \notin Watches(s)) \/ (\E s \in Mine : heard'[s] = "none")
       THEN UNCHANGED <<enabled, unseen>>
       ELSE /\ enabled' = ((\A s \in Mine : heard'[s] = "yes") /\ (form = "product" => picture))
            /\ unseen' = FALSE
    /\ UNCHANGED <<form, picture, sent>>

\* Mutant of Edit: the price is reformatted after the others have read it.
EditReadFirst(f, t) == Heard(f, t, t)

\* The subscription that reformats the price is the first made on its field.
Edit(f, t) == Heard(f, t, Formatted(f, t))

\* The picker's picture arrives; no stream listens.
PickPicture ==
    /\ form = "product"
    /\ picture' = TRUE
    /\ unseen' = TRUE
    /\ UNCHANGED <<form, text, heard, enabled, sent>>

\* The guards of loginButtonTapped, registerButtonTapped and didtapTambah.
Guard ==
    CASE form = "login"    -> text.email # "" /\ text.password \in Long
      [] form = "register" -> /\ \A f \in {"email", "name", "lastName"} : text[f] # ""
                              /\ text.password \in Long
      [] form = "product"  -> picture

\* The button is tapped: the texts are passed on, or an alert shown.
Tap ==
    /\ enabled
    /\ sent' = IF Guard THEN {text} ELSE sent
    /\ UNCHANGED <<form, text, heard, enabled, picture, unseen>>

Next ==
    \/ \E f \in AllFields : f \in Fields[form] /\ \E t \in Texts : Edit(f, t)
    \/ PickPicture \/ Tap

Spec == Init /\ [][Next]_vars
-----------------------------------------------------------------------------
(* Properties *)

\* Every variable keeps its type; no price of zero stays in its field.
FormTypeOK ==
    /\ form \in DOMAIN Fields
    /\ text \in [AllFields -> Texts]
    /\ \A f \in AllFields : text[f] \in Possible(f) \ {"zero"}
    /\ heard \in [Mine -> {"none", "yes", "no"}]
    /\ enabled \in BOOLEAN /\ picture \in BOOLEAN /\ unseen \in BOOLEAN
    /\ sent \subseteq [AllFields -> Texts]

\* The button tells the truth: it is enabled exactly if every stream has spoken and
\* all that the form checks holds of the texts as they stand, whatever order the
\* fields were filled and changed in; unless the picture came last.
ButtonHonest ==
    LET valid == /\ \A s \in Mine : heard[s] # "none" /\ Holds(s, text)
                 /\ form = "product" => picture
    IN  /\ enabled => valid
        /\ valid => enabled \/ unseen

\* What is passed on is complete, though didtapTambah itself looks at no text:
\* every field is filled but the product's description, an address is an address
\* (a price an amount), and a new account's passwords agree.
SentIsComplete ==
    \A t \in sent :
        /\ \A f \in Fields[form] \ {"desc"} : t[f] # ""
        /\ form # "product" => t.email = "address" /\ t.password \in Long
        /\ form = "register" => t.confirm = t.password
=============================================================================
