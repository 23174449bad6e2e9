------------------------------- MODULE Account -------------------------------
(***************************************************************************)
(* Accounts and sessions: registering, logging in and signing in with       *)
(* Google (RegisterViewController, LoginViewController,                     *)
(* WelcomeViewController), logging out (ProfileViewController), and         *)
(* DatabaseManager.userExist and insertUser.                                *)
(*                                                                         *)
(* An account lives in four places that nothing keeps together: Firebase    *)
(* Auth (the accounts, and each device's session), the user node, the       *)
(* "users" list, and the device's UserDefaults.  Publishing, which goes by  *)
(* the session, is here as what insertProduct does to the user node.        *)
(***************************************************************************)
EXTENDS RealtimeDatabase, FiniteSets

CONSTANTS
    Emails,      \* addresses people register and sign in with
    Attempts,    \* taps on Daftar, Masuk or the Google button
    NoEmail,     \* no session, or nothing stored in the defaults
    MaxDenied,   \* bound: how many jobs the database denies
    MaxFaults    \* bound: processes killed and connections broken

UsersNode == "users"

ASSUME AccountAssumption ==
    /\ NoEmail \notin Emails
    /\ UsersNode \notin Users
    /\ Attempts \cap Products = {}
    /\ MaxDenied \in Nat /\ MaxFaults \in Nat

Jobs == Attempts \cup Products

Ways == {"register", "login", "google"}

\* A node: the product list of a user node, or the list of users; in a user
\* node also whose name it carries.
Entry    == [there : BOOLEAN, list : Seq(Products \cup Users), name : Emails \cup {NoEmail}]
NoEntry  == [there |-> FALSE, list |-> <<>>, name |-> NoEmail]
NewUser(e) == [there |-> TRUE, list |-> <<>>, name |-> e]
Paths    == Users \cup {UsersNode, ProductsNode}

\* The database's part of a job: reading the user node (asked, raised), found no
\* node and creating the account (free), writing the user node (node), and for
\* insertUser reading and writing the list of users (listAsked, listRaised, list).
DbStages == {"none", "asked", "raised", "free", "node", "listAsked", "listRaised",
             "list", "done", "failed", "over", "notFound", "dead"}

\* Auth's part of an attempt: asked; granted, its callback due; over; performed
\* while the answer was lost; or the process ended first.
AuthStages == {"none", "sent", "granted", "over", "lost", "dead"}

VARIABLES
    accounts,    \* Auth's server: per address, the ways it can be signed in to
    session,     \* per device: Auth.currentUser
    defEmail,    \* per device: "email" in UserDefaults
    defName,     \* per device: whose "name" is in UserDefaults
    welcome,     \* per device: WelcomeViewController is presented over the tabs
    alert,       \* per device: an alert is presented over it
    safe,        \* safeEmail: the user node of each address
    form,        \* per attempt: its way, device and address
    page,        \* per attempt: its view controller is on the stack, or gone
    from,        \* per publication: its device
    owner,       \* per publication: the address taken from the session
    db,          \* per job: its part in the database
    auth,        \* per attempt: its part in Auth
    snap,        \* per job: the snapshot its callback is handed
    denied,      \* jobs whose writes the database denies
    faults,      \* how many of the MaxFaults have happened
    crossed,     \* history: user nodes on which two jobs were in each other's way
    listShared,  \* history: two attempts worked on the list of users at once
    unsettled    \* history: devices whose defaults and session were set apart

deviceVars == <<session, defEmail, defName, welcome, alert>>
jobVars    == <<page, owner, db, auth, snap>>
fixed      == <<safe, form, from>>
bounds     == <<denied, faults>>
histVars   == <<crossed, listShared, unsettled>>
vars       == <<dbVars, accounts, deviceVars, fixed, jobVars, bounds, histVars>>

DeviceOf(j) == IF j \in Products THEN from[j] ELSE form[j].dev
NodeOf(j)   == safe[IF j \in Products THEN owner[j] ELSE form[j].email]

\* A job is not done with its user node, which logging in only reads; an attempt
\* is under way at all.
OnNode(j) == /\ db[j] \in {"asked", "raised", "free", "node"}
             /\ j \in Attempts => form[j].way # "login"
Busy(a)   == \/ db[a] \in {"asked", "raised", "free", "node", "listAsked", "listRaised", "list"}
             \/ auth[a] \in {"sent", "granted"}
Quiet(d)  == \A a \in Attempts : form[a].dev = d => ~Busy(a)

Init ==
    /\ safe \in [Emails -> Users]
    /\ \E n \in 0..Cardinality(Emails) : \E old \in [1..n -> Emails] :
          /\ \A i, j \in 1..n : safe[old[i]] = safe[old[j]] => i = j
          /\ accounts = [e \in Emails |->
                IF \E i \in 1..n : old[i] = e THEN {"login"} ELSE {}]
          /\ tree = [p \in Paths |->
                IF \E i \in 1..n : safe[old[i]] = p
                THEN NewUser(old[CHOOSE i \in 1..n : safe[old[i]] = p])
                ELSE IF p = UsersNode /\ n > 0
                THEN [there |-> TRUE, list |-> [i \in 1..n |-> safe[old[i]]], name |-> NoEmail]
                ELSE NoEntry]
    /\ pending = [d \in Devices |-> <<>>]
    /\ feed = [d \in Devices |-> NoEntry]
    /\ alive = [d \in Devices |-> TRUE]
    /\ session = [d \in Devices |-> NoEmail]
    /\ defEmail = [d \in Devices |-> NoEmail]
    /\ defName = [d \in Devices |-> NoEmail]
    /\ welcome = [d \in Devices |-> TRUE]
    /\ alert = [d \in Devices |-> FALSE]
    /\ form \in [Attempts -> [way : Ways, dev : Devices, email : Emails]]
    /\ page = [a \in Attempts |-> "closed"]
    /\ from \in [Products -> Devices]
    /\ owner = [j \in Products |-> NoEmail]
    /\ db = [j \in Jobs |-> "none"]
    /\ auth = [a \in Attempts |-> "none"]
    /\ snap = [j \in Jobs |-> NoEntry]
    /\ denied = {}
    /\ faults = 0
    /\ crossed = {}
    /\ listShared = FALSE
    /\ unsettled = {}

-----------------------------------------------------------------------------
(* The database as the jobs use it *)

Step(j, next) == db' = [db EXCEPT ![j] = next]

\* A write enters the device's queue; whether the rules deny the job is the
\* server's choice, the same for its writes and each time they are sent.
Enqueue(j, n, v) ==
    /\ pending' = [pending EXCEPT ![DeviceOf(j)] = Append(@, Put(j, n, v))]
    /\ denied' \in {denied, denied \cup {j}}
    /\ Cardinality(denied') <= MaxDenied

\* j is about to work on user node u: in whose way?  Behind a write that is in
\* the queue of its own device it is in nobody's.
InTheWay(j, u, d) ==
    \E k \in Jobs \ {j} :
        OnNode(k) /\ NodeOf(k) = u /\ ~(db[k] = "node" /\ DeviceOf(k) = d)

\* A read is answered: of the user node, or of the list of users.
Raise(j) ==
    /\ db[j] \in {"asked", "listAsked"}
    /\ LET n == IF db[j] = "asked" THEN NodeOf(j) ELSE UsersNode IN
          \E v \in View(DeviceOf(j), n) : snap' = [snap EXCEPT ![j] = v]
    /\ Step(j, IF db[j] = "asked" THEN "raised" ELSE "listRaised")
    /\ UNCHANGED <<dbVars, accounts, deviceVars, fixed, page, owner, auth, bounds, histVars>>

\* insertUser: the user node is written, whole.
InsertUser(a) ==
    /\ Step(a, "node")
    /\ Enqueue(a, NodeOf(a), NewUser(form[a].email))

\* The shape UsersRead and its mutants share: the list of users is written.
WriteUsers(a, list) ==
    /\ db[a] = "listRaised"
    /\ Step(a, "list")
    /\ Enqueue(a, UsersNode, [there |-> TRUE, list |-> list, name |-> NoEmail])
    /\ snap' = [snap EXCEPT ![a] = NoEntry]
    /\ UNCHANGED <<tree, feed, alive, accounts, deviceVars, fixed, page, owner, auth,
                   faults, histVars>>

\* Mutants of UsersRead: the user is wrapped in an array of its own; the list is
\* started anew every time; it is never started (no else branch).
UsersReadNested(a) == WriteUsers(a, Append(snap[a].list, <<NodeOf(a)>>))
UsersReadFresh(a) == WriteUsers(a, <<NodeOf(a)>>)
UsersReadNoElse(a) == snap[a].there /\ WriteUsers(a, Append(snap[a].list, NodeOf(a)))

\* insertUser: the list of users is there and grows, or is started.
UsersRead(a) == WriteUsers(a, Append(snap[a].list, NodeOf(a)))

-----------------------------------------------------------------------------
(* The screens *)

\* The pushed page under way on d; the spinner covers it while the user node is
\* looked up (register) or Auth is asked (login).
OnPage(a, d) == form[a].dev = d /\ page[a] = "open" /\ form[a].way # "google"
Spinning(a)  == IF form[a].way = "register" THEN db[a] \in {"asked", "raised"}
                ELSE auth[a] = "sent"

\* A button is tapped; its page is pushed if it is not the one that is there.
\* Registering looks for a user node, logging in asks Auth, and Google, whose own
\* sign-in has succeeded, stores the defaults and does both.
Begin(a) ==
    LET d == form[a].dev  w == form[a].way IN
    /\ alive[d] /\ welcome[d] /\ ~alert[d]
    /\ page[a] = "closed"
    /\ \A o \in Attempts : OnPage(o, d) => form[o].way = w /\ ~Spinning(o)
    /\ page' = [page EXCEPT ![a] = "open"]
    /\ IF w = "login" THEN UNCHANGED db ELSE Step(a, "asked")
    /\ auth' = [auth EXCEPT ![a] = IF w = "register" THEN "none" ELSE "sent"]
    /\ defEmail' = IF w = "google" THEN [defEmail EXCEPT ![d] = form[a].email] ELSE defEmail
    /\ defName' = IF w = "google" THEN [defName EXCEPT ![d] = form[a].email] ELSE defName
    /\ crossed' = IF InTheWay(a, NodeOf(a), d) THEN crossed \cup {NodeOf(a)} ELSE crossed
    /\ unsettled' = IF Quiet(d) THEN unsettled ELSE unsettled \cup {d}
    /\ UNCHANGED <<dbVars, accounts, session, welcome, alert, fixed, owner, snap, bounds,
                   listShared>>

\* A tap with a field missing, or a short password: alertLoginUserError.
TapRefused(a) ==
    LET d == form[a].dev IN
    /\ OnPage(a, d) /\ ~Spinning(a) /\ ~alert[d] /\ ~Quiet(d)
    /\ alert' = [alert EXCEPT ![d] = TRUE]
    /\ UNCHANGED <<dbVars, accounts, session, defEmail, defName, welcome, fixed, jobVars,
                   bounds, histVars>>

CloseAlert(d) ==
    /\ alert[d]
    /\ alert' = [alert EXCEPT ![d] = FALSE]
    /\ UNCHANGED <<dbVars, accounts, session, defEmail, defName, welcome, fixed, jobVars,
                   bounds, histVars>>

\* Back: the pushed page is popped.  Its subscriptions hold it as it holds them,
\* so its controller stays, and an attempt under way goes on.
Back(d) ==
    /\ \E a \in Attempts : OnPage(a, d)
    /\ ~alert[d]
    /\ page' = [a \in Attempts |-> IF OnPage(a, d) THEN "left" ELSE page[a]]
    /\ UNCHANGED <<dbVars, accounts, deviceVars, fixed, owner, db, auth, snap, bounds,
                   histVars>>

\* navigationController?.dismiss: an alert goes first; a page that is no longer
\* on the stack has no navigation controller, and the welcome stays.
Dismiss(a) ==
    LET d == form[a].dev IN
    IF page[a] # "open" THEN
         /\ unsettled' = unsettled \cup {d}
         /\ UNCHANGED <<welcome, alert, page>>
    ELSE IF alert[d] THEN
         /\ alert' = [alert EXCEPT ![d] = FALSE]
         /\ unsettled' = unsettled \cup {d}
         /\ UNCHANGED <<welcome, page>>
    ELSE /\ welcome' = [welcome EXCEPT ![d] = FALSE]
         /\ page' = [o \in Attempts |->
               IF form[o].dev = d /\ page[o] = "open" THEN "left" ELSE page[o]]
         /\ UNCHANGED <<alert, unsettled>>

\* userExist answers a registration: the address is taken, of which a popped page
\* cannot show an alert; or it is free and Auth is asked to create the account.
Checked(a) ==
    /\ form[a].way = "register" /\ db[a] = "raised"
    /\ LET taken == snap[a].there IN
          /\ Step(a, IF taken THEN "over" ELSE "free")
          /\ auth' = [auth EXCEPT ![a] = IF taken THEN @ ELSE "sent"]
          /\ alert' = [alert EXCEPT ![form[a].dev] = @ \/ (page[a] = "open" /\ taken)]
    /\ snap' = [snap EXCEPT ![a] = NoEntry]
    /\ UNCHANGED <<dbVars, accounts, session, defEmail, defName, welcome, fixed, page,
                   owner, bounds, histVars>>

\* The shape GoogleChecked and its mutants share.
GoogleFound(a, known) ==
    /\ form[a].way = "google" /\ db[a] = "raised"
    /\ IF known THEN Step(a, "over") /\ UNCHANGED <<pending, denied>> ELSE InsertUser(a)
    /\ snap' = [snap EXCEPT ![a] = NoEntry]
    /\ UNCHANGED <<tree, feed, alive, accounts, deviceVars, fixed, page, owner, auth,
                   faults, histVars>>

\* Mutants of GoogleChecked: every sign-in inserts the user; the answer is taken
\* the other way round.
GoogleCheckedAlways(a) == GoogleFound(a, FALSE)
GoogleCheckedInverted(a) == GoogleFound(a, ~snap[a].there)

\* userExist answers a Google sign-in: a new user is inserted.
GoogleChecked(a) == GoogleFound(a, snap[a].there)

\* The name arrives: it is stored if the node has one.
NameRead(a) ==
    LET d == form[a].dev IN
    /\ form[a].way = "login" /\ db[a] = "raised"
    /\ Step(a, "over")
    /\ defName' = [defName EXCEPT ![d] = IF snap[a].there THEN snap[a].name ELSE @]
    /\ snap' = [snap EXCEPT ![a] = NoEntry]
    /\ UNCHANGED <<dbVars, accounts, session, defEmail, welcome, alert, fixed, page, owner,
                   auth, bounds, histVars>>

-----------------------------------------------------------------------------
(* Auth *)

\* Auth's server can grant what is asked: an unused address, the password of an
\* account, or a Google credential.
Grantable(a) ==
    CASE form[a].way = "register" -> accounts[form[a].email] = {}
      [] form[a].way = "login"    -> "login" \in accounts[form[a].email]
      [] form[a].way = "google"   -> TRUE

\* What granting leaves on Auth's server.
Granted(a) == [accounts EXCEPT ![form[a].email] =
    @ \cup {IF form[a].way = "google" THEN "google" ELSE "login"}]

\* The answer comes: the SDK replaces the session and the callback is due.
AuthGrants(a) ==
    /\ auth[a] = "sent" /\ Grantable(a)
    /\ accounts' = Granted(a)
    /\ session' = [session EXCEPT ![form[a].dev] = form[a].email]
    /\ auth' = [auth EXCEPT ![a] = "granted"]
    /\ UNCHANGED <<dbVars, defEmail, defName, welcome, alert, fixed, page, owner, db, snap,
                   bounds, histVars>>

\* An error comes instead, after the server did what was asked or not; the
\* callback returns.
AuthFails(a) ==
    /\ auth[a] = "sent"
    /\ \/ UNCHANGED accounts /\ auth' = [auth EXCEPT ![a] = "over"]
       \/ /\ Grantable(a)
          /\ faults < MaxFaults
          /\ accounts' = Granted(a) /\ auth' = [auth EXCEPT ![a] = "lost"]
    /\ faults' = IF auth'[a] = "lost" THEN faults + 1 ELSE faults
    /\ Step(a, IF db[a] = "free" THEN "over" ELSE db[a])
    /\ unsettled' = IF form[a].way = "google" THEN unsettled \cup {form[a].dev} ELSE unsettled
    /\ UNCHANGED <<dbVars, deviceVars, fixed, page, owner, snap, denied, crossed, listShared>>

\* createUser's callback: insertUser, and dismiss.
RegisterGranted(a) ==
    /\ form[a].way = "register" /\ auth[a] = "granted"
    /\ auth' = [auth EXCEPT ![a] = "over"]
    /\ InsertUser(a)
    /\ Dismiss(a)
    /\ UNCHANGED <<tree, feed, alive, accounts, session, defEmail, defName, fixed, owner,
                   snap, faults, crossed, listShared>>

\* signIn's callback: the name is asked for, the address stored, and the screens
\* dismissed.
LoginGranted(a) ==
    /\ form[a].way = "login" /\ auth[a] = "granted"
    /\ auth' = [auth EXCEPT ![a] = "over"]
    /\ Step(a, "asked")
    /\ defEmail' = [defEmail EXCEPT ![form[a].dev] = form[a].email]
    /\ Dismiss(a)
    /\ UNCHANGED <<dbVars, accounts, session, defName, fixed, owner, snap, bounds, crossed,
                   listShared>>

\* The Google credential's callback: dismiss.
GoogleGranted(a) ==
    /\ form[a].way = "google" /\ auth[a] = "granted"
    /\ auth' = [auth EXCEPT ![a] = "over"]
    /\ Dismiss(a)
    /\ UNCHANGED <<dbVars, accounts, session, defEmail, defName, fixed, owner, db, snap,
                   bounds, crossed, listShared>>

\* The shape Logout and its mutant share.
SignOut(d) ==
    /\ alive[d] /\ ~welcome[d] /\ session[d] # NoEmail
    /\ session' = [session EXCEPT ![d] = NoEmail]
    /\ welcome' = [welcome EXCEPT ![d] = TRUE]
    /\ unsettled' = IF Quiet(d) THEN unsettled \ {d} ELSE unsettled \cup {d}
    /\ UNCHANGED <<dbVars, accounts, alert, fixed, jobVars, bounds, crossed, listShared>>

\* Mutant of Logout: the defaults stay.
LogoutKeepsDefaults(d) == SignOut(d) /\ UNCHANGED <<defEmail, defName>>

\* Log out on the profile: sign out, remove the defaults, present the welcome.
Logout(d) ==
    /\ SignOut(d)
    /\ defEmail' = [defEmail EXCEPT ![d] = NoEmail]
    /\ defName' = [defName EXCEPT ![d] = NoEmail]

-----------------------------------------------------------------------------
(* Publishing, as far as the user node goes *)

\* insertProduct is called with the session's address.
Publish(j) ==
    LET d == from[j]  e == session[d] IN
    /\ alive[d] /\ ~welcome[d] /\ e # NoEmail
    /\ db[j] = "none"
    /\ owner' = [owner EXCEPT ![j] = e]
    /\ Step(j, "asked")
    /\ crossed' = IF InTheWay(j, safe[e], d) THEN crossed \cup {safe[e]} ELSE crossed
    /\ UNCHANGED <<dbVars, accounts, deviceVars, fixed, page, auth, snap, bounds,
                   listShared, unsettled>>

\* The user node is there: it is written back with the product.  Or it is not.
AddProduct(j) ==
    /\ j \in Products /\ db[j] = "raised"
    /\ IF snap[j].there
       THEN /\ Step(j, "node")
            /\ Enqueue(j, NodeOf(j), [snap[j] EXCEPT !.list = Append(@, j)])
       ELSE Step(j, "notFound") /\ UNCHANGED <<pending, denied>>
    /\ snap' = [snap EXCEPT ![j] = NoEntry]
    /\ UNCHANGED <<tree, feed, alive, accounts, deviceVars, fixed, page, owner, auth,
                   faults, histVars>>

-----------------------------------------------------------------------------
(* Server, connection and process *)

Server(d) ==
    /\ Perform(d, denied)
    /\ UNCHANGED <<accounts, deviceVars, fixed, jobVars, bounds, histVars>>

\* Mutant of Answered: the error of a write is not looked at.
AnsweredUnchecked(put) ==
    IF put.by \in Attempts /\ put.node # UsersNode THEN "listAsked" ELSE "done"

\* Where the completion block of a write leaves its job: insertUser goes on from
\* the user node to the list of users.
Answered(put) ==
    IF put.fate = "denied" THEN "failed"
    ELSE IF put.by \in Attempts /\ put.node # UsersNode THEN "listAsked" ELSE "done"

\* A write is acknowledged.
\* Acknowledgements are held back while a read of the device has no answer.
Completion(d) ==
    /\ \A j \in Jobs : DeviceOf(j) = d => db[j] \notin {"asked", "listAsked"}
    /\ Acknowledge(d)
    /\ LET put == Head(pending[d]) IN
          /\ Step(put.by, Answered(put))
          /\ listShared' = (listShared \/ (/\ db'[put.by] = "listAsked"
                                           /\ \E a \in Attempts : db[a] \in
                                                 {"listAsked", "listRaised", "list"}))
    /\ UNCHANGED <<accounts, deviceVars, fixed, page, owner, auth, snap, bounds, crossed,
                   unsettled>>

\* The process ends; session and defaults are kept on the device.  What Auth's
\* server was asked for it may still do.
Kill(d) ==
    /\ alive[d]
    /\ faults < MaxFaults
    /\ faults' = faults + 1
    /\ Die(d)
    /\ \/ UNCHANGED accounts
       \/ \E a \in Attempts : /\ form[a].dev = d /\ auth[a] = "sent" /\ Grantable(a)
                              /\ accounts' = Granted(a)
    /\ welcome' = [welcome EXCEPT ![d] = FALSE]
    /\ alert' = [alert EXCEPT ![d] = FALSE]
    /\ page' = [a \in Attempts |->
          IF form[a].dev = d /\ page[a] = "open" THEN "left" ELSE page[a]]
    /\ db' = [j \in Jobs |-> IF DeviceOf(j) = d /\ db[j] \in
          {"asked", "raised", "free", "listAsked", "listRaised"} THEN "dead" ELSE db[j]]
    /\ auth' = [a \in Attempts |->
          IF form[a].dev = d /\ auth[a] \in {"sent", "granted"} THEN "dead" ELSE auth[a]]
    /\ snap' = [j \in Jobs |-> IF DeviceOf(j) = d THEN NoEntry ELSE snap[j]]
    /\ unsettled' = IF \E a \in Attempts : /\ form[a].dev = d /\ form[a].way = "google"
                                           /\ auth[a] = "sent"
                    THEN unsettled \cup {d} ELSE unsettled
    /\ UNCHANGED <<tree, pending, feed, session, defEmail, defName, fixed, owner, denied,
                   crossed, listShared>>

\* What a dead device had under way is lost.
LoseQueue(d) ==
    /\ Drop(d)
    /\ db' = [j \in Jobs |-> IF DeviceOf(j) = d /\ db[j] \in {"node", "list"}
                             THEN "dead" ELSE db[j]]
    /\ UNCHANGED <<accounts, deviceVars, fixed, page, owner, auth, snap, bounds, histVars>>

\* The app starts: validateAuth presents the welcome unless there is a session.
Start(d) ==
    /\ Relaunch(d)
    /\ welcome' = [welcome EXCEPT ![d] = session[d] = NoEmail]
    /\ UNCHANGED <<accounts, session, defEmail, defName, alert, fixed, jobVars, bounds,
                   histVars>>

ConnectionLost(d) ==
    /\ faults < MaxFaults
    /\ faults' = faults + 1
    /\ Reconnect(d)
    /\ UNCHANGED <<accounts, deviceVars, fixed, jobVars, denied, histVars>>

Callback(j) ==
    \/ j \in Attempts /\ (Checked(j) \/ GoogleChecked(j) \/ NameRead(j) \/ UsersRead(j)
                          \/ RegisterGranted(j) \/ LoginGranted(j) \/ GoogleGranted(j))
    \/ AddProduct(j)

Next ==
    \/ \E a \in Attempts : Begin(a) \/ TapRefused(a) \/ AuthGrants(a) \/ AuthFails(a)
    \/ \E j \in Products : Publish(j)
    \/ \E j \in Jobs : Raise(j) \/ Callback(j)
    \/ \E d \in Devices :
          \/ CloseAlert(d) \/ Back(d) \/ Logout(d) \/ Server(d) \/ Completion(d)
          \/ Kill(d) \/ LoseQueue(d) \/ Start(d) \/ ConnectionLost(d)

Spec == Init /\ [][Next]_vars

\* The main queue of a living process runs what is due; the connections answer
\* and carry writes, and end with their process.
MainQueue(d) == \E j \in Jobs : DeviceOf(j) = d /\ Callback(j)

Connection(d) ==
    \/ \E j \in Jobs : DeviceOf(j) = d /\ Raise(j)
    \/ \E a \in Attempts : form[a].dev = d /\ (AuthGrants(a) \/ AuthFails(a))
    \/ Server(d) \/ Completion(d) \/ LoseQueue(d)

Fairness == \A d \in Devices : WF_vars(MainQueue(d)) /\ WF_vars(Connection(d))

FairSpec == Spec /\ Fairness
-----------------------------------------------------------------------------
(* Properties *)

AccountWrites == [by : Jobs, node : Users \cup {UsersNode}, val : Entry, fate : Fates]

\* Every variable keeps its type.
AccountTypeOK ==
    /\ tree \in [Paths -> Entry]
    /\ pending \in [Devices -> Seq(AccountWrites)]
    /\ feed \in [Devices -> Entry]
    /\ alive \in [Devices -> BOOLEAN]
    /\ accounts \in [Emails -> SUBSET {"login", "google"}]
    /\ session \in [Devices -> Emails \cup {NoEmail}]
    /\ defEmail \in [Devices -> Emails \cup {NoEmail}]
    /\ defName \in [Devices -> Emails \cup {NoEmail}]
    /\ welcome \in [Devices -> BOOLEAN] /\ alert \in [Devices -> BOOLEAN]
    /\ safe \in [Emails -> Users]
    /\ form \in [Attempts -> [way : Ways, dev : Devices, email : Emails]]
    /\ page \in [Attempts -> {"closed", "open", "left"}]
    /\ from \in [Products -> Devices]
    /\ owner \in [Products -> Emails \cup {NoEmail}]
    /\ db \in [Jobs -> DbStages]
    /\ auth \in [Attempts -> AuthStages]
    /\ snap \in [Jobs -> Entry]
    /\ denied \in SUBSET Jobs
    /\ faults \in 0..MaxFaults
    /\ crossed \in SUBSET Users
    /\ listShared \in BOOLEAN
    /\ unsettled \in SUBSET Devices

Elements(s) == {s[i] : i \in DOMAIN s}

\* No sign-in and no registration erases products an account has published, as
\* long as nothing else is on its user node that the device's own queue does not
\* order; sent again after a broken connection, writes pass through old values.
ProductsStay ==
    [][ \A u \in Users : \A p \in Elements(tree[u].list) \ Elements(tree'[u].list) :
           \/ u \in crossed'
           \/ \E d \in Devices : \E i \in DOMAIN pending'[d] :
                 /\ pending'[d][i].node = u /\ pending'[d][i].fate = "sent"
                 /\ p \in Elements(pending'[d][i].val.list) ]_vars

\* An attempt for user node u was cut short: its process ended, the database
\* denied its writes, or Auth's answer was lost.
CutShort(u) ==
    \E a \in Attempts : /\ NodeOf(a) = u /\ form[a].way # "login"
                        /\ a \in denied \/ db[a] = "dead" \/ auth[a] \in {"lost", "dead"}

\* Who is signed in can publish: no publication misses the user node, not even
\* right after a registration that did not wait for it to be written.  The
\* exceptions are an attempt that was cut short, and another job in the way on the
\* node: an attempt on another device that is still to write it, or on this device
\* a Google sign-in, whose session is there before its own userExist has answered.
SignedInHasNode ==
    \A j \in Products :
        db[j] = "notFound" => NodeOf(j) \in crossed \/ CutShort(NodeOf(j))

\* At rest, the defaults, which favourites, My Products and the profile go by,
\* are empty or those of the session, which publishing goes by; unless two
\* attempts overlapped on the device, it was logged out meanwhile, an attempt
\* succeeded without taking the welcome away, because an alert took the dismissal
\* or its page had been left, or Google's credential was refused after the
\* defaults were set.
DefaultsAreTheSessions ==
    \A d \in Devices : d \notin unsettled /\ Quiet(d) /\ alive[d] =>
        /\ defEmail[d] \in {NoEmail, session[d]}
        /\ defName[d] # NoEmail =>
              session[d] # NoEmail /\ safe[defName[d]] = safe[session[d]]

\* A user insertUser has reported as inserted is in the list of users, as long as
\* attempts took turns on the list; and nobody is in it twice, as long as
\* attempts took turns on the user node too.
UsersListed ==
    /\ \A a \in Attempts : db[a] = "done" /\ ~listShared =>
          NodeOf(a) \in Elements(tree[UsersNode].list)
    /\ \A i, j \in DOMAIN tree[UsersNode].list :
          tree[UsersNode].list[i] = tree[UsersNode].list[j] =>
              i = j \/ tree[UsersNode].list[i] \in crossed

\* Registering implements the directory of those who have a user node, hurried
\* once two attempts have worked on the list of users at the same time.
People == INSTANCE Directory WITH
    Members <- Users, homes <- {u \in Users : tree[u].there},
    directory <- tree[UsersNode].list, crowded <- crossed, hurried <- listShared

DirectoryKept == People!Spec

\* Every attempt comes to an end, and with it the lookups and writes it started.
AttemptsEnd == \A a \in Attempts : Busy(a) ~> ~Busy(a)
=============================================================================
