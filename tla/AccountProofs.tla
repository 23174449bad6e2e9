----------------------------- MODULE AccountProofs -----------------------------
(***************************************************************************)
(* Accounts and sessions, for any number of addresses, devices, attempts,   *)
(* publications and faults: every variable keeps its type, the defaults of  *)
(* a device at rest are its session's, no sign-in erases products, who is   *)
(* signed in has a user node, inserted users are listed, once, and the list *)
(* "users" implements Directory.                                            *)
(***************************************************************************)
EXTENDS Account, TLAPS

\* A publication that reads the user node has the address of a session.
Owned == \A j \in Products : db[j] \in {"asked", "raised"} => owner[j] \in Emails

TypeInv == AccountTypeOK /\ Owned

-----------------------------------------------------------------------------
(* Typing *)

LEMMA ConstantEntries ==
    /\ NoEntry \in Entry
    /\ \A e \in Emails : NewUser(e) \in Entry
BY DEF NoEntry, NewUser, Entry

\* The devices and the user nodes of jobs.
LEMMA JobTypes ==
    ASSUME TypeInv
    PROVE  /\ \A j \in Jobs : DeviceOf(j) \in Devices
           /\ \A a \in Attempts : /\ NodeOf(a) = safe[form[a].email] /\ NodeOf(a) \in Users
                                  /\ DeviceOf(a) = form[a].dev
                                  /\ a \in Jobs /\ form[a].email \in Emails
                                  /\ form[a].way \in Ways
           /\ \A j \in Jobs : db[j] \in {"asked", "raised"} => NodeOf(j) \in Users
           /\ \A j \in Products : DeviceOf(j) = from[j] /\ NodeOf(j) = safe[owner[j]] /\ j \in Jobs
BY AccountAssumption DEF TypeInv, AccountTypeOK, Owned, DeviceOf, NodeOf, Jobs

\* What a read sees is an entry.
LEMMA ViewType ==
    ASSUME TypeInv, NEW d \in Devices, NEW n \in Users \cup {UsersNode}, NEW v \in View(d, n)
    PROVE  v \in Entry
<1>1. \/ \E i \in PutsTo(d, n) : v = pending[d][i].val
      \/ v = feed[d]
      \/ v = tree[n]
  BY Zenon DEF View
<1>2. \A i \in PutsTo(d, n) : i \in DOMAIN pending[d] /\ pending[d][i] \in AccountWrites
  BY DEF PutsTo, TypeInv, AccountTypeOK
<1>3. n \in Paths
  BY DEF Paths
<1> QED
  BY <1>1, <1>2, <1>3 DEF TypeInv, AccountTypeOK, AccountWrites

\* A write of an entry keeps the queues typed.
LEMMA EnqueueType ==
    ASSUME TypeInv, NEW j \in Jobs, NEW n \in Users \cup {UsersNode}, NEW v \in Entry,
           Enqueue(j, n, v)
    PROVE  /\ pending' \in [Devices -> Seq(AccountWrites)]
           /\ denied' \in SUBSET Jobs
<1>1. Put(j, n, v) \in AccountWrites
  BY DEF Put, AccountWrites, Fates
<1>2. DeviceOf(j) \in Devices
  BY JobTypes
<1>3. pending' = [pending EXCEPT ![DeviceOf(j)] = Append(@, Put(j, n, v))]
  BY DEF Enqueue
<1>4. pending' \in [Devices -> Seq(AccountWrites)]
  BY <1>1, <1>2, <1>3 DEF TypeInv, AccountTypeOK
<1>5. denied' \in SUBSET Jobs
  BY DEF Enqueue, TypeInv, AccountTypeOK
<1> QED
  BY <1>4, <1>5

\* Dismissing, or not, keeps the screens typed.
LEMMA DismissType ==
    ASSUME TypeInv, NEW a \in Attempts, Dismiss(a)
    PROVE  /\ welcome' \in [Devices -> BOOLEAN]
           /\ alert' \in [Devices -> BOOLEAN]
           /\ page' \in [Attempts -> {"closed", "open", "left"}]
           /\ unsettled' \in SUBSET Devices
<1>0. form[a].dev \in Devices
  BY JobTypes
<1> USE DEF TypeInv, AccountTypeOK
<1>1. CASE page[a] # "open"
  BY <1>1 DEF Dismiss
<1>2. CASE page[a] = "open" /\ alert[form[a].dev]
  <2>1. /\ alert' = [alert EXCEPT ![form[a].dev] = FALSE]
        /\ unsettled' = unsettled \cup {form[a].dev}
        /\ UNCHANGED <<welcome, page>>
    BY <1>2 DEF Dismiss
  <2> QED
    BY <1>0, <2>1
<1>3. CASE page[a] = "open" /\ ~ alert[form[a].dev]
  <2>1. /\ welcome' = [welcome EXCEPT ![form[a].dev] = FALSE]
        /\ page' = [o \in Attempts |-> IF form[o].dev = form[a].dev /\ page[o] = "open"
                                      THEN "left" ELSE page[o]]
        /\ UNCHANGED <<alert, unsettled>>
    BY <1>3 DEF Dismiss
  <2> QED
    BY <1>0, <2>1
<1> QED
  BY <1>1, <1>2, <1>3

\* Only users who are registered have a node, with their name, at first.
LEMMA InitTypeInv == Init => TypeInv
<1> SUFFICES ASSUME Init
             PROVE  AccountTypeOK
  BY DEF Init, TypeInv, Owned, Jobs
<1>0. PICK n \in 0..Cardinality(Emails) : \E old \in [1..n -> Emails] :
        /\ accounts = [e \in Emails |->
              IF \E i \in 1..n : old[i] = e THEN {"login"} ELSE {}]
        /\ tree = [p \in Paths |->
              IF \E i \in 1..n : safe[old[i]] = p
              THEN NewUser(old[CHOOSE i \in 1..n : safe[old[i]] = p])
              ELSE IF p = UsersNode /\ n > 0
              THEN [there |-> TRUE, list |-> [i \in 1..n |-> safe[old[i]]], name |-> NoEmail]
              ELSE NoEntry]
  BY DEF Init
<1>1. PICK old \in [1..n -> Emails] :
        /\ accounts = [e \in Emails |->
              IF \E i \in 1..n : old[i] = e THEN {"login"} ELSE {}]
        /\ tree = [p \in Paths |->
              IF \E i \in 1..n : safe[old[i]] = p
              THEN NewUser(old[CHOOSE i \in 1..n : safe[old[i]] = p])
              ELSE IF p = UsersNode /\ n > 0
              THEN [there |-> TRUE, list |-> [i \in 1..n |-> safe[old[i]]], name |-> NoEmail]
              ELSE NoEntry]
  BY <1>0
<1>2. safe \in [Emails -> Users]
  BY DEF Init
<1>3. ASSUME NEW p \in Paths
      PROVE  tree[p] \in Entry
  <2>1. CASE \E i \in 1..n : safe[old[i]] = p
    <3>1. (CHOOSE i \in 1..n : safe[old[i]] = p) \in 1..n
      BY <2>1, Zenon
    <3>2. tree[p] = NewUser(old[CHOOSE i \in 1..n : safe[old[i]] = p])
      BY <1>1, <2>1
    <3>3. old[CHOOSE i \in 1..n : safe[old[i]] = p] \in Emails
      BY <3>1
    <3> QED
      BY <3>2, <3>3, ConstantEntries
  <2>2. CASE ~ (\E i \in 1..n : safe[old[i]] = p) /\ p = UsersNode /\ n > 0
    <3>1. n \in Nat /\ [i \in 1..n |-> safe[old[i]]] \in Seq(Products \cup Users)
      <4>1. n \in Nat
        BY <2>2
      <4>2. \A i \in 1..n : safe[old[i]] \in Products \cup Users
        BY <1>2
      <4> QED
        BY <4>1, <4>2
    <3> QED
      BY <1>1, <2>2, <3>1 DEF Entry
  <2>3. CASE ~ (\E i \in 1..n : safe[old[i]] = p) /\ ~ (p = UsersNode /\ n > 0)
    BY <1>1, <2>3, ConstantEntries
  <2> QED
    BY <2>1, <2>2, <2>3
<1>4. tree \in [Paths -> Entry]
  BY <1>1, <1>3
<1>5. accounts \in [Emails -> SUBSET {"login", "google"}]
  BY <1>1
<1>6. 0 \in 0..MaxFaults
  BY AccountAssumption
<1>7. /\ pending \in [Devices -> Seq(AccountWrites)]
      /\ snap \in [Jobs -> Entry] /\ feed \in [Devices -> Entry]
      /\ db \in [Jobs -> DbStages] /\ auth \in [Attempts -> AuthStages]
  BY ConstantEntries DEF Init, DbStages, AuthStages
<1> QED
  BY <1>2, <1>4, <1>5, <1>6, <1>7 DEF Init, AccountTypeOK

\* A tap, whatever it starts.
LEMMA BeginType == ASSUME TypeInv, NEW a \in Attempts, Begin(a) PROVE TypeInv'
<1>0. form[a].dev \in Devices /\ form[a].email \in Emails /\ NodeOf(a) \in Users
  BY JobTypes
<1> USE DEF TypeInv, AccountTypeOK
<1>1. /\ UNCHANGED <<dbVars, accounts, session, welcome, alert, fixed, owner, snap, bounds,
                     listShared>>
      /\ page' = [page EXCEPT ![a] = "open"]
      /\ db' = db \/ db' = [db EXCEPT ![a] = "asked"]
      /\ auth' = [auth EXCEPT ![a] = IF form[a].way = "register" THEN "none" ELSE "sent"]
      /\ defEmail' = defEmail \/ defEmail' = [defEmail EXCEPT ![form[a].dev] = form[a].email]
      /\ defName' = defName \/ defName' = [defName EXCEPT ![form[a].dev] = form[a].email]
      /\ crossed' = crossed \/ crossed' = crossed \cup {NodeOf(a)}
      /\ unsettled' = unsettled \/ unsettled' = unsettled \cup {form[a].dev}
  BY DEF Begin, Step
<1>2. /\ page' \in [Attempts -> {"closed", "open", "left"}]
      /\ db' \in [Jobs -> DbStages] /\ auth' \in [Attempts -> AuthStages]
  BY <1>1 DEF DbStages, AuthStages
<1>3. /\ defEmail' \in [Devices -> Emails \cup {NoEmail}]
      /\ defName' \in [Devices -> Emails \cup {NoEmail}]
      /\ crossed' \in SUBSET Users /\ unsettled' \in SUBSET Devices
  BY <1>0, <1>1
<1>4. Owned'
  <2>1. \A j \in Products : db'[j] = db[j]
    BY <1>1, AccountAssumption DEF Jobs
  <2> QED
    BY <1>1, <2>1 DEF Owned
<1> QED
  BY <1>1, <1>2, <1>3, <1>4 DEF dbVars, fixed, bounds

\* The callbacks of the lookups.
LEMMA CallbackType ==
    ASSUME TypeInv, NEW j \in Jobs, Callback(j)
    PROVE  TypeInv'
<1> USE DEF TypeInv, AccountTypeOK
\* What the callbacks do to the job itself.
<1>1. ASSUME NEW next \in DbStages, Step(j, next), next \notin {"asked", "raised"},
             UNCHANGED owner
      PROVE  db' \in [Jobs -> DbStages] /\ Owned'
  BY <1>1 DEF Step, Owned, Jobs
<1>2. ASSUME UNCHANGED <<db, owner>>
      PROVE  db' \in [Jobs -> DbStages] /\ Owned'
  BY <1>2 DEF Owned
<1>3. ASSUME snap' = [snap EXCEPT ![j] = NoEntry]
      PROVE  snap' \in [Jobs -> Entry]
  BY <1>3, ConstantEntries
<1>4. ASSUME j \in Attempts, InsertUser(j)
      PROVE  /\ pending' \in [Devices -> Seq(AccountWrites)] /\ denied' \in SUBSET Jobs
             /\ Step(j, "node")
  BY <1>4, EnqueueType, JobTypes, ConstantEntries DEF InsertUser
<1>5. ASSUME j \in Attempts, Checked(j)
      PROVE  TypeInv'
  <2>1. auth' \in [Attempts -> AuthStages]
    BY <1>5 DEF Checked, AuthStages
  <2>2. alert' \in [Devices -> BOOLEAN]
    BY <1>5, JobTypes DEF Checked
  <2>3. db' \in [Jobs -> DbStages] /\ Owned'
    BY <1>1, <1>5 DEF Checked, DbStages, fixed
  <2> QED
    BY <1>3, <1>5, <2>1, <2>2, <2>3 DEF Checked, dbVars, fixed, bounds, histVars
<1>6. ASSUME j \in Attempts, GoogleChecked(j)
      PROVE  TypeInv'
  <2>1. CASE snap[j].there
    <3>1. db' \in [Jobs -> DbStages] /\ Owned'
      BY <1>1, <1>6, <2>1 DEF GoogleChecked, GoogleFound, DbStages
    <3> QED
      BY <1>3, <1>6, <2>1, <3>1 DEF GoogleChecked, GoogleFound, deviceVars, fixed, histVars
  <2>2. CASE ~ snap[j].there
    <3>1. InsertUser(j)
      BY <1>6, <2>2 DEF GoogleChecked, GoogleFound
    <3>2. db' \in [Jobs -> DbStages] /\ Owned'
      BY <1>1, <1>4, <1>6, <3>1 DEF GoogleChecked, GoogleFound, DbStages
    <3> QED
      BY <1>3, <1>4, <1>6, <3>1, <3>2 DEF GoogleChecked, GoogleFound, deviceVars, fixed, histVars
  <2> QED
    BY <2>1, <2>2
<1>7. ASSUME j \in Attempts, NameRead(j)
      PROVE  TypeInv'
  <2>1. snap[j].name \in Emails \cup {NoEmail}
    BY DEF Entry
  <2>2. defName' \in [Devices -> Emails \cup {NoEmail}]
    BY <1>7, <2>1, JobTypes DEF NameRead
  <2>3. db' \in [Jobs -> DbStages] /\ Owned'
    BY <1>1, <1>7 DEF NameRead, DbStages
  <2> QED
    BY <1>3, <1>7, <2>2, <2>3 DEF NameRead, dbVars, fixed, bounds, histVars
<1>8. ASSUME j \in Attempts, UsersRead(j)
      PROVE  TypeInv'
  <2> DEFINE val == [there |-> TRUE, list |-> Append(snap[j].list, NodeOf(j)), name |-> NoEmail]
  <2>1. val \in Entry
    BY <1>8, JobTypes DEF Entry
  <2>2. Enqueue(j, UsersNode, val) /\ Step(j, "list") /\ db[j] = "listRaised"
    BY <1>8 DEF UsersRead, WriteUsers
  <2> HIDE DEF val
  <2>3. pending' \in [Devices -> Seq(AccountWrites)] /\ denied' \in SUBSET Jobs
    BY <2>1, <2>2, EnqueueType
  <2>4. db' \in [Jobs -> DbStages] /\ Owned'
    BY <1>1, <1>8, <2>2 DEF UsersRead, WriteUsers, DbStages
  <2> QED
    BY <1>3, <1>8, <2>3, <2>4 DEF UsersRead, WriteUsers, deviceVars, fixed, histVars
<1>9. ASSUME j \in Attempts, RegisterGranted(j)
      PROVE  TypeInv'
  <2>1. InsertUser(j) /\ Dismiss(j)
    BY <1>9 DEF RegisterGranted
  <2>2. auth' \in [Attempts -> AuthStages]
    BY <1>9 DEF RegisterGranted, AuthStages
  <2>3. db' \in [Jobs -> DbStages] /\ Owned'
    <3>1. db' = [db EXCEPT ![j] = "node"]
      BY <1>4, <1>9, <2>1 DEF Step
    <3>2. \A k \in Products : db'[k] = db[k]
      BY <1>9, <3>1, AccountAssumption DEF Jobs
    <3> QED
      BY <1>9, <3>1, <3>2 DEF RegisterGranted, Owned, DbStages
  <2> QED
    BY <1>4, <1>9, <2>1, <2>2, <2>3, DismissType DEF RegisterGranted, fixed
<1>10. ASSUME j \in Attempts, LoginGranted(j)
       PROVE  TypeInv'
  <2>1. auth' \in [Attempts -> AuthStages]
    BY <1>10 DEF LoginGranted, AuthStages
  <2>2. defEmail' \in [Devices -> Emails \cup {NoEmail}]
    BY <1>10, JobTypes DEF LoginGranted
  <2>3. db' \in [Jobs -> DbStages] /\ Owned'
    <3>1. db' = db \/ db' = [db EXCEPT ![j] = "asked"]
      BY <1>10 DEF LoginGranted, Step
    <3>2. \A k \in Products : db'[k] = db[k]
      BY <1>10, <3>1, AccountAssumption DEF Jobs
    <3> QED
      BY <1>10, <3>1, <3>2 DEF LoginGranted, Owned, DbStages
  <2>4. Dismiss(j)
    BY <1>10 DEF LoginGranted
  <2> QED
    BY <1>10, <2>1, <2>2, <2>3, <2>4, DismissType DEF LoginGranted, dbVars, fixed, bounds
<1>11. ASSUME j \in Attempts, GoogleGranted(j)
       PROVE  TypeInv'
  <2>1. auth' \in [Attempts -> AuthStages] /\ Dismiss(j)
    BY <1>11 DEF GoogleGranted, AuthStages
  <2>2. Owned'
    BY <1>11 DEF GoogleGranted, Owned
  <2> QED
    BY <1>11, <2>1, <2>2, DismissType DEF GoogleGranted, dbVars, fixed, bounds
<1>12. CASE AddProduct(j)
  <2>1. CASE snap[j].there
    <3> DEFINE val == [snap[j] EXCEPT !.list = Append(@, j)]
    <3>1. val \in Entry /\ NodeOf(j) \in Users
      <4>1. j \in Products /\ snap[j] \in Entry /\ db[j] = "raised"
        BY <1>12 DEF AddProduct
      <4>2. NodeOf(j) \in Users
        BY <4>1, JobTypes
      <4>3. Append(snap[j].list, j) \in Seq(Products \cup Users)
        BY <4>1 DEF Entry
      <4> QED
        BY <4>1, <4>2, <4>3 DEF Entry
    <3>2. Enqueue(j, NodeOf(j), val) /\ Step(j, "node") /\ db[j] = "raised"
      BY <1>12, <2>1 DEF AddProduct
    <3> HIDE DEF val
    <3>3. pending' \in [Devices -> Seq(AccountWrites)] /\ denied' \in SUBSET Jobs
      BY <3>1, <3>2, EnqueueType
    <3>4. db' \in [Jobs -> DbStages] /\ Owned'
      BY <1>1, <1>12, <3>2 DEF AddProduct, DbStages
    <3> QED
      BY <1>3, <1>12, <3>3, <3>4 DEF AddProduct, deviceVars, fixed, histVars
  <2>2. CASE ~ snap[j].there
    <3>1. db' \in [Jobs -> DbStages] /\ Owned'
      BY <1>1, <1>12, <2>2 DEF AddProduct, DbStages
    <3> QED
      BY <1>3, <1>12, <2>2, <3>1 DEF AddProduct, deviceVars, fixed, histVars
  <2> QED
    BY <2>1, <2>2
<1> QED
  BY <1>5, <1>6, <1>7, <1>8, <1>9, <1>10, <1>11, <1>12 DEF Callback

\* Auth answers, or does not.
LEMMA AuthType ==
    ASSUME TypeInv, NEW a \in Attempts, AuthGrants(a) \/ AuthFails(a)
    PROVE  TypeInv'
<1>0. form[a].dev \in Devices /\ form[a].email \in Emails
  BY JobTypes
<1> USE DEF TypeInv, AccountTypeOK
<1>1. Granted(a) \in [Emails -> SUBSET {"login", "google"}]
  BY <1>0 DEF Granted
<1>2. CASE AuthGrants(a)
  BY <1>0, <1>1, <1>2
  DEF AuthGrants, dbVars, fixed, bounds, histVars, AuthStages, Owned
<1>3. CASE AuthFails(a)
  <2>1. auth' \in [Attempts -> AuthStages] /\ faults' \in 0..MaxFaults
    <3>1. \/ auth' = [auth EXCEPT ![a] = "over"]
          \/ faults < MaxFaults /\ auth' = [auth EXCEPT ![a] = "lost"]
      BY <1>3 DEF AuthFails
    <3>2. auth' \in [Attempts -> AuthStages]
      BY <3>1 DEF AuthStages
    <3>3. faults' = faults \/ (faults < MaxFaults /\ faults' = faults + 1)
      BY <1>3, <3>1 DEF AuthFails
    <3> QED
      BY <3>2, <3>3, AccountAssumption
  <2>2. accounts' \in [Emails -> SUBSET {"login", "google"}]
    BY <1>1, <1>3 DEF AuthFails
  <2>3. db' \in [Jobs -> DbStages] /\ Owned'
    <3>1. db' = [db EXCEPT ![a] = IF db[a] = "free" THEN "over" ELSE db[a]]
      BY <1>3 DEF AuthFails, Step
    <3>2. \A k \in Products : db'[k] = db[k]
      BY <3>1, AccountAssumption DEF Jobs
    <3> QED
      BY <1>3, <3>1, <3>2, JobTypes DEF AuthFails, Owned, DbStages
  <2>4. unsettled' \in SUBSET Devices
    BY <1>0, <1>3 DEF AuthFails
  <2> QED
    BY <1>3, <2>1, <2>2, <2>3, <2>4 DEF AuthFails, dbVars, deviceVars, fixed
<1> QED
  BY <1>2, <1>3

\* A publication starts, or a read is answered.
LEMMA ReadType ==
    ASSUME TypeInv, NEW j \in Jobs, (j \in Products /\ Publish(j)) \/ Raise(j)
    PROVE  TypeInv'
<1> USE DEF TypeInv, AccountTypeOK
<1>1. ASSUME j \in Products, Publish(j)
      PROVE  TypeInv'
  <2>1. from[j] \in Devices /\ session[from[j]] \in Emails
    BY <1>1 DEF Publish
  <2>2. owner' = [owner EXCEPT ![j] = session[from[j]]] /\ db' = [db EXCEPT ![j] = "asked"]
    BY <1>1 DEF Publish, Step
  <2>3. owner' \in [Products -> Emails \cup {NoEmail}] /\ db' \in [Jobs -> DbStages] /\ Owned'
    BY <1>1, <2>1, <2>2 DEF DbStages, Owned, Jobs
  <2>4. crossed' \in SUBSET Users
    BY <1>1, <2>1 DEF Publish
  <2> QED
    BY <1>1, <2>3, <2>4 DEF Publish, dbVars, deviceVars, fixed, bounds
<1>2. CASE Raise(j)
  <2> DEFINE n == IF db[j] = "asked" THEN NodeOf(j) ELSE UsersNode
  <2>1. n \in Users \cup {UsersNode} /\ DeviceOf(j) \in Devices
    BY <1>2, JobTypes DEF Raise, dbVars
  <2>2. PICK v \in View(DeviceOf(j), n) : snap' = [snap EXCEPT ![j] = v]
    BY <1>2 DEF Raise, dbVars
  <2>3. v \in Entry
    BY <2>1, <2>2, ViewType
  <2>4. feed' \in [Devices -> Entry]
    <3>1. feed' = feed \/ feed' = [feed EXCEPT ![DeviceOf(j)] = tree[ProductsNode]]
      BY <1>2 DEF Raise, dbVars
    <3>2. tree[ProductsNode] \in Entry
      BY DEF Paths
    <3> QED
      BY <3>1, <3>2
  <2>5. db' \in [Jobs -> DbStages] /\ Owned'
    BY <1>2 DEF Raise, dbVars, Step, DbStages, Owned, Jobs
  <2> QED
    BY <1>2, <2>2, <2>3, <2>4, <2>5 DEF Raise, dbVars, deviceVars, fixed, bounds, histVars
<1> QED
  BY <1>1, <1>2

\* The screens without an attempt, and the ends of a process.
LEMMA DeviceType ==
    ASSUME TypeInv, NEW d \in Devices,
           \/ CloseAlert(d) \/ Back(d) \/ Logout(d) \/ Kill(d) \/ LoseQueue(d) \/ Start(d)
    PROVE  TypeInv'
<1> USE DEF TypeInv, AccountTypeOK
<1>1. CASE CloseAlert(d)
  BY <1>1 DEF CloseAlert, dbVars, fixed, jobVars, bounds, histVars, Owned
<1>2. CASE Back(d)
  BY <1>2 DEF Back, dbVars, deviceVars, fixed, bounds, histVars, Owned
<1>3. CASE Logout(d)
  BY <1>3 DEF Logout, SignOut, dbVars, fixed, jobVars, bounds, Owned
<1>4. CASE Kill(d)
  <2>1. accounts' \in [Emails -> SUBSET {"login", "google"}]
    <3>1. ASSUME NEW a \in Attempts
          PROVE  Granted(a) \in [Emails -> SUBSET {"login", "google"}]
      BY JobTypes DEF Granted
    <3> QED
      BY <1>4, <3>1 DEF Kill
  <2>2. db' \in [Jobs -> DbStages] /\ Owned'
    BY <1>4 DEF Kill, DbStages, Owned, Jobs, fixed
  <2>3. auth' \in [Attempts -> AuthStages] /\ snap' \in [Jobs -> Entry]
    BY <1>4, ConstantEntries DEF Kill, AuthStages
  <2>4. faults' \in 0..MaxFaults /\ unsettled' \in SUBSET Devices
    BY <1>4, AccountAssumption DEF Kill
  <2>5. alive' \in [Devices -> BOOLEAN] /\ page' \in [Attempts -> {"closed", "open", "left"}]
    BY <1>4 DEF Kill, Die
  <2> QED
    BY <1>4, <2>1, <2>2, <2>3, <2>4, <2>5 DEF Kill, fixed
<1>5. CASE LoseQueue(d)
  <2>1. db' \in [Jobs -> DbStages] /\ Owned'
    BY <1>5 DEF LoseQueue, DbStages, Owned, Jobs
  <2> QED
    BY <1>5, <2>1 DEF LoseQueue, Drop, deviceVars, fixed, bounds, histVars
<1>6. CASE Start(d)
  <2>1. tree[ProductsNode] \in Entry
    BY DEF Paths
  <2> QED
    BY <1>6, <2>1 DEF Start, Relaunch, CatchUp, fixed, jobVars, bounds, histVars, Owned
<1> QED
  BY <1>1, <1>2, <1>3, <1>4, <1>5, <1>6

\* The server and a broken connection only change what has become of the writes.
LEMMA QueueShape ==
    ASSUME TypeInv, NEW d \in Devices, Server(d) \/ ConnectionLost(d)
    PROVE  /\ pending' \in [Devices -> Seq(AccountWrites)]
           /\ \A e \in Devices :
                 /\ DOMAIN pending'[e] = DOMAIN pending[e]
                 /\ \A i \in DOMAIN pending[e] :
                       /\ pending'[e][i].by = pending[e][i].by
                       /\ pending'[e][i].node = pending[e][i].node
                       /\ pending'[e][i].val = pending[e][i].val
           /\ \/ UNCHANGED tree
              \/ \E i \in DOMAIN pending[d] :
                    tree' = [tree EXCEPT ![pending[d][i].node] = pending[d][i].val]
<1>0. /\ pending \in [Devices -> Seq(AccountWrites)] /\ pending[d] \in Seq(AccountWrites)
      /\ DOMAIN pending[d] = 1..Len(pending[d]) /\ Len(pending[d]) \in Nat
  BY DEF TypeInv, AccountTypeOK
<1>1. ASSUME NEW q \in Seq(AccountWrites), pending' = [pending EXCEPT ![d] = q],
             DOMAIN q = DOMAIN pending[d],
             \A i \in DOMAIN q : /\ q[i].by = pending[d][i].by
                                 /\ q[i].node = pending[d][i].node
                                 /\ q[i].val = pending[d][i].val
      PROVE  /\ pending' \in [Devices -> Seq(AccountWrites)]
             /\ \A e \in Devices :
                   /\ DOMAIN pending'[e] = DOMAIN pending[e]
                   /\ \A i \in DOMAIN pending[e] :
                         /\ pending'[e][i].by = pending[e][i].by
                         /\ pending'[e][i].node = pending[e][i].node
                         /\ pending'[e][i].val = pending[e][i].val
  BY <1>0, <1>1
<1>2. \A w \in AccountWrites : \A f \in Fates : LET v == [w EXCEPT !.fate = f] IN
          v \in AccountWrites /\ v.by = w.by /\ v.node = w.node /\ v.val = w.val
  BY DEF AccountWrites
<1>3. CASE Server(d)
  <2>1. PICK i \in DOMAIN pending[d] :
          /\ pending' = [pending EXCEPT
                ![d][i].fate = IF pending[d][i].by \in denied THEN "denied" ELSE "ok"]
          /\ tree' = IF pending[d][i].by \in denied THEN tree
                     ELSE [tree EXCEPT ![pending[d][i].node] = pending[d][i].val]
    BY <1>3 DEF Server, Perform
  <2> DEFINE w == [pending[d][i] EXCEPT !.fate =
                     IF pending[d][i].by \in denied THEN "denied" ELSE "ok"]
             q == [pending[d] EXCEPT ![i] = w]
  <2>2. pending[d][i] \in AccountWrites
    BY <1>0
  <2>3. w \in AccountWrites /\ w.by = pending[d][i].by /\ w.node = pending[d][i].node
        /\ w.val = pending[d][i].val
    BY <1>2, <2>2 DEF Fates
  <2>4. pending' = [pending EXCEPT ![d] = q]
    BY <1>0, <2>1
  <2> HIDE DEF w
  <2>5. q \in Seq(AccountWrites) /\ DOMAIN q = DOMAIN pending[d]
    BY <1>0, <2>3
  <2>6. \A k \in DOMAIN q : /\ q[k].by = pending[d][k].by
                            /\ q[k].node = pending[d][k].node
                            /\ q[k].val = pending[d][k].val
    BY <1>0, <2>3
  <2> HIDE DEF q
  <2> QED
    BY <1>1, <2>1, <2>4, <2>5, <2>6
<1>4. CASE ConnectionLost(d)
  <2>1. PICK kept \in 0..Len(pending[d]) : pending' = [pending EXCEPT ![d] = Unsent(d, kept)]
    BY <1>4 DEF ConnectionLost, Reconnect
  <2>2. \A i \in DOMAIN pending[d] :
            /\ Unsent(d, kept)[i] \in AccountWrites
            /\ Unsent(d, kept)[i].by = pending[d][i].by
            /\ Unsent(d, kept)[i].node = pending[d][i].node
            /\ Unsent(d, kept)[i].val = pending[d][i].val
    <3> SUFFICES ASSUME NEW i \in DOMAIN pending[d]
                 PROVE  /\ Unsent(d, kept)[i] \in AccountWrites
                        /\ Unsent(d, kept)[i].by = pending[d][i].by
                        /\ Unsent(d, kept)[i].node = pending[d][i].node
                        /\ Unsent(d, kept)[i].val = pending[d][i].val
      OBVIOUS
    <3>1. pending[d][i] \in AccountWrites
      BY <1>0
    <3>2. Unsent(d, kept)[i] = IF i <= kept THEN pending[d][i]
                               ELSE [pending[d][i] EXCEPT !.fate = "sent"]
      BY DEF Unsent
    <3> QED
      BY <1>2, <3>1, <3>2 DEF Fates
  <2>3. DOMAIN Unsent(d, kept) = DOMAIN pending[d]
    BY DEF Unsent
  <2>4. Unsent(d, kept) \in Seq(AccountWrites)
    <3>1. Unsent(d, kept) = [i \in 1..Len(pending[d]) |-> Unsent(d, kept)[i]]
      BY <1>0, <2>3 DEF Unsent
    <3> QED
      BY <1>0, <2>2, <3>1
  <2>5. UNCHANGED tree
    BY <1>4 DEF ConnectionLost, Reconnect
  <2> QED
    BY <1>1, <2>1, <2>2, <2>3, <2>4, <2>5
<1> QED
  BY <1>3, <1>4

\* The server and the connection.
LEMMA ConnectionType ==
    ASSUME TypeInv, NEW d \in Devices, Server(d) \/ Completion(d) \/ ConnectionLost(d)
    PROVE  TypeInv'
<1>1. CASE Server(d)
  <2>1. pending' \in [Devices -> Seq(AccountWrites)]
    BY <1>1, QueueShape
  <2>2. tree' \in [Paths -> Entry]
    <3>1. CASE UNCHANGED tree
      BY <3>1 DEF TypeInv, AccountTypeOK
    <3>2. ASSUME NEW i \in DOMAIN pending[d],
                 tree' = [tree EXCEPT ![pending[d][i].node] = pending[d][i].val]
          PROVE  tree' \in [Paths -> Entry]
      <4>1. pending[d][i] \in AccountWrites
        BY DEF TypeInv, AccountTypeOK
      <4> QED
        BY <3>2, <4>1 DEF TypeInv, AccountTypeOK, AccountWrites
    <3> QED
      BY <1>1, <3>1, <3>2, QueueShape
  <2> QED
    BY <1>1, <2>1, <2>2
    DEF Server, Perform, deviceVars, fixed, jobVars, bounds, histVars, Owned, TypeInv, AccountTypeOK
<1>2. CASE Completion(d)
  <2> USE DEF TypeInv, AccountTypeOK
  <2>0. pending[d] \in Seq(AccountWrites)
    OBVIOUS
  <2>1. /\ pending' = [pending EXCEPT ![d] = Tail(@)] /\ pending[d] # <<>>
        /\ feed' = [feed EXCEPT ![d] = tree[ProductsNode]]
        /\ UNCHANGED <<tree, alive>>
    BY <1>2 DEF Completion, Acknowledge, CatchUp
  <2>2. tree[ProductsNode] \in Entry
    BY DEF Paths
  <2>3. pending' \in [Devices -> Seq(AccountWrites)] /\ feed' \in [Devices -> Entry]
    BY <2>0, <2>1, <2>2
  <2>4. \E next \in {"failed", "listAsked", "done"} :
            db' = [db EXCEPT ![Head(pending[d]).by] = next]
    BY <1>2 DEF Completion, Step, Answered
  <2>5. db' \in [Jobs -> DbStages] /\ listShared' \in BOOLEAN
    BY <1>2, <2>4 DEF Completion, DbStages
  <2>6. Owned'
    BY <1>2, <2>4 DEF Completion, Owned
  <2> QED
    BY <1>2, <2>1, <2>3, <2>5, <2>6 DEF Completion, deviceVars, fixed, bounds
<1>3. CASE ConnectionLost(d)
  <2>1. pending' \in [Devices -> Seq(AccountWrites)]
    BY <1>3, QueueShape
  <2>2. faults' \in 0..MaxFaults
    BY <1>3, AccountAssumption DEF ConnectionLost, TypeInv, AccountTypeOK
  <2> QED
    BY <1>3, <2>1, <2>2
    DEF ConnectionLost, Reconnect, deviceVars, fixed, jobVars, histVars, Owned, TypeInv,
        AccountTypeOK
<1> QED
  BY <1>1, <1>2, <1>3

\* Every step keeps the typing.
LEMMA NextTypeInv == TypeInv /\ [Next]_vars => TypeInv'
<1> SUFFICES ASSUME TypeInv, [Next]_vars
             PROVE  TypeInv'
  OBVIOUS
<1>1. ASSUME NEW a \in Attempts, Begin(a) \/ TapRefused(a) \/ AuthGrants(a) \/ AuthFails(a)
      PROVE  TypeInv'
  <2>1. CASE TapRefused(a)
    <3>1. alert' \in [Devices -> BOOLEAN]
      BY <2>1, JobTypes DEF TapRefused, TypeInv, AccountTypeOK
    <3> QED
      BY <2>1, <3>1
      DEF TapRefused, dbVars, fixed, jobVars, bounds, histVars, Owned, TypeInv, AccountTypeOK
  <2> QED
    BY <1>1, <2>1, BeginType, AuthType
<1>2. ASSUME NEW j \in Products, Publish(j)
      PROVE  TypeInv'
  BY <1>2, ReadType DEF Jobs
<1>3. ASSUME NEW j \in Jobs, Raise(j) \/ Callback(j)
      PROVE  TypeInv'
  BY <1>3, ReadType, CallbackType
<1>4. ASSUME NEW d \in Devices,
             \/ CloseAlert(d) \/ Back(d) \/ Logout(d) \/ Server(d) \/ Completion(d)
             \/ Kill(d) \/ LoseQueue(d) \/ Start(d) \/ ConnectionLost(d)
      PROVE  TypeInv'
  BY <1>4, DeviceType, ConnectionType
<1>5. CASE UNCHANGED vars
  BY <1>5 DEF vars, dbVars, deviceVars, fixed, jobVars, bounds, histVars, Owned, TypeInv,
     AccountTypeOK
<1> QED
  BY <1>1, <1>2, <1>3, <1>4, <1>5 DEF Next

\* Every variable keeps its type, whatever is tapped, answered, lost or killed.
THEOREM AccountTypeCorrect == Spec => []AccountTypeOK
<1>1. TypeInv => AccountTypeOK
  BY DEF TypeInv
<1> QED
  BY <1>1, InitTypeInv, NextTypeInv, PTL DEF Spec

-----------------------------------------------------------------------------
(* Writes, names and the parts of an attempt *)

\* An attempt starts once; Auth asks for a registration only once its address
\* is free, and the name at a login only after Auth has answered.
StagesMatch == \A a \in Attempts :
    /\ page[a] = "closed" => db[a] = "none" /\ auth[a] = "none"
    /\ form[a].way = "register" /\ auth[a] \in {"sent", "granted"} => db[a] = "free"
    /\ form[a].way = "login" /\ auth[a] \in {"sent", "granted"} => db[a] = "none"

\* A queued write is the only one of its job, which waits for it.
QueueOwned ==
    \A d \in Devices : \A i \in DOMAIN pending[d] :
        /\ pending[d][i].by \in Jobs
        /\ db[pending[d][i].by] \in {"node", "list"}
        /\ DeviceOf(pending[d][i].by) = d
        /\ \A k \in DOMAIN pending[d] : pending[d][k].by = pending[d][i].by => k = i

\* The name in a user node is of an address that has this node.
Names(c, u) == c.name # NoEmail => safe[c.name] = u

NamesAgree ==
    /\ \A u \in Users : Names(tree[u], u)
    /\ \A d \in Devices : \A i \in DOMAIN pending[d] :
          pending[d][i].node \in Users => Names(pending[d][i].val, pending[d][i].node)
    /\ \A j \in Jobs : db[j] = "raised" => Names(snap[j], NodeOf(j))

WriteInv == TypeInv /\ StagesMatch /\ QueueOwned /\ NamesAgree

\* What no step changes, and what never runs backwards.
LEMMA FixedForms ==
    ASSUME [Next]_vars
    PROVE  UNCHANGED <<safe, form, from>>
<1> USE DEF fixed
<1>1. ASSUME NEW a \in Attempts, Begin(a) \/ TapRefused(a) \/ AuthGrants(a) \/ AuthFails(a)
      PROVE  UNCHANGED <<safe, form, from>>
  BY <1>1 DEF Begin, TapRefused, AuthGrants, AuthFails
<1>2. ASSUME NEW j \in Products, Publish(j)
      PROVE  UNCHANGED <<safe, form, from>>
  BY <1>2 DEF Publish
<1>3. ASSUME NEW j \in Jobs, Raise(j)
      PROVE  UNCHANGED <<safe, form, from>>
  BY <1>3 DEF Raise, dbVars
<1>4. ASSUME NEW j \in Jobs, Callback(j)
      PROVE  UNCHANGED <<safe, form, from>>
  <2>1. ASSUME Checked(j) \/ GoogleChecked(j) \/ NameRead(j) \/ UsersRead(j)
        PROVE  UNCHANGED <<safe, form, from>>
    BY <2>1 DEF Checked, GoogleChecked, GoogleFound, NameRead, UsersRead, WriteUsers
  <2>2. ASSUME RegisterGranted(j) \/ LoginGranted(j) \/ GoogleGranted(j) \/ AddProduct(j)
        PROVE  UNCHANGED <<safe, form, from>>
    BY <2>2 DEF RegisterGranted, LoginGranted, GoogleGranted, AddProduct
  <2> QED
    BY <1>4, <2>1, <2>2 DEF Callback
<1>5. ASSUME NEW d \in Devices, CloseAlert(d) \/ Back(d) \/ Logout(d) \/ Server(d) \/ Completion(d)
      PROVE  UNCHANGED <<safe, form, from>>
  BY <1>5 DEF CloseAlert, Back, Logout, SignOut, Server, Completion
<1>6. ASSUME NEW d \in Devices, Kill(d) \/ LoseQueue(d) \/ Start(d) \/ ConnectionLost(d)
      PROVE  UNCHANGED <<safe, form, from>>
  BY <1>6 DEF Kill, LoseQueue, Start, ConnectionLost
<1>7. CASE UNCHANGED vars
  BY <1>7 DEF vars
<1> QED
  BY <1>1, <1>2, <1>3, <1>4, <1>5, <1>6, <1>7 DEF Next

\* The steps that neither write nor read: jobs that wait for a write go on
\* waiting, and no snapshot comes.
Aside ==
    /\ UNCHANGED <<tree, pending, safe, form, from>>
    /\ \A k \in Jobs : db[k] \in {"node", "list"} => db'[k] = db[k]
    /\ \A k \in Jobs : db'[k] = "raised" => db[k] = "raised" /\ snap'[k] = snap[k]
    /\ \A k \in Products : db[k] = "raised" => owner'[k] = owner[k]

LEMMA AsideKeeps ==
    ASSUME TypeInv, QueueOwned, NamesAgree, Aside
    PROVE  QueueOwned' /\ NamesAgree'
<1>1. QueueOwned'
  BY DEF Aside, QueueOwned, DeviceOf
<1>2. \A j \in Jobs : db'[j] = "raised" => Names(snap[j], NodeOf(j))
  BY DEF Aside, NamesAgree
<1>3. \A j \in Jobs : db'[j] = "raised" => NodeOf(j)' = NodeOf(j) /\ snap'[j] = snap[j]
  BY DEF Aside, NodeOf
<1>4. \A c, u : Names(c, u) = (c.name # NoEmail => safe[c.name] = u)
  BY DEF Names
<1>5. safe' = safe /\ tree' = tree /\ pending' = pending
  BY DEF Aside
<1>6. \A j \in Jobs : db'[j] = "raised" => (snap'[j].name # NoEmail => safe'[snap'[j].name] = NodeOf(j)')
  BY <1>2, <1>3, <1>4, <1>5
<1> QED
  BY <1>1, <1>5, <1>6 DEF NamesAgree, Names

\* A write enters the queue behind the others, and its job waits for it.
LEMMA EnqueueKeeps ==
    ASSUME TypeInv, QueueOwned, NamesAgree,
           NEW j \in Jobs, NEW n \in Users \cup {UsersNode}, NEW v \in Entry,
           NEW next \in {"node", "list"},
           Enqueue(j, n, v), n \in Users => Names(v, n), Step(j, next),
           db[j] \notin {"node", "list"},
           UNCHANGED <<tree, safe, form, from, owner>>,
           \A k \in Jobs : k # j => snap'[k] = snap[k]
    PROVE  QueueOwned' /\ NamesAgree'
<1>d. PICK d \in Devices : d = DeviceOf(j)
  BY JobTypes
<1>0. pending \in [Devices -> Seq(AccountWrites)] /\ db \in [Jobs -> DbStages]
  BY DEF TypeInv, AccountTypeOK
<1>1. /\ pending' = [pending EXCEPT ![d] = Append(pending[d], Put(j, n, v))]
      /\ db' = [db EXCEPT ![j] = next]
  BY <1>0, <1>d DEF Enqueue, Step
<1>2. \A k \in Jobs : DeviceOf(k)' = DeviceOf(k) /\ NodeOf(k)' = NodeOf(k)
  BY DEF DeviceOf, NodeOf
<1>3. /\ Put(j, n, v).by = j /\ Put(j, n, v).node = n /\ Put(j, n, v).val = v
      /\ Put(j, n, v) \in AccountWrites
  BY DEF Put, AccountWrites, Fates
<1>4. /\ DOMAIN pending'[d] = 1..(Len(pending[d]) + 1)
      /\ DOMAIN pending[d] = 1..Len(pending[d]) /\ Len(pending[d]) \in Nat
      /\ \A i \in DOMAIN pending[d] : pending'[d][i] = pending[d][i]
      /\ pending'[d][Len(pending[d]) + 1] = Put(j, n, v)
      /\ \A e \in Devices : e # d => pending'[e] = pending[e]
  BY <1>0, <1>1, <1>3
<1>5. \A e \in Devices : \A i \in DOMAIN pending[e] : pending[e][i].by # j
  BY DEF QueueOwned
<1>6. ASSUME NEW e \in Devices, NEW i \in DOMAIN pending'[e]
      PROVE  /\ pending'[e][i].by \in Jobs
             /\ db'[pending'[e][i].by] \in {"node", "list"}
             /\ DeviceOf(pending'[e][i].by) = e
             /\ \A k \in DOMAIN pending'[e] : pending'[e][k].by = pending'[e][i].by => k = i
             /\ pending'[e][i].node \in Users
                  => Names(pending'[e][i].val, pending'[e][i].node)
  <2>1. ASSUME i \in DOMAIN pending[e], pending'[e][i] = pending[e][i]
        PROVE  /\ pending'[e][i].by \in Jobs
               /\ db'[pending'[e][i].by] \in {"node", "list"}
               /\ DeviceOf(pending'[e][i].by) = e
               /\ pending'[e][i].node \in Users
                    => Names(pending'[e][i].val, pending'[e][i].node)
    <3>1. pending[e][i].by \in Jobs /\ db[pending[e][i].by] \in {"node", "list"}
          /\ DeviceOf(pending[e][i].by) = e
      BY <2>1 DEF QueueOwned
    <3>2. pending[e][i].node \in Users => Names(pending[e][i].val, pending[e][i].node)
      BY <2>1 DEF NamesAgree
    <3>3. db'[pending[e][i].by] \in {"node", "list"}
      BY <1>0, <1>1, <3>1
    <3> QED
      BY <2>1, <3>1, <3>2, <3>3
  <2>2. CASE e # d
    <3>1. pending'[e] = pending[e]
      BY <1>4, <2>2
    <3> QED
      BY <2>1, <3>1 DEF QueueOwned
  <2>3. CASE e = d /\ i \in DOMAIN pending[d]
    <3>1. \A k \in DOMAIN pending'[d] : pending'[d][k].by = pending'[d][i].by => k = i
      <4> TAKE k \in DOMAIN pending'[d]
      <4>1. CASE k \in DOMAIN pending[d]
        BY <1>0, <1>4, <2>3, <4>1 DEF QueueOwned
      <4>2. CASE k = Len(pending[d]) + 1
        BY <1>0, <1>3, <1>4, <1>5, <2>3, <4>2
      <4> QED
        BY <1>4, <4>1, <4>2
    <3> QED
      BY <1>4, <2>1, <2>3, <3>1
  <2>4. CASE e = d /\ i = Len(pending[d]) + 1
    <3>1. pending'[e][i].by = j /\ pending'[e][i].node = n /\ pending'[e][i].val = v
      BY <1>3, <1>4, <2>4
    <3>2. db'[j] \in {"node", "list"}
      BY <1>0, <1>1
    <3>3. \A k \in DOMAIN pending'[d] : pending'[d][k].by = j => k = i
      BY <1>0, <1>4, <1>5, <2>4
    <3> QED
      BY <1>d, <2>4, <3>1, <3>2, <3>3
  <2> QED
    BY <1>4, <2>2, <2>3, <2>4
<1>7. \A k \in Jobs : db'[k] = "raised" => /\ db[k] = "raised" /\ snap'[k] = snap[k]
                                           /\ NodeOf(k)' = NodeOf(k)
  BY <1>0, <1>1, <1>2
<1>8. QueueOwned'
  BY <1>6 DEF QueueOwned, DeviceOf
<1>9. NamesAgree'
  BY <1>6, <1>7 DEF NamesAgree, Names
<1> QED
  BY <1>8, <1>9

\* Taps, Auth's answers and the ends of a process stand aside.
LEMMA TapsAside ==
    ASSUME TypeInv, StagesMatch, NEW a \in Attempts,
           Begin(a) \/ TapRefused(a) \/ AuthGrants(a) \/ AuthFails(a)
    PROVE  Aside
<1> USE DEF TypeInv, AccountTypeOK, Jobs, Aside, fixed
<1>1. CASE Begin(a)
  <2>1. db[a] = "none"
    BY <1>1 DEF Begin, StagesMatch
  <2>2. db' = db \/ db' = [db EXCEPT ![a] = "asked"]
    BY <1>1 DEF Begin, Step
  <2> QED
    BY <1>1, <2>1, <2>2 DEF Begin, dbVars
<1>2. CASE TapRefused(a)
  BY <1>2 DEF TapRefused, dbVars, jobVars
<1>3. CASE AuthGrants(a)
  BY <1>3 DEF AuthGrants, dbVars
<1>4. CASE AuthFails(a)
  <2>1. db' = [db EXCEPT ![a] = IF db[a] = "free" THEN "over" ELSE db[a]]
    BY <1>4 DEF AuthFails, Step
  <2> QED
    BY <1>4, <2>1 DEF AuthFails, dbVars
<1> QED
  BY <1>1, <1>2, <1>3, <1>4

LEMMA DevicesAside ==
    ASSUME TypeInv, NEW d \in Devices,
           CloseAlert(d) \/ Back(d) \/ Logout(d) \/ Kill(d) \/ Start(d)
    PROVE  Aside
<1> USE DEF TypeInv, AccountTypeOK, Aside, fixed
<1>1. CASE CloseAlert(d)
  BY <1>1 DEF CloseAlert, dbVars, jobVars
<1>2. CASE Back(d)
  BY <1>2 DEF Back, dbVars
<1>3. CASE Logout(d)
  BY <1>3 DEF Logout, SignOut, dbVars, jobVars
<1>4. CASE Kill(d)
  <2>1. /\ UNCHANGED <<tree, pending, safe, form, from, owner>>
        /\ db' = [j \in Jobs |-> IF DeviceOf(j) = d /\ db[j] \in
             {"asked", "raised", "free", "listAsked", "listRaised"} THEN "dead" ELSE db[j]]
        /\ snap' = [j \in Jobs |-> IF DeviceOf(j) = d THEN NoEntry ELSE snap[j]]
    BY <1>4 DEF Kill
  <2> QED
    BY <2>1
<1>5. CASE Start(d)
  BY <1>5 DEF Start, Relaunch, CatchUp, jobVars
<1> QED
  BY <1>1, <1>2, <1>3, <1>4, <1>5

\* A publication that starts stands aside.
LEMMA PublishAside ==
    ASSUME TypeInv, NEW j \in Products, Publish(j)
    PROVE  Aside
<1>1. /\ UNCHANGED <<tree, pending, safe, form, from, snap>>
      /\ db' = [db EXCEPT ![j] = "asked"] /\ db[j] = "none"
      /\ owner' = [owner EXCEPT ![j] = session[from[j]]]
  BY DEF Publish, Step, dbVars, fixed
<1>2. \A k \in Jobs : db'[k] = IF k = j THEN "asked" ELSE db[k]
  BY <1>1 DEF TypeInv, AccountTypeOK
<1>3. \A k \in Products : k # j => owner'[k] = owner[k]
  BY <1>1 DEF TypeInv, AccountTypeOK
<1> QED
  BY <1>1, <1>2, <1>3 DEF Aside

\* The callbacks either stand aside or write.
LEMMA CallbackWrites ==
    ASSUME WriteInv, NEW j \in Jobs, Callback(j)
    PROVE  QueueOwned' /\ NamesAgree'
<1> USE DEF WriteInv
<1>0. /\ j \in Attempts => /\ NodeOf(j) \in Users /\ NodeOf(j) = safe[form[j].email]
                           /\ form[j].email \in Emails
      /\ db \in [Jobs -> DbStages] /\ snap \in [Jobs -> Entry]
  BY JobTypes DEF TypeInv, AccountTypeOK
<1>1. ASSUME NEW next \in {"over", "asked", "free", "notFound"},
             Step(j, next) \/ UNCHANGED db, db[j] \notin {"node", "list"},
             UNCHANGED <<tree, pending, safe, form, from, owner>>,
             \A k \in Jobs : k # j => snap'[k] = snap[k],
             db[j] = "raised" => Step(j, next)
      PROVE  QueueOwned' /\ NamesAgree'
  <2>1. db' = db \/ db' = [db EXCEPT ![j] = next]
    BY <1>1 DEF Step
  <2>2. Aside
    BY <1>0, <1>1, <2>1 DEF Aside, Step
  <2> QED
    BY <2>2, AsideKeeps
<1>2. ASSUME j \in Attempts, InsertUser(j), db[j] \notin {"node", "list"},
             UNCHANGED <<tree, safe, form, from, owner>>,
             \A k \in Jobs : k # j => snap'[k] = snap[k]
      PROVE  QueueOwned' /\ NamesAgree'
  <2>1. Names(NewUser(form[j].email), NodeOf(j)) /\ NewUser(form[j].email) \in Entry
    BY <1>0, <1>2, ConstantEntries DEF Names, NewUser
  <2>2. Enqueue(j, NodeOf(j), NewUser(form[j].email)) /\ Step(j, "node")
    BY <1>2 DEF InsertUser
  <2> QED
    BY <1>0, <1>2, <2>1, <2>2, EnqueueKeeps
<1>3. ASSUME j \in Attempts, Checked(j)
      PROVE  QueueOwned' /\ NamesAgree'
  <2>1. \A k \in Jobs : k # j => snap'[k] = snap[k]
    BY <1>0, <1>3 DEF Checked
  <2>2. Step(j, "over") \/ Step(j, "free")
    BY <1>3 DEF Checked
  <2> QED
    BY <1>1, <1>3, <2>1, <2>2 DEF Checked, dbVars, fixed
<1>4. ASSUME j \in Attempts, GoogleChecked(j)
      PROVE  QueueOwned' /\ NamesAgree'
  <2>1. \A k \in Jobs : k # j => snap'[k] = snap[k]
    BY <1>0, <1>4 DEF GoogleChecked, GoogleFound
  <2>2. \/ Step(j, "over") /\ UNCHANGED pending
        \/ InsertUser(j)
    BY <1>4 DEF GoogleChecked, GoogleFound
  <2>3. db[j] = "raised" /\ UNCHANGED <<tree, safe, form, from, owner>>
    BY <1>4 DEF GoogleChecked, GoogleFound, fixed
  <2> QED
    BY <1>1, <1>2, <1>4, <2>1, <2>2, <2>3
<1>5. ASSUME j \in Attempts, NameRead(j)
      PROVE  QueueOwned' /\ NamesAgree'
  <2>1. \A k \in Jobs : k # j => snap'[k] = snap[k]
    BY <1>0, <1>5 DEF NameRead
  <2> QED
    BY <1>1, <1>5, <2>1 DEF NameRead, dbVars, fixed
<1>6. ASSUME j \in Attempts, UsersRead(j)
      PROVE  QueueOwned' /\ NamesAgree'
  <2> DEFINE val == [there |-> TRUE, list |-> Append(snap[j].list, NodeOf(j)), name |-> NoEmail]
  <2>1. val \in Entry
    BY <1>0, <1>6 DEF Entry
  <2>2. /\ Enqueue(j, UsersNode, val) /\ Step(j, "list") /\ db[j] = "listRaised"
        /\ UNCHANGED <<tree, safe, form, from, owner>>
    BY <1>6 DEF UsersRead, WriteUsers, fixed
  <2>3. \A k \in Jobs : k # j => snap'[k] = snap[k]
    BY <1>0, <1>6 DEF UsersRead, WriteUsers
  <2>4. UsersNode \notin Users
    BY AccountAssumption
  <2> HIDE DEF val
  <2> QED
    BY <2>1, <2>2, <2>3, <2>4, EnqueueKeeps
<1>7. ASSUME j \in Attempts, RegisterGranted(j)
      PROVE  QueueOwned' /\ NamesAgree'
  <2>1. db[j] = "free"
    BY <1>7 DEF RegisterGranted, StagesMatch
  <2>2. InsertUser(j) /\ UNCHANGED <<tree, safe, form, from, owner, snap>>
    BY <1>7 DEF RegisterGranted, fixed
  <2> QED
    BY <1>2, <1>7, <2>1, <2>2
<1>8. ASSUME j \in Attempts, LoginGranted(j)
      PROVE  QueueOwned' /\ NamesAgree'
  <2>1. db[j] = "none"
    BY <1>8 DEF LoginGranted, StagesMatch
  <2>2. /\ Step(j, "asked") \/ UNCHANGED db
        /\ UNCHANGED <<tree, pending, safe, form, from, owner, snap>>
    BY <1>8 DEF LoginGranted, dbVars, fixed
  <2> QED
    BY <1>1, <2>1, <2>2
<1>9. ASSUME j \in Attempts, GoogleGranted(j)
      PROVE  QueueOwned' /\ NamesAgree'
  <2>1. UNCHANGED <<tree, pending, safe, form, from, owner, snap, db>>
    BY <1>9 DEF GoogleGranted, dbVars, fixed
  <2>2. Aside
    BY <2>1 DEF Aside
  <2> QED
    BY <2>2, AsideKeeps
<1>10. CASE AddProduct(j)
  <2>1. /\ db[j] = "raised" /\ j \in Products
        /\ UNCHANGED <<tree, safe, form, from, owner>>
        /\ \A k \in Jobs : k # j => snap'[k] = snap[k]
    BY <1>0, <1>10 DEF AddProduct, fixed
  <2>2. CASE snap[j].there
    <3> DEFINE val == [snap[j] EXCEPT !.list = Append(@, j)]
    <3>1. val \in Entry /\ NodeOf(j) \in Users /\ val.name = snap[j].name
      <4>1. snap[j] \in Entry /\ NodeOf(j) \in Users
        BY <1>0, <2>1, JobTypes
      <4>2. Append(snap[j].list, j) \in Seq(Products \cup Users)
        BY <2>1, <4>1 DEF Entry
      <4> QED
        BY <4>1, <4>2 DEF Entry
    <3>2. Enqueue(j, NodeOf(j), val) /\ Step(j, "node")
      BY <1>10, <2>2 DEF AddProduct
    <3>3. Names(val, NodeOf(j))
      BY <2>1, <3>1 DEF NamesAgree, Names
    <3> HIDE DEF val
    <3> QED
      BY <2>1, <3>1, <3>2, <3>3, EnqueueKeeps
  <2>3. CASE ~ snap[j].there
    BY <1>1, <1>10, <2>1, <2>3 DEF AddProduct
  <2> QED
    BY <2>2, <2>3
<1> QED
  BY <1>3, <1>4, <1>5, <1>6, <1>7, <1>8, <1>9, <1>10 DEF Callback

\* A read is answered by a queued write, the cache or the server.
LEMMA RaiseWrites ==
    ASSUME WriteInv, NEW j \in Jobs, Raise(j)
    PROVE  QueueOwned' /\ NamesAgree'
<1> USE DEF WriteInv
<1> DEFINE n == IF db[j] = "asked" THEN NodeOf(j) ELSE UsersNode
<1>0. db \in [Jobs -> DbStages] /\ snap \in [Jobs -> Entry] /\ DeviceOf(j) \in Devices
  BY JobTypes DEF TypeInv, AccountTypeOK
<1>1. PICK v \in View(DeviceOf(j), n) : snap' = [snap EXCEPT ![j] = v]
  BY DEF Raise, dbVars
<1>2. /\ db[j] \in {"asked", "listAsked"}
      /\ db' = [db EXCEPT ![j] = IF db[j] = "asked" THEN "raised" ELSE "listRaised"]
      /\ UNCHANGED <<tree, pending, safe, form, from, owner>>
  BY DEF Raise, dbVars, Step, fixed
<1>3. db[j] = "asked" => Names(v, NodeOf(j))
  <2>1. SUFFICES ASSUME db[j] = "asked"
                 PROVE  Names(v, NodeOf(j))
    OBVIOUS
  <2>2. NodeOf(j) \in Users /\ n = NodeOf(j)
    BY <2>1, JobTypes
  <2>3. \/ \E i \in PutsTo(DeviceOf(j), n) : v = pending[DeviceOf(j)][i].val
        \/ v = tree[n]
    <3>1. n # ProductsNode
      BY <2>2, NamesAssumption
    <3> HIDE DEF n
    <3> QED
      BY <1>1, <3>1, Zenon DEF View
  <2> QED
    BY <1>0, <2>2, <2>3 DEF NamesAgree, PutsTo
<1>4. \A k \in Jobs : NodeOf(k)' = NodeOf(k)
  BY <1>2 DEF NodeOf
<1>5. \A k \in Jobs : db'[k] = "raised" => Names(snap'[k], NodeOf(k))
  <2> TAKE k \in Jobs
  <2>1. CASE k = j
    BY <1>0, <1>1, <1>2, <1>3, <2>1
  <2>2. CASE k # j
    BY <1>0, <1>1, <1>2, <2>2 DEF NamesAgree
  <2> QED
    BY <2>1, <2>2
<1>6. QueueOwned'
  <2>1. \A k \in Jobs : db[k] \in {"node", "list"} => db'[k] = db[k]
    BY <1>0, <1>2
  <2> QED
    BY <1>2, <2>1 DEF QueueOwned, DeviceOf
<1> QED
  BY <1>2, <1>4, <1>5, <1>6 DEF NamesAgree, Names

\* The server and a broken connection pass on what is queued.
LEMMA ServerWrites ==
    ASSUME WriteInv, NEW d \in Devices, Server(d) \/ ConnectionLost(d)
    PROVE  QueueOwned' /\ NamesAgree'
<1> USE DEF WriteInv
<1>1. UNCHANGED <<safe, form, from, owner, db, snap>>
  BY DEF Server, ConnectionLost, fixed, jobVars
<1>2. \A e \in Devices :
          /\ DOMAIN pending'[e] = DOMAIN pending[e]
          /\ \A i \in DOMAIN pending[e] :
                /\ pending'[e][i].by = pending[e][i].by
                /\ pending'[e][i].node = pending[e][i].node
                /\ pending'[e][i].val = pending[e][i].val
  BY QueueShape
<1>3. \A u \in Users : Names(tree'[u], u)
  <2> TAKE u \in Users
  <2>0. tree \in [Paths -> Entry] /\ u \in Paths
    BY DEF TypeInv, AccountTypeOK, Paths
  <2>1. CASE UNCHANGED tree
    BY <2>1 DEF NamesAgree
  <2>2. ASSUME NEW i \in DOMAIN pending[d],
               tree' = [tree EXCEPT ![pending[d][i].node] = pending[d][i].val]
        PROVE  Names(tree'[u], u)
    <3>1. CASE pending[d][i].node = u
      BY <2>0, <2>2, <3>1 DEF NamesAgree
    <3>2. CASE pending[d][i].node # u
      BY <2>0, <2>2, <3>2 DEF NamesAgree
    <3> QED
      BY <3>1, <3>2
  <2> QED
    BY <2>1, <2>2, QueueShape
<1>4. QueueOwned'
  BY <1>1, <1>2 DEF QueueOwned, DeviceOf
<1>5. \A j \in Jobs : NodeOf(j)' = NodeOf(j)
  BY <1>1 DEF NodeOf
<1> QED
  BY <1>1, <1>2, <1>3, <1>4, <1>5 DEF NamesAgree, Names

\* The oldest write leaves its queue, or a dead queue is dropped.
LEMMA AcknowledgeWrites ==
    ASSUME WriteInv, NEW d \in Devices, Completion(d) \/ LoseQueue(d)
    PROVE  QueueOwned' /\ NamesAgree'
<1> USE DEF WriteInv
<1>0. /\ pending \in [Devices -> Seq(AccountWrites)] /\ pending[d] \in Seq(AccountWrites)
      /\ db \in [Jobs -> DbStages]
  BY DEF TypeInv, AccountTypeOK
<1>1. UNCHANGED <<tree, safe, form, from, owner, snap>>
  BY DEF Completion, Acknowledge, CatchUp, LoseQueue, Drop, fixed
<1>2. \A j \in Jobs : NodeOf(j)' = NodeOf(j)
  BY <1>1 DEF NodeOf
<1>3. CASE Completion(d)
  <2>1. /\ pending' = [pending EXCEPT ![d] = Tail(pending[d])] /\ pending[d] # <<>>
        /\ \E next \in {"failed", "listAsked", "done"} :
              db' = [db EXCEPT ![Head(pending[d]).by] = next]
    BY <1>3 DEF Completion, Acknowledge, CatchUp, Step, Answered
  <2>2. PICK w \in AccountWrites : w = pending[d][1] /\ w = Head(pending[d])
    BY <1>0, <2>1
  <2>3. /\ DOMAIN pending'[d] = 1..(Len(pending[d]) - 1)
        /\ DOMAIN pending[d] = 1..Len(pending[d]) /\ Len(pending[d]) \in Nat \ {0}
        /\ \A i \in DOMAIN pending'[d] : /\ pending'[d][i] = pending[d][i + 1]
                                         /\ i + 1 \in DOMAIN pending[d]
        /\ \A e \in Devices : e # d => pending'[e] = pending[e]
    BY <1>0, <2>1
  <2>4. /\ w.by \in Jobs /\ DeviceOf(w.by) = d
        /\ \A i \in DOMAIN pending'[d] : pending'[d][i].by # w.by
    <3>1. 1 \in DOMAIN pending[d]
      BY <2>3
    <3>2. w.by \in Jobs /\ DeviceOf(w.by) = d
      BY <2>2, <3>1 DEF QueueOwned
    <3>3. ASSUME NEW i \in DOMAIN pending'[d], pending'[d][i].by = w.by
          PROVE  FALSE
      <4>1. i + 1 = 1
        BY <2>2, <2>3, <3>1, <3>3 DEF QueueOwned
      <4> QED
        BY <2>3, <4>1
    <3> QED
      BY <3>2, <3>3
  <2>5. /\ \A k \in Jobs : k # w.by => db'[k] = db[k]
        /\ db'[w.by] # "raised"
    BY <1>0, <2>1, <2>2, <2>4
  <2>6. ASSUME NEW e \in Devices, NEW i \in DOMAIN pending'[e]
        PROVE  /\ pending'[e][i].by \in Jobs
               /\ db'[pending'[e][i].by] \in {"node", "list"}
               /\ DeviceOf(pending'[e][i].by) = e
               /\ \A k \in DOMAIN pending'[e] : pending'[e][k].by = pending'[e][i].by => k = i
               /\ pending'[e][i].node \in Users
                    => Names(pending'[e][i].val, pending'[e][i].node)
    <3>1. CASE e = d
      <4>1. PICK m \in DOMAIN pending[d] : m = i + 1 /\ pending'[d][i] = pending[d][m]
        BY <2>3, <3>1
      <4>2. /\ pending[d][m].by \in Jobs
            /\ db[pending[d][m].by] \in {"node", "list"}
            /\ DeviceOf(pending[d][m].by) = d
            /\ \A k \in DOMAIN pending[d] : pending[d][k].by = pending[d][m].by => k = m
        BY DEF QueueOwned
      <4>3. pending[d][m].node \in Users => Names(pending[d][m].val, pending[d][m].node)
        BY DEF NamesAgree
      <4>4. ASSUME NEW k \in DOMAIN pending'[d], pending'[d][k].by = pending'[d][i].by
            PROVE  k = i
        <5>1. k + 1 \in DOMAIN pending[d] /\ pending'[d][k] = pending[d][k + 1]
          BY <2>3
        <5>2. k + 1 = m
          BY <4>1, <4>2, <4>4, <5>1
        <5>3. k \in Nat /\ i \in Nat
          BY <2>3, <3>1
        <5> QED
          BY <4>1, <5>2, <5>3
      <4> QED
        BY <2>4, <2>5, <3>1, <4>1, <4>2, <4>3, <4>4
    <3>2. CASE e # d
      <4>1. pending'[e] = pending[e]
        BY <2>3, <3>2
      <4>2. /\ pending[e][i].by \in Jobs
            /\ db[pending[e][i].by] \in {"node", "list"}
            /\ DeviceOf(pending[e][i].by) = e
            /\ \A k \in DOMAIN pending[e] : pending[e][k].by = pending[e][i].by => k = i
        BY <4>1 DEF QueueOwned
      <4>3. pending[e][i].node \in Users => Names(pending[e][i].val, pending[e][i].node)
        BY <4>1 DEF NamesAgree
      <4>4. pending[e][i].by # w.by
        BY <2>4, <3>2, <4>2
      <4> QED
        BY <2>5, <4>1, <4>2, <4>3, <4>4
    <3> QED
      BY <3>1, <3>2
  <2>7. \A j \in Jobs : db'[j] = "raised" => db[j] = "raised"
    BY <2>5
  <2>8. QueueOwned'
    BY <1>1, <2>6 DEF QueueOwned, DeviceOf
  <2>9. NamesAgree'
    BY <1>1, <1>2, <2>6, <2>7 DEF NamesAgree, Names
  <2> QED
    BY <2>8, <2>9
<1>4. CASE LoseQueue(d)
  <2>1. /\ pending' = [pending EXCEPT ![d] = <<>>]
        /\ db' = [j \in Jobs |-> IF DeviceOf(j) = d /\ db[j] \in {"node", "list"}
                                 THEN "dead" ELSE db[j]]
    BY <1>4 DEF LoseQueue, Drop
  <2>2. /\ pending'[d] = <<>>
        /\ \A e \in Devices : e # d => pending'[e] = pending[e]
    BY <1>0, <2>1
  <2>3. \A j \in Jobs : /\ DeviceOf(j) # d => db'[j] = db[j]
                        /\ db'[j] = "raised" => db[j] = "raised"
    BY <2>1
  <2>4. QueueOwned'
    BY <1>1, <2>2, <2>3 DEF QueueOwned, DeviceOf
  <2>5. NamesAgree'
    BY <1>1, <1>2, <2>2, <2>3 DEF NamesAgree, Names
  <2> QED
    BY <2>4, <2>5
<1> QED
  BY <1>3, <1>4

\* The parts of attempt a are as before, or go together.
Together(a) ==
    \/ /\ db'[a] = db[a] /\ auth'[a] = auth[a]
       /\ page'[a] = "closed" => page[a] = "closed"
    \/ /\ page'[a] = "closed" => page[a] = "closed"
       /\ db[a] # "none" \/ auth[a] # "none" \/ page'[a] # "closed"
       /\ auth'[a] \in {"sent", "granted"} =>
             /\ form[a].way = "register" => db'[a] = "free"
             /\ form[a].way = "login" => db'[a] = "none"

LEMMA StagesTogether ==
    ASSUME StagesMatch, UNCHANGED form, \A a \in Attempts : Together(a)
    PROVE  StagesMatch'
BY DEF StagesMatch, Together

\* Dismissing closes no page, and opens none.
LEMMA DismissPages ==
    ASSUME TypeInv, NEW a \in Attempts, Dismiss(a)
    PROVE  \A o \in Attempts : page'[o] = "closed" => page[o] = "closed"
BY DEF Dismiss, TypeInv, AccountTypeOK

LEMMA TapsTogether ==
    ASSUME WriteInv, NEW a \in Attempts, NEW o \in Attempts,
           Begin(a) \/ TapRefused(a) \/ AuthGrants(a) \/ AuthFails(a)
    PROVE  Together(o)
<1> USE DEF WriteInv, TypeInv, AccountTypeOK, Jobs
<1>1. CASE Begin(a)
  <2>1. db[a] = "none" /\ auth[a] = "none" /\ page[a] = "closed"
    BY <1>1 DEF Begin, StagesMatch
  <2>2. /\ page' = [page EXCEPT ![a] = "open"]
        /\ IF form[a].way = "login" THEN db' = db ELSE db' = [db EXCEPT ![a] = "asked"]
        /\ auth' = [auth EXCEPT ![a] = IF form[a].way = "register" THEN "none" ELSE "sent"]
    BY <1>1 DEF Begin, Step
  <2> QED
    BY <2>1, <2>2 DEF Together
<1>2. CASE TapRefused(a)
  BY <1>2 DEF TapRefused, jobVars, Together
<1>3. CASE AuthGrants(a)
  BY <1>3 DEF AuthGrants, Together, StagesMatch
<1>4. CASE AuthFails(a)
  <2>1. /\ db' = [db EXCEPT ![a] = IF db[a] = "free" THEN "over" ELSE db[a]]
        /\ auth' = [auth EXCEPT ![a] = "over"] \/ auth' = [auth EXCEPT ![a] = "lost"]
        /\ auth[a] = "sent" /\ UNCHANGED page
    BY <1>4 DEF AuthFails, Step
  <2> QED
    BY <2>1 DEF Together
<1> QED
  BY <1>1, <1>2, <1>3, <1>4

LEMMA CallbacksTogether ==
    ASSUME WriteInv, NEW j \in Jobs, NEW o \in Attempts, Callback(j)
    PROVE  Together(o)
<1> USE DEF WriteInv, TypeInv, AccountTypeOK
<1>0. o \in Jobs
  BY DEF Jobs
<1>1. ASSUME j \in Attempts, Checked(j)
      PROVE  Together(o)
  <2>1. /\ db[j] = "raised" /\ UNCHANGED page
        /\ \/ db' = [db EXCEPT ![j] = "over"] /\ auth' = [auth EXCEPT ![j] = auth[j]]
           \/ db' = [db EXCEPT ![j] = "free"] /\ auth' = [auth EXCEPT ![j] = "sent"]
        /\ form[j].way = "register"
    BY <1>1 DEF Checked, Step
  <2> QED
    BY <1>0, <2>1 DEF Together, StagesMatch
<1>2. ASSUME j \in Attempts, GoogleChecked(j)
      PROVE  Together(o)
  <2>1. /\ form[j].way = "google" /\ UNCHANGED <<page, auth>> /\ db[j] = "raised"
        /\ db' = [db EXCEPT ![j] = "over"] \/ db' = [db EXCEPT ![j] = "node"]
    BY <1>2 DEF GoogleChecked, GoogleFound, Step, InsertUser
  <2> QED
    BY <1>0, <2>1 DEF Together
<1>3. ASSUME j \in Attempts, NameRead(j)
      PROVE  Together(o)
  <2>1. /\ UNCHANGED <<page, auth>> /\ db[j] = "raised" /\ form[j].way = "login"
        /\ db' = [db EXCEPT ![j] = "over"]
    BY <1>3 DEF NameRead, Step
  <2> QED
    BY <1>0, <2>1 DEF Together, StagesMatch
<1>4. ASSUME j \in Attempts, UsersRead(j)
      PROVE  Together(o)
  <2>1. /\ UNCHANGED <<page, auth>> /\ db[j] = "listRaised" /\ db' = [db EXCEPT ![j] = "list"]
    BY <1>4 DEF UsersRead, WriteUsers, Step
  <2> QED
    BY <1>0, <2>1 DEF Together, StagesMatch
<1>5. ASSUME j \in Attempts, RegisterGranted(j) \/ LoginGranted(j) \/ GoogleGranted(j)
      PROVE  Together(o)
  <2>1. /\ auth[j] = "granted" /\ auth' = [auth EXCEPT ![j] = "over"] /\ Dismiss(j)
        /\ \/ db' = [db EXCEPT ![j] = "node"]
           \/ db' = [db EXCEPT ![j] = "asked"]
           \/ db' = db
    BY <1>5 DEF RegisterGranted, LoginGranted, GoogleGranted, Step, InsertUser
  <2>2. page'[o] = "closed" => page[o] = "closed"
    BY <1>5, <2>1, DismissPages
  <2> QED
    BY <1>0, <2>1, <2>2 DEF Together
<1>6. CASE AddProduct(j)
  <2>1. /\ j \in Products /\ UNCHANGED <<page, auth>>
        /\ db' = [db EXCEPT ![j] = "node"] \/ db' = [db EXCEPT ![j] = "notFound"]
    BY <1>6 DEF AddProduct, Step
  <2>2. j # o
    BY <2>1, AccountAssumption
  <2> QED
    BY <1>0, <2>1, <2>2 DEF Together
<1> QED
  BY <1>1, <1>2, <1>3, <1>4, <1>5, <1>6 DEF Callback

LEMMA OthersTogether ==
    ASSUME WriteInv, NEW o \in Attempts,
           \/ \E j \in Products : Publish(j)
           \/ \E j \in Jobs : Raise(j)
           \/ \E d \in Devices :
                 \/ CloseAlert(d) \/ Back(d) \/ Logout(d) \/ Server(d) \/ Completion(d)
                 \/ Kill(d) \/ LoseQueue(d) \/ Start(d) \/ ConnectionLost(d)
    PROVE  Together(o)
<1> USE DEF WriteInv, TypeInv, AccountTypeOK
<1>0. o \in Jobs
  BY DEF Jobs
<1>1. ASSUME NEW j \in Products, Publish(j)
      PROVE  Together(o)
  <2>1. j # o /\ db' = [db EXCEPT ![j] = "asked"] /\ UNCHANGED <<page, auth>>
    BY <1>1, AccountAssumption DEF Publish, Step
  <2> QED
    BY <1>0, <2>1 DEF Together
<1>2. ASSUME NEW j \in Jobs, Raise(j)
      PROVE  Together(o)
  <2>1. /\ db[j] \in {"asked", "listAsked"} /\ UNCHANGED <<page, auth>>
        /\ db' = [db EXCEPT ![j] = "raised"] \/ db' = [db EXCEPT ![j] = "listRaised"]
    BY <1>2 DEF Raise, dbVars, Step
  <2> QED
    BY <1>0, <2>1 DEF Together, StagesMatch
<1>3. ASSUME NEW d \in Devices, CloseAlert(d) \/ Back(d) \/ Logout(d) \/ Server(d) \/ Start(d)
                                \/ ConnectionLost(d)
      PROVE  Together(o)
  BY <1>3 DEF CloseAlert, Back, Logout, SignOut, Server, Start, ConnectionLost, jobVars, Together
<1>4. ASSUME NEW d \in Devices, Completion(d)
      PROVE  Together(o)
  <2>1. /\ UNCHANGED <<page, auth>> /\ pending[d] # <<>>
        /\ \E next \in {"failed", "listAsked", "done"} :
              db' = [db EXCEPT ![Head(pending[d]).by] = next]
    BY <1>4 DEF Completion, Acknowledge, CatchUp, Step, Answered
  <2>2. Head(pending[d]) = pending[d][1] /\ 1 \in DOMAIN pending[d]
    BY <2>1
  <2>3. db[Head(pending[d]).by] \in {"node", "list"}
    BY <2>2 DEF QueueOwned
  <2> QED
    BY <1>0, <2>1, <2>3 DEF Together, StagesMatch
<1>5. ASSUME NEW d \in Devices, Kill(d)
      PROVE  Together(o)
  <2>1. /\ db'[o] = IF form[o].dev = d /\ db[o] \in
             {"asked", "raised", "free", "listAsked", "listRaised"} THEN "dead" ELSE db[o]
        /\ auth'[o] = IF form[o].dev = d /\ auth[o] \in {"sent", "granted"}
                      THEN "dead" ELSE auth[o]
        /\ page'[o] = "closed" => page[o] = "closed"
    BY <1>0, <1>5, JobTypes DEF Kill
  <2> QED
    BY <1>0, <2>1 DEF Together, StagesMatch
<1>6. ASSUME NEW d \in Devices, LoseQueue(d)
      PROVE  Together(o)
  <2>1. /\ db'[o] = IF form[o].dev = d /\ db[o] \in {"node", "list"} THEN "dead" ELSE db[o]
        /\ UNCHANGED <<page, auth>>
    BY <1>0, <1>6, JobTypes DEF LoseQueue
  <2> QED
    BY <1>0, <2>1 DEF Together, StagesMatch
<1> QED
  BY <1>1, <1>2, <1>3, <1>4, <1>5, <1>6

\* Writes, names and the parts of attempts stay as they should.
LEMMA NextWriteInv == WriteInv /\ [Next]_vars => WriteInv'
<1> SUFFICES ASSUME WriteInv, [Next]_vars
             PROVE  WriteInv'
  OBVIOUS
<1>1. TypeInv'
  BY NextTypeInv DEF WriteInv
<1>2. StagesMatch'
  <2>1. \A o \in Attempts : Together(o)
    <3> TAKE o \in Attempts
    <3>1. CASE UNCHANGED vars
      BY <3>1 DEF vars, jobVars, Together
    <3> QED
      BY <3>1, TapsTogether, CallbacksTogether, OthersTogether DEF Next
  <2> QED
    BY <2>1, FixedForms, StagesTogether DEF WriteInv
<1>3. QueueOwned' /\ NamesAgree'
  <2>1. ASSUME NEW a \in Attempts, Begin(a) \/ TapRefused(a) \/ AuthGrants(a) \/ AuthFails(a)
        PROVE  QueueOwned' /\ NamesAgree'
    BY <2>1, TapsAside, AsideKeeps DEF WriteInv
  <2>2. ASSUME NEW j \in Products, Publish(j)
        PROVE  QueueOwned' /\ NamesAgree'
    BY <2>2, PublishAside, AsideKeeps DEF WriteInv
  <2>3. ASSUME NEW j \in Jobs, Raise(j) \/ Callback(j)
        PROVE  QueueOwned' /\ NamesAgree'
    BY <2>3, RaiseWrites, CallbackWrites
  <2>4. ASSUME NEW d \in Devices, CloseAlert(d) \/ Back(d) \/ Logout(d) \/ Kill(d) \/ Start(d)
        PROVE  QueueOwned' /\ NamesAgree'
    BY <2>4, DevicesAside, AsideKeeps DEF WriteInv
  <2>5. ASSUME NEW d \in Devices, Server(d) \/ Completion(d) \/ LoseQueue(d) \/ ConnectionLost(d)
        PROVE  QueueOwned' /\ NamesAgree'
    BY <2>5, ServerWrites, AcknowledgeWrites
  <2>6. CASE UNCHANGED vars
    <3>1. Aside
      BY <2>6 DEF vars, dbVars, fixed, jobVars, Aside
    <3> QED
      BY <3>1, AsideKeeps DEF WriteInv
  <2> QED
    BY <2>1, <2>2, <2>3, <2>4, <2>5, <2>6 DEF Next
<1> QED
  BY <1>1, <1>2, <1>3 DEF WriteInv

\* At first only registered addresses have a node, which carries their name.
LEMMA InitWriteInv == Init => WriteInv
<1> SUFFICES ASSUME Init
             PROVE  WriteInv
  OBVIOUS
<1>1. TypeInv
  BY InitTypeInv
<1>2. StagesMatch /\ QueueOwned
  BY DEF Init, StagesMatch, QueueOwned, Jobs
<1>3. \A u \in Users : Names(tree[u], u)
  <2> TAKE u \in Users
  <2>1. PICK n \in 0..Cardinality(Emails) : \E old \in [1..n -> Emails] :
            tree = [p \in Paths |->
                IF \E i \in 1..n : safe[old[i]] = p
                THEN NewUser(old[CHOOSE i \in 1..n : safe[old[i]] = p])
                ELSE IF p = UsersNode /\ n > 0
                THEN [there |-> TRUE, list |-> [i \in 1..n |-> safe[old[i]]], name |-> NoEmail]
                ELSE NoEntry]
    BY DEF Init
  <2>2. PICK old \in [1..n -> Emails] :
            tree = [p \in Paths |->
                IF \E i \in 1..n : safe[old[i]] = p
                THEN NewUser(old[CHOOSE i \in 1..n : safe[old[i]] = p])
                ELSE IF p = UsersNode /\ n > 0
                THEN [there |-> TRUE, list |-> [i \in 1..n |-> safe[old[i]]], name |-> NoEmail]
                ELSE NoEntry]
    BY <2>1
  <2>3. u \in Paths /\ u # UsersNode
    BY AccountAssumption DEF Paths
  <2>4. CASE \E i \in 1..n : safe[old[i]] = u
    <3>1. /\ (CHOOSE i \in 1..n : safe[old[i]] = u) \in 1..n
          /\ safe[old[CHOOSE i \in 1..n : safe[old[i]] = u]] = u
      BY <2>4, Zenon
    <3>2. tree[u] = NewUser(old[CHOOSE i \in 1..n : safe[old[i]] = u])
      BY <2>2, <2>3, <2>4
    <3> QED
      BY <3>1, <3>2 DEF Names, NewUser
  <2>5. CASE ~ \E i \in 1..n : safe[old[i]] = u
    BY <2>2, <2>3, <2>5 DEF Names, NoEntry
  <2> QED
    BY <2>4, <2>5
<1>4. NamesAgree
  <2>1. pending = [d \in Devices |-> <<>>] /\ db = [j \in Jobs |-> "none"]
    BY DEF Init
  <2>2. \A d \in Devices : \A i \in DOMAIN pending[d] : FALSE
    BY <2>1
  <2> QED
    BY <1>3, <2>1, <2>2 DEF NamesAgree
<1> QED
  BY <1>1, <1>2, <1>4 DEF WriteInv

-----------------------------------------------------------------------------
(* Defaults and session of a device on which attempts take turns *)

On(d)       == {a \in Attempts : form[a].dev = d}
Granting(a) == auth[a] \in {"sent", "granted"}
Sending(a)  == form[a].way = "google" /\ auth[a] = "sent"
Asking(a)   == db[a] \in {"asked", "raised"}

\* The defaults are empty or the session's.
Settled(d) ==
    /\ defEmail[d] \in {NoEmail, session[d]}
    /\ defName[d] # NoEmail => session[d] # NoEmail /\ safe[defName[d]] = safe[session[d]]

\* An attempt for Auth is made under the welcome, a name is read after it; a
\* grant has set the session, Google's the defaults before.
InStep(a, d) ==
    /\ Granting(a) \/ (form[a].way = "register" /\ Asking(a)) => alive[d] /\ welcome[d]
    /\ auth[a] = "granted" => session[d] = form[a].email
    /\ form[a].way = "google" /\ Granting(a) => page[a] = "open"
    /\ Sending(a) => defEmail[d] = form[a].email /\ defName[d] = form[a].email
    /\ form[a].way = "login" /\ Asking(a) =>
          alive[d] /\ ~welcome[d] /\ auth[a] = "over" /\ session[d] = form[a].email

\* One attempt at a time; under the welcome the defaults are empty or Google's,
\* and they are settled but for Google's.
Steady(d) ==
    /\ \A a, b \in On(d) : Busy(a) /\ Busy(b) => a = b
    /\ \A a \in On(d) : InStep(a, d)
    /\ alive[d] /\ welcome[d] =>
          \/ defEmail[d] = NoEmail /\ defName[d] = NoEmail
          \/ \E a \in On(d) : form[a].way = "google" /\ Granting(a)
    /\ Settled(d) \/ \E a \in On(d) : Sending(a)

DefaultsInv == WriteInv /\ \A d \in Devices : d \notin unsettled => Steady(d)

\* A step leaves device d as it is, makes none of its attempts busy, and takes
\* none further in Auth but to its end, or a registration to Auth.
Calm(d) ==
    /\ UNCHANGED <<safe, form>>
    /\ session'[d] = session[d] /\ defEmail'[d] = defEmail[d] /\ defName'[d] = defName[d]
    /\ welcome'[d] = welcome[d] /\ alive'[d] = alive[d]
    /\ \A a \in Attempts : form[a].dev = d =>
          /\ Busy(a)' => Busy(a)
          /\ form[a].way = "google" => page'[a] = page[a]
          /\ form[a].way # "google" /\ Asking(a)' => Asking(a)
          /\ \/ auth'[a] = auth[a]
             \/ form[a].way # "google" /\ Granting(a) /\ auth'[a] \in {"over", "lost"}
             \/ form[a].way = "register" /\ Asking(a) /\ auth'[a] = "sent"

LEMMA CalmSteady ==
    ASSUME NEW d \in Devices, Steady(d), Calm(d)
    PROVE  Steady(d)'
<1>1. On(d)' = On(d)
  BY DEF On, Calm
<1>2. \A a, b \in On(d) : Busy(a)' /\ Busy(b)' => a = b
  BY DEF On, Calm, Steady
<1>3. ASSUME NEW a \in On(d)
      PROVE  InStep(a, d)'
  BY <1>3 DEF On, Calm, Steady, InStep, Granting, Asking, Sending
<1>4. Settled(d) => Settled(d)'
  BY DEF Calm, Settled
<1>5. \A a \in On(d) : form[a].way = "google" =>
          auth'[a] = auth[a] /\ form'[a] = form[a]
  BY DEF On, Calm
<1>6. (\E a \in On(d) : Sending(a)) => \E a \in On(d) : Sending(a)'
  BY <1>5 DEF Sending
<1>7. (\E a \in On(d) : form[a].way = "google" /\ Granting(a))
      => \E a \in On(d) : form'[a].way = "google" /\ Granting(a)'
  BY <1>5 DEF Granting
<1> QED
  BY <1>1, <1>2, <1>3, <1>4, <1>6, <1>7 DEF Steady, Calm

\* Alone at work on device d.
LEMMA Alone ==
    ASSUME NEW d \in Devices, Steady(d), NEW a \in On(d), Busy(a)
    PROVE  \A b \in On(d) : b # a => ~Busy(b) /\ ~Granting(b) /\ ~Asking(b) /\ ~Sending(b)
BY DEF Steady, Busy, Granting, Asking, Sending

\* An attempt begins where all is quiet.
LEMMA BeginSteady ==
    ASSUME DefaultsInv, NEW a \in Attempts, Begin(a), NEW d \in Devices, d = form[a].dev, d \notin unsettled'
    PROVE  Steady(d)'
<1>d. d = form[a].dev
  OBVIOUS
<1>e. PICK e \in Emails : e = form[a].email
  BY JobTypes DEF DefaultsInv, WriteInv
<1> USE DEF DefaultsInv, WriteInv, TypeInv, AccountTypeOK
<1>1. /\ Quiet(d) /\ d \notin unsettled
      /\ alive[d] /\ welcome[d] /\ page[a] = "closed"
      /\ UNCHANGED <<alive, session, welcome, safe, form>>
      /\ page' = [page EXCEPT ![a] = "open"]
      /\ IF form[a].way = "login" THEN db' = db ELSE db' = [db EXCEPT ![a] = "asked"]
      /\ auth' = [auth EXCEPT ![a] = IF form[a].way = "register" THEN "none" ELSE "sent"]
      /\ defEmail' = IF form[a].way = "google" THEN [defEmail EXCEPT ![d] = e] ELSE defEmail
      /\ defName' = IF form[a].way = "google" THEN [defName EXCEPT ![d] = e] ELSE defName
  BY <1>d, <1>e DEF Begin, Step, dbVars, fixed
<1>2. Steady(d)
  BY <1>1
<1>3. \A b \in On(d) : ~Busy(b) /\ ~Granting(b) /\ ~Asking(b) /\ ~Sending(b)
  BY <1>1 DEF Quiet, On, Busy, Granting, Asking, Sending
<1>4. On(d)' = On(d) /\ a \in On(d)
  BY <1>1, <1>d DEF On
<1>5. \A b \in Attempts : b # a => db'[b] = db[b] /\ auth'[b] = auth[b]
  BY <1>1 DEF Jobs
<1>6. \A b \in On(d) : b # a => ~Busy(b)' /\ ~Granting(b)' /\ ~Asking(b)' /\ ~Sending(b)'
  BY <1>3, <1>5 DEF Busy, Granting, Asking, Sending, On
<1>7. /\ db'[a] = IF form[a].way = "login" THEN db[a] ELSE "asked"
      /\ auth'[a] = IF form[a].way = "register" THEN "none" ELSE "sent"
      /\ page'[a] = "open"
      /\ form[a].way \in {"register", "login", "google"}
  BY <1>1 DEF Jobs, Ways
<1>8. InStep(a, d)'
  BY <1>1, <1>3, <1>4, <1>7, <1>e DEF InStep, Granting, Asking, Sending
<1>9. \A b \in On(d) : InStep(b, d)'
  <2>1. \A b \in On(d) : b # a => auth'[b] # "granted"
    BY <1>6 DEF Granting
  <2> QED
    BY <1>6, <1>8, <2>1 DEF InStep
<1>10. CASE form[a].way = "google"
  <2>1. Sending(a)' /\ Granting(a)' /\ form'[a].way = "google"
    BY <1>1, <1>7, <1>10 DEF Sending, Granting
  <2> QED
    BY <1>1, <1>4, <1>6, <1>9, <2>1, <1>d DEF Steady
<1>11. CASE form[a].way # "google"
  <2>1. Settled(d) /\ defEmail[d] = NoEmail /\ defName[d] = NoEmail
    BY <1>1, <1>2, <1>3 DEF Steady
  <2>2. Settled(d)' /\ defEmail'[d] = NoEmail /\ defName'[d] = NoEmail
    BY <1>1, <1>11, <2>1 DEF Settled
  <2> QED
    BY <1>1, <1>4, <1>6, <1>9, <2>2, <1>d DEF Steady
<1> QED
  BY <1>10, <1>11

\* The name that was read is stored.
LEMMA NameReadSteady ==
    ASSUME DefaultsInv, NEW a \in Attempts, NameRead(a), NEW d \in Devices, d = form[a].dev, d \notin unsettled'
    PROVE  Steady(d)'
<1>d. d = form[a].dev
  OBVIOUS
<1> USE DEF DefaultsInv, WriteInv, TypeInv, AccountTypeOK
<1>0. a \in Jobs
  BY DEF Jobs
<1>1. /\ form[a].way = "login" /\ db[a] = "raised"
      /\ db' = [db EXCEPT ![a] = "over"]
      /\ defName' = [defName EXCEPT ![d] = IF snap[a].there THEN snap[a].name ELSE defName[d]]
      /\ UNCHANGED <<alive, session, welcome, safe, form, page, auth, defEmail, unsettled>>
  BY <1>d DEF NameRead, Step, dbVars, fixed, histVars
<1>2. Steady(d) /\ a \in On(d) /\ On(d)' = On(d) /\ Busy(a)
  BY <1>1, <1>d DEF On, Busy
<1>3. alive[d] /\ ~welcome[d] /\ auth[a] = "over" /\ session[d] = form[a].email
  BY <1>1, <1>2 DEF Steady, InStep, Asking
<1>4. \A b \in On(d) : b # a => ~Busy(b) /\ ~Granting(b) /\ ~Asking(b) /\ ~Sending(b)
  BY <1>2, Alone
<1>5. \A b \in Attempts : b # a => db'[b] = db[b]
  BY <1>1 DEF Jobs
<1>6. \A b \in On(d) : ~Busy(b)' /\ ~Granting(b)' /\ ~Asking(b)' /\ ~Sending(b)'
  BY <1>0, <1>1, <1>3, <1>4, <1>5 DEF Busy, Granting, Asking, Sending, On
<1>7. \A b \in On(d) : InStep(b, d)'
  <2>1. \A b \in On(d) : auth'[b] # "granted"
    BY <1>6 DEF Granting
  <2> QED
    BY <1>6, <2>1 DEF InStep
<1>8. Settled(d)
  <2>1. ~Sending(a)
    BY <1>3 DEF Sending
  <2> QED
    BY <1>2, <1>4, <2>1 DEF Steady
<1>9. Settled(d)'
  <2>1. snap[a].name # NoEmail => safe[snap[a].name] = safe[session[d]]
    BY <1>0, <1>1, <1>3, JobTypes DEF NamesAgree, Names
  <2>2. session[d] # NoEmail
    BY <1>3, JobTypes, AccountAssumption
  <2> QED
    BY <1>1, <1>8, <2>1, <2>2 DEF Settled
<1> QED
  BY <1>1, <1>2, <1>3, <1>6, <1>7, <1>9, <1>d DEF Steady

\* Auth grants: the session changes, and the defaults are empty or Google's.
LEMMA GrantSteady ==
    ASSUME DefaultsInv, NEW a \in Attempts, AuthGrants(a), NEW d \in Devices, d = form[a].dev, d \notin unsettled'
    PROVE  Steady(d)'
<1>d. d = form[a].dev
  OBVIOUS
<1>e. PICK e \in Emails : e = form[a].email
  BY JobTypes DEF DefaultsInv, WriteInv
<1> USE DEF DefaultsInv, WriteInv, TypeInv, AccountTypeOK
<1>1. /\ auth[a] = "sent" /\ auth' = [auth EXCEPT ![a] = "granted"]
      /\ session' = [session EXCEPT ![d] = e]
      /\ UNCHANGED <<alive, welcome, safe, form, page, db, defEmail, defName, unsettled>>
  BY <1>d, <1>e DEF AuthGrants, dbVars, fixed, histVars
<1>2. Steady(d) /\ a \in On(d) /\ On(d)' = On(d) /\ Busy(a) /\ Granting(a)
  BY <1>1, <1>d DEF On, Busy, Granting
<1>3. \A b \in On(d) : b # a => ~Busy(b) /\ ~Granting(b) /\ ~Asking(b) /\ ~Sending(b)
  BY <1>2, Alone
<1>4. /\ \A b \in Attempts : b # a => auth'[b] = auth[b]
      /\ auth'[a] = "granted" /\ session'[d] = e
  BY <1>1
<1>5. \A b \in On(d) : b # a => ~Busy(b)' /\ ~Granting(b)' /\ ~Asking(b)' /\ ~Sending(b)'
  BY <1>1, <1>3, <1>4 DEF Busy, Granting, Asking, Sending, On
<1>6. InStep(a, d)'
  BY <1>1, <1>2, <1>4, <1>e DEF Steady, InStep, Granting, Asking, Sending
<1>7. \A b \in On(d) : InStep(b, d)'
  <2>1. \A b \in On(d) : b # a => auth'[b] # "granted"
    BY <1>5 DEF Granting
  <2> QED
    BY <1>5, <1>6, <2>1 DEF InStep
<1>8. alive[d] /\ welcome[d]
  BY <1>2 DEF Steady, InStep
<1>9. CASE form[a].way = "google"
  <2>1. defEmail[d] = e /\ defName[d] = e
    BY <1>1, <1>2, <1>9, <1>e DEF Steady, InStep, Sending
  <2>2. Settled(d)'
    BY <1>1, <1>4, <2>1, AccountAssumption DEF Settled
  <2>3. form'[a].way = "google" /\ Granting(a)'
    BY <1>1, <1>4, <1>9 DEF Granting
  <2> QED
    BY <1>1, <1>2, <1>5, <1>7, <2>2, <2>3, <1>d DEF Steady
<1>10. CASE form[a].way # "google"
  <2>1. defEmail[d] = NoEmail /\ defName[d] = NoEmail
    BY <1>2, <1>3, <1>8, <1>10 DEF Steady
  <2>2. Settled(d)'
    BY <1>1, <2>1 DEF Settled
  <2> QED
    BY <1>1, <1>2, <1>5, <1>7, <2>1, <2>2, <1>d DEF Steady
<1> QED
  BY <1>9, <1>10

\* The callback of a grant: the screens go, or the device is unsettled.
LEMMA GrantedSteady ==
    ASSUME DefaultsInv, NEW a \in Attempts,
           RegisterGranted(a) \/ LoginGranted(a) \/ GoogleGranted(a),
           NEW d \in Devices, d = form[a].dev, d \notin unsettled'
    PROVE  Steady(d)'
<1>d. d = form[a].dev
  OBVIOUS
<1>e. PICK e \in Emails : e = form[a].email
  BY JobTypes DEF DefaultsInv, WriteInv
<1> USE DEF DefaultsInv, WriteInv, TypeInv, AccountTypeOK
<1>0. a \in Jobs /\ form[a].way \in {"register", "login", "google"}
  BY JobTypes DEF Ways
<1>1. /\ auth[a] = "granted" /\ auth' = [auth EXCEPT ![a] = "over"] /\ Dismiss(a)
      /\ UNCHANGED <<alive, session, safe, form, defName>>
  BY DEF RegisterGranted, LoginGranted, GoogleGranted, dbVars, fixed
<1>2. /\ form[a].way = "register" => db' = [db EXCEPT ![a] = "node"] /\ UNCHANGED defEmail
      /\ form[a].way = "google" => UNCHANGED <<db, defEmail>>
      /\ form[a].way = "login" =>
            db' = [db EXCEPT ![a] = "asked"] /\ defEmail' = [defEmail EXCEPT ![d] = e]
  BY <1>d, <1>e DEF RegisterGranted, LoginGranted, GoogleGranted, Step, InsertUser
<1>3. d \notin unsettled
  BY <1>1, <1>d DEF Dismiss
<1>4. Steady(d) /\ a \in On(d) /\ On(d)' = On(d) /\ Busy(a) /\ Granting(a)
  BY <1>1, <1>3, <1>d DEF On, Busy, Granting
<1>5. \A b \in On(d) : b # a => ~Busy(b) /\ ~Granting(b) /\ ~Asking(b) /\ ~Sending(b)
  BY <1>4, Alone
<1>6. /\ \A b \in Attempts : b # a => auth'[b] = auth[b] /\ db'[b] = db[b]
      /\ auth'[a] = "over"
  BY <1>0, <1>1, <1>2 DEF Jobs
<1>7. alive[d] /\ welcome[d] /\ session[d] = e /\ ~Sending(a)
  BY <1>1, <1>4, <1>e DEF Steady, InStep, Sending
<1>8. Settled(d)
  BY <1>4, <1>5, <1>7 DEF Steady
<1>9. page[a] = "open"
  BY <1>1, <1>d DEF Dismiss
<1>10. ~alert[d]
  BY <1>1, <1>9, <1>d DEF Dismiss
<1>11. welcome' = [welcome EXCEPT ![d] = FALSE]
  BY <1>1, <1>9, <1>10, <1>d DEF Dismiss
<1>12. ~welcome'[d]
  BY <1>11
<1>13. \A b \in On(d) : b # a => ~Busy(b)' /\ ~Granting(b)' /\ ~Asking(b)' /\ ~Sending(b)'
  BY <1>5, <1>6, <1>1 DEF Busy, Granting, Asking, Sending, On
<1>14. ~Granting(a)' /\ ~Sending(a)' /\ auth'[a] # "granted"
  BY <1>6 DEF Granting, Sending
<1>15. form[a].way = "register" => db'[a] = "node"
  BY <1>0, <1>2
<1>16. InStep(a, d)'
  BY <1>1, <1>6, <1>7, <1>12, <1>14, <1>15, <1>e DEF InStep, Asking
<1>17. \A b \in On(d) : InStep(b, d)'
  <2>1. \A b \in On(d) : b # a => auth'[b] # "granted"
    BY <1>13 DEF Granting
  <2> QED
    BY <1>13, <1>16, <2>1 DEF InStep
<1>18. Settled(d)'
  <2>1. defEmail'[d] \in {defEmail[d], session[d]}
    BY <1>0, <1>2, <1>7, <1>9
  <2> QED
    BY <1>1, <1>8, <2>1 DEF Settled
<1> QED
  BY <1>1, <1>4, <1>d, <1>12, <1>13, <1>17, <1>18 DEF Steady

\* Logging out where all is quiet empties session and defaults.
LEMMA LogoutSteady ==
    ASSUME DefaultsInv, NEW d \in Devices, Logout(d), d \notin unsettled'
    PROVE  Steady(d)'
<1> USE DEF DefaultsInv, WriteInv, TypeInv, AccountTypeOK
<1>1. /\ Quiet(d)
      /\ session' = [session EXCEPT ![d] = NoEmail]
      /\ defEmail' = [defEmail EXCEPT ![d] = NoEmail]
      /\ defName' = [defName EXCEPT ![d] = NoEmail]
      /\ UNCHANGED <<alive, safe, form, page, db, auth>>
  BY DEF Logout, SignOut, dbVars, fixed, jobVars
<1>2. On(d)' = On(d)
  BY <1>1 DEF On
<1>3. \A b \in On(d) : ~Busy(b)' /\ ~Granting(b)' /\ ~Asking(b)' /\ ~Sending(b)'
  BY <1>1 DEF Quiet, On, Busy, Granting, Asking, Sending
<1>4. session'[d] = NoEmail /\ defEmail'[d] = NoEmail /\ defName'[d] = NoEmail
  BY <1>1
<1>5. \A b \in On(d) : InStep(b, d)'
  <2>1. \A b \in On(d) : auth'[b] # "granted"
    BY <1>3 DEF Granting
  <2> QED
    BY <1>3, <2>1 DEF InStep
<1>6. Settled(d)'
  BY <1>4 DEF Settled
<1> QED
  BY <1>2, <1>3, <1>4, <1>5, <1>6 DEF Steady

\* When a process ends, nothing is left of its attempts but writes.
LEMMA KillSteady ==
    ASSUME DefaultsInv, NEW d \in Devices, Kill(d), d \notin unsettled'
    PROVE  Steady(d)'
<1> USE DEF DefaultsInv, WriteInv, TypeInv, AccountTypeOK
<1>1. /\ d \notin unsettled
      /\ \A a \in On(d) : ~Sending(a)
      /\ alive' = [alive EXCEPT ![d] = FALSE]
      /\ db' = [j \in Jobs |-> IF DeviceOf(j) = d /\ db[j] \in
            {"asked", "raised", "free", "listAsked", "listRaised"} THEN "dead" ELSE db[j]]
      /\ auth' = [a \in Attempts |->
            IF form[a].dev = d /\ auth[a] \in {"sent", "granted"} THEN "dead" ELSE auth[a]]
      /\ UNCHANGED <<session, defEmail, defName, safe, form>>
  BY DEF Kill, Die, fixed, On, Sending
<1>2. Steady(d) /\ On(d)' = On(d)
  BY <1>1 DEF On
<1>3. ~alive'[d]
  BY <1>1
<1>4. \A a \in On(d) : a \in Attempts /\ a \in Jobs /\ form[a].dev = d /\ DeviceOf(a) = d
  BY AccountAssumption DEF On, Jobs, DeviceOf
<1>5. \A a \in On(d) : /\ db'[a] = IF db[a] \in
                             {"asked", "raised", "free", "listAsked", "listRaised"}
                             THEN "dead" ELSE db[a]
                       /\ auth'[a] = IF auth[a] \in {"sent", "granted"} THEN "dead" ELSE auth[a]
  BY <1>1, <1>4
<1>6. \A a \in On(d) : /\ Busy(a)' => Busy(a)
                       /\ ~Granting(a)' /\ ~Asking(a)' /\ auth'[a] # "granted"
                       /\ ~Sending(a)'
  BY <1>5 DEF Busy, Granting, Asking, Sending
<1>7. \A a \in On(d) : InStep(a, d)'
  BY <1>6 DEF InStep
<1>8. Settled(d)'
  BY <1>1, <1>2 DEF Steady, Settled
<1> QED
  BY <1>2, <1>3, <1>6, <1>7, <1>8 DEF Steady

\* The app starts with nothing asked of Auth; under the welcome, when there is
\* no session, settled defaults are empty.
LEMMA StartSteady ==
    ASSUME DefaultsInv, NEW d \in Devices, Start(d), d \notin unsettled'
    PROVE  Steady(d)'
<1> USE DEF DefaultsInv, WriteInv, TypeInv, AccountTypeOK
<1>1. /\ ~alive[d]
      /\ welcome' = [welcome EXCEPT ![d] = session[d] = NoEmail]
      /\ UNCHANGED <<session, defEmail, defName, safe, form, page, db, auth, unsettled>>
  BY DEF Start, Relaunch, CatchUp, fixed, jobVars, histVars
<1>2. Steady(d) /\ On(d)' = On(d)
  BY <1>1 DEF On
<1>3. \A a \in On(d) : /\ ~Granting(a) /\ auth[a] # "granted" /\ ~Sending(a)
                       /\ ~(form[a].way = "register" /\ Asking(a))
                       /\ ~(form[a].way = "login" /\ Asking(a))
  BY <1>1, <1>2 DEF Steady, InStep, Granting, Sending
<1>4. \A a \in On(d) : InStep(a, d)'
  BY <1>1, <1>3 DEF InStep, Granting, Sending, Asking
<1>5. Settled(d) /\ Settled(d)'
  BY <1>1, <1>2, <1>3 DEF Steady, Settled
<1>6. welcome'[d] => defEmail'[d] = NoEmail /\ defName'[d] = NoEmail
  BY <1>1, <1>5 DEF Settled
<1>7. \A a, b \in On(d) : Busy(a)' /\ Busy(b)' => a = b
  BY <1>1, <1>2 DEF Steady, Busy
<1> QED
  BY <1>2, <1>4, <1>5, <1>6, <1>7 DEF Steady

\* Nothing of device d is touched.
Still(d) ==
    /\ UNCHANGED <<safe, form>>
    /\ session'[d] = session[d] /\ defEmail'[d] = defEmail[d] /\ defName'[d] = defName[d]
    /\ welcome'[d] = welcome[d] /\ alive'[d] = alive[d]
    /\ \A o \in On(d) : /\ auth'[o] = auth[o]
                        /\ db'[o] = db[o]
                        /\ form[o].way = "google" => page'[o] = page[o]

LEMMA StillCalm ==
    ASSUME NEW d, Still(d)
    PROVE  Calm(d)
<1>1. \A o \in On(d) : (Busy(o)' => Busy(o)) /\ (Asking(o)' => Asking(o))
  BY DEF Still, Busy, Asking
<1> QED
  BY <1>1 DEF Still, Calm, On

LEMMA TapsCalm ==
    ASSUME DefaultsInv, NEW d \in Devices, NEW a \in Attempts, d \notin unsettled',
           \/ TapRefused(a) \/ AuthFails(a)
           \/ form[a].dev # d /\ (Begin(a) \/ AuthGrants(a))
    PROVE  d \notin unsettled /\ Calm(d)
<1> USE DEF DefaultsInv, WriteInv, TypeInv, AccountTypeOK
<1>0. a \in Jobs
  BY DEF Jobs
<1>1. CASE TapRefused(a)
  <2>1. d \notin unsettled /\ Still(d)
    BY <1>1 DEF TapRefused, Still, dbVars, fixed, jobVars, histVars
  <2> QED
    BY <2>1, StillCalm
<1>2. CASE form[a].dev # d /\ Begin(a)
  <2>d. PICK e \in Devices : e = form[a].dev
    BY JobTypes
  <2>1. /\ e # d
        /\ UNCHANGED <<alive, session, welcome, safe, form>>
        /\ page' = [page EXCEPT ![a] = "open"]
        /\ IF form[a].way = "login" THEN db' = db ELSE db' = [db EXCEPT ![a] = "asked"]
        /\ auth' = [auth EXCEPT ![a] = IF form[a].way = "register" THEN "none" ELSE "sent"]
        /\ defEmail' = IF form[a].way = "google"
                       THEN [defEmail EXCEPT ![e] = form[a].email] ELSE defEmail
        /\ defName' = IF form[a].way = "google"
                      THEN [defName EXCEPT ![e] = form[a].email] ELSE defName
        /\ d \notin unsettled
    BY <1>2, <2>d DEF Begin, Step, dbVars, fixed
  <2>2. a \notin On(d)
    BY <1>2 DEF On
  <2>3. \A o \in Attempts : o # a => db'[o] = db[o] /\ auth'[o] = auth[o] /\ page'[o] = page[o]
    BY <2>1 DEF Jobs
  <2>4. defEmail'[d] = defEmail[d] /\ defName'[d] = defName[d]
    BY <2>1
  <2>5. Still(d)
    BY <2>1, <2>2, <2>3, <2>4 DEF Still, On
  <2> QED
    BY <2>1, <2>5, StillCalm
<1>3. CASE form[a].dev # d /\ AuthGrants(a)
  <2>d. PICK e \in Devices : e = form[a].dev
    BY JobTypes
  <2>1. /\ e # d
        /\ UNCHANGED <<alive, welcome, defEmail, defName, safe, form, page, db, unsettled>>
        /\ auth' = [auth EXCEPT ![a] = "granted"]
        /\ session' = [session EXCEPT ![e] = form[a].email]
    BY <1>3, <2>d DEF AuthGrants, dbVars, fixed, histVars
  <2>2. a \notin On(d)
    BY <1>3 DEF On
  <2>3. \A o \in Attempts : o # a => auth'[o] = auth[o]
    BY <2>1
  <2>4. session'[d] = session[d]
    BY <2>1
  <2>5. Still(d)
    BY <2>1, <2>2, <2>3, <2>4 DEF Still, On
  <2> QED
    BY <2>1, <2>5, StillCalm
<1>4. CASE AuthFails(a)
  <2>1. /\ auth[a] = "sent"
        /\ auth' = [auth EXCEPT ![a] = "over"] \/ auth' = [auth EXCEPT ![a] = "lost"]
        /\ db' = [db EXCEPT ![a] = IF db[a] = "free" THEN "over" ELSE db[a]]
        /\ UNCHANGED <<alive, session, defEmail, defName, welcome, safe, form, page>>
        /\ d \notin unsettled
        /\ form[a].way = "google" => form[a].dev # d
    BY <1>4 DEF AuthFails, Step, dbVars, deviceVars, fixed
  <2>2. \A o \in Attempts : o # a => db'[o] = db[o] /\ auth'[o] = auth[o]
    BY <2>1 DEF Jobs
  <2>3. /\ auth'[a] \in {"over", "lost"}
        /\ db'[a] = IF db[a] = "free" THEN "over" ELSE db[a]
    BY <1>0, <2>1
  <2>4. Busy(a) /\ Granting(a) /\ (Asking(a)' => Asking(a))
    BY <2>1, <2>3 DEF Busy, Granting, Asking
  <2>5. \A o \in Attempts : (Busy(o)' => Busy(o)) /\ (Asking(o)' => Asking(o))
    BY <2>2, <2>4 DEF Busy, Asking
  <2>6. \A o \in Attempts : form[o].dev = d =>
            auth'[o] = auth[o] \/ (form[o].way # "google" /\ Granting(o)
                                   /\ auth'[o] \in {"over", "lost"})
    BY <2>1, <2>2, <2>3, <2>4
  <2>7. Calm(d)
    BY <2>1, <2>5, <2>6 DEF Calm
  <2> QED
    BY <2>1, <2>7
<1> QED
  BY <1>1, <1>2, <1>3, <1>4

\* What a callback of an attempt on another device leaves alone.
LEMMA DismissElsewhere ==
    ASSUME TypeInv, NEW d \in Devices, NEW a \in Attempts, form[a].dev # d, Dismiss(a)
    PROVE  /\ welcome'[d] = welcome[d]
           /\ \A o \in On(d) : page'[o] = page[o]
<1>d. PICK e \in Devices : e = form[a].dev
  BY JobTypes
<1> USE DEF TypeInv, AccountTypeOK
<1>1. \/ UNCHANGED <<welcome, page>>
      \/ /\ welcome' = [welcome EXCEPT ![e] = FALSE]
         /\ page' = [o \in Attempts |->
               IF form[o].dev = e /\ page[o] = "open" THEN "left" ELSE page[o]]
  BY <1>d DEF Dismiss
<1> QED
  BY <1>1, <1>d DEF On

LEMMA CallbacksCalm ==
    ASSUME DefaultsInv, NEW d \in Devices, NEW j \in Jobs, d \notin unsettled',
           \/ Raise(j) \/ AddProduct(j)
           \/ j \in Attempts /\ (Checked(j) \/ GoogleChecked(j) \/ UsersRead(j))
           \/ /\ j \in Attempts /\ form[j].dev # d
              /\ NameRead(j) \/ RegisterGranted(j) \/ LoginGranted(j) \/ GoogleGranted(j)
    PROVE  d \notin unsettled /\ Calm(d)
<1> USE DEF DefaultsInv, WriteInv, TypeInv, AccountTypeOK
<1>1. CASE Raise(j) \/ AddProduct(j)
           \/ (j \in Attempts /\ (GoogleChecked(j) \/ UsersRead(j)))
  <2>1. /\ \/ db[j] = "asked" /\ db' = [db EXCEPT ![j] = "raised"]
           \/ db[j] = "listAsked" /\ db' = [db EXCEPT ![j] = "listRaised"]
           \/ db[j] = "listRaised" /\ db' = [db EXCEPT ![j] = "list"]
           \/ db[j] = "raised" /\ db' = [db EXCEPT ![j] = "node"]
           \/ j \in Attempts /\ db[j] = "raised" /\ db' = [db EXCEPT ![j] = "over"]
           \/ j \notin Attempts /\ db' = [db EXCEPT ![j] = "notFound"]
        /\ UNCHANGED <<alive, session, defEmail, defName, welcome, safe, form, page, auth,
                       unsettled>>
    <3>1. CASE Raise(j)
      BY <3>1 DEF Raise, dbVars, Step, deviceVars, fixed, histVars
    <3>2. CASE AddProduct(j)
      BY <3>2, AccountAssumption DEF AddProduct, Step, deviceVars, fixed, histVars
    <3>3. CASE j \in Attempts /\ GoogleChecked(j)
      BY <3>3 DEF GoogleChecked, GoogleFound, InsertUser, Step, deviceVars, fixed, histVars
    <3>4. CASE j \in Attempts /\ UsersRead(j)
      BY <3>4 DEF UsersRead, WriteUsers, Step, deviceVars, fixed, histVars
    <3> QED
      BY <1>1, <3>1, <3>2, <3>3, <3>4
  <2>2. \A o \in Attempts : o # j => db'[o] = db[o]
    BY <2>1 DEF Jobs
  <2>3. j \in Attempts => /\ Busy(j)
                          /\ Asking(j)' => Asking(j)
    BY <2>1 DEF Busy, Asking, Jobs
  <2>4. \A o \in Attempts : (Busy(o)' => Busy(o)) /\ (Asking(o)' => Asking(o))
    BY <2>1, <2>2, <2>3 DEF Busy, Asking
  <2> QED
    BY <2>1, <2>4 DEF Calm
<1>2. CASE j \in Attempts /\ Checked(j)
  <2>1. /\ form[j].way = "register" /\ db[j] = "raised"
        /\ \/ db' = [db EXCEPT ![j] = "over"] /\ auth' = [auth EXCEPT ![j] = auth[j]]
           \/ db' = [db EXCEPT ![j] = "free"] /\ auth' = [auth EXCEPT ![j] = "sent"]
        /\ UNCHANGED <<alive, session, defEmail, defName, welcome, safe, form, page, unsettled>>
    BY <1>2 DEF Checked, Step, dbVars, fixed, histVars
  <2>2. \A o \in Attempts : o # j => db'[o] = db[o] /\ auth'[o] = auth[o]
    BY <1>2, <2>1 DEF Jobs
  <2>3. /\ db'[j] \in {"over", "free"}
        /\ auth'[j] = auth[j] \/ auth'[j] = "sent"
    BY <1>2, <2>1
  <2>4. Busy(j) /\ Asking(j) /\ ~Asking(j)'
    BY <2>1, <2>3 DEF Busy, Asking
  <2>5. \A o \in Attempts : (Busy(o)' => Busy(o)) /\ (Asking(o)' => Asking(o))
    BY <2>2, <2>4 DEF Busy, Asking
  <2>6. \A o \in Attempts : auth'[o] = auth[o]
            \/ (form[o].way = "register" /\ Asking(o) /\ auth'[o] = "sent")
    BY <2>1, <2>2, <2>3, <2>4
  <2> QED
    BY <2>1, <2>5, <2>6 DEF Calm
<1>3. CASE /\ j \in Attempts /\ form[j].dev # d
           /\ NameRead(j) \/ RegisterGranted(j) \/ LoginGranted(j) \/ GoogleGranted(j)
  <2>d. PICK e \in Devices : e = form[j].dev /\ e # d
    BY <1>3, JobTypes
  <2>1. /\ \/ db' = db
           \/ \E x \in {"over", "node", "asked"} : db' = [db EXCEPT ![j] = x]
        /\ auth' = auth \/ auth' = [auth EXCEPT ![j] = "over"]
        /\ UNCHANGED <<alive, session, safe, form>>
        /\ defEmail' = defEmail \/ defEmail' = [defEmail EXCEPT ![e] = form[j].email]
        /\ \/ UNCHANGED <<welcome, page, unsettled, defEmail>>
           \/ Dismiss(j) /\ UNCHANGED defName
    <3>1. CASE NameRead(j)
      BY <3>1, <2>d DEF NameRead, Step, dbVars, fixed, histVars
    <3>2. CASE RegisterGranted(j)
      BY <3>2, <2>d DEF RegisterGranted, InsertUser, Step, fixed
    <3>3. CASE LoginGranted(j)
      BY <3>3, <2>d DEF LoginGranted, Step, dbVars, fixed
    <3>4. CASE GoogleGranted(j)
      BY <3>4, <2>d DEF GoogleGranted, dbVars, fixed
    <3> QED
      BY <1>3, <3>1, <3>2, <3>3, <3>4
  <2>2. defName'[d] = defName[d]
    BY <1>3, <2>d DEF NameRead, RegisterGranted, LoginGranted, GoogleGranted
  <2>3. /\ welcome'[d] = welcome[d]
        /\ \A o \in On(d) : page'[o] = page[o]
    BY <1>3, <2>1, DismissElsewhere
  <2>4. d \notin unsettled
    BY <2>1 DEF Dismiss
  <2>5. \A o \in Attempts : o # j => db'[o] = db[o] /\ auth'[o] = auth[o]
    BY <1>3, <2>1 DEF Jobs
  <2>6. \A o \in On(d) : db'[o] = db[o] /\ auth'[o] = auth[o]
    BY <1>3, <2>5 DEF On
  <2>7. defEmail'[d] = defEmail[d]
    BY <2>d, <2>1
  <2>8. Still(d)
    BY <2>1, <2>2, <2>3, <2>6, <2>7 DEF Still
  <2> QED
    BY <2>4, <2>8, StillCalm
<1> QED
  BY <1>1, <1>2, <1>3

LEMMA OthersCalm ==
    ASSUME DefaultsInv, NEW d \in Devices, d \notin unsettled', NEW c \in Devices,
           \/ CloseAlert(c) \/ Back(c) \/ Server(c) \/ Completion(c) \/ LoseQueue(c)
           \/ ConnectionLost(c)
           \/ c # d /\ (Logout(c) \/ Kill(c) \/ Start(c))
    PROVE  d \notin unsettled /\ Calm(d)
<1> USE DEF DefaultsInv, WriteInv, TypeInv, AccountTypeOK
<1>1. CASE CloseAlert(c) \/ Back(c) \/ Server(c) \/ ConnectionLost(c)
  <2>1. CASE CloseAlert(c)
    BY <2>1, StillCalm DEF CloseAlert, Still, dbVars, fixed, jobVars, histVars
  <2>2. CASE Back(c)
    <3>1. /\ UNCHANGED <<alive, session, defEmail, defName, welcome, safe, form, db, auth,
                         unsettled>>
          /\ page' = [a \in Attempts |-> IF OnPage(a, c) THEN "left" ELSE page[a]]
      BY <2>2 DEF Back, dbVars, deviceVars, fixed, histVars
    <3>2. \A o \in On(d) : form[o].way = "google" => page'[o] = page[o]
      BY <3>1 DEF OnPage, On
    <3> QED
      BY <3>1, <3>2, StillCalm DEF Still
  <2>3. CASE Server(c)
    BY <2>3, StillCalm DEF Server, Perform, Still, deviceVars, fixed, jobVars, histVars
  <2>4. CASE ConnectionLost(c)
    BY <2>4, StillCalm DEF ConnectionLost, Reconnect, Still, deviceVars, fixed, jobVars, histVars
  <2> QED
    BY <1>1, <2>1, <2>2, <2>3, <2>4
<1>2. CASE Completion(c)
  <2>1. PICK k \in Jobs : k = pending[c][1].by /\ db[k] \in {"node", "list"}
    <3>1. pending[c] \in Seq(AccountWrites) /\ pending[c] # <<>>
      BY <1>2 DEF Completion, Acknowledge, CatchUp
    <3>2. 1 \in DOMAIN pending[c]
      BY <3>1
    <3> QED
      BY <3>2 DEF QueueOwned
  <2>2. /\ \E x \in {"failed", "listAsked", "done"} : db' = [db EXCEPT ![k] = x]
        /\ UNCHANGED <<alive, session, defEmail, defName, welcome, safe, form, page, auth,
                       unsettled>>
    <3>1. Head(pending[c]) = pending[c][1]
      BY <1>2 DEF Completion, Acknowledge, CatchUp
    <3>2. Step(k, Answered(Head(pending[c])))
      BY <1>2, <2>1, <3>1 DEF Completion
    <3>3. \E x \in {"failed", "listAsked", "done"} : db' = [db EXCEPT ![k] = x]
      BY <3>2 DEF Step, Answered
    <3> QED
      BY <1>2, <3>3 DEF Completion, Acknowledge, CatchUp, deviceVars, fixed
  <2>3. \A o \in Attempts : /\ o # k => db'[o] = db[o]
                            /\ o = k => db'[o] \in {"failed", "listAsked", "done"}
    BY <2>1, <2>2 DEF Jobs
  <2>4. \A o \in Attempts : (Busy(o)' => Busy(o)) /\ (Asking(o)' => Asking(o))
    BY <2>1, <2>2, <2>3 DEF Busy, Asking
  <2> QED
    BY <2>2, <2>4 DEF Calm
<1>3. CASE LoseQueue(c)
  <2>1. /\ db' = [j \in Jobs |-> IF DeviceOf(j) = c /\ db[j] \in {"node", "list"}
                                 THEN "dead" ELSE db[j]]
        /\ UNCHANGED <<alive, session, defEmail, defName, welcome, safe, form, page, auth,
                       unsettled>>
    BY <1>3 DEF LoseQueue, Drop, deviceVars, fixed, histVars
  <2>2. \A o \in Attempts : db'[o] \in {"dead", db[o]}
    BY <2>1 DEF Jobs
  <2>3. \A o \in Attempts : (Busy(o)' => Busy(o)) /\ (Asking(o)' => Asking(o))
    BY <2>1, <2>2 DEF Busy, Asking
  <2> QED
    BY <2>1, <2>3 DEF Calm
<1>4. CASE c # d /\ Logout(c)
  <2>1. /\ session' = [session EXCEPT ![c] = NoEmail]
        /\ welcome' = [welcome EXCEPT ![c] = TRUE]
        /\ defEmail' = [defEmail EXCEPT ![c] = NoEmail]
        /\ defName' = [defName EXCEPT ![c] = NoEmail]
        /\ UNCHANGED <<alive, safe, form, page, db, auth>>
        /\ d \notin unsettled
    BY <1>4 DEF Logout, SignOut, dbVars, fixed, jobVars
  <2>2. /\ session'[d] = session[d] /\ defEmail'[d] = defEmail[d]
        /\ defName'[d] = defName[d] /\ welcome'[d] = welcome[d]
    BY <1>4, <2>1
  <2> QED
    BY <2>1, <2>2, StillCalm DEF Still
<1>5. CASE c # d /\ Kill(c)
  <2>1. /\ d \notin unsettled
        /\ alive' = [alive EXCEPT ![c] = FALSE]
        /\ welcome' = [welcome EXCEPT ![c] = FALSE]
        /\ page' = [a \in Attempts |->
              IF form[a].dev = c /\ page[a] = "open" THEN "left" ELSE page[a]]
        /\ db' = [j \in Jobs |-> IF DeviceOf(j) = c /\ db[j] \in
              {"asked", "raised", "free", "listAsked", "listRaised"} THEN "dead" ELSE db[j]]
        /\ auth' = [a \in Attempts |->
              IF form[a].dev = c /\ auth[a] \in {"sent", "granted"} THEN "dead" ELSE auth[a]]
        /\ UNCHANGED <<session, defEmail, defName, safe, form>>
    BY <1>5 DEF Kill, Die, fixed
  <2>2. \A a \in On(d) : a \in Attempts /\ a \in Jobs /\ form[a].dev = d /\ DeviceOf(a) = d
    BY AccountAssumption DEF On, Jobs, DeviceOf
  <2>3. \A a \in On(d) : db'[a] = db[a] /\ auth'[a] = auth[a] /\ page'[a] = page[a]
    BY <1>5, <2>1, <2>2
  <2>4. alive'[d] = alive[d] /\ welcome'[d] = welcome[d]
    BY <1>5, <2>1
  <2> QED
    BY <2>1, <2>3, <2>4, StillCalm DEF Still
<1>6. CASE c # d /\ Start(c)
  <2>1. /\ alive' = [alive EXCEPT ![c] = TRUE]
        /\ welcome' = [welcome EXCEPT ![c] = session[c] = NoEmail]
        /\ UNCHANGED <<session, defEmail, defName, safe, form, page, db, auth, unsettled>>
    BY <1>6 DEF Start, Relaunch, CatchUp, fixed, jobVars, histVars
  <2>2. alive'[d] = alive[d] /\ welcome'[d] = welcome[d]
    BY <1>6, <2>1
  <2> QED
    BY <2>1, <2>2, StillCalm DEF Still
<1> QED
  BY <1>1, <1>2, <1>3, <1>4, <1>5, <1>6

LEMMA NextDefaultsInv == DefaultsInv /\ [Next]_vars => DefaultsInv'
<1> SUFFICES ASSUME DefaultsInv, [Next]_vars
             PROVE  DefaultsInv'
  OBVIOUS
<1>1. WriteInv'
  BY NextWriteInv DEF DefaultsInv
<1>2. ASSUME NEW d \in Devices, d \notin unsettled'
      PROVE  Steady(d)'
  <2>0. d \notin unsettled /\ Calm(d) => Steady(d)'
    BY CalmSteady DEF DefaultsInv
  <2>1. ASSUME NEW a \in Attempts, Begin(a) \/ TapRefused(a) \/ AuthGrants(a) \/ AuthFails(a)
        PROVE  Steady(d)'
    BY <1>2, <2>0, <2>1, TapsCalm, BeginSteady, GrantSteady
  <2>2. ASSUME NEW j \in Products, Publish(j)
        PROVE  Steady(d)'
    <3>1. \A o \in Attempts : o # j /\ o \in Jobs
      BY AccountAssumption DEF Jobs
    <3>2. db' = [db EXCEPT ![j] = "asked"]
      BY <2>2 DEF Publish, Step
    <3>3. \A o \in On(d) : db'[o] = db[o]
      BY <3>1, <3>2 DEF On, DefaultsInv, WriteInv, TypeInv, AccountTypeOK
    <3>4. d \notin unsettled /\ Still(d)
      BY <1>2, <2>2, <3>3 DEF Publish, Still, dbVars, deviceVars, fixed
    <3> QED
      BY <2>0, <3>4, StillCalm
  <2>3. ASSUME NEW j \in Jobs, Raise(j) \/ Callback(j)
        PROVE  Steady(d)'
    BY <1>2, <2>0, <2>3, CallbacksCalm, NameReadSteady, GrantedSteady DEF Callback
  <2>4. ASSUME NEW c \in Devices,
               \/ CloseAlert(c) \/ Back(c) \/ Logout(c) \/ Server(c) \/ Completion(c)
               \/ Kill(c) \/ LoseQueue(c) \/ Start(c) \/ ConnectionLost(c)
        PROVE  Steady(d)'
    BY <1>2, <2>0, <2>4, OthersCalm, LogoutSteady, KillSteady, StartSteady
  <2>5. CASE UNCHANGED vars
    <3>1. d \notin unsettled /\ Still(d)
      BY <1>2, <2>5 DEF vars, dbVars, deviceVars, fixed, jobVars, histVars, Still
    <3> QED
      BY <2>0, <3>1, StillCalm
  <2> QED
    BY <2>1, <2>2, <2>3, <2>4, <2>5 DEF Next
<1> QED
  BY <1>1, <1>2 DEF DefaultsInv

LEMMA InitDefaultsInv == Init => DefaultsInv
<1> SUFFICES ASSUME Init
             PROVE  DefaultsInv
  OBVIOUS
<1>1. WriteInv
  BY InitWriteInv
<1>2. ASSUME NEW d \in Devices
      PROVE  Steady(d)
  <2>1. /\ session[d] = NoEmail /\ defEmail[d] = NoEmail /\ defName[d] = NoEmail
        /\ \A a \in Attempts : db[a] = "none" /\ auth[a] = "none"
    BY DEF Init, Jobs
  <2>2. \A a \in On(d) : ~Busy(a) /\ ~Granting(a) /\ ~Asking(a) /\ ~Sending(a)
    BY <2>1 DEF On, Busy, Granting, Asking, Sending
  <2>3. \A a \in On(d) : InStep(a, d)
    BY <2>1, <2>2 DEF InStep, On
  <2> QED
    BY <2>1, <2>2, <2>3 DEF Steady, Settled
<1> QED
  BY <1>1, <1>2 DEF DefaultsInv

\* The defaults (favourites, My Products, the profile) are empty or agree with
\* the session (publishing) whenever a device is at rest, for any accounts,
\* attempts and devices: what validateAuth, the three ways in and the logout
\* rely on, but for the overlaps `unsettled` records.
THEOREM DefaultsCorrect == Spec => []DefaultsAreTheSessions
<1>1. DefaultsInv => DefaultsAreTheSessions
  <2> SUFFICES ASSUME DefaultsInv, NEW d \in Devices, d \notin unsettled, Quiet(d)
               PROVE  Settled(d)
    BY DEF DefaultsAreTheSessions, Settled
  <2>1. Steady(d)
    BY DEF DefaultsInv
  <2>2. \A a \in On(d) : ~Sending(a)
    BY DEF Quiet, On, Busy, Sending
  <2> QED
    BY <2>1, <2>2 DEF Steady
<1> QED
  BY <1>1, InitDefaultsInv, NextDefaultsInv, PTL DEF Spec

-----------------------------------------------------------------------------
(* User nodes, products and the list of users: the invariants *)

\* Which stages a job can be in, by what it is.
KindsMatch ==
    /\ \A j \in Products :
          /\ db[j] \in {"none", "asked", "raised", "node", "done", "failed", "notFound", "dead"}
          /\ db[j] # "none" => owner[j] \in Emails
    /\ \A a \in Attempts :
          /\ form[a].way = "login" => db[a] \in {"none", "asked", "raised", "over", "dead"}
          /\ form[a].way # "register" => db[a] # "free"
          /\ db[a] # "notFound"

\* A queued write is of its job's node, or adds this to the list of users; it says
\* that its node is there, and once performed it is.
Kept(w) ==
    /\ w.val.there
    /\ w.node = UsersNode =>
          /\ w.by \in Attempts /\ db[w.by] = "list"
          /\ NodeOf(w.by) \in Elements(w.val.list)
    /\ w.node # UsersNode => w.node = NodeOf(w.by) /\ db[w.by] = "node"
    /\ w.fate = "ok" => tree[w.node].there
    /\ w.fate = "denied" => w.by \in denied

\* Writes are performed in order, and the write of every job that waits is queued.
PutsKept ==
    /\ \A d \in Devices : \A i \in DOMAIN pending[d] : Kept(pending[d][i])
    /\ \A d \in Devices : \A i, k \in DOMAIN pending[d] :
          i < k /\ pending[d][i].fate = "sent" => pending[d][k].fate = "sent"
    /\ \A j \in Jobs : db[j] \in {"node", "list"} =>
          \E i \in DOMAIN pending[DeviceOf(j)] : pending[DeviceOf(j)][i].by = j

\* Unless crossed, jobs are on a user node together only where the queue of their
\* device orders them.
NodeTurns == \A j, k \in Jobs :
    /\ j # k /\ OnNode(j) /\ OnNode(k)
    /\ NodeOf(j) = NodeOf(k) /\ NodeOf(j) \notin crossed
    => DeviceOf(j) = DeviceOf(k) /\ (db[j] = "node" \/ db[k] = "node")

NodeInv == WriteInv /\ KindsMatch /\ PutsKept /\ NodeTurns

-----------------------------------------------------------------------------
(* The steps, as far as the database goes *)

\* What no step takes back.
Onward ==
    /\ UNCHANGED <<safe, form, from>>
    /\ crossed \subseteq crossed' /\ denied \subseteq denied'
    /\ listShared => listShared'
    /\ \A j \in Products : db[j] # "none" => owner'[j] = owner[j]

\* Job j rests, or goes on without a read answered or a write made.
Rests(j) ==
    /\ db'[j] \in {"raised", "listRaised"} => db'[j] = db[j] /\ snap'[j] = snap[j]
    /\ \/ db'[j] = db[j]
       \/ /\ db[j] = "none" /\ db'[j] = "asked"
          /\ j \in Products => owner'[j] \in Emails
          /\ OnNode(j)' => NodeOf(j)' \in crossed' \/ ~InTheWay(j, NodeOf(j)', DeviceOf(j))
       \/ db[j] = "raised" /\ db'[j] = "over" /\ j \in Attempts
       \/ db[j] = "raised" /\ db'[j] = "free" /\ j \in Attempts /\ form[j].way = "register"
             /\ ~snap[j].there
       \/ db[j] = "free" /\ db'[j] = "over"
       \/ db[j] = "raised" /\ db'[j] = "notFound" /\ j \in Products /\ ~snap[j].there
       \/ db[j] \in {"asked", "raised", "free", "listAsked", "listRaised"} /\ db'[j] = "dead"

\* At most one job starts.
Rest ==
    /\ UNCHANGED <<tree, pending, denied, listShared>>
    /\ \A j \in Jobs : Rests(j)
    /\ \A j, k \in Jobs : db[j] = "none" /\ db[k] = "none" /\ db'[j] # "none" /\ db'[k] # "none" => j = k

\* A read of node n on device d finds v.
Sees(d, n, v) ==
    \/ \E i \in PutsTo(d, n) : v = pending[d][i].val /\ \A k \in PutsTo(d, n) : k <= i
    \/ PutsTo(d, n) = {} /\ v = tree[n]

Reads(j, v) ==
    /\ UNCHANGED <<tree, pending, crossed, denied, listShared, owner>>
    /\ snap' = [snap EXCEPT ![j] = v] /\ v \in Entry
    /\ \/ /\ db[j] = "asked" /\ db' = [db EXCEPT ![j] = "raised"]
          /\ Sees(DeviceOf(j), NodeOf(j), v)
       \/ /\ db[j] = "listAsked" /\ db' = [db EXCEPT ![j] = "listRaised"]
          /\ Sees(DeviceOf(j), UsersNode, v)

\* An attempt that has found its address free and is to create the node.
Vacant(a) == /\ a \in Attempts /\ form[a].way # "login"
             /\ db[a] = "free" \/ (db[a] = "raised" /\ ~snap[a].there)

\* Write w enters the queue of its job's device.
Entered(d, w) ==
    /\ Len(pending[d]) \in Nat /\ DOMAIN pending[d] = 1..Len(pending[d])
    /\ DOMAIN pending'[d] = 1..(Len(pending[d]) + 1)
    /\ \A i \in DOMAIN pending[d] : pending'[d][i] = pending[d][i]
    /\ pending'[d][Len(pending[d]) + 1] = w
    /\ \A e \in Devices : e # d => pending'[e] = pending[e]

Writes(j, w, next) ==
    /\ UNCHANGED <<tree, crossed, listShared, owner>>
    /\ denied' \in {denied, denied \cup {j}}
    /\ db' = [db EXCEPT ![j] = next]
    /\ \A k \in Jobs : k # j => snap'[k] = snap[k]
    /\ Entered(DeviceOf(j), w)
    /\ w.by = j /\ w.fate = "sent" /\ w.val \in Entry /\ w.val.there
    /\ \/ next = "node" /\ w.node = NodeOf(j) /\ Vacant(j) /\ w.val.list = <<>>
       \/ /\ next = "node" /\ w.node = NodeOf(j) /\ j \in Products
          /\ db[j] = "raised" /\ snap[j].there /\ w.val.list = Append(snap[j].list, j)
       \/ /\ next = "list" /\ w.node = UsersNode /\ j \in Attempts
          /\ db[j] = "listRaised" /\ w.val.list = Append(snap[j].list, NodeOf(j))

\* Write i of device d is performed, or denied.
Serves(d, i) ==
    /\ UNCHANGED <<db, snap, crossed, denied, listShared, owner>>
    /\ pending[d][i].fate = "sent"
    /\ \A k \in DOMAIN pending[d] : k < i => pending[d][k].fate # "sent"
    /\ DOMAIN pending'[d] = DOMAIN pending[d]
    /\ pending'[d][i] = [pending[d][i] EXCEPT !.fate =
                            IF pending[d][i].by \in denied THEN "denied" ELSE "ok"]
    /\ \A k \in DOMAIN pending[d] : k # i => pending'[d][k] = pending[d][k]
    /\ \A e \in Devices : e # d => pending'[e] = pending[e]
    /\ tree' = IF pending[d][i].by \in denied THEN tree
               ELSE [tree EXCEPT ![pending[d][i].node] = pending[d][i].val]

\* The writes of device d after some of them are to be sent again.
Resends(d) ==
    /\ UNCHANGED <<tree, db, snap, crossed, denied, listShared, owner>>
    /\ DOMAIN pending'[d] = DOMAIN pending[d]
    /\ \E kept \in Nat : \A i \in DOMAIN pending[d] : pending'[d][i] =
           IF i <= kept THEN pending[d][i] ELSE [pending[d][i] EXCEPT !.fate = "sent"]
    /\ \A e \in Devices : e # d => pending'[e] = pending[e]

\* The oldest write w leaves device d's queue, and its job goes on.
Leaves(d, w) ==
    /\ UNCHANGED <<tree, snap, crossed, denied, owner>>
    /\ 1 \in DOMAIN pending[d] /\ w = pending[d][1] /\ w.fate # "sent"
    /\ \A j \in Jobs : DeviceOf(j) = d => db[j] \notin {"asked", "listAsked"}
    /\ \A i \in DOMAIN pending'[d] :
          i \in Nat \ {0} /\ i + 1 \in DOMAIN pending[d] /\ pending'[d][i] = pending[d][i + 1]
    /\ \A i \in DOMAIN pending[d] : i # 1 =>
          i \in Nat /\ i - 1 \in DOMAIN pending'[d] /\ pending'[d][i - 1] = pending[d][i]
    /\ \A e \in Devices : e # d => pending'[e] = pending[e]
    /\ db' = [db EXCEPT ![w.by] = IF w.fate = "denied" THEN "failed"
                                  ELSE IF w.by \in Attempts /\ w.node # UsersNode
                                  THEN "listAsked" ELSE "done"]
    /\ listShared' = (listShared \/ (/\ db'[w.by] = "listAsked"
                                     /\ \E a \in Attempts : db[a] \in
                                           {"listAsked", "listRaised", "list"}))

\* A dead device's queue is dropped, with the jobs that wait for it.
Drops(d) ==
    /\ UNCHANGED <<tree, snap, crossed, denied, listShared, owner>>
    /\ pending'[d] = <<>>
    /\ \A e \in Devices : e # d => pending'[e] = pending[e]
    /\ db' = [j \in Jobs |-> IF DeviceOf(j) = d /\ db[j] \in {"node", "list"} THEN "dead" ELSE db[j]]

-----------------------------------------------------------------------------
(* Every step of the module is one of these *)

LEMMA NextOnward ==
    ASSUME WriteInv, [Next]_vars
    PROVE  Onward
<1>0. UNCHANGED <<safe, form, from>>
  BY FixedForms
<1> USE DEF Onward, WriteInv, TypeInv, AccountTypeOK, bounds, histVars, jobVars
<1>1. ASSUME NEW a \in Attempts, Begin(a) \/ TapRefused(a) \/ AuthGrants(a) \/ AuthFails(a)
      PROVE  Onward
  BY <1>0, <1>1 DEF Begin, TapRefused, AuthGrants, AuthFails
<1>2. ASSUME NEW j \in Products, Publish(j)
      PROVE  Onward
  BY <1>0, <1>2 DEF Publish
<1>3. ASSUME NEW j \in Jobs, Raise(j)
      PROVE  Onward
  BY <1>0, <1>3 DEF Raise, dbVars
<1>4. ASSUME NEW j \in Jobs, Callback(j)
      PROVE  Onward
  <2>1. CASE Checked(j) \/ NameRead(j) \/ LoginGranted(j) \/ GoogleGranted(j)
    BY <1>0, <2>1 DEF Checked, NameRead, LoginGranted, GoogleGranted
  <2>2. CASE GoogleChecked(j) \/ RegisterGranted(j)
    BY <1>0, <2>2 DEF GoogleChecked, GoogleFound, RegisterGranted, InsertUser,
                      Enqueue
  <2>3. CASE UsersRead(j) \/ AddProduct(j)
    BY <1>0, <2>3 DEF UsersRead, WriteUsers, AddProduct, Enqueue
  <2> QED
    BY <1>4, <2>1, <2>2, <2>3 DEF Callback
<1>5. ASSUME NEW d \in Devices, CloseAlert(d) \/ Back(d) \/ Logout(d) \/ Server(d) \/ Completion(d)
      PROVE  Onward
  BY <1>0, <1>5 DEF CloseAlert, Back, Logout, SignOut, Server, Completion
<1>6. ASSUME NEW d \in Devices, Kill(d) \/ LoseQueue(d) \/ Start(d) \/ ConnectionLost(d)
      PROVE  Onward
  BY <1>0, <1>6 DEF Kill, LoseQueue, Start, ConnectionLost
<1>7. CASE UNCHANGED vars
  BY <1>7 DEF vars, fixed
<1> QED
  BY <1>1, <1>2, <1>3, <1>4, <1>5, <1>6, <1>7 DEF Next

\* A step of job j alone, or of none, that neither reads nor writes.
LEMMA OneRests ==
    ASSUME UNCHANGED <<tree, pending, denied, listShared>>,
           NEW j \in Jobs, Rests(j),
           \A k \in Jobs : k # j => db'[k] = db[k] /\ snap'[k] = snap[k]
    PROVE  Rest
BY DEF Rest, Rests

LEMMA NoneMoves ==
    ASSUME UNCHANGED <<tree, pending, denied, listShared, db, snap>>
    PROVE  Rest
BY DEF Rest, Rests

LEMMA TapsRest ==
    ASSUME WriteInv, KindsMatch, NEW a \in Attempts,
           Begin(a) \/ TapRefused(a) \/ AuthGrants(a) \/ AuthFails(a)
    PROVE  Rest
<1>0. a \in Jobs /\ a \notin Products /\ db \in [Jobs -> DbStages] /\ snap \in [Jobs -> Entry]
      /\ DeviceOf(a) = form[a].dev
  BY JobTypes, AccountAssumption DEF WriteInv, TypeInv, AccountTypeOK
<1>1. CASE Begin(a)
  <2>1. /\ UNCHANGED <<tree, pending, denied, listShared, snap, safe, form>>
        /\ IF form[a].way = "login" THEN db' = db ELSE db' = [db EXCEPT ![a] = "asked"]
        /\ crossed' = IF InTheWay(a, NodeOf(a), form[a].dev) THEN crossed \cup {NodeOf(a)}
                      ELSE crossed
        /\ page[a] = "closed"
    BY <1>1 DEF Begin, Step, dbVars, bounds, fixed
  <2>2. db[a] = "none"
    BY <2>1 DEF WriteInv, StagesMatch
  <2>3. CASE form[a].way = "login"
    BY <2>1, <2>3, NoneMoves
  <2>4. CASE form[a].way # "login"
    <3>1. NodeOf(a)' = NodeOf(a)
      BY <1>0, <2>1 DEF NodeOf
    <3>2. NodeOf(a)' \in crossed' \/ ~InTheWay(a, NodeOf(a)', DeviceOf(a))
      <4>1. CASE InTheWay(a, NodeOf(a), form[a].dev)
        BY <2>1, <3>1, <4>1
      <4>2. CASE ~InTheWay(a, NodeOf(a), form[a].dev)
        <5> DEFINE u == NodeOf(a)'  d == form[a].dev
        <5>1. u = NodeOf(a) /\ d = DeviceOf(a)
          BY <1>0, <3>1
        <5> HIDE DEF u, d
        <5>2. ~InTheWay(a, u, DeviceOf(a))
          BY <4>2, <5>1 DEF d
        <5> QED
          BY <5>2 DEF u
      <4> QED
        BY <4>1, <4>2
    <3>3. Rests(a)
      BY <1>0, <2>1, <2>2, <2>4, <3>2 DEF Rests
    <3> QED
      BY <1>0, <2>1, <2>4, <3>3, OneRests
  <2> QED
    BY <2>3, <2>4
<1>2. CASE TapRefused(a) \/ AuthGrants(a)
  BY <1>2, NoneMoves DEF TapRefused, AuthGrants, dbVars, jobVars, bounds, histVars
<1>3. CASE AuthFails(a)
  <2>1. /\ UNCHANGED <<tree, pending, denied, listShared, snap>>
        /\ db' = [db EXCEPT ![a] = IF db[a] = "free" THEN "over" ELSE db[a]]
    BY <1>3 DEF AuthFails, Step, dbVars
  <2>2. Rests(a)
    BY <1>0, <2>1 DEF Rests
  <2> QED
    BY <1>0, <2>1, <2>2, OneRests
<1> QED
  BY <1>1, <1>2, <1>3

LEMMA PublishRests ==
    ASSUME WriteInv, KindsMatch, NEW j \in Products, Publish(j)
    PROVE  Rest
<1>0. j \in Jobs /\ j \notin Attempts /\ db \in [Jobs -> DbStages] /\ DeviceOf(j) = from[j]
      /\ owner \in [Products -> Emails \cup {NoEmail}] /\ session[from[j]] \in Emails \cup {NoEmail}
  BY JobTypes, AccountAssumption DEF WriteInv, TypeInv, AccountTypeOK, Jobs
<1>1. PICK e : e = session[from[j]]
  OBVIOUS
<1>2. /\ UNCHANGED <<tree, pending, denied, listShared, snap, safe>>
      /\ e # NoEmail
      /\ owner' = [owner EXCEPT ![j] = e]
      /\ db[j] = "none" /\ db' = [db EXCEPT ![j] = "asked"]
      /\ crossed' = IF InTheWay(j, safe[e], from[j]) THEN crossed \cup {safe[e]} ELSE crossed
  BY <1>1 DEF Publish, Step, dbVars, bounds, fixed
<1>3. NodeOf(j)' = safe[e]
  BY <1>0, <1>2 DEF NodeOf
<1>4. NodeOf(j)' \in crossed' \/ ~InTheWay(j, NodeOf(j)', DeviceOf(j))
  <2> DEFINE u == NodeOf(j)'  d == from[j]
  <2>1. u = safe[e] /\ d = DeviceOf(j)
    BY <1>0, <1>3
  <2> HIDE DEF u
  <2>2. u \in crossed' \/ ~InTheWay(j, u, d)
    BY <1>2, <2>1
  <2> HIDE DEF d
  <2>3. u \in crossed' \/ ~InTheWay(j, u, DeviceOf(j))
    BY <2>1, <2>2
  <2> QED
    BY <2>3 DEF u
<1>5. Rests(j)
  BY <1>0, <1>1, <1>2, <1>4 DEF Rests
<1> QED
  BY <1>0, <1>2, <1>5, OneRests

LEMMA CallbacksRest ==
    ASSUME WriteInv, KindsMatch, NEW a \in Attempts,
           \/ Checked(a) \/ NameRead(a) \/ LoginGranted(a) \/ GoogleGranted(a)
           \/ GoogleChecked(a) /\ snap[a].there
    PROVE  Rest
<1>0. a \in Jobs /\ a \notin Products /\ db \in [Jobs -> DbStages] /\ snap \in [Jobs -> Entry]
  BY JobTypes, AccountAssumption DEF WriteInv, TypeInv, AccountTypeOK
<1>1. CASE Checked(a)
  <2>1. /\ UNCHANGED <<tree, pending, denied, listShared>> /\ snap' = [snap EXCEPT ![a] = NoEntry]
        /\ db[a] = "raised" /\ form[a].way = "register"
        /\ \/ db' = [db EXCEPT ![a] = "over"]
           \/ db' = [db EXCEPT ![a] = "free"] /\ ~snap[a].there
    BY <1>1 DEF Checked, Step, dbVars, bounds, histVars
  <2>2. Rests(a)
    BY <1>0, <2>1 DEF Rests
  <2> QED
    BY <1>0, <2>1, <2>2, OneRests
<1>2. CASE NameRead(a) \/ (GoogleChecked(a) /\ snap[a].there)
  <2>1. /\ UNCHANGED <<tree, pending, denied, listShared>> /\ snap' = [snap EXCEPT ![a] = NoEntry]
        /\ db[a] = "raised" /\ db' = [db EXCEPT ![a] = "over"]
    BY <1>2 DEF NameRead, GoogleChecked, GoogleFound, Step, dbVars, bounds, histVars
  <2>2. Rests(a)
    BY <1>0, <2>1 DEF Rests
  <2> QED
    BY <1>0, <2>1, <2>2, OneRests
<1>3. CASE LoginGranted(a)
  <2>1. /\ UNCHANGED <<tree, pending, denied, listShared, snap, form>>
        /\ form[a].way = "login" /\ auth[a] = "granted"
        /\ db' = db \/ db' = [db EXCEPT ![a] = "asked"]
    BY <1>3 DEF LoginGranted, Step, dbVars, bounds, fixed
  <2>2. db[a] = "none"
    BY <2>1 DEF WriteInv, StagesMatch
  <2>3. CASE db' = db
    BY <2>1, <2>3, NoneMoves
  <2>4. CASE db' = [db EXCEPT ![a] = "asked"]
    <3>1. OnNode(a)' => FALSE
      BY <2>1 DEF OnNode
    <3>2. Rests(a)
      BY <1>0, <2>1, <2>2, <2>4, <3>1 DEF Rests
    <3> QED
      BY <1>0, <2>1, <2>4, <3>2, OneRests
  <2> QED
    BY <2>1, <2>3, <2>4
<1>4. CASE GoogleGranted(a)
  BY <1>4, NoneMoves DEF GoogleGranted, dbVars, bounds
<1> QED
  BY <1>1, <1>2, <1>3, <1>4

LEMMA NotFoundRests ==
    ASSUME WriteInv, NEW j \in Products, AddProduct(j), ~snap[j].there
    PROVE  Rest
<1>0. j \in Jobs /\ j \notin Attempts /\ db \in [Jobs -> DbStages] /\ snap \in [Jobs -> Entry]
  BY JobTypes, AccountAssumption DEF WriteInv, TypeInv, AccountTypeOK
<1>1. /\ UNCHANGED <<tree, pending, denied, listShared>> /\ snap' = [snap EXCEPT ![j] = NoEntry]
      /\ db[j] = "raised" /\ db' = [db EXCEPT ![j] = "notFound"]
  BY DEF AddProduct, Step, histVars
<1>2. Rests(j)
  BY <1>0, <1>1 DEF Rests
<1> QED
  BY <1>0, <1>1, <1>2, OneRests

LEMMA DevicesRest ==
    ASSUME WriteInv, NEW d \in Devices,
           CloseAlert(d) \/ Back(d) \/ Logout(d) \/ Kill(d) \/ Start(d)
    PROVE  Rest
<1>1. CASE CloseAlert(d) \/ Back(d) \/ Logout(d) \/ Start(d)
  BY <1>1, NoneMoves
  DEF CloseAlert, Back, Logout, SignOut, Start, Relaunch, CatchUp, dbVars, jobVars, bounds, histVars
<1>2. CASE Kill(d)
  <2>1. /\ UNCHANGED <<tree, pending, denied, listShared>>
        /\ \A j \in Jobs : db'[j] = IF DeviceOf(j) = d /\ db[j] \in
              {"asked", "raised", "free", "listAsked", "listRaised"} THEN "dead" ELSE db[j]
        /\ \A j \in Jobs : snap'[j] = IF DeviceOf(j) = d THEN NoEntry ELSE snap[j]
    BY <1>2 DEF Kill
  <2> QED
    BY <2>1 DEF Rest, Rests
<1> QED
  BY <1>1, <1>2

\* The newest write of a queue to n, and what a read of n finds.
LEMMA ViewSees ==
    ASSUME NEW d \in Devices, NEW n \in Users \cup {UsersNode}, n # ProductsNode,
           NEW v \in View(d, n)
    PROVE  Sees(d, n, v)
BY DEF View, Sees

LEMMA RaiseReads ==
    ASSUME WriteInv, NEW j \in Jobs, Raise(j)
    PROVE  \E v : Reads(j, v)
<1>1. /\ db[j] \in {"asked", "listAsked"} /\ DeviceOf(j) \in Devices
      /\ db[j] = "asked" => NodeOf(j) \in Users
  BY JobTypes DEF Raise, dbVars, WriteInv
<1> DEFINE n == IF db[j] = "asked" THEN NodeOf(j) ELSE UsersNode
<1>2. PICK v \in View(DeviceOf(j), n) : snap' = [snap EXCEPT ![j] = v]
  BY DEF Raise, dbVars
<1>3. n \in Users \cup {UsersNode} /\ n # ProductsNode
  BY <1>1, NamesAssumption DEF UsersNode, ProductsNode
<1>4. v \in Entry
  BY <1>1, <1>2, <1>3, ViewType DEF WriteInv
<1>5. Sees(DeviceOf(j), n, v)
  BY <1>1, <1>2, <1>3, ViewSees
<1>6. /\ UNCHANGED <<tree, pending, crossed, denied, listShared, owner>>
      /\ db' = [db EXCEPT ![j] = IF db[j] = "asked" THEN "raised" ELSE "listRaised"]
  BY DEF Raise, dbVars, Step, bounds, histVars
<1>7. CASE db[j] = "asked"
  <2>1. Sees(DeviceOf(j), NodeOf(j), v)
    BY <1>5, <1>7
  <2> QED
    BY <1>2, <1>4, <1>6, <1>7, <2>1 DEF Reads
<1>8. CASE db[j] = "listAsked"
  <2>1. Sees(DeviceOf(j), UsersNode, v)
    BY <1>5, <1>8
  <2> QED
    BY <1>2, <1>4, <1>6, <1>8, <2>1 DEF Reads
<1> QED
  BY <1>1, <1>7, <1>8

\* A write enters the queue.
LEMMA EnqueueEnters ==
    ASSUME WriteInv, NEW j \in Jobs, NEW n, NEW v, Enqueue(j, n, v)
    PROVE  /\ denied' \in {denied, denied \cup {j}}
           /\ Entered(DeviceOf(j), Put(j, n, v))
<1>1. DeviceOf(j) \in Devices /\ pending \in [Devices -> Seq(AccountWrites)]
  BY JobTypes DEF WriteInv, TypeInv, AccountTypeOK
<1>2. PICK w : w = Put(j, n, v)
  OBVIOUS
<1>3. PICK d \in Devices : d = DeviceOf(j)
  BY <1>1
<1>4. /\ denied' \in {denied, denied \cup {j}} /\ pending' = [pending EXCEPT ![d] = Append(@, w)]
  BY <1>2, <1>3 DEF Enqueue
<1>5. pending[d] \in Seq(AccountWrites)
  BY <1>1
<1>6. pending'[d] = Append(pending[d], w) /\ \A e \in Devices : e # d => pending'[e] = pending[e]
  BY <1>1, <1>4
<1>7. /\ Len(pending[d]) \in Nat /\ DOMAIN pending[d] = 1..Len(pending[d])
      /\ DOMAIN Append(pending[d], w) = 1..(Len(pending[d]) + 1)
      /\ \A i \in DOMAIN pending[d] : Append(pending[d], w)[i] = pending[d][i]
      /\ Append(pending[d], w)[Len(pending[d]) + 1] = w
  BY <1>5
<1>8. Entered(d, w)
  BY <1>6, <1>7 DEF Entered
<1> QED
  BY <1>2, <1>3, <1>4, <1>8

\* insertUser and a product found write to the node, insertUser to the list too.
LEMMA InsertWrites ==
    ASSUME WriteInv, NEW a \in Attempts, Vacant(a), InsertUser(a),
           UNCHANGED <<tree, crossed, listShared, owner>>,
           \A k \in Jobs : k # a => snap'[k] = snap[k]
    PROVE  \E w, next : Writes(a, w, next)
<1>0. a \in Jobs /\ form[a].email \in Emails /\ NodeOf(a) \in Users
  BY JobTypes DEF WriteInv
<1>1. PICK v : v = NewUser(form[a].email)
  OBVIOUS
<1>2. v \in Entry /\ v.there /\ v.list = <<>>
  BY <1>0, <1>1, ConstantEntries DEF NewUser
<1>3. Enqueue(a, NodeOf(a), v) /\ db' = [db EXCEPT ![a] = "node"]
  BY <1>1 DEF InsertUser, Step
<1>4. PICK n : n = NodeOf(a)
  OBVIOUS
<1>5. PICK w : w = Put(a, n, v)
  OBVIOUS
<1>6. denied' \in {denied, denied \cup {a}} /\ Entered(DeviceOf(a), w)
  BY <1>0, <1>3, <1>4, <1>5, EnqueueEnters
<1>7. w.by = a /\ w.fate = "sent" /\ w.val = v /\ w.node = NodeOf(a)
  BY <1>4, <1>5 DEF Put
<1>8. Writes(a, w, "node")
  BY <1>2, <1>3, <1>6, <1>7 DEF Writes
<1> QED
  BY <1>8

LEMMA AttemptWrites ==
    ASSUME WriteInv, NEW a \in Attempts,
           \/ UsersRead(a) \/ RegisterGranted(a)
           \/ GoogleChecked(a) /\ ~snap[a].there
    PROVE  \E w, next : Writes(a, w, next)
<1>0. a \in Jobs /\ NodeOf(a) \in Users /\ snap \in [Jobs -> Entry]
  BY JobTypes DEF WriteInv, TypeInv, AccountTypeOK
<1>1. CASE RegisterGranted(a)
  <2>1. /\ UNCHANGED <<tree, crossed, listShared, owner, snap>> /\ InsertUser(a)
        /\ form[a].way = "register" /\ auth[a] = "granted"
    BY <1>1 DEF RegisterGranted
  <2>2. db[a] = "free"
    BY <2>1 DEF WriteInv, StagesMatch
  <2>3. Vacant(a)
    BY <2>1, <2>2 DEF Vacant
  <2> QED
    BY <2>1, <2>3, InsertWrites
<1>2. CASE GoogleChecked(a) /\ ~snap[a].there
  <2>1. /\ UNCHANGED <<tree, crossed, listShared, owner>> /\ InsertUser(a)
        /\ snap' = [snap EXCEPT ![a] = NoEntry]
        /\ form[a].way = "google" /\ db[a] = "raised"
    BY <1>2 DEF GoogleChecked, GoogleFound, histVars
  <2>2. Vacant(a)
    BY <1>2, <2>1 DEF Vacant
  <2> QED
    BY <1>0, <2>1, <2>2, InsertWrites
<1>3. CASE UsersRead(a)
  <2>1. PICK v : v = [there |-> TRUE, list |-> Append(snap[a].list, NodeOf(a)), name |-> NoEmail]
    OBVIOUS
  <2>2. v.there /\ v.list = Append(snap[a].list, NodeOf(a))
    BY <2>1
  <2>3. v \in Entry
    <3>1. snap[a].list \in Seq(Products \cup Users)
      BY <1>0 DEF Entry
    <3>2. Append(snap[a].list, NodeOf(a)) \in Seq(Products \cup Users)
      BY <1>0, <3>1
    <3> QED
      BY <2>1, <3>2 DEF Entry
  <2>4. /\ UNCHANGED <<tree, crossed, listShared, owner>>
        /\ snap' = [snap EXCEPT ![a] = NoEntry] /\ db[a] = "listRaised"
        /\ db' = [db EXCEPT ![a] = "list"] /\ Enqueue(a, UsersNode, v)
    BY <1>3, <2>1 DEF UsersRead, WriteUsers, Step, histVars
  <2>5. PICK w : w = Put(a, UsersNode, v)
    OBVIOUS
  <2>6. denied' \in {denied, denied \cup {a}} /\ Entered(DeviceOf(a), w)
    BY <1>0, <2>4, <2>5, EnqueueEnters
  <2>7. w.by = a /\ w.fate = "sent" /\ w.val = v /\ w.node = UsersNode
    BY <2>5 DEF Put
  <2>8. Writes(a, w, "list")
    BY <1>0, <2>2, <2>3, <2>4, <2>6, <2>7 DEF Writes
  <2> QED
    BY <2>8
<1> QED
  BY <1>1, <1>2, <1>3

LEMMA ProductWrites ==
    ASSUME WriteInv, NEW j \in Products, AddProduct(j), snap[j].there
    PROVE  \E w, next : Writes(j, w, next)
<1>0. j \in Jobs /\ snap \in [Jobs -> Entry]
  BY JobTypes DEF WriteInv, TypeInv, AccountTypeOK
<1>1. PICK v : v = [snap[j] EXCEPT !.list = Append(@, j)]
  OBVIOUS
<1>2. v \in Entry /\ v.there /\ v.list = Append(snap[j].list, j)
  <2>1. snap[j] \in Entry /\ snap[j].list \in Seq(Products \cup Users)
    BY <1>0 DEF Entry
  <2>2. Append(snap[j].list, j) \in Seq(Products \cup Users)
    BY <2>1
  <2> QED
    BY <1>1, <2>1, <2>2 DEF Entry
<1>3. PICK n : n = NodeOf(j)
  OBVIOUS
<1>4. /\ UNCHANGED <<tree, crossed, listShared, owner>>
      /\ snap' = [snap EXCEPT ![j] = NoEntry] /\ db[j] = "raised"
      /\ db' = [db EXCEPT ![j] = "node"] /\ Enqueue(j, n, v)
  BY <1>1, <1>3 DEF AddProduct, Step, histVars
<1>5. PICK w : w = Put(j, n, v)
  OBVIOUS
<1>6. denied' \in {denied, denied \cup {j}} /\ Entered(DeviceOf(j), w)
  BY <1>0, <1>4, <1>5, EnqueueEnters
<1>7. w.by = j /\ w.fate = "sent" /\ w.val = v /\ w.node = NodeOf(j)
  BY <1>3, <1>5 DEF Put
<1>8. Writes(j, w, "node")
  BY <1>0, <1>2, <1>4, <1>6, <1>7 DEF Writes
<1> QED
  BY <1>8

\* The server performs a write, or denies it.
LEMMA ServerServes ==
    ASSUME WriteInv, NEW d \in Devices, Server(d)
    PROVE  \E i \in DOMAIN pending[d] : Serves(d, i)
<1>0. pending \in [Devices -> Seq(AccountWrites)] /\ pending[d] \in Seq(AccountWrites)
  BY DEF WriteInv, TypeInv, AccountTypeOK
<1>1. PICK i \in DOMAIN pending[d] :
        /\ pending[d][i].fate = "sent"
        /\ \A j \in DOMAIN pending[d] : j < i => pending[d][j].fate # "sent"
        /\ pending' = [pending EXCEPT
              ![d][i].fate = IF pending[d][i].by \in denied THEN "denied" ELSE "ok"]
        /\ tree' = IF pending[d][i].by \in denied THEN tree
                   ELSE [tree EXCEPT ![pending[d][i].node] = pending[d][i].val]
  BY DEF Server, Perform
<1>2. UNCHANGED <<db, snap, crossed, denied, listShared, owner>>
  BY DEF Server, jobVars, bounds, histVars
<1>3. /\ DOMAIN pending'[d] = DOMAIN pending[d]
      /\ pending'[d][i] = [pending[d][i] EXCEPT !.fate =
                              IF pending[d][i].by \in denied THEN "denied" ELSE "ok"]
      /\ \A k \in DOMAIN pending[d] : k # i => pending'[d][k] = pending[d][k]
      /\ \A e \in Devices : e # d => pending'[e] = pending[e]
  BY <1>0, <1>1
<1>4. Serves(d, i)
  BY <1>1, <1>2, <1>3 DEF Serves
<1> QED
  BY <1>4

\* The connection breaks.
LEMMA LostResends ==
    ASSUME WriteInv, NEW d \in Devices, ConnectionLost(d)
    PROVE  Resends(d)
<1>0. pending \in [Devices -> Seq(AccountWrites)] /\ Len(pending[d]) \in Nat
  BY DEF WriteInv, TypeInv, AccountTypeOK
<1>1. PICK kept \in 0..Len(pending[d]) : pending' = [pending EXCEPT ![d] = Unsent(d, kept)]
  BY DEF ConnectionLost, Reconnect
<1>2. UNCHANGED <<tree, db, snap, crossed, denied, listShared, owner>>
  BY DEF ConnectionLost, Reconnect, jobVars, histVars
<1>3. pending'[d] = Unsent(d, kept) /\ \A e \in Devices : e # d => pending'[e] = pending[e]
  BY <1>0, <1>1
<1>4. DOMAIN pending'[d] = DOMAIN pending[d] /\ \A i \in DOMAIN pending[d] : pending'[d][i] =
           IF i <= kept THEN pending[d][i] ELSE [pending[d][i] EXCEPT !.fate = "sent"]
  BY <1>3 DEF Unsent
<1> QED
  BY <1>0, <1>2, <1>3, <1>4 DEF Resends

\* A write is acknowledged.
LEMMA CompletionLeaves ==
    ASSUME WriteInv, NEW d \in Devices, Completion(d)
    PROVE  \E w : Leaves(d, w)
<1>0. pending \in [Devices -> Seq(AccountWrites)] /\ pending[d] \in Seq(AccountWrites)
  BY DEF WriteInv, TypeInv, AccountTypeOK
<1>1. /\ \A j \in Jobs : DeviceOf(j) = d => db[j] \notin {"asked", "listAsked"}
      /\ UNCHANGED <<tree, snap, crossed, denied, owner>>
      /\ pending[d] # <<>> /\ Head(pending[d]).fate # "sent"
      /\ pending' = [pending EXCEPT ![d] = Tail(@)]
  BY DEF Completion, Acknowledge, CatchUp, bounds
<1>2. PICK w : w = Head(pending[d])
  OBVIOUS
<1>3. /\ db' = [db EXCEPT ![w.by] = IF w.fate = "denied" THEN "failed"
                ELSE IF w.by \in Attempts /\ w.node # UsersNode THEN "listAsked" ELSE "done"]
      /\ listShared' = (listShared \/ (/\ db'[w.by] = "listAsked"
                                       /\ \E a \in Attempts : db[a] \in
                                             {"listAsked", "listRaised", "list"}))
  BY <1>2 DEF Completion, Step, Answered
<1>4. /\ 1 \in DOMAIN pending[d] /\ w = pending[d][1]
      /\ \A i \in DOMAIN Tail(pending[d]) :
            i \in Nat \ {0} /\ i + 1 \in DOMAIN pending[d] /\ Tail(pending[d])[i] = pending[d][i + 1]
      /\ \A i \in DOMAIN pending[d] : i # 1 =>
            i \in Nat /\ i - 1 \in DOMAIN Tail(pending[d]) /\ Tail(pending[d])[i - 1] = pending[d][i]
  BY <1>0, <1>1, <1>2
<1>5. pending'[d] = Tail(pending[d]) /\ \A e \in Devices : e # d => pending'[e] = pending[e]
  BY <1>0, <1>1
<1>6. Leaves(d, w)
  BY <1>1, <1>2, <1>3, <1>4, <1>5 DEF Leaves
<1> QED
  BY <1>6

\* A dead device's queue is dropped.
LEMMA LoseDrops ==
    ASSUME WriteInv, NEW d \in Devices, LoseQueue(d)
    PROVE  Drops(d)
<1>0. pending \in [Devices -> Seq(AccountWrites)]
  BY DEF WriteInv, TypeInv, AccountTypeOK
<1> QED
  BY <1>0 DEF LoseQueue, Drop, Drops, bounds, histVars

\* The steps by what they do to the database and its jobs.
Shape ==
    \/ Rest
    \/ \E j \in Jobs : \E v : Reads(j, v)
    \/ \E j \in Jobs : \E w, next : Writes(j, w, next)
    \/ \E d \in Devices : \E i \in DOMAIN pending[d] : Serves(d, i)
    \/ \E d \in Devices : Resends(d) \/ (\E w : Leaves(d, w)) \/ Drops(d)

LEMMA NextShape ==
    ASSUME WriteInv, KindsMatch, [Next]_vars
    PROVE  Shape
<1>1. ASSUME NEW a \in Attempts, Begin(a) \/ TapRefused(a) \/ AuthGrants(a) \/ AuthFails(a)
      PROVE  Shape
  BY <1>1, TapsRest DEF Shape
<1>2. ASSUME NEW j \in Products, Publish(j)
      PROVE  Shape
  BY <1>2, PublishRests DEF Shape
<1>3. ASSUME NEW j \in Jobs, Raise(j)
      PROVE  Shape
  BY <1>3, RaiseReads DEF Shape
<1>4. ASSUME NEW j \in Jobs, Callback(j)
      PROVE  Shape
  <2>1. CASE AddProduct(j) /\ snap[j].there
    <3>1. j \in Products
      BY <2>1 DEF AddProduct
    <3> QED
      BY <2>1, <3>1, ProductWrites DEF Shape
  <2>2. CASE AddProduct(j) /\ ~snap[j].there
    <3>1. j \in Products
      BY <2>2 DEF AddProduct
    <3> QED
      BY <2>2, <3>1, NotFoundRests DEF Shape
  <2>3. CASE j \in Attempts /\ (\/ Checked(j) \/ NameRead(j) \/ LoginGranted(j) \/ GoogleGranted(j)
                                \/ GoogleChecked(j) /\ snap[j].there)
    BY <2>3, CallbacksRest DEF Shape
  <2>4. CASE j \in Attempts /\ (\/ UsersRead(j) \/ RegisterGranted(j)
                                \/ GoogleChecked(j) /\ ~snap[j].there)
    BY <2>4, AttemptWrites DEF Shape
  <2> QED
    BY <1>4, <2>1, <2>2, <2>3, <2>4 DEF Callback
<1>5. ASSUME NEW d \in Devices, CloseAlert(d) \/ Back(d) \/ Logout(d) \/ Kill(d) \/ Start(d)
      PROVE  Shape
  BY <1>5, DevicesRest DEF Shape
<1>6. ASSUME NEW d \in Devices, Server(d)
      PROVE  Shape
  BY <1>6, ServerServes DEF Shape
<1>7. ASSUME NEW d \in Devices, ConnectionLost(d) \/ Completion(d) \/ LoseQueue(d)
      PROVE  Shape
  BY <1>7, LostResends, CompletionLeaves, LoseDrops DEF Shape
<1>8. CASE UNCHANGED vars
  BY <1>8, NoneMoves DEF vars, dbVars, jobVars, bounds, histVars, Shape
<1> QED
  BY <1>1, <1>2, <1>3, <1>4, <1>5, <1>6, <1>7, <1>8 DEF Next

-----------------------------------------------------------------------------
(* Stages, queues and turns *)

\* A job that has started keeps its user node; every job keeps its device.
LEMMA SameNode ==
    ASSUME Onward
    PROVE  /\ \A j \in Jobs : DeviceOf(j)' = DeviceOf(j)
           /\ \A j \in Attempts : NodeOf(j)' = NodeOf(j)
           /\ \A j \in Jobs : db[j] # "none" => NodeOf(j)' = NodeOf(j)
BY AccountAssumption DEF Onward, DeviceOf, NodeOf, Jobs

\* What an appended list holds.
LEMMA AppendElements ==
    ASSUME NEW S, NEW l \in Seq(S), NEW x
    PROVE  Elements(Append(l, x)) = Elements(l) \cup {x}
<1>1. /\ Len(l) \in Nat /\ DOMAIN l = 1..Len(l) /\ DOMAIN Append(l, x) = 1..(Len(l) + 1)
      /\ \A i \in DOMAIN l : Append(l, x)[i] = l[i]
      /\ Append(l, x)[Len(l) + 1] = x
  OBVIOUS
<1>2. ASSUME NEW y \in Elements(Append(l, x))
      PROVE  y \in Elements(l) \cup {x}
  <2>1. PICK i \in DOMAIN Append(l, x) : y = Append(l, x)[i]
    BY <1>2 DEF Elements
  <2>2. i \in DOMAIN l \/ i = Len(l) + 1
    BY <1>1, <2>1
  <2> QED
    BY <1>1, <2>1, <2>2 DEF Elements
<1>3. \A y \in Elements(l) : y \in Elements(Append(l, x))
  <2> SUFFICES ASSUME NEW i \in DOMAIN l
               PROVE  l[i] \in Elements(Append(l, x))
    BY DEF Elements
  <2>1. i \in DOMAIN Append(l, x) /\ Append(l, x)[i] = l[i]
    BY <1>1
  <2> QED
    BY <2>1 DEF Elements
<1>4. x \in Elements(Append(l, x))
  <2>1. Len(l) + 1 \in DOMAIN Append(l, x)
    BY <1>1
  <2> QED
    BY <1>1, <2>1 DEF Elements
<1> QED
  BY <1>2, <1>3, <1>4

\* The jobs with a write in a queue.
LEMMA Queued ==
    ASSUME WriteInv, NEW d \in Devices, NEW i \in DOMAIN pending[d]
    PROVE  /\ pending[d][i].by \in Jobs /\ DeviceOf(pending[d][i].by) = d
           /\ db[pending[d][i].by] \in {"node", "list"}
           /\ pending[d][i] \in AccountWrites
           /\ i \in Nat \ {0}
           /\ \A k \in DOMAIN pending[d] : pending[d][k].by = pending[d][i].by => k = i
<1>1. pending[d] \in Seq(AccountWrites)
  BY DEF WriteInv, TypeInv, AccountTypeOK
<1> QED
  BY <1>1 DEF WriteInv, QueueOwned

LEMMA ShapeKinds ==
    ASSUME WriteInv, KindsMatch, Onward, Shape
    PROVE  KindsMatch'
<1>0. /\ UNCHANGED form /\ \A j \in Products : db[j] # "none" => owner'[j] = owner[j]
      /\ db \in [Jobs -> DbStages] /\ Attempts \cap Products = {}
  BY AccountAssumption DEF Onward, WriteInv, TypeInv, AccountTypeOK
<1>1. CASE Rest
  <2>1. \A j \in Jobs : Rests(j)
    BY <1>1 DEF Rest
  <2>2. ASSUME NEW j \in Products
        PROVE  /\ db'[j] \in {"none", "asked", "raised", "node", "done", "failed", "notFound", "dead"}
               /\ db'[j] # "none" => owner'[j] \in Emails
    BY <1>0, <2>1, <2>2 DEF KindsMatch, Rests, Jobs
  <2>3. ASSUME NEW a \in Attempts
        PROVE  /\ form[a].way = "login" => db'[a] \in {"none", "asked", "raised", "over", "dead"}
               /\ form[a].way # "register" => db'[a] # "free"
               /\ db'[a] # "notFound"
    BY <1>0, <2>1, <2>3 DEF KindsMatch, Rests, Jobs
  <2> QED
    BY <1>0, <2>2, <2>3 DEF KindsMatch
<1>2. ASSUME NEW j \in Jobs, NEW v, Reads(j, v)
      PROVE  KindsMatch'
  <2>1. /\ db[j] = "asked" \/ db[j] = "listAsked"
        /\ db' = [db EXCEPT ![j] = IF db[j] = "asked" THEN "raised" ELSE "listRaised"]
    BY <1>2 DEF Reads
  <2> QED
    BY <1>0, <2>1 DEF KindsMatch, Jobs
<1>3. ASSUME NEW j \in Jobs, NEW w, NEW next, Writes(j, w, next)
      PROVE  KindsMatch'
  <2>1. /\ db' = [db EXCEPT ![j] = next]
        /\ \/ next = "node" /\ j \in Attempts /\ form[j].way # "login"
           \/ next = "node" /\ j \in Products /\ db[j] = "raised"
           \/ next = "list" /\ j \in Attempts /\ db[j] = "listRaised"
    BY <1>3 DEF Writes, Vacant
  <2> QED
    BY <1>0, <2>1 DEF KindsMatch, Jobs
<1>4. ASSUME UNCHANGED db
      PROVE  KindsMatch'
  BY <1>0, <1>4 DEF KindsMatch
<1>5. ASSUME NEW d \in Devices, NEW w, Leaves(d, w)
      PROVE  KindsMatch'
  <2>1. /\ w.by \in Jobs /\ db[w.by] \in {"node", "list"}
        /\ db' = [db EXCEPT ![w.by] = IF w.fate = "denied" THEN "failed"
                                      ELSE IF w.by \in Attempts /\ w.node # UsersNode
                                      THEN "listAsked" ELSE "done"]
    BY <1>5, Queued DEF Leaves
  <2> QED
    BY <1>0, <2>1 DEF KindsMatch, Jobs
<1>6. ASSUME NEW d \in Devices, Drops(d)
      PROVE  KindsMatch'
  <2>1. \A j \in Jobs : db'[j] = db[j] \/ (db[j] \in {"node", "list"} /\ db'[j] = "dead")
    BY <1>6 DEF Drops
  <2> QED
    BY <1>0, <2>1 DEF KindsMatch, Jobs
<1> QED
  BY <1>1, <1>2, <1>3, <1>4, <1>5, <1>6 DEF Shape, Serves, Resends

\* A write stays what it is while its job waits and no node is taken away.
LEMMA KeptStays ==
    ASSUME Onward, NEW w, w.by \in Jobs, Kept(w), db[w.by] # "none", db'[w.by] = db[w.by],
           w.fate = "ok" => tree'[w.node].there
    PROVE  Kept(w)'
<1>1. NodeOf(w.by)' = NodeOf(w.by)
  BY SameNode
<1> QED
  BY <1>1 DEF Kept, Onward

LEMMA RestPuts ==
    ASSUME WriteInv, PutsKept, Onward, Rest
    PROVE  PutsKept'
<1>0. UNCHANGED <<tree, pending>> /\ \A j \in Jobs : Rests(j)
  BY DEF Rest
<1>1. \A j \in Jobs : db[j] \in {"node", "list"} => db'[j] = db[j]
  BY <1>0 DEF Rests
<1>2. \A j \in Jobs : db'[j] \in {"node", "list"} => db[j] = db'[j]
  BY <1>0 DEF Rests
<1>3. ASSUME NEW d \in Devices, NEW i \in DOMAIN pending[d]
      PROVE  Kept(pending[d][i])'
  <2>1. PICK w : w = pending[d][i]
    OBVIOUS
  <2>2. w.by \in Jobs /\ db[w.by] \in {"node", "list"} /\ Kept(w)
    BY <2>1, Queued DEF PutsKept
  <2>3. db'[w.by] = db[w.by] /\ (w.fate = "ok" => tree'[w.node].there)
    BY <1>0, <1>1, <2>2 DEF Kept
  <2>4. Kept(w)'
    BY <2>2, <2>3, KeptStays
  <2> QED
    BY <1>0, <2>1, <2>4 DEF Kept
<1> QED
  BY <1>0, <1>2, <1>3, SameNode DEF PutsKept

LEMMA ReadsPuts ==
    ASSUME WriteInv, PutsKept, Onward, NEW j \in Jobs, NEW v, Reads(j, v)
    PROVE  PutsKept'
<1>0. /\ UNCHANGED <<tree, pending>> /\ db[j] \in {"asked", "listAsked"}
      /\ db'[j] \in {"raised", "listRaised"} /\ \A k \in Jobs : k # j => db'[k] = db[k]
  BY DEF Reads, WriteInv, TypeInv, AccountTypeOK
<1>3. ASSUME NEW d \in Devices, NEW i \in DOMAIN pending[d]
      PROVE  Kept(pending[d][i])'
  <2>1. PICK w : w = pending[d][i]
    OBVIOUS
  <2>2. w.by \in Jobs /\ db[w.by] \in {"node", "list"} /\ Kept(w)
    BY <2>1, Queued DEF PutsKept
  <2>3. db'[w.by] = db[w.by] /\ (w.fate = "ok" => tree'[w.node].there)
    BY <1>0, <2>2 DEF Kept
  <2>4. Kept(w)'
    BY <2>2, <2>3, KeptStays
  <2> QED
    BY <1>0, <2>1, <2>4 DEF Kept
<1> QED
  BY <1>0, <1>3, SameNode DEF PutsKept

LEMMA WritesPuts ==
    ASSUME WriteInv, PutsKept, Onward, NEW j \in Jobs, NEW w, NEW next, Writes(j, w, next)
    PROVE  PutsKept'
<1>0. /\ UNCHANGED tree /\ db'[j] = next /\ \A k \in Jobs : k # j => db'[k] = db[k]
      /\ db[j] \in {"free", "raised", "listRaised"} /\ next \in {"node", "list"}
      /\ w.by = j /\ w.fate = "sent" /\ w.val.there
      /\ DeviceOf(j) \in Devices
  BY JobTypes DEF Writes, Vacant, WriteInv, TypeInv, AccountTypeOK
<1>1. PICK d0 \in Devices : d0 = DeviceOf(j)
  BY <1>0
<1>2. PICK n : n = Len(pending[d0])
  OBVIOUS
<1>3. /\ n \in Nat /\ DOMAIN pending[d0] = 1..n /\ DOMAIN pending'[d0] = 1..(n + 1)
      /\ \A i \in 1..n : pending'[d0][i] = pending[d0][i]
      /\ pending'[d0][n + 1] = w
      /\ \A e \in Devices : e # d0 => pending'[e] = pending[e]
  BY <1>1, <1>2 DEF Writes, Entered
<1>4. Kept(w)'
  <2>1. NodeOf(j)' = NodeOf(j)
    BY <1>0, SameNode
  <2>2. CASE next = "node"
    <3>1. w.node = NodeOf(j)
      BY <2>2 DEF Writes
    <3>2. w.node # UsersNode
      BY <1>0, <2>2, <3>1, JobTypes, AccountAssumption DEF Writes, Vacant, WriteInv
    <3> QED
      BY <1>0, <2>1, <2>2, <3>1, <3>2 DEF Kept
  <2>3. CASE next = "list"
    <3>1. /\ w.node = UsersNode /\ j \in Attempts /\ w.val.list = Append(snap[j].list, NodeOf(j))
      BY <2>3 DEF Writes
    <3>2. snap[j].list \in Seq(Products \cup Users)
      BY DEF WriteInv, TypeInv, AccountTypeOK, Entry
    <3>3. NodeOf(j) \in Elements(w.val.list)
      BY <3>1, <3>2, AppendElements
    <3> QED
      BY <1>0, <2>1, <2>3, <3>1, <3>3 DEF Kept
  <2> QED
    BY <1>0, <2>2, <2>3
<1>5. ASSUME NEW d \in Devices, NEW i \in DOMAIN pending[d]
      PROVE  i \in DOMAIN pending'[d] /\ pending'[d][i] = pending[d][i] /\ Kept(pending[d][i])'
  <2>1. PICK x : x = pending[d][i]
    OBVIOUS
  <2>2. x.by \in Jobs /\ db[x.by] \in {"node", "list"} /\ Kept(x)
    BY <2>1, Queued DEF PutsKept
  <2>3. db'[x.by] = db[x.by] /\ (x.fate = "ok" => tree'[x.node].there)
    BY <1>0, <2>2 DEF Kept
  <2>4. Kept(x)'
    BY <2>2, <2>3, KeptStays
  <2>5. i \in DOMAIN pending'[d] /\ pending'[d][i] = pending[d][i]
    BY <1>3
  <2> QED
    BY <2>1, <2>4, <2>5 DEF Kept
<1>6. ASSUME NEW d \in Devices, NEW i \in DOMAIN pending'[d]
      PROVE  i \in DOMAIN pending[d] \/ (d = d0 /\ i = n + 1)
  BY <1>3
<1>7. ASSUME NEW d \in Devices, NEW i \in DOMAIN pending'[d]
      PROVE  Kept(pending[d][i])'
  <2>1. CASE i \in DOMAIN pending[d]
    BY <1>5, <2>1
  <2>2. CASE d = d0 /\ i = n + 1
    BY <1>3, <1>4, <2>2 DEF Kept
  <2> QED
    BY <1>6, <2>1, <2>2
<1>8. ASSUME NEW d \in Devices, NEW i \in DOMAIN pending'[d], NEW k \in DOMAIN pending'[d],
             i < k, pending'[d][i].fate = "sent"
      PROVE  pending'[d][k].fate = "sent"
  <2>1. CASE d = d0 /\ k = n + 1
    BY <1>0, <1>3, <2>1
  <2>2. CASE ~(d = d0 /\ k = n + 1)
    <3>1. k \in DOMAIN pending[d]
      BY <1>6, <2>2
    <3>2. i \in DOMAIN pending[d]
      <4>1. CASE d = d0
        BY <1>3, <1>8, <2>2, <4>1
      <4>2. CASE d # d0
        BY <1>6, <4>2
      <4> QED
        BY <4>1, <4>2
    <3>3. pending[d][i].fate = "sent"
      BY <1>5, <1>8, <3>2
    <3>4. pending[d][k].fate = "sent"
      BY <1>8, <3>1, <3>2, <3>3 DEF PutsKept
    <3> QED
      BY <1>5, <3>1, <3>4
  <2> QED
    BY <2>1, <2>2
<1>9. ASSUME NEW k \in Jobs, db'[k] \in {"node", "list"}
      PROVE  \E i \in DOMAIN pending'[DeviceOf(k)] : pending'[DeviceOf(k)][i].by = k
  <2>1. CASE k = j
    BY <1>0, <1>1, <1>3, <2>1
  <2>2. CASE k # j
    <3>1. PICK i \in DOMAIN pending[DeviceOf(k)] : pending[DeviceOf(k)][i].by = k
      BY <1>0, <1>9, <2>2 DEF PutsKept
    <3>2. DeviceOf(k) \in Devices
      BY JobTypes DEF WriteInv
    <3> QED
      BY <1>5, <3>1, <3>2
  <2> QED
    BY <2>1, <2>2
<1> QED
  BY <1>7, <1>8, <1>9, SameNode DEF PutsKept

LEMMA ServesPuts ==
    ASSUME WriteInv, PutsKept, Onward, NEW d0 \in Devices, NEW i0 \in DOMAIN pending[d0],
           Serves(d0, i0)
    PROVE  PutsKept'
<1>0. /\ UNCHANGED <<db, denied>>
      /\ \A d \in Devices : DOMAIN pending'[d] = DOMAIN pending[d]
      /\ \A d \in Devices : \A i \in DOMAIN pending[d] :
            d # d0 \/ i # i0 => pending'[d][i] = pending[d][i]
  BY DEF Serves
<1>1. PICK x : x = pending[d0][i0]
  OBVIOUS
<1>2. PICK y : y = pending'[d0][i0]
  OBVIOUS
<1>3. /\ y = [x EXCEPT !.fate = IF x.by \in denied THEN "denied" ELSE "ok"]
      /\ tree' = IF x.by \in denied THEN tree ELSE [tree EXCEPT ![x.node] = x.val]
      /\ x.fate = "sent" /\ \A k \in DOMAIN pending[d0] : k < i0 => pending[d0][k].fate # "sent"
  BY <1>1, <1>2 DEF Serves
<1>4. /\ x \in AccountWrites /\ x.by \in Jobs /\ db[x.by] \in {"node", "list"} /\ Kept(x)
      /\ tree \in [Paths -> Entry] /\ x.node \in Paths /\ i0 \in Nat
  BY <1>1, Queued DEF PutsKept, WriteInv, TypeInv, AccountTypeOK, AccountWrites, Paths
<1>5. /\ y.by = x.by /\ y.node = x.node /\ y.val = x.val
      /\ y.fate = IF x.by \in denied THEN "denied" ELSE "ok"
  BY <1>3, <1>4 DEF AccountWrites
<1>6. \A n \in Paths : tree[n].there => tree'[n].there
  BY <1>3, <1>4 DEF Kept
<1>7. y.fate = "ok" => tree'[y.node].there
  BY <1>3, <1>4, <1>5 DEF Kept
<1>8. Kept(y)'
  <2>1. NodeOf(x.by)' = NodeOf(x.by)
    BY <1>4, SameNode
  <2>2. y.fate = "denied" => y.by \in denied'
    BY <1>0, <1>5
  <2> QED
    BY <1>0, <1>4, <1>5, <1>7, <2>1, <2>2 DEF Kept
<1>9. ASSUME NEW d \in Devices, NEW i \in DOMAIN pending[d]
      PROVE  Kept(pending[d][i])'
  <2>1. CASE d = d0 /\ i = i0
    BY <1>2, <1>8, <2>1 DEF Kept
  <2>2. CASE d # d0 \/ i # i0
    <3>1. PICK w : w = pending[d][i]
      OBVIOUS
    <3>2. w \in AccountWrites /\ w.by \in Jobs /\ db[w.by] \in {"node", "list"} /\ Kept(w)
      BY <3>1, Queued DEF PutsKept
    <3>3. w.node \in Paths
      BY <3>2 DEF AccountWrites, Paths
    <3>4. w.fate = "ok" => tree'[w.node].there
      BY <1>6, <3>2, <3>3 DEF Kept
    <3>5. Kept(w)'
      BY <1>0, <3>2, <3>4, KeptStays
    <3>6. pending'[d][i] = w
      BY <1>0, <2>2, <3>1
    <3> QED
      BY <3>5, <3>6 DEF Kept
  <2> QED
    BY <2>1, <2>2
<1>10. ASSUME NEW d \in Devices, NEW i \in DOMAIN pending[d], NEW k \in DOMAIN pending[d],
              i < k, pending'[d][i].fate = "sent"
       PROVE  pending'[d][k].fate = "sent"
  <2>1. d # d0 \/ i # i0
    BY <1>2, <1>5, <1>10
  <2>2. pending[d][i].fate = "sent"
    BY <1>0, <1>10, <2>1
  <2>3. pending[d][k].fate = "sent"
    BY <1>10, <2>2 DEF PutsKept
  <2>4. d # d0 \/ k # i0
    BY <1>3, <1>10, <2>2
  <2> QED
    BY <1>0, <2>3, <2>4
<1>11. ASSUME NEW j \in Jobs, db[j] \in {"node", "list"}
       PROVE  \E i \in DOMAIN pending'[DeviceOf(j)] : pending'[DeviceOf(j)][i].by = j
  <2>1. DeviceOf(j) \in Devices
    BY JobTypes DEF WriteInv
  <2>2. PICK i \in DOMAIN pending[DeviceOf(j)] : pending[DeviceOf(j)][i].by = j
    BY <1>11 DEF PutsKept
  <2>3. pending'[DeviceOf(j)][i].by = j
    BY <1>0, <1>1, <1>2, <1>5, <2>1, <2>2
  <2> QED
    BY <1>0, <2>1, <2>2, <2>3
<1> QED
  BY <1>0, <1>9, <1>10, <1>11, SameNode DEF PutsKept

LEMMA ResendsPuts ==
    ASSUME WriteInv, PutsKept, Onward, NEW d0 \in Devices, Resends(d0)
    PROVE  PutsKept'
<1>0. /\ UNCHANGED <<tree, db, denied>>
      /\ \A d \in Devices : DOMAIN pending'[d] = DOMAIN pending[d]
      /\ \A d \in Devices : d # d0 => pending'[d] = pending[d]
  BY DEF Resends
<1>1. PICK kept \in Nat : \A i \in DOMAIN pending[d0] : pending'[d0][i] =
          IF i <= kept THEN pending[d0][i] ELSE [pending[d0][i] EXCEPT !.fate = "sent"]
  BY DEF Resends
<1>2. \A w \in AccountWrites : LET y == [w EXCEPT !.fate = "sent"] IN
          y.by = w.by /\ y.node = w.node /\ y.val = w.val /\ y.fate = "sent"
  BY DEF AccountWrites
<1>3. ASSUME NEW d \in Devices, NEW i \in DOMAIN pending[d]
      PROVE  /\ Kept(pending[d][i])'
             /\ pending'[d][i].by = pending[d][i].by
             /\ pending'[d][i].fate \in {pending[d][i].fate, "sent"}
  <2>1. PICK w : w = pending[d][i]
    OBVIOUS
  <2>2. w \in AccountWrites /\ w.by \in Jobs /\ db[w.by] \in {"node", "list"} /\ Kept(w)
    BY <2>1, Queued DEF PutsKept
  <2>3. Kept(w)'
    <3>1. w.fate = "ok" => tree'[w.node].there
      BY <1>0, <2>2 DEF Kept
    <3> QED
      BY <1>0, <2>2, <3>1, KeptStays
  <2>4. PICK y : y = pending'[d][i]
    OBVIOUS
  <2>5. y = w \/ y = [w EXCEPT !.fate = "sent"]
    BY <1>0, <1>1, <2>1, <2>4
  <2>6. y.by = w.by /\ y.node = w.node /\ y.val = w.val /\ y.fate \in {w.fate, "sent"}
    BY <1>2, <2>2, <2>5
  <2>7. Kept(y)'
    BY <2>3, <2>6 DEF Kept
  <2> QED
    BY <2>1, <2>4, <2>6, <2>7 DEF Kept
<1>4. ASSUME NEW d \in Devices, NEW i \in DOMAIN pending[d], NEW k \in DOMAIN pending[d],
             i < k, pending'[d][i].fate = "sent"
      PROVE  pending'[d][k].fate = "sent"
  <2>1. CASE pending[d][i].fate = "sent"
    BY <1>3, <1>4, <2>1 DEF PutsKept
  <2>2. CASE pending[d][i].fate # "sent"
    <3>1. d = d0
      BY <1>0, <1>4, <2>2
    <3>2. ~(i <= kept)
      BY <1>1, <1>4, <2>2, <3>1
    <3>3. i \in Nat /\ k \in Nat
      BY Queued
    <3>4. ~(k <= kept)
      BY <1>4, <3>2, <3>3
    <3>5. pending'[d][k] = [pending[d][k] EXCEPT !.fate = "sent"]
      BY <1>1, <3>1, <3>4
    <3>6. pending[d][k] \in AccountWrites
      BY Queued
    <3> QED
      BY <1>2, <3>5, <3>6
  <2> QED
    BY <2>1, <2>2
<1>5. ASSUME NEW j \in Jobs, db[j] \in {"node", "list"}
      PROVE  \E i \in DOMAIN pending'[DeviceOf(j)] : pending'[DeviceOf(j)][i].by = j
  <2>1. DeviceOf(j) \in Devices
    BY JobTypes DEF WriteInv
  <2>2. PICK i \in DOMAIN pending[DeviceOf(j)] : pending[DeviceOf(j)][i].by = j
    BY <1>5 DEF PutsKept
  <2> QED
    BY <1>0, <1>3, <2>1, <2>2
<1> QED
  BY <1>0, <1>3, <1>4, <1>5, SameNode DEF PutsKept

LEMMA LeavesPuts ==
    ASSUME WriteInv, PutsKept, Onward, NEW d0 \in Devices, NEW w0, Leaves(d0, w0)
    PROVE  PutsKept'
<1>0. /\ UNCHANGED <<tree, denied>> /\ 1 \in DOMAIN pending[d0] /\ w0 = pending[d0][1]
      /\ \A d \in Devices : d # d0 => pending'[d] = pending[d]
      /\ w0.by \in Jobs
      /\ db'[w0.by] \notin {"node", "list"} /\ \A k \in Jobs : k # w0.by => db'[k] = db[k]
  BY Queued DEF Leaves, WriteInv, TypeInv, AccountTypeOK
<1>1. ASSUME NEW i \in DOMAIN pending'[d0]
      PROVE  i \in Nat \ {0} /\ i + 1 \in DOMAIN pending[d0] /\ pending'[d0][i] = pending[d0][i + 1]
  BY DEF Leaves
<1>2. ASSUME NEW d \in Devices, NEW i \in DOMAIN pending[d], d # d0 \/ i # 1
      PROVE  /\ pending[d][i].by # w0.by
             /\ Kept(pending[d][i]) /\ \A w : w = pending[d][i] => Kept(w)'
  <2>1. PICK w : w = pending[d][i]
    OBVIOUS
  <2>2. w \in AccountWrites /\ w.by \in Jobs /\ db[w.by] \in {"node", "list"} /\ Kept(w)
    BY <2>1, Queued DEF PutsKept
  <2>3. w.by # w0.by
    <3>1. CASE d = d0
      BY <1>0, <1>2, <2>1, <3>1, Queued
    <3>2. CASE d # d0
      BY <1>0, <2>1, <3>2, Queued
    <3> QED
      BY <3>1, <3>2
  <2>4. Kept(w)'
    <3>1. w.fate = "ok" => tree'[w.node].there
      BY <1>0, <2>2 DEF Kept
    <3> QED
      BY <1>0, <2>2, <2>3, <3>1, KeptStays
  <2> QED
    BY <2>1, <2>2, <2>3, <2>4
<1>3. ASSUME NEW d \in Devices, NEW i \in DOMAIN pending'[d]
      PROVE  Kept(pending[d][i])'
  <2>1. PICK w : w = pending'[d][i]
    OBVIOUS
  <2>2. Kept(w)'
    <3>1. CASE d = d0
      <4>1. i + 1 \in DOMAIN pending[d0] /\ i + 1 # 1 /\ w = pending[d0][i + 1]
        BY <1>1, <2>1, <3>1
      <4> QED
        BY <1>2, <3>1, <4>1
    <3>2. CASE d # d0
      BY <1>0, <1>2, <2>1, <3>2
    <3> QED
      BY <3>1, <3>2
  <2> QED
    BY <2>1, <2>2 DEF Kept
<1>4. ASSUME NEW d \in Devices, NEW i \in DOMAIN pending'[d], NEW k \in DOMAIN pending'[d],
             i < k, pending'[d][i].fate = "sent"
      PROVE  pending'[d][k].fate = "sent"
  <2>1. CASE d = d0
    <3>1. /\ i \in Nat /\ k \in Nat /\ i + 1 \in DOMAIN pending[d0] /\ k + 1 \in DOMAIN pending[d0]
          /\ pending'[d0][i] = pending[d0][i + 1] /\ pending'[d0][k] = pending[d0][k + 1]
      BY <1>1, <2>1
    <3>2. i + 1 < k + 1
      BY <1>4, <3>1
    <3> QED
      BY <1>4, <2>1, <3>1, <3>2 DEF PutsKept
  <2>2. CASE d # d0
    BY <1>0, <1>4, <2>2 DEF PutsKept
  <2> QED
    BY <2>1, <2>2
<1>5. ASSUME NEW j \in Jobs, db'[j] \in {"node", "list"}
      PROVE  \E i \in DOMAIN pending'[DeviceOf(j)] : pending'[DeviceOf(j)][i].by = j
  <2>1. DeviceOf(j) \in Devices /\ j # w0.by /\ db[j] \in {"node", "list"}
    BY <1>0, <1>5, JobTypes DEF WriteInv
  <2>2. PICK i \in DOMAIN pending[DeviceOf(j)] : pending[DeviceOf(j)][i].by = j
    BY <2>1 DEF PutsKept
  <2>3. CASE DeviceOf(j) = d0
    <3>1. i # 1
      BY <1>0, <2>1, <2>2, <2>3
    <3>2. i - 1 \in DOMAIN pending'[d0] /\ pending'[d0][i - 1] = pending[d0][i]
      BY <2>2, <2>3, <3>1 DEF Leaves
    <3> QED
      BY <2>2, <2>3, <3>2
  <2>4. CASE DeviceOf(j) # d0
    BY <1>0, <2>1, <2>2, <2>4
  <2> QED
    BY <2>3, <2>4
<1> QED
  BY <1>3, <1>4, <1>5, SameNode DEF PutsKept

LEMMA DropsPuts ==
    ASSUME WriteInv, PutsKept, Onward, NEW d0 \in Devices, Drops(d0)
    PROVE  PutsKept'
<1>0. /\ UNCHANGED <<tree, denied>> /\ pending'[d0] = <<>> /\ DOMAIN pending'[d0] = {}
      /\ \A d \in Devices : d # d0 => pending'[d] = pending[d]
      /\ \A j \in Jobs : DeviceOf(j) # d0 => db'[j] = db[j]
      /\ \A j \in Jobs : db'[j] \in {"node", "list"} => DeviceOf(j) # d0 /\ db'[j] = db[j]
  BY DEF Drops
<1>1. ASSUME NEW d \in Devices, NEW i \in DOMAIN pending'[d]
      PROVE  Kept(pending[d][i])'
  <2>0. d # d0 /\ i \in DOMAIN pending[d]
    BY <1>0, <1>1
  <2>1. PICK w : w = pending[d][i]
    OBVIOUS
  <2>2. /\ w \in AccountWrites /\ w.by \in Jobs /\ db[w.by] \in {"node", "list"} /\ Kept(w)
        /\ DeviceOf(w.by) = d
    BY <2>0, <2>1, Queued DEF PutsKept
  <2>3. Kept(w)'
    <3>1. w.fate = "ok" => tree'[w.node].there
      BY <1>0, <2>2 DEF Kept
    <3> QED
      BY <1>0, <2>0, <2>2, <3>1, KeptStays
  <2>4. pending'[d][i] = w
    BY <1>0, <2>0, <2>1
  <2> QED
    BY <2>3, <2>4 DEF Kept
<1>2. ASSUME NEW d \in Devices, NEW i \in DOMAIN pending'[d], NEW k \in DOMAIN pending'[d],
             i < k, pending'[d][i].fate = "sent"
      PROVE  pending'[d][k].fate = "sent"
  BY <1>0, <1>2 DEF PutsKept
<1>3. ASSUME NEW j \in Jobs, db'[j] \in {"node", "list"}
      PROVE  \E i \in DOMAIN pending'[DeviceOf(j)] : pending'[DeviceOf(j)][i].by = j
  <2>1. DeviceOf(j) \in Devices
    BY JobTypes DEF WriteInv
  <2> QED
    BY <1>0, <1>3, <2>1 DEF PutsKept
<1> QED
  BY <1>1, <1>2, <1>3, SameNode DEF PutsKept

LEMMA ShapePuts ==
    ASSUME WriteInv, PutsKept, Onward, Shape
    PROVE  PutsKept'
<1>1. CASE Rest
  BY <1>1, RestPuts
<1>2. CASE \E j \in Jobs : \E v : Reads(j, v)
  BY <1>2, ReadsPuts
<1>3. CASE \E j \in Jobs : \E w, next : Writes(j, w, next)
  BY <1>3, WritesPuts
<1>4. CASE \E d \in Devices : \E i \in DOMAIN pending[d] : Serves(d, i)
  BY <1>4, ServesPuts
<1>5. CASE \E d \in Devices : Resends(d) \/ (\E w : Leaves(d, w)) \/ Drops(d)
  BY <1>5, ResendsPuts, LeavesPuts, DropsPuts
<1> QED
  BY <1>1, <1>2, <1>3, <1>4, <1>5 DEF Shape

\* Job j was on its user node before, and its write is still queued if it was.
StaysOn(j) == OnNode(j)' => OnNode(j) /\ (db[j] = "node" => db'[j] = "node")

LEMMA StaysTurns ==
    ASSUME NodeTurns, Onward, NEW j \in Jobs, NEW k \in Jobs, StaysOn(j), StaysOn(k),
           j # k, OnNode(j)', OnNode(k)', NodeOf(j)' = NodeOf(k)', NodeOf(j)' \notin crossed'
    PROVE  DeviceOf(j)' = DeviceOf(k)' /\ (db'[j] = "node" \/ db'[k] = "node")
<1>1. /\ OnNode(j) /\ OnNode(k)
      /\ (db[j] = "node" => db'[j] = "node") /\ (db[k] = "node" => db'[k] = "node")
  BY DEF StaysOn
<1>2. db[j] # "none" /\ db[k] # "none"
  BY <1>1 DEF OnNode
<1>3. NodeOf(j) = NodeOf(k) /\ NodeOf(j) \notin crossed
  BY <1>2, SameNode DEF Onward
<1>4. DeviceOf(j) = DeviceOf(k) /\ (db[j] = "node" \/ db[k] = "node")
  BY <1>1, <1>3 DEF NodeTurns
<1> QED
  BY <1>1, <1>4, SameNode

\* A job that starts is in nobody's way, or its user node is crossed.
LEMMA StartsTurns ==
    ASSUME Onward, NEW j \in Jobs, NEW k \in Jobs, StaysOn(k), j # k,
           OnNode(j)', NodeOf(j)' \in crossed' \/ ~InTheWay(j, NodeOf(j)', DeviceOf(j)),
           OnNode(k)', NodeOf(j)' = NodeOf(k)', NodeOf(j)' \notin crossed'
    PROVE  DeviceOf(j)' = DeviceOf(k)' /\ db'[k] = "node"
<1>1. PICK u : u = NodeOf(j)'
  OBVIOUS
<1>2. ~InTheWay(j, u, DeviceOf(j))
  BY <1>1
<1>3. OnNode(k) /\ (db[k] = "node" => db'[k] = "node")
  BY DEF StaysOn
<1>4. db[k] # "none"
  BY <1>3 DEF OnNode
<1>5. NodeOf(k) = u
  BY <1>1, <1>4, SameNode
<1>6. db[k] = "node" /\ DeviceOf(k) = DeviceOf(j)
  BY <1>2, <1>3, <1>5 DEF InTheWay
<1> QED
  BY <1>3, <1>6, SameNode

LEMMA StartsOrStays ==
    ASSUME Onward, NEW j \in Jobs, Rests(j)
    PROVE  \/ StaysOn(j)
           \/ /\ db[j] = "none" /\ db'[j] # "none"
              /\ OnNode(j)' => NodeOf(j)' \in crossed' \/ ~InTheWay(j, NodeOf(j)', DeviceOf(j))
BY DEF Rests, StaysOn, OnNode, Onward

LEMMA RestTurns ==
    ASSUME NodeTurns, Onward, Rest
    PROVE  NodeTurns'
<1>1. SUFFICES ASSUME NEW j \in Jobs, NEW k \in Jobs, j # k, OnNode(j)', OnNode(k)',
                      NodeOf(j)' = NodeOf(k)', NodeOf(j)' \notin crossed'
               PROVE  DeviceOf(j)' = DeviceOf(k)' /\ (db'[j] = "node" \/ db'[k] = "node")
  BY DEF NodeTurns
<1>2. Rests(j) /\ Rests(k)
  BY DEF Rest
<1>3. CASE StaysOn(j) /\ StaysOn(k)
  BY <1>1, <1>3, StaysTurns
<1>4. CASE ~StaysOn(j)
  <2>1. /\ db[j] = "none" /\ db'[j] # "none"
        /\ NodeOf(j)' \in crossed' \/ ~InTheWay(j, NodeOf(j)', DeviceOf(j))
    BY <1>1, <1>2, <1>4, StartsOrStays
  <2>2. StaysOn(k)
    <3>1. ~(db[k] = "none" /\ db'[k] # "none")
      BY <1>1, <2>1 DEF Rest
    <3> QED
      BY <1>2, <3>1, StartsOrStays
  <2> QED
    BY <1>1, <2>1, <2>2, StartsTurns
<1>5. CASE ~StaysOn(k)
  <2>1. /\ db[k] = "none" /\ db'[k] # "none"
        /\ NodeOf(k)' \in crossed' \/ ~InTheWay(k, NodeOf(k)', DeviceOf(k))
    BY <1>1, <1>2, <1>5, StartsOrStays
  <2>2. StaysOn(j)
    <3>1. ~(db[j] = "none" /\ db'[j] # "none")
      BY <1>1, <2>1 DEF Rest
    <3> QED
      BY <1>2, <3>1, StartsOrStays
  <2>3. NodeOf(k)' = NodeOf(j)' /\ NodeOf(k)' \notin crossed'
    BY <1>1
  <2>4. DeviceOf(k)' = DeviceOf(j)' /\ db'[j] = "node"
    BY <1>1, <2>1, <2>2, <2>3, StartsTurns
  <2> QED
    BY <2>4
<1> QED
  BY <1>3, <1>4, <1>5

LEMMA ShapeTurns ==
    ASSUME WriteInv, KindsMatch, NodeTurns, Onward, Shape
    PROVE  NodeTurns'
<1>0. db \in [Jobs -> DbStages] /\ UNCHANGED form /\ Attempts \cap Products = {}
  BY AccountAssumption DEF Onward, WriteInv, TypeInv, AccountTypeOK
<1>1. CASE Rest
  BY <1>1, RestTurns
<1>2. ASSUME \A j \in Jobs : StaysOn(j)
      PROVE  NodeTurns'
  BY <1>2, StaysTurns DEF NodeTurns
<1>3. ASSUME NEW j \in Jobs, NEW v, Reads(j, v)
      PROVE  NodeTurns'
  <2>1. /\ db[j] = "asked" \/ db[j] = "listAsked"
        /\ db' = [db EXCEPT ![j] = IF db[j] = "asked" THEN "raised" ELSE "listRaised"]
    BY <1>3 DEF Reads
  <2>2. \A k \in Jobs : StaysOn(k)
    BY <1>0, <2>1 DEF StaysOn, OnNode
  <2> QED
    BY <1>2, <2>2
<1>4. ASSUME NEW j \in Jobs, NEW w, NEW next, Writes(j, w, next)
      PROVE  NodeTurns'
  <2>1. /\ db' = [db EXCEPT ![j] = next]
        /\ \/ next = "node" /\ j \in Attempts /\ form[j].way # "login" /\ db[j] \in {"free", "raised"}
           \/ next = "node" /\ j \in Products /\ db[j] = "raised"
           \/ next = "list" /\ j \in Attempts /\ db[j] = "listRaised"
    BY <1>4 DEF Writes, Vacant
  <2>2. \A k \in Jobs : StaysOn(k)
    BY <1>0, <2>1 DEF StaysOn, OnNode
  <2> QED
    BY <1>2, <2>2
<1>5. ASSUME UNCHANGED db
      PROVE  NodeTurns'
  <2>1. \A k \in Jobs : StaysOn(k)
    BY <1>0, <1>5 DEF StaysOn, OnNode
  <2> QED
    BY <1>2, <2>1
<1>6. ASSUME NEW d \in Devices, NEW w, Leaves(d, w)
      PROVE  NodeTurns'
  <2>1. /\ w.by \in Jobs
        /\ db' = [db EXCEPT ![w.by] = IF w.fate = "denied" THEN "failed"
                                      ELSE IF w.by \in Attempts /\ w.node # UsersNode
                                      THEN "listAsked" ELSE "done"]
    BY <1>6, Queued DEF Leaves
  <2>2. \A k \in Jobs : StaysOn(k)
    BY <1>0, <2>1 DEF StaysOn, OnNode
  <2> QED
    BY <1>2, <2>2
<1>7. ASSUME NEW d \in Devices, Drops(d)
      PROVE  NodeTurns'
  <2>1. \A j \in Jobs : db'[j] = db[j] \/ (db[j] \in {"node", "list"} /\ db'[j] = "dead")
    BY <1>7 DEF Drops
  <2>2. \A k \in Jobs : StaysOn(k)
    BY <1>0, <2>1 DEF StaysOn, OnNode
  <2> QED
    BY <1>2, <2>2
<1> QED
  BY <1>1, <1>3, <1>4, <1>5, <1>6, <1>7 DEF Shape, Serves, Resends

LEMMA NextNodeInv == NodeInv /\ [Next]_vars => NodeInv' /\ Onward /\ Shape
<1> SUFFICES ASSUME NodeInv, [Next]_vars
             PROVE  NodeInv' /\ Onward /\ Shape
  OBVIOUS
<1>1. WriteInv /\ KindsMatch /\ PutsKept /\ NodeTurns
  BY DEF NodeInv
<1> HIDE DEF WriteInv, KindsMatch, PutsKept, NodeTurns, Next, Shape, Onward
<1>2. WriteInv'
  BY <1>1, NextWriteInv
<1>3. Onward
  BY <1>1, NextOnward
<1>4. Shape
  BY <1>1, NextShape
<1>5. KindsMatch'
  BY <1>1, <1>3, <1>4, ShapeKinds
<1>6. PutsKept'
  BY <1>1, <1>3, <1>4, ShapePuts
<1>7. NodeTurns'
  BY <1>1, <1>3, <1>4, ShapeTurns
<1> QED
  BY <1>2, <1>3, <1>4, <1>5, <1>6, <1>7 DEF NodeInv

LEMMA InitNodeInv == Init => NodeInv
<1> SUFFICES ASSUME Init
             PROVE  NodeInv
  OBVIOUS
<1>1. WriteInv
  BY InitWriteInv
<1>2. \A j \in Jobs : db[j] = "none"
  BY DEF Init
<1>3. \A d \in Devices : DOMAIN pending[d] = {}
  <2> SUFFICES ASSUME NEW d \in Devices
               PROVE  DOMAIN pending[d] = {}
    OBVIOUS
  <2>1. pending[d] = <<>>
    BY DEF Init
  <2> QED
    BY <2>1
<1>4. KindsMatch
  BY <1>2 DEF KindsMatch, Jobs
<1>5. PutsKept
  BY <1>2, <1>3 DEF PutsKept
<1>6. NodeTurns
  BY <1>2 DEF NodeTurns, OnNode
<1> QED
  BY <1>1, <1>4, <1>5, <1>6 DEF NodeInv

-----------------------------------------------------------------------------
(* Products stay *)

\* A node that is not there lists nothing.
AbsentEmpty == \A u \in Users : tree[u].there \/ Elements(tree[u].list) = {}

\* Write i of device d's queue, to user node u: the later ones hold what it does,
\* and it or one of them what the server has.
GrowsAt(u, d, i) ==
    /\ \E k \in DOMAIN pending[d] :
          /\ i <= k /\ pending[d][k].node = u
          /\ Elements(tree[u].list) \subseteq Elements(pending[d][k].val.list)
    /\ \A k \in DOMAIN pending[d] : i <= k /\ pending[d][k].node = u =>
          Elements(pending[d][i].val.list) \subseteq Elements(pending[d][k].val.list)

PutsGrow == \A u \in Users \ crossed : \A d \in Devices : \A i \in DOMAIN pending[d] :
    pending[d][i].node = u => GrowsAt(u, d, i)

\* Unless crossed, what a publication has read holds what the server and the
\* queued writes do.
Covers(s, u) ==
    /\ Elements(tree[u].list) \subseteq Elements(s)
    /\ \A d \in Devices : \A i \in DOMAIN pending[d] :
          pending[d][i].node = u => Elements(pending[d][i].val.list) \subseteq Elements(s)

SnapsHold == \A j \in Products :
    db[j] = "raised" /\ NodeOf(j) \notin crossed => Covers(snap[j].list, NodeOf(j))

\* Unless crossed, an address found free has no products anywhere.
Bare(u) ==
    /\ Elements(tree[u].list) = {}
    /\ \A d \in Devices : \A i \in DOMAIN pending[d] : pending[d][i].node # u

VacantAlone == \A a \in Attempts : Vacant(a) /\ NodeOf(a) \notin crossed => Bare(NodeOf(a))

ProductsInv == NodeInv /\ AbsentEmpty /\ PutsGrow /\ SnapsHold /\ VacantAlone

\* A queued write of a user node, and the one device such writes are on.
LEMMA NodePut ==
    ASSUME NodeInv, NEW d \in Devices, NEW i \in DOMAIN pending[d],
           pending[d][i].node \in Users
    PROVE  /\ OnNode(pending[d][i].by) /\ NodeOf(pending[d][i].by) = pending[d][i].node
           /\ db[pending[d][i].by] = "node" /\ pending[d][i].val.there
<1>1. PICK w : w = pending[d][i]
  OBVIOUS
<1>2. w.by \in Jobs /\ Kept(w) /\ w.node # UsersNode
  BY <1>1, Queued, AccountAssumption DEF NodeInv, PutsKept
<1>3. w.node = NodeOf(w.by) /\ db[w.by] = "node" /\ w.val.there
  BY <1>2 DEF Kept
<1>4. OnNode(w.by)
  BY <1>2, <1>3 DEF OnNode, NodeInv, KindsMatch
<1> QED
  BY <1>1, <1>3, <1>4

LEMMA PutDevice ==
    ASSUME NodeInv, NEW d \in Devices, NEW i \in DOMAIN pending[d], NEW j \in Jobs,
           pending[d][i].node \in Users, pending[d][i].node \notin crossed,
           OnNode(j), NodeOf(j) = pending[d][i].node
    PROVE  DeviceOf(j) = d
<1>1. PICK w : w = pending[d][i]
  OBVIOUS
<1>2. w.by \in Jobs /\ DeviceOf(w.by) = d /\ OnNode(w.by) /\ NodeOf(w.by) = NodeOf(j)
  BY <1>1, Queued, NodePut DEF NodeInv
<1>3. CASE w.by = j
  BY <1>2, <1>3
<1>4. CASE w.by # j
  BY <1>1, <1>2, <1>4 DEF NodeInv, NodeTurns
<1> QED
  BY <1>3, <1>4

\* The queues are as before, but for fates, or one has lost its oldest write or
\* all of them.
SamePuts(d, s) ==
    /\ \A i \in DOMAIN pending'[d] :
          /\ i \in Nat \ {0} /\ i + s \in DOMAIN pending[d]
          /\ pending'[d][i].by = pending[d][i + s].by
          /\ pending'[d][i].node = pending[d][i + s].node
          /\ pending'[d][i].val = pending[d][i + s].val
    /\ \A i \in DOMAIN pending[d] : i > s => i \in Nat /\ i - s \in DOMAIN pending'[d]

Thins == \A d \in Devices : SamePuts(d, 0) \/ SamePuts(d, 1) \/ DOMAIN pending'[d] = {}

LEMMA UnchangedThins ==
    ASSUME WriteInv, NEW d \in Devices, DOMAIN pending'[d] = DOMAIN pending[d],
           \A i \in DOMAIN pending[d] : /\ pending'[d][i].by = pending[d][i].by
                                        /\ pending'[d][i].node = pending[d][i].node
                                        /\ pending'[d][i].val = pending[d][i].val
    PROVE  SamePuts(d, 0)
<1>1. \A i \in DOMAIN pending[d] : i \in Nat \ {0} /\ i + 0 = i /\ i - 0 = i
  BY Queued
<1> QED
  BY <1>1 DEF SamePuts

LEMMA ShapeThins ==
    ASSUME WriteInv, Shape
    PROVE  Thins \/ \E j \in Jobs : \E w, next : Writes(j, w, next)
<1>1. ASSUME NEW d \in Devices, pending'[d] = pending[d]
      PROVE  SamePuts(d, 0)
  BY <1>1, UnchangedThins
<1>2. CASE Rest \/ \E j \in Jobs : \E v : Reads(j, v)
  BY <1>1, <1>2 DEF Rest, Reads, Thins
<1>3. \A w \in AccountWrites : \A f : LET y == [w EXCEPT !.fate = f] IN
          y.by = w.by /\ y.node = w.node /\ y.val = w.val
  BY DEF AccountWrites
<1>4. ASSUME NEW d \in Devices, NEW i \in DOMAIN pending[d], Serves(d, i)
      PROVE  Thins
  <2>1. \A k \in DOMAIN pending[d] : /\ pending'[d][k].by = pending[d][k].by
                                     /\ pending'[d][k].node = pending[d][k].node
                                     /\ pending'[d][k].val = pending[d][k].val
    <3> SUFFICES ASSUME NEW k \in DOMAIN pending[d]
                 PROVE  /\ pending'[d][k].by = pending[d][k].by
                        /\ pending'[d][k].node = pending[d][k].node
                        /\ pending'[d][k].val = pending[d][k].val
      OBVIOUS
    <3>1. CASE k # i
      BY <1>4, <3>1 DEF Serves
    <3>2. CASE k = i
      <4>1. PICK f : f = IF pending[d][i].by \in denied THEN "denied" ELSE "ok"
        OBVIOUS
      <4>2. pending'[d][i] = [pending[d][i] EXCEPT !.fate = f] /\ pending[d][i] \in AccountWrites
        BY <1>4, <4>1, Queued DEF Serves
      <4> QED
        BY <1>3, <3>2, <4>2
    <3> QED
      BY <3>1, <3>2
  <2>2. SamePuts(d, 0)
    BY <1>4, <2>1, UnchangedThins DEF Serves
  <2> QED
    BY <1>1, <1>4, <2>2 DEF Serves, Thins
<1>5. ASSUME NEW d \in Devices, Resends(d)
      PROVE  Thins
  <2>1. PICK kept \in Nat : \A i \in DOMAIN pending[d] : pending'[d][i] =
            IF i <= kept THEN pending[d][i] ELSE [pending[d][i] EXCEPT !.fate = "sent"]
    BY <1>5 DEF Resends
  <2>2. \A k \in DOMAIN pending[d] : /\ pending'[d][k].by = pending[d][k].by
                                     /\ pending'[d][k].node = pending[d][k].node
                                     /\ pending'[d][k].val = pending[d][k].val
    <3> SUFFICES ASSUME NEW k \in DOMAIN pending[d]
                 PROVE  /\ pending'[d][k].by = pending[d][k].by
                        /\ pending'[d][k].node = pending[d][k].node
                        /\ pending'[d][k].val = pending[d][k].val
      OBVIOUS
    <3>1. pending[d][k] \in AccountWrites
      BY Queued
    <3>2. PICK w : w = pending[d][k]
      OBVIOUS
    <3>3. PICK y : y = pending'[d][k]
      OBVIOUS
    <3>4. y = w \/ y = [w EXCEPT !.fate = "sent"]
      BY <2>1, <3>2, <3>3
    <3>5. y.by = w.by /\ y.node = w.node /\ y.val = w.val
      BY <3>1, <3>2, <3>4 DEF AccountWrites
    <3> QED
      BY <3>2, <3>3, <3>5
  <2>3. SamePuts(d, 0)
    BY <1>5, <2>2, UnchangedThins DEF Resends
  <2> QED
    BY <1>1, <1>5, <2>3 DEF Resends, Thins
<1>6. ASSUME NEW d \in Devices, NEW w, Leaves(d, w)
      PROVE  Thins
  <2>1. SamePuts(d, 1)
    <3>1. \A i \in DOMAIN pending[d] : i > 1 => i \in Nat /\ i - 1 \in DOMAIN pending'[d]
      <4> SUFFICES ASSUME NEW i \in DOMAIN pending[d], i > 1
                   PROVE  i \in Nat /\ i - 1 \in DOMAIN pending'[d]
        OBVIOUS
      <4>1. i \in Nat
        BY Queued
      <4>2. i # 1
        BY <4>1
      <4> QED
        BY <1>6, <4>1, <4>2 DEF Leaves
    <3> QED
      BY <1>6, <3>1 DEF SamePuts, Leaves
  <2> QED
    BY <1>1, <1>6, <2>1 DEF Leaves, Thins
<1>7. ASSUME NEW d \in Devices, Drops(d)
      PROVE  Thins
  <2>1. DOMAIN pending'[d] = {}
    BY <1>7 DEF Drops
  <2> QED
    BY <1>1, <1>7, <2>1 DEF Drops, Thins
<1> QED
  BY <1>2, <1>4, <1>5, <1>6, <1>7 DEF Shape

\* A write in a thinned queue was there before, in its place.
LEMMA ThinsFrom ==
    ASSUME Thins, NEW d \in Devices
    PROVE  \A i \in DOMAIN pending'[d] : \E k \in DOMAIN pending[d] :
              /\ pending'[d][i].by = pending[d][k].by
              /\ pending'[d][i].node = pending[d][k].node
              /\ pending'[d][i].val = pending[d][k].val
BY DEF Thins, SamePuts

LEMMA ThinsGrow ==
    ASSUME WriteInv, PutsGrow, Thins, crossed \subseteq crossed', UNCHANGED tree
    PROVE  PutsGrow'
<1>1. SUFFICES ASSUME NEW u \in Users \ crossed, NEW d \in Devices,
                      NEW i \in DOMAIN pending'[d], pending'[d][i].node = u
               PROVE  GrowsAt(u, d, i)'
  BY DEF PutsGrow
<1>2. PICK s \in {0, 1} : SamePuts(d, s)
  BY <1>1 DEF Thins
<1>3. \A k \in DOMAIN pending'[d] :
          /\ k \in Nat \ {0} /\ k + s \in DOMAIN pending[d]
          /\ pending'[d][k].node = pending[d][k + s].node
          /\ pending'[d][k].val = pending[d][k + s].val
  BY <1>2 DEF SamePuts
<1>4. PICK x : x = i + s
  OBVIOUS
<1>5. /\ x \in DOMAIN pending[d] /\ pending[d][x].node = u
      /\ pending'[d][i].val = pending[d][x].val /\ i \in Nat \ {0}
  BY <1>1, <1>3, <1>4
<1>0. GrowsAt(u, d, x)
  BY <1>1, <1>5 DEF PutsGrow
<1>6. PICK k \in DOMAIN pending[d] :
          /\ x <= k /\ pending[d][k].node = u
          /\ Elements(tree[u].list) \subseteq Elements(pending[d][k].val.list)
  BY <1>0 DEF GrowsAt
<1>7. \E m \in DOMAIN pending'[d] :
          /\ i <= m /\ pending'[d][m].node = u
          /\ Elements(tree[u].list) \subseteq Elements(pending'[d][m].val.list)
  <2>1. PICK m : m = k - s
    OBVIOUS
  <2>2. k \in Nat /\ s \in {0, 1}
    BY Queued
  <2>3. k > s /\ m + s = k /\ i <= m /\ m \in Nat
    BY <1>4, <1>5, <1>6, <2>1, <2>2
  <2>4. m \in DOMAIN pending'[d]
    BY <1>2, <2>1, <2>3 DEF SamePuts
  <2>5. pending'[d][m].node = pending[d][k].node /\ pending'[d][m].val = pending[d][k].val
    BY <1>3, <2>3, <2>4
  <2> QED
    BY <1>6, <2>3, <2>4, <2>5
<1>8. ASSUME NEW m \in DOMAIN pending'[d], i <= m, pending'[d][m].node = u
      PROVE  Elements(pending'[d][i].val.list) \subseteq Elements(pending'[d][m].val.list)
  <2>1. PICK y : y = m + s
    OBVIOUS
  <2>2. /\ y \in DOMAIN pending[d] /\ pending[d][y].node = u
        /\ pending'[d][m].val = pending[d][y].val /\ m \in Nat
    BY <1>3, <1>8, <2>1
  <2>3. x <= y
    BY <1>2, <1>4, <1>5, <1>8, <2>1, <2>2
  <2>4. Elements(pending[d][x].val.list) \subseteq Elements(pending[d][y].val.list)
    BY <1>0, <2>2, <2>3 DEF GrowsAt
  <2> QED
    BY <1>5, <2>2, <2>4
<1> QED
  BY <1>7, <1>8 DEF GrowsAt

\* A user node is performed from a queue that holds at least as much.
LEMMA ServesGrow ==
    ASSUME NodeInv, PutsGrow, Thins, UNCHANGED crossed,
           NEW d0 \in Devices, NEW i0 \in DOMAIN pending[d0], Serves(d0, i0)
    PROVE  PutsGrow'
<1>0. PICK w : w = pending[d0][i0]
  OBVIOUS
<1>1. /\ \A d \in Devices : DOMAIN pending'[d] = DOMAIN pending[d]
      /\ tree' = IF w.by \in denied THEN tree ELSE [tree EXCEPT ![w.node] = w.val]
      /\ w \in AccountWrites /\ i0 \in Nat /\ tree \in [Paths -> Entry]
  BY <1>0, Queued DEF Serves, NodeInv, WriteInv, TypeInv, AccountTypeOK
<1>2. \A d \in Devices : \A i \in DOMAIN pending[d] :
          pending'[d][i].node = pending[d][i].node /\ pending'[d][i].val = pending[d][i].val
  <2> SUFFICES ASSUME NEW d \in Devices, NEW i \in DOMAIN pending[d]
               PROVE  /\ pending'[d][i].node = pending[d][i].node
                      /\ pending'[d][i].val = pending[d][i].val
    OBVIOUS
  <2>1. CASE d # d0 \/ i # i0
    BY <2>1 DEF Serves
  <2>2. CASE d = d0 /\ i = i0
    <3>1. PICK f : pending'[d0][i0] = [w EXCEPT !.fate = f]
      BY <1>0 DEF Serves
    <3> QED
      BY <1>0, <1>1, <2>2, <3>1 DEF AccountWrites
  <2> QED
    BY <2>1, <2>2
<1>3. SUFFICES ASSUME NEW u \in Users \ crossed, NEW d \in Devices,
                      NEW i \in DOMAIN pending[d], pending[d][i].node = u
               PROVE  GrowsAt(u, d, i)'
  BY <1>1, <1>2 DEF PutsGrow
<1>7. GrowsAt(u, d, i)
  BY <1>3 DEF PutsGrow
<1>4. \A k \in DOMAIN pending[d] : i <= k /\ pending[d][k].node = u =>
          Elements(pending[d][i].val.list) \subseteq Elements(pending[d][k].val.list)
  BY <1>7 DEF GrowsAt
<1>5. \E k \in DOMAIN pending[d] :
          /\ i <= k /\ pending[d][k].node = u
          /\ Elements(tree'[u].list) \subseteq Elements(pending[d][k].val.list)
  <2>1. CASE tree'[u] = tree[u]
    BY <1>7, <2>1 DEF GrowsAt
  <2>2. CASE tree'[u] # tree[u]
    <3>1. w.node = u /\ tree'[u] = w.val
      BY <1>1, <1>3, <2>2 DEF AccountWrites, Paths
    <3>2. w.by \in Jobs /\ OnNode(w.by) /\ NodeOf(w.by) = u /\ DeviceOf(w.by) = d0
      BY <1>0, <1>3, <3>1, NodePut, Queued DEF NodeInv
    <3>3. d = d0
      BY <1>3, <3>2, PutDevice
    <3>4. i \in Nat
      BY Queued DEF NodeInv
    <3>5. CASE i <= i0
      BY <1>0, <3>1, <3>3, <3>5
    <3>6. CASE ~(i <= i0)
      <4>1. i0 <= i /\ i <= i
        BY <1>1, <3>4, <3>6
      <4>2. Elements(w.val.list) \subseteq Elements(pending[d][i].val.list)
        <5>1. GrowsAt(w.node, d0, i0)
          BY <1>0, <1>3, <3>1 DEF PutsGrow
        <5> QED
          BY <1>0, <1>3, <3>1, <3>3, <4>1, <5>1 DEF GrowsAt
      <4> QED
        BY <1>3, <3>1, <4>1, <4>2
    <3> QED
      BY <3>5, <3>6
  <2> QED
    BY <2>1, <2>2
<1> QED
  BY <1>1, <1>2, <1>3, <1>4, <1>5 DEF GrowsAt

\* The job of a write to a user node had read all there is.
LEMMA WriterCovers ==
    ASSUME ProductsInv, NEW j \in Jobs, NEW w, NEW next, Writes(j, w, next),
           w.node \in Users, w.node \notin crossed
    PROVE  /\ next = "node" /\ w.node = NodeOf(j) /\ OnNode(j) /\ db[j] \in {"raised", "free"}
           /\ Covers(w.val.list, w.node)
<1>1. w.node # UsersNode
  BY AccountAssumption
<1>2. /\ next = "node" /\ w.node = NodeOf(j)
      /\ \/ Vacant(j)
         \/ j \in Products /\ db[j] = "raised" /\ w.val.list = Append(snap[j].list, j)
  BY <1>1 DEF Writes
<1>3. OnNode(j) /\ db[j] \in {"raised", "free"}
  BY <1>2, AccountAssumption DEF OnNode, Vacant
<1>4. CASE Vacant(j)
  <2>1. Bare(NodeOf(j))
    BY <1>2, <1>4 DEF ProductsInv, VacantAlone, Vacant
  <2> QED
    BY <1>2, <1>3, <2>1 DEF Bare, Covers
<1>5. CASE j \in Products /\ db[j] = "raised" /\ w.val.list = Append(snap[j].list, j)
  <2>1. Covers(snap[j].list, NodeOf(j))
    BY <1>2, <1>5 DEF ProductsInv, SnapsHold
  <2>2. snap[j].list \in Seq(Products \cup Users)
    BY DEF ProductsInv, NodeInv, WriteInv, TypeInv, AccountTypeOK, Entry
  <2>3. Elements(snap[j].list) \subseteq Elements(w.val.list)
    BY <1>5, <2>2, AppendElements
  <2> QED
    BY <1>2, <1>3, <2>1, <2>3 DEF Covers
<1> QED
  BY <1>2, <1>4, <1>5

LEMMA WritesGrow ==
    ASSUME ProductsInv, NEW j \in Jobs, NEW w, NEW next, Writes(j, w, next)
    PROVE  PutsGrow'
<1>0. DeviceOf(j) \in Devices /\ UNCHANGED <<tree, crossed>>
  BY JobTypes DEF ProductsInv, NodeInv, WriteInv, Writes
<1>1. PICK d0 \in Devices : d0 = DeviceOf(j)
  BY <1>0
<1>2. PICK n : n = Len(pending[d0])
  OBVIOUS
<1>3. /\ n \in Nat /\ DOMAIN pending[d0] = 1..n /\ DOMAIN pending'[d0] = 1..(n + 1)
      /\ \A i \in 1..n : pending'[d0][i] = pending[d0][i]
      /\ pending'[d0][n + 1] = w
      /\ \A e \in Devices : e # d0 => pending'[e] = pending[e]
  BY <1>1, <1>2 DEF Writes, Entered
<1>4. SUFFICES ASSUME NEW u \in Users \ crossed, NEW d \in Devices,
                      NEW i \in DOMAIN pending'[d], pending'[d][i].node = u
               PROVE  GrowsAt(u, d, i)'
  BY <1>0 DEF PutsGrow
<1>5. CASE d # d0
  <2>1. pending'[d] = pending[d]
    BY <1>3, <1>5
  <2> QED
    <3>1. GrowsAt(u, d, i)
      BY <1>4, <2>1 DEF ProductsInv, PutsGrow
    <3> QED
      BY <1>0, <2>1, <3>1 DEF GrowsAt
<1>6. CASE d = d0 /\ i = n + 1
  <2>1. w.node = u /\ pending'[d][i] = w
    BY <1>3, <1>4, <1>6
  <2>2. Covers(w.val.list, u)
    BY <1>4, <2>1, WriterCovers
  <2>3. \A k \in DOMAIN pending'[d] : i <= k => k = i
    BY <1>3, <1>6
  <2>4. i \in DOMAIN pending'[d] /\ i <= i
    BY <1>3, <1>6
  <2> QED
    BY <1>0, <2>1, <2>2, <2>3, <2>4 DEF Covers, GrowsAt
<1>7. CASE d = d0 /\ i \in 1..n
  <2>1. i \in DOMAIN pending[d] /\ pending[d][i].node = u /\ pending'[d][i] = pending[d][i]
    BY <1>3, <1>4, <1>7
  <2>2. PICK k \in DOMAIN pending[d] : /\ i <= k /\ pending[d][k].node = u
            /\ Elements(tree[u].list) \subseteq Elements(pending[d][k].val.list)
    <3>1. GrowsAt(u, d, i)
      BY <1>4, <2>1 DEF ProductsInv, PutsGrow
    <3> QED
      BY <3>1 DEF GrowsAt
  <2>3. k \in DOMAIN pending'[d] /\ pending'[d][k] = pending[d][k]
    <3>1. k \in 1..n
      BY <1>3, <1>7
    <3>2. k \in 1..(n + 1)
      BY <1>3, <3>1
    <3> QED
      BY <1>3, <1>7, <3>1, <3>2
  <2>4. ASSUME NEW m \in DOMAIN pending'[d], i <= m, pending'[d][m].node = u
        PROVE  Elements(pending'[d][i].val.list) \subseteq Elements(pending'[d][m].val.list)
    <3>1. CASE m \in 1..n
      <4>1. m \in DOMAIN pending[d] /\ pending'[d][m] = pending[d][m]
        BY <1>3, <1>7, <3>1
      <4> QED
        <5>1. GrowsAt(u, d, i)
          BY <1>4, <2>1 DEF ProductsInv, PutsGrow
        <5> QED
          BY <2>1, <2>4, <4>1, <5>1 DEF GrowsAt
    <3>2. CASE m = n + 1
      <4>1. w.node = u /\ pending'[d][m] = w
        BY <1>3, <1>7, <2>4, <3>2
      <4>2. Covers(w.val.list, u)
        BY <1>4, <4>1, WriterCovers
      <4> QED
        BY <2>1, <4>1, <4>2 DEF Covers
    <3> QED
      BY <1>3, <1>7, <3>1, <3>2
  <2> QED
    BY <1>0, <2>2, <2>3, <2>4 DEF GrowsAt
<1> QED
  BY <1>3, <1>5, <1>6, <1>7

LEMMA ShapeGrow ==
    ASSUME ProductsInv, Onward, Shape
    PROVE  PutsGrow'
<1>0. WriteInv /\ NodeInv /\ PutsGrow /\ crossed \subseteq crossed'
  BY DEF ProductsInv, NodeInv, Onward
<1>1. CASE \E j \in Jobs : \E w, next : Writes(j, w, next)
  BY <1>1, WritesGrow
<1>2. CASE Thins /\ UNCHANGED tree
  BY <1>0, <1>2, ThinsGrow
<1>3. CASE Thins /\ \E d \in Devices : \E i \in DOMAIN pending[d] : Serves(d, i)
  BY <1>0, <1>3, ServesGrow DEF Serves
<1>4. Thins \/ \E j \in Jobs : \E w, next : Writes(j, w, next)
  BY <1>0, ShapeThins
<1>5. \/ UNCHANGED tree
      \/ \E d \in Devices : \E i \in DOMAIN pending[d] : Serves(d, i)
  BY DEF Shape, Rest, Reads, Writes, Resends, Leaves, Drops
<1> QED
  BY <1>1, <1>2, <1>3, <1>4, <1>5

\* What a node lists is taken from a queued write, or as it was.
LEMMA TreeFrom ==
    ASSUME NodeInv, Shape, NEW u \in Paths
    PROVE  \/ tree'[u] = tree[u]
           \/ \E d \in Devices : \E i \in DOMAIN pending[d] :
                 /\ pending[d][i].node = u /\ tree'[u] = pending[d][i].val
                 /\ pending[d][i].fate = "sent" /\ Serves(d, i)
<1>1. CASE UNCHANGED tree
  BY <1>1
<1>2. ASSUME NEW d \in Devices, NEW i \in DOMAIN pending[d], Serves(d, i), tree'[u] # tree[u]
      PROVE  /\ pending[d][i].node = u /\ tree'[u] = pending[d][i].val
             /\ pending[d][i].fate = "sent"
  <2>1. PICK w : w = pending[d][i]
    OBVIOUS
  <2>2. /\ tree' = IF w.by \in denied THEN tree ELSE [tree EXCEPT ![w.node] = w.val]
        /\ w.fate = "sent"
    BY <1>2, <2>1 DEF Serves
  <2>3. tree \in [Paths -> Entry]
    BY DEF NodeInv, WriteInv, TypeInv, AccountTypeOK
  <2> QED
    BY <1>2, <2>1, <2>2, <2>3
<1>3. \/ UNCHANGED tree
      \/ \E d \in Devices : \E i \in DOMAIN pending[d] : Serves(d, i)
  BY DEF Shape, Rest, Reads, Writes, Resends, Leaves, Drops
<1> QED
  BY <1>1, <1>2, <1>3

LEMMA ShapeAbsent ==
    ASSUME NodeInv, AbsentEmpty, Shape
    PROVE  AbsentEmpty'
<1> SUFFICES ASSUME NEW u \in Users
             PROVE  tree'[u].there \/ Elements(tree'[u].list) = {}
  BY DEF AbsentEmpty
<1>1. u \in Paths
  BY DEF Paths
<1>2. CASE tree'[u] = tree[u]
  BY <1>2 DEF AbsentEmpty
<1>3. ASSUME NEW d \in Devices, NEW i \in DOMAIN pending[d],
             pending[d][i].node = u, tree'[u] = pending[d][i].val
      PROVE  tree'[u].there
  BY <1>3, NodePut
<1> QED
  BY <1>1, <1>2, <1>3, TreeFrom

\* A new write to a user node: where it was, the rest as before.
LEMMA PutsFrom ==
    ASSUME WriteInv, Shape, NEW d \in Devices, NEW i \in DOMAIN pending'[d]
    PROVE  \/ \E k \in DOMAIN pending[d] :
                 /\ pending'[d][i].by = pending[d][k].by
                 /\ pending'[d][i].node = pending[d][k].node
                 /\ pending'[d][i].val = pending[d][k].val
           \/ \E j \in Jobs : \E w, next : Writes(j, w, next) /\ pending'[d][i] = w
<1>1. CASE Thins
  BY <1>1, ThinsFrom
<1>2. ASSUME NEW j \in Jobs, NEW w, NEW next, Writes(j, w, next)
      PROVE  \/ \E k \in DOMAIN pending[d] :
                   /\ pending'[d][i].by = pending[d][k].by
                   /\ pending'[d][i].node = pending[d][k].node
                   /\ pending'[d][i].val = pending[d][k].val
             \/ pending'[d][i] = w
  <2>1. PICK d0 : d0 = DeviceOf(j)
    OBVIOUS
  <2>2. PICK n : n = Len(pending[d0])
    OBVIOUS
  <2>3. /\ n \in Nat /\ DOMAIN pending[d0] = 1..n /\ DOMAIN pending'[d0] = 1..(n + 1)
        /\ \A k \in 1..n : pending'[d0][k] = pending[d0][k]
        /\ pending'[d0][n + 1] = w
        /\ \A e \in Devices : e # d0 => pending'[e] = pending[e]
    BY <1>2, <2>1, <2>2 DEF Writes, Entered
  <2>4. CASE d # d0
    BY <2>3, <2>4
  <2>5. CASE d = d0
    <3>1. i \in 1..n \/ i = n + 1
      BY <2>3, <2>5
    <3> QED
      BY <2>3, <2>5, <3>1
  <2> QED
    BY <2>4, <2>5
<1> QED
  BY <1>1, <1>2, ShapeThins

\* Nobody else writes to a user node while j has not.
LEMMA NoOtherWriter ==
    ASSUME ProductsInv, NEW j \in Jobs, NEW k \in Jobs, NEW w, NEW next, Writes(j, w, next),
           w.node \in Users, w.node \notin crossed,
           OnNode(k), NodeOf(k) = w.node, db[k] # "node"
    PROVE  j = k
<1>1. OnNode(j) /\ NodeOf(j) = w.node /\ db[j] # "node"
  BY WriterCovers
<1> QED
  BY <1>1 DEF ProductsInv, NodeInv, NodeTurns

\* Nor is more in the queues than was read, nor on the server.
LEMMA CoversStays ==
    ASSUME ProductsInv, Onward, Shape, NEW k \in Jobs, NEW s, NEW u \in Users \ crossed,
           Covers(s, u), OnNode(k), NodeOf(k) = u, db[k] # "node", db'[k] # "node"
    PROVE  Covers(s, u)'
<1>0. /\ u \in Paths /\ NodeInv /\ WriteInv
      /\ Elements(tree[u].list) \subseteq Elements(s)
      /\ \A d \in Devices : \A i \in DOMAIN pending[d] :
            pending[d][i].node = u => Elements(pending[d][i].val.list) \subseteq Elements(s)
  BY DEF Paths, Covers, ProductsInv, NodeInv
<1>1. Elements(tree'[u].list) \subseteq Elements(s)
  BY <1>0, TreeFrom
<1>2. ASSUME NEW d \in Devices, NEW i \in DOMAIN pending'[d], pending'[d][i].node = u
      PROVE  Elements(pending'[d][i].val.list) \subseteq Elements(s)
  <2>1. ASSUME NEW j \in Jobs, NEW w, NEW next, Writes(j, w, next), pending'[d][i] = w
        PROVE  FALSE
    <3>1. j = k
      BY <1>2, <2>1, NoOtherWriter
    <3>2. next = "node"
      BY <1>2, <2>1, WriterCovers
    <3> QED
      BY <1>0, <2>1, <3>1, <3>2 DEF Writes, WriteInv, TypeInv, AccountTypeOK
  <2>2. ASSUME NEW m \in DOMAIN pending[d], pending'[d][i].node = pending[d][m].node,
               pending'[d][i].val = pending[d][m].val
        PROVE  Elements(pending'[d][i].val.list) \subseteq Elements(s)
    BY <1>0, <1>2, <2>2
  <2> QED
    BY <1>0, <2>1, <2>2, PutsFrom
<1> QED
  BY <1>1, <1>2 DEF Covers

\* What a read of a user node finds is all there is, unless the node is crossed.
LEMMA ReadsCover ==
    ASSUME ProductsInv, NEW j \in Jobs, db[j] = "asked", OnNode(j), NEW v,
           NodeOf(j) \in Users \ crossed, Sees(DeviceOf(j), NodeOf(j), v)
    PROVE  /\ Covers(v.list, NodeOf(j))
           /\ ~v.there => v = tree[NodeOf(j)] /\ Bare(NodeOf(j))
<1>0. PICK d \in Devices : d = DeviceOf(j)
  BY JobTypes DEF ProductsInv, NodeInv, WriteInv
<1>1. PICK u \in Users \ crossed : u = NodeOf(j)
  OBVIOUS
<1>2. \A e \in Devices : \A i \in DOMAIN pending[e] : pending[e][i].node = u => e = d
  BY <1>0, <1>1, PutDevice DEF ProductsInv
<1>3. Sees(d, u, v)
  BY <1>0, <1>1
<1>4. ASSUME NEW i \in PutsTo(d, u), v = pending[d][i].val, \A k \in PutsTo(d, u) : k <= i
      PROVE  Covers(v.list, u) /\ v.there
  <2>1. i \in DOMAIN pending[d] /\ pending[d][i].node = u
    BY DEF PutsTo
  <2>2. GrowsAt(u, d, i)
    BY <2>1 DEF ProductsInv, PutsGrow
  <2>3. PICK k \in DOMAIN pending[d] :
          /\ i <= k /\ pending[d][k].node = u
          /\ Elements(tree[u].list) \subseteq Elements(pending[d][k].val.list)
    BY <2>2 DEF GrowsAt
  <2>4. k \in PutsTo(d, u) /\ k \in Nat /\ i \in Nat
    BY <2>1, <2>3, Queued DEF PutsTo, ProductsInv, NodeInv
  <2>5. k = i
    BY <1>4, <2>3, <2>4
  <2>6. ASSUME NEW m \in DOMAIN pending[d], pending[d][m].node = u
        PROVE  Elements(pending[d][m].val.list) \subseteq Elements(v.list)
    <3>1. m \in PutsTo(d, u)
      BY <2>6 DEF PutsTo
    <3>2. GrowsAt(u, d, m)
      BY <2>6 DEF ProductsInv, PutsGrow
    <3> QED
      BY <1>4, <2>1, <3>1, <3>2 DEF GrowsAt
  <2>7. v.there
    BY <1>4, <2>1, NodePut DEF ProductsInv
  <2> QED
    BY <1>2, <1>4, <2>3, <2>5, <2>6, <2>7 DEF Covers
<1>5. ASSUME PutsTo(d, u) = {}, v = tree[u]
      PROVE  Covers(v.list, u) /\ (~v.there => Bare(u))
  <2>1. \A i \in DOMAIN pending[d] : pending[d][i].node # u
    BY <1>5 DEF PutsTo
  <2>2. \A e \in Devices : \A i \in DOMAIN pending[e] : pending[e][i].node # u
    BY <1>2, <2>1
  <2>3. ~v.there => Elements(tree[u].list) = {}
    BY <1>5 DEF ProductsInv, AbsentEmpty
  <2> QED
    BY <1>5, <2>2, <2>3 DEF Covers, Bare
<1> QED
  BY <1>1, <1>3, <1>4, <1>5 DEF Sees

\* Where a snapshot of a user node, and an address found free, come from.
LEMMA RaisedFrom ==
    ASSUME WriteInv, KindsMatch, Shape, NEW j \in Jobs, db'[j] \in {"raised", "listRaised"}
    PROVE  \/ db[j] = db'[j] /\ snap'[j] = snap[j]
           \/ \E v : /\ Reads(j, v) /\ snap'[j] = v
                     /\ db[j] = IF db'[j] = "raised" THEN "asked" ELSE "listAsked"
<1>0. db \in [Jobs -> DbStages] /\ snap \in [Jobs -> Entry]
  BY DEF WriteInv, TypeInv, AccountTypeOK
<1>1. CASE Rest
  BY <1>1 DEF Rest, Rests
<1>2. ASSUME NEW k \in Jobs, NEW v, Reads(k, v)
      PROVE  \/ db[j] = db'[j] /\ snap'[j] = snap[j]
             \/ /\ Reads(j, v) /\ snap'[j] = v
                /\ db[j] = IF db'[j] = "raised" THEN "asked" ELSE "listAsked"
  <2>1. CASE k = j
    BY <1>0, <1>2, <2>1 DEF Reads
  <2>2. CASE k # j
    BY <1>0, <1>2, <2>2 DEF Reads
  <2> QED
    BY <2>1, <2>2
<1>3. ASSUME NEW k \in Jobs, NEW w, NEW next, Writes(k, w, next)
      PROVE  db[j] = db'[j] /\ snap'[j] = snap[j]
  <2>1. next \in {"node", "list"} /\ db' = [db EXCEPT ![k] = next]
    BY <1>3 DEF Writes
  <2>2. j # k
    BY <1>0, <2>1
  <2> QED
    BY <1>0, <1>3, <2>1, <2>2 DEF Writes
<1>4. CASE UNCHANGED <<db, snap>>
  BY <1>4
<1>5. ASSUME NEW d \in Devices, NEW w, Leaves(d, w)
      PROVE  db[j] = db'[j] /\ snap'[j] = snap[j]
  <2>1. /\ w.by \in Jobs /\ UNCHANGED snap
        /\ db' = [db EXCEPT ![w.by] = IF w.fate = "denied" THEN "failed"
                                      ELSE IF w.by \in Attempts /\ w.node # UsersNode
                                      THEN "listAsked" ELSE "done"]
    BY <1>5, Queued DEF Leaves
  <2> QED
    BY <1>0, <2>1
<1>6. ASSUME NEW d \in Devices, Drops(d)
      PROVE  db[j] = db'[j] /\ snap'[j] = snap[j]
  BY <1>0, <1>6 DEF Drops
<1> QED
  BY <1>1, <1>2, <1>3, <1>4, <1>5, <1>6 DEF Shape, Serves, Resends

LEMMA ShapeSnaps ==
    ASSUME ProductsInv, Onward, Shape
    PROVE  SnapsHold'
<1> SUFFICES ASSUME NEW j \in Products, db'[j] = "raised", NodeOf(j)' \notin crossed'
             PROVE  Covers(snap[j].list, NodeOf(j))'
  BY DEF SnapsHold
<1>0. j \in Jobs /\ j \notin Attempts /\ WriteInv /\ KindsMatch
  BY AccountAssumption DEF Jobs, ProductsInv, NodeInv
<1>1. CASE db[j] = "raised" /\ snap'[j] = snap[j]
  <2>1. NodeOf(j)' = NodeOf(j) /\ NodeOf(j) \in Users \ crossed
    BY <1>0, <1>1, SameNode, JobTypes DEF WriteInv, Onward
  <2>2. PICK u \in Users \ crossed : u = NodeOf(j)
    BY <2>1
  <2>3. PICK s : s = snap[j].list
    OBVIOUS
  <2>4. Covers(s, u)
    BY <1>1, <2>2, <2>3 DEF ProductsInv, SnapsHold
  <2>5. OnNode(j) /\ NodeOf(j) = u /\ db[j] # "node" /\ db'[j] # "node"
    BY <1>0, <1>1, <2>2 DEF OnNode
  <2>6. Covers(s, u)'
    BY <1>0, <2>4, <2>5, CoversStays
  <2>7. s = snap'[j].list /\ u = NodeOf(j)'
    BY <1>1, <2>1, <2>2, <2>3
  <2> QED
    BY <2>6, <2>7 DEF Covers
<1>2. ASSUME NEW v, Reads(j, v), snap'[j] = v, db[j] = "asked"
      PROVE  Covers(snap[j].list, NodeOf(j))'
  <2>1. NodeOf(j)' = NodeOf(j) /\ NodeOf(j) \in Users \ crossed
    BY <1>0, <1>2, SameNode, JobTypes DEF WriteInv, Onward
  <2>2. PICK u \in Users \ crossed : u = NodeOf(j)
    BY <2>1
  <2>3. OnNode(j) /\ Sees(DeviceOf(j), NodeOf(j), v)
    BY <1>0, <1>2 DEF OnNode, Reads
  <2>4. Covers(v.list, u)
    BY <1>0, <1>2, <2>1, <2>2, <2>3, ReadsCover
  <2>5. UNCHANGED <<tree, pending>>
    BY <1>2 DEF Reads
  <2>6. v.list = snap'[j].list /\ u = NodeOf(j)'
    BY <1>2, <2>1, <2>2
  <2> QED
    BY <2>4, <2>5, <2>6 DEF Covers
<1> QED
  BY <1>0, <1>1, <1>2, RaisedFrom

LEMMA VacantFrom ==
    ASSUME WriteInv, KindsMatch, Onward, Shape, NEW a \in Attempts, Vacant(a)'
    PROVE  \/ Vacant(a)
           \/ \E v : Reads(a, v) /\ db[a] = "asked" /\ ~v.there /\ form[a].way # "login"
<1>0. /\ a \in Jobs /\ UNCHANGED form /\ form[a].way # "login"
      /\ db'[a] = "free" \/ (db'[a] = "raised" /\ ~snap'[a].there)
      /\ db \in [Jobs -> DbStages]
  BY DEF Jobs, Vacant, Onward, WriteInv, TypeInv, AccountTypeOK
<1>1. CASE db'[a] = "raised"
  BY <1>0, <1>1, RaisedFrom DEF Vacant
<1>2. CASE db'[a] = "free"
  <2>1. CASE Rest
    BY <1>0, <1>2, <2>1 DEF Rest, Rests, Vacant
  <2>2. ASSUME NEW k \in Jobs, NEW v, Reads(k, v)
        PROVE  Vacant(a)
    BY <1>0, <1>2, <2>2 DEF Reads, Vacant
  <2>3. ASSUME NEW k \in Jobs, NEW w, NEW next, Writes(k, w, next)
        PROVE  Vacant(a)
    <3>1. next \in {"node", "list"} /\ db' = [db EXCEPT ![k] = next]
      BY <2>3 DEF Writes
    <3> QED
      BY <1>0, <1>2, <3>1 DEF Vacant
  <2>4. CASE UNCHANGED <<db, snap>>
    BY <1>0, <1>2, <2>4 DEF Vacant
  <2>5. ASSUME NEW d \in Devices, NEW w, Leaves(d, w)
        PROVE  Vacant(a)
    <3>1. /\ w.by \in Jobs
          /\ db' = [db EXCEPT ![w.by] = IF w.fate = "denied" THEN "failed"
                                        ELSE IF w.by \in Attempts /\ w.node # UsersNode
                                        THEN "listAsked" ELSE "done"]
      BY <2>5, Queued DEF Leaves
    <3> QED
      BY <1>0, <1>2, <3>1 DEF Vacant
  <2>6. ASSUME NEW d \in Devices, Drops(d)
        PROVE  Vacant(a)
    BY <1>0, <1>2, <2>6 DEF Drops, Vacant
  <2> QED
    BY <2>1, <2>2, <2>3, <2>4, <2>5, <2>6 DEF Shape, Serves, Resends
<1> QED
  BY <1>0, <1>1, <1>2

LEMMA ShapeVacant ==
    ASSUME ProductsInv, Onward, Shape
    PROVE  VacantAlone'
<1> SUFFICES ASSUME NEW a \in Attempts, Vacant(a)', NodeOf(a)' \notin crossed'
             PROVE  Bare(NodeOf(a))'
  BY DEF VacantAlone
<1>0. a \in Jobs /\ NodeInv /\ WriteInv /\ KindsMatch /\ PutsKept
  BY DEF Jobs, ProductsInv, NodeInv
<1>1. NodeOf(a)' = NodeOf(a) /\ NodeOf(a) \in Users \ crossed
  BY <1>0, SameNode, JobTypes DEF WriteInv, Onward
<1>2. PICK u \in Users \ crossed : u = NodeOf(a) /\ u = NodeOf(a)'
  BY <1>1
<1>3. Bare(u)'
  <2>1. CASE Vacant(a)
    <3>1. Bare(u)
      BY <1>2, <2>1 DEF ProductsInv, VacantAlone
    <3>2. OnNode(a) /\ NodeOf(a) = u /\ db[a] # "node" /\ db'[a] # "node"
      BY <1>2, <2>1 DEF OnNode, Vacant
    <3>3. tree'[u] = tree[u]
      BY <1>0, <3>1, TreeFrom DEF Bare, Paths
    <3>4. ASSUME NEW d \in Devices, NEW i \in DOMAIN pending'[d], pending'[d][i].node = u
          PROVE  FALSE
      <4>1. ASSUME NEW j \in Jobs, NEW w, NEW next, Writes(j, w, next), pending'[d][i] = w
            PROVE  FALSE
        <5>1. j = a
          BY <1>0, <3>2, <3>4, <4>1, NoOtherWriter
        <5>2. next = "node"
          BY <3>4, <4>1, WriterCovers
        <5> QED
          BY <1>0, <3>2, <4>1, <5>1, <5>2 DEF Writes, WriteInv, TypeInv, AccountTypeOK
      <4> QED
        BY <1>0, <3>1, <3>4, <4>1, PutsFrom DEF Bare
    <3> QED
      BY <3>1, <3>3, <3>4 DEF Bare
  <2>2. ASSUME NEW v, Reads(a, v), db[a] = "asked", ~v.there, form[a].way # "login"
        PROVE  Bare(u)'
    <3>1. OnNode(a) /\ Sees(DeviceOf(a), NodeOf(a), v) /\ UNCHANGED <<tree, pending>>
      BY <2>2 DEF OnNode, Reads
    <3>2. Bare(u)
      BY <1>0, <1>1, <1>2, <2>2, <3>1, ReadsCover
    <3> QED
      BY <3>1, <3>2 DEF Bare
  <2> QED
    BY <1>0, <2>1, <2>2, VacantFrom
<1> QED
  BY <1>2, <1>3 DEF Bare

LEMMA NextProductsInv == ProductsInv /\ [Next]_vars => ProductsInv'
<1> SUFFICES ASSUME ProductsInv, [Next]_vars
             PROVE  ProductsInv'
  OBVIOUS
<1>1. NodeInv /\ AbsentEmpty
  BY DEF ProductsInv
<1>2. NodeInv' /\ Onward /\ Shape
  BY <1>1, NextNodeInv
<1> HIDE DEF ProductsInv, NodeInv, AbsentEmpty, Onward, Shape, Next
<1>3. AbsentEmpty'
  BY <1>1, <1>2, ShapeAbsent
<1>4. PutsGrow' /\ SnapsHold' /\ VacantAlone'
  BY <1>2, ShapeGrow, ShapeSnaps, ShapeVacant
<1> QED
  BY <1>2, <1>3, <1>4 DEF ProductsInv

LEMMA InitProductsInv == Init => ProductsInv
<1> SUFFICES ASSUME Init
             PROVE  ProductsInv
  OBVIOUS
<1>1. NodeInv
  BY InitNodeInv
<1>2. \A j \in Jobs : db[j] = "none"
  BY DEF Init
<1>3. ASSUME NEW d \in Devices
      PROVE  DOMAIN pending[d] = {}
  <2>1. pending[d] = <<>>
    BY DEF Init
  <2> QED
    BY <2>1
<1>4. AbsentEmpty
  <2>1. PICK n \in 0..Cardinality(Emails) : \E old \in [1..n -> Emails] :
          tree = [p \in Paths |->
              IF \E i \in 1..n : safe[old[i]] = p
              THEN NewUser(old[CHOOSE i \in 1..n : safe[old[i]] = p])
              ELSE IF p = UsersNode /\ n > 0
              THEN [there |-> TRUE, list |-> [i \in 1..n |-> safe[old[i]]], name |-> NoEmail]
              ELSE NoEntry]
    BY DEF Init
  <2>2. PICK old \in [1..n -> Emails] :
          tree = [p \in Paths |->
              IF \E i \in 1..n : safe[old[i]] = p
              THEN NewUser(old[CHOOSE i \in 1..n : safe[old[i]] = p])
              ELSE IF p = UsersNode /\ n > 0
              THEN [there |-> TRUE, list |-> [i \in 1..n |-> safe[old[i]]], name |-> NoEmail]
              ELSE NoEntry]
    BY <2>1
  <2>3. ASSUME NEW u \in Users
        PROVE  tree[u].there \/ Elements(tree[u].list) = {}
    <3>1. u \in Paths /\ u # UsersNode
      BY AccountAssumption DEF Paths
    <3>2. tree[u] = NoEntry \/ \E e : tree[u] = NewUser(e)
      BY <2>2, <3>1
    <3>3. NoEntry.list = <<>> /\ \A e : NewUser(e).list = <<>>
      BY DEF NoEntry, NewUser
    <3>4. tree[u].list = <<>>
      BY <3>2, <3>3
    <3> QED
      BY <3>4 DEF Elements
  <2> QED
    BY <2>3 DEF AbsentEmpty
<1>5. PutsGrow
  BY <1>3 DEF PutsGrow
<1>6. SnapsHold /\ VacantAlone
  BY <1>2 DEF SnapsHold, VacantAlone, Vacant, Jobs
<1> QED
  BY <1>1, <1>4, <1>5, <1>6 DEF ProductsInv

\* No sign-in and no registration erases products an account has published, as
\* long as its user node is not crossed; sent again after a broken connection,
\* writes pass through old values, and the products come with a later one.
THEOREM ProductsStayCorrect == Spec => ProductsStay
<1>1. ASSUME ProductsInv, [Next]_vars
      PROVE  \A u \in Users : \A p \in Elements(tree[u].list) \ Elements(tree'[u].list) :
                \/ u \in crossed'
                \/ \E d \in Devices : \E i \in DOMAIN pending'[d] :
                      /\ pending'[d][i].node = u /\ pending'[d][i].fate = "sent"
                      /\ p \in Elements(pending'[d][i].val.list)
  <2> SUFFICES ASSUME NEW u \in Users, NEW p \in Elements(tree[u].list) \ Elements(tree'[u].list),
                      u \notin crossed'
               PROVE  \E d \in Devices : \E i \in DOMAIN pending'[d] :
                         /\ pending'[d][i].node = u /\ pending'[d][i].fate = "sent"
                         /\ p \in Elements(pending'[d][i].val.list)
    OBVIOUS
  <2>1. NodeInv /\ Onward /\ Shape
    BY <1>1, NextNodeInv DEF ProductsInv
  <2>2. u \notin crossed /\ u \in Paths
    BY <2>1 DEF Onward, Paths
  <2>3. tree'[u] # tree[u]
    OBVIOUS
  <2>4. PICK d \in Devices : \E i \in DOMAIN pending[d] :
          /\ pending[d][i].node = u /\ tree'[u] = pending[d][i].val
          /\ pending[d][i].fate = "sent" /\ Serves(d, i)
    BY <2>1, <2>2, <2>3, TreeFrom
  <2>5. PICK i \in DOMAIN pending[d] :
          /\ pending[d][i].node = u /\ tree'[u] = pending[d][i].val
          /\ pending[d][i].fate = "sent" /\ Serves(d, i)
    BY <2>4
  <2>6. GrowsAt(u, d, i)
    BY <1>1, <2>2, <2>5 DEF ProductsInv, PutsGrow
  <2>7. PICK k \in DOMAIN pending[d] :
          /\ i <= k /\ pending[d][k].node = u
          /\ Elements(tree[u].list) \subseteq Elements(pending[d][k].val.list)
    BY <2>6 DEF GrowsAt
  <2>8. i \in Nat /\ k \in Nat /\ i # k
    BY <2>1, <2>5, <2>7, Queued DEF NodeInv
  <2>9. i < k
    BY <2>7, <2>8
  <2>10. pending[d][k].fate = "sent"
    BY <2>1, <2>5, <2>9 DEF NodeInv, PutsKept
  <2>11. k \in DOMAIN pending'[d] /\ pending'[d][k] = pending[d][k]
    BY <2>5, <2>8 DEF Serves
  <2> QED
    BY <2>7, <2>10, <2>11
<1>2. ProductsInv /\ [Next]_vars =>
          (\A u \in Users : \A p \in Elements(tree[u].list) \ Elements(tree'[u].list) :
              \/ u \in crossed'
              \/ \E d \in Devices : \E i \in DOMAIN pending'[d] :
                    /\ pending'[d][i].node = u /\ pending'[d][i].fate = "sent"
                    /\ p \in Elements(pending'[d][i].val.list))
  BY <1>1
<1> QED
  BY <1>2, InitProductsInv, NextProductsInv, PTL DEF Spec, ProductsStay

-----------------------------------------------------------------------------
(* Who is signed in has a node *)

\* Attempt a is going to write its user node.
Creating(a) ==
    \/ form[a].way = "register" /\ db[a] = "free" /\ auth[a] = "granted"
    \/ form[a].way = "google" /\ db[a] \in {"asked", "raised"}

\* Auth has no part in a registration until its address is found free.
FreeFirst == \A a \in Attempts :
    form[a].way = "register" /\ db[a] \in {"none", "asked", "raised"} => auth[a] = "none"

\* The steps as far as accounts, sessions and Auth's answers go.
Answers ==
    /\ \A a \in Attempts : auth[a] \in {"lost", "dead"} => auth'[a] = auth[a]
    /\ \A a \in Attempts : form[a].way = "register" /\ auth[a] = "none" =>
          auth'[a] = "none" \/ db'[a] = "free"
    /\ \/ UNCHANGED accounts /\ \A d \in Devices : session'[d] \in {session[d], NoEmail}
       \/ \E a \in Attempts :
             /\ auth[a] = "sent" /\ Grantable(a) /\ accounts' = Granted(a)
             /\ (auth'[a] = "granted" /\ db'[a] = db[a]) \/ auth'[a] \in {"lost", "dead"}
             /\ \A d \in Devices : session'[d] \in {session[d], form[a].email}
    /\ \A a \in Attempts : form[a].way = "google" /\ page'[a] # "closed" =>
          page[a] # "closed" \/ db'[a] = "asked"
    /\ \A a \in Attempts : Creating(a) =>
          Creating(a)' \/ db'[a] \in {"node", "dead"} \/ (db[a] = "raised" /\ snap[a].there)
    /\ \A j \in Products : db[j] = "none" /\ db'[j] # "none" =>
          session[from[j]] = owner'[j] /\ owner'[j] \in Emails

\* Auth has no part in the step.
LEMMA NoAnswer ==
    ASSUME UNCHANGED <<accounts, session, auth, form>>,
           \A a \in Attempts : page'[a] = page[a] \/ page[a] # "closed",
           \A a \in Attempts : Creating(a) =>
              \/ db'[a] \in {db[a], "node", "dead"}
              \/ db[a] = "asked" /\ db'[a] = "raised"
              \/ db[a] = "raised" /\ snap[a].there,
           \A j \in Products : db[j] = "none" => db'[j] = "none"
    PROVE  Answers
BY DEF Answers, Creating

LEMMA TapsAnswer ==
    ASSUME WriteInv, NEW a \in Attempts,
           Begin(a) \/ TapRefused(a) \/ AuthGrants(a) \/ AuthFails(a)
    PROVE  Answers
<1>0. /\ a \in Jobs /\ a \notin Products /\ db \in [Jobs -> DbStages]
      /\ auth \in [Attempts -> AuthStages] /\ page \in [Attempts -> {"closed", "open", "left"}]
      /\ session \in [Devices -> Emails \cup {NoEmail}]
  BY JobTypes, AccountAssumption DEF WriteInv, TypeInv, AccountTypeOK
<1>1. CASE Begin(a)
  <2>1. db[a] = "none" /\ auth[a] = "none" /\ page[a] = "closed"
    BY <1>1 DEF Begin, WriteInv, StagesMatch
  <2>2. /\ UNCHANGED <<accounts, session, form, snap>>
        /\ page' = [page EXCEPT ![a] = "open"]
        /\ IF form[a].way = "login" THEN db' = db ELSE db' = [db EXCEPT ![a] = "asked"]
        /\ auth' = [auth EXCEPT ![a] = IF form[a].way = "register" THEN "none" ELSE "sent"]
    BY <1>1 DEF Begin, Step, fixed
  <2> QED
    BY <1>0, <2>1, <2>2, AccountAssumption DEF Answers, Creating, Jobs
<1>2. CASE TapRefused(a)
  BY <1>2, NoAnswer DEF TapRefused, jobVars, fixed
<1>3. CASE AuthGrants(a)
  <2>1. /\ auth[a] = "sent" /\ Grantable(a) /\ accounts' = Granted(a)
        /\ session' = [session EXCEPT ![form[a].dev] = form[a].email]
        /\ auth' = [auth EXCEPT ![a] = "granted"]
        /\ UNCHANGED <<form, page, db, snap>>
    BY <1>3 DEF AuthGrants, fixed
  <2> QED
    BY <1>0, <2>1 DEF Answers, Creating
<1>4. CASE AuthFails(a)
  <2>1. /\ auth[a] = "sent" /\ UNCHANGED <<form, page, session>>
        /\ db' = [db EXCEPT ![a] = IF db[a] = "free" THEN "over" ELSE db[a]]
        /\ \/ UNCHANGED accounts /\ auth' = [auth EXCEPT ![a] = "over"]
           \/ Grantable(a) /\ accounts' = Granted(a) /\ auth' = [auth EXCEPT ![a] = "lost"]
    BY <1>4 DEF AuthFails, Step, fixed, deviceVars
  <2>2. ASSUME NEW o \in Attempts, Creating(o)
        PROVE  Creating(o)'
    BY <1>0, <2>1, <2>2 DEF Creating, Jobs
  <2>3. \A j \in Products : db'[j] = db[j]
    BY <1>0, <2>1, AccountAssumption DEF Jobs
  <2>4. \A o \in Attempts : /\ auth[o] \in {"lost", "dead"} => auth'[o] = auth[o]
                            /\ auth[o] = "none" => auth'[o] = "none"
    BY <1>0, <2>1
  <2>5. CASE UNCHANGED accounts
    BY <2>1, <2>2, <2>3, <2>4, <2>5 DEF Answers
  <2>6. CASE Grantable(a) /\ accounts' = Granted(a) /\ auth' = [auth EXCEPT ![a] = "lost"]
    <3>1. auth'[a] = "lost"
      BY <1>0, <2>6
    <3> QED
      BY <2>1, <2>2, <2>3, <2>4, <2>6, <3>1 DEF Answers
  <2> QED
    BY <2>1, <2>5, <2>6
<1> QED
  BY <1>1, <1>2, <1>3, <1>4

LEMMA PublishAnswers ==
    ASSUME WriteInv, NEW j \in Products, Publish(j)
    PROVE  Answers
<1>0. /\ j \in Jobs /\ j \notin Attempts /\ db \in [Jobs -> DbStages]
      /\ owner \in [Products -> Emails \cup {NoEmail}] /\ session[from[j]] \in Emails \cup {NoEmail}
  BY JobTypes, AccountAssumption DEF WriteInv, TypeInv, AccountTypeOK, Jobs
<1>1. /\ UNCHANGED <<accounts, session, form, page, auth, snap>>
      /\ owner' = [owner EXCEPT ![j] = session[from[j]]] /\ session[from[j]] # NoEmail
      /\ db' = [db EXCEPT ![j] = "asked"]
  BY DEF Publish, Step, deviceVars, fixed
<1>2. owner'[j] = session[from[j]] /\ owner'[j] \in Emails
  BY <1>0, <1>1
<1>3. \A k \in Jobs : k # j => db'[k] = db[k]
  BY <1>0, <1>1
<1>4. \A a \in Attempts : db'[a] = db[a] /\ a # j
  BY <1>0, <1>3 DEF Jobs
<1>5. ASSUME NEW a \in Attempts, Creating(a)
      PROVE  Creating(a)'
  BY <1>1, <1>4, <1>5 DEF Creating
<1>6. \A k \in Products : db[k] = "none" /\ db'[k] # "none" => k = j
  BY <1>3 DEF Jobs
<1> QED
  BY <1>1, <1>2, <1>5, <1>6 DEF Answers

LEMMA CallbacksAnswer ==
    ASSUME WriteInv, FreeFirst, NEW j \in Jobs, Callback(j)
    PROVE  Answers
<1>0. /\ db \in [Jobs -> DbStages] /\ auth \in [Attempts -> AuthStages]
      /\ Attempts \cap Products = {} /\ Attempts \subseteq Jobs
  BY AccountAssumption DEF WriteInv, TypeInv, AccountTypeOK, Jobs
<1>1. ASSUME UNCHANGED <<accounts, session, auth, page, form>>, NEW next,
             db' = [db EXCEPT ![j] = next], db[j] # "none",
             j \in Attempts /\ Creating(j) => next \in {"node", "dead"} \/ (db[j] = "raised" /\ snap[j].there)
      PROVE  Answers
  <2>1. \A a \in Attempts : a # j => db'[a] = db[a]
    BY <1>0, <1>1
  <2>2. \A k \in Products : db[k] = "none" => db'[k] = "none"
    BY <1>0, <1>1 DEF Jobs
  <2>3. db'[j] = next
    BY <1>0, <1>1
  <2>4. ASSUME NEW a \in Attempts, Creating(a)
        PROVE  \/ db'[a] \in {db[a], "node", "dead"}
               \/ db[a] = "asked" /\ db'[a] = "raised"
               \/ db[a] = "raised" /\ snap[a].there
    BY <1>1, <2>1, <2>3, <2>4
  <2> QED
    BY <1>1, <2>2, <2>4, NoAnswer
<1>2. ASSUME j \in Attempts, Checked(j)
      PROVE  Answers
  <2>1. /\ UNCHANGED <<accounts, session, page, form>> /\ form[j].way = "register"
        /\ db[j] = "raised"
        /\ \/ db' = [db EXCEPT ![j] = "over"] /\ auth' = [auth EXCEPT ![j] = auth[j]]
           \/ db' = [db EXCEPT ![j] = "free"] /\ auth' = [auth EXCEPT ![j] = "sent"]
    BY <1>2 DEF Checked, Step, fixed
  <2>2. auth[j] = "none" /\ ~Creating(j)
    BY <1>2, <2>1 DEF FreeFirst, Creating
  <2> QED
    BY <1>0, <1>2, <2>1, <2>2 DEF Answers, Creating, Jobs
<1>3. ASSUME j \in Attempts, GoogleChecked(j)
      PROVE  Answers
  <2>1. /\ UNCHANGED <<accounts, session, auth, page, form>> /\ db[j] = "raised"
        /\ \/ db' = [db EXCEPT ![j] = "over"] /\ snap[j].there
           \/ db' = [db EXCEPT ![j] = "node"]
    BY <1>3 DEF GoogleChecked, GoogleFound, InsertUser, Step, deviceVars, fixed
  <2> QED
    BY <1>1, <2>1
<1>4. ASSUME j \in Attempts, NameRead(j)
      PROVE  Answers
  <2>1. /\ UNCHANGED <<accounts, session, auth, page, form>> /\ db[j] = "raised"
        /\ db' = [db EXCEPT ![j] = "over"] /\ form[j].way = "login"
    BY <1>4 DEF NameRead, Step, fixed
  <2> QED
    BY <1>1, <2>1 DEF Creating
<1>5. ASSUME j \in Attempts, UsersRead(j)
      PROVE  Answers
  <2>1. /\ UNCHANGED <<accounts, session, auth, page, form>> /\ db[j] = "listRaised"
        /\ db' = [db EXCEPT ![j] = "list"]
    BY <1>5 DEF UsersRead, WriteUsers, Step, deviceVars, fixed
  <2> QED
    BY <1>1, <2>1 DEF Creating
<1>6. CASE AddProduct(j)
  <2>1. /\ UNCHANGED <<accounts, session, auth, page, form>> /\ db[j] = "raised" /\ j \notin Attempts
        /\ db' = [db EXCEPT ![j] = "node"] \/ db' = [db EXCEPT ![j] = "notFound"]
    BY <1>0, <1>6 DEF AddProduct, Step, deviceVars, fixed
  <2> QED
    BY <1>1, <2>1
<1>7. ASSUME j \in Attempts, RegisterGranted(j) \/ LoginGranted(j) \/ GoogleGranted(j)
      PROVE  Answers
  <2>1. /\ UNCHANGED <<accounts, session, form>> /\ auth[j] = "granted"
        /\ auth' = [auth EXCEPT ![j] = "over"] /\ Dismiss(j)
    BY <1>7 DEF RegisterGranted, LoginGranted, GoogleGranted, fixed
  <2>2. \A o \in Attempts : page'[o] # "closed" => page[o] # "closed"
    BY <2>1 DEF Dismiss, WriteInv, TypeInv, AccountTypeOK
  <2>3. \/ form[j].way = "register" /\ db' = [db EXCEPT ![j] = "node"]
        \/ form[j].way = "login" /\ (db' = db \/ db' = [db EXCEPT ![j] = "asked"])
        \/ form[j].way = "google" /\ db' = db
    BY <1>7 DEF RegisterGranted, InsertUser, LoginGranted, GoogleGranted, Step
  <2>4. \A k \in Products : db'[k] = db[k]
    BY <1>0, <1>7, <2>3 DEF Jobs
  <2>5. \A o \in Attempts : o # j => db'[o] = db[o] /\ auth'[o] = auth[o]
    BY <1>0, <2>1, <2>3
  <2>6. ASSUME NEW a \in Attempts, Creating(a)
        PROVE  Creating(a)' \/ db'[a] \in {"node", "dead"}
    <3>1. CASE a # j
      BY <2>1, <2>5, <2>6, <3>1 DEF Creating
    <3>2. CASE a = j /\ form[j].way = "register"
      <4>1. db'[j] = "node"
        BY <1>0, <2>3, <3>2
      <4> QED
        BY <3>2, <4>1
    <3>3. CASE a = j /\ form[j].way # "register"
      <4>1. db' = db /\ form[j].way = "google"
        BY <2>3, <2>6, <3>3 DEF Creating
      <4> QED
        BY <2>1, <2>6, <3>3, <4>1 DEF Creating
    <3> QED
      BY <3>1, <3>2, <3>3
  <2>7. \A o \in Attempts : /\ auth[o] \in {"lost", "dead"} => auth'[o] = auth[o]
                            /\ auth[o] = "none" => auth'[o] = "none"
    BY <2>1, <2>5
  <2> QED
    BY <2>1, <2>2, <2>4, <2>6, <2>7 DEF Answers
<1> QED
  BY <1>2, <1>3, <1>4, <1>5, <1>6, <1>7 DEF Callback

LEMMA OthersAnswer ==
    ASSUME WriteInv, NEW d \in Devices,
           \/ CloseAlert(d) \/ Back(d) \/ Logout(d) \/ Server(d) \/ Completion(d)
           \/ Kill(d) \/ LoseQueue(d) \/ Start(d) \/ ConnectionLost(d)
    PROVE  Answers
<1>0. /\ db \in [Jobs -> DbStages] /\ auth \in [Attempts -> AuthStages]
      /\ session \in [Devices -> Emails \cup {NoEmail}] /\ Attempts \subseteq Jobs
      /\ Products \subseteq Jobs /\ page \in [Attempts -> {"closed", "open", "left"}]
  BY DEF WriteInv, TypeInv, AccountTypeOK, Jobs
<1>1. CASE CloseAlert(d) \/ Start(d) \/ Server(d) \/ ConnectionLost(d)
  BY <1>1, NoAnswer DEF CloseAlert, Start, Server, ConnectionLost, jobVars, fixed, deviceVars
<1>2. CASE Back(d)
  <2>1. \A a \in Attempts : page'[a] = page[a] \/ page[a] # "closed"
    BY <1>2 DEF Back, OnPage
  <2> QED
    BY <1>2, <2>1, NoAnswer DEF Back, fixed, deviceVars
<1>3. CASE Logout(d)
  <2>1. /\ UNCHANGED <<accounts, form, page, db, auth, snap>>
        /\ session' = [session EXCEPT ![d] = NoEmail]
    BY <1>3 DEF Logout, SignOut, jobVars, fixed
  <2> QED
    BY <1>0, <2>1 DEF Answers, Creating
<1>4. CASE Completion(d)
  <2>1. PICK w : Leaves(d, w)
    BY <1>4, CompletionLeaves
  <2>2. /\ w.by \in Jobs /\ db[w.by] \in {"node", "list"}
        /\ db' = [db EXCEPT ![w.by] = IF w.fate = "denied" THEN "failed"
                                      ELSE IF w.by \in Attempts /\ w.node # UsersNode
                                      THEN "listAsked" ELSE "done"]
    BY <2>1, Queued DEF Leaves
  <2>3. UNCHANGED <<accounts, session, auth, page, form>>
    BY <1>4 DEF Completion, deviceVars, fixed
  <2>4. \A k \in Jobs : db[k] \notin {"node", "list"} => db'[k] = db[k]
    BY <1>0, <2>2
  <2> QED
    BY <1>0, <2>3, <2>4, NoAnswer DEF Creating
<1>5. CASE LoseQueue(d)
  <2>1. UNCHANGED <<accounts, session, auth, page, form>>
    BY <1>5 DEF LoseQueue, deviceVars, fixed
  <2>2. \A k \in Jobs : db'[k] = db[k] \/ (db'[k] = "dead" /\ db[k] # "none")
    <3>1. \A k \in Jobs : db'[k] = IF DeviceOf(k) = d /\ db[k] \in {"node", "list"}
                                   THEN "dead" ELSE db[k]
      BY <1>5 DEF LoseQueue
    <3> QED
      BY <3>1
  <2> QED
    BY <1>0, <2>1, <2>2, NoAnswer
<1>6. CASE Kill(d)
  <2>1. /\ UNCHANGED <<session, form>>
        /\ \A a \in Attempts : page'[a] # "closed" => page[a] # "closed"
        /\ \A j \in Jobs : db'[j] = db[j] \/ (db'[j] = "dead" /\ db[j] # "none")
        /\ \A a \in Attempts : auth'[a] = IF form[a].dev = d /\ auth[a] \in {"sent", "granted"}
                                          THEN "dead" ELSE auth[a]
        /\ \A a \in Attempts : form[a].dev = d /\ db[a] \in {"asked", "raised", "free"} =>
              db'[a] = "dead"
        /\ \/ UNCHANGED accounts
           \/ \E a \in Attempts : /\ form[a].dev = d /\ auth[a] = "sent" /\ Grantable(a)
                                  /\ accounts' = Granted(a)
    <3>1. /\ UNCHANGED <<session, form>>
          /\ page' = [a \in Attempts |->
                IF form[a].dev = d /\ page[a] = "open" THEN "left" ELSE page[a]]
          /\ auth' = [a \in Attempts |->
                IF form[a].dev = d /\ auth[a] \in {"sent", "granted"} THEN "dead" ELSE auth[a]]
          /\ \/ UNCHANGED accounts
             \/ \E a \in Attempts : /\ form[a].dev = d /\ auth[a] = "sent" /\ Grantable(a)
                                    /\ accounts' = Granted(a)
      BY <1>6 DEF Kill, fixed
    <3>2. \A j \in Jobs : db'[j] = IF DeviceOf(j) = d /\ db[j] \in
                {"asked", "raised", "free", "listAsked", "listRaised"} THEN "dead" ELSE db[j]
      BY <1>6 DEF Kill
    <3>3. \A j \in Jobs : db'[j] = db[j] \/ (db'[j] = "dead" /\ db[j] # "none")
      BY <3>2
    <3>4. \A a \in Attempts : a \in Jobs /\ DeviceOf(a) = form[a].dev
      BY JobTypes DEF WriteInv
    <3>5. \A a \in Attempts : form[a].dev = d /\ db[a] \in {"asked", "raised", "free"} =>
              db'[a] = "dead"
      BY <3>2, <3>4
    <3>6. \A a \in Attempts : page'[a] # "closed" => page[a] # "closed"
      BY <3>1
    <3> QED
      BY <3>1, <3>3, <3>5, <3>6
  <2>2. ASSUME NEW a \in Attempts, Creating(a)
        PROVE  Creating(a)' \/ db'[a] = "dead"
    <3>1. CASE form[a].dev = d
      BY <2>1, <2>2, <3>1 DEF Creating
    <3>2. CASE form[a].dev # d
      BY <1>0, <2>1, <2>2, <3>2 DEF Creating
    <3> QED
      BY <3>1, <3>2
  <2>3. \A a \in Attempts : /\ auth[a] \in {"lost", "dead"} => auth'[a] = auth[a]
                            /\ auth[a] = "none" => auth'[a] = "none"
    BY <2>1
  <2>4. \A j \in Products : db[j] = "none" => db'[j] = "none"
    BY <1>0, <2>1
  <2>5. \/ UNCHANGED accounts
        \/ \E a \in Attempts : /\ auth[a] = "sent" /\ Grantable(a) /\ accounts' = Granted(a)
                               /\ auth'[a] = "dead"
    BY <2>1
  <2>6. CASE UNCHANGED accounts
    BY <2>1, <2>2, <2>3, <2>4, <2>6 DEF Answers
  <2>7. CASE \E a \in Attempts : /\ auth[a] = "sent" /\ Grantable(a) /\ accounts' = Granted(a)
                                 /\ auth'[a] = "dead"
    BY <2>1, <2>2, <2>3, <2>4, <2>7 DEF Answers
  <2> QED
    BY <2>5, <2>6, <2>7
<1> QED
  BY <1>1, <1>2, <1>3, <1>4, <1>5, <1>6

LEMMA RaiseAnswers ==
    ASSUME WriteInv, NEW j \in Jobs, Raise(j)
    PROVE  Answers
<1>0. db \in [Jobs -> DbStages] /\ Attempts \subseteq Jobs /\ Products \subseteq Jobs
  BY DEF WriteInv, TypeInv, AccountTypeOK, Jobs
<1>1. /\ UNCHANGED <<accounts, session, auth, page, form>>
      /\ db[j] \in {"asked", "listAsked"}
      /\ db' = [db EXCEPT ![j] = IF db[j] = "asked" THEN "raised" ELSE "listRaised"]
  BY DEF Raise, dbVars, Step, deviceVars, fixed
<1>2. ASSUME NEW a \in Attempts, Creating(a)
      PROVE  \/ db'[a] \in {db[a], "node", "dead"}
             \/ db[a] = "asked" /\ db'[a] = "raised"
  BY <1>0, <1>1, <1>2 DEF Creating
<1>3. \A k \in Products : db[k] = "none" => db'[k] = "none"
  BY <1>0, <1>1
<1> QED
  BY <1>1, <1>2, <1>3, NoAnswer

LEMMA NextAnswers ==
    ASSUME WriteInv, FreeFirst, [Next]_vars
    PROVE  Answers
<1>1. CASE UNCHANGED vars
  BY <1>1, NoAnswer DEF vars, deviceVars, jobVars, fixed
<1> HIDE DEF WriteInv, FreeFirst, Answers
<1> QED
  BY <1>1, TapsAnswer, PublishAnswers, RaiseAnswers, CallbacksAnswer, OthersAnswer DEF Next

\* An attempt that is being written, or was, gives user node u its node.
Given(u) ==
    \/ tree[u].there
    \/ CutShort(u)
    \/ \E a \in Attempts : NodeOf(a) = u /\ form[a].way # "login" /\ db[a] = "node"

Promised(u) == Given(u) \/ \E a \in Attempts : NodeOf(a) = u /\ Creating(a)

\* Who is in a session has an account, and an account a node, or one to come; so
\* has an address Google has been asked about.  What a publication reads says so.
SignedInv ==
    /\ NodeInv /\ FreeFirst
    /\ \A d \in Devices : session[d] # NoEmail => accounts[session[d]] # {}
    /\ \A e \in Emails : accounts[e] # {} => Promised(safe[e])
    /\ \A a \in Attempts : form[a].way = "google" /\ page[a] # "closed" => Promised(NodeOf(a))
    /\ \A j \in Jobs : db[j] = "raised" /\ snap[j].there => Given(NodeOf(j))
    /\ \A j \in Products : db[j] = "node" => Given(NodeOf(j))
    /\ \A j \in Products : db[j] = "asked" /\ NodeOf(j) \notin crossed => Given(NodeOf(j))
    /\ \A j \in Products :
          /\ db[j] = "notFound" \/ (db[j] = "raised" /\ ~snap[j].there)
          /\ NodeOf(j) \notin crossed
          => CutShort(NodeOf(j))

\* What becomes of attempts that wait, have ended with their process, or have
\* not got further than a first read.
LEMMA StagesGo ==
    ASSUME NodeInv, Onward, Shape, NEW a \in Jobs
    PROVE  /\ db[a] = "dead" => db'[a] = "dead"
           /\ db'[a] \in {"none", "asked", "raised"} => db[a] \in {"none", "asked", "raised"}
           /\ db[a] = "node" => \/ db'[a] \in {"node", "dead"}
                                \/ a \in denied
                                \/ tree[NodeOf(a)].there
<1>0. db \in [Jobs -> DbStages] /\ WriteInv
  BY DEF NodeInv, WriteInv, TypeInv, AccountTypeOK
<1>1. CASE Rest
  BY <1>1 DEF Rest, Rests
<1>2. ASSUME NEW j \in Jobs, NEW v, Reads(j, v)
      PROVE  /\ db[a] \in {"dead", "node"} => db'[a] = db[a]
             /\ db'[a] \in {"none", "asked", "raised"} => db[a] \in {"none", "asked", "raised"}
  BY <1>0, <1>2 DEF Reads
<1>3. ASSUME NEW j \in Jobs, NEW w, NEW next, Writes(j, w, next)
      PROVE  /\ db[a] \in {"dead", "node"} => db'[a] = db[a]
             /\ db'[a] \in {"none", "asked", "raised"} => db[a] \in {"none", "asked", "raised"}
  <2>1. /\ db' = [db EXCEPT ![j] = next] /\ next \in {"node", "list"}
        /\ db[j] \notin {"dead", "node"}
    BY <1>3 DEF Writes, Vacant
  <2> QED
    BY <1>0, <2>1
<1>4. CASE UNCHANGED db
  BY <1>4
<1>5. ASSUME NEW d \in Devices, NEW w, Leaves(d, w)
      PROVE  /\ db[a] = "dead" => db'[a] = "dead"
             /\ db'[a] \in {"none", "asked", "raised"} => db[a] \in {"none", "asked", "raised"}
             /\ db[a] = "node" => \/ db'[a] = "node"
                                  \/ a \in denied
                                  \/ tree[NodeOf(a)].there
  <2>1. /\ w.by \in Jobs /\ db[w.by] \in {"node", "list"} /\ w.fate # "sent" /\ Kept(w)
        /\ w \in AccountWrites
        /\ db' = [db EXCEPT ![w.by] = IF w.fate = "denied" THEN "failed"
                                      ELSE IF w.by \in Attempts /\ w.node # UsersNode
                                      THEN "listAsked" ELSE "done"]
    BY <1>0, <1>5, Queued DEF Leaves, NodeInv, PutsKept
  <2>2. CASE a # w.by
    BY <1>0, <2>1, <2>2
  <2>3. CASE a = w.by
    <3>1. db'[a] \in {"failed", "listAsked", "done"}
      BY <1>0, <2>1, <2>3
    <3>2. db[a] = "node" => a \in denied \/ tree[NodeOf(a)].there
      BY <2>1, <2>3 DEF Kept, AccountWrites, Fates
    <3> QED
      BY <2>1, <2>3, <3>1, <3>2
  <2> QED
    BY <2>2, <2>3
<1>6. ASSUME NEW d \in Devices, Drops(d)
      PROVE  db'[a] = db[a] \/ (db[a] \in {"node", "list"} /\ db'[a] = "dead")
  BY <1>6 DEF Drops
<1> QED
  BY <1>1, <1>2, <1>3, <1>4, <1>5, <1>6 DEF Shape, Serves, Resends

\* No step takes a user node away.
LEMMA ThereStays ==
    ASSUME NodeInv, Shape, NEW u \in Users, tree[u].there
    PROVE  tree'[u].there
<1>1. u \in Paths
  BY DEF Paths
<1>2. ASSUME NEW d \in Devices, NEW i \in DOMAIN pending[d], pending[d][i].node = u,
             tree'[u] = pending[d][i].val
      PROVE  tree'[u].there
  BY <1>2, NodePut
<1> QED
  BY <1>1, <1>2, TreeFrom

LEMMA CutShortStays ==
    ASSUME NodeInv, Onward, Shape, Answers, NEW u, CutShort(u)
    PROVE  CutShort(u)'
<1>1. PICK a \in Attempts : /\ NodeOf(a) = u /\ form[a].way # "login"
                            /\ a \in denied \/ db[a] = "dead" \/ auth[a] \in {"lost", "dead"}
  BY DEF CutShort
<1>2. NodeOf(a)' = u /\ form'[a].way # "login" /\ a \in Jobs /\ denied \subseteq denied'
  BY <1>1, SameNode DEF Onward, Jobs
<1>3. a \in denied' \/ db'[a] = "dead" \/ auth'[a] \in {"lost", "dead"}
  BY <1>1, <1>2, StagesGo DEF Answers
<1> QED
  BY <1>2, <1>3 DEF CutShort

LEMMA GivenStays ==
    ASSUME NodeInv, Onward, Shape, Answers, NEW u \in Users, Given(u)
    PROVE  Given(u)'
<1>1. CASE tree[u].there
  BY <1>1, ThereStays DEF Given
<1>2. CASE CutShort(u)
  BY <1>2, CutShortStays DEF Given
<1>3. ASSUME NEW a \in Attempts, NodeOf(a) = u, form[a].way # "login", db[a] = "node"
      PROVE  Given(u)'
  <2>1. NodeOf(a)' = u /\ form'[a].way # "login" /\ a \in Jobs /\ denied \subseteq denied'
    BY <1>3, SameNode DEF Onward, Jobs
  <2>2. \/ db'[a] \in {"node", "dead"}
        \/ a \in denied
        \/ tree[u].there
    BY <1>3, <2>1, StagesGo
  <2>3. CASE db'[a] = "node"
    BY <2>1, <2>3 DEF Given
  <2>4. CASE db'[a] = "dead" \/ a \in denied
    <3>1. CutShort(u)'
      BY <2>1, <2>4 DEF CutShort
    <3> QED
      BY <3>1 DEF Given
  <2>5. CASE tree[u].there
    BY <1>1, <2>5
  <2> QED
    BY <2>2, <2>3, <2>4, <2>5
<1> QED
  BY <1>1, <1>2, <1>3 DEF Given

LEMMA PromisedStays ==
    ASSUME SignedInv, Onward, Shape, Answers, NEW u \in Users, Promised(u)
    PROVE  Promised(u)'
<1>0. NodeInv
  BY DEF SignedInv
<1>1. CASE Given(u)
  BY <1>0, <1>1, GivenStays DEF Promised
<1>2. ASSUME NEW a \in Attempts, NodeOf(a) = u, Creating(a)
      PROVE  Promised(u)'
  <2>1. NodeOf(a)' = u /\ form'[a].way # "login" /\ a \in Jobs
    BY <1>2, SameNode DEF Onward, Jobs, Creating
  <2>2. Creating(a)' \/ db'[a] \in {"node", "dead"} \/ (db[a] = "raised" /\ snap[a].there)
    BY <1>2 DEF Answers
  <2>3. CASE Creating(a)'
    BY <2>1, <2>3 DEF Promised
  <2>4. CASE db'[a] = "node"
    BY <2>1, <2>4 DEF Promised, Given
  <2>5. CASE db'[a] = "dead"
    <3>1. CutShort(u)'
      BY <2>1, <2>5 DEF CutShort
    <3> QED
      BY <3>1 DEF Promised, Given
  <2>6. CASE db[a] = "raised" /\ snap[a].there
    <3>1. Given(u)
      BY <1>2, <2>1, <2>6 DEF SignedInv
    <3> QED
      BY <1>1, <3>1
  <2> QED
    BY <2>2, <2>3, <2>4, <2>5, <2>6
<1> QED
  BY <1>1, <1>2 DEF Promised

\* Where a publication comes from.
LEMMA PublicationsGo ==
    ASSUME NodeInv, Onward, Shape, NEW j \in Products
    PROVE  /\ db'[j] = "node" => db[j] = "node" \/ (db[j] = "raised" /\ snap[j].there)
           /\ db'[j] = "asked" => db[j] = "asked" \/ (Rests(j) /\ db[j] = "none")
           /\ db'[j] = "notFound" => db[j] = "notFound" \/ (db[j] = "raised" /\ ~snap[j].there)
<1>0. db \in [Jobs -> DbStages] /\ WriteInv /\ j \in Jobs /\ j \notin Attempts
  BY AccountAssumption DEF NodeInv, WriteInv, TypeInv, AccountTypeOK, Jobs
<1>1. CASE Rest
  <2>1. Rests(j)
    BY <1>0, <1>1 DEF Rest
  <2> QED
    BY <2>1 DEF Rests
<1>2. ASSUME NEW k \in Jobs, NEW v, Reads(k, v)
      PROVE  db'[j] \in {"node", "asked", "notFound"} => db[j] = db'[j]
  BY <1>0, <1>2 DEF Reads
<1>3. ASSUME NEW k \in Jobs, NEW w, NEW next, Writes(k, w, next)
      PROVE  /\ db'[j] = "node" => db[j] = "node" \/ (db[j] = "raised" /\ snap[j].there)
             /\ db'[j] \in {"asked", "notFound"} => db[j] = db'[j]
  <2>1. /\ db' = [db EXCEPT ![k] = next] /\ next \in {"node", "list"}
        /\ k \in Attempts \/ (db[k] = "raised" /\ snap[k].there)
    BY <1>3 DEF Writes, Vacant
  <2> QED
    BY <1>0, <2>1
<1>4. CASE UNCHANGED db
  BY <1>4
<1>5. ASSUME NEW d \in Devices, NEW w, Leaves(d, w)
      PROVE  db'[j] \in {"node", "asked", "notFound"} => db[j] = db'[j]
  <2>1. /\ w.by \in Jobs
        /\ db' = [db EXCEPT ![w.by] = IF w.fate = "denied" THEN "failed"
                                      ELSE IF w.by \in Attempts /\ w.node # UsersNode
                                      THEN "listAsked" ELSE "done"]
    BY <1>0, <1>5, Queued DEF Leaves
  <2> QED
    BY <1>0, <2>1
<1>6. ASSUME NEW d \in Devices, Drops(d)
      PROVE  db'[j] = db[j] \/ db'[j] = "dead"
  BY <1>0, <1>6 DEF Drops
<1> QED
  BY <1>1, <1>2, <1>3, <1>4, <1>5, <1>6 DEF Shape, Serves, Resends

LEMMA AccountsGrow ==
    ASSUME SignedInv, Onward, Shape, Answers
    PROVE  /\ \A d \in Devices : session'[d] # NoEmail => accounts'[session'[d]] # {}
           /\ \A e \in Emails : accounts'[e] # {} => Promised(safe[e])'
           /\ FreeFirst'
<1>0. /\ NodeInv /\ WriteInv /\ UNCHANGED <<form, safe>>
      /\ accounts \in [Emails -> SUBSET {"login", "google"}] /\ safe \in [Emails -> Users]
      /\ session \in [Devices -> Emails \cup {NoEmail}] /\ NoEmail \notin Emails
      /\ \A a \in Attempts : form[a].email \in Emails /\ NodeOf(a) = safe[form[a].email]
                             /\ form[a].way \in Ways /\ a \in Jobs
  BY JobTypes, AccountAssumption DEF SignedInv, NodeInv, WriteInv, TypeInv, AccountTypeOK, Onward
<1>1. FreeFirst'
  <2> SUFFICES ASSUME NEW a \in Attempts, form[a].way = "register",
                      db'[a] \in {"none", "asked", "raised"}
               PROVE  auth'[a] = "none"
    BY <1>0 DEF FreeFirst
  <2>1. db[a] \in {"none", "asked", "raised"}
    BY <1>0, StagesGo
  <2>2. auth[a] = "none"
    BY <2>1 DEF SignedInv, FreeFirst
  <2> QED
    BY <2>2 DEF Answers
<1>2. ASSUME NEW a \in Attempts, Grantable(a), accounts' = Granted(a)
      PROVE  /\ accounts'[form[a].email] # {}
             /\ \A e \in Emails : e # form[a].email => accounts'[e] = accounts[e]
             /\ \A e \in Emails : accounts[e] # {} => accounts'[e] # {}
  BY <1>0, <1>2 DEF Granted
<1>3. \A d \in Devices : session'[d] # NoEmail => accounts'[session'[d]] # {}
  <2> SUFFICES ASSUME NEW d \in Devices, session'[d] # NoEmail
               PROVE  accounts'[session'[d]] # {}
    OBVIOUS
  <2>1. session[d] # NoEmail => accounts[session[d]] # {} /\ session[d] \in Emails
    BY <1>0 DEF SignedInv
  <2>2. CASE UNCHANGED accounts /\ session'[d] \in {session[d], NoEmail}
    BY <2>1, <2>2
  <2>3. ASSUME NEW a \in Attempts, Grantable(a), accounts' = Granted(a),
               session'[d] \in {session[d], form[a].email}
        PROVE  accounts'[session'[d]] # {}
    BY <1>2, <2>1, <2>3
  <2> QED
    BY <2>2, <2>3 DEF Answers
<1>4. ASSUME NEW e \in Emails, accounts'[e] # {}
      PROVE  Promised(safe[e])'
  <2>1. PICK u \in Users : u = safe[e] /\ u = safe'[e]
    BY <1>0
  <2>2. CASE accounts[e] # {}
    <3>1. Promised(u)
      BY <2>1, <2>2 DEF SignedInv
    <3>2. Promised(u)'
      BY <3>1, PromisedStays
    <3> QED
      BY <2>1, <3>2 DEF Promised, Given, CutShort
  <2>3. CASE accounts[e] = {}
    <3>1. PICK a \in Attempts :
              /\ auth[a] = "sent" /\ Grantable(a) /\ accounts' = Granted(a)
              /\ (auth'[a] = "granted" /\ db'[a] = db[a]) \/ auth'[a] \in {"lost", "dead"}
      BY <1>4, <2>3 DEF Answers
    <3>2. e = form[a].email /\ NodeOf(a) = u
      BY <1>0, <1>2, <1>4, <2>1, <2>3, <3>1
    <3>3. form[a].way # "login"
      BY <2>3, <3>1, <3>2 DEF Grantable
    <3>4. NodeOf(a)' = u /\ form'[a].way # "login"
      BY <1>0, <3>2, <3>3, SameNode
    <3>5. Promised(u)'
      <4>1. CASE auth'[a] \in {"lost", "dead"}
        <5>1. CutShort(u)'
          BY <3>4, <4>1 DEF CutShort
        <5> QED
          BY <5>1 DEF Promised, Given
      <4>2. CASE form[a].way = "google"
        <5>1. page[a] # "closed"
          BY <1>0, <3>1 DEF WriteInv, StagesMatch
        <5>2. Promised(u)
          BY <3>2, <4>2, <5>1 DEF SignedInv
        <5> QED
          BY <5>2, PromisedStays
      <4>3. CASE form[a].way = "register" /\ auth'[a] = "granted" /\ db'[a] = db[a]
        <5>1. db[a] = "free"
          BY <1>0, <3>1, <4>3 DEF WriteInv, StagesMatch
        <5>2. Creating(a)'
          BY <1>0, <4>3, <5>1 DEF Creating
        <5> QED
          BY <3>4, <5>2 DEF Promised
      <4> QED
        BY <1>0, <3>1, <3>3, <4>1, <4>2, <4>3 DEF Ways
    <3> QED
      BY <2>1, <3>5 DEF Promised, Given, CutShort
  <2> QED
    BY <2>2, <2>3
<1> QED
  BY <1>1, <1>3, <1>4

LEMMA GoogleGoes ==
    ASSUME SignedInv, Onward, Shape, Answers, NEW a \in Attempts,
           form[a].way = "google", page'[a] # "closed"
    PROVE  Promised(NodeOf(a))'
<1>1. PICK u \in Users : u = NodeOf(a) /\ u = NodeOf(a)'
  BY SameNode, JobTypes DEF SignedInv, NodeInv, WriteInv
<1>2. Promised(u)'
  <2>1. CASE page[a] # "closed"
    <3>1. Promised(u)
      BY <1>1, <2>1 DEF SignedInv
    <3> QED
      BY <3>1, PromisedStays
  <2>2. CASE db'[a] = "asked"
    <3>1. Creating(a)'
      BY <2>2 DEF Creating, Onward
    <3> QED
      BY <1>1, <3>1 DEF Promised
  <2> QED
    BY <2>1, <2>2 DEF Answers
<1> QED
  BY <1>1, <1>2 DEF Promised, Given, CutShort

\* A read that finds the user node.
LEMMA FoundGiven ==
    ASSUME SignedInv, Onward, Shape, Answers, NEW j \in Jobs, db'[j] = "raised", snap'[j].there
    PROVE  Given(NodeOf(j))'
<1>0. NodeInv /\ WriteInv /\ KindsMatch
  BY DEF SignedInv, NodeInv
<1>1. db[j] \in {"asked", "raised"}
  BY <1>0, RaisedFrom
<1>2. PICK u \in Users : u = NodeOf(j) /\ u = NodeOf(j)'
  BY <1>0, <1>1, SameNode, JobTypes DEF WriteInv
<1>3. Given(u)
  <2>1. CASE db[j] = "raised" /\ snap'[j] = snap[j]
    BY <1>2, <2>1 DEF SignedInv
  <2>2. ASSUME NEW v, Reads(j, v), snap'[j] = v, db[j] = "asked"
        PROVE  Given(u)
    <3>1. PICK d \in Devices : d = DeviceOf(j)
      BY <1>0, JobTypes DEF WriteInv
    <3>2. Sees(d, u, v)
      BY <1>2, <2>2, <3>1 DEF Reads
    <3>3. ASSUME NEW i \in PutsTo(d, u)
          PROVE  Given(u)
      <4>1. PICK w : w = pending[d][i]
        OBVIOUS
      <4>2. /\ w.by \in Jobs /\ OnNode(w.by) /\ NodeOf(w.by) = u /\ db[w.by] = "node"
        BY <1>0, <3>3, <4>1, Queued, NodePut DEF PutsTo
      <4>3. CASE w.by \in Attempts
        BY <4>2, <4>3 DEF OnNode, Given
      <4>4. CASE w.by \in Products
        BY <4>2, <4>4 DEF SignedInv
      <4> QED
        BY <4>2, <4>3, <4>4 DEF Jobs
    <3>4. CASE v = tree[u]
      BY <2>2, <3>4 DEF Given
    <3> QED
      BY <3>2, <3>3, <3>4 DEF Sees
  <2> QED
    BY <1>0, <2>1, <2>2, RaisedFrom
<1>4. Given(u)'
  BY <1>0, <1>3, GivenStays
<1> QED
  BY <1>2, <1>4 DEF Given, CutShort

\* A publication asks only where a node is given, unless it crosses its maker.
LEMMA PublicationGiven ==
    ASSUME SignedInv, Onward, Shape, Answers, NEW j \in Products
    PROVE  /\ db'[j] = "node" => Given(NodeOf(j))'
           /\ db'[j] = "asked" /\ NodeOf(j)' \notin crossed' => Given(NodeOf(j))'
<1>0. /\ NodeInv /\ WriteInv /\ KindsMatch /\ j \in Jobs /\ j \notin Attempts
      /\ safe \in [Emails -> Users] /\ UNCHANGED safe
  BY AccountAssumption DEF SignedInv, NodeInv, WriteInv, TypeInv, AccountTypeOK, Jobs, Onward
<1>1. ASSUME db[j] # "none", Given(NodeOf(j))
      PROVE  Given(NodeOf(j))'
  <2>1. PICK u \in Users : u = NodeOf(j) /\ u = NodeOf(j)'
    BY <1>0, <1>1, SameNode, JobTypes DEF WriteInv, KindsMatch
  <2>2. Given(u)'
    BY <1>0, <1>1, <2>1, GivenStays
  <2> QED
    BY <2>1, <2>2 DEF Given, CutShort
<1>2. ASSUME db'[j] = "node"
      PROVE  Given(NodeOf(j))'
  <2>1. db[j] # "none" /\ Given(NodeOf(j))
    BY <1>0, <1>2, PublicationsGo DEF SignedInv
  <2> QED
    BY <1>1, <2>1
<1>3. ASSUME db'[j] = "asked", NodeOf(j)' \notin crossed'
      PROVE  Given(NodeOf(j))'
  <2>1. CASE db[j] = "asked"
    <3>1. NodeOf(j) \notin crossed
      BY <1>0, <1>3, <2>1, SameNode DEF Onward
    <3>2. Given(NodeOf(j))
      BY <2>1, <3>1 DEF SignedInv
    <3> QED
      BY <1>1, <2>1, <3>2
  <2>2. CASE Rests(j) /\ db[j] = "none"
    <3>1. session[from[j]] = owner'[j] /\ owner'[j] \in Emails
      BY <1>3, <2>2 DEF Answers
    <3>2. PICK e \in Emails : e = owner'[j]
      BY <3>1
    <3>3. from[j] \in Devices /\ e # NoEmail
      BY <1>0, AccountAssumption DEF WriteInv, TypeInv, AccountTypeOK
    <3>4. accounts[e] # {}
      BY <3>1, <3>2, <3>3 DEF SignedInv
    <3>5. Promised(safe[e])
      BY <3>4 DEF SignedInv
    <3>6. NodeOf(j)' = safe[e]
      BY <1>0, <3>2 DEF NodeOf
    <3>7. PICK u \in Users : u = safe[e]
      BY <1>0
    <3>8. ~InTheWay(j, u, DeviceOf(j))
      <4>1. OnNode(j)'
        BY <1>0, <1>3 DEF OnNode
      <4>2. ~InTheWay(j, NodeOf(j)', DeviceOf(j))
        BY <1>3, <2>2, <4>1 DEF Rests
      <4>3. PICK n : n = NodeOf(j)'
        OBVIOUS
      <4>4. ~InTheWay(j, n, DeviceOf(j))
        BY <4>2, <4>3
      <4> QED
        BY <3>6, <3>7, <4>3, <4>4
    <3>9. ASSUME NEW a \in Attempts, NodeOf(a) = u, Creating(a)
          PROVE  FALSE
      <4>1. OnNode(a) /\ db[a] # "node" /\ a \in Jobs /\ a # j
        BY <1>0, <3>9 DEF Creating, OnNode, Jobs
      <4> QED
        BY <3>8, <3>9, <4>1 DEF InTheWay
    <3>10. Given(u)
      BY <3>5, <3>7, <3>9 DEF Promised
    <3>11. Given(u)'
      BY <1>0, <3>10, GivenStays
    <3> QED
      BY <3>6, <3>7, <3>11 DEF Given, CutShort
  <2> QED
    BY <1>0, <1>3, <2>1, <2>2, PublicationsGo
<1> QED
  BY <1>2, <1>3

\* A read that does not find a node that is given: its maker was cut short.
LEMMA MissedCutShort ==
    ASSUME SignedInv, Onward, Shape, Answers, NEW j \in Products,
           db'[j] = "notFound" \/ (db'[j] = "raised" /\ ~snap'[j].there), NodeOf(j)' \notin crossed'
    PROVE  CutShort(NodeOf(j))'
<1>0. NodeInv /\ WriteInv /\ KindsMatch /\ PutsKept /\ j \in Jobs /\ j \notin Attempts
  BY AccountAssumption DEF SignedInv, NodeInv, Jobs
<1>1. db[j] \in {"notFound", "raised", "asked"}
  BY <1>0, PublicationsGo, RaisedFrom
<1>2. PICK u \in Users : u = NodeOf(j) /\ u = NodeOf(j)'
  <2>1. owner[j] \in Emails
    BY <1>0, <1>1 DEF KindsMatch
  <2> QED
    BY <1>0, <1>1, <2>1, SameNode, JobTypes DEF WriteInv, TypeInv, AccountTypeOK
<1>3. u \notin crossed
  BY <1>2 DEF Onward
<1>4. CutShort(u)
  <2>1. CASE db[j] = "notFound" \/ (db[j] = "raised" /\ ~snap[j].there)
    BY <1>2, <1>3, <2>1 DEF SignedInv
  <2>2. ASSUME NEW v, Reads(j, v), ~v.there, db[j] = "asked"
        PROVE  CutShort(u)
    <3>1. Given(u)
      BY <1>2, <1>3, <2>2 DEF SignedInv
    <3>2. PICK d \in Devices : d = DeviceOf(j)
      BY <1>0, JobTypes DEF WriteInv
    <3>3. Sees(d, u, v) /\ OnNode(j)
      BY <1>0, <1>2, <2>2, <3>2 DEF Reads, OnNode
    <3>4. \A i \in PutsTo(d, u) : pending[d][i].val.there
      BY <1>0, NodePut DEF PutsTo
    <3>5. PutsTo(d, u) = {} /\ ~tree[u].there
      BY <2>2, <3>3, <3>4 DEF Sees
    <3>6. ASSUME NEW a \in Attempts, NodeOf(a) = u, form[a].way # "login", db[a] = "node"
          PROVE  FALSE
      <4>1. PICK e \in Devices : e = DeviceOf(a) /\ a \in Jobs
        BY <1>0, JobTypes DEF WriteInv
      <4>2. PICK i \in DOMAIN pending[e] : pending[e][i].by = a
        BY <1>0, <3>6, <4>1 DEF PutsKept
      <4>3. pending[e][i].node = u
        <5>1. Kept(pending[e][i])
          BY <1>0 DEF PutsKept
        <5> QED
          BY <3>6, <4>2, <5>1 DEF Kept
      <4>4. e = d
        BY <1>0, <1>2, <1>3, <3>2, <3>3, <4>3, PutDevice
      <4>5. i \in PutsTo(d, u)
        BY <4>3, <4>4 DEF PutsTo
      <4> QED
        BY <3>5, <4>5
    <3> QED
      BY <3>1, <3>5, <3>6 DEF Given
  <2> QED
    BY <1>0, <2>1, <2>2, PublicationsGo, RaisedFrom
<1>5. CutShort(u)'
  BY <1>0, <1>4, CutShortStays
<1> QED
  BY <1>2, <1>5 DEF CutShort

LEMMA NextSignedInv == SignedInv /\ [Next]_vars => SignedInv'
<1> SUFFICES ASSUME SignedInv, [Next]_vars
             PROVE  SignedInv'
  OBVIOUS
<1>1. NodeInv /\ FreeFirst /\ WriteInv
  BY DEF SignedInv, NodeInv
<1>2. NodeInv' /\ Onward /\ Shape
  BY <1>1, NextNodeInv
<1>3. Answers
  BY <1>1, NextAnswers
<1> HIDE DEF SignedInv, NodeInv, FreeFirst, Onward, Shape, Answers, Next
<1>4. /\ \A d \in Devices : session'[d] # NoEmail => accounts'[session'[d]] # {}
      /\ \A e \in Emails : accounts'[e] # {} => Promised(safe[e])'
      /\ FreeFirst'
  BY <1>2, <1>3, AccountsGrow
<1>5. UNCHANGED form
  BY <1>2 DEF Onward
<1>6. \A a \in Attempts : form'[a].way = "google" /\ page'[a] # "closed" => Promised(NodeOf(a))'
  BY <1>2, <1>3, <1>5, GoogleGoes
<1>7. \A j \in Jobs : db'[j] = "raised" /\ snap'[j].there => Given(NodeOf(j))'
  BY <1>2, <1>3, FoundGiven
<1>8. \A j \in Products : db'[j] = "node" => Given(NodeOf(j))'
  BY <1>2, <1>3, PublicationGiven
<1>9. \A j \in Products : db'[j] = "asked" /\ NodeOf(j)' \notin crossed' => Given(NodeOf(j))'
  BY <1>2, <1>3, PublicationGiven
<1>10. ASSUME NEW j \in Products,
              db'[j] = "notFound" \/ (db'[j] = "raised" /\ ~snap'[j].there),
              NodeOf(j)' \notin crossed'
       PROVE  CutShort(NodeOf(j))'
  BY <1>2, <1>3, <1>10, MissedCutShort
<1> QED
  BY <1>2, <1>4, <1>6, <1>7, <1>8, <1>9, <1>10 DEF SignedInv

LEMMA InitSignedInv == Init => SignedInv
<1> SUFFICES ASSUME Init
             PROVE  SignedInv
  OBVIOUS
<1>1. NodeInv
  BY InitNodeInv
<1>2. /\ \A j \in Jobs : db[j] = "none"
      /\ \A a \in Attempts : auth[a] = "none" /\ page[a] = "closed"
      /\ \A d \in Devices : session[d] = NoEmail
      /\ safe \in [Emails -> Users]
  BY DEF Init
<1>3. ASSUME NEW e \in Emails, accounts[e] # {}
      PROVE  tree[safe[e]].there
  <2>1. PICK n \in 0..Cardinality(Emails) : \E old \in [1..n -> Emails] :
          /\ accounts = [x \in Emails |->
                IF \E i \in 1..n : old[i] = x THEN {"login"} ELSE {}]
          /\ tree = [p \in Paths |->
                IF \E i \in 1..n : safe[old[i]] = p
                THEN NewUser(old[CHOOSE i \in 1..n : safe[old[i]] = p])
                ELSE IF p = UsersNode /\ n > 0
                THEN [there |-> TRUE, list |-> [i \in 1..n |-> safe[old[i]]], name |-> NoEmail]
                ELSE NoEntry]
    BY DEF Init
  <2>2. PICK old \in [1..n -> Emails] :
          /\ accounts = [x \in Emails |->
                IF \E i \in 1..n : old[i] = x THEN {"login"} ELSE {}]
          /\ tree = [p \in Paths |->
                IF \E i \in 1..n : safe[old[i]] = p
                THEN NewUser(old[CHOOSE i \in 1..n : safe[old[i]] = p])
                ELSE IF p = UsersNode /\ n > 0
                THEN [there |-> TRUE, list |-> [i \in 1..n |-> safe[old[i]]], name |-> NoEmail]
                ELSE NoEntry]
    BY <2>1
  <2>3. \E i \in 1..n : old[i] = e
    BY <1>3, <2>2
  <2>4. PICK u \in Users : u = safe[e]
    BY <1>2
  <2>5. u \in Paths /\ \E i \in 1..n : safe[old[i]] = u
    BY <2>3, <2>4 DEF Paths
  <2>6. \E x : tree[u] = NewUser(x)
    BY <2>2, <2>5
  <2>7. \A x : NewUser(x).there
    BY DEF NewUser
  <2> QED
    BY <2>4, <2>6, <2>7
<1>4. \A e \in Emails : accounts[e] # {} => Promised(safe[e])
  BY <1>3 DEF Promised, Given
<1>5. FreeFirst
  BY <1>2 DEF FreeFirst
<1> QED
  BY <1>1, <1>2, <1>4, <1>5 DEF SignedInv, Jobs

\* Who is signed in can publish: no publication misses the user node, unless the
\* attempt to create it was cut short, or a job was in another's way on the node: an
\* attempt still to write it on another device, or a Google sign-in on this one whose
\* own userExist had not answered.
THEOREM SignedInCorrect == Spec => []SignedInHasNode
<1>1. SignedInv => SignedInHasNode
  BY DEF SignedInv, SignedInHasNode
<1> QED
  BY <1>1, InitSignedInv, NextSignedInv, PTL DEF Spec

-----------------------------------------------------------------------------
(* Users are listed, once *)

ListStages == {"listAsked", "listRaised", "list"}

\* Attempt a is going to add its user node to the list of users.
Claims(a) == \/ Vacant(a)
             \/ form[a].way # "login" /\ db[a] \in {"node", "listAsked", "listRaised"}

\* l is the list of users as the server has it, as a queued write has it, or as an
\* attempt has read it.
ListCopy(l) ==
    \/ l = tree[UsersNode].list
    \/ \E d \in Devices : \E i \in DOMAIN pending[d] :
          pending[d][i].node = UsersNode /\ l = pending[d][i].val.list
    \/ \E a \in Attempts : db[a] = "listRaised" /\ l = snap[a].list

\* It lists user nodes that are there, each once unless crossed, and none that
\* is going to be added.
Sound(l) ==
    /\ \A i \in DOMAIN l : l[i] \in Users /\ tree[l[i]].there
    /\ \A i, k \in DOMAIN l : l[i] = l[k] => i = k \/ l[i] \in crossed
    /\ \A a \in Attempts : Claims(a) /\ NodeOf(a) \notin crossed => NodeOf(a) \notin Elements(l)

\* Unless crossed, one attempt at most is going to add a user node.
OneClaim == \A a, b \in Attempts :
    Claims(a) /\ Claims(b) /\ NodeOf(a) = NodeOf(b) /\ NodeOf(a) \notin crossed => a = b

ListedThere == \A a \in Attempts : db[a] \in ListStages \cup {"done"} => tree[NodeOf(a)].there

\* As long as attempts take turns on the list of users, one at most is at it, what
\* it has read is the list, what it has written is the list with its node behind, or
\* the list once performed, and who is done is listed.
OneLister == \A a, b \in Attempts : db[a] \in ListStages /\ db[b] \in ListStages => a = b

ReadsHold == \A a \in Attempts : db[a] = "listRaised" =>
    snap[a].list = tree[UsersNode].list

PutsHold == \A d \in Devices : \A i \in DOMAIN pending[d] : pending[d][i].node = UsersNode =>
    \/ pending[d][i].val.list = tree[UsersNode].list
    \/ /\ pending[d][i].val.list = Append(tree[UsersNode].list, NodeOf(pending[d][i].by))
       /\ pending[d][i].fate # "ok"

DoneListed == \A a \in Attempts : db[a] = "done" => NodeOf(a) \in Elements(tree[UsersNode].list)

ListTurns == ~listShared => OneLister /\ ReadsHold /\ PutsHold /\ DoneListed

UsersInv == /\ ProductsInv
            /\ \A l : ListCopy(l) => Sound(l)
            /\ OneClaim /\ ListedThere /\ ListTurns

\* How an attempt that registers goes on.
LEMMA AttemptsGo ==
    ASSUME NodeInv, Onward, Shape, NEW a \in Attempts
    PROVE  /\ db'[a] = "node" => db[a] = "node" \/ Vacant(a)
           /\ db'[a] = "listAsked" =>
                 \/ db[a] = "listAsked"
                 \/ /\ db[a] = "node" /\ tree[NodeOf(a)].there
                    /\ listShared' \/ \A b \in Attempts : db[b] \notin ListStages /\ (b # a => db'[b] = db[b])
           /\ db'[a] = "list" => db[a] \in {"list", "listRaised"}
           /\ db'[a] = "done" =>
                 \/ db[a] = "done"
                 \/ /\ db[a] = "list"
                    /\ \E d \in Devices : \E i \in DOMAIN pending[d] :
                          /\ pending[d][i].node = UsersNode /\ pending[d][i].by = a
                          /\ pending[d][i].fate = "ok"
<1>0. db \in [Jobs -> DbStages] /\ WriteInv /\ a \in Jobs /\ a \notin Products
  BY AccountAssumption DEF NodeInv, WriteInv, TypeInv, AccountTypeOK, Jobs
<1>1. CASE Rest
  <2>1. Rests(a)
    BY <1>0, <1>1 DEF Rest
  <2> QED
    BY <2>1 DEF Rests
<1>2. ASSUME NEW k \in Jobs, NEW v, Reads(k, v)
      PROVE  db'[a] \in {"node", "listAsked", "list", "done"} => db[a] = db'[a]
  BY <1>0, <1>2 DEF Reads
<1>3. ASSUME NEW k \in Jobs, NEW w, NEW next, Writes(k, w, next)
      PROVE  /\ db'[a] = "node" => db[a] = "node" \/ Vacant(a)
             /\ db'[a] = "list" => db[a] \in {"list", "listRaised"}
             /\ db'[a] \in {"listAsked", "done"} => db[a] = db'[a]
  <2>1. /\ db' = [db EXCEPT ![k] = next]
        /\ \/ next = "node" /\ (Vacant(k) \/ k \in Products)
           \/ next = "list" /\ db[k] = "listRaised"
    BY <1>3 DEF Writes
  <2> QED
    BY <1>0, <2>1
<1>4. CASE UNCHANGED db
  BY <1>4
<1>5. ASSUME NEW d \in Devices, NEW w, Leaves(d, w)
      PROVE  /\ db'[a] \in {"node", "list"} => db[a] = db'[a]
             /\ db'[a] = "listAsked" =>
                   \/ db[a] = "listAsked"
                   \/ /\ db[a] = "node" /\ tree[NodeOf(a)].there
                      /\ listShared' \/ \A b \in Attempts : db[b] \notin ListStages /\ (b # a => db'[b] = db[b])
             /\ db'[a] = "done" =>
                   \/ db[a] = "done"
                   \/ /\ db[a] = "list"
                      /\ \E i \in DOMAIN pending[d] :
                            /\ pending[d][i].node = UsersNode /\ pending[d][i].by = a
                            /\ pending[d][i].fate = "ok"
  <2>1. /\ w.by \in Jobs /\ db[w.by] \in {"node", "list"} /\ w.fate # "sent" /\ Kept(w)
        /\ w \in AccountWrites /\ 1 \in DOMAIN pending[d] /\ w = pending[d][1]
        /\ db' = [db EXCEPT ![w.by] = IF w.fate = "denied" THEN "failed"
                                      ELSE IF w.by \in Attempts /\ w.node # UsersNode
                                      THEN "listAsked" ELSE "done"]
        /\ listShared' = (listShared \/ (/\ db'[w.by] = "listAsked"
                                         /\ \E b \in Attempts : db[b] \in
                                               {"listAsked", "listRaised", "list"}))
    BY <1>0, <1>5, Queued DEF Leaves, NodeInv, PutsKept
  <2>2. CASE a # w.by
    BY <1>0, <2>1, <2>2
  <2>3. CASE a = w.by
    <3>1. w.fate \in {"ok", "denied"}
      BY <2>1 DEF AccountWrites, Fates
    <3>2. CASE w.fate = "denied"
      BY <1>0, <2>1, <2>3, <3>2
    <3>3. CASE w.fate = "ok" /\ w.node # UsersNode
      <4>1. db'[a] = "listAsked" /\ db[a] = "node" /\ tree[NodeOf(a)].there
        BY <1>0, <2>1, <2>3, <3>3 DEF Kept
      <4>2. listShared' \/ \A b \in Attempts : db[b] \notin ListStages
        BY <2>1, <2>3, <4>1 DEF ListStages
      <4>3. \A b \in Attempts : b # a => db'[b] = db[b]
        BY <1>0, <2>1, <2>3 DEF Jobs
      <4> QED
        BY <4>1, <4>2, <4>3
    <3>4. CASE w.fate = "ok" /\ w.node = UsersNode
      <4>1. db'[a] = "done" /\ db[a] = "list"
        BY <1>0, <2>1, <2>3, <3>4 DEF Kept
      <4> QED
        BY <2>1, <2>3, <3>4, <4>1
    <3> QED
      BY <3>1, <3>2, <3>3, <3>4
  <2> QED
    BY <2>2, <2>3
<1>6. ASSUME NEW d \in Devices, Drops(d)
      PROVE  db'[a] = db[a] \/ db'[a] = "dead"
  BY <1>0, <1>6 DEF Drops
<1> QED
  BY <1>1, <1>2, <1>3, <1>4, <1>5, <1>6 DEF Shape, Serves, Resends

\* An attempt that comes to claim its user node has found it bare.
LEMMA ClaimsFrom ==
    ASSUME ProductsInv, Onward, Shape, NEW a \in Attempts, Claims(a)', NodeOf(a)' \notin crossed'
    PROVE  \/ Claims(a)
           \/ /\ db[a] = "asked" /\ form[a].way # "login"
              /\ ~tree[NodeOf(a)].there /\ Bare(NodeOf(a)) /\ OnNode(a)
<1>0. /\ NodeInv /\ WriteInv /\ KindsMatch /\ a \in Jobs /\ UNCHANGED form
      /\ NodeOf(a)' = NodeOf(a) /\ NodeOf(a) \in Users \ crossed
  BY SameNode, JobTypes DEF ProductsInv, NodeInv, Jobs, Onward, WriteInv
<1>1. CASE Vacant(a)'
  <2>1. CASE Vacant(a)
    BY <2>1 DEF Claims
  <2>2. ASSUME NEW v, Reads(a, v), db[a] = "asked", ~v.there, form[a].way # "login"
        PROVE  /\ db[a] = "asked" /\ form[a].way # "login"
               /\ ~tree[NodeOf(a)].there /\ Bare(NodeOf(a)) /\ OnNode(a)
    <3>1. OnNode(a) /\ Sees(DeviceOf(a), NodeOf(a), v)
      BY <2>2 DEF OnNode, Reads
    <3>2. v = tree[NodeOf(a)] /\ Bare(NodeOf(a))
      BY <1>0, <2>2, <3>1, ReadsCover
    <3> QED
      BY <2>2, <3>1, <3>2
  <2> QED
    BY <1>0, <1>1, <2>1, <2>2, VacantFrom
<1>2. CASE form'[a].way # "login" /\ db'[a] \in {"node", "listAsked", "listRaised"}
  <2>1. db'[a] = "node" => db[a] = "node" \/ Vacant(a)
    BY <1>0, AttemptsGo
  <2>2. db'[a] = "listAsked" => db[a] \in {"listAsked", "node"}
    BY <1>0, AttemptsGo
  <2>3. db'[a] = "listRaised" => db[a] \in {"listRaised", "listAsked"}
    BY <1>0, RaisedFrom
  <2> QED
    BY <1>0, <1>2, <2>1, <2>2, <2>3 DEF Claims
<1> QED
  BY <1>1, <1>2 DEF Claims

LEMMA SoundStays ==
    ASSUME UsersInv, Onward, Shape, NEW l, Sound(l)
    PROVE  Sound(l)'
<1>0. NodeInv /\ ProductsInv /\ crossed \subseteq crossed'
  BY DEF UsersInv, ProductsInv, Onward
<1>1. \A i \in DOMAIN l : l[i] \in Users /\ tree'[l[i]].there
  BY <1>0, ThereStays DEF Sound
<1>2. \A i, k \in DOMAIN l : l[i] = l[k] => i = k \/ l[i] \in crossed'
  BY <1>0 DEF Sound
<1>3. ASSUME NEW a \in Attempts, Claims(a)', NodeOf(a)' \notin crossed'
      PROVE  NodeOf(a)' \notin Elements(l)
  <2>1. NodeOf(a)' = NodeOf(a) /\ NodeOf(a) \notin crossed
    BY <1>0, <1>3, SameNode
  <2>2. CASE Claims(a)
    BY <2>1, <2>2 DEF Sound
  <2>3. CASE ~tree[NodeOf(a)].there
    BY <2>1, <2>3 DEF Sound, Elements
  <2> QED
    BY <1>0, <1>3, <2>2, <2>3, ClaimsFrom
<1> QED
  BY <1>1, <1>2, <1>3 DEF Sound

\* A copy of the list of users is an earlier one, or one with a user added.
LEMMA CopyFrom ==
    ASSUME NodeInv, Shape, NEW l, ListCopy(l)'
    PROVE  \/ ListCopy(l)
           \/ \E j \in Jobs : \E w : Writes(j, w, "list") /\ l = w.val.list
<1>0. WriteInv /\ KindsMatch /\ UsersNode \in Paths /\ UsersNode \notin Users
  BY AccountAssumption DEF NodeInv, Paths
<1>1. CASE l = tree'[UsersNode].list
  <2>1. CASE tree'[UsersNode] = tree[UsersNode]
    BY <1>1, <2>1 DEF ListCopy
  <2>2. ASSUME NEW d \in Devices, NEW i \in DOMAIN pending[d], pending[d][i].node = UsersNode,
               tree'[UsersNode] = pending[d][i].val
        PROVE  ListCopy(l)
    BY <1>1, <2>2 DEF ListCopy
  <2> QED
    BY <1>0, <2>1, <2>2, TreeFrom
<1>2. ASSUME NEW d \in Devices, NEW i \in DOMAIN pending'[d],
             pending'[d][i].node = UsersNode, l = pending'[d][i].val.list
      PROVE  \/ ListCopy(l)
             \/ \E j \in Jobs : \E w : Writes(j, w, "list") /\ l = w.val.list
  <2>1. ASSUME NEW k \in DOMAIN pending[d], pending'[d][i].node = pending[d][k].node,
               pending'[d][i].val = pending[d][k].val
        PROVE  ListCopy(l)
    BY <1>2, <2>1 DEF ListCopy
  <2>2. ASSUME NEW j \in Jobs, NEW w, NEW next, Writes(j, w, next), pending'[d][i] = w
        PROVE  Writes(j, w, "list") /\ l = w.val.list
    <3>1. next = "list"
      <4>1. ASSUME next = "node"
            PROVE  FALSE
        <5>1. w.node = NodeOf(j) /\ (j \in Attempts \/ (j \in Products /\ db[j] = "raised"))
          BY <2>2, <4>1 DEF Writes, Vacant
        <5>2. NodeOf(j) \in Users
          BY <1>0, <5>1, JobTypes DEF WriteInv
        <5> QED
          BY <1>0, <1>2, <2>2, <5>1, <5>2
      <4> QED
        BY <2>2, <4>1 DEF Writes
    <3> QED
      BY <1>2, <2>2, <3>1
  <2> QED
    BY <1>0, <2>1, <2>2, PutsFrom
<1>3. ASSUME NEW a \in Attempts, db'[a] = "listRaised", l = snap'[a].list
      PROVE  ListCopy(l)
  <2>0. a \in Jobs
    BY DEF Jobs
  <2>1. CASE db[a] = "listRaised" /\ snap'[a] = snap[a]
    BY <1>3, <2>1 DEF ListCopy
  <2>2. ASSUME NEW v, Reads(a, v), snap'[a] = v, db[a] = "listAsked"
        PROVE  ListCopy(l)
    <3>1. Sees(DeviceOf(a), UsersNode, v) /\ DeviceOf(a) \in Devices
      BY <1>0, <2>0, <2>2, JobTypes DEF Reads, WriteInv
    <3> QED
      BY <1>3, <2>2, <3>1 DEF Sees, PutsTo, ListCopy
  <2> QED
    BY <1>0, <1>3, <2>0, <2>1, <2>2, RaisedFrom
<1> QED
  BY <1>1, <1>2, <1>3 DEF ListCopy

\* The list with a user added is sound if the list was.
LEMMA AddedSound ==
    ASSUME UsersInv, Onward, Shape, NEW j \in Jobs, NEW w, Writes(j, w, "list")
    PROVE  Sound(w.val.list)'
<1>0. /\ NodeInv /\ WriteInv /\ KindsMatch /\ ProductsInv /\ j \in Attempts
      /\ db[j] = "listRaised" /\ db'[j] = "list" /\ UNCHANGED <<tree, crossed, form>>
      /\ NodeOf(j) \in Users
  BY JobTypes DEF Writes, UsersInv, ProductsInv, NodeInv, WriteInv, TypeInv, AccountTypeOK, Onward
<1>1. PICK s : s = snap[j].list
  OBVIOUS
<1>2. PICK u \in Users : u = NodeOf(j)
  BY <1>0
<1>3. PICK l : l = w.val.list
  OBVIOUS
<1>4. l = Append(s, u) /\ s \in Seq(Products \cup Users)
  BY <1>0, <1>1, <1>2, <1>3 DEF Writes, WriteInv, TypeInv, AccountTypeOK, Entry
<1>5. Sound(s)
  BY <1>0, <1>1 DEF ListCopy, UsersInv
<1>6. Sound(s)'
  BY <1>5, SoundStays
<1>7. Claims(j)
  BY <1>0 DEF Claims, KindsMatch
<1>8. tree[u].there
  BY <1>0, <1>2 DEF UsersInv, ListedThere, ListStages
<1>9. /\ Len(s) \in Nat /\ DOMAIN s = 1..Len(s) /\ DOMAIN l = 1..(Len(s) + 1)
      /\ \A i \in DOMAIN s : l[i] = s[i]
      /\ l[Len(s) + 1] = u
  BY <1>4
<1>10. Elements(l) = Elements(s) \cup {u}
  BY <1>4, AppendElements
<1>11. ASSUME NEW i \in DOMAIN l
       PROVE  l[i] \in Users /\ tree'[l[i]].there
  <2>1. i \in DOMAIN s \/ i = Len(s) + 1
    BY <1>9
  <2> QED
    BY <1>0, <1>5, <1>8, <1>9, <2>1 DEF Sound
<1>12. ASSUME NEW i \in DOMAIN s, l[i] = u
       PROVE  u \in crossed
  BY <1>0, <1>2, <1>5, <1>7, <1>9, <1>12 DEF Sound, Elements
<1>13. ASSUME NEW i \in DOMAIN l, NEW k \in DOMAIN l, l[i] = l[k]
       PROVE  i = k \/ l[i] \in crossed'
  <2>1. (i \in DOMAIN s \/ i = Len(s) + 1) /\ (k \in DOMAIN s \/ k = Len(s) + 1)
    BY <1>9
  <2>2. CASE i \in DOMAIN s /\ k \in DOMAIN s
    BY <1>0, <1>5, <1>9, <1>13, <2>2 DEF Sound
  <2>3. CASE i = Len(s) + 1 \/ k = Len(s) + 1
    BY <1>0, <1>9, <1>12, <1>13, <2>1, <2>3
  <2> QED
    BY <2>1, <2>2, <2>3
<1>14. ASSUME NEW a \in Attempts, Claims(a)', NodeOf(a)' \notin crossed'
       PROVE  NodeOf(a)' \notin Elements(l)
  <2>1. NodeOf(a)' = NodeOf(a) /\ NodeOf(a) \notin crossed
    BY <1>0, <1>14, SameNode
  <2>2. NodeOf(a)' \notin Elements(s)
    BY <1>6, <1>14 DEF Sound
  <2>3. ASSUME NodeOf(a) = u
        PROVE  FALSE
    <3>1. a # j
      BY <1>0, <1>14 DEF Claims, Vacant
    <3>2. Claims(a)
      BY <1>0, <1>8, <1>14, <2>3, ClaimsFrom
    <3> QED
      BY <1>0, <1>2, <1>7, <2>1, <2>3, <3>1, <3>2 DEF UsersInv, OneClaim
  <2> QED
    BY <1>10, <2>1, <2>2, <2>3
<1>15. Sound(l)'
  BY <1>11, <1>13, <1>14 DEF Sound
<1> QED
  BY <1>3, <1>15 DEF Sound

LEMMA ShapeCopies ==
    ASSUME UsersInv, Onward, Shape, NEW l, ListCopy(l)'
    PROVE  Sound(l)'
<1>1. CASE ListCopy(l)
  BY <1>1, SoundStays DEF UsersInv
<1>2. ASSUME NEW j \in Jobs, NEW w, Writes(j, w, "list"), l = w.val.list
      PROVE  Sound(l)'
  BY <1>2, AddedSound DEF Sound
<1> QED
  BY <1>1, <1>2, CopyFrom DEF UsersInv, ProductsInv

\* Who finds a node bare finds nobody who is going to add it.
LEMMA NoRival ==
    ASSUME UsersInv, NEW a \in Attempts, NEW b \in Attempts, a # b, NodeOf(a) = NodeOf(b),
           NodeOf(a) \notin crossed, Claims(b), db[a] = "asked", OnNode(a),
           ~tree[NodeOf(a)].there, Bare(NodeOf(a))
    PROVE  FALSE
<1>0. NodeInv /\ WriteInv /\ PutsKept /\ NodeTurns /\ a \in Jobs /\ b \in Jobs
  BY DEF UsersInv, ProductsInv, NodeInv, Jobs
<1>1. CASE Vacant(b)
  <2>1. OnNode(b) /\ db[b] # "node"
    BY <1>1 DEF Vacant, OnNode
  <2> QED
    BY <1>0, <2>1 DEF NodeTurns
<1>2. CASE db[b] = "node"
  <2>1. DeviceOf(b) \in Devices
    BY <1>0, JobTypes DEF WriteInv
  <2>2. PICK i \in DOMAIN pending[DeviceOf(b)] : pending[DeviceOf(b)][i].by = b
    BY <1>0, <1>2 DEF PutsKept
  <2>3. PICK w : w = pending[DeviceOf(b)][i]
    OBVIOUS
  <2>4. w.by = b /\ Kept(w)
    BY <1>0, <2>1, <2>2, <2>3 DEF PutsKept
  <2>5. w.node = NodeOf(b)
    BY <1>2, <2>4 DEF Kept
  <2> QED
    BY <2>1, <2>2, <2>3, <2>5 DEF Bare
<1>3. CASE db[b] \in {"listAsked", "listRaised"}
  BY <1>3 DEF UsersInv, ListedThere, ListStages
<1> QED
  BY <1>1, <1>2, <1>3 DEF Claims

LEMMA ShapeClaims ==
    ASSUME UsersInv, Onward, Shape
    PROVE  OneClaim'
<1> SUFFICES ASSUME NEW a \in Attempts, NEW b \in Attempts, Claims(a)', Claims(b)',
                    NodeOf(a)' = NodeOf(b)', NodeOf(a)' \notin crossed', a # b
             PROVE  FALSE
  BY DEF OneClaim
<1>0. ProductsInv /\ NodeInv /\ NodeTurns /\ a \in Jobs /\ b \in Jobs
  BY DEF UsersInv, ProductsInv, NodeInv, Jobs
<1>1. /\ NodeOf(a)' = NodeOf(a) /\ NodeOf(b)' = NodeOf(b)
      /\ NodeOf(a) = NodeOf(b) /\ NodeOf(a) \notin crossed
  BY SameNode DEF Onward
<1>2. \/ Claims(a)
      \/ /\ db[a] = "asked" /\ form[a].way # "login"
         /\ ~tree[NodeOf(a)].there /\ Bare(NodeOf(a)) /\ OnNode(a)
  BY <1>0, ClaimsFrom
<1>3. \/ Claims(b)
      \/ /\ db[b] = "asked" /\ form[b].way # "login"
         /\ ~tree[NodeOf(b)].there /\ Bare(NodeOf(b)) /\ OnNode(b)
  BY <1>0, ClaimsFrom
<1>4. CASE Claims(a) /\ Claims(b)
  BY <1>1, <1>4 DEF UsersInv, OneClaim
<1>5. CASE Claims(a) /\ ~Claims(b)
  BY <1>1, <1>3, <1>5, NoRival
<1>6. CASE ~Claims(a) /\ Claims(b)
  BY <1>1, <1>2, <1>6, NoRival
<1>7. CASE ~Claims(a) /\ ~Claims(b)
  BY <1>0, <1>1, <1>2, <1>3, <1>7 DEF NodeTurns
<1> QED
  BY <1>4, <1>5, <1>6, <1>7

LEMMA ShapeListed ==
    ASSUME UsersInv, Onward, Shape
    PROVE  ListedThere'
<1> SUFFICES ASSUME NEW a \in Attempts, db'[a] \in ListStages \cup {"done"}
             PROVE  tree'[NodeOf(a)'].there
  BY DEF ListedThere
<1>0. NodeInv /\ WriteInv /\ KindsMatch /\ a \in Jobs
  BY DEF UsersInv, ProductsInv, NodeInv, Jobs
<1>1. NodeOf(a)' = NodeOf(a) /\ NodeOf(a) \in Users
  BY <1>0, SameNode, JobTypes DEF WriteInv
<1>2. tree[NodeOf(a)].there
  <2>1. CASE db[a] \in ListStages \cup {"done"}
    BY <2>1 DEF UsersInv, ListedThere
  <2>2. CASE db[a] \notin ListStages \cup {"done"}
    <3>1. db'[a] # "listRaised"
      BY <1>0, <2>2, RaisedFrom DEF ListStages
    <3>2. db'[a] # "list" /\ db'[a] # "done"
      BY <1>0, <2>2, AttemptsGo DEF ListStages
    <3>3. db'[a] = "listAsked"
      BY <3>1, <3>2 DEF ListStages
    <3> QED
      BY <1>0, <2>2, <3>3, AttemptsGo DEF ListStages
  <2> QED
    BY <2>1, <2>2
<1> QED
  BY <1>0, <1>1, <1>2, ThereStays

\* A write of the list of users.
LEMMA ListPut ==
    ASSUME NodeInv, NEW d \in Devices, NEW i \in DOMAIN pending[d],
           pending[d][i].node = UsersNode
    PROVE  /\ pending[d][i].by \in Attempts /\ db[pending[d][i].by] = "list"
           /\ NodeOf(pending[d][i].by) \in Elements(pending[d][i].val.list)
<1>1. PICK w : w = pending[d][i]
  OBVIOUS
<1>2. Kept(w)
  BY <1>1 DEF NodeInv, PutsKept
<1> QED
  BY <1>1, <1>2 DEF Kept

\* One attempt at a time has at most one such write.
LEMMA OneListPut ==
    ASSUME NodeInv, OneLister, NEW d \in Devices, NEW i \in DOMAIN pending[d],
           NEW e \in Devices, NEW k \in DOMAIN pending[e],
           pending[d][i].node = UsersNode, pending[e][k].node = UsersNode
    PROVE  d = e /\ i = k
<1>1. pending[d][i].by = pending[e][k].by
  BY ListPut DEF OneLister, ListStages
<1>2. WriteInv
  BY DEF NodeInv
<1>3. d = e
  BY <1>1, <1>2, Queued
<1> QED
  BY <1>1, <1>2, <1>3, Queued

\* A write is performed in this step or was before.
LEMMA OkFrom ==
    ASSUME WriteInv, Shape, NEW d \in Devices, NEW i \in DOMAIN pending'[d],
           pending'[d][i].fate = "ok"
    PROVE  \E k \in DOMAIN pending[d] :
              /\ pending'[d][i].by = pending[d][k].by
              /\ pending'[d][i].node = pending[d][k].node
              /\ \/ pending[d][k].fate = "ok"
                 \/ tree'[pending[d][k].node] = pending[d][k].val
<1> DEFINE Before(k) == /\ pending'[d][i].by = pending[d][k].by
                        /\ pending'[d][i].node = pending[d][k].node
                        /\ \/ pending[d][k].fate = "ok"
                           \/ tree'[pending[d][k].node] = pending[d][k].val
<1>1. ASSUME NEW k \in DOMAIN pending[d], pending'[d][i] = pending[d][k]
      PROVE  Before(k)
  BY <1>1
<1>2. CASE UNCHANGED pending
  BY <1>1, <1>2
<1>3. ASSUME NEW j \in Jobs, NEW w, NEW next, Writes(j, w, next)
      PROVE  \E k \in DOMAIN pending[d] : Before(k)
  <2>1. PICK d0 : d0 = DeviceOf(j)
    OBVIOUS
  <2>2. PICK n : n = Len(pending[d0])
    OBVIOUS
  <2>3. /\ n \in Nat /\ DOMAIN pending[d0] = 1..n /\ DOMAIN pending'[d0] = 1..(n + 1)
        /\ \A k \in 1..n : pending'[d0][k] = pending[d0][k]
        /\ pending'[d0][n + 1] = w /\ w.fate = "sent"
        /\ \A e \in Devices : e # d0 => pending'[e] = pending[e]
    BY <1>3, <2>1, <2>2 DEF Writes, Entered
  <2>4. CASE d # d0
    BY <1>1, <2>3, <2>4
  <2>5. CASE d = d0
    <3>1. i \in 1..n
      BY <2>3, <2>5
    <3> QED
      BY <1>1, <2>3, <2>5, <3>1
  <2> QED
    BY <2>4, <2>5
<1>4. ASSUME NEW e \in Devices, NEW m \in DOMAIN pending[e], Serves(e, m)
      PROVE  \E k \in DOMAIN pending[d] : Before(k)
  <2>1. CASE d # e \/ i # m
    <3>1. i \in DOMAIN pending[d] /\ pending'[d][i] = pending[d][i]
      BY <1>4, <2>1 DEF Serves
    <3> QED
      BY <1>1, <3>1
  <2>2. CASE d = e /\ i = m
    <3>1. PICK x : x = pending[d][i]
      OBVIOUS
    <3>2. PICK y : y = pending'[d][i]
      OBVIOUS
    <3>3. PICK f : f = IF x.by \in denied THEN "denied" ELSE "ok"
      OBVIOUS
    <3>4. /\ y = [x EXCEPT !.fate = f] /\ i \in DOMAIN pending[d]
          /\ tree' = IF x.by \in denied THEN tree ELSE [tree EXCEPT ![x.node] = x.val]
      BY <1>4, <2>2, <3>1, <3>2, <3>3 DEF Serves
    <3>5. x \in AccountWrites
      BY <2>2, <3>1, Queued
    <3>6. y.by = x.by /\ y.node = x.node /\ y.fate = f /\ x.node \in Paths
      BY <3>4, <3>5 DEF AccountWrites, Paths
    <3>7. tree' = [tree EXCEPT ![x.node] = x.val]
      BY <3>2, <3>3, <3>4, <3>6
    <3>8. tree'[x.node] = x.val
      BY <3>6, <3>7 DEF WriteInv, TypeInv, AccountTypeOK
    <3> QED
      BY <3>1, <3>2, <3>4, <3>6, <3>8
  <2> QED
    BY <2>1, <2>2
<1>5. ASSUME NEW e \in Devices, Resends(e)
      PROVE  \E k \in DOMAIN pending[d] : Before(k)
  <2>1. CASE d # e
    BY <1>1, <1>5, <2>1 DEF Resends
  <2>2. CASE d = e
    <3>1. i \in DOMAIN pending[d]
      BY <1>5, <2>2 DEF Resends
    <3>2. PICK x : x = pending[d][i]
      OBVIOUS
    <3>3. PICK y : y = pending'[d][i]
      OBVIOUS
    <3>4. y = x \/ y = [x EXCEPT !.fate = "sent"]
      BY <1>5, <2>2, <3>1, <3>2, <3>3 DEF Resends
    <3>5. x \in AccountWrites
      BY <3>1, <3>2, Queued
    <3>6. y.by = x.by /\ y.node = x.node /\ x.fate = "ok"
      BY <3>3, <3>4, <3>5 DEF AccountWrites
    <3> QED
      BY <3>1, <3>2, <3>3, <3>6
  <2> QED
    BY <2>1, <2>2
<1>6. ASSUME NEW e \in Devices, NEW w, Leaves(e, w)
      PROVE  \E k \in DOMAIN pending[d] : Before(k)
  <2>1. CASE d # e
    BY <1>1, <1>6, <2>1 DEF Leaves
  <2>2. CASE d = e
    <3>1. i + 1 \in DOMAIN pending[d] /\ pending'[d][i] = pending[d][i + 1]
      BY <1>6, <2>2 DEF Leaves
    <3> QED
      BY <1>1, <3>1
  <2> QED
    BY <2>1, <2>2
<1>7. ASSUME NEW e \in Devices, Drops(e)
      PROVE  \E k \in DOMAIN pending[d] : Before(k)
  <2>1. DOMAIN pending'[e] = {}
    BY <1>7 DEF Drops
  <2>2. d # e
    BY <2>1
  <2> QED
    BY <1>1, <1>7, <2>2 DEF Drops
<1> QED
  BY <1>2, <1>3, <1>4, <1>5, <1>6, <1>7 DEF Shape, Rest, Reads

\* While attempts take turns, a step leaves the list of users as it is, or puts the
\* user node of a queued write behind it.
LEMMA ListGrows ==
    ASSUME NodeInv, PutsHold, Shape
    PROVE  \/ tree'[UsersNode].list = tree[UsersNode].list
           \/ \E d \in Devices : \E i \in DOMAIN pending[d] :
                 /\ pending[d][i].node = UsersNode
                 /\ pending[d][i].val.list = Append(tree[UsersNode].list, NodeOf(pending[d][i].by))
                 /\ tree'[UsersNode] = pending[d][i].val
<1>1. UsersNode \in Paths
  BY DEF Paths
<1> QED
  BY <1>1, TreeFrom DEF PutsHold

LEMMA ListedStays ==
    ASSUME NodeInv, PutsHold, Shape
    PROVE  Elements(tree[UsersNode].list) \subseteq Elements(tree'[UsersNode].list)
<1>1. PICK l : l = tree[UsersNode].list
  OBVIOUS
<1>2. l \in Seq(Products \cup Users)
  BY <1>1 DEF NodeInv, WriteInv, TypeInv, AccountTypeOK, Entry, Paths
<1>3. \A x : Elements(l) \subseteq Elements(Append(l, x))
  BY <1>2, AppendElements
<1> QED
  BY <1>1, <1>3, ListGrows

LEMMA ShapeLister ==
    ASSUME NodeInv, Onward, Shape, OneLister, ~listShared'
    PROVE  OneLister'
<1>0. WriteInv /\ KindsMatch
  BY DEF NodeInv
<1>1. ASSUME NEW a \in Attempts, db'[a] \in ListStages, db[a] \notin ListStages
      PROVE  \A b \in Attempts : db[b] \notin ListStages /\ (b # a => db'[b] = db[b])
  <2>1. db'[a] # "listRaised"
    BY <1>0, <1>1, RaisedFrom DEF ListStages, Jobs
  <2>2. db'[a] # "list"
    BY <1>1, AttemptsGo DEF ListStages
  <2>3. db'[a] = "listAsked"
    BY <1>1, <2>1, <2>2 DEF ListStages
  <2> QED
    BY <1>1, <2>3, AttemptsGo DEF ListStages
<1> QED
  BY <1>1 DEF OneLister

LEMMA ShapeReads ==
    ASSUME NodeInv, Onward, Shape, OneLister, ReadsHold
    PROVE  ReadsHold'
<1> SUFFICES ASSUME NEW a \in Attempts, db'[a] = "listRaised"
             PROVE  snap'[a].list = tree'[UsersNode].list
  BY DEF ReadsHold
<1>0. WriteInv /\ KindsMatch /\ a \in Jobs /\ UsersNode \in Paths
  BY DEF NodeInv, Jobs, Paths
<1>1. CASE db[a] = "listRaised" /\ snap'[a] = snap[a]
  <2>1. ASSUME NEW d \in Devices, NEW i \in DOMAIN pending[d], pending[d][i].node = UsersNode
        PROVE  FALSE
    BY <1>1, <2>1, ListPut DEF OneLister, ListStages
  <2>2. tree'[UsersNode] = tree[UsersNode]
    BY <1>0, <2>1, TreeFrom
  <2> QED
    BY <1>1, <2>2 DEF ReadsHold
<1>2. ASSUME NEW v, Reads(a, v), snap'[a] = v, db[a] = "listAsked"
      PROVE  snap'[a].list = tree'[UsersNode].list
  <2>1. DeviceOf(a) \in Devices /\ UNCHANGED tree /\ Sees(DeviceOf(a), UsersNode, v)
    BY <1>0, <1>2, JobTypes DEF Reads, WriteInv
  <2>2. ASSUME NEW d \in Devices, NEW i \in DOMAIN pending[d], pending[d][i].node = UsersNode
        PROVE  FALSE
    BY <1>2, <2>2, ListPut DEF OneLister, ListStages
  <2>3. v = tree[UsersNode]
    BY <2>1, <2>2 DEF Sees, PutsTo
  <2> QED
    BY <1>2, <2>1, <2>3
<1> QED
  BY <1>0, <1>1, <1>2, RaisedFrom

LEMMA ShapePutsHold ==
    ASSUME NodeInv, Onward, Shape, OneLister, ReadsHold, PutsHold
    PROVE  PutsHold'
<1> SUFFICES ASSUME NEW d \in Devices, NEW i \in DOMAIN pending'[d],
                    pending'[d][i].node = UsersNode
             PROVE  \/ pending'[d][i].val.list = tree'[UsersNode].list
                    \/ /\ pending'[d][i].val.list =
                              Append(tree'[UsersNode].list, NodeOf(pending[d][i].by)')
                       /\ pending'[d][i].fate # "ok"
  BY DEF PutsHold
<1>0. WriteInv /\ KindsMatch /\ UsersNode \in Paths /\ UsersNode \notin Users
  BY AccountAssumption DEF NodeInv, Paths
<1>1. ASSUME NEW k \in DOMAIN pending[d], pending'[d][i].by = pending[d][k].by,
             pending'[d][i].node = pending[d][k].node, pending'[d][i].val = pending[d][k].val
      PROVE  \/ pending'[d][i].val.list = tree'[UsersNode].list
             \/ /\ pending'[d][i].val.list =
                       Append(tree'[UsersNode].list, NodeOf(pending[d][i].by)')
                /\ pending'[d][i].fate # "ok"
  <2>1. PICK x \in Attempts : x = pending[d][k].by
    BY <1>1, ListPut
  <2>2. NodeOf(pending[d][i].by)' = NodeOf(x)
    <3>1. NodeOf(x)' = NodeOf(x)
      BY SameNode
    <3>2. x = pending'[d][i].by
      BY <1>1, <2>1
    <3> QED
      BY <3>1, <3>2 DEF NodeOf
  <2>3. CASE pending[d][k].val = tree'[UsersNode]
    BY <1>1, <2>3
  <2>4. CASE pending[d][k].val # tree'[UsersNode]
    <3>1. tree'[UsersNode] = tree[UsersNode]
      <4>1. ASSUME NEW e \in Devices, NEW m \in DOMAIN pending[e], pending[e][m].node = UsersNode,
                   tree'[UsersNode] = pending[e][m].val
            PROVE  FALSE
        <5>1. d = e /\ k = m
          BY <1>1, <4>1, OneListPut
        <5> QED
          BY <2>4, <4>1, <5>1
      <4> QED
        BY <1>0, <4>1, TreeFrom
    <3>2. pending'[d][i].fate = "ok" => pending[d][k].fate = "ok"
      <4> SUFFICES ASSUME pending'[d][i].fate = "ok"
                   PROVE  pending[d][k].fate = "ok"
        OBVIOUS
      <4>1. PICK m \in DOMAIN pending[d] :
                  /\ pending'[d][i].node = pending[d][m].node
                  /\ \/ pending[d][m].fate = "ok"
                     \/ tree'[pending[d][m].node] = pending[d][m].val
        BY <1>0, OkFrom
      <4>2. k = m
        BY <1>1, <4>1, OneListPut
      <4> QED
        BY <1>1, <2>4, <4>1, <4>2
    <3>3. \/ pending[d][k].val.list = tree[UsersNode].list
          \/ /\ pending[d][k].val.list = Append(tree[UsersNode].list, NodeOf(x))
             /\ pending[d][k].fate # "ok"
      BY <1>1, <2>1 DEF PutsHold
    <3> QED
      BY <1>1, <2>2, <3>1, <3>2, <3>3
  <2> QED
    BY <2>3, <2>4
<1>2. ASSUME NEW j \in Jobs, NEW w, NEW next, Writes(j, w, next), pending'[d][i] = w
      PROVE  /\ pending'[d][i].val.list =
                    Append(tree'[UsersNode].list, NodeOf(pending[d][i].by)')
             /\ pending'[d][i].fate # "ok"
  <2>1. next # "node"
    <3>1. ASSUME next = "node"
          PROVE  FALSE
      <4>1. w.node = NodeOf(j) /\ (j \in Attempts \/ (j \in Products /\ db[j] = "raised"))
        BY <1>2, <3>1 DEF Writes, Vacant
      <4>2. NodeOf(j) \in Users
        BY <1>0, <4>1, JobTypes DEF WriteInv
      <4> QED
        BY <1>0, <1>2, <4>1, <4>2
    <3> QED
      BY <3>1
  <2>2. /\ j \in Attempts /\ db[j] = "listRaised" /\ UNCHANGED tree
        /\ w.val.list = Append(snap[j].list, NodeOf(j))
        /\ w.by = j /\ w.fate = "sent"
    BY <1>2, <2>1 DEF Writes
  <2>3. snap[j].list = tree[UsersNode].list
    BY <2>2 DEF ReadsHold
  <2>4. NodeOf(pending[d][i].by)' = NodeOf(j)
    <3>1. NodeOf(j)' = NodeOf(j)
      BY <2>2, SameNode
    <3>2. j = pending'[d][i].by
      BY <1>2, <2>2
    <3> QED
      BY <3>1, <3>2 DEF NodeOf
  <2> QED
    BY <1>2, <2>2, <2>3, <2>4
<1> QED
  BY <1>0, <1>1, <1>2, PutsFrom

LEMMA ShapeDone ==
    ASSUME NodeInv, Onward, Shape, PutsHold, DoneListed
    PROVE  DoneListed'
<1> SUFFICES ASSUME NEW a \in Attempts, db'[a] = "done"
             PROVE  NodeOf(a)' \in Elements(tree'[UsersNode].list)
  BY DEF DoneListed
<1>1. NodeOf(a)' = NodeOf(a)
  BY SameNode
<1>2. NodeOf(a) \in Elements(tree[UsersNode].list)
  <2>1. CASE db[a] = "done"
    BY <2>1 DEF DoneListed
  <2>2. ASSUME NEW d \in Devices, NEW i \in DOMAIN pending[d], pending[d][i].node = UsersNode,
               pending[d][i].by = a, pending[d][i].fate = "ok"
        PROVE  NodeOf(a) \in Elements(tree[UsersNode].list)
    <3>1. pending[d][i].val.list = tree[UsersNode].list
      BY <2>2 DEF PutsHold
    <3> QED
      BY <2>2, <3>1, ListPut
  <2> QED
    BY <2>1, <2>2, AttemptsGo
<1> QED
  BY <1>1, <1>2, ListedStays

LEMMA NextUsersInv == UsersInv /\ [Next]_vars => UsersInv'
<1> SUFFICES ASSUME UsersInv, [Next]_vars
             PROVE  UsersInv'
  OBVIOUS
<1>1. ProductsInv /\ NodeInv /\ ListTurns
  BY DEF UsersInv, ProductsInv
<1>2. ProductsInv' /\ Onward /\ Shape
  BY <1>1, NextNodeInv, NextProductsInv
<1>3. listShared => listShared'
  BY <1>2 DEF Onward
<1> HIDE DEF UsersInv, ProductsInv, NodeInv, Onward, Shape, Next
<1>4. \A l : ListCopy(l)' => Sound(l)'
  BY <1>2, ShapeCopies
<1>5. OneClaim' /\ ListedThere'
  BY <1>2, ShapeClaims, ShapeListed
<1>6. ListTurns'
  <2> SUFFICES ASSUME ~listShared'
               PROVE  OneLister' /\ ReadsHold' /\ PutsHold' /\ DoneListed'
    BY DEF ListTurns
  <2>1. OneLister /\ ReadsHold /\ PutsHold /\ DoneListed
    BY <1>1, <1>3 DEF ListTurns
  <2> QED
    BY <1>1, <1>2, <2>1, ShapeLister, ShapeReads, ShapePutsHold, ShapeDone
<1> QED
  BY <1>2, <1>4, <1>5, <1>6 DEF UsersInv

LEMMA InitUsersInv == Init => UsersInv
<1> SUFFICES ASSUME Init
             PROVE  UsersInv
  OBVIOUS
<1>1. ProductsInv
  BY InitProductsInv
<1>2. \A a \in Attempts : db[a] = "none"
  BY DEF Init, Jobs
<1>3. ASSUME NEW d \in Devices
      PROVE  DOMAIN pending[d] = {}
  <2>1. pending[d] = <<>>
    BY DEF Init
  <2> QED
    BY <2>1
<1>4. OneClaim /\ ListedThere /\ ListTurns
  BY <1>2, <1>3 DEF OneClaim, Claims, Vacant, ListedThere, ListStages, ListTurns, OneLister,
                    ReadsHold, PutsHold, DoneListed
<1>5. ASSUME NEW l, ListCopy(l)
      PROVE  l = tree[UsersNode].list
  BY <1>2, <1>3, <1>5 DEF ListCopy
<1>6. Sound(tree[UsersNode].list)
  <2>1. PICK n \in 0..Cardinality(Emails) : \E old \in [1..n -> Emails] :
          /\ \A i, j \in 1..n : safe[old[i]] = safe[old[j]] => i = j
          /\ tree = [p \in Paths |->
                IF \E i \in 1..n : safe[old[i]] = p
                THEN NewUser(old[CHOOSE i \in 1..n : safe[old[i]] = p])
                ELSE IF p = UsersNode /\ n > 0
                THEN [there |-> TRUE, list |-> [i \in 1..n |-> safe[old[i]]], name |-> NoEmail]
                ELSE NoEntry]
    BY DEF Init
  <2>2. PICK old \in [1..n -> Emails] :
          /\ \A i, j \in 1..n : safe[old[i]] = safe[old[j]] => i = j
          /\ tree = [p \in Paths |->
                IF \E i \in 1..n : safe[old[i]] = p
                THEN NewUser(old[CHOOSE i \in 1..n : safe[old[i]] = p])
                ELSE IF p = UsersNode /\ n > 0
                THEN [there |-> TRUE, list |-> [i \in 1..n |-> safe[old[i]]], name |-> NoEmail]
                ELSE NoEntry]
    BY <2>1
  <2>3. safe \in [Emails -> Users] /\ UsersNode \in Paths /\ UsersNode \notin Users
    BY AccountAssumption DEF Init, Paths
  <2>4. PICK l : l = tree[UsersNode].list
    OBVIOUS
  <2>5. l = <<>> \/ l = [i \in 1..n |-> safe[old[i]]]
    <3>1. ~\E i \in 1..n : safe[old[i]] = UsersNode
      BY <2>3
    <3>2. \/ tree[UsersNode] = NoEntry
          \/ tree[UsersNode] = [there |-> TRUE, list |-> [i \in 1..n |-> safe[old[i]]],
                                name |-> NoEmail]
      BY <2>2, <2>3, <3>1
    <3> QED
      BY <2>4, <3>2 DEF NoEntry
  <2>6. CASE l = <<>>
    <3>1. DOMAIN l = {}
      BY <2>6
    <3>2. Sound(l)
      BY <3>1 DEF Sound, Elements
    <3> QED
      BY <2>4, <3>2
  <2>7. CASE l = [i \in 1..n |-> safe[old[i]]]
    <3>1. DOMAIN l = 1..n /\ \A i \in 1..n : l[i] = safe[old[i]] /\ l[i] \in Users
      BY <2>3, <2>7
    <3>2. ASSUME NEW k \in 1..n
          PROVE  tree[l[k]].there
      <4>1. PICK u \in Users : u = l[k]
        BY <3>1
      <4>2. u \in Paths /\ \E i \in 1..n : safe[old[i]] = u
        BY <3>1, <4>1 DEF Paths
      <4>3. \E x : tree[u] = NewUser(x)
        BY <2>2, <4>2
      <4>4. \A x : NewUser(x).there
        BY DEF NewUser
      <4> QED
        BY <4>1, <4>3, <4>4
    <3>3. \A i, k \in DOMAIN l : l[i] = l[k] => i = k
      BY <2>2, <3>1
    <3>4. \A a \in Attempts : ~Claims(a)
      BY <1>2 DEF Claims, Vacant
    <3>5. Sound(l)
      BY <3>1, <3>2, <3>3, <3>4 DEF Sound
    <3> QED
      BY <2>4, <3>5
  <2> QED
    BY <2>5, <2>6, <2>7
<1> QED
  BY <1>1, <1>4, <1>5, <1>6 DEF UsersInv

\* A user insertUser has reported as inserted is in the list of users, as long as
\* attempts took turns on the list; and nobody is in it twice, as long as attempts
\* took turns on the user node too.
THEOREM UsersListedCorrect == Spec => []UsersListed
<1>1. UsersInv => UsersListed
  <2> SUFFICES ASSUME UsersInv
               PROVE  UsersListed
    OBVIOUS
  <2>1. Sound(tree[UsersNode].list)
    BY DEF UsersInv, ListCopy
  <2>2. \A a \in Attempts : db[a] = "done" /\ ~listShared =>
            NodeOf(a) \in Elements(tree[UsersNode].list)
    BY DEF UsersInv, ListTurns, DoneListed
  <2> QED
    BY <2>1, <2>2 DEF UsersListed, Sound
<1> QED
  BY <1>1, InitUsersInv, NextUsersInv, PTL DEF Spec

-----------------------------------------------------------------------------
(* The directory of those who have a user node *)

\* The server changes one node in a step, by a write it is there with.
LEMMA OneNodeChanges ==
    ASSUME NodeInv, Shape
    PROVE  \/ UNCHANGED tree
           \/ /\ UNCHANGED <<crossed, listShared>>
              /\ \E d \in Devices : \E i \in DOMAIN pending[d] :
                    /\ pending[d][i].node \in Users \cup {UsersNode} /\ pending[d][i].val.there
                    /\ tree' = [tree EXCEPT ![pending[d][i].node] = pending[d][i].val]
<1>1. ASSUME NEW d \in Devices, NEW i \in DOMAIN pending[d], Serves(d, i), tree' # tree
      PROVE  /\ UNCHANGED <<crossed, listShared>>
             /\ pending[d][i].node \in Users \cup {UsersNode} /\ pending[d][i].val.there
             /\ tree' = [tree EXCEPT ![pending[d][i].node] = pending[d][i].val]
  <2>1. PICK w : w = pending[d][i]
    OBVIOUS
  <2>2. w \in AccountWrites /\ Kept(w)
    BY <2>1, Queued DEF NodeInv, PutsKept
  <2>3. /\ UNCHANGED <<crossed, listShared>>
        /\ tree' = IF w.by \in denied THEN tree ELSE [tree EXCEPT ![w.node] = w.val]
    BY <1>1, <2>1 DEF Serves
  <2> QED
    BY <1>1, <2>1, <2>2, <2>3 DEF AccountWrites, Kept
<1>2. \/ UNCHANGED tree
      \/ \E d \in Devices : \E i \in DOMAIN pending[d] : Serves(d, i)
  BY DEF Shape, Rest, Reads, Writes, Resends, Leaves, Drops
<1> QED
  BY <1>1, <1>2

\* A write to a user node settles somebody.
LEMMA NodeSettles ==
    ASSUME NodeInv, UNCHANGED <<crossed, listShared>>, NEW u \in Users, NEW v, v.there,
           tree' = [tree EXCEPT ![u] = v]
    PROVE  People!Settle(u)
<1>1. tree \in [Paths -> Entry] /\ UsersNode # u /\ UsersNode \in Paths /\ Users \subseteq Paths
  BY AccountAssumption DEF NodeInv, WriteInv, TypeInv, AccountTypeOK, Paths
<1>2. tree'[UsersNode] = tree[UsersNode]
  BY <1>1
<1>3. \A m \in Users : tree'[m] = IF m = u THEN v ELSE tree[m]
  BY <1>1
<1>4. {m \in Users : tree'[m].there} = {m \in Users : tree[m].there} \cup {u}
  BY <1>3
<1> QED
  BY <1>2, <1>4 DEF People!Settle

\* A write to the list of users enters somebody, replaces the directory or leaves it.
LEMMA ListEnters ==
    ASSUME UsersInv, UNCHANGED <<crossed, listShared>>,
           NEW d \in Devices, NEW i \in DOMAIN pending[d], pending[d][i].node = UsersNode,
           tree' = [tree EXCEPT ![UsersNode] = pending[d][i].val]
    PROVE  People!Next \/ UNCHANGED People!vars
<1>0. NodeInv
  BY DEF UsersInv, ProductsInv
<1>1. tree \in [Paths -> Entry] /\ UsersNode \notin Users /\ UsersNode \in Paths
  BY <1>0, AccountAssumption DEF NodeInv, WriteInv, TypeInv, AccountTypeOK, Paths
<1>2. PICK w : w = pending[d][i]
  OBVIOUS
<1>3. PICK l : l = w.val.list
  OBVIOUS
<1>4. PICK t : t = tree[UsersNode].list
  OBVIOUS
<1>5. tree'[UsersNode].list = l
  BY <1>1, <1>2, <1>3
<1>6. {m \in Users : tree'[m].there} = {m \in Users : tree[m].there}
  <2>1. \A m \in Users : tree'[m] = tree[m]
    BY <1>1
  <2> QED
    BY <2>1
<1>7. w.by \in Attempts /\ db[w.by] = "list" /\ NodeOf(w.by) \in Elements(l)
  BY <1>0, <1>2, <1>3, ListPut
<1>8. Sound(l) /\ Sound(t)
  BY <1>2, <1>3, <1>4 DEF UsersInv, ListCopy
<1>9. PICK u : u = NodeOf(w.by)
  OBVIOUS
<1>10. u \in Users /\ tree[u].there
  <2>1. tree[u].there
    BY <1>7, <1>9 DEF UsersInv, ListedThere, ListStages
  <2>2. w.by \in Jobs
    BY <1>7 DEF Jobs
  <2> QED
    BY <1>0, <1>7, <1>9, <2>1, <2>2, JobTypes DEF NodeInv, WriteInv
<1>11. CASE l = t
  BY <1>4, <1>5, <1>6, <1>11 DEF People!vars
<1>12. CASE l # t /\ ~listShared
  <2>1. l = Append(t, u)
    BY <1>2, <1>3, <1>4, <1>9, <1>12 DEF UsersInv, ListTurns, PutsHold
  <2>2. u \notin Elements(t) \/ u \in crossed
    <3>1. t \in Seq(Products \cup Users)
      BY <1>1, <1>4 DEF Entry
    <3>2. /\ Len(t) \in Nat /\ DOMAIN t = 1..Len(t) /\ DOMAIN l = 1..(Len(t) + 1)
          /\ \A k \in DOMAIN t : l[k] = t[k]
          /\ l[Len(t) + 1] = u
      BY <2>1, <3>1
    <3>3. ASSUME NEW k \in DOMAIN t, t[k] = u
          PROVE  u \in crossed
      <4>1. k \in DOMAIN l /\ Len(t) + 1 \in DOMAIN l /\ l[k] = l[Len(t) + 1] /\ k # Len(t) + 1
        BY <3>2, <3>3
      <4> QED
        BY <1>8, <3>2, <4>1 DEF Sound
    <3> QED
      BY <3>3 DEF Elements
  <2>3. u \notin People!Names(t) \/ u \in crossed
    BY <2>2 DEF People!Names, Elements
  <2>4. People!Enter(u)
    BY <1>4, <1>5, <1>6, <1>10, <2>1, <2>3 DEF People!Enter
  <2> QED
    BY <1>10, <2>4 DEF People!Next
<1>13. CASE listShared
  <2>1. l # <<>>
    <3>1. DOMAIN <<>> = {}
      OBVIOUS
    <3> QED
      BY <1>7, <3>1 DEF Elements
  <2>2. People!Names(l) \subseteq {m \in Users : tree[m].there}
    BY <1>8 DEF Sound, People!Names
  <2>3. People!Once(l)
    BY <1>8 DEF Sound, People!Once
  <2>4. People!Replace
    BY <1>5, <1>6, <1>13, <2>1, <2>2, <2>3 DEF People!Replace
  <2> QED
    BY <2>4 DEF People!Next
<1>14. listShared \in BOOLEAN
  BY <1>0 DEF NodeInv, WriteInv, TypeInv, AccountTypeOK
<1> QED
  BY <1>11, <1>12, <1>13, <1>14

LEMMA DirectoryStep ==
    ASSUME UsersInv, UsersInv', [Next]_vars
    PROVE  People!Next \/ UNCHANGED People!vars
<1>0. NodeInv /\ NodeInv'
  BY DEF UsersInv, ProductsInv
<1>1. Onward /\ Shape
  BY <1>0, NextNodeInv
<1>2. CASE UNCHANGED tree
  <2>1. crossed \subseteq crossed' /\ (listShared => listShared')
    BY <1>1 DEF Onward
  <2>2. crossed' \subseteq Users /\ listShared \in BOOLEAN /\ listShared' \in BOOLEAN
    BY <1>0 DEF NodeInv, WriteInv, TypeInv, AccountTypeOK
  <2>3. listShared' \in {listShared, TRUE}
    BY <2>1, <2>2
  <2>4. People!Meet
    BY <1>2, <2>1, <2>2, <2>3 DEF People!Meet
  <2> QED
    BY <2>4 DEF People!Next
<1>3. ASSUME UNCHANGED <<crossed, listShared>>,
             NEW d \in Devices, NEW i \in DOMAIN pending[d],
             pending[d][i].node \in Users \cup {UsersNode}, pending[d][i].val.there,
             tree' = [tree EXCEPT ![pending[d][i].node] = pending[d][i].val]
      PROVE  People!Next \/ UNCHANGED People!vars
  <2>1. CASE pending[d][i].node = UsersNode
    BY <1>3, <2>1, ListEnters
  <2>2. CASE pending[d][i].node \in Users
    BY <1>0, <1>3, <2>2, NodeSettles DEF People!Next
  <2> QED
    BY <1>3, <2>1, <2>2
<1> QED
  BY <1>0, <1>1, <1>2, <1>3, OneNodeChanges

LEMMA InitDirectory == Init => People!Init
<1> SUFFICES ASSUME Init
             PROVE  People!Init
  OBVIOUS
<1>1. /\ crossed = {} /\ listShared = FALSE
      /\ safe \in [Emails -> Users]
  BY DEF Init
<1>2. Sound(tree[UsersNode].list)
  BY InitUsersInv DEF UsersInv, ListCopy
<1>3. ASSUME NEW u \in Users, tree[u].there
      PROVE  u \in People!Names(tree[UsersNode].list)
  <2>1. PICK n \in 0..Cardinality(Emails) : \E old \in [1..n -> Emails] :
            tree = [p \in Paths |->
                IF \E i \in 1..n : safe[old[i]] = p
                THEN NewUser(old[CHOOSE i \in 1..n : safe[old[i]] = p])
                ELSE IF p = UsersNode /\ n > 0
                THEN [there |-> TRUE, list |-> [i \in 1..n |-> safe[old[i]]], name |-> NoEmail]
                ELSE NoEntry]
    BY DEF Init
  <2>2. PICK old \in [1..n -> Emails] :
            tree = [p \in Paths |->
                IF \E i \in 1..n : safe[old[i]] = p
                THEN NewUser(old[CHOOSE i \in 1..n : safe[old[i]] = p])
                ELSE IF p = UsersNode /\ n > 0
                THEN [there |-> TRUE, list |-> [i \in 1..n |-> safe[old[i]]], name |-> NoEmail]
                ELSE NoEntry]
    BY <2>1
  <2>3. u \in Paths /\ UsersNode \in Paths /\ UsersNode \notin Users
    BY AccountAssumption DEF Paths
  <2>4. PICK i \in 1..n : safe[old[i]] = u
    <3>1. ASSUME ~\E i \in 1..n : safe[old[i]] = u
          PROVE  FALSE
      <4>1. tree[u] = NoEntry
        BY <2>2, <2>3, <3>1
      <4> QED
        BY <1>3, <4>1 DEF NoEntry
    <3> QED
      BY <3>1
  <2>5. tree[UsersNode].list = [k \in 1..n |-> safe[old[k]]]
    <3>1. ~\E k \in 1..n : safe[old[k]] = UsersNode
      BY <1>1, <2>3
    <3>2. n > 0
      BY <2>1, <2>4
    <3>3. tree[UsersNode] = [there |-> TRUE, list |-> [k \in 1..n |-> safe[old[k]]],
                             name |-> NoEmail]
      BY <2>2, <2>3, <3>1, <3>2
    <3> QED
      BY <3>3
  <2> QED
    BY <2>4, <2>5 DEF People!Names
<1>4. PICK l : l = tree[UsersNode].list
  OBVIOUS
<1>5. People!Names(l) \subseteq {u \in Users : tree[u].there}
  BY <1>2, <1>4 DEF Sound, People!Names
<1>6. {u \in Users : tree[u].there} = People!Names(l)
  BY <1>3, <1>4, <1>5
<1>7. People!Once(l)
  BY <1>2, <1>4 DEF Sound, People!Once
<1> QED
  BY <1>1, <1>4, <1>6, <1>7 DEF People!Init

\* Registering implements the directory: every step gives somebody a user node, puts
\* the name of somebody who has one at the end of the list of users, once unless
\* crossed, replaces a list two attempts have worked on at the same time by one that
\* is not empty and names only users who are there, or leaves all of that alone.
THEOREM DirectoryKeptCorrect == Spec => DirectoryKept
<1>1. UsersInv /\ UsersInv' /\ [Next]_vars => [People!Next]_(People!vars)
  BY DirectoryStep
<1> QED
  BY <1>1, InitUsersInv, NextUsersInv, InitDirectory, PTL DEF Spec, DirectoryKept, People!Spec
=============================================================================
