# Arpegio: specifications, checks and proofs

Arpegio is an iOS marketplace for musical instruments. There is no server code:
the app talks to Firebase Authentication, the Firebase Realtime Database and
Firebase Storage, and every rule of the marketplace is kept, or not kept, by the
Swift code under `src/Arpegio/Arpegio`. All phones share one database tree, and
the app reads a node, changes the value and writes the whole node back. This
project models that code in TLA+, model-checks it with TLC on small instances and
proves the most important results with TLAPS for every size.

`src/Arpegio/Pods` is vendored. Of it, only the client of the Realtime Database is
modelled, as far as the app depends on how it orders reads and writes.

Paths below are relative to `src/Arpegio/Arpegio` unless they start with `Pods`.

## 1. Inventory

### The parts

| Part | State it keeps | Operations | Talks to |
|---|---|---|---|
| Publishing: `Database/DatabaseManager.swift` `insertProduct` (215-332) | none of its own: `products`, one list per category, one node per product, the owner's user node | read user node, two list reads, four writes, up to four completions | Realtime Database client; completion block of the screen |
| Publishing screen: `Feature/Add Product/*` and `Database/StorageManager.swift` | the form, the picture, a spinner, at most one alert, its place in a navigation controller | `didtapTambah`, `backAction`, upload, completion | Storage, `insertProduct`, the tab bar that presents it |
| Realtime Database client: `Pods/FirebaseDatabase` (`FRepo`, `FSyncPoint`, `FSyncTree`, `FPersistentConnection`) | queue of unacknowledged writes, cache of every listened node, acknowledgements held back | single-value read, live listener, whole-node write, reconnect | server, main queue |
| Favorites: `Database/RemoteFavoriteDataSource.swift`, `Feature/Detail`, `Feature/Favorite` | `favorites` in the user node, the colour of the heart button | add (whole user node rewritten), remove by key, check by key, live list | same user node as publishing |
| Account and session: `Feature/Auth/*`, `Feature/Profile`, `insertUser`, `userExist` | the Auth user, user node and users list, `email` and `name` in `UserDefaults` | register, login, Google sign-in, logout | Auth, Realtime Database, defaults read by every screen |
| Live feeds and search: `Feature/Home`, `Feature/Home/Search`, `Feature/My Product`, `getAllProducts`, `getMyProducts` | arrays behind table and collection views, a growing set of subscriptions | subscribe on every appearance, filter, reload | live listeners |
| Forms and formatting: `setupRx` of the screens, `Extensions/Externsions.swift` | streams of field validity, the enabled button | `combineLatest`, `isValidEmail`, `currencyInputFormatting` | text fields |
| Tab bar: `Feature/TabBar` | five tabs, the middle button | present the category list | publishing screen |
| Application shell and cells: `Resources`, `*Cell.swift` | none | start-up, layout | - |

### How they interact

* `didtapTambah` uploads the picture; the upload's closure (which keeps the screen
  alive) calls `insertProduct`; each completion of the insertion comes back to the
  screen, dismisses the spinner on success, shows an alert on failure, and in both
  cases dismisses whatever the navigation controller presents, or the controller
  itself.
* The controllers with a form hold the subscriptions of `setupRx`, whose closures hold
  them: they are never released. Leaving a page stops nothing that is under way, and the
  `[weak self]` of its callbacks is never nil.
* `HomeViewController` attaches a listener to `products` and never removes it. The
  client answers `insertProduct`'s single-value read of the same node from that
  listener's cache, without asking the server; after a reconnect that cache is as old as
  the broken connection until the listen, sent again, is answered.
* The five tabs are made once (`MyTabBarViewController` 30-47) and outlive the account:
  `My Product` and `Favorite` subscribe at every appearance to the list of whoever is in
  the defaults, and the earlier account's listener goes on feeding the screen.
* A pending write shadows the server: a read of a node this device has written,
  but that is not acknowledged, sees what was written.
* Publishing and favorites rewrite the same user node from a snapshot each.
* The screens learn who is signed in from `Auth.currentUser` in some places and
  from `UserDefaults` in others; the two are set at different moments.
* Nothing is a transaction, no node is ever deleted except a favourite, and
  persistence is off: what a killed process had queued is gone.

### What is hard here

* *Interleaving*: between the read of a list and its write any other phone, or
  another publication of the same phone, can write the list. The two lists of one
  publication are read and written independently of each other.
* *Ordering*: the list writes come from callbacks of reads; the product's own node
  is written from the callback of the user read. Nothing in the Swift code waits
  for one write before the next.
* *Retries*: after a reconnect the client sends every listen again, in no fixed order, and
  behind them every outstanding write, also those the server has performed already.
* *Crashes*: a killed process leaves some writes on their way and loses the rest.
* *Partial failure*: any of the four writes can be denied on its own; any of them
  reports to the same screen.
* *Stale state*: snapshots come from a cache, which may be older than a reconnect; an
  optimistic value in it may be denied later.
* *Two services, two stores*: an account is created in Auth and written to the database
  afterwards; the session and `UserDefaults` are set at different moments and read by
  different screens.
* *Stacked subscriptions*: every appearance of a screen and every search subscribes once
  more and nothing unsubscribes; all of them write the same arrays.
* *Order of subscriptions*: the streams of a form see a field in the order they were
  subscribed, the reformatting of the price among them.
* *Liveness*: spinners that only a success takes away, streams that end after one
  error, loops over an empty result that never answer.

### What makes each part correct

| Part | Properties | Where |
|---|---|---|
| Publishing | `RecordFirst`, `FiledCorrectly`, `NoDuplicates`, `UnsharedKeepsAll`, `CatalogueKept`, `PublicationEnds` | `ProductInsert` |
| Publishing screen | `PictureFirst`, `DismissedMeansRecorded`, `RetryPublishesOnce`, `SpinnerEnds` | `PublishScreen` |
| Database client | is what makes the above true or not: the mutants of `RealtimeDatabase` break them | `RealtimeDatabase` |
| Favorites | `NodeKept`, `SuccessIsTrue`, `HeartTellsTruth`, `HeartLearns`, `JobsEnd` | `Favorites` |
| Account | `SignedInHasNode`, `ProductsStay`, `DefaultsAreTheSessions`, `UsersListed`, `DirectoryKept`, `AttemptsEnd` | `Account` |
| Feeds and search | `NewestAtRest`, `ResultsOfLastSearch`, `CellsMatch`, `NeverBackwards`, `ScreenCatchesUp` | `Feeds` |
| Forms | `ButtonHonest`, `SentIsComplete` | `Forms` |

All hazards found while reading, each at its line, are in `PROJECT.json` with the
properties that cover them, or the reason why none does.

## 2. Modules

| Module | Models | Lines |
|---|---|---|
| `RealtimeDatabase` | the client queue, the cache of `products`, the server's tree, crash and reconnect | 165 |
| `Catalogue` | abstract: what publishing promises, without clients or messages | 45 |
| `ProductInsert` | `insertProduct` on several devices, over `RealtimeDatabase` | 350 |
| `PublishScreen` | the screen and the upload, over `ProductInsert` | 295 |
| `Favorites` | favourites of one account on several screens and devices, with publishing as their neighbour in the user node | 570 |
| `Account` | registering, logging in, Google, logging out, `insertUser`, over `RealtimeDatabase` | 570 |
| `Directory` | abstract: what registering promises the list of users | 60 |
| `Feeds` | the screens that follow a list, of one account or of several, and the search | 315 |
| `Forms` | field streams, buttons and guards of the three forms | 155 |
| `MC...` | each of the above with the symmetry sets for TLC | - |
| `MCPublishLost` | `ProductInsert` for two phones with an account each that serve their main queues in order | 25 |
| `...Proofs` | the proofs, section 4 | - |

`PublishScreen` composes the screen with `ProductInsert`, which composes publishing with
`RealtimeDatabase`; `Account` composes sign-in, publishing and `RealtimeDatabase`.
`Favorites` writes single keys below a node as well as whole nodes, which the other
modules do not need, and so has a small client of its own. `Feeds` is inside one process,
`Forms` inside one screen.

### RealtimeDatabase

A node is abstracted to whether it exists and the sequence of products it lists
(`Content`); that is all the properties tell apart. `tree` is the server, `pending`
the client's `outstandingPuts` in order, `feed` the cache that Home's listener keeps
of `products`, `alive` the process.

* `View` is `FSyncPoint getView` with the shadow of pending writes: the newest
  pending write to the node, else the cache if the node is `products`, else the
  server. `Cached` tells the reads that are answered on the device.
* `CatchUp` brings the cache up to the server: when an update comes (`Push`), when a write
  is acknowledged, and when a read is answered by the server behind it
  (`ProductInsert!Answered`).
* `Perform`: the server applies the oldest write of a connection it has not yet
  applied, or denies it. Denial is decided once per write (`denied`): the rules
  of the database are not in the repository, so any write may be denied, at most
  `MaxDenied` of them.
* `Acknowledge` runs a completion block. The client holds acknowledgements back
  while a single-value read is unanswered; `ProductInsert!Completion` has that guard.
* `Reconnect` sends the listens again, each on its own and in the order of a dictionary,
  and then the outstanding writes, oldest first (`FPersistentConnection restoreState`).
  Those already answered but held back are no longer outstanding: a prefix of the queue
  that stays as it is. The cache stays as old as it was; which reads are answered before
  it is refreshed is kept in `ProductInsert` (`ahead`, `behind`).
* `Die`, `Drop`, `Relaunch`: the process ends; its connection carries what it already
  had and then drops the rest; the app is started with an empty queue.

The server is external. Of it the model assumes that it performs the writes of one
connection in the order they were sent and answers in that order too.

### ProductInsert

`form` is the input: the device, the account and the category (`NoCategory` is the
`""` of the form in the third tab). `head[p][h]` follows each of the four "heads" of
the code's comments (`user`, `id`, `products`, `category`) from the call of
`insertProduct` to its completion; `snap` keeps the snapshot between the moment an
event is raised and the moment the main queue runs the callback. The actions are one
per callback:

| Action | Code |
|---|---|
| `Begin` | `insertProduct` is called: attach the read of the user node (215-220) |
| `Raise` | the client has the value, its own or the server's (`Answered`), and sends the event to the main queue |
| `UserFound` | attach the two list reads, write the product's node and the user node (227-331) |
| `UserMissing` | `completion(false)` and return (222-226) |
| `NoCategoryException` | `child("")` raises before any write (269, `FValidation`) |
| `ListRead` | append to the list or start it, write it back (243-294) |
| `Completion` | `completion(true)` or `completion(false)` for one write |
| `ConnectionLost` | the connection breaks and is there again; any of the reads under way may be sent ahead of `products` |
| `Server`, `Kill`, `LoseQueue`, `Refresh` | what happens around the app |

`behind` are the devices that have reconnected and not had `products` since, `ahead` the
reads whose listen was sent before that of `products`: their answers do not bring the
cache up to date, all others do.

`shared` is a history variable: the lists two publications ever worked on at once, and
`products` once a publication was given a value of it that a reconnected device still had
and the server no longer (`Outdated`). It states where the read-modify-write is safe; no
guard reads it.

### Catalogue and the refinement

`Catalogue` is the promise: an uncontended shelf is a log that only grows, one product
at a time; a shelf on which two publications have met, or one has worked on an old value, is
contended and may be replaced by anything without repetitions, but is
never emptied. `CatalogueKept` maps lists to shelves and `shared` to contended and
checks that every step of publishing is a step of the catalogue or a stutter.

### PublishScreen

`screenOf` assigns every product (every tap makes a new id) to a screen; `page` is
where the screen is; `upload` follows `StorageManager.uploadProductPicture` (two
steps: the picture is stored, then its URL fetched); `stored` is the bucket;
`spinner` and `alert` are what is shown.

| Action | Code |
|---|---|
| `Open` | `AddCategoryProductViewController` pushes the form (59-65) |
| `Tap`, `TapRefused` | `didtapTambah` past its guard or in it (340-362) |
| `CloseAlert`, `Back` | the alert's button, `backAction` (393-411) |
| `Stored`, `UploadFails`, `Uploaded` | `putData`, `downloadURL` and their failures (`StorageManager` 67-88, screen 363-388) |
| `UserNotFound`, `Completed` | the insertion's action together with what its completion does to the screen (368-381) |
| `Ends` | the process ends, with every open screen |
| `Silent` | steps of the insertion no screen hears of |

Three facts about UIKit are external and modelled as the app meets them:
`dismiss` on a controller that presents something takes that down, else the
controller itself; a popped screen has no navigation controller, so that what its
completions dismiss or present reaches nothing that is shown; a controller under a presented one cannot present an alert. The
alert of a failed write and the dismissal in the same turn of the main queue race:
the alert may be taken down or stay, so `Failure` is a choice.

### Favorites

A user node is abstracted to whether it exists, which of the publications are in its
products (`made`), and `fav`, the keys `0..MaxFavorites-1` with a product or `Nothing`.
Keys matter: a removal clears keys one by one, and a list with a hole is no longer
exported as an array of dictionaries, so the cast in `addProductToFavorite` fails and the
next addition starts anew (`Dense`, `WithFavorite`).
A call of `check-`, `add-` or `removeProductFromFavorite` is a *job*, and so is a
publication of the account; `stage` follows it, `child` the reads of the single keys a
query found, `snap` the snapshot its callback is handed.

| Action | Code |
|---|---|
| `Appear`, `Tap` | `viewWillAppear` and the heart button, which goes by its own colour (`DetailProductViewController`) |
| `RaiseNode`, `RaiseQuery`, `RaiseChild` | an answer is computed and sent to the main queue |
| `AddFavorite`, `NodeMissing` | `addProductToFavorite`'s callback (`RemoteFavoriteDataSource` 56-112) |
| `QueryAnswered`, `QueryDenied` | the query of a check or a removal: children, none, or refused |
| `ChildThere`, `ChildGone` | the read of one key: answer, for a removal clear the key (114-169) |
| `AddProduct` | `insertProduct`'s part in the user node |
| `Paint` | the block on the main queue that sets the colour |
| `VisitFavorites`, `Push` | `FavoriteViewController`'s listener, from whose cache reads below `favorites` are answered |
| `Server`, `Completion`, `Kill`, `LoseQueue`, `Relaunch`, `ConnectionLost` | as in `RealtimeDatabase`, with key writes; `removeValue` has no completion block |

History variables, read by no guard: `contended` (two writing jobs overlapped),
`hurried` (two calls for one product overlapped), `outdated` (removals whose query was answered
from the cache of a favourites listener that lagged behind the server), `informed` (screens that
were right when last answered and whose product only they have changed since).

### Account

The four places of an account are `accounts` and `session` (Auth), the user node and the
`users` list in `tree`, and `defEmail` and `defName` (`UserDefaults`). A node also carries
the name it was written with. `safe` maps addresses to user nodes by any function at all:
`safeEmail` maps both `.` and `@` to `-`, so two addresses may share a node. An *attempt*
is one tap on Daftar, Masuk or the Google button; `auth` follows its part in Auth, `db`
its part in the database.

| Action | Code |
|---|---|
| `Begin`, `TapRefused` | the three buttons past their guards, or in them; Google stores the defaults here |
| `Raise`, `Checked`, `GoogleChecked`, `NameRead` | the single-value reads and the callbacks of `userExist` and of the name |
| `AuthGrants`, `AuthFails` | Auth: the SDK replaces the session and a callback is due, or an error comes, after the server did what was asked or not |
| `RegisterGranted`, `LoginGranted`, `GoogleGranted` | the callbacks of `createUser`, `signIn` and the credential |
| `UsersRead`, `Completion` | `insertUser`: the user node, and after its acknowledgement the list of users |
| `Logout` | `logoutButtonTapped` |
| `Publish`, `AddProduct` | `insertProduct`, which takes the address from the session |
| `CloseAlert`, `Back`, `Dismiss` | UIKit: the alert, the back button, `dismiss`, which does nothing for a page that was left |
| `Kill`, `LoseQueue`, `Start`, `ConnectionLost` | process and connection; session and defaults outlive the process, `validateAuth` decides about the welcome |

A pushed page is opened by its first accepted tap. Leaving it stops nothing: the controller
is held by its own subscriptions (`RegisterViewController` 236-310, `LoginViewController`
86-126), so registering goes on to create the account and write the user, and logging in to
read the name and store the address; only alerts and `dismiss` of that page reach nothing.

History variables: `crossed` (user
nodes on which two jobs were in each other's way), `listShared` (two attempts on the list of
users), `unsettled` (devices on which two attempts overlapped, a log-out came in between,
an attempt succeeded without taking the welcome away, because an alert took the dismissal or
its page had been left, or Google's credential was refused).

`Directory` is the promise to the list of users: people get homes for good, and those who have
one enter a directory that is a log, each once unless two were in his home; once two have
hurried to it at the same time it may be replaced, but never emptied nor made to list anyone
without a home. `DirectoryKept` maps user nodes that are there to homes, the list to the directory,
`crossed` and `listShared` to crowded and hurried.

### Feeds

One process and one screen; `screen` says which of the three. Home and the search follow
the list of all products; My Products and Favorites, at each appearance, the list of the
account that is in the defaults then, any of `Lists` (`Paths`). `values` are the values
the lists have taken, in the order the SDK has them, each with its list; `subs` the
subscriptions, with the list each follows, of which the first `joined` are registered;
`due` is the main queue, with an `event` per subscription and value, and the nested `show`
block in which Home and My Products take the value (Favorites takes it at once).

| Action | Code |
|---|---|
| `Appear`, `Search` | `viewWillAppear`; `searchBarSearchButtonClicked`, which empties the results without reloading their view |
| `Join`, `Arrive` | the SDK registers a subscription and hands it the value it has of that list; a new value of a list goes to all its subscriptions |
| `FeedScreen`, `Show`, `FeedSearch` | `onNext` |
| `Error`, `Ignored` | `onError` for a value that is not a list; nothing for a subscription that has ended |

The properties name where stacking goes wrong. `Unbroken`: a value that is not a list ends
the subscriptions it reaches, and the screen stays as it was, also when it is the empty list
of the account that has just signed in. `Alone`: the listener of an earlier account is still
attached, and the next value of its list takes the screen back. The branch of
`searchBarSearchButtonClicked` for a search without text (`HomeViewController` 139-145) is left
out: it subscribes nothing, empties the results and reloads their view.

### Forms

A text is one of the kinds its checks tell apart. `heard` is the last element of each
stream; `Watches` says which fields a stream listens to and `Holds` what it makes of them.
The two differ: the description's stream watches the condition field, so a product
may be sent without a description, and no stream watches the picture, so a picture that
comes last enables nothing. `Edit` is one editing event: the subscription that reformats the
price runs first, then the streams of the field, then the button; `Tap` the guards behind
the button.

## 3. Runs

| Run | Instance | Checks | Distinct states |
|---|---|---|---|
| `publish_concurrent` | 2 devices, 2 products, 2 users, 2 categories, no faults | `TypeOK`, `FiledCorrectly`, `NoDuplicates`, `CatalogueKept` | 540 000 |
| `publish_faults` | 2 devices, 2 products, 1 user, 1 category, 1 fault | `RecordFirst`, `UnsharedKeepsAll` | 1 960 000 |
| `publish_denied` | same, 1 denied write, no fault | `RecordFirst`, `UnsharedKeepsAll` | 920 000 |
| `publish_lost` | 2 devices with an account each, 2 products, 1 category | `AddedStaysListed`, expected to fail | counterexample |
| `screen_safe` | 1 device, 2 products, 2 screens, 1 fault | `ScreenTypeOK`, `PictureFirst`, `DismissedMeansRecorded`, `RetryPublishesOnce` | 1 450 000 |
| `screen_ends` | 1 device, 2 products, 1 screen, 1 denied write, 1 fault, fairness | `DismissedMeansRecorded`, `SpinnerEnds`, `PublicationEnds` | 274 000 |
| `favorites_safe` | 2 devices, 2 products, 2 screens, 3 calls | `FavTypeOK`, `HeartTellsTruth`, `NodeKept` | 396 000 |
| `favorites_ends` | 1 device, 1 screen, 2 calls, 1 publication, 1 denied job, 1 fault, fairness | `NodeKept`, `SuccessIsTrue`, `JobsEnd`, `HeartLearns` | 107 000 |
| `account_safe` | 2 devices, 2 addresses, 2 user nodes, 2 attempts, 1 publication, 1 denied job | `AccountTypeOK`, `SignedInHasNode`, `DefaultsAreTheSessions`, `UsersListed`, `ProductsStay`, `DirectoryKept` | 1 930 000 |
| `account_ends` | 1 device, 1 address, 2 attempts, 1 publication, 1 fault, fairness | `SignedInHasNode`, `AttemptsEnd` | 280 000 |
| `feeds_stacked` | 2 products, the lists of 2 accounts and of all products, 2 values, 3 subscriptions, fairness | `FeedTypeOK`, `NewestAtRest`, `ResultsOfLastSearch`, `CellsMatch`, `NeverBackwards`, `ScreenCatchesUp` | 444 000 |
| `forms_filled` | the three forms, every kind of text | `FormTypeOK`, `ButtonHonest`, `SentIsComplete` | 2 200 |

What they show:

* **`publish_lost`** shows a disagreement with the repository's own words. The
  comment at `DatabaseManager.swift:242` says "nambahin ke head products", add to the
  list of products. The code overwrites the list it read earlier: two phones, with an
  account each, read it, both append, and the second write removes the first product,
  whose publisher has been told that it succeeded. `MCPublishLost` keeps to behaviours in
  which each phone serves its main queue in order, as `FEventRaiser` fills it.
* **`publish_concurrent`** shows how far the damage goes: products are lost only on
  lists two publications worked on at once, never repeated, never filed in another
  category or account, and no list is emptied.
* **`publish_faults`, `publish_denied`**: whatever is killed, resent or denied, a list
  never shows a product without its own node, unless the write of that node was denied;
  and on a list that nobody else worked on, what was reported as a success is there.
  The second also through resent writes, which repeat whole lists, and through listens
  that are sent again in any order; but a publication that is given `products` as it was
  before a reconnect erases what other phones have published since, although none of them
  worked on the list at the same time (`Outdated`).
* **`screen_safe`**: the picture is in the storage before any list shows the product;
  the screen goes only after the product's own node is written, although the first of
  four completions dismisses it; a retry after a failed upload, on the same screen,
  never publishes twice.
* **`screen_ends`**: each publication ends in reports, in "user not found" or with its
  process; there is no state in which reads wait for acknowledgements that wait for
  reads. The spinner goes, except in the cases `NothingSucceeds` lists:
  `pngData()` returned nil (line 360), user not found, all four writes denied. In these
  the code has no statement that removes it.
* **`favorites_safe`**: publishing and favourites rewrite the same node, and a removal
  clears keys it found earlier; as long as the writing jobs take turns, a favourite goes
  only by a removal tapped for it, or by the new start after a hole. The heart, which
  is the only record of what a tap will do, agrees with the node whenever nothing is under
  way and the calls for its product did not overlap.
* **`favorites_ends`**: every call comes to an end even where the observable never
  emits (a query without children); a reported addition is in the node, with the other
  half of the node as it was; a screen that opens on a favourite turns red.
* **`account_safe`**: no sign-in erases the products of an account unless another job was
  on its node; who is signed in finds a user node when publishing, although registering
  does not wait for it to be written, because the queue of the same device orders the two;
  at rest the defaults are empty or the session's, also when two addresses share a node,
  unless the device is `unsettled`: a login whose page was left stores its address and
  leaves the welcome up, and an account registered there next is in a session beside it;
  who was reported as inserted is in the list of users, which names nobody whose node was
  denied and keeps its order while attempts take turns on it.
* **`account_ends`**: every attempt ends. A publication misses its user node after an
  attempt that was cut short (process killed, write denied, answer of Auth lost), or while
  another job is in the way on the node (`crossed`): an attempt on another device that has
  yet to write it, or, on the same device, a Google sign-in, which has a session before its
  own `userExist` has answered. No other way leads there.
* **`feeds_stacked`**: a screen never goes back to an older value, whichever of its
  subscriptions brings the newer one, because one main queue serves them in order; at rest
  it shows what the list it last appeared for has, unless a value since was not a list or
  came from an earlier account's list; the results are those of the last search although all earlier
  searches keep filtering into the same array; array and view of the results differ only
  between a search and its answer, the window in which a cell could be out of range.
* **`forms_filled`**: in every order of filling, correcting and emptying, the button is
  enabled exactly when what is checked holds of the texts as they stand, and a tap passes
  on a complete form, although `didtapTambah` looks at no text itself.

Exceptions are part of the properties where the code behaves so and no document says
otherwise. A success that meets an alert of an earlier denied write
dismisses the alert and not the screen: the form is back, without spinner, and can be
sent again (`RetryPublishesOnce` excludes screens with a denied write). A failure on
the form in the third tab dismisses a form presented over it (`FailedUnderneath`).
In `Account`, registering stores nothing in the defaults, so they stay empty beside a
session until the next login (`DefaultsAreTheSessions` allows empty), and an alert can take
the dismissal of a successful attempt, which a page that was left cannot ask for at all
(`unsettled`). In `Forms`, `SentIsComplete` leaves
out the description and `ButtonHonest` a picture that came last (`unseen`).

Two captions say more than the code does, and no property is made of them: the placeholder
"Password (6-8 Karakter)" (`RegisterViewController` 87), where the code has no upper limit
(189-201), and the alert "Please input correct description" (`AddProductViewController` 451),
where nothing looks at the description.

### Bounds

`MaxDenied` (writes or jobs the rules deny) and `MaxFaults` (processes killed, connections
broken, answers of Auth lost) bound choices of the environment, not of the program. Two products are two
publications, the least that interleave; every race in this code is between two
read-modify-writes, and a third writer meets the same two cases (its read is before or
after). One fault is enough to kill one process or to resend one queue between any two
steps; the safety properties of publishing are proved for any number. Two
devices are needed for the races, two users and two categories only for filing. Users
are registered or not in the initial state, both are explored.
The screen runs need one device: screens of different devices share nothing but
the database, whose races the other runs cover. Two screens are the form in the tab
with one presented over it, or one form after another; the liveness run has one screen, on
which a second tap follows the first.

`Favorites`: three calls are an opening, a tap and a tap on another screen, or an addition, a
removal that leaves a hole and an addition after it; the initial list holds up to
`MaxFavorites` = 2 products, with holes. The run with faults has one device, where the
shadow of pending writes matters most. `Account`: two attempts are two of the same way, a
registration and a login, one before and one after a publication; every assignment of
ways, devices, addresses and nodes to them is an initial state, and so is every set of
accounts that exists already. `Feeds`: three subscriptions are two searches and a
screen, or three appearances, for one account, for two, or for one, another and the first
again; two values are two of one list or one of each, of which the second is what takes a
screen back to an earlier account. All its properties but `ScreenCatchesUp` are proved for any
number. `Forms` has no bounds.

Symmetry is used only in safety runs; all sets in it are sets of interchangeable
model values. Deadlock is not checked, except in `forms_filled`, because every run ends
by design once all products are published, all calls made and all screens at rest.

### Fairness

`screen_ends`: weak fairness of the main queue (a living process runs the callbacks due
on it) and of the connection (a read is answered, a write reaches the server and is
acknowledged, the connection of a dead process ends). The client retries for ever, so
this says that the network comes back and stays long enough. To these it
adds weak fairness of the storage: `putData` and `downloadURL` have retry
limits and then fail, so one or the other answer comes.
`favorites_ends` and `account_ends` assume the same of the main queue and the connection;
in `Account` the connection includes Auth, whose calls have a timeout and then fail.
`feeds_stacked`: the main queue and the client's own serial queue run what is on them; no
new value need ever come.
The steps are grouped per device and per scheduler and no step of a user, of a fault or of
a relaunch is fair: the user may never tap, close an alert or go back.

## 4. Proofs

Assumptions: `NamesAssumption` (the names of lists, users, categories and products
differ; `""` is not a category), `AccountAssumption` and `FavoritesAssumption` (likewise for
their constants), and that the bounds are numbers (`BoundsAssumption`, `FeedsAssumption`). Node
names do differ in the program as long as no user's address equals a category name
and no UUID repeats; TLC evaluates the assumptions in every run.

| Theorem | States | Module |
|---|---|---|
| `TypeCorrect` | `Spec => []TypeOK` | `ProductInsertProofs` |
| `RecordFirstCorrect` | `Spec => []RecordFirst` | |
| `ScreenImplements` | `ScreenSpec => Spec` | `PublishScreenProofs` |
| `ScreenRecordFirst` | `ScreenSpec => []RecordFirst` | |
| `ScreenTypeCorrect` | `ScreenSpec => []ScreenTypeOK` | |
| `PictureFirstCorrect` | `ScreenSpec => []PictureFirst` | |
| `DismissedCorrect` | `ScreenSpec => []DismissedMeansRecorded` | |
| `RetryCorrect` | `ScreenSpec => []RetryPublishesOnce` | |
| `FiledCorrectlyCorrect` | `Spec => []FiledCorrectly` | `ProductListProofs` |
| `NoDuplicatesCorrect` | `Spec => []NoDuplicates` | |
| `UnsharedKeepsAllCorrect` | `Spec => []UnsharedKeepsAll` | `CatalogueProofs` |
| `CatalogueKeptCorrect` | `Spec => CatalogueKept`, the refinement | |
| `ScreenCatalogueKept` | `ScreenSpec => CatalogueKept` | |
| `ScreenListsCorrect` | `ScreenSpec => [](FiledCorrectly /\ NoDuplicates /\ UnsharedKeepsAll)` | |
| `FavTypeCorrect` | `Spec => []FavTypeOK` | `FavoritesProofs` |
| `NodeKeptCorrect` | `Spec => NodeKept` | |
| `SuccessCorrect` | `Spec => SuccessIsTrue` | |
| `HeartCorrect` | `Spec => []HeartTellsTruth` | |
| `AccountTypeCorrect` | `Spec => []AccountTypeOK` | `AccountProofs` |
| `DefaultsCorrect` | `Spec => []DefaultsAreTheSessions` | |
| `ProductsStayCorrect` | `Spec => ProductsStay` | |
| `SignedInCorrect` | `Spec => []SignedInHasNode` | |
| `UsersListedCorrect` | `Spec => []UsersListed` | |
| `DirectoryKeptCorrect` | `Spec => DirectoryKept`, the refinement | |
| `FeedTypeCorrect` | `Spec => []FeedTypeOK` | `FeedsProofs` |
| `NewestCorrect` | `Spec => []NewestAtRest` | |
| `ResultsCorrect` | `Spec => []ResultsOfLastSearch` | |
| `CellsCorrect` | `Spec => []CellsMatch` | |
| `NeverBackwardsCorrect` | `Spec => NeverBackwards` | |
| `FormTypeCorrect` | `Spec => []FormTypeOK` | `FormsProofs` |
| `ButtonCorrect` | `Spec => []ButtonHonest` | |
| `SentCorrect` | `Spec => []SentIsComplete` | |

*Typing* (`ProductInsertProofs`) is inductive only with `Categorized`: list heads are
worked on, and writes queued, only for a product with a category. Without it the `""`
of the tab's form would be a node of the tree. The exception that ends the process before
any write is what keeps it out.

*RecordFirst* (`ProductInsertProofs`) is not inductive: a list on the server comes from
a queue, the queue's value from a snapshot, the snapshot from another pending write, from
the cache or from the server. `OrderInv` follows a product along that way. In the tree and in
the cache it is recorded (`RecordFirst`, `FeedOrder`). In a queued list it is recorded, or
its own write waits further ahead in the same queue (`QueueOrder`). In a snapshot it is
recorded, or its own write waits anywhere in the queue of the device (`ReadOrder`), and
so it is ahead of whatever is written from that snapshot. A performed write of a
product's node has recorded it (`RecordWrites`), so a resent queue may start again from
its beginning; and a dead process has no snapshots (`DeadIsIdle`), so dropping its queue
breaks no promise.

*The screen* (`PublishScreenProofs`). Each of its steps is a step of the insertion or
leaves it alone (`ScreenStep`), which gives `ScreenImplements` and carries `RecordFirst`
over. `PictureFirst` rests on `OnlyFound`, again an invariant of the insertion: every
list, cache, queued write and snapshot shows only products whose user read found a
node (or whose process ended). Those have begun, only `Uploaded` begins one, and only after `Stored`
(`PictureInv`). `DismissedMeansRecorded` uses both invariants: the oldest write of a queue,
if it was performed, records its product or shows it (`Fits`), and then `QueueOrder`
with nothing ahead of it says the product is recorded (`SuccessIsRecorded`).
`RetryPublishesOnce` needs `OnceInv`: a screen has at most one *live* product (one that may
still reach a list), and while it is open it shows that product's spinner and no alert, so
that no second tap is accepted; an answer "denied" is of a denied write, so without one
the first answer is a success and takes the screen (`OneLive`, `AnswersTrue`).

*What lists hold* (`ProductListProofs`). Contents travel from the tree to a cache, a snapshot, a
queued write and back. `AllSound` says of all four that they hold only products that have
been written to that node, each once. A product is appended to a snapshot that
was taken before its own write, so it is not there yet.

*The refinement* (`CatalogueProofs`). `CatalogueInv` says that on an unshared list there is
one writer at a time (`Apart`), and so every copy that counts follows the server's list: the
snapshot is the list, the cache it was taken from is the list (`SnapFollows`, `FeedFollows`), the
queued write is the list or the list with its own product behind it (`QueueFollows`), also when
it is sent a second time. The cache needs an exception: it follows the list unless the device is
`behind`, and only a read that is `ahead` can be answered without ending that (`AheadIsBehind`); a
value then taken from it that is not the server's makes `products` contended. `UnsharedKeepsAll` is part of the invariant; a step of the server then
puts a product last, repeats the list, or works on a contended one.

*Favourites* (`FavoritesProofs`). `NodeKept` and `SuccessIsTrue` are about the step in which the
server performs a write, and rest on what was read long before. `WriteInv` follows the node from
there: a queued write is of a job that waits for it, or of a removal that has answered
(`QueueOwned`); unless `contended` one job writes at a time, unless `hurried` one call is busy with
a product (`Turns`); and while jobs take turns (`NodeFollowed`) a snapshot is the node, a queued
write is the node with its own job's change alone, also when it is performed a second time
(`Follows`), and the keys a removal has found, and those in the cache it goes by, hold its product
or nothing. The last is false for a removal that asked a listener behind the server: a key
it found can hold another product by the time it is cleared. No instance that TLC can exhaust is
large enough for that (it takes two devices, a visited favourites screen, two additions and two
removals); the proof needs the exception, and `outdated` names it.
`HeartTellsTruth` holds at rest, and its invariant (`HeartInv`) says who will see to it before
that: a trusted, informed screen agrees with the node once the blocks due on it have run, or one of
its own calls is about to paint it or to clear the product (`HeartFor`). An addition that waits for
its completion will paint it red. A removal answers before its clearing reaches the server:
its screen is white from then on (`WhiteKept`), and every key that still holds the product is
being read by it or in its queue (`PromiseKept`), so nothing is left when it is through. Screens
with calls are shown, on living processes (`ScreensShown`), or a kill would take the answer.

*Accounts* (`AccountProofs`). Typing needs `Owned`: a publication that reads a user node took
its address from a session, so that `NodeOf` is a node at all. `DefaultsAreTheSessions` holds at
rest only, so its invariant (`DefaultsInv`) says what holds in between. On a device that is not
`unsettled` (`Steady`) one attempt at most is under way, and it is in step with the screen
(`InStep`): Auth is asked under the welcome, and under the welcome the defaults are empty, or those
the Google sign-in under way has stored; a login reads the name once the welcome is gone and the
session is its own. So there is nothing of an earlier session for a grant to disagree with. The name
a login stores comes from a snapshot, which brings in the writes: the name in every node, queued
write and snapshot is of an address with that node (`NamesAgree`), a queued write belongs to one job
that waits for it (`QueueOwned`), and the stages of an attempt in the database and in Auth fit
together (`StagesMatch`). Most steps leave a device `Calm`; the others each have a lemma.

The other three properties of accounts go on from there, over steps classified by what they do to the
database (`Shape`: a step rests, reads, writes, serves, resends, leaves or drops) and by what no
step takes back (`Onward`). `NodeInv` follows a user node: every waiting job has its write queued,
in order, a write that was performed left its node there (`PutsKept`), and jobs share an uncrossed
node only in the order of one device's queue (`NodeTurns`). For `ProductsStay`, `ProductsInv` says that
on an uncrossed node a later queued write holds what the earlier ones do, one of them
what the server has (`PutsGrow`), and that a publication's snapshot holds all of it
(`SnapsHold`); an address found free has a node with no product to lose (`VacantAlone`).
`SignedInHasNode` is about a publication that finds no node, and `SignedInv` says why it finds one: whoever is in a
session has an account, and an account has its node, or a job that will write it
(`Given`, `Promised`), unless a process was cut short with the promise. `UsersListed` relates the
list to nodes: every copy of it, on the server, queued or read, is `Sound` (it names nodes that are
there, each once unless crossed, none that an attempt is still to add), and while the
list is not shared one attempt has the turn, its snapshot is the server's list and its
write that list with its own node behind, or the list itself once performed, also when it is sent
again (`ListTurns`). So what was listed stays so, and the same invariant gives the refinement
(`DirectoryKeptCorrect`): a step of the server settles somebody, enters somebody who is there, or
replaces a list that is sound.

*Feeds* (`FeedsProofs`). `FeedInv` is about the main queue: events wait in the order of their
values, nested blocks in the order of their events, none older than what is shown
(`DueInOrder`), which is `NeverBackwards`; blocks are for values of their own subscription's
list, and no older than the one that list had when it was made (`EventsAreNew`); what the list of
the screen's last subscription has is shown, or due for it with nothing of another list behind it,
as long as no other list has taken a value since (`NewestIsLast`); the searches are all of one
list (`SearchesAtHome`), and the newest event of the last search is behind those of all others, or
has made the results (`LastSearchIsLast`).

*Forms* (`FormsProofs`). A stream speaks only when its own fields are edited, and still its last
element is what it would say now (`HeardIsNow`): the confirmation listens to both passwords,
and the price is reformatted before it is read.

Every invariant and every action property of the runs is proved. Model-checked only are
`PublicationEnds`, `SpinnerEnds`, `JobsEnd`, `HeartLearns`, `AttemptsEnd` and `ScreenCatchesUp`: they are
liveness under fairness, which is beyond this prover, as is the absence of deadlock.

## 5. Not modelled

* What a product says. A product is its id: no property depends on name, price or
  description beyond whether its field was filled.
* Transactions, priorities, `onDisconnect`, persistence of the client: not used by the app.
* The rules of the database and the server: external, any write and any query may be denied.
  A listener the rules refuse is left out: the app passes no cancel block, so the screen
  stays as it is.
* Google's own sign-in sheet, which ends before the code modelled here starts, and the upload of
  the Google profile picture (`WelcomeViewController` 139-160), whose URL is stored in the
  defaults (154) and read by no screen.
* `insertProductWithRx`, `getAllUsers` and `StorageManager`'s uploads for messages: nothing calls
  them.
* The photo picker's sheet (its result is `PickPicture`), the profile's rows, layout, cells, the
  application shell: no state the rest depends on.
* The vendored libraries under `Pods` other than the database client: LevelDB, nanopb, Texture,
  GTMSessionFetcher, RxSwift, Firebase Auth and Storage. They are most of the repository's lines and
  none of the marketplace's own logic; what the app relies on of them is in the external actions of
  the modules (`AuthGrants`, `Stored`, the main queue, the order of subscriptions).

## 6. Plan

What is left, in this order:

1. That nothing waits for ever on nothing: for every waiting job of `ProductInsert` and `Account`
   the step it waits for is possible, written out as guards instead of ENABLED.
2. An abstract module for the two halves of the user node (what is published and what is a
   favourite), refined by `Favorites` where `NodeKept` speaks of single steps.

## 7. Running

    tlc -workers 2 -config PublishConcurrent.cfg MCProductInsert
    tlc -workers 2 -config PublishLost.cfg MCPublishLost
    tlc -workers 2 -config AccountSafe.cfg MCAccount
    tlapm CatalogueProofs.tla

`PROJECT.json` names for every property a mutant: an operator beside the definition it
replaces, that changes it as a plausible bug would (a dropped else branch, writes in
another order, a listener that stays attached, an error not looked at, a spinner not
dismissed). Under each of them the run of the property fails.
