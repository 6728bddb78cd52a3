# Formal models of goexpenses

goexpenses is a web application for keeping household expenses: a Go server
(echo, sqlx, PostgreSQL), HTML pages, a service worker and one page script. This
directory models the parts of it whose correctness depends on the order of
requests, on the database and on time, checks the models with TLC and proves
what matters most about them with TLAPS.

Contents: [inventory](#inventory), [how the modules correspond to the
code](#modules), [runs](#runs), [proofs](#proofs), [findings](#findings),
[what is not modelled](#not-modelled), [plan](#plan).

## Inventory

The server is one process; several may run during a deployment. Every request
runs in its own goroutine. Requests share the PostgreSQL database, and inside
the process the rate limiter, the e-mail queue and the exchange rate cache.
There is no other communication: components meet in database rows.

| Component | State | Operations | Hard parts |
|---|---|---|---|
| Account sharing (`routes/account_members.go`, `accounts.go`, `database.go`, `deleteUser` in `admin.go`, `selectCurrentAccount` in `midware/middleware.go`) | tables `users`, `accounts`, `accountsusers`, `account_invitations` | register, create and select an account, invite, cancel, accept, decline, change a role, remove, delete a user | concurrent transactions under READ COMMITTED, roles read at the start of a request, deadlocks |
| Sessions and sign-in (`midware/middleware.go`, `routes/auth.go`, `routes/routes.go`, `util/session.go`) | table `sessions`, `users.blocked_at`, cookies | create, rotate, sign in and out, block and unblock, expire | a sign-in racing a password change or a block |
| Password reset and change (`routes/password.go`) | table `passwordresets`, `users.password` | request a link, use it, change the password | one active token, used once, several requests at once |
| Registration and e-mail verification (`routes/registration.go`, `email_verification.go`) | `users.email_verified`, `verification_token`, `verification_sent_at` | register, resend, verify | superseded and expired tokens, a registration of a name or address that exists |
| Rate limiter (`routes/rate_limit.go`) | stamps by key, in memory | allow, reset, clean up | window boundaries, several rules at once, stamps taken before the lock |
| E-mail queue (`routes/email_log.go`, `routes.go`) | slots, wait group, table `admin_events` | queue, deliver, time out, shut down | a delivery that outlives its slot, shutdown, a deleted user's events |
| Exchange rates (`util/rates.go`) | cache, table `currencies` | read, refresh, invalidate | a load overtaking a refresh, overlapping refreshes |
| Background jobs (`background_jobs.go`) | next run of each job | run daily, stop | a job longer than its period, changes to summer time |
| Server lifecycle (`server.go`) | listener, background tasks | start, serve, shut down | order of shutdown, time limits |
| Migrations and deployment (`migrations/`, `deploy/deploy-goexpenses.sh`) | the version in table `params`, advisory lock, the installed binary | apply, record, roll back | two processes starting, a crash between steps, a binary older than the schema |
| Posts, expenses and incomes (`routes/posts.go`, `expenses.go`, `incomes.go`, `migrations/sql/026_posts_history.sql`) | tables of these names and `posts_history` | add, change, delete, list by page | history of every version, rounding, pages that shift |
| Service worker (`static/sw.js`) | caches of two builds | install, activate, fetch | an old worker beside a new one, pages of one build and files of another |
| Page script (`static/js/app.js`) | the dialog that scans bills, the dialog that confirms, camera stream, detector | scan, fill a form, hold a form back, fill a period | a frame or a camera that arrives after its dialog, dialogs that ignore calls while they fade |
| QR code reader (`static/js/jsQR.js`, vendored) | none between calls | read a photograph | error correction, damaged, mirrored, inverted and turned codes |
| Settings, templates, languages, encryption, security headers, request log, static files | configuration | | none that depends on order |

What makes each of them correct:

- *Account sharing*: rows refer to existing rows; an account with members has an
  owner; whoever is invited was invited by somebody who still is an owner; a
  removal withdraws; members are not invited again; concurrent transactions do
  what some order of whole requests would do; every request is answered.
- *Sessions*: a session of a blocked user or from before a password change
  identifies nobody; signing in replaces the session's token.
- *Password reset*: at most one usable token for an address, each usable once
  and for a limited time; a reset ends all sessions.
- *Verification*: only the newest, unexpired token verifies; whoever keeps asking
  for one gets confirmed; a new one is given when, and only when, the interval is over.
- *Rate limiter*: never more than `limit` requests of a key within a window;
  a refused request uses up nothing.
- *E-mail queue*: a bounded number of e-mails at a time; every queued e-mail ends;
  an event does not claim more than what happened.
- *Server lifecycle*: the database is closed under nothing but what shutdown gave
  up on; the process ends.
- *Exchange rates*: after a refresh, readers see the new rate and nobody an older
  one again; the service is not asked twice in a row; a refresh ends.
- *Migrations*: each migration takes effect exactly once and in order, with any
  number of processes starting and crashing; a binary never runs on a schema it
  does not know.
- *Posts*: every version of a post is kept once it is replaced; following pages
  neither repeats nor skips what did not change.
- *Browser*: a page never gets the files of an older build than its own; the camera
  ends with its dialog; what is scanned fills the form it was scanned for; the form
  that is submitted is the one that was asked about; a code is read as it was written.

## Modules

### AccountSharing

One action is one request, taking effect at once. This is the abstract
specification of the component, and the level at which the README of the
application speaks.

| Variable | Code |
|---|---|
| `users`, `accounts` | rows of the tables; the account every user gets on registration may be one of `Accounts` or `Other` |
| `role[a][u]` | `accountsusers.role`, `""` without a row |
| `older[a]` | the order `ORDER BY created_at, id` (deleteUser) and `ORDER BY id` (lockMembers) of the rows of an account, as pairs; the model numbers rows in the order they are committed |
| `invitations` | rows of `account_invitations`; `open` is the 30 day condition |
| `selected[u]` | `users.default_accounts_id` |

Actions have the names of the handlers: `InsertUserWithAccount`, `CreateAccount`,
`SelectAccount`, `SelectCurrentAccount` (the move `CheckCookie` makes),
`InviteMember`, `CancelInvitation`, `AcceptInvitation`, `DeclineInvitation`,
`UpdateMember` (behind `ChangeMemberRole` and `RemoveMember`), `DeleteUser`;
`Expire` is time. The account a handler works on was read at the start of the
request, so `Next` lets every handler work on any account. `SerialNext` is the
system when requests do not overlap: the user's selected account was made valid
right before, or they have no account at all (`WithoutAccount`) and none is selected. Three actions exist only because requests overlap, each the late
half of a handler whose check has become stale: `InviteNewMember`,
`SelectFormerAccount` and `DeleteUserKeeping`.

### AccountSharingTx

The same requests, statement by statement. A request has a program counter
(`pc`), the rows its present statement has still to lock in order (`want`) and
the rows its transaction holds (`locks`); `Acquire` takes one row, waits while
another transaction holds it in a conflicting mode (`Conflict`: FOR UPDATE, FOR
NO KEY UPDATE, FOR KEY SHARE, deleted or inserted rows), and goes on without a
row that was deleted meanwhile, or ends the request, as the statement would. A row
that is deleted and inserted again is another row: a commit replaces the rows it
deleted, in what others wait for, by `Gone` (`Found`), and a statement that waited
for one does not take its successor.
Each statement of a handler is an action named for what it does; the last one
commits. `AbortDeadlock` is PostgreSQL's deadlock detection. PostgreSQL is not
part of the repository: row locks, foreign key locks and visibility are modelled
from their documented behaviour, the statements from the code.

`Begin` is `CheckCookie` and the authorisation: it picks the handler, the
signed-in user and the form values, checks the role as it is *now*, and the
handler runs later. A user without any account goes on with no account for this
request, and nothing is written. `Implements` states that the committed rows, whatever the
interleaving, change as in `AccountSharing!Next`, starting from a consistent
database: checks made on locked rows are still true at commit.

### RateLimiter

`allow` of `routes/rate_limit.go` runs under one lock, so `Allow` and `Refuse` are
one action each; the time of a request is read before (`Arrive`), so requests
are served out of the order of their times, by at most `Delay`.

| Variable | Code |
|---|---|
| `attempts`, `nextCleanup` | the fields of `requestLimiter` |
| `arrived` | requests between `time.Now()` and `allow` |
| `granted`, `told` | history: stamps recorded for a key since it was reset, times named in `Retry-After` |

`Current` is the pruning (`FirstCurrent`: only leading stamps are dropped, which on a
list out of order is not the same as dropping all old ones) and the clean-up when
it is due. A request has a set of keys, all of which are recorded or none.

### SignIn

Sessions, passwords and reset tokens, statement by statement, for the handlers of
`auth.go`, `password.go` and the administrator's block, unblock and delete.

| Variable | Code |
|---|---|
| `user` | rows of `users`: exists, blocked, the number of the password, whether its hash is of the old format |
| `sessions` | rows of `sessions`; `gen` numbers the uuids a row has had, `login` the sign-in it comes from |
| `tokens` | rows of `passwordresets`; `age` is new, older than the interval, or expired |
| `pc`, `want`, `locks` | where a request is, rows it waits for, rows its transaction holds |
| `form`, `cookie`, `acting`, `stored` | what the handler has read: form values, the session of its cookie, `data.User`, the row of the user |
| `logins`, `revoked` | history: sign-ins so far, and those whose session was deleted |

`CheckUser` and `Authorize` are the two readings of a session by `CheckCookie` and
the authorisation; `Rotated` is the `UPDATE ... WHERE uuid` of `rotateSession`;
`Authenticate` verifies a password in a statement of its own. `Acquire` and
`AbortDeadlock` are the database's row locks. Time ages tokens and removes sessions
at any point (`TokenAges`, `ExpireSession`).

### Posts

Posts, expenses and incomes of one account. A handler validates in statements of
their own and writes in a last one, so a request is two or three steps and other
requests come between. `Recorded` is the trigger of migration 26, `Stored` the
rounding of `decimal(12,2)`: amounts of forms are in tenths of a cent, of rows in
cents. An amount stands for all that a form changes.

### PostsPaging

The list of posts, as a member leafs through it: `OpenList`, `NextPage` and `PrevPage`
are one `SELECT` each with the cursor of the link, while `AddPost`, `MovePost` (another
date), `RemovePost` and `SavePostFilter` happen in between. `start`, `shown`, `steady`
and `still` are history.

### Server

The process from serving to its exit. `main` is where `runApplication` is;
`handler`, `mail`, `delivery`, `job` and `refresh` are the goroutines; `holders` the
tokens in `emailSlots`; `event` the status in `admin_events`; `gaveUp` what the
process went on without. The deferred calls of `runApplication` run in reverse order:
`StopJobs`, `JobsEnded`, `StopRefreshes`, `RefreshesEnded`, `CloseDatabase`. A
delivery may go on after its time limit (`DeliveryTimeout` leaves it running), and
statements may fail (`GiveUpMail`, `FailUpdate`).

### Registration

The row of a user who waits for the confirmation of an address (`user`, `token`,
`age` of `verification_sent_at`) and the mails with the links (`letter`). `RegisterUser`,
`RequestVerification`, `RequestRefused`, `ConfirmEmail` and `DeleteUser` are the
transactions; mails are late, lost and thrown away (`Settle`), and `Tick` is time, in
ticks at least as long as the interval. `zone` is the offset of the process's zone
from UTC: links expire in SQL, where both times are those of the zone (`Valid`), while
the interval is compared in Go after the driver read the column as UTC (`TooSoon`).
`madeAgo`, `latest` and `turnedDown` are history.

### ExchangeRates and RateRegister

`ExchangeRates` is the cache of the EUR rate with its mutex (`cache`, `holder`, `reader`,
`got`) and the refreshes with their claim (`refreshing`, `lastAttempt`, `step`). A reader
that misses keeps the mutex while it loads; the row is read (`Load`) before it is put
into the cache (`Keep`), and a refresh may store a rate in between. `StoreUnanswered` is
a statement that was committed and reported as failed, so the cache is not emptied;
`Restart` loses the memory of the process and leaves the table.

`RateRegister` is the abstract specification: a number that only grows, a floor below
which no page reads any more, and the lag for which a replaced rate may still be shown.
`Implements` maps it by `INSTANCE RateRegister WITH rate <- stored, floor <- Floor, ...`:
`Floor` is the oldest rate the next read can return, and the lag is the lifetime of the
cache and one load. `MaxLoad` bounds how long the row is on its way from the
database; nothing in the code does, so it is an assumption about the environment.

### Migrations and Deployment

`Migrations` is `Apply` in every starting process: `at` is where a session is, `lock` who
holds the advisory lock, `current` the version a session goes on from, `killed` whether
its process is gone while its session still holds what it held. Each migration is
committed with its number, or its answer is lost (`CommitOf` with the failure steps).
`baseline` and `applied` are history.

`Deployment` extends it with `deploy-goexpenses.sh`: install with a backup, restart,
wait for health, restore. `broken` are binaries that start and are never healthy. The
script can be cut off anywhere (`ScriptDies`). That systemd restarts a service that ended
by itself is left out: it only repeats a start that failed for a reason that stays.

### ServiceWorker, Scanner, Confirmation

One browser each. `ServiceWorker` has the server's build (`served`), the open page's,
the active and the next worker with their caches, and a file on its way into a cache
(`answered`). `Scanner` has the dialog with its fading, a session number for each time
it was shown or hidden, and everything that is awaited: the camera (`asked`), the start of
the video (`starting`), the codes of a frame (`frames`), the detector, and images.
`Confirmation` is the one dialog all forms of a page share.

### PageFunctions and the reader of QR codes

Functions without state, checked against a reference over chosen inputs:
`FilterPeriods` against a count of days, `BillText` against the bill it was written from,
and the decoder, module by module as in `jsQR.js`: `GaloisField`, `ReedSolomon`,
`QRVersions` (the tables), `QRSegments`, `QRMatrix`, `QRBinarizer`, `QRLocator`.
`QRReference` writes codes after the standard: segments, blocks, interleaving, masks,
damage, and photographs that are scaled, faded, inverted and turned by quarters. It
shares the tables, the masks and the pattern of fixed modules with the decoder; its
assumption `TablesFit` checks that the tables add up to the space of each code.
`Evaluation` holds forms of folds TLC evaluates quickly; these modules use RECURSIVE
operators and Bitwise and have no proofs.

Where `jsQR.js` computes with doubles, `QRLocator` uses hundredths, rounded, and cuts
errors at `MaxError`, far above what is compared; in the photographs the candidates
differ by more than that. With more errors than it can correct a Reed-Solomon decoder
may return another word; only correctable damage is in the inputs.

### MC modules and proofs

`MCAccountSharing`, `MCAccountSharingTx`, `MCSignIn`, `MCPosts`, `MCServer`,
`MCOperations` and `MCBrowser` hold the instances for TLC: model values, the rows
requests start from, and the permutations of interchangeable users or requests.

Some of them put components side by side that share no state: `MCAccountSharing` account
sharing and the limiter, `MCPosts` records and their list, `MCOperations` rates and
releases, `MCBrowser` the parts of the pages and the links of new users. In each
behaviour one of them, the `subject`, moves and the others stay in one initial state, so
the states add up instead of multiplying; fairness is that of each part, for the
behaviours about it.

`AccountSharingProofs`, `AccountSharingTxProofs`, `RateLimiterProofs`, `SignInProofs`,
`PostsProofs` (records and their list), `ServerProofs`, `OperationsProofs` (rates and
releases) and `BrowserProofs` (service worker, scanner, confirmations, and the links of
new users) hold the theorems.

Operators with the comment "a mutant" are plausible mistakes; they take the place
of the operator that follows them to see that a property notices.

## Runs

| Run | Question | Instance |
|---|---|---|
| `sharing` | Do references, owners and invitations stay right, and do removals withdraw, when requests act on what they read earlier? Are limits kept, refusals honest and stamps forgotten in time? | two users and an administrator, one shared account, roles owner and viewer; 2 calls of the limiter at a time, 3 keys with different windows, clock to 4 |
| `tx_requests` | Do concurrent requests commit what some atomic order would, and can they deadlock without a deletion? | 3 users, 3 databases; 2 requests of any kind, 3 that invite and remove, 3 that delete, remove and accept |
| `tx_invited` | Are members never invited when requests overlap? (finding) | one invites, one accepts |
| `tx_ownerless` | Does an account that has members keep an owner when deletions overlap with the rest? (finding) | 3 users, an owner and an invited owner; 4 requests: leave, accept, step down, delete |
| `sign_in` | Does what was revoked stay so, do handlers act for the user of their session, is there one usable token, used once, and is every request answered? | 2 requests of any kind, a user with two sessions, 3 tokens, fairness |
| `sign_in_raced` | Does a password change end all other sessions? (finding) | a sign-in and a change |
| `posts` | Do references and the history of versions survive overlapping requests? Does leafing skip or repeat posts while they change? | 2 requests of 9 kinds, up to 6 rows of a table; 4 posts, pages of 2, one filter of all dates and one of the latest |
| `posts_entered` | Is a post that was entered never zero? (finding) | 1 request |
| `server` | Is the database closed last, do events tell the truth, do e-mails and the process end? | 2 requests with e-mails, 1 refresh, 1 job, 1 slot, fairness |
| `operations` | Does the cached rate implement the register, are attempts spaced, do refreshes end? Is each migration applied once, is only the own schema served, does a rollback work? | 2 readers, a daily job, 3 rates, clock to 4; 3 starts of 2 binaries two migrations apart; fairness |
| `browser` | Do workers, dialogs, scanner and decoder do what they should? Does only the newest link confirm, and does it in the end? | 2 builds, 3 camera sessions, 3 submissions of 2 forms, the inputs of `MCBrowser`; a user and 2 links in 3 zones; fairness |
| `links_resent` | Is a new link given when it is due? (finding) | a user and 2 links, one hour east of UTC |

Bounds of account sharing. Three users are the fewest with which an owner, an
heir and an administrator differ, and with which two owners and a third member
exist. Two roles suffice: the code tells owners from others and never editors from
viewers in these handlers. One shared account beside `Other` is enough for the
invariants because every handler works on one account, `deleteUser` on each in
turn; the proofs cover any number. The three databases of the transaction runs
are the ones where requests meet: two owners and an invitation, one owner
between an older and a younger member, and a former member who is invited
again. Requests run once each. `Mixes` says how many requests of which kinds may run
together, and at most how many of each, so that one run covers pairs of all kinds and
triples of those that lock the rows of members. Four requests of four different kinds
are the fewest with which `tx_ownerless` finds its race, and too many to have all
mixes of: what holds for any number of requests is proved.

Bounds of the others. The limiter's clock runs long enough for the longest window to
pass and a clean-up to come; `Delay` is one tick, and the proofs cover any of these. One user is enough
for `SignIn`, whose handlers touch the rows of one user; two sessions tell "this one"
from "the others", and three tokens are one sent earlier and one for each request.
In `Posts` `MaxRecords` leaves room for every row two requests can add. Four posts on
pages of two give two full pages, and a third page's link after one is added. In
`Server` one slot makes two e-mails compete, as two slots do with three; `Refreshing`
leaves the refresh to one request, because refreshes do not depend on each other.

In `ExchangeRates` two readers and a job are the fewest with which one loads, another
waits and a refresh stores meanwhile; the clock lets the cache expire once after that.
Three starts are a service, its successor and the one put back; two migrations, one of
which may be pending between the binaries, tell order from presence. A browser of two
builds has an older and a newer worker. Three camera sessions are a dialog, its end and
the next dialog. Two links are the newest and one that was superseded, used again when
nothing remembers them; the link's lifetime of two ticks is one in which another may be
asked for. The inputs of the decoder (`AllTextCalls`, `AllCodeCalls`, `AllPhotoCalls`)
cover every mode and length at the limits of its encoding, all levels and masks, versions
with one and with several sizes of blocks and with words of their version, as much damage
as can be corrected, and four photographs whose sides are no multiples of eight.

Symmetry is used only where requests are interchangeable and no liveness
property is checked.

Fairness.

- `sign_in`: weak fairness of each request's steps: goroutines are scheduled and
  PostgreSQL serves every connection and detects deadlocks. Nothing makes a request
  begin.
- `server`: the same of goroutines of e-mails, of refreshes and of the end of jobs, of
  time limits and of `runApplication`: they only wait for statements, which the
  database answers or fails, for a context or for a time limit. Nothing makes a request
  end, an SMTP server answer, a job's hour come or a signal arrive.
- `operations`: weak fairness of the reader that holds the mutex, since its statement
  ends; strong fairness of the refresh, which needs the mutex again and again: Go's
  mutexes hand over to a waiter that starves. Statements of starting processes and
  sessions without a process end. Nothing makes a release begin or a reader read.
- `browser`: the detector loads or fails and its frames are due, because timers run;
  whoever scans holds a bill before the camera now and then. A user who waits for the
  confirmation asks again when that is due, every mail arrives or is lost in the end, and
  now and then the newest arrives while it is valid and is used (strong fairness: this is
  about the user and the mail, and says only that not every mail is late or lost).

Deadlock. `Quiet` marks the state in which all requests are answered, so TLC looks
for real deadlocks. `CHECK_DEADLOCK FALSE` appears where the system really stops: the
process exits (`server`), the bounds of starts and of the clock are reached
(`operations`), a call is answered and a page has tried its submissions (`browser`).

## Proofs

`AccountSharingProofs` proves that `Consistent` - types, references, the order of
members, `OwnerKept` and `InviterIsOwner` together - is inductive, and from it
the theorems listed in `PROJECT.json`. The parts need each other:

- `OwnerKept` is not inductive by itself. An acceptance adds a member to an
  account that must already have an owner, which follows from `InviterIsOwner`;
  a deletion leaves an heir, which follows from `SeniorityOrder`: in a finite
  ordered set of members one precedes all others (`FirstExists`, by the
  cardinality of the set of those before a member and the well-foundedness of
  the naturals).
- `SeniorityOrder` needs `References`: a new account has no members yet.
- `References` needs its last two conjuncts: a user who is not registered has no
  selection, so a deletion that looked at registered users looked at all.
- `MemberNotInvited`, for requests that do not overlap, needs that an address has one
  invitation to an account. This theorem has no run of its own.

Assumptions: users (addresses) are finitely many, administrators are users, the
roles include owner and not the empty string, and `Other` is no shared account.
`StaysConsistent` starts from any consistent database, as `Implements` does;
together they say that the transactions keep any consistent database consistent,
as long as none deletes a user. The theorems about `AccountSharing` are about requests
that each take effect at once, in any order and on what they read earlier; with a deletion
among the statements `OwnerKept` is lost, as the run `tx_ownerless` shows.

`AccountSharingTxProofs` proves, for any users, accounts, roles and number of
requests, from any consistent database, that requests cannot deadlock without a
deletion (`NeverDeadlocked`) and that they implement the atomic requests while no
user is deleted (`WithoutDeletionsImplements`, whose hypothesis `[]NoneDeletes` every
behaviour of `Mixes` without the kind "delete" satisfies). "Without a deletion" is
part of both on purpose: PostgreSQL does abort requests that meet a deletion, and
the run `tx_ownerless` shows that with one the second is false. The invariant `Inv`
has these parts:

- `Fits` and `MayHold`: per statement of every handler, the rows it may still have to
  lock and the rows its transaction may hold. `Updating` is the order of rows within
  an `UPDATE`: its own before those its foreign keys refer to.
- `Compatible`: two transactions hold the same row only if both merely refer to it.
  With it, nobody changes a row that another request has locked, so what a request
  read of such rows is still true later (`Checked`, and `Withdraws` for the invitations
  a removal takes along). `Frame` says what a step of one request may do to the tables,
  and lemmas for each part of `Inv` that a bystander keeps it under any such step.
- `Ranked` and `Present`: `lockMembers` locks present members, older before younger.
- `Nested`: of two requests that lock the members of one account, the members one holds
  or awaits include those of the other: somebody may join between the two, and whoever
  leaves meanwhile is no longer awaited (`Gone`). Once both are past `lockMembers`, the
  members of the smaller set, whose checks need one, would be held by both, which
  `Compatible` excludes: one request at a time is past its checks (`OnePast`).

Acceptances need no lock on members: they hold the invitation while they insert the
membership, so no two of them add the same one (`Present`). `NoDeadlock` follows. A request that waits for an invitation,
a user or an account waits for one that itself waits for nothing in a circle
(`ReferringWaits`, `JoiningWaits`, `InvitationWaits`), so everyone in a circle is in
`lockMembers`, of one account, and waits for a request whose next row is of a younger
member (`LockingWaits`). There is no youngest of finitely many (`NoCircle`).
`Implements` follows from `Checked` at each commit: the step is then the atomic
request of the same name, its late variant, or changes nothing. That no deletion has begun holds at all
earlier states when it holds now (`BegunStays`), so one inductive formula serves both
theorems. Further assumptions: accounts are numbers, and `Mixes` names only kinds that exist.

`RateLimiterProofs` proves all properties of the run for any keys, limits, windows and
delays. The invariant is `IInv`: types, `ArrivedLately` (the clock waits for requests on
their way), `AttemptsKept` (the limiter holds the end of a key's history, and what it
dropped is over) and `HeadsFresh` (the next clean-up comes in time). `WindowKept`
follows because a request that is allowed found fewer than `Limit` stamps, so the
one `Limit` before it had been dropped, and what is dropped is a window old, up to the
delay. `RetryHonest` uses that pruning only shortens lists. Assumed: limits and windows
are positive, no window is longer than `MaxWindow`, and `Delay` is shorter than it.

`ServerProofs` proves `ClosedWhenQuiet` for any requests, jobs and slots. The invariant
`Stages` says for each wait of `runApplication` that what it waited for does not come
back: handlers because nothing starts them, e-mails because only handlers queue
them, refreshes because none is accepted. The order of the deferred calls matters in
that each stage's conjunct relies on the ones before. `TypeCorrect` needs that the
e-mails with a slot are finitely many. `EventsAreTrue` follows from `Honest`: an update
says accepted only after its delivery was accepted, and a delivery that was accepted
stays so, also when its e-mail has long been reported as timed out.

`OperationsProofs` proves the refinement `CacheImplements`, that is
`SpecRates => Implements`, for any readers, jobs, lifetimes and bounds. A load, a refresh
or a restart maps to a step of the register or to none; each needs that what is cached or
being loaded was the stored rate at most `MaxLoad` ago (`YoungCache`, `YoungLoad`) and that
nothing older is left when a refresh reports (`Settled`). That holds because loading and
emptying the cache exclude each other (`Locked`) and one refresh works at a time
(`OneWorks`). `Due` carries the delay between attempts for `Spaced`.

Of releases it proves `AppliedOnce` and `ServesOwnSchema` for any sessions, binaries
and migrations, from an invariant whose core is `Alone` and `Known`: whoever is past the
advisory lock holds it, so what a session read or recorded of the version is still true
when it commits the next migration or begins to serve. `DeploymentMigrates` shows that
every step of a deployment is a step of `Migrations` or leaves it alone, so both results
hold through releases and rollbacks.

`SignInProofs` proves all safety properties of the run for any users, sessions, tokens and
requests. `IInv` says that a row is locked by one transaction, and, statement by statement,
what each handler holds and what is still true of what it read (`HoldsAt`): the row of the
user from the `UPDATE` that matched the verified password until the commit, the row of a
token from the check that it is unused until it is spent. Nobody else changes a locked
row, which gives `ChangeVerified` and `TokenUsedOnce`. A cookie keeps naming a session it once named
(`CookieAt`), and every rotation gives a row a uuid it never had, so that a sign-in belongs to
one session (`SignIns`); a session that was deleted does not come back, as rotations find
only live rows. `OneActive` holds because a new token is inserted, and the
others superseded, under the lock on its user. Assumed: the sessions a run starts from
belong to users, a user has at most one token at the start, and sessions are finitely
many. "Revoked" are the sign-ins whose session a handler deleted.

`PostsProofs` proves `References` and `HistoryChain` from `ReadyAt`, which says what a
request has checked at each stage. Checks are made in statements of their own, without
locks; they stay true because rows are marked as deleted and never removed, except with
their account, and then inserts fail on the foreign key and updates find no row.
`ChainGrows` is the step of the chain: the version an update replaces is the present row,
which came after the last entry of its post. For the list it proves `ShownOnce` and
`LinksExact`: rows are totally ordered by date and id (`AheadOrders`), so the rank of a row
is unique and a page is what its cursor cuts off (`NearestSorts`, `ShowFinds`); a link
carries the last post shown (`WalkEnds`), wherever that post is by now.

`BrowserProofs`: of the worker, `AlwaysRefreshes` needs that a file in any cache, or on its way
there, is that of the build in its address unless that build was replaced (`Right`), as an
address is only asked for by pages of builds that have been served (`Known`). Of the
scanner, `CameraStops` and `FillsFromOwnDialog` need that at most one stream is live, the one
of the present session, and that earlier sessions await nothing that could start one
(`OneStream`, `InTurn`). Of the confirmations, that the form the dialog asks about is one
held back. Of the links (`OnlyLatestConfirms`), that while a user waits the row holds the
newest link, made since the registration, and that rows of two users never hold the same.

Only model-checked: that transactions implement the atomic requests when one of them
deletes a user, which holds for the two or three requests of `tx_requests` and not for the four
of `tx_ownerless`; the functions of the pages and the decoder (`BlocksCorrected`,
`ReadAsWritten`, `FieldsFilled`), whose modules use RECURSIVE operators and Bitwise, which
the prover cannot load, and which are about data of bounded size; and the liveness
properties, `RollbackWorks` among them, which are outside the prover's reach.

## Findings

- `tx_invited`: a member can be invited again. The check in `inviteMember` works on
  the rows `lockMembers` locked; a member who joins between it and the upsert is
  not among them (`routes/account_members.go:159`, against README.md:179).
- `tx_ownerless`: an account can be left with members and no owner. `deleteUser` promotes
  the longest-standing member with an `UPDATE` whose row count it ignores; if that member
  leaves in a transaction that commits while the `UPDATE` waits, nobody is promoted
  (`routes/admin.go:413`, against README.md:181). The leaving member
  was an owner who had begun two requests: to leave and to become a viewer. The leave had
  found the rows of the members before an invited owner joined; with that second owner there
  the first could step down, so that the leave, once it locked its rows, saw a viewer and
  counted no owners. Then the second owner was deleted.
- `sign_in_raced`: a sign-in that verified the old password just before a change
  gets a session the change does not end (`routes/password.go:182`, against
  `routes/password.go:158`).
- `posts_entered`: an amount below half a cent passes the check for zero and is stored as
  0.00 (`routes/posts.go:322`).
- `links_resent`: where the server's zone is east of UTC, as in Belgrade, a new
  confirmation link is refused for one or two hours more than the 15 minutes; west of
  UTC the interval is not enforced. `verification_sent_at` is a timestamp without a zone,
  written as local time and read back as UTC (`routes/email_verification.go:82`, against
  README.md:161). Whether links have expired is compared in SQL and is not affected.

Seen on the way, and allowed by the specifications as the code does it: `deleteUser` keeps an account without
members that a former member still has selected (`routes/admin.go:406`), and with the
selection moving at the right moment also one that nobody uses (`DeleteUserKeeping`); the unguarded `UPDATE` of `selectCurrentAccount` can
select an account the user was just removed from (`SelectFormerAccount`), which the
next request puts right; requests that delete users can deadlock with
acceptances and role changes, which PostgreSQL resolves by failing one of them; and
an e-mail event stays pending when its update fails or shutdown gave up on it, the
first without the process having stopped (`FailUpdate`, README.md:144). In the scanner
an image whose codes arrive late fills the form although the dialog was closed and
opened again, a frame may fill it while the dialog fades, a dialog that is hidden while it
still appears stays, a detector that failed to load is not tried again before the page is
reloaded, and a bill in any currency but EUR goes to the field for dinars. A worker whose
page was served by an older build after a rollback may hand that build's file out of its
cache to a newer page, which is why `DeploymentRefreshes` speaks of builds that run for
the first time (`static/sw.js:43`). `DeleteOldSessions` removes sessions after a calendar
month, sometimes earlier than the thirty days of the cookie, which signs a user out and
no more (`util/util.go:21`; `ExpireSession` may happen at any time).

## Not modelled

Settings, templates, languages, encryption of settings, security headers, the
request log and static file serving keep no state that operations could spoil.
Bootstrap is third-party code; of what it does, the fading of its dialogs is modelled.
E-mail delivery, pages and messages are left out of the sharing modules: they read what
the modules describe and change nothing in it. `accounts.deleted` is never set by the
program. Of posts, the conversion from euros, the totals and descriptions are left out;
of exchange rates, the fetching and the checks of the answer; of jobs, the calendar (when
a job is due is any time); of the pages, closing alerts, the account selector and the
colour theme; of jsQR, colours to grey and which character each
kanji code of the Shift JIS table stands for (the signs, letters and lines are modelled).

## Plan

Done: all components that keep state, and proofs of all their safety properties, with
deletions set aside for the transactions of account sharing. What would come next:

1. Once the promotion in `deleteUser` is corrected: `Implements` for all requests,
   deletions included, along the same invariant.
2. The conversion from euros and the totals of `Posts`, as functions with a reference.
3. `DailyJobs`: the next run across changes to summer time.
4. An abstract specification of the list of posts that `PostsPaging` implements.
