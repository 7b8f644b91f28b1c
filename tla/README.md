# Formal models of the Mini Q&A Platform backend

TLA+ models of the concurrent and stateful parts of the backend, translated from
its TypeScript source and checked with TLC on small instances. All the safety
invariants, action properties and refinements that TLC checks on the passing runs are
also proved, with TLAPS, for every value of the constants; only the two liveness
properties are not. Paths below are relative to `src/`.

## 1. The system

Four NestJS processes and a shared package:

| part | state it keeps | operations |
|---|---|---|
| **gateway** (`apps/gateway`) | `IdempotencyRecord` table and an in-memory cache of it; two maps and a rate-limit map for websockets | forwards HTTP to the services; idempotent register; websocket connect, disconnect, `notification:read`, `read-all`; JetStream consumer |
| **auth-service** (`apps/auth-service`) | users, e-mail codes, password resets, refresh tokens, roles, grants (PostgreSQL); permission hashes (Redis) | register, verify, resend-code, login, refresh, logout, logout-all, password reset; role create, update, remove, assign, unassign |
| **content-service** (`apps/content-service`) | posts, questions, comments, user replicas | create, edit, submit, approve, reject, remove; comments; producer of notification jobs; worker of `user.created` |
| **notification-service** (`apps/notification-service`) | notifications | BullMQ worker (10 jobs at once, 3 attempts, dead-letter queue), mails, NATS publisher, unread counts |
| **packages/common** | counters in Redis (rate limiter), permission cache | Lua fixed window, guards, NATS and JetStream wrappers, errors, crypto |

How they meet:

* HTTP: gateway → auth-, content- and notification-service, with a timeout (ten
  seconds, thirty for images) and, for register, an idempotency key. The gateway's
  guard looks at the browser's token; a client service sends that token on, or an
  internal one the gateway signs, or none; the guards of the service look at what
  they get, and the cookies of the answer are sent on after a success;
* BullMQ: auth-service → notification-service (codes), auth-service →
  content-service (`user.created`), content-service → notification-service
  (verdicts, comments);
* NATS JetStream: `user.registered` (resend-code → mail) and
  `notification.created` (notification-service → gateway → websocket), at most
  three deliveries;
* Redis: the permission list of a user, written by auth-service and by the guards
  of the other services; the counters of the rate limiter.

What is hard. Handlers are plain `async` functions: they read a row, decide, and
write by id in another statement, mostly without a transaction, so every `await`
is a point where another request may run; the process may die there, or the
statement may throw. Several stores are changed one after the other (database then
queue, database then Redis). Jobs and events are retried and can be repeated. The
gateway stops waiting for a service that works on, and the answer of a refresh, with
the only copy of the new token, can be lost. Whether a handler knows its user is
decided in five places: the guard of the gateway's route, the token its client sends
on, the guards of the service, where its strategy puts the user, and where the
handler looks.

What makes each part correct:

* sessions: a revoked session stays revoked; a rotated token stays dead; a reset
  ends the reign of the old password; logout-all concerns one user;
* the HTTP path: what the browser is told agrees with what ran, but where a catch
  block hides a failure; a handler that acts
  for a user runs for the caller and nobody else; a browser is signed out for a
  cause;
* idempotency: one execution per key; a success reported is a success; a key is
  released;
* permissions: a token issued after a role change never gets the old list; the
  cache exceeds the tables only in explained ways;
* rate limiter: bounded bursts of what is counted, refusals only at the limit, windows
  that end;
* socket registry: both maps agree, nothing leaks, an event reaches exactly the
  user's sockets, tabs share the message limit;
* codes: a password needs a proven code, a code is spent once, no code, replica
  or mail disappears without a named failure;
* content: what is approved was approved as it stands; authors hear of the last
  verdict; references are sound;
* notifications: repeated or lost only by named failures, the badge right when
  nothing overlaps, every job ends.

`PROJECT.json` lists the components, the hazards at their lines, and, in `map`,
the lines every definition stands for.

## 2. Modules

| module | models | checked by | proofs |
|---|---|---|---|
| `Sessions`, `SignIns` | `auth.service.ts`, `users.service.ts`: refresh tokens; what they promise | `MCSessions` | `SessionsProofs` |
| `Idempotency` | `idempotency.service.ts`, `auth-client.service.ts` register | `MCIdempotency` | `IdempotencyProofs` |
| `Permissions` | `roles.service.ts`, `permission.cache.ts`, `permission.provider.ts`, `permission.guard.ts` | `MCPermissions` | `CommonProofs` |
| `RateLimiter` | `rate-limiter.*.ts` and the stages of both controllers | `MCRateLimiter` | `CommonProofs` |
| `SocketRegistry`, `Presence` | `socket-registry.service.ts`, `websocket.gateway.ts`; what they promise | `MCSocketRegistry` | `SocketRegistryProofs` |
| `AccountCodes` | register, verify, resend, password reset, their jobs and mails | `MCAccountCodes` | `AccountCodesProofs` |
| `Content` | `posts.service.ts`, `questions.service.ts`, `comments.service.ts` | `MCContent` | `ContentProofs` |
| `Notifications` | the worker, `createNoti`, the stream, reading by websocket and by HTTP | `MCNotifications` | `NotificationsProofs` |
| `Routes` | tables of all routes: gateway controllers and client services, service controllers, strategies | `MCGateway` | – |
| `Gateway` | a request through guards, client service, service and back, with the sessions as a browser meets them | `MCGateway` | `GatewayProofs` |

Conventions. A *request* is used once: `pc[r]` is its position, and an action is
the code between two awaits. Rows, codes and comments are named by the request
that made them. Variables called *history* are not in the code; they record what
happened, for the properties, and no guard reads them. (Two exceptions: the
bounds, and `hist` of `Permissions`, whose last element is `User.permVersion`.)
`Fail`, `Abort`, `AdminFail`, `GuardFail`, `DbError`, `Restart` and `Crash` are
the statement that throws or the process that dies. Definitions named
*Mutated …* are not used by the models: each is a plausible bug of the code, put
in the place of the right definition to see that a property notices.

### Sessions

`rows` is the `RefreshToken` table. A token is a record of its claims, because a
JWT signed twice in one second with the same claims is the same string; that is
why `RotatedTokenStaysOut` speaks of tokens of a past second. `refresh` is five
actions (find, refuse, look up again, update or create), since `saveRefreshToken`
repeats the lookup that `findByRefreshToken` made. `logoutAll` passes `user.id`,
which the token strategy does not set, so it revokes every row of the table: the
model does what the code does.

`SignIns` is the abstract specification: a sign-in is a device, a user and the
generation of the password it was made with; it begins on a device never given out
before, it ends, and it does not begin again. `ImplementsSignIns` maps `inUse` to the
live rows and the handlers that may still write one (from the credential check of
login on, and from the first lookup of refresh on), and `given` to the devices of the
logins. So two live rows of a device are one sign-in; a row that a refresh creates
after a revocation is no new one; and a reset, which revokes in a second statement,
changes the password first and ends sign-ins later.

### Idempotency

`rec`, `cache` and, on the other side, `accounts` of auth-service, which may
answer, refuse, or create the account after the gateway's timeout. `Restart`
empties the cache and drops the requests under way. Whether a record was created
within 24 hours is not modelled: nothing in the code deletes or ignores old
records.

### Permissions

An *era* is the time between two committed role changes of a user; every cached
list carries the era it was read in. Assign and unassign are cut into the read of
`permVersion`, the check, the transaction, `exists` and the write to Redis; update
and create of a role grant permissions one statement after another; a guard
misses, fetches (roles, then grants) and fills.

### RateLimiter

The script of `rate-limiter.constants.ts` is one step (Redis runs it atomically);
the rules of a request are asked one after another, first those of the gateway,
then those of auth-service. Redis may not answer: the guard then lets the request
pass. The specification is called `LimiterSpec`, because one module, `CommonProofs`,
holds the theorems about it and about `Permissions`.

### SocketRegistry and Presence

Handlers have no `await`, so each is one step. `Presence` is the abstract
specification: pairs of sockets and users, and an event that goes to the user's
sockets. `ImplementsPresence` maps `online` to the sockets with an authenticated
user. A second is `Second` ticks; `accepted` (history) has the times at which messages
of a user passed since the user came online. The window is fixed
(websocket.gateway.ts:175-186), so within a second around its end almost twice the
limit may pass: `TabsShareLimit` says that much and no more.

### AccountCodes

One e-mail address. A code has three forms, raw, hashed and encrypted hash, and
which form travels where decides what is accepted. `JobRun` and `EventRun` are the
mail worker and the consumer of `user.registered`: the first decides by attempts,
the second swallows its errors.

### Content

Posts and questions are items with a status, a text and an owner. Every handler is a
read and a later write by id; the write of a row removed meanwhile is refused by the
database, and removing a row unlinks its comments. What the queries return is not
modelled, so `ApprovedAsItStands` is about the status APPROVED and the text under it,
not about what anybody can read (see *Seen while modelling*). A comment is made in three
steps (checks, insert, notice); `FindComment` is the read and the check of its author,
`Rewrite` and `Uncomment` the writes of update and remove.

### Notifications

One user. A job is tried `Attempts` times; a row is named by the job and the run
that made it, so a repetition is visible. A worker death makes the jobs it held
wait again, and BullMQ fails a job that stalls twice. A count of unread rows is
abstracted to whether it is still right, that is, whether the table has changed
since it was taken. The stream is a set, because redelivered events come in any
order. `consuming` is chosen at the start: a gateway that does not find NATS then never
starts its consumer loop (base-jetstream-consumer.ts:25-28), and nothing is delivered.
`RestRead` is mark-read and read-all by HTTP, which emit nothing.

### Routes

One record per controller of the gateway (which methods are `@Public()`, which
behind `JwtAuthGuard`, which counted by the limiter), per client service (which
methods pass the browser's token on, which fall back to an internal one, which
handler they call, which do not look at the status), per controller of a service
(handlers, which are open, counted, need a permission or an internal token, and where
each finds its user) and per strategy (where it puts the user, what type it gives a
token). `Caught` is what the catch block of a handler answers to any error. Nothing in
it is computed: it is the decorators, the URLs and the status codes of the source.

### Gateway

Composes those tables with the sessions of auth-service. A request is taken, refused
or forwarded by the gateway (`Reject`, `Limit`, `Forward`), turned away or admitted by
the service's guards (`Turn`, `Admit`), handled (`Run` and `Object` for the handlers
that other modules describe; login, refresh, both logouts, password reset and role
changes step by step), and relayed (`Relay`) with its cookies into `jar`, what the
browser holds. A password reset finds its code, changes the password, deletes the code's
row and revokes the sessions (`ResetFind`, `ResetChange`, `ResetSpend`, `ResetRevoke`);
of two resets with one code the later delete fails, and that reset is answered 400 with
the password changed (`ResetLost`). In the same way a role update whose role is removed
before it reads it again answers 404 or 500 (`UpdateLost`); `lost` are the requests this
happens to. `Timeout`, `Unreachable`, `Vanish` and `Fail` are the faults; after a
timeout the service works on. A statement may fail before or after the handler has
written something, and what is answered then depends on the handler: 500 from the
exception filter; 401 from the catch blocks of login, refresh, verify and resend-code,
400 from those of the password reset, success from forgotten-password
(auth.service.ts:139-145, 165-176, 198-206, 246-252, 302-311, 337-343, 376-383).
`AnswersTrue` says in which cases, and in no others, a browser is told something else
than what ran. The table of sessions is reduced to one live row per
device (`row`), `cut` are the devices that were revoked, `age` and `stale` say whether
a token still verifies and whether the permVersion it was signed with is the user's.
`Sessions` keeps the table itself, with its duplicates and its clock. `heard`, the
answers that had reached the browser when it sent a request, is history: it names the
cause of a sign-out. `SessionsAreSignIns` maps these sessions, too, to `SignIns`: a row
acts for the browser whose request wrote it, a refresh under way for its own. Only the
steps are compared, since every browser has signed in before the start, and the
generation of the password is left at 0.

## 3. Runs

All instances are small because two or three actors are enough for every race the
properties speak of (each property relates at most two requests and one that
disturbs them); clocks have just enough ticks to pass an expiry. `CHECK_DEADLOCK`
is off everywhere: requests are used once and clocks are bounded, so every
behaviour of an instance ends.

| run | instance | shows |
|---|---|---|
| `MCSessions` | 2 users, 4 requests, tokens live 2 of 3 ticks, permVersion up to 2, 1 reset per user | `TwoLiveOnlyAfterRevoke`, `RevokedForGood`, `RotatedTokenStaysOut`, `ImplementsSignIns`. Four requests: a login, two refreshes of its device, and a logout or reset between them |
| `MCIdempotency` | 3 requests, 1 key (and none), 2 bodies | `SuccessIsReal`, `OneCallUnlessFailed`, `SettledForGood`, `KeyReleased` (liveness). Keys do not interact, so one is enough |
| `MCPermissions` | 1 user, 1 role, 1 permission, 2 admins, 1 guard, 4 eras | `NewTokenSeesChange`, `ExcessHasCause`. Three committed changes: two of them over one permVersion, or one that sets the version back, with a change before or after; so the exception in `NewTokenSeesChange` is met. Users do not interact except through role edits, which touch the one user. 1,065,321 states |
| `MCRateLimiter` | the gateway's e-mail rule (limit 1), then auth-service's address rule (limit 2, one key for all callers), 4 requests, 1 address, 2 e-mails, windows of 2 ticks, clock to 4, 2 lost evals | `BurstBound`, `RefusedHadLimit`. Four requests on one key and two windows after the first, so a burst over a window's end reaches the 3 that the bound allows, and could pass it. 275,483 states |
| `MCSocketRegistry` | 2 users, 3 sockets, 2 messages a second of 2 ticks, clock to 5 | `Mirror`, `TabsShareLimit`, `ImplementsPresence`. Two window ends: three messages in a second do occur, four are excluded. 224,203 states |
| `MCAccountCodes` | one address, 4 requests, 1 failed statement; the account may exist beforehand | `CodeAccounted`, `MissingReplicaHasCause`, `PasswordHasProof`, `LateRefusalHasRival`, `SpentForGood`. Four: forgot, verify, and two resets |
| `MCContent` | 3 requests, 1 post, 1 question, 2 users and one without replica, 1 failed statement | `ApprovedAsItStands`, `VerdictAnnounced`, `RefsSound`. Three: two handlers that race and the one between |
| `MCNotifications` | 2 jobs (2 attempts and 1), 1 read message, 2 deliveries, 2 faults, NATS there at the gateway's start or not | `DuplicateHasCause`, `NothingLost`, `BadgeRight`, `JobSettles` (liveness) |
| `MCGateway` | 2 browsers, the 1 to 3 requests of each sequence of `MCMenu`, overlapping in every way, 1 token that expires, 1 fault | `AnswersTrue`, `ActsForCaller`, `SignedOutHasCause`, `SessionsAreSignIns`. The menu has every route alone, since routes meet only through sessions, tokens and lost rows; a route behind a renewed token; two resets with one code, and a role removed under its update; and up to two logins, refreshes, logouts, resets or role changes before a refresh, for a refused refresh is explained by at most two others. 727,218 states |

Each run also checks the `TypeOK` of its module (`LimiterTypeOK` in the rate limiter),
which contains the facts about its state that are more than types (for instance: a
completed record has a body; a job without attempts is dead).

Bounds, by name: `MaxClock`, `MaxPerm`, `MaxPwd`, `MaxEra`, `MaxAborts`, `MaxFailures`,
`MaxFaults`, `MaxAged`, `N` and `Menu` of `Gateway`, and, in `Notifications`, `Attempts`
and `MaxDeliver`, which the code sets to 3.

Symmetry is used in the runs without liveness, over sets whose members no
definition tells apart.

### Fairness

Only two modules state any, each for what the code itself drives. `Idempotency`: weak
fairness of `Handle(r)`, the next step of a handler that has begun, because each of its
awaits is a query or a call with a timeout; clients, auth-service, database errors and
restarts are not fair. `Notifications`: weak fairness of `Work(j)`, because BullMQ hands
a waiting job to a worker and the handler goes on, and of `Deliver`, because the
consumer loop, once started, fetches until the process is shut down. `Deliver` is never
enabled when the loop was not started, and `JobSettles` then leaves the event on the
stream. Throws, deaths, the user's messages and the producers are not fair. That jobs
end under every choice of throws rests on the attempts, not on luck: `Throw` is bounded
because attempts run out, and a mutant that does not count them breaks `JobSettles`.

### Violated on purpose

Three runs check something a document says and the code does not do; each is one
finding of `PROJECT.json`.

* `LogoutAllOnlyOwn` (docs/SECURITY.md:26): logout-all revokes everybody.
* `OtherBodyIsConflict` (docs/SECURITY.md:326): the in-memory cache answers before
  the request hash is computed.
* `MailedCodeAccepted` (README.md:308): the code of the first registration mail
  is encrypted, and verification compares it with the hash undecrypted.

Seen while modelling, in the models as the code has them (but for the public reads,
which are not modelled), without a run of their own:

* a forgotten password asks for the raw code while the mail holds the encrypted
  hash (README.md:332-335);
* logout-device passes the same missing `id`; a reset revokes sessions in a
  statement after the password change, so a login in between survives, and a
  role change makes live sessions impossible to refresh;
* two refreshes racing on one token both answer with success; only one of the new
  tokens is stored (docs/SECURITY.md:23);
* two admins changing one user at once yield one permVersion, and with a third change in
  between it goes back; role edits change
  no permVersion at all (docs/RBAC.md:344);
* a retake of a failed key may mark a completed one failed, and a crash leaves a
  key `processing` (docs/SECURITY.md:329);
* the limiter is a fixed window (README.md:119 calls it sliding); a request
  refused by a later rule was counted by the earlier ones; auth-service sees one
  address for all clients;
* the message limit of websockets restarts with a reconnect, and its fixed window
  lets almost twice the limit through in the second around its end
  (docs/SECURITY.md:234 says ten messages a second, 237 that the counter is reset
  every second);
* a post that is not approved can be read by anybody: the public
  `GET client/posts/:id` returns posts of any status (posts.service.ts:106-127), and a
  `status` in the query of the public list replaces the filter for APPROVED
  (posts.service.ts:45-46); README.md:429 and 433 say that only its author sees a draft
  and that only approved posts are public;
* a handler of auth-service can answer 400 or 401 after it has written: the catch
  blocks of login, verify, resend-code and the reset make one of any error, and a
  second reset with one code changes the password and is refused; forgotten-password
  answers success whatever failed; a role update whose role was removed meanwhile can
  change it and answer 404;
* a service that is away or too slow is answered 500: `handleAxiosError` has no other
  status for an error without a response (error-axios.ts:60-65), where
  docs/OPERATIONS.md:98-99 has 502 and 504;
* a gateway that starts while NATS is away never consumes the stream, even when NATS
  comes back, until it is started again;
* a stale edit can take a post from PENDING to DRAFT, and racing moderators can
  both announce (README.md:412-436); an answer's parent may lie on another post;
* counts of overlapping changes can reach the screen in the wrong order, and
  `read-all` emits 0 whatever the answer was;
* a job that stalls twice never reaches the dead-letter queue;
* a permission list read before a role change can be cached after it, so a
  revocation is not at once everywhere (docs/SECURITY.md:349); `ExcessHasCause`
  says what bounds it;
* rejecting a post through the gateway is always 401: the client passes its headers
  where axios takes the body, so no token is sent (README.md:434-435 has moderators
  reject);
* creating a role through the gateway is always 403: the handler wants an internal
  token and the gateway sends the caller's (docs/RBAC.md:263, 316, 326);
* the notification client reports a refusal as a success, and posts to a route the
  service does not have;
* a public read with an expired token is 401, without a token it is answered;
* any error in refresh, a database that is away included, is answered 401; the
  cookies that a refused refresh clears stay in the browser, because the gateway
  sends cookies on only after a success;
* a notification read by HTTP leaves the badge of the user's other tabs as it was.

## 4. Proofs

TLAPS checks the `*Proofs` modules. The assumptions are those on the constants,
named in the module that declares them, and nothing else: bounds are naturals, sets
that the code keeps apart (jobs and read messages, posts and questions) are
disjoint, and `None` is none of the values it stands beside. No theorem needs a set
to be finite, so there may be any number of users, requests, keys, roles or jobs.

Each module defines an `IInv` that contains the properties themselves where they
help, and what a handler may rely on between two awaits. TLC has checked each `IInv`
on the instance of section 3 before it was proved inductive, with one lemma per
action (or per kind of action) and `Invariance` on top.

**Sessions.** `IInv` is `TypeOK`, `TwoLiveOnlyAfterRevoke` and four facts about
handlers in progress, without which neither is inductive: rows exist only for
finished requests (`RowsOfDone`) and for devices whose login is over
(`DevicesOfDone`); every cookie was issued for a row (`SentHasRow`); and the local
variables of a handler agree with the table at its await (`Held`) – in particular
a refresh about to *create* a row has seen its device lose one to a revocation.
The steps change the table in few shapes (`Keeps`, `NoNew`, one new row, one row
rewritten); a lemma for each, then one lemma per action, then `Invariance`.
Theorems: `TypeCorrect`, `TwoLiveRows`, `RevocationFinal`, `DeadDevice`. For the next
two, `OldPasswordsStayGone` and `RotatedTokensStayOut`, every step is shown to take
the user, the password generation and the token of a row or a handler from somewhere
(`RowSources`, `IssuerSources`): from itself, a live row, a handler that issues, or,
new, from the user's row and the clock. That needs one more invariant, `Aimed`: the
row that a refresh updates by id is one of its own device.

`Refinement` rests on the same sources, with the device added: a row or a handler that
can act for a user has device, user and password generation together from one that
could before, so nothing but a login adds to `inUse` (`NoNewSignIn`), and a login
adds one element. `Fresh`, a request that has not begun has no device, makes the
device of a login new. `DeadDeviceStaysDead` and `OldPasswordStaysGone` are theorems
without a run of their own, because `SignIns` says as much: a device given out gets no
second sign-in, and a new element of `inUse` has the present password.

**Idempotency.** `Placed` ties the position of a request to its key, its call and its
answer. `Real` says that a call that succeeded, and a record that is completed, stand
for an account, so what the cache and a later request repeat is real. `Guarded` is why
the key is called under once: the record is there before the first call, a failed
record and a retake exist only for a key under which a call failed, was given up or
was lost (`Broken`), and under any other key there is one caller. Theorems:
`TypeCorrect`, `SuccessesAreReal`, `OneCallPerKey`, `SettledStays`.

**Permissions.** `Dated`: no token and no list is of an era to come, and what a guard
fetches is at least as young as its token, because it asks after it has seen the
token. `Cached`: a list in Redis was read when the version it is stored under had been
reached – an entry that the clearing call wrote is empty, and the guard never takes
an empty list. From a hit follows `NewTokenSeesChange`, with its exception, since a
hit compares versions and not eras. `Placed` gives the types of a call about a user.
`ExcessHasCause` is an action property: only a committing call and a fill make the
cache exceed the tables, and the first is then pending. Theorems: `TypeCorrect`,
`NewTokensSeeChanges`, `ExcessesHaveCauses`.

**RateLimiter.** `LimiterInv` says of each key: the counter is the number of requests
it counted since the opener of its window, its first one (`Windowed`); openers are a
window's length apart (`Spaced`), and between two of them no more than the limit were
counted (`Bounded`); who was refused by a key saw its counter at the limit
(`Justified`). A span of a window's length then meets at most two windows, and the
second starts inside it: `BurstsBounded`. The sets counted are finite because each is
as large as a counter, so the number of requests need not be. Theorems:
`LimiterInvariance`, `LimiterTypeCorrect`, `BurstsBounded`, `RefusalsHadLimit`, for
any limits, any window and any rules of an endpoint.

**SocketRegistry.** `TypeOK`, `Mirror` and `LimitsOnlyOnline` together are
inductive: what `register` and `unregister` do to the maps is a lemma each.
Theorems: `TypeCorrect`, `MapsMirror`, `NoStaleLimits`, `SharedLimit` and `Refinement`:
every step is a `Presence` step or stutters, by `Mirror`. `SharedLimit` rests on a second
invariant, `Counted`. Its part `Windowed` says of the open window that the message that
opened it came `Second` before its end, and more than `Second` after the message
`MaxMessages` before it, which was at the latest the opener of the window before. The
next message is either an opener or at most the `MaxMessages`-th of its window, and so
more than `Second` after the one 2 * `MaxMessages` - 1 before it.

**AccountCodes.** `Placed` says what a request holds at each position (`Holds`: the
raw code of the reset row it has found). `UsedUp` follows a reset row: it is proven
before it is used, and deleted by one request, which may have died since (`Deleter`).
`Changed` is the password: one that is not the registration's was set by a request
that held a proven code, and that is refused afterwards only when its row is deleted,
so `UsedUp` names its rival. `Sending`: whoever stored the present code is about to
send it or has. Theorems: `TypeCorrect`, `CodesAreAccounted`,
`MissingReplicasHaveCause`, `PasswordsHaveProof`, `LateRefusalsHaveRivals`,
`SpentStaysSpent`.

**Content.** `Found` is what a handler may rely on at its second statement although
others ran since the first: an edit of a post writes a status other than APPROVED, a
moderator's verdict is on an item that once was there, a notice has an author.
`MadeSoundly` keeps, for every comment ever made, that it was made by a user with a
replica on an item that existed, which is what its row is compared with. `Judged`
says that the last verdict on a post was written by a request about it.
Theorems: `TypeCorrect`, `ApprovalsStand`, `VerdictReachesAuthor`,
`ReferencesHold`.

**Notifications.** `Counted` relates runs and attempts left, with the one stall BullMQ
forgives; so a job that is not dead has an attempt left, and the row of a run is
fresh. `Owned`: a row no failed run left behind is the row of the last run, which is
past its insert; that is `DuplicateHasCause`. `Published`: nothing is on the stream or
the screen before its handler has published it. `Counts` is the badge: while nothing
has overlapped or failed (`Calm`), every count under way is right, and the badge is
right unless one is under way. Theorems: `TypeCorrect`, `DuplicatesHaveCause`,
`NothingIsLost`, `BadgeIsRight`.

**Gateway.** `IInv` is `TypeOK`, `AnswersTrue`, `ActsForCaller` and what they rest
on: `Taken`, a service works only on what the gateway let through, so a route that is
not open carries a token; `Held`, that token was issued to the caller's browser;
`Worked`, what a handler has written at each step and when it answers, with the two
excuses, `Hushed` (a failed statement under a catch block that answers success) and
`Excused` (a lost row, or a failed statement under one that answers a 4xx); and
`Settled`, an answer other than a 5xx leaves nobody working. Excuses do not go away
(`ExcuseKept`). That the tables fit together is a lemma of its
own (`TablesFit`), route by route, with no state in it. Theorems: `TypeCorrect`,
`ToldTheTruth`, `RunsForCaller`, for any menu, so for any sequence of requests.

`SignedOutHasCause`, in the second half of the module, needs to know which refresh made
the token in a live row and which one the browser heard of last. `SInv` says: the
cookies a browser holds, and those a request carries, are of a device that was given
to it, with the token of the login or of a refresh it was told of, and no other
refresh it was told of had heard of that token (`Cookies`, in `Jars` and `Carries`); a
live row holds the token of its login or of a refresh that ran, a device that was made
and not revoked has one, and a refresh that ran leaves no token its browser knew when
sending it (`Rows`); only a refresh with a token gets past its first check (`Finds`).
A step either leaves all of it alone, revokes rows, saves a row, takes a request or
relays an answer: a lemma each. `RotatedAway` then follows a refused token: if the row
was not revoked it holds the token of another refresh, and two refreshes of the device
are found of which the later had not heard of the earlier. Theorem: `SignedOut`.

`SessionsSignedIn`, at the end, adds `Owned`: the refresh tokens in the jars and on the
way belong to their browser. A refresh that finds its row then finds one of its own
user, so nothing but `LoginSave` adds to what can act (`NoNewSession`), and that, by
`Rows`, on a device that has no row yet (`LoginSignsIn`).

Only model-checked: the liveness properties `KeyReleased` and `JobSettles`, since
liveness under fairness is beyond the prover.

## 5. Not modelled

Image upload and hashing and encryption (one call on one value); validation,
pagination, error formatting, logging and health checks; contracts, migrations,
seeds, deployment and load tests. What queries that only read return (their routes and
guards are in `Routes`). The guards that no module installs (`InternalJwtAuthGuard`,
`UserJwtAuthGuard`). In `Gateway`: which permissions a caller has, which is
`Permissions`, and two tokens signed in the same second, which is `Sessions`. The order of
mails in a mailbox. Several gateway processes: the registry and the cache of keys
are per process, and the code is written for one.

## 6. Plan

Done, in this order: sessions, idempotency, permissions, rate limiter, sockets,
account codes, content with the update of comments, notifications with the reads by
HTTP, and the path of every route through the gateway, composed with the sessions.

Next, in this order:

1. compositions where components meet through state: sessions and permissions
   (permVersion in the token, `Sessions!RoleChange` as `Permissions!Commit`), and
   content with notifications (a verdict reaches the author's screen or a named
   failure), as an abstract specification of delivery refined by both;
2. an abstract specification of exactly-one effect for `Idempotency`, and its
   refinement.
