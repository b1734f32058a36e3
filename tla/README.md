# Verification of gnester-lite

TLA+ specifications of the stateful parts of gnester-lite, the TLC
configurations that check them on small instances, and TLAPS proofs of the
properties that matter most. Paths below are relative to the repository root
(`src/...` is the application, `docs/...` its documentation, `test/...` its
tests).

## 1. The system

gnester-lite is a NestJS service on Node.js with MySQL 8 (TypeORM, hand-written
SQL) and Redis 7 (BullMQ, a cache, rate limiting). One process serves HTTP and
runs the queue worker; several instances may share the databases.

| Component | State it keeps | Operations | Talks to |
| --- | --- | --- | --- |
| Answer generation (`src/modules/assistant/assistant-generation.service.ts`, `assistant.processor.ts`) | `assistant_answer.status/keyId/content`, BullMQ jobs, the in-memory map of abort controllers | start, use key, append, complete, fail, fail interrupted, enqueue, cancel | queue service, configuration, provider |
| Conversations (`assistant.service.ts`) | `assistant_conversation`, `assistant_turn` (selected answer, context snapshot), answer versions | send, regenerate, select answer, select model, stop, rename, delete | configuration (choose model), generation (enqueue, cancel) |
| Personal configuration (`assistant-configuration.service.ts`, `assistant-model-sync.service.ts`) | keys, key models, preferences (default, backups, notice, consent), model switches, audit | save, update, delete, revoke key, preferences, model switch, refresh, retire, repair default | provider, conversations (under the same account lock) |
| Provider protocol (`assistant-provider.service.ts`) | none | read catalogue, verify, classify failures | HTTP |
| Sessions (`src/modules/identity/application-auth.service.ts`) | `session` rows, signed cookies | sign in, require user, refresh, sign out | user administration (ban) |
| Users and invitations (`user-management.service.ts`) | `user`, `account`, `invitation` rows, MySQL named locks per e-mail | status change, create/resend/revoke/accept invitation, create user | sessions |
| Queue service (`src/infra/queue/queue.service.ts`) | Redis admission lock with a lifetime | add, run with pending capacity, perform with time budget | BullMQ |
| Schedules (`src/infra/schedule/schedule.service.ts`) | registry of cron jobs, intervals, timeouts, running callbacks | add, delete, stop, start, reschedule, shutdown | callbacks |
| Cache and HTTP response cache (`src/infra/cache`) | Redis entries, indexed items and index sets; one connection that is reset when a command's budget runs out | get, set, del, remember, set/delete indexed, members, prune, ping; lookup and storage of responses | Redis, handlers |
| Shutdown and readiness (`src/bootstrap/application-shutdown.ts`, `src/main.ts`, `src/infra/health/application-readiness.service.ts`) | drain flag, exit code, deadlines | signal, fatal error, drain, close | every module's destroy hook |
| Health (`src/infra/health`) | outage log state, one shared attempt per dependency | readiness probe, database and Redis checks, diagnostics | MySQL pool, Redis, drain flag |
| HTTP edge (`src/bootstrap/http`, `src/infra/csrf`, `src/infra/rate-limit`, `src/common`, `src/infra/http`, `src/infra/i18n`: CSRF, rate limit, guards, validation, envelope, exceptions, i18n) | CSRF cookies in the browser, rate-limit counters | seed cookies, filter, answer and localise each request | controllers, browser |

### Behaviours that are hard

* HTTP requests, the worker and the owner's edits interleave between any two
  `await`s; only some of them take the account row lock.
* The worker is cut anywhere by a crash, a shutdown or a thrown error; jobs are
  not retried (`attempts: 1`, `maxStalledCount: 0`).
* A queue command, a cache command or a publication that times out may still
  take effect; the admission lock may expire under its holder.
* One connection carries every caller's commands: a budget that runs out rejects
  them all.
* Seeding responses reach a browser in any order, or not at all, and only some
  pairs of their cookies work.
* Cancellation is in memory and finds only registered controllers, while the
  status it reflects is in MySQL.
* `finishKeyDeletion`, `selectAnswer`, `completeAnswer`, `repairDefault` after a
  refresh, and session creation are check-then-act sequences without a lock.


### What makes each part correct

| Component | Correct when |
| --- | --- |
| Answer generation | an account has at most one active answer; a settled answer stays settled; nothing is sent for an answer that was stopped; a key row outlives the answers that use it; an active answer is always in somebody's hands; the worker always comes back |
| Conversations | the shown version and the context sent to a provider are completed answers; only the latest turn grows; deletion leaves no unreachable active answer |
| Configuration | a committed default can be used; key positions are distinct; a rejected secret is not offered again; background repairs never overwrite the owner's choice |
| Sessions, users | a disabled user holds no working session; an invitation yields at most one account; one refresh token is rotated once |
| Queue admission | counted jobs never exceed the capacity, across lock expiry; what a caller is told agrees with what became of its jobs; the lock comes free |
| Schedules | callbacks of one interval do not overlap; everything armed can be found and stopped; after the drain nothing is armed and nothing runs that could be waited for |
| Cache | live indexed items fit the limit; a stale value ends with its lifetime, if it has one; requests are served whatever Redis does |
| Shutdown | the exit comes within the budgets; readiness falls before the listener closes; providers outlive requests; the first trigger decides |
| Health | probes do not accumulate on the pool and are answered; each logged outage has one recovery |
| HTTP edge | a client whose cookies were seeded is admitted by the CSRF boundary; every answer has the form its route declares once the boundary guard has run, and a language the request rates highest |

## 2. Plan

Modules in order of importance; all of them exist.

1. `AnswerLifecycle` (abstract) and `AssistantGeneration`, the core: one worker,
   its queue, the HTTP requests and the keys, on the same rows.
2. `AssistantConfiguration`: what `AssistantGeneration` abstracts as "some usable
   key": order, catalogues, default, backups, secrets.
3. `AssistantConversation`: what it abstracts as "publish" and "remove": turns,
   versions, context; implements `AnswerLifecycle` too.
4. `Accounts`: sessions, users and invitations together, since a ban, a
   sign-in and an acceptance meet on the same rows.
5. `ScheduleService` and `ApplicationShutdown`.
6. `QueueAdmission`: bounded admission under a lock that expires.
7. `ResponseCache`: cache service, index sets and HTTP cache interceptor over
   one connection.
8. `HealthProbes`: the shared attempts and the outage log.
9. `HttpRequests`: CSRF cookies, the stages a request passes, the form and
   language of its answer.

`AssistantGenerationProofs`, `AssistantServicesProofs` (about
`AssistantConversation` and `AssistantConfiguration`), `AccountsProofs`,
`ScheduleServiceProofs`, `ApplicationShutdownProofs`, `QueueAdmissionProofs`,
`ResponseCacheProofs` and `HttpEdgeProofs` (about `HealthProbes` and
`HttpRequests`) prove about them.

Every safety property a run checks is proved. Theorems still to prove: the type
of the default and the backups (section 5), and the safety lemmas behind the
liveness properties, such as that a worker tries each key once.

The runs are kept few, one per question.

## 3. The modules

Every definition that stands for code is listed with its lines in
`PROJECT.json` under `map`. Definitions with a suffix (`Register_Forgotten`) are
plausible faults of the definition that follows them; each shows that a property
would notice the fault.

### AnswerLifecycle

The abstract promise: rows are published into a free slot of the account,
admitted once, settled once, and then only removed. `OneActivePerUser` is what
the unique index on `activeUserId` enforces.

### AssistantGeneration

State: `status` and `keyId` are columns of `assistant_answer`; `key` is a row of
`assistant_key` with the one row of `assistant_key_model` that matters;
`modelOn` the model switch; `publishing`, `add`, `jobs` the request that waits
for `queueService.add`, the fate of that command, and the BullMQ queue;
`worker` the locals of `AssistantProcessor.generate` and its program counter;
`controllers` and `cancelling` the in-memory cancellation; `sweeping` and
`deleting` the two halves of `finishKeyDeletion`; `phase` the process.

One action is one SQL statement, one transaction under the account lock, or one
synchronous stretch between two awaits. The worker's steps follow the code:
`TakeJob`, `Admit`, `ConfirmAdmission`, `RejectAnswer`, `Register`,
`GenerationKey`, `UseAnswerKey`, `CheckAbort`, `CheckStatus`, `Send`,
`ReceiveText`, `Checkpoint`, `EndStream`, `StreamFails`, `CompleteAnswer`,
`MarkKeyFailure`, `NextGenerationKey`, `RetireModel`, `CatchError`,
`FailAnswer`, and, for `finally`, `Release` and the sweep of attempted keys.
`WorkerThrows` is a database error at any of the awaits.

Abstractions. One model per account, so a key serves it or not; the order of
keys is left to `AssistantConfiguration`, and "the first usable key" is any
usable key, which includes the one the code takes. Text is a Boolean (received
or not). Appending at a checkpoint is folded with the read that follows it.
`RemoveAnswer` is the cascade of a conversation's deletion. The second update of
`completeAnswer` is in `AssistantConversation`. A key is read before the account
lock, so edits may meet any stored row, also one marked for deletion. The
provider column is never null after migration 1788192000000.

### AssistantConfiguration

One account. `changeConfiguration` is a transaction in two steps, `OpenChange` (a
snapshot and the row locks it takes) and `Commit` (or `Rollback`): MySQL's REPEATABLE READ lets
the worker's statements run between the two. `Background` actors are the worker
(`markKeyFailure`, `retireModel`) and the model refresh, which take no account
lock: `repairDefault` is then its three awaits, `RepairReads`, `RepairChecks`,
`RepairWrites`. A catalogue is any set of the provider's models; the validation
model is any text model of it. `missingCount` stops at 2, where the code's
queries no longer distinguish values. Names, the notice, consents and audit
rows are left out. `FirstUsable`, the code's loop over ordered candidates, takes
the least usable index.

### AssistantConversation

One account. An action is what a request does between two awaits that matter.
`sendQuestion` reads the model's provider without a lock (`SendReads`); its
transaction takes the account lock and reads the context (`SendLocks`), then
inserts turn and answer and commits (`SendInserts`). `regenerate` is
`RegenerateLocks`, which reads the latest turn and the next version, and
`RegenerateInserts`. Only one request is inside such a transaction, and the
worker's `Admit` waits for it (`AccountIsFree`); everything else goes on between
the two halves: `SelectReads` and `SelectWrites`, `SelectModelReads` and
`SelectModelWrites`, `StopAnswer`, `DeleteReads`, `DeleteStops`, `DeleteRow`, and
the worker. The inserts therefore meet what a deletion has left: a foreign key
that has no row any more fails them.

The worker's part is `Admit`, `FailAnswer`, and the two statements of
`completeAnswer`, `CompleteAnswer` and `SelectCompleted`. The second may fail with
the process alive (`SelectFails`), and a restart may come before it; `missed`
remembers the answers either left completed and unselected, which is what
`CompletedIsShown` excepts. Turns are ordered by creation; equal timestamps,
which the code orders by id, are not distinguished. The choice of key and the
consents are left out: a request may be refused at any time.

### ScheduleService

Nest's registry and the cron library are external, modelled as the service uses
them. Registrations have an identity because names are reused, and each cron job
its `waitForCompletion` (`waits`), which `addCronJob` may set to false. With it,
cron's `stop()` looks every 100 ms whether the callback still runs, so a
`deleteCronJob` that met a running job is an entry of `deletions` until a poll
finds the job idle (`FinishDeletion`), and other requests, timers and shutdown go
on meanwhile. It then deletes by name (`schedule.service.ts:158`): the name may
belong to another job by then, whose callback may be running. `orphans` remembers
those callbacks. Without a callback to wait for, `stop()` resolves before any
other event, and the deletion is one step. Decorated jobs, which the service does
not manage, and rescheduling are left out.

### ApplicationShutdown

The triggers (two signals, each with its `once` listener, and a failed
bootstrap), the bootstrap that may still be creating or listening when they
come, and `closeAndExit`: propagation delay, admission, application, telemetry.
`Timers` fire at their deadlines, and `Tick` waits for them. Requests, hooks and
the telemetry client may hang for ever. The HTTP server, Nest's close sequence
and Node's signals are external. Reporting is left out.

### Accounts

State: `user` is the `user` row of an address (absent, enabled, disabled);
`session` the `session` rows with the number of the newest refresh token, whose
digest the row stores; `invitation` the `user_invitation` rows with the number
of the newest link; `cookies` what each browser holds; `emailLock` the MySQL
named lock of `accountEmailLockName`; `request` what each HTTP request has read
and which await comes next. A browser's tabs share cookies, so two requests of
one client are two tabs.

An action is what a request does between two awaits. `refresh` is `Rotate`
(under the row lock) and `CheckUser` (after it); `signOut` deletes by the
refresh cookie, then by the access cookie, then clears both; `createInvitation`
is `InviteReads` and `InviteWrites`, because its first SELECT fixes a snapshot
while its UPDATE and the unique index on `openEmail` see the present; the other
transactions lock what they read and are one step. `updateStatus` is one step
too: the foreign key of `session.userId` makes an insert wait for the locked
user row. `RequestFails` is a thrown error or a lost response at any await:
`finally`, or the end of the connection, gives the named lock back.

Abstractions. Passwords are right; names, lists, the administrator role and the
mail are left out. Random tokens never collide. Access cookies expire at any
time, sessions too.

### QueueAdmission

`QueueService.runWithPendingCapacity` and the `perform` around it. `lock` is the
Redis key of the admission lock, holding the token of the call that took it,
`lockAge` the part of its lifetime that has passed; `call` the local variables of each
call; `pending` the jobs the capacity counts. `Start` refuses what can never
fit; `TakeLock` is `SET NX PX`, `LockIsTaken` and `Retry` the wait of at most
`AdmissionWait`; `Count` compares, `Publish` adds the announced jobs one by one;
`ReleaseLock` is the script that compares tokens, in `finally`, whose failure is
logged only. Commands may fail or hang, also after they took effect
(`LockReplyLost`, a `Publish` that releases with "unavailable"). `CallTimesOut`
answers the caller and stops nothing: `late` records that a job was published
for a caller that already had its answer.

### ResponseCache

Callers of `CacheService` and of `HttpCacheInterceptor` over one Redis
connection. `call` says which operation a caller is in and which command it
waits for (`pc`); `at` where that command is: queued, written, or executed with
its reply lost. `Timeout` is the budget of a command running out: the transport
is reset and every pending command rejected (`Reset`), and the written ones may
still run (`late`, `RunLate`, `LoseLate`). `Apply` is what each command does:
`SetIndexed` and `RemoveIfMissing` are the scripts. `Factory` and `Handle` are
the caller's own computation, whose value is the version of `source` it read;
the handler's response is sent before it is stored. Plain entries expire if they
have a lifetime, which `Lifetime` resolves as the service does: what the caller
passes, else `cache.ttl`, and 0, which the shipped configuration sets, is no
expiry. `Bounded(k)` names the keys whose entries end. `clear()` is left out:
keyv scans and deletes in batches of its own.

### HealthProbes

`probe` is what each readiness probe still waits for; `attempt` the database
pings whose connection is not settled, `databasePingAttempt` the one new probes
join; `isPingingRedis` the shared Redis ping; `dependency` the diagnostics'
state with what they logged of the current outage. `TimerFires` destroys a held
connection, but an acquisition cannot be cancelled: the attempt has its result
and stays until `Cleanup`. `Deliver` gives a result to every probe that waits,
each of which reports it. Draining probes answer at once.

### HttpRequests

The edge as one browser meets it. Seeding requests (`GetSession`, `GetToken`)
see the cookies of the `jar` when they are handled, their responses arrive in
any order or not at all, and any cookie may be dropped. `Request` goes through
the stages in the code's order, each of which may end it: body parser (which
reads a body of any method), CSRF protection, missing route, throttler, guards,
validation, handler. The answer is what `ApiExceptionFilter`,
`ApiEnvelopeInterceptor` or the CSRF error handler make of it: native or envelope,
with a message in a language. The filter does not know the route. It looks for
the mark `ApiEnvelopeBoundaryGuard` leaves in `response.locals`
(`BoundaryMark`), which is `Unmarked` for what is thrown before that guard; the
interceptor reads the decorators of handler and controller itself
(`SkipApiEnvelope`, `IsNativeResponseBoundary`). `reply.by` is the stage that
ended the request.
`ResolveSupportedLanguage` follows the code's loop over languages and ranges;
`PreferredLanguages` is the reference definition it is compared with.
Identifiers are model values chosen fresh; a token is the identifier it was made
for. A seeding counts as entitled only if it overlapped no other. A header is a
sequence of ranges with natural qualities (`HeaderAssumption`): thousandths, of
which only the order matters, so the run's smaller numbers stand for them.

`AssistantConversation` and `HttpRequests` name their specifications
`ConversationSpec` and `HttpSpec`, because each shares a proof module with
another specification.

### The proof modules

Each `...Proofs` module is described in section 5.

### How the modules meet

The three assistant modules describe the same rows at three levels of detail.
`AnswerLifecycle` is what they share: `AssistantGeneration` and
`AssistantConversation` both implement it, so whatever the one assumes of the
other's statements on an answer row (that a publication needs a free slot, that
a stop touches only active rows) holds there. `AssistantConfiguration` justifies
the assumption that keys become usable and unusable at any time but only by the
steps listed in `AssistantGeneration`. `ApplicationShutdown` runs the module
destroy hooks: `BeginClose` and `Exit` of `AssistantGeneration` and
`BeginShutdown` of `ScheduleService`. Its drain flag is `isDraining` of
`HealthProbes`. The single queue command of `AssistantGeneration`, which may
time out and still land, is what `Publish` of `QueueAdmission` is for bounded
publications. The requests of the assistant's controllers enter
`AssistantGeneration` (`AnswerRequest`, `KeyRequest`), `AssistantConversation`
(`RequestNext`) and `AssistantConfiguration` (`OwnerNext`) after the stages
`HttpRequests` models.

## 4. The runs

| Run | Instance | What it shows |
| --- | --- | --- |
| `generation_answers` | 2 answers, 1 key, 1 edit, 1 disruption | an old job, a late command and a new answer cannot confuse each other; nothing is sent for a stopped answer or with a removed key outside the windows the property names; before a disruption a queued answer is in somebody's hands; a key outlives its answer although the sweep takes no lock; every statement is a step of `AnswerLifecycle` |
| `generation_progress` | 1 answer, 2 keys, 1 disruption, no edits, fair | text is sent once although keys fall back; the worker returns; an undisturbed answer settles |
| `generation_in_flight` | 1 answer, 1 key, 1 edit, fair | refutes a comment, see section 6 |
| `accounts` | 1 address, 1 browser with 2 tabs, 2 sessions, 2 invitations, 5 requests, 2 edits, 1 failure | what a ban, a sign-out, a resend, a revocation or a new account ends stays ended, whatever another request had read; concurrent refreshes do not sign each other out |
| `configuration` | 3 keys, 2 models, 1 backup, 2 secrets, 6 changes (4 once the background takes part), worker and refresh | under the account lock the default stays usable and positions distinct, whatever requests read before the lock; a rejected secret is never offered again by a late refresh |
| `conversation_requests` | 1 conversation, 2 turns, 3 answers, 2 requests, 1 crash | selections and contexts are completed answers although the worker's second statement may fail, only the latest turn grows although it is read before the insert, active answers stay reachable, rows follow `AnswerLifecycle` |
| `schedule_service` | 2 names, 3 registrations, 2 callers, fair | registries and managed names agree, everything armed can be found, intervals do not overlap, the drain leaves nothing armed and nothing running but two named kinds of callback, and ends |
| `shutdown_phases` | budgets 2, 3, 1 ticks, 2 requests, fair | exit within the budgets, readiness first, providers last, the first trigger stays the trigger and its code the exit code |
| `queue_admission` | 3 calls of 1 or 2 jobs, capacity 2, wait 1, operation timeout 1, lock lifetime 2 ticks, fair | the bound holds across lost replies, hanging calls and lock expiry; callers are told the truth; the lock comes free |
| `response_cache` | 2 callers, 2 members, limit 1, 3 operations, 1 change, fair | live items fit the limit, stale entries that have a lifetime end, requests are served whatever the connection does |
| `health_probes` | 3 probes, 2 attempts, fair | one pooled connection at most, one recovery record per logged outage, every probe answered |
| `http_requests` | 3 seedings, 5 identifiers, 2 languages, 11 headers | a seeding that ran alone makes the token good, whatever earlier responses left; an answer is native exactly when a probe's request got past parsers, CSRF boundary and router, and an envelope is in its client's language |

### Bounds, and why they are enough

* `MaxEdits`, `MaxChanges`, `MaxMixedChanges`, `MaxDisruptions`, `MaxCrashes`: the hazards are
  races of one edit with the worker's next two statements; for answer generation
  the theorems of section 5 hold for any bounds. Six changes of the
  configuration are enough to create two keys, set a default and a backup, delete
  or reorder, and create again; four do for a key that is created, rejected and
  saved with another secret while a refresh is under way.
* Two keys give one fallback; a third would repeat it. Three keys are used where
  positions are compared, and there is one provider, for which they compete.
* Two answers give an old one in the worker's hands and a new one queued; the
  account has one slot, so a third would repeat the pair.
* Three versions over two turns give a selection between two versions and a
  later turn that used one of them; two requests give every pair of handlers.
* Three registrations under two names give one name used twice and a neighbour,
  or one used three times: two callers deleting a running job, a job registered
  after the first has forgotten it, and the second forgetting that one.
* The budgets 2, 3 and 1 keep the order of the code's 5, 10 and 2 seconds and
  let each phase end early, on time, or with no time left. Clocks are assumed
  punctual.
* Five requests, two at a time, let one sign in, two tabs refresh or sign out at
  once, and two more follow; three tokens give two rotations, the second of an
  already replaced cookie; two invitations give a stale one and its successor;
  two edits a ban and its end, or a resend and a revocation. Several addresses
  are covered by the theorems.
* `MaxBackups` is 1 (12 in the code), `MaxSecrets` 2: a secret and its
  replacement.
* Identifiers are UUIDs, and model names are names, that the code only compares:
  the runs of safety properties of the assistant modules and of `Accounts` use the
  symmetry this gives, and `http_requests` that of its seedings, which are alike;
  no run with a liveness property does.
* Three admission calls give a holder, a waiting call and one that takes the lock
  after its expiry. Calls of one or two jobs against a capacity of two are
  refused, admitted alone, or admitted together. The lock's lifetime is longer
  than the timeout of its caller, as in the code (5 s against 3 s).
* Two cache callers suffice for every pair of commands of one connection; three
  operations for a fill, a change and a second reader; two members compete for
  the one place of the index. `remember`'s key has no lifetime of its own there and
  `DefaultTtl` is the shipped 0, so its entry never expires; the interceptor's has
  one. The theorems hold for any default.
* Three probes give one that waits, one that joins and one that comes after the
  attempt has its result; a second attempt would be the one too many.
* Three seedings give a response that arrives after two later ones; five
  identifiers keep a fresh one available beside those in the jar and under way.
  The headers cover absence, ties, weights against positions, refusals beside the
  wildcard, unknown languages and parts that do not parse.
* `CHECK_DEADLOCK FALSE` in every run but `http_requests`: identifiers and bounds
  run out, the process may stop, and a service with no request is idle.

### Fairness, and why the code justifies it

* `AssistantGeneration`: the worker's steps, the queue command, the sweeps, the
  cancellation and the exit are continuations of promises that resolve, so each is
  weakly fair. `StreamEnds` is strongly fair: a stream is bounded by
  `maxOutputTokens`, but is disabled and enabled between parts. `TakeJob(a)` is
  strongly fair: BullMQ serves waiting jobs in order, so none is passed over for
  ever. Owners, faults and restarts have no obligation.
* `ScheduleService`: the service's own continuations and cron's polls are fair,
  and callbacks are assumed to settle; without that its drain would wait, by
  design.
* `ApplicationShutdown`: only time and timers are fair. Requests, hooks and the
  telemetry client may hang.
* `QueueAdmission`: time passes, callers' timers fire and Redis expires the lock;
  operations may hang for ever.
* `ResponseCache`: a caller goes on after its own computation, and the budget of a
  command runs out (a factory or handler may be slow, but is assumed to settle);
  Redis expires what has a lifetime. The connection owes nothing.
* `HealthProbes`: only the timers are fair.

## 5. What is proved

Every safety property a passing run checks is proved, for every value of the
constants that meets the named assumptions. Such a property is seldom inductive;
what follows names the invariant that is and says why it is needed.

The theorems about `AssistantGeneration` hold for any accounts, answers, keys and
bounds, from three assumptions on the constants: ids have owners (`OwnerAssumption`),
null values are no ids (`NullAssumption`), bounds are numbers
(`BoundAssumption`).

* `TypeCorrect`: `TypeOK`, and `WorkerShape`, that a step which uses an answer or
  a key really holds one. Together they are `ShapeInv`, which is inductive.
* `KeyOutlives`: a generating answer's key row is never removed under it.
  `KeyOutlivesItsAnswer` is not inductive: `SweepDelete` removes a row on the
  word of a read made earlier. The invariant `IInv` adds `SweepsAreSafe` (a key
  in a sweep is pending or already removed, and once a sweep has read that no
  answer is generating with it, none is until the delete), `KeysAreOwn` (answers
  name keys of their own account) and `MarksAreStored` (only a stored row is
  pending). It is preserved because a pending key is not `Usable`: the only two
  statements that could bind a generating answer to a key, `Admit` and
  `UseAnswerKey`, test that under the account lock, and nothing clears
  `isPendingDeletion`; the worker's own sweep needs that there is one worker.
  The proof has one case per action; `QuietStep` disposes of those that leave
  keys and admissions alone.
* `ImplementsLifecycle`: every step is a step of `AnswerLifecycle` or leaves
  `status` alone, by cases, with `SettleIsAbstract` for the shared statement.
* `OneActive`: `OneActivePerUser`, from `AnswerLifecycle` alone, so it holds of
  any implementation.

The rest builds on these. `SendInv` says where the worker
stands: inside `try` its controller is registered, so a cancellation finds it
(`Registered`); its answer was admitted, so it can only be settled by others
(`Admitted`); a stop behind its last status read is in `cancelling` or has
aborted its signal (`StopIsNoticed`); the key it holds is the one its row names
(`KeyIsReserved`); text arrives only in the stream (`NoTextYet`). `OthersStep`
covers every step that is not the worker's.

* `StopsAreNoticed`: a provider request starts for a stopped answer only while
  its cancellation is under way, from `StopIsNoticed` and the look `streamText`
  takes at the signal.
* `RemovedKeysAreNotSent`: if the answer is still generating, `KeyIsReserved` and
  `KeyOutlives` give the stored row; else somebody settled it.
* `TextIsNotSentAgain`: from `NoTextYet`.
* `QueuedIsHeld`: `DriverInv` says whose hands: the request's until the queue
  command lands, then the queue's or the worker's. It fails after the first
  disruption (section 6, interrupted answers), hence the condition.

The runs use one account; two accounts that share the worker are covered by
these theorems.

Of `Accounts` the type invariant and all other properties are proved, for any addresses, browsers, rows, requests and bounds, from
`AccountNulls` (null values are no ids) and `AccountBounds` (bounds are numbers).

* `AccountTypes`: `TypeOK`, with one lemma per kind of step; `HoldsItsData` in it
  says that a step which uses a client, an address, a session or an invitation
  holds one.
* `BansEndSessions`: no statement revives a session or disables a user but
  `UpdateStatus`, which deletes the sessions in the same transaction.
* `AccountsCloseInvitations`: `AccountClosesInvitations` is not inductive, since
  `InviteWrites` trusts a read of an earlier step. `AddressInv` adds `Guarded`
  (who is inside the critical section holds the named lock; an invitation being
  written is for an address without account; a previewed invitation is not free
  and keeps its address) and `OneOpen` (the unique index). Two requests in the
  critical section of one address would be the same request, so nobody creates
  the account in between; `RequestFails` gives the lock back only together with
  the request that held it.
* `ClosedOnce`, `OnlyNewestLink`: from `ClosedStep`, which goes through every
  statement that writes an invitation.
* `SignOutsEndSessions`, `NewestTokensAreDelivered`: who holds which token of a
  session is spread over the row, the cookies and the requests under way, and
  `TokenInv` relates them: cookies and requests hold tokens the session issued
  (`CookieHeld`, `RequestHeld`); a session belongs to one browser (`OneBrowser`);
  a request between rotation and response brings the newest token and everybody
  else is behind (`BringsNewest`); what a sign-out has deleted so far, or that its
  token was rotated (`SignedOut`). A second rotation then needs the newest token,
  which only the response can have brought. `Steady`, `SteadyCookies` and
  `SteadyRequest` say what leaves all this alone: losing a cookie or a session, and
  a request that goes on without writing.

Of `AssistantConversation`, for any conversations, turns, answers, providers,
requests and crashes, from `ConversationNulls`, `CrashBound` and that there are
finitely many answer rows (`AnswersAreFinite`; the versions of a turn are
counted):

* `ConversationTypes`: `ConversationTypeOK`.
* `ContextsAreCompleted`, `FinishedVersionsAreShown`, `ActiveStaysReachable`: from
  `ConversationInv`. A turn belongs to one place of one stored conversation
  (`TurnsAreOwn`), a row is a version of a turn that is there (`AnswersBelong`), an
  account has one active answer (`OneActive`), and a selection that was read and
  not yet written names a completed version of its turn, unless that turn has
  gone (`SelectionsHold`): that is what makes `SelectWrites` harmless although it
  takes no lock. `FinishedAreShown` leaves out `missed`, the answers whose second
  statement failed or never ran.
* `ContextsAreCompleted` and `LatestGrows` rest on `TransactionInv` besides, which
  says what the account lock is for: one request at a time is between its reads
  and its inserts (`OneTransaction`), so the context it read has a place for each
  turn there is (`ContextsHold`) and the turn it read as the latest still is
  (`LatestHolds`), unless a deletion has taken the conversation, and then the
  insert fails.
* `ConversationImplementsLifecycle`: by cases; the slot is free when a row is
  published because `OneActive` speaks of all answers.

Of `AssistantConfiguration`, for any keys, models, providers and bounds with
finitely many keys (`KeyAssumption`), from `ConfigurationInv`:

* `ConfigurationTypes`: `ConfigurationTypeOK`.
* `RejectionsAreKept`: a transaction decides on a snapshot while the worker may
  still reject a key. `LocksAreOpen` says that what it is going to write is locked
  and `SecretsWillDiffer` that those rows offer a rejected key with a new secret
  only, which holds from the snapshot to the commit because nobody else writes a
  locked row.
* `PositionsStayDistinct`: of the rows as they are and as they will be after the
  commit (`DistinctIn(After)`); a new key's position is above the greatest
  (`GreatestNatural`).
* `DefaultsAreUsable`: `PreferencesFit` says the same of the default, now and after
  the commit, until something is written outside the lock. A repaired default is
  usable because `FirstUsable` has a least index to take (`LeastNatural`).

Of `QueueAdmission` everything but liveness is proved, for any calls, slots,
capacity and times with `AdmissionWait <= OperationTimeout < LockTtl`
(`AdmissionBounds`) and a null value that is no call (`CallAssumption`).

* `AdmissionTypes`: `TypeOK`.
* `CapacityIsHeld`: `CapacityHolds` is not inductive, since `Publish` trusts a
  count of an earlier step. `QInv` adds `HoldsLock` (a call that counts or
  publishes for a caller still waiting holds the lock, which is no older than the
  call: so it expires only after the caller's timeout, which is where
  `OperationTimeout < LockTtl` is needed) and, until some job was published
  `late`, `RoomIsReserved` (what such a call has still to publish fits).
* `OutcomesAreHonest`: from `Honest`, step by step.

Of `HealthProbes` (in `HttpEdgeProofs`), for any probes and attempts:

* `HealthTypes`: `TypeOK`.
* `PoolIsSpared`: `PingInv`, that the one attempt with a connection, asked for or
  held, is the one probes join, and has no result while a probe waits for it.
* `OutagesPair`: `Paired`, what the log's flag says of the records of an outage,
  kept by each single report.

Of `HttpRequests` (in `HttpEdgeProofs`), for any seedings, headers, languages and
catalogues, from `EdgeAssumption` (finitely many seedings under way and two more
identifiers than those, a fallback among the languages, the catalogue entries the
code relies on) and `HeaderAssumption`:

* `SeededClients`: `SeedingInv` adds `LoneSeedings`, that the cookies of a lone
  seeding complete the jar they will arrive in and that no other response is
  under way beside it, and `SeededJar`. A fresh identifier exists by counting
  (`IdentifierLeft`).
* `AnswersAreInTheirLanguage`: each stage that may end a request is a case of
  `StepKeepsContract`, which follows the mark from the guard to the filter. The
  language rests on `ResolvedIsPreferred`: for every header, the language the code's loop resolves is
  among those `PreferredLanguages`, the reference definition, names.
  `RatingIsBest` relates the range the code keeps of a language to its rating, and
  `HasBest` says that finitely many preferences have a best one.

`HasBest`, `LeastIndex` and `LeastNatural` need no induction over data: each takes
a minimal element of a family of finite sets, whose inclusion is well-founded
(`FS_StrictSubsetOrderingWellFounded`).

Of `ResponseCache`, for any callers, members, lifetimes and limit:

* `ItemsFit`: `EntriesFitCapacity` counts items, the code counts members.
  `IndexInv`: the index is finite, contains every live item and fits the limit;
  the removal of a member looks for its item again in the same script, which is
  what late commands of a reset connection need.
* `CacheTypes`: `TypeOK` and `CommandsTravel`, that a caller has a command on its
  way exactly while its operation waits for one: a reset leaves nobody waiting
  for nothing.

Of `ApplicationShutdown`, for any budgets and number of requests, from `SInv`
(`ClockInv`: the clock never passes the deadline of the phase under way;
`DrainInv`: what a server that was serving at the trigger still accepts and runs
by then; `RestInv`: the remaining types): `ShutdownTypes`, `BudgetIsKept`,
`DrainIsOrdered` and `ShutdownIsOwned`, that is all of its safety. The last goes
through every step: none changes the trigger once there is one, and none goes
back a phase.

Of `ScheduleService`, for any names, registrations and callers, from `SInv`:
`RegistriesDoAgree`, `NoIntervalOverlaps` and `DrainIsQuiet`, that is all of its
safety. `RegistryInv` ties names to registrations and says that nothing is armed
once the shutdown has begun; `CallbackInv` that a running cron callback which
shutdown could wait for (`Drained`: its job waits for completion, and no
deletion of the name's former holder forgot it) keeps its name registered;
`DrainInv` that the shutdown has a deletion polling for each of those, and
awaits every callback of an interval or timeout.

`TypeOK` is listed in no run where it is proved; `OneActive` and `ClosedOnce`
are theorems about the abstract life and the invitations that no run repeats.

Only model-checked: liveness under fairness (`WorkerReturns`, `AnswerSettles`,
both `ShutdownEnds`, `LockComesFree`, `StaleEnds`, `ResponsesAreServed`,
`ProbesAreAnswered`), which is out of the prover's reach. Neither checked nor
proved is the type of `preference` in `AssistantConfiguration`: what `Replaced`
makes of the backups is a `SelectSeq`, of whose result the library states nothing,
and no theorem depends on the backups. No module defines a RECURSIVE operator, so none is closed to
proof.

## 6. Where code and documents disagree

Found by a run that states what a comment says and fails:

* `generation_in_flight`: when a deletion commits between `generationKey` and
  `useAnswerKey`, `generate` returns and the answer stays `generating` ("in-flight
  answers may finish", `assistant-configuration.service.ts:319`).

Met while modelling, without a run of their own:

* `failInterruptedAnswers` fails only `generating` rows. An answer taken from the
  queue and not yet admitted when the worker is interrupted stays `queued` with no
  job, in the account's only slot, until the owner stops it ("an interrupted
  single-instance worker leaves partial text readable and retryable",
  `assistant-generation.service.ts:166`). `QueuedHasDriver` and `AnswerSettles`
  speak of the time before a disruption for that reason.
* A repair of the default after a refresh takes no account lock and writes over
  the default the owner saved after it was read
  (`assistant-configuration.service.ts:688`). `DefaultIsUsable` speaks of the time
  before unlocked writes for that reason.
* The provider to confirm context against is read before the lock, so a
  concurrent change of model lets old context go to another provider unconfirmed
  (`assistant.service.ts:136`).
* `refreshModels` clears `quota_exhausted` by key id; the secret that was
  verified may have been replaced (`assistant-configuration.service.ts:666`).
* `saveKey` may set as default a model already stored as a backup (`:256`), which
  `savePreferences` refuses (`:393`).
* `selectAnswer` reads that its turn is the latest and writes later, without a
  lock: a turn published in between makes it an earlier, "read-only" one
  (`assistant.service.ts:342`, `:349`).
* A timeout's settling callback removes whatever holds its name by then
  (`schedule.service.ts:236`).
* Shutdown does not wait for every running callback (`docs/schedule.md:9`,
  "在关停时等待正在运行的回调"). A job added with `waitForCompletion: false`
  (`schedule.service.ts:110`) is stopped at once. And of two deletions that poll
  for one running job the first frees its name; the second, resuming after the
  name was used again, deletes the new job by name
  (`schedule.service.ts:158-159`), whose running callback nobody awaits any more.
  `DrainedIsQuiet` names both.
* `completeAnswer` marks the answer completed and selects it in two statements
  (`assistant-generation.service.ts:152`). When the second fails, the processor
  logs the error, `failAnswer` finds a settled row, and the turn shows no answer
  until its owner selects one. `CompletedIsShown` names the case.
* The shutdown listeners are registered with `once`, so a repetition of the same
  signal during the drain kills the process (`application-shutdown.ts:243`,
  against the comment at `:236`). `RepeatedSignal` is an action of the module, and
  `FirstTriggerOwnsShutdown` speaks of the program's own exits. A trigger before the server
  listens leaves readiness up if the bootstrap goes on to listen.
* A sign-in that read the user before a ban inserts its session after it
  (`application-auth.service.ts:48`, `:74`): `requireUser` refuses it while the
  user is disabled, but it works again once the user is enabled
  (`docs/security.md` says that disabling revokes the sessions).
  `DisablingEndsSessions` excepts new rows for that reason.
* A sign-out whose refresh cookie another tab has rotated and whose access
  cookie has expired ends no session, and the other tab's late response restores
  the cookies (`application-auth.service.ts:214`). `SignOutEndsSession` names
  the case.
* The admission lock lives 5 s, its caller gives up after 3 s, and its operation
  goes on (`queue.service.ts:128`): what it publishes after the lock has expired
  may exceed the capacity. `CapacityHolds` excepts publications after the
  caller's answer (`late`) for that reason; nothing calls the operation yet.
* A fill of the cache that raced a change, or a response stored after a newer
  one, leaves an older version until its lifetime ends (`cache.service.ts:77`,
  `http-cache.interceptor.ts:69`), and for good when it has none, which is what
  the shipped `cache.ttl: 0` gives to whoever passes no lifetime (`config.yaml:6`,
  `docs/cache.md:39`). `StaleEnds` speaks of `Bounded` keys for that reason.
* Health probes "keep their native probe body on both success and failure"
  (`docs/i18n.md:46`), but a probe's request whose body the parsers reject is
  answered with an envelope: they run before the guard that marks the response
  (`configure-application.ts:72`, `api-exception.filter.ts:294`).
  `AnswersKeepTheirContract` names the stages before the guard.
* Two overlapping seedings of a browser without cookies can leave it with a token
  and an identifier that do not belong together (`csrf.service.ts:194`), until
  another seeding; `SeededClientsAreAdmitted` speaks of seedings that ran alone.

## 7. What is not modelled, and why

`PROJECT.json` lists every component with its status.

* Provider protocol, cryptography, token and password services, authorization
  guards: functions of one request without state; the modules take their
  outcomes as choices.
* Configuration files and validation, OpenAPI documents, security headers, CORS,
  logging and redaction, the outgoing HTTP client, build and release scripts:
  settings and text, with no state the program acts on.
* Rate-limit counters, BullMQ, csrf-csrf, nestjs-i18n, keyv: libraries, modelled
  as the code uses them. The Socket.IO adapter has no gateway to serve yet.
* Within modelled components: `clear()` of the cache, queue counts, pause, resume
  and close, rescheduling of jobs, renaming a conversation, notices, consents,
  audit rows, user names and the lists.
* The connection pool, except in `HealthProbes`: `regenerate` holds the account
  lock and a connection while `chooseModel` takes a second
  (`assistant.service.ts:266`), so a pool that is full of such requests waits for
  itself. A transaction of `AssistantConversation` always has its connection.
* Several processes on one database: the worker is written for a single instance
  (`assistant-generation.service.ts:166`). `QueueAdmission` and `ResponseCache`
  allow for others on the same Redis.

## 8. Running

    tlc -workers 2 -config <run>.cfg <module>.tla     # PROJECT.json pairs them
    tlapm AssistantGenerationProofs.tla
    tlapm AssistantServicesProofs.tla
    tlapm AccountsProofs.tla
    tlapm QueueAdmissionProofs.tla
    tlapm HttpEdgeProofs.tla
    tlapm ResponseCacheProofs.tla
    tlapm ApplicationShutdownProofs.tla
    tlapm ScheduleServiceProofs.tla

The longest runs, `http_requests` and `configuration`, take about two minutes
with two workers; so does the longest proof.
