# Cledyu: a TLA+ model of the lab session platform

Cledyu gives every learner a virtual machine with a lab in it, checks the learner's work inside that
machine step by step, and records who completed what. This directory holds TLA+ specifications of
the parts of it that are hard to get right: state that several goroutines, two services, a database,
Kafka, Redis, Kubernetes and AWS change in turn, any of which may fail or restart in between.

Paths below are relative to `src/apps/`; `handlers/` is `api/internal/api/handlers/`.

## 1. Inventory

| component | state | operations | interacts with |
|---|---|---|---|
| **step progress** (`handlers/session.go`, `progress.go`, `ownership.go`, `hint.go`, `store/store.go`) | `stepStore.m` under a mutex; rows `session_progress`, `session_steps`, `lab_completions` | create, read, validate, apply a result, hint, record a completion, take/remove | PostgreSQL (write-through outside the mutex), Kafka in both directions, the providers |
| **validation-engine** (`validation-engine/cmd/engine`, `internal/consumer`, `producer`) | the group's committed offsets; everything else dies with the pod | fetch, validate, run the checks, publish, commit, dead-letter | Kafka, the VM |
| **checker** (`internal/checker`, `internal/executor`) | none; it reads a VM the learner is changing | eight check types | virtctl/SSH, AWS SSM |
| **session admission** (`handlers/session.go`, `session/dispatcher.go`, `kubevirt/session.go`, `ec2/provisioner.go`, `lock/`) | namespaces and instances with labels/tags and timestamps; the per-user lock | create (lock, find, replace, quota, route), delete, terminate | Kubernetes, EC2, Redis, step progress |
| **reaper** (`api/cmd/server/main.go`, the providers' `Reap…`) | none | every two minutes: stuck, then expired sessions on both providers | as above |
| **boot results** (`kubevirt/watcher.go`, `ec2/provisioner.go`, `vmmetrics`) | two namespace annotations; an instance tag and a Redis key; counters | observe, record once | watcher, polls and reaper at once |
| web terminal (`handlers/console*.go`, `ec2/terminal.go`, `web/lib`) | a registry of the active console per session | acquire (last wins), release, proxy, reconnect | KubeVirt's exclusive console, the browser |
| VM files (`vmfiles/`, `handlers/vm_files.go`) | a singleflight group, a channel of slots | list, preview, time out, leave | SSH into the VM |
| billing and entitlement (`handlers/billing.go`, `entitlement.go`, `store/store.go`) | rows `checkout_sessions`, `subscriptions` | create and complete a checkout, admit to a paid lab | PostgreSQL |
| catalogue, dashboard, leaderboard | `users.leaderboard_hidden`; otherwise they read completions and progress | queries, hide and show | PostgreSQL |
| authentication and roles (`handlers/auth.go`, `admin.go`, `middleware`, `auth/`) | cookies; Keycloak's sessions and roles; their mirror in `users` | login, refresh, promote | Keycloak, PostgreSQL |
| AI tutor (Python), Airflow jobs, web pages, content loader, migrations, infrastructure | see `PROJECT.json` | | |

What is hard about it:

* **Interleavings.** Progress is changed under a mutex but saved after it; requests, the result
  consumer and the reaper overlap. Locks are per user while the quota is global. Three kinds of
  goroutines observe the same VM.
* **Restarts.** The API loses its cache and every goroutine; the engine loses all but its offsets;
  Redis locks and rows survive.
* **Delivery.** The engine handles requests at least once; results arrive at most once (the API
  commits before it applies them). No writer but the DLQ's waits for an acknowledgement, so a request
  or a result may also be lost between a successful `WriteMessages` and the topic.
* **Partial failure.** Creating a VM is several calls with no undo; one provider may fail while the
  other works; a call may fail after it took effect.
* **Time.** Lock TTLs, handler and check timeouts, provisioning timeout, session TTL.

`PROJECT.json` lists each such hazard at its line with the properties that watch it.

## 2. Modules

| module | models | proofs |
|---|---|---|
| `StepProgress` | the stepStore, its rows, both topics, the goroutines of the API | `StepProgressProofs` |
| `RequestDelivery` | abstract: what the engine promises to those who send requests | |
| `ValidationEngine` | the engine's loop, handler, producer, DLQ, process and broker faults; implements `RequestDelivery` | `ValidationEngineProofs` |
| `Checker` | validation and execution of the checks of one request | `CheckerProofs` |
| `SessionAdmission` | lock, CreateSession, dispatcher, both providers, deletion, reaper | `SessionAdmissionProofs` |
| `BootStatus` | `syncBootStatus` and `recordBootOnce` | `BootStatusProofs` |
| `Console` | the terminal handlers, the registry of consoles, the proxy's teardown, the browser's reconnects | `ConsoleProofs` |
| `VMFiles` | listings and previews of a VM's files: merged flights, slots, timeouts, callers that leave | `VMFilesProofs` |
| `Accounts` | mirror of users and roles, leaderboard opt-out, checkouts, subscriptions, paid labs | `AccountsProofs` |

The `MC…` modules only give values to constants that a cfg cannot write (functions, symmetry sets).
Definitions named as a "Mutant of X" are deliberately wrong variants of X; no specification uses
them. They document what the properties would catch.

### StepProgress

`cache` is `stepStore.m`, `db` the rows, `requests`/`results` the topics per session, `job[g]` the
program counter and locals of goroutine `g`. One step is one critical section of `stepStore.mu`, one
database call or one Kafka call. `withSession` is therefore split in two: the callback under the
mutex (`WriteSession` leaves a snapshot in `job`), and `SaveProgress` later. `take` is the part under
the mutex and its two calls (`TakeFromCache`, `LoadTaken`, `DeleteTaken`). `ValidateStep` is `FindValidatableStepIndex`,
`PublishRequest` or `PublishFails`, and `MarkStepValidating`; the consumer is `ReadResult` (which
commits), `ApplyValidationResult`, `SaveProgress`, `RecordLabCompletion`. `EngineAnswers` stands for
validation-engine and may answer a request again or out of order (`AnsweredRequest`).
A publication that succeeds may be lost (`KafkaMayLose`), one that fails may have been stored.
`Restart` clears the cache and all goroutines. `everPassed`, `verdicts` and `dropped` (completions
that a restart or a failed call cut off) are history.
Check outcomes, attempts and user ids decide nothing and are left out.

### ValidationEngine

`log`, `committed`, `position` are the topic, the group's offsets and the reader; `pc` and `msg` the
loop of `Consumer.Run`. `elapsed` counts the handler's time: each check uses up to `CheckTimeout`,
everything ends at `HandlerTimeout`, and `Publish` uses the same context, so it fails when no time
is left. A VM that answers at once costs no time; one that is slow or hangs is one of the faults.
`Publish` may succeed without storing the result: `producer.go` 26-31 leaves `RequiredAcks` at
kafka-go's zero value, which waits for no acknowledgement (only the DLQ's writer, `consumer.go` 52, asks
for all). `lost` records these results, as history. A publish that fails may have been written. `Rebalance` puts the reader back to the
committed offset while a message is in process; `Crash`, `Terminate` (SIGTERM), `BrokerDown` are
bounded by `MaxFaults`, as are the slow checks.

`RequestDelivery` is the promise behind it, without partitions, offsets or processes: a request that
was sent is answered (perhaps several times), parked, or its answer is lost, and it is given up only
after one of these: at-least-once handling, and not at-least-once answers.
`ValidationEngine` maps to it with `Delivery == INSTANCE RequestDelivery`: `sent` is what the topic
holds, `answers` the published results, `lost` the unstored ones, `parked` the dead letters and what the DLQ's failure leaves
in the log, `givenUp` what lies below the committed offsets. A commit that goes back after a rebalance makes requests
come back, which `GiveUp` allows.

### Checker

A VM is what the checks can distinguish: a path (nothing, a directory, a file with or without the
expected content) and a service. `Run` is one `Exec`; `LearnerActs` may happen between any two.
`held`/`missed` record whether the check's condition was true/false at some moment while it ran.
A link is "ok", "deadline" (`context.DeadlineExceeded`) or "error" (anything else).

### SessionAdmission

`state`, `owner`, `at` are what Kubernetes and AWS know; `steps` is the set of sessions with
progress. Every provider, lock or store call of `CreateSession` is a step, so that deletion, the
reaper and other requests come in between. An *orphan* is a namespace whose VM was never created.
`late` and `expired` abstract the clock. `Release` deletes only its own token. `reaper` is the
background loop with its error flag. A provider call that fails may have taken effect
(`EndAnyway`); the on-prem Create is two steps, the namespace and then its VM (the secret between them
changes nothing that is observed), and the owner's deletion is a read (`DeleteSession`) and a call
(`DeleteOwn`). A call that takes effect only after it was answered with an error is not modelled. A
round of the reaper that finds no session overdue changes nothing and is left out. Requests without a user id (authentication off) skip the lock
and are not modelled.

### BootStatus

`marks` are the annotations (on-prem) or the tag (EC2), `key` the Redis keys. `UpdateNamespace`
conflicts when the annotations changed since they were read (resourceVersion). `ExpireKey` happens
only when no call on that instance is under way: five minutes outlast every call.

### Console

A socket is a number; `pc` is where its handler is, `at` the session it serves, `sent` whether
`acquire` sent it the normal close, `cut` the sockets whose network path is gone. `link` holds the
sockets with an open connection to the VM: `Dial` on KubeVirt removes the others of the session
(`CutOff`, external), on EC2 it does not. The three loops of `proxyTerminal` are `InputEnds`,
`Keepalive` (ping and read deadline) and `OutputEnds`/`WriteFails`; the deferred calls are `Release`
and then `CloseSocket`. A window is "off", "open", waiting to "retry", or "stopped" by a 1000. The API
runs one replica (`gitops/apps/api/values.yaml`), so there is one registry. Bytes, resize frames and
the subprotocol are left out.

### VMFiles

`flight[k]` is the singleflight call of a session: waiting for a slot, running in the VM, or about to
deliver one result to all who joined. `slots` is the length of the channel, `caller[c]` where a
request is: waiting for a flight, with its result, or reading a file under a slot of its own.
`acquireLimit` never waits, so a full channel answers with an error. A browser that leaves
(`Leave`) stops its own wait or its read, and never the flight (`context.WithoutCancel`). The VM is the learner's:
its listings are any that `validateEntry` lets through; it may hang until the timeout or be deleted.
`shown` is history. JSON, previews' contents and SSH bytes are left out.

### Accounts

The tables `users`, `checkout_sessions`, `subscriptions`, Keycloak's roles, and `job[w]` for each
goroutine; one step is one statement, transaction or Keycloak call, and a goroutine may die between
any two (`Dies`), which is also how an error ends a request. `Callback` and `Refresh` start
`upsertUser` in a goroutine of its own, so an old token's role may arrive late. `SetUserRole` is
Keycloak first, the mirror second. `CompleteCheckout` locks and reads the row, then the clock;
`CommitExpired` or `CommitCompletion` is the rest of the transaction. `held` and `optedOut` are
history: which roles a user ever had, and which opt-outs were confirmed and not revoked by a later
request. Scores, ranks, cookies and the OIDC exchange are left out.

## 3. Runs

| run | shows | states |
|---|---|---|
| `sp_restart` | StepsPassInOrder, ShownProgressIsEarned, CompletionIsEarned, NoUnverifiedPass, CompletionIsUnderWay with engine and database under restarts, failing database calls, lost publications and redelivery | 3.3 M |
| `sp_local` | TypeOK, StepsPassInOrder without database and engine: recovery from a live VM, the mock, hints | 0.3 M |
| `sp_validating_resolves` | violated: finding 1 | |
| `ve_requests` | NothingSkipped, OnlyCheckedPass, RequestsAreSettled, ImplementsDelivery | 0.2 M |
| `ve_budget` | FatalIsTransient is violated: finding 2 | |
| `ck_forms` | TypeOK, PassIsTrue, FailureIsTheLearners for all pairs of checks in all forms | 0.4 M |
| `sa_quota` | OneSessionPerUser, QuotaOverrunIsBounded, ProgressIsKept with three users and one on-prem slot, Redis locks, failing calls, restarts | 1 M |
| `sa_reaper` | TypeOK, ExpiredIsReaped, ProgressIsKept although every on-prem call may fail; locks that expire under their holder, both providers wired, an on-prem limit of 0 | 0.36 M |
| `co_terminals` | TypeOK, HolderIsServed, OlderAreTold, TerminalsSettle, LostPeersAreReclaimed with two windows on KubeVirt and one on EC2 | 0.25 M |
| `bs_once` | TypeOK, EachResultCountedOnce, ReadyIsNotFailed, RunningIsRecorded | 0.4 M |
| `vf_slots` | SlotsAreHeld, OwnListing, ReadsAreListed, CallsEnd, SlotsComeBack; no deadlock | 0.3 M |
| `ac_accounts` | OptOutHolds, HiddenStaysPrivate, MirrorWasGranted, SubscriptionIsPaid, PaidLabsArePaid, OneGrantPerCheckout | 2.4 M |

**Bounds.** Two steps are the fewest with an order between them, three (`sp_local`) the fewest where
one can be skipped. One request goroutine and the consumer already race on one session: both save
snapshots. `QueueBound` 1 leaves a request, its redelivery and two results in flight. Two sessions
are needed for a second session of one user, three for an overrun of the quota beyond its bound
(two requests may overrun a capacity of one by one). `sa_quota` has one provider and no reaper: a second
provider with its own capacity takes four users to overrun, and a reaper beside three users takes TLC
longer than a run may last. OneSession, QuotaOverrun and ProgressKept are theorems for all of these, and
`sa_reaper` has the reaper. In the engine's runs a check may use the whole handler's time
(`CheckTimeout` = `HandlerTimeout`), as with the EC2 default.
Two observers are the fewest that conflict. Two windows and three sockets are
the fewest with a takeover while an older handler is still on its way out; a fault (lost notice, cut
network, failed dial, restart) can hit any of them. Three faults allow an outage during a restart after a
crash. `EventCap` and `CountCap` only cut counters after the value the properties distinguish.
One slot with two sessions and two callers is the smallest instance of `VMFiles` where flights
contend for a slot and requests share one. Two goroutines, two users and two checkouts are the
fewest for two completions of one checkout, a second period, and a request that overtakes another;
five requests allow an opt-out, its revocation and a leaderboard around a login, and the clock's
three ticks pass a checkout's lifetime (1) and a paid period (2).
Deadlock is checked for `VMFiles`, where a request can always come. Everywhere else the model may
simply have nothing left to do (all sessions, checkouts or requests of the instance used up).

**Fairness.** `StepProgress`: goroutines that can go on do, and the engine answers; no request has
to come. It is used only by the run that refutes ValidatingResolves. `ValidationEngine`: the loop runs,
Kubernetes restarts the pod, faults are finitely many (outages end, and so do the checks that use up the
handler's time: a VM that hangs for ever makes the engine fail on the same message for ever), and kafka-go serves every partition again and again (strong
fairness, since a broker outage disables fetching). `SessionAdmission`: the reaper's loop runs, and
the overflow API answers infinitely often; on-prem calls return, with a result or an error, and may
always fail. A call that never returns (the loop's context has no deadline) would stop the reaper and
is not covered. `BootStatus`: the informer goes on
and the Kubernetes API answers it infinitely often. `Console`: goroutines, the ticker and the read
deadline run, and an open page handles its events; no output of the VM is assumed (`WriteFails`).
`VMFiles`: the goroutines of requests and flights run and their timeouts fire; no VM has to answer.

## 4. Findings

1. **A step can stay "validating" for ever** (`sp_validating_resolves`). `ValidateStep` publishes
   and then marks the step; if the verdict is applied in between, the mark overwrites it.
2. **A FatalError need not be transient** (`ve_budget`). `ec2DefaultTimeout` (`internal/executor/ec2.go`
   17) equals `handlerTimeout` (`internal/consumer/consumer.go` 66), so one check that hangs leaves no
   time to publish its result; several KubeVirt checks of 20 s each add up to the same. The publication
   fails with Kafka up, the engine exits without a commit and meets the same message again, against
   `consumer.go` 112 and `cmd/engine/main.go` 211 (a transient fault of the infrastructure) and `ec2.go`
   16 (a check without a timeout of its own ends inside the handler's).

Other places where code and comments differ, seen while modelling and not asserted by a run:

* `withSession` saves its snapshot after it released the mutex, so two saves may reach the database
  in the opposite order and leave the row older than the cache (`handlers/progress.go` 66-80, against
  the write-through of `session.go` 62-64). ShownProgressIsEarned and the proofs hold nevertheless.
* `LabCompleted` is emitted again whenever a passing result is applied to a completed session
  (`handlers/session.go` 805-811: "1회 발행"), and such a session is reported as abandoned if it ends
  while a step is validated again (437-443).
* A save under way while the session ends writes its row back (`handlers/progress.go` 75, 112).
* The writers of results, requests and events set no `RequiredAcks`, so kafka-go waits for no
  acknowledgement (`validation-engine/internal/producer/producer.go` 26-31,
  `api/internal/validation/kafka.go` 24-28): a result can be lost although its request is committed,
  and a request although the step is marked validating; nothing retries. `api/internal/events/kafka.go`
  33 takes the default to be One.
* `file_content_absent` passes when the connection fails with anything but a deadline
  (`checker.go` 207-212); the other checks count it as the learner's failure (285-286 say it is a
  request error). PassIsTrue and FailureIsTheLearners make the exception explicit.
* `validateCheck` lets a command without an expect through as "intended to pass if it runs"
  (`main.go` 327); `runCommand` fails it (`checker.go` 101-103).
* A critical section longer than the Redis lock's 30 s lets a second request in
  (`lock/redis.go` 12-15). The theorem OneSession states this as its assumption.
* `Create` that fails half-way leaves a namespace that counts as active and has no progress
  (`kubevirt/session.go` 112-225, `handlers/session.go` 347). ProgressIsKept names this
  as the one case in which a live session loses its progress.
* `reapBoth` returns the reaped ids with the error, but the handler returns on the error first, so
  their progress stays (`handlers/session.go` 458-461, 481-484).
* `vmiPhase` maps every error to "not running", so the stuck reaper deletes a running VM whose VMI
  it cannot read (`kubevirt/session.go` 368-375, against 291).
* A VM recorded as timed out that comes up later is counted again as a success
  (`kubevirt/watcher.go` 98-111, against 69).
* "Last wins" is the order of `acquire`, not of the consoles: a superseded handler whose
  `SerialConsole` comes late cuts off the newer one, whose window then reconnects
  (`handlers/console_registry.go` 48-49 says that the loser gets 1000 first). In the same way a
  handler that is slow between the upgrade and `acquire` can supersede the socket with which its own
  window has reconnected; that window then stays stopped. TerminalsSettle holds in both cases.
* `handlers/handlers.go` 52 says that the existing window keeps the console; the registry lets the last
  one win (`handlers/console_registry.go` 18-28), and so does the model.
* `upsertUser` runs after the answer, with the role of its token: one that is late overwrites the
  mirror of a promotion until the next login. A promotion of an administrator to instructor lowers
  the mirror although the user keeps both roles (`handlers/admin.go`, `store/store.go`). The mirror is
  for display only, and MirrorWasGranted holds.
* Two checkouts of one user completed at the same time may commit in the opposite order of their
  clocks, so the period ends with the earlier one; a second purchase never adds to the first period
  (`store/store.go` 173). SubscriptionIsPaid says "a month after one of them".
* A leaderboard request reads its lists and the user's own flag in separate statements, so one answer may show
  a rank with a flag of another moment. HiddenStaysPrivate holds for both lists.
* A failed `upsertUser` is only logged: a user without a row is in no leaderboard until the next login.
* Two tabs that refresh with the same rotated token: the second is refused and clears the cookies
  that the first has just set (`handlers/auth.go` 206).
* `docs/RUNBOOK/slo-investigation.md` 278 names empty checks and handler errors as causes of
  dead letters; `handle` answers both and only unparsable messages are dead-lettered.

## 5. Proofs

All are checked by TLAPS for every value of the constants that satisfies the modules' assumptions.

* **StepProgressProofs.** `EarnedInvariant` proves `EarnedInv`: the safety properties together with
  `ResultsAreEarned` and `JobsAreEarned`. They are not inductive alone, because progress also
  travels in snapshots, in messages and in goroutines that checked the order earlier. The argument
  is monotonicity: `everPassed` and `verdicts` only grow, so a stale copy never claims too much, and
  a check made on a stale copy is still right. `TypeCorrect`, `StepOrder`, `ShownProgress`,
  `PassesAreVerified` and `CompletionEarned` follow. No bound on sessions, steps, goroutines, queues.
  `CompletionNotDropped` proves CompletionIsUnderWay: a session that emitted LabCompleted has its row or
  a goroutine that carries the completion, unless a restart or a failed call dropped it. Only four steps
  matter to it (the passing result, the save, the record, the read of the next result); all others are
  `OtherWork` of goroutines that carry none.
* **ValidationEngineProofs.** A commit moves the offset past a whole prefix, so `NothingSkipped` needs
  `FetchedIsSettled`: all that the reader has passed is settled (answered, its answer lost by the writer,
  parked or logged), except the message in process; and `Bookkeeping`, which ties `msg` to `pc`.
  `EngineInvariant` and `NoRequestIsSkipped` say so. No theorem claims that a result reaches its topic: the
  code does not guarantee it. Nor is there one about FatalIsTransient, which is false.
  `PassesAreChecked` adds `VerdictIsChecked`: the verdict a handler carries is one its checks gave.
  `EngineImplementsDelivery` is the refinement: the initial states map to the initial state, and every
  action to `Send`, `Answer`, `Lose`, `Park`, `GiveUp` or a stutter; for a commit this is
  FetchedIsSettled once more. `EngineTypeCorrect` is the types.
* **SessionAdmissionProofs.** `OneSession` assumes that no lock expires under its holder.
  `AdmissionInv` adds: a request in its critical section holds the lock of its user, the session it
  found is the only one of its user, once it goes on to create, the user has none, and while it adds the
  VM to its namespace, that namespace is the user's only session.
  The other theorems need no assumption about the lock. `AdmissionTypeCorrect` is the types.
  `QuotaOverrun`: the quota is checked several calls before the session exists, so the invariant
  (`RequestsAreCounted`) counts the requests between the two (`Pending`) with the active sessions: a
  check that passes sees fewer than Capacity sessions, and no more requests than Worker can be on
  their way; Create turns a pending request into a session. `OnpremOverrun` is the same argument for
  the Dispatcher's routing (`Routed`), with a limit of 0 as its own case. Both need finitely many
  session ids and requests. `ProgressKept` rests on `ProgressInv`: an id is used by one request only
  and created once (`MadeOnce`), what is about to be ended was created (`FoundWasMade`), and what
  is about to be forgotten has ended (`ForgottenHasEnded`), which is for good because Create meets
  fresh ids only.
* **ConsoleProofs.** `ConsoleInv` adds to HolderIsServed and OlderAreTold that a socket not yet
  registered has not been told to close (`PendingIsFresh`), which is what makes the new holder of
  `Acquire` fresh. `SlotsAreServed`, `OneConsolePerSession` and `ConsoleTypeCorrect` follow for any
  number of sockets, sessions, faults and restarts.
* **CheckerProofs.** Lemmas about the operators come first: for each kind of check, the command's
  status or output agrees with `Condition` (`StatusIsCondition`, `OutputIsCondition`,
  `AbsenceIsCondition`), hence what `Judge` calls a pass or a failure is true of the VM at that
  moment (`JudgePass`, `JudgeFail`). `CheckerInv` adds that `held` and `missed` have seen the present
  state of the VM (`RunningIsObserved`), which the learner's steps keep. PassIsTrue alone speaks of finished
  steps that passed; the inductive form (`PassHeld`) is about each result. No bound on the checks.
* **BootStatusProofs.** EachResultCountedOnce is not inductive: two goroutines ready to count the
  same result would break it. On-prem, `CountFollowsMark` excludes them: the update went through
  on the annotations that were read, which did not have the result (`UpdatesAreNews`). On EC2 the
  tag cannot (`CreateTags` never conflicts), so the key must: `OneHolder`, and `CountedIsOver`, which
  says that an instance that was counted is tagged, has no holder, and is looked at only while its
  key is set. `ExpireKey`'s guard (the TTL outlasts the calls under way) is used exactly there.
  ReadyStaysReady follows from UpdatesAreNews.
* **VMFilesProofs.** `FilesInv` adds to the properties that a flight works for the session of its
  key and everybody waiting for it asked for that session (`FlightsMatch`), and that a result
  carried by a flight or a request is a validated listing of that session (`ResultsMatch`). Counting the
  slots needs that sessions and callers are finite, and a lemma for each way in which `Flying` or `Reading`
  gains or loses one element. `SlotsAreAccounted`, `ListingsAreOwn` and `OnlyListedFilesAreRead`
  follow, for any limit.
* **AccountsProofs.** `AccountsInvariant` proves three parts side by side. `MirrorInv`: every role on
  its way to the mirror is in `held`, which only grows. `PrivacyInv`: while an opt-out is confirmed,
  or will be, no request to be shown is under way (`NobodyRevokes`), and what is about to be confirmed is
  in the table; a leaderboard's `mustHide` is still opted out when the lists are read. `BillingInv`: a transaction has its
  row to itself, pending and of its user (`RowsAreLocked`), which is what makes the types inductive as
  well, and payments lie in the past. `OptOutsHold`, `LeaderboardsArePrivate`,
  `MirroredRolesWereGranted`, `SubscriptionsArePaid`, `EntitlementsArePaid` and the action property
  `CheckoutsGrantOnce` follow, for any number of users, goroutines and checkouts.

The types of `ValidationEngine`, `VMFiles` and `Accounts` are proved (EngineTypeCorrect,
FilesTypeCorrect, AccountsTypeCorrect) and therefore not among the invariants of their runs.

`OnpremOverrunIsBounded` and the inductive invariants (RequestsAreCounted, RoutedAreCounted, ProgressInv,
BootInv, CheckerInv, ConsoleInv and the others) hold on the instances of the runs as well; they are no
invariants of the cfgs because the theorems say more.

Only model-checked: liveness (RequestsAreSettled, ExpiredIsReaped,
RunningIsRecorded, TerminalsSettle, LostPeersAreReclaimed, CallsEnd, SlotsComeBack), which is outside
the proof system's reach. Every invariant and every action property of the runs is proved.

## 6. Not modelled, and the plan

Not modelled: text (formatting, logs, HTTP bodies, cloud-init, manifests), metrics other than the
boot counters, tracing, external services' internals. The dashboard, the catalogue and the scores of the
leaderboard are pure reads. Events to Kafka are sent and forgotten; only their place in the order of
calls matters, and `StepProgress` has it. The content loader, the migrations and the Tailscale client
run once, in sequence. The Python and TypeScript applications (but for the terminal's reconnects) and
the infrastructure are outside. `newSessionID` and `newCheckoutID` are assumed not to repeat. Release mode, where a
checkout cannot be completed and plans are not checked, is not a run of its own.

Next, all of them proofs:

1. The safety part of the other liveness properties: what a stuck state would have to look like. For
   the console, a window that waits has a handler on its way; for the engine, a request that is not
   settled lies at or behind the committed offset.
2. An abstract specification of the boot accounting (a VM is counted at most once by result) that
   `BootStatus` refines, as `ValidationEngine` refines `RequestDelivery`.

Not planned: a form of OneSession for locks that expire under their holder. Two requests of a user that
both find a session and both go on end it once and create twice, and this can repeat, so that nothing but
the quota (`QuotaOverrun`) limits the number of sessions of that user.
