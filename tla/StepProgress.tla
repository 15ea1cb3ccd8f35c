---------------------------- MODULE StepProgress ----------------------------
(***************************************************************************)
(* The step progress of lab sessions: the in-memory cache stepStore, its   *)
(* PostgreSQL copy, the two Kafka topics to and from validation-engine,    *)
(* and the goroutines of the API that change them (handlers/session.go,    *)
(* progress.go, ownership.go, hint.go).                                    *)
(*                                                                         *)
(* A step of this module is one critical section of stepStore.mu, one      *)
(* database call or one Kafka call: exactly the points between which the   *)
(* goroutines of the program can interleave.                               *)
(***************************************************************************)
EXTENDS Naturals, Sequences

CONSTANTS
    Session,       \* session ids; each is created at most once
    Worker,        \* request goroutines (and the reaper goroutine)
    Consumer,      \* the goroutine that consumes validation-results
    NumSteps,      \* number of steps of the lab
    MaxHintLevel,  \* maxHintLevel of hint.go
    Enrolment,     \* (user, lab) pairs
    EnrolmentOf,   \* the (user, lab) pair of each session
    QueueBound,    \* bound on the messages waiting in a topic, per session
    EventCap,      \* LabCompleted events of a session are counted up to it
    Persistent,    \* stepStore.db # nil
    Validator,     \* "kafka", or without a validator "mock" or "release"
    CrashAllowed,  \* may the API process restart?
    DbMayFail,     \* may a database call fail?
    KafkaMayLose,  \* may Kafka lose a message whose write returned no error?
    None           \* absent

Step == 1 .. NumSteps
Status == {"pending", "active", "validating", "passed", "failed"}

\* sessionSteps. Attempts and Checks are written but never read by any decision.
Progress == [status : [Step -> Status], current : Step,
             hint : [Step -> 0 .. MaxHintLevel]]

Result == [step : Step, passed : BOOLEAN]
Proc == Worker \cup {Consumer}
VMState == {"none", "creating", "live", "gone"}

ASSUME StepProgressAssumption ==
    /\ NumSteps \in Nat \ {0}
    /\ MaxHintLevel \in Nat
    /\ EnrolmentOf \in [Session -> Enrolment]
    /\ QueueBound \in Nat \ {0}
    /\ EventCap \in Nat \ {0}
    /\ Persistent \in BOOLEAN
    /\ CrashAllowed \in BOOLEAN
    /\ DbMayFail \in BOOLEAN
    /\ KafkaMayLose \in BOOLEAN
    /\ Validator \in {"kafka", "mock", "release"}
    /\ Consumer \notin Worker
    /\ None \notin Progress
    /\ None \notin Session

VARIABLES
    cache,         \* stepStore.m
    db,            \* tables session_progress and session_steps
    vm,            \* the provider's view of each session
    job,           \* where each goroutine is, with its local variables
    requests,      \* topic validation-requests (one partition key per session)
    results,       \* topic validation-results
    completions,   \* table lab_completions: the session that earned the row
    completedEvents, \* number of LabCompleted events emitted, up to EventCap
    abandoned,     \* sessions for which LabAbandoned was emitted
    everPassed,    \* history: the steps that were ever set to passed
    verdicts,      \* history: the steps the engine ever judged passed
    dropped        \* history: sessions one of whose completions was dropped on its
                   \* way to lab_completions, by a restart or a failing call

vars == <<cache, db, vm, job, requests, results, completions,
          completedEvents, abandoned, everPassed, verdicts, dropped>>
store == <<cache, db>>
topics == <<requests, results>>
history == <<completedEvents, abandoned, everPassed, verdicts, dropped>>

-----------------------------------------------------------------------------
(* The goroutines' local state.                                            *)

Idle == [pc |-> "idle"]

Job ==
    [pc : {"idle"}]
    \cup [pc : {"create", "recover", "record"}, sid : Session]
    \cup [pc : {"publish", "mark", "mockpass"}, sid : Session, step : Step]
    \cup [pc : {"apply"}, sid : Session, step : Step, passed : BOOLEAN]
    \cup [pc : {"save"}, sid : Session, snap : Progress, completes : BOOLEAN]
    \cup [pc : {"remove"}, sid : Session, emits : BOOLEAN]
    \cup [pc : {"take", "erase"}, sid : Session, emits : BOOLEAN,
          held : Progress \cup {None}]

TypeOK ==
    /\ cache \in [Session -> Progress \cup {None}]
    /\ db \in [Session -> Progress \cup {None}]
    /\ vm \in [Session -> VMState]
    /\ job \in [Proc -> Job]
    /\ requests \in [Session -> Seq(Step)]
    /\ results \in [Session -> Seq(Result)]
    /\ completions \in [Enrolment -> Session \cup {None}]
    /\ completedEvents \in [Session -> 0 .. EventCap]
    /\ abandoned \in SUBSET Session
    /\ everPassed \in [Session -> SUBSET Step]
    /\ verdicts \in [Session -> SUBSET Step]
    /\ dropped \in SUBSET Session

Init ==
    /\ cache = [s \in Session |-> None]
    /\ db = [s \in Session |-> None]
    /\ vm = [s \in Session |-> "none"]
    /\ job = [p \in Proc |-> Idle]
    /\ requests = [s \in Session |-> <<>>]
    /\ results = [s \in Session |-> <<>>]
    /\ completions = [e \in Enrolment |-> None]
    /\ completedEvents = [s \in Session |-> 0]
    /\ abandoned = {}
    /\ everPassed = [s \in Session |-> {}]
    /\ verdicts = [s \in Session |-> {}]
    /\ dropped = {}

-----------------------------------------------------------------------------
(* The stepStore's data operations.                                        *)

\* The initial sessionSteps: the first step active, the others pending.
InitialProgress ==
    [status |-> [i \in Step |-> IF i = 1 THEN "active" ELSE "pending"],
     current |-> 1,
     hint |-> [i \in Step |-> 0]]

\* Mutant of AllPassed: the last step being current counts as completion.
LastIsCurrent(p) == p.current = NumSteps

AllPassed(p) == \A i \in Step : p.status[i] = "passed"

\* Step i was judged passed: it is passed, and the next one becomes current,
\* active if it was pending.
PassStep(p, i) ==
    IF i + 1 \in Step
    THEN [p EXCEPT !.status = [j \in Step |->
                       IF j = i THEN "passed"
                       ELSE IF j = i + 1 /\ p.status[j] = "pending" THEN "active"
                       ELSE p.status[j]],
                   !.current = i + 1]
    ELSE [p EXCEPT !.status[i] = "passed"]

\* Mutants of Validatable: the step just before i is not looked at; a step that
\* was reached counts as passed.
ValidatableOffByOne(p, i) == \A j \in Step : j < i - 1 => p.status[j] = "passed"
ValidatableIfReached(p, i) == \A j \in Step : j < i => p.status[j] # "pending"

\* All the steps before i have passed in p.
Validatable(p, i) == \A j \in Step : j < i => p.status[j] = "passed"

\* Mutant of NextHint: without the cap.
NextHintUncapped(p, i, explicit) ==
    IF explicit # 0 THEN explicit ELSE p.hint[i] + 1

\* The hint level a request without an explicit level (0) is given.
NextHint(p, i, explicit) ==
    IF explicit # 0 THEN explicit
    ELSE IF p.hint[i] + 1 > MaxHintLevel THEN MaxHintLevel
    ELSE p.hint[i] + 1

\* What withSession passes to its callback: the cache entry, or on a miss the
\* row of the database, which it enters into the cache; None: session not found.
View(s) == IF cache[s] # None \/ ~Persistent THEN cache[s] ELSE db[s]

\* On a cache miss the database call may fail; the session is then not found.
MayMiss(s) == View(s) = None \/ (cache[s] = None /\ DbMayFail)

\* After a critical section that changed s to p: the entry is in the cache; the
\* goroutine w has yet to save its snapshot and to record the completion.
WriteSession(w, s, p, completes) ==
    /\ cache' = [cache EXCEPT ![s] = p]
    /\ job' = [job EXCEPT ![w] =
                  IF Persistent
                  THEN [pc |-> "save", sid |-> s, snap |-> p,
                        completes |-> completes]
                  ELSE Idle]

Busy(w, pc) == job[w].pc = pc
Become(w, j) == job' = [job EXCEPT ![w] = j]
Finish(w) == Become(w, Idle)

-----------------------------------------------------------------------------
(* Creating and reading a session.                                         *)

\* CreateSession up to the provider call: put writes the row, then the cache
\* entry (a failure of the row ends the request with nothing written).
CreateSession(w, s) ==
    /\ Busy(w, "idle")
    /\ vm[s] = "none"
    /\ vm' = [vm EXCEPT ![s] = "creating"]
    /\ cache' = [cache EXCEPT ![s] = InitialProgress]
    /\ db' = IF Persistent THEN [db EXCEPT ![s] = InitialProgress] ELSE db
    /\ Become(w, [pc |-> "create", sid |-> s])
    /\ UNCHANGED <<topics, completions, history>>

\* The provider creates the VM, or fails and the progress is removed again.
ProviderCreate(w) ==
    /\ Busy(w, "create")
    /\ LET s == job[w].sid IN
       \/ /\ vm' = [vm EXCEPT ![s] = "live"]
          /\ Finish(w)
       \/ /\ vm' = [vm EXCEPT ![s] = "gone"]
          /\ Become(w, [pc |-> "remove", sid |-> s, emits |-> FALSE])
    /\ UNCHANGED <<store, topics, completions, history>>

\* GetSessionSteps (and every other read): only the load on a cache miss.
GetSessionSteps(w, s) ==
    /\ Busy(w, "idle")
    /\ View(s) # None
    /\ cache' = [cache EXCEPT ![s] = View(s)]
    /\ UNCHANGED <<db, vm, job, topics, completions, history>>

\* ensureStepSession without a database: the entry is missing, the VM is live.
EnsureStepSession(w, s) ==
    /\ Busy(w, "idle")
    /\ ~Persistent
    /\ cache[s] = None
    /\ vm[s] = "live"
    /\ Become(w, [pc |-> "recover", sid |-> s])
    /\ UNCHANGED <<store, vm, topics, completions, history>>

\* Mutant of RecoverSession: the recovered steps count as passed.
RecoverAsPassed(w) ==
    /\ Busy(w, "recover")
    /\ cache' = [cache EXCEPT ![job[w].sid] =
                    [InitialProgress EXCEPT !.status = [i \in Step |-> "passed"]]]
    /\ Finish(w)
    /\ UNCHANGED <<db, vm, topics, completions, history>>

\* ... and it then puts a fresh entry, whatever happened since.
RecoverSession(w) ==
    /\ Busy(w, "recover")
    /\ cache' = [cache EXCEPT ![job[w].sid] = InitialProgress]
    /\ Finish(w)
    /\ UNCHANGED <<db, vm, topics, completions, history>>

-----------------------------------------------------------------------------
(* Validating a step.                                                      *)

\* ValidateStep up to findValidatableStepIndex; without a validator the step
\* is passed by the mock outside release mode, and refused (503) in it.
FindValidatableStepIndex(w, s, i) ==
    /\ Busy(w, "idle")
    /\ View(s) # None
    /\ Validatable(View(s), i)
    /\ Validator # "release"
    /\ cache' = [cache EXCEPT ![s] = View(s)]
    /\ Become(w, [pc |-> IF Validator = "kafka" THEN "publish" ELSE "mockpass",
                  sid |-> s, step |-> i])
    /\ UNCHANGED <<db, vm, topics, completions, history>>

\* The request is in the topic.
StoreRequest(s, i) ==
    /\ Len(requests[s]) < QueueBound
    /\ requests' = [requests EXCEPT ![s] = Append(@, i)]

\* The provider still knows the session: the request is published. The writer
\* waits for no acknowledgement, so Kafka may have stored it or not.
PublishRequest(w) ==
    /\ Busy(w, "publish")
    /\ vm[job[w].sid] = "live"
    /\ \/ StoreRequest(job[w].sid, job[w].step)
       \/ KafkaMayLose /\ UNCHANGED requests
    /\ Become(w, [job[w] EXCEPT !.pc = "mark"])
    /\ UNCHANGED <<store, vm, results, completions, history>>

\* The session is gone, or Kafka refused the message: the request fails. A write
\* that ran into its deadline may have been stored all the same.
PublishFails(w) ==
    /\ Busy(w, "publish")
    /\ \/ vm[job[w].sid] = "live" /\ StoreRequest(job[w].sid, job[w].step)
       \/ UNCHANGED requests
    /\ Finish(w)
    /\ UNCHANGED <<store, vm, results, completions, history>>

\* markStepValidating: after the publication, whatever the step's status is.
MarkStepValidating(w) ==
    /\ Busy(w, "mark")
    /\ LET s == job[w].sid
           p == View(s)
       IN  \/ /\ MayMiss(s)
              /\ Finish(w)
              /\ UNCHANGED cache
           \/ /\ p # None
              /\ WriteSession(w, s,
                     [p EXCEPT !.status[job[w].step] = "validating"], FALSE)
    /\ UNCHANGED <<db, vm, topics, completions, history>>

\* markStepPassed: the mock's pass; it emits no LabCompleted event.
MarkStepPassed(w) ==
    /\ Busy(w, "mockpass")
    /\ LET s == job[w].sid
           i == job[w].step
           p == View(s)
       IN  \/ /\ MayMiss(s)
              /\ Finish(w)
              /\ UNCHANGED <<cache, everPassed>>
           \/ /\ p # None
              /\ WriteSession(w, s, PassStep(p, i), AllPassed(PassStep(p, i)))
              /\ everPassed' = [everPassed EXCEPT ![s] = @ \cup {i}]
    /\ UNCHANGED <<db, vm, topics, completions, completedEvents, abandoned,
                   verdicts, dropped>>

\* Where the oldest request goes when it is answered: it is done with; or the
\* engine crashed or failed to commit its offset, and it is delivered again, at
\* once or after the requests that wait behind it.
AnsweredRequest(q) == {Tail(q), q, Append(Tail(q), Head(q))}

\* validation-engine answers the oldest request of a session; its writer waits
\* for no acknowledgement either.
EngineAnswers(s) ==
    /\ requests[s] # <<>>
    /\ Len(results[s]) < QueueBound
    /\ \E passed \in BOOLEAN :
          /\ results' \in {[results EXCEPT ![s] =
                               Append(@, [step |-> Head(requests[s]), passed |-> passed])]}
                          \cup (IF KafkaMayLose THEN {results} ELSE {})
          /\ verdicts' = IF passed
                         THEN [verdicts EXCEPT ![s] = @ \cup {Head(requests[s])}]
                         ELSE verdicts
    /\ \E q \in AnsweredRequest(requests[s]) :
          requests' = [requests EXCEPT ![s] = q]
    /\ UNCHANGED <<store, vm, job, completions, completedEvents, abandoned,
                   everPassed, dropped>>

\* ReadMessage commits the offset before the result is applied.
ReadResult(s) ==
    /\ Busy(Consumer, "idle")
    /\ results[s] # <<>>
    /\ results' = [results EXCEPT ![s] = Tail(@)]
    /\ Become(Consumer, [pc |-> "apply", sid |-> s,
                         step |-> Head(results[s]).step,
                         passed |-> Head(results[s]).passed])
    /\ UNCHANGED <<store, vm, requests, completions, history>>

\* The count of LabCompleted events, up to the cap.
CountEvent(n) == IF n = EventCap THEN n ELSE n + 1

\* ApplyValidationResult on a session that is found, with a passing result.
ApplyPass(s, i, p) ==
    LET q == PassStep(p, i) IN
    /\ WriteSession(Consumer, s, q, AllPassed(q))
    /\ everPassed' = [everPassed EXCEPT ![s] = @ \cup {i}]
    /\ completedEvents' = IF AllPassed(q)
                          THEN [completedEvents EXCEPT ![s] = CountEvent(@)]
                          ELSE completedEvents

\* Mutant of ApplyFail: the session moves on to the next step.
ApplyFailAdvances(s, i, p) ==
    /\ WriteSession(Consumer, s,
           [PassStep(p, i) EXCEPT !.status[i] = "failed"], FALSE)
    /\ UNCHANGED <<everPassed, completedEvents>>

\* Mutant of ApplyFail: the verdict is ignored.
ApplyFailAsPass(s, i, p) == ApplyPass(s, i, p)

\* ... and with a failing one: no other step is touched.
ApplyFail(s, i, p) ==
    /\ WriteSession(Consumer, s, [p EXCEPT !.status[i] = "failed"], FALSE)
    /\ UNCHANGED <<everPassed, completedEvents>>

\* ApplyValidationResult: the result of an unknown session is dropped.
ApplyValidationResult ==
    /\ Busy(Consumer, "apply")
    /\ LET s == job[Consumer].sid
           i == job[Consumer].step
           p == View(s)
       IN  \/ /\ MayMiss(s)
              /\ Finish(Consumer)
              /\ UNCHANGED <<cache, everPassed, completedEvents>>
           \/ /\ p # None
              /\ IF job[Consumer].passed
                 THEN ApplyPass(s, i, p)
                 ELSE ApplyFail(s, i, p)
    /\ UNCHANGED <<db, vm, topics, completions, abandoned, verdicts, dropped>>

-----------------------------------------------------------------------------
(* Hints, and the write-through every change of an entry ends with.        *)

\* RequestHint: nextHint raises the step's level; the tutor call follows it and
\* changes nothing here. A level that is not higher only loads the entry.
RequestHint(w, s, i, explicit) ==
    /\ Busy(w, "idle")
    /\ View(s) # None
    /\ LET p == View(s)
           level == NextHint(p, i, explicit)
       IN  IF level > p.hint[i]
           THEN WriteSession(w, s, [p EXCEPT !.hint[i] = level], FALSE)
           ELSE /\ cache' = [cache EXCEPT ![s] = p]
                /\ UNCHANGED job
    /\ UNCHANGED <<db, vm, topics, completions, history>>

\* Mutant of SaveProgress: the completion is forgotten.
SaveProgressOnly(w) ==
    /\ Busy(w, "save")
    /\ db' = [db EXCEPT ![job[w].sid] = job[w].snap]
    /\ Finish(w)
    /\ UNCHANGED <<cache, vm, topics, completions, history>>

\* SaveProgress: the snapshot replaces the row, after the mutex was released.
\* A failure is only logged.
SaveProgress(w) ==
    /\ Busy(w, "save")
    /\ db' \in {[db EXCEPT ![job[w].sid] = job[w].snap]}
               \cup (IF DbMayFail THEN {db} ELSE {})
    /\ Become(w, IF job[w].completes
                 THEN [pc |-> "record", sid |-> job[w].sid]
                 ELSE Idle)
    /\ UNCHANGED <<cache, vm, topics, completions, history>>

\* RecordCompletion: the first completion of a (user, lab) pair is kept.
FirstCompletion(s) ==
    IF completions[EnrolmentOf[s]] = None
    THEN [completions EXCEPT ![EnrolmentOf[s]] = s]
    ELSE completions

\* recordLabCompletion, after the save; a failure is only logged.
RecordLabCompletion(w) ==
    /\ Busy(w, "record")
    /\ \/ /\ completions' = FirstCompletion(job[w].sid)
          /\ UNCHANGED dropped
       \/ /\ DbMayFail
          /\ dropped' = dropped \cup {job[w].sid}
          /\ UNCHANGED completions
    /\ Finish(w)
    /\ UNCHANGED <<store, vm, topics, completedEvents, abandoned, everPassed, verdicts>>

-----------------------------------------------------------------------------
(* Ending a session.                                                       *)

\* The provider deletes the VM: DeleteSession and ReapExpiredSessions emit
\* LabAbandoned afterwards, ReapStuckSessions and TerminateUserSession do not.
DeleteSession(w, s, emits) ==
    /\ Busy(w, "idle")
    /\ vm[s] = "live"
    /\ vm' = [vm EXCEPT ![s] = "gone"]
    /\ Become(w, [pc |-> "remove", sid |-> s, emits |-> emits])
    /\ UNCHANGED <<store, topics, completions, history>>

\* take, under the mutex: the entry leaves the cache.
TakeFromCache(w) ==
    /\ Busy(w, "remove")
    /\ LET s == job[w].sid IN
       /\ cache' = [cache EXCEPT ![s] = None]
       /\ Become(w, [pc |-> IF Persistent /\ cache[s] = None THEN "take" ELSE "erase",
                     sid |-> s, emits |-> job[w].emits, held |-> cache[s]])
    /\ UNCHANGED <<db, vm, topics, completions, history>>

\* take, after the mutex: the row is read if the cache had no entry ...
LoadTaken(w) ==
    /\ Busy(w, "take")
    /\ \E last \in {db[job[w].sid]} \cup (IF DbMayFail THEN {None} ELSE {}) :
          Become(w, [job[w] EXCEPT !.pc = "erase", !.held = last])
    /\ UNCHANGED <<store, vm, topics, completions, history>>

\* ... and deleted; an unfinished session is then reported as abandoned.
DeleteTaken(w) ==
    /\ Busy(w, "erase")
    /\ LET s == job[w].sid
           last == job[w].held
       IN  /\ db' \in {[db EXCEPT ![s] = None]}
                      \cup (IF DbMayFail THEN {db} ELSE {})
           /\ abandoned' = IF job[w].emits /\ last # None /\ ~AllPassed(last)
                           THEN abandoned \cup {s}
                           ELSE abandoned
    /\ Finish(w)
    /\ UNCHANGED <<cache, vm, topics, completions, completedEvents, everPassed,
                   verdicts, dropped>>

\* A goroutine in state j has the completion of session s still to record.
Records(j, s) ==
    \/ j.pc = "save" /\ j.sid = s /\ j.completes
    \/ j.pc = "record" /\ j.sid = s

\* The API process restarts: the cache and every goroutine's local state are
\* lost. A provider call under way may have taken effect or not.
Restart ==
    /\ CrashAllowed
    /\ cache' = [s \in Session |-> None]
    /\ job' = [p \in Proc |-> Idle]
    /\ dropped' = dropped \cup {s \in Session : \E p \in Proc : Records(job[p], s)}
    /\ \E lost \in SUBSET {s \in Session : vm[s] = "creating"} :
          vm' = [s \in Session |->
                    IF vm[s] # "creating" THEN vm[s]
                    ELSE IF s \in lost THEN "gone" ELSE "live"]
    /\ UNCHANGED <<db, topics, completions, completedEvents, abandoned, everPassed,
                   verdicts>>

-----------------------------------------------------------------------------

Request(w) ==
    \E s \in Session :
        \/ CreateSession(w, s)
        \/ GetSessionSteps(w, s)
        \/ EnsureStepSession(w, s)
        \/ \E i \in Step : FindValidatableStepIndex(w, s, i)
        \/ \E i \in Step, l \in 0 .. MaxHintLevel : RequestHint(w, s, i, l)
        \/ \E emits \in BOOLEAN : DeleteSession(w, s, emits)

\* The steps of a goroutine that is in the middle of an operation.
Continue(w) ==
    \/ ProviderCreate(w) \/ RecoverSession(w)
    \/ PublishRequest(w) \/ PublishFails(w)
    \/ MarkStepValidating(w) \/ MarkStepPassed(w)
    \/ SaveProgress(w) \/ RecordLabCompletion(w)
    \/ TakeFromCache(w) \/ LoadTaken(w) \/ DeleteTaken(w)

Consume ==
    \/ \E s \in Session : ReadResult(s)
    \/ ApplyValidationResult
    \/ SaveProgress(Consumer) \/ RecordLabCompletion(Consumer)

Next ==
    \/ \E w \in Worker : Request(w) \/ Continue(w)
    \/ Consume
    \/ \E s \in Session : EngineAnswers(s)
    \/ Restart

Spec == Init /\ [][Next]_vars

\* The scheduler runs every goroutine that can go on, and validation-engine
\* answers; requests and restarts are never obliged to happen.
Fairness ==
    /\ \A w \in Worker : WF_vars(Continue(w))
    /\ WF_vars(Consume)
    /\ \A s \in Session : WF_vars(EngineAnswers(s))

FairSpec == Spec /\ Fairness

-----------------------------------------------------------------------------
(* Properties.                                                             *)

\* Every step before i is one of the steps P that ever passed.
Earned(P, i) == \A j \in Step : j < i => j \in P

\* p shows only what a session that passed the steps P has earned.
EarnedProgress(P, p) ==
    /\ \A i \in Step : p.status[i] = "passed" => i \in P
    /\ \A i \in Step : p.status[i] # "pending" => Earned(P, i)
    /\ Earned(P, p.current)

\* ValidateStep is the final boundary of the step order (session.go 563-565,
\* 834-835): whatever stale snapshots, redelivered messages and restarts do to
\* the store, steps pass in order, and no request for a step reaches
\* validation-engine before every earlier step has passed.
StepsPassInOrder ==
    \A s \in Session :
        /\ \A i \in everPassed[s] : Earned(everPassed[s], i)
        /\ \A k \in 1 .. Len(requests[s]) : Earned(everPassed[s], requests[s][k])

\* The cache entry and the row a restart restores (progress.go 42-80) show only
\* progress that was earned: a step shown as passed did pass, and a step that
\* is current, or not pending, was reached by passing the steps before it.
ShownProgressIsEarned ==
    \A s \in Session : \A p \in {cache[s], db[s]} :
        p # None => EarnedProgress(everPassed[s], p)

\* Outside the mock (session.go 589-597) no step passes unless validation-engine
\* judged that very step of that session passed.
NoUnverifiedPass ==
    Validator # "mock" => \A s \in Session : everPassed[s] \subseteq verdicts[s]

\* A row of lab_completions, the source of certificates and of the leaderboard
\* (session.go 826-827), names a session of that user and lab in which every
\* step passed; so does a LabCompleted event, and with validation-engine the
\* event precedes the row.
CompletionIsEarned ==
    /\ \A s \in Session : completedEvents[s] > 0 => everPassed[s] = Step
    /\ \A e \in Enrolment :
          LET s == completions[e] IN
          s # None => /\ EnrolmentOf[s] = e
                      /\ everPassed[s] = Step
                      /\ Validator = "kafka" => completedEvents[s] > 0

\* If the LabCompleted event of s was emitted, its row is there or is coming, or
\* was dropped.
UnderWay(s) ==
    completedEvents[s] > 0 =>
        \/ completions[EnrolmentOf[s]] # None
        \/ s \in dropped
        \/ \E w \in Proc : Records(job[w], s)

\* Between the LabCompleted event and the row of lab_completions (session.go
\* 806-827) there is always a goroutine whose next calls write the row, unless a
\* restart or a failing call dropped it: goroutines that save, take, recover or
\* complete the same session do not get in its way.
CompletionIsUnderWay == Persistent => \A s \in Session : UnderWay(s)

\* What session.go 534-535 say of a step set to validating: its verdict arrives
\* (the page polls until it does).
ValidatingResolves ==
    \A s \in Session, i \in Step :
        (cache[s] # None /\ cache[s].status[i] = "validating" /\ vm[s] = "live")
        ~> ~(cache[s] # None /\ cache[s].status[i] = "validating" /\ vm[s] = "live")

-----------------------------------------------------------------------------
(* The inductive invariant behind the safety properties. Progress travels   *)
(* through copies (cache, row, snapshots under way) and messages; each of   *)
(* them may be old, but everPassed only grows, so what each says stays true.*)

\* A session that passed the steps P and emitted LabCompleted n times is done.
LabDone(P, n) ==
    /\ P = Step
    /\ Validator = "kafka" => n > 0

\* What a goroutine carries between two of its steps is earned as well, by the
\* history E of passed steps, V of verdicts and C of LabCompleted events.
JobIsEarned(j, E, V, C) ==
    /\ j.pc \in {"publish", "mark", "mockpass", "apply"} => Earned(E[j.sid], j.step)
    /\ j.pc = "mockpass" => Validator = "mock"
    /\ j.pc = "apply" => (j.passed => j.step \in V[j.sid])
    /\ j.pc = "save" => /\ EarnedProgress(E[j.sid], j.snap)
                        /\ j.completes => LabDone(E[j.sid], C[j.sid])
    /\ j.pc = "record" => LabDone(E[j.sid], C[j.sid])

JobsAreEarned ==
    \A w \in Proc : JobIsEarned(job[w], everPassed, verdicts, completedEvents)

\* So is every answer of validation-engine that waits in the topic.
ResultIsEarned(r, P, V) == Earned(P, r.step) /\ (r.passed => r.step \in V)

ResultsAreEarned ==
    \A s \in Session : \A k \in 1 .. Len(results[s]) :
        ResultIsEarned(results[s][k], everPassed[s], verdicts[s])

EarnedInv ==
    /\ TypeOK
    /\ StepsPassInOrder
    /\ ShownProgressIsEarned
    /\ NoUnverifiedPass
    /\ CompletionIsEarned
    /\ ResultsAreEarned
    /\ JobsAreEarned

=============================================================================
