------------------------- MODULE StepProgressProofs -------------------------
(***************************************************************************)
(* StepProgress is type correct, and the inductive invariant EarnedInv     *)
(* holds of it, for every number of sessions, goroutines and steps, with   *)
(* and without a database, with restarts and failing database calls.       *)
(***************************************************************************)
EXTENDS StepProgress, TLAPS

USE StepProgressAssumption

-----------------------------------------------------------------------------
(* The stepStore's data operations stay within Progress.                   *)

\* The entry that CreateSession and ensureStepSession put is a Progress.
LEMMA InitialProgressType == InitialProgress \in Progress
  BY DEF InitialProgress, Progress, Step, Status

\* Passing a step of a Progress gives a Progress.
LEMMA PassStepType ==
  ASSUME NEW p \in Progress, NEW i \in Step
  PROVE  PassStep(p, i) \in Progress
  <1>1. CASE i + 1 \in Step
    BY <1>1 DEF PassStep, Progress, Status
  <1>2. CASE i + 1 \notin Step
    BY <1>2 DEF PassStep, Progress, Status
  <1>3. QED BY <1>1, <1>2

\* Setting one status (markStepValidating, a failed result) keeps the type.
LEMMA SetStatusType ==
  ASSUME NEW p \in Progress, NEW i \in Step, NEW st \in Status
  PROVE  [p EXCEPT !.status[i] = st] \in Progress
  BY DEF Progress

\* nextHint never exceeds the highest level, and setting it keeps the type.
LEMMA NextHintType ==
  ASSUME NEW p \in Progress, NEW i \in Step, NEW l \in 0 .. MaxHintLevel
  PROVE  /\ NextHint(p, i, l) \in 0 .. MaxHintLevel
         /\ [p EXCEPT !.hint[i] = NextHint(p, i, l)] \in Progress
  <1>1. NextHint(p, i, l) \in 0 .. MaxHintLevel
    BY DEF NextHint, Progress
  <1>2. QED BY <1>1 DEF Progress

\* The messages that remain behind the oldest one of a topic.
LEMMA TailElements ==
  ASSUME NEW q \in Seq(Step), q # <<>>
  PROVE  /\ Tail(q) \in Seq(Step)
         /\ Len(Tail(q)) = Len(q) - 1
         /\ Len(q) \in Nat \ {0}
         /\ \A k \in 1 .. Len(q) - 1 : Tail(q)[k] = q[k + 1]
  OBVIOUS

\* A message that is delivered again goes behind the others.
LEMMA RotatedElements ==
  ASSUME NEW q \in Seq(Step), q # <<>>
  PROVE  LET t == Append(Tail(q), Head(q)) IN
         /\ Len(t) = Len(q)
         /\ t[Len(q)] = q[1]
         /\ \A k \in 1 .. Len(q) - 1 : t[k] = q[k + 1]
  BY TailElements

\* What withSession sees is a Progress or nothing.
LEMMA ViewType ==
  ASSUME TypeOK, NEW s \in Session
  PROVE  View(s) \in Progress \cup {None}
  BY DEF TypeOK, View

\* The local variables of each kind of job.
LEMMA JobFields ==
  ASSUME NEW j \in Job
  PROVE  /\ j.pc \in {"create", "recover", "record", "publish", "mark", "mockpass",
                      "apply", "save", "remove", "take", "erase"} => j.sid \in Session
         /\ j.pc \in {"publish", "mark", "mockpass", "apply"} => j.step \in Step
         /\ j.pc \in {"publish", "mark", "mockpass"} =>
               j \in [pc : {"publish", "mark", "mockpass"}, sid : Session, step : Step]
         /\ j.pc = "apply" => j.passed \in BOOLEAN
         /\ j.pc = "save" => j.snap \in Progress /\ j.completes \in BOOLEAN
         /\ j.pc \in {"remove", "take", "erase"} => j.emits \in BOOLEAN
         /\ j.pc \in {"take", "erase"} =>
               /\ j.held \in Progress \cup {None}
               /\ j \in [pc : {"take", "erase"}, sid : Session, emits : BOOLEAN,
                         held : Progress \cup {None}]
  BY DEF Job

\* WriteSession keeps cache and job within their types.
LEMMA WriteSessionType ==
  ASSUME TypeOK, NEW w \in Proc, NEW s \in Session, NEW p \in Progress,
         NEW c \in BOOLEAN, WriteSession(w, s, p, c)
  PROVE  /\ cache' \in [Session -> Progress \cup {None}]
         /\ job' \in [Proc -> Job]
  <1>1. cache' \in [Session -> Progress \cup {None}]
    BY DEF TypeOK, WriteSession
  <1>2. Idle \in Job /\ [pc |-> "save", sid |-> s, snap |-> p, completes |-> c] \in Job
    BY DEF Idle, Job
  <1>3. QED BY <1>1, <1>2 DEF TypeOK, WriteSession

\* A publication keeps its topic within its type, whether the message is stored or not.
LEMMA StoreRequestType ==
  ASSUME TypeOK, NEW s \in Session, NEW i \in Step,
         StoreRequest(s, i) \/ UNCHANGED requests
  PROVE  requests' \in [Session -> Seq(Step)]
  <1>1. CASE UNCHANGED requests
    BY <1>1 DEF TypeOK
  <1>2. CASE StoreRequest(s, i)
    <2>1. requests \in [Session -> Seq(Step)]
      BY DEF TypeOK
    <2>2. Append(requests[s], i) \in Seq(Step)
      BY <2>1
    <2>3. QED
      BY <1>2, <2>1, <2>2 DEF StoreRequest
  <1>3. QED
    BY <1>1, <1>2

\* A goroutine's new local state keeps job within its type.
LEMMA BecomeType ==
  ASSUME TypeOK, NEW w \in Proc, NEW j \in Job, Become(w, j)
  PROVE  job' \in [Proc -> Job]
  BY DEF TypeOK, Become

\* The local state of a goroutine without work.
LEMMA IdleType == Idle \in Job
  BY DEF Idle, Job

\* Every critical section, database call and Kafka call of the program keeps
\* the variables within their types.
LEMMA TypeStep == TypeOK /\ [Next]_vars => TypeOK'
  <1> SUFFICES ASSUME TypeOK, [Next]_vars PROVE TypeOK'
    OBVIOUS
  <1> USE IdleType
  <1>a. \A w \in Worker : w \in Proc
    BY DEF Proc
  <1>b. Consumer \in Proc
    BY DEF Proc
  <1>1. ASSUME NEW w \in Worker, NEW s \in Session, CreateSession(w, s) PROVE TypeOK'
    <2>1. [pc |-> "create", sid |-> s] \in Job
      BY DEF Job
    <2>2. job' \in [Proc -> Job]
      BY <1>1, <1>a, <2>1, BecomeType DEF CreateSession
    <2>3. QED
      BY <1>1, <2>2, InitialProgressType DEF CreateSession, TypeOK, VMState, topics, history
  <1>2. ASSUME NEW w \in Worker, ProviderCreate(w) PROVE TypeOK'
    <2>1. job[w] \in Job /\ job[w].sid \in Session
      BY <1>2, <1>a, JobFields DEF TypeOK, ProviderCreate, Busy
    <2>2. [pc |-> "remove", sid |-> job[w].sid, emits |-> FALSE] \in Job
      BY <2>1 DEF Job
    <2>3. job' \in [Proc -> Job]
      BY <1>2, <1>a, <2>2, BecomeType DEF ProviderCreate, Finish
    <2>4. QED
      BY <1>2, <2>1, <2>3 DEF ProviderCreate, TypeOK, VMState, store, topics, history
  <1>3. ASSUME NEW w \in Worker, NEW s \in Session, GetSessionSteps(w, s) PROVE TypeOK'
    BY <1>3, ViewType DEF GetSessionSteps, TypeOK, topics, history
  <1>4. ASSUME NEW w \in Worker, NEW s \in Session, EnsureStepSession(w, s) PROVE TypeOK'
    <2>1. [pc |-> "recover", sid |-> s] \in Job
      BY DEF Job
    <2>2. job' \in [Proc -> Job]
      BY <1>4, <1>a, <2>1, BecomeType DEF EnsureStepSession
    <2>3. QED
      BY <1>4, <2>2 DEF EnsureStepSession, TypeOK, store, topics, history
  <1>5. ASSUME NEW w \in Worker, RecoverSession(w) PROVE TypeOK'
    <2>1. job' \in [Proc -> Job]
      BY <1>5, <1>a, BecomeType DEF RecoverSession, Finish
    <2>2. QED
      BY <1>5, <2>1, InitialProgressType DEF RecoverSession, TypeOK, topics, history
  <1>6. ASSUME NEW w \in Worker, NEW s \in Session, NEW i \in Step,
               FindValidatableStepIndex(w, s, i)
        PROVE  TypeOK'
    <2>1. [pc |-> IF Validator = "kafka" THEN "publish" ELSE "mockpass",
           sid |-> s, step |-> i] \in Job
      BY DEF Job
    <2>2. job' \in [Proc -> Job]
      BY <1>6, <1>a, <2>1, BecomeType DEF FindValidatableStepIndex
    <2>3. QED
      BY <1>6, <2>2, ViewType DEF FindValidatableStepIndex, TypeOK, topics, history
  <1>7. ASSUME NEW w \in Worker, PublishRequest(w) PROVE TypeOK'
    <2>1. /\ job[w].sid \in Session
          /\ job[w].step \in Step
          /\ job[w] \in [pc : {"publish", "mark", "mockpass"}, sid : Session, step : Step]
      BY <1>7, <1>a, JobFields DEF TypeOK, PublishRequest, Busy
    <2>2. [job[w] EXCEPT !.pc = "mark"] \in Job
      BY <2>1 DEF Job
    <2>3. job' \in [Proc -> Job]
      BY <1>7, <1>a, <2>2, BecomeType DEF PublishRequest
    <2>4. requests' \in [Session -> Seq(Step)]
      BY <1>7, <2>1, StoreRequestType DEF PublishRequest
    <2>5. UNCHANGED <<cache, db, vm, results, completions, history>>
      BY <1>7 DEF PublishRequest, store
    <2>6. QED
      BY <2>3, <2>4, <2>5 DEF TypeOK, history
  <1>8. ASSUME NEW w \in Worker, PublishFails(w) PROVE TypeOK'
    <2>1. job[w].sid \in Session /\ job[w].step \in Step
      BY <1>8, <1>a, JobFields DEF TypeOK, PublishFails, Busy
    <2>2. job' \in [Proc -> Job]
      BY <1>8, <1>a, BecomeType DEF PublishFails, Finish
    <2>3. requests' \in [Session -> Seq(Step)]
      BY <1>8, <2>1, StoreRequestType DEF PublishFails
    <2>4. UNCHANGED <<cache, db, vm, results, completions, history>>
      BY <1>8 DEF PublishFails, store
    <2>5. QED
      BY <2>2, <2>3, <2>4 DEF TypeOK, history
  <1>9. ASSUME NEW w \in Worker, MarkStepValidating(w) PROVE TypeOK'
    <2>1. job[w].sid \in Session /\ job[w].step \in Step
      BY <1>9, <1>a, JobFields DEF TypeOK, MarkStepValidating, Busy
    <2>2. CASE Finish(w) /\ UNCHANGED cache
      <3>1. job' \in [Proc -> Job]
        BY <2>2, <1>a, BecomeType DEF Finish
      <3>2. QED
        BY <1>9, <2>2, <3>1 DEF MarkStepValidating, TypeOK, topics, history
    <2>3. CASE /\ View(job[w].sid) # None
               /\ WriteSession(w, job[w].sid,
                     [View(job[w].sid) EXCEPT !.status[job[w].step] = "validating"], FALSE)
      <3>1. View(job[w].sid) \in Progress
        BY <2>1, <2>3, ViewType
      <3>2. [View(job[w].sid) EXCEPT !.status[job[w].step] = "validating"] \in Progress
        BY <2>1, <3>1, SetStatusType DEF Status
      <3>3. /\ cache' \in [Session -> Progress \cup {None}]
            /\ job' \in [Proc -> Job]
        BY <2>1, <2>3, <3>2, <1>a, WriteSessionType
      <3>4. QED
        BY <1>9, <3>3 DEF MarkStepValidating, TypeOK, topics, history
    <2>4. QED
      BY <1>9, <2>2, <2>3 DEF MarkStepValidating
  <1>10. ASSUME NEW w \in Worker, MarkStepPassed(w) PROVE TypeOK'
    <2>1. job[w].sid \in Session /\ job[w].step \in Step
      BY <1>10, <1>a, JobFields DEF TypeOK, MarkStepPassed, Busy
    <2>2. CASE Finish(w) /\ UNCHANGED <<cache, everPassed>>
      <3>1. job' \in [Proc -> Job]
        BY <2>2, <1>a, BecomeType DEF Finish
      <3>2. QED
        BY <1>10, <2>2, <3>1 DEF MarkStepPassed, TypeOK, topics
    <2>3. CASE /\ View(job[w].sid) # None
               /\ WriteSession(w, job[w].sid, PassStep(View(job[w].sid), job[w].step),
                               AllPassed(PassStep(View(job[w].sid), job[w].step)))
               /\ everPassed' = [everPassed EXCEPT ![job[w].sid] = @ \cup {job[w].step}]
      <3>1. View(job[w].sid) \in Progress
        BY <2>1, <2>3, ViewType
      <3>2. PassStep(View(job[w].sid), job[w].step) \in Progress
        BY <2>1, <3>1, PassStepType
      <3>3. AllPassed(PassStep(View(job[w].sid), job[w].step)) \in BOOLEAN
        BY DEF AllPassed
      <3>4. /\ cache' \in [Session -> Progress \cup {None}]
            /\ job' \in [Proc -> Job]
        BY <2>1, <2>3, <3>2, <3>3, <1>a, WriteSessionType
      <3>5. everPassed' \in [Session -> SUBSET Step]
        BY <2>1, <2>3 DEF TypeOK
      <3>6. QED
        BY <1>10, <3>4, <3>5 DEF MarkStepPassed, TypeOK, topics
    <2>4. QED
      BY <1>10, <2>2, <2>3 DEF MarkStepPassed
  <1>11. ASSUME NEW s \in Session, EngineAnswers(s) PROVE TypeOK'
    <2>1. Head(requests[s]) \in Step /\ Tail(requests[s]) \in Seq(Step)
      BY <1>11 DEF EngineAnswers, TypeOK
    <2>2. requests' \in [Session -> Seq(Step)]
      <3>1. \A q \in AnsweredRequest(requests[s]) : q \in Seq(Step)
        <4>1. requests[s] \in Seq(Step)
          BY DEF TypeOK
        <4>2. Append(Tail(requests[s]), Head(requests[s])) \in Seq(Step)
          BY <2>1
        <4>3. QED
          BY <2>1, <4>1, <4>2 DEF AnsweredRequest
      <3>2. QED
        BY <1>11, <3>1 DEF EngineAnswers, TypeOK
    <2>3. PICK passed \in BOOLEAN :
            /\ \/ results' = [results EXCEPT ![s] =
                      Append(@, [step |-> Head(requests[s]), passed |-> passed])]
               \/ results' = results
            /\ verdicts' = IF passed
                           THEN [verdicts EXCEPT ![s] = @ \cup {Head(requests[s])}]
                           ELSE verdicts
      BY <1>11 DEF EngineAnswers
    <2>4. [step |-> Head(requests[s]), passed |-> passed] \in Result
      BY <2>1 DEF Result
    <2>5. results' \in [Session -> Seq(Result)]
      <3>1. results \in [Session -> Seq(Result)]
        BY DEF TypeOK
      <3>2. Append(results[s], [step |-> Head(requests[s]), passed |-> passed]) \in Seq(Result)
        BY <2>4, <3>1
      <3>3. QED
        BY <2>3, <3>1, <3>2
    <2>6. verdicts' \in [Session -> SUBSET Step]
      BY <2>1, <2>3 DEF TypeOK
    <2>7. UNCHANGED <<cache, db, vm, job, completions, completedEvents, abandoned,
                      everPassed, dropped>>
      BY <1>11 DEF EngineAnswers, store
    <2>8. QED
      BY <2>2, <2>5, <2>6, <2>7 DEF TypeOK
  <1>12. ASSUME NEW s \in Session, ReadResult(s) PROVE TypeOK'
    <2>1. Head(results[s]) \in Result /\ Tail(results[s]) \in Seq(Result)
      BY <1>12 DEF ReadResult, TypeOK
    <2>2. [pc |-> "apply", sid |-> s, step |-> Head(results[s]).step,
           passed |-> Head(results[s]).passed] \in Job
      BY <2>1 DEF Job, Result
    <2>3. job' \in [Proc -> Job]
      BY <1>12, <1>b, <2>2, BecomeType DEF ReadResult
    <2>4. results' \in [Session -> Seq(Result)]
      BY <1>12, <2>1 DEF ReadResult, TypeOK
    <2>5. QED
      BY <1>12, <2>3, <2>4 DEF ReadResult, TypeOK, store, history
  <1>13. ASSUME ApplyValidationResult PROVE TypeOK'
    <2> DEFINE s == job[Consumer].sid
               i == job[Consumer].step
               p == View(s)
    <2>1. s \in Session /\ i \in Step
      BY <1>13, <1>b, JobFields DEF TypeOK, ApplyValidationResult, Busy
    <2>2. CASE Finish(Consumer) /\ UNCHANGED <<cache, everPassed, completedEvents>>
      <3>1. job' \in [Proc -> Job]
        BY <2>2, <1>b, BecomeType DEF Finish
      <3>2. QED
        BY <1>13, <2>2, <3>1 DEF ApplyValidationResult, TypeOK, topics
    <2>3. CASE p # None /\ ApplyPass(s, i, p)
      <3>1. p \in Progress
        BY <2>1, <2>3, ViewType
      <3>2. PassStep(p, i) \in Progress /\ AllPassed(PassStep(p, i)) \in BOOLEAN
        BY <2>1, <3>1, PassStepType DEF AllPassed
      <3>3. /\ cache' \in [Session -> Progress \cup {None}]
            /\ job' \in [Proc -> Job]
        BY <2>1, <2>3, <3>2, <1>b, WriteSessionType DEF ApplyPass
      <3>4. everPassed' \in [Session -> SUBSET Step]
        BY <2>1, <2>3 DEF TypeOK, ApplyPass
      <3>5. completedEvents' \in [Session -> 0 .. EventCap]
        BY <2>1, <2>3 DEF TypeOK, ApplyPass, CountEvent
      <3>6. QED
        BY <1>13, <3>3, <3>4, <3>5 DEF ApplyValidationResult, TypeOK, topics
    <2>4. CASE p # None /\ ApplyFail(s, i, p)
      <3>1. p \in Progress
        BY <2>1, <2>4, ViewType
      <3>2. [p EXCEPT !.status[i] = "failed"] \in Progress
        BY <2>1, <3>1, SetStatusType DEF Status
      <3>3. /\ cache' \in [Session -> Progress \cup {None}]
            /\ job' \in [Proc -> Job]
        BY <2>1, <2>4, <3>2, <1>b, WriteSessionType DEF ApplyFail
      <3>4. QED
        BY <1>13, <2>4, <3>3 DEF ApplyValidationResult, ApplyFail, TypeOK, topics
    <2>5. QED
      BY <1>13, <2>2, <2>3, <2>4 DEF ApplyValidationResult
  <1>14. ASSUME NEW w \in Worker, NEW s \in Session, NEW i \in Step,
                NEW l \in 0 .. MaxHintLevel, RequestHint(w, s, i, l)
         PROVE  TypeOK'
    <2>1. View(s) \in Progress
      BY <1>14, ViewType DEF RequestHint
    <2>2. [View(s) EXCEPT !.hint[i] = NextHint(View(s), i, l)] \in Progress
      BY <2>1, NextHintType
    <2>3. CASE WriteSession(w, s, [View(s) EXCEPT !.hint[i] = NextHint(View(s), i, l)],
                            FALSE)
      <3>1. /\ cache' \in [Session -> Progress \cup {None}]
            /\ job' \in [Proc -> Job]
        BY <2>2, <2>3, <1>a, WriteSessionType
      <3>2. QED
        BY <1>14, <3>1 DEF RequestHint, TypeOK, topics, history
    <2>4. CASE cache' = [cache EXCEPT ![s] = View(s)] /\ UNCHANGED job
      BY <1>14, <2>1, <2>4 DEF RequestHint, TypeOK, topics, history
    <2>5. QED
      BY <1>14, <2>3, <2>4 DEF RequestHint
  <1>15. ASSUME NEW w \in Proc, SaveProgress(w) PROVE TypeOK'
    <2>1. /\ job[w].sid \in Session
          /\ job[w].snap \in Progress
      BY <1>15, JobFields DEF TypeOK, SaveProgress, Busy
    <2>2. [pc |-> "record", sid |-> job[w].sid] \in Job
      BY <2>1 DEF Job
    <2>3. job' \in [Proc -> Job]
      BY <1>15, <2>2, BecomeType DEF SaveProgress
    <2>4. db' \in [Session -> Progress \cup {None}]
      BY <1>15, <2>1 DEF SaveProgress, TypeOK
    <2>5. QED
      BY <1>15, <2>3, <2>4 DEF SaveProgress, TypeOK, topics, history
  <1>16. ASSUME NEW w \in Proc, RecordLabCompletion(w) PROVE TypeOK'
    <2>1. job[w].sid \in Session
      BY <1>16, JobFields DEF TypeOK, RecordLabCompletion, Busy
    <2>2. job' \in [Proc -> Job]
      BY <1>16, BecomeType DEF RecordLabCompletion, Finish
    <2>3. completions' \in [Enrolment -> Session \cup {None}]
      BY <1>16, <2>1 DEF RecordLabCompletion, FirstCompletion, TypeOK
    <2>4. dropped' \in SUBSET Session
      BY <1>16, <2>1 DEF RecordLabCompletion, TypeOK
    <2>5. QED
      BY <1>16, <2>2, <2>3, <2>4 DEF RecordLabCompletion, TypeOK, store, topics
  <1>17. ASSUME NEW w \in Worker, NEW s \in Session, NEW emits \in BOOLEAN,
                DeleteSession(w, s, emits)
         PROVE  TypeOK'
    <2>1. [pc |-> "remove", sid |-> s, emits |-> emits] \in Job
      BY DEF Job
    <2>2. job' \in [Proc -> Job]
      BY <1>17, <1>a, <2>1, BecomeType DEF DeleteSession
    <2>3. QED
      BY <1>17, <2>2 DEF DeleteSession, TypeOK, VMState, store, topics, history
  <1>18. ASSUME NEW w \in Worker, TakeFromCache(w) PROVE TypeOK'
    <2>1. job[w].sid \in Session /\ job[w].emits \in BOOLEAN
      BY <1>18, <1>a, JobFields DEF TypeOK, TakeFromCache, Busy
    <2>2. \A at \in {"take", "erase"} :
             [pc |-> at, sid |-> job[w].sid, emits |-> job[w].emits,
              held |-> cache[job[w].sid]] \in Job
      BY <2>1 DEF Job, TypeOK
    <2>3. job' \in [Proc -> Job]
      BY <1>18, <1>a, <2>2, BecomeType DEF TakeFromCache
    <2>4. QED
      BY <1>18, <2>1, <2>3 DEF TakeFromCache, TypeOK, topics, history
  <1>19. ASSUME NEW w \in Worker, LoadTaken(w) PROVE TypeOK'
    <2>1. /\ job[w].sid \in Session
          /\ job[w] \in [pc : {"take", "erase"}, sid : Session, emits : BOOLEAN,
                          held : Progress \cup {None}]
      BY <1>19, <1>a, JobFields DEF TypeOK, LoadTaken, Busy
    <2>2. PICK last \in Progress \cup {None} :
             Become(w, [job[w] EXCEPT !.pc = "erase", !.held = last])
      BY <1>19, <2>1 DEF LoadTaken, TypeOK
    <2>3. [job[w] EXCEPT !.pc = "erase", !.held = last] \in Job
      BY <2>1 DEF Job
    <2>4. job' \in [Proc -> Job]
      BY <1>a, <2>2, <2>3, BecomeType
    <2>5. QED
      BY <1>19, <2>4 DEF LoadTaken, TypeOK, store, topics, history
  <1>26. ASSUME NEW w \in Worker, DeleteTaken(w) PROVE TypeOK'
    <2>1. job[w].sid \in Session
      BY <1>26, <1>a, JobFields DEF TypeOK, DeleteTaken, Busy
    <2>2. job' \in [Proc -> Job]
      BY <1>26, <1>a, BecomeType DEF DeleteTaken, Finish
    <2>3. /\ db' = [db EXCEPT ![job[w].sid] = None] \/ db' = db
          /\ abandoned' = abandoned \cup {job[w].sid} \/ abandoned' = abandoned
      BY <1>26 DEF DeleteTaken
    <2>4. db' \in [Session -> Progress \cup {None}] /\ abandoned' \in SUBSET Session
      BY <2>1, <2>3 DEF TypeOK
    <2>5. QED
      BY <1>26, <2>2, <2>4 DEF DeleteTaken, TypeOK, topics
  <1>20. ASSUME Restart PROVE TypeOK'
    <2>1. job' \in [Proc -> Job]
      BY <1>20 DEF Restart
    <2>2. vm' \in [Session -> VMState]
      BY <1>20 DEF Restart, TypeOK, VMState
    <2>3. dropped' \in SUBSET Session
      BY <1>20 DEF Restart, TypeOK
    <2>4. QED
      BY <1>20, <2>1, <2>2, <2>3 DEF Restart, TypeOK, topics
  <1>21. CASE UNCHANGED vars
    BY <1>21 DEF TypeOK, vars
  <1>22. ASSUME NEW w \in Worker, Request(w) PROVE TypeOK'
    BY <1>22, <1>1, <1>3, <1>4, <1>6, <1>14, <1>17 DEF Request
  <1>23. ASSUME NEW w \in Worker, Continue(w) PROVE TypeOK'
    BY <1>23, <1>a, <1>2, <1>5, <1>7, <1>8, <1>9, <1>10, <1>15, <1>16, <1>18, <1>19,
       <1>26
       DEF Continue
  <1>24. ASSUME Consume PROVE TypeOK'
    BY <1>24, <1>b, <1>12, <1>13, <1>15, <1>16 DEF Consume
  <1>25. QED
    BY <1>11, <1>20, <1>21, <1>22, <1>23, <1>24 DEF Next

\* StepProgress is type correct.
THEOREM TypeCorrect == Spec => []TypeOK
  <1>1. Init => TypeOK
    BY DEF Init, TypeOK, Idle, Job, VMState
  <1>2. QED
    BY <1>1, TypeStep, PTL DEF Spec

-----------------------------------------------------------------------------
(* What was earned stays earned: the history only grows.                   *)

\* Everything earned by P is earned by a larger set of passed steps.
LEMMA EarnedGrows ==
  ASSUME NEW P, NEW Q, P \subseteq Q
  PROVE  /\ \A i : Earned(P, i) => Earned(Q, i)
         /\ \A p : EarnedProgress(P, p) => EarnedProgress(Q, p)
  BY DEF Earned, EarnedProgress

\* A session that is done stays done.
LEMMA LabDoneGrows ==
  ASSUME NEW P \in SUBSET Step, NEW Q \in SUBSET Step, P \subseteq Q,
         NEW n \in Nat, NEW m \in Nat, n <= m, LabDone(P, n)
  PROVE  LabDone(Q, m)
  BY DEF LabDone

\* The history E, V, C of one state is included in that of a later one.
HistoryGrows(E, V, C, E2, V2, C2) ==
    \A s \in Session : /\ E[s] \subseteq E2[s]
                       /\ V[s] \subseteq V2[s]
                       /\ C[s] <= C2[s]

\* What a goroutine carries stays earned while others extend the history.
LEMMA JobIsEarnedGrows ==
  ASSUME NEW E \in [Session -> SUBSET Step], NEW E2 \in [Session -> SUBSET Step],
         NEW V \in [Session -> SUBSET Step], NEW V2 \in [Session -> SUBSET Step],
         NEW C \in [Session -> 0 .. EventCap], NEW C2 \in [Session -> 0 .. EventCap],
         HistoryGrows(E, V, C, E2, V2, C2),
         NEW j \in Job, JobIsEarned(j, E, V, C)
  PROVE  JobIsEarned(j, E2, V2, C2)
  <1>1. CASE j.pc \in {"publish", "mark", "mockpass", "apply"}
    <2>1. j.sid \in Session
      BY <1>1, JobFields
    <2>2. Earned(E2[j.sid], j.step)
      BY <1>1, <2>1, EarnedGrows DEF JobIsEarned, HistoryGrows
    <2>3. QED
      BY <1>1, <2>1, <2>2 DEF JobIsEarned, HistoryGrows
  <1>2. CASE j.pc = "save"
    <2>1. j.sid \in Session
      BY <1>2, JobFields
    <2>2. EarnedProgress(E2[j.sid], j.snap)
      BY <1>2, <2>1, EarnedGrows DEF JobIsEarned, HistoryGrows
    <2>3. j.completes => LabDone(E2[j.sid], C2[j.sid])
      BY <1>2, <2>1, LabDoneGrows DEF JobIsEarned, HistoryGrows
    <2>4. QED
      BY <1>2, <2>2, <2>3 DEF JobIsEarned
  <1>3. CASE j.pc = "record"
    <2>1. j.sid \in Session
      BY <1>3, JobFields
    <2>2. LabDone(E2[j.sid], C2[j.sid])
      BY <1>3, <2>1, LabDoneGrows DEF JobIsEarned, HistoryGrows
    <2>3. QED
      BY <1>3, <2>2 DEF JobIsEarned
  <1>4. QED
    BY <1>1, <1>2, <1>3 DEF JobIsEarned

-----------------------------------------------------------------------------
(* A step only copies what the state already holds or adds what it earned. *)

StoreStep ==
    \A s \in Session :
        /\ \/ cache'[s] \in {cache[s], db[s], None}
           \/ EarnedProgress(everPassed'[s], cache'[s])
        /\ \/ db'[s] \in {db[s], None}
           \/ EarnedProgress(everPassed'[s], db'[s])

JobStep ==
    \A w \in Proc :
        \/ job'[w] = job[w]
        \/ JobIsEarned(job'[w], everPassed', verdicts', completedEvents')

TopicStep ==
    \A s \in Session :
        /\ \A k \in 1 .. Len(requests'[s]) :
              \/ \E m \in 1 .. Len(requests[s]) : requests'[s][k] = requests[s][m]
              \/ Earned(everPassed'[s], requests'[s][k])
        /\ \A k \in 1 .. Len(results'[s]) :
              \/ \E m \in 1 .. Len(results[s]) : results'[s][k] = results[s][m]
              \/ ResultIsEarned(results'[s][k], everPassed'[s], verdicts'[s])

CompletionStep ==
    \A e \in Enrolment :
        \/ completions'[e] = completions[e]
        \/ /\ completions'[e] \in Session
           /\ EnrolmentOf[completions'[e]] = e
           /\ LabDone(everPassed'[completions'[e]],
                      completedEvents'[completions'[e]])

HistoryStep ==
    /\ HistoryGrows(everPassed, verdicts, completedEvents,
                    everPassed', verdicts', completedEvents')
    /\ \A s \in Session :
          /\ \A i \in everPassed'[s] :
                \/ i \in everPassed[s]
                \/ /\ Earned(everPassed[s], i)
                   /\ Validator = "mock" \/ i \in verdicts[s]
          /\ completedEvents'[s] > 0 =>
                completedEvents[s] > 0 \/ everPassed'[s] = Step

CopiesOrEarns == StoreStep /\ JobStep /\ TopicStep /\ CompletionStep /\ HistoryStep

\* The invariant is kept by every step that copies or earns.
LEMMA CopiesOrEarnsKeepsInv ==
  ASSUME EarnedInv, TypeOK', CopiesOrEarns
  PROVE  EarnedInv'
  <1> USE DEF CopiesOrEarns
  <1>g. /\ everPassed \in [Session -> SUBSET Step] /\ everPassed' \in [Session -> SUBSET Step]
        /\ verdicts \in [Session -> SUBSET Step] /\ verdicts' \in [Session -> SUBSET Step]
        /\ completedEvents \in [Session -> 0 .. EventCap]
        /\ completedEvents' \in [Session -> 0 .. EventCap]
        /\ job \in [Proc -> Job] /\ job' \in [Proc -> Job]
        /\ TypeOK
    BY DEF EarnedInv, TypeOK
  <1>h. \A s \in Session : /\ everPassed[s] \subseteq everPassed'[s]
                           /\ verdicts[s] \subseteq verdicts'[s]
                           /\ completedEvents[s] <= completedEvents'[s]
    BY DEF HistoryStep, HistoryGrows
  <1>1. StepsPassInOrder'
    <2> SUFFICES ASSUME NEW s \in Session
                 PROVE  /\ \A i \in everPassed'[s] : Earned(everPassed'[s], i)
                        /\ \A k \in 1 .. Len(requests'[s]) :
                              Earned(everPassed'[s], requests'[s][k])
      BY DEF StepsPassInOrder
    <2>1. ASSUME NEW i \in everPassed'[s] PROVE Earned(everPassed'[s], i)
      <3>1. Earned(everPassed[s], i)
        BY <2>1 DEF HistoryStep, EarnedInv, StepsPassInOrder
      <3>2. QED
        BY <1>h, <3>1, EarnedGrows
    <2>2. ASSUME NEW k \in 1 .. Len(requests'[s])
          PROVE  Earned(everPassed'[s], requests'[s][k])
      <3>1. CASE \E m \in 1 .. Len(requests[s]) : requests'[s][k] = requests[s][m]
        <4>1. Earned(everPassed[s], requests'[s][k])
          BY <3>1 DEF EarnedInv, StepsPassInOrder
        <4>2. QED
          BY <1>h, <4>1, EarnedGrows
      <3>2. QED
        BY <2>2, <3>1 DEF TopicStep
    <2>3. QED
      BY <2>1, <2>2
  <1>2. ShownProgressIsEarned'
    <2> SUFFICES ASSUME NEW s \in Session
                 PROVE  /\ cache'[s] # None => EarnedProgress(everPassed'[s], cache'[s])
                        /\ db'[s] # None => EarnedProgress(everPassed'[s], db'[s])
      BY DEF ShownProgressIsEarned
    <2>1. /\ cache[s] # None => EarnedProgress(everPassed'[s], cache[s])
          /\ db[s] # None => EarnedProgress(everPassed'[s], db[s])
      BY <1>h, EarnedGrows DEF EarnedInv, ShownProgressIsEarned
    <2>2. QED
      BY <2>1 DEF StoreStep
  <1>3. NoUnverifiedPass'
    BY <1>g, <1>h DEF NoUnverifiedPass, HistoryStep, EarnedInv
  <1>4. CompletionIsEarned'
    <2>1. ASSUME NEW s \in Session, completedEvents'[s] > 0 PROVE everPassed'[s] = Step
      <3>1. CASE completedEvents[s] > 0
        <4>1. everPassed[s] = Step
          BY <3>1 DEF EarnedInv, CompletionIsEarned
        <4>2. everPassed'[s] \in SUBSET Step
          BY <1>g
        <4>3. QED
          BY <1>h, <4>1, <4>2
      <3>2. QED
        BY <2>1, <3>1 DEF HistoryStep
    <2>2. ASSUME NEW e \in Enrolment, completions'[e] # None
          PROVE  /\ EnrolmentOf[completions'[e]] = e
                 /\ everPassed'[completions'[e]] = Step
                 /\ Validator = "kafka" => completedEvents'[completions'[e]] > 0
      <3>1. CASE completions'[e] = completions[e]
        <4>1. completions[e] \in Session
          BY <2>2, <3>1, <1>g DEF TypeOK
        <4>2. /\ EnrolmentOf[completions[e]] = e
              /\ everPassed[completions[e]] = Step
              /\ Validator = "kafka" => completedEvents[completions[e]] > 0
          BY <2>2, <3>1 DEF EarnedInv, CompletionIsEarned
        <4>3. LabDone(everPassed[completions[e]], completedEvents[completions[e]])
          BY <4>2 DEF LabDone
        <4>4. LabDone(everPassed'[completions[e]], completedEvents'[completions[e]])
          BY <1>g, <1>h, <4>1, <4>3, LabDoneGrows
        <4>5. QED
          BY <3>1, <4>2, <4>4 DEF LabDone
      <3>2. QED
        BY <2>2, <3>1 DEF CompletionStep, LabDone
    <2>3. QED
      BY <2>1, <2>2 DEF CompletionIsEarned
  <1>5. ResultsAreEarned'
    <2> SUFFICES ASSUME NEW s \in Session, NEW k \in 1 .. Len(results'[s])
                 PROVE  ResultIsEarned(results'[s][k], everPassed'[s], verdicts'[s])
      BY DEF ResultsAreEarned
    <2>1. CASE \E m \in 1 .. Len(results[s]) : results'[s][k] = results[s][m]
      <3>1. ResultIsEarned(results'[s][k], everPassed[s], verdicts[s])
        BY <2>1 DEF EarnedInv, ResultsAreEarned
      <3>2. Earned(everPassed'[s], results'[s][k].step)
        BY <1>h, <3>1, EarnedGrows DEF ResultIsEarned
      <3>3. QED
        BY <1>h, <3>1, <3>2 DEF ResultIsEarned
    <2>2. TopicStep
      BY DEF CopiesOrEarns
    <2>3. QED
      BY <2>1, <2>2 DEF TopicStep
  <1>6. JobsAreEarned'
    <2> SUFFICES ASSUME NEW w \in Proc
                 PROVE  JobIsEarned(job'[w], everPassed', verdicts', completedEvents')
      BY DEF JobsAreEarned
    <2>1. JobIsEarned(job[w], everPassed', verdicts', completedEvents')
      BY <1>g, JobIsEarnedGrows DEF HistoryStep, EarnedInv, JobsAreEarned
    <2>2. QED
      BY <2>1 DEF JobStep
  <1>7. QED
    BY <1>1, <1>2, <1>3, <1>4, <1>5, <1>6 DEF EarnedInv

-----------------------------------------------------------------------------
(* The stepStore's data operations show no more than was earned.           *)

\* A fresh entry shows nothing that has to be earned.
LEMMA InitialProgressEarned ==
  ASSUME NEW P PROVE EarnedProgress(P, InitialProgress)
  BY DEF EarnedProgress, Earned, InitialProgress, Step

\* Passing a step that was reached, and with it activating the next one.
LEMMA PassStepEarned ==
  ASSUME NEW P \in SUBSET Step, NEW p \in Progress, NEW i \in Step,
         EarnedProgress(P, p), Earned(P, i)
  PROVE  EarnedProgress(P \cup {i}, PassStep(p, i))
  <1>1. Earned(P \cup {i}, i) /\ Earned(P \cup {i}, i + 1)
    BY DEF Earned, Step
  <1>2. EarnedProgress(P \cup {i}, p)
    BY EarnedGrows
  <1>3. CASE i + 1 \in Step
    BY <1>1, <1>2, <1>3 DEF PassStep, EarnedProgress, Progress
  <1>4. CASE i + 1 \notin Step
    BY <1>1, <1>2, <1>4 DEF PassStep, EarnedProgress, Progress
  <1>5. QED
    BY <1>3, <1>4

\* Setting another status on a step that was reached.
LEMMA SetStatusEarned ==
  ASSUME NEW P, NEW p \in Progress, NEW i \in Step, NEW st \in Status,
         EarnedProgress(P, p), Earned(P, i), st # "passed"
  PROVE  EarnedProgress(P, [p EXCEPT !.status[i] = st])
  BY DEF EarnedProgress, Progress

\* Hints are no progress.
LEMMA HintEarned ==
  ASSUME NEW P, NEW p \in Progress, NEW i \in Step, NEW l, EarnedProgress(P, p)
  PROVE  EarnedProgress(P, [p EXCEPT !.hint[i] = l])
  BY DEF EarnedProgress, Progress

\* A progress that shows every step passed was earned by passing every step.
LEMMA AllPassedEarned ==
  ASSUME NEW P \in SUBSET Step, NEW p, EarnedProgress(P, p), AllPassed(p)
  PROVE  P = Step
  BY DEF EarnedProgress, AllPassed

\* A step that findValidatableStepIndex accepts was reached.
LEMMA ValidatableEarned ==
  ASSUME NEW P, NEW p, NEW i \in Step, EarnedProgress(P, p), Validatable(p, i)
  PROVE  Earned(P, i)
  BY DEF EarnedProgress, Validatable, Earned

\* What withSession sees was earned, whether it comes from the cache or the row.
LEMMA ViewEarned ==
  ASSUME EarnedInv, NEW s \in Session, View(s) # None
  PROVE  /\ View(s) \in Progress
         /\ EarnedProgress(everPassed[s], View(s))
  <1>1. View(s) \in Progress
    BY ViewType DEF EarnedInv
  <1>2. View(s) \in {cache[s], db[s]}
    BY DEF View
  <1>3. QED
    BY <1>1, <1>2 DEF EarnedInv, ShownProgressIsEarned

-----------------------------------------------------------------------------
(* The parts of CopiesOrEarns for the variables a step leaves alone, and   *)
(* for the two ways a step changes a goroutine's local state.              *)

\* A step that leaves cache and rows alone.
LEMMA SameStore == ASSUME UNCHANGED store PROVE StoreStep
  BY DEF store, StoreStep

\* A step that leaves both topics alone.
LEMMA SameTopics == ASSUME UNCHANGED topics PROVE TopicStep
  BY DEF topics, TopicStep

\* A step that records no completion.
LEMMA SameCompletions == ASSUME UNCHANGED completions PROVE CompletionStep
  BY DEF CompletionStep

\* A step that passes no step, judges none and emits no LabCompleted.
LEMMA SameHistory ==
  ASSUME TypeOK, UNCHANGED <<everPassed, verdicts, completedEvents>>
  PROVE  HistoryStep
  <1>1. \A s \in Session : completedEvents[s] <= completedEvents'[s]
    BY DEF TypeOK
  <1>2. QED
    BY <1>1 DEF HistoryStep, HistoryGrows

\* A publication, whatever its answer, adds a request that was earned or none.
LEMMA StoreRequestStep ==
  ASSUME TypeOK, NEW s \in Session, NEW i \in Step, Earned(everPassed[s], i),
         UNCHANGED <<everPassed, results>>,
         StoreRequest(s, i) \/ UNCHANGED requests
  PROVE  TopicStep
  <1>1. CASE UNCHANGED requests
    BY <1>1 DEF TopicStep
  <1>2. CASE StoreRequest(s, i)
    <2>1. requests' = [requests EXCEPT ![s] = Append(@, i)]
      BY <1>2 DEF StoreRequest
    <2>2. ASSUME NEW r \in Session, NEW k \in 1 .. Len(requests'[r])
          PROVE  \/ \E m \in 1 .. Len(requests[r]) : requests'[r][k] = requests[r][m]
                 \/ Earned(everPassed'[r], requests'[r][k])
      <3>1. requests[r] \in Seq(Step)
        BY DEF TypeOK
      <3>2. CASE r = s
        <4>1. requests'[r] = Append(requests[r], i)
          BY <2>1, <3>2 DEF TypeOK
        <4>2. QED
          BY <2>2, <3>1, <3>2, <4>1
      <3>3. CASE r # s
        <4>1. requests'[r] = requests[r]
          BY <2>1, <3>3 DEF TypeOK
        <4>2. QED
          BY <2>2, <4>1
      <3>4. QED
        BY <3>2, <3>3
    <2>3. QED
      BY <2>2 DEF TopicStep
  <1>3. QED
    BY <1>1, <1>2

\* A goroutine takes up a new piece of work that was earned.
LEMMA BecomeStep ==
  ASSUME TypeOK, NEW w \in Proc, NEW j, Become(w, j),
         JobIsEarned(j, everPassed', verdicts', completedEvents')
  PROVE  JobStep
  BY DEF TypeOK, Become, JobStep

\* A goroutine without work carries nothing.
LEMMA IdleEarned == ASSUME NEW E, NEW V, NEW C PROVE JobIsEarned(Idle, E, V, C)
  BY DEF JobIsEarned, Idle

\* A critical section of stepStore.mu that leaves an earned entry behind.
LEMMA WriteSessionStep ==
  ASSUME TypeOK, NEW w \in Proc, NEW s \in Session, NEW p, NEW c \in BOOLEAN,
         WriteSession(w, s, p, c), UNCHANGED db,
         EarnedProgress(everPassed'[s], p),
         c => LabDone(everPassed'[s], completedEvents'[s])
  PROVE  StoreStep /\ JobStep
  <1>1. StoreStep
    BY DEF TypeOK, WriteSession, StoreStep
  <1>2. JobIsEarned([pc |-> "save", sid |-> s, snap |-> p, completes |-> c],
                    everPassed', verdicts', completedEvents')
    BY DEF JobIsEarned
  <1>3. QED
    BY <1>1, <1>2, IdleEarned DEF TypeOK, WriteSession, JobStep

\* A load on a cache miss copies the row.
LEMMA LoadStep ==
  ASSUME TypeOK, NEW s \in Session, cache' = [cache EXCEPT ![s] = View(s)],
         UNCHANGED db
  PROVE  StoreStep
  BY DEF TypeOK, View, StoreStep

-----------------------------------------------------------------------------
(* Every step of StepProgress copies or earns.                             *)

\* Each critical section, database call and Kafka call of the program only
\* copies progress around or adds what was earned.
LEMMA EarnedStep ==
  ASSUME EarnedInv, [Next]_vars
  PROVE  CopiesOrEarns
  <1> USE DEF CopiesOrEarns
  <1>t. TypeOK /\ (\A w \in Worker : w \in Proc) /\ Consumer \in Proc
    BY DEF EarnedInv, Proc
  <1>j. \A w \in Proc : /\ job[w] \in Job
                        /\ JobIsEarned(job[w], everPassed, verdicts, completedEvents)
    BY <1>t DEF TypeOK, EarnedInv, JobsAreEarned
  <1>1. ASSUME NEW w \in Worker, NEW s \in Session, CreateSession(w, s)
        PROVE  CopiesOrEarns
    <2>1. StoreStep
      BY <1>t, <1>1, InitialProgressEarned DEF CreateSession, TypeOK, StoreStep
    <2>2. JobStep
      BY <1>t, <1>1, BecomeStep DEF CreateSession, JobIsEarned
    <2>3. QED
      BY <1>t, <1>1, <2>1, <2>2, SameTopics, SameCompletions, SameHistory
         DEF CreateSession, topics, history
  <1>2. ASSUME NEW w \in Worker, ProviderCreate(w) PROVE CopiesOrEarns
    <2>1. JobStep
      BY <1>t, <1>2, IdleEarned, BecomeStep DEF ProviderCreate, Finish, JobIsEarned
    <2>2. QED
      BY <1>t, <1>2, <2>1, SameStore, SameTopics, SameCompletions, SameHistory
         DEF ProviderCreate, store, topics, history
  <1>3. ASSUME NEW w \in Worker, NEW s \in Session, GetSessionSteps(w, s)
        PROVE  CopiesOrEarns
    <2>1. StoreStep
      BY <1>t, <1>3, LoadStep DEF GetSessionSteps
    <2>2. QED
      BY <1>t, <1>3, <2>1, SameTopics, SameCompletions, SameHistory
         DEF GetSessionSteps, topics, history, JobStep
  <1>4. ASSUME NEW w \in Worker, NEW s \in Session, EnsureStepSession(w, s)
        PROVE  CopiesOrEarns
    <2>1. JobStep
      BY <1>t, <1>4, BecomeStep DEF EnsureStepSession, JobIsEarned
    <2>2. QED
      BY <1>t, <1>4, <2>1, SameStore, SameTopics, SameCompletions, SameHistory
         DEF EnsureStepSession, store, topics, history
  <1>5. ASSUME NEW w \in Worker, RecoverSession(w) PROVE CopiesOrEarns
    <2>1. StoreStep
      BY <1>t, <1>5, InitialProgressEarned DEF RecoverSession, TypeOK, StoreStep
    <2>2. JobStep
      BY <1>t, <1>5, IdleEarned, BecomeStep DEF RecoverSession, Finish
    <2>3. QED
      BY <1>t, <1>5, <2>1, <2>2, SameTopics, SameCompletions, SameHistory
         DEF RecoverSession, topics, history
  <1>6. ASSUME NEW w \in Worker, NEW s \in Session, NEW i \in Step,
               FindValidatableStepIndex(w, s, i)
        PROVE  CopiesOrEarns
    <2>1. Earned(everPassed[s], i)
      BY <1>6, ViewEarned, ValidatableEarned DEF FindValidatableStepIndex
    <2>2. StoreStep
      BY <1>t, <1>6, LoadStep DEF FindValidatableStepIndex
    <2>3. everPassed' = everPassed
      BY <1>6 DEF FindValidatableStepIndex, history
    <2>4. JobIsEarned([pc |-> IF Validator = "kafka" THEN "publish" ELSE "mockpass",
                       sid |-> s, step |-> i], everPassed', verdicts', completedEvents')
      BY <1>6, <2>1, <2>3 DEF FindValidatableStepIndex, JobIsEarned
    <2>5. JobStep
      BY <1>t, <1>6, <2>4, BecomeStep DEF FindValidatableStepIndex
    <2>6. QED
      BY <1>t, <1>6, <2>2, <2>5, SameTopics, SameCompletions, SameHistory
         DEF FindValidatableStepIndex, topics, history
  <1>7. ASSUME NEW w \in Worker, PublishRequest(w) PROVE CopiesOrEarns
    <2> DEFINE s == job[w].sid
               i == job[w].step
    <2>1. /\ s \in Session /\ i \in Step
          /\ job[w] \in [pc : {"publish", "mark", "mockpass"}, sid : Session, step : Step]
          /\ Earned(everPassed[s], i)
      BY <1>t, <1>j, <1>7, JobFields DEF PublishRequest, Busy, JobIsEarned
    <2>2. UNCHANGED <<everPassed, verdicts, completedEvents>>
      BY <1>7 DEF PublishRequest, history
    <2>3. JobIsEarned([job[w] EXCEPT !.pc = "mark"], everPassed', verdicts', completedEvents')
      BY <2>1, <2>2 DEF JobIsEarned
    <2>4. JobStep
      BY <1>t, <1>7, <2>3, BecomeStep DEF PublishRequest
    <2>5. TopicStep
      BY <1>t, <1>7, <2>1, <2>2, StoreRequestStep DEF PublishRequest
    <2>6. QED
      BY <1>t, <1>7, <2>2, <2>4, <2>5, SameStore, SameCompletions, SameHistory
         DEF PublishRequest, store
  <1>8. ASSUME NEW w \in Worker, PublishFails(w) PROVE CopiesOrEarns
    <2> DEFINE s == job[w].sid
               i == job[w].step
    <2>1. s \in Session /\ i \in Step /\ Earned(everPassed[s], i)
      BY <1>t, <1>j, <1>8, JobFields DEF PublishFails, Busy, JobIsEarned
    <2>2. UNCHANGED <<everPassed, verdicts, completedEvents>>
      BY <1>8 DEF PublishFails, history
    <2>3. JobStep
      BY <1>t, <1>8, IdleEarned, BecomeStep DEF PublishFails, Finish
    <2>4. TopicStep
      BY <1>t, <1>8, <2>1, <2>2, StoreRequestStep DEF PublishFails
    <2>5. QED
      BY <1>t, <1>8, <2>2, <2>3, <2>4, SameStore, SameCompletions, SameHistory
         DEF PublishFails, store
  <1>9. ASSUME NEW w \in Worker, MarkStepValidating(w) PROVE CopiesOrEarns
    <2> DEFINE s == job[w].sid
               i == job[w].step
    <2>1. s \in Session /\ i \in Step /\ Earned(everPassed[s], i)
      BY <1>t, <1>j, <1>9, JobFields DEF MarkStepValidating, Busy, JobIsEarned
    <2>2. UNCHANGED <<db, everPassed>>
      BY <1>9 DEF MarkStepValidating, history
    <2>3. CASE Finish(w) /\ UNCHANGED cache
      <3>1. JobStep
        BY <1>t, <2>3, IdleEarned, BecomeStep DEF Finish
      <3>2. StoreStep
        BY <2>2, <2>3, SameStore DEF store
      <3>3. QED
        BY <1>t, <1>9, <3>1, <3>2, SameTopics, SameCompletions, SameHistory
           DEF MarkStepValidating, topics, history
    <2>4. CASE /\ View(s) # None
               /\ WriteSession(w, s, [View(s) EXCEPT !.status[i] = "validating"], FALSE)
      <3>1. EarnedProgress(everPassed'[s], [View(s) EXCEPT !.status[i] = "validating"])
        BY <2>1, <2>2, <2>4, ViewEarned, SetStatusEarned DEF Status
      <3>2. StoreStep /\ JobStep
        BY <1>t, <2>1, <2>2, <2>4, <3>1, WriteSessionStep
      <3>3. QED
        BY <1>t, <1>9, <3>2, SameTopics, SameCompletions, SameHistory
           DEF MarkStepValidating, topics, history
    <2>5. QED
      BY <1>9, <2>3, <2>4 DEF MarkStepValidating
  <1>10. ASSUME NEW w \in Worker, MarkStepPassed(w) PROVE CopiesOrEarns
    <2> DEFINE s == job[w].sid
               i == job[w].step
               q == PassStep(View(s), i)
    <2>1. s \in Session /\ i \in Step /\ Earned(everPassed[s], i) /\ Validator = "mock"
      BY <1>t, <1>j, <1>10, JobFields DEF MarkStepPassed, Busy, JobIsEarned
    <2>2. UNCHANGED <<db, requests, results, completions, completedEvents, verdicts>>
      BY <1>10 DEF MarkStepPassed, topics
    <2>3. CASE Finish(w) /\ UNCHANGED <<cache, everPassed>>
      <3>1. JobStep
        BY <1>t, <2>3, IdleEarned, BecomeStep DEF Finish
      <3>2. StoreStep
        BY <2>2, <2>3, SameStore DEF store
      <3>3. HistoryStep
        <4>1. \A r \in Session : completedEvents[r] <= completedEvents[r]
          BY <1>t DEF TypeOK
        <4>2. QED
          BY <2>2, <2>3, <4>1 DEF HistoryStep, HistoryGrows
      <3>4. QED
        BY <2>2, <3>1, <3>2, <3>3, SameTopics, SameCompletions DEF topics
    <2>4. CASE /\ View(s) # None
               /\ WriteSession(w, s, q, AllPassed(q))
               /\ everPassed' = [everPassed EXCEPT ![s] = @ \cup {i}]
      <3>1. View(s) \in Progress /\ EarnedProgress(everPassed[s], View(s))
        BY <2>1, <2>4, ViewEarned
      <3>2. everPassed[s] \in SUBSET Step /\ everPassed'[s] = everPassed[s] \cup {i}
        BY <1>t, <2>1, <2>4 DEF TypeOK
      <3>3. EarnedProgress(everPassed'[s], q)
        BY <2>1, <3>1, <3>2, PassStepEarned
      <3>4. AllPassed(q) => LabDone(everPassed'[s], completedEvents'[s])
        BY <2>1, <3>2, <3>3, AllPassedEarned DEF LabDone
      <3>5. AllPassed(q) \in BOOLEAN
        BY DEF AllPassed
      <3>6. StoreStep /\ JobStep
        BY <1>t, <2>1, <2>2, <2>4, <3>3, <3>4, <3>5, WriteSessionStep
      <3>7. HistoryStep
        <4>1. \A r \in Session : completedEvents[r] <= completedEvents[r]
          BY <1>t DEF TypeOK
        <4>2. \A r \in Session : r # s => everPassed'[r] = everPassed[r]
          BY <1>t, <2>4 DEF TypeOK
        <4>3. QED
          BY <2>1, <2>2, <3>2, <4>1, <4>2 DEF HistoryStep, HistoryGrows
      <3>8. QED
        BY <2>2, <3>6, <3>7, SameTopics, SameCompletions DEF topics
    <2>5. QED
      BY <1>10, <2>3, <2>4 DEF MarkStepPassed
  <1>11. ASSUME NEW s \in Session, EngineAnswers(s) PROVE CopiesOrEarns
    <2> DEFINE i == Head(requests[s])
    <2>1. PICK passed \in BOOLEAN :
            /\ \/ results' = [results EXCEPT ![s] =
                      Append(@, [step |-> i, passed |-> passed])]
               \/ results' = results
            /\ verdicts' = IF passed THEN [verdicts EXCEPT ![s] = @ \cup {i}]
                           ELSE verdicts
      BY <1>11 DEF EngineAnswers
    <2>2. /\ requests[s] \in Seq(Step) /\ requests[s] # <<>>
          /\ \E q \in AnsweredRequest(requests[s]) :
                requests' = [requests EXCEPT ![s] = q]
          /\ UNCHANGED <<cache, db, job, completions, everPassed, completedEvents>>
      BY <1>t, <1>11 DEF EngineAnswers, TypeOK, store
    <2>3. i \in Step /\ i = requests[s][1] /\ 1 \in 1 .. Len(requests[s])
      BY <2>2
    <2>4. Earned(everPassed'[s], i)
      BY <2>2, <2>3 DEF EarnedInv, StepsPassInOrder
    <2>5. \A r \in Session : verdicts[r] \subseteq verdicts'[r]
      BY <1>t, <2>1 DEF TypeOK
    <2>6. HistoryStep
      <3>1. \A r \in Session : completedEvents[r] <= completedEvents[r]
        BY <1>t DEF TypeOK
      <3>2. QED
        BY <2>2, <2>5, <3>1 DEF HistoryStep, HistoryGrows
    <2>7. ASSUME NEW r \in Session, NEW k \in 1 .. Len(requests'[r])
          PROVE  \E m \in 1 .. Len(requests[r]) : requests'[r][k] = requests[r][m]
      <3>1. CASE requests'[r] = requests[r]
        BY <2>7, <3>1
      <3>2. CASE r = s /\ requests'[r] = Tail(requests[s])
        <4>1. k \in 1 .. Len(requests[s]) - 1 /\ Len(requests[s]) \in Nat
          BY <2>2, <2>7, <3>2, TailElements
        <4>2. Tail(requests[s])[k] = requests[s][k + 1]
          BY <2>2, <4>1, TailElements
        <4>3. k + 1 \in 1 .. Len(requests[s])
          BY <4>1
        <4>4. QED
          BY <3>2, <4>2, <4>3
      <3>3. CASE r = s /\ requests'[r] = Append(Tail(requests[s]), Head(requests[s]))
        <4>1. /\ k = Len(requests[s]) \/ k \in 1 .. Len(requests[s]) - 1
              /\ Len(requests[s]) \in Nat \ {0}
          BY <2>2, <2>7, <3>3, RotatedElements, TailElements
        <4>2. CASE k = Len(requests[s])
          <5>1. Append(Tail(requests[s]), Head(requests[s]))[k] = requests[s][1]
            BY <2>2, <4>2, RotatedElements
          <5>2. QED
            BY <2>3, <3>3, <5>1
        <4>3. CASE k \in 1 .. Len(requests[s]) - 1
          <5>1. Append(Tail(requests[s]), Head(requests[s]))[k] = requests[s][k + 1]
            BY <2>2, <4>3, RotatedElements
          <5>2. k + 1 \in 1 .. Len(requests[s])
            BY <4>1, <4>3
          <5>3. QED
            BY <3>3, <5>1, <5>2
        <4>4. QED
          BY <4>1, <4>2, <4>3
      <3>4. QED
        BY <1>t, <2>2, <3>1, <3>2, <3>3 DEF TypeOK, AnsweredRequest
    <2>8. ASSUME NEW r \in Session, NEW k \in 1 .. Len(results'[r])
          PROVE  \/ \E m \in 1 .. Len(results[r]) : results'[r][k] = results[r][m]
                 \/ ResultIsEarned(results'[r][k], everPassed'[r], verdicts'[r])
      <3>1. results[r] \in Seq(Result)
        BY <1>t DEF TypeOK
      <3>2. CASE r # s
        <4>1. results'[r] = results[r]
          BY <1>t, <2>1, <3>2 DEF TypeOK
        <4>2. QED
          BY <2>8, <4>1
      <3>3. CASE r = s /\ results' # results
        <4>1. results'[r] = Append(results[r], [step |-> i, passed |-> passed])
          BY <1>t, <2>1, <3>3 DEF TypeOK
        <4>2. passed => i \in verdicts'[s]
          BY <1>t, <2>1 DEF TypeOK
        <4>3. ResultIsEarned([step |-> i, passed |-> passed], everPassed'[r], verdicts'[r])
          BY <2>4, <3>3, <4>2 DEF ResultIsEarned
        <4>4. k \in 1 .. Len(results[r]) \/ k = Len(results[r]) + 1
          BY <2>8, <3>1, <4>1
        <4>5. QED
          BY <3>1, <4>1, <4>3, <4>4
      <3>4. CASE results' = results
        BY <2>8, <3>4
      <3>5. QED
        BY <3>2, <3>3, <3>4
    <2>9. TopicStep
      BY <2>7, <2>8 DEF TopicStep
    <2>10. QED
      BY <2>2, <2>6, <2>9, SameStore, SameCompletions DEF store, JobStep
  <1>12. ASSUME NEW s \in Session, ReadResult(s) PROVE CopiesOrEarns
    <2> DEFINE r == Head(results[s])
    <2>1. /\ results[s] \in Seq(Result) /\ results[s] # <<>>
          /\ results' = [results EXCEPT ![s] = Tail(@)]
          /\ UNCHANGED <<cache, db, requests, completions, everPassed, verdicts,
                         completedEvents>>
      BY <1>t, <1>12 DEF ReadResult, TypeOK, store, history
    <2>2. r \in Result /\ r = results[s][1] /\ 1 \in 1 .. Len(results[s])
      BY <2>1
    <2>3. ResultIsEarned(r, everPassed[s], verdicts[s])
      BY <2>2 DEF EarnedInv, ResultsAreEarned
    <2>4. JobIsEarned([pc |-> "apply", sid |-> s, step |-> r.step, passed |-> r.passed],
                      everPassed', verdicts', completedEvents')
      BY <2>1, <2>3 DEF JobIsEarned, ResultIsEarned
    <2>5. JobStep
      BY <1>t, <1>12, <2>4, BecomeStep DEF ReadResult
    <2>6. ASSUME NEW t \in Session, NEW k \in 1 .. Len(results'[t])
          PROVE  \E m \in 1 .. Len(results[t]) : results'[t][k] = results[t][m]
      <3>1. CASE t # s
        <4>1. results'[t] = results[t]
          BY <1>t, <2>1, <3>1 DEF TypeOK
        <4>2. QED
          BY <2>6, <4>1
      <3>2. CASE t = s
        <4>1. results'[t] = Tail(results[s])
          BY <1>t, <2>1, <3>2 DEF TypeOK
        <4>2. results[s] \in Seq(Result) /\ results[s] # <<>> /\ k \in 1 .. Len(results'[t])
          BY <2>1, <2>6
        <4>3. /\ Len(results'[t]) = Len(results[s]) - 1
              /\ results'[t][k] = results[s][k + 1]
              /\ k + 1 \in 1 .. Len(results[s])
          BY <4>1, <4>2
        <4>4. QED
          BY <3>2, <4>3
      <3>3. QED
        BY <3>1, <3>2
    <2>7. TopicStep
      BY <2>1, <2>6 DEF TopicStep
    <2>8. QED
      BY <1>t, <1>12, <2>1, <2>5, <2>7, SameStore, SameCompletions, SameHistory
         DEF ReadResult, store, history
  <1>13. ASSUME ApplyValidationResult PROVE CopiesOrEarns
    <2> DEFINE s == job[Consumer].sid
               i == job[Consumer].step
               p == View(s)
               q == PassStep(p, i)
    <2>1. /\ s \in Session /\ i \in Step /\ Earned(everPassed[s], i)
          /\ job[Consumer].passed => i \in verdicts[s]
      BY <1>t, <1>j, <1>13, JobFields DEF ApplyValidationResult, Busy, JobIsEarned
    <2>2. UNCHANGED <<db, requests, results, completions, verdicts>>
      BY <1>13 DEF ApplyValidationResult, topics
    <2>e. \A r \in Session : completedEvents[r] <= completedEvents[r]
      BY <1>t DEF TypeOK
    <2>3. CASE Finish(Consumer) /\ UNCHANGED <<cache, everPassed, completedEvents>>
      <3>1. JobStep
        BY <1>t, <2>3, IdleEarned, BecomeStep DEF Finish
      <3>2. StoreStep
        BY <2>2, <2>3, SameStore DEF store
      <3>3. HistoryStep
        BY <2>2, <2>3, <2>e DEF HistoryStep, HistoryGrows
      <3>4. QED
        BY <2>2, <3>1, <3>2, <3>3, SameTopics, SameCompletions DEF topics
    <2>4. CASE p # None /\ job[Consumer].passed /\ ApplyPass(s, i, p)
      <3>1. p \in Progress /\ EarnedProgress(everPassed[s], p)
        BY <2>1, <2>4, ViewEarned
      <3>2. everPassed[s] \in SUBSET Step /\ everPassed'[s] = everPassed[s] \cup {i}
        BY <1>t, <2>1, <2>4 DEF TypeOK, ApplyPass
      <3>3. EarnedProgress(everPassed'[s], q)
        BY <2>1, <3>1, <3>2, PassStepEarned
      <3>4. AllPassed(q) => everPassed'[s] = Step
        BY <2>1, <3>2, <3>3, AllPassedEarned
      <3>5. /\ AllPassed(q) => completedEvents'[s] > 0
            /\ ~AllPassed(q) => completedEvents'[s] = completedEvents[s]
            /\ completedEvents[s] <= completedEvents'[s]
            /\ \A r \in Session : r # s => completedEvents'[r] = completedEvents[r]
        BY <1>t, <2>1, <2>4 DEF TypeOK, ApplyPass, CountEvent
      <3>6. AllPassed(q) => LabDone(everPassed'[s], completedEvents'[s])
        BY <3>4, <3>5 DEF LabDone
      <3>7. AllPassed(q) \in BOOLEAN
        BY DEF AllPassed
      <3>8. StoreStep /\ JobStep
        BY <1>t, <2>1, <2>2, <2>4, <3>3, <3>6, <3>7, WriteSessionStep DEF ApplyPass
      <3>9. HistoryStep
        <4>1. \A r \in Session : r # s => everPassed'[r] = everPassed[r]
          BY <1>t, <2>4 DEF TypeOK, ApplyPass
        <4>2. HistoryGrows(everPassed, verdicts, completedEvents,
                           everPassed', verdicts', completedEvents')
          BY <2>2, <2>e, <3>2, <3>5, <4>1 DEF HistoryGrows
        <4>3. \A r \in Session : \A k \in everPassed'[r] :
                 \/ k \in everPassed[r]
                 \/ Earned(everPassed[r], k) /\ k \in verdicts[r]
          BY <2>1, <2>4, <3>2, <4>1
        <4>4. \A r \in Session : completedEvents'[r] > 0 =>
                 completedEvents[r] > 0 \/ everPassed'[r] = Step
          BY <3>4, <3>5
        <4>5. QED
          BY <4>2, <4>3, <4>4 DEF HistoryStep
      <3>10. QED
        BY <2>2, <3>8, <3>9, SameTopics, SameCompletions DEF topics
    <2>5. CASE p # None /\ ApplyFail(s, i, p)
      <3>1. EarnedProgress(everPassed'[s], [p EXCEPT !.status[i] = "failed"])
        BY <2>1, <2>5, ViewEarned, SetStatusEarned DEF Status, ApplyFail
      <3>2. StoreStep /\ JobStep
        BY <1>t, <2>1, <2>2, <2>5, <3>1, WriteSessionStep DEF ApplyFail
      <3>3. HistoryStep
        BY <2>2, <2>5, <2>e DEF HistoryStep, HistoryGrows, ApplyFail
      <3>4. QED
        BY <2>2, <3>2, <3>3, SameTopics, SameCompletions DEF topics
    <2>6. QED
      BY <1>13, <2>3, <2>4, <2>5 DEF ApplyValidationResult
  <1>14. ASSUME NEW w \in Worker, NEW s \in Session, NEW i \in Step,
                NEW l \in 0 .. MaxHintLevel, RequestHint(w, s, i, l)
         PROVE  CopiesOrEarns
    <2> DEFINE q == [View(s) EXCEPT !.hint[i] = NextHint(View(s), i, l)]
    <2>1. EarnedProgress(everPassed'[s], q)
      BY <1>14, ViewEarned, HintEarned DEF RequestHint, history
    <2>2. StoreStep /\ JobStep
      <3>1. CASE WriteSession(w, s, q, FALSE)
        BY <1>t, <1>14, <2>1, <3>1, WriteSessionStep DEF RequestHint
      <3>2. CASE cache' = [cache EXCEPT ![s] = View(s)] /\ UNCHANGED job
        BY <1>t, <1>14, <3>2, LoadStep DEF RequestHint, JobStep
      <3>3. QED
        BY <1>14, <3>1, <3>2 DEF RequestHint
    <2>3. QED
      BY <1>t, <1>14, <2>2, SameTopics, SameCompletions, SameHistory
         DEF RequestHint, topics, history
  <1>15. ASSUME NEW w \in Proc, SaveProgress(w) PROVE CopiesOrEarns
    <2>1. /\ job[w].sid \in Session
          /\ EarnedProgress(everPassed[job[w].sid], job[w].snap)
          /\ job[w].completes => LabDone(everPassed[job[w].sid], completedEvents[job[w].sid])
      BY <1>j, <1>15, JobFields DEF SaveProgress, Busy, JobIsEarned
    <2>2. UNCHANGED <<cache, everPassed, verdicts, completedEvents>>
      BY <1>15 DEF SaveProgress, history
    <2>3. StoreStep
      BY <1>t, <1>15, <2>1, <2>2 DEF SaveProgress, TypeOK, StoreStep
    <2>4. job[w].completes => JobIsEarned([pc |-> "record", sid |-> job[w].sid],
                                          everPassed', verdicts', completedEvents')
      BY <2>1, <2>2 DEF JobIsEarned
    <2>5. JobStep
      BY <1>t, <1>15, <2>4, IdleEarned, BecomeStep DEF SaveProgress
    <2>6. QED
      BY <1>t, <1>15, <2>3, <2>5, SameTopics, SameCompletions, SameHistory
         DEF SaveProgress, topics, history
  <1>16. ASSUME NEW w \in Proc, RecordLabCompletion(w) PROVE CopiesOrEarns
    <2>1. /\ job[w].sid \in Session
          /\ LabDone(everPassed[job[w].sid], completedEvents[job[w].sid])
      BY <1>j, <1>16, JobFields DEF RecordLabCompletion, Busy, JobIsEarned
    <2>2. UNCHANGED <<everPassed, verdicts, completedEvents>>
      BY <1>16 DEF RecordLabCompletion
    <2>3. CompletionStep
      BY <1>t, <1>16, <2>1, <2>2 DEF RecordLabCompletion, FirstCompletion, TypeOK,
                                     CompletionStep
    <2>4. JobStep
      BY <1>t, <1>16, IdleEarned, BecomeStep DEF RecordLabCompletion, Finish
    <2>5. QED
      BY <1>t, <1>16, <2>2, <2>3, <2>4, SameStore, SameTopics, SameHistory
         DEF RecordLabCompletion, store, topics
  <1>17. ASSUME NEW w \in Worker, NEW s \in Session, NEW emits \in BOOLEAN,
                DeleteSession(w, s, emits)
         PROVE  CopiesOrEarns
    <2>1. JobStep
      BY <1>t, <1>17, BecomeStep DEF DeleteSession, JobIsEarned
    <2>2. QED
      BY <1>t, <1>17, <2>1, SameStore, SameTopics, SameCompletions, SameHistory
         DEF DeleteSession, store, topics, history
  <1>18. ASSUME NEW w \in Worker, TakeFromCache(w) PROVE CopiesOrEarns
    <2>1. StoreStep
      BY <1>t, <1>18 DEF TakeFromCache, TypeOK, StoreStep
    <2>2. JobStep
      BY <1>t, <1>18, BecomeStep DEF TakeFromCache, JobIsEarned
    <2>3. QED
      BY <1>t, <1>18, <2>1, <2>2, SameTopics, SameCompletions, SameHistory
         DEF TakeFromCache, topics, history
  <1>19. ASSUME NEW w \in Worker, LoadTaken(w) PROVE CopiesOrEarns
    <2>1. PICK last : Become(w, [job[w] EXCEPT !.pc = "erase", !.held = last])
      BY <1>19 DEF LoadTaken
    <2>2. JobIsEarned([job[w] EXCEPT !.pc = "erase", !.held = last], everPassed', verdicts',
                      completedEvents')
      <3>1. job[w] \in [pc : {"take", "erase"}, sid : Session, emits : BOOLEAN,
                        held : Progress \cup {None}]
        BY <1>t, <1>j, <1>19, JobFields DEF LoadTaken, Busy
      <3>2. QED
        BY <3>1 DEF JobIsEarned
    <2>3. JobStep
      BY <1>t, <2>1, <2>2, BecomeStep
    <2>4. QED
      BY <1>t, <1>19, <2>3, SameStore, SameTopics, SameCompletions, SameHistory
         DEF LoadTaken, store, topics, history
  <1>26. ASSUME NEW w \in Worker, DeleteTaken(w) PROVE CopiesOrEarns
    <2>1. /\ db' = [db EXCEPT ![job[w].sid] = None] \/ db' = db
          /\ UNCHANGED <<cache, completedEvents, everPassed, verdicts>>
      BY <1>26 DEF DeleteTaken
    <2>2. StoreStep
      BY <1>t, <2>1 DEF TypeOK, StoreStep
    <2>3. JobStep
      BY <1>t, <1>26, IdleEarned, BecomeStep DEF DeleteTaken, Finish
    <2>4. HistoryStep
      BY <1>t, <2>1, SameHistory
    <2>5. QED
      BY <1>26, <2>2, <2>3, <2>4, SameTopics, SameCompletions DEF DeleteTaken, topics
  <1>20. ASSUME Restart PROVE CopiesOrEarns
    <2>1. StoreStep
      BY <1>20 DEF Restart, StoreStep
    <2>2. JobStep
      BY <1>20, IdleEarned DEF Restart, JobStep
    <2>3. QED
      BY <1>t, <1>20, <2>1, <2>2, SameTopics, SameCompletions, SameHistory
         DEF Restart, topics
  <1>21. CASE UNCHANGED vars
    BY <1>t, <1>21, SameStore, SameTopics, SameCompletions, SameHistory
       DEF vars, store, topics, history, JobStep
  <1>22. ASSUME NEW w \in Worker, Request(w) PROVE CopiesOrEarns
    BY <1>22, <1>1, <1>3, <1>4, <1>6, <1>14, <1>17 DEF Request
  <1>23. ASSUME NEW w \in Worker, Continue(w) PROVE CopiesOrEarns
    BY <1>23, <1>t, <1>2, <1>5, <1>7, <1>8, <1>9, <1>10, <1>15, <1>16, <1>18, <1>19,
       <1>26
       DEF Continue
  <1>24. ASSUME Consume PROVE CopiesOrEarns
    BY <1>24, <1>t, <1>12, <1>13, <1>15, <1>16 DEF Consume
  <1>25. QED
    BY <1>11, <1>20, <1>21, <1>22, <1>23, <1>24 DEF Next

-----------------------------------------------------------------------------

\* EarnedInv holds in every reachable state: every copy of the progress and
\* every message shows only what its session has earned.
THEOREM EarnedInvariant == Spec => []EarnedInv
  <1>1. Init => EarnedInv
    <2>1. Init => TypeOK
      BY DEF Init, TypeOK, Idle, Job, VMState
    <2>2. Init => /\ StepsPassInOrder /\ ShownProgressIsEarned /\ NoUnverifiedPass
                  /\ CompletionIsEarned /\ ResultsAreEarned
      BY DEF Init, StepsPassInOrder, ShownProgressIsEarned, NoUnverifiedPass,
             CompletionIsEarned, ResultsAreEarned
    <2>3. Init => JobsAreEarned
      BY IdleEarned DEF Init, JobsAreEarned
    <2>4. QED
      BY <2>1, <2>2, <2>3 DEF EarnedInv
  <1>2. EarnedInv /\ [Next]_vars => EarnedInv'
    BY TypeStep, EarnedStep, CopiesOrEarnsKeepsInv DEF EarnedInv
  <1>3. QED
    BY <1>1, <1>2, PTL DEF Spec

\* Steps pass in order, and no request overtakes the step order.
THEOREM StepOrder == Spec => []StepsPassInOrder
  <1>1. EarnedInv => StepsPassInOrder
    BY DEF EarnedInv
  <1>2. QED
    BY <1>1, EarnedInvariant, PTL

\* What the cache shows and what a restart restores was earned.
THEOREM ShownProgress == Spec => []ShownProgressIsEarned
  <1>1. EarnedInv => ShownProgressIsEarned
    BY DEF EarnedInv
  <1>2. QED
    BY <1>1, EarnedInvariant, PTL

\* Outside the mock every passed step was judged passed by validation-engine.
THEOREM PassesAreVerified == Spec => []NoUnverifiedPass
  <1>1. EarnedInv => NoUnverifiedPass
    BY DEF EarnedInv
  <1>2. QED
    BY <1>1, EarnedInvariant, PTL

\* A recorded completion was earned by the session it names.
THEOREM CompletionEarned == Spec => []CompletionIsEarned
  <1>1. EarnedInv => CompletionIsEarned
    BY DEF EarnedInv
  <1>2. QED
    BY <1>1, EarnedInvariant, PTL

-----------------------------------------------------------------------------
(* The completion on its way to lab_completions. Only the goroutine that    *)
(* carries it takes the job record from "save" to "record" and to the row.  *)

\* Only goroutine w moved, it carried no completion, and none was emitted or
\* recorded: what most steps of the program are for this argument.
OtherWork(w) ==
    /\ job[w].pc \notin {"save", "record"}
    /\ \A v \in Proc : v # w => job'[v] = job[v]
    /\ UNCHANGED <<completions, completedEvents, dropped>>

\* A step by a goroutine that carries no completion leaves the others to go on.
LEMMA OtherWorkKeeps ==
  ASSUME NEW w \in Proc, OtherWork(w), NEW s \in Session, UnderWay(s)
  PROVE  UnderWay(s)'
  BY DEF OtherWork, UnderWay, Records

\* A goroutine that becomes j touches no other one.
LEMMA BecomeAlone ==
  ASSUME TypeOK, NEW w \in Proc, NEW j, Become(w, j)
  PROVE  \A v \in Proc : v # w => job'[v] = job[v]
  BY DEF TypeOK, Become

\* Neither does one that has written to the cache; it goes on to save.
LEMMA WriteSessionAlone ==
  ASSUME TypeOK, NEW w \in Proc, NEW s \in Session, NEW p, NEW c,
         WriteSession(w, s, p, c)
  PROVE  /\ \A v \in Proc : v # w => job'[v] = job[v]
         /\ Persistent /\ c => Records(job'[w], s)
  BY DEF TypeOK, WriteSession, Records

\* The steps of a request that begins are other work.
LEMMA RequestIsOtherWork ==
  ASSUME TypeOK, NEW w \in Worker, Request(w)
  PROVE  OtherWork(w)
  <1>a. w \in Proc
    BY DEF Proc
  <1>1. ASSUME NEW s \in Session, CreateSession(w, s) PROVE OtherWork(w)
    BY <1>1, <1>a, BecomeAlone DEF CreateSession, OtherWork, Busy, history
  <1>2. ASSUME NEW s \in Session, GetSessionSteps(w, s) PROVE OtherWork(w)
    BY <1>2 DEF GetSessionSteps, OtherWork, Busy, history
  <1>3. ASSUME NEW s \in Session, EnsureStepSession(w, s) PROVE OtherWork(w)
    BY <1>3, <1>a, BecomeAlone DEF EnsureStepSession, OtherWork, Busy, history
  <1>4. ASSUME NEW s \in Session, NEW i \in Step, FindValidatableStepIndex(w, s, i)
        PROVE  OtherWork(w)
    BY <1>4, <1>a, BecomeAlone DEF FindValidatableStepIndex, OtherWork, Busy, history
  <1>5. ASSUME NEW s \in Session, NEW i \in Step, NEW l \in 0 .. MaxHintLevel,
               RequestHint(w, s, i, l)
        PROVE  OtherWork(w)
    <2>1. \A v \in Proc : v # w => job'[v] = job[v]
      BY <1>5, <1>a, WriteSessionAlone DEF RequestHint
    <2>2. QED
      BY <1>5, <2>1 DEF RequestHint, OtherWork, Busy, history
  <1>6. ASSUME NEW s \in Session, NEW emits \in BOOLEAN, DeleteSession(w, s, emits)
        PROVE  OtherWork(w)
    BY <1>6, <1>a, BecomeAlone DEF DeleteSession, OtherWork, Busy, history
  <1>7. QED
    BY <1>1, <1>2, <1>3, <1>4, <1>5, <1>6 DEF Request

\* So are the later steps of a request, but for its save and its record.
LEMMA ContinueIsOtherWork ==
  ASSUME TypeOK, NEW w \in Worker, Continue(w),
         ~SaveProgress(w), ~RecordLabCompletion(w)
  PROVE  OtherWork(w)
  <1>a. w \in Proc /\ job[w] \in Job
    BY DEF Proc, TypeOK
  <1>1. CASE ProviderCreate(w)
    BY <1>1, <1>a, BecomeAlone DEF ProviderCreate, Finish, OtherWork, Busy, history
  <1>2. CASE RecoverSession(w)
    BY <1>2, <1>a, BecomeAlone DEF RecoverSession, Finish, OtherWork, Busy, history
  <1>3. CASE PublishRequest(w)
    BY <1>3, <1>a, BecomeAlone DEF PublishRequest, OtherWork, Busy, history
  <1>4. CASE PublishFails(w)
    BY <1>4, <1>a, BecomeAlone DEF PublishFails, Finish, OtherWork, Busy, history
  <1>5. CASE MarkStepValidating(w)
    <2>1. job[w].sid \in Session
      BY <1>5, <1>a, JobFields DEF MarkStepValidating, Busy
    <2>2. \A v \in Proc : v # w => job'[v] = job[v]
      BY <1>5, <1>a, <2>1, BecomeAlone, WriteSessionAlone DEF MarkStepValidating, Finish
    <2>3. QED
      BY <1>5, <2>2 DEF MarkStepValidating, OtherWork, Busy, history
  <1>6. CASE MarkStepPassed(w)
    <2>1. job[w].sid \in Session
      BY <1>6, <1>a, JobFields DEF MarkStepPassed, Busy
    <2>2. \A v \in Proc : v # w => job'[v] = job[v]
      BY <1>6, <1>a, <2>1, BecomeAlone, WriteSessionAlone DEF MarkStepPassed, Finish
    <2>3. QED
      BY <1>6, <2>2 DEF MarkStepPassed, OtherWork, Busy
  <1>7. CASE TakeFromCache(w)
    BY <1>7, <1>a, BecomeAlone DEF TakeFromCache, OtherWork, Busy, history
  <1>8. CASE LoadTaken(w)
    <2>1. \A v \in Proc : v # w => job'[v] = job[v]
      BY <1>8, <1>a, BecomeAlone DEF LoadTaken
    <2>2. QED
      BY <1>8, <2>1 DEF LoadTaken, OtherWork, Busy, history
  <1>9. CASE DeleteTaken(w)
    <2>1. \A v \in Proc : v # w => job'[v] = job[v]
      BY <1>9, <1>a, BecomeAlone DEF DeleteTaken, Finish
    <2>2. QED
      BY <1>9, <2>1 DEF DeleteTaken, OtherWork, Busy
  <1>10. QED
    BY <1>1, <1>2, <1>3, <1>4, <1>5, <1>6, <1>7, <1>8, <1>9 DEF Continue

\* The save hands its completion on to the record, whatever it wrote.
LEMMA SaveKeeps ==
  ASSUME TypeOK, NEW w \in Proc, SaveProgress(w), NEW s \in Session, UnderWay(s)
  PROVE  UnderWay(s)'
  <1>1. UNCHANGED <<completions, completedEvents, dropped>> /\ job[w].pc = "save"
    BY DEF SaveProgress, history, Busy
  <1>2. \A v \in Proc : v # w => job'[v] = job[v]
    BY BecomeAlone DEF SaveProgress
  <1>3. ASSUME Records(job[w], s) PROVE Records(job'[w], s)
    BY <1>1, <1>3 DEF SaveProgress, Become, Records, TypeOK
  <1>4. QED
    BY <1>1, <1>2, <1>3 DEF UnderWay

\* The record leaves a row or, if the call fails, drops the completion of its own
\* session, and takes no row away.
LEMMA RecordKeeps ==
  ASSUME TypeOK, NEW w \in Proc, RecordLabCompletion(w), NEW s \in Session, UnderWay(s)
  PROVE  UnderWay(s)'
  <1> DEFINE r == job[w].sid
  <1>1. /\ UNCHANGED completedEvents
        /\ job[w].pc = "record"
        /\ \/ completions' = FirstCompletion(r) /\ UNCHANGED dropped
           \/ UNCHANGED completions /\ dropped' = dropped \cup {r}
    BY DEF RecordLabCompletion, Busy
  <1>2. \A v \in Proc : v # w => job'[v] = job[v]
    BY BecomeAlone DEF RecordLabCompletion, Finish
  <1>3. r \in Session /\ r # None /\ EnrolmentOf[r] \in Enrolment
        /\ EnrolmentOf[s] \in Enrolment
    BY <1>1, JobFields, StepProgressAssumption DEF TypeOK
  <1>4. completions'[EnrolmentOf[r]] # None \/ r \in dropped'
    BY <1>1, <1>3 DEF FirstCompletion, TypeOK
  <1>5. completions[EnrolmentOf[s]] # None => completions'[EnrolmentOf[s]] # None
    BY <1>1, <1>3 DEF FirstCompletion, TypeOK
  <1>6. (Records(job[w], s) => s = r) /\ dropped \subseteq dropped'
    BY <1>1 DEF Records
  <1>7. QED
    BY <1>1, <1>2, <1>4, <1>5, <1>6 DEF UnderWay

\* The result that completes a lab emits the event and carries the completion.
LEMMA ApplyKeeps ==
  ASSUME TypeOK, Persistent, ApplyValidationResult, NEW s \in Session, UnderWay(s)
  PROVE  UnderWay(s)'
  <1> DEFINE r == job[Consumer].sid
             i == job[Consumer].step
             q == PassStep(View(r), i)
  <1>1. /\ Consumer \in Proc
        /\ job[Consumer].pc = "apply"
        /\ UNCHANGED <<completions, dropped>>
    BY DEF Proc, ApplyValidationResult, Busy
  <1>2. job[Consumer] \in Job
    BY <1>1 DEF TypeOK
  <1>3. r \in Session
    BY <1>1, <1>2, JobFields
  <1>4. CASE UNCHANGED completedEvents
    <2>1. \A v \in Proc : v # Consumer => job'[v] = job[v]
      BY <1>1, <1>3, BecomeAlone, WriteSessionAlone
         DEF ApplyValidationResult, ApplyPass, ApplyFail, Finish
    <2>2. OtherWork(Consumer)
      BY <1>1, <1>4, <2>1 DEF OtherWork
    <2>3. QED
      BY <1>1, <2>2, OtherWorkKeeps
  <1>5. CASE completedEvents' # completedEvents
    <2>1. ApplyPass(r, i, View(r))
      BY <1>5 DEF ApplyValidationResult, ApplyFail
    <2>2. /\ WriteSession(Consumer, r, q, AllPassed(q))
          /\ AllPassed(q)
          /\ completedEvents' = [completedEvents EXCEPT ![r] = CountEvent(@)]
      BY <1>5, <2>1 DEF ApplyPass
    <2>3. /\ \A v \in Proc : v # Consumer => job'[v] = job[v]
          /\ Records(job'[Consumer], r)
      BY <1>1, <1>3, <2>2, WriteSessionAlone
    <2>4. s # r => completedEvents'[s] = completedEvents[s]
      BY <2>2 DEF TypeOK
    <2>5. ~Records(job[Consumer], s)
      BY <1>1 DEF Records
    <2>6. QED
      BY <1>1, <2>3, <2>4, <2>5 DEF UnderWay
  <1>6. QED
    BY <1>4, <1>5

\* No step of the program loses track of a completion that is on its way.
LEMMA UnderWayStep ==
  ASSUME TypeOK, CompletionIsUnderWay, [Next]_vars
  PROVE  CompletionIsUnderWay'
  <1> SUFFICES ASSUME Persistent, NEW s \in Session
               PROVE  UnderWay(s)'
    BY DEF CompletionIsUnderWay
  <1>a. UnderWay(s) /\ Consumer \in Proc
    BY DEF CompletionIsUnderWay, Proc
  <1>1. ASSUME NEW w \in Worker, Request(w) \/ Continue(w) PROVE UnderWay(s)'
    <2>1. w \in Proc
      BY DEF Proc
    <2>2. CASE SaveProgress(w)
      BY <1>a, <2>1, <2>2, SaveKeeps
    <2>3. CASE RecordLabCompletion(w)
      BY <1>a, <2>1, <2>3, RecordKeeps
    <2>4. CASE ~SaveProgress(w) /\ ~RecordLabCompletion(w)
      BY <1>1, <1>a, <2>1, <2>4, RequestIsOtherWork, ContinueIsOtherWork, OtherWorkKeeps
    <2>5. QED
      BY <2>2, <2>3, <2>4
  <1>2. ASSUME NEW r \in Session, ReadResult(r) PROVE UnderWay(s)'
    <2>1. OtherWork(Consumer)
      BY <1>2, <1>a, BecomeAlone DEF ReadResult, OtherWork, Busy, history
    <2>2. QED
      BY <1>a, <2>1, OtherWorkKeeps
  <1>3. CASE Consume
    BY <1>3, <1>2, <1>a, ApplyKeeps, SaveKeeps, RecordKeeps DEF Consume
  <1>4. ASSUME NEW r \in Session, EngineAnswers(r) PROVE UnderWay(s)'
    BY <1>4, <1>a DEF EngineAnswers, UnderWay
  <1>5. CASE UNCHANGED vars
    BY <1>5, <1>a DEF vars, UnderWay
  <1>6. CASE Restart
    BY <1>6, <1>a DEF Restart, UnderWay
  <1>7. QED
    BY <1>1, <1>3, <1>4, <1>5, <1>6 DEF Next

\* A session that emitted LabCompleted has its row in lab_completions, or a goroutine
\* about to write it, unless a restart or a failing call dropped that very
\* completion.
THEOREM CompletionNotDropped == Spec => []CompletionIsUnderWay
  <1>1. Init => CompletionIsUnderWay
    BY DEF Init, CompletionIsUnderWay, UnderWay
  <1>2. QED
    BY <1>1, UnderWayStep, TypeCorrect, PTL DEF Spec

=============================================================================
