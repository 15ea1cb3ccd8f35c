------------------------ MODULE SessionAdmissionProofs ------------------------
(***************************************************************************)
(* SessionAdmission never leaves its types, and, as long as no critical    *)
(* section outlasts the lock, gives no user a second active session. The   *)
(* inductive invariant is AdmissionInv.                                    *)
(***************************************************************************)
EXTENDS SessionAdmission, FiniteSetTheorems, TLAPS

-----------------------------------------------------------------------------
(* Type correctness.                                                       *)

\* Every value the actions give to a job is one.
LEMMA JobForms ==
    /\ Idle \in Job
    /\ \A u \in User : \A p \in {"find", "quota", "put", "release"} :
           [pc |-> p, user |-> u] \in Job
    /\ \A u \in User, s \in Session : \A p \in {"get", "delete", "cleanup", "route", "vm", "undo"} :
           [pc |-> p, user |-> u, sid |-> s] \in Job
    /\ \A u \in User, s \in Session : \A p \in {"onprem", "overflow"} :
           [pc |-> "create", user |-> u, sid |-> s, to |-> p] \in Job
    /\ \A s \in Session : \A p \in {"discard", "terminate", "remove"} :
           [pc |-> p, sid |-> s] \in Job
BY DEF Job, Idle, Looking, Replacing

\* What a job of each kind carries.
LEMMA JobFields ==
    ASSUME NEW j \in Job
    PROVE  /\ j.pc \in Critical => j.user \in User
           /\ j.pc \in Replacing \cup {"cleanup", "route", "vm", "undo", "create",
                                      "discard", "terminate", "remove"}
                  => j.sid \in Session
           /\ j.pc = "create" => j.to \in {"onprem", "overflow"}
BY DEF Job, Critical, Looking, Replacing, Admitted

\* Where a request may go next.
LEMMA GotoJob ==
    ASSUME job \in [Worker -> Job], NEW w \in Worker, job[w].user \in User,
           NEW p \in {"find", "quota", "put", "release"}, Goto(w, p)
    PROVE  job' \in [Worker -> Job]
BY JobForms DEF Goto, Become

\* ... and with which session.
LEMMA GotoWithJob ==
    ASSUME job \in [Worker -> Job], NEW w \in Worker, job[w].user \in User,
           NEW p \in {"get", "delete", "cleanup", "route", "vm", "undo"}, NEW s \in Session,
           GotoWith(w, p, s)
    PROVE  job' \in [Worker -> Job]
BY JobForms DEF GotoWith, Become

\* Acquire keeps the types.
LEMMA TypeAcquire ==
    ASSUME TypeOK, NEW w \in Worker, NEW u \in User, Acquire(w, u)
    PROVE  TypeOK'
<1>1. /\ job \in [Worker -> Job]
      /\ job[w] \in Job
  BY DEF TypeOK
<1>2. job' \in [Worker -> Job]
  BY <1>1, JobForms, JobFields DEF Acquire, Busy, Become, provider, clock, Critical,
     Looking, Replacing, Admitted
<1>3. QED
  BY <1>1, <1>2, JobFields, AdmissionAssumption DEF TypeOK, Acquire, Busy, Become,
     provider, clock, Critical, Looking, Replacing, Admitted

\* TerminateUserSession keeps the types.
LEMMA TypeTerminateUserSession ==
    ASSUME TypeOK, NEW w \in Worker, NEW u \in User, TerminateUserSession(w, u)
    PROVE  TypeOK'
<1>1. /\ job \in [Worker -> Job]
      /\ job[w] \in Job
  BY DEF TypeOK
<1>2. job' \in [Worker -> Job]
  BY <1>1, JobForms, JobFields DEF TerminateUserSession, Busy, Become, provider, clock,
     FindActive, ActiveOn, Critical, Looking, Replacing, Admitted
<1>3. QED
  BY <1>1, <1>2, JobFields, AdmissionAssumption DEF TypeOK, TerminateUserSession, Busy,
     Become, provider, clock, FindActive, ActiveOn, Critical, Looking, Replacing,
     Admitted

\* DeleteSession keeps the types.
LEMMA TypeDeleteSession ==
    ASSUME TypeOK, NEW w \in Worker, NEW s \in Session, DeleteSession(w, s)
    PROVE  TypeOK'
<1>1. /\ job \in [Worker -> Job]
      /\ job[w] \in Job
  BY DEF TypeOK
<1>2. job' \in [Worker -> Job]
  BY <1>1, JobForms, JobFields DEF DeleteSession, Busy, Become, provider, clock,
     Critical, Looking, Replacing, Admitted
<1>3. QED
  BY <1>1, <1>2, JobFields, AdmissionAssumption DEF TypeOK, DeleteSession, Busy,
     Become, provider, clock, Critical, Looking, Replacing, Admitted

\* FindActiveByUser keeps the types.
LEMMA TypeFindActiveByUser ==
    ASSUME TypeOK, NEW w \in Worker, FindActiveByUser(w)
    PROVE  TypeOK'
<1>1. /\ job \in [Worker -> Job]
      /\ job[w] \in Job
  BY DEF TypeOK
<1>2. job[w].user \in User
  BY <1>1, JobFields DEF FindActiveByUser, Busy, Critical, Looking, Replacing, Admitted
<1>3. FindActive(job[w].user) \subseteq Session
  BY DEF FindActive, ActiveOn
<1>4. job' \in [Worker -> Job]
  BY <1>1, <1>2, <1>3, GotoJob, GotoWithJob DEF FindActiveByUser, CallFails, Return
<1>5. QED
  BY <1>1, <1>2, <1>4, JobFields, AdmissionAssumption DEF TypeOK, FindActiveByUser,
     Busy, CallFails, Return, Goto, GotoWith, Become, provider, clock, FindActive,
     ActiveOn, Critical, Looking, Replacing, Admitted

\* GetExisting keeps the types.
LEMMA TypeGetExisting ==
    ASSUME TypeOK, NEW w \in Worker, GetExisting(w)
    PROVE  TypeOK'
<1>1. /\ job \in [Worker -> Job]
      /\ job[w] \in Job
  BY DEF TypeOK
<1>2. job[w].user \in User
  BY <1>1, JobFields DEF GetExisting, Busy, Critical, Looking, Replacing, Admitted
<1>3. job[w].sid \in Session
  BY <1>1, JobFields DEF GetExisting, Busy, Critical, Looking, Replacing, Admitted
<1>4. job' \in [Worker -> Job]
  BY <1>1, <1>2, <1>3, GotoJob, GotoWithJob DEF GetExisting, CallFails, Return
<1>5. QED
  BY <1>1, <1>2, <1>4, JobFields, AdmissionAssumption DEF TypeOK, GetExisting, Busy,
     CallFails, Return, Goto, GotoWith, Become, provider, clock, Critical, Looking,
     Replacing, Admitted

\* DeleteExisting keeps the types.
LEMMA TypeDeleteExisting ==
    ASSUME TypeOK, NEW w \in Worker, DeleteExisting(w)
    PROVE  TypeOK'
<1>1. /\ job \in [Worker -> Job]
      /\ job[w] \in Job
  BY DEF TypeOK
<1>2. job[w].user \in User
  BY <1>1, JobFields DEF DeleteExisting, Busy, Critical, Looking, Replacing, Admitted
<1>3. job[w].sid \in Session
  BY <1>1, JobFields DEF DeleteExisting, Busy, Critical, Looking, Replacing, Admitted
<1>4. job' \in [Worker -> Job]
  BY <1>1, <1>2, <1>3, GotoJob, GotoWithJob DEF DeleteExisting, CallFails, Return
<1>5. QED
  BY <1>1, <1>2, <1>4, JobFields, AdmissionAssumption DEF TypeOK, DeleteExisting, Busy,
     CallFails, Return, Goto, GotoWith, Become, clock, End, EndAnyway, Critical,
     Looking, Replacing, Admitted

\* RemoveReplaced keeps the types.
LEMMA TypeRemoveReplaced ==
    ASSUME TypeOK, NEW w \in Worker, RemoveReplaced(w)
    PROVE  TypeOK'
<1>1. /\ job \in [Worker -> Job]
      /\ job[w] \in Job
  BY DEF TypeOK
<1>2. job' \in [Worker -> Job]
  BY <1>1, JobForms, JobFields DEF RemoveReplaced, Busy, Goto, Become, provider, clock,
     Critical, Looking, Replacing, Admitted
<1>3. QED
  BY <1>1, <1>2, JobFields, AdmissionAssumption DEF TypeOK, RemoveReplaced, Busy, Goto,
     Become, provider, clock, Critical, Looking, Replacing, Admitted

\* CheckQuota keeps the types.
LEMMA TypeCheckQuota ==
    ASSUME TypeOK, NEW w \in Worker, CheckQuota(w)
    PROVE  TypeOK'
<1>1. /\ job \in [Worker -> Job]
      /\ job[w] \in Job
  BY DEF TypeOK
<1>2. job' \in [Worker -> Job]
  BY <1>1, JobForms, JobFields DEF CheckQuota, Busy, CallFails, Return, Goto, Become,
     provider, clock, Critical, Looking, Replacing, Admitted
<1>3. QED
  BY <1>1, <1>2, JobFields, AdmissionAssumption DEF TypeOK, CheckQuota, Busy,
     CallFails, Return, Goto, Become, provider, clock, Critical, Looking, Replacing,
     Admitted

\* PutSteps keeps the types.
LEMMA TypePutSteps ==
    ASSUME TypeOK, NEW w \in Worker, NEW s \in Session, PutSteps(w, s)
    PROVE  TypeOK'
<1>1. /\ job \in [Worker -> Job]
      /\ job[w] \in Job
  BY DEF TypeOK
<1>2. job[w].user \in User
  BY <1>1, JobFields DEF PutSteps, Busy, Critical, Looking, Replacing, Admitted
<1>4. job' \in [Worker -> Job]
  BY <1>1, <1>2, GotoJob, GotoWithJob DEF PutSteps, Return
<1>5. QED
  BY <1>1, <1>2, <1>4, JobFields, AdmissionAssumption DEF TypeOK, PutSteps, Busy,
     Return, Goto, GotoWith, Become, provider, clock, Critical, Looking, Replacing,
     Admitted

\* Route keeps the types.
LEMMA TypeRoute ==
    ASSUME TypeOK, NEW w \in Worker, Route(w)
    PROVE  TypeOK'
<1>1. /\ job \in [Worker -> Job]
      /\ job[w] \in Job
  BY DEF TypeOK
<1>2. job[w].user \in User
  BY <1>1, JobFields DEF Route, Busy, Critical, Looking, Replacing, Admitted
<1>3. job[w].sid \in Session
  BY <1>1, JobFields DEF Route, Busy, Critical, Looking, Replacing, Admitted
<1>4. job' \in [Worker -> Job]
  <2>1. CASE GotoWith(w, "undo", job[w].sid)
    BY <1>1, <1>2, <1>3, <2>1, GotoWithJob
  <2>2. CASE \E p \in {"onprem", "overflow"} :
                Become(w, [pc |-> "create", user |-> job[w].user, sid |-> job[w].sid,
                to |-> p])
    <3>1. PICK p \in {"onprem", "overflow"} :
               Become(w, [pc |-> "create", user |-> job[w].user, sid |-> job[w].sid,
               to |-> p])
      BY <2>2
    <3>2. [pc |-> "create", user |-> job[w].user, sid |-> job[w].sid, to |-> p] \in Job
      BY <1>2, <1>3, JobForms
    <3>3. QED
      BY <1>1, <3>1, <3>2 DEF Become
  <2>3. QED
    BY <2>1, <2>2 DEF Route
<1>5. QED
  BY <1>1, <1>2, <1>4, JobFields, AdmissionAssumption DEF TypeOK, Route, Busy,
     GotoWith, Become, provider, clock, Critical, Looking, Replacing, Admitted

\* Create keeps the types.
LEMMA TypeCreate ==
    ASSUME TypeOK, NEW w \in Worker, Create(w)
    PROVE  TypeOK'
<1>1. /\ job \in [Worker -> Job]
      /\ job[w] \in Job
      /\ job[w].user \in User /\ job[w].sid \in Session
  BY JobFields DEF TypeOK, Create, CreateNamespace, CreateVM, CreateOverflow, Busy,
     Critical, Admitted
<1>2. job' \in [Worker -> Job]
  <2>1. Return(w) \/ \E p \in {"vm", "undo"} : GotoWith(w, p, job[w].sid)
    BY DEF Create, CreateNamespace, CreateVM, CreateOverflow
  <2>2. QED
    BY <1>1, <2>1, GotoJob, GotoWithJob DEF Return
<1>3. /\ state' \in [Session -> {"none", "provisioning", "running", "broken", "orphan", "ended"}]
      /\ owner' \in [Session -> User \cup {None}]
      /\ at' \in [Session -> {"onprem", "overflow", None}]
  BY <1>1 DEF TypeOK, Create, CreateNamespace, CreateVM, CreateOverflow, Leave, Boot,
     Busy, provider
<1>4. UNCHANGED <<late, expired, steps, completed, lock, reaper>>
  BY DEF Create, CreateNamespace, CreateVM, CreateOverflow, clock
<1>5. QED
  BY <1>2, <1>3, <1>4 DEF TypeOK

\* UndoSteps keeps the types.
LEMMA TypeUndoSteps ==
    ASSUME TypeOK, NEW w \in Worker, UndoSteps(w)
    PROVE  TypeOK'
<1>1. /\ job \in [Worker -> Job]
      /\ job[w] \in Job
  BY DEF TypeOK
<1>2. job' \in [Worker -> Job]
  BY <1>1, JobForms, JobFields DEF UndoSteps, Busy, Return, Goto, Become, provider,
     clock, Critical, Looking, Replacing, Admitted
<1>3. QED
  BY <1>1, <1>2, JobFields, AdmissionAssumption DEF TypeOK, UndoSteps, Busy, Return,
     Goto, Become, provider, clock, Critical, Looking, Replacing, Admitted

\* DeleteOwn keeps the types.
LEMMA TypeDeleteOwn ==
    ASSUME TypeOK, NEW w \in Worker, DeleteOwn(w)
    PROVE  TypeOK'
<1>1. /\ job \in [Worker -> Job]
      /\ job[w] \in Job /\ job[w].sid \in Session
  BY JobFields DEF TypeOK, DeleteOwn, Busy
<1>2. job' \in [Worker -> Job]
  BY <1>1, JobForms DEF DeleteOwn, Become
<1>3. QED
  BY <1>1, <1>2 DEF TypeOK, DeleteOwn, Busy, End, EndAnyway, clock

\* TerminateFound keeps the types.
LEMMA TypeTerminateFound ==
    ASSUME TypeOK, NEW w \in Worker, TerminateFound(w)
    PROVE  TypeOK'
<1>1. /\ job \in [Worker -> Job]
      /\ job[w] \in Job /\ job[w].sid \in Session
  BY JobFields DEF TypeOK, TerminateFound, Busy
<1>2. job' \in [Worker -> Job]
  BY <1>1, JobForms DEF TerminateFound, Become
<1>3. QED
  BY <1>1, <1>2 DEF TypeOK, TerminateFound, Busy, End, EndAnyway, clock

\* RemoveSteps keeps the types.
LEMMA TypeRemoveSteps ==
    ASSUME TypeOK, NEW w \in Worker, RemoveSteps(w)
    PROVE  TypeOK'
<1>1. /\ job \in [Worker -> Job]
      /\ job[w] \in Job
  BY DEF TypeOK
<1>2. job' \in [Worker -> Job]
  BY <1>1, JobForms, JobFields DEF RemoveSteps, Busy, Become, provider, clock, Idle,
     Critical, Looking, Replacing, Admitted
<1>3. QED
  BY <1>1, <1>2, JobFields, AdmissionAssumption DEF TypeOK, RemoveSteps, Busy, Become,
     provider, clock, Idle, Critical, Looking, Replacing, Admitted

\* Release keeps the types.
LEMMA TypeRelease ==
    ASSUME TypeOK, NEW w \in Worker, Release(w)
    PROVE  TypeOK'
<1>1. /\ job \in [Worker -> Job]
      /\ job[w] \in Job
  BY DEF TypeOK
<1>2. job' \in [Worker -> Job]
  BY <1>1, JobForms, JobFields DEF Release, Busy, Become, provider, clock, Idle,
     Critical, Looking, Replacing, Admitted
<1>3. QED
  BY <1>1, <1>2, JobFields, AdmissionAssumption DEF TypeOK, Release, Busy, Become,
     provider, clock, Idle, Critical, Looking, Replacing, Admitted

\* ExpireLock keeps the types.
LEMMA TypeExpireLock ==
    ASSUME TypeOK, NEW u \in User, ExpireLock(u)
    PROVE  TypeOK'
BY AdmissionAssumption DEF TypeOK, Reaper, ExpireLock, provider, clock

\* StartReap keeps the types.
LEMMA TypeStartReap ==
    ASSUME TypeOK, StartReap
    PROVE  TypeOK'
BY AdmissionAssumption DEF TypeOK, Reaper, StartReap, provider, clock

\* ReapList keeps the types.
LEMMA TypeReapList ==
    ASSUME TypeOK, ReapList
    PROVE  TypeOK'
<1>1. reaper' \in Reaper /\ reaper'.pc # "delete"
  <2>1. Listed(reaper.kind, reaper.on) \subseteq Session
    BY DEF Listed, ActiveAt, Active
  <2>2. CASE reaper' = [reaper EXCEPT !.pc = "scan", !.todo = Listed(reaper.kind, reaper.on)]
    BY <2>1, <2>2 DEF TypeOK, Reaper
  <2>3. CASE reaper' = [reaper EXCEPT !.pc = "scan", !.err = TRUE]
    BY <2>3 DEF TypeOK, Reaper
  <2>4. QED
    BY <2>2, <2>3 DEF ReapList
<1>2. QED
  BY <1>1 DEF TypeOK, ReapList, provider, clock

\* ReapCheck keeps the types.
LEMMA TypeReapCheck ==
    ASSUME TypeOK, NEW s \in Session, ReapCheck(s)
    PROVE  TypeOK'
<1>1. reaper' \in Reaper /\ (reaper'.pc = "delete" => reaper'.sid \in Session)
  <2>1. CASE reaper' = [reaper EXCEPT !.pc = "delete", !.sid = s, !.todo = @ \ {s}]
    BY <2>1 DEF TypeOK, Reaper
  <2>2. CASE reaper' = [reaper EXCEPT !.todo = @ \ {s}]
    BY <2>2 DEF TypeOK, Reaper, ReapCheck
  <2>3. QED
    BY <2>1, <2>2 DEF ReapCheck
<1>2. QED
  BY <1>1 DEF TypeOK, ReapCheck, provider, clock

\* ReapDelete keeps the types.
LEMMA TypeReapDelete ==
    ASSUME TypeOK, ReapDelete
    PROVE  TypeOK'
<1>1. reaper' \in Reaper /\ reaper'.pc # "delete"
  <2>1. reaper.sid \in Session
    BY DEF TypeOK, ReapDelete
  <2>2. CASE reaper' = [reaper EXCEPT !.pc = "scan", !.sid = None,
                                      !.reaped = @ \cup {reaper.sid}]
    BY <2>1, <2>2 DEF TypeOK, Reaper
  <2>3. CASE reaper' = [reaper EXCEPT !.pc = "scan", !.sid = None]
    BY <2>3 DEF TypeOK, Reaper
  <2>4. QED
    BY <2>2, <2>3 DEF ReapDelete
<1>2. QED
  BY <1>1 DEF TypeOK, ReapDelete, End, EndAnyway, clock

\* ReapNext keeps the types.
LEMMA TypeReapNext ==
    ASSUME TypeOK, ReapNext
    PROVE  TypeOK'
BY AdmissionAssumption DEF TypeOK, Reaper, ReapNext, provider, clock

\* ReapFinish keeps the types.
LEMMA TypeReapFinish ==
    ASSUME TypeOK, ReapFinish
    PROVE  TypeOK'
BY AdmissionAssumption DEF TypeOK, Reaper, ReapFinish, provider, clock, RestingReaper

\* VMChanges keeps the types.
LEMMA TypeVMChanges ==
    ASSUME TypeOK, NEW s \in Session, VMChanges(s)
    PROVE  TypeOK'
BY AdmissionAssumption DEF TypeOK, Reaper, VMChanges, clock

\* TimePasses keeps the types.
LEMMA TypeTimePasses ==
    ASSUME TypeOK, NEW s \in Session, TimePasses(s)
    PROVE  TypeOK'
BY AdmissionAssumption DEF TypeOK, Reaper, TimePasses, provider

\* CompleteLab keeps the types.
LEMMA TypeCompleteLab ==
    ASSUME TypeOK, NEW s \in Session, CompleteLab(s)
    PROVE  TypeOK'
BY AdmissionAssumption DEF TypeOK, Reaper, CompleteLab, provider, clock

\* Restart keeps the types.
LEMMA TypeRestart ==
    ASSUME TypeOK, Restart
    PROVE  TypeOK'
BY AdmissionAssumption, JobForms DEF TypeOK, Reaper, Restart, provider, clock,
   RestingReaper, Idle

\* No step leaves the types.
LEMMA TypeStep ==
    ASSUME TypeOK, [Next]_vars
    PROVE  TypeOK'
<1>1. CASE UNCHANGED vars
  BY <1>1 DEF TypeOK, vars
<1>2. ASSUME NEW w \in Worker, NEW u \in User, Acquire(w, u) \/ TerminateUserSession(w, u)
      PROVE  TypeOK'
  BY <1>2, TypeAcquire, TypeTerminateUserSession
<1>3. ASSUME NEW w \in Worker, NEW s \in Session, DeleteSession(w, s)
      PROVE  TypeOK'
  BY <1>3, TypeDeleteSession
<1>4. ASSUME NEW w \in Worker, Work(w)
      PROVE  TypeOK'
  BY <1>4, TypeFindActiveByUser, TypeGetExisting, TypeDeleteExisting,
     TypeRemoveReplaced, TypeCheckQuota, TypePutSteps, TypeRoute, TypeCreate,
     TypeUndoSteps, TypeDeleteOwn, TypeTerminateFound, TypeRemoveSteps, TypeRelease DEF Work
<1>5. ASSUME NEW u \in User, ExpireLock(u)
      PROVE  TypeOK'
  BY <1>5, TypeExpireLock
<1>6. CASE Reap
  BY <1>6, TypeStartReap, TypeReapList, TypeReapCheck, TypeReapDelete, TypeReapNext,
     TypeReapFinish
     DEF Reap
<1>7. ASSUME NEW s \in Session, VMChanges(s) \/ TimePasses(s) \/ CompleteLab(s)
      PROVE  TypeOK'
  BY <1>7, TypeVMChanges, TypeTimePasses, TypeCompleteLab
<1>8. CASE Restart
  BY <1>8, TypeRestart
<1>9. QED
  BY <1>1, <1>2, <1>3, <1>4, <1>5, <1>6, <1>7, <1>8 DEF Next

-----------------------------------------------------------------------------
(* One session per user.                                                   *)

\* A step that only ends sessions, and moves no request, keeps the invariant.
LEMMA FewerSessions ==
    ASSUME AdmissionInv, TypeOK',
           UNCHANGED <<job, lock, owner, at>>,
           \A s \in Session : Live(s)' => Live(s)
    PROVE  AdmissionInv'
<1>1. OneSessionPerUser' /\ LiveIsSomewhere'
  BY DEF AdmissionInv, OneSessionPerUser, LiveIsSomewhere
<1>2. Holding'
  BY DEF AdmissionInv, Holding
<1>3. FoundIsTheOnlyOne'
  BY DEF AdmissionInv, FoundIsTheOnlyOne
<1>4. AdmittedHasNone'
  BY DEF AdmissionInv, AdmittedHasNone
<1>5. QED
  BY <1>1, <1>2, <1>3, <1>4 DEF AdmissionInv

\* A step of one request that creates no session keeps it if the request, where
\* it is now, holds its lock and has seen to its user's sessions.
LEMMA OneRequestMoves ==
    ASSUME AdmissionInv, TypeOK', NEW w \in Worker,
           UNCHANGED <<lock, owner, at>>,
           \A s \in Session : Live(s)' => Live(s),
           \A v \in Worker \ {w} : job'[v] = job[v],
           job'[w].pc \in Critical => lock[job'[w].user] = w,
           job'[w].pc \in Replacing \cup {"vm"} =>
               \A s \in Session : Live(s)' /\ owner[s] = job'[w].user => s = job'[w].sid,
           job'[w].pc \in Admitted \cup {"cleanup"} =>
               \A s \in Session : Live(s)' => owner[s] # job'[w].user
    PROVE  AdmissionInv'
<1>1. OneSessionPerUser' /\ LiveIsSomewhere'
  BY DEF AdmissionInv, OneSessionPerUser, LiveIsSomewhere
<1>2. Holding'
  BY DEF AdmissionInv, Holding
<1>3. FoundIsTheOnlyOne'
  BY DEF AdmissionInv, FoundIsTheOnlyOne
<1>4. AdmittedHasNone'
  BY DEF AdmissionInv, AdmittedHasNone
<1>5. QED
  BY <1>1, <1>2, <1>3, <1>4 DEF AdmissionInv

\* The lookup: no session, or the only one.
LEMMA InvFindActiveByUser ==
    ASSUME AdmissionInv, TypeOK', NEW w \in Worker, FindActiveByUser(w)
    PROVE  AdmissionInv'
<1> DEFINE u == job[w].user
<1>1. /\ job \in [Worker -> Job]
      /\ lock[u] = w
  BY DEF AdmissionInv, TypeOK, Holding, FindActiveByUser, Busy, Critical, Looking
<1>2. /\ UNCHANGED <<state, lock, owner, at>>
      /\ \A v \in Worker \ {w} : job'[v] = job[v]
  BY <1>1 DEF FindActiveByUser, CallFails, Return, Goto, GotoWith, Become, provider
<1>3. \A s \in Session : Live(s)' <=> Live(s)
  BY <1>2 DEF Live
<1>4. CASE Goto(w, "release")
  BY <1>1, <1>2, <1>3, <1>4, OneRequestMoves DEF Goto, Become, Replacing, Admitted
<1>5. CASE FindActive(u) = {} /\ Goto(w, "quota")
  <2>1. \A s \in Session : Live(s) => owner[s] # u
    BY <1>5 DEF FindActive, ActiveOn, AdmissionInv, LiveIsSomewhere, TypeOK
  <2>2. job'[w] = [pc |-> "quota", user |-> u]
    BY <1>1, <1>5 DEF Goto, Become
  <2>3. QED
    BY <1>1, <1>2, <1>3, <2>1, <2>2, OneRequestMoves DEF Replacing
<1>6. ASSUME NEW s \in FindActive(u), GotoWith(w, "get", s)
      PROVE  AdmissionInv'
  <2>1. s \in Session /\ Live(s) /\ owner[s] = u
    BY DEF FindActive, ActiveOn
  <2>2. job'[w] = [pc |-> "get", user |-> u, sid |-> s]
    BY <1>1, <1>6 DEF GotoWith, Become
  <2>3. \A r \in Session : Live(r) /\ owner[r] = u => r = s
    BY <2>1 DEF AdmissionInv, OneSessionPerUser
  <2>4. QED
    BY <1>1, <1>2, <1>3, <2>2, <2>3, OneRequestMoves DEF Admitted
<1>7. QED
  BY <1>4, <1>5, <1>6 DEF FindActiveByUser, CallFails, Return

\* The session that was found is the user's only one: if it is gone, none is left.
LEMMA InvGetExisting ==
    ASSUME AdmissionInv, TypeOK', NEW w \in Worker, GetExisting(w)
    PROVE  AdmissionInv'
<1> DEFINE u == job[w].user
           s == job[w].sid
<1>1. /\ job \in [Worker -> Job]
      /\ lock[u] = w
      /\ \A r \in Session : Live(r) /\ owner[r] = u => r = s
  BY DEF AdmissionInv, TypeOK, Holding, FoundIsTheOnlyOne, GetExisting, Busy, Critical,
     Replacing
<1>2. /\ UNCHANGED <<state, lock, owner, at>>
      /\ \A v \in Worker \ {w} : job'[v] = job[v]
  BY <1>1 DEF GetExisting, CallFails, Return, Goto, GotoWith, Become, provider
<1>3. \A r \in Session : Live(r)' <=> Live(r)
  BY <1>2 DEF Live
<1>4. CASE Goto(w, "release")
  BY <1>1, <1>2, <1>3, <1>4, OneRequestMoves DEF Goto, Become, Replacing, Admitted
<1>5. CASE "gone" \in GetAnswers(s) /\ GotoWith(w, "cleanup", s)
  <2>1. ~Live(s)
    BY <1>5 DEF GetAnswers, StatusOf
  <2>2. job'[w] = [pc |-> "cleanup", user |-> u, sid |-> s]
    BY <1>1, <1>5 DEF GotoWith, Become
  <2>3. QED
    BY <1>1, <1>2, <1>3, <2>1, <2>2, OneRequestMoves DEF Replacing
<1>6. CASE GotoWith(w, "delete", s)
  <2>1. job'[w] = [pc |-> "delete", user |-> u, sid |-> s]
    BY <1>1, <1>6 DEF GotoWith, Become
  <2>2. QED
    BY <1>1, <1>2, <1>3, <2>1, OneRequestMoves DEF Admitted
<1>7. QED
  BY <1>4, <1>5, <1>6 DEF GetExisting, CallFails, Return

\* Once the only session has ended, the user has none.
LEMMA InvDeleteExisting ==
    ASSUME AdmissionInv, TypeOK', NEW w \in Worker, DeleteExisting(w)
    PROVE  AdmissionInv'
<1> DEFINE u == job[w].user
           s == job[w].sid
<1>1. /\ job \in [Worker -> Job]
      /\ state \in [Session -> {"none", "provisioning", "running", "broken", "orphan", "ended"}]
      /\ s \in Session
      /\ lock[u] = w
      /\ \A r \in Session : Live(r) /\ owner[r] = u => r = s
  BY JobFields DEF AdmissionInv, TypeOK, Holding, FoundIsTheOnlyOne, DeleteExisting,
     Busy,
     Critical, Replacing
<1>2. /\ UNCHANGED <<lock, owner, at>>
      /\ \A v \in Worker \ {w} : job'[v] = job[v]
  BY <1>1 DEF DeleteExisting, CallFails, Return, Goto, GotoWith, Become
<1>3. \A r \in Session : Live(r)' => Live(r)
  BY <1>1 DEF DeleteExisting, End, EndAnyway, Live
<1>4. CASE Goto(w, "release")
  BY <1>1, <1>2, <1>3, <1>4, OneRequestMoves DEF Goto, Become, Replacing, Admitted
<1>5. CASE End(s) /\ GotoWith(w, "cleanup", s)
  <2>1. \A r \in Session : r = s => ~Live(r)'
    BY <1>1, <1>5 DEF End, Live
  <2>2. job'[w] = [pc |-> "cleanup", user |-> u, sid |-> s]
    BY <1>1, <1>5 DEF GotoWith, Become
  <2>3. QED
    BY <1>1, <1>2, <1>3, <2>1, <2>2, OneRequestMoves DEF Replacing
<1>6. QED
  BY <1>4, <1>5 DEF DeleteExisting, CallFails, Return

\* From the cleanup to the call of Create the user has no session.
LEMMA InvAdmitted ==
    ASSUME AdmissionInv, TypeOK', NEW w \in Worker,
           \/ RemoveReplaced(w) \/ CheckQuota(w) \/ Route(w)
           \/ \E s \in Session : PutSteps(w, s)
    PROVE  AdmissionInv'
<1>1. /\ job \in [Worker -> Job]
      /\ lock[job[w].user] = w
      /\ \A s \in Session : Live(s) => owner[s] # job[w].user
  BY DEF AdmissionInv, TypeOK, Holding, AdmittedHasNone, RemoveReplaced, CheckQuota,
     Route,
     PutSteps, Busy, Critical, Admitted
<1>2. UNCHANGED <<state, lock, owner, at>>
  BY DEF RemoveReplaced, CheckQuota, Route, PutSteps, provider
<1>3. \A s \in Session : Live(s)' <=> Live(s)
  BY <1>2 DEF Live
<1>4. /\ \A v \in Worker \ {w} : job'[v] = job[v]
      /\ job'[w].user = job[w].user
      /\ job'[w].pc \in Admitted \cup {"release", "undo"}
  <2>1. CASE RemoveReplaced(w)
    BY <1>1, <2>1 DEF RemoveReplaced, Goto, Become, Admitted
  <2>2. CASE CheckQuota(w)
    BY <1>1, <2>2 DEF CheckQuota, CallFails, Return, Goto, Become, Admitted
  <2>3. CASE Route(w)
    BY <1>1, <2>3 DEF Route, GotoWith, Become, Admitted
  <2>4. ASSUME NEW s \in Session, PutSteps(w, s)
        PROVE  /\ \A v \in Worker \ {w} : job'[v] = job[v]
               /\ job'[w].user = job[w].user
               /\ job'[w].pc \in Admitted \cup {"release", "undo"}
    BY <1>1, <2>4 DEF PutSteps, Return, Goto, GotoWith, Become, Admitted
  <2>5. QED
    BY <2>1, <2>2, <2>3, <2>4
<1>5. QED
  BY <1>1, <1>2, <1>3, <1>4, OneRequestMoves DEF Admitted, Replacing

\* Create: the new session is its user's first, and no other request of the user
\* has been admitted, since this one holds the lock.
LEMMA InvCreate ==
    ASSUME AdmissionInv, TypeOK', NEW w \in Worker,
           CreateNamespace(w) \/ CreateOverflow(w)
    PROVE  AdmissionInv'
<1> DEFINE u == job[w].user
           s == job[w].sid
<1>1. /\ job \in [Worker -> Job]
      /\ state \in [Session -> {"none", "provisioning", "running", "broken", "orphan", "ended"}]
      /\ owner \in [Session -> User \cup {None}]
      /\ at \in [Session -> {"onprem", "overflow", None}]
      /\ s \in Session
      /\ job[w].to \in {"onprem", "overflow"}
      /\ lock[u] = w
      /\ \A r \in Session : Live(r) => owner[r] # u
  BY JobFields DEF AdmissionInv, TypeOK, Holding, AdmittedHasNone, CreateNamespace,
     CreateOverflow, Busy, Critical, Admitted
<1>2. /\ lock' = lock
      /\ \A v \in Worker \ {w} : job'[v] = job[v]
      /\ job'[w].pc \in {"release", "undo", "vm"}
      /\ job'[w].pc = "vm" => job'[w].sid = s
      /\ job'[w].user = u
  BY <1>1 DEF CreateNamespace, CreateOverflow, Return, Goto, GotoWith, Become
<1>3. CASE UNCHANGED provider
  <2>1. UNCHANGED <<lock, owner, at>> /\ \A r \in Session : Live(r)' => Live(r)
    BY <1>2, <1>3 DEF provider, Live
  <2>2. QED
    BY <1>1, <1>2, <2>1, OneRequestMoves DEF Replacing, Admitted
<1>4. CASE /\ \E st \in {"provisioning", "orphan"} : state' = [state EXCEPT ![s] = st]
           /\ owner' = [owner EXCEPT ![s] = u]
           /\ at' = [at EXCEPT ![s] = job[w].to]
  <2>1. /\ owner'[s] = u /\ at'[s] = job[w].to
        /\ \A r \in Session \ {s} : /\ Live(r)' <=> Live(r)
                                    /\ owner'[r] = owner[r] /\ at'[r] = at[r]
    BY <1>1, <1>4 DEF Live
  <2>2. \A r \in Session \ {s} : Live(r)' => owner'[r] # u
    BY <1>1, <2>1
  <2>3. OneSessionPerUser'
    BY <2>1, <2>2 DEF AdmissionInv, OneSessionPerUser
  <2>4. LiveIsSomewhere'
    <3>1. job[w].to # None
      BY <1>1, <2>1, AdmissionAssumption
    <3>2. QED
      BY <2>1, <3>1 DEF AdmissionInv, LiveIsSomewhere
  <2>5. Holding'
    BY <1>1, <1>2 DEF AdmissionInv, Holding
  <2>6. \A v \in Worker \ {w} : job[v].pc \in Critical => job[v].user # u
    BY <1>1 DEF AdmissionInv, Holding
  <2>7. FoundIsTheOnlyOne'
    BY <1>2, <2>1, <2>2, <2>6 DEF AdmissionInv, FoundIsTheOnlyOne, Replacing, Critical
  <2>8. AdmittedHasNone'
    BY <1>2, <2>1, <2>6 DEF AdmissionInv, AdmittedHasNone, Admitted, Critical
  <2>9. QED
    BY <2>3, <2>4, <2>5, <2>7, <2>8 DEF AdmissionInv
<1>5. QED
  BY <1>3, <1>4 DEF CreateNamespace, CreateOverflow, Leave

\* The VM appears in the namespace that was made for it.
LEMMA InvCreateVM ==
    ASSUME AdmissionInv, TypeOK', NEW w \in Worker, CreateVM(w)
    PROVE  AdmissionInv'
<1>1. /\ job \in [Worker -> Job]
      /\ state \in [Session -> {"none", "provisioning", "running", "broken", "orphan", "ended"}]
      /\ lock[job[w].user] = w
  BY DEF AdmissionInv, TypeOK, Holding, CreateVM, Busy, Critical
<1>2. /\ UNCHANGED <<lock, owner, at>>
      /\ \A r \in Session : Live(r)' => Live(r)
  BY <1>1 DEF CreateVM, Boot, Live
<1>3. /\ \A v \in Worker \ {w} : job'[v] = job[v]
      /\ job'[w].pc \in {"release", "undo"} /\ job'[w].user = job[w].user
  BY <1>1 DEF CreateVM, Return, Goto, GotoWith, Become
<1>4. QED
  BY <1>1, <1>2, <1>3, OneRequestMoves DEF Replacing, Admitted

\* Deletions and the undo of the progress entry end sessions or leave them.
LEMMA InvOtherWork ==
    ASSUME AdmissionInv, TypeOK', NEW w \in Worker,
           \/ UndoSteps(w) \/ DeleteOwn(w) \/ TerminateFound(w) \/ RemoveSteps(w)
           \/ \E u \in User : TerminateUserSession(w, u)
           \/ \E s \in Session : DeleteSession(w, s)
    PROVE  AdmissionInv'
<1>1. /\ job \in [Worker -> Job]
      /\ state \in [Session -> {"none", "provisioning", "running", "broken", "orphan", "ended"}]
  BY DEF AdmissionInv, TypeOK
<1>2. /\ UNCHANGED <<lock, owner, at>>
      /\ \A r \in Session : Live(r)' => Live(r)
  BY <1>1 DEF UndoSteps, DeleteOwn, TerminateFound, RemoveSteps, TerminateUserSession,
     DeleteSession, provider, End, EndAnyway, Live
<1>3. \A v \in Worker \ {w} : job'[v] = job[v]
  BY <1>1 DEF UndoSteps, DeleteOwn, TerminateFound, RemoveSteps, TerminateUserSession,
     DeleteSession, Return, Goto, Become
<1>4. CASE UndoSteps(w)
  <2>1. lock[job[w].user] = w
    BY <1>4 DEF AdmissionInv, Holding, UndoSteps, Busy, Critical
  <2>2. job'[w] = [pc |-> "release", user |-> job[w].user]
    BY <1>1, <1>4 DEF UndoSteps, Return, Goto, Become
  <2>3. QED
    BY <1>1, <1>2, <1>3, <2>1, <2>2, OneRequestMoves DEF Replacing, Admitted
<1>5. CASE ~UndoSteps(w)
  <2>1. job'[w].pc \in {"idle", "discard", "terminate", "remove"}
    BY <1>1, <1>5 DEF DeleteOwn, TerminateFound, RemoveSteps, TerminateUserSession,
       DeleteSession, Become, Idle
  <2>2. QED
    BY <1>1, <1>2, <1>3, <2>1, OneRequestMoves DEF Replacing, Admitted, Looking,
       Critical
<1>6. QED
  BY <1>4, <1>5

\* The lock passes from one request of a user to another.
LEMMA InvLock ==
    ASSUME ~LockExpires, AdmissionInv, TypeOK', NEW u \in User,
           \/ ExpireLock(u)
           \/ \E w \in Worker : Acquire(w, u)
           \/ \E w \in Worker : Release(w)
    PROVE  AdmissionInv'
<1>1. /\ job \in [Worker -> Job]
      /\ lock \in [User -> Worker \cup {"dead", None}]
      /\ UNCHANGED <<state, owner, at>>
  BY DEF AdmissionInv, TypeOK, ExpireLock, Acquire, Release, provider
<1>2. \A r \in Session : Live(r)' <=> Live(r)
  BY <1>1 DEF Live
<1>3. OneSessionPerUser' /\ LiveIsSomewhere'
  BY <1>1, <1>2 DEF AdmissionInv, OneSessionPerUser, LiveIsSomewhere
<1>4. \A v \in Worker : job'[v] = job[v] \/ job'[v].pc \in {"find", "idle"}
  BY <1>1 DEF ExpireLock, Acquire, Release, Become, Idle
<1>5. FoundIsTheOnlyOne'
  BY <1>1, <1>2, <1>4 DEF AdmissionInv, FoundIsTheOnlyOne, Replacing
<1>6. AdmittedHasNone'
  BY <1>1, <1>2, <1>4 DEF AdmissionInv, AdmittedHasNone, Admitted
<1>7. Holding'
  <2>1. CASE ExpireLock(u)
    <3>1. lock[u] \notin Worker /\ lock' = [lock EXCEPT ![u] = None] /\ job' = job
      BY <2>1, AdmissionAssumption DEF ExpireLock
    <3>2. QED
      BY <1>1, <3>1 DEF AdmissionInv, Holding
  <2>2. ASSUME NEW w \in Worker, Acquire(w, u)
        PROVE  Holding'
    <3>1. /\ lock[u] \notin Worker
          /\ lock' = [lock EXCEPT ![u] = w]
          /\ job' = [job EXCEPT ![w] = [pc |-> "find", user |-> u]]
      BY <2>2, AdmissionAssumption DEF Acquire, Become
    <3>2. \A v \in Worker : job[v].pc \in Critical => job[v].user # u
      BY <3>1 DEF AdmissionInv, Holding
    <3>3. \A v \in Worker : job[v].pc \in Critical => job[v].user \in User
      BY <1>1, JobFields
    <3>4. QED
      BY <1>1, <3>1, <3>2, <3>3 DEF AdmissionInv, Holding
  <2>3. ASSUME NEW w \in Worker, Release(w)
        PROVE  Holding'
    <3>1. /\ job' = [job EXCEPT ![w] = Idle]
          /\ job[w].user \in User
          /\ lock[job[w].user] = w
      BY <1>1, <2>3, JobFields DEF Release, Become, Busy, Critical, AdmissionInv,
         Holding
    <3>2. \A v \in Worker \ {w} : job[v].pc \in Critical => job[v].user # job[w].user
      BY <3>1 DEF AdmissionInv, Holding
    <3>3. \A x \in User \ {job[w].user} : lock'[x] = lock[x]
      BY <1>1, <2>3, <3>1 DEF Release
    <3>4. \A v \in Worker : job[v].pc \in Critical => job[v].user \in User
      BY <1>1, JobFields
    <3>5. job'[w].pc \notin Critical
      BY <1>1, <3>1 DEF Idle, Critical, Looking, Replacing, Admitted
    <3>6. QED
      BY <1>1, <3>1, <3>2, <3>3, <3>4, <3>5 DEF AdmissionInv, Holding
  <2>4. QED
    BY <2>1, <2>2, <2>3
<1>8. QED
  BY <1>3, <1>5, <1>6, <1>7 DEF AdmissionInv

\* A restart forgets every request.
LEMMA InvRestart ==
    ASSUME AdmissionInv, TypeOK', Restart
    PROVE  AdmissionInv'
<1>1. UNCHANGED <<state, owner, at>> /\ \A w \in Worker : job'[w].pc = "idle"
  BY DEF Restart, provider, Idle
<1>2. OneSessionPerUser' /\ LiveIsSomewhere'
  BY <1>1 DEF AdmissionInv, OneSessionPerUser, LiveIsSomewhere, Live
<1>3. Holding' /\ FoundIsTheOnlyOne' /\ AdmittedHasNone'
  BY <1>1 DEF Holding, FoundIsTheOnlyOne, AdmittedHasNone, Critical, Looking,
     Replacing, Admitted
<1>4. QED
  BY <1>2, <1>3 DEF AdmissionInv

\* The reaper and the environment only end sessions.
LEMMA InvEnvironment ==
    ASSUME AdmissionInv, TypeOK',
           \/ Reap \/ UNCHANGED vars
           \/ \E s \in Session : VMChanges(s) \/ TimePasses(s) \/ CompleteLab(s)
    PROVE  AdmissionInv'
<1>1. state \in [Session -> {"none", "provisioning", "running", "broken", "orphan", "ended"}]
  BY DEF AdmissionInv, TypeOK
<1>2. UNCHANGED <<job, lock, owner, at>>
  BY DEF Reap, StartReap, ReapList, ReapCheck, ReapDelete, ReapNext, ReapFinish,
     VMChanges,
     TimePasses, CompleteLab, provider, vars
<1>3. \A s \in Session : Live(s)' => Live(s)
  <2>1. CASE UNCHANGED state
    BY <2>1 DEF Live
  <2>2. CASE ReapDelete
    BY <1>1, <2>2 DEF ReapDelete, End, EndAnyway, Live
  <2>3. ASSUME NEW s \in Session, VMChanges(s)
        PROVE  \A r \in Session : Live(r)' => Live(r)
    BY <1>1, <2>3 DEF VMChanges, Live
  <2>4. QED
    BY <2>1, <2>2, <2>3 DEF Reap, StartReap, ReapList, ReapCheck, ReapNext, ReapFinish,
       TimePasses, CompleteLab, provider, vars
<1>4. QED
  BY <1>2, <1>3, FewerSessions

\* The initial state has the types.
LEMMA TypeInit == Init => TypeOK
<1>1. ASSUME Init
      PROVE  TypeOK
  <2>1. job \in [Worker -> Job]
    BY <1>1, JobForms DEF Init
  <2>2. reaper \in Reaper /\ reaper.pc = "idle"
    BY <1>1 DEF Init, RestingReaper, Reaper
  <2>3. QED
    BY <1>1, <2>1, <2>2 DEF Init, TypeOK
<1>2. QED
  BY <1>1

\* Type correctness of the admission model: CreateSession, the deletions and the
\* reaper only ever produce the states declared in TypeOK.
THEOREM AdmissionTypeCorrect == Spec => []TypeOK
BY TypeInit, TypeStep, PTL DEF Spec

\* However many users, request goroutines and sessions there are, whichever calls
\* fail and whenever the API restarts: as long as no critical section outlasts
\* the lock's TTL, CreateSession never gives a user a second active session.
THEOREM OneSession ==
    ASSUME ~LockExpires
    PROVE  Spec => []OneSessionPerUser
<1>1. Init => AdmissionInv
  <2>1. ASSUME Init
        PROVE  AdmissionInv
    <3>1. /\ \A s \in Session : ~Live(s)
          /\ \A w \in Worker : job[w].pc = "idle"
      BY <2>1 DEF Init, Live, Idle
    <3>2. OneSessionPerUser /\ LiveIsSomewhere
      BY <3>1 DEF OneSessionPerUser, LiveIsSomewhere
    <3>3. Holding /\ FoundIsTheOnlyOne /\ AdmittedHasNone
      BY <3>1 DEF Holding, FoundIsTheOnlyOne, AdmittedHasNone, Critical, Looking,
         Replacing,
         Admitted
    <3>4. QED
      BY <2>1, <3>2, <3>3, TypeInit DEF AdmissionInv
  <2>2. QED
    BY <2>1
<1>2. AdmissionInv /\ [Next]_vars => AdmissionInv'
  <2>1. SUFFICES ASSUME AdmissionInv, [Next]_vars
                 PROVE  AdmissionInv'
    OBVIOUS
  <2>2. TypeOK'
    BY <2>1, TypeStep DEF AdmissionInv
  <2>3. ASSUME NEW w \in Worker, Work(w)
        PROVE  AdmissionInv'
    <3>1. CASE Release(w)
      <4>1. job[w].user \in User
        BY <2>1, <3>1, JobFields DEF AdmissionInv, TypeOK, Release, Busy, Critical
      <4>2. QED
        BY <2>1, <2>2, <3>1, <4>1, InvLock
    <3>2. CASE ~Release(w)
      BY <2>1, <2>2, <2>3, <3>2, InvFindActiveByUser, InvGetExisting, InvDeleteExisting,
         InvAdmitted, InvCreate, InvCreateVM, InvOtherWork DEF Work, Create
    <3>3. QED
      BY <3>1, <3>2
  <2>4. ASSUME NEW w \in Worker, NEW u \in User, Acquire(w, u) \/ TerminateUserSession(w, u)
        PROVE  AdmissionInv'
    BY <2>1, <2>2, <2>4, InvLock, InvOtherWork
  <2>5. ASSUME NEW w \in Worker, NEW s \in Session, DeleteSession(w, s)
        PROVE  AdmissionInv'
    BY <2>1, <2>2, <2>5, InvOtherWork
  <2>6. ASSUME NEW u \in User, ExpireLock(u)
        PROVE  AdmissionInv'
    BY <2>1, <2>2, <2>6, InvLock
  <2>7. QED
    BY <2>1, <2>2, <2>3, <2>4, <2>5, <2>6, InvRestart, InvEnvironment DEF Next
<1>3. AdmissionInv => OneSessionPerUser
  BY DEF AdmissionInv
<1>4. QED
  BY <1>1, <1>2, <1>3, PTL DEF Spec

-----------------------------------------------------------------------------
(* The quota.                                                              *)

\* One element more.
LEMMA AtMostOneMore ==
    ASSUME NEW S, IsFiniteSet(S), NEW x
    PROVE  IsFiniteSet(S \cup {x}) /\ Cardinality(S \cup {x}) <= Cardinality(S) + 1
<1>1. /\ IsFiniteSet(S \cup {x})
      /\ Cardinality(S \cup {x}) = IF x \in S THEN Cardinality(S) ELSE Cardinality(S) + 1
  BY FS_AddElement
<1>2. Cardinality(S) \in Nat
  BY FS_CardinalityType
<1>3. QED
  BY <1>1, <1>2

\* One element less.
LEMMA OneLess ==
    ASSUME NEW S, IsFiniteSet(S), NEW x \in S
    PROVE  IsFiniteSet(S \ {x}) /\ Cardinality(S \ {x}) = Cardinality(S) - 1
<1>1. /\ IsFiniteSet(S \ {x})
      /\ Cardinality(S \ {x}) = IF x \in S THEN Cardinality(S) - 1 ELSE Cardinality(S)
  BY FS_RemoveElement
<1>2. QED
  BY <1>1

\* Sessions and requests are finitely many.
LEMMA CountsAreNumbers ==
    /\ Cardinality(Worker) \in Nat
    /\ IsFiniteSet(Active) /\ Cardinality(Active) \in Nat
    /\ IsFiniteSet(Pending) /\ Cardinality(Pending) \in Nat
    /\ Cardinality(Pending) <= Cardinality(Worker)
<1>1. Active \subseteq Session /\ Pending \subseteq Worker
  BY DEF Active, Pending
<1>2. /\ IsFiniteSet(Active)
      /\ IsFiniteSet(Pending) /\ Cardinality(Pending) <= Cardinality(Worker)
  BY <1>1, AdmissionAssumption, FS_Subset
<1>3. QED
  BY <1>2, AdmissionAssumption, FS_CardinalityType

\* The capacity is a number.
LEMMA CapacityIsNat == Capacity \in Nat
BY AdmissionAssumption DEF Capacity

\* Fewer sessions and fewer requests under way.
LEMMA CountFalls ==
    ASSUME RequestsAreCounted, Active' \subseteq Active, Pending' \subseteq Pending
    PROVE  RequestsAreCounted'
<1>1. /\ Cardinality(Active') <= Cardinality(Active)
      /\ Cardinality(Pending') <= Cardinality(Pending)
  BY CountsAreNumbers, FS_Subset
<1>2. /\ IsFiniteSet(Active') /\ IsFiniteSet(Pending')
  BY CountsAreNumbers, FS_Subset
<1>3. Cardinality(Active') \in Nat /\ Cardinality(Pending') \in Nat
  BY <1>2, FS_CardinalityType
<1>4. QED
  BY <1>1, <1>3, CountsAreNumbers, CapacityIsNat DEF RequestsAreCounted

\* A request that was counted becomes the session that it created.
LEMMA CountMoves ==
    ASSUME RequestsAreCounted, NEW w \in Pending, NEW s,
           Active' \subseteq Active \cup {s}, Pending' \subseteq Pending \ {w}
    PROVE  RequestsAreCounted'
<1>1. /\ IsFiniteSet(Active \cup {s})
      /\ Cardinality(Active \cup {s}) <= Cardinality(Active) + 1
  BY CountsAreNumbers, AtMostOneMore
<1>2. /\ IsFiniteSet(Pending \ {w})
      /\ Cardinality(Pending \ {w}) = Cardinality(Pending) - 1
  BY CountsAreNumbers, OneLess
<1>3. /\ IsFiniteSet(Active') /\ Cardinality(Active') <= Cardinality(Active \cup {s})
      /\ IsFiniteSet(Pending') /\ Cardinality(Pending') <= Cardinality(Pending \ {w})
  BY <1>1, <1>2, FS_Subset
<1>4. /\ Cardinality(Active') \in Nat /\ Cardinality(Pending') \in Nat
      /\ Cardinality(Active \cup {s}) \in Nat
  BY <1>1, <1>3, FS_CardinalityType
<1>5. QED
  BY <1>1, <1>2, <1>3, <1>4, CountsAreNumbers, CapacityIsNat DEF RequestsAreCounted

\* A request that finds room: all of them together overrun it by one less than
\* they are.
LEMMA CountChecked ==
    ASSUME Active' = Active, Pending' \subseteq Worker,
           Capacity > 0 => Cardinality(Active) < Capacity
    PROVE  RequestsAreCounted'
<1>1. IsFiniteSet(Pending') /\ Cardinality(Pending') <= Cardinality(Worker)
  BY AdmissionAssumption, FS_Subset
<1>2. Cardinality(Pending') \in Nat
  BY <1>1, FS_CardinalityType
<1>3. QED
  BY <1>1, <1>2, CountsAreNumbers, CapacityIsNat DEF RequestsAreCounted

\* A request moves; it is under way after the step only if it was before.
LEMMA PendingFalls ==
    ASSUME TypeOK, NEW w \in Worker, NEW j, Become(w, j),
           j.pc \in {"put", "route", "create"} => w \in Pending
    PROVE  Pending' \subseteq Pending
BY DEF TypeOK, Become, Pending

\* Sessions that are live after a step were live before.
LEMMA ActiveFalls ==
    ASSUME \A s \in Session : Live(s)' => Live(s)
    PROVE  Active' \subseteq Active
BY DEF Active

\* The provider ends a session, and no other changes.
LEMMA EndStep ==
    ASSUME TypeOK, NEW s \in Session, End(s)
    PROVE  /\ ~Live(s)'
           /\ \A r \in Session : Live(r)' => Live(r)
           /\ \A r \in Session \ {s} : state'[r] = state[r]
           /\ Live(s) => state'[s] = "ended"
           /\ ~Live(s) => state'[s] = state[s]
BY DEF TypeOK, End, Live

\* ... even if the call fails.
LEMMA EndAnywayStep ==
    ASSUME TypeOK, NEW s \in Session, EndAnyway(s)
    PROVE  \A r \in Session : Live(r)' => Live(r)
BY EndStep DEF EndAnyway, Live

\* A request other than one that creates leaves sessions alive only where they were.
LEMMA WorkEndsSessions ==
    ASSUME TypeOK, NEW w \in Worker,
           \/ FindActiveByUser(w) \/ GetExisting(w) \/ DeleteExisting(w)
           \/ RemoveReplaced(w) \/ CheckQuota(w) \/ (\E s \in Session : PutSteps(w, s))
           \/ Route(w) \/ UndoSteps(w) \/ DeleteOwn(w) \/ TerminateFound(w)
           \/ RemoveSteps(w) \/ Release(w)
           \/ (\E u \in User : Acquire(w, u) \/ TerminateUserSession(w, u))
           \/ (\E s \in Session : DeleteSession(w, s))
    PROVE  at' = at /\ \A s \in Session : Live(s)' => Live(s)
<1>1. at' = at
  BY DEF FindActiveByUser, GetExisting, DeleteExisting, RemoveReplaced, CheckQuota,
     PutSteps, Route, UndoSteps, DeleteOwn, TerminateFound, RemoveSteps, Release, Acquire,
     TerminateUserSession, DeleteSession, provider
<1>2. \A s \in Session : Live(s)' => Live(s)
  <2>1. CASE UNCHANGED state
    BY <2>1 DEF Live
  <2>2. CASE \E s \in Session : EndAnyway(s)
    BY <2>2, EndAnywayStep
  <2>3. CASE DeleteExisting(w) \/ DeleteOwn(w) \/ TerminateFound(w)
    <3>1. job[w].sid \in Session
      BY <2>3, JobFields DEF TypeOK, DeleteExisting, DeleteOwn, TerminateFound, Busy, Replacing
    <3>2. QED
      BY <2>1, <2>2, <2>3, <3>1 DEF DeleteExisting, DeleteOwn, TerminateFound, EndAnyway
  <2>4. QED
    BY <2>1, <2>2, <2>3
    DEF FindActiveByUser, GetExisting, RemoveReplaced, CheckQuota, PutSteps, Route,
        UndoSteps, RemoveSteps, Release, Acquire, TerminateUserSession, DeleteSession,
        provider
<1>3. QED
  BY <1>1, <1>2

\* So do the reaper, the environment and a restart.
LEMMA WorldEndsSessions ==
    ASSUME TypeOK,
           \/ Reap \/ Restart \/ UNCHANGED vars
           \/ \E u \in User : ExpireLock(u)
           \/ \E s \in Session : VMChanges(s) \/ TimePasses(s) \/ CompleteLab(s)
    PROVE  at' = at /\ \A s \in Session : Live(s)' => Live(s)
<1>1. at' = at
  BY DEF Reap, StartReap, ReapList, ReapCheck, ReapDelete, ReapNext, ReapFinish,
     VMChanges, TimePasses, CompleteLab, ExpireLock, Restart, provider, vars
<1>2. \A s \in Session : Live(s)' => Live(s)
  <2>1. CASE UNCHANGED state
    BY <2>1 DEF Live
  <2>2. CASE ReapDelete
    BY <2>1, <2>2, EndAnywayStep DEF ReapDelete, EndAnyway, TypeOK
  <2>3. ASSUME NEW s \in Session, VMChanges(s)
        PROVE  \A r \in Session : Live(r)' => Live(r)
    BY <2>3 DEF VMChanges, Live, TypeOK
  <2>4. QED
    BY <2>1, <2>2, <2>3
    DEF Reap, StartReap, ReapList, ReapCheck, ReapNext, ReapFinish, TimePasses,
        CompleteLab, ExpireLock, Restart, provider, vars
<1>3. QED
  BY <1>1, <1>2

\* The steps of a request that neither check the quota nor create.
LEMMA CountWork ==
    ASSUME TypeOK, RequestsAreCounted, NEW w \in Worker,
           \/ FindActiveByUser(w) \/ GetExisting(w) \/ DeleteExisting(w)
           \/ RemoveReplaced(w) \/ (\E s \in Session : PutSteps(w, s)) \/ Route(w)
           \/ UndoSteps(w) \/ DeleteOwn(w) \/ TerminateFound(w)
           \/ RemoveSteps(w) \/ Release(w)
           \/ (\E u \in User : Acquire(w, u) \/ TerminateUserSession(w, u))
           \/ (\E s \in Session : DeleteSession(w, s))
    PROVE  RequestsAreCounted'
<1>1. PICK j : Become(w, j) /\ (j.pc \in {"put", "route", "create"} => w \in Pending)
  <2>1. CASE FindActiveByUser(w)
    <3>1. PICK s : \/ Become(w, [pc |-> "release", user |-> job[w].user])
                   \/ Become(w, [pc |-> "quota", user |-> job[w].user])
                   \/ Become(w, [pc |-> "get", user |-> job[w].user, sid |-> s])
      BY <2>1 DEF FindActiveByUser, CallFails, Return, Goto, GotoWith
    <3>2. QED
      BY <3>1
  <2>2. CASE GetExisting(w)
    BY <2>2 DEF GetExisting, CallFails, Return, Goto, GotoWith
  <2>3. CASE DeleteExisting(w)
    BY <2>3 DEF DeleteExisting, CallFails, Return, Goto, GotoWith
  <2>4. CASE RemoveReplaced(w) \/ UndoSteps(w)
    BY <2>4 DEF RemoveReplaced, UndoSteps, Return, Goto
  <2>5. CASE (\E s \in Session : PutSteps(w, s)) \/ Route(w)
    <3>1. w \in Pending
      BY <2>5 DEF PutSteps, Route, Busy, Pending
    <3>2. \E j : Become(w, j)
      BY <2>5 DEF PutSteps, Route, Return, Goto, GotoWith
    <3>3. QED
      BY <3>1, <3>2
  <2>6. CASE DeleteOwn(w) \/ TerminateFound(w) \/ RemoveSteps(w) \/ Release(w)
    BY <2>6 DEF DeleteOwn, TerminateFound, RemoveSteps, Release, Idle
  <2>7. CASE \E u \in User : Acquire(w, u) \/ TerminateUserSession(w, u)
    <3>1. PICK x : \/ Become(w, [pc |-> "find", user |-> x])
                   \/ Become(w, [pc |-> "terminate", sid |-> x])
      BY <2>7 DEF Acquire, TerminateUserSession
    <3>2. QED
      BY <3>1
  <2>8. CASE \E s \in Session : DeleteSession(w, s)
    BY <2>8 DEF DeleteSession
  <2>9. QED
    BY <2>1, <2>2, <2>3, <2>4, <2>5, <2>6, <2>7, <2>8
<1>2. at' = at /\ \A s \in Session : Live(s)' => Live(s)
  BY WorkEndsSessions
<1>3. QED
  BY <1>1, <1>2, PendingFalls, ActiveFalls, CountFalls

\* CheckQuota: the request is counted from here on.
LEMMA CountQuota ==
    ASSUME TypeOK, RequestsAreCounted, NEW w \in Worker, CheckQuota(w)
    PROVE  RequestsAreCounted'
<1>1. Active' = Active
  BY DEF CheckQuota, provider, Active, Live
<1>2. CASE Return(w)
  <2>1. Pending' \subseteq Pending
    BY <1>2, PendingFalls DEF Return, Goto
  <2>2. QED
    BY <1>1, <2>1, CountFalls
<1>3. CASE Goto(w, "put") /\ ~(Capacity > 0 /\ Cardinality(Active) >= Capacity)
  <2>1. Pending' \subseteq Worker
    BY DEF Pending
  <2>2. Capacity > 0 => Cardinality(Active) < Capacity
    BY <1>3, CountsAreNumbers, CapacityIsNat
  <2>3. QED
    BY <1>1, <2>1, <2>2, CountChecked
<1>4. QED
  BY <1>2, <1>3 DEF CheckQuota, CallFails

\* The steps of Create: which one, and what becomes of the request and its session.
LEMMA CreateStep ==
    ASSUME TypeOK, NEW w \in Worker, Create(w)
    PROVE  /\ job[w].sid \in Session
           /\ \/ Become(w, [pc |-> "release", user |-> job[w].user])
              \/ Become(w, [pc |-> "undo", user |-> job[w].user, sid |-> job[w].sid])
              \/ Become(w, [pc |-> "vm", user |-> job[w].user, sid |-> job[w].sid])
           /\ \A r \in Session \ {job[w].sid} : state'[r] = state[r] /\ at'[r] = at[r]
<1>1. job[w].sid \in Session
  BY JobFields DEF TypeOK, Create, CreateNamespace, CreateVM, CreateOverflow, Busy
<1>2. \/ Become(w, [pc |-> "release", user |-> job[w].user])
      \/ Become(w, [pc |-> "undo", user |-> job[w].user, sid |-> job[w].sid])
      \/ Become(w, [pc |-> "vm", user |-> job[w].user, sid |-> job[w].sid])
  BY DEF Create, CreateNamespace, CreateVM, CreateOverflow, Return, Goto, GotoWith
<1>3. \A r \in Session \ {job[w].sid} : state'[r] = state[r] /\ at'[r] = at[r]
  BY <1>1 DEF Create, CreateNamespace, CreateVM, CreateOverflow, Leave, Boot, TypeOK,
     provider
<1>4. QED
  BY <1>1, <1>2, <1>3

\* CreateVM fills a namespace that counts already.
LEMMA VMStep ==
    ASSUME TypeOK, NEW w \in Worker, CreateVM(w)
    PROVE  /\ job[w].pc = "vm" /\ at' = at
           /\ \A s \in Session : Live(s)' => Live(s)
BY DEF TypeOK, CreateVM, Busy, Boot, Live

\* Create: whatever it leaves, the request is no longer under way.
LEMMA CountCreate ==
    ASSUME TypeOK, RequestsAreCounted, NEW w \in Worker, Create(w)
    PROVE  RequestsAreCounted'
<1>1. Pending' \subseteq Pending \ {w}
  BY CreateStep DEF TypeOK, Become, Pending
<1>2. CASE CreateVM(w)
  BY <1>1, <1>2, VMStep, ActiveFalls, CountFalls
<1>3. CASE ~CreateVM(w)
  <2>1. w \in Pending
    BY <1>3 DEF Create, CreateNamespace, CreateOverflow, Busy, Pending
  <2>2. Active' \subseteq Active \cup {job[w].sid}
    BY CreateStep DEF Active, Live
  <2>3. QED
    BY <1>1, <2>1, <2>2, CountMoves
<1>4. QED
  BY <1>2, <1>3

\* The reaper and the environment end sessions; a restart forgets the requests.
LEMMA CountEnvironment ==
    ASSUME TypeOK, RequestsAreCounted,
           \/ Reap \/ Restart \/ UNCHANGED vars
           \/ \E u \in User : ExpireLock(u)
           \/ \E s \in Session : VMChanges(s) \/ TimePasses(s) \/ CompleteLab(s)
    PROVE  RequestsAreCounted'
<1>1. Pending' \subseteq Pending
  <2>1. CASE UNCHANGED job
    BY <2>1 DEF Pending
  <2>2. CASE Restart
    BY <2>2 DEF Restart, Pending, Idle
  <2>3. QED
    BY <2>1, <2>2
    DEF Reap, StartReap, ReapList, ReapCheck, ReapDelete, ReapNext, ReapFinish,
        VMChanges, TimePasses, CompleteLab, ExpireLock, vars
<1>2. at' = at /\ \A s \in Session : Live(s)' => Live(s)
  BY WorldEndsSessions
<1>3. QED
  BY <1>1, <1>2, ActiveFalls, CountFalls

\* Create checks the quota long before the session exists; still, the sessions
\* never exceed the capacity by as many as there are requests at a time.
THEOREM QuotaOverrun == Spec => []QuotaOverrunIsBounded
<1>1. Init => RequestsAreCounted
  <2>1. ASSUME Init
        PROVE  Active = {} /\ Pending = {}
    BY <2>1 DEF Init, Active, Live, Pending, Idle
  <2>2. Cardinality({}) = 0
    BY FS_EmptySet
  <2>3. QED
    BY <2>1, <2>2, CountsAreNumbers, CapacityIsNat DEF RequestsAreCounted
<1>2. TypeOK /\ RequestsAreCounted /\ [Next]_vars => RequestsAreCounted'
  <2>1. SUFFICES ASSUME TypeOK, RequestsAreCounted, [Next]_vars
                 PROVE  RequestsAreCounted'
    OBVIOUS
  <2>2. QED
    BY <2>1, CountWork, CountQuota, CountCreate, CountEnvironment DEF Next, Work
<1>3. RequestsAreCounted => QuotaOverrunIsBounded
  BY CountsAreNumbers, CapacityIsNat DEF RequestsAreCounted, QuotaOverrunIsBounded
<1>4. QED
  BY <1>1, <1>2, <1>3, AdmissionTypeCorrect, PTL DEF Spec

-----------------------------------------------------------------------------
(* The on-prem limit.                                                      *)

\* On-prem sessions and the requests routed there are finitely many.
LEMMA OnpremCountsAreNumbers ==
    /\ IsFiniteSet(ActiveAt("onprem")) /\ Cardinality(ActiveAt("onprem")) \in Nat
    /\ IsFiniteSet(Routed) /\ Cardinality(Routed) \in Nat
    /\ OnpremCap \in Nat
<1>1. ActiveAt("onprem") \subseteq Session /\ Routed \subseteq Worker
  BY DEF ActiveAt, Active, Routed
<1>2. IsFiniteSet(ActiveAt("onprem")) /\ IsFiniteSet(Routed)
  BY <1>1, AdmissionAssumption, FS_Subset
<1>3. QED
  BY <1>2, AdmissionAssumption, FS_CardinalityType

\* Fewer sessions on-prem and fewer requests routed there.
LEMMA OnpremFalls ==
    ASSUME RoutedAreCounted, ActiveAt("onprem")' \subseteq ActiveAt("onprem"),
           Routed' \subseteq Routed
    PROVE  RoutedAreCounted'
<1>1. /\ IsFiniteSet(ActiveAt("onprem")') /\ IsFiniteSet(Routed')
      /\ Cardinality(ActiveAt("onprem")') <= Cardinality(ActiveAt("onprem"))
      /\ Cardinality(Routed') <= Cardinality(Routed)
  BY OnpremCountsAreNumbers, FS_Subset
<1>2. Cardinality(ActiveAt("onprem")') \in Nat /\ Cardinality(Routed') \in Nat
  BY <1>1, FS_CardinalityType
<1>3. CASE OnpremCap = 0
  BY <1>3 DEF RoutedAreCounted
<1>4. CASE OnpremCap # 0
  BY <1>1, <1>2, <1>4, OnpremCountsAreNumbers, CountsAreNumbers DEF RoutedAreCounted
<1>5. QED
  BY <1>3, <1>4

\* A request that was routed on-prem becomes the session that it created.
LEMMA OnpremMoves ==
    ASSUME RoutedAreCounted, NEW w \in Routed, NEW s,
           ActiveAt("onprem")' \subseteq ActiveAt("onprem") \cup {s},
           Routed' \subseteq Routed \ {w}
    PROVE  RoutedAreCounted'
<1>1. /\ IsFiniteSet(ActiveAt("onprem") \cup {s})
      /\ Cardinality(ActiveAt("onprem") \cup {s}) <= Cardinality(ActiveAt("onprem")) + 1
  BY OnpremCountsAreNumbers, AtMostOneMore
<1>2. /\ IsFiniteSet(Routed \ {w})
      /\ Cardinality(Routed \ {w}) = Cardinality(Routed) - 1
  BY OnpremCountsAreNumbers, OneLess
<1>3. /\ IsFiniteSet(ActiveAt("onprem")') /\ IsFiniteSet(Routed')
      /\ Cardinality(ActiveAt("onprem")') <= Cardinality(ActiveAt("onprem") \cup {s})
      /\ Cardinality(Routed') <= Cardinality(Routed \ {w})
  BY <1>1, <1>2, FS_Subset
<1>4. /\ Cardinality(ActiveAt("onprem")') \in Nat /\ Cardinality(Routed') \in Nat
      /\ Cardinality(ActiveAt("onprem") \cup {s}) \in Nat
  BY <1>1, <1>3, FS_CardinalityType
<1>5. HasOverflow => OnpremCap # 0
  BY DEF RoutedAreCounted
<1>6. QED
  BY <1>1, <1>2, <1>3, <1>4, <1>5, OnpremCountsAreNumbers, CountsAreNumbers
  DEF RoutedAreCounted

\* A request that finds room on-prem is routed there.
LEMMA OnpremChecked ==
    ASSUME ActiveAt("onprem")' = ActiveAt("onprem"), Routed' \subseteq Worker,
           HasOverflow => Cardinality(ActiveAt("onprem")) < OnpremCap
    PROVE  RoutedAreCounted'
<1>1. IsFiniteSet(Routed') /\ Cardinality(Routed') <= Cardinality(Worker)
  BY AdmissionAssumption, FS_Subset
<1>2. Cardinality(Routed') \in Nat
  BY <1>1, FS_CardinalityType
<1>3. HasOverflow => OnpremCap # 0
  BY OnpremCountsAreNumbers
<1>4. QED
  BY <1>1, <1>2, <1>3, OnpremCountsAreNumbers, CountsAreNumbers DEF RoutedAreCounted

\* A request that is not routed on-prem by its step.
LEMMA RoutedFalls ==
    ASSUME TypeOK, NEW w \in Worker, NEW j, Become(w, j),
           ~(j.pc = "create" /\ j.to = "onprem")
    PROVE  Routed' \subseteq Routed
BY DEF TypeOK, Become, Routed

\* Sessions stay where they are.
LEMMA OnpremActiveFalls ==
    ASSUME \A s \in Session : Live(s)' => Live(s), at' = at
    PROVE  ActiveAt("onprem")' \subseteq ActiveAt("onprem")
BY DEF ActiveAt, Active

\* The steps of a request that neither route nor create.
LEMMA OnpremWork ==
    ASSUME TypeOK, RoutedAreCounted, NEW w \in Worker,
           \/ FindActiveByUser(w) \/ GetExisting(w) \/ DeleteExisting(w)
           \/ RemoveReplaced(w) \/ CheckQuota(w) \/ (\E s \in Session : PutSteps(w, s))
           \/ UndoSteps(w) \/ DeleteOwn(w) \/ TerminateFound(w)
           \/ RemoveSteps(w) \/ Release(w)
           \/ (\E u \in User : Acquire(w, u) \/ TerminateUserSession(w, u))
           \/ (\E s \in Session : DeleteSession(w, s))
    PROVE  RoutedAreCounted'
<1>1. PICK j : Become(w, j) /\ j.pc # "create"
  <2>1. CASE FindActiveByUser(w)
    <3>1. PICK s : \/ Become(w, [pc |-> "release", user |-> job[w].user])
                   \/ Become(w, [pc |-> "quota", user |-> job[w].user])
                   \/ Become(w, [pc |-> "get", user |-> job[w].user, sid |-> s])
      BY <2>1 DEF FindActiveByUser, CallFails, Return, Goto, GotoWith
    <3>2. QED
      BY <3>1
  <2>2. CASE GetExisting(w)
    BY <2>2 DEF GetExisting, CallFails, Return, Goto, GotoWith
  <2>3. CASE DeleteExisting(w)
    BY <2>3 DEF DeleteExisting, CallFails, Return, Goto, GotoWith
  <2>4. CASE RemoveReplaced(w) \/ UndoSteps(w)
    BY <2>4 DEF RemoveReplaced, UndoSteps, Return, Goto
  <2>5. CASE CheckQuota(w)
    BY <2>5 DEF CheckQuota, CallFails, Return, Goto
  <2>6. ASSUME NEW s \in Session, PutSteps(w, s)
        PROVE  \E j : Become(w, j) /\ j.pc # "create"
    BY <2>6 DEF PutSteps, Return, Goto, GotoWith
  <2>7. CASE DeleteOwn(w) \/ TerminateFound(w) \/ RemoveSteps(w) \/ Release(w)
    BY <2>7 DEF DeleteOwn, TerminateFound, RemoveSteps, Release, Idle
  <2>8. CASE \E u \in User : Acquire(w, u) \/ TerminateUserSession(w, u)
    <3>1. PICK x : \/ Become(w, [pc |-> "find", user |-> x])
                   \/ Become(w, [pc |-> "terminate", sid |-> x])
      BY <2>8 DEF Acquire, TerminateUserSession
    <3>2. QED
      BY <3>1
  <2>9. CASE \E s \in Session : DeleteSession(w, s)
    BY <2>9 DEF DeleteSession
  <2>10. QED
    BY <2>1, <2>2, <2>3, <2>4, <2>5, <2>6, <2>7, <2>8, <2>9
<1>2. at' = at /\ \A s \in Session : Live(s)' => Live(s)
  BY WorkEndsSessions
<1>3. QED
  BY <1>1, <1>2, RoutedFalls, OnpremActiveFalls, OnpremFalls

\* Dispatcher.Create: on-prem only below the limit.
LEMMA OnpremRoute ==
    ASSUME TypeOK, RoutedAreCounted, NEW w \in Worker, Route(w)
    PROVE  RoutedAreCounted'
<1>1. ActiveAt("onprem")' = ActiveAt("onprem")
  BY DEF Route, provider, ActiveAt, Active, Live
<1>2. CASE ~HasOverflow \/ Cardinality(ActiveAt("onprem")) < OnpremCap
  <2>1. Routed' \subseteq Worker
    BY DEF Routed
  <2>2. QED
    BY <1>1, <1>2, <2>1, OnpremChecked
<1>3. CASE ~(~HasOverflow \/ Cardinality(ActiveAt("onprem")) < OnpremCap)
  <2>1. \/ Become(w, [pc |-> "undo", user |-> job[w].user, sid |-> job[w].sid])
        \/ Become(w, [pc |-> "create", user |-> job[w].user, sid |-> job[w].sid,
                      to |-> "overflow"])
    BY <1>3 DEF Route, GotoWith
  <2>2. Routed' \subseteq Routed
    BY <2>1, RoutedFalls
  <2>3. QED
    BY <1>1, <2>2, OnpremFalls
<1>4. QED
  BY <1>2, <1>3

\* Create: the session is where the request was routed.
LEMMA OnpremCreate ==
    ASSUME TypeOK, RoutedAreCounted, NEW w \in Worker, Create(w)
    PROVE  RoutedAreCounted'
<1>1. PICK s \in Session : s = job[w].sid
  BY CreateStep
<1>2. Routed' \subseteq Routed \ {w}
  BY CreateStep DEF TypeOK, Become, Routed
<1>3. CASE CreateNamespace(w)
  <2>1. w \in Routed
    BY <1>3 DEF CreateNamespace, Busy, Routed
  <2>2. ActiveAt("onprem")' \subseteq ActiveAt("onprem") \cup {s}
    BY <1>1, CreateStep DEF ActiveAt, Active, Live
  <2>3. QED
    BY <1>2, <2>1, <2>2, OnpremMoves
<1>4. CASE CreateVM(w)
  BY <1>2, <1>4, VMStep, OnpremActiveFalls, OnpremFalls
<1>5. CASE CreateOverflow(w)
  <2>1. at'[s] # "onprem" \/ (at'[s] = at[s] /\ state'[s] = state[s])
    BY <1>1, <1>5 DEF CreateOverflow, Leave, TypeOK, provider
  <2>2. ActiveAt("onprem")' \subseteq ActiveAt("onprem")
    BY <1>1, <2>1, CreateStep DEF ActiveAt, Active, Live
  <2>3. QED
    BY <1>2, <2>2, OnpremFalls
<1>6. QED
  BY <1>3, <1>4, <1>5 DEF Create

\* The reaper and the environment end sessions; a restart forgets the requests.
LEMMA OnpremEnvironment ==
    ASSUME TypeOK, RoutedAreCounted,
           \/ Reap \/ Restart \/ UNCHANGED vars
           \/ \E u \in User : ExpireLock(u)
           \/ \E s \in Session : VMChanges(s) \/ TimePasses(s) \/ CompleteLab(s)
    PROVE  RoutedAreCounted'
<1>1. Routed' \subseteq Routed
  <2>1. CASE UNCHANGED job
    BY <2>1 DEF Routed
  <2>2. CASE Restart
    BY <2>2 DEF Restart, Routed, Idle
  <2>3. QED
    BY <2>1, <2>2
    DEF Reap, StartReap, ReapList, ReapCheck, ReapDelete, ReapNext, ReapFinish,
        VMChanges, TimePasses, CompleteLab, ExpireLock, vars
<1>2. at' = at /\ \A s \in Session : Live(s)' => Live(s)
  BY WorldEndsSessions
<1>3. QED
  BY <1>1, <1>2, OnpremActiveFalls, OnpremFalls

\* Dispatcher.Create counts before the provider creates; still, the cluster's
\* limit is never exceeded by as many sessions as there are requests at a time,
\* and with a limit of 0 every session goes to the overflow.
THEOREM OnpremOverrun == Spec => []OnpremOverrunIsBounded
<1>1. Init => RoutedAreCounted
  <2>1. ASSUME Init
        PROVE  ActiveAt("onprem") = {} /\ Routed = {}
    BY <2>1 DEF Init, ActiveAt, Active, Live, Routed, Idle
  <2>2. Cardinality({}) = 0
    BY FS_EmptySet
  <2>3. QED
    BY <2>1, <2>2, CountsAreNumbers, OnpremCountsAreNumbers DEF RoutedAreCounted
<1>2. TypeOK /\ RoutedAreCounted /\ [Next]_vars => RoutedAreCounted'
  <2>1. SUFFICES ASSUME TypeOK, RoutedAreCounted, [Next]_vars
                 PROVE  RoutedAreCounted'
    OBVIOUS
  <2>2. QED
    BY <2>1, OnpremWork, OnpremRoute, OnpremCreate, OnpremEnvironment DEF Next, Work
<1>3. RoutedAreCounted => OnpremOverrunIsBounded
  BY CountsAreNumbers, OnpremCountsAreNumbers
  DEF RoutedAreCounted, OnpremOverrunIsBounded
<1>4. QED
  BY <1>1, <1>2, <1>3, AdmissionTypeCorrect, PTL DEF Spec

-----------------------------------------------------------------------------
(* Progress.                                                               *)

\* No session is created or comes back.
SessionsAge ==
    \A s \in Session :
        /\ state'[s] = "none" <=> state[s] = "none"
        /\ state[s] = "ended" => state'[s] = "ended"

\* Ending a session that was created.
LEMMA EndAges ==
    ASSUME TypeOK, NEW s \in Session, state[s] # "none", End(s)
    PROVE  SessionsAge /\ state'[s] = "ended"
<1>1. Live(s) \/ state[s] = "ended"
  BY DEF TypeOK, Live
<1>2. CASE Live(s)
  BY <1>2 DEF End, Live, SessionsAge, TypeOK
<1>3. CASE ~Live(s)
  BY <1>1, <1>3 DEF End, SessionsAge, TypeOK
<1>4. QED
  BY <1>2, <1>3

\* ... even if the call fails.
LEMMA EndAnywayAges ==
    ASSUME TypeOK, NEW s \in Session, state[s] # "none", EndAnyway(s)
    PROVE  SessionsAge
BY EndAges DEF EndAnyway, SessionsAge

\* A request moves on, and nothing is created.
LEMMA RequestAges ==
    ASSUME ProgressInv, TypeOK', NEW w \in Worker, NEW j, Become(w, j),
           reaper' = reaper, SessionsAge,
           \A s \in steps : \/ s \in steps' \/ state[s] # "none"
                            \/ s = job[w].sid /\ job[w].pc \in Making /\ j.pc \notin Making,
           j.pc \in Making => job[w].pc \in Making /\ j.sid = job[w].sid,
           j.pc \in {"route", "create"} => state[j.sid] = "none" /\ j.sid \in Session,
           j.pc \in Replacing \cup {"vm", "discard", "terminate"} =>
               state[j.sid] # "none" /\ j.sid \in Session,
           j.pc \in {"cleanup", "remove"} => state'[j.sid] = "ended"
    PROVE  ProgressInv'
<1>1. job'[w] = j /\ \A v \in Worker \ {w} : job'[v] = job[v]
  BY DEF ProgressInv, TypeOK, Become
<1>2. \A v \in Worker :
        job[v].pc \in Making \cup Replacing \cup {"vm", "discard", "terminate", "cleanup", "remove"}
            => job[v].sid \in Session
  BY JobFields DEF ProgressInv, TypeOK, Making, Replacing
<1>3. reaper.todo \subseteq Session /\ reaper.reaped \subseteq Session
      /\ (reaper.pc = "delete" => reaper.sid \in Session)
  BY DEF ProgressInv, TypeOK, Reaper
<1>4. \A v \in Worker : job'[v].pc \in Making =>
        job[v].pc \in Making /\ job'[v].sid = job[v].sid
  BY <1>1
<1>5. \A u, v \in Worker : job'[u].pc \in Making /\ job'[v].pc \in Making =>
        (job'[u].sid = job'[v].sid => u = v)
  BY <1>4 DEF ProgressInv, MadeOnce
<1>6. \A v \in Worker : job'[v].pc \in Making =>
        job'[v].sid \in steps' \/ state'[job'[v].sid] # "none"
  <2>1. SUFFICES ASSUME NEW v \in Worker, job'[v].pc \in Making
                 PROVE  job'[v].sid \in steps' \/ state'[job'[v].sid] # "none"
    OBVIOUS
  <2>2. /\ job[v].pc \in Making /\ job'[v].sid = job[v].sid /\ job[v].sid \in Session
        /\ job[v].sid \in steps \/ state[job[v].sid] # "none"
    BY <1>2, <1>4, <2>1 DEF ProgressInv, MadeOnce
  <2>3. ~(job[v].sid = job[w].sid /\ job[w].pc \in Making /\ j.pc \notin Making)
    BY <1>1, <2>1, <2>2 DEF ProgressInv, MadeOnce
  <2>4. QED
    BY <2>2, <2>3 DEF SessionsAge
<1>7. \A v \in Worker : job'[v].pc \in {"route", "create"} => state'[job'[v].sid] = "none"
  <2>1. \A v \in Worker : job[v].pc \in {"route", "create"} =>
          job[v].sid \in Session /\ state[job[v].sid] = "none"
    BY <1>2 DEF ProgressInv, MadeOnce, Making
  <2>2. QED
    BY <1>1, <2>1 DEF SessionsAge
<1>8. MadeOnce'
  BY <1>5, <1>6, <1>7 DEF MadeOnce
<1>9. FoundWasMade'
  BY <1>1, <1>2, <1>3 DEF ProgressInv, FoundWasMade, SessionsAge
<1>10. ForgottenHasEnded'
  BY <1>1, <1>2, <1>3 DEF ProgressInv, ForgottenHasEnded, SessionsAge
<1>11. QED
  BY <1>8, <1>9, <1>10 DEF ProgressInv

\* The steps of a request that leave sessions and progress alone.
LEMMA ProgressQuiet ==
    ASSUME ProgressInv, TypeOK', NEW w \in Worker,
           \/ FindActiveByUser(w) \/ GetExisting(w) \/ CheckQuota(w) \/ Route(w)
           \/ Release(w)
           \/ (\E u \in User : Acquire(w, u) \/ TerminateUserSession(w, u))
           \/ (\E s \in Session : DeleteSession(w, s))
    PROVE  ProgressInv'
<1>1. UNCHANGED <<state, steps, reaper>>
  BY DEF FindActiveByUser, GetExisting, CheckQuota, Route, Release, Acquire,
     TerminateUserSession, DeleteSession, provider
<1>2. SessionsAge
  BY <1>1 DEF SessionsAge
<1>3. \A u : FindActive(u) \subseteq {s \in Session : state[s] # "none"}
  BY DEF FindActive, ActiveOn, Live
<1>4. ASSUME NEW j, Become(w, j), j.pc \in {"idle", "find", "quota", "put", "release"}
      PROVE  ProgressInv'
  BY <1>1, <1>2, <1>4, RequestAges DEF Making, Replacing
<1>5. ASSUME NEW s \in Session, NEW j, Become(w, j), j.sid = s, state[s] # "none",
             j.pc \in {"get", "delete", "discard", "terminate"}
      PROVE  ProgressInv'
  BY <1>1, <1>2, <1>5, RequestAges DEF Making, Replacing
<1>6. CASE FindActiveByUser(w)
  <2>1. \/ Become(w, [pc |-> "release", user |-> job[w].user])
        \/ Become(w, [pc |-> "quota", user |-> job[w].user])
        \/ \E s \in FindActive(job[w].user) :
              Become(w, [pc |-> "get", user |-> job[w].user, sid |-> s])
    BY <1>6 DEF FindActiveByUser, CallFails, Return, Goto, GotoWith
  <2>2. QED
    BY <1>3, <1>4, <1>5, <2>1
<1>7. CASE GetExisting(w)
  <2>1. job[w].sid \in Session /\ state[job[w].sid] # "none"
    BY <1>7, JobFields DEF GetExisting, Busy, ProgressInv, TypeOK, FoundWasMade, Replacing
  <2>2. \/ Become(w, [pc |-> "release", user |-> job[w].user])
        \/ Become(w, [pc |-> "delete", user |-> job[w].user, sid |-> job[w].sid])
        \/ /\ "gone" \in GetAnswers(job[w].sid)
           /\ Become(w, [pc |-> "cleanup", user |-> job[w].user, sid |-> job[w].sid])
    BY <1>7 DEF GetExisting, CallFails, Return, Goto, GotoWith
  <2>3. ASSUME "gone" \in GetAnswers(job[w].sid),
               NEW j, Become(w, j), j.sid = job[w].sid, j.pc = "cleanup"
        PROVE  ProgressInv'
    <3>1. ~Live(job[w].sid)
      BY <2>3 DEF GetAnswers, StatusOf
    <3>2. state[job[w].sid] = "ended"
      BY <2>1, <3>1 DEF Live, ProgressInv, TypeOK
    <3>3. QED
      BY <1>1, <1>2, <2>3, <3>2, RequestAges DEF Making, Replacing
  <2>4. QED
    BY <1>4, <1>5, <2>1, <2>2, <2>3
<1>8. CASE CheckQuota(w)
  <2>1. \/ Become(w, [pc |-> "release", user |-> job[w].user])
        \/ Become(w, [pc |-> "put", user |-> job[w].user])
    BY <1>8 DEF CheckQuota, CallFails, Return, Goto
  <2>2. QED
    BY <1>4, <2>1
<1>9. CASE Route(w)
  <2>1. job[w].pc = "route" /\ job[w].sid \in Session /\ state[job[w].sid] = "none"
    BY <1>9, JobFields DEF Route, Busy, ProgressInv, TypeOK, MadeOnce
  <2>2. PICK j : Become(w, j) /\ j.pc \in {"undo", "create"} /\ j.sid = job[w].sid
    <3>1. PICK p : \/ Become(w, [pc |-> "undo", user |-> job[w].user, sid |-> job[w].sid])
                   \/ Become(w, [pc |-> "create", user |-> job[w].user,
                                 sid |-> job[w].sid, to |-> p])
      BY <1>9 DEF Route, GotoWith
    <3>2. QED
      BY <3>1
  <2>3. QED
    BY <1>1, <1>2, <2>1, <2>2, RequestAges DEF Making, Replacing
<1>10. CASE Release(w)
  BY <1>4, <1>10 DEF Release, Idle
<1>11. ASSUME NEW u \in User, Acquire(w, u) \/ TerminateUserSession(w, u)
       PROVE  ProgressInv'
  <2>1. \/ Become(w, [pc |-> "find", user |-> u])
        \/ \E s \in FindActive(u) : Become(w, [pc |-> "terminate", sid |-> s])
    BY <1>11 DEF Acquire, TerminateUserSession
  <2>2. QED
    BY <1>3, <1>4, <1>5, <2>1
<1>12. ASSUME NEW s \in Session, DeleteSession(w, s)
       PROVE  ProgressInv'
  BY <1>5, <1>12 DEF DeleteSession, Live
<1>13. QED
  BY <1>6, <1>7, <1>8, <1>9, <1>10, <1>11, <1>12

\* The steps of a request that end a session.
LEMMA ProgressEnds ==
    ASSUME ProgressInv, TypeOK', NEW w \in Worker,
           DeleteExisting(w) \/ DeleteOwn(w) \/ TerminateFound(w)
    PROVE  ProgressInv'
<1> DEFINE s == job[w].sid
<1>1. UNCHANGED <<steps, reaper>>
  BY DEF DeleteExisting, DeleteOwn, TerminateFound
<1>2. s \in Session /\ state[s] # "none"
  BY JobFields DEF DeleteExisting, DeleteOwn, TerminateFound, Busy, ProgressInv, TypeOK,
     FoundWasMade, Replacing
<1>3. ASSUME End(s), NEW j, Become(w, j), j.sid = s, j.pc \in {"cleanup", "remove"}
      PROVE  ProgressInv'
  <2>1. SessionsAge /\ state'[s] = "ended"
    BY <1>2, <1>3, EndAges DEF ProgressInv
  <2>2. QED
    BY <1>1, <1>3, <2>1, RequestAges DEF Making, Replacing
<1>4. ASSUME EndAnyway(s), NEW j, Become(w, j), j.pc \in {"idle", "release"}
      PROVE  ProgressInv'
  <2>1. SessionsAge
    BY <1>2, <1>4, EndAnywayAges DEF ProgressInv
  <2>2. QED
    BY <1>1, <1>4, <2>1, RequestAges DEF Making, Replacing
<1>5. CASE DeleteExisting(w)
  <2>1. \/ /\ EndAnyway(s)
           /\ Become(w, [pc |-> "release", user |-> job[w].user])
        \/ /\ End(s)
           /\ Become(w, [pc |-> "cleanup", user |-> job[w].user, sid |-> s])
    BY <1>5 DEF DeleteExisting, CallFails, Return, Goto, GotoWith, EndAnyway
  <2>2. QED
    BY <1>3, <1>4, <2>1
<1>6. CASE DeleteOwn(w) \/ TerminateFound(w)
  <2>1. \/ EndAnyway(s) /\ Become(w, Idle)
        \/ End(s) /\ Become(w, [pc |-> "remove", sid |-> s])
    BY <1>6 DEF DeleteOwn, TerminateFound, EndAnyway
  <2>2. QED
    BY <1>3, <1>4, <2>1 DEF Idle
<1>7. QED
  BY <1>5, <1>6

\* The steps of a request that remove progress.
LEMMA ProgressRemoved ==
    ASSUME ProgressInv, TypeOK', NEW w \in Worker,
           RemoveReplaced(w) \/ RemoveSteps(w) \/ UndoSteps(w)
    PROVE  ProgressInv'
<1>1. UNCHANGED <<state, reaper>> /\ steps' = steps \ {job[w].sid}
  BY DEF RemoveReplaced, RemoveSteps, UndoSteps, provider
<1>2. SessionsAge
  BY <1>1 DEF SessionsAge
<1>3. PICK j : Become(w, j) /\ j.pc \in {"quota", "idle", "release"}
  BY DEF RemoveReplaced, RemoveSteps, UndoSteps, Return, Goto, Idle
<1>4. state[job[w].sid] # "none" \/ job[w].pc \in Making
  BY DEF RemoveReplaced, RemoveSteps, UndoSteps, Busy, ProgressInv, ForgottenHasEnded,
     Making
<1>5. QED
  BY <1>1, <1>2, <1>3, <1>4, RequestAges DEF Making, Replacing

\* PutSteps: nobody else is making a session of this id.
LEMMA ProgressPut ==
    ASSUME ProgressInv, TypeOK', NEW w \in Worker, NEW s \in Session, PutSteps(w, s)
    PROVE  ProgressInv'
<1>1. UNCHANGED <<state, reaper>> /\ state[s] = "none" /\ s \notin steps
  BY DEF PutSteps, provider
<1>2. SessionsAge
  BY <1>1 DEF SessionsAge
<1>3. CASE Return(w) /\ UNCHANGED steps
  BY <1>1, <1>2, <1>3, RequestAges DEF Return, Goto, Making, Replacing
<1>4. CASE steps' = steps \cup {s} /\ GotoWith(w, "route", s)
  <2>1. /\ job'[w].pc = "route" /\ job'[w].sid = s
        /\ \A v \in Worker \ {w} : job'[v] = job[v]
    BY <1>4 DEF GotoWith, Become, ProgressInv, TypeOK
  <2>2. \A v \in Worker : job[v].pc \in Making => job[v].sid # s
    BY <1>1 DEF ProgressInv, MadeOnce
  <2>3. MadeOnce'
    <3>1. \A u, v \in Worker : job'[u].pc \in Making /\ job'[v].pc \in Making =>
            (job'[u].sid = job'[v].sid => u = v)
      BY <2>1, <2>2 DEF ProgressInv, MadeOnce
    <3>2. \A v \in Worker : job'[v].pc \in Making =>
            job'[v].sid \in steps' \/ state'[job'[v].sid] # "none"
      BY <1>1, <1>4, <2>1 DEF ProgressInv, MadeOnce
    <3>3. \A v \in Worker : job'[v].pc \in {"route", "create"} =>
            state'[job'[v].sid] = "none"
      BY <1>1, <2>1 DEF ProgressInv, MadeOnce
    <3>4. QED
      BY <3>1, <3>2, <3>3 DEF MadeOnce
  <2>4. FoundWasMade' /\ ForgottenHasEnded'
    BY <1>1, <2>1 DEF ProgressInv, FoundWasMade, ForgottenHasEnded, Replacing
  <2>5. QED
    BY <2>3, <2>4 DEF ProgressInv
<1>5. QED
  BY <1>3, <1>4 DEF PutSteps

\* Create: its session was in no one else's hands.
LEMMA ProgressCreate ==
    ASSUME ProgressInv, TypeOK', NEW w \in Worker,
           CreateNamespace(w) \/ CreateOverflow(w)
    PROVE  ProgressInv'
<1>1. PICK s \in Session : s = job[w].sid
  BY CreateStep DEF ProgressInv, Create
<1>2. /\ job[w].pc = "create" /\ state[s] = "none" /\ UNCHANGED <<steps, reaper>>
  BY <1>1 DEF CreateNamespace, CreateOverflow, Busy, ProgressInv, MadeOnce
<1>3. \A r \in Session \ {s} : state'[r] = state[r]
  BY <1>1, CreateStep DEF ProgressInv, Create
<1>4. /\ \A v \in Worker \ {w} : job'[v] = job[v]
      /\ \/ job'[w].pc = "release"
         \/ job'[w].pc = "undo" /\ job'[w].sid = s
         \/ job'[w].pc = "vm" /\ job'[w].sid = s /\ state'[s] # "none"
  <2>1. \/ Become(w, [pc |-> "release", user |-> job[w].user])
        \/ Become(w, [pc |-> "undo", user |-> job[w].user, sid |-> s])
        \/ /\ Become(w, [pc |-> "vm", user |-> job[w].user, sid |-> s])
           /\ state'[s] # "none"
    BY <1>1 DEF CreateNamespace, CreateOverflow, Leave, Return, Goto, GotoWith,
       ProgressInv, TypeOK
  <2>2. QED
    BY <2>1 DEF Become, ProgressInv, TypeOK
<1>5. \A v \in Worker :
        job[v].pc \in Making \cup Replacing \cup {"vm", "discard", "terminate", "cleanup", "remove"}
            => job[v].sid \in Session
  BY JobFields DEF ProgressInv, TypeOK, Making, Replacing
<1>6. \A v \in Worker \ {w} :
        job[v].pc \in Making \cup Replacing \cup {"vm", "discard", "terminate", "cleanup", "remove"}
            => job[v].sid \in Session \ {s}
  BY <1>1, <1>2, <1>5
  DEF ProgressInv, MadeOnce, FoundWasMade, ForgottenHasEnded, Making
<1>7. MadeOnce'
  <2>1. \A v \in Worker : job'[v].pc \in Making =>
          job[v].pc \in Making /\ job'[v].sid = job[v].sid
    BY <1>1, <1>2, <1>4 DEF Making
  <2>2. \A u, v \in Worker : job'[u].pc \in Making /\ job'[v].pc \in Making =>
          (job'[u].sid = job'[v].sid => u = v)
    BY <2>1 DEF ProgressInv, MadeOnce
  <2>3. s \in steps
    BY <1>1, <1>2 DEF ProgressInv, MadeOnce, Making
  <2>4. \A v \in Worker : job'[v].pc \in Making =>
          job'[v].sid \in steps' \/ state'[job'[v].sid] # "none"
    BY <1>1, <1>2, <1>3, <1>6, <2>1, <2>3 DEF ProgressInv, MadeOnce
  <2>5. \A v \in Worker : job'[v].pc \in {"route", "create"} =>
          state'[job'[v].sid] = "none"
    BY <1>3, <1>4, <1>6 DEF ProgressInv, MadeOnce, Making
  <2>6. QED
    BY <2>2, <2>4, <2>5 DEF MadeOnce
<1>8. reaper.todo \subseteq Session \ {s} /\ reaper.reaped \subseteq Session \ {s}
      /\ (reaper.pc = "delete" => reaper.sid \in Session \ {s})
  BY <1>2 DEF ProgressInv, TypeOK, Reaper, FoundWasMade, ForgottenHasEnded
<1>9. FoundWasMade'
  <2>1. \A v \in Worker : job'[v].pc \in Replacing \cup {"vm", "discard", "terminate"} =>
          state'[job'[v].sid] # "none"
    BY <1>3, <1>4, <1>6 DEF ProgressInv, FoundWasMade, Replacing
  <2>2. QED
    BY <1>2, <1>3, <1>8, <2>1 DEF ProgressInv, FoundWasMade
<1>10. ForgottenHasEnded'
  <2>1. \A v \in Worker : job'[v].pc \in {"cleanup", "remove"} =>
          state'[job'[v].sid] = "ended"
    BY <1>3, <1>4, <1>6 DEF ProgressInv, ForgottenHasEnded
  <2>2. QED
    BY <1>2, <1>3, <1>8, <2>1 DEF ProgressInv, ForgottenHasEnded
<1>11. QED
  BY <1>7, <1>9, <1>10 DEF ProgressInv

\* CreateVM: nothing is created that was not there.
LEMMA ProgressVM ==
    ASSUME ProgressInv, TypeOK', NEW w \in Worker, CreateVM(w)
    PROVE  ProgressInv'
<1>1. /\ job[w].pc = "vm" /\ job[w].sid \in Session /\ UNCHANGED <<steps, reaper>>
  BY CreateStep DEF ProgressInv, Create, CreateVM, Busy
<1>2. SessionsAge
  BY <1>1 DEF CreateVM, Boot, Live, SessionsAge, ProgressInv, TypeOK
<1>3. PICK j : /\ Become(w, j) /\ j.pc \in {"release", "undo"}
               /\ j.pc = "undo" => j.sid = job[w].sid
  BY DEF CreateVM, Return, Goto, GotoWith
<1>4. QED
  BY <1>1, <1>2, <1>3, RequestAges DEF Making, Replacing

\* No request moves, and what the reaper holds is kept right.
LEMMA WorldAges ==
    ASSUME ProgressInv, TypeOK', job' = job, SessionsAge,
           \A s \in steps : s \in steps' \/ state[s] # "none",
           \A s \in reaper'.todo : state[s] # "none",
           reaper'.pc = "delete" => state[reaper'.sid] # "none",
           \A s \in reaper'.reaped : state'[s] = "ended"
    PROVE  ProgressInv'
<1>1. \A v \in Worker :
        job[v].pc \in Making \cup Replacing \cup {"vm", "discard", "terminate", "cleanup", "remove"}
            => job[v].sid \in Session
  BY JobFields DEF ProgressInv, TypeOK, Making, Replacing
<1>2. reaper'.todo \subseteq Session /\ (reaper'.pc = "delete" => reaper'.sid \in Session)
  BY DEF TypeOK, Reaper
<1>3. MadeOnce'
  BY <1>1 DEF ProgressInv, MadeOnce, SessionsAge, Making
<1>4. FoundWasMade'
  BY <1>1, <1>2 DEF ProgressInv, FoundWasMade, SessionsAge
<1>5. ForgottenHasEnded'
  BY <1>1 DEF ProgressInv, ForgottenHasEnded, SessionsAge
<1>6. QED
  BY <1>3, <1>4, <1>5 DEF ProgressInv

\* The reaper's steps.
LEMMA ProgressReap ==
    ASSUME ProgressInv, TypeOK', Reap
    PROVE  ProgressInv'
<1>1. /\ job' = job /\ reaper \in Reaper
      /\ \A s \in reaper.todo : state[s] # "none"
      /\ reaper.pc = "delete" => reaper.sid \in Session /\ state[reaper.sid] # "none"
      /\ \A s \in reaper.reaped : s \in Session /\ state[s] = "ended"
  BY DEF Reap, StartReap, ReapList, ReapCheck, ReapDelete, ReapNext, ReapFinish,
     ProgressInv, FoundWasMade, ForgottenHasEnded, TypeOK, Reaper
<1>2. state' = state => SessionsAge
  BY DEF SessionsAge
<1>3. CASE StartReap
  <2>1. UNCHANGED <<state, steps>> /\ reaper'.pc = "list"
        /\ reaper'.todo = reaper.todo /\ reaper'.reaped = reaper.reaped
    BY <1>1, <1>3 DEF StartReap, provider, Reaper
  <2>2. QED
    BY <1>1, <1>2, <2>1, WorldAges
<1>4. CASE ReapList
  <2>1. \A s \in Listed(reaper.kind, reaper.on) : state[s] # "none"
    BY DEF Listed, ActiveAt, Active, Live
  <2>2. UNCHANGED <<state, steps>> /\ reaper'.pc = "scan" /\ reaper'.reaped = reaper.reaped
        /\ (reaper'.todo = reaper.todo \/ reaper'.todo = Listed(reaper.kind, reaper.on))
    BY <1>1, <1>4 DEF ReapList, provider, Reaper
  <2>3. QED
    BY <1>1, <1>2, <2>1, <2>2, WorldAges
<1>5. ASSUME NEW s \in Session, ReapCheck(s)
      PROVE  ProgressInv'
  <2>1. UNCHANGED <<state, steps>> /\ s \in reaper.todo /\ reaper.pc = "scan"
    BY <1>5 DEF ReapCheck, provider
  <2>2. /\ reaper'.todo \subseteq reaper.todo /\ reaper'.reaped = reaper.reaped
        /\ reaper'.pc = "delete" => reaper'.sid = s
    <3>1. \/ reaper' = [reaper EXCEPT !.pc = "delete", !.sid = s, !.todo = @ \ {s}]
          \/ reaper' = [reaper EXCEPT !.todo = @ \ {s}]
      BY <1>5 DEF ReapCheck
    <3>2. QED
      BY <1>1, <2>1, <3>1 DEF Reaper
  <2>3. QED
    BY <1>1, <1>2, <2>1, <2>2, WorldAges
<1>6. CASE ReapDelete
  <2>1. /\ reaper.sid \in Session /\ state[reaper.sid] # "none" /\ steps' = steps
    BY <1>1, <1>6 DEF ReapDelete
  <2>2. CASE /\ End(reaper.sid)
             /\ reaper' = [reaper EXCEPT !.pc = "scan", !.sid = None,
                                         !.reaped = @ \cup {reaper.sid}]
    <3>1. SessionsAge /\ state'[reaper.sid] = "ended"
      BY <2>1, <2>2, EndAges DEF ProgressInv
    <3>2. /\ reaper'.pc = "scan" /\ reaper'.todo = reaper.todo
          /\ reaper'.reaped = reaper.reaped \cup {reaper.sid}
      BY <1>1, <2>2 DEF Reaper
    <3>3. \A s \in reaper'.reaped : state'[s] = "ended"
      BY <1>1, <3>1, <3>2 DEF SessionsAge
    <3>4. QED
      BY <1>1, <2>1, <3>1, <3>2, <3>3, WorldAges
  <2>3. CASE EndAnyway(reaper.sid) /\ reaper' = [reaper EXCEPT !.pc = "scan", !.sid = None]
    <3>1. /\ reaper'.pc = "scan" /\ reaper'.todo = reaper.todo
          /\ reaper'.reaped = reaper.reaped
      BY <1>1, <2>3 DEF Reaper
    <3>2. SessionsAge
      BY <2>1, <2>3, EndAnywayAges DEF ProgressInv
    <3>3. \A s \in reaper'.reaped : state'[s] = "ended"
      BY <1>1, <3>1, <3>2 DEF SessionsAge
    <3>4. QED
      BY <1>1, <2>1, <3>1, <3>2, <3>3, WorldAges
  <2>4. QED
    BY <1>6, <2>2, <2>3 DEF ReapDelete
<1>7. CASE ReapNext
  <2>1. /\ UNCHANGED <<state, steps>> /\ reaper'.pc \in {"list", "finish"}
        /\ reaper'.todo = reaper.todo /\ reaper'.reaped = reaper.reaped
    BY <1>1, <1>7 DEF ReapNext, provider, Reaper
  <2>2. QED
    BY <1>1, <1>2, <2>1, WorldAges
<1>8. CASE ReapFinish
  <2>1. /\ state' = state /\ (steps' = steps \/ steps' = steps \ reaper.reaped)
        /\ reaper'.pc = "idle" /\ reaper'.todo = {} /\ reaper'.reaped = {}
    BY <1>8 DEF ReapFinish, provider, RestingReaper
  <2>2. QED
    BY <1>1, <1>2, <2>1, WorldAges
<1>9. QED
  BY <1>3, <1>4, <1>5, <1>6, <1>7, <1>8 DEF Reap

\* The environment, the lock's TTL and the restart.
LEMMA ProgressEnvironment ==
    ASSUME ProgressInv, TypeOK',
           \/ Restart \/ UNCHANGED vars
           \/ \E u \in User : ExpireLock(u)
           \/ \E s \in Session : VMChanges(s) \/ TimePasses(s) \/ CompleteLab(s)
    PROVE  ProgressInv'
<1>1. steps' = steps
  BY DEF Restart, ExpireLock, VMChanges, TimePasses, CompleteLab, vars
<1>2. SessionsAge
  <2>1. CASE UNCHANGED state
    BY <2>1 DEF SessionsAge
  <2>2. ASSUME NEW s \in Session, VMChanges(s)
        PROVE  SessionsAge
    BY <2>2 DEF VMChanges, Live, SessionsAge, ProgressInv, TypeOK
  <2>3. QED
    BY <2>1, <2>2 DEF Restart, ExpireLock, TimePasses, CompleteLab, vars, provider
<1>3. CASE Restart
  <2>1. (\A w \in Worker : job'[w].pc = "idle") /\ reaper'.pc = "idle"
        /\ reaper'.todo = {} /\ reaper'.reaped = {}
    BY <1>3 DEF Restart, Idle, RestingReaper
  <2>2. QED
    BY <2>1 DEF ProgressInv, MadeOnce, FoundWasMade, ForgottenHasEnded, Making, Replacing
<1>4. CASE UNCHANGED <<job, reaper>>
  <2>1. \A s \in reaper.reaped : state'[s] = "ended"
    BY <1>2 DEF SessionsAge, ProgressInv, ForgottenHasEnded, TypeOK, Reaper
  <2>2. QED
    BY <1>1, <1>2, <1>4, <2>1, WorldAges DEF ProgressInv, FoundWasMade
<1>5. QED
  BY <1>3, <1>4 DEF ExpireLock, VMChanges, TimePasses, CompleteLab, vars

\* A step removes the progress of an active session only after a failed Create.
LEMMA StepKeepsProgress ==
    ASSUME ProgressInv, [Next]_vars
    PROVE  KeepsProgress
<1>1. SUFFICES ASSUME NEW s \in steps \ steps', Live(s)
               PROVE  \E w \in Worker : Busy(w, "undo") /\ job[w].sid = s
  BY DEF KeepsProgress
<1>2. ASSUME NEW w \in Worker, RemoveReplaced(w) \/ RemoveSteps(w)
      PROVE  FALSE
  <2>1. s = job[w].sid /\ state[job[w].sid] = "ended"
    BY <1>2 DEF RemoveReplaced, RemoveSteps, Busy, ProgressInv, ForgottenHasEnded
  <2>2. QED
    BY <1>1, <2>1 DEF Live
<1>3. ASSUME NEW w \in Worker, UndoSteps(w)
      PROVE  \E v \in Worker : Busy(v, "undo") /\ job[v].sid = s
  BY <1>3 DEF UndoSteps
<1>4. CASE ReapFinish
  <2>1. s \in reaper.reaped
    BY <1>4 DEF ReapFinish
  <2>2. QED
    BY <1>1, <2>1 DEF ProgressInv, ForgottenHasEnded, Live
<1>5. CASE steps \subseteq steps'
  BY <1>5
<1>6. ASSUME NEW w \in Worker, Work(w)
      PROVE  \/ steps \subseteq steps'
             \/ RemoveReplaced(w) \/ RemoveSteps(w) \/ UndoSteps(w)
  BY <1>6 DEF Work, FindActiveByUser, GetExisting, DeleteExisting, CheckQuota, PutSteps,
     Route, Create, CreateNamespace, CreateVM, CreateOverflow, DeleteOwn, TerminateFound,
     Release
<1>7. Reap => steps \subseteq steps' \/ ReapFinish
  BY DEF Reap, StartReap, ReapList, ReapCheck, ReapDelete, ReapNext
<1>8. QED
  BY <1>2, <1>3, <1>4, <1>5, <1>6, <1>7
  DEF Next, Acquire, TerminateUserSession, DeleteSession, ExpireLock, VMChanges,
      TimePasses, CompleteLab, Restart, vars

\* The progress of a session outlives it, whatever fails, expires or restarts:
\* steps.remove and steps.take come after the provider's Delete, or after a
\* Create that was answered with an error.
THEOREM ProgressKept == Spec => ProgressIsKept
<1>1. Init => ProgressInv
  <2>1. ASSUME Init
        PROVE  ProgressInv
    <3>1. (\A w \in Worker : job[w].pc = "idle") /\ reaper.pc = "idle"
          /\ reaper.todo = {} /\ reaper.reaped = {}
      BY <2>1 DEF Init, Idle, RestingReaper
    <3>2. QED
      BY <2>1, <3>1, TypeInit
      DEF ProgressInv, MadeOnce, FoundWasMade, ForgottenHasEnded, Making, Replacing
  <2>2. QED
    BY <2>1
<1>2. ProgressInv /\ [Next]_vars => ProgressInv'
  <2>1. SUFFICES ASSUME ProgressInv, [Next]_vars
                 PROVE  ProgressInv'
    OBVIOUS
  <2>2. TypeOK'
    BY <2>1, TypeStep DEF ProgressInv
  <2>3. ASSUME NEW w \in Worker, Work(w)
        PROVE  ProgressInv'
    BY <2>1, <2>2, <2>3, ProgressQuiet, ProgressEnds, ProgressRemoved, ProgressPut,
       ProgressCreate, ProgressVM
    DEF Work, Create
  <2>4. QED
    BY <2>1, <2>2, <2>3, ProgressQuiet, ProgressEnds, ProgressReap, ProgressEnvironment
    DEF Next
<1>3. ProgressInv /\ [Next]_vars => [KeepsProgress]_vars
  BY StepKeepsProgress
<1>4. QED
  BY <1>1, <1>2, <1>3, PTL DEF Spec, ProgressIsKept

=============================================================================
