-------------------------- MODULE SessionAdmission --------------------------
(***************************************************************************)
(* Admission of lab sessions: CreateSession with its per-user lock (MemLock *)
(* or RedisLock), the quota check, the Dispatcher that routes to on-prem   *)
(* KubeVirt or to the EC2 overflow, deletion by the owner or an            *)
(* administrator, and the background reaper of stuck and expired sessions. *)
(*                                                                         *)
(* A step is one call to a provider, to the lock or to the progress store. *)
(* Requests carry a user id (authentication is on); the API is one process. *)
(***************************************************************************)
EXTENDS Naturals, FiniteSets

CONSTANTS
    Session,       \* session ids, of four random bytes; newSessionID repeats none
    User,
    Worker,        \* request goroutines of the API
    HasOverflow,   \* is the EC2 provider wired?
    OnpremCap,     \* KubeVirt.MaxActiveSessions
    OverflowCap,   \* AWS.MaxActiveSessions
    RedisLock,     \* RedisLocker rather than MemLocker
    LockExpires,   \* may a critical section outlast lockTTL?
    ApiFails,      \* may a provider's API call fail?
    CrashAllowed,  \* may the API process restart?
    MaxLate,       \* bound: sessions that live past the provisioning timeout
    None           \* absent

Provider == IF HasOverflow THEN {"onprem", "overflow"} ELSE {"onprem"}
Capacity == IF HasOverflow THEN OnpremCap + OverflowCap ELSE OnpremCap

\* main.go 140 wires the EC2 provider only with a capacity of its own.
ASSUME AdmissionAssumption ==
    /\ HasOverflow \in BOOLEAN /\ RedisLock \in BOOLEAN /\ LockExpires \in BOOLEAN
    /\ ApiFails \in BOOLEAN /\ CrashAllowed \in BOOLEAN
    /\ LockExpires => RedisLock
    /\ HasOverflow => OverflowCap > 0
    /\ OnpremCap \in Nat /\ OverflowCap \in Nat /\ MaxLate \in Nat
    /\ None \notin Session /\ None \notin User /\ None \notin Worker
    /\ "dead" \notin Worker /\ None \notin {"dead", "onprem", "overflow"}
    /\ IsFiniteSet(Session) /\ IsFiniteSet(Worker)

VARIABLES
    state,      \* the provider's view of each session
    owner,      \* its user
    at,         \* its provider
    late,       \* sessions past the provisioning timeout
    expired,    \* sessions past their TTL
    steps,      \* sessions with progress in the stepStore
    completed,  \* sessions all of whose steps passed
    lock,       \* the holder of each user's lock; "dead": a crashed process
    job,        \* where each request is
    reaper      \* where the background loop is

vars == <<state, owner, at, late, expired, steps, completed, lock, job, reaper>>
provider == <<state, owner, at>>
clock == <<late, expired>>

\* The provider counts the session as active: an "orphan" is a namespace whose
\* VM was never created, a "broken" one has a VM that failed or shut down.
Live(s) == state[s] \in {"provisioning", "running", "broken", "orphan"}

Idle == [pc |-> "idle"]

\* The steps of CreateSession between Acquire and the release.
Looking == {"find"}
Replacing == {"get", "delete"}
Admitted == {"quota", "put", "route", "create"}
Critical == Looking \cup Replacing \cup Admitted \cup {"vm", "cleanup", "undo", "release"}

Job ==
    [pc : {"idle"}]
    \cup [pc : Looking \cup {"quota", "put", "release"}, user : User]
    \cup [pc : Replacing \cup {"cleanup"}, user : User, sid : Session]
    \cup [pc : {"route", "vm", "undo"}, user : User, sid : Session]
    \cup [pc : {"create"}, user : User, sid : Session, to : {"onprem", "overflow"}]
    \cup [pc : {"discard", "terminate", "remove"}, sid : Session]

Reaper == [pc : {"idle", "list", "scan", "delete", "finish"},
           kind : {"stuck", "expired"}, on : {"onprem", "overflow"},
           todo : SUBSET Session, reaped : SUBSET Session, err : BOOLEAN,
           sid : Session \cup {None}]

TypeOK ==
    /\ state \in [Session -> {"none", "provisioning", "running", "broken", "orphan", "ended"}]
    /\ owner \in [Session -> User \cup {None}]
    /\ at \in [Session -> {"onprem", "overflow", None}]
    /\ late \subseteq Session
    /\ expired \subseteq Session
    /\ steps \subseteq Session
    /\ completed \subseteq Session
    /\ lock \in [User -> Worker \cup {"dead", None}]
    /\ job \in [Worker -> Job]
    /\ reaper \in Reaper
    /\ reaper.pc = "delete" => reaper.sid \in Session

RestingReaper(kind) ==
    [pc |-> "idle", kind |-> kind, on |-> "onprem", todo |-> {}, reaped |-> {},
     err |-> FALSE, sid |-> None]

Init ==
    /\ state = [s \in Session |-> "none"]
    /\ owner = [s \in Session |-> None]
    /\ at = [s \in Session |-> None]
    /\ late = {}
    /\ expired = {}
    /\ steps = {}
    /\ completed = {}
    /\ lock = [u \in User |-> None]
    /\ job = [w \in Worker |-> Idle]
    /\ reaper = RestingReaper("stuck")

Busy(w, pc) == job[w].pc = pc
Become(w, j) == job' = [job EXCEPT ![w] = j]
Goto(w, pc) == Become(w, [pc |-> pc, user |-> job[w].user])
GotoWith(w, pc, s) == Become(w, [pc |-> pc, user |-> job[w].user, sid |-> s])

\* CreateSession returns: the deferred release comes next.
Return(w) == Goto(w, "release")

\* A provider call may fail; the handler then answers 500.
CallFails(w) == ApiFails /\ Return(w)

-----------------------------------------------------------------------------
(* The lock.                                                               *)

\* Mutant of Acquire: the lock is taken whoever holds it.
AcquireAnyway(w, u) ==
    /\ Busy(w, "idle")
    /\ lock' = [lock EXCEPT ![u] = w]
    /\ Become(w, [pc |-> "find", user |-> u])
    /\ UNCHANGED <<provider, clock, steps, completed, reaper>>

\* MemLocker waits for the mutex, RedisLocker retries SET NX for a while.
Acquire(w, u) ==
    /\ Busy(w, "idle")
    /\ lock[u] = None
    /\ lock' = [lock EXCEPT ![u] = w]
    /\ Become(w, [pc |-> "find", user |-> u])
    /\ UNCHANGED <<provider, clock, steps, completed, reaper>>

\* Only the holder's own token is deleted; if Redis does not answer, the token
\* stays until lockTTL ("dead").
Release(w) ==
    /\ Busy(w, "release")
    /\ LET u == job[w].user IN
       IF lock[u] = w
       THEN \E left \in {None} \cup (IF RedisLock /\ ApiFails THEN {"dead"} ELSE {}) :
                lock' = [lock EXCEPT ![u] = left]
       ELSE lock' = lock
    /\ Become(w, Idle)
    /\ UNCHANGED <<provider, clock, steps, completed, reaper>>

\* lockTTL passes: for a crashed process, or with LockExpires for a slow one.
ExpireLock(u) ==
    /\ RedisLock
    /\ lock[u] = "dead" \/ (LockExpires /\ lock[u] # None)
    /\ lock' = [lock EXCEPT ![u] = None]
    /\ UNCHANGED <<provider, clock, steps, completed, job, reaper>>

-----------------------------------------------------------------------------
(* CreateSession: one active session per user.                             *)

ActiveOn(p, u) == {s \in Session : Live(s) /\ at[s] = p /\ owner[s] = u}

\* FindActiveByUser of the Dispatcher: on-prem first, then the overflow.
FindActive(u) ==
    IF ActiveOn("onprem", u) # {} THEN ActiveOn("onprem", u)
                                  ELSE ActiveOn("overflow", u)

FindActiveByUser(w) ==
    /\ Busy(w, "find")
    /\ LET found == FindActive(job[w].user) IN
       \/ CallFails(w)
       \/ found = {} /\ Goto(w, "quota")
       \/ \E s \in found : GotoWith(w, "get", s)
    /\ UNCHANGED <<provider, clock, steps, completed, lock, reaper>>

\* The phases a read of the session's VM may give: an on-prem VMI may not be
\* readable, which is no error.
PhaseRead(s) ==
    {state[s]} \cup (IF ApiFails /\ at[s] = "onprem" THEN {"unread"} ELSE {})

\* The status Get derives from it: an on-prem session that is not seen running
\* by the provisioning timeout has failed.
StatusOf(s, phase) ==
    IF phase = "broken" \/ (at[s] = "onprem" /\ s \in late /\ phase # "running")
    THEN "failed" ELSE "usable"

\* What Get may answer; a namespace that is being deleted can still be read.
GetAnswers(s) ==
    IF Live(s) THEN {StatusOf(s, phase) : phase \in PhaseRead(s)}
    ELSE {"gone"} \cup (IF at[s] = "onprem" THEN {"failed", "usable"} ELSE {})

\* prepareSessionCreation and the handler's cases: the session is gone, it
\* failed, it is completed, or it is in use and the request is refused (409).
GetExisting(w) ==
    /\ Busy(w, "get")
    /\ LET s == job[w].sid IN
       \/ CallFails(w)
       \/ \E answer \in GetAnswers(s) :
             \/ answer = "gone" /\ GotoWith(w, "cleanup", s)
             \/ answer = "failed" /\ GotoWith(w, "delete", s)
             \/ answer = "usable" /\ IF s \in completed \cap steps
                                     THEN GotoWith(w, "delete", s)
                                     ELSE Return(w)
    /\ UNCHANGED <<provider, clock, steps, completed, lock, reaper>>

\* The provider ends session s; ErrNotFound is not an error.
End(s) == state' = IF Live(s) THEN [state EXCEPT ![s] = "ended"] ELSE state

\* Mutant of DeleteExisting: the session is forgotten, whether it ended or not.
DeleteExistingUnchecked(w) ==
    /\ Busy(w, "delete")
    /\ End(job[w].sid) \/ UNCHANGED state
    /\ GotoWith(w, "cleanup", job[w].sid)
    /\ UNCHANGED <<owner, at, clock, steps, completed, lock, reaper>>

\* A call that fails may have taken effect all the same.
EndAnyway(s) == End(s) \/ UNCHANGED state

\* Deleting a namespace that is being deleted is refused.
DeleteExisting(w) ==
    /\ Busy(w, "delete")
    /\ \/ CallFails(w) /\ EndAnyway(job[w].sid)
       \/ ~Live(job[w].sid) /\ Return(w) /\ UNCHANGED state
       \/ End(job[w].sid) /\ GotoWith(w, "cleanup", job[w].sid)
    /\ UNCHANGED <<owner, at, clock, steps, completed, lock, reaper>>

\* Mutant of RemoveReplaced: the request goes on without its user.
RemoveReplacedAnonymous(w) ==
    /\ Busy(w, "cleanup")
    /\ steps' = steps \ {job[w].sid}
    /\ Become(w, [pc |-> "quota", user |-> None])
    /\ UNCHANGED <<provider, clock, completed, lock, reaper>>

\* steps.remove of the session that made room.
RemoveReplaced(w) ==
    /\ Busy(w, "cleanup")
    /\ steps' = steps \ {job[w].sid}
    /\ Goto(w, "quota")
    /\ UNCHANGED <<provider, clock, completed, lock, reaper>>

-----------------------------------------------------------------------------
(* CreateSession: the quota, the progress entry and the provider.          *)

Active == {s \in Session : Live(s)}
ActiveAt(p) == {s \in Active : at[s] = p}

\* Mutant of CheckQuota: refuses only beyond the capacity.
CheckQuotaOffByOne(w) ==
    /\ Busy(w, "quota")
    /\ \/ CallFails(w)
       \/ IF Capacity > 0 /\ Cardinality(Active) > Capacity
          THEN Return(w)
          ELSE Goto(w, "put")
    /\ UNCHANGED <<provider, clock, steps, completed, lock, reaper>>

\* CountActiveSessions against Capacity (0: unlimited); 429 when it is reached.
CheckQuota(w) ==
    /\ Busy(w, "quota")
    /\ \/ CallFails(w)
       \/ IF Capacity > 0 /\ Cardinality(Active) >= Capacity
          THEN Return(w)
          ELSE Goto(w, "put")
    /\ UNCHANGED <<provider, clock, steps, completed, lock, reaper>>

\* steps.put, or 500 if the row cannot be written.
PutSteps(w, s) ==
    /\ Busy(w, "put")
    /\ state[s] = "none" /\ s \notin steps
    /\ \/ Return(w) /\ UNCHANGED steps
       \/ steps' = steps \cup {s} /\ GotoWith(w, "route", s)
    /\ UNCHANGED <<provider, clock, completed, lock, reaper>>

\* Dispatcher.Create: on-prem while it has room.
Route(w) ==
    /\ Busy(w, "route")
    /\ \/ ApiFails /\ HasOverflow /\ GotoWith(w, "undo", job[w].sid)
       \/ Become(w, [pc |-> "create", user |-> job[w].user, sid |-> job[w].sid,
                     to |-> IF ~HasOverflow \/ Cardinality(ActiveAt("onprem")) < OnpremCap
                            THEN "onprem" ELSE "overflow"])
    /\ UNCHANGED <<provider, clock, steps, completed, lock, reaper>>

\* What a provider's Create leaves behind: a session in the given state.
Leave(w, st) ==
    LET j == job[w] IN
    /\ state' = [state EXCEPT ![j.sid] = st]
    /\ owner' = [owner EXCEPT ![j.sid] = j.user]
    /\ at' = [at EXCEPT ![j.sid] = j.to]

\* Manager.Create: the namespace, which carries the user's id, comes first. A call
\* that fails may have taken effect, and nothing is undone.
CreateNamespace(w) ==
    /\ Busy(w, "create") /\ job[w].to = "onprem"
    /\ \/ Leave(w, "orphan") /\ GotoWith(w, "vm", job[w].sid)
       \/ /\ ApiFails
          /\ Leave(w, "orphan") \/ UNCHANGED provider
          /\ GotoWith(w, "undo", job[w].sid)
    /\ UNCHANGED <<clock, steps, completed, lock, reaper>>

\* The VM appears in its namespace.
Boot(s) == state' = [state EXCEPT ![s] = "provisioning"]

\* ... then its secret and the VM, which are refused once the namespace is being
\* deleted. A failure leaves the namespace without a VM, or with one whose answer
\* was lost.
CreateVM(w) ==
    /\ Busy(w, "vm")
    /\ LET s == job[w].sid IN
       \/ Live(s) /\ Boot(s) /\ Return(w)
       \/ /\ ApiFails \/ ~Live(s)
          /\ (Live(s) /\ Boot(s)) \/ UNCHANGED state
          /\ GotoWith(w, "undo", s)
    /\ UNCHANGED <<owner, at, clock, steps, completed, lock, reaper>>

\* Provisioner.Create: RunInstances is the only call; its answer may be lost.
CreateOverflow(w) ==
    /\ Busy(w, "create") /\ job[w].to = "overflow"
    /\ \/ Leave(w, "provisioning") /\ Return(w)
       \/ /\ ApiFails
          /\ Leave(w, "provisioning") \/ UNCHANGED provider
          /\ GotoWith(w, "undo", job[w].sid)
    /\ UNCHANGED <<clock, steps, completed, lock, reaper>>

Create(w) == CreateNamespace(w) \/ CreateVM(w) \/ CreateOverflow(w)

\* steps.remove after a failed Create.
UndoSteps(w) ==
    /\ Busy(w, "undo")
    /\ steps' = steps \ {job[w].sid}
    /\ Return(w)
    /\ UNCHANGED <<provider, clock, completed, lock, reaper>>

-----------------------------------------------------------------------------
(* Deletion by the owner (DeleteSession) or by an administrator            *)
(* (TerminateUserSession): neither takes the user's lock.                  *)

\* Get and the ownership check of the owner's request.
DeleteSession(w, s) ==
    /\ Busy(w, "idle")
    /\ Live(s)
    /\ Become(w, [pc |-> "discard", sid |-> s])
    /\ UNCHANGED <<provider, clock, steps, completed, lock, reaper>>

\* Its Delete: by now the session may be gone (404) or its namespace being deleted.
DeleteOwn(w) ==
    /\ Busy(w, "discard")
    /\ LET s == job[w].sid IN
       \/ ApiFails /\ EndAnyway(s) /\ Become(w, Idle)
       \/ ~Live(s) /\ UNCHANGED state /\ Become(w, Idle)
       \/ Live(s) /\ End(s) /\ Become(w, [pc |-> "remove", sid |-> s])
    /\ UNCHANGED <<owner, at, clock, steps, completed, lock, reaper>>

TerminateUserSession(w, u) ==
    /\ Busy(w, "idle")
    /\ \E s \in FindActive(u) : Become(w, [pc |-> "terminate", sid |-> s])
    /\ UNCHANGED <<provider, clock, steps, completed, lock, reaper>>

\* Here a session that is gone counts as ended.
TerminateFound(w) ==
    /\ Busy(w, "terminate")
    /\ LET s == job[w].sid IN
       \/ ApiFails /\ EndAnyway(s) /\ Become(w, Idle)
       \/ ~Live(s) /\ UNCHANGED state /\ Become(w, Idle)
       \/ End(s) /\ Become(w, [pc |-> "remove", sid |-> s])
    /\ UNCHANGED <<owner, at, clock, steps, completed, lock, reaper>>

\* steps.take or steps.remove of a deleted session.
RemoveSteps(w) ==
    /\ Busy(w, "remove")
    /\ steps' = steps \ {job[w].sid}
    /\ Become(w, Idle)
    /\ UNCHANGED <<provider, clock, completed, lock, reaper>>

-----------------------------------------------------------------------------
(* The reaper: every two minutes stuck sessions, then expired ones, on each *)
(* provider.                                                               *)

\* A round that finds no session overdue changes nothing and is left out.
StartReap ==
    /\ reaper.pc = "idle"
    /\ late # {}
    /\ reaper' = [reaper EXCEPT !.pc = "list"]
    /\ UNCHANGED <<provider, clock, steps, completed, lock, job>>

\* Past the provisioning timeout, or past the TTL.
Overdue(kind) == IF kind = "stuck" THEN late ELSE expired

\* A list of instances carries their states, a list of namespaces does not.
Listed(kind, p) ==
    {s \in ActiveAt(p) \cap Overdue(kind) :
        kind = "stuck" /\ p = "overflow" => state[s] # "running"}

\* The provider lists its sessions; an error is kept and the other provider
\* still has its turn.
ReapList ==
    /\ reaper.pc = "list"
    /\ \/ reaper' = [reaper EXCEPT !.pc = "scan", !.todo = Listed(reaper.kind, reaper.on)]
       \/ ApiFails /\ reaper' = [reaper EXCEPT !.pc = "scan", !.err = TRUE]
    /\ UNCHANGED <<provider, clock, steps, completed, lock, job>>

\* One session of the list is looked at: a stuck on-prem session is spared if
\* its VMI runs, or if its boot status cannot be recorded.
ReapCheck(s) ==
    /\ reaper.pc = "scan"
    /\ s \in reaper.todo
    /\ LET spareable == reaper.kind = "stuck" /\ reaper.on = "onprem" IN
       \E phase \in PhaseRead(s) :
          \/ /\ ~spareable \/ phase # "running"
             /\ reaper' = [reaper EXCEPT !.pc = "delete", !.sid = s, !.todo = @ \ {s}]
          \/ /\ spareable /\ (phase = "running" \/ ApiFails)
             /\ reaper' = [reaper EXCEPT !.todo = @ \ {s}]
    /\ UNCHANGED <<provider, clock, steps, completed, lock, job>>

\* Mutant of ReapDelete: a session whose deletion failed counts as reaped.
ReapDeleteUnchecked ==
    /\ reaper.pc = "delete"
    /\ \/ End(reaper.sid)
       \/ ApiFails /\ EndAnyway(reaper.sid)
    /\ reaper' = [reaper EXCEPT !.pc = "scan", !.sid = None, !.reaped = @ \cup {reaper.sid}]
    /\ UNCHANGED <<owner, at, clock, steps, completed, lock, job>>

\* ... and deleted; a failure leaves it to the next round.
ReapDelete ==
    /\ reaper.pc = "delete"
    /\ \/ /\ End(reaper.sid)
          /\ reaper' = [reaper EXCEPT !.pc = "scan", !.sid = None,
                                      !.reaped = @ \cup {reaper.sid}]
       \/ /\ ApiFails
          /\ EndAnyway(reaper.sid)
          /\ reaper' = [reaper EXCEPT !.pc = "scan", !.sid = None]
    /\ UNCHANGED <<owner, at, clock, steps, completed, lock, job>>

\* Mutant of ReapNext: an error of the first provider ends the round.
ReapNextUnlessError ==
    /\ reaper.pc = "scan"
    /\ reaper.todo = {}
    /\ reaper' = IF reaper.on = "onprem" /\ HasOverflow /\ ~reaper.err
                 THEN [reaper EXCEPT !.pc = "list", !.on = "overflow"]
                 ELSE [reaper EXCEPT !.pc = "finish"]
    /\ UNCHANGED <<provider, clock, steps, completed, lock, job>>

\* reapBoth goes on to the other provider, or returns to the handler.
ReapNext ==
    /\ reaper.pc = "scan"
    /\ reaper.todo = {}
    /\ reaper' = IF reaper.on = "onprem" /\ HasOverflow
                 THEN [reaper EXCEPT !.pc = "list", !.on = "overflow"]
                 ELSE [reaper EXCEPT !.pc = "finish"]
    /\ UNCHANGED <<provider, clock, steps, completed, lock, job>>

\* ReapStuckSessions and ReapExpiredSessions of the handler: an error ends the
\* round before the progress of the reaped sessions is removed.
ReapFinish ==
    /\ reaper.pc = "finish"
    /\ steps' = IF reaper.err THEN steps ELSE steps \ reaper.reaped
    /\ reaper' = RestingReaper(IF reaper.kind = "stuck" THEN "expired" ELSE "stuck")
    /\ UNCHANGED <<provider, clock, completed, lock, job>>

-----------------------------------------------------------------------------
(* The environment.                                                        *)

\* The VM boots, or (on-prem, where the namespace remains) ends by itself.
VMChanges(s) ==
    /\ Live(s)
    /\ \/ state[s] = "provisioning" /\ state' = [state EXCEPT ![s] = "running"]
       \/ /\ state[s] \in {"provisioning", "running"}
          /\ state' = [state EXCEPT ![s] = IF at[s] = "onprem" THEN "broken" ELSE "ended"]
    /\ UNCHANGED <<owner, at, clock, steps, completed, lock, job, reaper>>

\* Time passes: first the provisioning timeout, then the TTL.
TimePasses(s) ==
    /\ Live(s)
    /\ IF s \in late THEN expired' = expired \cup {s} /\ UNCHANGED late
                     ELSE /\ Cardinality(late) < MaxLate
                          /\ late' = late \cup {s} /\ UNCHANGED expired
    /\ UNCHANGED <<provider, steps, completed, lock, job, reaper>>

\* The learner passes the last step.
CompleteLab(s) ==
    /\ state[s] = "running" /\ s \in steps
    /\ completed' = completed \cup {s}
    /\ UNCHANGED <<provider, clock, steps, lock, job, reaper>>

\* The API process restarts. Progress rows and Redis locks survive it.
Restart ==
    /\ CrashAllowed
    /\ job' = [w \in Worker |-> Idle]
    /\ lock' = [u \in User |-> IF RedisLock /\ lock[u] # None THEN "dead" ELSE None]
    /\ reaper' = RestingReaper("stuck")
    /\ UNCHANGED <<provider, clock, steps, completed>>

-----------------------------------------------------------------------------

Work(w) ==
    \/ FindActiveByUser(w) \/ GetExisting(w) \/ DeleteExisting(w) \/ RemoveReplaced(w)
    \/ CheckQuota(w) \/ (\E s \in Session : PutSteps(w, s)) \/ Route(w) \/ Create(w)
    \/ UndoSteps(w) \/ DeleteOwn(w) \/ TerminateFound(w) \/ RemoveSteps(w) \/ Release(w)

Reap ==
    \/ StartReap \/ ReapList \/ (\E s \in Session : ReapCheck(s))
    \/ ReapDelete \/ ReapNext \/ ReapFinish

Next ==
    \/ \E w \in Worker : \/ \E u \in User : Acquire(w, u) \/ TerminateUserSession(w, u)
                         \/ \E s \in Session : DeleteSession(w, s)
                         \/ Work(w)
    \/ \E u \in User : ExpireLock(u)
    \/ Reap
    \/ \E s \in Session : VMChanges(s) \/ TimePasses(s) \/ CompleteLab(s)
    \/ Restart

Spec == Init /\ [][Next]_vars

\* The reaper's loop keeps running, and the overflow's API answers again and
\* again; nothing is assumed of the on-prem API.
Listing == ReapList /\ reaper.kind = "expired" /\ reaper.on = "overflow"
           /\ reaper'.todo = Listed("expired", "overflow")
Deleting(s) == ReapDelete /\ reaper.sid = s /\ state'[s] = "ended"

Fairness ==
    /\ WF_vars(Reap)
    /\ SF_vars(Listing)
    /\ \A s \in Session : SF_vars(Deleting(s))

FairSpec == Spec /\ Fairness

-----------------------------------------------------------------------------
(* Properties.                                                             *)

\* A user never has two active sessions, however double clicks, deletions, failing
\* calls, restarts and the locks they leave behind interleave (CreateSession's lock
\* around FindActiveByUser and Create). TLC checks it on one provider without the
\* reaper; for two providers and with the reaper it is a theorem. Both suppose that
\* no lock expires under its holder, and that a call which was answered with an
\* error takes effect, if at all, before the lock is released.
OneSessionPerUser ==
    \A r, s \in Session : Live(r) /\ Live(s) /\ owner[r] = owner[s] => r = s

\* What makes OneSessionPerUser inductive, as long as no lock expires under its
\* holder: a request holds its user's lock until it returns ...
Holding ==
    \A w \in Worker :
        job[w].pc \in Critical => lock[job[w].user] = w

\* ... the session it found, or is making, is the only one of its user ...
FoundIsTheOnlyOne ==
    \A w \in Worker : job[w].pc \in Replacing \cup {"vm"} =>
        \A s \in Session : Live(s) /\ owner[s] = job[w].user => s = job[w].sid

\* ... and once it goes on to create, the user has none.
AdmittedHasNone ==
    \A w \in Worker : job[w].pc \in Admitted \cup {"cleanup"} =>
        \A s \in Session : Live(s) => owner[s] # job[w].user

LiveIsSomewhere == \A s \in Session : Live(s) => at[s] # None

AdmissionInv ==
    /\ TypeOK
    /\ OneSessionPerUser
    /\ Holding
    /\ FoundIsTheOnlyOne
    /\ AdmittedHasNone
    /\ LiveIsSomewhere

\* The quota is checked before the session exists, so requests of several users
\* may overrun it, but never by more than the requests that were under way
\* together.
QuotaOverrunIsBounded ==
    Capacity > 0 => Cardinality(Active) <= Capacity + Cardinality(Worker) - 1

\* What makes it inductive: the requests between their quota check and the
\* provider's answer are counted with the sessions that exist.
Pending == {w \in Worker : job[w].pc \in {"put", "route", "create"}}

RequestsAreCounted ==
    Capacity > 0 =>
        Cardinality(Active) + Cardinality(Pending) <= Capacity + Cardinality(Worker) - 1

\* The Dispatcher's count of on-prem sessions goes stale in the same way: with an
\* overflow, the cluster's own limit is overrun by less than the requests at a time,
\* and a limit of 0 keeps it empty (dispatcher.go 14-19).
OnpremOverrunIsBounded ==
    HasOverflow =>
        IF OnpremCap = 0 THEN ActiveAt("onprem") = {}
        ELSE Cardinality(ActiveAt("onprem")) <= OnpremCap + Cardinality(Worker) - 1

\* The requests that were routed on-prem are counted with its sessions.
Routed == {w \in Worker : job[w].pc = "create" /\ job[w].to = "onprem"}

RoutedAreCounted ==
    HasOverflow =>
        IF OnpremCap = 0 THEN ActiveAt("onprem") = {} /\ Routed = {}
        ELSE Cardinality(ActiveAt("onprem")) + Cardinality(Routed)
                 <= OnpremCap + Cardinality(Worker) - 1

KeepsProgress ==
    \A s \in steps \ steps' :
        Live(s) => \E w \in Worker : Busy(w, "undo") /\ job[w].sid = s

\* A session that is active loses its progress entry, by which the catalogue finds
\* it, only when its own Create was answered with an error: put comes before
\* Create, and every other removal (replacement, DeleteSession, the reaper) after
\* the provider has ended the session, also when calls fail in between.
ProgressIsKept == [][KeepsProgress]_vars

\* What it rests on: a session is created once, by the request that chose its id
\* and put its progress ...
Making == {"route", "create", "vm", "undo"}

MadeOnce ==
    /\ \A v, w \in Worker : job[v].pc \in Making /\ job[w].pc \in Making =>
          (job[v].sid = job[w].sid => v = w)
    /\ \A w \in Worker : job[w].pc \in Making =>
          job[w].sid \in steps \/ state[job[w].sid] # "none"
    /\ \A w \in Worker : job[w].pc \in {"route", "create"} =>
          state[job[w].sid] = "none"

\* ... what requests and the reaper are about to end was created ...
FoundWasMade ==
    /\ \A w \in Worker : job[w].pc \in Replacing \cup {"vm", "discard", "terminate"} =>
          state[job[w].sid] # "none"
    /\ \A s \in reaper.todo : state[s] # "none"
    /\ reaper.pc = "delete" => state[reaper.sid] # "none"

\* ... and what they are about to forget has ended, for good.
ForgottenHasEnded ==
    /\ \A w \in Worker : job[w].pc \in {"cleanup", "remove"} =>
          state[job[w].sid] = "ended"
    /\ \A s \in reaper.reaped : state[s] = "ended"

ProgressInv ==
    /\ TypeOK
    /\ MadeOnce
    /\ FoundWasMade
    /\ ForgottenHasEnded

\* An overflow session past its TTL is ended, even if the on-prem API answers the
\* reaper with nothing but errors; calls return, with an error or without.
ExpiredIsReaped ==
    \A s \in Session :
        (s \in expired /\ at[s] = "overflow" /\ Live(s)) ~> ~Live(s)

=============================================================================
