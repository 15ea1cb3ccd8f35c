----------------------------- MODULE BootStatus -----------------------------
(***************************************************************************)
(* The boot result of a session's VM, counted once: syncBootStatus of      *)
(* kubevirt/watcher.go, whose memory is two annotations of the session's   *)
(* namespace, and recordBootOnce of ec2/provisioner.go, whose memory is a  *)
(* tag of the instance guarded by a Redis key. Both are called by several  *)
(* goroutines at once: the VMI watcher, the page's polls (Get) and the     *)
(* stuck reaper.                                                           *)
(***************************************************************************)
EXTENDS Naturals

CONSTANTS
    OnpremVM, CloudVM,  \* the VMs of KubeVirt and the instances of EC2
    Observer,           \* the goroutines that look at VMs
    Watcher,            \* one of them: the VMI informer
    ApiFails,           \* may a call to Kubernetes, AWS or Redis fail?
    MaxRestarts,        \* bound on the restarts of the API process
    CountCap            \* counters are followed up to it

VM == OnpremVM \cup CloudVM

ASSUME BootAssumption ==
    /\ OnpremVM \cap CloudVM = {}
    /\ Watcher \in Observer
    /\ ApiFails \in BOOLEAN
    /\ MaxRestarts \in Nat
    /\ CountCap \in Nat \ {0}

VARIABLES
    phase,    \* what the VM does
    late,     \* VMs past the provisioning timeout
    marks,    \* ready-at and boot-result-recorded; of an instance, its tag
    key,      \* the instances whose Redis key is set
    counted,  \* vm_boot_total by VM and result
    job,      \* where each observer is, with what it has read
    restarts  \* restarts of the API process so far

vars == <<phase, late, marks, key, counted, job, restarts>>

Result == {"success", "failed"}
Idle == [pc |-> "idle"]

Job ==
    [pc : {"idle"}]
    \cup [pc : {"sync", "lock", "tag", "unlock", "count"}, vm : VM, result : Result]
    \cup [pc : {"update"}, vm : VM, result : Result, read : SUBSET Result]

TypeOK ==
    /\ phase \in [VM -> {"pending", "running", "stopped", "deleted"}]
    /\ late \subseteq VM
    /\ marks \in [VM -> SUBSET Result]
    /\ key \subseteq CloudVM
    /\ counted \in [VM -> [Result -> 0 .. CountCap]]
    /\ job \in [Observer -> Job]
    /\ restarts \in 0 .. MaxRestarts

Init ==
    /\ phase = [v \in VM |-> "pending"]
    /\ late = {}
    /\ marks = [v \in VM |-> {}]
    /\ key = {}
    /\ counted = [v \in VM |-> [r \in Result |-> 0]]
    /\ job = [o \in Observer |-> Idle]
    /\ restarts = 0

Become(o, j) == job' = [job EXCEPT ![o] = j]
At(o, pc) == job[o].pc = pc
Goto(o, pc) == Become(o, [pc |-> pc, vm |-> job[o].vm, result |-> job[o].result])

\* Mutant of AlreadyRecorded: any result is final.
AnyRecorded(result, m) == m # {}

\* The guards of syncBootStatus: a success is recorded unless there is a
\* ready-at; a failure, unless there is a ready-at or a boot-result-recorded.
AlreadyRecorded(result, m) ==
    IF result = "success" THEN "success" \in m ELSE m # {}

-----------------------------------------------------------------------------
(* On-prem: syncBootStatus.                                                *)

\* Mutant of SeeVMI: the phase is passed on as the result.
SeeVMIPhase(o, v) ==
    /\ At(o, "idle")
    /\ phase[v] \in {"running", "stopped"}
    /\ Become(o, [pc |-> "sync", vm |-> v, result |-> phase[v]])
    /\ UNCHANGED <<phase, late, marks, key, counted, restarts>>

\* handleVMIEvent, Get and ReapStuckSessions: what they saw of the VM. After the
\* provisioning timeout a VMI that cannot be read has timed out as well.
SeeVMI(o, v) ==
    /\ At(o, "idle")
    /\ phase[v] # "deleted"
    /\ \/ /\ phase[v] = "running"
          /\ Become(o, [pc |-> "sync", vm |-> v, result |-> "success"])
       \/ /\ phase[v] = "stopped" \/ (v \in late /\ (phase[v] = "pending" \/ ApiFails))
          /\ Become(o, [pc |-> "sync", vm |-> v, result |-> "failed"])
    /\ UNCHANGED <<phase, late, marks, key, counted, restarts>>

\* The namespace is read; it may be gone, or hold the result already.
ReadNamespace(o) ==
    /\ At(o, "sync")
    /\ LET v == job[o].vm IN
       \/ /\ phase[v] = "deleted" \/ AlreadyRecorded(job[o].result, marks[v]) \/ ApiFails
          /\ Become(o, Idle)
       \/ /\ phase[v] # "deleted" /\ ~AlreadyRecorded(job[o].result, marks[v])
          /\ Become(o, [pc |-> "update", vm |-> v, result |-> job[o].result,
                        read |-> marks[v]])
    /\ UNCHANGED <<phase, late, marks, key, counted, restarts>>

\* Mutant of UpdateNamespace: a patch, which never conflicts.
PatchNamespace(o) ==
    /\ At(o, "update")
    /\ marks' = [marks EXCEPT ![job[o].vm] = @ \cup {job[o].result}]
    /\ Goto(o, "count")
    /\ UNCHANGED <<phase, late, key, counted, restarts>>

\* Update carries the resourceVersion that was read: it conflicts if the
\* annotations changed since. A failure, even one whose update was written, is
\* left to the next event or poll.
UpdateNamespace(o) ==
    /\ At(o, "update")
    /\ LET v == job[o].vm IN
       \/ /\ phase[v] # "deleted" /\ marks[v] = job[o].read
          /\ marks' = [marks EXCEPT ![v] = @ \cup {job[o].result}]
          /\ Goto(o, "count") \/ (ApiFails /\ Become(o, Idle))
       \/ /\ phase[v] = "deleted" \/ marks[v] # job[o].read \/ ApiFails
          /\ Become(o, Idle)
          /\ UNCHANGED marks
    /\ UNCHANGED <<phase, late, key, counted, restarts>>

-----------------------------------------------------------------------------
(* EC2: recordBootOnce.                                                    *)

\* Get sees the instance running, the stuck reaper sees it pending too long;
\* the tags it carries need not show a tag that was just created.
SeeInstance(o, v) ==
    /\ At(o, "idle")
    /\ marks[v] = {} \/ v \in key
    /\ \/ /\ phase[v] = "running"
          /\ Become(o, [pc |-> "lock", vm |-> v, result |-> "success"])
       \/ /\ phase[v] = "pending" /\ v \in late
          /\ Become(o, [pc |-> "lock", vm |-> v, result |-> "failed"])
    /\ UNCHANGED <<phase, late, marks, key, counted, restarts>>

\* Mutant of SetNX: the key does not keep the others out.
SetKey(o) ==
    /\ At(o, "lock")
    /\ key' = key \cup {job[o].vm}
    /\ Goto(o, "tag")
    /\ UNCHANGED <<phase, late, marks, counted, restarts>>

\* SetNX on the instance's key; without it nothing is recorded.
SetNX(o) ==
    /\ At(o, "lock")
    /\ LET v == job[o].vm IN
       \/ /\ v \notin key
          /\ key' = key \cup {v}
          /\ Goto(o, "tag")
       \/ /\ v \in key \/ ApiFails
          /\ Become(o, Idle)
          /\ UNCHANGED key
    /\ UNCHANGED <<phase, late, marks, counted, restarts>>

\* CreateTags comes before the count; if it fails, with the tag written or not,
\* the key is given back.
CreateTags(o) ==
    /\ At(o, "tag")
    /\ \/ /\ marks' = [marks EXCEPT ![job[o].vm] = @ \cup {job[o].result}]
          /\ Goto(o, "count") \/ (ApiFails /\ Goto(o, "unlock"))
       \/ /\ ApiFails
          /\ Goto(o, "unlock")
          /\ UNCHANGED marks
    /\ UNCHANGED <<phase, late, key, counted, restarts>>

\* Del of the key; if that fails too, the key stays until it expires.
DeleteKey(o) ==
    /\ At(o, "unlock")
    /\ \/ key' = key \ {job[o].vm}
       \/ ApiFails /\ UNCHANGED key
    /\ Become(o, Idle)
    /\ UNCHANGED <<phase, late, marks, counted, restarts>>

\* bootRecordLockTTL passes: it outlasts every call that read the instance
\* before the key was set, and the propagation of the tag.
ExpireKey(v) ==
    /\ v \in key
    /\ {o \in Observer : ~At(o, "idle") /\ job[o].vm = v} = {}
    /\ key' = key \ {v}
    /\ UNCHANGED <<phase, late, marks, counted, job, restarts>>

-----------------------------------------------------------------------------

\* RecordBoot, only after the annotation or the tag is written.
RecordBoot(o) ==
    /\ At(o, "count")
    /\ counted' = [counted EXCEPT ![job[o].vm][job[o].result] =
                      IF @ < CountCap THEN @ + 1 ELSE @]
    /\ Become(o, Idle)
    /\ UNCHANGED <<phase, late, marks, key, restarts>>

\* The VM boots, stops, is deleted; time passes; the API process restarts.
VMChanges(v) ==
    /\ \/ /\ phase[v] = "pending"
          /\ \E p \in {"running", "stopped"} : phase' = [phase EXCEPT ![v] = p]
       \/ phase[v] = "running" /\ phase' = [phase EXCEPT ![v] = "stopped"]
       \/ phase[v] # "deleted" /\ phase' = [phase EXCEPT ![v] = "deleted"]
    /\ UNCHANGED <<late, marks, key, counted, job, restarts>>

TimePasses(v) ==
    /\ phase[v] # "deleted"
    /\ late' = late \cup {v}
    /\ UNCHANGED <<phase, marks, key, counted, job, restarts>>

Restart ==
    /\ restarts < MaxRestarts
    /\ restarts' = restarts + 1
    /\ job' = [o \in Observer |-> Idle]
    /\ UNCHANGED <<phase, late, marks, key, counted>>

Look(o) == (\E v \in OnpremVM : SeeVMI(o, v)) \/ (\E v \in CloudVM : SeeInstance(o, v))

Continue(o) ==
    \/ ReadNamespace(o) \/ UpdateNamespace(o)
    \/ SetNX(o) \/ CreateTags(o) \/ DeleteKey(o)
    \/ RecordBoot(o)

Next ==
    \/ \E o \in Observer : Look(o) \/ Continue(o)
    \/ \E v \in CloudVM : ExpireKey(v)
    \/ \E v \in VM : VMChanges(v) \/ TimePasses(v)
    \/ Restart

Spec == Init /\ [][Next]_vars

\* The informer goes on, resyncs every 30 s, and the Kubernetes API answers it
\* again and again. Nothing is assumed of the other goroutines.
Sees(v) == SeeVMI(Watcher, v) /\ job'[Watcher].result = "success"
Reads == ReadNamespace(Watcher) /\ job[Watcher].result = "success" /\ job'[Watcher] # Idle
Writes == UpdateNamespace(Watcher) /\ job[Watcher].result = "success" /\ marks' # marks

Fairness ==
    /\ WF_vars(Continue(Watcher))
    /\ \A v \in OnpremVM : SF_vars(Sees(v))
    /\ SF_vars(Reads)
    /\ SF_vars(Writes)

FairSpec == Spec /\ Fairness

-----------------------------------------------------------------------------
(* The inductive invariant of BootStatusProofs.                            *)

\* An observer of VM v between its first call and the end of the record.
Busy(o, v) == ~At(o, "idle") /\ job[o].vm = v

\* An observer of instance v that got the key.
Holds(o, v) == Busy(o, v) /\ ~At(o, "lock")

\* syncBootStatus is about on-prem VMs, recordBootOnce about instances.
Placed ==
    \A o \in Observer :
        /\ At(o, "sync") \/ At(o, "update") => job[o].vm \in OnpremVM
        /\ At(o, "lock") \/ At(o, "tag") \/ At(o, "unlock") => job[o].vm \in CloudVM

\* An update is only sent for a result that the annotations read do not have.
UpdatesAreNews ==
    \A o \in Observer : At(o, "update") => ~AlreadyRecorded(job[o].result, job[o].read)

\* What is counted was marked before, and one observer alone counts a result
\* that it has just marked.
CountFollowsMark ==
    /\ \A v \in VM, r \in Result :
          counted[v][r] <= 1 /\ (counted[v][r] = 1 => r \in marks[v])
    /\ \A o \in Observer : At(o, "count") =>
          /\ job[o].result \in marks[job[o].vm]
          /\ counted[job[o].vm][job[o].result] = 0
    /\ \A o, p \in Observer :
          (/\ At(o, "count") /\ At(p, "count")
           /\ job[o].vm = job[p].vm /\ job[o].result = job[p].result) => o = p

\* The key of an instance has at most one holder.
OneHolder ==
    \A v \in CloudVM :
        /\ \A o, p \in Observer : Holds(o, v) /\ Holds(p, v) => o = p
        /\ \A o \in Observer : Holds(o, v) => v \in key

\* An instance whose boot was counted is tagged and has no holder, and once the
\* key has expired nobody looks at it.
CountedIsOver ==
    \A v \in CloudVM :
        counted[v] # [r \in Result |-> 0] =>
            /\ marks[v] # {}
            /\ counted[v]["success"] + counted[v]["failed"] = 1
            /\ \A o \in Observer : ~Holds(o, v)
            /\ \A o \in Observer : Busy(o, v) => v \in key

BootInv ==
    /\ TypeOK
    /\ Placed
    /\ UpdatesAreNews
    /\ CountFollowsMark
    /\ OneHolder
    /\ CountedIsOver

-----------------------------------------------------------------------------
(* Properties.                                                             *)

\* However many goroutines see the same VM at once, and whatever calls fail or
\* crash, neither result is counted twice, and an instance's boot is counted once
\* in all (recordBootOnce).
EachResultCountedOnce ==
    /\ \A v \in VM, r \in Result : counted[v][r] <= 1
    /\ \A v \in CloudVM : counted[v]["success"] + counted[v]["failed"] <= 1

NoLateFailure ==
    \A v \in OnpremVM :
        "success" \in marks[v] => ("failed" \in marks'[v] => "failed" \in marks[v])

\* The end of a VM that was ready is not counted as a failed boot (watcher.go
\* 113-114): once ready-at is written, no failure is recorded any more.
ReadyIsNotFailed == [][NoLateFailure]_vars

\* A VM that runs gets its ready-at (watcher.go 98-105), even one that was recorded
\* as failed when it came up too late, although updates conflict and calls fail.
RunningIsRecorded ==
    \A v \in OnpremVM :
        (phase[v] = "running") ~> ("success" \in marks[v] \/ phase[v] # "running")

=============================================================================
