-------------------------- MODULE BootStatusProofs --------------------------
(***************************************************************************)
(* The accounting of boot results, for any number of VMs, instances and    *)
(* goroutines: neither result of a VM is counted twice, an instance is     *)
(* counted once in all, and a VM that was ready is not recorded as failed. *)
(***************************************************************************)
EXTENDS BootStatus, TLAPS

-----------------------------------------------------------------------------
(* What the types say of an observer.                                      *)

\* An observer that is not idle has a VM and a result.
LEMMA JobShape ==
    ASSUME TypeOK, NEW o \in Observer
    PROVE  /\ job[o].pc \in {"idle", "sync", "lock", "tag", "unlock", "count", "update"}
           /\ ~At(o, "idle") => job[o].vm \in VM /\ job[o].result \in Result
           /\ At(o, "update") => job[o].read \in SUBSET Result
BY DEF TypeOK, Job, At

\* An observer that goes on with its VM and its result.
LEMMA GotoShape ==
    ASSUME TypeOK, NEW o \in Observer, NEW pc, Goto(o, pc)
    PROVE  /\ job'[o] = [pc |-> pc, vm |-> job[o].vm, result |-> job[o].result]
           /\ \A p \in Observer \ {o} : job'[p] = job[p]
BY DEF TypeOK, Goto, Become

\* An observer that gives up or is done.
LEMMA IdleShape ==
    ASSUME TypeOK, NEW o \in Observer, NEW j, Become(o, j)
    PROVE  /\ job'[o] = j
           /\ \A p \in Observer \ {o} : job'[p] = job[p]
BY DEF TypeOK, Become

-----------------------------------------------------------------------------
(* Types.                                                                  *)

\* A step that only moves one observer to a job of the right shape.
LEMMA BecomeType ==
    ASSUME TypeOK, NEW o \in Observer, NEW j \in Job, Become(o, j)
    PROVE  job' \in [Observer -> Job]
BY DEF TypeOK, Become

\* Going on keeps the shape.
LEMMA GotoType ==
    ASSUME TypeOK, NEW o \in Observer, ~At(o, "idle"),
           NEW pc \in {"sync", "lock", "tag", "unlock", "count"}, Goto(o, pc)
    PROVE  job' \in [Observer -> Job]
<1>1. [pc |-> pc, vm |-> job[o].vm, result |-> job[o].result] \in Job
    BY JobShape DEF Job
<1> QED BY <1>1, BecomeType DEF Goto

\* Marking a VM.
LEMMA MarkType ==
    ASSUME TypeOK, NEW v \in VM, NEW r \in Result,
           marks' = [marks EXCEPT ![v] = @ \cup {r}]
    PROVE  marks' \in [VM -> SUBSET Result]
BY DEF TypeOK

\* An observer moves on: where it is placed decides for all of them.
LEMMA PlacedStep ==
    ASSUME TypeOK, Placed, NEW o \in Observer, NEW j, Become(o, j),
           j.pc \in {"sync", "update"} => j.vm \in OnpremVM,
           j.pc \in {"lock", "tag", "unlock"} => j.vm \in CloudVM
    PROVE  Placed'
BY DEF Placed, At, Become, TypeOK

\* Every step keeps the values of the variables in their types, and each
\* observer with a VM of its own kind.
LEMMA NextType == TypeOK /\ Placed /\ [Next]_vars => TypeOK' /\ Placed'
<1> SUFFICES ASSUME TypeOK, Placed, [Next]_vars PROVE TypeOK' /\ Placed'
    OBVIOUS
<1>i. Idle \in Job /\ Idle.pc = "idle"
    BY DEF Idle, Job
<1>g. ASSUME NEW o \in Observer, Become(o, Idle) PROVE job' \in [Observer -> Job] /\ Placed'
    BY <1>g, <1>i, BecomeType, PlacedStep
<1>c. ASSUME NEW o \in Observer, ~At(o, "idle"), Goto(o, "count")
      PROVE  job' \in [Observer -> Job] /\ Placed'
    <2>1. job' \in [Observer -> Job]
        BY <1>c, GotoType
    <2>2. Placed'
        BY <1>c, PlacedStep DEF Goto
    <2> QED BY <2>1, <2>2
<1>l. ASSUME NEW o \in Observer, ~At(o, "idle"), job[o].vm \in CloudVM,
             NEW pc \in {"tag", "unlock"}, Goto(o, pc)
      PROVE  job' \in [Observer -> Job] /\ Placed'
    <2>1. job' \in [Observer -> Job]
        BY <1>l, GotoType
    <2>2. Placed'
        BY <1>l, PlacedStep DEF Goto
    <2> QED BY <2>1, <2>2
<1>1. ASSUME NEW o \in Observer, Look(o) PROVE TypeOK' /\ Placed'
    <2>1. PICK v \in VM, pc \in {"sync", "lock"}, r \in Result :
            /\ Become(o, [pc |-> pc, vm |-> v, result |-> r])
            /\ pc = "sync" => v \in OnpremVM
            /\ pc = "lock" => v \in CloudVM
        BY <1>1 DEF Look, SeeVMI, SeeInstance, VM, Result
    <2>2. [pc |-> pc, vm |-> v, result |-> r] \in Job
        BY DEF Job
    <2>3. job' \in [Observer -> Job]
        BY <2>1, <2>2, BecomeType
    <2>4. Placed'
        BY <2>1, PlacedStep
    <2> QED BY <1>1, <2>3, <2>4 DEF Look, SeeVMI, SeeInstance, TypeOK
<1>2. ASSUME NEW o \in Observer, ReadNamespace(o) PROVE TypeOK' /\ Placed'
    <2>1. job[o].vm \in VM /\ job[o].result \in Result /\ job[o].vm \in OnpremVM
        BY <1>2, JobShape DEF ReadNamespace, At, Placed
    <2> DEFINE j == [pc |-> "update", vm |-> job[o].vm, result |-> job[o].result,
                     read |-> marks[job[o].vm]]
    <2>2. j \in Job /\ j.pc = "update" /\ j.vm = job[o].vm
        BY <2>1 DEF Job, TypeOK
    <2>3. Become(o, Idle) \/ Become(o, j)
        BY <1>2 DEF ReadNamespace
    <2> HIDE DEF j
    <2>4. CASE Become(o, Idle)
        BY <1>2, <2>4, <1>g DEF ReadNamespace, TypeOK
    <2>5. CASE Become(o, j)
        <3>1. job' \in [Observer -> Job]
            BY <2>2, <2>5, BecomeType
        <3>2. Placed'
            BY <2>1, <2>2, <2>5, PlacedStep
        <3> QED BY <1>2, <3>1, <3>2 DEF ReadNamespace, TypeOK
    <2> QED BY <2>3, <2>4, <2>5
<1>3. ASSUME NEW o \in Observer, UpdateNamespace(o) PROVE TypeOK' /\ Placed'
    <2>1. job[o].vm \in VM /\ job[o].result \in Result /\ ~At(o, "idle")
        BY <1>3, JobShape DEF UpdateNamespace, At
    <2>2. marks' \in [VM -> SUBSET Result]
        BY <1>3, <2>1, MarkType DEF UpdateNamespace, TypeOK
    <2>3. Goto(o, "count") \/ Become(o, Idle)
        BY <1>3 DEF UpdateNamespace
    <2>4. job' \in [Observer -> Job] /\ Placed'
        BY <2>1, <2>3, <1>g, <1>c
    <2> QED BY <1>3, <2>2, <2>4 DEF UpdateNamespace, TypeOK
<1>4. ASSUME NEW o \in Observer, SetNX(o) PROVE TypeOK' /\ Placed'
    <2>1. job[o].vm \in CloudVM /\ ~At(o, "idle")
        BY <1>4 DEF SetNX, At, Placed
    <2>2. Goto(o, "tag") \/ Become(o, Idle)
        BY <1>4 DEF SetNX
    <2>3. job' \in [Observer -> Job] /\ Placed'
        BY <2>1, <2>2, <1>g, <1>l
    <2> QED BY <1>4, <2>1, <2>3 DEF SetNX, TypeOK
<1>5. ASSUME NEW o \in Observer, CreateTags(o) PROVE TypeOK' /\ Placed'
    <2>1. job[o].vm \in CloudVM /\ job[o].vm \in VM /\ job[o].result \in Result
          /\ ~At(o, "idle")
        BY <1>5, JobShape DEF CreateTags, At, Placed
    <2>2. marks' \in [VM -> SUBSET Result]
        BY <1>5, <2>1, MarkType DEF CreateTags, TypeOK
    <2>3. Goto(o, "count") \/ Goto(o, "unlock")
        BY <1>5 DEF CreateTags
    <2>4. job' \in [Observer -> Job] /\ Placed'
        BY <2>1, <2>3, <1>c, <1>l
    <2> QED BY <1>5, <2>2, <2>4 DEF CreateTags, TypeOK
<1>6. ASSUME NEW o \in Observer, DeleteKey(o) PROVE TypeOK' /\ Placed'
    <2>1. job' \in [Observer -> Job] /\ Placed'
        BY <1>6, <1>g DEF DeleteKey
    <2> QED BY <1>6, <2>1 DEF DeleteKey, TypeOK
<1>7. ASSUME NEW o \in Observer, RecordBoot(o) PROVE TypeOK' /\ Placed'
    <2>1. job' \in [Observer -> Job] /\ Placed'
        BY <1>7, <1>g DEF RecordBoot
    <2>2. job[o].vm \in VM /\ job[o].result \in Result
        BY <1>7, JobShape DEF RecordBoot, At
    <2> DEFINE n == counted[job[o].vm][job[o].result]
               m == IF n < CountCap THEN n + 1 ELSE n
    <2>3. /\ m \in 0 .. CountCap
          /\ counted' = [counted EXCEPT ![job[o].vm] =
                            [counted[job[o].vm] EXCEPT ![job[o].result] = m]]
        <3>1. n \in 0 .. CountCap
            BY <2>2 DEF TypeOK
        <3>2. m \in 0 .. CountCap
            BY <3>1, BootAssumption
        <3>3. counted' = [counted EXCEPT ![job[o].vm][job[o].result] = m]
            BY <1>7, <2>2 DEF RecordBoot, TypeOK
        <3> QED BY <3>2, <3>3
    <2> HIDE DEF m
    <2>4. counted' \in [VM -> [Result -> 0 .. CountCap]]
        BY <2>2, <2>3 DEF TypeOK
    <2> QED BY <1>7, <2>1, <2>4 DEF RecordBoot, TypeOK
<1>8. ASSUME NEW v \in CloudVM, ExpireKey(v) PROVE TypeOK' /\ Placed'
    BY <1>8 DEF ExpireKey, TypeOK, Placed, At
<1>9. ASSUME NEW v \in VM, VMChanges(v) PROVE TypeOK' /\ Placed'
    BY <1>9 DEF VMChanges, TypeOK, Placed, At
<1>10. ASSUME NEW v \in VM, TimePasses(v) PROVE TypeOK' /\ Placed'
    BY <1>10 DEF TimePasses, TypeOK, Placed, At
<1>11. CASE Restart
    BY <1>11, <1>i, BootAssumption DEF Restart, TypeOK, Placed, At
<1>12. CASE UNCHANGED vars
    BY <1>12 DEF vars, TypeOK, Placed, At
<1> QED
    BY <1>1, <1>2, <1>3, <1>4, <1>5, <1>6, <1>7, <1>8, <1>9, <1>10, <1>11, <1>12
    DEF Next, Continue

-----------------------------------------------------------------------------
(* The invariant.                                                          *)

\* At the start nobody looks and nothing is counted.
LEMMA InitBoot == Init => BootInv
<1> SUFFICES ASSUME Init PROVE BootInv
    OBVIOUS
<1>1. TypeOK
    BY BootAssumption DEF Init, TypeOK, Idle, Job
<1>2. \A o \in Observer : job[o].pc = "idle"
    BY DEF Init, Idle
<1>3. \A v \in VM : counted[v] = [r \in Result |-> 0]
    BY DEF Init
<1>4. Placed /\ UpdatesAreNews /\ OneHolder
    BY <1>2 DEF Placed, UpdatesAreNews, OneHolder, Holds, Busy, At
<1>5. CountFollowsMark
    BY <1>2, <1>3 DEF CountFollowsMark, At
<1>6. CountedIsOver
    BY <1>3 DEF CountedIsOver, VM
<1> QED BY <1>1, <1>4, <1>5, <1>6 DEF BootInv

\* An observer is idle again, looks at a VM or has read its annotations; at
\* most a mark is added.
LEMMA QuietStep ==
    ASSUME BootInv, TypeOK', Placed', NEW o \in Observer, NEW j, Become(o, j),
           j.pc \in {"idle", "sync", "update", "lock"},
           j.pc = "update" => ~AlreadyRecorded(j.result, j.read),
           j.pc = "lock" => marks[j.vm] = {} \/ j.vm \in key,
           \A v \in VM : marks[v] \subseteq marks'[v],
           key' = key, counted' = counted
    PROVE  BootInv'
<1>1. job'[o] = j /\ \A p \in Observer \ {o} : job'[p] = job[p]
    BY IdleShape DEF BootInv
<1>2. UpdatesAreNews'
    BY <1>1 DEF BootInv, UpdatesAreNews, At, AlreadyRecorded
<1>3. CountFollowsMark'
    <2>1. \A p \in Observer : At(p, "count")' => p # o /\ At(p, "count") /\ job'[p] = job[p]
        BY <1>1 DEF At
    <2>2. \A p \in Observer : At(p, "count") => job[p].vm \in VM
        BY JobShape DEF BootInv, At
    <2> QED BY <2>1, <2>2 DEF BootInv, CountFollowsMark
<1>4. \A v \in CloudVM, p \in Observer :
        Holds(p, v)' => p # o /\ Holds(p, v)
    <2>1. \A v \in CloudVM : ~Holds(o, v)'
        BY <1>1, BootAssumption DEF Holds, Busy, At, Placed
    <2> QED BY <1>1, <2>1 DEF Holds, Busy, At
<1>5. OneHolder'
    BY <1>4 DEF BootInv, OneHolder
<1>6. CountedIsOver'
    <2> SUFFICES ASSUME NEW v \in CloudVM, counted[v] # [r \in Result |-> 0]
                 PROVE  /\ marks'[v] # {}
                        /\ counted[v]["success"] + counted[v]["failed"] = 1
                        /\ \A p \in Observer : ~Holds(p, v)'
                        /\ \A p \in Observer : Busy(p, v)' => v \in key
        BY DEF CountedIsOver
    <2>1. /\ marks[v] # {}
          /\ counted[v]["success"] + counted[v]["failed"] = 1
          /\ \A p \in Observer : ~Holds(p, v)
          /\ \A p \in Observer : Busy(p, v) => v \in key
        BY DEF BootInv, CountedIsOver
    <2>2. Busy(o, v)' => v \in key
        BY <1>1, <2>1, BootAssumption DEF Busy, At, Placed
    <2>3. \A p \in Observer : Busy(p, v)' => v \in key
        BY <1>1, <2>1, <2>2 DEF Busy, At
    <2> QED BY <1>4, <2>1, <2>3 DEF VM
<1> QED BY <1>2, <1>3, <1>5, <1>6 DEF BootInv

\* SetNX: the key had no holder, and nothing was counted.
LEMMA SetNXStep ==
    ASSUME BootInv, TypeOK', Placed', NEW o \in Observer, SetNX(o), Goto(o, "tag")
    PROVE  BootInv'
<1> DEFINE v == job[o].vm
<1>1. /\ job'[o] = [pc |-> "tag", vm |-> v, result |-> job[o].result]
      /\ \A p \in Observer \ {o} : job'[p] = job[p]
    BY GotoShape DEF BootInv
<1>2. /\ job[o].pc = "lock" /\ v \in CloudVM /\ v \in VM
      /\ marks' = marks /\ counted' = counted
    BY JobShape DEF SetNX, BootInv, Placed, At
<1>3. v \notin key /\ key' = key \cup {v}
    BY <1>1, IdleShape DEF SetNX, BootInv, Idle
<1>4. UpdatesAreNews'
    BY <1>1 DEF BootInv, UpdatesAreNews, At, AlreadyRecorded
<1>5. CountFollowsMark'
    <2>1. \A p \in Observer : At(p, "count")' => At(p, "count") /\ job'[p] = job[p]
        BY <1>1 DEF At
    <2> QED BY <1>2, <2>1 DEF BootInv, CountFollowsMark
<1>6. \A p \in Observer, w \in CloudVM :
        Holds(p, w)' <=> Holds(p, w) \/ (p = o /\ w = v)
    BY <1>1, <1>2 DEF Holds, Busy, At
<1>7. \A p \in Observer : ~Holds(p, v)
    BY <1>2, <1>3 DEF BootInv, OneHolder
<1>8. OneHolder'
    BY <1>3, <1>6, <1>7 DEF BootInv, OneHolder
<1>9. counted[v] = [r \in Result |-> 0]
    <2>1. Busy(o, v)
        BY <1>2 DEF Busy, At
    <2> QED BY <1>2, <1>3, <2>1 DEF BootInv, CountedIsOver
<1>10. \A p \in Observer, w \in CloudVM : Busy(p, w)' <=> Busy(p, w)
    BY <1>1, <1>2 DEF Busy, At
<1>11. CountedIsOver'
    BY <1>2, <1>3, <1>6, <1>9, <1>10 DEF BootInv, CountedIsOver
<1> QED BY <1>4, <1>5, <1>8, <1>11 DEF BootInv

\* CreateTags: its observer holds the key, so nothing was counted.
LEMMA CreateTagsStep ==
    ASSUME BootInv, TypeOK', Placed', NEW o \in Observer, CreateTags(o)
    PROVE  BootInv'
<1> DEFINE v == job[o].vm
<1>1. PICK pc \in {"count", "unlock"} :
        /\ Goto(o, pc)
        /\ pc = "count" => marks' = [marks EXCEPT ![v] = @ \cup {job[o].result}]
    BY DEF CreateTags
<1>2. /\ job'[o] = [pc |-> pc, vm |-> v, result |-> job[o].result]
      /\ \A p \in Observer \ {o} : job'[p] = job[p]
    BY <1>1, GotoShape DEF BootInv
<1>3. /\ job[o].pc = "tag" /\ v \in CloudVM /\ v \in VM /\ job[o].result \in Result
      /\ key' = key /\ counted' = counted
    BY JobShape DEF CreateTags, BootInv, Placed, At
<1>4. \A w \in VM : marks[w] \subseteq marks'[w]
    BY <1>3 DEF CreateTags, BootInv, TypeOK
<1>5. Holds(o, v)
    BY <1>3 DEF Holds, Busy, At
<1>6. counted[v] = [r \in Result |-> 0]
    BY <1>3, <1>5 DEF BootInv, CountedIsOver
<1>7. UpdatesAreNews'
    BY <1>2 DEF BootInv, UpdatesAreNews, At, AlreadyRecorded
<1>8. \A p \in Observer, w \in CloudVM :
        (Holds(p, w)' <=> Holds(p, w)) /\ (Busy(p, w)' <=> Busy(p, w))
    BY <1>2, <1>3 DEF Holds, Busy, At
<1>9. OneHolder'
    BY <1>3, <1>8 DEF BootInv, OneHolder
<1>10. CountedIsOver'
    BY <1>3, <1>4, <1>8 DEF BootInv, CountedIsOver, VM
<1>11. CountFollowsMark'
    <2>1. \A p \in Observer \ {o} : At(p, "count")' => At(p, "count") /\ job'[p] = job[p]
        BY <1>2 DEF At
    <2>2. \A p \in Observer \ {o} : At(p, "count") => job[p].vm # v /\ job[p].vm \in VM
        <3>1. \A p \in Observer : At(p, "count") /\ job[p].vm = v => Holds(p, v)
            BY DEF Holds, Busy, At
        <3>2. \A p \in Observer : At(p, "count") => job[p].vm \in VM
            BY JobShape DEF BootInv, At
        <3> QED BY <1>3, <1>5, <3>1, <3>2 DEF BootInv, OneHolder
    <2>3. At(o, "count")' => job[o].result \in marks'[v] /\ counted[v][job[o].result] = 0
        BY <1>1, <1>2, <1>3, <1>6 DEF At, BootInv, TypeOK
    <2>4. \A w \in VM, r \in Result :
            counted'[w][r] <= 1 /\ (counted'[w][r] = 1 => r \in marks'[w])
        BY <1>3, <1>4 DEF BootInv, CountFollowsMark
    <2>5. \A p \in Observer : At(p, "count")' =>
            /\ job'[p].result \in marks'[job'[p].vm]
            /\ counted'[job'[p].vm][job'[p].result] = 0
        BY <1>2, <1>3, <1>4, <2>1, <2>2, <2>3 DEF BootInv, CountFollowsMark
    <2>6. \A p, q \in Observer :
            (/\ At(p, "count")' /\ At(q, "count")'
             /\ job'[p].vm = job'[q].vm /\ job'[p].result = job'[q].result) => p = q
        BY <1>2, <2>1, <2>2 DEF BootInv, CountFollowsMark
    <2> QED BY <2>4, <2>5, <2>6 DEF CountFollowsMark
<1> QED BY <1>7, <1>9, <1>10, <1>11 DEF BootInv

\* Update: the annotations are the ones that were read, so the result is news.
LEMMA UpdateStep ==
    ASSUME BootInv, TypeOK', Placed', NEW o \in Observer, UpdateNamespace(o),
           Goto(o, "count"), marks' = [marks EXCEPT ![job[o].vm] = @ \cup {job[o].result}],
           marks[job[o].vm] = job[o].read
    PROVE  BootInv'
<1> DEFINE v == job[o].vm
           r == job[o].result
<1>1. /\ job'[o] = [pc |-> "count", vm |-> v, result |-> r]
      /\ \A p \in Observer \ {o} : job'[p] = job[p]
    BY GotoShape DEF BootInv
<1>2. /\ job[o].pc = "update" /\ v \in OnpremVM /\ v \in VM /\ r \in Result
      /\ key' = key /\ counted' = counted
    BY JobShape DEF UpdateNamespace, BootInv, Placed, At
<1>3. \A w \in VM : marks[w] \subseteq marks'[w]
    BY <1>2 DEF BootInv, TypeOK
<1>4. r \in marks'[v]
    BY <1>2 DEF BootInv, TypeOK
<1>5. r \notin marks[v]
    <2>1. ~AlreadyRecorded(r, marks[v])
        BY <1>2 DEF BootInv, UpdatesAreNews, At
    <2> QED BY <1>2, <2>1 DEF AlreadyRecorded, Result
<1>6. counted[v][r] = 0
    <2>1. counted[v][r] \in Nat /\ counted[v][r] <= 1 /\ counted[v][r] # 1
        BY <1>2, <1>5 DEF BootInv, CountFollowsMark, TypeOK
    <2> QED BY <2>1
<1>7. UpdatesAreNews'
    BY <1>1 DEF BootInv, UpdatesAreNews, At, AlreadyRecorded
<1>8. \A p \in Observer, w \in CloudVM :
        (Holds(p, w)' <=> Holds(p, w)) /\ (Busy(p, w)' <=> Busy(p, w))
    BY <1>1, <1>2, BootAssumption DEF Holds, Busy, At
<1>9. OneHolder'
    BY <1>2, <1>8 DEF BootInv, OneHolder
<1>10. CountedIsOver'
    BY <1>2, <1>3, <1>8 DEF BootInv, CountedIsOver, VM
<1>11. CountFollowsMark'
    <2>1. \A p \in Observer \ {o} : At(p, "count")' => At(p, "count") /\ job'[p] = job[p]
        BY <1>1 DEF At
    <2>2. \A p \in Observer : At(p, "count") =>
            job[p].vm \in VM /\ (job[p].vm # v \/ job[p].result # r)
        <3>1. \A p \in Observer : At(p, "count") => job[p].vm \in VM
            BY JobShape DEF BootInv, At
        <3> QED BY <1>5, <3>1 DEF BootInv, CountFollowsMark
    <2>3. \A w \in VM, q \in Result :
            counted'[w][q] <= 1 /\ (counted'[w][q] = 1 => q \in marks'[w])
        BY <1>2, <1>3 DEF BootInv, CountFollowsMark
    <2>4. \A p \in Observer : At(p, "count")' =>
            /\ job'[p].result \in marks'[job'[p].vm]
            /\ counted'[job'[p].vm][job'[p].result] = 0
        BY <1>1, <1>2, <1>3, <1>4, <1>6, <2>1, <2>2 DEF BootInv, CountFollowsMark
    <2>5. \A p, q \in Observer :
            (/\ At(p, "count")' /\ At(q, "count")'
             /\ job'[p].vm = job'[q].vm /\ job'[p].result = job'[q].result) => p = q
        BY <1>1, <2>1, <2>2 DEF BootInv, CountFollowsMark
    <2> QED BY <2>3, <2>4, <2>5 DEF CountFollowsMark
<1> QED BY <1>7, <1>9, <1>10, <1>11 DEF BootInv

\* Del: the observer held the key, so nothing was counted and nobody else did.
LEMMA DeleteKeyStep ==
    ASSUME BootInv, TypeOK', Placed', NEW o \in Observer, DeleteKey(o)
    PROVE  BootInv'
<1>0. PICK v : v = job[o].vm
    OBVIOUS
<1>1. job'[o].pc = "idle" /\ \A p \in Observer \ {o} : job'[p] = job[p]
    BY IdleShape DEF DeleteKey, BootInv, Idle
<1>2. /\ job[o].pc = "unlock" /\ v \in CloudVM
      /\ marks' = marks /\ counted' = counted
    BY <1>0 DEF DeleteKey, BootInv, Placed, At
<1>3. \A w \in CloudVM : w # v => (w \in key' <=> w \in key)
    BY <1>0 DEF DeleteKey
<1>4. Holds(o, v)
    BY <1>0, <1>2 DEF Holds, Busy, At
<1>5. counted[v] = [r \in Result |-> 0]
    BY <1>2, <1>4 DEF BootInv, CountedIsOver
<1>6. UpdatesAreNews'
    BY <1>1 DEF BootInv, UpdatesAreNews, At, AlreadyRecorded
<1>7. CountFollowsMark'
    <2>1. \A p \in Observer : At(p, "count")' => At(p, "count") /\ job'[p] = job[p]
        BY <1>1 DEF At
    <2> QED BY <1>2, <2>1 DEF BootInv, CountFollowsMark
<1>8. \A p \in Observer, w \in CloudVM :
        /\ Holds(p, w)' => p # o /\ Holds(p, w)
        /\ Busy(p, w)' => Busy(p, w)
    BY <1>1 DEF Holds, Busy, At
<1>9. \A p \in Observer : ~Holds(p, v)'
    BY <1>2, <1>4, <1>8 DEF BootInv, OneHolder
<1>10. OneHolder'
    BY <1>3, <1>8, <1>9 DEF BootInv, OneHolder
<1>11. CountedIsOver'
    BY <1>2, <1>3, <1>5, <1>8 DEF BootInv, CountedIsOver
<1> QED BY <1>6, <1>7, <1>10, <1>11 DEF BootInv

\* RecordBoot: the result was not counted; of an instance, nothing was.
LEMMA RecordBootStep ==
    ASSUME BootInv, TypeOK', Placed', NEW o \in Observer, RecordBoot(o)
    PROVE  BootInv'
<1> DEFINE v == job[o].vm
           r == job[o].result
<1>1. job'[o].pc = "idle" /\ \A p \in Observer \ {o} : job'[p] = job[p]
    BY IdleShape DEF RecordBoot, BootInv, Idle
<1>2. /\ job[o].pc = "count" /\ v \in VM /\ r \in Result
      /\ marks' = marks /\ key' = key
    BY JobShape DEF RecordBoot, BootInv, At
<1>3. counted[v][r] = 0 /\ r \in marks[v]
    BY <1>2 DEF BootInv, CountFollowsMark, At
<1>4. /\ counted'[v][r] = 1
      /\ \A w \in VM, q \in Result : (w # v \/ q # r) => counted'[w][q] = counted[w][q]
      /\ \A w \in VM : w # v => counted'[w] = counted[w]
    <2>1. counted' = [counted EXCEPT ![v][r] = 1]
        <3>1. counted[v][r] < CountCap /\ counted[v][r] + 1 = 1
            BY <1>3, BootAssumption
        <3>2. counted' = [counted EXCEPT ![v] = [counted[v] EXCEPT ![r] =
                             IF counted[v][r] < CountCap THEN counted[v][r] + 1
                             ELSE counted[v][r]]]
            BY <1>2 DEF RecordBoot, BootInv, TypeOK
        <3> QED BY <3>1, <3>2
    <2> HIDE DEF v, r
    <2> QED BY <1>2, <2>1 DEF BootInv, TypeOK
<1>5. UpdatesAreNews'
    BY <1>1 DEF BootInv, UpdatesAreNews, At, AlreadyRecorded
<1>6. CountFollowsMark'
    <2>1. \A p \in Observer : At(p, "count")' => p # o /\ At(p, "count") /\ job'[p] = job[p]
        BY <1>1 DEF At
    <2>2. \A p \in Observer : At(p, "count") => job[p].vm \in VM /\ job[p].result \in Result
        BY JobShape DEF BootInv, At
    <2>3. \A w \in VM, q \in Result :
            counted'[w][q] <= 1 /\ (counted'[w][q] = 1 => q \in marks'[w])
        BY <1>2, <1>3, <1>4 DEF BootInv, CountFollowsMark
    <2>4. \A p \in Observer : At(p, "count")' => job'[p].vm # v \/ job'[p].result # r
        BY <1>2, <2>1 DEF BootInv, CountFollowsMark, At
    <2>5. \A p \in Observer : At(p, "count")' =>
            /\ job'[p].result \in marks'[job'[p].vm]
            /\ counted'[job'[p].vm][job'[p].result] = 0
        BY <1>2, <1>4, <2>1, <2>2, <2>4 DEF BootInv, CountFollowsMark
    <2>6. \A p, q \in Observer :
            (/\ At(p, "count")' /\ At(q, "count")'
             /\ job'[p].vm = job'[q].vm /\ job'[p].result = job'[q].result) => p = q
        BY <2>1 DEF BootInv, CountFollowsMark
    <2> QED BY <2>3, <2>5, <2>6 DEF CountFollowsMark
<1>7. \A p \in Observer, w \in CloudVM :
        /\ Holds(p, w)' => p # o /\ Holds(p, w)
        /\ Busy(p, w)' => Busy(p, w)
    BY <1>1 DEF Holds, Busy, At
<1>8. OneHolder'
    BY <1>2, <1>7 DEF BootInv, OneHolder
<1>9. Holds(o, v)
    BY <1>2 DEF Holds, Busy, At
<1>10. CountedIsOver'
    <2> SUFFICES ASSUME NEW w \in CloudVM, counted'[w] # [q \in Result |-> 0]
                 PROVE  /\ marks[w] # {}
                        /\ counted'[w]["success"] + counted'[w]["failed"] = 1
                        /\ \A p \in Observer : ~Holds(p, w)'
                        /\ \A p \in Observer : Busy(p, w)' => w \in key
        BY <1>2 DEF CountedIsOver
    <2>1. CASE w = v
        <3>1. counted[v] = [q \in Result |-> 0]
            BY <1>9, <2>1 DEF BootInv, CountedIsOver
        <3>2. counted'[w]["success"] + counted'[w]["failed"] = 1
            <4>1. \A q \in Result : counted'[v][q] = IF q = r THEN 1 ELSE 0
                BY <1>2, <1>4, <3>1
            <4>2. r = "success" \/ r = "failed"
                BY <1>2 DEF Result
            <4>3. counted'[v]["success"] = (IF r = "success" THEN 1 ELSE 0)
                  /\ counted'[v]["failed"] = (IF r = "failed" THEN 1 ELSE 0)
                BY <4>1 DEF Result
            <4> QED BY <2>1, <4>2, <4>3
        <3>3. \A p \in Observer : ~Holds(p, w)'
            BY <1>7, <1>9, <2>1 DEF BootInv, OneHolder
        <3>4. w \in key
            BY <1>9, <2>1 DEF BootInv, OneHolder
        <3> QED BY <1>3, <2>1, <3>2, <3>3, <3>4
    <2>2. CASE w # v
        <3>1. counted'[w] = counted[w]
            BY <1>4, <2>2 DEF VM
        <3> QED BY <1>7, <3>1 DEF BootInv, CountedIsOver
    <2> QED BY <2>1, <2>2
<1> QED BY <1>5, <1>6, <1>8, <1>10 DEF BootInv

\* Nobody moves, and a key goes only when nobody looks at its instance.
LEMMA WorldStep ==
    ASSUME BootInv, TypeOK', Placed', UNCHANGED <<marks, counted, job>>,
           \A v \in CloudVM : v \in key =>
               v \in key' \/ \A o \in Observer : ~Busy(o, v)
    PROVE  BootInv'
<1>1. UpdatesAreNews' /\ CountFollowsMark'
    BY DEF BootInv, UpdatesAreNews, CountFollowsMark, At, AlreadyRecorded
<1>2. \A p \in Observer, w \in CloudVM :
        /\ Holds(p, w)' <=> Holds(p, w)
        /\ Busy(p, w)' <=> Busy(p, w)
        /\ Holds(p, w) => Busy(p, w)
    BY DEF Holds, Busy, At
<1>3. OneHolder'
    BY <1>2 DEF BootInv, OneHolder
<1>4. CountedIsOver'
    BY <1>2 DEF BootInv, CountedIsOver
<1> QED BY <1>1, <1>3, <1>4 DEF BootInv

\* Every step keeps the invariant.
LEMMA NextBoot == BootInv /\ [Next]_vars => BootInv'
<1> SUFFICES ASSUME BootInv, [Next]_vars PROVE BootInv'
    OBVIOUS
<1>t. TypeOK' /\ Placed'
    BY NextType DEF BootInv
<1>i. Idle.pc = "idle"
    BY DEF Idle
<1>m. ASSUME NEW v \in VM, NEW r, marks' = [marks EXCEPT ![v] = @ \cup {r}]
      PROVE  \A w \in VM : marks[w] \subseteq marks'[w]
    BY <1>m DEF BootInv, TypeOK
<1>1. ASSUME NEW o \in Observer, NEW v \in OnpremVM, SeeVMI(o, v) PROVE BootInv'
    <2>1. PICK r \in Result : Become(o, [pc |-> "sync", vm |-> v, result |-> r])
        BY <1>1 DEF SeeVMI, Result
    <2>2. UNCHANGED <<marks, key, counted>>
        BY <1>1 DEF SeeVMI
    <2> QED BY <1>t, <2>1, <2>2, QuietStep
<1>2. ASSUME NEW o \in Observer, NEW v \in CloudVM, SeeInstance(o, v) PROVE BootInv'
    <2>1. PICK r \in Result : Become(o, [pc |-> "lock", vm |-> v, result |-> r])
        BY <1>2 DEF SeeInstance, Result
    <2>2. UNCHANGED <<marks, key, counted>> /\ (marks[v] = {} \/ v \in key)
        BY <1>2 DEF SeeInstance
    <2> QED BY <1>t, <2>1, <2>2, QuietStep
<1>3. ASSUME NEW o \in Observer, ReadNamespace(o) PROVE BootInv'
    <2> DEFINE j == [pc |-> "update", vm |-> job[o].vm, result |-> job[o].result,
                     read |-> marks[job[o].vm]]
    <2>1. \/ Become(o, Idle)
          \/ Become(o, j) /\ ~AlreadyRecorded(job[o].result, marks[job[o].vm])
        BY <1>3 DEF ReadNamespace
    <2>2. UNCHANGED <<marks, key, counted>>
        BY <1>3 DEF ReadNamespace
    <2>3. CASE Become(o, Idle)
        BY <1>t, <1>i, <2>2, <2>3, QuietStep
    <2>4. ASSUME Become(o, j), ~AlreadyRecorded(job[o].result, marks[job[o].vm])
          PROVE  BootInv'
        <3>1. j.pc = "update" /\ ~AlreadyRecorded(j.result, j.read)
            BY <2>4
        <3> HIDE DEF j
        <3> QED BY <1>t, <2>2, <2>4, <3>1, QuietStep
    <2> QED BY <2>1, <2>3, <2>4
<1>4. ASSUME NEW o \in Observer, UpdateNamespace(o) PROVE BootInv'
    <2>1. job[o].vm \in VM /\ UNCHANGED <<key, counted>>
        BY <1>4, JobShape DEF UpdateNamespace, At, BootInv
    <2>2. \/ /\ marks[job[o].vm] = job[o].read
             /\ marks' = [marks EXCEPT ![job[o].vm] = @ \cup {job[o].result}]
             /\ Goto(o, "count")
          \/ /\ Become(o, Idle)
             /\ \/ marks' = [marks EXCEPT ![job[o].vm] = @ \cup {job[o].result}]
                \/ marks' = marks
        BY <1>4 DEF UpdateNamespace
    <2>3. CASE Become(o, Idle) /\ \A w \in VM : marks[w] \subseteq marks'[w]
        BY <1>t, <1>i, <2>1, <2>3, QuietStep
    <2> QED BY <1>t, <1>m, <1>4, <2>1, <2>2, <2>3, UpdateStep
<1>5. ASSUME NEW o \in Observer, SetNX(o) PROVE BootInv'
    <2>1. Goto(o, "tag") \/ (Become(o, Idle) /\ UNCHANGED <<key, marks, counted>>)
        BY <1>5 DEF SetNX
    <2>2. CASE Become(o, Idle) /\ UNCHANGED <<key, marks, counted>>
        BY <1>t, <1>i, <2>2, QuietStep
    <2> QED BY <1>t, <1>5, <2>1, <2>2, SetNXStep
<1>6. ASSUME NEW v \in CloudVM, ExpireKey(v) PROVE BootInv'
    <2>1. UNCHANGED <<marks, counted, job>> /\ key' = key \ {v}
        BY <1>6 DEF ExpireKey
    <2>2. \A o \in Observer : ~Busy(o, v)
        BY <1>6 DEF ExpireKey, Busy
    <2> QED BY <1>t, <2>1, <2>2, WorldStep
<1>7. ASSUME NEW v \in VM, VMChanges(v) \/ TimePasses(v) PROVE BootInv'
    BY <1>t, <1>7, WorldStep DEF VMChanges, TimePasses
<1>8. CASE Restart
    <2>1. UNCHANGED <<marks, counted, key>> /\ \A o \in Observer : job'[o].pc = "idle"
        BY <1>8 DEF Restart, Idle
    <2>2. UpdatesAreNews' /\ CountFollowsMark'
        BY <2>1 DEF BootInv, UpdatesAreNews, CountFollowsMark, At
    <2>3. OneHolder' /\ CountedIsOver'
        BY <2>1 DEF BootInv, OneHolder, CountedIsOver, Holds, Busy, At
    <2> QED BY <1>t, <2>2, <2>3 DEF BootInv
<1>9. CASE UNCHANGED vars
    BY <1>t, <1>9, WorldStep DEF vars
<1> QED
    BY <1>t, <1>1, <1>2, <1>3, <1>4, <1>5, <1>6, <1>7, <1>8, <1>9,
       CreateTagsStep, DeleteKeyStep, RecordBootStep
    DEF Next, Look, Continue

-----------------------------------------------------------------------------
(* The theorems.                                                           *)

\* The inductive invariant holds in every state, whatever fails or restarts.
THEOREM BootInvariant == Spec => []BootInv
BY InitBoot, NextBoot, PTL DEF Spec

\* Every variable keeps its type: an observer has the VM and the result its
\* next call needs, and only instances have a Redis key.
THEOREM BootTypeCorrect == Spec => []TypeOK
<1>1. BootInv => TypeOK
    BY DEF BootInv
<1> QED BY <1>1, BootInvariant, PTL

\* syncBootStatus and recordBootOnce: however many goroutines see a VM at once,
\* neither result is counted twice, and an instance is counted once in all.
THEOREM BootsCountedOnce == Spec => []EachResultCountedOnce
<1>1. BootInv => EachResultCountedOnce
    <2> SUFFICES ASSUME BootInv PROVE EachResultCountedOnce
        OBVIOUS
    <2>1. \A v \in VM, r \in Result : counted[v][r] <= 1
        BY DEF BootInv, CountFollowsMark
    <2>2. ASSUME NEW v \in CloudVM
          PROVE  counted[v]["success"] + counted[v]["failed"] <= 1
        <3>1. CASE counted[v] = [r \in Result |-> 0]
            BY <3>1 DEF Result
        <3>2. CASE counted[v] # [r \in Result |-> 0]
            BY <3>2 DEF BootInv, CountedIsOver
        <3> QED BY <3>1, <3>2
    <2> QED BY <2>1, <2>2 DEF EachResultCountedOnce
<1> QED BY <1>1, BootInvariant, PTL

\* A step adds no failure to the annotations of a VM that was ready: the update
\* was decided on annotations without ready-at, and these have not changed.
LEMMA NextNoLateFailure == BootInv /\ [Next]_vars => NoLateFailure
<1> SUFFICES ASSUME BootInv, [Next]_vars, NEW v \in OnpremVM,
                    "success" \in marks[v], "failed" \in marks'[v]
             PROVE  "failed" \in marks[v]
    BY DEF NoLateFailure
<1>1. ASSUME NEW o \in Observer, UpdateNamespace(o) PROVE "failed" \in marks[v]
    <2>1. job[o].vm \in VM /\ ~AlreadyRecorded(job[o].result, job[o].read)
        BY <1>1, JobShape DEF UpdateNamespace, At, BootInv, UpdatesAreNews
    <2>2. \/ marks' = marks
          \/ /\ marks[job[o].vm] = job[o].read
             /\ marks' = [marks EXCEPT ![job[o].vm] = @ \cup {job[o].result}]
        BY <1>1 DEF UpdateNamespace
    <2>3. CASE job[o].vm = v /\ marks[v] = job[o].read
        BY <2>1, <2>3 DEF AlreadyRecorded
    <2> QED BY <2>1, <2>2, <2>3 DEF BootInv, TypeOK, VM
<1>2. ASSUME NEW o \in Observer, CreateTags(o) PROVE "failed" \in marks[v]
    <2>1. job[o].vm \in CloudVM
        BY <1>2 DEF CreateTags, At, BootInv, Placed
    <2>2. marks'[v] = marks[v]
        BY <1>2, <2>1, BootAssumption DEF CreateTags, BootInv, TypeOK, VM
    <2> QED BY <2>2
<1>3. CASE marks' = marks
    BY <1>3
<1> QED
    BY <1>1, <1>2, <1>3
    DEF Next, Look, Continue, vars, SeeVMI, SeeInstance, ReadNamespace, SetNX,
        DeleteKey, RecordBoot, ExpireKey, VMChanges, TimePasses, Restart

\* watcher.go 113-114: once ready-at is written no failure is recorded any more,
\* although the end of a VM and its start are seen by goroutines that race.
THEOREM ReadyStaysReady == Spec => ReadyIsNotFailed
<1>1. BootInv /\ [Next]_vars => [NoLateFailure]_vars
    BY NextNoLateFailure
<1> QED BY <1>1, BootInvariant, PTL DEF Spec, ReadyIsNotFailed

=============================================================================
