--------------------------- MODULE CheckerProofs ---------------------------
(***************************************************************************)
(* The verdicts of the checks, for steps of any length and any set of      *)
(* checks: a pass says that the condition held while the check ran, and a  *)
(* failure of a complete check that it did not, whatever the learner does  *)
(* to the VM meanwhile.                                                    *)
(***************************************************************************)
EXTENDS Checker, TLAPS

-----------------------------------------------------------------------------
(* One Exec.                                                               *)

\* Judge gives one of four verdicts, and asks for a second command only in
\* runFileContentAbsent, after the first.
LEMMA JudgeValues ==
    ASSUME NEW c \in Check, NEW second \in BOOLEAN, NEW link, NEW v \in VM
    PROVE  /\ Judge(c, second, link, v) \in {"pass", "fail", "request_error", "second"}
           /\ Judge(c, second, link, v) = "second" =>
                 c.type = "file_content_absent" /\ ~second
BY DEF Judge, ByAbsence, ByOutput, ByStatus

\* A refused check fails, and a deadline is a request error.
LEMMA JudgeDecided ==
    ASSUME NEW c \in Check, NEW second \in BOOLEAN, NEW link, NEW v \in VM
    PROVE  /\ Refused(c) => Judge(c, second, link, v) = "fail"
           /\ ~Refused(c) /\ link = "deadline" => Judge(c, second, link, v) = "request_error"
BY DEF Judge

\* A check that is sent over a link that works is judged by its kind.
LEMMA JudgeReached ==
    ASSUME NEW c \in Check, NEW second \in BOOLEAN, NEW v \in VM, ~Refused(c)
    PROVE  /\ c.type = "file_content_absent" =>
                 Judge(c, second, "ok", v)
                     = ByAbsence(c, second, Succeeds(Command(c, second), v), v)
           /\ c.type \in {"command", "file_content", "http_response"} =>
                 Judge(c, second, "ok", v) = ByOutput(c, Succeeds(Command(c, second), v), v)
           /\ c.type \in {"file_exists", "dir_exists", "file_absent", "process_running"} =>
                 Judge(c, second, "ok", v) = ByStatus(c, Succeeds(Command(c, second), v), v)
BY DEF Judge, ByAbsence, ByOutput, ByStatus

\* The checks whose verdict is the exit status of their command: it is 0 exactly
\* if their condition holds.
LEMMA StatusIsCondition ==
    ASSUME NEW c \in Check, NEW v \in VM, NEW second \in BOOLEAN,
           c.type \in {"file_exists", "dir_exists", "file_absent", "process_running"}
    PROVE  Succeeds(Command(c, second), v) <=> Condition(c, v)
<1>1. CASE c.type = "file_exists"
    BY <1>1 DEF Command, Succeeds, Condition
<1>2. CASE c.type = "dir_exists"
    BY <1>2 DEF Command, Succeeds, Condition
<1>3. CASE c.type = "file_absent"
    BY <1>3 DEF Command, Succeeds, Condition
<1>4. CASE c.type = "process_running"
    BY <1>4 DEF Command, Succeeds, Condition
<1> QED BY <1>1, <1>2, <1>3, <1>4

\* The checks whose verdict is their command's output: it matches exactly if
\* their condition holds, unless they have no expect; and then it succeeded.
LEMMA OutputIsCondition ==
    ASSUME NEW c \in Check, NEW v \in VM, NEW second \in BOOLEAN,
           c.type \in {"command", "file_content", "http_response"}, c.form # "noexpect"
    PROVE  /\ Matches(Command(c, FALSE), v) <=> Condition(c, v)
           /\ Matches(Command(c, FALSE), v) => Succeeds(Command(c, second), v)
<1>1. CASE c.type = "command"
    BY <1>1 DEF Command, Succeeds, Matches, Condition
<1>2. CASE c.type = "file_content"
    BY <1>2 DEF Command, Succeeds, Matches, Condition, IsFile
<1>3. CASE c.type = "http_response"
    BY <1>3 DEF Command, Succeeds, Matches, Condition
<1> QED BY <1>1, <1>2, <1>3

\* runFileContentAbsent over a link that works: it passes only if there is no
\* file, or one without the content.
LEMMA AbsenceIsCondition ==
    ASSUME NEW c \in Check, NEW v \in VM, NEW second \in BOOLEAN,
           c.type = "file_content_absent",
           ByAbsence(c, second, Succeeds(Command(c, second), v), v) = "pass"
    PROVE  Condition(c, v)
<1>1. CASE second
    BY <1>1 DEF Command, Succeeds, Matches, Condition, IsFile, ByAbsence
<1>2. CASE ~second
    BY <1>2 DEF Command, Succeeds, Condition, ByAbsence
<1> QED BY <1>1, <1>2

\* A pass is true of the VM, unless file_content_absent could not reach it.
LEMMA JudgePass ==
    ASSUME NEW c \in Check, NEW v \in VM, NEW second \in BOOLEAN,
           NEW link \in {"ok", "deadline", "error"},
           Judge(c, second, link, v) = "pass"
    PROVE  \/ Condition(c, v)
           \/ c.type = "file_content_absent" /\ link = "error"
<1>1. ~Refused(c) /\ link # "deadline"
    BY JudgeDecided
<1>2. CASE link = "error"
    BY <1>1, <1>2 DEF Judge, ByOutput, ByStatus
<1>3. ASSUME link = "ok" PROVE Condition(c, v)
    <2> DEFINE ok == Succeeds(Command(c, second), v)
    <2>1. /\ c.type = "file_content_absent" => ByAbsence(c, second, ok, v) = "pass"
          /\ c.type \in {"command", "file_content", "http_response"} =>
                ByOutput(c, ok, v) = "pass"
          /\ c.type \in {"file_exists", "dir_exists", "file_absent", "process_running"} =>
                ByStatus(c, ok, v) = "pass"
        BY <1>1, <1>3, JudgeReached
    <2> HIDE DEF ok
    <2>2. CASE c.type = "file_content_absent"
        BY <2>1, <2>2, AbsenceIsCondition DEF ok
    <2>3. CASE c.type \in {"command", "file_content", "http_response"}
        <3>1. ByOutput(c, ok, v) = "pass"
            BY <2>1, <2>3
        <3>2. c.form # "noexpect" /\ Matches(Command(c, FALSE), v)
            BY <3>1 DEF ByOutput
        <3> QED BY <2>3, <3>2, OutputIsCondition
    <2>4. CASE c.type \in {"file_exists", "dir_exists", "file_absent", "process_running"}
        <3>1. ByStatus(c, ok, v) = "pass"
            BY <2>1, <2>4
        <3>2. ok
            BY <3>1 DEF ByStatus
        <3> QED BY <2>4, <3>2, StatusIsCondition DEF ok
    <2>5. c.type # "unknown"
        BY <1>1 DEF Refused
    <2> QED BY <2>2, <2>3, <2>4, <2>5 DEF Check, CheckType
<1> QED BY <1>1, <1>2, <1>3

\* A complete check that fails on a VM that was reached is right.
LEMMA JudgeFail ==
    ASSUME NEW c \in Check, NEW v \in VM, NEW second \in BOOLEAN,
           NEW link \in {"ok", "deadline"},
           c.form = "complete", c.type # "file_content_absent",
           Judge(c, second, link, v) = "fail"
    PROVE  ~Condition(c, v)
<1>1. CASE c.type = "unknown"
    BY <1>1 DEF Condition
<1>2. CASE c.type # "unknown"
    <2> DEFINE ok == Succeeds(Command(c, second), v)
    <2>1. ~Refused(c)
        BY <1>2 DEF Refused
    <2>2. link = "ok"
        BY <2>1, JudgeDecided
    <2>3. /\ c.type \in {"command", "file_content", "http_response"} =>
                ByOutput(c, ok, v) = "fail"
          /\ c.type \in {"file_exists", "dir_exists", "file_absent", "process_running"} =>
                ByStatus(c, ok, v) = "fail"
        BY <2>1, <2>2, JudgeReached
    <2> HIDE DEF ok
    <2>4. CASE c.type \in {"command", "file_content", "http_response"}
        <3>1. ByOutput(c, ok, v) = "fail"
            BY <2>3, <2>4
        <3>2. ~ok \/ ~Matches(Command(c, FALSE), v)
            BY <3>1 DEF ByOutput
        <3> QED BY <2>4, <3>2, OutputIsCondition DEF ok
    <2>5. CASE c.type \in {"file_exists", "dir_exists", "file_absent", "process_running"}
        <3>1. ByStatus(c, ok, v) = "fail"
            BY <2>3, <2>5
        <3>2. ~ok
            BY <3>1 DEF ByStatus
        <3> QED BY <2>5, <3>2, StatusIsCondition DEF ok
    <2> QED BY <1>2, <2>4, <2>5 DEF Check, CheckType
<1> QED BY <1>1, <1>2

-----------------------------------------------------------------------------
(* The invariant.                                                          *)

\* The check that runs is one of the step's.
LEMMA ThisIsACheck ==
    ASSUME TypeOK, Len(results) < Len(checks)
    PROVE  This \in Check
BY CheckerAssumption DEF TypeOK, This

\* At the start no check has run.
LEMMA InitChecker == Init => CheckerInv
<1> SUFFICES ASSUME Init PROVE CheckerInv
    OBVIOUS
<1>1. PICK n \in 1 .. MaxChecks : checks \in [1 .. n -> CheckSet]
    BY DEF Init
<1>2. checks \in Seq(CheckSet) /\ Len(checks) = n
    BY <1>1, CheckerAssumption
<1>3. results = <<>> /\ Len(results) = 0 /\ results \in Seq(CheckResult) /\ pc = "validate"
    BY DEF Init
<1>4. TypeOK
    <2>1. Len(checks) \in 1 .. MaxChecks /\ Len(results) <= Len(checks)
        BY <1>2, <1>3, CheckerAssumption
    <2> QED BY <1>2, <1>3, <2>1 DEF Init, TypeOK
<1> QED
    BY <1>3, <1>4
    DEF CheckerInv, RunningIsObserved, SecondIsAbsence, ResultsFollowPc, PassHeld,
        FailureIsTheLearners

\* handle validates the checks: the first one starts to run, or none does.
LEMMA ValidateStep == CheckerInv /\ ValidateChecks => CheckerInv'
<1> SUFFICES ASSUME CheckerInv, ValidateChecks PROVE CheckerInv'
    OBVIOUS
<1>1. /\ results = <<>> /\ Len(results) = 0 /\ UNCHANGED <<checks, vm, results>>
      /\ pc' \in {"run", "rejected"}
    BY DEF CheckerInv, ResultsFollowPc, ValidateChecks
<1>2. pc' = "run" => /\ held' = (FALSE \/ Condition(This, vm))
                     /\ missed' = (FALSE \/ ~Condition(This, vm))
    BY DEF ValidateChecks, Observe
<1>3. held' \in BOOLEAN /\ missed' \in BOOLEAN
    BY <1>1, <1>2 DEF ValidateChecks, CheckerInv, TypeOK
<1>4. TypeOK'
    BY <1>1, <1>3 DEF CheckerInv, TypeOK
<1>5. This' = This
    BY <1>1 DEF This
<1>6. RunningIsObserved'
    <2>1. Len(results) < Len(checks)
        BY <1>1 DEF CheckerInv, TypeOK
    <2>2. Condition(This, vm)' <=> Condition(This, vm)
        BY <1>1 DEF This, Condition, IsFile
    <2> QED BY <1>1, <1>2, <2>1, <2>2 DEF RunningIsObserved
<1>7. SecondIsAbsence' /\ ResultsFollowPc' /\ PassHeld' /\ FailureIsTheLearners'
    BY <1>1 DEF SecondIsAbsence, ResultsFollowPc, PassHeld, FailureIsTheLearners
<1> QED BY <1>4, <1>6, <1>7 DEF CheckerInv

\* The learner changes the VM: the condition of the running check is seen again.
LEMMA LearnerStep == CheckerInv /\ LearnerActs => CheckerInv'
<1> SUFFICES ASSUME CheckerInv, LearnerActs PROVE CheckerInv'
    OBVIOUS
<1>1. vm' \in VM /\ UNCHANGED <<checks, pc, results>> /\ pc \in {"run", "second"}
    BY DEF LearnerActs
<1>2. held' = (held \/ Condition(This, vm')) /\ missed' = (missed \/ ~Condition(This, vm'))
    BY DEF LearnerActs, Observe
<1>3. TypeOK'
    BY <1>1, <1>2 DEF CheckerInv, TypeOK
<1>4. This' = This
    BY <1>1 DEF This
<1>5. Condition(This, vm)' <=> Condition(This, vm')
    BY <1>1 DEF This, Condition, IsFile
<1>6. RunningIsObserved'
    BY <1>1, <1>2, <1>5 DEF CheckerInv, RunningIsObserved
<1>7. SecondIsAbsence' /\ ResultsFollowPc' /\ PassHeld' /\ FailureIsTheLearners'
    BY <1>1, <1>4
    DEF CheckerInv, SecondIsAbsence, ResultsFollowPc, PassHeld, FailureIsTheLearners
<1> QED BY <1>3, <1>6, <1>7 DEF CheckerInv

\* A check decides: its result is right, and the next one is seen from scratch.
LEMMA DecideStep ==
    ASSUME CheckerInv, NEW link \in Links, Run(link),
           Judge(This, pc = "second", link, vm) # "second"
    PROVE  CheckerInv'
<1> DEFINE verdict == Judge(This, pc = "second", link, vm)
           n == Len(results)
           r == [res |-> verdict, held |-> held, missed |-> missed, link |-> link]
<1>1. /\ pc \in {"run", "second"} /\ UNCHANGED <<checks, vm>>
      /\ results' = Append(results, r)
      /\ IF n + 1 = Len(checks) THEN pc' = "done" /\ UNCHANGED <<held, missed>>
         ELSE pc' = "run" /\ Observe(checks[n + 2], vm, FALSE, FALSE)
    BY DEF Run
<1>2. /\ n \in Nat /\ n < Len(checks) /\ This \in Check /\ vm \in VM
      /\ link \in {"ok", "deadline", "error"} /\ (pc = "second") \in BOOLEAN
      /\ Len(checks) \in Nat /\ results \in Seq(CheckResult) /\ checks \in Seq(CheckSet)
    BY <1>1, ThisIsACheck, CheckerAssumption DEF CheckerInv, RunningIsObserved, TypeOK
<1>3. verdict \in {"pass", "fail", "request_error"}
    <2>1. verdict \in {"pass", "fail", "request_error", "second"}
        BY <1>2, JudgeValues
    <2> QED BY <2>1
<1>4. r \in CheckResult
    BY <1>2, <1>3 DEF CheckResult, CheckerInv, TypeOK
<1>5. /\ results' \in Seq(CheckResult) /\ Len(results') = n + 1 /\ results'[n + 1] = r
      /\ \A i \in 1 .. n : results'[i] = results[i]
    BY <1>1, <1>2, <1>4
<1>6. verdict = "pass" => held \/ (This.type = "file_content_absent" /\ link = "error")
    BY <1>1, <1>2, JudgePass DEF CheckerInv, RunningIsObserved
<1>7. (/\ verdict = "fail" /\ link # "error"
       /\ This.form = "complete" /\ This.type # "file_content_absent") => missed
    BY <1>1, <1>2, JudgeFail DEF CheckerInv, RunningIsObserved
<1>8. checks[n + 1] = This
    BY DEF This
<1>9. r.res = verdict /\ r.held = held /\ r.missed = missed /\ r.link = link
    OBVIOUS
<1> HIDE DEF verdict, r
<1>10. PassHeld'
    <2> SUFFICES ASSUME NEW i \in 1 .. n + 1, results'[i].res = "pass"
                 PROVE  \/ results'[i].held
                        \/ checks[i].type = "file_content_absent" /\ results'[i].link = "error"
        BY <1>1, <1>5 DEF PassHeld
    <2>1. CASE i = n + 1
        BY <1>5, <1>6, <1>8, <1>9, <2>1
    <2>2. CASE i \in 1 .. n
        BY <1>5, <2>2 DEF CheckerInv, PassHeld
    <2> QED BY <1>2, <2>1, <2>2
<1>11. FailureIsTheLearners'
    <2> SUFFICES ASSUME NEW i \in 1 .. n + 1,
                        results'[i].res = "fail", results'[i].link # "error",
                        checks[i].form = "complete", checks[i].type # "file_content_absent"
                 PROVE  results'[i].missed
        BY <1>1, <1>5 DEF FailureIsTheLearners
    <2>1. CASE i = n + 1
        BY <1>5, <1>7, <1>8, <1>9, <2>1
    <2>2. CASE i \in 1 .. n
        BY <1>5, <2>2 DEF CheckerInv, FailureIsTheLearners
    <2> QED BY <1>2, <2>1, <2>2
<1>12. pc' \in {"run", "done"} /\ (pc' = "done" => n + 1 = Len(checks))
       /\ (pc' = "run" => n + 1 # Len(checks))
    BY <1>1
<1>13. SecondIsAbsence' /\ ResultsFollowPc'
    BY <1>1, <1>5, <1>12 DEF SecondIsAbsence, ResultsFollowPc
<1>14. held' \in BOOLEAN /\ missed' \in BOOLEAN
    <2>1. held \in BOOLEAN /\ missed \in BOOLEAN
        BY DEF CheckerInv, TypeOK
    <2> QED BY <1>1, <2>1 DEF Observe
<1>15. TypeOK'
    BY <1>1, <1>2, <1>5, <1>12, <1>14 DEF CheckerInv, TypeOK
<1>16. RunningIsObserved'
    <2> SUFFICES ASSUME pc' = "run"
                 PROVE  /\ Len(results') < Len(checks')
                        /\ Condition(This, vm)' => held'
                        /\ ~Condition(This, vm)' => missed'
        BY <1>12 DEF RunningIsObserved
    <2>1. Len(results') < Len(checks')
        BY <1>1, <1>2, <1>5, <1>12
    <2>2. Observe(checks[n + 2], vm, FALSE, FALSE)
        BY <1>1, <1>12
    <2>3. This' = checks[n + 2]
        BY <1>1, <1>2, <1>5 DEF This
    <2>4. Condition(This, vm)' <=> Condition(checks[n + 2], vm)
        BY <1>1, <2>3 DEF Condition, IsFile
    <2> QED BY <2>1, <2>2, <2>4 DEF Observe
<1> QED BY <1>10, <1>11, <1>13, <1>15, <1>16 DEF CheckerInv

\* test -e succeeded: cat comes next, on the same check.
LEMMA SecondStep ==
    ASSUME CheckerInv, NEW link \in Links, Run(link),
           Judge(This, pc = "second", link, vm) = "second"
    PROVE  CheckerInv'
<1>1. /\ pc \in {"run", "second"} /\ pc' = "second"
      /\ UNCHANGED <<checks, vm, held, missed, results>>
    BY DEF Run
<1>2. This.type = "file_content_absent"
    <2>1. This \in Check /\ vm \in VM /\ (pc = "second") \in BOOLEAN
        BY <1>1, ThisIsACheck DEF CheckerInv, RunningIsObserved, TypeOK
    <2> QED BY <2>1, JudgeValues
<1>3. This' = This /\ (Condition(This, vm)' <=> Condition(This, vm))
    BY <1>1 DEF This, Condition, IsFile
<1>4. TypeOK'
    BY <1>1 DEF CheckerInv, TypeOK
<1>5. RunningIsObserved'
    BY <1>1, <1>3 DEF CheckerInv, RunningIsObserved
<1>6. SecondIsAbsence' /\ ResultsFollowPc' /\ PassHeld' /\ FailureIsTheLearners'
    BY <1>1, <1>2, <1>3
    DEF CheckerInv, SecondIsAbsence, ResultsFollowPc, PassHeld, FailureIsTheLearners
<1> QED BY <1>4, <1>5, <1>6 DEF CheckerInv

\* Every step keeps the invariant.
LEMMA NextChecker == CheckerInv /\ [Next]_vars => CheckerInv'
<1> SUFFICES ASSUME CheckerInv, [Next]_vars PROVE CheckerInv'
    OBVIOUS
<1>1. ASSUME NEW link \in Links, Run(link) PROVE CheckerInv'
    BY <1>1, DecideStep, SecondStep
<1>2. CASE UNCHANGED vars
    <2>1. UNCHANGED <<checks, vm, pc, held, missed, results>>
        BY <1>2 DEF vars
    <2>2. This' = This /\ (Condition(This, vm)' <=> Condition(This, vm))
        BY <2>1 DEF This, Condition, IsFile
    <2> QED
        BY <2>1, <2>2
        DEF CheckerInv, TypeOK, RunningIsObserved, SecondIsAbsence, ResultsFollowPc,
            PassHeld, FailureIsTheLearners
<1> QED BY <1>1, <1>2, ValidateStep, LearnerStep DEF Next

-----------------------------------------------------------------------------
(* The theorems.                                                           *)

\* The inductive invariant holds in every state, for any step and any learner.
THEOREM CheckerInvariant == Spec => []CheckerInv
BY InitChecker, NextChecker, PTL DEF Spec

\* Every variable keeps its type; RunAll never has more results than checks.
THEOREM CheckerTypeCorrect == Spec => []TypeOK
<1>1. CheckerInv => TypeOK
    BY DEF CheckerInv
<1> QED BY <1>1, CheckerInvariant, PTL

\* A step whose checks all pass is one where every condition held at some moment
\* while its check ran (RunAll), but for file_content_absent on a broken link.
THEOREM StepPassIsTrue == Spec => []PassIsTrue
<1>1. CheckerInv => PassIsTrue
    BY DEF CheckerInv, PassIsTrue, AllPassed, ResultsFollowPc, PassHeld
<1> QED BY <1>1, CheckerInvariant, PTL

\* A complete check that fails although the VM was reached was missed by the
\* learner: validateCheck and the checks agree on what a check needs.
THEOREM StepFailureIsTheLearners == Spec => []FailureIsTheLearners
<1>1. CheckerInv => FailureIsTheLearners
    BY DEF CheckerInv
<1> QED BY <1>1, CheckerInvariant, PTL

=============================================================================
