------------------------------ MODULE Checker ------------------------------
(***************************************************************************)
(* The checks of a step (validation-engine/internal/checker/checker.go),   *)
(* the field validation that precedes them (validateCheck of               *)
(* cmd/engine/main.go) and the executor that carries their commands into   *)
(* the learner's VM, which the learner goes on changing meanwhile.         *)
(*                                                                         *)
(* Paths, commands, URLs and outputs are abstracted to how the checks tell *)
(* them apart: one path with a file that has the expected content or not,  *)
(* and one service standing for the process, the URL and the command.      *)
(***************************************************************************)
EXTENDS Naturals, Sequences

CONSTANTS
    CheckSet,   \* the checks a step may have
    MaxChecks,  \* bound on the number of checks of a step
    Links       \* how an Exec may fare: "ok", "deadline" and "error"

CheckType == {"command", "file_exists", "dir_exists", "file_absent",
              "file_content", "file_content_absent", "process_running",
              "http_response", "unknown"}

\* Is the check filled in? missing: an empty cmd, path, name or url; noexpect:
\* no expect or expect_code; unsafe: refused by the type's regular expression.
Form == {"complete", "missing", "noexpect", "unsafe"}

Check == [type : CheckType, form : Form]

ASSUME CheckerAssumption ==
    /\ CheckSet \subseteq Check
    /\ MaxChecks \in Nat \ {0}
    /\ Links \subseteq {"ok", "deadline", "error"}

\* The learner's VM as the checks see it: the path holds nothing, a directory,
\* or a file without or with the expected content; the service is absent,
\* or answers with or without the expected output.
VM == [file : {"absent", "dir", "without", "with"},
       service : {"absent", "without", "with"}]

VARIABLES
    checks,   \* req.Checks
    vm,       \* the state of the VM
    pc,       \* "validate", "run", "second", "done" or "rejected"
    held,     \* did the condition of the running check hold at some moment?
    missed,   \* ... and was it false at some moment?
    results   \* RunAll's results, each with held and missed

vars == <<checks, vm, pc, held, missed, results>>

CheckResult == [res : {"pass", "fail", "request_error"}, held : BOOLEAN,
                missed : BOOLEAN, link : {"ok", "deadline", "error"}]

TypeOK ==
    /\ checks \in Seq(CheckSet) /\ Len(checks) \in 1 .. MaxChecks
    /\ vm \in VM
    /\ pc \in {"validate", "run", "second", "done", "rejected"}
    /\ held \in BOOLEAN /\ missed \in BOOLEAN
    /\ results \in Seq(CheckResult) /\ Len(results) <= Len(checks)

-----------------------------------------------------------------------------
(* What a command does in the VM.                                          *)

IsFile(v) == v.file \in {"without", "with"}

\* The exit status of a command is 0.
Succeeds(cmd, v) ==
    CASE cmd = "test -f"   -> IsFile(v)
      [] cmd = "test -d"   -> v.file = "dir"
      [] cmd = "test ! -f" -> ~IsFile(v)
      [] cmd = "test -e"   -> v.file # "absent"
      [] cmd = "cat"       -> IsFile(v)
      [] OTHER             -> v.service # "absent"  \* pgrep, curl, the command

\* Its output contains what is expected.
Matches(cmd, v) == IF cmd = "cat" THEN v.file = "with" ELSE v.service = "with"

-----------------------------------------------------------------------------
(* The checks.                                                             *)

\* validateCheck: the fields a check of its type must have.
ValidateCheck(c) ==
    /\ c.type # "unknown"
    /\ c.form # "missing"
    /\ c.form = "noexpect" =>
          c.type \notin {"file_content", "file_content_absent", "http_response"}

\* Mutant of Command: directories are tested like files.
CommandDirAsFile(c, second) ==
    CASE c.type \in {"file_exists", "dir_exists"} -> "test -f"
      [] c.type = "file_absent"         -> "test ! -f"
      [] c.type = "file_content"        -> "cat"
      [] c.type = "file_content_absent" -> IF second THEN "cat" ELSE "test -e"
      [] OTHER                          -> "command"

\* The command of a check; file_content_absent has a second one.
Command(c, second) ==
    CASE c.type = "file_exists"         -> "test -f"
      [] c.type = "dir_exists"          -> "test -d"
      [] c.type = "file_absent"         -> "test ! -f"
      [] c.type = "file_content"        -> "cat"
      [] c.type = "file_content_absent" -> IF second THEN "cat" ELSE "test -e"
      [] c.type = "process_running"     -> "pgrep"
      [] c.type = "http_response"       -> "curl"
      [] OTHER                          -> "command"

\* The checks that fail before their command is sent.
Refused(c) ==
    \/ c.type = "unknown"
    \/ c.form \in {"missing", "unsafe"}
    \/ /\ c.form = "noexpect"
       /\ c.type \in {"file_content", "file_content_absent", "http_response"}

\* runFileExists, runDirExists, runFileAbsent, runProcessRunning: the command's
\* exit status decides.
ByStatus(c, ok, v) == IF ok THEN "pass" ELSE "fail"

\* Mutant of ByOutput: the output is not looked at.
ByOutputStatusOnly(c, ok, v) == IF ok THEN "pass" ELSE "fail"

\* runCommand, runFileContent, runHTTPResponse: so does its output. runCommand
\* looks at a missing expect only after the command ran.
ByOutput(c, ok, v) ==
    IF ok /\ c.form # "noexpect" /\ Matches(Command(c, FALSE), v)
    THEN "pass" ELSE "fail"

\* runFileContentAbsent: test -e, and if it succeeds cat, whose output must not
\* match.
ByAbsence(c, second, ok, v) ==
    CASE ~second /\ ok  -> "second"
      [] ~second /\ ~ok -> "pass"
      [] second /\ ok   -> IF Matches("cat", v) THEN "fail" ELSE "pass"
      [] OTHER          -> "fail"

\* One Exec of a check over a link, and what the check makes of its error: only
\* context.DeadlineExceeded is told from a command that failed. "error" stands
\* for a connection that fails otherwise, and for a virtctl process killed at
\* its deadline, whose error is an exec.ExitError.
Judge(c, second, link, v) ==
    LET ok == link = "ok" /\ Succeeds(Command(c, second), v) IN
    IF Refused(c) THEN "fail"
    ELSE IF link = "deadline" THEN "request_error"
    ELSE CASE c.type = "file_content_absent" -> ByAbsence(c, second, ok, v)
           [] c.type \in {"command", "file_content", "http_response"} ->
                 ByOutput(c, ok, v)
           [] OTHER -> ByStatus(c, ok, v)

-----------------------------------------------------------------------------
(* What the author of a lab means by a check.                              *)

\* The condition a check stands for. A command without an expect only has to
\* run (main.go 327).
Condition(c, v) ==
    CASE c.type = "file_exists"         -> IsFile(v)
      [] c.type = "dir_exists"          -> v.file = "dir"
      [] c.type = "file_absent"         -> ~IsFile(v)
      [] c.type = "file_content"        -> v.file = "with"
      [] c.type = "file_content_absent" -> v.file \in {"absent", "without"}
      [] c.type = "process_running"     -> v.service # "absent"
      [] c.type = "command" /\ c.form = "noexpect" -> v.service # "absent"
      [] c.type = "unknown"             -> FALSE
      [] OTHER                          -> v.service = "with"

-----------------------------------------------------------------------------

\* The check that runs next.
This == checks[Len(results) + 1]

Init ==
    /\ checks \in UNION {[1 .. n -> CheckSet] : n \in 1 .. MaxChecks}
    /\ vm \in VM
    /\ pc = "validate"
    /\ held = FALSE
    /\ missed = FALSE
    /\ results = <<>>

\* The condition of check c is observed in state v of the VM, from scratch or
\* in addition to what was observed before.
Observe(c, v, h, m) ==
    /\ held' = (h \/ Condition(c, v))
    /\ missed' = (m \/ ~Condition(c, v))

\* handle: every check is validated before any of them runs.
ValidateChecks ==
    /\ pc = "validate"
    /\ IF \A i \in 1 .. Len(checks) : ValidateCheck(checks[i])
       THEN pc' = "run" /\ Observe(This, vm, FALSE, FALSE)
       ELSE pc' = "rejected" /\ UNCHANGED <<held, missed>>
    /\ UNCHANGED <<checks, vm, results>>

\* Mutant of Run: the result is recorded twice.
RunTwice(link) ==
    /\ pc \in {"run", "second"}
    /\ LET r == [res |-> Judge(This, TRUE, link, vm), held |-> held,
                 missed |-> missed, link |-> link]
       IN  results' = results \o <<r, r>>
    /\ pc' = "done"
    /\ UNCHANGED <<checks, vm, held, missed>>

\* One Exec of Run, and in RunAll the next check when it decides: a check that
\* fails does not keep the others from running.
Run(link) ==
    /\ pc \in {"run", "second"}
    /\ LET verdict == Judge(This, pc = "second", link, vm) IN
       IF verdict = "second"
       THEN pc' = "second" /\ UNCHANGED <<held, missed, results>>
       ELSE /\ results' = Append(results, [res |-> verdict, held |-> held,
                                           missed |-> missed, link |-> link])
            /\ IF Len(results) + 1 = Len(checks)
               THEN pc' = "done" /\ UNCHANGED <<held, missed>>
               ELSE /\ pc' = "run"
                    /\ Observe(checks[Len(results) + 2], vm, FALSE, FALSE)
    /\ UNCHANGED <<checks, vm>>

\* The learner goes on working in the VM.
LearnerActs ==
    /\ pc \in {"run", "second"}
    /\ vm' \in VM
    /\ Observe(This, vm', held, missed)
    /\ UNCHANGED <<checks, pc, results>>

Next ==
    \/ ValidateChecks
    \/ \E link \in Links : Run(link)
    \/ LearnerActs

Spec == Init /\ [][Next]_vars

-----------------------------------------------------------------------------
(* Properties.                                                             *)

\* allPassed of RunAll.
AllPassed ==
    pc = "done" /\ \A i \in 1 .. Len(results) : results[i].res = "pass"

\* A step whose checks all pass is one where the condition of every check held
\* in the VM at some moment while that check ran (checker.go 71-81), whatever
\* the learner did meanwhile; except that file_content_absent also passes when
\* the VM cannot be reached.
PassIsTrue ==
    AllPassed =>
        \A i \in 1 .. Len(checks) :
            \/ results[i].held
            \/ checks[i].type = "file_content_absent" /\ results[i].link = "error"

\* As long as the VM is reached or the time runs out, a check that is complete
\* fails only because its condition did not hold: validateCheck and the checks
\* agree on what a check needs (main.go 313-359, checker.go 84-274). The
\* exception is a file that vanishes between the two commands of
\* file_content_absent.
FailureIsTheLearners ==
    \A i \in 1 .. Len(results) :
        (/\ results[i].res = "fail" /\ results[i].link # "error"
         /\ checks[i].form = "complete" /\ checks[i].type # "file_content_absent")
            => results[i].missed

-----------------------------------------------------------------------------
(* The inductive invariant of CheckerProofs.                               *)

\* The check that runs, and what was seen of its condition until now.
RunningIsObserved ==
    pc \in {"run", "second"} =>
        /\ Len(results) < Len(checks)
        /\ Condition(This, vm) => held
        /\ ~Condition(This, vm) => missed

\* Only file_content_absent has a second command.
SecondIsAbsence == pc = "second" => This.type = "file_content_absent"

\* No result before the first check, and all of them after the last.
ResultsFollowPc ==
    /\ pc \in {"validate", "rejected"} => results = <<>>
    /\ pc = "done" => Len(results) = Len(checks)

\* A result that is a pass, also when other checks of the step fail.
PassHeld ==
    \A i \in 1 .. Len(results) :
        results[i].res = "pass" =>
            \/ results[i].held
            \/ checks[i].type = "file_content_absent" /\ results[i].link = "error"

CheckerInv ==
    /\ TypeOK
    /\ RunningIsObserved
    /\ SecondIsAbsence
    /\ ResultsFollowPc
    /\ PassHeld
    /\ FailureIsTheLearners

=============================================================================
