-------------------------- MODULE ValidationEngine --------------------------
(***************************************************************************)
(* validation-engine: the consumer loop over validation-requests           *)
(* (internal/consumer/consumer.go), the handler it runs for each message   *)
(* (cmd/engine/main.go), the producer of validation-results and the        *)
(* dead-letter topic, with the process restarts between which the only     *)
(* memory is the group's committed offsets.                                *)
(*                                                                         *)
(* Time is counted only where the code bounds it: a handler has            *)
(* HandlerTimeout in all, each of its checks at most CheckTimeout of that. *)
(***************************************************************************)
EXTENDS Naturals, Sequences

CONSTANTS
    Partition,       \* partitions of validation-requests
    Request,         \* request messages, each published once
    PartitionOf,     \* the partition the session id's hash selects
    Kind,            \* how each message is judged before any check runs
    NumChecks,       \* number of checks of a well-formed request
    CheckTimeout,    \* the executor's DefaultTimeout
    HandlerTimeout,  \* handlerTimeout of consumer.go
    MaxDLQTries,     \* dlqMaxRetries
    MaxFaults,       \* bound on outages, crashes, SIGTERMs, rebalances, slow checks
    None             \* absent

ASSUME EngineAssumption ==
    /\ PartitionOf \in [Request -> Partition]
    /\ Kind \in [Request -> {"garbled", "invalid", "valid"}]
    /\ NumChecks \in Nat \ {0}
    /\ CheckTimeout \in Nat \ {0}
    /\ HandlerTimeout \in Nat \ {0}
    /\ MaxDLQTries \in Nat \ {0}
    /\ MaxFaults \in Nat
    /\ None \notin [p : Partition, off : Nat]

VARIABLES
    log,         \* topic validation-requests
    committed,   \* the group's committed offsets, as a number of messages
    position,    \* how far the reader has fetched each partition
    pc,          \* where the consumer loop is; "down": no process
    msg,         \* the message being processed
    ran,         \* number of its checks that have run
    elapsed,     \* time its handler has used
    passing,     \* allPassed of RunAll so far
    tries,       \* attempts of publishToDLQ
    stopping,    \* SIGTERM was received
    brokerUp,    \* Kafka answers
    faults,      \* outages, crashes, SIGTERMs, rebalances and slow checks so far
    results,     \* topic validation-results
    lost,        \* requests with a result that was written but never stored
    dlq,         \* topic validation-requests-dlq
    logged,      \* messages whose payload was only logged
    fatalCause   \* history: why the last FatalError happened

kafka == <<log, committed, position>>
work == <<pc, msg, ran, elapsed, passing, tries>>
output == <<results, lost, dlq, logged>>
vars == <<kafka, work, stopping, brokerUp, faults, output, fatalCause>>

Handling == {"handle", "publish", "dlq", "commit"}
Verdict == [req : Request, passed : BOOLEAN]

TypeOK ==
    /\ log \in [Partition -> Seq(Request)]
    /\ committed \in [Partition -> Nat]
    /\ position \in [Partition -> Nat]
    /\ pc \in {"fetch", "down"} \cup Handling
    /\ msg \in [p : Partition, off : Nat] \cup {None}
    /\ ran \in 0 .. NumChecks
    /\ elapsed \in 0 .. HandlerTimeout
    /\ passing \in BOOLEAN
    /\ tries \in 0 .. MaxDLQTries - 1
    /\ stopping \in BOOLEAN
    /\ brokerUp \in BOOLEAN
    /\ faults \in 0 .. MaxFaults
    /\ results \in SUBSET Verdict
    /\ lost \in SUBSET Request
    /\ dlq \in SUBSET Request
    /\ logged \in SUBSET Request
    /\ fatalCause \in {"none", "broker", "deadline"}

Init ==
    /\ log = [p \in Partition |-> <<>>]
    /\ committed = [p \in Partition |-> 0]
    /\ position = [p \in Partition |-> 0]
    /\ pc = "fetch"
    /\ msg = None
    /\ ran = 0
    /\ elapsed = 0
    /\ passing = TRUE
    /\ tries = 0
    /\ stopping = FALSE
    /\ brokerUp = TRUE
    /\ faults = 0
    /\ results = {}
    /\ lost = {}
    /\ dlq = {}
    /\ logged = {}
    /\ fatalCause = "none"

\* The request in process.
Current == log[msg.p][msg.off]

\* The loop is between two messages, or the process is gone.
Rest(at) ==
    /\ pc' = at
    /\ msg' = None
    /\ ran' = 0
    /\ elapsed' = 0
    /\ passing' = TRUE
    /\ tries' = 0

\* The loop goes on to another part of processing the same message.
Goto(at) == pc' = at /\ UNCHANGED <<msg, ran, elapsed, passing, tries>>

\* One more fault; there are finitely many.
Fault == faults < MaxFaults /\ faults' = faults + 1

-----------------------------------------------------------------------------
(* The topic, and the consumer loop of Run.                                *)

\* The API publishes a request, keyed by its session.
Produce(r) ==
    /\ brokerUp
    /\ \A p \in Partition : \A o \in 1 .. Len(log[p]) : log[p][o] # r
    /\ log' = [log EXCEPT ![PartitionOf[r]] = Append(@, r)]
    /\ UNCHANGED <<committed, position, work, stopping, brokerUp, faults, output,
                   fatalCause>>

\* FetchMessage, and json.Unmarshal of what it returns.
FetchMessage(p) ==
    /\ pc = "fetch"
    /\ ~stopping
    /\ brokerUp
    /\ position[p] < Len(log[p])
    /\ position' = [position EXCEPT ![p] = @ + 1]
    /\ msg' = [p |-> p, off |-> position[p] + 1]
    /\ pc' = IF Kind[log[p][position[p] + 1]] = "garbled" THEN "dlq" ELSE "handle"
    /\ UNCHANGED <<log, committed, ran, elapsed, passing, tries, stopping,
                   brokerUp, faults, output, fatalCause>>

\* FetchMessage fails, or returns because of SIGTERM: Run returns, the process
\* ends.
StopFetching ==
    /\ pc = "fetch"
    /\ stopping \/ ~brokerUp
    /\ Rest("down")
    /\ UNCHANGED <<kafka, stopping, brokerUp, faults, output, fatalCause>>

\* CommitMessages; a failure is only logged and the loop goes on.
CommitMessages ==
    /\ pc = "commit"
    /\ committed' = IF brokerUp THEN [committed EXCEPT ![msg.p] = msg.off]
                                ELSE committed
    /\ Rest("fetch")
    /\ UNCHANGED <<log, position, stopping, brokerUp, faults, output, fatalCause>>

-----------------------------------------------------------------------------
(* handle.                                                                 *)

\* Mutant of RejectRequest: the verdict keeps its initial value.
RejectAsPassing ==
    /\ pc = "handle"
    /\ Kind[Current] = "invalid"
    /\ Goto("publish")
    /\ UNCHANGED <<kafka, stopping, brokerUp, faults, output, fatalCause>>

\* publishFailed: a field is missing or the VM specification is unusable; a
\* failing result is published without any check.
RejectRequest ==
    /\ pc = "handle"
    /\ Kind[Current] = "invalid"
    /\ pc' = "publish"
    /\ passing' = FALSE
    /\ UNCHANGED <<kafka, msg, ran, elapsed, tries, stopping, brokerUp, faults,
                   output, fatalCause>>

\* The time a check that starts at t and takes up to c may leave behind: its
\* context expires with the handler's.
After(t, c) == IF t + c > HandlerTimeout THEN HandlerTimeout ELSE t + c

\* One round of RunAll: the check takes up to its timeout, and once the
\* handler's context has expired it fails without reaching the VM. A VM that
\* answers at once costs no time; one that is slow or hangs is a fault.
RunCheck(c, ok) ==
    /\ pc = "handle"
    /\ Kind[Current] = "valid"
    /\ ok => elapsed < HandlerTimeout
    /\ IF c = 0 THEN UNCHANGED faults ELSE Fault
    /\ elapsed' = After(elapsed, c)
    /\ passing' = (passing /\ ok)
    /\ ran' = ran + 1
    /\ pc' = IF ran + 1 = NumChecks THEN "publish" ELSE "handle"
    /\ UNCHANGED <<kafka, msg, tries, stopping, brokerUp, output, fatalCause>>

\* Publish returns without an error before the handler's context expires. The
\* writer sets no RequiredAcks, which in kafka-go means that it waits for no
\* acknowledgement: Kafka may have stored the result or not.
Publish ==
    /\ pc = "publish"
    /\ elapsed < HandlerTimeout
    /\ \/ /\ brokerUp
          /\ results' = results \cup {[req |-> Current, passed |-> passing]}
          /\ UNCHANGED lost
       \/ /\ lost' = lost \cup {Current}
          /\ UNCHANGED results
    /\ Goto("commit")
    /\ UNCHANGED <<kafka, stopping, brokerUp, faults, dlq, logged, fatalCause>>

\* Mutant of PublishFails: an ordinary error, after which the offset is committed.
PublishFailsAndCommits ==
    /\ pc = "publish"
    /\ ~brokerUp \/ elapsed = HandlerTimeout
    /\ Goto("commit")
    /\ UNCHANGED <<kafka, stopping, brokerUp, faults, output, fatalCause>>

\* Publish fails; the message may have been written all the same. FatalError:
\* Run returns without a commit and the process ends.
PublishFails ==
    /\ pc = "publish"
    /\ ~brokerUp \/ elapsed = HandlerTimeout
    /\ fatalCause' = IF brokerUp THEN "deadline" ELSE "broker"
    /\ results' \in {results, results \cup {[req |-> Current, passed |-> passing]}}
    /\ Rest("down")
    /\ UNCHANGED <<kafka, stopping, brokerUp, faults, lost, dlq, logged>>

-----------------------------------------------------------------------------
(* publishToDLQ.                                                           *)

WriteDLQ ==
    /\ pc = "dlq"
    /\ brokerUp
    /\ dlq' = dlq \cup {Current}
    /\ Goto("commit")
    /\ UNCHANGED <<kafka, stopping, brokerUp, faults, results, lost, logged,
                   fatalCause>>

RetryDLQ ==
    /\ pc = "dlq"
    /\ ~brokerUp
    /\ tries + 1 < MaxDLQTries
    /\ tries' = tries + 1
    /\ UNCHANGED <<kafka, pc, msg, ran, elapsed, passing, stopping, brokerUp,
                   faults, output, fatalCause>>

\* After the last attempt the payload goes to the log.
GiveUpDLQ ==
    /\ pc = "dlq"
    /\ ~brokerUp
    /\ tries + 1 = MaxDLQTries
    /\ logged' = logged \cup {Current}
    /\ Goto("commit")
    /\ UNCHANGED <<kafka, stopping, brokerUp, faults, results, lost, dlq, fatalCause>>

-----------------------------------------------------------------------------
(* The environment: the broker, the consumer group and the pod.            *)

\* The group reassigns the partition: the reader starts again from the
\* committed offset, while the loop is still busy with its message.
Rebalance(p) ==
    /\ pc # "down"
    /\ position[p] # committed[p]
    /\ Fault
    /\ position' = [position EXCEPT ![p] = committed[p]]
    /\ UNCHANGED <<log, committed, work, stopping, brokerUp, output, fatalCause>>

BrokerDown ==
    /\ brokerUp
    /\ Fault
    /\ brokerUp' = FALSE
    /\ UNCHANGED <<kafka, work, stopping, output, fatalCause>>

BrokerUp ==
    /\ ~brokerUp
    /\ brokerUp' = TRUE
    /\ UNCHANGED <<kafka, work, stopping, faults, output, fatalCause>>

\* SIGTERM: the message in process is finished first.
Terminate ==
    /\ pc # "down"
    /\ ~stopping
    /\ Fault
    /\ stopping' = TRUE
    /\ UNCHANGED <<kafka, work, brokerUp, output, fatalCause>>

Crash ==
    /\ pc # "down"
    /\ Fault
    /\ Rest("down")
    /\ UNCHANGED <<kafka, stopping, brokerUp, output, fatalCause>>

\* Mutant of Restart: the reader starts at the end of the topic.
RestartAtEnd ==
    /\ pc = "down"
    /\ Rest("fetch")
    /\ stopping' = FALSE
    /\ position' = [p \in Partition |-> Len(log[p])]
    /\ UNCHANGED <<log, committed, brokerUp, faults, output, fatalCause>>

\* Kubernetes starts the pod again; run creates a new reader.
Restart ==
    /\ pc = "down"
    /\ Rest("fetch")
    /\ stopping' = FALSE
    /\ position' = committed
    /\ UNCHANGED <<log, committed, brokerUp, faults, output, fatalCause>>

-----------------------------------------------------------------------------

Checks == \E c \in 0 .. CheckTimeout, ok \in BOOLEAN : RunCheck(c, ok)

Next ==
    \/ \E r \in Request : Produce(r)
    \/ \E p \in Partition : FetchMessage(p) \/ Rebalance(p)
    \/ StopFetching \/ CommitMessages
    \/ RejectRequest \/ Checks \/ Publish \/ PublishFails
    \/ WriteDLQ \/ RetryDLQ \/ GiveUpDLQ
    \/ BrokerDown \/ BrokerUp \/ Terminate \/ Crash \/ Restart

Spec == Init /\ [][Next]_vars

\* The process runs and is restarted, outages end, and kafka-go serves every
\* partition that has messages.
Loop ==
    \/ StopFetching \/ CommitMessages
    \/ RejectRequest \/ Checks \/ Publish \/ PublishFails
    \/ WriteDLQ \/ RetryDLQ \/ GiveUpDLQ

Fairness ==
    /\ WF_vars(Loop)
    /\ WF_vars(Restart)
    /\ WF_vars(BrokerUp)
    /\ \A p \in Partition : SF_vars(FetchMessage(p))

FairSpec == Spec /\ Fairness

-----------------------------------------------------------------------------
(* Properties.                                                             *)

Answered(r) == \E v \in results : v.req = r

\* What the engine owes a message: a result, handed to the writer without an
\* error, if it can be parsed (handle returns no error other than FatalError);
\* the dead-letter topic or the log if not.
Settled(r) ==
    IF Kind[r] = "garbled" THEN r \in dlq \cup logged ELSE Answered(r) \/ r \in lost

Produced(r) == \E p \in Partition : \E o \in 1 .. Len(log[p]) : log[p][o] = r

\* The committed offset never passes a request that has not been settled
\* (consumer.go 74-132: commit comes last): no crash, restart, rebalance, failed
\* commit or failed publish skips a learner's request. The result itself may get
\* lost behind the commit, because its write is not acknowledged
\* (producer.go 26-31), and in no other way.
NothingSkipped ==
    \A p \in Partition : \A o \in 1 .. Len(log[p]) :
        o <= committed[p] => Settled(log[p][o])

\* A request the handler rejects unchecked is never reported as passed
\* (main.go 142-195), and unparsable messages never produce a result.
OnlyCheckedPass ==
    \A v \in results : /\ v.passed => Kind[v.req] = "valid"
                       /\ Kind[v.req] # "garbled"

\* What consumer.go 112 and main.go 211 say of FatalError: a transient fault of
\* Kafka, which a restart and another attempt overcome. It is false when a check
\* may use up the handler's time (ec2.go 17, consumer.go 66).
FatalIsTransient == fatalCause # "deadline"

\* Every request is settled in the end, whatever failed in between: a FatalError
\* or a crash leads to another attempt (consumer.go 111-116), as long as the
\* faults end, and among them the checks that use up the handler's time.
RequestsAreSettled == \A r \in Request : Produced(r) ~> Settled(r)

-----------------------------------------------------------------------------
(* What the engine promises, and how its state shows it.                   *)

Sent == {r \in Request : Produced(r)}
GivenUp == {r \in Request : \E p \in Partition : \E o \in 1 .. Len(log[p]) :
                               o <= committed[p] /\ log[p][o] = r}

Delivery == INSTANCE RequestDelivery WITH
    Parsable <- {r \in Request : Kind[r] # "garbled"},
    Checkable <- {r \in Request : Kind[r] = "valid"},
    sent <- Sent,
    answers <- results,
    lost <- lost,
    parked <- dlq \cup logged,
    givenUp <- GivenUp

\* The engine handles every request at least once: across crashes, rebalances,
\* outages and commits that fail or go back, every step of its loop either does
\* nothing that a client can see, or answers, parks or loses the answer of one
\* request that was sent, or gives up requests that have all been handled so
\* (consumer.go 74-132, main.go 104-237, producer.go 26-58).
ImplementsDelivery == Delivery!Spec

-----------------------------------------------------------------------------
(* The inductive invariant behind NothingSkipped. A commit moves the offset    *)
(* past a whole prefix, so everything below the message in process must be  *)
(* settled, and so must everything fetched, except that message. After a    *)
(* crash the reader's position means nothing until a restart resets it.     *)

\* Offsets stay within the topic; the loop has a message exactly while it is
\* processing one, whose kind agrees with the part of the loop it is in.
Bookkeeping ==
    /\ \A p \in Partition : committed[p] <= Len(log[p]) /\ position[p] <= Len(log[p])
    /\ (pc \in Handling) <=> (msg # None)
    /\ msg # None => msg.off \in 1 .. Len(log[msg.p])
    /\ pc = "dlq" => Kind[Current] = "garbled"
    /\ pc \in {"handle", "publish"} => Kind[Current] # "garbled"
    /\ pc = "commit" => Settled(Current)
    /\ pc \in {"fetch", "down", "dlq"} => elapsed = 0 /\ ran = 0
    /\ pc = "handle" => ran < NumChecks

FetchedIsSettled ==
    /\ msg # None =>
          \A n \in 1 .. Len(log[msg.p]) : n < msg.off => Settled(log[msg.p][n])
    /\ pc # "down" =>
          \A p \in Partition : \A n \in 1 .. Len(log[p]) :
             n <= position[p] => Settled(log[p][n]) \/ msg = [p |-> p, off |-> n]

EngineInv == TypeOK /\ Bookkeeping /\ NothingSkipped /\ FetchedIsSettled

\* A verdict about to be published is a pass only for a request that was checked.
VerdictIsChecked == pc = "publish" /\ passing => Kind[Current] = "valid"

VerdictInv == EngineInv /\ OnlyCheckedPass /\ VerdictIsChecked

=============================================================================
