----------------------- MODULE ValidationEngineProofs -----------------------
(***************************************************************************)
(* ValidationEngine skips no request, for every number of requests,        *)
(* partitions and faults, and for every choice of its timeouts; it         *)
(* implements RequestDelivery.                                             *)
(***************************************************************************)
EXTENDS ValidationEngine, TLAPS

USE EngineAssumption

-----------------------------------------------------------------------------

\* What is published, dead-lettered or logged stays so.
OutputGrows ==
    /\ results \subseteq results'
    /\ lost \subseteq lost'
    /\ dlq \subseteq dlq'
    /\ logged \subseteq logged'

\* A settled request stays settled.
LEMMA SettledGrows ==
  ASSUME OutputGrows, NEW r, Settled(r)
  PROVE  Settled(r)'
  BY DEF OutputGrows, Settled, Answered

\* The request in process is a request.
LEMMA CurrentIsRequest ==
  ASSUME EngineInv, msg # None
  PROVE  /\ msg \in [p : Partition, off : Nat]
         /\ msg.p \in Partition /\ msg.off \in 1 .. Len(log[msg.p])
         /\ log[msg.p] \in Seq(Request)
         /\ Current \in Request
  <1>1. msg \in [p : Partition, off : Nat]
    BY DEF EngineInv, TypeOK
  <1>2. msg.p \in Partition /\ msg.off \in 1 .. Len(log[msg.p])
    BY <1>1 DEF EngineInv, Bookkeeping
  <1>3. log[msg.p] \in Seq(Request)
    BY <1>2 DEF EngineInv, TypeOK
  <1>4. QED
    BY <1>1, <1>2, <1>3 DEF Current

\* A step that leaves the topic and the offsets alone, and after which the loop
\* is at the same message or at none, skips nothing.
LEMMA KeepsSettled ==
  ASSUME EngineInv, OutputGrows, UNCHANGED kafka,
         msg' = msg \/ (msg' = None /\ pc' = "down")
  PROVE  NothingSkipped' /\ (pc # "down" \/ pc' = "down" => FetchedIsSettled')
  <1>1. NothingSkipped'
    BY SettledGrows DEF EngineInv, NothingSkipped, kafka
  <1>2. ASSUME pc # "down" \/ pc' = "down" PROVE FetchedIsSettled'
    BY <1>2, SettledGrows DEF EngineInv, FetchedIsSettled, kafka
  <1>3. QED
    BY <1>1, <1>2

\* EngineInv is inductive.
LEMMA EngineStep == EngineInv /\ [Next]_vars => EngineInv'
  <1> SUFFICES ASSUME EngineInv, [Next]_vars PROVE EngineInv'
    OBVIOUS
  <1>t. TypeOK /\ Bookkeeping /\ NothingSkipped /\ FetchedIsSettled
    BY DEF EngineInv
  <1>1. ASSUME NEW r \in Request, Produce(r) PROVE EngineInv'
    <2> DEFINE q == PartitionOf[r]
    <2>1. /\ q \in Partition /\ log[q] \in Seq(Request)
          /\ log' = [log EXCEPT ![q] = Append(log[q], r)]
          /\ UNCHANGED <<committed, position, work, output>>
      BY <1>1, <1>t DEF Produce, TypeOK
    <2>2. \A p \in Partition :
            /\ log'[p] \in Seq(Request)
            /\ Len(log[p]) <= Len(log'[p])
            /\ \A n \in 1 .. Len(log[p]) : log'[p][n] = log[p][n]
      BY <2>1, <1>t DEF TypeOK
    <2>3. \A x : Settled(x)' <=> Settled(x)
      BY <2>1 DEF output, Settled, Answered
    <2>4. TypeOK'
      BY <1>1, <1>t, <2>1, <2>2 DEF Produce, TypeOK, work, output
    <2>5. UNCHANGED <<pc, msg, ran, elapsed>>
      BY <2>1 DEF work
    <2>6. /\ msg # None => Current' = Current
          /\ msg # None => msg.p \in Partition /\ msg.off \in 1 .. Len(log[msg.p])
      BY <2>2, <2>5, CurrentIsRequest DEF Current
    <2>7. \A p \in Partition : committed[p] \in Nat /\ position[p] \in Nat
                              /\ Len(log[p]) \in Nat /\ Len(log'[p]) \in Nat
      BY <1>t, <2>2 DEF TypeOK
    <2>8. Bookkeeping'
      BY <1>t, <2>1, <2>2, <2>3, <2>5, <2>6, <2>7 DEF Bookkeeping, Handling
    <2>9. \A p \in Partition : \A n \in 1 .. Len(log'[p]) :
             n <= Len(log[p]) => n \in 1 .. Len(log[p])
      BY <2>7
    <2>10. NothingSkipped'
      BY <1>t, <2>1, <2>2, <2>3, <2>7, <2>9 DEF NothingSkipped, Bookkeeping
    <2>11. FetchedIsSettled'
      BY <1>t, <2>1, <2>2, <2>3, <2>5, <2>6, <2>7, <2>9
         DEF FetchedIsSettled, Bookkeeping
    <2>12. QED
      BY <2>4, <2>8, <2>10, <2>11 DEF EngineInv
  <1>2. ASSUME NEW p \in Partition, FetchMessage(p) PROVE EngineInv'
    <2> DEFINE o == position[p] + 1
    <2>1. /\ o \in 1 .. Len(log[p]) /\ o \in Nat /\ log[p] \in Seq(Request)
          /\ position' = [position EXCEPT ![p] = o]
          /\ msg' = [p |-> p, off |-> o]
          /\ pc = "fetch" /\ msg = None
          /\ pc' = IF Kind[log[p][o]] = "garbled" THEN "dlq" ELSE "handle"
          /\ UNCHANGED <<log, committed, ran, elapsed, output>>
      BY <1>2, <1>t DEF FetchMessage, TypeOK, Bookkeeping, Handling
    <2>2. msg' # None /\ msg'.p = p /\ msg'.off = o /\ Current' = log[p][o]
      BY <2>1 DEF Current
    <2>3. \A x : Settled(x)' <=> Settled(x)
      BY <2>1 DEF output, Settled, Answered
    <2>4. TypeOK'
      <3>1. position' \in [Partition -> Nat] /\ msg' \in [p : Partition, off : Nat]
        BY <1>t, <2>1 DEF TypeOK
      <3>2. pc' \in Handling
        BY <2>1 DEF Handling
      <3>3. UNCHANGED <<log, committed, ran, elapsed, passing, tries, stopping, brokerUp,
                        faults, output, fatalCause>>
        BY <1>2 DEF FetchMessage
      <3>4. QED
        BY <1>t, <3>1, <3>2, <3>3 DEF TypeOK, output
    <2>5. Bookkeeping'
      BY <1>t, <2>1, <2>2 DEF Bookkeeping, Handling, TypeOK
    <2>6. NothingSkipped'
      BY <1>t, <2>1, <2>3 DEF NothingSkipped
    <2>m. ASSUME NEW r \in Partition, NEW n \in 1 .. Len(log[r]), n <= position[r]
          PROVE  Settled(log[r][n])
      <3>1. n \in Nat
        BY <1>t DEF TypeOK
      <3>2. [p |-> r, off |-> n] # None
        BY <3>1
      <3>3. QED
        BY <1>t, <2>1, <2>m, <3>2 DEF FetchedIsSettled
    <2>7. \A n \in 1 .. Len(log[p]) : n < o => Settled(log[p][n])
      <3>1. position[p] \in Nat /\ Len(log[p]) \in Nat
        BY <1>t DEF TypeOK
      <3>2. \A n \in 1 .. Len(log[p]) : n < position[p] + 1 => n <= position[p]
        BY <3>1
      <3>3. QED
        BY <2>m, <3>2
    <2>8. ASSUME NEW r \in Partition, NEW n \in 1 .. Len(log[r]), n <= position'[r]
          PROVE  Settled(log[r][n]) \/ msg' = [p |-> r, off |-> n]
      <3>1. CASE r = p
        BY <1>t, <2>1, <2>7, <2>8, <3>1 DEF TypeOK
      <3>2. CASE r # p
        BY <1>t, <2>1, <2>m, <2>8, <3>2 DEF TypeOK
      <3>3. QED
        BY <3>1, <3>2
    <2>9. FetchedIsSettled'
      BY <2>1, <2>2, <2>3, <2>7, <2>8 DEF FetchedIsSettled
    <2>10. QED
      BY <2>4, <2>5, <2>6, <2>9 DEF EngineInv
  <1>3. ASSUME StopFetching PROVE EngineInv'
    <2>1. OutputGrows /\ UNCHANGED kafka /\ msg' = None /\ pc' = "down"
      BY <1>3 DEF StopFetching, Rest, OutputGrows, output
    <2>2. TypeOK'
      BY <1>3, <1>t DEF StopFetching, Rest, TypeOK, kafka, output
    <2>3. Bookkeeping'
      BY <1>3, <1>t, <2>1 DEF StopFetching, Rest, Bookkeeping, kafka, Handling
    <2>4. QED
      BY <2>1, <2>2, <2>3, KeepsSettled DEF EngineInv
  <1>4. ASSUME CommitMessages PROVE EngineInv'
    <2>1. /\ msg # None /\ pc = "commit"
          /\ Rest("fetch")
          /\ committed' = committed \/ committed' = [committed EXCEPT ![msg.p] = msg.off]
          /\ UNCHANGED <<log, position, output>>
      BY <1>4, <1>t DEF CommitMessages, Bookkeeping, Handling
    <2>2. /\ msg.p \in Partition /\ msg.off \in 1 .. Len(log[msg.p])
          /\ msg \in [p : Partition, off : Nat] /\ log[msg.p] \in Seq(Request)
      BY <2>1, CurrentIsRequest
    <2>3. \A x : Settled(x)' <=> Settled(x)
      BY <2>1 DEF output, Settled, Answered
    <2>4. TypeOK'
      BY <1>4, <1>t, <2>1, <2>2 DEF CommitMessages, Rest, TypeOK, output
    <2>5. Bookkeeping'
      <3>1. \A p \in Partition : committed'[p] <= Len(log[p])
        <4>1. \A p \in Partition : committed[p] <= Len(log[p])
          BY <1>t DEF Bookkeeping
        <4>2. msg.off <= Len(log[msg.p])
          BY <2>2
        <4>3. committed \in [Partition -> Nat]
          BY <1>t DEF TypeOK
        <4>4. CASE committed' = committed
          BY <4>1, <4>4
        <4>5. CASE committed' = [committed EXCEPT ![msg.p] = msg.off]
          BY <4>1, <4>2, <4>3, <4>5
        <4>6. QED
          BY <2>1, <4>4, <4>5
      <3>2. QED
        BY <1>t, <2>1, <3>1 DEF Rest, Bookkeeping, Handling
    <2>6. \A n \in 1 .. Len(log[msg.p]) : n <= msg.off => Settled(log[msg.p][n])
      BY <1>t, <2>1, <2>2 DEF FetchedIsSettled, Bookkeeping, Current
    <2>7. NothingSkipped'
      BY <1>t, <2>1, <2>2, <2>3, <2>6 DEF NothingSkipped, TypeOK
    <2>8. ASSUME NEW r \in Partition, NEW n \in 1 .. Len(log[r]), n <= position[r]
          PROVE  Settled(log[r][n])
      <3>1. CASE msg = [p |-> r, off |-> n]
        BY <2>2, <2>6, <3>1
      <3>2. CASE msg # [p |-> r, off |-> n]
        BY <1>t, <2>1, <2>8, <3>2 DEF FetchedIsSettled
      <3>3. QED
        BY <3>1, <3>2
    <2>9. FetchedIsSettled'
      BY <2>1, <2>3, <2>8 DEF FetchedIsSettled, Rest
    <2>10. QED
      BY <2>4, <2>5, <2>7, <2>9 DEF EngineInv
  <1>5. ASSUME RejectRequest PROVE EngineInv'
    <2>1. /\ OutputGrows /\ UNCHANGED kafka /\ msg' = msg /\ pc = "handle"
          /\ Current' = Current
      BY <1>5 DEF RejectRequest, OutputGrows, output, Current, kafka
    <2>2. TypeOK'
      BY <1>5, <1>t DEF RejectRequest, TypeOK, kafka, output, Handling
    <2>3. Bookkeeping'
      BY <1>5, <1>t, <2>1 DEF RejectRequest, Bookkeeping, kafka, Handling
    <2>4. QED
      BY <2>1, <2>2, <2>3, KeepsSettled DEF EngineInv
  <1>6. ASSUME NEW c \in 0 .. CheckTimeout, NEW ok \in BOOLEAN, RunCheck(c, ok)
        PROVE EngineInv'
    <2>1. /\ OutputGrows /\ UNCHANGED kafka /\ msg' = msg /\ pc = "handle"
          /\ Current' = Current
      BY <1>6 DEF RunCheck, OutputGrows, output, Current, kafka
    <2>2. ran < NumChecks
      BY <1>t, <2>1 DEF Bookkeeping
    <2>3. /\ elapsed' \in 0 .. HandlerTimeout /\ ran' \in 0 .. NumChecks
          /\ faults' \in 0 .. MaxFaults
      BY <1>6, <1>t, <2>2 DEF RunCheck, TypeOK, After, Fault
    <2>4. passing' \in BOOLEAN
      BY <1>6, <1>t DEF RunCheck, TypeOK
    <2>5. TypeOK'
      BY <1>6, <1>t, <2>3, <2>4 DEF RunCheck, TypeOK, kafka, output, Handling
    <2>6. Bookkeeping'
      BY <1>6, <1>t, <2>1, <2>2 DEF RunCheck, Bookkeeping, kafka, Handling, TypeOK
    <2>7. QED
      BY <2>1, <2>5, <2>6, KeepsSettled DEF EngineInv
  <1>7. ASSUME Publish PROVE EngineInv'
    <2>1. /\ OutputGrows /\ UNCHANGED kafka /\ msg' = msg /\ Current' = Current
          /\ pc = "publish" /\ pc' = "commit" /\ msg # None
      BY <1>7, <1>t DEF Publish, Goto, OutputGrows, output, Current, kafka,
         Bookkeeping, Handling
    <2>2. Current \in Request
      BY <2>1, CurrentIsRequest
    <2>3. Settled(Current)'
      <3>1. \/ [req |-> Current, passed |-> passing] \in results'
            \/ Current \in lost'
        BY <1>7 DEF Publish
      <3>2. (\E v \in results' : v.req = Current) \/ Current \in lost'
        BY <3>1
      <3>3. QED
        BY <1>t, <2>1, <3>2 DEF Bookkeeping, Settled, Answered
    <2>4. TypeOK'
      BY <1>7, <1>t, <2>2 DEF Publish, Goto, TypeOK, kafka, Handling, Verdict
    <2>5. Bookkeeping'
      BY <1>7, <1>t, <2>1, <2>3 DEF Publish, Goto, Bookkeeping, kafka, Handling
    <2>6. QED
      BY <2>1, <2>4, <2>5, KeepsSettled DEF EngineInv
  <1>8. ASSUME PublishFails PROVE EngineInv'
    <2>1. /\ OutputGrows /\ UNCHANGED kafka /\ msg' = None /\ pc' = "down"
          /\ msg # None
      BY <1>8, <1>t DEF PublishFails, Rest, OutputGrows, Bookkeeping, Handling
    <2>2. Current \in Request
      BY <2>1, CurrentIsRequest
    <2>3. TypeOK'
      BY <1>8, <1>t, <2>2 DEF PublishFails, Rest, TypeOK, kafka, Verdict
    <2>4. Bookkeeping'
      BY <1>8, <1>t, <2>1 DEF PublishFails, Rest, Bookkeeping, kafka, Handling
    <2>5. QED
      BY <2>1, <2>3, <2>4, KeepsSettled DEF EngineInv
  <1>9. ASSUME WriteDLQ PROVE EngineInv'
    <2>1. /\ OutputGrows /\ UNCHANGED kafka /\ msg' = msg /\ Current' = Current
          /\ pc = "dlq" /\ pc' = "commit" /\ msg # None
      BY <1>9, <1>t DEF WriteDLQ, Goto, OutputGrows, output, Current, kafka,
         Bookkeeping, Handling
    <2>2. Current \in Request
      BY <2>1, CurrentIsRequest
    <2>3. Settled(Current)'
      BY <1>9, <1>t, <2>1 DEF WriteDLQ, Bookkeeping, Settled, Answered
    <2>4. TypeOK'
      BY <1>9, <1>t, <2>2 DEF WriteDLQ, Goto, TypeOK, kafka, Handling, Verdict
    <2>5. Bookkeeping'
      BY <1>9, <1>t, <2>1, <2>3 DEF WriteDLQ, Goto, Bookkeeping, kafka, Handling
    <2>6. QED
      BY <2>1, <2>4, <2>5, KeepsSettled DEF EngineInv
  <1>10. ASSUME RetryDLQ PROVE EngineInv'
    <2>1. OutputGrows /\ UNCHANGED <<kafka, pc, msg, ran, elapsed, output>>
      BY <1>10 DEF RetryDLQ, OutputGrows, output
    <2>2. TypeOK'
      BY <1>10, <1>t DEF RetryDLQ, TypeOK, kafka, output
    <2>3. Bookkeeping'
      BY <1>t, <2>1 DEF Bookkeeping, kafka, output, Current, Settled, Answered
    <2>4. QED
      BY <1>10, <2>1, <2>2, <2>3, KeepsSettled DEF EngineInv, RetryDLQ
  <1>11. ASSUME GiveUpDLQ PROVE EngineInv'
    <2>1. /\ OutputGrows /\ UNCHANGED kafka /\ msg' = msg /\ Current' = Current
          /\ pc = "dlq" /\ pc' = "commit" /\ msg # None
      BY <1>11, <1>t DEF GiveUpDLQ, Goto, OutputGrows, output, Current, kafka,
         Bookkeeping, Handling
    <2>2. Current \in Request
      BY <2>1, CurrentIsRequest
    <2>3. Settled(Current)'
      BY <1>11, <1>t, <2>1 DEF GiveUpDLQ, Bookkeeping, Settled, Answered
    <2>4. TypeOK'
      BY <1>11, <1>t, <2>2 DEF GiveUpDLQ, Goto, TypeOK, kafka, Handling, Verdict
    <2>5. Bookkeeping'
      BY <1>11, <1>t, <2>1, <2>3 DEF GiveUpDLQ, Goto, Bookkeeping, kafka, Handling
    <2>6. QED
      BY <2>1, <2>4, <2>5, KeepsSettled DEF EngineInv
  <1>12. ASSUME NEW p \in Partition, Rebalance(p) PROVE EngineInv'
    <2>1. /\ position' = [position EXCEPT ![p] = committed[p]]
          /\ UNCHANGED <<log, committed, pc, msg, ran, elapsed, output>>
      BY <1>12 DEF Rebalance, work
    <2>2. \A x : Settled(x)' <=> Settled(x)
      BY <2>1 DEF output, Settled, Answered
    <2>3. TypeOK'
      <3>1. position' \in [Partition -> Nat] /\ faults' \in 0 .. MaxFaults
        BY <1>12, <1>t DEF Rebalance, Fault, TypeOK
      <3>2. QED
        BY <1>12, <1>t, <3>1 DEF Rebalance, TypeOK, work, output
    <2>4. Bookkeeping'
      BY <1>t, <2>1, <2>2 DEF Bookkeeping, TypeOK, Current
    <2>5. NothingSkipped'
      BY <1>t, <2>1, <2>2 DEF NothingSkipped
    <2>6. ASSUME NEW r \in Partition, NEW n \in 1 .. Len(log[r]), n <= position'[r],
                 pc # "down"
          PROVE  Settled(log[r][n]) \/ msg = [p |-> r, off |-> n]
      <3>1. CASE r = p
        BY <1>t, <2>1, <2>6, <3>1 DEF TypeOK, NothingSkipped
      <3>2. CASE r # p
        BY <1>t, <2>1, <2>6, <3>2 DEF TypeOK, FetchedIsSettled
      <3>3. QED
        BY <3>1, <3>2
    <2>7. FetchedIsSettled'
      BY <1>t, <2>1, <2>2, <2>6 DEF FetchedIsSettled
    <2>8. QED
      BY <2>3, <2>4, <2>5, <2>7 DEF EngineInv
  <1>13. ASSUME BrokerDown \/ BrokerUp \/ Terminate PROVE EngineInv'
    <2>1. OutputGrows /\ UNCHANGED <<kafka, work, output>>
      BY <1>13 DEF BrokerDown, BrokerUp, Terminate, OutputGrows, output
    <2>2. TypeOK'
      <3>1. faults' \in 0 .. MaxFaults
        BY <1>13, <1>t DEF BrokerDown, BrokerUp, Terminate, Fault, TypeOK
      <3>2. brokerUp' \in BOOLEAN /\ stopping' \in BOOLEAN /\ fatalCause' = fatalCause
        BY <1>13, <1>t DEF BrokerDown, BrokerUp, Terminate, TypeOK
      <3>3. QED
        BY <1>t, <2>1, <3>1, <3>2 DEF TypeOK, kafka, work, output
    <2>3. Bookkeeping'
      BY <1>t, <2>1 DEF Bookkeeping, kafka, work, output, Current, Settled, Answered
    <2>4. QED
      BY <2>1, <2>2, <2>3, KeepsSettled DEF EngineInv, work
  <1>14. ASSUME Crash PROVE EngineInv'
    <2>1. OutputGrows /\ UNCHANGED kafka /\ msg' = None /\ pc' = "down"
      BY <1>14 DEF Crash, Rest, OutputGrows, output
    <2>2. TypeOK'
      BY <1>14, <1>t DEF Crash, Rest, Fault, TypeOK, kafka, output
    <2>3. Bookkeeping'
      BY <1>14, <1>t, <2>1 DEF Crash, Rest, Bookkeeping, kafka, Handling
    <2>4. QED
      BY <2>1, <2>2, <2>3, KeepsSettled DEF EngineInv
  <1>15. ASSUME Restart PROVE EngineInv'
    <2>1. /\ Rest("fetch") /\ position' = committed
          /\ UNCHANGED <<log, committed, output>>
      BY <1>15 DEF Restart
    <2>2. \A x : Settled(x)' <=> Settled(x)
      BY <2>1 DEF output, Settled, Answered
    <2>3. TypeOK'
      <3>1. /\ tries' \in 0 .. MaxDLQTries - 1
            /\ ran' \in 0 .. NumChecks /\ elapsed' \in 0 .. HandlerTimeout
        BY <1>15 DEF Restart, Rest
      <3>2. QED
        BY <1>15, <1>t, <3>1 DEF Restart, Rest, TypeOK, output
    <2>4. Bookkeeping'
      BY <1>t, <2>1 DEF Rest, Bookkeeping, Handling
    <2>5. NothingSkipped'
      BY <1>t, <2>1, <2>2 DEF NothingSkipped
    <2>6. FetchedIsSettled'
      BY <1>t, <2>1, <2>2 DEF FetchedIsSettled, NothingSkipped, Rest
    <2>7. QED
      BY <2>3, <2>4, <2>5, <2>6 DEF EngineInv
  <1>16. ASSUME UNCHANGED vars PROVE EngineInv'
    BY <1>16, <1>t DEF vars, kafka, work, output, EngineInv, TypeOK, Bookkeeping,
       NothingSkipped, FetchedIsSettled, Current, Settled, Answered
  <1>17. QED
    BY <1>1, <1>2, <1>3, <1>4, <1>5, <1>6, <1>7, <1>8, <1>9, <1>10, <1>11, <1>12,
       <1>13, <1>14, <1>15, <1>16 DEF Next, Checks

\* The initial state satisfies the invariant.
LEMMA EngineInit == Init => EngineInv
  <1> SUFFICES ASSUME Init PROVE EngineInv
    OBVIOUS
  <1>1. TypeOK
    <2>1. /\ tries \in 0 .. MaxDLQTries - 1 /\ faults \in 0 .. MaxFaults
          /\ ran \in 0 .. NumChecks /\ elapsed \in 0 .. HandlerTimeout
      BY DEF Init
    <2>2. log \in [Partition -> Seq(Request)]
      BY DEF Init
    <2>3. QED
      BY <2>1, <2>2 DEF Init, TypeOK
  <1>2. \A p \in Partition : Len(log[p]) = 0
    BY DEF Init
  <1>3. QED
    BY <1>1, <1>2 DEF Init, EngineInv, Bookkeeping, NothingSkipped, FetchedIsSettled,
       Handling

\* The inductive invariant holds throughout, type correctness included.
THEOREM EngineInvariant == Spec => []EngineInv
  <1>1. QED
    BY EngineInit, EngineStep, PTL DEF Spec

\* The consumer's commit never passes a request for which no result was written
\* and which has no place in the dead-letter topic or the log (consumer.go 74-132).
\* Only the write itself, which nobody acknowledges, can lose a result.
THEOREM NoRequestIsSkipped == Spec => []NothingSkipped
  <1>1. EngineInv => NothingSkipped
    BY DEF EngineInv
  <1>2. QED
    BY <1>1, EngineInvariant, PTL

-----------------------------------------------------------------------------
(* Verdicts.                                                               *)

\* Only Publish and PublishFails add a result, and both add the same one.
LEMMA ResultStep ==
  ASSUME VerdictInv, pc = "publish",
         results' \in {results, results \cup {[req |-> Current, passed |-> passing]}}
  PROVE  OnlyCheckedPass'
  <1> DEFINE w == [req |-> Current, passed |-> passing]
  <1>1. Kind[Current] # "garbled" /\ (passing => Kind[Current] = "valid")
    BY DEF VerdictInv, VerdictIsChecked, EngineInv, Bookkeeping
  <1>2. w.req = Current /\ w.passed = passing
    OBVIOUS
  <1>3. ASSUME NEW v \in results'
        PROVE  (v.passed => Kind[v.req] = "valid") /\ Kind[v.req] # "garbled"
    <2>1. CASE v \in results
      BY <2>1 DEF VerdictInv, OnlyCheckedPass
    <2>2. CASE v = w
      BY <1>1, <1>2, <2>2
    <2>3. QED
      BY <1>3, <2>1, <2>2
  <1>4. QED
    BY <1>3 DEF OnlyCheckedPass

\* Every step keeps passing verdicts to checked requests.
LEMMA VerdictStep == VerdictInv /\ [Next]_vars => VerdictInv'
  <1> SUFFICES ASSUME VerdictInv, [Next]_vars
               PROVE  OnlyCheckedPass' /\ VerdictIsChecked'
    BY EngineStep DEF VerdictInv
  <1>t. EngineInv /\ TypeOK /\ Bookkeeping /\ OnlyCheckedPass /\ VerdictIsChecked
    BY DEF VerdictInv, EngineInv
  <1>1. ASSUME NEW r \in Request, Produce(r) PROVE OnlyCheckedPass' /\ VerdictIsChecked'
    <2>1. UNCHANGED <<pc, msg, passing, results>>
      BY <1>1 DEF Produce, work, output
    <2>2. ASSUME msg # None PROVE Current' = Current
      <3>1. PartitionOf[r] \in Partition /\ log \in [Partition -> Seq(Request)]
        BY <1>t DEF TypeOK
      <3>2. log' = [log EXCEPT ![PartitionOf[r]] = Append(@, r)]
        BY <1>1 DEF Produce
      <3>3. msg.p \in Partition /\ msg.off \in 1 .. Len(log[msg.p])
        BY <1>t, <2>2, CurrentIsRequest
      <3>4. log'[msg.p][msg.off] = log[msg.p][msg.off]
        BY <3>1, <3>2, <3>3
      <3>5. QED
        BY <2>1, <3>4 DEF Current
    <2>3. QED
      BY <1>t, <2>1, <2>2 DEF OnlyCheckedPass, VerdictIsChecked, Bookkeeping, Handling
  <1>2. ASSUME NEW c \in 0 .. CheckTimeout, NEW ok \in BOOLEAN, RunCheck(c, ok)
        PROVE  OnlyCheckedPass' /\ VerdictIsChecked'
    BY <1>2, <1>t DEF RunCheck, output, kafka, Current, OnlyCheckedPass, VerdictIsChecked
  <1>3. ASSUME RejectRequest PROVE OnlyCheckedPass' /\ VerdictIsChecked'
    BY <1>3, <1>t DEF RejectRequest, output, OnlyCheckedPass, VerdictIsChecked
  <1>4. ASSUME Publish \/ PublishFails PROVE OnlyCheckedPass' /\ VerdictIsChecked'
    <2>1. /\ pc = "publish" /\ pc' \in {"commit", "down"}
          /\ results' \in {results, results \cup {[req |-> Current, passed |-> passing]}}
      BY <1>4 DEF Publish, PublishFails, Goto, Rest
    <2>2. OnlyCheckedPass'
      BY <2>1, ResultStep
    <2>3. VerdictIsChecked'
      BY <2>1 DEF VerdictIsChecked
    <2>4. QED
      BY <2>2, <2>3
  <1>5. ASSUME \/ \E p \in Partition : FetchMessage(p)
               \/ StopFetching \/ CommitMessages \/ WriteDLQ \/ GiveUpDLQ \/ Crash \/ Restart
        PROVE  OnlyCheckedPass' /\ VerdictIsChecked'
    <2>1. pc' # "publish" /\ results' = results
      BY <1>5 DEF FetchMessage, StopFetching, CommitMessages, WriteDLQ, GiveUpDLQ, Crash,
         Restart, Rest, Goto, output
    <2>2. QED
      BY <1>t, <2>1 DEF OnlyCheckedPass, VerdictIsChecked
  <1>6. ASSUME \/ \E p \in Partition : Rebalance(p)
               \/ RetryDLQ \/ BrokerDown \/ BrokerUp \/ Terminate \/ UNCHANGED vars
        PROVE  OnlyCheckedPass' /\ VerdictIsChecked'
    <2>1. UNCHANGED <<log, pc, msg, passing, results>>
      BY <1>6 DEF Rebalance, RetryDLQ, BrokerDown, BrokerUp, Terminate, vars, work, output, kafka
    <2>2. QED
      BY <1>t, <2>1 DEF OnlyCheckedPass, VerdictIsChecked, Current
  <1>7. QED
    BY <1>1, <1>2, <1>3, <1>4, <1>5, <1>6 DEF Next, Checks

\* The verdicts are right throughout.
LEMMA VerdictInvariant == Spec => []VerdictInv
  <1>1. Init => VerdictInv
    <2>1. ASSUME Init PROVE OnlyCheckedPass /\ VerdictIsChecked
      BY <2>1 DEF Init, OnlyCheckedPass, VerdictIsChecked
    <2>2. QED
      BY <2>1, EngineInit DEF VerdictInv
  <1>2. QED
    BY <1>1, VerdictStep, PTL DEF Spec

\* The state of the engine is well typed: attempts, time and checks stay in bounds.
THEOREM EngineTypeCorrect == Spec => []TypeOK
  <1>1. EngineInv => TypeOK
    BY DEF EngineInv
  <1>2. QED
    BY <1>1, EngineInvariant, PTL

\* A request that the handler rejects, or cannot parse, is never reported as passed,
\* however often it is delivered (main.go 142-195).
THEOREM PassesAreChecked == Spec => []OnlyCheckedPass
  <1>1. VerdictInv => OnlyCheckedPass
    BY DEF VerdictInv
  <1>2. QED
    BY <1>1, VerdictInvariant, PTL

-----------------------------------------------------------------------------
(* The engine implements RequestDelivery.                                  *)

\* Settled means the same in both.
LEMMA SettledMaps ==
  ASSUME NEW r \in Request
  PROVE  Delivery!Settled(r) <=> Settled(r)
  BY DEF Delivery!Settled, Settled, Answered

\* A step that leaves the topic, the commits and the output alone does nothing that
\* RequestDelivery sees.
LEMMA QuietStep ==
  ASSUME UNCHANGED <<log, committed, results, lost, dlq, logged>>
  PROVE  UNCHANGED Delivery!vars
  BY DEF Delivery!vars, Sent, GivenUp, Produced

\* The request in process has been sent.
LEMMA CurrentIsSent ==
  ASSUME EngineInv, msg # None
  PROVE  Current \in Sent
  <1>1. msg.p \in Partition /\ msg.off \in 1 .. Len(log[msg.p]) /\ Current \in Request
    BY CurrentIsRequest
  <1>2. Produced(Current)
    BY <1>1 DEF Produced, Current
  <1>3. QED
    BY <1>1, <1>2 DEF Sent

\* A new message is at the end of its partition, beyond every commit.
LEMMA ProduceSends ==
  ASSUME EngineInv, NEW r \in Request, Produce(r)
  PROVE  Delivery!Send(r)
  <1> DEFINE q == PartitionOf[r]
  <1>1. /\ q \in Partition /\ log \in [Partition -> Seq(Request)]
        /\ log' = [log EXCEPT ![q] = Append(log[q], r)]
        /\ UNCHANGED <<committed, results, lost, dlq, logged>>
        /\ ~Produced(r)
    BY DEF Produce, EngineInv, TypeOK, output, Produced
  <1>2. \A p \in Partition :
          /\ Len(log'[p]) \in Nat /\ Len(log[p]) \in Nat /\ committed[p] \in Nat
          /\ committed[p] <= Len(log[p])
          /\ Len(log[p]) <= Len(log'[p])
          /\ \A n \in 1 .. Len(log[p]) : n \in 1 .. Len(log'[p]) /\ log'[p][n] = log[p][n]
          /\ \A n \in 1 .. Len(log'[p]) : n <= Len(log[p]) => n \in 1 .. Len(log[p])
          /\ \A n \in 1 .. Len(log'[p]) : n \in 1 .. Len(log[p]) \/ log'[p][n] = r
    <2>1. ASSUME NEW p \in Partition
          PROVE  /\ log[p] \in Seq(Request) /\ committed[p] \in Nat
                 /\ committed[p] <= Len(log[p])
      BY DEF EngineInv, TypeOK, Bookkeeping
    <2>2. ASSUME NEW p \in Partition, p # q PROVE log'[p] = log[p]
      BY <1>1, <2>2
    <2>3. log'[q] = Append(log[q], r) /\ log[q] \in Seq(Request)
      BY <1>1
    <2>4. /\ Len(log'[q]) = Len(log[q]) + 1
          /\ \A n \in 1 .. Len(log[q]) : log'[q][n] = log[q][n]
          /\ log'[q][Len(log[q]) + 1] = r
      BY <2>3
    <2>5. QED
      BY <2>1, <2>2, <2>4
  <1>3. Len(log'[q]) \in 1 .. Len(log'[q]) /\ log'[q][Len(log'[q])] = r
    BY <1>1
  <1>4. \A x \in Request : Produced(x)' <=> Produced(x) \/ x = r
    <2>1. ASSUME NEW x \in Request, Produced(x) PROVE Produced(x)'
      BY <1>2, <2>1 DEF Produced
    <2>2. Produced(r)'
      BY <1>1, <1>3 DEF Produced
    <2>3. ASSUME NEW x \in Request, Produced(x)', x # r PROVE Produced(x)
      BY <1>2, <2>3 DEF Produced
    <2>4. QED
      BY <2>1, <2>2, <2>3
  <1>5. Sent' = Sent \cup {r} /\ r \notin Sent
    BY <1>1, <1>4 DEF Sent
  <1>6. ASSUME NEW x \in Request
        PROVE  (\E p \in Partition : \E o \in 1 .. Len(log'[p]) :
                   o <= committed[p] /\ log'[p][o] = x)
               <=> (\E p \in Partition : \E o \in 1 .. Len(log[p]) :
                       o <= committed[p] /\ log[p][o] = x)
    <2>1. ASSUME NEW p \in Partition, NEW o \in 1 .. Len(log'[p]), o <= committed[p]
          PROVE  o \in 1 .. Len(log[p]) /\ log'[p][o] = log[p][o]
      BY <1>2, <2>1
    <2>2. ASSUME NEW p \in Partition, NEW o \in 1 .. Len(log[p])
          PROVE  o \in 1 .. Len(log'[p]) /\ log'[p][o] = log[p][o]
      BY <1>2, <2>2
    <2>3. QED
      BY <2>1, <2>2
  <1>7. GivenUp' = GivenUp
    <2>1. committed' = committed
      BY <1>1
    <2>2. \A x \in Request : x \in GivenUp' <=> x \in GivenUp
      BY <1>6, <2>1 DEF GivenUp
    <2>3. GivenUp \subseteq Request /\ GivenUp' \subseteq Request
      BY DEF GivenUp
    <2>4. QED
      BY <2>2, <2>3
  <1>8. QED
    BY <1>1, <1>5, <1>7 DEF Delivery!Send

\* A result is an answer, and only one.
LEMMA ResultAnswers ==
  ASSUME VerdictInv, pc = "publish", UNCHANGED <<log, committed, lost, dlq, logged>>,
         results' = results \cup {[req |-> Current, passed |-> passing]}
  PROVE  \E r \in Request : \E passed \in BOOLEAN : Delivery!Answer(r, passed)
  <1>1. msg # None /\ EngineInv /\ passing \in BOOLEAN
    BY DEF VerdictInv, EngineInv, Bookkeeping, Handling, TypeOK
  <1>2. Current \in Request /\ Current \in Sent
    BY <1>1, CurrentIsRequest, CurrentIsSent
  <1>3. Kind[Current] # "garbled" /\ (passing => Kind[Current] = "valid")
    BY DEF VerdictInv, EngineInv, Bookkeeping, VerdictIsChecked
  <1>4. UNCHANGED <<Sent, GivenUp>>
    BY DEF Sent, GivenUp, Produced
  <1>5. Delivery!Answer(Current, passing)
    BY <1>2, <1>3, <1>4 DEF Delivery!Answer
  <1>6. QED
    BY <1>1, <1>2, <1>5

\* A result that Kafka never stored is a lost answer.
LEMMA LossLoses ==
  ASSUME EngineInv, pc = "publish", UNCHANGED <<log, committed, results, dlq, logged>>,
         lost' = lost \cup {Current}
  PROVE  \E r \in Request : Delivery!Lose(r)
  <1>1. msg # None /\ Kind[Current] # "garbled"
    BY DEF EngineInv, Bookkeeping, Handling
  <1>2. Current \in Request /\ Current \in Sent
    BY <1>1, CurrentIsRequest, CurrentIsSent
  <1>3. UNCHANGED <<Sent, GivenUp>>
    BY DEF Sent, GivenUp, Produced
  <1>4. Delivery!Lose(Current)
    BY <1>1, <1>2, <1>3 DEF Delivery!Lose
  <1>5. QED
    BY <1>2, <1>4

\* A message in the dead-letter topic or the log is parked.
LEMMA DeadLetterParks ==
  ASSUME EngineInv, pc = "dlq", UNCHANGED <<log, committed, results, lost>>,
         dlq' \cup logged' = dlq \cup logged \cup {Current}
  PROVE  \E r \in Request : Delivery!Park(r)
  <1>1. msg # None /\ Kind[Current] = "garbled"
    BY DEF EngineInv, Bookkeeping, Handling
  <1>2. Current \in Request /\ Current \in Sent
    BY <1>1, CurrentIsRequest, CurrentIsSent
  <1>3. UNCHANGED <<Sent, GivenUp>>
    BY DEF Sent, GivenUp, Produced
  <1>4. (dlq \cup logged)' = (dlq \cup logged) \cup {Current}
    OBVIOUS
  <1>5. Delivery!Park(Current)
    BY <1>1, <1>2, <1>3, <1>4 DEF Delivery!Park
  <1>6. QED
    BY <1>2, <1>5

\* A commit, in whichever direction it moves the offset, gives up settled requests.
LEMMA CommitGivesUp ==
  ASSUME EngineInv, EngineInv', CommitMessages
  PROVE  \E rs \in SUBSET Request : Delivery!GiveUp(rs)
  <1>1. UNCHANGED <<log, results, lost, dlq, logged>>
    BY DEF CommitMessages, output
  <1>2. Sent' = Sent
    BY <1>1 DEF Sent, Produced
  <1>3. GivenUp' \in SUBSET Request
    BY DEF GivenUp
  <1>4. ASSUME NEW r \in GivenUp' PROVE r \in Sent /\ Delivery!Settled(r)
    <2>1. r \in Request
      BY <1>3, <1>4
    <2>2. PICK p \in Partition : \E o \in 1 .. Len(log[p]) :
                                    o <= committed'[p] /\ log[p][o] = r
      BY <1>1, <1>4 DEF GivenUp
    <2>3. r \in Sent
      BY <2>1, <2>2 DEF Sent, Produced
    <2>4. Settled(r)'
      BY <1>1, <2>2 DEF EngineInv, NothingSkipped
    <2>5. Settled(r)
      BY <1>1, <2>4 DEF Settled, Answered
    <2>6. QED
      BY <2>1, <2>3, <2>5, SettledMaps
  <1>5. Delivery!GiveUp(GivenUp')
    BY <1>1, <1>2, <1>4 DEF Delivery!GiveUp
  <1>6. QED
    BY <1>3, <1>5

\* Every step of the engine is one of RequestDelivery or unseen.
LEMMA DeliveryStep ==
  ASSUME VerdictInv, VerdictInv', [Next]_vars
  PROVE  [Delivery!Next]_(Delivery!vars)
  <1>t. EngineInv /\ EngineInv'
    BY DEF VerdictInv
  <1>1. ASSUME NEW r \in Request, Produce(r) PROVE Delivery!Next
    BY <1>t, <1>1, ProduceSends DEF Delivery!Next
  <1>2. ASSUME CommitMessages PROVE Delivery!Next
    BY <1>t, <1>2, CommitGivesUp DEF Delivery!Next
  <1>3. ASSUME Publish PROVE Delivery!Next
    <2>1. pc = "publish" /\ UNCHANGED <<log, committed, dlq, logged>>
      BY <1>3 DEF Publish, kafka
    <2>2. CASE /\ results' = results \cup {[req |-> Current, passed |-> passing]}
               /\ UNCHANGED lost
      BY <2>1, <2>2, ResultAnswers DEF Delivery!Next
    <2>3. CASE lost' = lost \cup {Current} /\ UNCHANGED results
      BY <1>t, <2>1, <2>3, LossLoses DEF Delivery!Next
    <2>4. QED
      BY <1>3, <2>2, <2>3 DEF Publish
  <1>4. ASSUME PublishFails PROVE Delivery!Next \/ UNCHANGED Delivery!vars
    <2>1. /\ pc = "publish" /\ UNCHANGED <<log, committed, lost, dlq, logged>>
          /\ \/ results' = results
             \/ results' = results \cup {[req |-> Current, passed |-> passing]}
      BY <1>4 DEF PublishFails, kafka
    <2>2. CASE results' = results
      BY <2>1, <2>2, QuietStep
    <2>3. CASE results' = results \cup {[req |-> Current, passed |-> passing]}
      BY <2>1, <2>3, ResultAnswers DEF Delivery!Next
    <2>4. QED
      BY <2>1, <2>2, <2>3
  <1>5. ASSUME WriteDLQ \/ GiveUpDLQ PROVE Delivery!Next
    <2>1. /\ pc = "dlq" /\ UNCHANGED <<log, committed, results, lost>>
          /\ dlq' \cup logged' = dlq \cup logged \cup {Current}
      BY <1>5 DEF WriteDLQ, GiveUpDLQ, kafka
    <2>2. QED
      BY <1>t, <2>1, DeadLetterParks DEF Delivery!Next
  <1>6. ASSUME \/ \E p \in Partition : FetchMessage(p) \/ Rebalance(p)
               \/ StopFetching \/ RejectRequest \/ RetryDLQ
               \/ \E c \in 0 .. CheckTimeout, ok \in BOOLEAN : RunCheck(c, ok)
               \/ BrokerDown \/ BrokerUp \/ Terminate \/ Crash \/ Restart \/ UNCHANGED vars
        PROVE  UNCHANGED Delivery!vars
    <2>1. UNCHANGED <<log, committed, results, lost, dlq, logged>>
      BY <1>6 DEF FetchMessage, Rebalance, StopFetching, RejectRequest, RetryDLQ, RunCheck,
         BrokerDown, BrokerUp, Terminate, Crash, Restart, vars, kafka, output
    <2>2. QED
      BY <2>1, QuietStep
  <1>7. QED
    BY <1>1, <1>2, <1>3, <1>4, <1>5, <1>6 DEF Next, Checks

\* The engine handles every request at least once, for any number of requests,
\* partitions, crashes, rebalances and outages (consumer.go 74-132); an answer can
\* only be missing because its unacknowledged write was lost (producer.go 26-58).
THEOREM EngineImplementsDelivery == Spec => ImplementsDelivery
  <1>1. Init => Delivery!Init
    <2> SUFFICES ASSUME Init PROVE Delivery!Init
      OBVIOUS
    <2>1. \A p \in Partition : Len(log[p]) = 0
      BY DEF Init
    <2>2. Sent = {} /\ GivenUp = {}
      BY <2>1 DEF Sent, GivenUp, Produced
    <2>3. QED
      BY <2>2 DEF Init, Delivery!Init
  <1>2. VerdictInv /\ VerdictInv' /\ [Next]_vars => [Delivery!Next]_(Delivery!vars)
    BY DeliveryStep
  <1>3. QED
    BY <1>1, <1>2, VerdictInvariant, PTL DEF Spec, ImplementsDelivery, Delivery!Spec

=============================================================================
