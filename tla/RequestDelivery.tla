-------------------------- MODULE RequestDelivery --------------------------
(***************************************************************************)
(* What validation-engine promises to those who publish requests, without   *)
(* partitions, offsets, processes or restarts: handling at least once.      *)
(* A request that was sent is answered or, if it cannot be parsed, parked   *)
(* in the dead-letter topic or the log. It may be answered several times,   *)
(* with different verdicts, and an answer may get lost without anybody      *)
(* noticing. It is given up, and not looked at again unless it was fetched  *)
(* before, only after one of these has happened to it.                      *)
(***************************************************************************)
EXTENDS Naturals

CONSTANTS
    Request,
    Parsable,   \* the requests that json.Unmarshal accepts
    Checkable   \* the requests whose checks can run

VARIABLES
    sent,      \* requests in the topic
    answers,   \* verdicts that were published
    lost,      \* requests with an answer that got lost
    parked,    \* requests in the dead-letter topic or in the log
    givenUp    \* requests that no restart delivers again

vars == <<sent, answers, lost, parked, givenUp>>

Settled(r) ==
    IF r \in Parsable THEN r \in lost \/ \E a \in answers : a.req = r
                    ELSE r \in parked

Init == sent = {} /\ answers = {} /\ lost = {} /\ parked = {} /\ givenUp = {}

Send(r) ==
    /\ r \in Request \ sent
    /\ sent' = sent \cup {r}
    /\ UNCHANGED <<answers, lost, parked, givenUp>>

Answer(r, passed) ==
    /\ r \in sent \cap Parsable
    /\ passed => r \in Checkable
    /\ answers' = answers \cup {[req |-> r, passed |-> passed]}
    /\ UNCHANGED <<sent, lost, parked, givenUp>>

\* The answer is written and never stored.
Lose(r) ==
    /\ r \in sent \cap Parsable
    /\ lost' = lost \cup {r}
    /\ UNCHANGED <<sent, answers, parked, givenUp>>

Park(r) ==
    /\ r \in sent \ Parsable
    /\ parked' = parked \cup {r}
    /\ UNCHANGED <<sent, answers, lost, givenUp>>

\* Requests that have been settled are given up; one whose commit is overtaken by
\* an older one may come back.
GiveUp(rs) ==
    /\ \A r \in rs : r \in sent /\ Settled(r)
    /\ givenUp' = rs
    /\ UNCHANGED <<sent, answers, lost, parked>>

Next ==
    \/ \E r \in Request : Send(r) \/ Lose(r) \/ Park(r) \/ \E passed \in BOOLEAN : Answer(r, passed)
    \/ \E rs \in SUBSET Request : GiveUp(rs)

Spec == Init /\ [][Next]_vars

=============================================================================
