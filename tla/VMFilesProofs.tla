---------------------------- MODULE VMFilesProofs ----------------------------
(***************************************************************************)
(* The slots, listings and reads of VMFiles are right for any number of     *)
(* sessions, requests, paths and slots.                                     *)
(***************************************************************************)
EXTENDS VMFiles, FiniteSetTheorems, TLAPS

USE VMFilesAssumption

-----------------------------------------------------------------------------
(* Slots.                                                                  *)

\* There is at least one slot.
LEMMA LimitType == Limit \in Nat \ {0}
  BY DEF Limit

\* The commands under way can be counted.
LEMMA CommandsAreFinite ==
  /\ IsFiniteSet(Flying) /\ IsFiniteSet(Reading)
  /\ Cardinality(Flying) \in Nat /\ Cardinality(Reading) \in Nat
  <1>1. Flying \in SUBSET Session /\ Reading \in SUBSET Caller
    BY DEF Flying, Reading
  <1>2. IsFiniteSet(Flying) /\ IsFiniteSet(Reading)
    BY <1>1, FS_Subset
  <1>3. QED
    BY <1>2, FS_CardinalityType

\* One command more, and one less.
LEMMA OneMore ==
  ASSUME NEW S, IsFiniteSet(S), NEW x, x \notin S
  PROVE  Cardinality(S \cup {x}) = Cardinality(S) + 1
  <1>1. Cardinality(S \cup {x}) = IF x \in S THEN Cardinality(S) ELSE Cardinality(S) + 1
    BY FS_AddElement
  <1>2. QED
    BY <1>1

LEMMA OneLess ==
  ASSUME NEW S, IsFiniteSet(S), NEW x, x \in S
  PROVE  Cardinality(S \ {x}) = Cardinality(S) - 1 /\ IsFiniteSet(S \ {x})
  <1>1. /\ IsFiniteSet(S \ {x})
        /\ Cardinality(S \ {x}) = IF x \in S THEN Cardinality(S) - 1 ELSE Cardinality(S)
    BY FS_RemoveElement
  <1>2. QED
    BY <1>1

\* A slot that is taken for one more command.
LEMMA SlotTaken ==
  ASSUME FilesInv, HasSlot, Acquire,
         \/ Reading' = Reading /\ \E k : k \notin Flying /\ Flying' = Flying \cup {k}
         \/ Flying' = Flying /\ \E c : c \notin Reading /\ Reading' = Reading \cup {c}
  PROVE  slots' \in 0 .. Limit /\ SlotsAreHeld'
  <1>1. slots \in Nat /\ slots = Cardinality(Flying) + Cardinality(Reading)
    BY LimitType DEF FilesInv, TypeOK, SlotsAreHeld
  <1>2. slots' \in 0 .. Limit
    BY <1>1, LimitType DEF HasSlot, Acquire
  <1>3. CASE Reading' = Reading /\ \E k : k \notin Flying /\ Flying' = Flying \cup {k}
    <2>1. Cardinality(Flying') = Cardinality(Flying) + 1
      <3>1. PICK k : k \notin Flying /\ Flying' = Flying \cup {k}
        BY <1>3
      <3>2. Cardinality(Flying \cup {k}) = Cardinality(Flying) + 1
        BY <3>1, CommandsAreFinite, OneMore
      <3>3. QED
        BY <3>1, <3>2
    <2>2. QED
      BY <1>1, <1>2, <1>3, <2>1, CommandsAreFinite DEF SlotsAreHeld, Acquire
  <1>4. CASE Flying' = Flying /\ \E c : c \notin Reading /\ Reading' = Reading \cup {c}
    <2>1. Cardinality(Reading') = Cardinality(Reading) + 1
      <3>1. PICK c : c \notin Reading /\ Reading' = Reading \cup {c}
        BY <1>4
      <3>2. Cardinality(Reading \cup {c}) = Cardinality(Reading) + 1
        BY <3>1, CommandsAreFinite, OneMore
      <3>3. QED
        BY <3>1, <3>2
    <2>2. QED
      BY <1>1, <1>2, <1>4, <2>1, CommandsAreFinite DEF SlotsAreHeld, Acquire
  <1>5. QED
    BY <1>3, <1>4

\* A slot that is given back by a command that ends.
LEMMA SlotFreed ==
  ASSUME FilesInv, Release,
         \/ Reading' = Reading /\ \E k : k \in Flying /\ Flying' = Flying \ {k}
         \/ Flying' = Flying /\ \E c : c \in Reading /\ Reading' = Reading \ {c}
  PROVE  slots' \in 0 .. Limit /\ SlotsAreHeld'
  <1>1. slots \in 0 .. Limit /\ slots = Cardinality(Flying) + Cardinality(Reading)
    BY DEF FilesInv, TypeOK, SlotsAreHeld
  <1>2. CASE Reading' = Reading /\ \E k : k \in Flying /\ Flying' = Flying \ {k}
    <2>1. Cardinality(Flying') = Cardinality(Flying) - 1 /\ IsFiniteSet(Flying')
      <3>1. PICK k : k \in Flying /\ Flying' = Flying \ {k}
        BY <1>2
      <3>2. Cardinality(Flying \ {k}) = Cardinality(Flying) - 1 /\ IsFiniteSet(Flying \ {k})
        BY <3>1, CommandsAreFinite, OneLess
      <3>3. QED
        BY <3>1, <3>2
    <2>2. Cardinality(Flying') \in Nat
      BY <2>1, FS_CardinalityType
    <2>3. QED
      BY <1>1, <1>2, <2>1, <2>2, CommandsAreFinite, LimitType DEF SlotsAreHeld, Release
  <1>3. CASE Flying' = Flying /\ \E c : c \in Reading /\ Reading' = Reading \ {c}
    <2>1. Cardinality(Reading') = Cardinality(Reading) - 1 /\ IsFiniteSet(Reading')
      <3>1. PICK c : c \in Reading /\ Reading' = Reading \ {c}
        BY <1>3
      <3>2. Cardinality(Reading \ {c}) = Cardinality(Reading) - 1 /\ IsFiniteSet(Reading \ {c})
        BY <3>1, CommandsAreFinite, OneLess
      <3>3. QED
        BY <3>1, <3>2
    <2>2. Cardinality(Reading') \in Nat
      BY <2>1, FS_CardinalityType
    <2>3. QED
      BY <1>1, <1>3, <2>1, <2>2, CommandsAreFinite, LimitType DEF SlotsAreHeld, Release
  <1>4. QED
    BY <1>2, <1>3

\* No command begins or ends.
LEMMA SlotsKept ==
  ASSUME FilesInv, slots' = slots, Flying' = Flying, Reading' = Reading
  PROVE  slots' \in 0 .. Limit /\ SlotsAreHeld'
  BY DEF FilesInv, TypeOK, SlotsAreHeld

-----------------------------------------------------------------------------
(* The actions.                                                            *)

\* A request joins the flight of its own session.
LEMMA ListStep ==
  ASSUME FilesInv, NEW c \in Caller, NEW s \in Session, NEW p \in Path \cup {None},
         List(c, s, p)
  PROVE  FilesInv'
  <1> DEFINE req == [sid |-> s, path |-> p, left |-> FALSE]
             mine == [pc |-> "wait", req |-> req]
             next == DoChan(flight[s], c, s)
  <1>t. TypeOK /\ FlightsMatch /\ ResultsMatch /\ ReadsAreListed
    BY DEF FilesInv
  <1>1. /\ caller[c].pc = "idle" /\ caller' = [caller EXCEPT ![c] = mine]
        /\ flight' = [flight EXCEPT ![s] = next]
        /\ UNCHANGED <<vm, changes, shown, slots>>
    <2>1. flight' = [flight EXCEPT ![s] = next]
      BY DEF List, FlightKey
    <2>2. QED
      BY <2>1 DEF List, Busy, guest
  <1>2. flight[s] \in Flight /\ mine \in Job
    BY <1>t DEF TypeOK, Job, Request
  <1>3. /\ next \in Flight /\ next.pc # "none" /\ (next.pc = "run" <=> flight[s].pc = "run")
        /\ next.pc \in {"acquire", "run"} => next.sid = s
        /\ next.pc = "deliver" => flight[s].pc = "deliver" /\ next.res = flight[s].res
        /\ \A d \in next.waiting : d = c \/ (flight[s].pc # "none" /\ d \in flight[s].waiting)
    <2>1. CASE flight[s].pc = "none"
      BY <2>1 DEF Flight, DoChan
    <2>2. CASE flight[s].pc \in {"acquire", "run"}
      BY <1>2, <1>t, <2>2 DEF Flight, FlightsMatch, DoChan
    <2>3. CASE flight[s].pc = "deliver"
      BY <1>2, <2>3 DEF Flight, DoChan
    <2>4. QED
      BY <1>2, <2>1, <2>2, <2>3 DEF Flight
  <1>4. Flying' = Flying /\ Reading' = Reading
    BY <1>1, <1>3, <1>t DEF TypeOK, Flying, Reading, Busy
  <1>5. slots' \in 0 .. Limit /\ SlotsAreHeld'
    BY <1>1, <1>4, SlotsKept
  <1>6. TypeOK'
    <2> HIDE DEF next, mine
    <2>1. flight' \in [Session -> Flight] /\ caller' \in [Caller -> Job]
      BY <1>1, <1>2, <1>3, <1>t DEF TypeOK
    <2>2. QED
      BY <1>1, <1>5, <1>t, <2>1 DEF TypeOK
  <1>7. FlightsMatch'
    BY <1>1, <1>3, <1>t DEF TypeOK, FlightsMatch, ResultOf, Busy, Req
  <1>8. ResultsMatch' /\ ReadsAreListed'
    BY <1>1, <1>t DEF TypeOK, ResultsMatch, ReadsAreListed, ResultOf, Busy, Req
  <1>9. QED
    BY <1>5, <1>6, <1>7, <1>8 DEF FilesInv

\* A browser that leaves changes nothing else.
LEMMA LeaveStep ==
  ASSUME FilesInv, NEW c \in Caller, Leave(c)
  PROVE  FilesInv'
  <1> DEFINE next == [caller[c] EXCEPT !.req.left = TRUE]
  <1>t. TypeOK /\ FlightsMatch /\ ResultsMatch /\ ReadsAreListed
    BY DEF FilesInv
  <1>1. /\ caller[c].pc # "idle" /\ caller' = [caller EXCEPT ![c] = next]
        /\ UNCHANGED <<vm, changes, shown, slots, flight>>
    BY DEF Leave, Busy, guest
  <1>2. caller[c] \in Job
    BY <1>t DEF TypeOK
  <1>3. /\ next \in Job /\ next.pc = caller[c].pc
        /\ next.req.sid = caller[c].req.sid /\ next.req.path = caller[c].req.path
        /\ next.pc = "got" => next.res = caller[c].res
    <2>1. CASE caller[c].pc \in {"wait", "read"}
      BY <1>2, <2>1 DEF Job, Request
    <2>2. CASE caller[c].pc = "got"
      BY <1>2, <2>2 DEF Job, Request
    <2>3. QED
      BY <1>1, <1>2, <2>1, <2>2 DEF Job
  <1>4. Flying' = Flying /\ Reading' = Reading
    BY <1>1, <1>3, <1>t DEF TypeOK, Flying, Reading, Busy
  <1>5. slots' \in 0 .. Limit /\ SlotsAreHeld'
    BY <1>1, <1>4, SlotsKept
  <1>6. TypeOK'
    BY <1>1, <1>3, <1>5, <1>t DEF TypeOK
  <1>7. FlightsMatch'
    BY <1>1, <1>3, <1>t DEF TypeOK, FlightsMatch, ResultOf, Busy, Req
  <1>8. ResultsMatch' /\ ReadsAreListed'
    BY <1>1, <1>3, <1>t DEF TypeOK, ResultsMatch, ReadsAreListed, ResultOf, Busy, Req
  <1>9. QED
    BY <1>5, <1>6, <1>7, <1>8 DEF FilesInv

\* A request that stops waiting leaves its flight.
LEMMA StopWaitingStep ==
  ASSUME FilesInv, NEW c \in Caller, StopWaiting(c)
  PROVE  FilesInv'
  <1>t. TypeOK /\ FlightsMatch /\ ResultsMatch /\ ReadsAreListed
    BY DEF FilesInv
  <1>1. /\ caller[c].pc \in {"wait", "got"} /\ caller' = [caller EXCEPT ![c] = Idle]
        /\ flight' = [k \in Session |->
                        IF flight[k].pc = "none" THEN flight[k]
                        ELSE [flight[k] EXCEPT !.waiting = @ \ {c}]]
        /\ UNCHANGED <<vm, changes, shown, slots>>
    BY DEF StopWaiting, Reply, guest
  <1>2. Idle \in Job /\ Idle.pc = "idle"
    BY DEF Idle, Job
  <1>3. ASSUME NEW k \in Session
        PROVE  /\ flight'[k] \in Flight /\ flight'[k].pc = flight[k].pc
               /\ flight[k].pc \in {"acquire", "run"} => flight'[k].sid = flight[k].sid
               /\ flight[k].pc = "deliver" => flight'[k].res = flight[k].res
               /\ flight[k].pc # "none" => flight'[k].waiting = flight[k].waiting \ {c}
    <2>1. flight[k] \in Flight
      BY <1>t DEF TypeOK
    <2>2. CASE flight[k].pc = "none"
      BY <1>1, <2>1, <2>2
    <2>3. CASE flight[k].pc \in {"acquire", "run"}
      BY <1>1, <2>1, <2>3 DEF Flight
    <2>4. CASE flight[k].pc = "deliver"
      BY <1>1, <2>1, <2>4 DEF Flight
    <2>5. QED
      BY <2>1, <2>2, <2>3, <2>4 DEF Flight
  <1>4. Flying' = Flying /\ Reading' = Reading
    BY <1>1, <1>2, <1>3, <1>t DEF TypeOK, Flying, Reading, Busy
  <1>5. slots' \in 0 .. Limit /\ SlotsAreHeld'
    BY <1>1, <1>4, SlotsKept
  <1>6. TypeOK'
    BY <1>1, <1>2, <1>3, <1>5, <1>t DEF TypeOK
  <1>7. FlightsMatch'
    BY <1>1, <1>2, <1>3, <1>t DEF TypeOK, FlightsMatch, ResultOf, Busy, Req
  <1>8. ResultsMatch' /\ ReadsAreListed'
    BY <1>1, <1>2, <1>t DEF TypeOK, ResultsMatch, ReadsAreListed, ResultOf, Busy, Req
  <1>9. QED
    BY <1>5, <1>6, <1>7, <1>8 DEF FilesInv

\* A flight that goes on, or returns, for the session of its key.
LEMMA FlightMoves ==
  ASSUME FilesInv, NEW k \in Session, NEW f \in Flight,
         flight' = [flight EXCEPT ![k] = f], UNCHANGED <<vm, changes, caller>>,
         slots' \in 0 .. Limit, SlotsAreHeld',
         \A s \in Session : shown[s] \subseteq shown'[s],
         shown' \in [Session -> SUBSET Path],
         flight[k].pc # "none", f.pc # "none", f.waiting = flight[k].waiting,
         f.pc \in {"acquire", "run"} => f.sid = k,
         f.pc = "deliver" =>
            (f.res.kind = "ok" => f.res.of = k /\ f.res.snap \subseteq shown'[k] \cap Listable)
  PROVE  FilesInv'
  <1>t. TypeOK /\ FlightsMatch /\ ResultsMatch /\ ReadsAreListed
    BY DEF FilesInv
  <1>1. TypeOK'
    BY <1>t DEF TypeOK
  <1>2. \A r, s : s \in Session /\ ResultOf(r, s) => ResultOf(r, s)'
    BY DEF ResultOf
  <1>3. flight'[k] = f /\ \A j \in Session : j # k => flight'[j] = flight[j]
    BY <1>t DEF TypeOK
  <1>4. ASSUME NEW j \in Session
        PROVE  (/\ flight[j].pc \in {"acquire", "run"} => flight[j].sid = j
                /\ flight[j].pc = "deliver" => ResultOf(flight[j].res, j)
                /\ flight[j].pc # "none" =>
                      \A c \in flight[j].waiting : Busy(c, "wait") /\ Req(c).sid = j)'
    <2>1. CASE j = k
      <3>1. f.pc = "deliver" => ResultOf(flight[j].res, j)'
        BY <1>3, <2>1 DEF ResultOf
      <3>2. \A c \in f.waiting : Busy(c, "wait")' /\ (Req(c).sid = j)'
        BY <1>t, <2>1 DEF FlightsMatch, Busy, Req
      <3>3. QED
        BY <1>3, <2>1, <3>1, <3>2
    <2>2. CASE j # k
      <3>1. flight[j].pc = "deliver" => ResultOf(flight[j].res, j)'
        BY <1>2, <1>3, <1>t, <2>2 DEF FlightsMatch, ResultOf
      <3>2. flight[j].pc # "none" =>
               \A c \in flight[j].waiting : Busy(c, "wait")' /\ (Req(c).sid = j)'
        BY <1>t DEF FlightsMatch, Busy, Req
      <3>3. QED
        BY <1>3, <1>t, <2>2, <3>1, <3>2 DEF FlightsMatch
    <2>3. QED
      BY <2>1, <2>2
  <1>5. FlightsMatch'
    BY <1>4 DEF FlightsMatch
  <1>6. ASSUME NEW c \in Caller, Busy(c, "got") PROVE ResultOf(caller[c].res, Req(c).sid)'
    <2>1. caller[c] \in Job /\ caller[c].pc = "got"
      BY <1>t, <1>6 DEF TypeOK, Busy
    <2>2. Req(c).sid \in Session
      BY <2>1 DEF Job, Request, Req
    <2>3. ResultOf(caller[c].res, Req(c).sid)
      BY <1>t, <1>6 DEF ResultsMatch
    <2>4. QED
      BY <2>2, <2>3 DEF ResultOf, Req
  <1>7. ResultsMatch'
    BY <1>6 DEF ResultsMatch, Busy, Req
  <1>8. ASSUME NEW c \in Caller, Busy(c, "read")
        PROVE  Req(c).path \in shown'[Req(c).sid] \cap Listable
    <2>1. caller[c] \in Job /\ caller[c].pc = "read"
      BY <1>t, <1>8 DEF TypeOK, Busy
    <2>2. Req(c).sid \in Session
      BY <2>1 DEF Job, Request, Req
    <2>3. QED
      BY <1>8, <1>t, <2>2 DEF ReadsAreListed
  <1>9. ReadsAreListed'
    BY <1>8 DEF ReadsAreListed, Busy, Req
  <1>10. QED
    BY <1>1, <1>5, <1>7, <1>9 DEF FilesInv

\* The flight takes a slot, or returns ErrBusy.
LEMMA StartFlightStep ==
  ASSUME FilesInv, NEW k \in Session, StartFlight(k)
  PROVE  FilesInv'
  <1>t. TypeOK /\ FlightsMatch
    BY DEF FilesInv
  <1>1. /\ flight[k].pc = "acquire" /\ flight[k] \in Flight /\ flight \in [Session -> Flight]
        /\ UNCHANGED <<vm, changes, shown, caller>>
    BY <1>t DEF StartFlight, TypeOK, guest
  <1>2. flight[k].sid = k /\ flight[k].waiting \in SUBSET Caller
    BY <1>1, <1>t DEF Flight, FlightsMatch
  <1>3. shown' \in [Session -> SUBSET Path] /\ Reading' = Reading
    BY <1>1, <1>t DEF TypeOK, Reading, Busy
  <1>4. CASE HasSlot
    <2> DEFINE f == [flight[k] EXCEPT !.pc = "run"]
    <2>1. flight' = [flight EXCEPT ![k] = f] /\ Acquire
      BY <1>4 DEF StartFlight
    <2>2. f \in Flight /\ f.pc = "run" /\ f.sid = k /\ f.waiting = flight[k].waiting
      BY <1>1, <1>2 DEF Flight
    <2>3. k \notin Flying /\ Flying' = Flying \cup {k}
      BY <1>1, <2>1, <2>2 DEF Flying
    <2>4. slots' \in 0 .. Limit /\ SlotsAreHeld'
      BY <1>3, <1>4, <2>1, <2>3, SlotTaken
    <2> HIDE DEF f
    <2>5. QED
      BY <1>1, <1>3, <2>1, <2>2, <2>4, FlightMoves
  <1>5. CASE ~HasSlot
    <2> DEFINE f == [pc |-> "deliver", waiting |-> flight[k].waiting, res |-> Error]
    <2>1. flight' = [flight EXCEPT ![k] = f] /\ slots' = slots
      BY <1>5 DEF StartFlight, Return
    <2>2. /\ f \in Flight /\ f.pc = "deliver" /\ f.waiting = flight[k].waiting
          /\ f.res.kind # "ok"
      BY <1>2 DEF Flight, Error, Result
    <2>3. Flying' = Flying
      BY <1>1, <2>1, <2>2 DEF Flying
    <2>4. slots' \in 0 .. Limit /\ SlotsAreHeld'
      BY <1>3, <2>1, <2>3, SlotsKept
    <2> HIDE DEF f
    <2>5. QED
      BY <1>1, <1>3, <2>1, <2>2, <2>4, FlightMoves
  <1>6. QED
    BY <1>4, <1>5

\* A command that ends gives its slot back and returns a result of its session.
LEMMA ReturnStep ==
  ASSUME FilesInv, NEW k \in Session, NEW r \in Result, flight[k].pc = "run",
         Return(k, r), Release, UNCHANGED <<vm, changes, caller>>,
         \A s \in Session : shown[s] \subseteq shown'[s],
         shown' \in [Session -> SUBSET Path],
         r.kind = "ok" => r.of = k /\ r.snap \subseteq shown'[k] \cap Listable
  PROVE  FilesInv'
  <1> DEFINE f == [pc |-> "deliver", waiting |-> flight[k].waiting, res |-> r]
  <1>t. TypeOK
    BY DEF FilesInv
  <1>1. flight[k] \in Flight /\ flight \in [Session -> Flight] /\ Reading' = Reading
    BY <1>t DEF TypeOK, Reading, Busy
  <1>2. flight[k].waiting \in SUBSET Caller
    BY <1>1 DEF Flight
  <1>3. flight' = [flight EXCEPT ![k] = f]
    BY DEF Return
  <1>4. f \in Flight /\ f.pc = "deliver" /\ f.waiting = flight[k].waiting /\ f.res = r
    BY <1>2 DEF Flight
  <1>5. k \in Flying /\ Flying' = Flying \ {k}
    BY <1>1, <1>3, <1>4 DEF Flying
  <1>6. slots' \in 0 .. Limit /\ SlotsAreHeld'
    BY <1>1, <1>5, SlotFreed
  <1> HIDE DEF f
  <1>7. QED
    BY <1>3, <1>4, <1>6, FlightMoves

\* The VM answers or refuses.
LEMMA RunListStep ==
  ASSUME FilesInv, NEW k \in Session, RunList(k)
  PROVE  FilesInv'
  <1>t. TypeOK /\ FlightsMatch
    BY DEF FilesInv
  <1>1. /\ flight[k].pc = "run" /\ Release /\ UNCHANGED <<vm, changes, caller>>
        /\ flight[k].sid = k /\ shown \in [Session -> SUBSET Path]
    BY <1>t DEF RunList, guest, FlightsMatch, TypeOK
  <1>2. ASSUME NEW snap \in Snapshots, Return(k, [kind |-> "ok", of |-> k, snap |-> snap]),
               shown' = [shown EXCEPT ![k] = @ \cup snap]
        PROVE  FilesInv'
    <2> DEFINE r == [kind |-> "ok", of |-> k, snap |-> snap]
    <2>1. snap \subseteq Listable /\ snap \subseteq Path
      BY DEF Snapshots
    <2>2. r \in Result /\ r.kind = "ok" /\ r.of = k /\ r.snap = snap
      BY <2>1 DEF Result
    <2>3. /\ shown' \in [Session -> SUBSET Path] /\ snap \subseteq shown'[k]
          /\ \A s \in Session : shown[s] \subseteq shown'[s]
      BY <1>1, <1>2, <2>1
    <2> HIDE DEF r
    <2>4. Return(k, r)
      BY <1>2 DEF r
    <2>5. QED
      BY <1>1, <2>1, <2>2, <2>3, <2>4, ReturnStep
  <1>3. ASSUME Return(k, Error), shown' = shown PROVE FilesInv'
    <2>1. Error \in Result /\ Error.kind # "ok"
      BY DEF Error, Result
    <2>2. QED
      BY <1>1, <1>3, <2>1, ReturnStep
  <1>4. QED
    BY <1>1, <1>2, <1>3 DEF RunList

\* The timeout gives the slot back too.
LEMMA ListTimesOutStep ==
  ASSUME FilesInv, NEW k \in Session, ListTimesOut(k)
  PROVE  FilesInv'
  <1>1. Error \in Result /\ Error.kind # "ok"
    BY DEF Error, Result
  <1>2. shown \in [Session -> SUBSET Path]
    BY DEF FilesInv, TypeOK
  <1>3. QED
    BY <1>1, <1>2, ReturnStep DEF ListTimesOut, guest

\* Everybody who joined the flight gets a result of their own session.
LEMMA DeliverStep ==
  ASSUME FilesInv, NEW k \in Session, Deliver(k)
  PROVE  FilesInv'
  <1>t. TypeOK /\ FlightsMatch /\ ResultsMatch /\ ReadsAreListed
    BY DEF FilesInv
  <1> DEFINE W == flight[k].waiting
             r == flight[k].res
  <1>1. /\ flight[k].pc = "deliver" /\ flight[k] \in Flight
        /\ caller' = [c \in Caller |->
                        IF c \in W THEN [pc |-> "got", req |-> Req(c), res |-> r]
                        ELSE caller[c]]
        /\ flight' = [flight EXCEPT ![k] = NoFlight]
        /\ UNCHANGED <<vm, changes, shown, slots>>
    BY <1>t DEF Deliver, guest, TypeOK
  <1>2. W \in SUBSET Caller /\ r \in Result /\ ResultOf(r, k)
    BY <1>1, <1>t DEF Flight, FlightsMatch
  <1>3. \A c \in W : Busy(c, "wait") /\ Req(c).sid = k
    BY <1>1, <1>t DEF FlightsMatch
  <1>4. NoFlight \in Flight /\ NoFlight.pc = "none"
    BY DEF NoFlight, Flight
  <1>5. ASSUME NEW c \in W
        PROVE  /\ Req(c) \in Request
               /\ caller'[c] \in Job /\ caller'[c].pc = "got"
               /\ caller'[c].res = r /\ caller'[c].req = Req(c)
    <2>1. caller[c] \in Job /\ caller[c].pc = "wait"
      BY <1>2, <1>3, <1>t DEF TypeOK, Busy
    <2>2. Req(c) \in Request
      BY <2>1 DEF Job, Req
    <2>3. caller'[c] = [pc |-> "got", req |-> Req(c), res |-> r]
      BY <1>1, <1>2
    <2>4. QED
      BY <1>2, <2>2, <2>3 DEF Job
  <1>6. \A c \in Caller : c \notin W => caller'[c] = caller[c]
    BY <1>1
  <1>7. Flying' = Flying
    BY <1>1, <1>4, <1>t DEF TypeOK, Flying
  <1>8. Reading' = Reading
    BY <1>3, <1>5, <1>6 DEF Reading, Busy
  <1>9. slots' \in 0 .. Limit /\ SlotsAreHeld'
    BY <1>1, <1>7, <1>8, SlotsKept
  <1>10. TypeOK'
    <2>1. caller' \in [Caller -> Job]
      BY <1>1, <1>5, <1>6, <1>t DEF TypeOK
    <2>2. flight' \in [Session -> Flight]
      BY <1>1, <1>4, <1>t DEF TypeOK
    <2>3. QED
      BY <1>1, <1>9, <1>t, <2>1, <2>2 DEF TypeOK
  <1>11. ASSUME NEW j \in Session, j # k, flight[j].pc # "none", NEW c \in flight[j].waiting
         PROVE  c \notin W /\ caller'[c] = caller[c]
    <2>1. flight[j] \in Flight
      BY <1>t DEF TypeOK
    <2>2. c \in Caller
      BY <1>11, <2>1 DEF Flight
    <2>3. Req(c).sid = j
      BY <1>11, <1>t DEF FlightsMatch
    <2>4. QED
      BY <1>3, <1>6, <1>11, <2>2, <2>3
  <1>12. FlightsMatch'
    <2>1. ASSUME NEW j \in Session, j # k PROVE flight'[j] = flight[j]
      BY <1>1, <2>1
    <2>2. flight'[k].pc = "none"
      BY <1>1, <1>4, <1>t DEF TypeOK
    <2>3. ASSUME NEW j \in Session, j # k
          PROVE  (/\ flight[j].pc \in {"acquire", "run"} => flight[j].sid = j
                  /\ flight[j].pc = "deliver" => ResultOf(flight[j].res, j)
                  /\ flight[j].pc # "none" =>
                        \A c \in flight[j].waiting : Busy(c, "wait") /\ Req(c).sid = j)'
      <3>1. flight[j].pc = "deliver" => ResultOf(flight[j].res, j)'
        BY <1>1, <1>t, <2>1, <2>3 DEF FlightsMatch, ResultOf
      <3>2. flight[j].pc # "none" =>
               \A c \in flight[j].waiting : Busy(c, "wait")' /\ (Req(c).sid = j)'
        BY <1>11, <1>t, <2>3 DEF FlightsMatch, Busy, Req
      <3>3. QED
        BY <1>t, <2>1, <2>3, <3>1, <3>2 DEF FlightsMatch
    <2>4. QED
      BY <2>2, <2>3 DEF FlightsMatch
  <1>13. ASSUME NEW c \in Caller, Busy(c, "got")' PROVE ResultOf(caller[c].res, Req(c).sid)'
    <2>1. CASE c \in W
      BY <1>1, <1>2, <1>3, <1>5, <2>1 DEF ResultOf, Req
    <2>2. CASE c \notin W
      BY <1>1, <1>6, <1>13, <1>t, <2>2 DEF ResultsMatch, ResultOf, Req, Busy
    <2>3. QED
      BY <2>1, <2>2
  <1>14. ResultsMatch'
    BY <1>13 DEF ResultsMatch
  <1>15. ReadsAreListed'
    <2>1. ASSUME NEW c \in Caller, Busy(c, "read")'
          PROVE  (Req(c).path \in shown[Req(c).sid] \cap Listable)'
      BY <1>1, <1>5, <1>6, <1>t, <2>1 DEF ReadsAreListed, Busy, Req
    <2>2. QED
      BY <2>1 DEF ReadsAreListed
  <1>16. QED
    BY <1>9, <1>10, <1>12, <1>14, <1>15 DEF FilesInv

\* A request that waits for no flight moves to a state that shows no result, or is
\* answered.
LEMMA CallerMoves ==
  ASSUME FilesInv, NEW c \in Caller, NEW j \in Job,
         caller' = [caller EXCEPT ![c] = j], UNCHANGED <<vm, changes, shown, flight>>,
         slots' \in 0 .. Limit, SlotsAreHeld',
         caller[c].pc \in {"got", "read"}, j.pc # "got",
         j.pc = "read" => j.req.path \in shown[j.req.sid] \cap Listable
  PROVE  FilesInv'
  <1>t. TypeOK /\ FlightsMatch /\ ResultsMatch /\ ReadsAreListed
    BY DEF FilesInv
  <1>1. TypeOK'
    BY <1>t DEF TypeOK
  <1>2. caller'[c] = j /\ \A d \in Caller : d # c => caller'[d] = caller[d]
    BY <1>t DEF TypeOK
  <1>3. ASSUME NEW k \in Session, flight[k].pc # "none", NEW d \in flight[k].waiting
        PROVE  Busy(d, "wait")' /\ (Req(d).sid = k)'
    <2>1. flight[k] \in Flight
      BY <1>t DEF TypeOK
    <2>2. d \in Caller
      BY <1>3, <2>1 DEF Flight
    <2>3. Busy(d, "wait") /\ Req(d).sid = k
      BY <1>3, <1>t DEF FlightsMatch
    <2>4. caller'[d] = caller[d]
      BY <1>2, <2>2, <2>3 DEF Busy
    <2>5. QED
      BY <2>3, <2>4 DEF Busy, Req
  <1>4. ASSUME NEW k \in Session
        PROVE  (/\ flight[k].pc \in {"acquire", "run"} => flight[k].sid = k
                /\ flight[k].pc = "deliver" => ResultOf(flight[k].res, k)
                /\ flight[k].pc # "none" =>
                      \A d \in flight[k].waiting : Busy(d, "wait") /\ Req(d).sid = k)'
    <2>1. flight[k].pc = "deliver" => ResultOf(flight[k].res, k)'
      BY <1>t DEF FlightsMatch, ResultOf
    <2>2. QED
      BY <1>3, <1>t, <2>1 DEF FlightsMatch
  <1>5. FlightsMatch'
    BY <1>4 DEF FlightsMatch
  <1>6. ResultsMatch' /\ ReadsAreListed'
    BY <1>2, <1>t DEF ResultsMatch, ReadsAreListed, ResultOf, Busy, Req
  <1>7. QED
    BY <1>1, <1>5, <1>6 DEF FilesInv

\* A read begins only for a path in the listing the request was given.
LEMMA TakeResultStep ==
  ASSUME FilesInv, NEW c \in Caller, TakeResult(c)
  PROVE  FilesInv'
  <1>t. TypeOK /\ ResultsMatch
    BY DEF FilesInv
  <1> DEFINE r == caller[c].res
             q == Req(c)
             listed == r.kind = "ok" /\ q.path # None /\ ContainsFile(r.snap, q.path)
  <1>1. /\ caller[c] \in Job /\ caller[c].pc = "got" /\ caller \in [Caller -> Job]
        /\ UNCHANGED <<vm, changes, shown, flight>>
    BY <1>t DEF TakeResult, Busy, TypeOK, guest
  <1>2. q \in Request /\ ResultOf(r, q.sid)
    BY <1>1, <1>t DEF Job, Req, ResultsMatch, Busy
  <1>3. Flying' = Flying
    BY <1>1 DEF Flying
  <1>4. CASE listed /\ HasSlot
    <2> DEFINE j == [pc |-> "read", req |-> q]
    <2>1. Acquire /\ caller' = [caller EXCEPT ![c] = j]
      BY <1>4 DEF TakeResult, Goto
    <2>2. j \in Job /\ j.pc = "read" /\ j.req = q
      BY <1>2 DEF Job
    <2>3. q.path \in shown[q.sid] \cap Listable
      BY <1>2, <1>4 DEF ResultOf, ContainsFile
    <2> HIDE DEF j, q
    <2>4. c \notin Reading /\ Reading' = Reading \cup {c}
      BY <1>1, <2>1, <2>2 DEF Reading, Busy
    <2>5. slots' \in 0 .. Limit /\ SlotsAreHeld'
      BY <1>3, <1>4, <2>1, <2>4, SlotTaken
    <2>6. QED
      BY <1>1, <2>1, <2>2, <2>3, <2>5, CallerMoves
  <1>5. CASE ~(listed /\ HasSlot)
    <2>1. slots' = slots /\ caller' = [caller EXCEPT ![c] = Idle]
      BY <1>5 DEF TakeResult, Reply
    <2>2. Idle \in Job /\ Idle.pc = "idle"
      BY DEF Idle, Job
    <2>3. Reading' = Reading
      BY <1>1, <2>1, <2>2 DEF Reading, Busy
    <2>4. slots' \in 0 .. Limit /\ SlotsAreHeld'
      BY <1>3, <2>1, <2>3, SlotsKept
    <2>5. QED
      BY <1>1, <2>1, <2>2, <2>4, CallerMoves
  <1>6. QED
    BY <1>4, <1>5

\* However a read ends, its slot is given back.
LEMMA ReadStep ==
  ASSUME FilesInv, NEW c \in Caller, ReadFile(c) \/ ReadStops(c)
  PROVE  FilesInv'
  <1>1. /\ caller \in [Caller -> Job] /\ caller[c].pc = "read"
        /\ caller' = [caller EXCEPT ![c] = Idle] /\ Release
        /\ UNCHANGED <<vm, changes, shown, flight>>
    BY DEF FilesInv, TypeOK, ReadFile, ReadStops, Busy, Reply, guest
  <1>2. Idle \in Job /\ Idle.pc = "idle"
    BY DEF Idle, Job
  <1>3. Flying' = Flying
    BY <1>1 DEF Flying
  <1>4. c \in Reading /\ Reading' = Reading \ {c}
    BY <1>1, <1>2 DEF Reading, Busy
  <1>5. slots' \in 0 .. Limit /\ SlotsAreHeld'
    BY <1>1, <1>3, <1>4, SlotFreed
  <1>6. QED
    BY <1>1, <1>2, <1>5, CallerMoves

\* A change of a VM, or a stuttering step, disturbs nothing.
LEMMA QuietStep ==
  ASSUME FilesInv, UNCHANGED <<shown, slots, flight, caller>>,
         vm' \in [Session -> {"ready", "hung", "gone"}], changes' \in 0 .. MaxChanges
  PROVE  FilesInv'
  BY DEF FilesInv, TypeOK, SlotsAreHeld, FlightsMatch, ResultsMatch, ReadsAreListed,
     ResultOf, Flying, Reading, Busy, Req

\* FilesInv is inductive.
LEMMA FilesStep == FilesInv /\ [Next]_vars => FilesInv'
  <1> SUFFICES ASSUME FilesInv, [Next]_vars PROVE FilesInv'
    OBVIOUS
  <1>1. ASSUME NEW s \in Session, VMChanges(s) PROVE FilesInv'
    <2>1. /\ vm' \in [Session -> {"ready", "hung", "gone"}] /\ changes' \in 0 .. MaxChanges
          /\ UNCHANGED <<shown, slots, flight, caller>>
      BY <1>1 DEF VMChanges, FilesInv, TypeOK
    <2>2. QED
      BY <2>1, QuietStep
  <1>2. ASSUME UNCHANGED vars PROVE FilesInv'
    <2>1. /\ vm' \in [Session -> {"ready", "hung", "gone"}] /\ changes' \in 0 .. MaxChanges
          /\ UNCHANGED <<shown, slots, flight, caller>>
      BY <1>2 DEF vars, FilesInv, TypeOK
    <2>2. QED
      BY <2>1, QuietStep
  <1>3. ASSUME NEW c \in Caller, Work(c) PROVE FilesInv'
    BY <1>3, StopWaitingStep, TakeResultStep, ReadStep DEF Work
  <1>4. ASSUME NEW k \in Session, Fly(k) PROVE FilesInv'
    BY <1>4, StartFlightStep, RunListStep, ListTimesOutStep, DeliverStep DEF Fly
  <1>5. QED
    BY <1>1, <1>2, <1>3, <1>4, ListStep, LeaveStep DEF Next

\* The service starts without requests, flights and used slots.
LEMMA FilesInit == Init => FilesInv
  <1> SUFFICES ASSUME Init PROVE FilesInv
    OBVIOUS
  <1>1. NoFlight \in Flight /\ NoFlight.pc = "none" /\ Idle \in Job /\ Idle.pc = "idle"
    BY DEF NoFlight, Flight, Idle, Job
  <1>2. /\ \A k \in Session : flight[k] = NoFlight
        /\ \A c \in Caller : caller[c] = Idle
    BY DEF Init
  <1>3. TypeOK
    BY <1>1, LimitType DEF Init, TypeOK
  <1>4. Flying = {} /\ Reading = {}
    BY <1>1, <1>2 DEF Flying, Reading, Busy
  <1>5. SlotsAreHeld
    BY <1>4, FS_EmptySet, LimitType DEF Init, SlotsAreHeld
  <1>6. FlightsMatch /\ ResultsMatch /\ ReadsAreListed
    BY <1>1, <1>2 DEF FlightsMatch, ResultsMatch, ReadsAreListed, Busy
  <1>7. QED
    BY <1>3, <1>5, <1>6 DEF FilesInv

\* The inductive invariant holds throughout.
THEOREM FilesInvariant == Spec => []FilesInv
  <1>1. QED
    BY FilesInit, FilesStep, PTL DEF Spec

\* The state is well typed; in particular the channel never holds more than its
\* capacity (service.go 148-155).
THEOREM FilesTypeCorrect == Spec => []TypeOK
  <1>1. FilesInv => TypeOK
    BY DEF FilesInv
  <1>2. QED
    BY <1>1, FilesInvariant, PTL

\* For any number of slots, sessions and requests, a slot is taken exactly while a
\* command runs in a VM (service.go 78, 117, 148-155).
THEOREM SlotsAreAccounted == Spec => []SlotsAreHeld
  <1>1. FilesInv => SlotsAreHeld
    BY DEF FilesInv
  <1>2. QED
    BY <1>1, FilesInvariant, PTL

\* A merged listing is of the session that was asked for (service.go 112).
THEOREM ListingsAreOwn == Spec => []OwnListing
  <1>1. FilesInv => OwnListing
    BY DEF FilesInv, ResultsMatch, ResultOf, OwnListing
  <1>2. QED
    BY <1>1, FilesInvariant, PTL

\* Only files that the VM itself has listed, and that may be listed, are read
\* (service.go 63-82, snapshot.go 96-127).
THEOREM OnlyListedFilesAreRead == Spec => []ReadsAreListed
  <1>1. FilesInv => ReadsAreListed
    BY DEF FilesInv
  <1>2. QED
    BY <1>1, FilesInvariant, PTL

=============================================================================
