------------------------------ MODULE VMFiles ------------------------------
(***************************************************************************)
(* The files of a session's VM in the lab page: vmfiles.Service, which      *)
(* merges concurrent listings of one session into one flight, limits the   *)
(* commands in VMs by a channel of slots and bounds each by a timeout, and *)
(* the two handlers in front of it (handlers/vm_files.go).                 *)
(*                                                                         *)
(* A step is one operation on the singleflight group, on the channel of    *)
(* slots or on the VM. The VM is the learner's, so its answers are any that *)
(* the API's validation accepts; it may hang or be deleted at any time, and *)
(* browsers may leave, which cancels the context of their request.          *)
(***************************************************************************)
EXTENDS Naturals, FiniteSets

CONSTANTS
    Session,
    Caller,         \* request goroutines
    Path,           \* paths that are asked for
    Listable,       \* those that validateRelativePath accepts: not hidden
    MaxConcurrent,  \* vmFileAccessMaxConcurrent
    MaxChanges,     \* bound: VMs that hang or are deleted
    None            \* a request without a path: a listing

\* NewService: a limit below one is one.
Limit == IF MaxConcurrent = 0 THEN 1 ELSE MaxConcurrent

ASSUME VMFilesAssumption ==
    /\ MaxConcurrent \in Nat /\ MaxChanges \in Nat
    /\ IsFiniteSet(Session) /\ IsFiniteSet(Caller)
    /\ Listable \subseteq Path /\ None \notin Path

VARIABLES
    vm,        \* what the provider and SSH say of each session
    changes,   \* how often a VM has hung or gone
    shown,     \* history: the paths a VM's listings have had as files
    slots,     \* the length of the channel limit
    flight,    \* the singleflight group: the call of each key
    caller     \* where each request is

vars == <<vm, changes, shown, slots, flight, caller>>
guest == <<vm, changes>>

\* What a flight returns: a snapshot with the session it was taken of, or an error.
Result ==
    [kind : {"ok"}, of : Session, snap : SUBSET Path]
    \cup [kind : {"error"}]

Flight ==
    [pc : {"none"}]
    \cup [pc : {"acquire", "run"}, sid : Session, waiting : SUBSET Caller]
    \cup [pc : {"deliver"}, waiting : SUBSET Caller, res : Result]

Request == [sid : Session, path : Path \cup {None}, left : BOOLEAN]

Job ==
    [pc : {"idle"}]
    \cup [pc : {"wait", "read"}, req : Request]
    \cup [pc : {"got"}, req : Request, res : Result]

TypeOK ==
    /\ vm \in [Session -> {"ready", "hung", "gone"}]
    /\ changes \in 0 .. MaxChanges
    /\ shown \in [Session -> SUBSET Path]
    /\ slots \in 0 .. Limit
    /\ flight \in [Session -> Flight]
    /\ caller \in [Caller -> Job]

Idle == [pc |-> "idle"]
NoFlight == [pc |-> "none"]
Error == [kind |-> "error"]

Init ==
    /\ vm = [s \in Session |-> "ready"]
    /\ changes = 0
    /\ shown = [s \in Session |-> {}]
    /\ slots = 0
    /\ flight = [s \in Session |-> NoFlight]
    /\ caller = [c \in Caller |-> Idle]

Busy(c, pc) == caller[c].pc = pc
Req(c) == caller[c].req
Goto(c, pc) == caller' = [caller EXCEPT ![c] = [pc |-> pc, req |-> Req(c)]]

\* The handler answers, with what was asked for or with a status for the error
\* (handleVMFileError: 429, 404 or 502), and its goroutine is free.
Reply(c) == caller' = [caller EXCEPT ![c] = Idle]

-----------------------------------------------------------------------------
(* The slots.                                                              *)

\* acquireLimit does not wait: a full channel is ErrBusy.
HasSlot == slots < Limit

Acquire == slots' = slots + 1
Release == slots' = slots - 1

-----------------------------------------------------------------------------
(* A request, up to the flight it waits for.                               *)

\* readyFileSession: the session has to be the user's, on KubeVirt and ready. A VM
\* that hangs inside is still ready to the provider.
ReadyFileSession(s) == vm[s] # "gone"

\* Mutant of FlightKey: all sessions share one flight.
FlightKeyShared(s) == CHOOSE t \in Session : TRUE

\* The key under which List merges requests.
FlightKey(s) == s

\* DoChan: the request joins the call of its key, or starts one for its session.
DoChan(f, c, s) ==
    IF f.pc = "none" THEN [pc |-> "acquire", sid |-> s, waiting |-> {c}]
    ELSE [f EXCEPT !.waiting = @ \cup {c}]

\* ListSessionFiles, or PreviewSessionFile with a path, up to DoChan. A request that
\* is denied, or whose browser has left by then, leaves no trace.
List(c, s, p) ==
    /\ Busy(c, "idle")
    /\ ReadyFileSession(s)
    /\ caller' = [caller EXCEPT ![c] =
                     [pc |-> "wait", req |-> [sid |-> s, path |-> p, left |-> FALSE]]]
    /\ flight' = [flight EXCEPT ![FlightKey(s)] = DoChan(@, c, s)]
    /\ UNCHANGED <<guest, shown, slots>>

\* The browser leaves: the context of the request is cancelled.
Leave(c) ==
    /\ ~Busy(c, "idle")
    /\ ~Req(c).left
    /\ caller' = [caller EXCEPT ![c].req.left = TRUE]
    /\ UNCHANGED <<guest, shown, slots, flight>>

\* List returns on ctx.Done; the flight goes on without this request.
StopWaiting(c) ==
    /\ caller[c].pc \in {"wait", "got"}
    /\ Req(c).left
    /\ Reply(c)
    /\ flight' = [k \in Session |->
                     IF flight[k].pc = "none" THEN flight[k]
                     ELSE [flight[k] EXCEPT !.waiting = @ \ {c}]]
    /\ UNCHANGED <<guest, shown, slots>>

-----------------------------------------------------------------------------
(* The flight: the function List passes to DoChan, in its own goroutine.    *)

\* The function returns r; a slot it holds was given back before.
Return(k, r) ==
    flight' = [flight EXCEPT ![k] =
                  [pc |-> "deliver", waiting |-> @.waiting, res |-> r]]

StartFlight(k) ==
    /\ flight[k].pc = "acquire"
    /\ IF HasSlot
       THEN /\ Acquire
            /\ flight' = [flight EXCEPT ![k].pc = "run"]
       ELSE /\ Return(k, Error)
            /\ UNCHANGED slots
    /\ UNCHANGED <<guest, shown, caller>>

\* Connect and runCommand: a VM that is there can be spoken to; one that hangs
\* gives neither an answer nor an error before the deadline.
Answers(s) == vm[s] = "ready"
MayRefuse(s) == vm[s] # "hung"

\* ParseSnapshot and validateEntry: what the VM wrote is a listing without hidden
\* paths, or an error. The listing may be cut short.
Snapshots == SUBSET Listable

\* Runner.Run and the validation of its output.
RunList(k) ==
    /\ flight[k].pc = "run"
    /\ LET s == flight[k].sid IN
       \/ /\ Answers(s)
          /\ \E snap \in Snapshots :
                /\ Return(k, [kind |-> "ok", of |-> s, snap |-> snap])
                /\ shown' = [shown EXCEPT ![s] = @ \cup snap]
       \/ MayRefuse(s) /\ Return(k, Error) /\ UNCHANGED shown
    /\ Release
    /\ UNCHANGED <<guest, caller>>

\* Mutant of ListTimesOut: the command runs under the context of a request, and
\* stops as soon as that one leaves.
ListFollowsLeaver(k) ==
    /\ flight[k].pc = "run"
    /\ \E c \in flight[k].waiting : Req(c).left
    /\ Return(k, Error)
    /\ Release
    /\ UNCHANGED <<guest, shown, caller>>

\* The flight's own timeout, whoever is still waiting.
ListTimesOut(k) ==
    /\ flight[k].pc = "run"
    /\ Return(k, Error)
    /\ Release
    /\ UNCHANGED <<guest, shown, caller>>

\* Everybody who joined gets the same result.
Deliver(k) ==
    /\ flight[k].pc = "deliver"
    /\ caller' = [c \in Caller |->
                     IF c \in flight[k].waiting
                     THEN [pc |-> "got", req |-> Req(c), res |-> flight[k].res]
                     ELSE caller[c]]
    /\ flight' = [flight EXCEPT ![k] = NoFlight]
    /\ UNCHANGED <<guest, shown, slots>>

-----------------------------------------------------------------------------
(* The answer to a listing, and the second half of a preview.              *)

\* Mutant of ContainsFile: the listing is read but not consulted.
ContainsAny(snap, p) == TRUE

\* snapshotContainsFile.
ContainsFile(snap, p) == p \in snap

\* A listing, an error or a path that is not listed is answered. Otherwise Read
\* takes a slot of its own; the one of the listing was given back.
TakeResult(c) ==
    /\ Busy(c, "got")
    /\ LET r == caller[c].res
           p == Req(c).path
           listed == r.kind = "ok" /\ p # None /\ ContainsFile(r.snap, p)
       IN  IF listed /\ HasSlot
           THEN Acquire /\ Goto(c, "read")
           ELSE Reply(c) /\ UNCHANGED slots
    /\ UNCHANGED <<guest, shown, flight>>

\* Reader.Read and parseFilePreview: the content, or an error of the connection,
\* of the command or of its output.
ReadFile(c) ==
    /\ Busy(c, "read")
    /\ Answers(Req(c).sid) \/ MayRefuse(Req(c).sid)
    /\ Reply(c)
    /\ Release
    /\ UNCHANGED <<guest, shown, flight>>

\* Mutant of ReadStops: a cancelled read keeps its slot.
ReadStopsKeepingSlot(c) ==
    /\ Busy(c, "read")
    /\ Reply(c)
    /\ slots' = IF Req(c).left THEN slots ELSE slots - 1
    /\ UNCHANGED <<guest, shown, flight>>

\* The read's timeout, or the browser left: the connection is closed.
ReadStops(c) ==
    /\ Busy(c, "read")
    /\ Reply(c)
    /\ Release
    /\ UNCHANGED <<guest, shown, flight>>

-----------------------------------------------------------------------------
(* The VM.                                                                 *)

VMChanges(s) ==
    /\ changes < MaxChanges
    /\ changes' = changes + 1
    /\ \/ vm[s] = "ready" /\ vm' = [vm EXCEPT ![s] = "hung"]
       \/ vm[s] # "gone" /\ vm' = [vm EXCEPT ![s] = "gone"]
    /\ UNCHANGED <<shown, slots, flight, caller>>

-----------------------------------------------------------------------------

Work(c) ==
    \/ StopWaiting(c) \/ TakeResult(c)
    \/ ReadFile(c) \/ ReadStops(c)

Fly(k) == StartFlight(k) \/ RunList(k) \/ ListTimesOut(k) \/ Deliver(k)

Next ==
    \/ \E c \in Caller :
          \/ \E s \in Session, p \in Path \cup {None} : List(c, s, p)
          \/ Leave(c)
          \/ Work(c)
    \/ \E k \in Session : Fly(k)
    \/ \E s \in Session : VMChanges(s)

Spec == Init /\ [][Next]_vars

\* Goroutines run and timeouts fire; no request, departure or change of a VM has
\* to happen.
Fairness ==
    /\ \A c \in Caller : WF_vars(Work(c))
    /\ \A k \in Session : WF_vars(Fly(k))

FairSpec == Spec /\ Fairness

-----------------------------------------------------------------------------
(* Properties.                                                             *)

Flying == {k \in Session : flight[k].pc = "run"}
Reading == {c \in Caller : Busy(c, "read")}

\* The channel holds exactly one slot for each command under way in a VM, whatever
\* fails, times out or is left by its browser (acquireLimit and its deferred
\* releases): never more commands than slots, and no slot that nobody gives back.
SlotsAreHeld ==
    /\ slots = Cardinality(Flying) + Cardinality(Reading)
    /\ slots <= Limit

\* A listing that was merged with others is one of the session that was asked for.
OwnListing ==
    \A c \in Caller :
        Busy(c, "got") /\ caller[c].res.kind = "ok" => caller[c].res.of = Req(c).sid

\* A read command is sent to a VM only for a path that a validated listing of that
\* very VM had as a file, never for a hidden or a guessed one, although the listing
\* may be of a flight that began before the request, or be cut short (Service.Read).
ReadsAreListed ==
    \A c \in Caller :
        Busy(c, "read") => Req(c).path \in shown[Req(c).sid] \cap Listable

\* Every request is answered, even if the VM hangs or the request joined a flight
\* whose starter has left.
CallsEnd == \A c \in Caller : ~Busy(c, "idle") ~> Busy(c, "idle")

\* A full channel gets a free slot again, also when nobody waits for its flights.
SlotsComeBack == ~HasSlot ~> HasSlot

-----------------------------------------------------------------------------
(* The inductive invariant behind the safety properties.                    *)

\* A result of the session s: its snapshot was validated and belongs to s.
ResultOf(r, s) ==
    r.kind = "ok" => r.of = s /\ r.snap \subseteq shown[s] \cap Listable

\* A flight works for the session of its key, and so do those who wait for it.
FlightsMatch ==
    \A k \in Session :
        /\ flight[k].pc \in {"acquire", "run"} => flight[k].sid = k
        /\ flight[k].pc = "deliver" => ResultOf(flight[k].res, k)
        /\ flight[k].pc # "none" =>
              \A c \in flight[k].waiting : Busy(c, "wait") /\ Req(c).sid = k

\* What a request was given is of its session.
ResultsMatch ==
    \A c \in Caller : Busy(c, "got") => ResultOf(caller[c].res, Req(c).sid)

FilesInv ==
    /\ TypeOK
    /\ SlotsAreHeld
    /\ FlightsMatch
    /\ ResultsMatch
    /\ ReadsAreListed

=============================================================================
