------------------------------ MODULE Console ------------------------------
(***************************************************************************)
(* The web terminal: the Console handlers (handlers/console.go), the       *)
(* registry that keeps one live console per on-prem session, the newest    *)
(* (console_registry.go), the SSH terminal of EC2 (ec2/terminal.go), and   *)
(* the browser's rule to reconnect (web/components/lab/LabTerminal.tsx).   *)
(* KubeVirt's serial console is exclusive: a new connection cuts off the   *)
(* one before it.                                                          *)
(***************************************************************************)
EXTENDS Naturals

CONSTANTS
    Session,    \* the lab sessions
    Onprem,     \* those on KubeVirt; the others are on EC2
    Window,     \* browser windows with a terminal in them
    SessionOf,  \* the session a window shows
    MaxConns,   \* bound on the sockets in use at once
    MaxOpens,   \* bound on the times a learner opens a terminal
    MaxFaults   \* bound on failing calls, cut networks and restarts

ASSUME ConsoleAssumption ==
    /\ Onprem \subseteq Session
    /\ Session # {}
    /\ SessionOf \in [Window -> Session]
    /\ MaxConns \in Nat \ {0}
    /\ MaxOpens \in Nat
    /\ MaxFaults \in Nat

VARIABLES
    window,   \* what each browser window does and the socket it uses
    pc,       \* where the handler of each socket is
    at,       \* the session it serves
    sent,     \* the close frame (1000) to the browser: none, written, or failed
    cut,      \* the sockets whose path to the browser was cut without a word
    link,     \* the sockets whose connection to the VM is open
    active,   \* consoleRegistry.active
    alive,    \* the sessions whose VM exists
    opens, faults

vars == <<window, pc, at, sent, cut, link, active, alive, opens, faults>>
socket == <<at, sent, cut>>
bounds == <<opens, faults>>

Conn == 1 .. MaxConns
NoConn == 0

TypeOK ==
    /\ window \in [Window -> [st : {"off", "open", "retry", "stopped"},
                              ws : Conn \cup {NoConn}]]
    /\ pc \in [Conn -> {"free", "console", "acquire", "dial", "proxy", "release", "close"}]
    /\ at \in [Conn -> Session]
    /\ sent \in [Conn -> {"no", "notice", "lost"}]
    /\ cut \subseteq Conn
    /\ link \subseteq Conn
    /\ active \in [Session -> Conn \cup {NoConn}]
    /\ alive \subseteq Session
    /\ opens \in 0 .. MaxOpens
    /\ faults \in 0 .. MaxFaults

Init ==
    /\ window = [w \in Window |-> [st |-> "off", ws |-> NoConn]]
    /\ pc = [c \in Conn |-> "free"]
    /\ at = [c \in Conn |-> CHOOSE s \in Session : TRUE]
    /\ sent = [c \in Conn |-> "no"]
    /\ cut = {}
    /\ link = {}
    /\ active = [s \in Session |-> NoConn]
    /\ alive = Session
    /\ opens = 0
    /\ faults = 0

Goto(c, label) == pc' = [pc EXCEPT ![c] = label]
Become(w, st, ws) == window' = [window EXCEPT ![w] = [st |-> st, ws |-> ws]]
Fault == faults < MaxFaults /\ faults' = faults + 1

-----------------------------------------------------------------------------
(* The browser.                                                            *)

\* No browser has this socket open any more.
Closed(c) == \A w \in Window : window[w].ws # c

\* Nobody is at the other end, whether the server was told or not.
Lost(c) == Closed(c) \/ c \in cut

\* connect(): a new socket, the lowest one not in use. Until it is answered
\* the handler has not begun.
Connect(w, c) ==
    /\ pc[c] = "free" /\ Closed(c)
    /\ \A d \in Conn : pc[d] = "free" /\ Closed(d) => c <= d
    /\ Become(w, "open", c)
    /\ Goto(c, "console")
    /\ at' = [at EXCEPT ![c] = SessionOf[w]]
    /\ sent' = [sent EXCEPT ![c] = "no"]
    /\ cut' = cut \ {c}
    /\ UNCHANGED <<link, active, alive, faults>>

\* The page mounts a terminal, or is loaded again.
Open(w, c) ==
    /\ window[w].st \in {"off", "stopped"}
    /\ opens < MaxOpens
    /\ opens' = opens + 1
    /\ Connect(w, c)

\* The timer of scheduleReconnect.
Reconnect(w, c) ==
    /\ window[w].st = "retry"
    /\ Connect(w, c)
    /\ UNCHANGED opens

\* shouldReconnect: only a close that is not 1000. The frame of a superseded
\* socket arrives before the end of the connection, unless the path is cut.
ShouldReconnect(c) == sent[c] # "notice" \/ c \in cut

\* onclose: the socket got a close frame, was closed by the server, or is cut.
OnClose(w) ==
    /\ window[w].st = "open"
    /\ LET c == window[w].ws IN
       /\ sent[c] = "notice" \/ pc[c] = "free" \/ c \in cut
       /\ Become(w, IF ShouldReconnect(c) THEN "retry" ELSE "stopped", NoConn)
    /\ UNCHANGED <<pc, socket, link, active, alive, bounds>>

\* The effect's cleanup, and the end of a readiness probe: close(1000).
Dispose(w) ==
    /\ window[w].st \in {"open", "retry"}
    /\ Become(w, "off", NoConn)
    /\ UNCHANGED <<pc, socket, link, active, alive, bounds>>

-----------------------------------------------------------------------------
(* The handlers.                                                           *)

\* Mutant of Console: the provider's name is taken for the state.
ConsoleByProvider(c) ==
    /\ pc[c] = "console"
    /\ at[c] \in alive
    /\ Goto(c, IF at[c] \in Onprem THEN "kubevirt" ELSE "ec2")
    /\ UNCHANGED <<window, socket, link, active, alive, bounds>>

\* Console: refuse before the upgrade (no such session, the address of the
\* instance is not known, a call failed), or upgrade.
Console(c) ==
    /\ pc[c] = "console"
    /\ \/ /\ at[c] \notin alive
          /\ Goto(c, "free")
          /\ UNCHANGED faults
       \/ /\ Fault
          /\ Goto(c, "free")
       \/ /\ at[c] \in alive
          /\ Goto(c, IF at[c] \in Onprem THEN "acquire" ELSE "dial")
          /\ UNCHANGED faults
    /\ UNCHANGED <<window, socket, link, active, alive, opens>>

\* Mutant of Acquire: the previous holder is not told.
AcquireSilently(c) ==
    /\ pc[c] = "acquire"
    /\ active' = [active EXCEPT ![at[c]] = c]
    /\ Goto(c, "dial")
    /\ UNCHANGED <<window, socket, link, alive, bounds>>

\* consoleRegistry.acquire: the new socket takes over and the previous one is
\* sent a normal close. WriteControl gives up after a second.
Acquire(c) ==
    /\ pc[c] = "acquire"
    /\ LET prev == active[at[c]] IN
       \/ prev = NoConn /\ UNCHANGED <<sent, faults>>
       \/ prev # NoConn /\ sent' = [sent EXCEPT ![prev] = "notice"] /\ UNCHANGED faults
       \/ prev # NoConn /\ sent' = [sent EXCEPT ![prev] = "lost"] /\ Fault
    /\ active' = [active EXCEPT ![at[c]] = c]
    /\ Goto(c, "dial")
    /\ UNCHANGED <<window, at, cut, link, alive, opens>>

\* The connections a new one to the same VM cuts off: KubeVirt's console has
\* one user, sshd has many.
CutOff(c) == {d \in link : at[d] = at[c] /\ at[c] \in Onprem}

\* SerialConsole, or DialTerminal.
Dial(c) ==
    /\ pc[c] = "dial"
    /\ at[c] \in alive
    /\ link' = (link \ CutOff(c)) \cup {c}
    /\ Goto(c, "proxy")
    /\ UNCHANGED <<window, socket, active, alive, bounds>>

\* Mutant of DialFails: a return before the slot is given back.
DialFailsAtOnce(c) ==
    /\ pc[c] = "dial"
    /\ \/ at[c] \notin alive /\ UNCHANGED faults
       \/ Fault
    /\ Goto(c, "close")
    /\ UNCHANGED <<window, socket, link, active, alive, opens>>

\* Its failure: the browser gets a line of text and the handler returns.
DialFails(c) ==
    /\ pc[c] = "dial"
    /\ \/ at[c] \notin alive /\ UNCHANGED faults
       \/ Fault
    /\ Goto(c, "release")
    /\ UNCHANGED <<window, socket, link, active, alive, opens>>

\* proxyTerminal's goroutine from the browser to the VM: the browser closed its
\* end, ReadMessage fails and the connection to the VM is closed.
InputEnds(c) ==
    /\ pc[c] = "proxy"
    /\ c \in link
    /\ Closed(c) /\ c \notin cut
    /\ link' = link \ {c}
    /\ UNCHANGED <<window, pc, socket, active, alive, bounds>>

\* Mutant of Keepalive: no read deadline, and pings are not checked.
KeepaliveOfClosed(c) ==
    /\ pc[c] = "proxy"
    /\ c \in link
    /\ sent[c] = "notice"
    /\ link' = link \ {c}
    /\ UNCHANGED <<window, pc, socket, active, alive, bounds>>

\* The ping goroutine and the read deadline: a ping cannot be written after a
\* close frame or to a closed socket, and a path that was cut brings no pong.
Keepalive(c) ==
    /\ pc[c] = "proxy"
    /\ c \in link
    /\ sent[c] = "notice" \/ Lost(c)
    /\ link' = link \ {c}
    /\ UNCHANGED <<window, pc, socket, active, alive, bounds>>

\* The loop from the VM to the browser ends, for Read fails once the connection
\* to the VM is gone.
OutputEnds(c) ==
    /\ pc[c] = "proxy"
    /\ c \notin link
    /\ Goto(c, "release")
    /\ UNCHANGED <<window, socket, link, active, alive, bounds>>

\* The VM has output and it cannot be written to the browser, after a close
\* frame or because the browser is gone; nobody can count on such output.
WriteFails(c) ==
    /\ pc[c] = "proxy"
    /\ sent[c] = "notice" \/ Lost(c)
    /\ link' = link \ {c}
    /\ Goto(c, "release")
    /\ UNCHANGED <<window, socket, active, alive, bounds>>

\* Mutant of Release: the slot is cleared whoever holds it.
ReleaseAnyHolder(c) ==
    /\ pc[c] = "release"
    /\ active' = [active EXCEPT ![at[c]] = NoConn]
    /\ Goto(c, "close")
    /\ UNCHANGED <<window, socket, link, alive, bounds>>

\* The release of acquire: compare and delete. A terminal on EC2 has no slot.
Release(c) ==
    /\ pc[c] = "release"
    /\ active' = [active EXCEPT ![at[c]] = IF @ = c THEN NoConn ELSE @]
    /\ Goto(c, "close")
    /\ UNCHANGED <<window, socket, link, alive, bounds>>

\* The deferred ws.Close, which sends no close frame.
CloseSocket(c) ==
    /\ pc[c] = "close"
    /\ Goto(c, "free")
    /\ UNCHANGED <<window, socket, link, active, alive, bounds>>

-----------------------------------------------------------------------------
(* The environment.                                                        *)

\* The path between browser and API is cut.
NetworkCut(c) ==
    /\ pc[c] # "free"
    /\ ~Lost(c)
    /\ Fault
    /\ cut' = cut \cup {c}
    /\ UNCHANGED <<window, pc, at, sent, link, active, alive, opens>>

\* The VM's end of a terminal goes: a reboot, the learner's exit.
TerminalEnds(c) ==
    /\ c \in link
    /\ Fault
    /\ link' = link \ {c}
    /\ UNCHANGED <<window, pc, socket, active, alive, opens>>

\* The session is deleted or reaped, its VM with it.
EndSession(s) ==
    /\ s \in alive
    /\ alive' = alive \ {s}
    /\ link' = {c \in link : at[c] # s}
    /\ UNCHANGED <<window, pc, socket, active, bounds>>

\* The API process restarts: handlers, registry and connections are gone.
Restart ==
    /\ \E c \in Conn : pc[c] # "free"
    /\ Fault
    /\ pc' = [c \in Conn |-> "free"]
    /\ link' = {}
    /\ active' = [s \in Session |-> NoConn]
    /\ UNCHANGED <<window, socket, alive, opens>>

-----------------------------------------------------------------------------

Browser(w) == OnClose(w) \/ \E c \in Conn : Reconnect(w, c)

Handler(c) ==
    \/ Console(c) \/ Acquire(c) \/ Dial(c) \/ DialFails(c)
    \/ OutputEnds(c) \/ Release(c) \/ CloseSocket(c)

Next ==
    \/ \E w \in Window : Browser(w) \/ Dispose(w) \/ \E c \in Conn : Open(w, c)
    \/ \E c \in Conn : Handler(c) \/ InputEnds(c) \/ Keepalive(c) \/ WriteFails(c)
    \/ \E c \in Conn : NetworkCut(c) \/ TerminalEnds(c)
    \/ \E s \in Session : EndSession(s)
    \/ Restart

Spec == Init /\ [][Next]_vars

\* Goroutines run, the ticker and the read deadline fire, and an open page
\* handles its events and timers.
FairSpec ==
    /\ Spec
    /\ \A w \in Window : WF_vars(Browser(w))
    /\ \A c \in Conn : WF_vars(Handler(c)) /\ WF_vars(InputEnds(c)) /\ WF_vars(Keepalive(c))

-----------------------------------------------------------------------------

Served(c) == pc[c] \in {"dial", "proxy", "release"}

\* The slot of a session is held by a handler that has not returned and that
\* serves this session: no way out of kubevirtConsole (failed dial, end of the
\* proxy, restart) leaves an entry behind.
HolderIsServed ==
    \A s \in Session :
        active[s] # NoConn => Served(active[s]) /\ at[active[s]] = s

\* Of the handlers of an on-prem session exactly the registered one has not
\* been superseded: every older one was sent its close frame (or the write
\* failed), also when releases of older sockets come late.
OlderAreTold ==
    \A c \in Conn :
        Served(c) /\ at[c] \in Onprem => (active[at[c]] = c <=> sent[c] = "no")

\* A socket that has not been registered yet has not been superseded either.
PendingIsFresh ==
    \A c \in Conn : pc[c] \in {"console", "acquire"} => sent[c] = "no"

\* The inductive invariant of ConsoleProofs.
ConsoleInv == TypeOK /\ HolderIsServed /\ OlderAreTold /\ PendingIsFresh

\* acquire and shouldReconnect together end the ping-pong: in the end every
\* window of a living session is closed, superseded, or has a terminal that works.
TerminalsSettle ==
    <>[](\A w \in Window :
            SessionOf[w] \in alive =>
                \/ window[w].st \in {"off", "stopped"}
                \/ window[w].st = "open" /\ window[w].ws \in link)

\* The teardown of proxyTerminal: the handler of a browser that is gone, with
\* or without a word, returns.
LostPeersAreReclaimed ==
    \A c \in Conn : (pc[c] = "proxy" /\ Lost(c)) ~> (pc[c] = "free")

=============================================================================
