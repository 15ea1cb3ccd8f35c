--------------------------- MODULE ConsoleProofs ---------------------------
(***************************************************************************)
(* The registry of consoles, for any number of sessions, windows, sockets, *)
(* faults and restarts: the slot of a session is never left behind, and    *)
(* every handler but the registered one has been superseded.               *)
(***************************************************************************)
EXTENDS Console, TLAPS

\* At the start the registry is empty and no handler runs.
LEMMA InitConsole == Init => ConsoleInv
<1> SUFFICES ASSUME Init PROVE ConsoleInv
    OBVIOUS
<1>1. (CHOOSE s \in Session : TRUE) \in Session
    BY ConsoleAssumption
<1>2. at \in [Conn -> Session]
    BY <1>1 DEF Init
<1>3. /\ window = [w \in Window |-> [st |-> "off", ws |-> NoConn]]
      /\ pc = [c \in Conn |-> "free"]
      /\ sent = [c \in Conn |-> "no"]
      /\ active = [s \in Session |-> NoConn]
      /\ cut = {} /\ link = {} /\ alive = Session /\ opens = 0 /\ faults = 0
    BY DEF Init
<1>4. TypeOK
    BY <1>2, <1>3, ConsoleAssumption DEF TypeOK, NoConn
<1> QED
    BY <1>3, <1>4 DEF ConsoleInv, HolderIsServed, OlderAreTold, PendingIsFresh, Served

\* Every step keeps the values of the variables in their types.
LEMMA NextType == TypeOK /\ [Next]_vars => TypeOK'
<1> SUFFICES ASSUME TypeOK, [Next]_vars PROVE TypeOK'
    OBVIOUS
<1> USE ConsoleAssumption DEF TypeOK, Goto, Become, Fault, NoConn, socket, bounds
<1>1. ASSUME NEW w \in Window, OnClose(w) PROVE TypeOK'
    BY <1>1 DEF OnClose
<1>2. ASSUME NEW w \in Window, NEW c \in Conn, Reconnect(w, c) PROVE TypeOK'
    BY <1>2 DEF Reconnect, Connect
<1>3. ASSUME NEW w \in Window, Dispose(w) PROVE TypeOK'
    BY <1>3 DEF Dispose
<1>4. ASSUME NEW w \in Window, NEW c \in Conn, Open(w, c) PROVE TypeOK'
    BY <1>4 DEF Open, Connect
<1>5. ASSUME NEW c \in Conn, Console(c) PROVE TypeOK'
    BY <1>5 DEF Console
<1>6. ASSUME NEW c \in Conn, Acquire(c) PROVE TypeOK'
    BY <1>6 DEF Acquire
<1>7. ASSUME NEW c \in Conn, Dial(c) PROVE TypeOK'
    BY <1>7 DEF Dial, CutOff
<1>8. ASSUME NEW c \in Conn, DialFails(c) PROVE TypeOK'
    BY <1>8 DEF DialFails
<1>9. ASSUME NEW c \in Conn, OutputEnds(c) \/ WriteFails(c) PROVE TypeOK'
    BY <1>9 DEF OutputEnds, WriteFails
<1>10. ASSUME NEW c \in Conn, Release(c) PROVE TypeOK'
    BY <1>10 DEF Release
<1>11. ASSUME NEW c \in Conn, CloseSocket(c) PROVE TypeOK'
    BY <1>11 DEF CloseSocket
<1>12. ASSUME NEW c \in Conn, InputEnds(c) \/ Keepalive(c) PROVE TypeOK'
    BY <1>12 DEF InputEnds, Keepalive
<1>13. ASSUME NEW c \in Conn, NetworkCut(c) PROVE TypeOK'
    BY <1>13 DEF NetworkCut
<1>14. ASSUME NEW c \in Conn, TerminalEnds(c) PROVE TypeOK'
    BY <1>14 DEF TerminalEnds
<1>15. ASSUME NEW s \in Session, EndSession(s) PROVE TypeOK'
    BY <1>15 DEF EndSession
<1>16. CASE Restart
    BY <1>16 DEF Restart
<1>17. CASE UNCHANGED vars
    BY <1>17 DEF vars
<1> QED
    BY <1>1, <1>2, <1>3, <1>4, <1>5, <1>6, <1>7, <1>8, <1>9, <1>10, <1>11, <1>12,
       <1>13, <1>14, <1>15, <1>16, <1>17
    DEF Next, Browser, Handler

\* Steps that leave the handlers, the registry and the close frames alone.
LEMMA Untouched ==
    ConsoleInv /\ TypeOK' /\ UNCHANGED <<pc, at, sent, active>> => ConsoleInv'
BY DEF ConsoleInv, HolderIsServed, OlderAreTold, PendingIsFresh, Served

\* A handler goes on without a change of the registry or of a close frame, and
\* stays served or stays unregistered.
LEMMA HandlerGoesOn ==
    ASSUME ConsoleInv, TypeOK', NEW c \in Conn, NEW label,
           pc' = [pc EXCEPT ![c] = label],
           UNCHANGED <<at, sent, active>>,
           \/ Served(c) /\ label \in {"dial", "proxy", "release"}
           \/ pc[c] = "close" /\ label = "free"
           \/ pc[c] = "console" /\ label \in {"free", "acquire"}
           \/ pc[c] = "console" /\ label = "dial" /\ at[c] \notin Onprem
    PROVE  ConsoleInv'
BY DEF ConsoleInv, TypeOK, HolderIsServed, OlderAreTold, PendingIsFresh, Served, NoConn, Conn

\* A new socket is not registered, and nothing was sent on it.
LEMMA ConnectStep ==
    ASSUME ConsoleInv, TypeOK', NEW w \in Window, NEW c \in Conn, Connect(w, c)
    PROVE  ConsoleInv'
BY ConsoleAssumption
DEF Connect, Goto, Become, ConsoleInv, TypeOK, HolderIsServed, OlderAreTold,
    PendingIsFresh, Served, NoConn, Conn

\* The new holder is fresh, the previous one is told, the others were before.
LEMMA AcquireStep ==
    ASSUME ConsoleInv, TypeOK', NEW c \in Conn, Acquire(c)
    PROVE  ConsoleInv'
<1> DEFINE prev == active[at[c]]
<1>1. /\ pc[c] = "acquire"
      /\ sent[c] = "no"
      /\ active' = [active EXCEPT ![at[c]] = c]
      /\ pc' = [pc EXCEPT ![c] = "dial"]
      /\ at' = at
      /\ at[c] \in Session
    BY DEF Acquire, Goto, ConsoleInv, PendingIsFresh, TypeOK
<1>2. prev # c
    BY <1>1 DEF ConsoleInv, HolderIsServed, Served, NoConn, Conn
<1>3. \/ prev = NoConn /\ sent' = sent
      \/ /\ prev \in Conn
         /\ \E v \in {"notice", "lost"} : sent' = [sent EXCEPT ![prev] = v]
    BY <1>1 DEF Acquire, ConsoleInv, TypeOK
<1>4. HolderIsServed'
    BY <1>1 DEF ConsoleInv, TypeOK, HolderIsServed, Served, NoConn, Conn
<1>5. sent'[c] = "no" /\ \A d \in Conn : d # prev => sent'[d] = sent[d]
    BY <1>1, <1>2, <1>3 DEF ConsoleInv, TypeOK
<1>6. prev # NoConn => sent'[prev] # "no" /\ Served(prev) /\ at[prev] = at[c]
    BY <1>1, <1>3 DEF ConsoleInv, TypeOK, HolderIsServed
<1>7. OlderAreTold'
    <2> SUFFICES ASSUME NEW d \in Conn, Served(d)', at[d] \in Onprem
                 PROVE  active'[at[d]] = d <=> sent'[d] = "no"
        BY <1>1 DEF OlderAreTold
    <2>1. CASE d = c
        BY <2>1, <1>1, <1>5 DEF ConsoleInv, TypeOK
    <2>2. CASE d = prev
        BY <2>2, <1>1, <1>2, <1>6 DEF ConsoleInv, TypeOK, NoConn, Conn
    <2>3. CASE d # c /\ d # prev
        <3>1. Served(d)
            BY <2>3, <1>1 DEF Served, ConsoleInv, TypeOK
        <3>2. active[at[d]] = d <=> sent[d] = "no"
            BY <3>1 DEF ConsoleInv, OlderAreTold
        <3>3. at[d] \in Session
            BY DEF ConsoleInv, TypeOK
        <3> QED
            BY <2>3, <3>2, <3>3, <1>1, <1>5 DEF ConsoleInv, TypeOK
    <2> QED BY <2>1, <2>2, <2>3
<1>8. PendingIsFresh'
    <2> SUFFICES ASSUME NEW d \in Conn, pc'[d] \in {"console", "acquire"}
                 PROVE  sent'[d] = "no"
        BY DEF PendingIsFresh
    <2>1. d # c /\ pc[d] \in {"console", "acquire"}
        BY <1>1 DEF ConsoleInv, TypeOK
    <2>2. d # prev
        BY <2>1, <1>6 DEF Served, NoConn, Conn
    <2> QED BY <2>1, <2>2, <1>5 DEF ConsoleInv, PendingIsFresh
<1> QED BY <1>4, <1>7, <1>8 DEF ConsoleInv

\* The slot is cleared by its holder only; a superseded handler leaves it alone.
LEMMA ReleaseStep ==
    ASSUME ConsoleInv, TypeOK', NEW c \in Conn, Release(c)
    PROVE  ConsoleInv'
<1>1. /\ pc[c] = "release"
      /\ active' = [active EXCEPT ![at[c]] = IF @ = c THEN NoConn ELSE @]
      /\ pc' = [pc EXCEPT ![c] = "close"]
      /\ at' = at /\ sent' = sent
      /\ at[c] \in Session
    BY DEF Release, Goto, socket, ConsoleInv, TypeOK
<1>2. \A s \in Session : active'[s] # c
    BY <1>1 DEF ConsoleInv, TypeOK, HolderIsServed, NoConn, Conn
<1>3. \A s \in Session : active[s] # c => active'[s] = active[s]
    BY <1>1 DEF ConsoleInv, TypeOK
<1>4. HolderIsServed'
    BY <1>1, <1>2, <1>3 DEF ConsoleInv, TypeOK, HolderIsServed, Served, NoConn, Conn
<1>5. OlderAreTold'
    BY <1>1, <1>2, <1>3 DEF ConsoleInv, TypeOK, OlderAreTold, Served, NoConn, Conn
<1>6. PendingIsFresh'
    BY <1>1 DEF ConsoleInv, TypeOK, PendingIsFresh
<1> QED BY <1>4, <1>5, <1>6 DEF ConsoleInv

\* ConsoleInv is inductive.
LEMMA NextConsole == ConsoleInv /\ [Next]_vars => ConsoleInv'
<1> SUFFICES ASSUME ConsoleInv, [Next]_vars PROVE ConsoleInv'
    OBVIOUS
<1>0. TypeOK'
    BY NextType DEF ConsoleInv
<1>1. ASSUME NEW w \in Window, OnClose(w) \/ Dispose(w) PROVE ConsoleInv'
    BY <1>1, <1>0, Untouched DEF OnClose, Dispose, socket
<1>2. ASSUME NEW w \in Window, NEW c \in Conn, Open(w, c) \/ Reconnect(w, c)
      PROVE  ConsoleInv'
    BY <1>2, <1>0, ConnectStep DEF Open, Reconnect
<1>3. ASSUME NEW c \in Conn, Console(c) PROVE ConsoleInv'
    <2>1. \/ Goto(c, "free")
          \/ at[c] \in Onprem /\ Goto(c, "acquire")
          \/ at[c] \notin Onprem /\ Goto(c, "dial")
        BY <1>3 DEF Console
    <2>2. pc[c] = "console" /\ UNCHANGED <<at, sent, active>>
        BY <1>3 DEF Console, socket
    <2> QED BY <2>1, <2>2, <1>0, HandlerGoesOn DEF Goto
<1>4. ASSUME NEW c \in Conn, Dial(c) PROVE ConsoleInv'
    <2>1. pc' = [pc EXCEPT ![c] = "proxy"] /\ Served(c) /\ UNCHANGED <<at, sent, active>>
        BY <1>4 DEF Dial, Goto, socket, Served
    <2> QED BY <2>1, <1>0, HandlerGoesOn
<1>5. ASSUME NEW c \in Conn, DialFails(c) \/ OutputEnds(c) \/ WriteFails(c)
      PROVE  ConsoleInv'
    <2>1. pc' = [pc EXCEPT ![c] = "release"] /\ Served(c) /\ UNCHANGED <<at, sent, active>>
        BY <1>5 DEF DialFails, OutputEnds, WriteFails, Goto, socket, Served
    <2> QED BY <2>1, <1>0, HandlerGoesOn
<1>6. ASSUME NEW c \in Conn, CloseSocket(c) PROVE ConsoleInv'
    BY <1>6, <1>0, HandlerGoesOn DEF CloseSocket, Goto, socket
<1>7. ASSUME NEW c \in Conn,
             InputEnds(c) \/ Keepalive(c) \/ NetworkCut(c) \/ TerminalEnds(c)
      PROVE  ConsoleInv'
    BY <1>7, <1>0, Untouched DEF InputEnds, Keepalive, NetworkCut, TerminalEnds, socket
<1>8. ASSUME NEW s \in Session, EndSession(s) PROVE ConsoleInv'
    BY <1>8, <1>0, Untouched DEF EndSession, socket
<1>9. CASE Restart
    BY <1>9, <1>0
    DEF Restart, ConsoleInv, HolderIsServed, OlderAreTold, PendingIsFresh, Served
<1>10. CASE UNCHANGED vars
    BY <1>10, <1>0, Untouched DEF vars
<1> QED
    BY <1>1, <1>2, <1>3, <1>4, <1>5, <1>6, <1>7, <1>8, <1>9, <1>10, <1>0,
       AcquireStep, ReleaseStep
    DEF Next, Browser, Handler

\* The inductive invariant holds in every state, whatever the bounds.
THEOREM ConsoleInvariant == Spec => []ConsoleInv
BY InitConsole, NextConsole, PTL DEF Spec

\* Every variable keeps its type; a window's socket, the registry's entries and
\* the connections of a session are what terminal-client.tsx and vm.go make them.
THEOREM ConsoleTypeCorrect == Spec => []TypeOK
<1>1. ConsoleInv => TypeOK
    BY DEF ConsoleInv
<1> QED BY <1>1, ConsoleInvariant, PTL

\* consoleRegistry: no way out of kubevirtConsole leaves an entry behind, and
\* an entry belongs to a handler of its own session.
THEOREM SlotsAreServed == Spec => []HolderIsServed
<1>1. ConsoleInv => HolderIsServed
    BY DEF ConsoleInv
<1> QED BY <1>1, ConsoleInvariant, PTL

\* consoleRegistry.acquire and its release: of the handlers of an on-prem
\* session exactly the registered one has not been sent a close frame.
THEOREM OneConsolePerSession == Spec => []OlderAreTold
<1>1. ConsoleInv => OlderAreTold
    BY DEF ConsoleInv
<1> QED BY <1>1, ConsoleInvariant, PTL

=============================================================================
