--------------------------- MODULE AccountsProofs ---------------------------
(***************************************************************************)
(* The opt-outs, mirrored roles and payments of Accounts are right for any  *)
(* number of users, goroutines and checkouts, and for any clock.            *)
(***************************************************************************)
EXTENDS Accounts, TLAPS

USE AccountsAssumption

-----------------------------------------------------------------------------
(* Types.                                                                  *)

\* What each kind of job has.
LEMMA JobFields ==
  ASSUME NEW j \in Job
  PROVE  /\ j.pc = "mirror" => j.user \in User /\ j.role \in RoleName
         /\ j.pc \in {"assign", "set_role"} => j.user \in User /\ j.role \in Promotable
         /\ j.pc \in {"hide", "ack"} =>
               j.user \in User /\ j.hidden \in BOOLEAN /\ j.sole \in BOOLEAN
         /\ j.pc \in {"all", "recent", "send"} =>
               j.mustHide \in SUBSET User /\ j.listed \in SUBSET User
         /\ j.pc = "tx" => j.user \in User /\ j.id \in Checkout /\ j.now \in Nat
         /\ j.pc = "entitled" => j.user \in User /\ j.now \in Nat
  BY DEF Job

LEMMA IdleType == Idle \in Job /\ Idle.pc = "idle"
  BY DEF Idle, Job

\* Everybody's highest role is a role.
LEMMA RoleType ==
  ASSUME NEW granted \in SUBSET Promotable
  PROVE  Role(granted) \in RoleName /\ Role(granted) \in granted \cup {"student"}
  BY DEF Role, Promotable, RoleName

\* A job that begins keeps the types.
LEMMA BeginType ==
  ASSUME TypeOK, NEW w \in Worker, NEW j \in Job, Begin(w, j)
  PROVE  requests' \in 0 .. MaxRequests /\ job' \in [Worker -> Job]
  BY DEF TypeOK, Begin, Count, Goto

\* The next part of a job that is kept for what it has.
LEMMA NextPart ==
  ASSUME NEW j \in Job
  PROVE  /\ j.pc = "assign" => [j EXCEPT !.pc = "set_role"] \in Job
         /\ j.pc = "hide" => [j EXCEPT !.pc = "ack"] \in Job
         /\ \A L \in SUBSET User :
               /\ j.pc = "all" => [j EXCEPT !.pc = "recent", !.listed = L] \in Job
               /\ j.pc = "recent" => [j EXCEPT !.pc = "send", !.listed = j.listed \cup L] \in Job
         /\ j.pc \in {"hide", "ack"} => [j EXCEPT !.sole = FALSE] \in Job
         /\ \A u \in User : j.pc \in {"all", "recent", "send"} =>
               [j EXCEPT !.mustHide = j.mustHide \ {u}] \in Job
  <1>1. j.pc = "assign" => [j EXCEPT !.pc = "set_role"] \in Job
    BY DEF Job
  <1>2. j.pc = "hide" => [j EXCEPT !.pc = "ack"] \in Job
    BY DEF Job
  <1>3. ASSUME NEW L \in SUBSET User, j.pc = "all"
        PROVE  [j EXCEPT !.pc = "recent", !.listed = L] \in Job
    BY <1>3 DEF Job
  <1>4. ASSUME NEW L \in SUBSET User, j.pc = "recent"
        PROVE  [j EXCEPT !.pc = "send", !.listed = j.listed \cup L] \in Job
    BY <1>4 DEF Job
  <1>5. j.pc \in {"hide", "ack"} => [j EXCEPT !.sole = FALSE] \in Job
    BY DEF Job
  <1>6. ASSUME NEW u \in User, j.pc \in {"all", "recent", "send"}
        PROVE  [j EXCEPT !.mustHide = j.mustHide \ {u}] \in Job
    BY <1>6 DEF Job
  <1>7. QED
    BY <1>1, <1>2, <1>3, <1>4, <1>5, <1>6

\* What each kind of checkout has.
LEMMA CheckoutFields ==
  ASSUME NEW c \in CheckoutRow
  PROVE  /\ c.user \in User /\ c.plan \in PaidPlan
         /\ c.status = "pending" =>
               c.expires \in Nat /\ [c EXCEPT !.status = "expired"] \in CheckoutRow
         /\ c.status = "completed" => c.paid \in Nat
         /\ c.status \in {"pending", "expired", "completed"}
  BY DEF CheckoutRow

\* What a transaction has locked.
LEMMA LockedRow ==
  ASSUME TypeOK, RowsAreLocked, NEW w \in Worker, At(w, "tx")
  PROVE  /\ job[w].user \in User /\ job[w].id \in Checkout /\ job[w].now \in Nat
         /\ checkout[job[w].id] \in CheckoutRow
         /\ checkout[job[w].id].status = "pending"
         /\ checkout[job[w].id].user = job[w].user
  <1>1. job[w] \in Job /\ job[w].pc = "tx"
    BY DEF TypeOK, At
  <1>2. job[w].user \in User /\ job[w].id \in Checkout /\ job[w].now \in Nat
    BY <1>1, JobFields
  <1>3. QED
    BY <1>2 DEF TypeOK, RowsAreLocked

\* Every step keeps the types; a transaction writes the row it has locked.
LEMMA TypeStep == TypeOK /\ RowsAreLocked /\ [Next]_vars => TypeOK'
  <1> SUFFICES ASSUME TypeOK, RowsAreLocked, [Next]_vars PROVE TypeOK'
    OBVIOUS
  <1>1. ASSUME NEW w \in Worker, NEW u \in User, Callback(w, u) \/ Refresh(w, u) PROVE TypeOK'
    <2> DEFINE j == [pc |-> "mirror", user |-> u, role |-> Role(roles[u])]
    <2>1. roles[u] \in SUBSET Promotable
      BY DEF TypeOK
    <2>2. j \in Job
      BY <2>1, RoleType DEF Job
    <2>3. Begin(w, j) /\ UNCHANGED <<table, keycloak, optedOut, clock>>
      BY <1>1 DEF Callback, Refresh, Mirror
    <2>4. QED
      BY <2>2, <2>3, BeginType DEF TypeOK, table, keycloak
  <1>2. ASSUME NEW w \in Worker, NEW u \in User, NEW r \in Promotable, SetUserRole(w, u, r)
        PROVE  TypeOK'
    <2>1. [pc |-> "assign", user |-> u, role |-> r] \in Job
      BY DEF Job
    <2>2. QED
      BY <1>2, <2>1, BeginType DEF SetUserRole, TypeOK, table, keycloak
  <1>3. ASSUME NEW w \in Worker, NEW u \in User, NEW h \in BOOLEAN, SetMyPreferences(w, u, h)
        PROVE  TypeOK'
    <2> DEFINE s == \A v \in Hiding(u) : ~Revokes(v)
               mine == [pc |-> "hide", user |-> u, hidden |-> h, sole |-> s]
    <2>1. mine \in Job
      <3>1. s \in BOOLEAN
        OBVIOUS
      <3> HIDE DEF s
      <3>2. QED
        BY <3>1 DEF Job
    <2> HIDE DEF mine
    <2>2. ASSUME NEW v \in Worker PROVE job'[v] \in Job
      <3>1. job[v] \in Job
        BY DEF TypeOK
      <3>2. v \in Hiding(u) => job[v].pc \in {"hide", "ack"}
        BY DEF Hiding
      <3>3. job'[v] \in {mine, job[v]} \cup
               (IF v \in Hiding(u) THEN {[job[v] EXCEPT !.sole = FALSE]} ELSE {}) \cup
               (IF job[v].pc \in {"all", "recent", "send"}
                THEN {[job[v] EXCEPT !.mustHide = job[v].mustHide \ {u}]} ELSE {})
        BY <1>3 DEF SetMyPreferences, mine
      <3>4. QED
        BY <2>1, <3>1, <3>2, <3>3, NextPart
    <2>3. job' \in [Worker -> Job]
      <3>1. job' = [v \in Worker |-> job'[v]]
        BY <1>3 DEF SetMyPreferences
      <3>2. QED
        BY <2>2, <3>1
    <2>4. /\ requests' \in 0 .. MaxRequests
          /\ UNCHANGED <<table, keycloak, clock>>
      BY <1>3 DEF SetMyPreferences, Count, TypeOK
    <2>5. optedOut' \in [User -> BOOLEAN]
      BY <1>3 DEF SetMyPreferences, TypeOK
    <2>6. QED
      BY <2>3, <2>4, <2>5 DEF TypeOK, table, keycloak
  <1>4. ASSUME NEW w \in Worker, NEW u \in User, NEW k \in Checkout, CompleteCheckout(w, u, k)
        PROVE  TypeOK'
    <2>1. [pc |-> "tx", user |-> u, id |-> k, now |-> clock] \in Job
      BY DEF Job, TypeOK
    <2>2. QED
      BY <1>4, <2>1, BeginType DEF CompleteCheckout, TypeOK, table, keycloak
  <1>5. ASSUME NEW w \in Worker, NEW u \in User, EnsureLabEntitlement(w, u) PROVE TypeOK'
    <2>1. [pc |-> "entitled", user |-> u, now |-> clock] \in Job
      BY DEF Job, TypeOK
    <2>2. QED
      BY <1>5, <2>1, BeginType DEF EnsureLabEntitlement, TypeOK, table, keycloak
  <1>6. ASSUME NEW w \in Worker, UpsertUser(w) PROVE TypeOK'
    <2>1. job[w] \in Job /\ job[w].pc = "mirror"
      BY <1>6 DEF TypeOK, UpsertUser, At
    <2>2. job[w].user \in User /\ job[w].role \in RoleName
      BY <2>1, JobFields
    <2>3. users[job[w].user] \in Row \cup {None}
      BY <2>2 DEF TypeOK
    <2>4. users' \in [User -> Row \cup {None}]
      BY <1>6, <2>2, <2>3 DEF TypeOK, UpsertUser, Row
    <2>5. QED
      BY <1>6, <2>4, IdleType DEF TypeOK, UpsertUser, Done, Goto, keycloak
  <1>7. ASSUME NEW w \in Worker, MirrorRole(w) PROVE TypeOK'
    <2>1. job[w] \in Job /\ job[w].pc = "set_role"
      BY <1>7 DEF TypeOK, MirrorRole, At
    <2>2. job[w].user \in User /\ job[w].role \in RoleName
      BY <2>1, JobFields DEF RoleName
    <2>3. users[job[w].user] \in Row \cup {None}
      BY <2>2 DEF TypeOK
    <2>4. \A c \in Row : [c EXCEPT !.role = job[w].role] \in Row
      BY <2>2 DEF Row
    <2>5. users' \in [User -> Row \cup {None}]
      BY <1>7, <2>2, <2>3, <2>4 DEF TypeOK, MirrorRole
    <2>6. QED
      BY <1>7, <2>5, IdleType DEF TypeOK, MirrorRole, Done, Goto, keycloak
  <1>8. ASSUME NEW w \in Worker, AssignRealmRole(w) PROVE TypeOK'
    <2>1. job[w] \in Job /\ job[w].pc = "assign"
      BY <1>8 DEF TypeOK, AssignRealmRole, At
    <2>2. /\ job[w].user \in User /\ job[w].role \in Promotable
          /\ [job[w] EXCEPT !.pc = "set_role"] \in Job
      BY <2>1, JobFields, NextPart
    <2>3. QED
      BY <1>8, <2>2 DEF TypeOK, AssignRealmRole, Goto, table
  <1>9. ASSUME NEW w \in Worker, SetLeaderboardHidden(w) PROVE TypeOK'
    <2>1. job[w] \in Job /\ job[w].pc = "hide"
      BY <1>9 DEF TypeOK, SetLeaderboardHidden, At
    <2>2. /\ job[w].user \in User /\ job[w].hidden \in BOOLEAN
          /\ [job[w] EXCEPT !.pc = "ack"] \in Job
      BY <2>1, JobFields, NextPart
    <2>3. users[job[w].user] \in Row \cup {None}
      BY <2>2 DEF TypeOK
    <2>4. users' \in [User -> Row \cup {None}]
      BY <1>9, <2>2, <2>3 DEF TypeOK, SetLeaderboardHidden, Row, RoleName
    <2>5. QED
      BY <1>9, <2>2, <2>4 DEF TypeOK, SetLeaderboardHidden, Goto, keycloak
  <1>10. ASSUME NEW w \in Worker, Confirm(w) PROVE TypeOK'
    <2>1. optedOut' \in [User -> BOOLEAN]
      BY <1>10 DEF TypeOK, Confirm
    <2>2. QED
      BY <1>10, <2>1, IdleType DEF TypeOK, Confirm, Done, Goto, table, keycloak
  <1>11. ASSUME NEW w \in Worker, GetLeaderboard(w) PROVE TypeOK'
    <2>1. [pc |-> "all", mustHide |-> {u \in User : optedOut[u]}, listed |-> {}] \in Job
      BY DEF Job
    <2>2. QED
      BY <1>11, <2>1, BeginType DEF GetLeaderboard, TypeOK, table, keycloak
  <1>12. ASSUME NEW w \in Worker, ReadRows(w) PROVE TypeOK'
    <2>1. job[w] \in Job /\ LeaderboardRows \in SUBSET User
      BY DEF TypeOK, LeaderboardRows
    <2>2. ASSUME At(w, "all"),
                 Goto(w, [job[w] EXCEPT !.pc = "recent", !.listed = LeaderboardRows])
          PROVE  job' \in [Worker -> Job]
      BY <2>1, <2>2, NextPart DEF At, Goto, TypeOK
    <2>3. ASSUME NEW recent \in SUBSET LeaderboardRows, At(w, "recent"),
                 Goto(w, [job[w] EXCEPT !.pc = "send", !.listed = @ \cup recent])
          PROVE  job' \in [Worker -> Job]
      BY <2>1, <2>3, NextPart DEF At, Goto, TypeOK
    <2>4. job' \in [Worker -> Job]
      BY <1>12, <2>2, <2>3 DEF ReadRows
    <2>5. QED
      BY <1>12, <2>4 DEF ReadRows, TypeOK, table, keycloak
  <1>13. ASSUME NEW w \in Worker, CommitExpired(w) PROVE TypeOK'
    <2>1. /\ job[w].id \in Checkout /\ checkout[job[w].id] \in CheckoutRow
          /\ checkout[job[w].id].status = "pending"
      BY <1>13, LockedRow DEF CommitExpired
    <2>2. checkout' \in [Checkout -> CheckoutRow \cup {None}]
      <3>1. [checkout[job[w].id] EXCEPT !.status = "expired"] \in CheckoutRow
        BY <2>1, CheckoutFields
      <3>2. QED
        BY <1>13, <2>1, <3>1 DEF CommitExpired, TypeOK
    <2>3. QED
      BY <1>13, <2>2, IdleType DEF CommitExpired, TypeOK, Done, Goto, keycloak
  <1>14. ASSUME NEW w \in Worker, CommitCompletion(w) PROVE TypeOK'
    <2>1. /\ job[w].user \in User /\ job[w].id \in Checkout /\ job[w].now \in Nat
          /\ checkout[job[w].id] \in CheckoutRow
      BY <1>14, LockedRow DEF CommitCompletion
    <2>2. checkout[job[w].id].plan \in PaidPlan
      BY <2>1, CheckoutFields
    <2>3. checkout' \in [Checkout -> CheckoutRow \cup {None}]
      <3>1. [status |-> "completed", user |-> job[w].user,
             plan |-> checkout[job[w].id].plan, paid |-> job[w].now] \in CheckoutRow
        BY <2>1, <2>2 DEF CheckoutRow
      <3>2. QED
        BY <1>14, <2>1, <3>1 DEF CommitCompletion, Completed, TypeOK
    <2>4. sub' \in [User -> Subscription \cup {None}]
      <3>1. [plan |-> checkout[job[w].id].plan, until |-> job[w].now + Month] \in Subscription
        BY <2>1, <2>2 DEF Subscription
      <3>2. QED
        BY <1>14, <2>1, <3>1 DEF CommitCompletion, TypeOK
    <2>5. QED
      BY <1>14, <2>3, <2>4, IdleType DEF CommitCompletion, TypeOK, Done, Goto, keycloak
  <1>15. ASSUME NEW w \in Worker, Dies(w) PROVE TypeOK'
    BY <1>15, IdleType DEF Dies, TypeOK, Done, Goto, table, keycloak
  <1>16. ASSUME NEW u \in User, NEW r \in Promotable, Demote(u, r) PROVE TypeOK'
    <2>1. roles' \in [User -> SUBSET Promotable]
      BY <1>16 DEF Demote, TypeOK
    <2>2. QED
      BY <1>16, <2>1 DEF Demote, TypeOK, Count, table
  <1>17. ASSUME NEW u \in User, NEW k \in Checkout, NEW p, CreateCheckout(u, k, p)
         PROVE  TypeOK'
    <2>1. [status |-> "pending", user |-> u, plan |-> p, expires |-> clock + CheckoutTTL]
             \in CheckoutRow
      BY <1>17 DEF CreateCheckout, CanBeBought, CheckoutRow, TypeOK
    <2>2. QED
      BY <1>17, <2>1 DEF CreateCheckout, CreateCheckoutSession, TypeOK, Count, keycloak
  <1>18. ASSUME Tick PROVE TypeOK'
    BY <1>18 DEF Tick, TypeOK, table, keycloak
  <1>19. ASSUME UNCHANGED vars PROVE TypeOK'
    BY <1>19 DEF TypeOK, vars
  <1>20. QED
    BY <1>1, <1>2, <1>3, <1>4, <1>5, <1>6, <1>7, <1>8, <1>9, <1>10, <1>11, <1>12,
       <1>13, <1>14, <1>15, <1>16, <1>17, <1>18, <1>19 DEF Next

-----------------------------------------------------------------------------
(* The jobs a step changes.                                                *)

\* One goroutine moves, the others stay.
LEMMA OneMoves ==
  ASSUME TypeOK, NEW w \in Worker, NEW j, Goto(w, j)
  PROVE  job'[w] = j /\ \A v \in Worker : v # w => job'[v] = job[v]
  BY DEF TypeOK, Goto

\* A request to change the preferences: its own job ...
LEMMA PreferenceJob ==
  ASSUME TypeOK, NEW w \in Worker, NEW u \in User, NEW h \in BOOLEAN,
         SetMyPreferences(w, u, h)
  PROVE  /\ job'[w].pc = "hide" /\ job'[w].user = u /\ job'[w].hidden = h
         /\ job'[w].sole <=> \A v \in Hiding(u) : ~Revokes(v)
  <1> DEFINE s == \A v \in Hiding(u) : ~Revokes(v)
             mine == [pc |-> "hide", user |-> u, hidden |-> h, sole |-> s]
  <1>1. job'[w] = mine
    BY DEF SetMyPreferences
  <1> HIDE DEF s
  <1>2. /\ job'[w].pc = "hide" /\ job'[w].user = u /\ job'[w].hidden = h
        /\ job'[w].sole = s
    BY <1>1
  <1>3. QED
    BY <1>2 DEF s

\* ... and the jobs of others.
LEMMA PreferenceOthers ==
  ASSUME TypeOK, NEW w \in Worker, NEW u \in User, NEW h \in BOOLEAN,
         SetMyPreferences(w, u, h), NEW v \in Worker, v # w
  PROVE  /\ job'[v].pc = job[v].pc
         /\ job[v].pc \in {"hide", "ack"} =>
               /\ job'[v].user = job[v].user /\ job'[v].hidden = job[v].hidden
               /\ job'[v].sole <=> job[v].sole /\ (h \/ v \notin Hiding(u))
         /\ job[v].pc \in {"all", "recent", "send"} =>
               /\ job'[v].listed = job[v].listed
               /\ job'[v].mustHide = IF h THEN job[v].mustHide ELSE job[v].mustHide \ {u}
  <1>1. job[v] \in Job
    BY DEF TypeOK
  <1>2. v \in Hiding(u) => job[v].pc \in {"hide", "ack"}
    BY DEF Hiding
  <1>3. job'[v] = IF h THEN job[v]
                  ELSE IF v \in Hiding(u) THEN [job[v] EXCEPT !.sole = FALSE]
                  ELSE IF job[v].pc \in {"all", "recent", "send"}
                  THEN [job[v] EXCEPT !.mustHide = job[v].mustHide \ {u}]
                  ELSE job[v]
    BY DEF SetMyPreferences
  <1>4. CASE h
    BY <1>3, <1>4
  <1>5. CASE ~h /\ v \in Hiding(u)
    <2>1. job'[v] = [job[v] EXCEPT !.sole = FALSE]
      BY <1>3, <1>5
    <2>2. /\ job'[v].pc = job[v].pc /\ job'[v].user = job[v].user
          /\ job'[v].hidden = job[v].hidden /\ job'[v].sole = FALSE
      BY <1>1, <1>2, <1>5, <2>1 DEF Job
    <2>3. QED
      BY <1>2, <1>5, <2>2
  <1>6. CASE ~h /\ v \notin Hiding(u) /\ job[v].pc \in {"all", "recent", "send"}
    <2>1. job'[v] = [job[v] EXCEPT !.mustHide = job[v].mustHide \ {u}]
      BY <1>3, <1>6
    <2>2. /\ job'[v].pc = job[v].pc /\ job'[v].listed = job[v].listed
          /\ job'[v].mustHide = job[v].mustHide \ {u}
      BY <1>1, <1>6, <2>1 DEF Job
    <2>3. QED
      BY <1>6, <2>2
  <1>7. CASE ~h /\ v \notin Hiding(u) /\ job[v].pc \notin {"all", "recent", "send"}
    BY <1>3, <1>7
  <1>8. QED
    BY <1>4, <1>5, <1>6, <1>7

\* What is about something else stays as it is.
LEMMA PreferenceSpares ==
  ASSUME TypeOK, NEW w \in Worker, NEW u \in User, NEW h \in BOOLEAN,
         SetMyPreferences(w, u, h), NEW v \in Worker
  PROVE  \/ job'[v] = job[v]
         \/ job'[v].pc \in {"hide", "ack", "all", "recent", "send"}
  <1>1. CASE v = w
    <2>1. job'[w].pc = "hide"
      BY PreferenceJob
    <2>2. QED
      BY <1>1, <2>1
  <1>2. CASE v # w /\ job[v].pc \in {"hide", "ack", "all", "recent", "send"}
    <2>1. /\ job'[v].pc = job[v].pc
          /\ job[v].pc \in {"hide", "ack"} =>
                /\ job'[v].user = job[v].user /\ job'[v].hidden = job[v].hidden
                /\ job'[v].sole <=> job[v].sole /\ (h \/ v \notin Hiding(u))
          /\ job[v].pc \in {"all", "recent", "send"} =>
                /\ job'[v].listed = job[v].listed
                /\ job'[v].mustHide = IF h THEN job[v].mustHide ELSE job[v].mustHide \ {u}
      BY <1>2, PreferenceOthers
    <2>2. QED
      BY <1>2, <2>1
  <1>3. CASE v # w /\ job[v].pc \notin {"hide", "ack", "all", "recent", "send"}
    BY <1>3 DEF SetMyPreferences, Hiding
  <1>4. QED
    BY <1>1, <1>2, <1>3

\* What a read of the leaderboard does to the jobs.
LEMMA ReadJobs ==
  ASSUME TypeOK, NEW w \in Worker, ReadRows(w)
  PROVE  /\ Reads(w) /\ job'[w].pc \in {"recent", "send"}
         /\ job'[w].mustHide = job[w].mustHide
         /\ job'[w].listed \subseteq job[w].listed \cup LeaderboardRows
         /\ \A v \in Worker : v # w => job'[v] = job[v]
  <1>1. job[w] \in Job
    BY DEF TypeOK
  <1>2. ASSUME At(w, "all"),
               Goto(w, [job[w] EXCEPT !.pc = "recent", !.listed = LeaderboardRows])
        PROVE  /\ Reads(w) /\ job'[w].pc \in {"recent", "send"}
               /\ job'[w].mustHide = job[w].mustHide
               /\ job'[w].listed \subseteq job[w].listed \cup LeaderboardRows
               /\ \A v \in Worker : v # w => job'[v] = job[v]
    <2>1. /\ job'[w] = [job[w] EXCEPT !.pc = "recent", !.listed = LeaderboardRows]
          /\ \A v \in Worker : v # w => job'[v] = job[v]
      BY <1>2, OneMoves
    <2>2. QED
      BY <1>1, <1>2, <2>1 DEF Job, At, Reads
  <1>3. ASSUME NEW recent \in SUBSET LeaderboardRows, At(w, "recent"),
               Goto(w, [job[w] EXCEPT !.pc = "send", !.listed = @ \cup recent])
        PROVE  /\ Reads(w) /\ job'[w].pc \in {"recent", "send"}
               /\ job'[w].mustHide = job[w].mustHide
               /\ job'[w].listed \subseteq job[w].listed \cup LeaderboardRows
               /\ \A v \in Worker : v # w => job'[v] = job[v]
    <2>1. /\ job'[w] = [job[w] EXCEPT !.pc = "send", !.listed = job[w].listed \cup recent]
          /\ \A v \in Worker : v # w => job'[v] = job[v]
      BY <1>3, OneMoves
    <2>2. QED
      BY <1>1, <1>3, <2>1 DEF Job, At, Reads
  <1>4. QED
    BY <1>2, <1>3 DEF ReadRows

-----------------------------------------------------------------------------
(* Roles.                                                                  *)

\* A step that writes neither users nor Keycloak and starts no mirroring.
LEMMA MirrorQuiet ==
  ASSUME MirrorInv, UNCHANGED <<users, roles, held>>,
         \A v \in Worker : job'[v] = job[v] \/ job'[v].pc \notin {"mirror", "set_role"}
  PROVE  MirrorInv'
  BY DEF MirrorInv, RolesWereGranted, MirrorWasGranted, At

LEMMA MirrorStep == TypeOK /\ MirrorInv /\ [Next]_vars => MirrorInv'
  <1> SUFFICES ASSUME TypeOK, MirrorInv, [Next]_vars PROVE MirrorInv'
    OBVIOUS
  <1>1. ASSUME NEW w \in Worker, NEW u \in User, Callback(w, u) \/ Refresh(w, u)
        PROVE  MirrorInv'
    <2>1. roles[u] \in SUBSET Promotable /\ roles[u] \subseteq held[u]
      BY DEF TypeOK, MirrorInv, RolesWereGranted
    <2>2. Role(roles[u]) \in held[u] \cup {"student"}
      BY <2>1, RoleType
    <2>3. /\ Goto(w, [pc |-> "mirror", user |-> u, role |-> Role(roles[u])])
          /\ UNCHANGED <<users, roles, held>>
      BY <1>1 DEF Callback, Refresh, Mirror, Begin, table, keycloak
    <2>4. /\ job'[w].pc = "mirror" /\ job'[w].user = u /\ job'[w].role = Role(roles[u])
          /\ \A v \in Worker : v # w => job'[v] = job[v]
      BY <2>3, OneMoves
    <2>5. QED
      BY <2>2, <2>3, <2>4 DEF MirrorInv, RolesWereGranted, MirrorWasGranted, At
  <1>2. ASSUME NEW w \in Worker, NEW u \in User, NEW r \in Promotable, SetUserRole(w, u, r)
        PROVE  MirrorInv'
    BY <1>2, OneMoves, MirrorQuiet DEF SetUserRole, Begin, table, keycloak
  <1>3. ASSUME NEW w \in Worker, NEW u \in User, NEW h \in BOOLEAN, SetMyPreferences(w, u, h)
        PROVE  MirrorInv'
    <2>1. \A v \in Worker : job'[v] = job[v] \/ job'[v].pc \notin {"mirror", "set_role"}
      BY <1>3, PreferenceSpares
    <2>2. QED
      BY <1>3, <2>1, MirrorQuiet DEF SetMyPreferences, table, keycloak
  <1>4. ASSUME NEW w \in Worker, NEW u \in User, NEW k \in Checkout, CompleteCheckout(w, u, k)
        PROVE  MirrorInv'
    BY <1>4, OneMoves, MirrorQuiet DEF CompleteCheckout, Begin, table, keycloak
  <1>5. ASSUME NEW w \in Worker, NEW u \in User, EnsureLabEntitlement(w, u) PROVE MirrorInv'
    BY <1>5, OneMoves, MirrorQuiet DEF EnsureLabEntitlement, Begin, table, keycloak
  <1>6. ASSUME NEW w \in Worker, UpsertUser(w) PROVE MirrorInv'
    <2>1. job[w] \in Job /\ job[w].pc = "mirror"
      BY <1>6 DEF TypeOK, UpsertUser, At
    <2>2. job[w].user \in User /\ job[w].role \in held[job[w].user] \cup {"student"}
      BY <2>1, JobFields DEF MirrorInv, RolesWereGranted, At
    <2>3. /\ users'[job[w].user].role = job[w].role
          /\ \A u \in User : u # job[w].user => users'[u] = users[u]
      BY <1>6, <2>2 DEF UpsertUser, TypeOK
    <2>4. /\ job'[w].pc = "idle" /\ \A v \in Worker : v # w => job'[v] = job[v]
          /\ UNCHANGED <<roles, held>>
      BY <1>6, OneMoves, IdleType DEF UpsertUser, Done, keycloak
    <2>5. QED
      BY <2>2, <2>3, <2>4 DEF MirrorInv, RolesWereGranted, MirrorWasGranted, At
  <1>7. ASSUME NEW w \in Worker, MirrorRole(w) PROVE MirrorInv'
    <2>1. job[w] \in Job /\ job[w].pc = "set_role"
      BY <1>7 DEF TypeOK, MirrorRole, At
    <2>2. job[w].user \in User /\ job[w].role \in held[job[w].user]
      BY <2>1, JobFields DEF MirrorInv, RolesWereGranted, At
    <2>3. users[job[w].user] # None =>
             [users[job[w].user] EXCEPT !.role = job[w].role].role = job[w].role
      <3>1. users[job[w].user] \in Row \cup {None}
        BY <2>2 DEF TypeOK
      <3>2. QED
        BY <3>1 DEF Row
    <2>4. /\ users'[job[w].user] # None => users'[job[w].user].role = job[w].role
          /\ \A u \in User : u # job[w].user => users'[u] = users[u]
      BY <1>7, <2>2, <2>3 DEF MirrorRole, TypeOK
    <2>5. /\ job'[w].pc = "idle" /\ \A v \in Worker : v # w => job'[v] = job[v]
          /\ UNCHANGED <<roles, held>>
      BY <1>7, OneMoves, IdleType DEF MirrorRole, Done, keycloak
    <2>6. QED
      BY <2>2, <2>4, <2>5 DEF MirrorInv, RolesWereGranted, MirrorWasGranted, At
  <1>8. ASSUME NEW w \in Worker, AssignRealmRole(w) PROVE MirrorInv'
    <2>1. job[w] \in Job /\ job[w].pc = "assign"
      BY <1>8 DEF TypeOK, AssignRealmRole, At
    <2>2. job[w].user \in User /\ job[w].role \in Promotable
      BY <2>1, JobFields
    <2>3. /\ \A u \in User : roles'[u] \subseteq held'[u] /\ held[u] \subseteq held'[u]
          /\ job[w].role \in held'[job[w].user]
          /\ users' = users
      BY <1>8, <2>2 DEF AssignRealmRole, TypeOK, MirrorInv, RolesWereGranted, table
    <2>4. /\ job'[w] = [job[w] EXCEPT !.pc = "set_role"]
          /\ \A v \in Worker : v # w => job'[v] = job[v]
      BY <1>8, OneMoves DEF AssignRealmRole
    <2>5. job'[w].pc = "set_role" /\ job'[w].user = job[w].user /\ job'[w].role = job[w].role
      BY <2>1, <2>4 DEF Job
    <2>6. \A v \in Worker : At(v, "mirror") \/ At(v, "set_role") => job[v].user \in User
      BY JobFields DEF TypeOK, At
    <2>7. QED
      BY <2>2, <2>3, <2>4, <2>5, <2>6 DEF MirrorInv, RolesWereGranted, MirrorWasGranted, At
  <1>9. ASSUME NEW w \in Worker, SetLeaderboardHidden(w) PROVE MirrorInv'
    <2>1. job[w] \in Job /\ job[w].pc = "hide"
      BY <1>9 DEF TypeOK, SetLeaderboardHidden, At
    <2>2. job[w].user \in User /\ job[w].hidden \in BOOLEAN
      BY <2>1, JobFields
    <2>3. \A u \in User : users'[u] # None =>
             \/ users'[u].role = "student"
             \/ users[u] # None /\ users'[u].role = users[u].role
      BY <1>9, <2>2 DEF SetLeaderboardHidden, TypeOK
    <2>4. /\ job'[w] = [job[w] EXCEPT !.pc = "ack"]
          /\ \A v \in Worker : v # w => job'[v] = job[v]
          /\ UNCHANGED <<roles, held>>
      BY <1>9, OneMoves DEF SetLeaderboardHidden, keycloak
    <2>5. job'[w].pc = "ack"
      BY <2>1, <2>4 DEF Job
    <2>6. QED
      BY <2>3, <2>4, <2>5 DEF MirrorInv, RolesWereGranted, MirrorWasGranted, At
  <1>10. ASSUME NEW w \in Worker,
                \/ Confirm(w) \/ CommitExpired(w) \/ CommitCompletion(w) \/ Dies(w)
         PROVE  MirrorInv'
    <2>1. Goto(w, Idle) /\ UNCHANGED <<users, roles, held>>
      BY <1>10 DEF Confirm, CommitExpired, CommitCompletion, Dies, Done, table, keycloak
    <2>2. QED
      BY <2>1, OneMoves, IdleType, MirrorQuiet
  <1>11. ASSUME NEW w \in Worker, GetLeaderboard(w) PROVE MirrorInv'
    BY <1>11, OneMoves, MirrorQuiet DEF GetLeaderboard, Begin, table, keycloak
  <1>12. ASSUME NEW w \in Worker, ReadRows(w) PROVE MirrorInv'
    <2>1. \A v \in Worker : job'[v] = job[v] \/ job'[v].pc \notin {"mirror", "set_role"}
      BY <1>12, ReadJobs
    <2>2. QED
      BY <1>12, <2>1, MirrorQuiet DEF ReadRows, table, keycloak
  <1>13. ASSUME NEW u \in User, NEW r \in Promotable, Demote(u, r) PROVE MirrorInv'
    <2>1. /\ \A x \in User : roles'[x] \subseteq roles[x]
          /\ UNCHANGED <<users, held, job>>
      BY <1>13 DEF Demote, TypeOK, table
    <2>2. QED
      BY <2>1 DEF MirrorInv, RolesWereGranted, MirrorWasGranted, At
  <1>14. ASSUME \/ UNCHANGED vars \/ Tick
                \/ \E u \in User, k \in Checkout, p \in PaidPlan \cup {"free"} :
                      CreateCheckout(u, k, p)
         PROVE  MirrorInv'
    <2>1. UNCHANGED <<users, roles, held, job>>
      BY <1>14 DEF vars, Tick, CreateCheckout, table, keycloak
    <2>2. QED
      BY <2>1, MirrorQuiet
  <1>15. QED
    BY <1>1, <1>2, <1>3, <1>4, <1>5, <1>6, <1>7, <1>8, <1>9, <1>10, <1>11, <1>12,
       <1>13, <1>14 DEF Next

-----------------------------------------------------------------------------
(* Opt-outs.                                                               *)

\* A step that hides whom the table hid, changes no opt-out and starts nothing that
\* does or that reads the leaderboard.
LEMMA PrivacyQuiet ==
  ASSUME TypeOK, PrivacyInv, optedOut' = optedOut,
         \A u \in User : users[u] # None /\ users[u].hidden =>
             users'[u] # None /\ users'[u].hidden,
         \A v \in Worker :
             \/ job'[v] = job[v]
             \/ job'[v].pc \notin {"hide", "ack", "all", "recent", "send"}
  PROVE  PrivacyInv'
  <1>1. NobodyRevokes'
    BY DEF PrivacyInv, NobodyRevokes, Hiding, Revokes
  <1>2. WrittenBeforeConfirmed'
    <2>1. \A w \in Worker : At(w, "ack") => job[w].user \in User
      BY JobFields DEF TypeOK, At
    <2>2. QED
      BY <2>1 DEF PrivacyInv, WrittenBeforeConfirmed, At
  <1>3. OptOutHolds'
    BY DEF PrivacyInv, OptOutHolds
  <1>4. StillOptedOut' /\ HiddenStaysPrivate'
    BY DEF PrivacyInv, StillOptedOut, HiddenStaysPrivate, Reads
  <1>5. QED
    BY <1>1, <1>2, <1>3, <1>4 DEF PrivacyInv

\* A new request to be hidden or to be shown.
LEMMA PreferencesKeepPrivacy ==
  ASSUME TypeOK, PrivacyInv, NEW w \in Worker, NEW u \in User, NEW h \in BOOLEAN,
         SetMyPreferences(w, u, h)
  PROVE  PrivacyInv'
  <1> DEFINE s == \A v \in Hiding(u) : ~Revokes(v)
  <1>1. /\ job'[w].pc = "hide" /\ job'[w].user = u /\ job'[w].hidden = h
        /\ job'[w].sole <=> s
    BY PreferenceJob
  <1>2. ASSUME NEW v \in Worker, v # w
        PROVE  /\ job'[v].pc = job[v].pc
               /\ job[v].pc \in {"hide", "ack"} =>
                     /\ job'[v].user = job[v].user /\ job'[v].hidden = job[v].hidden
                     /\ job'[v].sole <=> job[v].sole /\ (h \/ v \notin Hiding(u))
               /\ job[v].pc \in {"all", "recent", "send"} =>
                     /\ job'[v].listed = job[v].listed
                     /\ job'[v].mustHide = IF h THEN job[v].mustHide
                                           ELSE job[v].mustHide \ {u}
    BY <1>2, PreferenceOthers
  <1>3. /\ \A x \in User : optedOut'[x] = (optedOut[x] /\ (x = u => h))
        /\ users' = users
    BY DEF SetMyPreferences, TypeOK, table
  <1>4. job[w].pc = "idle"
    BY DEF SetMyPreferences, At
  <1>5. ASSUME NEW x \in User, NEW v \in Worker
        PROVE  /\ (v \in Hiding(x))' <=> (v = w /\ x = u) \/ v \in Hiding(x)
               /\ v # w /\ v \in Hiding(x) => (Revokes(v)' <=> Revokes(v))
    BY <1>1, <1>2, <1>4 DEF Hiding, Revokes
  <1>6. NobodyRevokes'
    <2> SUFFICES ASSUME NEW x \in User, NEW v \in Worker, (v \in Hiding(x))', Revokes(v)'
                 PROVE  /\ ~optedOut'[x]
                        /\ \A y \in Worker : (y \in Hiding(x))' /\ ~Revokes(y)' => ~job'[y].sole
      BY DEF NobodyRevokes, Hiding
    <2>1. CASE v = w
      <3>1. x = u /\ ~h
        BY <1>1, <2>1 DEF Hiding, Revokes
      <3>2. ~optedOut'[x]
        BY <1>3, <3>1
      <3>3. ASSUME NEW y \in Worker, (y \in Hiding(x))', ~Revokes(y)' PROVE ~job'[y].sole
        <4>1. y # w
          BY <1>1, <3>1, <3>3 DEF Revokes
        <4>2. y \in Hiding(u) /\ job[y].pc \in {"hide", "ack"}
          BY <1>5, <3>1, <3>3, <4>1 DEF Hiding
        <4>3. QED
          BY <1>2, <3>1, <4>1, <4>2
      <3>4. QED
        BY <3>2, <3>3
    <2>2. CASE v # w
      <3>1. v \in Hiding(x) /\ Revokes(v)
        BY <1>5, <2>2
      <3>2. /\ ~optedOut[x]
            /\ \A y \in Hiding(x) : ~Revokes(y) => ~job[y].sole
        BY <3>1 DEF PrivacyInv, NobodyRevokes
      <3>3. ASSUME NEW y \in Worker, (y \in Hiding(x))', ~Revokes(y)' PROVE ~job'[y].sole
        <4>1. CASE y = w
          <5>1. x = u
            BY <1>1, <3>3, <4>1 DEF Hiding
          <5>2. ~s
            BY <3>1, <5>1
          <5>3. QED
            BY <1>1, <4>1, <5>2
        <4>2. CASE y # w
          <5>1. y \in Hiding(x) /\ ~Revokes(y) /\ job[y].pc \in {"hide", "ack"}
            BY <1>5, <3>3, <4>2 DEF Hiding
          <5>2. QED
            BY <1>2, <3>2, <4>2, <5>1
        <4>3. QED
          BY <4>1, <4>2
      <3>4. QED
        BY <1>3, <3>2, <3>3
    <2>3. QED
      BY <2>1, <2>2
  <1>7. WrittenBeforeConfirmed'
    BY <1>1, <1>2, <1>3 DEF PrivacyInv, WrittenBeforeConfirmed, At
  <1>8. OptOutHolds'
    BY <1>3 DEF PrivacyInv, OptOutHolds
  <1>9. StillOptedOut'
    <2> SUFFICES ASSUME NEW v \in Worker, Reads(v)', NEW x \in job'[v].mustHide
                 PROVE  optedOut'[x]
      BY DEF StillOptedOut
    <2>1. v # w
      BY <1>1 DEF Reads
    <2>2. /\ Reads(v) /\ job[v].mustHide \in SUBSET User
          /\ job'[v].mustHide = IF h THEN job[v].mustHide ELSE job[v].mustHide \ {u}
      BY <1>2, <2>1, JobFields DEF Reads, TypeOK
    <2>3. x \in job[v].mustHide /\ x \in User /\ (x = u => h)
      BY <2>2
    <2>4. optedOut[x]
      BY <2>2, <2>3 DEF PrivacyInv, StillOptedOut
    <2>5. QED
      BY <1>3, <2>3, <2>4
  <1>10. HiddenStaysPrivate'
    <2> SUFFICES ASSUME NEW v \in Worker, job'[v].pc \in {"all", "recent", "send"}
                 PROVE  job'[v].listed \cap job'[v].mustHide = {}
      BY DEF HiddenStaysPrivate
    <2>1. v # w
      BY <1>1
    <2>2. /\ job[v].listed \cap job[v].mustHide = {} /\ job'[v].listed = job[v].listed
          /\ job'[v].mustHide \subseteq job[v].mustHide
      BY <1>2, <2>1 DEF PrivacyInv, HiddenStaysPrivate
    <2>3. QED
      BY <2>2
  <1>11. QED
    BY <1>6, <1>7, <1>8, <1>9, <1>10 DEF PrivacyInv

\* The flag is written.
LEMMA WriteKeepsPrivacy ==
  ASSUME TypeOK, PrivacyInv, NEW w \in Worker, SetLeaderboardHidden(w)
  PROVE  PrivacyInv'
  <1>1. job[w] \in Job /\ job[w].pc = "hide"
    BY DEF TypeOK, SetLeaderboardHidden, At
  <1>2. job[w].user \in User /\ job[w].hidden \in BOOLEAN
    BY <1>1, JobFields
  <1>3. /\ job'[w] = [job[w] EXCEPT !.pc = "ack"]
        /\ \A v \in Worker : v # w => job'[v] = job[v]
        /\ optedOut' = optedOut
    BY OneMoves DEF SetLeaderboardHidden
  <1>4. /\ job'[w].pc = "ack" /\ job'[w].user = job[w].user
        /\ job'[w].hidden = job[w].hidden /\ job'[w].sole = job[w].sole
    BY <1>1, <1>3 DEF Job
  <1>5. /\ users'[job[w].user] \in Row /\ users'[job[w].user].hidden = job[w].hidden
        /\ \A u \in User : u # job[w].user => users'[u] = users[u]
    <2>1. users[job[w].user] \in Row \cup {None}
      BY <1>2 DEF TypeOK
    <2>2. QED
      BY <1>2, <2>1 DEF SetLeaderboardHidden, TypeOK, Row, RoleName
  <1>6. users'[job[w].user] # None
    BY <1>5
  <1>7. w \in Hiding(job[w].user)
    BY <1>1 DEF Hiding
  <1>8. NobodyRevokes'
    <2>1. \A x \in User, v \in Worker :
             /\ (v \in Hiding(x))' <=> v \in Hiding(x)
             /\ v \in Hiding(x) => (Revokes(v)' <=> Revokes(v)) /\ job'[v].sole = job[v].sole
      BY <1>1, <1>3, <1>4 DEF Hiding, Revokes
    <2> SUFFICES ASSUME NEW x \in User, NEW v \in Worker, (v \in Hiding(x))', Revokes(v)'
                 PROVE  /\ ~optedOut'[x]
                        /\ \A y \in Worker : (y \in Hiding(x))' /\ ~Revokes(y)' => ~job'[y].sole
      BY DEF NobodyRevokes, Hiding
    <2>2. v \in Hiding(x) /\ Revokes(v)
      BY <2>1
    <2>3. /\ ~optedOut[x]
          /\ \A y \in Hiding(x) : ~Revokes(y) => ~job[y].sole
      BY <2>2 DEF PrivacyInv, NobodyRevokes
    <2>4. QED
      BY <1>3, <2>1, <2>3
  <1>9. WrittenBeforeConfirmed'
    <2> SUFFICES ASSUME NEW v \in Worker, job'[v].pc = "ack", job'[v].hidden, job'[v].sole
                 PROVE  users'[job'[v].user] # None /\ users'[job'[v].user].hidden
      BY DEF WrittenBeforeConfirmed, At
    <2>1. CASE v = w
      BY <1>4, <1>5, <1>6, <2>1
    <2>2. CASE v # w
      <3>1. /\ job'[v] = job[v] /\ job[v].user \in User
            /\ users[job[v].user] # None /\ users[job[v].user].hidden
        BY <1>3, <2>2, JobFields DEF PrivacyInv, WrittenBeforeConfirmed, At, TypeOK
      <3>2. CASE job[v].user # job[w].user
        BY <1>5, <3>1, <3>2
      <3>3. CASE job[v].user = job[w].user
        <4>1. v \in Hiding(job[w].user) /\ ~Revokes(v) /\ job[v].sole
          BY <3>1, <3>3 DEF Hiding, Revokes
        <4>2. ~Revokes(w)
          BY <1>2, <1>7, <4>1 DEF PrivacyInv, NobodyRevokes
        <4>3. QED
          BY <1>5, <1>6, <3>1, <3>3, <4>2 DEF Revokes
      <3>4. QED
        BY <3>2, <3>3
    <2>3. QED
      BY <2>1, <2>2
  <1>10. OptOutHolds'
    <2>1. optedOut[job[w].user] => job[w].hidden
      BY <1>2, <1>7 DEF PrivacyInv, NobodyRevokes, Revokes
    <2>2. QED
      BY <1>3, <1>5, <1>6, <2>1 DEF PrivacyInv, OptOutHolds
  <1>11. StillOptedOut' /\ HiddenStaysPrivate'
    BY <1>3, <1>4 DEF PrivacyInv, StillOptedOut, HiddenStaysPrivate, Reads
  <1>12. QED
    BY <1>8, <1>9, <1>10, <1>11 DEF PrivacyInv

\* The user is told.
LEMMA ConfirmKeepsPrivacy ==
  ASSUME TypeOK, PrivacyInv, NEW w \in Worker, Confirm(w)
  PROVE  PrivacyInv'
  <1>1. job[w] \in Job /\ job[w].pc = "ack"
    BY DEF TypeOK, Confirm, At
  <1>2. job[w].user \in User /\ job[w].hidden \in BOOLEAN /\ job[w].sole \in BOOLEAN
    BY <1>1, JobFields
  <1>3. /\ job'[w].pc = "idle" /\ \A v \in Worker : v # w => job'[v] = job[v]
        /\ users' = users
    BY OneMoves, IdleType DEF Confirm, Done, table
  <1>4. \A u \in User : optedOut'[u] <=>
           optedOut[u] \/ (u = job[w].user /\ job[w].hidden /\ job[w].sole)
    BY DEF Confirm, TypeOK
  <1>5. w \in Hiding(job[w].user)
    BY <1>1 DEF Hiding
  <1>6. NobodyRevokes'
    <2>1. \A x \in User, v \in Worker :
             (v \in Hiding(x))' => v \in Hiding(x) /\ job'[v] = job[v]
      BY <1>3 DEF Hiding
    <2> SUFFICES ASSUME NEW x \in User, NEW v \in Worker, (v \in Hiding(x))', Revokes(v)'
                 PROVE  /\ ~optedOut'[x]
                        /\ \A y \in Worker : (y \in Hiding(x))' /\ ~Revokes(y)' => ~job'[y].sole
      BY DEF NobodyRevokes, Hiding
    <2>2. v \in Hiding(x) /\ Revokes(v)
      BY <2>1 DEF Revokes
    <2>3. /\ ~optedOut[x]
          /\ \A y \in Hiding(x) : ~Revokes(y) => ~job[y].sole
      BY <2>2 DEF PrivacyInv, NobodyRevokes
    <2>4. ~optedOut'[x]
      BY <1>4, <1>5, <2>3 DEF Revokes
    <2>5. QED
      BY <2>1, <2>3, <2>4 DEF Revokes
  <1>7. WrittenBeforeConfirmed'
    BY <1>3 DEF PrivacyInv, WrittenBeforeConfirmed, At
  <1>8. OptOutHolds'
    BY <1>1, <1>3, <1>4 DEF PrivacyInv, OptOutHolds, WrittenBeforeConfirmed, At
  <1>9. StillOptedOut'
    <2>1. \A v \in Worker : Reads(v) => job[v].mustHide \in SUBSET User
      BY JobFields DEF Reads, TypeOK
    <2>2. QED
      BY <1>3, <1>4, <2>1 DEF PrivacyInv, StillOptedOut, Reads
  <1>10. HiddenStaysPrivate'
    BY <1>3 DEF PrivacyInv, HiddenStaysPrivate
  <1>11. QED
    BY <1>6, <1>7, <1>8, <1>9, <1>10 DEF PrivacyInv

\* A leaderboard is asked for, or read.
LEMMA ReadsKeepPrivacy ==
  ASSUME TypeOK, PrivacyInv, NEW w \in Worker, GetLeaderboard(w) \/ ReadRows(w)
  PROVE  PrivacyInv'
  <1>1. UNCHANGED <<users, optedOut>>
    BY DEF GetLeaderboard, ReadRows, table
  <1>2. /\ job'[w].pc \in {"all", "recent", "send"} /\ job[w].pc \notin {"hide", "ack"}
        /\ \A u \in job'[w].mustHide : u \in User /\ optedOut[u]
        /\ job'[w].listed \cap job'[w].mustHide = {}
        /\ \A v \in Worker : v # w => job'[v] = job[v]
    <2>1. CASE GetLeaderboard(w)
      <3>1. Goto(w, [pc |-> "all", mustHide |-> {u \in User : optedOut[u]}, listed |-> {}])
            /\ job[w].pc = "idle"
        BY <2>1 DEF GetLeaderboard, Begin, At
      <3>2. QED
        BY <3>1, OneMoves
    <2>2. CASE ReadRows(w)
      <3>1. /\ Reads(w) /\ job'[w].pc \in {"recent", "send"}
            /\ job'[w].mustHide = job[w].mustHide
            /\ job'[w].listed \subseteq job[w].listed \cup LeaderboardRows
            /\ \A v \in Worker : v # w => job'[v] = job[v]
        BY <2>2, ReadJobs
      <3>2. job[w].mustHide \in SUBSET User
        BY <3>1, JobFields DEF Reads, TypeOK
      <3>3. \A u \in job[w].mustHide : optedOut[u] /\ u \notin LeaderboardRows
        BY <3>1, <3>2 DEF PrivacyInv, StillOptedOut, OptOutHolds, LeaderboardRows
      <3>4. job[w].listed \cap job[w].mustHide = {}
        BY <3>1 DEF PrivacyInv, HiddenStaysPrivate, Reads
      <3>5. QED
        BY <3>1, <3>2, <3>3, <3>4 DEF Reads
    <2>3. QED
      BY <2>1, <2>2
  <1>3. NobodyRevokes' /\ WrittenBeforeConfirmed' /\ OptOutHolds'
    <2>1. NobodyRevokes'
      BY <1>1, <1>2 DEF PrivacyInv, NobodyRevokes, Hiding, Revokes
    <2>2. QED
      BY <1>1, <1>2, <2>1 DEF PrivacyInv, WrittenBeforeConfirmed, OptOutHolds, At
  <1>4. StillOptedOut' /\ HiddenStaysPrivate'
    BY <1>1, <1>2 DEF PrivacyInv, StillOptedOut, HiddenStaysPrivate, Reads
  <1>5. QED
    BY <1>3, <1>4 DEF PrivacyInv

LEMMA PrivacyStep == TypeOK /\ PrivacyInv /\ [Next]_vars => PrivacyInv'
  <1> SUFFICES ASSUME TypeOK, PrivacyInv, [Next]_vars PROVE PrivacyInv'
    OBVIOUS
  <1> DEFINE Private == {"hide", "ack", "all", "recent", "send"}
  <1>1. ASSUME NEW w \in Worker, NEW j, j.pc \notin Private, Goto(w, j), optedOut' = optedOut,
               \A u \in User : users[u] # None /\ users[u].hidden =>
                   users'[u] # None /\ users'[u].hidden
        PROVE  PrivacyInv'
    BY <1>1, OneMoves, PrivacyQuiet
  <1>2. ASSUME NEW w \in Worker, NEW u \in User, Callback(w, u) \/ Refresh(w, u)
        PROVE  PrivacyInv'
    BY <1>1, <1>2 DEF Callback, Refresh, Mirror, Begin, table
  <1>3. ASSUME NEW w \in Worker, NEW u \in User, NEW r \in Promotable, SetUserRole(w, u, r)
        PROVE  PrivacyInv'
    BY <1>1, <1>3 DEF SetUserRole, Begin, table
  <1>4. ASSUME NEW w \in Worker, NEW u \in User, NEW k \in Checkout, CompleteCheckout(w, u, k)
        PROVE  PrivacyInv'
    BY <1>1, <1>4 DEF CompleteCheckout, Begin, table
  <1>5. ASSUME NEW w \in Worker, NEW u \in User, EnsureLabEntitlement(w, u) PROVE PrivacyInv'
    BY <1>1, <1>5 DEF EnsureLabEntitlement, Begin, table
  <1>6. ASSUME NEW w \in Worker, UpsertUser(w) PROVE PrivacyInv'
    <2>1. job[w] \in Job /\ job[w].pc = "mirror"
      BY <1>6 DEF TypeOK, UpsertUser, At
    <2>2. job[w].user \in User /\ job[w].role \in RoleName
      BY <2>1, JobFields
    <2>3. users[job[w].user] \in Row \cup {None}
      BY <2>2 DEF TypeOK
    <2>4. users'[job[w].user] \in Row
      BY <1>6, <2>2, <2>3 DEF UpsertUser, TypeOK, Row
    <2>5. \A u \in User : users[u] # None /\ users[u].hidden =>
             users'[u] # None /\ users'[u].hidden
      BY <1>6, <2>2, <2>4 DEF UpsertUser, TypeOK
    <2>6. QED
      BY <1>1, <1>6, <2>5, IdleType DEF UpsertUser, Done
  <1>7. ASSUME NEW w \in Worker, MirrorRole(w) PROVE PrivacyInv'
    <2>1. job[w] \in Job /\ job[w].pc = "set_role"
      BY <1>7 DEF TypeOK, MirrorRole, At
    <2>2. job[w].user \in User /\ job[w].role \in RoleName
      BY <2>1, JobFields DEF RoleName
    <2>3. \A c \in Row : /\ [c EXCEPT !.role = job[w].role] \in Row
                         /\ [c EXCEPT !.role = job[w].role].hidden = c.hidden
      BY <2>2 DEF Row
    <2>4. users[job[w].user] \in Row \cup {None}
      BY <2>2 DEF TypeOK
    <2>5. \A u \in User : users[u] # None /\ users[u].hidden =>
             users'[u] # None /\ users'[u].hidden
      BY <1>7, <2>2, <2>3, <2>4 DEF MirrorRole, TypeOK
    <2>6. QED
      BY <1>1, <1>7, <2>5, IdleType DEF MirrorRole, Done
  <1>8. ASSUME NEW w \in Worker, AssignRealmRole(w) PROVE PrivacyInv'
    <2>1. job[w] \in Job /\ job[w].pc = "assign"
      BY <1>8 DEF TypeOK, AssignRealmRole, At
    <2>2. [job[w] EXCEPT !.pc = "set_role"].pc = "set_role"
      BY <2>1 DEF Job
    <2>3. QED
      BY <1>1, <1>8, <2>2 DEF AssignRealmRole, table
  <1>9. ASSUME NEW w \in Worker, CommitExpired(w) \/ CommitCompletion(w) \/ Dies(w)
        PROVE  PrivacyInv'
    <2>1. Goto(w, Idle) /\ UNCHANGED <<users, optedOut>>
      BY <1>9 DEF CommitExpired, CommitCompletion, Dies, Done, table
    <2>2. QED
      BY <1>1, <2>1, IdleType
  <1>10. ASSUME \/ UNCHANGED vars \/ Tick
                \/ \E u \in User, r \in Promotable : Demote(u, r)
                \/ \E u \in User, k \in Checkout, p \in PaidPlan \cup {"free"} :
                      CreateCheckout(u, k, p)
         PROVE  PrivacyInv'
    <2>1. UNCHANGED <<users, optedOut, job>>
      BY <1>10 DEF vars, Tick, Demote, CreateCheckout, table
    <2>2. QED
      BY <2>1, PrivacyQuiet
  <1>11. QED
    BY <1>2, <1>3, <1>4, <1>5, <1>6, <1>7, <1>8, <1>9, <1>10, PreferencesKeepPrivacy,
       WriteKeepsPrivacy, ConfirmKeepsPrivacy, ReadsKeepPrivacy DEF Next

-----------------------------------------------------------------------------
(* Payments.                                                               *)

\* k is a checkout that u completed.
Bought(u, k) ==
    /\ checkout[k] # None
    /\ checkout[k].status = "completed"
    /\ checkout[k].user = u

\* SubscriptionIsPaid, without the set.
LEMMA SubscriptionIsBought ==
  SubscriptionIsPaid <=>
    \A u \in User :
        /\ sub[u] = None => \A k \in Checkout : ~Bought(u, k)
        /\ sub[u] # None =>
             \E k \in Checkout : /\ Bought(u, k)
                                 /\ sub[u].plan = checkout[k].plan
                                 /\ sub[u].until = checkout[k].paid + Month
  BY DEF SubscriptionIsPaid, Bought

\* A step that writes neither checkouts nor subscriptions, and starts no transaction
\* and no paid lab.
LEMMA BillingQuiet ==
  ASSUME TypeOK, TypeOK', BillingInv, UNCHANGED <<checkout, sub>>, clock <= clock',
         \A v \in Worker : job'[v] = job[v] \/ job'[v].pc \notin {"tx", "entitled"}
  PROVE  BillingInv'
  <1>1. clock \in Nat /\ clock' \in Nat
    BY DEF TypeOK
  <1>2. RowsAreLocked'
    <2>1. \A w \in Worker : At(w, "tx") => job[w].now \in Nat
      BY JobFields DEF TypeOK, At
    <2>2. QED
      BY <1>1, <2>1 DEF BillingInv, RowsAreLocked, At
  <1>3. PaidInThePast'
    <2>1. \A k \in Checkout : Bought(checkout[k].user, k) => checkout[k].paid \in Nat
      BY CheckoutFields DEF TypeOK, Bought
    <2>2. QED
      BY <1>1, <2>1 DEF BillingInv, PaidInThePast, Bought
  <1>4. SubscriptionIsPaid'
    BY DEF BillingInv, SubscriptionIsPaid
  <1>5. PaidLabsArePaid'
    BY DEF BillingInv, PaidLabsArePaid, At
  <1>6. QED
    BY <1>2, <1>3, <1>4, <1>5 DEF BillingInv

\* A step that makes a row that nobody has locked, or a locked row expired.
LEMMA OpenRowsKeepBilling ==
  ASSUME TypeOK, TypeOK', BillingInv, UNCHANGED <<sub, clock>>, NEW k \in Checkout,
         \A i \in Checkout : i # k => checkout'[i] = checkout[i],
         checkout[k] = None \/ checkout[k].status = "pending",
         checkout'[k].status # "completed",
         \A v \in Worker :
             \/ job'[v].pc \notin {"tx", "entitled"}
             \/ job'[v] = job[v] /\ (At(v, "tx") => job[v].id # k)
  PROVE  BillingInv'
  <1>1. \A u, i : i \in Checkout =>
           /\ Bought(u, i)' <=> Bought(u, i)
           /\ Bought(u, i) => checkout'[i] = checkout[i]
    BY DEF Bought
  <1>2. RowsAreLocked'
    <2>1. \A w \in Worker : At(w, "tx") => job[w].id \in Checkout
      BY JobFields DEF TypeOK, At
    <2>2. QED
      BY <2>1 DEF BillingInv, RowsAreLocked, At
  <1>3. PaidInThePast'
    BY DEF BillingInv, PaidInThePast
  <1>4. SubscriptionIsPaid'
    <2> SUFFICES ASSUME NEW u \in User
                 PROVE  /\ sub'[u] = None => \A i \in Checkout : ~Bought(u, i)'
                        /\ sub'[u] # None =>
                             \E i \in Checkout : /\ Bought(u, i)'
                                                 /\ sub'[u].plan = checkout'[i].plan
                                                 /\ sub'[u].until = checkout'[i].paid + Month
      BY DEF SubscriptionIsPaid, Bought
    <2>1. /\ sub[u] = None => \A i \in Checkout : ~Bought(u, i)
          /\ sub[u] # None =>
               \E i \in Checkout : /\ Bought(u, i)
                                   /\ sub[u].plan = checkout[i].plan
                                   /\ sub[u].until = checkout[i].paid + Month
      BY SubscriptionIsBought DEF BillingInv
    <2>2. QED
      BY <1>1, <2>1
  <1>5. PaidLabsArePaid'
    BY DEF BillingInv, PaidLabsArePaid, At
  <1>6. QED
    BY <1>2, <1>3, <1>4, <1>5 DEF BillingInv

\* A transaction completes its checkout.
LEMMA CompletionKeepsBilling ==
  ASSUME TypeOK, TypeOK', BillingInv, NEW w \in Worker, CommitCompletion(w)
  PROVE  BillingInv'
  <1>1. PICK k \in Checkout, x \in User :
           /\ k = job[w].id /\ x = job[w].user /\ job[w].now \in Nat
           /\ checkout[k] \in CheckoutRow /\ checkout[k].status = "pending"
           /\ checkout[k].user = x
    BY LockedRow DEF BillingInv, CommitCompletion
  <1>2. /\ checkout'[k] = [status |-> "completed", user |-> x,
                           plan |-> checkout[k].plan, paid |-> job[w].now]
        /\ \A i \in Checkout : i # k => checkout'[i] = checkout[i]
    BY <1>1 DEF CommitCompletion, Completed, TypeOK
  <1>3. /\ checkout'[k].status = "completed" /\ checkout'[k].user = x
        /\ checkout'[k].plan = checkout[k].plan /\ checkout'[k].paid = job[w].now
        /\ checkout'[k] # None
    <2>1. checkout'[k] \in CheckoutRow
      BY <1>1, <1>2, CheckoutFields DEF CheckoutRow
    <2>2. QED
      BY <1>2, <2>1
  <1>4. /\ sub'[x] = [plan |-> checkout[k].plan, until |-> job[w].now + Month]
        /\ \A u \in User : u # x => sub'[u] = sub[u]
    BY <1>1 DEF CommitCompletion, TypeOK
  <1>5. /\ job'[w].pc = "idle" /\ \A v \in Worker : v # w => job'[v] = job[v]
        /\ clock' = clock
    BY OneMoves, IdleType DEF CommitCompletion, Done
  <1>6. job[w].pc = "tx" /\ job[w].now <= clock
        /\ \A v \in Worker : At(v, "tx") /\ job[v].id = k => v = w
    BY <1>1 DEF BillingInv, RowsAreLocked, CommitCompletion, At
  <1>7. RowsAreLocked'
    <2>1. \A v \in Worker : At(v, "tx") => job[v].id \in Checkout
      BY JobFields DEF TypeOK, At
    <2>2. QED
      BY <1>2, <1>5, <1>6, <2>1 DEF BillingInv, RowsAreLocked, At
  <1>8. PaidInThePast'
    BY <1>2, <1>3, <1>5, <1>6 DEF BillingInv, PaidInThePast
  <1>9. SubscriptionIsPaid'
    <2> SUFFICES ASSUME NEW u \in User
                 PROVE  /\ sub'[u] = None => \A i \in Checkout : ~Bought(u, i)'
                        /\ sub'[u] # None =>
                             \E i \in Checkout : /\ Bought(u, i)'
                                                 /\ sub'[u].plan = checkout'[i].plan
                                                 /\ sub'[u].until = checkout'[i].paid + Month
      BY DEF SubscriptionIsPaid, Bought
    <2>1. CASE u = x
      <3>1. sub'[x] # None
        <4>1. checkout[k].plan \in PaidPlan
          BY <1>1, CheckoutFields
        <4>2. sub'[x] \in Subscription
          BY <1>1, <1>4, <4>1 DEF Subscription
        <4>3. QED
          BY <4>2
      <3>2. Bought(x, k)'
        BY <1>3 DEF Bought
      <3>3. sub'[x].plan = checkout'[k].plan /\ sub'[x].until = checkout'[k].paid + Month
        BY <1>3, <1>4
      <3>4. QED
        BY <1>1, <2>1, <3>1, <3>2, <3>3
    <2>2. CASE u # x
      <3>1. \A i \in Checkout : /\ Bought(u, i)' <=> Bought(u, i)
                                /\ Bought(u, i) => checkout'[i] = checkout[i]
        BY <1>1, <1>2, <1>3, <2>2 DEF Bought
      <3>2. sub'[u] = sub[u]
        BY <1>4, <2>2
      <3>3. /\ sub[u] = None => \A i \in Checkout : ~Bought(u, i)
            /\ sub[u] # None =>
                 \E i \in Checkout : /\ Bought(u, i)
                                     /\ sub[u].plan = checkout[i].plan
                                     /\ sub[u].until = checkout[i].paid + Month
        BY SubscriptionIsBought DEF BillingInv
      <3>4. QED
        BY <3>1, <3>2, <3>3
    <2>3. QED
      BY <2>1, <2>2
  <1>10. PaidLabsArePaid'
    BY <1>1, <1>2, <1>5 DEF BillingInv, PaidLabsArePaid, At
  <1>11. QED
    BY <1>7, <1>8, <1>9, <1>10 DEF BillingInv

LEMMA BillingStep == TypeOK /\ TypeOK' /\ BillingInv /\ [Next]_vars => BillingInv'
  <1> SUFFICES ASSUME TypeOK, TypeOK', BillingInv, [Next]_vars PROVE BillingInv'
    OBVIOUS
  <1>0. clock \in Nat
    BY DEF TypeOK
  <1>1. ASSUME NEW w \in Worker, NEW j, j.pc \notin {"tx", "entitled"}, Goto(w, j),
               UNCHANGED <<checkout, sub, clock>>
        PROVE  BillingInv'
    BY <1>0, <1>1, OneMoves, BillingQuiet
  <1>2. ASSUME NEW w \in Worker, NEW u \in User, Callback(w, u) \/ Refresh(w, u)
        PROVE  BillingInv'
    BY <1>1, <1>2 DEF Callback, Refresh, Mirror, Begin, table
  <1>3. ASSUME NEW w \in Worker, NEW u \in User, NEW r \in Promotable, SetUserRole(w, u, r)
        PROVE  BillingInv'
    BY <1>1, <1>3 DEF SetUserRole, Begin, table
  <1>4. ASSUME NEW w \in Worker, NEW u \in User, NEW h \in BOOLEAN, SetMyPreferences(w, u, h)
        PROVE  BillingInv'
    <2>1. \A v \in Worker : job'[v] = job[v] \/ job'[v].pc \notin {"tx", "entitled"}
      BY <1>4, PreferenceSpares
    <2>2. UNCHANGED <<checkout, sub, clock>>
      BY <1>4 DEF SetMyPreferences, table
    <2>3. clock <= clock'
      BY <1>0, <2>2
    <2>4. QED
      BY <2>1, <2>2, <2>3, BillingQuiet
  <1>5. ASSUME NEW w \in Worker, NEW u \in User, NEW k \in Checkout, CompleteCheckout(w, u, k)
        PROVE  BillingInv'
    <2>1. /\ job'[w].pc = "tx" /\ job'[w].user = u /\ job'[w].id = k /\ job'[w].now = clock
          /\ \A v \in Worker : v # w => job'[v] = job[v]
          /\ UNCHANGED <<checkout, sub, clock>>
      BY <1>5, OneMoves DEF CompleteCheckout, Begin, table
    <2>2. /\ checkout[k] # None /\ checkout[k].status = "pending" /\ checkout[k].user = u
          /\ \A v \in Worker : At(v, "tx") => job[v].id # k
      BY <1>5 DEF CompleteCheckout, RowIsFree, Completable
    <2>3. RowsAreLocked'
      BY <1>0, <2>1, <2>2 DEF BillingInv, RowsAreLocked, At
    <2>4. PaidInThePast' /\ SubscriptionIsPaid' /\ PaidLabsArePaid'
      BY <2>1 DEF BillingInv, PaidInThePast, SubscriptionIsPaid, PaidLabsArePaid, At
    <2>5. QED
      BY <2>3, <2>4 DEF BillingInv
  <1>6. ASSUME NEW w \in Worker, NEW u \in User, EnsureLabEntitlement(w, u) PROVE BillingInv'
    <2>1. /\ job'[w].pc = "entitled" /\ job'[w].user = u /\ job'[w].now = clock
          /\ \A v \in Worker : v # w => job'[v] = job[v]
          /\ UNCHANGED <<checkout, sub, clock>>
      BY <1>6, OneMoves DEF EnsureLabEntitlement, Begin, table
    <2>2. sub[u] # None /\ sub[u].until > clock
      BY <1>6 DEF EnsureLabEntitlement, HasActivePaidSubscription, GetSubscription
    <2>3. PICK k \in Checkout : Bought(u, k) /\ sub[u].until = checkout[k].paid + Month
      BY <2>2, SubscriptionIsBought DEF BillingInv
    <2>4. checkout[k].paid <= clock
      BY <2>3 DEF BillingInv, PaidInThePast, Bought
    <2>5. PaidLabsArePaid'
      BY <2>1, <2>2, <2>3, <2>4 DEF BillingInv, PaidLabsArePaid, Bought, At
    <2>6. RowsAreLocked' /\ PaidInThePast' /\ SubscriptionIsPaid'
      BY <2>1 DEF BillingInv, RowsAreLocked, PaidInThePast, SubscriptionIsPaid, At
    <2>7. QED
      BY <2>5, <2>6 DEF BillingInv
  <1>7. ASSUME NEW w \in Worker,
               UpsertUser(w) \/ MirrorRole(w) \/ Confirm(w) \/ Dies(w)
        PROVE  BillingInv'
    <2>1. Goto(w, Idle) /\ UNCHANGED <<checkout, sub, clock>>
      BY <1>7 DEF UpsertUser, MirrorRole, Confirm, Dies, Done, table
    <2>2. QED
      BY <1>1, <2>1, IdleType
  <1>8. ASSUME NEW w \in Worker, AssignRealmRole(w) PROVE BillingInv'
    <2>1. job[w] \in Job /\ job[w].pc = "assign"
      BY <1>8 DEF TypeOK, AssignRealmRole, At
    <2>2. [job[w] EXCEPT !.pc = "set_role"].pc = "set_role"
      BY <2>1 DEF Job
    <2>3. QED
      BY <1>1, <1>8, <2>2 DEF AssignRealmRole, table
  <1>9. ASSUME NEW w \in Worker, SetLeaderboardHidden(w) PROVE BillingInv'
    <2>1. job[w] \in Job /\ job[w].pc = "hide"
      BY <1>9 DEF TypeOK, SetLeaderboardHidden, At
    <2>2. [job[w] EXCEPT !.pc = "ack"].pc = "ack"
      BY <2>1 DEF Job
    <2>3. QED
      BY <1>1, <1>9, <2>2 DEF SetLeaderboardHidden
  <1>10. ASSUME NEW w \in Worker, GetLeaderboard(w) PROVE BillingInv'
    BY <1>1, <1>10 DEF GetLeaderboard, Begin, table
  <1>11. ASSUME NEW w \in Worker, ReadRows(w) PROVE BillingInv'
    <2>1. \A v \in Worker : job'[v] = job[v] \/ job'[v].pc \notin {"tx", "entitled"}
      BY <1>11, ReadJobs
    <2>2. UNCHANGED <<checkout, sub, clock>>
      BY <1>11 DEF ReadRows, table
    <2>3. clock <= clock'
      BY <1>0, <2>2
    <2>4. QED
      BY <2>1, <2>2, <2>3, BillingQuiet
  <1>12. ASSUME NEW w \in Worker, CommitExpired(w) PROVE BillingInv'
    <2>1. PICK k \in Checkout : /\ k = job[w].id /\ checkout[k] \in CheckoutRow
                                /\ checkout[k].status = "pending"
      BY <1>12, LockedRow DEF BillingInv, CommitExpired
    <2>2. /\ checkout'[k] = [checkout[k] EXCEPT !.status = "expired"]
          /\ \A i \in Checkout : i # k => checkout'[i] = checkout[i]
      BY <1>12, <2>1 DEF CommitExpired, TypeOK
    <2>3. checkout'[k].status = "expired"
      BY <2>1, <2>2 DEF CheckoutRow
    <2>4. /\ job'[w].pc = "idle" /\ \A v \in Worker : v # w => job'[v] = job[v]
          /\ UNCHANGED <<sub, clock>>
      BY <1>12, OneMoves, IdleType DEF CommitExpired, Done
    <2>5. \A v \in Worker : v # w /\ At(v, "tx") => job[v].id # k
      BY <1>12, <2>1 DEF BillingInv, RowsAreLocked, CommitExpired
    <2>6. \A v \in Worker :
             \/ job'[v].pc \notin {"tx", "entitled"}
             \/ job'[v] = job[v] /\ (At(v, "tx") => job[v].id # k)
      BY <2>4, <2>5
    <2>7. QED
      BY <2>1, <2>2, <2>3, <2>4, <2>6, OpenRowsKeepBilling
  <1>13. ASSUME NEW u \in User, NEW k \in Checkout, NEW p, CreateCheckout(u, k, p)
         PROVE  BillingInv'
    <2>1. /\ checkout[k] = None /\ checkout'[k].status = "pending"
          /\ \A i \in Checkout : i # k => checkout'[i] = checkout[i]
          /\ UNCHANGED <<sub, clock, job>>
      BY <1>13 DEF CreateCheckout, CreateCheckoutSession, TypeOK
    <2>2. \A v \in Worker : At(v, "tx") => job[v].id # k
      BY <2>1 DEF BillingInv, RowsAreLocked
    <2>3. \A v \in Worker :
             \/ job'[v].pc \notin {"tx", "entitled"}
             \/ job'[v] = job[v] /\ (At(v, "tx") => job[v].id # k)
      BY <2>1, <2>2
    <2>4. QED
      BY <2>1, <2>3, OpenRowsKeepBilling
  <1>14. ASSUME \/ UNCHANGED vars \/ Tick
                \/ \E u \in User, r \in Promotable : Demote(u, r)
         PROVE  BillingInv'
    <2>1. UNCHANGED <<checkout, sub, job>> /\ clock <= clock'
      BY <1>0, <1>14 DEF vars, Tick, Demote, table
    <2>2. QED
      BY <2>1, BillingQuiet
  <1>15. QED
    BY <1>2, <1>3, <1>4, <1>5, <1>6, <1>7, <1>8, <1>9, <1>10, <1>11, <1>12, <1>13,
       <1>14, CompletionKeepsBilling DEF Next

\* What a step does to subscriptions and to checkouts that are final.
LEMMA GrantStep == TypeOK /\ BillingInv /\ [Next]_vars => [GrantsOnce]_vars
  <1> SUFFICES ASSUME TypeOK, BillingInv, Next PROVE GrantsOnce
    OBVIOUS
  <1>1. ASSUME UNCHANGED <<checkout, sub>> PROVE GrantsOnce
    BY <1>1 DEF GrantsOnce
  <1>2. ASSUME NEW w \in Worker, CommitExpired(w) PROVE GrantsOnce
    <2>1. PICK k \in Checkout : k = job[w].id /\ checkout[k].status = "pending"
      BY <1>2, LockedRow DEF BillingInv, CommitExpired
    <2>2. sub' = sub /\ \A i \in Checkout : i # k => checkout'[i] = checkout[i]
      BY <1>2, <2>1 DEF CommitExpired, TypeOK
    <2>3. QED
      BY <2>1, <2>2 DEF GrantsOnce
  <1>3. ASSUME NEW w \in Worker, CommitCompletion(w) PROVE GrantsOnce
    <2>1. PICK k \in Checkout, x \in User :
             /\ k = job[w].id /\ x = job[w].user /\ job[w].now \in Nat
             /\ checkout[k] \in CheckoutRow /\ checkout[k].status = "pending"
      BY <1>3, LockedRow DEF BillingInv, CommitCompletion
    <2>2. /\ checkout'[k] = [status |-> "completed", user |-> x,
                             plan |-> checkout[k].plan, paid |-> job[w].now]
          /\ \A i \in Checkout : i # k => checkout'[i] = checkout[i]
          /\ \A u \in User : u # x => sub'[u] = sub[u]
      BY <1>3, <2>1 DEF CommitCompletion, Completed, TypeOK
    <2>3. checkout[k].expires \in Nat
      BY <2>1, CheckoutFields
    <2>4. job[w].now <= checkout[k].expires
      BY <1>3, <2>1, <2>3 DEF CommitCompletion, Expired
    <2>5. QED
      BY <2>1, <2>2, <2>4 DEF GrantsOnce
  <1>4. ASSUME NEW u \in User, NEW k \in Checkout, NEW p, CreateCheckout(u, k, p)
        PROVE  GrantsOnce
    BY <1>4 DEF CreateCheckout, CreateCheckoutSession, GrantsOnce, TypeOK
  <1>5. ASSUME NEW w \in Worker, NEW u \in User,
               \/ Callback(w, u) \/ Refresh(w, u) \/ EnsureLabEntitlement(w, u)
               \/ \E r \in Promotable : SetUserRole(w, u, r)
               \/ \E h \in BOOLEAN : SetMyPreferences(w, u, h)
               \/ \E k \in Checkout : CompleteCheckout(w, u, k)
        PROVE  UNCHANGED <<checkout, sub>>
    BY <1>5 DEF Callback, Refresh, EnsureLabEntitlement, SetUserRole, SetMyPreferences,
                CompleteCheckout, table
  <1>6. ASSUME NEW w \in Worker,
               \/ UpsertUser(w) \/ AssignRealmRole(w) \/ MirrorRole(w)
               \/ SetLeaderboardHidden(w) \/ Confirm(w) \/ GetLeaderboard(w)
               \/ ReadRows(w) \/ Dies(w)
        PROVE  UNCHANGED <<checkout, sub>>
    BY <1>6 DEF UpsertUser, AssignRealmRole, MirrorRole, SetLeaderboardHidden, Confirm,
                GetLeaderboard, ReadRows, Dies, table
  <1>7. ASSUME Tick \/ \E u \in User, r \in Promotable : Demote(u, r)
        PROVE  UNCHANGED <<checkout, sub>>
    BY <1>7 DEF Tick, Demote, table
  <1>8. QED
    BY <1>1, <1>2, <1>3, <1>4, <1>5, <1>6, <1>7 DEF Next

-----------------------------------------------------------------------------
(* The theorems.                                                           *)

AccountsInv == TypeOK /\ MirrorInv /\ PrivacyInv /\ BillingInv

LEMMA InitHolds == Init => AccountsInv
  <1> SUFFICES ASSUME Init PROVE AccountsInv
    OBVIOUS
  <1>1. TypeOK
    BY IdleType DEF Init, TypeOK
  <1>2. \A w \in Worker : job[w].pc = "idle"
    BY IdleType DEF Init
  <1>3. MirrorInv
    BY <1>2 DEF Init, MirrorInv, RolesWereGranted, MirrorWasGranted, At
  <1>4. PrivacyInv
    BY <1>2 DEF Init, PrivacyInv, NobodyRevokes, Hiding, WrittenBeforeConfirmed,
                OptOutHolds, StillOptedOut, HiddenStaysPrivate, Reads, At
  <1>5. BillingInv
    BY <1>2 DEF Init, BillingInv, RowsAreLocked, PaidInThePast, SubscriptionIsPaid,
                PaidLabsArePaid, At
  <1>6. QED
    BY <1>1, <1>3, <1>4, <1>5 DEF AccountsInv

\* The inductive invariant holds in every reachable state, for any users, goroutines
\* and checkouts and any bound on the clock and on the requests.
THEOREM AccountsInvariant == Spec => []AccountsInv
  <1>1. Init => AccountsInv
    BY InitHolds
  <1>2. AccountsInv /\ [Next]_vars => AccountsInv'
    <2> SUFFICES ASSUME AccountsInv, [Next]_vars PROVE AccountsInv'
      OBVIOUS
    <2>1. TypeOK'
      BY TypeStep DEF AccountsInv, BillingInv
    <2>2. MirrorInv' /\ PrivacyInv' /\ BillingInv'
      BY <2>1, MirrorStep, PrivacyStep, BillingStep DEF AccountsInv
    <2>3. QED
      BY <2>1, <2>2 DEF AccountsInv
  <1>3. QED
    BY <1>1, <1>2, PTL DEF Spec

\* Every table, job and counter keeps its type: in particular a transaction always
\* finds the row it decided on.
THEOREM AccountsTypeCorrect == Spec => []TypeOK
  <1>1. AccountsInv => TypeOK
    BY DEF AccountsInv
  <1>2. QED
    BY <1>1, AccountsInvariant, PTL

\* The mirror shows no role above student that the user never had in Keycloak, for
\* any number of logins, promotions and demotions at the same time.
THEOREM MirroredRolesWereGranted == Spec => []MirrorWasGranted
  <1>1. AccountsInv => MirrorWasGranted
    BY DEF AccountsInv, MirrorInv
  <1>2. QED
    BY <1>1, AccountsInvariant, PTL

\* A confirmed opt-out stays in the table until it is revoked.
THEOREM OptOutsHold == Spec => []OptOutHolds
  <1>1. AccountsInv => OptOutHolds
    BY DEF AccountsInv, PrivacyInv
  <1>2. QED
    BY <1>1, AccountsInvariant, PTL

\* No leaderboard lists a user whose opt-out was confirmed before it was asked for.
THEOREM LeaderboardsArePrivate == Spec => []HiddenStaysPrivate
  <1>1. AccountsInv => HiddenStaysPrivate
    BY DEF AccountsInv, PrivacyInv
  <1>2. QED
    BY <1>1, AccountsInvariant, PTL

\* A user has a subscription exactly if a checkout of theirs was completed.
THEOREM SubscriptionsArePaid == Spec => []SubscriptionIsPaid
  <1>1. AccountsInv => SubscriptionIsPaid
    BY DEF AccountsInv, BillingInv
  <1>2. QED
    BY <1>1, AccountsInvariant, PTL

\* Nobody is let into a paid lab outside a month that a checkout of theirs pays for.
THEOREM EntitlementsArePaid == Spec => []PaidLabsArePaid
  <1>1. AccountsInv => PaidLabsArePaid
    BY DEF AccountsInv, BillingInv
  <1>2. QED
    BY <1>1, AccountsInvariant, PTL

\* A checkout grants one subscription at most, before it expires.
THEOREM CheckoutsGrantOnce == Spec => OneGrantPerCheckout
  <1>1. AccountsInv /\ [Next]_vars => [GrantsOnce]_vars
    BY GrantStep DEF AccountsInv
  <1>2. QED
    BY <1>1, AccountsInvariant, PTL DEF Spec, OneGrantPerCheckout

=============================================================================
