------------------------------ MODULE Accounts ------------------------------
(***************************************************************************)
(* The requests about a user's account and the tables behind them: the      *)
(* mirror of Keycloak's users (login, refresh, promotion), the leaderboard  *)
(* and its opt-out, checkouts, subscriptions and the plan check before a    *)
(* paid lab. Non-release mode: in release mode a checkout cannot be         *)
(* completed and plans are not checked.                                     *)
(*                                                                         *)
(* A step is one statement or transaction of PostgreSQL or one call of      *)
(* Keycloak. Requests run concurrently and may end at any point: a timeout, *)
(* a lost connection, a crash of the API.                                   *)
(***************************************************************************)
EXTENDS Naturals, FiniteSets

CONSTANTS
    User,
    Worker,       \* goroutines of the API
    Checkout,     \* ids that newCheckoutID draws
    None,
    CheckoutTTL,  \* a checkout's 30 minutes, in ticks of the clock
    Month,        \* a paid period, in ticks of the clock
    MaxClock,     \* bound: ticks of the clock
    MaxRequests   \* bound: requests and changes made in Keycloak

PaidPlan == {"pro-monthly", "team-monthly"}
Promotable == {"instructor", "admin"}   \* promotableRoles
RoleName == Promotable \cup {"student"}

Row == [role : RoleName, hidden : BOOLEAN]

CheckoutRow ==
    [status : {"pending", "expired"}, user : User, plan : PaidPlan, expires : Nat]
    \cup [status : {"completed"}, user : User, plan : PaidPlan, paid : Nat]

Subscription == [plan : PaidPlan, until : Nat]

ASSUME AccountsAssumption ==
    /\ CheckoutTTL \in Nat /\ Month \in Nat \ {0}
    /\ MaxClock \in Nat /\ MaxRequests \in Nat
    /\ None \notin Row \cup CheckoutRow \cup Subscription

VARIABLES
    users,     \* the table users: role and leaderboard_hidden, or no row
    roles,     \* Keycloak: the realm roles of each user
    held,      \* history: the realm roles a user ever had
    optedOut,  \* history: an opt-out was confirmed and no request revokes it
    checkout,  \* the table checkout_sessions, with the time of payment
    sub,       \* the table subscriptions, or no row
    clock,
    requests,  \* how many requests were made
    job        \* what each goroutine is at

table == <<users, checkout, sub>>
keycloak == <<roles, held>>
vars == <<users, roles, held, optedOut, checkout, sub, clock, requests, job>>

Job ==
    [pc : {"idle"}]
    \cup [pc : {"mirror"}, user : User, role : RoleName]
    \cup [pc : {"assign", "set_role"}, user : User, role : Promotable]
    \cup [pc : {"hide", "ack"}, user : User, hidden : BOOLEAN, sole : BOOLEAN]
    \cup [pc : {"all", "recent", "send"}, mustHide : SUBSET User, listed : SUBSET User]
    \cup [pc : {"tx"}, user : User, id : Checkout, now : Nat]
    \cup [pc : {"entitled"}, user : User, now : Nat]

TypeOK ==
    /\ users \in [User -> Row \cup {None}]
    /\ roles \in [User -> SUBSET Promotable] /\ held \in [User -> SUBSET Promotable]
    /\ optedOut \in [User -> BOOLEAN]
    /\ checkout \in [Checkout -> CheckoutRow \cup {None}]
    /\ sub \in [User -> Subscription \cup {None}]
    /\ clock \in 0 .. MaxClock
    /\ requests \in 0 .. MaxRequests
    /\ job \in [Worker -> Job]

Idle == [pc |-> "idle"]

Init ==
    /\ users = [u \in User |-> None]
    /\ roles = [u \in User |-> {}]
    /\ held = roles
    /\ optedOut = [u \in User |-> FALSE]
    /\ checkout = [k \in Checkout |-> None]
    /\ sub = [u \in User |-> None]
    /\ clock = 0
    /\ requests = 0
    /\ job = [w \in Worker |-> Idle]

At(w, pc) == job[w].pc = pc
Goto(w, j) == job' = [job EXCEPT ![w] = j]
Done(w) == Goto(w, Idle)

\* The bound on what may still begin.
Count ==
    /\ requests < MaxRequests
    /\ requests' = requests + 1

\* A request begins, or a goroutine that a request starts.
Begin(w, j) ==
    /\ At(w, "idle")
    /\ Count
    /\ Goto(w, j)

-----------------------------------------------------------------------------
(* Login, refresh and roles.                                               *)

\* Identity.Role: the highest of the roles in the token.
Role(granted) ==
    IF "admin" \in granted THEN "admin"
    ELSE IF "instructor" \in granted THEN "instructor" ELSE "student"

\* upsertUser copies the identity in a token to the table, in a goroutine of its own.
Mirror(w, u, granted) == Begin(w, [pc |-> "mirror", user |-> u, role |-> Role(granted)])

\* Callback: the token Keycloak issues has the roles of now. A login that Keycloak or
\* the verification refuses changes nothing here.
Callback(w, u) ==
    /\ Mirror(w, u, roles[u])
    /\ UNCHANGED <<table, keycloak, optedOut, clock>>

\* Refresh, for a cookie that Keycloak accepts: the new token has the roles of now
\* too, and is mirrored too. A refused one clears the cookies and nothing else.
Refresh(w, u) ==
    /\ Mirror(w, u, roles[u])
    /\ UNCHANGED <<table, keycloak, optedOut, clock>>

\* Mutant of UpsertUser: the row is written as a whole.
UpsertWholeRow(w) ==
    /\ At(w, "mirror")
    /\ users' = [users EXCEPT ![job[w].user] = [role |-> job[w].role, hidden |-> FALSE]]
    /\ Done(w)
    /\ UNCHANGED <<keycloak, optedOut, checkout, sub, clock, requests>>

\* INSERT ... ON CONFLICT: the opt-out of an existing row stays.
UpsertUser(w) ==
    /\ At(w, "mirror")
    /\ users' = [users EXCEPT ![job[w].user] =
           [role |-> job[w].role, hidden |-> IF @ = None THEN FALSE ELSE @.hidden]]
    /\ Done(w)
    /\ UNCHANGED <<keycloak, optedOut, checkout, sub, clock, requests>>

\* The handler SetUserRole: an administrator promotes u to r.
SetUserRole(w, u, r) ==
    /\ Begin(w, [pc |-> "assign", user |-> u, role |-> r])
    /\ UNCHANGED <<table, keycloak, optedOut, clock>>

\* Mutant of AssignRealmRole: an error of Keycloak is not noticed.
AssignUnchecked(w) ==
    /\ At(w, "assign")
    /\ Goto(w, [job[w] EXCEPT !.pc = "set_role"])
    /\ UNCHANGED <<table, keycloak, optedOut, clock, requests>>

\* Keycloak adds the role; only then the handler goes on to the mirror. A call that
\* fails, or whose answer is lost, ends the request (Dies).
AssignRealmRole(w) ==
    /\ At(w, "assign")
    /\ roles' = [roles EXCEPT ![job[w].user] = @ \cup {job[w].role}]
    /\ held' = [held EXCEPT ![job[w].user] = @ \cup {job[w].role}]
    /\ Goto(w, [job[w] EXCEPT !.pc = "set_role"])
    /\ UNCHANGED <<table, optedOut, clock, requests>>

\* Store.SetUserRole is an UPDATE: a user without a row stays without one.
MirrorRole(w) ==
    /\ At(w, "set_role")
    /\ users' = [users EXCEPT ![job[w].user] =
           IF @ = None THEN None ELSE [@ EXCEPT !.role = job[w].role]]
    /\ Done(w)
    /\ UNCHANGED <<keycloak, optedOut, checkout, sub, clock, requests>>

\* A role is taken away in Keycloak's own console.
Demote(u, r) ==
    /\ Count
    /\ r \in roles[u]
    /\ roles' = [roles EXCEPT ![u] = @ \ {r}]
    /\ UNCHANGED <<table, held, optedOut, clock, job>>

-----------------------------------------------------------------------------
(* The leaderboard.                                                        *)

Hiding(u) == {w \in Worker : job[w].pc \in {"hide", "ack"} /\ job[w].user = u}
Revokes(w) == ~job[w].hidden

\* SetMyPreferences. A request to be shown again revokes every opt-out of the user
\* that is confirmed or under way (history).
SetMyPreferences(w, u, h) ==
    /\ At(w, "idle")
    /\ Count
    /\ LET mine == [pc |-> "hide", user |-> u, hidden |-> h,
                    sole |-> \A v \in Hiding(u) : ~Revokes(v)]
       IN  job' = [v \in Worker |->
                      IF v = w THEN mine
                      ELSE IF h THEN job[v]
                      ELSE IF v \in Hiding(u) THEN [job[v] EXCEPT !.sole = FALSE]
                      ELSE IF job[v].pc \in {"all", "recent", "send"}
                      THEN [job[v] EXCEPT !.mustHide = @ \ {u}]
                      ELSE job[v]]
    /\ optedOut' = [optedOut EXCEPT ![u] = @ /\ h]
    /\ UNCHANGED <<table, keycloak, clock>>

\* Mutant of SetLeaderboardHidden: an UPDATE.
UpdateHidden(w) ==
    /\ At(w, "hide")
    /\ users' = [users EXCEPT ![job[w].user] =
           IF @ = None THEN None ELSE [@ EXCEPT !.hidden = job[w].hidden]]
    /\ Goto(w, [job[w] EXCEPT !.pc = "ack"])
    /\ UNCHANGED <<keycloak, optedOut, checkout, sub, clock, requests>>

\* INSERT ... ON CONFLICT: a user the mirror does not know yet gets a row with the
\* default role.
SetLeaderboardHidden(w) ==
    /\ At(w, "hide")
    /\ users' = [users EXCEPT ![job[w].user] =
           [role |-> IF @ = None THEN "student" ELSE @.role, hidden |-> job[w].hidden]]
    /\ Goto(w, [job[w] EXCEPT !.pc = "ack"])
    /\ UNCHANGED <<keycloak, optedOut, checkout, sub, clock, requests>>

\* The user is told.
Confirm(w) ==
    /\ At(w, "ack")
    /\ optedOut' = [optedOut EXCEPT ![job[w].user] = @ \/ (job[w].hidden /\ job[w].sole)]
    /\ Done(w)
    /\ UNCHANGED <<table, keycloak, clock, requests>>

\* LeaderboardRows: the users in the public lists; every user has completed a lab.
LeaderboardRows == {u \in User : users[u] # None /\ ~users[u].hidden}

\* GetLeaderboard reads the rows of all time and those of the last week one after
\* the other; the user's own flag and score are for that user's eyes only.
GetLeaderboard(w) ==
    /\ Begin(w, [pc |-> "all", mustHide |-> {u \in User : optedOut[u]}, listed |-> {}])
    /\ UNCHANGED <<table, keycloak, optedOut, clock>>

ReadRows(w) ==
    /\ \/ At(w, "all") /\ Goto(w, [job[w] EXCEPT !.pc = "recent", !.listed = LeaderboardRows])
       \/ \E recent \in SUBSET LeaderboardRows :
             /\ At(w, "recent")
             /\ Goto(w, [job[w] EXCEPT !.pc = "send", !.listed = @ \cup recent])
    /\ UNCHANGED <<table, keycloak, optedOut, clock, requests>>

-----------------------------------------------------------------------------
(* Checkouts, subscriptions and paid labs.                                 *)

\* findBillingPlan, and the plan has a price.
CanBeBought(p) == p \in PaidPlan

\* CreateCheckoutSession: the id is a fresh one.
CreateCheckoutSession(k, row) ==
    /\ checkout[k] = None
    /\ checkout' = [checkout EXCEPT ![k] = row]

CreateCheckout(u, k, p) ==
    /\ Count
    /\ CanBeBought(p)
    /\ CreateCheckoutSession(k, [status |-> "pending", user |-> u, plan |-> p,
                                 expires |-> clock + CheckoutTTL])
    /\ UNCHANGED <<users, sub, keycloak, optedOut, clock, job>>

\* Mutant of RowIsFree: no FOR UPDATE.
RowIsRead(k) == checkout[k] # None

\* SELECT ... FOR UPDATE waits for the transaction that has the row.
RowIsFree(k) ==
    /\ checkout[k] # None
    /\ \A w \in Worker : At(w, "tx") => job[w].id # k

\* A row of another user or a status that is final ends the completion without a
\* trace; a completed one only reads the subscription.
Completable(u, k) ==
    /\ checkout[k].user = u
    /\ checkout[k].status = "pending"

\* CompleteCheckout up to the decision of CompleteCheckoutSession: the row is locked
\* and read, then the clock.
CompleteCheckout(w, u, k) ==
    /\ RowIsFree(k)
    /\ Completable(u, k)
    /\ Begin(w, [pc |-> "tx", user |-> u, id |-> k, now |-> clock])
    /\ UNCHANGED <<table, keycloak, optedOut, clock>>

\* ExpiresAt.Before(now).
Expired(w) == checkout[job[w].id].status = "pending" /\ checkout[job[w].id].expires < job[w].now

\* Commit of an expired checkout.
CommitExpired(w) ==
    /\ At(w, "tx")
    /\ Expired(w)
    /\ checkout' = [checkout EXCEPT ![job[w].id].status = "expired"]
    /\ Done(w)
    /\ UNCHANGED <<users, sub, keycloak, optedOut, clock, requests>>

Completed(w) ==
    LET k == job[w].id IN
    [checkout EXCEPT ![k] = [status |-> "completed", user |-> job[w].user,
                             plan |-> checkout[k].plan, paid |-> job[w].now]]

\* Mutant of CommitCompletion: the subscription is left to a later transaction.
CommitCheckoutOnly(w) ==
    /\ At(w, "tx")
    /\ ~Expired(w)
    /\ checkout' = Completed(w)
    /\ Done(w)
    /\ UNCHANGED <<users, sub, keycloak, optedOut, clock, requests>>

\* Commit: the checkout is completed and the subscription runs for a month from now.
CommitCompletion(w) ==
    /\ At(w, "tx")
    /\ ~Expired(w)
    /\ checkout' = Completed(w)
    /\ sub' = [sub EXCEPT ![job[w].user] =
           [plan |-> checkout[job[w].id].plan, until |-> job[w].now + Month]]
    /\ Done(w)
    /\ UNCHANGED <<users, keycloak, optedOut, clock, requests>>

\* Mutant of HasActivePaidSubscription: the last moment counts too.
HasSubscriptionUntil(s) == s # None /\ ~(s.until < clock)

\* hasActivePaidSubscription: until has to be after now.
HasActivePaidSubscription(s) == s # None /\ s.until > clock

\* No row is no subscription.
GetSubscription(u) == sub[u]

\* ensureLabEntitlement lets u start a paid lab; the session is created later.
EnsureLabEntitlement(w, u) ==
    /\ HasActivePaidSubscription(GetSubscription(u))
    /\ Begin(w, [pc |-> "entitled", user |-> u, now |-> clock])
    /\ UNCHANGED <<table, keycloak, optedOut, clock>>

-----------------------------------------------------------------------------

\* A request ends: it has been answered, has failed, or the API has crashed.
\* PostgreSQL rolls back what was not committed and unlocks its row. A failure of
\* upsertUser or of the mirror of a role is logged and forgotten.
Dies(w) ==
    /\ ~At(w, "idle")
    /\ Done(w)
    /\ UNCHANGED <<table, keycloak, optedOut, clock, requests>>

Tick ==
    /\ clock < MaxClock
    /\ clock' = clock + 1
    /\ UNCHANGED <<table, keycloak, optedOut, requests, job>>

Next ==
    \/ \E w \in Worker, u \in User :
          \/ Callback(w, u)
          \/ Refresh(w, u)
          \/ \E r \in Promotable : SetUserRole(w, u, r)
          \/ \E h \in BOOLEAN : SetMyPreferences(w, u, h)
          \/ \E k \in Checkout : CompleteCheckout(w, u, k)
          \/ EnsureLabEntitlement(w, u)
    \/ \E w \in Worker :
          \/ UpsertUser(w) \/ AssignRealmRole(w) \/ MirrorRole(w)
          \/ SetLeaderboardHidden(w) \/ Confirm(w)
          \/ GetLeaderboard(w) \/ ReadRows(w)
          \/ CommitExpired(w) \/ CommitCompletion(w)
          \/ Dies(w)
    \/ \E u \in User :
          \/ \E r \in Promotable : Demote(u, r)
          \/ \E k \in Checkout, p \in PaidPlan \cup {"free"} : CreateCheckout(u, k, p)
    \/ Tick

Spec == Init /\ [][Next]_vars

-----------------------------------------------------------------------------
(* Properties.                                                             *)

\* A confirmed opt-out is in the table until the user asks to be shown again: not
\* lost when the row does not exist yet, and not overwritten by the mirror of a
\* login that comes later (SetLeaderboardHidden, UpsertUser).
OptOutHolds ==
    \A u \in User : optedOut[u] => users[u] # None /\ users[u].hidden

\* Neither of the two public lists of a leaderboard shows a user whose opt-out was
\* confirmed before the request began, whatever mirrors run at the same time
\* (GetLeaderboard, LeaderboardRows).
HiddenStaysPrivate ==
    \A w \in Worker :
        job[w].pc \in {"all", "recent", "send"} => job[w].listed \cap job[w].mustHide = {}

\* The administrators' console shows no role above student that the user never had
\* in Keycloak, also when Keycloak refuses a promotion and when logins, promotions
\* and demotions overtake each other (SetUserRole, UpsertUser).
MirrorWasGranted ==
    \A u \in User : users[u] # None => users[u].role \in held[u] \cup {"student"}

\* A user has a subscription exactly if a checkout of theirs was completed, and it
\* ends a month after one of them was: a crash between the two writes, a second
\* completion or an expired checkout does not tell them apart
\* (CompleteCheckoutSession).
SubscriptionIsPaid ==
    \A u \in User :
        LET bought == {k \in Checkout : /\ checkout[k] # None
                                        /\ checkout[k].status = "completed"
                                        /\ checkout[k].user = u}
        IN  /\ sub[u] = None <=> bought = {}
            /\ sub[u] # None =>
                 \E k \in bought : /\ sub[u].plan = checkout[k].plan
                                   /\ sub[u].until = checkout[k].paid + Month

\* What a step may do to subscriptions and checkouts: a subscription changes with
\* the completion of a pending checkout of that user, before it expires, and a
\* checkout that is no longer pending stays as it is.
GrantsOnce ==
    /\ \A u \in User : sub'[u] # sub[u] =>
          \E k \in Checkout :
              /\ checkout[k] # None
              /\ checkout[k].status = "pending"
              /\ checkout'[k].status = "completed"
              /\ checkout'[k].user = u
              /\ checkout'[k].paid <= checkout[k].expires
    /\ \A k \in Checkout :
          checkout[k] # None /\ checkout[k].status # "pending" => checkout'[k] = checkout[k]

\* A checkout is completed at most once, before it expires, and no subscription
\* changes otherwise: two completions of one checkout at the same time, or a retry
\* of one whose answer was lost, pay for one period (the row lock of
\* CompleteCheckoutSession).
OneGrantPerCheckout == [][GrantsOnce]_vars

\* Whoever was let into a paid lab was so within a month that a completed checkout
\* of that very user pays for (ensureLabEntitlement).
PaidLabsArePaid ==
    \A w \in Worker : At(w, "entitled") =>
        \E k \in Checkout :
            /\ checkout[k] # None
            /\ checkout[k].status = "completed"
            /\ checkout[k].user = job[w].user
            /\ checkout[k].paid <= job[w].now
            /\ job[w].now < checkout[k].paid + Month

-----------------------------------------------------------------------------
(* The inductive invariant behind the safety properties.                    *)

Reads(w) == job[w].pc \in {"all", "recent", "send"}

\* While a user is confirmed as hidden, or about to be by an opt-out that nothing
\* revokes, no request to be shown is under way.
NobodyRevokes ==
    \A u \in User, v \in Worker :
        v \in Hiding(u) /\ Revokes(v) =>
            /\ ~optedOut[u]
            /\ \A w \in Hiding(u) : ~Revokes(w) => ~job[w].sole

\* An opt-out is in the table when it is about to be confirmed.
WrittenBeforeConfirmed ==
    \A w \in Worker : At(w, "ack") /\ job[w].hidden /\ job[w].sole =>
        users[job[w].user] # None /\ users[job[w].user].hidden

\* Those whom a leaderboard has to hide are still opted out.
StillOptedOut == \A w \in Worker : Reads(w) => \A u \in job[w].mustHide : optedOut[u]

\* Every role on its way to the mirror was granted.
RolesWereGranted ==
    /\ \A u \in User : roles[u] \subseteq held[u]
    /\ \A w \in Worker : At(w, "mirror") => job[w].role \in held[job[w].user] \cup {"student"}
    /\ \A w \in Worker : At(w, "set_role") => job[w].role \in held[job[w].user]

\* A transaction has its row to itself, pending and of its user.
RowsAreLocked ==
    \A w \in Worker : At(w, "tx") =>
        /\ checkout[job[w].id] # None
        /\ checkout[job[w].id].status = "pending"
        /\ checkout[job[w].id].user = job[w].user
        /\ job[w].now <= clock
        /\ \A v \in Worker : At(v, "tx") /\ job[v].id = job[w].id => v = w

\* Payments are in the past.
PaidInThePast ==
    \A k \in Checkout :
        checkout[k] # None /\ checkout[k].status = "completed" => checkout[k].paid <= clock

MirrorInv == RolesWereGranted /\ MirrorWasGranted
PrivacyInv ==
    /\ NobodyRevokes /\ WrittenBeforeConfirmed /\ OptOutHolds
    /\ StillOptedOut /\ HiddenStaysPrivate
BillingInv == RowsAreLocked /\ PaidInThePast /\ SubscriptionIsPaid /\ PaidLabsArePaid

=============================================================================
