---------------------------- MODULE TenantAccess ----------------------------
(***************************************************************************)
(* Who may read whose events: the tables of db/models.py, filled by        *)
(* db/init_db.py; POST /auth/login, which copies a user's tenants into a   *)
(* token; and the routes, which look at the token and never at the tables. *)
(* What changes in the tables after the login reaches the routes when the  *)
(* token expires, so time is part of the state, in ticks of which a token  *)
(* lives Ttl.  A login and a request are shorter than a tick.              *)
(***************************************************************************)
EXTENDS Integers, FiniteSets

CONSTANTS Tenants,
          Users,
          Admin,        \* the user init_db.py creates
          Nobody,       \* a caller without a token
          Content,      \* the tenants whose events the alias of a tenant holds
          Configs,      \* the contents config/tenants.json may have
          Ttl,          \* JWT_EXPIRE_MIN
          MaxTokens     \* bound: tokens that are in use at once

Listings == {"unlisted", "active", "inactive", "nopolicy"}

ASSUME AccessAssumption ==
    /\ Admin \in Users
    /\ Nobody \notin Users
    /\ Content \in [Tenants -> SUBSET Tenants]
    /\ Configs \subseteq [Tenants -> Listings]
    /\ Ttl \in Nat
    /\ MaxTokens \in Nat

VARIABLES
    rows,       \* table tenants: the column active, or no row
    users,      \* table users: the column is_active, or no row
    roles,      \* table user_tenant_roles
    logins,     \* the users login() has found active, before it reads their roles
    tokens,     \* the tokens clients hold
    reply,      \* what the last step has sent to a client
    idle,       \* history: ticks since a user last was active
    lapsed      \* history: ticks since a user last had a role for a tenant

tables == <<rows, users, roles>>
history == <<idle, lapsed>>
vars == <<rows, users, roles, logins, tokens, reply, idle, lapsed>>

Column == {"absent", "active", "inactive"}

\* claims of a token; ttl: ticks until exp, -1 when it is past
Token == [user : Users, tenants : SUBSET Tenants, ttl : -1 .. Ttl]
Valid(k) == k.ttl >= 0

\* about: the tenants a response tells of; events: whose events it holds;
\* counted: whose events are in its numbers
Reply == [user : Users \cup {Nobody}, about : SUBSET Tenants,
          events : SUBSET Tenants, counted : SUBSET Tenants]
NoReply == [user |-> Nobody, about |-> {}, events |-> {}, counted |-> {}]

TypeOK ==
    /\ rows \in [Tenants -> Column]
    /\ users \in [Users -> Column]
    /\ roles \in SUBSET (Users \X Tenants)
    /\ logins \in SUBSET Users
    /\ tokens \in SUBSET Token
    /\ reply \in Reply
    /\ idle \in [Users -> 0 .. Ttl + 1]
    /\ lapsed \in [Users \X Tenants -> 0 .. Ttl + 1]

Init ==
    /\ rows = [t \in Tenants |-> "absent"]
    /\ users = [u \in Users |-> "absent"]
    /\ roles = {}
    /\ logins = {}
    /\ tokens = {}
    /\ reply = NoReply
    /\ idle = [u \in Users |-> Ttl + 1]
    /\ lapsed = [p \in Users \X Tenants |-> Ttl + 1]

\* Every step but a response leaves no reply; who is active is not idle, and
\* a role that is held has not lapsed.
TablesChange ==
    /\ reply' = NoReply
    /\ idle' = [u \in Users |-> IF users'[u] = "active" THEN 0 ELSE idle[u]]
    /\ lapsed' = [p \in Users \X Tenants |-> IF p \in roles' THEN 0 ELSE lapsed[p]]
    /\ UNCHANGED <<logins, tokens>>

-----------------------------------------------------------------------------
(* db/init_db.py *)

\* seed() and the commit: tenants that have no row get one, and the admin, if
\* it is not there, a role for every active tenant.  A new tenant without a
\* policy_id raises before anything is committed.
Seed(cfg) ==
    LET new == {t \in Tenants : cfg[t] # "unlisted" /\ rows[t] = "absent"} IN
    /\ \A t \in new : cfg[t] # "nopolicy"
    /\ rows' = [t \in Tenants |-> IF t \in new THEN cfg[t] ELSE rows[t]]
    /\ IF users[Admin] = "absent"
       THEN /\ users' = [users EXCEPT ![Admin] = "active"]
            /\ roles' = roles \cup {<<Admin, t>> : t \in {s \in Tenants : rows'[s] = "active"}}
       ELSE UNCHANGED <<users, roles>>
    /\ TablesChange

-----------------------------------------------------------------------------
(* The operator, in SQL: the repository has no code for it.  models.py: a   *)
(* role needs its user and its tenant, and goes with its tenant.            *)

SetUser(u) ==
    /\ \E a \in {"active", "inactive"} \ {users[u]} : users' = [users EXCEPT ![u] = a]
    /\ UNCHANGED <<rows, roles>>
    /\ TablesChange

Grant(u, t) ==
    /\ users[u] # "absent" /\ rows[t] # "absent"
    /\ roles' = roles \cup {<<u, t>>}
    /\ UNCHANGED <<rows, users>>
    /\ TablesChange

Revoke(u, t) ==
    /\ roles' = roles \ {<<u, t>>}
    /\ UNCHANGED <<rows, users>>
    /\ TablesChange

DropTenant(t) ==
    /\ rows' = [rows EXCEPT ![t] = "absent"]
    /\ roles' = roles \ (Users \X {t})
    /\ UNCHANGED users
    /\ TablesChange

-----------------------------------------------------------------------------
(* api/routes *)

LoginOfInactive(u) ==  \* mutant
    /\ users[u] # "absent"
    /\ logins' = logins \cup {u}
    /\ reply' = NoReply
    /\ UNCHANGED <<tables, tokens, history>>

\* login(), with the right password: the user's row is read first.
Login(u) ==
    /\ users[u] = "active"
    /\ logins' = logins \cup {u}
    /\ reply' = NoReply
    /\ UNCHANGED <<tables, tokens, history>>

\* The roles are another query, and the token is made of them; the row is not
\* read again.  Clients forget tokens that have expired.
LoginRoles(u) ==
    /\ u \in logins
    /\ logins' = logins \ {u}
    /\ tokens' = {k \in tokens : Valid(k)} \cup
         {[user |-> u, tenants |-> {t \in Tenants : <<u, t>> \in roles}, ttl |-> Ttl]}
    /\ Cardinality(tokens') <= MaxTokens
    /\ reply' = NoReply
    /\ UNCHANGED <<tables, history>>

\* Or the request fails, and there is no token.
LoginFails(u) ==
    /\ u \in logins
    /\ logins' = logins \ {u}
    /\ reply' = NoReply
    /\ UNCHANGED <<tables, tokens, history>>

GetCurrentUserUnchecked(k) == k \in tokens  \* mutant

\* get_current_user(): jwt.decode() refuses a token whose exp is past.
GetCurrentUser(k) == k \in tokens /\ Valid(k)

\* ensure_tenant_access()
EnsureTenantAccess(k, t) == t \in k.tenants

Respond(k, t, events, counted) ==
    /\ GetCurrentUser(k)
    /\ EnsureTenantAccess(k, t)
    /\ reply' = [user |-> k.user, about |-> {t}, events |-> events, counted |-> counted]
    /\ UNCHANGED <<tables, logins, tokens, history>>

\* GET /logs/search: the alias of the tenant, filtered by tenant_id.
SearchLogs(k, t) == Respond(k, t, Content[t] \cap {t}, Content[t] \cap {t})

\* GET /tenants/{id}/stats: how many documents the indices of the alias have,
\* whosever they are.
TenantStats(k, t) == Respond(k, t, {}, Content[t])

\* GET /tenants/{id}/alias/state: names of indices.
AliasState(k, t) == Respond(k, t, {}, {})

\* GET /tenants/{id}/meta
TenantMeta(k, t) == rows[t] # "absent" /\ Respond(k, t, {}, {})

\* GET /tenants asks for no token.
ListTenants ==
    /\ reply' = [user |-> Nobody, about |-> {t \in Tenants : rows[t] = "active"},
                events |-> {}, counted |-> {}]
    /\ UNCHANGED <<tables, logins, tokens, history>>

-----------------------------------------------------------------------------
Later(n) == IF n > Ttl THEN n ELSE n + 1

TimePasses ==
    /\ logins = {}
    /\ idle' = [u \in Users |-> IF users[u] = "active" THEN idle[u] ELSE Later(idle[u])]
    /\ lapsed' = [p \in Users \X Tenants |-> IF p \in roles THEN lapsed[p] ELSE Later(lapsed[p])]
    /\ reply' = NoReply
    /\ UNCHANGED <<tables, logins>>

TickNoExpiry == TimePasses /\ UNCHANGED tokens  \* mutant

\* No login lasts as long as a tick.
Tick ==
    /\ TimePasses
    /\ tokens' = {[k EXCEPT !.ttl = IF Valid(k) THEN @ - 1 ELSE @] : k \in tokens}

Operator ==
    \/ \E c \in Configs : Seed(c)
    \/ \E u \in Users : SetUser(u)
    \/ \E u \in Users, t \in Tenants : Grant(u, t) \/ Revoke(u, t)
    \/ \E t \in Tenants : DropTenant(t)

Request(k, t) == SearchLogs(k, t) \/ TenantStats(k, t) \/ AliasState(k, t) \/ TenantMeta(k, t)

Next ==
    \/ Operator
    \/ \E u \in Users : Login(u) \/ LoginRoles(u) \/ LoginFails(u)
    \/ \E k \in tokens, t \in Tenants : Request(k, t)
    \/ ListTenants
    \/ Tick

Spec == Init /\ [][Next]_vars

\* Time passes, and so a login that has begun ends; nobody has to do anything.
FairSpec ==
    /\ Spec
    /\ SF_vars(Tick)
    /\ \A u \in Users : WF_vars(LoginRoles(u) \/ LoginFails(u))

-----------------------------------------------------------------------------
(* Properties *)

\* A token outlives its user's account and the roles it was made from by no
\* more than what was left of its life when they went: the longer a role is
\* gone, the sooner every token that still names its tenant ends, however
\* logins, revocations, new grants and requests are ordered, also those that
\* fall between the two queries of a login.
TokensAge ==
    \A k \in tokens :
        Valid(k) => /\ idle[k.user] + k.ttl <= Ttl
                    /\ \A t \in k.tenants : lapsed[<<k.user, t>>] + k.ttl <= Ttl

\* Whom a route with a token tells anything of a tenant, he was active at
\* most Ttl ago and had a role for it at most Ttl ago, and the events he is
\* sent are that tenant's, whatever else the alias holds.  GET /tenants, which
\* asks for no token, names tenants to anybody but sends no event; and what a
\* reply counts may be other tenants' (GET /tenants/{id}/stats).
RepliesAreScoped ==
    /\ reply.user = Nobody => reply.events = {} /\ reply.counted = {}
    /\ reply.user # Nobody =>
          \A t \in reply.about : /\ idle[reply.user] <= Ttl
                                 /\ lapsed[<<reply.user, t>>] <= Ttl
                                 /\ reply.events \subseteq {t}

\* When an account is closed or a role taken away for good, it stops working
\* for good, though no route looks at the tables.
AccessEnds ==
    \A u \in Users, t \in Tenants :
        \/ <>[](users[u] # "active")
        \/ <>[](<<u, t>> \notin roles)
        => <>[](\A k \in tokens : k.user = u /\ Valid(k) => t \notin k.tenants)
=============================================================================
