------------------------- MODULE TenantAccessProofs -------------------------
(***************************************************************************)
(* Proofs about TenantAccess.  The two invariants are not inductive: what  *)
(* a login puts into a token is as fresh as the tables are when it reads   *)
(* them, which is HistoryIsFresh.                                          *)
(***************************************************************************)
EXTENDS TenantAccess, TLAPS

\* A role that is held has not lapsed, and who is active is not idle; nor is
\* who is logging in, though he may have been deactivated since login() read
\* his row.
HistoryIsFresh ==
    /\ \A p \in roles : lapsed[p] = 0
    /\ \A u \in Users : users[u] = "active" \/ u \in logins => idle[u] = 0

Inv == TypeOK /\ TokensAge /\ RepliesAreScoped /\ HistoryIsFresh

-----------------------------------------------------------------------------

\* The initial state: no role, no token, no reply.
LEMMA InitInv == Init => Inv
<1> SUFFICES ASSUME Init PROVE Inv
  OBVIOUS
<1> USE AccessAssumption DEF Init
<1>1. TypeOK
  BY DEF TypeOK, Column, Reply, NoReply
<1>2. TokensAge /\ RepliesAreScoped
  BY DEF TokensAge, RepliesAreScoped, NoReply
<1>3. HistoryIsFresh
  BY DEF HistoryIsFresh
<1> QED BY <1>1, <1>2, <1>3 DEF Inv

\* When no history grows, no token becomes too old.
LEMMA TokensStayAged ==
    ASSUME Inv, NEW k \in tokens,
           idle' \in [Users -> 0 .. Ttl + 1], lapsed' \in [Users \X Tenants -> 0 .. Ttl + 1],
           \A u \in Users : idle'[u] <= idle[u],
           \A p \in Users \X Tenants : lapsed'[p] <= lapsed[p]
    PROVE  Valid(k) => /\ idle'[k.user] + k.ttl <= Ttl
                       /\ \A t \in k.tenants : lapsed'[<<k.user, t>>] + k.ttl <= Ttl
<1> SUFFICES ASSUME Valid(k)
             PROVE  /\ idle'[k.user] + k.ttl <= Ttl
                    /\ \A t \in k.tenants : lapsed'[<<k.user, t>>] + k.ttl <= Ttl
  OBVIOUS
<1> USE AccessAssumption
<1>1. k.user \in Users /\ k.tenants \subseteq Tenants /\ k.ttl \in Int
  BY DEF Inv, TypeOK, Token
<1>2. idle'[k.user] + k.ttl <= Ttl
  <2>1. idle[k.user] + k.ttl <= Ttl
    BY DEF Inv, TokensAge
  <2>2. idle[k.user] \in Int /\ idle'[k.user] \in Int
    BY <1>1 DEF Inv, TypeOK
  <2> QED BY <1>1, <2>1, <2>2
<1>3. ASSUME NEW t \in k.tenants PROVE lapsed'[<<k.user, t>>] + k.ttl <= Ttl
  <2>1. lapsed[<<k.user, t>>] + k.ttl <= Ttl
    BY DEF Inv, TokensAge
  <2>2. <<k.user, t>> \in Users \X Tenants
    BY <1>1, <1>3
  <2>3. lapsed[<<k.user, t>>] \in Int /\ lapsed'[<<k.user, t>>] \in Int
    BY <2>2 DEF Inv, TypeOK
  <2>4. lapsed'[<<k.user, t>>] <= lapsed[<<k.user, t>>]
    BY <2>2
  <2> QED BY <1>1, <2>1, <2>3, <2>4
<1> QED BY <1>2, <1>3

\* What a step on the tables does to the history: none of it grows.
LEMMA TablesChangeInv ==
    ASSUME Inv, TablesChange,
           rows' \in [Tenants -> Column], users' \in [Users -> Column],
           roles' \in SUBSET (Users \X Tenants)
    PROVE  Inv'
<1> USE AccessAssumption
<1>0. /\ idle \in [Users -> 0 .. Ttl + 1] /\ lapsed \in [Users \X Tenants -> 0 .. Ttl + 1]
      /\ UNCHANGED <<logins, tokens>> /\ reply' = NoReply
  BY DEF Inv, TypeOK, TablesChange
<1>1. /\ lapsed' \in [Users \X Tenants -> 0 .. Ttl + 1]
      /\ \A p \in Users \X Tenants : lapsed'[p] <= lapsed[p]
      /\ \A p \in roles' : lapsed'[p] = 0
  <2>1. lapsed' = [p \in Users \X Tenants |-> IF p \in roles' THEN 0 ELSE lapsed[p]]
    BY DEF TablesChange
  <2> QED BY <1>0, <2>1
<1>2. /\ idle' \in [Users -> 0 .. Ttl + 1]
      /\ \A u \in Users : idle'[u] <= idle[u]
      /\ \A u \in Users : users'[u] = "active" \/ idle[u] = 0 => idle'[u] = 0
  <2>1. idle' = [u \in Users |-> IF users'[u] = "active" THEN 0 ELSE idle[u]]
    BY DEF TablesChange
  <2> QED BY <1>0, <2>1
<1>3. TypeOK'
  <2>1. reply' \in Reply
    BY <1>0 DEF Reply, NoReply
  <2>2. tokens' \in SUBSET Token /\ logins' \in SUBSET Users
    BY <1>0 DEF Inv, TypeOK
  <2> QED BY <1>1, <1>2, <2>1, <2>2 DEF TypeOK
<1>4. TokensAge'
  BY <1>0, <1>1, <1>2, TokensStayAged DEF TokensAge, Valid
<1>5. RepliesAreScoped'
  BY <1>0 DEF RepliesAreScoped, NoReply
<1>6. HistoryIsFresh'
  <2>1. \A u \in Users : users'[u] = "active" \/ u \in logins' => idle'[u] = 0
    BY <1>0, <1>2 DEF Inv, HistoryIsFresh
  <2> QED BY <1>1, <2>1 DEF HistoryIsFresh
<1> QED BY <1>3, <1>4, <1>5, <1>6 DEF Inv

\* The operator's actions and seed() keep the tables well-typed.
LEMMA OperatorInv == Inv /\ Operator => Inv'
<1> SUFFICES ASSUME Inv, Operator PROVE Inv'
  OBVIOUS
<1> USE AccessAssumption DEF Column
<1>0. TypeOK
  BY DEF Inv
<1>1. ASSUME NEW c \in Configs, Seed(c) PROVE Inv'
  <2> DEFINE new == {t \in Tenants : c[t] # "unlisted" /\ rows[t] = "absent"}
  <2>1. c \in [Tenants -> Listings] /\ \A t \in new : c[t] # "nopolicy"
    BY <1>1 DEF Seed
  <2>2. rows' = [t \in Tenants |-> IF t \in new THEN c[t] ELSE rows[t]]
    BY <1>1 DEF Seed
  <2>3. \A t \in new : c[t] \in Column
    BY <2>1 DEF Listings
  <2>4. rows' \in [Tenants -> Column]
    BY <1>0, <2>2, <2>3 DEF TypeOK
  <2>5. users' \in [Users -> Column] /\ roles' \in SUBSET (Users \X Tenants)
    <3>1. CASE users[Admin] = "absent"
      <4>1. /\ users' = [users EXCEPT ![Admin] = "active"]
            /\ roles' = roles \cup {<<Admin, t>> : t \in {s \in Tenants : rows'[s] = "active"}}
        BY <1>1, <3>1 DEF Seed
      <4>2. {<<Admin, t>> : t \in {s \in Tenants : rows'[s] = "active"}} \subseteq Users \X Tenants
        OBVIOUS
      <4> QED BY <1>0, <4>1, <4>2 DEF TypeOK
    <3>2. CASE users[Admin] # "absent"
      BY <1>0, <1>1, <3>2 DEF TypeOK, Seed
    <3> QED BY <3>1, <3>2
  <2>6. TablesChange
    BY <1>1 DEF Seed
  <2> QED BY <2>4, <2>5, <2>6, TablesChangeInv
<1>2. ASSUME NEW u \in Users, SetUser(u) PROVE Inv'
  BY <1>0, <1>2, TablesChangeInv DEF SetUser, TypeOK
<1>3. ASSUME NEW u \in Users, NEW t \in Tenants, Grant(u, t) \/ Revoke(u, t) PROVE Inv'
  BY <1>0, <1>3, TablesChangeInv DEF Grant, Revoke, TypeOK
<1>4. ASSUME NEW t \in Tenants, DropTenant(t) PROVE Inv'
  BY <1>0, <1>4, TablesChangeInv DEF DropTenant, TypeOK
<1> QED BY <1>1, <1>2, <1>3, <1>4 DEF Operator

\* A step that leaves the tables, the tokens and the history alone keeps the
\* invariant if what it replies is right and who logs in is active.
LEMMA QuietInv ==
    ASSUME Inv, UNCHANGED <<tables, history>>, tokens' \subseteq tokens,
           logins' \in SUBSET Users, \A u \in logins' : u \in logins \/ users[u] = "active",
           reply' \in Reply, RepliesAreScoped'
    PROVE  Inv'
<1> USE AccessAssumption
<1>1. UNCHANGED <<rows, users, roles, idle, lapsed>>
  BY DEF tables, history
<1>2. TypeOK'
  BY <1>1 DEF Inv, TypeOK
<1>3. TokensAge'
  BY <1>1 DEF Inv, TokensAge, Valid
<1>4. HistoryIsFresh'
  BY <1>1 DEF Inv, HistoryIsFresh
<1> QED BY <1>2, <1>3, <1>4 DEF Inv

\* No reply is a good reply.
LEMMA SilenceIsScoped == reply' = NoReply => reply' \in Reply /\ RepliesAreScoped'
BY DEF Reply, NoReply, RepliesAreScoped

\* login() lets an active user in; a token is made of roles that are held
\* when they are read.
LEMMA LoginInv ==
    ASSUME Inv, NEW u \in Users, Login(u) \/ LoginRoles(u) \/ LoginFails(u)
    PROVE  Inv'
<1> USE AccessAssumption
<1>1. CASE Login(u) \/ LoginFails(u)
  <2>1. UNCHANGED <<tables, history, tokens>> /\ reply' = NoReply
    BY <1>1 DEF Login, LoginFails, tables, history
  <2>2. logins' \in SUBSET Users /\ \A v \in logins' : v \in logins \/ users[v] = "active"
    BY <1>1 DEF Login, LoginFails, Inv, TypeOK
  <2> QED BY <2>1, <2>2, QuietInv, SilenceIsScoped
<1>2. CASE LoginRoles(u)
  <2> DEFINE new == [user |-> u, tenants |-> {t \in Tenants : <<u, t>> \in roles}, ttl |-> Ttl]
  <2>1. new \in Token
    BY DEF Token
  <2>2. tokens' \subseteq tokens \cup {new}
    BY <1>2 DEF LoginRoles
  <2>3. /\ UNCHANGED <<rows, users, roles, idle, lapsed>> /\ reply' = NoReply
        /\ u \in logins /\ logins' = logins \ {u}
    BY <1>2 DEF LoginRoles, tables, history
  <2>4. TypeOK'
    BY <2>1, <2>2, <2>3 DEF Inv, TypeOK, Reply, NoReply
  <2>5. TokensAge'
    <3> SUFFICES ASSUME NEW k \in tokens', Valid(k)
                 PROVE  /\ idle[k.user] + k.ttl <= Ttl
                        /\ \A t \in k.tenants : lapsed[<<k.user, t>>] + k.ttl <= Ttl
      BY <2>3 DEF TokensAge, Valid
    <3>1. CASE k \in tokens
      BY <3>1 DEF Inv, TokensAge
    <3>2. CASE k = new
      <4>1. idle[u] = 0
        BY <2>3 DEF Inv, HistoryIsFresh
      <4>2. \A t \in k.tenants : lapsed[<<u, t>>] = 0
        BY <3>2 DEF Inv, HistoryIsFresh
      <4> QED BY <3>2, <4>1, <4>2
    <3> QED BY <2>2, <3>1, <3>2
  <2>6. RepliesAreScoped'
    BY <2>3, SilenceIsScoped
  <2>7. HistoryIsFresh'
    BY <2>3 DEF Inv, HistoryIsFresh
  <2> QED BY <2>4, <2>5, <2>6, <2>7 DEF Inv
<1> QED BY <1>1, <1>2

\* A response needs a valid token that names the tenant, and TokensAge says
\* how old the account and the role behind it can be.
LEMMA RespondInv ==
    ASSUME Inv, NEW k \in tokens, NEW t \in Tenants, NEW events \in SUBSET {t},
           NEW counted \in SUBSET Tenants, Respond(k, t, events, counted)
    PROVE  Inv'
<1> USE AccessAssumption
<1>1. UNCHANGED <<tables, history, logins, tokens>> /\ UNCHANGED <<idle, lapsed>>
  BY DEF Respond, tables, history
<1>2. k \in Token /\ Valid(k) /\ t \in k.tenants
  BY DEF Inv, TypeOK, Respond, GetCurrentUser, EnsureTenantAccess
<1>3. reply' = [user |-> k.user, about |-> {t}, events |-> events, counted |-> counted]
  BY DEF Respond
<1>4. reply' \in Reply
  BY <1>2, <1>3 DEF Token, Reply
<1>5. RepliesAreScoped'
  <2>1. idle[k.user] + k.ttl <= Ttl /\ lapsed[<<k.user, t>>] + k.ttl <= Ttl
    BY <1>2 DEF Inv, TokensAge
  <2>2. k.user \in Users /\ k.ttl \in Int /\ k.ttl >= 0
    BY <1>2 DEF Token, Valid
  <2>3. idle[k.user] \in Int /\ lapsed[<<k.user, t>>] \in Int
    BY <2>2 DEF Inv, TypeOK
  <2>4. idle[k.user] <= Ttl /\ lapsed[<<k.user, t>>] <= Ttl
    BY <2>1, <2>2, <2>3
  <2>5. k.user # Nobody
    BY <2>2
  <2> QED BY <1>1, <1>3, <2>4, <2>5 DEF RepliesAreScoped
<1> QED BY <1>1, <1>4, <1>5, QuietInv DEF Inv, TypeOK

\* GET /tenants names tenants, and nothing else.
LEMMA ListTenantsInv == Inv /\ ListTenants => Inv'
<1> SUFFICES ASSUME Inv, ListTenants PROVE Inv'
  OBVIOUS
<1>1. UNCHANGED <<tables, history, logins, tokens>>
  BY DEF ListTenants, tables, history
<1>2. reply' = [user |-> Nobody, about |-> {t \in Tenants : rows[t] = "active"},
                events |-> {}, counted |-> {}]
  BY DEF ListTenants
<1>3. reply' \in Reply /\ RepliesAreScoped'
  BY <1>2 DEF Reply, RepliesAreScoped
<1> QED BY <1>1, <1>3, QuietInv DEF Inv, TypeOK

\* In a tick a history grows by one at most, and a valid token ages by one.
LEMMA TickInv == Inv /\ Tick => Inv'
<1> SUFFICES ASSUME Inv, Tick PROVE Inv'
  OBVIOUS
<1> USE AccessAssumption
<1>0. /\ idle \in [Users -> 0 .. Ttl + 1] /\ lapsed \in [Users \X Tenants -> 0 .. Ttl + 1]
      /\ UNCHANGED <<rows, users, roles, logins>> /\ reply' = NoReply /\ logins = {}
  BY DEF Inv, TypeOK, Tick, TimePasses, tables
<1>1. /\ lapsed' \in [Users \X Tenants -> 0 .. Ttl + 1]
      /\ \A p \in Users \X Tenants : /\ lapsed'[p] <= lapsed[p] + 1
                                     /\ p \in roles => lapsed'[p] = lapsed[p]
  <2>1. lapsed' = [p \in Users \X Tenants |-> IF p \in roles THEN lapsed[p] ELSE Later(lapsed[p])]
    BY DEF Tick, TimePasses
  <2> QED BY <1>0, <2>1 DEF Later
<1>2. /\ idle' \in [Users -> 0 .. Ttl + 1]
      /\ \A u \in Users : /\ idle'[u] <= idle[u] + 1
                          /\ users[u] = "active" => idle'[u] = idle[u]
  <2>1. idle' = [u \in Users |-> IF users[u] = "active" THEN idle[u] ELSE Later(idle[u])]
    BY DEF Tick, TimePasses
  <2> QED BY <1>0, <2>1 DEF Later
<1>3. ASSUME NEW n \in tokens'
      PROVE  n \in Token /\ (Valid(n) => \E k \in tokens : /\ Valid(k) /\ n.ttl = k.ttl - 1
                                                           /\ n.user = k.user /\ n.tenants = k.tenants)
  <2>1. PICK k \in tokens : n = [k EXCEPT !.ttl = IF Valid(k) THEN @ - 1 ELSE @]
    BY DEF Tick
  <2>2. k \in Token
    BY DEF Inv, TypeOK
  <2> QED BY <2>1, <2>2 DEF Token, Valid
<1>4. TypeOK'
  <2>1. reply' \in Reply
    BY <1>0, SilenceIsScoped
  <2>2. tokens' \in SUBSET Token
    BY <1>3
  <2> QED BY <1>0, <1>1, <1>2, <2>1, <2>2 DEF Inv, TypeOK
<1>5. TokensAge'
  <2> SUFFICES ASSUME NEW n \in tokens', Valid(n)
               PROVE  /\ idle'[n.user] + n.ttl <= Ttl
                      /\ \A t \in n.tenants : lapsed'[<<n.user, t>>] + n.ttl <= Ttl
    BY DEF TokensAge, Valid
  <2>1. PICK k \in tokens : Valid(k) /\ n.ttl = k.ttl - 1 /\ n.user = k.user /\ n.tenants = k.tenants
    BY <1>3
  <2>2. k.user \in Users /\ k.tenants \subseteq Tenants /\ k.ttl \in Int
    BY <2>1 DEF Inv, TypeOK, Token
  <2>3. idle'[n.user] + n.ttl <= Ttl
    <3>1. idle[k.user] + k.ttl <= Ttl
      BY <2>1 DEF Inv, TokensAge
    <3>2. idle[k.user] \in Int /\ idle'[k.user] \in Int
      BY <1>0, <1>2, <2>2
    <3> QED BY <1>2, <2>1, <2>2, <3>1, <3>2
  <2>4. ASSUME NEW t \in n.tenants PROVE lapsed'[<<n.user, t>>] + n.ttl <= Ttl
    <3>1. <<k.user, t>> \in Users \X Tenants
      BY <2>1, <2>2, <2>4
    <3>2. lapsed[<<k.user, t>>] + k.ttl <= Ttl
      BY <2>1, <2>4 DEF Inv, TokensAge
    <3>3. lapsed[<<k.user, t>>] \in Int /\ lapsed'[<<k.user, t>>] \in Int
      BY <1>0, <1>1, <3>1
    <3>4. lapsed'[<<k.user, t>>] <= lapsed[<<k.user, t>>] + 1
      BY <1>1, <3>1
    <3> QED BY <2>1, <2>2, <3>2, <3>3, <3>4
  <2> QED BY <2>3, <2>4
<1>6. RepliesAreScoped'
  BY <1>0, SilenceIsScoped
<1>7. HistoryIsFresh'
  <2>1. roles \subseteq Users \X Tenants
    BY DEF Inv, TypeOK
  <2>2. \A p \in roles' : lapsed'[p] = 0
    BY <1>0, <1>1, <2>1 DEF Inv, HistoryIsFresh
  <2>3. \A u \in Users : users'[u] = "active" \/ u \in logins' => idle'[u] = 0
    BY <1>0, <1>2 DEF Inv, HistoryIsFresh
  <2> QED BY <2>2, <2>3 DEF HistoryIsFresh
<1> QED BY <1>4, <1>5, <1>6, <1>7 DEF Inv

-----------------------------------------------------------------------------

LEMMA StepInv == Inv /\ [Next]_vars => Inv'
<1> SUFFICES ASSUME Inv, [Next]_vars PROVE Inv'
  OBVIOUS
<1>1. CASE Operator
  BY <1>1, OperatorInv
<1>2. CASE \E u \in Users : Login(u) \/ LoginRoles(u) \/ LoginFails(u)
  BY <1>2, LoginInv
<1>3. CASE \E k \in tokens, t \in Tenants : Request(k, t)
  <2>1. PICK k \in tokens, t \in Tenants : Request(k, t)
    BY <1>3
  <2>2. Content[t] \subseteq Tenants
    BY AccessAssumption
  <2>3. \/ Respond(k, t, Content[t] \cap {t}, Content[t] \cap {t})
        \/ Respond(k, t, {}, Content[t])
        \/ Respond(k, t, {}, {})
    BY <2>1 DEF Request, SearchLogs, TenantStats, AliasState, TenantMeta
  <2> QED BY <2>2, <2>3, RespondInv
<1>4. CASE ListTenants
  BY <1>4, ListTenantsInv
<1>5. CASE Tick
  BY <1>5, TickInv
<1>6. CASE UNCHANGED vars
  BY <1>6 DEF vars, Inv, TypeOK, TokensAge, RepliesAreScoped, HistoryIsFresh, Valid
<1> QED BY <1>1, <1>2, <1>3, <1>4, <1>5, <1>6 DEF Next

LEMMA SpecInv == Spec => []Inv
BY InitInv, StepInv, PTL DEF Spec

\* No token outlives its user's account, or the roles it was made from, by
\* more than what was left of its life (security.py, create_access_token),
\* for every lifetime and every number of users, tenants and tokens.
THEOREM TokensAlwaysAge == Spec => []TokensAge
BY SpecInv, PTL DEF Inv

\* Whom a route with a token tells anything of a tenant, he was active and had
\* a role for it within the life of one token, and is sent events of that
\* tenant only; a reply without a token has neither events nor numbers.
THEOREM RepliesStayScoped == Spec => []RepliesAreScoped
BY SpecInv, PTL DEF Inv

\* The tables, the tokens and the replies keep their types.
THEOREM TypeCorrect == Spec => []TypeOK
BY SpecInv, PTL DEF Inv
=============================================================================
