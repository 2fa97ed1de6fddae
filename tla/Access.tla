------------------------------- MODULE Access -------------------------------
(***************************************************************************)
(* Who may do what at the API: logins and their throttle, bearer tokens,   *)
(* people who sign on through an OIDC provider and get a row with their    *)
(* first token, the middleware that resolves the user of each request      *)
(* once, and the administration of users while requests are on their way.  *)
(* Times are ages, so that only the number of attempts needs a bound.      *)
(***************************************************************************)
EXTENDS Integers, Sequences

CONSTANTS
  Users,        \* people, by mail address; everyone logs in from one network address
  Lifetime,     \* jwt_access_token_expire_minutes
  LoginMax,     \* _LOGIN_MAX
  Window,       \* _LOGIN_WINDOW_S
  MaxAttempts   \* bound on the attempts within a window

Roles == {"viewer", "operator", "investigator", "admin"}
Writers == Roles \ {"viewer"}

VARIABLES
  users,     \* per row of users: role, active, whether it has a password; or Absent
  tokens,    \* tokens in force: the user, the role written in it, the time it has left
  request,   \* per user: the request the middleware has let through, or none
  hits,      \* _login_hits: ages of the attempts within the window
  written    \* history: per write that took effect, what its user has been meanwhile

vars == <<users, tokens, request, hits, written>>

NoRequest == [write |-> FALSE, on |-> FALSE, been |-> {}]
Absent == [role |-> "none", active |-> FALSE, password |-> FALSE]
May(u) == users[u].active /\ users[u].role \in Writers

Init ==
  /\ users \in [Users -> [role : Roles, active : {TRUE}, password : {TRUE}] \cup {Absent}]
  /\ tokens = {}
  /\ request = [u \in Users |-> NoRequest]
  /\ hits = << >>
  /\ written = {}

\* _login_rate_limited: the attempts refused count, too.
Recent(ages) == SelectSeq(ages, LAMBDA a : a < Window)
Limited(ages) == Len(ages) > LoginMax

\* An attempt with the right password; a wrong one differs in that it gives no token.
\* login does not look at is_active: the token of a deactivated user is refused later.
Login(u) ==
  /\ users[u].password
  /\ Len(hits) < MaxAttempts
  /\ hits' = Append(hits, 0)
  /\ IF Limited(hits')
     THEN UNCHANGED tokens
     ELSE tokens' = tokens \cup {[sub |-> u, role |-> users[u].role, left |-> Lifetime]}
  /\ UNCHANGED <<users, request, written>>

\* user_from_token: the row decides, not the token.
RoleInToken(k) == k.role     \* mutant
RoleOf(k) == users[k.sub].role

Admitted(u, write) ==
  request' = [request EXCEPT ![u] = [write |-> write, on |-> TRUE, been |-> {May(u)'}]]

\* rbac: an active user with a token in force; for a write, one with a writer's role.
Admit(k, write) ==
  /\ users[k.sub].active
  /\ write => RoleOf(k) \in Writers
  /\ ~request[k.sub].on
  /\ UNCHANGED <<users, tokens, hits, written>>
  /\ Admitted(k.sub, write)

\* _user_from_oidc: the first token of someone without a row makes one with the role
\* the provider claims, also when the request is then refused.  The provider's later
\* claims are not looked at.
Provisioned(u, claim) ==
  IF users[u] = Absent THEN [role |-> claim, active |-> TRUE, password |-> FALSE] ELSE users[u]

AdmitSso(u, claim, write) ==
  /\ ~request[u].on
  /\ users' = [users EXCEPT ![u] = Provisioned(u, claim)]
  /\ IF users'[u].active /\ (write => users'[u].role \in Writers)
     THEN Admitted(u, write)
     ELSE UNCHANGED request
  /\ UNCHANGED <<tokens, hits, written>>

\* The handler runs to its end without another look at the user.
Handle(u) ==
  /\ request[u].on
  /\ request' = [request EXCEPT ![u] = NoRequest]
  /\ written' = IF request[u].write THEN written \cup {request[u].been} ELSE written
  /\ UNCHANGED <<users, tokens, hits>>

\* create_user and patch_user, by an administrator who is not one of Users.
Create(u, role) ==
  /\ users[u] = Absent
  /\ users' = [users EXCEPT ![u] = [role |-> role, active |-> TRUE, password |-> TRUE]]
  /\ UNCHANGED <<tokens, request, hits, written>>

Patch(u, role, active) ==
  /\ users[u] # Absent
  /\ users' = [users EXCEPT ![u].role = role, ![u].active = active]
  /\ request' = [request EXCEPT ![u].been =
                   IF request[u].on THEN @ \cup {active /\ role \in Writers} ELSE @]
  /\ UNCHANGED <<tokens, hits, written>>

Older(ages) == Recent([i \in DOMAIN ages |-> ages[i] + 1])

Tick ==
  /\ hits' = Older(hits)
  /\ tokens' = {[k EXCEPT !.left = @ - 1] : k \in {x \in tokens : x.left > 1}}
  /\ UNCHANGED <<users, request, written>>

Next ==
  \/ \E u \in Users : Login(u)
  \/ \E k \in tokens, write \in BOOLEAN : Admit(k, write)
  \/ \E u \in Users, claim \in Roles, write \in BOOLEAN : AdmitSso(u, claim, write)
  \/ \E u \in Users : Handle(u)
  \/ \E u \in Users, role \in Roles : Create(u, role)
  \/ \E u \in Users, role \in Roles, active \in BOOLEAN : Patch(u, role, active)
  \/ Tick

Spec == Init /\ [][Next]_vars
-----------------------------------------------------------------------------
\* auth.py:110-131, app.py:236-262.  A write takes effect only of a user who was
\* active and allowed to write at some moment of the request, whatever the token
\* says and however old it is: taking a role away holds from the next request on.
WritersWereAllowed == \A been \in written : TRUE \in been
=============================================================================
