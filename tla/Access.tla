------------------------------- MODULE Access -------------------------------
(***************************************************************************)
(* Who may act (modules/identity, app/login, app/lib/session): sign-in     *)
(* behind the rate limiter of one process, sessions bound to a user, and   *)
(* requests that check a permission first and open their transaction       *)
(* later.  Memberships and accounts change in between.                     *)
(***************************************************************************)
EXTENDS Roles, Naturals, FiniteSets

CONSTANTS
    Nobody,
    Users,
    Staffed,    \* the roles that members are given here
    Sessions,   \* session rows that may ever be created
    Logins,     \* sign-in requests that may overlap
    Requests,   \* calls of server actions that may overlap
    Limit       \* RATE_LIMITS.login.limit

ASSUME StaffHasARole == Staffed \subseteq ROLES /\ Nobody \notin ROLES
ASSUME NobodyIsNobody == Nobody \notin Users /\ Limit \in Nat

VARIABLES
    matter,     \* the pair of acts this behaviour looks at
    member,     \* the role of each user's membership, or Nobody
    active,     \* users whose account is active
    session,    \* [user, role, live] or Nobody: role is the one at sign-in
    window,     \* attempts counted per email, 0 without a window
    login,      \* [user, right, role] or Nobody, while the password is verified
    request,    \* [user, role, act] or Nobody, between the check and the transaction
    done        \* act -> who carried it out on the record, and as what

accessVars == <<matter, member, active, session, window, login, request, done>>

AccessInit ==
    /\ matter \in SeparatedActs
    /\ member \in [Users -> Staffed]
    /\ active = Users
    /\ session = [s \in Sessions |-> Nobody]
    /\ window = [u \in Users |-> 0]
    /\ login = [l \in Logins |-> Nobody]
    /\ request = [q \in Requests |-> Nobody]
    /\ done = [act \in matter |-> Nobody]

-----------------------------------------------------------------------------
(* Sign-in                                                                 *)

\* The first attempt opens the window, and a full one admits nobody.
consume(u) == window[u] < Limit /\ window' = [window EXCEPT ![u] = @ + 1]

\* The account and its membership are read, and the verification of the password, right
\* or wrong, takes a while.
signIn(l, u) ==
    /\ login[l] = Nobody
    /\ consume(u)
    /\ \E right \in BOOLEAN :
          login' = [login EXCEPT ![l] =
              [user |-> u, right |-> right, role |-> IF u \in active THEN member[u] ELSE Nobody]]
    /\ UNCHANGED <<matter, member, active, session, request, done>>

refuseLogin(l) ==
    /\ login[l] # Nobody
    /\ ~login[l].right \/ login[l].role = Nobody
    /\ login' = [login EXCEPT ![l] = Nobody]
    /\ UNCHANGED <<matter, member, active, session, window, request, done>>

\* What was read decides, and a success forgives the window.
acceptLogin(l) ==
    /\ login[l] # Nobody /\ login[l].right /\ login[l].role # Nobody
    /\ \E s \in Sessions :
          /\ session[s] = Nobody
          /\ session' = [session EXCEPT ![s] = [user |-> login[l].user, role |-> login[l].role,
                                               live |-> TRUE]]
    /\ window' = [window EXCEPT ![login[l].user] = 0]
    /\ login' = [login EXCEPT ![l] = Nobody]
    /\ UNCHANGED <<matter, member, active, request, done>>

\* The window ends, or the process restarts.
forget(u) ==
    /\ window[u] > 0
    /\ window' = [window EXCEPT ![u] = 0]
    /\ UNCHANGED <<matter, member, active, session, login, request, done>>

\* signOut, or twelve hours.
revokeSession(s) ==
    /\ session[s] # Nobody /\ session[s].live
    /\ session' = [session EXCEPT ![s].live = FALSE]
    /\ UNCHANGED <<matter, member, active, window, login, request, done>>

-----------------------------------------------------------------------------
(* Requests                                                                *)

\* The role comes from the membership, on every request.
resolveSession(s) ==
    IF session[s] # Nobody /\ session[s].live /\ session[s].user \in active
    THEN member[session[s].user] ELSE Nobody

beginAction(q, s) ==
    /\ request[q] = Nobody
    /\ resolveSession(s) # Nobody
    /\ \E act \in matter :
          /\ can(resolveSession(s), requirePermission[act])
          /\ request' = [request EXCEPT ![q] = [user |-> session[s].user, act |-> act,
                                                role |-> resolveSession(s)]]
    /\ UNCHANGED <<matter, member, active, session, window, login, done>>

\* The operation checks no permission of its own.
performAction(q) ==
    /\ request[q] # Nobody
    /\ done' = [done EXCEPT ![request[q].act] =
                    [user |-> request[q].user, role |-> request[q].role]]
    /\ request' = [request EXCEPT ![q] = Nobody]
    /\ UNCHANGED <<matter, member, active, session, window, login>>

\* Accounts and memberships are administered outside the application.
administer(u) ==
    /\ \/ \E role \in Staffed \cup {Nobody} : member' = [member EXCEPT ![u] = role] /\ UNCHANGED active
       \/ active' = active \ {u} /\ UNCHANGED member
    /\ UNCHANGED <<matter, session, window, login, request, done>>

AccessNext ==
    \/ \E u \in Users : forget(u) \/ administer(u) \/ \E l \in Logins : signIn(l, u)
    \/ \E l \in Logins : acceptLogin(l) \/ refuseLogin(l)
    \/ \E s \in Sessions : revokeSession(s) \/ \E q \in Requests : beginAction(q, s)
    \/ \E q \in Requests : performAction(q)

AccessSpec == AccessInit /\ [][AccessNext]_accessVars

-----------------------------------------------------------------------------
(* Properties                                                              *)

AccessTypeOK ==
    /\ member \in [Users -> Staffed \cup {Nobody}] /\ active \subseteq Users
    /\ \A s \in Sessions : session[s] = Nobody \/ session[s].user \in Users
    /\ window \in [Users -> 0..Limit]
    /\ \A q \in Requests : request[q] = Nobody \/ request[q].act \in matter

\* platform/rbac: submission and confirmation, counting and correcting, handing out
\* and delivering are in different hands.  Nobody but the owner does both, unless a
\* change of role in between made them somebody else.
SeparateHands ==
    \A a, b \in matter :
        a # b /\ done[a] # Nobody /\ done[a] = done[b] => done[a].role = "OWNER_ADMIN"

=============================================================================
