------------------------------ MODULE UsersPanel ------------------------------
(***************************************************************************)
(* The users as an admin looks them up (users-panel.tsx of admin-web,      *)
(* GET /admin/users of apps/api/src/main.ts) while they sign in to the     *)
(* apps, which gives them roles.  The admin asks again before an earlier   *)
(* answer has come; answers may overtake each other, or fail, as they do   *)
(* once the admin's session has ended.                                     *)
(***************************************************************************)
EXTENDS FiniteSets

CONSTANTS
    Accounts,       \* users that may sign in; a search finds the one it names
    Loads           \* requests that may be in flight together

VARIABLES
    roles,          \* UserRole rows by user; none before the first sign-in
    load,           \* requests: the filter they carry, then the answer
    listed,         \* users: the rows that are shown
    selected,       \* the row whose detail is shown
    shownFor        \* history: the filter of the request that filled the list

usersVars == <<roles, load, listed, selected, shownFor>>

RoleCodes == {"CLIENT", "DRIVER"}
Anything == "ANY"
NoLoad == [op |-> "idle", filter |-> [q |-> Anything, role |-> Anything], users |-> {}]
Nobody == [id |-> "NONE", roles |-> {}]

UsersPanelInit ==
    /\ roles = [u \in Accounts |-> {}]
    /\ load = [r \in Loads |-> NoLoad]
    /\ listed = {} /\ selected = Nobody
    /\ shownFor = NoLoad.filter

\* A sign-in to an app adds the app's role and removes none.
SignIn(u, role) ==
    /\ role \notin roles[u]
    /\ roles' = [roles EXCEPT ![u] = @ \cup {role}]
    /\ UNCHANGED <<load, listed, selected, shownFor>>

-----------------------------------------------------------------------------
\* loadUsers sends q and role as they are at the moment, which the admin sets at
\* any time; the list stays until an answer comes.
LoadUsers(r) == \E q \in Accounts \cup {Anything}, role \in RoleCodes \cup {Anything} :
    /\ load[r] = NoLoad
    /\ load' = [load EXCEPT ![r] = [NoLoad EXCEPT !.op = "ask", !.filter = [q |-> q, role |-> role]]]
    /\ UNCHANGED <<roles, listed, selected, shownFor>>

\* GET /admin/users: the query's conditions, all of them.
\* (mutant) the search drops the condition on the role
FoundByName(f) == {u \in Accounts : roles[u] # {} /\ f.q \in {Anything, u}}
Found(f) == {u \in Accounts : roles[u] # {} /\ f.q \in {Anything, u} /\ f.role \in {Anything} \cup roles[u]}

AdminUsers(r) ==
    /\ load[r].op = "ask"
    /\ load' = [load EXCEPT ![r].op = "answer",
           ![r].users = {[id |-> u, roles |-> roles[u]] : u \in Found(load[r].filter)}]
    /\ UNCHANGED <<roles, listed, selected, shownFor>>

\* The first row is selected, whatever was selected before.
ShowUsers(r) ==
    /\ load[r].op = "answer"
    /\ listed' = load[r].users
    /\ selected' \in IF load[r].users = {} THEN {Nobody} ELSE load[r].users
    /\ shownFor' = load[r].filter
    /\ load' = [load EXCEPT ![r] = NoLoad]
    /\ UNCHANGED <<roles>>

\* request_failed: nothing is shown of it.
LoadFails(r) ==
    /\ load[r] # NoLoad
    /\ load' = [load EXCEPT ![r] = NoLoad]
    /\ UNCHANGED <<roles, listed, selected, shownFor>>

SelectUser == \E row \in listed \ {selected} :
    /\ selected' = row
    /\ UNCHANGED <<roles, load, listed, shownFor>>

UsersPanelNext ==
    \/ \E u \in Accounts, role \in RoleCodes : SignIn(u, role)
    \/ SelectUser
    \/ \E r \in Loads : LoadUsers(r) \/ AdminUsers(r) \/ ShowUsers(r) \/ LoadFails(r)

UsersPanelSpec == UsersPanelInit /\ [][UsersPanelNext]_usersVars

-----------------------------------------------------------------------------
(* The detail that is shown is that of a row of the list, never of a list  *)
(* that was replaced, whichever order the answers come in; and every row   *)
(* of the list is a user who matches the filter that the list was asked    *)
(* for, also by the roles that are shown beside it.                        *)
DetailIsListed ==
    /\ IF listed = {} THEN selected = Nobody ELSE selected \in listed
    /\ \A row \in listed : /\ row.roles \subseteq roles[row.id]
                           /\ shownFor.q \in {Anything, row.id}
                           /\ shownFor.role \in {Anything} \cup row.roles
=============================================================================
