------------------------------ MODULE UsersPage ------------------------------
(* The user administration of the management console                       *)
(* (src/web/src/components/UserManagementView.jsx): the rows of the users, *)
(* their buttons, and the three forms that create a user, adjust a quota   *)
(* and reset a password.  The signed-in administrator works on rows that   *)
(* may be out of date; the server decides by its own rules                 *)
(* (src/internal/controlplane).  A request is decided (UserAnswer) and its *)
(* answer handled by the page in two steps.                                *)
EXTENDS Integers, FiniteSets

CONSTANTS Accounts,        \* the names there are or may be
          Root,            \* the built-in administrator, "admin"
          Me,              \* adminUser
          Short,           \* a name or a password that is too short
          UserGroups, DefaultUserGroup,
          Gone, NoUser,
          Registered,      \* the accounts the server may hold when the page opens
          MaxUserSteps

Roles == {"admin", "user"}
Records == [role : Roles, status : {"active", "locked"}, group : UserGroups, balance : Int]

ASSUME UsersAssumption ==
    /\ Root \in Accounts /\ Me \in Accounts /\ Short \notin Accounts
    /\ NoUser \notin Accounts
    /\ DefaultUserGroup \in UserGroups
    /\ Gone \notin Records
    /\ Registered \subseteq [Accounts -> Records \cup {Gone}]

VARIABLES
    accounts,      \* the server's: name -> record
    users,         \* the rows the page holds
    roleFilter, searchFilter,
    addForm,       \* [open, name, password, role]
    quotaForm,     \* [target, mode, value]
    resetForm,     \* [target, password]
    creating, adjustingQuota, resetting,
    loadingUsers,  \* a list was asked for after the last one was answered
    userCalls,     \* requests sent and not yet handled
    userSteps      \* what the user did so far, bounded by MaxUserSteps

userVars == <<accounts, users, roleFilter, searchFilter, addForm, quotaForm, resetForm,
              creating, adjustingQuota, resetting, loadingUsers, userCalls, userSteps>>

userForms == <<addForm, quotaForm, resetForm, creating, adjustingQuota, resetting>>
userTable == <<users, roleFilter, searchFilter>>

Existing(table) == {a \in Accounts : table[a] # Gone}

EmptyAddForm == [open |-> FALSE, name |-> Short, password |-> Short, role |-> "user"]
NoQuotaForm == [target |-> NoUser, mode |-> "delta", value |-> 50]
NoResetForm == [target |-> NoUser, password |-> Short]

\* What is asked of the server: op, the account and the new values, of which
\* op takes its own.
Values == [role |-> "user", status |-> "active", group |-> DefaultUserGroup, balance |-> 10, password |-> Short]
UserCall(op, name, values) ==
    [op |-> op, name |-> name, values |-> values, served |-> FALSE, ok |-> FALSE,
     rows |-> [a \in Accounts |-> Gone]]
ListUsers == UserCall("list", NoUser, Values)

\* The start of fetchUsers.
fetchUsers(calls) ==
    /\ loadingUsers' = TRUE
    /\ userCalls' = calls \cup {ListUsers}

\* What succeeded fetches the list anew.
FetchAfter(c) ==
    IF c.ok THEN fetchUsers(userCalls \ {c})
            ELSE userCalls' = userCalls \ {c} /\ UNCHANGED loadingUsers

UsersInit ==
    /\ accounts \in Registered
    /\ users = [a \in Accounts |-> Gone]
    /\ roleFilter = "all" /\ searchFilter = NoUser
    /\ addForm = EmptyAddForm
    /\ quotaForm = NoQuotaForm
    /\ resetForm = NoResetForm
    /\ creating = FALSE /\ adjustingQuota = FALSE /\ resetting = FALSE
    /\ loadingUsers = TRUE
    /\ userCalls = {ListUsers}
    /\ userSteps = 0

-----------------------------------------------------------------------------
(* The server.                                                             *)

\* UpdateUserStatus, UpdateUserRole, DeleteUser: what they refuse, whoever is
\* served; the claims are those of Me.
Allowed(c) ==
    CASE c.op = "status" -> c.name # Root
      [] c.op = "role"   -> /\ c.name = Root => Me = Root
                            /\ c.name = Me => c.values.role = "admin"
      [] c.op = "delete" -> c.name \notin {Me, Root}
      [] c.op = "create" -> c.name # Short /\ c.values.password # Short
      [] OTHER           -> TRUE

\* What cannot be known by the page: the account is gone, or the name taken.
Possible(c) ==
    CASE c.op = "create" -> accounts[c.name] = Gone
      [] c.op = "list"   -> TRUE
      [] OTHER           -> accounts[c.name] # Gone

Changed(record, c) ==
    CASE c.op = "status"  -> [record EXCEPT !.status = c.values.status]
      [] c.op = "role"    -> [record EXCEPT !.role = c.values.role]
      [] c.op = "group"   -> [record EXCEPT !.group = c.values.group]
      [] c.op = "delta"   -> [record EXCEPT !.balance = @ + c.values.balance]
      [] c.op = "exact"   -> [record EXCEPT !.balance = c.values.balance]
      [] c.op = "delete"  -> Gone
      [] c.op = "create"  -> [role |-> c.values.role, status |-> c.values.status,
                              group |-> c.values.group, balance |-> c.values.balance]
      [] OTHER            -> record

\* The server carries the request out or refuses it; the request or its
\* answer may be lost.
UserAnswer ==
    \E c \in userCalls, done, ok \in BOOLEAN :
        /\ ~c.served
        /\ done => Allowed(c) /\ Possible(c)
        /\ ok => done
        /\ accounts' = IF done /\ c.op # "list" THEN [accounts EXCEPT ![c.name] = Changed(@, c)]
                                                ELSE accounts
        /\ userCalls' = (userCalls \ {c})
                \cup {[c EXCEPT !.served = TRUE, !.ok = ok, !.rows = accounts']}
        /\ UNCHANGED <<userTable, userForms, loadingUsers, userSteps>>

\* The end of fetchUsers: a refused or lost list leaves the rows alone, and
\* any list that ends lowers the flag, another one asked for since or not.
UsersArrive ==
    \E c \in userCalls :
        /\ c.served /\ c.op = "list"
        /\ users' = IF c.ok THEN c.rows ELSE users
        /\ loadingUsers' = FALSE
        /\ userCalls' = userCalls \ {c}
        /\ UNCHANGED <<accounts, roleFilter, searchFilter, userForms, userSteps>>

\* The answer of a button of a row.
RowReturns ==
    \E c \in userCalls :
        /\ c.served /\ c.op \in {"status", "role", "group", "delete"}
        /\ FetchAfter(c)
        /\ UNCHANGED <<accounts, userTable, userForms, userSteps>>

\* The end of handleCreateUser: success closes the form and empties it.
CreateReturns ==
    \E c \in userCalls :
        /\ c.served /\ c.op = "create"
        /\ creating' = FALSE
        /\ addForm' = IF c.ok THEN EmptyAddForm ELSE addForm
        /\ FetchAfter(c)
        /\ UNCHANGED <<accounts, userTable, quotaForm, resetForm, adjustingQuota, resetting, userSteps>>

\* The end of handleAdjustQuota: success closes the form that is open then.
QuotaReturns ==
    \E c \in userCalls :
        /\ c.served /\ c.op \in {"delta", "exact"}
        /\ adjustingQuota' = FALSE
        /\ quotaForm' = IF c.ok THEN [quotaForm EXCEPT !.target = NoUser] ELSE quotaForm
        /\ FetchAfter(c)
        /\ UNCHANGED <<accounts, userTable, addForm, resetForm, creating, resetting, userSteps>>

\* The end of handleResetPassword.
ResetReturns ==
    \E c \in userCalls :
        /\ c.served /\ c.op = "password"
        /\ resetting' = FALSE
        /\ resetForm' = IF c.ok THEN NoResetForm ELSE resetForm
        /\ userCalls' = userCalls \ {c}
        /\ UNCHANGED <<accounts, userTable, addForm, quotaForm, creating, adjustingQuota, loadingUsers,
                       userSteps>>

-----------------------------------------------------------------------------
(* The page.                                                               *)

\* A form covers the page.
PageInReach == ~addForm.open /\ quotaForm.target = NoUser /\ resetForm.target = NoUser

filteredUsers ==
    {u \in Existing(users) : /\ roleFilter \in {"all", users[u].role}
                             /\ searchFilter \in {NoUser, u}}

\* A button sends its request.
Ask(c) ==
    /\ userCalls' = userCalls \cup {c}
    /\ UNCHANGED <<accounts, userTable, loadingUsers>>

\* The button is disabled while the flag is up.
RefreshUsers ==
    /\ PageInReach /\ ~loadingUsers
    /\ fetchUsers(userCalls)
    /\ UNCHANGED <<accounts, userTable, userForms>>

FilterUsers ==
    /\ PageInReach
    /\ roleFilter' \in {"all"} \cup Roles
    /\ searchFilter' \in {NoUser} \cup Accounts
    /\ UNCHANGED <<accounts, users, userForms, loadingUsers, userCalls>>

\* A row's buttons that are not disabled.
isSysAdmin(u) == u = Root
isCurrentAdmin(u) == u = Me
Offered(op) ==
    {u \in filteredUsers :
        /\ PageInReach
        /\ op = "status" => ~isSysAdmin(u)
        /\ op \in {"role", "delete"} => ~isSysAdmin(u) /\ ~isCurrentAdmin(u)}

\* The state of the row decides what the button asks for, not the server's.
handleToggleStatus ==
    \E u \in Offered("status") :
        /\ u # Root
        /\ Ask(UserCall("status", u, [Values EXCEPT
                 !.status = IF users[u].status = "locked" THEN "active" ELSE "locked"]))
        /\ UNCHANGED userForms

handleUpdateRole ==
    \E u \in Offered("role"), role \in Roles :
        /\ u # Root
        /\ u = Me => role = "admin"
        /\ Ask(UserCall("role", u, [Values EXCEPT !.role = role]))
        /\ UNCHANGED userForms

\* A group of the list, or one typed into the prompt.
GroupChoice == UserGroups

handleUpdateGroup ==
    \E u \in Offered("group"), g \in GroupChoice :
        /\ Ask(UserCall("group", u, [Values EXCEPT !.group = g]))
        /\ UNCHANGED userForms

handleDeleteUser ==
    \E u \in Offered("delete") :
        /\ u \notin {Root, Me}
        /\ Ask(UserCall("delete", u, Values))
        /\ UNCHANGED userForms

\* "New user": a password is generated.
OpenAdd ==
    /\ PageInReach
    /\ addForm' = [addForm EXCEPT !.open = TRUE, !.password = "generated"]
    /\ UNCHANGED <<accounts, userTable, quotaForm, resetForm, creating, adjustingQuota, resetting,
                   loadingUsers, userCalls>>

TypeUser ==
    /\ addForm.open
    /\ \E name \in Accounts \cup {Short}, password \in {Short, "typed"}, role \in Roles :
           addForm' = [addForm EXCEPT !.name = name, !.password = password, !.role = role]
    /\ UNCHANGED <<accounts, userTable, quotaForm, resetForm, creating, adjustingQuota, resetting,
                   loadingUsers, userCalls>>

CreateOffered == addForm.open /\ ~creating

\* Without the check of the password.
handleCreateUserUnchecked ==
    /\ CreateOffered
    /\ addForm.name # Short
    /\ creating' = TRUE
    /\ Ask(UserCall("create", addForm.name,
                    [Values EXCEPT !.role = addForm.role, !.password = addForm.password]))
    /\ UNCHANGED <<addForm, quotaForm, resetForm, adjustingQuota, resetting>>

handleCreateUser ==
    /\ CreateOffered
    /\ addForm.name # Short /\ addForm.password # Short
    /\ creating' = TRUE
    /\ Ask(UserCall("create", addForm.name,
                    [Values EXCEPT !.role = addForm.role, !.password = addForm.password]))
    /\ UNCHANGED <<addForm, quotaForm, resetForm, adjustingQuota, resetting>>

OpenQuota ==
    \E u \in Offered("quota") :
        /\ quotaForm' = [NoQuotaForm EXCEPT !.target = u]
        /\ UNCHANGED <<accounts, userTable, addForm, resetForm, creating, adjustingQuota, resetting,
                   loadingUsers, userCalls>>

\* The mode buttons, the presets and "set to zero".
TypeQuota ==
    /\ quotaForm.target # NoUser
    /\ \E mode \in {"delta", "exact"}, value \in {0, 10} :
           quotaForm' = [quotaForm EXCEPT !.mode = mode, !.value = value]
    /\ UNCHANGED <<accounts, userTable, addForm, resetForm, creating, adjustingQuota, resetting,
                   loadingUsers, userCalls>>

\* The button of the form not disabled.
AdjustAlways == quotaForm.target # NoUser
AdjustOffered == quotaForm.target # NoUser /\ ~adjustingQuota

handleAdjustQuota ==
    /\ AdjustOffered
    /\ adjustingQuota' = TRUE
    /\ Ask(UserCall(quotaForm.mode, quotaForm.target, [Values EXCEPT !.balance = quotaForm.value]))
    /\ UNCHANGED <<addForm, quotaForm, resetForm, creating, resetting>>

OpenReset ==
    \E u \in Offered("password") :
        /\ resetForm' = [target |-> u, password |-> "generated"]
        /\ UNCHANGED <<accounts, userTable, addForm, quotaForm, creating, adjustingQuota, resetting,
                   loadingUsers, userCalls>>

TypePassword ==
    /\ resetForm.target # NoUser
    /\ resetForm' = [resetForm EXCEPT !.password = Short]
    /\ UNCHANGED <<accounts, userTable, addForm, quotaForm, creating, adjustingQuota, resetting,
                   loadingUsers, userCalls>>

ResetOffered == resetForm.target # NoUser /\ ~resetting

handleResetPassword ==
    /\ ResetOffered
    /\ resetForm.password # Short
    /\ resetting' = TRUE
    /\ Ask(UserCall("password", resetForm.target, [Values EXCEPT !.password = resetForm.password]))
    /\ UNCHANGED <<addForm, quotaForm, resetForm, creating, adjustingQuota>>

\* Cancel, in whichever form is open; what it has asked for goes on.
CloseForm ==
    /\ ~PageInReach
    /\ addForm' = [addForm EXCEPT !.open = FALSE]
    /\ quotaForm' = [quotaForm EXCEPT !.target = NoUser]
    /\ resetForm' = [resetForm EXCEPT !.target = NoUser]
    /\ UNCHANGED <<accounts, userTable, creating, adjustingQuota, resetting,
                   loadingUsers, userCalls>>

UserGesture ==
    \/ RefreshUsers \/ FilterUsers
    \/ handleToggleStatus \/ handleUpdateRole \/ handleUpdateGroup \/ handleDeleteUser
    \/ OpenAdd \/ TypeUser \/ handleCreateUser
    \/ OpenQuota \/ TypeQuota \/ handleAdjustQuota
    \/ OpenReset \/ TypePassword \/ handleResetPassword
    \/ CloseForm

UsersNext ==
    \/ UserAnswer \/ UsersArrive \/ RowReturns \/ CreateReturns \/ QuotaReturns \/ ResetReturns
    \/ /\ userSteps < MaxUserSteps
       /\ userSteps' = userSteps + 1
       /\ UserGesture

UsersSpec == UsersInit /\ [][UsersNext]_userVars

-----------------------------------------------------------------------------
UsersTypeOK ==
    /\ accounts \in [Accounts -> Records \cup {Gone}]
    /\ users \in [Accounts -> Records \cup {Gone}]
    /\ roleFilter \in {"all"} \cup Roles /\ searchFilter \in {NoUser} \cup Accounts
    /\ addForm.name \in Accounts \cup {Short}
    /\ quotaForm \in [target : Accounts \cup {NoUser}, mode : {"delta", "exact"}, value : Int]
    /\ resetForm.target \in Accounts \cup {NoUser}
    /\ {creating, adjustingQuota, resetting, loadingUsers} \subseteq BOOLEAN
    /\ userSteps \in Nat

\* The guards of the page are those of the server: whatever rows it shows,
\* no request leaves it that the server refuses for whom it concerns (it may
\* still come too late for the account, or find the name taken).
AsksOnlyWhatIsAllowed == \A c \in userCalls : Allowed(c)

\* While a quota is being adjusted nothing else is sent for a quota, whichever
\* form has been closed and opened meanwhile: the answer that re-enables the
\* button is always the answer of the last adjustment.
OneAdjustmentAtATime ==
    LET adjusting == {c \in userCalls : c.op \in {"delta", "exact"}}
    IN  Cardinality(adjusting) = IF adjustingQuota THEN 1 ELSE 0
=============================================================================
