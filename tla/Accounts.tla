------------------------------ MODULE Accounts ------------------------------
(***************************************************************************)
(* Accounts, sessions, API tokens and workspace memberships (core/auth.py, *)
(* core/control.py, the users and sessions of core/db.py, the routes of    *)
(* auth_routes.py and scim_routes.py), on the identity store of a server   *)
(* with several workspaces.  A request is several transactions and keeps   *)
(* what it has read in task[t].  An account has a name, which can be used  *)
(* again, and an id, which cannot.  Who may call is left out: an           *)
(* administrator or the identity provider can, at any time.                *)
(***************************************************************************)
EXTENDS Naturals

CONSTANTS
    Usernames,
    Passwords,      \* what somebody may type
    Slugs,          \* workspaces
    Tasks,          \* requests in flight
    MaxFailures,    \* THROTTLE_FAILURES
    Offers,         \* what a behaviour may ask for: sets of Kinds
    MaxIds          \* bound: accounts ever created

Kinds == {"password", "sso", "token", "member", "workspace"}

ASSUME AccountsAssumption ==
    MaxFailures \in Nat \ {0} /\ MaxIds \in Nat /\ Offers \subseteq SUBSET Kinds

VARIABLES
    account,     \* name -> account, or NoOne
    ids,         \* accounts created so far
    credentials, \* sessions and API tokens: the id, and what was typed to get it
    workspaces,
    members,     \* slug -> name -> membership, or NotAMember
    throttle,    \* name -> failed logins, and the lock of this process
    task,
    offered,     \* what this behaviour may ask for; no step changes it
    ever         \* history: id -> the passwords it has had

accountVars == <<account, ids, credentials, workspaces, members, throttle, task, offered, ever>>

NoOne == [id |-> 0]
NotAMember == [id |-> 0, raced |-> FALSE]
FreshThrottle == [failures |-> 0, locked |-> "no"]
NoTask == [pc |-> "idle"]

\* An SSO or SCIM account has a random password that nobody can type.
Unguessable == "random"

AccountsInit ==
    /\ account = [n \in Usernames |-> NoOne]
    /\ ids = 0
    /\ credentials = {}
    /\ offered \in Offers
    /\ workspaces = Slugs
    /\ members = [s \in Slugs |-> [n \in Usernames |-> NotAMember]]
    /\ throttle = [n \in Usernames |-> FreshThrottle]
    /\ task = [t \in Tasks |-> NoTask]
    /\ ever = [i \in 1..MaxIds |-> {}]

TaskGoes(t, to) == task' = [task EXCEPT ![t] = to]

Holds(id, name) == account[name] # NoOne /\ account[name].id = id

\* The INSERT of an account: a name is unique, so of two requests one raises.
Inserted(name, password) ==
    /\ account[name] = NoOne
    /\ ids < MaxIds
    /\ ids' = ids + 1
    /\ account' = [account EXCEPT ![name] =
                     [id |-> ids + 1, password |-> password, disabled |-> FALSE]]
    /\ ever' = [ever EXCEPT ![ids + 1] = {password}]

CreateUser(name, password) ==
    /\ Inserted(name, password)
    /\ UNCHANGED <<credentials, workspaces, members, throttle, task>>

\* update_user writes by name, whichever account has it by now.
SetPassword(name, password) ==
    /\ account[name] # NoOne
    /\ account' = [account EXCEPT ![name].password = password]
    /\ ever' = [ever EXCEPT ![account[name].id] = @ \cup {password}]
    /\ UNCHANGED <<ids, credentials, workspaces, members, throttle, task>>

SetDisabled(name) ==
    /\ account[name] # NoOne
    /\ account' = [account EXCEPT ![name].disabled = ~@]
    /\ UNCHANGED <<ids, credentials, workspaces, members, throttle, task, ever>>

\* remove_member_everywhere.
OfNobody(name) == [s \in Slugs |-> [members[s] EXCEPT ![name] = NotAMember]]

\* ControlStore.delete_user: the memberships go first, in a transaction of
\* their own, then the account with its sessions and tokens.
DropMemberships(t, name) ==
    /\ task[t] = NoTask
    /\ account[name] # NoOne
    /\ members' = OfNobody(name)
    /\ TaskGoes(t, [pc |-> "delete", name |-> name])
    /\ UNCHANGED <<account, ids, credentials, workspaces, throttle, ever>>

DeleteUser(t) ==
    /\ task[t].pc = "delete"
    /\ LET name == task[t].name
       IN  /\ credentials' = {c \in credentials : ~Holds(c.user, name)}
           /\ account' = [account EXCEPT ![name] = NoOne]
    /\ TaskGoes(t, NoTask)
    /\ UNCHANGED <<ids, workspaces, members, throttle, ever>>

\* AuthService.authenticate: the throttle is read first, and a lock that has
\* run out is cleared.
Attempt(t, name, given) ==
    /\ task[t] = NoTask
    /\ throttle' = [throttle EXCEPT ![name] = IF @.locked = "over" THEN FreshThrottle ELSE @]
    /\ TaskGoes(t, [pc |-> "user", name |-> name, given |-> given])
    /\ UNCHANGED <<account, ids, credentials, workspaces, members, ever>>

ReadUser(t) ==
    /\ task[t].pc = "user"
    /\ TaskGoes(t, [pc |-> "verify", name |-> task[t].name, given |-> task[t].given,
                    user |-> account[task[t].name]])
    /\ UNCHANGED <<account, ids, credentials, workspaces, members, throttle, ever>>

\* The hash is read by name, in a transaction after the one of the user.
Verified(t) ==
    LET user == task[t].user
        now == account[task[t].name]
    IN  user # NoOne /\ now # NoOne /\ now.password = task[t].given /\ ~user.disabled

RecordFailure(name) ==
    LET old == throttle[name]
        failures == IF old.failures < MaxFailures THEN old.failures + 1 ELSE MaxFailures
    IN  [failures |-> failures,
         locked |-> IF failures = MaxFailures /\ old.locked = "no" THEN "yes" ELSE old.locked]

Verify(t) ==
    /\ task[t].pc = "verify"
    /\ IF Verified(t)
       THEN /\ throttle' = [throttle EXCEPT ![task[t].name] = FreshThrottle]
            /\ TaskGoes(t, [pc |-> "session", name |-> task[t].name, user |-> task[t].user.id,
                          given |-> task[t].given])
       ELSE /\ throttle' = [throttle EXCEPT ![task[t].name] = RecordFailure(task[t].name)]
            /\ TaskGoes(t, NoTask)
    /\ UNCHANGED <<account, ids, credentials, workspaces, members, ever>>

LockRunsOut(name) ==
    /\ throttle[name].locked = "yes"
    /\ throttle' = [throttle EXCEPT ![name].locked = "over"]
    /\ UNCHANGED <<account, ids, credentials, workspaces, members, task, ever>>

\* provision_oidc_user: find or create; a disabled account is turned away.
Provision(t, name) ==
    /\ task[t] = NoTask
    /\ \/ /\ account[name] # NoOne
          /\ ~account[name].disabled
          /\ TaskGoes(t, [pc |-> "session", name |-> name, user |-> account[name].id,
                          given |-> Unguessable])
          /\ UNCHANGED <<account, ids, ever>>
       \/ /\ Inserted(name, Unguessable)
          /\ TaskGoes(t, [pc |-> "session", name |-> name, user |-> ids + 1, given |-> Unguessable])
    /\ UNCHANGED <<credentials, workspaces, members, throttle>>

\* A mutant: a session for whoever has the name by now.
OpenedByName(t) == account[task[t].name].id

\* AuthService.login: the session names the id that was read.
OpenedFor(t) == task[t].user

OpenSession(t) ==
    /\ task[t].pc = "session"
    /\ credentials' = credentials \cup {[user |-> OpenedFor(t), given |-> task[t].given]}
    /\ TaskGoes(t, NoTask)
    /\ UNCHANGED <<account, ids, workspaces, members, throttle, ever>>

\* A logout, an expiry (an expired session is purged when any is resolved), or
\* the revocation of a token.
Revoke(c) ==
    /\ credentials' = credentials \ {c}
    /\ UNCHANGED <<account, ids, workspaces, members, throttle, task, ever>>

\* resolve_session: nobody, if the account is gone or disabled.
ActsAs(c, name) == Holds(c.user, name) /\ ~account[name].disabled

AskForToken(t, c, name) ==
    /\ task[t] = NoTask
    /\ ActsAs(c, name)
    /\ TaskGoes(t, [pc |-> "token", user |-> c.user, given |-> c.given])
    /\ UNCHANGED <<account, ids, credentials, workspaces, members, throttle, ever>>

CreateToken(t) ==
    /\ task[t].pc = "token"
    /\ credentials' = credentials \cup {[user |-> task[t].user, given |-> task[t].given]}
    /\ TaskGoes(t, NoTask)
    /\ UNCHANGED <<account, ids, workspaces, members, throttle, ever>>

\* set_member: workspace and account are checked, and the row is written by
\* name when the change has been classified and filed.
AskForMember(t, slug, name) ==
    /\ task[t] = NoTask
    /\ slug \in workspaces
    /\ account[name] # NoOne
    /\ TaskGoes(t, [pc |-> "member", slug |-> slug, name |-> name, id |-> account[name].id])
    /\ UNCHANGED <<account, ids, credentials, workspaces, members, throttle, ever>>

\* raced: the account was deleted meanwhile, or is being deleted.
SetMember(t) ==
    /\ task[t].pc = "member"
    /\ LET name == task[t].name
           raced == \/ ~Holds(task[t].id, name)
                    \/ \E u \in Tasks : task[u].pc = "delete" /\ task[u].name = name
       IN  members' = [members EXCEPT ![task[t].slug][name] =
                         [id |-> task[t].id, raced |-> raced]]
    /\ TaskGoes(t, NoTask)
    /\ UNCHANGED <<account, ids, credentials, workspaces, throttle, ever>>

RemoveMember(slug, name) ==
    /\ slug \in workspaces
    /\ members' = [members EXCEPT ![slug][name] = NotAMember]
    /\ UNCHANGED <<account, ids, credentials, workspaces, throttle, task, ever>>

\* Unregistering a workspace leaves its files; creating it again shows them.
CreateWorkspace(slug) ==
    /\ slug \notin workspaces
    /\ workspaces' = workspaces \cup {slug}
    /\ UNCHANGED <<account, ids, credentials, members, throttle, task, ever>>

DeleteWorkspace(slug) ==
    /\ slug \in workspaces
    /\ workspaces' = workspaces \ {slug}
    /\ members' = [members EXCEPT ![slug] = [n \in Usernames |-> NotAMember]]
    /\ UNCHANGED <<account, ids, credentials, throttle, task, ever>>

\* A request dies between two of its transactions.
DropTask(t) ==
    /\ task[t] # NoTask
    /\ TaskGoes(t, NoTask)
    /\ UNCHANGED <<account, ids, credentials, workspaces, members, throttle, ever>>

AccountsNext ==
    /\ \/ \E n \in Usernames, p \in Passwords : CreateUser(n, p)
       \/ \E n \in Usernames : SetDisabled(n)
       \/ \E c \in credentials : Revoke(c)
       \/ \E t \in Tasks : \/ \E n \in Usernames : DropMemberships(t, n)
                           \/ DeleteUser(t) \/ OpenSession(t) \/ DropTask(t)
       \/ /\ "password" \in offered
          /\ \/ \E n \in Usernames : LockRunsOut(n)
             \/ \E n \in Usernames, p \in Passwords :
                   SetPassword(n, p) \/ \E t \in Tasks : Attempt(t, n, p)
             \/ \E t \in Tasks : ReadUser(t) \/ Verify(t)
       \/ /\ "sso" \in offered
          /\ \E t \in Tasks, n \in Usernames : Provision(t, n)
       \/ /\ "token" \in offered
          /\ \E t \in Tasks : \/ \E c \in credentials, n \in Usernames : AskForToken(t, c, n)
                              \/ CreateToken(t)
       \/ /\ "member" \in offered
          /\ \/ \E t \in Tasks : \/ \E s \in Slugs, n \in Usernames : AskForMember(t, s, n)
                                 \/ SetMember(t)
             \/ \E s \in Slugs, n \in Usernames : RemoveMember(s, n)
       \/ /\ "workspace" \in offered
          /\ \E s \in Slugs : CreateWorkspace(s) \/ DeleteWorkspace(s)
    /\ UNCHANGED offered

AccountsSpec == AccountsInit /\ [][AccountsNext]_accountVars

-----------------------------------------------------------------------------
\* Whoever acts as an account by password has given a password of that very
\* account, never one of an account that had its name before or has it since,
\* whatever is created, disabled or deleted while the login runs (auth.py).
SessionsAreEarned ==
    \A c \in credentials, n \in Usernames :
        (ActsAs(c, n) /\ c.given # Unguessable) => c.given \in ever[c.user]

\* An account that takes the name of a deleted one does not find its
\* memberships, even if the deletion died half-way; those a request wrote while
\* the account was being deleted are the exception (control.py, delete_user).
MembershipsAreOwn ==
    \A slug \in Slugs, n \in Usernames :
        LET row == members[slug][n]
        IN  (row # NotAMember /\ ~row.raced /\ account[n] # NoOne) => Holds(row.id, n)

\* A name is not an account: whoever has it now gets by neither the credentials
\* nor the memberships of who had it before.
AccountsAreOwn == SessionsAreEarned /\ MembershipsAreOwn
=============================================================================
