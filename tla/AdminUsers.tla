------------------------------ MODULE AdminUsers ------------------------------
(***************************************************************************)
(* The administrators of the proxy and their sessions: the handlers of     *)
(* internal/adminapi/users.go and auth.go over the repositories            *)
(* internal/store/users.go and sessions.go, and single sign-on             *)
(* (internal/adminauth/oidc.go).  A handler reads a row, works on its copy *)
(* and writes every column back, each statement a transaction of its own;  *)
(* requests of any number of browsers interleave between the statements.   *)
(*                                                                         *)
(* Lifetimes of sessions and the lock-out after failed sign-ins are left   *)
(* out, so a refused sign-in changes nothing.                              *)
(***************************************************************************)
EXTENDS Naturals, FiniteSets

CONSTANTS
    Users,
    Roles,          \* "admin" among them
    OIDCUsers,      \* the users that come from the identity provider
    AllowSignup,    \* unknown users of the provider are provisioned
    Founder,        \* the administrator the deployment starts with
    Requests,       \* requests in flight at once
    MaxChanges,     \* bound: changing requests
    MaxFaults       \* bound: statements that fail

ASSUME UsersAssumption ==
    /\ "admin" \in Roles
    /\ OIDCUsers \subseteq Users /\ Founder \in Users \ OIDCUsers
    /\ AllowSignup \in BOOLEAN
    /\ {MaxChanges, MaxFaults} \subseteq Nat
    /\ IsFiniteSet(Requests)

VARIABLES
    users,      \* admin_users
    sessions,   \* admin_sessions
    req,        \* the requests in flight
    changes, faults,
    overlapped  \* two requests have been in flight at once

vars == <<users, sessions, req, changes, faults, overlapped>>

(* era counts, for the properties, the changes after which the user's sessions
   have to end.  weak: the password hash has outdated parameters. *)
User == [role : Roles, disabled : BOOLEAN, password : Nat, weak : BOOLEAN, era : Nat]
Gone == [gone |-> TRUE]
Session == [user : Users, era : Nat]

NewUser(role) == [role |-> role, disabled |-> FALSE, password |-> 0, weak |-> FALSE, era |-> 0]
Exists(u) == users[u] # Gone
IsAdmin(row) == row # Gone /\ row.role = "admin" /\ ~row.disabled

NoRequest == [pc |-> "idle"]

(* user is the copy the request works on, before what it read. *)
Request(pc, u, before, user) == [pc |-> pc, id |-> u, before |-> before, user |-> user]

Init ==
    /\ \E weak \in BOOLEAN :
          users = [u \in Users |-> IF u = Founder THEN [NewUser("admin") EXCEPT !.weak = weak]
                                   ELSE Gone]
    /\ sessions = {}
    /\ req = [r \in Requests |-> NoRequest]
    /\ changes = 0
    /\ faults = 0
    /\ overlapped = FALSE

At(r, pc) == req[r].pc = pc
Idle(r) == At(r, "idle")
Goes(r, next) == req' = [req EXCEPT ![r] = next]
Finished(r) == Goes(r, NoRequest)
Proceeds(r, pc) == req' = [req EXCEPT ![r].pc = pc]
Change == changes < MaxChanges /\ changes' = changes + 1

-----------------------------------------------------------------------------
(* Signing in *)

(* Authenticate, with the right password; a wrong one changes nothing. *)
Login(r, u) ==
    /\ Idle(r)
    /\ Exists(u) /\ u \notin OIDCUsers
    /\ ~users[u].disabled
    /\ Goes(r, Request(IF users[u].weak THEN "rehash" ELSE "issue", u, users[u], users[u]))
    /\ UNCHANGED <<users, sessions, changes, faults>>

(* Update writes every column of the copy. *)
Updated(u, copy, era) == [users EXCEPT ![u] = [copy EXCEPT !.era = era]]

AfterRehash(r) == Proceeds(r, IF At(r, "rehash") THEN "issue" ELSE "update")

(* rehash writes back the copy the password was checked on. *)
Rehash(r) ==
    LET q == req[r] IN
    /\ req[r].pc \in {"rehash", "rehash_own"}
    /\ users' = IF Exists(q.id)
                THEN Updated(q.id, [q.before EXCEPT !.weak = FALSE], users[q.id].era) ELSE users
    /\ AfterRehash(r)
    /\ UNCHANGED <<sessions, changes, faults>>

(* Mutant: a session for a user that was deleted. *)
IssueToAnyone(r) ==
    /\ At(r, "issue")
    /\ sessions' = sessions \cup {[user |-> req[r].id, era |-> req[r].before.era]}
    /\ Finished(r)
    /\ UNCHANGED <<users, changes, faults>>

(* Issue: the foreign key of the session refuses a user that was deleted. *)
Issue(r) ==
    LET q == req[r] IN
    /\ At(r, "issue")
    /\ sessions' = IF Exists(q.id)
                   THEN sessions \cup {[user |-> q.id, era |-> q.before.era]} ELSE sessions
    /\ Finished(r)
    /\ UNCHANGED <<users, changes, faults>>

(* resolveUser: the provider says which role the user has. *)
SingleSignOn(r, u, role) ==
    /\ Idle(r)
    /\ u \in OIDCUsers
    /\ Change
    /\ \/ /\ Exists(u)
          /\ ~users[u].disabled
          /\ Goes(r, Request("sync", u, users[u], [users[u] EXCEPT !.role = role]))
          /\ UNCHANGED users
       \/ /\ ~Exists(u)
          /\ AllowSignup
          /\ users' = [users EXCEPT ![u] = NewUser(role)]
          /\ Goes(r, Request("issue", u, NewUser(role), NewUser(role)))
    /\ UNCHANGED <<sessions, faults>>

(* Whether a write, compared with the copy it started from, has to end the
   user's sessions. *)
EndsSessions(before, user) ==
    before.role # user.role \/ user.disabled \/ before.password # user.password

EraAfter(q) == IF EndsSessions(q.before, q.user) THEN users[q.id].era + 1 ELSE users[q.id].era

(* syncExisting: the sign-in that changed the role counts as made after it. *)
Sync(r) ==
    LET q == req[r] IN
    /\ At(r, "sync")
    /\ IF Exists(q.id)
       THEN /\ users' = Updated(q.id, q.user, EraAfter(q))
            /\ Goes(r, [q EXCEPT !.pc = IF q.before.role # q.user.role
                                        THEN "revoke_sso" ELSE "issue",
                                 !.before.era = EraAfter(q)])
       ELSE users' = users /\ Finished(r)
    /\ UNCHANGED <<sessions, changes, faults>>

Without(u) == {s \in sessions : s.user # u}

Logout(s) ==
    /\ ~users[s.user].disabled
    /\ sessions' = sessions \ {s}
    /\ UNCHANGED <<users, req, changes, faults>>

-----------------------------------------------------------------------------
(* Managing users *)

(* requireSession and require(PermManageUsers): the role is the one in the
   database now. *)
Administers(s) == IsAdmin(users[s.user])

CreateUser(r, s, u, role) ==
    /\ Idle(r) /\ Administers(s)
    /\ ~Exists(u) /\ u \notin OIDCUsers
    /\ users' = [users EXCEPT ![u] = NewUser(role)]
    /\ Change
    /\ UNCHANGED <<sessions, req, faults>>

(* Mutant: only the role counts, not disabling the account. *)
LosingAdminByRole(before, user) == before.role = "admin" /\ user.role # "admin"

LosingAdmin(before, user) == before.role = "admin" /\ (user.role # "admin" \/ user.disabled)

(* handleUpdateUser up to the check: the request names a role, a state, both or
   neither, when it only renames; the row is written back all the same. *)
UpdateUser(r, s, u, role, disabled) ==
    LET user == [users[u] EXCEPT !.role = role, !.disabled = disabled] IN
    /\ Idle(r) /\ Administers(s)
    /\ Exists(u)
    /\ Goes(r, Request(IF LosingAdmin(users[u], user) THEN "another" ELSE "update",
                       u, users[u], user))
    /\ Change
    /\ UNCHANGED <<users, sessions, faults>>

(* handleDeleteUser up to the check: nobody deletes themselves. *)
DeleteUser(r, s, u) ==
    /\ Idle(r) /\ Administers(s)
    /\ Exists(u) /\ u # s.user
    /\ Goes(r, Request(IF IsAdmin(users[u]) THEN "another_delete" ELSE "delete",
                       u, users[u], users[u]))
    /\ Change
    /\ UNCHANGED <<users, sessions, faults>>

AnotherAdmin(u) == \E v \in Users \ {u} : IsAdmin(users[v])

(* requireAnotherAdmin lists the users; the write is a later statement. *)
RequireAnotherAdmin(r) ==
    /\ req[r].pc \in {"another", "another_delete"}
    /\ IF AnotherAdmin(req[r].id)
       THEN Proceeds(r, IF At(r, "another") THEN "update" ELSE "delete")
       ELSE Finished(r)
    /\ UNCHANGED <<users, sessions, changes, faults>>

Update(r) ==
    LET q == req[r] IN
    /\ At(r, "update")
    /\ users' = IF Exists(q.id) THEN Updated(q.id, q.user, EraAfter(q)) ELSE users
    /\ IF Exists(q.id) /\ EndsSessions(q.before, q.user)
       THEN Proceeds(r, "revoke") ELSE Finished(r)
    /\ UNCHANGED <<sessions, changes, faults>>

(* The sessions go with the user. *)
Delete(r) ==
    /\ At(r, "delete")
    /\ users' = [users EXCEPT ![req[r].id] = Gone]
    /\ sessions' = Without(req[r].id)
    /\ Finished(r)
    /\ UNCHANGED <<changes, faults>>

NewPassword(row) == [row EXCEPT !.password = changes + 1, !.weak = FALSE]

(* Mutant: a new password enables the account. *)
SetPasswordEnabling(r, s, u) ==
    /\ Idle(r) /\ Administers(s)
    /\ Exists(u) /\ u \notin OIDCUsers
    /\ Goes(r, Request("update", u, users[u], [NewPassword(users[u]) EXCEPT !.disabled = FALSE]))
    /\ Change
    /\ UNCHANGED <<users, sessions, faults>>

(* handleSetUserPassword: by an administrator. *)
SetPassword(r, s, u) ==
    /\ Idle(r) /\ Administers(s)
    /\ Exists(u) /\ u \notin OIDCUsers
    /\ Goes(r, Request("update", u, users[u], NewPassword(users[u])))
    /\ Change
    /\ UNCHANGED <<users, sessions, faults>>

(* handleChangeOwnPassword: the copy is the one requireSession read; the current
   password is then checked on a copy of its own. *)
ChangeOwnPassword(r, s) ==
    /\ Idle(r)
    /\ s.user \notin OIDCUsers /\ ~users[s.user].disabled
    /\ Goes(r, Request("confirm", s.user, users[s.user], NewPassword(users[s.user])))
    /\ Change
    /\ UNCHANGED <<users, sessions, faults>>

Confirm(r) ==
    LET u == req[r].id IN
    /\ At(r, "confirm")
    /\ IF Exists(u) /\ ~users[u].disabled
       THEN Goes(r, [req[r] EXCEPT !.pc = IF users[u].weak THEN "rehash_own" ELSE "update",
                                   !.before = users[u]])
       ELSE Finished(r)
    /\ UNCHANGED <<users, sessions, changes, faults>>

(* Mutant: the sessions stay. *)
RevokeNothing(r) ==
    /\ req[r].pc \in {"revoke", "revoke_sso"}
    /\ IF At(r, "revoke") THEN Finished(r) ELSE Proceeds(r, "issue")
    /\ UNCHANGED <<users, sessions, changes, faults>>

(* DeleteForUser; a sign-in that changed the role goes on to its own session. *)
Revoke(r) ==
    /\ req[r].pc \in {"revoke", "revoke_sso"}
    /\ sessions' = Without(req[r].id)
    /\ IF At(r, "revoke") THEN Finished(r) ELSE Proceeds(r, "issue")
    /\ UNCHANGED <<users, changes, faults>>

(* A statement fails.  The handler gives up, except that a failed revocation
   during single sign-on, like a failed rehash, is only logged. *)
StatementFails(r) ==
    /\ ~Idle(r)
    /\ faults < MaxFaults
    /\ faults' = faults + 1
    /\ CASE At(r, "revoke_sso") -> Proceeds(r, "issue")
         [] req[r].pc \in {"rehash", "rehash_own"} -> AfterRehash(r)
         [] OTHER -> Finished(r)
    /\ UNCHANGED <<users, sessions, changes>>

Step ==
    \/ \E s \in sessions : Logout(s)
    \/ \E r \in Requests :
          \/ Rehash(r) \/ Confirm(r) \/ Issue(r) \/ Sync(r) \/ RequireAnotherAdmin(r) \/ Update(r)
          \/ Delete(r) \/ Revoke(r) \/ StatementFails(r)
          \/ \E s \in sessions : ChangeOwnPassword(r, s)
          \/ \E u \in Users :
                \/ Login(r, u)
                \/ \E role \in Roles : SingleSignOn(r, u, role)
                \/ \E s \in sessions :
                      \/ DeleteUser(r, s, u) \/ SetPassword(r, s, u)
                      \/ \E role \in Roles :
                            \/ CreateUser(r, s, u, role)
                            \/ \E d \in BOOLEAN : UpdateUser(r, s, u, role, d)

InFlight == {r \in Requests : ~Idle(r)}

Next == Step /\ overlapped' = (overlapped \/ Cardinality(InFlight') > 1)

Spec == Init /\ [][Next]_vars

-----------------------------------------------------------------------------
(* Properties *)

(* A session never outlives its user, although a user may be deleted while
   sign-ins, role changes and password changes for them are under way. *)
NoOrphanSessions == \A s \in sessions : Exists(s.user)

(* Somebody can administer the proxy: demoting, disabling and deleting users
   always leaves an enabled administrator (requireAnotherAdmin). *)
AdminRemains == \E u \in Users : IsAdmin(users[u])

(* The same for requests that come one after the other, whatever fails; only a
   single sign-on, whose roles are the provider's decision, may take the last
   administrator away. *)
LastAdminKept ==
    [][AdminRemains /\ ~AdminRemains' =>
          overlapped \/ \E r \in Requests : At(r, "sync") /\ ~At(r, "sync")']_vars

Revoking(u) == \E r \in Requests : req[r].pc \in {"revoke", "revoke_sso"} /\ req[r].id = u

(* A changed password, a changed role and a disabled account end the sessions
   signed in before: none of them is left once the handler has answered, unless
   a statement failed or requests overlapped. *)
OldSessionsEnd ==
    overlapped \/ faults > 0
        \/ \A s \in sessions : s.era = users[s.user].era \/ Revoking(s.user)

(* A disabled account stays disabled until a request asks to enable it: neither
   a new password, nor a sign-in, nor a statement that failed half-way brings it
   back, as long as requests do not overlap. *)
DisableSticks ==
    [][~overlapped => \A u \in Users :
          Exists(u) /\ users[u].disabled /\ users'[u] # Gone /\ ~users'[u].disabled
          => \E r \in Requests : At(r, "update") /\ req[r].id = u
                                 /\ req[r].before.disabled /\ ~req[r].user.disabled
                                 /\ req[r].before.password = req[r].user.password]_vars
=============================================================================
