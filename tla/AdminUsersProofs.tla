--------------------------- MODULE AdminUsersProofs ---------------------------
(***************************************************************************)
(* The handlers for any users, roles and requests.  That no session is     *)
(* left without its user needs the types alone.  What holds as long as     *)
(* requests do not overlap needs more: the copy a request works on is then *)
(* still the row of the user, up to the parameters of the password hash,   *)
(* from the statement that read it to the one that writes it back.         *)
(***************************************************************************)
EXTENDS AdminUsers, FiniteSetTheorems, TLAPS

USE UsersAssumption

-----------------------------------------------------------------------------
(* The invariant *)

PCs == {"rehash", "issue", "sync", "another", "another_delete", "update", "delete",
        "confirm", "rehash_own", "revoke", "revoke_sso"}
InHand == [pc : PCs, id : Users, before : User, user : User]

TypeOK ==
    /\ users \in [Users -> User \cup {Gone}]
    /\ sessions \subseteq Session
    /\ req \in [Requests -> InHand \cup {NoRequest}]
    /\ changes \in Nat /\ faults \in Nat /\ overlapped \in BOOLEAN

(* The same row, but for the parameters of the hash. *)
SameRow(a, b) ==
    a.role = b.role /\ a.disabled = b.disabled /\ a.password = b.password /\ a.era = b.era

Another(us, u) == \E v \in Users \ {u} : IsAdmin(us[v])

(* What is true of request q while it is the only one in flight. *)
Undisturbed(us, q) ==
    /\ us[q.id] # Gone
    /\ q.pc \notin {"issue", "revoke", "revoke_sso"} => SameRow(us[q.id], q.before)
    /\ q.pc \in {"issue", "revoke_sso"} => us[q.id].era = q.before.era
    /\ q.pc \in {"confirm", "rehash_own"} =>
          q.user.role = q.before.role /\ q.user.disabled = q.before.disabled
    /\ q.pc \in {"another", "update"} =>
          q.user.disabled = q.before.disabled \/ q.user.password = q.before.password
    /\ q.pc = "update" /\ IsAdmin(us[q.id]) => IsAdmin(q.user) \/ Another(us, q.id)
    /\ q.pc = "delete" /\ IsAdmin(us[q.id]) => Another(us, q.id)
    /\ q.pc = "sync" =>
          ~q.before.disabled /\ ~q.user.disabled /\ q.user.password = q.before.password

AtMostOne == \A x, y \in InFlight : x = y

Serial == AtMostOne /\ \A r \in InFlight : Undisturbed(users, req[r])

IInv ==
    /\ TypeOK
    /\ NoOrphanSessions
    /\ overlapped \/ Serial
    /\ OldSessionsEnd

(* Sessions are as new as their user, or request q is about to end them. *)
UpToDate(us, ss, q) ==
    \A s \in ss : \/ s.era = us[s.user].era
                  \/ q.pc \in {"revoke", "revoke_sso"} /\ q.id = s.user

-----------------------------------------------------------------------------
(* Rows and requests *)

LEMMA GoneIsNoUser == Gone \notin User
<1>1. DOMAIN Gone = {"gone"}
  BY DEF Gone
<1>2. \A row \in User : DOMAIN row = {"role", "disabled", "password", "weak", "era"}
  BY DEF User
<1>3. {"gone"} # {"role", "disabled", "password", "weak", "era"}
  OBVIOUS
<1> QED BY <1>1, <1>2, <1>3, Zenon

LEMMA InHandIsBusy ==
    /\ \A q \in InHand : q.pc # "idle" /\ q # NoRequest
    /\ NoRequest.pc = "idle"
BY DEF InHand, PCs, NoRequest

LEMMA NewUserType ==
    ASSUME NEW role \in Roles
    PROVE  NewUser(role) \in User /\ NewUser(role).era = 0
BY DEF NewUser, User

LEMMA RequestType ==
    ASSUME NEW pc \in PCs, NEW u \in Users, NEW before \in User, NEW user \in User
    PROVE  LET q == Request(pc, u, before, user) IN
           /\ q \in InHand /\ q # NoRequest
           /\ q.pc = pc /\ q.id = u /\ q.before = before /\ q.user = user
BY InHandIsBusy DEF Request, InHand

LEMMA ProceedsType ==
    ASSUME NEW q \in InHand, NEW pc \in PCs
    PROVE  LET n == [q EXCEPT !.pc = pc] IN
           /\ n \in InHand /\ n # NoRequest
           /\ n.pc = pc /\ n.id = q.id /\ n.before = q.before /\ n.user = q.user
<1> DEFINE n == [q EXCEPT !.pc = pc]
<1>1. n \in InHand /\ n.pc = pc /\ n.id = q.id /\ n.before = q.before /\ n.user = q.user
  BY DEF InHand
<1> QED BY <1>1, InHandIsBusy

LEMMA BusyInHand ==
    ASSUME TypeOK, NEW r \in Requests, ~Idle(r)
    PROVE  /\ r \in InFlight /\ req[r] \in InHand /\ req[r].pc \in PCs /\ req[r].id \in Users
           /\ req[r].before \in User /\ req[r].user \in User
<1>1. req[r] \in InHand
  BY InHandIsBusy DEF TypeOK, Idle, At
<1> QED BY <1>1 DEF InFlight, InHand

LEMMA ExistingIsUser ==
    ASSUME TypeOK, NEW u \in Users, Exists(u)
    PROVE  users[u] \in User
BY DEF TypeOK, Exists

-----------------------------------------------------------------------------
(* Requests that do not overlap *)

(* The flag that two requests have been in flight at once tells just that. *)
LEMMA FlagIsRight ==
    ASSUME Next, ~overlapped'
    PROVE  ~overlapped /\ AtMostOne'
<1>1. ~overlapped /\ ~(Cardinality(InFlight') > 1)
  BY Zenon DEF Next
<1>2. InFlight' \subseteq Requests
  BY DEF InFlight
<1>3. IsFiniteSet(InFlight')
  BY <1>2, FS_Subset
<1>4. Cardinality(InFlight') \in Nat
  BY <1>3, FS_CardinalityType
<1>5. ASSUME NEW x \in InFlight', NEW y \in InFlight', x # y
      PROVE  FALSE
  <2>1. {x, y} \subseteq InFlight'
    OBVIOUS
  <2>2. Cardinality({x, y}) = 2
    <3>1. IsFiniteSet({x}) /\ Cardinality({x}) = 1
      BY Zenon, FS_Singleton
    <3>2. Cardinality({x} \cup {y}) =
              IF y \in {x} THEN Cardinality({x}) ELSE Cardinality({x}) + 1
      BY Zenon, <3>1, FS_AddElement
    <3>3. {x} \cup {y} = {x, y}
      OBVIOUS
    <3> QED BY <1>5, <3>1, <3>2, <3>3
  <2>3. Cardinality({x, y}) <= Cardinality(InFlight')
    BY <1>3, <2>1, FS_Subset
  <2> QED BY <1>1, <1>4, <2>2, <2>3
<1> QED BY <1>1, <1>5 DEF AtMostOne

(* What a step of request r has to show for the invariant.  It may rely on being
   the only request there is. *)
LEMMA Moves ==
    ASSUME IInv, Next, NEW r \in Requests, NEW n \in InHand \cup {NoRequest},
           req' = [req EXCEPT ![r] = n],
           r \in InFlight \/ n # NoRequest,
           users' \in [Users -> User \cup {Gone}], sessions' \subseteq Session,
           changes' \in Nat, faults' \in Nat, faults' = 0 => faults = 0,
           NoOrphanSessions',
           /\ ~overlapped'
           /\ r \in InFlight => Undisturbed(users, req[r])
           /\ n # NoRequest
           => Undisturbed(users', n),
           /\ ~overlapped' /\ faults' = 0
           /\ r \in InFlight => Undisturbed(users, req[r])
           /\ UpToDate(users, sessions, req[r])
           => UpToDate(users', sessions', n)
    PROVE  IInv'
<1>1. req' \in [Requests -> InHand \cup {NoRequest}]
  BY DEF IInv, TypeOK
<1>2. overlapped' \in BOOLEAN
  BY DEF Next, IInv, TypeOK
<1>3. TypeOK'
  BY <1>1, <1>2 DEF TypeOK
<1>4. req'[r] = n /\ \A x \in Requests \ {r} : req'[x] = req[x]
  BY DEF IInv, TypeOK
<1>5. ASSUME ~overlapped'
      PROVE  /\ AtMostOne' /\ Serial
             /\ \A x \in Requests \ {r} : req[x].pc = "idle" /\ req'[x].pc = "idle"
  <2>1. ~overlapped /\ AtMostOne'
    BY <1>5, FlagIsRight
  <2>2. Serial
    BY <2>1 DEF IInv
  <2>3. ASSUME NEW x \in Requests \ {r}
        PROVE  req[x].pc = "idle" /\ req'[x].pc = "idle"
    <3>1. CASE r \in InFlight
      <4>1. x \notin InFlight
        BY <2>2, <2>3, <3>1 DEF Serial, AtMostOne
      <4> QED BY <1>4, <4>1 DEF InFlight, Idle, At
    <3>2. CASE n # NoRequest
      <4>1. r \in InFlight'
        BY <1>4, <3>2, InHandIsBusy DEF InFlight, Idle, At
      <4>2. x \notin InFlight'
        BY <2>1, <2>3, <4>1 DEF AtMostOne
      <4> QED BY <1>4, <4>2 DEF InFlight, Idle, At
    <3> QED BY <3>1, <3>2
  <2> QED BY <2>1, <2>2, <2>3
<1>6. overlapped' \/ Serial'
  <2> SUFFICES ASSUME ~overlapped' PROVE Serial'
    OBVIOUS
  <2>1. ASSUME NEW x \in InFlight'
        PROVE  Undisturbed(users', req'[x])
    <3>1. x = r /\ n # NoRequest
      BY <1>4, <1>5, InHandIsBusy DEF InFlight, Idle, At
    <3>2. r \in InFlight => Undisturbed(users, req[r])
      BY <1>5 DEF Serial
    <3> QED BY <1>4, <3>1, <3>2
  <2>2. AtMostOne'
    BY <1>5
  <2> QED BY <2>1, <2>2 DEF Serial
<1>7. OldSessionsEnd'
  <2> SUFFICES ASSUME ~overlapped', ~(faults' > 0)
               PROVE  \A s \in sessions' : s.era = users'[s.user].era \/ Revoking(s.user)'
    BY DEF OldSessionsEnd
  <2>1. ~overlapped /\ faults = 0 /\ faults' = 0
    BY FlagIsRight DEF IInv, TypeOK
  <2>2. UpToDate(users, sessions, req[r])
    <3> SUFFICES ASSUME NEW s \in sessions, Revoking(s.user)
                 PROVE  req[r].pc \in {"revoke", "revoke_sso"} /\ req[r].id = s.user
      BY <2>1 DEF IInv, OldSessionsEnd, UpToDate
    <3>1. PICK x \in Requests : req[x].pc \in {"revoke", "revoke_sso"} /\ req[x].id = s.user
      BY DEF Revoking
    <3>2. x = r
      BY <1>5, <3>1
    <3> QED BY <3>1, <3>2
  <2>3. UpToDate(users', sessions', n)
    BY <1>5, <2>1, <2>2 DEF Serial
  <2> QED BY <1>4, <2>3 DEF UpToDate, Revoking
<1> QED BY <1>3, <1>6, <1>7 DEF IInv

-----------------------------------------------------------------------------
(* Signing in *)

(* A request that only reads: its copy is the row, and it is well on its way. *)
LEMMA StartsStep ==
    ASSUME IInv, Next, NEW r \in Requests, Idle(r),
           NEW n \in InHand, req' = [req EXCEPT ![r] = n],
           UNCHANGED <<users, sessions, faults>>, changes' \in Nat,
           Undisturbed(users, n)
    PROVE  IInv'
<1>1. n # NoRequest
  BY InHandIsBusy
<1>2. users \in [Users -> User \cup {Gone}] /\ sessions \subseteq Session /\ faults \in Nat
  BY DEF IInv, TypeOK
<1>3. NoOrphanSessions'
  BY DEF IInv, NoOrphanSessions, Exists
<1>4. UpToDate(users, sessions, req[r]) => UpToDate(users', sessions', n)
  BY DEF UpToDate, Idle, At
<1> QED BY Zenon, <1>1, <1>2, <1>3, <1>4, Moves

LEMMA LoginStep ==
    ASSUME IInv, Next, NEW r \in Requests, NEW u \in Users, Login(r, u)
    PROVE  IInv'
<1> DEFINE pc == IF users[u].weak THEN "rehash" ELSE "issue"
           n == Request(pc, u, users[u], users[u])
<1>1. /\ Idle(r) /\ Exists(u) /\ req' = [req EXCEPT ![r] = n]
      /\ UNCHANGED <<users, sessions, changes, faults>> /\ changes' \in Nat
  BY DEF Login, Goes, IInv, TypeOK
<1>2. users[u] \in User
  BY <1>1, ExistingIsUser DEF IInv
<1>3. pc \in {"rehash", "issue"} /\ pc \in PCs
  BY DEF PCs
<1> HIDE DEF pc
<1>4. n \in InHand /\ n.pc = pc /\ n.id = u /\ n.before = users[u]
  BY <1>2, <1>3, RequestType
<1> HIDE DEF n
<1>5. Undisturbed(users, n)
  BY <1>1, <1>3, <1>4 DEF Undisturbed, SameRow, Exists
<1> QED BY Zenon, <1>1, <1>4, <1>5, StartsStep

LEMMA UpdatedRow ==
    ASSUME NEW copy \in User, NEW era \in Nat
    PROVE  LET row == [copy EXCEPT !.era = era] IN
           /\ row \in User /\ row # Gone
           /\ row.role = copy.role /\ row.disabled = copy.disabled
           /\ row.password = copy.password /\ row.era = era
<1> DEFINE row == [copy EXCEPT !.era = era]
<1>1. /\ row \in User /\ row.role = copy.role /\ row.disabled = copy.disabled
      /\ row.password = copy.password /\ row.era = era
  BY DEF User
<1> QED BY <1>1, GoneIsNoUser

(* A row written over a row leaves everybody's sessions an owner. *)
LEMMA WriteKeepsOwners ==
    ASSUME IInv, NEW u \in Users, NEW row \in User, users' = [users EXCEPT ![u] = row],
           sessions' \subseteq sessions
    PROVE  /\ users' \in [Users -> User \cup {Gone}] /\ sessions' \subseteq Session
           /\ users'[u] = row /\ row # Gone
           /\ \A v \in Users \ {u} : users'[v] = users[v]
           /\ NoOrphanSessions'
<1>1. /\ users' \in [Users -> User \cup {Gone}] /\ sessions' \subseteq Session
      /\ users'[u] = row /\ \A v \in Users \ {u} : users'[v] = users[v]
  BY DEF IInv, TypeOK
<1>2. row # Gone
  BY GoneIsNoUser
<1>3. \A s \in sessions : s.user \in Users /\ users[s.user] # Gone
  BY DEF IInv, TypeOK, NoOrphanSessions, Exists, Session
<1>4. \A s \in sessions' : users'[s.user] # Gone
  BY <1>1, <1>2, <1>3
<1> QED BY <1>1, <1>2, <1>4 DEF NoOrphanSessions, Exists

LEMMA RehashStep ==
    ASSUME IInv, Next, NEW r \in Requests, Rehash(r)
    PROVE  IInv'
<1> DEFINE q == req[r]
           pc == IF At(r, "rehash") THEN "issue" ELSE "update"
           n == [q EXCEPT !.pc = pc]
           copy == [q.before EXCEPT !.weak = FALSE]
           row == [copy EXCEPT !.era = users[q.id].era]
<1>1. /\ q.pc \in {"rehash", "rehash_own"} /\ UNCHANGED <<sessions, changes, faults>>
      /\ req' = [req EXCEPT ![r] = n]
      /\ pc = (IF q.pc = "rehash" THEN "issue" ELSE "update") /\ pc \in PCs
  BY DEF Rehash, AfterRehash, Proceeds, At, PCs
<1>2. q \in InHand /\ q.id \in Users /\ q.before \in User /\ q.user \in User /\ r \in InFlight
  BY <1>1, BusyInHand DEF IInv, Idle, At
<1> HIDE DEF pc
<1>3. n \in InHand /\ n.pc = pc /\ n.id = q.id /\ n.before = q.before /\ n.user = q.user
  BY <1>1, <1>2, ProceedsType
<1>4. changes' \in Nat /\ faults' \in Nat
  BY <1>1 DEF IInv, TypeOK
<1> HIDE DEF n, q
<1>5. CASE Exists(q.id)
  <2>1. users[q.id] \in User /\ users[q.id].era \in Nat
    BY <1>2, <1>5, ExistingIsUser DEF IInv, User
  <2>2. /\ copy \in User /\ copy.role = q.before.role /\ copy.disabled = q.before.disabled
        /\ copy.password = q.before.password
    BY Zenon, <1>2 DEF User
  <2> HIDE DEF copy
  <2>3. /\ row \in User /\ row.role = q.before.role /\ row.disabled = q.before.disabled
        /\ row.password = q.before.password /\ row.era = users[q.id].era
    BY <2>1, <2>2, UpdatedRow
  <2>4. users' = [users EXCEPT ![q.id] = row]
    BY <1>5 DEF Rehash, Updated, copy, q
  <2> HIDE DEF row
  <2>5. /\ users' \in [Users -> User \cup {Gone}] /\ sessions' \subseteq Session
        /\ users'[q.id] = row /\ row # Gone
        /\ \A v \in Users \ {q.id} : users'[v] = users[v]
        /\ NoOrphanSessions'
    BY Zenon, <1>1, <1>2, <2>3, <2>4, WriteKeepsOwners
  <2>6. Undisturbed(users, q) => Undisturbed(users', n)
    <3> SUFFICES ASSUME Undisturbed(users, q) PROVE Undisturbed(users', n)
      OBVIOUS
    <3>1. SameRow(users[q.id], q.before) /\ row.era = q.before.era
      BY <1>1, <2>3 DEF Undisturbed, SameRow
    <3>2. CASE pc = "issue"
      BY <1>3, <2>5, <3>1, <3>2 DEF Undisturbed
    <3>3. CASE pc = "update"
      <4>1. q.user.role = q.before.role /\ q.user.disabled = q.before.disabled
        BY <1>1, <3>3 DEF Undisturbed
      <4>2. IsAdmin(row) => IsAdmin(q.user)
        BY <1>2, <2>3, <4>1, GoneIsNoUser DEF IsAdmin
      <4> QED BY <1>3, <2>3, <2>5, <3>1, <3>3, <4>1, <4>2 DEF Undisturbed, SameRow
    <3> QED BY <1>1, <3>2, <3>3
  <2>7. UpToDate(users, sessions, q) => UpToDate(users', sessions', n)
    <3>1. \A v \in Users : users'[v].era = users[v].era
      BY <2>3, <2>5
    <3>2. \A s \in sessions : s.user \in Users
      BY DEF IInv, TypeOK, Session
    <3> QED BY <1>1, <3>1, <3>2 DEF UpToDate
  <2> QED BY Zenon, <1>1, <1>2, <1>3, <1>4, <2>5, <2>6, <2>7, Moves DEF q
<1>6. CASE ~Exists(q.id)
  <2>1. UNCHANGED users
    BY <1>6 DEF Rehash, q
  <2>2. ~Undisturbed(users, q)
    BY <1>6 DEF Undisturbed, Exists
  <2>3. NoOrphanSessions' /\ users' \in [Users -> User \cup {Gone}] /\ sessions' \subseteq Session
    BY <1>1, <2>1 DEF IInv, TypeOK, NoOrphanSessions, Exists
  <2> QED BY Zenon, <1>1, <1>2, <1>3, <1>4, <2>2, <2>3, Moves DEF q
<1> QED BY <1>5, <1>6

(* A step of a request in flight that writes no row and drops no session but
   those it revokes. *)
LEMMA GoesOnStep ==
    ASSUME IInv, Next, NEW r \in InFlight, NEW n \in InHand \cup {NoRequest},
           req' = [req EXCEPT ![r] = n],
           UNCHANGED <<users, changes>>, faults' \in Nat, faults' = 0 => faults = 0,
           sessions' \subseteq sessions,
           ~overlapped' /\ Undisturbed(users, req[r]) /\ n # NoRequest => Undisturbed(users, n),
           \/ req[r].pc \notin {"revoke", "revoke_sso"}
           \/ faults' # 0
           \/ sessions' = Without(req[r].id)
    PROVE  IInv'
<1>1. users \in [Users -> User \cup {Gone}] /\ sessions' \subseteq Session /\ changes' \in Nat
  BY DEF IInv, TypeOK
<1>2. NoOrphanSessions'
  BY DEF IInv, NoOrphanSessions, Exists
<1>3. faults' = 0 /\ UpToDate(users, sessions, req[r]) => UpToDate(users', sessions', n)
  BY DEF UpToDate, Without
<1>4. r \in Requests
  BY DEF InFlight
<1> QED BY Zenon, <1>1, <1>2, <1>3, <1>4, Moves

LEMMA IssueStep ==
    ASSUME IInv, Next, NEW r \in Requests, Issue(r)
    PROVE  IInv'
<1> DEFINE q == req[r]
           s == [user |-> q.id, era |-> q.before.era]
<1>1. /\ q.pc = "issue" /\ req' = [req EXCEPT ![r] = NoRequest]
      /\ UNCHANGED <<users, changes, faults>>
      /\ sessions' = IF Exists(q.id) THEN sessions \cup {s} ELSE sessions
  BY DEF Issue, At, Finished, Goes
<1>2. q.id \in Users /\ q.before \in User /\ r \in InFlight
  BY <1>1, BusyInHand DEF IInv, Idle, At
<1>3. s \in Session /\ s.user = q.id /\ s.era = q.before.era
  BY <1>2 DEF Session, User
<1>4. /\ users' \in [Users -> User \cup {Gone}] /\ sessions' \subseteq Session
      /\ changes' \in Nat /\ faults' \in Nat
  BY <1>1, <1>3 DEF IInv, TypeOK
<1> HIDE DEF q, s
<1>5. NoOrphanSessions'
  BY <1>1, <1>3 DEF IInv, NoOrphanSessions, Exists
<1>6. Undisturbed(users, q) /\ UpToDate(users, sessions, q)
      => UpToDate(users', sessions', NoRequest)
  BY <1>1, <1>3 DEF Undisturbed, UpToDate
<1> QED BY Zenon, <1>1, <1>2, <1>4, <1>5, <1>6, Moves DEF q

LEMMA SingleSignOnStep ==
    ASSUME IInv, Next, NEW r \in Requests, NEW u \in Users, NEW role \in Roles,
           SingleSignOn(r, u, role)
    PROVE  IInv'
<1>1. Idle(r) /\ UNCHANGED <<sessions, faults>> /\ changes' \in Nat
  BY DEF SingleSignOn, Change, IInv, TypeOK
<1>2. CASE Exists(u)
  <2> DEFINE user == [users[u] EXCEPT !.role = role]
             n == Request("sync", u, users[u], user)
  <2>1. ~users[u].disabled /\ req' = [req EXCEPT ![r] = n] /\ UNCHANGED users
    BY <1>2 DEF SingleSignOn, Goes
  <2>2. users[u] \in User
    BY <1>2, ExistingIsUser DEF IInv
  <2>3. user \in User /\ user.disabled = users[u].disabled /\ user.password = users[u].password
    BY <2>2 DEF User
  <2> HIDE DEF user
  <2>4. /\ n \in InHand /\ n.pc = "sync" /\ n.id = u /\ n.before = users[u]
        /\ n.user = user
    BY <2>2, <2>3, RequestType DEF PCs
  <2> HIDE DEF n
  <2>5. Undisturbed(users, n)
    BY <1>2, <2>1, <2>3, <2>4 DEF Undisturbed, SameRow, Exists
  <2> QED BY Zenon, <1>1, <2>1, <2>4, <2>5, StartsStep
<1>3. CASE ~Exists(u)
  <2> DEFINE n == Request("issue", u, NewUser(role), NewUser(role))
  <2>1. req' = [req EXCEPT ![r] = n] /\ users' = [users EXCEPT ![u] = NewUser(role)]
    BY <1>3 DEF SingleSignOn, Goes
  <2>2. NewUser(role) \in User
    BY NewUserType
  <2>3. n \in InHand /\ n # NoRequest /\ n.pc = "issue" /\ n.id = u /\ n.before = NewUser(role)
    BY <2>2, RequestType DEF PCs
  <2> HIDE DEF n
  <2>4. /\ users' \in [Users -> User \cup {Gone}] /\ sessions' \subseteq Session
        /\ users'[u] = NewUser(role) /\ NewUser(role) # Gone
        /\ \A v \in Users \ {u} : users'[v] = users[v]
        /\ NoOrphanSessions'
    BY Zenon, <1>1, <2>1, <2>2, WriteKeepsOwners
  <2>5. Undisturbed(users', n)
    BY <2>3, <2>4 DEF Undisturbed
  <2>6. UpToDate(users, sessions, req[r]) => UpToDate(users', sessions', n)
    <3>1. \A s \in sessions : s.user \in Users \ {u}
      BY <1>3 DEF IInv, NoOrphanSessions, TypeOK, Session
    <3> QED BY <1>1, <2>4, <3>1 DEF UpToDate, Idle, At
  <2>7. faults' \in Nat
    BY <1>1 DEF IInv, TypeOK
  <2> QED BY Zenon, <1>1, <2>1, <2>3, <2>4, <2>5, <2>6, <2>7, Moves
<1> QED BY <1>2, <1>3

(* The row after a write, and whose sessions it outdates. *)
LEMMA EraAfterNat ==
    ASSUME NEW q \in InHand, users[q.id] \in User
    PROVE  EraAfter(q) \in Nat
BY DEF EraAfter, User

LEMMA SyncStep ==
    ASSUME IInv, Next, NEW r \in Requests, Sync(r)
    PROVE  IInv'
<1> DEFINE q == req[r]
<1>1. q.pc = "sync" /\ UNCHANGED <<sessions, changes, faults>>
  BY DEF Sync, At
<1>2. q \in InHand /\ q.id \in Users /\ q.before \in User /\ q.user \in User /\ r \in InFlight
  BY <1>1, BusyInHand DEF IInv, Idle, At
<1>3. CASE ~Exists(q.id)
  <2>1. UNCHANGED users /\ req' = [req EXCEPT ![r] = NoRequest]
    BY <1>3 DEF Sync, Finished, Goes
  <2> QED BY Zenon, <1>1, <1>2, <2>1, GoesOnStep DEF IInv, TypeOK
<1>4. CASE Exists(q.id)
  <2> DEFINE era == EraAfter(q)
             pc == IF q.before.role # q.user.role THEN "revoke_sso" ELSE "issue"
             n == [q EXCEPT !.pc = pc, !.before.era = era]
             row == [q.user EXCEPT !.era = era]
  <2>1. req' = [req EXCEPT ![r] = n] /\ users' = [users EXCEPT ![q.id] = row]
    BY <1>4 DEF Sync, Goes, Updated
  <2>2. era \in Nat /\ pc \in PCs
    BY <1>2, <1>4, ExistingIsUser, EraAfterNat DEF IInv, PCs
  <2> HIDE DEF era
  <2>3. row \in User /\ row.era = era
    BY <1>2, <2>2, UpdatedRow
  <2>4. /\ n \in InHand /\ n.pc = pc /\ n.id = q.id /\ n.before.era = era
    <3>1. [q.before EXCEPT !.era = era] \in User /\ [q.before EXCEPT !.era = era].era = era
      BY <1>2, <2>2, UpdatedRow
    <3> HIDE DEF pc
    <3> QED BY Zenon, <1>2, <2>2, <3>1 DEF InHand
  <2>5. n # NoRequest
    BY <2>4, InHandIsBusy
  <2> HIDE DEF n, row
  <2>6. /\ users' \in [Users -> User \cup {Gone}] /\ sessions' \subseteq Session
        /\ users'[q.id] = row /\ row # Gone
        /\ \A v \in Users \ {q.id} : users'[v] = users[v]
        /\ NoOrphanSessions'
    BY Zenon, <1>1, <1>2, <2>1, <2>3, WriteKeepsOwners
  <2>7. Undisturbed(users', n)
    BY <2>3, <2>4, <2>6 DEF Undisturbed
  <2>8. Undisturbed(users, q) /\ UpToDate(users, sessions, q) => UpToDate(users', sessions', n)
    <3> SUFFICES ASSUME Undisturbed(users, q), UpToDate(users, sessions, q),
                        NEW s \in sessions
                 PROVE  \/ s.era = users'[s.user].era
                        \/ n.pc \in {"revoke", "revoke_sso"} /\ n.id = s.user
      BY <1>1 DEF UpToDate
    <3> HIDE DEF q
    <3>1. s.user \in Users /\ s.era = users[s.user].era
      BY <1>1 DEF UpToDate, IInv, TypeOK, Session
    <3>2. CASE s.user # q.id
      BY <2>6, <3>1, <3>2
    <3>3. CASE s.user = q.id /\ pc = "revoke_sso"
      BY <2>4, <3>3
    <3>4. CASE s.user = q.id /\ pc = "issue"
      <4>1. q.before.role = q.user.role
        BY <3>4
      <4>2. ~EndsSessions(q.before, q.user)
        BY <1>1, <4>1 DEF Undisturbed, EndsSessions
      <4>3. era = users[q.id].era
        BY <4>2 DEF era, EraAfter
      <4> QED BY <2>3, <2>6, <3>1, <3>4, <4>3
    <3> QED BY <3>2, <3>3, <3>4
  <2>9. changes' \in Nat /\ faults' \in Nat
    BY <1>1 DEF IInv, TypeOK
  <2> QED BY Zenon, <1>1, <1>2, <2>1, <2>4, <2>5, <2>6, <2>7, <2>8, <2>9, Moves
<1> QED BY <1>3, <1>4

LEMMA LogoutStep ==
    ASSUME IInv, Next, NEW s \in sessions, Logout(s)
    PROVE  IInv'
<1>1. UNCHANGED <<users, req, changes, faults>> /\ sessions' \subseteq sessions
  BY DEF Logout
<1>2. overlapped' \in BOOLEAN /\ (~overlapped' => ~overlapped)
  BY DEF Next, IInv, TypeOK
<1>3. TypeOK' /\ NoOrphanSessions'
  BY <1>1, <1>2 DEF IInv, TypeOK, NoOrphanSessions, Exists
<1>4. overlapped' \/ Serial'
  BY <1>1, <1>2 DEF IInv, Serial, AtMostOne, InFlight, Idle, At
<1>5. OldSessionsEnd'
  BY <1>1, <1>2 DEF IInv, OldSessionsEnd, Revoking
<1> QED BY <1>3, <1>4, <1>5 DEF IInv

-----------------------------------------------------------------------------
(* Managing users *)

LEMMA SessionUserIsUser ==
    ASSUME IInv, NEW s \in sessions
    PROVE  s.user \in Users /\ Exists(s.user) /\ users[s.user] \in User
<1>1. s.user \in Users /\ Exists(s.user)
  BY DEF IInv, TypeOK, NoOrphanSessions, Session
<1> QED BY <1>1, ExistingIsUser DEF IInv

(* A user who did not exist appears: nobody's copy and nobody's session is
   about them. *)
LEMMA CreateUserStep ==
    ASSUME IInv, Next, NEW r \in Requests, NEW s \in sessions, NEW u \in Users,
           NEW role \in Roles, CreateUser(r, s, u, role)
    PROVE  IInv'
<1>1. /\ ~Exists(u) /\ users' = [users EXCEPT ![u] = NewUser(role)]
      /\ UNCHANGED <<sessions, req, faults>> /\ changes' \in Nat
  BY DEF CreateUser, Change, IInv, TypeOK
<1>2. overlapped' \in BOOLEAN /\ (~overlapped' => ~overlapped)
  BY DEF Next, IInv, TypeOK
<1>3. NewUser(role) \in User
  BY NewUserType
<1>4. /\ users' \in [Users -> User \cup {Gone}]
      /\ users'[u] = NewUser(role) /\ NewUser(role) # Gone
      /\ \A v \in Users \ {u} : users'[v] = users[v]
      /\ NoOrphanSessions'
  BY Zenon, <1>1, <1>3, WriteKeepsOwners
<1>5. TypeOK'
  BY <1>1, <1>2, <1>4 DEF IInv, TypeOK
<1>6. overlapped' \/ Serial'
  <2> SUFFICES ASSUME ~overlapped' PROVE Serial'
    OBVIOUS
  <2>1. Serial
    BY <1>2 DEF IInv
  <2>2. InFlight' = InFlight
    BY <1>1 DEF InFlight, Idle, At
  <2>3. ASSUME NEW x \in InFlight
        PROVE  Undisturbed(users', req'[x])
    <3> DEFINE q == req[x]
    <3>1. q.id \in Users /\ Undisturbed(users, q)
      BY <2>1, BusyInHand DEF Serial, IInv, InFlight
    <3>2. req'[x] = q
      BY <1>1
    <3> HIDE DEF q
    <3>3. users'[q.id] = users[q.id]
      BY Zenon, <1>1, <1>4, <3>1 DEF Undisturbed, Exists
    <3>4. Another(users, q.id) => Another(users', q.id)
      BY <1>1, <1>4 DEF Another, IsAdmin, Exists
    <3> QED BY Zenon, <3>1, <3>2, <3>3, <3>4 DEF Undisturbed
  <2> QED BY <2>1, <2>2, <2>3 DEF Serial, AtMostOne
<1>7. OldSessionsEnd'
  <2>1. \A t \in sessions : t.user \in Users \ {u}
    BY <1>1, SessionUserIsUser
  <2>2. \A t \in sessions : users'[t.user] = users[t.user]
    BY <1>4, <2>1
  <2> QED BY <1>1, <1>2, <2>2 DEF IInv, OldSessionsEnd, Revoking
<1> QED BY <1>4, <1>5, <1>6, <1>7 DEF IInv

LEMMA UpdateUserStep ==
    ASSUME IInv, Next, NEW r \in Requests, NEW s \in sessions, NEW u \in Users,
           NEW role \in Roles, NEW d \in BOOLEAN, UpdateUser(r, s, u, role, d)
    PROVE  IInv'
<1> DEFINE user == [users[u] EXCEPT !.role = role, !.disabled = d]
           pc == IF LosingAdmin(users[u], user) THEN "another" ELSE "update"
           n == Request(pc, u, users[u], user)
<1>1. /\ Idle(r) /\ Exists(u) /\ req' = [req EXCEPT ![r] = n]
      /\ UNCHANGED <<users, sessions, faults>> /\ changes' \in Nat
  BY DEF UpdateUser, Goes, Change, IInv, TypeOK
<1>2. users[u] \in User
  BY <1>1, ExistingIsUser DEF IInv
<1>3. user \in User /\ user.password = users[u].password
  BY Zenon, <1>2 DEF User
<1> HIDE DEF user
<1>4. pc \in {"another", "update"} /\ pc \in PCs
  BY DEF PCs
<1>5. pc = "update" => ~LosingAdmin(users[u], user)
  OBVIOUS
<1> HIDE DEF pc
<1>6. n \in InHand /\ n.pc = pc /\ n.id = u /\ n.before = users[u] /\ n.user = user
  BY <1>2, <1>3, <1>4, RequestType
<1> HIDE DEF n
<1>7. pc = "update" /\ IsAdmin(users[u]) => IsAdmin(user)
  BY <1>3, <1>5, GoneIsNoUser DEF LosingAdmin, IsAdmin
<1>8. Undisturbed(users, n)
  BY <1>1, <1>3, <1>4, <1>6, <1>7 DEF Undisturbed, SameRow, Exists
<1> QED BY Zenon, <1>1, <1>6, <1>8, StartsStep

LEMMA DeleteUserStep ==
    ASSUME IInv, Next, NEW r \in Requests, NEW s \in sessions, NEW u \in Users,
           DeleteUser(r, s, u)
    PROVE  IInv'
<1> DEFINE pc == IF IsAdmin(users[u]) THEN "another_delete" ELSE "delete"
           n == Request(pc, u, users[u], users[u])
<1>1. /\ Idle(r) /\ Exists(u) /\ req' = [req EXCEPT ![r] = n]
      /\ UNCHANGED <<users, sessions, faults>> /\ changes' \in Nat
  BY DEF DeleteUser, Goes, Change, IInv, TypeOK
<1>2. users[u] \in User
  BY <1>1, ExistingIsUser DEF IInv
<1>3. pc \in {"another_delete", "delete"} /\ pc \in PCs /\ (pc = "delete" => ~IsAdmin(users[u]))
  BY DEF PCs
<1> HIDE DEF pc
<1>4. n \in InHand /\ n.pc = pc /\ n.id = u /\ n.before = users[u]
  BY <1>2, <1>3, RequestType
<1> HIDE DEF n
<1>5. Undisturbed(users, n)
  BY <1>1, <1>3, <1>4 DEF Undisturbed, SameRow, Exists
<1> QED BY Zenon, <1>1, <1>4, <1>5, StartsStep

LEMMA NewPasswordRow ==
    ASSUME IInv, NEW row \in User
    PROVE  /\ NewPassword(row) \in User /\ NewPassword(row).role = row.role
           /\ NewPassword(row).disabled = row.disabled
<1>1. changes + 1 \in Nat
  BY DEF IInv, TypeOK
<1> QED BY Zenon, <1>1 DEF NewPassword, User

LEMMA SetPasswordStep ==
    ASSUME IInv, Next, NEW r \in Requests, NEW s \in sessions, NEW u \in Users,
           SetPassword(r, s, u)
    PROVE  IInv'
<1> DEFINE user == NewPassword(users[u])
           n == Request("update", u, users[u], user)
<1>1. /\ Idle(r) /\ Exists(u) /\ req' = [req EXCEPT ![r] = n]
      /\ UNCHANGED <<users, sessions, faults>> /\ changes' \in Nat
  BY DEF SetPassword, Goes, Change, IInv, TypeOK
<1>2. users[u] \in User
  BY <1>1, ExistingIsUser DEF IInv
<1>3. user \in User /\ user.role = users[u].role /\ user.disabled = users[u].disabled
  BY <1>2, NewPasswordRow
<1> HIDE DEF user
<1>4. n \in InHand /\ n.pc = "update" /\ n.id = u /\ n.before = users[u] /\ n.user = user
  BY <1>2, <1>3, RequestType DEF PCs
<1> HIDE DEF n
<1>5. IsAdmin(users[u]) => IsAdmin(user)
  BY <1>3, GoneIsNoUser DEF IsAdmin
<1>6. Undisturbed(users, n)
  BY <1>1, <1>3, <1>4, <1>5 DEF Undisturbed, SameRow, Exists
<1> QED BY Zenon, <1>1, <1>4, <1>6, StartsStep

LEMMA ChangeOwnPasswordStep ==
    ASSUME IInv, Next, NEW r \in Requests, NEW s \in sessions, ChangeOwnPassword(r, s)
    PROVE  IInv'
<1> DEFINE u == s.user
           user == NewPassword(users[u])
           n == Request("confirm", u, users[u], user)
<1>1. /\ Idle(r) /\ req' = [req EXCEPT ![r] = n]
      /\ UNCHANGED <<users, sessions, faults>> /\ changes' \in Nat
  BY DEF ChangeOwnPassword, Goes, Change, IInv, TypeOK
<1>2. u \in Users /\ Exists(u) /\ users[u] \in User
  BY SessionUserIsUser
<1> HIDE DEF u
<1>3. user \in User /\ user.role = users[u].role /\ user.disabled = users[u].disabled
  BY <1>2, NewPasswordRow
<1> HIDE DEF user
<1>4. n \in InHand /\ n.pc = "confirm" /\ n.id = u /\ n.before = users[u] /\ n.user = user
  BY <1>2, <1>3, RequestType DEF PCs
<1> HIDE DEF n
<1>5. Undisturbed(users, n)
  BY <1>2, <1>3, <1>4 DEF Undisturbed, SameRow, Exists
<1> QED BY Zenon, <1>1, <1>4, <1>5, StartsStep

LEMMA ConfirmStep ==
    ASSUME IInv, Next, NEW r \in Requests, Confirm(r)
    PROVE  IInv'
<1> DEFINE q == req[r]
           u == q.id
           pc == IF users[u].weak THEN "rehash_own" ELSE "update"
           n == [q EXCEPT !.pc = pc, !.before = users[u]]
<1>1. q.pc = "confirm" /\ UNCHANGED <<users, sessions, changes, faults>>
  BY DEF Confirm, At
<1>2. q \in InHand /\ u \in Users /\ q.before \in User /\ q.user \in User /\ r \in InFlight
  BY <1>1, BusyInHand DEF IInv, Idle, At
<1>3. CASE ~(Exists(u) /\ ~users[u].disabled)
  <2>1. req' = [req EXCEPT ![r] = NoRequest]
    BY <1>3 DEF Confirm, Finished, Goes
  <2> QED BY Zenon, <1>1, <1>2, <2>1, GoesOnStep DEF IInv, TypeOK
<1>4. CASE Exists(u) /\ ~users[u].disabled
  <2>1. req' = [req EXCEPT ![r] = n]
    BY <1>4 DEF Confirm, Goes
  <2>2. users[u] \in User
    BY <1>2, <1>4, ExistingIsUser DEF IInv
  <2>3. pc \in {"rehash_own", "update"} /\ pc \in PCs
    BY DEF PCs
  <2> HIDE DEF pc
  <2>4. n \in InHand /\ n.pc = pc /\ n.id = u /\ n.before = users[u] /\ n.user = q.user
    BY Zenon, <1>2, <2>2, <2>3 DEF InHand
  <2> HIDE DEF n, q
  <2>5. Undisturbed(users, q) => Undisturbed(users, n)
    <3> SUFFICES ASSUME Undisturbed(users, q) PROVE Undisturbed(users, n)
      OBVIOUS
    <3>1. q.user.role = users[u].role /\ q.user.disabled = users[u].disabled
      BY <1>1 DEF Undisturbed, SameRow
    <3>2. IsAdmin(users[u]) => IsAdmin(q.user)
      BY <1>2, <3>1, GoneIsNoUser DEF IsAdmin
    <3> QED BY <1>4, <2>3, <2>4, <3>1, <3>2 DEF Undisturbed, SameRow, Exists
  <2>6. faults' \in Nat
    BY <1>1 DEF IInv, TypeOK
  <2> QED BY Zenon, <1>1, <1>2, <2>1, <2>4, <2>5, <2>6, GoesOnStep DEF q
<1> QED BY <1>3, <1>4

(* Nothing changes between the count of the administrators and the write that
   depends on it. *)
LEMMA RequireAnotherAdminStep ==
    ASSUME IInv, Next, NEW r \in Requests, RequireAnotherAdmin(r)
    PROVE  IInv'
<1> DEFINE q == req[r]
           pc == IF At(r, "another") THEN "update" ELSE "delete"
           n == [q EXCEPT !.pc = pc]
<1>1. /\ q.pc \in {"another", "another_delete"}
      /\ UNCHANGED <<users, sessions, changes, faults>> /\ faults' \in Nat
  BY DEF RequireAnotherAdmin, IInv, TypeOK
<1>2. q \in InHand /\ q.id \in Users /\ r \in InFlight
  BY <1>1, BusyInHand DEF IInv, Idle, At
<1>3. CASE ~AnotherAdmin(q.id)
  <2>1. req' = [req EXCEPT ![r] = NoRequest]
    BY <1>3 DEF RequireAnotherAdmin, Finished, Goes
  <2> QED BY Zenon, <1>1, <1>2, <2>1, GoesOnStep
<1>4. CASE AnotherAdmin(q.id)
  <2>1. req' = [req EXCEPT ![r] = n]
    BY <1>4 DEF RequireAnotherAdmin, Proceeds
  <2>2. pc = (IF q.pc = "another" THEN "update" ELSE "delete") /\ pc \in PCs
    BY DEF PCs, At
  <2> HIDE DEF pc
  <2>3. n \in InHand /\ n.pc = pc /\ n.id = q.id /\ n.before = q.before /\ n.user = q.user
    BY <1>2, <2>2, ProceedsType
  <2> HIDE DEF n, q
  <2>4. Undisturbed(users, q) => Undisturbed(users, n)
    BY <1>1, <1>4, <2>2, <2>3 DEF Undisturbed, AnotherAdmin, Another
  <2> QED BY Zenon, <1>1, <1>2, <2>1, <2>3, <2>4, GoesOnStep DEF q
<1> QED BY <1>3, <1>4

(* The write outdates the sessions of its user exactly when it goes on to
   revoke them. *)
LEMMA UpdateStep ==
    ASSUME IInv, Next, NEW r \in Requests, Update(r)
    PROVE  IInv'
<1> DEFINE q == req[r]
           era == EraAfter(q)
           row == [q.user EXCEPT !.era = era]
           n == IF EndsSessions(q.before, q.user) THEN [q EXCEPT !.pc = "revoke"] ELSE NoRequest
<1>1. q.pc = "update" /\ UNCHANGED <<sessions, changes, faults>>
      /\ changes' \in Nat /\ faults' \in Nat
  BY DEF Update, At, IInv, TypeOK
<1>2. q \in InHand /\ q.id \in Users /\ q.before \in User /\ q.user \in User /\ r \in InFlight
  BY <1>1, BusyInHand DEF IInv, Idle, At
<1>3. CASE ~Exists(q.id)
  <2>1. UNCHANGED users /\ req' = [req EXCEPT ![r] = NoRequest]
    BY <1>3 DEF Update, Finished, Goes
  <2> QED BY Zenon, <1>1, <1>2, <2>1, GoesOnStep
<1>4. CASE Exists(q.id)
  <2>1. req' = [req EXCEPT ![r] = n] /\ users' = [users EXCEPT ![q.id] = row]
    BY <1>4 DEF Update, Goes, Updated, Finished, Proceeds
  <2>2. era \in Nat
    BY <1>2, <1>4, ExistingIsUser, EraAfterNat DEF IInv
  <2>3. EndsSessions(q.before, q.user) \/ era = users[q.id].era
    BY DEF EraAfter
  <2> HIDE DEF era
  <2>4. row \in User /\ row.era = era
    BY <1>2, <2>2, UpdatedRow
  <2>5. /\ n \in InHand \cup {NoRequest}
        /\ n # NoRequest => n.pc = "revoke" /\ n.id = q.id
        /\ EndsSessions(q.before, q.user) => n.pc = "revoke" /\ n.id = q.id
    BY Zenon, <1>2, ProceedsType DEF PCs
  <2> HIDE DEF n, row, q
  <2>6. /\ users' \in [Users -> User \cup {Gone}] /\ sessions' \subseteq Session
        /\ users'[q.id] = row /\ row # Gone
        /\ \A v \in Users \ {q.id} : users'[v] = users[v]
        /\ NoOrphanSessions'
    BY Zenon, <1>1, <1>2, <2>1, <2>4, WriteKeepsOwners
  <2>7. n # NoRequest => Undisturbed(users', n)
    BY Zenon, <2>5, <2>6 DEF Undisturbed
  <2>8. UpToDate(users, sessions, q) => UpToDate(users', sessions', n)
    <3> SUFFICES ASSUME UpToDate(users, sessions, q), NEW s \in sessions
                 PROVE  \/ s.era = users'[s.user].era
                        \/ n.pc \in {"revoke", "revoke_sso"} /\ n.id = s.user
      BY <1>1 DEF UpToDate
    <3>1. s.user \in Users /\ s.era = users[s.user].era
      BY <1>1, SessionUserIsUser DEF UpToDate
    <3>2. CASE s.user # q.id
      BY <2>6, <3>1, <3>2
    <3>3. CASE s.user = q.id
      BY <2>3, <2>4, <2>5, <2>6, <3>1, <3>3
    <3> QED BY <3>2, <3>3
  <2> QED BY Zenon, <1>1, <1>2, <2>1, <2>5, <2>6, <2>7, <2>8, Moves DEF q
<1> QED BY <1>3, <1>4

LEMMA DeleteStep ==
    ASSUME IInv, Next, NEW r \in Requests, Delete(r)
    PROVE  IInv'
<1> DEFINE u == req[r].id
<1>1. /\ req[r].pc = "delete" /\ UNCHANGED <<changes, faults>>
      /\ changes' \in Nat /\ faults' \in Nat
      /\ users' = [users EXCEPT ![u] = Gone] /\ sessions' = Without(u)
      /\ req' = [req EXCEPT ![r] = NoRequest]
  BY DEF Delete, At, Finished, Goes, IInv, TypeOK
<1>2. u \in Users /\ r \in InFlight
  BY <1>1, BusyInHand DEF IInv, Idle, At
<1> HIDE DEF u
<1>3. /\ users' \in [Users -> User \cup {Gone}] /\ sessions' \subseteq Session
      /\ \A v \in Users \ {u} : users'[v] = users[v]
  BY Zenon, <1>1 DEF IInv, TypeOK, Without
<1>4. \A s \in sessions' : s \in sessions /\ users'[s.user] = users[s.user] /\ Exists(s.user)
  BY <1>1, <1>3, SessionUserIsUser DEF Without
<1>5. NoOrphanSessions'
  BY <1>4 DEF NoOrphanSessions, Exists
<1>6. UpToDate(users, sessions, req[r]) => UpToDate(users', sessions', NoRequest)
  BY <1>1, <1>4 DEF UpToDate
<1> QED BY Zenon, <1>1, <1>2, <1>3, <1>5, <1>6, Moves

LEMMA RevokeStep ==
    ASSUME IInv, Next, NEW r \in Requests, Revoke(r)
    PROVE  IInv'
<1> DEFINE q == req[r]
           n == IF q.pc = "revoke" THEN NoRequest ELSE [q EXCEPT !.pc = "issue"]
<1>1. /\ q.pc \in {"revoke", "revoke_sso"} /\ sessions' = Without(q.id)
      /\ UNCHANGED <<users, changes, faults>> /\ faults' \in Nat
      /\ req' = [req EXCEPT ![r] = n] /\ sessions' \subseteq sessions
  BY DEF Revoke, At, Finished, Goes, Proceeds, Without, IInv, TypeOK
<1>2. q \in InHand /\ r \in InFlight
  BY <1>1, BusyInHand DEF IInv, Idle, At
<1>3. /\ n \in InHand \cup {NoRequest}
      /\ n # NoRequest => /\ n.pc = "issue" /\ n.id = q.id /\ n.before = q.before
                          /\ q.pc = "revoke_sso"
  BY Zenon, <1>1, <1>2, ProceedsType DEF PCs
<1> HIDE DEF n, q
<1>4. Undisturbed(users, q) /\ n # NoRequest => Undisturbed(users, n)
  BY <1>3 DEF Undisturbed
<1> QED BY Zenon, <1>1, <1>2, <1>3, <1>4, GoesOnStep DEF q

LEMMA StatementFailsStep ==
    ASSUME IInv, Next, NEW r \in Requests, StatementFails(r)
    PROVE  IInv'
<1> DEFINE q == req[r]
           n == IF q.pc = "revoke_sso" THEN [q EXCEPT !.pc = "issue"]
                ELSE IF q.pc = "rehash" THEN [q EXCEPT !.pc = "issue"]
                ELSE IF q.pc = "rehash_own" THEN [q EXCEPT !.pc = "update"] ELSE NoRequest
<1>1. /\ ~Idle(r) /\ UNCHANGED <<users, sessions, changes>> /\ faults' = faults + 1
      /\ faults' \in Nat /\ faults' # 0
  BY DEF StatementFails, IInv, TypeOK
<1>2. req' = [req EXCEPT ![r] = n]
  BY DEF StatementFails, At, Finished, Goes, Proceeds, AfterRehash
<1>3. /\ q \in InHand /\ r \in InFlight /\ q.id \in Users /\ q.before \in User
      /\ q.user \in User
  BY <1>1, BusyInHand DEF IInv
<1>4. /\ n \in InHand \cup {NoRequest}
      /\ n # NoRequest => /\ n.id = q.id /\ n.before = q.before /\ n.user = q.user
                          /\ \/ n.pc = "issue" /\ q.pc \in {"revoke_sso", "rehash"}
                             \/ n.pc = "update" /\ q.pc = "rehash_own"
  BY Zenon, <1>3, ProceedsType DEF PCs
<1> HIDE DEF n, q
<1>5. Undisturbed(users, q) /\ n # NoRequest => Undisturbed(users, n)
  <2> SUFFICES ASSUME Undisturbed(users, q), n # NoRequest PROVE Undisturbed(users, n)
    OBVIOUS
  <2>1. CASE n.pc = "issue"
    BY <1>4, <2>1 DEF Undisturbed, SameRow
  <2>2. CASE n.pc = "update"
    <3>1. q.user.role = users[q.id].role /\ q.user.disabled = users[q.id].disabled
      BY <1>4, <2>2 DEF Undisturbed, SameRow
    <3>2. IsAdmin(users[q.id]) => IsAdmin(q.user)
      BY <1>3, <3>1, GoneIsNoUser DEF IsAdmin
    <3> QED BY <1>4, <2>2, <3>1, <3>2 DEF Undisturbed, SameRow
  <2> QED BY <1>4, <2>1, <2>2
<1> QED BY Zenon, <1>1, <1>2, <1>3, <1>4, <1>5, GoesOnStep DEF q

-----------------------------------------------------------------------------
(* The invariant holds *)

LEMMA InitIInv == Init => IInv
<1> SUFFICES ASSUME Init PROVE IInv
  OBVIOUS
<1>1. PICK weak \in BOOLEAN :
         users = [u \in Users |-> IF u = Founder THEN [NewUser("admin") EXCEPT !.weak = weak]
                                  ELSE Gone]
  BY DEF Init
<1>2. [NewUser("admin") EXCEPT !.weak = weak] \in User
  BY Zenon DEF NewUser, User
<1>3. TypeOK
  BY Zenon, <1>1, <1>2 DEF TypeOK, Init
<1>4. InFlight = {}
  BY DEF InFlight, Idle, At, Init, NoRequest
<1> QED BY <1>3, <1>4 DEF IInv, Init, NoOrphanSessions, Serial, AtMostOne, OldSessionsEnd

LEMMA NextIInv == IInv /\ [Next]_vars => IInv'
<1> SUFFICES ASSUME IInv, [Next]_vars PROVE IInv'
  OBVIOUS
<1>1. CASE UNCHANGED vars
  BY <1>1 DEF vars, IInv, TypeOK, NoOrphanSessions, Exists, Serial, AtMostOne, InFlight, Idle,
              At, OldSessionsEnd, Revoking
<1>2. CASE Next
  <2>1. ASSUME NEW s \in sessions, Logout(s) PROVE IInv'
    BY <1>2, <2>1, LogoutStep
  <2>2. ASSUME NEW r \in Requests,
               \/ Rehash(r) \/ Confirm(r) \/ Issue(r) \/ Sync(r) \/ RequireAnotherAdmin(r)
               \/ Update(r) \/ Delete(r) \/ Revoke(r) \/ StatementFails(r)
        PROVE  IInv'
    BY <1>2, <2>2, RehashStep, ConfirmStep, IssueStep, SyncStep, RequireAnotherAdminStep,
       UpdateStep, DeleteStep, RevokeStep, StatementFailsStep
  <2>3. ASSUME NEW r \in Requests, NEW s \in sessions, ChangeOwnPassword(r, s) PROVE IInv'
    BY <1>2, <2>3, ChangeOwnPasswordStep
  <2>4. ASSUME NEW r \in Requests, NEW u \in Users, Login(r, u) PROVE IInv'
    BY <1>2, <2>4, LoginStep
  <2>5. ASSUME NEW r \in Requests, NEW u \in Users, NEW role \in Roles,
               SingleSignOn(r, u, role)
        PROVE  IInv'
    BY <1>2, <2>5, SingleSignOnStep
  <2>6. ASSUME NEW r \in Requests, NEW u \in Users, NEW s \in sessions,
               DeleteUser(r, s, u) \/ SetPassword(r, s, u)
        PROVE  IInv'
    BY <1>2, <2>6, DeleteUserStep, SetPasswordStep
  <2>7. ASSUME NEW r \in Requests, NEW u \in Users, NEW s \in sessions, NEW role \in Roles,
               CreateUser(r, s, u, role) \/ \E d \in BOOLEAN : UpdateUser(r, s, u, role, d)
        PROVE  IInv'
    BY <1>2, <2>7, CreateUserStep, UpdateUserStep
  <2> QED BY <1>2, <2>1, <2>2, <2>3, <2>4, <2>5, <2>6, <2>7 DEF Next, Step
<1> QED BY <1>1, <1>2

LEMMA AlwaysIInv == Spec => []IInv
BY InitIInv, NextIInv, PTL DEF Spec

(* The steps that write a row of a user who exists. *)
LEMMA WhoWrites ==
    ASSUME IInv, Next
    PROVE  \/ UNCHANGED users
           \/ \E u \in Users, role \in Roles :
                 ~Exists(u) /\ users' = [users EXCEPT ![u] = NewUser(role)]
           \/ \E r \in Requests : Rehash(r) \/ Sync(r) \/ Update(r) \/ Delete(r)
<1>1. ASSUME NEW s \in sessions, Logout(s) PROVE UNCHANGED users
  BY <1>1 DEF Logout
<1>2. ASSUME NEW r \in Requests,
             \/ Confirm(r) \/ Issue(r) \/ RequireAnotherAdmin(r) \/ Revoke(r)
             \/ StatementFails(r)
      PROVE  UNCHANGED users
  BY <1>2 DEF Confirm, Issue, RequireAnotherAdmin, Revoke, StatementFails
<1>3. ASSUME NEW r \in Requests, NEW s \in sessions, ChangeOwnPassword(r, s)
      PROVE  UNCHANGED users
  BY Zenon, <1>3 DEF ChangeOwnPassword
<1>4. ASSUME NEW r \in Requests, NEW u \in Users, Login(r, u) PROVE UNCHANGED users
  BY <1>4 DEF Login
<1>5. ASSUME NEW r \in Requests, NEW u \in Users, NEW role \in Roles, SingleSignOn(r, u, role)
      PROVE  \/ UNCHANGED users
             \/ ~Exists(u) /\ users' = [users EXCEPT ![u] = NewUser(role)]
  BY <1>5 DEF SingleSignOn
<1>6. ASSUME NEW r \in Requests, NEW u \in Users, NEW s \in sessions,
             DeleteUser(r, s, u) \/ SetPassword(r, s, u)
      PROVE  UNCHANGED users
  BY Zenon, <1>6 DEF DeleteUser, SetPassword
<1>7. ASSUME NEW r \in Requests, NEW u \in Users, NEW s \in sessions, NEW role \in Roles,
             CreateUser(r, s, u, role)
      PROVE  ~Exists(u) /\ users' = [users EXCEPT ![u] = NewUser(role)]
  BY <1>7 DEF CreateUser
<1>8. ASSUME NEW r \in Requests, NEW u \in Users, NEW s \in sessions, NEW role \in Roles,
             NEW d \in BOOLEAN, UpdateUser(r, s, u, role, d)
      PROVE  UNCHANGED users
  BY <1>8 DEF UpdateUser
<1> QED BY <1>1, <1>2, <1>3, <1>4, <1>5, <1>6, <1>7, <1>8 DEF Next, Step

-----------------------------------------------------------------------------
(* The theorems *)

(* No session outlives its user, however sign-ins, single sign-ons, changes and
   deletions interleave and fail: the foreign key of admin_sessions refuses the
   session of a deleted user and takes a user's sessions with them
   (internal/store/users.go, sessions.go). *)
THEOREM NoOrphanSessionsAlways == Spec => []NoOrphanSessions
<1>1. IInv => NoOrphanSessions
  BY DEF IInv
<1> QED BY <1>1, AlwaysIInv, PTL

(* As long as requests do not overlap and no statement fails, a session older
   than a change of its user's password, role or state is being revoked by the
   handler that made the change (handleUpdateUser, handleSetUserPassword,
   handleChangeOwnPassword and syncExisting). *)
THEOREM OldSessionsEndAlways == Spec => []OldSessionsEnd
<1>1. IInv => OldSessionsEnd
  BY DEF IInv
<1> QED BY <1>1, AlwaysIInv, PTL

LEMMA LastAdminStep ==
    ASSUME IInv, Next, AdminRemains, ~overlapped,
           ~\E r \in Requests : At(r, "sync") /\ ~At(r, "sync")'
    PROVE  AdminRemains'
<1>1. PICK a \in Users : IsAdmin(users[a])
  BY DEF AdminRemains
<1>2. Serial
  BY DEF IInv
<1>3. CASE UNCHANGED users
  BY <1>3 DEF AdminRemains
<1>4. CASE \E u \in Users, role \in Roles :
              ~Exists(u) /\ users' = [users EXCEPT ![u] = NewUser(role)]
  <2>1. users'[a] = users[a]
    BY <1>1, <1>4 DEF Exists, IsAdmin, IInv, TypeOK
  <2> QED BY <1>1, <2>1 DEF AdminRemains
<1>5. ASSUME NEW r \in Requests, Sync(r)
      PROVE  FALSE
  <2>1. req[r].pc = "sync" /\ req[r] \in InHand
    BY <1>5, BusyInHand DEF Sync, At, Idle, IInv
  <2>2. req'[r].pc \in {"revoke_sso", "issue", "idle"}
    <3>1. CASE ~Exists(req[r].id)
      BY <1>5, <3>1 DEF Sync, Finished, Goes, IInv, TypeOK, NoRequest
    <3>2. CASE Exists(req[r].id)
      BY Zenon, <1>5, <2>1, <3>2 DEF Sync, Goes, IInv, TypeOK, InHand
    <3> QED BY <3>1, <3>2
  <2> QED BY <2>1, <2>2 DEF At
<1>6. ASSUME NEW r \in Requests, Rehash(r) \/ Update(r) \/ Delete(r)
      PROVE  AdminRemains'
  <2> DEFINE q == req[r]
  <2>1. q.pc \in {"rehash", "rehash_own", "update", "delete"}
    BY <1>6 DEF Rehash, Update, Delete, At
  <2>2. q.id \in Users /\ q.before \in User /\ q.user \in User /\ r \in InFlight
    BY <2>1, BusyInHand DEF IInv, Idle, At
  <2>3. Undisturbed(users, q)
    BY <1>2, <2>2 DEF Serial
  <2>4. Exists(q.id) /\ SameRow(users[q.id], q.before)
    BY Zenon, <2>1, <2>3 DEF Undisturbed, Exists
  <2>5. users[q.id] \in User /\ users[q.id].era \in Nat
    BY <2>2, <2>4, ExistingIsUser DEF IInv, User
  <2>6. CASE a # q.id
    <3>1. users'[a] = users[a]
      BY <1>6, <2>6 DEF Rehash, Update, Delete, Updated, IInv, TypeOK
    <3> QED BY <1>1, <3>1 DEF AdminRemains
  <2>7. CASE a = q.id /\ Rehash(r)
    <3> DEFINE copy == [q.before EXCEPT !.weak = FALSE]
               row == [copy EXCEPT !.era = users[q.id].era]
    <3>1. copy \in User /\ copy.role = q.before.role /\ copy.disabled = q.before.disabled
      BY Zenon, <2>2 DEF User
    <3>2. users'[a] = row
      BY Zenon, <2>2, <2>4, <2>7 DEF Rehash, Updated, IInv, TypeOK
    <3> HIDE DEF copy
    <3>3. row # Gone /\ row.role = copy.role /\ row.disabled = copy.disabled
      BY <2>5, <3>1, UpdatedRow
    <3>4. IsAdmin(users'[a])
      BY <1>1, <2>4, <2>7, <3>1, <3>2, <3>3 DEF IsAdmin, SameRow
    <3> QED BY <3>4 DEF AdminRemains
  <2>8. CASE a = q.id /\ Update(r)
    <3> DEFINE row == [q.user EXCEPT !.era = EraAfter(q)]
    <3>1. users' = [users EXCEPT ![q.id] = row] /\ q.pc = "update" /\ q \in InHand
      BY <2>2, <2>4, <2>8, BusyInHand DEF Update, Updated, At, InFlight, IInv
    <3>2. row # Gone /\ row.role = q.user.role /\ row.disabled = q.user.disabled
      BY <2>2, <2>5, <3>1, EraAfterNat, UpdatedRow
    <3> HIDE DEF row
    <3>3. CASE IsAdmin(q.user)
      <4>1. IsAdmin(users'[a])
        BY <2>8, <3>1, <3>2, <3>3 DEF IsAdmin, IInv, TypeOK
      <4> QED BY <4>1 DEF AdminRemains
    <3>4. CASE ~IsAdmin(q.user)
      <4>1. PICK v \in Users \ {q.id} : IsAdmin(users[v])
        BY Zenon, <1>1, <2>3, <2>8, <3>1, <3>4 DEF Undisturbed, Another
      <4>2. users'[v] = users[v]
        BY <3>1, <4>1 DEF IInv, TypeOK
      <4> QED BY <4>1, <4>2 DEF AdminRemains
    <3> QED BY <3>3, <3>4
  <2>9. CASE a = q.id /\ Delete(r)
    <3>1. users' = [users EXCEPT ![q.id] = Gone] /\ q.pc = "delete"
      BY <2>9 DEF Delete, At
    <3>2. PICK v \in Users \ {q.id} : IsAdmin(users[v])
      BY Zenon, <1>1, <2>3, <2>9, <3>1 DEF Undisturbed, Another
    <3>3. users'[v] = users[v]
      BY <3>1, <3>2 DEF IInv, TypeOK
    <3> QED BY <3>2, <3>3 DEF AdminRemains
  <2> QED BY <1>6, <2>6, <2>7, <2>8, <2>9
<1> QED BY <1>3, <1>4, <1>5, <1>6, WhoWrites

(* Requests that come one after the other never take the last enabled
   administrator away, whatever fails half-way: requireAnotherAdmin counts them
   on the rows the write then meets.  Only a role the identity provider assigns
   (syncExisting) is outside its reach. *)
THEOREM LastAdminKeptAlways == Spec => LastAdminKept
<1>1. IInv /\ [Next]_vars =>
         [AdminRemains /\ ~AdminRemains' =>
            overlapped \/ \E r \in Requests : At(r, "sync") /\ ~At(r, "sync")']_vars
  BY LastAdminStep
<1> QED BY <1>1, AlwaysIInv, PTL DEF Spec, LastAdminKept

LEMMA DisableStep ==
    ASSUME IInv, Next, ~overlapped, NEW u \in Users,
           Exists(u), users[u].disabled, users'[u] # Gone, ~users'[u].disabled
    PROVE  \E r \in Requests : At(r, "update") /\ req[r].id = u
                               /\ req[r].before.disabled /\ ~req[r].user.disabled
                               /\ req[r].before.password = req[r].user.password
<1>1. Serial
  BY DEF IInv
<1>2. ASSUME UNCHANGED users PROVE FALSE
  BY <1>2
<1>3. ASSUME NEW v \in Users, NEW role \in Roles,
             ~Exists(v), users' = [users EXCEPT ![v] = NewUser(role)]
      PROVE  FALSE
  <2>1. users'[u] = users[u]
    BY <1>3 DEF Exists, IInv, TypeOK
  <2> QED BY <2>1
<1>4. ASSUME NEW r \in Requests, Rehash(r) \/ Sync(r) \/ Update(r) \/ Delete(r)
      PROVE  /\ At(r, "update") /\ req[r].id = u
             /\ req[r].before.disabled /\ ~req[r].user.disabled
             /\ req[r].before.password = req[r].user.password
  <2> DEFINE q == req[r]
  <2>1. q.pc \in {"rehash", "rehash_own", "sync", "update", "delete"}
    BY <1>4 DEF Rehash, Sync, Update, Delete, At
  <2>2. q \in InHand /\ q.id \in Users /\ q.before \in User /\ q.user \in User /\ r \in InFlight
    BY <2>1, BusyInHand DEF IInv, Idle, At
  <2>3. Undisturbed(users, q)
    BY <1>1, <2>2 DEF Serial
  <2>4. SameRow(users[q.id], q.before)
    BY Zenon, <2>1, <2>3 DEF Undisturbed
  <2>5. u = q.id
    <3> SUFFICES ASSUME u # q.id PROVE FALSE
      OBVIOUS
    <3>1. users'[u] = users[u]
      BY <1>4 DEF Rehash, Sync, Update, Delete, Updated, IInv, TypeOK
    <3> QED BY <3>1
  <2>6. users[u] \in User /\ users[u].era \in Nat /\ q.before.disabled
    BY <2>4, <2>5, ExistingIsUser DEF IInv, User, SameRow
  <2>7. CASE Rehash(r)
    <3> DEFINE copy == [q.before EXCEPT !.weak = FALSE]
               row == [copy EXCEPT !.era = users[u].era]
    <3>1. copy \in User /\ copy.disabled = q.before.disabled
      BY Zenon, <2>2 DEF User
    <3>2. users'[u] = row
      BY Zenon, <2>5, <2>7 DEF Rehash, Updated, IInv, TypeOK
    <3> HIDE DEF copy
    <3>3. row.disabled = copy.disabled
      BY Zenon, <2>6, <3>1, UpdatedRow
    <3> QED BY Zenon, <2>6, <3>1, <3>2, <3>3
  <2>8. CASE Sync(r)
    BY <2>3, <2>6, <2>8 DEF Sync, At, Undisturbed
  <2>9. CASE Update(r)
    <3> DEFINE row == [q.user EXCEPT !.era = EraAfter(q)]
    <3>1. users'[u] = row /\ q.pc = "update"
      BY <2>5, <2>9 DEF Update, Updated, At, IInv, TypeOK
    <3>2. row.disabled = q.user.disabled
      BY <2>2, <2>5, <2>6, EraAfterNat, UpdatedRow
    <3> HIDE DEF row
    <3>3. ~q.user.disabled
      BY <3>1, <3>2
    <3>4. q.before.password = q.user.password
      BY Zenon, <2>3, <2>6, <3>1, <3>3 DEF Undisturbed
    <3> QED BY <2>5, <2>6, <3>1, <3>3, <3>4 DEF At
  <2>10. CASE Delete(r)
    BY Zenon, <2>5, <2>10 DEF Delete, IInv, TypeOK
  <2> QED BY Zenon, <1>4, <2>7, <2>8, <2>9, <2>10
<1> QED BY Zenon, <1>2, <1>3, <1>4, WhoWrites

(* As long as requests do not overlap, a disabled account comes back only by a
   request that asks for it: no sign-in, no rehash, no new password and no
   failure half-way writes an old copy of the row over it. *)
THEOREM DisableSticksAlways == Spec => DisableSticks
<1>1. IInv /\ [Next]_vars =>
         [~overlapped => \A u \in Users :
            Exists(u) /\ users[u].disabled /\ users'[u] # Gone /\ ~users'[u].disabled
            => \E r \in Requests : At(r, "update") /\ req[r].id = u
                                   /\ req[r].before.disabled /\ ~req[r].user.disabled
                                   /\ req[r].before.password = req[r].user.password]_vars
  BY DisableStep
<1> QED BY <1>1, AlwaysIInv, PTL DEF Spec, DisableSticks
=============================================================================
