-------------------------------- MODULE SignIn --------------------------------
(***************************************************************************)
(* Signing in to the admin interface with a password, and the life of the  *)
(* session that follows: LocalAuthenticator (internal/adminauth/local.go), *)
(* SessionManager (session.go) and their statements in internal/store      *)
(* (users.go, sessions.go).  Attempts to sign in and requests of signed-in *)
(* browsers interleave between the statements, and time passes between     *)
(* them in ticks.                                                          *)
(*                                                                         *)
(* One account is modelled, enabled and with a password; what changes the  *)
(* account itself is in AdminUsers.                                        *)
(***************************************************************************)
EXTENDS Naturals, FiniteSets

CONSTANTS
    Attempts,           \* attempts to sign in, at once
    Browsers,           \* signed-in browsers, of one session each
    Threshold,          \* admin.local_auth.lockout
    LockFor,
    Lifetime,           \* admin.session
    IdleTimeout,        \* 0: none
    MaxGuesses,         \* bound: attempts ever made
    MaxTicks, MaxFaults \* bounds: time, statements that fail

ASSUME SignInAssumption ==
    /\ {Threshold, IdleTimeout, MaxGuesses, MaxTicks, MaxFaults} \subseteq Nat
    /\ {LockFor, Lifetime} \subseteq Nat \ {0}

VARIABLES
    dialect,    \* which database
    failed,     \* failed_logins of the account
    locked,     \* ticks until locked_until, 0 when it is not in the future
    attempt,
    session,    \* admin_sessions, by browser
    request,    \* the request a browser has in flight
    streak,     \* wrong passwords since the account was last let in
    guesses, ticks, faults,
    overlapped  \* an attempt was being recorded while another wrote

vars == <<dialect, failed, locked, attempt, session, request, streak, guesses, ticks,
          faults, overlapped>>

bounds == <<guesses, ticks, faults>>
account == <<failed, locked>>

Idle == [pc |-> "idle"]
NoSession == [left |-> 0]

(* left is the time to expires_at and idle the time since last_seen_at; age and
   quiet, for the properties, are the time since the sign-in and since the browser
   was last seen. *)
NewSession == [left |-> Lifetime, idle |-> 0, age |-> 0, quiet |-> 0]

Init ==
    /\ dialect \in {"sqlite", "postgres"}
    /\ failed = 0 /\ locked = 0 /\ streak = 0
    /\ attempt = [a \in Attempts |-> Idle]
    /\ session = [b \in Browsers |-> NoSession]
    /\ request = [b \in Browsers |-> Idle]
    /\ guesses = 0 /\ ticks = 0 /\ faults = 0
    /\ overlapped = FALSE

Trying(a, pc) == attempt[a].pc = pc
Asking(b, pc) == request[b].pc = pc
Becomes(a, state) == attempt' = [attempt EXCEPT ![a] = state]

(* A write makes the snapshot of every other open transaction stale. *)
Recording(except) == {a \in Attempts \ except : Trying(a, "record")}
Stale(except) ==
    [a \in Attempts |-> IF a \in Recording(except) THEN [attempt[a] EXCEPT !.stale = TRUE]
                        ELSE attempt[a]]
Wrote(except) == overlapped' = (overlapped \/ Recording(except) # {})
Committed(a, state) == attempt' = [Stale({a}) EXCEPT ![a] = state] /\ Wrote({a})
CommittedElsewhere == attempt' = Stale({}) /\ Wrote({})

-----------------------------------------------------------------------------
(* Attempts to sign in *)

(* Authenticate up to the check of the password: the lock is looked at in the
   row that was read, and a locked account is refused whatever the password. *)
Authenticate(a, right) ==
    /\ Trying(a, "idle")
    /\ locked = 0
    /\ guesses < MaxGuesses /\ guesses' = guesses + 1
    /\ Becomes(a, [pc |-> IF right THEN "clear" ELSE "count"])
    /\ UNCHANGED <<account, session, request, streak, ticks, faults, overlapped>>

(* RecordFailedLogin: the transaction reads the counter ... *)
CountFailures(a) ==
    /\ Trying(a, "count")
    /\ Becomes(a, [pc |-> "record", failed |-> failed, stale |-> FALSE])
    /\ UNCHANGED <<account, session, request, streak, bounds, overlapped>>

(* Mutants: one failure more than configured, and that very failure only. *)
LocksLate(n) == Threshold > 0 /\ n > Threshold
LocksOnce(n) == Threshold > 0 /\ n = Threshold

Locks(n) == Threshold > 0 /\ n >= Threshold

(* ... and writes it back with the lock, or without: locked_until becomes NULL
   below the threshold.  SQLite refuses a write from a stale snapshot, and the
   failure is only logged; PostgreSQL, at READ COMMITTED, does not. *)
RecordFailure(a) ==
    LET n == attempt[a].failed + 1 IN
    /\ Trying(a, "record")
    /\ IF dialect = "sqlite" /\ attempt[a].stale
       THEN Becomes(a, Idle) /\ UNCHANGED <<account, overlapped>>
       ELSE /\ failed' = n
            /\ locked' = IF Locks(n) THEN LockFor ELSE 0
            /\ Committed(a, Idle)
    /\ streak' = streak + 1
    /\ UNCHANGED <<session, request, bounds>>

(* RecordSuccessfulLogin *)
RecordSuccess(a) ==
    /\ Trying(a, "clear")
    /\ failed' = 0 /\ locked' = 0 /\ streak' = 0
    /\ Committed(a, [pc |-> "issue"])
    /\ UNCHANGED <<session, request, bounds>>

(* Issue: the browser leaves a session it has for the new one. *)
Issue(a, b) ==
    /\ Trying(a, "issue") /\ Asking(b, "idle")
    /\ session' = [session EXCEPT ![b] = NewSession]
    /\ Committed(a, Idle)
    /\ UNCHANGED <<account, request, streak, bounds>>

(* A statement fails: not having recorded a failure or a success is only logged,
   the session that was not stored ends the attempt. *)
StatementFails(a) ==
    /\ ~Trying(a, "idle")
    /\ faults < MaxFaults /\ faults' = faults + 1
    /\ Becomes(a, IF Trying(a, "clear") THEN [pc |-> "issue"] ELSE Idle)
    /\ UNCHANGED <<account, session, request, streak, guesses, ticks, overlapped>>

-----------------------------------------------------------------------------
(* Requests of a browser *)

Expired(s) == s.left = 0
IdleTooLong(s) == IdleTimeout > 0 /\ s.idle > IdleTimeout

(* Lookup: a session past its lifetime, or idle too long, is deleted. *)
Lookup(b) ==
    LET s == session[b] IN
    /\ Asking(b, "idle")
    /\ s # NoSession
    /\ IF Expired(s) \/ IdleTooLong(s)
       THEN request' = [request EXCEPT ![b].pc = "delete"] /\ UNCHANGED session
       ELSE /\ request' = [request EXCEPT ![b].pc = "touch"]
            /\ session' = [session EXCEPT ![b].quiet = 0]
    /\ UNCHANGED <<account, attempt, streak, bounds, overlapped>>

Others == UNCHANGED <<account, streak, bounds>>

(* Mutant: activity prolongs the session. *)
TouchProlongs(b) ==
    /\ Asking(b, "touch")
    /\ session' = [session EXCEPT ![b] = IF @ = NoSession THEN @
                     ELSE [@ EXCEPT !.idle = 0, !.quiet = 0, !.left = Lifetime]]
    /\ request' = [request EXCEPT ![b] = Idle]
    /\ CommittedElsewhere
    /\ Others

(* Touch, and the handler runs. *)
Touch(b) ==
    /\ Asking(b, "touch")
    /\ session' = [session EXCEPT ![b] = IF @ = NoSession THEN @
                                         ELSE [@ EXCEPT !.idle = 0, !.quiet = 0]]
    /\ request' = [request EXCEPT ![b] = Idle]
    /\ CommittedElsewhere
    /\ Others

(* The Delete of Lookup, or a sign-out. *)
DeleteSession(b) ==
    /\ Asking(b, "delete") \/ Asking(b, "touch")
    /\ session' = [session EXCEPT ![b] = NoSession]
    /\ request' = [request EXCEPT ![b] = Idle]
    /\ CommittedElsewhere
    /\ Others

(* Neither a failed Touch nor a failed Delete fails the request. *)
RequestStatementFails(b) ==
    /\ ~Asking(b, "idle")
    /\ faults < MaxFaults /\ faults' = faults + 1
    /\ request' = [request EXCEPT ![b] = Idle]
    /\ UNCHANGED <<account, attempt, session, streak, guesses, ticks, overlapped>>

Minus(n) == IF n = 0 THEN 0 ELSE n - 1

Older(s) ==
    IF s = NoSession THEN s
    ELSE [left |-> Minus(s.left), idle |-> s.idle + 1, age |-> s.age + 1, quiet |-> s.quiet + 1]

Tick ==
    /\ ticks < MaxTicks /\ ticks' = ticks + 1
    /\ locked' = Minus(locked)
    /\ session' = [b \in Browsers |-> Older(session[b])]
    /\ UNCHANGED <<failed, attempt, request, streak, guesses, faults, overlapped>>

Next ==
    /\ \/ \E a \in Attempts :
             \/ \E right \in BOOLEAN : Authenticate(a, right)
             \/ CountFailures(a) \/ RecordFailure(a) \/ RecordSuccess(a) \/ StatementFails(a)
             \/ \E b \in Browsers : Issue(a, b)
       \/ \E b \in Browsers :
             Lookup(b) \/ Touch(b) \/ DeleteSession(b) \/ RequestStatementFails(b)
       \/ Tick
    /\ UNCHANGED dialect

Spec == Init /\ [][Next]_vars

-----------------------------------------------------------------------------
(* Properties *)

(* The failure that makes it Threshold in a row, and each further one, locks the
   account for the whole duration, provided that attempts were recorded one
   after the other and no statement failed (RecordFailedLogin). *)
ThresholdLocks ==
    [][streak' > streak /\ streak' >= Threshold /\ Threshold > 0
       => locked' = LockFor \/ overlapped \/ faults > 0]_vars

(* A locked account is unlocked by time or by somebody who knows the password
   and whose attempt began before the lock.  No failed attempt that was under way
   when another one locked it, and no statement that fails, takes the lock away;
   on PostgreSQL, only if attempts were not recorded at once (RecordFailedLogin
   writes NULL below the threshold). *)
LockSticks ==
    [][locked > 0 /\ locked' = 0
       => \/ ticks' > ticks
          \/ streak' = 0
          \/ dialect = "postgres" /\ overlapped]_vars

(* A session lets requests in for its lifetime after the sign-in, however active
   the browser is, and not after a pause longer than the idle timeout, whatever
   statements failed and whichever other requests and sign-ins there were
   (Lookup, Touch). *)
SessionsEnd ==
    [][\A b \in Browsers : Asking(b, "idle") /\ Asking(b, "touch")' =>
          /\ session[b].age < Lifetime
          /\ IdleTimeout > 0 => session[b].quiet <= IdleTimeout]_vars
=============================================================================
