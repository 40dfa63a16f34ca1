---------------------------- MODULE SignInProofs ----------------------------
(***************************************************************************)
(* Proofs about SignIn, for any number of attempts and browsers and any    *)
(* threshold, durations and bounds.                                        *)
(***************************************************************************)
EXTENDS SignIn, TLAPS

AttemptState ==
    [pc : {"idle", "clear", "count", "issue"}]
        \cup [pc : {"record"}, failed : Nat, stale : BOOLEAN]
SessionState == {NoSession} \cup [left : Nat, idle : Nat, age : Nat, quiet : Nat]

TypeInv ==
    /\ dialect \in {"sqlite", "postgres"}
    /\ failed \in Nat /\ locked \in Nat /\ streak \in Nat
    /\ attempt \in [Attempts -> AttemptState]
    /\ session \in [Browsers -> SessionState]
    /\ request \in [Browsers -> [pc : {"idle", "touch", "delete"}]]
    /\ ticks \in Nat /\ faults \in Nat

(* A lock goes with a counter at the threshold.  A transaction that is recording
   a failure has read the counter that is still in the row, or is stale, and that
   means that attempts overlapped.  Without overlaps and failed statements the
   counter is the number of wrong passwords. *)
LockInv ==
    /\ locked > 0 => Locks(failed)
    /\ \A a \in Attempts : Trying(a, "record") =>
          IF attempt[a].stale THEN overlapped ELSE attempt[a].failed = failed
    /\ overlapped \/ faults > 0 \/ failed = streak

(* left and idle never grant more than the time since the sign-in and since the
   browser was seen allow. *)
SessionOK(s) ==
    \/ s = NoSession
    \/ /\ s.left = 0 \/ s.left + s.age <= Lifetime
       /\ s.quiet <= s.idle

SessionInv == \A b \in Browsers : SessionOK(session[b])
-----------------------------------------------------------------------------
(* Types *)

LEMMA AttemptStates ==
    /\ Idle \in AttemptState
    /\ [pc |-> "clear"] \in AttemptState /\ [pc |-> "count"] \in AttemptState
    /\ [pc |-> "issue"] \in AttemptState
    /\ \A n \in Nat, s \in BOOLEAN :
          [pc |-> "record", failed |-> n, stale |-> s] \in AttemptState
    /\ \A t \in AttemptState : t.pc = "record" =>
          /\ t.failed \in Nat /\ t.stale \in BOOLEAN
          /\ [t EXCEPT !.stale = TRUE] \in AttemptState
          /\ [t EXCEPT !.stale = TRUE].pc = "record"
          /\ [t EXCEPT !.stale = TRUE].stale = TRUE
BY Zenon DEF AttemptState, Idle

(* A write leaves every attempt where it is and makes those that are recording
   stale. *)
LEMMA StaleStates ==
    ASSUME TypeInv, NEW S
    PROVE  /\ Stale(S) \in [Attempts -> AttemptState]
           /\ \A a \in Attempts : Stale(S)[a].pc = attempt[a].pc
           /\ \A a \in Attempts \ S : Trying(a, "record") => Stale(S)[a].stale
           /\ \A a \in Attempts : ~Trying(a, "record") => Stale(S)[a] = attempt[a]
BY AttemptStates DEF TypeInv, Stale, Recording, Trying

LEMMA TypeInit == Init => TypeInv
<1>1. Idle \in [pc : {"idle", "touch", "delete"}] /\ NoSession \in SessionState
  BY DEF Idle, SessionState
<1> QED BY <1>1, AttemptStates DEF Init, TypeInv

LEMMA SessionStates ==
    /\ NoSession \in SessionState /\ NewSession \in SessionState
    /\ \A s \in SessionState :
          /\ Older(s) \in SessionState
          /\ s # NoSession =>
                /\ s.left \in Nat /\ s.idle \in Nat /\ s.age \in Nat /\ s.quiet \in Nat
                /\ [s EXCEPT !.quiet = 0] \in SessionState
                /\ [s EXCEPT !.idle = 0, !.quiet = 0] \in SessionState
<1> DEFINE S == [left : Nat, idle : Nat, age : Nat, quiet : Nat]
<1>1. NewSession \in S
  BY SignInAssumption DEF NewSession
<1>2. ASSUME NEW s \in S PROVE
        /\ [left |-> Minus(s.left), idle |-> s.idle + 1, age |-> s.age + 1,
            quiet |-> s.quiet + 1] \in S
        /\ [s EXCEPT !.quiet = 0] \in S
        /\ [s EXCEPT !.idle = 0, !.quiet = 0] \in S
  <2>1. /\ Minus(s.left) \in Nat
        /\ s.idle + 1 \in Nat /\ s.age + 1 \in Nat /\ s.quiet + 1 \in Nat
    BY DEF Minus
  <2>2. [s EXCEPT !.quiet = 0] \in S /\ [s EXCEPT !.idle = 0, !.quiet = 0] \in S
    BY Zenon
  <2> QED BY <2>1, <2>2
<1>3. \A s \in SessionState : s = NoSession \/ s \in S
  BY DEF SessionState
<1>4. NoSession \in SessionState /\ \A s \in S : s \in SessionState
  BY DEF SessionState
<1>5. \A s \in SessionState : Older(s) \in SessionState
  BY Zenon, <1>2, <1>3, <1>4 DEF Older
<1> QED BY Zenon, <1>1, <1>2, <1>3, <1>4, <1>5

LEMMA TypeNext == TypeInv /\ [Next]_vars => TypeInv'
<1> SUFFICES ASSUME TypeInv, [Next]_vars PROVE TypeInv'
  OBVIOUS
<1> USE AttemptStates, StaleStates, SignInAssumption DEF TypeInv
<1>0. \A n \in Nat : Minus(n) \in Nat
  BY DEF Minus
<1>1. ASSUME NEW a \in Attempts, NEW right \in BOOLEAN, Authenticate(a, right), UNCHANGED dialect
      PROVE  TypeInv'
  <2>1. [pc |-> IF right THEN "clear" ELSE "count"] \in AttemptState
    BY DEF AttemptState
  <2> QED BY <1>1, <2>1 DEF Authenticate, Becomes, account
<1>2. ASSUME NEW a \in Attempts, CountFailures(a), UNCHANGED dialect PROVE TypeInv'
  BY Zenon, <1>2 DEF CountFailures, Becomes, account, bounds
<1>3. ASSUME NEW a \in Attempts, RecordFailure(a), UNCHANGED dialect PROVE TypeInv'
  <2>1. attempt[a].failed \in Nat
    BY Zenon, <1>3 DEF RecordFailure, Trying
  <2>2. failed' \in Nat /\ locked' \in Nat /\ streak' \in Nat
    BY <1>3, <2>1 DEF RecordFailure, account
  <2>3. attempt' \in [Attempts -> AttemptState]
    <3>1. attempt' = [attempt EXCEPT ![a] = Idle] \/ attempt' = [Stale({a}) EXCEPT ![a] = Idle]
      BY Zenon, <1>3 DEF RecordFailure, Becomes, Committed
    <3> QED BY <3>1
  <2> QED BY <1>3, <2>2, <2>3 DEF RecordFailure, bounds
<1>4. ASSUME NEW a \in Attempts, RecordSuccess(a), UNCHANGED dialect PROVE TypeInv'
  BY <1>4 DEF RecordSuccess, Committed, bounds
<1>5. ASSUME NEW a \in Attempts, StatementFails(a), UNCHANGED dialect PROVE TypeInv'
  BY <1>5 DEF StatementFails, Becomes, account
<1>6. ASSUME NEW a \in Attempts, NEW b \in Browsers, Issue(a, b), UNCHANGED dialect PROVE TypeInv'
  BY Zenon, <1>6, SessionStates DEF Issue, Committed, account, bounds
<1>7. ASSUME NEW b \in Browsers, Lookup(b), UNCHANGED dialect PROVE TypeInv'
  <2>1. request' \in [Browsers -> [pc : {"idle", "touch", "delete"}]]
    BY <1>7 DEF Lookup
  <2>2. [session[b] EXCEPT !.quiet = 0] \in SessionState
    BY Zenon, <1>7, SessionStates DEF Lookup
  <2>3. session' = session \/ session' = [session EXCEPT ![b] = [session[b] EXCEPT !.quiet = 0]]
    BY <1>7 DEF Lookup
  <2>4. session' \in [Browsers -> SessionState]
    BY <2>2, <2>3
  <2> QED BY <1>7, <2>1, <2>4 DEF Lookup, account, bounds
<1>8. ASSUME NEW b \in Browsers, Touch(b), UNCHANGED dialect PROVE TypeInv'
  BY Zenon, <1>8, SessionStates DEF Touch, CommittedElsewhere, Others, Idle, account, bounds
<1>9. ASSUME NEW b \in Browsers, DeleteSession(b), UNCHANGED dialect PROVE TypeInv'
  BY Zenon, <1>9, SessionStates DEF DeleteSession, CommittedElsewhere, Others, Idle, account, bounds
<1>10. ASSUME NEW b \in Browsers, RequestStatementFails(b), UNCHANGED dialect PROVE TypeInv'
  BY <1>10 DEF RequestStatementFails, Idle, account
<1>11. ASSUME Tick, UNCHANGED dialect PROVE TypeInv'
  <2>1. session' \in [Browsers -> SessionState]
    BY Zenon, <1>11, SessionStates DEF Tick
  <2> QED BY <1>11, <1>0, <2>1 DEF Tick
<1>12. CASE UNCHANGED vars
  BY <1>12 DEF vars
<1> QED
  BY <1>1, <1>2, <1>3, <1>4, <1>5, <1>6, <1>7, <1>8, <1>9, <1>10, <1>11, <1>12 DEF Next
-----------------------------------------------------------------------------
(* The lock-out *)

LEMMA LockInit == Init => LockInv
BY DEF Init, LockInv, Trying, Idle

(* A step that writes nothing to the account, and lets no attempt begin to
   record, leaves LockInv to the attempts that were recording before. *)
LEMMA LockElsewhere ==
    ASSUME TypeInv, LockInv, UNCHANGED <<failed, locked, streak>>,
           overlapped => overlapped', faults > 0 => faults' > 0,
           \A a \in Attempts : Trying(a, "record")' =>
               /\ Trying(a, "record")
               /\ attempt'[a] = attempt[a] \/ (attempt'[a].stale /\ overlapped')
    PROVE  LockInv'
BY DEF LockInv, Trying, Locks

(* What a commit of another statement does to the attempts other than those in S. *)
LEMMA CommitMakesStale ==
    ASSUME TypeInv, NEW S, Wrote(S), NEW a \in Attempts \ S, Trying(a, "record")
    PROVE  Stale(S)[a].stale /\ overlapped'
BY Zenon, StaleStates DEF Wrote, Recording

LEMMA LockNext == TypeInv /\ LockInv /\ [Next]_vars => LockInv'
<1> SUFFICES ASSUME TypeInv, LockInv, [Next]_vars PROVE LockInv'
  OBVIOUS
<1>1. ASSUME NEW a \in Attempts, NEW right \in BOOLEAN, Authenticate(a, right) PROVE LockInv'
  <2>1. \A c \in Attempts : Trying(c, "record")' => attempt'[c] = attempt[c]
    BY <1>1 DEF Authenticate, Becomes, Trying, TypeInv
  <2> QED BY <1>1, <2>1, LockElsewhere DEF Authenticate, Trying, account
<1>2. ASSUME NEW a \in Attempts, CountFailures(a) PROVE LockInv'
  BY <1>2 DEF CountFailures, Becomes, account, bounds, LockInv, Trying, Locks, TypeInv
<1>3. ASSUME NEW a \in Attempts, RecordFailure(a) PROVE LockInv'
  <2> DEFINE n == attempt[a].failed + 1
  <2>0. attempt[a].failed \in Nat
    BY Zenon, <1>3, AttemptStates DEF RecordFailure, Trying, TypeInv
  <2>1. CASE dialect = "sqlite" /\ attempt[a].stale
    BY <1>3, <2>1 DEF RecordFailure, Becomes, LockInv, Trying, Idle, Locks, TypeInv, account,
                      bounds
  <2>2. CASE ~(dialect = "sqlite" /\ attempt[a].stale)
    <3>1. /\ failed' = n /\ locked' = (IF Locks(n) THEN LockFor ELSE 0)
          /\ streak' = streak + 1 /\ faults' = faults
          /\ attempt' = [Stale({a}) EXCEPT ![a] = Idle] /\ Wrote({a})
      BY <1>3, <2>2 DEF RecordFailure, Committed, bounds
    <3>2. locked' > 0 => Locks(failed')
      BY <3>1
    <3>3. ASSUME NEW c \in Attempts, Trying(c, "record")'
          PROVE  attempt'[c].stale /\ overlapped'
      <4>1. c # a /\ attempt'[c] = Stale({a})[c]
        BY <3>1, <3>3, StaleStates DEF Trying, Idle, TypeInv
      <4>2. Trying(c, "record")
        BY <3>3, <4>1, StaleStates DEF Trying
      <4> QED BY <3>1, <4>1, <4>2, CommitMakesStale
    <3>4. overlapped' \/ faults' > 0 \/ failed' = streak'
      BY Zenon, <1>3, <3>1, <2>0 DEF LockInv, RecordFailure, Wrote, TypeInv
    <3> QED BY <3>2, <3>3, <3>4 DEF LockInv, Locks
  <2> QED BY <2>1, <2>2
<1>4. ASSUME NEW a \in Attempts, RecordSuccess(a) PROVE LockInv'
  <2>1. ASSUME NEW c \in Attempts, Trying(c, "record")'
        PROVE  attempt'[c].stale /\ overlapped'
    <3>1. c # a /\ attempt'[c] = Stale({a})[c]
      BY <1>4, <2>1, StaleStates DEF RecordSuccess, Committed, Trying, TypeInv
    <3>2. Trying(c, "record")
      BY <2>1, <3>1, StaleStates DEF Trying
    <3> QED BY <1>4, <3>1, <3>2, CommitMakesStale DEF RecordSuccess, Committed
  <2> QED BY <1>4, <2>1 DEF RecordSuccess, LockInv
<1>5. ASSUME NEW a \in Attempts, StatementFails(a) PROVE LockInv'
  <2>1. \A c \in Attempts : Trying(c, "record")' => attempt'[c] = attempt[c]
    BY <1>5 DEF StatementFails, Becomes, Trying, TypeInv, Idle
  <2> QED BY <1>5, <2>1, LockElsewhere DEF StatementFails, Trying, account, TypeInv
<1>6. ASSUME NEW a \in Attempts, NEW b \in Browsers, Issue(a, b) PROVE LockInv'
  <2>1. ASSUME NEW c \in Attempts, Trying(c, "record")'
        PROVE  Trying(c, "record") /\ attempt'[c].stale /\ overlapped'
    <3>1. c # a /\ attempt'[c] = Stale({a})[c]
      BY <1>6, <2>1, StaleStates DEF Issue, Committed, Trying, TypeInv, Idle
    <3>2. Trying(c, "record")
      BY <2>1, <3>1, StaleStates DEF Trying
    <3> QED BY <1>6, <3>1, <3>2, CommitMakesStale DEF Issue, Committed
  <2> QED BY Zenon, <1>6, <2>1, LockElsewhere DEF Issue, Committed, Wrote, account, bounds
<1>7. ASSUME CommittedElsewhere, Others PROVE LockInv'
  <2>1. ASSUME NEW c \in Attempts, Trying(c, "record")'
        PROVE  Trying(c, "record") /\ attempt'[c].stale /\ overlapped'
    <3>1. Trying(c, "record")
      BY <1>7, <2>1, StaleStates DEF CommittedElsewhere, Trying
    <3> QED BY <1>7, <3>1, CommitMakesStale DEF CommittedElsewhere
  <2> QED BY Zenon, <1>7, <2>1, LockElsewhere DEF CommittedElsewhere, Wrote, Others, account, bounds
<1>8. ASSUME NEW b \in Browsers, Lookup(b) \/ RequestStatementFails(b) PROVE LockInv'
  BY <1>8, LockElsewhere DEF Lookup, RequestStatementFails, account, bounds, Trying, TypeInv
<1>9. ASSUME Tick PROVE LockInv'
  BY <1>9 DEF Tick, LockInv, Trying, Locks, Minus, TypeInv
<1>10. CASE UNCHANGED vars
  BY <1>10 DEF vars, LockInv, Trying, Locks
<1> QED
  BY Zenon, <1>1, <1>2, <1>3, <1>4, <1>5, <1>6, <1>7, <1>8, <1>9, <1>10 DEF Next, Touch, DeleteSession

LEMMA AccountSteps ==
    ASSUME Next
    PROVE  \/ \E a \in Attempts : RecordFailure(a)
           \/ streak' = 0
           \/ Tick /\ UNCHANGED streak
           \/ UNCHANGED <<locked, streak>>
<1>1. ASSUME NEW a \in Attempts, NEW right \in BOOLEAN, Authenticate(a, right)
      PROVE  UNCHANGED <<locked, streak>>
  BY <1>1 DEF Authenticate, account
<1>2. ASSUME NEW a \in Attempts, CountFailures(a) \/ StatementFails(a)
      PROVE  UNCHANGED <<locked, streak>>
  BY <1>2 DEF CountFailures, StatementFails, account
<1>3. ASSUME NEW a \in Attempts, RecordSuccess(a) PROVE streak' = 0
  BY <1>3 DEF RecordSuccess
<1>4. ASSUME NEW a \in Attempts, NEW b \in Browsers, Issue(a, b)
      PROVE  UNCHANGED <<locked, streak>>
  BY <1>4 DEF Issue, account
<1>5. ASSUME NEW b \in Browsers,
             Lookup(b) \/ Touch(b) \/ DeleteSession(b) \/ RequestStatementFails(b)
      PROVE  UNCHANGED <<locked, streak>>
  BY <1>5 DEF Lookup, Touch, DeleteSession, RequestStatementFails, Others, account
<1>6. ASSUME Tick PROVE UNCHANGED streak
  BY <1>6 DEF Tick
<1> QED BY <1>1, <1>2, <1>3, <1>4, <1>5, <1>6 DEF Next

(* Every failed attempt from the threshold on locks the account, as long as
   attempts are recorded one after the other: for any number of attempts. *)
THEOREM ThresholdCorrect == Spec => ThresholdLocks
<1>1. TypeInv /\ LockInv /\ [Next]_vars =>
        [streak' > streak /\ streak' >= Threshold /\ Threshold > 0
           => locked' = LockFor \/ overlapped \/ faults > 0]_vars
  <2> SUFFICES ASSUME TypeInv, LockInv, Next, streak' > streak, streak' >= Threshold,
                      Threshold > 0, ~overlapped, ~(faults > 0)
               PROVE  locked' = LockFor
    OBVIOUS
  <2>1. PICK a \in Attempts : RecordFailure(a)
    BY AccountSteps DEF TypeInv
  <2>2. attempt[a].failed = streak
    BY <2>1 DEF RecordFailure, LockInv
  <2> QED BY <2>1, <2>2, SignInAssumption DEF RecordFailure, LockInv, Locks, TypeInv
<1> QED BY <1>1, TypeInit, TypeNext, LockInit, LockNext, PTL DEF Spec, ThresholdLocks

(* Nothing but time, or the password, unlocks a locked account, unless attempts
   were recorded at once on PostgreSQL: for any number of attempts. *)
THEOREM LockCorrect == Spec => LockSticks
<1>1. TypeInv /\ LockInv /\ [Next]_vars =>
        [locked > 0 /\ locked' = 0
           => \/ ticks' > ticks
              \/ streak' = 0
              \/ dialect = "postgres" /\ overlapped]_vars
  <2> SUFFICES ASSUME TypeInv, LockInv, Next, locked > 0, locked' = 0,
                      ~(ticks' > ticks), streak' # 0
               PROVE  dialect = "postgres" /\ overlapped
    OBVIOUS
  <2>1. PICK a \in Attempts : RecordFailure(a)
    BY AccountSteps DEF Tick, TypeInv
  <2>2. attempt[a].failed \in Nat
    BY Zenon, <2>1, AttemptStates DEF RecordFailure, Trying, TypeInv
  <2>3. attempt[a].stale
    BY <2>1, <2>2, SignInAssumption DEF RecordFailure, LockInv, Locks, TypeInv, account
  <2> QED BY <2>1, <2>3 DEF RecordFailure, LockInv, TypeInv, account
<1> QED BY <1>1, TypeInit, TypeNext, LockInit, LockNext, PTL DEF Spec, LockSticks

-----------------------------------------------------------------------------
(* The end of sessions *)

LEMMA SessionInit == Init => SessionInv
BY DEF Init, SessionInv, SessionOK

LEMMA SessionSteps ==
    /\ SessionOK(NoSession) /\ SessionOK(NewSession)
    /\ \A s \in SessionState : SessionOK(s) =>
          /\ SessionOK(Older(s))
          /\ s # NoSession =>
                /\ SessionOK([s EXCEPT !.quiet = 0])
                /\ SessionOK([s EXCEPT !.idle = 0, !.quiet = 0])
<1>1. SessionOK(NoSession) /\ SessionOK(NewSession)
  BY SignInAssumption DEF SessionOK, NewSession
<1>2. ASSUME NEW s \in [left : Nat, idle : Nat, age : Nat, quiet : Nat],
             s.left = 0 \/ s.left + s.age <= Lifetime, s.quiet <= s.idle
      PROVE  /\ SessionOK([left |-> Minus(s.left), idle |-> s.idle + 1, age |-> s.age + 1,
                           quiet |-> s.quiet + 1])
             /\ SessionOK([s EXCEPT !.quiet = 0])
             /\ SessionOK([s EXCEPT !.idle = 0, !.quiet = 0])
  BY <1>2, SignInAssumption DEF SessionOK, Minus
<1> QED BY Zenon, <1>1, <1>2 DEF SessionState, SessionOK, Older

(* What a step does to a browser and its session. *)
LEMMA BrowserSteps ==
    ASSUME TypeInv, Next, NEW b \in Browsers
    PROVE  \/ Lookup(b) \/ Touch(b)
           \/ /\ session'[b] \in {session[b], NoSession, NewSession, Older(session[b])}
              /\ request'[b] \in {request[b], Idle}
<1> DEFINE Elsewhere == /\ session'[b] \in {session[b], NoSession, NewSession, Older(session[b])}
                        /\ request'[b] \in {request[b], Idle}
<1>1. ASSUME NEW a \in Attempts, NEW right \in BOOLEAN, Authenticate(a, right) PROVE Elsewhere
  BY <1>1 DEF Authenticate
<1>2. ASSUME NEW a \in Attempts,
             CountFailures(a) \/ RecordFailure(a) \/ RecordSuccess(a) \/ StatementFails(a)
      PROVE  Elsewhere
  BY <1>2 DEF CountFailures, RecordFailure, RecordSuccess, StatementFails
<1>3. ASSUME NEW a \in Attempts, NEW c \in Browsers, Issue(a, c) PROVE Elsewhere
  BY <1>3 DEF Issue, TypeInv
<1>4. ASSUME NEW c \in Browsers, c # b, Lookup(c) PROVE Elsewhere
  BY <1>4 DEF Lookup, TypeInv
<1>5. ASSUME NEW c \in Browsers, c # b, Touch(c) PROVE Elsewhere
  BY <1>5 DEF Touch, TypeInv
<1>6. ASSUME NEW c \in Browsers, DeleteSession(c) PROVE Elsewhere
  BY <1>6 DEF DeleteSession, TypeInv
<1>7. ASSUME NEW c \in Browsers, RequestStatementFails(c) PROVE Elsewhere
  BY <1>7 DEF RequestStatementFails, TypeInv
<1>8. ASSUME Tick PROVE Elsewhere
  BY <1>8 DEF Tick
<1> QED BY <1>1, <1>2, <1>3, <1>4, <1>5, <1>6, <1>7, <1>8 DEF Next

LEMMA SessionNext == TypeInv /\ SessionInv /\ [Next]_vars => SessionInv'
<1> SUFFICES ASSUME TypeInv, SessionInv, [Next]_vars, NEW b \in Browsers
             PROVE  SessionOK(session'[b])
  BY DEF SessionInv
<1>0. SessionOK(session[b]) /\ session[b] \in SessionState
  BY DEF SessionInv, TypeInv
<1>1. \/ session'[b] \in {session[b], NoSession, NewSession, Older(session[b])}
      \/ /\ session[b] # NoSession
         /\ session'[b] \in {[session[b] EXCEPT !.quiet = 0],
                             [session[b] EXCEPT !.idle = 0, !.quiet = 0]}
  <2>1. CASE Lookup(b)
    BY <2>1 DEF Lookup, TypeInv
  <2>2. CASE Touch(b)
    BY <2>2 DEF Touch, TypeInv
  <2>3. CASE UNCHANGED vars
    BY <2>3 DEF vars
  <2> QED BY <2>1, <2>2, <2>3, BrowserSteps
<1> QED BY Zenon, <1>0, <1>1, SessionSteps

(* No request is let in after the lifetime of the session or after too long a
   pause: for any number of browsers and any interleaving of their requests. *)
THEOREM SessionsCorrect == Spec => SessionsEnd
<1>1. TypeInv /\ SessionInv /\ [Next]_vars =>
        [\A b \in Browsers : Asking(b, "idle") /\ Asking(b, "touch")' =>
            /\ session[b].age < Lifetime
            /\ IdleTimeout > 0 => session[b].quiet <= IdleTimeout]_vars
  <2> SUFFICES ASSUME TypeInv, SessionInv, Next, NEW b \in Browsers,
                      Asking(b, "idle"), Asking(b, "touch")'
               PROVE  /\ session[b].age < Lifetime
                      /\ IdleTimeout > 0 => session[b].quiet <= IdleTimeout
    OBVIOUS
  <2>1. Lookup(b) /\ ~Expired(session[b]) /\ ~IdleTooLong(session[b])
    <3>1. Lookup(b)
      BY Zenon, BrowserSteps DEF Touch, Asking, Idle, TypeInv
    <3> QED BY <3>1 DEF Lookup, Asking, TypeInv
  <2>2. session[b] # NoSession /\ SessionOK(session[b]) /\ session[b] \in SessionState
    BY <2>1 DEF Lookup, SessionInv, TypeInv
  <2>3. /\ session[b].left \in Nat /\ session[b].idle \in Nat
        /\ session[b].age \in Nat /\ session[b].quiet \in Nat
    BY Zenon, <2>2, SessionStates
  <2>4. /\ session[b].left # 0
        /\ IdleTimeout > 0 => ~(session[b].idle > IdleTimeout)
    BY <2>1 DEF Expired, IdleTooLong
  <2>5. session[b].left + session[b].age <= Lifetime /\ session[b].quiet <= session[b].idle
    BY <2>2, <2>4 DEF SessionOK
  <2>6. Lifetime \in Nat /\ IdleTimeout \in Nat
    BY SignInAssumption
  <2> QED BY <2>3, <2>4, <2>5, <2>6
<1> QED BY <1>1, TypeInit, TypeNext, SessionInit, SessionNext, PTL DEF Spec, SessionsEnd
=============================================================================
