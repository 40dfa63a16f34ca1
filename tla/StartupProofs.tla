--------------------------- MODULE StartupProofs ----------------------------
(***************************************************************************)
(* Proofs about Startup, for any number of replicas, of any versions, any  *)
(* number of migrations, requests and faults, and any bootstrap files.     *)
(***************************************************************************)
EXTENDS Startup, TLAPS

Later == {"resolve", "look", "write", "link", "allow", "up"}

(* What a replica has seen of the schema is in the database, and one that is past
   the migrations has seen all of its own. *)
BootOK(p) ==
    /\ "pc" \in DOMAIN boot[p]
    /\ boot[p].pc = "migrate" =>
          "seen" \in DOMAIN boot[p] /\ boot[p].seen \in Nat /\ boot[p].seen <= schema
    /\ boot[p].pc \in Later => Version[p] <= schema

MigrationsInv ==
    /\ schema \in Nat
    /\ ran \in [1 .. Newest -> {0, 1}]
    /\ \A v \in 1 .. Newest : ran[v] = IF v <= schema THEN 1 ELSE 0
    /\ boot = [p \in Replicas |-> boot[p]]
    /\ \A p \in Replicas : BootOK(p)

-----------------------------------------------------------------------------
LEMMA MigrationsInit == Init => MigrationsInv
<1> SUFFICES ASSUME Init PROVE MigrationsInv
  OBVIOUS
<1>1. PICK old \in SUBSET {p \in Replicas : Version[p] <= schema} :
          boot = [p \in Replicas |-> IF p \in old THEN Serving ELSE Stopped]
  BY Zenon DEF Init
<1>2. schema \in Nat
  BY DEF Init
<1>3. \A p \in Replicas : BootOK(p)
  BY <1>1 DEF BootOK, Later, Serving, Stopped
<1>4. boot = [p \in Replicas |-> boot[p]]
  BY Zenon, <1>1
<1> QED BY <1>2, <1>3, <1>4 DEF Init, MigrationsInv

(* A step of one replica that leaves the schema alone. *)
LEMMA OneReplica ==
    ASSUME MigrationsInv, NEW p \in Replicas, UNCHANGED <<schema, ran>>,
           NEW b, boot' = [boot EXCEPT ![p] = b], "pc" \in DOMAIN b,
           b.pc = "migrate" => "seen" \in DOMAIN b /\ b.seen \in Nat /\ b.seen <= schema,
           b.pc \in Later => Version[p] <= schema
    PROVE  MigrationsInv'
<1>1. boot' = [q \in Replicas |-> boot'[q]] /\ boot'[p] = b
      /\ \A q \in Replicas \ {p} : boot'[q] = boot[q]
  BY DEF MigrationsInv
<1>2. \A q \in Replicas : BootOK(q)'
  BY <1>1 DEF MigrationsInv, BootOK
<1> QED BY <1>1, <1>2 DEF MigrationsInv

LEMMA MigrateStep ==
    ASSUME MigrationsInv, NEW p \in Replicas, Start(p) \/ RunUp(p) \/ Migrated(p) \/ Stops(p)
    PROVE  MigrationsInv'
<1>1. BootOK(p) /\ schema \in Nat /\ Version[p] \in Nat
  BY VersionAssumption DEF MigrationsInv
<1>2. CASE Start(p)
  <2> DEFINE b == [pc |-> "migrate", seen |-> schema]
  <2>1. /\ boot' = [boot EXCEPT ![p] = b] /\ UNCHANGED <<schema, ran>>
        /\ "pc" \in DOMAIN b /\ b.pc = "migrate" /\ "seen" \in DOMAIN b /\ b.seen = schema
    BY <1>2 DEF Start, Becomes
  <2>2. b.seen \in Nat /\ b.seen <= schema /\ b.pc \notin Later
    BY <1>1, <2>1 DEF Later
  <2> HIDE DEF b
  <2> QED BY Zenon, <2>1, <2>2, OneReplica
<1>3. CASE boot' = [boot EXCEPT ![p] = Stopped] /\ UNCHANGED <<schema, ran>>
  <2>1. "pc" \in DOMAIN Stopped /\ Stopped.pc # "migrate" /\ Stopped.pc \notin Later
    BY DEF Stopped, Later
  <2> QED BY Zenon, <1>3, <2>1, OneReplica
<1>4. CASE Migrated(p)
  <2> DEFINE b == IF file.order = << >> THEN Serving ELSE Applier(1, [n \in Names |-> NoId])
  <2>1. Version[p] <= schema
    BY <1>1, <1>4 DEF Migrated, Is, BootOK
  <2>2. boot' = [boot EXCEPT ![p] = b] /\ UNCHANGED <<schema, ran>>
    BY <1>4 DEF Migrated, Becomes
  <2>3. "pc" \in DOMAIN b /\ b.pc \in {"up", "resolve"}
    BY DEF Serving, Applier
  <2> HIDE DEF b
  <2> QED BY Zenon, <2>1, <2>2, <2>3, OneReplica
<1>5. CASE RunUp(p) /\ schema < boot[p].seen + 1
  <2> DEFINE v == boot[p].seen + 1
  <2>1. boot[p].seen = schema /\ v = schema + 1 /\ "seen" \in DOMAIN boot[p]
        /\ boot[p].pc = "migrate" /\ "pc" \in DOMAIN boot[p]
    BY <1>1, <1>5 DEF RunUp, Is, BootOK
  <2>2. schema' = schema + 1 /\ ran' = [ran EXCEPT ![schema + 1] = @ + 1]
        /\ boot' = [boot EXCEPT ![p].seen = schema + 1]
    BY <1>5, <2>1 DEF RunUp
  <2>3. ASSUME NEW w \in 1 .. Newest
        PROVE  ran'[w] = IF w <= schema' THEN 1 ELSE 0
    BY <1>1, <2>2, <2>3 DEF MigrationsInv
  <2>4. ran' \in [1 .. Newest -> {0, 1}]
    BY Zenon, <2>2, <2>3 DEF MigrationsInv
  <2>5. \A q \in Replicas : BootOK(q)'
    <3>1. \A q \in Replicas \ {p} : boot'[q] = boot[q]
      BY <2>2 DEF MigrationsInv
    <3>2. boot'[p] = [boot[p] EXCEPT !.seen = schema + 1]
      BY <2>2 DEF MigrationsInv
    <3>3. BootOK(p)'
      BY <1>1, <2>1, <2>2, <3>2 DEF BootOK, Later
    <3>4. ASSUME NEW q \in Replicas \ {p}
          PROVE  BootOK(q)'
      BY <1>1, <2>2, <3>1, VersionAssumption DEF MigrationsInv, BootOK
    <3> QED BY <3>3, <3>4
  <2> QED BY <1>1, <2>2, <2>3, <2>4, <2>5 DEF MigrationsInv
<1> QED BY <1>2, <1>3, <1>4, <1>5 DEF RunUp, Stops, Becomes

(* The steps of the Applier: none of them leads back to the migrations. *)
LEMMA ApplyStep ==
    ASSUME MigrationsInv, NEW p \in Replicas,
           Resolve(p) \/ LookUp(p) \/ Write(p) \/ LinkMailboxes(p) \/ AllowSenders(p)
    PROVE  MigrationsInv'
<1>1. /\ BootOK(p) /\ boot[p].pc \in Later /\ UNCHANGED <<schema, ran>>
      /\ Version[p] <= schema /\ "pc" \in DOMAIN boot[p]
  BY DEF MigrationsInv, BootOK, Later, Is, Resolve, LookUp, Write, LinkMailboxes, AllowSenders
<1>2. ASSUME NEW b, boot' = [boot EXCEPT ![p] = b], "pc" \in DOMAIN b,
             b.pc \in {"down", "look", "resolve", "write", "link", "allow", "up"}
      PROVE  MigrationsInv'
  BY Zenon, <1>1, <1>2, OneReplica
<1>3. ASSUME Becomes(p, Stopped)
      PROVE  MigrationsInv'
  <2>1. "pc" \in DOMAIN Stopped /\ Stopped.pc = "down"
    BY DEF Stopped
  <2> QED BY Zenon, <1>2, <1>3, <2>1 DEF Becomes
<1>4. ASSUME NEW pc \in {"look", "allow"}, boot' = [boot EXCEPT ![p].pc = pc]
      PROVE  MigrationsInv'
  <2> DEFINE b == [boot[p] EXCEPT !.pc = pc]
  <2>1. boot' = [boot EXCEPT ![p] = b] /\ "pc" \in DOMAIN b /\ b.pc = pc
    BY <1>1, <1>4
  <2> HIDE DEF b
  <2> QED BY Zenon, <1>2, <2>1
<1>5. ASSUME NEW ids, Applied(p, ids)
      PROVE  MigrationsInv'
  <2> DEFINE b == IF boot[p].at < Len(file.order) THEN Applier(boot[p].at + 1, ids) ELSE Serving
  <2>1. boot' = [boot EXCEPT ![p] = b] /\ "pc" \in DOMAIN b /\ b.pc \in {"resolve", "up"}
    BY <1>5 DEF Applied, Becomes, Applier, Serving
  <2> HIDE DEF b
  <2> QED BY Zenon, <1>2, <2>1
<1>6. CASE Resolve(p)
  <2>1. ASSUME NEW row, boot' = [boot EXCEPT ![p].ids = Known(p, row.name, row.id)]
        PROVE  MigrationsInv'
    <3> DEFINE b == [boot[p] EXCEPT !.ids = Known(p, row.name, row.id)]
    <3>1. boot' = [boot EXCEPT ![p] = b] /\ "pc" \in DOMAIN b /\ b.pc = "resolve"
      BY <1>1, <1>6, <2>1 DEF Resolve, Is
    <3> HIDE DEF b
    <3> QED BY Zenon, <1>2, <3>1
  <2>2. \/ boot' = [boot EXCEPT ![p].pc = "look"] \/ Becomes(p, Stopped)
        \/ \E row : boot' = [boot EXCEPT ![p].ids = Known(p, row.name, row.id)]
    BY Zenon, <1>6 DEF Resolve
  <2> QED BY Zenon, <1>3, <1>4, <2>1, <2>2
<1>7. CASE LookUp(p)
  <2>1. ASSUME NEW row, Writes(p, row)
        PROVE  MigrationsInv'
    <3> DEFINE b == [pc |-> "write", row |-> row, at |-> boot[p].at, ids |-> boot[p].ids]
    <3>1. boot' = [boot EXCEPT ![p] = b] /\ "pc" \in DOMAIN b /\ b.pc = "write"
      BY <2>1 DEF Writes, Becomes
    <3> HIDE DEF b
    <3> QED BY Zenon, <1>2, <3>1
  <2> QED BY Zenon, <1>5, <1>7, <2>1 DEF LookUp
<1>8. CASE Write(p)
  <2>1. ASSUME NEW id, Written(p, id)
        PROVE  MigrationsInv'
    <3>1. CASE Object(p) \in Accounts
      <4> DEFINE b == [pc |-> "link", id |-> id, at |-> boot[p].at, ids |-> boot[p].ids]
      <4>1. boot' = [boot EXCEPT ![p] = b] /\ "pc" \in DOMAIN b /\ b.pc = "link"
        BY <2>1, <3>1 DEF Written
      <4> HIDE DEF b
      <4> QED BY Zenon, <1>2, <4>1
    <3>2. CASE Object(p) \notin Accounts
      BY <1>5, <2>1, <3>2 DEF Written
    <3> QED BY <3>1, <3>2
  <2>2. Becomes(p, Stopped) \/ \E id : Written(p, id)
    BY <1>8 DEF Write
  <2> QED BY <1>3, <2>1, <2>2
<1>9. CASE LinkMailboxes(p)
  BY <1>3, <1>4, <1>9 DEF LinkMailboxes
<1>10. CASE AllowSenders(p)
  BY <1>3, <1>5, <1>10 DEF AllowSenders
<1> QED BY <1>6, <1>7, <1>8, <1>9, <1>10

LEMMA MigrationsNext == MigrationsInv /\ [Next]_vars => MigrationsInv'
<1> SUFFICES ASSUME MigrationsInv, [Next]_vars PROVE MigrationsInv'
  OBVIOUS
<1>1. ASSUME NEW p \in Replicas, Boots(p) \/ Ends(p)
      PROVE  MigrationsInv'
  BY <1>1, MigrateStep, ApplyStep DEF Boots, Ends, BootStep
<1>2. ASSUME UNCHANGED start
      PROVE  MigrationsInv'
  BY <1>2 DEF start, MigrationsInv, BootOK
<1>3. CASE UNCHANGED vars
  BY <1>2, <1>3 DEF vars
<1> QED BY <1>1, <1>2, <1>3 DEF Next, Arrives, Serves, Fails, Purges

(* runUp commits the script of every migration once, whichever replicas start
   together and wherever they end, and a replica is only past the migrations if
   the schema has all of its own. *)
THEOREM MigrationsCorrect == Spec => []MigrationsRunOnce
<1>1. MigrationsInv => MigrationsRunOnce
  <2> SUFFICES ASSUME MigrationsInv PROVE MigrationsRunOnce
    OBVIOUS
  <2>1. \A v \in DOMAIN ran : ran[v] = IF v <= schema THEN 1 ELSE 0
    BY DEF MigrationsInv
  <2>2. \A p \in Up \cup Applying : schema >= Version[p]
    BY VersionAssumption DEF MigrationsInv, BootOK, Up, Applying, Is, Later
  <2> QED BY <2>1, <2>2 DEF MigrationsRunOnce
<1> QED BY <1>1, MigrationsInit, MigrationsNext, PTL DEF Spec

-----------------------------------------------------------------------------
(* Test mails: what was queued has a reservation, which nothing takes away. *)
TestsInv ==
    /\ mailed \in [TestIds -> {0, 1}]
    /\ tests = [k \in TestIds |-> tests[k]]
    /\ \A k \in TestIds : mailed[k] = 1 => "message" \in DOMAIN tests[k]

LEMMA TestsInit == Init => TestsInv
BY DEF Init, TestsInv

LEMMA EnqueueStep ==
    ASSUME TestsInv, NEW r \in Requests, EnqueueDiagnostic(r)
    PROVE  TestsInv'
<1> DEFINE w == req[r].with
           t == [mailbox |-> req[r].row.id, message |-> TRUE]
<1>1. CASE UNCHANGED <<tests, mailed>>
  BY <1>1 DEF TestsInv
<1>2. CASE ~UNCHANGED <<tests, mailed>>
  <2>1. /\ tests[w] = NoTest
        /\ tests' = [tests EXCEPT ![w] = t] /\ mailed' = [mailed EXCEPT ![w] = @ + 1]
    BY <1>2 DEF EnqueueDiagnostic
  <2>2. "message" \notin DOMAIN NoTest /\ "message" \in DOMAIN t
    BY DEF NoTest
  <2> HIDE DEF t, w
  <2>3. w \in TestIds => mailed[w] = 0
    BY <2>1, <2>2 DEF TestsInv
  <2>4. mailed' \in [TestIds -> {0, 1}]
    <3>1. CASE w \in TestIds
      <4>1. mailed[w] + 1 = 1
        BY <2>3, <3>1
      <4>2. mailed' = [mailed EXCEPT ![w] = mailed[w] + 1]
        BY <2>1
      <4>3. mailed'[w] = 1 /\ \A k \in TestIds \ {w} : mailed'[k] = mailed[k]
        BY <3>1, <4>1, <4>2 DEF TestsInv
      <4>4. mailed' = [k \in TestIds |-> mailed'[k]]
        BY Zenon, <4>2 DEF TestsInv
      <4> QED BY <4>3, <4>4 DEF TestsInv
    <3>2. CASE w \notin TestIds
      BY Zenon, <2>1, <3>2 DEF TestsInv
    <3> QED BY <3>1, <3>2
  <2>5. tests' = [k \in TestIds |-> tests'[k]]
    BY <2>1 DEF TestsInv
  <2>6. \A k \in TestIds : mailed'[k] = 1 => "message" \in DOMAIN tests'[k]
    BY <2>1, <2>2 DEF TestsInv
  <2> QED BY <2>4, <2>5, <2>6 DEF TestsInv
<1> QED BY <1>1, <1>2

LEMMA PurgeStep ==
    ASSUME TestsInv, NEW k \in TestIds, PurgeTest(k)
    PROVE  TestsInv'
<1>1. tests' = [tests EXCEPT ![k] = [tests[k] EXCEPT !.message = FALSE]] /\ UNCHANGED mailed
  BY DEF PurgeTest
<1>2. DOMAIN [tests[k] EXCEPT !.message = FALSE] = DOMAIN tests[k]
  OBVIOUS
<1> QED BY Zenon, <1>1, <1>2 DEF TestsInv

LEMMA TestsNext == TestsInv /\ [Next]_vars => TestsInv'
<1> SUFFICES ASSUME TestsInv, [Next]_vars PROVE TestsInv'
  OBVIOUS
<1>1. ASSUME UNCHANGED <<tests, mailed>>
      PROVE  TestsInv'
  BY <1>1 DEF TestsInv
<1>2. ASSUME NEW p \in Replicas, Boots(p) \/ Ends(p) \/ \E r \in Requests : Arrives(r, p)
      PROVE  TestsInv'
  BY <1>1, <1>2 DEF Boots, Ends, Arrives, Request, api
<1>3. ASSUME NEW r \in Requests, Serves(r) \/ Fails(r)
      PROVE  TestsInv'
  BY <1>1, <1>3, EnqueueStep DEF Serves, Fails, Handler, RequestFails
<1>4. ASSUME NEW k \in TestIds, Purges(k)
      PROVE  TestsInv'
  BY <1>4, PurgeStep DEF Purges
<1>5. CASE UNCHANGED vars
  BY <1>1, <1>5 DEF vars, api
<1> QED BY <1>2, <1>3, <1>4, <1>5 DEF Next

(* EnqueueDiagnostic queues one test mail per identifier, however often the
   request is repeated, and also once the first mail has been purged. *)
THEOREM TestMailCorrect == Spec => []OneTestMail
<1>1. TestsInv => OneTestMail
  BY DEF TestsInv, OneTestMail
<1> QED BY <1>1, TestsInit, TestsNext, PTL DEF Spec

-----------------------------------------------------------------------------
(* Apply-once: a replica only ever writes rows that are new. *)
AddsInv ==
    /\ MigrationsInv
    /\ ~reconcile => \A p \in Replicas : boot[p].pc = "write" => boot[p].row.id = NoId

LEMMA AppliedLeads ==
    ASSUME MigrationsInv, NEW p \in Replicas, NEW ids, Applied(p, ids)
    PROVE  boot'[p].pc # "write" /\ \A q \in Replicas \ {p} : boot'[q] = boot[q]
<1> DEFINE b == IF boot[p].at < Len(file.order) THEN Applier(boot[p].at + 1, ids) ELSE Serving
<1>1. boot' = [boot EXCEPT ![p] = b] /\ b.pc \in {"resolve", "up"}
  BY DEF Applied, Becomes, Applier, Serving
<1> HIDE DEF b
<1> QED BY <1>1 DEF MigrationsInv

LEMMA OnlyLookUpWrites ==
    ASSUME MigrationsInv, NEW p \in Replicas, BootStep(p) \/ Stops(p)
    PROVE  /\ \A q \in Replicas \ {p} : boot'[q] = boot[q]
           /\ boot'[p].pc = "write" => LookUp(p)
<1>1. boot = [q \in Replicas |-> boot[q]] /\ "pc" \in DOMAIN boot[p]
  BY DEF MigrationsInv, BootOK
<1>2. CASE Becomes(p, Stopped)
  BY <1>1, <1>2 DEF Becomes, Stopped
<1>3. CASE Start(p)
  BY <1>1, <1>3 DEF Start, Becomes
<1>4. CASE RunUp(p) /\ ~Becomes(p, Stopped)
  <2>1. boot' = [boot EXCEPT ![p] = [boot[p] EXCEPT !.seen = boot[p].seen + 1]]
        /\ boot[p].pc = "migrate"
    BY <1>4 DEF RunUp, Is
  <2>2. [boot[p] EXCEPT !.seen = boot[p].seen + 1].pc = "migrate"
    BY <1>1, <2>1
  <2> QED BY <1>1, <2>1, <2>2
<1>5. CASE Migrated(p)
  <2> DEFINE b == IF file.order = << >> THEN Serving ELSE Applier(1, [n \in Names |-> NoId])
  <2>1. boot' = [boot EXCEPT ![p] = b] /\ b.pc # "write"
    BY <1>5 DEF Migrated, Becomes, Serving, Applier
  <2> HIDE DEF b
  <2> QED BY <1>1, <2>1
<1>6. ASSUME NEW pc \in {"look", "allow"}, boot' = [boot EXCEPT ![p].pc = pc]
      PROVE  boot'[p].pc # "write" /\ \A q \in Replicas \ {p} : boot'[q] = boot[q]
  BY <1>1, <1>6
<1>7. CASE Resolve(p) /\ ~Becomes(p, Stopped)
  <2>1. ASSUME NEW row, boot' = [boot EXCEPT ![p].ids = Known(p, row.name, row.id)]
        PROVE  boot'[p].pc # "write" /\ \A q \in Replicas \ {p} : boot'[q] = boot[q]
    BY <1>1, <1>7, <2>1 DEF Resolve, Is
  <2>2. \/ boot' = [boot EXCEPT ![p].pc = "look"]
        \/ \E row : boot' = [boot EXCEPT ![p].ids = Known(p, row.name, row.id)]
    BY Zenon, <1>7 DEF Resolve
  <2> QED BY Zenon, <1>6, <2>1, <2>2
<1>8. CASE LookUp(p)
  <2>1. ASSUME NEW row, Writes(p, row)
        PROVE  \A q \in Replicas \ {p} : boot'[q] = boot[q]
    BY <1>1, <2>1 DEF Writes, Becomes
  <2> QED BY Zenon, <1>8, <2>1, AppliedLeads DEF LookUp
<1>9. CASE Write(p) /\ ~Becomes(p, Stopped)
  <2>1. PICK id : Written(p, id)
    BY <1>9 DEF Write
  <2>2. CASE Object(p) \in Accounts
    <3> DEFINE b == [pc |-> "link", id |-> id, at |-> boot[p].at, ids |-> boot[p].ids]
    <3>1. boot' = [boot EXCEPT ![p] = b] /\ b.pc = "link"
      BY <2>1, <2>2 DEF Written
    <3> HIDE DEF b
    <3> QED BY <1>1, <3>1
  <2>3. CASE Object(p) \notin Accounts
    BY <2>1, <2>3, AppliedLeads DEF Written
  <2> QED BY <2>2, <2>3
<1>10. CASE LinkMailboxes(p) /\ ~Becomes(p, Stopped)
  BY <1>6, <1>10 DEF LinkMailboxes
<1>11. CASE AllowSenders(p) /\ ~Becomes(p, Stopped)
  BY <1>11, AppliedLeads DEF AllowSenders
<1> QED BY <1>2, <1>3, <1>4, <1>5, <1>7, <1>8, <1>9, <1>10, <1>11 DEF BootStep, Stops

LEMMA AddsNext == AddsInv /\ [Next]_vars => AddsInv'
<1> SUFFICES ASSUME AddsInv, [Next]_vars PROVE AddsInv'
  OBVIOUS
<1>1. MigrationsInv /\ MigrationsInv'
  BY MigrationsNext DEF AddsInv
<1>2. UNCHANGED reconcile
  BY Zenon DEF Next, vars, Boots, Ends, Arrives, Serves, Fails, Purges, Recorded
<1>3. CASE UNCHANGED start
  BY <1>1, <1>2, <1>3 DEF start, AddsInv
<1>4. ASSUME NEW p \in Replicas, BootStep(p) \/ Stops(p)
      PROVE  AddsInv'
  <2> SUFFICES ASSUME ~reconcile, boot'[p].pc = "write"
               PROVE  boot'[p].row.id = NoId
    BY <1>1, <1>2, <1>4, OnlyLookUpWrites DEF AddsInv
  <2>1. LookUp(p)
    BY <1>1, <1>4, OnlyLookUpWrites
  <2>2. Writes(p, NewRow(p))
    BY <1>1, <2>1, AppliedLeads DEF LookUp
  <2>3. boot' = [boot EXCEPT ![p] =
            [pc |-> "write", row |-> NewRow(p), at |-> boot[p].at, ids |-> boot[p].ids]]
    BY <2>2 DEF Writes, Becomes
  <2>4. boot'[p].row = NewRow(p)
    BY <1>1, <2>3 DEF MigrationsInv
  <2> QED BY <2>4 DEF NewRow
<1> QED BY <1>3, <1>4 DEF Next, vars, Boots, Ends, Arrives, Serves, Fails, Purges

(* With bootstrap.mode: apply-once the Applier only inserts, and links and allows
   senders only for the account it has inserted itself. *)
THEOREM ApplyOnceCorrect == Spec => ApplyOnceOnlyAdds
<1> DEFINE Adds == \A p \in Replicas : ~reconcile /\ boot'[p] # boot[p] =>
              /\ rows \subseteq rows'
              /\ \A account \in {row.id : row \in rows} :
                    \/ boot[p].pc \in {"link", "allow"} /\ boot[p].id = account
                    \/ /\ \A l \in links \cup links' :
                             l[1] = account => l \in links \cap links'
                       /\ \A s \in senders \cup senders' :
                             s[1] = account => s \in senders \cap senders'
<1>1. AddsInv /\ [Next]_vars => [Adds]_vars
  <2> SUFFICES ASSUME AddsInv, Next, NEW p \in Replicas, ~reconcile, boot'[p] # boot[p]
               PROVE  /\ rows \subseteq rows'
                      /\ \A account \in {row.id : row \in rows} :
                            \/ boot[p].pc \in {"link", "allow"} /\ boot[p].id = account
                            \/ /\ \A l \in links \cup links' :
                                     l[1] = account => l \in links \cap links'
                               /\ \A s \in senders \cup senders' :
                                     s[1] = account => s \in senders \cap senders'
    OBVIOUS
  <2>1. ~UNCHANGED boot
    OBVIOUS
  <2>2. PICK q \in Replicas : BootStep(q) \/ Stops(q)
    BY <2>1 DEF Next, Boots, Ends, Arrives, Serves, Fails, Purges, start
  <2>3. q = p
    BY <2>2, OnlyLookUpWrites DEF AddsInv
  <2>4. CASE UNCHANGED <<rows, links, senders>>
    BY <2>4
  <2>5. CASE Write(p)
    <3>1. rows' = rows \/ Inserted(boot[p].row)
      BY <2>5 DEF Write, AddsInv, Is
    <3> QED BY <2>5, <3>1 DEF Write, Inserted
  <2>6. CASE LinkMailboxes(p)
    <3>1. boot[p].pc = "link" /\ UNCHANGED <<rows, senders>>
      BY <2>6 DEF LinkMailboxes, Is
    <3>2. UNCHANGED links \/ \E ids : Linked(boot[p].id, ids)
      BY <2>6 DEF LinkMailboxes
    <3>3. ASSUME NEW account, account # boot[p].id, NEW l \in links \cup links', l[1] = account
          PROVE  l \in links \cap links'
      BY <3>2, <3>3 DEF Linked
    <3> QED BY <3>1, <3>3
  <2>7. CASE AllowSenders(p)
    <3>1. boot[p].pc = "allow" /\ UNCHANGED <<rows, links>>
      BY <2>7 DEF AllowSenders, Is
    <3>2. UNCHANGED senders \/ Allowed(boot[p].id, "declared")
      BY <2>7 DEF AllowSenders
    <3>3. ASSUME NEW account, account # boot[p].id, NEW s \in senders \cup senders', s[1] = account
          PROVE  s \in senders \cap senders'
      BY <3>2, <3>3 DEF Allowed
    <3> QED BY <3>1, <3>3
  <2> QED BY Zenon, <2>2, <2>3, <2>4, <2>5, <2>6, <2>7
          DEF BootStep, Start, RunUp, Migrated, Resolve, LookUp, Stops, tables
<1>2. [][Adds]_vars => ApplyOnceOnlyAdds
  BY PTL DEF ApplyOnceOnlyAdds
<1>3. Init => AddsInv
  <2> SUFFICES ASSUME Init PROVE AddsInv
    OBVIOUS
  <2>1. \A p \in Replicas : boot[p] = Serving \/ boot[p] = Stopped
    BY Zenon DEF Init
  <2> QED BY <2>1, MigrationsInit DEF AddsInv, Serving, Stopped
<1> QED BY <1>1, <1>2, <1>3, AddsNext, PTL DEF Spec
-----------------------------------------------------------------------------
(* Reconcile.  What the tables, the starting replicas and the requests hold,
   whatever the mode and whoever disturbs whom. *)
Copy == [id : Nat, name : Names, ref : Nat, value : Values, password : Values, managed : Owners]

TableInv ==
    /\ rows \subseteq Row
    /\ nextId \in Nat \ {0}
    /\ \A row \in rows : row.id < nextId
    /\ \A row, other \in rows : row.id = other.id \/ row.name = other.name => row = other
    /\ links \subseteq Nat \X Nat
    /\ \A l \in links : l[2] < nextId

Reading == [pc : {"resolve", "look"}, at : 1 .. Len(file.order), ids : [Names -> Nat]]
Writing == [pc : {"write"}, row : Copy, at : 1 .. Len(file.order), ids : [Names -> Nat]]
Linking == [pc : {"link", "allow"}, id : Nat, at : 1 .. Len(file.order), ids : [Names -> Nat]]

BootTyped(p) ==
    \/ boot[p].pc \in {"down", "migrate", "up"}
    \/ boot[p] \in Reading
    \/ boot[p] \in Writing
    \/ boot[p] \in Linking

Given == {NotGiven} \cup [links : {NotGiven} \cup (SUBSET Nat), senders : BOOLEAN] \cup TestIds
Asking == [pc : {"insert", "save", "link", "allow", "delete", "test"}, at : Replicas, row : Copy,
           with : Given]

ReqTyped(r) == req[r] = NoRequest \/ req[r] \in Asking

StoreInv ==
    /\ MigrationsInv
    /\ File(file)
    /\ TableInv
    /\ \A p \in Replicas : BootTyped(p)
    /\ req = [r \in Requests |-> req[r]]
    /\ \A r \in Requests : ReqTyped(r)

(* Rows of objects that are not in the file. *)
Declared == DeclaredBy(file)
Foreign(id) == \A m \in Declared : ~Owns(m, id)

RowSet(n, id) == \E row \in rows : row.id = id /\ RowDeclared(n, row)

(* A replica knows objects of the file by the rows that have their names, and
   what it is about to write is what the file asks for. *)
Rightful(p, n) ==
    LET id == boot[p].ids[n] IN
    id # NoId => id < nextId /\ IF n \in Declared THEN Owns(n, id) ELSE Foreign(id)

ToWrite(p) ==
    LET row == boot[p].row IN
    /\ row.name = Object(p) /\ RowDeclared(Object(p), row)
    /\ row.id # NoId => Owns(Object(p), row.id)

ApplierOK(p) ==
    /\ \A n \in Names : Rightful(p, n)
    /\ \A k \in 1 .. Len(file.order) : k < boot[p].at => AsDeclared(file.order[k])
    /\ boot[p].pc # "resolve" => Unresolved(p) = {}
    /\ boot[p].pc = "write" => ToWrite(p)
    /\ boot[p].pc \in {"link", "allow"} =>
          Object(p) \in Accounts /\ RowSet(Object(p), boot[p].id)
    /\ boot[p].pc = "allow" => LinksDeclared(Object(p), boot[p].id)

(* A request that does not change what the file declares: it is about another
   row, or it writes the columns of the file back (ResetPassword). *)
Harmless(r) ==
    LET row == req[r].row IN
    /\ req[r].pc \in {"save", "link", "allow", "delete"} =>
          \/ row.id < nextId /\ Foreign(row.id)
          \/ /\ req[r].pc = "save" /\ req[r].with = NotGiven
             /\ row.name \in Declared
             /\ Owns(row.name, row.id) /\ RowDeclared(row.name, row)

ReconcileInv ==
    /\ ~disturbed /\ Applying # {} => InFlight = {}
    /\ reconcile /\ (~disturbed \/ settled) => \A p \in Applying : ApplierOK(p)
    /\ reconcile /\ settled => \A r \in Requests : Harmless(r)
    /\ ReconcileHolds

-----------------------------------------------------------------------------
(* The statements keep the tables well formed. *)
LEMMA RowsKnown ==
    ASSUME TableInv, NEW id, Has(id)
    PROVE  id \in Ids /\ id < nextId
<1>1. PICK row \in rows : row.id = id
  BY DEF Has, WithId
<1> QED BY <1>1 DEF TableInv, Row

LEMMA TableInsert ==
    ASSUME TableInv, NEW row \in Copy, Insertable(row), Inserted(row), UNCHANGED links
    PROVE  TableInv'
<1> DEFINE new == [row EXCEPT !.id = nextId]
<1>1. nextId \in Nat /\ nextId # 0 /\ nextId' = nextId + 1 /\ rows' = rows \cup {new}
  BY DEF TableInv, Inserted
<1>2. new \in Row /\ new.id = nextId /\ new.name = row.name
  BY <1>1 DEF Copy, Row, Ids, NoId
<1> HIDE DEF new
<1>3. \A other \in rows : other \in Row /\ other.id \in Nat /\ other.id < nextId /\ other.name # row.name
  BY DEF TableInv, Row, Ids, Insertable, Named
<1>4. \A other \in rows' : other.id < nextId'
  BY <1>1, <1>2, <1>3
<1>5. \A x, y \in rows' : x.id = y.id \/ x.name = y.name => x = y
  <2> SUFFICES ASSUME NEW x \in rows', NEW y \in rows', x.id = y.id \/ x.name = y.name
               PROVE  x = y
    OBVIOUS
  <2>1. CASE x \in rows /\ y \in rows
    BY Zenon, <2>1 DEF TableInv
  <2>2. CASE x = new /\ y \in rows
    BY <1>1, <1>2, <1>3, <2>2
  <2>3. CASE y = new /\ x \in rows
    BY <1>1, <1>2, <1>3, <2>3
  <2> QED BY <1>1, <2>1, <2>2, <2>3
<1>6. \A l \in links' : l[2] < nextId'
  BY <1>1 DEF TableInv
<1>7. rows' \subseteq Row
  BY Zenon, <1>1, <1>2, <1>3
<1>8. nextId' \in Nat \ {0} /\ links' \subseteq Nat \X Nat
  BY <1>1 DEF TableInv
<1> QED BY Zenon, <1>4, <1>5, <1>6, <1>7, <1>8 DEF TableInv

LEMMA TableUpdate ==
    ASSUME TableInv, NEW row \in Copy, Updatable(row), Updated(row), UNCHANGED links
    PROVE  TableInv'
<1>1. row.id \in Ids /\ row.id < nextId
  BY RowsKnown DEF Updatable
<1>2. nextId' = nextId /\ rows' = (rows \ WithId(row.id)) \cup {row}
  BY DEF Updated
<1>3. row \in Row
  BY <1>1 DEF Copy, Row, Ids, NoId
<1>4. \A other \in rows \ WithId(row.id) : other.id # row.id /\ other.name # row.name
  BY DEF Updatable, Named, WithId
<1>5. \A x, y \in rows' : x.id = y.id \/ x.name = y.name => x = y
  BY Zenon, <1>2, <1>4 DEF TableInv
<1>6. \A other \in rows' : other.id < nextId'
  BY Zenon, <1>1, <1>2 DEF TableInv
<1>7. rows' \subseteq Row
  BY Zenon, <1>2, <1>3 DEF TableInv
<1> QED BY Zenon, <1>2, <1>5, <1>6, <1>7 DEF TableInv

LEMMA TableDelete ==
    ASSUME TableInv, NEW id, Deleted(id)
    PROVE  /\ TableInv'
           /\ \A row \in rows' : \E was \in rows :
                 /\ was.id = row.id /\ was.name = row.name /\ was.id # id
                 /\ was.value = row.value /\ was.managed = row.managed
                 /\ was.ref # id => row.ref = was.ref
           /\ \A was \in rows : was.id # id => \E row \in rows' :
                 /\ was.id = row.id /\ was.name = row.name
                 /\ was.value = row.value /\ was.managed = row.managed
                 /\ was.ref # id => row.ref = was.ref
<1> DEFINE Cut(row) == [row EXCEPT !.ref = IF row.ref = id THEN NoId ELSE row.ref]
<1>1. /\ rows' = {Cut(row) : row \in rows \ WithId(id)}
      /\ nextId' = nextId /\ links' \subseteq links
  BY DEF Deleted
<1>2. \A row \in rows : /\ Cut(row) \in Row
                        /\ Cut(row).id = row.id /\ Cut(row).name = row.name
                        /\ Cut(row).value = row.value /\ Cut(row).managed = row.managed
                        /\ row.ref # id => Cut(row).ref = row.ref
  <2> SUFFICES ASSUME NEW row \in rows
               PROVE  /\ Cut(row) \in Row
                      /\ Cut(row).id = row.id /\ Cut(row).name = row.name
                      /\ Cut(row).value = row.value /\ Cut(row).managed = row.managed
                      /\ row.ref # id => Cut(row).ref = row.ref
    OBVIOUS
  <2>1. row \in Row
    BY DEF TableInv
  <2>2. PICK ref : ref = IF row.ref = id THEN NoId ELSE row.ref
    OBVIOUS
  <2>3. Cut(row) = [row EXCEPT !.ref = ref] /\ ref \in Ids \cup {NoId}
    BY <2>1, <2>2 DEF Row
  <2> QED BY <2>1, <2>2, <2>3 DEF Row
<1> HIDE DEF Cut
<1>3. \A row \in rows \ WithId(id) : row \in rows /\ row.id # id
  BY DEF WithId
<1>4. \A row \in rows : row.id # id => Cut(row) \in rows'
  BY <1>1 DEF WithId
<1>5. \A row \in rows' : \E was \in rows : was.id # id /\ row = Cut(was)
  BY <1>1, <1>3
<1>6. \A x, y \in rows' : x.id = y.id \/ x.name = y.name => x = y
  <2> SUFFICES ASSUME NEW x \in rows', NEW y \in rows', x.id = y.id \/ x.name = y.name
               PROVE  x = y
    OBVIOUS
  <2>1. PICK u \in rows : x = Cut(u)
    BY Zenon, <1>5
  <2>2. PICK v \in rows : y = Cut(v)
    BY Zenon, <1>5
  <2>3. u.id = v.id \/ u.name = v.name
    BY Zenon, <1>2, <2>1, <2>2
  <2> QED BY Zenon, <2>1, <2>2, <2>3 DEF TableInv
<1>7. ASSUME NEW row \in rows' PROVE row \in Row /\ row.id < nextId'
  <2>1. PICK was \in rows : row = Cut(was)
    BY Zenon, <1>5
  <2>2. row \in Row /\ row.id = was.id
    BY Zenon, <1>2, <2>1
  <2> QED BY <1>1, <2>2 DEF TableInv
<1>8. TableInv'
  <2>1. rows' \subseteq Row /\ \A row \in rows' : row.id < nextId'
    BY Zenon, <1>7
  <2>2. links' \subseteq Nat \X Nat /\ \A l \in links' : l[2] < nextId'
    BY Zenon, <1>1 DEF TableInv
  <2>3. nextId' \in Nat \ {0}
    BY Zenon, <1>1 DEF TableInv
  <2> QED BY Zenon, <1>6, <2>1, <2>2, <2>3 DEF TableInv
<1>9. ASSUME NEW row \in rows'
      PROVE  \E was \in rows :
                 /\ was.id = row.id /\ was.name = row.name /\ was.id # id
                 /\ was.value = row.value /\ was.managed = row.managed
                 /\ was.ref # id => row.ref = was.ref
  BY Zenon, <1>2, <1>5
<1>10. ASSUME NEW was \in rows, was.id # id
       PROVE  \E row \in rows' :
                 /\ was.id = row.id /\ was.name = row.name
                 /\ was.value = row.value /\ was.managed = row.managed
                 /\ was.ref # id => row.ref = was.ref
  BY Zenon, <1>2, <1>4, <1>10
<1> QED BY Zenon, <1>8, <1>9, <1>10

LEMMA TableLink ==
    ASSUME TableInv, NEW account, NEW ids, Linkable(account, ids), Linked(account, ids),
           UNCHANGED <<rows, nextId>>
    PROVE  TableInv'
<1>1. \A id \in ids : id \in Nat /\ account \in Nat /\ id < nextId
  BY RowsKnown DEF Linkable, Ids
<1>2. ASSUME NEW l \in links'
      PROVE  l \in Nat \X Nat /\ l[2] < nextId'
  BY <1>1 DEF Linked, TableInv
<1> QED BY <1>2 DEF TableInv

-----------------------------------------------------------------------------
(* What the steps of the Applier make of the state of its replica. *)
LEMMA ApplierTyped ==
    ASSUME StoreInv, NEW p \in Replicas
    PROVE  /\ boot[p].pc \in {"resolve", "look"} => boot[p] \in Reading
           /\ boot[p].pc = "write" => boot[p] \in Writing
           /\ boot[p].pc \in {"link", "allow"} => boot[p] \in Linking
           /\ p \in Applying =>
                /\ boot[p].at \in 1 .. Len(file.order) /\ boot[p].ids \in [Names -> Nat]
                /\ Object(p) \in Names /\ Object(p) \in Declared
                /\ Refs(p) \in Seq(Names)
<1>1. BootTyped(p)
  BY DEF StoreInv
<1>2. \A b \in Reading : /\ b.pc \in {"resolve", "look"}
                          /\ b.at \in 1 .. Len(file.order) /\ b.ids \in [Names -> Nat]
  BY DEF Reading
<1>3. \A b \in Writing : b.pc = "write" /\ b.at \in 1 .. Len(file.order) /\ b.ids \in [Names -> Nat]
  BY DEF Writing
<1>4. \A b \in Linking : /\ b.pc \in {"link", "allow"}
                          /\ b.at \in 1 .. Len(file.order) /\ b.ids \in [Names -> Nat]
  BY DEF Linking
<1>5. /\ boot[p].pc \in {"resolve", "look"} => boot[p] \in Reading
      /\ boot[p].pc = "write" => boot[p] \in Writing
      /\ boot[p].pc \in {"link", "allow"} => boot[p] \in Linking
  BY <1>1, <1>2, <1>3, <1>4 DEF BootTyped
<1>6. ASSUME p \in Applying
      PROVE  boot[p].at \in 1 .. Len(file.order) /\ boot[p].ids \in [Names -> Nat]
  BY <1>2, <1>3, <1>4, <1>5, <1>6 DEF Applying
<1>7. ASSUME p \in Applying
      PROVE  Object(p) \in Names /\ Object(p) \in Declared /\ Refs(p) \in Seq(Names)
  <2>1. File(file)
    BY DEF StoreInv
  <2>2. file.order[boot[p].at] \in Names /\ file.order[boot[p].at] \in DeclaredBy(file)
    BY <1>6, <1>7, <2>1 DEF File, DeclaredBy, Range
  <2> QED BY <2>1, <2>2 DEF File, Object, Refs, Declared
<1> QED BY <1>5, <1>6, <1>7

LEMMA BecomesState ==
    ASSUME MigrationsInv, NEW p \in Replicas, NEW b, Becomes(p, b)
    PROVE  boot'[p] = b /\ \A q \in Replicas \ {p} : boot'[q] = boot[q]
BY DEF MigrationsInv, Becomes

LEMMA AppliedEffect ==
    ASSUME StoreInv, NEW p \in Applying, NEW ids \in [Names -> Nat], Applied(p, ids)
    PROVE  \/ boot'[p] = Serving /\ boot[p].at = Len(file.order)
           \/ /\ boot'[p] \in Reading /\ boot'[p].pc = "resolve"
              /\ boot'[p].at = boot[p].at + 1 /\ boot'[p].ids = ids
<1>0. p \in Replicas /\ MigrationsInv
  BY DEF Applying, StoreInv
<1>1. boot[p].at \in 1 .. Len(file.order) /\ Len(file.order) \in Nat
  BY <1>0, ApplierTyped DEF StoreInv, File
<1>2. PICK b : b = IF boot[p].at < Len(file.order) THEN Applier(boot[p].at + 1, ids) ELSE Serving
  OBVIOUS
<1>3. boot'[p] = b
  BY <1>0, <1>2, BecomesState DEF Applied
<1>4. CASE boot[p].at < Len(file.order)
  <2>1. PICK at \in 1 .. Len(file.order) : at = boot[p].at + 1
    BY <1>1, <1>4
  <2>2. boot'[p] = [pc |-> "resolve", at |-> at, ids |-> ids]
    BY <1>2, <1>3, <1>4, <2>1 DEF Applier
  <2> QED BY <2>1, <2>2 DEF Reading
<1>5. CASE ~(boot[p].at < Len(file.order))
  BY <1>1, <1>2, <1>3, <1>5
<1> QED BY <1>4, <1>5

LEMMA ResolveEffect ==
    ASSUME StoreInv, NEW p \in Replicas, Resolve(p)
    PROVE  \/ boot'[p] = Stopped
           \/ /\ Unresolved(p) = {}
              /\ boot'[p] \in Reading /\ boot'[p].pc = "look"
              /\ boot'[p].at = boot[p].at /\ boot'[p].ids = boot[p].ids
           \/ \E n \in Names : \E row \in Named(n) :
              /\ boot'[p] \in Reading /\ boot'[p].pc = "resolve"
              /\ boot'[p].at = boot[p].at /\ boot'[p].ids = [boot[p].ids EXCEPT ![n] = row.id]
<1>1. MigrationsInv /\ boot[p] \in Reading /\ Refs(p) \in Seq(Names) /\ boot[p].pc = "resolve"
      /\ boot[p].ids \in [Names -> Nat] /\ boot = [q \in Replicas |-> boot[q]]
  BY ApplierTyped DEF StoreInv, MigrationsInv, Resolve, Is, Applying
<1>2. CASE Unresolved(p) = {} /\ boot' = [boot EXCEPT ![p].pc = "look"]
  <2>1. boot'[p] = [boot[p] EXCEPT !.pc = "look"]
    BY Zenon, <1>1, <1>2
  <2> QED BY <1>1, <1>2, <2>1 DEF Reading
<1>3. CASE Becomes(p, Stopped)
  BY <1>1, <1>3, BecomesState
<1>4. ASSUME NEW i \in Unresolved(p), NEW row \in Named(Refs(p)[i]),
             boot' = [boot EXCEPT ![p].ids = Known(p, row.name, row.id)]
      PROVE  \E n \in Names : \E other \in Named(n) :
              /\ boot'[p] \in Reading /\ boot'[p].pc = "resolve"
              /\ boot'[p].at = boot[p].at /\ boot'[p].ids = [boot[p].ids EXCEPT ![n] = other.id]
  <2>1. PICK n \in Names : n = Refs(p)[i]
    BY <1>1 DEF Unresolved
  <2>2. row \in Named(n) /\ row.name = n /\ row.id \in Nat
    BY <2>1 DEF Named, StoreInv, TableInv, Row, Ids
  <2>3. PICK ids \in [Names -> Nat] : ids = [boot[p].ids EXCEPT ![n] = row.id]
    BY Zenon, <1>1, <2>2
  <2>4. boot'[p] = [boot[p] EXCEPT !.ids = ids]
    BY Zenon, <1>1, <1>4, <2>2, <2>3 DEF Known
  <2>5. /\ boot'[p] \in Reading /\ boot'[p].pc = "resolve"
        /\ boot'[p].at = boot[p].at /\ boot'[p].ids = ids
    BY Zenon, <1>1, <2>4 DEF Reading
  <2> QED BY Zenon, <2>2, <2>3, <2>5
<1>5. \/ Unresolved(p) = {} /\ boot' = [boot EXCEPT ![p].pc = "look"]
      \/ Becomes(p, Stopped)
      \/ \E i \in Unresolved(p) : \E row \in Named(Refs(p)[i]) :
            boot' = [boot EXCEPT ![p].ids = Known(p, row.name, row.id)]
  BY Zenon DEF Resolve
<1> QED BY Zenon, <1>2, <1>3, <1>4, <1>5

LEMMA NewRowTyped ==
    ASSUME StoreInv, NEW p \in Applying, NEW id \in Nat
    PROVE  [NewRow(p) EXCEPT !.id = id] \in Copy
<1>1. /\ boot[p].ids \in [Names -> Nat] /\ Object(p) \in Names /\ Object(p) \in DeclaredBy(file)
      /\ Refs(p) \in Seq(Names)
  BY ApplierTyped DEF Applying, Declared
<1>2. \A i \in 1 .. Len(Refs(p)) : IdsOf(p)[i] \in Nat
  BY <1>1 DEF IdsOf
<1>3. file.default[Object(p)] \in Nat /\ file.default[Object(p)] <= Len(Refs(p))
  BY <1>1 DEF StoreInv, File, Refs
<1>4. Len(Refs(p)) \in Nat /\ (Refs(p) # << >> => 1 \in 1 .. Len(Refs(p)))
  BY <1>1
<1>5. file.default[Object(p)] # 0 => file.default[Object(p)] \in 1 .. Len(Refs(p))
  BY <1>3, <1>4
<1>6. PICK ref \in Nat : ref = Ref(p)
  BY <1>2, <1>4, <1>5 DEF Ref, NoId
<1>7. PICK managed \in Owners : managed = ManagedBy
  BY DEF ManagedBy, Owners
<1>8. PICK n \in Names : n = Object(p)
  BY <1>1
<1>9. NewRow(p) = [id |-> NoId, name |-> n, ref |-> ref, value |-> "declared",
                   password |-> "declared", managed |-> managed]
  BY <1>6, <1>7, <1>8 DEF NewRow
<1> QED BY <1>9 DEF Copy, NoId, Values

LEMMA LookUpEffect ==
    ASSUME StoreInv, NEW p \in Replicas, LookUp(p)
    PROVE  \/ ~reconcile /\ \E ids \in [Names -> Nat] : Applied(p, ids)
           \/ \E id \in Nat :
                /\ id # NoId => \E row \in Named(Object(p)) : row.id = id
                /\ boot'[p] \in Writing
                /\ boot'[p].at = boot[p].at /\ boot'[p].ids = boot[p].ids
                /\ boot'[p].row = [NewRow(p) EXCEPT !.id = id]
<1>1. /\ p \in Applying /\ boot[p].at \in 1 .. Len(file.order) /\ boot[p].ids \in [Names -> Nat]
      /\ MigrationsInv
  BY ApplierTyped DEF LookUp, Is, Applying, StoreInv
<1>2. ASSUME NEW id \in Nat, Writes(p, [NewRow(p) EXCEPT !.id = id])
      PROVE  /\ boot'[p] \in Writing
             /\ boot'[p].at = boot[p].at /\ boot'[p].ids = boot[p].ids
             /\ boot'[p].row = [NewRow(p) EXCEPT !.id = id]
  <2>1. PICK row \in Copy : row = [NewRow(p) EXCEPT !.id = id]
    BY Zenon, <1>1, NewRowTyped
  <2>2. boot'[p] = [pc |-> "write", row |-> row, at |-> boot[p].at, ids |-> boot[p].ids]
    BY Zenon, <1>1, <1>2, <2>1, BecomesState DEF Writes
  <2> QED BY <1>1, <2>1, <2>2 DEF Writing
<1>3. NewRow(p) = [NewRow(p) EXCEPT !.id = NoId] /\ NoId \in Nat
  BY DEF NewRow, NoId
<1>4. \A row \in Named(Object(p)) : row.id \in Nat /\ row.name = Object(p)
  BY DEF Named, StoreInv, TableInv, Row, Ids
<1>5. ASSUME NEW row \in Named(Object(p)), Applied(p, Known(p, row.name, row.id))
      PROVE  \E ids \in [Names -> Nat] : Applied(p, ids)
  BY Zenon, <1>1, <1>4, <1>5 DEF Known
<1>6. CASE Writes(p, NewRow(p))
  BY Zenon, <1>2, <1>3, <1>6
<1>7. ASSUME NEW row \in Named(Object(p)), Writes(p, [NewRow(p) EXCEPT !.id = row.id])
      PROVE  \E id \in Nat :
                /\ id # NoId => \E other \in Named(Object(p)) : other.id = id
                /\ boot'[p] \in Writing
                /\ boot'[p].at = boot[p].at /\ boot'[p].ids = boot[p].ids
                /\ boot'[p].row = [NewRow(p) EXCEPT !.id = id]
  BY Zenon, <1>2, <1>4, <1>7
<1> QED BY Zenon, <1>5, <1>6, <1>7 DEF LookUp

(* Create or Update, and what follows it. *)
Wrote(row) ==
    \/ row.id = NoId /\ Insertable(row) /\ Inserted(row)
    \/ row.id # NoId /\ Updatable(row) /\ Updated(row)

LEMMA WriteEffect ==
    ASSUME StoreInv, NEW p \in Replicas, Write(p)
    PROVE  /\ boot[p].row \in Copy /\ p \in Applying
           /\ \/ boot'[p] = Stopped /\ UNCHANGED <<rows, nextId>>
              \/ \E id \in Nat :
                   /\ id = IF boot[p].row.id = NoId THEN nextId ELSE boot[p].row.id
                   /\ id # NoId /\ Wrote(boot[p].row)
                   /\ \/ Object(p) \notin Accounts /\ Applied(p, Known(p, Object(p), id))
                      \/ /\ Object(p) \in Accounts
                         /\ boot'[p] \in Linking /\ boot'[p].pc = "link" /\ boot'[p].id = id
                         /\ boot'[p].at = boot[p].at /\ boot'[p].ids = boot[p].ids
<1>1. /\ p \in Applying /\ boot[p].at \in 1 .. Len(file.order) /\ boot[p].ids \in [Names -> Nat]
      /\ MigrationsInv /\ boot[p] \in Writing /\ nextId \in Nat /\ nextId # 0
  BY ApplierTyped DEF Write, Is, Applying, StoreInv, TableInv
<1>2. boot[p].row \in Copy /\ boot[p].row.id \in Nat
  BY <1>1 DEF Writing, Copy
<1>3. CASE Becomes(p, Stopped) /\ UNCHANGED <<rows, nextId>>
  BY Zenon, <1>1, <1>2, <1>3, BecomesState
<1>4. ASSUME NEW id \in Nat, Written(p, id)
      PROVE  \/ Object(p) \notin Accounts /\ Applied(p, Known(p, Object(p), id))
             \/ /\ Object(p) \in Accounts
                /\ boot'[p] \in Linking /\ boot'[p].pc = "link" /\ boot'[p].id = id
                /\ boot'[p].at = boot[p].at /\ boot'[p].ids = boot[p].ids
  <2>1. CASE Object(p) \notin Accounts
    BY Zenon, <1>4, <2>1 DEF Written
  <2>2. CASE Object(p) \in Accounts
    <3>1. Becomes(p, [pc |-> "link", id |-> id, at |-> boot[p].at, ids |-> boot[p].ids])
      BY <1>4, <2>2 DEF Written, Becomes
    <3>2. boot'[p] = [pc |-> "link", id |-> id, at |-> boot[p].at, ids |-> boot[p].ids]
      BY Zenon, <1>1, <3>1, BecomesState
    <3> QED BY <1>1, <2>2, <3>2 DEF Linking
  <2> QED BY <2>1, <2>2
<1>5. \/ boot[p].row.id = NoId /\ Insertable(boot[p].row) /\ Inserted(boot[p].row) /\ Written(p, nextId)
      \/ boot[p].row.id # NoId /\ Updatable(boot[p].row) /\ Updated(boot[p].row)
         /\ Written(p, boot[p].row.id)
      \/ Becomes(p, Stopped) /\ UNCHANGED <<rows, nextId>>
  BY DEF Write
<1>6. CASE boot[p].row.id = NoId /\ Insertable(boot[p].row) /\ Inserted(boot[p].row)
           /\ Written(p, nextId)
  <2>1. Wrote(boot[p].row)
    BY Zenon, <1>6 DEF Wrote
  <2> QED BY Zenon, <1>1, <1>2, <1>4, <1>6, <2>1 DEF NoId
<1>7. CASE boot[p].row.id # NoId /\ Updatable(boot[p].row) /\ Updated(boot[p].row)
           /\ Written(p, boot[p].row.id)
  <2>1. Wrote(boot[p].row)
    BY Zenon, <1>7 DEF Wrote
  <2> QED BY Zenon, <1>1, <1>2, <1>4, <1>7, <2>1
<1> QED BY Zenon, <1>3, <1>5, <1>6, <1>7

LEMMA LinkEffect ==
    ASSUME StoreInv, NEW p \in Replicas, LinkMailboxes(p)
    PROVE  /\ p \in Applying /\ boot[p].id \in Nat
           /\ \/ boot'[p] = Stopped /\ UNCHANGED links
              \/ /\ Linkable(boot[p].id, Range(IdsOf(p))) /\ Linked(boot[p].id, Range(IdsOf(p)))
                 /\ boot'[p] \in Linking /\ boot'[p].pc = "allow" /\ boot'[p].id = boot[p].id
                 /\ boot'[p].at = boot[p].at /\ boot'[p].ids = boot[p].ids
<1>1. /\ p \in Applying /\ MigrationsInv /\ boot[p] \in Linking
      /\ boot = [q \in Replicas |-> boot[q]]
  BY ApplierTyped DEF LinkMailboxes, Is, Applying, StoreInv, MigrationsInv
<1>2. boot[p].id \in Nat
  BY <1>1 DEF Linking
<1>3. ASSUME boot' = [boot EXCEPT ![p].pc = "allow"]
      PROVE  /\ boot'[p] \in Linking /\ boot'[p].pc = "allow" /\ boot'[p].id = boot[p].id
             /\ boot'[p].at = boot[p].at /\ boot'[p].ids = boot[p].ids
  <2>1. boot'[p] = [boot[p] EXCEPT !.pc = "allow"]
    BY Zenon, <1>1, <1>3
  <2> QED BY <1>1, <2>1 DEF Linking
<1> QED BY Zenon, <1>1, <1>2, <1>3, BecomesState DEF LinkMailboxes

LEMMA AllowEffect ==
    ASSUME StoreInv, NEW p \in Replicas, AllowSenders(p)
    PROVE  /\ p \in Applying /\ boot[p].id \in Nat
           /\ \/ boot'[p] = Stopped /\ UNCHANGED senders
              \/ Allowed(boot[p].id, "declared") /\ Applied(p, boot[p].ids)
<1>1. p \in Applying /\ MigrationsInv /\ boot[p] \in Linking
  BY ApplierTyped DEF AllowSenders, Is, Applying, StoreInv
<1>2. boot[p].id \in Nat
  BY <1>1 DEF Linking
<1> QED BY Zenon, <1>1, <1>2, BecomesState DEF AllowSenders

(* So the tables stay well formed through a start, and so does its state. *)
LEMMA BootStore ==
    ASSUME StoreInv, NEW p \in Replicas, BootStep(p) \/ Stops(p), UNCHANGED file
    PROVE  TableInv' /\ \A q \in Replicas : BootTyped(q)'
<1>0. TableInv /\ MigrationsInv /\ BootTyped(p)
  BY DEF StoreInv
<1>1. \A q \in Replicas \ {p} : boot'[q] = boot[q]
  BY <1>0, OnlyLookUpWrites
<1>2. \A q \in Replicas \ {p} : BootTyped(q)'
  BY Zenon, <1>1 DEF StoreInv, BootTyped, Reading, Writing, Linking
<1>3. ASSUME UNCHANGED <<rows, links, nextId>>
      PROVE  TableInv'
  BY Zenon, <1>0, <1>3 DEF TableInv
<1>4. ASSUME \/ boot'[p].pc \in {"down", "migrate", "up"}
             \/ boot'[p] \in Reading \/ boot'[p] \in Writing \/ boot'[p] \in Linking
      PROVE  BootTyped(p)'
  BY Zenon, <1>4 DEF BootTyped, Reading, Writing, Linking
<1>5. Stopped.pc = "down" /\ Serving.pc = "up"
  BY DEF Stopped, Serving
<1>6. ASSUME p \in Applying, NEW ids \in [Names -> Nat], Applied(p, ids)
      PROVE  BootTyped(p)'
  <2>1. boot'[p] = Serving \/ boot'[p] \in Reading
    BY Zenon, <1>6, AppliedEffect
  <2> QED BY Zenon, <1>4, <1>5, <2>1
<1>7. CASE Start(p)
  <2>1. boot'[p] = [pc |-> "migrate", seen |-> schema] /\ UNCHANGED tables
    BY Zenon, <1>0, <1>7, BecomesState DEF Start
  <2> QED BY <1>2, <1>3, <1>4, <2>1 DEF tables
<1>8. CASE Becomes(p, Stopped) /\ UNCHANGED tables
  <2>1. boot'[p] = Stopped
    BY Zenon, <1>0, <1>8, BecomesState
  <2> QED BY Zenon, <1>2, <1>3, <1>4, <1>5, <1>8, <2>1 DEF tables
<1>9. CASE RunUp(p) /\ ~Becomes(p, Stopped)
  <2>1. boot' = [boot EXCEPT ![p] = [boot[p] EXCEPT !.seen = boot[p].seen + 1]]
        /\ boot[p].pc = "migrate" /\ UNCHANGED tables
    BY <1>9 DEF RunUp, Is
  <2>2. boot'[p] = [boot[p] EXCEPT !.seen = boot[p].seen + 1] /\ "pc" \in DOMAIN boot[p]
    BY <1>0, <2>1 DEF MigrationsInv, BootOK
  <2>3. boot'[p].pc = "migrate"
    BY <2>1, <2>2
  <2> QED BY Zenon, <1>2, <1>3, <1>4, <2>1, <2>3 DEF tables
<1>10. CASE Migrated(p)
  <2>1. UNCHANGED tables
    BY <1>10 DEF Migrated
  <2>2. PICK b : b = IF file.order = << >> THEN Serving ELSE Applier(1, [n \in Names |-> NoId])
    OBVIOUS
  <2>3. Becomes(p, b)
    BY Zenon, <1>10, <2>2 DEF Migrated
  <2>4. boot'[p] = b
    BY Zenon, <1>0, <2>3, BecomesState
  <2>5. file.order # << >> => 1 \in 1 .. Len(file.order)
    BY DEF StoreInv, File
  <2>6. PICK ids \in [Names -> Nat] : ids = [n \in Names |-> NoId]
    BY Zenon DEF NoId
  <2>7. file.order # << >> => b = [pc |-> "resolve", at |-> 1, ids |-> ids]
    BY <2>2, <2>6 DEF Applier
  <2>8. file.order # << >> => b \in Reading
    BY <2>5, <2>7 DEF Reading
  <2> QED BY Zenon, <1>2, <1>3, <1>4, <1>5, <2>1, <2>2, <2>4, <2>8 DEF tables
<1>11. CASE Resolve(p)
  <2>1. UNCHANGED tables
    BY Zenon, <1>11 DEF Resolve
  <2>2. boot'[p] = Stopped \/ boot'[p] \in Reading
    BY Zenon, <1>11, ResolveEffect
  <2> QED BY Zenon, <1>2, <1>3, <1>4, <1>5, <2>1, <2>2 DEF tables
<1>12. CASE LookUp(p)
  <2>1. UNCHANGED tables /\ p \in Applying
    BY Zenon, <1>12 DEF LookUp, Is, Applying
  <2>2. boot'[p] \in Writing \/ \E ids \in [Names -> Nat] : Applied(p, ids)
    BY Zenon, <1>12, LookUpEffect
  <2> QED BY Zenon, <1>2, <1>3, <1>4, <1>6, <2>1, <2>2 DEF tables
<1>13. CASE Write(p)
  <2>1. UNCHANGED links
    BY Zenon, <1>13 DEF Write
  <2>2. ASSUME NEW id \in Nat, Object(p) \notin Accounts, Applied(p, Known(p, Object(p), id))
        PROVE  BootTyped(p)'
    <3>1. p \in Applying
      BY Zenon, <1>13, WriteEffect
    <3>2. Known(p, Object(p), id) \in [Names -> Nat]
      BY <3>1, ApplierTyped DEF Known
    <3> QED BY Zenon, <1>6, <2>2, <3>1, <3>2
  <2>3. BootTyped(p)'
    BY Zenon, <1>4, <1>5, <1>13, <2>2, WriteEffect
  <2>4. TableInv'
    BY Zenon, <1>0, <1>3, <1>13, <2>1, WriteEffect, TableInsert, TableUpdate DEF Wrote
  <2> QED BY Zenon, <1>2, <2>3, <2>4
<1>14. CASE LinkMailboxes(p)
  <2>1. UNCHANGED <<rows, nextId>>
    BY Zenon, <1>14 DEF LinkMailboxes
  <2>2. TableInv'
    BY Zenon, <1>0, <1>3, <1>14, <2>1, LinkEffect, TableLink
  <2>3. BootTyped(p)'
    BY Zenon, <1>4, <1>5, <1>14, LinkEffect
  <2> QED BY Zenon, <1>2, <2>2, <2>3
<1>15. CASE AllowSenders(p)
  <2>1. UNCHANGED <<rows, links, nextId>>
    BY Zenon, <1>15 DEF AllowSenders
  <2>2. p \in Applying /\ boot[p].ids \in [Names -> Nat]
    BY <1>15, AllowEffect, ApplierTyped
  <2>3. BootTyped(p)'
    BY Zenon, <1>4, <1>5, <1>6, <1>15, <2>2, AllowEffect
  <2> QED BY Zenon, <1>2, <1>3, <2>1, <2>3
<1> QED BY Zenon, <1>7, <1>8, <1>9, <1>10, <1>11, <1>12, <1>13, <1>14, <1>15
        DEF BootStep, Stops, RunUp

-----------------------------------------------------------------------------
(* What a request brings along. *)
LEMMA RequestState ==
    ASSUME StoreInv, NEW r \in Requests, NEW next, Goes(r, next)
    PROVE  /\ req'[r] = next /\ req' = [q \in Requests |-> req'[q]]
           /\ \A q \in Requests \ {r} : req'[q] = req[q]
BY Zenon DEF StoreInv, Goes

(* The copy of a row that a handler reads, and what it may change in it. *)
ReadAs(row, was) ==
    /\ was \in rows /\ row.id = was.id
    /\ \/ Editable(was)
       \/ row.name = was.name /\ row.ref = was.ref /\ row.value = was.value
          /\ row.managed = was.managed

(* Only ResetPassword leaves out the check of managed_by, and it changes nothing
   but the password. *)
LEMMA RequestEffect ==
    ASSUME StoreInv, NEW r \in Requests, NEW p \in Replicas, Request(r, p)
    PROVE  \E pc \in {"insert", "test", "save", "delete"}, row \in Copy, with \in Given :
              /\ Goes(r, [pc |-> pc, at |-> p, row |-> row, with |-> with])
              /\ pc = "save" => \E was : ReadAs(row, was) /\ (Editable(was) \/ with = NotGiven)
              /\ pc = "delete" => \E was : ReadAs(row, was) /\ Editable(was)
<1> DEFINE P(pc, row, with) ==
              /\ Goes(r, [pc |-> pc, at |-> p, row |-> row, with |-> with])
              /\ pc = "save" => \E was : ReadAs(row, was) /\ (Editable(was) \/ with = NotGiven)
              /\ pc = "delete" => \E was : ReadAs(row, was) /\ Editable(was)
<1> SUFFICES \E pc \in {"insert", "test", "save", "delete"}, row \in Copy, with \in Given :
                P(pc, row, with)
  BY Zenon
<1>1. ASSUME NEW pc \in {"insert", "test"}, NEW row \in Copy, NEW with \in Given,
             Accepts(r, p, pc, row, with)
      PROVE  P(pc, row, with)
  <2>1. pc # "save" /\ pc # "delete"
    OBVIOUS
  <2> QED BY Zenon, <1>1, <2>1 DEF Accepts
<1>2. ASSUME NEW row \in Copy, NEW with \in Given, NEW was \in rows, ReadAs(row, was),
             Editable(was) \/ with = NotGiven, Accepts(r, p, "save", row, with)
      PROVE  P("save", row, with)
  <2>1. "save" # "delete"
    OBVIOUS
  <2> QED BY Zenon, <1>2, <2>1 DEF Accepts
<1>3. ASSUME NEW row \in rows, Editable(row), Accepts(r, p, "delete", row, NotGiven)
      PROVE  P("delete", row, NotGiven)
  <2>1. "save" # "delete"
    OBVIOUS
  <2>2. ReadAs(row, row)
    BY Zenon DEF ReadAs
  <2> QED BY Zenon, <1>3, <2>1, <2>2 DEF Accepts
<1> HIDE DEF P
<1>4. NotGiven \in Given /\ \A k \in TestIds : k \in Given
  BY DEF Given
<1>5. ASSUME NEW m \in Nat, NEW with \in Mentions(m)
      PROVE  with \in Given
  <2>1. {m} \ {NoId} \in SUBSET Nat
    BY Zenon
  <2>2. CASE with \in [links : {NotGiven, {m} \ {NoId}}, senders : BOOLEAN]
    <3>1. with \in [links : {NotGiven} \cup (SUBSET Nat), senders : BOOLEAN]
      BY <2>1, <2>2
    <3> QED BY Zenon, <3>1 DEF Given
  <2> QED BY Zenon, <1>4, <2>2 DEF Mentions
<1>6. \A row \in rows : row \in Copy /\ row.id \in Nat
  <2>1. Ids \subseteq Nat /\ Ids \cup {NoId} = Nat
    BY DEF Ids, NoId
  <2>2. \A row \in Row : row \in Copy /\ row.id \in Nat
    BY <2>1 DEF Row, Copy
  <2> QED BY Zenon, <2>2 DEF StoreInv, TableInv
<1>7. \A m \in MailboxIds \cup {NoId} : m \in Nat
  BY <1>6 DEF MailboxIds, NoId
<1>8. \A m \in CredentialIds : m \in Nat
  BY Zenon, <1>6 DEF CredentialIds
<1>9. \A n \in Names, m \in Nat : Fresh(n, m) \in Copy
  BY DEF Fresh, Copy, NoId, Values, Owners
<1>10. \A row \in rows : \A v \in Edited(row) : v \in Values
  <2>1. \A row \in rows : row.value \in Values
    BY <1>6 DEF Copy
  <2> QED BY <2>1 DEF Edited, Values
<1>11. CASE CreateCredential(r, p)
  BY Zenon, <1>1, <1>4, <1>9, <1>11 DEF CreateCredential, Names, NoId
<1>12. CASE CreateMailbox(r, p)
  BY Zenon, <1>1, <1>4, <1>8, <1>9, <1>12 DEF CreateMailbox, Names
<1>13. CASE CreateAccount(r, p)
  BY Zenon, <1>1, <1>5, <1>7, <1>9, <1>13 DEF CreateAccount, Names
<1>14. CASE UpdateCredential(r, p)
  <2>0. PICK row \in rows, n \in Credentials :
            /\ Editable(row)
            /\ \E v \in Edited(row) :
                  Accepts(r, p, "save", [row EXCEPT !.value = v, !.name = n], NotGiven)
    BY Zenon, <1>14 DEF UpdateCredential
  <2>1. PICK v \in Edited(row) :
            /\ Editable(row)
            /\ Accepts(r, p, "save", [row EXCEPT !.value = v, !.name = n], NotGiven)
    BY Zenon, <2>0
  <2>2. PICK copy : copy = [row EXCEPT !.value = v, !.name = n]
    OBVIOUS
  <2>3. n \in Names /\ v \in Values
    BY Zenon, <1>10 DEF Names
  <2>4. copy \in Copy /\ copy.id = row.id
    BY Zenon, <1>6, <2>2, <2>3 DEF Copy
  <2>5. ReadAs(copy, row)
    BY Zenon, <2>1, <2>4 DEF ReadAs
  <2> QED BY Zenon, <1>2, <1>4, <2>1, <2>2, <2>4, <2>5
<1>15. CASE UpdateMailbox(r, p)
  <2>1. PICK row \in rows, v \in Values, n \in Mailboxes, c \in CredentialIds :
            Editable(row)
            /\ Accepts(r, p, "save", [row EXCEPT !.value = v, !.name = n, !.ref = c], NotGiven)
    BY Zenon, <1>15 DEF UpdateMailbox
  <2>2. PICK copy : copy = [row EXCEPT !.value = v, !.name = n, !.ref = c]
    OBVIOUS
  <2>3. c \in Nat /\ n \in Names
    BY <1>8 DEF Names
  <2>4. copy \in Copy /\ copy.id = row.id
    BY Zenon, <1>6, <2>2, <2>3 DEF Copy
  <2>5. ReadAs(copy, row)
    BY Zenon, <2>1, <2>4 DEF ReadAs
  <2> QED BY Zenon, <1>2, <1>4, <2>1, <2>2, <2>4, <2>5
<1>16. CASE UpdateAccount(r, p)
  <2>0. PICK row \in rows, n \in Accounts, m \in MailboxIds \cup {NoId} :
            /\ Editable(row)
            /\ \E v \in Edited(row), with \in Mentions(m) :
                  Accepts(r, p, "save", [row EXCEPT !.value = v, !.name = n, !.ref = m], with)
    BY Zenon, <1>16 DEF UpdateAccount
  <2>1. PICK v \in Edited(row) :
            /\ Editable(row)
            /\ \E with \in Mentions(m) :
                  Accepts(r, p, "save", [row EXCEPT !.value = v, !.name = n, !.ref = m], with)
    BY Zenon, <2>0
  <2>2. PICK copy : copy = [row EXCEPT !.value = v, !.name = n, !.ref = m]
    OBVIOUS
  <2>3. n \in Names /\ v \in Values
    BY Zenon, <1>10 DEF Names
  <2>4. copy \in Copy /\ copy.id = row.id
    BY Zenon, <1>6, <1>7, <2>2, <2>3 DEF Copy
  <2>5. ReadAs(copy, row)
    BY Zenon, <2>1, <2>4 DEF ReadAs
  <2> QED BY Zenon, <1>2, <1>5, <1>7, <2>1, <2>2, <2>4, <2>5
<1>17. CASE ResetPassword(r, p)
  <2>1. PICK row \in rows : Accepts(r, p, "save", [row EXCEPT !.password = "edited"], NotGiven)
    BY Zenon, <1>17 DEF ResetPassword
  <2>2. PICK copy : copy = [row EXCEPT !.password = "edited"]
    BY Zenon
  <2>3. /\ copy \in Copy /\ copy.id = row.id
        /\ copy.name = row.name /\ copy.ref = row.ref
        /\ copy.value = row.value /\ copy.managed = row.managed
    BY <1>6, <2>2 DEF Copy, Values
  <2>4. ReadAs(copy, row)
    BY Zenon, <2>1, <2>3 DEF ReadAs
  <2> QED BY Zenon, <1>2, <1>4, <2>1, <2>2, <2>3, <2>4
<1>18. CASE DeleteObject(r, p)
  BY Zenon, <1>3, <1>4, <1>6, <1>18 DEF DeleteObject
<1>19. CASE SendTest(r, p)
  BY Zenon, <1>1, <1>4, <1>6, <1>19 DEF SendTest
<1> QED BY Zenon, <1>11, <1>12, <1>13, <1>14, <1>15, <1>16, <1>17, <1>18, <1>19 DEF Request

(* The request of an account goes on with its links or with its senders. *)
Continues(r, pc, id) == req'[r] \in Asking /\ req'[r].pc = pc /\ req'[r].row.id = id
Pursues(r, id) == Continues(r, "link", id) \/ Continues(r, "allow", id)

LEMMA SavedEffect ==
    ASSUME StoreInv, NEW r \in Requests, req[r] \in Asking, NEW id \in Nat, Saved(r, id)
    PROVE  req'[r] = NoRequest \/ Pursues(r, id)
<1>1. CASE Answered(r)
  BY Zenon, <1>1, RequestState DEF Answered
<1>2. CASE ~Answered(r)
  <2>1. PICK row : row = [req[r].row EXCEPT !.id = id]
    BY Zenon
  <2>2. row \in Copy /\ row.id = id
    <3>1. req[r].row \in Copy
      BY DEF Asking
    <3> QED BY <2>1, <3>1 DEF Copy
  <2>3. PICK pc \in {"link", "allow"} :
           pc = IF req[r].with.links = NotGiven THEN "allow" ELSE "link"
    BY Zenon
  <2>4. PICK next : next = [[req[r] EXCEPT !.pc = pc] EXCEPT !.row = row]
    BY Zenon
  <2>5. Goes(r, next)
    BY <1>2, <2>1, <2>3, <2>4 DEF Saved
  <2>6. next \in Asking /\ next.pc = pc /\ next.row = row
    BY Zenon, <2>2, <2>4 DEF Asking
  <2>7. Continues(r, pc, id)
    BY Zenon, <2>2, <2>5, <2>6, RequestState DEF Continues
  <2> QED BY Zenon, <2>3, <2>7 DEF Pursues
<1> QED BY <1>1, <1>2

(* The statements of the handlers, each with the state of its request after it. *)
LEMMA HandlerEffect ==
    ASSUME StoreInv, NEW r \in Requests, Handler(r)
    PROVE  LET row == req[r].row
               Stays == UNCHANGED tables /\ req'[r] = NoRequest
           IN
           /\ req[r] \in Asking /\ row \in Copy
           /\ \A q \in Requests \ {r} : req'[q] = req[q]
           /\ req' = [q \in Requests |-> req'[q]]
           /\ \/ Stays
              \/ /\ Insertable(row) /\ Inserted(row) /\ UNCHANGED <<links, senders>>
                 /\ req'[r] = NoRequest \/ Pursues(r, nextId)
              \/ /\ req[r].pc = "save"
                 /\ Updatable(row) /\ Updated(row) /\ UNCHANGED <<links, senders>>
                 /\ \/ req'[r] = NoRequest
                    \/ Pursues(r, row.id) /\ req[r].with # NotGiven
              \/ /\ req[r].pc = "link"
                 /\ Linkable(row.id, req[r].with.links) /\ Linked(row.id, req[r].with.links)
                 /\ UNCHANGED <<rows, senders, nextId>>
                 /\ req'[r] = NoRequest \/ Pursues(r, row.id)
              \/ /\ req[r].pc = "allow"
                 /\ Allowed(row.id, "edited") /\ UNCHANGED <<rows, links, nextId>>
                 /\ req'[r] = NoRequest
              \/ req[r].pc = "delete" /\ Deleted(row.id) /\ req'[r] = NoRequest
<1> DEFINE row == req[r].row
           Stays == UNCHANGED tables /\ req'[r] = NoRequest
<1>1. req[r] \in Asking
  <2>1. NoRequest.pc = "idle"
    BY DEF NoRequest
  <2>2. req[r].pc # "idle"
    BY Zenon DEF Handler, Insert, Save, Link, Allow, Delete, EnqueueDiagnostic, Asks
  <2> QED BY Zenon, <2>1, <2>2 DEF StoreInv, ReqTyped
<1>2. row \in Copy /\ row.id \in Nat
  BY <1>1 DEF Asking, Copy
<1>3. \E next : Goes(r, next)
  BY Zenon DEF Handler, Insert, Save, Link, Allow, Delete, EnqueueDiagnostic, Saved, Answered, Goes,
           Proceeds
<1>4. (\A q \in Requests \ {r} : req'[q] = req[q]) /\ req' = [q \in Requests |-> req'[q]]
  BY Zenon, <1>3, RequestState
<1>5. Answered(r) => req'[r] = NoRequest
  BY Zenon, RequestState DEF Answered
<1>6. nextId \in Nat
  BY DEF StoreInv, TableInv
<1>7. CASE Insert(r)
  <2>1. CASE Insertable(row) /\ Inserted(row) /\ Saved(r, nextId) /\ UNCHANGED <<links, senders>>
    <3>1. req'[r] = NoRequest \/ Pursues(r, nextId)
      BY Zenon, <1>1, <1>6, <2>1, SavedEffect
    <3> QED BY Zenon, <1>1, <1>2, <1>4, <2>1, <3>1
  <2>2. CASE Answered(r) /\ UNCHANGED <<rows, nextId>> /\ UNCHANGED <<links, senders>>
    BY Zenon, <1>1, <1>2, <1>4, <1>5, <2>2 DEF tables
  <2> QED BY Zenon, <1>7, <2>1, <2>2 DEF Insert
<1>8. CASE Save(r)
  <2>1. req[r].pc = "save"
    BY Zenon, <1>8 DEF Save, Asks
  <2>2. CASE Updatable(row) /\ Updated(row) /\ Saved(r, row.id) /\ UNCHANGED <<links, senders>>
    <3>1. req'[r] = NoRequest \/ Pursues(r, row.id)
      BY Zenon, <1>1, <1>2, <2>2, SavedEffect
    <3>2. req[r].with = NotGiven => req'[r] = NoRequest
      BY Zenon, <1>5, <2>2 DEF Saved
    <3> QED BY Zenon, <1>1, <1>2, <1>4, <2>1, <2>2, <3>1, <3>2
  <2>3. CASE Answered(r) /\ UNCHANGED <<rows, nextId>> /\ UNCHANGED <<links, senders>>
    BY Zenon, <1>1, <1>2, <1>4, <1>5, <2>3 DEF tables
  <2> QED BY Zenon, <1>8, <2>2, <2>3 DEF Save
<1>9. CASE Link(r)
  <2>1. req[r].pc = "link" /\ UNCHANGED <<rows, senders, nextId>>
    BY Zenon, <1>9 DEF Link, Asks
  <2>2. CASE /\ Linkable(row.id, req[r].with.links) /\ Linked(row.id, req[r].with.links)
             /\ Proceeds(r, "allow") \/ Answered(r)
    <3>1. PICK next : next = [req[r] EXCEPT !.pc = "allow"]
      BY Zenon
    <3>2. next \in Asking /\ next.pc = "allow" /\ next.row = row
      BY <1>1, <3>1 DEF Asking
    <3>3. Proceeds(r, "allow") => Goes(r, next)
      BY Zenon, <3>1 DEF Proceeds, Goes
    <3>4. req'[r] = NoRequest \/ Pursues(r, row.id)
      BY Zenon, <1>5, <2>2, <3>2, <3>3, RequestState DEF Continues, Pursues
    <3> QED BY Zenon, <1>1, <1>2, <1>4, <2>1, <2>2, <3>4
  <2>3. CASE Answered(r) /\ UNCHANGED links
    BY Zenon, <1>1, <1>2, <1>4, <1>5, <2>1, <2>3 DEF tables
  <2> QED BY Zenon, <1>9, <2>2, <2>3 DEF Link
<1>10. CASE Allow(r)
  <2>1. req[r].pc = "allow" /\ UNCHANGED <<rows, links, nextId>> /\ req'[r] = NoRequest
    BY Zenon, <1>5, <1>10 DEF Allow, Asks
  <2>2. Allowed(row.id, "edited") \/ UNCHANGED senders
    BY Zenon, <1>10 DEF Allow
  <2> QED BY Zenon, <1>1, <1>2, <1>4, <2>1, <2>2 DEF tables
<1>11. CASE Delete(r)
  <2>1. req[r].pc = "delete" /\ req'[r] = NoRequest /\ (Deleted(row.id) \/ UNCHANGED tables)
    BY Zenon, <1>5, <1>11 DEF Delete, Asks
  <2> QED BY Zenon, <1>1, <1>2, <1>4, <2>1
<1>12. CASE EnqueueDiagnostic(r)
  <2>1. UNCHANGED tables /\ req'[r] = NoRequest
    BY Zenon, <1>5, <1>12 DEF EnqueueDiagnostic
  <2> QED BY Zenon, <1>1, <1>2, <1>4, <2>1
<1> QED BY Zenon, <1>7, <1>8, <1>9, <1>10, <1>11, <1>12 DEF Handler

LEMMA StoreInit == Init => StoreInv
<1> SUFFICES ASSUME Init PROVE StoreInv
  OBVIOUS
<1>1. File(file) /\ MigrationsInv
  BY MigrationsInit, FilesAssumption DEF Init
<1>2. TableInv
  <2>1. PICK seed \in Seeds : rows = seed /\ nextId = Cardinality(seed) + 1
    BY DEF Init
  <2>2. /\ seed \subseteq Row /\ Cardinality(seed) \in Nat
        /\ \A row \in seed : row.id <= Cardinality(seed)
        /\ \A row, other \in seed : row.id = other.id \/ row.name = other.name => row = other
    BY Zenon, SeedsAssumption
  <2>3. \A row \in rows : row.id < nextId
    BY <2>1, <2>2 DEF Row, Ids
  <2>4. nextId \in Nat \ {0}
    BY <2>1, <2>2
  <2>5. links = {}
    BY DEF Init
  <2> QED BY <2>1, <2>2, <2>3, <2>4, <2>5 DEF TableInv
<1>3. \A p \in Replicas : BootTyped(p)
  <2>1. \A p \in Replicas : boot[p] = Serving \/ boot[p] = Stopped
    BY Zenon DEF Init
  <2> QED BY <2>1 DEF BootTyped, Serving, Stopped
<1>4. req = [r \in Requests |-> req[r]] /\ \A r \in Requests : ReqTyped(r)
  BY Zenon DEF Init, ReqTyped
<1> QED BY Zenon, <1>1, <1>2, <1>3, <1>4 DEF StoreInv

(* RequestsEnd and RequestFails only ever take requests away. *)
LEMMA RequestsGo ==
    ASSUME StoreInv, (\E p \in Replicas : RequestsEnd(p)) \/ \E r \in Requests : RequestFails(r)
    PROVE  /\ req' = [q \in Requests |-> req'[q]]
           /\ \A q \in Requests : req'[q] = req[q] \/ req'[q] = NoRequest
<1>1. ASSUME NEW p \in Replicas, RequestsEnd(p)
      PROVE  /\ req' = [q \in Requests |-> req'[q]]
             /\ \A q \in Requests : req'[q] = req[q] \/ req'[q] = NoRequest
  BY Zenon, <1>1 DEF RequestsEnd
<1>2. ASSUME NEW r \in Requests, RequestFails(r)
      PROVE  /\ req' = [q \in Requests |-> req'[q]]
             /\ \A q \in Requests : req'[q] = req[q] \/ req'[q] = NoRequest
  BY Zenon, <1>2, RequestState DEF RequestFails, Answered
<1> QED BY Zenon, <1>1, <1>2

LEMMA StoreNext == StoreInv /\ [Next]_vars => StoreInv'
<1> SUFFICES ASSUME StoreInv, [Next]_vars PROVE StoreInv'
  OBVIOUS
<1>1. MigrationsInv' /\ File(file)'
  <2>1. UNCHANGED file
    BY Zenon DEF Next, vars, Boots, Ends, Arrives, Serves, Fails, Purges, Recorded
  <2> QED BY <2>1, MigrationsNext DEF StoreInv, File, DeclaredBy
<1>2. UNCHANGED file
  BY Zenon DEF Next, vars, Boots, Ends, Arrives, Serves, Fails, Purges, Recorded
<1>3. ASSUME UNCHANGED boot
      PROVE  \A p \in Replicas : BootTyped(p)'
  BY Zenon, <1>2, <1>3 DEF StoreInv, BootTyped, Reading, Writing, Linking
<1>4. ASSUME UNCHANGED tables
      PROVE  TableInv'
  BY Zenon, <1>4 DEF StoreInv, TableInv, tables
<1>5. ASSUME req' = [q \in Requests |-> req'[q]],
             \A q \in Requests : req'[q] = req[q] \/ req'[q] = NoRequest \/ req'[q] \in Asking
      PROVE  req' = [q \in Requests |-> req'[q]] /\ \A q \in Requests : ReqTyped(q)'
  BY Zenon, <1>5 DEF StoreInv, ReqTyped, Asking
<1>6. ASSUME NEW p \in Replicas, Boots(p)
      PROVE  StoreInv'
  <2>1. BootStep(p) /\ UNCHANGED req
    BY Zenon, <1>6 DEF Boots, api
  <2> QED BY Zenon, <1>1, <1>2, <1>5, <2>1, BootStore DEF StoreInv
<1>7. ASSUME NEW p \in Replicas, Ends(p)
      PROVE  StoreInv'
  <2>1. Stops(p) /\ RequestsEnd(p)
    BY Zenon, <1>7 DEF Ends
  <2> QED BY Zenon, <1>1, <1>2, <1>5, <2>1, BootStore, RequestsGo DEF StoreInv
<1>8. ASSUME NEW p \in Replicas, NEW r \in Requests, Arrives(r, p)
      PROVE  StoreInv'
  <2>1. Request(r, p) /\ UNCHANGED tables /\ UNCHANGED boot
    BY Zenon, <1>8 DEF Arrives, Request, start
  <2>2. PICK pc \in {"insert", "test", "save", "delete"}, row \in Copy, with \in Given :
            Goes(r, [pc |-> pc, at |-> p, row |-> row, with |-> with])
    BY Zenon, <2>1, RequestEffect
  <2>3. [pc |-> pc, at |-> p, row |-> row, with |-> with] \in Asking
    BY DEF Asking
  <2>4. req' = [q \in Requests |-> req'[q]] /\ \A q \in Requests : ReqTyped(q)'
    BY Zenon, <1>5, <2>2, <2>3, RequestState
  <2> QED BY Zenon, <1>1, <1>3, <1>4, <2>1, <2>4 DEF StoreInv
<1>9. ASSUME NEW r \in Requests, Serves(r)
      PROVE  StoreInv'
  <2>1. Handler(r) /\ UNCHANGED boot
    BY Zenon, <1>9 DEF Serves, start
  <2>2. TableInv'
    BY Zenon, <1>4, <2>1, HandlerEffect, TableInsert, TableUpdate, TableDelete, TableLink
       DEF StoreInv, TableInv
  <2>3. req' = [q \in Requests |-> req'[q]] /\ \A q \in Requests : ReqTyped(q)'
    BY Zenon, <1>5, <2>1, HandlerEffect DEF Continues, Pursues
  <2> QED BY Zenon, <1>1, <1>3, <2>1, <2>2, <2>3 DEF StoreInv
<1>10. ASSUME NEW r \in Requests, Fails(r)
       PROVE  StoreInv'
  <2>1. RequestFails(r) /\ UNCHANGED tables /\ UNCHANGED boot
    BY Zenon, <1>10 DEF Fails, RequestFails, start
  <2> QED BY Zenon, <1>1, <1>3, <1>4, <1>5, <2>1, RequestsGo DEF StoreInv
<1>11. ASSUME UNCHANGED <<tables, boot, req>>
       PROVE  StoreInv'
  BY Zenon, <1>1, <1>3, <1>4, <1>5, <1>11 DEF StoreInv
<1>12. ASSUME NEW k \in TestIds, Purges(k)
       PROVE  UNCHANGED <<tables, boot, req>>
  BY Zenon, <1>12 DEF Purges, PurgeTest, start
<1>13. UNCHANGED vars => UNCHANGED <<tables, boot, req>>
  BY Zenon DEF vars, start, api
<1> QED BY Zenon, <1>6, <1>7, <1>8, <1>9, <1>10, <1>11, <1>12, <1>13 DEF Next

-----------------------------------------------------------------------------
(* Steps that take nothing away from what the file declares: the names of its
   objects stay with their rows, and rows, links and senders that are as the file
   asks for them stay so. *)
KeepsOwners ==
    /\ UNCHANGED file
    /\ nextId' \in Nat /\ nextId <= nextId'
    /\ \A m \in Declared, id \in Nat :
          /\ Owns(m, id) => Owns(m, id)'
          /\ id < nextId /\ Owns(m, id)' => Owns(m, id)

Keeps ==
    /\ KeepsOwners
    /\ \A n \in Declared, id \in Nat :
          /\ RowSet(n, id) => RowSet(n, id)'
          /\ Owns(n, id) /\ LinksDeclared(n, id) => LinksDeclared(n, id)'
          /\ Owns(n, id) /\ SendersDeclared(id) => SendersDeclared(id)'

LEMMA RowKept ==
    ASSUME KeepsOwners, NEW n \in Declared, NEW row, row.ref \in Nat, RowDeclared(n, row)
    PROVE  RowDeclared(n, row)'
<1>1. Ours(n)' = Ours(n) /\ Main(n)' = Main(n) /\ file' = file
  BY Zenon DEF KeepsOwners, Ours, Main
<1>2. ASSUME Main(n) \in Ours(n)
      PROVE  Owns(file.refs[n][Main(n)], row.ref)'
  <2>1. PICK m \in Declared : m = file.refs[n][Main(n)]
    BY Zenon, <1>2 DEF Ours, Declared
  <2>2. Owns(m, row.ref)
    BY Zenon, <1>2, <2>1 DEF RowDeclared, Owns, Named
  <2>3. Owns(m, row.ref)' /\ m = file'.refs[n][Main(n)']
    BY Zenon, <1>1, <2>1, <2>2 DEF KeepsOwners
  <2> QED BY Zenon, <2>3 DEF Owns, Named
<1>3. Main(n)' \in Ours(n)' => Owns(file.refs[n][Main(n)], row.ref)'
  BY Zenon, <1>1, <1>2
<1>4. row.name = n /\ row.value = "declared" /\ row.managed = "bootstrap"
  BY Zenon DEF RowDeclared
<1> QED BY Zenon, <1>3, <1>4 DEF RowDeclared

LEMMA LinksKept ==
    ASSUME KeepsOwners, TableInv, NEW n \in Declared, NEW account,
           \A l \in links \cup links' : l[1] = account => l \in links \cap links',
           LinksDeclared(n, account)
    PROVE  LinksDeclared(n, account)'
<1>1. Ours(n)' = Ours(n) /\ file' = file /\ DeclaredBy(file)' = Declared
  BY Zenon DEF KeepsOwners, Ours, Declared, DeclaredBy
<1>2. \A l \in links : l[2] \in Nat /\ l[2] < nextId
  BY DEF TableInv
<1>3. ASSUME NEW i \in Ours(n)
      PROVE  \E l \in links' : l[1] = account /\ Owns(file.refs[n][i], l[2])'
  <2>1. PICK l \in links : l[1] = account /\ Owns(file.refs[n][i], l[2])
    BY Zenon DEF LinksDeclared
  <2>2. file.refs[n][i] \in Declared
    BY Zenon DEF Ours, Declared
  <2> QED BY Zenon, <1>2, <2>1, <2>2 DEF KeepsOwners
<1>4. ASSUME NEW l \in links', NEW m \in Declared, l[1] = account, Owns(m, l[2])'
      PROVE  m \in Range(file.refs[n])
  <2>1. l \in links
    BY Zenon, <1>4
  <2>2. Owns(m, l[2])
    BY Zenon, <1>2, <1>4, <2>1 DEF KeepsOwners
  <2> QED BY Zenon, <1>4, <2>1, <2>2 DEF LinksDeclared, Declared
<1>5. \A i \in Ours(n)' : \E l \in links' : l[1] = account /\ Owns(file.refs[n][i], l[2])'
  BY Zenon, <1>1, <1>3
<1>6. \A l \in links', m \in DeclaredBy(file)' :
          l[1] = account /\ Owns(m, l[2])' => m \in Range(file'.refs[n])
  BY Zenon, <1>1, <1>4
<1> QED BY Zenon, <1>5, <1>6 DEF LinksDeclared

(* A step that leaves links and senders of the file's accounts alone. *)
LEMMA KeepsAll ==
    ASSUME KeepsOwners, TableInv,
           \A n \in Declared, id \in Nat : RowSet(n, id) => RowSet(n, id)',
           \A n \in Declared, id \in Nat : Owns(n, id) =>
              /\ \A l \in links \cup links' : l[1] = id => l \in links \cap links'
              /\ \A s \in senders \cup senders' : s[1] = id => s \in senders \cap senders'
    PROVE  Keeps
<1>1. ASSUME NEW n \in Declared, NEW id \in Nat, Owns(n, id), LinksDeclared(n, id)
      PROVE  LinksDeclared(n, id)'
  BY Zenon, <1>1, LinksKept
<1>2. ASSUME NEW n \in Declared, NEW id \in Nat, Owns(n, id), SendersDeclared(id)
      PROVE  SendersDeclared(id)'
  <2>1. {s \in senders' : s[1] = id} = {s \in senders : s[1] = id}
    BY Zenon, <1>2
  <2> QED BY Zenon, <1>2, <2>1 DEF SendersDeclared
<1> QED BY Zenon, <1>1, <1>2 DEF Keeps

LEMMA KeepsUnchanged ==
    ASSUME TableInv, UNCHANGED <<tables, file>>
    PROVE  Keeps
<1>1. nextId \in Nat /\ UNCHANGED <<rows, links, senders, nextId, file>>
  BY DEF TableInv, tables
<1>2. \A m, id : Owns(m, id)' <=> Owns(m, id)
  BY Zenon, <1>1 DEF Owns, Named
<1>3. nextId' \in Nat /\ nextId <= nextId'
  BY <1>1
<1>4. KeepsOwners
  BY Zenon, <1>1, <1>2, <1>3 DEF KeepsOwners
<1>5. ASSUME NEW n \in Declared, NEW id \in Nat, RowSet(n, id)
      PROVE  RowSet(n, id)'
  BY Zenon, <1>1, <1>5 DEF RowSet, RowDeclared, Main, Ours, Owns, Named, DeclaredBy
<1> QED BY Zenon, <1>1, <1>4, <1>5, KeepsAll

LEMMA KeepsInsert ==
    ASSUME TableInv, NEW row \in Copy, Insertable(row), Inserted(row),
           UNCHANGED <<links, senders, file>>
    PROVE  Keeps
<1>1. PICK new : new = [row EXCEPT !.id = nextId]
  BY Zenon
<1>2. nextId \in Nat /\ rows' = rows \cup {new} /\ nextId' = nextId + 1 /\ new.id = nextId
  BY <1>1 DEF TableInv, Inserted, Copy
<1>3. ASSUME NEW m, NEW id, Owns(m, id)
      PROVE  Owns(m, id)'
  BY Zenon, <1>2, <1>3 DEF Owns, Named
<1>4. ASSUME NEW m, NEW id \in Nat, id < nextId, Owns(m, id)'
      PROVE  Owns(m, id)
  <2>1. id # new.id
    BY <1>2, <1>4
  <2> QED BY Zenon, <1>2, <1>4, <2>1 DEF Owns, Named
<1>5. nextId' \in Nat /\ nextId <= nextId'
  BY <1>2
<1>6. KeepsOwners
  BY Zenon, <1>3, <1>4, <1>5 DEF KeepsOwners
<1>7. ASSUME NEW n \in Declared, NEW id \in Nat, RowSet(n, id)
      PROVE  RowSet(n, id)'
  <2>1. PICK old \in rows : old.id = id /\ RowDeclared(n, old)
    BY Zenon, <1>7 DEF RowSet
  <2>2. old.ref \in Nat
    BY DEF TableInv, Row, Ids, NoId
  <2>3. RowDeclared(n, old)'
    BY Zenon, <1>6, <2>1, <2>2, RowKept
  <2> QED BY Zenon, <1>2, <2>1, <2>3 DEF RowSet
<1> QED BY Zenon, <1>6, <1>7, KeepsAll

(* An update of a row that is not in the file, or one that the file asks for. *)
LEMMA KeepsUpdate ==
    ASSUME TableInv, NEW row \in Copy, Updatable(row), Updated(row),
           UNCHANGED <<links, senders, file>>,
           \/ row.name \notin Declared /\ Foreign(row.id)
           \/ row.name \in Declared /\ Owns(row.name, row.id) /\ RowDeclared(row.name, row)
    PROVE  Keeps
<1>1. /\ nextId \in Nat /\ nextId' = nextId /\ row.ref \in Nat
      /\ rows' = (rows \ WithId(row.id)) \cup {row}
  BY DEF TableInv, Updated, Copy
<1>2. ASSUME NEW m \in Declared, NEW id, Owns(m, id)
      PROVE  Owns(m, id)'
  <2>1. PICK old \in rows : old.name = m /\ old.id = id
    BY Zenon, <1>2 DEF Owns, Named
  <2>2. CASE old \in WithId(row.id)
    <3>1. old.id = row.id /\ Owns(m, row.id)
      BY Zenon, <1>2, <2>1, <2>2 DEF WithId
    <3>2. row.name \in Declared /\ Owns(row.name, row.id)
      BY Zenon, <3>1 DEF Foreign
    <3>3. row.name = m
      BY Zenon, <2>1, <3>1, <3>2 DEF Owns, Named, TableInv
    <3> QED BY Zenon, <1>1, <2>1, <3>1, <3>3 DEF Owns, Named
  <2>3. CASE old \notin WithId(row.id)
    BY Zenon, <1>1, <2>1, <2>3 DEF Owns, Named
  <2> QED BY Zenon, <2>2, <2>3
<1>3. ASSUME NEW m \in Declared, NEW id \in Nat, Owns(m, id)'
      PROVE  Owns(m, id)
  <2>1. PICK new \in rows' : new.name = m /\ new.id = id
    BY Zenon, <1>3 DEF Owns, Named
  <2>2. CASE new = row
    BY Zenon, <2>1, <2>2 DEF Owns, Named
  <2>3. CASE new \in rows
    BY Zenon, <2>1, <2>3 DEF Owns, Named
  <2> QED BY Zenon, <1>1, <2>1, <2>2, <2>3
<1>4. nextId' \in Nat /\ nextId <= nextId'
  BY <1>1
<1>5. KeepsOwners
  BY Zenon, <1>2, <1>3, <1>4 DEF KeepsOwners
<1>6. ASSUME NEW n \in Declared, NEW id \in Nat, RowSet(n, id)
      PROVE  RowSet(n, id)'
  <2>1. PICK old \in rows : old.id = id /\ RowDeclared(n, old)
    BY Zenon, <1>6 DEF RowSet
  <2>2. old.ref \in Nat /\ old.name = n
    BY <2>1 DEF TableInv, Row, Ids, NoId, RowDeclared
  <2>3. CASE old.id # row.id
    <3>1. RowDeclared(n, old)'
      BY Zenon, <1>5, <2>1, <2>2, RowKept
    <3> QED BY Zenon, <1>1, <2>1, <2>3, <3>1 DEF RowSet, WithId
  <2>4. CASE old.id = row.id
    <3>1. Owns(n, row.id)
      BY Zenon, <2>2, <2>4 DEF Owns, Named
    <3>2. row.name \in Declared /\ Owns(row.name, row.id) /\ RowDeclared(row.name, row)
      BY Zenon, <3>1 DEF Foreign
    <3>3. row.name = n
      BY Zenon, <3>1, <3>2 DEF Owns, Named, TableInv
    <3>4. RowDeclared(n, row)'
      BY Zenon, <1>1, <1>5, <3>2, <3>3, RowKept
    <3> QED BY Zenon, <1>1, <2>1, <2>4, <3>4 DEF RowSet
  <2> QED BY Zenon, <2>3, <2>4
<1> QED BY Zenon, <1>5, <1>6, KeepsAll

LEMMA KeepsDelete ==
    ASSUME TableInv, NEW id \in Nat, Deleted(id), Foreign(id), UNCHANGED file
    PROVE  Keeps
<1>1. /\ nextId \in Nat /\ nextId' = nextId
      /\ links' = {l \in links : id \notin {l[1], l[2]}}
      /\ senders' = {s \in senders : s[1] # id}
  BY Zenon DEF TableInv, Deleted
<1>2. ASSUME NEW m \in Declared, NEW i, Owns(m, i)
      PROVE  Owns(m, i)'
  <2>1. PICK was \in rows : was.name = m /\ was.id = i
    BY Zenon, <1>2 DEF Owns, Named
  <2>2. was.id # id
    BY Zenon, <1>2, <2>1 DEF Foreign
  <2>3. PICK row \in rows' : was.id = row.id /\ was.name = row.name
    BY <2>2, TableDelete
  <2> QED BY Zenon, <2>1, <2>3 DEF Owns, Named
<1>3. ASSUME NEW m, NEW i, Owns(m, i)'
      PROVE  Owns(m, i)
  <2>1. PICK row \in rows' : row.name = m /\ row.id = i
    BY Zenon, <1>3 DEF Owns, Named
  <2>2. PICK was \in rows : was.id = row.id /\ was.name = row.name
    <3>1. \A x \in rows' : \E y \in rows : y.id = x.id /\ y.name = x.name
      BY Zenon, TableDelete
    <3> QED BY Zenon, <3>1
  <2> QED BY Zenon, <2>1, <2>2 DEF Owns, Named
<1>4. nextId' \in Nat /\ nextId <= nextId'
  BY <1>1
<1>5. KeepsOwners
  BY Zenon, <1>2, <1>3, <1>4 DEF KeepsOwners
<1>6. ASSUME NEW n \in Declared, NEW i \in Nat, RowSet(n, i)
      PROVE  RowSet(n, i)'
  <2>1. PICK was \in rows : was.id = i /\ RowDeclared(n, was)
    BY Zenon, <1>6 DEF RowSet
  <2>2. was.name = n /\ was.ref \in Nat
    BY <2>1 DEF TableInv, Row, Ids, NoId, RowDeclared
  <2>3. was.id # id
    BY Zenon, <2>2 DEF Foreign, Owns, Named
  <2>4. PICK row \in rows' :
            /\ was.id = row.id /\ was.name = row.name
            /\ was.value = row.value /\ was.managed = row.managed
            /\ was.ref # id => row.ref = was.ref
    <3>1. \A x \in rows : x.id # id => \E y \in rows' :
             /\ x.id = y.id /\ x.name = y.name /\ x.value = y.value /\ x.managed = y.managed
             /\ x.ref # id => y.ref = x.ref
      BY TableDelete
    <3> QED BY Zenon, <2>3, <3>1
  <2>5. Main(n) \in Ours(n) => row.ref = was.ref
    BY Zenon, <2>1, <2>4 DEF RowDeclared, Foreign, Ours, Declared
  <2>6. RowDeclared(n, row)
    BY Zenon, <2>1, <2>4, <2>5 DEF RowDeclared
  <2>7. row.ref \in Nat
    BY TableDelete DEF TableInv, Row, Ids, NoId
  <2>8. RowDeclared(n, row)'
    BY Zenon, <1>5, <2>6, <2>7, RowKept
  <2> QED BY Zenon, <2>1, <2>4, <2>8 DEF RowSet
<1>7. ASSUME NEW n \in Declared, NEW i \in Nat, Owns(n, i), LinksDeclared(n, i)
      PROVE  LinksDeclared(n, i)'
  <2>1. Ours(n)' = Ours(n) /\ file' = file /\ DeclaredBy(file)' = Declared
    BY Zenon DEF Ours, Declared, DeclaredBy
  <2>2. i # id
    BY Zenon, <1>7 DEF Foreign
  <2>3. ASSUME NEW j \in Ours(n)
        PROVE  \E l \in links' : l[1] = i /\ Owns(file.refs[n][j], l[2])'
    <3>1. PICK m \in Declared : m = file.refs[n][j]
      BY Zenon DEF Ours, Declared
    <3>2. PICK l \in links : l[1] = i /\ Owns(m, l[2])
      BY Zenon, <1>7, <3>1 DEF LinksDeclared
    <3>3. l[2] # id /\ l \in links'
      BY Zenon, <1>1, <2>2, <3>2 DEF Foreign
    <3>4. Owns(m, l[2])' /\ m = file'.refs[n][j]
      BY Zenon, <1>2, <2>1, <3>1, <3>2
    <3>5. Owns(file.refs[n][j], l[2])'
      BY Zenon, <3>4 DEF Owns, Named
    <3> QED BY Zenon, <3>2, <3>3, <3>5
  <2>4. ASSUME NEW l \in links', NEW m \in Declared, l[1] = i, Owns(m, l[2])'
        PROVE  m \in Range(file.refs[n])
    BY Zenon, <1>1, <1>3, <1>7, <2>4 DEF LinksDeclared, Declared
  <2>5. \A j \in Ours(n)' : \E l \in links' : l[1] = i /\ Owns(file.refs[n][j], l[2])'
    BY Zenon, <2>1, <2>3
  <2>6. \A l \in links', m \in DeclaredBy(file)' :
            l[1] = i /\ Owns(m, l[2])' => m \in Range(file'.refs[n])
    BY Zenon, <2>1, <2>4
  <2> QED BY Zenon, <2>5, <2>6 DEF LinksDeclared
<1>8. ASSUME NEW n \in Declared, NEW i \in Nat, Owns(n, i), SendersDeclared(i)
      PROVE  SendersDeclared(i)'
  <2>1. i # id
    BY Zenon, <1>8 DEF Foreign
  <2>2. {s \in senders' : s[1] = i} = {s \in senders : s[1] = i}
    BY Zenon, <1>1, <2>1
  <2> QED BY Zenon, <1>8, <2>2 DEF SendersDeclared
<1> QED BY Zenon, <1>5, <1>6, <1>7, <1>8 DEF Keeps

(* Links and senders do not matter to the rows. *)
LEMMA KeepsRows ==
    ASSUME TableInv, UNCHANGED <<rows, nextId, file>>
    PROVE  /\ KeepsOwners
           /\ \A n \in Declared, id \in Nat : RowSet(n, id) => RowSet(n, id)'
<1>1. nextId \in Nat
  BY DEF TableInv
<1>2. \A m, id : Owns(m, id)' <=> Owns(m, id)
  BY Zenon DEF Owns, Named
<1>3. nextId' \in Nat /\ nextId <= nextId'
  BY <1>1
<1>4. KeepsOwners
  BY Zenon, <1>2, <1>3 DEF KeepsOwners
<1>5. ASSUME NEW n \in Declared, NEW id \in Nat, RowSet(n, id)
      PROVE  RowSet(n, id)'
  <2>1. PICK old \in rows : old.id = id /\ RowDeclared(n, old)
    BY Zenon, <1>5 DEF RowSet
  <2>2. old.ref \in Nat
    BY DEF TableInv, Row, Ids, NoId
  <2>3. RowDeclared(n, old)'
    BY Zenon, <1>4, <2>1, <2>2, RowKept
  <2> QED BY Zenon, <2>1, <2>3 DEF RowSet
<1> QED BY Zenon, <1>4, <1>5

LEMMA KeepsLink ==
    ASSUME TableInv, NEW account, NEW ids, Linked(account, ids),
           UNCHANGED <<rows, senders, nextId, file>>,
           \/ Foreign(account)
           \/ \E n \in Declared : Owns(n, account) /\ LinksDeclared(n, account)'
    PROVE  Keeps
<1>1. ASSUME NEW n \in Declared, NEW id \in Nat, Owns(n, id), LinksDeclared(n, id)
      PROVE  LinksDeclared(n, id)'
  <2>1. CASE id # account
    <3>1. \A l \in {account} \X ids : l[1] = account
      BY Zenon
    <3>2. \A l \in links \cup links' : l[1] = id => l \in links \cap links'
      BY Zenon, <2>1, <3>1 DEF Linked
    <3> QED BY Zenon, <1>1, <3>2, KeepsRows, LinksKept
  <2>2. CASE id = account
    <3>1. PICK m \in Declared : Owns(m, account) /\ LinksDeclared(m, account)'
      BY Zenon, <1>1, <2>2 DEF Foreign
    <3>2. m = n
      BY Zenon, <1>1, <2>2, <3>1 DEF Owns, Named, TableInv
    <3> QED BY Zenon, <2>2, <3>1, <3>2
  <2> QED BY Zenon, <2>1, <2>2
<1>2. ASSUME NEW n \in Declared, NEW id \in Nat, SendersDeclared(id)
      PROVE  SendersDeclared(id)'
  BY Zenon, <1>2 DEF SendersDeclared
<1> QED BY Zenon, <1>1, <1>2, KeepsRows DEF Keeps

LEMMA KeepsAllow ==
    ASSUME TableInv, NEW account, NEW list, Allowed(account, list),
           UNCHANGED <<rows, links, nextId, file>>,
           Foreign(account) \/ list = "declared"
    PROVE  Keeps
<1>1. ASSUME NEW n \in Declared, NEW id \in Nat, Owns(n, id), LinksDeclared(n, id)
      PROVE  LinksDeclared(n, id)'
  BY Zenon, <1>1, KeepsRows, LinksKept
<1>2. <<account, list>>[1] = account
  BY Zenon
<1>3. ASSUME NEW n \in Declared, NEW id \in Nat, Owns(n, id), SendersDeclared(id)
      PROVE  SendersDeclared(id)'
  <2>1. CASE id # account
    <3>1. {s \in senders' : s[1] = id} = {s \in senders : s[1] = id}
      BY Zenon, <1>2, <2>1 DEF Allowed
    <3> QED BY Zenon, <1>3, <3>1 DEF SendersDeclared
  <2>2. CASE id = account
    <3>1. list = "declared"
      BY Zenon, <1>3, <2>2 DEF Foreign
    <3>2. {s \in senders' : s[1] = account} = {<<account, "declared">>}
      BY Zenon, <1>2, <3>1 DEF Allowed
    <3> QED BY Zenon, <2>2, <3>2 DEF SendersDeclared
  <2> QED BY Zenon, <2>1, <2>2
<1> QED BY Zenon, <1>1, <1>3, KeepsRows DEF Keeps

-----------------------------------------------------------------------------
(* Such steps disturb neither the other replicas nor the requests. *)
LEMMA OwnsSet ==
    ASSUME NEW n, NEW id, RowSet(n, id)
    PROVE  Owns(n, id)
BY Zenon DEF RowSet, RowDeclared, Owns, Named

LEMMA AsDeclaredKept ==
    ASSUME Keeps, TableInv, NEW n \in Declared, AsDeclared(n)
    PROVE  AsDeclared(n)'
<1>1. PICK row \in rows :
        RowDeclared(n, row) /\ (n \in Accounts => LinksDeclared(n, row.id) /\ SendersDeclared(row.id))
  BY Zenon DEF AsDeclared
<1>2. row.id \in Nat
  BY DEF TableInv, Row, Ids
<1>3. RowSet(n, row.id) /\ Owns(n, row.id)
  BY Zenon, <1>1, OwnsSet DEF RowSet
<1>4. RowSet(n, row.id)' /\ (n \in Accounts => LinksDeclared(n, row.id)' /\ SendersDeclared(row.id)')
  BY Zenon, <1>1, <1>2, <1>3 DEF Keeps
<1>5. PICK new \in rows' : new.id = row.id /\ RowDeclared(n, new)'
  BY Zenon, <1>4 DEF RowSet
<1> QED BY Zenon, <1>4, <1>5 DEF AsDeclared

LEMMA ApplierKept ==
    ASSUME Keeps, StoreInv, NEW p \in Applying, boot'[p] = boot[p], ApplierOK(p)
    PROVE  ApplierOK(p)'
<1>0. p \in Replicas /\ TableInv /\ nextId \in Nat /\ nextId' \in Nat /\ nextId <= nextId'
  BY DEF Applying, StoreInv, TableInv, Keeps, KeepsOwners
<1>1. /\ boot[p].at \in 1 .. Len(file.order) /\ boot[p].ids \in [Names -> Nat]
      /\ Object(p) \in Declared
  BY Zenon, <1>0, ApplierTyped
<1>2. file' = file /\ Declared' = Declared /\ Object(p)' = Object(p) /\ Unresolved(p)' = Unresolved(p)
  BY Zenon DEF Keeps, KeepsOwners, Declared, DeclaredBy, Object, Unresolved, Refs
<1>3. ASSUME NEW n \in Names
      PROVE  Rightful(p, n)'
  <2>1. PICK id \in Nat : id = boot[p].ids[n]
    BY <1>1
  <2>2. Rightful(p, n)
    BY Zenon DEF ApplierOK
  <2>3. CASE id = NoId
    BY Zenon, <2>1, <2>3 DEF Rightful
  <2>4. CASE id # NoId
    <3>1. id < nextId /\ IF n \in Declared THEN Owns(n, id) ELSE Foreign(id)
      BY Zenon, <2>1, <2>2, <2>4 DEF Rightful
    <3>2. id < nextId'
      BY <1>0, <3>1
    <3>3. n \in Declared => Owns(n, id)'
      BY Zenon, <3>1 DEF Keeps, KeepsOwners
    <3>4. n \notin Declared => Foreign(id)'
      BY Zenon, <1>2, <3>1 DEF Keeps, KeepsOwners, Foreign
    <3>5. id = boot'[p].ids[n]
      BY Zenon, <2>1
    <3> QED BY Zenon, <1>2, <3>2, <3>3, <3>4, <3>5 DEF Rightful, Foreign, Owns, Named
  <2> QED BY Zenon, <2>3, <2>4
<1>4. ASSUME NEW k \in 1 .. Len(file.order), k < boot[p].at
      PROVE  AsDeclared(file.order[k])'
  <2>1. PICK n \in Declared : n = file.order[k]
    BY DEF Declared, DeclaredBy, Range, StoreInv, File
  <2>2. AsDeclared(n)
    BY Zenon, <1>4, <2>1 DEF ApplierOK
  <2>3. AsDeclared(n)' /\ n = file'.order[k]
    BY Zenon, <1>0, <1>2, <2>1, <2>2, AsDeclaredKept
  <2> QED BY Zenon, <2>3
<1>5. ASSUME boot[p].pc = "write"
      PROVE  ToWrite(p)'
  <2>1. PICK row \in Copy : row = boot[p].row /\ row.id \in Nat /\ row.ref \in Nat
    BY Zenon, <1>0, <1>5, ApplierTyped DEF Writing, Copy
  <2>2. /\ row.name = Object(p) /\ RowDeclared(Object(p), row)
        /\ row.id # NoId => Owns(Object(p), row.id)
    BY Zenon, <1>5, <2>1 DEF ApplierOK, ToWrite
  <2>3. PICK n \in Declared : n = Object(p)
    BY Zenon, <1>1
  <2>4. RowDeclared(n, row)' /\ (row.id # NoId => Owns(n, row.id)')
    BY Zenon, <2>1, <2>2, <2>3, RowKept DEF Keeps, KeepsOwners
  <2>5. row = boot'[p].row /\ n = Object(p)'
    BY Zenon, <1>2, <2>1, <2>3
  <2> QED BY Zenon, <2>2, <2>3, <2>4, <2>5 DEF ToWrite
<1>6. ASSUME boot[p].pc \in {"link", "allow"}
      PROVE  /\ Object(p) \in Accounts /\ RowSet(Object(p), boot[p].id)'
             /\ boot[p].pc = "allow" => LinksDeclared(Object(p), boot[p].id)'
  <2>1. PICK id \in Nat : id = boot[p].id
    BY Zenon, <1>0, <1>6, ApplierTyped DEF Linking
  <2>2. PICK n \in Declared : n = Object(p)
    BY Zenon, <1>1
  <2>3. Object(p) \in Accounts /\ RowSet(n, id) /\ Owns(n, id)
        /\ (boot[p].pc = "allow" => LinksDeclared(n, id))
    BY Zenon, <1>6, <2>1, <2>2, OwnsSet DEF ApplierOK
  <2>4. RowSet(n, id)' /\ (boot[p].pc = "allow" => LinksDeclared(n, id)')
    BY Zenon, <2>3 DEF Keeps
  <2>5. id = boot'[p].id /\ n = Object(p)'
    BY Zenon, <1>2, <2>1, <2>2
  <2> QED BY Zenon, <2>3, <2>4, <2>5
<1>7. \A k \in 1 .. Len(file'.order) : k < boot'[p].at => AsDeclared(file.order[k])'
  BY Zenon, <1>2, <1>4
<1>8. boot'[p].pc # "resolve" => Unresolved(p)' = {}
  BY Zenon, <1>2 DEF ApplierOK
<1> QED BY Zenon, <1>2, <1>3, <1>5, <1>6, <1>7, <1>8 DEF ApplierOK

LEMMA HarmlessKept ==
    ASSUME Keeps, StoreInv, NEW r \in Requests, req'[r] = req[r], Harmless(r)
    PROVE  Harmless(r)'
<1>1. Declared' = Declared /\ nextId \in Nat /\ nextId' \in Nat /\ nextId <= nextId'
  BY DEF Keeps, KeepsOwners, Declared, DeclaredBy, StoreInv, TableInv
<1>2. CASE req[r].pc \notin {"save", "link", "allow", "delete"}
  BY Zenon, <1>2 DEF Harmless
<1>3. CASE req[r].pc \in {"save", "link", "allow", "delete"}
  <2>1. req[r] \in Asking
    <3>1. NoRequest.pc = "idle"
      BY Zenon DEF NoRequest
    <3>2. req[r] # NoRequest
      BY <1>3, <3>1
    <3> QED BY Zenon, <3>2 DEF StoreInv, ReqTyped
  <2>2. PICK row \in Copy : row = req[r].row
    BY <2>1 DEF Asking
  <2>3. row.id \in Nat /\ row.ref \in Nat /\ row = req'[r].row
    BY <2>2 DEF Copy
  <2>4. CASE row.id < nextId /\ Foreign(row.id)
    <3>1. row.id < nextId'
      BY <1>1, <2>3, <2>4
    <3>2. Foreign(row.id)'
      BY Zenon, <1>1, <2>3, <2>4 DEF Keeps, KeepsOwners, Foreign
    <3> QED BY Zenon, <2>3, <3>1, <3>2 DEF Harmless
  <2>5. CASE /\ req[r].pc = "save" /\ req[r].with = NotGiven
             /\ row.name \in Declared
             /\ Owns(row.name, row.id) /\ RowDeclared(row.name, row)
    <3>1. PICK n \in Declared : n = row.name
      BY Zenon, <2>5
    <3>2. Owns(n, row.id)' /\ RowDeclared(n, row)'
      BY Zenon, <2>3, <2>5, <3>1, RowKept DEF Keeps, KeepsOwners
    <3> QED BY Zenon, <1>1, <2>3, <2>5, <3>1, <3>2 DEF Harmless
  <2> QED BY Zenon, <1>3, <2>2, <2>4, <2>5 DEF Harmless
<1> QED BY Zenon, <1>2, <1>3

LEMMA HarmlessGone ==
    ASSUME NEW r, req'[r] = NoRequest
    PROVE  Harmless(r)'
<1>1. req'[r].pc \notin {"save", "link", "allow", "delete"}
  BY DEF NoRequest
<1> QED BY Zenon, <1>1 DEF Harmless

-----------------------------------------------------------------------------
(* The Applier keeps what is declared and makes progress towards it. *)
Complete == \A n \in Declared : AsDeclared(n)

(* Identifiers that are right after the step. *)
RightAfter(ids) ==
    \A n \in Names : ids[n] # NoId =>
        /\ ids[n] < nextId'
        /\ n \in Declared => Owns(n, ids[n])'
        /\ n \notin Declared => Foreign(ids[n])'

LEMMA RightfulAfter ==
    ASSUME NEW p \in Replicas, UNCHANGED file, NEW ids, ids = boot'[p].ids, RightAfter(ids)
    PROVE  \A n \in Names : Rightful(p, n)'
<1> SUFFICES ASSUME NEW n \in Names PROVE Rightful(p, n)'
  OBVIOUS
<1>1. PICK id : id = boot'[p].ids[n]
  BY Zenon
<1>2. id # NoId => /\ id < nextId'
                   /\ n \in Declared => Owns(n, id)'
                   /\ n \notin Declared => Foreign(id)'
  <2>1. ids[n] # NoId => /\ ids[n] < nextId'
                         /\ n \in Declared => Owns(n, ids[n])'
                         /\ n \notin Declared => Foreign(ids[n])'
    BY Zenon DEF RightAfter
  <2>2. id = ids[n]
    BY Zenon, <1>1
  <2> QED BY Zenon, <2>1, <2>2
<1>3. Declared' = Declared
  BY Zenon DEF Declared, DeclaredBy
<1> QED BY Zenon, <1>1, <1>2, <1>3 DEF Rightful, Owns, Foreign, Named

LEMMA RightStays ==
    ASSUME Keeps, StoreInv, NEW p \in Applying, ApplierOK(p), NEW ids, ids = boot[p].ids
    PROVE  RightAfter(ids)
<1>0. p \in Replicas /\ nextId \in Nat /\ nextId' \in Nat /\ nextId <= nextId'
      /\ Declared' = Declared
  BY DEF Applying, StoreInv, TableInv, Keeps, KeepsOwners, Declared, DeclaredBy
<1>1. boot[p].ids \in [Names -> Nat]
  BY Zenon, <1>0, ApplierTyped
<1>2. ASSUME NEW n \in Names, NEW id \in Nat, id = boot[p].ids[n], id # NoId
      PROVE  /\ id < nextId'
             /\ n \in Declared => Owns(n, id)'
             /\ n \notin Declared => Foreign(id)'
  <2>1. id < nextId /\ IF n \in Declared THEN Owns(n, id) ELSE Foreign(id)
    BY Zenon, <1>2 DEF ApplierOK, Rightful
  <2>2. id < nextId'
    BY <1>0, <2>1
  <2>3. n \in Declared => Owns(n, id)'
    BY Zenon, <2>1 DEF Keeps, KeepsOwners
  <2>4. n \notin Declared => Foreign(id)'
    BY Zenon, <1>0, <2>1 DEF Keeps, KeepsOwners, Foreign
  <2> QED BY Zenon, <2>2, <2>3, <2>4
<1>3. \A n \in Names : ids[n] \in Nat /\ ids[n] = boot[p].ids[n]
  BY <1>1
<1> QED BY Zenon, <1>2, <1>3 DEF RightAfter

LEMMA DeclaredAt ==
    ASSUME File(file)
    PROVE  \A m : m \in Declared <=> \E k \in 1 .. Len(file.order) : m = file.order[k]
<1>1. DOMAIN file.order = 1 .. Len(file.order)
  BY DEF File
<1> QED BY Zenon, <1>1 DEF Declared, DeclaredBy, Range

(* The next object, or all of them done. *)
LEMMA AppliedOK ==
    ASSUME StoreInv, Keeps, NEW p \in Applying, ApplierOK(p),
           NEW ids \in [Names -> Nat], Applied(p, ids), RightAfter(ids),
           NEW n, n = Object(p), AsDeclared(n)'
    PROVE  (p \in Applying' => ApplierOK(p)') /\ (p \in Up' => Complete')
<1>0. /\ p \in Replicas /\ TableInv /\ File(file) /\ file' = file /\ Declared' = Declared
      /\ boot[p].at \in 1 .. Len(file.order)
  BY Zenon, ApplierTyped DEF Applying, StoreInv, Keeps, KeepsOwners, Declared, DeclaredBy
<1>1. ASSUME NEW k \in 1 .. Len(file.order), k < boot[p].at + 1, NEW m, m = file.order[k]
      PROVE  AsDeclared(m)'
  <2>1. CASE k = boot[p].at
    <3>1. m = n
      BY Zenon, <1>1, <2>1 DEF Object
    <3> QED BY Zenon, <3>1 DEF AsDeclared
  <2>2. CASE k # boot[p].at
    <3>1. k < boot[p].at
      BY <1>0, <1>1, <2>2
    <3>2. AsDeclared(m) /\ m \in Declared
      <4>1. m \in Declared
        BY Zenon, <1>0, <1>1, DeclaredAt
      <4> QED BY Zenon, <1>1, <3>1, <4>1 DEF ApplierOK
    <3> QED BY Zenon, <1>0, <3>2, AsDeclaredKept
  <2> QED BY Zenon, <2>1, <2>2
<1>2. CASE boot'[p] = Serving /\ boot[p].at = Len(file.order)
  <2>1. p \notin Applying'
    BY <1>2 DEF Applying, Serving
  <2>2. ASSUME NEW m \in Declared
        PROVE  AsDeclared(m)'
    <3>1. PICK k \in 1 .. Len(file.order) : m = file.order[k]
      BY Zenon, <1>0, DeclaredAt
    <3>2. k < boot[p].at + 1
      BY <1>0, <1>2
    <3> QED BY Zenon, <1>1, <3>1, <3>2
  <2>3. Complete'
    BY Zenon, <1>0, <2>2 DEF Complete
  <2> QED BY Zenon, <2>1, <2>3
<1>3. CASE /\ boot'[p] \in Reading /\ boot'[p].pc = "resolve"
           /\ boot'[p].at = boot[p].at + 1 /\ boot'[p].ids = ids
  <2>1. p \notin Up'
    BY <1>3 DEF Up, Is
  <2>2. \A m \in Names : Rightful(p, m)'
    BY Zenon, <1>0, <1>3, RightfulAfter
  <2>3. ASSUME NEW k \in 1 .. Len(file'.order), k < boot'[p].at
        PROVE  AsDeclared(file.order[k])'
    <3>1. PICK m : m = file.order[k]
      BY Zenon
    <3>2. AsDeclared(m)' /\ m = file'.order[k]
      BY Zenon, <1>0, <1>1, <1>3, <2>3, <3>1
    <3> QED BY Zenon, <3>2
  <2>4. boot'[p].pc # "write" /\ boot'[p].pc \notin {"link", "allow"} /\ boot'[p].pc # "allow"
    BY <1>3
  <2>5. ApplierOK(p)'
    BY Zenon, <1>3, <2>2, <2>3, <2>4 DEF ApplierOK
  <2> QED BY Zenon, <2>1, <2>5
<1> QED BY Zenon, <1>2, <1>3, AppliedEffect

LEMMA StoppedOK ==
    ASSUME NEW p, boot'[p] = Stopped
    PROVE  p \notin Applying' /\ p \notin Up'
BY DEF Stopped, Applying, Up, Is

(* The same object, in the state that the step leads to. *)
LEMMA SameObject ==
    ASSUME StoreInv, Keeps, NEW p \in Applying, ApplierOK(p),
           boot'[p].at = boot[p].at, NEW ids, ids = boot'[p].ids, RightAfter(ids),
           boot'[p].pc \in {"resolve", "look", "write", "link", "allow"},
           boot'[p].pc # "resolve" => Unresolved(p)' = {},
           boot'[p].pc = "write" => ToWrite(p)',
           boot'[p].pc \in {"link", "allow"} =>
              Object(p)' \in Accounts /\ RowSet(Object(p), boot[p].id)',
           boot'[p].pc = "allow" => LinksDeclared(Object(p), boot[p].id)'
    PROVE  (p \in Applying' => ApplierOK(p)') /\ (p \in Up' => Complete')
<1>0. p \in Replicas /\ TableInv /\ File(file) /\ file' = file
  BY Zenon DEF Applying, StoreInv, Keeps, KeepsOwners
<1>1. p \notin Up'
  BY DEF Up, Is
<1>2. \A m \in Names : Rightful(p, m)'
  BY Zenon, <1>0, RightfulAfter
<1>3. ASSUME NEW k \in 1 .. Len(file'.order), k < boot'[p].at
      PROVE  AsDeclared(file.order[k])'
  <2>1. PICK m \in Declared : m = file.order[k]
    BY Zenon, <1>0, <1>3, DeclaredAt
  <2>2. AsDeclared(m)
    BY Zenon, <1>0, <1>3, <2>1 DEF ApplierOK
  <2>3. AsDeclared(m)' /\ m = file'.order[k]
    BY Zenon, <1>0, <2>1, <2>2, AsDeclaredKept
  <2> QED BY Zenon, <2>3
<1> QED BY Zenon, <1>1, <1>2, <1>3 DEF ApplierOK

LEMMA ResolveOK ==
    ASSUME StoreInv, NEW p \in Replicas, UNCHANGED file, Resolve(p), ApplierOK(p)
    PROVE  Keeps /\ (p \in Applying' => ApplierOK(p)') /\ (p \in Up' => Complete')
<1>0. TableInv /\ UNCHANGED tables /\ p \in Applying /\ boot[p].ids \in [Names -> Nat]
  BY Zenon, ApplierTyped DEF StoreInv, Resolve, Is, Applying
<1>1. Keeps
  BY Zenon, <1>0, KeepsUnchanged
<1>2. CASE boot'[p] = Stopped
  BY Zenon, <1>1, <1>2, StoppedOK
<1>3. CASE /\ Unresolved(p) = {} /\ boot'[p].pc = "look"
           /\ boot'[p].at = boot[p].at /\ boot'[p].ids = boot[p].ids
  <2>1. Unresolved(p)' = Unresolved(p)
    BY Zenon, <1>3 DEF Unresolved, Refs, Object
  <2>2. PICK ids : ids = boot[p].ids
    BY Zenon
  <2>3. RightAfter(ids)
    BY Zenon, <1>0, <1>1, <2>2, RightStays
  <2>4. boot'[p].pc \in {"resolve", "look", "write", "link", "allow"}
        /\ boot'[p].pc # "write" /\ boot'[p].pc \notin {"link", "allow"} /\ boot'[p].pc # "allow"
    BY <1>3
  <2> QED BY Zenon, <1>0, <1>1, <1>3, <2>1, <2>2, <2>3, <2>4, SameObject
<1>4. ASSUME NEW n \in Names, NEW row \in Named(n), boot'[p].pc = "resolve",
             boot'[p].at = boot[p].at, boot'[p].ids = [boot[p].ids EXCEPT ![n] = row.id]
      PROVE  (p \in Applying' => ApplierOK(p)') /\ (p \in Up' => Complete')
  <2>1. PICK old, ids : old = boot[p].ids /\ ids = [old EXCEPT ![n] = row.id]
    BY Zenon
  <2>2. RightAfter(old)
    BY Zenon, <1>0, <1>1, <2>1, RightStays
  <2>3. row \in rows /\ row.name = n /\ row.id < nextId /\ Owns(n, row.id)
    BY Zenon, <1>0 DEF Named, Owns, TableInv
  <2>4. n \notin Declared => Foreign(row.id)
    BY Zenon, <1>0, <2>3 DEF Foreign, Owns, Named, TableInv
  <2>5. /\ ids[n] = row.id /\ \A m \in Names \ {n} : ids[m] = old[m]
        /\ rows' = rows /\ nextId' = nextId /\ Declared' = Declared
    BY Zenon, <1>0, <2>1 DEF tables, Declared, DeclaredBy
  <2>6. Owns(n, row.id)' /\ (n \notin Declared => Foreign(row.id)') /\ row.id < nextId'
    BY Zenon, <2>3, <2>4, <2>5 DEF Owns, Named, Foreign
  <2>7. RightAfter(ids)
    BY Zenon, <2>2, <2>5, <2>6 DEF RightAfter
  <2>8. boot'[p].pc \in {"resolve", "look", "write", "link", "allow"}
        /\ boot'[p].pc # "write" /\ boot'[p].pc \notin {"link", "allow"} /\ boot'[p].pc # "allow"
    BY <1>4
  <2>9. ids = boot'[p].ids
    BY Zenon, <1>4, <2>1
  <2> QED BY Zenon, <1>0, <1>1, <1>4, <2>7, <2>8, <2>9, SameObject
<1> QED BY Zenon, <1>1, <1>2, <1>3, <1>4, ResolveEffect

(* What an applier that has resolved every reference would write. *)
LEMMA NewRowDeclared ==
    ASSUME StoreInv, NEW p \in Applying, ApplierOK(p), Unresolved(p) = {}, reconcile,
           NEW id \in Nat
    PROVE  /\ RowDeclared(Object(p), [NewRow(p) EXCEPT !.id = id])
           /\ [NewRow(p) EXCEPT !.id = id].id = id
<1>0. /\ boot[p].ids \in [Names -> Nat] /\ Object(p) \in Declared /\ Object(p) \in Names
      /\ Refs(p) \in Seq(Names)
  BY Zenon, ApplierTyped DEF Applying
<1>1. PICK row : row = [NewRow(p) EXCEPT !.id = id]
  BY Zenon
<1>2. /\ row.name = Object(p) /\ row.value = "declared" /\ row.managed = "bootstrap"
      /\ row.ref = Ref(p) /\ row.id = id
  BY <1>1 DEF NewRow, ManagedBy
<1>3. ASSUME Main(Object(p)) \in Ours(Object(p))
      PROVE  Owns(file.refs[Object(p)][Main(Object(p))], row.ref)
  <2>1. PICK i \in DOMAIN Refs(p) : i = Main(Object(p))
    BY Zenon, <1>3 DEF Ours, Refs
  <2>2. PICK n \in Declared : n = Refs(p)[i]
    BY Zenon, <1>3, <2>1 DEF Ours, Refs, Declared
  <2>3. n \in Names /\ Refs(p) # << >>
    BY <1>0, <2>1, <2>2
  <2>4. Ref(p) = boot[p].ids[n]
    BY <2>1, <2>2, <2>3 DEF Ref, IdsOf, Main
  <2>5. boot[p].ids[n] # NoId
    BY Zenon, <2>1, <2>2 DEF Unresolved
  <2>6. Owns(n, boot[p].ids[n])
    BY Zenon, <2>3, <2>5 DEF ApplierOK, Rightful
  <2>7. n = file.refs[Object(p)][Main(Object(p))]
    BY Zenon, <2>1, <2>2 DEF Refs
  <2> QED BY Zenon, <1>2, <2>4, <2>6, <2>7
<1>4. RowDeclared(Object(p), row)
  BY Zenon, <1>2, <1>3 DEF RowDeclared
<1> QED BY Zenon, <1>1, <1>2, <1>4

LEMMA LookUpOK ==
    ASSUME StoreInv, NEW p \in Replicas, UNCHANGED file, LookUp(p), ApplierOK(p), reconcile
    PROVE  Keeps /\ (p \in Applying' => ApplierOK(p)') /\ (p \in Up' => Complete')
<1>0. TableInv /\ UNCHANGED tables /\ p \in Applying /\ boot[p].pc = "look"
  BY Zenon DEF StoreInv, LookUp, Is, Applying
<1>1. Keeps
  BY Zenon, <1>0, KeepsUnchanged
<1>2. PICK id \in Nat :
        /\ id # NoId => \E row \in Named(Object(p)) : row.id = id
        /\ boot'[p] \in Writing
        /\ boot'[p].at = boot[p].at /\ boot'[p].ids = boot[p].ids
        /\ boot'[p].row = [NewRow(p) EXCEPT !.id = id]
  BY Zenon, LookUpEffect
<1>3. Unresolved(p) = {}
  BY <1>0 DEF ApplierOK
<1>4. Unresolved(p)' = {} /\ Object(p)' = Object(p)
  BY Zenon, <1>2, <1>3 DEF Unresolved, Refs, Object
<1>5. PICK row \in Copy : row = [NewRow(p) EXCEPT !.id = id]
  BY Zenon, <1>0, NewRowTyped
<1>6. PICK n \in Declared : n = Object(p)
  BY Zenon, <1>0, ApplierTyped
<1>7. RowDeclared(n, row) /\ row.id = id /\ row.ref \in Nat /\ row.name = n
  <2>1. RowDeclared(n, row) /\ row.id = id
    BY Zenon, <1>0, <1>3, <1>5, <1>6, NewRowDeclared
  <2>2. row.ref \in Nat
    BY DEF Copy
  <2> QED BY Zenon, <2>1, <2>2 DEF RowDeclared
<1>8. RowDeclared(n, row)' /\ (row.id # NoId => Owns(n, row.id)')
  <2>1. row.id # NoId => Owns(n, row.id)
    BY Zenon, <1>2, <1>6, <1>7 DEF Owns
  <2> QED BY Zenon, <1>1, <1>7, <2>1, RowKept DEF Keeps, KeepsOwners
<1>9. ToWrite(p)'
  <2>1. row = boot'[p].row /\ n = Object(p)'
    BY Zenon, <1>2, <1>4, <1>5, <1>6
  <2> QED BY Zenon, <1>7, <1>8, <2>1 DEF ToWrite
<1>10. PICK ids : ids = boot[p].ids
  BY Zenon
<1>11. RightAfter(ids)
  BY Zenon, <1>0, <1>1, <1>10, RightStays
<1>12. boot'[p].pc = "write"
  BY <1>2 DEF Writing
<1>13. boot'[p].pc \in {"resolve", "look", "write", "link", "allow"}
       /\ boot'[p].pc \notin {"link", "allow"} /\ boot'[p].pc # "allow"
  BY <1>12
<1> QED BY Zenon, <1>0, <1>1, <1>2, <1>4, <1>9, <1>10, <1>11, <1>13, SameObject

(* The row that Create or Update leaves. *)
LEMMA WroteDeclared ==
    ASSUME TableInv, NEW row \in Copy, NEW n \in Declared, RowDeclared(n, row),
           row.id # NoId => Owns(n, row.id), Wrote(row), UNCHANGED <<links, senders, file>>,
           NEW id \in Nat, id = IF row.id = NoId THEN nextId ELSE row.id
    PROVE  Keeps /\ RowSet(n, id)' /\ id < nextId'
<1>0. nextId \in Nat /\ row.name = n /\ row.ref \in Nat /\ row.id \in Nat
  BY DEF TableInv, RowDeclared, Copy
<1>1. CASE row.id = NoId /\ Insertable(row) /\ Inserted(row)
  <2>1. Keeps
    BY Zenon, <1>1, KeepsInsert
  <2>2. PICK new : new = [row EXCEPT !.id = nextId]
    BY Zenon
  <2>3. /\ new.id = nextId /\ new.name = row.name /\ new.ref = row.ref
        /\ new.value = row.value /\ new.managed = row.managed
    BY <2>2 DEF Copy
  <2>4. RowDeclared(n, new) /\ new.ref \in Nat
    BY Zenon, <1>0, <2>3 DEF RowDeclared
  <2>5. RowDeclared(n, new)'
    BY Zenon, <2>1, <2>4, RowKept DEF Keeps
  <2>6. new \in rows' /\ new.id = id
    BY Zenon, <1>1, <2>2, <2>3 DEF Inserted
  <2>7. id < nextId'
    BY <1>0, <1>1, <2>3, <2>6 DEF Inserted
  <2> QED BY Zenon, <2>1, <2>5, <2>6, <2>7 DEF RowSet
<1>2. CASE row.id # NoId /\ Updatable(row) /\ Updated(row)
  <2>1. Keeps
    BY Zenon, <1>0, <1>2, KeepsUpdate
  <2>2. RowDeclared(n, row)'
    BY Zenon, <1>0, <2>1, RowKept DEF Keeps
  <2>3. row \in rows' /\ row.id = id /\ nextId' = nextId
    BY Zenon, <1>2 DEF Updated
  <2>4. id < nextId'
    BY Zenon, <1>2, <2>3, RowsKnown DEF Updatable
  <2> QED BY Zenon, <2>1, <2>2, <2>3, <2>4 DEF RowSet
<1> QED BY Zenon, <1>1, <1>2 DEF Wrote

LEMMA WriteOK ==
    ASSUME StoreInv, NEW p \in Replicas, UNCHANGED file, Write(p), ApplierOK(p)
    PROVE  Keeps /\ (p \in Applying' => ApplierOK(p)') /\ (p \in Up' => Complete')
<1>0. /\ TableInv /\ UNCHANGED <<links, senders>> /\ boot[p].row \in Copy /\ p \in Applying
      /\ boot[p].pc = "write"
  BY Zenon, WriteEffect DEF StoreInv, Write, Is
<1>1. CASE boot'[p] = Stopped /\ UNCHANGED <<rows, nextId>>
  BY Zenon, <1>0, <1>1, KeepsUnchanged, StoppedOK DEF tables
<1>2. CASE ~(boot'[p] = Stopped /\ UNCHANGED <<rows, nextId>>)
  <2>1. PICK row \in Copy : row = boot[p].row
    BY Zenon, <1>0
  <2>2. PICK n \in Declared : n = Object(p) /\ n \in Names
    BY Zenon, <1>0, ApplierTyped
  <2>3. RowDeclared(n, row) /\ (row.id # NoId => Owns(n, row.id))
    BY Zenon, <1>0, <2>1, <2>2 DEF ApplierOK, ToWrite
  <2>4. PICK id \in Nat :
          /\ id = IF row.id = NoId THEN nextId ELSE row.id
          /\ id # NoId /\ Wrote(row)
          /\ \/ Object(p) \notin Accounts /\ Applied(p, Known(p, Object(p), id))
             \/ /\ Object(p) \in Accounts
                /\ boot'[p] \in Linking /\ boot'[p].pc = "link" /\ boot'[p].id = id
                /\ boot'[p].at = boot[p].at /\ boot'[p].ids = boot[p].ids
    BY Zenon, <1>2, <2>1, WriteEffect
  <2>5. Keeps /\ RowSet(n, id)' /\ id < nextId'
    BY Zenon, <1>0, <2>3, <2>4, WroteDeclared
  <2>6. Owns(n, id)'
    BY Zenon, <2>5 DEF RowSet, RowDeclared, Owns, Named
  <2>7. PICK old : old = boot[p].ids
    BY Zenon
  <2>8. RightAfter(old) /\ old \in [Names -> Nat]
    BY Zenon, <1>0, <2>5, <2>7, RightStays, ApplierTyped
  <2>9. CASE Object(p) \notin Accounts /\ Applied(p, Known(p, Object(p), id))
    <3>1. PICK ids \in [Names -> Nat] : ids = [old EXCEPT ![n] = id]
      BY Zenon, <2>2, <2>8
    <3>2. ids[n] = id /\ \A m \in Names \ {n} : ids[m] = old[m]
      BY <2>2, <2>8, <3>1
    <3>3. RightAfter(ids)
      BY Zenon, <2>5, <2>6, <2>8, <3>2 DEF RightAfter
    <3>4. Applied(p, ids)
      BY Zenon, <2>2, <2>7, <2>9, <3>1 DEF Known
    <3>5. AsDeclared(n)'
      BY Zenon, <2>2, <2>5, <2>9 DEF RowSet, AsDeclared
    <3> QED BY Zenon, <1>0, <2>2, <2>5, <3>3, <3>4, <3>5, AppliedOK
  <2>10. CASE /\ Object(p) \in Accounts
              /\ boot'[p].pc = "link" /\ boot'[p].id = id
              /\ boot'[p].at = boot[p].at /\ boot'[p].ids = boot[p].ids
    <3>1. Object(p)' = n /\ Unresolved(p)' = Unresolved(p)
      BY Zenon, <2>2, <2>10 DEF Object, Unresolved, Refs
    <3>2. Unresolved(p)' = {}
      BY Zenon, <1>0, <3>1 DEF ApplierOK
    <3>3. RowSet(Object(p), boot[p].id)'
      BY Zenon, <2>5, <2>10, <3>1
    <3>4. boot'[p].pc \in {"resolve", "look", "write", "link", "allow"}
          /\ boot'[p].pc # "write" /\ boot'[p].pc # "allow"
      BY <2>10
    <3> QED BY Zenon, <1>0, <2>2, <2>5, <2>7, <2>8, <2>10, <3>1, <3>2, <3>3, <3>4, SameObject
  <2> QED BY Zenon, <2>4, <2>5, <2>9, <2>10
<1> QED BY Zenon, <1>1, <1>2

LEMMA LinkOK ==
    ASSUME StoreInv, NEW p \in Replicas, UNCHANGED file, LinkMailboxes(p), ApplierOK(p)
    PROVE  Keeps /\ (p \in Applying' => ApplierOK(p)') /\ (p \in Up' => Complete')
<1>0. /\ TableInv /\ UNCHANGED <<rows, senders, nextId>> /\ p \in Applying
      /\ boot[p].pc = "link" /\ boot[p].id \in Nat
  BY Zenon, LinkEffect DEF StoreInv, LinkMailboxes, Is
<1>1. CASE boot'[p] = Stopped /\ UNCHANGED links
  BY Zenon, <1>0, <1>1, KeepsUnchanged, StoppedOK DEF tables
<1>2. CASE /\ Linked(boot[p].id, Range(IdsOf(p)))
           /\ boot'[p].pc = "allow" /\ boot'[p].id = boot[p].id
           /\ boot'[p].at = boot[p].at /\ boot'[p].ids = boot[p].ids
  <2>1. PICK n \in Declared : n = Object(p)
    BY Zenon, <1>0, ApplierTyped
  <2>2. PICK account \in Nat : account = boot[p].id
    BY Zenon, <1>0
  <2>3. PICK old : old = boot[p].ids
    BY Zenon
  <2>4. PICK refs : refs = file.refs[n]
    BY Zenon
  <2>5. refs \in Seq(Names) /\ refs = Refs(p) /\ old \in [Names -> Nat]
    BY Zenon, <1>0, <2>1, <2>3, <2>4, ApplierTyped DEF Refs
  <2>6. Range(IdsOf(p)) = {old[refs[i]] : i \in DOMAIN refs}
    BY Zenon, <2>3, <2>5 DEF Range, IdsOf
  <2>7. links' = {l \in links : l[1] # account} \cup ({account} \X {old[refs[i]] : i \in DOMAIN refs})
    BY Zenon, <1>2, <2>2, <2>6 DEF Linked
  <2>8. Unresolved(p) = {} /\ n \in Accounts /\ RowSet(n, account)
    BY Zenon, <1>0, <2>1, <2>2 DEF ApplierOK
  <2>9. \A m, id : Owns(m, id)' <=> Owns(m, id)
    BY Zenon, <1>0 DEF Owns, Named
  <2>10. ASSUME NEW i \in DOMAIN refs
         PROVE  /\ refs[i] \in Names /\ old[refs[i]] # NoId
                /\ refs[i] \in Declared => Owns(refs[i], old[refs[i]])
                /\ refs[i] \notin Declared => Foreign(old[refs[i]])
    <3>1. refs[i] \in Names
      BY <2>5
    <3>2. old[refs[i]] # NoId
      BY Zenon, <2>3, <2>5, <2>8 DEF Unresolved
    <3> QED BY Zenon, <2>3, <3>1, <3>2 DEF ApplierOK, Rightful
  <2>11. Ours(n)' = Ours(n) /\ file' = file /\ DeclaredBy(file)' = Declared
    BY Zenon DEF Ours, Declared, DeclaredBy
  <2>12. ASSUME NEW i \in Ours(n)
         PROVE  \E l \in links' : l[1] = account /\ Owns(file.refs[n][i], l[2])'
    <3>1. i \in DOMAIN refs /\ refs[i] \in Declared
      BY Zenon, <2>4 DEF Ours, Declared
    <3>2. PICK m, id : m = refs[i] /\ id = old[refs[i]]
      BY Zenon
    <3>3. <<account, id>> \in links' /\ <<account, id>>[1] = account /\ <<account, id>>[2] = id
      BY <2>7, <3>1, <3>2
    <3>4. Owns(m, id)' /\ m = file'.refs[n][i]
      BY Zenon, <2>4, <2>9, <2>10, <3>1, <3>2
    <3>5. Owns(file.refs[n][i], <<account, id>>[2])'
      BY Zenon, <3>3, <3>4 DEF Owns, Named
    <3> QED BY Zenon, <3>3, <3>5
  <2>13. ASSUME NEW l \in links', NEW m \in Declared, l[1] = account, Owns(m, l[2])'
         PROVE  m \in Range(file'.refs[n])
    <3>1. PICK i \in DOMAIN refs : l[2] = old[refs[i]]
      BY <2>7, <2>13
    <3>2. Owns(m, old[refs[i]])
      BY Zenon, <2>9, <2>13, <3>1
    <3>3. refs[i] \in Declared /\ Owns(refs[i], old[refs[i]])
      BY Zenon, <2>10, <3>2 DEF Foreign
    <3>4. m = refs[i]
      BY Zenon, <1>0, <3>2, <3>3 DEF Owns, Named, TableInv
    <3> QED BY Zenon, <2>4, <3>4 DEF Range
  <2>14. LinksDeclared(n, account)'
    BY Zenon, <2>11, <2>12, <2>13 DEF LinksDeclared
  <2>15. Owns(n, account)
    BY Zenon, <2>8, OwnsSet
  <2>16. PICK ids : ids = Range(IdsOf(p))
    BY Zenon
  <2>17. Linked(account, ids)
    BY Zenon, <1>2, <2>2, <2>16 DEF Linked
  <2>18. Keeps
    BY Zenon, <1>0, <2>14, <2>15, <2>17, KeepsLink
  <2>19. RowSet(n, account)' /\ RightAfter(old)
    BY Zenon, <1>0, <2>3, <2>8, <2>18, RightStays DEF Keeps
  <2>20. Object(p)' = n /\ Unresolved(p)' = Unresolved(p)
    BY Zenon, <1>2, <2>1 DEF Object, Unresolved, Refs
  <2>21. RowSet(Object(p), boot[p].id)' /\ LinksDeclared(Object(p), boot[p].id)'
    BY Zenon, <1>2, <2>2, <2>14, <2>19, <2>20
  <2>22. boot'[p].pc \in {"resolve", "look", "write", "link", "allow"} /\ boot'[p].pc # "write"
    BY <1>2
  <2> QED BY Zenon, <1>0, <1>2, <2>3, <2>8, <2>18, <2>19, <2>20, <2>21, <2>22, SameObject
<1> QED BY Zenon, <1>1, <1>2, LinkEffect

LEMMA AllowOK ==
    ASSUME StoreInv, NEW p \in Replicas, UNCHANGED file, AllowSenders(p), ApplierOK(p)
    PROVE  Keeps /\ (p \in Applying' => ApplierOK(p)') /\ (p \in Up' => Complete')
<1>0. /\ TableInv /\ UNCHANGED <<rows, links, nextId>> /\ p \in Applying
      /\ boot[p].pc = "allow" /\ boot[p].id \in Nat
  BY Zenon, AllowEffect DEF StoreInv, AllowSenders, Is
<1>1. CASE boot'[p] = Stopped /\ UNCHANGED senders
  BY Zenon, <1>0, <1>1, KeepsUnchanged, StoppedOK DEF tables
<1>2. CASE Allowed(boot[p].id, "declared") /\ Applied(p, boot[p].ids)
  <2>1. PICK n \in Declared : n = Object(p)
    BY Zenon, <1>0, ApplierTyped
  <2>2. PICK account \in Nat : account = boot[p].id
    BY Zenon, <1>0
  <2>3. PICK ids \in [Names -> Nat] : ids = boot[p].ids
    BY Zenon, <1>0, ApplierTyped
  <2>4. RowSet(n, account) /\ Owns(n, account) /\ LinksDeclared(n, account)
    BY Zenon, <1>0, <2>1, <2>2, OwnsSet DEF ApplierOK
  <2>5. Allowed(account, "declared") /\ Applied(p, ids)
    BY Zenon, <1>2, <2>2, <2>3 DEF Allowed
  <2>6. Keeps
    BY Zenon, <1>0, <2>5, KeepsAllow
  <2>7. SendersDeclared(account)'
    <3>1. <<account, "declared">>[1] = account
      BY Zenon
    <3> QED BY Zenon, <2>5, <3>1 DEF Allowed, SendersDeclared
  <2>8. RowSet(n, account)' /\ LinksDeclared(n, account)'
    BY Zenon, <2>4, <2>6 DEF Keeps
  <2>9. PICK row \in rows' : row.id = account /\ RowDeclared(n, row)'
    BY Zenon, <2>8 DEF RowSet
  <2>10. AsDeclared(n)'
    BY Zenon, <2>7, <2>8, <2>9 DEF AsDeclared
  <2>11. RightAfter(ids)
    BY Zenon, <1>0, <2>3, <2>6, RightStays
  <2> QED BY Zenon, <1>0, <2>1, <2>5, <2>6, <2>10, <2>11, AppliedOK
<1> QED BY Zenon, <1>1, <1>2, AllowEffect

-----------------------------------------------------------------------------
(* Requests keep what is declared once everything is. *)
LEMMA DeclaredOwned ==
    ASSUME Complete, NEW n \in Declared
    PROVE  \E row \in rows : RowDeclared(n, row) /\ Owns(n, row.id)
BY Zenon DEF Complete, AsDeclared, RowDeclared, Owns, Named

LEMMA HandlerOK ==
    ASSUME StoreInv, NEW r \in Requests, Handler(r), UNCHANGED file, Complete, Harmless(r)
    PROVE  Keeps /\ Harmless(r)'
<1> DEFINE row == req[r].row
<1>0. TableInv /\ row \in Copy /\ row.id \in Nat /\ nextId \in Nat
  <2>1. row \in Copy
    BY Zenon, HandlerEffect
  <2> QED BY <2>1 DEF StoreInv, TableInv, Copy
<1>1. CASE UNCHANGED tables /\ req'[r] = NoRequest
  BY Zenon, <1>0, <1>1, KeepsUnchanged, HarmlessGone
<1>2. ASSUME NEW id \in Nat, Pursues(r, id), Keeps, id < nextId', Foreign(id)'
      PROVE  Harmless(r)'
  <2>1. req'[r].row.id = id
    BY Zenon, <1>2 DEF Pursues, Continues
  <2> QED BY Zenon, <1>2, <2>1 DEF Harmless, Foreign, Owns, Named
<1>3. CASE /\ Insertable(row) /\ Inserted(row) /\ UNCHANGED <<links, senders>>
           /\ req'[r] = NoRequest \/ Pursues(r, nextId)
  <2>1. Keeps
    BY Zenon, <1>0, <1>3, KeepsInsert
  <2>2. PICK new : new = [row EXCEPT !.id = nextId]
    BY Zenon
  <2>3. new.id = nextId /\ new.name = row.name /\ rows' = rows \cup {new} /\ nextId' = nextId + 1
    <3>1. new.id = nextId /\ new.name = row.name
      BY Zenon, <1>0, <2>2 DEF Copy
    <3> QED BY Zenon, <1>3, <2>2, <3>1 DEF Inserted
  <2>4. row.name \notin Declared
    <3> SUFFICES ASSUME row.name \in Declared PROVE FALSE
      OBVIOUS
    <3>1. PICK x \in rows : RowDeclared(row.name, x)
      BY Zenon, DeclaredOwned
    <3>2. x.name = row.name
      BY Zenon, <3>1 DEF RowDeclared
    <3>3. Named(row.name) = {}
      BY Zenon, <1>3 DEF Insertable
    <3> QED BY Zenon, <3>2, <3>3 DEF Named
  <2>5. PICK id \in Nat : id = nextId
    BY Zenon, <1>0
  <2>6. ASSUME NEW m \in Declared, Owns(m, id)'
        PROVE  FALSE
    <3>1. PICK x \in rows' : x.name = m /\ x.id = id
      BY Zenon, <2>6 DEF Owns, Named
    <3>2. x # new
      BY Zenon, <2>3, <2>4, <3>1
    <3>3. x \in rows
      BY Zenon, <2>3, <3>2
    <3> QED BY <1>0, <2>5, <3>1, <3>3 DEF TableInv, Row, Ids
  <2>7. Foreign(id)' /\ id < nextId'
    <3>1. Declared' = Declared
      BY Zenon DEF Declared, DeclaredBy
    <3>2. id < nextId'
      BY <1>0, <2>3, <2>5
    <3> QED BY Zenon, <2>6, <3>1, <3>2 DEF Foreign
  <2>8. CASE Pursues(r, nextId)
    <3>1. Pursues(r, id)
      BY Zenon, <2>5, <2>8 DEF Pursues, Continues
    <3> QED BY Zenon, <1>2, <2>1, <2>7, <3>1
  <2> QED BY Zenon, <1>3, <2>1, <2>8, HarmlessGone
<1>4. CASE /\ req[r].pc = "save"
           /\ Updatable(row) /\ Updated(row) /\ UNCHANGED <<links, senders>>
           /\ \/ req'[r] = NoRequest
              \/ Pursues(r, row.id) /\ req[r].with # NotGiven
  <2>1. CASE row.id < nextId /\ Foreign(row.id)
    <3>1. row.name \notin Declared
      <4> SUFFICES ASSUME row.name \in Declared PROVE FALSE
        OBVIOUS
      <4>1. PICK x \in rows : RowDeclared(row.name, x) /\ Owns(row.name, x.id)
        BY Zenon, DeclaredOwned
      <4>2. x.id = row.id
        BY Zenon, <1>4, <4>1 DEF Updatable, RowDeclared, Named
      <4> QED BY Zenon, <2>1, <4>1, <4>2 DEF Foreign
    <3>2. Keeps
      BY Zenon, <1>0, <1>4, <2>1, <3>1, KeepsUpdate
    <3>3. PICK id \in Nat : id = row.id
      BY Zenon, <1>0
    <3>4. Foreign(id)' /\ id < nextId'
      <4>1. Declared' = Declared
        BY Zenon DEF Declared, DeclaredBy
      <4>2. id < nextId'
        BY Zenon, <1>4, <2>1, <3>3 DEF Updated
      <4> QED BY Zenon, <2>1, <3>2, <3>3, <4>1, <4>2 DEF Foreign, Keeps, KeepsOwners
    <3>5. CASE Pursues(r, row.id)
      <4>1. Pursues(r, id)
        BY Zenon, <3>3, <3>5 DEF Pursues, Continues
      <4> QED BY Zenon, <1>2, <3>2, <3>4, <4>1
    <3> QED BY Zenon, <1>4, <3>2, <3>5, HarmlessGone
  <2>2. CASE /\ req[r].with = NotGiven /\ row.name \in Declared
             /\ Owns(row.name, row.id) /\ RowDeclared(row.name, row)
    <3>1. Keeps
      BY Zenon, <1>0, <1>4, <2>2, KeepsUpdate
    <3> QED BY Zenon, <1>4, <2>2, <3>1, HarmlessGone
  <2>3. req[r].pc \in {"save", "link", "allow", "delete"}
    BY <1>4
  <2> QED BY Zenon, <2>1, <2>2, <2>3 DEF Harmless
<1>5. ASSUME req[r].pc \in {"link", "allow", "delete"}
      PROVE  row.id < nextId /\ Foreign(row.id)
  <2>1. req[r].pc \in {"save", "link", "allow", "delete"} /\ req[r].pc # "save"
    BY <1>5
  <2> QED BY Zenon, <2>1 DEF Harmless
<1>6. CASE /\ req[r].pc = "link"
           /\ Linked(row.id, req[r].with.links)
           /\ UNCHANGED <<rows, senders, nextId>>
           /\ req'[r] = NoRequest \/ Pursues(r, row.id)
  <2>1. row.id < nextId /\ Foreign(row.id)
    BY <1>5, <1>6
  <2>2. PICK id, ids : id = row.id /\ ids = req[r].with.links
    BY Zenon
  <2>3. id \in Nat
    BY Zenon, <1>0, <2>2
  <2>4. Linked(id, ids) /\ Foreign(id) /\ (req'[r] = NoRequest \/ Pursues(r, id))
    BY Zenon, <1>6, <2>1, <2>2 DEF Linked, Foreign, Pursues, Continues
  <2>5. Keeps
    BY Zenon, <1>0, <1>6, <2>4, KeepsLink
  <2>6. Foreign(id)' /\ id < nextId'
    BY Zenon, <1>6, <2>1, <2>2, <2>4 DEF Foreign, Owns, Named, Declared, DeclaredBy
  <2> QED BY Zenon, <1>2, <2>3, <2>4, <2>5, <2>6, HarmlessGone
<1>7. CASE /\ req[r].pc = "allow"
           /\ Allowed(row.id, "edited") /\ UNCHANGED <<rows, links, nextId>>
           /\ req'[r] = NoRequest
  <2>1. row.id < nextId /\ Foreign(row.id)
    BY <1>5, <1>7
  <2>2. PICK id, list : id = row.id /\ list = "edited"
    BY Zenon
  <2>3. Allowed(id, list) /\ Foreign(id)
    BY Zenon, <1>7, <2>1, <2>2 DEF Allowed, Foreign
  <2>4. Keeps
    BY Zenon, <1>0, <1>7, <2>3, KeepsAllow
  <2> QED BY Zenon, <1>7, <2>4, HarmlessGone
<1>8. CASE req[r].pc = "delete" /\ Deleted(row.id) /\ req'[r] = NoRequest
  <2>1. row.id < nextId /\ Foreign(row.id)
    BY <1>5, <1>8
  <2>2. PICK id \in Nat : id = row.id
    BY Zenon, <1>0
  <2>3. Deleted(id) /\ Foreign(id)
    BY Zenon, <1>8, <2>1, <2>2 DEF Deleted, Foreign
  <2>4. Keeps
    BY Zenon, <1>0, <2>3, KeepsDelete
  <2> QED BY Zenon, <1>8, <2>4, HarmlessGone
<1> HIDE DEF row
<1> QED BY Zenon, <1>1, <1>3, <1>4, <1>6, <1>7, <1>8, HandlerEffect DEF row

LEMMA RequestOK ==
    ASSUME StoreInv, NEW r \in Requests, NEW p \in Replicas, Request(r, p), UNCHANGED file,
           Complete
    PROVE  /\ Keeps /\ Harmless(r)'
           /\ \A q \in Requests \ {r} : req'[q] = req[q]
<1>0. TableInv /\ UNCHANGED tables
  BY Zenon DEF StoreInv, Request
<1>1. Keeps
  BY Zenon, <1>0, KeepsUnchanged
<1>2. PICK pc \in {"insert", "test", "save", "delete"}, row \in Copy, with \in Given :
        /\ Goes(r, [pc |-> pc, at |-> p, row |-> row, with |-> with])
        /\ pc = "save" => \E was : ReadAs(row, was) /\ (Editable(was) \/ with = NotGiven)
        /\ pc = "delete" => \E was : ReadAs(row, was) /\ Editable(was)
  BY Zenon, RequestEffect
<1>3. PICK next : next = [pc |-> pc, at |-> p, row |-> row, with |-> with]
  BY Zenon
<1>4. next.pc = pc /\ next.row = row /\ next.with = with
  BY <1>3
<1>5. req'[r] = next /\ \A q \in Requests \ {r} : req'[q] = req[q]
  BY Zenon, <1>2, <1>3, RequestState
<1>6. UNCHANGED <<rows, nextId, file>>
  BY Zenon, <1>0 DEF tables
<1>7. ASSUME NEW was, ReadAs(row, was)
      PROVE  \/ row.id < nextId /\ Foreign(row.id)
             \/ /\ ~Editable(was) /\ row.name \in Declared
                /\ Owns(row.name, row.id) /\ RowDeclared(row.name, row)
  <2>1. was \in rows /\ row.id = was.id /\ was.id < nextId
    BY Zenon, <1>0, <1>7 DEF ReadAs, TableInv
  <2>2. CASE was.name \notin Declared
    BY Zenon, <1>0, <2>1, <2>2 DEF Foreign, Owns, Named, TableInv
  <2>3. CASE was.name \in Declared
    <3>1. PICK x \in rows : RowDeclared(was.name, x)
      BY Zenon, <2>3, DeclaredOwned
    <3>2. x = was
      BY Zenon, <1>0, <2>1, <3>1 DEF RowDeclared, TableInv
    <3>3. RowDeclared(was.name, was) /\ was.managed = "bootstrap"
      BY Zenon, <3>1, <3>2 DEF RowDeclared
    <3>4. ~Editable(was)
      BY <3>3 DEF Editable
    <3>5. row.name = was.name /\ row.ref = was.ref /\ row.value = was.value
          /\ row.managed = was.managed
      BY Zenon, <1>7, <3>4 DEF ReadAs
    <3>6. RowDeclared(row.name, row)
      BY Zenon, <3>3, <3>5 DEF RowDeclared
    <3>7. Owns(row.name, row.id)
      BY Zenon, <2>1, <3>5 DEF Owns, Named
    <3> QED BY Zenon, <2>3, <3>4, <3>5, <3>6, <3>7
  <2> QED BY Zenon, <2>2, <2>3
<1>8. ASSUME pc \in {"save", "link", "allow", "delete"}
      PROVE  \/ row.id < nextId /\ Foreign(row.id)
             \/ /\ pc = "save" /\ with = NotGiven
                /\ row.name \in Declared
                /\ Owns(row.name, row.id) /\ RowDeclared(row.name, row)
  <2>1. pc = "save" \/ pc = "delete"
    BY <1>8
  <2> QED BY Zenon, <1>2, <1>7, <2>1
<1>9. Harmless(r)'
  <2>1. (Foreign(row.id)' <=> Foreign(row.id)) /\ Declared' = Declared /\ nextId' = nextId
    BY Zenon, <1>6 DEF Foreign, Owns, Named, Declared, DeclaredBy
  <2>2. Owns(row.name, row.id)' <=> Owns(row.name, row.id)
    BY Zenon, <1>6 DEF Owns, Named
  <2>3. row.name \in Declared /\ RowDeclared(row.name, row) => RowDeclared(row.name, row)'
    <3>1. row.ref \in Nat
      BY DEF Copy
    <3> QED BY Zenon, <1>1, <3>1, RowKept DEF Keeps
  <2> QED BY Zenon, <1>4, <1>5, <1>8, <2>1, <2>2, <2>3 DEF Harmless
<1> QED BY Zenon, <1>1, <1>5, <1>9

-----------------------------------------------------------------------------
(* Steps of the start that are not the Applier's leave the tables alone, and a
   replica that begins to apply the file knows no identifier yet. *)
LEMMA QuietOK ==
    ASSUME StoreInv, NEW p \in Replicas, UNCHANGED file,
           Start(p) \/ RunUp(p) \/ Migrated(p) \/ Stops(p)
    PROVE  /\ Keeps /\ (p \in Applying' => ApplierOK(p)')
           /\ p \in Applying => p \notin Up'
<1>0. TableInv /\ MigrationsInv /\ "pc" \in DOMAIN boot[p]
  BY DEF StoreInv, MigrationsInv, BootOK
<1>1. Keeps
  <2>1. UNCHANGED tables
    BY Zenon DEF Start, RunUp, Migrated, Stops
  <2> QED BY Zenon, <1>0, <2>1, KeepsUnchanged
<1>2. ASSUME boot'[p].pc \in {"down", "migrate"}
      PROVE  p \notin Applying' /\ p \notin Up'
  BY <1>2 DEF Applying, Up, Is
<1>3. CASE Start(p)
  <2>1. PICK b : b = [pc |-> "migrate", seen |-> schema]
    BY Zenon
  <2>2. b.pc = "migrate"
    BY <2>1
  <2>3. boot'[p] = b
    BY Zenon, <1>0, <1>3, <2>1, BecomesState DEF Start
  <2> QED BY Zenon, <1>1, <1>2, <2>2, <2>3
<1>4. CASE Becomes(p, Stopped)
  <2>1. boot'[p] = Stopped
    BY Zenon, <1>0, <1>4, BecomesState
  <2> QED BY Zenon, <1>1, <2>1, StoppedOK
<1>5. CASE RunUp(p) /\ ~Becomes(p, Stopped)
  <2>1. boot' = [boot EXCEPT ![p] = [boot[p] EXCEPT !.seen = boot[p].seen + 1]]
        /\ boot[p].pc = "migrate"
    BY <1>5 DEF RunUp, Is
  <2>2. boot'[p] = [boot[p] EXCEPT !.seen = boot[p].seen + 1]
    BY <1>0, <2>1 DEF MigrationsInv
  <2>3. boot'[p].pc \in {"down", "migrate"}
    BY <1>0, <2>1, <2>2
  <2> QED BY Zenon, <1>1, <1>2, <2>3
<1>6. CASE Migrated(p)
  <2>1. PICK b : b = IF file.order = << >> THEN Serving ELSE Applier(1, [n \in Names |-> NoId])
    BY Zenon
  <2>2. Becomes(p, b)
    BY Zenon, <1>6, <2>1 DEF Migrated
  <2>3. boot'[p] = b
    BY Zenon, <1>0, <2>2, BecomesState
  <2>4. p \notin Applying
    BY <1>6 DEF Migrated, Applying, Is
  <2>5. CASE file.order = << >>
    <3>1. p \notin Applying'
      BY <2>1, <2>3, <2>5 DEF Applying, Serving
    <3> QED BY Zenon, <1>1, <2>4, <3>1
  <2>6. CASE file.order # << >>
    <3>1. PICK ids : ids = [n \in Names |-> NoId]
      BY Zenon
    <3>2. b = [pc |-> "resolve", at |-> 1, ids |-> ids]
      BY Zenon, <2>1, <2>6, <3>1 DEF Applier
    <3>3. boot'[p].pc = "resolve" /\ boot'[p].at = 1 /\ boot'[p].ids = ids
      BY <2>3, <3>2
    <3>4. \A n \in Names : boot'[p].ids[n] = NoId
      BY Zenon, <3>1, <3>3
    <3>5. \A n \in Names : Rightful(p, n)'
      BY Zenon, <3>4 DEF Rightful
    <3>6. \A k \in 1 .. Len(file'.order) : ~(k < boot'[p].at)
      BY <3>3
    <3>7. boot'[p].pc # "write" /\ boot'[p].pc # "allow" /\ boot'[p].pc \notin {"link", "allow"}
      BY <3>3
    <3>8. ApplierOK(p)'
      BY Zenon, <3>3, <3>5, <3>6, <3>7 DEF ApplierOK
    <3> QED BY Zenon, <1>1, <2>4, <3>8
  <2> QED BY Zenon, <2>5, <2>6
<1> QED BY Zenon, <1>3, <1>4, <1>5, <1>6 DEF Stops

LEMMA BootOKStep ==
    ASSUME StoreInv, NEW p \in Replicas, BootStep(p) \/ Stops(p), UNCHANGED file, reconcile,
           \A q \in Applying : ApplierOK(q)
    PROVE  /\ Keeps
           /\ \A q \in Applying' : ApplierOK(q)'
           /\ Applying \cap Up' # {} => Complete'
<1>1. \A q \in Replicas \ {p} : boot'[q] = boot[q]
  BY Zenon, OnlyLookUpWrites DEF StoreInv
<1>2. ASSUME Resolve(p) \/ LookUp(p) \/ Write(p) \/ LinkMailboxes(p) \/ AllowSenders(p)
      PROVE  ApplierOK(p)
  <2>1. boot[p].pc \in {"resolve", "look", "write", "link", "allow"}
    BY Zenon, <1>2 DEF Resolve, LookUp, Write, LinkMailboxes, AllowSenders, Is
  <2> QED BY Zenon, <2>1 DEF Applying
<1>3. /\ Keeps /\ (p \in Applying' => ApplierOK(p)')
      /\ p \in Applying /\ p \in Up' => Complete'
  BY Zenon, <1>2, QuietOK, ResolveOK, LookUpOK, WriteOK, LinkOK, AllowOK DEF BootStep
<1>4. ASSUME NEW q \in Replicas \ {p}
      PROVE  (q \in Applying' <=> q \in Applying) /\ (q \in Up' <=> q \in Up)
  BY Zenon, <1>1 DEF Applying, Up, Is
<1>5. \A q \in Applying' : ApplierOK(q)'
  <2> SUFFICES ASSUME NEW q \in Replicas \ {p}, q \in Applying'
               PROVE  ApplierOK(q)'
    BY Zenon, <1>3 DEF Applying
  <2>1. q \in Applying /\ boot'[q] = boot[q] /\ ApplierOK(q)
    BY Zenon, <1>1, <1>4
  <2> QED BY Zenon, <1>3, <2>1, ApplierKept
<1>6. \A q \in Applying \cap Up' : q = p
  <2> SUFFICES ASSUME NEW q \in Replicas \ {p}, q \in Applying, q \in Up'
               PROVE  FALSE
    BY Zenon DEF Applying
  <2>1. q \in Up
    BY Zenon, <1>4
  <2> QED BY <2>1 DEF Applying, Up, Is
<1> QED BY Zenon, <1>3, <1>5, <1>6

LEMMA ReconcileInit == Init => ReconcileInv
<1> SUFFICES ASSUME Init PROVE ReconcileInv
  OBVIOUS
<1>1. \A p \in Replicas : boot[p] = Serving \/ boot[p] = Stopped
  BY Zenon DEF Init
<1>2. Applying = {}
  BY <1>1 DEF Applying, Serving, Stopped
<1>3. settled = FALSE
  BY DEF Init
<1> QED BY Zenon, <1>2, <1>3 DEF ReconcileInv, ReconcileHolds

LEMMA RecordedAs ==
    ASSUME Next
    PROVE  Recorded
BY Zenon DEF Next, Boots, Ends, Arrives, Serves, Fails, Purges

(* Every step takes care of what is declared, provided that no request is in
   flight or all is declared already and the requests are harmless. *)
LEMMA StepOK ==
    ASSUME StoreInv, Next, UNCHANGED file, reconcile, \A p \in Applying : ApplierOK(p),
           InFlight # {} \/ InFlight' # {} => Complete /\ \A r \in Requests : Harmless(r)
    PROVE  /\ Keeps
           /\ \A p \in Applying' : ApplierOK(p)'
           /\ \A r \in Requests : Harmless(r)'
           /\ Applying \cap Up' # {} => Complete'
<1>0. TableInv
  BY DEF StoreInv
<1>1. \A r \in Requests : Harmless(r)
  <2>1. ASSUME NEW r \in Requests, r \notin InFlight
        PROVE  Harmless(r)
    <3>1. req[r].pc = "idle"
      BY Zenon, <2>1 DEF InFlight, Asks
    <3>2. req[r].pc \notin {"save", "link", "allow", "delete"}
      BY <3>1
    <3> QED BY Zenon, <3>2 DEF Harmless
  <2> QED BY Zenon, <2>1
<1>2. ASSUME UNCHANGED boot, Keeps
      PROVE  (\A p \in Applying' : ApplierOK(p)') /\ Applying \cap Up' = {}
  <2>1. Applying' = Applying /\ Up' = Up
    BY Zenon, <1>2 DEF Applying, Up, Is
  <2>2. Applying \cap Up = {}
    BY DEF Applying, Up, Is
  <2>3. ASSUME NEW p \in Applying
        PROVE  ApplierOK(p)'
    <3>1. boot'[p] = boot[p] /\ ApplierOK(p)
      BY Zenon, <1>2
    <3> QED BY Zenon, <1>2, <3>1, ApplierKept
  <2> QED BY Zenon, <2>1, <2>2, <2>3
<1>3. ASSUME Keeps, \A r \in Requests : req'[r] = req[r] \/ req'[r] = NoRequest
      PROVE  \A r \in Requests : Harmless(r)'
  BY Zenon, <1>1, <1>3, HarmlessKept, HarmlessGone
<1>4. ASSUME NEW p \in Replicas, Boots(p)
      PROVE  /\ Keeps /\ (\A q \in Applying' : ApplierOK(q)') /\ (\A r \in Requests : Harmless(r)')
             /\ Applying \cap Up' # {} => Complete'
  <2>1. BootStep(p) /\ UNCHANGED req
    BY Zenon, <1>4 DEF Boots, api
  <2> QED BY Zenon, <1>3, <2>1, BootOKStep
<1>5. ASSUME NEW p \in Replicas, Ends(p)
      PROVE  /\ Keeps /\ (\A q \in Applying' : ApplierOK(q)') /\ (\A r \in Requests : Harmless(r)')
             /\ Applying \cap Up' # {} => Complete'
  <2>1. Stops(p) /\ RequestsEnd(p)
    BY Zenon, <1>5 DEF Ends
  <2> QED BY Zenon, <1>3, <2>1, BootOKStep, RequestsGo
<1>6. ASSUME NEW p \in Replicas, NEW r \in Requests, Arrives(r, p)
      PROVE  /\ Keeps /\ (\A q \in Applying' : ApplierOK(q)') /\ (\A q \in Requests : Harmless(q)')
             /\ Applying \cap Up' # {} => Complete'
  <2>1. Request(r, p) /\ UNCHANGED boot
    BY Zenon, <1>6 DEF Arrives, start
  <2>2. r \in InFlight'
    <3>1. PICK pc \in {"insert", "test", "save", "delete"}, row \in Copy, with \in Given :
            Goes(r, [pc |-> pc, at |-> p, row |-> row, with |-> with])
      BY Zenon, <2>1, RequestEffect
    <3>2. PICK next : next = [pc |-> pc, at |-> p, row |-> row, with |-> with]
      BY Zenon
    <3>3. next.pc # "idle"
      BY <3>2
    <3>4. req'[r] = next
      BY Zenon, <3>1, <3>2, RequestState
    <3> QED BY Zenon, <3>3, <3>4 DEF InFlight, Asks
  <2>3. Complete
    BY Zenon, <2>2
  <2>4. Keeps /\ Harmless(r)' /\ \A q \in Requests \ {r} : req'[q] = req[q]
    BY Zenon, <2>1, <2>3, RequestOK
  <2>5. \A q \in Requests : Harmless(q)'
    BY Zenon, <1>1, <2>4, HarmlessKept
  <2> QED BY Zenon, <1>2, <2>1, <2>4, <2>5
<1>7. ASSUME NEW r \in Requests, Serves(r)
      PROVE  /\ Keeps /\ (\A q \in Applying' : ApplierOK(q)') /\ (\A q \in Requests : Harmless(q)')
             /\ Applying \cap Up' # {} => Complete'
  <2>1. Handler(r) /\ UNCHANGED boot
    BY Zenon, <1>7 DEF Serves, start
  <2>2. r \in InFlight
    BY Zenon, <2>1 DEF Handler, Insert, Save, Link, Allow, Delete, EnqueueDiagnostic, Asks, InFlight
  <2>3. Complete
    BY Zenon, <2>2
  <2>4. Keeps /\ Harmless(r)' /\ \A q \in Requests \ {r} : req'[q] = req[q]
    BY Zenon, <1>1, <2>1, <2>3, HandlerOK, HandlerEffect
  <2>5. \A q \in Requests : Harmless(q)'
    BY Zenon, <1>1, <2>4, HarmlessKept
  <2> QED BY Zenon, <1>2, <2>1, <2>4, <2>5
<1>8. ASSUME UNCHANGED <<tables, boot>>,
             \A r \in Requests : req'[r] = req[r] \/ req'[r] = NoRequest
      PROVE  /\ Keeps /\ (\A q \in Applying' : ApplierOK(q)') /\ (\A q \in Requests : Harmless(q)')
             /\ Applying \cap Up' # {} => Complete'
  <2>1. Keeps
    BY Zenon, <1>0, <1>8, KeepsUnchanged
  <2> QED BY Zenon, <1>2, <1>3, <1>8, <2>1
<1>9. ASSUME NEW r \in Requests, Fails(r)
      PROVE  /\ UNCHANGED <<tables, boot>>
             /\ \A q \in Requests : req'[q] = req[q] \/ req'[q] = NoRequest
  <2>1. RequestFails(r) /\ UNCHANGED tables /\ UNCHANGED boot
    BY Zenon, <1>9 DEF Fails, RequestFails, start
  <2> QED BY Zenon, <2>1, RequestsGo
<1>10. ASSUME NEW k \in TestIds, Purges(k)
       PROVE  /\ UNCHANGED <<tables, boot>>
              /\ \A q \in Requests : req'[q] = req[q] \/ req'[q] = NoRequest
  BY Zenon, <1>10 DEF Purges, PurgeTest, start
<1> QED BY Zenon, <1>4, <1>5, <1>6, <1>7, <1>8, <1>9, <1>10 DEF Next

LEMMA ReconcileNext == StoreInv /\ ReconcileInv /\ [Next]_vars => ReconcileInv'
<1> SUFFICES ASSUME StoreInv, ReconcileInv, [Next]_vars PROVE ReconcileInv'
  OBVIOUS
<1>0. TableInv
  BY DEF StoreInv
<1>1. CASE UNCHANGED vars
  <2>1. UNCHANGED <<rows, links, senders, nextId, reconcile, file, boot, req, disturbed, settled>>
    BY Zenon, <1>1 DEF vars, tables, start, api
  <2>2. UNCHANGED <<tables, file>>
    BY Zenon, <2>1 DEF tables
  <2>3. Keeps
    BY Zenon, <1>0, <2>2, KeepsUnchanged
  <2>4. Applying' = Applying /\ InFlight' = InFlight /\ Declared' = Declared
    BY Zenon, <2>1 DEF Applying, InFlight, Asks, Declared, DeclaredBy
  <2>5. \A p \in Applying : ApplierOK(p) => ApplierOK(p)'
    BY Zenon, <2>1, <2>3, ApplierKept
  <2>6. \A r \in Requests : Harmless(r) => Harmless(r)'
    BY Zenon, <2>1, <2>3, HarmlessKept
  <2>7. \A n \in Declared : AsDeclared(n) => AsDeclared(n)'
    BY Zenon, <1>0, <2>3, AsDeclaredKept
  <2> QED BY Zenon, <2>1, <2>4, <2>5, <2>6, <2>7 DEF ReconcileInv, ReconcileHolds, Declared
<1>2. CASE Next
  <2>1. /\ disturbed' = (Applying' # {} /\ (disturbed \/ InFlight' # {}))
        /\ settled' = (settled \/ (~disturbed /\ Applying \cap Up' # {}))
        /\ UNCHANGED file /\ reconcile' = reconcile
    BY Zenon, <1>2, RecordedAs DEF Recorded
  <2>2. ~disturbed' /\ Applying' # {} => InFlight' = {}
    BY Zenon, <2>1
  <2>3. CASE reconcile /\ settled
    <3>1. Complete /\ (\A r \in Requests : Harmless(r)) /\ \A p \in Applying : ApplierOK(p)
      BY Zenon, <2>3 DEF ReconcileInv, ReconcileHolds, Complete, Declared
    <3>2. Keeps /\ (\A p \in Applying' : ApplierOK(p)') /\ \A r \in Requests : Harmless(r)'
      BY Zenon, <1>2, <2>1, <2>3, <3>1, StepOK
    <3>3. \A n \in Declared : AsDeclared(n)'
      BY Zenon, <1>0, <3>1, <3>2, AsDeclaredKept DEF Complete
    <3>4. Declared' = Declared
      BY Zenon, <2>1 DEF Declared, DeclaredBy
    <3> QED BY Zenon, <2>2, <3>2, <3>3, <3>4 DEF ReconcileInv, ReconcileHolds, Declared
  <2>4. CASE reconcile /\ ~settled /\ ~disturbed /\ Applying \cap Up' # {}
    <3>1. InFlight = {} /\ \A p \in Applying : ApplierOK(p)
      BY Zenon, <2>4 DEF ReconcileInv
    <3>2. InFlight' = {}
      <4>1. PICK p \in Replicas : p \in Applying /\ p \in Up'
        BY Zenon, <2>4 DEF Applying
      <4>2. boot' # boot
        BY <4>1 DEF Applying, Up, Is
      <4>3. PICK q \in Replicas : Boots(q) \/ Ends(q)
        BY Zenon, <1>2, <4>2 DEF Next, Arrives, Serves, Fails, Purges, start
      <4>4. \A r \in Requests : req'[r] = req[r] \/ req'[r] = NoRequest
        BY Zenon, <4>3, RequestsGo DEF Boots, Ends, api
      <4>5. NoRequest.pc = "idle"
        BY DEF NoRequest
      <4> QED BY Zenon, <3>1, <4>4, <4>5 DEF InFlight, Asks
    <3>3. /\ \A p \in Applying' : ApplierOK(p)'
          /\ \A r \in Requests : Harmless(r)'
          /\ Complete'
      BY Zenon, <1>2, <2>1, <2>4, <3>1, <3>2, StepOK
    <3> QED BY Zenon, <2>2, <3>3 DEF ReconcileInv, ReconcileHolds, Complete, Declared
  <2>5. CASE ~(reconcile /\ settled) /\ ~(reconcile /\ ~disturbed /\ Applying \cap Up' # {})
    <3>1. ~(reconcile' /\ settled')
      BY Zenon, <2>1, <2>5
    <3>2. ASSUME reconcile, ~disturbed', NEW p \in Applying'
          PROVE  ApplierOK(p)'
      <4>1. ~disturbed /\ InFlight' = {}
        BY Zenon, <2>1, <3>2
      <4>2. CASE InFlight = {}
        <5>1. \A q \in Applying : ApplierOK(q)
          BY Zenon, <3>2, <4>1 DEF ReconcileInv
        <5> QED BY Zenon, <1>2, <2>1, <3>2, <4>1, <4>2, <5>1, StepOK
      <4>3. CASE InFlight # {}
        <5>1. Applying = {}
          BY Zenon, <4>1, <4>3 DEF ReconcileInv
        <5>2. boot' # boot
          BY Zenon, <3>2, <5>1 DEF Applying
        <5>3. PICK q \in Replicas : Boots(q) \/ Ends(q)
          BY Zenon, <1>2, <5>2 DEF Next, Arrives, Serves, Fails, Purges, start
        <5>4. BootStep(q) \/ Stops(q)
          BY Zenon, <5>3 DEF Boots, Ends
        <5> QED BY Zenon, <2>1, <3>2, <5>1, <5>4, BootOKStep
      <4> QED BY Zenon, <4>2, <4>3
    <3> QED BY Zenon, <2>1, <2>2, <3>1, <3>2 DEF ReconcileInv, ReconcileHolds
  <2> QED BY Zenon, <2>3, <2>4, <2>5
<1> QED BY Zenon, <1>1, <1>2

(* For any file, database, number of replicas and interleaving: with
   bootstrap.mode: reconcile, once a replica has applied the file undisturbed by
   requests, the tables hold what it declares and keep it (bootstrap.go, Applier;
   the managed_by checks of the handlers of adminapi). *)
THEOREM ReconcileCorrect == Spec => []ReconcileHolds
<1>1. Init => StoreInv /\ ReconcileInv
  BY StoreInit, ReconcileInit
<1>2. StoreInv /\ ReconcileInv /\ [Next]_vars => (StoreInv /\ ReconcileInv)'
  BY Zenon, StoreNext, ReconcileNext
<1>3. StoreInv /\ ReconcileInv => ReconcileHolds
  BY Zenon DEF ReconcileInv
<1> QED BY <1>1, <1>2, <1>3, PTL DEF Spec
=============================================================================
