------------------------------- MODULE Startup -------------------------------
(***************************************************************************)
(* Replicas that start, end and start again while operators work in the    *)
(* admin interface of those that serve: Bootstrap and ConfigApi over the   *)
(* tables of ConfigStore.                                                  *)
(***************************************************************************)
EXTENDS ConfigApi

CONSTANTS
    Modes,      \* of bootstrap.mode: TRUE for reconcile, FALSE for apply-once
    Seeds,      \* the rows of a database that is there before the replicas
    MaxFaults   \* bound: statements that fail, processes that end

VARIABLES
    faults,
    disturbed,  \* there were requests while replicas applied the file, as some still do
    settled     \* a replica has applied the file undisturbed

vars == <<tables, reconcile, file, start, api, faults, disturbed, settled>>

ASSUME ModesAssumption == Modes \subseteq BOOLEAN /\ MaxFaults \in Nat

(* Finitely many rows, as the statements of ConfigStore leave them. *)
ASSUME SeedsAssumption ==
    \A seed \in Seeds :
        /\ seed \subseteq Row /\ Cardinality(seed) \in Nat
        /\ \A row \in seed : row.id <= Cardinality(seed)
        /\ \A row, other \in seed : row.id = other.id \/ row.name = other.name => row = other

(* A database that is there before may still be served by replicas of an earlier
   deployment, which did not have this file. *)
Init ==
    /\ reconcile \in Modes
    /\ file \in Files
    /\ rows \in Seeds
    /\ links = {} /\ senders = {}
    /\ nextId = Cardinality(rows) + 1
    /\ schema = IF rows = {} THEN 0 ELSE 1
    /\ ran = [v \in 1 .. Newest |-> IF v <= schema THEN 1 ELSE 0]
    /\ \E old \in SUBSET {p \in Replicas : Version[p] <= schema} :
          boot = [p \in Replicas |-> IF p \in old THEN Serving ELSE Stopped]
    /\ req = [r \in Requests |-> NoRequest]
    /\ changes = 0
    /\ tests = [k \in TestIds |-> NoTest]
    /\ mailed = [k \in TestIds |-> 0]
    /\ faults = 0
    /\ disturbed = FALSE
    /\ settled = FALSE

Fault == faults < MaxFaults /\ faults' = faults + 1

Recorded ==
    /\ disturbed' = (Applying' # {} /\ (disturbed \/ InFlight' # {}))
    /\ settled' = (settled \/ (~disturbed /\ Applying \cap Up' # {}))
    /\ UNCHANGED <<reconcile, file>>

Boots(p) == BootStep(p) /\ UNCHANGED <<api, faults>> /\ Recorded

Ends(p) ==
    /\ Stops(p) /\ Fault /\ RequestsEnd(p)
    /\ UNCHANGED <<changes, tests, mailed>>
    /\ Recorded

Arrives(r, p) == Request(r, p) /\ UNCHANGED <<start, faults>> /\ Recorded
Serves(r) == Handler(r) /\ UNCHANGED <<start, faults>> /\ Recorded
Fails(r) == RequestFails(r) /\ Fault /\ UNCHANGED start /\ Recorded
Purges(k) == PurgeTest(k) /\ UNCHANGED <<start, faults>> /\ Recorded

Next ==
    \/ \E p \in Replicas : Boots(p) \/ Ends(p) \/ \E r \in Requests : Arrives(r, p)
    \/ \E r \in Requests : Serves(r) \/ Fails(r)
    \/ \E k \in TestIds : Purges(k)

Spec == Init /\ [][Next]_vars

(* A process that ended is started again and its statements complete; a handler
   has 30 seconds. *)
Fairness ==
    /\ \A p \in Replicas : WF_vars(Boots(p))
    /\ \A r \in Requests : WF_vars(Serves(r))

FairSpec == Spec /\ Fairness

-----------------------------------------------------------------------------
(* Properties *)

Owns(n, id) == \E row \in Named(n) : row.id = id

(* The references of n that are in the file, and the one that is its credential
   or its default mailbox. *)
Ours(n) == {i \in DOMAIN file.refs[n] : file.refs[n][i] \in DeclaredBy(file)}
Main(n) == IF file.default[n] # 0 THEN file.default[n] ELSE 1

(* A row, the links and the senders of an account as the file asks for them.
   Mailboxes that are not in the file may have gone or have another address by
   now, and passwords are left out (see ResetPassword). *)
RowDeclared(n, row) ==
    /\ row.name = n /\ row.value = "declared" /\ row.managed = "bootstrap"
    /\ Main(n) \in Ours(n) => Owns(file.refs[n][Main(n)], row.ref)

LinksDeclared(n, account) ==
    /\ \A i \in Ours(n) : \E l \in links : l[1] = account /\ Owns(file.refs[n][i], l[2])
    /\ \A l \in links, m \in DeclaredBy(file) :
          l[1] = account /\ Owns(m, l[2]) => m \in Range(file.refs[n])

SendersDeclared(account) == {s \in senders : s[1] = account} = {<<account, "declared">>}

AsDeclared(n) ==
    \E row \in rows :
        /\ RowDeclared(n, row)
        /\ n \in Accounts => LinksDeclared(n, row.id) /\ SendersDeclared(row.id)

(* With bootstrap.mode: reconcile, once a replica has applied the file the tables
   hold what it declares, and nothing that operators or other starting replicas do
   from then on changes it.  Only a request that was in flight while the file was
   first applied may, since its copy may predate the file; the next undisturbed
   start repairs that (bootstrap.go; managed_by in the handlers of adminapi). *)
ReconcileHolds == reconcile /\ settled => \A n \in DeclaredBy(file) : AsDeclared(n)

(* A replica that starts with apply-once leaves every object it finds exactly
   as it is, and the links and senders of every account but the one it has just
   inserted (bootstrap.go, Applier). *)
ApplyOnceOnlyAdds ==
    [][\A p \in Replicas : ~reconcile /\ boot'[p] # boot[p] =>
          /\ rows \subseteq rows'
          /\ \A account \in {row.id : row \in rows} :
                \/ boot[p].pc \in {"link", "allow"} /\ boot[p].id = account
                \/ /\ \A l \in links \cup links' :
                         l[1] = account => l \in links \cap links'
                   /\ \A s \in senders \cup senders' :
                         s[1] = account => s \in senders \cap senders']_vars

(* Whatever replicas start together and wherever they fail, the script of a
   migration is committed once, and a replica that applies the file or serves
   finds at least the schema of its binary (migrate.go, runUp). *)
MigrationsRunOnce ==
    /\ \A v \in DOMAIN ran : ran[v] = IF v <= schema THEN 1 ELSE 0
    /\ \A p \in Up \cup Applying : schema >= Version[p]

(* A browser that repeats its request for a test mail, at any time, does not
   send a second one, not even once retention has deleted the first
   (EnqueueDiagnostic). *)
OneTestMail == \A k \in TestIds : mailed[k] <= 1

Resolvable ==
    \A n \in DeclaredBy(file) : \A i \in DOMAIN file.refs[n] :
        file.refs[n][i] \in DeclaredBy(file) \/ Named(file.refs[n][i]) # {}

(* Replicas that start together collide on the migrations and on the names, and
   statements fail; when that is over every replica of the newest binary comes
   up, provided that what the file refers to outside of it is in the database
   (app.go, New). *)
ComesUp ==
    <>[]Resolvable => \A p \in Replicas : Version[p] = Newest => <>[](p \in Up)
=============================================================================
