------------------------------ MODULE Bootstrap ------------------------------
(***************************************************************************)
(* What a replica does before it serves (internal/app: New): it applies    *)
(* the migrations its binary knows (internal/store/migrate.go) and then    *)
(* the bootstrap file (internal/bootstrap), one statement or transaction   *)
(* at a time.  The first error ends the start; whatever supervises the     *)
(* process starts it again.                                                *)
(*                                                                         *)
(* Encryption keys, the validation of the file and the audit log, whose    *)
(* failures are only logged, are left out.                                 *)
(***************************************************************************)
EXTENDS ConfigStore

CONSTANTS
    Replicas,
    Version,    \* the migrations the binary of each replica knows: 1 .. Version[p]
    Files       \* the bootstrap files to try: see File

VARIABLES
    reconcile,  \* bootstrap.mode: reconcile (TRUE) or apply-once
    file,
    schema,     \* schema_migrations holds 1 .. schema
    ran,        \* how often the script of each migration was committed
    boot        \* what each replica is doing

start == <<schema, ran, boot>>

Versions == {Version[p] : p \in Replicas}
Newest == CHOOSE v \in Versions : \A w \in Versions : w <= v

ASSUME VersionAssumption == \A p \in Replicas : Version[p] \in Nat \ {0}

(* order lists the objects of the file, credentials before mailboxes before
   accounts; refs is the credential of a mailbox or the mailboxes of an account,
   default the position of the account's default mailbox among them (0: not
   given), where Validate looks for it; an account with a default mailbox and no
   others is left out.  A file without objects does what bootstrap.mode: off does. *)
DeclaredBy(f) == Range(f.order)
File(f) ==
    /\ f.order \in Seq(Names)
    /\ f.refs \in [DeclaredBy(f) -> Seq(Names)]
    /\ f.default \in [DeclaredBy(f) -> Nat]
    /\ \A n \in DeclaredBy(f) : f.default[n] <= Len(f.refs[n])

ASSUME FilesAssumption == \A f \in Files : File(f)

Stopped == [pc |-> "down"]
Serving == [pc |-> "up"]
Is(p, pc) == boot[p].pc = pc
Up == {p \in Replicas : Is(p, "up")}
Applying == {p \in Replicas : boot[p].pc \in {"resolve", "look", "write", "link", "allow"}}

Becomes(p, state) == boot' = [boot EXCEPT ![p] = state]

-----------------------------------------------------------------------------
(* Migrator *)

(* Mutant: pending migrations are counted from the first one. *)
StartFromScratch(p) ==
    /\ Is(p, "down")
    /\ schema <= Version[p]
    /\ Becomes(p, [pc |-> "migrate", seen |-> 0])
    /\ UNCHANGED <<tables, schema, ran>>

(* Applied and verifyApplied: a database that a newer binary migrated is
   refused. *)
Start(p) ==
    /\ Is(p, "down")
    /\ schema <= Version[p]
    /\ Becomes(p, [pc |-> "migrate", seen |-> schema])
    /\ UNCHANGED <<tables, schema, ran>>

(* Mutant: the script and the record of it are two transactions, and the
   process may end between them. *)
RunUpUnrecorded(p) ==
    LET v == boot[p].seen + 1 IN
    /\ Is(p, "migrate")
    /\ v <= Version[p] /\ schema < v
    /\ ran' = [ran EXCEPT ![v] = @ + 1]
    /\ \/ schema' = v /\ boot' = [boot EXCEPT ![p].seen = v]
       \/ schema' = schema /\ Becomes(p, Stopped)
    /\ UNCHANGED tables

(* runUp: a transaction that runs the script and records the version, which is
   the primary key; of two replicas that run one migration the second fails. *)
RunUp(p) ==
    LET v == boot[p].seen + 1 IN
    /\ Is(p, "migrate")
    /\ v <= Version[p]
    /\ IF schema < v
       THEN /\ ran' = [ran EXCEPT ![v] = @ + 1]
            /\ schema' = v
            /\ boot' = [boot EXCEPT ![p].seen = v]
       ELSE Becomes(p, Stopped) /\ UNCHANGED <<schema, ran>>
    /\ UNCHANGED tables

-----------------------------------------------------------------------------
(* Applier *)

Applier(at, ids) == [pc |-> "resolve", at |-> at, ids |-> ids]

Migrated(p) ==
    /\ Is(p, "migrate")
    /\ boot[p].seen = Version[p]
    /\ Becomes(p, IF file.order = << >> THEN Serving ELSE Applier(1, [n \in Names |-> NoId]))
    /\ UNCHANGED <<tables, schema, ran>>

Object(p) == file.order[boot[p].at]
Refs(p) == file.refs[Object(p)]
IdsOf(p) == [i \in DOMAIN Refs(p) |-> boot[p].ids[Refs(p)[i]]]
Unresolved(p) == {i \in DOMAIN Refs(p) : boot[p].ids[Refs(p)[i]] = NoId}
Known(p, n, id) == [boot[p].ids EXCEPT ![n] = id]

(* The process serves once every object is applied. *)
Applied(p, ids) ==
    Becomes(p, IF boot[p].at < Len(file.order) THEN Applier(boot[p].at + 1, ids) ELSE Serving)

(* References that are not in the file are looked up in the database, one after
   the other. *)
Resolve(p) ==
    /\ Is(p, "resolve")
    /\ \/ Unresolved(p) = {} /\ boot' = [boot EXCEPT ![p].pc = "look"]
       \/ \E i \in Unresolved(p) :
             /\ \A j \in Unresolved(p) : i <= j
             /\ IF Named(Refs(p)[i]) = {} THEN Becomes(p, Stopped)
                ELSE \E row \in Named(Refs(p)[i]) :
                        boot' = [boot EXCEPT ![p].ids = Known(p, row.name, row.id)]
    /\ UNCHANGED <<tables, schema, ran>>

(* managedBy *)
ManagedBy == IF reconcile THEN "bootstrap" ELSE "ui"

Ref(p) ==
    CASE Refs(p) = << >> -> NoId
      [] file.default[Object(p)] # 0 -> IdsOf(p)[file.default[Object(p)]]
      [] OTHER -> IdsOf(p)[1]

NewRow(p) ==
    [id |-> NoId, name |-> Object(p), ref |-> Ref(p), value |-> "declared",
     password |-> "declared", managed |-> ManagedBy]

Writes(p, row) ==
    Becomes(p, [pc |-> "write", row |-> row, at |-> boot[p].at, ids |-> boot[p].ids])

(* Mutant: apply-once updates what it finds, too. *)
LookUpAndUpdate(p) ==
    /\ Is(p, "look")
    /\ \/ Named(Object(p)) = {} /\ Writes(p, NewRow(p))
       \/ \E row \in Named(Object(p)) : Writes(p, [NewRow(p) EXCEPT !.id = row.id])
    /\ UNCHANGED <<tables, schema, ran>>

(* What exists is skipped, unless the file is reconciled: then the copy keeps
   its identifier and takes everything else from the file. *)
LookUp(p) ==
    /\ Is(p, "look")
    /\ \/ Named(Object(p)) = {} /\ Writes(p, NewRow(p))
       \/ \E row \in Named(Object(p)) :
             IF reconcile THEN Writes(p, [NewRow(p) EXCEPT !.id = row.id])
             ELSE Applied(p, Known(p, row.name, row.id))
    /\ UNCHANGED <<tables, schema, ran>>

(* An account goes on with its links, the others are done. *)
Written(p, id) ==
    IF Object(p) \in Accounts
    THEN boot' = [boot EXCEPT ![p] = [pc |-> "link", id |-> id, at |-> @.at, ids |-> @.ids]]
    ELSE Applied(p, Known(p, Object(p), id))

(* Create or Update. *)
Write(p) ==
    LET row == boot[p].row IN
    /\ Is(p, "write")
    /\ CASE row.id = NoId /\ Insertable(row) -> Inserted(row) /\ Written(p, nextId)
         [] row.id # NoId /\ Updatable(row)  -> Updated(row) /\ Written(p, row.id)
         [] OTHER -> Becomes(p, Stopped) /\ UNCHANGED <<rows, nextId>>
    /\ UNCHANGED <<links, senders, schema, ran>>

(* linkAccount *)
LinkMailboxes(p) ==
    LET ids == Range(IdsOf(p)) IN
    /\ Is(p, "link")
    /\ IF Linkable(boot[p].id, ids)
       THEN Linked(boot[p].id, ids) /\ boot' = [boot EXCEPT ![p].pc = "allow"]
       ELSE Becomes(p, Stopped) /\ UNCHANGED links
    /\ UNCHANGED <<rows, senders, nextId, schema, ran>>

AllowSenders(p) ==
    /\ Is(p, "allow")
    /\ IF Allowable(boot[p].id)
       THEN Allowed(boot[p].id, "declared") /\ Applied(p, boot[p].ids)
       ELSE Becomes(p, Stopped) /\ UNCHANGED senders
    /\ UNCHANGED <<rows, links, nextId, schema, ran>>

BootStep(p) ==
    \/ Start(p) \/ RunUp(p) \/ Migrated(p)
    \/ Resolve(p) \/ LookUp(p) \/ Write(p) \/ LinkMailboxes(p) \/ AllowSenders(p)

(* A statement of the start fails, or the process ends, starting or serving. *)
Stops(p) ==
    /\ ~Is(p, "down")
    /\ Becomes(p, Stopped)
    /\ UNCHANGED <<tables, schema, ran>>
=============================================================================
