------------------------------ MODULE ConfigApi ------------------------------
(***************************************************************************)
(* The handlers of the admin interface that edit the tables of             *)
(* ConfigStore: internal/adminapi/credentials.go, mailboxes.go and         *)
(* accounts.go.  A handler that changes an object reads its row, refuses   *)
(* it when the bootstrap file owns it, edits the copy and writes every     *)
(* column back; requests and starting replicas interleave between the      *)
(* statements.  A replica that ends takes its requests with it.            *)
(*                                                                         *)
(* Requests that are refused before they change anything (validation,      *)
(* permissions, 404, 409) take no step.  Also modelled: the test mail of   *)
(* diagnostics.go, which is queued once per request identifier.            *)
(***************************************************************************)
EXTENDS Bootstrap

CONSTANTS
    Requests,   \* requests in flight at once
    TestIds,    \* identifiers browsers give to requests for a test mail
    NotGiven,   \* a field the request does not mention
    MaxChanges  \* bound: requests

VARIABLES
    req,
    changes,
    tests,      \* diagnostic_requests
    mailed      \* for each identifier, the test mails ever queued for it

api == <<req, changes, tests, mailed>>

NoRequest == [pc |-> "idle"]
NoTest == [mailbox |-> NoId]

Asks(r, pc) == req[r].pc = pc
InFlight == {r \in Requests : ~Asks(r, "idle")}
Goes(r, next) == req' = [req EXCEPT ![r] = next]
Answered(r) == Goes(r, NoRequest)
Proceeds(r, pc) == req' = [req EXCEPT ![r].pc = pc]

(* Replica p accepts a request.  With an account come the mailboxes it is to be
   linked to and whether there is a list of senders, NotGiven when the request
   mentions neither; with a test mail, its identifier. *)
Accepts(r, p, pc, row, with) ==
    Goes(r, [pc |-> pc, at |-> p, row |-> row, with |-> with])

MailboxIds == {row.id : row \in {m \in rows : IsMailbox(m)}}
CredentialIds == {row.id : row \in {c \in rows : c.name \in Credentials}}

(* Inputs: links and senders are mentioned or not; the default mailbox is the one
   linked. *)
Mentions(m) ==
    {NotGiven} \cup {w \in [links : {NotGiven, {m} \ {NoId}}, senders : BOOLEAN] :
                       w.links # NotGiven \/ w.senders}

Fresh(n, ref) ==
    [id |-> NoId, name |-> n, ref |-> ref, value |-> "edited", password |-> "edited",
     managed |-> "ui"]

-----------------------------------------------------------------------------
(* Creating: one INSERT, and the links of an account. *)

CreateCredential(r, p) ==
    \E n \in Credentials : Accepts(r, p, "insert", Fresh(n, NoId), NotGiven)

CreateMailbox(r, p) ==
    \E n \in Mailboxes, c \in CredentialIds : Accepts(r, p, "insert", Fresh(n, c), NotGiven)

CreateAccount(r, p) ==
    \E n \in Accounts, m \in MailboxIds \cup {NoId} : \E with \in Mentions(m) :
        Accepts(r, p, "insert", Fresh(n, m), with)

(* Changing, or deleting: the check of managed_by on the row that was read. *)

(* Mutant: it is not checked. *)
EditableAlways(row) == TRUE

Editable(row) == row.managed = "ui"

(* Every field may be mentioned or left as it was read, the name included. *)
Edited(row) == {row.value, "edited"}

UpdateCredential(r, p) ==
    \E row \in rows, n \in Credentials :
        /\ row.name \in Credentials
        /\ Editable(row)
        /\ \E v \in Edited(row) :
              Accepts(r, p, "save", [row EXCEPT !.value = v, !.name = n], NotGiven)

UpdateMailbox(r, p) ==
    \E row \in rows, v \in Values, n \in Mailboxes, c \in CredentialIds :
        /\ IsMailbox(row)
        /\ Editable(row)
        /\ Accepts(r, p, "save", [row EXCEPT !.value = v, !.name = n, !.ref = c], NotGiven)

UpdateAccount(r, p) ==
    \E row \in rows, n \in Accounts, m \in MailboxIds \cup {NoId} :
        /\ IsAccount(row)
        /\ Editable(row)
        /\ \E v \in Edited(row), with \in Mentions(m) :
              Accepts(r, p, "save", [row EXCEPT !.value = v, !.name = n, !.ref = m], with)

(* handleResetAccountPassword does not look at managed_by. *)
ResetPassword(r, p) ==
    \E row \in rows :
        /\ IsAccount(row)
        /\ Accepts(r, p, "save", [row EXCEPT !.password = "edited"], NotGiven)

(* The three handlers that delete an object. *)
DeleteObject(r, p) ==
    \E row \in rows :
        /\ Editable(row)
        /\ Accepts(r, p, "delete", row, NotGiven)

(* applyAccountLinks follows when the request mentions links or senders. *)
Saved(r, id) ==
    IF req[r].with = NotGiven THEN Answered(r)
    ELSE Goes(r, [req[r] EXCEPT !.pc = IF req[r].with.links = NotGiven THEN "allow" ELSE "link",
                                !.row.id = id])

Insert(r) ==
    LET row == req[r].row IN
    /\ Asks(r, "insert")
    /\ IF Insertable(row) THEN Inserted(row) /\ Saved(r, nextId)
       ELSE Answered(r) /\ UNCHANGED <<rows, nextId>>
    /\ UNCHANGED <<links, senders>>

Save(r) ==
    LET row == req[r].row IN
    /\ Asks(r, "save")
    /\ IF Updatable(row) THEN Updated(row) /\ Saved(r, row.id)
       ELSE Answered(r) /\ UNCHANGED <<rows, nextId>>
    /\ UNCHANGED <<links, senders>>

Link(r) ==
    LET q == req[r] IN
    /\ Asks(r, "link")
    /\ IF Linkable(q.row.id, q.with.links)
       THEN /\ Linked(q.row.id, q.with.links)
            /\ IF q.with.senders THEN Proceeds(r, "allow") ELSE Answered(r)
       ELSE Answered(r) /\ UNCHANGED links
    /\ UNCHANGED <<rows, senders, nextId>>

Allow(r) ==
    LET id == req[r].row.id IN
    /\ Asks(r, "allow")
    /\ IF Allowable(id) THEN Allowed(id, "edited") ELSE UNCHANGED senders
    /\ Answered(r)
    /\ UNCHANGED <<rows, links, nextId>>

Delete(r) ==
    LET id == req[r].row.id IN
    /\ Asks(r, "delete")
    /\ IF Deletable(id) THEN Deleted(id) ELSE UNCHANGED tables
    /\ Answered(r)

-----------------------------------------------------------------------------
(* Test mails: handleSendMailboxTest reads the mailbox, EnqueueDiagnostic is one
   transaction. *)

SendTest(r, p) ==
    \E row \in rows, k \in TestIds :
        /\ IsMailbox(row)
        /\ Version[p] >= 2
        /\ Accepts(r, p, "test", row, k)

(* Mutant: a reservation whose message is gone does not count. *)
EnqueueAgain(r) ==
    LET q == req[r] IN
    /\ Asks(r, "test")
    /\ IF \/ tests[q.with] # NoTest /\ tests[q.with].message
          \/ \A row \in WithId(q.row.id) : row.value = "edited" \/ row.name # q.row.name
       THEN UNCHANGED <<tests, mailed>>
       ELSE /\ tests' = [tests EXCEPT ![q.with] = [mailbox |-> q.row.id, message |-> TRUE]]
            /\ mailed' = [mailed EXCEPT ![q.with] = @ + 1]
    /\ Answered(r)
    /\ UNCHANGED tables

(* The reservation comes first: an identifier that was used before queues
   nothing.  Then the mailbox has to be enabled and under the address the
   handler read, or the transaction takes the reservation back. *)
EnqueueDiagnostic(r) ==
    LET q == req[r] IN
    /\ Asks(r, "test")
    /\ IF \/ tests[q.with] # NoTest
          \/ \A row \in WithId(q.row.id) : row.value = "edited" \/ row.name # q.row.name
       THEN UNCHANGED <<tests, mailed>>
       ELSE /\ tests' = [tests EXCEPT ![q.with] = [mailbox |-> q.row.id, message |-> TRUE]]
            /\ mailed' = [mailed EXCEPT ![q.with] = @ + 1]
    /\ Answered(r)
    /\ UNCHANGED tables

(* Retention deletes the message; the reservation stays. *)
PurgeTest(k) ==
    /\ tests[k] # NoTest /\ tests[k].message
    /\ tests' = [tests EXCEPT ![k].message = FALSE]
    /\ UNCHANGED <<req, changes, mailed, tables>>

(* The requests p serves end with it, whatever they have written so far. *)
RequestsEnd(p) ==
    req' = [r \in Requests |-> IF ~Asks(r, "idle") /\ req[r].at = p THEN NoRequest ELSE req[r]]

(* A statement of a handler fails and the request is answered with an error. *)
RequestFails(r) ==
    /\ ~Asks(r, "idle")
    /\ Answered(r)
    /\ UNCHANGED <<changes, tests, mailed, tables>>

(* A replica that serves accepts a request. *)
Request(r, p) ==
    /\ Asks(r, "idle")
    /\ p \in Up
    /\ changes < MaxChanges
    /\ changes' = changes + 1
    /\ \/ CreateCredential(r, p) \/ CreateMailbox(r, p) \/ CreateAccount(r, p)
       \/ UpdateCredential(r, p) \/ UpdateMailbox(r, p) \/ UpdateAccount(r, p)
       \/ ResetPassword(r, p) \/ DeleteObject(r, p) \/ SendTest(r, p)
    /\ UNCHANGED <<tests, mailed, tables>>

Handler(r) ==
    \/ /\ Insert(r) \/ Save(r) \/ Link(r) \/ Allow(r) \/ Delete(r)
       /\ UNCHANGED <<changes, tests, mailed>>
    \/ EnqueueDiagnostic(r) /\ UNCHANGED changes
=============================================================================
