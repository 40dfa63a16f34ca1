------------------------------ MODULE TokenCache ------------------------------
(***************************************************************************)
(* The cache of token clients in internal/oauth/provider.go, one per       *)
(* replica, while operators edit and delete the credential through the     *)
(* admin interface of some replica (internal/adminapi/credentials.go).     *)
(* clientFor looks the client up, builds one and stores it under separate  *)
(* locks; deliveries, a slow one among them, do so concurrently.           *)
(*                                                                         *)
(* MSAL, which asks Entra for tokens and keeps them in the client, is      *)
(* external: a token stands for the material its client was built from.    *)
(* Upstream says what a delivery does with its token.                      *)
(***************************************************************************)
EXTENDS Naturals, FiniteSets

CONSTANTS
    Replicas,
    Deliveries,     \* the messages being delivered, each by one delivery at a time
    Materials,      \* what the token request depends on: tenant, client, secret, ...
    Unusable,       \* materials that do not decrypt or parse
    Refused,        \* materials Entra refuses a token for: expired, revoked, ...
    MaxEdits,       \* bound: edits of the credential
    MaxFaults       \* bound: restarts, and answers the upstream gives once in a while

ASSUME CacheAssumption ==
    /\ Unusable \subseteq Materials /\ Refused \subseteq Materials
    /\ {"none", "deleted"} \cap Materials = {} /\ "none" \notin Replicas
    /\ MaxEdits \in Nat /\ MaxFaults \in Nat

VARIABLES
    row,        \* the oauth_credentials row: its material, or "deleted"
    edits,      \* edits so far
    forgetting, \* replicas whose admin handler has yet to call Forget
    clients,    \* per replica: the material of the cached client, or "none"
    delivery,   \* deliveries
    faults      \* faults so far

cacheVars == <<row, edits, forgetting, clients, delivery, faults>>

Cached == Materials \cup {"none"}

(* replica: the one that claimed the message.  cred: the copy of the row the
   delivery works with.  since: for the properties, how many edits there were when
   it was read. *)
Delivery == [pc : {"idle", "begin", "lookup", "build", "store", "token", "send"},
             replica : Replicas \cup {"none"}, cred : Cached, since : Nat, client : Cached]
NoDelivery ==
    [pc |-> "idle", replica |-> "none", cred |-> "none", since |-> 0, client |-> "none"]

CacheInit ==
    /\ row \in Materials
    /\ edits = 0
    /\ forgetting = {}
    /\ clients = [r \in Replicas |-> "none"]
    /\ delivery = [d \in Deliveries |-> NoDelivery]
    /\ faults = 0

At(d, pc) == delivery[d].pc = pc
Finished(d) == delivery' = [delivery EXCEPT ![d] = NoDelivery]
Fault == faults < MaxFaults /\ faults' = faults + 1

-----------------------------------------------------------------------------
(* The handlers of replica r write the row first and call Forget after it. *)
Edit(r, new) ==
    /\ row # "deleted"
    /\ edits < MaxEdits
    /\ row' = new
    /\ edits' = edits + 1
    /\ forgetting' = forgetting \cup {r}
    /\ UNCHANGED <<clients, delivery, faults>>

(* The handler writes back a copy it read, with any of the request's fields
   changed, so the new material is any. *)
UpdateCredential(r) == \E new \in Materials : Edit(r, new)

DeleteCredential(r) == Edit(r, "deleted")

Forget(r) ==
    /\ r \in forgetting
    /\ forgetting' = forgetting \ {r}
    /\ clients' = [clients EXCEPT ![r] = "none"]
    /\ UNCHANGED <<row, edits, delivery, faults>>

(* The process dies or is restarted: an empty cache, and no handler. *)
Restart(r) ==
    /\ clients' = [clients EXCEPT ![r] = "none"]
    /\ forgetting' = forgetting \ {r}
    /\ delivery' = [d \in Deliveries |->
                      IF delivery[d].replica = r THEN NoDelivery ELSE delivery[d]]
    /\ Fault
    /\ UNCHANGED <<row, edits>>

-----------------------------------------------------------------------------
(* Some replica claims the message and prepare reads the credential; the mailbox
   keeps it from being deleted, so a delivery only starts while it exists. *)
Prepare(d) ==
    /\ At(d, "idle")
    /\ row # "deleted"
    /\ \E r \in Replicas :
          delivery' = [delivery EXCEPT ![d] = [NoDelivery EXCEPT
              !.pc = "begin", !.replica = r, !.cred = row, !.since = edits]]
    /\ UNCHANGED <<row, edits, forgetting, clients, faults>>

(* Mutant: the cache is keyed by the credential alone. *)
HitsById(cached, cred) == cached # "none"

(* A cached client is good if its fingerprint is that of the copy. *)
Hits(cached, cred) == cached = cred

Lookup(d) ==
    LET q == delivery[d] IN
    /\ At(d, "lookup")
    /\ delivery' = [delivery EXCEPT ![d] =
          IF Hits(clients[q.replica], q.cred)
          THEN [q EXCEPT !.pc = "token", !.client = clients[q.replica]]
          ELSE [q EXCEPT !.pc = "build"]]
    /\ UNCHANGED <<row, edits, forgetting, clients, faults>>

(* buildClient decrypts and parses; an unusable credential is an error. *)
Build(d) ==
    /\ At(d, "build")
    /\ IF delivery[d].cred \in Unusable THEN Finished(d)
       ELSE delivery' = [delivery EXCEPT ![d].pc = "store", ![d].client = delivery[d].cred]
    /\ UNCHANGED <<row, edits, forgetting, clients, faults>>

(* Mutant: a client some other delivery stored meanwhile is used instead. *)
StoreUnlessCached(d) ==
    LET q == delivery[d]
        c == IF clients[q.replica] = "none" THEN q.client ELSE clients[q.replica]
    IN
    /\ At(d, "store")
    /\ clients' = [clients EXCEPT ![q.replica] = c]
    /\ delivery' = [delivery EXCEPT ![d].pc = "token", ![d].client = c]
    /\ UNCHANGED <<row, edits, forgetting, faults>>

(* The delivery goes on with the client it built, whatever the cache holds. *)
Store(d) ==
    LET q == delivery[d] IN
    /\ At(d, "store")
    /\ clients' = [clients EXCEPT ![q.replica] = q.client]
    /\ delivery' = [delivery EXCEPT ![d].pc = "token"]
    /\ UNCHANGED <<row, edits, forgetting, faults>>

(* AcquireTokenByCredential.  Without a token the delivery fails, but only for
   now: Send says it is worth retrying.  With one, the copy of the row has done
   its work. *)
AcquireToken(d) ==
    /\ At(d, "token")
    /\ \/ /\ delivery[d].client \notin Refused
          /\ delivery' = [delivery EXCEPT ![d].pc = "send", ![d].cred = "none", ![d].since = 0]
          /\ UNCHANGED faults
       \/ delivery[d].client \in Refused /\ Finished(d) /\ UNCHANGED faults
       \/ Finished(d) /\ Fault
    /\ UNCHANGED <<row, edits, forgetting, clients>>

-----------------------------------------------------------------------------
(* An edited credential takes effect on the next delivery, without a restart and
   on every replica: a delivery that read the row after the last edit asks for
   its token with the material of that row, although only one replica is told to
   forget its client and an older delivery may put a stale one back. *)
EditTakesEffect ==
    \A d \in Deliveries :
        At(d, "token") /\ delivery[d].since = edits /\ row # "deleted"
        => delivery[d].client = row
=============================================================================
