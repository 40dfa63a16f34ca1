----------------------------- MODULE CertReloader -----------------------------
(***************************************************************************)
(* The certificate the SMTP server presents: BuildTLSConfig and            *)
(* certReloader of internal/smtpsrv/tls.go, while somebody else renews the *)
(* two files on disk, which takes several writes in either order.          *)
(*                                                                         *)
(* A file is known by how often it was renewed, and so is a certificate.   *)
(* No two contents of the file share a modification time.                  *)
(***************************************************************************)
EXTENDS Integers

CONSTANTS
    MaxRenewals     \* bound: renewals of the pair

ASSUME RenewalsAssumption == MaxRenewals \in Nat

VARIABLES
    disk,       \* the files: their contents, and whether the certificate is there
    reloader,   \* certReloader: cert, modTime, and whether loadedAt is recent
    loading     \* the load under way: where it is, and what Stat told it

certVars == <<disk, reloader, loading>>

NotLoading == [pc |-> "idle", stat |-> -1]

(* BuildTLSConfig loads the pair once, or the proxy does not start. *)
CertInit ==
    /\ disk = [cert |-> 0, key |-> 0, there |-> TRUE]
    /\ reloader = [cert |-> 0, modTime |-> 0, fresh |-> TRUE]
    /\ loading = NotLoading

-----------------------------------------------------------------------------
(* A renewal replaces the certificate, removing it first, and the key. *)
RemoveCert ==
    /\ disk.there
    /\ disk.cert < MaxRenewals /\ disk.cert <= disk.key
    /\ disk' = [disk EXCEPT !.there = FALSE]
    /\ UNCHANGED <<reloader, loading>>

WriteCert ==
    /\ ~disk.there
    /\ disk' = [disk EXCEPT !.there = TRUE, !.cert = @ + 1]
    /\ UNCHANGED <<reloader, loading>>

WriteKey ==
    /\ disk.key < MaxRenewals /\ disk.key <= disk.cert
    /\ disk' = [disk EXCEPT !.key = @ + 1]
    /\ UNCHANGED <<reloader, loading>>

(* reloadInterval is over: the next handshake looks at the files again. *)
Elapse ==
    /\ reloader.fresh
    /\ reloader' = [reloader EXCEPT !.fresh = FALSE]
    /\ UNCHANGED <<disk, loading>>

(* A handshake, once the interval is over: get calls load, which looks at the
   modification time first.  Every other handshake takes the certificate that
   is there, or waits for the lock. *)
Stat ==
    /\ loading.pc = "idle" /\ ~reloader.fresh
    /\ IF disk.there /\ disk.cert = reloader.modTime
       THEN reloader' = [reloader EXCEPT !.fresh = TRUE] /\ UNCHANGED loading
       ELSE /\ loading' = [pc |-> "load", stat |-> IF disk.there THEN disk.cert ELSE -1]
            /\ UNCHANGED reloader
    /\ UNCHANGED disk

(* Mutant: the time is noted even if the pair could not be loaded. *)
LoadNotingTime ==
    /\ loading.pc = "load"
    /\ reloader' = [cert |-> IF disk.there /\ disk.cert = disk.key THEN disk.cert
                             ELSE reloader.cert,
                    modTime |-> IF loading.stat >= 0 THEN loading.stat ELSE reloader.modTime,
                    fresh |-> TRUE]
    /\ loading' = NotLoading
    /\ UNCHANGED disk

(* LoadX509KeyPair: a pair that does not match, or is not there, leaves the
   previous certificate and the time of its file. *)
Load ==
    /\ loading.pc = "load"
    /\ reloader' =
          IF disk.there /\ disk.cert = disk.key
          THEN [cert |-> disk.cert, fresh |-> TRUE,
                modTime |-> IF loading.stat >= 0 THEN loading.stat ELSE reloader.modTime]
          ELSE [reloader EXCEPT !.fresh = TRUE]
    /\ loading' = NotLoading
    /\ UNCHANGED disk

Renewal == RemoveCert \/ WriteCert \/ WriteKey

GetCertificate == Stat \/ Load
=============================================================================
