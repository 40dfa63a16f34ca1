----------------------------- MODULE SmtpFrontEnd -----------------------------
(***************************************************************************)
(* The SMTP front end as it runs: the listeners of SmtpServe, whose        *)
(* handshakes all take their certificate from one CertReloader.            *)
(*                                                                         *)
(* Renewals are looked at while every listener serves; one that is under   *)
(* way when the proxy starts is either loaded by BuildTLSConfig or ends    *)
(* the start.                                                              *)
(***************************************************************************)
EXTENDS SmtpServe, CertReloader

frontVars == <<serveVars, certVars>>

FrontInit == ServeInit /\ CertInit

ServingAll == \A l \in Listeners : runner[l] = "serving"

Certificate(A) == ServingAll /\ A /\ UNCHANGED serveVars

FrontNext ==
    \/ ServeNext /\ UNCHANGED certVars
    \/ Certificate(Renewal) \/ Certificate(Elapse) \/ Certificate(GetCertificate)

(* A renewal that began is finished, time passes, and clients keep connecting. *)
FrontFairness ==
    /\ ServeFairness
    /\ WF_frontVars(Certificate(WriteCert))
    /\ WF_frontVars(Certificate(disk.key < disk.cert /\ WriteKey))
    /\ WF_frontVars(Certificate(disk.cert < disk.key /\ RemoveCert))
    /\ WF_frontVars(Certificate(Elapse)) /\ WF_frontVars(Certificate(GetCertificate))

FrontSpec == FrontInit /\ [][FrontNext]_frontVars /\ FrontFairness

-----------------------------------------------------------------------------
(* A renewed certificate takes effect without a restart, as BuildTLSConfig says:
   although the two files change one after the other, the first vanishing for a
   while, and a handshake may look at any moment in between, a server that goes on
   serving comes to present the pair that is on disk. *)
RenewalTakesEffect ==
    []<>(~ServingAll \/ (disk.there /\ disk.cert = disk.key /\ reloader.cert = disk.cert))
=============================================================================
