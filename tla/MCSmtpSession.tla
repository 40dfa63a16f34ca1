---------------------------- MODULE MCSmtpSession ----------------------------
(***************************************************************************)
(* Instances of SmtpSession for TLC: two mailboxes, an alias outside them, *)
(* and a few account rows an operator switches between.                    *)
(***************************************************************************)
EXTENDS SmtpSession

CONSTANTS b1, b2, alias

MCConfigs == Config
MCImplicit == {c \in Config : c.tls = "implicit" /\ c.requireHere /\ ~c.requireElsewhere
                               /\ ~c.allowInsecureAuth}

MCOrder == <<b1, b2>>

RowWith(policy, default) ==
    [enabled |-> TRUE, policy |-> policy, default |-> default, source |-> TRUE,
     password |-> "old", weak |-> FALSE]

MCRows == {[RowWith("rewrite", b2) EXCEPT !.source = FALSE], RowWith("reject", b1),
           RowWith("rewrite", b2), RowWith("passthrough", NoAddress),
           RowWith("unknown", b1), [RowWith("rewrite", b1) EXCEPT !.weak = TRUE],
           [RowWith("reject", b1) EXCEPT !.enabled = FALSE, !.password = "new"],
           [RowWith("reject", b1) EXCEPT !.enabled = FALSE]}
MCLinks == {{}, {b1}, {b1, b2}}
MCAllow == {{}, {alias}}

(* For the commands and the connection one account, enabled or not, and one
   grant are enough; for grants and policies, one short message over TLS.  TLC
   explores both parts of the state space and not their product. *)
FewGrants ==
    /\ allowed = {} /\ links \subseteq {b1}
    /\ account # Deleted => /\ account.policy = "reject" /\ account.source /\ ~account.weak
                            /\ account.password = "old"
ShortDialogue ==
    /\ config \in MCImplicit
    /\ sess.tx <= 1 /\ Len(sess.recipients) <= 1 /\ sess.authFailures = 0
    /\ Len(queued) <= 1

Explored == FewGrants \/ ShortDialogue
=============================================================================
