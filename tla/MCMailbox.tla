------------------------------ MODULE MCMailbox -----------------------------
(* Model-checking instance of Mailbox.                                     *)
EXTENDS Mailbox

MCOpsAll == {"close", "kill", "mutex"}
MCOpsSharedClose == {"mutex", "close"}
=============================================================================
