------------------------- MODULE MCMessagingReport -------------------------
(* Instances of MessagingReport for TLC.                                   *)
EXTENDS MessagingReport

CONSTANTS e1, e2, e3
=============================================================================
