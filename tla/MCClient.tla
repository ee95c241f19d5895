------------------------------ MODULE MCClient ------------------------------
(* One caller that may resend once and one consumer, sharing connections.  *)
EXTENDS Client

CONSTANTS k1, x1

OneCall == {k1}
OneStream == {x1}
=============================================================================
