----------------------------- MODULE MCSessionTTL -----------------------------
(* SessionTTL on a small instance.                                          *)
EXTENDS SessionTTL
==============================================================================
