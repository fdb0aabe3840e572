-------------------------- MODULE MCTokenValidation --------------------------
(* TokenValidation with two requests at a time, one rotation of keys, and   *)
(* one token for each kind of answer.                                       *)
EXTENDS TokenValidation

Good == [key |-> "k1", exp |-> TRUE, nbf |-> 0, aud |-> TRUE, jti |-> TRUE, rules |-> TRUE]

MCClaims ==
  [t \in Tokens |->
     CASE t = "a" -> Good
       [] t = "b" -> [Good EXCEPT !.key = "k2", !.nbf = 1, !.jti = FALSE]
       [] t = "c" -> [Good EXCEPT !.aud = FALSE]]
==============================================================================
