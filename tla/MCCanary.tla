------------------------------ MODULE MCCanary ------------------------------
(* Two transactions, limits of two and of one refusal, through a death, a     *)
(* failed append or a use of the key elsewhere, and a reset.                 *)
EXTENDS Canary

=============================================================================
