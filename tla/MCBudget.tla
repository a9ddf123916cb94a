------------------------------ MODULE MCBudget ------------------------------
(* One worker; caps and costs whose 80, 95 and 100 per cent are hit exactly,  *)
(* jumped over one by one, and jumped over together.                         *)
EXTENDS Budget, TLC

CONSTANTS w1, w2

=============================================================================
