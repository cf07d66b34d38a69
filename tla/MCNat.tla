------------------------------- MODULE MCNat -------------------------------
(* A finite instance of Nat.                                               *)
EXTENDS Nat, TLC

CONSTANTS a, b, s, r

\* One dnat rule.
MCRules == 3 :> s
=============================================================================
