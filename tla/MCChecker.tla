----------------------------- MODULE MCChecker -----------------------------
(* Instances of Checker for TLC. *)
EXTENDS Checker

\* Every type in every form.
AllChecks == Check

=============================================================================
