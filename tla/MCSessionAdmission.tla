-------------------------- MODULE MCSessionAdmission --------------------------
(***************************************************************************)
(* SessionAdmission for TLC. Users and request goroutines are              *)
(* interchangeable; session ids are too.                                   *)
(***************************************************************************)
EXTENDS SessionAdmission, TLC

Symmetry == Permutations(Session) \cup Permutations(User) \cup Permutations(Worker)

=============================================================================
