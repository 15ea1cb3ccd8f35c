----------------------------- MODULE MCAccounts -----------------------------
(* Users, goroutines and checkouts are interchangeable.                    *)
EXTENDS Accounts, TLC

Symmetry == Permutations(User) \cup Permutations(Worker) \cup Permutations(Checkout)

=============================================================================
