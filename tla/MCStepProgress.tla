--------------------------- MODULE MCStepProgress ---------------------------
(* Instances of StepProgress for TLC. *)
EXTENDS StepProgress, TLC

\* All sessions belong to the same user and lab.
OneEnrolment == [s \in Session |-> CHOOSE e \in Enrolment : TRUE]

\* The goroutines of the API are interchangeable.
WorkerSymmetry == Permutations(Worker)
=============================================================================
