----------------------------- MODULE MCVMFiles -----------------------------
(* Model values for the runs of VMFiles.                                   *)
EXTENDS VMFiles

=============================================================================
