---------------------------- MODULE MCBootStatus ----------------------------
(***************************************************************************)
(* BootStatus for TLC: the constants are given values in the cfg.          *)
(***************************************************************************)
EXTENDS BootStatus

=============================================================================
