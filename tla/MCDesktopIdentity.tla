-------------------------- MODULE MCDesktopIdentity --------------------------
(***************************************************************************)
(* The PC's tasks are alike.                                               *)
(***************************************************************************)
EXTENDS DesktopIdentity, TLC

CallerSymmetry == Permutations(Callers)
================================================================================
