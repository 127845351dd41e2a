-------------------------------- MODULE NoValue --------------------------------
(***************************************************************************)
(* The client's "nothing there": undefined, or null where the code does    *)
(* not tell the two apart.                                                 *)
(***************************************************************************)
CONSTANT None
================================================================================
