--------------------------- MODULE MCDesktopNotify ---------------------------
(* Small instances of DesktopNotify for TLC. *)
EXTENDS DesktopNotify, TLC
=============================================================================
