---------------------------- MODULE MCDesktopApp ----------------------------
(* DesktopApp for TLC: one client slot, in turn application and command,   *)
(* two session identities of the helper, so that a second engine would     *)
(* have a name, and two sessions on Android, so that one can replace the   *)
(* other.  In proxy mode the command channel has two slots.               *)
EXTENDS DesktopApp

CONSTANTS c1, s1, s2, v1, v2
=============================================================================
