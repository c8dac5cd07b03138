--------------------------- MODULE MCDaemonProcess ---------------------------
(* Instances of DaemonProcess for TLC. *)
EXTENDS DaemonProcess, TLC

Symmetry == Permutations(Daemon) \cup Permutations(Client)
=============================================================================
