--------------------------- MODULE MCClientConnect ---------------------------
(* Instances of ClientConnect for TLC. *)
EXTENDS ClientConnect, TLC

Symmetry == Permutations(Daemon) \cup Permutations(Client)
DaemonSymmetry == Permutations(Daemon)
=============================================================================
