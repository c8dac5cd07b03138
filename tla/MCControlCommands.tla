-------------------------- MODULE MCControlCommands --------------------------
(* ControlCommands with the processes, the daemons and the models alike. *)
EXTENDS ControlCommands, TLC

Alike == Permutations(Daemon) \cup Permutations(Clerk) \cup Permutations(Alias)
=============================================================================
