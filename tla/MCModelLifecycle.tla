-------------------------- MODULE MCModelLifecycle --------------------------
(* Instances of ModelLifecycle for TLC. *)
EXTENDS ModelLifecycleInv, TLC

\* what the registry resolves the aliases for
AllChat  == [a \in Alias |-> {"chat"}]
AllEmbed == [a \in Alias |-> {"embed"}]
\* raw repository names
EitherRole == [a \in Alias |-> Role]

\* one chat model; the embed models are the other aliases
OneChat == LET c == CHOOSE a \in Alias : TRUE IN
           [a \in Alias |-> IF a = c THEN {"chat"} ELSE {"embed"}]

CapOne   == [role \in Role |-> 1]
Uncapped == [role \in Role |-> 0]

\* OneChat tells the aliases apart, the other instances of RolesOf do not
Symmetry == Permutations(Request) \cup Permutations(Alias) \cup Permutations(Id)
RequestSymmetry == Permutations(Request)
=============================================================================
