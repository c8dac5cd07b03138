---------------------------- MODULE MCNotesLibrary ----------------------------
EXTENDS NotesLibrary, TLC

\* Processes, notes of the index and models are alike; the note directories are
\* not, they are taken in the order they were made.
Alike ==
    Permutations(Procs) \cup Permutations(Notes) \cup Permutations(Aliases)
        \cup Permutations(Models)
=============================================================================
