---------------------------- MODULE ModelRegistry ----------------------------
(***************************************************************************)
(* models.toml and the commands that rewrite it: chirp models add,         *)
(* default, remove and pull, the chat model of chirp init, and chirp       *)
(* config --semantic.  Each reads the whole file, works (a download takes  *)
(* minutes), and replaces the whole file with what it made of the one it   *)
(* read; nothing locks it.  The last one wins.                             *)
(***************************************************************************)
EXTENDS Naturals, FiniteSets

CONSTANTS
    Alias,      \* models, each by one alias
    Clerk,      \* processes, one command each
    Trouble,    \* kills, failed downloads and failed writes there may be
    Torn,       \* a file of which only a part is written
    None

VARIABLES
    toml,       \* models.toml, or Torn
    temp,       \* the temporary files, by the writer they are named for
    cached,     \* models whose weights are in the HuggingFace cache
    semantic,   \* settings.notes_chat.semantic_enabled
    task,       \* per process: its command, where it is, and its copy of the registry
    trouble     \* what has gone wrong so far

registryVars == <<toml, temp, cached, semantic, task, trouble>>

Order == {"add", "default", "remove", "purge", "pull", "setup", "prepare",
          "switch", "semantic", "lexical"}
Role == {"chat", "embed"}
Report == {"ok", "failed", "refused", "unknown", "kept", "cold", "killed"}

Registry == [models : [Alias -> Role \cup {None}],
             chat : Alias \cup {None}, embed : Alias \cup {None}]

ASSUME RegistryAssumptions ==
    /\ Torn \notin Registry \cup {None}
    /\ None \notin Role \cup Report

Registered(reg, a) == reg.models[a] # None

\* Defaults are registered, though a model may have been given another role since.
Sound(reg) ==
    \A a \in {reg.chat, reg.embed} \ {None} : Registered(reg, a)

NoTask == [order |-> None, pc |-> "idle", alias |-> None, role |-> None,
           copy |-> None, report |-> None]

RegistryInit ==
    /\ toml \in {reg \in Registry :
            /\ reg.chat # None => reg.models[reg.chat] = "chat"
            /\ reg.embed # None => reg.models[reg.embed] = "embed"}
    /\ cached = {a \in Alias : Registered(toml, a)}
    /\ semantic \in BOOLEAN
    /\ temp = [p \in Clerk |-> None]
    /\ task = [p \in Clerk |-> NoTask]
    /\ trouble = 0

Goes(p, to) == task' = [task EXCEPT ![p].pc = to]
Ends(p, how) == task' = [task EXCEPT ![p].pc = "done", ![p].report = how]
Fails == trouble < Trouble /\ trouble' = trouble + 1
-----------------------------------------------------------------------------
(* upsert_model, remove_model, set_default_for_role *)

Upsert(reg, a, role) == [reg EXCEPT !.models[a] = role]

Removed(reg, a) ==
    [models |-> [reg.models EXCEPT ![a] = None],
     chat |-> IF reg.chat = a THEN None ELSE reg.chat,
     embed |-> IF reg.embed = a THEN None ELSE reg.embed]

DefaultFor(reg, a) ==
    IF reg.models[a] = "chat" THEN [reg EXCEPT !.chat = a] ELSE [reg EXCEPT !.embed = a]

\* register_model: the first of its role becomes the default.
Added(reg, a, role) ==
    LET next == Upsert(reg, a, role)
        unset == IF role = "chat" THEN reg.chat = None ELSE reg.embed = None
    IN IF unset /\ ~Registered(reg, a) THEN DefaultFor(next, a) ELSE next
-----------------------------------------------------------------------------
(* What comes before the registry is read *)

First(order) ==
    CASE order \in {"add", "setup"} -> "validate"
      [] order \in {"semantic", "lexical"} -> "toggle"
      [] order = "prepare" -> "download"
      [] OTHER -> "read"

Takes(p) ==
    /\ task[p].pc = "idle"
    /\ \E order \in Order, a \in Alias, role \in Role :
        /\ order \in {"setup", "prepare", "switch"} => role = "chat"
        \* chirp init sets a chat model up when there is none, or prepares the default.
        /\ order = "setup" => toml.chat = None
        /\ order = "prepare" => toml.chat = a
        /\ order \in {"semantic", "default", "remove", "purge", "pull", "lexical"}
            => role = "embed"
        /\ task' = [task EXCEPT ![p] =
            [NoTask EXCEPT !.order = order, !.alias = a, !.role = role, !.pc = First(order)]]
    /\ UNCHANGED <<toml, temp, cached, semantic, trouble>>

Validates(p) ==
    /\ task[p].pc = "validate"
    /\ Goes(p, IF task[p].order = "add" THEN "gate" ELSE "download")
    /\ UNCHANGED <<toml, temp, cached, semantic, trouble>>

\* Only add stops at a repository that cannot be looked up, or has no clear role.
LookupFails(p) ==
    /\ task[p].pc = "validate" /\ task[p].order = "add" /\ Fails
    /\ Ends(p, "failed")
    /\ UNCHANGED <<toml, temp, cached, semantic>>

\* An embed model needs semantic search to be on.
Gates(p) ==
    /\ task[p].pc = "gate"
    /\ IF task[p].role = "embed" /\ ~semantic THEN Ends(p, "refused") ELSE Goes(p, "download")
    /\ UNCHANGED <<toml, temp, cached, semantic, trouble>>

TurnsOff(p) ==
    /\ task[p].pc = "toggle" /\ task[p].order = "lexical"
    /\ semantic' = FALSE
    /\ Ends(p, "ok")
    /\ UNCHANGED <<toml, temp, cached, trouble>>

TurnsOn(p) ==
    /\ task[p].pc = "toggle" /\ task[p].order = "semantic"
    /\ IF semantic THEN Ends(p, "ok") ELSE Goes(p, "download")
    /\ UNCHANGED <<toml, temp, cached, semantic, trouble>>

\* pull has read the registry before, and writes it back if the model has a new
\* revision; the others read it after the download.
Downloads(p) ==
    /\ task[p].pc = "download"
    /\ cached' = cached \cup {task[p].alias}
    /\ \/ task[p].order \in {"add", "setup", "semantic"} /\ Goes(p, "read")
       \/ task[p].order = "pull" /\ (Goes(p, "open") \/ Goes(p, "warm"))
    /\ UNCHANGED <<toml, temp, semantic, trouble>>

\* chirp init, of the default model
Prepares(p) ==
    /\ task[p].pc = "download" /\ task[p].order = "prepare"
    /\ cached' = cached \cup {task[p].alias}
    /\ Goes(p, "warm")
    /\ UNCHANGED <<toml, temp, semantic, trouble>>

DownloadFails(p) ==
    /\ task[p].pc = "download" /\ Fails
    /\ Ends(p, "failed")
    /\ UNCHANGED <<toml, temp, cached, semantic>>
-----------------------------------------------------------------------------
(* read_registry, and what the command makes of it; a file that is torn would *)
(* stop it, and there is none, see RegistryIsWhole.                           *)

Reads(p, orders) == task[p].pc = "read" /\ task[p].order \in orders /\ toml # Torn
Keeps(p, reg, to) ==
    /\ task' = [task EXCEPT ![p].copy = reg, ![p].pc = to]
    /\ UNCHANGED <<toml, temp, cached, semantic, trouble>>
Stops(p, how) == Ends(p, how) /\ UNCHANGED <<toml, temp, cached, semantic, trouble>>

ReadsToAdd(p) ==
    /\ Reads(p, {"add", "semantic"})
    /\ Keeps(p, Added(toml, task[p].alias, task[p].role), "open")

\* chirp init makes its model the default, whatever was the default before.
ReadsToSetUp(p) ==
    LET a == task[p].alias IN
    /\ Reads(p, {"setup"})
    /\ Keeps(p, DefaultFor(Upsert(toml, a, "chat"), a), "open")

IsUnknown(p) ==
    /\ Reads(p, {"default", "remove", "purge", "pull"})
    /\ ~Registered(toml, task[p].alias)
    /\ Stops(p, "unknown")

ReadsToDefault(p) ==
    /\ Reads(p, {"default"}) /\ Registered(toml, task[p].alias)
    /\ Keeps(p, DefaultFor(toml, task[p].alias), "open")

ReadsToRemove(p) ==
    /\ Reads(p, {"remove", "purge"}) /\ Registered(toml, task[p].alias)
    /\ Keeps(p, Removed(toml, task[p].alias), "open")

ReadsToPull(p) ==
    /\ Reads(p, {"pull"}) /\ Registered(toml, task[p].alias)
    /\ Keeps(p, toml, "download")

\* init --switch-model: the user picks one of the chat models, or none.
ReadsToSwitch(p) ==
    LET a == task[p].alias IN
    /\ Reads(p, {"switch"})
    /\ \/ toml.models[a] = "chat" /\ Keeps(p, DefaultFor(toml, a), "open")
       \/ Stops(p, "kept")
-----------------------------------------------------------------------------
(* write_registry *)

\* MUTANT of TempOf: one name for all
TempShared(p) == CHOOSE q \in Clerk : TRUE

\* the process id and a random suffix are in its name
TempOf(p) == p

OpensTemp(p) ==
    /\ task[p].pc = "open"
    /\ temp' = [temp EXCEPT ![TempOf(p)] = Torn]
    /\ Goes(p, "fill")
    /\ UNCHANGED <<toml, cached, semantic, trouble>>

Fills(p) ==
    /\ task[p].pc = "fill"
    /\ temp' = [temp EXCEPT ![TempOf(p)] = task[p].copy]
    /\ Goes(p, "replace")
    /\ UNCHANGED <<toml, cached, semantic, trouble>>

Replaces(p) ==
    /\ task[p].pc = "replace" /\ temp[TempOf(p)] # None
    /\ toml' = temp[TempOf(p)]
    /\ temp' = [temp EXCEPT ![TempOf(p)] = None]
    /\ \/ task[p].order = "purge" /\ Goes(p, "rmtree")
       \/ task[p].order \in {"default", "remove", "switch"} /\ Ends(p, "ok")
       \/ task[p].order \in {"add", "setup", "pull", "semantic"} /\ Goes(p, "warm")
    /\ UNCHANGED <<cached, semantic, trouble>>

\* OSError: the file stays, the temporary one goes, if it can be removed.
WriteRaises(p) ==
    /\ task[p].pc \in {"open", "fill", "replace"}
    /\ (task[p].pc = "replace" /\ temp[TempOf(p)] = None /\ UNCHANGED trouble) \/ Fails
    /\ temp' \in {temp, [temp EXCEPT ![TempOf(p)] = None]}
    /\ Ends(p, "failed")
    /\ UNCHANGED <<toml, cached, semantic>>
-----------------------------------------------------------------------------
(* What comes after *)

\* rmtree, which may fail half-way
Purges(p) ==
    /\ task[p].pc = "rmtree"
    /\ \/ cached' = cached \ {task[p].alias} /\ UNCHANGED trouble
       \/ Fails /\ UNCHANGED cached
    /\ Ends(p, "ok")
    /\ UNCHANGED <<toml, temp, semantic>>

\* The daemon resolves the alias in the file as it is now, and loads it as role.
Loadable(p) ==
    /\ toml # Torn /\ task[p].alias \in cached
    /\ task[p].order # "pull" => toml.models[task[p].alias] = task[p].role

Warms(p) ==
    /\ task[p].pc = "warm" /\ task[p].order # "semantic"
    /\ (Loadable(p) /\ Ends(p, "ok")) \/ Ends(p, "cold")
    /\ UNCHANGED <<toml, temp, cached, semantic, trouble>>

\* config --semantic turns the flag on once the daemon has loaded the model.
VerifiesEmbed(p) ==
    /\ task[p].pc = "warm" /\ task[p].order = "semantic"
    /\ \/ Loadable(p) /\ semantic' = TRUE /\ Ends(p, "ok")
       \/ Ends(p, "cold") /\ UNCHANGED semantic
    /\ UNCHANGED <<toml, temp, cached, trouble>>

Killed(p) ==
    /\ task[p].pc \notin {"idle", "done"} /\ Fails
    /\ Ends(p, "killed")
    /\ UNCHANGED <<toml, temp, cached, semantic>>

RegistryStep(p) ==
    \/ Takes(p) \/ Validates(p) \/ LookupFails(p) \/ Gates(p) \/ TurnsOn(p) \/ TurnsOff(p)
    \/ Downloads(p) \/ Prepares(p) \/ DownloadFails(p)
    \/ ReadsToAdd(p) \/ ReadsToSetUp(p) \/ IsUnknown(p) \/ ReadsToDefault(p)
    \/ ReadsToRemove(p) \/ ReadsToPull(p) \/ ReadsToSwitch(p)
    \/ OpensTemp(p) \/ Fills(p) \/ Replaces(p) \/ WriteRaises(p)
    \/ Purges(p) \/ Warms(p) \/ VerifiesEmbed(p) \/ Killed(p)

RegistryNext == \E p \in Clerk : RegistryStep(p)

RegistrySpec == RegistryInit /\ [][RegistryNext]_registryVars
-----------------------------------------------------------------------------
RegistryTypeOK ==
    /\ toml \in Registry \cup {Torn}
    /\ temp \in [Clerk -> Registry \cup {Torn, None}]
    /\ cached \subseteq Alias /\ semantic \in BOOLEAN
    /\ \A p \in Clerk :
        /\ task[p].order \in Order \cup {None} /\ task[p].alias \in Alias \cup {None}
        /\ task[p].copy \in Registry \cup {None} /\ task[p].report \in Report \cup {None}

\* Whoever writes, fails or is killed while another one does, the daemon and the
\* next command read a whole registry whose defaults are registered; and a
\* writer that has succeeded leaves no temporary file (write_registry,
\* remove_model, set_default_for_role).
RegistryIsWhole ==
    /\ toml # Torn /\ Sound(toml)
    /\ \A p \in Clerk :
        temp[p] # None => task[p].pc \in {"fill", "replace"} \/ task[p].report \in {"killed", "failed"}
=============================================================================
