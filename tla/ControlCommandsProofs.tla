------------------------ MODULE ControlCommandsProofs ------------------------
(***************************************************************************)
(* For any number of processes, models, daemons and rotations, and however *)
(* often commands are killed or fail: models.toml is a whole registry,     *)
(* what a command reports of the daemon stays true, and the log's follower *)
(* notices that its file was renamed.                                      *)
(***************************************************************************)
EXTENDS ControlCommands, FiniteSetTheorems, TLAPS

(* The commands that run the daemon *)

USE ControlAssumptions

DaemonStates == {"starting", "up", "told", "closing", "dead"}

Places == {"idle", "probe", "ask", "health", "check", "status", "term", "vacate", "overdue",
           "spawn", "await", "confirm", "write", "place", "gone", "unload", "load", "verify", "remove",
           "unlink", "absent", "done"}

Said == {"already", "absent", "broken", "current", "failed", "installed", "killed",
         "not_running", "removed", "restarted", "running", "started", "stopped",
         "unreachable"}

CmdState == [job : Jobs \cup {"force", None}, pc : Places, found : Daemon \cup {None},
             new : Daemon \cup {None}, existed : BOOLEAN, report : Said \cup {None}]

Gone(d) == dst[d] \in {"closing", "dead"}

\* A process a command has found is not started again under its pid; once a stop
\* has seen the socket free, it is on its way out.
Knows(x) ==
    /\ x.found # None => dst[x.found] # "starting"
    /\ x.pc \in {"idle", "ask", "health", "check"} => x.found = None
    /\ x.pc \in {"term", "vacate", "overdue"} => x.found # None
    /\ x.pc \in {"probe", "spawn", "await", "confirm"} \/ x.report \in {"stopped", "restarted"}
        => x.found = None \/ Gone(x.found)
    /\ x.pc # "done" => x.report = None
    /\ x.report = "restarted" => x.new # x.found

\* A plist that went while its agent stayed is known to whoever removed it.
Blamed(x) == x.pc = "absent" \/ x.report \in {"failed", "killed", "broken"}

ControlTypes ==
    /\ dst \in [Daemon -> DaemonStates] /\ cmd \in [Clerk -> CmdState]
    /\ plist \in BOOLEAN /\ loaded \in BOOLEAN

ControlInv ==
    /\ ControlTypes
    /\ \A c \in Clerk : Knows(cmd[c])
    /\ loaded /\ ~plist => \E c \in Clerk : Blamed(cmd[c])

\* What a step may do to the processes that commands know of.
Moves ==
    /\ dst' \in [Daemon -> DaemonStates]
    /\ \A c \in Clerk : LET d == cmd[c].found IN d # None =>
        /\ dst[d] # "starting" => dst'[d] # "starting"
        /\ Gone(d) => dst'[d] \in {"closing", "dead"}

LEMMA FoundTypes ==
    ASSUME ControlTypes, NEW c \in Clerk
    PROVE  cmd[c].found \in Daemon \cup {None}
BY DEF ControlTypes, CmdState

LEMMA SpawnMoves ==
    ASSUME ControlTypes, NEW d \in Daemon, Control!Spawn(d)
    PROVE  Moves
<1>1. dst' = [dst EXCEPT ![d] = "starting"] /\ \A c \in Clerk : d # cmd[c].found
    BY DEF Control!Spawn, Control!Free
<1> QED
    BY <1>1, FoundTypes DEF ControlTypes, Moves, Gone, DaemonStates

LEMMA ExitsMoves ==
    ASSUME ControlTypes, NEW d, NEW zero, Control!Exits(d, zero)
    PROVE  Moves
BY FoundTypes DEF ControlTypes, Control!Exits, Moves, Gone, DaemonStates

LEMMA ToldMoves ==
    ASSUME ControlTypes, NEW d, dst' = Control!Told(d)
    PROVE  Moves
BY FoundTypes DEF ControlTypes, Control!Told, Moves, Gone, DaemonStates

LEMMA StaysMoves ==
    ASSUME ControlTypes, dst' = dst
    PROVE  Moves
BY FoundTypes DEF ControlTypes, Moves, Gone

\* One command goes on and leaves the plist and the agent alone, or has said
\* what became of them.
LEMMA OneCommand ==
    ASSUME ControlInv, Moves, NEW c \in Clerk, NEW x \in CmdState,
           cmd' = [cmd EXCEPT ![c] = x], Knows(x)',
           plist' \in BOOLEAN, loaded' \in BOOLEAN,
           loaded' /\ ~plist' => Blamed(x) \/ (loaded /\ ~plist /\ ~Blamed(cmd[c]))
    PROVE  ControlInv'
<1>1. cmd' \in [Clerk -> CmdState] /\ cmd'[c] = x /\ \A e \in Clerk \ {c} : cmd'[e] = cmd[e]
    BY DEF ControlInv, ControlTypes
<1>2. ASSUME NEW e \in Clerk PROVE Knows(cmd[e])'
  <2>1. CASE e = c
    BY <1>1, <2>1
  <2>2. CASE e # c
    BY <1>1, <2>2 DEF ControlInv, Knows, Moves, Gone
  <2> QED
    BY <2>1, <2>2
<1>3. loaded' /\ ~plist' => \E e \in Clerk : Blamed(cmd[e])'
    BY <1>1 DEF ControlInv, Blamed
<1> QED
    BY <1>1, <1>2, <1>3 DEF ControlInv, ControlTypes, Moves

\* One command goes on, and takes the temporary file from the others.
LEMMA TakesDraft ==
    ASSUME ControlInv, Moves, NEW c \in Clerk, NEW x \in CmdState, Control!Takes(c, x),
           Knows(x)', x.report \in {"failed", None},
           plist' \in BOOLEAN, UNCHANGED loaded, cmd[c].pc \in {"write", "place", "gone"},
           loaded' /\ ~plist' => loaded /\ ~plist
    PROVE  ControlInv'
<1>1. /\ DOMAIN cmd' = Clerk /\ cmd'[c] = x
      /\ \A e \in Clerk \ {c} :
            \/ cmd'[e] = cmd[e]
            \/ cmd[e].pc = "place" /\ cmd'[e] = [cmd[e] EXCEPT !.pc = "gone"]
    BY DEF Control!Takes, Control!At
<1>2. ASSUME NEW e \in Clerk \ {c}
      PROVE  /\ cmd'[e] \in CmdState /\ Knows(cmd[e])'
             /\ Blamed(cmd[e]) => Blamed(cmd'[e])
  <2>1. cmd[e] \in CmdState /\ Knows(cmd[e])
      BY DEF ControlInv, ControlTypes
  <2>2. CASE cmd'[e] = cmd[e]
      BY <2>1, <2>2 DEF Knows, Moves, Gone
  <2>3. CASE cmd[e].pc = "place" /\ cmd'[e] = [cmd[e] EXCEPT !.pc = "gone"]
    <3>1. /\ cmd'[e] \in CmdState /\ cmd'[e].pc = "gone" /\ cmd'[e].found = cmd[e].found
          /\ cmd'[e].new = cmd[e].new /\ cmd'[e].report = cmd[e].report
        BY <2>1, <2>3 DEF CmdState, Places
    <3>2. cmd[e].report = None
        BY <2>1, <2>3 DEF Knows
    <3> QED
        BY <2>1, <2>3, <3>1, <3>2 DEF Knows, Moves, Gone, Blamed
  <2> QED
      BY <1>1, <2>2, <2>3
<1>3. ~Blamed(cmd[c])
    BY DEF ControlInv, Knows, Blamed
<1>4. loaded' /\ ~plist' => \E e \in Clerk : Blamed(cmd'[e])
    BY <1>2, <1>3 DEF ControlInv
<1>5. ControlTypes'
  <2>1. cmd' \in [Clerk -> CmdState]
      BY <1>1, <1>2 DEF Control!Takes
  <2> QED
      BY <2>1 DEF ControlInv, ControlTypes, Moves
<1>6. \A e \in Clerk : Knows(cmd[e])'
    BY <1>1, <1>2
<1> QED
    BY <1>4, <1>5, <1>6 DEF ControlInv, Blamed

\* Nobody but the daemons and launchd moves.
LEMMA NoCommand ==
    ASSUME ControlInv, Moves, UNCHANGED <<cmd, plist, loaded>>
    PROVE  ControlInv'
<1>1. ASSUME NEW e \in Clerk PROVE Knows(cmd[e])'
    BY DEF ControlInv, Knows, Moves, Gone
<1> QED
    BY <1>1 DEF ControlInv, ControlTypes, Moves, Blamed

LEMMA CommandGoesOn ==
    ASSUME ControlInv, Moves, NEW c \in Clerk, NEW to \in Places \ {"idle", "done"},
           Control!Goes(c, to), cmd[c].pc # "done",
           to \in {"ask", "health", "check"} => cmd[c].found = None,
           to \in {"term", "vacate", "overdue"} => cmd[c].found # None,
           to \in {"probe", "spawn", "await", "confirm"} =>
               cmd[c].found = None \/ dst'[cmd[c].found] \in {"closing", "dead"},
           plist' \in BOOLEAN, loaded' \in BOOLEAN,
           loaded' /\ ~plist' =>
               to = "absent" \/ (loaded /\ ~plist /\ cmd[c].pc # "absent")
    PROVE  ControlInv'
<1> DEFINE x == [cmd[c] EXCEPT !.pc = to]
<1>1. cmd[c] \in CmdState /\ Knows(cmd[c])
    BY DEF ControlInv, ControlTypes
<1>2. /\ x \in CmdState /\ x.pc = to /\ x.found = cmd[c].found
      /\ x.report = cmd[c].report /\ x.new = cmd[c].new
    BY <1>1 DEF CmdState
<1>3. cmd' = [cmd EXCEPT ![c] = x]
    BY DEF Control!Goes
<1>4. x.report = None
    BY <1>1, <1>2 DEF Knows
<1>5. cmd'[c] = x
    BY <1>3 DEF ControlInv, ControlTypes
<1> HIDE DEF x
<1>6. Knows(cmd[c])'
    BY <1>1, <1>2, <1>4, <1>5 DEF Knows, Gone, Moves
<1>7. loaded' /\ ~plist' => Blamed(x) \/ (loaded /\ ~plist /\ ~Blamed(cmd[c]))
    BY <1>2, <1>4 DEF Blamed
<1> QED
    BY <1>2, <1>3, <1>5, <1>6, <1>7, OneCommand

LEMMA Says ==
    ASSUME ControlInv, Moves, NEW c \in Clerk, NEW what \in Said \ {"restarted"},
           Control!Reports(c, what), cmd[c].pc # "done",
           what = "stopped" =>
               cmd[c].found = None \/ dst'[cmd[c].found] \in {"closing", "dead"},
           plist' \in BOOLEAN, loaded' \in BOOLEAN,
           loaded' /\ ~plist' =>
               \/ what \in {"failed", "killed", "broken"}
               \/ loaded /\ ~plist /\ cmd[c].pc # "absent"
    PROVE  ControlInv'
<1> DEFINE x == [cmd[c] EXCEPT !.pc = "done", !.report = what]
<1>1. cmd[c] \in CmdState /\ Knows(cmd[c])
    BY DEF ControlInv, ControlTypes
<1>2. /\ x \in CmdState /\ x.pc = "done" /\ x.found = cmd[c].found
      /\ x.report = what /\ x.new = cmd[c].new
    BY <1>1 DEF CmdState, Places
<1>3. cmd' = [cmd EXCEPT ![c] = x]
    BY DEF Control!Reports
<1>4. cmd[c].report = None
    BY <1>1 DEF Knows
<1>5. cmd'[c] = x
    BY <1>3 DEF ControlInv, ControlTypes
<1> HIDE DEF x
<1>6. Knows(cmd[c])'
    BY <1>1, <1>2, <1>5 DEF Knows, Gone, Moves
<1>7. loaded' /\ ~plist' => Blamed(x) \/ (loaded /\ ~plist /\ ~Blamed(cmd[c]))
    BY <1>2, <1>4 DEF Blamed
<1> QED
    BY <1>2, <1>3, <1>5, <1>6, <1>7, OneCommand

LEMMA BeginsKeep ==
    ASSUME ControlInv, NEW c \in Clerk,
           Control!Begins(c) \/ Control!Interrupted(c)
    PROVE  ControlInv'
<1>1. Moves
    BY StaysMoves DEF ControlInv, Control!Begins, Control!Interrupted, Control!daemonVars
<1>2. cmd[c] \in CmdState /\ Knows(cmd[c])
    BY DEF ControlInv, ControlTypes
<1>3. CASE Control!Interrupted(c)
    BY <1>1, <1>2, <1>3, Says
       DEF ControlInv, ControlTypes, Control!Interrupted, Control!agentVars, Said
<1>4. CASE Control!Begins(c)
  <2>1. PICK job \in Jobs :
            cmd' = [cmd EXCEPT ![c].job = job, ![c].pc = Control!First(job)]
      BY <1>4 DEF Control!Begins
  <2>2. Control!First(job) \in {"probe", "ask", "health", "check"}
      BY DEF Control!First
  <2> DEFINE x == [cmd[c] EXCEPT !.job = job, !.pc = Control!First(job)]
  <2>3. cmd[c].found = None /\ cmd[c].report = None /\ cmd[c].pc = "idle"
      BY <1>2, <1>4 DEF Knows, Control!Begins, Control!At
  <2>4. /\ x \in CmdState /\ x.pc = Control!First(job) /\ x.found = None
        /\ x.report = None /\ cmd' = [cmd EXCEPT ![c] = x]
      BY <1>2, <2>1, <2>2, <2>3 DEF CmdState, Places
  <2>5. cmd'[c] = x
      BY <2>4 DEF ControlInv, ControlTypes
  <2> HIDE DEF x
  <2>6. Knows(cmd[c])'
      BY <2>2, <2>4, <2>5 DEF Knows
  <2> QED
      BY <1>1, <1>4, <2>3, <2>4, <2>5, <2>6, OneCommand
         DEF ControlInv, ControlTypes, Control!Begins, Control!agentVars, Blamed
<1> QED
    BY <1>3, <1>4

\* A command that finds a daemon, at the pc it then goes to.
LEMMA Finds ==
    ASSUME ControlInv, Moves, NEW c \in Clerk, NEW d \in Daemon, dst[d] # "starting",
           NEW to \in {"status", "term"},
           cmd' = [cmd EXCEPT ![c].pc = to, ![c].found = d],
           cmd[c].pc \in {"health", "ask"}, dst' = dst, UNCHANGED <<plist, loaded>>
    PROVE  ControlInv'
<1> DEFINE x == [cmd[c] EXCEPT !.pc = to, !.found = d]
<1>1. cmd[c] \in CmdState /\ Knows(cmd[c])
    BY DEF ControlInv, ControlTypes
<1>2. cmd[c].report = None /\ d # None
    BY <1>1 DEF Knows
<1>3. /\ x \in CmdState /\ x.pc = to /\ x.found = d /\ x.report = None
      /\ cmd' = [cmd EXCEPT ![c] = x]
  <2>1. to \in Places
      BY DEF Places
  <2>2. x \in CmdState /\ x.pc = to /\ x.found = d /\ x.report = None
      BY <1>1, <1>2, <2>1 DEF CmdState
  <2> QED
      BY <2>2
<1>4. cmd'[c] = x
    BY <1>3 DEF ControlInv, ControlTypes
<1> HIDE DEF x
<1>5. Knows(cmd[c])'
    BY <1>2, <1>3, <1>4 DEF Knows
<1>6. ~Blamed(cmd[c])
    BY <1>2 DEF Blamed
<1> QED
    BY <1>3, <1>4, <1>5, <1>6, OneCommand DEF ControlInv, ControlTypes

\* A command that reports a daemon as the one that runs now.
LEMMA Runs ==
    ASSUME ControlInv, Moves, NEW c \in Clerk, NEW d \in Daemon, Control!Listens(d),
           NEW what \in {"started", "restarted", "running"},
           cmd' = [cmd EXCEPT ![c].pc = "done", ![c].new = d, ![c].report = what],
           cmd[c].pc \in {"probe", "confirm"} \/ (cmd[c].pc = "status" /\ what = "running"),
           dst' = dst, UNCHANGED <<plist, loaded>>
    PROVE  ControlInv'
<1> DEFINE x == [cmd[c] EXCEPT !.pc = "done", !.new = d, !.report = what]
<1>1. cmd[c] \in CmdState /\ Knows(cmd[c])
    BY DEF ControlInv, ControlTypes
<1>2. cmd[c].report = None
    BY <1>1 DEF Knows
<1>3. /\ x \in CmdState /\ x.pc = "done" /\ x.found = cmd[c].found /\ x.new = d
      /\ x.report = what /\ cmd' = [cmd EXCEPT ![c] = x]
    BY <1>1 DEF CmdState, Places, Said
<1>4. cmd'[c] = x
    BY <1>3 DEF ControlInv, ControlTypes
<1>5. what = "restarted" => x.found # d /\ (x.found = None \/ Gone(x.found))
    BY <1>1, <1>3 DEF Knows, Gone, Control!Listens
<1> HIDE DEF x
<1>6. Knows(cmd[c])'
    BY <1>1, <1>3, <1>4, <1>5 DEF Knows, Gone
<1>7. ~Blamed(cmd[c])
    BY <1>2 DEF Blamed
<1> QED
    BY <1>3, <1>4, <1>6, <1>7, OneCommand DEF ControlInv, ControlTypes

LEMMA LooksKeep ==
    ASSUME ControlInv, NEW c \in Clerk,
           \/ Control!Health(c) \/ Control!Status(c) \/ Control!SeesStale(c)
           \/ Control!ProbeBreaks(c)
    PROVE  ControlInv'
<1>1. dst' = dst /\ UNCHANGED <<plist, loaded>>
    BY DEF Control!Health, Control!Status, Control!SeesStale, Control!ProbeBreaks,
           Control!daemonVars, Control!agentVars
<1>2. Moves
    BY <1>1, StaysMoves DEF ControlInv
<1>3. plist' \in BOOLEAN /\ loaded' \in BOOLEAN
    BY <1>1 DEF ControlInv, ControlTypes
<1>4. ASSUME NEW what \in Said \ {"restarted", "stopped"}, Control!Reports(c, what),
             cmd[c].pc \notin {"done", "absent"}
      PROVE  ControlInv'
    BY <1>1, <1>2, <1>3, <1>4, Says
<1>5. CASE Control!Health(c)
    BY <1>1, <1>2, <1>4, <1>5, Finds DEF Control!Health, Control!At, Control!Listens, Said
<1>6. CASE Control!Status(c)
    BY <1>1, <1>2, <1>4, <1>6, Runs DEF Control!Status, Control!At, Said
<1>7. CASE Control!SeesStale(c)
  <2>1. CASE Control!Goes(c, "ask")
      BY <1>1, <1>2, <1>3, <1>7, <2>1, CommandGoesOn
         DEF Control!SeesStale, Control!At, Places, ControlInv, Knows
  <2> QED
      BY <1>4, <1>7, <2>1 DEF Control!SeesStale, Control!At, Said
<1>8. CASE Control!ProbeBreaks(c)
    BY <1>4, <1>8 DEF Control!ProbeBreaks, Said
<1> QED
    BY <1>5, <1>6, <1>7, <1>8

\* What a stop does once nobody accepts.
LEMMA DownKeeps ==
    ASSUME ControlInv, NEW c \in Clerk, ~Control!Accepting, Control!Down(c),
           cmd[c].pc \in {"vacate", "overdue"},
           dst' = dst, UNCHANGED <<plist, loaded>>
    PROVE  ControlInv'
<1>1. Moves /\ Knows(cmd[c]) /\ plist \in BOOLEAN /\ loaded \in BOOLEAN
    BY StaysMoves DEF ControlInv, ControlTypes
<1>2. cmd[c].found = None \/ Gone(cmd[c].found)
    BY <1>1, FoundTypes DEF ControlInv, ControlTypes, Knows, Gone, Control!Accepting,
       Control!Listens, DaemonStates
<1>3. cmd[c].found = None \/ dst'[cmd[c].found] \in {"closing", "dead"}
    BY <1>2 DEF Gone
<1>4. CASE Control!Reports(c, "stopped")
    BY <1>1, <1>3, <1>4, Says DEF Said
<1>5. CASE Control!Goes(c, "probe")
    BY <1>1, <1>3, <1>5, CommandGoesOn DEF Places
<1> QED
    BY <1>4, <1>5 DEF Control!Down

LEMMA StopKeeps ==
    ASSUME ControlInv, NEW c \in Clerk, Control!StopStep(c)
    PROVE  ControlInv'
<1>1. Knows(cmd[c]) /\ plist \in BOOLEAN /\ loaded \in BOOLEAN
    BY DEF ControlInv, ControlTypes
<1>2. CASE Control!Asked(c)
  <2>1. dst' = dst /\ UNCHANGED <<plist, loaded>> /\ cmd[c].pc = "ask" /\ cmd[c].found = None
      BY <1>1, <1>2 DEF Control!Asked, Control!At, Control!daemonVars, Control!agentVars, Knows
  <2>2. Moves
      BY <2>1, StaysMoves DEF ControlInv
  <2>3. CASE Control!Reports(c, "not_running")
      BY <1>1, <2>1, <2>2, <2>3, Says DEF Said
  <2>4. CASE Control!Goes(c, "probe")
      BY <1>1, <2>1, <2>2, <2>4, CommandGoesOn DEF Places
  <2> QED
      BY <1>2, <2>1, <2>2, <2>3, <2>4, Finds DEF Control!Asked, Control!Listens
<1>3. CASE Control!Terms(c)
  <2>1. Moves
      BY <1>3, ToldMoves DEF ControlInv, Control!Terms
  <2> QED
      BY <1>1, <1>3, <2>1, CommandGoesOn
         DEF Control!Terms, Control!At, Control!agentVars, Places, Knows
<1>4. CASE Control!Vacated(c)
    BY <1>4, DownKeeps DEF Control!Vacated, Control!At, Control!daemonVars, Control!agentVars
<1>5. CASE Control!StopTimesOut(c)
  <2>1. Moves
      BY <1>5, StaysMoves DEF ControlInv, Control!StopTimesOut, Control!daemonVars
  <2> QED
      BY <1>1, <1>5, <2>1, CommandGoesOn
         DEF Control!StopTimesOut, Control!At, Control!agentVars, Places, Knows
<1>6. CASE Control!Kills(c)
  <2>1. Moves
      BY <1>6, ExitsMoves DEF ControlInv, Control!Kills
  <2> QED
      BY <1>1, <1>6, <2>1, Says DEF Control!Kills, Control!At, Control!Exits, Said
<1>7. CASE Control!KillsNobody(c)
  <2>1. dst' = dst /\ UNCHANGED <<plist, loaded>> /\ cmd[c].pc = "overdue"
      BY <1>7 DEF Control!KillsNobody, Control!At, Control!daemonVars, Control!agentVars
  <2>2. CASE Control!Reports(c, "failed")
      BY <1>1, <2>1, <2>2, StaysMoves, Says DEF ControlInv, Said
  <2> QED
      BY <1>7, <2>1, <2>2, DownKeeps DEF Control!KillsNobody
<1> QED
    BY <1>2, <1>3, <1>4, <1>5, <1>6, <1>7 DEF Control!StopStep

LEMMA StartKeeps ==
    ASSUME ControlInv, NEW c \in Clerk, Control!StartStep(c)
    PROVE  ControlInv'
<1>1. Knows(cmd[c]) /\ plist \in BOOLEAN /\ loaded \in BOOLEAN
    BY DEF ControlInv, ControlTypes
<1>2. UNCHANGED <<plist, loaded>> /\ cmd[c].pc \in {"probe", "spawn", "await", "confirm"}
    BY DEF Control!StartStep, Control!Probed, Control!Spawns, Control!SpawnFails,
       Control!Awaited, Control!Confirmed, Control!At, Control!agentVars
<1>3. cmd[c].found = None \/ Gone(cmd[c].found)
    BY <1>1, <1>2 DEF Knows
<1>4. Moves
  <2>1. CASE Control!Spawns(c)
      BY <2>1, SpawnMoves DEF ControlInv, Control!Spawns
  <2>2. CASE dst' = dst
      BY <2>2, StaysMoves DEF ControlInv
  <2> QED
      BY <2>1, <2>2 DEF Control!StartStep, Control!Probed, Control!SpawnFails,
         Control!Awaited, Control!Confirmed, Control!daemonVars
<1>5. cmd[c].found = None \/ dst'[cmd[c].found] \in {"closing", "dead"}
    BY <1>3, <1>4 DEF Moves
<1>6. ASSUME Control!Reports(c, "failed") PROVE ControlInv'
    BY <1>1, <1>2, <1>4, <1>6, Says DEF Said
<1>7. ASSUME NEW to \in {"spawn", "await", "confirm"}, Control!Goes(c, to) PROVE ControlInv'
    BY <1>1, <1>2, <1>4, <1>5, <1>7, CommandGoesOn DEF Places
<1>8. ASSUME NEW d \in Daemon, Control!Listens(d), Control!Running(c, d), dst' = dst,
             cmd[c].pc \in {"probe", "confirm"}
      PROVE  ControlInv'
    BY <1>2, <1>4, <1>8, Runs DEF Control!Running
<1>9. CASE Control!Probed(c)
    BY <1>7, <1>8, <1>9 DEF Control!Probed, Control!At, Control!daemonVars
<1>10. CASE Control!Spawns(c) \/ Control!SpawnFails(c) \/ Control!Awaited(c)
    BY <1>6, <1>7, <1>10 DEF Control!Spawns, Control!SpawnFails, Control!Awaited
<1>11. CASE Control!Confirmed(c)
    BY <1>6, <1>8, <1>11 DEF Control!Confirmed, Control!At, Control!daemonVars
<1> QED
    BY <1>9, <1>10, <1>11 DEF Control!StartStep

LEMMA LaunchctlMoves ==
    ASSUME ControlInv, Control!Loaded \/ Control!Unloaded
    PROVE  Moves /\ plist' \in BOOLEAN /\ loaded' \in BOOLEAN /\ (loaded' => plist')
<1>1. CASE Control!Loaded
    BY <1>1, SpawnMoves DEF ControlInv, ControlTypes, Control!Loaded
<1>2. CASE Control!Unloaded
    BY <1>2, ToldMoves, StaysMoves DEF ControlInv, ControlTypes, Control!Unloaded
<1> QED
    BY <1>1, <1>2

LEMMA ChecksKeep ==
    ASSUME ControlInv, NEW c \in Clerk,
           Control!ChecksToInstall(c) \/ Control!ChecksToRemove(c) \/ Control!Offers(c)
    PROVE  ControlInv'
<1>1. cmd[c] \in CmdState /\ Knows(cmd[c]) /\ plist \in BOOLEAN /\ loaded \in BOOLEAN
    BY DEF ControlInv, ControlTypes
<1>2. dst' = dst /\ UNCHANGED <<plist, loaded>> /\ cmd[c].pc = "check"
    BY DEF Control!ChecksToInstall, Control!ChecksToRemove, Control!Offers, Control!At,
       Control!daemonVars, Control!agentVars
<1>3. Moves
    BY <1>2, StaysMoves DEF ControlInv
<1>4. ASSUME NEW what \in {"already", "absent"}, Control!Reports(c, what) PROVE ControlInv'
    BY <1>1, <1>2, <1>3, <1>4, Says DEF Said
<1>5. CASE Control!Goes(c, "remove")
    BY <1>1, <1>2, <1>3, <1>5, CommandGoesOn DEF Places
<1>6. ASSUME NEW x \in CmdState, cmd' = [cmd EXCEPT ![c] = x], x.report = None,
             x.found = None, x.pc \in {"write", "check"}
      PROVE  ControlInv'
  <2>1. Knows(x)'
      BY <1>6 DEF Knows
  <2>2. ~Blamed(cmd[c])
      BY <1>1, <1>2 DEF Blamed, Knows
  <2> QED
      BY <1>1, <1>2, <1>3, <1>6, <2>1, <2>2, OneCommand
<1>7. cmd[c].found = None /\ cmd[c].report = None
    BY <1>1, <1>2 DEF Knows
<1>8. CASE cmd' = [cmd EXCEPT ![c].pc = "write", ![c].existed = plist]
  <2> DEFINE x == [cmd[c] EXCEPT !.pc = "write", !.existed = plist]
  <2>1. /\ x \in CmdState /\ x.report = None /\ x.found = None /\ x.pc = "write"
        /\ cmd' = [cmd EXCEPT ![c] = x]
      BY <1>1, <1>7, <1>8 DEF CmdState, Places
  <2> HIDE DEF x
  <2> QED
      BY <2>1, <1>6
<1>9. CASE cmd' = [cmd EXCEPT ![c].job = "force"]
  <2> DEFINE x == [cmd[c] EXCEPT !.job = "force"]
  <2>1. /\ x \in CmdState /\ x.report = None /\ x.found = None /\ x.pc = "check"
        /\ cmd' = [cmd EXCEPT ![c] = x]
      BY <1>1, <1>2, <1>7, <1>9 DEF CmdState
  <2> HIDE DEF x
  <2> QED
      BY <2>1, <1>6
<1> QED
    BY <1>4, <1>5, <1>8, <1>9
       DEF Control!ChecksToInstall, Control!ChecksToRemove, Control!Offers

LEMMA AgentKeeps ==
    ASSUME ControlInv, NEW c \in Clerk, Control!AgentStep(c)
    PROVE  ControlInv'
<1>1. Knows(cmd[c]) /\ plist \in BOOLEAN /\ loaded \in BOOLEAN
    BY DEF ControlInv, ControlTypes
<1>2. CASE Control!ChecksToInstall(c) \/ Control!ChecksToRemove(c) \/ Control!Offers(c)
    BY <1>2, ChecksKeep
<1>3. ASSUME UNCHANGED <<dst, plist, loaded>> PROVE Moves
    BY <1>3, StaysMoves DEF ControlInv
<1>4. ASSUME Moves, NEW to \in {"place", "verify", "load", "unlink", "absent"},
             Control!Goes(c, to), plist' \in BOOLEAN, loaded' \in BOOLEAN,
             cmd[c].pc # "done",
             loaded' /\ ~plist' => to = "absent" \/ (loaded /\ ~plist /\ cmd[c].pc # "absent")
      PROVE  ControlInv'
    BY <1>4, CommandGoesOn DEF Places
<1>5. ASSUME Moves, NEW what \in {"failed", "installed", "removed", "broken"},
             Control!Reports(c, what), plist' \in BOOLEAN, loaded' \in BOOLEAN,
             cmd[c].pc # "done",
             loaded' /\ ~plist' =>
                 what \in {"failed", "broken"} \/ (loaded /\ ~plist /\ cmd[c].pc # "absent")
      PROVE  ControlInv'
    BY <1>5, Says DEF Said
<1>6. CASE Control!WritesTemp(c)
  <2>1. Moves /\ UNCHANGED <<plist, loaded>>
      BY <1>6, StaysMoves
         DEF ControlInv, Control!WritesTemp, Control!daemonVars, Control!agentVars
  <2> QED
      BY <1>1, <1>4, <1>6, <2>1 DEF Control!WritesTemp, Control!At
<1>13. cmd[c] \in CmdState
    BY DEF ControlInv, ControlTypes
<1>14. CASE Control!Writes(c)
  <2>1. /\ Moves /\ cmd[c].pc = "place" /\ plist' = TRUE /\ UNCHANGED loaded
      BY <1>14, StaysMoves DEF ControlInv, Control!Writes, Control!daemonVars, Control!At
  <2>2. PICK to \in {"unload", "load"} : Control!Takes(c, [cmd[c] EXCEPT !.pc = to])
      BY <1>14 DEF Control!Writes
  <2>5. PICK x : x = [cmd[c] EXCEPT !.pc = to]
      OBVIOUS
  <2>3. /\ x \in CmdState /\ x.pc = to /\ x.found = cmd[c].found /\ x.new = cmd[c].new
        /\ x.report = cmd[c].report /\ cmd[c].report = None
      BY <1>1, <1>13, <2>1, <2>5 DEF CmdState, Places, Knows
  <2>4. Knows(x)'
      BY <1>1, <2>1, <2>2, <2>3 DEF Knows, Moves
  <2> QED
      BY <2>1, <2>2, <2>3, <2>4, <2>5, TakesDraft
<1>15. CASE Control!WriteFails(c)
  <2>1. /\ Moves /\ cmd[c].pc \in {"write", "place", "gone"} /\ UNCHANGED <<plist, loaded>>
      BY <1>15, StaysMoves
         DEF ControlInv, Control!WriteFails, Control!daemonVars, Control!agentVars, Control!At
  <2>5. PICK x : x = [cmd[c] EXCEPT !.pc = "done", !.report = "failed"]
      OBVIOUS
  <2>2. Control!Takes(c, x)
      BY <1>15, <2>5 DEF Control!WriteFails, Control!Failed
  <2>3. /\ x \in CmdState /\ x.pc = "done" /\ x.found = cmd[c].found /\ x.new = cmd[c].new
        /\ x.report = "failed"
      BY <1>13, <2>5 DEF CmdState, Places, Said
  <2>4. Knows(x)'
      BY <1>1, <2>1, <2>3 DEF Knows, Moves
  <2> QED
      BY <1>1, <2>1, <2>2, <2>3, <2>4, TakesDraft
<1>7. CASE Control!Verifies(c) \/ Control!SeesAbsent(c)
  <2>1. UNCHANGED <<dst, plist, loaded>> /\ cmd[c].pc \in {"verify", "absent"}
      BY <1>7 DEF Control!Verifies, Control!SeesAbsent, Control!At,
         Control!daemonVars, Control!agentVars
  <2>2. /\ Control!Verifies(c) => Control!Reports(c, IF loaded THEN "installed" ELSE "failed")
        /\ Control!SeesAbsent(c) => Control!Reports(c, IF loaded THEN "failed" ELSE "removed")
      BY DEF Control!Verifies, Control!SeesAbsent
  <2>3. PICK what \in {"failed", "installed", "removed"} :
            Control!Reports(c, what) /\ (what # "failed" /\ loaded => cmd[c].pc # "absent")
    <3>2. CASE Control!Verifies(c)
        BY <2>2, <3>2 DEF Control!Verifies, Control!At
    <3>3. CASE Control!SeesAbsent(c)
        BY <2>2, <3>3
    <3> QED
        BY <1>7, <3>2, <3>3
  <2> QED
      BY <1>1, <1>3, <1>5, <2>1, <2>3
<1>8. CASE Control!Unloads(c)
  <2>1. /\ Moves /\ plist' \in BOOLEAN /\ loaded' \in BOOLEAN
        /\ loaded' /\ ~plist' => loaded /\ ~plist
      BY <1>1, <1>3, <1>8, LaunchctlMoves
         DEF Control!Unloads, Control!daemonVars, Control!agentVars
  <2> QED
      BY <1>4, <1>8, <2>1 DEF Control!Unloads, Control!At
<1>9. CASE Control!Loads(c)
  <2>1. /\ Moves /\ plist' \in BOOLEAN /\ loaded' \in BOOLEAN
        /\ loaded' /\ ~plist' => loaded /\ ~plist
      BY <1>1, <1>3, <1>9, LaunchctlMoves
         DEF Control!Loads, Control!daemonVars, Control!agentVars
  <2> QED
      BY <1>4, <1>5, <1>9, <2>1 DEF Control!Loads, Control!At
<1>10. CASE Control!Removes(c)
  <2>1. /\ Moves /\ plist' \in BOOLEAN /\ loaded' \in BOOLEAN
        /\ loaded' /\ ~plist' => loaded /\ ~plist
      BY <1>1, <1>3, <1>10, LaunchctlMoves
         DEF Control!Removes, Control!daemonVars, Control!agentVars
  <2> QED
      BY <1>4, <1>5, <1>10, <2>1 DEF Control!Removes, Control!At
<1>11. CASE Control!Hangs(c)
  <2>1. Moves /\ plist' \in BOOLEAN /\ loaded' \in BOOLEAN
      BY <1>1, <1>3, <1>11, LaunchctlMoves
         DEF Control!Hangs, Control!daemonVars, Control!agentVars
  <2> QED
      BY <1>5, <1>11, <2>1 DEF Control!Hangs
<1>12. CASE Control!Unlinks(c)
  <2>1. Moves
      BY <1>12, StaysMoves DEF ControlInv, Control!Unlinks, Control!daemonVars
  <2> QED
      BY <1>1, <1>4, <1>5, <1>12, <2>1 DEF Control!Unlinks, Control!At
<1> QED
    BY <1>2, <1>6, <1>7, <1>8, <1>9, <1>10, <1>11, <1>12, <1>14, <1>15 DEF Control!AgentStep

LEMMA DaemonKeeps ==
    ASSUME ControlInv, NEW d \in Daemon,
           \/ Control!ComesUp(d) \/ Control!Closing(d) \/ Control!Leaves(d)
           \/ Control!Crashes(d) \/ Control!Restarts(d) \/ Control!LazySpawns(d)
    PROVE  ControlInv'
<1>1. UNCHANGED <<cmd, plist, loaded>>
    BY DEF Control!ComesUp, Control!Closing, Control!Leaves, Control!Crashes,
       Control!Restarts, Control!LazySpawns, Control!Exits, Control!agentVars
<1>2. CASE Control!ComesUp(d) \/ Control!Closing(d)
  <2>1. ASSUME \E zero \in BOOLEAN : Control!Exits(d, zero) PROVE Moves
      BY <2>1, ExitsMoves DEF ControlInv
  <2>2. ASSUME dst[d] = "starting", dst' = [dst EXCEPT ![d] = "up"] PROVE Moves
      BY <2>2, FoundTypes DEF ControlInv, ControlTypes, Moves, Gone, DaemonStates
  <2>3. ASSUME dst' = [dst EXCEPT ![d] = "closing"] PROVE Moves
      BY <2>3, FoundTypes DEF ControlInv, ControlTypes, Moves, Gone, DaemonStates
  <2>4. Moves
      BY <1>2, <2>1, <2>2, <2>3 DEF Control!ComesUp, Control!Closing
  <2> QED
      BY <1>1, <2>4, NoCommand
<1>3. CASE Control!Leaves(d) \/ Control!Crashes(d)
    BY <1>1, <1>3, ExitsMoves, NoCommand DEF ControlInv, Control!Leaves, Control!Crashes
<1>4. CASE Control!Restarts(d) \/ Control!LazySpawns(d)
    BY <1>1, <1>4, SpawnMoves, NoCommand DEF ControlInv, Control!Restarts, Control!LazySpawns
<1> QED
    BY <1>2, <1>3, <1>4

LEMMA ControlInvInit == Control!ControlInit => ControlInv
<1> SUFFICES ASSUME Control!ControlInit PROVE ControlInv
    OBVIOUS
<1>1. ControlTypes
    BY DEF Control!ControlInit, Control!Idle, ControlTypes, DaemonStates, CmdState, Places
<1>2. ASSUME NEW c \in Clerk PROVE Knows(cmd[c])
    BY <1>2 DEF Control!ControlInit, Control!Idle, Knows
<1> QED
    BY <1>1, <1>2 DEF Control!ControlInit, ControlInv

LEMMA ControlInvNext == ControlInv /\ [Control!ControlNext]_controlVars => ControlInv'
<1> SUFFICES ASSUME ControlInv, [Control!ControlNext]_controlVars PROVE ControlInv'
    OBVIOUS
<1>1. CASE UNCHANGED controlVars
    BY <1>1, StaysMoves, NoCommand DEF ControlInv, controlVars
<1>2. CASE Control!ControlNext
    BY <1>2, BeginsKeep, LooksKeep, StopKeeps, StartKeeps, AgentKeeps, DaemonKeeps
       DEF Control!ControlNext
<1> QED
    BY <1>1, <1>2

LEMMA ReportsHold == ControlInv => ReportsAreTrue
<1> SUFFICES ASSUME ControlInv PROVE Control!StopsForGood /\ Control!OrphanIsReported
    BY DEF ReportsAreTrue
<1>1. ASSUME NEW c \in Clerk, cmd[c].report \in {"stopped", "restarted"}
      PROVE  /\ cmd[c].found # None => dst[cmd[c].found] \in {"closing", "dead"}
             /\ cmd[c].report = "restarted" => cmd[c].new # cmd[c].found
    BY <1>1 DEF ControlInv, Knows, Gone
<1>2. Control!OrphanIsReported
    BY DEF ControlInv, Blamed, Control!OrphanIsReported
<1> QED
    BY <1>1, <1>2 DEF Control!StopsForGood

\* Whatever spawns, crashes, hangs and times out meanwhile, a daemon reported
\* stopped or replaced never listens again, and an agent left without its plist
\* was left by a command that said it failed (daemon.py:553-754).
THEOREM ReportsHoldAlways == Spec => []ReportsAreTrue
<1>1. Init => ControlInv
    BY ControlInvInit DEF Init
<1>2. ControlInv /\ [Next]_vars => ControlInv'
    BY ControlInvNext DEF Next, vars
<1> QED
    BY <1>1, <1>2, ReportsHold, PTL DEF Spec

-----------------------------------------------------------------------------
(* The log's follower *)

\* While the follower reads or waits, what it compares with is the file it holds.
LogInv == fpc \in {"reading", "polling", "reopening"} => inode = fh

LEMMA LogInvNext == LogInv /\ [Log!LogNext]_logVars => LogInv'
<1> SUFFICES ASSUME LogInv, [Log!LogNext]_logVars PROVE LogInv'
    OBVIOUS
<1> USE DEF LogInv
<1>1. ASSUME NEW w \in Clerk,
             \/ Log!Configures(w) \/ Log!RollsOver(w) \/ Log!Renames(w)
             \/ Log!Reopens(w) \/ Log!Exits(w)
      PROVE  LogInv'
    BY <1>1 DEF Log!Configures, Log!RollsOver, Log!Renames, Log!Reopens, Log!Exits,
       Log!OpensToAppend, Log!followerVars
<1>2. CASE Log!Prints \/ Log!Appears \/ Log!OpensLog
    BY <1>2 DEF Log!Prints, Log!Appears, Log!OpensLog, Log!Goes
<1>3. CASE Log!StatsHandle \/ Log!Polls \/ Log!Compares
    BY <1>3 DEF Log!StatsHandle, Log!Polls, Log!Compares, Log!Goes
<1>4. CASE Log!ReopensLog \/ Log!Interrupts
    BY <1>4 DEF Log!ReopensLog, Log!Interrupts, Log!Goes
<1>5. CASE UNCHANGED logVars
    BY <1>5 DEF logVars
<1> QED
    BY <1>1, <1>2, <1>3, <1>4, <1>5 DEF Log!LogNext

\* However often the log is rotated under the follower, the inode it compares the
\* name with is that of the file it holds (daemon.py:1057-1107).
THEOREM RotationIsAlwaysNoticed == Spec => []RotationIsNoticed
<1>1. Init => LogInv
    BY DEF Init, Log!LogInit, LogInv
<1>2. LogInv /\ [Next]_vars => LogInv'
  <2>1. [Next]_vars => [Log!LogNext]_logVars
    BY DEF Next, vars, logVars
  <2> QED
    BY <2>1, LogInvNext
<1>3. LogInv => RotationIsNoticed
    BY DEF LogInv, RotationIsNoticed, Log!RotationIsNoticed
<1> QED
    BY <1>1, <1>2, <1>3, PTL DEF Spec

-----------------------------------------------------------------------------
(* The commands that write the registry *)

Good(reg) == reg \in Registry /\ Sound(reg)

PcSet == {"idle", "validate", "gate", "toggle", "read", "download", "open", "fill",
          "replace", "rmtree", "warm", "done"}

TaskState == [order : Order \cup {None}, pc : PcSet, alias : Alias \cup {None},
              role : Role \cup {None}, copy : Registry \cup {None},
              report : Report \cup {None}]

TempState == Registry \cup {Torn, None}

\* A command that may write holds a good copy; its temporary file is its own, and
\* is complete before it replaces the registry.
Fine(t, x) ==
    /\ t.pc # "idle" => t.order \in Order /\ t.alias \in Alias /\ t.role \in Role
    /\ t.pc \in {"validate", "gate", "toggle"} => t.order # "pull"
    /\ t.pc \in {"open", "fill", "replace"} => Good(t.copy)
    /\ t.pc = "download" /\ t.order = "pull" => Good(t.copy)
    /\ t.pc = "replace" => x = t.copy
    /\ x # None => t.pc \in {"fill", "replace"} \/ t.report \in {"killed", "failed"}
    /\ t.report \in {"killed", "failed"} => t.pc = "done"

RegistryInv ==
    /\ Good(toml)
    /\ temp \in [Clerk -> TempState]
    /\ task \in [Clerk -> TaskState]
    /\ \A p \in Clerk : Fine(task[p], temp[p])

USE RegistryAssumptions
-----------------------------------------------------------------------------
(* What the edits make of a registry *)

LEMMA UpsertFacts ==
    ASSUME NEW reg, Good(reg), NEW a \in Alias, NEW role \in Role
    PROVE  Good(Upsert(reg, a, role)) /\ Registered(Upsert(reg, a, role), a)
BY DEF Good, Upsert, Sound, Registered, Registry, Role

LEMMA RemovedFacts ==
    ASSUME NEW reg, Good(reg), NEW a \in Alias
    PROVE  Good(Removed(reg, a))
BY DEF Good, Removed, Sound, Registered, Registry

LEMMA DefaultFacts ==
    ASSUME NEW reg, Good(reg), NEW a \in Alias, Registered(reg, a)
    PROVE  Good(DefaultFor(reg, a))
BY DEF Good, DefaultFor, Sound, Registered, Registry

LEMMA AddedFacts ==
    ASSUME NEW reg, Good(reg), NEW a \in Alias, NEW role \in Role
    PROVE  Good(Added(reg, a, role))
BY UpsertFacts, DefaultFacts DEF Added

-----------------------------------------------------------------------------
(* A step changes the task and the temporary file of one process *)

LEMMA OneClerk ==
    ASSUME RegistryInv, NEW p \in Clerk, NEW t \in TaskState, NEW x \in TempState,
           task' = [task EXCEPT ![p] = t], temp' = [temp EXCEPT ![p] = x],
           Fine(t, x), Good(toml')
    PROVE  RegistryInv'
BY DEF RegistryInv

LEMMA TaskOnly ==
    ASSUME RegistryInv, NEW p \in Clerk, NEW t \in TaskState,
           task' = [task EXCEPT ![p] = t], Fine(t, temp[p]), UNCHANGED <<temp, toml>>
    PROVE  RegistryInv'
BY DEF RegistryInv

\* A task that goes on to a place where nothing is asked of its copy.
LEMMA GoesOn ==
    ASSUME RegistryInv, NEW p \in Clerk, NEW to \in PcSet \ {"idle", "open", "fill", "replace"},
           Goes(p, to), UNCHANGED <<temp, toml>>,
           task[p].pc \notin {"idle", "fill", "replace", "done"},
           to \in {"validate", "gate", "toggle", "download"} => task[p].order # "pull"
    PROVE  RegistryInv'
<1> DEFINE t == [task[p] EXCEPT !.pc = to]
<1>1. task[p] \in TaskState /\ Fine(task[p], temp[p])
    BY DEF RegistryInv
<1>2. t \in TaskState /\ Fine(t, temp[p])
    BY <1>1 DEF TaskState, Fine
<1>3. task' = [task EXCEPT ![p] = t]
    BY DEF Goes
<1> QED
    BY <1>2, <1>3, TaskOnly

\* A task that ends elsewhere than within write_registry.
LEMMA EndsHere ==
    ASSUME RegistryInv, NEW p \in Clerk, NEW how \in Report,
           Ends(p, how), UNCHANGED <<temp, toml>>,
           task[p].pc \notin {"idle", "done"},
           task[p].pc \in {"fill", "replace"} => how = "killed"
    PROVE  RegistryInv'
<1> DEFINE t == [task[p] EXCEPT !.pc = "done", !.report = how]
<1>1. task[p] \in TaskState /\ Fine(task[p], temp[p])
    BY DEF RegistryInv
<1>2. t \in TaskState
    BY <1>1 DEF TaskState, PcSet
<1>3. Fine(t, temp[p])
    BY <1>1 DEF Fine, TaskState
<1>4. task' = [task EXCEPT ![p] = t]
    BY DEF Ends
<1> QED
    BY <1>2, <1>3, <1>4, TaskOnly

\* A task that keeps a good registry, to write it.
LEMMA KeepsGood ==
    ASSUME RegistryInv, NEW p \in Clerk, NEW reg, Good(reg),
           NEW to \in {"open", "download"}, Keeps(p, reg, to), task[p].pc = "read"
    PROVE  RegistryInv'
<1> DEFINE t == [task[p] EXCEPT !.copy = reg, !.pc = to]
<1>1. task[p] \in TaskState /\ Fine(task[p], temp[p])
    BY DEF RegistryInv
<1>2. t \in TaskState
    BY <1>1 DEF TaskState, PcSet, Good
<1>3. Fine(t, temp[p])
    BY <1>1, <1>2 DEF TaskState, Fine
<1>4. task' = [task EXCEPT ![p] = t] /\ UNCHANGED <<temp, toml>>
    BY DEF Keeps
<1> QED
    BY <1>2, <1>3, <1>4, TaskOnly

-----------------------------------------------------------------------------
(* The steps of a command *)

LEMMA ActiveClerk ==
    ASSUME RegistryInv, NEW p \in Clerk, task[p].pc # "idle"
    PROVE  /\ task[p] \in TaskState
           /\ task[p].order \in Order /\ task[p].alias \in Alias /\ task[p].role \in Role
           /\ Good(toml)
BY DEF RegistryInv, Fine

LEMMA PrepareStep ==
    ASSUME RegistryInv, NEW p \in Clerk,
           \/ Takes(p) \/ Validates(p) \/ LookupFails(p) \/ Gates(p) \/ TurnsOn(p) \/ TurnsOff(p)
           \/ Downloads(p) \/ Prepares(p) \/ DownloadFails(p)
    PROVE  RegistryInv'
<1>1. CASE Takes(p)
  <2>1. PICK order \in Order, a \in Alias, role \in Role :
            task' = [task EXCEPT ![p] =
                [NoTask EXCEPT !.order = order, !.alias = a, !.role = role, !.pc = First(order)]]
    BY <1>1 DEF Takes
  <2> DEFINE t == [NoTask EXCEPT !.order = order, !.alias = a, !.role = role, !.pc = First(order)]
  <2>a. /\ First(order) \in {"validate", "toggle", "download", "read"}
        /\ First(order) = "download" => order = "prepare"
        /\ First(order) \in {"validate", "toggle"} => order # "pull"
    BY DEF First
  <2>b. task' = [task EXCEPT ![p] = t] /\ task[p].pc = "idle" /\ UNCHANGED <<temp, toml>>
    BY <1>1, <2>1 DEF Takes
  <2>2. t \in TaskState
    BY <2>a DEF TaskState, NoTask, PcSet
  <2>3. temp[p] = None
    BY <2>b DEF RegistryInv, Fine
  <2>4. Fine(t, temp[p])
    <3>1. /\ t.order \in Order /\ t.alias \in Alias /\ t.role \in Role
          /\ t.report = None /\ t.pc = First(order) /\ t.order = order
        BY DEF NoTask
    <3>2. t.report # "killed"
        BY <3>1 DEF Report
    <3> QED
        BY <2>a, <2>3, <3>1, <3>2 DEF Fine
  <2> QED
    BY <2>b, <2>2, <2>4, TaskOnly
<1>a. task[p].pc \in {"validate", "gate", "toggle"} => task[p].order # "pull"
    BY DEF RegistryInv, Fine
<1>2. CASE Validates(p)
  <2>1. CASE task[p].order = "add"
    BY <1>2, <2>1, GoesOn DEF Validates, PcSet
  <2>2. CASE task[p].order # "add"
    BY <1>2, <1>a, <2>2, GoesOn DEF Validates, PcSet
  <2> QED
    BY <2>1, <2>2
<1>3. CASE LookupFails(p)
    BY <1>3, EndsHere DEF LookupFails, Report
<1>4. CASE Gates(p)
    BY <1>4, <1>a, EndsHere, GoesOn DEF Gates, PcSet, Report
<1>5. CASE TurnsOn(p)
    BY <1>5, <1>a, EndsHere, GoesOn DEF TurnsOn, PcSet, Report
<1>6. CASE TurnsOff(p)
    BY <1>6, EndsHere DEF TurnsOff, Report
<1>7. CASE Downloads(p)
  <2>1. CASE Goes(p, "warm")
    BY <1>7, <2>1, GoesOn DEF Downloads, PcSet
  <2>2. CASE Goes(p, "read")
    BY <1>7, <2>2, GoesOn DEF Downloads, PcSet
  <2>3. CASE task[p].order = "pull" /\ Goes(p, "open")
    <3> DEFINE t == [task[p] EXCEPT !.pc = "open"]
    <3>1. task[p] \in TaskState /\ Fine(task[p], temp[p]) /\ task[p].pc = "download"
        BY <1>7 DEF RegistryInv, Downloads
    <3>2. t \in TaskState
        BY <3>1 DEF TaskState, PcSet
    <3>3. Fine(t, temp[p])
        BY <2>3, <3>1 DEF TaskState, Fine
    <3>4. task' = [task EXCEPT ![p] = t] /\ UNCHANGED <<temp, toml>>
        BY <1>7, <2>3 DEF Downloads, Goes
    <3> QED
        BY <3>2, <3>3, <3>4, TaskOnly
  <2> QED
    BY <1>7, <2>1, <2>2, <2>3 DEF Downloads
<1>8. CASE Prepares(p)
    BY <1>8, GoesOn DEF Prepares, PcSet
<1>9. CASE DownloadFails(p)
    BY <1>9, EndsHere DEF DownloadFails, Report
<1> QED
    BY <1>1, <1>2, <1>3, <1>4, <1>5, <1>6, <1>7, <1>8, <1>9

LEMMA ReadStep ==
    ASSUME RegistryInv, NEW p \in Clerk,
           \/ ReadsToAdd(p) \/ ReadsToSetUp(p) \/ IsUnknown(p) \/ ReadsToDefault(p)
           \/ ReadsToRemove(p) \/ ReadsToPull(p) \/ ReadsToSwitch(p)
    PROVE  RegistryInv'
<1> DEFINE a == task[p].alias
<1>0. task[p].pc = "read"
    BY DEF ReadsToAdd, ReadsToSetUp, IsUnknown, ReadsToDefault, ReadsToRemove, ReadsToPull,
           ReadsToSwitch, Reads
<1>a. a \in Alias /\ task[p].role \in Role /\ Good(toml)
    BY <1>0, ActiveClerk
<1>1. CASE ReadsToAdd(p)
    BY <1>0, <1>1, <1>a, AddedFacts, KeepsGood DEF ReadsToAdd
<1>2. CASE ReadsToSetUp(p)
  <2>1. Good(DefaultFor(Upsert(toml, a, "chat"), a))
    BY <1>a, UpsertFacts, DefaultFacts DEF Role
  <2> QED
    BY <1>0, <1>2, <2>1, KeepsGood DEF ReadsToSetUp
<1>3. CASE IsUnknown(p)
    BY <1>0, <1>3, EndsHere DEF IsUnknown, Stops, Report
<1>4. CASE ReadsToDefault(p)
    BY <1>0, <1>4, <1>a, DefaultFacts, KeepsGood DEF ReadsToDefault
<1>5. CASE ReadsToRemove(p)
    BY <1>0, <1>5, <1>a, RemovedFacts, KeepsGood DEF ReadsToRemove
<1>6. CASE ReadsToPull(p)
    BY <1>0, <1>6, <1>a, KeepsGood DEF ReadsToPull
<1>7. CASE ReadsToSwitch(p)
  <2>1. toml.models[a] = "chat" => Good(DefaultFor(toml, a))
    BY <1>a, DefaultFacts DEF Registered, Role
  <2> QED
    BY <1>0, <1>7, <2>1, KeepsGood, EndsHere DEF ReadsToSwitch, Stops, Report
<1> QED
    BY <1>1, <1>2, <1>3, <1>4, <1>5, <1>6, <1>7

LEMMA WriteStep ==
    ASSUME RegistryInv, NEW p \in Clerk,
           OpensTemp(p) \/ Fills(p) \/ Replaces(p) \/ WriteRaises(p)
    PROVE  RegistryInv'
<1>0. task[p].pc \in {"open", "fill", "replace"}
    BY DEF OpensTemp, Fills, Replaces, WriteRaises
<1>a. /\ task[p] \in TaskState /\ Fine(task[p], temp[p]) /\ Good(toml)
      /\ task[p].copy \in Registry /\ Good(task[p].copy)
    BY <1>0 DEF RegistryInv, Fine, Good
<1> DEFINE at(to) == [task[p] EXCEPT !.pc = to]
           ended(how) == [task[p] EXCEPT !.pc = "done", !.report = how]
<1>b. /\ \A to \in PcSet : at(to) \in TaskState
      /\ \A how \in {"ok", "failed"} : ended(how) \in TaskState
    BY <1>a DEF TaskState, PcSet, Report
<1>c. {None, Torn, task[p].copy} \subseteq TempState
    BY <1>a DEF TempState
<1>1. CASE OpensTemp(p)
  <2>1. Fine(at("fill"), Torn)
    BY <1>0, <1>a DEF Fine, TaskState
  <2> QED
    BY <1>1, <1>a, <1>b, <1>c, <2>1, OneClerk DEF OpensTemp, Goes, TempOf, PcSet
<1>2. CASE Fills(p)
  <2>1. Fine(at("replace"), task[p].copy)
    BY <1>0, <1>a DEF Fine, TaskState
  <2> QED
    BY <1>2, <1>a, <1>b, <1>c, <2>1, OneClerk DEF Fills, Goes, TempOf, PcSet
<1>3. CASE Replaces(p)
  <2>1. \A to \in {"rmtree", "warm"} : Fine(at(to), None)
    BY <1>0, <1>a DEF Fine, TaskState
  <2>2. Fine(ended("ok"), None)
    BY <1>0, <1>a DEF Fine, TaskState
  <2>3. Good(toml')
    BY <1>3, <1>a DEF Replaces, TempOf, Fine
  <2>4. \/ task' = [task EXCEPT ![p] = at("rmtree")]
        \/ task' = [task EXCEPT ![p] = at("warm")]
        \/ task' = [task EXCEPT ![p] = ended("ok")]
    BY <1>3 DEF Replaces, Goes, Ends
  <2>5. temp' = [temp EXCEPT ![p] = None]
    BY <1>3 DEF Replaces, TempOf
  <2> QED
    BY <1>b, <1>c, <2>1, <2>2, <2>3, <2>4, <2>5, OneClerk DEF PcSet
<1>4. CASE WriteRaises(p)
  <2>1. Fine(ended("failed"), None) /\ Fine(ended("failed"), temp[p])
    BY <1>0, <1>a DEF Fine, TaskState
  <2>2. task' = [task EXCEPT ![p] = ended("failed")]
    BY <1>4 DEF WriteRaises, Ends
  <2>3. Good(toml') /\ temp' \in {temp, [temp EXCEPT ![p] = None]}
    BY <1>4, <1>a DEF WriteRaises, TempOf
  <2>4. temp[p] \in TempState /\ temp = [temp EXCEPT ![p] = temp[p]]
    BY DEF RegistryInv
  <2> QED
    BY <1>b, <1>c, <2>1, <2>2, <2>3, <2>4, OneClerk
<1> QED
    BY <1>1, <1>2, <1>3, <1>4

LEMMA LaterStep ==
    ASSUME RegistryInv, NEW p \in Clerk,
           Purges(p) \/ Warms(p) \/ VerifiesEmbed(p) \/ Killed(p)
    PROVE  RegistryInv'
BY EndsHere DEF Purges, Warms, VerifiesEmbed, Killed, Report

-----------------------------------------------------------------------------
LEMMA RegistryInvInit == RegistryInit => RegistryInv
<1> SUFFICES ASSUME RegistryInit PROVE RegistryInv
    OBVIOUS
<1>1. Good(toml)
    BY DEF RegistryInit, Good, Sound, Registered, Registry, Role
<1>2. NoTask \in TaskState /\ Fine(NoTask, None)
    BY DEF NoTask, TaskState, PcSet, Fine, Report
<1> QED
    BY <1>1, <1>2 DEF RegistryInit, RegistryInv, TempState

LEMMA RegistryInvNext == RegistryInv /\ [RegistryNext]_registryVars => RegistryInv'
<1> SUFFICES ASSUME RegistryInv, [RegistryNext]_registryVars PROVE RegistryInv'
    OBVIOUS
<1>1. ASSUME NEW p \in Clerk, RegistryStep(p) PROVE RegistryInv'
    BY <1>1, PrepareStep, ReadStep, WriteStep, LaterStep DEF RegistryStep
<1>2. CASE UNCHANGED registryVars
    BY <1>2 DEF RegistryInv, registryVars
<1> QED
    BY <1>1, <1>2 DEF RegistryNext

LEMMA RegistryInvWhole == RegistryInv => RegistryIsWhole
BY DEF RegistryInv, RegistryIsWhole, Good, Fine

\* Whatever the commands do to one another, readers find a whole registry with
\* registered defaults, and only killed writers leave temporary files
\* (registry.py:214-250).
THEOREM RegistryStaysWhole == RegistrySpec => []RegistryIsWhole
<1> QED
    BY RegistryInvInit, RegistryInvNext, RegistryInvWhole, PTL DEF RegistrySpec

\* The same beside the other commands, as the runs check it.
THEOREM CommandsKeepRegistry == Spec => []RegistryIsWhole
<1>1. Init => RegistryInv
    BY RegistryInvInit DEF Init
<1>2. RegistryInv /\ [Next]_vars => RegistryInv'
  <2>1. [Next]_vars => [RegistryNext]_registryVars
    BY DEF Next, vars, registryVars
  <2> QED
    BY <2>1, RegistryInvNext
<1> QED
    BY <1>1, <1>2, RegistryInvWhole, PTL DEF Spec
USE JobAssumptions
-----------------------------------------------------------------------------
(* The types, and who holds the lock *)

Holds(d) == dst[d] \in {"up", "told", "closing"}

\* One process at most holds the lock; an old one does, and launchd's job is alive.
LockInv ==
    /\ \A d, e \in Daemon : Holds(d) /\ Holds(e) => d = e
    /\ old \subseteq Daemon /\ \A d \in old : Holds(d)
    /\ agent \in Daemon \cup {None} /\ (agent # None => dst[agent] # "dead")
    /\ crashed \in BOOLEAN

LEMMA LockStays ==
    ASSUME LockInv, UNCHANGED <<dst, old, agent, crashed>>
    PROVE  LockInv'
BY DEF LockInv, Holds

\* A process is spawned, by a command or by launchd.
LEMMA SpawnLocks ==
    ASSUME ControlTypes, LockInv, NEW d \in Daemon, Control!Spawn(d),
           agent' \in {agent, d}, crashed' \in {crashed, FALSE}
    PROVE  LockInv'
<1>1. /\ dst[d] = "dead" /\ old' = old /\ dst'[d] = "starting"
      /\ \A e \in Daemon \ {d} : dst'[e] = dst[e]
    BY DEF Control!Spawn, Control!Free, ControlTypes
<1> QED
    BY <1>1 DEF LockInv, Holds

\* A process ends.
LEMMA ExitLocks ==
    ASSUME ControlTypes, LockInv, NEW d \in Daemon, NEW zero \in BOOLEAN, Control!Exits(d, zero)
    PROVE  LockInv'
<1>1. /\ dst'[d] = "dead" /\ old' = old \ {d} /\ agent' = IF agent = d THEN None ELSE agent
      /\ \A e \in Daemon \ {d} : dst'[e] = dst[e]
    BY DEF Control!Exits, ControlTypes
<1>2. crashed' \in BOOLEAN
    BY Zenon DEF Control!Exits
<1> QED
    BY <1>1, <1>2 DEF LockInv, Holds

\* A process takes the lock that nobody has, or changes while it has it.
LEMMA HolderLocks ==
    ASSUME ControlTypes, LockInv, NEW d \in Daemon, NEW to \in {"up", "told", "closing"},
           Holds(d) \/ (dst[d] = "starting" /\ ~Control!Locked),
           dst' = [dst EXCEPT ![d] = to], UNCHANGED <<old, agent, crashed>>
    PROVE  LockInv'
<1>1. dst'[d] = to /\ \A e \in Daemon \ {d} : dst'[e] = dst[e]
    BY DEF ControlTypes
<1>2. \A e \in Daemon : Holds(e) => e = d
    BY DEF LockInv, Holds, Control!Locked
<1> QED
    BY <1>1, <1>2 DEF LockInv, Holds

\* A process is told to stop: by a command that found it listening, or with the
\* agent.
LEMMA ToldLocks ==
    ASSUME ControlTypes, LockInv, NEW d \in Daemon, dst' = Control!Told(d), old' = old,
           \/ dst[d] # "starting" /\ UNCHANGED <<agent, crashed>>
           \/ agent = d /\ agent' = None /\ crashed' = FALSE
    PROVE  LockInv'
<1>1. /\ dst'[d] = IF dst[d] = "up" THEN "told" ELSE IF dst[d] = "starting" THEN "dead" ELSE dst[d]
      /\ \A e \in Daemon \ {d} : dst'[e] = dst[e]
    BY DEF ControlTypes, Control!Told
<1>2. \A e \in Daemon : Holds(e)' <=> Holds(e)
    BY <1>1 DEF Holds
<1>3. /\ \A e, f \in Daemon : Holds(e)' /\ Holds(f)' => e = f
      /\ old' \subseteq Daemon /\ \A e \in old' : Holds(e)'
    BY <1>2 DEF LockInv
<1>4. crashed' \in BOOLEAN
    BY DEF LockInv
<1>5. agent' \in Daemon \cup {None} /\ (agent' # None => dst'[agent'] # "dead")
    BY <1>1 DEF LockInv
<1> QED
    BY <1>3, <1>4, <1>5 DEF LockInv

LEMMA LaunchctlLocks ==
    ASSUME ControlTypes, LockInv, Control!Loaded \/ Control!Unloaded
    PROVE  LockInv'
<1>1. CASE Control!Loaded
    BY <1>1, SpawnLocks DEF Control!Loaded
<1>2. CASE Control!Unloaded /\ agent = None
    BY <1>2 DEF LockInv, Holds, Control!Unloaded
<1>3. CASE Control!Unloaded /\ agent # None
    BY <1>3, ToldLocks DEF LockInv, Control!Unloaded
<1> QED
    BY <1>1, <1>2, <1>3

LEMMA DaemonLocks ==
    ASSUME ControlTypes, LockInv, NEW d \in Daemon,
           \/ Control!ComesUp(d) \/ Control!Closing(d) \/ Control!Leaves(d)
           \/ Control!Crashes(d) \/ Control!Restarts(d) \/ Control!LazySpawns(d)
    PROVE  LockInv'
<1>1. CASE Control!ComesUp(d)
    BY <1>1, ExitLocks, HolderLocks DEF Control!ComesUp, Control!agentVars
<1>2. CASE Control!Closing(d)
    BY <1>2, HolderLocks DEF Control!Closing, Control!Listens, Holds, Control!agentVars
<1>3. CASE Control!Leaves(d) \/ Control!Crashes(d)
    BY <1>3, ExitLocks DEF Control!Leaves, Control!Crashes
<1>4. CASE Control!Restarts(d) \/ Control!LazySpawns(d)
    BY <1>4, SpawnLocks DEF Control!Restarts, Control!LazySpawns, Control!agentVars
<1> QED
    BY <1>1, <1>2, <1>3, <1>4

\* A command that stops, starts or looks.
LEMMA CommandLocks ==
    ASSUME ControlInv, LockInv, NEW c \in Clerk,
           \/ Control!Begins(c) \/ Control!Interrupted(c) \/ Control!Health(c)
           \/ Control!Status(c) \/ Control!SeesStale(c) \/ Control!ProbeBreaks(c)
           \/ Control!StopStep(c) \/ Control!StartStep(c)
    PROVE  LockInv'
<1>1. ControlTypes /\ Knows(cmd[c]) /\ cmd[c].found \in Daemon \cup {None}
    BY FoundTypes DEF ControlInv
<1>2. CASE Control!Terms(c)
  <2>1. cmd[c].found \in Daemon /\ dst[cmd[c].found] # "starting"
      BY <1>1, <1>2 DEF Control!Terms, Control!At, Knows
  <2> QED
      BY <1>1, <1>2, <2>1, ToldLocks DEF Control!Terms, Control!agentVars
<1>3. CASE Control!Kills(c)
  <2>1. cmd[c].found \in Daemon
      BY <1>1, <1>3 DEF Control!Kills, Control!At, Knows
  <2> QED
      BY <1>1, <1>3, <2>1, ExitLocks DEF Control!Kills
<1>4. CASE Control!Spawns(c)
    BY <1>1, <1>4, SpawnLocks DEF Control!Spawns, Control!agentVars
<1>5. CASE UNCHANGED <<dst, old, agent, crashed>>
    BY <1>5, LockStays
<1>6. CASE \/ Control!Begins(c) \/ Control!Interrupted(c) \/ Control!Health(c)
           \/ Control!Status(c) \/ Control!SeesStale(c) \/ Control!ProbeBreaks(c)
    BY <1>5, <1>6 DEF Control!Begins, Control!Interrupted, Control!Health, Control!Status,
       Control!SeesStale, Control!ProbeBreaks, Control!daemonVars, Control!agentVars
<1>7. CASE Control!StopStep(c)
    BY <1>2, <1>3, <1>5, <1>7 DEF Control!StopStep, Control!Asked, Control!Vacated,
       Control!StopTimesOut, Control!KillsNobody, Control!daemonVars, Control!agentVars
<1>8. CASE Control!StartStep(c)
    BY <1>4, <1>5, <1>8 DEF Control!StartStep, Control!Probed, Control!SpawnFails,
       Control!Awaited, Control!Confirmed, Control!daemonVars, Control!agentVars
<1> QED
    BY <1>6, <1>7, <1>8

LEMMA AgentLocks ==
    ASSUME ControlTypes, LockInv, NEW c \in Clerk, Control!AgentStep(c)
    PROVE  LockInv'
<1>1. CASE UNCHANGED <<dst, old, agent, crashed>>
    BY <1>1, LockStays
<1>2. CASE \/ Control!ChecksToInstall(c) \/ Control!ChecksToRemove(c) \/ Control!Offers(c)
           \/ Control!WritesTemp(c) \/ Control!Writes(c) \/ Control!WriteFails(c)
           \/ Control!Verifies(c)
           \/ Control!Unlinks(c) \/ Control!SeesAbsent(c)
    BY <1>1, <1>2 DEF Control!ChecksToInstall, Control!ChecksToRemove, Control!Offers,
       Control!WritesTemp, Control!Writes, Control!WriteFails, Control!Verifies, Control!Unlinks,
       Control!SeesAbsent, Control!daemonVars, Control!agentVars
<1>3. CASE Control!Unloads(c) \/ Control!Loads(c) \/ Control!Removes(c) \/ Control!Hangs(c)
    BY <1>1, <1>3, LaunchctlLocks DEF Control!Unloads, Control!Loads, Control!Removes,
       Control!Hangs, Control!daemonVars, Control!agentVars
<1> QED
    BY <1>2, <1>3 DEF Control!AgentStep

\* Mishaps are counted.
MishapsCounted == mischief \in 0 .. Mischief

LEMMA CountsMishaps ==
    ASSUME MishapsCounted, UNCHANGED mischief \/ Control!Mishap
    PROVE  MishapsCounted'
BY DEF MishapsCounted, Control!Mishap

LEMMA MishapsNext ==
    ASSUME MishapsCounted, [Control!ControlNext]_controlVars
    PROVE  MishapsCounted'
<1>1. CASE UNCHANGED controlVars
    BY <1>1, CountsMishaps DEF controlVars
<1>2. ASSUME NEW d \in Daemon,
             \/ Control!ComesUp(d) \/ Control!Closing(d) \/ Control!Leaves(d)
             \/ Control!Crashes(d) \/ Control!Restarts(d) \/ Control!LazySpawns(d)
      PROVE  MishapsCounted'
    BY <1>2, CountsMishaps DEF Control!ComesUp, Control!Closing, Control!Leaves,
       Control!Crashes, Control!Restarts, Control!LazySpawns
<1>3. ASSUME NEW c \in Clerk,
             \/ Control!Begins(c) \/ Control!Interrupted(c) \/ Control!Health(c)
             \/ Control!Status(c) \/ Control!SeesStale(c) \/ Control!ProbeBreaks(c)
      PROVE  MishapsCounted'
    BY <1>3, CountsMishaps DEF Control!Begins, Control!Interrupted, Control!Health,
       Control!Status, Control!SeesStale, Control!ProbeBreaks
<1>4. ASSUME NEW c \in Clerk, Control!StopStep(c) \/ Control!StartStep(c)
      PROVE  MishapsCounted'
    BY <1>4, CountsMishaps DEF Control!StopStep, Control!StartStep, Control!Asked,
       Control!Terms, Control!Vacated, Control!StopTimesOut, Control!Kills,
       Control!KillsNobody, Control!Probed, Control!Spawns, Control!SpawnFails,
       Control!Awaited, Control!Confirmed
<1>5. ASSUME NEW c \in Clerk, Control!AgentStep(c) PROVE MishapsCounted'
    BY <1>5, CountsMishaps DEF Control!AgentStep, Control!ChecksToInstall,
       Control!ChecksToRemove, Control!Offers, Control!WritesTemp, Control!Writes,
       Control!WriteFails,
       Control!Unloads, Control!Loads, Control!Verifies, Control!Hangs, Control!Removes,
       Control!Unlinks, Control!SeesAbsent
<1> QED
    BY <1>1, <1>2, <1>3, <1>4, <1>5 DEF Control!ControlNext

LEMMA LockInvNext ==
    ASSUME ControlInv, LockInv, [Control!ControlNext]_controlVars
    PROVE  LockInv'
<1>1. ControlTypes
    BY DEF ControlInv
<1>2. CASE UNCHANGED controlVars
    BY <1>2, LockStays DEF controlVars
<1> QED
    BY <1>1, <1>2, CommandLocks, AgentLocks, DaemonLocks DEF Control!ControlNext

LEMMA SameCount == ASSUME NEW S PROVE Control!Cardinality(S) = Cardinality(S)
BY Zenon DEF Cardinality, Control!Cardinality

LEMMA LockInvInit == Control!ControlInit => LockInv /\ MishapsCounted
<1> SUFFICES ASSUME Control!ControlInit PROVE LockInv /\ MishapsCounted
    OBVIOUS
<1>1. PICK up \in SUBSET Daemon : up = {d \in Daemon : dst[d] = "up"}
    OBVIOUS
<1>2. IsFiniteSet(up) /\ Cardinality(up) <= 1
  <2>1. IsFiniteSet(up)
      BY FS_Subset
  <2>2. Control!Cardinality(up) <= 1
      BY <1>1 DEF Control!ControlInit
  <2> QED
      BY <2>1, <2>2, SameCount
<1>3. \A d, e \in up : d = e
  <2> SUFFICES ASSUME NEW d \in up, NEW e \in up, d # e PROVE FALSE
      OBVIOUS
  <2>1. IsFiniteSet({d}) /\ Cardinality({d}) = 1
      BY FS_Singleton
  <2>2. Cardinality({d} \cup {e}) = 2
    <3>1. e \notin {d}
        OBVIOUS
    <3>2. Cardinality({d} \cup {e}) = IF e \in {d} THEN Cardinality({d}) ELSE Cardinality({d}) + 1
        BY <2>1, FS_AddElement
    <3> QED
        BY <2>1, <3>1, <3>2
  <2>3. Cardinality({d} \cup {e}) <= Cardinality(up)
      BY <1>2, FS_Subset
  <2>4. Cardinality(up) \in Nat
      BY <1>2, FS_CardinalityType
  <2> QED
      BY <1>2, <2>2, <2>3, <2>4
<1>4. \A d \in Daemon : Holds(d) <=> d \in up
    BY <1>1 DEF Control!ControlInit, Holds
<1>5. old \subseteq up /\ (agent = None \/ (agent \in Daemon /\ dst[agent] = "up"))
    BY <1>1 DEF Control!ControlInit
<1>6. crashed \in BOOLEAN /\ mischief = 0
    BY DEF Control!ControlInit
<1> QED
    BY <1>3, <1>4, <1>5, <1>6 DEF LockInv, MishapsCounted

\* The registry's file and the flag.
Cache == cached \subseteq Alias /\ semantic \in BOOLEAN

LEMMA CacheNext ==
    ASSUME RegistryInv, Cache, [RegistryNext]_registryVars
    PROVE  Cache'
<1>1. CASE UNCHANGED <<cached, semantic>>
    BY <1>1 DEF Cache
<1>2. CASE UNCHANGED registryVars
    BY <1>1, <1>2 DEF registryVars
<1>3. ASSUME NEW p \in Clerk, RegistryStep(p) PROVE Cache'
  <2>1. task[p].pc # "idle" => task[p].alias \in Alias
      BY DEF RegistryInv, Fine
  <2>2. CASE Downloads(p) \/ Prepares(p)
      BY <2>1, <2>2 DEF Downloads, Prepares, Cache
  <2>3. CASE Purges(p) \/ TurnsOff(p) \/ VerifiesEmbed(p)
      BY <2>3 DEF Purges, TurnsOff, VerifiesEmbed, Cache
  <2>4. CASE \/ Takes(p) \/ Validates(p) \/ LookupFails(p) \/ Gates(p) \/ TurnsOn(p)
             \/ DownloadFails(p) \/ OpensTemp(p) \/ Fills(p) \/ Replaces(p) \/ WriteRaises(p)
             \/ Warms(p) \/ Killed(p)
      BY <1>1, <2>4 DEF Takes, Validates, LookupFails, Gates, TurnsOn, DownloadFails,
         OpensTemp, Fills, Replaces, WriteRaises, Warms, Killed
  <2>5. CASE \/ ReadsToAdd(p) \/ ReadsToSetUp(p) \/ IsUnknown(p) \/ ReadsToDefault(p)
             \/ ReadsToRemove(p) \/ ReadsToPull(p) \/ ReadsToSwitch(p)
      BY <1>1, <2>5 DEF ReadsToAdd, ReadsToSetUp, IsUnknown, ReadsToDefault, ReadsToRemove,
         ReadsToPull, ReadsToSwitch, Keeps, Stops
  <2> QED
      BY <1>3, <2>2, <2>3, <2>4, <2>5 DEF RegistryStep
<1> QED
    BY <1>2, <1>3 DEF RegistryNext

LEMMA LogTypesNext ==
    ASSUME Log!LogTypeOK, [Log!LogNext]_logVars
    PROVE  Log!LogTypeOK'
<1> USE DEF Log!LogTypeOK
<1>1. ASSUME NEW w \in Clerk, Log!OpensToAppend(w) PROVE Log!LogTypeOK'
    BY <1>1 DEF Log!OpensToAppend, Log!Free, Log!followerVars
<1>2. ASSUME NEW w \in Clerk, Log!RollsOver(w) \/ Log!Renames(w) \/ Log!Exits(w)
      PROVE  Log!LogTypeOK'
    BY <1>2 DEF Log!RollsOver, Log!Renames, Log!Exits, Log!followerVars
<1>3. CASE Log!Prints \/ Log!Appears \/ Log!OpensLog
    BY <1>3 DEF Log!Prints, Log!Appears, Log!OpensLog, Log!Goes, Log!writerVars
<1>4. CASE Log!StatsHandle \/ Log!Polls \/ Log!Compares
    BY <1>4 DEF Log!StatsHandle, Log!Polls, Log!Compares, Log!Goes, Log!writerVars
<1>5. CASE Log!ReopensLog \/ Log!Interrupts
    BY <1>5 DEF Log!ReopensLog, Log!Interrupts, Log!Goes, Log!writerVars
<1>6. CASE UNCHANGED logVars
    BY <1>6 DEF logVars
<1> QED
    BY <1>1, <1>2, <1>3, <1>4, <1>5, <1>6 DEF Log!LogNext, Log!Configures, Log!Reopens

\* What the invariants say of the types.
TypesInv ==
    /\ part \in {"daemon", "registry", "log"}
    /\ ControlInv /\ LockInv /\ MishapsCounted
    /\ RegistryInv /\ Cache
    /\ Log!LogTypeOK

LEMMA TypesFollow == TypesInv => TypeOK
<1> SUFFICES ASSUME TypesInv PROVE TypeOK
    OBVIOUS
<1>1. Control!ControlTypeOK
  <2>1. PICK up \in SUBSET Daemon :
            up = {d \in Daemon : dst[d] \in {"up", "told", "closing"}}
      OBVIOUS
  <2>2. up = {} \/ \E d \in up : up = {d}
      BY <2>1 DEF TypesInv, LockInv, Holds
  <2>3. Cardinality(up) <= 1
    <3>1. CASE up = {}
        BY <3>1, FS_EmptySet
    <3>2. ASSUME NEW d \in up, up = {d} PROVE Cardinality(up) <= 1
      <4>1. Cardinality({d}) = 1
          BY FS_Singleton
      <4> QED
          BY <3>2, <4>1
    <3> QED
        BY <2>2, <3>1, <3>2
  <2>4. Control!Cardinality({d \in Daemon : dst[d] \in {"up", "told", "closing"}}) <= 1
      BY <2>1, <2>3, SameCount
  <2>5. old \subseteq {d \in Daemon : dst[d] # "dead"}
      BY DEF TypesInv, LockInv, Holds
  <2>6. agent \in {d \in Daemon : dst[d] # "dead"} \cup {None}
      BY DEF TypesInv, LockInv
  <2>7. /\ dst \in [Daemon -> {"starting", "up", "told", "closing", "dead"}]
        /\ plist \in BOOLEAN /\ loaded \in BOOLEAN /\ crashed \in BOOLEAN
        /\ mischief \in 0 .. Mischief
      BY DEF TypesInv, ControlInv, ControlTypes, LockInv, DaemonStates, MishapsCounted
  <2>8. ASSUME NEW c \in Clerk
        PROVE  /\ cmd[c].job \in Control!Job \cup {None} /\ cmd[c].existed \in BOOLEAN
               /\ {cmd[c].found, cmd[c].new} \subseteq Daemon \cup {None}
    <3>1. cmd[c] \in CmdState
        BY DEF TypesInv, ControlInv, ControlTypes
    <3> QED
        BY <3>1 DEF CmdState, Control!Job
  <2> QED
      BY <2>4, <2>5, <2>6, <2>7, <2>8 DEF Control!ControlTypeOK
<1>2. RegistryTypeOK
  <2>1. toml \in Registry /\ temp \in [Clerk -> Registry \cup {Torn, None}]
      BY DEF TypesInv, RegistryInv, Good, TempState
  <2>2. ASSUME NEW p \in Clerk
        PROVE  /\ task[p].order \in Order \cup {None} /\ task[p].alias \in Alias \cup {None}
               /\ task[p].copy \in Registry \cup {None}
               /\ task[p].report \in Report \cup {None}
    <3>1. task[p] \in TaskState
        BY DEF TypesInv, RegistryInv
    <3> QED
        BY <3>1 DEF TaskState
  <2> QED
      BY <2>1, <2>2 DEF TypesInv, Cache, RegistryTypeOK
<1> QED
    BY <1>1, <1>2 DEF TypesInv, TypeOK

\* The daemons, the agent, the registry, the files and what each command knows of
\* them are of their types; one daemon at most holds the lock, however many commands
\* and clients spawn them, and the process of launchd's job is alive
\* (daemon.py, launchd.py, registry.py, logging_setup.py).
THEOREM CommandTypes == Spec => []TypeOK
<1>1. Init => TypesInv
  <2> SUFFICES ASSUME Init PROVE TypesInv
      OBVIOUS
  <2>1. ControlInv /\ LockInv /\ MishapsCounted /\ RegistryInv
      BY ControlInvInit, LockInvInit, RegistryInvInit DEF Init
  <2>2. Cache /\ part \in {"daemon", "registry", "log"}
      BY DEF Init, RegistryInit, Cache
  <2>3. Log!LogTypeOK
      BY DEF Init, Log!LogInit, Log!LogTypeOK
  <2> QED
      BY <2>1, <2>2, <2>3 DEF TypesInv
<1>2. TypesInv /\ [Next]_vars => TypesInv'
  <2> SUFFICES ASSUME TypesInv, [Next]_vars PROVE TypesInv'
      OBVIOUS
  <2>1. /\ [Control!ControlNext]_controlVars /\ [RegistryNext]_registryVars
        /\ [Log!LogNext]_logVars /\ part' = part
      BY DEF Next, vars
  <2> QED
      BY <2>1, ControlInvNext, LockInvNext, MishapsNext, RegistryInvNext, CacheNext,
         LogTypesNext DEF TypesInv
<1> QED
    BY <1>1, <1>2, TypesFollow, PTL DEF Spec
=============================================================================
