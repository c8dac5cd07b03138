------------------------------ MODULE LogFollow ------------------------------
(***************************************************************************)
(* chirpd.log: the processes that log write it through a rotating handler  *)
(* each (logging_setup.py), and `chirp daemon logs -f` follows it by name  *)
(* (llm/cli/daemon.py).  A file is its inode; an inode no name and no open *)
(* handle refers to may be given to a new file.  What the lines say is     *)
(* left out, and with it how many of them the follower skips at its start. *)
(***************************************************************************)
CONSTANTS
    Inode, Writer,
    None

VARIABLES
    path, backup,   \* the files named chirpd.log and chirpd.log.1
    handle,         \* each writer's stream
    wpc,            \* "closed", "open", "rename", "reopen"
    fpc,            \* "asked", "waiting", "opening", "opened", "reading", "polling",
                    \* "reopening", "ended", "failed"
    fh,             \* the follower's handle
    inode           \* the inode it compares the name with

logVars == <<path, backup, handle, wpc, fpc, fh, inode>>
writerVars == <<handle, wpc>>
followerVars == <<fpc, fh, inode>>

LogInit ==
    /\ path = None /\ backup = None
    /\ handle = [w \in Writer |-> None] /\ wpc = [w \in Writer |-> "closed"]
    /\ fpc = "asked" /\ fh = None /\ inode = None

Free == Inode \ ({path, backup, fh} \cup {handle[w] : w \in Writer})

-----------------------------------------------------------------------------
(* The writers: logging.handlers.RotatingFileHandler with one backup *)

\* open(path, "a"): the file is made when there is none.
OpensToAppend(w) ==
    /\ IF path = None THEN path' \in Free ELSE path' = path
    /\ handle' = [handle EXCEPT ![w] = path']
    /\ wpc' = [wpc EXCEPT ![w] = "open"]
    /\ UNCHANGED <<backup, followerVars>>

\* configure_logging: the new handler is open before the previous is closed.
Configures(w) == wpc[w] \in {"closed", "open"} /\ OpensToAppend(w)

\* doRollover, when a record does not fit: the stream is closed, then the old
\* backup removed ...
RollsOver(w) ==
    /\ wpc[w] = "open"
    /\ handle' = [handle EXCEPT ![w] = None]
    /\ backup' = None
    /\ wpc' = [wpc EXCEPT ![w] = "rename"]
    /\ UNCHANGED <<path, followerVars>>

\* ... then whatever has the name becomes the backup ...
Renames(w) ==
    /\ wpc[w] = "rename"
    /\ IF path = None THEN UNCHANGED <<path, backup>> ELSE backup' = path /\ path' = None
    /\ wpc' = [wpc EXCEPT ![w] = "reopen"]
    /\ UNCHANGED <<handle, followerVars>>

\* ... then a file is opened, now or by the next record.
Reopens(w) == wpc[w] = "reopen" /\ OpensToAppend(w)

\* The process ends, whatever it was doing.
Exits(w) ==
    /\ wpc[w] # "closed"
    /\ wpc' = [wpc EXCEPT ![w] = "closed"]
    /\ handle' = [handle EXCEPT ![w] = None]
    /\ UNCHANGED <<path, backup, followerVars>>

-----------------------------------------------------------------------------
(* The follower *)

Goes(to) == fpc' = to /\ UNCHANGED <<path, backup, writerVars>>

\* logs: without -f the file is shown, or missed; with -f and -n its tail is
\* shown first.  Either may find the file gone when it opens it.
Prints ==
    /\ fpc = "asked"
    /\ Goes("ended") \/ Goes("failed") \/ Goes("waiting")
    /\ UNCHANGED <<fh, inode>>

\* _wait_for_log_file
Appears == fpc = "waiting" /\ path # None /\ Goes("opening") /\ UNCHANGED <<fh, inode>>

\* The first open: a file that has just been renamed ends the command.
OpensLog ==
    /\ fpc = "opening"
    /\ fh' = path /\ Goes(IF path = None THEN "failed" ELSE "opened")
    /\ UNCHANGED inode

\* MUTANT of StatsHandle: the inode is read off the name
StatsName ==
    /\ fpc = "opened"
    /\ inode' = (IF path = None THEN fh ELSE path) /\ Goes("reading")
    /\ UNCHANGED fh

\* os.fstat of the handle, whatever has the name by now
StatsHandle ==
    /\ fpc = "opened"
    /\ inode' = fh /\ Goes("reading")
    /\ UNCHANGED fh

\* readline has come to the end, and the follower has slept.
Polls == fpc = "reading" /\ Goes("polling") /\ UNCHANGED <<fh, inode>>

\* path.stat: nothing of that name, or the same file, or another one
Compares ==
    /\ fpc = "polling"
    /\ Goes(IF path \in {None, inode} THEN "reading" ELSE "reopening")
    /\ UNCHANGED <<fh, inode>>

\* The new file is open before the old handle is closed.
ReopensLog ==
    /\ fpc = "reopening"
    /\ IF path = None THEN Goes("reading") /\ UNCHANGED fh
       ELSE fh' = path /\ Goes("opened")
    /\ UNCHANGED inode

\* Ctrl-C
Interrupts ==
    /\ fpc \notin {"ended", "failed"}
    /\ fh' = None /\ Goes("ended")
    /\ UNCHANGED inode

LogNext ==
    \/ \E w \in Writer : Configures(w) \/ RollsOver(w) \/ Renames(w) \/ Reopens(w) \/ Exits(w)
    \/ Prints \/ Appears \/ OpensLog \/ StatsHandle \/ Polls \/ Compares \/ ReopensLog
    \/ Interrupts

LogSpec == LogInit /\ [][LogNext]_logVars
-----------------------------------------------------------------------------
LogTypeOK ==
    /\ {path, backup, fh, inode} \subseteq Inode \cup {None}
    /\ handle \in [Writer -> Inode \cup {None}]
    /\ wpc \in [Writer -> {"closed", "open", "rename", "reopen"}]
    /\ fpc \in {"asked", "waiting", "opening", "opened", "reading", "polling",
                "reopening", "ended", "failed"}
    /\ path # None => path # backup

\* A follower whose file has lost its name to another one will see it: however
\* often, and by however many processes, the log was rotated between its open, its
\* stat and its polls, and though inodes are used again, the inode it remembers is
\* not that of a file it does not hold (daemon.py:1073-1102).
RotationIsNoticed ==
    fpc \in {"reading", "polling"} /\ path \notin {None, fh} => inode # path
=============================================================================
