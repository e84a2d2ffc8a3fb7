----------------------------- MODULE CrashScan -----------------------------
(***************************************************************************)
(* Crash reports in the tray client: discover (discovery.rs) walks the     *)
(* installation and the scanner (crashes.rs) stores one event per crash    *)
(* directory.  The game writes a directory and its logs while the scanner  *)
(* walks; a directory's number is the time in its name.                    *)
(***************************************************************************)
EXTENDS Integers, SequencesExt

CONSTANTS
  CrashTimes,     \* numbers of crash directories
  MaxSweeps       \* bound on sweeps (exploration only)

ASSUME CrashBounds == CrashTimes \subseteq Nat \ {0} /\ MaxSweeps \in Nat

(* CHANNELS, in their order; the model has two.                            *)
Channels == <<"LIVE", "PTU">>
CrashPlaces == {<<c, t>> : c \in DOMAIN Channels, t \in CrashTimes}

VARIABLES
  crashDirs,    \* places of the directories that hold a log
  crashEvents,  \* rows in order, by their key
  sweep,        \* the scanner: [at, todo, found (both in order), failed]
  crashStats,   \* [seen, last]: what the tray shows
  sweeps,       \* sweeps ended
  sweptAll      \* history: places of the last sweep that ended without error

crashVars == <<crashDirs, crashEvents, sweep, crashStats, sweeps, sweptAll>>

NoCrash == <<0, 0>>

CrashInit ==
  /\ crashDirs = {}
  /\ crashEvents = <<>>
  /\ sweep = [at |-> "sleep", todo |-> <<>>, found |-> <<>>, failed |-> FALSE]
  /\ crashStats = [seen |-> 0, last |-> NoCrash]
  /\ sweeps = 0 /\ sweptAll = {}

(* External: the game writes the first log of a crash.                     *)
CrashWritten(p) ==
  /\ p \notin crashDirs /\ crashDirs' = crashDirs \cup {p}
  /\ UNCHANGED <<crashEvents, sweep, crashStats, sweeps, sweptAll>>

(* collect_channel: the directories that have a log.  They are sorted by   *)
(* the name of that log, not of the directory, so that any order of the    *)
(* directories may come out.                                               *)
collect_channel(c) == SetToSeqs({p \in crashDirs : p[1] = c})

(* discover: channel after channel.                                        *)
discover == {s \o t : s \in collect_channel(1), t \in collect_channel(2)}

(* sweep_once begins: what is there at this moment.                        *)
SweepBegins ==
  /\ sweep.at = "sleep" /\ sweeps < MaxSweeps
  /\ \E logs \in discover :
       sweep' = [at |-> "ingest", todo |-> logs, found |-> logs, failed |-> FALSE]
  /\ UNCHANGED <<crashDirs, crashEvents, crashStats, sweeps, sweptAll>>

(* insert_event under the key crash:channel:dir.                           *)
InsertCrash(p) ==
  IF Contains(crashEvents, p) THEN crashEvents ELSE Append(crashEvents, p)

(* ingest_crash, log after log; one that fails is left for the next sweep. *)
ingest_crash ==
  /\ sweep.at = "ingest" /\ sweep.todo # <<>>
  /\ \/ crashEvents' = InsertCrash(Head(sweep.todo)) /\ sweep' = [sweep EXCEPT !.todo = Tail(@)]
     \/ sweep' = [sweep EXCEPT !.todo = Tail(@), !.failed = TRUE] /\ UNCHANGED crashEvents
  /\ UNCHANGED <<crashDirs, crashStats, sweeps, sweptAll>>

SweepEnds ==
  /\ sweep.at = "ingest" /\ sweep.todo = <<>>
  /\ sweeps' = sweeps + 1
  /\ crashStats' = [seen |-> Len(sweep.found),
                    last |-> IF sweep.found = <<>> THEN crashStats.last ELSE sweep.found[1]]
  /\ sweptAll' = IF sweep.failed THEN sweptAll ELSE sweptAll \cup Range(sweep.found)
  /\ sweep' = [sweep EXCEPT !.at = "sleep"]
  /\ UNCHANGED <<crashDirs, crashEvents>>

(* The tray stops in the middle; the next start sweeps at once.            *)
SweepStops ==
  /\ sweep.at = "ingest" /\ sweep' = [sweep EXCEPT !.at = "sleep", !.todo = <<>>]
  /\ crashStats' = [seen |-> 0, last |-> NoCrash]
  /\ UNCHANGED <<crashDirs, crashEvents, sweeps, sweptAll>>
-----------------------------------------------------------------------------
CrashNext ==
  \/ SweepBegins \/ ingest_crash \/ SweepEnds \/ SweepStops
  \/ \E p \in CrashPlaces : CrashWritten(p)

CrashSpec == CrashInit /\ [][CrashNext]_crashVars
-----------------------------------------------------------------------------
(* Every crash that a sweep without errors found has exactly one event,    *)
(* also when sweeps overlap with the game's writing and with restarts, and *)
(* when two channels have a directory of the same name; the tray shows a   *)
(* crash that is there.                                                    *)
CrashOnce ==
  /\ \A p \in sweptAll : Contains(crashEvents, p)
  /\ \A j, k \in DOMAIN crashEvents : crashEvents[j] = crashEvents[k] => j = k
  /\ crashStats.last # NoCrash => crashStats.last \in crashDirs /\ crashStats.seen > 0
=============================================================================
