---------------------------- MODULE LauncherTail ----------------------------
(***************************************************************************)
(* The tail of the RSI Launcher's log in the tray client:                  *)
(* crates/starstats-client/src/launcher.rs, with parse_launcher_line and   *)
(* classify_launcher_message of crates/starstats-core/src/parser.rs.       *)
(*                                                                         *)
(* The launcher starts a file each day and may be half way through a line. *)
(* The tray takes the newest file when it starts and stays with it.  A     *)
(* position is a number of lines.                                          *)
(***************************************************************************)
EXTENDS Integers, SequencesExt, FiniteSets

CONSTANTS
  LauncherTexts,   \* [level, words] of lines, or Banner
  MaxDays,         \* bound on files (exploration only)
  MaxLines         \* bound on lines ever written (exploration only)

ASSUME LauncherBounds == {MaxDays, MaxLines} \subseteq Nat \ {0}

Rewriting == 0
Banner == [level |-> "none", words |-> {}]

VARIABLES
  files,       \* [1..day -> Seq of [n, text]]; n tells lines apart (their time)
  half,        \* the last line of the newest file is not finished
  written,     \* lines ever written
  tail,        \* the tray: [at, file, offset]; at is "off", "wait", "open", "read" or "save"
  notified,    \* the channel of file events holds something
  cursors,     \* SQLite: [1..MaxDays -> offset]
  launched,    \* rows of events, in order: [key, n, category]
  failedDrain, \* history: the last drain ended with an error
  lost         \* history: lines whose insert failed; Rewriting, once a file
               \* was rewritten
launcherVars == <<files, half, written, tail, notified, cursors, launched, failedDrain, lost>>

TailOff == [at |-> "off", file |-> 0, offset |-> 0]

LauncherInit ==
  /\ files = << <<>> >> /\ half = FALSE /\ written = 0
  /\ tail = TailOff /\ notified = FALSE
  /\ cursors = [d \in 1..MaxDays |-> 0]
  /\ launched = <<>> /\ failedDrain = FALSE /\ lost = {}

Newest == Len(files)
(* The lines of a file that are finished.                                  *)
Whole(d) == Len(files[d]) - (IF half /\ d = Newest THEN 1 ELSE 0)
-----------------------------------------------------------------------------
(* parse_launcher_line: banners and continuations are not lines.           *)
parse_launcher_line(text) == text # Banner

(* classify_launcher_message: the first that applies.                      *)
CategoryWords == <<
  <<"auth", {"logged in", "sign in", "authenticat", "credential", "oauth"}>>,
  <<"patch", {"patch", "delta", "applying "}>>,
  <<"install", {"install", "download", "verify", "integrity", "repair"}>>,
  <<"update", {"launcher update", "self-update", "checking for updates"}>> >>
ErrorWords == {"error", "failed", "failure", "exception", "err_"}
classify_launcher_message(text) ==
  LET k == SelectInSeq(CategoryWords, LAMBDA c : c[2] \cap text.words # {})
  IN IF text.level \in {"error", "fatal"} \/ ErrorWords \cap text.words # {} THEN "error"
     ELSE IF k = 0 THEN "info" ELSE CategoryWords[k][1]

(* insert_event: a key that is there already is left alone.                *)
insert_row(row) ==
  IF \E k \in DOMAIN launched : launched[k].key = row.key THEN launched ELSE Append(launched, row)
-----------------------------------------------------------------------------
(* External: the launcher begins or finishes a line, starts a new day's    *)
(* file, or empties the one it has.  The watcher reports the tailed file.  *)
Report(d) == notified' = (notified \/ (tail.at # "off" /\ tail.file = d))

BeginLine(text) ==
  /\ ~half /\ written < MaxLines /\ written' = written + 1
  /\ files' = [files EXCEPT ![Newest] = Append(@, [n |-> written', text |-> text])]
  /\ half' = TRUE /\ Report(Newest)
  /\ UNCHANGED <<tail, cursors, launched, failedDrain, lost>>

FinishLine ==
  /\ half /\ half' = FALSE /\ Report(Newest)
  /\ UNCHANGED <<files, written, tail, cursors, launched, failedDrain, lost>>

NewDay ==
  /\ ~half /\ Newest < MaxDays /\ files' = Append(files, <<>>)
  /\ UNCHANGED <<half, written, tail, notified, cursors, launched, failedDrain, lost>>

Rewritten ==
  /\ ~half /\ files[Newest] # <<>>
  /\ files' = [files EXCEPT ![Newest] = <<>>] /\ Report(Newest)
  /\ lost' = lost \cup {Rewriting}
  /\ UNCHANGED <<half, written, tail, cursors, launched, failedDrain>>
-----------------------------------------------------------------------------
(* start_tail: the newest file, from the stored position; the watch comes  *)
(* before the first drain.                                                 *)
start_tail ==
  /\ tail.at = "off"
  /\ tail' = [at |-> "open", file |-> Newest, offset |-> cursors[Newest]]
  /\ notified' = FALSE /\ failedDrain' = FALSE
  /\ UNCHANGED <<files, half, written, cursors, launched, lost>>

(* A file event: bursts are taken together, then the file is drained.      *)
Woken ==
  /\ tail.at = "wait" /\ notified /\ notified' = FALSE
  /\ tail' = [tail EXCEPT !.at = "open"] /\ failedDrain' = FALSE
  /\ UNCHANGED <<files, half, written, cursors, launched, lost>>

(* drain opens the file: one that is shorter than the position is read     *)
(* from its head.                                                          *)
OpenFile ==
  /\ tail.at = "open"
  /\ tail' = [tail EXCEPT !.at = "read",
                          !.offset = IF Len(files[tail.file]) < @ THEN 0 ELSE @]
  /\ UNCHANGED <<files, half, written, notified, cursors, launched, failedDrain, lost>>

(* A line without its end is left for the next drain.                      *)
Readable == Whole(tail.file)

(* One line of drain: process_line, whose insert may fail, and the         *)
(* position goes on in any case.                                           *)
process_line ==
  /\ tail.at = "read" /\ tail.offset < Readable
  /\ LET line == files[tail.file][tail.offset + 1]
         row == [key |-> <<tail.offset, line.n>>, n |-> line.n,
                 category |-> classify_launcher_message(line.text)]
     IN \/ /\ launched' = IF parse_launcher_line(line.text) THEN insert_row(row) ELSE launched
           /\ UNCHANGED lost
        \/ /\ parse_launcher_line(line.text)
           /\ lost' = lost \cup {line.n} /\ UNCHANGED launched
  /\ tail' = [tail EXCEPT !.offset = @ + 1]
  /\ UNCHANGED <<files, half, written, notified, cursors, failedDrain>>

(* The end of the file, or of its finished lines.                          *)
EndOfFile ==
  /\ tail.at = "read" /\ tail.offset >= Readable
  /\ tail' = [tail EXCEPT !.at = "save"]
  /\ UNCHANGED <<files, half, written, notified, cursors, launched, failedDrain, lost>>

WriteLauncherCursor ==
  /\ tail.at = "save"
  /\ cursors' = [cursors EXCEPT ![tail.file] = tail.offset]
  /\ tail' = [tail EXCEPT !.at = "wait"]
  /\ UNCHANGED <<files, half, written, notified, launched, failedDrain, lost>>

(* An error ends the drain: the position stays, the cursor is not written. *)
DrainFails ==
  /\ tail.at \in {"open", "read", "save"} /\ tail' = [tail EXCEPT !.at = "wait"] /\ failedDrain' = TRUE
  /\ UNCHANGED <<files, half, written, notified, cursors, launched, lost>>

TrayStops ==
  /\ tail.at # "off" /\ tail' = TailOff /\ notified' = FALSE
  /\ UNCHANGED <<files, half, written, cursors, launched, failedDrain, lost>>
-----------------------------------------------------------------------------
LauncherNext ==
  \/ FinishLine \/ NewDay \/ Rewritten
  \/ \E text \in LauncherTexts : BeginLine(text)
  \/ start_tail \/ Woken \/ OpenFile \/ process_line \/ EndOfFile \/ WriteLauncherCursor
  \/ DrainFails \/ TrayStops

LauncherSpec == LauncherInit /\ [][LauncherNext]_launcherVars
-----------------------------------------------------------------------------
(* A tail that waits with nothing reported has read every finished line of *)
(* its file: no line that came in during a drain is forgotten.  An error   *)
(* leaves lines unread until the next report; a file that was rewritten    *)
(* and grew again is read from the old position.                           *)
LauncherCaughtUp ==
  tail.at = "wait" /\ ~notified /\ ~failedDrain /\ Rewriting \notin lost
    => tail.offset = Whole(tail.file)

(* Each finished line before the cursor of its file is stored exactly      *)
(* once, however often the tray stopped between a row and the cursor,      *)
(* unless its insert failed.                                               *)
LauncherOnce ==
  /\ \A j, k \in DOMAIN launched : launched[j].n = launched[k].n => j = k
  /\ Rewriting \notin lost =>
       \A d \in 1..Newest : \A k \in 1..cursors[d] :
         LET line == files[d][k]
         IN parse_launcher_line(line.text) /\ line.n \notin lost
              => \E j \in DOMAIN launched : launched[j].n = line.n
=============================================================================
