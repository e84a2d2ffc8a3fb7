------------------------------- MODULE Reparse -------------------------------
(***************************************************************************)
(* The two maintenance commands of the tray, next to the live tail and the *)
(* sync worker on one SQLite file: reparse_events (re-classify in place,   *)
(* promote an unknown sample, fold bursts into summaries) and              *)
(* reingest_rotated_logs (walk the archived file again from offset 0), in  *)
(* crates/starstats-client/src/commands.rs over storage.rs.                *)
(*                                                                         *)
(* A line is its offset in one log_source.  Storage's mutex makes each of  *)
(* its methods one step; between two of them anything else may run.  The   *)
(* lines of BurstLines match a burst rule, those of Late are recognised    *)
(* only by the rules fetched later, those of Refined get another payload   *)
(* from them.  All Late lines have one event_name.                         *)
(***************************************************************************)
EXTENDS Integers, FiniteSetsExt, TLC

CONSTANTS
  LogLength,     \* lines of the log
  BurstLines, Late, Refined,
  MinBurst,      \* BurstRule.min_burst_size
  PageSize,      \* the batch_size of for_each_event
  MaxRowIds      \* bound on the ids handed out (exploration only)

ASSUME ReparseAssumption ==
  /\ LogLength \in Nat /\ MaxRowIds \in Nat /\ MinBurst \in Nat \ {0}
  /\ PageSize \in Nat \ {0}
  /\ BurstLines \subseteq 1..LogLength
  /\ Late \subseteq 1..LogLength /\ Refined \subseteq 1..LogLength

LogLines == 1..LogLength

(* The PageSize rows of S with the smallest ids.                           *)
FirstRows(S) == {r \in S : Cardinality({s \in S : s.id < r.id}) < PageSize}

VARIABLES
  ingested,    \* lines of the log the live tail has read
  ruleSet,     \* 0: built-ins, 1: with the remote rules fetched since
  evRows,      \* rows of events: [id, key, line, offset, class]
  lastRowId,   \* AUTOINCREMENT
  sample,      \* the line of the unknown_event_samples row, 0: none
  syncedTo,    \* sync_cursor.last_event_id
  inFlight,    \* rows of the batch the sync worker is sending
  serverKeys,  \* keys of the events the server has
  walk,        \* where reparse_events is, and its locals
  rewalk,      \* the next line reingest_rotated_logs reads (0: off), its rules
  collapsed    \* history: keys of the summaries inserted

reparseVars == <<ingested, ruleSet, evRows, lastRowId, sample, syncedTo, inFlight,
                 serverKeys, walk, rewalk, collapsed>>

Recognised(p, r) == p \in Late => r = 1
Class(p, r) == IF p \in Refined /\ r = 1 THEN "refined" ELSE "plain"

(* gamelog::idempotency_key, reparse_idempotency_key, and the key of a     *)
(* summary: anchor line, rule and size.                                    *)
LineKey(p) == <<"line", p, p, 0>>
SampleKey(p) == <<"sample", p, 0, 0>>
BurstKey(anchor, size) == <<"burst", anchor.line, anchor.offset, size>>

EvKeys == {r.key : r \in evRows}

NoWalk == [at |-> "off", rules |-> 0, last |-> 0, batch |-> {}, promote |-> 0, hits |-> {}, doomed |-> {}]
WalkTo(fields) == walk' = [f \in DOMAIN walk |-> IF f \in DOMAIN fields THEN fields[f] ELSE walk[f]]

ReparseInit ==
  /\ ingested = 0 /\ ruleSet = 0
  /\ evRows = {} /\ lastRowId = 0 /\ sample = 0
  /\ syncedTo = 0 /\ inFlight = {} /\ serverKeys = {}
  /\ walk = NoWalk
  /\ rewalk = [next |-> 0, rules |-> 0]
  /\ collapsed = {}
-----------------------------------------------------------------------------
(* Storage::insert_event: ON CONFLICT(idempotency_key) DO NOTHING.         *)
insert_event(key, class) ==
  IF key \in EvKeys
    THEN UNCHANGED <<evRows, lastRowId>>
    ELSE /\ lastRowId < MaxRowIds
         /\ lastRowId' = lastRowId + 1
         /\ evRows' = evRows \cup {[id |-> lastRowId + 1, key |-> key, line |-> key[2],
                                  offset |-> key[3], class |-> class]}

(* ingest_one_line: a recognised line is inserted, another one becomes the *)
(* sample of its event name.                                               *)
record_unknown(p) == sample' = p
delete_unknown == sample' = 0

ingest_one_line(p, r) ==
  IF Recognised(p, r)
    THEN /\ insert_event(LineKey(p), Class(p, r))
         /\ UNCHANGED sample
    ELSE record_unknown(p) /\ UNCHANGED <<evRows, lastRowId>>

(* The live tail reads the next line alone.                                *)
TailLine ==
  /\ ingested < LogLength
  /\ ingested' = ingested + 1
  /\ ingest_one_line(ingested + 1, ruleSet)
  /\ UNCHANGED <<ruleSet, syncedTo, inFlight, serverKeys, walk, rewalk, collapsed>>

(* process_buffer on lines that arrive together and make a burst: only the *)
(* summary is stored, under the key a re-parse would give it.              *)
TailBurst ==
  /\ \E n \in MinBurst..LogLength :
       /\ (ingested + 1)..(ingested + n) \subseteq BurstLines
       /\ LET key == BurstKey([line |-> ingested + 1, offset |-> ingested + 1], n) IN
            insert_event(key, "summary") /\ collapsed' = collapsed \cup {key}
       /\ ingested' = ingested + n
  /\ UNCHANGED <<ruleSet, sample, syncedTo, inFlight, serverKeys, walk, rewalk>>

(* parser_defs: a new manifest is compiled into the cache.                 *)
FetchRules ==
  /\ ruleSet = 0 /\ ruleSet' = 1
  /\ UNCHANGED <<ingested, evRows, lastRowId, sample, syncedTo, inFlight, serverKeys,
                 walk, rewalk, collapsed>>

(* run_reingest on the rotated file, with the rules of its start.          *)
ReingestStart ==
  /\ rewalk.next = 0 /\ ingested > 0
  /\ rewalk' = [next |-> 1, rules |-> ruleSet]
  /\ UNCHANGED <<ingested, ruleSet, evRows, lastRowId, sample, syncedTo, inFlight,
                 serverKeys, walk, collapsed>>

ReingestLine ==
  /\ rewalk.next > 0
  /\ ingest_one_line(rewalk.next, rewalk.rules)
  /\ rewalk' = [rewalk EXCEPT !.next = IF @ = ingested THEN 0 ELSE @ + 1]
  /\ UNCHANGED <<ingested, ruleSet, syncedTo, inFlight, serverKeys, walk, collapsed>>
-----------------------------------------------------------------------------
ReparseStart ==
  /\ walk.at = "off" /\ evRows # {}
  /\ walk' = [NoWalk EXCEPT !.at = "read", !.rules = ruleSet]
  /\ UNCHANGED <<ingested, ruleSet, evRows, lastRowId, sample, syncedTo, inFlight,
                 serverKeys, rewalk, collapsed>>

(* Mutant of Page: the walk goes on behind the newest row of the table.    *)
PageToEnd == [batch |-> FirstRows({r \in evRows : r.id > walk.last}), last |-> lastRowId]

(* for_each_event's SELECT: the first PageSize rows above the last id.     *)
Page ==
  LET batch == FirstRows({r \in evRows : r.id > walk.last})
  IN [batch |-> batch, last |-> IF batch = {} THEN walk.last ELSE Max({r.id : r \in batch})]

(* Phase 1: one page of rows, read under the lock and used after it is     *)
(* released; no rows left ends the phase and reads the samples.            *)
ReadBatch ==
  /\ walk.at = "read"
  /\ IF Page.batch = {} THEN WalkTo([at |-> "promote", promote |-> sample])
                        ELSE WalkTo([at |-> "update", batch |-> Page.batch, last |-> Page.last])
  /\ UNCHANGED <<ingested, ruleSet, evRows, lastRowId, sample, syncedTo, inFlight,
                 serverKeys, rewalk, collapsed>>

(* update_event_classification: whatever the row is now.                   *)
update_event_classification(id, class) ==
  evRows' = {IF r.id = id THEN [r EXCEPT !.class = class] ELSE r : r \in evRows}

(* The closure on the next row of the batch.  The raw line decides, and a  *)
(* summary's raw line is its anchor's: nothing here asks whether the row   *)
(* is a burst_summary.  A line the rules do not know is left alone.        *)
UpdateRow ==
  /\ walk.at = "update"
  /\ \E row \in walk.batch :
       /\ \A other \in walk.batch : row.id =< other.id
       /\ LET class == Class(row.line, walk.rules) IN
            IF Recognised(row.line, walk.rules) /\ class # row.class
              THEN update_event_classification(row.id, class)
              ELSE UNCHANGED evRows
       /\ WalkTo([batch |-> walk.batch \ {row},
                at |-> IF walk.batch = {row} THEN "read" ELSE "update"])
  /\ UNCHANGED <<ingested, ruleSet, lastRowId, sample, syncedTo, inFlight, serverKeys,
                 rewalk, collapsed>>

(* Phase 2: the sample read before is inserted under a key of its own.     *)
Promote ==
  /\ walk.at = "promote"
  /\ \/ /\ walk.promote # 0 /\ Recognised(walk.promote, walk.rules)
        /\ insert_event(SampleKey(walk.promote), Class(walk.promote, walk.rules))
        /\ WalkTo([at |-> "forget"])
     \/ /\ walk.promote = 0 \/ ~Recognised(walk.promote, walk.rules)
        /\ WalkTo([at |-> "scan"])
        /\ UNCHANGED <<evRows, lastRowId>>
  /\ UNCHANGED <<ingested, ruleSet, sample, syncedTo, inFlight, serverKeys, rewalk, collapsed>>

(* delete_unknown: by event name, whichever line the sample holds by now.  *)
ForgetSample ==
  /\ walk.at = "forget"
  /\ delete_unknown
  /\ WalkTo([at |-> "scan"])
  /\ UNCHANGED <<ingested, ruleSet, evRows, lastRowId, syncedTo, inFlight, serverKeys,
                 rewalk, collapsed>>

(* Phase 3: the rows in the order of the scan, source_offset then id, and  *)
(* the longest runs of burst lines in them.                                *)
Before(a, b) == a.offset < b.offset \/ (a.offset = b.offset /\ a.id < b.id)
Between(a, c, b) == (Before(a, c) /\ Before(c, b)) \/ (Before(b, c) /\ Before(c, a))

RunsOf(scan) ==
  LET Together(a, b) == \A c \in scan : Between(a, c, b) => c.line \in BurstLines
      bursty == {r \in scan : r.line \in BurstLines}
  IN {run \in {{b \in bursty : Together(a, b)} : a \in bursty} : Cardinality(run) >= MinBurst}

Hit(run) ==
  LET anchor == CHOOSE a \in run : \A b \in run \ {a} : Before(a, b)
  IN [key |-> BurstKey(anchor, Cardinality(run)), ids |-> {r.id : r \in run}]

events_for_burst_scan == {r \in evRows : r.class # "summary"}

ScanBursts ==
  /\ walk.at = "scan"
  /\ LET hits == {Hit(run) : run \in RunsOf(events_for_burst_scan)} IN
       IF hits = {} THEN walk' = NoWalk ELSE WalkTo([at |-> "fold", hits |-> hits])
  /\ UNCHANGED <<ingested, ruleSet, evRows, lastRowId, sample, syncedTo, inFlight,
                 serverKeys, rewalk, collapsed>>

(* The summary of the next hit.  When it cannot be stored the hit is       *)
(* skipped and its members stay.                                           *)
FoldBurst ==
  /\ walk.at = "fold"
  /\ \E hit \in walk.hits :
       \/ /\ insert_event(hit.key, "summary")
          /\ collapsed' = collapsed \cup {hit.key}
          /\ WalkTo([hits |-> walk.hits \ {hit}, doomed |-> hit.ids, at |-> "delete"])
       \/ /\ IF walk.hits = {hit} THEN walk' = NoWalk ELSE WalkTo([hits |-> walk.hits \ {hit}])
          /\ UNCHANGED <<evRows, lastRowId, collapsed>>
  /\ UNCHANGED <<ingested, ruleSet, sample, syncedTo, inFlight, serverKeys, rewalk>>

(* delete_event_by_id for the members, one statement each.                 *)
delete_event_by_id(id) == evRows' = {r \in evRows : r.id # id}

DeleteMember ==
  /\ walk.at = "delete"
  /\ LET id == Min(walk.doomed) IN
       /\ delete_event_by_id(id)
       /\ IF walk.doomed # {id} THEN WalkTo([doomed |-> walk.doomed \ {id}])
          ELSE IF walk.hits = {} THEN walk' = NoWalk
          ELSE WalkTo([doomed |-> {}, at |-> "fold"])
  /\ UNCHANGED <<ingested, ruleSet, lastRowId, sample, syncedTo, inFlight, serverKeys,
                 rewalk, collapsed>>
-----------------------------------------------------------------------------
(* drain_once: read_unsent, then the answer and the cursor.  Failures and  *)
(* retries are EventDelivery's subject; here a batch may come to nothing.  *)
SyncRead ==
  /\ inFlight = {}
  /\ inFlight' = {r \in evRows : r.id > syncedTo}
  /\ inFlight' # {}
  /\ UNCHANGED <<ingested, ruleSet, evRows, lastRowId, sample, syncedTo, serverKeys,
                 walk, rewalk, collapsed>>

SyncAnswered ==
  /\ inFlight # {}
  /\ \/ /\ serverKeys' = serverKeys \cup {r.key : r \in inFlight}
        /\ syncedTo' = Max({r.id : r \in inFlight})
     \/ UNCHANGED <<serverKeys, syncedTo>>
  /\ inFlight' = {}
  /\ UNCHANGED <<ingested, ruleSet, evRows, lastRowId, sample, walk, rewalk, collapsed>>

(* The tray ends anywhere: SQLite and the manifest it caches survive.      *)
TrayEnds ==
  /\ walk # NoWalk \/ rewalk.next # 0
  /\ walk' = NoWalk
  /\ rewalk' = [next |-> 0, rules |-> 0]
  /\ inFlight' = {}
  /\ UNCHANGED <<ingested, ruleSet, evRows, lastRowId, sample, syncedTo, serverKeys,
                 collapsed>>

ReparseNext ==
  \/ TailLine \/ TailBurst \/ FetchRules
  \/ ReingestStart \/ ReingestLine
  \/ ReparseStart \/ ReadBatch \/ UpdateRow \/ Promote \/ ForgetSample
  \/ ScanBursts \/ FoldBurst \/ DeleteMember
  \/ SyncRead \/ SyncAnswered
  \/ TrayEnds

ReparseSpec == ReparseInit /\ [][ReparseNext]_reparseVars
-----------------------------------------------------------------------------
(* Types.                                                                  *)
ReparseTypeOK ==
  /\ ingested \in 0..LogLength /\ ruleSet \in 0..1 /\ sample \in 0..LogLength
  /\ lastRowId \in 0..MaxRowIds /\ syncedTo \in 0..lastRowId
  /\ \A r \in evRows \cup inFlight : r.id \in 1..lastRowId /\ r.line \in LogLines
                                     /\ r.class \in {"plain", "refined", "summary"}
  /\ \A r, s \in evRows : r # s => r.id # s.id /\ r.key # s.key

(* Past its first phase a re-parse has classified every row it walked by  *)
(* its own rules, whatever the tail and a re-ingest inserted meanwhile and *)
(* however the pages fell.                                                 *)
ReclassifiedAll ==
  walk.at \in {"promote", "forget"} =>
    \A r \in evRows : r.id =< walk.last /\ Recognised(r.line, walk.rules) =>
                        r.class = Class(r.line, walk.rules)

(* An event behind the cursor is on the server, also when rows before and  *)
(* after it were folded away while a batch was on its way.                 *)
SentIsSynced == \A r \in evRows : r.id =< syncedTo => r.key \in serverKeys

(* commands.rs 946-949: "deleting members can never delete the summary we  *)
(* just wrote".                                                            *)
SummaryKept == collapsed \subseteq EvKeys
=============================================================================
