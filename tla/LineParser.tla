----------------------------- MODULE LineParser -----------------------------
(***************************************************************************)
(* What becomes of a line of Game.log in the tray client: structural_parse *)
(* and classify (crates/starstats-core/src/parser.rs), the remote rules    *)
(* and their cache (core and client parser_defs.rs), ingest_one_line       *)
(* (gamelog.rs) and the list of noise (storage.rs).  Two workers read      *)
(* lines at once, the tail and the backfill.                               *)
(*                                                                         *)
(* A line is [shell, event, tags, body]: whether it has the shell at all,  *)
(* the name in it or NoName, its trailing tags, and the set of patterns    *)
(* and key words that its body matches (with every number in it readable). *)
(***************************************************************************)
EXTENDS Lists, SequencesExt

CONSTANTS
  GameLines,      \* lines that the game may write
  Manifests,      \* lists of rules that the server may publish
  LineWorkers,    \* the tail and the backfill
  MaxRead         \* bound on lines read (exploration only)

ASSUME ReadBound == MaxRead \in Nat

NoName == "NoName"
Unknown == "unknown"
BuiltinNoise == {"Stream started"}
-----------------------------------------------------------------------------
(* The names that classify knows: the pattern each asks of the body and    *)
(* the event it makes.                                                     *)
SessionShells == {
  <<"Init", "PROCESS_INIT", "process_init">>,
  <<"Legacy login response", "LEGACY_LOGIN", "legacy_login">>,
  <<"Join PU", "JOIN_PU", "join_pu">>,
  <<"Change Server Start", "CHANGE_SERVER", "change_server">>,
  <<"Change Server End", "CHANGE_SERVER", "change_server">>,
  <<"Seed Solar System", "SEED_SS", "seed_solar_system">>,
  <<"Seed Solar System Success", "SEED_SS", "seed_solar_system">>,
  <<"ResolveSpawnLocation Location Not Found", "RESOLVE_SPAWN", "resolve_spawn">>}
PlayShells == {
  <<"Actor Death", "ACTOR_DEATH", "actor_death">>,
  <<"Vehicle Destruction", "VEHICLE_DESTRUCTION", "vehicle_destruction">>,
  <<"SHUDEvent_OnNotification", "HUD_NOTIFICATION", "hud_notification">>,
  <<"Adding non kept item", "PLAYER_DEATH", "player_death">>,
  <<"RequestLocationInventory", "LOCATION_INVENTORY", "location_inventory_requested">>,
  <<"InvalidateAllTerrainCells", "PLANET_TERRAIN", "planet_terrain_load">>,
  <<"CLandingArea::UnregisterFromExternalSystems", "VEHICLE_STOWED", "vehicle_stowed">>,
  <<"AttachmentReceived", "ATTACHMENT_RECEIVED", "attachment_received">>}
TravelShells == {
  <<"Player Selected Quantum Target - Local", "QUANTUM_TARGET", "quantum_target_selected">>,
  <<"Player Requested Fuel to Quantum Target - Server Routing", "QUANTUM_TARGET",
    "quantum_target_selected">>,
  <<"CLocalMissionPhaseMarker::CreateMarker", "MISSION_PHASE", "mission_start">>}
Shells == SessionShells \cup PlayShells \cup TravelShells

(* Those that ask nothing of the body.                                     *)
BareShells == {<<"EndMission", "mission_end">>, <<"SystemQuit", "session_end">>}

(* classify_body_prefix, in its order: key word, pattern it needs, event.  *)
BodyCalls == <<
  <<"CreateMissionObjectiveMarker", {"MISSION_OBJECTIVE"}, "mission_start">>,
  <<"ShopBuyRequest", {}, "shop_buy_request">>,
  <<"ShopFlowResponse", {}, "shop_flow_response">>,
  <<"SendCommodityBuyRequest", {}, "commodity_buy_request">>,
  <<"SendCommoditySellRequest", {}, "commodity_sell_request">>,
  <<"CCIGBroker::FastShutdown", {}, "session_end">> >>

classify_body_prefix(body) ==
  LET k == SelectInSeq(BodyCalls, LAMBDA c : c[1] \in body)
  IN IF k = 0 \/ ~(BodyCalls[k][2] \subseteq body) THEN Unknown ELSE BodyCalls[k][3]

(* structural_parse: blank lines, banners and continuations have no shell. *)
structural_parse(line) == line.shell

(* classify: a known name whose body does not match ends it (the ? of the  *)
(* match arms); only a name that is not known looks into the body.  An     *)
(* Init without its tag is not known.                                      *)
classify(line) ==
  LET known == {s \in Shells : s[1] = line.event /\ (s[1] = "Init" => "ProcessInit" \in line.tags)}
      bare == {s \in BareShells : s[1] = line.event}
      event(s) == IF s[3] = "hud_notification" /\ "Incapacitated:" \in line.body
                  THEN "player_incapacitated" ELSE s[3]
  IN IF bare # {} THEN (CHOOSE s \in bare : TRUE)[2]
     ELSE IF known = {} THEN classify_body_prefix(line.body)
     ELSE LET s == CHOOSE s \in known : TRUE
          IN IF s[2] \in line.body THEN event(s) ELSE Unknown

(* compile_rules drops a rule whose pattern does not compile.              *)
compile_rules(manifest) == Filtered(manifest, {r \in ToSet(manifest) : r.compiles})

(* apply_remote_rules: the first rule whose anchor matches decides; if its *)
(* pattern does not match, none after it is tried.                         *)
Anchored(line, rule) ==
  CASE rule.match_kind = "event_name" -> line.event = rule.event_name
    [] rule.match_kind = "body_keyword" -> rule.event_name \in line.body
apply_remote_rules(line, rs) ==
  LET k == SelectInSeq(rs, LAMBDA r : Anchored(line, r))
  IN IF k = 0 \/ rs[k].regex \notin line.body THEN Unknown ELSE rs[k].id
-----------------------------------------------------------------------------
VARIABLES
  published,   \* the server's manifest, external
  cached,      \* SQLite: parser_def_manifest, <<>> before the first fetch
  fetcher,     \* "idle", or the manifest that was written and is not yet active
  rules,       \* RuleCache: the compiled rules
  noise,       \* SQLite: event_noise_list
  samples,     \* SQLite: unknown_event_samples: names
  worker,      \* [LineWorkers -> NoName, or the name about to be recorded]
  parsed,      \* history: [line, as] for every line read, in order
  raced,       \* history: names that became noise while being recorded
  counts       \* TailStats, of all workers: [outcome -> lines]

parserVars == <<published, cached, fetcher, rules, noise, samples, worker, parsed, raced, counts>>

Outcomes == {"skipped", "noise", "structural_only", "recognised"}

ParserInit ==
  /\ published \in Manifests
  /\ cached = <<>> /\ fetcher = "idle" /\ rules = <<>>
  /\ noise = BuiltinNoise /\ samples = {}
  /\ worker = [w \in LineWorkers |-> NoName]
  /\ parsed = <<>> /\ raced = {} /\ counts = [o \in Outcomes |-> 0]

Count(o) == counts' = [counts EXCEPT ![o] = @ + 1]

(* Mutant of Outcome: the remote rules come first.                         *)
OutcomeRemoteFirst(line, rs) ==
  IF apply_remote_rules(line, rs) # Unknown THEN apply_remote_rules(line, rs) ELSE classify(line)

(* The event of a line: the built-in one, else the remote one.             *)
Outcome(line, rs) ==
  IF classify(line) # Unknown THEN classify(line) ELSE apply_remote_rules(line, rs)

(* ingest_one_line up to is_noise; recording a sample is another           *)
(* statement.                                                              *)
IngestLine(w, line) ==
  /\ worker[w] = NoName /\ Len(parsed) < MaxRead
  /\ parsed' = Append(parsed, [line |-> line, as |->
       IF structural_parse(line) THEN Outcome(line, rules) ELSE Unknown])
  /\ IF ~structural_parse(line) THEN Count("skipped") /\ UNCHANGED worker
     ELSE IF Outcome(line, rules) # Unknown THEN Count("recognised") /\ UNCHANGED worker
     ELSE IF line.event \in noise THEN Count("noise") /\ UNCHANGED worker
     ELSE /\ Count("structural_only")
          /\ worker' = [worker EXCEPT ![w] = line.event]     \* NoName: nothing to record
  /\ UNCHANGED <<published, cached, fetcher, rules, noise, samples, raced>>

(* record_unknown                                                          *)
RecordSample(w) ==
  /\ worker[w] # NoName
  /\ samples' = samples \cup {worker[w]}
  /\ raced' = IF worker[w] \in noise THEN raced \cup {worker[w]} ELSE raced
  /\ worker' = [worker EXCEPT ![w] = NoName]
  /\ UNCHANGED <<published, cached, fetcher, rules, noise, parsed, counts>>

(* add_noise, both statements under one lock.                              *)
mark_event_as_noise(name) ==
  /\ noise' = noise \cup {name} /\ samples' = samples \ {name}
  /\ UNCHANGED <<published, cached, fetcher, rules, worker, parsed, raced, counts>>

(* fetch_once: the manifest goes to SQLite, then its rules are compiled    *)
(* and become active.  An error before leaves everything as it is.         *)
fetch_once ==
  /\ fetcher = "idle"
  /\ cached' = published /\ fetcher' = "written"
  /\ UNCHANGED <<published, rules, noise, samples, worker, parsed, raced, counts>>

replace ==
  /\ fetcher = "written" /\ fetcher' = "idle"
  /\ rules' = compile_rules(cached)
  /\ UNCHANGED <<published, cached, noise, samples, worker, parsed, raced, counts>>

(* The tray starts again: Storage::open adds the built-in noise and purges *)
(* the samples, hydrate_from_storage compiles what is cached.              *)
ParserRestart ==
  /\ noise' = noise \cup BuiltinNoise /\ samples' = samples \ noise' /\ raced' = {}
  /\ rules' = compile_rules(cached) /\ fetcher' = "idle"
  /\ worker' = [w \in LineWorkers |-> NoName]
  /\ UNCHANGED <<published, cached, parsed, counts>>

(* External: another manifest is published.                                *)
Publish(manifest) ==
  /\ published' = manifest
  /\ UNCHANGED <<cached, fetcher, rules, noise, samples, worker, parsed, raced, counts>>
-----------------------------------------------------------------------------
ParserNext ==
  \/ fetch_once \/ replace \/ ParserRestart
  \/ \E manifest \in Manifests : Publish(manifest)
  \/ \E line \in GameLines : line.event # NoName /\ mark_event_as_noise(line.event)
  \/ \E w \in LineWorkers :
       RecordSample(w) \/ \E line \in GameLines : IngestLine(w, line)

ParserSpec == ParserInit /\ [][ParserNext]_parserVars
-----------------------------------------------------------------------------
(* No manifest changes what the built-in rules make of a line: whichever   *)
(* rules were active when it was read, and whichever are now.  The         *)
(* rules in memory are those a restart would find, but while a fetch is    *)
(* between its two writes; the tray's count is of the lines made events.   *)
RulesOnlyAdd ==
  /\ \A k \in DOMAIN parsed :
       LET line == parsed[k].line
       IN structural_parse(line) /\ classify(line) # Unknown =>
            parsed[k].as = classify(line) /\ Outcome(line, rules) = classify(line)
  /\ fetcher = "idle" => rules = compile_rules(cached)
  /\ counts["recognised"] = Cardinality({k \in DOMAIN parsed : parsed[k].as # Unknown})

(* What was marked as noise is not among the samples, unless a worker had  *)
(* already asked is_noise when it was marked (and then until the next      *)
(* start).                                                                 *)
NoiseNotSampled == samples \cap noise \subseteq raced
=============================================================================
