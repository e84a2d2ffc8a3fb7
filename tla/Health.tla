------------------------------- MODULE Health -------------------------------
(***************************************************************************)
(* The health card of the tray client: snapshot_health_inputs reads the    *)
(* workers' statistics, the configuration and the cached system            *)
(* information, current_health (health.rs) derives the list, and           *)
(* dismiss_health appends to the configuration file under a lock that the  *)
(* other writers of that file, and all its readers, do not take.           *)
(* config::save truncates the file and then writes it.  Numbers stand for  *)
(* texts, sizes and times; 0 is None.                                      *)
(***************************************************************************)
EXTENDS Integers, Sequences, FiniteSets, SequencesExt, Lists

CONSTANTS
  HealthCalls,     \* commands that may run at the same time
  SysinfoTtl,      \* SYSINFO_TTL
  LogStale,        \* GAME_LOG_STALE_MIN
  DiskLow,         \* DISK_FREE_LOW_THRESHOLD
  MaxChanges       \* bound on changes of the world, clock and settings (exploration only)

ASSUME HealthBounds ==
  /\ SysinfoTtl \in Nat \ {0} /\ LogStale \in Nat /\ DiskLow \in Nat
  /\ MaxChanges \in Nat

(* HealthId with its severity, in id_order.                                *)
HealthIds == <<"GamelogMissing", "ApiUrlMissing", "PairMissing", "AuthLost", "CookieMissing",
               "SyncFailing", "HangarSkip", "EmailUnverified", "GameLogStale",
               "UpdateAvailable", "DiskFreeLow">>
severity(id) == IF id \in {"AuthLost", "SyncFailing"} THEN 0
                ELSE IF id = "UpdateAvailable" THEN 2 ELSE 1
dismissible_for(id) == severity(id) # 0

Settings == {"override", "enabled", "apiUrl", "token", "origin"}
Facts == {"gamelog", "authLost", "unverified", "cookie", "running", "tailing"}
Numbers == {"syncError", "attempt", "success", "skip", "lastEvent", "version"}

VARIABLES
  facts,        \* subset of Facts that hold
  num,          \* Numbers to Nat
  free,         \* free space on the disk
  configFile,   \* [settings, dismissed (pairs of id and params), anon, is]
  configLock,   \* CONFIG_MUTATION_LOCK
  sysinfo,      \* SYSINFO_CACHE: [stamped, running, free, measured], or stamped = -1
  hclock,
  hcalls,       \* what each command does and has read
  changes,      \* changes of the world so far
  acked,        \* history: dismissals answered Ok
  overrun       \* history: the file lost dismissals that dismiss_health cannot keep

healthVars == <<facts, num, free, configFile, configLock, sysinfo, hclock, hcalls, changes,
                acked, overrun>>
world == <<facts, num, free, hclock, changes>>
hHistory == <<acked, overrun>>

NoHealthCall == [at |-> "free"]
(* A truncated file parses to Config::default; one that was cut inside an  *)
(* entry, or written by two at once, does not parse.                       *)
Emptied == [settings |-> {"apiUrl"}, dismissed |-> {}, anon |-> FALSE, is |-> "empty"]
Broken == [Emptied EXCEPT !.is = "broken"]
NoSysinfo == [stamped |-> -1, running |-> FALSE, free |-> 0, measured |-> -1]

(* A paired tray that starts while the game runs.                          *)
HealthInit ==
  /\ facts = {"gamelog", "running", "tailing"} /\ num = [n \in Numbers |-> 0] /\ free = DiskLow
  /\ configFile = [settings |-> Settings \ {"override"}, dismissed |-> {}, anon |-> FALSE,
                    is |-> "whole"]
  /\ configLock = {} /\ sysinfo = NoSysinfo /\ hclock = 0 /\ changes = 0
  /\ hcalls = [c \in HealthCalls |-> NoHealthCall]
  /\ acked = {} /\ overrun = FALSE
-----------------------------------------------------------------------------
(* External: the game, the disk, the account and the sync worker, and the  *)
(* version that set_update_available stores; the error of a later attempt  *)
(* has another text.                                                       *)
Change(f) == facts' = (facts \ {f}) \cup ({f} \ facts) /\ UNCHANGED <<num, free>>
WorldChanges ==
  /\ changes < MaxChanges /\ changes' = changes + 1
  /\ \/ \E f \in Facts : Change(f)
     \/ \E n \in {"syncError", "version"} : num' = [num EXCEPT ![n] = changes + 1] /\ UNCHANGED <<facts, free>>
     \/ num' = [num EXCEPT !["syncError"] = 0] /\ UNCHANGED <<facts, free>>
     \/ num' = [num EXCEPT !["lastEvent"] = hclock + 1] /\ UNCHANGED <<facts, free>>
     \/ \E b \in 1 .. DiskLow : b # free /\ free' = b /\ UNCHANGED <<facts, num>>
  /\ UNCHANGED <<configFile, configLock, sysinfo, hclock, hcalls, hHistory>>

(* refresh_once of the hangar worker stamps the attempt, and then skips    *)
(* (the game runs, there is no cookie, the cookie is refused), fails, or   *)
(* succeeds.                                                               *)
HangarRefresh ==
  /\ changes < MaxChanges /\ changes' = changes + 1
  /\ \E skip \in 0 .. 3, ok \in BOOLEAN :
       /\ skip = 1 <=> "running" \in facts
       /\ skip = 2 <=> "running" \notin facts /\ "cookie" \notin facts
       /\ ok => skip = 0
       /\ num' = [num EXCEPT !["attempt"] = hclock + 1, !["skip"] = skip,
                             !["success"] = IF ok THEN hclock + 1 ELSE @]
  /\ UNCHANGED <<facts, free, configFile, configLock, sysinfo, hclock, hcalls, hHistory>>

(* The clock.                                                              *)
HealthTick ==
  /\ changes < MaxChanges /\ changes' = changes + 1 /\ hclock' = hclock + 1
  /\ UNCHANGED <<facts, num, free, configFile, configLock, sysinfo, hcalls, hHistory>>
-----------------------------------------------------------------------------
(* config::save (fs::write) has truncated the file and not yet written it. *)
Saving == \E c \in HealthCalls : hcalls[c].at \in {"write", "rewrite"}

(* What is in the file when the write of f returns: f, unless another      *)
(* writer has written since the truncation and more of it remains.         *)
Written(f) == {[f EXCEPT !.is = "whole"]} \cup (IF configFile.is = "empty" THEN {} ELSE {Broken})

(* A write that fails leaves the file empty or cut inside an entry; what a *)
(* cut between entries would keep is left out.                             *)
Cut == {Emptied, Broken}
-----------------------------------------------------------------------------
(* current_health: the items of a snapshot i; params are what makes two    *)
(* occurrences of an item different, and the fingerprint is made of them.  *)
Derived(i) ==
  LET paired == {"apiUrl", "token"} \subseteq i.settings
      When(cond, id, params) == IF cond THEN {<<id, params>>} ELSE {}
  IN  UNION {
        When("gamelog" \notin i.facts /\ "override" \notin i.settings, "GamelogMissing", 0),
        When("enabled" \in i.settings /\ "apiUrl" \notin i.settings, "ApiUrlMissing", 0),
        When({"enabled", "apiUrl"} \subseteq i.settings /\ "token" \notin i.settings, "PairMissing", 0),
        When("authLost" \in i.facts, "AuthLost", 0),
        When(paired /\ "cookie" \notin i.facts /\ i.num["attempt"] # 0, "CookieMissing", 0),
        When(i.num["syncError"] # 0 /\ "authLost" \notin i.facts, "SyncFailing", i.num["syncError"]),
        When(i.num["skip"] # 0 /\ i.num["success"] = 0, "HangarSkip", <<i.num["skip"], i.num["attempt"]>>),
        When("unverified" \in i.facts /\ "origin" \in i.settings, "EmailUnverified", 0),
        When(/\ i.running /\ "tailing" \in i.facts /\ i.num["lastEvent"] # 0
             /\ i.now + 1 - i.num["lastEvent"] >= LogStale, "GameLogStale", i.num["lastEvent"]),
        When(i.num["version"] # 0, "UpdateAvailable", i.num["version"]),
        When(i.free # 0 /\ i.free < DiskLow, "DiskFreeLow", i.free)}

is_dismissed(item, dismissed) == item \in dismissed

id_order(id) == CHOOSE k \in DOMAIN HealthIds : HealthIds[k] = id

(* Severity first, id_order within it; ids have one item at most.          *)
HealthOrder(x) == severity(x[1]) * (Len(HealthIds) + 1) + id_order(x[1])

current_health(i) ==
  LET items == {x \in Derived(i) : ~is_dismissed(x, i.dismissed)}
  IN SortedBy(items, [x \in items |-> HealthOrder(x)])
-----------------------------------------------------------------------------
(* snapshot_health_inputs: the statistics, under their own locks ...       *)
SnapshotStats(c) ==
  /\ hcalls[c].at = "free"
  /\ hcalls' = [hcalls EXCEPT ![c] =
       [at |-> "config", facts |-> facts, num |-> num, now |-> hclock]]
  /\ UNCHANGED <<world, configFile, configLock, sysinfo, hHistory>>

(* ... then the configuration from the file, without the lock, discovery   *)
(* and the cookie; a file that does not parse ends the command ...         *)
SnapshotConfig(c) ==
  LET live == {"gamelog", "cookie"}
      read == [at |-> "sysinfo", facts |-> (hcalls[c].facts \ live) \cup (facts \cap live),
               num |-> hcalls[c].num, now |-> hcalls[c].now, asked |-> -1,
               acked |-> IF Saving THEN {} ELSE acked,
               settings |-> configFile.settings, dismissed |-> configFile.dismissed]
  IN
  /\ hcalls[c].at = "config"
  /\ hcalls' = [hcalls EXCEPT ![c] = IF configFile.is = "broken" THEN NoHealthCall ELSE read]
  /\ UNCHANGED <<world, configFile, configLock, sysinfo, hHistory>>

Fresh(at) == sysinfo.stamped # -1 /\ at - sysinfo.stamped < SysinfoTtl
WithSysinfo(c, s) ==
  [at |-> "derive", facts |-> hcalls[c].facts, num |-> hcalls[c].num,
   now |-> hcalls[c].now, settings |-> hcalls[c].settings, dismissed |-> hcalls[c].dismissed,
   acked |-> hcalls[c].acked, running |-> s.running, free |-> s.free, age |-> hclock - s.measured]

cached_sysinfo(c) ==
  /\ hcalls[c].at = "sysinfo" /\ hcalls[c].asked = -1
  /\ hcalls' = [hcalls EXCEPT ![c] =
       IF Fresh(hclock) THEN WithSysinfo(c, sysinfo) ELSE [@ EXCEPT !.asked = hclock]]
  /\ UNCHANGED <<world, configFile, configLock, sysinfo, hHistory>>

(* ... otherwise compute_sysinfo runs outside the lock, and the entry is   *)
(* stamped with the time before it ran.                                    *)
compute_sysinfo(c) ==
  /\ hcalls[c].at = "sysinfo" /\ hcalls[c].asked # -1
  /\ sysinfo' = [stamped |-> hcalls[c].asked, running |-> "running" \in facts, free |-> free,
                 measured |-> hclock]
  /\ hcalls' = [hcalls EXCEPT ![c] = WithSysinfo(c, sysinfo')]
  /\ UNCHANGED <<world, configFile, configLock, hHistory>>

(* get_health answers with current_health of the snapshot.                 *)
get_health(c) ==
  /\ hcalls[c].at = "derive"
  /\ hcalls' = [hcalls EXCEPT ![c] = NoHealthCall]
  /\ UNCHANGED <<world, configFile, configLock, sysinfo, hHistory>>

(* dismiss_health looks its item up among the live ones (an id that is not *)
(* there is refused: the step of get_health) ...                           *)
DismissFinds(c) ==
  /\ hcalls[c].at = "derive"
  /\ \E item \in Range(current_health(hcalls[c])) :
       hcalls' = [hcalls EXCEPT ![c] =
         IF dismissible_for(item[1]) THEN [at |-> "lock", item |-> item] ELSE NoHealthCall]
  /\ UNCHANGED <<world, configFile, configLock, sysinfo, hHistory>>

(* ... takes the lock and loads the file again (which an unlocked writer   *)
(* may have truncated) ...                                                 *)
DismissLock(c) ==
  /\ hcalls[c].at = "lock" /\ configLock = {}
  /\ \/ /\ configFile.is # "broken" /\ configLock' = {c} /\ overrun' = (overrun \/ Saving)
        /\ hcalls' = [hcalls EXCEPT ![c] = [at |-> "save", item |-> @.item, file |-> configFile]]
     \/ /\ configFile.is = "broken"
        /\ hcalls' = [hcalls EXCEPT ![c] = NoHealthCall] /\ UNCHANGED <<configLock, overrun>>
  /\ UNCHANGED <<world, configFile, sysinfo, acked>>

(* ... appends the item with its fingerprint and saves: the file is        *)
(* truncated, unless it cannot be opened ...                               *)
DismissTruncate(c) ==
  /\ hcalls[c].at = "save"
  /\ \/ /\ configFile' = Emptied /\ hcalls' = [hcalls EXCEPT ![c].at = "write"]
        /\ UNCHANGED configLock
     \/ /\ hcalls' = [hcalls EXCEPT ![c] = NoHealthCall] /\ configLock' = {}
        /\ UNCHANGED configFile
  /\ UNCHANGED <<world, sysinfo, hHistory>>

(* Mutant of DismissSave: the command answers Ok whether it could save.    *)
DismissSaveIgnoresErrors(c) ==
  LET file == hcalls[c].file IN
  /\ hcalls[c].at = "write"
  /\ configFile' \in Cut \cup Written([file EXCEPT !.dismissed = @ \cup {hcalls[c].item}])
  /\ acked' = acked \cup {hcalls[c].item}
  /\ overrun' = (overrun \/ ~(acked \subseteq configFile'.dismissed))
  /\ configLock' = {} /\ hcalls' = [hcalls EXCEPT ![c] = NoHealthCall]
  /\ UNCHANGED <<world, sysinfo>>

(* ... and written, or the write fails; then the lock is let go.           *)
DismissSave(c) ==
  LET file == hcalls[c].file IN
  /\ hcalls[c].at = "write"
  /\ \/ /\ configFile' \in Written([file EXCEPT !.dismissed = @ \cup {hcalls[c].item}])
        /\ acked' = acked \cup {hcalls[c].item}
        /\ overrun' = (overrun \/ configFile' = Broken)
     \/ /\ configFile' \in Cut
        /\ overrun' = (overrun \/ ~(acked \subseteq configFile'.dismissed))
        /\ UNCHANGED acked
  /\ configLock' = {} /\ hcalls' = [hcalls EXCEPT ![c] = NoHealthCall]
  /\ UNCHANGED <<world, sysinfo>>

(* The writers without the lock: get_or_create_client_anon_id, the         *)
(* settings pane's save_config, pair_device and the worker that clears a   *)
(* refused token load the file ...                                         *)
UnlockedLoad(c) ==
  /\ hcalls[c].at = "free" /\ configFile.is # "broken"
  /\ hcalls' = [hcalls EXCEPT ![c] = [at |-> "edit", file |-> configFile]]
  /\ UNCHANGED <<world, configFile, configLock, sysinfo, hHistory>>

(* ... and later truncate it ...                                           *)
UnlockedTruncate(c) ==
  /\ hcalls[c].at = "edit" /\ changes < MaxChanges /\ changes' = changes + 1
  /\ configFile' = Emptied /\ hcalls' = [hcalls EXCEPT ![c].at = "rewrite"]
  /\ UNCHANGED <<facts, num, free, hclock, configLock, sysinfo, hHistory>>

(* What they make of their copy: a new id, a setting edited, a pairing.    *)
Edited(f) ==
  {[f EXCEPT !.anon = TRUE]}
  \cup {[f EXCEPT !.settings = (@ \ {s}) \cup ({s} \ @)] : s \in Settings}
  \cup {[f EXCEPT !.settings = @ \cup {"enabled", "apiUrl", "token"}]}

(* ... and write their copy back, or fail.                                 *)
UnlockedSave(c) ==
  LET file == hcalls[c].file IN
  /\ hcalls[c].at = "rewrite"
  /\ configFile' \in Cut \cup UNION {Written(f) : f \in Edited(file)}
  /\ overrun' = (overrun \/ ~(acked \subseteq configFile'.dismissed))
  /\ hcalls' = [hcalls EXCEPT ![c] = NoHealthCall]
  /\ UNCHANGED <<world, configLock, sysinfo, acked>>
-----------------------------------------------------------------------------
HealthStep(c) ==
  \/ SnapshotStats(c) \/ SnapshotConfig(c) \/ cached_sysinfo(c) \/ compute_sysinfo(c)
  \/ get_health(c) \/ DismissFinds(c) \/ DismissLock(c) \/ DismissTruncate(c)
  \/ DismissSave(c) \/ UnlockedLoad(c) \/ UnlockedTruncate(c) \/ UnlockedSave(c)

HealthNext == WorldChanges \/ HangarRefresh \/ HealthTick \/ \E c \in HealthCalls : HealthStep(c)

HealthSpec == HealthInit /\ [][HealthNext]_healthVars
-----------------------------------------------------------------------------
(* What the card promises: errors are never hidden and lead the list; an   *)
(* item whose dismissal was answered before the file was read is not in    *)
(* the list, and one whose params have changed since is (config.rs, on     *)
(* dismissed_health); the game and disk signals are younger than the       *)
(* limit.  Dismissals are lost only where the lock cannot help: when a     *)
(* writer without it writes an older or a half-read file back, two writes  *)
(* mix, a dismissal loads what such a writer has truncated, or a write     *)
(* fails after the truncation; and a list read during a save may show them.*)
HealthHolds ==
  /\ ~overrun /\ ~Saving => acked \subseteq configFile.dismissed
  /\ \A c \in HealthCalls : hcalls[c].at = "derive" =>
       LET list == current_health(hcalls[c]) IN
       /\ \A x \in Derived(hcalls[c]) : x \in Range(list) \/ (severity(x[1]) # 0 /\ x \in acked)
       /\ ~overrun => Range(list) \cap hcalls[c].acked = {}
       /\ \A j, k \in DOMAIN list : j < k => severity(list[j][1]) <= severity(list[k][1])
       /\ hcalls[c].age < SysinfoTtl
=============================================================================
