----------------------------- MODULE RsiProfile -----------------------------
(***************************************************************************)
(* An account's tie to its RSI handle in crates/starstats-server: the code *)
(* placed in the public bio (rsi_verify_routes.rs, rsi_verify.rs) and the  *)
(* snapshots of the profile and of the organisations read from the RSI     *)
(* pages (rsi_profile_routes.rs, rsi_org_routes.rs and their stores).      *)
(* Every request reads the row, talks to RSI for up to ten seconds and     *)
(* writes without looking at the row again.                                *)
(***************************************************************************)
EXTENDS Integers, Sequences, FiniteSets, SequencesExt, Lists

CONSTANTS
  RsiCalls,       \* requests in progress
  VerifyTtl,      \* RSI_VERIFY_TTL, in ticks
  Cooldown,       \* PROFILE_REFRESH_COOLDOWN, RSI_ORGS_REFRESH_COOLDOWN
  MaxCodes,       \* bound on codes issued (exploration only)
  RsiHorizon      \* bound on the clock (exploration only)

ASSUME RsiBounds == VerifyTtl \in Nat \ {0} /\ Cooldown \in Nat /\ MaxCodes \in Nat /\ RsiHorizon \in Nat

NoCode == 0
Never == -1
NoRsiCall == [at |-> "free"]

(* The blocks of an organisations page: whether SID and name are readable, *)
(* and the class that marks the main organisation.                         *)
OrgBlock == [readable : BOOLEAN, main : BOOLEAN]
OrgPages == UNION {[1..n -> OrgBlock] : n \in 0..2}

VARIABLES
  rsiClock,
  rsiRow,         \* [verified, code, expires] of the account
  expiry,         \* history: [code -> when it expires], of all codes issued
  bio,            \* the code in the public bio, which the handle's owner edits
  rsiCall,        \* [RsiCalls -> progress of a request]
  rsiProven,      \* history: a code was seen in the bio that had not expired
                  \* when its check was asked for
  profileAt,      \* captured_at of the profile snapshots
  orgsAt,         \* captured_at of the organisations snapshot, Never: none
  rsiOrgs         \* the organisations snapshot

rsiVars == <<rsiClock, rsiRow, expiry, bio, rsiCall, rsiProven, profileAt, orgsAt, rsiOrgs>>
snapshots == <<profileAt, orgsAt, rsiOrgs>>

RsiInit ==
  /\ rsiClock = 0
  /\ rsiRow = [verified |-> FALSE, code |-> NoCode, expires |-> Never]
  /\ expiry = <<>> /\ bio = NoCode
  /\ rsiCall = [c \in RsiCalls |-> NoRsiCall]
  /\ rsiProven = FALSE
  /\ profileAt = {} /\ orgsAt = Never /\ rsiOrgs = <<>>

RsiGo(c, step) == rsiCall' = [rsiCall EXCEPT ![c] = step]
RsiEnds(c) == RsiGo(c, NoRsiCall)
-----------------------------------------------------------------------------
(* Mutant of StartRead: a fresh code every time.                           *)
StartReadFresh(c) ==
  /\ rsiCall[c] = NoRsiCall /\ ~rsiRow.verified
  /\ RsiGo(c, [at |-> "set", expires |-> rsiClock + VerifyTtl, seen |-> Len(expiry)])
  /\ UNCHANGED <<rsiClock, rsiRow, expiry, bio, rsiProven, snapshots>>

(* start: a code that is still valid is shown again; otherwise one is made *)
(* and written.                                                            *)
StartRead(c) ==
  /\ rsiCall[c] = NoRsiCall /\ ~rsiRow.verified
  /\ rsiRow.code = NoCode \/ rsiRow.expires <= rsiClock
  /\ RsiGo(c, [at |-> "set", expires |-> rsiClock + VerifyTtl, seen |-> Len(expiry)])
  /\ UNCHANGED <<rsiClock, rsiRow, expiry, bio, rsiProven, snapshots>>

set_rsi_verify_code(c) ==
  /\ rsiCall[c].at = "set" /\ RsiEnds(c)
  /\ Len(expiry) < MaxCodes /\ expiry' = Append(expiry, rsiCall[c].expires)
  /\ rsiRow' = [rsiRow EXCEPT !.code = Len(expiry'), !.expires = rsiCall[c].expires]
  /\ UNCHANGED <<rsiClock, bio, rsiProven, snapshots>>

(* verify                                                                  *)
VerifyRead(c) ==
  /\ rsiCall[c] = NoRsiCall /\ ~rsiRow.verified /\ rsiRow.code # NoCode
  /\ rsiRow.expires > rsiClock
  /\ RsiGo(c, [at |-> "bio", code |-> rsiRow.code, read |-> rsiClock])
  /\ UNCHANGED <<rsiClock, rsiRow, expiry, bio, rsiProven, snapshots>>

(* Contained; or not, no such page, or RSI unavailable.                    *)
check_bio(code) == {FALSE, bio = code}

CheckAnswered(c) ==
  /\ rsiCall[c].at = "bio"
  /\ \/ /\ TRUE \in check_bio(rsiCall[c].code)
        /\ RsiGo(c, [at |-> "mark"])
        /\ rsiProven' = (rsiProven \/ expiry[rsiCall[c].code] > rsiCall[c].read)
     \/ /\ FALSE \in check_bio(rsiCall[c].code)
        /\ RsiEnds(c) /\ UNCHANGED rsiProven
  /\ UNCHANGED <<rsiClock, rsiRow, expiry, bio, snapshots>>

mark_rsi_verified(c) ==
  /\ rsiCall[c].at = "mark" /\ RsiEnds(c)
  /\ rsiRow' = [verified |-> TRUE, code |-> NoCode, expires |-> Never]
  /\ UNCHANGED <<rsiClock, expiry, bio, rsiProven, snapshots>>

(* The owner of the handle edits the bio; time passes.                     *)
BioEdited ==
  /\ bio' \in {NoCode} \cup DOMAIN expiry
  /\ UNCHANGED <<rsiClock, rsiRow, expiry, rsiCall, rsiProven, snapshots>>

RsiTick ==
  /\ rsiClock < RsiHorizon /\ rsiClock' = rsiClock + 1
  /\ UNCHANGED <<rsiRow, expiry, bio, rsiCall, rsiProven, snapshots>>
-----------------------------------------------------------------------------
(* latest_for_user                                                         *)
latest(times) == IF times = {} THEN Never ELSE CHOOSE t \in times : \A u \in times : u <= t

Cooled(last) == last = Never \/ last + Cooldown <= rsiClock

(* refresh of the profile: the snapshot carries the time of the request.   *)
ProfileStart(c) ==
  /\ rsiCall[c] = NoRsiCall /\ rsiRow.verified /\ Cooled(latest(profileAt))
  /\ RsiGo(c, [at |-> "profile", now |-> rsiClock])
  /\ UNCHANGED <<rsiClock, rsiRow, expiry, bio, rsiProven, snapshots>>

(* A second row of the same time is refused.                               *)
save_profile(now) == profileAt' = profileAt \cup {now}

(* fetch_profile, which may fail, and save.                                *)
ProfileSave(c) ==
  /\ rsiCall[c].at = "profile" /\ RsiEnds(c)
  /\ save_profile(rsiCall[c].now) \/ UNCHANGED profileAt
  /\ UNCHANGED <<rsiClock, rsiRow, expiry, bio, rsiProven, orgsAt, rsiOrgs>>

OrgsStart(c) ==
  /\ rsiCall[c] = NoRsiCall /\ rsiRow.verified /\ Cooled(orgsAt)
  /\ RsiGo(c, [at |-> "orgs"])
  /\ UNCHANGED <<rsiClock, rsiRow, expiry, bio, rsiProven, snapshots>>

(* parse_orgs_html: a block without SID or name is skipped.                *)
parse_orgs_html(page) == Filtered(page, {b \in OrgBlock : b.readable})

(* sanitise_orgs: only the first of several main organisations is main.    *)
sanitise_orgs(orgs) ==
  [k \in DOMAIN orgs |->
     [orgs[k] EXCEPT !.main = @ /\ \A j \in 1..(k - 1) : ~orgs[j].main]]

(* The snapshot carries the time of the write.                             *)
save_orgs(orgs) == rsiOrgs' = orgs /\ orgsAt' = rsiClock

(* fetch_orgs and save                                                     *)
OrgsSave(c) ==
  /\ rsiCall[c].at = "orgs" /\ RsiEnds(c)
  /\ \E page \in OrgPages : save_orgs(sanitise_orgs(parse_orgs_html(page)))
  /\ UNCHANGED <<rsiClock, rsiRow, expiry, bio, rsiProven, profileAt>>

OrgsFail(c) ==
  /\ rsiCall[c].at = "orgs" /\ RsiEnds(c)
  /\ UNCHANGED <<rsiClock, rsiRow, expiry, bio, rsiProven, snapshots>>
-----------------------------------------------------------------------------
RsiNext ==
  \/ BioEdited \/ RsiTick
  \/ \E c \in RsiCalls :
       \/ StartRead(c) \/ set_rsi_verify_code(c)
       \/ VerifyRead(c) \/ CheckAnswered(c) \/ mark_rsi_verified(c)
       \/ ProfileStart(c) \/ ProfileSave(c) \/ OrgsStart(c) \/ OrgsSave(c) \/ OrgsFail(c)

RsiSpec == RsiInit /\ [][RsiNext]_rsiVars
-----------------------------------------------------------------------------
(* Types; a code in the row is one that was issued, with its expiry.       *)
RsiTypeOK ==
  /\ rsiClock \in 0..RsiHorizon /\ bio \in {NoCode} \cup DOMAIN expiry
  /\ rsiRow.code # NoCode => rsiRow.expires = expiry[rsiRow.code]
  /\ profileAt \subseteq 0..RsiHorizon /\ orgsAt \in {Never} \cup 0..RsiHorizon

(* A handle counts as verified only after its owner had a code of this     *)
(* account in the bio that was still valid when the check was asked for    *)
(* (verify reads the code, RSI answers, and only then the row is marked).  *)
VerifiedByOwner == rsiRow.verified => rsiProven

(* A code the user may be pasting stays good: a valid one is replaced only *)
(* by a start that overlapped the one that issued it (start reuses it).    *)
CodeKept ==
  rsiRow.code # NoCode /\ rsiRow.expires > rsiClock /\ rsiRow'.code \notin {rsiRow.code, NoCode}
    => \E c \in RsiCalls : rsiCall[c].at = "set" /\ rsiCall[c].seen < rsiRow.code

(* Whatever the page says, at most one organisation is the main one        *)
(* (sanitise_orgs).                                                        *)
OneMainOrg == Cardinality({k \in DOMAIN rsiOrgs : rsiOrgs[k].main}) <= 1
=============================================================================
