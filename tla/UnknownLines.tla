---------------------------- MODULE UnknownLines ----------------------------
(***************************************************************************)
(* Unrecognised lines on their way to a moderator: capture scores a line   *)
(* and finds its private tokens, cache_unknown_line groups it by shape in  *)
(* SQLite, the review pane lists, dismisses and submits shapes, and the    *)
(* server's parser_submissions adds them up per shape and install.  A line *)
(* is its shape, its tag, what the score looks at and where its private    *)
(* tokens are; context and notes travel along and are left out.            *)
(***************************************************************************)
EXTENDS Integers, Sequences, FiniteSets, SequencesExt, FiniteSetsExt

CONSTANTS
  OddLines,        \* lines: [shape, tag, has (subset of Traits), marks ([kind, at])]
  KnownTags,       \* shell tags the parser knows
  RuleTags,        \* those with a remote rule
  RawCap,          \* RAW_EXAMPLES_CAP
  BatchCap,        \* MAX_BATCH_SIZE
  SubmitCalls,     \* submissions that may run at the same time
  MaxCaptures,     \* bound on captures (exploration only)
  MaxSubmits       \* bound on submissions (exploration only)

ASSUME UnknownBounds ==
  RawCap \in Nat \ {0} /\ BatchCap \in Nat \ {0} /\ MaxCaptures \in Nat /\ MaxSubmits \in Nat

Threshold == 50      \* UNKNOWN_LINE_REVIEW_THRESHOLD
Traits == {"digits", "keyword", "length", "huge"}
OddShapes == {l.shape : l \in OddLines}
AnonIds == 1 .. MaxSubmits

VARIABLES
  unknownLines,  \* SQLite: unknown_lines by shape_hash
  pane,          \* the rows the review pane has loaded
  anonId,        \* client_anon_id in config.toml, 0 for none
  anonIssued,    \* ids generated so far
  otherWriter,   \* what another writer of config.toml does, and the id it has loaded
  submits,       \* what each running submission does
  started,       \* submissions so far
  landed,        \* Postgres: parser_submissions by shape and submitter
  authGone,      \* auth_lost
  captures,      \* history: every captured line, by shape
  refusedShapes, \* history: shapes the user dismissed
  stamped,       \* history: the largest count behind a stamp, by shape
  idLost         \* history: an id in use was saved over, or lost with the file

unknownVars == <<unknownLines, pane, anonId, anonIssued, otherWriter, submits, started, landed,
                 authGone, captures, refusedShapes, stamped, idLost>>
uHistory == <<captures, refusedShapes, stamped, idLost>>

Captured == MapThenSumSet(LAMBDA h : Len(captures[h]), OddShapes)

NoRow == [count |-> 0]
NoSubmit == [at |-> "idle"]
NoWriter == [at |-> "idle", anon |-> 0]
NotLanded == [total |-> 0, shown |-> {}]

UnknownInit ==
  /\ unknownLines = [h \in OddShapes |-> NoRow] /\ pane = {}
  /\ anonId = 0 /\ anonIssued = 0 /\ otherWriter = NoWriter /\ started = 0 /\ authGone = FALSE
  /\ submits = [c \in SubmitCalls |-> NoSubmit]
  /\ landed = [k \in OddShapes \X AnonIds |-> NotLanded]
  /\ captures = [h \in OddShapes |-> <<>>] /\ refusedShapes = {} /\ idLost = FALSE
  /\ stamped = [h \in OddShapes |-> 0]
-----------------------------------------------------------------------------
(* interest_score: 0 for a line a remote rule matches, otherwise what its  *)
(* tag, its traits and how often it was seen add up to, within 0 .. 100.   *)
interest_score(l, ctx) ==
  LET When(cond, n) == IF cond THEN n ELSE 0
      score == When(l.tag \notin KnownTags \cup {"none"}, 40)
               + When(l.tag \in KnownTags \ RuleTags, 30)
               + When("digits" \in l.has, 15) + When("keyword" \in l.has, 10)
               + When(ctx.seen >= 3, 10) + When(ctx.multi, 20)
               - When({"length", "huge"} \cap l.has # {}, 30)
  IN  IF ctx.matched \/ score < 0 THEN 0 ELSE IF score > 100 THEN 100 ELSE score

(* detect_pii: the player's own handle and the shard are to be redacted    *)
(* unless the user says otherwise.                                         *)
detect_pii(l) ==
  {[kind |-> m.kind, at |-> m.at, default_redact |-> m.kind \in {"own", "shard"}] : m \in l.marks}

capture(l, ctx) ==
  [count |-> 1, samples |-> <<l>>, score |-> interest_score(l, ctx), pii |-> detect_pii(l),
   dismissed |-> FALSE, submitted |-> FALSE]

CaptureAgain(row, l) ==
  LET all == Append(row.samples, l) IN
  [row EXCEPT !.count = row.count + 1, !.samples = IF Len(all) > RawCap THEN Tail(all) ELSE all]

(* Mutant of cache_unknown_line: a new capture replaces the row.           *)
cache_unknown_line_replaces(l, ctx) ==
  /\ Captured < MaxCaptures
  /\ unknownLines' = [unknownLines EXCEPT ![l.shape] =
       [capture(l, ctx) EXCEPT !.count = unknownLines[l.shape].count + 1]]
  /\ captures' = [captures EXCEPT ![l.shape] = Append(@, l)]
  /\ UNCHANGED <<pane, anonId, anonIssued, otherWriter, submits, started, landed, authGone,
                 refusedShapes, stamped, idLost>>

(* cache_unknown_line: the first capture of a shape is the record, a later *)
(* one counts and adds a sample, the oldest of which makes room.           *)
cache_unknown_line(l, ctx) ==
  /\ Captured < MaxCaptures
  /\ unknownLines' = [unknownLines EXCEPT ![l.shape] =
       IF @.count = 0 THEN capture(l, ctx) ELSE CaptureAgain(@, l)]
  /\ captures' = [captures EXCEPT ![l.shape] = Append(@, l)]
  /\ UNCHANGED <<pane, anonId, anonIssued, otherWriter, submits, started, landed, authGone,
                 refusedShapes, stamped, idLost>>

(* What classify_or_capture knows of a line no rule has matched: it is new *)
(* or has been about for several sessions.                                 *)
Contexts == {[seen |-> 0, multi |-> FALSE, matched |-> FALSE],
             [seen |-> 3, multi |-> TRUE, matched |-> FALSE]}

Surfaced(row) == row.count > 0 /\ ~row.dismissed /\ row.score >= Threshold
decode_unknown_line(h, row) ==
  [shape |-> h, raw_line |-> Last(row.samples), count |-> row.count, pii |-> row.pii]

list_unknown_lines ==
  {decode_unknown_line(h, unknownLines[h]) : h \in {g \in OddShapes : Surfaced(unknownLines[g])}}
count_unknown_lines == Cardinality({h \in OddShapes : Surfaced(unknownLines[h])})

(* The review pane loads its rows, when it opens and after each of its     *)
(* commands.                                                               *)
Refresh ==
  /\ pane' = list_unknown_lines /\ pane' # pane
  /\ UNCHANGED <<unknownLines, anonId, anonIssued, otherWriter, submits, started, landed,
                 authGone, uHistory>>

dismiss_unknown_line(h) ==
  /\ \E row \in pane : row.shape = h
  /\ unknownLines' = [unknownLines EXCEPT ![h].dismissed = TRUE]
  /\ refusedShapes' = refusedShapes \cup {h}
  /\ UNCHANGED <<pane, anonId, anonIssued, otherWriter, submits, started, landed, authGone,
                 captures, stamped, idLost>>
-----------------------------------------------------------------------------
(* applyRedactions: the tokens whose toggle is on are cut out of the raw   *)
(* line, by their position; the private tokens that remain.                *)
applyRedactions(row, chosen) ==
  {m \in row.raw_line.marks : \A t \in chosen : t.at # m.at}

Payload(row, chosen) ==
  [shape |-> row.shape, count |-> row.count, shown |-> applyRedactions(row, chosen),
   huge |-> "huge" \in row.raw_line.has, found |-> row.pii = detect_pii(row.raw_line)]

(* submit_unknown_lines takes rows of the pane with the default toggles    *)
(* (the pane sends them one by one, the command takes any number) and, in  *)
(* get_or_create_client_anon_id, loads the configuration ...               *)
SubmitStart(c) ==
  /\ submits[c].at = "idle" /\ started < MaxSubmits /\ started' = started + 1
  /\ \E rows \in (SUBSET pane) \ {{}} :
       LET Defaults(row) == {t \in row.pii : t.default_redact}
           batch == {Payload(row, Defaults(row)) : row \in rows}
       IN  submits' = [submits EXCEPT ![c] =
             [at |-> "anon", batch |-> batch, anon |-> anonId]]
  /\ UNCHANGED <<unknownLines, pane, anonId, anonIssued, otherWriter, landed, authGone, uHistory>>

(* The id of the install: the one in the file, or the one that comes back  *)
(* when the writer that has truncated the file writes.                     *)
KeptId == IF anonId # 0 THEN anonId
          ELSE IF otherWriter.at = "writing" THEN otherWriter.anon ELSE 0

(* ... and saves a new id when it has found none; a save that fails ends   *)
(* the command and may leave the file empty.                               *)
get_or_create_client_anon_id(c) ==
  /\ submits[c].at = "anon"
  /\ \/ /\ submits[c].anon # 0 /\ submits' = [submits EXCEPT ![c].at = "post"]
        /\ UNCHANGED <<anonId, anonIssued, idLost>>
     \/ /\ submits[c].anon = 0 /\ anonIssued' = anonIssued + 1 /\ anonId' = anonIssued'
        /\ idLost' = (idLost \/ KeptId # submits[c].anon)
        /\ submits' = [submits EXCEPT ![c].at = "post", ![c].anon = anonIssued']
     \/ /\ submits[c].anon = 0 /\ anonId' \in {anonId, 0} /\ UNCHANGED anonIssued
        /\ idLost' = (idLost \/ anonId' # anonId)
        /\ submits' = [submits EXCEPT ![c] = NoSubmit]
  /\ UNCHANGED <<unknownLines, pane, otherWriter, started, landed, authGone,
                 captures, refusedShapes, stamped>>

(* The id is a field of config.toml, which save_config, pair_device,       *)
(* dismiss_health and the worker that clears a refused token load ...      *)
WriterLoads ==
  /\ otherWriter.at = "idle" /\ otherWriter' = [at |-> "loaded", anon |-> anonId]
  /\ UNCHANGED <<unknownLines, pane, anonId, anonIssued, submits, started, landed, authGone, uHistory>>

(* ... truncate ...                                                        *)
WriterTruncates ==
  /\ otherWriter.at = "loaded" /\ otherWriter' = [otherWriter EXCEPT !.at = "writing"]
  /\ anonId' = 0 /\ idLost' = (idLost \/ anonId \notin {0, otherWriter.anon})
  /\ UNCHANGED <<unknownLines, pane, anonIssued, submits, started, landed, authGone,
                 captures, refusedShapes, stamped>>

(* ... and write with the id they had loaded, or fail.  (A file that does  *)
(* not parse ends what loads it; here it has no id.)                       *)
WriterSaves ==
  /\ otherWriter.at = "writing" /\ otherWriter' = NoWriter
  /\ anonId' \in {otherWriter.anon, 0} /\ idLost' = (idLost \/ KeptId \notin {0, anonId'})
  /\ UNCHANGED <<unknownLines, pane, anonIssued, submits, started, landed, authGone,
                 captures, refusedShapes, stamped>>

(* submit validates the whole batch before it writes.                      *)
Valid(batch) == Cardinality(batch) \in 1 .. BatchCap /\ \A p \in batch : ~p.huge

(* Without an address or a token, or without the server, the command ends  *)
(* here; a 401 or 403 sets auth_lost; a batch that is not valid is a 400.  *)
Post(c) ==
  /\ submits[c].at = "post"
  /\ \/ submits' = [submits EXCEPT ![c] = NoSubmit] /\ UNCHANGED authGone
     \/ submits' = [submits EXCEPT ![c] = NoSubmit] /\ authGone' = TRUE
     \/ /\ Valid(submits[c].batch)
        /\ submits' = [submits EXCEPT ![c] =
             [at |-> "write", batch |-> @.batch, anon |-> @.anon, left |-> @.batch]]
        /\ UNCHANGED authGone
  /\ UNCHANGED <<unknownLines, pane, anonId, anonIssued, otherWriter, started, landed, uHistory>>

(* submit: one upsert per submission, each its own transaction: the counts *)
(* add up and the payload is replaced.  One that fails is a 500, and the   *)
(* ones before it stay.                                                    *)
Upsert(c) ==
  /\ submits[c].at = "write" /\ submits[c].left # {}
  /\ \/ \E p \in submits[c].left :
          /\ landed' = [landed EXCEPT ![<<p.shape, submits[c].anon>>] =
               [total |-> @.total + p.count, shown |-> p.shown]]
          /\ submits' = [submits EXCEPT ![c].left = @ \ {p}]
     \/ submits' = [submits EXCEPT ![c] = NoSubmit] /\ UNCHANGED landed
  /\ UNCHANGED <<unknownLines, pane, anonId, anonIssued, otherWriter, started, authGone, uHistory>>

mark_submitted(rows, hs) ==
  [h \in OddShapes |-> IF h \in hs THEN [rows[h] EXCEPT !.submitted = TRUE] ELSE rows[h]]

(* The 202 arrives and every shape of the batch is stamped, as far as      *)
(* mark_submitted succeeds, or the answer is lost and none is.             *)
SubmitAnswered(c) ==
  /\ submits[c].at = "write" /\ submits[c].left = {}
  /\ \E marked \in SUBSET submits[c].batch :
       /\ unknownLines' = mark_submitted(unknownLines, {p.shape : p \in marked})
       /\ stamped' = [h \in OddShapes |->
            Max({stamped[h]} \cup {p.count : p \in {q \in marked : q.shape = h}})]
  /\ submits' = [submits EXCEPT ![c] = NoSubmit]
  /\ UNCHANGED <<pane, anonId, anonIssued, otherWriter, started, landed, authGone, captures,
                 refusedShapes, idLost>>
-----------------------------------------------------------------------------
SubmitStep(c) ==
  \/ SubmitStart(c) \/ get_or_create_client_anon_id(c) \/ Post(c) \/ Upsert(c) \/ SubmitAnswered(c)

UnknownNext ==
  \/ \E l \in OddLines, ctx \in Contexts : cache_unknown_line(l, ctx)
  \/ Refresh \/ \E h \in OddShapes : dismiss_unknown_line(h)
  \/ WriterLoads \/ WriterTruncates \/ WriterSaves
  \/ \E c \in SubmitCalls : SubmitStep(c)

UnknownSpec == UnknownInit /\ [][UnknownNext]_unknownVars
-----------------------------------------------------------------------------
(* What the queue promises: every capture is counted and the freshest      *)
(* lines are its samples; a dismissed shape never comes back, whatever is  *)
(* captured after; a stamped shape reached the server with at least the    *)
(* count that was stamped; one install is one submitter until its id is    *)
(* lost (two first submissions overlap, or a writer of config.toml saves   *)
(* an older copy, is overlapped by one or fails); and a line submitted     *)
(* with the tokens that were found in it shows neither the player's handle *)
(* nor the shard.                                                          *)
UnknownsKept ==
  /\ \A h \in OddShapes : LET row == unknownLines[h] all == captures[h] IN
       /\ row.count = Len(all)
       /\ row.count > 0 => /\ row.samples = SubSeq(all, IF Len(all) > RawCap THEN Len(all) - RawCap + 1 ELSE 1, Len(all))
                           /\ row.submitted => \E a \in AnonIds : landed[<<h, a>>].total >= stamped[h]
  /\ count_unknown_lines = Cardinality(list_unknown_lines)
  /\ \A r \in list_unknown_lines : r.shape \notin refusedShapes
  /\ ~idLost => \A h \in OddShapes, a \in AnonIds : landed[<<h, a>>].total > 0 => a = KeptId
  /\ \A c \in SubmitCalls : submits[c].at # "idle" => \A p \in submits[c].batch :
       p.found => \A m \in p.shown : m.kind \notin {"own", "shard"}
=============================================================================
