------------------------------- MODULE SignIn -------------------------------
(***************************************************************************)
(* Signing in to one account of crates/starstats-server: the password and  *)
(* the magic link (auth_routes.rs, magic_link_routes.rs, magic_link.rs),   *)
(* and the second factor (totp_routes.rs, recovery_codes.rs and the totp_* *)
(* columns of users.rs).                                                   *)
(*                                                                         *)
(* A handler is one step per statement that reads or writes the database.  *)
(* A request may stop after any of them: a failed statement or a crash.    *)
(***************************************************************************)
EXTENDS Integers, FiniteSets

CONSTANTS
  Calls,         \* requests in progress
  NumCodes,      \* NUM_CODES, recovery codes per batch
  MaxSecrets,    \* bounds on what is ever generated (exploration only)
  MaxBatches,
  MaxMagic

ASSUME NumCodesAssumption == NumCodes \in Nat \ {0}
ASSUME SignInBounds == MaxSecrets \in Nat /\ MaxBatches \in Nat /\ MaxMagic \in Nat

NoSecret == 0

Code == [batch : 1..MaxBatches, n : 1..NumCodes]

VARIABLES
  totp,          \* users.totp_*: [secret, enabled]
  codes,         \* rows of recovery_codes with used_at NULL
  magic,         \* rows of magic_link_tokens with consumed_at NULL
  secrets,       \* secrets generated so far
  batches,       \* batches of recovery codes generated so far
  magics,        \* magic links generated so far
  call,          \* [Calls -> progress of a request]
  proved,        \* history: secrets confirm has checked a code against
  superseded,    \* history: batches up to this one have been replaced or cleared
  interim,       \* some interim token has been issued
  granted,       \* history: one-time credentials that let somebody in
  twice,         \* history: those that did so again
  torn           \* history: a second-factor write fell between another
                 \* second-factor request's first read and its last write

signInVars ==
  <<totp, codes, magic, secrets, batches, magics, call, proved, superseded, interim, granted, twice, torn>>

Free == [at |-> "free"]

SignInInit ==
  /\ totp = [secret |-> NoSecret, enabled |-> FALSE]
  /\ codes = {} /\ magic = {}
  /\ secrets = 0 /\ batches = 0 /\ magics = 0
  /\ call = [c \in Calls |-> Free]
  /\ proved = {} /\ superseded = 0 /\ interim = FALSE /\ granted = {} /\ twice = {} /\ torn = FALSE

Reached(c, at) == call[c].at = at
Go(c, step) == call' = [call EXCEPT ![c] = step]

ChangesFactor == {"setup", "setup_write", "confirm", "confirm_write", "confirm_codes",
                  "disable", "disable_row", "regenerate", "replacing", "clearing"}
Tears(c) == torn' = (torn \/ \E d \in Calls \ {c} : call[d].at \in ChangesFactor)

Grant(credential) ==
  /\ granted' = granted \cup {credential}
  /\ twice' = IF credential \in granted THEN twice \cup {credential} ELSE twice

(* Every handler starts with find_by_id (or find_by_email).                *)
Enter(c, at) ==
  /\ Reached(c, "free") /\ Go(c, [at |-> at])
  /\ UNCHANGED <<totp, codes, magic, secrets, batches, magics, proved, superseded, interim, granted, twice, torn>>
-----------------------------------------------------------------------------
decrypt_user_secret == totp.secret

(* setup: a secret in flight is shown again, otherwise a new one is stored.*)
SetupFind(c) == ~totp.enabled /\ Enter(c, "setup")

SetupSecret(c) ==
  /\ Reached(c, "setup")
  /\ IF decrypt_user_secret # NoSecret
     THEN Go(c, Free) /\ UNCHANGED secrets
     ELSE /\ secrets < MaxSecrets /\ secrets' = secrets + 1
          /\ Go(c, [at |-> "setup_write", secret |-> secrets'])
  /\ UNCHANGED <<totp, codes, magic, batches, magics, proved, superseded, interim, granted, twice, torn>>

(* Mutant of start_totp_setup: an unproved secret counts as enabled.       *)
start_totp_setup_enables(row, s) == [row EXCEPT !.secret = s, !.enabled = TRUE]

start_totp_setup(row, s) == [row EXCEPT !.secret = s]

SetupWrite(c) ==
  /\ Reached(c, "setup_write") /\ Go(c, Free)
  /\ totp' = start_totp_setup(totp, call[c].secret)
  /\ Tears(c)
  /\ UNCHANGED <<codes, magic, secrets, batches, magics, proved, superseded, interim, granted, twice>>

(* confirm: the code typed is right for the secret read (verify_now).      *)
ConfirmFind(c) == ~totp.enabled /\ Enter(c, "confirm")

ConfirmSecret(c) ==
  /\ Reached(c, "confirm")
  /\ IF decrypt_user_secret = NoSecret
     THEN Go(c, Free) /\ UNCHANGED proved
     ELSE Go(c, [at |-> "confirm_write"]) /\ proved' = proved \cup {decrypt_user_secret}
  /\ UNCHANGED <<totp, codes, magic, secrets, batches, magics, superseded, interim, granted, twice, torn>>

mark_totp_enabled(row) == [row EXCEPT !.enabled = TRUE]

ConfirmWrite(c) ==
  /\ Reached(c, "confirm_write") /\ Go(c, [at |-> "confirm_codes"])
  /\ totp' = mark_totp_enabled(totp)
  /\ Tears(c)
  /\ UNCHANGED <<codes, magic, secrets, batches, magics, proved, superseded, interim, granted, twice>>

(* A DELETE of the user's codes takes those committed when it begins, under*)
(* READ COMMITTED and with no lock on the user; a redeem may still be ahead*)
(* of it at a row.                                                         *)
DeleteCodes(c, at) == Go(c, [at |-> at, seen |-> codes, upto |-> batches])
Superseded(c) ==
  superseded' = IF call[c].upto > superseded THEN call[c].upto ELSE superseded

(* The rest of the transaction, as its commit shows it: the new batch, in  *)
(* place of what the DELETE took.                                          *)
regenerate_for_user(c) ==
  /\ batches < MaxBatches /\ batches' = batches + 1
  /\ codes' = (codes \ call[c].seen) \cup {[batch |-> batches', n |-> k] : k \in 1..NumCodes}
  /\ Superseded(c)

ReplaceCodes(c, at) ==
  /\ Reached(c, at) /\ DeleteCodes(c, "replacing")
  /\ UNCHANGED <<totp, codes, magic, secrets, batches, magics, proved, superseded, interim, granted, twice, torn>>

ConfirmCodes(c) == ReplaceCodes(c, "confirm_codes")

ReplaceCommit(c) ==
  /\ Reached(c, "replacing") /\ Go(c, Free)
  /\ regenerate_for_user(c)
  /\ Tears(c)
  /\ UNCHANGED <<totp, magic, secrets, magics, proved, interim, granted, twice>>

(* disable: the codes first, then the row.                                 *)
DisableFind(c) == Enter(c, "disable")

clear_for_user(c) == codes' = codes \ call[c].seen /\ Superseded(c)

DisableCodes(c) ==
  /\ Reached(c, "disable") /\ DeleteCodes(c, "clearing")
  /\ UNCHANGED <<totp, codes, magic, secrets, batches, magics, proved, superseded, interim, granted, twice, torn>>

DisableCleared(c) ==
  /\ Reached(c, "clearing") /\ Go(c, [at |-> "disable_row"])
  /\ clear_for_user(c)
  /\ Tears(c)
  /\ UNCHANGED <<totp, magic, secrets, batches, magics, proved, interim, granted, twice>>

disable_totp(row) == [row EXCEPT !.secret = NoSecret, !.enabled = FALSE]

DisableRow(c) ==
  /\ Reached(c, "disable_row") /\ Go(c, Free)
  /\ totp' = disable_totp(totp)
  /\ Tears(c)
  /\ UNCHANGED <<codes, magic, secrets, batches, magics, proved, superseded, interim, granted, twice>>

(* regenerate_recovery                                                     *)
RegenerateFind(c) == totp.enabled /\ Enter(c, "regenerate")

RegenerateCodes(c) == ReplaceCodes(c, "regenerate")
-----------------------------------------------------------------------------
(* One read decides between the session and the interim token.             *)
issue_login_interim == interim' = (interim \/ totp.enabled)

Login(c) ==
  /\ Reached(c, "free") /\ issue_login_interim
  /\ UNCHANGED <<totp, codes, magic, secrets, batches, magics, call, proved, superseded, granted, twice, torn>>

issue == magics' = magics + 1 /\ magic' = magic \cup {magics'}

(* magic_link_routes::start                                                *)
MagicStart ==
  /\ magics < MaxMagic /\ issue
  /\ UNCHANGED <<totp, codes, secrets, batches, call, proved, superseded, interim, granted, twice, torn>>

(* magic_link::redeem, UPDATE ... WHERE consumed_at IS NULL RETURNING      *)
redeem_magic(t) == t \in magic /\ magic' = magic \ {t}

MagicRedeem(c, t) ==
  /\ Reached(c, "free") /\ Go(c, [at |-> "magic", token |-> t])
  /\ redeem_magic(t)
  /\ UNCHANGED <<totp, codes, secrets, batches, magics, proved, superseded, interim, granted, twice, torn>>

(* find_by_id, then the interim token or the session.                      *)
MagicAnswer(c) ==
  /\ Reached(c, "magic") /\ Go(c, Free)
  /\ Grant([magic |-> call[c].token])
  /\ issue_login_interim
  /\ UNCHANGED <<totp, codes, magic, secrets, batches, magics, proved, superseded, torn>>

(* verify_login with a code of the authenticator.                          *)
VerifyFind(c) == interim /\ totp.enabled /\ Enter(c, "verify")

VerifyTotp(c) ==
  /\ Reached(c, "verify") /\ Go(c, Free)
  /\ decrypt_user_secret # NoSecret
  /\ UNCHANGED <<totp, codes, magic, secrets, batches, magics, proved, superseded, interim, granted, twice, torn>>

(* recovery_codes::redeem: SELECT the unused rows, then UPDATE one.        *)
RedeemSelect(c, code) ==
  /\ Reached(c, "verify") /\ code \in codes
  /\ Go(c, [at |-> "redeem", code |-> code])
  /\ UNCHANGED <<totp, codes, magic, secrets, batches, magics, proved, superseded, interim, granted, twice, torn>>

(* Mutant of RedeemUpdate: no guard on used_at, any row count will do.     *)
RedeemUpdateUnguarded(c) ==
  /\ Reached(c, "redeem") /\ Go(c, Free)
  /\ codes' = codes \ {call[c].code}
  /\ Grant(call[c].code)
  /\ UNCHANGED <<totp, magic, secrets, batches, magics, proved, superseded, interim, torn>>

RedeemUpdate(c) ==
  /\ Reached(c, "redeem") /\ Go(c, Free)
  /\ IF call[c].code \in codes
     THEN codes' = codes \ {call[c].code} /\ Grant(call[c].code)
     ELSE UNCHANGED <<codes, granted, twice>>
  /\ UNCHANGED <<totp, magic, secrets, batches, magics, proved, superseded, interim, torn>>

(* A statement fails or the server dies; also a code that does not match.  *)
CallFails(c) ==
  /\ ~Reached(c, "free") /\ Go(c, Free)
  /\ UNCHANGED <<totp, codes, magic, secrets, batches, magics, proved, superseded, interim, granted, twice, torn>>
-----------------------------------------------------------------------------
SignInNext ==
  \/ MagicStart
  \/ \E c \in Calls :
       \/ SetupFind(c) \/ SetupSecret(c) \/ SetupWrite(c)
       \/ ConfirmFind(c) \/ ConfirmSecret(c) \/ ConfirmWrite(c) \/ ConfirmCodes(c)
       \/ DisableFind(c) \/ DisableCodes(c) \/ DisableCleared(c) \/ DisableRow(c)
       \/ RegenerateFind(c) \/ RegenerateCodes(c) \/ ReplaceCommit(c)
       \/ Login(c)
       \/ \E t \in magic : MagicRedeem(c, t)
       \/ MagicAnswer(c)
       \/ VerifyFind(c) \/ VerifyTotp(c)
       \/ \E code \in codes : RedeemSelect(c, code)
       \/ RedeemUpdate(c) \/ CallFails(c)

SignInSpec == SignInInit /\ [][SignInNext]_signInVars
-----------------------------------------------------------------------------
(* Types, and no secret is stored that was not generated.                  *)
SignInTypeOK ==
  /\ totp \in [secret : 0..secrets, enabled : BOOLEAN]
  /\ secrets \in 0..MaxSecrets /\ batches \in 0..MaxBatches /\ magics \in 0..MaxMagic
  /\ codes \subseteq [batch : 1..batches, n : 1..NumCodes] /\ magic \subseteq 1..magics
  /\ proved \subseteq 1..secrets /\ superseded \in 0..batches
  /\ {interim, torn} \subseteq BOOLEAN /\ twice \subseteq granted

(* Whichever statement fails, the second factor is asked for only with a   *)
(* secret the user has proved to have, and there are recovery codes only   *)
(* while it is on (confirm enables after the check, disable clears the     *)
(* codes first), as long as the requests of the user that change it do not *)
(* overlap.                                                                *)
SecondFactorWhole ==
  ~torn => /\ totp.enabled => totp.secret \in proved
           /\ codes # {} => totp.enabled

(* However requests overlap, no recovery code and no magic link lets       *)
(* anybody in a second time (the guarded UPDATEs of both redeems).         *)
OneTimeOnce == twice = {}

(* A batch that a regenerate or a disable has found in the table lets      *)
(* nobody in once that is done, not even a redeem that has already found   *)
(* its row.  (Two regenerates that overlap do not find each other's batch: *)
(* both stay.)                                                             *)
OnlyCurrentCodes ==
  [][\A k \in (granted' \ granted) \cap Code : k.batch > superseded]_signInVars
=============================================================================
