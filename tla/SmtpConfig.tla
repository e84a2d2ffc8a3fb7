----------------------------- MODULE SmtpConfig -----------------------------
(***************************************************************************)
(* The mail transport of crates/starstats-server: the one row of           *)
(* smtp_config_store.rs, put_smtp of smtp_admin_routes.rs and the          *)
(* SwappableMailer of mail.rs that main.rs builds at the start.  A PUT     *)
(* writes the row, reads it back and swaps the transport, in three steps.  *)
(***************************************************************************)
EXTENDS Integers

CONSTANTS
  SmtpCalls,      \* requests in progress
  MaxPuts         \* bound on PUTs (exploration only)

ASSUME SmtpBounds == MaxPuts \in Nat

VARIABLES
  smtp_config,    \* the row: [host, password, enabled]; host is the number of the
                  \* PUT that wrote it, password of the PUT that set it, 0: none
  mailer,         \* the transport in use: Env, Noop or by a row's host and password
  smtpCall,       \* [SmtpCalls -> progress of a request]
  puts,           \* PUTs so far
  mixed           \* history: since the last start, PUTs overlapped or the row
                  \* was written and could not be read back

Env == [by |-> "env"]
Noop == [by |-> "noop"]
smtpVars == <<smtp_config, mailer, smtpCall, puts, mixed>>
NoPut == [at |-> "free"]

SmtpInit ==
  /\ smtp_config = [host |-> 0, password |-> 0, enabled |-> FALSE]
  /\ mailer = Env /\ puts = 0 /\ mixed = FALSE
  /\ smtpCall = [c \in SmtpCalls |-> NoPut]

(* put: None keeps the password, "" clears it, any other is stored.        *)
put(pw, enabled, n) ==
  smtp_config' = [host |-> n, enabled |-> enabled,
                  password |-> CASE pw = "keep"  -> smtp_config.password
                                 [] pw = "clear" -> 0
                                 [] pw = "new"   -> n]

PutWrite(c, pw, enabled) ==
  /\ smtpCall[c] = NoPut /\ puts < MaxPuts /\ puts' = puts + 1
  /\ put(pw, enabled, puts')
  /\ smtpCall' = [smtpCall EXCEPT ![c] = [at |-> "read", pw |-> pw, n |-> puts', on |-> enabled]]
  /\ mixed' = (mixed \/ \E d \in SmtpCalls : smtpCall[d] # NoPut)
  /\ UNCHANGED mailer

(* build_mailer_from_record, and NoopMailer for a row that is disabled.    *)
Transport(row) ==
  IF row.enabled THEN [by |-> "row", host |-> row.host, password |-> row.password] ELSE Noop

(* The row is read back.                                                   *)
PutRead(c) ==
  /\ smtpCall[c].at = "read"
  /\ smtpCall' = [smtpCall EXCEPT ![c] = [at |-> "swap", to |-> Transport(smtp_config)]]
  /\ UNCHANGED <<smtp_config, mailer, puts, mixed>>

(* It cannot be read or decrypted: 500, the old transport stays.           *)
PutReadFails(c) ==
  /\ smtpCall[c].at = "read"
  /\ smtpCall' = [smtpCall EXCEPT ![c] = NoPut]
  /\ mixed' = TRUE
  /\ UNCHANGED <<smtp_config, mailer, puts>>

(* SwappableMailer                                                         *)
swap(to) == mailer' = to

PutSwap(c) ==
  /\ smtpCall[c].at = "swap"
  /\ smtpCall' = [smtpCall EXCEPT ![c] = NoPut]
  /\ swap(smtpCall[c].to)
  /\ UNCHANGED <<smtp_config, puts, mixed>>

(* main: the row if it is enabled and readable, else the environment.      *)
ServerStart ==
  /\ mailer' \in {Env} \cup (IF smtp_config.enabled THEN {Transport(smtp_config)} ELSE {})
  /\ mixed' = (smtp_config.enabled /\ mailer' = Env)
  /\ smtpCall' = [c \in SmtpCalls |-> NoPut]
  /\ UNCHANGED <<smtp_config, puts>>
-----------------------------------------------------------------------------
SmtpNext ==
  \/ ServerStart
  \/ \E c \in SmtpCalls :
       \/ \E pw \in {"keep", "clear", "new"}, enabled \in BOOLEAN : PutWrite(c, pw, enabled)
       \/ PutRead(c) \/ PutReadFails(c) \/ PutSwap(c)

SmtpSpec == SmtpInit /\ [][SmtpNext]_smtpVars
-----------------------------------------------------------------------------
(* With no PUT in progress, mail goes out the way the row says, with the   *)
(* password stored last even if the last PUTs did not repeat it; a row     *)
(* that is disabled means no mail, or the environment's transport after a  *)
(* start.  PUTs that overlap may swap in the other order (put_smtp).       *)
MailerFollowsConfig ==
  ~mixed /\ (\A c \in SmtpCalls : smtpCall[c] = NoPut)
    => \/ mailer = Transport(smtp_config)
       \/ mailer = Env /\ ~smtp_config.enabled
=============================================================================
