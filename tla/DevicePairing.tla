---------------------------- MODULE DevicePairing ----------------------------
(***************************************************************************)
(* Server side of pairing a desktop client: the stores and handlers of     *)
(* crates/starstats-server/src/devices.rs and device_routes.rs, and what   *)
(* password_reset_complete (auth_routes.rs) does to a user's devices.      *)
(*                                                                         *)
(* redeem runs in a transaction that locks the pairing row.  The row is    *)
(* updated by the transaction that redeems it, so READ COMMITTED hands a   *)
(* waiter the updated row, not the one of its snapshot.                    *)
(***************************************************************************)
EXTENDS Integers, FiniteSets

CONSTANTS
  Users,
  Codes,        \* pairing codes; PRIMARY KEY of device_pairings
  Handlers,     \* redeem requests that may run at the same time
  MaxDevices,   \* bound on devices ever created (exploration only)
  NoUser, NoCode, NoDevice

ASSUME NoneAssumption == NoUser \notin Users /\ NoCode \notin Codes /\ NoDevice \notin Nat
ASSUME MaxDevicesAssumption == MaxDevices \in Nat

Devices == 1..MaxDevices

VARIABLES
  owner,        \* [Codes -> user_id of the pairing row, NoUser: no row]
  expired,      \* [Codes -> the clock has passed expires_at]
  redeemed,     \* [Codes -> redeemed_at is set]
  devices,      \* committed device rows: [id, user, code]; code is history
  revoked,      \* ids of devices with revoked_at set
  lastDevice,   \* ids used so far (Uuid::new_v4 never repeats)
  pc,           \* [Handlers -> step of redeem]
  code,         \* [Handlers -> code of the request]
  device,       \* [Handlers -> id of the device it is creating]
  tokens,       \* device tokens handed to a client: their device ids
  resetting     \* users whose password_reset_complete has yet to revoke

pairings == <<owner, expired, redeemed>>
rows == <<devices, revoked, lastDevice>>
redeems == <<pc, code, device>>
vars == <<pairings, rows, redeems, tokens, resetting>>

(* "lock": waiting for the pairing row; "open": device row and redeemed_at *)
(* written, not committed; "signing": committed, token not yet answered.   *)
Steps == {"idle", "lock", "open", "signing"}

Init ==
  /\ owner = [c \in Codes |-> NoUser]
  /\ expired = [c \in Codes |-> FALSE]
  /\ redeemed = [c \in Codes |-> FALSE]
  /\ devices = {} /\ revoked = {} /\ lastDevice = 0
  /\ pc = [h \in Handlers |-> "idle"]
  /\ code = [h \in Handlers |-> NoCode]
  /\ device = [h \in Handlers |-> NoDevice]
  /\ tokens = {}
  /\ resetting = {}
-----------------------------------------------------------------------------

(* start: a fresh code for a signed-in user; a code in use violates the    *)
(* primary key and another one is drawn.                                   *)
StartPairing(u, c) ==
  /\ owner[c] = NoUser
  /\ owner' = [owner EXCEPT ![c] = u]
  /\ UNCHANGED <<expired, redeemed, rows, redeems, tokens, resetting>>

(* The clock passes expires_at of a pairing.                               *)
Expire(c) ==
  /\ owner[c] # NoUser /\ ~expired[c]
  /\ expired' = [expired EXCEPT ![c] = TRUE]
  /\ UNCHANGED <<owner, redeemed, rows, redeems, tokens, resetting>>
-----------------------------------------------------------------------------
(* redeem request for a code; UnknownCode is answered at once.             *)
Redeem(h, c) ==
  /\ pc[h] = "idle"
  /\ owner[c] # NoUser
  /\ pc' = [pc EXCEPT ![h] = "lock"]
  /\ code' = [code EXCEPT ![h] = c]
  /\ UNCHANGED <<pairings, rows, device, tokens, resetting>>

Return(h) ==
  /\ pc' = [pc EXCEPT ![h] = "idle"]
  /\ code' = [code EXCEPT ![h] = NoCode]
  /\ device' = [device EXCEPT ![h] = NoDevice]

(* Mutant of RowLocked: SELECT without FOR UPDATE.                         *)
RowLockedNever(c) == FALSE

(* A transaction that wrote the row of c holds it until it ends.           *)
RowLocked(c) == \E h \in Handlers : pc[h] = "open" /\ code[h] = c

(* AlreadyRedeemed or Expired: the transaction is dropped.                 *)
Refuse(h) ==
  /\ pc[h] = "lock" /\ ~RowLocked(code[h])
  /\ redeemed[code[h]] \/ expired[code[h]]
  /\ Return(h)
  /\ UNCHANGED <<pairings, rows, tokens, resetting>>

(* Row locked, not redeemed, not expired: insert the device row and set    *)
(* redeemed_at, both inside the transaction.                               *)
Claim(h) ==
  /\ pc[h] = "lock" /\ ~RowLocked(code[h])
  /\ ~redeemed[code[h]] /\ ~expired[code[h]]
  /\ lastDevice < MaxDevices
  /\ lastDevice' = lastDevice + 1
  /\ device' = [device EXCEPT ![h] = lastDevice + 1]
  /\ pc' = [pc EXCEPT ![h] = "open"]
  /\ UNCHANGED <<pairings, devices, revoked, code, tokens, resetting>>

Commit(h) ==
  /\ pc[h] = "open"
  /\ devices' = devices \cup {[id |-> device[h], user |-> owner[code[h]], code |-> code[h]]}
  /\ redeemed' = [redeemed EXCEPT ![code[h]] = TRUE]
  /\ pc' = [pc EXCEPT ![h] = "signing"]
  /\ UNCHANGED <<owner, expired, revoked, lastDevice, code, device, tokens, resetting>>

(* A statement or the connection fails: nothing of the transaction stays.  *)
Abort(h) ==
  /\ pc[h] \in {"lock", "open"}
  /\ Return(h)
  /\ UNCHANGED <<pairings, rows, tokens, resetting>>

(* The user is found, the token signed and the answer received.            *)
AnswerToken(h) ==
  /\ pc[h] = "signing"
  /\ tokens' = tokens \cup {device[h]}
  /\ Return(h)
  /\ UNCHANGED <<pairings, rows, resetting>>

(* The user lookup or the signing fails, or the answer is lost: the code   *)
(* is spent and nobody holds a token.                                      *)
AnswerLost(h) ==
  /\ pc[h] = "signing"
  /\ Return(h)
  /\ UNCHANGED <<pairings, rows, tokens, resetting>>
-----------------------------------------------------------------------------
Ids(u) == {d.id : d \in {e \in devices : e.user = u}}

(* revoke: DELETE /v1/auth/devices/:id of a device the caller owns.        *)
Revoke(u, d) ==
  /\ d \in Ids(u)
  /\ revoked' = revoked \cup {d}
  /\ UNCHANGED <<pairings, devices, lastDevice, redeems, tokens, resetting>>

(* password_reset_complete: the password is committed first ...            *)
ResetPassword(u) ==
  /\ resetting' = resetting \cup {u}
  /\ UNCHANGED <<pairings, rows, redeems, tokens>>

(* ... then every device of the user is revoked and 200 is answered.       *)
ResetRevoke(u) ==
  /\ u \in resetting
  /\ revoked' = revoked \cup Ids(u)
  /\ resetting' = resetting \ {u}
  /\ UNCHANGED <<pairings, devices, lastDevice, redeems, tokens>>

(* The revocation fails: a warning, and 200 all the same.                  *)
ResetRevokeFails(u) ==
  /\ u \in resetting
  /\ resetting' = resetting \ {u}
  /\ UNCHANGED <<pairings, rows, redeems, tokens>>

Next ==
  \/ \E u \in Users, c \in Codes : StartPairing(u, c)
  \/ \E c \in Codes : Expire(c)
  \/ \E h \in Handlers :
       \/ \E c \in Codes : Redeem(h, c)
       \/ Refuse(h) \/ Claim(h) \/ Commit(h) \/ Abort(h)
       \/ AnswerToken(h) \/ AnswerLost(h)
  \/ \E u \in Users :
       \/ \E d \in Devices : Revoke(u, d)
       \/ ResetPassword(u) \/ ResetRevoke(u) \/ ResetRevokeFails(u)

Spec == Init /\ [][Next]_vars
-----------------------------------------------------------------------------
(* Types of the tables, of the handlers' locals and of the reset state.    *)
TypeOK ==
  /\ owner \in [Codes -> Users \cup {NoUser}]
  /\ expired \in [Codes -> BOOLEAN] /\ redeemed \in [Codes -> BOOLEAN]
  /\ lastDevice \in 0..MaxDevices
  /\ devices \subseteq [id : 1..lastDevice, user : Users, code : Codes]
  /\ revoked \subseteq 1..lastDevice /\ tokens \subseteq 1..lastDevice
  /\ pc \in [Handlers -> Steps]
  /\ code \in [Handlers -> Codes \cup {NoCode}]
  /\ device \in [Handlers -> 1..lastDevice \cup {NoDevice}]
  /\ resetting \subseteq Users

(* A pairing code mints one device at most, however many requests redeem   *)
(* it at the same time or again after a lost answer (devices.rs 85-90).    *)
OneDevicePerCode == \A d, e \in devices : d.code = e.code => d = e

(* The device row and redeemed_at are written together: a spent code has   *)
(* its device, a device has a spent code of the same user.                 *)
RedeemedWithDevice ==
  /\ \A c \in Codes : redeemed[c] => \E d \in devices : d.code = c
  /\ \A d \in devices : redeemed[d.code] /\ owner[d.code] = d.user

(* A client holds a token only for a device row that exists, so that it    *)
(* can be listed and revoked.                                              *)
TokenHasDevice == \A t \in tokens : \E d \in devices : d.id = t

(* Pairing as a whole: one device per code, spent together with the code,  *)
(* and no token that cannot be revoked.                                    *)
PairingSafe == TypeOK /\ OneDevicePerCode /\ RedeemedWithDevice /\ TokenHasDevice
=============================================================================
