----------------------------- MODULE MCAccounts -----------------------------
(* Accounts, SignIn and DevicePairing for TLC, side by side: a behaviour   *)
(* exercises one of them and leaves the others in their initial state.     *)
EXTENDS Accounts, SignIn, DevicePairing, TLC

VARIABLE part

AccountPartsVars == <<part, accountVars, signInVars, vars>>

AccountPartsInit ==
  /\ part \in {"accounts", "signin", "pairing"}
  /\ AccountsInit /\ SignInInit /\ Init

AccountPartsNext ==
  \/ part = "accounts" /\ AccountsNext /\ UNCHANGED <<part, signInVars, vars>>
  \/ part = "signin" /\ SignInNext /\ UNCHANGED <<part, accountVars, vars>>
  \/ part = "pairing" /\ Next /\ UNCHANGED <<part, accountVars, signInVars>>

AccountPartsSpec == AccountPartsInit /\ [][AccountPartsNext]_AccountPartsVars

(* Members are interchangeable; the parts share their model values, which  *)
(* keeps the group small.                                                  *)
AccountSymmetry ==
  UNION {Permutations(S) : S \in {AccountIds, Emails, Requests, Calls, Users, Codes, Handlers}}
-----------------------------------------------------------------------------
(* A link works once and for the address it was sent to; an account goes   *)
(* only with its audit row and takes along the events it found, nobody     *)
(* else's: a later owner of the handle has own ones only, but late ones.   *)
AccountsSafe ==
  part = "accounts" =>
    /\ AccountsTypeOK /\ SpentLinkDead /\ VerifiedAddressProved
    /\ DeletionAudited /\ OwnEventsOnly

(* The second factor is never half set up, and a code that works once      *)
(* works once.                                                             *)
SignInSafe == part = "signin" => SignInTypeOK /\ SecondFactorWhole /\ OneTimeOnce
=============================================================================
