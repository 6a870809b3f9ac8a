----------------------------- MODULE MCAccounts -----------------------------
(***************************************************************************)
(* Small instances of Accounts for TLC.  As each part is kept apart from   *)
(* the others, a behaviour is of one of them, chosen at first.             *)
(***************************************************************************)
EXTENDS Accounts

\* An application loses a permission, or is disabled.
SmallChanged ==
    {[permissions |-> {"read_prefs"}, disabled |-> FALSE], [permissions |-> Scopes, disabled |-> TRUE]}

VARIABLE part

PartInit ==
    /\ part \in {"grants", "preferences", "registration", "rate"}
    /\ AccountsInit
    /\ part # "rate" => cache = "local"  \* which no other part looks at

PartNext ==
    /\ UNCHANGED part
    /\ \/ part = "grants" /\ Next /\ UNCHANGED <<preferenceVars, registrationVars, rateVars>>
       \/ part = "preferences" /\ NextPreferences /\ UNCHANGED <<oauthVars, registrationVars, rateVars>>
       \/ part = "registration" /\ NextRegistration /\ UNCHANGED <<oauthVars, preferenceVars, rateVars>>
       \/ part = "rate" /\ NextRate /\ UNCHANGED <<oauthVars, preferenceVars, registrationVars>>

PartSpec == PartInit /\ [][PartNext]_<<part, accountVars>>
=============================================================================
