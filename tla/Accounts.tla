------------------------------ MODULE Accounts ------------------------------
(***************************************************************************)
(* What the site keeps of its users beside the map: what applications may  *)
(* do for them, their preferences, their registration and how often they   *)
(* may ask.  Requests about one are served while those about another are,  *)
(* and none touches what another keeps.                                    *)
(***************************************************************************)
EXTENDS OAuthGrants, Preferences, Registration, RateLimit

accountVars == <<oauthVars, preferenceVars, registrationVars, rateVars>>

AccountsInit == Init /\ InitPreferences /\ InitRegistration /\ InitRate

AccountsNext ==
    \/ Next /\ UNCHANGED <<preferenceVars, registrationVars, rateVars>>
    \/ NextPreferences /\ UNCHANGED <<oauthVars, registrationVars, rateVars>>
    \/ NextRegistration /\ UNCHANGED <<oauthVars, preferenceVars, rateVars>>
    \/ NextRate /\ UNCHANGED <<oauthVars, preferenceVars, registrationVars>>

AccountsSpec == AccountsInit /\ [][AccountsNext]_accountVars

\* All four keep their types: the tables and caches behind the requests
\* (oauth2/views.py, users/views.py, pycrocosm/ratelimit.py) hold nothing of another's.
TypesOK == TypeOK /\ PreferencesTypeOK /\ RegistrationTypeOK /\ RateTypeOK
=============================================================================
