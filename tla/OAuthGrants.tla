---------------------------- MODULE OAuthGrants ----------------------------
(***************************************************************************)
(* What a user lets an application do, by OAuth2: a code is made when the  *)
(* user agrees, exchanged for an access token, and the token works until   *)
(* the authorization that it is of ends.                                   *)
(*                                                                         *)
(* Every statement is a transaction of its own, so requests come between   *)
(* the steps of one another.  Abstracted: a code or token is its row, as   *)
(* the secret and its hash stand for each other; that the redirect URI     *)
(* and, where they are needed, the verifier and the application's secret   *)
(* are right is one question, decided before an exchange begins.           *)
(***************************************************************************)
EXTENDS Naturals, Sequences, FiniteSets

CONSTANTS
    Users, Applications,
    Scopes, DefaultScopes,
    Exchanges,         \* requests for a token
    Revokers,          \* requests that revoke an application
    CodeSeconds,       \* OAUTH2_AUTH_CODE_SECONDS
    TokenSeconds,      \* OAUTH2_ACCESS_TOKEN_SECONDS; 0 for no end
    MaxTime,           \* bound: when time ends
    MaxCodes,          \* bound: the codes made
    MaxTokens,         \* bound: the tokens made
    Changed,           \* bound: what an application may be changed to
    MaxChanges,        \* bound: the changes of applications, and owner's tokens
    Nobody

Application == [owner: Users, permissions: SUBSET Scopes, disabled: BOOLEAN]

ASSUME OAuthAssumption ==
    /\ DefaultScopes \subseteq Scopes
    /\ CodeSeconds \in Nat /\ TokenSeconds \in Nat
    /\ MaxTime \in Nat /\ MaxCodes \in Nat /\ MaxTokens \in Nat /\ MaxChanges \in Nat
    /\ Changed \subseteq [permissions: SUBSET Scopes, disabled: BOOLEAN]
    /\ Nobody \notin Users \cup Applications

VARIABLES
    now,
    apps,       \* the applications: whose, what they may ask for, and whether disabled
    default,    \* the one that a request means that names none
    codes,      \* the authorization codes, in the order they were made
    auths,      \* the authorizations, each with its token
    exchange,   \* how far each request for a token has got
    revocation, \* how far each revocation has got
    raced,      \* history: codes that two exchanges found unused at once
    dead,       \* history: codes revoked when no exchange of them was under way
    changes

oauthVars == <<now, apps, default, codes, auths, exchange, revocation, raced, dead, changes>>

Code == [app: Applications, user: Users, scope: SUBSET Scopes, expires: Nat, consumed: BOOLEAN]
Authorization ==
    [app: Applications, user: Users, permissions: SUBSET Scopes, disabled: BOOLEAN,
     expires: Nat, code: Nat]  \* code is 0 for an owner's own token

Waiting == [stage |-> "idle", code |-> 0, scope |-> {}]
Calm == [stage |-> "idle", user |-> Nobody, app |-> Nobody]

TypeOK ==
    /\ now \in 0..MaxTime
    /\ DOMAIN apps \subseteq Applications /\ \A a \in DOMAIN apps : apps[a] \in Application
    /\ default \in Applications \cup {Nobody}
    /\ codes \in Seq(Code)
    /\ auths \in Seq(Authorization)
    /\ exchange \in [Exchanges ->
          [stage: {"idle", "consume", "create"}, code: 0..Len(codes), scope: SUBSET Scopes]]
    /\ revocation \in [Revokers ->
          [stage: {"idle", "codes"}, user: Users \cup {Nobody}, app: Applications \cup {Nobody}]]
    /\ raced \subseteq DOMAIN codes /\ dead \subseteq DOMAIN codes
    /\ changes \in 0..MaxChanges

Init ==
    /\ now = 0
    /\ apps = [a \in {} |-> Nobody]
    /\ default = Nobody
    /\ codes = <<>> /\ auths = <<>>
    /\ exchange = [x \in Exchanges |-> Waiting]
    /\ revocation = [r \in Revokers |-> Calm]
    /\ raced = {} /\ dead = {}
    /\ changes = 0

Tick ==
    /\ now < MaxTime
    /\ now' = now + 1
    /\ UNCHANGED <<apps, default, codes, auths, exchange, revocation, raced, dead, changes>>

(***************************************************************************)
(* Registering an application, and consent.                                *)
(***************************************************************************)

\* A user registers an application, with what it may ask for, of which some.
applications(user, app, chosen) ==
    /\ app \notin DOMAIN apps
    /\ chosen # {}
    /\ apps' = [a \in DOMAIN apps \cup {app} |->
          IF a = app THEN [owner |-> user, permissions |-> chosen, disabled |-> FALSE] ELSE apps[a]]
    /\ UNCHANGED <<now, default, codes, auths, exchange, revocation, raced, dead, changes>>

\* The application a request names, or the default one, unless it is disabled.
find_application(name) ==
    LET found == IF name = Nobody THEN default ELSE name
    IN {a \in DOMAIN apps : a = found /\ ~apps[a].disabled}

\* What a scope parameter asks for, if the application may ask for it all.
parse_scope(asked, app) ==
    {scopes \in {IF asked = {} THEN DefaultScopes ELSE asked} : scopes \subseteq apps[app].permissions}

\* The user agrees.
authorize(user, name, asked) ==
    /\ Len(codes) < MaxCodes
    /\ \E app \in find_application(name) : \E scopes \in parse_scope(asked, app) :
          codes' = Append(codes, [app |-> app, user |-> user, scope |-> scopes,
                                  expires |-> now + CodeSeconds, consumed |-> FALSE])
    /\ UNCHANGED <<now, apps, default, auths, exchange, revocation, raced, dead, changes>>

(***************************************************************************)
(* A code is exchanged for a token.                                        *)
(***************************************************************************)
Exchanging(code) == {x \in Exchanges : exchange[x].stage = "consume" /\ exchange[x].code = code}

\* (Mutant: a code may be used again while it lasts.)
UsableWhileItLasts(code) == now < codes[code].expires

Usable(code) == ~codes[code].consumed /\ now < codes[code].expires

\* The code is found unused, and read with the application as it is now,
BeginExchange(x, name, code) ==
    /\ exchange[x].stage = "idle"
    /\ codes[code].app \in find_application(name)
    /\ Usable(code)
    /\ exchange' = [exchange EXCEPT ![x] =
          [stage |-> "consume", code |-> code,
           scope |-> codes[code].scope \cap apps[codes[code].app].permissions]]
    /\ raced' = IF Exchanging(code) = {} THEN raced ELSE raced \cup {code}
    /\ UNCHANGED <<now, apps, default, codes, auths, revocation, dead, changes>>

\* then saved as used,
Consume(x) ==
    /\ exchange[x].stage = "consume"
    /\ codes' = [codes EXCEPT ![exchange[x].code].consumed = TRUE]
    /\ exchange' = [exchange EXCEPT ![x].stage = "create"]
    /\ UNCHANGED <<now, apps, default, auths, revocation, raced, dead, changes>>

Expiry == IF TokenSeconds > 0 THEN now + TokenSeconds ELSE 0

\* (Mutant: the application gets all it may have.)
GiveAll(user, app, scopes, code) ==
    /\ Len(auths) < MaxTokens
    /\ auths' = Append(auths, [app |-> app, user |-> user, permissions |-> apps[app].permissions,
                               disabled |-> FALSE, expires |-> Expiry, code |-> code])

create_authorization(user, app, scopes, code) ==
    /\ Len(auths) < MaxTokens
    /\ auths' = Append(auths, [app |-> app, user |-> user, permissions |-> scopes,
                               disabled |-> FALSE, expires |-> Expiry, code |-> code])

\* and a token made, of what the user agreed to and the application then had.
Create(x) ==
    LET code == codes[exchange[x].code]
    IN /\ exchange[x].stage = "create"
       /\ create_authorization(code.user, code.app, exchange[x].scope, exchange[x].code)
       /\ exchange' = [exchange EXCEPT ![x] = Waiting]
       /\ UNCHANGED <<now, apps, default, codes, revocation, raced, dead, changes>>

\* The process dies, or the database fails.
ExchangeFails(x) ==
    /\ exchange[x].stage # "idle"
    /\ exchange' = [exchange EXCEPT ![x] = Waiting]
    /\ UNCHANGED <<now, apps, default, codes, auths, revocation, raced, dead, changes>>

(***************************************************************************)
(* Revocation, and changes of the applications.                            *)
(***************************************************************************)

\* The authorizations first,
RevokeAuths(r, user, app) ==
    /\ revocation[r].stage = "idle"
    /\ app \in DOMAIN apps
    /\ auths' = [i \in DOMAIN auths |->
          IF auths[i].user = user /\ auths[i].app = app
          THEN [auths[i] EXCEPT !.disabled = TRUE] ELSE auths[i]]
    /\ revocation' = [revocation EXCEPT ![r] = [stage |-> "codes", user |-> user, app |-> app]]
    /\ UNCHANGED <<now, apps, default, codes, exchange, raced, dead, changes>>

\* (Mutant: only the user's last code is used up.)
RevokeLastCode(r) ==
    LET of == {c \in DOMAIN codes :
                  codes[c].user = revocation[r].user /\ codes[c].app = revocation[r].app}
    IN /\ revocation[r].stage = "codes"
       /\ codes' = [c \in DOMAIN codes |->
             [codes[c] EXCEPT !.consumed = @ \/ (c \in of /\ c = Len(codes))]]
       /\ dead' = dead \cup {c \in of : \A x \in Exchanges : exchange[x].code # c}
       /\ revocation' = [revocation EXCEPT ![r] = Calm]
       /\ UNCHANGED <<now, apps, default, auths, exchange, raced, changes>>

\* (Mutant: they are deleted.)
RevokeByDeleting(r) ==
    LET of == {c \in DOMAIN codes :
                  codes[c].user = revocation[r].user /\ codes[c].app = revocation[r].app}
    IN /\ revocation[r].stage = "codes"
       /\ codes' = [c \in 1..(Len(codes) - Cardinality(of)) |-> codes[c]]
       /\ dead' = dead \cup {c \in of : \A x \in Exchanges : exchange[x].code # c}
       /\ revocation' = [revocation EXCEPT ![r] = Calm]
       /\ UNCHANGED <<now, apps, default, auths, exchange, raced, changes>>

\* then the codes not yet used.
RevokeCodes(r) ==
    LET of == {c \in DOMAIN codes :
                  codes[c].user = revocation[r].user /\ codes[c].app = revocation[r].app}
    IN /\ revocation[r].stage = "codes"
       /\ codes' = [c \in DOMAIN codes |-> [codes[c] EXCEPT !.consumed = @ \/ c \in of]]
       /\ dead' = dead \cup {c \in of : \A x \in Exchanges : exchange[x].code # c}
       /\ revocation' = [revocation EXCEPT ![r] = Calm]
       /\ UNCHANGED <<now, apps, default, auths, exchange, raced, changes>>

Change == changes < MaxChanges /\ changes' = changes + 1

\* A token for the application's owner, with all the application may have.
OwnToken(user, app) ==
    /\ app \in DOMAIN apps /\ apps[app].owner = user
    /\ Change
    /\ create_authorization(user, app, apps[app].permissions, 0)
    /\ UNCHANGED <<now, apps, default, codes, exchange, revocation, raced, dead>>

\* The administrator changes an application, which may become the only default.
ChangeApplication(app, new, makeDefault) ==
    /\ app \in DOMAIN apps
    /\ Change
    /\ apps' = [apps EXCEPT ![app].permissions = new.permissions, ![app].disabled = new.disabled]
    /\ default' = IF makeDefault THEN app ELSE IF default = app THEN Nobody ELSE default
    /\ UNCHANGED <<now, codes, auths, exchange, revocation, raced, dead>>

Next ==
    \/ Tick
    \/ \E user \in Users :
          \/ \E name \in Applications \cup {Nobody}, asked \in SUBSET Scopes : authorize(user, name, asked)
          \/ \E app \in Applications : OwnToken(user, app)
          \/ \E app \in Applications, chosen \in SUBSET Scopes : applications(user, app, chosen)
          \/ \E r \in Revokers, app \in Applications : RevokeAuths(r, user, app)
    \/ \E r \in Revokers : RevokeCodes(r)
    \/ \E x \in Exchanges :
          \/ \E name \in Applications \cup {Nobody}, code \in DOMAIN codes : BeginExchange(x, name, code)
          \/ Consume(x)
          \/ Create(x)
          \/ ExchangeFails(x)
    \/ \E app \in Applications, new \in Changed, makeDefault \in BOOLEAN :
          ChangeApplication(app, new, makeDefault)

Spec == Init /\ [][Next]_oauthVars

(***************************************************************************)
(* What a token lets its holder do.                                        *)
(***************************************************************************)
Works(a) ==
    /\ ~auths[a].disabled /\ ~apps[auths[a].app].disabled
    /\ auths[a].expires = 0 \/ now < auths[a].expires

granted_scopes(a) == auths[a].permissions \cap apps[auths[a].app].permissions

\* A code gives one token, unless two exchanges had both found it unused before
\* either saved that it was used.
OneTokenPerCode ==
    \A i, j \in DOMAIN auths :
        (i # j /\ auths[i].code = auths[j].code) => auths[i].code \in raced \cup {0}

\* What a token grants is never more than the user agreed to, whatever was
\* changed of the application before the exchange, while it went on, or since.
GrantedAsAgreed ==
    \A a \in DOMAIN auths :
        (Works(a) /\ auths[a].code # 0) =>
            granted_scopes(a) \subseteq codes[auths[a].code].scope

\* Once a revocation is over, a code made before gives no token any more, unless
\* its exchange was then under way.
RevokedCodesGiveNothing ==
    [][\A i \in DOMAIN auths' \ DOMAIN auths : auths'[i].code \notin dead]_oauthVars
=============================================================================
