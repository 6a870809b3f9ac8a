--------------------------- MODULE AccountsProofs ---------------------------
(***************************************************************************)
(* What the site keeps of its users, for any number of requests at once.   *)
(*                                                                         *)
(* The code of a token, and of an exchange about to make one, is used up;  *)
(* who else has it is in a race.                                           *)
(*                                                                         *)
(* A registered user stays who it was.  Whoever has read the ID to be      *)
(* allocated holds the map's lock until it is committed, so nobody else    *)
(* commits it meanwhile; an ID not committed has a user only if that       *)
(* commit is still to come or failed.                                      *)
(*                                                                         *)
(* Preferences keep one row for a key, but for requests that met another.  *)
(* One that met none was alone all along, so what it found is still so.    *)
(*                                                                         *)
(* Nobody is refused before the limit: what is counted, and those still to *)
(* be, are among the requests there were.  With the local cache so many    *)
(* pass as were counted by the counter there is or found none; and it is   *)
(* gone a window after the last request.                                   *)
(***************************************************************************)
EXTENDS Accounts, FiniteSetTheorems, SequenceTheorems, TLAPS

(***************************************************************************)
(* What applications may do.                                               *)
(***************************************************************************)
UsedUp(c) == codes[c].consumed

UnderWay(x) == exchange[x].stage # "idle"

\* An exchange under way is of a code, saved as used once it goes on to make the
\* token, which will grant no more than was agreed; two are of one code, or one
\* is of a code that has a token, only in a race.
ExchangeInv ==
    \A x \in Exchanges : UnderWay(x) =>
        LET code == exchange[x].code
        IN /\ code \in DOMAIN codes
           /\ exchange[x].scope \subseteq codes[code].scope
           /\ exchange[x].stage = "create" => UsedUp(code)
           /\ \A y \in Exchanges : (UnderWay(y) /\ y # x /\ exchange[y].code = code) => code \in raced
           /\ \A i \in DOMAIN auths : auths[i].code = code => code \in raced

TokenInv ==
    \A i \in DOMAIN auths : auths[i].code # 0 =>
        /\ auths[i].code \in DOMAIN codes
        /\ UsedUp(auths[i].code)
        /\ auths[i].permissions \subseteq codes[auths[i].code].scope

DeadInv ==
    \A c \in dead :
        /\ UsedUp(c)
        /\ \A x \in Exchanges : UnderWay(x) => exchange[x].code # c

GrantInv == TypeOK /\ ExchangeInv /\ TokenInv /\ OneTokenPerCode /\ DeadInv

------------------------------------------------------------------------------
USE OAuthAssumption

LEMMA InitGrants ==
  ASSUME Init
  PROVE  GrantInv
  <1> USE DEF Init
  <1>1. codes \in Seq(Code) /\ auths \in Seq(Authorization) /\ DOMAIN codes = {} /\ DOMAIN auths = {}
    OBVIOUS
  <1>2. DOMAIN apps = {}
    OBVIOUS
  <1>3. TypeOK
    BY <1>1, <1>2 DEF TypeOK, Waiting, Calm
  <1>4. ExchangeInv /\ TokenInv /\ OneTokenPerCode /\ DeadInv
    BY <1>1 DEF ExchangeInv, TokenInv, OneTokenPerCode, DeadInv, UnderWay, Waiting
  <1> QED
    BY <1>3, <1>4 DEF GrantInv

\* What one more element does to a sequence.
LEMMA Longer ==
  ASSUME NEW S, NEW s \in Seq(S), NEW e \in S
  PROVE  /\ Append(s, e) \in Seq(S)
         /\ Len(Append(s, e)) = Len(s) + 1 /\ Len(s) \in Nat
         /\ DOMAIN s = 1..Len(s)
         /\ DOMAIN Append(s, e) = DOMAIN s \cup {Len(s) + 1}
         /\ Len(s) + 1 \notin DOMAIN s
         /\ Append(s, e)[Len(s) + 1] = e
         /\ \A i \in DOMAIN s : Append(s, e)[i] = s[i]
  <1>1. Append(s, e) \in Seq(S) /\ Len(Append(s, e)) = Len(s) + 1
        /\ \A i \in 1..Len(s) : Append(s, e)[i] = s[i]
    BY AppendProperties
  <1>2. Append(s, e)[Len(s) + 1] = e
    BY AppendProperties
  <1>3. Len(s) \in Nat /\ DOMAIN s = 1..Len(s) /\ DOMAIN Append(s, e) = 1..(Len(s) + 1)
    BY <1>1, LenProperties
  <1> QED
    BY <1>1, <1>2, <1>3

\* A step that changes neither codes, tokens, exchanges nor history keeps it all.
LEMMA OthersKeep ==
  ASSUME GrantInv, TypeOK', UNCHANGED <<codes, auths, exchange, raced, dead>>
  PROVE  GrantInv'
  BY DEF GrantInv, ExchangeInv, TokenInv, OneTokenPerCode, DeadInv, UnderWay, UsedUp

\* So does one that at most uses codes up, and disables authorizations.
Disabled(a, b) ==
    /\ DOMAIN a = DOMAIN b
    /\ \A i \in DOMAIN b : a[i].code = b[i].code /\ a[i].permissions = b[i].permissions

NoLess(c, d) ==
    /\ DOMAIN c = DOMAIN d
    /\ \A i \in DOMAIN d : c[i].scope = d[i].scope /\ (d[i].consumed => c[i].consumed)

LEMMA UsingUpKeeps ==
  ASSUME GrantInv, Disabled(auths', auths), NoLess(codes', codes), UNCHANGED <<exchange, raced>>
  PROVE  ExchangeInv' /\ TokenInv' /\ OneTokenPerCode'
  <1> USE DEF GrantInv, Disabled, NoLess, UnderWay, UsedUp
  <1>1. ExchangeInv'
    BY DEF ExchangeInv
  <1>2. TokenInv'
    BY DEF TokenInv
  <1>3. OneTokenPerCode'
    BY DEF OneTokenPerCode
  <1> QED
    BY <1>1, <1>2, <1>3

------------------------------------------------------------------------------
LEMMA authorizeKeeps ==
  ASSUME GrantInv, NEW user \in Users, NEW name, NEW wanted \in SUBSET Scopes, authorize(user, name, wanted)
  PROVE  GrantInv'
  <1>1. PICK app \in find_application(name) : \E scopes \in parse_scope(wanted, app) :
           codes' = Append(codes, [app |-> app, user |-> user, scope |-> scopes,
                                   expires |-> now + CodeSeconds, consumed |-> FALSE])
    BY DEF authorize
  <1>2. PICK scopes \in parse_scope(wanted, app) :
           codes' = Append(codes, [app |-> app, user |-> user, scope |-> scopes,
                                   expires |-> now + CodeSeconds, consumed |-> FALSE])
    BY <1>1
  <1> DEFINE new == [app |-> app, user |-> user, scope |-> scopes,
                     expires |-> now + CodeSeconds, consumed |-> FALSE]
  <1>3. app \in Applications /\ scopes \in SUBSET Scopes /\ now + CodeSeconds \in Nat
    BY DEF find_application, parse_scope, GrantInv, TypeOK
  <1>4. new \in Code /\ codes \in Seq(Code)
    BY <1>3 DEF Code, GrantInv, TypeOK
  <1>5. codes' = Append(codes, new)
    BY <1>2
  <1> HIDE DEF new
  <1>6. /\ codes' \in Seq(Code) /\ Len(codes') = Len(codes) + 1 /\ Len(codes) \in Nat
        /\ DOMAIN codes' = DOMAIN codes \cup {Len(codes) + 1}
        /\ \A i \in DOMAIN codes : codes'[i] = codes[i]
    BY <1>4, <1>5, Longer
  <1>7. UNCHANGED <<now, apps, default, auths, exchange, revocation, raced, dead, changes>>
    BY DEF authorize
  <1>8. exchange' \in [Exchanges ->
          [stage: {"idle", "consume", "create"}, code: 0..Len(codes'), scope: SUBSET Scopes]]
    <2>1. 0..Len(codes) \subseteq 0..Len(codes')
      BY <1>6
    <2> QED
      BY <1>7, <2>1 DEF GrantInv, TypeOK
  <1>9. TypeOK'
    BY <1>6, <1>7, <1>8 DEF GrantInv, TypeOK
  <1> USE DEF GrantInv, UsedUp, UnderWay
  <1>10. ExchangeInv'
    BY <1>6, <1>7 DEF ExchangeInv
  <1>11. TokenInv'
    BY <1>6, <1>7 DEF TokenInv
  <1>12. OneTokenPerCode'
    BY <1>7 DEF OneTokenPerCode
  <1>13. DeadInv'
    BY <1>6, <1>7 DEF DeadInv, TypeOK
  <1> QED
    BY <1>9, <1>10, <1>11, <1>12, <1>13

LEMMA BeginKeeps ==
  ASSUME GrantInv, NEW x \in Exchanges, NEW name, NEW code \in DOMAIN codes, BeginExchange(x, name, code)
  PROVE  GrantInv'
  <1> DEFINE new == [stage |-> "consume", code |-> code,
                     scope |-> codes[code].scope \cap apps[codes[code].app].permissions]
  <1> USE DEF BeginExchange
  <1>1. Len(codes) \in Nat /\ DOMAIN codes = 1..Len(codes) /\ codes[code] \in Code
    BY LenProperties, ElementOfSeq DEF GrantInv, TypeOK
  <1>2. new.code = code /\ new.stage = "consume" /\ new.scope \subseteq codes[code].scope
        /\ new \in [stage: {"idle", "consume", "create"}, code: 0..Len(codes), scope: SUBSET Scopes]
    BY <1>1 DEF Code
  <1>3. exchange' = [exchange EXCEPT ![x] = new] /\ exchange[x].stage = "idle"
    OBVIOUS
  <1> HIDE DEF new
  <1>4. \A y \in Exchanges : exchange'[y] = IF y = x THEN new ELSE exchange[y]
    BY <1>3 DEF GrantInv, TypeOK
  <1>5. raced \subseteq raced' /\ raced' \subseteq DOMAIN codes
    BY DEF GrantInv, TypeOK
  <1>6. TypeOK'
    BY <1>2, <1>3, <1>5 DEF GrantInv, TypeOK
  <1>7. ~UsedUp(code)
    BY DEF Usable, UsedUp
  <1> USE DEF GrantInv
  \* An exchange of the code that is under way has not saved that it is used.
  <1>8. ASSUME NEW y \in Exchanges, y # x, UnderWay(y), exchange[y].code = code
        PROVE  code \in raced'
    <2>1. exchange[y].stage = "consume"
      BY <1>7, <1>8 DEF ExchangeInv, UnderWay, TypeOK
    <2>2. Exchanging(code) # {}
      BY <1>8, <2>1 DEF Exchanging
    <2> QED
      BY <2>2
  <1>9. \A i \in DOMAIN auths : auths[i].code # code
    BY <1>1, <1>7 DEF TokenInv
  <1>10. ExchangeInv'
    BY <1>2, <1>4, <1>5, <1>8, <1>9 DEF ExchangeInv, UnderWay, UsedUp
  <1>11. TokenInv'
    BY DEF TokenInv, UsedUp
  <1>12. OneTokenPerCode'
    BY <1>5 DEF OneTokenPerCode
  <1>13. DeadInv'
    BY <1>2, <1>4, <1>7 DEF DeadInv, UnderWay, UsedUp
  <1> QED
    BY <1>6, <1>10, <1>11, <1>12, <1>13

LEMMA ConsumeKeeps ==
  ASSUME GrantInv, NEW x \in Exchanges, Consume(x)
  PROVE  GrantInv'
  <1> DEFINE code == exchange[x].code
  <1> USE DEF Consume
  <1>1. code \in DOMAIN codes /\ codes \in Seq(Code)
    BY DEF GrantInv, ExchangeInv, UnderWay, TypeOK
  <1>2. Len(codes) \in Nat /\ DOMAIN codes = 1..Len(codes) /\ codes \in [1..Len(codes) -> Code]
    BY <1>1, LenProperties
  <1>3. codes' = [codes EXCEPT ![code] = [codes[code] EXCEPT !.consumed = TRUE]]
    OBVIOUS
  <1>4. [codes[code] EXCEPT !.consumed = TRUE] \in Code
    BY <1>1, <1>2 DEF Code
  <1>5. codes' \in Seq(Code) /\ Len(codes') = Len(codes) /\ DOMAIN codes' = DOMAIN codes
    BY <1>1, <1>3, <1>4, ExceptSeq
  <1>6. \A c \in DOMAIN codes :
           /\ codes'[c].scope = codes[c].scope
           /\ codes[c].consumed => codes'[c].consumed
           /\ c = code => codes'[c].consumed
    BY <1>1, <1>2, <1>3 DEF Code
  <1>7. \A y \in Exchanges :
           exchange'[y] = IF y = x THEN [exchange[x] EXCEPT !.stage = "create"] ELSE exchange[y]
    BY DEF GrantInv, TypeOK
  <1>8. \A y \in Exchanges :
           /\ exchange'[y].code = exchange[y].code /\ exchange'[y].scope = exchange[y].scope
           /\ exchange'[y].stage = IF y = x THEN "create" ELSE exchange[y].stage
    BY <1>7 DEF GrantInv, TypeOK
  <1>9. TypeOK'
    <2>1. exchange' \in [Exchanges ->
             [stage: {"idle", "consume", "create"}, code: 0..Len(codes), scope: SUBSET Scopes]]
      BY DEF GrantInv, TypeOK
    <2>2. UNCHANGED <<now, apps, default, auths, revocation, raced, dead, changes>>
      OBVIOUS
    <2> QED
      BY <1>5, <2>1, <2>2 DEF GrantInv, TypeOK
  <1> HIDE DEF code
  <1> USE DEF GrantInv, UnderWay, UsedUp
  <1>10. ExchangeInv'
    BY <1>5, <1>6, <1>8 DEF ExchangeInv, code
  <1>11. TokenInv'
    BY <1>5, <1>6 DEF TokenInv
  <1>12. OneTokenPerCode'
    BY DEF OneTokenPerCode
  <1>13. DeadInv'
    BY <1>6, <1>8 DEF DeadInv, TypeOK
  <1> QED
    BY <1>9, <1>10, <1>11, <1>12, <1>13

\* A token is made, of no code or of one that an exchange is about to end with.
LEMMA TokenMade ==
  ASSUME GrantInv, NEW user \in Users, NEW app \in Applications, NEW scopes \in SUBSET Scopes,
         NEW c \in Nat, create_authorization(user, app, scopes, c)
  PROVE  /\ auths' \in Seq(Authorization)
         /\ DOMAIN auths' = DOMAIN auths \cup {Len(auths) + 1}
         /\ Len(auths) + 1 \notin DOMAIN auths
         /\ auths'[Len(auths) + 1].code = c
         /\ auths'[Len(auths) + 1].permissions = scopes
         /\ \A i \in DOMAIN auths : auths'[i] = auths[i]
  <1> DEFINE new == [app |-> app, user |-> user, permissions |-> scopes,
                     disabled |-> FALSE, expires |-> Expiry, code |-> c]
  <1>1. Expiry \in Nat
    BY DEF Expiry, GrantInv, TypeOK
  <1>2. new \in Authorization /\ new.code = c /\ new.permissions = scopes
    BY <1>1 DEF Authorization
  <1>3. auths' = Append(auths, new) /\ auths \in Seq(Authorization)
    BY DEF create_authorization, GrantInv, TypeOK
  <1> HIDE DEF new
  <1> QED
    BY <1>2, <1>3, Longer

LEMMA CreateKeeps ==
  ASSUME GrantInv, NEW x \in Exchanges, Create(x)
  PROVE  GrantInv' /\ \A i \in DOMAIN auths' \ DOMAIN auths : auths'[i].code \notin dead
  <1> DEFINE c == exchange[x].code
             n == Len(auths) + 1
  <1>1. exchange[x].stage = "create" /\ UnderWay(x)
    BY DEF Create, UnderWay
  <1>2. c \in DOMAIN codes /\ exchange[x].scope \subseteq codes[c].scope /\ UsedUp(c) /\ c \notin dead
    BY <1>1 DEF GrantInv, ExchangeInv, DeadInv
  <1>3. codes[c] \in Code /\ c \in Nat /\ c # 0 /\ exchange[x].scope \in SUBSET Scopes
    BY <1>2, LenProperties, ElementOfSeq DEF GrantInv, TypeOK
  <1>4. create_authorization(codes[c].user, codes[c].app, exchange[x].scope, c)
        /\ exchange' = [exchange EXCEPT ![x] = Waiting]
        /\ UNCHANGED <<now, apps, default, codes, revocation, raced, dead, changes>>
    BY DEF Create
  <1> DEFINE scopes == exchange[x].scope
  <1>5. /\ auths' \in Seq(Authorization)
        /\ DOMAIN auths' = DOMAIN auths \cup {n}
        /\ n \notin DOMAIN auths
        /\ auths'[n].code = c
        /\ auths'[n].permissions = scopes
        /\ \A i \in DOMAIN auths : auths'[i] = auths[i]
    BY <1>3, <1>4, TokenMade DEF Code
  <1>6. \A y \in Exchanges : exchange'[y] = IF y = x THEN Waiting ELSE exchange[y]
    BY <1>4 DEF GrantInv, TypeOK
  <1>7. Waiting \in [stage: {"idle", "consume", "create"}, code: 0..Len(codes), scope: SUBSET Scopes]
    BY LenProperties DEF Waiting, GrantInv, TypeOK
  <1>8. TypeOK'
    BY <1>4, <1>5, <1>7 DEF GrantInv, TypeOK
  <1>9. \A y \in Exchanges : (UnderWay(y) /\ y # x /\ exchange[y].code = c) => c \in raced
    BY <1>1 DEF GrantInv, ExchangeInv
  <1>10. \A i \in DOMAIN auths : auths[i].code = c => c \in raced
    BY <1>1 DEF GrantInv, ExchangeInv
  <1> HIDE DEF c, n, scopes
  <1>11. \A y \in Exchanges : UnderWay(y)' => y # x /\ UnderWay(y) /\ exchange'[y] = exchange[y]
    BY <1>6 DEF UnderWay, Waiting
  <1>12. ExchangeInv'
    BY <1>4, <1>5, <1>9, <1>11 DEF GrantInv, ExchangeInv, UsedUp, UnderWay
  <1>13. TokenInv'
    BY <1>2, <1>4, <1>5 DEF GrantInv, TokenInv, UsedUp, scopes
  <1>14. OneTokenPerCode'
    BY <1>4, <1>5, <1>10 DEF GrantInv, OneTokenPerCode
  <1>15. DeadInv'
    BY <1>4, <1>11 DEF GrantInv, DeadInv, UsedUp
  <1> QED
    BY <1>2, <1>5, <1>8, <1>12, <1>13, <1>14, <1>15 DEF GrantInv

LEMMA OwnTokenKeeps ==
  ASSUME GrantInv, NEW user \in Users, NEW app \in Applications, OwnToken(user, app)
  PROVE  GrantInv' /\ \A i \in DOMAIN auths' \ DOMAIN auths : auths'[i].code \notin dead
  <1> DEFINE scopes == apps[app].permissions
             n == Len(auths) + 1
  <1>1. scopes \in SUBSET Scopes /\ create_authorization(user, app, scopes, 0)
        /\ UNCHANGED <<now, apps, default, codes, exchange, revocation, raced, dead>>
        /\ changes' \in 0..MaxChanges
    BY DEF OwnToken, Change, GrantInv, TypeOK, Application
  <1> HIDE DEF scopes
  <1>2. /\ auths' \in Seq(Authorization)
        /\ DOMAIN auths' = DOMAIN auths \cup {n}
        /\ auths'[n].code = 0
        /\ \A i \in DOMAIN auths : auths'[i] = auths[i]
    BY <1>1, TokenMade
  <1>3. 0 \notin DOMAIN codes /\ 0 \notin dead
    BY LenProperties DEF GrantInv, TypeOK
  <1> HIDE DEF n
  <1>4. TypeOK'
    BY <1>1, <1>2 DEF GrantInv, TypeOK
  <1> USE DEF GrantInv, UnderWay, UsedUp
  <1>5. ExchangeInv'
    BY <1>1, <1>2, <1>3 DEF ExchangeInv
  <1>6. TokenInv'
    BY <1>1, <1>2 DEF TokenInv
  <1>7. OneTokenPerCode'
    BY <1>1, <1>2 DEF OneTokenPerCode
  <1>8. DeadInv'
    BY <1>1 DEF DeadInv
  <1> QED
    BY <1>2, <1>3, <1>4, <1>5, <1>6, <1>7, <1>8

LEMMA FailsKeeps ==
  ASSUME GrantInv, NEW x \in Exchanges, ExchangeFails(x)
  PROVE  GrantInv'
  <1> USE DEF ExchangeFails
  <1>1. Waiting \in [stage: {"idle", "consume", "create"}, code: 0..Len(codes), scope: SUBSET Scopes]
    BY LenProperties DEF Waiting, GrantInv, TypeOK
  <1>2. TypeOK'
    BY <1>1 DEF GrantInv, TypeOK
  <1>3. \A y \in Exchanges : UnderWay(y)' => UnderWay(y) /\ exchange'[y] = exchange[y]
    BY DEF UnderWay, Waiting, GrantInv, TypeOK
  <1> USE DEF GrantInv, UsedUp, UnderWay
  <1>4. ExchangeInv'
    BY <1>3 DEF ExchangeInv
  <1>5. TokenInv' /\ OneTokenPerCode'
    BY DEF TokenInv, OneTokenPerCode
  <1>6. DeadInv'
    BY <1>3 DEF DeadInv
  <1> QED
    BY <1>2, <1>4, <1>5, <1>6

LEMMA RevokeAuthsKeeps ==
  ASSUME GrantInv, NEW r \in Revokers, NEW user \in Users, NEW app \in Applications, RevokeAuths(r, user, app)
  PROVE  GrantInv' /\ DOMAIN auths' = DOMAIN auths
  <1> USE DEF RevokeAuths
  <1>1. auths \in [1..Len(auths) -> Authorization] /\ Len(auths) \in Nat /\ DOMAIN auths = 1..Len(auths)
    BY LenProperties DEF GrantInv, TypeOK
  <1>2. auths' \in [1..Len(auths) -> Authorization]
    BY <1>1 DEF Authorization
  <1>3. auths' \in Seq(Authorization)
    BY <1>1, <1>2
  <1>4. TypeOK'
    BY <1>3 DEF GrantInv, TypeOK
  <1>5. Disabled(auths', auths)
    BY <1>1 DEF Disabled, Authorization
  <1>6. NoLess(codes', codes)
    BY DEF NoLess
  <1>7. DeadInv'
    BY DEF GrantInv, DeadInv, UsedUp, UnderWay
  <1> QED
    BY <1>4, <1>5, <1>6, <1>7, UsingUpKeeps DEF GrantInv, Disabled

LEMMA RevokeCodesKeeps ==
  ASSUME GrantInv, NEW r \in Revokers, RevokeCodes(r)
  PROVE  GrantInv'
  <1> DEFINE of == {c \in DOMAIN codes :
                       codes[c].user = revocation[r].user /\ codes[c].app = revocation[r].app}
  <1>1. codes' = [c \in DOMAIN codes |-> [codes[c] EXCEPT !.consumed = @ \/ c \in of]]
        /\ dead' = dead \cup {c \in of : \A x \in Exchanges : exchange[x].code # c}
        /\ revocation' = [revocation EXCEPT ![r] = Calm]
        /\ UNCHANGED <<now, apps, default, auths, exchange, raced, changes>>
    BY DEF RevokeCodes
  <1>2. of \subseteq DOMAIN codes
    OBVIOUS
  <1> HIDE DEF of
  <1>3. codes \in [1..Len(codes) -> Code] /\ Len(codes) \in Nat /\ DOMAIN codes = 1..Len(codes)
    BY LenProperties DEF GrantInv, TypeOK
  <1>4. \A c \in DOMAIN codes :
           /\ codes'[c] \in Code
           /\ codes'[c].scope = codes[c].scope
           /\ codes'[c].consumed = (codes[c].consumed \/ c \in of)
    BY <1>1, <1>3 DEF Code
  <1>5. codes' \in [1..Len(codes) -> Code]
    BY <1>1, <1>3, <1>4
  <1>6. codes' \in Seq(Code) /\ Len(codes') = Len(codes) /\ DOMAIN codes' = DOMAIN codes
    BY <1>3, <1>5, LenProperties
  <1>7. TypeOK'
    BY <1>1, <1>2, <1>6 DEF GrantInv, TypeOK, Calm
  <1>8. NoLess(codes', codes)
    BY <1>4, <1>6 DEF NoLess
  <1>9. Disabled(auths', auths)
    BY <1>1 DEF Disabled
  <1>10. DeadInv'
    BY <1>1, <1>2, <1>4 DEF GrantInv, DeadInv, UsedUp, UnderWay, TypeOK
  <1> QED
    BY <1>1, <1>7, <1>8, <1>9, <1>10, UsingUpKeeps DEF GrantInv

LEMMA ApplicationsKeep ==
  ASSUME GrantInv, NEW user \in Users, NEW app \in Applications, NEW chosen \in SUBSET Scopes,
         applications(user, app, chosen)
  PROVE  GrantInv'
  <1> USE DEF applications
  <1>1. \A a \in DOMAIN apps' : a \in Applications /\ apps'[a] \in Application
    BY DEF GrantInv, TypeOK, Application
  <1>2. TypeOK'
    BY <1>1 DEF GrantInv, TypeOK
  <1> QED
    BY <1>2, OthersKeep

LEMMA ChangeKeeps ==
  ASSUME GrantInv, NEW app \in Applications, NEW new \in Changed, NEW makeDefault \in BOOLEAN,
         ChangeApplication(app, new, makeDefault)
  PROVE  GrantInv'
  <1> USE DEF ChangeApplication
  <1>1. \A a \in DOMAIN apps' : a \in Applications /\ apps'[a] \in Application
    BY DEF GrantInv, TypeOK, Application
  <1>2. TypeOK'
    BY <1>1 DEF GrantInv, TypeOK, Change
  <1> QED
    BY <1>2, OthersKeep

\* Every step keeps the invariant, and gives no dead code a token.
LEMMA NextGrants ==
  ASSUME GrantInv, [Next]_oauthVars
  PROVE  GrantInv' /\ \A i \in DOMAIN auths' \ DOMAIN auths : auths'[i].code \notin dead
  <1> DEFINE NoneOfDead == \A i \in DOMAIN auths' \ DOMAIN auths : auths'[i].code \notin dead
  <1>1. CASE Tick
    <2>1. TypeOK'
      BY <1>1 DEF Tick, GrantInv, TypeOK
    <2> QED
      BY <1>1, <2>1, OthersKeep DEF Tick
  <1>2. ASSUME NEW user \in Users, NEW name \in Applications \cup {Nobody}, NEW wanted \in SUBSET Scopes,
               authorize(user, name, wanted)
        PROVE  GrantInv' /\ NoneOfDead
    <2>1. GrantInv'
      BY <1>2, authorizeKeeps
    <2> QED
      BY <1>2, <2>1 DEF authorize
  <1>3. ASSUME NEW user \in Users, NEW app \in Applications, OwnToken(user, app)
        PROVE  GrantInv' /\ NoneOfDead
    BY <1>3, OwnTokenKeeps
  <1>4. ASSUME NEW user \in Users, NEW app \in Applications, NEW chosen \in SUBSET Scopes,
               applications(user, app, chosen)
        PROVE  GrantInv' /\ NoneOfDead
    <2>1. GrantInv'
      BY <1>4, ApplicationsKeep
    <2> QED
      BY <1>4, <2>1 DEF applications
  <1>5. ASSUME NEW user \in Users, NEW r \in Revokers, NEW app \in Applications, RevokeAuths(r, user, app)
        PROVE  GrantInv' /\ NoneOfDead
    BY <1>5, RevokeAuthsKeeps
  <1>6. ASSUME NEW r \in Revokers, RevokeCodes(r)
        PROVE  GrantInv' /\ NoneOfDead
    <2>1. GrantInv'
      BY <1>6, RevokeCodesKeeps
    <2> QED
      BY <1>6, <2>1 DEF RevokeCodes
  <1>7. ASSUME NEW x \in Exchanges, NEW name \in Applications \cup {Nobody}, NEW code \in DOMAIN codes,
               BeginExchange(x, name, code)
        PROVE  GrantInv' /\ NoneOfDead
    <2>1. GrantInv'
      BY <1>7, BeginKeeps
    <2> QED
      BY <1>7, <2>1 DEF BeginExchange
  <1>8. ASSUME NEW x \in Exchanges, Consume(x)
        PROVE  GrantInv' /\ NoneOfDead
    <2>1. GrantInv'
      BY <1>8, ConsumeKeeps
    <2> QED
      BY <1>8, <2>1 DEF Consume
  <1>9. ASSUME NEW x \in Exchanges, Create(x)
        PROVE  GrantInv' /\ NoneOfDead
    BY <1>9, CreateKeeps
  <1>10. ASSUME NEW x \in Exchanges, ExchangeFails(x)
         PROVE  GrantInv' /\ NoneOfDead
    <2>1. GrantInv'
      BY <1>10, FailsKeeps
    <2> QED
      BY <1>10, <2>1 DEF ExchangeFails
  <1>11. ASSUME NEW app \in Applications, NEW new \in Changed, NEW makeDefault \in BOOLEAN,
                ChangeApplication(app, new, makeDefault)
         PROVE  GrantInv' /\ NoneOfDead
    <2>1. GrantInv'
      BY <1>11, ChangeKeeps
    <2> QED
      BY <1>11, <2>1 DEF ChangeApplication
  <1>12. CASE UNCHANGED oauthVars
    <2>1. TypeOK'
      BY <1>12 DEF oauthVars, GrantInv, TypeOK
    <2> QED
      BY <1>12, <2>1, OthersKeep DEF oauthVars
  <1> QED
    BY <1>1, <1>2, <1>3, <1>4, <1>5, <1>6, <1>7, <1>8, <1>9, <1>10, <1>11, <1>12 DEF Next

LEMMA GrantInvariance == Spec => []GrantInv
  <1>1. GrantInv /\ [Next]_oauthVars => GrantInv'
    BY NextGrants
  <1> QED
    BY <1>1, InitGrants, PTL DEF Spec

------------------------------------------------------------------------------
\* Every variable keeps its type: what a code or a token holds, among others.
THEOREM GrantTypesCorrect == Spec => []TypeOK
  <1>1. GrantInv => TypeOK
    BY DEF GrantInv
  <1> QED
    BY <1>1, GrantInvariance, PTL

\* A code gives one token, unless two exchanges had both found it unused before
\* either saved that it was used.
THEOREM OneTokenForACode == Spec => []OneTokenPerCode
  <1>1. GrantInv => OneTokenPerCode
    BY DEF GrantInv
  <1> QED
    BY <1>1, GrantInvariance, PTL

\* What a token grants was agreed to, whatever is changed of its application.
THEOREM GrantsAsAgreed == Spec => []GrantedAsAgreed
  <1>1. GrantInv => GrantedAsAgreed
    BY DEF GrantInv, TokenInv, GrantedAsAgreed, granted_scopes
  <1> QED
    BY <1>1, GrantInvariance, PTL

\* Once a revocation is over, the codes made before give no tokens any more, but
\* for an exchange that was under way.
THEOREM RevokedCodesAreDead == Spec => RevokedCodesGiveNothing
  <1> DEFINE A == \A i \in DOMAIN auths' \ DOMAIN auths : auths'[i].code \notin dead
  <1>1. GrantInv /\ [Next]_oauthVars => A
    BY NextGrants
  <1>2. GrantInv /\ [Next]_oauthVars => [A]_oauthVars
    BY <1>1
  <1> QED
    BY <1>2, GrantInvariance, PTL DEF Spec, RevokedCodesGiveNothing

(***************************************************************************)
(* Registration.                                                           *)
(***************************************************************************)
Working(r) == register[r].stage \in {"allocate", "save", "commit"}

LockInv == \A r \in Registrars : Working(r) => mapLock = r

AllocatedInv ==
    \A r \in Registrars :
        register[r].stage \in {"save", "commit"} =>
            register[r].id = nextId /\ register[r].id \in 1..MaxUsers

Committing(i) == \E r \in Registrars : register[r].stage = "commit" /\ register[r].id = i

\* Who has an ID that is not committed.
NewInv ==
    \A i \in 1..MaxUsers :
        (nextId <= i /\ users[i] # None) => (i \in lost \/ Committing(i))

RegisterInv == RegistrationTypeOK /\ LockInv /\ AllocatedInv /\ NewInv

------------------------------------------------------------------------------
USE RegistrationAssumption

LEMMA InitRegister ==
  ASSUME InitRegistration
  PROVE  RegisterInv
  BY DEF InitRegistration, NotAsked, RegisterInv, RegistrationTypeOK, LockInv, AllocatedInv, NewInv, Working

LEMMA SubmitKeeps ==
  ASSUME RegisterInv, NEW r \in Registrars, NEW name \in Names, Submit(r, name)
  PROVE  RegisterInv'
  <1> USE DEF RegisterInv, Submit
  <1>1. RegistrationTypeOK'
    BY DEF RegistrationTypeOK
  <1>2. \A s \in Registrars :
           register'[s] = IF s = r THEN [stage |-> "lock", name |-> name, id |-> 0] ELSE register[s]
    BY DEF RegistrationTypeOK
  <1>3. LockInv' /\ AllocatedInv'
    BY <1>2 DEF LockInv, AllocatedInv, Working
  <1>4. NewInv'
    BY <1>2 DEF NewInv, Committing
  <1> QED
    BY <1>1, <1>3, <1>4

LEMMA LockKeeps ==
  ASSUME RegisterInv, NEW r \in Registrars, Lock(r)
  PROVE  RegisterInv'
  <1> USE DEF RegisterInv, Lock
  <1>1. RegistrationTypeOK'
    BY DEF RegistrationTypeOK
  <1>2. \A s \in Registrars :
           register'[s] = IF s = r THEN [register[r] EXCEPT !.stage = "allocate"] ELSE register[s]
    BY DEF RegistrationTypeOK
  <1>3. register'[r].stage = "allocate"
    BY <1>2 DEF RegistrationTypeOK
  <1>4. \A s \in Registrars : ~Working(s)
    BY DEF LockInv, RegistrationTypeOK
  <1>5. LockInv' /\ AllocatedInv'
    BY <1>2, <1>3, <1>4 DEF LockInv, AllocatedInv, Working
  <1>6. NewInv'
    BY <1>2, <1>4 DEF NewInv, Committing, Working
  <1> QED
    BY <1>1, <1>5, <1>6

LEMMA AllocateKeeps ==
  ASSUME RegisterInv, NEW r \in Registrars, Allocate(r)
  PROVE  RegisterInv'
  <1>1. register[r].stage = "allocate" /\ nextId <= MaxUsers /\ UNCHANGED <<users, nextId, mapLock, lost>>
    BY DEF Allocate
  <1>2. nextId \in 1..MaxUsers /\ nextId \in 0..MaxUsers
    BY <1>1 DEF RegisterInv, RegistrationTypeOK
  <1>3. register' \in [Registrars ->
           [stage: {"idle", "lock", "allocate", "save", "commit"},
            name: Names \cup {None}, id: 0..MaxUsers]]
    BY <1>2 DEF Allocate, RegisterInv, RegistrationTypeOK
  <1>4. RegistrationTypeOK'
    BY <1>1, <1>3 DEF RegisterInv, RegistrationTypeOK
  <1>5. \A s \in Registrars : s # r => register'[s] = register[s]
    BY DEF Allocate, RegisterInv, RegistrationTypeOK
  <1>6. register'[r].stage = "save" /\ register'[r].id = nextId
    BY DEF Allocate, RegisterInv, RegistrationTypeOK
  <1>7. LockInv' /\ AllocatedInv'
    BY <1>1, <1>2, <1>5, <1>6 DEF RegisterInv, LockInv, AllocatedInv, Working
  <1>8. \A i \in 1..MaxUsers : Committing(i) => Committing(i)'
    BY <1>1, <1>5 DEF Committing
  <1>9. NewInv'
    BY <1>1, <1>8 DEF RegisterInv, NewInv
  <1> QED
    BY <1>4, <1>7, <1>9 DEF RegisterInv

\* Who ends is idle again, and the lock free if it held it.
LEMMA EndIs ==
  ASSUME RegisterInv, NEW r \in Registrars, Working(r), End(r)
  PROVE  /\ mapLock' = None
         /\ \A s \in Registrars : register'[s] = IF s = r THEN NotAsked ELSE register[s]
         /\ \A s \in Registrars : Working(s) => s = r
         /\ register' \in [Registrars ->
               [stage: {"idle", "lock", "allocate", "save", "commit"},
                name: Names \cup {None}, id: 0..MaxUsers]]
  BY DEF RegisterInv, End, LockInv, RegistrationTypeOK, NotAsked

\* Only a user with the ID to be committed, lost before, is replaced.
LEMMA SaveKeeps ==
  ASSUME RegisterInv, NEW r \in Registrars, SaveUser(r)
  PROVE  /\ RegisterInv'
         /\ \A i \in 1..MaxUsers : users[i] \notin {None, users'[i]} => i \in lost
  <1> DEFINE q == register[r]
  <1>1. q.stage = "save" /\ Working(r) /\ UNCHANGED <<nextId, lost>>
    BY DEF SaveUser, Working
  <1>2. q.id = nextId /\ q.id \in 1..MaxUsers /\ q.name \in Names \cup {None}
    BY <1>1 DEF RegisterInv, AllocatedInv, RegistrationTypeOK
  <1>3. CASE End(r) /\ UNCHANGED users
    <2>1. RegistrationTypeOK'
      BY <1>1, <1>3, EndIs DEF RegisterInv, RegistrationTypeOK
    <2>2. LockInv' /\ AllocatedInv' /\ NewInv'
      BY <1>1, <1>3, EndIs DEF RegisterInv, LockInv, AllocatedInv, NewInv, Committing, Working, NotAsked
    <2> QED
      BY <1>3, <2>1, <2>2 DEF RegisterInv
  <1>4. CASE /\ users' = [users EXCEPT ![q.id] = q.name]
             /\ register' = [register EXCEPT ![r].stage = "commit"]
             /\ UNCHANGED mapLock
    <2>1. \A s \in Registrars :
             register'[s] = IF s = r THEN [register[r] EXCEPT !.stage = "commit"] ELSE register[s]
      BY <1>4 DEF RegisterInv, RegistrationTypeOK
    <2>2. register'[r].stage = "commit" /\ register'[r].id = q.id
      BY <2>1 DEF RegisterInv, RegistrationTypeOK
    <2>3. \A i \in 1..MaxUsers : users'[i] = IF i = q.id THEN q.name ELSE users[i]
      BY <1>2, <1>4 DEF RegisterInv, RegistrationTypeOK
    <2>4. RegistrationTypeOK'
      BY <1>1, <1>2, <1>4 DEF RegisterInv, RegistrationTypeOK
    <2>5. \A s \in Registrars : Working(s) => s = r
      BY <1>1 DEF RegisterInv, LockInv
    <2>6. LockInv'
      BY <1>1, <1>4, <2>1, <2>5 DEF RegisterInv, LockInv, Working
    <2>7. AllocatedInv'
      BY <1>1, <1>2, <2>1, <2>2 DEF RegisterInv, AllocatedInv
    <2>8. ASSUME NEW i \in 1..MaxUsers, nextId <= i, users[i] # None PROVE i \in lost
      <3>1. ~Committing(i)
        BY <1>1, <2>5 DEF Committing, Working
      <3> QED
        BY <2>8, <3>1 DEF RegisterInv, NewInv
    <2>9. NewInv'
      BY <1>1, <2>2, <2>3, <2>8 DEF NewInv, Committing
    <2>10. \A i \in 1..MaxUsers : users[i] \notin {None, users'[i]} => i \in lost
      BY <1>2, <2>3, <2>8
    <2> QED
      BY <2>4, <2>6, <2>7, <2>9, <2>10 DEF RegisterInv
  <1> QED
    BY <1>3, <1>4 DEF SaveUser

LEMMA CommitKeeps ==
  ASSUME RegisterInv, NEW r \in Registrars, CommitMap(r)
  PROVE  RegisterInv'
  <1>1. Working(r) /\ register[r].stage = "commit" /\ End(r)
        /\ nextId' = register[r].id + 1 /\ UNCHANGED <<users, lost>>
    BY DEF CommitMap, Working
  <1>2. register[r].id = nextId /\ nextId \in 1..MaxUsers /\ nextId' = nextId + 1 /\ MaxUsers \in Nat
    BY <1>1 DEF RegisterInv, AllocatedInv
  <1>3. RegistrationTypeOK'
    BY <1>1, <1>2, EndIs DEF RegisterInv, RegistrationTypeOK
  <1>4. LockInv' /\ AllocatedInv'
    BY <1>1, EndIs DEF RegisterInv, LockInv, AllocatedInv, Working, NotAsked
  <1>5. ASSUME NEW i \in 1..MaxUsers, nextId' <= i, users[i] # None PROVE i \in lost
    <2>1. ~Committing(i)
      BY <1>1, <1>2, <1>5, EndIs DEF Committing, Working
    <2> QED
      BY <1>2, <1>5, <2>1 DEF RegisterInv, NewInv
  <1>6. NewInv'
    BY <1>1, <1>5 DEF NewInv
  <1> QED
    BY <1>3, <1>4, <1>6 DEF RegisterInv

LEMMA FailKeeps ==
  ASSUME RegisterInv, NEW r \in Registrars, FailCommit(r)
  PROVE  RegisterInv'
  <1>1. Working(r) /\ End(r) /\ UNCHANGED <<users, nextId>>
        /\ lost' = IF register[r].stage = "commit" THEN lost \cup {register[r].id} ELSE lost
    BY DEF FailCommit, Working
  <1>2. lost \subseteq lost' /\ lost' \subseteq 1..MaxUsers
    BY <1>1 DEF RegisterInv, AllocatedInv, RegistrationTypeOK
  <1>3. RegistrationTypeOK'
    BY <1>1, <1>2, EndIs DEF RegisterInv, RegistrationTypeOK
  <1>4. LockInv' /\ AllocatedInv'
    BY <1>1, EndIs DEF RegisterInv, LockInv, AllocatedInv, Working, NotAsked
  <1>5. \A i \in 1..MaxUsers : Committing(i) => i \in lost'
    BY <1>1, EndIs DEF Committing, Working
  <1>6. NewInv'
    BY <1>1, <1>2, <1>5 DEF RegisterInv, NewInv
  <1> QED
    BY <1>3, <1>4, <1>6 DEF RegisterInv

LEMMA NextRegister ==
  ASSUME RegisterInv, [NextRegistration]_registrationVars
  PROVE  /\ RegisterInv'
         /\ \A i \in 1..MaxUsers : users[i] \notin {None, users'[i]} => i \in lost
  <1>1. CASE UNCHANGED registrationVars
    BY <1>1 DEF registrationVars, RegisterInv, RegistrationTypeOK, LockInv, AllocatedInv, NewInv, Committing, Working
  <1>2. ASSUME NEW r \in Registrars, SaveUser(r)
        PROVE  /\ RegisterInv'
               /\ \A i \in 1..MaxUsers : users[i] \notin {None, users'[i]} => i \in lost
    BY <1>2, SaveKeeps
  <1>3. ASSUME NEW r \in Registrars,
               (\E name \in Names : Submit(r, name)) \/ Lock(r) \/ Allocate(r) \/ CommitMap(r) \/ FailCommit(r)
        PROVE  RegisterInv' /\ users' = users
    <2>1. RegisterInv'
      BY <1>3, SubmitKeeps, LockKeeps, AllocateKeeps, CommitKeeps, FailKeeps
    <2>2. users' = users
      BY <1>3 DEF Submit, Lock, Allocate, CommitMap, FailCommit
    <2> QED
      BY <2>1, <2>2
  <1> QED
    BY <1>1, <1>2, <1>3 DEF NextRegistration

------------------------------------------------------------------------------
\* Every variable keeps its type.
THEOREM RegistrationTypesCorrect ==
  RegistrationSpec => []RegistrationTypeOK
  <1>1. InitRegistration => RegisterInv
    BY InitRegister
  <1>2. RegisterInv /\ [NextRegistration]_registrationVars => RegisterInv'
    BY NextRegister
  <1>3. RegisterInv => RegistrationTypeOK
    BY DEF RegisterInv
  <1> QED
    BY <1>1, <1>2, <1>3, PTL DEF RegistrationSpec

\* A user who was registered stays who it was, unless the map's commit failed
\* after the user was saved: saving with an ID that is in use replaces its user.
THEOREM RegisteredUsersKept ==
  RegistrationSpec => UsersKept
  <1> DEFINE A == \A i \in 1..MaxUsers : users[i] \notin {None, users'[i]} => i \in lost
  <1>1. InitRegistration => RegisterInv
    BY InitRegister
  <1>2. RegisterInv /\ [NextRegistration]_registrationVars => RegisterInv'
    BY NextRegister
  <1>3. RegisterInv /\ [NextRegistration]_registrationVars => [A]_registrationVars
    BY NextRegister
  <1> QED
    BY <1>1, <1>2, <1>3, PTL DEF RegistrationSpec, UsersKept

(***************************************************************************)
(* Preferences.                                                            *)
(***************************************************************************)
USE PreferencesAssumption

\* Every row was made, and so was one that is to be saved; what sets a preference
\* has a key and a value.
MadeInv ==
    /\ \A row \in rows : row.id \in 1..made
    /\ \A r \in Requests : request[r].stage \in {"get", "save", "create"} =>
          request[r].key \in Keys /\ request[r].value \in Values
    /\ \A r \in Requests : request[r].stage = "save" => request[r].row \in 1..made

\* Who met no other is alone.
AloneInv ==
    /\ joined \subseteq Busy
    /\ \A r \in Busy \ joined : Busy = {r}

\* What it found is still so: of the keys it will make rows of there is none, and
\* the row it will save is the only one of its key.
FoundInv ==
    \A r \in Busy \ joined :
        LET q == request[r]
        IN /\ q.stage = "fill" => \A row \in rows : row.key \notin DOMAIN q.map
           /\ q.stage = "save" => \A row \in Of(q.key) : row.id = q.row
           /\ q.stage = "create" => Of(q.key) = {}

PreferenceInv == PreferencesTypeOK /\ MadeInv /\ AloneInv /\ FoundInv /\ OneRowPerKey

\* What comes is as the types have it.
LEMMA RequestTypes ==
  /\ NotCome.stage = "idle" /\ NotCome.map \in Maps /\ NotCome.row = 0
  /\ NotCome.key = NoValue /\ NotCome.value = NoValue
  /\ \A map \in Maps : map \in [DOMAIN map -> Values] /\ DOMAIN map \subseteq Keys
  /\ \A K \in SUBSET Keys : [K -> Values] \subseteq Maps
  <1>1. <<>> \in [{} -> Values]
    OBVIOUS
  <1> QED
    BY <1>1 DEF NotCome, Maps

LEMMA InitPreferenceInv == InitPreferences => PreferenceInv
  <1> SUFFICES ASSUME InitPreferences PROVE PreferenceInv
    OBVIOUS
  <1> USE RequestTypes DEF InitPreferences
  <1>1. PreferencesTypeOK
    BY DEF PreferencesTypeOK, NotCome
  <1>2. Busy = {}
    BY DEF Busy, NotCome
  <1>3. MadeInv
    BY DEF MadeInv, NotCome
  <1> QED
    BY <1>1, <1>2, <1>3 DEF PreferenceInv, AloneInv, FoundInv, OneRowPerKey

RequestType ==
    [stage: {"idle", "clear", "fill", "get", "save", "create"}, map: Maps, row: Nat,
     key: Keys \cup {NoValue}, value: Values \cup {NoValue}]

\* A request that comes knows nothing yet, and is alone or joined with all there are.
LEMMA ArriveKeeps ==
  ASSUME PreferenceInv, NEW r \in Requests, NEW new \in RequestType,
         new.stage \in {"clear", "get"},
         new.stage = "get" => new.key \in Keys /\ new.value \in Values, Arrive(r, new)
  PROVE  PreferenceInv'
  <1> USE DEF Arrive
  <1>1. \A s \in Requests : request'[s] = IF s = r THEN new ELSE request[s]
    BY DEF PreferenceInv, PreferencesTypeOK
  <1>2. Busy' = Busy \cup {r} /\ Busy \subseteq Requests
    BY <1>1 DEF Busy
  <1>3. PreferencesTypeOK'
    BY <1>2 DEF PreferenceInv, PreferencesTypeOK, RequestType
  <1>4. AloneInv'
    BY <1>2 DEF PreferenceInv, AloneInv
  <1>5. MadeInv'
    BY <1>1 DEF PreferenceInv, MadeInv
  <1>6. \A s \in Busy' \ joined' : s = r
    BY <1>2
  <1>7. FoundInv'
    BY <1>1, <1>6 DEF FoundInv
  <1>8. OneRowPerKey'
    BY DEF PreferenceInv, OneRowPerKey
  <1> QED
    BY <1>3, <1>4, <1>5, <1>7, <1>8 DEF PreferenceInv

\* A request goes on, or ends: who is alone stays so.
LEMMA GoKeeps ==
  ASSUME PreferenceInv, NEW r \in Busy, NEW new \in RequestType,
         new.stage = "idle" => new = NotCome, Go(r, new)
  PROVE  /\ request' \in [Requests -> RequestType]
         /\ \A s \in Requests : request'[s] = IF s = r THEN new ELSE request[s]
         /\ joined' \subseteq Requests
         /\ AloneInv'
         /\ Busy' \ joined' \subseteq Busy \ joined
         /\ r \in Busy' => new.stage # "idle"
         /\ r \in Requests
  <1> USE DEF Go
  <1>1. r \in Requests
    BY DEF Busy
  <1>2. /\ request' \in [Requests -> RequestType]
        /\ \A s \in Requests : request'[s] = IF s = r THEN new ELSE request[s]
    BY <1>1 DEF PreferenceInv, PreferencesTypeOK, RequestType
  <1>3. Busy' = (IF new = NotCome THEN Busy \ {r} ELSE Busy)
    BY <1>1, <1>2, RequestTypes DEF Busy
  <1>4. AloneInv'
    BY <1>3 DEF PreferenceInv, AloneInv
  <1>5. Busy' \ joined' \subseteq Busy \ joined
    BY <1>3
  <1> QED
    BY <1>1, <1>2, <1>3, <1>4, <1>5, RequestTypes DEF PreferenceInv, AloneInv, PreferencesTypeOK

\* A request that is alone goes on with what it has found; rows are made, or
\* written, as it knows them to be.
LEMMA ClearKeeps ==
  ASSUME PreferenceInv, NEW r \in Requests, Clear(r)
  PROVE  PreferenceInv'
  <1> DEFINE new == [request[r] EXCEPT !.stage = "fill"]
  <1>1. r \in Busy /\ rows' = {} /\ Go(r, new) /\ UNCHANGED <<made, crossed>>
    BY DEF Clear, Busy
  <1>2. new \in RequestType /\ new.stage = "fill"
    BY DEF PreferenceInv, PreferencesTypeOK, RequestType
  <1> HIDE DEF new
  <1>3. /\ request' \in [Requests -> RequestType]
        /\ \A s \in Requests : request'[s] = IF s = r THEN new ELSE request[s]
        /\ joined' \subseteq Requests /\ AloneInv'
        /\ Busy' \ joined' \subseteq Busy \ joined
    BY <1>1, <1>2, GoKeeps
  <1>4. PreferencesTypeOK'
    BY <1>1, <1>3 DEF PreferenceInv, PreferencesTypeOK, RequestType
  <1>5. MadeInv' /\ OneRowPerKey'
    BY <1>1, <1>2, <1>3 DEF PreferenceInv, MadeInv, OneRowPerKey
  <1>6. FoundInv'
    BY <1>1, <1>2, <1>3 DEF PreferenceInv, FoundInv, Of, Busy
  <1> QED
    BY <1>3, <1>4, <1>5, <1>6 DEF PreferenceInv

\* What is written of a preference that nobody else has at work is its only row.
LEMMA WriteKeeps ==
  ASSUME PreferenceInv, NEW r \in Busy, NEW row \in Row, Write(r, row),
         r \notin joined => \A other \in Of(row.key) : other.id = row.id
  PROVE  /\ rows' \subseteq Row
         /\ \A other \in rows' : other \in rows \/ other = row
         /\ OneRowPerKey'
  <1>1. rows' = {other \in rows : other.id # row.id} \cup {row}
    BY DEF Write
  <1>2. rows' \subseteq Row /\ \A other \in rows' : other \in rows \/ other = row
    BY <1>1 DEF PreferenceInv, PreferencesTypeOK
  <1>3. crossed \subseteq crossed' /\ (r \in joined => row.id \in crossed')
    BY DEF Write
  <1>4. ASSUME NEW a \in rows', NEW b \in rows', a # b, a.key = b.key
        PROVE  {a.id, b.id} \cap crossed' # {}
    <2>1. CASE a \in rows /\ b \in rows
      BY <1>3, <1>4, <2>1 DEF PreferenceInv, OneRowPerKey
    <2>2. ASSUME NEW c \in rows, c.id # row.id, c.key = row.key PROVE row.id \in crossed'
      BY <1>3, <2>2 DEF Of
    <2> QED
      BY <1>1, <1>4, <2>1, <2>2
  <1> QED
    BY <1>2, <1>4 DEF OneRowPerKey

\* A row that is made has an ID of its own.
LEMMA CreateRowKeeps ==
  ASSUME PreferenceInv, NEW r \in Busy, NEW key \in Keys, NEW value \in Values,
         CreateRow(r, key, value), r \notin joined => Of(key) = {}
  PROVE  /\ rows' \subseteq Row /\ made' \in 0..MaxRows /\ made' = made + 1 /\ crossed' \subseteq 1..MaxRows
         /\ \A row \in rows' : row.id \in 1..made'
         /\ \A row \in rows' : row \in rows \/ row.key = key
         /\ OneRowPerKey'
  <1> DEFINE row == [id |-> made + 1, key |-> key, value |-> value]
  <1>1. made < MaxRows /\ made' = made + 1 /\ Write(r, row) /\ made \in Nat
    BY DEF CreateRow, PreferenceInv, PreferencesTypeOK
  <1>2. row \in Row /\ row.id = made + 1 /\ row.key = key
    BY <1>1 DEF Row
  <1> HIDE DEF row
  <1>3. /\ rows' \subseteq Row
        /\ \A other \in rows' : other \in rows \/ other = row
        /\ OneRowPerKey'
    BY <1>1, <1>2, WriteKeeps
  <1>4. \A other \in rows' : other.id \in 1..made'
    BY <1>1, <1>2, <1>3 DEF PreferenceInv, MadeInv
  <1>5. crossed' \subseteq 1..MaxRows
    BY <1>1, <1>2 DEF Write, PreferenceInv, PreferencesTypeOK
  <1> QED
    BY <1>1, <1>2, <1>3, <1>4, <1>5

LEMMA FillKeeps ==
  ASSUME PreferenceInv, NEW r \in Requests, NEW key \in Keys, Fill(r, key)
  PROVE  PreferenceInv'
  <1> DEFINE map == request[r].map
             less == [k \in DOMAIN map \ {key} |-> map[k]]
             new == [request[r] EXCEPT !.map = less]
  <1>1. r \in Busy /\ request[r].stage = "fill" /\ key \in DOMAIN map
        /\ CreateRow(r, key, map[key]) /\ Go(r, new)
    BY DEF Fill, Busy
  <1>2. request[r] \in RequestType /\ map \in Maps
    BY DEF PreferenceInv, PreferencesTypeOK, RequestType
  <1>3. map \in [DOMAIN map -> Values] /\ DOMAIN map \subseteq Keys
    BY <1>2, RequestTypes
  <1>4. map[key] \in Values
    BY <1>1, <1>3
  <1>5. less \in [DOMAIN map \ {key} -> Values] /\ DOMAIN map \ {key} \in SUBSET Keys
    BY <1>3
  <1>6. less \in Maps
    BY <1>5, RequestTypes
  <1>7. new \in RequestType /\ new.stage = "fill" /\ new.map = less /\ DOMAIN less = DOMAIN map \ {key}
    BY <1>1, <1>2, <1>6 DEF RequestType
  <1> DEFINE value == map[key]
  <1>8. value \in Values /\ CreateRow(r, key, value)
    BY <1>1, <1>4
  <1> HIDE DEF new, less, value
  <1>9. r \notin joined => Of(key) = {}
    BY <1>1 DEF PreferenceInv, FoundInv, Of
  <1>10. /\ rows' \subseteq Row /\ made' \in 0..MaxRows /\ made' = made + 1 /\ crossed' \subseteq 1..MaxRows
         /\ \A row \in rows' : row.id \in 1..made'
         /\ \A row \in rows' : row \in rows \/ row.key = key
         /\ OneRowPerKey'
    BY <1>1, <1>8, <1>9, CreateRowKeeps
  <1>11. /\ request' \in [Requests -> RequestType]
         /\ \A s \in Requests : request'[s] = IF s = r THEN new ELSE request[s]
         /\ joined' \subseteq Requests /\ AloneInv'
         /\ Busy' \ joined' \subseteq Busy \ joined
    BY <1>1, <1>7, GoKeeps
  <1>12. PreferencesTypeOK'
    BY <1>10, <1>11 DEF PreferencesTypeOK, RequestType
  <1>13. MadeInv'
    <2>1. made \in Nat
      BY DEF PreferenceInv, PreferencesTypeOK
    <2> QED
      BY <1>7, <1>10, <1>11, <2>1 DEF PreferenceInv, MadeInv
  <1>14. \A s \in Busy' \ joined' : s = r
    BY <1>1, <1>11 DEF PreferenceInv, AloneInv
  <1>15. r \in Busy' \ joined' => \A row \in rows' : row.key \notin DOMAIN less
    BY <1>1, <1>7, <1>10, <1>11 DEF PreferenceInv, FoundInv
  <1>16. FoundInv'
    BY <1>1, <1>7, <1>11, <1>14, <1>15 DEF FoundInv, Busy
  <1> QED
    BY <1>10, <1>11, <1>12, <1>13, <1>16 DEF PreferenceInv

\* What is looked for is found, or not: the request will know it.
LEMMA GetKeeps ==
  ASSUME PreferenceInv, NEW r \in Requests, Get(r)
  PROVE  PreferenceInv'
  <1> DEFINE q == request[r]
  <1>0. r \in Busy /\ q.stage = "get" /\ UNCHANGED <<rows, made, crossed>>
    BY DEF Get, Busy
  <1>1. q \in RequestType
    BY DEF PreferenceInv, PreferencesTypeOK, RequestType
  <1>K. q.key \in Keys /\ q.value \in Values
    BY <1>0 DEF PreferenceInv, MadeInv
  <1>2. ASSUME NEW new \in RequestType, new.stage = "idle" => new = NotCome, Go(r, new),
               new.stage = "save" => new.row \in 1..made,
               new.stage # "idle" => new.key \in Keys /\ new.value \in Values,
               new.stage \in {"idle", "save", "create"},
               new.stage = "save" => \A row \in Of(new.key) : row.id = new.row,
               new.stage = "create" => Of(new.key) = {}
        PROVE  PreferenceInv'
    <2>1. /\ request' \in [Requests -> RequestType]
          /\ \A s \in Requests : request'[s] = IF s = r THEN new ELSE request[s]
          /\ joined' \subseteq Requests /\ AloneInv'
          /\ Busy' \ joined' \subseteq Busy \ joined
      BY <1>0, <1>2, GoKeeps
    <2>2. PreferencesTypeOK' /\ OneRowPerKey'
      BY <1>0, <2>1 DEF PreferenceInv, PreferencesTypeOK, OneRowPerKey, RequestType
    <2>3. MadeInv'
      BY <1>0, <1>2, <2>1 DEF PreferenceInv, MadeInv
    <2>4. \A s \in Busy' \ joined' : s = r
      BY <1>0, <2>1 DEF PreferenceInv, AloneInv
    <2>5. FoundInv'
      BY <1>0, <1>2, <2>1, <2>4 DEF FoundInv, Of
    <2> QED
      BY <2>1, <2>2, <2>3, <2>5 DEF PreferenceInv
  <1>3. CASE Of(q.key) = {} /\ Go(r, [q EXCEPT !.stage = "create"])
    <2> DEFINE new == [q EXCEPT !.stage = "create"]
    <2>1. new \in RequestType /\ new.stage = "create" /\ new.key = q.key /\ new.value = q.value
      BY <1>1 DEF RequestType
    <2> HIDE DEF new
    <2> QED
      BY <1>2, <1>3, <1>K, <2>1 DEF new
  <1>4. ASSUME NEW row \in Of(q.key), Of(q.key) = {row}, Go(r, [q EXCEPT !.stage = "save", !.row = row.id])
        PROVE  PreferenceInv'
    <2> DEFINE new == [q EXCEPT !.stage = "save", !.row = row.id]
    <2>0. row \in rows /\ row.id \in 1..made /\ row.id \in Nat
      BY DEF Of, PreferenceInv, PreferencesTypeOK, MadeInv, Row
    <2>1. new \in RequestType /\ new.stage = "save" /\ new.key = q.key /\ new.value = q.value /\ new.row = row.id
      BY <1>1, <2>0 DEF RequestType
    <2>2. Go(r, new)
      BY <1>4
    <2> HIDE DEF new
    <2> QED
      BY <1>2, <1>4, <1>K, <2>0, <2>1, <2>2
  <1>5. CASE Go(r, NotCome)
    <2>1. NotCome \in RequestType /\ NotCome.stage = "idle"
      BY RequestTypes DEF RequestType, NotCome
    <2> QED
      BY <1>2, <1>5, <2>1
  <1> QED
    BY <1>3, <1>4, <1>5 DEF Get

\* A request that ends leaves the others, or none, as they are.
LEMMA EndsKeeps ==
  ASSUME PreferenceInv, NEW r \in Busy, Go(r, NotCome),
         rows' \subseteq Row, made' \in 0..MaxRows, made <= made', crossed' \subseteq 1..MaxRows,
         \A row \in rows' : row.id \in 1..made', OneRowPerKey'
  PROVE  PreferenceInv'
  <1>0. NotCome \in RequestType /\ NotCome.stage = "idle"
    BY RequestTypes DEF RequestType, NotCome
  <1>1. /\ request' \in [Requests -> RequestType]
        /\ \A s \in Requests : request'[s] = IF s = r THEN NotCome ELSE request[s]
        /\ joined' \subseteq Requests /\ AloneInv' /\ r \in Requests
        /\ Busy' \ joined' \subseteq Busy \ joined /\ r \notin Busy'
    BY <1>0, GoKeeps
  <1>2. PreferencesTypeOK'
    BY <1>1 DEF PreferencesTypeOK, RequestType
  <1>3. MadeInv'
    <2>1. made \in Nat
      BY DEF PreferenceInv, PreferencesTypeOK
    <2> QED
      BY <1>0, <1>1, <2>1 DEF PreferenceInv, MadeInv
  <1>4. Busy' \ joined' = {}
    BY <1>1 DEF PreferenceInv, AloneInv
  <1>5. FoundInv'
    BY <1>4 DEF FoundInv
  <1> QED
    BY <1>1, <1>2, <1>3, <1>5 DEF PreferenceInv

LEMMA SaveOrCreateKeeps ==
  ASSUME PreferenceInv, NEW r \in Requests, Save(r) \/ CreatePreference(r)
  PROVE  PreferenceInv'
  <1> DEFINE q == request[r]
  <1>1. made \in Nat /\ made \in 0..MaxRows /\ crossed \subseteq 1..MaxRows
    BY DEF PreferenceInv, PreferencesTypeOK
  <1>2. r \in Busy /\ Go(r, NotCome) /\ q.stage \in {"save", "create"}
    BY DEF Save, CreatePreference, Busy
  <1>3. q.key \in Keys /\ q.value \in Values
    BY <1>2 DEF PreferenceInv, MadeInv
  <1>4. CASE Save(r)
    <2> DEFINE row == [id |-> q.row, key |-> q.key, value |-> q.value]
    <2>1. q.stage = "save" /\ Write(r, row) /\ made' = made
      BY <1>4 DEF Save
    <2>2. q.row \in 1..made
      BY <2>1 DEF PreferenceInv, MadeInv
    <2>3. row \in Row /\ row.id = q.row /\ row.key = q.key
      BY <1>1, <1>3, <2>2 DEF Row
    <2>4. r \notin joined => \A other \in Of(row.key) : other.id = row.id
      BY <1>2, <2>1, <2>3 DEF PreferenceInv, FoundInv
    <2> HIDE DEF row
    <2>5. /\ rows' \subseteq Row /\ \A other \in rows' : other \in rows \/ other = row
          /\ OneRowPerKey'
      BY <1>2, <2>1, <2>3, <2>4, WriteKeeps
    <2>6. crossed' \subseteq 1..MaxRows
      BY <1>1, <2>1, <2>2, <2>3 DEF Write
    <2>7. \A other \in rows' : other.id \in 1..made'
      BY <2>1, <2>2, <2>3, <2>5 DEF PreferenceInv, MadeInv
    <2> QED
      BY <1>1, <1>2, <2>1, <2>5, <2>6, <2>7, EndsKeeps
  <1>5. CASE CreatePreference(r)
    <2> DEFINE key == q.key
               value == q.value
    <2>1. q.stage = "create" /\ CreateRow(r, key, value) /\ key \in Keys /\ value \in Values
      BY <1>3, <1>5 DEF CreatePreference
    <2>2. r \notin joined => Of(key) = {}
      BY <1>2, <2>1 DEF PreferenceInv, FoundInv
    <2> HIDE DEF key, value
    <2>3. /\ rows' \subseteq Row /\ made' \in 0..MaxRows /\ made' = made + 1 /\ crossed' \subseteq 1..MaxRows
          /\ \A row \in rows' : row.id \in 1..made'
          /\ OneRowPerKey'
      BY <1>2, <2>1, <2>2, CreateRowKeeps
    <2> QED
      BY <1>1, <1>2, <2>3, EndsKeeps
  <1> QED
    BY <1>4, <1>5

LEMMA NextPreferenceInv == PreferenceInv /\ [NextPreferences]_preferenceVars => PreferenceInv'
  <1> SUFFICES ASSUME PreferenceInv, [NextPreferences]_preferenceVars PROVE PreferenceInv'
    OBVIOUS
  <1>0. Replacers \subseteq Requests /\ Setters \subseteq Requests
    BY DEF Requests
  <1>1. ASSUME NEW r \in Replacers, NEW map \in Maps, BeginReplace(r, map) PROVE PreferenceInv'
    <2> DEFINE new == [NotCome EXCEPT !.stage = "clear", !.map = map]
    <2>1. new \in RequestType /\ new.stage = "clear"
      BY RequestTypes DEF RequestType, NotCome
    <2>2. Arrive(r, new)
      BY <1>1 DEF BeginReplace
    <2> HIDE DEF new
    <2> QED
      BY <1>0, <2>1, <2>2, ArriveKeeps
  <1>2. ASSUME NEW r \in Setters, NEW key \in Keys, NEW value \in Values, BeginSet(r, key, value)
        PROVE  PreferenceInv'
    <2> DEFINE new == [NotCome EXCEPT !.stage = "get", !.key = key, !.value = value]
    <2>1. new \in RequestType /\ new.stage = "get" /\ new.key = key /\ new.value = value
      BY RequestTypes DEF RequestType, NotCome
    <2>2. Arrive(r, new)
      BY <1>2 DEF BeginSet
    <2> HIDE DEF new
    <2> QED
      BY <1>0, <2>1, <2>2, ArriveKeeps
  <1>3. ASSUME NEW r \in Requests, Replaced(r) \/ FailRequest(r) PROVE PreferenceInv'
    <2>1. r \in Busy /\ Go(r, NotCome) /\ UNCHANGED <<rows, made, crossed>>
      BY <1>3 DEF Replaced, FailRequest, Busy
    <2>2. /\ rows' \subseteq Row /\ made' \in 0..MaxRows /\ made <= made' /\ crossed' \subseteq 1..MaxRows
          /\ \A row \in rows' : row.id \in 1..made'
          /\ OneRowPerKey'
      BY <2>1 DEF PreferenceInv, PreferencesTypeOK, MadeInv, OneRowPerKey
    <2> QED
      BY <2>1, <2>2, EndsKeeps
  <1>4. CASE UNCHANGED preferenceVars
    BY <1>4 DEF preferenceVars, PreferenceInv, PreferencesTypeOK, MadeInv, AloneInv, FoundInv, OneRowPerKey, Busy, Of
  <1> QED
    BY <1>0, <1>1, <1>2, <1>3, <1>4, ClearKeeps, FillKeeps, GetKeeps, SaveOrCreateKeeps DEF NextPreferences

LEMMA PreferenceInvariance == PreferencesSpec => []PreferenceInv
  <1> QED
    BY InitPreferenceInv, NextPreferenceInv, PTL DEF PreferencesSpec

\* Every variable keeps its type.
THEOREM PreferencesTypesCorrect == PreferencesSpec => []PreferencesTypeOK
  <1>1. PreferenceInv => PreferencesTypeOK
    BY DEF PreferenceInv
  <1> QED
    BY <1>1, PreferenceInvariance, PTL

\* Of two rows of one key, one was written by a request that another was at work
\* with, for any requests: whoever is alone sees what it found stay so.
THEOREM OneRowForAKey == PreferencesSpec => []OneRowPerKey
  <1>1. PreferenceInv => OneRowPerKey
    BY DEF PreferenceInv
  <1> QED
    BY <1>1, PreferenceInvariance, PTL

(***************************************************************************)
(* How often one client may ask.                                           *)
(***************************************************************************)
USE RateAssumption

\* Every step keeps the types.
LEMMA NextRateTypes ==
  ASSUME RateTypeOK, [NextRate]_rateVars
  PROVE  RateTypeOK' /\ cache' = cache
  <1> USE DEF RateTypeOK
  <1>1. Gone \in [there : BOOLEAN, count : Nat, ends : Nat]
    BY DEF Gone
  <1>2. \A n, t \in Nat : [there |-> TRUE, count |-> n, ends |-> clock + t]
          \in [there : BOOLEAN, count : Nat, ends : Nat]
    OBVIOUS
  <1>3. CASE TickClock \/ Drop
    BY <1>1, <1>3 DEF TickClock, Drop
  <1>4. ASSUME NEW r \in Callers, Come(r) PROVE RateTypeOK' /\ cache' = cache
    <2>1. fresh' \in BOOLEAN
      BY <1>4, Zenon DEF Come
    <2> QED
      BY <1>4, <2>1 DEF Come
  <1>5. ASSUME NEW r \in Callers, IncrGet(r) \/ IncrFails(r) \/ Decide(r)
        PROVE  RateTypeOK' /\ cache' = cache
    BY <1>5 DEF IncrGet, IncrFails, Decide
  <1>6. ASSUME NEW r \in Callers, Add(r) \/ AddAgain(r) PROVE RateTypeOK' /\ cache' = cache
    <2>1. entry' \in [there : BOOLEAN, count : Nat, ends : Nat] /\ admitted' \in Nat
      <3>1. entry' = entry \/ \E n, t \in Nat : entry' = [there |-> TRUE, count |-> n, ends |-> clock + t]
        BY <1>6 DEF Add, AddAgain, Make
      <3>2. admitted' \in Nat
        BY <1>6 DEF Add, AddAgain, Make
      <3>3. CASE entry' = entry
        BY <3>2, <3>3
      <3>4. CASE entry' # entry
        <4>1. PICK n \in Nat, t \in Nat : entry' = [there |-> TRUE, count |-> n, ends |-> clock + t]
          BY <3>1, <3>4
        <4> QED
          BY <1>2, <3>2, <4>1
      <3> QED
        BY <3>3, <3>4
    <2> QED
      BY <1>6, <2>1 DEF Add, AddAgain, Told
  <1>7. ASSUME NEW r \in Callers, IncrLocal(r) PROVE RateTypeOK' /\ cache' = cache
    BY <1>7 DEF IncrLocal, Told, One
  <1>8. ASSUME NEW r \in Callers, IncrSet(r) PROVE RateTypeOK' /\ cache' = cache
    <2>1. entry' \in [there : BOOLEAN, count : Nat, ends : Nat] /\ admitted' \in Nat
      BY <1>2, <1>8 DEF IncrSet, Make, One
    <2> QED
      BY <1>8, <2>1 DEF IncrSet, Told
  <1>9. CASE UNCHANGED rateVars
    BY <1>9 DEF rateVars
  <1> QED
    BY <1>3, <1>4, <1>6, <1>7, <1>8, <1>9, <1>5 DEF NextRate

\* Every variable keeps its type.
THEOREM RateTypesCorrect == RateSpec => []RateTypeOK
  <1>1. InitRate => RateTypeOK
    <2>1. Gone \in [there : BOOLEAN, count : Nat, ends : Nat]
      BY DEF Gone
    <2>2. ASSUME InitRate PROVE RateTypeOK
      <3>1. clock \in 0..MaxClock /\ cache \in Caches /\ entry \in [there : BOOLEAN, count : Nat, ends : Nat]
        BY <2>1, <2>2 DEF InitRate
      <3>2. seen \in [Callers -> Nat] /\ counted \in [Callers -> Nat]
            /\ stage \in [Callers -> {"idle", "add", "incr", "set", "again", "decide"}]
        BY <2>2 DEF InitRate
      <3> QED
        BY <2>2, <3>1, <3>2 DEF InitRate, RateTypeOK
    <2> QED
      BY <2>2
  <1> QED
    BY <1>1, NextRateTypes, PTL DEF RateSpec

\* Requests that are still to be told a count.
Uncounted == {r \in Callers : stage[r] \in {"add", "incr", "set", "again"}}

\* What is counted, or will be written, and those still to be counted are among
\* the requests there were.
EarlyInv ==
    /\ Cardinality(Uncounted) <= asked
    /\ entry.there => entry.count + Cardinality(Uncounted) <= asked
    /\ \A r \in Callers :
          /\ stage[r] = "set" => seen[r] + Cardinality(Uncounted) <= asked
          /\ stage[r] = "decide" => counted[r] <= asked

\* How a step changes who is still to be told.
LEMMA UncountedIs ==
  ASSUME RateTypeOK
  PROVE  /\ IsFiniteSet(Uncounted) /\ Cardinality(Uncounted) \in Nat
         /\ \A r \in Uncounted : Cardinality(Uncounted) >= 1
               /\ (Uncounted' = Uncounted \ {r} => Cardinality(Uncounted') = Cardinality(Uncounted) - 1)
         /\ \A r : r \notin Uncounted /\ Uncounted' = Uncounted \cup {r}
                     => Cardinality(Uncounted') = Cardinality(Uncounted) + 1
  <1>1. IsFiniteSet(Uncounted)
    <2>1. Uncounted \subseteq Callers
      BY DEF Uncounted
    <2> QED
      BY <2>1, FS_Subset
  <1>2. Cardinality(Uncounted) \in Nat
    BY <1>1, FS_CardinalityType
  <1>3. ASSUME NEW r \in Uncounted
        PROVE  Cardinality(Uncounted \ {r}) = Cardinality(Uncounted) - 1 /\ Cardinality(Uncounted) >= 1
    <2>1. IsFiniteSet(Uncounted \ {r}) /\ Cardinality(Uncounted \ {r}) = Cardinality(Uncounted) - 1
      BY <1>1, FS_RemoveElement
    <2>2. Cardinality(Uncounted \ {r}) \in Nat
      BY <2>1, FS_CardinalityType
    <2> QED
      BY <1>2, <2>1, <2>2
  <1>4. ASSUME NEW r, r \notin Uncounted
        PROVE  Cardinality(Uncounted \cup {r}) = Cardinality(Uncounted) + 1
    BY <1>1, <1>4, FS_AddElement
  <1> QED
    BY <1>1, <1>2, <1>3, <1>4

LEMMA NextEarly ==
  ASSUME RateTypeOK, EarlyInv, [NextRate]_rateVars
  PROVE  EarlyInv'
  <1> DEFINE U == Cardinality(Uncounted)
  <1>1. /\ U \in Nat /\ asked \in Nat /\ entry.count \in Nat
        /\ \A r \in Callers : seen[r] \in Nat /\ counted[r] \in Nat
    BY UncountedIs DEF RateTypeOK
  <1>2. CASE TickClock \/ Drop
    <2>1. Uncounted' = Uncounted /\ (entry'.there => entry' = entry)
      BY <1>2 DEF TickClock, Drop, Gone, Uncounted
    <2> QED
      BY <1>2, <2>1 DEF TickClock, Drop, EarlyInv
  <1>3. ASSUME NEW r \in Callers, Come(r) PROVE EarlyInv'
    <2>1. r \notin Uncounted /\ Uncounted' = Uncounted \cup {r}
      BY <1>3 DEF Come, Uncounted, RateTypeOK
    <2>2. Cardinality(Uncounted') = U + 1
      BY <2>1, UncountedIs
    <2>3. CASE Idle /\ ~entry.there
      <3>1. Uncounted = {}
        BY <2>3 DEF Idle, Uncounted
      <3>2. U = 0
        BY <3>1, FS_EmptySet
      <3>3. asked' = 1 /\ ~entry'.there /\ \A q \in Callers : stage'[q] \in {"idle", "add"}
        BY <1>3, <2>3 DEF Come, Idle, RateTypeOK
      <3> QED
        BY <2>2, <3>2, <3>3 DEF EarlyInv
    <2>4. CASE ~(Idle /\ ~entry.there)
      <3>1. asked' = asked + 1 /\ UNCHANGED <<entry, seen, counted>>
        BY <1>3, <2>4 DEF Come
      <3>2. \A q \in Callers : stage'[q] \in {"set", "decide"} => stage[q] = stage'[q]
        BY <1>3 DEF Come, RateTypeOK
      <3> HIDE DEF U
      <3> QED
        BY <1>1, <2>2, <3>1, <3>2 DEF EarlyInv, U
    <2> QED
      BY <2>3, <2>4
  <1>4. ASSUME NEW r \in Callers, Add(r) PROVE EarlyInv'
    <2>1. Uncounted' = Uncounted
      BY <1>4 DEF Add, Uncounted, RateTypeOK
    <2>2. entry' = entry \/ entry'.count = 0
      BY <1>4 DEF Add, Make
    <2>3. UNCHANGED <<seen, counted, asked>>
          /\ \A q \in Callers : stage'[q] \in {"set", "decide"} => stage[q] = stage'[q]
      BY <1>4 DEF Add, RateTypeOK
    <2> QED
      BY <1>1, <2>1, <2>2, <2>3 DEF EarlyInv
  <1>5. ASSUME NEW r \in Callers, IncrGet(r) \/ IncrFails(r) PROVE EarlyInv'
    <2>1. Uncounted' = Uncounted
      BY <1>5 DEF IncrGet, IncrFails, Uncounted, RateTypeOK
    <2>2. UNCHANGED <<entry, counted, asked>>
          /\ \A q \in Callers : stage'[q] = "decide" => stage[q] = "decide"
      BY <1>5 DEF IncrGet, IncrFails, RateTypeOK
    <2>3. \A q \in Callers : stage'[q] = "set" => \/ stage[q] = "set" /\ seen'[q] = seen[q]
                                                  \/ entry.there /\ seen'[q] = entry.count
      BY <1>5 DEF IncrGet, IncrFails, RateTypeOK
    <2> QED
      BY <1>1, <2>1, <2>2, <2>3 DEF EarlyInv
  <1>6. ASSUME NEW r \in Callers, IncrLocal(r) \/ IncrSet(r) \/ AddAgain(r) PROVE EarlyInv'
    <2>1. r \in Uncounted /\ Uncounted' = Uncounted \ {r}
      BY <1>6 DEF IncrLocal, IncrSet, AddAgain, Told, Uncounted, RateTypeOK
    <2>2. Cardinality(Uncounted') = U - 1 /\ U >= 1
      BY <2>1, UncountedIs
    <2>3. 1 \in Nat /\ 1 + U <= asked + 1
      BY <1>1, <2>2 DEF EarlyInv
    <2>4. PICK n \in Nat : /\ counted' = [counted EXCEPT ![r] = n] /\ n + U <= asked + 1
                           /\ entry' = entry \/ entry'.count = n
      <3> HIDE DEF U
      <3>1. CASE IncrLocal(r)
        <4>1. entry'.count = entry.count + 1 /\ counted' = [counted EXCEPT ![r] = entry.count + 1]
              /\ entry.there
          BY <3>1 DEF IncrLocal, Told, RateTypeOK
        <4>2. entry.count + 1 \in Nat /\ entry.count + 1 + U <= asked + 1
          BY <1>1, <4>1 DEF EarlyInv, U
        <4> QED
          BY <4>1, <4>2
      <3>2. CASE IncrSet(r)
        <4>1. entry'.count = seen[r] + 1 /\ counted' = [counted EXCEPT ![r] = seen[r] + 1]
              /\ stage[r] = "set"
          BY <3>2 DEF IncrSet, Told, Make
        <4>2. seen[r] + 1 \in Nat /\ seen[r] + 1 + U <= asked + 1
          BY <1>1, <4>1 DEF EarlyInv, U
        <4> QED
          BY <4>1, <4>2
      <3>3. CASE AddAgain(r)
        <4>1. (entry' = entry \/ entry'.count = 1) /\ counted' = [counted EXCEPT ![r] = 1]
          BY <3>3 DEF AddAgain, Told, Make
        <4> QED
          BY <2>3, <4>1
      <3> QED
        BY <1>6, <3>1, <3>2, <3>3
    <2>5. asked' = asked /\ \A q \in Callers \ {r} : stage'[q] = stage[q] /\ seen'[q] = seen[q]
      BY <1>6 DEF IncrLocal, IncrSet, AddAgain, Told, RateTypeOK
    <2>6. stage'[r] = "decide" /\ counted'[r] = n /\ \A q \in Callers \ {r} : counted'[q] = counted[q]
      BY <1>6, <2>4 DEF IncrLocal, IncrSet, AddAgain, Told, RateTypeOK
    <2>7. entry'.there => (entry' = entry /\ entry.there) \/ entry'.count = n
      BY <2>4
    <2>8. entry'.there => entry'.count + Cardinality(Uncounted') <= asked'
      BY <1>1, <2>2, <2>4, <2>5, <2>7 DEF EarlyInv
    <2>9. ASSUME NEW q \in Callers
          PROVE  /\ stage'[q] = "set" => seen'[q] + Cardinality(Uncounted') <= asked'
                 /\ stage'[q] = "decide" => counted'[q] <= asked'
      <3>1. CASE q = r
        BY <1>1, <2>2, <2>4, <2>5, <2>6, <3>1
      <3>2. CASE q # r
        BY <1>1, <2>2, <2>5, <2>6, <3>2 DEF EarlyInv
      <3> QED
        BY <3>1, <3>2
    <2> QED
      BY <1>1, <2>2, <2>5, <2>8, <2>9 DEF EarlyInv
  <1>7. ASSUME NEW r \in Callers, Decide(r) PROVE EarlyInv'
    <2>1. Uncounted' = Uncounted
      BY <1>7 DEF Decide, Uncounted, RateTypeOK
    <2>2. UNCHANGED <<entry, seen, asked>>
          /\ \A q \in Callers : stage'[q] \in {"set", "decide"}
               => stage[q] = stage'[q] /\ counted'[q] = counted[q]
      BY <1>7 DEF Decide, RateTypeOK
    <2> QED
      BY <2>1, <2>2 DEF EarlyInv
  <1>8. CASE UNCHANGED rateVars
    BY <1>8 DEF rateVars, EarlyInv, Uncounted
  <1> QED
    BY <1>2, <1>3, <1>4, <1>5, <1>6, <1>7, <1>8 DEF NextRate

LEMMA EarlyHolds == RateSpec => [](RateTypeOK /\ EarlyInv)
  <1>1. ASSUME InitRate PROVE EarlyInv
    <2>1. Uncounted = {}
      BY <1>1 DEF InitRate, Uncounted
    <2> QED
      BY <1>1, <2>1, FS_EmptySet DEF InitRate, EarlyInv, Gone
  <1> QED
    BY <1>1, NextEarly, RateTypesCorrect, PTL DEF RateSpec

\* Whichever cache is set up, and for any limit, timeouts and threads: nobody is told a
\* higher count than there were requests since there was neither a counter nor a
\* request at work (pycrocosm/ratelimit.py:29-37).
THEOREM NobodyRefusedEarly == RateSpec => []NotRefusedEarly
  <1>1. EarlyInv => NotRefusedEarly
    BY DEF EarlyInv, NotRefusedEarly
  <1> QED
    BY <1>1, EarlyHolds, PTL

\* Who found the counter gone, and will count itself the first.
Again == {r \in Callers : stage[r] = "again"}

Counted == IF entry.count <= Limit THEN entry.count ELSE Limit

\* Of the local cache: those let through were counted, or found the counter gone;
\* whoever counted the first is no more one of these.
PassInv ==
    /\ admitted <= Limit + Cardinality(Callers) - 1
    /\ entry.there => admitted + Cardinality(Again) <= Counted + Cardinality(Callers) - 1

LocalInv == \A r \in Callers : stage[r] # "set"

LEMMA NextLocal ==
  ASSUME RateTypeOK, cache = "local", LocalInv, [NextRate]_rateVars
  PROVE  LocalInv'
  <1>1. ASSUME NEW r \in Callers, NEW q \in Callers, stage'[q] = "set",
               \/ Come(r) \/ Add(r) \/ IncrLocal(r) \/ IncrGet(r) \/ IncrSet(r) \/ IncrFails(r)
               \/ AddAgain(r) \/ Decide(r)
        PROVE  stage[q] = "set"
    BY <1>1 DEF Come, Add, IncrLocal, IncrGet, IncrSet, IncrFails, AddAgain, Decide, Told, RateTypeOK
  <1>2. CASE TickClock \/ Drop \/ UNCHANGED rateVars
    BY <1>2 DEF TickClock, Drop, rateVars, LocalInv
  <1> QED
    BY <1>1, <1>2 DEF NextRate, LocalInv

LEMMA AgainIs ==
  ASSUME RateTypeOK
  PROVE  /\ IsFiniteSet(Again) /\ Cardinality(Again) \in Nat
         /\ Cardinality(Callers) \in Nat
         /\ \A r \in Callers : Cardinality(Again \ {r}) <= Cardinality(Callers) - 1
         /\ \A r \in Again : Cardinality(Again \ {r}) = Cardinality(Again) - 1
  <1>1. IsFiniteSet(Again) /\ Again \subseteq Callers
    <2>1. Again \subseteq Callers
      BY DEF Again
    <2> QED
      BY <2>1, FS_Subset
  <1>2. Cardinality(Again) \in Nat /\ Cardinality(Callers) \in Nat
    BY <1>1, FS_CardinalityType
  <1>3. ASSUME NEW r \in Callers
        PROVE  Cardinality(Again \ {r}) <= Cardinality(Callers) - 1
    <2>1. IsFiniteSet(Callers \ {r}) /\ Cardinality(Callers \ {r}) = Cardinality(Callers) - 1
      BY FS_RemoveElement
    <2>2. Again \ {r} \subseteq Callers \ {r}
      BY <1>1
    <2>3. Cardinality(Again \ {r}) <= Cardinality(Callers \ {r})
      BY <2>1, <2>2, FS_Subset
    <2> QED
      BY <2>1, <2>3
  <1>4. ASSUME NEW r \in Again PROVE Cardinality(Again \ {r}) = Cardinality(Again) - 1
    BY <1>1, FS_RemoveElement
  <1> QED
    BY <1>1, <1>2, <1>3, <1>4

LEMMA NextPass ==
  ASSUME RateTypeOK, cache = "local", LocalInv, PassInv, [NextRate]_rateVars
  PROVE  PassInv'
  <1> DEFINE A == Cardinality(Again)
             C == Cardinality(Callers)
  <1>1. /\ A \in Nat /\ C \in Nat /\ Limit \in Nat \ {0} /\ admitted \in Nat /\ entry.count \in Nat
    BY AgainIs DEF RateTypeOK
  <1>2. CASE TickClock \/ Drop
    <2>1. Again' = Again /\ (entry'.there => entry' = entry) /\ admitted' = admitted
      BY <1>2 DEF TickClock, Drop, Gone, Again
    <2> QED
      BY <2>1 DEF PassInv, Counted
  <1>3. ASSUME NEW r \in Callers, Come(r) \/ Decide(r) PROVE PassInv'
    <2>1. Again' = Again /\ UNCHANGED <<entry, admitted>>
      BY <1>3 DEF Come, Decide, Again, RateTypeOK
    <2> QED
      BY <2>1 DEF PassInv, Counted
  <1>4. ASSUME NEW r \in Callers, Add(r) PROVE PassInv'
    <2>1. Again' = Again /\ r \notin Again
      BY <1>4 DEF Add, Again, RateTypeOK
    <2>2. CASE entry.there
      BY <1>4, <2>1, <2>2 DEF Add, PassInv, Counted
    <2>3. CASE ~entry.there
      <3>1. entry'.count = 0 /\ admitted' = 0
        BY <1>4, <2>3 DEF Add, Make
      <3>2. Again \ {r} = Again
        BY <2>1
      <3>3. A <= C - 1
        BY <3>2, AgainIs
      <3> QED
        BY <1>1, <2>1, <3>1, <3>3 DEF PassInv, Counted
    <2> QED
      BY <2>2, <2>3
  <1>5. ASSUME NEW r \in Callers, IncrLocal(r) PROVE PassInv'
    <2>1. Again' = Again /\ entry'.count = entry.count + 1 /\ entry.there
          /\ admitted' = admitted + One(entry.count + 1)
      BY <1>5 DEF IncrLocal, Told, Again, RateTypeOK
    <2>2. admitted + A <= Counted + C - 1
      BY <2>1 DEF PassInv
    <2>3. Counted \in Nat /\ Counted' = Counted + One(entry.count + 1) /\ Counted' <= Limit
          /\ One(entry.count + 1) \in Nat
      BY <1>1, <2>1 DEF Counted, One
    <2>4. admitted' + A <= Counted' + C - 1
      BY <1>1, <2>1, <2>2, <2>3
    <2> QED
      BY <1>1, <2>1, <2>3, <2>4 DEF PassInv
  <1>6. ASSUME NEW r \in Callers, IncrFails(r) PROVE PassInv'
    BY <1>6 DEF IncrFails, PassInv
  <1>7. ASSUME NEW r \in Callers, AddAgain(r) PROVE PassInv'
    <2>1. Again' = Again \ {r} /\ r \in Again
      BY <1>7 DEF AddAgain, Told, Again, RateTypeOK
    <2>2. Cardinality(Again') = A - 1 /\ A - 1 <= C - 1
      BY <2>1, AgainIs
    <2>3. CASE entry.there
      <3>1. entry' = entry /\ admitted' = admitted + 1
        BY <1>7, <2>3 DEF AddAgain
      <3>2. admitted + A <= Counted + C - 1
        BY <2>3 DEF PassInv
      <3>3. Counted' = Counted /\ Counted \in Nat /\ Counted <= Limit
        BY <1>1, <3>1 DEF Counted
      <3>4. A >= 1
        BY <2>1, <2>2, AgainIs, <1>1, FS_CardinalityType, FS_RemoveElement
      <3> QED
        BY <1>1, <2>2, <3>1, <3>2, <3>3, <3>4 DEF PassInv
    <2>4. CASE ~entry.there
      <3>1. entry'.count = 1 /\ admitted' = 1
        BY <1>7, <2>4 DEF AddAgain, Make
      <3>2. Counted' = 1
        BY <1>1, <3>1 DEF Counted
      <3>3. C >= 1
        <4>1. Cardinality(Callers \ {r}) = C - 1 /\ IsFiniteSet(Callers \ {r})
          BY FS_RemoveElement
        <4>2. C - 1 \in Nat
          BY <4>1, FS_CardinalityType
        <4> QED
          BY <1>1, <4>2
      <3> QED
        BY <1>1, <2>2, <3>1, <3>2, <3>3 DEF PassInv
    <2> QED
      BY <2>3, <2>4
  <1>8. ASSUME NEW r \in Callers PROVE ~IncrGet(r) /\ ~IncrSet(r)
    BY DEF IncrGet, IncrSet, LocalInv
  <1>9. CASE UNCHANGED rateVars
    BY <1>9 DEF rateVars, PassInv, Again, Counted
  <1> QED
    BY <1>2, <1>3, <1>4, <1>5, <1>6, <1>7, <1>8, <1>9 DEF NextRate

\* Of the local cache: a counter ends a window after it was made, and no later than a
\* window after the last request; one that came after that, alone, is the first it counts.
FreshInv ==
    /\ last <= clock
    /\ entry.there => /\ clock < entry.ends /\ entry.ends <= clock + Window
                      /\ Idle => entry.ends <= last + Window
    /\ fresh => \A r \in Callers :
          /\ \A q \in Callers : stage[r] # "idle" /\ stage[q] # "idle" => r = q
          /\ stage[r] \in {"add", "again"} => ~entry.there
          /\ stage[r] = "incr" /\ entry.there => entry.count = 0
          /\ stage[r] = "decide" => counted[r] <= 1

LEMMA NextFresh ==
  ASSUME RateTypeOK, cache = "local", LocalInv, FreshInv, [NextRate]_rateVars
  PROVE  FreshInv'
  <1> DEFINE Ends == entry.there => /\ clock < entry.ends /\ entry.ends <= clock + Window
                                    /\ Idle => entry.ends <= last + Window
             First == fresh => \A r \in Callers :
                        /\ \A q \in Callers : stage[r] # "idle" /\ stage[q] # "idle" => r = q
                        /\ stage[r] \in {"add", "again"} => ~entry.there
                        /\ stage[r] = "incr" /\ entry.there => entry.count = 0
                        /\ stage[r] = "decide" => counted[r] <= 1
  <1>1. clock \in Nat /\ Window \in Nat \ {0} /\ last \in Nat /\ entry.ends \in Nat /\ entry.count \in Nat
    BY DEF RateTypeOK
  <1>2. last <= clock /\ Ends /\ First
    BY DEF FreshInv
  <1>3. SUFFICES last' <= clock' /\ Ends' /\ First'
    BY DEF FreshInv
  <1>4. CASE TickClock
    <2>1. clock' = clock + 1 /\ UNCHANGED <<stage, counted, last, fresh>>
          /\ (entry'.there => entry.there /\ entry' = entry /\ clock + 1 < entry.ends)
          /\ (Idle' <=> Idle)
      BY <1>4 DEF TickClock, Gone, Idle
    <2>2. last' <= clock' /\ Ends'
      BY <1>1, <1>2, <2>1
    <2> QED
      BY <1>2, <2>1, <2>2
  <1>5. CASE Drop
    <2>1. ~entry'.there /\ UNCHANGED <<clock, stage, counted, last, fresh>>
      BY <1>5 DEF Drop, Gone
    <2> QED
      BY <1>2, <2>1
  <1>6. ASSUME NEW r \in Callers, Come(r) PROVE last' <= clock' /\ Ends' /\ First'
    <2>1. UNCHANGED <<clock, entry, counted, last>> /\ ~Idle' /\ (fresh' <=> Idle /\ clock >= last + Window)
      BY <1>6 DEF Come, Idle, RateTypeOK
    <2>2. last' <= clock' /\ Ends'
      BY <1>2, <2>1
    <2>3. ASSUME fresh' PROVE First'
      <3>1. Idle /\ clock >= last + Window
        BY <2>1, <2>3
      <3>2. ~entry.there
        BY <1>1, <1>2, <3>1
      <3>3. stage'[r] = "add" /\ \A q \in Callers \ {r} : stage'[q] = "idle"
        BY <1>6, <3>1 DEF Come, Idle, RateTypeOK
      <3> QED
        BY <2>1, <3>2, <3>3
    <2> QED
      BY <2>2, <2>3
  <1>7. ASSUME NEW r \in Callers, Add(r) PROVE last' <= clock' /\ Ends' /\ First'
    <2>1. UNCHANGED <<clock, counted, last, fresh>> /\ ~Idle' /\ stage[r] = "add" /\ stage'[r] = "incr"
          /\ \A q \in Callers \ {r} : stage'[q] = stage[q]
      BY <1>7 DEF Add, Idle, RateTypeOK
    <2>2. CASE entry.there
      <3>1. entry' = entry
        BY <1>7, <2>2 DEF Add
      <3> QED
        BY <1>2, <2>1, <2>2, <3>1
    <2>3. CASE ~entry.there
      <3>1. entry'.ends = clock + Window /\ entry'.count = 0
        BY <1>7, <2>3 DEF Add, Make
      <3>2. last' <= clock' /\ Ends'
        BY <1>1, <1>2, <2>1, <3>1
      <3>3. First'
        BY <1>2, <2>1, <3>1
      <3> QED
        BY <3>2, <3>3
    <2> QED
      BY <2>2, <2>3
  <1>8. ASSUME NEW r \in Callers, IncrLocal(r) PROVE last' <= clock' /\ Ends' /\ First'
    <2>1. UNCHANGED <<clock, last, fresh>> /\ ~Idle' /\ stage[r] = "incr" /\ stage'[r] = "decide"
          /\ \A q \in Callers \ {r} : stage'[q] = stage[q] /\ counted'[q] = counted[q]
      BY <1>8 DEF IncrLocal, Told, Idle, RateTypeOK
    <2>2. entry'.ends = entry.ends /\ counted'[r] = entry.count + 1 /\ entry.there
      BY <1>8 DEF IncrLocal, Told, RateTypeOK
    <2>3. last' <= clock' /\ Ends'
      BY <1>2, <2>1, <2>2
    <2>4. First'
      BY <1>1, <1>2, <2>1, <2>2
    <2> QED
      BY <2>3, <2>4
  <1>9. ASSUME NEW r \in Callers, IncrFails(r) PROVE last' <= clock' /\ Ends' /\ First'
    <2>1. UNCHANGED <<clock, entry, counted, last, fresh>> /\ ~entry.there
          /\ stage[r] = "incr" /\ stage'[r] = "again"
          /\ \A q \in Callers \ {r} : stage'[q] = stage[q]
      BY <1>9 DEF IncrFails, RateTypeOK
    <2> QED
      BY <1>2, <2>1
  <1>10. ASSUME NEW r \in Callers, AddAgain(r) PROVE last' <= clock' /\ Ends' /\ First'
    <2>1. UNCHANGED <<clock, last, fresh>> /\ ~Idle' /\ stage[r] = "again" /\ stage'[r] = "decide"
          /\ counted'[r] = 1 /\ \A q \in Callers \ {r} : stage'[q] = stage[q] /\ counted'[q] = counted[q]
      BY <1>10 DEF AddAgain, Told, Idle, RateTypeOK
    <2>2. CASE entry.there
      <3>1. entry' = entry
        BY <1>10, <2>2 DEF AddAgain
      <3> QED
        BY <1>2, <2>1, <2>2, <3>1
    <2>3. CASE ~entry.there
      <3>1. entry'.ends = clock + Window
        BY <1>10, <2>3 DEF AddAgain, Make
      <3>2. last' <= clock' /\ Ends'
        BY <1>1, <1>2, <2>1, <3>1
      <3>3. First'
        BY <1>2, <2>1
      <3> QED
        BY <3>2, <3>3
    <2> QED
      BY <2>2, <2>3
  <1>11. ASSUME NEW r \in Callers, Decide(r) PROVE last' <= clock' /\ Ends' /\ First'
    <2>1. UNCHANGED <<clock, entry, fresh>> /\ last' = clock
          /\ stage[r] = "decide" /\ stage'[r] = "idle"
          /\ \A q \in Callers \ {r} : stage'[q] = stage[q] /\ counted'[q] = counted[q]
      BY <1>11 DEF Decide, RateTypeOK
    <2>2. last' <= clock' /\ Ends'
      BY <1>1, <1>2, <2>1
    <2>3. First'
      BY <1>2, <2>1
    <2> QED
      BY <2>2, <2>3
  <1>12. ASSUME NEW r \in Callers PROVE ~IncrGet(r) /\ ~IncrSet(r)
    BY DEF IncrGet, IncrSet, LocalInv
  <1>13. CASE UNCHANGED rateVars
    BY <1>2, <1>13 DEF rateVars, Idle
  <1> QED
    BY <1>4, <1>5, <1>6, <1>7, <1>8, <1>9, <1>10, <1>11, <1>12, <1>13 DEF NextRate

\* With the local cache, for any limit, window and threads: of one counter the limit is let
\* through, and as many more as may have found the one before it gone; none is refused
\* early; and who waits for a window is let through (pycrocosm/ratelimit.py:29-42).
THEOREM LocalLimitHolds == RateSpec => [](cache = "local" => LimitHolds)
  <1> DEFINE Inv == cache = "local" => LocalInv /\ PassInv /\ FreshInv
  <1>1. ASSUME InitRate PROVE Inv
    <2>1. ~entry.there /\ ~fresh /\ last = 0 /\ clock = 0 /\ admitted = 0
          /\ \A r \in Callers : stage[r] = "idle"
      BY <1>1 DEF InitRate, Gone
    <2>2. Limit + Cardinality(Callers) - 1 >= 0
      BY FS_CardinalityType
    <2> QED
      BY <2>1, <2>2 DEF LocalInv, PassInv, FreshInv
  <1>2. ASSUME RateTypeOK, Inv, [NextRate]_rateVars PROVE Inv'
    <2>1. cache' = cache
      BY <1>2, NextRateTypes
    <2> QED
      BY <1>2, <2>1, NextLocal, NextPass, NextFresh
  <1>3. ASSUME RateTypeOK, EarlyInv, Inv, cache = "local" PROVE LimitHolds
    <2>1. NotTooManyPass
      BY <1>3 DEF PassInv, NotTooManyPass
    <2>2. NotRefusedEarly
      BY <1>3 DEF EarlyInv, NotRefusedEarly
    <2>3. FreeAfterWindow
      BY <1>3 DEF FreshInv, FreeAfterWindow, RateTypeOK
    <2> QED
      BY <2>1, <2>2, <2>3 DEF LimitHolds
  <1> HIDE DEF Inv
  <1> QED
    BY <1>1, <1>2, <1>3, EarlyHolds, PTL DEF RateSpec

(***************************************************************************)
(* All of them together.                                                   *)
(***************************************************************************)

\* Requests about one are served among those about the others as if there were no
\* others, so that each of the theorems above holds of the whole.
THEOREM EachIsApart ==
  AccountsSpec => Spec /\ PreferencesSpec /\ RegistrationSpec /\ RateSpec
  <1>1. AccountsInit => Init /\ InitPreferences /\ InitRegistration /\ InitRate
    BY DEF AccountsInit
  <1>2. ASSUME [AccountsNext]_accountVars
        PROVE  [Next]_oauthVars /\ [NextPreferences]_preferenceVars
                 /\ [NextRegistration]_registrationVars /\ [NextRate]_rateVars
    BY <1>2 DEF AccountsNext, accountVars
  <1> QED
    BY <1>1, <1>2, PTL DEF AccountsSpec, Spec, PreferencesSpec, RegistrationSpec, RateSpec

\* Grants, preferences, users and counters keep their types while requests about any of them
\* are served at once (oauth2/views.py, users/views.py, pycrocosm/ratelimit.py).
THEOREM AccountsTypesCorrect == AccountsSpec => []TypesOK
  <1>1. TypeOK /\ PreferencesTypeOK /\ RegistrationTypeOK /\ RateTypeOK => TypesOK
    BY DEF TypesOK
  <1> QED
    BY <1>1, EachIsApart, GrantTypesCorrect, PreferencesTypesCorrect, RegistrationTypesCorrect,
       RateTypesCorrect, PTL
=============================================================================
