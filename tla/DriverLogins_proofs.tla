------------------------ MODULE DriverLogins_proofs ------------------------
(***************************************************************************)
(* One device per driver and the rotation of refresh tokens, for any       *)
(* number of logins, tokens and refreshes: no family has two usable        *)
(* tokens, and the newest device keeps one.                                *)
(***************************************************************************)
EXTENDS DriverLogins, FiniteSetTheorems, TLAPS

\* A row of refresh_tokens belongs to a login that was sent.
TokensAreIssued == \A k \in Tokens :
    /\ token[k].st # "none" => token[k].family \in Logins /\ login[token[k].family] # "unsent"
    /\ token[k].st = "none" => token[k].family = NoLogin

\* A family has one usable token.
AtMostOneUsable == \A j, k \in Tokens :
    token[j].st = "usable" /\ token[k].st = "usable" /\ token[j].family = token[k].family => j = k

\* A refresh looks at a token that was issued.
RefreshOfIssued == \A c \in Refreshes :
    refresh[c] # NoRefresh => token[refresh[c].token].st # "none"

\* Without an overlap one login at a time is at work; one about to revoke the others' tokens
\* is the session, and one that was not sent is not.
OneLogin == ~overlapped =>
    /\ \A l, m \in Logins : LoginAtWork(l) /\ LoginAtWork(m) => l = m
    /\ \A l \in Logins : login[l] = "revoke" => sid = l
    /\ \A l \in Logins : sid = l => login[l] # "unsent"

\* The session, and a login about to become it, have a usable token.
HasUsable(f) == \E k \in Tokens : token[k].st = "usable" /\ token[k].family = f
SessionCanRefresh == \A f \in Logins :
    (sid = f \/ login[f] = "sid") /\ f \notin ended /\ ~overlapped => HasUsable(f)

LoginInv == TokensAreIssued /\ AtMostOneUsable /\ RefreshOfIssued /\ OneLogin /\ SessionCanRefresh

-----------------------------------------------------------------------------
(* The operations on tokens. *)

\* Revoking families leaves the others' tokens alone.
LEMMA RevokedTokens ==
    ASSUME LoginTypeOK, NEW F, token' = Revoked(F)
    PROVE  /\ token' \in [Tokens -> TokenRow]
           /\ \A k \in Tokens :
                /\ token'[k].family = token[k].family
                /\ token'[k].st = IF token[k].family \in F /\ token[k].st = "usable"
                                  THEN "revoked" ELSE token[k].st
<1>1. \A k \in Tokens : token[k] \in TokenRow
  BY DEF LoginTypeOK
<1>2. ASSUME NEW r \in TokenRow
      PROVE  /\ [r EXCEPT !.st = "revoked"] \in TokenRow
             /\ [r EXCEPT !.st = "revoked"].family = r.family
             /\ [r EXCEPT !.st = "revoked"].st = "revoked"
  BY DEF TokenRow
<1>. QED  BY <1>1, <1>2 DEF Revoked

\* A refresh at work is a record of its own.
LEMMA AtWorkIsRefreshing ==
    ASSUME LoginTypeOK, NEW c \in Refreshes, refresh[c].at \in {"rotate", "reuse"}
    PROVE  refresh[c] \in Refreshing /\ refresh[c] # NoRefresh /\ refresh[c].token \in Tokens
<1>1. refresh[c] \in Refreshing /\ refresh[c] # NoRefresh
  BY DEF LoginTypeOK, NoRefresh
<1>. QED  BY <1>1 DEF Refreshing

\* A rotation: the old token is used, the new one is usable, of the same family.
LEMMA Rotated ==
    ASSUME LoginTypeOK, NEW k \in Tokens, NEW j \in Tokens, NEW f \in Logins \cup {NoLogin}, j # k,
           token' = [token EXCEPT ![k].st = "used", ![j] = [st |-> "usable", family |-> f]]
    PROVE  /\ token' \in [Tokens -> TokenRow]
           /\ token'[k].st = "used" /\ token'[k].family = token[k].family
           /\ token'[j].st = "usable" /\ token'[j].family = f
           /\ \A i \in Tokens \ {j, k} : token'[i] = token[i]
<1>. DEFINE used == [token[k] EXCEPT !.st = "used"]
            fresh == [st |-> "usable", family |-> f]
<1>1. token[k] \in TokenRow
  BY DEF LoginTypeOK
<1>2. used \in TokenRow /\ used.st = "used" /\ used.family = token[k].family
  BY <1>1 DEF TokenRow
<1>3. fresh \in TokenRow /\ fresh.st = "usable" /\ fresh.family = f
  BY DEF TokenRow
<1>4. token' = [[token EXCEPT ![k] = used] EXCEPT ![j] = fresh]
  BY DEF LoginTypeOK
<1>. HIDE DEF used, fresh
<1>. QED  BY <1>2, <1>3, <1>4 DEF LoginTypeOK

-----------------------------------------------------------------------------
(* The invariant. *)

\* A step of the logins keeps every variable in its type.
LEMMA LoginTypeStep ==
    ASSUME LoginTypeOK, LoginInv, [LoginNext]_loginVars PROVE LoginTypeOK'
<1>1. CASE UNCHANGED loginVars
  BY <1>1 DEF loginVars, LoginTypeOK
<1>2. ASSUME NEW l \in Logins, IssueToken(l) PROVE LoginTypeOK'
  BY <1>2 DEF IssueToken, LoginTypeOK, TokenRow, LoginSteps
<1>3. ASSUME NEW l \in Logins, SwitchSid(l) \/ LoginFails(l) PROVE LoginTypeOK'
  BY <1>3 DEF SwitchSid, LoginFails, LoginTypeOK, LoginSteps
<1>4. ASSUME NEW l \in Logins, RevokeOthers(l) PROVE LoginTypeOK'
  BY <1>4, RevokedTokens DEF RevokeOthers, LoginTypeOK, LoginSteps
<1>5. ASSUME NEW c \in Refreshes, NEW k \in Tokens, BeginRefresh(c, k) PROVE LoginTypeOK'
  BY <1>5 DEF BeginRefresh, LoginTypeOK, Refreshing
<1>6. ASSUME NEW c \in Refreshes, Rotate(c) PROVE LoginTypeOK'
  <2>. DEFINE k == refresh[c].token
  <2>1. k \in Tokens /\ token[k].st # "none" /\ token[k].family \in Logins
    BY <1>6, AtWorkIsRefreshing DEF Rotate, LoginInv, RefreshOfIssued, TokensAreIssued
  <2>2. refresh' \in [Refreshes -> Refreshing \cup {NoRefresh}]
    BY <1>6 DEF Rotate, RefreshEnds, LoginTypeOK
  <2>3. token' \in [Tokens -> TokenRow] /\ ended' \subseteq Logins
    <3>1. CASE IsUsable(k)
      BY <1>6, <2>1, <3>1, Rotated DEF Rotate, IsUsable, NextToken, LoginTypeOK
    <3>2. CASE ~IsUsable(k)
      BY <1>6, <2>1, <3>2, RevokedTokens DEF Rotate, LoginTypeOK
    <3>. QED  BY <3>1, <3>2
  <2>. QED  BY <1>6, <2>2, <2>3 DEF Rotate, LoginTypeOK
<1>7. ASSUME NEW c \in Refreshes, EndFamily(c) PROVE LoginTypeOK'
  <2>1. refresh[c].token \in Tokens /\ token[refresh[c].token].family \in Logins
    BY <1>7, AtWorkIsRefreshing DEF EndFamily, LoginInv, RefreshOfIssued, TokensAreIssued
  <2>. QED  BY <1>7, <2>1, RevokedTokens DEF EndFamily, RefreshEnds, LoginTypeOK
<1>8. ASSUME NEW k \in Tokens, Logout(k) PROVE LoginTypeOK'
  BY <1>8, RevokedTokens DEF Logout, LoginTypeOK, LoginInv, TokensAreIssued
<1>. QED  BY <1>1, <1>2, <1>3, <1>4, <1>5, <1>6, <1>7, <1>8 DEF LoginNext

\* Revoking families a login does not depend on keeps the invariant's facts on tokens.
LEMMA RevokeKeeps ==
    ASSUME LoginTypeOK, LoginInv, NEW F, token' = Revoked(F), UNCHANGED login
    PROVE  TokensAreIssued' /\ AtMostOneUsable'
  BY RevokedTokens DEF LoginInv, TokensAreIssued, AtMostOneUsable

\* Every login, refresh, reuse and logout keeps what the calls between two awaits hold.
LEMMA LoginInvStep ==
    ASSUME LoginTypeOK, LoginInv, [LoginNext]_loginVars PROVE LoginInv'
<1>. USE DEF LoginInv, HasUsable
<1>1. CASE UNCHANGED loginVars
  BY <1>1 DEF loginVars, TokensAreIssued, AtMostOneUsable, RefreshOfIssued, OneLogin, LoginAtWork,
     SessionCanRefresh
<1>2. ASSUME NEW l \in Logins, IssueToken(l) PROVE LoginInv'
  <2>1. PICK k \in Tokens :
          NextToken(k) /\ token' = [token EXCEPT ![k] = [st |-> "usable", family |-> l]]
    BY <1>2 DEF IssueToken
  <2>2. /\ token[k].st = "none" /\ token'[k].st = "usable" /\ token'[k].family = l
        /\ \A j \in Tokens \ {k} : token'[j] = token[j]
    BY <2>1 DEF NextToken, LoginTypeOK
  <2>3. /\ login[l] = "unsent" /\ login'[l] = "sid"
        /\ \A m \in Logins \ {l} : login'[m] = login[m]
        /\ UNCHANGED <<sid, refresh, ended>>
    BY <1>2 DEF IssueToken, LoginTypeOK
  <2>4. ~overlapped' => ~overlapped /\ \A m \in Logins : ~LoginAtWork(m)
    BY <1>2 DEF IssueToken
  <2>5. TokensAreIssued'
    BY <2>2, <2>3 DEF TokensAreIssued
  <2>6. AtMostOneUsable'
    BY <2>2, <2>3, NoLoginIsNoLogin DEF AtMostOneUsable, TokensAreIssued
  <2>7. RefreshOfIssued'
    <3>1. ASSUME NEW d \in Refreshes, refresh[d] # NoRefresh PROVE refresh[d].token \in Tokens
      BY <3>1 DEF LoginTypeOK, Refreshing
    <3>. QED  BY <2>2, <2>3, <3>1 DEF RefreshOfIssued
  <2>8. OneLogin'
    BY <2>3, <2>4 DEF OneLogin, LoginAtWork
  <2>9. SessionCanRefresh'
    <3>. SUFFICES ASSUME NEW f \in Logins, sid = f \/ login'[f] = "sid", f \notin ended, ~overlapped'
                  PROVE  HasUsable(f)'
      BY <2>3 DEF SessionCanRefresh
    <3>1. CASE f = l
      BY <2>2, <3>1
    <3>2. CASE f # l
      <4>1. PICK j \in Tokens : token[j].st = "usable" /\ token[j].family = f
        BY <2>3, <2>4, <3>2 DEF SessionCanRefresh
      <4>. QED  BY <2>2, <4>1
    <3>. QED  BY <3>1, <3>2
  <2>. QED  BY <2>5, <2>6, <2>7, <2>8, <2>9
<1>3. ASSUME NEW l \in Logins, SwitchSid(l) PROVE LoginInv'
  <2>. USE <1>3 DEF SwitchSid, LoginTypeOK
  <2>1. TokensAreIssued'
    BY DEF TokensAreIssued
  <2>2. AtMostOneUsable' /\ RefreshOfIssued'
    BY DEF AtMostOneUsable, RefreshOfIssued
  <2>3. OneLogin'
    BY DEF OneLogin, LoginAtWork
  <2>4. SessionCanRefresh'
    BY DEF SessionCanRefresh
  <2>. QED  BY <2>1, <2>2, <2>3, <2>4
<1>4. ASSUME NEW l \in Logins, RevokeOthers(l) PROVE LoginInv'
  <2>1. /\ login[l] = "revoke" /\ login'[l] = "done"
        /\ \A m \in Logins \ {l} : login'[m] = login[m]
        /\ UNCHANGED <<sid, refresh, overlapped, ended>>
    BY <1>4 DEF RevokeOthers, LoginTypeOK
  <2>2. \A k \in Tokens :
          /\ token'[k].family = token[k].family
          /\ token'[k].st = IF token[k].family \in Logins \ {l} /\ token[k].st = "usable"
                            THEN "revoked" ELSE token[k].st
    BY <1>4, RevokedTokens DEF RevokeOthers
  <2>3. TokensAreIssued' /\ AtMostOneUsable'
    BY <2>1, <2>2 DEF TokensAreIssued, AtMostOneUsable
  <2>4. RefreshOfIssued'
    BY <2>1, <2>2 DEF RefreshOfIssued, LoginTypeOK, Refreshing
  <2>5. OneLogin'
    BY <2>1 DEF OneLogin, LoginAtWork
  <2>6. SessionCanRefresh'
    <3>. SUFFICES ASSUME NEW f \in Logins, sid = f \/ login'[f] = "sid", f \notin ended, ~overlapped
                  PROVE  HasUsable(f)'
      BY <2>1 DEF SessionCanRefresh
    <3>1. f = l
      BY <2>1 DEF OneLogin, LoginAtWork
    <3>2. PICK j \in Tokens : token[j].st = "usable" /\ token[j].family = f
      BY <2>1, <3>1 DEF SessionCanRefresh, OneLogin
    <3>. QED  BY <2>2, <3>1, <3>2
  <2>. QED  BY <2>3, <2>4, <2>5, <2>6
<1>5. ASSUME NEW l \in Logins, LoginFails(l) PROVE LoginInv'
  <2>. USE <1>5 DEF LoginFails, LoginAtWork, LoginTypeOK
  <2>1. TokensAreIssued'
    BY DEF TokensAreIssued
  <2>2. AtMostOneUsable' /\ RefreshOfIssued'
    BY DEF AtMostOneUsable, RefreshOfIssued
  <2>3. OneLogin'
    BY DEF OneLogin
  <2>4. SessionCanRefresh'
    BY DEF SessionCanRefresh
  <2>. QED  BY <2>1, <2>2, <2>3, <2>4
<1>6. ASSUME NEW c \in Refreshes, NEW k \in Tokens, BeginRefresh(c, k) PROVE LoginInv'
  <2>1. /\ refresh'[c].token = k /\ token[k].st # "none"
        /\ \A d \in Refreshes \ {c} : refresh'[d] = refresh[d]
        /\ UNCHANGED <<login, sid, token, overlapped, ended>>
    BY <1>6 DEF BeginRefresh, LoginTypeOK
  <2>. QED
    BY <2>1 DEF TokensAreIssued, AtMostOneUsable, RefreshOfIssued, OneLogin, LoginAtWork,
       SessionCanRefresh
<1>7. ASSUME NEW c \in Refreshes, Rotate(c) PROVE LoginInv'
  <2>. DEFINE k == refresh[c].token
              f == token[k].family
  <2>1. k \in Tokens /\ token[k].st # "none" /\ f \in Logins /\ login[f] # "unsent"
    BY <1>7, AtWorkIsRefreshing DEF Rotate, RefreshOfIssued, TokensAreIssued
  <2>2. /\ refresh'[c] = NoRefresh /\ \A d \in Refreshes \ {c} : refresh'[d] = refresh[d]
        /\ UNCHANGED <<login, sid, overlapped>>
    BY <1>7 DEF Rotate, RefreshEnds, LoginTypeOK
  <2>3. ASSUME NEW d \in Refreshes, refresh'[d] # NoRefresh
        PROVE  refresh[d].token \in Tokens /\ refresh'[d] = refresh[d]
    BY <2>2, <2>3 DEF LoginTypeOK, Refreshing
  <2>4. OneLogin'
    BY <2>2 DEF OneLogin, LoginAtWork
  <2>5. CASE IsUsable(k)
    <3>1. PICK j \in Tokens :
            /\ NextToken(j)
            /\ token' = [token EXCEPT ![k].st = "used", ![j] = [st |-> "usable", family |-> f]]
      BY <1>7, <2>5 DEF Rotate
    <3>2. j # k /\ token[k].st = "usable" /\ token[j].st = "none" /\ UNCHANGED ended
      BY <1>7, <2>5, <3>1 DEF IsUsable, NextToken, Rotate
    <3>3. /\ token'[k].st = "used" /\ token'[k].family = f
          /\ token'[j].st = "usable" /\ token'[j].family = f
          /\ \A i \in Tokens \ {j, k} : token'[i] = token[i]
      BY <2>1, <3>1, <3>2, Rotated
    <3>. HIDE DEF k, f
    <3>4. TokensAreIssued'
      BY <2>1, <2>2, <3>2, <3>3 DEF TokensAreIssued
    <3>5. AtMostOneUsable'
      BY <2>1, <3>2, <3>3 DEF AtMostOneUsable, k, f
    <3>6. RefreshOfIssued'
      BY <2>2, <2>3, <3>2, <3>3 DEF RefreshOfIssued
    <3>7. SessionCanRefresh'
      <4>. SUFFICES ASSUME NEW g \in Logins, HasUsable(g) PROVE HasUsable(g)'
        BY <2>2, <3>2 DEF SessionCanRefresh
      <4>1. PICK i \in Tokens : token[i].st = "usable" /\ token[i].family = g
        OBVIOUS
      <4>2. CASE i = k
        BY <3>3, <4>1, <4>2 DEF k, f
      <4>3. CASE i # k
        BY <3>2, <3>3, <4>1, <4>3
      <4>. QED  BY <4>2, <4>3
    <3>. QED  BY <2>4, <3>4, <3>5, <3>6, <3>7
  <2>6. CASE ~IsUsable(k)
    <3>1. token' = Revoked({f}) /\ ended' = ended \cup {f}
      BY <1>7, <2>6 DEF Rotate
    <3>2. \A i \in Tokens :
            /\ token'[i].family = token[i].family
            /\ token'[i].st = IF token[i].family \in {f} /\ token[i].st = "usable"
                              THEN "revoked" ELSE token[i].st
      BY <3>1, RevokedTokens
    <3>. HIDE DEF k, f
    <3>3. TokensAreIssued' /\ AtMostOneUsable'
      BY <2>2, <3>1, RevokeKeeps
    <3>4. RefreshOfIssued'
      BY <2>2, <2>3, <3>2 DEF RefreshOfIssued
    <3>5. SessionCanRefresh'
      <4>. SUFFICES ASSUME NEW g \in Logins, sid = g \/ login[g] = "sid", g \notin ended,
                           g # f, ~overlapped
                    PROVE  HasUsable(g)'
        BY <2>2, <3>1 DEF SessionCanRefresh
      <4>1. PICK i \in Tokens : token[i].st = "usable" /\ token[i].family = g
        BY DEF SessionCanRefresh
      <4>. QED  BY <3>2, <4>1
    <3>. QED  BY <2>4, <3>3, <3>4, <3>5
  <2>. QED  BY <2>5, <2>6
<1>8. ASSUME NEW c \in Refreshes, EndFamily(c) PROVE LoginInv'
  <2>. DEFINE f == token[refresh[c].token].family
  <2>1. /\ token' = Revoked({f}) /\ ended' = ended \cup {f}
        /\ refresh'[c] = NoRefresh /\ \A d \in Refreshes \ {c} : refresh'[d] = refresh[d]
        /\ UNCHANGED <<login, sid, overlapped>>
    BY <1>8 DEF EndFamily, RefreshEnds, LoginTypeOK
  <2>2. \A i \in Tokens :
          /\ token'[i].family = token[i].family
          /\ token'[i].st = IF token[i].family \in {f} /\ token[i].st = "usable"
                            THEN "revoked" ELSE token[i].st
    BY <2>1, RevokedTokens
  <2>3. ASSUME NEW d \in Refreshes, refresh'[d] # NoRefresh
        PROVE  refresh[d].token \in Tokens /\ refresh'[d] = refresh[d]
    BY <2>1, <2>3 DEF LoginTypeOK, Refreshing
  <2>. HIDE DEF f
  <2>4. TokensAreIssued' /\ AtMostOneUsable'
    BY <2>1, RevokeKeeps
  <2>5. RefreshOfIssued' /\ OneLogin'
    BY <2>1, <2>2, <2>3 DEF RefreshOfIssued, OneLogin, LoginAtWork
  <2>6. SessionCanRefresh'
    BY <2>1, <2>2 DEF SessionCanRefresh
  <2>. QED  BY <2>4, <2>5, <2>6
<1>9. ASSUME NEW k \in Tokens, Logout(k) PROVE LoginInv'
  <2>. DEFINE f == token[k].family
  <2>1. /\ token' = Revoked({f}) /\ ended' = ended \cup {f}
        /\ UNCHANGED <<login, sid, refresh, overlapped>>
    BY <1>9 DEF Logout
  <2>2. \A i \in Tokens :
          /\ token'[i].family = token[i].family
          /\ token'[i].st = IF token[i].family \in {f} /\ token[i].st = "usable"
                            THEN "revoked" ELSE token[i].st
    BY <2>1, RevokedTokens
  <2>3. ASSUME NEW d \in Refreshes, refresh[d] # NoRefresh PROVE refresh[d].token \in Tokens
    BY <2>3 DEF LoginTypeOK, Refreshing
  <2>. HIDE DEF f
  <2>4. TokensAreIssued' /\ AtMostOneUsable'
    BY <2>1, RevokeKeeps
  <2>5. RefreshOfIssued' /\ OneLogin'
    BY <2>1, <2>2, <2>3 DEF RefreshOfIssued, OneLogin, LoginAtWork
  <2>6. SessionCanRefresh'
    BY <2>1, <2>2 DEF SessionCanRefresh
  <2>. QED  BY <2>4, <2>5, <2>6
<1>. QED  BY <1>1, <1>2, <1>3, <1>4, <1>5, <1>6, <1>7, <1>8, <1>9 DEF LoginNext

\* Types and invariant hold in every state of the logins.
LEMMA LoginInvAlways == LoginSafety => [](LoginTypeOK /\ LoginInv)
<1>1. LoginInit => LoginTypeOK
  <2>1. [st |-> "none", family |-> NoLogin] \in TokenRow
    BY DEF TokenRow
  <2>. QED  BY <2>1 DEF LoginInit, LoginTypeOK, LoginSteps
<1>2. LoginInit => LoginInv
  BY NoLoginIsNoLogin DEF LoginInit, LoginInv, TokensAreIssued, AtMostOneUsable, RefreshOfIssued,
     OneLogin, LoginAtWork, SessionCanRefresh
<1>. QED  BY <1>1, <1>2, LoginTypeStep, LoginInvStep, PTL DEF LoginSafety

\* Logins, tokens and refreshes stay what they are: a refresh only ever ends the family of a
\* login.
THEOREM LoginTypeCorrect == LoginSafety => []LoginTypeOK
  BY LoginInvAlways, PTL

\* However many refreshes of one token race, its family has one usable token; and the device
\* that logged in last keeps one, as long as logins come one after the other.
THEOREM OneTokenIsUsable == LoginSafety => []OneUsableToken
<1>1. ASSUME AtMostOneUsable, SessionCanRefresh PROVE OneUsableToken
  <2>. SUFFICES ASSUME NEW f \in Logins PROVE Cardinality(Usable(f)) <= 1
    BY <1>1 DEF OneUsableToken, SessionCanRefresh, HasUsable, Usable
  <2>1. CASE Usable(f) = {}
    BY <2>1, FS_EmptySet
  <2>2. CASE Usable(f) # {}
    <3>1. PICK k \in Tokens : Usable(f) = {k}
      BY <1>1, <2>2 DEF AtMostOneUsable, Usable
    <3>. QED  BY <3>1, FS_Singleton
  <2>. QED  BY <2>1, <2>2
<1>. QED  BY <1>1, LoginInvAlways, PTL DEF LoginInv
=============================================================================
