---------------------------- MODULE DriverLogins ----------------------------
(***************************************************************************)
(* One device per driver and the rotation of refresh tokens (modules/auth  *)
(* of src/api/src): the newest login becomes the driver's session in Redis *)
(* and revokes the others' tokens; a refresh exchanges its token for a     *)
(* fresh one of the same family; a token presented again after that ends   *)
(* its whole family.  Logins and refreshes are steps between two awaits;   *)
(* a transaction is one step.  (Tokens do not expire here.)                *)
(***************************************************************************)
EXTENDS Naturals, FiniteSets

CONSTANTS
    Logins,         \* bound: logins of the driver; each starts a family of tokens
    NoLogin,        \* no auth:driver-sid key, no family
    MaxTokens,      \* bound: rows of refresh_tokens
    Refreshes       \* bound: calls of refreshTokens at once

ASSUME NoLoginIsNoLogin == NoLogin \notin Logins
ASSUME MaxTokensIsNat == MaxTokens \in Nat

VARIABLES
    login,      \* the statement each login has come to
    sid,        \* auth:driver-sid: the login whose access tokens pass
    token,      \* refresh_tokens: each row's state and family
    refresh,    \* what each call of refreshTokens is at
    overlapped, \* two logins were at work at once
    ended       \* families ended by their owner, or because a token was presented again

loginVars == <<login, sid, token, refresh, overlapped, ended>>

Tokens == 1..MaxTokens
TokenRow == [st : {"none", "usable", "used", "revoked"}, family : Logins \cup {NoLogin}]
LoginSteps == {"unsent", "sid", "revoke", "done"}
Refreshing == [at : {"rotate", "reuse"}, token : Tokens]
NoRefresh == [at |-> "idle"]

LoginAtWork(l) == login[l] \notin {"unsent", "done"}
Usable(f) == {k \in Tokens : token[k].st = "usable" /\ token[k].family = f}
Revoked(families) == [k \in Tokens |->
    IF token[k].family \in families /\ token[k].st = "usable"
    THEN [token[k] EXCEPT !.st = "revoked"] ELSE token[k]]
NextToken(k) == token[k].st = "none" /\ \A j \in 1..(k - 1) : token[j].st # "none"
RefreshEnds(c) == refresh' = [refresh EXCEPT ![c] = NoRefresh]

LoginInit ==
    /\ login = [l \in Logins |-> "unsent"]
    /\ sid = NoLogin
    /\ token = [k \in Tokens |-> [st |-> "none", family |-> NoLogin]]
    /\ refresh = [c \in Refreshes |-> NoRefresh]
    /\ overlapped = FALSE
    /\ ended = {}

\* issueTokenPair: a token of a new family.
IssueToken(l) ==
    /\ login[l] = "unsent"
    /\ \E k \in Tokens :
        NextToken(k) /\ token' = [token EXCEPT ![k] = [st |-> "usable", family |-> l]]
    /\ login' = [login EXCEPT ![l] = "sid"]
    /\ overlapped' = (overlapped \/ \E m \in Logins : LoginAtWork(m))
    /\ UNCHANGED <<sid, refresh, ended>>

\* replaceDriverSession: the switch ...
SwitchSid(l) ==
    /\ login[l] = "sid"
    /\ sid' = l
    /\ login' = [login EXCEPT ![l] = "revoke"]
    /\ UNCHANGED <<token, refresh, overlapped, ended>>

\* ... and revokeOtherDriverSessions.
RevokeOthers(l) ==
    /\ login[l] = "revoke"
    /\ token' = Revoked(Logins \ {l})
    /\ login' = [login EXCEPT ![l] = "done"]
    /\ UNCHANGED <<sid, refresh, overlapped, ended>>

\* A login dies between two statements, or one throws.
LoginFails(l) ==
    /\ LoginAtWork(l)
    /\ login' = [login EXCEPT ![l] = "done"]
    /\ UNCHANGED <<sid, token, refresh, overlapped, ended>>

\* refreshTokens up to its read of the row: any token ever issued, since a client that got
\* no answer presents its old one again.
BeginRefresh(c, k) ==
    /\ refresh[c] = NoRefresh
    /\ token[k].st # "none"
    /\ refresh' = [refresh EXCEPT ![c] =
            [at |-> IF token[k].st = "usable" THEN "rotate" ELSE "reuse", token |-> k]]
    /\ UNCHANGED <<login, sid, token, overlapped, ended>>

\* Mutant: the transaction trusts the read before it.
UsableBefore(k) == TRUE

\* The token is neither used nor revoked, looked at under its row lock.
IsUsable(k) == token[k].st = "usable"

\* rotateRefreshToken: the row is locked and looked at again.
Rotate(c) ==
    /\ refresh[c].at = "rotate"
    /\ LET k == refresh[c].token
           f == token[k].family
       IN  IF IsUsable(k)
           THEN /\ \E j \in Tokens :
                    /\ NextToken(j)
                    /\ token' = [token EXCEPT ![k].st = "used",
                                              ![j] = [st |-> "usable", family |-> f]]
                /\ UNCHANGED ended
           ELSE token' = Revoked({f}) /\ ended' = ended \cup {f}
    /\ RefreshEnds(c)
    /\ UNCHANGED <<login, sid, overlapped>>

\* revokeRefreshTokenFamily, for a token that was used or revoked when it was read.
EndFamily(c) ==
    /\ refresh[c].at = "reuse"
    /\ LET f == token[refresh[c].token].family
       IN  token' = Revoked({f}) /\ ended' = ended \cup {f}
    /\ RefreshEnds(c)
    /\ UNCHANGED <<login, sid, overlapped>>

\* logout ends the family of the token it presents.
Logout(k) ==
    /\ token[k].st # "none"
    /\ token' = Revoked({token[k].family})
    /\ ended' = ended \cup {token[k].family}
    /\ UNCHANGED <<login, sid, refresh, overlapped>>

LoginNext ==
    \/ \E l \in Logins : IssueToken(l) \/ SwitchSid(l) \/ RevokeOthers(l) \/ LoginFails(l)
    \/ \E c \in Refreshes : (\E k \in Tokens : BeginRefresh(c, k)) \/ Rotate(c) \/ EndFamily(c)
    \/ \E k \in Tokens : Logout(k)

LoginSafety == LoginInit /\ [][LoginNext]_loginVars

-----------------------------------------------------------------------------
(* Properties. *)

LoginTypeOK ==
    /\ login \in [Logins -> LoginSteps]
    /\ sid \in Logins \cup {NoLogin}
    /\ token \in [Tokens -> TokenRow]
    /\ refresh \in [Refreshes -> Refreshing \cup {NoRefresh}]
    /\ overlapped \in BOOLEAN
    /\ ended \subseteq Logins

\* However refreshes of one token race, a family keeps one usable token; and the device the
\* driver logged in on last can go on refreshing, unless it logged out, a token of its was
\* presented twice, or two logins overlapped (each may then revoke the other's).
OneUsableToken ==
    \A f \in Logins :
        /\ Cardinality(Usable(f)) <= 1
        /\ sid = f /\ f \notin ended /\ ~overlapped => Usable(f) # {}
=============================================================================
