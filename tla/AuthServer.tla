------------------------------ MODULE AuthServer ------------------------------
(***************************************************************************)
(* The authorization server's token endpoint as refresh_with_retry sees    *)
(* it.  External to the crate.  An answer keeps the refresh token or       *)
(* rotates it; a rotation retires the presented token at once or honours   *)
(* it for a grace period.  The server may withdraw everything it issued    *)
(* (an administrator, reuse detection).                                    *)
(***************************************************************************)
EXTENDS Tokens

CONSTANT
    Policy          \* the answers this server gives: "keep", "grace", "retire"

ASSUME PolicyAssumption == Policy \subseteq {"keep", "grace", "retire"}

VARIABLES
    issued,         \* number of grants issued so far; grant 1 is the login
    valid,          \* refresh tokens the server still accepts
    expired,        \* grants whose access token has expired
    withdrawn       \* the server has withdrawn every token it had issued

serverVars == <<issued, valid, expired, withdrawn>>

ServerTypeOK ==
    /\ issued \in Nat \ {0}
    /\ valid \subseteq 1..issued
    /\ expired \subseteq 1..issued
    /\ withdrawn \in BOOLEAN

ServerInit(token) ==
    /\ issued = 1
    /\ valid = {token} \ {NoToken}
    /\ expired = {}
    /\ withdrawn = FALSE

\* A successful exchange of refresh token rt, answered with grant issued + 1.
Exchange(rt, answer) ==
    /\ rt \in valid
    /\ issued' = issued + 1
    /\ valid' = CASE answer = "keep" -> valid
                  [] answer = "grace" -> valid \cup {issued + 1}
                  [] answer = "retire" -> (valid \ {rt}) \cup {issued + 1}
    /\ UNCHANGED <<expired, withdrawn>>

\* The TokenResponse of that exchange.
Response(answer) ==
    [token_expiry |-> issued + 1,
     refresh_token |-> IF answer = "keep" THEN NoToken ELSE issued + 1]

\* Time passes an access token's expiry.
AccessTokenExpires ==
    \E g \in (1..issued) \ expired :
        /\ expired' = expired \cup {g}
        /\ UNCHANGED <<issued, valid, withdrawn>>

\* Every refresh token issued so far stops being accepted.
WithdrawTokens ==
    /\ valid # {}
    /\ valid' = {}
    /\ withdrawn' = TRUE
    /\ UNCHANGED <<issued, expired>>
=============================================================================
