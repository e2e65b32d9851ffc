-------------------------------- MODULE Tokens --------------------------------
(***************************************************************************)
(* Tokens are named by the grant that issued them: grant 1 is the login,   *)
(* every answer of the token endpoint to a refresh is the next one.  The   *)
(* number stands for the refresh token of the grant and for the expiry of  *)
(* its access token; a later grant need not expire later.                  *)
(***************************************************************************)
EXTENDS Naturals

CONSTANT NoToken        \* absent refresh token (Option::None)

ASSUME NoTokenAssumption == NoToken \notin Nat

Token == Nat \cup {NoToken}
=============================================================================
