--------------------------- MODULE MCJwtPipeline ----------------------------
(* JwtPipeline with finite sets for TLC: tokens for agent 1, signed with its  *)
(* first or its second key, valid at different times.                        *)
EXTENDS JwtPipeline, TLC

Jwt(key, iat, exp, jti) ==
  [typ |-> "agent+jwt", sub |-> 1, key |-> key, aud |-> TRUE,
   iat |-> iat, exp |-> exp, jti |-> jti]

\* One token per key that never expires within the bound on time.
LongTokens == {Jwt(1, 0, 9, 1), Jwt(2, 0, 9, 2)}

\* One token that never expires within the bound on time.
LongToken == {Jwt(1, 0, 9, 1)}

\* A token that is over soon, one issued later under the same jti, one with an
\* audience of its own and one that is no agent token.
ShortTokens ==
  {Jwt(1, 0, 0, 1), Jwt(1, 1, 1, 1), [Jwt(1, 0, 1, 2) EXCEPT !.aud = FALSE],
   [Jwt(1, 0, 1, 2) EXCEPT !.typ = "host+jwt"]}

PipelineSymmetry == Permutations(Calls) \cup Permutations(Requests)
=============================================================================
