-------------------------- MODULE MCAuthorizationCode --------------------------
(* AuthorizationCode for TLC: exchanges are interchangeable, and so are scopes. *)
EXTENDS AuthorizationCode, TLC

Interchangeable == Permutations(Exchanges) \cup Permutations(Scopes)

=============================================================================
