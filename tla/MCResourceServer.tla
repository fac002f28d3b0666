---------------------------- MODULE MCResourceServer ----------------------------
(* ResourceServer for TLC: requests are interchangeable, and so are scopes. *)
EXTENDS ResourceServer, TLC

Interchangeable == Permutations(Requests) \cup Permutations(Scopes)

\* A resource server west of Greenwich.
West == -1
=============================================================================
