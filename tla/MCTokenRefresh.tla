----------------------------- MODULE MCTokenRefresh -----------------------------
(* TokenRefresh for TLC: requests are interchangeable, and so are scopes. *)
EXTENDS RefreshRefinement, TLC

Interchangeable == Permutations(Requests) \cup Permutations(Scopes)
=============================================================================
