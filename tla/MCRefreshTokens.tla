--------------------------- MODULE MCRefreshTokens ---------------------------
(* Model-checking instance of RefreshTokens: requests and users are          *)
(* interchangeable, so runs without liveness may use symmetry.               *)
EXTENDS RefreshTokens, TLC

Symmetry == Permutations(Requests) \cup Permutations(Users)
=============================================================================
