---------------------------- MODULE MCFarmScreens ----------------------------
(* Two farms, of one version or of two, with a row of each kind; the first    *)
(* farm has room for another one.                                             *)
EXTENDS FarmScreens

MCVersionOf == (1 :> "v1") @@ (2 :> "v2")
MCOwnerOf == (11 :> 1) @@ (12 :> 1) @@ (21 :> 2)
=============================================================================
