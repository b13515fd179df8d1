---------------------------- MODULE MCDeletePath ----------------------------
(* Values for the constants of DeletePath: stripe 0 holds an object, key   *)
(* obj; stripe 1 was written by set, with an append key that is committed  *)
(* and that no block carries.                                              *)
EXTENDS DeletePath, TLC

CONSTANTS c1, c2, n1, n2, obj, app

MCWanted     == (c1 :> {<<"key", obj>>, <<"stripe", 0>>, <<"key", app>>}) @@ (c2 :> {})
MCmap2stripe == (1 :> 0) @@ (2 :> 0) @@ (3 :> 1)
MCmap2node   == (1 :> n1) @@ (2 :> n2) @@ (3 :> n1)
MCmap2key    == (0 :> obj) @@ (1 :> None)
MCCommitted  == (obj :> 0) @@ (app :> 1)
=============================================================================
