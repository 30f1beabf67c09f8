---------------------------- MODULE MCCollision ----------------------------
(***************************************************************************)
(* Two columns of eight lanes with one key and two features: the neighbours*)
(* to gather change at the lanes of 0xcf in the first and of 0xf5 in the   *)
(* second, the rows at the lanes of 0x29 in both.                          *)
(***************************************************************************)
EXTENDS MCDynVec, HashCombine

Collision ==
  LET Cf == Walk(0, <<1, 1, 1, 0, 0, 1, 1>>)
      F5 == Walk(0, <<0, 1, 0, 1, 1, 1, 1>>)
      R29 == Walk(0, <<0, 0, 1, 0, 1, 0, 0>>)
  IN {<<Array(0 :> R29 @@ 1 :> R29), Array(0 :> Cf @@ 1 :> F5)>>}
=============================================================================
