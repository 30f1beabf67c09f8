--------------------------- MODULE MCFeatureTable ---------------------------
(***************************************************************************)
(* Instance of FeatureTable for TLC: two features that write one location  *)
(* (equel1, equel2) and one that does not, hashed so that equel1 and       *)
(* scatter collide; five columns, so that one bucket can hold a range, a   *)
(* lone column and another range.                                          *)
(***************************************************************************)
EXTENDS FeatureTable

MCFeature      == {"equel1", "equel2", "scatter"}
MCEquelFeature == {"equel1", "equel2"}
MCHash         == [f \in MCFeature |-> IF f = "equel2" THEN "h2" ELSE "h1"]

=============================================================================
