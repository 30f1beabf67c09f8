---------------------------- MODULE FeatureHash ----------------------------
(***************************************************************************)
(* combin_same_feature_together with the keys HashCombine makes: to a      *)
(* table that has columns of some features, a column of one more is added. *)
(***************************************************************************)
EXTENDS HashCombine

CONSTANT Tables     (* Records: present, the features (triples of masks)   *)
                    (* of the columns in the table, and further, features  *)
                    (* another column can have.                            *)

VARIABLES
  combined,           (* The features put in the table.                    *)
  keys,               (* The keys it has buckets for.                      *)
  further             (* Those of which one more column may come.          *)

hash_vars == <<combined, keys, further>>

HashInit ==
  \E table \in Tables :
    /\ combined = table.present
    /\ keys = {FeatureKey(f) : f \in table.present}
    /\ further = table.further

(* A column of any one feature is put in the table.                        *)
Combine ==
  \E f \in further :
    /\ combined' = combined \cup {f}
    /\ keys' = keys \cup {FeatureKey(f)}
    /\ further' = {}

HashSpec == HashInit /\ [][Combine]_hash_vars

(* "combin same feature": the table has one bucket for every feature, so   *)
(* columns that share a bucket share their code.                           *)
BucketForEachFeature == Cardinality(keys) = Cardinality(combined)
=============================================================================
