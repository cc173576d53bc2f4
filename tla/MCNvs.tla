-------------------------------- MODULE MCNvs --------------------------------
(* Small instances of Nvs for TLC. *)
EXTENDS Nvs, TLC

CONSTANTS a, b, A, B, str

\* One type, B takes a second slice for its data.
OneType == [v \in Values |-> str]
BIsLong == [v \in Values |-> IF v = B THEN 2 ELSE 1]
==============================================================================
