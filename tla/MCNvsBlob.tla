----------------------------- MODULE MCNvsBlob -----------------------------
(* Instances of NvsBlob for TLC. *)
EXTENDS NvsBlob

CONSTANTS v1, v2, v3, k1, k2

(* one, two and three units: from one segment to three *)
MCSize == [v \in Values |-> IF v = v1 THEN 1 ELSE IF v = v2 THEN 2 ELSE 3]

(* keys of which none begins with the other are interchangeable *)
SameKeys == Permutations({k1, k2})

(* the keys "ab" and "abc" *)
Apart == {}
OnePrefix == {<<k1, k2>>}
=============================================================================
