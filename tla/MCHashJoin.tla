----------------------------- MODULE MCHashJoin -----------------------------
(***************************************************************************)
(* Keys and hashes for TLC.  Keys 1 and 4 are two values with one hash;    *)
(* key 2 has another hash in the same partition, whose filter bits are     *)
(* among those of the first; key 3 goes to the other partition.            *)
(***************************************************************************)
EXTENDS HashJoin

HashOf(k)   == CASE k = 1 -> 0 [] k = 4 -> 0 [] k = 2 -> 2 [] k = 3 -> 1
BitsOf(h)   == CASE h = 0 -> {0, 1} [] h = 1 -> {2} [] h = 2 -> {1}

(* 1 and 3, and 2 and 4, are equal as numbers, like 0.0 and -0.0 or an     *)
(* Int32 and an Int64, and hashed differently: into two partitions, and    *)
(* into one, with a filter that lets the one key pass for the other.       *)
SameNumber(a, b) == a = b \/ {a, b} \in {{1, 3}, {2, 4}}
=============================================================================
