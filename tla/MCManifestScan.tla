-------------------------- MODULE MCManifestScan ----------------------------
(* Small instances of ManifestScan for TLC. *)
EXTENDS ManifestScan, TLC

CONSTANTS root, a, b, sa, sb, w1, w2

\* A directory with two subdirectories, each with the files of one shard.
Tree == [u \in Units |-> IF u = root THEN Units \ {root} ELSE {}]
Files == [u \in Units |-> {s \in Shards : <<u, s>> \in {<<a, sa>>, <<b, sb>>}}]

\* The agents are interchangeable.
Symmetry == Permutations(Servers)
=============================================================================
