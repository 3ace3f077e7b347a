---------------------------- MODULE MCStaticJob -----------------------------
(* Small instances of StaticJob for TLC. *)
EXTENDS StaticJob, TLC

CONSTANTS j1, s1, s2, w1, w2

\* Every shard belongs to one job.
OneJob == [s \in Shards |-> j1]

\* The shards of the job are interchangeable, and so are the servers.
Symmetry == Permutations(Shards) \cup Permutations(Servers)
=============================================================================
