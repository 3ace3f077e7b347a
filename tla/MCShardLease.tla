---------------------------- MODULE MCShardLease ----------------------------
(* Small instances of ShardLease for TLC. *)
EXTENDS JobPage, TLC

CONSTANTS j1, j2, s1, s2, s3, w1, w2

\* Every shard belongs to one job.
OneJob == [s \in Shards |-> j1]

\* The shards of one job are interchangeable, and so are the servers.
Symmetry == Permutations(Shards) \cup Permutations(Servers)
=============================================================================
