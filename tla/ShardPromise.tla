---------------------------- MODULE ShardPromise ----------------------------
(***************************************************************************)
(* What the scheduling kernel promises about a job's shards, without       *)
(* leases, attempts rows, reports or restarts: a shard is granted to one   *)
(* server at a time, at most MaxGrants times, and never once a stop was    *)
(* requested; it settles exactly once; and the job gets one verdict, after *)
(* all its shards settled.                                                 *)
(***************************************************************************)
EXTENDS Naturals

CONSTANTS Jobs, Shards, Servers, NoServer, JobOf, MaxGrants

VARIABLES holder,   \* the server a shard is granted to, or NoServer
          grants,   \* how often a shard was granted
          outcome,  \* how a shard settled, "open" until then
          stop,     \* whether a stop of the job was requested
          verdict   \* how a job ended, "open" until then

vars == <<holder, grants, outcome, stop, verdict>>

Init ==
  /\ holder = [s \in Shards |-> NoServer]
  /\ grants = [s \in Shards |-> 0]
  /\ outcome = [s \in Shards |-> "open"]
  /\ stop = [j \in Jobs |-> FALSE]
  /\ verdict = [j \in Jobs |-> "open"]

Kept(s) ==
  holder'[s] = holder[s] /\ grants'[s] = grants[s] /\ outcome'[s] = outcome[s]

Granted(s) ==
  /\ outcome[s] = "open" /\ outcome'[s] = "open"
  /\ ~stop'[JobOf[s]]
  /\ grants[s] < MaxGrants
  /\ grants'[s] = grants[s] + 1
  /\ holder'[s] \in Servers

TakenBack(s) ==
  /\ outcome[s] = "open" /\ outcome'[s] = "open"
  /\ grants'[s] = grants[s]
  /\ holder'[s] = NoServer

Settled(s) ==
  /\ outcome[s] = "open"
  /\ holder'[s] = NoServer
  /\ grants'[s] = grants[s]
  /\ \/ outcome'[s] = "succeeded" /\ grants[s] > 0
     \/ outcome'[s] = "failed" /\ grants[s] = MaxGrants
     \/ outcome'[s] = "stopped" /\ stop'[JobOf[s]]

ShardStep(s) == Kept(s) \/ Granted(s) \/ TakenBack(s) \/ Settled(s)

Judged(j) ==
  /\ verdict[j] = "open"
  /\ \A s \in Shards : JobOf[s] = j => outcome'[s] # "open"
  /\ \/ verdict'[j] = "stopped" /\ stop'[j]
     \/ /\ verdict'[j] = "failed" /\ ~stop'[j]
        /\ \E s \in Shards : JobOf[s] = j /\ outcome'[s] = "failed"

JobStep(j) ==
  /\ stop[j] => stop'[j]
  /\ verdict'[j] = verdict[j] \/ Judged(j)

Next == (\A s \in Shards : ShardStep(s)) /\ (\A j \in Jobs : JobStep(j))

Spec == Init /\ [][Next]_vars
=============================================================================
