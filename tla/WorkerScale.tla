----------------------------- MODULE WorkerScale -----------------------------
(***************************************************************************)
(* Remote administration (control/remote_workers.py and                    *)
(* domains/remote_admin): control changes the number of workers of a host  *)
(* over ssh.  A plan is read off the host; an apply is a script that runs  *)
(* there command by command, while other requests, the operator's service  *)
(* actions and the timeout of the connection come in between.              *)
(*                                                                         *)
(* Of an env file the prefix of the server id matters, of a service the    *)
(* prefix it was started with.  The content of unit and env, the preflight *)
(* and the installation are left out.                                      *)
(***************************************************************************)
EXTENDS Integers, Sequences, FiniteSets

CONSTANTS Instances,  \* 1 .. n: worker-01, worker-02, ...
          Names, Old,      \* prefixes of server ids that are asked for; one from before
          Requests,   \* requests to scale the host
          MaxFaults,  \* bound: commands that fail, timeouts, service actions, requests but the first
          MaxShared   \* bound: the workers of a host with more than one request

VARIABLE host

-----------------------------------------------------------------------------
None == "none"
NewScript(n, prefix, plan) ==
  [pc |-> "unit", n |-> n, prefix |-> prefix, at |-> 1, todo |-> {}, items |-> <<>>, code |-> 0,
   heard |-> TRUE,   \* the connection is up
   plan |-> plan,    \* history: a plan made right before
   alone |-> TRUE,   \* history: nobody else has touched the host since
   before |-> host.running] \* history: what ran before
Unsent == [pc |-> "off", heard |-> FALSE]

ScaleInit ==
  \E env \in [Instances -> {None, Old}], unit \in BOOLEAN, template \in BOOLEAN :
    \E up \in SUBSET {i \in Instances : env[i] # None} :
      host = [env |-> env, unit |-> unit, template |-> template,
              running |-> [i \in Instances |-> IF i \in up THEN env[i] ELSE None],
              enabled |-> up, script |-> [r \in Requests |-> Unsent],
              byhand |-> FALSE, \* history: a service action was taken
              faults |-> 0]

Item(action, status, instance) == [action |-> action, status |-> status, instance |-> instance]
NoInstance == 0

ScaleActions == {"create_env", "update_env", "start_service", "stop_service", "disable_service",
                 "wait_heartbeat", "skip"}
ScaleStatuses == {"pending", "ok", "warning", "failed", "skipped"}

\* parse_scale_plan_items: what is no item of the script, like the greeting of a
\* login shell, becomes a warning.
Parsed(line) ==
  IF line.action \in ScaleActions /\ line.status \in ScaleStatuses THEN line
  ELSE Item("skip", "warning", NoInstance)
Greeting == Item("hello", "ok", NoInstance)

-----------------------------------------------------------------------------
(* The plan.                                                               *)

Existing == {i \in Instances : host.env[i] # None}

\* A bug to test with: the last worker asked for is among the surplus.
SurplusFrom(n) == {i \in Existing : i >= n}

\* Instances that have an env beyond those asked for, and the k-th of them.
Surplus(n) == {i \in Existing : i > n}
Nth(S, k) == CHOOSE i \in S : Cardinality({j \in S : j < i}) = k - 1

PlanUnit ==
  Item("skip", IF host.unit THEN "ok" ELSE IF host.template THEN "pending" ELSE "warning", NoInstance)

\* _scale_plan_script; an env that exists is said to be left alone.
PlanOf(n) ==
  LET grown(i) == << IF i \in Existing THEN Item("update_env", "skipped", i)
                                       ELSE Item("create_env", "pending", i),
                     Item("start_service", "pending", i), Item("wait_heartbeat", "pending", i) >>
      shrunk(i) == << Item("stop_service", "pending", i), Item("disable_service", "pending", i) >>
  IN  [k \in 1 .. 1 + 3 * n + 2 * Cardinality(Surplus(n)) |->
         IF k = 1 THEN PlanUnit
         ELSE IF k <= 3 * n + 1 THEN grown((k + 1) \div 3)[((k + 1) % 3) + 1]
         ELSE shrunk(Nth(Surplus(n), (k - 3 * n) \div 2))[((k - 3 * n) % 2) + 1]]

-----------------------------------------------------------------------------
(* The script of an apply.                                                 *)

Script(r) == host.script[r]
Active == {r \in Requests : Script(r).pc \notin {"off", "ended"}}

\* Everybody who touches the host disturbs the others.
Touches(h, r) ==
  [h EXCEPT !.script = [q \in Requests |->
     IF q = r \/ @[q].pc = "off" THEN @[q] ELSE [@[q] EXCEPT !.alone = FALSE]]]
NoRequest == "nobody"

Becomes(h) == host' = h

Begun == {r \in Requests : Script(r).pc # "off"}
Bounded(n) ==
  /\ host.faults < MaxFaults
  /\ \A i \in {n} \cup Existing \cup {Script(r).n : r \in Begun} : i <= MaxShared

ScaleApply(r) ==
  /\ Script(r).pc = "off"
  /\ \E n \in Instances, prefix \in Names :
       /\ Begun = {} \/ Bounded(n)
       /\ Becomes([Touches(host, r) EXCEPT
            !.script[r] = [NewScript(n, prefix, PlanOf(n)) EXCEPT
                             !.alone = Active = {}, !.items = <<Parsed(Greeting)>>],
            !.faults = IF Begun = {} THEN @ ELSE @ + 1])

\* A line is printed when a command is over, and the next step begins.
Prints(h, r, item, pc) ==
  [Touches(h, r) EXCEPT !.script[r].items = Append(@, Parsed(item)), !.script[r].pc = pc]

\* A command goes well, or fails while the bound allows it, with or without having
\* had its effect.
Runs(r, action, instance, pc, done) ==
  \/ Becomes(Prints(done, r, Item(action, "ok", instance), pc))
  \/ /\ host.faults < MaxFaults
     /\ \E h \in {host, done} :
          Becomes([Prints(h, r, Item(action, "failed", instance), pc) EXCEPT !.faults = @ + 1])

InstallUnit(r) ==
  /\ Script(r).pc = "unit"
  /\ IF host.template
       THEN Becomes(Prints([host EXCEPT !.unit = TRUE], r, Item("skip", "ok", NoInstance), "reload"))
       ELSE Becomes(Prints(host, r, Item("skip", "warning", NoInstance), "env"))

Reload(r) == Script(r).pc = "reload" /\ Runs(r, "skip", NoInstance, "env", host)

\* write_instance_env writes every env anew.
WriteEnv(r) ==
  /\ Script(r).pc = "env"
  /\ LET i == Script(r).at
         action == IF host.env[i] # None THEN "update_env" ELSE "create_env"
     IN  Becomes(Prints([host EXCEPT !.env[i] = Script(r).prefix], r, Item(action, "ok", i), "start"))

\* An error that nobody catches ends the script.
WriteFails(r) ==
  /\ Script(r).pc = "env" /\ host.faults < MaxFaults
  /\ Becomes([Touches(host, r) EXCEPT !.script[r].pc = "ended", !.script[r].code = 1,
                                      !.faults = @ + 1])

\* systemctl enable --now leaves a service alone that is running.
Started(i) ==
  [host EXCEPT !.enabled = @ \cup {i}, !.running[i] = IF @ = None THEN host.env[i] ELSE @]

StartService(r) ==
  /\ Script(r).pc = "start"
  /\ LET i == Script(r).at
     IN  IF host.unit THEN Runs(r, "start_service", i, "heartbeat", Started(i))
         ELSE Becomes(Prints(host, r, Item("start_service", "failed", i), "heartbeat"))

WaitHeartbeat(r) ==
  /\ Script(r).pc = "heartbeat"
  /\ LET i == Script(r).at
         printed == Prints(host, r, Item("wait_heartbeat", "pending", i), "env")
     IN  Becomes(IF i < Script(r).n THEN [printed EXCEPT !.script[r].at = i + 1]
                 ELSE [printed EXCEPT !.script[r].pc = "list"])

\* The surplus instances are those with an env file now; the script stops and
\* disables them one by one.
NextSurplus(h, r, todo) ==
  IF todo = {} THEN [h EXCEPT !.script[r].pc = "ended", !.script[r].todo = {}]
  ELSE [h EXCEPT !.script[r].pc = "stop", !.script[r].todo = todo,
                 !.script[r].at = CHOOSE i \in todo : \A j \in todo : i <= j]

ListSurplus(r) ==
  /\ Script(r).pc = "list"
  /\ Becomes(NextSurplus(host, r, Surplus(Script(r).n)))

\* A bug to test with: the service is disabled only
StoppedNot(i) == host

Stopped(i) == [host EXCEPT !.running[i] = None]

StopService(r) ==
  /\ Script(r).pc = "stop"
  /\ LET i == Script(r).at IN Runs(r, "stop_service", i, "disable", Stopped(i))

DisableService(r) ==
  /\ Script(r).pc = "disable"
  /\ LET i == Script(r).at
         left == Script(r).todo \ {i}
     IN  \E h \in {[host EXCEPT !.enabled = @ \ {i}]} :
           \/ Becomes(NextSurplus(Prints(h, r, Item("disable_service", "ok", i), "stop"), r, left))
           \/ /\ host.faults < MaxFaults
              /\ Becomes([NextSurplus(Prints(host, r, Item("disable_service", "failed", i), "stop"),
                                      r, left) EXCEPT !.faults = @ + 1])

\* _run_ssh gives up; the script goes on until it prints to nobody.
SshTimeout(r) ==
  /\ r \in Active /\ Script(r).heard /\ host.faults < MaxFaults
  /\ Becomes([host EXCEPT !.script[r].heard = FALSE, !.faults = @ + 1])

Orphaned(r) ==
  /\ r \in Active /\ ~ Script(r).heard
  /\ Becomes([host EXCEPT !.script[r].pc = "ended", !.script[r].code = 1])

-----------------------------------------------------------------------------
\* service_action, of an instance or of one that nobody knows
ServiceAction(action, i) ==
  /\ host.faults < MaxFaults /\ host.unit /\ host.env[i] # None
  /\ Becomes([Touches(host, NoRequest) EXCEPT
       !.running[i] = CASE action = "start" -> IF @ = None THEN host.env[i] ELSE @
                        [] action = "restart" -> host.env[i]
                        [] action \in {"stop", "disable"} -> None,
       !.enabled = IF action = "disable" THEN @ \ {i} ELSE @,
       !.byhand = TRUE, !.faults = @ + 1])

ScaleNext ==
  \/ \E r \in Requests :
       \/ ScaleApply(r) \/ InstallUnit(r) \/ Reload(r) \/ WriteEnv(r) \/ WriteFails(r)
       \/ StartService(r) \/ WaitHeartbeat(r) \/ ListSurplus(r) \/ StopService(r)
       \/ DisableService(r) \/ SshTimeout(r) \/ Orphaned(r)
  \/ \E i \in Instances, action \in {"start", "stop", "restart", "disable"} : ServiceAction(action, i)

-----------------------------------------------------------------------------
(* Properties of the host.                                                 *)

\* The items that are no steps come first.
Follows(items, plan) ==
  \E a \in DOMAIN items, b \in DOMAIN plan :
    /\ \A k \in 1 .. a : items[k].action = "skip"
    /\ \A k \in 1 .. b : plan[k].action = "skip"
    /\ Len(items) - a = Len(plan) - b
    /\ \A k \in 1 .. Len(plan) - b :
         items[a + k].action = plan[b + k].action /\ items[a + k].instance = plan[b + k].instance
Failed(items) == {items[k].instance : k \in {k \in DOMAIN items : items[k].status = "failed"}}

\* An apply that nobody disturbed took the steps that a plan right before had shown,
\* whatever failed on the way; and after it exactly the workers asked for run, are
\* enabled and have their env, apart from those whose failure its answer names.
ScaleKeepsPlan ==
  \A r \in Requests :
    LET s == Script(r)
    IN  s.pc = "ended" /\ s.code = 0 /\ s.alone =>
          /\ Follows(s.items, s.plan)
          /\ \A i \in Instances \ Failed(s.items) :
               IF i <= s.n
                 THEN /\ host.env[i] = s.prefix /\ i \in host.enabled
                      /\ host.running[i] = IF s.before[i] = None THEN s.prefix ELSE s.before[i]
                 ELSE host.running[i] = None /\ i \notin host.enabled

AllWell ==
  ~ host.byhand /\ \A r \in Requests :
      Script(r).pc = "ended" /\ Script(r).code = 0 /\ Failed(Script(r).items) = {}

\* Scripts of the same request leave the host as one of them would, however their
\* commands alternate, once they are over and no command has failed.
RetriesAgree ==
  AllWell /\ (\A q, r \in Requests : <<Script(q).n, Script(q).prefix>> = <<Script(r).n, Script(r).prefix>>) =>
    \A r \in Requests, i \in Instances :
      IF i <= Script(r).n
        THEN i \in host.enabled /\ host.running[i] # None /\ host.env[i] = Script(r).prefix
        ELSE host.running[i] = None /\ i \notin host.enabled
=============================================================================
