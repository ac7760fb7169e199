------------------------------- MODULE HostPoll -------------------------------
(***************************************************************************)
(* The hosts of a poll (collector.py, collect_all, collect_host, collect;  *)
(* service.py, poll): they are collected side by side, the disks of a host *)
(* side by side within it, and when all have ended their results are saved *)
(* one after the other.  What a disk's task does on the way is Collector;  *)
(* how polls are started, repeated and stopped is Polling.                 *)
(*                                                                         *)
(* Both barriers are asyncio.gather: it hands on the first exception at    *)
(* once and leaves the other tasks running.                                *)
(***************************************************************************)
EXTENDS Naturals

CONSTANTS
  NHosts,    \* enabled hosts, in the order of the settings
  DrivesOf   \* the disks of a host, any of which it may list

Hosts == 1..NHosts

ASSUME HostPollAssumption == NHosts \in Nat \ {0} /\ DOMAIN DrivesOf = Hosts

Drives == UNION {DrivesOf[h] : h \in Hosts}

VARIABLES
  poll,     \* how far the poll is, or how the last one ended
  turn,     \* the host whose result is saved next
  stage,    \* how far collect_host is
  task,     \* what became of the task of a disk
  result,   \* what collect_host returns
  saved,    \* what this poll saved of a host
  broken    \* hosts with something that raised in this poll

pollVars == <<poll, turn, stage, task, result, saved, broken>>

Nothing == [kind |-> "none", disks |-> {}]
Failed == [kind |-> "failed", disks |-> {}]
Ok(disks) == [kind |-> "ok", disks |-> disks]

NoTask == [d \in Drives |-> "none"]
In(h, state) == {d \in Drives : task[h][d] = state}
Listed(h) == Drives \ In(h, "none")

Ended == {"over", "raised", "cancelled"}

PollInit ==
  /\ poll = "over" /\ turn = 1
  /\ stage = [h \in Hosts |-> "done"]
  /\ task = [h \in Hosts |-> NoTask]
  /\ result = [h \in Hosts |-> Nothing]
  /\ saved = [h \in Hosts |-> Nothing]
  /\ broken = {}

\* Nothing of a poll is kept: tasks that were left behind end for nobody.
Ends(how) ==
  /\ poll' = how /\ turn' = 1
  /\ stage' = [h \in Hosts |-> "done"]
  /\ task' = [h \in Hosts |-> NoTask]
  /\ result' = [h \in Hosts |-> Nothing]
  /\ saved' = [h \in Hosts |-> Nothing]
  /\ broken' = {}

CollectAll ==
  /\ poll \in Ended
  /\ poll' = "collecting"
  /\ stage' = [h \in Hosts |-> "connect"]
  /\ UNCHANGED <<turn, task, result, saved, broken>>

-----------------------------------------------------------------------------
(* collect_host *)

Connects(h) ==
  /\ stage[h] = "connect"
  /\ stage' = [stage EXCEPT ![h] = "list"]
  /\ UNCHANGED <<poll, turn, task, result, saved, broken>>

\* detect, discover and find_smartctl; then a task for every disk.
Lists(h) ==
  /\ stage[h] = "list"
  /\ stage' = [stage EXCEPT ![h] = "disks"]
  /\ \E disks \in SUBSET DrivesOf[h] :
       task' = [task EXCEPT ![h] = [d \in Drives |-> IF d \in disks THEN "running" ELSE "none"]]
  /\ UNCHANGED <<poll, turn, result, saved, broken>>

\* Also after the task of another disk has raised and nobody waits any more.
Returns(h, d) ==
  /\ task[h][d] = "running"
  /\ task' = [task EXCEPT ![h][d] = "returned"]
  /\ UNCHANGED <<poll, turn, stage, result, saved, broken>>

\* The connection is gone, or the output cannot be parsed.
Raises(h, d) ==
  /\ task[h][d] = "running"
  /\ task' = [task EXCEPT ![h][d] = "raised"]
  /\ broken' = broken \cup {h}
  /\ UNCHANGED <<poll, turn, stage, result, saved>>

\* Mutant: gather collects the exceptions, and what did not raise is kept.
CollectsTheRest(h) ==
  /\ stage[h] = "disks"
  /\ In(h, "running") = {}
  /\ stage' = [stage EXCEPT ![h] = "close"]
  /\ result' = [result EXCEPT ![h] = Ok(In(h, "returned"))]
  /\ UNCHANGED <<poll, turn, task, saved, broken>>

\* The end of collect.
Collects(h) ==
  /\ stage[h] = "disks"
  /\ In(h, "running") \cup In(h, "raised") = {}
  /\ stage' = [stage EXCEPT ![h] = "close"]
  /\ result' = [result EXCEPT ![h] = Ok(In(h, "returned"))]
  /\ UNCHANGED <<poll, turn, task, saved, broken>>

\* Every exception is caught: of connect, of the device list, of a disk's task
\* and, when all have returned, of reading what they are compared with.  There
\* is nothing to close without a connection.
Breaks(h) ==
  /\ \/ stage[h] \in {"connect", "list"}
     \/ /\ stage[h] = "disks"
        /\ In(h, "raised") # {} \/ (In(h, "running") = {} /\ Listed(h) # {})
  /\ stage' = [stage EXCEPT ![h] = IF @ = "connect" THEN "done" ELSE "close"]
  /\ result' = [result EXCEPT ![h] = Failed]
  /\ broken' = broken \cup {h}
  /\ UNCHANGED <<poll, turn, task, saved>>

\* Mutant: what close raises replaces the result, and gather hands it on.
CloseOrRaise(h) ==
  /\ stage[h] = "close"
  /\ \/ stage' = [stage EXCEPT ![h] = "done"] /\ UNCHANGED <<poll, turn, task, result, saved, broken>>
     \/ Ends("raised")

\* "Closing a dead connection is best effort": whether it raises or not.
Close(h) ==
  /\ stage[h] = "close"
  /\ stage' = [stage EXCEPT ![h] = "done"]
  /\ UNCHANGED <<poll, turn, task, result, saved, broken>>

-----------------------------------------------------------------------------
(* poll *)

Gathered ==
  /\ poll = "collecting"
  /\ \A h \in Hosts : stage[h] = "done"
  /\ poll' = "saving"
  /\ UNCHANGED <<turn, stage, task, result, saved, broken>>

\* What the listeners raise is logged.
Save ==
  /\ poll = "saving" /\ turn \in Hosts
  /\ saved' = [saved EXCEPT ![turn] = result[turn]]
  /\ turn' = turn + 1
  /\ UNCHANGED <<poll, stage, task, result, broken>>

\* The exception ends the poll, for the hosts that come after as well.
SaveRaises == poll = "saving" /\ turn \in Hosts /\ Ends("raised")

EndPoll == poll = "saving" /\ turn \notin Hosts /\ Ends("over")

\* Monitor.stop cancels the poll with all that belongs to it, and no except
\* Exception catches that; the process may be started again.
CancelPoll == poll \notin Ended /\ Ends("cancelled")

HostStep ==
  \E h \in Hosts :
    \/ Connects(h) \/ Lists(h) \/ Collects(h) \/ Breaks(h) \/ Close(h)
    \/ \E d \in Drives : Returns(h, d) \/ Raises(h, d)

PollNext == CollectAll \/ HostStep \/ Gathered \/ Save \/ SaveRaises \/ EndPoll \/ CancelPoll

-----------------------------------------------------------------------------
AsItWas(h) == IF h \in broken THEN Failed ELSE Ok(Listed(h))

\* "One broken host must never stop the others" (collector.py, collect_host):
\* whatever happened on the other hosts, and in whatever order they and their
\* disks ended, a poll that returns has saved every host as what it was, one with
\* anything that raised as failed and any other with all the disks it listed.  A
\* poll that raises has done so for the hosts before the one whose save raised;
\* nothing else makes it raise.  storage.py takes a disk that an ok result lacks
\* for missing, and the age of the last ok result for the time a host is silent.
EachHostForItself ==
  [][poll \notin Ended =>
       /\ poll' = "over" => \A h \in Hosts : saved[h] = AsItWas(h)
       /\ poll' = "raised" => poll = "saving" /\ \A h \in 1..(turn - 1) : saved[h] = AsItWas(h)]_pollVars
=============================================================================
