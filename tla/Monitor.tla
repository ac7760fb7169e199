------------------------------- MODULE Monitor -------------------------------
(***************************************************************************)
(* The scheduler (service.py): the _run coroutine on the event loop, which *)
(* polls, folds old history once a day and sleeps until the interval is    *)
(* over or somebody asks for a poll, and trigger, which POST /api/poll     *)
(* calls on a worker thread of the web server.                             *)
(*                                                                         *)
(* The event loop and the worker threads are preempted between any two     *)
(* statements, and asyncio.Event is not made for that, so wait() is two    *)
(* steps: look at the flag, then register a future that set() resolves.    *)
(***************************************************************************)
EXTENDS Naturals

CONSTANT Callers   \* concurrent requests to POST /api/poll

VARIABLES
  pc,         \* where _run is
  polling,    \* Monitor.polling
  flag,       \* the value of the event _wake
  resolved,   \* the future wait() sleeps on has its result
  rollupDue,  \* the last rollup is more than a day ago
  caller,     \* where each request is in trigger
  accepted,   \* where _run was when a request was answered with True, until a
              \* poll starts
  overslept   \* the same, of requests that waited for the end of the interval

loopVars == <<pc, polling, flag, resolved, rollupDue, caller, accepted, overslept>>

Places == {"start", "poll", "rollup", "rearm", "wait", "park", "parked", "stopped"}
Waiting(c) == accepted[c] # "none"

LoopTypeOK ==
  /\ pc \in Places
  /\ polling \in BOOLEAN
  /\ flag \in BOOLEAN
  /\ resolved \in BOOLEAN
  /\ rollupDue \in BOOLEAN
  /\ caller \in [Callers -> {"idle", "asked", "served"}]
  /\ accepted \in [Callers -> Places \cup {"none"}]
  /\ overslept \subseteq Places

LoopInit ==
  /\ pc = "start"
  /\ polling = FALSE
  /\ flag = FALSE
  /\ resolved = FALSE
  /\ rollupDue = TRUE    \* _last_rollup = 0
  /\ caller = [c \in Callers |-> "idle"]
  /\ accepted = [c \in Callers |-> "none"]
  /\ overslept = {}

-----------------------------------------------------------------------------
(* _run *)

\* Every request made so far, answered or still in trigger, gets this poll.
StartPoll ==
  /\ pc = "start"
  /\ pc' = "poll"
  /\ polling' = TRUE
  /\ accepted' = [c \in Callers |-> "none"]
  /\ caller' = [c \in Callers |-> IF caller[c] = "asked" THEN "served" ELSE caller[c]]
  /\ UNCHANGED <<flag, resolved, rollupDue, overslept>>

PollSucceeds ==
  /\ pc = "poll"
  /\ polling' = FALSE
  /\ pc' = IF rollupDue THEN "rollup" ELSE "rearm"
  /\ UNCHANGED <<flag, resolved, rollupDue, caller, accepted, overslept>>

\* Mutant: no try around the body of the loop.
PollFailsForGood ==
  /\ pc = "poll"
  /\ polling' = FALSE
  /\ pc' = "dead"
  /\ UNCHANGED <<flag, resolved, rollupDue, caller, accepted, overslept>>

\* A save raised; the exception is logged and the rollup is skipped.
PollFails ==
  /\ pc = "poll"
  /\ polling' = FALSE
  /\ pc' = "rearm"
  /\ UNCHANGED <<flag, resolved, rollupDue, caller, accepted, overslept>>

\* The rollup runs on a thread; _last_rollup is only set when it succeeds.
RollupEnds ==
  /\ pc = "rollup"
  /\ pc' = "rearm"
  /\ rollupDue' \in {FALSE, TRUE}
  /\ UNCHANGED <<polling, flag, resolved, caller, accepted, overslept>>

Rearm ==
  /\ pc = "rearm"
  /\ pc' = "wait"
  /\ flag' = FALSE
  /\ UNCHANGED <<polling, resolved, rollupDue, caller, accepted, overslept>>

\* Mutant: sleep without looking at the flag.
WaitBlindly ==
  /\ pc = "wait"
  /\ pc' = "park"
  /\ UNCHANGED <<polling, flag, resolved, rollupDue, caller, accepted, overslept>>

\* Event.wait: return at once if the flag is set.
Wait ==
  /\ pc = "wait"
  /\ pc' = IF flag THEN "start" ELSE "park"
  /\ UNCHANGED <<polling, flag, resolved, rollupDue, caller, accepted, overslept>>

\* Event.wait: register the future.
Park ==
  /\ pc = "park"
  /\ pc' = "parked"
  /\ resolved' = FALSE
  /\ UNCHANGED <<polling, flag, rollupDue, caller, accepted, overslept>>

WakeUp ==
  /\ pc = "parked"
  /\ resolved
  /\ pc' = "start"
  /\ UNCHANGED <<polling, flag, resolved, rollupDue, caller, accepted, overslept>>

\* Mutant: await self._wake.wait() without a timeout.
NeverTimeout == FALSE /\ UNCHANGED loopVars

Timeout ==
  /\ pc = "parked"
  /\ ~resolved
  /\ pc' = "start"
  /\ overslept' = overslept \cup {accepted[c] : c \in {d \in Callers : Waiting(d)}}
  /\ UNCHANGED <<polling, flag, resolved, rollupDue, caller, accepted>>

\* The task is cancelled when the application shuts down.
Stop ==
  /\ pc # "stopped"
  /\ pc' = "stopped"
  /\ polling' = FALSE
  /\ UNCHANGED <<flag, resolved, rollupDue, caller, accepted, overslept>>

DayPasses ==
  /\ ~rollupDue
  /\ rollupDue' = TRUE
  /\ UNCHANGED <<pc, polling, flag, resolved, caller, accepted, overslept>>

-----------------------------------------------------------------------------
(* trigger *)

\* Refused while a poll is running.
Ask(c) ==
  /\ caller[c] = "idle"
  /\ ~Waiting(c)
  /\ pc # "stopped"
  /\ ~polling
  /\ caller' = [caller EXCEPT ![c] = "asked"]
  /\ UNCHANGED <<pc, polling, flag, resolved, rollupDue, accepted, overslept>>

\* Event.set does nothing if the flag is already set; else it resolves the
\* registered future, if there is one.
SetWake(c) ==
  /\ caller[c] \in {"asked", "served"}
  /\ caller' = [caller EXCEPT ![c] = "idle"]
  /\ flag' = TRUE
  /\ resolved' = (resolved \/ (~flag /\ pc = "parked"))
  /\ accepted' = IF caller[c] = "asked" THEN [accepted EXCEPT ![c] = pc] ELSE accepted
  /\ UNCHANGED <<pc, polling, rollupDue, overslept>>

-----------------------------------------------------------------------------
Loop ==
  \/ StartPoll
  \/ PollSucceeds \/ PollFails
  \/ RollupEnds
  \/ Rearm
  \/ Wait \/ Park \/ WakeUp \/ Timeout

LoopNext ==
  \/ Loop
  \/ Stop
  \/ DayPasses
  \/ \E c \in Callers : Ask(c) \/ SetWake(c)

\* The event loop runs: SSH connections and commands, SQLite and the listeners
\* have timeouts of their own, and so has the sleep.
LoopSpec == LoopInit /\ [][LoopNext]_loopVars /\ WF_loopVars(Loop)

-----------------------------------------------------------------------------
\* Whatever a poll does, it ends and there is another one after it (service.py,
\* _run: "keep the scheduler alive"), until the application is stopped.
PollsKeepComing == []<>(pc = "poll" \/ pc = "stopped") /\ []<>(pc # "poll")

\* A request answered with True is followed by a poll, at the latest when the
\* interval is over, even if its wake-up is lost.
AcceptedIsServed ==
  \A c \in Callers : Waiting(c) ~> (~Waiting(c) \/ pc = "stopped")

\* A True answer means a poll now (service.py, trigger), not one when the
\* interval happens to be over: also while old history is being folded, when
\* polling is already down again.
NoRequestLostToRollup == "rollup" \notin overslept

\* It is a poll now unless the answer was given between the end of a poll and
\* clearing the event, or after wait() has looked at the event: there, a set()
\* that comes before the future is registered is missed, and so is every later
\* one, as the event is set already.  Before a poll has begun, and before
\* wait() has looked, no answer is ever late.
LateOnlyInBetween == overslept \subseteq {"rollup", "rearm", "park", "parked"}
=============================================================================
