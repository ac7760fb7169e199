-------------------------------- MODULE Polling --------------------------------
(***************************************************************************)
(* The scheduler (Monitor) with the hosts of its polls (HostPoll): what is *)
(* one step there, a poll that succeeds or fails, is collecting and saving *)
(* the hosts here, with requests coming in meanwhile.                      *)
(***************************************************************************)
EXTENDS Monitor, HostPoll

systemVars == <<loopVars, pollVars>>

PollingInit == LoopInit /\ PollInit

\* A poll begins, goes on, and ends as the scheduler sees it end.
PollBegins == StartPoll /\ CollectAll
PollGoesOn == (HostStep \/ Gathered \/ Save) /\ UNCHANGED loopVars
PollReturns == PollSucceeds /\ EndPoll
PollRaises == PollFails /\ SaveRaises

Between ==
  /\ RollupEnds \/ Rearm \/ Wait \/ Park \/ WakeUp \/ Timeout
  /\ UNCHANGED pollVars

Stopped == Stop /\ IF poll \in Ended THEN UNCHANGED pollVars ELSE CancelPoll

Beside ==
  /\ DayPasses \/ \E c \in Callers : Ask(c) \/ SetWake(c)
  /\ UNCHANGED pollVars

Running == PollBegins \/ PollGoesOn \/ PollReturns \/ Between

PollingNext == Running \/ PollRaises \/ Stopped \/ Beside

\* The event loop runs: connections, commands, SQLite and the listeners have
\* timeouts of their own, and so has the sleep.
PollingSpec == PollingInit /\ [][PollingNext]_systemVars /\ WF_systemVars(Running)
=============================================================================
