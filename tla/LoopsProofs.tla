------------------------------ MODULE LoopsProofs ------------------------------
(***************************************************************************)
(* Theorems about the two loops that never end: the scheduler's, for any   *)
(* number of concurrent requests, with the polls it makes, for any number  *)
(* of hosts and disks; and the one of a browser tab, for any number of     *)
(* disks, pages, clicks, failures and requests under way.                  *)
(***************************************************************************)
EXTENDS Polling, WebUi, SequenceTheorems, TLAPS

(* To the scheduler the polls are what Monitor says they are, and to their   *)
(* hosts they are what HostPoll says (service.py, _run and poll).            *)
THEOREM PollingIsBoth ==
  PollingSpec => LoopInit /\ [][LoopNext]_loopVars /\ PollInit /\ [][PollNext]_pollVars
<1>1. PollingInit => LoopInit /\ PollInit BY DEF PollingInit
<1>2. [PollingNext]_systemVars => [LoopNext]_loopVars
  BY DEF PollingNext, Running, PollBegins, PollGoesOn, PollReturns, PollRaises, Between, Stopped, Beside,
         LoopNext, Loop, systemVars
<1>3. [PollingNext]_systemVars => [PollNext]_pollVars
  BY DEF PollingNext, Running, PollBegins, PollGoesOn, PollReturns, PollRaises, Between, Stopped, Beside,
         PollNext, systemVars
<1> QED BY <1>1, <1>2, <1>3, PTL DEF PollingSpec

-----------------------------------------------------------------------------
(* The scheduler *)

\* The flag of polling is up exactly while _run polls, so nobody is promised a
\* further poll meanwhile.  An answer that was given before wait() has looked at
\* the event leaves it set, and one given before a poll is served by that poll.
SchedulerInv ==
  /\ LoopTypeOK
  /\ polling <=> pc = "poll"
  /\ pc = "poll" => \A c \in Callers : caller[c] # "asked"
  /\ \A c \in Callers :
       /\ accepted[c] # "poll"
       /\ accepted[c] = "start" => pc \in {"start", "stopped"}
       /\ accepted[c] = "wait" => pc \in {"start", "stopped"} \/ (pc = "wait" /\ flag)
       /\ accepted[c] = "stopped" => pc = "stopped"
  /\ LateOnlyInBetween

LEMMA SchedulerInductive == LoopInit /\ [][LoopNext]_loopVars => []SchedulerInv
<1> USE DEF LoopTypeOK, Places, LateOnlyInBetween, Waiting
<1>1. LoopInit => SchedulerInv BY DEF LoopInit, SchedulerInv
<1>2. SchedulerInv /\ [LoopNext]_loopVars => SchedulerInv'
  <2> SUFFICES ASSUME SchedulerInv, [LoopNext]_loopVars PROVE SchedulerInv'
    OBVIOUS
  <2> USE DEF SchedulerInv
  <2>1. CASE StartPoll BY <2>1 DEF StartPoll
  <2>2. CASE PollSucceeds BY <2>2 DEF PollSucceeds
  <2>3. CASE PollFails BY <2>3 DEF PollFails
  <2>4. CASE RollupEnds BY <2>4 DEF RollupEnds
  <2>5. CASE Rearm BY <2>5 DEF Rearm
  <2>6. CASE Wait BY <2>6 DEF Wait
  <2>7. CASE Park BY <2>7 DEF Park
  <2>8. CASE WakeUp BY <2>8 DEF WakeUp
  <2>9. CASE Timeout BY <2>9 DEF Timeout
  <2>10. CASE Stop BY <2>10 DEF Stop
  <2>11. CASE DayPasses BY <2>11 DEF DayPasses
  <2>12. ASSUME NEW c \in Callers, Ask(c) PROVE SchedulerInv' BY <2>12 DEF Ask
  <2>13. ASSUME NEW c \in Callers, SetWake(c) PROVE SchedulerInv'
    BY <2>13 DEF SetWake
  <2>14. CASE UNCHANGED loopVars BY <2>14 DEF loopVars
  <2> QED BY <2>1, <2>2, <2>3, <2>4, <2>5, <2>6, <2>7, <2>8, <2>9, <2>10, <2>11, <2>12, <2>13, <2>14
          DEF LoopNext, Loop
<1> QED BY <1>1, <1>2, PTL

\* Every variable of the scheduler keeps to its type, for any number of callers.
THEOREM SchedulerTypeCorrect == LoopSpec \/ PollingSpec => []LoopTypeOK
BY SchedulerInductive, PollingIsBoth, PTL DEF LoopSpec, SchedulerInv

\* A request that trigger answers with True is late only if the answer came in
\* one of the four places known for it, however many requests there are at once.
THEOREM LateAnswersAreKnown == LoopSpec \/ PollingSpec => []LateOnlyInBetween
BY SchedulerInductive, PollingIsBoth, PTL DEF LoopSpec, SchedulerInv

-----------------------------------------------------------------------------
(* A poll *)

\* While a host is collected nothing of it has raised but tasks of its disks, and
\* its result, once there, is final: what still runs then was left behind.
HostInv(h) ==
  /\ stage[h] \in {"connect", "list"} => h \notin broken /\ task[h] = NoTask
  /\ stage[h] = "disks" => (h \in broken <=> In(h, "raised") # {})
  /\ stage[h] \in {"close", "done"} => result[h] = AsItWas(h) /\ (In(h, "running") # {} => h \in broken)

PollTypeOK ==
  /\ poll \in Ended \cup {"collecting", "saving"}
  /\ turn \in 1..(NHosts + 1)
  /\ stage \in [Hosts -> {"connect", "list", "disks", "close", "done"}]
  /\ task \in [Hosts -> [Drives -> {"none", "running", "returned", "raised"}]]
  /\ DOMAIN result = Hosts /\ DOMAIN saved = Hosts
  /\ broken \subseteq Hosts

\* What is saved is what was collected, of the hosts whose turn it was.
SavedInv ==
  CASE poll = "collecting" -> turn = 1 /\ \A h \in Hosts : saved[h] = Nothing
    [] poll = "saving" -> \A h \in Hosts :
         stage[h] = "done" /\ saved[h] = IF h < turn THEN AsItWas(h) ELSE Nothing
    [] OTHER ->
         turn = 1 /\ broken = {} /\ \A h \in Hosts : stage[h] = "done" /\ task[h] = NoTask /\ saved[h] = Nothing

PollInv ==
  /\ PollTypeOK
  /\ poll \notin Ended => \A h \in Hosts : HostInv(h)
  /\ SavedInv

\* A step of one host that leaves the others and the poll alone.
LEMMA OneHost ==
  ASSUME PollInv, poll \notin Ended, NEW h \in Hosts, PollTypeOK', UNCHANGED <<poll, turn, saved>>,
         \A g \in Hosts \ {h} : /\ stage'[g] = stage[g] /\ task'[g] = task[g] /\ result'[g] = result[g]
                                /\ g \in broken' <=> g \in broken,
         HostInv(h)',
         poll = "saving" => stage'[h] = "done" /\ AsItWas(h)' = AsItWas(h)
  PROVE  PollInv'
<1>1. ASSUME NEW g \in Hosts \ {h} PROVE AsItWas(g)' = AsItWas(g) /\ HostInv(g)'
  <2>1. \A how : In(g, how)' = In(g, how) BY DEF In
  <2>2. AsItWas(g)' = AsItWas(g) BY <2>1 DEF AsItWas, Listed
  <2> QED BY <2>1, <2>2 DEF HostInv, PollInv
<1>2. \A g \in Hosts : HostInv(g)' BY <1>1
<1>3. SavedInv' BY <1>1 DEF PollInv, SavedInv, PollTypeOK, Ended
<1> QED BY <1>2, <1>3 DEF PollInv

LEMMA TaskStep ==
  ASSUME PollInv, NEW h \in Hosts, NEW d \in Drives, Returns(h, d) \/ Raises(h, d)
  PROVE  PollInv'
<1>1. /\ task[h][d] = "running" /\ UNCHANGED <<poll, turn, stage, result, saved>>
      /\ task' = [task EXCEPT ![h][d] = IF Returns(h, d) THEN "returned" ELSE "raised"]
      /\ broken' = IF Returns(h, d) THEN broken ELSE broken \cup {h}
  BY DEF Returns, Raises
<1>2. PollTypeOK' BY <1>1 DEF PollInv, PollTypeOK
<1>3. \A g \in Hosts \ {h} : task'[g] = task[g] BY <1>1 DEF PollInv, PollTypeOK
<1>4. task'[h] = [task[h] EXCEPT ![d] = IF Returns(h, d) THEN "returned" ELSE "raised"]
  BY <1>1 DEF PollInv, PollTypeOK
<1>5. /\ Listed(h)' = Listed(h) /\ In(h, "running")' = In(h, "running") \ {d}
      /\ d \in In(h, "running")
      /\ In(h, "raised")' = IF Returns(h, d) THEN In(h, "raised") ELSE In(h, "raised") \cup {d}
  BY <1>1, <1>4 DEF Listed, In, PollInv, PollTypeOK
<1>6. poll \notin Ended BY <1>1 DEF PollInv, PollTypeOK, SavedInv, Ended, NoTask
<1>7. HostInv(h) /\ (poll = "saving" => h \in broken /\ stage[h] = "done")
  BY <1>5, <1>6 DEF PollInv, PollTypeOK, SavedInv, HostInv
<1>8. AsItWas(h)' = IF h \in broken' THEN Failed ELSE Ok(Listed(h)) BY <1>5 DEF AsItWas
<1>9. stage[h] \notin {"connect", "list"} BY <1>1, <1>7 DEF HostInv, NoTask
<1>10. HostInv(h)' BY <1>1, <1>5, <1>7, <1>8, <1>9 DEF HostInv, AsItWas
<1>11. poll = "saving" => stage'[h] = "done" /\ AsItWas(h)' = AsItWas(h)
  BY <1>1, <1>7, <1>8 DEF AsItWas
<1> QED BY <1>1, <1>2, <1>3, <1>6, <1>10, <1>11, OneHost

LEMMA HostSteps ==
  ASSUME PollInv, NEW h \in Hosts, Connects(h) \/ Lists(h) \/ Collects(h) \/ Breaks(h) \/ Close(h)
  PROVE  PollInv'
<1>1. stage[h] # "done" /\ UNCHANGED <<poll, turn, saved>>
  BY DEF Connects, Lists, Collects, Breaks, Close
<1>2. poll = "collecting" /\ poll \notin Ended /\ HostInv(h) BY <1>1 DEF PollInv, PollTypeOK, SavedInv, Ended
<1>3. PollTypeOK'
  <2> USE DEF PollInv, PollTypeOK
  <2>1. CASE Connects(h) BY <2>1 DEF Connects
  <2>2. CASE Lists(h) BY <2>2 DEF Lists
  <2>3. CASE Collects(h) BY <2>3 DEF Collects
  <2>4. CASE Breaks(h) BY <2>4 DEF Breaks
  <2>5. CASE Close(h) BY <2>5 DEF Close
  <2> QED BY <2>1, <2>2, <2>3, <2>4, <2>5
<1>4. \A g \in Hosts \ {h} : /\ stage'[g] = stage[g] /\ task'[g] = task[g] /\ result'[g] = result[g]
                             /\ g \in broken' <=> g \in broken
  <2> USE DEF PollInv, PollTypeOK
  <2>1. CASE Connects(h) BY <2>1 DEF Connects
  <2>2. CASE Lists(h) BY <2>2 DEF Lists
  <2>3. CASE Collects(h) BY <2>3 DEF Collects
  <2>4. CASE Breaks(h) BY <2>4 DEF Breaks
  <2>5. CASE Close(h) BY <2>5 DEF Close
  <2> QED BY <2>1, <2>2, <2>3, <2>4, <2>5
<1>5. HostInv(h)'
  <2>1. CASE Connects(h) BY <1>2, <2>1 DEF PollInv, PollTypeOK, HostInv, Connects
  <2>2. CASE Lists(h)
    <3>1. stage'[h] = "disks" /\ h \notin broken' BY <1>2, <2>2 DEF PollInv, PollTypeOK, HostInv, Lists
    <3>2. PICK disks \in SUBSET Drives :
            task' = [task EXCEPT ![h] = [d \in Drives |-> IF d \in disks THEN "running" ELSE "none"]]
      BY <2>2 DEF Lists, Drives
    <3>3. In(h, "raised")' = {} BY <3>2 DEF In, PollInv, PollTypeOK
    <3> QED BY <3>1, <3>3 DEF HostInv
  <2>3. CASE Collects(h)
    <3>1. /\ stage'[h] = "close" /\ result'[h] = Ok(In(h, "returned")) /\ UNCHANGED <<task, broken>>
          /\ In(h, "running") = {} /\ In(h, "raised") = {} /\ h \notin broken
      BY <1>2, <2>3 DEF PollInv, PollTypeOK, HostInv, Collects
    <3>2. In(h, "returned") = Listed(h) BY <3>1 DEF In, Listed, PollInv, PollTypeOK
    <3> QED BY <3>1, <3>2 DEF HostInv, AsItWas, In, Listed
  <2>4. CASE Breaks(h)
    <3>1. stage'[h] \in {"close", "done"} /\ result'[h] = Failed /\ h \in broken'
      BY <2>4 DEF PollInv, PollTypeOK, Breaks
    <3> QED BY <3>1 DEF HostInv, AsItWas
  <2>5. CASE Close(h)
    BY <1>2, <2>5 DEF PollInv, PollTypeOK, HostInv, Close, AsItWas, In, Listed
  <2> QED BY <2>1, <2>2, <2>3, <2>4, <2>5
<1> QED BY <1>1, <1>2, <1>3, <1>4, <1>5, OneHost

LEMMA CollectAllStep == ASSUME PollInv, CollectAll PROVE PollInv'
<1>1. PollTypeOK' BY DEF PollInv, PollTypeOK, CollectAll
<1>2. turn = 1 /\ broken = {} /\ \A h \in Hosts : task[h] = NoTask /\ saved[h] = Nothing
  BY DEF PollInv, SavedInv, CollectAll, Ended
<1>3. \A h \in Hosts : HostInv(h)' BY <1>2 DEF CollectAll, HostInv
<1>4. SavedInv' BY <1>2 DEF CollectAll, SavedInv
<1> QED BY <1>1, <1>3, <1>4 DEF PollInv

\* What is saved never changes what was collected.
LEMMA SaveStep == ASSUME PollInv, Gathered \/ Save \/ UNCHANGED pollVars PROVE PollInv'
<1>1. UNCHANGED <<stage, task, result, broken>> BY DEF Gathered, Save, pollVars
<1>2. ASSUME NEW h \in Hosts PROVE AsItWas(h)' = AsItWas(h) /\ (HostInv(h) => HostInv(h)')
  <2>1. \A how : In(h, how)' = In(h, how) BY <1>1 DEF In
  <2>2. AsItWas(h)' = AsItWas(h) BY <1>1, <2>1 DEF AsItWas, Listed
  <2> QED BY <1>1, <2>1, <2>2 DEF HostInv
<1> USE DEF PollInv, PollTypeOK, SavedInv, Hosts, Ended
<1>3. CASE Gathered
  <2>1. PollTypeOK' /\ turn' = 1 /\ \A h \in Hosts : stage'[h] = "done" /\ saved'[h] = Nothing
    BY <1>3 DEF Gathered
  <2>2. \A h \in Hosts : ~(h < 1) BY HostPollAssumption
  <2> QED BY <1>2, <1>3, <2>1, <2>2 DEF Gathered
<1>4. CASE Save BY <1>1, <1>2, <1>4, HostPollAssumption DEF Save, HostInv
<1>5. CASE UNCHANGED pollVars BY <1>2, <1>5 DEF pollVars
<1> QED BY <1>3, <1>4, <1>5

LEMMA EndStep == ASSUME NEW how \in Ended, Ends(how) PROVE PollInv'
BY HostPollAssumption DEF Ends, PollInv, PollTypeOK, SavedInv, Hosts, Ended, NoTask

\* Only the loop that saves ends a poll so that it returns, and only a save so
\* that it raises.
LEMMA EndsAsSaved ==
  ASSUME PollInv, [PollNext]_pollVars, poll \notin Ended
  PROVE  /\ poll' = "over" => \A h \in Hosts : saved[h] = AsItWas(h)
         /\ poll' = "raised" => poll = "saving" /\ \A h \in 1..(turn - 1) : saved[h] = AsItWas(h)
<1>1. poll' \in {"over", "raised"} => SaveRaises \/ EndPoll
  BY DEF PollNext, HostStep, Connects, Lists, Collects, Breaks, Close, Returns, Raises, CollectAll,
         Gathered, Save, CancelPoll, Ends, pollVars, Ended
<1>2. CASE EndPoll
  <2>1. poll = "saving" /\ poll' = "over" BY <1>2 DEF EndPoll, Ends
  <2>2. \A h \in Hosts : h < turn
    BY <1>2, HostPollAssumption DEF EndPoll, PollInv, PollTypeOK, Hosts
  <2> QED BY <2>1, <2>2 DEF PollInv, SavedInv
<1>3. CASE SaveRaises
  <2>1. poll = "saving" /\ poll' = "raised" BY <1>3 DEF SaveRaises, Ends
  <2>2. \A h \in 1..(turn - 1) : h \in Hosts /\ h < turn
    BY HostPollAssumption DEF PollInv, PollTypeOK, Hosts
  <2> QED BY <2>1, <2>2 DEF PollInv, SavedInv
<1> QED BY <1>1, <1>2, <1>3

LEMMA PollInductive == PollInit /\ [][PollNext]_pollVars => []PollInv /\ EachHostForItself
<1>1. PollInit => PollInv
  BY HostPollAssumption DEF PollInit, PollInv, PollTypeOK, SavedInv, Hosts, Ended, NoTask
<1>2. PollInv /\ [PollNext]_pollVars => PollInv'
  <2> SUFFICES ASSUME PollInv, [PollNext]_pollVars PROVE PollInv' OBVIOUS
  <2>1. CASE HostStep BY <2>1, TaskStep, HostSteps DEF HostStep
  <2>2. CASE SaveRaises \/ EndPoll \/ CancelPoll
    BY <2>2, EndStep DEF SaveRaises, EndPoll, CancelPoll, Ended
  <2>3. CASE CollectAll BY <2>3, CollectAllStep
  <2>4. CASE Gathered \/ Save \/ UNCHANGED pollVars BY <2>4, SaveStep
  <2> QED BY <2>1, <2>2, <2>3, <2>4 DEF PollNext
<1>3. PollInv /\ [PollNext]_pollVars =>
        [poll \notin Ended =>
           /\ poll' = "over" => \A h \in Hosts : saved[h] = AsItWas(h)
           /\ poll' = "raised" => poll = "saving" /\ \A h \in 1..(turn - 1) : saved[h] = AsItWas(h)]_pollVars
  BY EndsAsSaved
<1> QED BY <1>1, <1>2, <1>3, PTL DEF EachHostForItself

(* A poll that returns has saved every host as what it was, for any number   *)
(* of hosts, disks and requests and in any order of their ends: failed if    *)
(* anything of it raised, otherwise with every disk it listed; and only a    *)
(* save makes a poll raise (collector.py, collect and collect_host;          *)
(* service.py, poll).                                                        *)
THEOREM HostsStandAlone == PollingSpec => EachHostForItself
BY PollingIsBoth, PollInductive, PTL

-----------------------------------------------------------------------------
(* Requests under way *)

Requests == [what : (Pages \ {"overview"}) \cup {"state", "start"},
             answer : {"awaited", "ok", "failed"}, data : Data, live : BOOLEAN]

\* An answer is on its way that will show page p.
Coming(p, under) == \E i \in DOMAIN under : under[i].what = p /\ under[i].live

\* No page is called like the list, which is the only request without a page.
LEMMA PageNames ==
  /\ "overview" \notin Disks \cup Others /\ "state" \notin Pages /\ "start" \notin Pages
  /\ Disks \cap Others = {}
BY WebUiAssumption DEF Pages

LEMMA RequestType ==
  ASSUME NEW what \in (Pages \ {"overview"}) \cup {"state", "start"}
  PROVE  Request(what) \in Requests /\ Request(what).what = what /\ Request(what).live
BY DEF Requests, Request, NoData, Data

\* An answer that is taken leaves the others as they are.
LEMMA OthersRemain ==
  ASSUME NEW under \in Seq(Requests), NEW i \in DOMAIN under
  PROVE  /\ RemoveAt(under, i) \in Seq(Requests)
         /\ \A j \in DOMAIN under : j # i =>
              \E k \in DOMAIN RemoveAt(under, i) : RemoveAt(under, i)[k] = under[j]
<1> DEFINE before == SubSeq(under, 1, i - 1)
           after == SubSeq(under, i + 1, Len(under))
<1>1. i \in 1..Len(under) /\ Len(under) \in Nat /\ \A j \in 1..Len(under) : under[j] \in Requests
  OBVIOUS
<1>2. /\ before \in Seq(Requests) /\ Len(before) = i - 1
      /\ \A j \in 1..(i - 1) : before[j] = under[j]
  <2>1. \A j \in 1..(i - 1) : under[j] \in Requests BY <1>1
  <2> QED BY <1>1, <2>1, SubSeqProperties
<1>3. /\ after \in Seq(Requests) /\ Len(after) = Len(under) - i
      /\ \A j \in 1..(Len(under) - i) : after[j] = under[i + j]
  <2>1. \A j \in (i + 1)..Len(under) : under[j] \in Requests BY <1>1
  <2>2. i + 1 \in Int /\ Len(under) \in Int BY <1>1
  <2>3. /\ after \in Seq(Requests)
        /\ Len(after) = IF i + 1 <= Len(under) THEN Len(under) - (i + 1) + 1 ELSE 0
        /\ \A j \in 1..(Len(under) - (i + 1) + 1) : after[j] = under[(i + 1) + j - 1]
    BY <2>1, <2>2, SubSeqProperties
  <2>4. Len(under) - (i + 1) + 1 = Len(under) - i BY <1>1
  <2>5. \A j \in 1..(Len(under) - i) : (i + 1) + j - 1 = i + j BY <1>1
  <2> QED BY <1>1, <2>3, <2>4, <2>5
<1>4. RemoveAt(under, i) = before \o after BY DEF RemoveAt
<1> HIDE DEF before, after
<1>5. /\ before \o after \in Seq(Requests)
      /\ Len(before \o after) = Len(before) + Len(after)
      /\ \A k \in 1..(Len(before) + Len(after)) :
           (before \o after)[k] = IF k <= Len(before) THEN before[k] ELSE after[k - Len(before)]
  BY <1>2, <1>3, ConcatProperties
<1>6. ASSUME NEW j \in DOMAIN under, j # i
      PROVE  \E k \in DOMAIN (before \o after) : (before \o after)[k] = under[j]
  <2>0. Len(before) + Len(after) = Len(under) - 1 BY <1>1, <1>2, <1>3
  <2>1. DOMAIN (before \o after) = 1..(Len(under) - 1)
    <3> DEFINE both == before \o after
    <3>1. both \in Seq(Requests) /\ Len(both) = Len(under) - 1 BY <1>5, <2>0
    <3> HIDE DEF both
    <3>2. DOMAIN both = 1..(Len(under) - 1) BY <3>1
    <3> QED BY <3>2 DEF both
  <2>2. j \in 1..Len(under) OBVIOUS
  <2>3. CASE j < i
    <3>1. j \in 1..(Len(before) + Len(after)) /\ j <= Len(before) BY <1>1, <1>2, <2>0, <2>2, <2>3
    <3>2. before[j] = under[j] BY <1>1, <1>2, <2>2, <2>3
    <3> QED BY <1>5, <2>0, <2>1, <3>1, <3>2
  <2>4. CASE j > i
    <3>1. j - 1 \in 1..(Len(under) - 1) /\ j - i \in 1..(Len(under) - i) BY <1>1, <2>2, <2>4
    <3>2. (before \o after)[j - 1] = after[j - i]
      <4>1. j - 1 \in 1..(Len(before) + Len(after)) BY <1>1, <1>2, <1>3, <3>1
      <4>2. ~(j - 1 <= Len(before)) /\ (j - 1) - Len(before) = j - i BY <1>1, <1>2, <2>2, <2>4
      <4> QED BY <1>5, <4>1, <4>2
    <3>3. after[j - i] = under[j] BY <1>1, <1>3, <2>2, <3>1
    <3> QED BY <2>1, <3>1, <3>2, <3>3
  <2> QED BY <1>1, <1>6, <2>2, <2>3, <2>4
<1> QED BY <1>4, <1>5, <1>6

LEMMA StillComing ==
  ASSUME NEW under \in Seq(Requests), NEW i \in DOMAIN under, NEW p, Coming(p, under),
         under[i].what # p \/ ~under[i].live
  PROVE  Coming(p, RemoveAt(under, i))
<1>1. PICK j \in DOMAIN under : under[j].what = p /\ under[j].live BY DEF Coming
<1>2. PICK k \in DOMAIN RemoveAt(under, i) : RemoveAt(under, i)[k] = under[j] BY <1>1, OthersRemain
<1> QED BY <1>1, <1>2 DEF Coming

\* What is asked for in addition delays nothing.
LEMMA ComingToo ==
  ASSUME NEW under \in Seq(Requests), NEW more \in Seq(Requests), NEW p,
         Coming(p, under) \/ Coming(p, more)
  PROVE  Coming(p, under \o more)
<1>1. /\ DOMAIN (under \o more) = 1..(Len(under) + Len(more))
      /\ \A i \in 1..Len(under) : (under \o more)[i] = under[i]
      /\ \A i \in 1..Len(more) : (under \o more)[Len(under) + i] = more[i]
  BY ConcatProperties
<1>2. \A i \in 1..Len(under) : i \in 1..(Len(under) + Len(more)) OBVIOUS
<1>3. \A i \in 1..Len(more) : Len(under) + i \in 1..(Len(under) + Len(more)) OBVIOUS
<1>4. CASE Coming(p, under)
  <2>1. PICK i \in 1..Len(under) : under[i].what = p /\ under[i].live BY <1>4 DEF Coming
  <2>2. (under \o more)[i] = under[i] /\ i \in DOMAIN (under \o more) BY <1>1, <1>2
  <2> QED BY <2>1, <2>2 DEF Coming
<1>5. CASE Coming(p, more)
  <2>1. PICK i \in 1..Len(more) : more[i].what = p /\ more[i].live BY <1>5 DEF Coming
  <2>2. /\ (under \o more)[Len(under) + i] = more[i]
        /\ Len(under) + i \in DOMAIN (under \o more)
    BY <1>1, <1>3
  <2> QED BY <2>1, <2>2 DEF Coming
<1> QED BY <1>4, <1>5

LEMMA AskedFor ==
  ASSUME NEW p \in Pages
  PROVE  /\ Asked(p) \in Seq(Requests) /\ (p # "overview" => Coming(p, Asked(p)))
         /\ p # "overview" => <<Request(p)>> \in Seq(Requests) /\ Coming(p, <<Request(p)>>)
<1>1. p # "overview" => <<Request(p)>> \in Seq(Requests) /\ Coming(p, <<Request(p)>>)
  BY RequestType DEF Coming
<1> QED BY <1>1 DEF Asked

LEMMA TornDownType ==
  ASSUME NEW under \in Seq(Requests) PROVE TornDown(under) \in Seq(Requests)
<1>1. ASSUME NEW i \in DOMAIN under PROVE [under[i] EXCEPT !.live = FALSE] \in Requests
  <2>1. under[i] \in Requests OBVIOUS
  <2> QED BY <2>1, Zenon DEF Requests
<1>2. DOMAIN under = 1..Len(under) /\ Len(under) \in Nat OBVIOUS
<1> QED BY <1>1, <1>2 DEF TornDown

-----------------------------------------------------------------------------
(* The page *)

LEMMA BlankType ==
  ASSUME NEW p \in Pages PROVE Blank(p) \in Views /\ Blank(p).page = p
<1>1. NoData \in Data BY DEF NoData, Data
<1> QED BY <1>1 DEF Blank, Views

\* What route renders is the page, or is left while the page is asked for.
LEMMA RoutedView ==
  ASSUME NEW p \in Pages, NEW shown \in Views, NEW s \in Data \cup {None}, NEW e
  PROVE  /\ ViewAt(p, shown, s, e) \in Views
         /\ p = "overview" \/ shown.page = p => ViewAt(p, shown, s, e).page = p
         /\ ViewAt(p, shown, s, e).page = p \/ ViewAt(p, shown, s, e) = shown
<1>1. NoData \in Data BY DEF NoData, Data
<1>2. Blank(p) \in Views /\ Blank(p).page = p BY BlankType
<1>3. Overview(s, e) \in Views /\ Overview(s, e).page = "overview"
  BY <1>1 DEF Overview, Blank, Views, Pages
<1> QED BY <1>2, <1>3 DEF ViewAt

-----------------------------------------------------------------------------
(* The invariant of the tab *)

\* The page, or it is on its way, or the error of a page that loads once.
Belongs(v, under) ==
  \/ v.page = route
  \/ Coming(route, under)
  \/ v.how = "error" /\ v.page \in Others \ {route}

LEMMA BelongsToRoute == PageBelongsToRoute <=> Belongs(view, requests)
BY DEF PageBelongsToRoute, Belongs, Coming, Intruder

TabInv == TypeOK /\ PageBelongsToRoute

LEMMA RequestsTyped == TypeOK => requests \in Seq(Requests)
BY DEF TypeOK, Requests

LEMMA TabInit == Init => TabInv
<1> SUFFICES ASSUME Init PROVE TabInv OBVIOUS
<1>1. NoData \in Data /\ [d \in Disks |-> 1] \in Data BY DEF NoData, Data
<1>2. Request("start") \in Requests BY RequestType
<1>3. requests \in Seq(Requests) BY <1>2 DEF Init
<1>4. view \in Views BY <1>1 DEF Init, Blank, Views
<1>5. 0 \in 0..MaxPolls /\ 0 \in 0..MaxClicks /\ 0 \in 0..MaxFailures BY WebUiAssumption
<1>6. TypeOK BY <1>1, <1>3, <1>4, <1>5 DEF Init, TypeOK, Requests
<1>7. view.page = route BY DEF Init, Blank
<1> QED BY <1>6, <1>7 DEF TabInv, PageBelongsToRoute

\* Nothing of the page changes, and nothing that is on its way is lost.
LEMMA PageKept ==
  ASSUME TabInv, UNCHANGED <<route, view>>,
         Coming(route, requests) => Coming(route, requests')
  PROVE  PageBelongsToRoute'
BY BelongsToRoute DEF TabInv, PageBelongsToRoute, Coming, Intruder

LEMMA PollTab ==
  ASSUME TabInv, Poll PROVE TabInv'
<1>1. seen' \in Data BY DEF TabInv, TypeOK, Poll, Data
<1>2. polls' \in 0..MaxPolls BY WebUiAssumption DEF TabInv, TypeOK, Poll
<1>3. TypeOK' BY <1>1, <1>2 DEF TabInv, TypeOK, Poll, page, bounds
<1>4. PageBelongsToRoute' BY PageKept DEF Poll, page
<1> QED BY <1>3, <1>4 DEF TabInv

LEMMA AnswerTab ==
  ASSUME TabInv, NEW i \in DOMAIN requests, Answer(i) PROVE TabInv'
<1> USE DEF TabInv
<1>1. requests \in Seq(Requests) /\ requests[i] \in Requests BY RequestsTyped
<1>2. AnswerTo(requests[i].what) \in Data
  BY DEF AnswerTo, NoData, Data, TypeOK
<1>3. /\ requests' \in Seq(Requests) /\ DOMAIN requests' = DOMAIN requests
      /\ \A j \in DOMAIN requests : requests'[j].what = requests[j].what /\ requests'[j].live = requests[j].live
  <2>1. CASE requests' = [requests EXCEPT ![i].answer = "ok", ![i].data = AnswerTo(requests[i].what)]
    BY <1>1, <1>2, <2>1 DEF Requests
  <2>2. CASE requests' = [requests EXCEPT ![i].answer = "failed"]
    BY <1>1, <2>2 DEF Requests
  <2> QED BY <2>1, <2>2 DEF Answer
<1>4. failures' \in 0..MaxFailures BY WebUiAssumption DEF TypeOK, Answer
<1>5. TypeOK' BY <1>3, <1>4 DEF TypeOK, Answer, server, page, Requests
<1>6. Coming(route, requests) => Coming(route, requests') BY <1>3 DEF Coming
<1>7. PageBelongsToRoute' BY <1>6, PageKept DEF Answer, page
<1> QED BY <1>5, <1>7

\* What a click leaves of the bounds.
LEMMA ClickTab == TypeOK /\ Click => clicks' \in 0..MaxClicks
BY WebUiAssumption DEF TypeOK, Click

LEMMA KeyType ==
  ASSUME TypeOK, NEW p \in Pages PROVE KeyAt(p) \in Disks \cup {None}
BY DEF TypeOK, KeyAt

LEMMA NavigateTab ==
  ASSUME TabInv, NEW p \in Pages, Navigate(p) PROVE TabInv'
<1> USE DEF TabInv
<1>1. requests \in Seq(Requests) /\ view \in Views /\ state \in Data \cup {None}
  BY RequestsTyped DEF TypeOK
<1>2. requests' = requests \o Asked(p) /\ view' = ViewAt(p, view, state, error) /\ route' = p
  BY DEF Navigate
<1>3. requests' \in Seq(Requests) /\ (p # "overview" => Coming(p, requests'))
  BY <1>1, <1>2, AskedFor, ComingToo, ConcatProperties
<1>4. view' \in Views /\ (p = "overview" => view'.page = p) BY <1>1, <1>2, RoutedView
<1>5. TypeOK' BY <1>2, <1>3, <1>4, ClickTab, KeyType DEF TypeOK, Navigate, server, Requests
<1>6. PageBelongsToRoute' BY <1>2, <1>3, <1>4 DEF PageBelongsToRoute, Coming
<1> QED BY <1>5, <1>6

LEMMA SetLanguageTab ==
  ASSUME TabInv, SetLanguage PROVE TabInv'
<1> USE DEF TabInv
<1>1. requests \in Seq(Requests) /\ route \in Pages /\ state \in Data \cup {None}
  BY RequestsTyped DEF TypeOK
<1>2. requests' = TornDown(requests) \o Asked(route) /\ view' = ViewAt(route, Blank(route), state, error)
  BY DEF SetLanguage
<1>3. requests' \in Seq(Requests) BY <1>1, <1>2, AskedFor, TornDownType, ConcatProperties
<1>4. Blank(route) \in Views /\ Blank(route).page = route BY <1>1, BlankType
<1>5. view' \in Views /\ view'.page = route BY <1>1, <1>2, <1>4, RoutedView
<1>6. TypeOK' BY <1>3, <1>5, ClickTab, KeyType DEF TypeOK, SetLanguage, server, Requests
<1>7. PageBelongsToRoute' BY <1>5 DEF PageBelongsToRoute, SetLanguage
<1> QED BY <1>6, <1>7

LEMMA PollNowTab ==
  ASSUME TabInv, PollNow PROVE TabInv'
<1>1. TypeOK' BY ClickTab DEF TabInv, TypeOK, PollNow, server, page
<1>2. PageBelongsToRoute' BY PageKept DEF PollNow, page
<1> QED BY <1>1, <1>2 DEF TabInv

LEMMA RefreshTab ==
  ASSUME TabInv, Refresh PROVE TabInv'
<1> USE DEF TabInv
<1>1. requests \in Seq(Requests) BY RequestsTyped
<1>2. Request("state") \in Requests BY RequestType
<1>3. requests' \in Seq(Requests) BY <1>1, <1>2 DEF Refresh
<1>4. Coming(route, requests) => Coming(route, requests')
  <2>1. \A i \in DOMAIN requests : i \in DOMAIN requests' /\ requests'[i] = requests[i]
    BY <1>1, <1>2 DEF Refresh
  <2> QED BY <2>1 DEF Coming
<1>5. strays' \in Nat BY DEF TypeOK, Refresh
<1>6. TypeOK' BY <1>3, <1>5 DEF TypeOK, Refresh, server, page, bounds, Requests
<1>7. PageBelongsToRoute' BY <1>4, PageKept DEF Refresh, page
<1> QED BY <1>6, <1>7

\* The list arrives, or an error in its place.
LEMMA ListTab ==
  ASSUME TabInv, NEW i \in DOMAIN requests, ListArrives(i) PROVE TabInv'
<1> DEFINE request == requests[i]
           s == IF request.answer = "ok" THEN request.data ELSE state
           e == request.answer = "failed"
           again == IF Noticed(s) THEN <<Request(route)>> ELSE <<>>
           shown == IF route = "overview" \/ Noticed(s) THEN ViewAt(route, view, s, e) ELSE view
           rest == RemoveAt(requests, i)
           under == rest \o again
<1>1. /\ requests \in Seq(Requests) /\ view \in Views /\ route \in Pages
      /\ state \in Data \cup {None}
  BY RequestsTyped DEF TabInv, TypeOK
<1>2. request \in Requests /\ request.what \in {"state", "start"} BY <1>1 DEF ListArrives
<1>3. s \in Data \cup {None} /\ e \in BOOLEAN BY <1>1, <1>2 DEF Requests
<1>4. rest \in Seq(Requests) /\ (Coming(route, requests) => Coming(route, rest))
  BY <1>1, <1>2, OthersRemain, StillComing, PageNames
<1>5. again \in Seq(Requests) /\ (Noticed(s) => Coming(route, again))
  <2>1. Noticed(s) => route # "overview" BY PageNames DEF Noticed
  <2> QED BY <1>1, <2>1, AskedFor
<1>6. /\ under \in Seq(Requests)
      /\ Coming(route, requests) \/ Noticed(s) => Coming(route, under)
  BY <1>4, <1>5, ComingToo, ConcatProperties
<1>7. /\ shown \in Views
      /\ shown.page = route \/ Noticed(s) \/ shown = view
      /\ route = "overview" => shown.page = route
  BY <1>1, <1>3, RoutedView
<1>8. Asked(route) \in Seq(Requests) /\ (route # "overview" => Coming(route, Asked(route)))
  BY <1>1, AskedFor
<1>9. /\ requests' \in Seq(Requests) /\ view' \in Views /\ detailKey' \in Disks \cup {None}
      /\ Belongs(view', requests')
  <2>1. CASE view' = shown /\ detailKey' = (IF Noticed(s) THEN route ELSE detailKey) /\ requests' = under
    <3>1. detailKey' \in Disks \cup {None} BY <2>1 DEF TabInv, TypeOK, Noticed
    <3>2. Belongs(view, requests) BY BelongsToRoute DEF TabInv
    <3>3. Belongs(view', requests') BY <1>6, <1>7, <2>1, <3>2 DEF Belongs
    <3> QED BY <1>6, <1>7, <2>1, <3>1, <3>3
  <2>2. CASE view' = ViewAt(route, shown, s, e) /\ detailKey' = KeyAt(route) /\ requests' = under \o Asked(route)
    <3> HIDE DEF shown, s, e
    <3>1. requests' \in Seq(Requests) /\ (route # "overview" => Coming(route, requests'))
      BY <1>6, <1>8, <2>2, ComingToo, ConcatProperties
    <3>2. view' \in Views /\ (route = "overview" => view'.page = route)
      BY <1>1, <1>3, <1>7, <2>2, RoutedView
    <3>3. detailKey' \in Disks \cup {None} BY <1>1, <2>2, KeyType DEF TabInv
    <3> QED BY <3>1, <3>2, <3>3 DEF Belongs
  <2>3. CASE /\ view' = ViewAt(route, Blank(route), s, e) /\ detailKey' = KeyAt(route)
             /\ requests' = TornDown(under) \o Asked(route)
    <3>1. requests' \in Seq(Requests) BY <1>6, <1>8, <2>3, TornDownType, ConcatProperties
    <3>2. view' \in Views /\ view'.page = route BY <1>1, <1>3, <2>3, BlankType, RoutedView
    <3>3. detailKey' \in Disks \cup {None} BY <1>1, <2>3, KeyType DEF TabInv
    <3> QED BY <3>1, <3>2, <3>3 DEF Belongs
  <2> HIDE DEF under, shown, s, e
  <2> QED BY <2>1, <2>2, <2>3 DEF ListArrives, under, rest, again, shown, s, e, request
<1>10. state' = s /\ error' = e /\ timer' = TRUE /\ strays' \in Nat
  BY DEF ListArrives, RestartTimer, TabInv, TypeOK
<1> HIDE DEF s, e, under, shown, rest, again, request
<1>11. UNCHANGED <<server, route, detailSeen, torn, bounds>> BY DEF ListArrives
<1>12. TypeOK' BY <1>3, <1>9, <1>10, <1>11 DEF TabInv, TypeOK, server, bounds, Requests
<1>13. PageBelongsToRoute' BY <1>9, <1>11 DEF Belongs, PageBelongsToRoute, Coming, Intruder
<1> QED BY <1>12, <1>13 DEF TabInv

\* An answer about a page is taken and, unless its page is gone, shown.
LEMMA ArrivedTab ==
  ASSUME TabInv, NEW i \in DOMAIN requests, Arrived(i)
  PROVE  /\ requests[i] \in Requests /\ requests' \in Seq(Requests)
         /\ requests[i].what # route \/ ~requests[i].live =>
              (Coming(route, requests) => Coming(route, requests'))
         /\ requests[i].what \in Pages /\ Show(i) => view' \in Views
         /\ Show(i) /\ requests[i].live => view'.page = requests[i].what
         /\ Show(i) /\ requests[i].live /\ requests[i].answer = "failed" => view'.how = "error"
<1>1. requests \in Seq(Requests) /\ view \in Views BY RequestsTyped DEF TabInv, TypeOK
<1>2. requests[i] \in Requests /\ requests' = RemoveAt(requests, i) BY <1>1 DEF Arrived
<1>3. requests' \in Seq(Requests) BY <1>1, <1>2, OthersRemain
<1>4. requests[i].what # route \/ ~requests[i].live =>
        (Coming(route, requests) => Coming(route, requests'))
  BY <1>1, <1>2, StillComing
<1>5. requests[i].what \in Pages /\ Show(i) => view' \in Views
  BY <1>1, <1>2 DEF Show, Views, Requests
<1>6. /\ Show(i) /\ requests[i].live => view'.page = requests[i].what
      /\ Show(i) /\ requests[i].live /\ requests[i].answer = "failed" => view'.how = "error"
  BY DEF Show
<1> QED BY <1>2, <1>3, <1>4, <1>5, <1>6

LEMMA DiskTab ==
  ASSUME TabInv, NEW i \in DOMAIN requests, DiskArrives(i) PROVE TabInv'
<1> USE DEF TabInv
<1>1. Arrived(i) /\ requests[i].what \in Disks /\ requests[i].what \in Pages BY DEF DiskArrives, Pages
<1>2. requests[i] \in Requests /\ requests' \in Seq(Requests) BY <1>1, ArrivedTab
<1>3. UNCHANGED <<server, route, state, error, detailKey, timer, strays, bounds>> BY DEF DiskArrives
<1>4. CASE route = requests[i].what
  <2>1. Show(i) BY <1>4 DEF DiskArrives
  <2>2. view' \in Views BY <1>1, <2>1, ArrivedTab
  <2>3. detailSeen' \in Nat \cup {None} /\ torn' \in BOOLEAN
    BY <1>1, <1>2, <1>4 DEF DiskArrives, TypeOK, Requests, Data
  <2>4. TypeOK' BY <1>2, <1>3, <2>2, <2>3 DEF TypeOK, server, bounds, Requests
  <2>5. CASE requests[i].live
    <3>1. view'.page = route' BY <1>1, <1>3, <1>4, <2>1, <2>5, ArrivedTab
    <3> QED BY <2>4, <3>1 DEF PageBelongsToRoute
  <2>6. CASE ~requests[i].live
    <3>1. view' = view BY <2>1, <2>6 DEF Show
    <3>2. PageBelongsToRoute' BY <1>1, <1>3, <2>6, <3>1, ArrivedTab, PageKept
    <3> QED BY <2>4, <3>2
  <2> QED BY <2>5, <2>6
<1>5. CASE route # requests[i].what
  <2>1. UNCHANGED <<view, detailSeen, torn>> BY <1>5 DEF DiskArrives
  <2>2. TypeOK' BY <1>2, <1>3, <2>1 DEF TypeOK, server, bounds, Requests
  <2>3. PageBelongsToRoute' BY <1>1, <1>3, <1>5, <2>1, ArrivedTab, PageKept
  <2> QED BY <2>2, <2>3
<1> QED BY <1>4, <1>5

LEMMA OtherTab ==
  ASSUME TabInv, NEW i \in DOMAIN requests, OtherArrives(i) PROVE TabInv'
<1> USE DEF TabInv
<1>1. Arrived(i) /\ requests[i].what \in Others /\ requests[i].what \in Pages BY DEF OtherArrives, Pages
<1>2. requests[i] \in Requests /\ requests' \in Seq(Requests) BY <1>1, ArrivedTab
<1>3. UNCHANGED <<server, route, state, error, detailKey, detailSeen, torn, timer, strays, bounds>>
  BY DEF OtherArrives
<1>4. CASE Show(i) /\ (requests[i].answer = "failed" \/ route = requests[i].what)
  <2>1. view' \in Views BY <1>1, <1>4, ArrivedTab
  <2>2. TypeOK' BY <1>2, <1>3, <2>1 DEF TypeOK, server, bounds, Requests
  <2>3. CASE requests[i].live
    <3>1. view'.page = requests[i].what /\ (route = requests[i].what \/ view'.how = "error")
      BY <1>1, <1>4, <2>3, ArrivedTab
    <3>2. PageBelongsToRoute' BY <1>1, <1>3, <3>1 DEF PageBelongsToRoute, Intruder
    <3> QED BY <2>2, <3>2
  <2>4. CASE ~requests[i].live
    <3>1. view' = view BY <1>4, <2>4 DEF Show
    <3>2. PageBelongsToRoute' BY <1>1, <1>3, <2>4, <3>1, ArrivedTab, PageKept
    <3> QED BY <2>2, <3>2
  <2> QED BY <2>3, <2>4
<1>5. CASE view' = view /\ route # requests[i].what
  <2>1. TypeOK' BY <1>2, <1>3, <1>5 DEF TypeOK, server, bounds, Requests
  <2>2. PageBelongsToRoute' BY <1>1, <1>3, <1>5, ArrivedTab, PageKept
  <2> QED BY <2>1, <2>2
<1> QED BY <1>4, <1>5 DEF OtherArrives

LEMMA TabInductive == Spec => []TabInv
<1>1. TabInv /\ [Next]_vars => TabInv'
  <2> SUFFICES ASSUME TabInv, [Next]_vars PROVE TabInv'
    OBVIOUS
  <2>1. CASE Poll BY <2>1, PollTab
  <2>2. ASSUME NEW i \in DOMAIN requests, Answer(i) \/ Arrives(i) PROVE TabInv'
    BY <2>2, AnswerTab, ListTab, DiskTab, OtherTab DEF Arrives
  <2>3. ASSUME NEW p \in Pages, Navigate(p) PROVE TabInv' BY <2>3, NavigateTab
  <2>4. CASE SetLanguage BY <2>4, SetLanguageTab
  <2>5. CASE PollNow BY <2>5, PollNowTab
  <2>6. CASE Refresh BY <2>6, RefreshTab
  <2>7. CASE UNCHANGED vars
    <3>1. TypeOK' BY <2>7 DEF vars, server, page, bounds, TabInv, TypeOK
    <3>2. PageBelongsToRoute' BY <2>7, PageKept DEF vars, page
    <3> QED BY <3>1, <3>2 DEF TabInv
  <2> QED BY <2>1, <2>2, <2>3, <2>4, <2>5, <2>6, <2>7 DEF Next
<1> QED BY <1>1, TabInit, PTL DEF Spec

\* What a tab shows is the page the user is at, or that page is on its way, or
\* it is the error of another page that loads once: for any number of disks,
\* clicks, failures and requests that overtake one another.
THEOREM PageIsTheRoute == Spec => []PageBelongsToRoute
BY TabInductive, PTL DEF TabInv
=============================================================================
