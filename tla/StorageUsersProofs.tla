-------------------------- MODULE StorageUsersProofs ---------------------------
(***************************************************************************)
(* Theorems about the modules that are built on Storage: the second writer *)
(* (TwoWriters), the reads of the web API (ApiReads) and the pipeline to   *)
(* the broker and the channels (Delivery).  Each part is about one of them *)
(* and knows nothing of the variables of the others.                       *)
(***************************************************************************)
EXTENDS TwoWriters, ApiReads, Delivery, StorageProofs, FiniteSetTheorems, SequenceTheorems

-----------------------------------------------------------------------------
(*              A second writer (TwoWriters): any number of hosts,         *)
(*              disks, polls and days                                      *)
-----------------------------------------------------------------------------

Waiting(w, h) == Unsaved(w)[h].kind # "none"

\* What waits to be saved was collected after the epoch (storage.py, NULL).
WaitingStamped == \A w \in Writers, h \in Hosts : Waiting(w, h) => Unsaved(w)[h].at > Never

\* Two polls are at different times, so no two results of one host bear the
\* same time: neither two that wait, nor one that waits and the last success.
\* The tables hold nothing from the future.
TimesInv ==
  /\ \A h \in Hosts : hosts[h].lastSuccess <= clock
  /\ \A s \in samples : s.ts <= clock
  /\ \A w \in Writers, h \in Hosts : Waiting(w, h) =>
       /\ Unsaved(w)[h].at <= clock
       /\ Unsaved(w)[h].at # hosts[h].lastSuccess
       /\ \A s \in samples : s.key \in Unsaved(w)[h].found => s.ts # Unsaved(w)[h].at
       /\ \A d \in daily : d.day < Day(Unsaved(w)[h].at)
  /\ \A w \in Writers : \A g, h \in Hosts :
       g # h => Unsaved(w)[g].found \cap Unsaved(w)[h].found = {}
  /\ \A g, h \in Hosts :
       Waiting("service", g) /\ Waiting("command", h) => pending[g].at # held[h].at

\* A waiting result is about disks of its host that are not excluded.
HomesInv ==
  \A w \in Writers, h \in Hosts : Waiting(w, h) =>
    /\ Unsaved(w)[h].excluded \subseteq excluded
    /\ \A k \in Unsaved(w)[h].found : Homes[k] = {h} /\ k \notin excluded

SteadyInv == ~raced => KnownSteady /\ PresenceAlternates /\ MissingIffAnnounced

FoldedInv == NoDayIsSplit /\ \A d \in daily : d.day < Day(clock)

-----------------------------------------------------------------------------
(* The two writers, one like the other *)

LEMMA UnsavedIs ==
  /\ Unsaved("service") = pending /\ Unsaved("command") = held
  /\ Unsaved("service")' = pending' /\ Unsaved("command")' = held'
BY DEF Unsaved

LEMMA UnsavedType ==
  ASSUME WritersTypeOK, NEW w \in Writers, NEW h \in Hosts
  PROVE  Unsaved(w)[h] \in Result /\ Unsaved(w)[h].at \in Nat /\ Unsaved(w)[h].at \in Int
<1>1. Unsaved(w)[h] \in Result BY DEF WritersTypeOK, TypeOK, Unsaved
<1> QED BY <1>1 DEF Result

\* One of them collects, after all that has happened so far.
Polled(w) ==
  /\ clock <= clock'
  /\ \A h \in Hosts : Waiting(w, h)' =>
       /\ clock < Unsaved(w)'[h].at /\ Unsaved(w)'[h].at <= clock'
       /\ Unsaved(w)'[h].excluded \subseteq excluded
       /\ \A k \in Unsaved(w)'[h].found : k \in Keys /\ h \in Homes[k] /\ k \notin excluded
  /\ \A g, h \in Hosts : g # h => Unsaved(w)'[g].found \cap Unsaved(w)'[h].found = {}
  /\ \A v \in Writers : v # w => Unsaved(v)' = Unsaved(v)
  /\ Prompt'
  /\ UNCHANGED <<excluded, hosts, disks, samples, daily, presence, statusLog, raced>>

\* What Collect brings belongs where it was found.
LEMMA CollectedHomes ==
  ASSUME NEW h \in Hosts, NEW at, NEW reachable, NEW placed \in Placements, NEW status
  PROVE  LET result == Collected(h, at, reachable, placed, status) IN
         /\ result.at = at /\ result.excluded \subseteq excluded
         /\ \A k \in result.found :
              k \in Keys /\ placed[k] = h /\ h \in Homes[k] /\ k \notin excluded
<1> DEFINE result == Collected(h, at, reachable, placed, status)
<1>1. /\ result.at = at /\ result.excluded \subseteq excluded
      /\ \A k \in result.found : k \in Keys /\ placed[k] = h /\ k \notin excluded
  BY DEF Collected, EmptyResult
<1>2. \A k \in Keys : placed[k] = h => h \in Homes[k] BY DEF Placements, Hosts
<1> QED BY <1>1, <1>2

LEMMA ServicePolled ==
  ASSUME WritersTypeOK, SteadyClock, ServiceCollects PROVE Polled("service")
<1>1. PICK gap \in Gaps, placed \in Placements, reachable \in SUBSET Hosts,
           status \in [Keys -> Statuses], at \in [Hosts -> 1..Span] :
         pending' = [h \in Hosts |-> Collected(h, clock + gap + at[h], reachable, placed, status)]
  BY DEF ServiceCollects, Collect
<1>2. /\ clock <= clock'
      /\ \A h \in Hosts : clock < pending'[h].at /\ pending'[h].at <= clock'
  BY CollectTimes DEF ServiceCollects, WritersTypeOK
<1>3. ASSUME NEW h \in Hosts
      PROVE  /\ pending'[h].excluded \subseteq excluded
             /\ \A k \in pending'[h].found :
                  k \in Keys /\ placed[k] = h /\ h \in Homes[k] /\ k \notin excluded
  <2>1. pending'[h] = Collected(h, clock + gap + at[h], reachable, placed, status) BY <1>1
  <2> QED BY <2>1, CollectedHomes
<1>4. \A g, h \in Hosts : g # h => pending'[g].found \cap pending'[h].found = {} BY <1>3
<1>5. \A v \in Writers : v # "service" => Unsaved(v)' = Unsaved(v)
  BY UnsavedIs DEF Writers, ServiceCollects
<1> QED BY <1>2, <1>3, <1>4, <1>5, UnsavedIs DEF Polled, ServiceCollects, Collect, Waiting

LEMMA CommandPolled ==
  ASSUME WritersTypeOK, CommandCollects PROVE Polled("command")
<1>1. PICK placed \in Placements, reachable \in SUBSET Hosts, status \in [Keys -> Statuses],
           at \in [Hosts -> 1..Span], polled \in {Hosts} \cup {{h} : h \in Hosts} :
         held' = [h \in Hosts |-> IF h \in polled
                    THEN Collected(h, clock + at[h], reachable, placed, status) ELSE NoResult]
  BY DEF CommandCollects
<1>2. clock' = clock + Span /\ clock \in Nat /\ Span \in Nat
  BY StorageAssumption DEF CommandCollects, WritersTypeOK, TypeOK
<1>3. ASSUME NEW h \in Hosts
      PROVE  /\ held'[h].kind # "none" => clock < held'[h].at /\ held'[h].at <= clock'
             /\ held'[h].excluded \subseteq excluded
             /\ \A k \in held'[h].found :
                  k \in Keys /\ placed[k] = h /\ h \in Homes[k] /\ k \notin excluded
  <2>1. CASE h \in polled
    <3>1. held'[h] = Collected(h, clock + at[h], reachable, placed, status) BY <1>1, <2>1
    <3>2. at[h] \in 1..Span OBVIOUS
    <3>3. held'[h].at = clock + at[h] BY <3>1, CollectedHomes
    <3>4. clock < held'[h].at /\ held'[h].at <= clock' BY <1>2, <3>2, <3>3
    <3> QED BY <3>1, <3>4, CollectedHomes
  <2>2. CASE h \notin polled
    <3>1. held'[h] = NoResult BY <1>1, <2>2
    <3> QED BY <3>1 DEF NoResult, EmptyResult
  <2> QED BY <2>1, <2>2
<1>4. \A g, h \in Hosts : g # h => held'[g].found \cap held'[h].found = {} BY <1>3
<1>5. \A v \in Writers : v # "command" => Unsaved(v)' = Unsaved(v)
  BY UnsavedIs DEF Writers, CommandCollects
<1>6. clock <= clock' BY <1>2
<1> QED BY <1>3, <1>4, <1>5, <1>6, UnsavedIs DEF Polled, CommandCollects, Waiting

\* A step after which less waits than before, and nothing else.
Fewer == \A w \in Writers, h \in Hosts :
           Unsaved(w)'[h] = NoResult \/ Unsaved(w)'[h] = Unsaved(w)[h]

LEMMA SavedFewer ==
  ASSUME WritersTypeOK, NEW w \in Writers, NEW h \in Hosts, Saved(w, h)
  PROVE  /\ Fewer /\ Unsaved(w)'[h] = NoResult
         /\ hosts'[h] = HostRowAfter(h, Unsaved(w)[h])
         /\ \A g \in Hosts : g # h => hosts'[g] = hosts[g]
<1>1. CASE w = "service"
  BY <1>1, UnsavedIs DEF Saved, Fewer, Writers, WritersTypeOK, TypeOK
<1>2. CASE w = "command"
  BY <1>2, UnsavedIs DEF Saved, Fewer, Writers, WritersTypeOK, TypeOK
<1> QED BY <1>1, <1>2 DEF Writers

LEMMA StopsFewer ==
  ASSUME WritersTypeOK, ServiceStops \/ CommandStops PROVE Fewer
BY UnsavedIs DEF ServiceStops, CommandStops, Abandon, Fewer, Writers, vars

LEMMA IdleFewer ==
  ASSUME UNCHANGED <<pending, held>> PROVE Fewer
BY UnsavedIs DEF Fewer, Writers

LEMMA FewerWaiting ==
  ASSUME Fewer, NEW w \in Writers, NEW h \in Hosts
  PROVE  /\ Waiting(w, h)' => Waiting(w, h) /\ Unsaved(w)'[h] = Unsaved(w)[h]
         /\ Unsaved(w)'[h].found \subseteq Unsaved(w)[h].found
<1>1. NoResult.found = {} BY DEF NoResult, EmptyResult
<1> QED BY <1>1, ConstantTypes DEF Fewer, Waiting

-----------------------------------------------------------------------------
(* Types *)

LEMMA WritersInitType == WritersInit => WritersTypeOK
<1> SUFFICES ASSUME WritersInit PROVE WritersTypeOK OBVIOUS
<1>1. held \in [Hosts -> Result] BY ConstantTypes DEF WritersInit
<1> QED BY <1>1, InitType DEF WritersInit, WritersTypeOK

\* What a writer read before its transaction decides only which event, if any,
\* is appended.
LEMMA CommitSuccessType ==
  ASSUME WritersTypeOK, NEW w \in Writers, NEW h \in Hosts, CommitSuccess(w, h)
  PROVE  WritersTypeOK'
<1> DEFINE result == Unsaved(w)[h]
<1>1. result \in Result /\ TypeOK BY UnsavedType DEF WritersTypeOK
<1>2. /\ hosts' \in [Hosts -> HostRow] /\ disks' \in [Keys -> DiskRow]
      /\ samples' \in SUBSET Sample /\ statusLog' \in [Keys -> Seq(Change)]
  BY <1>1, RecordedType DEF CommitSuccess, Saved
<1>3. presence' \in [Keys -> Seq({"missing", "returned"})]
  <2>1. \A k \in Keys :
          Deciding(h, previous[w])!PresenceAfter(k, h, result) \in Seq({"missing", "returned"})
    BY <1>1 DEF TypeOK, Deciding!PresenceAfter
  <2> QED BY <2>1 DEF CommitSuccess
<1>4. /\ pending' \in [Hosts -> Result] /\ held' \in [Hosts -> Result]
      /\ previous' \in [Writers -> Nat \cup {Unread}]
      /\ UNCHANGED <<clock, excluded, daily>>
  BY ConstantTypes DEF CommitSuccess, Saved, WritersTypeOK, TypeOK
<1>5. raced' \in BOOLEAN BY DEF CommitSuccess
<1> QED BY <1>2, <1>3, <1>4, <1>5 DEF WritersTypeOK, TypeOK

LEMMA WritersNextType == WritersTypeOK /\ [WritersNext]_twoVars => WritersTypeOK'
<1> SUFFICES ASSUME WritersTypeOK, [WritersNext]_twoVars PROVE WritersTypeOK' OBVIOUS
<1>1. TypeOK BY DEF WritersTypeOK
<1>2. CASE ServiceCollects
  BY <1>1, <1>2, CollectType DEF ServiceCollects, WritersTypeOK
<1>3. CASE CommandCollects
  <2>1. PICK placed \in Placements, reachable \in SUBSET Hosts, status \in [Keys -> Statuses],
             at \in [Hosts -> 1..Span], polled \in {Hosts} \cup {{h} : h \in Hosts} :
           held' = [h \in Hosts |-> IF h \in polled
                      THEN Collected(h, clock + at[h], reachable, placed, status) ELSE NoResult]
    BY <1>3 DEF CommandCollects
  <2>2. \A h \in Hosts : clock + at[h] \in Nat BY <1>1, StorageAssumption DEF TypeOK
  <2>3. excluded \in SUBSET Keys BY <1>1 DEF TypeOK
  <2>4. held' \in [Hosts -> Result] BY <2>1, <2>2, <2>3, CollectedType, ConstantTypes
  <2>5. clock' \in Nat BY <1>1, <1>3, StorageAssumption DEF CommandCollects, TypeOK
  <2> QED BY <1>3, <2>4, <2>5 DEF CommandCollects, WritersTypeOK, TypeOK
<1>4. ASSUME NEW w \in Writers, ReadPrevious(w) PROVE WritersTypeOK'
  <2>1. \A h \in Hosts : hosts[h].lastSuccess \in Nat BY <1>1 DEF TypeOK, HostRow
  <2>2. previous' \in [Writers -> Nat \cup {Unread}]
    BY <1>4, <2>1 DEF ReadPrevious, WritersTypeOK
  <2> QED BY <1>4, <2>2 DEF ReadPrevious, WritersTypeOK, TypeOK, vars
<1>5. ASSUME NEW w \in Writers, NEW h \in Hosts, CommitFailure(w, h) PROVE WritersTypeOK'
  <2>1. hosts' \in [Hosts -> HostRow]
    BY <1>1, <1>5, UnsavedType DEF CommitFailure, Saved, HostRowAfter, HostRow, TypeOK, Result
  <2>2. /\ pending' \in [Hosts -> Result] /\ held' \in [Hosts -> Result]
        /\ previous' \in [Writers -> Nat \cup {Unread}]
    BY <1>5, ConstantTypes DEF CommitFailure, Saved, WritersTypeOK, TypeOK
  <2> QED BY <1>5, <2>1, <2>2 DEF CommitFailure, Saved, WritersTypeOK, TypeOK
<1>6. ASSUME NEW w \in Writers, NEW h \in Hosts, CommitSuccess(w, h) PROVE WritersTypeOK'
  BY <1>6, CommitSuccessType
<1>7. CASE ServiceFolds BY <1>1, <1>7, RollupType DEF ServiceFolds, WritersTypeOK
<1>8. CASE ServiceStops
  <2>1. previous' \in [Writers -> Nat \cup {Unread}] BY <1>8 DEF ServiceStops, WritersTypeOK
  <2> QED BY <1>1, <1>8, <2>1, AbandonType DEF ServiceStops, WritersTypeOK
<1>9. CASE CommandStops
  BY <1>9, ConstantTypes DEF CommandStops, WritersTypeOK, TypeOK, vars
<1>10. CASE UNCHANGED twoVars BY <1>10 DEF twoVars, vars, WritersTypeOK, TypeOK
<1> QED BY <1>2, <1>3, <1>4, <1>5, <1>6, <1>7, <1>8, <1>9, <1>10 DEF WritersNext

-----------------------------------------------------------------------------
(* What a step does, whichever action it is of *)

\* Nothing is recorded: a failed attempt, a read, a stop, or no step at all.
Quiet ==
  /\ Fewer
  /\ UNCHANGED <<clock, disks, samples, daily, presence, statusLog, raced>>
  /\ \A g \in Hosts : hosts'[g].lastSuccess = hosts[g].lastSuccess
  /\ excluded' = excluded \/ excluded' \in ExcludeChoices

LEMMA StepKinds ==
  ASSUME WritersTypeOK, SteadyClock, [WritersNext]_twoVars
  PROVE  \/ \E w \in Writers : Polled(w)
         \/ \E w \in Writers, h \in Hosts : CommitSuccess(w, h)
         \/ ServiceFolds
         \/ Quiet
<1>1. ASSUME NEW w \in Writers, NEW h \in Hosts, CommitFailure(w, h) PROVE Quiet
  <2>1. hosts \in [Hosts -> HostRow] BY DEF WritersTypeOK, TypeOK
  <2>2. \A g \in Hosts : hosts'[g].lastSuccess = hosts[g].lastSuccess
    BY <1>1, <2>1 DEF CommitFailure, Saved, HostRowAfter, HostRow
  <2> QED BY <1>1, <2>2, SavedFewer DEF CommitFailure, Saved, Quiet
<1>2. ASSUME NEW w \in Writers, ReadPrevious(w) PROVE Quiet
  BY <1>2, IdleFewer DEF ReadPrevious, vars, Quiet
<1>3. CASE ServiceStops BY <1>3, StopsFewer DEF ServiceStops, Abandon, Quiet
<1>4. CASE CommandStops BY <1>4, StopsFewer DEF CommandStops, vars, Quiet
<1>5. CASE UNCHANGED twoVars BY <1>5, IdleFewer DEF twoVars, vars, Quiet
<1>6. CASE ServiceCollects BY <1>6, ServicePolled DEF Writers
<1>7. CASE CommandCollects BY <1>7, CommandPolled DEF Writers
<1> QED BY <1>1, <1>2, <1>3, <1>4, <1>5, <1>6, <1>7 DEF WritersNext

LEMMA PromptStep ==
  ASSUME WritersTypeOK, SteadyClock, Prompt, [WritersNext]_twoVars PROVE Prompt'
<1>1. ASSUME NEW w \in Writers, Polled(w) PROVE Prompt' BY <1>1 DEF Polled
<1>2. ASSUME Fewer, UNCHANGED clock PROVE Prompt'
  BY <1>2, FewerWaiting DEF Prompt, Waiting
<1>3. ASSUME NEW w \in Writers, NEW h \in Hosts, CommitSuccess(w, h) PROVE Prompt'
  BY <1>2, <1>3, SavedFewer DEF CommitSuccess, Saved
<1>4. CASE ServiceFolds BY <1>2, <1>4, IdleFewer DEF ServiceFolds, Rollup
<1>5. CASE Quiet BY <1>2, <1>5 DEF Quiet
<1> QED BY <1>1, <1>3, <1>4, <1>5, StepKinds

-----------------------------------------------------------------------------
(* Times *)

LEMMA PolledTimes ==
  ASSUME WritersTypeOK, WritersTypeOK', TimesInv, FoldedInv, NEW w \in Writers, Polled(w)
  PROVE  TimesInv' /\ FoldedInv'
<1>1. /\ clock \in Int /\ clock' \in Int /\ clock <= clock'
      /\ UNCHANGED <<hosts, samples, daily>>
      /\ \A v \in Writers : v # w => Unsaved(v)' = Unsaved(v)
  BY DEF WritersTypeOK, TypeOK, Polled
<1>2. /\ \A h \in Hosts : hosts[h].lastSuccess \in Int
      /\ \A s \in samples : s.ts \in Int
      /\ \A d \in daily : d.day \in Int
  BY DEF WritersTypeOK, TypeOK, HostRow, Sample, DayRow
<1>3. \A v \in Writers, h \in Hosts : Unsaved(v)'[h].at \in Int
  BY UnsavedIs DEF WritersTypeOK, TypeOK, Result, Writers
<1>4. /\ \A h \in Hosts : hosts[h].lastSuccess <= clock'
      /\ \A s \in samples : s.ts <= clock'
  BY <1>1, <1>2 DEF TimesInv
<1>5. Day(clock) \in Int /\ Day(clock') \in Int /\ Day(clock) <= Day(clock')
  BY <1>1, DayType, DayMonotone
<1>6. ASSUME NEW v \in Writers, NEW h \in Hosts, Waiting(v, h)'
      PROVE  /\ Unsaved(v)'[h].at <= clock'
             /\ Unsaved(v)'[h].at # hosts[h].lastSuccess
             /\ \A s \in samples : s.key \in Unsaved(v)'[h].found => s.ts # Unsaved(v)'[h].at
             /\ \A d \in daily : d.day < Day(Unsaved(v)'[h].at)
  <2>1. CASE v = w
    <3>1. clock < Unsaved(w)'[h].at /\ Unsaved(w)'[h].at <= clock' BY <1>6, <2>1 DEF Polled
    <3>2. /\ Day(clock) <= Day(Unsaved(w)'[h].at) /\ Day(Unsaved(w)'[h].at) \in Int
      BY <1>1, <1>3, <3>1, DayMonotone, DayType
    <3>3. \A d \in daily : d.day < Day(Unsaved(w)'[h].at)
      BY <1>2, <1>5, <3>2 DEF FoldedInv
    <3> QED BY <2>1, <1>1, <1>2, <1>3, <3>1, <3>3 DEF TimesInv
  <2>2. CASE v # w
    <3>1. Unsaved(v)' = Unsaved(v) /\ Waiting(v, h) BY <1>1, <1>6, <2>2 DEF Waiting
    <3>2. Unsaved(v)[h].at \in Int BY UnsavedType
    <3> QED BY <1>1, <3>1, <3>2 DEF TimesInv
  <2> QED BY <2>1, <2>2
<1>7. ASSUME NEW v \in Writers, NEW g \in Hosts, NEW h \in Hosts, g # h
      PROVE  Unsaved(v)'[g].found \cap Unsaved(v)'[h].found = {}
  BY <1>1, <1>7 DEF Polled, TimesInv
<1>8. ASSUME NEW g \in Hosts, NEW h \in Hosts, Waiting("service", g)', Waiting("command", h)'
      PROVE  pending'[g].at # held'[h].at
  <2>1. /\ Unsaved("service")[g].at \in Int /\ Unsaved("command")[h].at \in Int
        /\ Unsaved("service")'[g].at \in Int /\ Unsaved("command")'[h].at \in Int
    BY <1>3, UnsavedType DEF Writers
  <2>2. CASE w = "service"
    <3>1. clock < pending'[g].at /\ held' = held /\ Waiting("command", h)
      BY <1>8, <2>2, <1>1, UnsavedIs DEF Polled, Writers, Waiting
    <3>2. held[h].at <= clock BY <3>1, UnsavedIs DEF TimesInv, Writers
    <3> QED BY <3>1, <3>2, <2>1, <1>1, UnsavedIs
  <2>3. CASE w = "command"
    <3>1. clock < held'[h].at /\ pending' = pending /\ Waiting("service", g)
      BY <1>8, <2>3, <1>1, UnsavedIs DEF Polled, Writers, Waiting
    <3>2. pending[g].at <= clock BY <3>1, UnsavedIs DEF TimesInv, Writers
    <3> QED BY <3>1, <3>2, <2>1, <1>1, UnsavedIs
  <2> QED BY <2>2, <2>3 DEF Writers
<1>9. TimesInv' BY <1>1, <1>4, <1>6, <1>7, <1>8 DEF TimesInv, Day
<1>10. FoldedInv' BY <1>1, <1>2, <1>5 DEF FoldedInv, NoDayIsSplit, Day
<1> QED BY <1>9, <1>10

LEMMA QuietTimes ==
  ASSUME WritersTypeOK, TimesInv, FoldedInv, Quiet
  PROVE  TimesInv' /\ FoldedInv'
<1>1. \A v \in Writers, h \in Hosts : /\ Waiting(v, h)' => Waiting(v, h) /\ Unsaved(v)'[h] = Unsaved(v)[h]
                                     /\ Unsaved(v)'[h].found \subseteq Unsaved(v)[h].found
  BY FewerWaiting DEF Quiet
<1>2. /\ UNCHANGED <<clock, samples, daily>>
      /\ \A g \in Hosts : hosts'[g].lastSuccess = hosts[g].lastSuccess
  BY DEF Quiet
<1>3. \A g, h \in Hosts : Waiting("service", g)' /\ Waiting("command", h)' => pending'[g].at # held'[h].at
  BY <1>1, UnsavedIs DEF Writers, TimesInv
<1>4. TimesInv' BY <1>1, <1>2, <1>3 DEF TimesInv, Day
<1>5. FoldedInv' BY <1>2 DEF FoldedInv, NoDayIsSplit, Day
<1> QED BY <1>4, <1>5

LEMMA CommitTimes ==
  ASSUME WritersTypeOK, TimesInv, FoldedInv, NEW w \in Writers, NEW h \in Hosts, CommitSuccess(w, h)
  PROVE  TimesInv' /\ FoldedInv'
<1> DEFINE result == Unsaved(w)[h]
<1>1. /\ Fewer /\ ~Waiting(w, h)' /\ Waiting(w, h)
      /\ UNCHANGED <<clock, daily>>
      /\ hosts'[h].lastSuccess = result.at
      /\ \A g \in Hosts : g # h => hosts'[g] = hosts[g]
  <2>1. Saved(w, h) /\ result.kind = "ok" BY DEF CommitSuccess
  <2>2. /\ Fewer /\ Unsaved(w)'[h] = NoResult
        /\ hosts'[h] = HostRowAfter(h, result)
        /\ \A g \in Hosts : g # h => hosts'[g] = hosts[g]
    BY <2>1, SavedFewer
  <2>3. UNCHANGED <<clock, daily>> BY <2>1 DEF Saved
  <2> QED BY <2>1, <2>2, <2>3, ConstantTypes DEF Waiting, HostRowAfter
<1>2. \A s \in samples' : s \in samples \/ (s.key \in result.found /\ s.ts = result.at)
  BY DEF CommitSuccess, SamplesAfter
<1>3. \A v \in Writers, g \in Hosts : /\ Waiting(v, g)' => Waiting(v, g) /\ Unsaved(v)'[g] = Unsaved(v)[g]
                                     /\ Unsaved(v)'[g].found \subseteq Unsaved(v)[g].found
  BY <1>1, FewerWaiting
<1>4. result.at <= clock BY <1>1 DEF TimesInv
\* The other writer holds no result of the same time.
<1>5. ASSUME NEW v \in Writers, NEW g \in Hosts, Waiting(v, g)', v # w
      PROVE  Unsaved(v)[g].at # result.at
  <2>1. Waiting(v, g) BY <1>3, <1>5
  <2> QED BY <1>1, <1>5, <2>1, UnsavedIs DEF Writers, TimesInv
\* The same writer holds results of other hosts, which have other disks.
<1>6. ASSUME NEW g \in Hosts, Waiting(w, g)'
      PROVE  g # h /\ Unsaved(w)[g].found \cap result.found = {}
  BY <1>1, <1>6 DEF TimesInv
<1>7. ASSUME NEW v \in Writers, NEW g \in Hosts, Waiting(v, g)'
      PROVE  /\ Unsaved(v)[g].at <= clock
             /\ Unsaved(v)[g].at # hosts'[g].lastSuccess
             /\ \A s \in samples' : s.key \in Unsaved(v)[g].found => s.ts # Unsaved(v)[g].at
             /\ \A d \in daily : d.day < Day(Unsaved(v)[g].at)
  <2>1. Waiting(v, g) BY <1>3, <1>7
  <2>2. Unsaved(v)[g].at # hosts'[g].lastSuccess
    BY <1>1, <1>5, <1>6, <1>7, <2>1 DEF TimesInv
  <2>3. \A s \in samples' : s.key \in Unsaved(v)[g].found => s.ts # Unsaved(v)[g].at
    BY <1>2, <1>5, <1>6, <1>7, <2>1 DEF TimesInv
  <2> QED BY <2>1, <2>2, <2>3 DEF TimesInv
<1>8. \A g, f \in Hosts : Waiting("service", g)' /\ Waiting("command", f)' => pending'[g].at # held'[f].at
  BY <1>3, UnsavedIs DEF Writers, TimesInv
<1>9. \A g \in Hosts : hosts'[g].lastSuccess <= clock BY <1>1, <1>4 DEF TimesInv
<1>10. \A s \in samples' : s.ts <= clock BY <1>2, <1>4 DEF TimesInv
<1>11. TimesInv' BY <1>1, <1>3, <1>7, <1>8, <1>9, <1>10 DEF TimesInv, Day
<1>12. ASSUME NEW s \in samples', NEW d \in daily, s.key = d.key PROVE Day(s.ts) # d.day
  <2>1. CASE s \in samples BY <2>1, <1>12 DEF FoldedInv, NoDayIsSplit
  <2>2. CASE s.ts = result.at
    <3>1. d.day < Day(s.ts) BY <2>2, <1>1 DEF TimesInv
    <3>2. d.day \in Int /\ result.at \in Int BY UnsavedType DEF WritersTypeOK, TypeOK, DayRow
    <3>3. Day(s.ts) \in Int BY <2>2, <3>2, DayType
    <3> QED BY <3>1, <3>2, <3>3
  <2> QED BY <2>1, <2>2, <1>2
<1>13. FoldedInv' BY <1>1, <1>12 DEF FoldedInv, NoDayIsSplit, Day
<1> QED BY <1>11, <1>13

\* The days that are kept go back to before anything that waits was collected.
LEMMA AtLeastOneDay ==
  ASSUME NEW now \in Nat, NEW at \in Nat, now <= at + DayLength
  PROVE  now - RetentionDays * DayLength \in Int /\ now - RetentionDays * DayLength <= at
<1>1. \A r \in Nat \ {0}, n \in Nat \ {0} : r * n \in Nat /\ n <= r * n BY SMTT(30)
<1>2. /\ RetentionDays * DayLength \in Nat /\ DayLength \in Nat
      /\ DayLength <= RetentionDays * DayLength
  BY <1>1, StorageAssumption
<1> DEFINE kept == RetentionDays * DayLength
<1> HIDE DEF kept
<1>3. kept \in Nat /\ DayLength \in Nat /\ DayLength <= kept BY <1>2 DEF kept
<1>4. now - kept \in Int /\ now - kept <= at BY <1>3
<1> QED BY <1>4 DEF kept

LEMMA FoldTimes ==
  ASSUME WritersTypeOK, TimesInv, FoldedInv, Prompt, ServiceFolds
  PROVE  TimesInv' /\ FoldedInv' /\ daily \subseteq daily'
<1>1. TypeOK /\ Rollup BY DEF WritersTypeOK, ServiceFolds
<1>2. DaysInv BY UnsavedIs DEF TimesInv, FoldedInv, DaysInv, Waiting, Writers
<1>3. DaysInv' /\ daily \subseteq daily' BY <1>1, <1>2, RollupDays
<1>4. /\ UNCHANGED <<clock, hosts, pending, held>> /\ samples' \subseteq samples
      /\ daily' \subseteq daily \cup Fold(Expired)
  BY DEF ServiceFolds, Rollup
<1>5. \A v \in Writers : Unsaved(v)' = Unsaved(v) BY <1>4, UnsavedIs DEF Writers
<1>6. ASSUME NEW v \in Writers, NEW h \in Hosts, Waiting(v, h), NEW d \in daily'
      PROVE  d.day < Day(Unsaved(v)[h].at)
  <2> DEFINE at == Unsaved(v)[h].at
             first == Day(clock - RetentionDays * DayLength)
  <2>1. CASE d \in daily BY <1>6, <2>1 DEF TimesInv
  <2>2. CASE d \in Fold(Expired)
    <3>1. at \in Nat /\ clock \in Nat /\ clock <= at + DayLength
      BY <1>1, <1>6, UnsavedType DEF TypeOK, Prompt, Waiting
    <3>2. first \in Int /\ Day(at) \in Int /\ first <= Day(at)
      <4> HIDE DEF at
      <4> QED BY <3>1, AtLeastOneDay, DayType, DayMonotone
    <3>3. d.day \in Int /\ d.day < first BY <1>1, <2>2, FoldedDays DEF DayRow
    <3> HIDE DEF at, first
    <3>4. d.day < Day(at) BY <3>2, <3>3
    <3> QED BY <3>4 DEF at
  <2> QED BY <2>1, <2>2, <1>4
<1>7. TimesInv'
  <2>1. \A v \in Writers, h \in Hosts : Waiting(v, h)' => Waiting(v, h) BY <1>5 DEF Waiting
  <2>2. /\ \A h \in Hosts : hosts'[h].lastSuccess <= clock'
        /\ \A s \in samples' : s.ts <= clock'
    BY <1>4 DEF TimesInv
  <2>3. ASSUME NEW v \in Writers, NEW h \in Hosts, Waiting(v, h)'
        PROVE  /\ Unsaved(v)'[h].at <= clock'
               /\ Unsaved(v)'[h].at # hosts'[h].lastSuccess
               /\ \A s \in samples' : s.key \in Unsaved(v)'[h].found => s.ts # Unsaved(v)'[h].at
               /\ \A d \in daily' : d.day < Day(Unsaved(v)'[h].at)
    BY <1>4, <1>5, <1>6, <2>1, <2>3 DEF TimesInv
  <2>4. \A v \in Writers : \A g, h \in Hosts :
          g # h => Unsaved(v)'[g].found \cap Unsaved(v)'[h].found = {}
    BY <1>5 DEF TimesInv
  <2>5. \A g, h \in Hosts :
          Waiting("service", g)' /\ Waiting("command", h)' => pending'[g].at # held'[h].at
    BY <1>4, <2>1 DEF TimesInv, Writers
  <2> QED BY <2>2, <2>3, <2>4, <2>5 DEF TimesInv, Day
<1>8. FoldedInv' BY <1>3 DEF DaysInv, FoldedInv
<1> QED BY <1>3, <1>7, <1>8

LEMMA TimesStep ==
  ASSUME WritersTypeOK, SteadyClock, TimesInv, FoldedInv, Prompt, [WritersNext]_twoVars
  PROVE  TimesInv' /\ FoldedInv' /\ daily \subseteq daily'
<1>1. ASSUME NEW w \in Writers, Polled(w) PROVE TimesInv' /\ FoldedInv' /\ daily \subseteq daily'
  BY <1>1, WritersNextType, PolledTimes DEF Polled
<1>2. ASSUME NEW w \in Writers, NEW h \in Hosts, CommitSuccess(w, h)
      PROVE  TimesInv' /\ FoldedInv' /\ daily \subseteq daily'
  BY <1>2, CommitTimes DEF CommitSuccess, Saved
<1>3. CASE ServiceFolds BY <1>3, FoldTimes
<1>4. CASE Quiet BY <1>4, QuietTimes DEF Quiet
<1> QED BY <1>1, <1>2, <1>3, <1>4, StepKinds

\* The inductive invariant behind everything that needs a clock that is not
\* set back.
WritersInv == WritersTypeOK /\ TimesInv /\ FoldedInv /\ Prompt

LEMMA WritersInvariant ==
  ASSUME SteadyClock
  PROVE  /\ WritersInit => WritersInv
         /\ WritersInv /\ [WritersNext]_twoVars => WritersInv'
<1>1. ASSUME WritersInit PROVE WritersInv
  <2>1. \A w \in Writers, h \in Hosts : ~Waiting(w, h) /\ Unsaved(w)[h].found = {}
    BY <1>1, ConstantTypes, UnsavedIs
    DEF WritersInit, Init, Writers, Waiting, NoResult, EmptyResult
  <2>2. clock \in Nat /\ samples = {} /\ daily = {} /\ \A h \in Hosts : hosts[h].lastSuccess = 0
    BY <1>1, StorageAssumption DEF WritersInit, Init, Never
  <2>3. TimesInv BY <2>1, <2>2 DEF TimesInv, Writers
  <2>4. FoldedInv BY <2>2 DEF FoldedInv, NoDayIsSplit
  <2>5. Prompt BY <2>1 DEF Prompt, Waiting
  <2> QED BY <1>1, <2>3, <2>4, <2>5, WritersInitType DEF WritersInv
<1>2. ASSUME WritersInv, [WritersNext]_twoVars PROVE WritersInv'
  BY <1>2, WritersNextType, TimesStep, PromptStep DEF WritersInv
<1> QED BY <1>1, <1>2

\* Even when a second process collects and saves, no day is ever rolled up half
\* at a time (storage.py, rollup): neither of them saves into a folded day.
THEOREM WritersNoDaySplit == ASSUME SteadyClock PROVE WritersSpec => []NoDayIsSplit
<1>1. WritersInv => NoDayIsSplit BY DEF WritersInv, FoldedInv
<1> QED BY <1>1, WritersInvariant, PTL DEF WritersSpec

\* And a folded day is final: no late result of the other process brings it
\* back to be folded again.
THEOREM WritersFoldedDaysStay == ASSUME SteadyClock PROVE WritersSpec => FoldedDayIsFinal
<1>1. WritersInv /\ [WritersNext]_twoVars => [daily \subseteq daily']_vars
  BY TimesStep DEF WritersInv
<1> QED BY <1>1, WritersInvariant, PTL DEF WritersSpec, FoldedDayIsFinal

-----------------------------------------------------------------------------
(* Severities *)

LEMMA WritersKeptStep ==
  ASSUME WritersInv, SteadyClock, KeptInv, [WritersNext]_twoVars PROVE KeptInv'
<1>1. ASSUME NEW w \in Writers, NEW h \in Hosts, CommitSuccess(w, h) PROVE KeptInv'
  <2>1. Waiting(w, h) BY <1>1 DEF CommitSuccess, NextUnsaved, Waiting
  <2>2. \A s \in samples : s.key \in Unsaved(w)[h].found => s.ts # Unsaved(w)[h].at
    BY <2>1 DEF WritersInv, TimesInv
  <2> QED BY <1>1, <2>2, RecordedKept DEF CommitSuccess, Saved, WritersInv, WritersTypeOK
<1>2. CASE ServiceFolds
  <2>1. daily \subseteq daily' BY TimesStep DEF WritersInv
  <2>2. /\ TypeOK /\ Rollup /\ \A s \in samples : s.ts <= clock
        /\ UNCHANGED statusLog
    BY <1>2 DEF ServiceFolds, Rollup, WritersInv, WritersTypeOK, TimesInv
  <2> QED BY <2>1, <2>2, KeptWhenFolded DEF KeptInv
<1>3. CASE Quiet \/ \E w \in Writers : Polled(w)
  <2>1. UNCHANGED <<samples, daily, statusLog>> BY <1>3 DEF Quiet, Polled
  <2> QED BY <2>1 DEF KeptInv, Kept, Day
<1> QED BY <1>1, <1>2, <1>3, StepKinds DEF WritersInv

\* No severity that was announced is hidden by folding (storage.py, rollup) or
\* replaced by a sample of the other process (save: INSERT OR REPLACE).
THEOREM WritersNoSeverityLost == ASSUME SteadyClock PROVE WritersSpec => []NoSeverityIsForgotten
<1>1. WritersInit => KeptInv BY DEF WritersInit, Init, KeptInv
<1>2. WritersInv /\ KeptInv /\ [WritersNext]_twoVars => KeptInv' BY WritersKeptStep
<1>3. KeptInv => NoSeverityIsForgotten BY DEF KeptInv, Kept, NoSeverityIsForgotten
<1> QED BY <1>1, <1>2, <1>3, WritersInvariant, PTL DEF WritersSpec

-----------------------------------------------------------------------------
(* Status events *)

LEMMA WritersStampedStep ==
  ASSUME WritersTypeOK, WaitingStamped, [WritersNext]_twoVars PROVE WaitingStamped'
<1>1. CASE ServiceCollects
  <2>1. Stamped' /\ held' = held
    BY <1>1, CollectStamped DEF ServiceCollects, WritersTypeOK
  <2> QED BY <2>1, UnsavedIs DEF Stamped, WaitingStamped, Waiting, Writers
<1>2. CASE CommandCollects
  <2>1. CommandCollects /\ Polled("command") BY <1>2, CommandPolled
  <2>2. clock \in Nat BY DEF WritersTypeOK, TypeOK
  <2>3. \A h \in Hosts : Waiting("command", h)' => held'[h].at \in Int
    BY WritersNextType, UnsavedIs DEF WritersTypeOK, Result
  <2>4. \A h \in Hosts : Waiting("command", h)' => held'[h].at > 0
    BY <2>1, <2>2, <2>3, UnsavedIs DEF Polled
  <2>5. pending' = pending BY <1>2 DEF CommandCollects
  <2> QED BY <2>4, <2>5, UnsavedIs DEF WaitingStamped, Waiting, Writers, Never
<1>3. ASSUME Fewer PROVE WaitingStamped'
  BY <1>3, FewerWaiting DEF WaitingStamped
<1>4. ASSUME NEW w \in Writers, NEW h \in Hosts, CommitSuccess(w, h) \/ CommitFailure(w, h)
      PROVE  WaitingStamped'
  BY <1>3, <1>4, SavedFewer DEF CommitSuccess, CommitFailure
<1>5. CASE ServiceStops \/ CommandStops BY <1>3, <1>5, StopsFewer
<1>6. CASE ServiceFolds \/ UNCHANGED twoVars \/ \E w \in Writers : ReadPrevious(w)
  <2>1. UNCHANGED <<pending, held>>
    BY <1>6 DEF ServiceFolds, Rollup, twoVars, vars, ReadPrevious
  <2> QED BY <1>3, <2>1, IdleFewer
<1> QED BY <1>1, <1>2, <1>4, <1>5, <1>6 DEF WritersNext

LEMMA WritersStoryStep ==
  ASSUME WritersTypeOK, WaitingStamped, NEW k \in Keys, Story(k), [WritersNext]_twoVars
  PROVE  Story(k)'
<1>1. ASSUME NEW w \in Writers, NEW h \in Hosts, CommitSuccess(w, h) PROVE Story(k)'
  <2>1. Unsaved(w)[h] \in Result /\ TypeOK BY UnsavedType DEF WritersTypeOK
  <2>2. Unsaved(w)[h].at > Never
    BY <1>1 DEF CommitSuccess, NextUnsaved, WaitingStamped, Waiting
  <2>3. /\ disks'[k] = DiskRowAfter(k, h, Unsaved(w)[h])
        /\ statusLog'[k] = StatusLogAfter(k, Unsaved(w)[h])
    BY <1>1 DEF CommitSuccess
  <2> QED BY <2>1, <2>2, <2>3, RecordedStory
<1>2. CASE ~\E w \in Writers, h \in Hosts : CommitSuccess(w, h)
  <2>1. UNCHANGED <<disks, statusLog>>
    BY <1>2 DEF WritersNext, twoVars, vars, ServiceCollects, Collect, CommandCollects, ReadPrevious,
                CommitFailure, ServiceFolds, Rollup, ServiceStops, Abandon, CommandStops
  <2> QED BY <2>1, QuietStory
<1> QED BY <1>1, <1>2

\* The events of a disk tell its whole story (storage.py, save) even when two
\* processes write it, in any order and with any clock: the old status is read
\* inside the transaction.
THEOREM WritersStatusLog == WritersSpec => []StatusLogIsComplete
<1> DEFINE Inv == WritersTypeOK /\ WaitingStamped /\ \A k \in Keys : Story(k)
<1>1. WritersInit => Inv
  <2> SUFFICES ASSUME WritersInit PROVE Inv OBVIOUS
  <2>1. WaitingStamped
    BY ConstantTypes, UnsavedIs DEF WritersInit, Init, WaitingStamped, Waiting, Writers
  <2>2. \A k \in Keys : Story(k) BY DEF WritersInit, Init, Story, Known, NoRow
  <2> QED BY <2>1, <2>2, WritersInitType
<1>2. Inv /\ [WritersNext]_twoVars => Inv'
  <2> SUFFICES ASSUME Inv, [WritersNext]_twoVars PROVE Inv' OBVIOUS
  <2> QED BY WritersNextType, WritersStampedStep, WritersStoryStep
<1>3. Inv => StatusLogIsComplete BY DEF StatusLogIsComplete, Story
<1> QED BY <1>1, <1>2, <1>3, PTL DEF WritersSpec

-----------------------------------------------------------------------------
(* Missing and returned *)

\* A transaction that decides with the last success that is still there decides
\* as save does.
LEMMA DecidingPresence ==
  ASSUME TypeOK, NEW h \in Hosts, NEW result, NEW k \in Keys
  PROVE  Deciding(h, hosts[h].lastSuccess)!PresenceAfter(k, h, result) = PresenceAfter(k, h, result)
<1>1. [hosts EXCEPT ![h].lastSuccess = hosts[h].lastSuccess] = hosts BY DEF TypeOK, HostRow
<1> QED BY <1>1 DEF Deciding!PresenceAfter, Deciding!Gone, Deciding!Back, Deciding!Known,
                    Deciding!Never, PresenceAfter, Gone, Back, Known, Never

LEMMA HomesStep ==
  ASSUME WritersTypeOK, SteadyWorld, excluded \in ExcludeChoices, HomesInv, [WritersNext]_twoVars
  PROVE  HomesInv' /\ excluded' = excluded
<1>1. excluded' = excluded
  BY StepKinds DEF SteadyWorld, FixedConfig, Polled, CommitSuccess, Saved, ServiceFolds, Rollup, Quiet
<1>2. ASSUME NEW w \in Writers, Polled(w) PROVE HomesInv'
  <2>1. \A k \in Keys, h \in Hosts : h \in Homes[k] => Homes[k] = {h}
    BY DEF SteadyWorld, SingleHome
  <2>2. ASSUME NEW v \in Writers, NEW h \in Hosts, Waiting(v, h)'
        PROVE  /\ Unsaved(v)'[h].excluded \subseteq excluded
               /\ \A k \in Unsaved(v)'[h].found : Homes[k] = {h} /\ k \notin excluded
    <3>1. CASE v = w BY <1>2, <2>1, <2>2, <3>1 DEF Polled
    <3>2. CASE v # w BY <1>2, <2>2, <3>2 DEF Polled, HomesInv, Waiting
    <3> QED BY <3>1, <3>2
  <2> QED BY <1>1, <2>2 DEF HomesInv
<1>3. ASSUME Fewer PROVE HomesInv'
  BY <1>1, <1>3, FewerWaiting DEF HomesInv
<1>4. ASSUME NEW w \in Writers, NEW h \in Hosts, CommitSuccess(w, h) PROVE HomesInv'
  BY <1>3, <1>4, SavedFewer DEF CommitSuccess
<1>5. CASE ServiceFolds BY <1>3, <1>5, IdleFewer DEF ServiceFolds, Rollup
<1>6. CASE Quiet BY <1>1, <1>3, <1>6 DEF Quiet
<1> QED BY <1>1, <1>2, <1>4, <1>5, <1>6, StepKinds DEF SteadyWorld

\* A step that records nothing leaves the tables as they are shown.
LEMMA QuietSteady ==
  ASSUME KnownSteady, PresenceAlternates, MissingIffAnnounced,
         UNCHANGED <<excluded, disks, presence>>,
         \A g \in Hosts : hosts'[g].lastSuccess = hosts[g].lastSuccess
  PROVE  KnownSteady' /\ PresenceAlternates' /\ MissingIffAnnounced'
<1>1. \A k \in Keys : Known(k) => disks[k].host \in Hosts
  BY StorageAssumption DEF KnownSteady
<1>2. KnownSteady' BY <1>1 DEF KnownSteady, Known
<1>3. PresenceAlternates' BY DEF PresenceAlternates
<1>4. ASSUME NEW k \in Keys PROVE ShownMissing(k)' <=> Outstanding(k)'
  <2>1. ShownMissing(k)' <=> ShownMissing(k) BY <1>1 DEF ShownMissing, Known
  <2> QED BY <2>1 DEF MissingIffAnnounced, Outstanding
<1> QED BY <1>2, <1>3, <1>4 DEF MissingIffAnnounced

\* A save that is not raced records a result that is newer than the last one.
LEMMA UnracedSave ==
  ASSUME WritersInv, HomesInv, NEW w \in Writers, NEW h \in Hosts, CommitSuccess(w, h), ~raced'
  PROVE  Recorded(h, Unsaved(w)[h]) /\ Timely(h, Unsaved(w)[h])
<1> DEFINE result == Unsaved(w)[h]
<1>1. /\ TypeOK /\ result \in Result /\ result.at \in Nat
      /\ hosts[h].lastSuccess \in Nat
  BY UnsavedType DEF WritersInv, WritersTypeOK, TypeOK, HostRow
<1>2. Waiting(w, h) /\ result.kind = "ok" BY DEF CommitSuccess, NextUnsaved, Waiting
<1>3. previous[w] = hosts[h].lastSuccess /\ ~(result.at < hosts[h].lastSuccess)
  BY DEF CommitSuccess
<1>4. hosts[h].lastSuccess < result.at
  BY <1>1, <1>2, <1>3 DEF WritersInv, TimesInv
<1>5. \A k \in Keys : presence'[k] = PresenceAfter(k, h, result)
  BY <1>1, <1>3, DecidingPresence DEF CommitSuccess
<1>6. Recorded(h, result)
  BY <1>1, <1>2, <1>5, RecordedRows DEF CommitSuccess, Saved
<1>7. Timely(h, result) BY <1>2, <1>4 DEF Timely, HomesInv
<1> QED BY <1>6, <1>7

LEMMA SteadyStep ==
  ASSUME WritersInv, SteadyWorld, excluded \in ExcludeChoices, HomesInv, SteadyInv,
         [WritersNext]_twoVars
  PROVE  SteadyInv'
<1> SUFFICES ASSUME ~raced' PROVE KnownSteady' /\ PresenceAlternates' /\ MissingIffAnnounced'
  BY DEF SteadyInv
<1>1. excluded' = excluded BY HomesStep DEF WritersInv
<1>2. ASSUME NEW w \in Writers, NEW h \in Hosts, CommitSuccess(w, h)
      PROVE  KnownSteady' /\ PresenceAlternates' /\ MissingIffAnnounced'
  <2>1. KnownSteady /\ PresenceAlternates /\ MissingIffAnnounced
    BY <1>2 DEF CommitSuccess, SteadyInv
  <2>2. Recorded(h, Unsaved(w)[h]) /\ Timely(h, Unsaved(w)[h]) BY <1>2, UnracedSave
  <2>3. TypeOK /\ TypeOK' BY WritersNextType DEF WritersInv, WritersTypeOK
  <2>4. KnownSteady' BY <1>1, <2>1, <2>2, <2>3, RecordedKnown
  <2>5. PresenceAlternates' /\ MissingIffAnnounced'
    BY <2>1, <2>2, <2>3, RecordedPresence DEF PresenceAlternates, MissingIffAnnounced
  <2> QED BY <2>4, <2>5
<1>3. CASE Quiet \/ ServiceFolds \/ \E w \in Writers : Polled(w)
  <2>1. /\ UNCHANGED <<disks, presence, raced>>
        /\ \A g \in Hosts : hosts'[g].lastSuccess = hosts[g].lastSuccess
    BY <1>3 DEF Quiet, ServiceFolds, Rollup, Polled
  <2> QED BY <1>1, <2>1, QuietSteady DEF SteadyInv
<1> QED BY <1>2, <1>3, StepKinds DEF WritersInv, SteadyWorld

\* Two processes that save in turn keep what one process promises: a disk is
\* announced missing once, and exactly while the API shows it missing.  All that
\* can break this is one save that another one overtakes (storage.py, save: the
\* last success is read before the transaction).
THEOREM PresenceCorrectUnlessRaced ==
  ASSUME SteadyWorld
  PROVE  WritersSpec => []PresenceUnlessRaced
<1> DEFINE Inv == WritersInv /\ excluded \in ExcludeChoices /\ HomesInv /\ SteadyInv
<1>1. WritersInit => Inv
  <2> SUFFICES ASSUME WritersInit PROVE Inv OBVIOUS
  <2>1. HomesInv BY ConstantTypes, UnsavedIs DEF WritersInit, Init, HomesInv, Waiting, Writers
  <2>2. \A k \in Keys : ~Known(k) /\ presence[k] = <<>> BY DEF WritersInit, Init, Known, NoRow
  <2>3. SteadyInv
    BY <2>2 DEF SteadyInv, KnownSteady, PresenceAlternates, MissingIffAnnounced, ShownMissing,
                Outstanding
  <2> QED BY <2>1, <2>3, WritersInvariant DEF WritersInit, Init, SteadyWorld
<1>2. Inv /\ [WritersNext]_twoVars => Inv'
  <2> SUFFICES ASSUME Inv, [WritersNext]_twoVars PROVE Inv' OBVIOUS
  <2>1. WritersInv' BY WritersInvariant DEF SteadyWorld
  <2>2. HomesInv' /\ excluded' = excluded BY HomesStep DEF WritersInv
  <2>3. SteadyInv' BY SteadyStep
  <2> QED BY <2>1, <2>2, <2>3
<1>3. Inv => PresenceUnlessRaced BY DEF SteadyInv, PresenceUnlessRaced
<1> QED BY <1>1, <1>2, <1>3, PTL DEF WritersSpec

-----------------------------------------------------------------------------
(*              Answers of the web API (ApiReads): any number of hosts     *)
(*              and disks, of polls, saves and rollups between the reads   *)
-----------------------------------------------------------------------------

\* A stored disk sits at a configured host.
Placed == \A k \in Keys : Known(k) => disks[k].host \in Hosts

ReadsTypeOK == success \in [Hosts -> Nat] /\ seen \in [Keys -> Nat] /\ asked \subseteq Keys

(* A disk that has been missing since the request began has not been seen    *)
(* since, so whatever was read about it is what the tables still say.        *)
ToldInv ==
  /\ request # "none" => always \subseteq MissingNow
  /\ request \in {"state hosts", "state seen"} => asked = Listed
  /\ request = "state hosts" => \A k \in always : disks[k].lastSeen < success[disks[k].host]
  /\ request = "state seen" => \A k \in always : seen[k] < success[disks[k].host]
  /\ request = "detail disk" => \A k \in asked \cap always : host = disks[k].host
  /\ request = "detail hosts" => \A k \in asked \cap always :
       host = disks[k].host /\ disks[k].lastSeen < success[host]
  /\ MissingIsTold

(* A disk stays at its host, and no result that is still to be saved is      *)
(* older than the rows of the disks it has.                                  *)
RowsInv ==
  /\ \A k \in Keys : Known(k) => Homes[k] = {disks[k].host}
  /\ \A k \in Keys : disks[k].lastSeen <= clock
  /\ \A h \in Hosts : pending[h].kind # "none" =>
       /\ pending[h].at <= clock
       /\ \A k \in pending[h].found : Homes[k] = {h} /\ disks[k].lastSeen < pending[h].at

(* What has been read about a disk makes it look missing only if it was.     *)
Looks(k, at, last) == success[at] # Never /\ last < success[at] => k \in ever

TrueInv ==
  /\ request # "none" => MissingNow \subseteq ever /\ known \subseteq KnownNow
  /\ request # "done" => shown = {}
  /\ request = "state hosts" => \A k \in known : Looks(k, disks[k].host, disks[k].lastSeen)
  /\ request = "state seen" => \A k \in known : Looks(k, disks[k].host, seen[k])
  /\ request = "detail disk" => \A k \in asked : k \in KnownNow /\ host = disks[k].host
  /\ request = "detail hosts" => \A k \in asked :
       /\ k \in KnownNow /\ host = disks[k].host
       /\ Looks(k, host, disks[k].lastSeen)
  /\ MissingWasTrue

-----------------------------------------------------------------------------
(* Missing disks are shown *)

LEMMA LaterIsNotNever == ASSUME NEW s \in Nat, NEW t \in Nat, s < t PROVE t # Never
BY DEF Never

LEMMA LaterIsLess ==
  ASSUME NEW a \in Nat, NEW b \in Nat, NEW c \in Nat, a <= b, b < c PROVE a < c
OBVIOUS

(* A disk that is missing after a step was not seen by it. *)
LEMMA NotSeenAgain ==
  ASSUME TypeOK, Next, NEW k \in Keys, ShownMissing(k)'
  PROVE  disks'[k] = disks[k]
<1>1. ASSUME NEW h \in Hosts, SaveSuccess(h) PROVE disks'[k] = disks[k]
  <2>1. CASE k \in pending[h].found
    <3>1. disks'[k].lastSeen = pending[h].at /\ hosts'[disks'[k].host].lastSuccess = pending[h].at
      BY <1>1, <2>1, SaveSuccessRows DEF Recorded
    <3>2. pending[h].at \in Nat
      BY DEF TypeOK, Result
    <3> QED BY <3>1, <3>2 DEF ShownMissing
  <2>2. CASE k \notin pending[h].found BY <1>1, <2>2, SaveSuccessRows DEF Recorded
  <2> QED BY <2>1, <2>2
<1>2. CASE ~\E h \in Hosts : SaveSuccess(h)
  BY <1>2 DEF Next, Collect, SaveFailure, Rollup, Abandon
<1> QED BY <1>1, <1>2

LEMMA PlacedStep == ASSUME TypeOK, Placed, [Next]_vars PROVE Placed'
<1>1. ASSUME NEW h \in Hosts, SaveSuccess(h) PROVE Placed'
  BY <1>1, SaveSuccessRows DEF Recorded, Placed, Known
<1>2. CASE ~\E h \in Hosts : SaveSuccess(h)
  BY <1>2 DEF Placed, Known, Next, vars, Collect, SaveFailure, Rollup, Abandon
<1> QED BY <1>1, <1>2

LEMMA ReadsTypeStep ==
  ASSUME TypeOK, ReadsTypeOK, [ApiNext]_apiVars PROVE ReadsTypeOK'
<1> USE DEF ReadsTypeOK
<1>1. SuccessNow \in [Hosts -> Nat] /\ SeenNow \in [Keys -> Nat]
  BY DEF SuccessNow, SeenNow, TypeOK, HostRow, DiskRow
<1>2. CASE Answered BY <1>2 DEF Answered, Never
<1>3. CASE SchedulerStep \/ UNCHANGED apiVars BY <1>3 DEF SchedulerStep, readVars, apiVars
<1>4. CASE StateReadsHosts \/ StateReadsLastSeen \/ StateReadsDisks
  BY <1>1, <1>4 DEF StateReadsHosts, StateReadsLastSeen, StateReadsDisks, Listed
<1>5. CASE DetailReadsHosts \/ DetailReadsLastSeen \/ \E k \in Keys : DetailReadsDisk(k)
  BY <1>1, <1>5 DEF DetailReadsHosts, DetailReadsLastSeen, DetailReadsDisk
<1> QED BY <1>2, <1>3, <1>4, <1>5 DEF ApiNext

\* Between two reads nothing changes about the disks that stay missing.
LEMMA ToldSchedulerStep ==
  ASSUME TypeOK, ToldInv, SchedulerStep PROVE ToldInv'
<1>1. /\ UNCHANGED <<request, success, seen, asked, host, shown, known>>
      /\ always' = always \cap MissingNow'
      /\ request # "none" => excluded' = excluded
  BY DEF SchedulerStep, readVars
<1>2. \A k \in always' : k \in Keys /\ k \in always /\ disks'[k] = disks[k]
  BY <1>1, NotSeenAgain DEF SchedulerStep, MissingNow
<1>3. request # "none" => Listed' = Listed BY <1>1 DEF Listed
<1> QED BY <1>1, <1>2, <1>3 DEF ToldInv, MissingIsTold

LEMMA ToldStep ==
  ASSUME TypeOK, Placed, ReadsTypeOK, ToldInv, [ApiNext]_apiVars PROVE ToldInv'
<1> USE DEF ToldInv
<1>1. \A k \in MissingNow : /\ k \in Keys /\ Known(k) /\ disks[k].host \in Hosts
                            /\ disks[k].lastSeen < hosts[disks[k].host].lastSuccess
                            /\ disks[k].lastSeen \in Nat
                            /\ hosts[disks[k].host].lastSuccess \in Nat
  BY DEF MissingNow, ShownMissing, Placed, TypeOK, HostRow, DiskRow
<1>2. UNCHANGED vars => MissingNow' = MissingNow /\ Listed' = Listed
  BY DEF vars, MissingNow, ShownMissing, Known, Listed
<1>3. CASE SchedulerStep BY <1>3, ToldSchedulerStep
<1>4. CASE StateReadsHosts
  BY <1>1, <1>2, <1>4 DEF StateReadsHosts, Begin, SuccessNow, MissingIsTold, vars
<1>5. CASE StateReadsLastSeen
  BY <1>1, <1>2, <1>5 DEF StateReadsLastSeen, SeenNow, moments, MissingIsTold, vars
<1>6. CASE StateReadsDisks
  <2>1. ASSUME NEW k \in asked, k \in always
        PROVE  k \in shown'
    <3>1. k \in KnownNow \cap Listed BY <1>1, <1>6, <2>1 DEF StateReadsDisks, KnownNow
    <3>2. seen[k] < success[disks[k].host] BY <1>6, <2>1 DEF StateReadsDisks
    <3>3. seen[k] \in Nat /\ success[disks[k].host] \in Nat
      BY <1>1, <1>6, <2>1 DEF ReadsTypeOK, StateReadsDisks
    <3>4. success[disks[k].host] # Never BY <3>2, <3>3, LaterIsNotNever
    <3> QED BY <1>6, <3>1, <3>2, <3>4, Zenon DEF StateReadsDisks
  <2>2. /\ request' = "done" /\ UNCHANGED <<vars, asked, always, known>>
    BY <1>6 DEF StateReadsDisks, moments
  <2>3. MissingIsTold' BY <2>1, <2>2 DEF MissingIsTold
  <2>4. always' \subseteq MissingNow' BY <1>2, <1>6, <2>2 DEF StateReadsDisks
  <2> QED BY <2>2, <2>3, <2>4
<1>7. ASSUME NEW d \in Keys, DetailReadsDisk(d) PROVE ToldInv'
  BY <1>2, <1>7 DEF DetailReadsDisk, Begin, MissingIsTold, vars
<1>8. CASE DetailReadsHosts
  BY <1>1, <1>2, <1>8 DEF DetailReadsHosts, SuccessNow, moments, MissingIsTold, vars
<1>9. CASE DetailReadsLastSeen
  <2>1. ASSUME NEW k \in asked, k \in always
        PROVE  k \in shown'
    <3>1. /\ SeenNow[k] < success[host]
          /\ SeenNow[k] \in Nat /\ success[host] \in Nat
      BY <1>1, <1>9, <2>1 DEF DetailReadsLastSeen, SeenNow, ReadsTypeOK
    <3>2. success[host] # Never BY <3>1, LaterIsNotNever
    <3> QED BY <1>9, <2>1, <3>1, <3>2, Zenon DEF DetailReadsLastSeen
  <2>2. /\ request' = "done" /\ UNCHANGED <<vars, asked, always, known>>
    BY <1>9 DEF DetailReadsLastSeen, moments
  <2>3. MissingIsTold' BY <2>1, <2>2 DEF MissingIsTold
  <2>4. always' \subseteq MissingNow' BY <1>2, <1>9, <2>2 DEF DetailReadsLastSeen
  <2> QED BY <2>2, <2>3, <2>4
<1>10. CASE Answered BY <1>10 DEF Answered, MissingIsTold
<1>11. CASE UNCHANGED apiVars
  BY <1>2, <1>11 DEF apiVars, readVars, moments, MissingIsTold, vars
<1> QED BY <1>3, <1>4, <1>5, <1>6, <1>7, <1>8, <1>9, <1>10, <1>11 DEF ApiNext

(* Whatever the service saves and folds while a request reads one table      *)
(* after the other (api.py, state and disk_detail), a disk that is missing   *)
(* all the while is called missing: in any world, also if disks move, the    *)
(* clock is set back or the configuration changes between requests.          *)
THEOREM MissingTold == ApiSpec => []MissingIsTold
<1> DEFINE Inv == TypeOK /\ Placed /\ ReadsTypeOK /\ ToldInv
<1>1. ApiInit => Inv
  <2> SUFFICES ASSUME ApiInit PROVE Inv OBVIOUS
  <2>1. TypeOK BY InitType DEF ApiInit
  <2>2. Placed BY DEF ApiInit, Init, Placed, Known, NoRow
  <2>3. ReadsTypeOK BY DEF ApiInit, ReadsTypeOK, Never
  <2>4. ToldInv BY DEF ApiInit, ToldInv, MissingIsTold
  <2> QED BY <2>1, <2>2, <2>3, <2>4
<1>2. Inv /\ [ApiNext]_apiVars => Inv'
  <2> SUFFICES ASSUME Inv, [ApiNext]_apiVars PROVE Inv' OBVIOUS
  <2>1. [Next]_vars
    BY DEF ApiNext, apiVars, SchedulerStep, StateReadsHosts, StateReadsLastSeen, StateReadsDisks,
           DetailReadsDisk, DetailReadsHosts, DetailReadsLastSeen, Answered
  <2> QED BY <2>1, NextType, PlacedStep, ReadsTypeStep, ToldStep
<1>3. Inv => MissingIsTold BY DEF ToldInv
<1> QED BY <1>1, <1>2, <1>3, PTL DEF ApiSpec

-----------------------------------------------------------------------------
(* Nothing else is *)

LEMMA RowsCollect ==
  ASSUME TypeOK, Stamped, SingleHome, SteadyClock, RowsInv, Collect PROVE RowsInv'
<1>1. PICK gap \in Gaps, placed \in Placements, reachable \in SUBSET Hosts,
           status \in [Keys -> Statuses], at \in [Hosts -> 1..Span] :
         pending' = [h \in Hosts |-> Collected(h, clock + gap + at[h], reachable, placed, status)]
  BY DEF Collect
<1>2. \A h \in Hosts : \A k \in pending'[h].found : k \in Keys /\ placed[k] = h
  BY <1>1 DEF Collected, EmptyResult
<1>3. \A h \in Hosts, k \in Keys : placed[k] = h => Homes[k] = {h}
  BY DEF Placements, SingleHome, Hosts
<1>4. UNCHANGED disks BY DEF Collect
<1>5. TypeOK' BY CollectType
<1>6. /\ clock \in Nat /\ clock' \in Nat
      /\ \A k \in Keys : disks[k].lastSeen \in Nat
      /\ \A h \in Hosts : pending'[h].at \in Nat
  BY <1>4, <1>5 DEF TypeOK, DiskRow, Result
<1>7. \A k \in Keys : /\ disks[k].lastSeen <= clock'
                     /\ \A h \in Hosts : disks[k].lastSeen < pending'[h].at
  BY <1>6, CollectTimes DEF RowsInv
<1>8. \A h \in Hosts : pending'[h].at <= clock' BY CollectTimes
<1> QED BY <1>2, <1>3, <1>4, <1>7, <1>8 DEF RowsInv, Known

LEMMA RowsSave ==
  ASSUME TypeOK, RowsInv, NEW h \in Hosts, SaveSuccess(h) PROVE RowsInv'
<1>1. /\ UNCHANGED clock
      /\ \A g \in Hosts : pending'[g] = IF g = h THEN NoResult ELSE pending[g]
  BY DEF SaveSuccess, TypeOK
<1>2. /\ pending[h].at <= clock
      /\ \A k \in pending[h].found : Homes[k] = {h}
  BY SaveSuccessRows DEF Recorded, RowsInv
<1>3. ASSUME NEW k \in Keys
      PROVE  /\ Known(k)' => Homes[k] = {disks'[k].host}
             /\ disks'[k].lastSeen <= clock
             /\ disks'[k] = disks[k] \/ Homes[k] = {h}
  <2>1. CASE k \in pending[h].found BY <1>2, <2>1, SaveSuccessRows DEF Recorded
  <2>2. CASE k \notin pending[h].found BY <2>2, SaveSuccessRows DEF Recorded, RowsInv, Known
  <2> QED BY <2>1, <2>2
<1>4. ASSUME NEW g \in Hosts, pending'[g].kind # "none"
      PROVE  /\ pending'[g].at <= clock
             /\ \A k \in pending'[g].found : Homes[k] = {g} /\ disks'[k].lastSeen < pending'[g].at
  <2>1. g # h /\ pending'[g] = pending[g] BY <1>1, <1>4, ConstantTypes
  <2>2. ASSUME NEW k \in pending[g].found
        PROVE  Homes[k] = {g} /\ disks'[k].lastSeen < pending[g].at
    <3>1. k \in Keys BY DEF TypeOK, Result
    <3>2. Homes[k] = {g} /\ disks[k].lastSeen < pending[g].at
      BY <1>4, <2>1 DEF RowsInv
    <3>3. disks'[k] = disks[k] BY <1>3, <2>1, <3>1, <3>2
    <3> QED BY <3>2, <3>3
  <2> QED BY <1>4, <2>1, <2>2 DEF RowsInv
<1> QED BY <1>1, <1>3, <1>4 DEF RowsInv

LEMMA RowsStep ==
  ASSUME TypeOK, Stamped, SingleHome, SteadyClock, RowsInv, [Next]_vars PROVE RowsInv'
<1>1. CASE Collect BY <1>1, RowsCollect
<1>2. ASSUME NEW h \in Hosts, SaveSuccess(h) PROVE RowsInv' BY <1>2, RowsSave
<1>3. ASSUME NEW h \in Hosts, SaveFailure(h) PROVE RowsInv'
  <2>1. \A g \in Hosts : pending'[g].kind # "none" => pending'[g] = pending[g]
    BY <1>3, ConstantTypes DEF SaveFailure, TypeOK
  <2> QED BY <1>3, <2>1 DEF SaveFailure, RowsInv, Known
<1>4. CASE Rollup BY <1>4 DEF Rollup, RowsInv, Known
<1>5. CASE Abandon BY <1>5, ConstantTypes DEF Abandon, RowsInv, Known
<1>6. CASE UNCHANGED vars BY <1>6 DEF vars, RowsInv, Known
<1> QED BY <1>1, <1>2, <1>3, <1>4, <1>5, <1>6 DEF Next

(* A disk that is known stays known, at its host, and is never seen earlier. *)
LEMMA SeenLater ==
  ASSUME TypeOK, Stamped, RowsInv, [Next]_vars, NEW k \in Keys, Known(k)
  PROVE  /\ Known(k)' /\ disks'[k].host = disks[k].host
         /\ disks[k].lastSeen <= disks'[k].lastSeen
<1>1. disks[k].lastSeen \in Nat BY DEF TypeOK, DiskRow
<1>2. ASSUME NEW h \in Hosts, SaveSuccess(h), k \in pending[h].found
      PROVE  /\ Known(k)' /\ disks'[k].host = disks[k].host
             /\ disks[k].lastSeen <= disks'[k].lastSeen
  <2>1. /\ Homes[k] = {h} /\ Homes[k] = {disks[k].host}
        /\ disks[k].lastSeen < pending[h].at /\ pending[h].at > Never
        /\ pending[h].at \in Nat
    BY <1>2, SaveSuccessRows DEF Recorded, RowsInv, Stamped, TypeOK, Result
  <2>2. disks'[k].host = h /\ disks'[k].lastSeen = pending[h].at BY <1>2, SaveSuccessRows DEF Recorded
  <2> QED BY <1>1, <2>1, <2>2 DEF Known, Never
<1>3. CASE ~\E h \in Hosts : SaveSuccess(h) /\ k \in pending[h].found
  <2>1. disks'[k] = disks[k]
    BY <1>3, SaveSuccessRows DEF Recorded, Next, vars, Collect, SaveFailure, Rollup, Abandon
  <2> QED BY <1>1, <2>1 DEF Known
<1> QED BY <1>2, <1>3

LEMMA TrueSchedulerStep ==
  ASSUME TypeOK, Stamped, RowsInv, ReadsTypeOK, Placed, TrueInv, SchedulerStep PROVE TrueInv'
<1>1. /\ UNCHANGED <<request, success, seen, asked, host, shown, known>>
      /\ request # "none" => ever' = ever \cup MissingNow'
      /\ Next
  BY DEF SchedulerStep, readVars
<1>2. CASE request = "none" BY <1>1, <1>2 DEF TrueInv, MissingWasTrue
<1>3. CASE request # "none"
  <2>1. ever \subseteq ever' /\ MissingNow' \subseteq ever' BY <1>1, <1>3
  <2>2. ASSUME NEW k \in KnownNow
        PROVE  /\ k \in KnownNow' /\ k \in Keys /\ disks'[k].host = disks[k].host
               /\ disks[k].lastSeen <= disks'[k].lastSeen
               /\ disks[k].host \in Hosts
    BY <1>1, SeenLater DEF KnownNow, Placed
  <2>3. ASSUME NEW k \in KnownNow, NEW at \in Hosts, Looks(k, at, disks[k].lastSeen)
        PROVE  Looks(k, at, disks[k].lastSeen)'
    <3>1. /\ disks[k].lastSeen \in Nat /\ disks'[k].lastSeen \in Nat /\ success[at] \in Nat
          /\ success' = success
      BY <1>1, <2>2, NextType DEF TypeOK, DiskRow, ReadsTypeOK
    <3> QED BY <2>1, <2>2, <2>3, <3>1 DEF Looks
  <2>4. known \subseteq KnownNow BY <1>3 DEF TrueInv
  <2>5. request = "state hosts" => \A k \in known : Looks(k, disks[k].host, disks[k].lastSeen)'
    <3> SUFFICES ASSUME request = "state hosts", NEW k \in known
                 PROVE  Looks(k, disks[k].host, disks[k].lastSeen)'
      OBVIOUS
    <3>1. Looks(k, disks[k].host, disks[k].lastSeen) /\ k \in KnownNow
      BY <2>4 DEF TrueInv
    <3>2. success[disks[k].host] \in Nat /\ disks[k].lastSeen \in Nat /\ disks'[k].lastSeen \in Nat
      BY <2>2, <3>1, NextType, <1>1 DEF TypeOK, DiskRow, ReadsTypeOK
    <3>3. /\ disks'[k].host = disks[k].host /\ disks[k].lastSeen <= disks'[k].lastSeen
          /\ success' = success
      BY <1>1, <2>2, <3>1
    <3>4. disks'[k].lastSeen < success[disks[k].host] => disks[k].lastSeen < success[disks[k].host]
      BY <3>2, <3>3, LaterIsLess
    <3>5. success[disks[k].host] # Never /\ disks'[k].lastSeen < success[disks[k].host] => k \in ever
      BY <3>1, <3>4 DEF Looks
    <3>6. success'[disks'[k].host] = success[disks[k].host] BY <3>3
    <3> QED BY <2>1, <3>5, <3>6 DEF Looks
  <2>6. request = "state seen" => \A k \in known : Looks(k, disks[k].host, seen[k])'
    <3> SUFFICES ASSUME request = "state seen", NEW k \in known
                 PROVE  Looks(k, disks[k].host, seen[k])'
      OBVIOUS
    <3>1. Looks(k, disks[k].host, seen[k]) /\ k \in KnownNow BY <2>4 DEF TrueInv
    <3>2. disks'[k].host = disks[k].host /\ success' = success /\ seen' = seen BY <1>1, <2>2, <3>1
    <3> QED BY <2>1, <3>1, <3>2 DEF Looks
  <2>7. request = "detail disk" => \A k \in asked : k \in KnownNow' /\ host = disks'[k].host
    BY <2>2 DEF TrueInv
  <2>8. request = "detail hosts" => \A k \in asked :
          /\ k \in KnownNow' /\ host = disks'[k].host
          /\ Looks(k, host, disks[k].lastSeen)'
    <3> SUFFICES ASSUME request = "detail hosts", NEW k \in asked
                 PROVE  /\ k \in KnownNow' /\ host = disks'[k].host
                        /\ Looks(k, host, disks[k].lastSeen)'
      OBVIOUS
    <3>1. k \in KnownNow /\ host = disks[k].host /\ Looks(k, host, disks[k].lastSeen)
      BY DEF TrueInv
    <3>2. host \in Hosts /\ host' = host BY <1>1, <2>2, <3>1
    <3>3. Looks(k, host, disks[k].lastSeen)'
      <4>1. Looks(k, disks[k].host, disks[k].lastSeen)' BY <1>1, <2>2, <2>3, <3>1, <3>2 DEF Looks
      <4> QED BY <1>1, <2>2, <3>1, <4>1 DEF Looks
    <3> QED BY <2>2, <3>1, <3>3
  <2>9. known' \subseteq KnownNow' BY <1>1, <2>2, <2>4
  <2>10. MissingWasTrue' BY <1>1, <2>1 DEF TrueInv, MissingWasTrue
  <2> QED BY <1>1, <2>1, <2>5, <2>6, <2>7, <2>8, <2>9, <2>10 DEF TrueInv
<1> QED BY <1>2, <1>3

LEMMA TrueStep ==
  ASSUME TypeOK, Stamped, RowsInv, ReadsTypeOK, Placed, TrueInv, [ApiNext]_apiVars PROVE TrueInv'
<1> USE DEF TrueInv
<1>1. \A k \in KnownNow : k \in Keys /\ Known(k) /\ disks[k].host \in Hosts
  BY DEF KnownNow, Placed
<1>2. \A k \in KnownNow : disks[k].lastSeen < hosts[disks[k].host].lastSuccess => k \in MissingNow
  BY <1>1 DEF MissingNow, ShownMissing
<1>3. UNCHANGED vars => MissingNow' = MissingNow /\ KnownNow' = KnownNow
  BY DEF vars, MissingNow, KnownNow, ShownMissing, Known
<1>4. CASE SchedulerStep BY <1>4, TrueSchedulerStep
<1>5. CASE StateReadsHosts
  <2>1. \A k \in KnownNow : Looks(k, disks[k].host, disks[k].lastSeen)'
    BY <1>1, <1>2, <1>5 DEF StateReadsHosts, Begin, SuccessNow, Looks, vars
  <2> QED BY <1>3, <1>5, <2>1 DEF StateReadsHosts, Begin, MissingWasTrue, vars
<1>6. CASE StateReadsLastSeen
  <2>1. \A k \in known : Looks(k, disks[k].host, seen[k])'
    BY <1>1, <1>6 DEF StateReadsLastSeen, SeenNow, Looks, moments, vars
  <2> QED BY <1>3, <1>6, <2>1 DEF StateReadsLastSeen, MissingWasTrue, moments, vars
<1>7. CASE StateReadsDisks
  <2>1. MissingWasTrue' BY <1>7 DEF StateReadsDisks, MissingWasTrue, Looks, moments
  <2> QED BY <1>3, <1>7, <2>1 DEF StateReadsDisks, moments
<1>8. ASSUME NEW d \in Keys, DetailReadsDisk(d) PROVE TrueInv'
  BY <1>3, <1>8 DEF DetailReadsDisk, Begin, MissingWasTrue, KnownNow, vars
<1>9. CASE DetailReadsHosts
  <2>1. \A k \in asked : Looks(k, host, disks[k].lastSeen)'
    BY <1>1, <1>2, <1>9 DEF DetailReadsHosts, SuccessNow, Looks, moments, vars
  <2> QED BY <1>3, <1>9, <2>1 DEF DetailReadsHosts, MissingWasTrue, moments, vars
<1>10. CASE DetailReadsLastSeen
  <2>1. MissingWasTrue'
    BY <1>1, <1>10 DEF DetailReadsLastSeen, SeenNow, MissingWasTrue, Looks, moments
  <2> QED BY <1>3, <1>10, <2>1 DEF DetailReadsLastSeen, moments
<1>11. CASE Answered BY <1>11 DEF Answered, MissingWasTrue
<1>12. CASE UNCHANGED apiVars
  BY <1>3, <1>12 DEF apiVars, readVars, moments, MissingWasTrue, Looks, vars
<1> QED BY <1>4, <1>5, <1>6, <1>7, <1>8, <1>9, <1>10, <1>11, <1>12 DEF ApiNext

(* A disk that had a row when the request came in is called missing only if  *)
(* it was missing at some moment of the request (api.py, state and           *)
(* disk_detail), as long as every disk has one host and the clock is not set *)
(* back; the configuration may change between requests.                      *)
THEOREM MissingTrue ==
  ASSUME SingleHome, SteadyClock
  PROVE  ApiSpec => []MissingWasTrue
<1> DEFINE Inv == TypeOK /\ Stamped /\ Placed /\ RowsInv /\ ReadsTypeOK /\ TrueInv
<1>1. ApiInit => Inv
  <2> SUFFICES ASSUME ApiInit PROVE Inv OBVIOUS
  <2>1. TypeOK BY InitType DEF ApiInit
  <2>2. \A k \in Keys : ~Known(k) /\ disks[k].lastSeen = 0
    BY DEF ApiInit, Init, Known, NoRow, Never
  <2>3. \A h \in Hosts : pending[h].kind = "none" BY ConstantTypes DEF ApiInit, Init
  <2>4. clock \in Nat BY <2>1 DEF TypeOK
  <2>5. RowsInv BY <2>2, <2>3, <2>4 DEF RowsInv
  <2>6. Placed /\ Stamped BY <2>2, <2>3 DEF Placed, Stamped
  <2>7. ReadsTypeOK BY DEF ApiInit, ReadsTypeOK, Never
  <2>8. TrueInv BY DEF ApiInit, TrueInv, MissingWasTrue
  <2> QED BY <2>1, <2>5, <2>6, <2>7, <2>8
<1>2. Inv /\ [ApiNext]_apiVars => Inv'
  <2> SUFFICES ASSUME Inv, [ApiNext]_apiVars PROVE Inv' OBVIOUS
  <2>1. [Next]_vars
    BY DEF ApiNext, apiVars, SchedulerStep, StateReadsHosts, StateReadsLastSeen, StateReadsDisks,
           DetailReadsDisk, DetailReadsHosts, DetailReadsLastSeen, Answered
  <2> QED BY <2>1, NextType, StampedStep, PlacedStep, RowsStep, ReadsTypeStep, TrueStep
<1>3. Inv => MissingWasTrue BY DEF TrueInv
<1> QED BY <1>1, <1>2, <1>3, PTL DEF ApiSpec

-----------------------------------------------------------------------------
(*              The pipeline (Delivery): any number of hosts, disks,       *)
(*              polls and restarts, and any severity floor                 *)
-----------------------------------------------------------------------------

StatusChanges == [kind : {"missing", "returned", "status"}, old : Severity \cup {NoStatus},
                  new : Severity]

\* What save returns about one disk: nothing, that it is missing, that it is
\* back, its new status, or the last two.  The row has the new status already.
ShapeOK(k) == LET changes == hand.changes[k] IN
  /\ Len(changes) <= 2
  /\ Len(changes) = 2 => changes[1].kind = "returned" /\ changes[2].kind = "status"
  /\ \A i \in 1..Len(changes) :
       /\ changes[i].kind = "missing" => changes[i].new = UNKNOWN
       /\ changes[i].kind = "status" => Known(k) /\ changes[i].new = disks[k].status

HandType == [stage : {"none", "publish", "notify"}, host : 0..NHosts, result : Result,
             changes : [Keys -> Seq(StatusChanges)]]

HandOK ==
  /\ hand \in HandType
  /\ hand.stage = "none" => \A k \in Keys : hand.changes[k] = <<>>
  /\ hand.stage # "none" => hand.host \in Hosts
  /\ \A k \in Keys : ShapeOK(k)

\* A poll that failed brings no disk.
FailedIsEmpty ==
  /\ \A h \in Hosts : pending[h].kind # "ok" => pending[h].found = {}
  /\ hand.result.kind # "ok" => hand.result.found = {} /\ \A k \in Keys : ~IsMissing(k)

PipelineOK ==
  /\ TypeOK /\ Stamped /\ DeliveryTypeOK /\ HandOK

\* What the topic of a disk has to be, if the API is right.
TopicDue(k) == IF ShownMissing(k) THEN MissingTopic ELSE PresentTopic(disks[k].status)

\* Before the publisher has run it will be, whatever was left behind.
TopicInv ==
  \A k \in Keys : Known(k) =>
    IF hand.stage = "publish"
    THEN k \notin behind \/ k \in hand.result.found \/ IsMissing(k) => DiskTopicAfter(k) = TopicDue(k)
    ELSE k \notin behind => diskTopic[k] = TopicDue(k)

\* The publisher remembers the success the database has, and shows it.
SuccessInv ==
  \A h \in Hosts :
    IF hand.stage = "publish" /\ hand.host = h
    THEN IF hand.result.kind = "ok" THEN hosts[h].lastSuccess = hand.result.at
         ELSE lastOk[h] # Never => lastOk[h] = hosts[h].lastSuccess
    ELSE lastOk[h] # Never =>
           lastOk[h] = hosts[h].lastSuccess /\ hostTopic[h].lastSuccess = hosts[h].lastSuccess

\* The event that waits to be mailed is the last one of the table.
EventDue(k) == hand.changes[k] # <<>> /\ hand.changes[k][1].kind # "status"
MailInv ==
  \A k \in Keys \ untold :
    SaysMissing(presence[k]) =
      IF EventDue(k) THEN Append(PresenceMail("mail", k), Message(hand.changes[k][1]))
      ELSE PresenceMail("mail", k)

\* The status of a disk as far as the channels have been told of it.
StatusTold(k) == LET changes == hand.changes[k] IN
  IF changes # <<>> /\ LastOf(changes).kind = "status" THEN LastOf(changes).old ELSE OldStatus(k)

\* A disk as bad as the floor has been alerted on, and not recovered since.
Alternates(mail) ==
  \A i \in 1..Len(mail) : mail[i] = "recovered" => i > 1 /\ mail[i-1] # "recovered"
Alerted(mail) == mail # <<>> /\ LastOf(mail) # "recovered"
AlertInv ==
  \A c \in Channels, k \in Keys \ untold :
    Alternates(StatusMail(c, k)) /\ (StatusTold(k) >= Floor => Alerted(StatusMail(c, k)))

\* A host on the list was the last to be reported unreachable; a host that was
\* and is not on the list was forgotten in a restart that counts for one more.
Repeats(mail) == {i \in 2..Len(mail) : mail[i] = mail[i-1]}
HostMailOK(h, mail, listed, forgotten) ==
  /\ \A i \in 1..Len(mail) : mail[i] = "reachable" => i > 1 /\ mail[i-1] = "unreachable"
  /\ h \in listed => mail # <<>> /\ LastOf(mail) = "unreachable"
  /\ Cardinality(Repeats(mail)) <= forgotten
  /\ mail # <<>> /\ LastOf(mail) = "unreachable" /\ h \notin listed =>
       Cardinality(Repeats(mail)) + 1 <= forgotten
HostMailInv == \A h \in Hosts : HostMailOK(h, hostInbox[h], unreachable, restarts)

-----------------------------------------------------------------------------
(* Selecting messages *)

OnlyUpTo(only, kinds, mail, n) ==
  only = [i \in 0..n |-> IF i = 0 THEN <<>>
                         ELSE IF mail[i] \in kinds THEN Append(only[i-1], mail[i]) ELSE only[i-1]]

\* What is selected can be written down message by message.
LEMMA OnlyExists ==
  ASSUME NEW kinds, NEW mail, NEW n \in Nat
  PROVE  \E only : OnlyUpTo(only, kinds, mail, n)
<1> DEFINE Bad == {m \in Nat : ~\E only : OnlyUpTo(only, kinds, mail, m)}
<1> SUFFICES ASSUME Bad # {} PROVE FALSE OBVIOUS
<1>1. PICK m \in Bad : \A k \in Bad : m <= k BY LeastNumber
<1>2. CASE m = 0
  <2>1. OnlyUpTo([i \in 0..0 |-> <<>>], kinds, mail, 0) BY DEF OnlyUpTo
  <2> QED BY <1>1, <1>2, <2>1
<1>3. CASE m # 0
  <2>1. m - 1 \in Nat /\ m - 1 \notin Bad BY <1>1, <1>3
  <2>2. PICK only : OnlyUpTo(only, kinds, mail, m - 1) BY <2>1
  <2> DEFINE last == IF mail[m] \in kinds THEN Append(only[m-1], mail[m]) ELSE only[m-1]
             more == [i \in 0..m |-> IF i = m THEN last ELSE only[i]]
  <2>3. OnlyUpTo(more, kinds, mail, m)
    <3>1. ASSUME NEW i \in 0..m
          PROVE  more[i] = IF i = 0 THEN <<>>
                           ELSE IF mail[i] \in kinds THEN Append(more[i-1], mail[i]) ELSE more[i-1]
      <4>1. CASE i = m
        <5>1. more[i] = last /\ more[i-1] = only[m-1] BY <1>3, <2>1, <4>1
        <5> QED BY <1>3, <4>1, <5>1
      <4>2. CASE i # m
        <5>1. i \in 0..(m-1) /\ more[i] = only[i] BY <2>1, <4>2
        <5>2. i # 0 => more[i-1] = only[i-1] BY <2>1, <5>1
        <5> HIDE DEF more
        <5> QED BY <2>2, <5>1, <5>2 DEF OnlyUpTo
      <4> QED BY <4>1, <4>2
    <3> QED BY <3>1 DEF OnlyUpTo
  <2> QED BY <1>1, <2>3
<1> QED BY <1>2, <1>3

\* And in one way only: two lists with the same beginning select the same from it.
LEMMA OnlyUnique ==
  ASSUME NEW kinds, NEW s, NEW t, NEW m \in Nat, NEW n \in Nat, m <= n,
         \A i \in 1..m : s[i] = t[i],
         NEW f, OnlyUpTo(f, kinds, s, m), NEW g, OnlyUpTo(g, kinds, t, n)
  PROVE  f[m] = g[m]
<1> DEFINE Bad == {i \in 0..m : f[i] # g[i]}
<1> SUFFICES ASSUME Bad # {} PROVE FALSE OBVIOUS
<1> Bad \in SUBSET Nat OBVIOUS
<1>1. PICK i \in Bad : \A j \in Bad : i <= j BY LeastNumber
<1>2. i \in 0..m /\ i \in 0..n /\ f[i] # g[i] BY <1>1
<1>3. i # 0 BY <1>2 DEF OnlyUpTo
<1>4. i - 1 \in 0..m /\ f[i-1] = g[i-1] BY <1>1, <1>2, <1>3
<1>5. i \in 1..m /\ s[i] = t[i] BY <1>2, <1>3
<1>6. f[i] = IF s[i] \in kinds THEN Append(f[i-1], s[i]) ELSE f[i-1] BY <1>2, <1>3 DEF OnlyUpTo
<1>7. g[i] = IF t[i] \in kinds THEN Append(g[i-1], t[i]) ELSE g[i-1] BY <1>2, <1>3 DEF OnlyUpTo
<1> QED BY <1>2, <1>4, <1>5, <1>6, <1>7

LEMMA OnlyIs ==
  ASSUME NEW kinds, NEW mail, Len(mail) \in Nat
  PROVE  \E only : OnlyUpTo(only, kinds, mail, Len(mail)) /\ Only(kinds, mail) = only[Len(mail)]
<1> DEFINE only == CHOOSE f : OnlyUpTo(f, kinds, mail, Len(mail))
<1>1. OnlyUpTo(only, kinds, mail, Len(mail)) BY OnlyExists
<1>2. Only(kinds, mail) = only[Len(mail)] BY DEF Only, OnlyUpTo
<1> QED BY <1>1, <1>2

\* A new message is selected, or it is not; nothing else changes.
LEMMA OnlyAppend ==
  ASSUME NEW kinds, NEW S, NEW mail \in Seq(S), NEW m \in S
  PROVE  Only(kinds, Append(mail, m)) =
           IF m \in kinds THEN Append(Only(kinds, mail), m) ELSE Only(kinds, mail)
<1> DEFINE n == Len(mail)
           more == Append(mail, m)
<1>1. /\ n \in Nat /\ Len(more) = n + 1 /\ more[n + 1] = m
      /\ \A i \in 1..n : mail[i] = more[i]
  OBVIOUS
<1>2. PICK f : OnlyUpTo(f, kinds, mail, n) /\ Only(kinds, mail) = f[n] BY <1>1, OnlyIs
<1>3. PICK g : OnlyUpTo(g, kinds, more, n + 1) /\ Only(kinds, more) = g[n + 1]
  <2> HIDE DEF more
  <2> QED BY <1>1, OnlyIs
<1>4. f[n] = g[n]
  <2> HIDE DEF more, n
  <2> QED BY <1>1, <1>2, <1>3, OnlyUnique
<1>5. g[n + 1] = IF more[n + 1] \in kinds THEN Append(g[n], more[n + 1]) ELSE g[n]
  <2> HIDE DEF more, n
  <2>1. n + 1 \in 0..(n + 1) /\ n + 1 # 0 /\ (n + 1) - 1 = n BY <1>1
  <2>2. \A i \in 0..(n + 1) : i # 0 =>
          g[i] = IF more[i] \in kinds THEN Append(g[i-1], more[i]) ELSE g[i-1]
    BY <1>3 DEF OnlyUpTo
  <2> QED BY <2>1, <2>2
<1> QED BY <1>1, <1>2, <1>3, <1>4, <1>5

LEMMA OnlyNothing == ASSUME NEW kinds PROVE Only(kinds, <<>>) = <<>>
<1>1. PICK f : OnlyUpTo(f, kinds, <<>>, 0) /\ Only(kinds, <<>>) = f[0]
  <2>1. Len(<<>>) = 0 OBVIOUS
  <2> QED BY <2>1, OnlyIs
<1> QED BY <1>1 DEF OnlyUpTo
-----------------------------------------------------------------------------
(* The pipeline runs the database as the one process it is *)

LEMMA DeliveryStep == ASSUME [DeliveryNext]_allVars PROVE [Next]_vars
<1>1. CASE CollectNext BY <1>1 DEF CollectNext, Next
<1>2. CASE SaveNext BY <1>2 DEF SaveNext, Next
<1>3. CASE RollupNext BY <1>3 DEF RollupNext, Next
<1>4. CASE SaveRaises BY <1>4 DEF SaveRaises, Next
<1>5. CASE Restart BY <1>5 DEF Restart, Next
<1>6. CASE Publish \/ NotifyHost \/ (\E k \in Keys : NotifyDisk(k)) \/ UNCHANGED allVars
  BY <1>6 DEF Publish, NotifyHost, NotifyDisk, allVars
<1> QED BY <1>1, <1>2, <1>3, <1>4, <1>5, <1>6 DEF DeliveryNext

\* Whatever is proved of the database holds while its changes are published and
\* mailed and the process is restarted at any point (service.py, poll).
THEOREM PipelineIsStorage == DeliverySpec => Spec
<1>1. DeliveryInit => Init BY DEF DeliveryInit
<1>2. [DeliveryNext]_allVars => [Next]_vars BY DeliveryStep
<1> QED BY <1>1, <1>2, PTL DEF DeliverySpec, Spec

\* So the events and what the API shows stay one story in the pipeline, too.
THEOREM PipelineAnnouncesPresence ==
  ASSUME SteadyWorld
  PROVE  DeliverySpec => AnnouncesPresence
BY PipelineIsStorage, PresenceImplemented, PTL

-----------------------------------------------------------------------------
(* What save returns *)

LEMMA PairAppend ==
  ASSUME NEW S, NEW a \in S, NEW b \in S PROVE Append(<<a>>, b) = <<a, b>>
<1> DEFINE s == Append(<<a>>, b)
           t == <<a, b>>
<1>1. s \in Seq(S) /\ Len(s) = 2 /\ s[1] = a /\ s[2] = b OBVIOUS
<1>2. t \in Seq(S) /\ Len(t) = 2 /\ t[1] = a /\ t[2] = b OBVIOUS
<1> HIDE DEF s, t
<1>3. \A i \in 1..2 : s[i] = t[i] BY <1>1, <1>2
<1>4. s = t BY <1>1, <1>2, <1>3, SeqEqual
<1> QED BY <1>4 DEF s, t

LEMMA ConcatOne ==
  ASSUME NEW S, NEW s \in Seq(S), NEW a \in S
  PROVE  /\ s \o <<a>> = Append(s, a) /\ s \o <<>> = s
         /\ Append(<<>>, a) = <<a>> /\ <<>> \o <<a>> = <<a>> /\ <<>> \o <<>> = <<>>
BY AppendIsConcat, ConcatEmptySeq

MissingChange(k) == StatusChange("missing", disks[k].status, UNKNOWN)
ReturnedChange(k, result) == StatusChange("returned", UNKNOWN, result.status[k])
NewsChange(k, result) == StatusChange("status", OldStatus(k), result.status[k])

LEMMA ChangeTypes ==
  ASSUME TypeOK, NEW result \in Result, NEW k \in Keys
  PROVE  /\ MissingChange(k) \in StatusChanges /\ ReturnedChange(k, result) \in StatusChanges
         /\ NewsChange(k, result) \in StatusChanges
<1>1. /\ disks[k].status \in Severity /\ result.status[k] \in Severity
      /\ OldStatus(k) \in Severity \cup {NoStatus} /\ UNKNOWN \in Severity
  BY DEF TypeOK, DiskRow, Result, OldStatus, UNKNOWN, Severity
<1> QED BY <1>1 DEF MissingChange, ReturnedChange, NewsChange, StatusChange, StatusChanges

\* The cases of a disk in a save.
LEMMA ChangesAre ==
  ASSUME TypeOK, NEW h \in Hosts, NEW result \in Result, NEW k \in Keys
  PROVE  LET changes == ChangesOf(k, h, result) IN
         /\ result.kind # "ok" => changes = <<>>
         /\ result.kind = "ok" /\ Gone(k, h, result) => changes = <<MissingChange(k)>>
         /\ result.kind = "ok" /\ Back(k, h, result) /\ NewsWorthy(k, result) =>
              changes = <<ReturnedChange(k, result), NewsChange(k, result)>>
         /\ result.kind = "ok" /\ Back(k, h, result) /\ ~NewsWorthy(k, result) =>
              changes = <<ReturnedChange(k, result)>>
         /\ result.kind = "ok" /\ ~Back(k, h, result) /\ NewsWorthy(k, result) =>
              changes = <<NewsChange(k, result)>>
         /\ ~Gone(k, h, result) /\ ~Back(k, h, result) /\ ~NewsWorthy(k, result) => changes = <<>>
<1> DEFINE m == MissingChange(k)
           r == ReturnedChange(k, result)
           n == NewsChange(k, result)
           changes == ChangesOf(k, h, result)
           gone == Gone(k, h, result)
           back == Back(k, h, result)
           news == NewsWorthy(k, result)
<1>1. m \in StatusChanges /\ r \in StatusChanges /\ n \in StatusChanges BY ChangeTypes
<1>2. gone => ~back /\ ~news BY DEF Gone, Back, NewsWorthy
<1>3. changes = IF result.kind # "ok" THEN <<>> ELSE When(gone, m) \o When(back, r) \o When(news, n)
  BY DEF ChangesOf, MissingChange, ReturnedChange, NewsChange
<1> HIDE DEF m, r, n, changes, gone, back, news
<1>4. /\ <<>> \o <<>> = <<>> /\ <<m>> \o <<>> = <<m>> /\ <<>> \o <<r>> = <<r>>
      /\ <<r>> \o <<>> = <<r>> /\ <<>> \o <<n>> = <<n>>
      /\ <<r>> \o <<n>> = <<r, n>>
  <2>1. <<m>> \in Seq(StatusChanges) /\ <<r>> \in Seq(StatusChanges) BY <1>1
  <2>2. <<r>> \o <<n>> = Append(<<r>>, n) BY <1>1, <2>1, ConcatOne
  <2> QED BY <1>1, <2>1, <2>2, ConcatOne, PairAppend
<1>5. /\ result.kind # "ok" => changes = <<>>
      /\ result.kind = "ok" /\ gone => changes = <<m>>
      /\ result.kind = "ok" /\ back /\ news => changes = <<r, n>>
      /\ result.kind = "ok" /\ back /\ ~news => changes = <<r>>
      /\ result.kind = "ok" /\ ~back /\ news => changes = <<n>>
      /\ ~gone /\ ~back /\ ~news => changes = <<>>
  BY <1>2, <1>3, <1>4 DEF When
<1> QED BY <1>5 DEF m, r, n, changes, gone, back, news

\* The rows a save leaves are those its changes speak of.
LEMMA SavedShape ==
  ASSUME PipelineOK, NEW h \in Hosts, SaveFailure(h) \/ SaveSuccess(h), NEW k \in Keys,
         hand'.changes[k] = ChangesOf(k, h, pending[h])
  PROVE  hand'.changes[k] \in Seq(StatusChanges) /\ ShapeOK(k)'
<1> DEFINE result == pending[h]
           changes == ChangesOf(k, h, result)
           m == MissingChange(k)
           r == ReturnedChange(k, result)
           n == NewsChange(k, result)
<1>1. TypeOK /\ result \in Result BY DEF PipelineOK, TypeOK
<1>2. m \in StatusChanges /\ r \in StatusChanges /\ n \in StatusChanges BY <1>1, ChangeTypes
<1>3. NewsWorthy(k, result) /\ result.kind = "ok" => Known(k)' /\ disks'[k].status = result.status[k]
  <2> SUFFICES ASSUME NewsWorthy(k, result), result.kind = "ok"
               PROVE  Known(k)' /\ disks'[k].status = result.status[k]
    OBVIOUS
  <2>1. SaveSuccess(h) /\ k \in result.found /\ result.at > Never
    BY DEF SaveFailure, SaveSuccess, NextToSave, NewsWorthy, PipelineOK, Stamped
  <2>2. disks'[k] = [host |-> h, status |-> result.status[k], lastSeen |-> result.at]
    BY <2>1 DEF SaveSuccess, DiskRowAfter
  <2> QED BY <1>1, <2>1, <2>2 DEF Known, Never, Result
<1>4. /\ m.kind = "missing" /\ m.new = UNKNOWN /\ r.kind = "returned"
      /\ n.kind = "status" /\ n.new = result.status[k]
  BY DEF MissingChange, ReturnedChange, NewsChange, StatusChange
<1>5. \/ changes = <<>> \/ changes = <<m>> \/ changes = <<r>>
      \/ (changes = <<n>> \/ changes = <<r, n>>) /\ result.kind = "ok" /\ NewsWorthy(k, result)
  BY <1>1, ChangesAre
<1> HIDE DEF m, r, n, changes
<1>6. hand'.changes[k] = changes BY DEF changes
<1>7. changes \in Seq(StatusChanges) /\ ShapeOK(k)'
  <2>1. CASE changes = <<>> BY <1>6, <2>1 DEF ShapeOK
  <2>2. ASSUME NEW c \in StatusChanges, changes = <<c>>,
               c.kind = "missing" => c.new = UNKNOWN,
               c.kind = "status" => Known(k)' /\ c.new = disks'[k].status
        PROVE  changes \in Seq(StatusChanges) /\ ShapeOK(k)'
    <3>1. changes \in Seq(StatusChanges) /\ Len(changes) = 1 /\ changes[1] = c BY <2>2
    <3>2. \A i \in 1..Len(changes) : changes[i] = c BY <3>1
    <3> QED BY <1>6, <2>2, <3>1, <3>2 DEF ShapeOK
  <2>3. ASSUME NEW c \in StatusChanges, NEW d \in StatusChanges, changes = <<c, d>>,
               c.kind = "returned", d.kind = "status", Known(k)', d.new = disks'[k].status
        PROVE  changes \in Seq(StatusChanges) /\ ShapeOK(k)'
    <3>1. changes \in Seq(StatusChanges) /\ Len(changes) = 2 /\ changes[1] = c /\ changes[2] = d
      BY <2>3
    <3>2. \A i \in 1..Len(changes) : i = 1 \/ i = 2 BY <3>1
    <3> QED BY <1>6, <2>3, <3>1, <3>2 DEF ShapeOK
  <2>4. CASE changes = <<m>> \/ changes = <<r>>
    <3>1. (changes = <<m>> => changes \in Seq(StatusChanges) /\ ShapeOK(k)')
      BY <1>2, <1>4, <2>2
    <3>2. (changes = <<r>> => changes \in Seq(StatusChanges) /\ ShapeOK(k)')
      BY <1>2, <1>4, <2>2
    <3> QED BY <2>4, <3>1, <3>2
  <2>5. CASE (changes = <<n>> \/ changes = <<r, n>>) /\ result.kind = "ok" /\ NewsWorthy(k, result)
    <3>1. Known(k)' /\ n.new = disks'[k].status BY <1>3, <1>4, <2>5
    <3>2. changes = <<n>> => changes \in Seq(StatusChanges) /\ ShapeOK(k)'
      BY <1>2, <1>4, <2>2, <3>1
    <3>3. changes = <<r, n>> => changes \in Seq(StatusChanges) /\ ShapeOK(k)'
      BY <1>2, <1>4, <2>3, <3>1
    <3> QED BY <2>5, <3>2, <3>3
  <2> QED BY <1>5, <2>1, <2>4, <2>5
<1> QED BY <1>6, <1>7

\* What one change adds to a mailbox.
Mailed(c, change, mail) ==
  IF ShouldNotify(change) /\ Sent(c, change) THEN Append(mail, Message(change)) ELSE mail

LEMMA MessageType ==
  ASSUME NEW change \in StatusChanges
  PROVE  /\ Message(change) \in Messages
         /\ change.kind = "missing" => Message(change) = "missing"
         /\ change.kind = "returned" => Message(change) = "back"
         /\ change.kind = "status" =>
              Message(change) = IF change.new = OK THEN "recovered"
                                ELSE IF change.new = UNKNOWN THEN "unknown"
                                ELSE IF change.new = WARNING THEN "warning" ELSE "critical"
<1> DEFINE words == <<"recovered", "unknown", "warning", "critical">>
<1>1. change.new \in Severity /\ change.kind \in {"missing", "returned", "status"}
  BY DEF StatusChanges
<1>2. words[1] = "recovered" /\ words[2] = "unknown" /\ words[3] = "warning" /\ words[4] = "critical"
  OBVIOUS
<1>3. change.kind = "status" => Message(change) = words[change.new + 1] BY DEF Message
<1>4. \/ change.new = 0 /\ change.new + 1 = 1
      \/ change.new = 1 /\ change.new + 1 = 2
      \/ change.new = 2 /\ change.new + 1 = 3
      \/ change.new = 3 /\ change.new + 1 = 4
  BY <1>1 DEF Severity
<1> HIDE DEF words
<1>5. change.kind = "status" =>
        Message(change) = IF change.new = OK THEN "recovered"
                          ELSE IF change.new = UNKNOWN THEN "unknown"
                          ELSE IF change.new = WARNING THEN "warning" ELSE "critical"
  BY <1>2, <1>3, <1>4 DEF OK, UNKNOWN, WARNING
<1>6. /\ change.kind = "missing" => Message(change) = "missing"
      /\ change.kind = "returned" => Message(change) = "back"
  BY DEF Message
<1> QED BY <1>1, <1>5, <1>6 DEF Messages

LEMMA NotifyMails ==
  ASSUME PipelineOK, NEW k \in Keys, NotifyDisk(k), NEW c \in Channels
  PROVE  LET changes == hand.changes[k] IN
         /\ \A j \in Keys : j # k => inbox'[c][j] = inbox[c][j]
         /\ Len(changes) = 1 => inbox'[c][k] = Mailed(c, changes[1], inbox[c][k])
         /\ Len(changes) = 2 => inbox'[c][k] = Mailed(c, changes[2], Mailed(c, changes[1], inbox[c][k]))
         /\ Len(changes) \in {1, 2} /\ \A i \in 1..Len(changes) : changes[i] \in StatusChanges
<1> DEFINE changes == hand.changes[k]
           Heard(change) == ShouldNotify(change) /\ Sent(c, change)
           Mail(i) == IF i <= Len(changes) /\ Heard(changes[i]) THEN <<Message(changes[i])>> ELSE <<>>
           mail == inbox[c][k]
<1>1. changes \in Seq(StatusChanges) /\ Len(changes) <= 2
  BY DEF PipelineOK, HandOK, HandType, ShapeOK
<1>2. Len(changes) \in {1, 2}
  <2>1. changes # <<>> BY DEF NotifyDisk
  <2> HIDE DEF changes
  <2>2. Len(changes) \in Nat /\ (Len(changes) = 0 => changes = <<>>) BY <1>1, EmptySeq
  <2>3. Len(changes) \in Nat /\ Len(changes) # 0 /\ Len(changes) <= 2 BY <1>1, <2>1, <2>2
  <2>4. \A n \in Nat : n # 0 /\ n <= 2 => n \in {1, 2} OBVIOUS
  <2> QED BY <2>3, <2>4
<1>3. inbox \in [Channels -> [Keys -> Seq(Messages)]] BY DEF PipelineOK, DeliveryTypeOK
<1>4. inbox'[c] = [inbox[c] EXCEPT ![k] = @ \o Mail(1) \o Mail(2)] BY DEF NotifyDisk
<1>5. /\ \A j \in Keys : j # k => inbox'[c][j] = inbox[c][j]
      /\ inbox'[c][k] = mail \o Mail(1) \o Mail(2)
  <2> HIDE DEF Mail
  <2> QED BY <1>3, <1>4
<1>6. \A i \in 1..Len(changes) : changes[i] \in StatusChanges BY <1>1
<1>7. mail \in Seq(Messages) BY <1>3
<1> HIDE DEF changes, mail
<1>8. ASSUME NEW i \in 1..Len(changes), NEW m \in Seq(Messages)
      PROVE  m \o Mail(i) = Mailed(c, changes[i], m) /\ m \o Mail(i) \in Seq(Messages)
  <2>1. Message(changes[i]) \in Messages BY <1>6, MessageType
  <2>2. i <= Len(changes) BY <1>2
  <2>3. CASE Heard(changes[i])
    <3>1. Mail(i) = <<Message(changes[i])>> BY <2>2, <2>3
    <3>2. m \o <<Message(changes[i])>> = Append(m, Message(changes[i])) BY <2>1, ConcatOne
    <3>3. Append(m, Message(changes[i])) \in Seq(Messages) BY <2>1
    <3> QED BY <2>3, <3>1, <3>2, <3>3 DEF Mailed
  <2>4. CASE ~Heard(changes[i])
    <3>1. Mail(i) = <<>> BY <2>4
    <3>2. m \o <<>> = m BY ConcatEmptySeq
    <3> QED BY <2>4, <3>1, <3>2 DEF Mailed
  <2> QED BY <2>3, <2>4
<1>9. CASE Len(changes) = 1
  <2>1. Mail(2) = <<>> BY <1>9
  <2>2. 1 \in 1..Len(changes) BY <1>9
  <2>3. mail \o Mail(1) = Mailed(c, changes[1], mail) /\ mail \o Mail(1) \in Seq(Messages)
    BY <1>7, <1>8, <2>2
  <2> HIDE DEF Mail
  <2>4. (mail \o Mail(1)) \o <<>> = mail \o Mail(1) BY <2>3, ConcatEmptySeq
  <2>5. inbox'[c][k] = Mailed(c, changes[1], mail) BY <1>5, <2>1, <2>3, <2>4
  <2> QED BY <1>2, <1>5, <1>6, <1>9, <2>5 DEF changes, mail
<1>10. CASE Len(changes) = 2
  <2>1. 1 \in 1..Len(changes) /\ 2 \in 1..Len(changes) BY <1>10
  <2> HIDE DEF Mail
  <2>2. mail \o Mail(1) = Mailed(c, changes[1], mail) /\ mail \o Mail(1) \in Seq(Messages)
    BY <1>7, <1>8, <2>1
  <2>3. (mail \o Mail(1)) \o Mail(2) = Mailed(c, changes[2], mail \o Mail(1)) BY <1>8, <2>1, <2>2
  <2>4. inbox'[c][k] = Mailed(c, changes[2], Mailed(c, changes[1], mail)) BY <1>5, <2>2, <2>3
  <2> QED BY <1>2, <1>5, <1>6, <1>10, <2>4 DEF changes, mail
<1> QED BY <1>2, <1>9, <1>10

LEMMA MailedType ==
  ASSUME NEW c, NEW change \in StatusChanges, NEW mail \in Seq(Messages)
  PROVE  Mailed(c, change, mail) \in Seq(Messages)
BY MessageType DEF Mailed

\* A step of the pipeline keeps everything in its type.
LEMMA NotifyDiskType ==
  ASSUME PipelineOK, NEW k \in Keys, NotifyDisk(k)
  PROVE  DeliveryTypeOK' /\ HandOK'
<1>1. inbox' \in [Channels -> [Keys -> Seq(Messages)]]
  <2>1. inbox \in [Channels -> [Keys -> Seq(Messages)]] BY DEF PipelineOK, DeliveryTypeOK
  <2>2. ASSUME NEW c \in Channels PROVE inbox'[c] \in [Keys -> Seq(Messages)]
    <3> DEFINE changes == hand.changes[k]
    <3>1. /\ \A j \in Keys : j # k => inbox'[c][j] = inbox[c][j]
          /\ Len(changes) = 1 => inbox'[c][k] = Mailed(c, changes[1], inbox[c][k])
          /\ Len(changes) = 2 => inbox'[c][k] = Mailed(c, changes[2], Mailed(c, changes[1], inbox[c][k]))
          /\ Len(changes) \in {1, 2} /\ \A i \in 1..Len(changes) : changes[i] \in StatusChanges
      BY NotifyMails
    <3> HIDE DEF changes
    <3>2. inbox'[c][k] \in Seq(Messages) BY <2>1, <3>1, MailedType
    <3>3. DOMAIN inbox'[c] = Keys /\ inbox'[c] = [j \in Keys |-> inbox'[c][j]]
      BY <2>1 DEF NotifyDisk
    <3>4. \A j \in Keys : inbox'[c][j] \in Seq(Messages) BY <2>1, <3>1, <3>2
    <3> QED BY <3>3, <3>4
  <2>3. inbox' = [c \in Channels |-> inbox'[c]] BY DEF NotifyDisk
  <2> QED BY <2>2, <2>3
<1>2. /\ hand'.stage = hand.stage /\ hand'.host = hand.host /\ hand'.result = hand.result
      /\ hand'.changes = [hand.changes EXCEPT ![k] = <<>>]
      /\ hand' = [hand EXCEPT !.changes = hand'.changes]
      /\ UNCHANGED disks
  BY DEF NotifyDisk, PipelineOK, HandOK, HandType, vars
<1>3. hand'.changes \in [Keys -> Seq(StatusChanges)] BY <1>2 DEF PipelineOK, HandOK, HandType
<1>4. \A j \in Keys : ShapeOK(j)'
  BY <1>2 DEF PipelineOK, HandOK, HandType, ShapeOK, Known
<1>5. HandOK'
  <2>1. hand' \in HandType BY <1>2, <1>3 DEF PipelineOK, HandOK, HandType
  <2> QED BY <1>2, <1>4, <2>1 DEF PipelineOK, HandOK, HandType, NotifyDisk
<1>6. DeliveryTypeOK'
  BY <1>1, <1>2 DEF PipelineOK, DeliveryTypeOK, NotifyDisk, ghosts
<1> QED BY <1>5, <1>6

LEMMA NoHandType ==
  /\ NoHand \in HandType /\ NoHand.stage = "none"
  /\ \A k \in Keys : NoHand.changes[k] = <<>>
<1>1. [k \in Keys |-> <<>>] \in [Keys -> Seq(StatusChanges)] OBVIOUS
<1>2. 0 \in 0..NHosts BY StorageAssumption
<1> QED BY <1>1, <1>2, ConstantTypes DEF NoHand, HandType

LEMMA NoHandOK == ASSUME hand' = NoHand PROVE HandOK'
<1>1. \A k \in Keys : ShapeOK(k)' BY NoHandType DEF ShapeOK
<1> QED BY <1>1, NoHandType DEF HandOK, HandType

LEMMA SaveNextType ==
  ASSUME PipelineOK, SaveNext PROVE DeliveryTypeOK' /\ HandOK'
<1>1. PICK h \in Hosts :
        /\ SaveFailure(h) \/ SaveSuccess(h)
        /\ hand' = [stage |-> "publish", host |-> h, result |-> pending[h],
                    changes |-> [k \in Keys |-> ChangesOf(k, h, pending[h])]]
  BY DEF SaveNext
<1>2. \A k \in Keys : hand'.changes[k] = ChangesOf(k, h, pending[h]) BY <1>1
<1>3. \A k \in Keys : hand'.changes[k] \in Seq(StatusChanges) /\ ShapeOK(k)'
  BY <1>1, <1>2, SavedShape
<1>4. hand'.changes \in [Keys -> Seq(StatusChanges)] BY <1>1, <1>3
<1>5. pending[h] \in Result /\ h \in 0..NHosts BY StorageAssumption DEF PipelineOK, TypeOK, Hosts
<1>6. HandOK' BY <1>1, <1>3, <1>4, <1>5 DEF HandOK, HandType
<1> QED BY <1>1, <1>6 DEF SaveNext, listenerVars, ghosts, PipelineOK, DeliveryTypeOK

LEMMA PublishType ==
  ASSUME PipelineOK, Publish PROVE DeliveryTypeOK' /\ HandOK'
<1>1. /\ hand \in HandType /\ hand.host \in Hosts /\ hand.result \in Result
  BY DEF PipelineOK, HandOK, HandType, Publish
<1>2. hand' \in HandType /\ hand'.stage = "notify" /\ hand'.host = hand.host
      /\ hand'.changes = hand.changes
  BY <1>1 DEF Publish, HandType
<1>3. \A k \in Keys : ShapeOK(k)' BY <1>2 DEF PipelineOK, HandOK, ShapeOK, Known, Publish, vars
<1>4. HandOK' BY <1>1, <1>2, <1>3 DEF HandOK, HandType
<1>5. lastOk' \in [Hosts -> Nat] BY <1>1 DEF Publish, PipelineOK, DeliveryTypeOK, Result
<1>6. hostTopic' \in [Hosts -> [reachable : BOOLEAN, lastSuccess : Nat]]
  <2>1. SuccessShown(hand.host) \in Nat
    BY <1>1 DEF SuccessShown, PipelineOK, DeliveryTypeOK, Result
  <2> QED BY <2>1 DEF Publish, PipelineOK, DeliveryTypeOK
<1>7. diskTopic' \in [Keys -> [kind : {"none", "missing", "present"}, status : Severity]]
  <2>1. \A k \in Keys : DiskTopicAfter(k) \in [kind : {"none", "missing", "present"}, status : Severity]
    BY <1>1 DEF DiskTopicAfter, MissingTopic, PresentTopic, UNKNOWN, Severity, Result, PipelineOK,
                DeliveryTypeOK
  <2> QED BY <2>1 DEF Publish
<1> QED BY <1>2, <1>4, <1>5, <1>6, <1>7 DEF Publish, PipelineOK, DeliveryTypeOK

LEMMA NotifyHostType ==
  ASSUME PipelineOK, NotifyHost PROVE DeliveryTypeOK' /\ HandOK'
<1>1. HandOK' BY NoHandOK DEF NotifyHost
<1>2. hand.host \in Hosts BY DEF PipelineOK, HandOK, NotifyHost
<1>3. unreachable' \subseteq Hosts
  BY <1>2 DEF NotifyHost, UnreachableAfter, PipelineOK, DeliveryTypeOK
<1>4. hostInbox' \in [Hosts -> Seq({"unreachable", "reachable"})]
  <2>1. hostInbox \in [Hosts -> Seq({"unreachable", "reachable"})]
    BY DEF PipelineOK, DeliveryTypeOK
  <2>2. \A ok : Append(hostInbox[hand.host], IF ok THEN "reachable" ELSE "unreachable")
                  \in Seq({"unreachable", "reachable"})
    BY <1>2, <2>1
  <2> QED BY <2>1, <2>2 DEF NotifyHost
<1> QED BY <1>1, <1>3, <1>4, NoHandType DEF NotifyHost, ghosts, PipelineOK, DeliveryTypeOK

LEMMA RestartType ==
  ASSUME PipelineOK, Restart PROVE DeliveryTypeOK' /\ HandOK'
<1>1. HandOK' BY NoHandOK DEF Restart
<1>2. lastOk' \in [Hosts -> Nat] BY DEF Restart, Never
<1>3. restarts' \in 0..MaxRestarts
  BY DeliveryAssumption DEF Restart, PipelineOK, DeliveryTypeOK
<1>4. hand.result.found \subseteq Keys BY DEF PipelineOK, HandOK, HandType, Result
<1> QED BY <1>1, <1>2, <1>3, <1>4, NoHandType DEF Restart, PipelineOK, DeliveryTypeOK

LEMMA PipelineInit == DeliveryInit => PipelineOK
<1> SUFFICES ASSUME DeliveryInit PROVE PipelineOK OBVIOUS
<1>1. TypeOK BY InitType DEF DeliveryInit
<1>2. Stamped BY ConstantTypes DEF DeliveryInit, Init, Stamped
<1>3. HandOK
  <2>1. \A k \in Keys : ShapeOK(k) BY NoHandType DEF DeliveryInit, ShapeOK
  <2> QED BY <2>1, NoHandType DEF DeliveryInit, HandOK, HandType
<1>4. DeliveryTypeOK
  <2>1. /\ lastOk \in [Hosts -> Nat] /\ hand.stage \in {"none", "publish", "notify"}
        /\ inbox \in [Channels -> [Keys -> Seq(Messages)]]
        /\ hostInbox \in [Hosts -> Seq({"unreachable", "reachable"})]
    BY NoHandType DEF DeliveryInit, Never
  <2>2. diskTopic \in [Keys -> [kind : {"none", "missing", "present"}, status : Severity]]
    BY DEF DeliveryInit, NoTopic, OK, Severity
  <2>3. /\ hostTopic \in [Hosts -> [reachable : BOOLEAN, lastSuccess : Nat]]
        /\ restarts \in 0..MaxRestarts
    BY DeliveryAssumption DEF DeliveryInit, Never
  <2> QED BY <2>1, <2>2, <2>3 DEF DeliveryInit, DeliveryTypeOK
<1> QED BY <1>1, <1>2, <1>3, <1>4 DEF PipelineOK

LEMMA PipelineStep == PipelineOK /\ [DeliveryNext]_allVars => PipelineOK'
<1> SUFFICES ASSUME PipelineOK, [DeliveryNext]_allVars PROVE PipelineOK' OBVIOUS
<1>1. TypeOK' /\ Stamped' BY DeliveryStep, NextType, StampedStep DEF PipelineOK
<1>2. CASE UNCHANGED <<hand, listenerVars, ghosts, disks>>
  <2>1. DeliveryTypeOK' BY <1>2 DEF listenerVars, ghosts, PipelineOK, DeliveryTypeOK
  <2>2. \A k \in Keys : ShapeOK(k)' BY <1>2 DEF PipelineOK, HandOK, ShapeOK, Known
  <2>3. HandOK' BY <1>2, <2>2 DEF PipelineOK, HandOK, HandType
  <2> QED BY <1>1, <2>1, <2>3 DEF PipelineOK
<1>3. CASE CollectNext \/ RollupNext BY <1>2, <1>3 DEF CollectNext, Collect, RollupNext, Rollup
<1>4. CASE SaveRaises BY <1>2, <1>4 DEF SaveRaises, Abandon
<1>5. CASE UNCHANGED allVars BY <1>2, <1>5 DEF allVars, vars
<1> QED BY <1>1, <1>2, <1>3, <1>4, <1>5, SaveNextType, PublishType, NotifyDiskType, NotifyHostType,
           RestartType
        DEF DeliveryNext, PipelineOK

-----------------------------------------------------------------------------
(* Failed polls *)

LEMMA FailedInit == DeliveryInit => FailedIsEmpty
<1>1. NoResult.kind = "none" /\ NoResult.found = {} BY DEF NoResult, EmptyResult
<1> QED BY <1>1, NoHandType DEF DeliveryInit, Init, FailedIsEmpty, NoHand, IsMissing

LEMMA FailedStep ==
  ASSUME PipelineOK, FailedIsEmpty, [DeliveryNext]_allVars
  PROVE  FailedIsEmpty'
<1> DEFINE Failed == \A h \in Hosts : pending[h].kind # "ok" => pending[h].found = {}
           InHand == hand.result.kind # "ok" =>
                       hand.result.found = {} /\ \A k \in Keys : ~IsMissing(k)
<1>1. NoResult.kind = "none" /\ NoResult.found = {} BY DEF NoResult, EmptyResult
<1>2. hand' = NoHand => InHand' BY <1>1, NoHandType DEF NoHand, IsMissing
<1>3. hand' = hand => InHand' BY DEF FailedIsEmpty, IsMissing
<1>4. (pending' = [h \in Hosts |-> NoResult]) => Failed' BY <1>1
<1>5. pending' = pending => Failed' BY DEF FailedIsEmpty
<1>6. CASE CollectNext
  <2>1. \A h, at, reachable, placed, status :
          Collected(h, at, reachable, placed, status).kind # "ok" =>
            Collected(h, at, reachable, placed, status).found = {}
    BY DEF Collected, EmptyResult
  <2>2. Failed' BY <1>6, <2>1 DEF CollectNext, Collect
  <2> QED BY <1>3, <1>6, <2>2 DEF CollectNext, FailedIsEmpty
<1>7. CASE SaveNext
  <2>1. PICK h \in Hosts :
          /\ SaveFailure(h) \/ SaveSuccess(h)
          /\ hand' = [stage |-> "publish", host |-> h, result |-> pending[h],
                      changes |-> [k \in Keys |-> ChangesOf(k, h, pending[h])]]
    BY <1>7 DEF SaveNext
  <2>2. pending' = [pending EXCEPT ![h] = NoResult] BY <2>1 DEF SaveFailure, SaveSuccess
  <2>3. Failed' BY <1>1, <2>2 DEF FailedIsEmpty, PipelineOK, TypeOK
  <2>4. hand'.result.kind # "ok" => \A k \in Keys : hand'.changes[k] = <<>>
    BY <2>1 DEF ChangesOf
  <2>5. InHand' BY <2>1, <2>4 DEF FailedIsEmpty, IsMissing
  <2> QED BY <2>3, <2>5 DEF FailedIsEmpty
<1>8. CASE Publish
  <2>1. hand'.result = hand.result /\ hand'.changes = hand.changes /\ pending' = pending
    BY <1>8 DEF Publish, PipelineOK, HandOK, HandType, vars
  <2> QED BY <1>5, <2>1 DEF FailedIsEmpty, IsMissing
<1>9. ASSUME NEW k \in Keys, NotifyDisk(k) PROVE FailedIsEmpty'
  <2>1. /\ hand'.result = hand.result /\ pending' = pending
        /\ hand'.changes = [hand.changes EXCEPT ![k] = <<>>]
    BY <1>9 DEF NotifyDisk, PipelineOK, HandOK, HandType, vars
  <2>2. \A j \in Keys : hand'.changes[j] = hand.changes[j] \/ hand'.changes[j] = <<>>
    BY <2>1 DEF PipelineOK, HandOK, HandType
  <2>3. \A j \in Keys : IsMissing(j)' => IsMissing(j) BY <2>2 DEF IsMissing
  <2> QED BY <1>5, <2>1, <2>3 DEF FailedIsEmpty
<1>10. CASE NotifyHost BY <1>2, <1>5, <1>10 DEF NotifyHost, FailedIsEmpty, vars
<1>11. CASE RollupNext BY <1>3, <1>5, <1>11 DEF RollupNext, Rollup, FailedIsEmpty
<1>12. CASE SaveRaises BY <1>3, <1>4, <1>12 DEF SaveRaises, Abandon, FailedIsEmpty
<1>13. CASE Restart BY <1>2, <1>4, <1>13 DEF Restart, Abandon, FailedIsEmpty
<1>14. CASE UNCHANGED allVars BY <1>3, <1>5, <1>14 DEF allVars, vars, FailedIsEmpty
<1> QED BY <1>6, <1>7, <1>8, <1>9, <1>10, <1>11, <1>12, <1>13, <1>14 DEF DeliveryNext

-----------------------------------------------------------------------------
(* The success a host's topic shows *)

LEMMA SuccessStep ==
  ASSUME PipelineOK, SuccessInv, [DeliveryNext]_allVars
  PROVE  SuccessInv'
<1>1. hand \in HandType /\ TypeOK /\ DeliveryTypeOK BY DEF PipelineOK, HandOK
<1>2. CASE UNCHANGED <<hand, hosts, lastOk, hostTopic>> BY <1>2 DEF SuccessInv
<1>3. CASE SaveNext
  <2>1. PICK h \in Hosts :
          /\ SaveFailure(h) \/ SaveSuccess(h)
          /\ hand' = [stage |-> "publish", host |-> h, result |-> pending[h],
                      changes |-> [k \in Keys |-> ChangesOf(k, h, pending[h])]]
    BY <1>3 DEF SaveNext
  <2>2. /\ hand.stage = "none" /\ lastOk' = lastOk /\ hostTopic' = hostTopic
        /\ hand'.stage = "publish" /\ hand'.host = h /\ hand'.result = pending[h]
    BY <1>3, <2>1 DEF SaveNext, Free, listenerVars
  <2>3. \A g \in Hosts : g # h => hosts'[g] = hosts[g]
    BY <1>1, <2>1 DEF SaveFailure, SaveSuccess, TypeOK
  <2>4. hosts'[h].lastSuccess =
          IF pending[h].kind = "ok" THEN pending[h].at ELSE hosts[h].lastSuccess
    BY <1>1, <2>1 DEF SaveFailure, SaveSuccess, HostRowAfter, TypeOK
  <2> QED BY <2>2, <2>3, <2>4 DEF SuccessInv
<1>4. CASE Publish
  <2>1. /\ hand.stage = "publish" /\ hand'.stage = "notify" /\ hosts' = hosts
        /\ hand.host \in Hosts
    BY <1>4 DEF Publish, PipelineOK, HandOK, HandType, vars
  <2>2. \A g \in Hosts : g # hand.host => lastOk'[g] = lastOk[g] /\ hostTopic'[g] = hostTopic[g]
    BY <1>1, <1>4 DEF Publish, DeliveryTypeOK
  <2>3. /\ lastOk'[hand.host] =
             IF hand.result.kind = "ok" THEN hand.result.at ELSE lastOk[hand.host]
        /\ hostTopic'[hand.host].lastSuccess = lastOk'[hand.host]
    BY <1>1, <1>4, <2>1 DEF Publish, DeliveryTypeOK, SuccessShown
  <2> QED BY <2>1, <2>2, <2>3 DEF SuccessInv
<1>5. ASSUME NEW k \in Keys, NotifyDisk(k) PROVE SuccessInv'
  <2>1. /\ hand.stage = "notify" /\ hand'.stage = "notify"
        /\ UNCHANGED <<hosts, lastOk, hostTopic>>
    BY <1>1, <1>5 DEF NotifyDisk, HandType, vars
  <2> QED BY <2>1 DEF SuccessInv
<1>6. CASE NotifyHost
  <2>1. /\ hand.stage = "notify" /\ hand'.stage = "none"
        /\ UNCHANGED <<hosts, lastOk, hostTopic>>
    BY <1>6, NoHandType DEF NotifyHost, vars
  <2> QED BY <2>1 DEF SuccessInv
<1>7. CASE Restart
  <2>1. hand'.stage = "none" /\ \A h \in Hosts : lastOk'[h] = Never
    BY <1>7, NoHandType DEF Restart
  <2> QED BY <2>1 DEF SuccessInv
<1>8. CASE CollectNext \/ RollupNext
  BY <1>2, <1>8 DEF CollectNext, Collect, RollupNext, Rollup, listenerVars
<1>9. CASE SaveRaises BY <1>2, <1>9 DEF SaveRaises, Abandon, listenerVars
<1>10. CASE UNCHANGED allVars BY <1>2, <1>10 DEF allVars, vars, listenerVars
<1> QED BY <1>3, <1>4, <1>5, <1>6, <1>7, <1>8, <1>9, <1>10 DEF DeliveryNext

\* Home Assistant shows the last success the database has, for every host that
\* answered since the process started, through failed polls and whatever the
\* clock does (mqtt.py, host_state).
THEOREM SuccessKept == DeliverySpec => []HostTopicKeepsSuccess
<1>1. DeliveryInit => PipelineOK /\ SuccessInv
  BY PipelineInit, NoHandType DEF DeliveryInit, SuccessInv
<1>2. PipelineOK /\ SuccessInv /\ [DeliveryNext]_allVars => (PipelineOK /\ SuccessInv)'
  BY PipelineStep, SuccessStep
<1>3. SuccessInv => HostTopicKeepsSuccess BY DEF SuccessInv, HostTopicKeepsSuccess, Free
<1> QED BY <1>1, <1>2, <1>3, PTL DEF DeliverySpec

-----------------------------------------------------------------------------
(* The state a disk's topic shows *)

LEMMA SavedTopic ==
  ASSUME PipelineOK, SteadyTables, FailedIsEmpty, hand.stage = "none", TopicInv,
         NEW h \in Hosts, SaveFailure(h) \/ SaveSuccess(h),
         UNCHANGED <<behind, diskTopic>>, hand'.stage = "publish", hand'.result = pending[h],
         NEW k \in Keys, hand'.changes[k] = ChangesOf(k, h, pending[h]), Known(k)',
         k \notin behind \/ k \in pending[h].found \/ IsMissing(k)'
  PROVE  DiskTopicAfter(k)' = TopicDue(k)'
<1> DEFINE result == pending[h]
<1>1. TypeOK /\ result \in Result BY DEF PipelineOK, TypeOK
<1>2. DiskTopicAfter(k)' = IF k \in result.found THEN PresentTopic(result.status[k])
                          ELSE IF IsMissing(k)' THEN MissingTopic ELSE diskTopic[k]
  BY DEF DiskTopicAfter
<1>3. TopicDue(k)' = IF Seen(k)' = "missing" THEN MissingTopic ELSE PresentTopic(disks'[k].status)
  BY DEF TopicDue, Seen
<1>4. Known(k) /\ k \notin behind => diskTopic[k] = TopicDue(k) BY DEF TopicInv
<1>5. Known(k) => TopicDue(k) =
        IF Seen(k) = "missing" THEN MissingTopic ELSE PresentTopic(disks[k].status)
  BY DEF TopicDue, Seen
<1>6. CASE SaveFailure(h)
  <2>1. result.found = {} /\ ~IsMissing(k)'
    BY <1>6 DEF SaveFailure, FailedIsEmpty, ChangesOf, IsMissing
  <2>2. Seen(k)' = Seen(k) /\ disks' = disks /\ Known(k)
    <3>1. disks' = disks BY <1>6 DEF SaveFailure
    <3>2. \A g \in Hosts : hosts'[g].lastSuccess = hosts[g].lastSuccess
      BY <1>1, <1>6, SaveFailureSteady
    <3> QED BY <3>1, <3>2, QuietSeen DEF Known
  <2> QED BY <1>2, <1>3, <1>4, <1>5, <2>1, <2>2
<1>7. CASE SaveSuccess(h)
  <2>1. Seen(k)' = IF k \in result.found THEN "present"
                   ELSE IF Gone(k, h, result) THEN "missing" ELSE Seen(k)
    BY <1>1, <1>7, SaveSuccessMoves
  <2>2. disks'[k] = DiskRowAfter(k, h, result) BY <1>7 DEF SaveSuccess
  <2>3. CASE k \in result.found
    <3>1. disks'[k] = [host |-> h, status |-> result.status[k], lastSeen |-> result.at]
      BY <2>2, <2>3 DEF DiskRowAfter
    <3> QED BY <1>2, <1>3, <2>1, <2>3, <3>1
  <2>4. CASE k \notin result.found
    <3>1. disks'[k] = disks[k] /\ Known(k) BY <2>2, <2>4 DEF DiskRowAfter, Known
    <3>2. ~Back(k, h, result) /\ ~NewsWorthy(k, result) BY <2>4 DEF Back, NewsWorthy
    <3>3. CASE Gone(k, h, result)
      <4>1. hand'.changes[k] = <<MissingChange(k)>>
        BY <1>1, <1>7, <3>3, ChangesAre DEF SaveSuccess
      <4>2. IsMissing(k)' BY <4>1 DEF IsMissing, MissingChange, StatusChange
      <4> QED BY <1>2, <1>3, <2>1, <2>4, <3>3, <4>2
    <3>4. CASE ~Gone(k, h, result)
      <4>1. hand'.changes[k] = <<>> BY <1>1, <3>2, <3>4, ChangesAre
      <4>2. ~IsMissing(k)' BY <4>1 DEF IsMissing
      <4> QED BY <1>2, <1>3, <1>4, <1>5, <2>1, <2>4, <3>1, <3>4, <4>2
    <3> QED BY <3>3, <3>4
  <2> QED BY <2>3, <2>4
<1> QED BY <1>6, <1>7

LEMMA TopicStep ==
  ASSUME PipelineOK, SteadyTables, FailedIsEmpty, TopicInv, [DeliveryNext]_allVars
  PROVE  TopicInv'
<1>1. hand \in HandType /\ TypeOK BY DEF PipelineOK, HandOK
<1>2. ASSUME UNCHANGED <<disks, hosts>>, NEW k \in Keys
      PROVE  (Known(k)' <=> Known(k)) /\ TopicDue(k)' = TopicDue(k)
  BY <1>2 DEF TopicDue, ShownMissing, Known
<1>3. CASE SaveNext
  <2>1. PICK h \in Hosts :
          /\ SaveFailure(h) \/ SaveSuccess(h)
          /\ hand' = [stage |-> "publish", host |-> h, result |-> pending[h],
                      changes |-> [k \in Keys |-> ChangesOf(k, h, pending[h])]]
    BY <1>3 DEF SaveNext
  <2>2. /\ hand.stage = "none" /\ UNCHANGED <<behind, diskTopic>>
        /\ hand'.stage = "publish" /\ hand'.result = pending[h]
        /\ \A k \in Keys : hand'.changes[k] = ChangesOf(k, h, pending[h])
    BY <1>3, <2>1 DEF SaveNext, Free, listenerVars, ghosts
  <2> QED BY <2>1, <2>2, SavedTopic DEF TopicInv
<1>4. CASE Publish
  <2>1. /\ hand.stage = "publish" /\ hand'.stage = "notify" /\ UNCHANGED <<disks, hosts>>
        /\ \A k \in Keys : diskTopic'[k] = DiskTopicAfter(k)
        /\ \A k \in Keys : k \notin behind' =>
              k \notin behind \/ k \in hand.result.found \/ IsMissing(k)
    BY <1>1, <1>4 DEF Publish, HandType, vars
  <2> QED BY <1>2, <2>1 DEF TopicInv
<1>5. ASSUME hand.stage # "publish", hand'.stage # "publish",
             UNCHANGED <<disks, hosts, diskTopic, behind>>
      PROVE  TopicInv'
  BY <1>2, <1>5 DEF TopicInv
<1>6. ASSUME NEW k \in Keys, NotifyDisk(k) PROVE TopicInv'
  <2>1. hand.stage = "notify" /\ hand'.stage = "notify" BY <1>1, <1>6 DEF NotifyDisk, HandType
  <2> QED BY <1>5, <1>6, <2>1 DEF NotifyDisk, vars, ghosts
<1>7. CASE NotifyHost
  <2>1. hand.stage = "notify" /\ hand'.stage = "none" BY <1>7, NoHandType DEF NotifyHost
  <2> QED BY <1>5, <1>7, <2>1 DEF NotifyHost, vars, ghosts
<1>8. CASE Restart
  <2>1. /\ hand'.stage = "none" /\ UNCHANGED <<disks, hosts, diskTopic>>
    BY <1>8, NoHandType DEF Restart, Abandon
  <2>2. CASE hand.stage # "publish"
    BY <1>5, <1>8, <2>1, <2>2 DEF Restart
  <2>3. CASE hand.stage = "publish"
    <3>1. \A k \in Keys : k \notin behind' =>
            k \notin behind /\ k \notin hand.result.found /\ hand.changes[k] = <<>>
      BY <1>8, <2>3 DEF Restart
    <3>2. \A k \in Keys : k \notin behind' => DiskTopicAfter(k) = diskTopic[k]
      BY <3>1 DEF DiskTopicAfter, IsMissing
    <3> QED BY <1>2, <2>1, <2>3, <3>1, <3>2 DEF TopicInv
  <2> QED BY <2>2, <2>3
<1>9. CASE CollectNext \/ RollupNext
  BY <1>5, <1>9 DEF CollectNext, Collect, RollupNext, Rollup, listenerVars, ghosts, Free
<1>10. CASE SaveRaises BY <1>5, <1>10 DEF SaveRaises, Abandon, listenerVars, ghosts, Free
<1>11. CASE UNCHANGED allVars
  <2>1. UNCHANGED <<disks, hosts, diskTopic, behind, hand>>
    BY <1>11 DEF allVars, vars, listenerVars, ghosts
  <2> QED BY <1>2, <2>1 DEF TopicInv, DiskTopicAfter, IsMissing
<1> QED BY <1>3, <1>4, <1>6, <1>7, <1>8, <1>9, <1>10, <1>11 DEF DeliveryNext

\* Home Assistant shows every disk as the API does, but for the disks of the one
\* host a restart caught between the database and the broker (service.py, poll).
THEOREM TopicsMatch ==
  ASSUME SteadyWorld
  PROVE  DeliverySpec => []RetainedMatchesStorage
<1> DEFINE IInv == PipelineOK /\ FailedIsEmpty /\ TopicInv
<1>1. DeliveryInit => IInv
  <2>1. DeliveryInit => TopicInv BY NoHandType DEF DeliveryInit, Init, TopicInv, Known, NoRow
  <2> QED BY <2>1, PipelineInit, FailedInit
<1>2. IInv /\ PresenceInv /\ [DeliveryNext]_allVars => IInv'
  BY PipelineStep, FailedStep, TopicStep DEF PresenceInv
<1>3. DeliverySpec => []PresenceInv BY PipelineIsStorage, PresenceInvariant, PTL
<1>4. IInv => RetainedMatchesStorage BY DEF TopicInv, RetainedMatchesStorage, TopicDue, Free
<1> QED BY <1>1, <1>2, <1>3, <1>4, PTL DEF DeliverySpec

-----------------------------------------------------------------------------
(* Messages about hosts *)

LEMMA LastAppended ==
  ASSUME NEW S, NEW s \in Seq(S), NEW e \in S
  PROVE  LET t == Append(s, e) IN
         /\ Len(s) \in Nat /\ Len(t) = Len(s) + 1 /\ t # <<>> /\ LastOf(t) = e
         /\ t[Len(s) + 1] = e /\ \A i \in 1..Len(s) : t[i] = s[i]
         /\ s # <<>> => Len(s) \in 1..Len(s)
         /\ s = <<>> => Len(s) = 0
<1>1. /\ Len(s) \in Nat /\ Len(Append(s, e)) = Len(s) + 1
      /\ Append(s, e)[Len(s) + 1] = e /\ \A i \in 1..Len(s) : Append(s, e)[i] = s[i]
  OBVIOUS
<1>2. s # <<>> => Len(s) # 0 BY EmptySeq
<1>3. Append(s, e) # <<>> BY <1>1
<1> QED BY <1>1, <1>2, <1>3 DEF LastOf

LEMMA RepeatsAppend ==
  ASSUME NEW S, NEW s \in Seq(S), NEW e \in S
  PROVE  /\ IsFiniteSet(Repeats(s)) /\ Cardinality(Repeats(s)) \in Nat
         /\ s # <<>> /\ LastOf(s) = e =>
              Cardinality(Repeats(Append(s, e))) = Cardinality(Repeats(s)) + 1
         /\ ~(s # <<>> /\ LastOf(s) = e) => Repeats(Append(s, e)) = Repeats(s)
<1> DEFINE t == Append(s, e)
           n == Len(s)
<1>1. /\ n \in Nat /\ Len(t) = n + 1 /\ t[n + 1] = e /\ \A i \in 1..n : t[i] = s[i]
      /\ s = <<>> => n = 0
  BY LastAppended
<1>2. IsFiniteSet(Repeats(s))
  <2>1. IsFiniteSet(2..n) BY <1>1, FS_Interval
  <2> QED BY <2>1, FS_Subset DEF Repeats
<1>3. n + 1 \notin Repeats(s) BY <1>1 DEF Repeats
<1> HIDE DEF t
<1>4. ASSUME NEW i \in 2..n PROVE i \in Repeats(t) <=> i \in Repeats(s)
  <2>1. i \in 1..n /\ i - 1 \in 1..n /\ i \in 2..(n + 1) BY <1>1
  <2>2. t[i] = s[i] /\ t[i-1] = s[i-1] BY <1>1, <2>1
  <2> QED BY <1>1, <2>1, <2>2 DEF Repeats
<1>5. n + 1 \in Repeats(t) <=> s # <<>> /\ LastOf(s) = e
  <2>1. CASE s = <<>> BY <1>1, <2>1 DEF Repeats
  <2>2. CASE s # <<>>
    <3>1. n \in 1..n BY <2>2, LastAppended
    <3>2. n + 1 \in 2..(n + 1) /\ (n + 1) - 1 = n /\ t[n] = s[n] BY <1>1, <3>1
    <3>3. n + 1 \in Repeats(t) <=> t[n + 1] = t[n] BY <1>1, <3>2 DEF Repeats
    <3> QED BY <1>1, <2>2, <3>2, <3>3 DEF LastOf
  <2> QED BY <2>1, <2>2
<1>6. Repeats(t) \subseteq 2..(n + 1) /\ Repeats(s) \subseteq 2..n BY <1>1 DEF Repeats
<1>7. \A i \in 2..(n + 1) : i = n + 1 \/ i \in 2..n BY <1>1
<1>8. Repeats(t) = IF s # <<>> /\ LastOf(s) = e THEN Repeats(s) \cup {n + 1} ELSE Repeats(s)
  <2>1. \A i : i \in Repeats(t) <=> i \in Repeats(s) \/ (i = n + 1 /\ n + 1 \in Repeats(t))
    <3>1. Repeats(s) \subseteq 2..(n + 1) BY <1>1, <1>6
    <3> QED BY <1>3, <1>4, <1>6, <1>7, <3>1
  <2>2. CASE n + 1 \in Repeats(t)
    <3>1. Repeats(t) = Repeats(s) \cup {n + 1} BY <2>1, <2>2
    <3> QED BY <1>5, <2>2, <3>1
  <2>3. CASE n + 1 \notin Repeats(t)
    <3>1. Repeats(t) = Repeats(s) BY <2>1, <2>3
    <3> QED BY <1>5, <2>3, <3>1
  <2> QED BY <2>2, <2>3
<1>9. Cardinality(Repeats(s)) \in Nat BY <1>2, FS_CardinalityType
<1>10. Cardinality(Repeats(s) \cup {n + 1}) = Cardinality(Repeats(s)) + 1
  BY <1>2, <1>3, FS_AddElement
<1> QED BY <1>2, <1>8, <1>9, <1>10 DEF t

LEMMA ReachableMailed ==
  ASSUME NEW s \in Seq({"unreachable", "reachable"}), NEW n \in Nat,
         NEW h, NEW before, NEW after, h \in before, h \notin after, HostMailOK(h, s, before, n)
  PROVE  HostMailOK(h, Append(s, "reachable"), after, n)
<1> DEFINE t == Append(s, "reachable")
<1>1. s # <<>> /\ LastOf(s) = "unreachable" /\ Cardinality(Repeats(s)) <= n
  BY DEF HostMailOK
<1>2. /\ Len(s) \in Nat /\ Len(t) = Len(s) + 1 /\ LastOf(t) = "reachable"
      /\ \A i \in 1..Len(s) : t[i] = s[i]
      /\ Len(s) \in 1..Len(s)
  BY <1>1, LastAppended
<1>3. Repeats(t) = Repeats(s) BY <1>1, RepeatsAppend
<1> HIDE DEF t
<1>4. ASSUME NEW i \in 1..Len(t), t[i] = "reachable" PROVE i > 1 /\ t[i-1] = "unreachable"
  <2>1. CASE i = Len(s) + 1
    <3>1. i > 1 /\ i - 1 = Len(s) BY <1>2, <2>1
    <3> QED BY <1>1, <1>2, <3>1 DEF LastOf
  <2>2. CASE i # Len(s) + 1
    <3>1. i \in 1..Len(s) /\ s[i] = "reachable" BY <1>2, <1>4, <2>2
    <3>2. i > 1 /\ s[i-1] = "unreachable" BY <3>1 DEF HostMailOK
    <3>3. i - 1 \in 1..Len(s) BY <1>2, <3>1, <3>2
    <3> QED BY <1>2, <3>2, <3>3
  <2> QED BY <2>1, <2>2
<1>5. HostMailOK(h, t, after, n) BY <1>1, <1>2, <1>3, <1>4 DEF HostMailOK
<1> QED BY <1>5 DEF t

LEMMA UnreachableMailed ==
  ASSUME NEW s \in Seq({"unreachable", "reachable"}), NEW n \in Nat,
         NEW h, NEW before, NEW after, h \notin before, h \in after, HostMailOK(h, s, before, n)
  PROVE  HostMailOK(h, Append(s, "unreachable"), after, n)
<1> DEFINE t == Append(s, "unreachable")
<1>1. /\ Len(s) \in Nat /\ Len(t) = Len(s) + 1 /\ LastOf(t) = "unreachable" /\ t # <<>>
      /\ t[Len(s) + 1] = "unreachable" /\ \A i \in 1..Len(s) : t[i] = s[i]
  BY LastAppended
<1>2. Cardinality(Repeats(t)) <= n
  <2>1. CASE s # <<>> /\ LastOf(s) = "unreachable"
    <3>1. Cardinality(Repeats(t)) = Cardinality(Repeats(s)) + 1 BY <2>1, RepeatsAppend
    <3> QED BY <2>1, <3>1 DEF HostMailOK
  <2>2. CASE ~(s # <<>> /\ LastOf(s) = "unreachable")
    <3>1. Repeats(t) = Repeats(s) BY <2>2, RepeatsAppend
    <3> QED BY <3>1 DEF HostMailOK
  <2> QED BY <2>1, <2>2
<1> HIDE DEF t
<1>3. ASSUME NEW i \in 1..Len(t), t[i] = "reachable" PROVE i > 1 /\ t[i-1] = "unreachable"
  <2>1. i \in 1..Len(s) /\ s[i] = "reachable" BY <1>1, <1>3
  <2>2. i > 1 /\ s[i-1] = "unreachable" BY <2>1 DEF HostMailOK
  <2>3. i - 1 \in 1..Len(s) BY <1>1, <2>1, <2>2
  <2> QED BY <1>1, <2>2, <2>3
<1>4. HostMailOK(h, t, after, n) BY <1>1, <1>2, <1>3 DEF HostMailOK
<1> QED BY <1>4 DEF t

LEMMA HostMailStep ==
  ASSUME PipelineOK, HostMailInv, [DeliveryNext]_allVars
  PROVE  HostMailInv'
<1>1. /\ hostInbox \in [Hosts -> Seq({"unreachable", "reachable"})]
      /\ restarts \in Nat
  BY DeliveryAssumption DEF PipelineOK, DeliveryTypeOK
<1>2. \A h \in Hosts : HostMailOK(h, hostInbox[h], unreachable, restarts) BY DEF HostMailInv
<1>3. CASE UNCHANGED <<hostInbox, unreachable, restarts>> BY <1>3 DEF HostMailInv
<1>4. CASE Restart
  <2>1. unreachable' = {} /\ restarts' = restarts + 1 /\ hostInbox' = hostInbox
    BY <1>4 DEF Restart
  <2>2. \A h \in Hosts : Cardinality(Repeats(hostInbox[h])) \in Nat
    BY <1>1, RepeatsAppend
  <2>3. \A h \in Hosts : HostMailOK(h, hostInbox[h], {}, restarts + 1)
    BY <1>1, <1>2, <2>2 DEF HostMailOK
  <2> QED BY <2>1, <2>3 DEF HostMailInv
<1>5. CASE NotifyHost
  <2> DEFINE h == hand.host
  <2>1. h \in Hosts /\ restarts' = restarts
    BY <1>5 DEF NotifyHost, PipelineOK, HandOK, ghosts
  <2>2. \A g \in Hosts : g # h =>
          hostInbox'[g] = hostInbox[g] /\ (g \in unreachable' <=> g \in unreachable)
    BY <1>1, <1>5 DEF NotifyHost, UnreachableAfter
  <2>3. \A g \in Hosts : g # h => HostMailOK(g, hostInbox'[g], unreachable', restarts)
    BY <1>2, <2>2 DEF HostMailOK
  <2>4. HostMailOK(h, hostInbox'[h], unreachable', restarts)
    <3>1. CASE ~NotifyUnreachable \/ ~(hand.result.kind = "ok" <=> h \in unreachable)
      <4>1. hostInbox'[h] = hostInbox[h] /\ (h \in unreachable' <=> h \in unreachable)
        BY <1>1, <1>5, <2>1, <3>1 DEF NotifyHost, UnreachableAfter
      <4>2. HostMailOK(h, hostInbox[h], unreachable, restarts) BY <1>2, <2>1
      <4> QED BY <4>1, <4>2 DEF HostMailOK
    <3>2. CASE NotifyUnreachable /\ hand.result.kind = "ok" /\ h \in unreachable
      <4>1. hostInbox'[h] = Append(hostInbox[h], "reachable") /\ h \notin unreachable'
        BY <1>1, <1>5, <2>1, <3>2 DEF NotifyHost, UnreachableAfter
      <4>2. hostInbox[h] \in Seq({"unreachable", "reachable"}) BY <1>1, <2>1
      <4>3. HostMailOK(h, hostInbox[h], unreachable, restarts) BY <1>2, <2>1
      <4> HIDE DEF h
      <4>4. HostMailOK(h, Append(hostInbox[h], "reachable"), unreachable', restarts)
        BY <1>1, <3>2, <4>1, <4>2, <4>3, ReachableMailed
      <4> QED BY <4>1, <4>4
    <3>3. CASE NotifyUnreachable /\ hand.result.kind # "ok" /\ h \notin unreachable
      <4>1. hostInbox'[h] = Append(hostInbox[h], "unreachable") /\ h \in unreachable'
        BY <1>1, <1>5, <2>1, <3>3 DEF NotifyHost, UnreachableAfter
      <4>2. hostInbox[h] \in Seq({"unreachable", "reachable"}) BY <1>1, <2>1
      <4>3. HostMailOK(h, hostInbox[h], unreachable, restarts) BY <1>2, <2>1
      <4> HIDE DEF h
      <4>4. HostMailOK(h, Append(hostInbox[h], "unreachable"), unreachable', restarts)
        BY <1>1, <3>3, <4>1, <4>2, <4>3, UnreachableMailed
      <4> QED BY <4>1, <4>4
    <3> QED BY <3>1, <3>2, <3>3
  <2> HIDE DEF h
  <2> QED BY <2>1, <2>3, <2>4 DEF HostMailInv
<1>6. CASE CollectNext \/ RollupNext \/ SaveRaises \/ SaveNext
  BY <1>3, <1>6 DEF CollectNext, RollupNext, SaveRaises, SaveNext, listenerVars, ghosts
<1>7. CASE Publish \/ \E k \in Keys : NotifyDisk(k)
  BY <1>3, <1>7 DEF Publish, NotifyDisk, ghosts
<1>8. CASE UNCHANGED allVars BY <1>3, <1>8 DEF allVars, listenerVars, ghosts
<1> QED BY <1>4, <1>5, <1>6, <1>7, <1>8 DEF DeliveryNext

\* A host's return is only reported after its loss, and a loss is reported
\* twice in a row no more often than the process was restarted (alerts.py,
\* _host_changes).
THEOREM HostMailTakesTurns == DeliverySpec => []HostMailAlternates
<1>1. DeliveryInit => HostMailInv
  <2> SUFFICES ASSUME DeliveryInit PROVE HostMailInv OBVIOUS
  <2>1. Repeats(<<>>) = {} /\ Cardinality({}) = 0 /\ Len(<<>>) = 0
    <3>1. Len(<<>>) = 0 OBVIOUS
    <3> QED BY <3>1, FS_EmptySet DEF Repeats
  <2>2. \A h \in Hosts : \A mail : mail = <<>> => HostMailOK(h, mail, {}, 0)
    <3>1. \A mail : mail = <<>> => Cardinality(Repeats(mail)) = 0 /\ Len(mail) = 0 BY <2>1
    <3> QED BY <3>1 DEF HostMailOK
  <2> QED BY <2>2 DEF DeliveryInit, HostMailInv
<1>2. PipelineOK /\ HostMailInv /\ [DeliveryNext]_allVars => (PipelineOK /\ HostMailInv)'
  BY PipelineStep, HostMailStep
<1>3. HostMailInv => HostMailAlternates BY DEF HostMailInv, HostMailOK, HostMailAlternates, Repeats
<1> QED BY <1>1, <1>2, <1>3, PipelineInit, PTL DEF DeliverySpec

-----------------------------------------------------------------------------
(* Messages about disks that come and go *)

PresenceKinds == {"missing", "back"}

\* Every announcement is mailed if the floor is the lowest; a status is none.
LEMMA MailedPresence ==
  ASSUME Floor = WARNING, NotifyRecovery = TRUE, NEW change \in StatusChanges,
         NEW mail \in Seq(Messages)
  PROVE  Only(PresenceKinds, Mailed("mail", change, mail)) =
           IF change.kind = "status" THEN Only(PresenceKinds, mail)
           ELSE Append(Only(PresenceKinds, mail), Message(change))
<1>1. change.kind \in {"missing", "returned", "status"} /\ Message(change) \in Messages
  BY MessageType DEF StatusChanges
<1>2. change.kind # "status" => ShouldNotify(change) /\ Sent("mail", change)
  BY <1>1 DEF ShouldNotify, Sent, WARNING
<1>3. Message(change) \in PresenceKinds <=> change.kind # "status"
  BY <1>1, MessageType DEF PresenceKinds
<1>4. Only(PresenceKinds, Append(mail, Message(change))) =
        IF Message(change) \in PresenceKinds THEN Append(Only(PresenceKinds, mail), Message(change))
        ELSE Only(PresenceKinds, mail)
  BY <1>1, OnlyAppend
<1> QED BY <1>2, <1>3, <1>4 DEF Mailed

LEMMA SaysAppend ==
  ASSUME NEW s \in Seq({"missing", "returned"}), NEW e \in {"missing", "returned"}
  PROVE  SaysMissing(Append(s, e)) =
           Append(SaysMissing(s), IF e = "missing" THEN "missing" ELSE "back")
<1> DEFINE t == Append(s, e)
           word == IF e = "missing" THEN "missing" ELSE "back"
           left == SaysMissing(t)
           right == Append(SaysMissing(s), word)
           n == Len(s)
<1>1. /\ n \in Nat /\ Len(t) = n + 1 /\ t[n + 1] = e /\ \A i \in 1..n : t[i] = s[i]
      /\ t \in Seq({"missing", "returned"}) /\ DOMAIN s = 1..n /\ DOMAIN t = 1..(n + 1)
  BY LastAppended
<1>2. SaysMissing(s) \in Seq(PresenceKinds) /\ Len(SaysMissing(s)) = n
  BY <1>1 DEF SaysMissing, PresenceKinds
<1>3. left \in Seq(PresenceKinds) /\ Len(left) = n + 1
  <2> HIDE DEF t
  <2> QED BY <1>1 DEF SaysMissing, PresenceKinds
<1>4. /\ right \in Seq(PresenceKinds) /\ Len(right) = n + 1 /\ right[n + 1] = word
      /\ \A i \in 1..n : right[i] = SaysMissing(s)[i]
  <2>1. word \in PresenceKinds BY DEF PresenceKinds
  <2> HIDE DEF word
  <2> QED BY <1>1, <1>2, <2>1
<1> HIDE DEF t
<1>5. ASSUME NEW i \in 1..(n + 1) PROVE left[i] = right[i]
  <2>1. left[i] = IF t[i] = "missing" THEN "missing" ELSE "back" BY <1>1 DEF SaysMissing
  <2>2. CASE i = n + 1 BY <1>1, <1>4, <2>1, <2>2
  <2>3. CASE i # n + 1
    <3>1. i \in 1..n BY <1>1, <2>3
    <3>2. SaysMissing(s)[i] = IF s[i] = "missing" THEN "missing" ELSE "back"
      BY <1>1, <3>1 DEF SaysMissing
    <3> QED BY <1>1, <1>4, <2>1, <3>1, <3>2
  <2> QED BY <2>2, <2>3
<1> HIDE DEF left, right
<1>6. left = right BY <1>1, <1>3, <1>4, <1>5, SeqEqual
<1> QED BY <1>6 DEF left, right, t

\* Whatever save records of a disk coming or going is the first thing to mail.
LEMMA SavedEvent ==
  ASSUME PipelineOK, NEW h \in Hosts, SaveFailure(h) \/ SaveSuccess(h), NEW k \in Keys,
         hand'.changes[k] = ChangesOf(k, h, pending[h])
  PROVE  SaysMissing(presence'[k]) =
           IF EventDue(k)' THEN Append(SaysMissing(presence[k]), Message(hand'.changes[k][1]))
           ELSE SaysMissing(presence[k])
<1> DEFINE result == pending[h]
           changes == ChangesOf(k, h, result)
<1>1. TypeOK /\ result \in Result /\ presence[k] \in Seq({"missing", "returned"})
  BY DEF PipelineOK, TypeOK
<1>2. EventDue(k)' <=> changes # <<>> /\ changes[1].kind # "status" BY DEF EventDue
<1>3. /\ MissingChange(k).kind = "missing" /\ ReturnedChange(k, result).kind = "returned"
      /\ NewsChange(k, result).kind = "status"
  BY DEF MissingChange, ReturnedChange, NewsChange, StatusChange
<1>4. CASE SaveFailure(h)
  <2>1. changes = <<>> /\ presence' = presence BY <1>4 DEF SaveFailure, ChangesOf
  <2> QED BY <1>2, <2>1
<1>5. CASE SaveSuccess(h)
  <2>1. result.kind = "ok" /\ presence'[k] = PresenceAfter(k, h, result) BY <1>5 DEF SaveSuccess
  <2>2. CASE Gone(k, h, result)
    <3>1. changes = <<MissingChange(k)>> BY <1>1, <2>1, <2>2, ChangesAre
    <3>2. changes # <<>> /\ changes[1] = MissingChange(k) BY <3>1
    <3>3. Message(changes[1]) = "missing" BY <1>3, <3>2 DEF Message
    <3>4. SaysMissing(presence'[k]) = Append(SaysMissing(presence[k]), "missing")
      BY <1>1, <2>1, <2>2, SaysAppend DEF PresenceAfter
    <3> QED BY <1>2, <1>3, <3>2, <3>3, <3>4
  <2>3. CASE ~Gone(k, h, result) /\ Back(k, h, result)
    <3>1. \/ changes = <<ReturnedChange(k, result)>>
          \/ changes = <<ReturnedChange(k, result), NewsChange(k, result)>>
      BY <1>1, <2>1, <2>3, ChangesAre
    <3>2. changes # <<>> /\ changes[1] = ReturnedChange(k, result) BY <3>1
    <3>3. Message(changes[1]) = "back" BY <1>3, <3>2 DEF Message
    <3>4. SaysMissing(presence'[k]) = Append(SaysMissing(presence[k]), "back")
      BY <1>1, <2>1, <2>3, SaysAppend DEF PresenceAfter
    <3> QED BY <1>2, <1>3, <3>2, <3>3, <3>4
  <2>4. CASE ~Gone(k, h, result) /\ ~Back(k, h, result)
    <3>1. changes = <<>> \/ changes = <<NewsChange(k, result)>>
      BY <1>1, <2>1, <2>4, ChangesAre
    <3>2. changes # <<>> => changes[1].kind = "status" BY <1>3, <3>1
    <3>3. presence'[k] = presence[k] BY <2>1, <2>4 DEF PresenceAfter
    <3> QED BY <1>2, <3>2, <3>3
  <2> QED BY <2>2, <2>3, <2>4
<1> QED BY <1>4, <1>5

LEMMA MailStep ==
  ASSUME "mail" \in Channels, Floor = WARNING, NotifyRecovery = TRUE,
         PipelineOK, MailInv, [DeliveryNext]_allVars
  PROVE  MailInv'
<1> DEFINE Same(k) == SaysMissing(presence[k]) =
             IF EventDue(k) THEN Append(PresenceMail("mail", k), Message(hand.changes[k][1]))
             ELSE PresenceMail("mail", k)
<1>1. \A k \in Keys \ untold : Same(k) BY DEF MailInv
<1>2. SUFFICES ASSUME NEW k \in Keys \ untold' PROVE Same(k)' BY DEF MailInv
<1>3. untold \subseteq untold'
  BY DEF DeliveryNext, CollectNext, SaveNext, Publish, NotifyDisk, NotifyHost, RollupNext,
         SaveRaises, Restart, allVars, ghosts
<1>4. Same(k) BY <1>1, <1>2, <1>3
<1>5. ASSUME UNCHANGED <<presence, inbox>>, hand'.changes[k] = hand.changes[k]
      PROVE  Same(k)'
  BY <1>4, <1>5 DEF EventDue, PresenceMail
<1>6. CASE SaveNext
  <2>1. PICK h \in Hosts :
          /\ SaveFailure(h) \/ SaveSuccess(h)
          /\ hand' = [stage |-> "publish", host |-> h, result |-> pending[h],
                      changes |-> [j \in Keys |-> ChangesOf(j, h, pending[h])]]
    BY <1>6 DEF SaveNext
  <2>2. /\ hand.changes[k] = <<>> /\ inbox' = inbox
        /\ hand'.changes[k] = ChangesOf(k, h, pending[h])
    BY <1>6, <2>1 DEF SaveNext, Free, listenerVars, PipelineOK, HandOK
  <2>3. SaysMissing(presence[k]) = PresenceMail("mail", k) BY <1>4, <2>2 DEF EventDue
  <2>4. PresenceMail("mail", k)' = PresenceMail("mail", k) BY <2>2 DEF PresenceMail
  <2>5. SaysMissing(presence'[k]) =
          IF EventDue(k)' THEN Append(SaysMissing(presence[k]), Message(hand'.changes[k][1]))
          ELSE SaysMissing(presence[k])
    BY <2>1, <2>2, SavedEvent
  <2> QED BY <2>3, <2>4, <2>5
<1>7. ASSUME NEW j \in Keys, NotifyDisk(j) PROVE Same(k)'
  <2>1. hand'.changes = [hand.changes EXCEPT ![j] = <<>>] /\ presence' = presence
    BY <1>7 DEF NotifyDisk, PipelineOK, HandOK, HandType, vars
  <2>2. hand.changes \in [Keys -> Seq(StatusChanges)] BY DEF PipelineOK, HandOK, HandType
  <2>3. CASE k # j
    <3>1. inbox'["mail"][k] = inbox["mail"][k] BY <1>7, <2>3, NotifyMails
    <3>2. hand'.changes[k] = hand.changes[k] BY <2>1, <2>2, <2>3
    <3> QED BY <1>4, <2>1, <3>1, <3>2 DEF EventDue, PresenceMail
  <2>4. CASE k = j
    <3> DEFINE changes == hand.changes[k]
               mail == inbox["mail"][k]
               told == Only(PresenceKinds, mail)
    <3>1. /\ Len(changes) = 1 => inbox'["mail"][k] = Mailed("mail", changes[1], mail)
          /\ Len(changes) = 2 => inbox'["mail"][k] = Mailed("mail", changes[2], Mailed("mail", changes[1], mail))
          /\ Len(changes) \in {1, 2} /\ \A i \in 1..Len(changes) : changes[i] \in StatusChanges
      BY <1>7, <2>4, NotifyMails
    <3>2. /\ mail \in Seq(Messages) /\ changes # <<>>
          /\ Len(changes) = 2 => changes[1].kind = "returned" /\ changes[2].kind = "status"
      BY <1>7, <2>4 DEF PipelineOK, HandOK, ShapeOK, DeliveryTypeOK, NotifyDisk
    <3>3. hand'.changes[k] = <<>> BY <2>1, <2>2, <2>4
    <3>4. PresenceMail("mail", k) = told /\ PresenceMail("mail", k)' = Only(PresenceKinds, inbox'["mail"][k])
      BY DEF PresenceMail, PresenceKinds
    <3> HIDE DEF changes, mail, told
    <3>5. \A c \in StatusChanges, m \in Seq(Messages) :
            Only(PresenceKinds, Mailed("mail", c, m)) =
              IF c.kind = "status" THEN Only(PresenceKinds, m)
              ELSE Append(Only(PresenceKinds, m), Message(c))
      BY MailedPresence
    <3>6. Only(PresenceKinds, inbox'["mail"][k]) =
            IF changes[1].kind = "status" THEN told ELSE Append(told, Message(changes[1]))
      <4>1. CASE Len(changes) = 1
        <5>1. changes[1] \in StatusChanges BY <3>1, <4>1
        <5> QED BY <3>1, <3>2, <3>5, <4>1, <5>1 DEF told
      <4>2. CASE Len(changes) = 2
        <5>1. changes[1] \in StatusChanges /\ changes[2] \in StatusChanges BY <3>1, <4>2
        <5>2. Mailed("mail", changes[1], mail) \in Seq(Messages) BY <3>2, <5>1, MailedType
        <5>3. Only(PresenceKinds, inbox'["mail"][k]) = Only(PresenceKinds, Mailed("mail", changes[1], mail))
          BY <3>1, <3>2, <3>5, <4>2, <5>1, <5>2
        <5> QED BY <3>2, <3>5, <4>2, <5>1, <5>3 DEF told
      <4> QED BY <3>1, <4>1, <4>2
    <3>7. SaysMissing(presence[k]) =
            IF changes[1].kind = "status" THEN told ELSE Append(told, Message(changes[1]))
      BY <1>4, <3>2, <3>4 DEF EventDue, changes
    <3> QED BY <2>1, <3>3, <3>4, <3>6, <3>7 DEF EventDue
  <2> QED BY <2>3, <2>4
<1>8. CASE NotifyHost
  <2>1. hand.changes[k] = <<>> /\ hand'.changes[k] = <<>> BY <1>8, NoHandType DEF NotifyHost
  <2> QED BY <1>5, <1>8, <2>1 DEF NotifyHost, vars
<1>9. CASE Restart
  <2>1. hand'.changes[k] = <<>> BY <1>9, NoHandType DEF Restart
  <2>2. hand.changes[k] = <<>> BY <1>2, <1>9 DEF Restart
  <2> QED BY <1>5, <1>9, <2>1, <2>2 DEF Restart, Abandon
<1>10. CASE Publish
  <2>1. hand'.changes = hand.changes BY <1>10 DEF Publish, PipelineOK, HandOK, HandType
  <2> QED BY <1>5, <1>10, <2>1 DEF Publish, vars
<1>11. CASE CollectNext \/ RollupNext
  BY <1>5, <1>11 DEF CollectNext, Collect, RollupNext, Rollup, listenerVars
<1>12. CASE SaveRaises BY <1>5, <1>12 DEF SaveRaises, Abandon, listenerVars
<1>13. CASE UNCHANGED allVars BY <1>5, <1>13 DEF allVars, vars, listenerVars
<1> QED BY <1>6, <1>7, <1>8, <1>9, <1>10, <1>11, <1>12, <1>13 DEF DeliveryNext

\* With the lowest severity floor and recoveries switched on, the events table
\* and a mailbox tell the same story of a disk, in the same order (storage.py,
\* save; alerts.py, on_results), whatever the clock and the configuration do.
THEOREM MailTellsTheEvents ==
  ASSUME Floor = WARNING, NotifyRecovery = TRUE
  PROVE  DeliverySpec => []MailMatchesEvents
<1>1. CASE "mail" \in Channels
  <2>1. DeliveryInit => MailInv
    <3> SUFFICES ASSUME DeliveryInit, NEW k \in Keys
                 PROVE  SaysMissing(presence[k]) = PresenceMail("mail", k) /\ ~EventDue(k)
      BY DEF MailInv
    <3>1. presence[k] = <<>> /\ inbox["mail"][k] = <<>> /\ hand.changes[k] = <<>>
      BY <1>1, NoHandType DEF DeliveryInit, Init
    <3>2. SaysMissing(<<>>) = <<>> BY DEF SaysMissing
    <3> QED BY <3>1, <3>2, OnlyNothing DEF PresenceMail, EventDue
  <2>2. PipelineOK /\ MailInv /\ [DeliveryNext]_allVars => (PipelineOK /\ MailInv)'
    BY <1>1, PipelineStep, MailStep
  <2>3. PipelineOK /\ MailInv => MailMatchesEvents
    BY DEF MailInv, MailMatchesEvents, Free, EventDue, PipelineOK, HandOK
  <2> QED BY <2>1, <2>2, <2>3, PipelineInit, PTL DEF DeliverySpec
<1>2. CASE "mail" \notin Channels
  <2>1. MailMatchesEvents BY <1>2 DEF MailMatchesEvents
  <2> QED BY <2>1, PTL
<1> QED BY <1>1, <1>2

-----------------------------------------------------------------------------
(* Messages about the status of disks *)

StatusKinds == {"recovered", "warning", "critical"}

LEMMA OnlyType ==
  ASSUME NEW kinds, NEW S, NEW mail \in Seq(S) PROVE Only(kinds, mail) \in Seq(S)
<1> DEFINE n == Len(mail)
<1>1. n \in Nat /\ \A i \in 1..n : mail[i] \in S OBVIOUS
<1>2. PICK f : OnlyUpTo(f, kinds, mail, n) /\ Only(kinds, mail) = f[n] BY <1>1, OnlyIs
<1> HIDE DEF n
<1>3. \A i \in 0..n : f[i] = IF i = 0 THEN <<>>
                             ELSE IF mail[i] \in kinds THEN Append(f[i-1], mail[i]) ELSE f[i-1]
  BY <1>2 DEF OnlyUpTo
<1> DEFINE Bad == {i \in 0..n : f[i] \notin Seq(S)}
<1>4. Bad = {}
  <2> SUFFICES ASSUME Bad # {} PROVE FALSE OBVIOUS
  <2> Bad \in SUBSET Nat OBVIOUS
  <2>1. PICK i \in Bad : \A j \in Bad : i <= j BY LeastNumber
  <2>2. i \in 0..n /\ f[i] \notin Seq(S) /\ i # 0
    <3>1. i \in 0..n /\ f[i] \notin Seq(S) BY <2>1
    <3>2. <<>> \in Seq(S) OBVIOUS
    <3>3. i = 0 => f[i] = <<>> BY <1>3, <3>1
    <3> QED BY <3>1, <3>2, <3>3
  <2>3. i - 1 \in 0..n /\ i \in 1..n /\ f[i-1] \in Seq(S)
    <3>1. i - 1 \in 0..n /\ i \in 1..n /\ ~(i <= i - 1) BY <1>1, <2>2
    <3>2. i - 1 \notin Bad BY <2>1, <3>1
    <3> QED BY <3>1, <3>2
  <2>4. f[i] = IF mail[i] \in kinds THEN Append(f[i-1], mail[i]) ELSE f[i-1]
    BY <1>3, <2>2
  <2>5. Append(f[i-1], mail[i]) \in Seq(S) BY <1>1, <2>3
  <2> QED BY <2>2, <2>3, <2>4, <2>5
<1>5. n \in 0..n BY <1>1
<1> QED BY <1>2, <1>4, <1>5

\* A message that is worth a notification is selected; the others are not.
LEMMA MailedStatus ==
  ASSUME NEW c \in Channels, NEW change \in StatusChanges, NEW mail \in Seq(Messages)
  PROVE  Only(StatusKinds, Mailed(c, change, mail)) =
           IF change.kind = "status" /\ change.new # UNKNOWN /\ ShouldNotify(change)
           THEN Append(Only(StatusKinds, mail), Message(change))
           ELSE Only(StatusKinds, mail)
<1>1. change.kind \in {"missing", "returned", "status"} /\ Message(change) \in Messages
  BY MessageType DEF StatusChanges
<1>2. change.new # UNKNOWN => Sent(c, change) BY DEF Sent
<1>3. Message(change) \in StatusKinds <=> change.kind = "status" /\ change.new # UNKNOWN
  BY <1>1, MessageType DEF StatusKinds, OK, UNKNOWN
<1>4. Only(StatusKinds, Append(mail, Message(change))) =
        IF Message(change) \in StatusKinds THEN Append(Only(StatusKinds, mail), Message(change))
        ELSE Only(StatusKinds, mail)
  BY <1>1, OnlyAppend
<1> QED BY <1>2, <1>3, <1>4 DEF Mailed

LEMMA AlertAppended ==
  ASSUME NEW s \in Seq(Messages), NEW m \in Messages, Alternates(s),
         m = "recovered" => Alerted(s)
  PROVE  Alternates(Append(s, m)) /\ (m # "recovered" => Alerted(Append(s, m)))
<1> DEFINE t == Append(s, m)
           n == Len(s)
<1>1. /\ n \in Nat /\ Len(t) = n + 1 /\ t # <<>> /\ LastOf(t) = m
      /\ t[n + 1] = m /\ (\A i \in 1..n : t[i] = s[i]) /\ (s # <<>> => n \in 1..n)
  BY LastAppended
<1> HIDE DEF t
<1>2. ASSUME NEW i \in 1..Len(t), t[i] = "recovered" PROVE i > 1 /\ t[i-1] # "recovered"
  <2>1. CASE i = n + 1
    <3>1. n \in 1..n /\ s[n] # "recovered" BY <1>1, <1>2, <2>1 DEF Alerted, LastOf
    <3>2. i > 1 /\ i - 1 = n BY <1>1, <2>1, <3>1
    <3> QED BY <1>1, <3>1, <3>2
  <2>2. CASE i # n + 1
    <3>1. i \in 1..n /\ s[i] = "recovered" BY <1>1, <1>2, <2>2
    <3>2. i > 1 /\ s[i-1] # "recovered" BY <3>1 DEF Alternates
    <3>3. i - 1 \in 1..n BY <1>1, <3>1, <3>2
    <3> QED BY <1>1, <3>2, <3>3
  <2> QED BY <2>1, <2>2
<1> QED BY <1>1, <1>2 DEF Alternates, Alerted, t

\* One status change, mailed to one channel.
LEMMA AlertMailed ==
  ASSUME NEW c \in Channels, NEW change \in StatusChanges, change.kind = "status",
         NEW mail \in Seq(Messages), Alternates(Only(StatusKinds, mail)),
         change.old >= Floor => Alerted(Only(StatusKinds, mail))
  PROVE  LET after == Only(StatusKinds, Mailed(c, change, mail)) IN
         Alternates(after) /\ (change.new >= Floor => Alerted(after))
<1> DEFINE told == Only(StatusKinds, mail)
           after == Only(StatusKinds, Mailed(c, change, mail))
<1>1. told \in Seq(Messages) /\ Message(change) \in Messages BY OnlyType, MessageType
<1>2. change.new \in 0..3 /\ Floor \in {2, 3}
  BY DeliveryAssumption DEF StatusChanges, Severity, WARNING, CRITICAL
<1>3. after = IF change.new # UNKNOWN /\ ShouldNotify(change) THEN Append(told, Message(change)) ELSE told
  BY MailedStatus
<1>4. ShouldNotify(change) <=>
        \/ change.new >= Floor
        \/ change.new = OK /\ NotifyRecovery /\ change.old >= Floor
  BY DEF ShouldNotify
<1>5. Message(change) = "recovered" <=> change.new = OK
  BY <1>2, MessageType DEF OK
<1> HIDE DEF told, after
<1>6. Alternates(told) /\ (change.old >= Floor => Alerted(told)) BY DEF told
<1>7. CASE change.new # UNKNOWN /\ ShouldNotify(change)
  <2>1. Message(change) = "recovered" => Alerted(told) BY <1>2, <1>4, <1>5, <1>6, <1>7 DEF OK
  <2>2. Alternates(after) /\ (Message(change) # "recovered" => Alerted(after))
    BY <1>1, <1>3, <1>6, <1>7, <2>1, AlertAppended
  <2>3. change.new >= Floor => change.new # OK BY <1>2 DEF OK
  <2> QED BY <1>5, <2>2, <2>3 DEF after
<1>8. CASE ~(change.new # UNKNOWN /\ ShouldNotify(change))
  <2>1. ~(change.new >= Floor) BY <1>2, <1>4, <1>8 DEF UNKNOWN
  <2> QED BY <1>3, <1>6, <1>8, <2>1 DEF after
<1> QED BY <1>7, <1>8

\* What a save has the channels still to hear of is what they knew before it.
LEMMA SavedTold ==
  ASSUME PipelineOK, NEW h \in Hosts, SaveFailure(h) \/ SaveSuccess(h), NEW k \in Keys,
         hand'.changes[k] = ChangesOf(k, h, pending[h])
  PROVE  StatusTold(k)' >= Floor => StatusTold(k)' = OldStatus(k)
<1> DEFINE result == pending[h]
           changes == ChangesOf(k, h, result)
<1>1. TypeOK /\ result \in Result BY DEF PipelineOK, TypeOK
<1>2. StatusTold(k)' = IF changes # <<>> /\ LastOf(changes).kind = "status"
                      THEN LastOf(changes).old ELSE OldStatus(k)'
  BY DEF StatusTold
<1>3. /\ MissingChange(k).kind = "missing" /\ ReturnedChange(k, result).kind = "returned"
      /\ NewsChange(k, result).kind = "status" /\ NewsChange(k, result).old = OldStatus(k)
  BY DEF MissingChange, ReturnedChange, NewsChange, StatusChange
<1>4. /\ Len(<<MissingChange(k)>>) = 1 /\ Len(<<ReturnedChange(k, result)>>) = 1
      /\ Len(<<NewsChange(k, result)>>) = 1
      /\ Len(<<ReturnedChange(k, result), NewsChange(k, result)>>) = 2
  OBVIOUS
<1>5. CASE result.kind = "ok" /\ NewsWorthy(k, result)
  <2>1. ~Gone(k, h, result) BY <1>5 DEF NewsWorthy, Gone
  <2>2. \/ changes = <<NewsChange(k, result)>>
        \/ changes = <<ReturnedChange(k, result), NewsChange(k, result)>>
    BY <1>1, <1>5, ChangesAre
  <2>3. changes # <<>> /\ LastOf(changes) = NewsChange(k, result) BY <1>4, <2>2 DEF LastOf
  <2> QED BY <1>2, <1>3, <2>3
<1>6. CASE result.kind = "ok" /\ ~NewsWorthy(k, result)
  <2>1. changes = <<>> \/ changes = <<MissingChange(k)>> \/ changes = <<ReturnedChange(k, result)>>
    BY <1>1, <1>6, ChangesAre
  <2>2. changes # <<>> => LastOf(changes).kind # "status" BY <1>3, <1>4, <2>1 DEF LastOf
  <2>3. StatusTold(k)' = OldStatus(k)' BY <1>2, <2>2
  <2>4. SaveSuccess(h) /\ disks'[k] = DiskRowAfter(k, h, result)
    BY <1>6 DEF SaveFailure, SaveSuccess
  <2>5. CASE k \in result.found
    <3>1. disks'[k] = [host |-> h, status |-> result.status[k], lastSeen |-> result.at]
      BY <2>4, <2>5 DEF DiskRowAfter
    <3>2. result.at > Never BY <2>4 DEF SaveSuccess, NextToSave, PipelineOK, Stamped
    <3>3. OldStatus(k)' = result.status[k]
      BY <1>1, <3>1, <3>2 DEF OldStatus, Known, Never, Result
    <3>4. OldStatus(k) = result.status[k] \/ result.status[k] = OK
      BY <1>6, <2>5 DEF NewsWorthy
    <3>5. ~(OK >= Floor) BY DeliveryAssumption DEF OK, WARNING, CRITICAL
    <3> QED BY <2>3, <3>3, <3>4, <3>5
  <2>6. CASE k \notin result.found
    <3>1. disks'[k] = disks[k] BY <2>4, <2>6 DEF DiskRowAfter
    <3> QED BY <2>3, <3>1 DEF OldStatus, Known
  <2> QED BY <2>5, <2>6
<1>7. CASE result.kind # "ok"
  <2>1. changes = <<>> /\ disks' = disks BY <1>7 DEF ChangesOf, SaveFailure, SaveSuccess
  <2> QED BY <1>2, <2>1 DEF OldStatus, Known
<1> QED BY <1>5, <1>6, <1>7

LEMMA AlertStep ==
  ASSUME PipelineOK, AlertInv, [DeliveryNext]_allVars
  PROVE  AlertInv'
<1> DEFINE Good(c, k) ==
             Alternates(StatusMail(c, k)) /\ (StatusTold(k) >= Floor => Alerted(StatusMail(c, k)))
<1>1. \A c \in Channels, k \in Keys \ untold : Good(c, k) BY DEF AlertInv
<1>2. SUFFICES ASSUME NEW c \in Channels, NEW k \in Keys \ untold' PROVE Good(c, k)'
  BY DEF AlertInv
<1>3. untold \subseteq untold'
  BY DEF DeliveryNext, CollectNext, SaveNext, Publish, NotifyDisk, NotifyHost, RollupNext,
         SaveRaises, Restart, allVars, ghosts
<1>4. Good(c, k) BY <1>1, <1>2, <1>3
<1>5. ASSUME UNCHANGED <<disks, inbox>>, hand'.changes[k] = hand.changes[k] PROVE Good(c, k)'
  BY <1>4, <1>5 DEF StatusTold, StatusMail, OldStatus, Known
<1>6. CASE SaveNext
  <2>1. PICK h \in Hosts :
          /\ SaveFailure(h) \/ SaveSuccess(h)
          /\ hand' = [stage |-> "publish", host |-> h, result |-> pending[h],
                      changes |-> [j \in Keys |-> ChangesOf(j, h, pending[h])]]
    BY <1>6 DEF SaveNext
  <2>2. /\ hand.changes[k] = <<>> /\ inbox' = inbox
        /\ hand'.changes[k] = ChangesOf(k, h, pending[h])
    BY <1>6, <2>1 DEF SaveNext, Free, listenerVars, PipelineOK, HandOK
  <2>3. StatusTold(k) = OldStatus(k) BY <2>2 DEF StatusTold
  <2>4. StatusMail(c, k)' = StatusMail(c, k) BY <2>2 DEF StatusMail
  <2>5. StatusTold(k)' >= Floor => StatusTold(k)' = OldStatus(k) BY <2>1, <2>2, SavedTold
  <2> QED BY <1>4, <2>3, <2>4, <2>5
<1>7. ASSUME NEW j \in Keys, NotifyDisk(j) PROVE Good(c, k)'
  <2>1. /\ hand'.changes = [hand.changes EXCEPT ![j] = <<>>] /\ disks' = disks
        /\ hand.changes \in [Keys -> Seq(StatusChanges)]
    BY <1>7 DEF NotifyDisk, PipelineOK, HandOK, HandType, vars
  <2>2. CASE k # j
    <3>1. inbox'[c][k] = inbox[c][k] BY <1>7, <2>2, NotifyMails
    <3>2. hand'.changes[k] = hand.changes[k] BY <2>1, <2>2
    <3> QED BY <1>4, <2>1, <3>1, <3>2 DEF StatusTold, StatusMail, OldStatus, Known
  <2>3. CASE k = j
    <3> DEFINE changes == hand.changes[k]
               mail == inbox[c][k]
               after == inbox'[c][k]
    <3>1. /\ Len(changes) = 1 => after = Mailed(c, changes[1], mail)
          /\ Len(changes) = 2 => after = Mailed(c, changes[2], Mailed(c, changes[1], mail))
          /\ Len(changes) \in {1, 2} /\ \A i \in 1..Len(changes) : changes[i] \in StatusChanges
      BY <1>7, <2>3, NotifyMails
    <3>2. /\ mail \in Seq(Messages) /\ changes # <<>>
          /\ Len(changes) = 2 => changes[1].kind = "returned" /\ changes[2].kind = "status"
          /\ \A i \in 1..Len(changes) :
               changes[i].kind = "status" => Known(k) /\ changes[i].new = disks[k].status
      BY <1>7, <2>3 DEF PipelineOK, HandOK, ShapeOK, DeliveryTypeOK, NotifyDisk
    <3>3. StatusTold(k)' = OldStatus(k)
      <4>1. hand'.changes[k] = <<>> BY <2>1, <2>3
      <4> QED BY <2>1, <4>1 DEF StatusTold, OldStatus, Known
    <3>4. StatusMail(c, k) = Only(StatusKinds, mail) /\ StatusMail(c, k)' = Only(StatusKinds, after)
      BY DEF StatusMail, StatusKinds
    <3>5. StatusTold(k) =
            IF LastOf(changes).kind = "status" THEN LastOf(changes).old ELSE OldStatus(k)
      BY <3>2 DEF StatusTold
    <3> HIDE DEF changes, mail, after
    <3>6. ASSUME NEW d \in StatusChanges, NEW m \in Seq(Messages), after = Mailed(c, d, m),
                 Only(StatusKinds, m) = Only(StatusKinds, mail), d = LastOf(changes),
                 d.kind = "status" => Known(k) /\ d.new = disks[k].status
          PROVE  Good(c, k)'
      <4>1. CASE d.kind = "status"
        <5>1. d.old = StatusTold(k) /\ d.new = StatusTold(k)'
          BY <3>3, <3>5, <3>6, <4>1 DEF OldStatus
        <5>2. /\ Alternates(Only(StatusKinds, m))
              /\ d.old >= Floor => Alerted(Only(StatusKinds, m))
          BY <1>4, <3>4, <3>6, <5>1
        <5>3. Alternates(Only(StatusKinds, after)) /\ (d.new >= Floor => Alerted(Only(StatusKinds, after)))
          BY <3>6, <4>1, <5>2, AlertMailed
        <5> QED BY <3>4, <5>1, <5>3
      <4>2. CASE d.kind # "status"
        <5>1. Only(StatusKinds, after) = Only(StatusKinds, mail) BY <3>6, <4>2, MailedStatus
        <5>2. StatusTold(k)' = StatusTold(k) BY <3>3, <3>5, <3>6, <4>2
        <5> QED BY <1>4, <3>4, <5>1, <5>2
      <4> QED BY <4>1, <4>2
    <3>7. CASE Len(changes) = 1
      <4>1. changes[1] \in StatusChanges /\ changes[1] = LastOf(changes) /\ 1 \in 1..Len(changes)
        BY <3>1, <3>7 DEF LastOf
      <4> QED BY <3>1, <3>2, <3>6, <3>7, <4>1
    <3>8. CASE Len(changes) = 2
      <4>1. /\ changes[1] \in StatusChanges /\ changes[2] \in StatusChanges
            /\ changes[2] = LastOf(changes) /\ 2 \in 1..Len(changes)
        BY <3>1, <3>8 DEF LastOf
      <4>2. Mailed(c, changes[1], mail) \in Seq(Messages) BY <3>2, <4>1, MailedType
      <4>3. Only(StatusKinds, Mailed(c, changes[1], mail)) = Only(StatusKinds, mail)
        BY <3>2, <3>8, <4>1, MailedStatus
      <4> QED BY <3>1, <3>2, <3>6, <3>8, <4>1, <4>2, <4>3
    <3> QED BY <3>1, <3>7, <3>8
  <2> QED BY <2>2, <2>3
<1>8. CASE NotifyHost
  <2>1. hand.changes[k] = <<>> /\ hand'.changes[k] = <<>> BY <1>8, NoHandType DEF NotifyHost
  <2> QED BY <1>5, <1>8, <2>1 DEF NotifyHost, vars
<1>9. CASE Restart
  <2>1. hand'.changes[k] = <<>> BY <1>9, NoHandType DEF Restart
  <2>2. hand.changes[k] = <<>> BY <1>2, <1>9 DEF Restart
  <2> QED BY <1>5, <1>9, <2>1, <2>2 DEF Restart, Abandon
<1>10. CASE Publish
  <2>1. hand'.changes = hand.changes BY <1>10 DEF Publish, PipelineOK, HandOK, HandType
  <2> QED BY <1>5, <1>10, <2>1 DEF Publish, vars
<1>11. CASE CollectNext \/ RollupNext
  BY <1>5, <1>11 DEF CollectNext, Collect, RollupNext, Rollup, listenerVars
<1>12. CASE SaveRaises BY <1>5, <1>12 DEF SaveRaises, Abandon, listenerVars
<1>13. CASE UNCHANGED allVars BY <1>5, <1>13 DEF allVars, vars, listenerVars
<1> QED BY <1>6, <1>7, <1>8, <1>9, <1>10, <1>11, <1>12, <1>13 DEF DeliveryNext

\* No channel hears that a disk recovered unless it heard of an alert last
\* (alerts.py, should_notify), whatever the floor, the clock and the
\* configuration, but for the disks a restart kept a change of.
THEOREM RecoveryIsEarned == DeliverySpec => []RecoveryFollowsAlert
<1>1. DeliveryInit => AlertInv
  <2> SUFFICES ASSUME DeliveryInit, NEW c \in Channels, NEW k \in Keys
               PROVE  Alternates(StatusMail(c, k)) /\ ~(StatusTold(k) >= Floor)
    BY DEF AlertInv
  <2>1. disks[k] = NoRow /\ inbox[c][k] = <<>> /\ hand.changes[k] = <<>>
    BY NoHandType DEF DeliveryInit, Init
  <2>2. StatusTold(k) = NoStatus BY <2>1 DEF StatusTold, OldStatus, Known, NoRow
  <2>3. ~(NoStatus >= Floor) BY DeliveryAssumption DEF NoStatus, WARNING, CRITICAL
  <2>4. Alternates(<<>>)
    <3>1. Len(<<>>) = 0 OBVIOUS
    <3> QED BY <3>1 DEF Alternates
  <2> QED BY <2>1, <2>2, <2>3, <2>4, OnlyNothing DEF StatusMail
<1>2. PipelineOK /\ AlertInv /\ [DeliveryNext]_allVars => (PipelineOK /\ AlertInv)'
  BY PipelineStep, AlertStep
<1>3. AlertInv => RecoveryFollowsAlert BY DEF AlertInv, Alternates, RecoveryFollowsAlert
<1> QED BY <1>1, <1>2, <1>3, PipelineInit, PTL DEF DeliverySpec
=============================================================================
