---------------------------- MODULE StorageProofs ----------------------------
(***************************************************************************)
(* Theorems about the history database, for any number of hosts, disks,    *)
(* polls and days.                                                         *)
(***************************************************************************)
EXTENDS StorageProperties, WellFoundedInduction, TLAPS

\* A nonempty set of severities has a greatest element: what Fold picks.
LEMMA SeverityMax ==
  ASSUME NEW S \in SUBSET Severity, S # {}
  PROVE  \E x \in S : \A y \in S : y <= x
<1>1. CASE 3 \in S BY <1>1 DEF Severity
<1>2. CASE 3 \notin S /\ 2 \in S BY <1>2 DEF Severity
<1>3. CASE 3 \notin S /\ 2 \notin S /\ 1 \in S BY <1>3 DEF Severity
<1>4. CASE 3 \notin S /\ 2 \notin S /\ 1 \notin S
  <2>1. PICK x : x \in S OBVIOUS
  <2>2. \A y \in S : y = 0 BY <1>4 DEF Severity
  <2> QED BY <2>1, <2>2
<1> QED BY <1>1, <1>2, <1>3, <1>4

LEMMA DayType == ASSUME NEW t \in Int PROVE Day(t) \in Int
BY StorageAssumption DEF Day

\* A folded row is a row of table daily, and it is at least as severe as every
\* sample of its day.
LEMMA FoldType ==
  ASSUME NEW rows \in SUBSET Sample
  PROVE  /\ Fold(rows) \in SUBSET DayRow
         /\ \A f \in Fold(rows) : \A t \in rows :
              t.key = f.key /\ Day(t.ts) = f.day => t.status <= f.status
         /\ \A f \in Fold(rows) : \E s \in rows : s.key = f.key /\ Day(s.ts) = f.day
<1> DEFINE Sts(s) == {t.status : t \in {u \in rows : SameDay(u, s)}}
           Worst(s) == CHOOSE x \in Sts(s) : \A t \in rows : SameDay(t, s) => t.status <= x
<1>1. ASSUME NEW s \in rows
      PROVE  Worst(s) \in Severity /\ \A t \in rows : SameDay(t, s) => t.status <= Worst(s)
  <2>1. s.status \in Sts(s) BY DEF SameDay
  <2>2. Sts(s) \in SUBSET Severity BY DEF Sample
  <2> HIDE DEF Sts
  <2>3. PICK x \in Sts(s) : \A y \in Sts(s) : y <= x BY <2>1, <2>2, SeverityMax
  <2>4. \A t \in rows : SameDay(t, s) => t.status \in Sts(s) BY DEF Sts
  <2>5. \E y \in Sts(s) : \A t \in rows : SameDay(t, s) => t.status <= y BY <2>3, <2>4
  <2>6. Worst(s) \in Sts(s) /\ \A t \in rows : SameDay(t, s) => t.status <= Worst(s) BY <2>5
  <2> QED BY <2>2, <2>6
<1>2. \A f \in Fold(rows) : \E s \in rows :
        f = [key |-> s.key, day |-> Day(s.ts), ts |-> s.ts, status |-> Worst(s)]
  BY DEF Fold
<1> HIDE DEF Worst
<1>3. ASSUME NEW f \in Fold(rows)
      PROVE  /\ f \in DayRow
             /\ \A t \in rows : t.key = f.key /\ Day(t.ts) = f.day => t.status <= f.status
             /\ \E s \in rows : s.key = f.key /\ Day(s.ts) = f.day
  <2>1. PICK s \in rows : f = [key |-> s.key, day |-> Day(s.ts), ts |-> s.ts, status |-> Worst(s)]
    BY <1>2
  <2>2. s \in Sample OBVIOUS
  <2>3. Day(s.ts) \in Int BY <2>2, DayType DEF Sample
  <2> QED BY <2>1, <2>2, <2>3, <1>1 DEF DayRow, Sample, SameDay
<1> QED BY <1>3

-----------------------------------------------------------------------------
(* Types *)

LEMMA ConstantTypes ==
  /\ NoResult \in Result /\ NoResult.kind = "none"
  /\ NoRow \in DiskRow
BY DEF NoResult, EmptyResult, Result, NoRow, DiskRow, Severity, OK, Never

LEMMA CollectedType ==
  ASSUME NEW h \in Hosts, NEW at \in Nat, NEW reachable, NEW placed,
         NEW status \in [Keys -> Statuses],
         excluded \in SUBSET Keys
  PROVE  Collected(h, at, reachable, placed, status) \in Result
<1> DEFINE here == {k \in Keys : placed[k] = h}
           seen == [k \in Keys |-> IF k \in here \ excluded THEN status[k] ELSE OK]
<1>1. seen \in [Keys -> Severity]
  <2>1. OK \in Severity BY DEF OK, Severity
  <2>2. \A k \in Keys : status[k] \in Severity BY StorageAssumption
  <2> QED BY <2>1, <2>2
<1>2. /\ here \ excluded \in SUBSET Keys
      /\ here \cap excluded \in SUBSET Keys
  OBVIOUS
<1> HIDE DEF seen, here
<1>3. [kind |-> "ok", at |-> at, found |-> here \ excluded, excluded |-> here \cap excluded,
       status |-> seen] \in Result
  BY <1>1, <1>2 DEF Result
<1>4. EmptyResult("failed", at) \in Result
  BY DEF EmptyResult, Result, Severity, OK
<1> QED BY <1>3, <1>4 DEF Collected, seen, here

LEMMA CollectType ==
  ASSUME TypeOK, Collect PROVE TypeOK'
<1>1. PICK gap \in Gaps, placed \in Placements, reachable \in SUBSET Hosts,
           status \in [Keys -> Statuses], at \in [Hosts -> 1..Span] :
         /\ clock + gap >= 0
         /\ clock' = clock + gap + Span
         /\ pending' = [h \in Hosts |-> Collected(h, clock + gap + at[h], reachable, placed, status)]
  BY DEF Collect
<1>2. clock + gap \in Nat BY <1>1, StorageAssumption DEF TypeOK
<1>3. clock' \in Nat BY <1>1, <1>2, StorageAssumption
<1>4. \A h \in Hosts : clock + gap + at[h] \in Nat BY <1>2, StorageAssumption
<1>5. pending' \in [Hosts -> Result] BY <1>1, <1>4, CollectedType DEF TypeOK
<1> QED BY <1>3, <1>5 DEF TypeOK, Collect

LEMMA SaveFailureType ==
  ASSUME TypeOK, NEW h \in Hosts, SaveFailure(h) PROVE TypeOK'
<1>1. hosts' \in [Hosts -> HostRow]
  BY DEF TypeOK, SaveFailure, HostRowAfter, HostRow, Result
<1>2. pending' \in [Hosts -> Result] BY ConstantTypes DEF TypeOK, SaveFailure
<1> QED BY <1>1, <1>2 DEF TypeOK, SaveFailure

\* The rows of any result that a process records.
LEMMA RecordedType ==
  ASSUME TypeOK, NEW h \in Hosts, NEW result \in Result,
         hosts' = [hosts EXCEPT ![h] = HostRowAfter(h, result)],
         disks' = [k \in Keys |-> DiskRowAfter(k, h, result)],
         samples' = SamplesAfter(result),
         statusLog' = [k \in Keys |-> StatusLogAfter(k, result)]
  PROVE  /\ hosts' \in [Hosts -> HostRow] /\ disks' \in [Keys -> DiskRow]
         /\ samples' \in SUBSET Sample /\ statusLog' \in [Keys -> Seq(Change)]
<1>1. hosts' \in [Hosts -> HostRow] BY DEF TypeOK, HostRowAfter, HostRow, Result
<1>2. disks' \in [Keys -> DiskRow]
  <2>1. \A k \in Keys : DiskRowAfter(k, h, result) \in DiskRow
    BY DEF TypeOK, DiskRowAfter, DiskRow, Result, Hosts
  <2> QED BY <2>1
<1>3. samples' \in SUBSET Sample BY DEF TypeOK, SamplesAfter, Sample, Result
<1>4. statusLog' \in [Keys -> Seq(Change)]
  <2>1. \A k \in Keys : OldStatus(k) \in Severity \cup {NoStatus}
    BY DEF OldStatus, TypeOK, DiskRow
  <2>2. \A k \in Keys : [old |-> OldStatus(k), new |-> result.status[k], ts |-> result.at] \in Change
    BY <2>1 DEF Change, Result
  <2>3. \A k \in Keys : StatusLogAfter(k, result) \in Seq(Change)
    BY <2>2 DEF TypeOK, StatusLogAfter
  <2> QED BY <2>3
<1> QED BY <1>1, <1>2, <1>3, <1>4

LEMMA SaveSuccessType ==
  ASSUME TypeOK, NEW h \in Hosts, SaveSuccess(h) PROVE TypeOK'
<1>1. pending[h] \in Result BY DEF TypeOK
<1>2. /\ hosts' \in [Hosts -> HostRow] /\ disks' \in [Keys -> DiskRow]
      /\ samples' \in SUBSET Sample /\ statusLog' \in [Keys -> Seq(Change)]
  BY <1>1, RecordedType DEF SaveSuccess
<1>3. pending' \in [Hosts -> Result] BY ConstantTypes DEF TypeOK, SaveSuccess
<1>4. presence' \in [Keys -> Seq({"missing", "returned"})]
  <2>1. \A k \in Keys : PresenceAfter(k, h, pending[h]) \in Seq({"missing", "returned"})
    BY DEF TypeOK, PresenceAfter
  <2> QED BY <2>1 DEF SaveSuccess
<1> QED BY <1>2, <1>3, <1>4 DEF TypeOK, SaveSuccess

LEMMA RollupType ==
  ASSUME TypeOK, Rollup PROVE TypeOK'
<1>1. Expired \in SUBSET Sample BY DEF Expired, TypeOK
<1>2. Fold(Expired) \in SUBSET DayRow BY <1>1, FoldType
<1>3. daily' \in SUBSET DayRow BY <1>2 DEF Rollup, TypeOK
<1>4. samples' \in SUBSET Sample BY DEF Rollup, TypeOK
<1> QED BY <1>3, <1>4 DEF TypeOK, Rollup, Idle

LEMMA AbandonType ==
  ASSUME TypeOK, Abandon PROVE TypeOK'
BY ConstantTypes, StorageAssumption DEF TypeOK, Abandon

LEMMA InitType == Init => TypeOK
<1> SUFFICES ASSUME Init PROVE TypeOK OBVIOUS
<1>1. pending \in [Hosts -> Result] BY ConstantTypes DEF Init
<1>2. disks \in [Keys -> DiskRow] BY ConstantTypes DEF Init
<1>3. hosts \in [Hosts -> HostRow] BY DEF Init, HostRow, Never
<1>4. excluded \in SUBSET Keys /\ clock \in Nat BY StorageAssumption DEF Init
<1>5. /\ presence \in [Keys -> Seq({"missing", "returned"})]
      /\ statusLog \in [Keys -> Seq(Change)]
  BY DEF Init
<1>6. samples \in SUBSET Sample /\ daily \in SUBSET DayRow BY DEF Init
<1> QED BY <1>1, <1>2, <1>3, <1>4, <1>5, <1>6 DEF TypeOK

LEMMA NextType == TypeOK /\ [Next]_vars => TypeOK'
<1> SUFFICES ASSUME TypeOK, [Next]_vars PROVE TypeOK' OBVIOUS
<1>1. CASE Collect BY <1>1, CollectType
<1>2. CASE \E h \in Hosts : SaveFailure(h) \/ SaveSuccess(h)
  BY <1>2, SaveFailureType, SaveSuccessType
<1>3. CASE Rollup BY <1>3, RollupType
<1>4. CASE Abandon BY <1>4, AbandonType
<1>5. CASE UNCHANGED vars BY <1>5 DEF vars, TypeOK
<1> QED BY <1>1, <1>2, <1>3, <1>4, <1>5 DEF Next

\* Every table only ever holds rows of its schema, whatever the hosts report,
\* the clock does or the configuration becomes (storage.py, SCHEMA).
THEOREM TypeCorrect == Spec => []TypeOK
<1>1. Init => TypeOK BY InitType
<1>2. TypeOK /\ [Next]_vars => TypeOK' BY NextType
<1> QED BY <1>1, <1>2, PTL DEF Spec

-----------------------------------------------------------------------------
(* Missing and returned *)

\* Where the events take turns, appending the one that is due keeps them so.
LEMMA AppendAlternates ==
  ASSUME NEW s \in Seq({"missing", "returned"}), NEW e \in {"missing", "returned"},
         \A i \in 1..Len(s) : s[i] = IF i % 2 = 1 THEN "missing" ELSE "returned",
         e = IF s # <<>> /\ LastOf(s) = "missing" THEN "returned" ELSE "missing"
  PROVE  /\ \A i \in 1..Len(Append(s, e)) :
              Append(s, e)[i] = IF i % 2 = 1 THEN "missing" ELSE "returned"
         /\ Append(s, e) # <<>>
         /\ LastOf(Append(s, e)) = e
<1>1. Len(s) \in Nat /\ Len(Append(s, e)) = Len(s) + 1 OBVIOUS
<1>2. Append(s, e)[Len(s) + 1] = e OBVIOUS
<1>3. \A i \in 1..Len(s) : Append(s, e)[i] = s[i] OBVIOUS
<1>4. e = IF (Len(s) + 1) % 2 = 1 THEN "missing" ELSE "returned"
  <2>1. CASE s = <<>>
    <3>1. Len(s) = 0 BY <2>1
    <3> QED BY <2>1, <3>1
  <2>2. CASE s # <<>>
    <3>1. Len(s) \in 1..Len(s) BY <2>2, <1>1
    <3>2. LastOf(s) = IF Len(s) % 2 = 1 THEN "missing" ELSE "returned" BY <3>1 DEF LastOf
    <3>3. Len(s) % 2 = 1 <=> ~((Len(s) + 1) % 2 = 1) BY <1>1
    <3> QED BY <2>2, <3>2, <3>3
  <2> QED BY <2>1, <2>2
<1>5. ASSUME NEW i \in 1..Len(Append(s, e))
      PROVE  Append(s, e)[i] = IF i % 2 = 1 THEN "missing" ELSE "returned"
  <2>1. CASE i = Len(s) + 1 BY <2>1, <1>2, <1>4
  <2>2. CASE i # Len(s) + 1
    <3>1. i \in 1..Len(s) BY <2>2, <1>1
    <3> QED BY <3>1, <1>3
  <2> QED BY <2>1, <2>2
<1> QED BY <1>1, <1>2, <1>5 DEF LastOf

LEMMA CollectSteady ==
  ASSUME TypeOK, SingleHome, SteadyClock, SteadyTables, Collect
  PROVE  SteadyTables'
<1>1. PICK gap \in Gaps, placed \in Placements, reachable \in SUBSET Hosts,
           status \in [Keys -> Statuses], at \in [Hosts -> 1..Span] :
         /\ clock' = clock + gap + Span
         /\ pending' = [h \in Hosts |-> Collected(h, clock + gap + at[h], reachable, placed, status)]
  BY DEF Collect
<1>2. /\ gap \in Nat /\ Span \in Nat /\ clock \in Nat
      /\ UNCHANGED <<excluded, hosts, disks>>
  BY StorageAssumption DEF SteadyClock, TypeOK, Collect
<1>3. \A h \in Hosts : hosts[h].lastSuccess \in Nat BY DEF TypeOK, HostRow
<1>4. \A h \in Hosts : hosts[h].lastSuccess < clock' BY <1>1, <1>2, <1>3, StorageAssumption DEF SteadyTables
<1>5. ASSUME NEW h \in Hosts
      PROVE  /\ hosts[h].lastSuccess < pending'[h].at
             /\ pending'[h].at <= clock'
             /\ pending'[h].excluded \subseteq excluded
             /\ \A k \in pending'[h].found : Homes[k] = {h} /\ k \notin excluded
  <2>1. pending'[h].at = clock + gap + at[h] BY <1>1 DEF Collected, EmptyResult
  <2>2. at[h] \in 1..Span OBVIOUS
  <2>3. hosts[h].lastSuccess < pending'[h].at /\ pending'[h].at <= clock'
    BY <2>1, <2>2, <1>1, <1>2, <1>3 DEF SteadyTables
  <2>4. pending'[h].excluded \subseteq excluded BY <1>1 DEF Collected, EmptyResult
  <2>5. \A k \in pending'[h].found : k \in Keys /\ placed[k] = h /\ k \notin excluded
    BY <1>1 DEF Collected, EmptyResult
  <2>6. \A k \in Keys : placed[k] = h => h \in Homes[k] BY DEF Placements, Hosts
  <2>7. \A k \in Keys : h \in Homes[k] => Homes[k] = {h} BY DEF SingleHome
  <2> QED BY <2>3, <2>4, <2>5, <2>6, <2>7
<1> QED BY <1>2, <1>3, <1>4, <1>5, TypeOK, CollectType DEF SteadyTables, Known, TypeOK

LEMMA SaveFailureSteady ==
  ASSUME TypeOK, SteadyTables, NEW h \in Hosts, SaveFailure(h)
  PROVE  SteadyTables' /\ \A g \in Hosts : hosts'[g].lastSuccess = hosts[g].lastSuccess
<1>1. \A g \in Hosts : hosts'[g].lastSuccess = hosts[g].lastSuccess
  BY DEF SaveFailure, HostRowAfter, TypeOK, HostRow
<1>2. \A g \in Hosts : pending'[g].kind # "none" => pending'[g] = pending[g]
  BY ConstantTypes DEF SaveFailure, TypeOK
<1>3. \A k \in Keys : Known(k) => disks[k].host \in Hosts
  BY StorageAssumption DEF SteadyTables
<1> QED BY <1>1, <1>2, <1>3 DEF SteadyTables, SaveFailure, Known

\* What recording a result, by whichever process, does to the rows it compares.
Recorded(h, result) ==
  /\ result \in Result /\ result.kind = "ok"
  /\ hosts'[h].lastSuccess = result.at
  /\ \A g \in Hosts : g # h => hosts'[g].lastSuccess = hosts[g].lastSuccess
  /\ \A k \in Keys : k \in result.found =>
       disks'[k].host = h /\ disks'[k].lastSeen = result.at
  /\ \A k \in Keys : k \notin result.found => disks'[k] = disks[k]
  /\ \A k \in Keys : presence'[k] = PresenceAfter(k, h, result)

LEMMA RecordedRows ==
  ASSUME TypeOK, NEW h \in Hosts, NEW result \in Result, result.kind = "ok",
         hosts' = [hosts EXCEPT ![h] = HostRowAfter(h, result)],
         disks' = [k \in Keys |-> DiskRowAfter(k, h, result)],
         \A k \in Keys : presence'[k] = PresenceAfter(k, h, result)
  PROVE  Recorded(h, result)
<1>1. /\ hosts'[h].lastSuccess = result.at
      /\ \A g \in Hosts : g # h => hosts'[g].lastSuccess = hosts[g].lastSuccess
  BY DEF HostRowAfter, TypeOK, HostRow
<1>2. ASSUME NEW k \in Keys
      PROVE  /\ k \in result.found => disks'[k].host = h /\ disks'[k].lastSeen = result.at
             /\ k \notin result.found => disks'[k] = disks[k]
  <2>1. disks'[k] = DiskRowAfter(k, h, result) OBVIOUS
  <2>2. CASE k \in result.found
    <3>1. disks'[k] = [host |-> h, status |-> result.status[k], lastSeen |-> result.at]
      BY <2>1, <2>2 DEF DiskRowAfter
    <3> QED BY <2>2, <3>1
  <2>3. CASE k \notin result.found BY <2>1, <2>3 DEF DiskRowAfter
  <2> QED BY <2>2, <2>3
<1> QED BY <1>1, <1>2 DEF Recorded

LEMMA SaveSuccessRows ==
  ASSUME TypeOK, NEW h \in Hosts, SaveSuccess(h)
  PROVE  Recorded(h, pending[h])
<1>1. /\ pending[h] \in Result /\ pending[h].kind = "ok"
      /\ \A k \in Keys : presence'[k] = PresenceAfter(k, h, pending[h])
  BY DEF SaveSuccess, TypeOK
<1> QED BY <1>1, RecordedRows DEF SaveSuccess

\* A result that is newer than its host's last success, of disks that belong there.
Timely(h, result) ==
  /\ hosts[h].lastSuccess < result.at
  /\ result.excluded \subseteq excluded
  /\ \A k \in result.found : Homes[k] = {h} /\ k \notin excluded

KnownSteady == \A k \in Keys : Known(k) =>
  /\ Homes[k] = {disks[k].host}
  /\ k \notin excluded
  /\ disks[k].lastSeen <= hosts[disks[k].host].lastSuccess

LEMMA RecordedKnown ==
  ASSUME TypeOK, TypeOK', UNCHANGED excluded, KnownSteady,
         NEW h \in Hosts, NEW result, Recorded(h, result), Timely(h, result)
  PROVE  KnownSteady'
<1>1. /\ hosts[h].lastSuccess < result.at /\ result.at \in Nat
      /\ \A k \in result.found : Homes[k] = {h} /\ k \notin excluded
  BY DEF Timely, Recorded, Result
<1>2. \A g \in Hosts : hosts[g].lastSuccess \in Nat /\ hosts'[g].lastSuccess \in Nat
  BY DEF TypeOK, HostRow
<1>3. ASSUME NEW k \in Keys, Known(k)'
      PROVE  /\ Homes[k] = {disks'[k].host}
             /\ k \notin excluded
             /\ disks'[k].lastSeen <= hosts'[disks'[k].host].lastSuccess
  <2>1. CASE k \in result.found
    <3>1. disks'[k].host = h /\ disks'[k].lastSeen = result.at /\ hosts'[h].lastSuccess = result.at
      BY <2>1 DEF Recorded
    <3> QED BY <2>1, <1>1, <3>1
  <2>2. CASE k \notin result.found
    <3>1. disks'[k] = disks[k] /\ Known(k) BY <2>2, <1>3 DEF Recorded, Known
    <3>2. disks[k].host \in Hosts BY <3>1, StorageAssumption DEF KnownSteady
    <3>3. hosts[disks[k].host].lastSuccess <= hosts'[disks[k].host].lastSuccess
      BY <3>2, <1>1, <1>2 DEF Recorded
    <3>4. disks[k].lastSeen \in Nat BY DEF TypeOK, DiskRow
    <3> QED BY <3>1, <3>2, <3>3, <3>4, <1>2 DEF KnownSteady
  <2> QED BY <2>1, <2>2
<1> QED BY <1>3 DEF KnownSteady

LEMMA SaveSuccessSteady ==
  ASSUME TypeOK, SteadyTables, NEW h \in Hosts, SaveSuccess(h)
  PROVE  SteadyTables' /\ Recorded(h, pending[h]) /\ Timely(h, pending[h])
<1> DEFINE result == pending[h]
<1>1. hosts[h].lastSuccess < result.at /\ result.at <= clock BY DEF SteadyTables, SaveSuccess
<1>2. Timely(h, result) BY DEF SteadyTables, SaveSuccess, Timely
<1>3. Recorded(h, result) BY SaveSuccessRows DEF Recorded
<1>4. UNCHANGED <<clock, excluded>> BY DEF SaveSuccess
<1>5. \A g \in Hosts : hosts'[g].lastSuccess <= clock'
  BY <1>1, <1>4, SaveSuccessRows DEF Recorded, SteadyTables
<1>6. \A g \in Hosts : pending'[g].kind # "none" =>
        pending'[g] = pending[g] /\ hosts'[g].lastSuccess = hosts[g].lastSuccess
  BY SaveSuccessRows, ConstantTypes DEF Recorded, SaveSuccess, TypeOK
<1>7. KnownSteady'
  BY <1>2, <1>3, <1>4, SaveSuccessType, RecordedKnown DEF SteadyTables, KnownSteady
<1> QED BY <1>2, <1>3, <1>4, <1>5, <1>6, <1>7 DEF SteadyTables, KnownSteady

\* One disk in one successful save: the event, if any, is the one that is due.
LEMMA RecordedPresence ==
  ASSUME TypeOK, KnownSteady, PresenceAlternates, MissingIffAnnounced,
         NEW h \in Hosts, NEW result, Recorded(h, result), Timely(h, result), NEW k \in Keys
  PROVE  /\ ShownMissing(k)' <=> Outstanding(k)'
         /\ \A i \in 1..Len(presence'[k]) :
              presence'[k][i] = IF i % 2 = 1 THEN "missing" ELSE "returned"
<1> DEFINE s == presence[k]
<1>1. s \in Seq({"missing", "returned"}) BY DEF TypeOK
<1>8. \A i \in 1..Len(s) : s[i] = IF i % 2 = 1 THEN "missing" ELSE "returned"
  BY DEF PresenceAlternates
<1>2. /\ hosts[h].lastSuccess < result.at
      /\ result.excluded \subseteq excluded
      /\ k \in result.found => Homes[k] = {h}
  BY DEF Timely
<1>3. hosts[h].lastSuccess \in Nat /\ result.at \in Nat /\ disks[k].lastSeen \in Nat
  BY DEF TypeOK, HostRow, Recorded, Result, DiskRow
<1>4. Known(k) => /\ Homes[k] = {disks[k].host} /\ disks[k].host \in Hosts
                  /\ k \notin excluded
                  /\ disks[k].lastSeen <= hosts[disks[k].host].lastSuccess
  BY StorageAssumption DEF KnownSteady
<1>5. ShownMissing(k) <=> Outstanding(k) BY DEF MissingIffAnnounced
<1>9. /\ hosts'[h].lastSuccess = result.at
      /\ \A g \in Hosts : g # h => hosts'[g].lastSuccess = hosts[g].lastSuccess
      /\ k \in result.found => disks'[k].host = h /\ disks'[k].lastSeen = result.at
      /\ k \notin result.found => disks'[k] = disks[k]
      /\ presence'[k] = PresenceAfter(k, h, result)
  BY DEF Recorded
<1>6. CASE k \in result.found
  <2>1. ~ShownMissing(k)'
    <3>1. disks'[k].host = h /\ disks'[k].lastSeen = result.at
      BY <1>6, <1>9
    <3>2. hosts'[h].lastSuccess = result.at BY <1>9
    <3> QED BY <1>3, <3>1, <3>2 DEF ShownMissing
  <2>2. ~Gone(k, h, result) BY <1>6 DEF Gone
  <2>3. CASE Back(k, h, result)
    <3>1. Known(k) /\ disks[k].host = h BY <2>3, <1>2, <1>4 DEF Back
    <3>2. Outstanding(k) BY <3>1, <2>3, <1>5 DEF Back, ShownMissing
    <3>3. presence'[k] = Append(s, "returned")
      BY <2>2, <2>3, <1>9 DEF PresenceAfter
    <3>4. s # <<>> /\ LastOf(s) = "missing" BY <3>2 DEF Outstanding
    <3>5. /\ \A i \in 1..Len(Append(s, "returned")) :
                Append(s, "returned")[i] = IF i % 2 = 1 THEN "missing" ELSE "returned"
          /\ Append(s, "returned") # <<>>
          /\ LastOf(Append(s, "returned")) = "returned"
      <4> HIDE DEF s
      <4> QED BY <3>4, <1>1, <1>8, AppendAlternates, Zenon
    <3> QED BY <2>1, <3>3, <3>5 DEF Outstanding
  <2>4. CASE ~Back(k, h, result)
    <3>1. presence'[k] = s BY <2>2, <2>4, <1>9 DEF PresenceAfter
    <3>2. ~ShownMissing(k)
      BY <1>6, <2>4, <1>2, <1>3, <1>4 DEF Back, ShownMissing, Known, Never
    <3> QED BY <2>1, <3>1, <3>2, <1>8, <1>5 DEF Outstanding
  <2> QED BY <2>3, <2>4
<1>7. CASE k \notin result.found
  <2>1. disks'[k] = disks[k] /\ ~Back(k, h, result)
    BY <1>7, <1>9 DEF Back
  <2>2. CASE Gone(k, h, result)
    <3>1. ShownMissing(k)'
      BY <2>1, <2>2, <1>2, <1>3, <1>4, <1>9 DEF Gone, ShownMissing, Known
    <3>2. ~ShownMissing(k) BY <2>2, <1>3 DEF Gone, ShownMissing
    <3>3. presence'[k] = Append(s, "missing") BY <2>2, <1>9 DEF PresenceAfter
    <3>4. ~(s # <<>> /\ LastOf(s) = "missing") BY <3>2, <1>5 DEF Outstanding
    <3>5. /\ \A i \in 1..Len(Append(s, "missing")) :
                Append(s, "missing")[i] = IF i % 2 = 1 THEN "missing" ELSE "returned"
          /\ Append(s, "missing") # <<>>
          /\ LastOf(Append(s, "missing")) = "missing"
      <4> HIDE DEF s
      <4> QED BY <3>4, <1>1, <1>8, AppendAlternates, Zenon
    <3> QED BY <3>1, <3>3, <3>5 DEF Outstanding
  <2>3. CASE ~Gone(k, h, result)
    <3>1. presence'[k] = s BY <2>1, <2>3, <1>9 DEF PresenceAfter
    <3>2. ShownMissing(k)' <=> ShownMissing(k)
      <4>1. CASE ~Known(k) BY <4>1, <2>1 DEF ShownMissing, Known
      <4>2. CASE Known(k) /\ disks[k].host # h
        BY <4>2, <2>1, <1>4, <1>9 DEF ShownMissing, Known
      <4>3. CASE Known(k) /\ disks[k].host = h
        <5>1. ShownMissing(k)
          BY <4>3, <2>3, <1>7, <1>2, <1>3, <1>4 DEF Gone, ShownMissing, Known, Never
        <5>2. ShownMissing(k)'
          BY <4>3, <2>1, <1>2, <1>3, <1>4, <1>9 DEF ShownMissing, Known
        <5> QED BY <5>1, <5>2
      <4> QED BY <4>1, <4>2, <4>3
    <3> QED BY <3>1, <3>2, <1>8, <1>5 DEF Outstanding
  <2> QED BY <2>2, <2>3
<1> QED BY <1>6, <1>7

LEMMA QuietPresence ==
  ASSUME TypeOK, PresenceAlternates, MissingIffAnnounced, SteadyTables,
         UNCHANGED <<presence, disks>>,
         \A g \in Hosts : hosts'[g].lastSuccess = hosts[g].lastSuccess
  PROVE  PresenceAlternates' /\ MissingIffAnnounced'
<1>1. PresenceAlternates' BY DEF PresenceAlternates
<1>2. ASSUME NEW k \in Keys PROVE ShownMissing(k)' <=> Outstanding(k)'
  <2>1. Known(k) => disks[k].host \in Hosts BY StorageAssumption DEF SteadyTables
  <2>2. ShownMissing(k)' <=> ShownMissing(k) BY <2>1 DEF ShownMissing, Known
  <2> QED BY <2>2 DEF MissingIffAnnounced, Outstanding
<1> QED BY <1>1, <1>2 DEF MissingIffAnnounced

LEMMA AbandonSteady ==
  ASSUME TypeOK, FixedConfig, excluded \in ExcludeChoices, SteadyTables, Abandon
  PROVE  SteadyTables'
<1>1. excluded' = excluded BY DEF FixedConfig, Abandon
<1>2. \A h \in Hosts : pending'[h].kind = "none" BY ConstantTypes DEF Abandon
<1> QED BY <1>1, <1>2 DEF SteadyTables, Abandon, Known

\* Every reachable state has the tables as save leaves them: the inductive
\* invariant behind the theorem below and the refinement of Presence.
LEMMA PresenceInvariant ==
  ASSUME SteadyWorld
  PROVE  Spec => []PresenceInv
<1>1. Init => PresenceInv
  <2> SUFFICES ASSUME Init PROVE PresenceInv OBVIOUS
  <2>1. TypeOK BY InitType
  <2>2. \A k \in Keys : ~Known(k) /\ presence[k] = <<>> BY DEF Init, Known, NoRow
  <2>3. \A h \in Hosts : pending[h].kind = "none" /\ hosts[h].lastSuccess = 0
    BY ConstantTypes DEF Init, Never
  <2>4. clock \in Nat BY <2>1 DEF TypeOK
  <2>5. SteadyTables BY <2>2, <2>3, <2>4 DEF SteadyTables
  <2>6. PresenceAlternates BY <2>2 DEF PresenceAlternates
  <2>7. MissingIffAnnounced BY <2>2 DEF MissingIffAnnounced, ShownMissing, Outstanding
  <2> QED BY <2>1, <2>5, <2>6, <2>7 DEF PresenceInv, Init
<1>2. PresenceInv /\ [Next]_vars => PresenceInv'
  <2> SUFFICES ASSUME PresenceInv, [Next]_vars PROVE PresenceInv' OBVIOUS
  <2>1. TypeOK' BY NextType DEF PresenceInv
  <2>2. (excluded \in ExcludeChoices)'
    BY DEF PresenceInv, Next, vars, Collect, SaveFailure, SaveSuccess, Rollup, Abandon
  <2>3. CASE Collect
    <3>1. SteadyTables' BY <2>3, CollectSteady DEF SteadyWorld, PresenceInv
    <3>2. PresenceAlternates' /\ MissingIffAnnounced'
      BY <2>3, QuietPresence DEF PresenceInv, Collect
    <3> QED BY <2>1, <2>2, <3>1, <3>2 DEF PresenceInv
  <2>4. ASSUME NEW h \in Hosts, SaveFailure(h) PROVE PresenceInv'
    <3>1. SteadyTables' BY <2>4, SaveFailureSteady DEF PresenceInv
    <3>2. PresenceAlternates' /\ MissingIffAnnounced'
      BY <2>4, SaveFailureSteady, QuietPresence DEF PresenceInv, SaveFailure
    <3> QED BY <2>1, <2>2, <3>1, <3>2 DEF PresenceInv
  <2>5. ASSUME NEW h \in Hosts, SaveSuccess(h) PROVE PresenceInv'
    <3>1. SteadyTables' BY <2>5, SaveSuccessSteady DEF PresenceInv
    <3>2. PresenceAlternates' /\ MissingIffAnnounced'
      <4>1. Recorded(h, pending[h]) /\ Timely(h, pending[h]) /\ KnownSteady
        BY <2>5, SaveSuccessSteady DEF PresenceInv, SteadyTables, KnownSteady
      <4> QED BY <4>1, RecordedPresence DEF PresenceInv, PresenceAlternates, MissingIffAnnounced
    <3> QED BY <2>1, <2>2, <3>1, <3>2 DEF PresenceInv
  <2>6. CASE Rollup
    <3>1. SteadyTables' BY <2>6 DEF Rollup, PresenceInv, SteadyTables, Known
    <3>2. PresenceAlternates' /\ MissingIffAnnounced'
      BY <2>6, QuietPresence DEF PresenceInv, Rollup
    <3> QED BY <2>1, <2>2, <3>1, <3>2 DEF PresenceInv
  <2>7. CASE Abandon
    <3>1. SteadyTables' BY <2>7, AbandonSteady DEF SteadyWorld, PresenceInv
    <3>2. PresenceAlternates' /\ MissingIffAnnounced'
      BY <2>7, QuietPresence DEF PresenceInv, Abandon
    <3> QED BY <2>1, <2>2, <3>1, <3>2 DEF PresenceInv
  <2>8. CASE UNCHANGED vars
    <3>1. SteadyTables' BY <2>8 DEF vars, PresenceInv, SteadyTables, Known
    <3>2. PresenceAlternates' /\ MissingIffAnnounced'
      BY <2>8, QuietPresence DEF PresenceInv, vars
    <3> QED BY <2>1, <2>2, <3>1, <3>2 DEF PresenceInv
  <2> QED BY <2>3, <2>4, <2>5, <2>6, <2>7, <2>8 DEF Next
<1> QED BY <1>1, <1>2, PTL DEF Spec

\* A host's disk is reported missing exactly once each time it disappears and
\* returned exactly once each time it comes back (storage.py, StatusChange),
\* and the dashboard shows it missing exactly in between, however the polls of
\* any number of hosts fail, crash and interleave with rollups.
THEOREM PresenceCorrect ==
  ASSUME SteadyWorld
  PROVE  Spec => [](PresenceAlternates /\ MissingIffAnnounced)
<1>1. Spec => []PresenceInv BY PresenceInvariant
<1>2. PresenceInv => PresenceAlternates /\ MissingIffAnnounced BY DEF PresenceInv
<1> QED BY <1>1, <1>2, PTL

\* In particular the API calls a disk missing exactly while its last event is
\* disk_missing (api.py, state; storage.py, save).
THEOREM MissingCorrect ==
  ASSUME SteadyWorld
  PROVE  Spec => []MissingIffAnnounced
<1>1. Spec => []PresenceInv BY PresenceInvariant
<1>2. PresenceInv => MissingIffAnnounced BY DEF PresenceInv
<1> QED BY <1>1, <1>2, PTL

-----------------------------------------------------------------------------
(* The database implements Presence: what the API reads off the tables and   *)
(* what save announces move together.                                        *)

\* What a step of Presence may do with one disk.
Told(k) ==
  \/ Seen(k) = "unseen" /\ Seen(k)' = "present" /\ presence'[k] = presence[k]
  \/ Seen(k) = "present" /\ Seen(k)' = "missing"
       /\ presence'[k] = Append(presence[k], "missing")
  \/ Seen(k) = "missing" /\ Seen(k)' = "present"
       /\ presence'[k] = Append(presence[k], "returned")
  \/ Seen(k)' = Seen(k) /\ presence'[k] = presence[k]

\* One disk in one successful save takes a step of Presence or none, and is
\* shown from then on as the result says.
LEMMA SaveSuccessMoves ==
  ASSUME TypeOK, SteadyTables, NEW h \in Hosts, SaveSuccess(h), NEW k \in Keys
  PROVE  /\ Told(k)
         /\ Seen(k)' = IF k \in pending[h].found THEN "present"
                       ELSE IF Gone(k, h, pending[h]) THEN "missing" ELSE Seen(k)
<1> DEFINE result == pending[h]
<1>1. /\ hosts[h].lastSuccess < result.at
      /\ result.excluded \subseteq excluded
      /\ k \in result.found => Homes[k] = {h}
  BY DEF SteadyTables, SaveSuccess
<1>2. /\ hosts[h].lastSuccess \in Nat /\ result.at \in Nat /\ disks[k].lastSeen \in Nat
      /\ result.at # Never
  BY <1>1 DEF TypeOK, HostRow, Result, DiskRow, Never
<1>3. Known(k) => /\ Homes[k] = {disks[k].host} /\ disks[k].host \in Hosts
                  /\ k \notin excluded
                  /\ disks[k].lastSeen <= hosts[disks[k].host].lastSuccess
  BY StorageAssumption DEF SteadyTables
<1>4. CASE k \in result.found
  <2>1. Seen(k)' = "present"
    <3>1. /\ disks'[k].host = h /\ disks'[k].lastSeen = result.at
          /\ hosts'[h].lastSuccess = result.at
      BY <1>4, SaveSuccessRows DEF Recorded
    <3> QED BY <1>2, <3>1 DEF Seen, Known, ShownMissing
  <2>2. ~Gone(k, h, result) BY <1>4 DEF Gone
  <2>3. CASE Back(k, h, result)
    <3>1. Seen(k) = "missing"
      BY <2>3, <1>1, <1>3 DEF Back, Seen, ShownMissing
    <3>2. presence'[k] = Append(presence[k], "returned")
      BY <2>2, <2>3, SaveSuccessRows DEF Recorded, PresenceAfter
    <3> QED BY <1>4, <2>1, <3>1, <3>2 DEF Told
  <2>4. CASE ~Back(k, h, result)
    <3>1. Seen(k) \in {"unseen", "present"}
      BY <1>4, <2>4, <1>1, <1>2, <1>3 DEF Back, Seen, ShownMissing, Known, Never
    <3>2. presence'[k] = presence[k] BY <2>2, <2>4, SaveSuccessRows DEF Recorded, PresenceAfter
    <3> QED BY <1>4, <2>1, <3>1, <3>2 DEF Told
  <2> QED BY <2>3, <2>4
<1>5. CASE k \notin result.found
  <2>1. disks'[k] = disks[k] /\ ~Back(k, h, result) BY <1>5, SaveSuccessRows DEF Recorded, Back
  <2>2. CASE Gone(k, h, result)
    <3>1. Seen(k)' = "missing"
      BY <2>1, <2>2, <1>1, <1>2, <1>3, SaveSuccessRows DEF Recorded, Gone, Seen, ShownMissing, Known
    <3>2. Seen(k) = "present" BY <2>2, <1>2 DEF Gone, Seen, ShownMissing
    <3>3. presence'[k] = Append(presence[k], "missing")
      BY <2>2, SaveSuccessRows DEF Recorded, PresenceAfter
    <3> QED BY <1>5, <2>2, <3>1, <3>2, <3>3 DEF Told
  <2>3. CASE ~Gone(k, h, result)
    <3>1. presence'[k] = presence[k] BY <2>1, <2>3, SaveSuccessRows DEF Recorded, PresenceAfter
    <3>2. Seen(k)' = Seen(k)
      <4>1. CASE ~Known(k) BY <4>1, <2>1 DEF Seen, Known
      <4>2. CASE Known(k) /\ disks[k].host # h
        BY <4>2, <2>1, <1>3, SaveSuccessRows DEF Recorded, Seen, ShownMissing, Known
      <4>3. CASE Known(k) /\ disks[k].host = h
        <5>1. ShownMissing(k)
          BY <4>3, <2>3, <1>5, <1>1, <1>2, <1>3 DEF Gone, ShownMissing, Known, Never
        <5>2. ShownMissing(k)'
          BY <4>3, <5>1, <2>1, <1>1, <1>2, SaveSuccessRows DEF Recorded, ShownMissing, Known
        <5> QED BY <4>3, <5>1, <5>2, <2>1 DEF Seen, Known
      <4> QED BY <4>1, <4>2, <4>3
    <3> QED BY <1>5, <2>3, <3>1, <3>2 DEF Told
  <2> QED BY <2>2, <2>3
<1> QED BY <1>4, <1>5

\* A step that changes neither the rows of the disks nor the successes of the
\* hosts is not seen.
LEMMA QuietSeen ==
  ASSUME SteadyTables, UNCHANGED disks, NEW k \in Keys,
         \A g \in Hosts : hosts'[g].lastSuccess = hosts[g].lastSuccess
  PROVE  Seen(k)' = Seen(k)
<1>1. Known(k) => disks[k].host \in Hosts BY StorageAssumption DEF SteadyTables
<1> QED BY <1>1 DEF Seen, ShownMissing, Known

LEMMA StepAnnounced ==
  ASSUME PresenceInv, PresenceInv', [Next]_vars, NEW k \in Keys
  PROVE  Told(k)
<1> USE DEF PresenceInv
<1>1. ASSUME NEW h \in Hosts, SaveSuccess(h) PROVE Told(k)
  BY <1>1, SaveSuccessMoves
<1>2. ASSUME NEW h \in Hosts, SaveFailure(h)
      PROVE  Seen(k)' = Seen(k) /\ presence' = presence
  BY <1>2, SaveFailureSteady, QuietSeen DEF SaveFailure
<1>3. CASE Collect \/ Rollup \/ Abandon \/ UNCHANGED vars
  BY <1>3, QuietSeen DEF Told, Collect, Rollup, Abandon, vars
<1> QED BY <1>1, <1>2, <1>3 DEF Next, Told

\* Every disappearance and every return of a disk is announced when the API
\* begins to show it, once, and nothing else is announced (storage.py,
\* StatusChange): the database implements Presence.
THEOREM PresenceImplemented ==
  ASSUME SteadyWorld
  PROVE  Spec => AnnouncesPresence
<1> DEFINE state == [k \in Keys |-> Seen(k)]
<1>1. Init => Announced!Init
  <2> SUFFICES ASSUME Init PROVE Announced!Init OBVIOUS
  <2>1. \A k \in Keys : Seen(k) = "unseen" BY DEF Init, NoRow, Seen, Known
  <2>2. presence = [k \in Keys |-> <<>>] BY DEF Init
  <2> QED BY <2>1, <2>2 DEF Announced!Init
<1>2. PresenceInv /\ PresenceInv' /\ [Next]_vars => [Announced!Next]_<<state, presence>>
  <2> SUFFICES ASSUME PresenceInv, PresenceInv', [Next]_vars PROVE Announced!Next OBVIOUS
  <2>1. DOMAIN state' = Keys OBVIOUS
  <2>2. DOMAIN presence' = Keys BY DEF PresenceInv, TypeOK
  <2>3. ASSUME NEW k \in Keys
        PROVE  \/ Announced!Appears(k) \/ Announced!Vanishes(k)
               \/ Announced!Returns(k) \/ Announced!Stays(k)
    BY <2>3, StepAnnounced
    DEF Told, Announced!Appears, Announced!Vanishes, Announced!Returns, Announced!Stays,
        Announced!Moves, Announced!Tells, Announced!Silent
  <2> QED BY <2>1, <2>2, <2>3 DEF Announced!Next
<1>3. Spec => []PresenceInv BY PresenceInvariant
<1> QED BY <1>1, <1>2, <1>3, PTL DEF Spec, AnnouncesPresence, Announced!Spec

-----------------------------------------------------------------------------
(* The two histories: the status events of a disk, and the samples that are *)
(* folded into days.                                                        *)

\* Induction: what is false of a number is false of a least one.
LEMMA LeastNumber ==
  ASSUME NEW T \in SUBSET Nat, T # {}
  PROVE  \E n \in T : \A m \in T : n <= m
<1> DEFINE R == {ss \in Nat \X Nat : ss[1] < ss[2]}
<1>1. IsWellFoundedOn(R, Nat) BY NatLessThanWellFounded DEF OpToRel
<1>2. ASSUME NEW x \in Nat, NEW y \in Nat, y < x PROVE <<y, x>> \in R BY <1>2
<1> HIDE DEF R
<1>3. PICK n \in T : \A y \in T : <<y, n>> \notin R BY <1>1, WFMin
<1>4. \A m \in T : m \in Nat /\ ~(m < n) BY <1>2, <1>3
<1> QED BY <1>4

\* Nothing is saved with the time that stands for NULL.
Stamped == \A h \in Hosts : pending[h].kind # "none" => pending[h].at > Never

LEMMA CollectStamped ==
  ASSUME TypeOK, Collect PROVE Stamped'
<1>1. PICK gap \in Gaps, placed \in Placements, reachable \in SUBSET Hosts,
           status \in [Keys -> Statuses], at \in [Hosts -> 1..Span] :
         /\ clock + gap >= 0
         /\ pending' = [h \in Hosts |-> Collected(h, clock + gap + at[h], reachable, placed, status)]
  BY DEF Collect
<1>2. clock + gap \in Nat BY <1>1, StorageAssumption DEF TypeOK
<1>3. ASSUME NEW h \in Hosts PROVE pending'[h].at > 0
  <2>1. pending'[h].at = clock + gap + at[h] BY <1>1 DEF Collected, EmptyResult
  <2>2. at[h] \in 1..Span OBVIOUS
  <2> QED BY <1>2, <2>1, <2>2, StorageAssumption
<1> QED BY <1>3 DEF Stamped, Never

LEMMA StampedStep ==
  ASSUME TypeOK, Stamped, [Next]_vars PROVE Stamped'
<1>1. CASE Collect BY <1>1, CollectStamped
<1>2. CASE \E h \in Hosts : SaveFailure(h) \/ SaveSuccess(h)
  BY <1>2, ConstantTypes DEF SaveFailure, SaveSuccess, Stamped, TypeOK
<1>3. CASE Rollup BY <1>3 DEF Rollup, Stamped
<1>4. CASE Abandon BY <1>4, ConstantTypes DEF Abandon, Stamped
<1>5. CASE UNCHANGED vars BY <1>5 DEF vars, Stamped
<1> QED BY <1>1, <1>2, <1>3, <1>4, <1>5 DEF Next

-----------------------------------------------------------------------------
(* Status events *)

\* The story of one disk: StatusLogIsComplete says this of every disk.
Story(k) == LET log == statusLog[k] IN
  /\ \A i \in 2..Len(log) : log[i].old = log[i-1].new
  /\ \A i \in 1..Len(log) : log[i].old # log[i].new
  /\ Known(k) => disks[k].status = IF log = <<>> THEN OK ELSE LastOf(log).new
  /\ ~Known(k) => log = <<>>

\* An event that starts where the story ends continues it.
LEMMA AppendStory ==
  ASSUME NEW log \in Seq(Change), NEW e \in Change,
         \A i \in 2..Len(log) : log[i].old = log[i-1].new,
         \A i \in 1..Len(log) : log[i].old # log[i].new,
         log # <<>> => e.old = LastOf(log).new,
         e.old # e.new
  PROVE  /\ \A i \in 2..Len(Append(log, e)) : Append(log, e)[i].old = Append(log, e)[i-1].new
         /\ \A i \in 1..Len(Append(log, e)) : Append(log, e)[i].old # Append(log, e)[i].new
         /\ Append(log, e) # <<>>
         /\ LastOf(Append(log, e)) = e
<1> DEFINE new == Append(log, e)
<1>1. Len(log) \in Nat /\ Len(new) = Len(log) + 1 OBVIOUS
<1>2. new[Len(log) + 1] = e OBVIOUS
<1>3. \A i \in 1..Len(log) : new[i] = log[i] OBVIOUS
<1>4. log = <<>> <=> Len(log) = 0 OBVIOUS
<1>5. new # <<>>
  <2>1. new = <<>> => Len(new) = 0 OBVIOUS
  <2> QED BY <1>1, <2>1
<1> HIDE DEF new
<1>6. ASSUME NEW i \in 1..Len(new) PROVE new[i].old # new[i].new
  <2>1. CASE i = Len(log) + 1 BY <2>1, <1>2
  <2>2. CASE i # Len(log) + 1
    <3>1. i \in 1..Len(log) BY <2>2, <1>1
    <3> QED BY <3>1, <1>3
  <2> QED BY <2>1, <2>2
<1>7. ASSUME NEW i \in 2..Len(new) PROVE new[i].old = new[i-1].new
  <2>1. CASE i = Len(log) + 1
    <3>1. Len(log) \in 1..Len(log) /\ log # <<>> BY <2>1, <1>1, <1>4
    <3>2. new[i-1] = log[Len(log)] BY <2>1, <3>1, <1>3
    <3>3. new[i] = e BY <2>1, <1>2
    <3> QED BY <3>1, <3>2, <3>3 DEF LastOf
  <2>2. CASE i # Len(log) + 1
    <3>1. i \in 2..Len(log) /\ i - 1 \in 1..Len(log) /\ i \in 1..Len(log) BY <2>2, <1>1
    <3>2. new[i] = log[i] /\ new[i-1] = log[i-1] BY <3>1, <1>3
    <3> QED BY <3>1, <3>2
  <2> QED BY <2>1, <2>2
<1>8. LastOf(new) = e BY <1>1, <1>2 DEF LastOf
<1> QED BY <1>5, <1>6, <1>7, <1>8 DEF new

\* Recording a result, by whichever process, continues the story of every disk.
LEMMA RecordedStory ==
  ASSUME TypeOK, NEW h \in Hosts, NEW result \in Result, result.at > Never, NEW k \in Keys,
         disks'[k] = DiskRowAfter(k, h, result), statusLog'[k] = StatusLogAfter(k, result),
         Story(k)
  PROVE  Story(k)'
<1> DEFINE log == statusLog[k]
           e == [old |-> OldStatus(k), new |-> result.status[k], ts |-> result.at]
<1>1. log \in Seq(Change) /\ disks[k] \in DiskRow BY DEF TypeOK
<1>2. /\ disks'[k] = DiskRowAfter(k, h, result)
      /\ statusLog'[k] = StatusLogAfter(k, result)
  OBVIOUS
<1>3. CASE k \notin result.found
  <2>1. disks'[k] = disks[k] BY <1>2, <1>3 DEF DiskRowAfter
  <2>2. statusLog'[k] = log BY <1>2, <1>3 DEF StatusLogAfter, NewsWorthy
  <2> QED BY <2>1, <2>2 DEF Story, Known
<1>4. CASE k \in result.found
  <2>1. disks'[k] = [host |-> h, status |-> result.status[k], lastSeen |-> result.at]
    BY <1>2, <1>4 DEF DiskRowAfter
  <2>2. Known(k)' /\ disks'[k].status = result.status[k] BY <2>1, <1>1 DEF Known, Never, Result
  <2>3. CASE NewsWorthy(k, result)
    <3>1. statusLog'[k] = Append(log, e) BY <1>2, <2>3 DEF StatusLogAfter
    <3>2. OldStatus(k) \in Severity \cup {NoStatus} BY <1>1 DEF OldStatus, DiskRow
    <3>3. e \in Change BY <1>1, <3>2 DEF Change, Result
    <3>4. e.old # e.new BY <2>3 DEF NewsWorthy
    <3>5. log # <<>> => e.old = LastOf(log).new BY DEF Story, OldStatus
    <3>6. /\ \A i \in 2..Len(log) : log[i].old = log[i-1].new
          /\ \A i \in 1..Len(log) : log[i].old # log[i].new
      BY DEF Story
    <3>7. /\ \A i \in 2..Len(Append(log, e)) : Append(log, e)[i].old = Append(log, e)[i-1].new
          /\ \A i \in 1..Len(Append(log, e)) : Append(log, e)[i].old # Append(log, e)[i].new
          /\ Append(log, e) # <<>>
          /\ LastOf(Append(log, e)) = e
      <4> HIDE DEF log, e
      <4> QED BY <1>1, <3>3, <3>4, <3>5, <3>6, AppendStory
    <3>8. e.new = result.status[k] OBVIOUS
    <3> HIDE DEF log, e
    <3> QED BY <2>2, <3>1, <3>7, <3>8 DEF Story
  <2>4. CASE ~NewsWorthy(k, result)
    <3>1. statusLog'[k] = log BY <1>2, <2>4 DEF StatusLogAfter
    <3>2. result.status[k] = IF log = <<>> THEN OK ELSE LastOf(log).new
      <4>1. CASE Known(k) BY <4>1, <2>4, <1>4 DEF NewsWorthy, OldStatus, Story
      <4>2. CASE ~Known(k)
        <5>1. OldStatus(k) # result.status[k]
          BY <4>2, <1>1 DEF OldStatus, NoStatus, Result, Severity
        <5> QED BY <4>2, <5>1, <2>4, <1>4 DEF NewsWorthy, Story
      <4> QED BY <4>1, <4>2
    <3> QED BY <2>2, <3>1, <3>2 DEF Story
  <2> QED BY <2>3, <2>4
<1> QED BY <1>3, <1>4

LEMMA SaveSuccessStory ==
  ASSUME TypeOK, Stamped, NEW h \in Hosts, SaveSuccess(h), NEW k \in Keys, Story(k)
  PROVE  Story(k)'
<1>1. /\ pending[h] \in Result /\ pending[h].at > Never
      /\ disks'[k] = DiskRowAfter(k, h, pending[h])
      /\ statusLog'[k] = StatusLogAfter(k, pending[h])
  BY DEF SaveSuccess, TypeOK, Stamped
<1> QED BY <1>1, RecordedStory

LEMMA QuietStory ==
  ASSUME UNCHANGED <<disks, statusLog>>, NEW k \in Keys, Story(k) PROVE Story(k)'
BY DEF Story, Known

LEMMA StoryStep ==
  ASSUME TypeOK, Stamped, NEW k \in Keys, Story(k), [Next]_vars PROVE Story(k)'
<1>1. CASE \E h \in Hosts : SaveSuccess(h) BY <1>1, SaveSuccessStory
<1>2. CASE ~\E h \in Hosts : SaveSuccess(h)
  <2>1. UNCHANGED <<disks, statusLog>>
    BY <1>2 DEF Next, vars, Collect, SaveFailure, Rollup, Abandon
  <2> QED BY <2>1, QuietStory
<1> QED BY <1>1, <1>2

\* The events of a disk tell its whole story (storage.py, save: "if old_status
\* != new"): each starts where the one before it ended and the last one ends
\* at the stored status, whatever the hosts, the clock and the configuration do.
THEOREM StatusLogCorrect == Spec => []StatusLogIsComplete
<1> DEFINE Inv == TypeOK /\ Stamped /\ \A k \in Keys : Story(k)
<1>1. Init => Inv
  <2> SUFFICES ASSUME Init PROVE Inv OBVIOUS
  <2>1. Stamped BY ConstantTypes DEF Init, Stamped
  <2>2. \A k \in Keys : Story(k) BY DEF Init, Story, Known, NoRow
  <2> QED BY <2>1, <2>2, InitType
<1>2. Inv /\ [Next]_vars => Inv'
  <2> SUFFICES ASSUME Inv, [Next]_vars PROVE Inv' OBVIOUS
  <2> QED BY NextType, StampedStep, StoryStep
<1>3. Inv => StatusLogIsComplete BY DEF StatusLogIsComplete, Story
<1> QED BY <1>1, <1>2, <1>3, PTL DEF Spec

-----------------------------------------------------------------------------
(* Days *)

LEMMA DayMonotone ==
  ASSUME NEW s \in Int, NEW t \in Int, s <= t PROVE Day(s) <= Day(t)
<1>1. DayLength \in Nat /\ DayLength > 0 BY StorageAssumption
<1> QED BY <1>1, SMTT(30) DEF Day

\* A time before midnight of a day belongs to an earlier day, any other does not.
LEMMA DayBoundary ==
  ASSUME NEW t \in Int, NEW n \in Int
  PROVE  t < n * DayLength <=> Day(t) < n
<1>1. DayLength \in Nat /\ DayLength > 0 BY StorageAssumption
<1> QED BY <1>1, SMTT(30) DEF Day

\* What rollup has folded is in the past: of the clock and of every result that
\* is still to be saved.
DaysInv ==
  /\ \A d \in daily : d.day < Day(clock)
  /\ \A d \in daily, h \in Hosts : pending[h].kind # "none" => d.day < Day(pending[h].at)
  /\ NoDayIsSplit

\* Collecting happens after everything that was folded.
LEMMA CollectTimes ==
  ASSUME TypeOK, SteadyClock, Collect
  PROVE  /\ clock <= clock'
         /\ \A h \in Hosts : clock < pending'[h].at /\ pending'[h].at <= clock'
<1>1. PICK gap \in Gaps, placed \in Placements, reachable \in SUBSET Hosts,
           status \in [Keys -> Statuses], at \in [Hosts -> 1..Span] :
         /\ clock' = clock + gap + Span
         /\ pending' = [h \in Hosts |-> Collected(h, clock + gap + at[h], reachable, placed, status)]
  BY DEF Collect
<1>2. gap \in Nat /\ Span \in Nat /\ clock \in Nat
  BY StorageAssumption DEF SteadyClock, TypeOK
<1>3. ASSUME NEW h \in Hosts PROVE clock < pending'[h].at /\ pending'[h].at <= clock'
  <2>1. pending'[h].at = clock + gap + at[h] BY <1>1 DEF Collected, EmptyResult
  <2>2. at[h] \in 1..Span OBVIOUS
  <2> QED BY <1>1, <1>2, <2>1, <2>2
<1> QED BY <1>1, <1>2, <1>3

LEMMA CollectDays ==
  ASSUME TypeOK, SteadyClock, DaysInv, Collect PROVE DaysInv'
<1>1. /\ UNCHANGED <<samples, daily>>
      /\ clock \in Int /\ clock' \in Int
      /\ \A h \in Hosts : pending'[h].at \in Int
  <2>1. TypeOK' BY CollectType
  <2>2. \A h \in Hosts : pending'[h] \in Result BY <2>1 DEF TypeOK
  <2>3. clock' \in Nat /\ clock \in Nat BY <2>1 DEF TypeOK
  <2> QED BY <2>2, <2>3 DEF Collect, Result
<1>2. Day(clock) <= Day(clock')
  <2>1. clock <= clock' BY CollectTimes
  <2> QED BY <1>1, <2>1, DayMonotone
<1>3. \A h \in Hosts : Day(clock) <= Day(pending'[h].at) BY <1>1, CollectTimes, DayMonotone
<1>4. ASSUME NEW d \in daily
      PROVE  d.day < Day(clock') /\ \A h \in Hosts : d.day < Day(pending'[h].at)
  <2>1. d.day \in Int /\ d.day < Day(clock) BY DEF DaysInv, TypeOK, DayRow
  <2>2. Day(clock) \in Int /\ Day(clock') \in Int /\ \A h \in Hosts : Day(pending'[h].at) \in Int
    BY <1>1, DayType
  <2> QED BY <2>1, <2>2, <1>2, <1>3
<1>5. NoDayIsSplit' BY <1>1 DEF DaysInv, NoDayIsSplit, Day
<1> QED BY <1>1, <1>4, <1>5 DEF DaysInv, Day

LEMMA SaveDays ==
  ASSUME TypeOK, DaysInv, NEW h \in Hosts, SaveFailure(h) \/ SaveSuccess(h)
  PROVE  DaysInv'
<1>1. UNCHANGED <<clock, daily>> BY DEF SaveFailure, SaveSuccess
<1>2. \A g \in Hosts : pending'[g].kind # "none" => pending'[g] = pending[g]
  BY ConstantTypes DEF SaveFailure, SaveSuccess, TypeOK
<1>3. ASSUME NEW s \in samples', NEW d \in daily, s.key = d.key PROVE Day(s.ts) # d.day
  <2>1. CASE s \in samples BY <2>1, <1>3 DEF DaysInv, NoDayIsSplit
  <2>2. CASE s \notin samples
    <3>1. s.ts = pending[h].at /\ pending[h].kind # "none"
      BY <2>2 DEF SaveFailure, SaveSuccess, SamplesAfter
    <3>2. d.day < Day(s.ts) BY <3>1 DEF DaysInv
    <3>3. d.day \in Int /\ pending[h].at \in Int BY DEF TypeOK, DayRow, Result
    <3>4. Day(s.ts) \in Int BY <3>1, <3>3, DayType
    <3> QED BY <3>2, <3>3, <3>4
  <2> QED BY <2>1, <2>2
<1> QED BY <1>1, <1>2, <1>3 DEF DaysInv, NoDayIsSplit, Day

\* Every folded day ended before midnight of the first day that is kept.
LEMMA FoldedDays ==
  ASSUME TypeOK, NEW f \in Fold(Expired)
  PROVE  /\ f \in DayRow
         /\ f.day < Day(clock - RetentionDays * DayLength)
         /\ \E s \in samples : s.key = f.key /\ Day(s.ts) = f.day
<1> DEFINE first == Day(clock - RetentionDays * DayLength)
<1>1. Expired \in SUBSET Sample BY DEF Expired, TypeOK
<1>2. clock - RetentionDays * DayLength \in Int BY StorageAssumption DEF TypeOK
<1>3. first \in Int BY <1>2, DayType
<1>4. f \in DayRow /\ \E s \in Expired : s.key = f.key /\ Day(s.ts) = f.day BY <1>1, FoldType
<1>5. PICK s \in Expired : s.key = f.key /\ Day(s.ts) = f.day BY <1>4
<1>6. s \in samples /\ s.ts < first * DayLength BY <1>5 DEF Expired, Cutoff
<1>7. s.ts \in Int BY <1>6 DEF TypeOK, Sample
<1> HIDE DEF first
<1>8. Day(s.ts) < first BY <1>3, <1>6, <1>7, DayBoundary
<1> QED BY <1>4, <1>5, <1>6, <1>8 DEF first

LEMMA RollupDays ==
  ASSUME TypeOK, DaysInv, Rollup PROVE DaysInv' /\ daily \subseteq daily'
<1> DEFINE first == Day(clock - RetentionDays * DayLength)
           folded == Fold(Expired)
<1>1. /\ clock' = clock /\ pending' = pending
      /\ samples' = samples \ Expired
      /\ daily' = {d \in daily : ~\E f \in folded : f.key = d.key /\ f.day = d.day} \cup folded
      /\ \A h \in Hosts : pending[h].kind = "none"
  BY DEF Rollup, Idle
<1>2. clock \in Int /\ clock - RetentionDays * DayLength \in Int
      /\ clock - RetentionDays * DayLength <= clock
  BY StorageAssumption, SMTT(30) DEF TypeOK
<1>3. first \in Int /\ Day(clock) \in Int /\ first <= Day(clock)
  BY <1>2, DayType, DayMonotone
<1>4. \A f \in folded : /\ f.day \in Int /\ f.day < first
                       /\ \E s \in samples : s.key = f.key /\ Day(s.ts) = f.day
  BY FoldedDays DEF DayRow
<1>5. \A s \in samples' : s \in samples /\ s.ts \in Int /\ Day(s.ts) \in Int /\ ~(Day(s.ts) < first)
  <2> SUFFICES ASSUME NEW s \in samples'
               PROVE  s \in samples /\ s.ts \in Int /\ Day(s.ts) \in Int /\ ~(Day(s.ts) < first)
    OBVIOUS
  <2>1. s \in samples /\ ~(s.ts < first * DayLength) BY <1>1 DEF Expired, Cutoff
  <2>2. s.ts \in Int BY <2>1 DEF TypeOK, Sample
  <2> HIDE DEF first
  <2> QED BY <2>1, <2>2, <1>3, DayType, DayBoundary
<1> HIDE DEF first, folded
<1>6. \A d \in daily : ~\E f \in folded : f.key = d.key /\ f.day = d.day
  BY <1>4 DEF DaysInv, NoDayIsSplit
<1>7. daily' = daily \cup folded BY <1>1, <1>6
<1>8. \A d \in daily' : d.day < Day(clock) BY <1>7, <1>3, <1>4 DEF DaysInv
<1>9. ASSUME NEW s \in samples', NEW d \in daily', s.key = d.key PROVE Day(s.ts) # d.day
  <2>1. CASE d \in daily BY <2>1, <1>5, <1>9 DEF DaysInv, NoDayIsSplit
  <2>2. CASE d \in folded BY <2>2, <1>3, <1>4, <1>5
  <2> QED BY <2>1, <2>2, <1>7
<1> QED BY <1>1, <1>7, <1>8, <1>9 DEF DaysInv, NoDayIsSplit, Day

LEMMA AbandonDays ==
  ASSUME DaysInv, Abandon PROVE DaysInv'
BY ConstantTypes DEF DaysInv, NoDayIsSplit, Day, Abandon

LEMMA DaysStep ==
  ASSUME TypeOK, SteadyClock, DaysInv, [Next]_vars PROVE DaysInv' /\ daily \subseteq daily'
<1>1. CASE Collect BY <1>1, CollectDays DEF Collect
<1>2. CASE \E h \in Hosts : SaveFailure(h) \/ SaveSuccess(h)
  BY <1>2, SaveDays DEF SaveFailure, SaveSuccess
<1>3. CASE Rollup BY <1>3, RollupDays
<1>4. CASE Abandon BY <1>4, AbandonDays DEF Abandon
<1>5. CASE UNCHANGED vars BY <1>5 DEF vars, DaysInv, NoDayIsSplit, Day
<1> QED BY <1>1, <1>2, <1>3, <1>4, <1>5 DEF Next

\* As long as the clock is not set back, no day is ever rolled up half at a
\* time (storage.py, rollup), whatever the length of a day and the retention:
\* history() never returns one day twice.
THEOREM NoDaySplit == ASSUME SteadyClock PROVE Spec => []NoDayIsSplit
<1> DEFINE Inv == TypeOK /\ DaysInv
<1>1. Init => Inv
  <2> SUFFICES ASSUME Init PROVE Inv OBVIOUS
  <2>1. DaysInv BY ConstantTypes DEF Init, DaysInv, NoDayIsSplit
  <2> QED BY <2>1, InitType
<1>2. Inv /\ [Next]_vars => Inv' BY NextType, DaysStep
<1>3. Inv => NoDayIsSplit BY DEF DaysInv
<1> QED BY <1>1, <1>2, <1>3, PTL DEF Spec

\* And a folded day is final: INSERT OR REPLACE INTO daily never replaces a row,
\* so no day loses the worst status it was folded with.
THEOREM FoldedDaysStay == ASSUME SteadyClock PROVE Spec => FoldedDayIsFinal
<1> DEFINE Inv == TypeOK /\ DaysInv
<1>1. Init => Inv
  <2> SUFFICES ASSUME Init PROVE Inv OBVIOUS
  <2>1. DaysInv BY ConstantTypes DEF Init, DaysInv, NoDayIsSplit
  <2> QED BY <2>1, InitType
<1>2. Inv /\ [Next]_vars => Inv' BY NextType, DaysStep
<1>3. Inv /\ [Next]_vars => [daily \subseteq daily']_vars BY DaysStep
<1> QED BY <1>1, <1>2, <1>3, PTL DEF Spec, FoldedDayIsFinal

-----------------------------------------------------------------------------
(* Severities *)

\* A nonempty set of times that are not in the future has a latest one.
LEMMA LatestTime ==
  ASSUME NEW now \in Nat, NEW T \in SUBSET Nat, T # {}, \A t \in T : t <= now
  PROVE  \E t \in T : \A u \in T : u <= t
<1> DEFINE Ages == {now - t : t \in T}
<1>1. Ages \in SUBSET Nat /\ Ages # {}
  <2>1. \A t \in T : now - t \in Nat OBVIOUS
  <2>2. PICK t \in T : TRUE OBVIOUS
  <2>3. now - t \in Ages BY <2>2
  <2> QED BY <2>1, <2>3
<1> HIDE DEF Ages
<1>2. PICK a \in Ages : \A b \in Ages : a <= b BY <1>1, LeastNumber
<1>3. PICK t \in T : a = now - t BY DEF Ages
<1>4. \A u \in T : now - u \in Ages BY DEF Ages
<1>5. \A u \in T : u <= t BY <1>2, <1>3, <1>4
<1> QED BY <1>5

\* Every folded sample is in the row of its day, which is as severe as it was.
LEMMA FoldCovers ==
  ASSUME NEW now \in Nat, NEW rows \in SUBSET Sample, \A s \in rows : s.ts <= now,
         NEW s \in rows
  PROVE  \E f \in Fold(rows) : f.key = s.key /\ f.day = Day(s.ts) /\ f.status >= s.status
<1> DEFINE same == {t \in rows : SameDay(t, s)}
           times == {t.ts : t \in same}
           Worst(x) == CHOOSE w \in {t.status : t \in {u \in rows : SameDay(u, x)}} :
                         \A t \in rows : SameDay(t, x) => t.status <= w
<1>1. s \in same BY DEF SameDay
<1>2. times \in SUBSET Nat /\ times # {} /\ \A t \in times : t <= now BY <1>1 DEF Sample
<1>3. PICK latest \in times : \A u \in times : u <= latest
  <2> HIDE DEF times
  <2> QED BY <1>2, LatestTime
<1>4. PICK last \in same : last.ts = latest OBVIOUS
<1>5. last \in rows /\ \A t \in rows : SameDay(t, last) => t.ts <= last.ts
  BY <1>3, <1>4 DEF SameDay
<1>6. [key |-> last.key, day |-> Day(last.ts), ts |-> last.ts, status |-> Worst(last)] \in Fold(rows)
  BY <1>5 DEF Fold
<1>7. PICK f \in Fold(rows) : f.key = last.key /\ f.day = Day(last.ts) 
  <2> HIDE DEF Worst
  <2> QED BY <1>6
<1>8. f.key = s.key /\ f.day = Day(s.ts) BY <1>4, <1>7 DEF SameDay
<1>9. s.status <= f.status /\ f \in DayRow BY <1>8, FoldType
<1>10. s.status \in Int /\ f.status \in Int BY <1>9 DEF Sample, DayRow, Severity
<1> QED BY <1>8, <1>9, <1>10

\* What a poll brings is newer than every sample of the same disk, and no two
\* hosts bring the same disk.
FreshInv ==
  /\ \A s \in samples : s.ts <= clock
  /\ \A h \in Hosts : pending[h].kind # "none" =>
       /\ pending[h].at <= clock
       /\ \A s \in samples : s.key \in pending[h].found => s.ts < pending[h].at
  /\ \A g, h \in Hosts : g # h => pending[g].found \cap pending[h].found = {}

LEMMA CollectFresh ==
  ASSUME TypeOK, SteadyClock, FreshInv, Collect PROVE FreshInv'
<1>1. PICK gap \in Gaps, placed \in Placements, reachable \in SUBSET Hosts,
           status \in [Keys -> Statuses], at \in [Hosts -> 1..Span] :
         pending' = [h \in Hosts |-> Collected(h, clock + gap + at[h], reachable, placed, status)]
  BY DEF Collect
<1>2. \A h \in Hosts : \A k \in pending'[h].found : placed[k] = h
  BY <1>1 DEF Collected, EmptyResult
<1>3. UNCHANGED samples BY DEF Collect
<1>4. TypeOK' BY CollectType
<1>5. \A h \in Hosts : pending'[h].at \in Nat BY <1>4 DEF TypeOK, Result
<1>6. clock \in Nat /\ clock' \in Nat /\ \A s \in samples : s.ts \in Nat
  BY <1>4 DEF TypeOK, Sample
<1>7. /\ \A s \in samples : s.ts <= clock'
      /\ \A h \in Hosts : /\ pending'[h].at <= clock'
                         /\ \A s \in samples : s.ts < pending'[h].at
  BY <1>5, <1>6, CollectTimes DEF FreshInv
<1> QED BY <1>2, <1>3, <1>7 DEF FreshInv

LEMMA SaveFresh ==
  ASSUME TypeOK, FreshInv, NEW h \in Hosts, SaveFailure(h) \/ SaveSuccess(h)
  PROVE  FreshInv'
<1>1. UNCHANGED clock BY DEF SaveFailure, SaveSuccess
<1>2. \A g \in Hosts : pending'[g] = IF g = h THEN NoResult ELSE pending[g]
  BY DEF SaveFailure, SaveSuccess, TypeOK
<1>3. \A s \in samples' : \/ s \in samples
                         \/ /\ s.key \in pending[h].found /\ s.ts = pending[h].at
                            /\ pending[h].kind # "none"
  BY DEF SaveFailure, SaveSuccess, SamplesAfter
<1>4. NoResult.found = {} BY DEF NoResult, EmptyResult
<1>5. \A s \in samples' : s.ts <= clock BY <1>3 DEF FreshInv
<1>6. ASSUME NEW g \in Hosts, pending'[g].kind # "none"
      PROVE  /\ pending'[g].at <= clock
             /\ \A s \in samples' : s.key \in pending'[g].found => s.ts < pending'[g].at
  <2>1. g # h /\ pending'[g] = pending[g] BY <1>2, <1>6, ConstantTypes
  <2>2. pending[g].found \cap pending[h].found = {} BY <2>1 DEF FreshInv
  <2> QED BY <1>3, <1>6, <2>1, <2>2 DEF FreshInv
<1>7. \A g, f \in Hosts : g # f => pending'[g].found \cap pending'[f].found = {}
  BY <1>2, <1>4 DEF FreshInv
<1> QED BY <1>1, <1>5, <1>6, <1>7 DEF FreshInv

LEMMA FreshStep ==
  ASSUME TypeOK, SteadyClock, FreshInv, [Next]_vars PROVE FreshInv'
<1>1. CASE Collect BY <1>1, CollectFresh
<1>2. CASE \E h \in Hosts : SaveFailure(h) \/ SaveSuccess(h) BY <1>2, SaveFresh
<1>3. CASE Rollup BY <1>3 DEF Rollup, FreshInv
<1>4. CASE Abandon
  <2>1. NoResult.found = {} BY DEF NoResult, EmptyResult
  <2> QED BY <1>4, <2>1, ConstantTypes DEF Abandon, FreshInv
<1>5. CASE UNCHANGED vars BY <1>5 DEF vars, FreshInv
<1> QED BY <1>1, <1>2, <1>3, <1>4, <1>5 DEF Next

\* An event can still be read off the history of its disk.
Kept(k, event, raw, folded) ==
  \/ \E s \in raw : s.key = k /\ s.ts = event.ts /\ s.status = event.new
  \/ \E d \in folded : d.key = k /\ d.day = Day(event.ts) /\ d.status >= event.new

\* Saving loses nothing, if what it brings does not take the place of a sample.
LEMMA KeptWhenSaved ==
  ASSUME NEW result, samples' = SamplesAfter(result), UNCHANGED daily,
         \A s \in samples : s.key \in result.found => s.ts # result.at,
         NEW k, NEW event, Kept(k, event, samples, daily)
  PROVE  Kept(k, event, samples', daily')
<1>1. samples \subseteq samples' BY DEF SamplesAfter
<1> QED BY <1>1 DEF Kept

\* Neither does folding.
LEMMA KeptWhenFolded ==
  ASSUME TypeOK, Rollup, daily \subseteq daily', \A s \in samples : s.ts <= clock,
         NEW k, NEW event, Kept(k, event, samples, daily)
  PROVE  Kept(k, event, samples', daily')
<1>1. CASE \E d \in daily : d.key = k /\ d.day = Day(event.ts) /\ d.status >= event.new
  BY <1>1 DEF Kept
<1>2. CASE \E s \in samples : s.key = k /\ s.ts = event.ts /\ s.status = event.new
  <2>1. PICK s \in samples : s.key = k /\ s.ts = event.ts /\ s.status = event.new BY <1>2
  <2>2. CASE s \in samples' BY <2>1, <2>2 DEF Kept
  <2>3. CASE s \notin samples'
    <3>1. s \in Expired /\ Fold(Expired) \subseteq daily' BY <2>3 DEF Rollup
    <3>2. Expired \in SUBSET Sample /\ clock \in Nat /\ \A t \in Expired : t.ts <= clock
      BY DEF Expired, TypeOK
    <3>3. \E f \in Fold(Expired) : f.key = s.key /\ f.day = Day(s.ts) /\ f.status >= s.status
      BY <3>1, <3>2, FoldCovers
    <3> QED BY <2>1, <3>1, <3>3 DEF Kept
  <2> QED BY <2>2, <2>3
<1> QED BY <1>1, <1>2 DEF Kept

KeptInv == \A k \in Keys : \A i \in 1..Len(statusLog[k]) : Kept(k, statusLog[k][i], samples, daily)

\* What is announced in a save is among the samples of that save.
LEMMA RecordedKept ==
  ASSUME TypeOK, KeptInv, NEW result, samples' = SamplesAfter(result), UNCHANGED daily,
         statusLog' = [k \in Keys |-> StatusLogAfter(k, result)],
         \A s \in samples : s.key \in result.found => s.ts # result.at
  PROVE  KeptInv'
<1> SUFFICES ASSUME NEW k \in Keys, NEW i \in 1..Len(statusLog'[k])
             PROVE  Kept(k, statusLog'[k][i], samples', daily')
  BY DEF KeptInv, Kept, Day
<1> DEFINE e == [old |-> OldStatus(k), new |-> result.status[k], ts |-> result.at]
<1>1. statusLog[k] \in Seq(Change) BY DEF TypeOK
<1>2. CASE ~NewsWorthy(k, result)
  <2>1. statusLog'[k] = statusLog[k] BY <1>2 DEF StatusLogAfter
  <2> QED BY <2>1, KeptWhenSaved DEF KeptInv
<1>3. CASE NewsWorthy(k, result)
  <2>1. statusLog'[k] = Append(statusLog[k], e) BY <1>3 DEF StatusLogAfter
  <2>2. CASE i = Len(statusLog[k]) + 1
    <3>1. statusLog'[k][i] = e BY <2>1, <2>2, <1>1
    <3>2. k \in result.found BY <1>3 DEF NewsWorthy
    <3>3. [key |-> k, ts |-> result.at, status |-> result.status[k]] \in samples'
      BY <3>2 DEF SamplesAfter
    <3> QED BY <3>1, <3>3 DEF Kept
  <2>3. CASE i # Len(statusLog[k]) + 1
    <3>1. i \in 1..Len(statusLog[k]) /\ statusLog'[k][i] = statusLog[k][i]
      <4> HIDE DEF e
      <4> QED BY <2>1, <2>3, <1>1
    <3> QED BY <3>1, KeptWhenSaved DEF KeptInv
  <2> QED BY <2>2, <2>3
<1> QED BY <1>2, <1>3

LEMMA KeptInvStep ==
  ASSUME TypeOK, SteadyClock, DaysInv, FreshInv, KeptInv, [Next]_vars PROVE KeptInv'
<1>1. ASSUME NEW h \in Hosts, SaveSuccess(h) PROVE KeptInv'
  <2>1. pending[h].at \in Nat /\ \A s \in samples : s.ts \in Nat BY DEF TypeOK, Result, Sample
  <2>2. \A s \in samples : s.key \in pending[h].found => s.ts # pending[h].at
    BY <1>1, <2>1 DEF FreshInv, SaveSuccess
  <2> QED BY <1>1, <2>2, RecordedKept DEF SaveSuccess
<1>2. CASE Rollup
  <2>1. daily \subseteq daily' BY <1>2, RollupDays
  <2> QED BY <1>2, <2>1, KeptWhenFolded DEF KeptInv, FreshInv, Rollup
<1>3. CASE ~Rollup /\ ~\E h \in Hosts : SaveSuccess(h)
  <2>1. UNCHANGED <<samples, daily, statusLog>>
    BY <1>3 DEF Next, vars, Collect, SaveFailure, Abandon
  <2> QED BY <2>1 DEF KeptInv, Kept, Day
<1> QED BY <1>1, <1>2, <1>3

\* Folding the samples of a day into one row never hides a severity that was
\* announced (storage.py, rollup: the worst status of the day), for any number
\* of disks, days and events, as long as the clock is not set back.
THEOREM NoSeverityLost == ASSUME SteadyClock PROVE Spec => []NoSeverityIsForgotten
<1> DEFINE Inv == TypeOK /\ DaysInv /\ FreshInv /\ KeptInv
<1>1. Init => Inv
  <2> SUFFICES ASSUME Init PROVE Inv OBVIOUS
  <2>1. DaysInv BY ConstantTypes DEF Init, DaysInv, NoDayIsSplit
  <2>2. FreshInv BY ConstantTypes DEF Init, FreshInv, NoResult, EmptyResult
  <2>3. KeptInv BY DEF Init, KeptInv
  <2> QED BY <2>1, <2>2, <2>3, InitType
<1>2. Inv /\ [Next]_vars => Inv' BY NextType, DaysStep, FreshStep, KeptInvStep
<1>3. Inv => NoSeverityIsForgotten BY DEF KeptInv, Kept, NoSeverityIsForgotten
<1> QED BY <1>1, <1>2, <1>3, PTL DEF Spec
=============================================================================
