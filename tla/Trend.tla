-------------------------------- MODULE Trend --------------------------------
(***************************************************************************)
(* One disk's counters over time: every poll evaluates the reading against *)
(* the oldest sample of the window (storage.py, readings_before) and then  *)
(* saves it, while rollup takes old samples away.  Whether "increasing"    *)
(* and "still there" hold what evaluate.py promises depends on all three.  *)
(*                                                                         *)
(* Of the counters, the reallocated and the pending sectors change; the    *)
(* others are judged by the same rules.                                    *)
(***************************************************************************)
EXTENDS Evaluation, Sequences

CONSTANTS
  Kinds,          \* kinds of drive
  Profiles,       \* readings the counters are put into
  Limits,         \* the thresholds
  Gaps,           \* ticks between two polls that reach the disk
  Window,         \* RISING_WINDOW_DAYS in ticks
  DayLength,      \* ticks in a UTC day
  RetentionDays,
  MaxPolls,       \* bound on the polls
  MaxCount        \* bound on the reallocated sectors

ASSUME TrendAssumption ==
  /\ Kinds \subseteq {"hdd", "ssd", "nvme"}
  /\ Gaps \subseteq Nat \ {0}
  /\ {Window, RetentionDays, MaxPolls, MaxCount} \subseteq Nat /\ DayLength \in Nat \ {0}
  /\ Profiles \subseteq {r \in Readings : r.sources} /\ Limits \in Thresholds

VARIABLES
  clock,
  kind,       \* the drive
  worn,       \* reallocated sectors of the drive itself
  latest,     \* the counters in disks.latest_json
  samples,    \* table samples: time and counters
  reading,    \* what was evaluated last, against which baseline and previous
  status,     \* the status it was given
  polls       \* every evaluation so far: time, counts, the two findings of interest

vars == <<clock, kind, worn, latest, samples, reading, status, polls>>

NoCounts == EmptyReading.counter

TypeOK ==
  /\ clock \in Nat
  /\ kind \in Kinds
  /\ worn \in 0..MaxCount
  /\ latest \in [Counters -> Value]
  /\ samples \subseteq [ts : Nat, counter : [Counters -> Value]]
  /\ reading \in [now : Readings, baseline : Readings, previous : Readings]
  /\ status \in OK..CRITICAL
  /\ polls \in Seq([ts : Nat, count : Value, pending : Value, rising : BOOLEAN, persisting : BOOLEAN])

Init ==
  /\ clock = 0
  /\ kind \in Kinds
  /\ worn = 0
  /\ latest = NoCounts
  /\ samples = {}
  /\ reading = [now |-> EmptyReading, baseline |-> EmptyReading, previous |-> EmptyReading]
  /\ status = UNKNOWN
  /\ polls = <<>>

-----------------------------------------------------------------------------
WithCounts(r, counts) == [r EXCEPT !.counter = counts]

\* Mutant: the baseline is the newest sample.
NewestSample(since) ==
  LET window == {s \in samples : s.ts >= since} IN
  IF window = {} THEN latest
  ELSE (CHOOSE s \in window : \A t \in window : t.ts <= s.ts).counter

\* The oldest sample of the window, or the latest state if there is none.
Baseline(since) ==
  LET window == {s \in samples : s.ts >= since} IN
  IF window = {} THEN latest
  ELSE (CHOOSE s \in window : \A t \in window : s.ts <= t.ts).counter

\* n reallocated and q pending sectors.
Counted(n, q) == [NoCounts EXCEPT !["reallocated"] = n, !["pending"] = q]

\* What a collection finds: nothing answers, or a source that may not know the
\* reallocated sectors.
Answers(count) ==
  {EmptyReading} \cup
  {WithCounts(p, Counted(n, q)) : p \in Profiles, n \in {count, None}, q \in {0, 1}}

Poll ==
  \E gap \in Gaps, count \in {worn, worn + 1} : \E r \in Answers(count) :
    LET now == clock + gap
        baseline == WithCounts(EmptyReading, Baseline(now - Window))
        previous == WithCounts(EmptyReading, latest)
        findings == Findings(kind, r, baseline, previous, Limits)
    IN
    /\ Len(polls) < MaxPolls
    /\ count <= MaxCount
    /\ clock' = now
    /\ worn' = count
    /\ reading' = [now |-> r, baseline |-> baseline, previous |-> previous]
    /\ status' = Status(findings)
    /\ latest' = r.counter
    /\ samples' = samples \cup {[ts |-> now, counter |-> r.counter]}
    /\ polls' = Append(polls, [ts |-> now, count |-> r.counter["reallocated"],
                               pending |-> r.counter["pending"],
                               rising |-> "reallocated_sectors_rising" \in Codes(findings),
                               persisting |-> "pending_sectors_persisting" \in Codes(findings)])
    /\ UNCHANGED kind

\* rollup only matters here for the samples it deletes.
Rollup ==
  LET cutoff == ((clock - RetentionDays * DayLength) \div DayLength) * DayLength IN
  /\ samples' = {s \in samples : s.ts >= cutoff}
  /\ UNCHANGED <<clock, kind, worn, latest, reading, status, polls>>

Next == Poll \/ Rollup

Spec == Init /\ [][Next]_vars

-----------------------------------------------------------------------------
\* Every poll up to the i-th got the count.
Complete(i) == \A j \in 1..i : polls[j].count # None

\* An increase is noticed by the first poll that sees it, however long ago the
\* last one was, and stays noticed for the whole window after the last sample
\* without it (evaluate.py, RISING_WINDOW_DAYS): no rollup takes the baseline
\* away early, as long as raw samples are kept that long.
RisingStays ==
  (RetentionDays * DayLength >= Window) =>
    \A i \in 2..Len(polls) : \A j \in i..Len(polls) :
      (/\ Complete(j)
       /\ polls[i].count > polls[i-1].count
       /\ j = i \/ polls[j].ts - polls[i-1].ts <= Window) => polls[j].rising

\* A pending sector is critical exactly when it is still there at the poll
\* right after one that saw it; a poll without data in between starts over.
PersistingIsTwice ==
  \A i \in 1..Len(polls) :
    polls[i].persisting <=>
      i > 1 /\ polls[i].pending > 0 /\ polls[i-1].pending > 0

\* Readings that differ from r in one value, for the worse.  A limit the drive
\* reports may only lower the configured ones.
Worse(r) ==
  {[r EXCEPT !.failed = TRUE], [r EXCEPT !.attributes = @ + 1], [r EXCEPT !.warnings = @ + 1]}
    \cup {[r EXCEPT !.limit = l] : l \in IF r.limit = None THEN {45, 65, 85} ELSE {}}
    \cup (IF r.spare = None THEN {} ELSE {[r EXCEPT !.spare = Least(@, n)] : n \in {5, 50}})
    \cup (IF r.remaining = None THEN {} ELSE {[r EXCEPT !.remaining = Least(@, n)] : n \in {5, 15}})
    \cup (IF r.estimated = None THEN {} ELSE {[r EXCEPT !.estimated = Least(@, n)] : n \in {5, 15}})
    \cup (IF r.temperature = None THEN {} ELSE {[r EXCEPT !.temperature = @ + n] : n \in {5, 20}})
    \cup {[r EXCEPT !.counter[c] = @ + n] : c \in {d \in Counters : r.counter[d] # None}, n \in {1, 2}}

\* A worse reading is never given a better status, whatever is compared with
\* whatever: the rules for hard disks and SSDs, rising and resting counters,
\* measured and estimated wear and the two kinds of limits fit together.
StatusIsMonotone ==
  LET StatusOf(r) == Status(Findings(kind, r, reading.baseline, reading.previous, Limits)) IN
  reading.now.sources => \A w \in Worse(reading.now) : status <= StatusOf(w)
=============================================================================
