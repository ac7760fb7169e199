----------------------------- MODULE TrendProofs ------------------------------
(***************************************************************************)
(* Theorems about the evaluation of readings and about one disk's counters *)
(* over time, for any thresholds, readings, window and retention.          *)
(***************************************************************************)
EXTENDS Trend, SequenceTheorems, WellFoundedInduction, TLAPS

-----------------------------------------------------------------------------
(* The status of a set of findings *)

Severities == OK..CRITICAL
Judged(F) == \A f \in F : f.severity \in Severities

\* The status is the worst of the findings.
LEMMA StatusIsWorst ==
  ASSUME NEW F, Judged(F), F # {}
  PROVE  /\ \E f \in F : Status(F) = f.severity
         /\ \A f \in F : f.severity <= Status(F)
<1> DEFINE S == {f.severity : f \in F}
<1>1. S # {} /\ S \subseteq {0, 1, 2, 3} BY DEF Judged, Severities, OK, CRITICAL
<1>2. \E s \in S : \A t \in S : t <= s
  <2>1. CASE 3 \in S BY <1>1, <2>1
  <2>2. CASE 3 \notin S /\ 2 \in S BY <1>1, <2>2
  <2>3. CASE 3 \notin S /\ 2 \notin S /\ 1 \in S BY <1>1, <2>3
  <2>4. CASE 3 \notin S /\ 2 \notin S /\ 1 \notin S BY <1>1, <2>4
  <2> QED BY <2>1, <2>2, <2>3, <2>4
<1>3. \E s \in S : \A f \in F : f.severity <= s BY <1>2
<1>4. Status(F) \in S /\ \A f \in F : f.severity <= Status(F) BY <1>3 DEF Status
<1> QED BY <1>4

LEMMA StatusType ==
  ASSUME NEW F, Judged(F)
  PROVE  Status(F) \in Severities
<1>1. CASE F = {} BY <1>1 DEF Status, Severities, OK, CRITICAL
<1>2. CASE F # {} BY <1>2, StatusIsWorst DEF Judged
<1> QED BY <1>1, <1>2

\* Every finding of F is outweighed by one of G.
Outweighs(G, F) == \A f \in F : \E g \in G : f.severity <= g.severity

LEMMA OutweighedStatus ==
  ASSUME NEW F, NEW G, Judged(F), Judged(G), Outweighs(G, F)
  PROVE  Status(F) <= Status(G)
<1>1. Status(G) \in Severities BY StatusType
<1>2. CASE F = {}
  <2>1. Status(F) = 0 BY <1>2 DEF Status, OK
  <2> QED BY <1>1, <2>1 DEF Severities, OK, CRITICAL
<1>3. CASE F # {}
  <2>1. PICK f \in F : Status(F) = f.severity BY <1>3, StatusIsWorst
  <2>2. PICK g \in G : f.severity <= g.severity BY DEF Outweighs
  <2>3. G # {} /\ g.severity <= Status(G) BY <2>2, StatusIsWorst
  <2>4. f.severity \in Int /\ g.severity \in Int BY DEF Judged, Severities, OK, CRITICAL
  <2> QED BY <1>1, <2>1, <2>2, <2>3, <2>4 DEF Severities, OK, CRITICAL
<1> QED BY <1>2, <1>3

LEMMA OutweighsUnion ==
  ASSUME NEW F1, NEW F2, NEW G1, NEW G2, Outweighs(G1, F1), Outweighs(G2, F2)
  PROVE  Outweighs(G1 \cup G2, F1 \cup F2)
BY DEF Outweighs

\* Two rules of which the first is the more severe: what held may turn into it.
LEMMA RulesOutweigh ==
  ASSUME NEW c1, NEW c2, NEW d1, NEW d2, NEW code1, NEW code2, NEW s1 \in Int, NEW s2 \in Int,
         s2 <= s1, c1 => d1, c2 => d1 \/ d2
  PROVE  Outweighs(If(d1, code1, s1) \cup If(d2, code2, s2), If(c1, code1, s1) \cup If(c2, code2, s2))
<1> SUFFICES ASSUME NEW f \in If(c1, code1, s1) \cup If(c2, code2, s2)
             PROVE  \E g \in If(d1, code1, s1) \cup If(d2, code2, s2) : f.severity <= g.severity
  BY DEF Outweighs
<1>1. CASE c1 /\ f = Finding(code1, s1)
  <2>1. Finding(code1, s1) \in If(d1, code1, s1) BY <1>1 DEF If
  <2>2. f.severity <= Finding(code1, s1).severity BY <1>1 DEF Finding
  <2> QED BY <2>1, <2>2
<1>2. CASE c2 /\ f = Finding(code2, s2)
  <2>1. CASE d1
    <3>1. Finding(code1, s1) \in If(d1, code1, s1) BY <2>1 DEF If
    <3>2. f.severity <= Finding(code1, s1).severity BY <1>2 DEF Finding
    <3> QED BY <3>1, <3>2
  <2>2. CASE d2
    <3>1. Finding(code2, s2) \in If(d2, code2, s2) BY <2>2 DEF If
    <3>2. f.severity <= Finding(code2, s2).severity BY <1>2 DEF Finding
    <3> QED BY <3>1, <3>2
  <2> QED BY <1>2, <2>1, <2>2
<1> QED BY <1>1, <1>2 DEF If

\* Every finding has a severity.
LEMMA JudgedFindings ==
  ASSUME NEW k, NEW r, NEW b, NEW p, NEW limits
  PROVE  Judged(Findings(k, r, b, p, limits))
<1> USE DEF Judged, Severities, OK, UNKNOWN, WARNING, CRITICAL, If, Finding
<1>1. Judged(HealthFindings(r)) BY DEF HealthFindings
<1>2. Judged(LifeFindings(k, r, limits)) BY DEF LifeFindings
<1>3. Judged(PendingFindings(r, b, p)) BY DEF PendingFindings
<1>4. Judged(ReallocatedFindings(k, r, b, limits)) BY DEF ReallocatedFindings
<1>5. Judged(CounterFindings(k, r, b, p, limits)) BY <1>3, <1>4 DEF CounterFindings
<1>6. Judged(TemperatureFindings(r, limits)) BY DEF TemperatureFindings
<1> QED BY <1>1, <1>2, <1>5, <1>6 DEF Findings

-----------------------------------------------------------------------------
(* No better readings, no better status *)

\* What is known of one is known of the other, and no less (no more) than that.
NoLess(n, m) == (n = None <=> m = None) /\ m >= n
NoMore(n, m) == (n = None <=> m = None) /\ m <= n

\* w is r or worse, in any number of its values.
NoBetter(w, r) ==
  /\ w.sources = r.sources
  /\ r.failed => w.failed
  /\ w.attributes >= r.attributes /\ w.warnings >= r.warnings
  /\ NoMore(r.spare, w.spare) /\ w.spareMin = r.spareMin
  /\ NoMore(r.remaining, w.remaining) /\ NoMore(r.estimated, w.estimated)
  /\ NoLess(r.temperature, w.temperature)
  /\ w.limit # r.limit => r.limit = None \/ (w.limit > 0 /\ w.limit < r.limit)
  /\ \A c \in Counters : NoLess(r.counter[c], w.counter[c])

LEMMA ReadingFields ==
  ASSUME NEW r \in Readings
  PROVE  /\ r.sources \in BOOLEAN /\ r.failed \in BOOLEAN
         /\ r.attributes \in Nat /\ r.warnings \in Nat
         /\ \A n \in {r.spare, r.spareMin, r.remaining, r.estimated, r.temperature, r.limit} : n \in Int /\ n >= -1
         /\ \A c \in Counters : r.counter[c] \in Int /\ r.counter[c] >= -1
BY DEF Readings, Value, None

LEMMA HealthOutweighs ==
  ASSUME NEW r \in Readings, NEW w \in Readings, NoBetter(w, r)
  PROVE  Outweighs(HealthFindings(w), HealthFindings(r))
BY ReadingFields DEF NoBetter, NoMore, Outweighs, HealthFindings, If, Finding, Some, CRITICAL, None

LEMMA LifeOutweighs ==
  ASSUME NEW r \in Readings, NEW w \in Readings, NoBetter(w, r), NEW k, NEW limits \in Thresholds
  PROVE  Outweighs(LifeFindings(k, w, limits), LifeFindings(k, r, limits))
<1>1. CASE k = "hdd" BY <1>1 DEF LifeFindings, Outweighs
<1>2. CASE k # "hdd"
  <2> DEFINE critical(x) == x.remaining # None /\ x.remaining <= limits.lifeCrit
             low(x) == x.remaining # None /\ x.remaining > limits.lifeCrit /\ x.remaining <= limits.lifeWarn
             guessed(x) == x.remaining = None /\ x.estimated # None /\ x.estimated <= limits.lifeWarn
  <2>1. \A x : LifeFindings(k, x, limits) = If(critical(x), "life_low", CRITICAL)
          \cup If(low(x), "life_low", WARNING) \cup If(guessed(x), "life_low_estimated", WARNING)
    BY <1>2 DEF LifeFindings
  <2>2. /\ critical(r) => critical(w)
        /\ low(r) => critical(w) \/ low(w)
        /\ guessed(r) => guessed(w)
    BY ReadingFields DEF NoBetter, NoMore, Thresholds, None
  <2> HIDE DEF critical, low, guessed
  <2>3. WARNING \in Int /\ CRITICAL \in Int /\ WARNING <= CRITICAL BY DEF WARNING, CRITICAL
  <2>4. Outweighs(If(critical(w), "life_low", CRITICAL) \cup If(low(w), "life_low", WARNING),
                  If(critical(r), "life_low", CRITICAL) \cup If(low(r), "life_low", WARNING))
    BY <2>2, <2>3, RulesOutweigh
  <2>5. Outweighs(If(guessed(w), "life_low_estimated", WARNING), If(guessed(r), "life_low_estimated", WARNING))
    BY <2>2 DEF Outweighs, If, Finding, WARNING
  <2> QED BY <2>1, <2>4, <2>5, OutweighsUnion
<1> QED BY <1>1, <1>2

LEMMA PendingOutweighs ==
  ASSUME NEW r \in Readings, NEW w \in Readings, NoBetter(w, r), NEW b, NEW p
  PROVE  Outweighs(PendingFindings(w, b, p), PendingFindings(r, b, p))
BY ReadingFields DEF NoBetter, NoLess, Outweighs, PendingFindings, Finding, Some, Counters, WARNING, CRITICAL, None

LEMMA ReallocatedOutweighs ==
  ASSUME NEW r \in Readings, NEW w \in Readings, NoBetter(w, r), NEW b \in Readings, NEW k,
         NEW limits \in Thresholds
  PROVE  Outweighs(ReallocatedFindings(k, w, b, limits), ReallocatedFindings(k, r, b, limits))
<1> DEFINE rising(x) == Increased(x.counter["reallocated"], b.counter["reallocated"])
           many(x) == ~rising(x) /\ (k = "hdd" \/ x.counter["reallocated"] >= limits.reallocated)
           severity == IF k = "hdd" THEN CRITICAL ELSE WARNING
<1>1. \A x : ReallocatedFindings(k, x, b, limits) =
        IF ~Some(x.counter["reallocated"]) THEN {}
        ELSE If(rising(x), "reallocated_sectors_rising", severity) \cup If(many(x), "reallocated_sectors", WARNING)
  BY DEF ReallocatedFindings
<1>2. /\ Some(r.counter["reallocated"]) => Some(w.counter["reallocated"])
      /\ rising(r) => rising(w)
      /\ many(r) => rising(w) \/ many(w)
  BY ReadingFields DEF NoBetter, NoLess, Some, Increased, Counters, Thresholds, None
<1>3. severity \in Int /\ WARNING \in Int /\ WARNING <= severity BY DEF WARNING, CRITICAL
<1> HIDE DEF rising, many, severity
<1>4. Outweighs(If(rising(w), "reallocated_sectors_rising", severity) \cup If(many(w), "reallocated_sectors", WARNING),
                If(rising(r), "reallocated_sectors_rising", severity) \cup If(many(r), "reallocated_sectors", WARNING))
  BY <1>2, <1>3, RulesOutweigh
<1> QED BY <1>1, <1>2, <1>4 DEF Outweighs

LEMMA CountersOutweigh ==
  ASSUME NEW r \in Readings, NEW w \in Readings, NoBetter(w, r), NEW b \in Readings, NEW p, NEW k,
         NEW limits \in Thresholds
  PROVE  Outweighs(CounterFindings(k, w, b, p, limits), CounterFindings(k, r, b, p, limits))
<1>1. \A c \in Counters : /\ Some(r.counter[c]) => Some(w.counter[c])
                          /\ Increased(r.counter[c], b.counter[c]) => Increased(w.counter[c], b.counter[c])
  BY ReadingFields DEF NoBetter, NoLess, Some, Increased, None
<1> DEFINE rest(x) ==
      If(Some(x.counter["offline"]), "offline_uncorrectable", CRITICAL)
        \cup If(Some(x.counter["reported"]), "reported_uncorrectable", WARNING)
        \cup If(Increased(x.counter["crc"], b.counter["crc"]), "crc_errors_rising", WARNING)
      worse(x) == Some(x.counter["media"]) /\ Increased(x.counter["media"], b.counter["media"])
      bad(x) == Some(x.counter["media"]) /\ ~Increased(x.counter["media"], b.counter["media"])
      media(x) == If(worse(x), "media_errors_rising", CRITICAL) \cup If(bad(x), "media_errors", WARNING)
<1>2. Outweighs(PendingFindings(w, b, p), PendingFindings(r, b, p)) BY PendingOutweighs
<1>3. Outweighs(ReallocatedFindings(k, w, b, limits), ReallocatedFindings(k, r, b, limits))
  BY ReallocatedOutweighs
<1>4. Outweighs(rest(w), rest(r)) BY <1>1 DEF Counters, Outweighs, If, Finding, WARNING, CRITICAL
<1>5. Outweighs(media(w), media(r))
  <2>1. (worse(r) => worse(w)) /\ (bad(r) => worse(w) \/ bad(w)) BY <1>1 DEF Counters
  <2> HIDE DEF worse, bad
  <2>2. WARNING \in Int /\ CRITICAL \in Int /\ WARNING <= CRITICAL BY DEF WARNING, CRITICAL
  <2> QED BY <2>1, <2>2, RulesOutweigh
<1>6. \A x : CounterFindings(k, x, b, p, limits) =
        PendingFindings(x, b, p) \cup ReallocatedFindings(k, x, b, limits) \cup rest(x) \cup media(x)
  BY DEF CounterFindings
<1> HIDE DEF rest, media
<1> QED BY <1>2, <1>3, <1>4, <1>5, <1>6 DEF Outweighs

LEMMA TemperatureOutweighs ==
  ASSUME NEW r \in Readings, NEW w \in Readings, NoBetter(w, r), NEW limits \in Thresholds
  PROVE  Outweighs(TemperatureFindings(w, limits), TemperatureFindings(r, limits))
<1> DEFINE lr == TemperatureLimits(r, limits)
           lw == TemperatureLimits(w, limits)
<1>1. /\ lr.warn \in Int /\ lr.crit \in Int /\ lw.warn \in Int /\ lw.crit \in Int
      /\ lw.warn <= lr.warn /\ lw.crit <= lr.crit
  BY ReadingFields DEF NoBetter, TemperatureLimits, Least, Some, Thresholds, None
<1> DEFINE critical(x, l) == x.temperature # None /\ x.temperature >= l.crit
           warm(x, l) == x.temperature # None /\ x.temperature < l.crit /\ x.temperature >= l.warn
<1>2. /\ TemperatureFindings(r, limits) =
           If(critical(r, lr), "temperature", CRITICAL) \cup If(warm(r, lr), "temperature", WARNING)
      /\ TemperatureFindings(w, limits) =
           If(critical(w, lw), "temperature", CRITICAL) \cup If(warm(w, lw), "temperature", WARNING)
  BY DEF TemperatureFindings
<1> HIDE DEF lr, lw
<1>3. /\ critical(r, lr) => critical(w, lw)
      /\ warm(r, lr) => critical(w, lw) \/ warm(w, lw)
  BY <1>1, ReadingFields DEF NoBetter, NoLess, None
<1> HIDE DEF critical, warm
<1>4. WARNING \in Int /\ CRITICAL \in Int /\ WARNING <= CRITICAL BY DEF WARNING, CRITICAL
<1> QED BY <1>2, <1>3, <1>4, RulesOutweigh

\* Whatever is compared with whatever, a reading that is worse in any of its
\* values has no better status: all rules of evaluate.py fit together.
THEOREM NoBetterStatus ==
  ASSUME NEW k, NEW r \in Readings, NEW w \in Readings, NEW b \in Readings, NEW p,
         NEW limits \in Thresholds, NoBetter(w, r)
  PROVE  Status(Findings(k, r, b, p, limits)) <= Status(Findings(k, w, b, p, limits))
<1>1. Outweighs(Findings(k, w, b, p, limits), Findings(k, r, b, p, limits))
  <2>1. CASE ~r.sources BY <2>1 DEF NoBetter, Findings, Outweighs, Finding, UNKNOWN
  <2>2. CASE r.sources
    <3>1. w.sources BY <2>2 DEF NoBetter, Readings
    <3> QED BY <2>2, <3>1, HealthOutweighs, LifeOutweighs, CountersOutweigh, TemperatureOutweighs
            DEF Findings, Outweighs
  <2> QED BY <2>1, <2>2
<1> QED BY <1>1, JudgedFindings, OutweighedStatus

-----------------------------------------------------------------------------
(* The invariant *)

\* Polls come one after the other, and what they count only grows.
PollsInv ==
  /\ \A i \in 1..Len(polls) : /\ polls[i].ts <= clock
                              /\ polls[i].count # None => polls[i].count <= worn
  /\ \A j \in 1..Len(polls) : \A i \in 1..(j - 1) :
       /\ polls[i].ts < polls[j].ts
       /\ polls[i].count # None /\ polls[j].count # None => polls[i].count <= polls[j].count

\* What is compared next is what the last poll saw.
LatestInv ==
  IF polls = <<>> THEN latest = NoCounts
  ELSE latest["reallocated"] = polls[Len(polls)].count /\ latest["pending"] = polls[Len(polls)].pending

\* Every sample is of a poll, and every poll within retention has one.
SamplesInv ==
  /\ \A s \in samples : \E i \in 1..Len(polls) :
       s.ts = polls[i].ts /\ s.counter["reallocated"] = polls[i].count
  /\ \A i \in 1..Len(polls) : polls[i].ts >= clock - RetentionDays * DayLength =>
       \E s \in samples : s.ts = polls[i].ts

StatusInv == reading.now.sources =>
  status = Status(Findings(kind, reading.now, reading.baseline, reading.previous, Limits))

TrendInv == PollsInv /\ LatestInv /\ SamplesInv /\ StatusInv

-----------------------------------------------------------------------------
(* What a poll evaluates *)

\* Induction: what is false of a number is false of a least one.
LEMMA LeastNumber ==
  ASSUME NEW T \in SUBSET Nat, T # {}
  PROVE  \E n \in T : \A m \in T : n <= m
<1> DEFINE R == {ss \in Nat \X Nat : ss[1] < ss[2]}
<1>1. IsWellFoundedOn(R, Nat) BY NatLessThanWellFounded DEF OpToRel
<1>2. ASSUME NEW x \in Nat, NEW y \in Nat, y < x PROVE <<y, x>> \in R BY <1>2
<1> HIDE DEF R
<1>3. PICK n \in T : \A y \in T : <<y, n>> \notin R BY <1>1, WFMin
<1>4. \A m \in T : m \in Nat /\ ~(m < n) BY <1>2, <1>3
<1> QED BY <1>4

LEMMA EmptyOK ==
  /\ EmptyReading \in Readings /\ NoCounts \in [Counters -> Value]
  /\ ~EmptyReading.sources /\ \A c \in Counters : EmptyReading.counter[c] = None
BY DEF EmptyReading, NoCounts, Readings, Value

LEMMA WithCountsOK ==
  ASSUME NEW r \in Readings, NEW counts \in [Counters -> Value]
  PROVE  WithCounts(r, counts) \in Readings /\ WithCounts(r, counts).counter = counts
BY DEF WithCounts, Readings

LEMMA AnswersOK ==
  ASSUME NEW count \in Nat, NEW r \in Answers(count)
  PROVE  /\ r \in Readings
         /\ r.counter["reallocated"] \in {count, None}
         /\ Some(r.counter["reallocated"]) \/ Some(r.counter["pending"]) => r.sources
<1>1. CASE r = EmptyReading
  BY <1>1, EmptyOK DEF Counters, Some, None
<1>2. CASE r # EmptyReading
  <2>1. \E p \in Profiles : \E n \in {count, None} : \E q \in {0, 1} : r = WithCounts(p, Counted(n, q))
    BY <1>2 DEF Answers
  <2>2. PICK p \in Profiles, n \in {count, None}, q \in {0, 1} : r = WithCounts(p, Counted(n, q))
    BY <2>1
  <2>3. n \in Value /\ q \in Value BY DEF Value
  <2>4. Counted(n, q) \in [Counters -> Value] /\ Counted(n, q)["reallocated"] = n
    BY <2>3, EmptyOK DEF Counted, Counters
  <2>5. p \in Readings /\ p.sources BY TrendAssumption
  <2>6. r.sources BY <2>2, <2>5 DEF WithCounts, Readings
  <2> QED BY <2>2, <2>4, <2>5, <2>6, WithCountsOK
<1> QED BY <1>1, <1>2

\* The two findings of interest.
LEMMA CodeOfRising ==
  ASSUME NEW k, NEW r, NEW b, NEW p, NEW limits
  PROVE  "reallocated_sectors_rising" \in Codes(Findings(k, r, b, p, limits)) <=>
           /\ r.sources /\ Some(r.counter["reallocated"])
           /\ Increased(r.counter["reallocated"], b.counter["reallocated"])
<1> USE DEF If, Finding
<1> DEFINE code == "reallocated_sectors_rising"
<1>1. \A f \in HealthFindings(r) : f.code # code BY DEF HealthFindings
<1>2. \A f \in LifeFindings(k, r, limits) : f.code # code BY DEF LifeFindings
<1>3. \A f \in PendingFindings(r, b, p) : f.code # code BY DEF PendingFindings
<1>4. \A f \in TemperatureFindings(r, limits) : f.code # code BY DEF TemperatureFindings
<1>5. (\E f \in ReallocatedFindings(k, r, b, limits) : f.code = code) <=>
        Some(r.counter["reallocated"]) /\ Increased(r.counter["reallocated"], b.counter["reallocated"])
  <2>1. CASE Some(r.counter["reallocated"]) /\ Increased(r.counter["reallocated"], b.counter["reallocated"])
    <3>1. Finding(code, IF k = "hdd" THEN CRITICAL ELSE WARNING) \in ReallocatedFindings(k, r, b, limits)
      BY <2>1 DEF ReallocatedFindings
    <3> QED BY <2>1, <3>1
  <2>2. CASE ~(Some(r.counter["reallocated"]) /\ Increased(r.counter["reallocated"], b.counter["reallocated"]))
    BY <2>2 DEF ReallocatedFindings
  <2> QED BY <2>1, <2>2
<1>6. (\E f \in CounterFindings(k, r, b, p, limits) : f.code = code) <=>
        \E f \in ReallocatedFindings(k, r, b, limits) : f.code = code
  BY <1>3 DEF CounterFindings
<1>7. code \in Codes(Findings(k, r, b, p, limits)) <=> \E f \in Findings(k, r, b, p, limits) : f.code = code
  BY DEF Codes
<1> QED BY <1>1, <1>2, <1>4, <1>5, <1>6, <1>7 DEF Findings

LEMMA CodeOfPersisting ==
  ASSUME NEW k, NEW r, NEW b, NEW p, NEW limits
  PROVE  "pending_sectors_persisting" \in Codes(Findings(k, r, b, p, limits)) <=>
           r.sources /\ Some(r.counter["pending"]) /\ Some(p.counter["pending"])
<1> USE DEF If, Finding
<1> DEFINE code == "pending_sectors_persisting"
<1>1. \A f \in HealthFindings(r) : f.code # code BY DEF HealthFindings
<1>2. \A f \in LifeFindings(k, r, limits) : f.code # code BY DEF LifeFindings
<1>3. \A f \in ReallocatedFindings(k, r, b, limits) : f.code # code BY DEF ReallocatedFindings
<1>4. \A f \in TemperatureFindings(r, limits) : f.code # code BY DEF TemperatureFindings
<1>5. (\E f \in PendingFindings(r, b, p) : f.code = code) <=>
        Some(r.counter["pending"]) /\ Some(p.counter["pending"])
  <2>1. CASE Some(r.counter["pending"]) /\ Some(p.counter["pending"]) BY <2>1 DEF PendingFindings
  <2>2. CASE ~(Some(r.counter["pending"]) /\ Some(p.counter["pending"])) BY <2>2 DEF PendingFindings
  <2> QED BY <2>1, <2>2
<1>6. (\E f \in CounterFindings(k, r, b, p, limits) : f.code = code) <=>
        \E f \in PendingFindings(r, b, p) : f.code = code
  BY <1>3 DEF CounterFindings
<1>7. code \in Codes(Findings(k, r, b, p, limits)) <=> \E f \in Findings(k, r, b, p, limits) : f.code = code
  BY DEF Codes
<1> QED BY <1>1, <1>2, <1>4, <1>5, <1>6, <1>7 DEF Findings

\* The baseline is what the oldest poll saw that has a sample in the window.
LEMMA BaselineIsOldest ==
  ASSUME TypeOK, SamplesInv, NEW since \in Int
  PROVE  /\ Baseline(since) \in [Counters -> Value]
         /\ \/ Baseline(since) = latest /\ \A s \in samples : s.ts < since
            \/ \E i \in 1..Len(polls) :
                 /\ Baseline(since)["reallocated"] = polls[i].count
                 /\ \A s \in samples : s.ts >= since => polls[i].ts <= s.ts
<1> DEFINE window == {s \in samples : s.ts >= since}
<1>1. CASE window = {} BY <1>1 DEF Baseline, TypeOK
<1>2. CASE window # {}
  <2> DEFINE oldest == CHOOSE s \in window : \A t \in window : s.ts <= t.ts
  <2>1. \E s \in window : \A t \in window : s.ts <= t.ts
    <3> DEFINE times == {s.ts : s \in window}
    <3>1. times # {} BY <1>2
    <3>2. \A s \in samples : s.ts \in Nat BY DEF TypeOK
    <3>3. times \in SUBSET Nat BY <3>2
    <3>4. PICK n \in times : \A m \in times : n <= m BY <3>1, <3>3, LeastNumber
    <3> QED BY <3>4
  <2>2. oldest \in window /\ \A t \in window : oldest.ts <= t.ts BY <2>1
  <2>3. Baseline(since) = oldest.counter BY <1>2 DEF Baseline
  <2>4. oldest.counter \in [Counters -> Value] BY <2>2 DEF TypeOK
  <2>5. PICK i \in 1..Len(polls) : oldest.ts = polls[i].ts /\ oldest.counter["reallocated"] = polls[i].count
    BY <2>2 DEF SamplesInv
  <2> HIDE DEF oldest
  <2> QED BY <2>2, <2>3, <2>4, <2>5
<1> QED BY <1>1, <1>2

-----------------------------------------------------------------------------
(* The step of a poll *)

PollRecord == [ts : Nat, count : Value, pending : Value, rising : BOOLEAN, persisting : BOOLEAN]

\* A poll at now that counts count and reads r adds e to the history.
Polled(now, count, r, e) ==
  /\ now > clock /\ count >= worn /\ count <= MaxCount
  /\ clock' = now /\ worn' = count /\ latest' = r.counter /\ kind' = kind
  /\ reading' = [now |-> r, baseline |-> WithCounts(EmptyReading, Baseline(now - Window)),
                 previous |-> WithCounts(EmptyReading, latest)]
  /\ status' = Status(Findings(kind, r, reading'.baseline, reading'.previous, Limits))
  /\ samples' = samples \cup {[ts |-> now, counter |-> r.counter]}
  /\ polls' = Append(polls, e)
  /\ e.ts = now
  /\ e.count = r.counter["reallocated"] /\ e.count \in {count, None}
  /\ e.pending = r.counter["pending"]
  /\ e.rising <=> Some(e.count) /\ Increased(e.count, Baseline(now - Window)["reallocated"])
  /\ e.persisting <=> Some(e.pending) /\ Some(latest["pending"])

LEMMA PollDoes ==
  ASSUME TypeOK, SamplesInv, Poll
  PROVE  \E now \in Nat, count \in Nat, r \in Readings, e \in PollRecord : Polled(now, count, r, e)
<1> DEFINE base(now) == WithCounts(EmptyReading, Baseline(now - Window))
           last == WithCounts(EmptyReading, latest)
           findings(now, r) == Findings(kind, r, base(now), last, Limits)
           rising(now, r) == "reallocated_sectors_rising" \in Codes(findings(now, r))
           persisting(now, r) == "pending_sectors_persisting" \in Codes(findings(now, r))
           entry(now, r) == [ts |-> now, count |-> r.counter["reallocated"], pending |-> r.counter["pending"],
                             rising |-> rising(now, r), persisting |-> persisting(now, r)]
           polled(now, count, r) ==
             /\ count <= MaxCount
             /\ clock' = now /\ worn' = count /\ kind' = kind
             /\ reading' = [now |-> r, baseline |-> base(now), previous |-> last]
             /\ status' = Status(findings(now, r))
             /\ latest' = r.counter
             /\ samples' = samples \cup {[ts |-> now, counter |-> r.counter]}
             /\ polls' = Append(polls, entry(now, r))
<1>1. PICK gap \in Gaps, count \in {worn, worn + 1} : \E r \in Answers(count) : polled(clock + gap, count, r)
  BY DEF Poll
<1>2. PICK r \in Answers(count) : polled(clock + gap, count, r) BY <1>1
<1> DEFINE now == clock + gap
<1>3. now \in Nat /\ now > clock /\ now - Window \in Int /\ count \in Nat /\ count >= worn
  BY TrendAssumption DEF TypeOK
<1>4. /\ r \in Readings /\ r.counter["reallocated"] \in {count, None}
      /\ Some(r.counter["reallocated"]) \/ Some(r.counter["pending"]) => r.sources
  BY <1>3, AnswersOK
<1>5. /\ base(now).counter = Baseline(now - Window) /\ last.counter = latest
  BY <1>3, BaselineIsOldest, WithCountsOK, EmptyOK DEF TypeOK
<1> HIDE DEF base, last
<1>6. /\ rising(now, r) <=>
           r.sources /\ Some(r.counter["reallocated"])
             /\ Increased(r.counter["reallocated"], base(now).counter["reallocated"])
      /\ persisting(now, r) <=>
           r.sources /\ Some(r.counter["pending"]) /\ Some(last.counter["pending"])
  BY CodeOfRising, CodeOfPersisting
<1>7. /\ entry(now, r) \in PollRecord
      /\ entry(now, r).ts = now /\ entry(now, r).count = r.counter["reallocated"]
      /\ entry(now, r).pending = r.counter["pending"]
      /\ entry(now, r).rising = rising(now, r)
      /\ entry(now, r).persisting = persisting(now, r)
  <2>1. r.counter["reallocated"] \in Value /\ r.counter["pending"] \in Value BY <1>4 DEF Readings, Counters
  <2>2. rising(now, r) \in BOOLEAN /\ persisting(now, r) \in BOOLEAN OBVIOUS
  <2> HIDE DEF rising, persisting
  <2> QED BY <1>3, <2>1, <2>2 DEF PollRecord
<1> HIDE DEF entry
<1>8. reading'.baseline = base(now) /\ reading'.previous = last BY <1>2
<1>9. Polled(now, count, r, entry(now, r))
  BY <1>2, <1>3, <1>4, <1>5, <1>6, <1>7, <1>8 DEF Polled, base, last
<1> QED BY <1>3, <1>4, <1>7, <1>9

LEMMA PollsGrow ==
  ASSUME TypeOK, NEW e \in PollRecord, polls' = Append(polls, e)
  PROVE  /\ Len(polls) \in Nat /\ Len(polls') = Len(polls) + 1
         /\ \A i \in 1..Len(polls) : polls[i] \in PollRecord /\ polls'[i] = polls[i]
         /\ polls'[Len(polls) + 1] = e
<1>1. polls \in Seq(PollRecord) BY DEF TypeOK, PollRecord
<1> QED BY <1>1, AppendProperties, ElementOfSeq

-----------------------------------------------------------------------------
(* Type correctness *)

LEMMA TypeInit == Init => TypeOK
<1> SUFFICES ASSUME Init PROVE TypeOK OBVIOUS
<1>1. reading \in [now : Readings, baseline : Readings, previous : Readings] BY EmptyOK DEF Init
<1>2. polls = <<>> BY DEF Init
<1>3. \A S : <<>> \in Seq(S) OBVIOUS
<1>4. status \in OK..CRITICAL BY DEF Init, OK, UNKNOWN, CRITICAL
<1> QED BY <1>1, <1>2, <1>3, <1>4, EmptyOK, TrendAssumption DEF Init, TypeOK

LEMMA TypePoll ==
  ASSUME TypeOK, NEW now \in Nat, NEW count \in Nat, NEW r \in Readings, NEW e \in PollRecord,
         SamplesInv, Polled(now, count, r, e)
  PROVE  TypeOK'
<1>1. r.counter \in [Counters -> Value] BY DEF Readings
<1>2. reading' \in [now : Readings, baseline : Readings, previous : Readings]
  <2>1. now - Window \in Int BY TrendAssumption
  <2>2. Baseline(now - Window) \in [Counters -> Value] BY <2>1, BaselineIsOldest
  <2> QED BY <2>2, WithCountsOK, EmptyOK DEF Polled, TypeOK
<1>3. samples' \subseteq [ts : Nat, counter : [Counters -> Value]] BY <1>1 DEF Polled, TypeOK
<1>4. polls' \in Seq(PollRecord) BY DEF Polled, TypeOK, PollRecord
<1>5. status' \in OK..CRITICAL BY JudgedFindings, StatusType DEF Polled, Severities
<1>6. worn' \in 0..MaxCount BY TrendAssumption DEF Polled
<1> QED BY <1>1, <1>2, <1>3, <1>4, <1>5, <1>6 DEF Polled, TypeOK, PollRecord

-----------------------------------------------------------------------------
(* The invariant holds *)

LEMMA InvInit == Init => TrendInv /\ RisingStays /\ PersistingIsTwice
BY EmptyOK DEF Init, TrendInv, PollsInv, LatestInv, SamplesInv, StatusInv, RisingStays, PersistingIsTwice

LEMMA PollsInvPoll ==
  ASSUME TypeOK, PollsInv, NEW now \in Nat, NEW count \in Nat, NEW r \in Readings, NEW e \in PollRecord,
         Polled(now, count, r, e)
  PROVE  PollsInv'
<1> DEFINE n == Len(polls)
<1>1. /\ n \in Nat /\ Len(polls') = n + 1
      /\ \A i \in 1..n : polls[i] \in PollRecord /\ polls'[i] = polls[i]
      /\ polls'[n + 1] = e
  BY PollsGrow DEF Polled
<1> HIDE DEF n
<1>2. clock \in Nat /\ worn \in Nat /\ now > clock /\ count >= worn /\ clock' = now /\ worn' = count
      /\ e.ts = now /\ e.count \in {count, None}
  BY TrendAssumption DEF Polled, TypeOK
<1>3. \A i \in 1..n : polls[i].ts \in Nat /\ polls[i].count \in Value BY <1>1 DEF PollRecord
<1>4. \A i \in 1..n : polls[i].ts <= clock /\ (polls[i].count # None => polls[i].count <= worn)
  BY DEF PollsInv, n
<1>5. ASSUME NEW i \in 1..(n + 1)
      PROVE  polls'[i].ts <= now /\ (polls'[i].count # None => polls'[i].count <= count)
  <2>1. CASE i = n + 1 BY <1>1, <1>2, <2>1
  <2>2. CASE i # n + 1
    <3>1. i \in 1..n BY <1>1, <2>2
    <3> QED BY <1>1, <1>2, <1>3, <1>4, <3>1 DEF Value, None
  <2> QED BY <2>1, <2>2
<1>6. ASSUME NEW j \in 1..(n + 1), NEW i \in 1..(j - 1)
      PROVE  /\ polls'[i].ts < polls'[j].ts
             /\ polls'[i].count # None /\ polls'[j].count # None => polls'[i].count <= polls'[j].count
  <2>1. i \in 1..n BY <1>1
  <2>2. CASE j = n + 1 BY <1>1, <1>2, <1>3, <1>4, <2>1, <2>2 DEF Value, None
  <2>3. CASE j # n + 1
    <3>1. j \in 1..n BY <1>1, <2>3
    <3> QED BY <1>1, <2>1, <3>1 DEF PollsInv, n
  <2> QED BY <2>2, <2>3
<1> QED BY <1>1, <1>2, <1>5, <1>6 DEF PollsInv

LEMMA SamplesInvPoll ==
  ASSUME TypeOK, SamplesInv, NEW now \in Nat, NEW count \in Nat, NEW r \in Readings, NEW e \in PollRecord,
         Polled(now, count, r, e)
  PROVE  SamplesInv'
<1> DEFINE n == Len(polls)
           kept == RetentionDays * DayLength
<1>1. /\ n \in Nat /\ Len(polls') = n + 1
      /\ \A i \in 1..n : polls[i] \in PollRecord /\ polls'[i] = polls[i]
      /\ polls'[n + 1] = e
  BY PollsGrow DEF Polled
<1>2. /\ now > clock /\ clock \in Nat /\ kept \in Nat /\ clock' = now
      /\ e.ts = now /\ e.count = r.counter["reallocated"]
      /\ samples' = samples \cup {[ts |-> now, counter |-> r.counter]}
  BY TrendAssumption DEF Polled, TypeOK
<1>3. /\ \A s \in samples : \E i \in 1..n : s.ts = polls[i].ts /\ s.counter["reallocated"] = polls[i].count
      /\ \A i \in 1..n : polls[i].ts >= clock - kept => \E s \in samples : s.ts = polls[i].ts
  BY DEF SamplesInv
<1> HIDE DEF n, kept
<1>4. ASSUME NEW s \in samples'
      PROVE  \E i \in 1..(n + 1) : s.ts = polls'[i].ts /\ s.counter["reallocated"] = polls'[i].count
  <2>1. CASE s \in samples
    <3>1. PICK i \in 1..n : s.ts = polls[i].ts /\ s.counter["reallocated"] = polls[i].count BY <1>3, <2>1
    <3>2. i \in 1..(n + 1) /\ polls'[i] = polls[i] BY <1>1
    <3> QED BY <3>1, <3>2
  <2>2. CASE s \notin samples
    <3>1. s = [ts |-> now, counter |-> r.counter] BY <1>2, <2>2
    <3>2. s.ts = now /\ s.counter = r.counter BY <3>1
    <3>3. n + 1 \in 1..(n + 1) BY <1>1
    <3> QED BY <1>1, <1>2, <3>2, <3>3
  <2> QED BY <2>1, <2>2
<1>5. ASSUME NEW i \in 1..(n + 1), polls'[i].ts >= now - kept
      PROVE  \E s \in samples' : s.ts = polls'[i].ts
  <2>1. CASE i = n + 1
    <3>1. [ts |-> now, counter |-> r.counter] \in samples' BY <1>2
    <3> QED BY <1>1, <1>2, <2>1, <3>1
  <2>2. CASE i # n + 1
    <3>1. i \in 1..n BY <1>1, <2>2
    <3>2. polls[i].ts \in Nat BY <1>1, <3>1 DEF PollRecord
    <3>3. polls[i].ts >= clock - kept BY <1>1, <1>2, <1>5, <3>1, <3>2
    <3> QED BY <1>1, <1>2, <1>3, <3>1, <3>3
  <2> QED BY <2>1, <2>2
<1> QED BY <1>1, <1>2, <1>4, <1>5 DEF SamplesInv, kept

LEMMA LatestAndStatusPoll ==
  ASSUME TypeOK, NEW now \in Nat, NEW count \in Nat, NEW r \in Readings, NEW e \in PollRecord,
         Polled(now, count, r, e)
  PROVE  LatestInv' /\ StatusInv'
<1>1. /\ Len(polls) \in Nat /\ Len(polls') = Len(polls) + 1 /\ polls'[Len(polls) + 1] = e
  BY PollsGrow DEF Polled
<1>2. polls' # <<>> BY <1>1
<1>3. LatestInv' BY <1>1, <1>2 DEF LatestInv, Polled
<1>4. StatusInv' BY DEF StatusInv, Polled
<1> QED BY <1>3, <1>4

\* An increase that is still within the window has its baseline before it: the
\* sample of the last poll without it is still there (SamplesInv).
LEMMA RisingPoll ==
  ASSUME TypeOK, TrendInv, RisingStays,
         NEW now \in Nat, NEW count \in Nat, NEW r \in Readings, NEW e \in PollRecord,
         Polled(now, count, r, e)
  PROVE  RisingStays'
<1> DEFINE n == Len(polls)
           kept == RetentionDays * DayLength
           since == now - Window
<1>1. /\ n \in Nat /\ Len(polls') = n + 1
      /\ \A i \in 1..n : polls[i] \in PollRecord /\ polls'[i] = polls[i]
      /\ polls'[n + 1] = e
  BY PollsGrow DEF Polled
<1>2. /\ now > clock /\ clock \in Nat /\ kept \in Nat /\ Window \in Nat /\ since \in Int
      /\ worn \in Nat /\ count >= worn /\ e.ts = now /\ e.count \in {count, None}
      /\ e.rising <=> Some(e.count) /\ Increased(e.count, Baseline(since)["reallocated"])
  BY TrendAssumption DEF Polled, TypeOK
<1>3. \A i \in 1..n : polls[i].ts \in Nat /\ polls[i].count \in Value BY <1>1 DEF PollRecord
<1>4. /\ \A i \in 1..n : polls[i].count # None => polls[i].count <= worn
      /\ \A j \in 1..n : \A i \in 1..(j - 1) :
           /\ polls[i].ts < polls[j].ts
           /\ polls[i].count # None /\ polls[j].count # None => polls[i].count <= polls[j].count
  BY DEF TrendInv, PollsInv, n
<1>5. \A i \in 1..n : polls[i].ts >= clock - kept => \E s \in samples : s.ts = polls[i].ts
  BY DEF TrendInv, SamplesInv, n, kept
<1>6. \A s \in samples : s.ts \in Nat BY DEF TypeOK
<1> SUFFICES ASSUME kept >= Window, NEW i \in 2..(n + 1), NEW j \in i..(n + 1),
                    \A k \in 1..j : polls'[k].count # None,
                    polls'[i].count > polls'[i - 1].count,
                    j = i \/ polls'[j].ts - polls'[i - 1].ts <= Window
             PROVE  polls'[j].rising
  BY <1>1 DEF RisingStays, Complete, kept
<1>7. CASE j # n + 1
  <2>1. j \in 1..n /\ i \in 2..n /\ i - 1 \in 1..n BY <1>1, <1>7
  <2>2. \A k \in 1..j : k \in 1..n BY <1>1, <2>1
  <2>3. \A k \in 1..j : polls[k].count # None BY <1>1, <2>2
  <2>4. polls[i].count > polls[i - 1].count /\ (j = i \/ polls[j].ts - polls[i - 1].ts <= Window)
    BY <1>1, <2>1
  <2>5. i \in 2..Len(polls) /\ j \in i..Len(polls) BY <2>1 DEF n
  <2>6. polls[j].rising BY <2>3, <2>4, <2>5 DEF RisingStays, Complete, kept
  <2> QED BY <1>1, <2>1, <2>6
<1>8. CASE j = n + 1
  <2> DEFINE before == i - 1
  <2>1. before \in 1..n /\ before + 1 = i BY <1>1
  <2>2. \A k \in 1..n : polls[k].count \in Nat
    <3> TAKE k \in 1..n
    <3>1. polls'[k].count # None BY <1>1, <1>8
    <3> QED BY <1>1, <1>3, <3>1 DEF Value
  <2>3. e.count = count BY <1>1, <1>2, <1>8
  <2>4. polls[before].count < e.count
    <3>1. CASE i = n + 1 BY <1>1, <2>1, <3>1
    <3>2. CASE i # n + 1
      <4>1. i \in 1..n BY <1>1, <3>2
      <4>2. polls[i].count <= worn /\ polls[i].count \in Nat BY <1>4, <2>2, <4>1 DEF None
      <4>3. polls[before].count < polls[i].count BY <1>1, <2>1, <4>1
      <4> QED BY <1>2, <2>1, <2>2, <2>3, <4>2, <4>3
    <3> QED BY <3>1, <3>2
  <2>5. \E k \in 1..n : k <= before /\ Baseline(since)["reallocated"] = polls[k].count
    <3>1. j # i => \E s \in samples : s.ts = polls[before].ts /\ s.ts >= since
      <4> SUFFICES ASSUME j # i PROVE \E s \in samples : s.ts = polls[before].ts /\ s.ts >= since OBVIOUS
      <4>1. now - polls[before].ts <= Window BY <1>1, <1>2, <1>8, <2>1
      <4>2. polls[before].ts \in Nat BY <1>3, <2>1
      <4>3. polls[before].ts >= since /\ polls[before].ts >= clock - kept BY <1>2, <4>1, <4>2
      <4> QED BY <1>5, <2>1, <4>3
    <3>2. CASE Baseline(since) = latest /\ \A s \in samples : s.ts < since
      <4>1. j = i BY <1>2, <1>6, <3>1, <3>2
      <4>2. before = n BY <1>1, <1>8, <4>1
      <4>3. polls # <<>> BY <1>1, <2>1
      <4>4. latest["reallocated"] = polls[n].count BY <4>3 DEF TrendInv, LatestInv
      <4> QED BY <2>1, <3>2, <4>2, <4>4
    <3>3. CASE \E k \in 1..n : /\ Baseline(since)["reallocated"] = polls[k].count
                               /\ \A s \in samples : s.ts >= since => polls[k].ts <= s.ts
      <4>1. PICK k \in 1..n : /\ Baseline(since)["reallocated"] = polls[k].count
                              /\ \A s \in samples : s.ts >= since => polls[k].ts <= s.ts
        BY <3>3
      <4>2. CASE j = i BY <1>1, <1>8, <4>1, <4>2
      <4>3. CASE j # i
        <5>1. polls[k].ts <= polls[before].ts BY <3>1, <4>1, <4>3
        <5>2. ~(before < k)
          <6> SUFFICES ASSUME before < k PROVE FALSE OBVIOUS
          <6>1. before \in 1..(k - 1) BY <2>1, <4>1
          <6>2. polls[before].ts < polls[k].ts BY <1>4, <6>1
          <6> QED BY <1>3, <2>1, <5>1, <6>2
        <5> QED BY <1>1, <2>1, <4>1, <5>2
      <4> QED BY <4>2, <4>3
    <3> QED BY <1>2, <3>2, <3>3, BaselineIsOldest DEF TrendInv
  <2>6. PICK k \in 1..n : k <= before /\ Baseline(since)["reallocated"] = polls[k].count BY <2>5
  <2>7. polls[k].count <= polls[before].count
    <3>1. CASE k = before BY <2>2, <3>1
    <3>2. CASE k # before
      <4>1. k \in 1..(before - 1) BY <2>1, <2>6, <3>2
      <4> QED BY <1>4, <2>1, <2>2, <4>1 DEF None
    <3> QED BY <3>1, <3>2
  <2>8. polls[k].count \in Nat /\ polls[before].count \in Nat BY <2>1, <2>2, <2>6
  <2>9. Some(e.count) /\ Increased(e.count, Baseline(since)["reallocated"])
    BY <2>3, <2>4, <2>6, <2>7, <2>8 DEF Some, Increased, None
  <2> QED BY <1>1, <1>2, <1>8, <2>9
<1> QED BY <1>7, <1>8

LEMMA PersistingPoll ==
  ASSUME TypeOK, LatestInv, PersistingIsTwice,
         NEW now \in Nat, NEW count \in Nat, NEW r \in Readings, NEW e \in PollRecord,
         Polled(now, count, r, e)
  PROVE  PersistingIsTwice'
<1> DEFINE n == Len(polls)
<1>1. /\ n \in Nat /\ Len(polls') = n + 1
      /\ \A i \in 1..n : polls[i] \in PollRecord /\ polls'[i] = polls[i]
      /\ polls'[n + 1] = e
  BY PollsGrow DEF Polled
<1>2. e.persisting <=> Some(e.pending) /\ Some(latest["pending"]) BY DEF Polled
<1>3. n = 0 => ~Some(latest["pending"])
  <2>1. n = 0 => polls = <<>> BY EmptySeq DEF TypeOK
  <2> QED BY <2>1, EmptyOK DEF LatestInv, NoCounts, Counters, Some, None
<1>4. n # 0 => latest["pending"] = polls[n].pending BY <1>1 DEF LatestInv
<1> SUFFICES ASSUME NEW i \in 1..(n + 1)
             PROVE  polls'[i].persisting <=> i > 1 /\ polls'[i].pending > 0 /\ polls'[i - 1].pending > 0
  BY <1>1 DEF PersistingIsTwice
<1>5. CASE i = n + 1
  <2>1. CASE n = 0 BY <1>1, <1>2, <1>3, <1>5, <2>1
  <2>2. CASE n # 0
    <3>1. n \in 1..n /\ i - 1 = n /\ i > 1 BY <1>1, <1>5, <2>2
    <3> QED BY <1>1, <1>2, <1>4, <1>5, <2>2, <3>1 DEF Some
  <2> QED BY <2>1, <2>2
<1>6. CASE i # n + 1
  <2>1. i \in 1..n BY <1>1, <1>6
  <2>2. i > 1 => i - 1 \in 1..n BY <1>1, <2>1
  <2>3. polls[i].persisting <=> i > 1 /\ polls[i].pending > 0 /\ polls[i - 1].pending > 0
    BY <2>1 DEF PersistingIsTwice, n
  <2> QED BY <1>1, <2>1, <2>2, <2>3
<1> QED BY <1>5, <1>6

\* Midnight before x is not after x.
LEMMA DayStart ==
  ASSUME NEW x \in Int
  PROVE  (x \div DayLength) * DayLength \in Int /\ (x \div DayLength) * DayLength <= x
<1>1. DayLength \in Nat /\ DayLength > 0 BY TrendAssumption
<1>2. x \div DayLength \in Int BY <1>1
<1>3. \A n \in Int : x < n * DayLength <=> x \div DayLength < n BY <1>1, SMTT(30)
<1>4. ~(x < (x \div DayLength) * DayLength) BY <1>2, <1>3
<1>5. (x \div DayLength) * DayLength \in Int BY <1>1, <1>2
<1> QED BY <1>4, <1>5

\* Rollup only deletes samples from before the days that are kept.
LEMMA RollupKeeps ==
  ASSUME TypeOK, TrendInv, Rollup
  PROVE  TypeOK' /\ TrendInv'
<1> DEFINE kept == RetentionDays * DayLength
           cutoff == ((clock - kept) \div DayLength) * DayLength
<1>1. samples' = {s \in samples : s.ts >= cutoff} BY DEF Rollup
<1>2. UNCHANGED <<clock, kind, worn, latest, reading, status, polls>> BY DEF Rollup
<1>3. kept \in Nat /\ clock \in Nat BY TrendAssumption DEF TypeOK
<1>4. cutoff \in Int /\ cutoff <= clock - kept BY <1>3, DayStart
<1> HIDE DEF cutoff, kept
<1>5. TypeOK' BY <1>1, <1>2 DEF TypeOK
<1>6. SamplesInv'
  <2>1. ASSUME NEW i \in 1..Len(polls), polls[i].ts >= clock - kept
        PROVE  \E s \in samples' : s.ts = polls[i].ts
    <3>1. PICK s \in samples : s.ts = polls[i].ts BY <2>1 DEF TrendInv, SamplesInv, kept
    <3>2. s.ts \in Nat BY DEF TypeOK
    <3>3. s.ts >= cutoff BY <1>3, <1>4, <2>1, <3>1, <3>2
    <3> QED BY <1>1, <3>1, <3>3
  <2>2. \A s \in samples' : s \in samples BY <1>1
  <2> QED BY <1>2, <2>1, <2>2 DEF TrendInv, SamplesInv, kept
<1>7. PollsInv' /\ LatestInv' /\ StatusInv'
  BY <1>2 DEF TrendInv, PollsInv, LatestInv, StatusInv
<1> QED BY <1>5, <1>6, <1>7 DEF TrendInv

-----------------------------------------------------------------------------
(* Theorems *)

LEMMA TrendInductive ==
  Spec => [](TypeOK /\ TrendInv /\ RisingStays /\ PersistingIsTwice)
<1>1. Init => TypeOK /\ TrendInv /\ RisingStays /\ PersistingIsTwice BY TypeInit, InvInit
<1>2. TypeOK /\ TrendInv /\ RisingStays /\ PersistingIsTwice /\ [Next]_vars
        => TypeOK' /\ TrendInv' /\ RisingStays' /\ PersistingIsTwice'
  <2> SUFFICES ASSUME TypeOK, TrendInv, RisingStays, PersistingIsTwice, [Next]_vars
               PROVE  TypeOK' /\ TrendInv' /\ RisingStays' /\ PersistingIsTwice'
    OBVIOUS
  <2>1. CASE Poll
    <3>1. PICK now \in Nat, count \in Nat, r \in Readings, e \in PollRecord : Polled(now, count, r, e)
      BY <2>1, PollDoes DEF TrendInv
    <3>2. TypeOK' BY <3>1, TypePoll DEF TrendInv
    <3>3. PollsInv' BY <3>1, PollsInvPoll DEF TrendInv
    <3>4. SamplesInv' BY <3>1, SamplesInvPoll DEF TrendInv
    <3>5. LatestInv' /\ StatusInv' BY <3>1, LatestAndStatusPoll
    <3>6. RisingStays' BY <3>1, RisingPoll
    <3>7. PersistingIsTwice' BY <3>1, PersistingPoll DEF TrendInv
    <3> QED BY <3>2, <3>3, <3>4, <3>5, <3>6, <3>7 DEF TrendInv
  <2>2. CASE Rollup
    <3>1. TypeOK' /\ TrendInv' BY <2>2, RollupKeeps
    <3>2. polls' = polls BY <2>2 DEF Rollup
    <3>3. RisingStays' BY <3>2 DEF RisingStays, Complete
    <3>4. PersistingIsTwice' BY <3>2 DEF PersistingIsTwice
    <3> QED BY <3>1, <3>3, <3>4
  <2>3. CASE UNCHANGED vars
    <3>1. TypeOK' BY <2>3 DEF vars, TypeOK
    <3>2. TrendInv' BY <2>3 DEF vars, TrendInv, PollsInv, LatestInv, SamplesInv, StatusInv
    <3>3. RisingStays' BY <2>3 DEF vars, RisingStays, Complete
    <3>4. PersistingIsTwice' BY <2>3 DEF vars, PersistingIsTwice
    <3> QED BY <3>1, <3>2, <3>3, <3>4
  <2> QED BY <2>1, <2>2, <2>3 DEF Next
<1> QED BY <1>1, <1>2, PTL DEF Spec

\* Every variable keeps to its type.
THEOREM TrendTypeCorrect == Spec => []TypeOK
BY TrendInductive, PTL

\* An increase of the reallocated sectors is noticed by the first poll that
\* sees it and stays noticed for the window, for any window, gaps, day length
\* and retention that is at least the window: rollup cannot take the baseline.
THEOREM IncreaseStaysNoticed == Spec => []RisingStays
BY TrendInductive, PTL

\* A pending sector is critical exactly at the second of two polls in a row
\* that see it, for any number of polls.
THEOREM SecondSightingIsCritical == Spec => []PersistingIsTwice
BY TrendInductive, PTL

\* What Worse changes makes a reading no better.
LEMMA WorseIsNoBetter ==
  ASSUME NEW r \in Readings, NEW w \in Worse(r)
  PROVE  w \in Readings /\ NoBetter(w, r)
<1> USE ReadingFields DEF Readings, Value, None, NoBetter, NoMore, NoLess, Least
<1>1. CASE w = [r EXCEPT !.failed = TRUE]
  <2>1. w \in Readings /\ w.failed = TRUE BY <1>1, Zenon
  <2>2. w.sources = r.sources BY <1>1, Zenon
  <2>3. /\ w.attributes = r.attributes /\ w.warnings = r.warnings /\ w.spare = r.spare
        /\ w.spareMin = r.spareMin /\ w.remaining = r.remaining /\ w.estimated = r.estimated
        /\ w.temperature = r.temperature /\ w.limit = r.limit /\ w.counter = r.counter
    BY <1>1
  <2> QED BY <2>1, <2>2, <2>3
<1>2. CASE w = [r EXCEPT !.attributes = @ + 1] BY <1>2
<1>3. CASE w = [r EXCEPT !.warnings = @ + 1] BY <1>3
<1>4. CASE r.limit = None /\ \E l \in {45, 65, 85} : w = [r EXCEPT !.limit = l] BY <1>4
<1>5. CASE r.spare # None /\ \E n \in {5, 50} : w = [r EXCEPT !.spare = Least(@, n)] BY <1>5
<1>6. CASE r.remaining # None /\ \E n \in {5, 15} : w = [r EXCEPT !.remaining = Least(@, n)] BY <1>6
<1>7. CASE r.estimated # None /\ \E n \in {5, 15} : w = [r EXCEPT !.estimated = Least(@, n)] BY <1>7
<1>8. CASE r.temperature # None /\ \E n \in {5, 20} : w = [r EXCEPT !.temperature = @ + n] BY <1>8
<1>9. CASE \E c \in Counters, n \in {1, 2} : r.counter[c] # None /\ w = [r EXCEPT !.counter[c] = @ + n]
  <2>1. PICK c \in Counters, n \in {1, 2} : r.counter[c] # None /\ w = [r EXCEPT !.counter[c] = @ + n]
    BY <1>9
  <2>2. w = [r EXCEPT !.counter = [r.counter EXCEPT ![c] = @ + n]] BY <2>1
  <2>3. [r.counter EXCEPT ![c] = @ + n] \in [Counters -> Value] BY <2>1
  <2> QED BY <2>1, <2>2, <2>3
<1> HIDE DEF Readings, Value, NoBetter, NoMore, NoLess, Least
<1> QED BY <1>1, <1>2, <1>3, <1>4, <1>5, <1>6, <1>7, <1>8, <1>9 DEF Worse

\* No reading a poll can evaluate has a better status for being worse in one
\* of its values (NoBetterStatus, for the readings and baselines that occur).
THEOREM WorseReadingsRankNoBetter == Spec => []StatusIsMonotone
<1>1. TypeOK /\ TrendInv => StatusIsMonotone
  <2> SUFFICES ASSUME TypeOK, TrendInv, reading.now.sources, NEW w \in Worse(reading.now)
               PROVE  status <= Status(Findings(kind, w, reading.baseline, reading.previous, Limits))
    BY DEF StatusIsMonotone
  <2>1. reading.now \in Readings /\ reading.baseline \in Readings BY DEF TypeOK
  <2>2. w \in Readings /\ NoBetter(w, reading.now) BY <2>1, WorseIsNoBetter
  <2>3. status = Status(Findings(kind, reading.now, reading.baseline, reading.previous, Limits))
    BY DEF TrendInv, StatusInv
  <2> QED BY <2>1, <2>2, <2>3, NoBetterStatus, TrendAssumption
<1> QED BY <1>1, TrendInductive, PTL
=============================================================================
