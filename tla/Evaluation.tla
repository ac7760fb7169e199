------------------------------ MODULE Evaluation ------------------------------
(***************************************************************************)
(* The evaluation (evaluate.py): the findings of one reading of one disk,  *)
(* from thresholds, from the reading about a week ago (baseline) and from  *)
(* the one of the last poll (previous), and the status they amount to.     *)
(*                                                                         *)
(* A value is a natural number, or None when no source reported it.  The   *)
(* failing attributes and the NVMe warnings are counts.  Messages are left *)
(* out: a finding is its code and its severity.                            *)
(***************************************************************************)
EXTENDS Integers

OK == 0
UNKNOWN == 1
WARNING == 2
CRITICAL == 3

None == -1

Counters == {"pending", "offline", "reallocated", "reported", "crc", "media"}

\* A value, a reading, and the thresholds it is judged by.
Value == Nat \cup {None}
Readings ==
  [sources : BOOLEAN, failed : BOOLEAN, attributes : Nat, warnings : Nat,
   spare : Value, spareMin : Value, remaining : Value, estimated : Value,
   temperature : Value, limit : Value, counter : [Counters -> Value]]
Thresholds ==
  [lifeWarn : Int, lifeCrit : Int, tempWarn : Int, tempCrit : Int,
   useDriveLimit : BOOLEAN, reallocated : Int]

EmptyReading ==
  [sources |-> FALSE, failed |-> FALSE, attributes |-> 0, warnings |-> 0,
   spare |-> None, spareMin |-> None, remaining |-> None, estimated |-> None,
   temperature |-> None, limit |-> None, counter |-> [c \in Counters |-> None]]

Finding(code, severity) == [code |-> code, severity |-> severity]

If(condition, code, severity) == IF condition THEN {Finding(code, severity)} ELSE {}

Least(a, b) == IF a <= b THEN a ELSE b

\* A count that was reported and is not zero.
Some(n) == n > 0

\* Unknown values do not increase.
Increased(current, baseline) == current # None /\ baseline # None /\ current > baseline

HealthFindings(r) ==
  If(r.failed, "health_failed", CRITICAL)
    \cup If(Some(r.attributes), "attribute_failing", CRITICAL)
    \cup If(Some(r.warnings), "nvme_warning", CRITICAL)
    \cup If(r.spare # None /\ Some(r.spareMin) /\ r.spare <= r.spareMin, "spare_low", CRITICAL)

\* A hard disk has no endurance; the estimate only counts if the drive reports
\* no wear itself, and never makes a disk critical.
LifeFindings(kind, r, limits) ==
  IF kind = "hdd" THEN {}
  ELSE If(r.remaining # None /\ r.remaining <= limits.lifeCrit, "life_low", CRITICAL)
    \cup If(r.remaining # None /\ r.remaining > limits.lifeCrit /\ r.remaining <= limits.lifeWarn,
            "life_low", WARNING)
    \cup If(r.remaining = None /\ r.estimated # None /\ r.estimated <= limits.lifeWarn,
            "life_low_estimated", WARNING)

\* Mutant: a pending sector is judged against the week-old baseline.
PendingSinceBaseline(r, baseline, previous) ==
  IF ~Some(r.counter["pending"]) THEN {}
  ELSE IF Some(baseline.counter["pending"])
  THEN {Finding("pending_sectors_persisting", CRITICAL)}
  ELSE {Finding("pending_sectors", WARNING)}

\* One sighting is a warning, only a second one at the next poll is critical.
PendingFindings(r, baseline, previous) ==
  IF ~Some(r.counter["pending"]) THEN {}
  ELSE IF Some(previous.counter["pending"])
  THEN {Finding("pending_sectors_persisting", CRITICAL)}
  ELSE {Finding("pending_sectors", WARNING)}

ReallocatedFindings(kind, r, baseline, limits) ==
  LET n == r.counter["reallocated"]
      rising == Increased(n, baseline.counter["reallocated"])
  IN
  IF ~Some(n) THEN {}
  ELSE If(rising, "reallocated_sectors_rising", IF kind = "hdd" THEN CRITICAL ELSE WARNING)
    \cup If(~rising /\ (kind = "hdd" \/ n >= limits.reallocated), "reallocated_sectors", WARNING)

CounterFindings(kind, r, baseline, previous, limits) ==
  LET Rising(c) == Increased(r.counter[c], baseline.counter[c])
      Seen(c) == Some(r.counter[c])
  IN PendingFindings(r, baseline, previous)
    \cup If(Seen("offline"), "offline_uncorrectable", CRITICAL)
    \cup ReallocatedFindings(kind, r, baseline, limits)
    \cup If(Seen("reported"), "reported_uncorrectable", WARNING)
    \cup If(Rising("crc"), "crc_errors_rising", WARNING)
    \cup If(Seen("media") /\ Rising("media"), "media_errors_rising", CRITICAL)
    \cup If(Seen("media") /\ ~Rising("media"), "media_errors", WARNING)

\* Mutant: the drive's own limit replaces the configured one.
DriveLimit(r, limits) ==
  IF limits.useDriveLimit /\ Some(r.limit)
  THEN [warn |-> r.limit - 5, crit |-> r.limit]
  ELSE [warn |-> limits.tempWarn, crit |-> limits.tempCrit]

\* The configured limits, lowered to the drive's own if that is enabled.
TemperatureLimits(r, limits) ==
  IF limits.useDriveLimit /\ Some(r.limit)
  THEN LET crit == Least(limits.tempCrit, r.limit) IN
       [warn |-> Least(limits.tempWarn, crit - 5), crit |-> crit]
  ELSE [warn |-> limits.tempWarn, crit |-> limits.tempCrit]

TemperatureFindings(r, limits) ==
  LET t == r.temperature
      limit == TemperatureLimits(r, limits)
  IN If(t # None /\ t >= limit.crit, "temperature", CRITICAL)
    \cup If(t # None /\ t < limit.crit /\ t >= limit.warn, "temperature", WARNING)

Findings(kind, r, baseline, previous, limits) ==
  IF ~r.sources THEN {Finding("no_data", UNKNOWN)}
  ELSE HealthFindings(r)
    \cup LifeFindings(kind, r, limits)
    \cup CounterFindings(kind, r, baseline, previous, limits)
    \cup TemperatureFindings(r, limits)

\* The worst of the findings.
Status(findings) ==
  IF findings = {} THEN OK
  ELSE CHOOSE s \in {f.severity : f \in findings} : \A f \in findings : f.severity <= s

Codes(findings) == {f.code : f \in findings}
=============================================================================
