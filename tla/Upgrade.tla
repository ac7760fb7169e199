------------------------------- MODULE Upgrade --------------------------------
(***************************************************************************)
(* The one-time repair of the history of Intel/Solidigm SATA drives when   *)
(* the database is opened by this release (storage.py, Storage.__init__).  *)
(* These drives count in units of 32 MiB; earlier releases recorded the    *)
(* count as if it were sectors of 512 bytes, and a wear of 0 % that means  *)
(* nothing.  One drive; a drive of another model is skipped.  A row of     *)
(* samples and one of daily are repaired alike and are one sequence here.  *)
(*                                                                         *)
(* Bytes are counted in sectors: a reading of u units is recorded as u by  *)
(* the first releases and as Factor * u since.                             *)
(***************************************************************************)
EXTENDS Integers, Sequences

CONSTANTS
  Factor,       \* 32 MiB / 512: 65536
  Start,        \* the drive's counter when it is first seen, in units
  MaxUnits,     \* bound: how far it gets
  Growth,       \* units written between two collections
  MaxSamples,   \* bound: the length of the history
  Processes,    \* processes of this release that open the database
  Worn,         \* a wear value that smartctl read
  Unknown       \* NULL

\* The drive has not been written Factor times over since its first sample:
\* then a value in bytes and one in units cannot be told apart.
ASSUME UpgradeAssumption ==
  /\ {Factor, Start, MaxUnits, MaxSamples} \subseteq Nat \ {0} /\ Growth \subseteq Nat
  /\ Start <= MaxUnits /\ 101 * MaxUnits < 100 * Factor * Start
  /\ Worn \in Nat \ {0} /\ Unknown \notin Nat

\* What a release makes of these drives: sectors before 26.09.22.1, bytes with
\* a wear of 0 in it, bytes without wear since 26.09.22.2, and this release.
Releases == {"sectors", "bytes", "unworn", "this"}
Later == [r \in Releases |-> CASE r = "sectors" -> {"bytes", "unworn", "this"}
                               [] r = "bytes" -> {"unworn", "this"}
                               [] r = "unworn" -> {"this"}
                               [] OTHER -> {}]

VARIABLES
  release,   \* the release that is installed
  units,     \* the drive's own counter
  samples,   \* the history: what is stored, and what the counter was
  latest,    \* the reading in disks.latest_json, and the release it is from
  version,   \* PRAGMA user_version
  opening,   \* how far each process is in Storage.__init__
  seen,      \* latest, as a process read it for the repair
  basis      \* the reading the history was first repaired by

vars == <<release, units, samples, latest, version, opening, seen, basis>>

Wears == {0, Worn, Unknown}
Readings == [value : Nat, wear : Wears, by : Releases]
NoReading == [value |-> 0, wear |-> Unknown, by |-> "this"]

TypeOK ==
  /\ release \in Releases
  /\ units \in Start..MaxUnits
  /\ samples \in Seq([units : Start..MaxUnits, value : Nat, wear : Wears])
  /\ latest \in Readings
  /\ version \in {1, 2}
  /\ opening \in [Processes -> {"closed", "checked", "loaded", "open"}]
  /\ seen \in [Processes -> Readings]
  /\ basis \in Readings

Init ==
  /\ release \in Releases \ {"this"}
  /\ units = Start
  /\ samples = <<>>
  /\ latest = NoReading
  /\ version = 1
  /\ opening = [p \in Processes |-> "closed"]
  /\ seen = [p \in Processes |-> NoReading]
  /\ basis = NoReading

-----------------------------------------------------------------------------
\* esxcli: the counter in the unit of the release (parse_native_smart).
Written == IF release = "sectors" THEN units ELSE Factor * units

\* Its wear repeats the write counter and is unknown; smartctl, where it is
\* installed and answers, knows better.
Wear == {IF release \in {"sectors", "bytes"} THEN 0 ELSE Unknown, Worn}

\* A collection; of this release, by a process that has the database open.
Collect ==
  /\ Len(samples) < MaxSamples
  /\ release = "this" => \E p \in Processes : opening[p] = "open"
  /\ \E wear \in Wear :
       /\ samples' = Append(samples, [units |-> units, value |-> Written, wear |-> wear])
       /\ latest' = [value |-> Written, wear |-> wear, by |-> release]
  /\ \E g \in Growth : units + g <= MaxUnits /\ units' = units + g
  /\ UNCHANGED <<release, version, opening, seen, basis>>

Install ==
  /\ release' \in Later[release]
  /\ UNCHANGED <<units, samples, latest, version, opening, seen, basis>>

-----------------------------------------------------------------------------
(* Storage.__init__ of this release *)

\* Mutant: the version is committed before the repair.
CheckAndMark(p) ==
  /\ release = "this" /\ opening[p] = "closed"
  /\ opening' = [opening EXCEPT ![p] = IF version < 2 THEN "checked" ELSE "open"]
  /\ version' = 2
  /\ UNCHANGED <<release, units, samples, latest, seen, basis>>

Check(p) ==
  /\ release = "this" /\ opening[p] = "closed"
  /\ opening' = [opening EXCEPT ![p] = IF version < 2 THEN "checked" ELSE "open"]
  /\ UNCHANGED <<release, units, samples, latest, version, seen, basis>>

Load(p) ==
  /\ opening[p] = "checked"
  /\ opening' = [opening EXCEPT ![p] = "loaded"]
  /\ seen' = [seen EXCEPT ![p] = latest]
  /\ UNCHANGED <<release, units, samples, latest, version, basis>>

\* Mutant: no upper limit.
FitsAny(value, current) == value > 0 /\ 10 * Factor * value >= 2 * current

\* The value in bytes fits below the drive's current counter (times 1.01), and
\* is not less than a fifth of it.
Fits(value, current) ==
  /\ value > 0
  /\ 100 * Factor * value <= 101 * current
  /\ 10 * Factor * value >= 2 * current

Rescaled(value, current) == IF Fits(value, current) THEN Factor * value ELSE value

\* Mutant: the wear is left alone.
WearAlways(wear, current) == wear

\* When the drive reports no wear, none it ever had stays.
WearKept(wear, current) == IF current = Unknown THEN Unknown ELSE wear

Repaired(s, reading) ==
  [s EXCEPT !.value = Rescaled(@, reading.value), !.wear = WearKept(@, reading.wear)]

\* Mutant: the version is counted up.
CommitCounting(p) ==
  /\ opening[p] = "loaded"
  /\ samples' = IF seen[p] = NoReading THEN samples
                ELSE [i \in DOMAIN samples |-> Repaired(samples[i], seen[p])]
  /\ version' = version + 1
  /\ basis' = IF basis = NoReading THEN seen[p] ELSE basis
  /\ opening' = [opening EXCEPT ![p] = "open"]
  /\ seen' = [seen EXCEPT ![p] = NoReading]
  /\ UNCHANGED <<release, units, latest>>

\* The updates and the new version are one transaction.  A drive that was not
\* in the database when it was read is not repaired.
Commit(p) ==
  /\ opening[p] = "loaded"
  /\ samples' = IF seen[p] = NoReading THEN samples
                ELSE [i \in DOMAIN samples |-> Repaired(samples[i], seen[p])]
  /\ version' = 2
  /\ basis' = IF basis = NoReading THEN seen[p] ELSE basis
  /\ opening' = [opening EXCEPT ![p] = "open"]
  /\ seen' = [seen EXCEPT ![p] = NoReading]
  /\ UNCHANGED <<release, units, latest>>

\* The process ends, in the middle of it or later.
Exit(p) ==
  /\ opening[p] # "closed"
  /\ opening' = [opening EXCEPT ![p] = "closed"]
  /\ seen' = [seen EXCEPT ![p] = NoReading]
  /\ UNCHANGED <<release, units, samples, latest, version, basis>>

Next ==
  \/ Collect \/ Install
  \/ \E p \in Processes : Check(p) \/ Load(p) \/ Commit(p) \/ Exit(p)

Spec == Init /\ [][Next]_vars

-----------------------------------------------------------------------------
InOldUnit(s) == s.value # Factor * s.units

(* No value is rescaled that was in bytes already or had been rescaled,      *)
(* however often the program is started, dies in the middle of the repair or *)
(* runs beside another process of its own (storage.py:131).                  *)
RescaledAtMostOnce == \A i \in DOMAIN samples :
  samples[i].value \in {samples[i].units, Factor * samples[i].units}

(* Once the version is 2 the repair is complete and lasting, if the reading  *)
(* it goes by was in bytes: what is left in the old unit is less than a      *)
(* fifth of that reading.                                                    *)
RepairIsComplete == version = 2 /\ basis.by # "sectors" =>
  \A i \in DOMAIN samples :
    InOldUnit(samples[i]) => 5 * Factor * samples[i].units < basis.value

(* Nor is a meaningless wear of 0 % left, if that reading had no wear        *)
(* (storage.py:129).                                                         *)
NoMeaninglessWear == version = 2 /\ basis.wear = Unknown =>
  \A i \in DOMAIN samples : samples[i].wear # 0
=============================================================================
