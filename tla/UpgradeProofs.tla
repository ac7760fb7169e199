---------------------------- MODULE UpgradeProofs -----------------------------
(***************************************************************************)
(* Theorems about the one-time repair of the history, for any factor, any  *)
(* number of processes and samples, and any growth of the counter.         *)
(***************************************************************************)
EXTENDS Upgrade, TLAPS

Sample == [units : Start..MaxUnits, value : Nat, wear : Wears]

\* Only this release opens, repairs and marks the database.
Opened ==
  /\ \A p \in Processes : opening[p] # "closed" => release = "this"
  /\ version = 2 => release = "this"
  /\ basis # NoReading => version = 2

\* A sample that a reading in bytes may have to repair is not ahead of it.
Ahead(reading) == reading.by # "sectors" =>
  \A i \in DOMAIN samples : InOldUnit(samples[i]) => Factor * samples[i].units <= reading.value

\* The counter only grows, and the history is behind it.
Counted ==
  /\ \A i \in DOMAIN samples : samples[i].units <= units
  /\ latest = NoReading => samples = <<>>
  /\ latest.value <= Factor * MaxUnits /\ Ahead(latest)
  /\ \A p \in Processes : opening[p] = "loaded" =>
       /\ seen[p].value <= Factor * MaxUnits /\ Ahead(seen[p])
       /\ seen[p] = NoReading => \A i \in DOMAIN samples : samples[i].wear # 0

IInv ==
  /\ TypeOK /\ Opened /\ Counted
  /\ RescaledAtMostOnce /\ RepairIsComplete /\ NoMeaninglessWear

-----------------------------------------------------------------------------
(* Arithmetic *)

LEMMA Scaled ==
  ASSUME NEW f \in Nat, NEW a \in Nat, NEW b \in Nat, a <= b
  PROVE  f * a <= f * b
OBVIOUS

LEMMA Unscaled ==
  ASSUME NEW f \in Nat, NEW a \in Nat, NEW b \in Nat, f * a < f * b
  PROVE  a < b
OBVIOUS

LEMMA ConstantTypes ==
  /\ Factor \in Nat \ {0} /\ Start \in Nat \ {0} /\ MaxUnits \in Nat \ {0}
  /\ Start <= MaxUnits /\ 101 * MaxUnits < 100 * Factor * Start
  /\ Growth \subseteq Nat /\ Worn \in Nat \ {0} /\ Unknown \notin Nat
BY UpgradeAssumption

\* A value in bytes is too large to be one in units.
LEMMA BytesDoNotFit ==
  ASSUME NEW u \in Nat, Start <= u, NEW current \in Nat, current <= Factor * MaxUnits
  PROVE  ~Fits(Factor * u, current)
<1> SUFFICES ASSUME 100 * Factor * (Factor * u) <= 101 * current PROVE FALSE BY DEF Fits
<1> USE ConstantTypes
<1>1. 101 * current <= 101 * (Factor * MaxUnits) OBVIOUS
<1>2. 100 * Factor * (Factor * u) <= 101 * (Factor * MaxUnits) BY <1>1
<1>3. 100 * Factor * (Factor * u) = Factor * (100 * (Factor * u)) OBVIOUS
<1>4. 101 * (Factor * MaxUnits) = Factor * (101 * MaxUnits) OBVIOUS
<1>5. Factor * (100 * (Factor * u)) <= Factor * (101 * MaxUnits) BY <1>2, <1>3, <1>4
<1>6. 100 * (Factor * u) <= 101 * MaxUnits BY <1>5, Unscaled
<1>7. Factor * Start <= Factor * u BY Scaled
<1> QED BY <1>6, <1>7

\* What the repair makes of one sample, by a reading that came from the drive.
LEMMA RepairOfOne ==
  ASSUME NEW s \in Sample, s.value \in {s.units, Factor * s.units},
         NEW r \in Readings, r.value <= Factor * MaxUnits
  PROVE  /\ Repaired(s, r) \in Sample
         /\ Repaired(s, r).units = s.units
         /\ Repaired(s, r).value \in {s.units, Factor * s.units}
         /\ InOldUnit(Repaired(s, r)) => InOldUnit(s) /\ ~Fits(s.units, r.value)
         /\ Repaired(s, r).wear = WearKept(s.wear, r.wear)
<1> USE ConstantTypes
<1>1. /\ s.units \in Nat /\ s.units >= Start /\ s.value \in Nat /\ s.wear \in Wears
      /\ Factor * s.units \in Nat /\ r.value \in Nat
  BY DEF Sample, Readings
<1>2. /\ Repaired(s, r).units = s.units
      /\ Repaired(s, r).value = Rescaled(s.value, r.value)
      /\ Repaired(s, r).wear = WearKept(s.wear, r.wear)
      /\ Rescaled(s.value, r.value) \in Nat /\ WearKept(s.wear, r.wear) \in Wears
         => Repaired(s, r) \in Sample
  BY DEF Repaired, Sample
<1>3. WearKept(s.wear, r.wear) \in Wears BY <1>1 DEF WearKept, Wears
<1>4. ~Fits(Factor * s.units, r.value) BY <1>1, BytesDoNotFit
<1>5. CASE s.value = Factor * s.units
  <2>1. Rescaled(s.value, r.value) = Factor * s.units BY <1>4, <1>5 DEF Rescaled
  <2> QED BY <1>1, <1>2, <1>3, <2>1 DEF Sample, InOldUnit
<1>6. CASE s.value = s.units /\ Fits(s.units, r.value)
  <2>1. Rescaled(s.value, r.value) = Factor * s.units BY <1>6 DEF Rescaled
  <2> QED BY <1>1, <1>2, <1>3, <2>1 DEF Sample, InOldUnit
<1>7. CASE s.value = s.units /\ s.value # Factor * s.units /\ ~Fits(s.units, r.value)
  <2>1. Rescaled(s.value, r.value) = s.units BY <1>7 DEF Rescaled
  <2> QED BY <1>1, <1>2, <1>3, <1>7, <2>1 DEF Sample, InOldUnit
<1> QED BY <1>1, <1>5, <1>6, <1>7

LEMMA ReadingTypes ==
  /\ NoReading \in Readings /\ NoReading.value = 0 /\ NoReading.wear = Unknown
  /\ NoReading.by = "this"
  /\ \A r \in Readings : r.value \in Nat /\ r.wear \in Wears /\ r.by \in Releases
BY DEF NoReading, Readings, Wears, Releases

LEMMA SampleTypes ==
  ASSUME TypeOK, NEW i \in DOMAIN samples
  PROVE  /\ samples[i] \in Sample /\ samples[i].units \in Nat /\ samples[i].units >= Start
         /\ samples[i].units <= MaxUnits /\ samples[i].value \in Nat
         /\ samples[i].wear \in Wears
<1>1. samples \in Seq(Sample) BY DEF TypeOK, Sample
<1>2. samples[i] \in Sample BY <1>1
<1> QED BY <1>2, ConstantTypes DEF Sample

LEMMA Initially == Init => IInv
<1> SUFFICES ASSUME Init PROVE IInv OBVIOUS
<1> USE ConstantTypes DEF Init
<1>1. TypeOK BY ReadingTypes DEF TypeOK, Releases
<1>2. DOMAIN samples = {} OBVIOUS
<1>3. Factor * MaxUnits \in Nat OBVIOUS
<1>4. Opened /\ Counted BY <1>2, <1>3, ReadingTypes DEF Opened, Counted, Ahead
<1> QED BY <1>1, <1>2, <1>4 DEF IInv, RescaledAtMostOnce, RepairIsComplete, NoMeaninglessWear
-----------------------------------------------------------------------------
(* Steps *)

LEMMA Appended ==
  ASSUME NEW S, NEW s \in Seq(S), NEW e \in S
  PROVE  /\ Append(s, e) \in Seq(S)
         /\ \A i \in DOMAIN Append(s, e) :
              (i \in DOMAIN s /\ Append(s, e)[i] = s[i]) \/ Append(s, e)[i] = e
OBVIOUS

\* The drive is read: an old release may record an old unit, never a smaller count.
LEMMA CollectStep == ASSUME IInv, Collect PROVE IInv'
<1> USE ConstantTypes
<1>1. PICK wear \in Wear :
        /\ samples' = Append(samples, [units |-> units, value |-> Written, wear |-> wear])
        /\ latest' = [value |-> Written, wear |-> wear, by |-> release]
  BY DEF Collect
<1> DEFINE new == [units |-> units, value |-> Written, wear |-> wear]
<1>2. PICK g \in Growth : units + g <= MaxUnits /\ units' = units + g BY DEF Collect
<1>3. UNCHANGED <<release, version, opening, seen, basis>> BY DEF Collect
<1>4. /\ units \in Nat /\ units >= Start /\ units <= MaxUnits /\ samples \in Seq(Sample)
      /\ units' \in Nat /\ units <= units' /\ units' <= MaxUnits
      /\ release \in Releases
  BY <1>2 DEF IInv, TypeOK, Sample
<1>5. /\ Factor * units \in Nat /\ Factor * MaxUnits \in Nat
      /\ Factor * units <= Factor * MaxUnits /\ units <= Factor * units
  BY <1>4, Scaled
<1>6. /\ Written \in {units, Factor * units} /\ Written \in Nat /\ Written > 0
      /\ Written <= Factor * MaxUnits
      /\ release # "sectors" => Written = Factor * units
  BY <1>4, <1>5 DEF Written
<1>7. /\ wear \in Wears
      /\ release = "this" => wear # 0
  BY DEF Wear, Wears
<1>8. new \in Sample BY <1>4, <1>6, <1>7 DEF Sample
<1>9. samples' \in Seq(Sample) BY <1>1, <1>4, <1>8, Appended
<1>10. \A i \in DOMAIN samples' : (i \in DOMAIN samples /\ samples'[i] = samples[i]) \/ samples'[i] = new
  BY <1>1, <1>4, <1>8, Appended
<1>11. latest' \in Readings /\ latest'.value = Written /\ latest'.by = release /\ latest' # NoReading
  BY <1>1, <1>4, <1>6, <1>7 DEF Readings, NoReading
<1>12. /\ new.units = units /\ new.value = Written /\ new.wear = wear
       /\ release # "sectors" => ~InOldUnit(new)
  BY <1>6 DEF InOldUnit
<1>13. \A i \in DOMAIN samples : samples[i].units \in Nat /\ samples[i].units <= units
  BY SampleTypes DEF IInv, Counted
<1>14. TypeOK'
  BY <1>3, <1>4, <1>9, <1>11 DEF IInv, TypeOK, Sample
<1>15. Opened' BY <1>3 DEF IInv, Opened
<1>16. \A i \in DOMAIN samples' : samples'[i].units \in Nat /\ samples'[i].units <= units
  BY <1>4, <1>10, <1>12, <1>13
<1>17. release = "this" => \A i \in DOMAIN samples' :
         /\ samples'[i].wear = 0 => i \in DOMAIN samples /\ samples'[i] = samples[i]
         /\ InOldUnit(samples'[i]) => i \in DOMAIN samples /\ samples'[i] = samples[i]
  BY <1>7, <1>10, <1>12
<1>18. Counted'
  <2>1. \A i \in DOMAIN samples' : samples'[i].units <= units' BY <1>4, <1>16
  <2>2. Ahead(latest)'
    <3>1. CASE release = "sectors" BY <1>11, <3>1 DEF Ahead
    <3>2. CASE release # "sectors"
      <4>1. \A i \in DOMAIN samples' : Factor * samples'[i].units <= Factor * units
        BY <1>4, <1>16, Scaled
      <4> QED BY <1>6, <1>11, <3>2, <4>1 DEF Ahead
    <3> QED BY <3>1, <3>2
  <2>3. ASSUME NEW p \in Processes, opening'[p] = "loaded"
        PROVE  /\ seen'[p].value <= Factor * MaxUnits /\ Ahead(seen[p])'
               /\ seen'[p] = NoReading => \A i \in DOMAIN samples' : samples'[i].wear # 0
    BY <1>3, <1>17, <2>3 DEF IInv, Opened, Counted, Ahead
  <2> QED BY <1>6, <1>11, <2>1, <2>2, <2>3 DEF Counted
<1>19. RescaledAtMostOnce'
  BY <1>6, <1>10, <1>12 DEF IInv, RescaledAtMostOnce
<1>20. RepairIsComplete' /\ NoMeaninglessWear'
  BY <1>3, <1>17 DEF IInv, Opened, RepairIsComplete, NoMeaninglessWear
<1> QED BY <1>14, <1>15, <1>18, <1>19, <1>20 DEF IInv

LEMMA LoadStep == ASSUME IInv, NEW p \in Processes, Load(p) PROVE IInv'
<1> USE DEF Load
<1>1. \A q \in Processes : opening'[q] = "loaded" =>
        seen'[q] = latest \/ (opening[q] = "loaded" /\ seen'[q] = seen[q])
  BY DEF IInv, TypeOK
<1>2. TypeOK' BY DEF IInv, TypeOK
<1>3. Opened' BY DEF IInv, TypeOK, Opened
<1>4. Counted'
  <2>1. latest = NoReading => \A i \in DOMAIN samples : samples[i].wear # 0
    BY DEF IInv, Counted
  <2> QED BY <1>1, <2>1 DEF IInv, Counted, Ahead, InOldUnit
<1> QED BY <1>2, <1>3, <1>4 DEF IInv, RescaledAtMostOnce, RepairIsComplete, NoMeaninglessWear,
                                InOldUnit
\* What does not fit is less than a fifth of the reading, if that is in bytes.
LEMMA LeftOver ==
  ASSUME NEW s \in Sample, NEW r \in Readings, Factor * s.units <= r.value, ~Fits(s.units, r.value)
  PROVE  5 * Factor * s.units < r.value
<1> USE ConstantTypes
<1>1. /\ s.units \in Nat /\ s.units >= Start /\ Factor * s.units \in Nat /\ r.value \in Nat
  BY DEF Sample, Readings
<1>2. 100 * Factor * s.units = 100 * (Factor * s.units) BY <1>1
<1>3. 10 * Factor * s.units < 2 * r.value BY <1>1, <1>2 DEF Fits
<1>4. 10 * Factor * s.units = 2 * (5 * Factor * s.units) BY <1>1
<1> QED BY <1>1, <1>3, <1>4

(* The first repair settles what is left; a second one only converts more,   *)
(* and a sample that is taken between reading and repairing is in bytes.     *)
LEMMA CommitStep == ASSUME IInv, NEW p \in Processes, Commit(p) PROVE IInv'
<1> DEFINE r == seen[p]
<1>1. /\ UNCHANGED <<release, units, latest>> /\ version' = 2
      /\ basis' = IF basis = NoReading THEN r ELSE basis
      /\ opening[p] = "loaded"
      /\ \A q \in Processes : opening'[q] = "loaded" => opening[q] = "loaded" /\ seen'[q] = seen[q]
  BY DEF Commit, IInv, TypeOK
<1>2. /\ r \in Readings /\ r.value <= Factor * MaxUnits /\ Ahead(r)
      /\ r = NoReading => \A i \in DOMAIN samples : samples[i].wear # 0
      /\ release = "this"
  BY <1>1 DEF IInv, TypeOK, Counted, Opened
<1>3. DOMAIN samples' = DOMAIN samples BY DEF Commit
<1>4. ASSUME NEW i \in DOMAIN samples
      PROVE  /\ samples'[i] \in Sample
             /\ samples'[i].units = samples[i].units
             /\ samples'[i].value \in {samples'[i].units, Factor * samples'[i].units}
             /\ InOldUnit(samples'[i]) => InOldUnit(samples[i])
             /\ samples'[i].wear = 0 => samples[i].wear = 0
  <2>1. samples[i] \in Sample /\ samples[i].value \in {samples[i].units, Factor * samples[i].units}
    BY SampleTypes DEF IInv, RescaledAtMostOnce
  <2>2. CASE r = NoReading BY <2>1, <2>2 DEF Commit
  <2>3. CASE r # NoReading
    <3>1. samples'[i] = Repaired(samples[i], r) BY <2>3 DEF Commit
    <3> QED BY <1>2, <2>1, <3>1, RepairOfOne, ConstantTypes DEF WearKept
  <2> QED BY <2>2, <2>3
<1>5. TypeOK'
  <2>1. samples' \in Seq(Sample)
    <3>1. samples \in Seq(Sample) BY DEF IInv, TypeOK, Sample
    <3>2. CASE r = NoReading BY <3>1, <3>2 DEF Commit
    <3>3. CASE r # NoReading
      <4>1. samples' = [i \in DOMAIN samples |-> Repaired(samples[i], r)] BY <3>3 DEF Commit
      <4>2. DOMAIN samples = 1..Len(samples) /\ Len(samples) \in Nat BY <3>1
      <4>3. \A i \in 1..Len(samples) : Repaired(samples[i], r) \in Sample BY <1>4, <4>1, <4>2
      <4>4. [i \in 1..Len(samples) |-> Repaired(samples[i], r)] \in Seq(Sample) BY <4>2, <4>3
      <4> QED BY <4>1, <4>2, <4>4
    <3> QED BY <3>2, <3>3
  <2>2. basis' \in Readings /\ seen' \in [Processes -> Readings]
        /\ opening' \in [Processes -> {"closed", "checked", "loaded", "open"}]
    BY <1>1, <1>2, ReadingTypes DEF IInv, TypeOK, Commit
  <2> QED BY <1>1, <2>1, <2>2 DEF IInv, TypeOK, Sample
<1>6. Opened'
  <2>1. \A q \in Processes : opening'[q] # "closed" => release' = "this" BY <1>1, <1>2
  <2> QED BY <1>1, <1>2, <2>1 DEF Opened
<1>7. Counted'
  <2>1. \A i \in DOMAIN samples' : samples'[i].units <= units'
    BY <1>1, <1>3, <1>4 DEF IInv, Counted
  <2>2. latest' = NoReading => samples' = <<>>
    <3> SUFFICES ASSUME latest' = NoReading PROVE samples' = <<>> OBVIOUS
    <3>1. samples = <<>> BY <1>1 DEF IInv, Counted
    <3>2. DOMAIN samples' = {} BY <1>3, <3>1
    <3>3. samples' \in Seq(Sample) BY <1>5 DEF TypeOK, Sample
    <3> QED BY <3>2, <3>3
  <2>3. ASSUME NEW reading, Ahead(reading), reading.by # "sectors"
        PROVE  \A i \in DOMAIN samples' :
                 InOldUnit(samples'[i]) => Factor * samples'[i].units <= reading.value
    BY <1>3, <1>4, <2>3 DEF Ahead
  <2>4. Ahead(latest)' BY <1>1, <2>3 DEF IInv, Counted, Ahead
  <2>5. ASSUME NEW q \in Processes, opening'[q] = "loaded"
        PROVE  /\ seen'[q].value <= Factor * MaxUnits /\ Ahead(seen[q])'
               /\ seen'[q] = NoReading => \A i \in DOMAIN samples' : samples'[i].wear # 0
    <3>1. seen'[q] = seen[q] /\ opening[q] = "loaded" BY <1>1, <2>5
    <3>2. Ahead(seen[q])' BY <2>3, <3>1 DEF IInv, Counted, Ahead
    <3> QED BY <1>3, <1>4, <3>1, <3>2 DEF IInv, Counted
  <2> QED BY <1>1, <2>1, <2>2, <2>4, <2>5 DEF IInv, Counted
<1>8. RescaledAtMostOnce' BY <1>3, <1>4 DEF RescaledAtMostOnce
<1>9. RepairIsComplete'
  <2> SUFFICES ASSUME basis'.by # "sectors", NEW i \in DOMAIN samples, InOldUnit(samples'[i])
               PROVE  5 * Factor * samples'[i].units < basis'.value
    BY <1>1, <1>3 DEF RepairIsComplete, InOldUnit
  <2>1. InOldUnit(samples[i]) /\ samples'[i].units = samples[i].units /\ samples[i] \in Sample
    BY <1>4, SampleTypes DEF IInv
  <2>2. CASE basis # NoReading
    BY <1>1, <2>1, <2>2 DEF IInv, Opened, RepairIsComplete
  <2>3. CASE basis = NoReading
    <3>1. basis' = r /\ Factor * samples[i].units <= r.value BY <1>1, <1>2, <2>1, <2>3 DEF Ahead
    <3>2. r # NoReading
      <4>1. samples[i].units \in Nat \ {0} BY SampleTypes, ConstantTypes DEF IInv
      <4>2. Factor * samples[i].units \in Nat \ {0} BY <4>1, ConstantTypes
      <4>3. r.value \in Nat BY <1>2, ReadingTypes
      <4>4. r.value # 0 BY <3>1, <4>2, <4>3
      <4> QED BY <4>4, ReadingTypes
    <3>3. samples'[i] = Repaired(samples[i], r) BY <3>2 DEF Commit
    <3>4. ~Fits(samples[i].units, r.value)
      BY <1>2, <2>1, <3>3, RepairOfOne DEF IInv, RescaledAtMostOnce
    <3> QED BY <1>2, <2>1, <3>1, <3>4, LeftOver
  <2> QED BY <2>2, <2>3
<1>10. NoMeaninglessWear'
  <2> SUFFICES ASSUME basis'.wear = Unknown, NEW i \in DOMAIN samples PROVE samples'[i].wear # 0
    BY <1>1, <1>3 DEF NoMeaninglessWear
  <2>1. CASE basis # NoReading
    BY <1>1, <1>4, <2>1 DEF IInv, Opened, NoMeaninglessWear
  <2>2. CASE basis = NoReading /\ r = NoReading BY <1>2, <1>4, <2>2
  <2>3. CASE basis = NoReading /\ r # NoReading
    <3>1. samples'[i] = Repaired(samples[i], r) /\ r.wear = Unknown BY <1>1, <2>3 DEF Commit
    <3>2. samples'[i].wear = Unknown
      <4>1. samples[i] \in Sample /\ samples[i].value \in {samples[i].units, Factor * samples[i].units}
        BY SampleTypes DEF IInv, RescaledAtMostOnce
      <4> QED BY <1>2, <3>1, <4>1, RepairOfOne DEF WearKept
    <3> QED BY <3>2, ConstantTypes
  <2> QED BY <2>1, <2>2, <2>3
<1> QED BY <1>5, <1>6, <1>7, <1>8, <1>9, <1>10 DEF IInv

LEMMA OtherSteps ==
  ASSUME IInv,
         Install \/ (\E p \in Processes : Check(p) \/ Exit(p)) \/ UNCHANGED vars
  PROVE  IInv'
<1>1. UNCHANGED <<units, samples, latest, basis, version>>
  BY DEF Install, Check, Exit, vars
<1>2. release # "this" => \A p \in Processes : opening[p] = "closed"
  BY DEF IInv, Opened
<1>3. release' # release => release # "this"
  BY DEF Install, Later, Releases, Check, Exit, vars
<1>4. \A p \in Processes : opening'[p] = "loaded" => opening[p] = "loaded" /\ seen'[p] = seen[p]
  BY DEF IInv, TypeOK, Install, Check, Exit, vars
<1>5. TypeOK'
  BY <1>1, ReadingTypes DEF IInv, TypeOK, Install, Later, Releases, Check, Exit, vars
<1>6. Opened'
  BY <1>1, <1>2, <1>3 DEF IInv, Opened, TypeOK, Install, Check, Exit, vars
<1>7. Counted' BY <1>1, <1>4 DEF IInv, Counted, Ahead, InOldUnit
<1> QED BY <1>1, <1>5, <1>6, <1>7 DEF IInv, RescaledAtMostOnce, RepairIsComplete,
                                     NoMeaninglessWear, InOldUnit

-----------------------------------------------------------------------------
\* The inductive invariant.
THEOREM UpgradeInvariant == Spec => []IInv
<1>1. IInv /\ [Next]_vars => IInv'
  BY CollectStep, LoadStep, CommitStep, OtherSteps DEF Next
<1> QED BY <1>1, Initially, PTL DEF Spec

\* Every variable keeps its type.
THEOREM UpgradeTypeCorrect == Spec => []TypeOK
<1>1. IInv => TypeOK BY DEF IInv
<1> QED BY <1>1, UpgradeInvariant, PTL

(* However many processes start, die and repair side by side (storage.py,    *)
(* Storage.__init__), no value of the history is multiplied twice, and none  *)
(* that was in bytes before.                                                 *)
THEOREM RepairOnce == Spec => []RescaledAtMostOnce
<1>1. IInv => RescaledAtMostOnce BY DEF IInv
<1> QED BY <1>1, UpgradeInvariant, PTL

(* Once user_version is 2, a repair that went by a reading in bytes has left *)
(* nothing in the old unit but what is less than a fifth of that reading.    *)
THEOREM RepairDone == Spec => []RepairIsComplete
<1>1. IInv => RepairIsComplete BY DEF IInv
<1> QED BY <1>1, UpgradeInvariant, PTL

(* And if that reading had no wear, the repair has left no wear of 0 %.      *)
THEOREM WearCleared == Spec => []NoMeaninglessWear
<1>1. IInv => NoMeaninglessWear BY DEF IInv
<1> QED BY <1>1, UpgradeInvariant, PTL
=============================================================================
