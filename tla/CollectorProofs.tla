--------------------------- MODULE CollectorProofs ----------------------------
(***************************************************************************)
(* Theorems about the collection of one host, for any number of disks and  *)
(* slots, whatever fails.                                                  *)
(***************************************************************************)
EXTENDS Collector, FiniteSetTheorems, WellFoundedInduction, TLAPS

\* What a disk may still have to send, and none has a command without.
Plans == {<<>>, <<"native">>, <<"log", "native">>, <<"identity", "log", "native">>,
          <<"smartctl", "native">>}

CommandsOK ==
  /\ todo \in [Disks -> Plans]
  /\ readings \in [Disks -> Seq(Reading)]
  /\ IsFiniteSet(running) /\ \A d \in running : todo[d] # <<>>
  /\ result.reading \in [Disks -> Reading]

\* Of two readings of a disk that know a field the better source comes first.
Ordered(rs) == \A i, j \in DOMAIN rs : \A f \in Fields :
  i < j /\ rs[i][f] # None /\ rs[j][f] # None => Before(rs[i][f], rs[j][f])

\* Nothing is read before the first source answers, and nothing native before the end.
Better == [f \in Fields |-> {None, "smartctl", IF f = "limit" THEN "identity" ELSE "log"}]
OrderInv ==
  /\ \A d \in Disks : Ordered(readings[d])
  /\ \A d \in Disks : \A f \in Fields : identity[d][f] # None => f = "limit" /\ identity[d][f] = "identity"
  /\ \A d \in Disks :
       CASE todo[d] = <<>> -> TRUE
         [] todo[d] = <<"native">> -> \A i \in DOMAIN readings[d] : \A f \in Fields : readings[d][i][f] \in Better[f]
         [] OTHER -> readings[d] = <<>>

\* Before the disks are asked nothing runs and nothing has been read.
Idle == phase \notin {"disks", "ended"} =>
  /\ running = {} /\ todo = [d \in Disks |-> <<>>] /\ readings = [d \in Disks |-> <<>>]
  /\ identity = [d \in Disks |-> EmptyReading]

\* A result is made when no disk has a command left, from what it read.
ResultInv ==
  IF phase = "ended" /\ result.ok
  THEN (\A d \in Disks : todo[d] = <<>>) /\ result = ResultOf(listed \ Ignored)
  ELSE result = NoResult

-----------------------------------------------------------------------------
(* Merging readings *)

\* Induction: what is false of a number is false of a least one.
LEMMA LeastNumber ==
  ASSUME NEW T \in SUBSET Nat, T # {}
  PROVE  \E n \in T : \A m \in T : n <= m
<1> DEFINE R == {ss \in Nat \X Nat : ss[1] < ss[2]}
<1>1. IsWellFoundedOn(R, Nat) BY NatLessThanWellFounded DEF OpToRel
<1>2. ASSUME NEW x \in Nat, NEW y \in Nat, y < x PROVE <<y, x>> \in R BY <1>2
<1> HIDE DEF R
<1>3. PICK n \in T : \A y \in T : <<y, n>> \notin R BY <1>1, WFMin
<1>4. \A m \in T : m \in Nat /\ ~(m < n) BY <1>2, <1>3
<1> QED BY <1>4

MergedUpTo(merged, rs, n) ==
  merged = [i \in 0..n |-> IF i = 0 THEN EmptyReading ELSE Merge(merged[i - 1], rs[i])]

\* The merged readings of a sequence can be written down one by one.
LEMMA MergedExists ==
  ASSUME NEW rs, NEW n \in Nat
  PROVE  \E merged : MergedUpTo(merged, rs, n)
<1> DEFINE Bad == {m \in Nat : ~\E merged : MergedUpTo(merged, rs, m)}
<1> SUFFICES ASSUME Bad # {} PROVE FALSE OBVIOUS
<1>1. PICK m \in Bad : \A k \in Bad : m <= k BY LeastNumber
<1>2. CASE m = 0
  <2>1. MergedUpTo([i \in 0..0 |-> EmptyReading], rs, 0) BY DEF MergedUpTo
  <2> QED BY <1>1, <1>2, <2>1
<1>3. CASE m # 0
  <2>1. m - 1 \in Nat /\ m - 1 \notin Bad BY <1>1, <1>3
  <2>2. PICK merged : MergedUpTo(merged, rs, m - 1) BY <2>1
  <2> DEFINE more == [i \in 0..m |-> IF i = m THEN Merge(merged[m - 1], rs[m]) ELSE merged[i]]
  <2>3. MergedUpTo(more, rs, m)
    <3>1. \A i \in 0..m : more[i] = IF i = 0 THEN EmptyReading ELSE Merge(more[i - 1], rs[i])
      BY <1>3, <2>1, <2>2 DEF MergedUpTo
    <3> QED BY <3>1 DEF MergedUpTo
  <2> QED BY <1>1, <2>3
<1> QED BY <1>2, <1>3

\* Of every field the first value that is known.
FirstKnown(rs, n, reading) ==
  /\ reading \in Reading
  /\ \A f \in Fields :
       \/ reading[f] = None /\ \A i \in 1..n : rs[i][f] = None
       \/ /\ reading[f] # None
          /\ \E i \in 1..n : rs[i][f] = reading[f] /\ \A j \in 1..(i - 1) : rs[j][f] = None

LEMMA NoneIsNoSource == None \notin Sources
BY DEF None, Sources

LEMMA MergeOne ==
  ASSUME NEW n \in Nat \ {0}, NEW rs, rs[n] \in Reading, NEW r, FirstKnown(rs, n - 1, r)
  PROVE  FirstKnown(rs, n, Merge(r, rs[n]))
<1> DEFINE m == Merge(r, rs[n])
<1>1. m \in Reading BY DEF FirstKnown, Merge, Reading
<1>2. ASSUME NEW f \in Fields
      PROVE  \/ m[f] = None /\ \A i \in 1..n : rs[i][f] = None
             \/ /\ m[f] # None
                /\ \E i \in 1..n : rs[i][f] = m[f] /\ \A j \in 1..(i - 1) : rs[j][f] = None
  <2>1. m[f] = IF r[f] = None THEN rs[n][f] ELSE r[f] BY DEF Merge
  <2>2. CASE r[f] = None
    <3>1. \A i \in 1..(n - 1) : rs[i][f] = None BY <2>2 DEF FirstKnown
    <3> QED BY <2>1, <2>2, <3>1
  <2>3. CASE r[f] # None
    <3>1. PICK i \in 1..(n - 1) : rs[i][f] = r[f] /\ \A j \in 1..(i - 1) : rs[j][f] = None
      BY <2>3 DEF FirstKnown
    <3>2. i \in 1..n OBVIOUS
    <3> QED BY <2>1, <2>3, <3>1, <3>2
  <2> QED BY <2>2, <2>3
<1> QED BY <1>1, <1>2 DEF FirstKnown

(* What is merged has of every field the first value that any reading knows  *)
(* (Reading.merge, applied in the order of the readings).                    *)
LEMMA MergedIsFirstKnown ==
  ASSUME NEW rs \in Seq(Reading)
  PROVE  FirstKnown(rs, Len(rs), MergeOf(rs))
<1> DEFINE merged == CHOOSE g : MergedUpTo(g, rs, Len(rs))
<1>1. Len(rs) \in Nat /\ \A i \in 1..Len(rs) : rs[i] \in Reading OBVIOUS
<1>2. MergedUpTo(merged, rs, Len(rs)) BY <1>1, MergedExists
<1>3. MergeOf(rs) = merged[Len(rs)] BY DEF MergeOf, MergedUpTo
<1> HIDE DEF merged
<1> DEFINE Bad == {n \in 0..Len(rs) : ~FirstKnown(rs, n, merged[n])}
<1> SUFFICES ASSUME Bad # {} PROVE FALSE BY <1>1, <1>3
<1> Bad \in SUBSET Nat BY <1>1
<1>4. PICK n \in Bad : \A k \in Bad : n <= k BY LeastNumber
<1>5. CASE n = 0
  <2>1. merged[0] = EmptyReading BY <1>1, <1>2 DEF MergedUpTo
  <2>2. EmptyReading \in Reading /\ \A f \in Fields : EmptyReading[f] = None
    BY DEF EmptyReading, Reading
  <2> QED BY <1>4, <1>5, <2>1, <2>2 DEF FirstKnown
<1>6. CASE n # 0
  <2>1. n \in 1..Len(rs) /\ n - 1 \in 0..Len(rs) BY <1>1, <1>4, <1>6
  <2>2. FirstKnown(rs, n - 1, merged[n - 1]) BY <1>4, <2>1
  <2>3. merged[n] = Merge(merged[n - 1], rs[n]) BY <1>2, <1>6, <2>1 DEF MergedUpTo
  <2> QED BY <1>1, <1>4, <2>1, <2>2, <2>3, MergeOne
<1> QED BY <1>5, <1>6
-----------------------------------------------------------------------------
(* Commands *)

LEMMA PlanSteps ==
  ASSUME NEW p \in Plans, p # <<>>
  PROVE  /\ Tail(p) \in Plans /\ Head(p) \in Sources
         /\ Head(p) = "native" => p = <<"native">> /\ Tail(p) = <<>>
         /\ Head(p) = "identity" => Tail(p) = <<"log", "native">>
         /\ Head(p) \in {"log", "smartctl"} => Tail(p) = <<"native">> /\ p # <<"native">>
<1>1. CASE p = <<"native">> BY <1>1 DEF Plans, Sources
<1>2. CASE p = <<"log", "native">> BY <1>2 DEF Plans, Sources
<1>3. CASE p = <<"smartctl", "native">> BY <1>3 DEF Plans, Sources
<1>4. CASE p = <<"identity", "log", "native">> BY <1>4 DEF Plans, Sources
<1> QED BY <1>1, <1>2, <1>3, <1>4 DEF Plans

LEMMA PlanIsPlan == ASSUME NEW d \in Disks, NEW found PROVE Plan(d, found) \in Plans
BY DEF Plan, Plans

LEMMA ReadingTypes ==
  /\ EmptyReading \in Reading /\ \A f \in Fields : EmptyReading[f] = None
  /\ \A source \in Sources : \A reported : ReadingOf(source, reported) \in Reading
  /\ \A r, s \in Reading : Merge(r, s) \in Reading
BY DEF EmptyReading, Reading, ReadingOf, Merge

LEMMA ResultTypes ==
  ASSUME TypeOK, CommandsOK, NEW found \in SUBSET Disks
  PROVE  /\ ResultOf(found).ok = TRUE /\ ResultOf(found).found = found
         /\ ResultOf(found).excluded = listed \cap Ignored
         /\ ResultOf(found).reading \in [Disks -> Reading]
         /\ ResultOf(found).estimated \subseteq found
<1>1. \A d \in Disks : Merged(d) \in Reading
  BY MergedIsFirstKnown DEF CommandsOK, Merged, FirstKnown
<1> QED BY <1>1, ReadingTypes DEF ResultOf

LEMMA NoResultTypes ==
  /\ NoResult.ok = FALSE /\ NoResult.found = {} /\ NoResult.excluded = {}
  /\ NoResult.estimated = {} /\ NoResult.reading \in [Disks -> Reading]
BY ReadingTypes DEF NoResult

LEMMA NoCommandsTypes ==
  ASSUME NoCommands
  PROVE  /\ todo' \in [Disks -> Plans] /\ readings' \in [Disks -> Seq(Reading)]
         /\ IsFiniteSet(running)' /\ running' = {} /\ held' = 0 /\ Cardinality(running)' = 0
         /\ form' \in [Disks -> {"json", "text"}] /\ identity' \in [Disks -> Reading]
BY FS_EmptySet, ReadingTypes DEF NoCommands, Plans

\* What a command's end leaves behind.
LEMMA EndedTypes ==
  ASSUME TypeOK, CommandsOK, NEW d \in Disks, d \in running, Ended(d)
  PROVE  /\ todo' \in [Disks -> Plans]
         /\ form' \in [Disks -> {"json", "text"}]
         /\ IsFiniteSet(running)' /\ \A e \in running' : todo'[e] # <<>>
         /\ running' \subseteq Disks
         /\ held' \in 0..Slots /\ held' = Cardinality(running')
<1>1. todo' \in [Disks -> Plans] /\ \A e \in Disks \ {d} : todo'[e] = todo[e]
  BY PlanSteps DEF Ended, CommandsOK
<1>2. form' \in [Disks -> {"json", "text"}] BY DEF Ended, TypeOK, FirstForm
<1>3. /\ IsFiniteSet(running) /\ running' = running \ {d} /\ running \subseteq Disks
      /\ held = Cardinality(running) /\ held \in 0..Slots /\ held' = held - 1 /\ Slots \in Nat
  BY CollectorAssumption DEF Ended, TypeOK, CommandsOK
<1>4. IsFiniteSet(running') /\ Cardinality(running') = held - 1
  BY <1>3, FS_RemoveElement
<1>5. Cardinality(running') \in Nat BY <1>4, FS_CardinalityType
<1> QED BY <1>1, <1>2, <1>3, <1>4, <1>5 DEF CommandsOK
LEMMA RunTypes ==
  ASSUME TypeOK, CommandsOK, NEW d \in Disks, Run(d) PROVE TypeOK' /\ CommandsOK'
<1> USE DEF Run
<1>1. /\ IsFiniteSet(running) /\ d \notin running /\ running' = running \cup {d}
      /\ held = Cardinality(running) /\ held \in 0..Slots /\ held < Slots /\ held' = held + 1
      /\ Slots \in Nat
  BY CollectorAssumption DEF TypeOK, CommandsOK
<1>2. IsFiniteSet(running') /\ Cardinality(running') = held + 1 BY <1>1, FS_AddElement
<1>3. held' \in 0..Slots BY <1>1
<1>4. running' \subseteq Disks /\ \A e \in running' : todo'[e] # <<>> BY DEF TypeOK, CommandsOK
<1> QED BY <1>1, <1>2, <1>3, <1>4 DEF TypeOK, CommandsOK, hostVars

LEMMA JsonFailsTypes ==
  ASSUME TypeOK, CommandsOK, NEW d \in Disks, JsonFails(d) PROVE TypeOK' /\ CommandsOK'
<1> USE DEF JsonFails
<1>1. /\ IsFiniteSet(running) /\ d \in running /\ running' = running \ {d}
      /\ held = Cardinality(running) /\ held \in 0..Slots /\ held' = held - 1
      /\ Slots \in Nat
  BY CollectorAssumption DEF TypeOK, CommandsOK
<1>2. IsFiniteSet(running') /\ Cardinality(running') = held - 1 BY <1>1, FS_RemoveElement
<1>3. Cardinality(running') \in Nat BY <1>2, FS_CardinalityType
<1>4. held' \in 0..Slots BY <1>1, <1>2, <1>3
<1>5. running' \subseteq Disks /\ \A e \in running' : todo'[e] # <<>> BY DEF TypeOK, CommandsOK
<1>6. form' \in [Disks -> {"json", "text"}] BY DEF TypeOK
<1> QED BY <1>1, <1>2, <1>4, <1>5, <1>6 DEF TypeOK, CommandsOK, hostVars

\* What a disk has read when a command ends, and what it has still to send.
Read(d, new) ==
  /\ d \in running /\ Ended(d)
  /\ identity' \in [Disks -> Reading]
  /\ new \in Seq(Reading)
  /\ readings' = [readings EXCEPT ![d] = readings[d] \o new]

LEMMA LimitsType ==
  ASSUME TypeOK, NEW d \in Disks
  PROVE  Limits(d) \in Seq(Reading) /\ \A i \in DOMAIN Limits(d) : i = 1 /\ Limits(d)[i] = identity[d]
BY DEF Limits, TypeOK

LEMMA ReadTypes ==
  ASSUME TypeOK, CommandsOK, NEW d \in Disks, NEW new, Read(d, new) PROVE TypeOK' /\ CommandsOK'
<1>1. /\ todo' \in [Disks -> Plans] /\ form' \in [Disks -> {"json", "text"}]
      /\ IsFiniteSet(running)' /\ \A e \in running' : todo'[e] # <<>>
      /\ running' \subseteq Disks
      /\ held' \in 0..Slots /\ held' = Cardinality(running')
  BY EndedTypes DEF Read
<1>2. readings' \in [Disks -> Seq(Reading)] BY DEF Read, CommandsOK
<1>3. UNCHANGED <<phase, json, listed, adapter, smartctl, result>> BY DEF Read, Ended, hostVars
<1>4. CommandsOK' BY <1>1, <1>2, <1>3 DEF CommandsOK
<1>5. \A p \in Plans : \A i \in DOMAIN p : p[i] \in Sources
  BY DEF Plans, Sources
<1>6. \A e \in Disks : \A i \in DOMAIN todo'[e] : todo'[e][i] \in Sources BY <1>1, <1>5
<1>7. \A e \in Disks : \A i \in DOMAIN readings'[e] : readings'[e][i] \in Reading BY <1>2
<1>8. identity' \in [Disks -> Reading] BY DEF Read
<1> QED BY <1>1, <1>3, <1>4, <1>6, <1>7, <1>8 DEF TypeOK
\* What a command adds: of itself, and after the log the drive's limit.
Adds(d, new) ==
  LET c == Head(todo[d]) IN
  /\ Ordered(new)
  /\ c = "identity" =>
       /\ new = <<>>
       /\ \A e \in Disks \ {d} : identity'[e] = identity[e]
       /\ \A f \in Fields : identity'[d][f] # None =>
            identity'[d][f] = identity[d][f] \/ (f = "limit" /\ identity'[d][f] = "identity")
  /\ c # "identity" => identity' = identity
  /\ \A i \in DOMAIN new : \A f \in Fields : new[i][f] # None =>
       \/ new[i][f] = c /\ f \in Provides(c)
       \/ c = "log" /\ f = "limit" /\ new[i][f] = "identity"

LEMMA Concatenated ==
  ASSUME NEW S, NEW s \in Seq(S), NEW t \in Seq(S)
  PROVE  /\ s \o t \in Seq(S)
         /\ \A i \in DOMAIN (s \o t) :
              \/ i \in DOMAIN s /\ (s \o t)[i] = s[i]
              \/ i - Len(s) \in DOMAIN t /\ (s \o t)[i] = t[i - Len(s)] /\ i > Len(s)
OBVIOUS

LEMMA Singleton ==
  ASSUME NEW S, NEW e \in S
  PROVE  <<e>> \in Seq(S) /\ DOMAIN <<e>> = {1} /\ <<e>>[1] = e /\ Len(<<e>>) = 1
OBVIOUS

LEMMA ReadingOfSource ==
  ASSUME NEW c \in Sources, NEW reported \in SUBSET Provides(c)
  PROVE  /\ ReadingOf(c, reported) \in Reading
         /\ \A f \in Fields : ReadingOf(c, reported)[f] # None =>
              ReadingOf(c, reported)[f] = c /\ f \in Provides(c)
BY ReadingTypes DEF ReadingOf

LEMMA HeadIsSource ==
  ASSUME CommandsOK, NEW d \in Disks, d \in running
  PROVE  todo[d] \in Plans /\ todo[d] # <<>> /\ Head(todo[d]) \in Sources
BY PlanSteps DEF CommandsOK

\* The limit that is known comes with the log, and knows nothing else.
LEMMA LimitsAdd ==
  ASSUME TypeOK, OrderInv, NEW d \in Disks, NEW i \in DOMAIN Limits(d), NEW f \in Fields,
         Limits(d)[i][f] # None
  PROVE  f = "limit" /\ Limits(d)[i][f] = "identity"
BY LimitsType DEF OrderInv

LEMMA AnswersRead ==
  ASSUME TypeOK, CommandsOK, OrderInv, NEW d \in Disks, Answers(d)
  PROVE  \E new : Read(d, new) /\ Adds(d, new)
<1> DEFINE c == Head(todo[d])
<1>1. d \in running /\ Ended(d) /\ c \in Sources BY HeadIsSource DEF Answers
<1>2. PICK reported \in SUBSET Provides(c) :
        LET reading == ReadingOf(c, reported) IN
        IF c = "identity"
        THEN identity' = [identity EXCEPT ![d] = reading] /\ UNCHANGED readings
        ELSE /\ readings' = [readings EXCEPT ![d] = AddTo(d, <<reading>> \o
                               IF c = "log" THEN Limits(d) ELSE <<>>)]
             /\ UNCHANGED identity
  BY DEF Answers
<1> DEFINE reading == ReadingOf(c, reported)
<1>3. /\ reading \in Reading
      /\ \A f \in Fields : reading[f] # None => reading[f] = c /\ f \in Provides(c)
  BY <1>1, ReadingOfSource
<1> HIDE DEF reading
<1>4. CASE c = "identity"
  <2>1. identity' = [identity EXCEPT ![d] = reading] /\ UNCHANGED readings
    BY <1>2, <1>4 DEF reading
  <2>2. identity' \in [Disks -> Reading] BY <1>3, <2>1 DEF TypeOK
  <2>3. <<>> \in Seq(Reading) /\ readings' = [readings EXCEPT ![d] = readings[d] \o <<>>]
    BY <2>1 DEF CommandsOK
  <2>4. \A f \in Fields : reading[f] # None => f = "limit" /\ reading[f] = "identity"
    BY <1>3, <1>4 DEF Provides
  <2>5. Adds(d, <<>>)
    BY <1>4, <2>1, <2>4 DEF Adds, Ordered, TypeOK
  <2> QED BY <1>1, <2>2, <2>3, <2>5 DEF Read
<1>5. CASE c # "identity"
  <2> DEFINE rest == IF c = "log" THEN Limits(d) ELSE <<>>
             new == <<reading>> \o rest
  <2>1. identity' = identity /\ readings' = [readings EXCEPT ![d] = readings[d] \o new]
    BY <1>2, <1>5 DEF reading, AddTo
  <2>2. rest \in Seq(Reading)
        /\ \A i \in DOMAIN rest : i = 1 /\ c = "log" /\ \A f \in Fields :
             rest[i][f] # None => f = "limit" /\ rest[i][f] = "identity"
    <3>1. CASE c = "log" BY <3>1, LimitsType, LimitsAdd
    <3>2. CASE c # "log" BY <3>2
    <3> QED BY <3>1, <3>2
  <2> HIDE DEF rest
  <2>3. /\ new \in Seq(Reading)
        /\ \A i \in DOMAIN new : \/ i = 1 /\ new[i] = reading
                                 \/ i = 2 /\ 1 \in DOMAIN rest /\ new[i] = rest[1]
    BY <1>3, <2>2, Singleton, Concatenated
  <2> HIDE DEF new
  <2>4. \A i \in DOMAIN new : \A f \in Fields : new[i][f] # None =>
          \/ i = 1 /\ new[i][f] = c /\ f \in Provides(c)
          \/ i = 2 /\ c = "log" /\ f = "limit" /\ new[i][f] = "identity"
    BY <1>3, <2>2, <2>3
  <2>5. c = "log" => "limit" \notin Provides(c) BY DEF Provides
  <2>6. Ordered(new)
    BY <2>3, <2>4, <2>5 DEF Ordered
  <2>7. Adds(d, new) BY <1>5, <2>1, <2>4, <2>6 DEF Adds
  <2>8. Read(d, new) BY <1>1, <2>1, <2>3 DEF Read, TypeOK
  <2> QED BY <2>7, <2>8
<1> QED BY <1>4, <1>5

LEMMA FailsRead ==
  ASSUME TypeOK, CommandsOK, OrderInv, NEW d \in Disks, Fails(d)
  PROVE  \E new : Read(d, new) /\ Adds(d, new)
<1> DEFINE c == Head(todo[d])
           new == IF c = "log" THEN Limits(d) ELSE <<>>
<1>1. d \in running /\ Ended(d) /\ c \in Sources /\ identity' = identity
  BY HeadIsSource DEF Fails
<1>2. new \in Seq(Reading)
      /\ \A i \in DOMAIN new : i = 1 /\ c = "log" /\ \A f \in Fields :
           new[i][f] # None => f = "limit" /\ new[i][f] = "identity"
  <2>1. CASE c = "log" BY <2>1, LimitsType, LimitsAdd
  <2>2. CASE c # "log" BY <2>2
  <2> QED BY <2>1, <2>2
<1>3. readings' = [readings EXCEPT ![d] = readings[d] \o new]
  <2>1. CASE c = "log" BY <2>1 DEF Fails, AddTo
  <2>2. CASE c # "log" BY <2>2 DEF Fails, CommandsOK
  <2> QED BY <2>1, <2>2
<1>4. c = "identity" => new = <<>> OBVIOUS
<1> HIDE DEF new
<1>5. Adds(d, new)
  BY <1>1, <1>2, <1>4 DEF Adds, Ordered
<1>6. Read(d, new) BY <1>1, <1>2, <1>3 DEF Read, TypeOK
<1> QED BY <1>5, <1>6
LEMMA ReadOrder ==
  ASSUME TypeOK, CommandsOK, OrderInv, NEW d \in Disks, NEW new, Read(d, new), Adds(d, new)
  PROVE  OrderInv'
<1> DEFINE c == Head(todo[d])
<1>1. /\ todo[d] \in Plans /\ todo[d] # <<>> /\ c \in Sources
      /\ todo'[d] = Tail(todo[d])
      /\ readings[d] \in Seq(Reading) /\ new \in Seq(Reading)
      /\ readings'[d] = readings[d] \o new
  BY HeadIsSource DEF Read, Ended, CommandsOK
<1>2. \A e \in Disks \ {d} : todo'[e] = todo[e] /\ readings'[e] = readings[e] /\ identity'[e] = identity[e]
  BY DEF Read, Ended, CommandsOK, Adds
<1>3. \A e \in Disks : \A f \in Fields :
        identity'[e][f] # None => f = "limit" /\ identity'[e][f] = "identity"
  <2>1. \A f \in Fields : identity'[d][f] # None =>
          identity'[d][f] = identity[d][f] \/ (f = "limit" /\ identity'[d][f] = "identity")
    BY DEF Adds
  <2> QED BY <1>2, <2>1 DEF OrderInv
<1>4. /\ c = "native" => todo[d] = <<"native">> /\ todo'[d] = <<>>
      /\ c = "identity" => todo'[d] = <<"log", "native">>
      /\ c \in {"log", "smartctl"} => todo'[d] = <<"native">> /\ todo[d] # <<"native">>
  BY <1>1, PlanSteps
<1>5. CASE c = "native"
  <2>1. \A i \in DOMAIN readings[d] : \A f \in Fields : readings[d][i][f] \in Better[f]
    BY <1>1, <1>4, <1>5 DEF OrderInv
  <2>2. \A i \in DOMAIN new : \A f \in Fields : new[i][f] # None => new[i][f] = "native" /\ f # "limit"
    BY <1>5 DEF Adds, Provides
  <2>3. \A i, j \in DOMAIN readings'[d] : \A f \in Fields :
          i < j /\ readings'[d][i][f] # None /\ readings'[d][j][f] # None
            => Before(readings'[d][i][f], readings'[d][j][f])
    <3> SUFFICES ASSUME NEW i \in DOMAIN readings'[d], NEW j \in DOMAIN readings'[d], NEW f \in Fields,
                        i < j, readings'[d][i][f] # None, readings'[d][j][f] # None
                 PROVE  Before(readings'[d][i][f], readings'[d][j][f])
      OBVIOUS
    <3>1. /\ Len(readings[d]) \in Nat /\ i \in Nat /\ j \in Nat
          /\ DOMAIN readings[d] = 1..Len(readings[d]) /\ DOMAIN new = 1..Len(new)
      BY <1>1, Concatenated
    <3>2. \/ i \in DOMAIN readings[d] /\ readings'[d][i] = readings[d][i]
          \/ i - Len(readings[d]) \in DOMAIN new /\ readings'[d][i] = new[i - Len(readings[d])]
             /\ i > Len(readings[d])
      BY <1>1, Concatenated
    <3>3. \/ j \in DOMAIN readings[d] /\ readings'[d][j] = readings[d][j]
          \/ j - Len(readings[d]) \in DOMAIN new /\ readings'[d][j] = new[j - Len(readings[d])]
             /\ j > Len(readings[d])
      BY <1>1, Concatenated
    <3>4. CASE j \in DOMAIN readings[d] /\ readings'[d][j] = readings[d][j]
      <4>1. i \in DOMAIN readings[d] /\ readings'[d][i] = readings[d][i] BY <3>1, <3>2, <3>4
      <4> QED BY <3>4, <4>1 DEF OrderInv, Ordered
    <3>5. CASE /\ i \in DOMAIN readings[d] /\ readings'[d][i] = readings[d][i]
               /\ j - Len(readings[d]) \in DOMAIN new /\ readings'[d][j] = new[j - Len(readings[d])]
      <4>1. readings'[d][j][f] = "native" /\ f # "limit" BY <2>2, <3>5
      <4>2. readings'[d][i][f] \in {"smartctl", "log"} BY <2>1, <3>5, <4>1 DEF Better
      <4> QED BY <4>1, <4>2 DEF Before
    <3>6. CASE /\ i - Len(readings[d]) \in DOMAIN new /\ readings'[d][i] = new[i - Len(readings[d])]
               /\ j - Len(readings[d]) \in DOMAIN new /\ readings'[d][j] = new[j - Len(readings[d])]
      <4>1. i - Len(readings[d]) < j - Len(readings[d]) BY <3>1
      <4> QED BY <3>6, <4>1 DEF Adds, Ordered
    <3> QED BY <3>2, <3>3, <3>4, <3>5, <3>6
  <2>4. Ordered(readings'[d]) BY <2>3 DEF Ordered
  <2>5. \A e \in Disks : Ordered(readings'[e]) BY <1>2, <2>4 DEF OrderInv
  <2>6. todo'[d] = <<>> BY <1>4, <1>5
  <2> QED BY <1>2, <1>3, <2>5, <2>6 DEF OrderInv
<1>6. CASE c # "native"
  <2>1. readings[d] = <<>> BY <1>1, <1>6 DEF OrderInv
  <2>2. readings'[d] = new BY <1>1, <2>1
  <2>3. Ordered(readings'[d]) BY <2>2 DEF Adds
  <2>4. CASE c = "identity"
    <3>1. readings'[d] = <<>> BY <2>2, <2>4 DEF Adds
    <3>2. todo'[d] # <<>> /\ todo'[d] # <<"native">> BY <1>4, <2>4
    <3> QED BY <1>2, <1>3, <2>3, <3>1, <3>2 DEF OrderInv
  <2>5. CASE c \in {"log", "smartctl"}
    <3>1. todo'[d] = <<"native">> BY <1>4, <2>5
    <3>2. \A i \in DOMAIN readings'[d] : \A f \in Fields : readings'[d][i][f] \in Better[f]
      BY <2>2, <2>5 DEF Adds, Better, Provides
    <3> QED BY <1>2, <1>3, <2>3, <3>1, <3>2 DEF OrderInv
  <2> QED BY <1>1, <1>6, <2>4, <2>5 DEF Sources
<1> QED BY <1>5, <1>6
-----------------------------------------------------------------------------
(* The collection *)

Inv == TypeOK /\ CommandsOK /\ OrderInv /\ Idle /\ ResultInv

LEMMA Beginning ==
  ASSUME todo = [d \in Disks |-> <<>>], readings = [d \in Disks |-> <<>>],
         identity = [d \in Disks |-> EmptyReading]
  PROVE  OrderInv
BY ReadingTypes DEF OrderInv, Ordered

LEMMA Initially == Init => Inv
<1> SUFFICES ASSUME Init PROVE Inv OBVIOUS
<1>1. CommandsOK
  BY FS_EmptySet, NoResultTypes DEF Init, CommandsOK, Plans
<1>2. held = Cardinality(running) /\ held \in 0..Slots
  BY FS_EmptySet, CollectorAssumption DEF Init
<1>3. /\ \A d \in Disks : \A i \in DOMAIN todo[d] : todo[d][i] \in Sources
      /\ \A d \in Disks : \A i \in DOMAIN readings[d] : readings[d][i] \in Reading
  BY DEF Init
<1>4. /\ result.ok \in BOOLEAN /\ result.found \subseteq Disks /\ result.excluded \subseteq Disks
      /\ result.estimated \subseteq Disks /\ result.reading \in [Disks -> Reading]
  BY NoResultTypes DEF Init
<1>5. identity \in [Disks -> Reading] /\ form \in [Disks -> {"json", "text"}]
  BY ReadingTypes DEF Init
<1>6. TypeOK
  BY <1>2, <1>3, <1>4, <1>5 DEF Init, TypeOK
<1>7. OrderInv BY Beginning DEF Init
<1>8. ResultInv /\ Idle BY DEF Init, ResultInv, Idle
<1> QED BY <1>1, <1>6, <1>7, <1>8 DEF Inv

LEMMA ReadStep ==
  ASSUME Inv, NEW d \in Disks, NEW new, Read(d, new), Adds(d, new) PROVE Inv'
<1>1. TypeOK' /\ CommandsOK' BY ReadTypes DEF Inv
<1>2. OrderInv' BY ReadOrder DEF Inv
<1>3. d \in running /\ todo[d] # <<>> /\ UNCHANGED <<phase, listed, result>>
  BY HeadIsSource DEF Inv, Read, Ended, hostVars
<1>4. ResultInv' /\ Idle'
  BY <1>3 DEF Inv, ResultInv, Idle
<1> QED BY <1>1, <1>2, <1>4 DEF Inv

LEMMA RunStep ==
  ASSUME Inv, NEW d \in Disks, Run(d) \/ JsonFails(d) PROVE Inv'
<1>1. TypeOK' /\ CommandsOK' BY RunTypes, JsonFailsTypes DEF Inv
<1>2. UNCHANGED <<todo, readings, identity, result, phase, listed>> /\ todo[d] # <<>>
  BY DEF Inv, CommandsOK, Run, JsonFails, hostVars
<1>3. OrderInv' BY <1>2 DEF Inv, OrderInv
<1>4. ResultInv' /\ Idle' BY <1>2 DEF Inv, ResultInv, Idle
<1> QED BY <1>1, <1>3, <1>4 DEF Inv

LEMMA FindStep == ASSUME Inv, FindSmartctl PROVE Inv'
<1>1. phase = "smartctl" /\ phase' = "disks" /\ smartctl' \in BOOLEAN
      /\ UNCHANGED <<json, listed, adapter, running, held, identity, readings, result>>
  BY DEF FindSmartctl
<1>2. todo' \in [Disks -> Plans]
  BY PlanIsPlan DEF FindSmartctl, Plans
<1>3. form' \in [Disks -> {"json", "text"}] BY DEF FindSmartctl, FirstForm
<1>4. \A p \in Plans : \A i \in DOMAIN p : p[i] \in Sources BY DEF Plans, Sources
<1>5. \A d \in Disks : \A i \in DOMAIN todo'[d] : todo'[d][i] \in Sources BY <1>2, <1>4
<1>6. TypeOK' BY <1>1, <1>3, <1>5 DEF Inv, TypeOK
<1>7. running = {} /\ readings = [d \in Disks |-> <<>>] /\ identity = [d \in Disks |-> EmptyReading]
  BY <1>1 DEF Inv, Idle
<1>8. CommandsOK' BY <1>1, <1>2, <1>7 DEF Inv, CommandsOK
<1>9. OrderInv'
  <2>1. \A d \in Disks : readings'[d] = <<>> /\ \A f \in Fields : identity'[d][f] = None
    BY <1>1, <1>7, ReadingTypes
  <2> QED BY <2>1 DEF OrderInv, Ordered
<1> QED BY <1>1, <1>6, <1>8, <1>9 DEF Inv, ResultInv, Idle

\* Connecting, detecting, listing.
LEMMA HostStep == ASSUME Inv, Connected \/ Detect \/ Discover \/ UNCHANGED vars PROVE Inv'
<1>1. UNCHANGED <<diskVars, result>> BY DEF Connected, Detect, Discover, vars
<1>2. /\ phase = "ended" => phase' = "ended" /\ listed' = listed
      /\ phase # "ended" => phase' # "ended"
      /\ phase' \notin {"disks", "ended"} => phase \notin {"disks", "ended"}
  BY DEF Connected, Detect, Discover, vars, hostVars
<1>3. /\ phase' \in {"connect", "detect", "list", "smartctl", "disks", "ended"}
      /\ json' \in BOOLEAN /\ smartctl' \in BOOLEAN
      /\ listed' \subseteq Disks /\ adapter' \subseteq Nvme
  BY DEF Connected, Detect, Discover, vars, hostVars, Inv, TypeOK
<1>4. TypeOK' BY <1>1, <1>3 DEF Inv, TypeOK, diskVars
<1>5. CommandsOK' /\ OrderInv' BY <1>1 DEF Inv, CommandsOK, OrderInv, diskVars
<1>6. Idle' BY <1>1, <1>2 DEF Inv, Idle, diskVars
<1>7. ResultInv' BY <1>1, <1>2 DEF Inv, ResultInv, ResultOf, Merged, Estimated, diskVars
<1> QED BY <1>4, <1>5, <1>6, <1>7 DEF Inv

LEMMA FinishStep == ASSUME Inv, Finish PROVE Inv'
<1>1. /\ UNCHANGED <<json, listed, adapter, smartctl, diskVars>> /\ phase' = "ended"
      /\ result' = ResultOf(listed \ Ignored)
      /\ \A d \in Disks : todo[d] = <<>>
      /\ listed \subseteq Disks
  BY DEF Finish, Inv, TypeOK
<1>2. /\ result'.ok = TRUE /\ result'.found = listed \ Ignored
      /\ result'.excluded = listed \cap Ignored /\ result'.reading \in [Disks -> Reading]
      /\ result'.estimated \subseteq listed \ Ignored
  BY <1>1, ResultTypes DEF Inv
<1>3. TypeOK' BY <1>1, <1>2 DEF Inv, TypeOK, diskVars
<1>4. CommandsOK' /\ OrderInv'
  <2>1. UNCHANGED <<todo, running, readings, identity>> BY <1>1 DEF diskVars
  <2>2. CommandsOK' BY <1>2, <2>1 DEF Inv, CommandsOK
  <2>3. OrderInv' BY <2>1 DEF Inv, OrderInv
  <2> QED BY <2>2, <2>3
<1>5. ResultInv'
  BY <1>1, <1>2 DEF ResultInv, ResultOf, Merged, Estimated, diskVars
<1> QED BY <1>1, <1>3, <1>4, <1>5 DEF Inv, Idle

LEMMA RestartStep == ASSUME Inv, Fail \/ Again PROVE Inv'
<1>1. NoCommands /\ result' = NoResult /\ phase' \in {"ended", "connect"}
      /\ json' \in BOOLEAN /\ smartctl' \in BOOLEAN /\ listed' \subseteq Disks /\ adapter' \subseteq Nvme
  BY DEF Fail, Again, Inv, TypeOK
<1>2. CommandsOK' BY <1>1, NoCommandsTypes, NoResultTypes DEF CommandsOK
<1>3. /\ \A d \in Disks : \A i \in DOMAIN todo'[d] : todo'[d][i] \in Sources
      /\ \A d \in Disks : \A i \in DOMAIN readings'[d] : readings'[d][i] \in Reading
      /\ held' = Cardinality(running') /\ held' \in 0..Slots
  BY <1>1, NoCommandsTypes, CollectorAssumption DEF NoCommands
<1>4. /\ result'.ok \in BOOLEAN /\ result'.found \subseteq Disks /\ result'.excluded \subseteq Disks
      /\ result'.estimated \subseteq Disks /\ result'.reading \in [Disks -> Reading]
  BY <1>1, NoResultTypes
<1>5. TypeOK' BY <1>1, <1>3, <1>4, NoCommandsTypes DEF TypeOK
<1>6. OrderInv' BY <1>1, ReadingTypes DEF OrderInv, Ordered, NoCommands
<1>7. Idle' /\ ResultInv' BY <1>1, NoResultTypes DEF Idle, ResultInv, NoCommands
<1> QED BY <1>2, <1>5, <1>6, <1>7 DEF Inv

LEMMA InvStep == ASSUME Inv, [Next]_vars PROVE Inv'
<1>1. ASSUME NEW d \in Disks, Answers(d) \/ Fails(d) PROVE Inv'
  <2>1. PICK new : Read(d, new) /\ Adds(d, new) BY <1>1, AnswersRead, FailsRead DEF Inv
  <2> QED BY <2>1, ReadStep
<1>2. ASSUME NEW d \in Disks, Run(d) \/ JsonFails(d) PROVE Inv' BY <1>2, RunStep
<1>3. CASE Connected \/ Detect \/ Discover \/ UNCHANGED vars BY <1>3, HostStep
<1>4. CASE FindSmartctl BY <1>4, FindStep
<1>5. CASE Finish BY <1>5, FinishStep
<1>6. CASE Fail \/ Again BY <1>6, RestartStep
<1> QED BY <1>1, <1>2, <1>3, <1>4, <1>5, <1>6 DEF Next, Step, Command

THEOREM CollectorInvariant == Spec => []Inv
BY Initially, InvStep, PTL DEF Spec

(* Every variable keeps its type; in particular the commands that run are as *)
(* many as the slots taken and never more than there are (collector.py,      *)
(* _exec).                                                                   *)
THEOREM CollectorTypeCorrect == Spec => []TypeOK
<1>1. Inv => TypeOK BY DEF Inv
<1> QED BY <1>1, CollectorInvariant, PTL

(* No value of a reading hides one of a better source, and none is lost      *)
(* (model.py, Reading.merge; collector.py, collect_disk).                    *)
THEOREM BestSourceCounts == Spec => []MergedByPriority
<1>1. Inv => MergedByPriority
  <2> SUFFICES ASSUME Inv, phase = "ended", result.ok, NEW d \in result.found
               PROVE  /\ \A f \in Fields, r \in ToSet(readings[d]) :
                           r[f] # None => result.reading[d][f] = r[f] \/ Before(result.reading[d][f], r[f])
                      /\ d \in result.estimated => \A r \in ToSet(readings[d]) : r["wear"] = None
    BY DEF MergedByPriority
  <2> DEFINE rs == readings[d]
             m == Merged(d)
  <2>1. /\ result = ResultOf(listed \ Ignored) /\ listed \ Ignored \in SUBSET Disks
        /\ result.found = listed \ Ignored /\ d \in Disks
    BY ResultTypes DEF Inv, TypeOK, ResultInv
  <2>2. /\ result.reading[d] = m
        /\ d \in result.estimated => m["wear"] = None
    BY <2>1 DEF ResultOf, Estimated
  <2>3. rs \in Seq(Reading) /\ DOMAIN rs = 1..Len(rs) /\ Len(rs) \in Nat BY <2>1 DEF Inv, CommandsOK
  <2>4. FirstKnown(rs, Len(rs), m) BY <2>3, MergedIsFirstKnown DEF Merged
  <2>5. Ordered(rs) BY <2>1 DEF Inv, OrderInv
  <2> HIDE DEF rs, m
  <2>6. ASSUME NEW f \in Fields, NEW k \in DOMAIN rs, rs[k][f] # None
        PROVE  m[f] # None /\ (m[f] = rs[k][f] \/ Before(m[f], rs[k][f]))
    <3>1. m[f] # None BY <2>3, <2>4, <2>6 DEF FirstKnown
    <3>2. PICK i \in 1..Len(rs) : rs[i][f] = m[f] /\ \A j \in 1..(i - 1) : rs[j][f] = None
      BY <2>4, <3>1 DEF FirstKnown
    <3>3. i <= k BY <2>3, <2>6, <3>2
    <3>4. CASE i = k BY <3>1, <3>2, <3>4
    <3>5. CASE i < k BY <2>3, <2>5, <2>6, <3>1, <3>2, <3>5 DEF Ordered
    <3> QED BY <2>3, <3>3, <3>4, <3>5
  <2>7. \A r \in ToSet(rs) : \E k \in DOMAIN rs : r = rs[k] BY DEF ToSet
  <2>8. "wear" \in Fields BY DEF Fields
  <2> QED BY <2>2, <2>6, <2>7, <2>8 DEF rs
<1> QED BY <1>1, CollectorInvariant, PTL
=============================================================================
