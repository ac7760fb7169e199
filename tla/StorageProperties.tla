-------------------------- MODULE StorageProperties --------------------------
(***************************************************************************)
(* What the history database promises.  The presence properties are about  *)
(* a disk that stays with one host while the configuration and the         *)
(* direction of the clock do not change: SteadyWorld.  Without it they     *)
(* fail: see the limits of the code in the README.                         *)
(***************************************************************************)
EXTENDS Storage

SingleHome  == \A k \in Keys : \E h \in Hosts : Homes[k] = {h}
FixedConfig == \A e, f \in ExcludeChoices : e = f
SteadyClock == Gaps \subseteq Nat
SteadyWorld == SingleHome /\ FixedConfig /\ SteadyClock

LastOf(s) == s[Len(s)]

\* A disk_missing event that no disk_returned event has answered yet.
Outstanding(k) == presence[k] # <<>> /\ LastOf(presence[k]) = "missing"

\* api.py: seen before, but not in its host's latest successful collection.
ShownMissing(k) == Known(k) /\ disks[k].lastSeen < hosts[disks[k].host].lastSuccess

-----------------------------------------------------------------------------
\* A disk is reported missing once, not on every poll, and "returned" means
\* that a missing disk is reported again (storage.py, StatusChange): the two
\* events take turns, starting with "missing".
PresenceAlternates ==
  \A k \in Keys : \A i \in 1..Len(presence[k]) :
    presence[k][i] = IF i % 2 = 1 THEN "missing" ELSE "returned"

\* What the API and the metrics show as missing, computed from two tables, is
\* what save announced: a missing disk has an unanswered event, and a disk
\* with an unanswered event is shown missing.
MissingIffAnnounced == \A k \in Keys : ShownMissing(k) <=> Outstanding(k)

\* The whole of it as an abstract specification: the tables, as the API reads
\* them, and the announcements go through the steps of Presence, each move of
\* a disk together with its announcement, and no announcement is ever lost.
Seen(k) == IF ~Known(k) THEN "unseen" ELSE IF ShownMissing(k) THEN "missing" ELSE "present"
Announced == INSTANCE Presence WITH state <- [k \in Keys |-> Seen(k)], told <- presence
AnnouncesPresence == Announced!Spec

\* Why all of these hold: time only moves forward, a result is newer than
\* everything saved for its host, every disk sits under its only home, and no
\* disk with a row is excluded.
SteadyTables ==
  /\ \A h \in Hosts : hosts[h].lastSuccess <= clock
  /\ \A h \in Hosts : pending[h].kind # "none" =>
       /\ hosts[h].lastSuccess < pending[h].at
       /\ pending[h].at <= clock
       /\ pending[h].excluded \subseteq excluded
       /\ \A k \in pending[h].found : Homes[k] = {h} /\ k \notin excluded
  /\ \A k \in Keys : Known(k) =>
       /\ Homes[k] = {disks[k].host}
       /\ k \notin excluded
       /\ disks[k].lastSeen <= hosts[disks[k].host].lastSuccess

PresenceInv ==
  /\ TypeOK /\ excluded \in ExcludeChoices
  /\ SteadyTables /\ PresenceAlternates /\ MissingIffAnnounced

\* The status events of a disk tell its whole story: each starts where the
\* one before it ended, and the last one ends at the status the disks table
\* holds now.  A disk without any has always been healthy.
StatusLogIsComplete ==
  \A k \in Keys : LET log == statusLog[k] IN
    /\ \A i \in 2..Len(log) : log[i].old = log[i-1].new
    /\ \A i \in 1..Len(log) : log[i].old # log[i].new
    /\ Known(k) => disks[k].status = IF log = <<>> THEN OK ELSE LastOf(log).new
    /\ ~Known(k) => log = <<>>

\* Folding a day into one row never hides a severity that was announced: the
\* sample is still there, or its day's row is at least as severe.
NoSeverityIsForgotten ==
  \A k \in Keys : \A i \in 1..Len(statusLog[k]) :
    LET event == statusLog[k][i] IN
      \/ \E s \in samples : s.key = k /\ s.ts = event.ts /\ s.status = event.new
      \/ \E d \in daily : d.key = k /\ d.day = Day(event.ts) /\ d.status >= event.new

\* A day is never rolled up half at a time (storage.py, rollup): no disk has
\* both a daily row and raw samples of the same day, which history() would
\* return as two records of one day.
NoDayIsSplit == \A s \in samples, d \in daily : s.key = d.key => Day(s.ts) # d.day

\* Nor is a folded day ever folded again: INSERT OR REPLACE INTO daily never
\* replaces anything.
FoldedDayIsFinal == [][daily \subseteq daily']_vars

=============================================================================
