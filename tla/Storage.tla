------------------------------- MODULE Storage -------------------------------
(***************************************************************************)
(* The history database (storage.py): the tables hosts, disks, samples,    *)
(* daily and events, and the two writers of them, save and rollup, driven  *)
(* the way one process drives them: a poll collects every configured host, *)
(* then saves the results one host after the other, in configuration order.*)
(*                                                                         *)
(* A host is its position in the configuration.  A time is a natural       *)
(* number; Never (0) stands for SQL's NULL, so a disk whose lastSeen is    *)
(* Never has no row in table disks.  Of a disk's readings only the         *)
(* evaluated severity is kept.  Every method of Storage runs under one     *)
(* lock and save writes in one transaction, so each is a single step.      *)
(***************************************************************************)
EXTENDS Integers, Sequences

CONSTANTS
  NHosts,         \* number of enabled hosts in the configuration
  Keys,           \* disk keys
  Homes,          \* Homes[k]: hosts the disk can be attached to; one host for
                  \* an mpx key, which names the host, several for a t10, naa
                  \* or eui key, which follows the disk
  ExcludeChoices, \* the sets of disks the configuration may exclude
  Statuses,       \* severities the evaluation may produce
  DayLength,      \* clock ticks in a UTC day
  RetentionDays,  \* days raw samples are kept for
  Gaps,           \* by how much the clock can have moved between two polls:
                  \* negative when the wall clock was set back
  Span,           \* ticks one poll takes
  Start,          \* the clock when the database is created
  MaxClock        \* bound: no poll ends after this tick

Hosts == 1..NHosts
Severity == 0..3  \* OK, UNKNOWN, WARNING, CRITICAL
OK == 0
NoStatus == -1    \* the old status of a disk never seen before (NULL)
Never == 0

ASSUME StorageAssumption ==
  /\ NHosts \in Nat
  /\ Homes \in [Keys -> SUBSET Hosts]
  /\ ExcludeChoices \subseteq SUBSET Keys
  /\ ExcludeChoices # {}
  /\ Statuses \subseteq Severity
  /\ DayLength \in Nat \ {0}
  /\ RetentionDays \in Nat \ {0}
  /\ Gaps \subseteq Int
  /\ Span \in Nat \ {0}
  /\ Start \in Nat
  /\ MaxClock \in Nat

VARIABLES
  clock,      \* time.time()
  excluded,   \* disks the running configuration excludes
  pending,    \* results of the poll in progress that are not saved yet
  hosts,      \* table hosts
  disks,      \* table disks
  samples,    \* table samples
  daily,      \* table daily
  presence,   \* table events, the disk_missing and disk_returned rows of a disk
  statusLog   \* table events, the status changes of a disk

vars == <<clock, excluded, pending, hosts, disks, samples, daily, presence, statusLog>>

HostRow == [lastAttempt : Nat, lastSuccess : Nat, up : BOOLEAN]
DiskRow == [host : Nat, status : Severity, lastSeen : Nat]
Sample  == [key : Keys, ts : Nat, status : Severity]
DayRow  == [key : Keys, day : Int, ts : Nat, status : Severity]
Result  == [kind : {"none", "failed", "ok"}, at : Nat, found : SUBSET Keys,
            excluded : SUBSET Keys, status : [Keys -> Severity]]
Change  == [old : Severity \cup {NoStatus}, new : Severity, ts : Nat]

EmptyResult(kind, at) == [kind |-> kind, at |-> at, found |-> {}, excluded |-> {},
                          status |-> [k \in Keys |-> OK]]
NoResult == EmptyResult("none", Never)
NoRow    == [host |-> 0, status |-> OK, lastSeen |-> Never]

TypeOK ==
  /\ clock \in Nat
  /\ excluded \in SUBSET Keys
  /\ pending \in [Hosts -> Result]
  /\ hosts \in [Hosts -> HostRow]
  /\ disks \in [Keys -> DiskRow]
  /\ samples \in SUBSET Sample
  /\ daily \in SUBSET DayRow
  /\ presence \in [Keys -> Seq({"missing", "returned"})]
  /\ statusLog \in [Keys -> Seq(Change)]

Init ==
  /\ clock = Start
  /\ excluded \in ExcludeChoices
  /\ pending = [h \in Hosts |-> NoResult]
  /\ hosts = [h \in Hosts |-> [lastAttempt |-> Never, lastSuccess |-> Never, up |-> FALSE]]
  /\ disks = [k \in Keys |-> NoRow]
  /\ samples = {}
  /\ daily = {}
  /\ presence = [k \in Keys |-> <<>>]
  /\ statusLog = [k \in Keys |-> <<>>]

-----------------------------------------------------------------------------
(* Collecting *)

\* Where the disks are: each at one of its homes, or unplugged or dead.
Placements == {p \in [Keys -> Hosts \cup {0}] : \A k \in Keys : p[k] \in Homes[k] \cup {0}}

\* What collect_host returns for h: everything plugged into it, less what the
\* configuration excludes, or an error.
Collected(h, at, reachable, placed, status) ==
  IF h \notin reachable THEN EmptyResult("failed", at)
  ELSE LET here == {k \in Keys : placed[k] = h} IN
       [kind |-> "ok", at |-> at, found |-> here \ excluded, excluded |-> here \cap excluded,
        status |-> [k \in Keys |-> IF k \in here \ excluded THEN status[k] ELSE OK]]

Idle == \A h \in Hosts : pending[h].kind = "none"

\* A poll: some time after the previous one every host is asked at once; each
\* result is stamped with the moment that host's collection started.
Collect ==
  /\ Idle
  /\ \E gap \in Gaps, placed \in Placements, reachable \in SUBSET Hosts,
        status \in [Keys -> Statuses], at \in [Hosts -> 1..Span] :
       LET now == clock + gap IN
       /\ now >= 0
       /\ now + Span <= MaxClock
       /\ clock' = now + Span
       /\ pending' = [h \in Hosts |-> Collected(h, now + at[h], reachable, placed, status)]
  /\ UNCHANGED <<excluded, hosts, disks, samples, daily, presence, statusLog>>

-----------------------------------------------------------------------------
(* Storage.save *)

Known(k) == disks[k].lastSeen # Never

\* The results of a poll are saved in configuration order.
NextToSave(h) ==
  /\ pending[h].kind # "none"
  /\ \A g \in Hosts : g < h => pending[g].kind = "none"

\* Mutant: gone, whether it was there the last time or not.
GoneAgain(k, h, result) ==
  /\ Known(k) /\ disks[k].host = h
  /\ k \notin result.found /\ k \notin result.excluded
  /\ hosts[h].lastSuccess # Never

\* Present in the host's previous successful collection, gone now.
Gone(k, h, result) ==
  LET previous == hosts[h].lastSuccess IN
  /\ Known(k)
  /\ disks[k].host = h
  /\ k \notin result.found
  /\ k \notin result.excluded
  /\ previous # Never
  /\ disks[k].lastSeen >= previous

\* Mutant: the disk of the very last collection counts as back, too.
BackAtOnce(k, h, result) ==
  /\ k \in result.found
  /\ Known(k)
  /\ hosts[h].lastSuccess # Never
  /\ disks[k].lastSeen <= hosts[h].lastSuccess

\* Reported, but last seen before the host's previous successful collection.
Back(k, h, result) ==
  LET previous == hosts[h].lastSuccess IN
  /\ k \in result.found
  /\ Known(k)
  /\ previous # Never
  /\ disks[k].lastSeen < previous

OldStatus(k) == IF Known(k) THEN disks[k].status ELSE NoStatus

\* Mutant: only a change for the worse is news.
NewsIfWorse(k, result) == k \in result.found /\ result.status[k] > OldStatus(k)

\* A newly discovered healthy disk is not news; any other change is.
NewsWorthy(k, result) ==
  /\ k \in result.found
  /\ OldStatus(k) # result.status[k]
  /\ ~(~Known(k) /\ result.status[k] = OK)

\* Mutant: a failed attempt counts as a success (no COALESCE).
HostRowStampedOnFailure(h, result) ==
  [lastAttempt |-> result.at, lastSuccess |-> result.at, up |-> result.kind = "ok"]

HostRowAfter(h, result) ==
  [lastAttempt |-> result.at,
   lastSuccess |-> IF result.kind = "ok" THEN result.at ELSE hosts[h].lastSuccess,
   up |-> result.kind = "ok"]

\* Mutant: the row of a disk that is gone loses its status.
DiskRowCleared(k, h, result) ==
  IF k \in result.found
  THEN [host |-> h, status |-> result.status[k], lastSeen |-> result.at]
  ELSE IF Gone(k, h, result) THEN [host |-> h, status |-> NoStatus, lastSeen |-> disks[k].lastSeen]
  ELSE disks[k]

DiskRowAfter(k, h, result) ==
  IF k \in result.found
  THEN [host |-> h, status |-> result.status[k], lastSeen |-> result.at]
  ELSE disks[k]

\* INSERT OR REPLACE: the primary key is the disk and the time.
SamplesAfter(result) ==
  {s \in samples : ~(s.key \in result.found /\ s.ts = result.at)}
    \cup {[key |-> k, ts |-> result.at, status |-> result.status[k]] : k \in result.found}

PresenceAfter(k, h, result) ==
  IF Gone(k, h, result) THEN Append(presence[k], "missing")
  ELSE IF Back(k, h, result) THEN Append(presence[k], "returned")
  ELSE presence[k]

StatusLogAfter(k, result) ==
  IF NewsWorthy(k, result)
  THEN Append(statusLog[k], [old |-> OldStatus(k), new |-> result.status[k], ts |-> result.at])
  ELSE statusLog[k]

SaveFailure(h) ==
  /\ NextToSave(h)
  /\ pending[h].kind = "failed"
  /\ hosts' = [hosts EXCEPT ![h] = HostRowAfter(h, pending[h])]
  /\ pending' = [pending EXCEPT ![h] = NoResult]
  /\ UNCHANGED <<clock, excluded, disks, samples, daily, presence, statusLog>>

SaveSuccess(h) ==
  LET result == pending[h] IN
  /\ NextToSave(h)
  /\ result.kind = "ok"
  /\ hosts' = [hosts EXCEPT ![h] = HostRowAfter(h, result)]
  /\ disks' = [k \in Keys |-> DiskRowAfter(k, h, result)]
  /\ samples' = SamplesAfter(result)
  /\ presence' = [k \in Keys |-> PresenceAfter(k, h, result)]
  /\ statusLog' = [k \in Keys |-> StatusLogAfter(k, result)]
  /\ pending' = [pending EXCEPT ![h] = NoResult]
  /\ UNCHANGED <<clock, excluded, daily>>

-----------------------------------------------------------------------------
(* Storage.rollup *)

Day(t) == t \div DayLength

\* Mutant: the retention ends in the middle of a day.
CutoffUnaligned == clock - RetentionDays * DayLength

\* Aligned to midnight.
Cutoff == Day(clock - RetentionDays * DayLength) * DayLength

\* Mutant: takes the first sample of the day that is kept.
ExpiredInclusive == {s \in samples : s.ts <= Cutoff}

Expired == {s \in samples : s.ts < Cutoff}

SameDay(s, t) == s.key = t.key /\ Day(s.ts) = Day(t.ts)

\* Mutant: the day keeps the status of its last sample only.
FoldLast(rows) ==
  LET lastOfDay == {s \in rows : \A t \in rows : SameDay(t, s) => t.ts <= s.ts}
  IN {[key |-> s.key, day |-> Day(s.ts), ts |-> s.ts, status |-> s.status] : s \in lastOfDay}

\* One row per disk and day: the time of the day's last sample and the worst
\* status of all of them.
Fold(rows) ==
  LET Worst(s) == CHOOSE x \in {t.status : t \in {u \in rows : SameDay(u, s)}} :
                    \A t \in rows : SameDay(t, s) => t.status <= x
      lastOfDay == {s \in rows : \A t \in rows : SameDay(t, s) => t.ts <= s.ts}
  IN {[key |-> s.key, day |-> Day(s.ts), ts |-> s.ts, status |-> Worst(s)] : s \in lastOfDay}

\* The scheduler folds old samples between two polls.
Rollup ==
  /\ Idle
  /\ LET folded == Fold(Expired) IN
     daily' = {d \in daily : ~\E f \in folded : f.key = d.key /\ f.day = d.day} \cup folded
  /\ samples' = samples \ Expired
  /\ UNCHANGED <<clock, excluded, pending, hosts, disks, presence, statusLog>>

-----------------------------------------------------------------------------
\* The process is restarted, perhaps with another configuration, or a save
\* raises and ends the poll: what was not saved is lost.  An unfinished
\* transaction is rolled back, so a crash in the middle of save is this too.
Abandon ==
  /\ excluded' \in ExcludeChoices
  /\ pending' = [h \in Hosts |-> NoResult]
  /\ UNCHANGED <<clock, hosts, disks, samples, daily, presence, statusLog>>

Next ==
  \/ Collect
  \/ \E h \in Hosts : SaveFailure(h) \/ SaveSuccess(h)
  \/ Rollup
  \/ Abandon

Spec == Init /\ [][Next]_vars
=============================================================================
