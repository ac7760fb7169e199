------------------------------ MODULE TwoWriters ------------------------------
(***************************************************************************)
(* The history database with a second process writing to it: `collect` on  *)
(* the command line (cli.py, _collect) polls the hosts once and saves the  *)
(* results while the service does the same.  SQLite runs one transaction   *)
(* at a time, but save reads the host's last success before its            *)
(* transaction begins, so a save is two steps here.                        *)
(***************************************************************************)
EXTENDS StorageProperties

Unread == -1
Writers == {"service", "command"}

VARIABLES
  held,      \* the command's results that are not saved yet
  previous,  \* last_success as a writer has read it for its next save
  raced      \* a result was saved after a newer one, or after a save that
             \* came between reading last_success and the transaction

twoVars == <<vars, held, previous, raced>>

WritersTypeOK ==
  /\ TypeOK
  /\ held \in [Hosts -> Result]
  /\ previous \in [Writers -> Nat \cup {Unread}]
  /\ raced \in BOOLEAN

WritersInit ==
  /\ Init
  /\ held = [h \in Hosts |-> NoResult]
  /\ previous = [w \in Writers |-> Unread]
  /\ raced = FALSE

Unsaved(w) == IF w = "service" THEN pending ELSE held

\* A poll takes minutes: no result waits for longer than a day.
Prompt == \A w \in Writers : \A h \in Hosts :
  Unsaved(w)[h].kind # "none" => clock <= Unsaved(w)[h].at + DayLength

ServiceCollects == Collect /\ UNCHANGED <<held, previous, raced>> /\ Prompt'

\* One run of the command, for every host of the configuration or just one.
CommandCollects ==
  /\ \A h \in Hosts : held[h].kind = "none"
  /\ clock + Span <= MaxClock
  /\ clock' = clock + Span
  /\ \E placed \in Placements, reachable \in SUBSET Hosts, status \in [Keys -> Statuses],
        at \in [Hosts -> 1..Span], asked \in {Hosts} \cup {{h} : h \in Hosts} :
       held' = [h \in Hosts |-> IF h \in asked
                  THEN Collected(h, clock + at[h], reachable, placed, status) ELSE NoResult]
  /\ UNCHANGED <<excluded, pending, hosts, disks, samples, daily, presence, statusLog,
                 previous, raced>>
  /\ Prompt'

NextUnsaved(w, h) ==
  /\ Unsaved(w)[h].kind # "none"
  /\ \A g \in Hosts : g < h => Unsaved(w)[g].kind = "none"

\* save, up to the beginning of the transaction.
ReadPrevious(w) ==
  /\ previous[w] = Unread
  /\ \E h \in Hosts : NextUnsaved(w, h) /\ previous' = [previous EXCEPT ![w] = hosts[h].lastSuccess]
  /\ UNCHANGED <<vars, held, raced>>

\* The transaction as it decides with the value read before it.
Deciding(h, success) ==
  INSTANCE Storage WITH hosts <- [hosts EXCEPT ![h].lastSuccess = success]

Saved(w, h) ==
  /\ IF w = "service"
       THEN pending' = [pending EXCEPT ![h] = NoResult] /\ UNCHANGED held
       ELSE held' = [held EXCEPT ![h] = NoResult] /\ UNCHANGED pending
  /\ hosts' = [hosts EXCEPT ![h] = HostRowAfter(h, Unsaved(w)[h])]
  /\ previous' = [previous EXCEPT ![w] = Unread]
  /\ UNCHANGED <<clock, excluded, daily>>

CommitFailure(w, h) ==
  /\ NextUnsaved(w, h) /\ previous[w] # Unread
  /\ Unsaved(w)[h].kind = "failed"
  /\ Saved(w, h)
  /\ UNCHANGED <<disks, samples, presence, statusLog, raced>>

CommitSuccess(w, h) ==
  LET result == Unsaved(w)[h] IN
  /\ NextUnsaved(w, h) /\ previous[w] # Unread
  /\ result.kind = "ok"
  /\ Saved(w, h)
  /\ disks' = [k \in Keys |-> DiskRowAfter(k, h, result)]
  /\ samples' = SamplesAfter(result)
  /\ presence' = [k \in Keys |-> Deciding(h, previous[w])!PresenceAfter(k, h, result)]
  /\ statusLog' = [k \in Keys |-> StatusLogAfter(k, result)]
  /\ raced' = (raced \/ previous[w] # hosts[h].lastSuccess \/ result.at < hosts[h].lastSuccess)

ServiceFolds == Rollup /\ UNCHANGED <<held, previous, raced>>

ServiceStops ==
  /\ Abandon
  /\ previous' = [previous EXCEPT !["service"] = Unread]
  /\ UNCHANGED <<held, raced>>

CommandStops ==
  /\ held' = [h \in Hosts |-> NoResult]
  /\ previous' = [previous EXCEPT !["command"] = Unread]
  /\ UNCHANGED <<vars, raced>>

WritersNext ==
  \/ ServiceCollects \/ CommandCollects
  \/ \E w \in Writers : ReadPrevious(w) \/ \E h \in Hosts : CommitFailure(w, h) \/ CommitSuccess(w, h)
  \/ ServiceFolds \/ ServiceStops \/ CommandStops

WritersSpec == WritersInit /\ [][WritersNext]_twoVars

-----------------------------------------------------------------------------
\* Two processes that save in turn keep the promises one process keeps: a disk
\* is announced missing once, and exactly while it is shown missing.
PresenceUnlessRaced == ~raced => PresenceAlternates /\ MissingIffAnnounced
=============================================================================
