------------------------------ MODULE Collector ------------------------------
(***************************************************************************)
(* Collecting one host (collector.py): find out how esxcli answers, list   *)
(* the disks, then ask every disk at once through up to three sources, no  *)
(* more than Slots commands at a time.  A command may answer, fail, time   *)
(* out or answer in a form that is not understood; the connection may      *)
(* break at any moment, which ends the collection of this host.            *)
(*                                                                         *)
(* A value of a reading is the name of the source it comes from.           *)
(***************************************************************************)
EXTENDS Naturals, FiniteSets, Sequences, SequencesExt

CONSTANTS
  Disks,    \* disks the host may have
  Nvme,     \* those that are NVMe drives
  Ignored,  \* those the configuration excludes
  Rated,    \* those whose endurance rating is known
  Slots     \* PER_HOST_CONCURRENCY

ASSUME CollectorAssumption ==
  /\ {Nvme, Ignored, Rated} \subseteq SUBSET Disks
  /\ Slots \in Nat \ {0}

Sources == {"smartctl", "log", "identity", "native"}
Fields == {"wear", "written", "limit"}
Provides(source) ==
  CASE source = "smartctl" -> Fields
    [] source = "identity" -> {"limit"}
    [] OTHER -> {"wear", "written"}

None == "none"
Reading == [Fields -> Sources \cup {None}]
EmptyReading == [f \in Fields |-> None]
ReadingOf(source, reported) == [f \in Fields |-> IF f \in reported THEN source ELSE None]

VARIABLES
  phase,      \* how far the collection of the host is
  json,       \* esxcli answers as JSON
  listed,     \* disks in the device list
  adapter,    \* NVMe disks that were mapped to their adapter
  smartctl,   \* smartctl was found on the host
  todo,       \* commands a disk still has to send
  form,       \* how the next or the running one asks: "json" or "text"
  running,    \* disks with a command running on the host
  held,       \* slots taken
  identity,   \* what nvme_identity returned
  readings,   \* readings of a disk, highest priority first
  result      \* HostResult

hostVars == <<phase, json, listed, adapter, smartctl>>
diskVars == <<todo, form, running, held, identity, readings>>
vars == <<hostVars, diskVars, result>>

NoResult == [ok |-> FALSE, found |-> {}, excluded |-> {},
             reading |-> [d \in Disks |-> EmptyReading], estimated |-> {}]

TypeOK ==
  /\ phase \in {"connect", "detect", "list", "smartctl", "disks", "ended"}
  /\ json \in BOOLEAN /\ smartctl \in BOOLEAN
  /\ listed \subseteq Disks /\ adapter \subseteq Nvme
  /\ \A d \in Disks : \A i \in DOMAIN todo[d] : todo[d][i] \in Sources
  /\ form \in [Disks -> {"json", "text"}]
  /\ running \subseteq Disks
  /\ held \in 0..Slots /\ held = Cardinality(running)
  /\ identity \in [Disks -> Reading]
  /\ \A d \in Disks : \A i \in DOMAIN readings[d] : readings[d][i] \in Reading
  /\ result.ok \in BOOLEAN
  /\ result.found \subseteq Disks /\ result.excluded \subseteq Disks /\ result.estimated \subseteq Disks
  /\ result.reading \in [Disks -> Reading]

NoCommands ==
  /\ todo' = [d \in Disks |-> <<>>]
  /\ form' = [d \in Disks |-> "text"]
  /\ running' = {} /\ held' = 0
  /\ identity' = [d \in Disks |-> EmptyReading]
  /\ readings' = [d \in Disks |-> <<>>]

Init ==
  /\ phase = "connect"
  /\ json = FALSE /\ smartctl = FALSE
  /\ listed = {} /\ adapter = {}
  /\ todo = [d \in Disks |-> <<>>]
  /\ form = [d \in Disks |-> "text"]
  /\ running = {} /\ held = 0
  /\ identity = [d \in Disks |-> EmptyReading]
  /\ readings = [d \in Disks |-> <<>>]
  /\ result = NoResult

-----------------------------------------------------------------------------
(* The host *)

Connected ==
  /\ phase = "connect"
  /\ phase' = "detect"
  /\ UNCHANGED <<json, listed, adapter, smartctl, diskVars, result>>

Detect ==
  /\ phase = "detect"
  /\ phase' = "list"
  /\ json' \in BOOLEAN
  /\ UNCHANGED <<listed, adapter, smartctl, diskVars, result>>

\* The paths of the NVMe drives may not be listed, or not all of them.
Discover ==
  /\ phase = "list"
  /\ phase' = "smartctl"
  /\ listed' \in SUBSET Disks
  /\ adapter' \in SUBSET ((listed' \ Ignored) \cap Nvme)
  /\ UNCHANGED <<json, smartctl, diskVars, result>>

\* The commands of each kind of drive: identity and log need the adapter.
Plan(d, found) ==
  CASE d \in Nvme /\ d \in adapter -> <<"identity", "log", "native">>
    [] d \notin Nvme /\ found -> <<"smartctl", "native">>
    [] OTHER -> <<"native">>

\* esxcli is asked for JSON first where the host knows it, smartctl as it is.
FirstForm(commands) ==
  IF json /\ commands # <<>> /\ Head(commands) # "smartctl" THEN "json" ELSE "text"

FindSmartctl ==
  /\ phase = "smartctl"
  /\ phase' = "disks"
  /\ smartctl' \in BOOLEAN
  /\ todo' = [d \in Disks |-> IF d \in listed \ Ignored THEN Plan(d, smartctl') ELSE <<>>]
  /\ form' = [d \in Disks |-> FirstForm(todo'[d])]
  /\ UNCHANGED <<json, listed, adapter, running, held, identity, readings, result>>

-----------------------------------------------------------------------------
(* The commands of a disk *)

\* _exec: wait for a slot.
Run(d) ==
  /\ todo[d] # <<>>
  /\ d \notin running
  /\ held < Slots
  /\ held' = held + 1
  /\ running' = running \cup {d}
  /\ UNCHANGED <<hostVars, todo, form, identity, readings, result>>

\* Mutant: the text form is tried inside of the JSON one, slot in slot.
JsonFailsHolding(d) ==
  /\ d \in running
  /\ form[d] = "json"
  /\ form' = [form EXCEPT ![d] = "text"]
  /\ running' = running \ {d}
  /\ UNCHANGED <<hostVars, todo, held, identity, readings, result>>

\* Failed, timed out or not understood: ask again for text.
JsonFails(d) ==
  /\ d \in running
  /\ form[d] = "json"
  /\ form' = [form EXCEPT ![d] = "text"]
  /\ running' = running \ {d}
  /\ held' = held - 1
  /\ UNCHANGED <<hostVars, todo, identity, readings, result>>

Ended(d) ==
  /\ running' = running \ {d}
  /\ held' = held - 1
  /\ todo' = [todo EXCEPT ![d] = Tail(@)]
  /\ form' = [form EXCEPT ![d] = FirstForm(todo'[d])]
  /\ UNCHANGED <<hostVars, result>>

\* Mutant: the reading that comes last counts most.
AddFirst(d, new) == new \o readings[d]

\* Readings are added in the order of their priority.
AddTo(d, new) == readings[d] \o new

\* The drive's limit comes after what the log says.
Limits(d) == IF identity[d] = EmptyReading THEN <<>> ELSE <<identity[d]>>

Answers(d) ==
  /\ d \in running
  /\ \E reported \in SUBSET Provides(Head(todo[d])) :
       LET reading == ReadingOf(Head(todo[d]), reported) IN
       IF Head(todo[d]) = "identity"
       THEN identity' = [identity EXCEPT ![d] = reading] /\ UNCHANGED readings
       ELSE /\ readings' = [readings EXCEPT ![d] = AddTo(d, <<reading>> \o
                              IF Head(todo[d]) = "log" THEN Limits(d) ELSE <<>>)]
            /\ UNCHANGED identity
  /\ Ended(d)

\* No output, or nothing in it: an error message, and on with the next command.
Fails(d) ==
  /\ d \in running
  /\ form[d] = "text"
  /\ readings' = IF Head(todo[d]) = "log" THEN [readings EXCEPT ![d] = AddTo(d, Limits(d))] ELSE readings
  /\ UNCHANGED identity
  /\ Ended(d)

-----------------------------------------------------------------------------
(* The result *)

\* Reading.merge: only what is still empty is filled.
Merge(reading, other) ==
  [f \in Fields |-> IF reading[f] = None THEN other[f] ELSE reading[f]]

\* Merged one after the other: merged[n] is what the first n make.
MergeOf(rs) ==
  LET merged[n \in 0..Len(rs)] ==
        IF n = 0 THEN EmptyReading ELSE Merge(merged[n - 1], rs[n])
  IN  merged[Len(rs)]

Merged(d) == MergeOf(readings[d])

\* Wear is estimated from the data written if no source knows it.
Estimated(d) == Merged(d)["wear"] = None /\ Merged(d)["written"] # None /\ d \in Rated

ResultOf(found) ==
  [ok |-> TRUE, found |-> found, excluded |-> listed \cap Ignored,
   reading |-> [d \in Disks |-> IF d \in found THEN Merged(d) ELSE EmptyReading],
   estimated |-> {d \in found : Estimated(d)}]

Finish ==
  /\ phase = "disks"
  /\ \A d \in Disks : todo[d] = <<>>
  /\ phase' = "ended"
  /\ result' = ResultOf(listed \ Ignored)
  /\ UNCHANGED <<json, listed, adapter, smartctl, diskVars>>

\* collect_host: cannot connect, the device list failed, or the connection
\* broke.  Every exception makes the whole host a failed one.
Fail ==
  /\ phase # "ended"
  /\ phase' = "ended"
  /\ result' = NoResult
  /\ NoCommands
  /\ UNCHANGED <<json, listed, adapter, smartctl>>

\* The next poll connects again and starts from nothing.
Again ==
  /\ phase = "ended"
  /\ phase' = "connect"
  /\ json' = FALSE /\ smartctl' = FALSE
  /\ listed' = {} /\ adapter' = {}
  /\ NoCommands
  /\ result' = NoResult

Command == \E d \in Disks : Run(d) \/ JsonFails(d) \/ Answers(d) \/ Fails(d)

Step ==
  \/ Connected \/ Detect \/ Discover \/ FindSmartctl
  \/ Command
  \/ Finish

Next == Step \/ Fail \/ Again

\* Connecting and every command have timeouts of their own.
Spec == Init /\ [][Next]_vars /\ WF_vars(Step)

-----------------------------------------------------------------------------
Before(s, t) == s = "smartctl" \/ (s = "log" /\ t = "native")

\* "Fill fields that are still empty with values from a lower-priority source"
\* (model.py, merge): no value hides one of a better source, no value that was
\* reported is lost, and wear is estimated only where no source measured it.
MergedByPriority ==
  (phase = "ended" /\ result.ok) =>
    \A d \in result.found : LET all == ToSet(readings[d]) IN
      /\ \A f \in Fields, r \in all :
           r[f] # None => result.reading[d][f] = r[f] \/ Before(result.reading[d][f], r[f])
      /\ d \in result.estimated => \A r \in all : r["wear"] = None

\* Whatever fails or times out, and however many disks wait for a slot, the
\* collection of a host ends: gather waits for every disk, and the poll for
\* every host.
CollectionEnds == []<>(phase = "ended")
=============================================================================
