------------------------------ MODULE Discovery ------------------------------
(***************************************************************************)
(* The MQTT publisher's bookkeeping (mqtt.py): which entities of which     *)
(* disks Home Assistant has been told about, under which unique id, over   *)
(* lost connections, restarts of the broker and restarts of the process,   *)
(* and whether it believes the app to be there at all (availability).      *)
(*                                                                         *)
(* The entities of a disk are announced together, so a unique id stands    *)
(* for all their topics.  The MQTT client and the broker (external) keep   *)
(* retained messages, queue what is published while the connection is      *)
(* down, and send the will of a client that disappears.                    *)
(***************************************************************************)
EXTENDS Naturals, FiniteSets, Sequences

CONSTANTS
  Disks,     \* disk keys
  Serials,   \* serial numbers
  SerialOf   \* SerialOf[d]: the serial number of a disk when it can be read

ByKey(d) == <<"key", d>>
BySerial(s) == <<"serial", s>>
Uniques == {ByKey(d) : d \in Disks} \cup {BySerial(s) : s \in Serials}

Nobody == "nobody"     \* no retained configuration, or the empty payload
NoMessage == "none"
Unpublished == <<"unpublished", Nobody>>   \* no id

ASSUME DiscoveryAssumption ==
  /\ SerialOf \in [Disks -> Serials]
  /\ Nobody \notin Disks /\ NoMessage \notin Disks

VARIABLES
  process,    \* the application: up or down
  session,    \* its connection to the broker: "none", "up" or "lost"
  willDue,    \* the broker still has to notice that a connection is dead
  status,     \* retained availability
  configs,    \* retained discovery configurations: whose state they point to
  queue,      \* configurations the client sends when it is connected again
  announced,  \* _announced
  retired,    \* _retired
  owner,      \* _uniques
  job,        \* disks publish still has to go through, with or without serial
  fresh,      \* disks published over the present connection, and under what id
  reappeared  \* disks announced under their key after that was withdrawn

clientVars == <<queue, announced, retired, owner, job, fresh, reappeared>>
vars == <<process, session, willDue, status, configs, clientVars>>

NothingQueued == [u \in Uniques |-> NoMessage]
NothingFresh == [d \in Disks |-> Unpublished]

Targets == Disks \cup {Nobody}

TypeOK ==
  /\ process \in {"up", "down"}
  /\ session \in {"none", "up", "lost"}
  /\ willDue \in BOOLEAN
  /\ status \in {"none", "online", "offline"}
  /\ configs \in [Uniques -> Targets]
  /\ queue \in [Uniques -> Targets \cup {NoMessage}]
  /\ announced \subseteq Uniques
  /\ retired \subseteq Disks
  /\ owner \in [Uniques -> Targets]
  /\ job \in Seq([disk : Disks, readable : BOOLEAN])
  /\ fresh \in [Disks -> Uniques \cup {Unpublished}]
  /\ reappeared \subseteq Disks

\* MqttPublisher.__init__
Forget ==
  /\ queue' = NothingQueued
  /\ announced' = {}
  /\ retired' = {}
  /\ owner' = [u \in Uniques |-> Nobody]
  /\ job' = <<>>
  /\ fresh' = NothingFresh
  /\ reappeared' = {}

Init ==
  /\ process = "down"
  /\ session = "none"
  /\ willDue = FALSE
  /\ status = "none"
  \* What releases before 26.09.18 announced may still be there.
  /\ configs \in [Uniques -> Targets]
  /\ \A u \in Uniques : configs[u] # Nobody => u = ByKey(configs[u])
  /\ queue = NothingQueued
  /\ announced = {}
  /\ retired = {}
  /\ owner = [u \in Uniques |-> Nobody]
  /\ job = <<>>
  /\ fresh = NothingFresh
  /\ reappeared = {}

-----------------------------------------------------------------------------
(* Process and connection *)

Start ==
  /\ process = "down"
  /\ process' = "up"
  /\ session' = "none"
  /\ Forget
  /\ UNCHANGED <<willDue, status, configs>>

\* The queue is sent once the client is connected.
Flushed == [u \in Uniques |-> IF queue[u] = NoMessage THEN configs[u] ELSE queue[u]]

\* Mutant: what was announced before the connection was lost counts.
ConnectRemembering ==
  /\ process = "up"
  /\ session # "up"
  /\ session' = "up"
  /\ willDue' \in {FALSE, willDue /\ session = "none"}
  /\ status' = "online"
  /\ configs' = Flushed
  /\ queue' = NothingQueued
  /\ fresh' = NothingFresh
  /\ UNCHANGED <<process, announced, retired, owner, job, reappeared>>

\* _on_connect.  The client id names the host and the process, so a restarted
\* container is another client and does not replace a dead connection of the
\* one before it.
Connect ==
  /\ process = "up"
  /\ session # "up"
  /\ session' = "up"
  /\ willDue' \in {FALSE, willDue /\ session = "none"}
  /\ status' = "online"
  /\ announced' = {}
  /\ configs' = Flushed
  /\ queue' = NothingQueued
  /\ fresh' = NothingFresh
  /\ UNCHANGED <<process, retired, owner, job, reappeared>>

Disconnect ==
  /\ session = "up"
  /\ session' = "lost"
  /\ willDue' = TRUE
  /\ UNCHANGED <<process, status, configs, clientVars>>

\* will_set: published when the keepalive of a dead connection runs out.
WillFires ==
  /\ willDue
  /\ willDue' = FALSE
  /\ status' = "offline"
  /\ UNCHANGED <<process, session, configs, clientVars>>

\* The broker restarts and has kept nothing.
BrokerForgets ==
  /\ session # "up"
  /\ willDue' = FALSE
  /\ status' = "none"
  /\ configs' = [u \in Uniques |-> Nobody]
  /\ UNCHANGED <<process, session, clientVars>>

Stop ==
  /\ process = "up"
  /\ process' = "down"
  /\ session' = "none"
  /\ status' = IF session = "up" THEN "offline" ELSE status
  /\ Forget
  /\ UNCHANGED <<willDue, configs>>

Crash ==
  /\ process = "up"
  /\ process' = "down"
  /\ session' = "none"
  /\ willDue' = (willDue \/ session = "up")
  /\ Forget
  /\ UNCHANGED <<status, configs>>

-----------------------------------------------------------------------------
(* publish *)

Orders == {s \in UNION {[1..n -> Disks] : n \in 0..Cardinality(Disks)} :
             \A i, j \in DOMAIN s : s[i] = s[j] => i = j}

\* A poll found some disks and could read the serial numbers of some of them.
StartPublish ==
  /\ process = "up"
  /\ job = <<>>
  /\ \E found \in Orders, readable \in SUBSET Disks :
       /\ found # <<>>
       /\ job' = [i \in DOMAIN found |-> [disk |-> found[i], readable |-> found[i] \in readable]]
  /\ UNCHANGED <<process, session, willDue, status, configs, queue, announced, retired, owner, fresh, reappeared>>

DiskUnique(d, readable) == IF readable THEN BySerial(SerialOf[d]) ELSE ByKey(d)

\* _unique_for: the serial number, unless another disk was first to claim it.
UniqueFor(d, readable) ==
  IF owner[DiskUnique(d, readable)] \in {Nobody, d} THEN DiskUnique(d, readable) ELSE ByKey(d)

\* A message replaces the one before it on its topic.
Replaced(retained, messages) ==
  [u \in Uniques |-> IF u \in DOMAIN messages THEN messages[u] ELSE retained[u]]

\* Mutant: what is published while the connection is down is dropped.
SendOrDrop(messages) ==
  /\ configs' = IF session = "up" THEN Replaced(configs, messages) ELSE configs
  /\ UNCHANGED queue

\* Messages to the broker, or to the queue while the connection is down.
Send(messages) ==
  IF session = "up"
  THEN configs' = Replaced(configs, messages) /\ UNCHANGED queue
  ELSE queue' = Replaced(queue, messages) /\ UNCHANGED configs

PublishDisk ==
  /\ job # <<>>
  /\ LET d == Head(job).disk
         unique == UniqueFor(d, Head(job).readable)
         claimed == DiskUnique(d, Head(job).readable)
         retire == unique # ByKey(d) /\ d \notin retired
     IN
     /\ owner' = IF owner[claimed] = Nobody THEN [owner EXCEPT ![claimed] = d] ELSE owner
     /\ retired' = IF retire THEN retired \cup {d} ELSE retired
     /\ announced' = announced \cup {unique}
     /\ Send([u \in {v \in Uniques : (v = ByKey(d) /\ retire) \/ (v = unique /\ unique \notin announced)}
                |-> IF u = unique THEN d ELSE Nobody])
     /\ fresh' = IF session = "up" THEN [fresh EXCEPT ![d] = unique] ELSE fresh
     /\ reappeared' = IF unique = ByKey(d) /\ d \in retired THEN reappeared \cup {d} ELSE reappeared
  /\ job' = Tail(job)
  /\ UNCHANGED <<process, session, willDue, status>>

\* Mutant: the availability is only published when the client connects.
StatesOnly ==
  /\ process = "up"
  /\ job = <<>>
  /\ UNCHANGED vars

\* The states at the end of publish, and with them the availability; a message
\* queued while the connection is down comes after the one of _on_connect.
Finish ==
  /\ process = "up"
  /\ job = <<>>
  /\ status' = IF session = "up" THEN "online" ELSE status
  /\ UNCHANGED <<process, session, willDue, configs, clientVars>>

-----------------------------------------------------------------------------
Next ==
  \/ Start \/ Connect \/ Disconnect
  \/ WillFires \/ BrokerForgets
  \/ Stop \/ Crash
  \/ StartPublish \/ PublishDisk \/ Finish

\* The scheduler polls forever, so publish comes to its end again and again.
Spec == Init /\ [][Next]_vars /\ WF_vars(PublishDisk) /\ SF_vars(Finish)

-----------------------------------------------------------------------------
\* Every disk published over the present connection has entities of its own:
\* the broker holds a configuration that points to it, whatever was announced,
\* withdrawn or lost before (mqtt.py: "announce everything again").  Disks that
\* share a serial number keep separate ones.
FreshIsAnnounced ==
  session = "up" => \A d \in Disks : fresh[d] # Unpublished =>
    \E u \in Uniques : configs[u] = d

\* A disk published under its serial number has no second set of entities
\* under its key, left by an old release, by a serial number it did not own
\* then, or by a connection that broke (mqtt.py, publish: "instead of leaving
\* duplicates behind").  Withdrawing happens once per process, so this excludes
\* a disk whose serial number became unreadable after that.
NoDuplicates ==
  session = "up" => \A d \in Disks \ reappeared :
    fresh[d] \in {BySerial(s) : s \in Serials} => configs[ByKey(d)] # d

\* The app is not left unavailable while it is there: an old connection's will
\* that is published late is corrected by the next poll.
AvailableAgain == []<>(session = "up" => status = "online")
=============================================================================
