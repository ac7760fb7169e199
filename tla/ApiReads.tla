------------------------------- MODULE ApiReads -------------------------------
(***************************************************************************)
(* The two reads of the web API that combine tables (api.py): state, which *)
(* GET /metrics repeats, and disk_detail.  Each table is read in a step of *)
(* its own on a worker thread, under the storage lock but without one      *)
(* transaction around them, while the scheduler saves and folds.           *)
(***************************************************************************)
EXTENDS StorageProperties

VARIABLES
  request,   \* which request is being answered, and how far it is
  success,   \* last_success of the hosts, as read
  seen,      \* last_seen of the disks, as read
  asked,     \* the disks the request is about
  host,      \* disk_detail: the host the disk was read with
  shown,     \* the disks the finished answer calls missing
  ever,      \* disks missing at some moment of the request
  always,    \* disks missing at every moment of the request
  known      \* disks with a row when the request began

readVars == <<request, success, seen, asked, host, shown>>
moments == <<ever, always, known>>
apiVars == <<vars, readVars, moments>>

MissingNow == {k \in Keys : ShownMissing(k)}
KnownNow == {k \in Keys : Known(k)}
Listed == Keys \ excluded   \* disks excluded since they were stored are hidden
SuccessNow == [h \in Hosts |-> hosts[h].lastSuccess]

SeenNow == [k \in Keys |-> disks[k].lastSeen]   \* last_seen.get(key, 0)

ApiTypeOK ==
  /\ request \in {"none", "state hosts", "state seen", "detail disk", "detail hosts", "done"}
  /\ success \in [Hosts -> Nat]
  /\ seen \in [Keys -> Nat]
  /\ asked \subseteq Keys
  /\ host \in Nat
  /\ shown \subseteq Keys
  /\ always \subseteq ever

ApiInit ==
  /\ Init
  /\ request = "none"
  /\ success = [h \in Hosts |-> Never]
  /\ seen = [k \in Keys |-> Never]
  /\ asked = {}
  /\ host = 0
  /\ shown = {}
  /\ ever = {} /\ always = {} /\ known = {}

-----------------------------------------------------------------------------
(* GET /api/state *)

Begin ==
  /\ request = "none"
  /\ ever' = MissingNow
  /\ always' = MissingNow
  /\ known' = KnownNow

StateReadsHosts ==
  /\ Begin
  /\ request' = "state hosts"
  /\ asked' = Listed
  /\ success' = SuccessNow
  /\ UNCHANGED <<vars, seen, host, shown>>

StateReadsLastSeen ==
  /\ request = "state hosts"
  /\ request' = "state seen"
  /\ seen' = SeenNow
  /\ UNCHANGED <<vars, success, asked, host, shown, moments>>

\* Mutant: the hosts are read last, with the disks.
StateReadsHostsLast ==
  /\ request = "state seen"
  /\ request' = "done"
  /\ shown' = {k \in KnownNow \cap Listed : seen[k] < SuccessNow[disks[k].host]}
  /\ UNCHANGED <<vars, success, seen, asked, host, moments>>

\* Mutant: the disks of a host that does not answer are taken as they were.
StateTrustsUnreachable ==
  /\ request = "state seen"
  /\ request' = "done"
  /\ shown' = {k \in KnownNow \cap Listed : hosts[disks[k].host].up /\ seen[k] < success[disks[k].host]}
  /\ UNCHANGED <<vars, success, seen, asked, host, moments>>

\* The disks come last, and with them the hosts they belong to now.
StateReadsDisks ==
  /\ request = "state seen"
  /\ request' = "done"
  /\ shown' = {k \in KnownNow \cap Listed : success[disks[k].host] # Never /\ seen[k] < success[disks[k].host]}
  /\ UNCHANGED <<vars, success, seen, asked, host, moments>>

-----------------------------------------------------------------------------
(* GET /api/disks/{key} *)

\* 404 for a disk without a row.
DetailReadsDisk(k) ==
  /\ Begin
  /\ Known(k)
  /\ request' = "detail disk"
  /\ asked' = {k}
  /\ host' = disks[k].host
  /\ UNCHANGED <<vars, success, seen, shown>>

DetailReadsHosts ==
  /\ request = "detail disk"
  /\ request' = "detail hosts"
  /\ success' = SuccessNow
  /\ UNCHANGED <<vars, seen, asked, host, shown, moments>>

DetailReadsLastSeen ==
  /\ request = "detail hosts"
  /\ request' = "done"
  /\ shown' = {k \in asked : success[host] # Never /\ SeenNow[k] < success[host]}
  /\ UNCHANGED <<vars, success, seen, asked, host, moments>>

-----------------------------------------------------------------------------
Answered ==
  /\ request = "done"
  /\ request' = "none"
  /\ shown' = {}
  /\ asked' = {} /\ host' = 0
  /\ success' = [h \in Hosts |-> Never]
  /\ seen' = [k \in Keys |-> Never]
  /\ ever' = {} /\ always' = {} /\ known' = {}
  /\ UNCHANGED vars

\* The scheduler goes on meanwhile.  A restart with another configuration ends
\* the request.
SchedulerStep ==
  /\ Next
  /\ request # "none" => excluded' = excluded
  /\ ever' = IF request = "none" THEN {} ELSE ever \cup MissingNow'
  /\ always' = always \cap MissingNow'
  /\ UNCHANGED <<readVars, known>>

ApiNext ==
  \/ SchedulerStep
  \/ StateReadsHosts \/ StateReadsLastSeen \/ StateReadsDisks
  \/ \E k \in Keys : DetailReadsDisk(k)
  \/ DetailReadsHosts \/ DetailReadsLastSeen
  \/ Answered

ApiSpec == ApiInit /\ [][ApiNext]_apiVars

-----------------------------------------------------------------------------
\* A disk that had a row when the request came in is only called missing if
\* it was missing at some moment of the request, however many saves fall
\* between the reads.
MissingWasTrue == shown \cap known \subseteq ever

\* A disk asked about that is missing all through the request is called missing.
MissingIsTold == request = "done" => asked \cap always \cap known \subseteq shown
=============================================================================
