------------------------------- MODULE Delivery -------------------------------
(***************************************************************************)
(* The poll pipeline (service.py, poll): each host's result is saved, and  *)
(* the status changes save returns are handed to the listeners: first the  *)
(* MQTT publisher, whose retained states Home Assistant shows, then the    *)
(* notifier with its three channels.  The changes live in memory only, so  *)
(* a restart between the commit and a listener loses them.                 *)
(*                                                                         *)
(* The broker keeps what is published (external), a channel receives what  *)
(* is posted to it; lost connections are not modelled here.                *)
(***************************************************************************)
EXTENDS StorageProperties, FiniteSets

CONSTANTS
  Channels,         \* configured: a subset of {"ntfy", "gotify", "mail"}
  Floor,            \* AlertsConfig.severity_floor
  NotifyRecovery,
  NotifyUnreachable,
  MaxRestarts       \* bound on the restarts of the process

UNKNOWN == 1
WARNING == 2
CRITICAL == 3

ASSUME DeliveryAssumption ==
  /\ Channels \subseteq {"ntfy", "gotify", "mail"}
  /\ Floor \in {WARNING, CRITICAL}
  /\ {NotifyRecovery, NotifyUnreachable} \subseteq BOOLEAN
  /\ MaxRestarts \in Nat

VARIABLES
  hand,         \* the saved result whose changes are being handed on
  lastOk,       \* MqttPublisher._last_success
  diskTopic,    \* retained state of a disk
  hostTopic,    \* retained state of a host
  unreachable,  \* Notifier._unreachable
  inbox,        \* messages a channel received about a disk
  hostInbox,    \* messages every channel received about a host
  restarts,     \* how often the process was restarted
  behind,       \* disks a restart kept from being published, until they are
  untold        \* disks a restart kept a change of from the channels

listenerVars == <<lastOk, diskTopic, hostTopic, unreachable, inbox, hostInbox>>
ghosts == <<restarts, behind, untold>>
allVars == <<vars, hand, listenerVars, ghosts>>

NoHand == [stage |-> "none", host |-> 0, result |-> NoResult, changes |-> [k \in Keys |-> <<>>]]

\* disk_state: a missing disk is published as unknown.
NoTopic == [kind |-> "none", status |-> OK]

MissingTopic == [kind |-> "missing", status |-> UNKNOWN]
PresentTopic(status) == [kind |-> "present", status |-> status]

Messages == {"missing", "back", "recovered", "unknown", "warning", "critical"}

DeliveryTypeOK ==
  /\ hand.stage \in {"none", "publish", "notify"}
  /\ lastOk \in [Hosts -> Nat]
  /\ diskTopic \in [Keys -> [kind : {"none", "missing", "present"}, status : Severity]]
  /\ hostTopic \in [Hosts -> [reachable : BOOLEAN, lastSuccess : Nat]]
  /\ unreachable \subseteq Hosts
  /\ inbox \in [Channels -> [Keys -> Seq(Messages)]]
  /\ hostInbox \in [Hosts -> Seq({"unreachable", "reachable"})]
  /\ restarts \in 0..MaxRestarts
  /\ behind \subseteq Keys
  /\ untold \subseteq Keys

DeliveryInit ==
  /\ Init
  /\ hand = NoHand
  /\ lastOk = [h \in Hosts |-> Never]
  /\ diskTopic = [k \in Keys |-> NoTopic]
  /\ hostTopic = [h \in Hosts |-> [reachable |-> FALSE, lastSuccess |-> Never]]
  /\ unreachable = {}
  /\ inbox = [c \in Channels |-> [k \in Keys |-> <<>>]]
  /\ hostInbox = [h \in Hosts |-> <<>>]
  /\ restarts = 0
  /\ behind = {}
  /\ untold = {}

Free == hand.stage = "none"

-----------------------------------------------------------------------------
(* What save returns *)

StatusChange(kind, old, new) == [kind |-> kind, old |-> old, new |-> new]

When(condition, change) == IF condition THEN <<change>> ELSE <<>>

ChangesOf(k, h, result) ==
  IF result.kind # "ok" THEN <<>>
  ELSE When(Gone(k, h, result), StatusChange("missing", disks[k].status, UNKNOWN))
    \o When(Back(k, h, result), StatusChange("returned", UNKNOWN, result.status[k]))
    \o When(NewsWorthy(k, result), StatusChange("status", OldStatus(k), result.status[k]))

SaveNext ==
  /\ Free
  /\ \E h \in Hosts :
       /\ SaveFailure(h) \/ SaveSuccess(h)
       /\ hand' = [stage |-> "publish", host |-> h, result |-> pending[h],
                   changes |-> [k \in Keys |-> ChangesOf(k, h, pending[h])]]
  /\ UNCHANGED <<listenerVars, ghosts>>

-----------------------------------------------------------------------------
(* MqttPublisher.publish *)

IsMissing(k) == \E i \in DOMAIN hand.changes[k] : hand.changes[k][i].kind = "missing"

\* Mutant: only the disks the host reports are published.
ReportedTopic(k) ==
  IF k \in hand.result.found THEN PresentTopic(hand.result.status[k]) ELSE diskTopic[k]

DiskTopicAfter(k) ==
  IF k \in hand.result.found THEN PresentTopic(hand.result.status[k])
  ELSE IF IsMissing(k) THEN MissingTopic
  ELSE diskTopic[k]

\* Mutant: a failed poll withdraws the last success.
SuccessOfThisPoll(h) == IF hand.result.kind = "ok" THEN hand.result.at ELSE Never

\* host_state: the publisher's own memory, unless the host answered now.
SuccessShown(h) == IF hand.result.kind = "ok" THEN hand.result.at ELSE lastOk[h]

Publish ==
  LET h == hand.host
      ok == hand.result.kind = "ok"
  IN
  /\ hand.stage = "publish"
  /\ lastOk' = IF ok THEN [lastOk EXCEPT ![h] = hand.result.at] ELSE lastOk
  /\ hostTopic' = [hostTopic EXCEPT ![h] = [reachable |-> ok, lastSuccess |-> SuccessShown(h)]]
  /\ diskTopic' = [k \in Keys |-> DiskTopicAfter(k)]
  /\ behind' = {k \in behind : k \notin hand.result.found /\ ~IsMissing(k)}
  /\ hand' = [hand EXCEPT !.stage = "notify"]
  /\ UNCHANGED <<vars, unreachable, inbox, hostInbox, restarts, untold>>

-----------------------------------------------------------------------------
(* Notifier.on_results *)

\* Mutant: a missing disk is judged by its severity, like any other change.
ShouldNotifyBySeverity(change) ==
  \/ change.new >= Floor
  \/ change.new = OK /\ NotifyRecovery /\ change.old >= Floor

\* Mutant: any change to OK is a recovery.
ShouldNotifyAnyOk(change) ==
  CASE change.kind = "missing" -> Floor <= WARNING
    [] change.kind = "returned" -> NotifyRecovery /\ Floor <= WARNING
    [] OTHER -> change.new >= Floor \/ (change.new = OK /\ NotifyRecovery)

ShouldNotify(change) ==
  CASE change.kind = "missing" -> Floor <= WARNING
    [] change.kind = "returned" -> NotifyRecovery /\ Floor <= WARNING
    [] OTHER -> change.new >= Floor \/ (change.new = OK /\ NotifyRecovery /\ change.old >= Floor)

\* format_change, down to which message it is.
Message(change) ==
  CASE change.kind = "missing" -> "missing"
    [] change.kind = "returned" -> "back"
    [] OTHER -> <<"recovered", "unknown", "warning", "critical">>[change.new + 1]

\* PRIORITY has no entry for UNKNOWN: the senders that look it up raise, and
\* notify drops the exception.
Sent(channel, change) == channel = "mail" \/ change.new # UNKNOWN

\* Every message about disk k goes to every channel.
NotifyDisk(k) ==
  LET Told(c, change) == ShouldNotify(change) /\ Sent(c, change)
      Mail(c, i) == IF i <= Len(hand.changes[k]) /\ Told(c, hand.changes[k][i])
                    THEN <<Message(hand.changes[k][i])>> ELSE <<>>
  IN
  /\ hand.stage = "notify"
  /\ hand.changes[k] # <<>>
  /\ inbox' = [c \in Channels |-> [inbox[c] EXCEPT ![k] = @ \o Mail(c, 1) \o Mail(c, 2)]]
  /\ hand' = [hand EXCEPT !.changes[k] = <<>>]
  /\ UNCHANGED <<vars, lastOk, diskTopic, hostTopic, unreachable, hostInbox, ghosts>>

\* Mutant: forgets to take the host off the list.
UnreachableForever(h, ok) == IF ok THEN unreachable ELSE unreachable \cup {h}

UnreachableAfter(h, ok) == IF ok THEN unreachable \ {h} ELSE unreachable \cup {h}

NotifyHost ==
  LET h == hand.host
      ok == hand.result.kind = "ok"
      news == NotifyUnreachable /\ (ok <=> h \in unreachable)
  IN
  /\ hand.stage = "notify"
  /\ \A k \in Keys : hand.changes[k] = <<>>
  /\ unreachable' = IF NotifyUnreachable THEN UnreachableAfter(h, ok) ELSE unreachable
  /\ hostInbox' = [hostInbox EXCEPT ![h] =
                     IF news THEN Append(@, IF ok THEN "reachable" ELSE "unreachable") ELSE @]
  /\ hand' = NoHand
  /\ UNCHANGED <<vars, lastOk, diskTopic, hostTopic, inbox, ghosts>>

-----------------------------------------------------------------------------
CollectNext == Free /\ Collect /\ UNCHANGED <<hand, listenerVars, ghosts>>

RollupNext == Free /\ Rollup /\ UNCHANGED <<hand, listenerVars, ghosts>>

\* save raises: the results after it are dropped, the process lives on.
SaveRaises ==
  /\ Free
  /\ \E h \in Hosts : NextToSave(h)
  /\ Abandon /\ UNCHANGED <<excluded, hand, listenerVars, ghosts>>

\* The process ends at any point of the pipeline and starts again: only the
\* database and what was published or sent survives.
Restart ==
  LET changed == {k \in Keys : hand.changes[k] # <<>>} IN
  /\ restarts < MaxRestarts
  /\ restarts' = restarts + 1
  /\ Abandon
  /\ hand' = NoHand
  /\ lastOk' = [h \in Hosts |-> Never]
  /\ unreachable' = {}
  /\ behind' = IF hand.stage = "publish" THEN behind \cup hand.result.found \cup changed ELSE behind
  /\ untold' = untold \cup changed
  /\ UNCHANGED <<diskTopic, hostTopic, inbox, hostInbox>>

DeliveryNext ==
  \/ CollectNext
  \/ SaveNext
  \/ Publish
  \/ \E k \in Keys : NotifyDisk(k)
  \/ NotifyHost
  \/ RollupNext
  \/ SaveRaises
  \/ Restart

DeliverySpec == DeliveryInit /\ [][DeliveryNext]_allVars

-----------------------------------------------------------------------------
\* The retained states are what the database says, whenever nothing is on its
\* way: a disk the API calls missing is missing in Home Assistant, too, and
\* every other disk has the status of its row.  A restart leaves behind no
\* more than the disks of the one host it caught unpublished, until the next
\* poll that finds them, or finds them gone.
RetainedMatchesStorage ==
  Free => \A k \in Keys \ behind : Known(k) =>
    diskTopic[k] = IF ShownMissing(k) THEN MissingTopic ELSE PresentTopic(disks[k].status)

\* A host's last success "is kept across failed polls" (mqtt.py, host_state):
\* what Home Assistant shows is the database's, for every host that answered
\* since the process started.
HostTopicKeepsSuccess ==
  Free => \A h \in Hosts : lastOk[h] # Never => hostTopic[h].lastSuccess = hosts[h].lastSuccess

\* The messages of some kinds in a mailbox, in the order they came.
Only(kinds, mail) ==
  LET only[n \in 0..Len(mail)] ==
        IF n = 0 THEN <<>>
        ELSE IF mail[n] \in kinds THEN Append(only[n-1], mail[n]) ELSE only[n-1]
  IN only[Len(mail)]

PresenceMail(c, k) == Only({"missing", "back"}, inbox[c][k])

SaysMissing(s) == [i \in DOMAIN s |-> IF s[i] = "missing" THEN "missing" ELSE "back"]

\* The events table and a mailbox tell the same story: whenever nothing is on
\* its way, every disappearance and every return has been mailed, once, in the
\* order it was recorded, but for the disks a restart caught on their way.
MailMatchesEvents ==
  (Free /\ "mail" \in Channels) =>
    \A k \in Keys \ untold : PresenceMail("mail", k) = SaysMissing(presence[k])

\* So has every other configured channel: a vanished disk is as serious as a
\* warning (alerts.py, should_notify), which every channel is told.
EveryChannelIsTold ==
  Free => \A c \in Channels, k \in Keys \ untold : PresenceMail(c, k) = SaysMissing(presence[k])

StatusMail(c, k) == Only({"recovered", "warning", "critical"}, inbox[c][k])

\* "Recovered" is only sent about a disk that was alerted on before
\* (alerts.py, should_notify): never first, and never twice in a row.
RecoveryFollowsAlert ==
  \A c \in Channels, k \in Keys \ untold : LET mail == StatusMail(c, k) IN
    \A i \in 1..Len(mail) : mail[i] = "recovered" => i > 1 /\ mail[i-1] # "recovered"

\* A host is reported reachable again only if the message before said it was
\* unreachable, and unreachable a second time in a row only after a restart,
\* which forgets what was sent.
HostMailAlternates ==
  \A h \in Hosts : LET mail == hostInbox[h] IN
    /\ \A i \in 1..Len(mail) : mail[i] = "reachable" => i > 1 /\ mail[i-1] = "unreachable"
    /\ Cardinality({i \in 2..Len(mail) : mail[i] = mail[i-1]}) <= restarts
=============================================================================
