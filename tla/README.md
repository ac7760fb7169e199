# VMware Disk Health in TLA+

This directory holds a formal model of VMware Disk Health, a Python service that polls ESXi
hosts over SSH, keeps the health history of their disks in SQLite, and tells a web UI,
Prometheus, Home Assistant (MQTT) and three notification channels about it. Paths below are
relative to the repository root; `vdh/` abbreviates `src/vmware_disk_health/`.

* `*.tla` without prefix: one module per component, plus modules that compose them.
* `MC*.tla` with `MC*_<run>.cfg`: instances for TLC.
* `*Proofs.tla`: theorems with proofs for TLAPS.
* `PROJECT.json`: components, runs, mutants, hazards, findings, theorems, and for every
  definition the source lines it stands for.

To check a run: `tlc -workers 2 -config MCTwoWriters_history.cfg MCTwoWriters`. To check the
proofs: `tlapm` with each of StorageProofs.tla, StorageUsersProofs.tla, UpgradeProofs.tla,
CollectorProofs.tla, KeyStoreProofs.tla, DiscoveryProofs.tla, TrendProofs.tla and
LoopsProofs.tla.

## 1. Inventory

### Components, their state and operations

| Component | State | Operations | Model |
|---|---|---|---|
| History database, `vdh/storage.py` | tables hosts, disks, samples, daily, events; one lock | `save`, `rollup`, the queries, `_repair_32mib_history` | Storage, StorageProperties, TwoWriters, Upgrade; queries in ApiReads, Trend |
| Scheduler, `vdh/service.py` Monitor | `polling`, `_wake`, `_last_rollup`, the task | `_run`, `poll`, `trigger`, `start`, `stop` | Monitor; the inside of `poll` in HostPoll and Delivery; Monitor with HostPoll is Polling |
| Integrations, `vdh/service.py` | which listeners are registered | `start`, `stop` | Delivery (order of listeners, restart) |
| MQTT publisher, `vdh/mqtt.py` | `_announced`, `_retired`, `_uniques`, `_last_success`, the client's queue | `start`, `stop`, `_on_connect`, `publish` | Discovery (configurations, ids, availability), Delivery (retained states) |
| Notifier, `vdh/alerts.py` | `_unreachable` | `on_results`, `should_notify`, the senders | Delivery |
| HTTP API, `vdh/api.py` | none of its own | reads; POST `/api/poll` | ApiReads, Monitor |
| Prometheus, `vdh/metrics.py` | none | `render` | same three reads as `/api/state`: ApiReads |
| Evaluation, `vdh/evaluate.py` | none | `evaluate`, `temperature_limits` | Evaluation, used by Trend |
| Collector, `vdh/collector.py` | per poll: `json`, `excluded`, the device records, a semaphore | `detect`, `discover`, `find_smartctl`, `collect_disk`, `collect`, `collect_host`, `collect_all` | Collector, the hosts side by side in HostPoll; the result in Storage and Trend |
| Transport and key store, `vdh/transport.py` | `id_ed25519`, `known_hosts.json` and its temporary file | `private_key`, `pin`, `forget`, `connect` | KeyStore, Pins |
| CLI, `vdh/cli.py` | none | `collect` writes to the same database from a second process; `pubkey`, `forget-host-key` | TwoWriters, KeyStore |
| Web UI, `vdh/web/app.js` | `store`: the list, `detailKey`, `detailSeen`, the timer; the route | `refreshState`, `route`, `renderDisk`, `renderEvents`, `renderSetup`, `pollNow`, `setLanguage` | WebUi |
| Data model, configuration | result and settings types | merging, overrides, thresholds | constants and records of the other modules |
| Parsers, endurance, insights | none | text, JSON and arithmetic | the fields a source provides in Collector, the unit of counters in Upgrade; otherwise not modelled |

### How they interact

The scheduler runs on the event loop. A poll collects all hosts at once (`collect_all`), then
for each host, in configuration order, saves the result on a thread and awaits every listener
with the status changes `save` returned: first the MQTT publisher, then the notifier. The
database is the only thing that survives a restart; the changes, the notifier's set of
unreachable hosts and the publisher's bookkeeping do not. The API and the metrics read the
database from worker threads, table by table, while the scheduler writes. The MQTT client has
a thread of its own, which calls `_on_connect`. The command line runs as a process beside the
service, on the same database and the same key files; nothing but SQLite and the file system
keeps the two apart. A browser tab polls the API and loads pages by requests of their own.

### What is hard here

* *Order and age of facts.* "Missing" is never stored. It is decided by comparing when a disk
  was last seen with when its host last answered: two rows written by different saves. The
  events are decided from the same rows, before they are overwritten.
* *Interleaving.* Requests read three tables between saves; `trigger` runs on a worker thread
  against an `asyncio.Event`; the MQTT thread clears what the event loop fills.
* *Crashes.* The pipeline from commit to listener is not transactional.
* *Boundaries.* Retention in days against timestamps; a window of seven days against what the
  retention has left; limits that replace one another.
* *Files.* The pinned keys are rewritten as a whole through one temporary name, by whoever
  connects or forgets, without a lock.
* *Upgrades.* The history is repaired once, by what the last reading says, whatever releases
  wrote it.
* *Overtaking answers.* The web UI shows whatever arrives, unless the user has gone elsewhere.
* *Delivery.* Retained messages of earlier processes and releases outlive their publisher,
  and so does the will of a dead connection.

PROJECT.json lists the hazards one by one, at their lines, with the properties that cover them
or the reason why none does yet.

### What makes each component correct

* Database: a disk is reported missing and returned in turns; what is shown missing is what
  was announced; status events chain up; folding loses no severity and happens once per day.
* Scheduler: polls keep coming whatever they raise; an accepted request is followed by a poll.
* API: a mixed answer never invents a missing disk, nor hides one.
* Listeners: Home Assistant and the mailbox tell what the database tells, over failed polls,
  saves that raise and restarts.
* Discovery: every published disk has its entities, and only one set; availability recovers.
* Collector: it ends; no source hides a better one; a host on which anything breaks costs no
  other host its result, and is itself never saved with only some of its disks.
* Key store: the identity stays once somebody has seen it; a host is trusted with its first
  key until it is forgotten; the files stay readable.
* Repair: no value is rescaled twice; what should be is.
* Web UI: the page shown is the one the user is at, and it catches up with the server.
* Evaluation: "rising" and "persisting" hold over time; worse readings get no better status.

## 2. The modules

### Storage and StorageProperties

A host is its position in the configuration, a time a natural number, `Never` stands for SQL's
NULL. `disks[k].lastSeen = Never` means that there is no row. Of a reading only the evaluated
severity is kept; event rows are kept in two sequences per disk, `presence` and `statusLog`.

| Action | Code |
|---|---|
| `Collect` | `collect_all`: every host is asked, answers or fails, and its result is stamped with its own start |
| `SaveFailure(h)`, `SaveSuccess(h)` | `Storage.save` for the next pending result, one transaction |
| `Rollup` | `Storage.rollup`, which the scheduler calls between two polls |
| `Abandon` | a restart (perhaps with other exclusions), or a save that raises and drops the rest of the poll |

The clock may be set back between polls if `Gaps` has negative numbers. `Rollup` may happen
between any two polls, which is more often than once a day: what holds then holds for the
daily one. Disks live where `Homes` allows; a disk key without the host in its name may roam.

Presence is the abstract specification: each disk is unseen, present or missing, every
disappearance and every return is told once, at the moment it is noticed, and nothing else is
told. `Seen` computes that state from the tables as the API does, `presence` is what was told,
and `AnnouncesPresence` says that Storage implements Presence under this mapping.

### TwoWriters

Storage with `vmware-disk-health collect` beside the service. SQLite runs one transaction at a
time, but `save` reads `last_success` before its transaction, so a save is `ReadPrevious(w)`
and then `CommitSuccess(w, h)` or `CommitFailure(w, h)`, which decides with the value read
(`Deciding`, an instance of Storage with that value in the host's row). `held` is what the
command has collected and not saved. `Prompt` is an assumption: no result waits longer than a
day to be saved. `raced` remembers that a save came between the two steps of another, or that
an older result was saved after a newer one.

### Upgrade

One drive that counts in units of 32 MiB, from its first sample by an old release to this one.
A reading is stored as the installed release reads it (`Written`, `Wear`); `Check`, `Load`
and `Commit` are the steps of `Storage.__init__`, by several processes that may die in between.
`basis` is the reading the repair went by. Bytes are counted in sectors, so the factor is 64
here and 65536 in the code; `UpgradeAssumption` says that the drive has not been written so
often since its first sample that the two units overlap.

### KeyStore and Pins

The event loop, worker threads and processes of the command line, each in the middle of at
most one operation. The identity: generate, create the file (`O_EXCL`), fill it. The pins:
look (`Meet`), read, change the copy, open the temporary file (which truncates it), write,
rename. An open file follows its name when it is renamed (`Renamed`), two writers of one file
may leave a mixture (`Overlay`), any call may fail and any process die (`Stop`). Pins is the
abstract specification: trust on first use, refuse other keys, forget. `overlapped` remembers
that two rewrites were under way at once.

### WebUi

One browser tab. `requests` are those under way, oldest first; the server answers each at some
moment with what it has then (`Answer`), and the answer is handled at a later one (`Arrives`),
in any order. `store.refreshTimer` may lose a running timer (`strays`). A request remembers
whether the page it will draw on is still there (`live`); switching the language builds a new
one. What is drawn is reduced to which page it is and when the disks on it were seen.

### Monitor

`_run` statement by statement (`pc`), and `trigger` in its two steps, asking and setting the
event. `asyncio.Event` is not thread-safe, so `wait` is two steps too (look at the flag,
register a future): a wake-up from a worker thread may fall in between and is then lost until
the timeout. `accepted` and `overslept` are history variables: where the scheduler was when
it said True, and whose request waited for the timeout.

### ApiReads

Extends Storage by one request at a time: `state` reads hosts, last-seen times and disks in
three steps, `disk_detail` reads the disk, the hosts and the last-seen times. Scheduler steps
fall in between. `ever`, `always` and `known` remember what was true during the request.

### Delivery

Extends Storage by the listeners: `SaveNext`, `Publish`, `NotifyDisk(k)`, `NotifyHost`, with
`SaveRaises` and `Restart` possible in between. `hand` holds the changes that are on their
way. `behind` and `untold` remember what a restart caught there, so that the properties say
exactly how much may be lost.

### Evaluation and Trend

Evaluation is `evaluate` as operators, one per group of rules; a value is a natural number or
`None`, messages are left out. Trend polls one drive: reallocated and pending sectors change,
a poll is evaluated against the oldest sample of the window and the reading of the poll
before, then saved; `Rollup` deletes samples.

### Discovery

The publisher's `_announced`, `_retired` and `_uniques` against a broker that keeps retained
messages, queues of the client, lost connections, wills, and processes that stop or crash.
The entities of a disk are announced together and stand under one id. A disk is published in
one step; that `_on_connect` can run in the middle of it is a hazard without a property.
`reappeared` remembers the disks that were announced under an old id again after it had been
withdrawn.

### Collector

One host from the connection to its HostResult, poll after poll. `todo` is what a disk still
has to ask, in the order of `collect_disk`: smartctl, or the NVMe identity and log, then the
native table. A command waits for one of `Slots` (the semaphore of `_exec`), is asked as JSON
and again as text where `esxcli` does so, and answers with any part of what its source
provides. The listings of the host, which run alone, are one step each. A value is the name
of its source, which is all that merging needs. `Fail` is `collect_host`'s except branch:
connecting, the required device list, or any exception on the way.

### HostPoll

What Collector leaves open: several hosts, the tasks of their disks one by one, and the loop
of `poll` that saves the results. `stage[h]` is how far `collect_host` is, `task[h][d]` what
became of the task of a disk: it returns, or raises. `Collects` and `Breaks` are the two ends
of the inner `gather`, which hands on the first exception while other tasks still run; these
may end later, when nobody waits for them (`Returns`, `Raises` at any stage). `Gathered` is the
outer one, `Save` and `SaveRaises` the loop, `CancelPoll` a stop. `broken` remembers on which
hosts anything raised. So the result a host is saved with is put together from what its tasks
did, and the property compares it with what was remembered on the way. What a disk's task does
is Collector.

### Polling

Composes Monitor and HostPoll. What is one step of the scheduler in Monitor, a poll that
succeeds or fails, is here the collecting and saving of all hosts: `PollBegins` and
`PollReturns` or `PollRaises` are steps of both modules at once, what lies between them is a
step of HostPoll alone, and requests come in meanwhile. Stopping cancels a running poll.

## 3. Runs

| Run | Instance | What it shows |
|---|---|---|
| `storage_history` | 1 disk, severities OK and CRITICAL, days of 2 ticks, 1 day of retention, 7 ticks, the service and a command | status events are complete; no severity is forgotten; no day is split or folded twice; presence holds unless two saves cross |
| `scheduler_liveness` | Polling: 2 requests at once, 2 hosts, one with up to 2 disks | polls end and keep coming, requests are served, and late only if accepted in one of four places; every host is saved as what it was whatever the others do, failed if anything of it raised, else with all its disks |
| `scheduler_trigger` (violation) | 3 requests | a request accepted during a rollup is dropped by `_wake.clear()` |
| `api_reads` | 2 hosts with a disk each, 3 polls around one request | a mixed answer never invents or hides a missing disk that was known before |
| `trend_counters` | hard disk or SSD, 4 polls, gaps inside and outside the window | rising stays for the window, persisting means twice, status is monotone |
| `discovery_broker` | 2 disks with one serial number | published disks have entities after any loss, and one set of them; availability recovers |
| `collector_host` | a SATA drive, an NVMe drive, an excluded stick, 1 slot | a collection ends; priorities hold whatever fails |
| `delivery_pipeline` | 2 hosts, 1 disk, severities OK, UNKNOWN, CRITICAL, 4 polls, 1 restart anywhere | retained states, mailbox and events agree; the two presence events take turns; the API's missing disks are the announced ones; Presence is implemented |
| `delivery_channels` (violation) | 3 channels | only mail is told of a missing disk |
| `keystore` | 2 hosts, 2 keys, the event loop, a worker, a command; 2 of them busy at once | the identity is kept; pins stay readable and trust on first use holds while no two rewrites overlap |
| `upgrade` | 5 samples, 4 releases, 2 processes | nothing is rescaled twice, the repair is complete if it went by a reading in bytes |
| `web_tab` | 2 disks, 2 pages that load once, 1 poll, 2 clicks, 1 failure | the page belongs to the route and catches up with the server; refreshes keep coming |

The type invariants of ApiReads, Delivery, Discovery, HostPoll (`PollTypeOK`, in its proof),
Monitor, Trend, TwoWriters and WebUi document
their variables and are not part of a run; those of all but ApiReads are proved, in theorems
of their own or within the invariants of others.

### Bounds, and why they are enough

* Presence: what save decides about a disk depends on one host row and one disk row. Four
  polls allow seen, gone, still gone, back, and back, gone again, with failures and saves that
  raise in between; `PresenceCorrect` is the statement for any number of disks and polls.
* History: with days of two ticks a day has a first and a last sample, and seven ticks give a
  day that is folded, one that is about to be, and one that is kept. `MaxClock` bounds polls.
  Two writers and one host are enough for saves to cross, in both orders. One command saves
  at most one result of each host at a time, so a second command would bring nothing new.
* Upgrade: a drive written six times over in five samples has values on both sides of the
  fifth and of the 1.01 that the repair tests. The factor only has to exceed that growth.
* KeyStore is finite. `TwoAtOnce` lets two of the three actors be busy at once; a third one
  only makes overlaps, which end what the properties promise. The theorems have no bound.
* WebUi: with one poll, one failure and two requests at once (three when an answer asks for
  another) answers of before and after the poll overtake each other; two clicks lead to a
  page and back, or to another page and its language.
* API: three polls during and around one request cover a disk that vanishes, stays away and
  comes back between any two reads.
* Trend: four polls have an increase at the second and look two polls ahead; the window of two
  ticks lies between the gaps 1 and 3, so a poll may find the baseline, lose it, or fall back
  to the last reading. One profile is healthy with an estimated wear and a spare, one too hot with a
  measured wear; each is compared with the readings that are worse in one value.
* Discovery is finite: two disks that share a serial number give every claim on an id.
* Delivery: four polls let a disk go, stay away, return and change its status once more;
  `MaxRestarts = 1` because everything a restart forgets is forgotten by the first one.
* Collector is finite. With one slot for two disks one always waits; the code has three for any
  number. The stick is excluded by the configuration and is never asked.
* Polling is finite. Two requests are needed for one to find the flag set by another. The
  first host has two disks, so that one can raise while the other still runs; the second
  breaks, or answers without a disk, before, between or after the steps of the first. The
  theorems have no bound on either.

Each passing property has a mutant (EachHostForItself two, within a host and across hosts): a
definition changed the way a plausible bug would, under
which the property fails in the same run. They stand next to the definitions they replace.

### Fairness

* Polling: `WF_systemVars(Running)`. The event loop goes on with whatever of `_run` and of the
  hosts is ready: SSH connections and commands, SQLite and the listeners have timeouts, `close`
  waits for nobody, and the sleep is bounded by the interval. No fairness for requests, for a
  save that raises, for stopping or for `DayPasses`. The application may be stopped for good,
  so the runs of Polling and Monitor do not check for deadlock.
* Discovery: `WF_vars(PublishDisk)`, a started publish goes on, and `SF_vars(Finish)`, because
  the scheduler starts another one after every interval, also if the connection comes and
  goes. Nothing is assumed about the broker or the connection.

* Collector: `WF_vars(Step)`. Connecting and every command end by their timeouts
  (`transport.py:137`, `collector.py:57`), and the event loop runs what is ready. No fairness
  for failures or for the next poll.
* WebUi: `WF_vars(Refresh)`, timers go off, and weak fairness of the answer to the oldest
  request and of its handling: a request ends by an answer or by the browser giving up. No
  fairness for the user, for polls or for failures.

The other modules state safety only.

### What the violations say

* `service.py:73`: `polling` is already down while rollup runs, `trigger` answers True, and
  the loop then clears the event.
* `alerts.py:24`: the priority table has no UNKNOWN, the severity of every missing disk; ntfy
  and Gotify raise, and `return_exceptions` discards it.

### Limits of the code that the properties leave out

Each property says in its premise what it leaves out. What the code does there:

* *Saving.* A save that raises ends the poll for the hosts after it in the configuration as
  well (`service.py:97`); they are asked again in the next poll. EachHostForItself then speaks
  of the hosts before it only.
* *Presence.* "Returned" is derived from times alone, so it is also announced for a disk that
  moved to another host (`storage.py:244`) or was excluded for a while. Two saves that cross
  (`raced`) may announce a disk missing twice, or a disk that is back as missing; a result
  saved after a newer one sets `last_success` back.
* *Mail.* Only the status right before decides whether a change is a recovery
  (`alerts.py:50`): critical, no data, healthy is not reported.
* *Discovery.* A disk is withdrawn under its old id once per process, but announced again under
  it whenever smartctl does not answer (`mqtt.py:372`; `reappeared`).
* *Pins.* Two rewrites at once go through one temporary file (`transport.py:75`;
  `overlapped`): a pin may be lost, one rewrite fails because the other has renamed the file,
  and known_hosts.json may be left truncated or mixed, which the comment at line 72 wants to
  rule out; then every connection fails until somebody removes it. A crash between creating
  and filling `id_ed25519` leaves an empty file that no later start replaces: that is why the
  run does not check for deadlock. Nothing is synced to disk; a crash of the machine is not
  modelled.
* *Repair.* Upgraded directly from a release before 26.09.22.1, the stored reading is in the
  old unit, no sample fits, and the version is set for good (`storage.py:140`). Upgraded from
  26.09.22.1, it still has the wear of 0 %, which stays. If the last reading has no wear, wear
  that smartctl had measured is cleared with the rest (`storage.py:149`).
* *Web UI.* The error of the events or setup page is shown even if the user has left
  (`app.js:948`, `:1021`). A disk's page is loaded again only if `last_seen` differs from
  that of the answer before, which may be of another disk of the same host: an error may stay
  until the next poll, and so may a page that was loading when the language was switched
  (`torn`). A disk that goes missing keeps its `last_seen`, so its open page does not say so.
  Two answers about the ranges of a chart may overtake each other (`app.js:725`).
* *API.* A disk first saved between the reads of one request is called missing by that answer
  (`api.py:103-105`), which is why the ApiReads properties speak of disks known before.
* *Trend.* An increase first noticed after an outage longer than the window is "rising" for
  one poll only, because the baseline falls back to the reading before (`storage.py:171`).

## 4. Proofs

No theorem has a bound on the number of hosts, disks, polls, samples, messages, restarts,
threads or processes. What an instance of TLC needs beyond that are the assumptions of the
modules:

* `StorageAssumption`, `CollectorAssumption` and `DeliveryAssumption` only give the constants
  their types (Delivery: the floor is WARNING or CRITICAL, as `config.py` has it).
* `KeyStoreAssumption` says that no key, host or actor is `None`, and that an empty or torn
  file is not a readable one.
* `DiscoveryAssumption` says that a disk key is neither the empty payload nor "no message".
* `UpgradeAssumption` says that the drive is never written so often that the two units overlap.
* `TrendAssumption` gives types, a day some length and every profile a source that answered.
* `HostPollAssumption` says that there is a host and that every host has its set of disks.
* `WebUiAssumption` says that pages have different names, none of which is that of a request
  for the list.

StorageUsersProofs has one part for each of TwoWriters, ApiReads and Delivery, which share the
lemmas of StorageProofs; LoopsProofs has one each for Monitor, HostPoll and WebUi,
and `PollingIsBoth`, through which those of the first two hold of Polling.

| Theorem | Assumes | Says |
|---|---|---|
| `StorageProofs!TypeCorrect` | nothing | `[]TypeOK` |
| `StorageProofs!PresenceCorrect` | `SteadyWorld` | `[](PresenceAlternates /\ MissingIffAnnounced)` |
| `StorageProofs!MissingCorrect` | `SteadyWorld` | `[]MissingIffAnnounced` |
| `StorageProofs!PresenceImplemented` | `SteadyWorld` | `AnnouncesPresence`: Storage implements Presence |
| `StorageProofs!StatusLogCorrect` | nothing | `[]StatusLogIsComplete` |
| `StorageProofs!NoDaySplit` | `SteadyClock` | `[]NoDayIsSplit` |
| `StorageProofs!FoldedDaysStay` | `SteadyClock` | `FoldedDayIsFinal`, an action property |
| `StorageProofs!NoSeverityLost` | `SteadyClock` | `[]NoSeverityIsForgotten` |
| `StorageUsersProofs!WritersStatusLog` | nothing | `[]StatusLogIsComplete` for two writers |
| `StorageUsersProofs!WritersNoDaySplit` | `SteadyClock` | `[]NoDayIsSplit` for two writers |
| `StorageUsersProofs!WritersFoldedDaysStay` | `SteadyClock` | `FoldedDayIsFinal` for two writers |
| `StorageUsersProofs!WritersNoSeverityLost` | `SteadyClock` | `[]NoSeverityIsForgotten` for two writers |
| `StorageUsersProofs!PresenceCorrectUnlessRaced` | `SteadyWorld` | `[]PresenceUnlessRaced` |
| `StorageUsersProofs!MissingTold` | nothing | `[]MissingIsTold` |
| `StorageUsersProofs!MissingTrue` | `SingleHome`, `SteadyClock` | `[]MissingWasTrue` |
| `StorageUsersProofs!PipelineIsStorage` | nothing | `Spec`: the pipeline implements Storage |
| `StorageUsersProofs!PipelineAnnouncesPresence` | `SteadyWorld` | `AnnouncesPresence` for the pipeline |
| `StorageUsersProofs!TopicsMatch` | `SteadyWorld` | `[]RetainedMatchesStorage` |
| `StorageUsersProofs!SuccessKept` | nothing | `[]HostTopicKeepsSuccess` |
| `StorageUsersProofs!HostMailTakesTurns` | nothing | `[]HostMailAlternates` |
| `StorageUsersProofs!MailTellsTheEvents` | lowest floor, recoveries on | `[]MailMatchesEvents` |
| `StorageUsersProofs!RecoveryIsEarned` | nothing | `[]RecoveryFollowsAlert` |
| `UpgradeProofs!UpgradeTypeCorrect` | nothing | `[]TypeOK` |
| `UpgradeProofs!RepairOnce` | nothing | `[]RescaledAtMostOnce` |
| `UpgradeProofs!RepairDone` | nothing | `[]RepairIsComplete` |
| `UpgradeProofs!WearCleared` | nothing | `[]NoMeaninglessWear` |
| `CollectorProofs!CollectorTypeCorrect` | nothing | `[]TypeOK`: also that no slot is lost |
| `CollectorProofs!BestSourceCounts` | nothing | `[]MergedByPriority` |
| `KeyStoreProofs!KeyStoreTypes` | nothing | `[]TypeOK` |
| `KeyStoreProofs!IdentityKept` | nothing | `[]IdentityIsKept` |
| `KeyStoreProofs!PinsReadable` | nothing | `[]PinsStayReadable` |
| `KeyStoreProofs!PinsImplemented` | nothing | `TrustOnFirstUse`: KeyStore implements Pins until two rewrites overlap |
| `DiscoveryProofs!DiscoveryTypeCorrect` | nothing | `[]TypeOK` |
| `DiscoveryProofs!PublishedIsThere` | nothing | `[]FreshIsAnnounced` |
| `DiscoveryProofs!KeysAreWithdrawn` | nothing | `[]NoDuplicates` |
| `TrendProofs!NoBetterStatus` | nothing | a reading that is worse in any of its values has no better status |
| `TrendProofs!WorseReadingsRankNoBetter` | nothing | `[]StatusIsMonotone` |
| `TrendProofs!IncreaseStaysNoticed` | nothing | `[]RisingStays` |
| `TrendProofs!SecondSightingIsCritical` | nothing | `[]PersistingIsTwice` |
| `TrendProofs!TrendTypeCorrect` | nothing | `[]TypeOK` |
| `LoopsProofs!SchedulerTypeCorrect` | nothing | `[]LoopTypeOK` |
| `LoopsProofs!LateAnswersAreKnown` | nothing | `[]LateOnlyInBetween` |
| `LoopsProofs!PollingIsBoth` | nothing | every behaviour of Polling is one of Monitor and one of HostPoll |
| `LoopsProofs!HostsStandAlone` | nothing | `EachHostForItself`, an action property |
| `LoopsProofs!PageIsTheRoute` | nothing | `[]PageBelongsToRoute` |

`SteadyWorld` is `SingleHome /\ FixedConfig /\ SteadyClock`: every disk has one host, restarts
do not change the exclusions, the clock is not set back. Each part is needed. A disk that
moves breaks the alternation; so does one that is excluded and included
again, because the time it was excluded counts as absence; and with the clock set back a disk
can be newer than its host's last success forever, and is announced missing at every poll.
The clock also matters for days: a cutoff in the past and samples in a folded day.

The run of MailMatchesEvents has the lowest floor and recoveries on as the theorem asks. With
another floor or without recoveries the code deliberately leaves some of the events out.

*Presence.* PresenceAlternates and MissingIffAnnounced are not inductive: nothing in them says
that a pending result is newer than the rows it will be compared with. `SteadyTables` does:
results are newer than the host's last success, every row sits at the disk's only home, no
row is of an excluded disk, and no disk was seen after its host's last success. With it, a
known disk is shown missing exactly if it was not seen at the last success, so `Gone` can
only fire when the last event is not "missing" and `Back` only when it is; `AppendAlternates`
does the rest.

*Refinement.* A save of a host moves the disks of that host only, each from its state to the
next and with the announcement that Presence asks for; polls, rollups and restarts leave both
sides alone. `StepAnnounced` takes the invariant in both states, because what a disk's new
state is depends on the host row after the step, and what was announced on the rows before.

*Status events.* `Story(k)` must know that a stored disk is never stored as NULL, so the
invariant adds `Stamped`: no pending result carries time 0. A saved disk either appends an
event that starts at its old status (`AppendStory`) or keeps both.

*Days.* `DaysInv` adds that every folded day is before the day of the clock and of every
pending result. Rollup folds days before that of the cutoff and keeps the rest
(`DayBoundary`, an exact statement about integer division), and collecting only brings later
times. That a folded row is never replaced follows: replacing one takes a sample of its day.

*Severities.* A sample can vanish in two ways. A save replaces one with the same disk and
time; `FreshInv` excludes that, since a poll brings later times and no disk twice. Rollup
folds it; then `FoldCovers` finds the row of its day, which needs a last sample of the day
(`LatestTime`, from the well-foundedness of < on the naturals), and the row then stays.

*Two writers.* The lemmas about saving speak of any result that a process records
(`Recorded`, `Timely`), so they serve both writers; `StepKinds` says which of them a step
concerns and leaves two cases instead of eight. What replaces the order of one process is
`TimesInv`: the polls of the two do not overlap in time, so no two results of a host have the
same time, and nothing waits that is from a folded day (`Prompt`). `SteadyInv` keeps the
presence of the tables until `raced`: a commit then decides with the last success that is still
in the table, so that its step is one of Storage (`RecordedPresence`). Status events need none
of that, because the old status is read inside the transaction.

*API answers.* `ToldInv` follows a disk that was missing when the request began and still is:
no save has touched it since, so what was read is what is stored, but for the host's success,
which only grew. `TrueInv` is the other direction: whatever was read of a disk makes it look
missing only if it was at that moment (`Looks`). That needs results newer than the rows they
replace (`RowsInv`), but no fixed configuration.

*Pipeline.* Every step of Delivery is a step of Storage or leaves the database alone, which
brings all theorems of Storage with it. Each property then has an invariant that says what is
owed while a result is in hand. `TopicInv`: before the publisher runs, what it will publish is
what the row says, also for the disks left behind by a restart that this result settles.
`SuccessInv` does the same for the last success. `MailInv`: the event that waits to be mailed
is the last of the table and the mailbox has all others. `AlertInv` follows the status the
channels were last told of (`StatusTold`), which the change in hand starts from: if it is at
the floor or above, an alert was the last they heard. In `HostMailInv` a host that was
reported lost and is not on the notifier's list accounts for one restart that has not shown
in the messages yet. `ShapeOK` says what a disk's changes can look like at all.

*Repair.* `Counted` says that every sample is behind the last reading and the counter, `Opened`
that only this release opens the database. A value in bytes then exceeds anything that fits a
value in units (`BytesDoNotFit`), so a second repair finds nothing to rescale, and a first one
finds everything that is more than a fifth of the reading (`LeftOver`).

*Collector.* `OrderInv`: what a disk has answered so far stands in the order of the sources,
because what is still to be asked is worse than what was. `CommandsOK` counts the slots taken
as the commands running. Merging is a recursive function; that it takes each value from the
first reading that has it (`MergedIsFirstKnown`) is shown by least counterexample
(`LeastNumber`, from the well-foundedness of < on the naturals), as are the facts about
selecting messages in StorageUsersProofs.

*Identity.* That a shown identity is the one in the file is not inductive: somebody might be
about to fill the file with another. `OneCreates` says that whoever has created the file is
alone in that and has left it empty, and an empty file has shown nothing to anybody.

*Pins.* `PinsInv` says, while no two rewrites have overlapped, who is at the pins (one actor at
most, `OneRewrites`) and what it holds (`RewriteInv`): until it writes, its copy is the file
with one pin changed, which had none or had one as pinning or forgetting needs; once it has
written, the temporary file is. So the rename puts a readable file in place that differs by
one Trust or one Forget. An actor that fails or dies leaves only the temporary file behind,
and the next one truncates it.

*Discovery.* What the publisher believes to have announced must be true, but not all of it is.
For a serial number it is (`SerialInv`): only its owner publishes under it, so the retained
configuration is the owner's. For a key it is true or the disk has since moved to a serial
number (`KeyInv`), because withdrawing a key leaves it in `_announced`. `FreshInv` keeps a disk
from being published under another's serial number. All three only speak of a live connection;
`RetiredInv` follows a withdrawn key while the connection is down as well, through the
client's queue, because the withdrawal is not repeated.

*Status.* A finding is outweighed by one at least as severe; if every finding of a reading is
outweighed by one of another, the other's status is no better (`OutweighedStatus`). So the
rules can be taken one by one, each with what it may turn into: a warning gives way to the
critical finding of the same rule (`RulesOutweigh`), resting reallocated sectors to rising
ones. A limit that the drive reports only lowers both limits (`TemperatureOutweighs`), but a
measured wear is not compared with an estimated one (`NoBetter`).

*Counters over time.* RisingStays needs that the baseline is not newer than the last poll
without the increase. `SamplesInv`: every poll within the retention still has its sample, and
there are no samples of anything but polls. The window begins no earlier than the retention
(the premise of RisingStays), and a rollup cuts at the midnight before it (`DayStart`), so
the sample is there; the baseline is then the oldest of the window (`BaselineIsOldest`, from
the least number of a set of naturals), and `PollsInv` says that counts only grow: the
baseline's is the smallest that is known. If the window has no sample, the baseline is the
last poll (`LatestInv`), which is also what pending sectors are compared with.

*Requests for a poll.* That overslept answers come from four places only is not inductive:
`SchedulerInv` adds that the flag of polling is up exactly while `_run` polls, that an answer
given at "start" is served by the poll that follows, and that one given at "wait" leaves the
event set until `wait` has looked at it.

*Hosts of a poll.* EachHostForItself speaks of the steps that end a poll (`EndsAsSaved`).
`HostInv` follows each host up to there: while its disks are asked, it is broken exactly if one
of their tasks has raised; once it has a result, that is final, because a task that still runs
then was left behind by one that raised. `SavedInv` says that what is saved so far is what was collected, of the hosts whose turn
it was. A step of one host leaves the others alone (`OneHost`), so one lemma serves them all.

*Page.* With the types, PageBelongsToRoute is inductive. `Coming` says that an answer is on its
way that will show the page; it survives what is appended (`ComingToo`) and what is taken out
of the middle unless that was it (`StillComing`, from `OthersRemain` about RemoveAt).

Only model-checked: the liveness properties of Polling, Discovery, Collector and WebUi
(PollsKeepComing, AcceptedIsServed, AvailableAgain, CollectionEnds, PageCatchesUp,
RefreshesKeepComing), because fairness and ENABLED are out of the prover's reach, and the two
properties that are violated. Every invariant and every action property that a run checks and
TLC finds true is a theorem.

## 5. What is not modelled

* The parsers of esxcli and smartctl output, endurance ratings, insights, HTML, CSS, charts,
  translations: text, tables and arithmetic without state.
* Reading the configuration: its result appears as constants.
* Rendering of messages, metrics and MQTT payloads beyond which of them is sent.
* The values of a reading beyond severity in Storage (their folding into averages and extremes),
  and `first_seen`.
* Exclusion by model or serial number: the collector matches what esxcli reports, the API what
  smartctl completed, so the two may differ either way (`api.py:84`).
* Lost notifications: the senders do not retry.
* Deployment, images and add-on manifests.

## 6. Plan

Done: Storage, TwoWriters, Upgrade, Monitor, ApiReads, Delivery, Evaluation, Trend, Discovery,
Collector, HostPoll, Polling, KeyStore, WebUi; the abstract specifications Presence and Pins; the theorems above.

Open, if the project goes on: exclusion by what the collector and the API each know of a disk,
`_on_connect` in the middle of a publish (both are hazards without a property), and the values
of a reading in Storage, which are folded into averages and extremes.

Presence needs no instance of its own, because Delivery and ApiReads contain its steps. In the
same way a further question can be asked of the instance of a module that extends the one it
is about.
