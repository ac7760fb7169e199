-------------------------------- MODULE WebUi ---------------------------------
(***************************************************************************)
(* One browser tab (web/app.js): the list is loaded again and again, each  *)
(* page by a request of its own, and answers arrive in any order while the *)
(* user goes from page to page, switches the language or asks for a poll.  *)
(* A page of a disk is only loaded again when the list has another         *)
(* last_seen of the disk than the answer that came last.                   *)
(***************************************************************************)
EXTENDS Naturals, Sequences, SequencesExt

CONSTANTS
  Disks,
  Others,        \* pages that load once: events, setup
  None,          \* null
  MaxPolls,      \* bound: how often the server's data changes
  MaxClicks,     \* bound: what the user does
  MaxFailures,   \* bound: requests that fail
  MaxRequests    \* bound: requests under way at once

ASSUME WebUiAssumption ==
  /\ {"overview", "state", "start", None} \cap (Disks \cup Others) = {}
  /\ Disks \cap Others = {}
  /\ {MaxPolls, MaxClicks, MaxFailures, MaxRequests} \subseteq Nat

Pages == {"overview"} \cup Disks \cup Others

VARIABLES
  seen,        \* the server: when each disk was seen last
  polls,       \* how many polls there were
  route,       \* location.hash
  view,        \* what the page shows
  state,       \* store.state, of which only the disks' last_seen matters
  error,       \* store.error
  detailKey, detailSeen,
  requests,    \* requests under way, oldest first
  timer,       \* store.refreshTimer is running
  strays,      \* timers that run without being store.refreshTimer
  clicks, failures,
  torn         \* the last answer about a disk went to a page that was gone

server == <<seen, polls>>
page == <<route, view, state, error, detailKey, detailSeen, torn>>
bounds == <<clicks, failures>>
vars == <<server, page, requests, timer, strays, bounds>>

NoData == [d \in Disks |-> 0]
Data == [Disks -> Nat]
Views == [page : Pages, how : {"wait", "data", "error"}, data : Data]
Blank(p) == [page |-> p, how |-> "wait", data |-> NoData]
Request(what) == [what |-> what, answer |-> "awaited", data |-> NoData, live |-> TRUE]

TypeOK ==
  /\ seen \in Data /\ polls \in 0..MaxPolls
  /\ route \in Pages
  /\ view \in Views
  /\ state \in Data \cup {None}
  /\ error \in BOOLEAN /\ timer \in BOOLEAN /\ torn \in BOOLEAN
  /\ detailKey \in Disks \cup {None} /\ detailSeen \in Nat \cup {None}
  /\ requests \in Seq([what : (Pages \ {"overview"}) \cup {"state", "start"},
                       answer : {"awaited", "ok", "failed"}, data : Data, live : BOOLEAN])
  /\ strays \in Nat
  /\ clicks \in 0..MaxClicks /\ failures \in 0..MaxFailures

\* start: the shell, and the first refresh.
Init ==
  /\ seen = [d \in Disks |-> 1] /\ polls = 0
  /\ route \in Pages
  /\ view = Blank(route)
  /\ state = None /\ error = FALSE
  /\ detailKey = None /\ detailSeen = None
  /\ requests = <<Request("start")>>
  /\ timer = FALSE /\ strays = 0
  /\ clicks = 0 /\ failures = 0
  /\ torn = FALSE

-----------------------------------------------------------------------------
(* The server and the network *)

\* A poll finds some of the disks.
Poll ==
  /\ polls < MaxPolls
  /\ polls' = polls + 1
  /\ \E found \in SUBSET Disks :
       seen' = [d \in Disks |-> IF d \in found THEN polls + 2 ELSE seen[d]]
  /\ UNCHANGED <<page, requests, timer, strays, bounds>>

AnswerTo(what) ==
  CASE what \in {"state", "start"} -> seen
    [] what \in Disks -> [NoData EXCEPT ![what] = seen[what]]
    [] OTHER -> NoData

Answer(i) ==
  /\ i \in DOMAIN requests /\ requests[i].answer = "awaited"
  /\ \/ /\ requests' = [requests EXCEPT ![i].answer = "ok", ![i].data = AnswerTo(requests[i].what)]
        /\ UNCHANGED failures
     \/ /\ failures < MaxFailures
        /\ failures' = failures + 1
        /\ requests' = [requests EXCEPT ![i].answer = "failed"]
  /\ UNCHANGED <<server, page, timer, strays, clicks>>

-----------------------------------------------------------------------------
(* Rendering *)

Overview(s, e) ==
  IF s = None
  THEN [Blank("overview") EXCEPT !.how = IF e THEN "error" ELSE "wait"]
  ELSE [page |-> "overview", how |-> "data", data |-> s]

\* route: the list is there, a disk has a placeholder unless it was the last
\* disk shown, the other pages leave what is there until they are loaded.
ViewAt(p, shown, s, e) ==
  CASE p = "overview" -> Overview(s, e)
    [] p \in Disks /\ detailKey # p -> Blank(p)
    [] OTHER -> shown

KeyAt(p) == CASE p \in Disks -> p [] p \in Others -> None [] OTHER -> detailKey

Asked(p) == IF p = "overview" THEN <<>> ELSE <<Request(p)>>

\* renderShell: what is under way will be shown on a page that is gone.
TornDown(under) == [i \in DOMAIN under |-> [under[i] EXCEPT !.live = FALSE]]

-----------------------------------------------------------------------------
(* The user *)

Click ==
  /\ clicks < MaxClicks /\ Len(requests) < MaxRequests
  /\ clicks' = clicks + 1

Navigate(p) ==
  /\ Click
  /\ p # route
  /\ route' = p
  /\ view' = ViewAt(p, view, state, error)
  /\ detailKey' = KeyAt(p)
  /\ requests' = requests \o Asked(p)
  /\ UNCHANGED <<server, state, error, detailSeen, torn, timer, strays, failures>>

SetLanguage ==
  /\ Click
  /\ view' = ViewAt(route, Blank(route), state, error)
  /\ detailKey' = KeyAt(route)
  /\ requests' = TornDown(requests) \o Asked(route)
  /\ UNCHANGED <<server, route, state, error, detailSeen, torn, timer, strays, failures>>

\* Whatever POST /api/poll answers, the list is loaded after 800 ms.
PollNow ==
  /\ Click
  /\ strays' = strays + 1
  /\ UNCHANGED <<server, page, requests, timer, failures>>

-----------------------------------------------------------------------------
(* refreshState *)

\* Mutant: the list is only loaded while it is shown.
RefreshOverview ==
  /\ Len(requests) < MaxRequests
  /\ timer
  /\ timer' = (route # "overview")
  /\ requests' = IF route = "overview" THEN Append(requests, Request("state")) ELSE requests
  /\ UNCHANGED <<server, page, strays, bounds>>

\* The recorded timer is cleared, also when it is another one that fired.
Refresh ==
  /\ Len(requests) < MaxRequests
  /\ timer \/ strays > 0
  /\ timer' = FALSE
  /\ strays' \in (IF timer THEN {strays} ELSE {}) \cup (IF strays > 0 THEN {strays - 1} ELSE {})
  /\ requests' = Append(requests, Request("state"))
  /\ UNCHANGED <<server, page, bounds>>

\* Mutant: a disk's page is loaded again while it has none.
NoticedFirst(s) == route \in Disks /\ s # None /\ detailSeen = None

\* The page of a disk is loaded again if its last_seen has changed.
Noticed(s) == route \in Disks /\ s # None /\ s[route] # detailSeen

\* A timer that is running by now is lost from the record.
RestartTimer == timer' = TRUE /\ strays' = IF timer THEN strays + 1 ELSE strays

\* The list, or an error in its place.  After the first one, start shows the
\* configured language, or the page the browser was opened at.
ListArrives(i) ==
  LET request == requests[i]
      s == IF request.answer = "ok" THEN request.data ELSE state
      e == request.answer = "failed"
      again == IF Noticed(s) THEN <<Request(route)>> ELSE <<>>
      shown == IF route = "overview" \/ Noticed(s) THEN ViewAt(route, view, s, e) ELSE view
      under == RemoveAt(requests, i) \o again
  IN
  /\ i \in DOMAIN requests
  /\ request.what \in {"state", "start"} /\ request.answer # "awaited"
  /\ state' = s /\ error' = e
  /\ \/ /\ request.what = "state"
        /\ view' = shown
        /\ detailKey' = IF Noticed(s) THEN route ELSE detailKey
        /\ requests' = under
     \/ /\ request.what = "start"
        /\ view' = ViewAt(route, shown, s, e)
        /\ detailKey' = KeyAt(route)
        /\ requests' = under \o Asked(route)
     \/ /\ request.what = "start" /\ s # None
        /\ view' = ViewAt(route, Blank(route), s, e)
        /\ detailKey' = KeyAt(route)
        /\ requests' = TornDown(under) \o Asked(route)
  /\ RestartTimer
  /\ UNCHANGED <<server, route, detailSeen, torn, bounds>>

-----------------------------------------------------------------------------
(* renderDisk, renderEvents, renderSetup *)

Arrived(i) ==
  /\ i \in DOMAIN requests /\ requests[i].answer # "awaited"
  /\ requests' = RemoveAt(requests, i)

Show(i) ==
  IF requests[i].live
  THEN view' = [page |-> requests[i].what, data |-> requests[i].data,
                how |-> IF requests[i].answer = "ok" THEN "data" ELSE "error"]
  ELSE UNCHANGED view

\* Mutant: shown wherever the user is by now.
DiskArrivesAnywhere(i) ==
  /\ Arrived(i)
  /\ requests[i].what \in Disks
  /\ Show(i)
  /\ IF requests[i].answer = "ok"
     THEN detailSeen' = requests[i].data[requests[i].what] /\ torn' = ~requests[i].live
     ELSE UNCHANGED <<detailSeen, torn>>
  /\ UNCHANGED <<server, route, state, error, detailKey, timer, strays, bounds>>

DiskArrives(i) ==
  /\ Arrived(i)
  /\ requests[i].what \in Disks
  /\ IF route = requests[i].what
     THEN /\ Show(i)
          /\ IF requests[i].answer = "ok"
             THEN detailSeen' = requests[i].data[route] /\ torn' = ~requests[i].live
             ELSE UNCHANGED <<detailSeen, torn>>
     ELSE UNCHANGED <<view, detailSeen, torn>>
  /\ UNCHANGED <<server, route, state, error, detailKey, timer, strays, bounds>>

\* An error is shown without looking where the user is.
OtherArrives(i) ==
  /\ Arrived(i)
  /\ requests[i].what \in Others
  /\ IF requests[i].answer = "failed" \/ route = requests[i].what THEN Show(i) ELSE UNCHANGED view
  /\ UNCHANGED <<server, route, state, error, detailKey, detailSeen, torn, timer, strays, bounds>>

Arrives(i) == ListArrives(i) \/ DiskArrives(i) \/ OtherArrives(i)

Next ==
  \/ Poll
  \/ \E i \in DOMAIN requests : Answer(i) \/ Arrives(i)
  \/ \E p \in Pages : Navigate(p)
  \/ SetLanguage \/ PollNow
  \/ Refresh

\* Every request ends, one way or the other, timers go off, and the browser
\* runs what is ready.
Spec == Init /\ [][Next]_vars /\ WF_vars(Answer(1)) /\ WF_vars(Arrives(1)) /\ WF_vars(Refresh)

-----------------------------------------------------------------------------
\* The error of a page that the user has left meanwhile.
Intruder == view.how = "error" /\ view.page \in Others \ {route}

\* What is shown is the page the user is at, unless that is still loading: an
\* answer that comes late never replaces the page the user has gone on to.
\* Except for the errors of the pages that load once.
PageBelongsToRoute ==
  \/ view.page = route
  \/ \E i \in DOMAIN requests : requests[i].what = route /\ requests[i].live
  \/ Intruder

\* Once nothing changes any more, the page shows what the server has, however
\* answers overtook one another and whatever failed before.  An error on a
\* disk's page may stay if the last answer about a disk, which may be another
\* one, had the same last_seen; and a page that was loading when the language
\* was switched may stay behind.
UpToDate ==
  CASE route = "overview" -> view = Overview(seen, FALSE)
    [] route \in Disks ->
         \/ /\ view.page = route /\ view.how = "data"
            /\ torn \/ view.data[route] = seen[route]
         \/ /\ view.how = "error" \/ torn
            /\ detailSeen = seen[route]
    [] OTHER -> Intruder \/ (view.page = route /\ view.how # "wait")
PageCatchesUp == <>[]UpToDate

\* The list is loaded again and again, whatever fails.
RefreshesKeepComing == []<>(\E i \in DOMAIN requests : requests[i].what = "state")
=============================================================================
