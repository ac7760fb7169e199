------------------------------- MODULE KeyStore -------------------------------
(***************************************************************************)
(* The files under data_dir/ssh (transport.py): the app's own SSH key,     *)
(* made by whoever needs it first, and the pinned host keys, rewritten as  *)
(* a whole through one temporary file.  The event loop connects, worker    *)
(* threads of the web server forget and show keys, and each command line   *)
(* is a process of its own; no lock keeps them apart.                      *)
(*                                                                         *)
(* A file that is open when it is renamed stays open under its new name;   *)
(* once another file takes that name, what is written to it is lost.       *)
(***************************************************************************)
EXTENDS FiniteSets

CONSTANTS
  Hosts, Keys,        \* host_id of each host; the keys a host may present
  Loop,               \* the service's event loop
  Workers,            \* the service's worker threads
  Commands,           \* processes of the command line: collect, pubkey, forget-host-key
  None,               \* no key, no file
  Empty, Torn         \* a truncated file; one that two writes left mixed

Actors == {Loop} \cup Workers \cup Commands
Clients == {Loop} \cup Commands     \* those that connect to hosts

ASSUME KeyStoreAssumption ==
  /\ None \notin Keys \cup Hosts \cup Actors \cup [Hosts -> Keys \cup {None}]
  /\ Empty # Torn /\ {Empty, Torn} \cap [Hosts -> Keys \cup {None}] = {}
  /\ {Empty, Torn} \cap (Actors \cup {None}) = {}

VARIABLES
  identity,    \* id_ed25519: None, Empty, or the actor whose key it holds
  shown,       \* the identities used or printed so far
  known,       \* known_hosts.json; no file reads as no pins
  temp,        \* known_hosts.tmp
  work,        \* what each actor is in the middle of
  met,         \* the keys accepted from each host since it was last forgotten
  overlapped   \* two rewrites of known_hosts.json have been under way at once

vars == <<identity, shown, known, temp, work, met, overlapped>>
pinVars == <<known, temp, met, overlapped>>
identityVars == <<identity, shown>>

NoPins == [h \in Hosts |-> None]
Texts == [Hosts -> Keys \cup {None}]
Idle == [at |-> "idle", host |-> None, key |-> None, text |-> Empty, file |-> "none"]
Rewriting == {"pinning", "writing", "opened", "written"}
Places == {"idle", "generated", "created"} \cup Rewriting

TypeOK ==
  /\ identity \in Actors \cup {None, Empty}
  /\ shown \subseteq Actors
  /\ known \in Texts \cup {Empty, Torn}
  /\ temp \in Texts \cup {Empty, Torn, None}
  /\ work \in [Actors -> [at : Places, host : Hosts \cup {None}, key : Keys \cup {None},
                          text : Texts \cup {Empty}, file : {"none", "temp", "known", "gone"}]]
  /\ met \in [Hosts -> SUBSET Keys]
  /\ overlapped \in BOOLEAN

Init ==
  /\ identity = None
  /\ shown = {}
  /\ known = NoPins
  /\ temp = None
  /\ work = [a \in Actors |-> Idle]
  /\ met = [h \in Hosts |-> {}]
  /\ overlapped = FALSE

-----------------------------------------------------------------------------
(* private_key *)

\* The key file does not exist: a key is generated in memory.
Generate(a) ==
  /\ work[a].at = "idle" /\ identity = None
  /\ work' = [work EXCEPT ![a].at = "generated"]
  /\ UNCHANGED <<identityVars, pinVars>>

\* Mutant: the key file is opened as any other, without O_EXCL.
CreateAnyway(a) ==
  /\ work[a].at = "generated"
  /\ identity' = Empty
  /\ work' = [work EXCEPT ![a].at = "created"]
  /\ UNCHANGED <<shown, pinVars>>

\* O_EXCL: when somebody else was faster, FileExistsError ends the attempt.
Create(a) ==
  /\ work[a].at = "generated"
  /\ IF identity = None
       THEN /\ identity' = Empty
            /\ work' = [work EXCEPT ![a].at = "created"]
       ELSE /\ work' = [work EXCEPT ![a] = Idle]
            /\ UNCHANGED identity
  /\ UNCHANGED <<shown, pinVars>>

Fill(a) ==
  /\ work[a].at = "created"
  /\ identity' = a
  /\ work' = [work EXCEPT ![a] = Idle]
  /\ UNCHANGED <<shown, pinVars>>

\* The key is printed, shown on the setup page or used to log in.  An empty
\* file is not a key: the import fails.
ReadIdentity(a) ==
  /\ work[a].at = "idle" /\ identity \in Actors
  /\ shown' = shown \cup {identity}
  /\ UNCHANGED <<identity, work, pinVars>>

-----------------------------------------------------------------------------
(* validate_host_public_key, pin and forget *)

\* a starts to rewrite the pins while somebody else is still at it.
Overlap(a) == \E b \in Actors \ {a} : work[b].at \in Rewriting

\* A host presents k.  A pinned key settles it, one way or the other, and an
\* unreadable file fails the connection.
Meet(a, h, k) ==
  /\ work[a].at = "idle" /\ identity \in Actors
  /\ known \in Texts
  /\ \/ /\ known[h] = None
        /\ work' = [work EXCEPT ![a].at = "pinning", ![a].host = h, ![a].key = k]
        /\ overlapped' = (overlapped \/ Overlap(a))
        /\ UNCHANGED met
     \/ /\ known[h] = k
        /\ met' = [met EXCEPT ![h] = @ \cup {k}]
        /\ UNCHANGED <<work, overlapped>>
  /\ UNCHANGED <<identityVars, known, temp>>

\* Mutant: the new key is written without the others.
Alone(text, h, k) == [NoPins EXCEPT ![h] = k]
With(text, h, k) == [text EXCEPT ![h] = k]

\* pin reads the file once more, and changes its copy.
ReadToPin(a) ==
  /\ work[a].at = "pinning" /\ known \in Texts
  /\ work' = [work EXCEPT ![a].at = "writing",
                          ![a].text = With(known, work[a].host, work[a].key)]
  /\ UNCHANGED <<identityVars, pinVars>>

ReadToForget(a, h) ==
  /\ work[a].at = "idle"
  /\ known \in Texts /\ known[h] # None
  /\ work' = [work EXCEPT ![a].at = "writing", ![a].host = h,
                          ![a].text = With(known, h, None)]
  /\ overlapped' = (overlapped \/ Overlap(a))
  /\ UNCHANGED <<identityVars, known, temp, met>>

\* Mutant: known_hosts.json itself is opened and written.
OpenInPlace(a) ==
  /\ work[a].at = "writing"
  /\ known' = Empty
  /\ work' = [work EXCEPT ![a].at = "opened", ![a].file = "known"]
  /\ UNCHANGED <<identityVars, temp, met, overlapped>>

\* write_text opens the temporary file, which truncates it ...
Open(a) ==
  /\ work[a].at = "writing"
  /\ temp' = Empty
  /\ work' = [work EXCEPT ![a].at = "opened", ![a].file = "temp"]
  /\ UNCHANGED <<identityVars, known, met, overlapped>>

\* ... and writes from its start: over what another writer put there since, and
\* if that was longer, its end remains.
Overlay(under, text) == IF under \in {Empty, text} THEN {text} ELSE {text, Torn}

Write(a) ==
  /\ work[a].at = "opened"
  /\ work' = [work EXCEPT ![a].at = "written", ![a].text = Empty]
  /\ CASE work[a].file = "temp"  -> temp' \in Overlay(temp, work[a].text) /\ UNCHANGED known
       [] work[a].file = "known" -> known' \in Overlay(known, work[a].text) /\ UNCHANGED temp
       [] OTHER                  -> UNCHANGED <<known, temp>>
  /\ UNCHANGED <<identityVars, met, overlapped>>

Renamed(file) == CASE file = "temp" -> "known" [] file = "known" -> "gone" [] OTHER -> file

\* Mutant: whatever is there is removed first, and then the file renamed.
ReplaceRemoving(a) ==
  /\ work[a].at = "written"
  /\ known' = temp /\ temp' = None
  /\ work' = [b \in Actors |-> IF b = a THEN Idle
                ELSE [work[b] EXCEPT !.file = Renamed(@)]]
  /\ met' = [met EXCEPT ![work[a].host] =
               IF work[a].key = None THEN {} ELSE @ \cup {work[a].key}]
  /\ UNCHANGED <<identityVars, overlapped>>

\* replace: a new pin is now accepted, a forgotten host may show any key.  When
\* another writer has renamed the temporary file, FileNotFoundError.
Replace(a) ==
  /\ work[a].at = "written"
  /\ IF temp = None
       THEN /\ work' = [work EXCEPT ![a] = Idle]
            /\ UNCHANGED <<known, temp, met>>
       ELSE /\ known' = temp /\ temp' = None
            /\ work' = [b \in Actors |-> IF b = a THEN Idle
                          ELSE [work[b] EXCEPT !.file = Renamed(@)]]
            /\ met' = [met EXCEPT ![work[a].host] =
                         IF work[a].key = None THEN {} ELSE @ \cup {work[a].key}]
  /\ UNCHANGED <<identityVars, overlapped>>

\* An OSError ends one call, or a process dies with all its threads.
Stop(group) ==
  /\ \E a \in group : work[a] # Idle
  /\ work' = [a \in Actors |-> IF a \in group THEN Idle ELSE work[a]]
  /\ UNCHANGED <<identityVars, pinVars>>

Next ==
  \/ \E a \in Actors :
       \/ Generate(a) \/ Create(a) \/ Fill(a) \/ ReadIdentity(a)
       \/ ReadToPin(a) \/ Open(a) \/ Write(a) \/ Replace(a)
       \/ Stop({a})
  \/ \E a \in Clients, h \in Hosts, k \in Keys : Meet(a, h, k)
  \/ \E a \in Workers \cup Commands, h \in Hosts : ReadToForget(a, h)
  \/ Stop({Loop} \cup Workers)

Spec == Init /\ [][Next]_vars

-----------------------------------------------------------------------------
(* An identity that was shown to somebody, who may have authorised it on the *)
(* hosts, is the one in the file, and stays there: neither a second process  *)
(* that starts at the same time nor a crash replaces it.                     *)
IdentityIsKept == shown \subseteq {identity}

(* transport.py:72: a crash in the middle of a write must not leave a        *)
(* truncated file that makes every later connection fail.  This is so as     *)
(* long as no two rewrites overlap.                                          *)
PinsStayReadable == ~overlapped => known \in Texts

(* The files, step by step and with crashes, do what Pins promises (trust on *)
(* first use, refuse any different key afterwards) as long as no two         *)
(* rewrites overlap: no pin is lost or changed except by forgetting it, and  *)
(* every accepted key is the pinned one.                                     *)
Promise == INSTANCE Pins WITH pin <- known
TrustOnFirstUse == Promise!Init /\ [][~overlapped' => [Promise!Next]_<<known, met>>]_vars
=============================================================================
