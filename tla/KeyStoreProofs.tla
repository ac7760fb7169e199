---------------------------- MODULE KeyStoreProofs ----------------------------
(***************************************************************************)
(* For any number of hosts, keys, threads and processes: the identity is   *)
(* kept, and while no two rewrites of the pins overlap, the file stays     *)
(* readable and every step is one that Pins allows.                        *)
(***************************************************************************)
EXTENDS KeyStore, TLAPS

Steps == [at : Places, host : Hosts \cup {None}, key : Keys \cup {None},
          text : Texts \cup {Empty}, file : {"none", "temp", "known", "gone"}]

(* The variables keep their types. *)
THEOREM KeyStoreTypes == Spec => []TypeOK
<1> USE KeyStoreAssumption
<1>1. Init => TypeOK
  <2>1. Idle \in Steps
    BY DEF Idle, Steps, Places
  <2>2. NoPins \in Texts
    BY DEF NoPins, Texts
  <2> QED
    BY <2>1, <2>2 DEF Init, TypeOK, Steps
<1>2. TypeOK /\ [Next]_vars => TypeOK'
  <2> SUFFICES ASSUME TypeOK, [Next]_vars PROVE TypeOK'
    OBVIOUS
  <2>0. /\ Idle \in Steps /\ work \in [Actors -> Steps]
        /\ NoPins \in Texts /\ Texts = [Hosts -> Keys \cup {None}]
        /\ Rewriting \subseteq Places
    BY DEF Idle, Steps, Places, TypeOK, NoPins, Texts
  <2>a. ASSUME NEW s \in Steps, NEW at \in Rewriting, NEW t \in Texts \cup {Empty},
               NEW h \in Hosts \cup {None}, NEW file \in {"none", "temp", "known", "gone"}
        PROVE /\ [s EXCEPT !.at = at, !.text = t] \in Steps
              /\ [s EXCEPT !.at = at, !.host = h, !.text = t] \in Steps
              /\ [s EXCEPT !.at = at, !.file = file] \in Steps
    BY <2>0 DEF Steps
  <2>b. {"writing", "opened", "written"} \subseteq Rewriting
    BY DEF Rewriting
  <2>1. ASSUME NEW a \in Actors, Generate(a) PROVE TypeOK'
    <3>1. work' \in [Actors -> Steps]
      BY <2>0, <2>1 DEF Generate, Steps, Places
    <3> QED
      BY <2>1, <3>1 DEF Generate, TypeOK, identityVars, pinVars, Steps
  <2>2. ASSUME NEW a \in Actors, Create(a) PROVE TypeOK'
    <3>1. work' \in [Actors -> Steps]
      BY <2>0, <2>2 DEF Create, Steps, Places
    <3> QED
      BY <2>2, <3>1 DEF Create, TypeOK, pinVars, Steps
  <2>3. ASSUME NEW a \in Actors, Fill(a) PROVE TypeOK'
    <3>1. work' \in [Actors -> Steps]
      BY <2>0, <2>3 DEF Fill
    <3> QED
      BY <2>3, <3>1 DEF Fill, TypeOK, pinVars, Steps
  <2>4. ASSUME NEW a \in Actors, ReadIdentity(a) PROVE TypeOK'
    BY <2>4 DEF ReadIdentity, TypeOK, pinVars
  <2>5. ASSUME NEW a \in Actors, ReadToPin(a) PROVE TypeOK'
    <3>1. With(known, work[a].host, work[a].key) \in Texts
      BY <2>0, <2>5 DEF ReadToPin, With, Texts, Steps
    <3>2. work' \in [Actors -> Steps]
      BY <2>0, <2>a, <2>b, <2>5, <3>1 DEF ReadToPin
    <3> QED
      BY <2>5, <3>2 DEF ReadToPin, TypeOK, identityVars, pinVars, Steps
  <2>6. ASSUME NEW a \in Actors, Open(a) PROVE TypeOK'
    <3>1. work' \in [Actors -> Steps]
      BY <2>0, <2>a, <2>b, <2>6 DEF Open
    <3> QED
      BY <2>6, <3>1 DEF Open, TypeOK, identityVars, Steps
  <2>7. ASSUME NEW a \in Actors, Write(a) PROVE TypeOK'
    <3>1. work' \in [Actors -> Steps]
      BY <2>0, <2>a, <2>b, <2>7 DEF Write
    <3>2. \A under : Overlay(under, work[a].text) \subseteq Texts \cup {Empty, Torn}
      BY <2>0, <2>7 DEF Overlay, Steps
    <3>3. known' \in Texts \cup {Empty, Torn} /\ temp' \in Texts \cup {Empty, Torn, None}
      BY <2>7, <3>2 DEF Write, TypeOK
    <3> QED
      BY <2>7, <3>1, <3>3 DEF Write, TypeOK, identityVars, Steps
  <2>8. ASSUME NEW a \in Actors, Replace(a) PROVE TypeOK'
    <3>1. CASE temp = None
      <4>1. work' \in [Actors -> Steps]
        BY <2>0, <2>8, <3>1 DEF Replace
      <4> QED
        BY <2>8, <3>1, <4>1 DEF Replace, TypeOK, identityVars, Steps
    <3>2. CASE temp # None
      <4>1. ASSUME NEW s \in Steps PROVE [s EXCEPT !.file = Renamed(@)] \in Steps
        BY DEF Steps, Renamed
      <4>2. work' \in [Actors -> Steps]
        BY <2>0, <2>8, <3>2, <4>1 DEF Replace
      <4>3. work[a].key \in Keys \cup {None}
        BY <2>0 DEF Steps
      <4>4. met' \in [Hosts -> SUBSET Keys]
        BY <2>8, <3>2, <4>3 DEF Replace, TypeOK
      <4>5. known' \in Texts \cup {Empty, Torn} /\ temp' = None
        BY <2>8, <3>2 DEF Replace, TypeOK
      <4> QED
        BY <2>8, <4>2, <4>4, <4>5 DEF Replace, TypeOK, identityVars, Steps
    <3> QED
      BY <3>1, <3>2
  <2>9. ASSUME NEW group \in SUBSET Actors, Stop(group) PROVE TypeOK'
    <3>1. work' \in [Actors -> Steps]
      BY <2>0, <2>9 DEF Stop
    <3> QED
      BY <2>9, <3>1 DEF Stop, TypeOK, identityVars, pinVars, Steps
  <2>10. ASSUME NEW a \in Clients, NEW h \in Hosts, NEW k \in Keys, Meet(a, h, k) PROVE TypeOK'
    <3>1. a \in Actors /\ Overlap(a) \in BOOLEAN
      BY DEF Clients, Actors, Overlap
    <3>2. work' \in [Actors -> Steps]
      BY <2>0, <2>10, <3>1 DEF Meet, Steps, Places, Rewriting
    <3>3. met' \in [Hosts -> SUBSET Keys]
      BY <2>10 DEF Meet, TypeOK
    <3>4. overlapped' \in BOOLEAN
      BY <2>10, <3>1 DEF Meet, TypeOK
    <3> QED
      BY <2>10, <3>2, <3>3, <3>4 DEF Meet, TypeOK, identityVars, Steps
  <2>11. ASSUME NEW a \in Workers \cup Commands, NEW h \in Hosts, ReadToForget(a, h) PROVE TypeOK'
    <3>1. a \in Actors /\ Overlap(a) \in BOOLEAN
      BY DEF Actors, Overlap
    <3>2. With(known, h, None) \in Texts
      BY <2>0, <2>11 DEF ReadToForget, With, Texts
    <3>3. work' \in [Actors -> Steps]
      BY <2>0, <2>a, <2>b, <2>11, <3>1, <3>2 DEF ReadToForget
    <3>4. overlapped' \in BOOLEAN
      BY <2>11, <3>1 DEF ReadToForget, TypeOK
    <3> QED
      BY <2>11, <3>3, <3>4 DEF ReadToForget, TypeOK, identityVars, Steps
  <2>12. CASE UNCHANGED vars
    BY <2>12 DEF TypeOK, vars
  <2> QED
    BY <2>1, <2>2, <2>3, <2>4, <2>5, <2>6, <2>7, <2>8, <2>9, <2>10, <2>11, <2>12 DEF Next, Actors
<1> QED
  BY <1>1, <1>2, PTL DEF Spec

-----------------------------------------------------------------------------
(* Only one actor can be between making the key file and filling it, and     *)
(* until it has, nobody has seen an identity.                                *)
OneCreates ==
  \A a \in Actors : work[a].at = "created" =>
    /\ identity = Empty
    /\ \A b \in Actors : work[b].at = "created" => b = a

IdentityInv == IdentityIsKept /\ OneCreates /\ (identity \notin Actors => shown = {})

(* An identity that was shown stays in the file. *)
THEOREM IdentityKept == Spec => []IdentityIsKept
<1> USE KeyStoreAssumption
<1>1. Init => IdentityInv
  BY DEF Init, IdentityInv, IdentityIsKept, OneCreates, Idle
<1>2. TypeOK /\ IdentityInv /\ [Next]_vars => IdentityInv'
  <2> SUFFICES ASSUME TypeOK, IdentityInv, [Next]_vars PROVE IdentityInv'
    OBVIOUS
  <2>1. ASSUME UNCHANGED identityVars,
               \A a \in Actors : work'[a].at = "created" => work[a].at = "created"
        PROVE IdentityInv'
    BY <2>1 DEF IdentityInv, IdentityIsKept, OneCreates, identityVars
  <2>2. ASSUME NEW a \in Actors, Generate(a) PROVE IdentityInv'
    BY <2>1, <2>2 DEF Generate, TypeOK
  <2>3. ASSUME NEW a \in Actors, Create(a) PROVE IdentityInv'
    <3>1. CASE identity = None
      <4>1. \A b \in Actors : work'[b].at = "created" => b = a
        BY <2>3, <3>1 DEF Create, TypeOK, IdentityInv, OneCreates
      <4> QED
        BY <2>3, <3>1, <4>1 DEF Create, IdentityInv, IdentityIsKept, OneCreates
    <3>2. CASE identity # None
      BY <2>1, <2>3, <3>2 DEF Create, TypeOK, Idle, identityVars
    <3> QED
      BY <3>1, <3>2
  <2>4. ASSUME NEW a \in Actors, Fill(a) PROVE IdentityInv'
    <3>1. \A b \in Actors : work'[b].at # "created"
      BY <2>4 DEF Fill, TypeOK, Idle, IdentityInv, OneCreates
    <3>2. shown = {} /\ shown' = {} /\ identity' = a
      BY <2>4 DEF Fill, IdentityInv, OneCreates
    <3> QED
      BY <3>1, <3>2 DEF IdentityInv, IdentityIsKept, OneCreates
  <2>5. ASSUME NEW a \in Actors, ReadIdentity(a) PROVE IdentityInv'
    BY <2>5 DEF ReadIdentity, IdentityInv, IdentityIsKept, OneCreates
  <2>6. ASSUME NEW a \in Actors, ReadToPin(a) PROVE IdentityInv'
    BY <2>1, <2>6 DEF ReadToPin, TypeOK
  <2>7. ASSUME NEW a \in Actors, Open(a) PROVE IdentityInv'
    BY <2>1, <2>7 DEF Open, TypeOK
  <2>8. ASSUME NEW a \in Actors, Write(a) PROVE IdentityInv'
    BY <2>1, <2>8 DEF Write, TypeOK
  <2>9. ASSUME NEW a \in Actors, Replace(a) PROVE IdentityInv'
    <3>1. \A b \in Actors : work'[b].at = "created" => work[b].at = "created"
      <4>1. CASE temp = None
        BY <2>9, <4>1 DEF Replace, TypeOK, Idle
      <4>2. CASE temp # None
        BY <2>9, <4>2 DEF Replace, TypeOK, Idle
      <4> QED
        BY <4>1, <4>2
    <3> QED
      BY <2>1, <2>9, <3>1 DEF Replace
  <2>10. ASSUME NEW group \in SUBSET Actors, Stop(group) PROVE IdentityInv'
    BY <2>1, <2>10 DEF Stop, Idle
  <2>11. ASSUME NEW a \in Clients, NEW h \in Hosts, NEW k \in Keys, Meet(a, h, k)
         PROVE IdentityInv'
    <3>1. \A b \in Actors : work'[b].at = "created" => work[b].at = "created"
      BY <2>11 DEF Meet, TypeOK
    <3> QED
      BY <2>1, <2>11, <3>1 DEF Meet
  <2>12. ASSUME NEW a \in Workers \cup Commands, NEW h \in Hosts, ReadToForget(a, h)
         PROVE IdentityInv'
    BY <2>1, <2>12 DEF ReadToForget, TypeOK
  <2>13. CASE UNCHANGED vars
    BY <2>1, <2>13 DEF vars, identityVars
  <2> QED
    BY <2>2, <2>3, <2>4, <2>5, <2>6, <2>7, <2>8, <2>9, <2>10, <2>11, <2>12, <2>13
       DEF Next, Actors
<1> QED
  BY <1>1, <1>2, KeyStoreTypes, PTL DEF Spec, IdentityInv

-----------------------------------------------------------------------------
(* While rewrites do not overlap, one actor at most is at the pins; it pins  *)
(* a key for a host that has none or forgets one that has, and the text it   *)
(* is about to write, or has written, is the file with that change.          *)
OneRewrites ==
  \A a, b \in Actors : work[a].at \in Rewriting /\ work[b].at \in Rewriting => a = b

Changes(w, text) ==
  /\ w.host \in Hosts
  /\ w.key = None <=> known[w.host] # None
  /\ text = With(known, w.host, w.key)

RewriteInv(w) ==
  /\ w.at = "idle" => w.key = None
  /\ w.at = "pinning" => w.host \in Hosts /\ w.key # None /\ known[w.host] = None
  /\ w.at = "writing" => Changes(w, w.text)
  /\ w.at = "opened" => Changes(w, w.text) /\ w.file = "temp" /\ temp = Empty
  /\ w.at = "written" => Changes(w, temp)

PinsInv ==
  ~overlapped =>
    /\ known \in Texts
    /\ OneRewrites
    /\ \A a \in Actors : RewriteInv(work[a])

(* What an actor outside a rewrite is in the middle of says nothing of the   *)
(* files.                                                                    *)
Outside(w) == w.at \notin Rewriting /\ (w.at = "idle" => w.key = None)

(* A step that leaves the pins alone and starts no rewrite. *)
LEMMA PinsUntouched ==
  ASSUME PinsInv, UNCHANGED <<known, temp, overlapped>>,
         \A b \in Actors : work'[b] = work[b] \/ Outside(work'[b])
  PROVE  PinsInv'
<1>1. ASSUME ~overlapped PROVE OneRewrites'
  BY <1>1 DEF PinsInv, OneRewrites, Outside
<1>2. ASSUME ~overlapped, NEW b \in Actors PROVE RewriteInv(work[b])'
  <2>1. CASE work'[b] = work[b]
    BY <1>2, <2>1 DEF PinsInv, RewriteInv, Changes, With
  <2>2. CASE Outside(work'[b])
    BY <2>2 DEF Outside, RewriteInv, Rewriting
  <2> QED
    BY <2>1, <2>2
<1> QED
  BY <1>1, <1>2 DEF PinsInv, Texts

(* A step of the only actor at the pins. *)
LEMMA PinsByOne ==
  ASSUME NEW a \in Actors,
         ~overlapped' => /\ known' \in Texts
                         /\ RewriteInv(work[a])'
                         /\ \A b \in Actors \ {a} : Outside(work'[b])
  PROVE  PinsInv'
<1>1. ASSUME ~overlapped' PROVE OneRewrites'
  BY <1>1 DEF OneRewrites, Outside
<1>2. ASSUME ~overlapped', NEW b \in Actors PROVE RewriteInv(work[b])'
  BY <1>2 DEF Outside, RewriteInv, Rewriting
<1> QED
  BY <1>1, <1>2 DEF PinsInv, Texts

(* What an actor in the middle of a rewrite may rely on. *)
LEMMA AloneAtPins ==
  ASSUME PinsInv, ~overlapped, NEW a \in Actors, work[a].at \in Rewriting
  PROVE  /\ known \in Texts
         /\ RewriteInv(work[a])
         /\ \A b \in Actors \ {a} : Outside(work[b])
BY DEF PinsInv, OneRewrites, Outside, RewriteInv

(* A copy with one pin changed is a readable text. *)
LEMMA WithIsText ==
  ASSUME NEW text \in Texts, NEW h, NEW k \in Keys \cup {None}
  PROVE  With(text, h, k) \in Texts
BY DEF With, Texts

(* PinsInv is an invariant. *)
THEOREM PinsInvariant == Spec => []PinsInv
<1> USE KeyStoreAssumption
<1>1. Init => PinsInv
  BY DEF Init, PinsInv, Idle, NoPins, Texts, OneRewrites, RewriteInv, Rewriting
<1>2. TypeOK /\ PinsInv /\ [Next]_vars => PinsInv'
  <2> SUFFICES ASSUME TypeOK, PinsInv, [Next]_vars PROVE PinsInv'
    OBVIOUS
  <2>0. Outside(Idle)
    BY DEF Outside, Idle, Rewriting
  <2>1. ASSUME NEW a \in Actors, Generate(a) PROVE PinsInv'
    <3>1. \A b \in Actors : work'[b] = work[b] \/ Outside(work'[b])
      BY <2>1 DEF Generate, TypeOK, Outside, Rewriting
    <3> QED
      BY <2>1, <3>1, PinsUntouched DEF Generate, pinVars
  <2>2. ASSUME NEW a \in Actors, Create(a) PROVE PinsInv'
    <3>1. \A b \in Actors : work'[b] = work[b] \/ Outside(work'[b])
      BY <2>0, <2>2 DEF Create, TypeOK, Outside, Rewriting
    <3> QED
      BY <2>2, <3>1, PinsUntouched DEF Create, pinVars
  <2>3. ASSUME NEW a \in Actors, Fill(a) PROVE PinsInv'
    <3>1. \A b \in Actors : work'[b] = work[b] \/ Outside(work'[b])
      BY <2>0, <2>3 DEF Fill, TypeOK
    <3> QED
      BY <2>3, <3>1, PinsUntouched DEF Fill, pinVars
  <2>4. ASSUME NEW a \in Actors, ReadIdentity(a) PROVE PinsInv'
    BY <2>4, PinsUntouched DEF ReadIdentity, pinVars
  <2>5. ASSUME NEW a \in Actors, ReadToPin(a) PROVE PinsInv'
    <3>1. ASSUME ~overlapped'
          PROVE  /\ known' \in Texts
                 /\ RewriteInv(work[a])'
                 /\ \A b \in Actors \ {a} : Outside(work'[b])
      <4>1. ~overlapped /\ UNCHANGED <<known, temp>> /\ work[a].at \in Rewriting
        BY <2>5, <3>1 DEF ReadToPin, pinVars, Rewriting
      <4>2. /\ work'[a].at = "writing" /\ work'[a].host = work[a].host
            /\ work'[a].key = work[a].key
            /\ work'[a].text = With(known, work[a].host, work[a].key)
            /\ \A b \in Actors \ {a} : work'[b] = work[b]
        BY <2>5 DEF ReadToPin, TypeOK
      <4>3. /\ work[a].at = "pinning" /\ work[a].host \in Hosts /\ work[a].key # None
            /\ known[work[a].host] = None
        BY <2>5, <4>1, AloneAtPins DEF ReadToPin, RewriteInv
      <4>4. RewriteInv(work[a])'
        BY <4>1, <4>2, <4>3 DEF RewriteInv, Changes, With
      <4> QED
        BY <4>1, <4>2, <4>4, AloneAtPins DEF Texts, Outside
    <3> QED
      BY <3>1, PinsByOne
  <2>6. ASSUME NEW a \in Actors, Open(a) PROVE PinsInv'
    <3>1. ASSUME ~overlapped'
          PROVE  /\ known' \in Texts
                 /\ RewriteInv(work[a])'
                 /\ \A b \in Actors \ {a} : Outside(work'[b])
      <4>1. ~overlapped /\ known' = known /\ temp' = Empty /\ work[a].at \in Rewriting
        BY <2>6, <3>1 DEF Open, Rewriting
      <4>2. /\ work'[a].at = "opened" /\ work'[a].host = work[a].host
            /\ work'[a].key = work[a].key /\ work'[a].text = work[a].text
            /\ work'[a].file = "temp"
            /\ \A b \in Actors \ {a} : work'[b] = work[b]
        BY <2>6 DEF Open, TypeOK
      <4>3. Changes(work[a], work[a].text)
        BY <2>6, <4>1, AloneAtPins DEF Open, RewriteInv
      <4>4. RewriteInv(work[a])'
        BY <4>1, <4>2, <4>3 DEF RewriteInv, Changes, With
      <4> QED
        BY <4>1, <4>2, <4>4, AloneAtPins DEF Texts, Outside
    <3> QED
      BY <3>1, PinsByOne
  <2>7. ASSUME NEW a \in Actors, Write(a) PROVE PinsInv'
    <3>1. ASSUME ~overlapped'
          PROVE  /\ known' \in Texts
                 /\ RewriteInv(work[a])'
                 /\ \A b \in Actors \ {a} : Outside(work'[b])
      <4>1. ~overlapped /\ work[a].at = "opened" /\ work[a].at \in Rewriting
        BY <2>7, <3>1 DEF Write, Rewriting
      <4>2. Changes(work[a], work[a].text) /\ work[a].file = "temp" /\ temp = Empty
        BY <4>1, AloneAtPins DEF RewriteInv
      <4>3. known' = known /\ temp' = work[a].text
        BY <2>7, <4>2 DEF Write, Overlay
      <4>4. /\ work'[a].at = "written" /\ work'[a].host = work[a].host
            /\ work'[a].key = work[a].key
            /\ \A b \in Actors \ {a} : work'[b] = work[b]
        BY <2>7 DEF Write, TypeOK
      <4>5. RewriteInv(work[a])'
        BY <4>2, <4>3, <4>4 DEF RewriteInv, Changes, With
      <4> QED
        BY <4>1, <4>3, <4>4, <4>5, AloneAtPins DEF Texts, Outside
    <3> QED
      BY <3>1, PinsByOne
  <2>8. ASSUME NEW a \in Actors, Replace(a) PROVE PinsInv'
    <3>1. ASSUME ~overlapped'
          PROVE  /\ known' \in Texts
                 /\ RewriteInv(work[a])'
                 /\ \A b \in Actors \ {a} : Outside(work'[b])
      <4>1. ~overlapped /\ work[a].at = "written" /\ work[a].at \in Rewriting
        BY <2>8, <3>1 DEF Replace, Rewriting
      <4>2. Changes(work[a], temp) /\ known \in Texts
        BY <4>1, AloneAtPins DEF RewriteInv
      <4>3. temp \in Texts
        BY <4>2, WithIsText DEF Changes, TypeOK
      <4>4. temp # None /\ known' = temp
        BY <2>8, <4>3 DEF Replace, Texts
      <4>5. /\ work'[a] = Idle
            /\ \A b \in Actors \ {a} : work'[b] = [work[b] EXCEPT !.file = Renamed(@)]
        BY <2>8, <4>4 DEF Replace
      <4>6. ASSUME NEW b \in Actors \ {a} PROVE Outside(work'[b])
        <5>1. work'[b].at = work[b].at /\ work'[b].key = work[b].key
          BY <4>5 DEF TypeOK
        <5> QED
          BY <4>1, <5>1, AloneAtPins DEF Outside
      <4> QED
        BY <4>3, <4>4, <4>5, <4>6 DEF Texts, RewriteInv, Idle
    <3> QED
      BY <3>1, PinsByOne
  <2>9. ASSUME NEW group \in SUBSET Actors, Stop(group) PROVE PinsInv'
    BY <2>0, <2>9, PinsUntouched DEF Stop, pinVars
  <2>10. ASSUME NEW a \in Clients, NEW h \in Hosts, NEW k \in Keys, Meet(a, h, k) PROVE PinsInv'
    <3> a \in Actors
      BY DEF Clients, Actors
    <3>1. CASE known[h] = None
      <4>1. ASSUME ~overlapped'
            PROVE  /\ known' \in Texts
                   /\ RewriteInv(work[a])'
                   /\ \A b \in Actors \ {a} : Outside(work'[b])
        <5>1. ~overlapped /\ ~Overlap(a) /\ known' = known /\ known \in Texts
          BY <2>10, <3>1, <4>1 DEF Meet
        <5>2. /\ work'[a].at = "pinning" /\ work'[a].host = h /\ work'[a].key = k
              /\ \A b \in Actors \ {a} : work'[b] = work[b]
          BY <2>10, <3>1 DEF Meet, TypeOK
        <5>3. RewriteInv(work[a])'
          BY <3>1, <5>1, <5>2 DEF RewriteInv
        <5>4. \A b \in Actors \ {a} : Outside(work[b])
          BY <5>1 DEF Overlap, Outside, PinsInv, RewriteInv
        <5> QED
          BY <5>1, <5>2, <5>3, <5>4 DEF Texts, Outside
      <4> QED
        BY <4>1, PinsByOne
    <3>2. CASE known[h] # None
      BY <2>10, <3>2, PinsUntouched DEF Meet, PinsInv
    <3> QED
      BY <3>1, <3>2
  <2>11. ASSUME NEW a \in Workers \cup Commands, NEW h \in Hosts, ReadToForget(a, h) PROVE PinsInv'
    <3> a \in Actors
      BY DEF Actors
    <3>1. ASSUME ~overlapped'
          PROVE  /\ known' \in Texts
                 /\ RewriteInv(work[a])'
                 /\ \A b \in Actors \ {a} : Outside(work'[b])
      <4>1. ~overlapped /\ ~Overlap(a) /\ known' = known /\ known \in Texts /\ known[h] # None
        BY <2>11, <3>1 DEF ReadToForget
      <4>2. work[a].key = None
        BY <2>11, <4>1 DEF ReadToForget, PinsInv, RewriteInv
      <4>3. /\ work'[a].at = "writing" /\ work'[a].host = h /\ work'[a].key = work[a].key
            /\ work'[a].text = With(known, h, None)
            /\ \A b \in Actors \ {a} : work'[b] = work[b]
        BY <2>11 DEF ReadToForget, TypeOK
      <4>4. RewriteInv(work[a])'
        BY <4>1, <4>2, <4>3 DEF RewriteInv, Changes, With
      <4>5. \A b \in Actors \ {a} : Outside(work[b])
        BY <4>1 DEF Overlap, Outside, PinsInv, RewriteInv
      <4> QED
        BY <4>1, <4>3, <4>4, <4>5 DEF Texts, Outside
    <3> QED
      BY <3>1, PinsByOne
  <2>12. CASE UNCHANGED vars
    BY <2>12, PinsUntouched DEF vars
  <2> QED
    BY <2>1, <2>2, <2>3, <2>4, <2>5, <2>6, <2>7, <2>8, <2>9, <2>10, <2>11, <2>12 DEF Next, Actors
<1> QED
  BY <1>1, <1>2, KeyStoreTypes, PTL DEF Spec

(* No crash and no error leaves known_hosts.json unreadable, as long as no   *)
(* two rewrites of it overlap.                                               *)
THEOREM PinsReadable == Spec => []PinsStayReadable
<1>1. PinsInv => PinsStayReadable
  BY DEF PinsInv, PinsStayReadable
<1> QED
  BY <1>1, PinsInvariant, PTL

(* Every step on the files is one of Pins, or none, until two rewrites       *)
(* overlap.                                                                  *)
THEOREM PinsImplemented == Spec => TrustOnFirstUse
<1> USE KeyStoreAssumption
<1>1. Init => Promise!Init
  BY DEF Init, Promise!Init, NoPins
<1>2. TypeOK /\ PinsInv /\ [Next]_vars
        => [~overlapped' => [Promise!Next]_<<known, met>>]_vars
  <2> SUFFICES ASSUME TypeOK, PinsInv, Next, ~overlapped'
               PROVE  [Promise!Next]_<<known, met>>
    OBVIOUS
  <2>1. ASSUME NEW a \in Actors, Replace(a) PROVE [Promise!Next]_<<known, met>>
    <3>1. ~overlapped /\ work[a].at = "written" /\ work[a].at \in Rewriting
      BY <2>1 DEF Replace, Rewriting
    <3>2. Changes(work[a], temp) /\ known \in Texts
      BY <3>1, AloneAtPins DEF RewriteInv
    <3>3. /\ work[a].host \in Hosts /\ work[a].key \in Keys \cup {None}
          /\ temp = [known EXCEPT ![work[a].host] = work[a].key]
      BY <3>2 DEF Changes, With, TypeOK
    <3>4. temp # None
      BY <3>2, <3>3, WithIsText DEF Texts, With
    <3>5. /\ known' = temp
          /\ met' = [met EXCEPT ![work[a].host] =
                       IF work[a].key = None THEN {} ELSE @ \cup {work[a].key}]
      BY <2>1, <3>4 DEF Replace
    <3>6. CASE work[a].key = None
      <4>1. Promise!Forget(work[a].host)
        BY <3>2, <3>3, <3>5, <3>6 DEF Promise!Forget, Changes
      <4> QED
        BY <3>3, <4>1 DEF Promise!Next
    <3>7. CASE work[a].key # None
      <4>1. Promise!Trust(work[a].host, work[a].key)
        BY <3>2, <3>3, <3>5, <3>7 DEF Promise!Trust, Changes
      <4> QED
        BY <3>3, <3>7, <4>1 DEF Promise!Next
    <3> QED
      BY <3>6, <3>7
  <2>2. ASSUME NEW a \in Clients, NEW h \in Hosts, NEW k \in Keys, Meet(a, h, k)
        PROVE  [Promise!Next]_<<known, met>>
    <3>1. CASE known[h] = k /\ met' = [met EXCEPT ![h] = @ \cup {k}]
      <4>1. Promise!Trust(h, k)
        BY <2>2, <3>1 DEF Meet, Promise!Trust, Texts
      <4> QED
        BY <4>1 DEF Promise!Next
    <3>2. CASE UNCHANGED <<known, met>>
      BY <3>2
    <3> QED
      BY <2>2, <3>1, <3>2 DEF Meet
  <2>3. ASSUME NEW a \in Actors, Write(a) PROVE [Promise!Next]_<<known, met>>
    <3>1. ~overlapped /\ work[a].at = "opened" /\ work[a].at \in Rewriting
      BY <2>3 DEF Write, Rewriting
    <3>2. work[a].file = "temp"
      BY <3>1, AloneAtPins DEF RewriteInv
    <3> QED
      BY <2>3, <3>2 DEF Write
  <2>4. ASSUME NEW a \in Actors,
               \/ Generate(a) \/ Create(a) \/ Fill(a) \/ ReadIdentity(a)
               \/ ReadToPin(a) \/ Open(a)
        PROVE  UNCHANGED <<known, met>>
    BY <2>4 DEF Generate, Create, Fill, ReadIdentity, ReadToPin, Open, pinVars
  <2>5. ASSUME NEW group \in SUBSET Actors, Stop(group) PROVE UNCHANGED <<known, met>>
    BY <2>5 DEF Stop, pinVars
  <2>6. ASSUME NEW a \in Workers \cup Commands, NEW h \in Hosts, ReadToForget(a, h)
        PROVE  UNCHANGED <<known, met>>
    BY <2>6 DEF ReadToForget
  <2> QED
    BY <2>1, <2>2, <2>3, <2>4, <2>5, <2>6 DEF Next, Actors
<1> QED
  BY <1>1, <1>2, KeyStoreTypes, PinsInvariant, PTL DEF Spec, TrustOnFirstUse
=============================================================================
