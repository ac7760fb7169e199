--------------------------- MODULE DiscoveryProofs ----------------------------
(***************************************************************************)
(* Theorems about what Home Assistant is told of the disks, for any disks  *)
(* and serial numbers, however connections, broker and process fail.       *)
(***************************************************************************)
EXTENDS Discovery, SequenceTheorems, TLAPS

\* Connections belong to a running process, and with one nothing waits.
SessionInv == session = "up" => process = "up" /\ queue = NothingQueued

\* What _announced says of the serial numbers is true of the broker.
SerialInv == session = "up" =>
  \A s \in Serials : BySerial(s) \in announced =>
    owner[BySerial(s)] \in Disks /\ configs[BySerial(s)] = owner[BySerial(s)]

\* What it says of the keys is true, or the disk has since moved to a serial number.
KeyInv == session = "up" =>
  \A d \in Disks : ByKey(d) \in announced =>
    \/ configs[ByKey(d)] = d
    \/ \E s \in Serials : BySerial(s) \in announced /\ owner[BySerial(s)] = d

\* A disk is published under its key, or under a serial number that it owns.
FreshInv == session = "up" =>
  \A d \in Disks : fresh[d] # Unpublished =>
    /\ fresh[d] \in announced
    /\ fresh[d] = ByKey(d) \/ \E s \in Serials : fresh[d] = BySerial(s) /\ owner[fresh[d]] = d

\* A disk published under a serial number has had its key withdrawn, ...
SerialRetires == session = "up" =>
  \A d \in Disks : fresh[d] \in {BySerial(s) : s \in Serials} => d \in retired

\* ... and a withdrawn key is empty, or will be when the queue has been sent.
RetiredInv ==
  \A d \in retired \ reappeared :
    (IF queue[ByKey(d)] = NoMessage THEN configs[ByKey(d)] ELSE queue[ByKey(d)]) # d

DiscoveryInv == SessionInv /\ SerialInv /\ KeyInv /\ FreshInv /\ SerialRetires /\ RetiredInv

-----------------------------------------------------------------------------
(* Unique ids and messages *)

\* The two kinds of unique ids never meet, and a key or a serial number gives one.
LEMMA UniquesDiffer ==
  /\ \A d \in Disks : ByKey(d) \in Uniques /\ ByKey(d) # Unpublished
  /\ \A s \in Serials : BySerial(s) \in Uniques /\ BySerial(s) # Unpublished
  /\ \A d \in Disks : \A e \in Disks : ByKey(d) = ByKey(e) => d = e
  /\ \A s \in Serials : \A t \in Serials : BySerial(s) = BySerial(t) => s = t
  /\ \A d \in Disks : \A s \in Serials : ByKey(d) # BySerial(s)
BY DEF ByKey, BySerial, Uniques, Unpublished

\* What a disk is announced under is its key, or its serial number when that is
\* its own or nobody's.
LEMMA UniqueForOK ==
  ASSUME TypeOK, NEW d \in Disks, NEW readable \in BOOLEAN
  PROVE  /\ DiskUnique(d, readable) \in Uniques /\ UniqueFor(d, readable) \in Uniques
         /\ UniqueFor(d, readable) # ByKey(d) =>
              /\ UniqueFor(d, readable) = DiskUnique(d, readable)
              /\ \E s \in Serials : UniqueFor(d, readable) = BySerial(s)
              /\ owner[UniqueFor(d, readable)] \in {Nobody, d}
BY DiscoveryAssumption, UniquesDiffer DEF UniqueFor, DiskUnique, TypeOK

\* A publication goes through a sequence of disks.
LEMMA JobOK ==
  ASSUME TypeOK, StartPublish
  PROVE  job' \in Seq([disk : Disks, readable : BOOLEAN])
<1>1. PICK found \in Orders : \E readable \in SUBSET Disks :
        job' = [i \in DOMAIN found |-> [disk |-> found[i], readable |-> found[i] \in readable]]
  BY DEF StartPublish
<1>2. PICK n \in Nat : found \in [1..n -> Disks] BY DEF Orders
<1>3. \A T : \A s \in [1..n -> T] : s \in Seq(T) BY <1>2, SeqDef
<1>4. job' \in [1..n -> [disk : Disks, readable : BOOLEAN]] BY <1>1, <1>2
<1> QED BY <1>3, <1>4

LEMMA HeadOK ==
  ASSUME TypeOK, job # <<>>
  PROVE  /\ Head(job).disk \in Disks /\ Head(job).readable \in BOOLEAN
         /\ Tail(job) \in Seq([disk : Disks, readable : BOOLEAN])
<1>1. Head(job) \in [disk : Disks, readable : BOOLEAN] BY HeadTailProperties DEF TypeOK
<1>2. Tail(job) \in Seq([disk : Disks, readable : BOOLEAN]) BY HeadTailProperties DEF TypeOK
<1> QED BY <1>1, <1>2

\* What publish does of disk d, which asks for the id claimed and gets unique.
Retires(d, unique) == unique # ByKey(d) /\ d \notin retired
Told(retained, d, unique) == [u \in Uniques |->
  IF u = unique /\ unique \notin announced THEN d
  ELSE IF u = ByKey(d) /\ Retires(d, unique) THEN Nobody ELSE retained[u]]

Publishes(d, claimed, unique) ==
  /\ unique # ByKey(d) => /\ unique = claimed /\ owner[unique] \in {Nobody, d}
                          /\ \E s \in Serials : unique = BySerial(s)
  /\ owner' = IF owner[claimed] = Nobody THEN [owner EXCEPT ![claimed] = d] ELSE owner
  /\ retired' = IF Retires(d, unique) THEN retired \cup {d} ELSE retired
  /\ announced' = announced \cup {unique}
  /\ fresh' = IF session = "up" THEN [fresh EXCEPT ![d] = unique] ELSE fresh
  /\ reappeared' = IF unique = ByKey(d) /\ d \in retired THEN reappeared \cup {d} ELSE reappeared
  /\ configs' = IF session = "up" THEN Told(configs, d, unique) ELSE configs
  /\ queue' = IF session = "up" THEN queue ELSE Told(queue, d, unique)
  /\ UNCHANGED <<process, session, willDue, status>>

LEMMA PublishDiskDoes ==
  ASSUME TypeOK, PublishDisk
  PROVE  \E d \in Disks : \E claimed \in Uniques : \E unique \in Uniques : Publishes(d, claimed, unique)
<1> DEFINE d == Head(job).disk
           readable == Head(job).readable
           claimed == DiskUnique(d, readable)
           unique == UniqueFor(d, readable)
           retire == unique # ByKey(d) /\ d \notin retired
           topics == {v \in Uniques : (v = ByKey(d) /\ retire) \/ (v = unique /\ unique \notin announced)}
           messages == [u \in topics |-> IF u = unique THEN d ELSE Nobody]
<1>1. d \in Disks /\ readable \in BOOLEAN BY HeadOK DEF PublishDisk
<1>2. claimed \in Uniques /\ unique \in Uniques BY <1>1, UniqueForOK
<1>3. unique # ByKey(d) => /\ unique = claimed /\ owner[unique] \in {Nobody, d}
                           /\ \E s \in Serials : unique = BySerial(s)
  BY <1>1, UniqueForOK
<1>4. /\ owner' = IF owner[claimed] = Nobody THEN [owner EXCEPT ![claimed] = d] ELSE owner
      /\ retired' = IF retire THEN retired \cup {d} ELSE retired
      /\ announced' = announced \cup {unique}
      /\ fresh' = IF session = "up" THEN [fresh EXCEPT ![d] = unique] ELSE fresh
      /\ reappeared' = IF unique = ByKey(d) /\ d \in retired THEN reappeared \cup {d} ELSE reappeared
      /\ UNCHANGED <<process, session, willDue, status>>
  BY DEF PublishDisk
<1>5. Send(messages) BY DEF PublishDisk
<1> HIDE DEF d, readable, claimed, unique
<1>6. \A retained : Replaced(retained, messages) = Told(retained, d, unique)
  BY <1>2 DEF Replaced, Told, Retires
<1>7. /\ configs' = IF session = "up" THEN Told(configs, d, unique) ELSE configs
      /\ queue' = IF session = "up" THEN queue ELSE Told(queue, d, unique)
  BY <1>5, <1>6 DEF Send
<1>8. Publishes(d, claimed, unique) BY <1>3, <1>4, <1>7 DEF Publishes, Retires
<1> QED BY <1>1, <1>2, <1>8

-----------------------------------------------------------------------------
(* Type correctness *)

LEMMA TypeInit ==
  Init => TypeOK
<1> SUFFICES ASSUME Init PROVE TypeOK OBVIOUS
<1>1. job \in Seq([disk : Disks, readable : BOOLEAN]) BY DEF Init
<1> QED BY <1>1 DEF Init, TypeOK, NothingQueued, NothingFresh, Targets

LEMMA TypeStep ==
  TypeOK /\ [Next]_vars => TypeOK'
<1> SUFFICES ASSUME TypeOK, [Next]_vars PROVE TypeOK' OBVIOUS
<1>1. CASE Start BY <1>1 DEF Start, Forget, TypeOK, NothingQueued, NothingFresh, Targets
<1>2. CASE Connect BY <1>2 DEF Connect, Flushed, TypeOK, NothingQueued, NothingFresh, Targets
<1>3. CASE Disconnect BY <1>3 DEF Disconnect, clientVars, TypeOK
<1>4. CASE WillFires BY <1>4 DEF WillFires, clientVars, TypeOK
<1>5. CASE BrokerForgets BY <1>5 DEF BrokerForgets, clientVars, TypeOK, Targets
<1>6. CASE Stop BY <1>6 DEF Stop, Forget, TypeOK, NothingQueued, NothingFresh, Targets
<1>7. CASE Crash BY <1>7 DEF Crash, Forget, TypeOK, NothingQueued, NothingFresh, Targets
<1>8. CASE StartPublish BY <1>8, JobOK DEF StartPublish, TypeOK
<1>9. CASE PublishDisk
  <2>1. PICK d \in Disks, claimed \in Uniques, unique \in Uniques : Publishes(d, claimed, unique)
    BY <1>9, PublishDiskDoes
  <2>2. owner' \in [Uniques -> Targets] BY <2>1 DEF Publishes, TypeOK, Targets
  <2>3. retired' \subseteq Disks /\ announced' \subseteq Uniques /\ reappeared' \subseteq Disks
    BY <2>1 DEF Publishes, TypeOK
  <2>4. fresh' \in [Disks -> Uniques \cup {Unpublished}] BY <2>1 DEF Publishes, TypeOK
  <2>5. configs' \in [Uniques -> Targets] /\ queue' \in [Uniques -> Targets \cup {NoMessage}]
    BY <2>1 DEF Publishes, Told, TypeOK, Targets
  <2>6. job' \in Seq([disk : Disks, readable : BOOLEAN]) BY <1>9, HeadOK DEF PublishDisk
  <2>7. UNCHANGED <<process, session, willDue, status>> BY <1>9 DEF PublishDisk
  <2> QED BY <2>2, <2>3, <2>4, <2>5, <2>6, <2>7 DEF TypeOK
<1>10. CASE Finish BY <1>10 DEF Finish, clientVars, TypeOK
<1>11. CASE UNCHANGED vars BY <1>11 DEF vars, clientVars, TypeOK
<1> QED BY <1>1, <1>2, <1>3, <1>4, <1>5, <1>6, <1>7, <1>8, <1>9, <1>10, <1>11 DEF Next

\* Every variable keeps to its type.
THEOREM DiscoveryTypeCorrect == Spec => []TypeOK
<1>1. Init => TypeOK BY TypeInit
<1>2. TypeOK /\ [Next]_vars => TypeOK' BY TypeStep
<1> QED BY <1>1, <1>2, PTL DEF Spec

-----------------------------------------------------------------------------
(* The invariant *)

LEMMA DiscoveryInit ==
  Init => DiscoveryInv
BY DEF Init, DiscoveryInv, SessionInv, SerialInv, KeyInv, FreshInv, SerialRetires, RetiredInv

\* Whatever starts or ends a connection leaves nothing that the publisher believes.
LEMMA NewSession ==
  ASSUME TypeOK, DiscoveryInv, Start \/ Connect \/ Stop \/ Crash
  PROVE  DiscoveryInv'
<1>1. CASE Start \/ Stop \/ Crash
  <2>1. session' = "none" /\ retired' = {} BY <1>1 DEF Start, Stop, Crash, Forget
  <2> QED BY <2>1 DEF DiscoveryInv, SessionInv, SerialInv, KeyInv, FreshInv, SerialRetires, RetiredInv
<1>2. CASE Connect
  <2>1. announced' = {} /\ queue' = NothingQueued /\ process' = "up" BY <1>2 DEF Connect
  <2>2. \A d \in Disks : fresh'[d] = Unpublished BY <1>2 DEF Connect, NothingFresh
  <2>3. RetiredInv'
    <3> SUFFICES ASSUME NEW d \in retired \ reappeared
                 PROVE  queue'[ByKey(d)] = NoMessage /\ configs'[ByKey(d)] # d
      BY <1>2 DEF Connect, RetiredInv
    <3>1. ByKey(d) \in Uniques BY UniquesDiffer DEF TypeOK
    <3> QED BY <1>2, <3>1 DEF Connect, Flushed, NothingQueued, DiscoveryInv, RetiredInv
  <2>4. SerialRetires' BY <2>2, UniquesDiffer DEF SerialRetires
  <2> QED BY <2>1, <2>2, <2>3, <2>4 DEF DiscoveryInv, SessionInv, SerialInv, KeyInv, FreshInv
<1> QED BY <1>1, <1>2

\* The rest of what happens outside of publish.
LEMMA OtherSteps ==
  ASSUME TypeOK, DiscoveryInv,
         Disconnect \/ WillFires \/ BrokerForgets \/ StartPublish \/ Finish \/ UNCHANGED vars
  PROVE  DiscoveryInv'
<1>1. CASE Disconnect \/ BrokerForgets
  <2>1. session' # "up" BY <1>1 DEF Disconnect, BrokerForgets
  <2>2. RetiredInv'
    <3> SUFFICES ASSUME NEW d \in retired \ reappeared
                 PROVE  (IF queue[ByKey(d)] = NoMessage THEN configs'[ByKey(d)] ELSE queue[ByKey(d)]) # d
      BY <1>1 DEF Disconnect, BrokerForgets, clientVars, RetiredInv
    <3>1. ByKey(d) \in Uniques /\ Nobody # d BY UniquesDiffer, DiscoveryAssumption DEF TypeOK
    <3> QED BY <1>1, <3>1 DEF Disconnect, BrokerForgets, DiscoveryInv, RetiredInv
  <2> QED BY <2>1, <2>2 DEF DiscoveryInv, SessionInv, SerialInv, KeyInv, FreshInv, SerialRetires
<1>2. CASE WillFires \/ StartPublish \/ Finish \/ UNCHANGED vars
  <2>1. UNCHANGED <<process, session, configs, queue, announced, retired, owner, fresh, reappeared>>
    BY <1>2 DEF WillFires, StartPublish, Finish, vars, clientVars
  <2> QED BY <2>1 DEF DiscoveryInv, SessionInv, SerialInv, KeyInv, FreshInv, SerialRetires, RetiredInv
<1> QED BY <1>1, <1>2

\* One disk of a publication: what it announces is remembered as long as it is
\* true, and a key that it withdraws is replaced by a serial number of its own.
LEMMA PublishStep ==
  ASSUME TypeOK, DiscoveryInv, PublishDisk
  PROVE  DiscoveryInv'
<1>1. PICK d \in Disks, claimed \in Uniques, unique \in Uniques : Publishes(d, claimed, unique)
  BY PublishDiskDoes
<1>2. Nobody # d /\ NoMessage # d /\ Nobody # NoMessage BY DiscoveryAssumption DEF Nobody, NoMessage
<1>3. ByKey(d) \in Uniques BY UniquesDiffer
<1>4. /\ session' = session /\ process' = process /\ announced' = announced \cup {unique}
      /\ \A u \in Uniques : owner[u] # Nobody => owner'[u] = owner[u]
      /\ unique # ByKey(d) => owner'[unique] = d /\ d \in retired'
  BY <1>1 DEF Publishes, Retires, TypeOK
<1>5. RetiredInv'
  <2> DEFINE waiting(u) == IF queue[u] = NoMessage THEN configs[u] ELSE queue[u]
             waitingNext(u) == IF queue'[u] = NoMessage THEN configs'[u] ELSE queue'[u]
  <2>1. \A u \in Uniques : waitingNext(u) = IF u = unique /\ unique \notin announced THEN d
                           ELSE IF u = ByKey(d) /\ Retires(d, unique) THEN Nobody ELSE waiting(u)
    BY <1>1, <1>2 DEF Publishes, Told, DiscoveryInv, SessionInv, NothingQueued
  <2> SUFFICES ASSUME NEW e \in retired' \ reappeared' PROVE waitingNext(ByKey(e)) # e
    BY DEF RetiredInv
  <2>2. ByKey(e) \in Uniques /\ e \in Disks
    BY <1>1, UniquesDiffer DEF Publishes, TypeOK
  <2>3. e # d => e \in retired \ reappeared BY <1>1 DEF Publishes
  <2>4. CASE e = d
    <3>1. unique # ByKey(d) BY <1>1, <2>4 DEF Publishes, Retires
    <3>2. CASE d \in retired
      <4>1. d \in retired \ reappeared BY <1>1, <2>4, <3>2 DEF Publishes
      <4>2. waiting(ByKey(d)) # d BY <4>1 DEF DiscoveryInv, RetiredInv
      <4> QED BY <2>1, <2>2, <2>4, <3>1, <3>2, <4>2 DEF Retires
    <3>3. CASE d \notin retired BY <1>2, <2>1, <2>2, <2>4, <3>1, <3>3 DEF Retires
    <3> QED BY <3>2, <3>3
  <2>5. CASE e # d
    <3>1. ByKey(e) # ByKey(d) /\ ByKey(e) # unique
      BY <1>1, <2>2, <2>5, UniquesDiffer DEF Publishes
    <3>2. waiting(ByKey(e)) # e BY <2>3, <2>5 DEF DiscoveryInv, RetiredInv
    <3> QED BY <2>1, <2>2, <3>1, <3>2
  <2> QED BY <2>4, <2>5
<1>6. CASE session = "up"
  <2>1. \A u \in Uniques : configs'[u] = IF u = unique /\ unique \notin announced THEN d
                           ELSE IF u = ByKey(d) /\ Retires(d, unique) THEN Nobody ELSE configs[u]
    BY <1>1, <1>6 DEF Publishes, Told
  <2>2. \A e \in Disks : fresh'[e] = IF e = d THEN unique ELSE fresh[e] BY <1>1, <1>6 DEF Publishes, TypeOK
  <2>3. SessionInv' BY <1>1, <1>4, <1>6 DEF Publishes, DiscoveryInv, SessionInv, NothingQueued
  <2>4. SerialInv'
    <3> SUFFICES ASSUME NEW s \in Serials, BySerial(s) \in announced'
                 PROVE  owner'[BySerial(s)] \in Disks /\ configs'[BySerial(s)] = owner'[BySerial(s)]
      BY DEF SerialInv
    <3>1. BySerial(s) \in Uniques /\ BySerial(s) # ByKey(d) BY UniquesDiffer
    <3>2. CASE BySerial(s) \in announced
      <4>1. owner[BySerial(s)] \in Disks /\ configs[BySerial(s)] = owner[BySerial(s)]
        BY <1>6, <3>2 DEF DiscoveryInv, SerialInv
      <4>2. owner[BySerial(s)] # Nobody BY <4>1, DiscoveryAssumption
      <4> QED BY <1>4, <2>1, <3>1, <3>2, <4>1, <4>2
    <3>3. CASE BySerial(s) \notin announced BY <1>4, <2>1, <3>1, <3>3
    <3> QED BY <3>2, <3>3
  <2>5. KeyInv'
    <3> SUFFICES ASSUME NEW e \in Disks, ByKey(e) \in announced'
                 PROVE  \/ configs'[ByKey(e)] = e
                        \/ \E s \in Serials : BySerial(s) \in announced' /\ owner'[BySerial(s)] = e
      BY DEF KeyInv
    <3>1. ByKey(e) \in Uniques /\ (ByKey(e) = ByKey(d) => e = d) BY UniquesDiffer
    <3>2. CASE e = d /\ unique # ByKey(d)
      <4>1. PICK s \in Serials : unique = BySerial(s) BY <1>1, <3>2 DEF Publishes
      <4> QED BY <1>4, <3>2, <4>1
    <3>3. CASE ByKey(e) \notin announced
      <4>1. unique = ByKey(e) BY <1>4, <3>3
      <4>2. unique = ByKey(d) BY <1>1, <4>1, UniquesDiffer DEF Publishes
      <4> QED BY <2>1, <3>1, <3>3, <4>1, <4>2
    <3>4. CASE ByKey(e) \in announced /\ ~(e = d /\ unique # ByKey(d))
      <4>1. configs'[ByKey(e)] = configs[ByKey(e)] BY <2>1, <3>1, <3>4 DEF Retires
      <4>2. ASSUME NEW s \in Serials, BySerial(s) \in announced, owner[BySerial(s)] = e
            PROVE  BySerial(s) \in announced' /\ owner'[BySerial(s)] = e
        BY <1>4, <4>2, UniquesDiffer, DiscoveryAssumption
      <4> QED BY <1>6, <3>4, <4>1, <4>2 DEF DiscoveryInv, KeyInv
    <3> QED BY <3>2, <3>3, <3>4
  <2>6. FreshInv'
    <3> SUFFICES ASSUME NEW e \in Disks, fresh'[e] # Unpublished
                 PROVE  /\ fresh'[e] \in announced'
                        /\ fresh'[e] = ByKey(e) \/ \E s \in Serials : fresh'[e] = BySerial(s) /\ owner'[fresh'[e]] = e
      BY DEF FreshInv
    <3>1. CASE e = d
      <4>1. unique # ByKey(d) => \E s \in Serials : unique = BySerial(s) BY <1>1 DEF Publishes
      <4> QED BY <1>4, <2>2, <3>1, <4>1
    <3>2. CASE e # d
      <4>1. /\ fresh[e] \in announced
            /\ fresh[e] = ByKey(e) \/ \E s \in Serials : fresh[e] = BySerial(s) /\ owner[fresh[e]] = e
        BY <1>6, <2>2, <3>2 DEF DiscoveryInv, FreshInv
      <4>2. fresh'[e] = fresh[e] /\ fresh[e] \in Uniques /\ e # Nobody BY <2>2, <3>2, <4>1, DiscoveryAssumption DEF TypeOK
      <4> QED BY <1>4, <4>1, <4>2
    <3> QED BY <3>1, <3>2
  <2>7. SerialRetires'
    <3>1. retired \subseteq retired' BY <1>1 DEF Publishes
    <3>2. unique \in {BySerial(s) : s \in Serials} => d \in retired' BY <1>4, UniquesDiffer
    <3> QED BY <1>6, <2>2, <3>1, <3>2 DEF DiscoveryInv, SerialRetires
  <2> QED BY <1>5, <2>3, <2>4, <2>5, <2>6, <2>7 DEF DiscoveryInv
<1>7. CASE session # "up"
  BY <1>4, <1>5, <1>7 DEF DiscoveryInv, SessionInv, SerialInv, KeyInv, FreshInv, SerialRetires
<1> QED BY <1>6, <1>7

-----------------------------------------------------------------------------
(* Theorems *)

LEMMA DiscoveryInductive ==
  Spec => [](TypeOK /\ DiscoveryInv)
<1>1. Init => TypeOK /\ DiscoveryInv BY TypeInit, DiscoveryInit
<1>2. TypeOK /\ DiscoveryInv /\ [Next]_vars => TypeOK' /\ DiscoveryInv'
  <2> SUFFICES ASSUME TypeOK, DiscoveryInv, [Next]_vars PROVE DiscoveryInv' BY TypeStep
  <2>1. CASE Start \/ Connect \/ Stop \/ Crash BY <2>1, NewSession
  <2>2. CASE Disconnect \/ WillFires \/ BrokerForgets \/ StartPublish \/ Finish \/ UNCHANGED vars
    BY <2>2, OtherSteps
  <2>3. CASE PublishDisk BY <2>3, PublishStep
  <2> QED BY <2>1, <2>2, <2>3 DEF Next
<1> QED BY <1>1, <1>2, PTL DEF Spec

\* Every disk published over the present connection has entities of its own,
\* for any disks and serial numbers: what was announced, withdrawn, queued or
\* lost over earlier connections cannot leave it without (_on_connect forgets).
THEOREM PublishedIsThere == Spec => []FreshIsAnnounced
<1>1. TypeOK /\ DiscoveryInv => FreshIsAnnounced
  <2> SUFFICES ASSUME TypeOK, DiscoveryInv, session = "up",
                      NEW d \in Disks, fresh[d] # Unpublished
               PROVE  \E u \in Uniques : configs[u] = d
    BY DEF FreshIsAnnounced
  <2>1. \A s \in Serials : BySerial(s) \in announced /\ owner[BySerial(s)] = d => configs[BySerial(s)] = d
    BY DEF DiscoveryInv, SerialInv
  <2>2. CASE fresh[d] = ByKey(d) BY <2>1, <2>2, UniquesDiffer DEF DiscoveryInv, FreshInv, KeyInv
  <2>3. CASE fresh[d] # ByKey(d) BY <2>1, <2>3, UniquesDiffer DEF DiscoveryInv, FreshInv
  <2> QED BY <2>2, <2>3
<1> QED BY <1>1, DiscoveryInductive, PTL

\* A disk published under its serial number has no second set of entities under
\* its key, for any disks and serial numbers, unless its serial number became
\* unreadable after that key was withdrawn (_retired).
THEOREM KeysAreWithdrawn == Spec => []NoDuplicates
<1>1. TypeOK /\ DiscoveryInv => NoDuplicates
  <2> SUFFICES ASSUME TypeOK, DiscoveryInv, session = "up", NEW d \in Disks \ reappeared,
                      fresh[d] \in {BySerial(s) : s \in Serials}
               PROVE  configs[ByKey(d)] # d
    BY DEF NoDuplicates
  <2>1. d \in retired BY DEF DiscoveryInv, SerialRetires
  <2>2. queue[ByKey(d)] = NoMessage BY UniquesDiffer DEF DiscoveryInv, SessionInv, NothingQueued
  <2> QED BY <2>1, <2>2 DEF DiscoveryInv, RetiredInv
<1> QED BY <1>1, DiscoveryInductive, PTL
=============================================================================
