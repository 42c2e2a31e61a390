---------------------------- MODULE ServerProofs ----------------------------
(***************************************************************************)
(* Proofs about Receiver and Server.  First the push endpoint, for any     *)
(* rows, any acceptance rule and any batches: what is acknowledged is      *)
(* resolved, the ack never goes back, and a stored row is never replaced.  *)
(* Then the server, for any number of devices, threads and keys: the push  *)
(* endpoint inside it is the Receiver; serials stay unique; revoked keys   *)
(* stay dead; a calibration version names one calibration.                 *)
(***************************************************************************)
EXTENDS Server, WellFoundedInduction, TLAPS

\* The push endpoint's inductive invariant.
IInv == TypeOK /\ AckCoversResolved

\* A non-empty set of naturals has a least element.
LEMMA LeastNatural ==
    ASSUME NEW T, T \subseteq Nat, T # {}
    PROVE  \E x \in T : \A y \in T : x <= y
<1>1. PICK x \in T : \A y \in T : <<y, x>> \notin OpToRel(<, Nat)
  BY NatLessThanWellFounded, WFMin
<1>2. \A y \in T : ~(y < x)
  BY <1>1 DEF OpToRel
<1> QED
  BY <1>2

\* INSERT OR IGNORE takes a row of the batch, under the row's own seq.
LEMMA FirstWithType ==
    ASSUME NEW batch \in Batches, NEW s \in SeqsAt(batch, Accepted(batch))
    PROVE  FirstWith(batch, s) \in Rows /\ FirstWith(batch, s).seq = s
<1> DEFINE I == {i \in Accepted(batch) : batch[i].seq = s}
<1>1. batch \in Seq(Rows)
  BY BatchesAreRows
<1>2. DOMAIN batch \subseteq Nat /\ \A i \in DOMAIN batch : batch[i] \in Rows
  BY <1>1
<1>3. I \subseteq Nat /\ I # {}
  BY <1>2 DEF SeqsAt, Accepted
<1>4. PICK i \in I : \A j \in I : i <= j
  BY <1>3, LeastNatural
<1>5. \E k \in Accepted(batch) :
         batch[k].seq = s /\ \A j \in Accepted(batch) : batch[j].seq = s => k <= j
  BY <1>4
<1> QED
  BY <1>2, <1>5 DEF FirstWith, Accepted

\* The seqs of any part of a batch are positive.
LEMMA SeqsArePositive ==
    ASSUME NEW batch \in Batches, NEW I \in SUBSET DOMAIN batch
    PROVE  SeqsAt(batch, I) \subseteq Nat \ {0}
<1>1. \A i \in DOMAIN batch : batch[i] \in Rows
  BY BatchesAreRows
<1> QED
  BY <1>1, RowsHaveSeq DEF SeqsAt

\* A commit only adds to what is resolved, and leaves what is stored.
LEMMA StoreGrows ==
    ASSUME NEW batch \in Batches, Store(batch)
    PROVE  /\ Resolved \subseteq Resolved'
           /\ \A s \in DOMAIN records : s \in DOMAIN records' /\ records'[s] = records[s]
BY DEF Store, Insert, Quarantine, Resolved

LEMMA InitIInv == Init => IInv
BY DEF Init, IInv, TypeOK, AckCoversResolved

\* One step of the endpoint preserves the invariant.
LEMMA NextIInv == IInv /\ [Next]_vars => IInv'
<1> SUFFICES ASSUME IInv, [Next]_vars PROVE IInv'
  OBVIOUS
<1> USE DEF IInv
<1>1. ASSUME NEW batch \in Batches, StoreBatch(batch) PROVE IInv'
  <2>1. DOMAIN records' = DOMAIN records \cup SeqsAt(batch, Accepted(batch))
    BY <1>1 DEF StoreBatch, Store, Insert
  <2>2. SeqsAt(batch, Accepted(batch)) \subseteq Nat \ {0}
    BY SeqsArePositive DEF Accepted
  <2>3. SeqsAt(batch, DOMAIN batch \ Accepted(batch)) \subseteq Nat \ {0}
    BY SeqsArePositive
  <2>4. ASSUME NEW s \in DOMAIN records' PROVE records'[s] \in Rows /\ records'[s].seq = s
    <3>1. CASE s \in DOMAIN records
      BY <1>1, <3>1 DEF StoreBatch, Store, Insert, TypeOK
    <3>2. CASE s \notin DOMAIN records
      <4>1. s \in SeqsAt(batch, Accepted(batch))
        BY <2>1, <3>2
      <4>2. records'[s] = FirstWith(batch, s)
        BY <1>1, <3>2, <4>1 DEF StoreBatch, Store, Insert
      <4> QED
        BY <4>1, <4>2, FirstWithType
    <3> QED
      BY <3>1, <3>2
  <2>5. TypeOK'
    BY <1>1, <2>1, <2>2, <2>3, <2>4 DEF StoreBatch, Store, Quarantine, TypeOK
  <2>6. AckCoversResolved'
    <3>1. Resolved \subseteq Resolved'
      BY <1>1, StoreGrows DEF StoreBatch
    <3> QED
      BY <1>1, <3>1 DEF StoreBatch, AckCoversResolved
  <2> QED
    BY <2>5, <2>6
<1>2. CASE AnswerRequest
  BY <1>2 DEF AnswerRequest, ComputeAck, IsContiguousEnd, AckCoversResolved, TypeOK, Resolved
<1>3. CASE UNCHANGED vars
  BY <1>3 DEF vars, AckCoversResolved, TypeOK, Resolved
<1> QED
  BY <1>1, <1>2, <1>3 DEF Next

\* An answer is at least the previous one: the scan cannot stop inside a range
\* that was free of holes when the previous answer was computed.
LEMMA StepAckGrows == IInv /\ [Next]_vars => answer' >= answer
<1> SUFFICES ASSUME IInv, [Next]_vars PROVE answer' >= answer
  OBVIOUS
<1>1. CASE AnswerRequest
  <2>1. PICK n \in Nat : IsContiguousEnd(n) /\ answer' = n
    BY <1>1 DEF AnswerRequest, ComputeAck
  <2>2. n + 1 \notin 1 .. answer
    BY <2>1 DEF IsContiguousEnd, IInv, AckCoversResolved
  <2> QED
    BY <2>1, <2>2 DEF IInv, TypeOK
<1>2. CASE ~AnswerRequest
  BY <1>2 DEF Next, StoreBatch, vars, IInv, TypeOK
<1> QED
  BY <1>1, <1>2

-----------------------------------------------------------------------------
\* The invariant holds in every state.
THEOREM Invariance == Spec => []IInv
BY InitIInv, NextIInv, PTL DEF Spec

\* What push() acknowledges is resolved, for every interleaving of handlers.
THEOREM AckSound == Spec => []AckCoversResolved
<1>1. IInv => AckCoversResolved
  BY DEF IInv
<1> QED
  BY <1>1, Invariance, PTL

\* The cumulative ack of push() never goes back.
THEOREM AckMonotone == Spec => AckNeverRegresses
<1>1. IInv /\ [Next]_vars => [answer' >= answer]_vars
  BY StepAckGrows
<1> QED
  BY <1>1, Invariance, PTL DEF Spec, AckNeverRegresses

\* A stored row is never replaced or removed by a later request.
THEOREM StoredForever == Spec => RecordsImmutable
<1> DEFINE Kept == \A s \in DOMAIN records : s \in DOMAIN records' /\ records'[s] = records[s]
<1>1. [Next]_vars => [Kept]_vars
  BY StoreGrows DEF Next, StoreBatch, AnswerRequest
<1> QED
  BY <1>1, PTL DEF Spec, RecordsImmutable

-----------------------------------------------------------------------------
(***************************************************************************)
(* The server                                                              *)
(***************************************************************************)
DeviceRow == [key : Nat, revoked : BOOLEAN, serial : Nat]
Provision == [pc : {"upsert", "serial", "assign"}, dev : Devices, key : Nat,
              found : BOOLEAN, serial : Nat]

\* The registry's rows.
RegistryType ==
    /\ minted \in Nat /\ counter \in Nat
    /\ Bootstrap \in DOMAIN devices
    /\ devices \in [DOMAIN devices -> DeviceRow]

\* A provisioning request in flight, and the row it relies on.
HandlerType ==
    /\ DOMAIN req = Threads
    /\ \A t \in Threads : req[t].pc \in {"upsert", "serial", "assign"} =>
          /\ req[t] \in Provision
          /\ (req[t].pc # "upsert" \/ req[t].found) => req[t].dev \in DOMAIN devices

\* No two rows share a key, and none has a key that was not minted.
KeysDistinct ==
    /\ \A d \in DOMAIN devices : devices[d].key <= minted
    /\ \A d, e \in DOMAIN devices :
          d # e /\ devices[d].key # 0 => devices[d].key # devices[e].key

\* A key that waits to be stored is new to the registry and to other requests.
KeysFresh ==
    /\ \A t \in Threads : req[t].pc = "upsert" =>
          /\ req[t].key \in 1 .. minted /\ req[t].key \notin dead
          /\ \A d \in DOMAIN devices : devices[d].key # req[t].key
    /\ \A t, u \in Threads :
          t # u /\ req[t].pc = "upsert" /\ req[u].pc = "upsert" => req[t].key # req[u].key

\* A revoked key is in no row, or in a revoked one.
DeadRevoked ==
    /\ dead \subseteq 1 .. minted
    /\ \A d \in DOMAIN devices : devices[d].key \in dead => devices[d].revoked

RegistryInv ==
    /\ RegistryType /\ HandlerType /\ KeysDistinct /\ KeysFresh /\ DeadRevoked
    /\ SerialsUnique

\* The calibration that is in effect is the newest one published.
VersionInv ==
    /\ calibration.version \in Nat
    /\ \A c \in published : c.version \in Nat /\ c.version <= calibration.version
    /\ VersionIdentifiesK

\* A waiting push carries a list of rows a request may carry.
BatchInv ==
    /\ DOMAIN req = Threads
    /\ \A t \in Threads : req[t].pc = "store" /\ req[t].dev = Meter => req[t].batch \in Batches

-----------------------------------------------------------------------------
\* What a step does, by the part of the state it writes.
LEMMA StepKinds ==
    ASSUME [SNext]_svars
    PROVE  \/ UNCHANGED svars
           \/ \E t \in Threads : KfactorUpdate(t) \/ PushStore(t) \/ PushAck(t)
           \/ \E t \in Threads, d \in Devices, batch \in Batches \cup {<<>>} :
                 PushAuth(t, d, batch) /\ (d = Meter => batch \in Batches)
           \/ \E t \in Threads, k \in Factors : KfactorSelect(t, k)
           \/ \E t \in Threads, d \in Devices : ProvisionSelect(t, d)
           \/ \E t \in Threads : ProvisionConflict(t) \/ ProvisionKnown(t) \/ ProvisionUpsert(t)
           \/ \E t \in Threads : ReadSerial(t) \/ AssignSerial(t)
           \/ \E d \in Devices : RevokeDeviceKey(d) \/ RotateDeviceKey(d)
           \/ Restart
BY ServerConstants DEF SNext, ThreadStep

-----------------------------------------------------------------------------
\* Only set_kfactor()'s update writes the calibration.
LEMMA SettingsKept ==
    ASSUME [SNext]_svars
    PROVE  UNCHANGED settings \/ \E t \in Threads : KfactorUpdate(t)
BY StepKinds
DEF svars, settings, PushStore, PushAck, PushAuth, KfactorSelect, ProvisionSelect,
    ProvisionConflict, ProvisionKnown, ProvisionUpsert, ReadSerial, AssignSerial,
    RevokeDeviceKey, RotateDeviceKey, Restart

LEMMA VersionInit == SInit => VersionInv
BY DEF SInit, VersionInv, VersionIdentifiesK

LEMMA VersionStep == VersionInv /\ [SNext]_svars => VersionInv'
<1> SUFFICES ASSUME VersionInv, [SNext]_svars PROVE VersionInv'
  OBVIOUS
<1>1. CASE UNCHANGED settings
  BY <1>1 DEF settings, VersionInv, VersionIdentifiesK
<1>2. ASSUME NEW t \in Threads, KfactorUpdate(t) PROVE VersionInv'
  BY <1>2 DEF KfactorUpdate, NewVersion, VersionInv, VersionIdentifiesK
<1> QED
  BY <1>1, <1>2, SettingsKept

\* However edits of the K-factor interleave (server.py, set_kfactor()), a version
\* that a device stamps on a record names one calibration.
THEOREM VersionsUnambiguous == SSpec => []VersionIdentifiesK
<1>1. VersionInv => VersionIdentifiesK
  BY DEF VersionInv
<1> QED
  BY <1>1, VersionInit, VersionStep, PTL DEF SSpec

-----------------------------------------------------------------------------
\* The push endpoint inside the server: only push() writes its tables, and with
\* a batch that a request may carry.
LEMMA BatchInit == SInit => BatchInv
BY DEF SInit, BatchInv, Idle

LEMMA BatchStep == BatchInv /\ [SNext]_svars => BatchInv'
<1> SUFFICES ASSUME BatchInv, [SNext]_svars PROVE BatchInv'
  OBVIOUS
<1>1. ASSUME NEW t \in Threads, NEW r, req' = [req EXCEPT ![t] = r],
             r.pc = "store" /\ r.dev = Meter => r.batch \in Batches
      PROVE  BatchInv'
  BY <1>1 DEF BatchInv
<1>2. ASSUME NEW t \in Threads, NEW d \in Devices, NEW batch \in Batches \cup {<<>>},
             PushAuth(t, d, batch), d = Meter => batch \in Batches
      PROVE  BatchInv'
  BY <1>2 DEF PushAuth, Begin, BatchInv
<1>3. ASSUME NEW t \in Threads, NEW d \in Devices, ProvisionSelect(t, d) PROVE BatchInv'
  BY <1>3 DEF ProvisionSelect, Provisioning, Begin, BatchInv
<1>4. ASSUME NEW t \in Threads, NEW k \in Factors, KfactorSelect(t, k) PROVE BatchInv'
  BY <1>4 DEF KfactorSelect, Begin, BatchInv
<1>5. ASSUME NEW t \in Threads,
             \/ KfactorUpdate(t) \/ PushAck(t) \/ ProvisionConflict(t)
             \/ ProvisionKnown(t) \/ AssignSerial(t)
      PROVE  BatchInv'
  BY <1>1, <1>5 DEF KfactorUpdate, PushAck, ProvisionConflict, ProvisionKnown, AssignSerial,
                    Finish, Continue, Idle
<1>6. ASSUME NEW t \in Threads, PushStore(t) PROVE BatchInv'
  BY <1>1, <1>6 DEF PushStore, Continue, Idle
<1>7. ASSUME NEW t \in Threads, ProvisionUpsert(t) \/ ReadSerial(t) PROVE BatchInv'
  BY <1>1, <1>7 DEF ProvisionUpsert, ReadSerial, Continue, Provisioning
<1>8. CASE Restart
  BY <1>8 DEF Restart, BatchInv, Idle
<1>9. ASSUME NEW d \in Devices, RevokeDeviceKey(d) \/ RotateDeviceKey(d) PROVE BatchInv'
  BY <1>9 DEF RevokeDeviceKey, RotateDeviceKey, BatchInv
<1>10. CASE UNCHANGED svars
  BY <1>10 DEF svars, BatchInv
<1> QED
  BY <1>2, <1>3, <1>4, <1>5, <1>6, <1>7, <1>8, <1>9, <1>10, StepKinds

\* A step of the server is a step of the push endpoint, or leaves its tables.
LEMMA PushStep == BatchInv /\ [SNext]_svars => [Next]_vars
<1> SUFFICES ASSUME BatchInv, [SNext]_svars PROVE [Next]_vars
  OBVIOUS
<1>1. ASSUME NEW t \in Threads, PushStore(t) PROVE [Next]_vars
  <2>1. CASE req[t].dev = Meter
    BY <1>1, <2>1 DEF PushStore, BatchInv, StoreBatch, Next
  <2>2. CASE req[t].dev # Meter
    BY <1>1, <2>2 DEF PushStore, vars
  <2> QED
    BY <2>1, <2>2
<1>2. ASSUME NEW t \in Threads, PushAck(t) PROVE [Next]_vars
  BY <1>2 DEF PushAck, AnswerRequest, Next
<1>3. CASE UNCHANGED vars
  BY <1>3
<1>4. \/ UNCHANGED vars
      \/ \E t \in Threads : PushStore(t) \/ PushAck(t)
  BY StepKinds
  DEF svars, KfactorUpdate, PushAuth, KfactorSelect, ProvisionSelect, ProvisionConflict,
      ProvisionKnown, ProvisionUpsert, ReadSerial, AssignSerial, RevokeDeviceKey,
      RotateDeviceKey, Restart
<1> QED
  BY <1>1, <1>2, <1>3, <1>4

\* push() among the other handlers of server.py, with requests in concurrent
\* threads and the process killed at any time, is the endpoint Receiver states.
THEOREM ImplementsReceiver == SSpec => Spec
<1>1. SInit => Init
  BY DEF SInit
<1> QED
  BY <1>1, BatchInit, BatchStep, PushStep, PTL DEF SSpec, Spec

\* Hence whatever the server acknowledges has a terminal disposition, the ack
\* never goes back, and a stored row stays as it is.
THEOREM ServerAckSound == SSpec => []AckCoversResolved /\ AckNeverRegresses /\ RecordsImmutable
BY ImplementsReceiver, AckSound, AckMonotone, StoredForever, PTL

-----------------------------------------------------------------------------
\* The registry.
LEMMA RegistryInit == SInit => RegistryInv
BY DEF SInit, RegistryInv, RegistryType, HandlerType, KeysDistinct, KeysFresh, DeadRevoked,
       SerialsUnique, Row, DeviceRow, BootstrapKey, Idle

\* A step that leaves the registry alone and ends or restarts handlers.
LEMMA HandlersEnd ==
    ASSUME RegistryInv, UNCHANGED <<devices, minted, counter, dead>>, DOMAIN req' = Threads,
           \A t \in Threads : req'[t] = req[t] \/ req'[t].pc \notin {"upsert", "serial", "assign"}
    PROVE  RegistryInv'
<1>1. RegistryType' /\ KeysDistinct' /\ DeadRevoked' /\ SerialsUnique'
  BY DEF RegistryInv, RegistryType, KeysDistinct, DeadRevoked, SerialsUnique
<1>2. HandlerType'
  BY DEF RegistryInv, HandlerType
<1>3. KeysFresh'
  BY DEF RegistryInv, KeysFresh
<1> QED
  BY <1>1, <1>2, <1>3 DEF RegistryInv

\* Row d gets a key that no row has and nobody revoked; its serial stays.
LEMMA KeyStored ==
    ASSUME RegistryInv, NEW d, NEW key \in Nat \ {0}, NEW serial \in Nat,
           devices' \in [DOMAIN devices' -> DeviceRow],
           DOMAIN devices' = DOMAIN devices \cup {d},
           devices'[d].key = key, devices'[d].serial = serial,
           \A e \in DOMAIN devices : e # d => devices'[e] = devices[e],
           d \in DOMAIN devices => serial = devices[d].serial,
           d \notin DOMAIN devices => serial = 0,
           \A e \in DOMAIN devices : devices[e].key # key,
           key <= minted', minted <= minted', minted' \in Nat,
           counter' \in Nat, UNCHANGED dead, key \notin dead
    PROVE  RegistryType' /\ KeysDistinct' /\ DeadRevoked' /\ SerialsUnique'
<1>1. RegistryType'
  BY DEF RegistryInv, RegistryType
<1>2. KeysDistinct'
  BY DEF RegistryInv, RegistryType, DeviceRow, KeysDistinct
<1>3. DeadRevoked'
  BY DEF RegistryInv, RegistryType, DeviceRow, DeadRevoked
<1>4. SerialsUnique'
  BY DEF RegistryInv, RegistryType, DeviceRow, SerialsUnique
<1> QED
  BY <1>1, <1>2, <1>3, <1>4

LEMMA ProvisionSelectPreserves ==
    ASSUME RegistryInv, NEW t \in Threads, NEW d \in Devices, ProvisionSelect(t, d)
    PROVE  RegistryInv'
<1> USE DEF RegistryInv, ProvisionSelect, Begin
<1>1. RegistryType' /\ KeysDistinct' /\ DeadRevoked' /\ SerialsUnique'
  BY DEF RegistryType, KeysDistinct, DeadRevoked, SerialsUnique, DeviceRow
<1>2. HandlerType'
  <2>1. PICK found \in BOOLEAN, serial \in Nat :
          /\ req' = [req EXCEPT ![t] = Provisioning("upsert", d, minted + 1, found, serial)]
          /\ found => d \in DOMAIN devices
    <3>1. CASE d \in DOMAIN devices
      <4>1. devices[d].serial \in Nat
        BY <3>1 DEF RegistryType, DeviceRow
      <4>2. req' = [req EXCEPT ![t] =
                      Provisioning("upsert", d, minted + 1, TRUE, devices[d].serial)]
        BY <3>1 DEF Provisioning
      <4> QED
        BY <3>1, <4>1, <4>2
    <3>2. CASE d \notin DOMAIN devices
      <4>1. req' = [req EXCEPT ![t] = Provisioning("upsert", d, minted + 1, FALSE, 0)]
        <5>1. (d \in DOMAIN devices) = FALSE
          BY <3>2, SMT
        <5> QED
          BY <3>2, <5>1, Zenon DEF Provisioning
      <4> QED
        BY <4>1
    <3> QED
      BY <3>1, <3>2
  <2> QED
    BY <2>1 DEF HandlerType, Provisioning, Provision, RegistryType
<1>3. KeysFresh'
  BY DEF HandlerType, KeysFresh, Provisioning, RegistryType, KeysDistinct, DeadRevoked, DeviceRow
<1> QED
  BY <1>1, <1>2, <1>3

LEMMA ProvisionKnownPreserves ==
    ASSUME RegistryInv, NEW t \in Threads, ProvisionKnown(t)
    PROVE  RegistryInv'
<1> DEFINE d == req[t].dev
           key == req[t].key
           serial == devices[req[t].dev].serial
<1>1. /\ req[t] \in Provision /\ req[t].pc = "upsert"
      /\ req[t].found => d \in DOMAIN devices
  BY DEF RegistryInv, HandlerType, ProvisionKnown
<1>2. /\ d \in DOMAIN devices => serial = devices[d].serial
      /\ d \notin DOMAIN devices => serial = 0
      /\ serial \in Nat
  BY <1>1 DEF RegistryInv, RegistryType, DeviceRow, ProvisionKnown
<1>3. /\ key \in Nat \ {0} /\ key <= minted /\ key \notin dead
      /\ \A e \in DOMAIN devices : devices[e].key # key
  BY <1>1 DEF RegistryInv, RegistryType, KeysFresh
<1>4. /\ Put(d, Row(key, FALSE, serial))
      /\ minted' = minted /\ minted \in Nat /\ counter' \in Nat /\ UNCHANGED dead
  BY DEF ProvisionKnown, RegistryInv, RegistryType
<1> HIDE DEF d, key, serial
<1>5. RegistryType' /\ KeysDistinct' /\ DeadRevoked' /\ SerialsUnique'
  <2>1. /\ devices' \in [DOMAIN devices' -> DeviceRow]
        /\ DOMAIN devices' = DOMAIN devices \cup {d}
        /\ devices'[d].key = key /\ devices'[d].serial = serial
        /\ \A e \in DOMAIN devices : e # d => devices'[e] = devices[e]
    BY <1>2, <1>3, <1>4 DEF Put, Row, DeviceRow, RegistryInv, RegistryType
  <2> QED
    BY <1>2, <1>3, <1>4, <2>1, KeyStored
<1> USE DEF d, key, serial
<1>6. HandlerType'
  BY <1>1 DEF RegistryInv, ProvisionKnown, Finish, Continue, HandlerType, Put, Idle
<1>7. KeysFresh'
  BY <1>1 DEF RegistryInv, ProvisionKnown, Finish, Continue, HandlerType, KeysFresh, Put, Row, Idle
<1> QED
  BY <1>5, <1>6, <1>7 DEF RegistryInv

LEMMA ProvisionUpsertPreserves ==
    ASSUME RegistryInv, NEW t \in Threads, ProvisionUpsert(t)
    PROVE  RegistryInv'
<1> DEFINE d == req[t].dev
           key == req[t].key
           serial == IF req[t].found THEN devices[req[t].dev].serial ELSE 0
<1>1. /\ req[t] \in Provision /\ req[t].pc = "upsert"
      /\ req[t].found => d \in DOMAIN devices
  BY DEF RegistryInv, HandlerType, ProvisionUpsert
<1>2. /\ d \in DOMAIN devices => serial = devices[d].serial
      /\ d \notin DOMAIN devices => serial = 0
      /\ serial \in Nat
  BY <1>1 DEF RegistryInv, RegistryType, DeviceRow, ProvisionUpsert
<1>3. /\ key \in Nat \ {0} /\ key <= minted /\ key \notin dead
      /\ \A e \in DOMAIN devices : devices[e].key # key
  BY <1>1 DEF RegistryInv, RegistryType, KeysFresh
<1>4. /\ Put(d, Row(key, FALSE, serial))
      /\ minted' = minted /\ minted \in Nat /\ counter' \in Nat /\ UNCHANGED dead
  <2>1. Put(d, Row(key, FALSE, serial))
    BY DEF ProvisionUpsert
  <2>2. minted' = minted /\ minted \in Nat /\ counter' \in Nat /\ UNCHANGED dead
    BY DEF ProvisionUpsert, RegistryInv, RegistryType
  <2> QED
    BY <2>1, <2>2
<1> HIDE DEF d, key, serial
<1>5. RegistryType' /\ KeysDistinct' /\ DeadRevoked' /\ SerialsUnique'
  <2>1. /\ devices' \in [DOMAIN devices' -> DeviceRow]
        /\ DOMAIN devices' = DOMAIN devices \cup {d}
        /\ devices'[d].key = key /\ devices'[d].serial = serial
        /\ \A e \in DOMAIN devices : e # d => devices'[e] = devices[e]
    BY <1>2, <1>3, <1>4 DEF Put, Row, DeviceRow, RegistryInv, RegistryType
  <2> QED
    BY <1>2, <1>3, <1>4, <2>1, KeyStored
<1> USE DEF d, key, serial
<1>6. HandlerType'
  BY <1>1 DEF RegistryInv, ProvisionUpsert, Continue, HandlerType, Put, Provisioning, Provision
<1>7. KeysFresh'
  BY <1>1 DEF RegistryInv, ProvisionUpsert, Continue, HandlerType, KeysFresh, Put, Row, Provisioning, Provision
<1> QED
  BY <1>5, <1>6, <1>7 DEF RegistryInv

LEMMA ReadSerialPreserves ==
    ASSUME RegistryInv, NEW t \in Threads, ReadSerial(t)
    PROVE  RegistryInv'
<1> USE DEF RegistryInv, ReadSerial, Continue, registry
<1>1. RegistryType' /\ KeysDistinct' /\ DeadRevoked' /\ SerialsUnique'
  BY DEF RegistryType, KeysDistinct, DeadRevoked, SerialsUnique
<1>2. HandlerType'
  BY DEF HandlerType, Provisioning, Provision, RegistryType
<1>3. KeysFresh'
  BY DEF HandlerType, KeysFresh, Provisioning
<1> QED
  BY <1>1, <1>2, <1>3

LEMMA AssignSerialPreserves ==
    ASSUME RegistryInv, NEW t \in Threads, AssignSerial(t)
    PROVE  RegistryInv'
<1> USE DEF AssignSerial, Finish, Continue
<1>1. req[t] \in Provision /\ req[t].dev \in DOMAIN devices
  BY DEF RegistryInv, HandlerType
<1>2. CASE UNCHANGED devices
  BY <1>2, HandlersEnd DEF RegistryInv, HandlerType, Idle
<1>3. CASE SerialFree(req[t].serial, req[t].dev)
  <2> DEFINE d == req[t].dev
  <2>1. /\ DOMAIN devices' = DOMAIN devices
        /\ \A e \in DOMAIN devices : devices'[e] =
              IF e = d THEN Row(devices[d].key, devices[d].revoked, req[t].serial) ELSE devices[e]
    BY <1>1, <1>3 DEF Put
  <2>2. RegistryType'
    BY <1>1, <1>3 DEF RegistryInv, RegistryType, DeviceRow, Put, Row, Provision
  <2>3. KeysDistinct' /\ DeadRevoked'
    BY <2>1 DEF RegistryInv, KeysDistinct, DeadRevoked, Row
  <2>4. SerialsUnique'
    BY <1>3, <2>1 DEF RegistryInv, SerialsUnique, SerialFree, Row
  <2>5. HandlerType'
    BY <2>1 DEF RegistryInv, HandlerType, Idle
  <2>6. KeysFresh'
    BY <2>1 DEF RegistryInv, HandlerType, KeysFresh, Row, Idle
  <2> QED
    BY <2>2, <2>3, <2>4, <2>5, <2>6 DEF RegistryInv
<1> QED
  BY <1>2, <1>3

\* Revoking and rotating.
LEMMA RevokePreserves ==
    ASSUME RegistryInv, NEW d \in Devices, RevokeDeviceKey(d)
    PROVE  RegistryInv'
<1>1. /\ devices' \in [DOMAIN devices -> DeviceRow]
      /\ DOMAIN devices' = DOMAIN devices
      /\ devices'[d].revoked
      /\ \A e \in DOMAIN devices :
            /\ e # d => devices'[e] = devices[e]
            /\ devices'[e].key = devices[e].key /\ devices'[e].serial = devices[e].serial
  BY DEF RevokeDeviceKey, Put, Row, RegistryInv, RegistryType, DeviceRow
<1>2. RegistryType' /\ SerialsUnique'
  BY <1>1 DEF RevokeDeviceKey, RegistryInv, RegistryType, SerialsUnique
<1>3. KeysDistinct'
  BY <1>1 DEF RevokeDeviceKey, RegistryInv, KeysDistinct
<1>4. DeadRevoked'
  BY <1>1 DEF RevokeDeviceKey, RegistryInv, RegistryType, DeviceRow, KeysDistinct, DeadRevoked
<1>5. HandlerType'
  BY <1>1 DEF RevokeDeviceKey, RegistryInv, HandlerType
<1>6. KeysFresh'
  BY <1>1 DEF RevokeDeviceKey, RegistryInv, KeysFresh
<1> QED
  BY <1>2, <1>3, <1>4, <1>5, <1>6 DEF RegistryInv

LEMMA RotatePreserves ==
    ASSUME RegistryInv, NEW d \in Devices, RotateDeviceKey(d)
    PROVE  RegistryInv'
<1> DEFINE key == minted + 1
           serial == devices[d].serial
<1>1. /\ d \in DOMAIN devices /\ serial \in Nat /\ serial = devices[d].serial
      /\ minted \in Nat /\ key \in Nat \ {0} /\ minted' = key
      /\ counter' \in Nat /\ UNCHANGED <<dead, req>>
  BY DEF RotateDeviceKey, RegistryInv, RegistryType, DeviceRow
<1>2. key \notin dead /\ \A e \in DOMAIN devices : devices[e].key # key
  BY <1>1 DEF RegistryInv, RegistryType, DeviceRow, KeysDistinct, DeadRevoked
<1>3. /\ devices' \in [DOMAIN devices' -> DeviceRow]
      /\ DOMAIN devices' = DOMAIN devices \cup {d}
      /\ devices'[d].key = key /\ devices'[d].serial = serial
      /\ \A e \in DOMAIN devices : e # d => devices'[e] = devices[e]
  BY <1>1 DEF RotateDeviceKey, Put, Row, DeviceRow, RegistryInv, RegistryType
<1>4. minted <= key
  BY <1>1
<1>5. HandlerType'
  BY <1>1, <1>3 DEF RegistryInv, HandlerType
<1>6. KeysFresh'
  BY <1>1, <1>3 DEF RegistryInv, KeysFresh
<1>7. RegistryType' /\ KeysDistinct' /\ DeadRevoked' /\ SerialsUnique'
  <2> HIDE DEF key, serial
  <2> QED
    BY <1>1, <1>2, <1>3, <1>4, KeyStored
<1> QED
  BY <1>5, <1>6, <1>7 DEF RegistryInv

\* push(): the request itself, and the registry row it may add.
LEMMA PushStorePreserves ==
    ASSUME RegistryInv, NEW t \in Threads, PushStore(t)
    PROVE  RegistryInv'
<1>1. /\ DOMAIN req' = Threads /\ UNCHANGED <<minted, counter, dead>>
      /\ \A u \in Threads : req'[u] = req[u] \/ req'[u].pc \notin {"upsert", "serial", "assign"}
  BY DEF PushStore, Continue, Idle, RegistryInv, HandlerType
<1>2. CASE UNCHANGED devices
  BY <1>1, <1>2, HandlersEnd
<1>3. CASE req[t].dev \notin DOMAIN devices
  <2> DEFINE d == req[t].dev
  <2>0. d \notin DOMAIN devices /\ Put(d, Row(0, FALSE, 0))
    BY <1>3 DEF PushStore
  <2> HIDE DEF d
  <2>1. /\ devices' \in [DOMAIN devices' -> DeviceRow]
        /\ DOMAIN devices' = DOMAIN devices \cup {d}
        /\ devices'[d].key = 0 /\ devices'[d].serial = 0
        /\ \A e \in DOMAIN devices : devices'[e] = devices[e]
    BY <2>0 DEF Put, Row, DeviceRow, RegistryInv, RegistryType
  <2>2. RegistryType' /\ SerialsUnique'
    BY <1>1, <2>1 DEF RegistryInv, RegistryType, SerialsUnique
  <2>3. KeysDistinct' /\ DeadRevoked'
    BY <1>1, <2>1 DEF RegistryInv, RegistryType, KeysDistinct, DeadRevoked
  <2>4. HandlerType' /\ KeysFresh'
    BY <1>1, <2>1 DEF RegistryInv, HandlerType, KeysFresh
  <2> QED
    BY <2>2, <2>3, <2>4 DEF RegistryInv
<1> QED
  BY <1>2, <1>3 DEF PushStore

LEMMA RegistryStep == RegistryInv /\ [SNext]_svars => RegistryInv'
<1> SUFFICES ASSUME RegistryInv, [SNext]_svars PROVE RegistryInv'
  OBVIOUS
<1>1. DOMAIN req = Threads
  BY DEF RegistryInv, HandlerType
<1>2. ASSUME NEW t \in Threads, NEW d \in Devices, NEW batch \in Batches \cup {<<>>},
             PushAuth(t, d, batch)
      PROVE  RegistryInv'
  BY <1>1, <1>2, HandlersEnd DEF PushAuth, Begin, registry
<1>3. ASSUME NEW t \in Threads, NEW k \in Factors, KfactorSelect(t, k) PROVE RegistryInv'
  BY <1>1, <1>3, HandlersEnd DEF KfactorSelect, Begin, registry
<1>4. ASSUME NEW t \in Threads, KfactorUpdate(t) \/ PushAck(t) \/ ProvisionConflict(t)
      PROVE  RegistryInv'
  BY <1>1, <1>4, HandlersEnd
  DEF KfactorUpdate, PushAck, ProvisionConflict, Finish, Continue, Idle, registry
<1>5. CASE Restart
  <2>1. UNCHANGED devices
    BY <1>5 DEF Restart, Seed, RegistryInv, RegistryType
  <2> QED
    BY <1>5, <2>1, HandlersEnd DEF Restart, Idle
<1>6. CASE UNCHANGED svars
  BY <1>1, <1>6, HandlersEnd DEF svars, registry
<1> QED
  BY <1>2, <1>3, <1>4, <1>5, <1>6, StepKinds, PushStorePreserves, ProvisionSelectPreserves,
     ProvisionKnownPreserves, ProvisionUpsertPreserves, ReadSerialPreserves,
     AssignSerialPreserves, RevokePreserves, RotatePreserves

\* The registry's invariant holds in every reachable state.
THEOREM RegistryInvariance == SSpec => []RegistryInv
BY RegistryInit, RegistryStep, PTL DEF SSpec

\* No two devices ever hold the same serial, although allocate_logical_device_id()
\* reads the counter back after its commit.
THEOREM SerialsStayUnique == SSpec => []SerialsUnique
<1>1. RegistryInv => SerialsUnique
  BY DEF RegistryInv
<1> QED
  BY <1>1, RegistryInvariance, PTL

\* A revoked key is never accepted again by require_api_key(), through
\* rotations, provisioning, restarts and any interleaving of them.
THEOREM RevocationHolds == SSpec => []RevokedStaysDead
<1>1. RegistryInv => RevokedStaysDead
  BY DEF RegistryInv, DeadRevoked, RevokedStaysDead, Valid
<1> QED
  BY <1>1, RegistryInvariance, PTL

=============================================================================
