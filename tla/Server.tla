-------------------------------- MODULE Server --------------------------------
(***************************************************************************)
(* server.py around its push endpoint: the device registry with its keys   *)
(* and manufacturing serials, the calibration, and the handlers that Flask *)
(* runs in concurrent threads over one SQLite database.                    *)
(*                                                                         *)
(* An action is what one transaction, or one SELECT outside a transaction, *)
(* does: between two of them any other thread may run, and the process may *)
(* be killed.  Receiver keeps the stored rows of one device, Meter; a push *)
(* that names another device only registers it here.  Keys are numbers,    *)
(* minted fresh; 0 stands for NULL.  Of the audit table the model keeps    *)
(* which keys and which calibration versions it names.                     *)
(***************************************************************************)
EXTENDS Receiver

CONSTANTS
    Devices,    \* device ids, the bootstrap row's among them
    Bootstrap,  \* "legacy-default-key"
    Meter,      \* the device whose rows Receiver keeps
    Threads,
    Factors,    \* K-factors
    MaxKey,     \* bound: keys ever minted, the bootstrap key included
    MaxVersion, \* bound: calibration versions
    MaxRequests \* bound: requests handled in threads

ASSUME ServerConstants ==
    /\ Bootstrap \in Devices /\ Meter \in Devices \ {Bootstrap} /\ Factors # {}
    /\ MaxKey \in Nat \ {0} /\ MaxVersion \in Nat \ {0} /\ MaxRequests \in Nat

VARIABLES
    devices,    \* device id -> [key, revoked, serial], the rows of devices
    counter,    \* id_counters: the last serial handed out
    minted,     \* the last key generate_api_key() returned
    calibration, \* [k, version]
    traced,     \* the keys an audit event records
    logged,     \* the versions CALIBRATION_CHANGED events claim
    req,        \* thread -> its handler's locals, or Idle
    requests,   \* requests handled so far
    dead,       \* history: keys that were revoked
    published   \* history: every [k, version] config() could have returned

registry == <<devices, counter, minted, traced>>
settings == <<calibration, logged, published>>
svars == <<vars, registry, settings, req, requests, dead>>

Idle == [pc |-> "idle"]
Row(key, revoked, serial) == [key |-> key, revoked |-> revoked, serial |-> serial]
BootstrapKey == 1

\* require_api_key(): the key is some row's, and the row is not revoked.
Valid(key) == \E d \in DOMAIN devices : devices[d].key = key /\ ~devices[d].revoked

\* UPDATE devices, or INSERT when there is no such row.
Put(d, row) ==
    devices' = [e \in DOMAIN devices \cup {d} |-> IF e = d THEN row ELSE devices[e]]

\* init_db() on a new database.
SInit ==
    /\ Init
    /\ devices = [d \in {Bootstrap} |-> Row(BootstrapKey, FALSE, 0)]
    /\ counter = 0 /\ minted = BootstrapKey
    /\ calibration = [k |-> CHOOSE k \in Factors : TRUE, version |-> 1]
    /\ traced = {} /\ logged = {}
    /\ req = [t \in Threads |-> Idle] /\ requests = 0
    /\ dead = {} /\ published = {calibration}

\* A thread takes a request, goes on to another step of it, or ends it.
Begin(t, r) ==
    /\ req[t] = Idle /\ requests < MaxRequests
    /\ req' = [req EXCEPT ![t] = r]
    /\ requests' = requests + 1
Continue(t, r) == req' = [req EXCEPT ![t] = r] /\ UNCHANGED requests
Finish(t) == Continue(t, Idle)

-----------------------------------------------------------------------------
\* push(): a request arrives; one with an unknown or revoked key is refused,
\* before its body is read.
PushAuth(t, d, batch) ==
    /\ \E key \in 1 .. minted : Valid(key)
    /\ Begin(t, [pc |-> "store", dev |-> d, batch |-> batch])
    /\ UNCHANGED <<vars, registry, settings, dead>>

\* Its transaction: the rows, and the registry row if this device has none.
PushStore(t) ==
    /\ req[t].pc = "store"
    /\ IF req[t].dev = Meter THEN Store(req[t].batch) ELSE UNCHANGED <<records, quarantined>>
    /\ IF req[t].dev \in DOMAIN devices THEN UNCHANGED devices ELSE Put(req[t].dev, Row(0, FALSE, 0))
    /\ Continue(t, IF req[t].dev = Meter THEN [pc |-> "ack"] ELSE Idle)
    /\ UNCHANGED <<answer, counter, minted, traced, settings, dead>>

\* The ack query, after the commit.
PushAck(t) ==
    /\ req[t].pc = "ack"
    /\ \E n \in 0 .. Cardinality(Resolved) : ComputeAck(n)
    /\ Finish(t)
    /\ UNCHANGED <<records, quarantined, registry, settings, dead>>

-----------------------------------------------------------------------------
\* provision_device() in flight: the device, its new key, whether it was found
\* registered and the serial it had or is to get.
Provisioning(pc, d, key, found, serial) ==
    [pc |-> pc, dev |-> d, key |-> key, found |-> found, serial |-> serial]

\* provision_device(): mints a key and looks the device up ...
ProvisionSelect(t, d) ==
    /\ minted < MaxKey
    /\ minted' = minted + 1
    /\ Begin(t, Provisioning("upsert", d, minted + 1, d \in DOMAIN devices,
                             IF d \in DOMAIN devices THEN devices[d].serial ELSE 0))
    /\ UNCHANGED <<vars, devices, counter, traced, settings, dead>>

\* ... the INSERT fails if another thread has registered it meanwhile ...
ProvisionConflict(t) ==
    /\ req[t].pc = "upsert" /\ ~req[t].found /\ req[t].dev \in DOMAIN devices
    /\ Finish(t)
    /\ UNCHANGED <<vars, registry, settings, dead>>

\* ... a device that has its serial gets the key and the event at once ...
ProvisionKnown(t) ==
    /\ req[t].pc = "upsert" /\ req[t].found /\ req[t].serial # 0
    /\ Put(req[t].dev, Row(req[t].key, FALSE, devices[req[t].dev].serial))
    /\ traced' = traced \cup {req[t].key}
    /\ Finish(t)
    /\ UNCHANGED <<vars, counter, minted, settings, dead>>

\* ... another one gets the key, in a transaction that the commit inside
\* allocate_logical_device_id() ends with the counter's increment ...
ProvisionUpsert(t) ==
    /\ req[t].pc = "upsert" /\ req[t].serial = 0
    /\ req[t].found \/ req[t].dev \notin DOMAIN devices
    /\ Put(req[t].dev, Row(req[t].key, FALSE,
                        IF req[t].found THEN devices[req[t].dev].serial ELSE 0))
    /\ counter' = counter + 1
    /\ Continue(t, Provisioning("serial", req[t].dev, req[t].key, req[t].found, 0))
    /\ UNCHANGED <<vars, minted, traced, settings, dead>>

\* ... then reads the counter back ...
ReadSerial(t) ==
    /\ req[t].pc = "serial"
    /\ Continue(t, Provisioning("assign", req[t].dev, req[t].key, req[t].found, counter))
    /\ UNCHANGED <<vars, registry, settings, dead>>

\* The UNIQUE index on logical_device_id.  Mutant: no index.
AlwaysFree(serial, d) == TRUE
SerialFree(serial, d) ==
    \A e \in DOMAIN devices \ {d} : devices[e].serial # serial

\* ... and assigns it, with the event, unless another device holds it.
AssignSerial(t) ==
    /\ req[t].pc = "assign"
    /\ IF SerialFree(req[t].serial, req[t].dev)
       THEN /\ LET row == devices[req[t].dev]
               IN  Put(req[t].dev, Row(row.key, row.revoked, req[t].serial))
            /\ traced' = traced \cup {req[t].key}
       ELSE UNCHANGED <<devices, traced>>
    /\ Finish(t)
    /\ UNCHANGED <<vars, counter, minted, settings, dead>>

-----------------------------------------------------------------------------
\* revoke_device_key() of a registered device.
RevokeDeviceKey(d) ==
    /\ d \in DOMAIN devices
    /\ Put(d, Row(devices[d].key, TRUE, devices[d].serial))
    /\ dead' = dead \cup ({devices[d].key} \ {0})
    /\ UNCHANGED <<vars, counter, minted, traced, settings, req, requests>>

\* rotate_device_key() of a registered device.
RotateDeviceKey(d) ==
    /\ d \in DOMAIN devices /\ minted < MaxKey
    /\ minted' = minted + 1
    /\ Put(d, Row(minted + 1, FALSE, devices[d].serial))
    /\ traced' = traced \cup {minted + 1}
    /\ UNCHANGED <<vars, counter, settings, req, requests, dead>>

-----------------------------------------------------------------------------
\* set_kfactor(): the old row is read for the event ...
KfactorSelect(t, k) ==
    /\ Begin(t, [pc |-> "kfactor", k |-> k, old |-> calibration.version])
    /\ UNCHANGED <<vars, registry, settings, dead>>

\* version=version+1, evaluated inside the UPDATE.  Mutant: from the row read
\* before the transaction.
StaleVersion(t) == req[t].old + 1
NewVersion(t) == calibration.version + 1

\* ... and replaced.
KfactorUpdate(t) ==
    /\ req[t].pc = "kfactor" /\ calibration.version < MaxVersion
    /\ calibration' = [k |-> req[t].k, version |-> NewVersion(t)]
    /\ logged' = logged \cup {req[t].old + 1}
    /\ published' = published \cup {calibration'}
    /\ Finish(t)
    /\ UNCHANGED <<vars, registry, dead>>

-----------------------------------------------------------------------------
\* init_db() on the existing database: INSERT OR IGNORE of the bootstrap row.
\* Mutant: INSERT OR REPLACE.
SeedReplacing ==
    devices' = [d \in DOMAIN devices |->
                  IF d = Bootstrap THEN Row(BootstrapKey, FALSE, 0) ELSE devices[d]]
Seed == IF Bootstrap \in DOMAIN devices THEN UNCHANGED devices
        ELSE Put(Bootstrap, Row(BootstrapKey, FALSE, 0))

\* The process is killed and started again: transactions not committed are
\* rolled back.
Restart ==
    /\ Seed
    /\ req' = [t \in Threads |-> Idle]
    /\ UNCHANGED <<vars, counter, minted, traced, settings, requests, dead>>

ThreadStep(t) ==
    \/ \E batch \in Batches : PushAuth(t, Meter, batch)
    \/ \E d \in Devices \ {Meter} : PushAuth(t, d, <<>>)
    \/ PushStore(t) \/ PushAck(t)
    \/ \E d \in Devices : ProvisionSelect(t, d)
    \/ ProvisionConflict(t) \/ ProvisionKnown(t) \/ ProvisionUpsert(t)
    \/ ReadSerial(t) \/ AssignSerial(t)
    \/ \E k \in Factors : KfactorSelect(t, k)
    \/ KfactorUpdate(t)

SNext ==
    \/ \E t \in Threads : ThreadStep(t)
    \/ \E d \in Devices : RevokeDeviceKey(d) \/ RotateDeviceKey(d)
    \/ Restart

SSpec == SInit /\ [][SNext]_svars

-----------------------------------------------------------------------------
\* Every table and every handler has its type.
STypeOK ==
    /\ TypeOK
    /\ DOMAIN devices \subseteq Devices /\ Bootstrap \in DOMAIN devices
    /\ \A d \in DOMAIN devices :
          devices[d] \in [key : 0 .. minted, revoked : BOOLEAN, serial : 0 .. counter]
    /\ minted \in 1 .. MaxKey
    /\ calibration \in [k : Factors, version : 1 .. MaxVersion]
    /\ traced \subseteq 1 .. minted /\ dead \subseteq 1 .. minted
    /\ \A t \in Threads :
          req[t].pc \in {"idle", "store", "ack", "upsert", "serial", "assign", "kfactor"}

\* No two devices hold the same manufacturing serial, although the counter is
\* read back after the commit that incremented it and another request may have
\* incremented it in between (server.py:646-648).
SerialsUnique ==
    \A d, e \in DOMAIN devices :
        d # e /\ devices[d].serial # 0 => devices[d].serial # devices[e].serial

\* A revoked key never authenticates again: not after a rotation, not after
\* provisioning the device again, and not after a restart, which seeds the
\* bootstrap key (server.py:449-452).
RevokedStaysDead == \A key \in dead : ~Valid(key)

\* A calibration version names one calibration, however edits interleave: the
\* devices stamp records with the version only, and consumption is recomputed
\* from it (server.py:1358-1360).
VersionIdentifiesK == \A a, b \in published : a.version = b.version => a = b

=============================================================================
