-------------------------- MODULE WifiProvisionProofs --------------------------
(***************************************************************************)
(* Proofs for Settings and WifiProvision, for any configurations and       *)
(* networks, any number of versions, commands and cuts: a configuration    *)
(* reported saved is whole, the form saves only what it has connected      *)
(* with, and the calibration version says what calibration is stored.      *)
(***************************************************************************)
EXTENDS WifiProvision, SequenceTheorems, TLAPS

\* A put of key is still to be made.
Left(key) == \E i \in DOMAIN todo : todo[i].key = key

VersionKeys == CalibKeys \cup {"cfg_ver"}
Values == Configs \cup {Default, TRUE} \cup Nat
Puts == [key : SetupKeys \cup VersionKeys \cup {"seeded"}, value : Values]

\* The server's versions only grow, and the device has none that is newer.
Types ==
    /\ todo \in Seq(Puts)
    /\ version \in Nat /\ version # 0 /\ polled \in 0..version
    /\ Get("cfg_ver") \in 0..version
    /\ pc \in {"seed", "wait", "run", "ap", "test", "save"}

\* A namespace that is not seeded holds no calibration and is about to be seeded;
\* loop() never sees one.
Seeding ==
    /\ "seeded" \notin DOMAIN nvs =>
          /\ pc = "seed" /\ Left("seeded")
          /\ polled = 0 /\ reported = None /\ Get("cfg_ver") = 0
          /\ \A i \in DOMAIN todo :
                /\ todo[i].key \notin CalibKeys
                /\ todo[i].key = "cfg_ver" => todo[i].value = 0
                /\ todo[i].key = "seeded" => i = Len(todo)
    /\ "seeded" \in DOMAIN nvs /\ pc = "seed" => todo = <<>>

\* pollConfig()'s puts: its version, put last, and newer than the one stored.
Polling ==
    \A i \in DOMAIN todo : "seeded" \in DOMAIN nvs /\ todo[i].key \in VersionKeys =>
        /\ pc = "run"
        /\ todo[i].value = polled /\ polled > Get("cfg_ver")
        /\ \A j \in DOMAIN todo : todo[j].key = "cfg_ver" => i <= j

\* What the last poll answered is stored, or is still to be put.
Settling ==
    polled # 0 /\ polled \notin NonPositive =>
        \A key \in VersionKeys : Get(key) = polled \/ Left(key)

\* The stored version says what calibration is stored, until the server has a
\* newer one: then some of its values may be there already.
Trusted ==
    Get("cfg_ver") # 0 /\ Get("cfg_ver") \notin NonPositive /\ Get("cfg_ver") = version =>
        \A key \in CalibKeys : Get(key) = version

\* The portal's puts are those of the form, and once it reports a configuration
\* nothing else is being put.
Saving ==
    /\ pc = "test" => todo = <<>> /\ form \in Configs
    /\ pc = "save" =>
          /\ form \in Configs /\ reported = None
          /\ \A key \in SetupKeys : Get(key) = form \/ Left(key)
          /\ \A i \in DOMAIN todo : todo[i].key \in SetupKeys /\ todo[i].value = form
    /\ reported # None => \A i \in DOMAIN todo : todo[i].key \in VersionKeys

\* The station is connected with the credentials the driver was given, and the
\* form saves what it has connected with.
Proving ==
    /\ air \subseteq Good
    /\ link => target.ssid \in air
    /\ pc = "test" => target = Credentials(form, form)
    /\ pc = "save" /\ proven => form \in Good

WInv ==
    /\ Types /\ Seeding /\ Polling /\ Settling /\ Trusted /\ Saving /\ Proving
    /\ SavedWhole /\ ProvenStored

-----------------------------------------------------------------------------
(***************************************************************************)
(* What the handlers put                                                   *)
(***************************************************************************)
\* A put of a known key.
LEMMA ItemIsPut ==
    ASSUME NEW key \in SetupKeys \cup VersionKeys \cup {"seeded"}, NEW value \in Values
    PROVE  /\ Item(key, value) \in Puts
           /\ Item(key, value).key = key /\ Item(key, value).value = value
  BY DEF Item, Puts

\* Store::begin() puts the defaults, and the mark that they are there last.
LEMMA SeedsPuts ==
    ASSUME NEW store, "seeded" \notin DOMAIN store
    PROVE  /\ Seeds(store) \in Seq(Puts) /\ Len(Seeds(store)) = 6
           /\ Seeds(store)[6].key = "seeded"
           /\ \A i \in 1..5 : Seeds(store)[i].key # "seeded"
           /\ \A i \in 1..6 : /\ Seeds(store)[i].key \notin CalibKeys
                              /\ Seeds(store)[i].key = "cfg_ver" => Seeds(store)[i].value = 0
  <1> DEFINE a == Item("server_url", Default)
             b == Item("api_key", Default)
             c == Item("wifi_ssid", Default)
             d == Item("wifi_pass", Default)
             e == Item("cfg_ver", 0)
             f == Item("seeded", TRUE)
  <1>1. /\ a \in Puts /\ b \in Puts /\ c \in Puts /\ d \in Puts /\ e \in Puts /\ f \in Puts
        /\ a.key = "server_url" /\ b.key = "api_key" /\ c.key = "wifi_ssid"
        /\ d.key = "wifi_pass" /\ e.key = "cfg_ver" /\ e.value = 0 /\ f.key = "seeded"
    BY ItemIsPut DEF SetupKeys, VersionKeys, Values
  <1>2. Seeds(store) = <<a, b, c, d, e, f>>
    BY DEF Seeds
  <1> HIDE DEF a, b, c, d, e, f
  <1> QED
    BY <1>1, <1>2 DEF CalibKeys

\* With the mark it puts nothing.
LEMMA SeededPutsNothing == ASSUME NEW store, "seeded" \in DOMAIN store PROVE Seeds(store) = <<>>
  BY DEF Seeds

\* writeConfig_() puts the four values of one configuration.
LEMMA ConfigPuts ==
    ASSUME NEW c \in Configs
    PROVE  /\ writeConfig(c) \in Seq(Puts)
           /\ \A i \in DOMAIN writeConfig(c) : /\ writeConfig(c)[i].key \in SetupKeys
                                               /\ writeConfig(c)[i].value = c
           /\ \A key \in SetupKeys : \E i \in DOMAIN writeConfig(c) : writeConfig(c)[i].key = key
  <1> DEFINE p == Item("wifi_ssid", c)
             q == Item("wifi_pass", c)
             r == Item("server_url", c)
             s == Item("api_key", c)
  <1>1. /\ p \in Puts /\ q \in Puts /\ r \in Puts /\ s \in Puts
        /\ p.key = "wifi_ssid" /\ q.key = "wifi_pass" /\ r.key = "server_url" /\ s.key = "api_key"
        /\ p.value = c /\ q.value = c /\ r.value = c /\ s.value = c
    BY ItemIsPut DEF SetupKeys, Values
  <1>2. writeConfig(c) = <<p, q>> \o <<r, s>>
    BY DEF writeConfig, setWifi
  <1> HIDE DEF p, q, r, s
  <1>3. <<p, q>> \in Seq(Puts) /\ <<r, s>> \in Seq(Puts)
    BY <1>1
  <1> DEFINE w == writeConfig(c)
  <1>4. /\ w \in Seq(Puts) /\ Len(w) = 4 /\ DOMAIN w = 1..4
        /\ w[1] = p /\ w[2] = q /\ w[3] = r /\ w[4] = s
    BY <1>2, <1>3, ConcatProperties
  <1> HIDE DEF w
  <1> SUFFICES /\ w \in Seq(Puts)
               /\ \A i \in DOMAIN w : w[i].key \in SetupKeys /\ w[i].value = c
               /\ \A key \in SetupKeys : \E i \in DOMAIN w : w[i].key = key
    BY DEF w
  <1> QED
    BY <1>1, <1>4 DEF SetupKeys

\* So do the console's commands, with one or two of them.
LEMMA CommandPuts ==
    ASSUME NEW c \in Configs,
           NEW puts \in {<<Item("server_url", c)>>, <<Item("api_key", c)>>, setWifi(c)}
    PROVE  puts \in Seq(Puts) /\ \A i \in DOMAIN puts : puts[i].key \in SetupKeys
  <1> DEFINE p == Item("wifi_ssid", c)
             q == Item("wifi_pass", c)
             r == Item("server_url", c)
             s == Item("api_key", c)
  <1>0. /\ p \in Puts /\ q \in Puts /\ r \in Puts /\ s \in Puts
        /\ p.key = "wifi_ssid" /\ q.key = "wifi_pass" /\ r.key = "server_url" /\ s.key = "api_key"
    BY ItemIsPut DEF SetupKeys, Values
  <1>2. puts = <<r>> \/ puts = <<s>> \/ puts = <<p, q>>
    BY DEF setWifi
  <1> HIDE DEF p, q, r, s
  <1>1. /\ p \in Puts /\ q \in Puts /\ r \in Puts /\ s \in Puts
        /\ p.key \in SetupKeys /\ q.key \in SetupKeys /\ r.key \in SetupKeys /\ s.key \in SetupKeys
    BY <1>0 DEF SetupKeys
  <1>3. CASE puts = <<r>>
    BY <1>1, <1>3
  <1>4. CASE puts = <<s>>
    BY <1>1, <1>4
  <1>5. CASE puts = <<p, q>>
    BY <1>1, <1>5
  <1> QED
    BY <1>2, <1>3, <1>4, <1>5

\* pollConfig() puts nothing it has, a version last, and a calibration only
\* with a positive K.
LEMMA AdoptPuts ==
    ASSUME NEW v \in Nat, v # Get("cfg_ver")
    PROVE  /\ Adopt(v) \in Seq(Puts)
           /\ \A i \in DOMAIN Adopt(v) :
                 /\ Adopt(v)[i].key \in VersionKeys /\ Adopt(v)[i].value = v
                 /\ \A j \in DOMAIN Adopt(v) : Adopt(v)[j].key = "cfg_ver" => i <= j
           /\ v \notin NonPositive =>
                 \A key \in VersionKeys : \E i \in DOMAIN Adopt(v) : Adopt(v)[i].key = key
  <1> DEFINE p == Item("kfactor", v)
             q == Item("density", v)
             r == Item("tref", v)
             s == Item("cfg_ver", v)
  <1>1. /\ p \in Puts /\ q \in Puts /\ r \in Puts /\ s \in Puts
        /\ p.key = "kfactor" /\ q.key = "density" /\ r.key = "tref" /\ s.key = "cfg_ver"
        /\ p.value = v /\ q.value = v /\ r.value = v /\ s.value = v
    BY ItemIsPut DEF VersionKeys, CalibKeys, Values
  <1>2. Adopt(v) = IF v \in NonPositive THEN <<>> \o <<s>> ELSE <<p, q, r>> \o <<s>>
    BY DEF Adopt, setCalib
  <1> HIDE DEF p, q, r, s
  <1>3. <<s>> \in Seq(Puts) /\ <<p, q, r>> \in Seq(Puts)
    BY <1>1
  <1> DEFINE w == Adopt(v)
  <1>4. CASE v \in NonPositive
    <2>1. w = <<s>>
      BY <1>2, <1>3, <1>4, ConcatEmptySeq
    <2> QED
      BY <1>1, <1>4, <2>1 DEF VersionKeys
  <1>5. CASE v \notin NonPositive
    <2>1. w = <<p, q, r>> \o <<s>>
      BY <1>2, <1>5
    <2>2. /\ w \in Seq(Puts) /\ Len(w) = 4 /\ DOMAIN w = 1..4
          /\ w[1] = p /\ w[2] = q /\ w[3] = r /\ w[4] = s
      BY <1>3, <2>1, ConcatProperties
    <2> HIDE DEF w
    <2>3. \A i \in DOMAIN w : w[i].key \in VersionKeys /\ w[i].value = v
      BY <1>1, <2>2 DEF VersionKeys, CalibKeys
    <2>4. \A i, j \in DOMAIN w : w[j].key = "cfg_ver" => i <= j
      BY <1>1, <2>2
    <2>5. \A key \in VersionKeys : \E i \in DOMAIN w : w[i].key = key
      BY <1>1, <2>2 DEF VersionKeys, CalibKeys
    <2> QED
      BY <2>2, <2>3, <2>4, <2>5 DEF w
  <1> QED
    BY <1>4, <1>5

\* A put changes one setting, and leaves the puts behind it.
LEMMA PutEffect ==
    ASSUME todo \in Seq(Puts), Put
    PROVE  LET h == todo[1] IN
           /\ 1 \in DOMAIN todo /\ h \in Puts
           /\ todo' \in Seq(Puts) /\ Len(todo) = Len(todo') + 1
           /\ DOMAIN nvs' = DOMAIN nvs \cup {h.key}
           /\ \A key \in SetupKeys \cup VersionKeys :
                 Get(key)' = IF key = h.key THEN h.value ELSE Get(key)
           /\ \A i \in DOMAIN todo' : i + 1 \in DOMAIN todo /\ todo'[i] = todo[i + 1]
           /\ \A key : Left(key) => key = h.key \/ Left(key)'
           /\ \A key : Left(key)' => Left(key)
  <1>1. /\ todo # <<>> /\ todo' = Tail(todo) /\ todo' \in Seq(Puts)
        /\ Len(todo) \in Nat /\ Len(todo) > 0 /\ Len(todo') = Len(todo) - 1
        /\ Head(todo) = todo[1]
        /\ 1 \in DOMAIN todo /\ todo[1] \in Puts
        /\ DOMAIN todo = 1..Len(todo) /\ DOMAIN todo' = 1..Len(todo')
        /\ \A i \in 1..Len(todo') : todo'[i] = todo[i + 1]
    BY DEF Put
  <1>2. nvs' = WithKey(nvs, todo[1].key, todo[1].value)
    BY <1>1 DEF Put
  <1>3. DOMAIN nvs' = DOMAIN nvs \cup {todo[1].key}
    BY <1>2 DEF WithKey
  <1>4. \A key \in DOMAIN nvs' : nvs'[key] = IF key = todo[1].key THEN todo[1].value ELSE nvs[key]
    BY <1>2 DEF WithKey
  <1>5. \A key : Get(key)' = IF key = todo[1].key THEN todo[1].value ELSE Get(key)
    BY <1>3, <1>4 DEF Get
  <1>6. \A i \in DOMAIN todo' : i + 1 \in DOMAIN todo /\ todo'[i] = todo[i + 1]
    BY <1>1
  <1>7. ASSUME NEW key, Left(key)
        PROVE  key = todo[1].key \/ Left(key)'
    <2>1. PICK i \in DOMAIN todo : todo[i].key = key
      BY <1>7 DEF Left
    <2>2. CASE i = 1
      BY <2>1, <2>2
    <2>3. CASE i # 1
      <3>1. PICK j \in Int : j = i - 1
        BY <1>1
      <3>2. j \in DOMAIN todo' /\ todo'[j] = todo[i]
        BY <1>1, <2>3, <3>1
      <3> QED
        BY <2>1, <3>2 DEF Left
    <2> QED
      BY <2>2, <2>3
  <1>8. ASSUME NEW key, Left(key)'
        PROVE  Left(key)
    BY <1>6, <1>8 DEF Left
  <1> QED
    BY <1>1, <1>3, <1>5, <1>6, <1>7, <1>8

-----------------------------------------------------------------------------
(***************************************************************************)
(* The steps                                                               *)
(***************************************************************************)
\* The part of the invariant that is about the settings, as a step leaves it that
\* changes no setting and no put.
LEMMA SettingsStand ==
    ASSUME WInv, UNCHANGED <<nvs, todo, polled, reported>>,
           version' = version, pc' \in {"seed", "wait", "run", "ap", "test"},
           pc' # pc => todo = <<>> /\ pc' # "seed",
           pc' = "test" => todo = <<>> /\ form' \in Configs
    PROVE  Types' /\ Seeding' /\ Polling' /\ Settling' /\ Trusted' /\ Saving' /\ SavedWhole'
  <1>1. /\ todo' = todo /\ polled' = polled /\ version' = version /\ reported' = reported
        /\ "seeded" \in DOMAIN nvs' <=> "seeded" \in DOMAIN nvs
        /\ \A key : (Get(key)' = Get(key)) /\ (Left(key)' <=> Left(key))
    BY DEF Get, Left
  <1>2. Types' /\ Settling' /\ Trusted' /\ SavedWhole'
    BY <1>1 DEF WInv, Types, Settling, Trusted, SavedWhole
  <1>3. Seeding'
    <2>1. CASE pc' = pc
      BY <1>1, <2>1 DEF WInv, Seeding
    <2>2. CASE pc' # pc
      <3>1. todo = <<>> /\ pc' # "seed"
        BY <2>2
      <3>2. ~Left("seeded")
        BY <3>1 DEF Left
      <3> QED
        BY <1>1, <3>1, <3>2 DEF WInv, Seeding
    <2> QED
      BY <2>1, <2>2
  <1>4. Polling'
    <2>1. CASE pc' = pc
      BY <1>1, <2>1 DEF WInv, Polling
    <2>2. CASE pc' # pc
      BY <1>1, <2>2 DEF Polling
    <2> QED
      BY <2>1, <2>2
  <1>5. Saving'
    BY <1>1 DEF WInv, Saving
  <1> QED
    BY <1>2, <1>3, <1>4, <1>5

\* The driver connects with what it was given.
LEMMA DriverConnectsKeeps == WInv /\ DriverConnects => WInv'
  <1> SUFFICES ASSUME WInv, DriverConnects
               PROVE  WInv'
    OBVIOUS
  <1>1. UNCHANGED <<svars, pc, forceAp, paused, target, air, form, history>> /\ target.ssid \in air
    BY DEF DriverConnects, Reachable
  <1>2. /\ UNCHANGED <<nvs, todo, version, polled, pc, target, air, form, reported, proven>>
    BY <1>1 DEF svars, history
  <1>3. /\ Types' /\ Seeding' /\ Polling' /\ Settling' /\ Trusted' /\ Saving' /\ SavedWhole'
        /\ ProvenStored'
    BY <1>2 DEF WInv, Types, Seeding, Polling, Settling, Trusted, Saving, SavedWhole, ProvenStored,
                Left, Get
  <1>4. Proving'
    BY <1>1, <1>2 DEF WInv, Proving, Credentials
  <1> QED
    BY <1>3, <1>4 DEF WInv

\* A network that goes takes the link with it.
LEMMA NetworksChangeKeeps == WInv /\ NetworksChange => WInv'
  <1> SUFFICES ASSUME WInv, NetworksChange
               PROVE  WInv'
    OBVIOUS
  <1>1. /\ UNCHANGED <<nvs, todo, version, polled, pc, target, form, reported, proven>>
        /\ air' \subseteq Good /\ (link' => target.ssid \in air')
    BY DEF NetworksChange, svars, history
  <1>3. /\ Types' /\ Seeding' /\ Polling' /\ Settling' /\ Trusted' /\ Saving' /\ SavedWhole'
        /\ ProvenStored'
    BY <1>1 DEF WInv, Types, Seeding, Polling, Settling, Trusted, Saving, SavedWhole, ProvenStored,
                Left, Get
  <1>4. Proving'
    BY <1>1 DEF WInv, Proving, Credentials
  <1> QED
    BY <1>3, <1>4 DEF WInv

\* A newer version on the server: the stored one is no longer asked for.
LEMMA PublishKeeps == WInv /\ ServerPublishes => WInv'
  <1> SUFFICES ASSUME WInv, ServerPublishes
               PROVE  WInv'
    OBVIOUS
  <1>1. /\ UNCHANGED <<nvs, todo, polled, pc, target, link, air, form, reported, proven>>
        /\ version \in Nat /\ version' = version + 1
    BY DEF WInv, Types, ServerPublishes, Publish, radio, history
  <1>2. \A key : (Get(key)' = Get(key)) /\ (Left(key)' <=> Left(key))
    BY <1>1 DEF Get, Left
  <1>3. Types' /\ Trusted'
    BY <1>1, <1>2 DEF WInv, Types, Trusted
  <1>4. Seeding' /\ Polling' /\ Settling' /\ Saving' /\ SavedWhole' /\ ProvenStored' /\ Proving'
    BY <1>1, <1>2 DEF WInv, Seeding, Polling, Settling, Saving, SavedWhole, ProvenStored, Proving,
                Credentials
  <1> QED
    BY <1>3, <1>4 DEF WInv

\* A restart with the namespace as it is.
LEMMA DownKeeps ==
    ASSUME WInv, NEW p, NEW force, Down(nvs, p, force), p \in {0, polled},
           p # 0 => todo = <<>>,
           reported' # None => /\ "seeded" \in DOMAIN nvs
                               /\ \A key \in SetupKeys : Get(key) = reported',
           ProvenStored'
    PROVE  WInv'
  <1>1. /\ nvs' = nvs /\ todo' = Seeds(nvs) /\ polled' = p /\ version' = version
        /\ pc' = "seed" /\ link' = FALSE /\ air' = air
    BY DEF Down, Reopen
  <1>2. \A key : Get(key)' = Get(key)
    BY <1>1 DEF Get
  <1>3. Proving' /\ SavedWhole' /\ ProvenStored'
    BY <1>1, <1>2 DEF WInv, Proving, SavedWhole
  <1>4. Trusted'
    BY <1>1, <1>2 DEF WInv, Trusted
  <1>5. CASE "seeded" \in DOMAIN nvs
    <2>0. todo' = <<>>
      BY <1>1, <1>5, SeededPutsNothing
    <2>1. todo' = <<>> /\ todo' \in Seq(Puts) /\ DOMAIN todo' = {}
      BY <2>0
    <2>2. Types'
      BY <1>1, <1>2, <2>1 DEF WInv, Types
    <2>3. Seeding' /\ Polling' /\ Saving'
      BY <1>1, <1>5, <2>1 DEF Seeding, Polling, Saving
    <2>4. Settling'
      <3>1. p # 0 => ~Left("kfactor") /\ \A key : ~Left(key)
        BY DEF Left
      <3> QED
        BY <1>1, <1>2, <3>1 DEF WInv, Settling
    <2> QED
      BY <1>3, <1>4, <2>2, <2>3, <2>4 DEF WInv
  <1>6. CASE "seeded" \notin DOMAIN nvs
    <2>1. /\ todo' \in Seq(Puts) /\ Len(todo') = 6 /\ DOMAIN todo' = 1..6
          /\ todo'[6].key = "seeded" /\ \A i \in 1..5 : todo'[i].key # "seeded"
          /\ \A i \in 1..6 : /\ todo'[i].key \notin CalibKeys
                             /\ todo'[i].key = "cfg_ver" => todo'[i].value = 0
      BY <1>1, <1>6, SeedsPuts
    <2>2. polled = 0 /\ p = 0 /\ Get("cfg_ver") = 0 /\ reported' = None
      BY <1>6 DEF WInv, Seeding
    <2>3. Types' /\ Settling'
      BY <1>1, <1>2, <2>1, <2>2 DEF WInv, Types, Settling
    <2>4. Left("seeded")'
      BY <2>1 DEF Left
    <2>5. Seeding'
      <3>1. \A i \in DOMAIN todo' : todo'[i].key = "seeded" => i = Len(todo')
        BY <2>1
      <3> QED
        BY <1>1, <1>2, <1>6, <2>1, <2>2, <2>4, <3>1 DEF Seeding
    <2>6. Polling' /\ Saving'
      BY <1>1, <1>6, <2>2 DEF Polling, Saving
    <2> QED
      BY <1>3, <1>4, <2>3, <2>5, <2>6 DEF WInv
  <1> QED
    BY <1>5, <1>6

\* A cut loses the puts that were left, and with them what was polled.
LEMMA CutKeeps == ASSUME WInv, NEW force, Cut(force) PROVE WInv'
  <1>1. PICK p \in {0, polled} : Down(nvs, p, force) /\ (p # 0 => todo = <<>>)
    BY DEF Cut
  <1>2. UNCHANGED <<reported, proven>>
    BY DEF Cut
  <1>3. reported' # None => /\ "seeded" \in DOMAIN nvs
                            /\ \A key \in SetupKeys : Get(key) = reported'
    BY <1>2 DEF WInv, Seeding, SavedWhole
  <1>4. ProvenStored'
    BY <1>2 DEF WInv, ProvenStored
  <1> QED
    BY <1>1, <1>3, <1>4, DownKeeps

\* A reboot from the console loses none.
LEMMA RebootKeeps == ASSUME WInv, NEW force, RebootCommand(force) PROVE WInv'
  <1>1. Down(nvs, polled, force) /\ todo = <<>> /\ UNCHANGED <<reported, proven>>
    BY DEF RebootCommand, AtConsole
  <1>2. reported' # None => /\ "seeded" \in DOMAIN nvs
                            /\ \A key \in SetupKeys : Get(key) = reported'
    BY <1>1 DEF WInv, Seeding, SavedWhole
  <1>3. ProvenStored'
    BY <1>1 DEF WInv, ProvenStored
  <1> QED
    BY <1>1, <1>2, <1>3, DownKeeps

\* All puts of the form were made before it is reported saved.
LEMMA SavedKeeps == WInv /\ Saved => WInv'
  <1> SUFFICES ASSUME WInv, Saved
               PROVE  WInv'
    OBVIOUS
  <1>1. /\ Down(nvs, polled, forceAp) /\ pc = "save" /\ todo = <<>>
        /\ reported' = form /\ proven' = proven
    BY DEF Saved
  <1>2. \A key : ~Left(key)
    BY <1>1 DEF Left
  <1>3. "seeded" \in DOMAIN nvs
    BY <1>1 DEF WInv, Seeding
  <1>4. \A key \in SetupKeys : Get(key) = reported'
    BY <1>1, <1>2 DEF WInv, Saving
  <1>5. ProvenStored'
    BY <1>1 DEF WInv, Proving, ProvenStored
  <1> QED
    BY <1>1, <1>3, <1>4, <1>5, DownKeeps

\* An empty namespace is seeded again.
LEMMA FactoryKeeps == WInv /\ FactoryCommand => WInv'
  <1> SUFFICES ASSUME WInv, FactoryCommand
               PROVE  WInv'
    OBVIOUS
  <1>1. /\ nvs' = <<>> /\ todo' = Seeds(<<>>) /\ polled' = 0 /\ version' = version
        /\ pc' = "seed" /\ link' = FALSE /\ air' = air /\ reported' = None
    BY DEF FactoryCommand, Down, Reopen, Forget
  <1>2. "seeded" \notin DOMAIN nvs' /\ "seeded" \notin DOMAIN <<>> /\ Get("cfg_ver")' = 0
    BY <1>1 DEF Get, SetupKeys
  <1>3. /\ todo' \in Seq(Puts) /\ Len(todo') = 6 /\ DOMAIN todo' = 1..6
        /\ todo'[6].key = "seeded" /\ \A i \in 1..5 : todo'[i].key # "seeded"
        /\ \A i \in 1..6 : /\ todo'[i].key \notin CalibKeys
                           /\ todo'[i].key = "cfg_ver" => todo'[i].value = 0
    BY <1>1, <1>2, SeedsPuts
  <1>4. Left("seeded")'
    BY <1>3 DEF Left
  <1>5. Types' /\ Settling' /\ Trusted'
    BY <1>1, <1>2, <1>3 DEF WInv, Types, Settling, Trusted
  <1>6. Seeding'
    <2>1. \A i \in DOMAIN todo' : todo'[i].key = "seeded" => i = Len(todo')
      BY <1>3
    <2> QED
      BY <1>1, <1>2, <1>3, <1>4, <2>1 DEF Seeding
  <1>7. Polling' /\ Saving' /\ Proving' /\ SavedWhole' /\ ProvenStored'
    BY <1>1, <1>2 DEF WInv, Polling, Saving, Proving, SavedWhole, ProvenStored
  <1> QED
    BY <1>5, <1>6, <1>7 DEF WInv

\* One key is put.  A calibration value is put only while an older version is
\* stored, and the version only when all its values are.
LEMMA PutKeeps == WInv /\ PutOne => WInv'
  <1> SUFFICES ASSUME WInv, PutOne
               PROVE  WInv'
    OBVIOUS
  <1> DEFINE h == todo[1]
  <1>1. /\ Put /\ todo \in Seq(Puts)
        /\ UNCHANGED <<version, polled, pc, target, link, air, form, reported, proven>>
    BY DEF WInv, Types, PutOne, Put, radio, history
  <1>2. /\ 1 \in DOMAIN todo /\ h \in Puts
        /\ todo' \in Seq(Puts) /\ Len(todo) = Len(todo') + 1
        /\ DOMAIN nvs' = DOMAIN nvs \cup {h.key}
        /\ \A key \in SetupKeys \cup VersionKeys :
                 Get(key)' = IF key = h.key THEN h.value ELSE Get(key)
        /\ \A i \in DOMAIN todo' : i + 1 \in DOMAIN todo /\ todo'[i] = todo[i + 1]
        /\ \A key : Left(key) => key = h.key \/ Left(key)'
    BY <1>1, PutEffect
  <1>3. DOMAIN todo = 1..Len(todo) /\ DOMAIN todo' = 1..Len(todo') /\ Len(todo') \in Nat
    BY <1>1, <1>2
  <1>4. \A i \in DOMAIN todo' : \E k \in DOMAIN todo : k = i + 1 /\ todo'[i] = todo[k]
    BY <1>2
  <1>5. Get("cfg_ver")' = IF "cfg_ver" = h.key THEN h.value ELSE Get("cfg_ver")
    BY <1>2 DEF VersionKeys
  <1> HIDE DEF h
  <1>6. Proving' /\ ProvenStored'
    BY <1>1 DEF WInv, Proving, ProvenStored, Credentials
  <1>7. CASE "seeded" \notin DOMAIN nvs
    <2>1. /\ pc = "seed" /\ polled = 0 /\ reported = None /\ Get("cfg_ver") = 0 /\ Left("seeded")
          /\ \A i \in DOMAIN todo :
                /\ todo[i].key \notin CalibKeys
                /\ todo[i].key = "cfg_ver" => todo[i].value = 0
                /\ todo[i].key = "seeded" => i = Len(todo)
      BY <1>7 DEF WInv, Seeding
    <2>2. Get("cfg_ver")' = 0
      BY <1>2, <1>5, <2>1 DEF h
    <2>3. Types' /\ Settling' /\ Trusted' /\ Saving' /\ SavedWhole'
      BY <1>1, <1>2, <2>1, <2>2 DEF WInv, Types, Settling, Trusted, Saving, SavedWhole
    <2>4. CASE h.key = "seeded"
      <3>1. Len(todo) = 1 /\ todo' = <<>> /\ DOMAIN todo' = {}
        BY <1>2, <1>3, <2>1, <2>4 DEF h
      <3>2. "seeded" \in DOMAIN nvs'
        BY <1>2, <2>4
      <3>3. Seeding' /\ Polling'
        BY <3>1, <3>2 DEF Seeding, Polling
      <3> QED
        BY <1>6, <2>3, <3>3 DEF WInv
    <2>5. CASE h.key # "seeded"
      <3>1. "seeded" \notin DOMAIN nvs' /\ Left("seeded")'
        BY <1>2, <1>7, <2>1, <2>5
      <3>2. \A i \in DOMAIN todo' :
                /\ todo'[i].key \notin CalibKeys
                /\ todo'[i].key = "cfg_ver" => todo'[i].value = 0
                /\ todo'[i].key = "seeded" => i = Len(todo')
        BY <1>2, <1>3, <1>4, <2>1
      <3>3. Seeding' /\ Polling'
        BY <1>1, <2>1, <2>2, <3>1, <3>2 DEF Seeding, Polling
      <3> QED
        BY <1>6, <2>3, <3>3 DEF WInv
    <2> QED
      BY <2>4, <2>5
  <1>8. CASE "seeded" \in DOMAIN nvs
    <2>1. "seeded" \in DOMAIN nvs' /\ pc # "seed"
      <3>1. todo # <<>>
        BY <1>1 DEF Put
      <3> QED
        BY <1>2, <1>8, <3>1 DEF WInv, Seeding
    <2>2. Seeding'
      BY <1>1, <2>1 DEF Seeding
    <2>3. \A i \in DOMAIN todo : todo[i].key \in VersionKeys =>
              /\ pc = "run" /\ todo[i].value = polled /\ polled > Get("cfg_ver")
              /\ \A j \in DOMAIN todo : todo[j].key = "cfg_ver" => i <= j
      BY <1>8 DEF WInv, Polling
    <2>4. h.key \in VersionKeys => h.value = polled /\ polled > Get("cfg_ver")
      BY <1>2, <2>3 DEF h
    <2>5. polled \in 0..version /\ version \in Nat /\ version # 0 /\ Get("cfg_ver") \in 0..version
      BY DEF WInv, Types
    <2>6. Types'
      <3>1. Get("cfg_ver")' \in 0..version
        BY <1>5, <2>4, <2>5 DEF VersionKeys
      <3> QED
        BY <1>1, <1>2, <2>5, <3>1 DEF WInv, Types
    <2>7. h.key = "cfg_ver" => \A i \in DOMAIN todo' : todo'[i].key \notin VersionKeys
      <3> SUFFICES ASSUME h.key = "cfg_ver", NEW i \in DOMAIN todo', todo'[i].key \in VersionKeys
                   PROVE  FALSE
        OBVIOUS
      <3>1. PICK k \in DOMAIN todo : k = i + 1 /\ todo'[i] = todo[k]
        BY <1>4
      <3>2. k <= 1
        BY <1>2, <2>3, <3>1 DEF h
      <3> QED
        BY <1>3, <3>1, <3>2
    <2>8. Polling'
      <3> SUFFICES ASSUME NEW i \in DOMAIN todo', todo'[i].key \in VersionKeys
                   PROVE  /\ pc' = "run" /\ todo'[i].value = polled' /\ polled' > Get("cfg_ver")'
                          /\ \A j \in DOMAIN todo' : todo'[j].key = "cfg_ver" => i <= j
        BY DEF Polling
      <3>1. PICK k \in DOMAIN todo : k = i + 1 /\ todo'[i] = todo[k]
        BY <1>4
      <3>2. h.key # "cfg_ver"
        BY <2>7
      <3>3. Get("cfg_ver")' = Get("cfg_ver")
        BY <1>5, <3>2
      <3>4. pc = "run" /\ todo'[i].value = polled /\ polled > Get("cfg_ver")
        BY <2>3, <3>1
      <3>5. ASSUME NEW j \in DOMAIN todo', todo'[j].key = "cfg_ver"
            PROVE  i <= j
        <4>1. PICK l \in DOMAIN todo : l = j + 1 /\ todo'[j] = todo[l]
          BY <1>4
        <4>2. k <= l
          BY <2>3, <3>1, <3>5, <4>1
        <4> QED
          BY <1>3, <3>1, <4>1, <4>2
      <3> QED
        BY <1>1, <3>3, <3>4, <3>5
    <2>9. Settling'
      <3> SUFFICES ASSUME polled # 0, polled \notin NonPositive, NEW key \in VersionKeys
                   PROVE  Get(key)' = polled \/ Left(key)'
        BY <1>1 DEF Settling
      <3>1. Get(key) = polled \/ Left(key)
        BY DEF WInv, Settling
      <3>2. Get(key)' = IF key = h.key THEN h.value ELSE Get(key)
        BY <1>2
      <3>3. CASE key = h.key
        BY <2>4, <3>2, <3>3
      <3>4. CASE key # h.key
        BY <1>2, <3>1, <3>2, <3>4
      <3> QED
        BY <3>3, <3>4
    <2>10. Trusted'
      <3> SUFFICES ASSUME Get("cfg_ver")' # 0, Get("cfg_ver")' \notin NonPositive,
                          Get("cfg_ver")' = version, NEW key \in CalibKeys
                   PROVE  Get(key)' = version
        BY <1>1 DEF Trusted
      <3>0. key \in VersionKeys /\ key # "cfg_ver"
        BY DEF VersionKeys, CalibKeys
      <3>1. Get(key)' = IF key = h.key THEN h.value ELSE Get(key)
        BY <1>2, <3>0
      <3>2. CASE h.key = "cfg_ver"
        <4>1. polled = version /\ polled # 0 /\ polled \notin NonPositive
          BY <1>5, <2>4, <3>2 DEF VersionKeys
        <4>2. Get(key) = polled \/ Left(key)
          BY <3>0, <4>1 DEF WInv, Settling
        <4>3. ~Left(key)
          <5>1. \A i \in DOMAIN todo : todo[i].key \in VersionKeys => i <= 1
            BY <1>2, <2>3, <3>2 DEF h
          <5>2. \A i \in DOMAIN todo : i <= 1 => i = 1
            BY <1>3
          <5> QED
            BY <3>0, <3>2, <5>1, <5>2 DEF Left, h
        <4> QED
          BY <3>0, <3>1, <3>2, <4>1, <4>2, <4>3
      <3>3. CASE h.key \in CalibKeys
        BY <1>5, <2>4, <2>5, <3>3 DEF VersionKeys, CalibKeys
      <3>4. CASE h.key # "cfg_ver" /\ h.key \notin CalibKeys
        BY <1>5, <3>1, <3>4 DEF WInv, Trusted
      <3> QED
        BY <3>2, <3>3, <3>4
    <2>11. Saving'
      <3>1. pc' = "test" => FALSE
        <4>1. todo # <<>>
          BY <1>1 DEF Put
        <4> QED
          BY <1>1, <4>1 DEF WInv, Saving
      <3>2. ASSUME pc = "save"
            PROVE  /\ form \in Configs /\ reported = None
                   /\ \A key \in SetupKeys : Get(key)' = form \/ Left(key)'
                   /\ \A i \in DOMAIN todo' : todo'[i].key \in SetupKeys /\ todo'[i].value = form
        <4>1. /\ form \in Configs /\ reported = None
              /\ \A key \in SetupKeys : Get(key) = form \/ Left(key)
              /\ \A i \in DOMAIN todo : todo[i].key \in SetupKeys /\ todo[i].value = form
          BY <3>2 DEF WInv, Saving
        <4>2. h.value = form
          BY <1>2, <4>1 DEF h
        <4> QED
          BY <1>2, <1>4, <4>1, <4>2
      <3>3. reported # None => \A i \in DOMAIN todo' : todo'[i].key \in VersionKeys
        BY <1>4 DEF WInv, Saving
      <3> QED
        BY <1>1, <3>1, <3>2, <3>3 DEF Saving
    <2>12. SavedWhole'
      <3> SUFFICES ASSUME reported # None, NEW key \in SetupKeys
                   PROVE  Get(key)' = reported
        BY <1>1 DEF SavedWhole
      <3>1. h.key \in VersionKeys
        BY <1>2 DEF WInv, Saving, h
      <3>2. key # h.key
        BY <3>1 DEF VersionKeys, CalibKeys, SetupKeys
      <3> QED
        BY <1>2, <3>2 DEF WInv, SavedWhole
    <2> QED
      BY <1>6, <2>2, <2>6, <2>8, <2>9, <2>10, <2>11, <2>12 DEF WInv
  <1> QED
    BY <1>7, <1>8

\* setup() and loop() between the handlers: nothing is put.
LEMMA ControlKeeps == WInv /\ (Start \/ WaitEnds \/ Reconnect \/ ApEnds) => WInv'
  <1> SUFFICES ASSUME WInv, Start \/ WaitEnds \/ Reconnect \/ ApEnds
               PROVE  WInv'
    OBVIOUS
  <1>1. /\ UNCHANGED <<nvs, todo, version, polled, air, form, reported, proven>>
        /\ todo = <<>> /\ pc' \in {"wait", "run", "ap"}
        /\ UNCHANGED <<target, link>> \/ link' = FALSE \/ (~link /\ link' = link)
    BY DEF Start, WaitEnds, Reconnect, ApEnds, svars, radio, history
  <1>2. Types' /\ Seeding' /\ Polling' /\ Settling' /\ Trusted' /\ Saving' /\ SavedWhole'
    BY <1>1, SettingsStand
  <1>3. Proving' /\ ProvenStored'
    BY <1>1 DEF WInv, Proving, ProvenStored
  <1> QED
    BY <1>2, <1>3 DEF WInv

\* The form's credentials are given to a driver that is not connected.
LEMMA SubmitKeeps == ASSUME WInv, NEW c \in Configs, Submit(c) PROVE WInv'
  <1>1. /\ UNCHANGED <<nvs, todo, version, polled, air, reported, proven>>
        /\ todo = <<>> /\ pc' = "test" /\ form' = c /\ link' = FALSE /\ target' = Credentials(c, c)
    BY DEF Submit, svars
  <1>2. Types' /\ Seeding' /\ Polling' /\ Settling' /\ Trusted' /\ Saving' /\ SavedWhole'
    BY <1>1, SettingsStand
  <1>3. Proving' /\ ProvenStored'
    BY <1>1 DEF WInv, Proving, ProvenStored
  <1> QED
    BY <1>2, <1>3 DEF WInv

\* A handler begins to put setup values, and what was reported no longer counts.
LEMMA WriteKeeps ==
    ASSUME WInv, pc # "seed", NEW puts \in Seq(Puts), Write(puts),
           \A i \in DOMAIN puts : puts[i].key \in SetupKeys,
           pc' \in {"wait", "run", "ap", "save"}, reported' = None,
           pc' = "save" =>
              /\ form' \in Configs
              /\ \A i \in DOMAIN puts : puts[i].value = form'
              /\ \A key \in SetupKeys : \E i \in DOMAIN puts : puts[i].key = key,
           Proving'
    PROVE  WInv'
  <1>1. todo = <<>> /\ todo' = puts /\ UNCHANGED <<nvs, version, polled>>
    BY DEF Write
  <1>2. /\ "seeded" \in DOMAIN nvs' <=> "seeded" \in DOMAIN nvs
        /\ \A key : (Get(key)' = Get(key)) /\ ~Left(key)
    BY <1>1 DEF Get, Left
  <1>3. "seeded" \in DOMAIN nvs
    BY DEF WInv, Seeding
  <1>4. Types' /\ Settling' /\ Trusted'
    BY <1>1, <1>2 DEF WInv, Types, Settling, Trusted
  <1>5. Seeding' /\ SavedWhole' /\ ProvenStored'
    BY <1>1, <1>2, <1>3 DEF Seeding, SavedWhole, ProvenStored
  <1>6. Polling'
    BY <1>1 DEF Polling, SetupKeys, VersionKeys, CalibKeys
  <1>7. Saving'
    BY <1>1 DEF Saving, Left
  <1> QED
    BY <1>4, <1>5, <1>6, <1>7 DEF WInv

\* The link that ends the test is one to the form's network.
LEMMA TestEndsKeeps == WInv /\ TestEnds => WInv'
  <1> SUFFICES ASSUME WInv, TestEnds
               PROVE  WInv'
    OBVIOUS
  <1>1. /\ pc = "test" /\ form \in Configs /\ todo = <<>> /\ UNCHANGED <<target, link, air, form>>
        /\ target = Credentials(form, form)
    BY DEF WInv, Saving, Proving, TestEnds, radio
  <1>2. CASE link
    <2>1. pc' = "save" /\ Write(writeConfig(form)) /\ reported' = None
      BY <1>2 DEF TestEnds
    <2>2. form \in Good
      BY <1>1, <1>2 DEF WInv, Proving, Credentials
    <2>3. Proving'
      BY <1>1, <2>1, <2>2 DEF WInv, Proving
    <2> QED
      BY <1>1, <2>1, <2>3, ConfigPuts, WriteKeeps
  <1>3. CASE ~link
    <2>1. pc' = "ap" /\ UNCHANGED <<nvs, todo, version, polled, reported, proven>>
      BY <1>3 DEF TestEnds, svars
    <2>2. Types' /\ Seeding' /\ Polling' /\ Settling' /\ Trusted' /\ Saving' /\ SavedWhole'
      BY <1>1, <2>1, SettingsStand
    <2>3. Proving' /\ ProvenStored'
      BY <1>1, <2>1 DEF WInv, Proving, ProvenStored
    <2> QED
      BY <2>2, <2>3 DEF WInv
  <1> QED
    BY <1>2, <1>3

\* handleConfigApi_() proves nothing.
LEMMA ConfigApiKeeps == ASSUME WInv, NEW c \in Configs, ConfigApi(c) PROVE WInv'
  <1>1. /\ pc = "ap" /\ pc' = "save" /\ form' = c /\ Write(writeConfig(c))
        /\ reported' = None /\ proven' = FALSE /\ UNCHANGED <<target, link, air>>
    BY DEF ConfigApi, Forget, radio
  <1>2. Proving'
    BY <1>1 DEF WInv, Proving
  <1> QED
    BY <1>1, <1>2, ConfigPuts, WriteKeeps

\* The console's commands end what was reported.
LEMMA SetCommandKeeps == ASSUME WInv, NEW c \in Configs, SetCommand(c) PROVE WInv'
  <1>1. PICK puts \in {<<Item("server_url", c)>>, <<Item("api_key", c)>>, setWifi(c)} : Write(puts)
    BY DEF SetCommand
  <1>2. /\ pc \in {"wait", "ap", "run"} /\ pc' = pc
        /\ reported' = None /\ UNCHANGED <<target, link, air, form>>
    BY DEF SetCommand, AtConsole, Forget, radio
  <1>3. Proving'
    BY <1>2 DEF WInv, Proving
  <1>4. puts \in Seq(Puts) /\ \A i \in DOMAIN puts : puts[i].key \in SetupKeys
    BY CommandPuts
  <1> QED
    BY <1>1, <1>2, <1>3, <1>4, WriteKeeps

\* pollConfig() begins to put a version the device does not have, or has it,
\* whole, because no newer one was ever answered.
LEMMA PollConfigKeeps == WInv /\ PollConfig => WInv'
  <1> SUFFICES ASSUME WInv, PollConfig
               PROVE  WInv'
    OBVIOUS
  <1>1. /\ pc = "run" /\ todo = <<>> /\ todo' = Adopt(version) /\ polled' = version
        /\ UNCHANGED <<nvs, version, pc, target, link, air, form, reported, proven>>
    BY DEF PollConfig, Poll, radio, history
  <1>2. \A key : Get(key)' = Get(key)
    BY <1>1 DEF Get
  <1>3. version \in Nat /\ version # 0 /\ Get("cfg_ver") \in 0..version
    BY DEF WInv, Types
  <1>4. "seeded" \in DOMAIN nvs /\ "seeded" \in DOMAIN nvs'
    BY <1>1 DEF WInv, Seeding
  <1>5. Trusted' /\ Seeding' /\ SavedWhole' /\ ProvenStored' /\ Proving'
    BY <1>1, <1>2, <1>4 DEF WInv, Trusted, Seeding, SavedWhole, ProvenStored, Proving
  <1>6. CASE version = Get("cfg_ver")
    <2>0. todo' = <<>>
      BY <1>1, <1>6 DEF Adopt
    <2>1. todo' \in Seq(Puts) /\ DOMAIN todo' = {}
      BY <2>0
    <2>2. Types' /\ Polling' /\ Saving'
      BY <1>1, <1>2, <1>3, <2>1 DEF WInv, Types, Polling, Saving
    <2>3. Settling'
      <3> SUFFICES ASSUME version \notin NonPositive, NEW key \in VersionKeys
                   PROVE  Get(key) = version
        BY <1>1, <1>2 DEF Settling
      <3> QED
        BY <1>3, <1>6 DEF WInv, Trusted, VersionKeys
    <2> QED
      BY <1>5, <2>2, <2>3 DEF WInv
  <1>7. CASE version # Get("cfg_ver")
    <2>1. /\ todo' \in Seq(Puts)
          /\ \A i \in DOMAIN todo' :
                /\ todo'[i].key \in VersionKeys /\ todo'[i].value = version
                /\ \A j \in DOMAIN todo' : todo'[j].key = "cfg_ver" => i <= j
          /\ version \notin NonPositive =>
                \A key \in VersionKeys : \E i \in DOMAIN todo' : todo'[i].key = key
      BY <1>1, <1>3, <1>7, AdoptPuts
    <2>2. Types'
      BY <1>1, <1>2, <1>3, <2>1 DEF WInv, Types
    <2>3. version > Get("cfg_ver")
      BY <1>3, <1>7
    <2>4. Polling'
      BY <1>1, <1>2, <2>1, <2>3 DEF Polling
    <2>5. Settling' /\ Saving'
      BY <1>1, <2>1 DEF Settling, Saving, Left
    <2> QED
      BY <1>5, <2>2, <2>4, <2>5 DEF WInv
  <1> QED
    BY <1>6, <1>7

-----------------------------------------------------------------------------
\* An empty namespace is about to be seeded.
LEMMA InitWInv == Init => WInv
  <1> SUFFICES ASSUME Init
               PROVE  WInv
    OBVIOUS
  <1>1. /\ nvs = <<>> /\ todo = Seeds(nvs) /\ polled = 0 /\ version = 1 /\ pc = "seed"
        /\ link = FALSE /\ air \subseteq Good /\ reported = None
    BY DEF Init, SettingsInit
  <1>2. "seeded" \notin DOMAIN nvs /\ Get("cfg_ver") = 0
    BY <1>1 DEF Get, SetupKeys
  <1>3. /\ todo \in Seq(Puts) /\ Len(todo) = 6 /\ DOMAIN todo = 1..6
        /\ todo[6].key = "seeded" /\ \A i \in 1..5 : todo[i].key # "seeded"
        /\ \A i \in 1..6 : /\ todo[i].key \notin CalibKeys
                           /\ todo[i].key = "cfg_ver" => todo[i].value = 0
    BY <1>1, <1>2, SeedsPuts
  <1>4. Left("seeded") /\ \A i \in DOMAIN todo : todo[i].key = "seeded" => i = Len(todo)
    BY <1>3 DEF Left
  <1>5. Types /\ Settling /\ Trusted
    BY <1>1, <1>2, <1>3 DEF Types, Settling, Trusted
  <1>6. Seeding
    BY <1>1, <1>2, <1>3, <1>4 DEF Seeding
  <1>7. Polling /\ Saving /\ Proving /\ SavedWhole /\ ProvenStored
    BY <1>1, <1>2 DEF Polling, Saving, Proving, SavedWhole, ProvenStored
  <1> QED
    BY <1>5, <1>6, <1>7 DEF WInv

\* The invariant holds in every reachable state, wherever the power is cut.
THEOREM SetupInvariant == Spec => []WInv
  <1>1. WInv /\ [Next]_vars => WInv'
    <2> SUFFICES ASSUME WInv, [Next]_vars
                 PROVE  WInv'
      OBVIOUS
    <2>1. CASE DriverConnects \/ NetworksChange \/ ServerPublishes
      BY <2>1, DriverConnectsKeeps, NetworksChangeKeeps, PublishKeeps
    <2>2. CASE Cut(FALSE) \/ Cut(forceAp)
      BY <2>2, CutKeeps
    <2>3. CASE PutOne
      BY <2>3, PutKeeps
    <2>4. CASE Start \/ WaitEnds \/ Reconnect \/ ApEnds
      BY <2>4, ControlKeeps
    <2>5. CASE PollConfig
      BY <2>5, PollConfigKeeps
    <2>6. ASSUME NEW c \in Configs, Submit(c) \/ ConfigApi(c) \/ SetCommand(c)
          PROVE  WInv'
      BY <2>6, SubmitKeeps, ConfigApiKeeps, SetCommandKeeps
    <2>7. CASE TestEnds \/ Saved
      BY <2>7, TestEndsKeeps, SavedKeeps
    <2>8. CASE RebootCommand(forceAp) \/ RebootCommand(TRUE)
      BY <2>8, RebootKeeps
    <2>9. CASE FactoryCommand
      BY <2>9, FactoryKeeps
    <2>10. CASE UNCHANGED vars
      <3>1. UNCHANGED <<nvs, todo, version, polled, pc, target, link, air, form, reported, proven>>
        BY <2>10 DEF vars, svars, radio, history
      <3> QED
        BY <3>1 DEF WInv, Types, Seeding, Polling, Settling, Trusted, Saving, Proving, SavedWhole,
                    ProvenStored, Left, Get, Credentials
    <2> QED
      BY <2>1, <2>2, <2>3, <2>4, <2>5, <2>6, <2>7, <2>8, <2>9, <2>10 DEF Next
  <1> QED
    BY <1>1, InitWInv, PTL DEF Spec

\* For any configurations and any number of cuts: a configuration that the
\* portal reported saved is whole until something else is written.
THEOREM SavedWholeAlways == Spec => []SavedWhole
  <1>1. WInv => SavedWhole
    BY DEF WInv
  <1> QED
    BY <1>1, SetupInvariant, PTL

\* For any networks that come and go: the form stores only credentials with
\* which the station has connected.
THEOREM ProvenStoredAlways == Spec => []ProvenStored
  <1>1. WInv => ProvenStored
    BY DEF WInv
  <1> QED
    BY <1>1, SetupInvariant, PTL

\* For any number of versions, with cuts between any two puts: after a poll
\* whose puts were all made, the calibration is the one the server answered with.
THEOREM CalibrationSettlesAlways == Spec => []CalibrationSettles
  <1>1. WInv => CalibrationSettles
    <2> SUFFICES ASSUME WInv, todo = <<>>, polled # 0, polled \notin NonPositive
                 PROVE  \A key \in CalibKeys \cup {"cfg_ver"} : Get(key) = polled
      BY DEF CalibrationSettles
    <2>1. \A key : ~Left(key)
      BY DEF Left
    <2> QED
      BY <2>1 DEF WInv, Settling, VersionKeys
  <1> QED
    BY <1>1, SetupInvariant, PTL
================================================================================
