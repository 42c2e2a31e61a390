----------------------------- MODULE WifiProvision -----------------------------
(***************************************************************************)
(* How a device gets onto a network: the station connection of setup() and *)
(* sync.h, the setup portal of wifi_provision.h with which it falls back   *)
(* to an access point, and the serial console, over the settings they      *)
(* store.                                                                  *)
(*                                                                         *)
(* loop() is one task, so a handler's puts are not interleaved with other  *)
(* handlers; the WiFi driver, the networks, the server and the power are   *)
(* beside it.  The driver is external: WiFi.begin() gives it credentials   *)
(* to try again and again, WiFi.disconnect() takes the link down before it *)
(* returns.  Time-outs are nondeterministic.                               *)
(***************************************************************************)
EXTENDS Settings

CONSTANTS
    Good,        \* the configurations whose SSID and password are right
    None,        \* no configuration
    MaxCommands, \* bound: what operators type or submit
    MaxCuts      \* bound: power cuts and crashes

ASSUME GoodConfigs == Good \subseteq Configs /\ None \notin Configs \cup {Default}
ASSUME Bounds == MaxCommands \in Nat /\ MaxCuts \in Nat

VARIABLES
    pc,       \* "seed", "wait": setup(); "run", "ap": loop(); "test", "save": in the portal
    forceAp,  \* g_wifiProvisionForceAp, in RTC memory
    paused,   \* wifiAuthorityPaused_
    target,   \* the credentials the driver tries
    link,     \* WiFi.status() == WL_CONNECTED
    air,      \* the networks that are up
    form,     \* what the portal's handler was given
    reported, \* history: the configuration last reported saved, while nothing else was written
    proven,   \* history: ... by the form, which tests it
    commands, cuts

radio == <<target, link, air>>
history == <<reported, proven, commands, cuts>>
vars == <<svars, pc, forceAp, paused, radio, form, history>>

Credentials(s, p) == [ssid |-> s, pass |-> p]
Stored == Credentials(Get("wifi_ssid"), Get("wifi_pass"))
Reachable(t) == t.ssid = t.pass /\ t.ssid \in air

Init ==
    /\ SettingsInit
    /\ pc = "seed" /\ forceAp = FALSE /\ paused = FALSE
    /\ target = Credentials(None, None) /\ link = FALSE /\ air \in SUBSET Good
    /\ form = None /\ reported = None /\ proven = FALSE
    /\ commands = 0 /\ cuts = 0

-----------------------------------------------------------------------------
(***************************************************************************)
(* Outside the task                                                        *)
(***************************************************************************)
DriverConnects ==
    /\ ~link /\ Reachable(target)
    /\ link' = TRUE
    /\ UNCHANGED <<svars, pc, forceAp, paused, target, air, form, history>>

NetworksChange ==
    /\ air' \in (SUBSET Good) \ {air}
    /\ link' = (link /\ target.ssid \in air')
    /\ UNCHANGED <<svars, pc, forceAp, paused, target, form, history>>

ServerPublishes == Publish /\ UNCHANGED <<pc, forceAp, paused, radio, form, history>>

\* Everything in RAM is lost.
Down(store, p, force) ==
    /\ Reopen(store, p)
    /\ pc' = "seed" /\ forceAp' = force /\ paused' = FALSE
    /\ target' = Credentials(None, None) /\ link' = FALSE
    /\ form' = None
    /\ UNCHANGED air

\* A power cut, which clears RTC memory, or a crash, which does not.
Cut(force) ==
    /\ cuts < MaxCuts /\ cuts' = cuts + 1
    /\ Down(nvs, IF todo = <<>> THEN polled ELSE 0, force)
    /\ UNCHANGED <<reported, proven, commands>>

PutOne == Put /\ UNCHANGED <<pc, forceAp, paused, radio, form, history>>

-----------------------------------------------------------------------------
(***************************************************************************)
(* setup() and loop()                                                      *)
(***************************************************************************)
\* wifiConnect() and consumeReprovisionRequest().
Start ==
    /\ pc = "seed" /\ todo = <<>>
    /\ target' = Stored /\ link' = FALSE
    /\ pc' = IF forceAp THEN "ap" ELSE "wait"
    /\ paused' = forceAp /\ forceAp' = FALSE
    /\ UNCHANGED <<svars, air, form, history>>

\* The bounded wait of setup() ends: connected, or with the portal.
WaitEnds ==
    /\ pc = "wait" /\ todo = <<>>
    /\ pc' = IF link THEN "run" ELSE "ap"
    /\ paused' = ~link
    /\ UNCHANGED <<svars, forceAp, radio, form, history>>

\* wifiService(), when its retry interval is over.
Reconnect ==
    /\ pc \in {"wait", "run"} /\ todo = <<>>
    /\ ~paused /\ ~link
    /\ target' = Stored
    /\ UNCHANGED <<svars, pc, forceAp, paused, link, air, form, history>>

\* WifiProvision::service() and loop() when the station is connected.  Mutant:
\* Sync is not given its authority back.
ApEndsPaused ==
    /\ pc = "ap" /\ todo = <<>> /\ link
    /\ pc' = "run"
    /\ UNCHANGED <<svars, paused, forceAp, radio, form, history>>
ApEnds ==
    /\ pc = "ap" /\ todo = <<>> /\ link
    /\ pc' = "run" /\ paused' = FALSE
    /\ UNCHANGED <<svars, forceAp, radio, form, history>>

\* pollConfig() with a 200.
PollConfig ==
    /\ pc = "run" /\ link
    /\ Poll
    /\ UNCHANGED <<pc, forceAp, paused, radio, form, history>>

-----------------------------------------------------------------------------
(***************************************************************************)
(* The portal                                                              *)
(***************************************************************************)
Command == commands < MaxCommands /\ commands' = commands + 1

\* A new configuration is being written: what was reported no longer counts.
Forget == reported' = None /\ proven' = FALSE

\* handleSubmit_() up to the wait of testWifiCredentials_().  Mutant: without
\* WiFi.disconnect().
SubmitConnected(c) ==
    /\ pc = "ap" /\ todo = <<>> /\ Command
    /\ pc' = "test" /\ form' = c
    /\ target' = Credentials(c, c)
    /\ UNCHANGED <<svars, link, forceAp, paused, air, reported, proven, cuts>>
Submit(c) ==
    /\ pc = "ap" /\ todo = <<>> /\ Command
    /\ pc' = "test" /\ form' = c
    /\ target' = Credentials(c, c) /\ link' = FALSE
    /\ UNCHANGED <<svars, forceAp, paused, air, reported, proven, cuts>>

\* The wait ends: the credentials are stored, or the form is shown again.
TestEnds ==
    /\ pc = "test"
    /\ IF link THEN pc' = "save" /\ Write(writeConfig(form)) /\ reported' = None /\ proven' = TRUE
       ELSE pc' = "ap" /\ UNCHANGED <<svars, reported, proven>>
    /\ UNCHANGED <<forceAp, paused, radio, form, commands, cuts>>

\* handleConfigApi_(), which does not test.
ConfigApi(c) ==
    /\ pc = "ap" /\ Command
    /\ pc' = "save" /\ form' = c
    /\ Write(writeConfig(c))
    /\ Forget
    /\ UNCHANGED <<forceAp, paused, radio, cuts>>

\* The reply that it is saved, and the restart.
Saved ==
    /\ pc = "save" /\ todo = <<>>
    /\ reported' = form
    /\ Down(nvs, polled, forceAp)
    /\ UNCHANGED <<proven, commands, cuts>>

-----------------------------------------------------------------------------
(***************************************************************************)
(* The serial console                                                      *)
(***************************************************************************)
AtConsole == pc \in {"wait", "ap", "run"} /\ todo = <<>> /\ Command /\ UNCHANGED cuts

\* `set url', `set key', `set wifi'.
SetCommand(c) ==
    /\ AtConsole
    /\ \E puts \in {<<Item("server_url", c)>>, <<Item("api_key", c)>>, setWifi(c)} : Write(puts)
    /\ Forget
    /\ UNCHANGED <<pc, forceAp, paused, radio, form>>

\* `reboot' and `provision'.
RebootCommand(force) ==
    /\ AtConsole
    /\ Down(nvs, polled, force)
    /\ UNCHANGED <<reported, proven>>

\* `factory': the other namespace, the update's, is untouched.
FactoryCommand ==
    /\ AtConsole
    /\ Down(<<>>, 0, forceAp)
    /\ Forget

-----------------------------------------------------------------------------
Next ==
    \/ DriverConnects \/ NetworksChange \/ ServerPublishes
    \/ Cut(FALSE) \/ Cut(forceAp)
    \/ PutOne
    \/ Start \/ WaitEnds \/ Reconnect \/ ApEnds \/ PollConfig
    \/ \E c \in Configs : Submit(c) \/ ConfigApi(c) \/ SetCommand(c)
    \/ TestEnds \/ Saved
    \/ RebootCommand(forceAp) \/ RebootCommand(TRUE) \/ FactoryCommand

\* The task runs on, and the driver keeps trying.
Fairness ==
    /\ WF_vars(PutOne) /\ WF_vars(Start) /\ WF_vars(WaitEnds) /\ WF_vars(Reconnect)
    /\ WF_vars(ApEnds) /\ WF_vars(TestEnds) /\ WF_vars(Saved)
    /\ WF_vars(DriverConnects)

Spec == Init /\ [][Next]_vars /\ Fairness

-----------------------------------------------------------------------------
(***************************************************************************)
(* Properties                                                              *)
(***************************************************************************)
\* What a configuration reported as saved (wifi_provision.h:257, :282) leaves
\* behind is whole, across the restart, cuts and later boots, until something
\* else is written.
SavedWhole == reported # None => \A key \in SetupKeys : Get(key) = reported

\* The form stores only credentials that are right (wifi_provision.h:218-221,
\* "so a wrong password produces a visible error in the portal itself"), also
\* when the driver connects with the old ones just before the form is handled.
ProvenStored == reported # None /\ proven => reported \in Good

\* A device whose stored credentials work gets online and out of setup: after
\* cuts in the middle of a write, a setup it was forced into, and a portal
\* that ended on credentials nobody stored.  The exception is a portal in
\* which the driver was given other credentials than the stored ones: nothing
\* there gives it the stored ones back.
SetupEnds ==
    []<>(\/ ~Reachable(Stored)
         \/ pc = "ap" /\ target # Stored
         \/ pc = "run" /\ link)

\* The same without the exception, as wifi_provision.h:17 has it: "AP mode is a
\* FALLBACK STATE, never a permanent mode".
SetupAlwaysEnds == []<>(~Reachable(Stored) \/ (pc = "run" /\ link))
=============================================================================
