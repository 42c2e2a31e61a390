------------------------------- MODULE Settings -------------------------------
(***************************************************************************)
(* The settings of the device in NVS (store.h) and what writes them: the   *)
(* defaults at the first boot, the serial console (provision.h), the setup *)
(* portal (wifi_provision.h) and the calibration poll (sync.h).            *)
(*                                                                         *)
(* Preferences commits one key at a time, so a setting of several keys is  *)
(* a sequence of puts; a power cut loses the ones that are left.  A setup  *)
(* value (SSID, password, URL, API key) is named by the configuration it   *)
(* belongs to, a calibration value by the version the server published it  *)
(* as.  Each configuration has values of its own, and the versions are     *)
(* those of one server.  boot_id and the counters of the namespace are     *)
(* left out: PulseCounter has the first, nothing decides on the others.    *)
(* p_.clear() is taken as one step.                                        *)
(***************************************************************************)
EXTENDS Naturals, Sequences

CONSTANTS
    Configs,     \* what operators submit: an SSID, a password, a URL and a key
    Default,     \* the build's own values, DEFAULT_WIFI_SSID and so on
    NonPositive, \* the versions whose K_factor is not positive
    MaxVersion   \* bound: versions the server publishes

ASSUME SettingsConstants ==
    /\ Default \notin Configs
    /\ MaxVersion \in Nat \ {0} /\ NonPositive \subseteq 1..MaxVersion

VARIABLES
    nvs,       \* namespace "covio": the keys present, with their values
    todo,      \* the puts the running handler has still to make
    version,   \* the server's calibration version
    polled     \* history: the last version pollConfig() got and could store; 0: none

svars == <<nvs, todo, version, polled>>

SetupKeys == {"server_url", "api_key", "wifi_ssid", "wifi_pass"}
CalibKeys == {"kfactor", "density", "tref"}

\* The getters, with their defaults for an absent key.
Get(key) == IF key \in DOMAIN nvs THEN nvs[key]
            ELSE IF key \in SetupKeys THEN Default ELSE 0

Item(key, value) == [key |-> key, value |-> value]

\* Store::begin(): the puts of the first boot, or of the first after `factory'.
\* Mutant: every boot seeds.
SeedsAlways(store) ==
    <<Item("server_url", Default), Item("api_key", Default),
      Item("wifi_ssid", Default), Item("wifi_pass", Default),
      Item("cfg_ver", 0), Item("seeded", TRUE)>>
Seeds(store) ==
    IF "seeded" \in DOMAIN store THEN <<>> ELSE
    <<Item("server_url", Default), Item("api_key", Default),
      Item("wifi_ssid", Default), Item("wifi_pass", Default),
      Item("cfg_ver", 0), Item("seeded", TRUE)>>

setWifi(c) == <<Item("wifi_ssid", c), Item("wifi_pass", c)>>
setCalib(v) == <<Item("kfactor", v), Item("density", v), Item("tref", v)>>

\* WifiProvision::writeConfig_().
writeConfig(c) == setWifi(c) \o <<Item("server_url", c), Item("api_key", c)>>

\* pollConfig() with version v in a 200.  Mutant: the version is put first.
AdoptVersionFirst(v) ==
    IF v = Get("cfg_ver") THEN <<>>
    ELSE <<Item("cfg_ver", v)>> \o (IF v \in NonPositive THEN <<>> ELSE setCalib(v))
Adopt(v) ==
    IF v = Get("cfg_ver") THEN <<>>
    ELSE (IF v \in NonPositive THEN <<>> ELSE setCalib(v)) \o <<Item("cfg_ver", v)>>

-----------------------------------------------------------------------------
SettingsInit ==
    /\ nvs = <<>>
    /\ todo = Seeds(nvs)
    /\ version = 1
    /\ polled = 0

\* The namespace with one key written.
WithKey(store, key, value) ==
    [k \in DOMAIN store \cup {key} |-> IF k = key THEN value ELSE store[k]]

\* One key is written and committed.
Put ==
    /\ todo # <<>>
    /\ nvs' = WithKey(nvs, Head(todo).key, Head(todo).value)
    /\ todo' = Tail(todo)
    /\ UNCHANGED <<version, polled>>

\* A handler that will make the puts.
Write(puts) ==
    /\ todo = <<>> /\ todo' = puts
    /\ UNCHANGED <<nvs, version, polled>>

\* pollConfig() has its answer, which may be old by the time it is stored.
Poll ==
    /\ todo = <<>> /\ todo' = Adopt(version)
    /\ polled' = version
    /\ UNCHANGED <<nvs, version>>

\* set_kfactor() on the server.
Publish ==
    /\ version < MaxVersion /\ version' = version + 1
    /\ UNCHANGED <<nvs, todo, polled>>

\* The device starts over with store in its namespace; p is what is left of
\* polled.
Reopen(store, p) ==
    /\ nvs' = store /\ todo' = Seeds(store) /\ polled' = p
    /\ UNCHANGED version

-----------------------------------------------------------------------------
\* After a poll whose puts were all made, wherever the power was cut before it,
\* the calibration shown on the device is the one the server answered with, all
\* three values and the version, as long as that K was positive: pollConfig()
\* (sync.h:273-277) may trust cfg_ver alone to say what is stored.
CalibrationSettles ==
    todo = <<>> /\ polled # 0 /\ polled \notin NonPositive
        => \A key \in CalibKeys \cup {"cfg_ver"} : Get(key) = polled
=============================================================================
