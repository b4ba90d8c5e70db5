----------------------------- MODULE MqttSession -----------------------------
(***************************************************************************)
(* The session with the MQTT broker, as loop() keeps it: when it is        *)
(* opened, closed and renewed while the configuration is changed on the    *)
(* web pages, the network goes and comes, the broker refuses or drops the  *)
(* bridge, and the bridge restarts.                                        *)
(*                                                                         *)
(* One iteration of loop() is three places: the network part, ws.loop()    *)
(* and the export pass.  MQTT_connect() blocks loop(), so that it is one   *)
(* step.  Time is counted since the last attempt to connect and stops      *)
(* counting at the longer retry period.                                    *)
(***************************************************************************)
EXTENDS Integers

CONSTANTS
    Configs,        \* MQTT configurations with a host
    NoHost,         \* a configuration without one: MQTT is switched off
    NoRecord,       \* hasConfig() is false
    None,           \* no session; no configuration loaded
    ShortRetry,     \* 5000 ms in the code
    LongRetry       \* 30000 ms in the code

ASSUME SessionAssumption ==
    /\ {NoHost, NoRecord, None} \cap Configs = {}
    /\ NoHost # NoRecord /\ NoHost # None /\ NoRecord # None
    /\ ShortRetry \in Nat \ {0} /\ LongRetry \in Nat /\ ShortRetry <= LongRetry

VARIABLES
    stored,         \* the record in EEPROM
    changed,        \* configuration::mqttChanged
    enabled,        \* mqttEnabled, of main.ino and of the web server
    loaded,         \* *mqttConfig, None: a null pointer
    session,        \* the configuration of the open session
    error,          \* mqtt.lastError() is not 0
    elapsed,        \* millis() - lastMqttRetry
    performRestart, \* handleSetup() has asked for a restart, which awaits a page view
    network,        \* WiFi: connected as a client, not connected, access point
    pc              \* where loop() is

record == <<stored, changed>>
client == <<enabled, loaded, session, error, elapsed>>
vars == <<record, client, performRestart, network, pc>>

TypeOK ==
    /\ stored \in Configs \cup {NoHost, NoRecord} /\ changed \in BOOLEAN
    /\ enabled \in BOOLEAN /\ error \in BOOLEAN
    /\ loaded \in Configs \cup {NoHost, None}
    /\ session \in Configs \cup {None}
    /\ elapsed \in 0 .. LongRetry
    /\ performRestart \in BOOLEAN
    /\ network \in {"up", "down", "ap"}
    /\ pc \in {"network", "web", "export"}

\* setup().  lastMqttRetry is 10 seconds back and lastError() is 0: the first
\* attempt need not wait.  Without a record the bridge is an access point.
Init ==
    /\ stored \in Configs \cup {NoHost, NoRecord}
    /\ changed = FALSE /\ enabled = (stored \in Configs)
    /\ loaded = None /\ session = None /\ error = FALSE /\ elapsed = ShortRetry
    /\ performRestart = FALSE
    /\ network = (IF stored = NoRecord THEN "ap" ELSE "down")
    /\ pc = "network"

-----------------------------------------------------------------------------
(* The network part of loop(). *)

InNetworkPart == pc = "network" /\ network = "up"

\* mqttEnabled || config.isMqttChanged()
InUse == enabled \/ changed
\* !mqtt.connected() || config.isMqttChanged(): MQTT_connect() is called.
MustConnect == InNetworkPart /\ InUse /\ (session = None \/ changed)

SessionKept ==
    /\ InNetworkPart /\ InUse /\ ~MustConnect
    /\ pc' = "web"
    /\ UNCHANGED <<record, client, performRestart, network>>

\* Mutant of SwitchedOff: mqttEnabled stays set.
StaysEnabled ==
    /\ MustConnect /\ stored \notin Configs
    /\ loaded' = NoHost /\ changed' = FALSE
    /\ pc' = "web"
    /\ UNCHANGED <<stored, enabled, session, error, elapsed, performRestart, network>>

\* MQTT_connect() finds no host.  An open session stays open in this iteration.
SwitchedOff ==
    /\ MustConnect /\ stored \notin Configs
    /\ loaded' = NoHost /\ enabled' = FALSE /\ changed' = FALSE
    /\ pc' = "web"
    /\ UNCHANGED <<stored, session, error, elapsed, performRestart, network>>

\* ... and is closed in the next.
Disconnect ==
    /\ InNetworkPart /\ ~InUse
    /\ session' = None
    /\ pc' = "web"
    /\ UNCHANGED <<record, enabled, loaded, error, elapsed, performRestart, network>>

RetryPeriod == IF ~error \/ changed THEN ShortRetry ELSE LongRetry

\* Mutant of TooSoon: the change is acknowledged as soon as it is loaded.
TooSoonAcknowledged ==
    /\ MustConnect /\ stored \in Configs /\ elapsed < RetryPeriod
    /\ loaded' = stored /\ changed' = FALSE
    /\ pc' = "web"
    /\ UNCHANGED <<stored, enabled, session, error, elapsed, performRestart, network>>

\* The configuration is loaded before the retry period is looked at.
TooSoon ==
    /\ MustConnect /\ stored \in Configs /\ elapsed < RetryPeriod
    /\ loaded' = stored
    /\ pc' = "web"
    /\ UNCHANGED <<record, enabled, session, error, elapsed, performRestart, network>>

\* An attempt: the old session is closed first.
Attempt ==
    /\ MustConnect /\ stored \in Configs /\ elapsed >= RetryPeriod
    /\ loaded' = stored /\ enabled' = TRUE /\ elapsed' = 0
    /\ pc' = "web"
    /\ UNCHANGED <<stored, performRestart, network>>

Connected ==
    /\ Attempt
    /\ session' = stored /\ error' = FALSE /\ changed' = FALSE

Refused ==
    /\ Attempt
    /\ session' = None /\ error' \in BOOLEAN
    /\ UNCHANGED changed

\* Not connected: WiFi_connect(), and the web server is not served.  As an
\* access point: no MQTT.
NoMqtt ==
    /\ pc = "network" /\ network # "up"
    /\ pc' = IF network = "ap" THEN "web" ELSE "export"
    /\ UNCHANGED <<record, client, performRestart, network>>

-----------------------------------------------------------------------------
(* The rest of loop(). *)

NoForm ==
    /\ pc = "web" /\ pc' = "export"
    /\ UNCHANGED <<record, client, performRestart, network>>

\* Mutant of setMqttConfig: the flag says whether the last save made a change.
FlagOfLastSave(config) ==
    /\ pc = "web" /\ pc' = "export"
    /\ changed' = (config # stored)
    /\ stored' = config
    /\ UNCHANGED <<client, performRestart, network>>

\* handleSave(): setMqttConfig() and save().  Without a record it is a change.
setMqttConfig(config) ==
    /\ pc = "web" /\ pc' = "export"
    /\ changed' = (changed \/ config # stored)
    /\ stored' = config
    /\ UNCHANGED <<client, performRestart, network>>

\* handleSetup(): clear() empties the stored record before setMqttConfig() compares
\* with it, so that only the restart that follows brings the change into use.
handleSetup ==
    /\ pc = "web" /\ pc' = "export"
    /\ stored' = NoHost
    /\ changed' = (changed \/ stored = NoRecord)
    /\ performRestart' = TRUE
    /\ UNCHANGED <<client, network>>

\* The export pass (UpdateExport.tla).
ExportPass ==
    /\ pc = "export" /\ pc' = "network"
    /\ UNCHANGED <<record, client, performRestart, network>>

-----------------------------------------------------------------------------
(* The environment. *)

\* The broker or the network drops the session; mqtt.loop() may report an error.
SessionLost ==
    /\ session # None /\ session' = None
    /\ error' \in BOOLEAN
    /\ UNCHANGED <<record, enabled, loaded, elapsed, performRestart, network, pc>>

\* WiFi goes or comes, or the button swaps the mode.  A session may look open
\* for a while all the same.
NetworkChanges ==
    /\ stored # NoRecord
    /\ network' \in {"up", "down", "ap"} \ {network}
    /\ UNCHANGED <<record, client, performRestart, pc>>

\* Mutant of TimePasses: no end.
TimePassesOn ==
    /\ elapsed <= LongRetry /\ elapsed' = elapsed + 1
    /\ UNCHANGED <<record, enabled, loaded, session, error, performRestart, network, pc>>

TimePasses ==
    /\ elapsed < LongRetry /\ elapsed' = elapsed + 1
    /\ UNCHANGED <<record, enabled, loaded, session, error, performRestart, network, pc>>

\* A reset, or the restart a form has asked for: setup() again.
Restart ==
    /\ UNCHANGED stored
    /\ changed' = FALSE /\ enabled' = (stored \in Configs)
    /\ loaded' = None /\ session' = None /\ error' = FALSE /\ elapsed' = ShortRetry
    /\ performRestart' = FALSE
    /\ network' = (IF stored = NoRecord THEN "ap" ELSE "down")
    /\ pc' = "network"

Loop ==
    \/ SessionKept \/ SwitchedOff \/ Disconnect \/ TooSoon \/ Connected \/ Refused
    \/ NoMqtt \/ NoForm \/ ExportPass
Save == \E config \in Configs \cup {NoHost} : setMqttConfig(config)

Next == Loop \/ Save \/ handleSetup \/ SessionLost \/ NetworkChanges \/ TimePasses \/ Restart

Spec == Init /\ [][Next]_vars

\* loop() goes on, time passes, and the broker does not refuse for ever.
SessionSpec == Spec /\ WF_vars(Loop) /\ WF_vars(TimePasses) /\ SF_vars(Connected)

-----------------------------------------------------------------------------
(* Properties. *)

\* A session that is open while no change is outstanding is a session with the
\* stored configuration, and its topics are those of that configuration; or MQTT
\* has just been switched off, and nothing is published on the old session.
\* (While a change is outstanding the topics of the new configuration may be
\* used on the session of the old one: TooSoon loads it.)  After handleSetup() an
\* old session may go on until the restart.
SessionIsConfigured ==
    session # None /\ ~changed /\ ~performRestart =>
        \/ session = stored /\ loaded = stored
        \/ loaded = NoHost /\ ~enabled

\* The outcome the stored configuration asks for.
Settled == session = IF stored \in Configs THEN stored ELSE None

\* Once the configuration stays as it is (though it may be saved again), the
\* network stays, no restart is outstanding and nothing drops the session, the
\* bridge ends up with a session as configured, or with none if MQTT is switched
\* off: no path of MQTT_connect() puts a change off for ever.
SessionSettles ==
    /\ <>[](network = "up" /\ ~performRestart)
    /\ <>[][UNCHANGED stored /\ ~SessionLost]_vars
    => <>[]Settled
=============================================================================
