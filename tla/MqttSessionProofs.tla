--------------------------- MODULE MqttSessionProofs ---------------------------
(* Proofs about MqttSession for any set of configurations and any retry times.   *)
EXTENDS MqttSession, TLAPS

LEMMA TypeInit == ASSUME Init PROVE TypeOK
  <1>1. elapsed \in 0 .. LongRetry
    BY SessionAssumption DEF Init
  <1>2. changed \in BOOLEAN /\ error \in BOOLEAN
    BY DEF Init
  <1>3. enabled \in BOOLEAN
    <2>1. enabled = (stored \in Configs)
      BY DEF Init
    <2> QED  BY <2>1
  <1>4. stored \in Configs \cup {NoHost, NoRecord} /\ loaded = None /\ session = None
    BY DEF Init
  <1>5. /\ performRestart \in BOOLEAN /\ network \in {"up", "down", "ap"}
        /\ pc \in {"network", "web", "export"}
    BY DEF Init
  <1> QED  BY <1>1, <1>2, <1>3, <1>4, <1>5 DEF TypeOK

\* TypeOK is inductive.
LEMMA TypeStep == ASSUME TypeOK, [Next]_vars PROVE TypeOK'
  <1> USE DEF TypeOK
  <1>1. CASE Loop
    <2>1. CASE SessionKept \/ Disconnect \/ NoMqtt \/ NoForm \/ ExportPass
      BY <2>1 DEF SessionKept, Disconnect, NoMqtt, NoForm, ExportPass, record, client
    <2>2. CASE SwitchedOff \/ TooSoon
      BY <2>2 DEF SwitchedOff, TooSoon, record
    <2>3. CASE Connected
      BY <2>3, SessionAssumption, 0 \in 0 .. LongRetry DEF Connected, Attempt
    <2>4. CASE Refused
      BY <2>4, SessionAssumption, 0 \in 0 .. LongRetry DEF Refused, Attempt
    <2> QED  BY <1>1, <2>1, <2>2, <2>3, <2>4 DEF Loop
  <1>2. CASE Save \/ handleSetup
    BY <1>2 DEF Save, setMqttConfig, handleSetup, client
  <1>3. CASE SessionLost \/ NetworkChanges
    BY <1>3 DEF SessionLost, NetworkChanges, record, client
  <1>4. CASE TimePasses
    BY <1>4, SessionAssumption DEF TimePasses, record
  <1>5. CASE Restart
    <2>1. elapsed' \in 0 .. LongRetry
      BY <1>5, SessionAssumption DEF Restart
    <2>2. changed' \in BOOLEAN /\ error' \in BOOLEAN
      BY <1>5 DEF Restart
    <2>5. enabled' \in BOOLEAN
      <3>1. enabled' = (stored \in Configs)
        BY <1>5 DEF Restart
      <3> QED  BY <3>1
    <2>3. stored' \in Configs \cup {NoHost, NoRecord} /\ loaded' = None /\ session' = None
      BY <1>5 DEF Restart
    <2>4. /\ performRestart' \in BOOLEAN /\ network' \in {"up", "down", "ap"}
          /\ pc' \in {"network", "web", "export"}
      BY <1>5 DEF Restart
    <2> QED  BY <2>1, <2>2, <2>3, <2>4, <2>5
  <1>6. CASE UNCHANGED vars
    BY <1>6 DEF vars, record, client
  <1> QED  BY <1>1, <1>2, <1>3, <1>4, <1>5, <1>6 DEF Next

LEMMA ConfiguredInit == ASSUME Init PROVE SessionIsConfigured
  BY DEF Init, SessionIsConfigured

\* Only a change of the stored record, a load and a new session can disturb it.  The
\* first raises the flag; a load happens while the flag is up or there is no session.
LEMMA ConfiguredStep ==
    ASSUME TypeOK, SessionIsConfigured, [Next]_vars
    PROVE  SessionIsConfigured'
  <1> USE DEF TypeOK, SessionIsConfigured
  <1>1. CASE Loop
    <2>1. CASE SessionKept \/ Disconnect \/ NoMqtt \/ NoForm \/ ExportPass
      BY <2>1 DEF SessionKept, Disconnect, NoMqtt, NoForm, ExportPass, record, client
    <2>2. CASE SwitchedOff
      BY <2>2 DEF SwitchedOff
    <2>3. CASE TooSoon
      BY <2>3 DEF TooSoon, MustConnect, record
    <2>4. CASE Connected
      BY <2>4 DEF Connected, Attempt
    <2>5. CASE Refused
      BY <2>5 DEF Refused
    <2> QED  BY <1>1, <2>1, <2>2, <2>3, <2>4, <2>5 DEF Loop
  <1>2. CASE Save
    <2>1. PICK config \in Configs \cup {NoHost} : setMqttConfig(config)
      BY <1>2 DEF Save
    <2>2. CASE config = stored
      BY <2>1, <2>2 DEF setMqttConfig, client
    <2>3. CASE config # stored
      BY <2>1, <2>3 DEF setMqttConfig
    <2> QED  BY <2>2, <2>3
  <1>3. CASE handleSetup \/ SessionLost \/ Restart
    BY <1>3 DEF handleSetup, SessionLost, Restart
  <1>4. CASE NetworkChanges \/ TimePasses \/ UNCHANGED vars
    BY <1>4 DEF NetworkChanges, TimePasses, vars, record, client
  <1> QED  BY <1>1, <1>2, <1>3, <1>4 DEF Next

\* A session that is open while no change (and no restart) is outstanding is one with
\* the stored configuration, or MQTT has just been switched off: MQTT_connect()
\* acknowledges a change (ackMqttChange) only when it has acted on it.
THEOREM SessionConfigured == Spec => []SessionIsConfigured
  <1>1. Init => TypeOK /\ SessionIsConfigured
    BY TypeInit, ConfiguredInit
  <1>2. TypeOK /\ SessionIsConfigured /\ [Next]_vars => (TypeOK /\ SessionIsConfigured)'
    BY TypeStep, ConfiguredStep
  <1> QED  BY <1>1, <1>2, PTL DEF Spec

\* The types of the session, for any retry times: the clock since the last attempt
\* stays within the longer period, and what is loaded is a configuration or none.
THEOREM SessionTypes == Spec => []TypeOK
  <1>1. Init => TypeOK
    BY TypeInit
  <1>2. TypeOK /\ [Next]_vars => TypeOK'
    BY TypeStep
  <1> QED  BY <1>1, <1>2, PTL DEF Spec
=============================================================================
