------------------------ MODULE SessionExportProofs ------------------------
(***************************************************************************)
(* The session and the export together keep what each of them promises     *)
(* alone: SessionExport implements MqttSession, and it implements          *)
(* UpdateExport with "connected" for what sendMqttMessage() asks.  What    *)
(* is sent is sent as configured, for any configurations, retry periods,   *)
(* blocks and limits.                                                      *)
(***************************************************************************)
EXTENDS SessionExport, TLAPS

-----------------------------------------------------------------------------
(* The session: a step of the composition is one of MqttSession, or none. *)

LEMMA SessionStep ==
    ASSUME [Next]_vars
    PROVE  [Session!Next]_(Session!vars)
<1>1. CASE SessionLoop \/ PassDone
    BY <1>1 DEF SessionLoop, PassDone, Session!Next, Session!Loop
<1>2. CASE Form
    BY <1>2 DEF Form, Session!Next
<1>3. CASE World
    BY <1>3 DEF World, Session!Next
<1>4. CASE PassGoesOn \/ NewValue \/ MarkLost \/ UNCHANGED vars
    <2>1. UNCHANGED sessionVars
        BY <1>4 DEF PassGoesOn, NewValue, MarkLost, vars
    <2> QED BY <2>1 DEF sessionVars, Session!vars, Session!record, Session!client
<1> QED BY <1>1, <1>2, <1>3, <1>4 DEF Next, Loop

\* The composition implements MqttSession: the passes, whatever becomes of the
\* session meanwhile, do nothing to it but end.
THEOREM SessionKept == SessionExportSpec => KeepsSession
<1>1. Init => Session!Init
    BY DEF Init
<1>2. [Next]_vars => [Session!Next]_(Session!vars)
    BY SessionStep
<1> QED BY <1>1, <1>2, PTL DEF SessionExportSpec, KeepsSession, Session!Spec

-----------------------------------------------------------------------------
(* The export. *)

\* loop() is in a pass only at its place for it.
PassInv == pc # "export" => pass = "loop"

LEMMA PassStep ==
    ASSUME PassInv, [Next]_vars
    PROVE  PassInv'
<1> USE DEF PassInv
<1>1. CASE SessionLoop \/ Form
    <2>1. pc # "export" /\ UNCHANGED pass
        BY <1>1
        DEF SessionLoop, Form, exportVars, Session!SessionKept, Session!SwitchedOff,
            Session!Disconnect, Session!TooSoon, Session!Connected, Session!Refused,
            Session!Attempt, Session!NoMqtt, Session!NoForm, Session!Save, Session!handleSetup,
            Session!setMqttConfig, Session!MustConnect, Session!InNetworkPart
    <2> QED BY <2>1
<1>2. CASE PassGoesOn
    BY <1>2 DEF PassGoesOn, sessionVars
<1>3. CASE PassDone
    BY <1>3 DEF PassDone, Session!ExportPass, Export!Done
<1>4. CASE World
    BY <1>4
    DEF World, exportVars, Session!SessionLost, Session!NetworkChanges, Session!TimePasses
<1>5. CASE NewValue \/ MarkLost
    BY <1>5 DEF NewValue, MarkLost, sessionVars, Export!NewValue, Export!MarkLost
<1>6. CASE UNCHANGED vars
    BY <1>6 DEF vars, sessionVars, exportVars
<1> QED BY <1>1, <1>2, <1>3, <1>4, <1>5, <1>6 DEF Next, Loop

\* A step that leaves the pass alone and does not make sending possible, or does so
\* while there is no pass.
LEMMA ExportUnmoved ==
    ASSUME UNCHANGED exportVars, CanSend' => CanSend \/ pass = "loop"
    PROVE  [Export!Next]_(Export!vars)
<1>1. CanSend \in BOOLEAN /\ CanSend' \in BOOLEAN
    BY DEF CanSend
<1>2. CASE CanSend' = CanSend
    BY <1>2 DEF exportVars, Export!vars, Export!Here, Export!visitor
<1>3. CASE CanSend /\ ~CanSend'
    <2>1. Export!ConnectionLost
        BY <1>3 DEF exportVars, Export!ConnectionLost, Export!Here, Export!visitor
    <2> QED BY <2>1 DEF Export!Next
<1>4. CASE ~CanSend /\ CanSend'
    <2>1. Export!Connect
        BY <1>4 DEF exportVars, Export!Connect, Export!Here, Export!visitor
    <2> QED BY <2>1 DEF Export!Next
<1> QED BY <1>1, <1>2, <1>3, <1>4

LEMMA ExportStep ==
    ASSUME PassInv, [Next]_vars
    PROVE  [Export!Next]_(Export!vars)
<1>1. CASE SessionLoop \/ Form
    <2>1. pc # "export" /\ UNCHANGED exportVars
        BY <1>1
        DEF SessionLoop, Form, Session!SessionKept, Session!SwitchedOff,
            Session!Disconnect, Session!TooSoon, Session!Connected, Session!Refused,
            Session!Attempt, Session!NoMqtt, Session!NoForm, Session!Save, Session!handleSetup,
            Session!setMqttConfig, Session!MustConnect, Session!InNetworkPart
    <2> QED BY <2>1, ExportUnmoved DEF PassInv
<1>2. CASE PassGoesOn
    BY <1>2 DEF PassGoesOn, Export!Next, Export!Pass
<1>3. CASE PassDone
    BY <1>3 DEF PassDone, Export!Next, Export!Pass
<1>4. CASE World
    <2>1. session' \in {session, None} /\ UNCHANGED <<loaded, exportVars>>
        BY <1>4
        DEF World, Session!SessionLost, Session!NetworkChanges, Session!TimePasses, Session!client
    <2>2. CanSend' => CanSend
        BY <2>1 DEF CanSend
    <2> QED BY <2>1, <2>2, ExportUnmoved
<1>5. CASE NewValue \/ MarkLost
    BY <1>5 DEF NewValue, MarkLost, Export!Next
<1>6. CASE UNCHANGED vars
    <2>1. UNCHANGED exportVars /\ (CanSend' => CanSend)
        BY <1>6 DEF vars, sessionVars, CanSend
    <2> QED BY <2>1, ExportUnmoved
<1> QED BY <1>1, <1>2, <1>3, <1>4, <1>5, <1>6 DEF Next, Loop

\* The composition implements UpdateExport: sending becomes possible only between
\* two passes, because MQTT_connect() is called by loop() only, and may cease to be
\* possible at any point of one.
THEOREM ExportKept == SessionExportSpec => KeepsExport
<1>1. Init => PassInv /\ Export!Init
    <2> SUFFICES ASSUME Init PROVE PassInv /\ Export!Init
        OBVIOUS
    <2>1. CanSend \in BOOLEAN
        BY DEF CanSend
    <2> QED BY <2>1 DEF Init, PassInv, Export!Init
<1>2. PassInv /\ [Next]_vars => PassInv' /\ [Export!Next]_(Export!vars)
    BY PassStep, ExportStep
<1> QED BY <1>1, <1>2, PTL DEF SessionExportSpec, KeepsExport, Export!Spec
-----------------------------------------------------------------------------
(* What is sent. *)

\* Only what the steps of the session need of its types.
SentInv == changed \in BOOLEAN /\ Session!SessionIsConfigured

LEMMA SentInit == ASSUME Init PROVE SentInv
BY DEF Init, Session!Init, SentInv, Session!SessionIsConfigured

\* A change of the stored record raises the flag; a load happens while the flag is up
\* or there is no session, and the flag is cleared only with a session as stored, or
\* with MQTT switched off.
LEMMA SentStep ==
    ASSUME SentInv, [Session!Next]_(Session!vars)
    PROVE  SentInv'
<1> USE DEF SentInv, Session!SessionIsConfigured
<1>1. CASE Session!Loop
    <2>1. CASE Session!SessionKept \/ Session!Disconnect \/ Session!NoMqtt
               \/ Session!NoForm \/ Session!ExportPass
        BY <2>1
        DEF Session!SessionKept, Session!Disconnect, Session!NoMqtt, Session!NoForm,
            Session!ExportPass, Session!record, Session!client
    <2>2. CASE Session!SwitchedOff
        BY <2>2 DEF Session!SwitchedOff
    <2>3. CASE Session!TooSoon
        BY <2>3 DEF Session!TooSoon, Session!MustConnect, Session!record
    <2>4. CASE Session!Connected
        BY <2>4 DEF Session!Connected, Session!Attempt
    <2>5. CASE Session!Refused
        BY <2>5 DEF Session!Refused
    <2> QED BY <1>1, <2>1, <2>2, <2>3, <2>4, <2>5 DEF Session!Loop
<1>2. CASE Session!Save
    <2>1. PICK config \in Configs \cup {NoHost} : Session!setMqttConfig(config)
        BY <1>2 DEF Session!Save
    <2>2. changed' \in BOOLEAN
        <3>1. changed' = (changed \/ config # stored)
            BY <2>1 DEF Session!setMqttConfig
        <3> QED BY <3>1
    <2>3. CASE config = stored
        BY <2>1, <2>2, <2>3 DEF Session!setMqttConfig, Session!client
    <2>4. CASE config # stored
        BY <2>1, <2>2, <2>4 DEF Session!setMqttConfig
    <2> QED BY <2>3, <2>4
<1>3. CASE Session!handleSetup
    <2>1. changed' \in BOOLEAN
        <3>1. changed' = (changed \/ stored = NoRecord)
            BY <1>3 DEF Session!handleSetup
        <3> QED BY <3>1
    <2> QED BY <1>3, <2>1 DEF Session!handleSetup
<1>4. CASE Session!SessionLost \/ Session!Restart
    BY <1>4 DEF Session!SessionLost, Session!Restart, Session!record
<1>5. CASE Session!NetworkChanges \/ Session!TimePasses \/ UNCHANGED Session!vars
    BY <1>5
    DEF Session!NetworkChanges, Session!TimePasses, Session!vars, Session!record, Session!client
<1> QED BY <1>1, <1>2, <1>3, <1>4, <1>5 DEF Session!Next

\* What a pass sends goes to the broker of the configuration whose topic it is sent
\* under, the one stored, except while a change or a restart is outstanding: a pass
\* in which MQTT was switched off has no topic, whatever session is still open.
THEOREM SentIsConfigured == SessionExportSpec => SentAsConfigured
<1>1. Init => SentInv
    BY SentInit
<1>2. SentInv /\ [Next]_vars => SentInv'
    BY SessionStep, SentStep
<1>3. SentInv /\ CanSend => (loaded = session /\ session = stored) \/ changed \/ performRestart
    BY CompositionAssumption DEF SentInv, Session!SessionIsConfigured, CanSend
<1>4. SentInv => (pass = "visit" /\ pass' = "sent" /\ CanSend =>
                    (loaded = session /\ session = stored) \/ changed \/ performRestart)
    BY <1>3
<1> QED BY <1>1, <1>2, <1>4, PTL DEF SessionExportSpec, SentAsConfigured
-----------------------------------------------------------------------------
(* The types of the export, which are its bounds: the visitor is always at a      *)
(* register, and the counts of a pass stay within their limits.                   *)

\* In a pass the limit is not reached yet: Confirm ends it.  Out of one nothing is
\* counted.
CountInv ==
    /\ Export!TypeOK
    /\ pass \in {"next", "visit", "sent"} => sent < MaxMessages
    /\ pass = "loop" => sent = 0

Place == block \in 1 .. NBlocks /\ idx \in 0 .. Len_[block] - 1

LEMMA HereIsPlace ==
    /\ Export!Here \in Export!Registers <=> Place
    /\ Export!Here' \in Export!Registers <=> Place'
BY DEF Export!Here, Export!Registers, Export!Blocks, Place

LEMMA CountInit == ASSUME Export!Init PROVE CountInv
<1>1. Place
    BY CompositionAssumption DEF Export!Init, Place
<1>2. Export!Here \in Export!Registers
    BY <1>1, HereIsPlace
<1> QED
    BY <1>2, CompositionAssumption DEF Export!Init, CountInv, Export!TypeOK, CanSend

\* The next block: one more visited, and an index that stays below the number of blocks.
LEMMA NextIndex ==
    ASSUME NEW n \in 0 .. NBlocks - 1
    PROVE  n + 1 \in 1 .. NBlocks /\ (n + 1) % NBlocks \in 0 .. NBlocks - 1
BY CompositionAssumption

LEMMA NextRegisterStays ==
    ASSUME Place, Export!NextRegister, block' = block
    PROVE  Place' /\ pass' \in {"next", "visit"}
<1>1. Len_[block] \in Nat \ {0}
    BY CompositionAssumption DEF Place
<1> QED BY <1>1 DEF Place, Export!NextRegister

LEMMA CountStep ==
    ASSUME CountInv, [Export!Next]_(Export!vars)
    PROVE  CountInv'
<1>1. Place /\ CanSend' \in BOOLEAN
    BY HereIsPlace DEF CountInv, Export!TypeOK, CanSend
<1> SUFFICES /\ Export!TypeOK' /\ (pass' \in {"next", "visit", "sent"} => sent' < MaxMessages)
             /\ pass' = "loop" => sent' = 0
    BY DEF CountInv
<1> USE CompositionAssumption DEF CountInv, Export!TypeOK
<1>2. CASE Export!Accept
    BY <1>1, <1>2 DEF Export!Accept, Export!Here, Export!visitor
<1>3. CASE Export!NextBlock
    <2>1. block' \in 1 .. NBlocks /\ index' \in 0 .. NBlocks - 1
        BY <1>3, NextIndex DEF Export!NextBlock
    <2>2. Len_[block'] \in Nat \ {0}
        BY <2>1
    <2>3. Place'
        BY <1>3, <2>1, <2>2 DEF Export!NextBlock, Place
    <2>4. visited' \in 0 .. NBlocks
        BY <1>3 DEF Export!NextBlock
    <2> QED BY <1>1, <1>3, <2>1, <2>3, <2>4, HereIsPlace DEF Export!NextBlock
<1>4. CASE Export!Skip
    <2>1. Place' /\ pass' \in {"next", "visit"}
        BY <1>1, <1>4, NextRegisterStays DEF Export!Skip
    <2> QED BY <1>1, <1>4, <2>1, HereIsPlace DEF Export!Skip, Export!visitor
<1>5. CASE Export!Send
    BY <1>1, <1>5 DEF Export!Send, Export!Here, Export!visitor
<1>6. CASE Export!Confirm
    <2>1. sent' \in 0 .. MaxMessages
        BY <1>6 DEF Export!Confirm
    <2>2. CASE sent' < MaxMessages /\ Export!NextRegister
        <3>1. Place' /\ pass' \in {"next", "visit"}
            BY <1>1, <1>6, <2>2, NextRegisterStays DEF Export!Confirm
        <3> QED BY <1>1, <1>6, <2>1, <2>2, <3>1, HereIsPlace DEF Export!Confirm
    <2>3. CASE sent' = MaxMessages /\ pass' = "end" /\ UNCHANGED idx
        <3>1. Place'
            BY <1>1, <1>6, <2>3 DEF Export!Confirm, Place
        <3> QED BY <1>1, <1>6, <2>1, <2>3, <3>1, HereIsPlace DEF Export!Confirm
    <2> QED BY <1>6, <2>2, <2>3 DEF Export!Confirm
<1>7. CASE Export!Connect \/ Export!ConnectionLost
    BY <1>1, <1>7 DEF Export!Connect, Export!ConnectionLost, Export!Here, Export!visitor
<1>8. CASE \/ \E r \in Export!Registers : Export!NewValue(r)
           \/ \E r \in Writeable : Export!MarkLost(r)
    BY <1>1, <1>8 DEF Export!NewValue, Export!MarkLost, Export!Here, Export!visitor
<1>9. CASE UNCHANGED Export!vars
    BY <1>1, <1>9 DEF Export!vars, Export!Here, Export!visitor
<1>10. CASE Export!AllVisited
    BY <1>1, <1>10 DEF Export!AllVisited, Export!Here, Export!visitor
<1>11. CASE Export!Done
    <2>1. Place'
        BY <1>11 DEF Export!Done, Place
    <2> QED BY <1>1, <1>11, <2>1, HereIsPlace DEF Export!Done
<1> QED BY <1>2, <1>3, <1>4, <1>5, <1>6, <1>7, <1>8, <1>9, <1>10, <1>11
        DEF Export!Next, Export!Pass

\* The visitor never leaves the blocks and registers there are, and a pass never
\* confirms more registers than it may, with any blocks and any limit: the end of a
\* block, the limit and the last block may coincide.
THEOREM ExportTypes == SessionExportSpec => []Export!TypeOK
<1>1. Export!Init => CountInv
    BY CountInit
<1>2. CountInv /\ [Export!Next]_(Export!vars) => CountInv'
    BY CountStep
<1>3. CountInv => Export!TypeOK
    BY DEF CountInv
<1>4. SessionExportSpec => Export!Spec
    BY ExportKept DEF KeepsExport
<1> QED BY <1>1, <1>2, <1>3, <1>4, PTL DEF Export!Spec
=============================================================================
