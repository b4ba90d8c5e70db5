---------------------------- MODULE SessionExport ----------------------------
(***************************************************************************)
(* The session with the broker and the export of updates together: loop()  *)
(* keeps the one (MqttSession.tla) between two passes of the other         *)
(* (UpdateExport.tla), a pass uses the session and *mqttConfig as they     *)
(* happen to be, and the session may be lost in the middle of a pass.      *)
(*                                                                         *)
(* Every step is a step of one of the two modules that leaves the          *)
(* variables of the other alone, except that the end of a pass is one of   *)
(* both.  The behaviours are those between two starts of the program.      *)
(***************************************************************************)
EXTENDS Integers

CONSTANTS
    Configs, NoHost, NoRecord, None, ShortRetry, LongRetry,     \* of MqttSession
    NBlocks, Len_, Throttled, Writeable, MaxMessages            \* of UpdateExport

\* What the two modules assume.
ASSUME CompositionAssumption ==
    /\ {NoHost, NoRecord, None} \cap Configs = {} /\ NoHost # None
    /\ NBlocks \in Nat \ {0} /\ Len_ \in [1 .. NBlocks -> Nat \ {0}]
    /\ MaxMessages \in Nat \ {0}

VARIABLES
    stored, changed, enabled, loaded, session, error, elapsed, performRestart, network,
    pc,                                                         \* where loop() is
    updated, block, idx, visited, sent, index, known,
    pass                                                        \* where the pass is

Session == INSTANCE MqttSession

\* Mutant of CanSend: sendMqttMessage() does not look at publishTopic.
SessionIsOpen == session # None

\* What sendMqttMessage() asks for: mqtt.connected(), and a publishTopic, which a
\* configuration without a host does not have.
CanSend == session # None /\ loaded \in Configs

Export == INSTANCE UpdateExport WITH connected <- CanSend, pc <- pass

sessionVars ==
    <<stored, changed, enabled, loaded, session, error, elapsed, performRestart, network, pc>>
exportVars == <<updated, block, idx, visited, sent, index, known, pass>>
vars == <<sessionVars, exportVars>>

Init ==
    /\ Session!Init
    /\ updated = {} /\ known = Export!Registers
    /\ pass = "loop" /\ block = 1 /\ idx = 0 /\ visited = 0 /\ sent = 0 /\ index = 0

\* The network part of loop() and ws.loop(), which are over before a pass.
SessionLoop ==
    /\ \/ Session!SessionKept \/ Session!SwitchedOff \/ Session!Disconnect \/ Session!TooSoon
       \/ Session!Connected \/ Session!Refused \/ Session!NoMqtt \/ Session!NoForm
    /\ UNCHANGED exportVars

Form ==
    /\ Session!Save \/ Session!handleSetup
    /\ UNCHANGED exportVars

\* accept() and what it calls; the session does not change of its own accord.
PassGoesOn ==
    /\ pc = "export" /\ UNCHANGED sessionVars
    /\ \/ Export!Accept \/ Export!NextBlock \/ Export!AllVisited
       \/ Export!Skip \/ Export!Send \/ Export!Confirm

\* Mutant of PassDone: loop() goes back to the web server.
PassDoneSkipsNetwork ==
    /\ pc = "export" /\ pc' = "web"
    /\ UNCHANGED <<stored, changed, enabled, loaded, session, error, elapsed, performRestart, network>>
    /\ Export!Done

PassDone == Session!ExportPass /\ Export!Done

\* At any point, a pass or not.
World ==
    /\ Session!SessionLost \/ Session!NetworkChanges \/ Session!TimePasses
    /\ UNCHANGED exportVars

\* Mutant of NewValue: regman does not wait.
NewValueInPass ==
    /\ UNCHANGED <<sessionVars, block, idx, visited, sent, index, pass>>
    /\ \E r \in Export!Registers : updated' = updated \cup {r} /\ known' = known \ {r}

\* regman, which waits for the end of a pass.
NewValue ==
    /\ UNCHANGED sessionVars
    /\ \E r \in Export!Registers : Export!NewValue(r)

\* mqtt.loop() or ws.loop() stores a write request while regman marks a new value.
MarkLost ==
    /\ UNCHANGED sessionVars
    /\ \E r \in Writeable : Export!MarkLost(r)

Loop == SessionLoop \/ PassGoesOn \/ PassDone
Next == Loop \/ Form \/ World \/ NewValue \/ MarkLost

SessionExportSpec == Init /\ [][Next]_vars /\ WF_vars(Loop)

-----------------------------------------------------------------------------
(* Properties. *)

\* What the two modules say of the session and of the passes holds of the two
\* together.  For the passes, "connected" is CanSend, which comes to be true only
\* between two passes, and may cease to be at any point of one.
KeepsSession == Session!Spec
KeepsExport == Export!Spec

\* A value goes to the broker of the configuration whose topic it is sent under,
\* and to the one stored, except while a change or a restart is outstanding.
SentAsConfigured ==
    [][pass = "visit" /\ pass' = "sent" /\ CanSend =>
        (loaded = session /\ session = stored) \/ changed \/ performRestart]_vars

\* Once the session stays, an update of the first register of a block gets to
\* the broker, unless write requests are stored for that register: passes go on
\* whatever loop() does besides, and none of them confirms it without sending it.
UpdateReachesBroker ==
    <>[]CanSend =>
        \A r \in (1 .. NBlocks) \X {0} :
            r \notin Writeable => <>[](r \in updated => <>(r \in known))
=============================================================================
