---------------------------- MODULE UpdateExport ----------------------------
(***************************************************************************)
(* How updated registers get to MQTT: loop() passes the one                *)
(* MQTTUpdateVisitor through the register cache again and again; a pass    *)
(* ends after MaxMessages registers, and the next pass starts at the block *)
(* after the one where it ended.                                           *)
(*                                                                         *)
(* A pass runs with the semaphore held, so values change only between      *)
(* passes; RegisterManager.tla, where the two tasks are, implements this   *)
(* specification.  The session with the broker is external: it may break   *)
(* at any moment; loop() renews it between two passes.                     *)
(***************************************************************************)
EXTENDS Integers

CONSTANTS
    NBlocks,        \* number of register blocks
    Len_,           \* block -> number of registers
    Throttled,      \* registers with a throttle period
    Writeable,      \* registers that write requests may be stored for
    MaxMessages     \* registers exported in one pass

Blocks == 1 .. NBlocks
\* A register is named by its block and its index in the block.
Registers == UNION { {b} \X (0 .. Len_[b] - 1) : b \in Blocks }

ASSUME ExportAssumption ==
    /\ NBlocks \in Nat \ {0}
    /\ Len_ \in [Blocks -> Nat \ {0}]
    /\ Throttled \subseteq Registers /\ Writeable \subseteq Registers
    /\ MaxMessages \in Nat \ {0}

VARIABLES
    updated,        \* registers with FLG_VALUE_UPDATED
    connected,      \* mqtt.connected()
    pc,             \* where loop() is
    block, idx,     \* the register the visitor is at
    visited,        \* blocks visited in this pass
    sent,           \* m_messages_sent
    index,          \* m_curr_idx
    known           \* history: registers whose cached value the broker got

Here == <<block, idx>>
visitor == <<visited, sent, index>>
vars == <<updated, connected, pc, Here, visitor, known>>

TypeOK ==
    /\ updated \subseteq Registers /\ known \subseteq Registers
    /\ connected \in BOOLEAN
    /\ pc \in {"loop", "next", "visit", "sent", "end"}
    /\ Here \in Registers
    /\ visited \in 0 .. NBlocks /\ sent \in 0 .. MaxMessages
    /\ index \in 0 .. NBlocks - 1

\* loop() has tried to connect before its first pass.
Init ==
    /\ updated = {} /\ known = Registers    \* nothing read, nothing to know
    /\ connected \in BOOLEAN
    /\ pc = "loop" /\ block = 1 /\ idx = 0 /\ visited = 0 /\ sent = 0 /\ index = 0

-----------------------------------------------------------------------------
(* The environment. *)

\* regman reads a new value (Register::setValue()).
NewValue(r) ==
    /\ pc = "loop"
    /\ updated' = updated \cup {r} /\ known' = known \ {r}
    /\ UNCHANGED <<connected, pc, Here, visitor>>

\* Main stores a write request: the flag byte it writes back may be older than a
\* new value, whose mark is then lost.  That may be no news to the broker, namely
\* when the value has come back to one it got.
MarkLost(r) ==
    /\ pc = "loop" /\ r \in updated
    /\ updated' = updated \ {r} /\ known' \in {known, known \cup {r}}
    /\ UNCHANGED <<connected, pc, Here, visitor>>

\* MQTT_connect(), called by loop() outside the pass.
Connect ==
    /\ pc = "loop" /\ ~connected
    /\ connected' = TRUE
    /\ UNCHANGED <<updated, pc, Here, visitor, known>>

ConnectionLost ==
    /\ connected /\ connected' = FALSE
    /\ UNCHANGED <<updated, pc, Here, visitor, known>>

-----------------------------------------------------------------------------
(* A pass. *)

\* resetNumMessagesSent(), accept(): out of a pass its counters are 0.
Accept ==
    /\ pc = "loop" /\ pc' = "next"
    /\ UNCHANGED <<updated, connected, Here, visitor, known>>

\* Mutant of NextBlock: each pass starts at the first block.
AlwaysFromFirst ==
    /\ pc = "next" /\ visited < NBlocks
    /\ pc' = "visit" /\ visited' = visited + 1
    /\ block' = visited + 1 /\ idx' = 0
    /\ UNCHANGED <<updated, connected, sent, index, known>>

\* getIncIndex(): the block, and the index of the one after it.
NextBlock ==
    /\ pc = "next" /\ visited < NBlocks
    /\ pc' = "visit" /\ visited' = visited + 1
    /\ block' = index + 1 /\ idx' = 0
    /\ index' = (index + 1) % NBlocks
    /\ UNCHANGED <<updated, connected, sent, known>>

AllVisited ==
    /\ pc = "next" /\ visited = NBlocks
    /\ pc' = "end"
    /\ UNCHANGED <<updated, connected, Here, visitor, known>>

\* Mutant of NextRegister: j < len - 1.
SkipLast ==
    \/ idx + 2 < Len_[block] /\ pc' = "visit" /\ idx' = idx + 1
    \/ idx + 2 >= Len_[block] /\ pc' = "next" /\ UNCHANGED idx

NextRegister ==
    \/ idx + 1 < Len_[block] /\ pc' = "visit" /\ idx' = idx + 1
    \/ idx + 1 = Len_[block] /\ pc' = "next" /\ UNCHANGED idx

\* Not updated, or its throttle period has not passed (readyForMqttExport()).
Skip ==
    /\ pc = "visit" /\ (Here \in updated => Here \in Throttled)
    /\ NextRegister
    /\ UNCHANGED <<updated, connected, block, visitor, known>>

\* sendMqttMessage(): returns at once when not connected.
Send ==
    /\ pc = "visit" /\ Here \in updated
    /\ pc' = "sent"
    /\ known' = IF connected THEN known \cup {Here} ELSE known
    /\ UNCHANGED <<updated, connected, Here, visitor>>

\* confirmUpdate(), whatever became of the message; the limit.
Confirm ==
    /\ pc = "sent"
    /\ updated' = updated \ {Here}
    /\ sent' = sent + 1
    /\ \/ sent' < MaxMessages /\ NextRegister
       \/ sent' = MaxMessages /\ pc' = "end" /\ UNCHANGED idx
    /\ UNCHANGED <<connected, block, visited, index, known>>

Done ==
    /\ pc = "end" /\ pc' = "loop"
    /\ block' = 1 /\ idx' = 0 /\ visited' = 0 /\ sent' = 0
    /\ UNCHANGED <<updated, connected, index, known>>

Pass == Accept \/ NextBlock \/ AllVisited \/ Skip \/ Send \/ Confirm \/ Done
Next ==
    \/ Pass \/ Connect \/ ConnectionLost
    \/ \E r \in Registers : NewValue(r)
    \/ \E r \in Writeable : MarkLost(r)

Spec == Init /\ [][Next]_vars

\* loop() runs on and on.  That the semaphore does not always time out is
\* MainAccept of RegisterManager.tla: regman sleeps between its rounds.  A
\* throttle period ends, and then the register is not skipped.
PassSpec ==
    /\ Spec /\ WF_vars(Pass)
    /\ \A r \in Throttled : SF_vars(Send /\ Here = r)

-----------------------------------------------------------------------------
(* Properties. *)

\* The first register of a block is exported, however often the registers of
\* all blocks change: passes end early, but each goes on one block further.
\* (Later registers of a block have no such promise: a block that is left
\* early is entered again at its first register.  And while there is no session a
\* value counts as exported that is not sent.)
FirstOfBlockExported ==
    \A b \in Blocks : <<b, 0>> \in updated ~> <<b, 0>> \notin updated

\* Once values are at rest every updated register is exported, and stays so.
ExportDrains ==
    <>[][\A r \in Registers : ~NewValue(r)]_vars => <>[](updated = {})
=============================================================================
