-------------------------- MODULE RegisterManager --------------------------
(***************************************************************************)
(* The register cache of the bridge and the two FreeRTOS tasks that share  *)
(* it:                                                                     *)
(*                                                                         *)
(*   regman  (core 0)  RegisterManager::taskCode: takes the semaphore,     *)
(*                     writes the pending values to the unit, polls the    *)
(*                     register blocks that are due, gives the semaphore   *)
(*                     back and sleeps.                                    *)
(*   main    (core 1)  loop() of main.ino: receives write requests (MQTT   *)
(*                     messages and web forms), reconfigures the Modbus    *)
(*                     client when the system configuration changed, and   *)
(*                     passes MQTTUpdateVisitor through the cache.         *)
(*                                                                         *)
(* Write requests are stored WITHOUT the semaphore.  The flag byte of a    *)
(* register is therefore read and written back in two steps wherever both  *)
(* tasks may be at it.                                                     *)
(*                                                                         *)
(* A local variable that is out of scope has its initial value.            *)
(*                                                                         *)
(* Time is abstracted: due[b] says that needsUpdate() would hold for block *)
(* b at the moment updateRegisters() captures now.                         *)
(***************************************************************************)
EXTENDS Integers, Sequences

CONSTANTS
    NBlocks,        \* number of register blocks, in the order of m_registers
    Start, Len_,    \* address range of a block: Start[b]+1 .. Start[b]+Len_[b]
    Coil,           \* blocks read with readCoil()
    Readable,       \* addresses isReadable() accepts (and that have a name)
    Writeable,      \* addresses isWriteable() accepts
    Throttled,      \* addresses with an MQTT throttle period
    Values,         \* values a register may hold or be asked to hold
    NoValue,        \* VAL_INVALID
    MaxMessages,    \* messages the MQTT visitor sends in one pass; 3 in the code
    MaxRequests     \* bound: write requests stored for one address

Blocks == 1 .. NBlocks
Addresses == UNION { Start[b] + 1 .. Start[b] + Len_[b] : b \in Blocks }

ASSUME BlocksAssumption ==
    /\ NBlocks \in Nat \ {0}
    /\ Start \in [Blocks -> Nat]
    /\ Len_ \in [Blocks -> Nat \ {0}]
    /\ Coil \subseteq Blocks
ASSUME DisjointAssumption ==
    \A b, c \in Blocks :
        b # c => Start[b] + Len_[b] <= Start[c] \/ Start[c] + Len_[c] <= Start[b]
ASSUME RegistersAssumption ==
    /\ Readable \subseteq Addresses
    /\ Writeable \subseteq Addresses
    /\ Throttled \subseteq Addresses
    /\ NoValue \notin Values
    /\ MaxMessages \in Nat \ {0}
    /\ MaxRequests \in Nat

\* The flags of register.h; max_tries of the retry loops.
Flags == {"VALUE_UPDATED", "PENDING_WRITE"}
MaxTries == 2

VARIABLES
    \* --- RegisterManager members
    sem,            \* count of m_sem
    enabled,        \* m_enabled
    state,          \* m_state
    due,            \* block -> its polling interval has passed
    \* --- Register::SingleReg members, by address
    value,          \* m_value
    pending,        \* m_pending_set_value
    flags,          \* m_flags, as the set of flags that are 1
    \* --- the regman task
    rmPc,           \* where it is
    rmBlock, rmIdx, \* the register it is at: address Start[rmBlock]+rmIdx+1
    rmTry,          \* i+1 of the retry loop
    rmValue,        \* update of PendingWriteVisitor::visit()
    rmFlags,        \* flag byte loaded, to be stored back
    \* --- the main task
    mPc, mReturn,   \* where it is; where a stored request returns to
    mAddr, mFlags,  \* address of the request being stored; flag byte loaded
    mBlock, mIdx,   \* the register the visitor is at
    mVisited, mSent,\* blocks visited; m_messages_sent
    vIndex,         \* m_curr_idx of the (static) visitor
    sysChanged,     \* configuration::systemChanged
    stored,         \* the configuration in EEPROM; valid: with baud rate and unit id
    sysConfig,      \* sysConfig, main's copy, is valid
    \* --- history
    requests,       \* values accepted for an address, oldest first
    delivered,      \* index in requests of the last value the unit got
    captured,       \* index in requests of rmValue
    handed,         \* value last handed to sendMqttMessage()
    failed          \* what last failed on all its tries in this round

cells == <<value, pending, flags>>
rmPos == <<rmBlock, rmIdx>>
rmLocals == <<rmTry, rmValue, rmFlags, captured>>
rmVars == <<rmPc, rmPos, rmLocals>>
visitVars == <<mBlock, mIdx, mVisited, mSent, vIndex>>
requestVars == <<mReturn, mAddr, mFlags>>
configVars == <<sysChanged, stored, sysConfig>>
mainVars == <<mPc, requestVars, visitVars, configVars>>
manager == <<sem, enabled, state, due>>
outcome == <<delivered, failed>>
history == <<requests, outcome, handed>>
vars == <<manager, cells, rmVars, mainVars, history>>

RmAddress == Start[rmBlock] + rmIdx + 1
VisitedAddress == Start[mBlock] + mIdx + 1

\* Registers by block and index, as UpdateExport names them.
Registers == UNION { {b} \X (0 .. Len_[b] - 1) : b \in Blocks }
AddressOf(r) == Start[r[1]] + r[2] + 1
RegistersAt(addresses) == { r \in Registers : AddressOf(r) \in addresses }

-----------------------------------------------------------------------------
(* The places of the two tasks. *)

ReadPhase == {"poll", "reading", "store", "or"}
\* Places reached only in a round that saw m_enabled set.
ActiveRound == {"scan", "write", "confirm", "clear"} \cup ReadPhase
\* regman inside a Modbus transaction
OnBus == {"write", "reading"}
RmPlaces == {"sleep", "round", "give"} \cup ActiveRound

VisitPlaces == {"next", "visit", "sent", "end"}
RequestPlaces == {"load", "or"}
ConfigPlaces == {"disable", "disabling", "begin", "enable", "enabling"}
MainPlaces == {"loop", "accept", "json", "jsonEnd"}
                \cup VisitPlaces \cup RequestPlaces \cup ConfigPlaces

\* Places at which a task has taken the semaphore and not given it back.
RmHolds == rmPc # "sleep"
MainHolds ==
    \/ mPc \in VisitPlaces \cup {"disabling", "enabling", "jsonEnd"}
    \/ mPc \in RequestPlaces /\ mReturn = "sent"

ManagerTypeOK ==
    /\ sem \in 0 .. 1 /\ enabled \in BOOLEAN
    /\ state \in {"CREATED", "DISABLED", "CONNECTING", "CONNECTED"}
    /\ due \in [Blocks -> BOOLEAN]
CellsTypeOK ==
    /\ value \in [Addresses -> Values \cup {NoValue}]
    /\ pending \in [Addresses -> Values \cup {NoValue}]
    /\ flags \in [Addresses -> SUBSET Flags]
RmTypeOK ==
    /\ rmPc \in RmPlaces
    /\ rmBlock \in Blocks /\ rmIdx \in 0 .. Len_[rmBlock] - 1
    /\ rmTry \in 1 .. MaxTries
    /\ rmValue \in Values \cup {NoValue} /\ captured \in Nat
    /\ rmFlags \in SUBSET Flags
MainTypeOK ==
    /\ mPc \in MainPlaces /\ mReturn \in {"loop", "sent"}
    /\ mAddr \in Addresses /\ mFlags \in SUBSET Flags
    /\ mBlock \in Blocks /\ mIdx \in 0 .. Len_[mBlock] - 1
    /\ mVisited \in 0 .. NBlocks /\ mSent \in 0 .. MaxMessages
    /\ vIndex \in 0 .. NBlocks - 1
    /\ sysChanged \in BOOLEAN /\ sysConfig \in BOOLEAN
    /\ stored \in {"none", "invalid", "valid"}
HistoryTypeOK ==
    /\ requests \in [Addresses -> Seq(Values)]
    /\ delivered \in [Addresses -> Nat]
    /\ handed \in [Addresses -> Values \cup {NoValue}]
    /\ failed \in {"none", "write", "read"}

\* Every cursor stays inside its block, every counter inside its limit.
TypeOK == ManagerTypeOK /\ CellsTypeOK /\ RmTypeOK /\ MainTypeOK /\ HistoryTypeOK

\* The constructors, addRegisters() and setup().  Without a stored
\* configuration sysConfig stays zero and systemChanged stays false.
Init ==
    /\ sem = 1
    /\ enabled = FALSE
    /\ state = "CREATED"
    /\ due = [b \in Blocks |-> TRUE]
    /\ value = [a \in Addresses |-> NoValue]    \* 0 if not readable: never looked at
    /\ pending = [a \in Addresses |-> NoValue]
    /\ flags = [a \in Addresses |-> {}]
    /\ rmPc = "sleep" /\ rmBlock = 1 /\ rmIdx = 0
    /\ rmTry = 1 /\ rmValue = NoValue /\ rmFlags = {}
    /\ mPc = "loop" /\ mReturn = "loop" /\ mAddr = Start[1] + 1 /\ mFlags = {}
    /\ mBlock = 1 /\ mIdx = 0 /\ mVisited = 0 /\ mSent = 0 /\ vIndex = 0
    /\ stored \in {"none", "invalid", "valid"}
    /\ sysConfig = (stored = "valid") /\ sysChanged = (stored # "none")
    /\ requests = [a \in Addresses |-> <<>>]
    /\ delivered = [a \in Addresses |-> 0]
    /\ captured = 0
    /\ handed = value
    /\ failed = "none"

-----------------------------------------------------------------------------
(* The regman task. *)

\* A step of regman that holds the semaphore throughout.
RmKeeps == UNCHANGED <<sem, enabled, mainVars, requests, handed>>

\* protect(portMAX_DELAY) at the top of the loop, after Sleep().
RmTake ==
    /\ rmPc = "sleep" /\ sem = 1
    /\ sem' = 0
    /\ rmPc' = "round"
    /\ UNCHANGED <<enabled, state, due, cells, rmPos, rmLocals, mainVars, history>>

RmDisabled ==
    /\ rmPc = "round" /\ ~enabled
    /\ state' = "DISABLED"
    /\ rmPc' = "give"
    /\ UNCHANGED <<due, cells, rmPos, rmLocals, outcome>>
    /\ RmKeeps

\* processPendingCommits(): a fresh visitor, so the traversal starts at block 0.
RmStartCommits ==
    /\ rmPc = "round" /\ enabled
    /\ rmPc' = "scan" /\ rmBlock' = 1 /\ rmIdx' = 0
    /\ UNCHANGED <<state, due, cells, rmLocals, outcome>>
    /\ RmKeeps

\* The traversal goes on to the next register.  visit() never returns -1: the
\* result its retry loop assigns is another variable than the one it tests at
\* its end.  So all registers are visited, numFailures() stays 0, and
\* updateRegisters() always follows.
NextCommit ==
    /\ \/ /\ rmIdx + 1 < Len_[rmBlock]
          /\ rmPc' = "scan" /\ rmIdx' = rmIdx + 1 /\ UNCHANGED rmBlock
       \/ /\ rmIdx + 1 = Len_[rmBlock] /\ rmBlock < NBlocks
          /\ rmPc' = "scan" /\ rmIdx' = 0 /\ rmBlock' = rmBlock + 1
       \/ /\ rmIdx + 1 = Len_[rmBlock] /\ rmBlock = NBlocks
          /\ rmPc' = "poll" /\ rmIdx' = 0 /\ rmBlock' = 1
    /\ rmTry' = 1 /\ rmValue' = NoValue /\ rmFlags' = {} /\ captured' = 0

RmSkipRegister ==
    /\ rmPc = "scan" /\ "PENDING_WRITE" \notin flags[RmAddress]
    /\ NextCommit
    /\ UNCHANGED <<state, due, cells, outcome>>
    /\ RmKeeps

\* Mutant of RmCapture: the cached value is written, not the requested one.
CaptureCached ==
    /\ rmPc = "scan" /\ "PENDING_WRITE" \in flags[RmAddress]
    /\ rmPc' = "write"
    /\ rmValue' = value[RmAddress]
    /\ captured' = Len(requests[RmAddress])
    /\ UNCHANGED <<state, due, cells, rmPos, rmTry, rmFlags, outcome>>
    /\ RmKeeps

\* The value to write is read once, before the retry loop.
RmCapture ==
    /\ rmPc = "scan" /\ "PENDING_WRITE" \in flags[RmAddress]
    /\ rmPc' = "write"
    /\ rmValue' = pending[RmAddress]
    /\ captured' = Len(requests[RmAddress])
    /\ UNCHANGED <<state, due, cells, rmPos, rmTry, rmFlags, outcome>>
    /\ RmKeeps

\* Mutant of Deliver: the address is off by one.
DeliverToNext ==
    delivered' = [delivered EXCEPT ![CHOOSE a \in Addresses : a # RmAddress] = captured]

\* The unit got the value; its answer may be lost all the same.
Deliver == delivered' = [delivered EXCEPT ![RmAddress] = captured]

RmWriteOk ==
    /\ rmPc = "write"
    /\ Deliver
    /\ rmPc' = "confirm"
    /\ UNCHANGED <<state, due, cells, rmPos, rmLocals, failed>>
    /\ RmKeeps

RmWriteFail ==
    /\ rmPc = "write"
    /\ Deliver \/ UNCHANGED delivered
    /\ \/ /\ rmTry < MaxTries
          /\ rmTry' = rmTry + 1
          /\ UNCHANGED <<rmPc, rmPos, rmValue, rmFlags, captured, failed>>
       \/ /\ rmTry = MaxTries
          /\ NextCommit
          /\ failed' = "write"
    /\ UNCHANGED <<state, due, cells>>
    /\ RmKeeps

\* confirmPendingWrite(): m_flags &= ~FLG_PENDING_WRITE, load ...
RmConfirm ==
    /\ rmPc = "confirm"
    /\ rmPc' = "clear"
    /\ rmFlags' = flags[RmAddress]
    /\ UNCHANGED <<state, due, cells, rmPos, rmTry, rmValue, outcome, captured>>
    /\ RmKeeps

\* Mutant of RmClearPending: the pending flag stays after the write.
ClearNothing ==
    /\ rmPc = "clear"
    /\ due' = [due EXCEPT ![rmBlock] = TRUE]
    /\ NextCommit
    /\ UNCHANGED <<state, cells, outcome>>
    /\ RmKeeps

\* ... and store.  Then the poll timer is dated back by the interval: the block
\* is due as soon as one more millisecond has passed.
RmClearPending ==
    /\ rmPc = "clear"
    /\ flags' = [flags EXCEPT ![RmAddress] = rmFlags \ {"PENDING_WRITE"}]
    /\ \E readbackNow \in BOOLEAN : due' = [due EXCEPT ![rmBlock] = readbackNow]
    /\ NextCommit
    /\ UNCHANGED <<state, value, pending, outcome>>
    /\ RmKeeps

\* updateRegisters() goes on to the next block, or returns true.
NextPoll ==
    /\ rmIdx' = 0
    /\ \/ /\ rmBlock < NBlocks
          /\ rmPc' = "poll" /\ rmBlock' = rmBlock + 1 /\ UNCHANGED state
       \/ /\ rmBlock = NBlocks
          /\ rmPc' = "give" /\ state' = "CONNECTED" /\ rmBlock' = 1

RmSkipBlock ==
    /\ rmPc = "poll" /\ ~due[rmBlock]
    /\ NextPoll
    /\ UNCHANGED <<due, cells, rmLocals, outcome>>
    /\ RmKeeps

RmReadBlock ==
    /\ rmPc = "poll" /\ due[rmBlock]
    /\ rmPc' = "reading"
    /\ UNCHANGED <<state, due, cells, rmPos, rmLocals, outcome>>
    /\ RmKeeps

\* What follows the retry loop: the answer is stored, or the round is given up.
ReadAccepted == rmPc' = "store" /\ rmIdx' = 0 /\ UNCHANGED <<rmBlock, state>>
ReadRejected == rmPc' = "give" /\ rmBlock' = 1 /\ rmIdx' = 0 /\ state' = "CONNECTING"

\* readCoil() tests a result that was never assigned (its retry loop assigns a
\* variable of its own), so for a coil block either may follow any answer.
RmReadOk ==
    /\ rmPc = "reading"
    /\ ReadAccepted \/ (rmBlock \in Coil /\ ReadRejected)
    /\ rmTry' = 1
    /\ UNCHANGED <<due, cells, rmValue, rmFlags, outcome, captured>>
    /\ RmKeeps

\* Mutant of RmReadFail: a failed read is tried again and again.
RetryForever ==
    /\ rmPc = "reading"
    /\ rmTry' = IF rmTry < MaxTries THEN rmTry + 1 ELSE 1
    /\ UNCHANGED <<state, due, cells, rmPc, rmPos, rmValue, rmFlags, captured, outcome>>
    /\ RmKeeps

RmReadFail ==
    /\ rmPc = "reading"
    /\ \/ /\ rmTry < MaxTries
          /\ rmTry' = rmTry + 1
          /\ UNCHANGED <<rmPc, rmPos, state, failed>>
       \/ /\ rmTry = MaxTries
          /\ ReadRejected \/ (rmBlock \in Coil /\ ReadAccepted)
          /\ rmTry' = 1 /\ failed' = "read"
    /\ UNCHANGED <<due, cells, rmValue, rmFlags, delivered, captured>>
    /\ RmKeeps

\* Mutant of NextStore: setLastUpdated() is forgotten.
StoreStaysDue ==
    \/ /\ rmIdx + 1 < Len_[rmBlock]
       /\ rmPc' = "store" /\ rmIdx' = rmIdx + 1
       /\ UNCHANGED <<rmBlock, due, state>>
    \/ /\ rmIdx + 1 = Len_[rmBlock] /\ UNCHANGED due
       /\ NextPoll

\* The loop over the registers of the answer goes on, or ends with
\* setLastUpdated(now).
NextStore ==
    \/ /\ rmIdx + 1 < Len_[rmBlock]
       /\ rmPc' = "store" /\ rmIdx' = rmIdx + 1
       /\ UNCHANGED <<rmBlock, due, state>>
    \/ /\ rmIdx + 1 = Len_[rmBlock]
       /\ due' = [due EXCEPT ![rmBlock] = FALSE]
       /\ NextPoll

\* setValue() finds the value the cache already holds, or the register is not
\* readable and setValue() is not called.
RmStoreSame ==
    /\ rmPc = "store"
    /\ RmAddress \in Readable => value[RmAddress] # NoValue
    /\ NextStore
    /\ UNCHANGED <<cells, rmLocals, outcome>>
    /\ RmKeeps

\* setValue(): the new value, then m_flags |= FLG_VALUE_UPDATED, load ...
RmStoreNew ==
    /\ rmPc = "store" /\ RmAddress \in Readable
    /\ \E update \in Values \ {value[RmAddress]} :
          value' = [value EXCEPT ![RmAddress] = update]
    /\ rmPc' = "or"
    /\ rmFlags' = flags[RmAddress]
    /\ UNCHANGED <<state, due, pending, flags, rmPos, rmTry, rmValue, outcome, captured>>
    /\ RmKeeps

\* ... and store.
RmSetUpdated ==
    /\ rmPc = "or"
    /\ flags' = [flags EXCEPT ![RmAddress] = rmFlags \cup {"VALUE_UPDATED"}]
    /\ rmFlags' = {}
    /\ NextStore
    /\ UNCHANGED <<value, pending, rmTry, rmValue, outcome, captured>>
    /\ RmKeeps

\* unprotect(), then Sleep().
RmGive ==
    /\ rmPc = "give"
    /\ sem' = 1
    /\ rmPc' = "sleep"
    /\ failed' = "none"
    /\ UNCHANGED <<enabled, state, due, cells, rmPos, rmLocals, mainVars, requests, delivered, handed>>

\* The polling interval of a block passes.  updateRegisters() compares with the
\* time at which it was entered, so nothing becomes due during it.
IntervalPasses(b) ==
    /\ ~due[b] /\ rmPc \notin ReadPhase
    /\ due' = [due EXCEPT ![b] = TRUE]
    /\ UNCHANGED <<sem, enabled, state, cells, rmVars, mainVars, history>>

RmStep ==
    \/ RmTake \/ RmDisabled \/ RmStartCommits \/ RmSkipRegister \/ RmCapture
    \/ RmWriteOk \/ RmWriteFail \/ RmConfirm \/ RmClearPending
    \/ RmSkipBlock \/ RmReadBlock \/ RmReadOk \/ RmReadFail
    \/ RmStoreSame \/ RmStoreNew \/ RmSetUpdated \/ RmGive

-----------------------------------------------------------------------------
(* The main task. *)

\* A step of main that leaves the register manager's task and cells alone.
MainKeeps == UNCHANGED <<state, due, rmVars, outcome>>

\* setPendingWriteByAddress/ByName() for a writeable register, called from
\* mqtt.loop() or from the web server, without the semaphore.  mqtt.loop() is
\* also called by sendMqttMessage(), that is, inside the visitor.  A value equal
\* to the last one requested changes nothing, written or not.
MainRequest(a, v) ==
    /\ mPc \in {"loop", "sent"}
    /\ a \in Writeable /\ v # pending[a]
    /\ Len(requests[a]) < MaxRequests
    /\ pending' = [pending EXCEPT ![a] = v]
    /\ requests' = [requests EXCEPT ![a] = Append(@, v)]
    /\ mPc' = "load" /\ mReturn' = mPc /\ mAddr' = a
    /\ UNCHANGED <<sem, enabled, value, flags, mFlags, visitVars, configVars, handed>>
    /\ MainKeeps

\* m_flags |= FLG_PENDING_WRITE: load ...
MainLoadFlags ==
    /\ mPc = "load"
    /\ mPc' = "or"
    /\ mFlags' = flags[mAddr]
    /\ UNCHANGED <<sem, enabled, cells, mReturn, mAddr, visitVars, configVars,
                   requests, handed>>
    /\ MainKeeps

\* ... and store.
MainSetPending ==
    /\ mPc = "or"
    /\ flags' = [flags EXCEPT ![mAddr] = mFlags \cup {"PENDING_WRITE"}]
    /\ mPc' = mReturn
    /\ mReturn' = "loop" /\ mAddr' = Start[1] + 1 /\ mFlags' = {}
    /\ UNCHANGED <<sem, enabled, value, pending, visitVars, configVars,
                   requests, handed>>
    /\ MainKeeps

\* Steps that move main and change its configuration variables or the semaphore only.
MoveMain(from, to) == mPc = from /\ mPc' = to
CacheUntouched == UNCHANGED <<cells, requestVars, requests, handed>> /\ MainKeeps

\* dataJson(): accept() with no timeout; RegisterVisitor only reads.
MainJson ==
    /\ MoveMain("loop", "json")
    /\ UNCHANGED <<sem, enabled, visitVars, configVars>> /\ CacheUntouched

MainTakeForJson ==
    /\ MoveMain("json", "jsonEnd") /\ sem = 1 /\ sem' = 0
    /\ UNCHANGED <<enabled, visitVars, configVars>> /\ CacheUntouched

\* Mutant of MainJsonDone: accept() returns without giving the semaphore.
JsonKeepsSemaphore ==
    /\ MoveMain("jsonEnd", "loop")
    /\ UNCHANGED <<sem, enabled, visitVars, configVars>> /\ CacheUntouched

MainJsonDone ==
    /\ MoveMain("jsonEnd", "loop") /\ sem' = 1
    /\ UNCHANGED <<enabled, visitVars, configVars>> /\ CacheUntouched

\* Any page that shows the system configuration: getSystemConfig() raises
\* systemChanged.  handleSave() also stores a new one.
MainViewConfig ==
    /\ MoveMain("loop", "loop") /\ ~sysChanged /\ stored # "none"
    /\ sysChanged' = TRUE
    /\ UNCHANGED <<sem, enabled, stored, sysConfig, visitVars>> /\ CacheUntouched

MainSaveConfig ==
    /\ MoveMain("loop", "loop")
    /\ stored' \in {"invalid", "valid"}
    /\ sysChanged' = TRUE
    /\ UNCHANGED <<sem, enabled, sysConfig, visitVars>> /\ CacheUntouched

\* The end of loop(): isSystemChanged(), getSystemConfig(), ackSystemChange().
MainConfigUnchanged ==
    /\ MoveMain("loop", IF sysConfig THEN "accept" ELSE "loop") /\ ~sysChanged
    /\ UNCHANGED <<sem, enabled, visitVars, configVars>> /\ CacheUntouched

MainConfigChanged ==
    /\ MoveMain("loop", "disable") /\ sysChanged
    /\ sysConfig' = (stored = "valid") /\ sysChanged' = FALSE
    /\ UNCHANGED <<sem, enabled, stored, visitVars>> /\ CacheUntouched

\* Mutant of MainTakeToDisable: m_enabled is cleared without the semaphore.
DisableUnprotected ==
    /\ MoveMain("disable", "disabling")
    /\ UNCHANGED <<sem, enabled, visitVars, configVars>> /\ CacheUntouched

\* RegisterManager::disable()
MainTakeToDisable ==
    /\ MoveMain("disable", "disabling") /\ sem = 1 /\ sem' = 0
    /\ UNCHANGED <<enabled, visitVars, configVars>> /\ CacheUntouched

MainDisable ==
    /\ MoveMain("disabling", IF sysConfig THEN "begin" ELSE "loop")
    /\ enabled' = FALSE /\ sem' = 1
    /\ UNCHANGED <<visitVars, configVars>> /\ CacheUntouched

\* Serial2.begin(), Modbus.begin(), ...: at "begin" main is inside them.
MainBegin ==
    /\ MoveMain("begin", "enable")
    /\ UNCHANGED <<sem, enabled, visitVars, configVars>> /\ CacheUntouched

\* RegisterManager::enable()
MainTakeToEnable ==
    /\ MoveMain("enable", "enabling") /\ sem = 1 /\ sem' = 0
    /\ UNCHANGED <<enabled, visitVars, configVars>> /\ CacheUntouched

MainEnable ==
    /\ MoveMain("enabling", "accept")
    /\ enabled' = TRUE /\ sem' = 1
    /\ UNCHANGED <<visitVars, configVars>> /\ CacheUntouched

\* Mutant of MainAccept: the result of the take is not looked at.
AcceptAnyway ==
    /\ MoveMain("accept", "next")
    /\ UNCHANGED <<sem, enabled, visitVars, configVars>> /\ CacheUntouched

\* accept(MqttUpdateVisitor, 300)
MainAccept ==
    /\ MoveMain("accept", "next") /\ sem = 1 /\ sem' = 0
    /\ UNCHANGED <<enabled, visitVars, configVars>> /\ CacheUntouched

\* Mutant of MainAcceptTimeout: the semaphore is given although the take failed.
TimeoutGives ==
    /\ MoveMain("accept", "loop") /\ sem = 0 /\ sem' = 1
    /\ UNCHANGED <<enabled, visitVars, configVars>> /\ CacheUntouched

MainAcceptTimeout ==
    /\ MoveMain("accept", "loop") /\ sem = 0
    /\ UNCHANGED <<sem, enabled, visitVars, configVars>> /\ CacheUntouched

\* acceptNoProtect(): the next block, counted round from where the visitor
\* stopped last time (getIncIndex()); each block at most once.
MainNextBlock ==
    /\ mVisited < NBlocks
    /\ MoveMain("next", "visit")
    /\ mVisited' = mVisited + 1
    /\ mBlock' = vIndex + 1 /\ mIdx' = 0
    /\ vIndex' = IF vIndex + 1 < NBlocks THEN vIndex + 1 ELSE 0
    /\ UNCHANGED <<sem, enabled, mSent, configVars>> /\ CacheUntouched

MainTraversalDone ==
    /\ mVisited = NBlocks
    /\ MoveMain("next", "end")
    /\ UNCHANGED <<sem, enabled, visitVars, configVars>> /\ CacheUntouched

\* Mutant of NextVisit: j<=len.
NextVisitPastEnd ==
    \/ mIdx < Len_[mBlock] /\ mPc' = "visit" /\ mIdx' = mIdx + 1
    \/ mIdx >= Len_[mBlock] /\ mPc' = "next" /\ UNCHANGED mIdx

NextVisit ==
    \/ /\ mIdx + 1 < Len_[mBlock]
       /\ mPc' = "visit" /\ mIdx' = mIdx + 1
    \/ /\ mIdx + 1 = Len_[mBlock]
       /\ mPc' = "next" /\ UNCHANGED mIdx

\* Mutant of MainSkipRegister: an update that is held back is confirmed.
SkipConfirms ==
    /\ mPc = "visit"
    /\ "VALUE_UPDATED" \in flags[VisitedAddress] => VisitedAddress \in Throttled
    /\ flags' = [flags EXCEPT ![VisitedAddress] = @ \ {"VALUE_UPDATED"}]
    /\ NextVisit
    /\ UNCHANGED <<sem, enabled, value, pending, mBlock, mVisited, mSent, vIndex,
                   requestVars, configVars, requests, handed>>
    /\ MainKeeps

\* Not updated, or readyForMqttExport() says that throttling holds it back.
MainSkipRegister ==
    /\ mPc = "visit"
    /\ "VALUE_UPDATED" \in flags[VisitedAddress] => VisitedAddress \in Throttled
    /\ NextVisit
    /\ UNCHANGED <<sem, enabled, mBlock, mVisited, mSent, vIndex, configVars>>
    /\ CacheUntouched

\* MQTTUpdateVisitor::visit(): the value is formatted and handed to
\* sendMqttMessage().
MainSend ==
    /\ mPc = "visit" /\ "VALUE_UPDATED" \in flags[VisitedAddress]
    /\ mPc' = "sent"
    /\ handed' = [handed EXCEPT ![VisitedAddress] = value[VisitedAddress]]
    /\ UNCHANGED <<sem, enabled, cells, requestVars, visitVars, configVars, requests>>
    /\ MainKeeps

\* Mutant of MainConfirm: the limit is compared before the message is counted.
OneMessageMore ==
    /\ mPc = "sent"
    /\ flags' = [flags EXCEPT ![VisitedAddress] = @ \ {"VALUE_UPDATED"}]
    /\ mSent' = mSent + 1
    /\ \/ mSent < MaxMessages /\ NextVisit
       \/ mSent >= MaxMessages /\ mPc' = "end" /\ UNCHANGED mIdx
    /\ UNCHANGED <<sem, enabled, value, pending, mBlock, mVisited, vIndex,
                   requestVars, configVars, requests, handed>>
    /\ MainKeeps

\* confirmUpdate(), and the end of the traversal after MaxMessages of them.
MainConfirm ==
    /\ mPc = "sent"
    /\ flags' = [flags EXCEPT ![VisitedAddress] = @ \ {"VALUE_UPDATED"}]
    /\ mSent' = mSent + 1
    /\ \/ mSent' < MaxMessages /\ NextVisit
       \/ mSent' >= MaxMessages /\ mPc' = "end" /\ UNCHANGED mIdx
    /\ UNCHANGED <<sem, enabled, value, pending, mBlock, mVisited, vIndex,
                   requestVars, configVars, requests, handed>>
    /\ MainKeeps

MainAcceptDone ==
    /\ MoveMain("end", "loop") /\ sem' = 1
    /\ mBlock' = 1 /\ mIdx' = 0 /\ mVisited' = 0 /\ mSent' = 0
    /\ UNCHANGED <<enabled, vIndex, configVars>> /\ CacheUntouched

MainStep ==
    \/ \E a \in Addresses, v \in Values : MainRequest(a, v)
    \/ MainLoadFlags \/ MainSetPending
    \/ MainJson \/ MainTakeForJson \/ MainJsonDone
    \/ MainViewConfig \/ MainSaveConfig
    \/ MainConfigUnchanged \/ MainConfigChanged
    \/ MainTakeToDisable \/ MainDisable \/ MainBegin
    \/ MainTakeToEnable \/ MainEnable
    \/ MainAccept \/ MainAcceptTimeout \/ MainNextBlock \/ MainTraversalDone
    \/ MainSkipRegister \/ MainSend \/ MainConfirm \/ MainAcceptDone

-----------------------------------------------------------------------------
Next == RmStep \/ MainStep \/ \E b \in Blocks : IntervalPasses(b)

Spec == Init /\ [][Next]_vars

-----------------------------------------------------------------------------
(* Safety. *)

\* The binary semaphore is free exactly when neither task is between its take
\* and its give, and never both are: protect()/unprotect() pair up on every
\* path, and accept() does not give what it failed to take.
SemaphoreAccounting ==
    /\ sem = 1 <=> ~RmHolds /\ ~MainHolds
    /\ ~(RmHolds /\ MainHolds)

\* main re-initialises Serial2 and the Modbus client WITHOUT the semaphore: that
\* is safe only because disable() waits for the running round and later rounds
\* see m_enabled false until enable().
ReconfigureExclusive == mPc \in {"begin", "enable"} => rmPc \notin ActiveRound

\* What goes out on the bus is a value somebody asked for at that address, never
\* VAL_INVALID or a leftover: the value is stored before the flag is raised.
WrittenValueWasRequested ==
    /\ rmPc \in {"write", "confirm", "clear"} =>
          /\ captured \in 1 .. Len(requests[RmAddress])
          /\ rmValue = requests[RmAddress][captured]
    /\ \A a \in Addresses : "PENDING_WRITE" \in flags[a] => requests[a] # <<>>

\* While a message is being sent (and write requests that arrive meanwhile are
\* stored) the value in the cache stays the one that was handed over, so that
\* confirmUpdate() acknowledges just that value.
SentValueIsCurrent ==
    mPc = "sent" \/ (mPc \in RequestPlaces /\ mReturn = "sent") =>
        /\ handed[VisitedAddress] = value[VisitedAddress]
        /\ "VALUE_UPDATED" \in flags[VisitedAddress]

\* A value of the cache that differs from the one last handed to MQTT is marked
\* for export, or regman is just about to mark it.
Tracked(a) ==
    \/ handed[a] = value[a]
    \/ "VALUE_UPDATED" \in flags[a]
    \/ rmPc = "or" /\ RmAddress = a

\* Whatever requests for other registers are doing, no new value of a register
\* that was never asked to change is lost to MQTT.
UnrequestedUpdatesTracked ==
    \A a \in Addresses : requests[a] = <<>> => Tracked(a)

\* registermanager.h: "Set a value in the cache to be written at first
\* opportunity by the manager".  A stored request that the unit did not get is
\* marked as pending, is just being marked, or is on its way.
RequestsStayPending ==
    \A a \in Addresses : delivered[a] < Len(requests[a]) =>
        \/ "PENDING_WRITE" \in flags[a]
        \/ mPc \in RequestPlaces /\ mAddr = a
        \/ rmPc \in {"write", "confirm", "clear"} /\ RmAddress = a
              /\ captured = Len(requests[a])

\* registermanager.cpp, taskCode(): "if writes went OK, do reads"; updateRegisters():
\* "don't try to read all if problems".  After a write, or a block, that failed on
\* all its tries the round reads no more.
FailureEndsRound == failed # "none" => rmPc \notin ReadPhase

\* Every value the unit gets was requested, and it never gets an older request
\* after a newer one, whatever the interleaving, retries and lost answers.
WritesInOrder == INSTANCE OrderedWrites
OrderedWritesSpec == WritesInOrder!Spec

\* The export of updates as UpdateExport has it, for a broker whose session never
\* breaks.  A register is updated when it is marked, or just being marked: regman
\* sets the new value and the mark in two steps.
Marked == { r \in Registers :
    \/ "VALUE_UPDATED" \in flags[AddressOf(r)]
    \/ rmPc = "or" /\ RmAddress = AddressOf(r) }

\* Where main is in the pass; a request that arrives while a message is being sent
\* is stored inside sendMqttMessage().
PassPlace(place, return) ==
    CASE place \in VisitPlaces -> place
      [] place \in RequestPlaces /\ return = "sent" -> "sent"
      [] OTHER -> "loop"
ExportPc == PassPlace(mPc, mReturn)

\* The broker got the value there is: it was handed over, and no mark says otherwise
\* but that of the register whose message is not confirmed yet.
Handed == { r \in Registers :
    /\ handed[AddressOf(r)] = value[AddressOf(r)]
    /\ r \in Marked => ExportPc = "sent" /\ r = <<mBlock, mIdx>> }

Export == INSTANCE UpdateExport WITH
    Throttled <- RegistersAt(Throttled), Writeable <- RegistersAt(Writeable),
    updated <- Marked, connected <- TRUE, pc <- ExportPc, block <- mBlock, idx <- mIdx,
    visited <- mVisited, sent <- mSent, index <- vIndex, known <- Handed

\* Whatever the two tasks do besides, the passes go round the blocks as UpdateExport
\* says; a mark is cleared by the confirmation of just that value, or overwritten
\* by a write request for that register.
UpdateExportSpec == Export!Spec

-----------------------------------------------------------------------------
(* Fairness and liveness. *)

\* Both tasks are scheduled (each on its own core).  A task that waits for the
\* semaphore gets it if it is given again and again: regman sleeps for 200 ms or
\* more after each give, main goes through the rest of loop().  loop() always
\* reaches its end, and a timer always fires.
Scheduling ==
    /\ WF_vars(RmStep) /\ SF_vars(RmTake)
    /\ WF_vars(MainStep) /\ SF_vars(MainConfigUnchanged \/ MainConfigChanged)
    /\ SF_vars(MainTakeForJson)
    /\ SF_vars(MainTakeToDisable) /\ SF_vars(MainTakeToEnable)
    /\ \A b \in Blocks : WF_vars(IntervalPasses(b))

\* A unit that answers: it is not the case that each attempt at some register or
\* block fails.
UnitAnswers ==
    /\ \A a \in Addresses : SF_vars(RmWriteOk /\ RmAddress = a)
    /\ \A b \in Blocks : SF_vars(RmReadOk /\ rmBlock = b)

FairSpec == Spec /\ Scheduling

\* However the unit behaves, regman always comes back to sleep with the
\* semaphore given, and main gets through a reconfiguration or a JSON export.
RoundsEnd == []<>(rmPc = "sleep")
MainGetsThrough == mPc \in {"json", "disable", "enable"} ~> mPc \in {"loop", "accept"}

\* With such a unit a register marked for writing is written and unmarked, unless
\* the manager is disabled again and again.
PendingWritesDrain ==
    UnitAnswers /\ <>[]enabled => \A a \in Addresses :
        "PENDING_WRITE" \in flags[a] ~> "PENDING_WRITE" \notin flags[a]

\* ... and a block that is due is polled.  Only for blocks no coil block precedes: the
\* outcome of readCoil() is arbitrary, and a round ends at the first failure.
DueBlocksPolled ==
    UnitAnswers /\ <>[]enabled => \A b \in Blocks :
        (\A c \in Coil : c > b) => (due[b] ~> ~due[b])

=============================================================================
