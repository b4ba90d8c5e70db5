----------------------- MODULE RegisterManagerProofs -----------------------
(***************************************************************************)
(* Proofs about RegisterManager, for every number and layout of blocks,    *)
(* every set of values and every number of requests, in five parts: the    *)
(* types, the semaphore, what becomes of the requests, what becomes of the *)
(* updates, and the passes.  The last two rest on the others.              *)
(***************************************************************************)
EXTENDS RegisterManager, TLAPS

-----------------------------------------------------------------------------
(* Types: cursors.  TypeOK is five groups of variables; there is a lemma for *)
(* each task and group.                                                      *)

\* The register a cursor inside a block points at has an address.
LEMMA CursorAddress ==
  ASSUME NEW b \in Blocks, NEW j \in 0 .. Len_[b] - 1
  PROVE  Start[b] + j + 1 \in Addresses
<1>1. Start[b] + j + 1 \in Start[b] + 1 .. Start[b] + Len_[b]
  BY BlocksAssumption
<1> QED
  BY <1>1 DEF Addresses

\* Both tasks' cursors do.
LEMMA MainCursor == MainTypeOK => VisitedAddress \in Addresses
BY CursorAddress DEF MainTypeOK, VisitedAddress

LEMMA RmCursor == RmTypeOK => RmAddress \in Addresses
BY CursorAddress DEF RmTypeOK, RmAddress

\* The traversal of the pending writes stays inside the blocks.
LEMMA NextCommitTypes == RmTypeOK /\ NextCommit => RmTypeOK'
<1> SUFFICES ASSUME RmTypeOK, NextCommit PROVE RmTypeOK'
  OBVIOUS
<1> USE BlocksAssumption DEF RmTypeOK, NextCommit, RmPlaces, ActiveRound, ReadPhase,
                             MaxTries, Blocks
<1>1. rmTry' \in 1 .. MaxTries /\ rmValue' \in Values \cup {NoValue} /\ captured' \in Nat
      /\ rmFlags' \in SUBSET Flags /\ rmPc' \in RmPlaces
  OBVIOUS
<1>2. CASE rmIdx + 1 < Len_[rmBlock] /\ rmIdx' = rmIdx + 1 /\ UNCHANGED rmBlock
  <2>1. rmIdx' \in 0 .. Len_[rmBlock'] - 1 /\ rmBlock' \in Blocks
    BY <1>2
  <2> QED
    BY <1>1, <2>1
<1>3. CASE rmIdx' = 0 /\ rmBlock' \in Blocks
  <2>1. rmIdx' \in 0 .. Len_[rmBlock'] - 1
    BY <1>3
  <2> QED
    BY <1>1, <1>3, <2>1
<1> QED
  BY <1>2, <1>3

\* So does the traversal of the blocks to poll, and that of a block's answer.
RmCursorInside == rmBlock \in Blocks /\ rmIdx \in 0 .. Len_[rmBlock] - 1

LEMMA FirstRegister == \A b \in Blocks : 0 \in 0 .. Len_[b] - 1
BY BlocksAssumption

LEMMA NextPollTypes ==
  ASSUME RmCursorInside, NextPoll
  PROVE  RmCursorInside' /\ rmPc' \in {"poll", "give"}
<1>1. rmBlock' \in Blocks /\ rmIdx' = 0 /\ rmPc' \in {"poll", "give"}
  BY BlocksAssumption DEF RmCursorInside, NextPoll, Blocks
<1> QED
  BY <1>1, FirstRegister DEF RmCursorInside

LEMMA NextStoreTypes ==
  ASSUME RmCursorInside, NextStore
  PROVE  RmCursorInside' /\ rmPc' \in {"store", "poll", "give"}
<1>1. CASE rmIdx + 1 < Len_[rmBlock] /\ rmPc' = "store" /\ rmIdx' = rmIdx + 1
           /\ UNCHANGED rmBlock
  BY <1>1, BlocksAssumption DEF RmCursorInside
<1>2. CASE NextPoll
  BY <1>2, NextPollTypes
<1> QED
  BY <1>1, <1>2 DEF NextStore

LEMMA ReadTypes ==
  ASSUME RmCursorInside, ReadAccepted \/ ReadRejected
  PROVE  RmCursorInside' /\ rmPc' \in {"store", "give"}
<1>1. rmBlock' \in Blocks /\ rmIdx' = 0 /\ rmPc' \in {"store", "give"}
  BY BlocksAssumption DEF RmCursorInside, ReadAccepted, ReadRejected, Blocks
<1> QED
  BY <1>1, FirstRegister DEF RmCursorInside

-----------------------------------------------------------------------------
(* Types: regman's steps. *)

\* regman's own variables: the cursor moves inside the blocks, the try counter
\* stays at most MaxTries.
LEMMA RmKeepsRm == TypeOK /\ RmStep => RmTypeOK'
<1> SUFFICES ASSUME TypeOK, RmStep PROVE RmTypeOK'
  OBVIOUS
<1> USE DEF RmTypeOK, RmPlaces, ActiveRound, ReadPhase, MaxTries, RmCursorInside,
           rmPos, rmLocals
<1>1. RmTypeOK /\ RmAddress \in Addresses
  BY RmCursor DEF TypeOK
<1>2. /\ pending[RmAddress] \in Values \cup {NoValue}
      /\ flags[RmAddress] \in SUBSET Flags
      /\ Len(requests[RmAddress]) \in Nat
  BY <1>1 DEF TypeOK, CellsTypeOK, HistoryTypeOK
<1>3. CASE RmTake
  BY <1>1, <1>3 DEF RmTake
<1>4. CASE RmDisabled
  BY <1>1, <1>4 DEF RmDisabled
<1>5. CASE RmStartCommits
  BY <1>1, <1>2, <1>5, FirstRegister, BlocksAssumption DEF RmStartCommits, Blocks
<1>6. CASE RmSkipRegister
  BY <1>1, <1>6, NextCommitTypes DEF RmSkipRegister
<1>7. CASE RmCapture
  BY <1>1, <1>2, <1>7 DEF RmCapture
<1>8. CASE RmWriteOk
  BY <1>1, <1>8 DEF RmWriteOk
<1>9. CASE RmWriteFail
  <2>1. CASE NextCommit
    BY <1>1, <2>1, NextCommitTypes
  <2>2. CASE /\ UNCHANGED <<rmPc, rmPos, rmValue, rmFlags, captured>>
             /\ rmTry < MaxTries /\ rmTry' = rmTry + 1
    BY <1>1, <2>2
  <2> QED
    BY <1>9, <2>1, <2>2 DEF RmWriteFail
<1>10. CASE RmConfirm
  BY <1>1, <1>2, <1>10 DEF RmConfirm
<1>11. CASE RmClearPending
  BY <1>1, <1>11, NextCommitTypes DEF RmClearPending
<1>12. CASE RmSkipBlock
  BY <1>1, <1>12, NextPollTypes DEF RmSkipBlock
<1>13. CASE RmReadBlock
  BY <1>1, <1>13 DEF RmReadBlock
<1>14. CASE RmReadOk
  BY <1>1, <1>14, ReadTypes DEF RmReadOk
<1>15. CASE RmReadFail
  <2>1. CASE ReadAccepted \/ ReadRejected
    BY <1>1, <1>15, <2>1, ReadTypes DEF RmReadFail
  <2>2. CASE UNCHANGED <<rmPc, rmPos>> /\ rmTry < MaxTries /\ rmTry' = rmTry + 1
    BY <1>1, <1>15, <2>2 DEF RmReadFail
  <2> QED
    BY <1>15, <2>1, <2>2 DEF RmReadFail
<1>16. CASE RmStoreSame
  BY <1>1, <1>16, NextStoreTypes DEF RmStoreSame
<1>17. CASE RmStoreNew
  BY <1>1, <1>2, <1>17 DEF RmStoreNew
<1>18. CASE RmSetUpdated
  BY <1>1, <1>18, NextStoreTypes DEF RmSetUpdated
<1>19. CASE RmGive
  BY <1>1, <1>19 DEF RmGive
<1> QED
  BY <1>3, <1>4, <1>5, <1>6, <1>7, <1>8, <1>9, <1>10, <1>11, <1>12, <1>13, <1>14,
     <1>15, <1>16, <1>17, <1>18, <1>19 DEF RmStep

\* The members of the manager.
LEMMA RmKeepsManager == TypeOK /\ RmStep => ManagerTypeOK'
<1> SUFFICES ASSUME TypeOK, RmStep PROVE ManagerTypeOK'
  OBVIOUS
<1>1. sem' \in {sem, 0, 1} /\ enabled' = enabled
      /\ state' \in {state, "DISABLED", "CONNECTING", "CONNECTED"}
  <2> USE DEF RmKeeps
  <2>1. CASE RmTake
    BY <2>1 DEF RmTake
  <2>2. CASE RmDisabled
    BY <2>2 DEF RmDisabled
  <2>3. CASE RmStartCommits
    BY <2>3 DEF RmStartCommits
  <2>4. CASE RmSkipRegister
    BY <2>4 DEF RmSkipRegister, NextCommit
  <2>5. CASE RmCapture
    BY <2>5 DEF RmCapture
  <2>6. CASE RmWriteOk
    BY <2>6 DEF RmWriteOk, Deliver
  <2>7. CASE RmWriteFail
    BY <2>7 DEF RmWriteFail, Deliver, NextCommit
  <2>8. CASE RmConfirm
    BY <2>8 DEF RmConfirm
  <2>9. CASE RmClearPending
    BY <2>9 DEF RmClearPending, NextCommit
  <2>10. CASE RmSkipBlock
    BY <2>10 DEF RmSkipBlock, NextPoll
  <2>11. CASE RmReadBlock
    BY <2>11 DEF RmReadBlock
  <2>12. CASE RmReadOk
    BY <2>12 DEF RmReadOk, ReadAccepted, ReadRejected
  <2>13. CASE RmReadFail
    BY <2>13 DEF RmReadFail, ReadAccepted, ReadRejected
  <2>14. CASE RmStoreSame
    BY <2>14 DEF RmStoreSame, NextStore, NextPoll
  <2>15. CASE RmStoreNew
    BY <2>15 DEF RmStoreNew
  <2>16. CASE RmSetUpdated
    BY <2>16 DEF RmSetUpdated, NextStore, NextPoll
  <2>17. CASE RmGive
    BY <2>17 DEF RmGive
  <2> QED
     BY <2>1, <2>2, <2>3, <2>4, <2>5, <2>6, <2>7, <2>8, <2>9, <2>10, <2>11, <2>12,
       <2>13, <2>14, <2>15, <2>16, <2>17 DEF RmStep
<1>2. due' \in [Blocks -> BOOLEAN]
  <2>1. due \in [Blocks -> BOOLEAN] /\ rmBlock \in Blocks
    BY DEF TypeOK, ManagerTypeOK, RmTypeOK
  <2>2. CASE UNCHANGED due
    BY <2>1, <2>2
  <2>3. ASSUME NEW again \in BOOLEAN, due' = [due EXCEPT ![rmBlock] = again]
        PROVE  due' \in [Blocks -> BOOLEAN]
    BY <2>1, <2>3, Zenon
  <2>4. CASE RmClearPending
    BY <2>3, <2>4, Zenon DEF RmClearPending
  <2>5. CASE RmStoreSame \/ RmSetUpdated
    BY <2>2, <2>3, <2>5, Zenon DEF RmStoreSame, RmSetUpdated, NextStore
  <2>6. CASE ~RmClearPending /\ ~RmStoreSame /\ ~RmSetUpdated
     BY <2>2, <2>6 DEF RmStep, RmTake, RmDisabled, RmStartCommits, RmSkipRegister,
       RmCapture,
       RmWriteOk, RmWriteFail, RmConfirm, RmSkipBlock, RmReadBlock, RmReadOk, RmReadFail,
       RmStoreNew, RmGive
  <2> QED
    BY <2>4, <2>5, <2>6
<1> QED
  BY <1>1, <1>2 DEF TypeOK, ManagerTypeOK

\* The registers: what is stored back is the flag byte loaded, one flag changed.
LEMMA RmKeepsCells == TypeOK /\ RmStep => CellsTypeOK'
<1> SUFFICES ASSUME TypeOK, RmStep PROVE CellsTypeOK'
  OBVIOUS
<1>1. CellsTypeOK /\ RmAddress \in Addresses /\ rmFlags \in SUBSET Flags
  BY RmCursor DEF TypeOK, RmTypeOK
<1>2. CASE UNCHANGED cells
  BY <1>1, <1>2 DEF CellsTypeOK, cells
<1>3. CASE RmClearPending
  <2>1. rmFlags \ {"PENDING_WRITE"} \in SUBSET Flags
    BY <1>1
  <2> QED
    BY <1>1, <1>3, <2>1 DEF RmClearPending, CellsTypeOK
<1>4. CASE RmStoreNew
  BY <1>1, <1>4 DEF RmStoreNew, CellsTypeOK
<1>5. CASE RmSetUpdated
  <2>1. rmFlags \cup {"VALUE_UPDATED"} \in SUBSET Flags
    BY <1>1 DEF Flags
  <2> QED
    BY <1>1, <1>5, <2>1 DEF RmSetUpdated, CellsTypeOK
<1>6. CASE ~RmClearPending /\ ~RmStoreNew /\ ~RmSetUpdated
  BY <1>2, <1>6 DEF RmStep, RmTake, RmDisabled, RmStartCommits, RmSkipRegister,
     RmCapture,
     RmWriteOk, RmWriteFail, RmConfirm, RmSkipBlock, RmReadBlock, RmReadOk, RmReadFail,
     RmStoreSame, RmGive
<1> QED
  BY <1>3, <1>4, <1>5, <1>6

\* The history variables.
LEMMA RmKeepsHistory == TypeOK /\ RmStep => HistoryTypeOK'
<1> SUFFICES ASSUME TypeOK, RmStep PROVE HistoryTypeOK'
  OBVIOUS
<1>1. HistoryTypeOK /\ captured \in Nat
  BY DEF TypeOK, RmTypeOK
<1>2. UNCHANGED <<requests, handed>> /\ failed' \in {failed, "none", "write", "read"}
  BY DEF RmStep, RmTake, RmDisabled, RmStartCommits, RmSkipRegister, RmCapture,
     RmWriteOk, RmWriteFail, RmConfirm, RmClearPending, RmSkipBlock, RmReadBlock, RmReadOk,
     RmReadFail, RmStoreSame, RmStoreNew, RmSetUpdated, RmGive, RmKeeps, history, outcome
<1>3. UNCHANGED delivered \/ Deliver
  BY DEF RmStep, RmTake, RmDisabled, RmStartCommits, RmSkipRegister, RmCapture,
     RmWriteOk, RmWriteFail, RmConfirm, RmClearPending, RmSkipBlock, RmReadBlock, RmReadOk,
     RmReadFail, RmStoreSame, RmStoreNew, RmSetUpdated, RmGive, history, outcome
<1>4. delivered' \in [Addresses -> Nat]
  BY <1>1, <1>3 DEF Deliver, HistoryTypeOK
<1> QED
  BY <1>1, <1>2, <1>4 DEF HistoryTypeOK

\* regman leaves main's variables alone.
LEMMA RmLeavesMain == RmStep => UNCHANGED mainVars
BY DEF RmStep, RmTake, RmDisabled, RmStartCommits, RmSkipRegister, RmCapture,
   RmWriteOk, RmWriteFail, RmConfirm, RmClearPending, RmSkipBlock, RmReadBlock, RmReadOk,
   RmReadFail, RmStoreSame, RmStoreNew, RmSetUpdated, RmGive, RmKeeps

LEMMA RmKeepsMain == TypeOK /\ RmStep => MainTypeOK'
BY RmLeavesMain DEF TypeOK, MainTypeOK, mainVars, requestVars, visitVars, configVars

-----------------------------------------------------------------------------
(* Types: main's steps. *)

\* The export limit is a limit because the visitor's counter is below it wherever
\* the traversal can still go on, and 0 when a traversal starts.
Visiting == mPc \in {"next", "visit", "sent"} \/ (mPc \in RequestPlaces /\ mReturn = "sent")
ExportLimit ==
    /\ Visiting => mSent < MaxMessages
    /\ ~Visiting /\ mPc # "end" => mSent = 0

\* main leaves regman's variables alone.
LEMMA MainLeavesRm == MainStep => UNCHANGED <<rmVars, RmAddress>>
<1> SUFFICES ASSUME MainStep PROVE UNCHANGED rmVars
  BY DEF rmVars, rmPos, RmAddress
<1> QED
  BY DEF MainStep, MainRequest, MainLoadFlags, MainSetPending, MainJson, MainTakeForJson,
     MainJsonDone, MainViewConfig, MainSaveConfig, MainConfigUnchanged, MainConfigChanged,
     MainTakeToDisable, MainDisable, MainBegin, MainTakeToEnable, MainEnable, MainAccept,
     MainAcceptTimeout, MainNextBlock, MainTraversalDone, MainSkipRegister, MainSend,
     MainConfirm, MainAcceptDone, CacheUntouched, MainKeeps

LEMMA MainKeepsRm == TypeOK /\ MainStep => RmTypeOK'
BY MainLeavesRm DEF TypeOK, RmTypeOK, rmVars, rmPos, rmLocals

\* The members of the manager.
LEMMA MainKeepsManager == TypeOK /\ MainStep => ManagerTypeOK'
<1>1. MainStep => /\ UNCHANGED <<state, due>> /\ sem' \in {sem, 0, 1}
                  /\ enabled' \in {enabled, TRUE, FALSE}
  BY DEF MainStep, MainRequest, MainKeeps, CacheUntouched, MainLoadFlags,
     MainSetPending, MainJson, MainTakeForJson, MainJsonDone,
     MainViewConfig, MainSaveConfig, MainConfigUnchanged, MainConfigChanged, MainTakeToDisable,
     MainDisable, MainBegin, MainTakeToEnable, MainEnable, MainAccept, MainAcceptTimeout,
     MainNextBlock, MainTraversalDone, MainSkipRegister, MainSend, MainConfirm, MainAcceptDone
<1> SUFFICES ASSUME TypeOK, MainStep PROVE ManagerTypeOK'
  OBVIOUS
<1>2. enabled' \in BOOLEAN
  BY <1>1, Zenon DEF TypeOK, ManagerTypeOK
<1> QED
  BY <1>1, <1>2 DEF TypeOK, ManagerTypeOK

\* The registers: main stores a request and changes one flag at a time.
LEMMA MainKeepsCells == TypeOK /\ MainStep => CellsTypeOK'
<1> SUFFICES ASSUME TypeOK, MainStep PROVE CellsTypeOK'
  OBVIOUS
<1>1. CellsTypeOK /\ mFlags \in SUBSET Flags /\ mAddr \in Addresses
      /\ VisitedAddress \in Addresses
  BY MainCursor DEF TypeOK, MainTypeOK
<1>2. CASE UNCHANGED cells
  BY <1>1, <1>2 DEF CellsTypeOK, cells
<1>3. ASSUME NEW a \in Addresses, NEW v \in Values, MainRequest(a, v) PROVE CellsTypeOK'
  BY <1>1, <1>3 DEF MainRequest, CellsTypeOK
<1>4. CASE MainSetPending
  <2>1. mFlags \cup {"PENDING_WRITE"} \in SUBSET Flags
    BY <1>1 DEF Flags
  <2> QED
    BY <1>1, <1>4, <2>1 DEF MainSetPending, CellsTypeOK
<1>5. CASE MainConfirm
  <2>1. flags[VisitedAddress] \ {"VALUE_UPDATED"} \in SUBSET Flags
    BY <1>1 DEF CellsTypeOK
  <2> QED
    BY <1>1, <1>5, <2>1 DEF MainConfirm, CellsTypeOK
<1>6. CASE /\ ~MainSetPending /\ ~MainConfirm
           /\ ~ \E a \in Addresses, v \in Values : MainRequest(a, v)
  BY <1>2, <1>6 DEF MainStep, CacheUntouched, MainLoadFlags, MainJson,
     MainTakeForJson, MainJsonDone,
     MainViewConfig, MainSaveConfig, MainConfigUnchanged, MainConfigChanged, MainTakeToDisable,
     MainDisable, MainBegin, MainTakeToEnable, MainEnable, MainAccept, MainAcceptTimeout,
     MainNextBlock, MainTraversalDone, MainSkipRegister, MainSend, MainAcceptDone
<1> QED
  BY <1>3, <1>4, <1>5, <1>6

\* The history variables.
LEMMA MainKeepsHistory == TypeOK /\ MainStep => HistoryTypeOK'
<1> SUFFICES ASSUME TypeOK, MainStep PROVE HistoryTypeOK'
  OBVIOUS
<1>1. HistoryTypeOK /\ VisitedAddress \in Addresses
  BY MainCursor DEF TypeOK
<1>2. UNCHANGED outcome
  BY DEF MainStep, MainRequest, MainKeeps, CacheUntouched, MainLoadFlags,
     MainSetPending, MainJson, MainTakeForJson, MainJsonDone,
     MainViewConfig, MainSaveConfig, MainConfigUnchanged, MainConfigChanged, MainTakeToDisable,
     MainDisable, MainBegin, MainTakeToEnable, MainEnable, MainAccept, MainAcceptTimeout,
     MainNextBlock, MainTraversalDone, MainSkipRegister, MainSend, MainConfirm, MainAcceptDone
<1>3. CASE UNCHANGED <<requests, handed>>
  BY <1>1, <1>2, <1>3 DEF HistoryTypeOK, outcome
<1>4. ASSUME NEW a \in Addresses, NEW v \in Values, MainRequest(a, v) PROVE HistoryTypeOK'
  <2>1. Append(requests[a], v) \in Seq(Values)
    BY <1>1 DEF HistoryTypeOK
  <2>2. requests' \in [Addresses -> Seq(Values)]
    BY <1>1, <1>4, <2>1 DEF HistoryTypeOK, MainRequest
  <2> QED
    BY <1>1, <1>2, <1>4, <2>2 DEF HistoryTypeOK, outcome, MainRequest
<1>5. CASE MainSend
  <2>1. value[VisitedAddress] \in Values \cup {NoValue}
    BY <1>1 DEF TypeOK, CellsTypeOK
  <2> QED
    BY <1>1, <1>2, <1>5, <2>1 DEF HistoryTypeOK, outcome, MainSend
<1>6. CASE ~MainSend /\ ~ \E a \in Addresses, v \in Values : MainRequest(a, v)
  BY <1>3, <1>6 DEF MainStep, CacheUntouched, MainLoadFlags, MainSetPending,
     MainJson, MainTakeForJson, MainJsonDone,
     MainViewConfig, MainSaveConfig, MainConfigUnchanged, MainConfigChanged, MainTakeToDisable,
     MainDisable, MainBegin, MainTakeToEnable, MainEnable, MainAccept, MainAcceptTimeout,
     MainNextBlock, MainTraversalDone, MainSkipRegister, MainConfirm, MainAcceptDone
<1> QED
  BY <1>4, <1>5, <1>6

\* The visitor's cursor moves inside the blocks.
LEMMA NextVisitInside ==
  ASSUME MainTypeOK, NextVisit, UNCHANGED mBlock
  PROVE  mIdx' \in 0 .. Len_[mBlock'] - 1 /\ mPc' \in {"visit", "next"}
BY BlocksAssumption DEF MainTypeOK, NextVisit, Blocks

\* main's own variables.
LEMMA MainKeepsMain == TypeOK /\ ExportLimit /\ MainStep => MainTypeOK' /\ ExportLimit'
<1> SUFFICES ASSUME TypeOK, ExportLimit, MainStep PROVE MainTypeOK' /\ ExportLimit'
  OBVIOUS
<1>1. MainTypeOK /\ MaxMessages \in Nat \ {0} /\ Start[1] + 1 \in Addresses
      /\ flags \in [Addresses -> SUBSET Flags]
  <2>1. 1 \in Blocks /\ 0 \in 0 .. Len_[1] - 1 /\ Start[1] + 0 + 1 = Start[1] + 1
    BY BlocksAssumption DEF Blocks
  <2> QED
    BY <2>1, CursorAddress, RegistersAssumption DEF TypeOK, CellsTypeOK
<1>2. /\ sysChanged' \in BOOLEAN /\ sysConfig' \in BOOLEAN
      /\ stored' \in {"none", "invalid", "valid"}
  <2>1. /\ sysChanged \in BOOLEAN /\ sysConfig \in BOOLEAN
        /\ stored \in {"none", "invalid", "valid"}
    BY DEF TypeOK, MainTypeOK
  <2>2. CASE UNCHANGED configVars
    BY <2>1, <2>2, Zenon DEF configVars
  <2>3. CASE MainViewConfig \/ MainSaveConfig \/ MainConfigChanged
    BY <2>1, <2>3, Zenon DEF MainViewConfig, MainSaveConfig, MainConfigChanged
  <2>4. CASE ~MainViewConfig /\ ~MainSaveConfig /\ ~MainConfigChanged
     BY <2>2, <2>4 DEF MainStep, MainRequest, MainLoadFlags, MainSetPending, MainJson,
       MainTakeForJson, MainJsonDone,
     MainConfigUnchanged, MainTakeToDisable,
     MainDisable, MainBegin, MainTakeToEnable, MainEnable, MainAccept, MainAcceptTimeout,
     MainNextBlock, MainTraversalDone, MainSkipRegister, MainSend, MainConfirm, MainAcceptDone
  <2> QED
    BY <2>2, <2>3, <2>4
<1> USE BlocksAssumption DEF MainTypeOK, ExportLimit, Visiting, Blocks, MainPlaces,
   VisitPlaces,
        RequestPlaces, ConfigPlaces, MoveMain, CacheUntouched,
        requestVars, visitVars, configVars
<1>3. ASSUME NEW a \in Addresses, NEW v \in Values, MainRequest(a, v)
      PROVE MainTypeOK' /\ ExportLimit'
  BY <1>1, <1>2, <1>3 DEF MainRequest
<1>4. CASE MainLoadFlags
  BY <1>1, <1>2, <1>4 DEF MainLoadFlags
<1>5. CASE MainSetPending
  BY <1>1, <1>2, <1>5 DEF MainSetPending
<1>6. CASE MainJson
  BY <1>1, <1>2, <1>6 DEF MainJson
<1>7. CASE MainTakeForJson
  BY <1>1, <1>2, <1>7 DEF MainTakeForJson
<1>8. CASE MainJsonDone
  BY <1>1, <1>2, <1>8 DEF MainJsonDone
<1>9. CASE MainViewConfig
  BY <1>1, <1>2, <1>9 DEF MainViewConfig
<1>10. CASE MainSaveConfig
  BY <1>1, <1>2, <1>10 DEF MainSaveConfig
<1>11. CASE MainConfigUnchanged
  BY <1>1, <1>2, <1>11 DEF MainConfigUnchanged
<1>12. CASE MainConfigChanged
  BY <1>1, <1>2, <1>12 DEF MainConfigChanged
<1>13. CASE MainTakeToDisable
  BY <1>1, <1>2, <1>13 DEF MainTakeToDisable
<1>14. CASE MainDisable
  BY <1>1, <1>2, <1>14 DEF MainDisable
<1>15. CASE MainBegin
  BY <1>1, <1>2, <1>15 DEF MainBegin
<1>16. CASE MainTakeToEnable
  BY <1>1, <1>2, <1>16 DEF MainTakeToEnable
<1>17. CASE MainEnable
  BY <1>1, <1>2, <1>17 DEF MainEnable
<1>18. CASE MainAccept
  BY <1>1, <1>2, <1>18 DEF MainAccept
<1>19. CASE MainAcceptTimeout
  BY <1>1, <1>2, <1>19 DEF MainAcceptTimeout
<1>20. CASE MainNextBlock
  BY <1>1, <1>2, <1>20 DEF MainNextBlock
<1>21. CASE MainTraversalDone
  BY <1>1, <1>2, <1>21 DEF MainTraversalDone
<1>22. CASE MainSkipRegister
  BY <1>1, <1>2, <1>22, NextVisitInside DEF MainSkipRegister
<1>23. CASE MainSend
  BY <1>1, <1>2, <1>23 DEF MainSend
<1>24. CASE MainConfirm
  BY <1>1, <1>2, <1>24, NextVisitInside DEF MainConfirm
<1>25. CASE MainAcceptDone
  BY <1>1, <1>2, <1>25 DEF MainAcceptDone
<1> QED
  BY <1>3, <1>4, <1>5, <1>6, <1>7, <1>8, <1>9, <1>10, <1>11, <1>12, <1>13, <1>14,
     <1>15, <1>16, <1>17, <1>18, <1>19, <1>20, <1>21, <1>22, <1>23, <1>24, <1>25 DEF
     MainStep

-----------------------------------------------------------------------------
(* Types: the invariant.  No cursor leaves its block, no counter its limit. *)

TypeInv == TypeOK /\ ExportLimit

\* It holds initially: both cursors are at the first register of the first block.
LEMMA TypeInit == Init => TypeInv
<1> SUFFICES ASSUME Init PROVE TypeInv
  OBVIOUS
<1>1. 1 \in Blocks /\ 0 \in 0 .. Len_[1] - 1
  BY BlocksAssumption DEF Blocks
<1>2. Start[1] + 1 \in Addresses
  BY <1>1, CursorAddress, BlocksAssumption
<1>3. ManagerTypeOK
  <2>1. sem \in 0 .. 1 /\ state = "CREATED"
    BY DEF Init
  <2>2. enabled \in BOOLEAN /\ due \in [Blocks -> BOOLEAN]
    BY Zenon DEF Init
  <2> QED
    BY <2>1, <2>2 DEF ManagerTypeOK
<1>4. CellsTypeOK
  BY DEF Init, CellsTypeOK
<1>5. RmTypeOK
  BY <1>1 DEF Init, RmTypeOK, RmPlaces, MaxTries
<1>6. /\ sysChanged \in BOOLEAN /\ sysConfig \in BOOLEAN
      /\ stored \in {"none", "invalid", "valid"}
  <2>1. /\ stored \in {"none", "invalid", "valid"}
        /\ sysConfig = (stored = "valid") /\ sysChanged = (stored # "none")
    BY Zenon DEF Init
  <2> QED
    BY <2>1, Zenon
<1>7. MainTypeOK
  <2>1. mAddr \in Addresses /\ mBlock = 1 /\ mIdx = 0
    BY <1>2 DEF Init
  <2>2. mPc = "loop" /\ mReturn = "loop" /\ mFlags = {}
    BY DEF Init
  <2>3. mVisited = 0 /\ mSent = 0 /\ vIndex = 0
    BY DEF Init
  <2> QED
     BY <1>1, <1>6, <2>1, <2>2, <2>3, BlocksAssumption, RegistersAssumption DEF
       MainTypeOK, MainPlaces
<1>8. HistoryTypeOK
  <2>1. value \in [Addresses -> Values \cup {NoValue}]
    BY <1>4 DEF CellsTypeOK
  <2>2. <<>> \in Seq(Values)
    OBVIOUS
  <2> QED
    BY <2>1, <2>2 DEF Init, HistoryTypeOK
<1>9. ExportLimit
  BY RegistersAssumption DEF Init, ExportLimit, Visiting, RequestPlaces
<1> QED
  BY <1>3, <1>4, <1>5, <1>7, <1>8, <1>9 DEF TypeInv, TypeOK

\* Time passing changes due only, a stutter nothing.
LEMMA TypeIdle ==
  ASSUME TypeInv, UNCHANGED vars \/ \E b \in Blocks : IntervalPasses(b)
  PROVE  TypeInv'
<1>1. /\ UNCHANGED <<sem, enabled, state, cells, rmVars, mainVars, history>>
      /\ due' \in [Blocks -> BOOLEAN]
  BY Zenon DEF vars, manager, IntervalPasses, TypeInv, TypeOK, ManagerTypeOK
<1>2. ManagerTypeOK'
  BY <1>1 DEF TypeInv, TypeOK, ManagerTypeOK
<1>3. CellsTypeOK' /\ HistoryTypeOK'
  BY <1>1 DEF TypeInv, TypeOK, CellsTypeOK, HistoryTypeOK, cells, history, outcome
<1>4. RmTypeOK'
  BY <1>1 DEF TypeInv, TypeOK, RmTypeOK, rmVars, rmPos, rmLocals
<1>5. MainTypeOK' /\ ExportLimit'
  BY <1>1 DEF TypeInv, TypeOK, MainTypeOK, ExportLimit, Visiting, mainVars, requestVars,
              visitVars, configVars
<1> QED
  BY <1>2, <1>3, <1>4, <1>5 DEF TypeInv, TypeOK

LEMMA TypeStep == TypeInv /\ [Next]_vars => TypeInv'
<1> SUFFICES ASSUME TypeInv, [Next]_vars PROVE TypeInv'
  OBVIOUS
<1>1. CASE RmStep
  <2>1. ExportLimit'
     BY <1>1, RmLeavesMain DEF TypeInv, ExportLimit, Visiting, mainVars, requestVars,
       visitVars
  <2> QED
    BY <1>1, <2>1, RmKeepsRm, RmKeepsManager, RmKeepsCells, RmKeepsHistory, RmKeepsMain
       DEF TypeInv, TypeOK
<1>2. CASE MainStep
  BY <1>2, MainKeepsRm, MainKeepsManager, MainKeepsCells, MainKeepsHistory,
     MainKeepsMain
     DEF TypeInv, TypeOK
<1> QED
  BY <1>1, <1>2, TypeIdle DEF Next

LEMMA TypeInvariant == Spec => []TypeInv
BY TypeInit, TypeStep, PTL DEF Spec

\* Every cursor stays inside its block and every counter inside its limit, the
\* messages of one pass of the visitor included.
THEOREM TypeCorrect == Spec => []TypeOK
<1>1. TypeInv => TypeOK
  BY DEF TypeInv
<1> QED
  BY <1>1, TypeInvariant, PTL

-----------------------------------------------------------------------------
(* The semaphore and the reconfiguration of the Modbus client. *)

\* What SemaphoreAccounting and ReconfigureExclusive rest on: a round that is
\* under way saw m_enabled set and nobody cleared it since, for that takes the
\* semaphore; between disable() and enable() it is not set.
LockInv ==
    /\ sem \in 0 .. 1
    /\ rmPc \in RmPlaces /\ mPc \in MainPlaces /\ mReturn \in {"loop", "sent"}
    /\ SemaphoreAccounting
    /\ rmPc \in ActiveRound => enabled
    /\ mPc \in {"begin", "enable", "enabling"} => ~enabled

\* It holds initially: the semaphore is created with count 1, both tasks are
\* outside it.
LEMMA LockInit == Init => LockInv
BY DEF Init, LockInv, SemaphoreAccounting, RmHolds, MainHolds, RmPlaces, MainPlaces,
       ActiveRound, ReadPhase, VisitPlaces, RequestPlaces, ConfigPlaces

\* Each step of regman keeps it: it takes the semaphore only when it is free, and
\* every path of the round ends with the give.
LEMMA LockRmStep == LockInv /\ RmStep => LockInv'
<1> SUFFICES ASSUME LockInv, RmStep PROVE LockInv'
  OBVIOUS
<1> USE DEF LockInv, SemaphoreAccounting, RmHolds, MainHolds, RmPlaces, ActiveRound,
            ReadPhase, RmKeeps, mainVars, requestVars, configVars
<1>1. CASE RmTake
  BY <1>1 DEF RmTake
<1>2. CASE RmDisabled
  BY <1>2 DEF RmDisabled
<1>3. CASE RmStartCommits
  BY <1>3 DEF RmStartCommits
<1>4. CASE RmSkipRegister
  BY <1>4 DEF RmSkipRegister, NextCommit
<1>5. CASE RmCapture
  BY <1>5 DEF RmCapture
<1>6. CASE RmWriteOk
  BY <1>6 DEF RmWriteOk
<1>7. CASE RmWriteFail
  BY <1>7 DEF RmWriteFail, NextCommit
<1>8. CASE RmConfirm
  BY <1>8 DEF RmConfirm
<1>9. CASE RmClearPending
  BY <1>9 DEF RmClearPending, NextCommit
<1>10. CASE RmSkipBlock
  BY <1>10 DEF RmSkipBlock, NextPoll
<1>11. CASE RmReadBlock
  BY <1>11 DEF RmReadBlock
<1>12. CASE RmReadOk
  BY <1>12 DEF RmReadOk, ReadAccepted, ReadRejected
<1>13. CASE RmReadFail
  BY <1>13 DEF RmReadFail, ReadAccepted, ReadRejected
<1>14. CASE RmStoreSame
  BY <1>14 DEF RmStoreSame, NextStore, NextPoll
<1>15. CASE RmStoreNew
  BY <1>15 DEF RmStoreNew
<1>16. CASE RmSetUpdated
  BY <1>16 DEF RmSetUpdated, NextStore, NextPoll
<1>17. CASE RmGive
  BY <1>17 DEF RmGive
<1> QED
  BY <1>1, <1>2, <1>3, <1>4, <1>5, <1>6, <1>7, <1>8, <1>9, <1>10, <1>11, <1>12,
     <1>13, <1>14, <1>15, <1>16, <1>17 DEF RmStep

\* Each step of main keeps it.  The two delicate paths are accept(), which gives
\* only what it took, and the reconfiguration.
LEMMA LockMainStep == LockInv /\ MainStep => LockInv'
<1> SUFFICES ASSUME LockInv, MainStep PROVE LockInv'
  OBVIOUS
<1> USE DEF LockInv, SemaphoreAccounting, RmHolds, MainHolds, RmPlaces, MainPlaces,
            ActiveRound, ReadPhase, VisitPlaces, RequestPlaces, ConfigPlaces,
            MoveMain, CacheUntouched, MainKeeps, rmVars, configVars, requestVars
<1>1. ASSUME NEW a \in Addresses, NEW v \in Values, MainRequest(a, v) PROVE LockInv'
  BY <1>1 DEF MainRequest
<1>2. CASE MainLoadFlags
  BY <1>2 DEF MainLoadFlags
<1>3. CASE MainSetPending
  BY <1>3 DEF MainSetPending
<1>4. CASE MainJson \/ MainTakeForJson \/ MainJsonDone
  BY <1>4 DEF MainJson, MainTakeForJson, MainJsonDone
<1>5. CASE MainViewConfig \/ MainSaveConfig
  BY <1>5 DEF MainViewConfig, MainSaveConfig
<1>6. CASE MainConfigUnchanged
  BY <1>6 DEF MainConfigUnchanged
<1>7. CASE MainTakeToDisable
  BY <1>7 DEF MainTakeToDisable
<1>8. CASE MainDisable
  BY <1>8 DEF MainDisable
<1>9. CASE MainBegin
  BY <1>9 DEF MainBegin
<1>10. CASE MainTakeToEnable
  BY <1>10 DEF MainTakeToEnable
<1>11. CASE MainEnable
  BY <1>11 DEF MainEnable
<1>12. CASE MainAccept \/ MainAcceptTimeout
  BY <1>12 DEF MainAccept, MainAcceptTimeout
<1>13. CASE MainNextBlock \/ MainTraversalDone
  BY <1>13 DEF MainNextBlock, MainTraversalDone
<1>14. CASE MainSkipRegister
  BY <1>14 DEF MainSkipRegister, NextVisit
<1>15. CASE MainSend
  BY <1>15 DEF MainSend
<1>16. CASE MainConfirm
  BY <1>16 DEF MainConfirm, NextVisit
<1>17. CASE MainAcceptDone
  BY <1>17 DEF MainAcceptDone
<1>18. CASE MainConfigChanged
  BY <1>18 DEF MainConfigChanged
<1> QED
  BY <1>1, <1>2, <1>3, <1>4, <1>5, <1>6, <1>7, <1>8, <1>9, <1>10, <1>11, <1>12,
     <1>13, <1>14, <1>15, <1>16, <1>17, <1>18 DEF MainStep

LEMMA LockStep == LockInv /\ [Next]_vars => LockInv'
<1> SUFFICES ASSUME LockInv, [Next]_vars PROVE LockInv'
  OBVIOUS
<1>1. CASE RmStep
  BY <1>1, LockRmStep
<1>2. CASE MainStep
  BY <1>2, LockMainStep
<1>3. ASSUME NEW b \in Blocks, IntervalPasses(b) PROVE LockInv'
  BY <1>3 DEF IntervalPasses, LockInv, SemaphoreAccounting, RmHolds, MainHolds,
              rmVars, mainVars, requestVars, configVars
<1>4. CASE UNCHANGED vars
  BY <1>4 DEF LockInv, SemaphoreAccounting, RmHolds, MainHolds, vars, manager,
              rmVars, mainVars, requestVars, configVars
<1> QED
  BY <1>1, <1>2, <1>3, <1>4 DEF Next

LEMMA LockInvariant == Spec => []LockInv
BY LockInit, LockStep, PTL DEF Spec

\* The binary semaphore is free exactly when neither task is between its take and
\* its give, and they never both are.
THEOREM SemaphoreAccounted == Spec => []SemaphoreAccounting
BY LockInvariant, PTL DEF LockInv

\* main never re-initialises the Modbus client while regman is in an active round.
THEOREM ReconfigurationExclusive == Spec => []ReconfigureExclusive
<1>1. LockInv => ReconfigureExclusive
  BY DEF LockInv, ReconfigureExclusive
<1> QED
  BY <1>1, LockInvariant, PTL

-----------------------------------------------------------------------------
(* What becomes of the requests: only requested values are written, and      *)
(* RegisterManager implements OrderedWrites.                                 *)

\* regman has a captured value in hand.
AtWrite == rmPc \in {"write", "confirm", "clear"}

\* The pending value is the last one requested; a flag byte, or a copy of it that
\* will be stored back, says PENDING_WRITE only after a request; the captured
\* value is a request that is no older than the one delivered last.
RequestInv ==
    /\ \A a \in Addresses :
          /\ Len(requests[a]) > 0 => pending[a] = requests[a][Len(requests[a])]
          /\ "PENDING_WRITE" \in flags[a] => Len(requests[a]) > 0
          /\ delivered[a] <= Len(requests[a])
    /\ mPc \in RequestPlaces => Len(requests[mAddr]) > 0
    /\ rmPc = "or" /\ "PENDING_WRITE" \in rmFlags => Len(requests[RmAddress]) > 0
    /\ AtWrite => /\ captured \in 1 .. Len(requests[RmAddress])
                  /\ rmValue = requests[RmAddress][captured]
                  /\ delivered[RmAddress] <= captured

-----------------------------------------------------------------------------
(* Requests: regman's steps. *)

\* regman changes neither the requests nor the pending values, and sets no
\* PENDING_WRITE flag that it has not loaded.
LEMMA RequestRmFrame ==
  ASSUME TypeOK, RequestInv, RmStep
  PROVE  /\ UNCHANGED <<requests, pending, mPc, mAddr>>
         /\ \A a \in Addresses : "PENDING_WRITE" \in flags'[a] => Len(requests[a]) > 0
<1>1. UNCHANGED <<requests, pending, mPc, mAddr>>
  BY DEF RmStep, RmTake, RmDisabled, RmStartCommits, RmSkipRegister, RmCapture,
     RmWriteOk, RmWriteFail, RmConfirm, RmClearPending, RmSkipBlock, RmReadBlock, RmReadOk,
     RmReadFail, RmStoreSame, RmStoreNew, RmSetUpdated, RmGive, RmKeeps, cells, mainVars,
     requestVars, history
<1>2. flags \in [Addresses -> SUBSET Flags] /\ RmAddress \in Addresses
  BY RmCursor DEF TypeOK, CellsTypeOK
<1>3. CASE UNCHANGED flags
  BY <1>1, <1>3 DEF RequestInv
<1>4. ASSUME RmClearPending, NEW a \in Addresses, "PENDING_WRITE" \in flags'[a]
      PROVE  Len(requests[a]) > 0
  <2>1. "PENDING_WRITE" \in flags[a]
    BY <1>2, <1>4 DEF RmClearPending
  <2> QED
    BY <2>1 DEF RequestInv
<1>5. ASSUME RmSetUpdated, NEW a \in Addresses, "PENDING_WRITE" \in flags'[a]
      PROVE  Len(requests[a]) > 0
  <2>1. CASE a = RmAddress
    <3>1. rmPc = "or" /\ "PENDING_WRITE" \in rmFlags
      BY <1>2, <1>5, <2>1 DEF RmSetUpdated
    <3> QED
      BY <2>1, <3>1 DEF RequestInv
  <2>2. CASE a # RmAddress
    <3>1. "PENDING_WRITE" \in flags[a]
      BY <1>2, <1>5, <2>2 DEF RmSetUpdated
    <3> QED
      BY <3>1 DEF RequestInv
  <2> QED
    BY <2>1, <2>2
<1>6. CASE ~RmClearPending /\ ~RmSetUpdated
  BY <1>3, <1>6 DEF RmStep, RmTake, RmDisabled, RmStartCommits, RmSkipRegister, RmCapture,
     RmWriteOk, RmWriteFail, RmConfirm, RmSkipBlock, RmReadBlock, RmReadOk,
     RmReadFail, RmStoreSame, RmStoreNew, RmGive, cells
<1> QED
  BY <1>1, <1>4, <1>5, <1>6, Zenon

\* Where regman is at a write, it is at the same write as before, or it has just
\* captured the pending value.  It delivers what it captured.
LEMMA RequestRmWrite ==
  ASSUME TypeOK, RequestInv, RmStep
  PROVE  /\ AtWrite' => \/ AtWrite /\ UNCHANGED <<rmPos, rmValue, captured>>
                        \/ RmCapture
         /\ UNCHANGED delivered \/ (AtWrite /\ Deliver)
         /\ rmPc' = "or" => RmStoreNew
<1> USE DEF AtWrite, rmPos, rmLocals, outcome, history
<1>1. UNCHANGED delivered \/ (AtWrite /\ Deliver)
  BY DEF RmStep, RmTake, RmDisabled, RmStartCommits, RmSkipRegister, RmCapture,
     RmWriteOk, RmWriteFail, RmConfirm, RmClearPending, RmSkipBlock, RmReadBlock, RmReadOk,
     RmReadFail, RmStoreSame, RmStoreNew, RmSetUpdated, RmGive
<1>2. AtWrite' => (AtWrite /\ UNCHANGED <<rmPos, rmValue, captured>>) \/ RmCapture
  BY DEF RmStep, RmTake, RmDisabled, RmStartCommits, RmSkipRegister, RmCapture,
     RmWriteOk, RmWriteFail, RmConfirm, RmClearPending, RmSkipBlock, RmReadBlock, RmReadOk,
     RmReadFail, RmStoreSame, RmStoreNew, RmSetUpdated, RmGive, NextCommit, NextPoll,
     NextStore, ReadAccepted, ReadRejected
<1>3. rmPc' = "or" => RmStoreNew
  BY DEF RmStep, RmTake, RmDisabled, RmStartCommits, RmSkipRegister, RmCapture,
     RmWriteOk, RmWriteFail, RmConfirm, RmClearPending, RmSkipBlock, RmReadBlock, RmReadOk,
     RmReadFail, RmStoreSame, RmStoreNew, RmSetUpdated, RmGive, NextCommit, NextPoll,
     NextStore, ReadAccepted, ReadRejected
<1> QED
  BY <1>1, <1>2, <1>3

\* regman keeps the invariant: it captures the last request, and delivers what it
\* captured.
LEMMA RequestRmStep ==
  ASSUME TypeOK, RequestInv, RmStep
  PROVE  RequestInv'
<1>1. /\ UNCHANGED <<requests, pending, mPc, mAddr>>
      /\ \A a \in Addresses : "PENDING_WRITE" \in flags'[a] => Len(requests[a]) > 0
  BY RequestRmFrame
<1>2. /\ AtWrite' => (AtWrite /\ UNCHANGED <<rmPos, rmValue, captured>>) \/ RmCapture
      /\ UNCHANGED delivered \/ (AtWrite /\ Deliver)
      /\ rmPc' = "or" => RmStoreNew
  BY RequestRmWrite
<1>3. /\ RmAddress \in Addresses /\ captured \in Nat
      /\ requests \in [Addresses -> Seq(Values)] /\ delivered \in [Addresses -> Nat]
  BY RmCursor DEF TypeOK, RmTypeOK, HistoryTypeOK
<1>4. \A a \in Addresses : Len(requests[a]) \in Nat
  BY <1>3
<1>5. ASSUME NEW a \in Addresses PROVE delivered'[a] <= Len(requests[a])
  <2>1. delivered[a] <= Len(requests[a])
    BY DEF RequestInv
  <2>2. CASE AtWrite /\ Deliver
    <3>1. captured <= Len(requests[RmAddress])
      BY <1>3, <1>4, <2>2 DEF RequestInv
    <3>2. (delivered'[a] = captured /\ a = RmAddress) \/ delivered'[a] = delivered[a]
      BY <1>3, <2>2 DEF Deliver
    <3> QED
      BY <2>1, <3>1, <3>2
  <2> QED
    BY <1>2, <2>1, <2>2
<1>6. rmPc' = "or" /\ "PENDING_WRITE" \in rmFlags' => Len(requests[RmAddress']) > 0
  <2>1. SUFFICES ASSUME RmStoreNew, "PENDING_WRITE" \in rmFlags'
                 PROVE  Len(requests[RmAddress']) > 0
    BY <1>2
  <2>2. RmAddress' = RmAddress /\ "PENDING_WRITE" \in flags[RmAddress]
    BY <2>1 DEF RmStoreNew, RmAddress, rmPos
  <2> QED
    BY <1>3, <2>2 DEF RequestInv
<1>7. AtWrite' => /\ captured' \in 1 .. Len(requests[RmAddress'])
                  /\ rmValue' = requests[RmAddress'][captured']
                  /\ delivered'[RmAddress'] <= captured'
  <2>1. CASE AtWrite /\ UNCHANGED <<rmPos, rmValue, captured>>
    <3>1. RmAddress' = RmAddress
      BY <2>1 DEF RmAddress, rmPos
    <3>2. delivered'[RmAddress] = captured \/ delivered' = delivered
      BY <1>2, <1>3 DEF Deliver
    <3>3. delivered'[RmAddress] <= captured
      BY <1>3, <2>1, <3>2 DEF RequestInv
    <3> QED
      BY <2>1, <3>1, <3>3 DEF RequestInv
  <2>2. CASE RmCapture
    <3>1. /\ RmAddress' = RmAddress /\ captured' = Len(requests[RmAddress])
          /\ rmValue' = pending[RmAddress] /\ delivered' = delivered
          /\ "PENDING_WRITE" \in flags[RmAddress]
      BY <2>2 DEF RmCapture, RmAddress, rmPos, outcome
    <3>2. Len(requests[RmAddress]) > 0
      BY <1>3, <3>1 DEF RequestInv
    <3> QED
      BY <1>3, <1>4, <3>1, <3>2 DEF RequestInv
  <2> QED
    BY <1>2, <2>1, <2>2
<1> QED
  BY <1>1, <1>5, <1>6, <1>7 DEF RequestInv


-----------------------------------------------------------------------------
(* Requests: main's steps. *)

\* A step of main other than a request stores no value, and sets no PENDING_WRITE
\* flag but that of the request it is about.
LEMMA RequestMainFrame ==
  ASSUME TypeOK, RequestInv, MainStep, ~ \E a \in Addresses, v \in Values : MainRequest(a, v)
  PROVE  /\ UNCHANGED <<requests, pending>>
         /\ mPc' \in RequestPlaces => mPc \in RequestPlaces /\ UNCHANGED mAddr
         /\ \A a \in Addresses : "PENDING_WRITE" \in flags'[a] => Len(requests[a]) > 0
<1>1. UNCHANGED <<requests, pending>>
  BY DEF MainStep, MoveMain, CacheUntouched, cells,
     MainLoadFlags, MainSetPending, MainJson, MainTakeForJson,
     MainJsonDone, MainViewConfig, MainSaveConfig, MainConfigUnchanged, MainConfigChanged,
     MainTakeToDisable, MainDisable, MainBegin, MainTakeToEnable, MainEnable, MainAccept,
     MainAcceptTimeout, MainNextBlock, MainTraversalDone, MainSkipRegister, MainSend,
     MainConfirm, MainAcceptDone
<1>2. mPc' \in RequestPlaces => mPc \in RequestPlaces /\ UNCHANGED mAddr
  BY DEF TypeOK, MainTypeOK, MainStep, MoveMain, CacheUntouched, NextVisit, RequestPlaces,
     requestVars, MainLoadFlags, MainSetPending, MainJson, MainTakeForJson,
     MainJsonDone, MainViewConfig, MainSaveConfig, MainConfigUnchanged, MainConfigChanged,
     MainTakeToDisable, MainDisable, MainBegin, MainTakeToEnable, MainEnable, MainAccept,
     MainAcceptTimeout, MainNextBlock, MainTraversalDone, MainSkipRegister, MainSend,
     MainConfirm, MainAcceptDone
<1>3. /\ flags \in [Addresses -> SUBSET Flags]
      /\ mAddr \in Addresses /\ VisitedAddress \in Addresses
  BY MainCursor DEF TypeOK, CellsTypeOK, MainTypeOK
<1>4. ASSUME NEW a \in Addresses, "PENDING_WRITE" \in flags'[a] PROVE Len(requests[a]) > 0
  <2>1. CASE "PENDING_WRITE" \in flags[a]
    BY <2>1 DEF RequestInv
  <2>2. CASE MainSetPending
    <3>1. mPc \in RequestPlaces
      BY <2>2 DEF MainSetPending, RequestPlaces
    <3>2. a = mAddr \/ "PENDING_WRITE" \in flags[a]
      BY <1>3, <1>4, <2>2 DEF MainSetPending
    <3> QED
      BY <1>3, <3>1, <3>2 DEF RequestInv
  <2>3. CASE MainConfirm
    <3>1. "PENDING_WRITE" \in flags[a]
      BY <1>3, <1>4, <2>3 DEF MainConfirm
    <3> QED
      BY <3>1 DEF RequestInv
  <2>4. CASE UNCHANGED flags
    BY <1>4, <2>1, <2>4
  <2>5. MainSetPending \/ MainConfirm \/ UNCHANGED flags
    BY DEF MainStep, CacheUntouched, cells, MainLoadFlags, MainJson, MainTakeForJson,
     MainJsonDone, MainViewConfig, MainSaveConfig, MainConfigUnchanged, MainConfigChanged,
     MainTakeToDisable, MainDisable, MainBegin, MainTakeToEnable, MainEnable, MainAccept,
     MainAcceptTimeout, MainNextBlock, MainTraversalDone, MainSkipRegister, MainSend,
     MainAcceptDone
  <2> QED
    BY <2>2, <2>3, <2>4, <2>5
<1> QED
  BY <1>1, <1>2, <1>4

\* Neither main nor the clock moves regman.
LEMMA RmKept ==
  ASSUME UNCHANGED <<rmVars, outcome>>
  PROVE  UNCHANGED <<rmPc, rmBlock, rmIdx, rmValue, rmFlags, captured, delivered, RmAddress>>
BY DEF rmVars, rmPos, rmLocals, outcome, RmAddress

\* main keeps it: a request is appended, so what was captured stays where it is.
LEMMA RequestMainStep ==
  ASSUME TypeOK, RequestInv, MainStep
  PROVE  RequestInv'
<1>1. UNCHANGED <<rmPc, rmBlock, rmIdx, rmValue, rmFlags, captured, delivered, RmAddress>>
  <2>1. UNCHANGED <<rmVars, outcome>>
    BY DEF MainStep, MainRequest, MainKeeps, CacheUntouched,
       MainLoadFlags, MainSetPending, MainJson, MainTakeForJson,
     MainJsonDone, MainViewConfig, MainSaveConfig, MainConfigUnchanged, MainConfigChanged,
     MainTakeToDisable, MainDisable, MainBegin, MainTakeToEnable, MainEnable, MainAccept,
     MainAcceptTimeout, MainNextBlock, MainTraversalDone, MainSkipRegister, MainSend,
     MainConfirm, MainAcceptDone
  <2> QED
    BY <2>1, RmKept
<1>2. /\ RmAddress \in Addresses /\ captured \in Nat
      /\ requests \in [Addresses -> Seq(Values)] /\ delivered \in [Addresses -> Nat]
      /\ pending \in [Addresses -> Values \cup {NoValue}]
  BY RmCursor DEF TypeOK, RmTypeOK, HistoryTypeOK, CellsTypeOK
<1>3. ASSUME NEW b \in Addresses, NEW v \in Values, MainRequest(b, v) PROVE RequestInv'
  <2>1. /\ pending' = [pending EXCEPT ![b] = v] /\ UNCHANGED flags
        /\ requests' = [requests EXCEPT ![b] = Append(requests[b], v)] /\ mAddr' = b
    BY <1>3 DEF MainRequest
  <2>2. ASSUME NEW a \in Addresses
        PROVE  /\ Len(requests'[a]) \in Nat /\ Len(requests[a]) \in Nat
               /\ Len(requests'[a]) >= Len(requests[a])
               /\ \A i \in 1 .. Len(requests[a]) : requests'[a][i] = requests[a][i]
    <3>1. CASE a = b
      <4>1. requests[b] \in Seq(Values) /\ requests'[a] = Append(requests[b], v)
        BY <1>2, <2>1, <3>1
      <4> QED
        BY <3>1, <4>1
    <3>2. CASE a # b
      BY <1>2, <2>1, <3>2
    <3> QED
      BY <3>1, <3>2
  <2>3. Len(requests'[b]) > 0 /\ pending'[b] = requests'[b][Len(requests'[b])]
    <3>1. requests[b] \in Seq(Values) /\ requests'[b] = Append(requests[b], v)
          /\ pending'[b] = v
      BY <1>2, <2>1
    <3> QED
      BY <3>1
  <2>4. ASSUME NEW a \in Addresses, a # b
        PROVE  requests'[a] = requests[a] /\ pending'[a] = pending[a]
    BY <1>2, <2>1, <2>4
  <2>5. ASSUME NEW a \in Addresses
        PROVE  /\ Len(requests'[a]) > 0 => pending'[a] = requests'[a][Len(requests'[a])]
               /\ "PENDING_WRITE" \in flags'[a] => Len(requests'[a]) > 0
               /\ delivered'[a] <= Len(requests'[a])
    <3>1. Len(requests'[a]) > 0 => pending'[a] = requests'[a][Len(requests'[a])]
      BY <2>3, <2>4 DEF RequestInv
    <3>2. delivered[a] <= Len(requests'[a])
          /\ ("PENDING_WRITE" \in flags[a] => Len(requests'[a]) > 0)
      BY <1>2, <2>2 DEF RequestInv
    <3> QED
      BY <1>1, <2>1, <3>1, <3>2
  <2>6. rmPc' = "or" /\ "PENDING_WRITE" \in rmFlags' => Len(requests'[RmAddress']) > 0
    BY <1>1, <1>2, <2>2 DEF RequestInv
  <2>7. AtWrite' => /\ captured' \in 1 .. Len(requests'[RmAddress'])
                    /\ rmValue' = requests'[RmAddress'][captured']
                    /\ delivered'[RmAddress'] <= captured'
    BY <1>1, <1>2, <2>2 DEF RequestInv, AtWrite
  <2> QED
    BY <2>1, <2>3, <2>5, <2>6, <2>7 DEF RequestInv
<1>4. CASE ~ \E a \in Addresses, v \in Values : MainRequest(a, v)
  BY <1>1, <1>4, RequestMainFrame DEF RequestInv, AtWrite
<1> QED
  BY <1>3, <1>4

-----------------------------------------------------------------------------
(* Requests: the theorems. *)

\* No request yet, no flag.
LEMMA RequestInit == Init => RequestInv
<1> SUFFICES ASSUME Init PROVE RequestInv
  OBVIOUS
<1>1. \A a \in Addresses : Len(requests[a]) = 0 /\ flags[a] = {} /\ delivered[a] = 0
  BY DEF Init
<1>2. mPc = "loop" /\ rmPc = "sleep"
  BY DEF Init
<1> QED
  BY <1>1, <1>2 DEF RequestInv, AtWrite, RequestPlaces

LEMMA RequestStep == TypeOK /\ RequestInv /\ [Next]_vars => RequestInv'
<1> SUFFICES ASSUME TypeOK, RequestInv, [Next]_vars PROVE RequestInv'
  OBVIOUS
<1>1. CASE UNCHANGED vars \/ \E b \in Blocks : IntervalPasses(b)
  BY <1>1, RmKept DEF RequestInv, AtWrite, vars, IntervalPasses, cells, mainVars, requestVars,
     history
<1> QED
  BY <1>1, RequestRmStep, RequestMainStep DEF Next

LEMMA RequestInvariant == Spec => []RequestInv
BY RequestInit, RequestStep, TypeCorrect, PTL DEF Spec

\* What goes out on the bus is a value somebody requested at that address, never
\* VAL_INVALID or a leftover of another register.
THEOREM OnlyRequestsWritten == Spec => []WrittenValueWasRequested
<1>1. RequestInv => WrittenValueWasRequested
  <2>1. \A a \in Addresses : Len(requests[a]) > 0 => requests[a] # <<>>
    OBVIOUS
  <2> QED
    BY <2>1 DEF RequestInv, WrittenValueWasRequested, AtWrite
<1> QED
  BY <1>1, RequestInvariant, PTL

\* A step of regman delivers the captured request or nothing new.
LEMMA RmStepOrdered ==
  ASSUME TypeOK, RequestInv, RmStep
  PROVE  [WritesInOrder!Next]_<<requests, delivered>>
<1>1. UNCHANGED requests /\ (UNCHANGED delivered \/ (AtWrite /\ Deliver))
  BY RequestRmFrame, RequestRmWrite
<1>2. CASE AtWrite /\ Deliver
  <2>1. /\ RmAddress \in Addresses /\ delivered \in [Addresses -> Nat]
        /\ delivered' = [delivered EXCEPT ![RmAddress] = captured]
        /\ captured \in 1 .. Len(requests[RmAddress]) /\ delivered[RmAddress] <= captured
        /\ requests \in [Addresses -> Seq(Values)]
    BY <1>2, RmCursor DEF TypeOK, HistoryTypeOK, RequestInv, Deliver
  <2>2. CASE delivered[RmAddress] = captured
    BY <1>1, <2>1, <2>2
  <2>3. CASE delivered[RmAddress] # captured
    <3>1. captured \in delivered[RmAddress] + 1 .. Len(requests[RmAddress])
      BY <2>1, <2>3
    <3>2. WritesInOrder!Deliver(RmAddress)
      BY <1>1, <2>1, <3>1 DEF WritesInOrder!Deliver
    <3> QED
      BY <2>1, <3>2 DEF WritesInOrder!Next
  <2> QED
    BY <2>2, <2>3
<1> QED
  BY <1>1, <1>2

\* A step of main is a request or none.
LEMMA MainStepOrdered ==
  ASSUME TypeOK, RequestInv, MainStep
  PROVE  [WritesInOrder!Next]_<<requests, delivered>>
<1>1. UNCHANGED delivered
  BY DEF MainStep, MainRequest, MainKeeps, CacheUntouched, outcome,
     MainLoadFlags, MainSetPending, MainJson, MainTakeForJson,
     MainJsonDone, MainViewConfig, MainSaveConfig, MainConfigUnchanged, MainConfigChanged,
     MainTakeToDisable, MainDisable, MainBegin, MainTakeToEnable, MainEnable, MainAccept,
     MainAcceptTimeout, MainNextBlock, MainTraversalDone, MainSkipRegister, MainSend,
     MainConfirm, MainAcceptDone
<1>2. ASSUME NEW a \in Addresses, NEW v \in Values, MainRequest(a, v)
      PROVE  WritesInOrder!Next
  <2>1. WritesInOrder!Request(a, v)
    BY <1>1, <1>2 DEF WritesInOrder!Request, MainRequest
  <2> QED
    BY <2>1 DEF WritesInOrder!Next
<1>3. CASE ~ \E a \in Addresses, v \in Values : MainRequest(a, v)
  BY <1>1, <1>3, RequestMainFrame
<1> QED
  BY <1>2, <1>3

\* The unit gets requested values only and never an older one after a newer one:
\* RegisterManager implements OrderedWrites.
THEOREM WritesAreOrdered == Spec => OrderedWritesSpec
<1>1. Init => WritesInOrder!Init
  BY DEF Init, WritesInOrder!Init
<1>2. TypeOK /\ RequestInv /\ [Next]_vars => [WritesInOrder!Next]_<<requests, delivered>>
  <2>1. CASE UNCHANGED vars \/ \E b \in Blocks : IntervalPasses(b)
    BY <2>1 DEF vars, IntervalPasses, history, outcome
  <2> QED
    BY <2>1, RmStepOrdered, MainStepOrdered DEF Next
<1> QED
  BY <1>1, <1>2, RequestInvariant, TypeCorrect, PTL
     DEF Spec, OrderedWritesSpec, WritesInOrder!Spec

-----------------------------------------------------------------------------
(* What becomes of the updates: a value that is confirmed is the one that    *)
(* was sent, and no update of a register nobody asks to change is lost.      *)

\* main is in sendMqttMessage(), or stores a request that arrived there.
Sending == mPc = "sent" \/ (mPc \in RequestPlaces /\ mReturn = "sent")

\* A request for the very register that is being sent stores back a flag byte
\* with VALUE_UPDATED in it.
RequestKeepsUpdate ==
    mPc = "or" /\ mReturn = "sent" /\ mAddr = VisitedAddress => "VALUE_UPDATED" \in mFlags

UpdateInv == SentValueIsCurrent /\ RequestKeepsUpdate /\ UnrequestedUpdatesTracked

\* While main sends, it holds the semaphore: regman is asleep.
LEMMA SendingHolds == LockInv /\ Sending => rmPc = "sleep"
BY DEF LockInv, SemaphoreAccounting, RmHolds, MainHolds, Sending, VisitPlaces

\* The parts of the invariant are about variables of main and the cells only.
LEMMA SentKept ==
  ASSUME SentValueIsCurrent, RequestKeepsUpdate,
         UNCHANGED <<value, flags, handed, mPc, mReturn, mAddr, mFlags, mBlock, mIdx>>
  PROVE  SentValueIsCurrent' /\ RequestKeepsUpdate'
BY DEF SentValueIsCurrent, RequestKeepsUpdate, VisitedAddress

-----------------------------------------------------------------------------
(* Updates: regman's steps. *)

\* Three steps of regman change the cells; of the others none is at "or".
LEMMA RmCells ==
  ASSUME RmStep
  PROVE  \/ RmClearPending \/ RmStoreNew \/ RmSetUpdated
         \/ UNCHANGED <<value, flags>> /\ rmPc # "or"
BY DEF RmStep, RmTake, RmDisabled, RmStartCommits, RmSkipRegister, RmCapture,
   RmWriteOk, RmWriteFail, RmConfirm, RmSkipBlock, RmReadBlock, RmReadOk,
   RmReadFail, RmStoreSame, RmGive, cells

LEMMA RmLeavesHistory == RmStep => UNCHANGED <<requests, handed>>
BY DEF RmStep, RmTake, RmDisabled, RmStartCommits, RmSkipRegister, RmCapture,
   RmWriteOk, RmWriteFail, RmConfirm, RmClearPending, RmSkipBlock, RmReadBlock, RmReadOk,
   RmReadFail, RmStoreSame, RmStoreNew, RmSetUpdated, RmGive, RmKeeps, history

\* regman marks what it stores, and clears no flag but of a register it wrote,
\* which somebody requested.
LEMMA UpdateRmTracked ==
  ASSUME TypeOK, RequestInv, UpdateInv, RmStep
  PROVE  UnrequestedUpdatesTracked'
<1>1. UNCHANGED <<requests, handed>>
  BY RmLeavesHistory
<1>2. /\ RmAddress \in Addresses
      /\ value \in [Addresses -> Values \cup {NoValue}]
      /\ flags \in [Addresses -> SUBSET Flags]
  BY RmCursor DEF TypeOK, CellsTypeOK
<1> SUFFICES ASSUME NEW a \in Addresses, requests[a] = <<>> PROVE Tracked(a)'
  BY <1>1 DEF UnrequestedUpdatesTracked
<1>3. Tracked(a)
  BY DEF UpdateInv, UnrequestedUpdatesTracked
<1>4. CASE RmClearPending
  <2>1. a # RmAddress
    <3>1. AtWrite
      BY <1>4 DEF RmClearPending, AtWrite
    <3>2. captured \in 1 .. Len(requests[RmAddress])
      BY <3>1 DEF RequestInv
    <3> QED
      BY <3>2
  <2>2. flags'[a] = flags[a] /\ value' = value /\ rmPc # "or"
    BY <1>2, <1>4, <2>1 DEF RmClearPending
  <2> QED
    BY <1>1, <1>3, <2>2 DEF Tracked
<1>5. CASE RmStoreNew
  <2>1. rmPc' = "or" /\ RmAddress' = RmAddress /\ rmPc # "or" /\ flags' = flags
    BY <1>5 DEF RmStoreNew, rmPos, RmAddress
  <2>2. a # RmAddress => value'[a] = value[a]
    BY <1>2, <1>5 DEF RmStoreNew
  <2> QED
    BY <1>1, <1>3, <2>1, <2>2 DEF Tracked
<1>6. CASE RmSetUpdated
  <2>1. CASE a = RmAddress
    <3>1. "VALUE_UPDATED" \in flags'[a]
      BY <1>2, <1>6, <2>1 DEF RmSetUpdated
    <3> QED
      BY <3>1 DEF Tracked
  <2>2. CASE a # RmAddress
    <3>1. flags'[a] = flags[a] /\ value' = value
      BY <1>2, <1>6, <2>2 DEF RmSetUpdated
    <3> QED
      BY <1>1, <1>3, <2>2, <3>1 DEF Tracked
  <2> QED
    BY <2>1, <2>2
<1>7. CASE UNCHANGED <<value, flags>> /\ rmPc # "or"
  BY <1>1, <1>3, <1>7 DEF Tracked
<1> QED
  BY <1>4, <1>5, <1>6, <1>7, RmCells

\* Where regman changes the cells main is not sending.
LEMMA UpdateRmStep ==
  ASSUME TypeOK, LockInv, RequestInv, UpdateInv, RmStep
  PROVE  UpdateInv'
<1>1. UNCHANGED <<handed, mPc, mReturn, mAddr, mFlags, mBlock, mIdx>>
  BY RmLeavesMain, RmLeavesHistory DEF mainVars, requestVars, visitVars
<1>2. CASE UNCHANGED <<value, flags>>
  <2>1. SentValueIsCurrent' /\ RequestKeepsUpdate'
    BY <1>1, <1>2, SentKept DEF UpdateInv
  <2> QED
    BY <2>1, UpdateRmTracked DEF UpdateInv
<1>3. CASE RmClearPending \/ RmStoreNew \/ RmSetUpdated
  <2>1. ~Sending
    BY <1>3, SendingHolds DEF RmClearPending, RmStoreNew, RmSetUpdated
  <2>2. SentValueIsCurrent' /\ RequestKeepsUpdate'
    BY <1>1, <2>1 DEF Sending, SentValueIsCurrent, RequestKeepsUpdate, RequestPlaces
  <2> QED
    BY <2>2, UpdateRmTracked DEF UpdateInv
<1> QED
  BY <1>2, <1>3, RmCells
-----------------------------------------------------------------------------
(* Updates: main's steps. *)

\* The steps of main with an effect on what is sent, marked or handed over; the
\* others leave main outside of sending and of storing a flag.
MainQuiet ==
    /\ UNCHANGED <<value, flags, handed, requests, rmVars>>
    /\ mPc' \notin {"sent", "load", "or"}

LEMMA MainEffects ==
  ASSUME TypeOK, MainStep
  PROVE  \/ \E a \in Addresses, v \in Values : MainRequest(a, v)
         \/ MainLoadFlags \/ MainSetPending \/ MainSend \/ MainConfirm
         \/ MainQuiet
<1> SUFFICES ASSUME ~ \E a \in Addresses, v \in Values : MainRequest(a, v),
                    ~MainLoadFlags, ~MainSetPending, ~MainSend, ~MainConfirm
             PROVE  MainQuiet
  OBVIOUS
<1> USE DEF MainStep, MoveMain, CacheUntouched, MainKeeps, NextVisit
<1>1. UNCHANGED <<value, flags, handed, requests, rmVars>>
  BY DEF cells, MainJson, MainTakeForJson, MainJsonDone, MainViewConfig, MainSaveConfig,
     MainConfigUnchanged, MainConfigChanged, MainTakeToDisable, MainDisable, MainBegin,
     MainTakeToEnable, MainEnable, MainAccept, MainAcceptTimeout, MainNextBlock,
     MainTraversalDone, MainSkipRegister, MainAcceptDone
<1>2. mPc' \notin {"sent", "load", "or"}
  BY DEF MainJson, MainTakeForJson, MainJsonDone, MainViewConfig, MainSaveConfig,
     MainConfigUnchanged, MainConfigChanged, MainTakeToDisable, MainDisable, MainBegin,
     MainTakeToEnable, MainEnable, MainAccept, MainAcceptTimeout, MainNextBlock,
     MainTraversalDone, MainSkipRegister, MainAcceptDone
<1> QED
  BY <1>1, <1>2 DEF MainQuiet

\* Neither main nor the clock moves regman; its mark stays outstanding.
LEMMA TrackedKept ==
  ASSUME NEW a \in Addresses, Tracked(a), UNCHANGED rmVars, value'[a] = value[a],
         handed'[a] = handed[a],
         "VALUE_UPDATED" \in flags[a] => "VALUE_UPDATED" \in flags'[a]
  PROVE  Tracked(a)'
BY DEF Tracked, rmVars, rmPos, RmAddress

\* main hands over the value it finds and confirms that very value; a request
\* marks the register it is about, and leaves the others alone.
LEMMA UpdateMainStep ==
  ASSUME TypeOK, RequestInv, UpdateInv, MainStep
  PROVE  UpdateInv'
<1>1. /\ VisitedAddress \in Addresses /\ mAddr \in Addresses
      /\ mReturn \in {"loop", "sent"}
      /\ value \in [Addresses -> Values \cup {NoValue}]
      /\ handed \in [Addresses -> Values \cup {NoValue}]
      /\ flags \in [Addresses -> SUBSET Flags]
      /\ requests \in [Addresses -> Seq(Values)]
  BY MainCursor DEF TypeOK, CellsTypeOK, MainTypeOK, HistoryTypeOK
<1>2. ASSUME NEW a \in Addresses, requests[a] = <<>> PROVE Tracked(a)
  BY <1>2 DEF UpdateInv, UnrequestedUpdatesTracked
<1>3. ASSUME NEW b \in Addresses, NEW v \in Values, MainRequest(b, v) PROVE UpdateInv'
  <2>1. /\ UNCHANGED <<value, flags, handed, mBlock, mIdx, rmVars>>
        /\ mPc \in {"loop", "sent"} /\ mPc' = "load" /\ mReturn' = mPc
        /\ requests' = [requests EXCEPT ![b] = Append(requests[b], v)]
    BY <1>3 DEF MainRequest, MainKeeps, visitVars
  <2>2. SentValueIsCurrent' /\ RequestKeepsUpdate'
    BY <2>1 DEF UpdateInv, SentValueIsCurrent, RequestKeepsUpdate, RequestPlaces, VisitedAddress
  <2>3. ASSUME NEW a \in Addresses, requests'[a] = <<>> PROVE Tracked(a)'
    <3>1. requests[a] = <<>>
      <4>1. CASE a = b
        <5>1. requests[b] \in Seq(Values) /\ requests'[b] = Append(requests[b], v)
          BY <1>1, <2>1
        <5>2. Len(requests'[b]) > 0
          BY <5>1
        <5> QED
          BY <2>3, <4>1, <5>2
      <4>2. CASE a # b
        BY <1>1, <2>1, <2>3, <4>2
      <4> QED
        BY <4>1, <4>2
    <3> QED
      BY <1>2, <2>1, <3>1, TrackedKept
  <2> QED
    BY <2>2, <2>3 DEF UpdateInv, UnrequestedUpdatesTracked
<1>4. CASE MainLoadFlags
  <2>1. /\ UNCHANGED <<value, flags, handed, requests, mReturn, mAddr, mBlock, mIdx, rmVars>>
        /\ mPc = "load" /\ mPc' = "or" /\ mFlags' = flags[mAddr]
    BY <1>4 DEF MainLoadFlags, MainKeeps, cells, visitVars
  <2>2. SentValueIsCurrent'
    BY <2>1 DEF UpdateInv, SentValueIsCurrent, RequestPlaces, VisitedAddress
  <2>3. RequestKeepsUpdate'
    BY <2>1 DEF UpdateInv, SentValueIsCurrent, RequestKeepsUpdate, RequestPlaces, VisitedAddress
  <2>4. UnrequestedUpdatesTracked'
    BY <1>2, <2>1, TrackedKept DEF UnrequestedUpdatesTracked
  <2> QED
    BY <2>2, <2>3, <2>4 DEF UpdateInv
<1>5. CASE MainSetPending
  <2>1. /\ UNCHANGED <<value, handed, requests, mBlock, mIdx, rmVars>>
        /\ mPc = "or" /\ mPc' = mReturn /\ mReturn' = "loop"
        /\ flags' = [flags EXCEPT ![mAddr] = mFlags \cup {"PENDING_WRITE"}]
    BY <1>5 DEF MainSetPending, MainKeeps, visitVars
  <2>2. ASSUME NEW a \in Addresses, a # mAddr PROVE flags'[a] = flags[a]
    BY <1>1, <2>1, <2>2
  <2>3. flags'[mAddr] = mFlags \cup {"PENDING_WRITE"}
    BY <1>1, <2>1
  <2>4. SentValueIsCurrent'
    <3> SUFFICES ASSUME mPc' = "sent"
                 PROVE  /\ handed[VisitedAddress] = value[VisitedAddress]
                        /\ "VALUE_UPDATED" \in flags'[VisitedAddress]
      BY <1>1, <2>1 DEF SentValueIsCurrent, RequestPlaces, VisitedAddress
    <3>1. mPc = "or" /\ mReturn = "sent"
      BY <2>1
    <3>2. /\ handed[VisitedAddress] = value[VisitedAddress]
          /\ "VALUE_UPDATED" \in flags[VisitedAddress]
      BY <3>1 DEF UpdateInv, SentValueIsCurrent, RequestPlaces
    <3>3. CASE mAddr = VisitedAddress
      BY <2>3, <3>1, <3>2, <3>3 DEF UpdateInv, RequestKeepsUpdate
    <3>4. CASE mAddr # VisitedAddress
      BY <1>1, <2>2, <3>2, <3>4
    <3> QED
      BY <3>3, <3>4
  <2>5. RequestKeepsUpdate'
    BY <1>1, <2>1 DEF RequestKeepsUpdate
  <2>6. ASSUME NEW a \in Addresses, requests[a] = <<>> PROVE Tracked(a)'
    <3>1. a # mAddr
      BY <2>1, <2>6 DEF RequestInv, RequestPlaces
    <3> QED
      BY <1>2, <2>1, <2>2, <2>6, <3>1, TrackedKept
  <2> QED
    BY <2>1, <2>4, <2>5, <2>6 DEF UpdateInv, UnrequestedUpdatesTracked
<1>6. CASE MainSend
  <2>1. /\ UNCHANGED <<value, flags, requests, mBlock, mIdx, rmVars>>
        /\ mPc' = "sent" /\ "VALUE_UPDATED" \in flags[VisitedAddress]
        /\ handed' = [handed EXCEPT ![VisitedAddress] = value[VisitedAddress]]
    BY <1>6 DEF MainSend, MainKeeps, cells, visitVars
  <2>2. VisitedAddress' = VisitedAddress
    BY <2>1 DEF VisitedAddress
  <2>3. SentValueIsCurrent' /\ RequestKeepsUpdate'
    BY <1>1, <2>1, <2>2 DEF SentValueIsCurrent, RequestKeepsUpdate
  <2>4. ASSUME NEW a \in Addresses, requests[a] = <<>> PROVE Tracked(a)'
    <3>1. CASE a = VisitedAddress
      BY <1>1, <2>1, <3>1 DEF Tracked
    <3>2. CASE a # VisitedAddress
      BY <1>1, <1>2, <2>1, <2>4, <3>2, TrackedKept
    <3> QED
      BY <3>1, <3>2
  <2> QED
    BY <2>1, <2>3, <2>4 DEF UpdateInv, UnrequestedUpdatesTracked
<1>7. CASE MainConfirm
  <2>1. /\ UNCHANGED <<value, handed, requests, rmVars>>
        /\ mPc = "sent" /\ mPc' \in {"visit", "next", "end"}
        /\ flags' = [flags EXCEPT ![VisitedAddress] = flags[VisitedAddress] \ {"VALUE_UPDATED"}]
    BY <1>7 DEF MainConfirm, MainKeeps, NextVisit
  <2>2. SentValueIsCurrent' /\ RequestKeepsUpdate'
    BY <2>1 DEF SentValueIsCurrent, RequestKeepsUpdate, RequestPlaces
  <2>3. ASSUME NEW a \in Addresses, requests[a] = <<>> PROVE Tracked(a)'
    <3>1. CASE a = VisitedAddress
      BY <2>1, <3>1 DEF UpdateInv, SentValueIsCurrent, Tracked
    <3>2. CASE a # VisitedAddress
      BY <1>1, <1>2, <2>1, <2>3, <3>2, TrackedKept
    <3> QED
      BY <3>1, <3>2
  <2> QED
    BY <2>1, <2>2, <2>3 DEF UpdateInv, UnrequestedUpdatesTracked
<1>8. CASE MainQuiet
  <2>1. SentValueIsCurrent' /\ RequestKeepsUpdate'
    BY <1>8 DEF MainQuiet, SentValueIsCurrent, RequestKeepsUpdate, RequestPlaces
  <2>2. UnrequestedUpdatesTracked'
    BY <1>2, <1>8, TrackedKept DEF MainQuiet, UnrequestedUpdatesTracked
  <2> QED
    BY <2>1, <2>2 DEF UpdateInv
<1> QED
  BY <1>3, <1>4, <1>5, <1>6, <1>7, <1>8, MainEffects

-----------------------------------------------------------------------------
(* Updates: the theorems. *)

LEMMA UpdateInit == Init => UpdateInv
BY DEF Init, UpdateInv, SentValueIsCurrent, RequestKeepsUpdate, RequestPlaces,
       UnrequestedUpdatesTracked, Tracked

LEMMA UpdateStep == TypeOK /\ LockInv /\ RequestInv /\ UpdateInv /\ [Next]_vars => UpdateInv'
<1> SUFFICES ASSUME TypeOK, LockInv, RequestInv, UpdateInv, [Next]_vars PROVE UpdateInv'
  OBVIOUS
<1>1. CASE UNCHANGED vars \/ \E b \in Blocks : IntervalPasses(b)
  <2>1. /\ UNCHANGED <<value, flags, handed, requests, rmVars, mPc, mReturn, mAddr, mFlags>>
        /\ UNCHANGED <<mBlock, mIdx>>
    BY <1>1 DEF vars, IntervalPasses, cells, mainVars, requestVars, visitVars, history
  <2>2. SentValueIsCurrent' /\ RequestKeepsUpdate'
    BY <2>1, SentKept DEF UpdateInv
  <2>3. UnrequestedUpdatesTracked'
    BY <2>1, TrackedKept DEF UpdateInv, UnrequestedUpdatesTracked
  <2> QED
    BY <2>2, <2>3 DEF UpdateInv
<1> QED
  BY <1>1, UpdateRmStep, UpdateMainStep DEF Next

LEMMA UpdateInvariant == Spec => []UpdateInv
BY UpdateInit, UpdateStep, TypeCorrect, LockInvariant, RequestInvariant, PTL DEF Spec

\* While a message is being sent the cache holds the value that was handed over,
\* so that confirmUpdate() acknowledges just that value.
THEOREM SentIsCurrent == Spec => []SentValueIsCurrent
<1>1. UpdateInv => SentValueIsCurrent
  BY DEF UpdateInv
<1> QED
  BY <1>1, UpdateInvariant, PTL

\* No new value of a register that was never asked to change is lost to MQTT,
\* whatever requests for other registers do to their flag bytes.
THEOREM UpdatesAreTracked == Spec => []UnrequestedUpdatesTracked
<1>1. UpdateInv => UnrequestedUpdatesTracked
  BY DEF UpdateInv
<1> QED
  BY <1>1, UpdateInvariant, PTL

-----------------------------------------------------------------------------
(* The passes: RegisterManager implements UpdateExport.  First the registers *)
(* as UpdateExport names them.                                               *)

LEMMA RegisterPlace ==
  ASSUME NEW b \in Blocks, NEW j \in 0 .. Len_[b] - 1
  PROVE  <<b, j>> \in Registers /\ AddressOf(<<b, j>>) = Start[b] + j + 1
BY DEF Registers, AddressOf

LEMMA RegisterParts ==
  ASSUME NEW r \in Registers
  PROVE  r[1] \in Blocks /\ r[2] \in 0 .. Len_[r[1]] - 1 /\ r = <<r[1], r[2]>>
<1>1. PICK b \in Blocks : r \in {b} \X (0 .. Len_[b] - 1)
  BY DEF Registers
<1> QED
  BY <1>1

LEMMA RegisterAddress ==
  ASSUME NEW r \in Registers
  PROVE  AddressOf(r) \in Addresses
BY RegisterParts, CursorAddress DEF AddressOf

\* The blocks are disjoint: no address is two registers.
LEMMA AddressesDiffer ==
  ASSUME NEW r \in Registers, NEW s \in Registers, AddressOf(r) = AddressOf(s)
  PROVE  r = s
<1>1. r[1] \in Blocks /\ r[2] \in 0 .. Len_[r[1]] - 1 /\ r = <<r[1], r[2]>>
  BY RegisterParts
<1>2. s[1] \in Blocks /\ s[2] \in 0 .. Len_[s[1]] - 1 /\ s = <<s[1], s[2]>>
  BY RegisterParts
<1>3. Start[r[1]] \in Nat /\ Start[s[1]] \in Nat /\ Len_[r[1]] \in Nat /\ Len_[s[1]] \in Nat
  BY <1>1, <1>2, BlocksAssumption
<1>4. Start[r[1]] + r[2] + 1 = Start[s[1]] + s[2] + 1
  BY DEF AddressOf
<1>5. r[1] = s[1]
  BY <1>1, <1>2, <1>3, <1>4, DisjointAssumption
<1>6. r[2] = s[2]
  BY <1>1, <1>2, <1>3, <1>4, <1>5
<1> QED
  BY <1>1, <1>2, <1>5, <1>6, Zenon

\* The registers the two tasks are at.
RmRegister == <<rmBlock, rmIdx>>
Visited == <<mBlock, mIdx>>

LEMMA TaskRegisters ==
  ASSUME TypeOK
  PROVE  /\ RmRegister \in Registers /\ AddressOf(RmRegister) = RmAddress
         /\ Visited \in Registers /\ AddressOf(Visited) = VisitedAddress
BY RegisterPlace DEF TypeOK, RmTypeOK, MainTypeOK, RmRegister, Visited, RmAddress,
   VisitedAddress

LEMMA PassPlaces ==
  ASSUME NEW place, NEW return
  PROVE  /\ place \in VisitPlaces => PassPlace(place, return) = place
         /\ place \in RequestPlaces /\ return = "sent" => PassPlace(place, return) = "sent"
         /\ place \in RequestPlaces /\ return = "loop" => PassPlace(place, return) = "loop"
         /\ place \notin VisitPlaces \cup RequestPlaces => PassPlace(place, return) = "loop"
BY DEF PassPlace, VisitPlaces, RequestPlaces

\* Inside a pass main holds the semaphore: regman is asleep.
LEMMA PassHolds == LockInv /\ ExportPc # "loop" => rmPc = "sleep"
<1> SUFFICES ASSUME LockInv, ExportPc # "loop" PROVE rmPc = "sleep"
  OBVIOUS
<1>1. mPc \in VisitPlaces \/ (mPc \in RequestPlaces /\ mReturn = "sent")
  BY PassPlaces DEF ExportPc, LockInv
<1> QED
  BY <1>1 DEF LockInv, SemaphoreAccounting, RmHolds, MainHolds

\* What is marked, and what the broker got, change only with the cells.
LEMMA MarkedKept ==
  ASSUME UNCHANGED <<flags, rmPc, rmPos>>
  PROVE  Marked' = Marked
BY DEF Marked, rmPos, RmAddress

LEMMA HandedKept ==
  ASSUME UNCHANGED <<value, handed>>, Marked' = Marked,
         ExportPc = "sent" <=> ExportPc' = "sent",
         ExportPc = "sent" => UNCHANGED <<mBlock, mIdx>>
  PROVE  Handed' = Handed
BY DEF Handed

-----------------------------------------------------------------------------
(* Passes: what becomes of the marks while flag bytes are read and written   *)
(* back.                                                                     *)

Has(byte) == "VALUE_UPDATED" \in byte

\* A byte that main loaded has no mark the register lacks, for only main clears marks;
\* inside a pass it has no mark less either, for regman is asleep.  A byte that regman
\* loaded has no mark less, for only regman sets marks.  Only writeable registers are
\* written back to.
MarkInv ==
    /\ mPc = "or" /\ Has(mFlags) => Has(flags[mAddr])
    /\ mPc = "or" /\ mReturn = "sent" /\ Has(flags[mAddr]) => Has(mFlags)
    /\ rmPc = "clear" /\ Has(flags[RmAddress]) => Has(rmFlags)
    /\ mPc \in RequestPlaces => mAddr \in Writeable

\* Where regman does not load or store a flag byte.
LEMMA RmQuiet ==
  ASSUME RmStep
  PROVE  \/ RmConfirm \/ RmClearPending \/ RmStoreNew \/ RmSetUpdated
         \/ UNCHANGED <<value, flags>> /\ rmPc \notin {"or", "clear"}
            /\ rmPc' \notin {"or", "clear"}
BY DEF RmStep, RmTake, RmDisabled, RmStartCommits, RmSkipRegister, RmCapture, NextCommit,
   RmWriteOk, RmWriteFail, RmSkipBlock, RmReadBlock, RmReadOk, NextPoll, NextStore,
   RmReadFail, ReadAccepted, ReadRejected, RmStoreSame, RmGive, cells

LEMMA MarkRmStep ==
  ASSUME TypeOK, LockInv, MarkInv, RmStep
  PROVE  MarkInv'
<1>1. UNCHANGED <<mPc, mReturn, mAddr, mFlags>>
  BY RmLeavesMain DEF mainVars, requestVars
<1>2. /\ RmAddress \in Addresses /\ flags \in [Addresses -> SUBSET Flags]
      /\ mAddr \in Addresses
  BY RmCursor DEF TypeOK, CellsTypeOK, MainTypeOK
<1>3. mReturn = "sent" /\ mPc = "or" => rmPc = "sleep"
  BY SendingHolds DEF Sending, RequestPlaces
<1>4. CASE RmConfirm
  <2>1. UNCHANGED flags /\ RmAddress' = RmAddress /\ rmFlags' = flags[RmAddress]
    BY <1>4 DEF RmConfirm, cells, rmPos, RmAddress
  <2> QED
    BY <1>1, <2>1 DEF MarkInv
<1>5. CASE RmClearPending
  <2>1. /\ rmPc = "clear" /\ rmPc' \notin {"clear"}
        /\ flags' = [flags EXCEPT ![RmAddress] = rmFlags \ {"PENDING_WRITE"}]
    BY <1>5 DEF RmClearPending, NextCommit
  <2>2. Has(flags[mAddr]) => Has(flags'[mAddr])
    BY <1>2, <2>1 DEF MarkInv, Has
  <2> QED
    BY <1>1, <1>3, <2>1, <2>2 DEF MarkInv
<1>6. CASE RmStoreNew
  BY <1>1, <1>6 DEF RmStoreNew, MarkInv
<1>7. CASE RmSetUpdated
  <2>1. /\ rmPc = "or" /\ rmPc' \notin {"clear"}
        /\ flags' = [flags EXCEPT ![RmAddress] = rmFlags \cup {"VALUE_UPDATED"}]
    BY <1>7 DEF RmSetUpdated, NextStore, NextPoll
  <2>2. Has(flags[mAddr]) => Has(flags'[mAddr])
    BY <1>2, <2>1 DEF Has
  <2> QED
    BY <1>1, <1>3, <2>1, <2>2 DEF MarkInv
<1>8. CASE UNCHANGED <<value, flags>> /\ rmPc' \notin {"or", "clear"}
  BY <1>1, <1>8 DEF MarkInv
<1> QED
  BY <1>4, <1>5, <1>6, <1>7, <1>8, RmQuiet

LEMMA MarkMainStep ==
  ASSUME TypeOK, LockInv, MarkInv, MainStep
  PROVE  MarkInv'
<1>1. /\ VisitedAddress \in Addresses /\ mAddr \in Addresses
      /\ mReturn \in {"loop", "sent"} /\ flags \in [Addresses -> SUBSET Flags]
  BY MainCursor DEF TypeOK, CellsTypeOK, MainTypeOK
<1>2. UNCHANGED <<rmPc, rmFlags, RmAddress>>
  BY MainLeavesRm DEF rmVars, rmLocals
<1>3. ASSUME NEW a \in Addresses, NEW v \in Values, MainRequest(a, v) PROVE MarkInv'
  <2>1. UNCHANGED flags /\ mPc' = "load" /\ mAddr' = a /\ a \in Writeable
    BY <1>3 DEF MainRequest
  <2> QED
    BY <1>2, <2>1 DEF MarkInv
<1>4. CASE MainLoadFlags
  <2>1. UNCHANGED <<flags, mAddr>> /\ mFlags' = flags[mAddr] /\ mPc = "load"
    BY <1>4 DEF MainLoadFlags, cells
  <2> QED
    BY <1>2, <2>1 DEF MarkInv, RequestPlaces
<1>5. CASE MainSetPending
  <2>1. /\ mPc = "or" /\ mPc' \in {"loop", "sent"}
        /\ flags' = [flags EXCEPT ![mAddr] = mFlags \cup {"PENDING_WRITE"}]
    BY <1>1, <1>5 DEF MainSetPending
  <2>2. Has(flags'[RmAddress]) => Has(flags[RmAddress])
    BY <1>1, <2>1 DEF MarkInv, Has
  <2> QED
    BY <1>2, <2>1, <2>2 DEF MarkInv, RequestPlaces
<1>6. CASE MainSend
  BY <1>2, <1>6 DEF MainSend, cells, MarkInv, RequestPlaces
<1>7. CASE MainConfirm
  <2>1. mPc = "sent" /\ mPc' \in {"visit", "next", "end"}
    BY <1>7 DEF MainConfirm, NextVisit
  <2>2. rmPc = "sleep"
    BY <2>1, SendingHolds DEF Sending
  <2> QED
    BY <1>2, <2>1, <2>2 DEF MarkInv, RequestPlaces
<1>8. CASE MainQuiet
  <2>1. UNCHANGED flags /\ mPc' # "or"
    BY <1>8 DEF MainQuiet
  <2>2. mPc' \notin RequestPlaces
    BY <1>8 DEF MainQuiet, RequestPlaces
  <2> QED
    BY <1>2, <2>1, <2>2 DEF MarkInv
<1> QED
  BY <1>3, <1>4, <1>5, <1>6, <1>7, <1>8, MainEffects

-----------------------------------------------------------------------------
(* Passes: the steps of regman are new values, or nothing.                   *)

LEMMA MarkedStep ==
  ASSUME NEW r \in Registers,
         \A s \in Registers : s # r => (s \in Marked' <=> s \in Marked),
         \A s \in Registers : s # r => UNCHANGED <<value[AddressOf(s)], handed[AddressOf(s)]>>,
         ExportPc = "loop", ExportPc' = "loop", r \in Marked'
  PROVE  Marked' = Marked \cup {r} /\ Handed' = Handed \ {r}
<1>1. Marked' = Marked \cup {r}
  BY DEF Marked
<1>2. r \notin Handed'
  BY DEF Handed
<1>3. \A s \in Registers : s # r => (s \in Handed' <=> s \in Handed)
  BY DEF Handed
<1>4. Handed \subseteq Registers /\ Handed' \subseteq Registers
  BY DEF Handed
<1> QED
  BY <1>1, <1>2, <1>3, <1>4

LEMMA ExportStutters ==
  ASSUME Marked' = Marked, Handed' = Handed, ExportPc' = ExportPc, UNCHANGED visitVars
  PROVE  UNCHANGED Export!vars
BY DEF Export!vars, Export!Here, Export!visitor, visitVars

\* A new mark, or one that main had overwritten and that is in the byte regman stores.
LEMMA ExportNewValue ==
  ASSUME NEW r \in Registers, Marked' = Marked \cup {r}, Handed' = Handed \ {r},
         ExportPc = "loop", ExportPc' = "loop", UNCHANGED visitVars
  PROVE  Export!Next
<1>1. r \in Export!Registers
  BY DEF Registers, Export!Registers, Blocks, Export!Blocks
<1>2. Export!NewValue(r)
  BY DEF Export!NewValue, Export!Here, Export!visitor, visitVars
<1> QED
  BY <1>1, <1>2 DEF Export!Next

LEMMA ExportRmStep ==
  ASSUME TypeOK, LockInv, MarkInv, RmStep
  PROVE  [Export!Next]_(Export!vars)
<1>1. UNCHANGED <<mPc, mReturn, visitVars, handed>> /\ ExportPc' = ExportPc
  BY RmLeavesMain, RmLeavesHistory DEF mainVars, requestVars, ExportPc
<1>2. /\ RmAddress \in Addresses /\ RmRegister \in Registers
      /\ AddressOf(RmRegister) = RmAddress
      /\ flags \in [Addresses -> SUBSET Flags]
      /\ value \in [Addresses -> Values \cup {NoValue}]
      /\ \A r \in Registers : AddressOf(r) \in Addresses
      /\ \A r \in Registers : AddressOf(r) = RmAddress => r = RmRegister
  BY RmCursor, TaskRegisters, RegisterAddress, AddressesDiffer DEF TypeOK, CellsTypeOK
<1>3. CASE RmConfirm
  <2>1. UNCHANGED <<value, flags, rmPos>> /\ rmPc = "confirm" /\ rmPc' = "clear"
    BY <1>3 DEF RmConfirm, cells
  <2>2. Marked' = Marked
    BY <2>1 DEF Marked
  <2> QED
    BY <1>1, <2>1, <2>2, HandedKept, ExportStutters DEF visitVars
<1>4. CASE RmClearPending
  <2>1. /\ rmPc = "clear" /\ rmPc' # "or" /\ UNCHANGED value
        /\ flags' = [flags EXCEPT ![RmAddress] = rmFlags \ {"PENDING_WRITE"}]
    BY <1>4 DEF RmClearPending, NextCommit
  <2>2. \A s \in Registers : s # RmRegister => (s \in Marked' <=> s \in Marked)
    BY <1>2, <2>1 DEF Marked
  <2>3. RmRegister \in Marked => RmRegister \in Marked'
    BY <1>2, <2>1 DEF Marked, MarkInv, Has
  <2>4. CASE RmRegister \in Marked'
    <3>1. ExportPc = "loop"
      BY <2>1, PassHolds
    <3>2. Marked' = Marked \cup {RmRegister} /\ Handed' = Handed \ {RmRegister}
      BY <1>1, <1>2, <2>1, <2>2, <2>4, <3>1, MarkedStep
    <3> QED
      BY <1>1, <1>2, <3>1, <3>2, ExportNewValue
  <2>5. CASE RmRegister \notin Marked'
    <3>1. Marked' = Marked
      BY <2>2, <2>3, <2>5 DEF Marked
    <3> QED
      BY <1>1, <2>1, <3>1, HandedKept, ExportStutters DEF visitVars
  <2> QED
    BY <2>4, <2>5
<1>5. CASE RmStoreNew
  <2>1. /\ rmPc = "store" /\ rmPc' = "or" /\ UNCHANGED <<flags, rmPos>>
        /\ \E update : value' = [value EXCEPT ![RmAddress] = update]
    BY <1>5 DEF RmStoreNew
  <2>2. RmAddress' = RmAddress
    BY <2>1 DEF RmAddress, rmPos
  <2>3. RmRegister \in Marked'
    BY <1>2, <2>1, <2>2 DEF Marked
  <2>4. \A s \in Registers : s # RmRegister => (s \in Marked' <=> s \in Marked)
    BY <1>2, <2>1, <2>2 DEF Marked
  <2>5. \A s \in Registers : s # RmRegister => UNCHANGED value[AddressOf(s)]
    BY <1>2, <2>1
  <2>6. ExportPc = "loop"
    BY <2>1, PassHolds
  <2>7. Marked' = Marked \cup {RmRegister} /\ Handed' = Handed \ {RmRegister}
    BY <1>1, <1>2, <2>3, <2>4, <2>5, <2>6, MarkedStep
  <2> QED
    BY <1>1, <1>2, <2>6, <2>7, ExportNewValue
<1>6. CASE RmSetUpdated
  <2>1. /\ rmPc = "or" /\ rmPc' # "or" /\ UNCHANGED value
        /\ flags' = [flags EXCEPT ![RmAddress] = rmFlags \cup {"VALUE_UPDATED"}]
    BY <1>6 DEF RmSetUpdated, NextStore, NextPoll
  <2>2. \A s \in Registers : s \in Marked' <=> s \in Marked
    BY <1>2, <2>1 DEF Marked
  <2>3. Marked' = Marked
    BY <2>2 DEF Marked
  <2> QED
    BY <1>1, <2>1, <2>3, HandedKept, ExportStutters DEF visitVars
<1>7. CASE UNCHANGED <<value, flags>> /\ rmPc \notin {"or", "clear"} /\ rmPc' \notin {"or", "clear"}
  <2>1. Marked' = Marked
    BY <1>7 DEF Marked
  <2> QED
    BY <1>1, <1>7, <2>1, HandedKept, ExportStutters DEF visitVars
<1> QED
  BY <1>3, <1>4, <1>5, <1>6, <1>7, RmQuiet

-----------------------------------------------------------------------------
(* Passes: the steps of main are those of UpdateExport.                      *)

\* Outside of the passes main does nothing to them.
OutsidePass ==
    /\ UNCHANGED <<value, flags, handed, visitVars>>
    /\ mPc \notin VisitPlaces \cup RequestPlaces
    /\ mPc' \notin VisitPlaces \cup RequestPlaces

LEMMA MainPlacesOf ==
  ASSUME MainStep
  PROVE  \/ \E a \in Addresses, v \in Values : MainRequest(a, v)
         \/ MainLoadFlags \/ MainSetPending
         \/ MainAccept \/ MainNextBlock \/ MainTraversalDone
         \/ MainSkipRegister \/ MainSend \/ MainConfirm \/ MainAcceptDone
         \/ OutsidePass
<1> SUFFICES ASSUME ~ \E a \in Addresses, v \in Values : MainRequest(a, v),
                    ~MainLoadFlags, ~MainSetPending, ~MainAccept, ~MainNextBlock,
                    ~MainTraversalDone, ~MainSkipRegister, ~MainSend, ~MainConfirm,
                    ~MainAcceptDone
             PROVE  OutsidePass
  OBVIOUS
<1> USE DEF MainStep, MoveMain, MainJson, MainTakeForJson, MainJsonDone, MainViewConfig,
     MainSaveConfig, MainConfigUnchanged, MainConfigChanged, MainTakeToDisable, MainDisable,
     MainBegin, MainTakeToEnable, MainEnable, MainAcceptTimeout
<1>1. UNCHANGED <<value, flags, handed, visitVars>>
  BY DEF CacheUntouched, cells
<1>2. mPc \notin VisitPlaces \cup RequestPlaces /\ mPc' \notin VisitPlaces \cup RequestPlaces
  BY DEF VisitPlaces, RequestPlaces
<1> QED
  BY <1>1, <1>2 DEF OutsidePass

\* What a place of main is to UpdateExport, before a step and after it.
LEMMA ExportPlaces ==
  ASSUME mReturn \in {"loop", "sent"}, mReturn' \in {"loop", "sent"}
  PROVE  /\ mPc \in VisitPlaces => ExportPc = mPc
         /\ mPc \in RequestPlaces => ExportPc = mReturn
         /\ mPc \notin VisitPlaces \cup RequestPlaces => ExportPc = "loop"
         /\ mPc' \in VisitPlaces => ExportPc' = mPc'
         /\ mPc' \in RequestPlaces => ExportPc' = mReturn'
         /\ mPc' \notin VisitPlaces \cup RequestPlaces => ExportPc' = "loop"
BY PassPlaces DEF ExportPc

\* The next block, counted round.
LEMMA NextIndex ==
  ASSUME NEW n \in 0 .. NBlocks - 1
  PROVE  (n + 1) % NBlocks = IF n + 1 < NBlocks THEN n + 1 ELSE 0
<1>1. CASE n + 1 < NBlocks
  BY <1>1, BlocksAssumption
<1>2. CASE n + 1 = NBlocks
  BY <1>2, BlocksAssumption
<1> QED
  BY <1>1, <1>2, BlocksAssumption

\* A request moves main within its place, and may overwrite the mark of its register.
LEMMA ExportSetPending ==
  ASSUME TypeOK, LockInv, MarkInv, MainSetPending
  PROVE  [Export!Next]_(Export!vars)
<1>1. /\ mPc = "or" /\ mPc' = mReturn /\ mReturn' = "loop"
      /\ UNCHANGED <<value, handed, visitVars, rmPc, RmAddress>>
      /\ flags' = [flags EXCEPT ![mAddr] = mFlags \cup {"PENDING_WRITE"}]
  BY MainLeavesRm DEF MainSetPending, rmVars, MainStep
<1>2. /\ flags \in [Addresses -> SUBSET Flags] /\ mAddr \in Addresses
      /\ mReturn \in {"loop", "sent"} /\ mAddr \in Writeable
      /\ \A r \in Registers : AddressOf(r) \in Addresses
  BY <1>1, RegisterAddress DEF TypeOK, CellsTypeOK, MainTypeOK, MarkInv, RequestPlaces
<1>3. ExportPc = mReturn /\ ExportPc' = mReturn
  BY <1>1, <1>2, ExportPlaces DEF VisitPlaces, RequestPlaces
<1>4. CASE Marked' = Marked
  BY <1>1, <1>3, <1>4, HandedKept, ExportStutters DEF visitVars
<1>5. CASE Marked' # Marked
  <2>1. PICK r \in Registers : ~(r \in Marked' <=> r \in Marked)
    BY <1>5 DEF Marked
  <2>2. AddressOf(r) = mAddr
    BY <1>1, <1>2, <2>1 DEF Marked
  <2>3. r \in Marked /\ r \notin Marked' /\ Has(flags[mAddr]) /\ ~Has(mFlags)
    BY <1>1, <1>2, <2>1, <2>2 DEF Marked, MarkInv, Has
  <2>4. mReturn = "loop"
    BY <1>1, <1>2, <2>3 DEF MarkInv
  <2>5. \A s \in Registers : s # r => AddressOf(s) # mAddr
    BY <2>2, AddressesDiffer
  <2>6. \A s \in Registers : s # r => (s \in Marked' <=> s \in Marked)
    BY <1>1, <1>2, <2>5 DEF Marked
  <2>7. Marked' = Marked \ {r}
    BY <2>3, <2>6 DEF Marked
  <2>8. \A s \in Registers : s # r => (s \in Handed' <=> s \in Handed)
    BY <1>1, <1>3, <2>4, <2>6 DEF Handed
  <2>9. r \notin Handed
    BY <1>3, <2>3, <2>4 DEF Handed
  <2>10. Handed' \in {Handed, Handed \cup {r}}
    <3>1. Handed \subseteq Registers /\ Handed' \subseteq Registers
      BY DEF Handed
    <3>2. CASE r \in Handed'
      BY <2>8, <2>9, <3>1, <3>2
    <3>3. CASE r \notin Handed'
      BY <2>8, <2>9, <3>1, <3>3
    <3> QED
      BY <3>2, <3>3
  <2>11. Export!MarkLost(r)
    BY <1>1, <1>3, <2>3, <2>4, <2>7, <2>10
    DEF Export!MarkLost, Export!Here, Export!visitor, visitVars
  <2>12. r \in RegistersAt(Writeable)
    BY <1>2, <2>2 DEF RegistersAt
  <2> QED
    BY <2>11, <2>12 DEF Export!Next
<1> QED
  BY <1>4, <1>5

\* The steps of a pass that leave the cells alone.
LEMMA ExportTraverses ==
  ASSUME TypeOK, LockInv,
         MainAccept \/ MainNextBlock \/ MainTraversalDone \/ MainSkipRegister \/ MainAcceptDone
  PROVE  Export!Next
<1>1. MainStep /\ mReturn \in {"loop", "sent"} /\ mReturn' = mReturn
      /\ UNCHANGED <<value, flags, handed>>
  BY DEF MainStep, TypeOK, MainTypeOK, MainAccept, MainNextBlock, MainTraversalDone,
     MainSkipRegister, MainAcceptDone, CacheUntouched, requestVars, cells
<1>2. Marked' = Marked
  BY <1>1, MainLeavesRm, MarkedKept DEF rmVars
<1>3. mPc \notin {"sent"} \cup RequestPlaces /\ mPc' \notin {"sent"} \cup RequestPlaces
  BY DEF MainAccept, MainNextBlock, MainTraversalDone, MainSkipRegister, MainAcceptDone,
     MoveMain, NextVisit, RequestPlaces
<1>4. /\ ExportPc = IF mPc \in VisitPlaces THEN mPc ELSE "loop"
      /\ ExportPc' = IF mPc' \in VisitPlaces THEN mPc' ELSE "loop"
  BY <1>1, <1>3, ExportPlaces
<1>5. Handed' = Handed
  <2>1. ExportPc # "sent" /\ ExportPc' # "sent"
    BY <1>3, <1>4
  <2> QED
    BY <1>1, <1>2, <2>1, HandedKept
<1> USE DEF VisitPlaces, MoveMain
<1>6. CASE MainAccept
  <2>1. Export!Accept
    BY <1>2, <1>4, <1>5, <1>6
    DEF MainAccept, visitVars, Export!Accept, Export!Here, Export!visitor
  <2> QED
    BY <2>1 DEF Export!Next, Export!Pass
<1>7. CASE MainNextBlock
  <2>1. vIndex' = (vIndex + 1) % NBlocks
    BY <1>7, NextIndex DEF MainNextBlock, TypeOK, MainTypeOK
  <2>2. Export!NextBlock
    BY <1>2, <1>4, <1>5, <1>7, <2>1 DEF MainNextBlock, Export!NextBlock
  <2> QED
    BY <2>2 DEF Export!Next, Export!Pass
<1>8. CASE MainTraversalDone
  <2>1. Export!AllVisited
    BY <1>2, <1>4, <1>5, <1>8
    DEF MainTraversalDone, visitVars, Export!AllVisited, Export!Here, Export!visitor
  <2> QED
    BY <2>1 DEF Export!Next, Export!Pass
<1>9. CASE MainSkipRegister
  <2>1. rmPc = "sleep" /\ ExportPc = "visit"
    BY <1>4, <1>9, PassHolds DEF MainSkipRegister
  <2>2. Visited \in Registers /\ AddressOf(Visited) = VisitedAddress
    BY TaskRegisters
  <2>3. Visited \in Marked => Visited \in RegistersAt(Throttled)
    BY <1>9, <2>1, <2>2 DEF MainSkipRegister, Marked, RegistersAt
  <2>4. Export!NextRegister
    BY <1>4, <1>9 DEF MainSkipRegister, NextVisit, Export!NextRegister
  <2>5. Export!Skip
    BY <1>2, <1>5, <1>9, <2>1, <2>3, <2>4
    DEF MainSkipRegister, Visited, Export!Skip, Export!Here, Export!visitor
  <2> QED
    BY <2>5 DEF Export!Next, Export!Pass
<1>10. CASE MainAcceptDone
  <2>1. Export!Done
    BY <1>2, <1>4, <1>5, <1>10 DEF MainAcceptDone, Export!Done
  <2> QED
    BY <2>1 DEF Export!Next, Export!Pass
<1> QED
  BY <1>6, <1>7, <1>8, <1>9, <1>10

\* What is handed over is the value there is, and the broker gets it.
LEMMA ExportSend ==
  ASSUME TypeOK, LockInv, MainSend
  PROVE  Export!Next
<1>1. /\ mPc = "visit" /\ mPc' = "sent" /\ "VALUE_UPDATED" \in flags[VisitedAddress]
      /\ UNCHANGED <<flags, value, visitVars, mReturn>> /\ mReturn \in {"loop", "sent"}
      /\ handed' = [handed EXCEPT ![VisitedAddress] = value[VisitedAddress]]
  BY DEF MainSend, cells, requestVars, TypeOK, MainTypeOK
<1>2. Marked' = Marked
  BY <1>1, MainLeavesRm, MarkedKept DEF rmVars, MainStep
<1>3. ExportPc = "visit" /\ ExportPc' = "sent"
  BY <1>1, ExportPlaces DEF VisitPlaces
<1>4. /\ Visited \in Registers /\ AddressOf(Visited) = VisitedAddress
      /\ handed \in [Addresses -> Values \cup {NoValue}]
      /\ \A s \in Registers : AddressOf(s) \in Addresses
      /\ \A s \in Registers : s # Visited => AddressOf(s) # VisitedAddress
  BY TaskRegisters, RegisterAddress, AddressesDiffer DEF TypeOK, HistoryTypeOK
<1>5. Visited \in Marked
  BY <1>1, <1>4 DEF Marked
<1>6. Visited \in Handed'
  <2>1. handed'[AddressOf(Visited)] = value[AddressOf(Visited)]
    BY <1>1, <1>4
  <2> QED
    BY <1>1, <1>3, <1>4, <2>1 DEF Handed, Visited, visitVars
<1>7. \A s \in Registers : s # Visited => (s \in Handed' <=> s \in Handed)
  <2> SUFFICES ASSUME NEW s \in Registers, s # Visited PROVE s \in Handed' <=> s \in Handed
    OBVIOUS
  <2>1. handed'[AddressOf(s)] = handed[AddressOf(s)]
    BY <1>1, <1>4
  <2> QED
    BY <1>1, <1>2, <1>3, <2>1 DEF Handed, Visited, visitVars
<1>8. Handed' = Handed \cup {Visited}
  BY <1>4, <1>6, <1>7 DEF Handed
<1>9. Export!Send
  BY <1>1, <1>2, <1>3, <1>5, <1>8
  DEF Export!Send, Export!Here, Export!visitor, visitVars, Visited
<1> QED
  BY <1>9 DEF Export!Next, Export!Pass

\* What is confirmed is what was handed over; the limit ends the pass.
LEMMA ExportConfirm ==
  ASSUME TypeInv, LockInv, UpdateInv, MainConfirm
  PROVE  Export!Next
<1>1. /\ mPc = "sent" /\ mPc' \in {"visit", "next", "end"}
      /\ UNCHANGED <<value, handed, mBlock, mVisited, vIndex, mReturn>>
      /\ mReturn \in {"loop", "sent"}
      /\ flags' = [flags EXCEPT ![VisitedAddress] = flags[VisitedAddress] \ {"VALUE_UPDATED"}]
  BY DEF MainConfirm, NextVisit, requestVars, TypeInv, TypeOK, MainTypeOK
<1>2. ExportPc = "sent" /\ ExportPc' = mPc'
  BY <1>1, ExportPlaces DEF VisitPlaces
<1>3. UNCHANGED <<rmPc, rmPos>> /\ rmPc = "sleep"
  BY <1>2, PassHolds, MainLeavesRm DEF rmVars, MainStep
<1>4. /\ Visited \in Registers /\ AddressOf(Visited) = VisitedAddress
      /\ VisitedAddress \in Addresses /\ flags \in [Addresses -> SUBSET Flags]
      /\ \A s \in Registers : AddressOf(s) \in Addresses
      /\ \A s \in Registers : s # Visited => AddressOf(s) # VisitedAddress
  BY TaskRegisters, RegisterAddress, AddressesDiffer DEF TypeInv, TypeOK, CellsTypeOK
<1>5. Marked' = Marked \ {Visited}
  <2>1. Visited \notin Marked'
    BY <1>1, <1>3, <1>4 DEF Marked
  <2>2. \A s \in Registers : s # Visited => (s \in Marked' <=> s \in Marked)
    BY <1>1, <1>3, <1>4 DEF Marked
  <2> QED
    BY <2>1, <2>2 DEF Marked
<1>6. Handed' = Handed
  <2>1. handed[VisitedAddress] = value[VisitedAddress]
    BY <1>1 DEF UpdateInv, SentValueIsCurrent
  <2>2. Visited \in Handed /\ Visited \in Handed'
    BY <1>1, <1>2, <1>4, <1>5, <2>1 DEF Handed, Visited
  <2>3. \A s \in Registers : s # Visited => (s \in Handed' <=> s \in Handed)
    BY <1>1, <1>2, <1>5 DEF Handed, Visited
  <2> QED
    BY <2>2, <2>3 DEF Handed
<1>7. \/ mSent + 1 < MaxMessages /\ Export!NextRegister
      \/ mSent + 1 = MaxMessages /\ mPc' = "end" /\ UNCHANGED mIdx
  <2>1. mSent \in Nat /\ mSent < MaxMessages /\ MaxMessages \in Nat /\ mSent' = mSent + 1
    BY <1>1, RegistersAssumption
    DEF MainConfirm, TypeInv, TypeOK, MainTypeOK, ExportLimit, Visiting
  <2> QED
    BY <1>2, <2>1 DEF MainConfirm, NextVisit, Export!NextRegister
<1>8. Export!Confirm
  BY <1>1, <1>2, <1>5, <1>6, <1>7 DEF MainConfirm, Export!Confirm, Export!Here, Visited
<1> QED
  BY <1>8 DEF Export!Next, Export!Pass

LEMMA ExportMainStep ==
  ASSUME TypeInv, LockInv, UpdateInv, MarkInv, MainStep
  PROVE  [Export!Next]_(Export!vars)
<1>1. TypeOK /\ mReturn \in {"loop", "sent"}
  BY DEF TypeInv, TypeOK, MainTypeOK
<1>2. ASSUME NEW a \in Addresses, NEW v \in Values, MainRequest(a, v)
      PROVE  [Export!Next]_(Export!vars)
  <2>1. /\ mPc \in {"loop", "sent"} /\ mPc' = "load" /\ mReturn' = mPc
        /\ UNCHANGED <<value, flags, handed, visitVars>>
    BY <1>2 DEF MainRequest
  <2>2. ExportPc = mPc /\ ExportPc' = mPc
    BY <1>1, <2>1, ExportPlaces DEF VisitPlaces, RequestPlaces
  <2>3. Marked' = Marked
    BY <2>1, MainLeavesRm, MarkedKept DEF rmVars
  <2> QED
    BY <2>1, <2>2, <2>3, HandedKept, ExportStutters DEF visitVars
<1>3. CASE MainLoadFlags
  <2>1. /\ mPc = "load" /\ mPc' = "or" /\ mReturn' = mReturn
        /\ UNCHANGED <<value, flags, handed, visitVars>>
    BY <1>3 DEF MainLoadFlags, cells
  <2>2. ExportPc' = ExportPc
    BY <1>1, <2>1, ExportPlaces DEF RequestPlaces
  <2>3. Marked' = Marked
    BY <2>1, MainLeavesRm, MarkedKept DEF rmVars
  <2> QED
    BY <2>1, <2>2, <2>3, HandedKept, ExportStutters DEF visitVars
<1>4. CASE OutsidePass
  <2>1. ExportPc = "loop" /\ ExportPc' = "loop"
    BY <1>4, PassPlaces DEF OutsidePass, ExportPc
  <2>2. Marked' = Marked
    BY <1>4, MainLeavesRm, MarkedKept DEF OutsidePass, rmVars
  <2> QED
    BY <1>4, <2>1, <2>2, HandedKept, ExportStutters DEF OutsidePass
<1> QED
  BY <1>1, <1>2, <1>3, <1>4, MainPlacesOf, ExportSetPending, ExportTraverses, ExportSend,
     ExportConfirm

\* Time passes, or nothing happens.
LEMMA ExportIdle ==
  ASSUME UNCHANGED vars \/ \E b \in Blocks : IntervalPasses(b)
  PROVE  UNCHANGED Export!vars /\ (MarkInv => MarkInv')
<1>1. UNCHANGED <<cells, rmVars, mainVars, handed>>
  BY DEF vars, IntervalPasses, history
<1>2. Marked' = Marked /\ ExportPc' = ExportPc
  BY <1>1, MarkedKept DEF cells, rmVars, mainVars, requestVars, ExportPc
<1>3. UNCHANGED Export!vars
  BY <1>1, <1>2, HandedKept, ExportStutters DEF cells, mainVars, visitVars
<1>4. MarkInv => MarkInv'
  BY <1>1 DEF MarkInv, cells, rmVars, rmPos, rmLocals, mainVars, requestVars, RmAddress
<1> QED
  BY <1>3, <1>4

\* Nothing is marked, and what the broker got is all there is: nothing.
LEMMA ExportInit == Init => MarkInv /\ Export!Init
<1> SUFFICES ASSUME Init PROVE MarkInv /\ Export!Init
  OBVIOUS
<1>1. \A r \in Registers : r \notin Marked /\ r \in Handed
  BY RegisterAddress DEF Init, Marked, Handed
<1>2. Marked = {} /\ Handed = Export!Registers
  BY <1>1 DEF Marked, Handed, Registers, Export!Registers, Blocks, Export!Blocks
<1>3. ExportPc = "loop"
  BY PassPlaces DEF Init, ExportPc, VisitPlaces, RequestPlaces
<1> QED
  BY <1>2, <1>3 DEF Init, Export!Init, MarkInv, RequestPlaces

\* RegisterManager implements UpdateExport: whatever regman, the requests and the
\* reconfiguration do, a pass goes round the blocks, confirms just the values it
\* handed over and at most MaxMessages of them, and values change between passes
\* only; no mark is lost but to a request for that very register.
THEOREM PassesExport == Spec => UpdateExportSpec
<1>1. Init => MarkInv /\ Export!Init
  BY ExportInit
<1>2. TypeInv /\ LockInv /\ UpdateInv /\ MarkInv /\ [Next]_vars
      => MarkInv' /\ [Export!Next]_(Export!vars)
  <2> SUFFICES ASSUME TypeInv, LockInv, UpdateInv, MarkInv, [Next]_vars
               PROVE  MarkInv' /\ [Export!Next]_(Export!vars)
    OBVIOUS
  <2>1. TypeOK
    BY DEF TypeInv
  <2>2. CASE RmStep
    BY <2>1, <2>2, MarkRmStep, ExportRmStep
  <2>3. CASE MainStep
    BY <2>1, <2>3, MarkMainStep, ExportMainStep
  <2>4. CASE UNCHANGED vars \/ \E b \in Blocks : IntervalPasses(b)
    BY <2>4, ExportIdle
  <2> QED
    BY <2>2, <2>3, <2>4 DEF Next
<1> QED
  BY <1>1, <1>2, TypeInvariant, LockInvariant, UpdateInvariant, PTL
     DEF Spec, UpdateExportSpec, Export!Spec
=============================================================================
