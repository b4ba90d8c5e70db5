-------------------------- MODULE ConfigStoreProofs --------------------------
(***************************************************************************)
(* What ConfigStore stores, for any records and any number of forms,       *)
(* requests, resets and failed commits: the setup page brings what it was  *)
(* asked for into force or nothing, the flash keeps the promise of         *)
(* StoredConfig.tla, and what is in use is what is stored, or due to be.   *)
(***************************************************************************)
EXTENDS ConfigStore, TLAPS

-----------------------------------------------------------------------------
(* The setup page. *)

IsConfig(c) == c = [k \in Kinds |-> c[k]]

\* While the setup page's records are written and all of it went well, those
\* that are no longer left are stored.
SetupInv ==
    /\ IsConfig(stored)
    /\ task = "setup" =>
        /\ IsConfig(form)
        /\ ok => \A k \in Kinds \ left : stored[k] = form[k]

LEMMA SetupInit == Init => SetupInv
<1> SUFFICES ASSUME Init PROVE SetupInv
    OBVIOUS
<1>1. IsConfig(stored)
    <2>1. CASE version = CheckSum
        BY <2>1 DEF Init, IsConfig
    <2>2. CASE version # CheckSum
        BY <2>2 DEF Init, IsConfig
    <2> QED BY <2>1, <2>2
<1> QED BY <1>1 DEF Init, InMemoryAtReset, SetupInv

\* The steps that leave the records alone, and end in no setup.
LEMMA SetupOthers ==
    ASSUME SetupInv, UNCHANGED stored, task' # "setup"
    PROVE  SetupInv'
    BY DEF SetupInv, IsConfig

LEMMA SetupSetRecord ==
    ASSUME SetupInv, NEW k \in Kinds, SetRecord(k)
    PROVE  SetupInv'
<1>1. task' = task /\ form' = form /\ left' = left \ {k}
    BY DEF SetRecord
<1>2. CASE stored' = [stored EXCEPT ![k] = form[k]] /\ ok' = ok
    <2>1. IsConfig(stored')
        BY <1>2 DEF SetupInv, IsConfig
    <2>2. \A j \in Kinds : stored'[j] = IF j = k THEN form[k] ELSE stored[j]
        BY <1>2 DEF SetupInv, IsConfig
    <2> QED BY <1>1, <1>2, <2>1, <2>2 DEF SetupInv, IsConfig
<1>3. CASE UNCHANGED stored /\ ok' = FALSE
    BY <1>1, <1>3 DEF SetupInv, IsConfig
<1> QED BY <1>2, <1>3 DEF SetRecord, CommitFails, Fails, flash

LEMMA SetupStart ==
    ASSUME SetupInv, NEW s, NEW w, StartSetup(s, w)
    PROVE  SetupInv'
<1>1. IsConfig(stored')
    <2>1. CASE stored' = [k \in Kinds |-> IF k \in Cleared THEN Unset ELSE stored[k]]
        BY <2>1 DEF IsConfig
    <2>2. CASE UNCHANGED stored
        BY <2>2 DEF SetupInv, IsConfig
    <2> QED BY <2>1, <2>2 DEF StartSetup, clear, Fails, flash
<1>2. IsConfig(form') /\ left' = Kinds
    BY DEF StartSetup, IsConfig
<1> QED BY <1>1, <1>2 DEF SetupInv

LEMMA SetupStep ==
    ASSUME SetupInv, [Next]_vars
    PROVE  SetupInv'
<1>1. CASE Boot \/ StartConversion
    BY <1>1, SetupOthers DEF Boot, ReadAtBoot, StartConversion, flash
<1>2. ASSUME NEW f \in Forms, StartSave(f)
      PROVE  SetupInv'
    BY <1>2, SetupOthers DEF StartSave, Requested, flash
<1>3. ASSUME NEW s \in Values["system"], NEW w \in Values["wifi"], StartSetup(s, w)
      PROVE  SetupInv'
    BY <1>3, SetupStart
<1>4. ASSUME NEW k \in Kinds, SetRecord(k)
      PROVE  SetupInv'
    BY <1>4, SetupSetRecord
<1>5. CASE EndSave \/ EndSetup \/ EndConversion
    <2>1. UNCHANGED stored /\ task' = "loop"
        BY <1>5 DEF EndSave, EndSetup, EndConversion, Save, CommitFails, Fails, ReadAtBoot, flash
    <2> QED BY <2>1, SetupOthers
<1>6. CASE Take
    <2>1. UNCHANGED stored /\ task' = "loop"
        BY <1>6
        DEF Take, TakeSystem, TakeNtp, TakeMqtt, TakeWifi, LongPress, ReadAgain, flash
    <2> QED BY <2>1, SetupOthers
<1>7. CASE Restart \/ Reset
    <2>1. UNCHANGED stored /\ task' = "boot"
        BY <1>7 DEF Restart, Reset, Rebooted, flash
    <2> QED BY <2>1, SetupOthers
<1>8. CASE UNCHANGED vars
    BY <1>8 DEF vars, flash, writing, SetupInv, IsConfig
<1> QED BY <1>1, <1>2, <1>3, <1>4, <1>5, <1>6, <1>7, <1>8 DEF Next, Request, Write

\* A configuration that the setup page brings into force is the one it was asked
\* for: the version byte is written only when all the records have been.
THEOREM SetupTakesEffectWhole == StoreSpec => SetupIsWhole
<1>1. Init => SetupInv
    BY SetupInit
<1>2. SetupInv /\ [Next]_vars => SetupInv'
    BY SetupStep
<1>3. SetupInv /\ [Next]_vars =>
        [task = "setup" /\ version # CheckSum /\ version' = CheckSum => stored' = form]_vars
    <2> SUFFICES ASSUME SetupInv, Next, task = "setup", version # CheckSum, version' = CheckSum
                 PROVE  stored' = form
        OBVIOUS
    <2>1. EndSetup
        <3>1. ASSUME NEW k \in Kinds, SetRecord(k) PROVE FALSE
            BY <3>1 DEF SetRecord, CommitFails, Fails, flash
        <3>2. ASSUME NEW s, NEW w, StartSetup(s, w) PROVE FALSE
            BY <3>2 DEF StartSetup
        <3>3. ASSUME NEW f, StartSave(f) PROVE FALSE
            BY <3>3 DEF StartSave, Requested
        <3>4. CASE Restart \/ Reset
            BY <3>4 DEF Restart, Reset, Rebooted, flash
        <3>5. CASE Boot \/ StartConversion \/ EndSave \/ EndConversion
            BY <3>5 DEF Boot, StartConversion, EndSave, EndConversion
        <3>6. CASE Take
            BY <3>6 DEF Take, TakeSystem, TakeNtp, TakeMqtt, TakeWifi, LongPress, ReadAgain
        <3> QED BY <3>1, <3>2, <3>3, <3>4, <3>5, <3>6 DEF Next, Request, Write
    <2>2. ok /\ left = {} /\ UNCHANGED stored
        BY <2>1 DEF EndSetup, Save, CommitFails, Fails, flash
    <2> QED BY <2>2 DEF SetupInv, IsConfig
<1> QED BY <1>1, <1>2, <1>3, PTL DEF StoreSpec, SetupIsWhole

-----------------------------------------------------------------------------
(* The promise.  A form saved without a configuration makes one of records *)
(* never written, and a conversion that begins again reads what it has     *)
(* already written over: from then on, until the setup page has written    *)
(* all the records, the flash is spoilt and nothing is promised.           *)

Whole(c) == \A k \in Kinds : c[k] \in Contents[k]

\* Of a flash that is not spoilt: whether the version byte or the cached version says
\* there is a configuration, all its records are stored; and what is still to be
\* written is a record, too.  The setup page writes records wherever it starts from.
WholeInv ==
    /\ left \subseteq Kinds /\ (task \in {"boot", "loop"} => left = {})
    /\ task = "setup" =>
        /\ \A k \in left : form[k] \in Contents[k]
        /\ ok => \A k \in Kinds \ left : stored[k] \in Contents[k]
    /\ ~spoilt =>
        /\ version = CheckSum \/ cached = CheckSum => Whole(stored)
        /\ \A k \in left : form[k] \in Contents[k]
        /\ task = "save" => cached = CheckSum
        /\ task = "convert" =>
            \A k \in Kinds \ left : stored[k] \in Contents[k]

LEMMA ValuesAreContents == \A k \in Kinds : Values[k] \subseteq Contents[k]
    BY DEF Contents

LEMMA UnsetIsContent == \A k \in Cleared : k \in Kinds /\ Unset \in Contents[k]
    BY DEF Contents, Cleared

LEMMA VersionsDiffer == CheckSum # Old /\ CheckSum # NoVersion /\ Old # NoVersion /\ NotRead # CheckSum
    BY DEF CheckSum, Old, NoVersion, NotRead

LEMMA WholeInit == Init => WholeInv
<1> SUFFICES ASSUME Init PROVE WholeInv
    OBVIOUS
<1>1. version = CheckSum => Whole(stored)
    BY ValuesAreContents DEF Init, Whole
<1>2. cached # CheckSum /\ task = "boot" /\ left = {}
    BY VersionsDiffer DEF Init, InMemoryAtReset
<1> QED BY <1>1, <1>2 DEF WholeInv

\* A record that is written is one, wherever it is written.
LEMMA WholeSetRecord ==
    ASSUME SetupInv, WholeInv, NEW k \in Kinds, SetRecord(k)
    PROVE  WholeInv'
<1>1. /\ task' = task /\ form' = form /\ left' = left \ {k} /\ version' = version
      /\ cached' = cached /\ k \in left
    BY DEF SetRecord, CommitFails, Fails, flash, NextKind
<1>2. task # "boot" /\ task # "loop" /\ left' \subseteq Kinds
    BY <1>1 DEF WholeInv
<1>3. CASE stored' = [stored EXCEPT ![k] = form[k]] /\ ok' = ok /\ spoilt' = spoilt
    <2>1. \A j \in Kinds : stored'[j] = IF j = k THEN form[k] ELSE stored[j]
        BY <1>3 DEF SetupInv, IsConfig
    <2>2. ASSUME form[k] \in Contents[k]
          PROVE  /\ Whole(stored) => Whole(stored)'
                 /\ (\A j \in Kinds \ left : stored[j] \in Contents[j])
                        => (\A j \in Kinds \ left' : stored'[j] \in Contents[j])
        BY <1>1, <2>1, <2>2 DEF Whole
    <2>3. task = "setup" \/ ~spoilt => form[k] \in Contents[k]
        BY <1>1 DEF WholeInv
    <2> QED BY <1>1, <1>2, <1>3, <2>2, <2>3 DEF WholeInv
<1>4. CASE UNCHANGED stored /\ ok' = FALSE /\ spoilt' = (spoilt \/ task = "convert")
    BY <1>1, <1>2, <1>4 DEF WholeInv, Whole
<1> QED BY <1>3, <1>4 DEF SetRecord, CommitFails, Fails, flash

LEMMA WholeBoot ==
    ASSUME WholeInv, Boot \/ EndConversion
    PROVE  WholeInv'
<1>1. CASE Boot
    <2>1. /\ UNCHANGED <<version, stored, spoilt>> /\ cached' = version
          /\ task' = "loop" /\ left' = {}
        BY <1>1 DEF Boot, ReadAtBoot, flash, exceptions
    <2> QED BY <2>1 DEF WholeInv, Whole
<1>2. CASE EndConversion
    <2>1. /\ task = "convert" /\ left = {} /\ UNCHANGED <<stored, spoilt>>
          /\ task' = "loop" /\ left' = {}
        BY <1>2
        DEF EndConversion, Save, CommitFails, Fails, ReadAtBoot, flash, exceptions
    <2>2. ~spoilt => Whole(stored)'
        BY <2>1 DEF WholeInv, Whole
    <2> QED BY <2>1, <2>2 DEF WholeInv
<1> QED BY <1>1, <1>2

\* A layout that is still unharmed gives records.
LEMMA WholeStartConversion ==
    ASSUME WholeInv, StartConversion
    PROVE  WholeInv'
<1>1. /\ version = Old /\ cached' = NoVersion /\ task' = "convert"
      /\ left' = Kinds /\ UNCHANGED <<version, stored>> /\ spoilt' = (spoilt \/ ~legacy)
    BY DEF StartConversion, flash
<1>2. ASSUME legacy, NEW k \in Kinds
      PROVE  form'[k] \in Contents[k]
    <2>1. k # "ntp" => form'[k] \in Values[k]
        BY <1>2 DEF StartConversion
    <2>2. form'["ntp"] = Unset
        BY DEF StartConversion
    <2>3. "ntp" \in Kinds => "ntp" \in Cleared
        BY DEF Cleared
    <2> QED BY <2>1, <2>2, <2>3, ValuesAreContents, UnsetIsContent
<1> QED BY <1>1, <1>2, VersionsDiffer DEF WholeInv

\* A form without a configuration spoils the flash.
LEMMA WholeStartSave ==
    ASSUME WholeInv, NEW f \in Forms, StartSave(f)
    PROVE  WholeInv'
<1>1. PICK filled \in Filled(f) : Requested("save", filled)
    BY DEF StartSave
<1>2. /\ task' = "save" /\ form' = filled /\ left' = DOMAIN filled
      /\ UNCHANGED <<version, stored, cached>> /\ spoilt' = (spoilt \/ ~HasConfig)
    BY <1>1 DEF StartSave, Requested, flash
<1>3. DOMAIN f \subseteq Kinds /\ \A k \in DOMAIN f : f[k] \in Contents[k]
    BY DEF Forms
<1>4. DOMAIN filled = DOMAIN f /\ (HasConfig => filled = f)
    BY DEF Filled
<1> QED BY <1>2, <1>3, <1>4 DEF WholeInv, Whole, HasConfig

LEMMA WholeStartSetup ==
    ASSUME SetupInv, WholeInv, NEW s \in Values["system"], NEW w \in Values["wifi"],
           StartSetup(s, w)
    PROVE  WholeInv'
<1>1. /\ task = "loop" /\ task' = "setup" /\ left' = Kinds
      /\ UNCHANGED <<cached, spoilt>>
    BY DEF StartSetup, exceptions
<1>2. \A k \in Kinds : form'[k] \in Contents[k]
    <2>1. \A k \in Kinds : form'[k] = CASE k = "system" -> s [] k = "wifi" -> w [] OTHER -> Unset
        BY DEF StartSetup
    <2>2. \A k \in Kinds \ {"system"} : k \in Cleared
        BY DEF Cleared
    <2> QED BY <2>1, <2>2, ValuesAreContents, UnsetIsContent
<1>3. CASE UNCHANGED flash
    BY <1>1, <1>2, <1>3 DEF WholeInv, Whole, flash
<1>4. CASE /\ stored' = [k \in Kinds |-> IF k \in Cleared THEN Unset ELSE stored[k]]
           /\ version' = NoVersion
    <2>1. Whole(stored) => Whole(stored)'
        BY <1>4, UnsetIsContent DEF Whole
    <2> QED BY <1>1, <1>2, <1>4, <2>1, VersionsDiffer DEF WholeInv
<1> QED BY <1>3, <1>4 DEF StartSetup, clear, Fails

\* The setup page has written all the records if all went well.
LEMMA WholeEnd ==
    ASSUME WholeInv, EndSave \/ EndSetup
    PROVE  WholeInv'
<1>1. UNCHANGED <<stored, left>> /\ left = {} /\ task' = "loop"
    BY DEF EndSave, EndSetup, Save, CommitFails, Fails, flash
<1>2. CASE EndSave
    <2>1. task = "save" /\ UNCHANGED spoilt
        BY <1>2 DEF EndSave, exceptions
    <2> QED BY <1>1, <2>1 DEF WholeInv, Whole
<1>3. CASE EndSetup /\ ok
    <2>1. task = "setup"
        BY <1>3 DEF EndSetup
    <2> QED BY <1>1, <1>3, <2>1 DEF WholeInv, Whole
<1>4. CASE EndSetup /\ ~ok
    <2>1. UNCHANGED <<version, cached>> /\ spoilt' = (spoilt /\ ~ok)
        BY <1>4 DEF EndSetup, flash
    <2> QED BY <1>1, <1>4, <2>1 DEF WholeInv, Whole
<1> QED BY <1>2, <1>3, <1>4

\* The steps that write nothing.
LEMMA WholeOthers ==
    ASSUME WholeInv, Take \/ Restart \/ Reset \/ UNCHANGED vars
    PROVE  WholeInv'
<1>1. CASE Take
    <2>1. UNCHANGED <<version, stored, cached, task, left, form, ok, spoilt>>
        BY <1>1
        DEF Take, TakeSystem, TakeNtp, TakeMqtt, TakeWifi, LongPress, ReadAgain, flash, writing,
            exceptions
    <2> QED BY <2>1 DEF WholeInv, Whole
<1>2. CASE Restart \/ Reset
    <2>1. /\ UNCHANGED <<version, stored, spoilt>> /\ cached' = NotRead /\ task' = "boot"
          /\ left' = {}
        BY <1>2 DEF Restart, Reset, Rebooted, flash
    <2> QED BY <2>1, VersionsDiffer DEF WholeInv, Whole
<1>3. CASE UNCHANGED vars
    BY <1>3 DEF vars, flash, memory, writing, exceptions, WholeInv, Whole
<1> QED BY <1>1, <1>2, <1>3

LEMMA WholeStep ==
    ASSUME SetupInv, WholeInv, [Next]_vars
    PROVE  WholeInv'
    BY WholeSetRecord, WholeBoot, WholeStartConversion, WholeStartSave, WholeStartSetup, WholeEnd,
       WholeOthers
    DEF Next, Request, Write

-----------------------------------------------------------------------------
(* Every step is one of StoredConfig, or none. *)

LEMMA WholeIsComplete == IsConfig(stored) /\ Whole(stored) => stored \in Promise!Complete
    BY DEF IsConfig, Whole, Promise!Complete

LEMMA PromiseInit == Init => Promise!Init
<1> SUFFICES ASSUME Init PROVE Configuration \in Promise!Complete \cup {None}
    BY DEF Promise!Init
<1> QED BY WholeInit, SetupInit, WholeIsComplete DEF Configuration, WholeInv, SetupInv

\* A step that leaves the flash alone is none.
LEMMA PromiseStutter ==
    ASSUME UNCHANGED <<version, stored, spoilt>>
    PROVE  UNCHANGED Configuration
    BY DEF Configuration

\* A step that spoils the flash, or is made while it is spoilt, erases or is none.
LEMMA PromiseSpoilt ==
    ASSUME spoilt'
    PROVE  Promise!Erase
    BY DEF Promise!Erase, Configuration

\* Writing the version byte, or all the records, is Store, or nothing new.
LEMMA PromiseSave ==
    ASSUME SetupInv, UNCHANGED stored, version' \in {version, CheckSum},
           spoilt' => spoilt, version' = CheckSum /\ ~spoilt' => Whole(stored)
    PROVE  [Promise!Next]_Configuration
<1>1. CASE version' = CheckSum /\ ~spoilt'
    <2>1. stored \in Promise!Complete
        BY <1>1, WholeIsComplete DEF SetupInv
    <2> QED BY <1>1, <2>1 DEF Configuration, Promise!Store, Promise!Next
<1>2. CASE ~(version' = CheckSum /\ ~spoilt')
    BY <1>2 DEF Configuration, Promise!Erase, Promise!Next
<1> QED BY <1>1, <1>2

LEMMA PromiseSetRecord ==
    ASSUME SetupInv, WholeInv, NEW k \in Kinds, SetRecord(k)
    PROVE  [Promise!Next]_Configuration
<1>1. CASE spoilt'
    BY <1>1, PromiseSpoilt DEF Promise!Next
<1>2. UNCHANGED version /\ (spoilt => spoilt') /\ k \in left
    <2>1. UNCHANGED version /\ k \in left
        BY DEF SetRecord, CommitFails, Fails, flash, NextKind
    <2>2. spoilt' = spoilt \/ spoilt' = (spoilt \/ task = "convert")
        BY DEF SetRecord
    <2>3. spoilt => spoilt'
        BY <2>2, Zenon
    <2> QED BY <2>1, <2>3
<1>3. CASE UNCHANGED stored /\ ~spoilt'
    BY <1>2, <1>3 DEF Configuration
<1>4. CASE version # CheckSum
    BY <1>2, <1>4 DEF Configuration
<1>5. CASE version = CheckSum /\ ~spoilt' /\ stored' = [stored EXCEPT ![k] = form[k]]
    <2>1. ~spoilt /\ form[k] \in Contents[k]
        BY <1>2, <1>5 DEF WholeInv
    <2>2. stored # None
        BY <1>5, <2>1, WholeIsComplete, NoneAssumption DEF SetupInv, WholeInv, Promise!Complete
    <2>3. Promise!Change(k, form[k])
        BY <1>2, <1>5, <2>1, <2>2 DEF Configuration, Promise!Change
    <2> QED BY <2>1, <2>3 DEF Promise!Next
<1> QED BY <1>1, <1>3, <1>4, <1>5 DEF SetRecord, CommitFails, Fails, flash

LEMMA PromiseStep ==
    ASSUME SetupInv, WholeInv, [Next]_vars
    PROVE  [Promise!Next]_Configuration
<1>1. CASE \E k \in Kinds : SetRecord(k)
    BY <1>1, PromiseSetRecord
<1>2. CASE EndSave \/ EndSetup \/ EndConversion
    <2>1. UNCHANGED stored /\ version' \in {version, CheckSum} /\ (spoilt' => spoilt)
        <3>1. UNCHANGED stored /\ version' \in {version, CheckSum}
            BY <1>2 DEF EndSave, EndSetup, EndConversion, Save, CommitFails, Fails, flash
        <3>2. spoilt' = spoilt \/ spoilt' = (spoilt /\ ~ok)
            BY <1>2 DEF EndSave, EndSetup, EndConversion, exceptions
        <3>3. spoilt' => spoilt
            BY <3>2, Zenon
        <3> QED BY <3>1, <3>3
    <2>2. ASSUME version' = CheckSum, ~spoilt' PROVE Whole(stored)
        <3>1. CASE EndSave \/ EndConversion
            BY <2>2, <3>1 DEF EndSave, EndConversion, exceptions, WholeInv, Whole
        <3>2. CASE EndSetup /\ ok
            BY <3>2 DEF EndSetup, WholeInv, Whole
        <3>3. CASE EndSetup /\ ~ok
            BY <2>2, <3>3 DEF EndSetup, WholeInv, flash
        <3> QED BY <1>2, <3>1, <3>2, <3>3
    <2> QED BY <2>1, <2>2, PromiseSave
<1>3. ASSUME NEW s \in Values["system"], NEW w \in Values["wifi"], StartSetup(s, w)
      PROVE  [Promise!Next]_Configuration
    <2>1. UNCHANGED <<version, stored>> \/ version' = NoVersion
        BY <1>3 DEF StartSetup, clear, Fails, flash
    <2>2. version' = NoVersion => Promise!Erase
        BY VersionsDiffer DEF Promise!Erase, Configuration
    <2>3. UNCHANGED spoilt
        BY <1>3 DEF StartSetup, exceptions
    <2> QED BY <2>1, <2>2, <2>3, PromiseStutter DEF Promise!Next
<1>4. CASE Boot \/ Take \/ Restart \/ Reset \/ UNCHANGED vars
    <2>1. UNCHANGED <<version, stored, spoilt>>
        BY <1>4
        DEF Boot, Take, TakeSystem, TakeNtp, TakeMqtt, TakeWifi, LongPress, ReadAgain, Restart,
            Reset, Rebooted, vars, flash, exceptions
    <2> QED BY <2>1, PromiseStutter
<1>5. ASSUME StartConversion \/ \E f \in Forms : StartSave(f)
      PROVE  [Promise!Next]_Configuration
    <2>1. UNCHANGED <<version, stored>> /\ (spoilt => spoilt')
        BY <1>5 DEF StartConversion, StartSave, flash
    <2>2. CASE spoilt'
        BY <2>2, PromiseSpoilt DEF Promise!Next
    <2>3. CASE ~spoilt'
        BY <2>1, <2>3 DEF Configuration
    <2> QED BY <2>2, <2>3
<1> QED BY <1>1, <1>2, <1>3, <1>4, <1>5 DEF Next, Request, Write

\* The store refines StoredConfig, whatever is reset, fails or is sent: as long as no
\* form was saved without a configuration and no conversion was cut short, and again
\* once the setup page has written all the records, a start finds no record as
\* configuration that was not stored, and none changes but by being stored.
THEOREM StoreKeepsPromise == StoreSpec => KeepsPromise
<1>1. Init => SetupInv /\ WholeInv /\ Promise!Init
    BY SetupInit, WholeInit, PromiseInit
<1>2. SetupInv /\ WholeInv /\ [Next]_vars => (SetupInv /\ WholeInv)'
    BY SetupStep, WholeStep
<1>3. SetupInv /\ WholeInv /\ [Next]_vars => [Promise!Next]_Configuration
    BY PromiseStep
<1> QED BY <1>1, <1>2, <1>3, PTL DEF StoreSpec, KeepsPromise, Promise!Spec

-----------------------------------------------------------------------------
(* What is used.  The flags and the restart make up for every difference   *)
(* between the copies in use and the flash, but for what commits that fail *)
(* leave behind.                                                           *)

UpToDate(k) ==
    \/ used[k] = stored[k]
    \/ k = "mqtt" /\ used[k] = None /\ (mqttEnabled \/ ~HasHost(stored[k]))

\* What commits that fail may cost.
Excused(k) ==
    \/ k = "web" /\ k \in failed
    \/ k = "ntp" /\ failed # {} /\ "wifi" \in changed

\* The web server uses the access record before it is stored, and switching NTP on
\* relies on the restart that the flag of WiFi asks for at the end of the request.
UpToDateInRequest(k) ==
    IF k = "web" /\ k \in left THEN used[k] = form[k]
    ELSE UpToDate(k) \/ Excused(k) \/ (k = "ntp" /\ "wifi" \in changed)

\* The cached version is that of the flash, or ahead of it: save() sets it although
\* its commit failed, and clear() leaves it.
Versions ==
    /\ task # "boot" /\ version = CheckSum => cached = CheckSum
    /\ task = "convert" => version # CheckSum /\ cached # CheckSum
    /\ task = "save" => cached = CheckSum

\* A version byte that is missing is brought back by a save that ends with a restart:
\* the records were emptied, so that setting the one of WiFi raised its flag, or the
\* conversion did; and nobody takes that flag back before a restart.
WifiDue ==
    /\ task \in {"loop", "save"} /\ cached = CheckSum /\ version # CheckSum => "wifi" \in changed
    /\ task = "convert" => "wifi" \in left \cup changed
    /\ task = "setup" /\ version # CheckSum =>
        "wifi" \in changed \/ ("wifi" \in left /\ form["wifi"] # Get("wifi"))
    /\ task = "setup" /\ version = CheckSum => failed # {}

\* With the version byte in place, what has no flag is up to date.
InUse ==
    version = CheckSum /\ ~performRestart =>
        /\ task = "loop" => \A k \in Kinds \ changed : UpToDate(k) \/ Excused(k)
        /\ task \in {"save", "setup"} => \A k \in Kinds \ changed : UpToDateInRequest(k)

DueInv ==
    /\ IsConfig(used)
    /\ task = "loop" => left = {}
    /\ Versions /\ WifiDue /\ InUse

LEMMA DueInit == Init => DueInv
<1> SUFFICES ASSUME Init PROVE DueInv
    OBVIOUS
<1>1. IsConfig(used) /\ task = "boot"
    BY DEF Init, InMemoryAtReset, IsConfig
<1> QED BY <1>1 DEF DueInv, Versions, WifiDue, InUse

\* The start: everything is read, but for the MQTT record, which waits for
\* MQTT_connect().
LEMMA DueReadAtBoot ==
    ASSUME NEW hasConfig \in BOOLEAN, ReadAtBoot(hasConfig, changed), UNCHANGED stored,
           version' = CheckSum => hasConfig /\ cached' = CheckSum,
           cached' = CheckSum => version' = CheckSum \/ "wifi" \in changed
    PROVE  DueInv'
<1>1. IsConfig(used')
    BY DEF ReadAtBoot, IsConfig
<1>2. task' = "loop" /\ left' = {} /\ changed \subseteq changed'
    BY DEF ReadAtBoot
<1>3. ASSUME version' = CheckSum, NEW k \in Kinds
      PROVE  UpToDate(k)'
    <2>1. CASE k = "mqtt"
        <3>1. used'[k] = None
            BY <2>1 DEF ReadAtBoot
        <3>2. mqttEnabled' = (hasConfig /\ HasHost(stored["mqtt"]))
            BY DEF ReadAtBoot
        <3>3. mqttEnabled' \/ ~HasHost(stored["mqtt"])
            BY <1>3, <3>2, Zenon
        <3>4. mqttEnabled' \/ ~HasHost(stored[k])'
            BY <2>1, <3>3 DEF HasHost
        <3> QED BY <2>1, <3>1, <3>4 DEF UpToDate
    <2>2. CASE k # "mqtt"
        <3>1. used'[k] = stored[k]
            BY <1>3, <2>2 DEF ReadAtBoot
        <3> QED BY <3>1 DEF UpToDate
    <2> QED BY <2>1, <2>2
<1>4. Versions' /\ WifiDue'
    BY <1>2 DEF Versions, WifiDue
<1>5. InUse'
    BY <1>2, <1>3 DEF InUse
<1> QED BY <1>1, <1>2, <1>4, <1>5 DEF DueInv

\* A conversion that ends without a version byte has raised the flag of WiFi.
LEMMA DueBoot ==
    ASSUME DueInv, Boot \/ EndConversion
    PROVE  DueInv'
<1>1. CASE Boot
    <2>1. /\ UNCHANGED <<version, stored>> /\ cached' = version
          /\ ReadAtBoot(version = CheckSum, changed)
        BY <1>1 DEF Boot, flash
    <2> QED BY <2>1, DueReadAtBoot
<1>2. CASE EndConversion
    <2>1. /\ UNCHANGED stored /\ cached' = CheckSum /\ ReadAtBoot(Saved, changed)
          /\ task = "convert" /\ left = {}
        BY <1>2 DEF EndConversion, Save, CommitFails, Fails, flash
    <2>2. "wifi" \in changed /\ version # CheckSum
        BY <2>1 DEF DueInv, Versions, WifiDue
    <2>3. version' = CheckSum => Saved
        BY <1>2, <2>2 DEF EndConversion, Save, CommitFails, Fails, Saved, flash, bounds, faults
    <2>4. Saved \in BOOLEAN
        BY DEF Saved
    <2> QED BY <2>1, <2>2, <2>3, <2>4, DueReadAtBoot
<1> QED BY <1>1, <1>2

LEMMA DueStartConversion ==
    ASSUME DueInv, StartConversion
    PROVE  DueInv'
<1>1. /\ task' = "convert" /\ UNCHANGED <<used, version>> /\ version # CheckSum
      /\ cached' # CheckSum /\ left' = Kinds
    BY DEF StartConversion, flash, Old, CheckSum, NoVersion
<1>2. "wifi" \in Kinds
    BY DEF Kinds, Order
<1> QED BY <1>1, <1>2 DEF DueInv, Versions, WifiDue, InUse, IsConfig

\* Flags stay, and so does what they excuse.
LEMMA ExcusedStays ==
    ASSUME NEW k, Excused(k), changed \subseteq changed', failed \subseteq failed'
    PROVE  Excused(k)'
    BY DEF Excused

\* Setting the record of WiFi raises its flag, if there is no configuration or it differs.
LEMMA WifiRaisesFlag ==
    ASSUME SetRecord("wifi"), cached # CheckSum \/ form["wifi"] # Get("wifi")
    PROVE  "wifi" \in changed'
<1>1. PICK flags \in FlagsOf("wifi", form["wifi"]) : changed' = changed \cup flags
    BY DEF SetRecord
<1>2. flags = {"wifi"}
    BY DEF FlagsOf, HasConfig
<1> QED BY <1>1, <1>2

\* A record that gets no flag was stored as it is, or is the one of the web server,
\* or of NTP with the flag of WiFi up.
LEMMA UnflaggedIsStored ==
    ASSUME NEW k \in Kinds, SetRecord(k), cached = CheckSum, k \notin changed', k # "web"
    PROVE  form[k] = stored[k] \/ (k = "ntp" /\ "wifi" \in changed')
<1>1. PICK flags \in FlagsOf(k, form[k]) : changed' = changed \cup flags
    BY DEF SetRecord
<1>2. k # "system"
    BY <1>1 DEF FlagsOf
<1>3. Get(k) = stored[k]
    BY DEF Get, HasConfig
<1>4. CASE k = "ntp" /\ HasConfig /\ form[k] # stored[k] /\ stored[k] = Off
    BY <1>1, <1>4 DEF FlagsOf
<1>5. CASE ~(k = "ntp" /\ HasConfig /\ form[k] # stored[k] /\ stored[k] = Off)
    <2>1. flags \in IF form[k] # Get(k) \/ ~HasConfig THEN {{k}} ELSE {{}}
        BY <1>1, <1>2, <1>5 DEF FlagsOf
    <2> QED BY <1>1, <1>3, <2>1
<1> QED BY <1>4, <1>5

\* A record is written, by whatever task; the commit may fail.
LEMMA DueSetRecord ==
    ASSUME SetupInv, DueInv, NEW k \in Kinds, SetRecord(k)
    PROVE  DueInv'
<1>1. /\ UNCHANGED <<version, cached, used, mqttEnabled, performRestart, task, form>>
      /\ k \in left /\ left' = left \ {k} /\ changed \subseteq changed' /\ task # "loop"
      /\ failed \subseteq failed'
    BY DEF SetRecord, NextKind, DueInv, CommitFails, Fails, flash, bounds, faults
<1>2. /\ \A j \in Kinds \ {k} : stored'[j] = stored[j]
      /\ stored'[k] = form[k] \/ (stored'[k] = stored[k] /\ k \in failed' /\ failed' # {})
    BY DEF SetRecord, CommitFails, Fails, flash, SetupInv, IsConfig
<1>3. Versions'
    BY <1>1 DEF DueInv, Versions
<1>4. WifiDue'
    <2>1. k = "wifi" /\ (cached # CheckSum \/ form["wifi"] # Get("wifi")) => "wifi" \in changed'
        BY WifiRaisesFlag
    <2>2. k # "wifi" => Get("wifi")' = Get("wifi")
        <3>1. "wifi" \in Kinds
            BY DEF Kinds, Order
        <3> QED BY <1>1, <1>2, <3>1 DEF Get, HasConfig
    <2>3. failed # {} => failed' # {}
        BY <1>1
    <2>4. CASE task = "convert"
        BY <1>1, <2>1, <2>4 DEF DueInv, Versions, WifiDue
    <2>5. CASE task = "save"
        BY <1>1, <2>5 DEF DueInv, WifiDue
    <2>6. CASE task = "setup"
        BY <1>1, <2>1, <2>2, <2>3, <2>6 DEF DueInv, WifiDue
    <2> QED BY <1>1, <2>4, <2>5, <2>6 DEF WifiDue
<1>5. ASSUME version = CheckSum, ~performRestart, task \in {"save", "setup"},
             NEW j \in Kinds \ changed'
      PROVE  UpToDateInRequest(j)'
    <2>1. UpToDateInRequest(j) /\ cached = CheckSum
        BY <1>1, <1>5 DEF DueInv, Versions, InUse
    <2>2. ASSUME stored'[j] = stored[j],
                 UpToDate(j) \/ Excused(j) \/ (j = "ntp" /\ "wifi" \in changed)
          PROVE  UpToDate(j)' \/ Excused(j)' \/ (j = "ntp" /\ "wifi" \in changed')
        <3>1. UpToDate(j) => UpToDate(j)'
            BY <1>1, <2>2 DEF UpToDate, HasHost
        <3> QED BY <1>1, <2>2, <3>1, ExcusedStays
    <2>3. CASE j # k
        <3>1. stored'[j] = stored[j] /\ (j \in left' <=> j \in left)
            BY <1>1, <1>2, <2>3
        <3> QED BY <1>1, <2>1, <2>2, <3>1 DEF UpToDateInRequest
    <2>4. CASE j = k /\ k = "web"
        <3>1. used[k] = form[k] /\ k \notin left'
            BY <1>1, <2>1, <2>4 DEF UpToDateInRequest
        <3>2. UpToDate(j)' \/ Excused(j)'
            BY <1>1, <1>2, <2>4, <3>1 DEF UpToDate, Excused
        <3> QED BY <2>4, <3>1, <3>2 DEF UpToDateInRequest
    <2>5. CASE j = k /\ k # "web"
        <3>1. UpToDate(j) \/ Excused(j) \/ (j = "ntp" /\ "wifi" \in changed)
            BY <2>1, <2>5 DEF UpToDateInRequest
        <3>2. form[k] = stored[k] \/ (k = "ntp" /\ "wifi" \in changed')
            BY <2>1, <2>5, UnflaggedIsStored
        <3>3. stored'[j] = stored[j] \/ (j = "ntp" /\ "wifi" \in changed')
            BY <1>2, <2>5, <3>2
        <3> QED BY <2>2, <2>5, <3>1, <3>3 DEF UpToDateInRequest
    <2> QED BY <2>3, <2>4, <2>5
<1>6. InUse'
    BY <1>1, <1>5 DEF InUse
<1> QED BY <1>1, <1>3, <1>4, <1>6 DEF DueInv, IsConfig

LEMMA DueStartSave ==
    ASSUME DueInv, HasConfig, NEW f, StartSave(f)
    PROVE  DueInv'
<1>0. Requested("save", f)
    BY DEF StartSave, Filled
<1>1. /\ cached = CheckSum /\ task = "loop" /\ task' = "save" /\ form' = f
      /\ left' = DOMAIN f
      /\ UNCHANGED <<version, stored, cached, changed, mqttEnabled, performRestart, failed>>
    BY <1>0 DEF StartSave, Requested, HasConfig, flash, faults
<1>2. used' = IF "web" \in DOMAIN f THEN [used EXCEPT !["web"] = f["web"]] ELSE used
    BY DEF StartSave
<1>3. IsConfig(used')
    BY <1>2 DEF DueInv, IsConfig
<1>4. \A k \in Kinds :
        used'[k] = IF k = "web" /\ "web" \in DOMAIN f THEN f["web"] ELSE used[k]
    BY <1>2 DEF DueInv, IsConfig
<1>5. ASSUME version = CheckSum, ~performRestart, NEW k \in Kinds \ changed
      PROVE  UpToDateInRequest(k)'
    <2>1. UpToDate(k) \/ Excused(k)
        BY <1>1, <1>5 DEF DueInv, InUse
    <2>2. Excused(k) => Excused(k)'
        BY <1>1 DEF Excused
    <2>3. ~(k = "web" /\ "web" \in DOMAIN f) /\ UpToDate(k) => UpToDate(k)'
        BY <1>1, <1>4 DEF UpToDate, HasHost
    <2> QED BY <1>1, <1>4, <2>1, <2>2, <2>3 DEF UpToDateInRequest
<1>6. Versions' /\ WifiDue'
    BY <1>1 DEF DueInv, Versions, WifiDue
<1>7. InUse'
    BY <1>1, <1>5 DEF InUse
<1> QED BY <1>1, <1>3, <1>6, <1>7 DEF DueInv

\* clear() empties the record of WiFi, so that setting it will raise the flag; or it
\* fails.
LEMMA DueStartSetup ==
    ASSUME DueInv, NEW s \in Values["system"], NEW w \in Values["wifi"], StartSetup(s, w)
    PROVE  DueInv'
<1>1. /\ task = "loop" /\ task' = "setup" /\ used' = [used EXCEPT !["web"] = Unset]
      /\ left' = Kinds /\ UNCHANGED <<cached, changed, mqttEnabled, performRestart>>
      /\ form'["wifi"] = w /\ form'["web"] = Unset
    BY DEF StartSetup, Kinds, Order
<1>2. {"wifi", "web"} \subseteq Kinds /\ "wifi" \in Cleared
    BY DEF Kinds, Order, Cleared
<1>3. w # Unset
    BY <1>2, StoreAssumption
<1>4. IsConfig(used') /\ \A k \in Kinds : used'[k] = IF k = "web" THEN Unset ELSE used[k]
    BY <1>1 DEF DueInv, IsConfig
<1>5. CASE /\ stored' = [k \in Kinds |-> IF k \in Cleared THEN Unset ELSE stored[k]]
           /\ version' = NoVersion
    <2>1. form'["wifi"] # Get("wifi")'
        BY <1>1, <1>2, <1>3, <1>5 DEF Get, HasConfig
    <2>2. version' # CheckSum
        BY <1>5 DEF CheckSum, NoVersion
    <2> QED BY <1>1, <1>2, <1>4, <2>1, <2>2 DEF DueInv, Versions, WifiDue, InUse
<1>6. CASE UNCHANGED <<version, stored>> /\ failed' = failed \cup {"clear"}
    <2>1. Versions'
        BY <1>1, <1>6 DEF DueInv, Versions
    <2>2. version # CheckSum => "wifi" \in changed' \/ form'["wifi"] # Get("wifi")'
        BY <1>1, <1>3 DEF DueInv, WifiDue, Get, HasConfig
    <2>3. WifiDue'
        BY <1>1, <1>2, <1>6, <2>2 DEF WifiDue
    <2>4. ASSUME version = CheckSum, ~performRestart, NEW k \in Kinds \ changed
          PROVE  UpToDateInRequest(k)'
        <3>1. UpToDate(k) \/ Excused(k)
            BY <1>1, <2>4 DEF DueInv, InUse
        <3>2. Excused(k) => Excused(k)'
            BY <1>1, <1>6, ExcusedStays
        <3>3. k # "web" /\ UpToDate(k) => UpToDate(k)'
            BY <1>1, <1>4, <1>6 DEF UpToDate, HasHost
        <3> QED BY <1>1, <1>4, <3>1, <3>2, <3>3 DEF UpToDateInRequest
    <2>5. InUse'
        BY <1>1, <1>6, <2>4 DEF InUse
    <2> QED BY <1>1, <1>4, <2>1, <2>3, <2>5 DEF DueInv
<1> QED BY <1>5, <1>6 DEF StartSetup, clear, Fails, flash

\* The end of a request: the version byte is written, and a restart asked for if the
\* flag of WiFi is up; or a commit has failed.
LEMMA DueEnd ==
    ASSUME DueInv, EndSave \/ EndSetup
    PROVE  DueInv'
<1>1. /\ left = {} /\ left' = {} /\ task \in {"save", "setup"} /\ task' = "loop"
      /\ UNCHANGED <<stored, changed, used, mqttEnabled>> /\ IsConfig(used')
    BY DEF EndSave, EndSetup, Save, CommitFails, Fails, flash, DueInv
<1>2. CASE /\ version' = CheckSum /\ cached' = CheckSum /\ UNCHANGED failed
           /\ performRestart' \/ ("wifi" \notin changed /\ ~performRestart /\ task = "save")
    <2>1. Versions' /\ WifiDue'
        BY <1>1, <1>2 DEF Versions, WifiDue
    <2>2. ASSUME ~performRestart', NEW k \in Kinds \ changed
          PROVE  UpToDate(k)' \/ Excused(k)'
        <3>1. version = CheckSum /\ "wifi" \notin changed /\ ~performRestart
            BY <1>2, <2>2 DEF DueInv, Versions, WifiDue
        <3>2. UpToDate(k) \/ Excused(k)
            BY <1>1, <2>2, <3>1 DEF DueInv, InUse, UpToDateInRequest
        <3> QED BY <1>1, <1>2, <3>2 DEF UpToDate, Excused, HasHost
    <2>3. InUse'
        BY <1>1, <1>2, <2>2 DEF InUse
    <2> QED BY <1>1, <2>1, <2>3 DEF DueInv
<1>3. CASE /\ UNCHANGED version /\ failed \subseteq failed' /\ cached' \in {cached, CheckSum}
           /\ failed' # {} \/ version # CheckSum
           /\ performRestart => performRestart'
    <2>1. version # CheckSum /\ cached' = CheckSum => "wifi" \in changed
        BY <1>1, <1>3 DEF DueInv, Versions, WifiDue
    <2>2. Versions' /\ WifiDue'
        BY <1>1, <1>3, <2>1 DEF DueInv, Versions, WifiDue
    <2>3. ASSUME version = CheckSum, ~performRestart, NEW k \in Kinds \ changed
          PROVE  UpToDate(k)' \/ Excused(k)'
        <3>1. UpToDate(k) \/ Excused(k) \/ (k = "ntp" /\ "wifi" \in changed)
            BY <1>1, <2>3 DEF DueInv, InUse, UpToDateInRequest
        <3>2. UpToDate(k) => UpToDate(k)'
            BY <1>1 DEF UpToDate, HasHost
        <3>3. Excused(k) => Excused(k)'
            BY <1>1, <1>3, ExcusedStays
        <3>4. k = "ntp" /\ "wifi" \in changed => Excused(k)'
            BY <1>1, <1>3, <2>3 DEF Excused
        <3> QED BY <3>1, <3>2, <3>3, <3>4
    <2>4. InUse'
        BY <1>1, <1>3, <2>3 DEF InUse
    <2> QED BY <1>1, <2>2, <2>4 DEF DueInv
<1>4. CASE EndSave
    <2>1. performRestart' = (performRestart \/ (Saved /\ "wifi" \in changed)) /\ task = "save"
        BY <1>4 DEF EndSave
    <2>2. performRestart => performRestart'
        BY <2>1, Zenon
    <2>3. UNCHANGED bounds => performRestart' \/ ("wifi" \notin changed /\ ~performRestart)
        <3>1. UNCHANGED bounds => Saved
            BY DEF Saved, bounds, faults
        <3> QED BY <2>1, <3>1, Zenon
    <2> QED
        BY <1>2, <1>3, <1>4, <2>1, <2>2, <2>3
        DEF EndSave, Save, CommitFails, Fails, bounds, faults, flash
<1>5. CASE EndSetup /\ ok
    <2>1. performRestart' = (performRestart \/ Saved) /\ Save
        BY <1>5 DEF EndSetup
    <2>2. performRestart => performRestart'
        BY <2>1, Zenon
    <2>3. UNCHANGED bounds => performRestart'
        <3>1. UNCHANGED bounds => Saved
            BY DEF Saved, bounds, faults
        <3> QED BY <2>1, <3>1, Zenon
    <2> QED
        BY <1>2, <1>3, <2>1, <2>2, <2>3
        DEF Save, CommitFails, Fails, bounds, faults, flash
<1>6. CASE EndSetup /\ ~ok
    <2>1. UNCHANGED <<version, cached, performRestart, failed>> /\ task = "setup"
        BY <1>6 DEF EndSetup, flash, bounds, faults
    <2>2. failed # {} \/ version # CheckSum
        BY <2>1 DEF DueInv, WifiDue
    <2> QED BY <1>3, <2>1, <2>2
<1> QED BY <1>4, <1>5, <1>6

\* A flag goes down when what it is about has been read; the one of WiFi does not.
LEMMA DueTake ==
    ASSUME DueInv, Take
    PROVE  DueInv'
<1>1. /\ task = "loop"
      /\ UNCHANGED <<version, stored, cached, performRestart, task, left, failed>>
      /\ "wifi" \in changed => "wifi" \in changed'
    BY DEF Take, TakeSystem, TakeNtp, TakeMqtt, TakeWifi, LongPress, ReadAgain, flash, writing,
           bounds, faults
<1>2. IsConfig(used')
    BY DEF Take, TakeSystem, TakeNtp, TakeMqtt, TakeWifi, LongPress, DueInv, IsConfig
<1>3. ASSUME version = CheckSum, ~performRestart
      PROVE  \A k \in Kinds \ changed' : UpToDate(k)' \/ Excused(k)'
    <2>1. \A k \in Kinds \ changed : UpToDate(k) \/ Excused(k)
        BY <1>1, <1>3 DEF DueInv, InUse
    <2> cached = CheckSum
        BY <1>1, <1>3 DEF DueInv, Versions
    <2>2. SUFFICES ASSUME NEW k \in Kinds \ changed' PROVE UpToDate(k)' \/ Excused(k)'
        OBVIOUS
    <2>3. used' = [j \in Kinds |-> used'[j]] /\ used = [j \in Kinds |-> used[j]]
        BY <1>2 DEF DueInv, IsConfig
    <2>4. CASE used'[k] = stored[k]
        BY <1>1, <2>4 DEF UpToDate
    <2>5. k \notin changed /\ Excused(k) => Excused(k)'
        BY <1>1 DEF Excused
    <2>6. CASE used'[k] = used[k] /\ k \notin changed /\ UNCHANGED mqttEnabled
        BY <1>1, <2>1, <2>5, <2>6 DEF UpToDate, HasHost
    <2>7. CASE used'[k] = used[k] /\ k \notin changed /\ k # "mqtt"
        BY <1>1, <2>1, <2>5, <2>7 DEF UpToDate
    <2>8. CASE TakeSystem
        BY <2>3, <2>4, <2>6, <2>8 DEF TakeSystem, HasConfig
    <2>9. CASE TakeNtp
        BY <2>3, <2>4, <2>6, <2>9 DEF TakeNtp, HasConfig
    <2>10. CASE TakeMqtt
        <3>1. used' = [used EXCEPT !["mqtt"] = stored["mqtt"]]
            BY <2>10 DEF TakeMqtt, Get, HasConfig
        <3>2. changed \ {"mqtt"} \subseteq changed'
            BY <2>10 DEF TakeMqtt
        <3> QED BY <2>3, <2>4, <2>7, <3>1, <3>2
    <2>11. CASE TakeWifi
        BY <2>3, <2>4, <2>6, <2>11 DEF TakeWifi, HasConfig
    <2>12. CASE LongPress
        BY <2>6, <2>12 DEF LongPress
    <2> QED BY <2>8, <2>9, <2>10, <2>11, <2>12 DEF Take
<1>4. InUse'
    BY <1>1, <1>3 DEF InUse
<1> QED BY <1>1, <1>2, <1>4 DEF DueInv, Versions, WifiDue

\* A start begins afresh.
LEMMA DueReset ==
    ASSUME Restart \/ Reset
    PROVE  DueInv'
<1>1. task' = "boot" /\ used' = [k \in Kinds |-> None]
    BY DEF Restart, Reset, Rebooted
<1> QED BY <1>1 DEF DueInv, Versions, WifiDue, InUse, IsConfig

LEMMA DueStutter ==
    ASSUME DueInv, UNCHANGED vars
    PROVE  DueInv'
<1>1. UNCHANGED <<version, stored, cached, changed, used, mqttEnabled, performRestart, task,
                  form, left, failed>>
    BY DEF vars, flash, memory, writing, bounds, faults
<1> QED
    BY <1>1
    DEF DueInv, Versions, WifiDue, InUse, IsConfig, Get, HasConfig, UpToDate, HasHost, Excused,
        UpToDateInRequest

\* A form without a configuration is the end of it until the next start.
FormlessInv == ~formFirst => DueInv

LEMMA DueStep ==
    ASSUME SetupInv, FormlessInv, [Next]_vars
    PROVE  FormlessInv'
<1> SUFFICES ASSUME ~formFirst'
             PROVE  DueInv'
    BY DEF FormlessInv
<1>1. CASE Restart \/ Reset
    BY <1>1, DueReset
<1>2. CASE ~(Restart \/ Reset)
    <2>1. ~formFirst
        BY <1>2
        DEF Next, Request, Write, Boot, StartConversion, StartSave, StartSetup, SetRecord, EndSave,
            EndSetup, EndConversion, Take, TakeSystem, TakeNtp, TakeMqtt, TakeWifi, LongPress,
            ReadAgain, exceptions, vars
    <2>2. DueInv
        BY <2>1 DEF FormlessInv
    <2>3. ASSUME NEW f, StartSave(f) PROVE HasConfig
        BY <2>3 DEF StartSave
    <2> QED
        BY <1>2, <2>2, <2>3, DueBoot, DueStartConversion, DueStartSave, DueStartSetup, DueSetRecord,
           DueEnd, DueTake, DueStutter
        DEF Next, Request, Write
<1> QED BY <1>1, <1>2

\* Whatever differs between a copy in use and its record in the flash has its change
\* flag up, or a restart that is asked for will bring it: set...Config(), ack...Change()
\* and the reads of loop() together lose no change, resets and conversions included.
\* Commits that fail, of forms, of the setup page and of conversions, leave no more than
\* the two differences that UsedOrDue names.  From a form saved without a configuration
\* to the next start nothing is claimed.
THEOREM UsedIsDue == StoreSpec => []UsedOrDue
<1>1. Init => SetupInv /\ FormlessInv
    BY SetupInit, DueInit DEF FormlessInv
<1>2. SetupInv /\ FormlessInv /\ [Next]_vars => (SetupInv /\ FormlessInv)'
    BY SetupStep, DueStep
<1>3. FormlessInv => UsedOrDue
    BY DEF FormlessInv, DueInv, InUse, UsedOrDue, UpToDate, Excused
<1> QED BY <1>1, <1>2, <1>3, PTL DEF StoreSpec

-----------------------------------------------------------------------------
(* Types.  TypeOK is four groups of variables. *)

FlashTypeOK ==
    /\ version \in {CheckSum, Old, NoVersion} /\ legacy \in BOOLEAN
    /\ cached \in {CheckSum, NoVersion, NotRead}
    /\ \A k \in Kinds : stored[k] \in Records[k]

UseTypeOK ==
    /\ \A k \in Kinds : used[k] \in Records[k] \cup {None, Unset}
    /\ mqttEnabled \in BOOLEAN /\ ap \in BOOLEAN /\ performRestart \in BOOLEAN

TaskTypeOK ==
    /\ changed \subseteq Kinds \ {"web"}
    /\ ok \in BOOLEAN
    /\ task \in {"boot", "convert", "loop", "save", "setup"}
    /\ DOMAIN form \subseteq Kinds /\ left \subseteq DOMAIN form
    /\ \A k \in DOMAIN form : form[k] \in Records[k]

FaultTypeOK ==
    /\ failed \subseteq Kinds \cup {"version", "clear"}
    /\ formFirst \in BOOLEAN /\ spoilt \in BOOLEAN

LEMMA TypeParts == TypeOK <=> FlashTypeOK /\ UseTypeOK /\ TaskTypeOK /\ FaultTypeOK
    BY DEF TypeOK, FlashTypeOK, UseTypeOK, TaskTypeOK, FaultTypeOK

LEMMA KindsAre == Kinds = {"system", "wifi", "mqtt", "web", "ntp"}
    BY DEF Kinds, Order

LEMMA RecordsAre ==
    \A k \in Kinds :
        /\ Values[k] \subseteq Records[k] /\ Contents[k] \subseteq Records[k]
        /\ Blank \in Records[k] /\ Damaged \in Records[k]
        /\ k \in Cleared => Unset \in Records[k]
    BY ValuesAreContents, UnsetIsContent DEF Records

LEMMA TypeInit == Init => TypeOK
<1> SUFFICES ASSUME Init PROVE TypeOK
    OBVIOUS
<1>1. \A k \in Kinds : stored[k] \in Records[k]
    BY RecordsAre DEF Init
<1>2. version \in {CheckSum, Old, NoVersion}
    BY StoreAssumption DEF Init
<1>3. legacy \in BOOLEAN
    BY DEF Init
<1>4. UseTypeOK
    BY DEF Init, InMemoryAtReset, UseTypeOK
<1>5. TaskTypeOK
    BY KindsAre DEF Init, InMemoryAtReset, NoForm, TaskTypeOK
<1>6. cached = NotRead /\ FaultTypeOK
    BY DEF Init, InMemoryAtReset, FaultTypeOK
<1> QED BY <1>1, <1>2, <1>3, <1>4, <1>5, <1>6, TypeParts DEF FlashTypeOK

\* Flags are of kinds, and not of the access record.
LEMMA FlagsAreKinds ==
    ASSUME NEW k \in Kinds, NEW value, NEW flags \in FlagsOf(k, value)
    PROVE  flags \subseteq Kinds \ {"web"}
<1>1. CASE k = "system" \/ k = "web"
    BY <1>1, KindsAre DEF FlagsOf
<1>2. CASE k \notin {"system", "web"}
    <2>1. flags \in {{"wifi"}, {"wifi", k}, {k}, {}}
        BY <1>2 DEF FlagsOf
    <2> QED BY <1>2, <2>1, KindsAre
<1> QED BY <1>1, <1>2

LEMMA FlashTypes ==
    ASSUME TypeOK, SetupInv, [Next]_vars
    PROVE  FlashTypeOK'
<1> USE TypeParts
<1>1. \A k \in Kinds : stored'[k] \in Records[k]
    <2>1. CASE UNCHANGED stored
        BY <2>1 DEF FlashTypeOK
    <2>2. ASSUME NEW k \in Kinds, SetRecord(k)
          PROVE  \A j \in Kinds : stored'[j] \in Records[j]
        <3>1. CASE stored' = [stored EXCEPT ![k] = form[k]]
            <4>1. form[k] \in Records[k]
                BY <2>2 DEF SetRecord, NextKind, TaskTypeOK
            <4> QED BY <3>1, <4>1 DEF SetupInv, IsConfig, FlashTypeOK
        <3> QED BY <2>1, <2>2, <3>1 DEF SetRecord, CommitFails, Fails, flash
    <2>3. ASSUME NEW s, NEW w, StartSetup(s, w)
          PROVE  \A j \in Kinds : stored'[j] \in Records[j]
        <3>1. CASE stored' = [k \in Kinds |-> IF k \in Cleared THEN Unset ELSE stored[k]]
            BY <3>1, RecordsAre DEF FlashTypeOK
        <3> QED BY <2>1, <2>3, <3>1 DEF StartSetup, clear, Fails, flash
    <2>4. UNCHANGED stored \/ (\E k \in Kinds : SetRecord(k)) \/ \E s, w : StartSetup(s, w)
        BY DEF Next, Request, Write, Boot, StartConversion, StartSave, EndSave, EndSetup,
               EndConversion, Save, CommitFails, Fails, Take, TakeSystem, TakeNtp, TakeMqtt, TakeWifi,
               LongPress, ReadAgain, Restart, Reset, Rebooted, flash, vars
    <2> QED BY <2>1, <2>2, <2>3, <2>4
<1>2. version' \in {CheckSum, Old, NoVersion} /\ legacy' \in BOOLEAN
    <2>1. version' \in {version, CheckSum, NoVersion} /\ (legacy' = legacy \/ legacy' = FALSE)
        BY DEF Next, Request, Write, Boot, StartConversion, StartSave, StartSetup, clear, SetRecord,
               EndSave, EndSetup, EndConversion, Save, CommitFails, Fails, Take, TakeSystem, TakeNtp,
               TakeMqtt, TakeWifi, LongPress, ReadAgain, Restart, Reset, Rebooted, flash, vars
    <2> QED BY <2>1 DEF FlashTypeOK
<1>3. cached' \in {CheckSum, NoVersion, NotRead}
    <2>1. CASE Boot
        BY <2>1 DEF Boot, FlashTypeOK
    <2>2. ~Boot => cached' \in {cached, CheckSum, NoVersion, NotRead}
        BY DEF Next, Request, Write, StartConversion, StartSave, StartSetup, SetRecord,
               EndSave, EndSetup, EndConversion, Save, Take, TakeSystem, TakeNtp,
               TakeMqtt, TakeWifi, LongPress, ReadAgain, Restart, Reset, Rebooted, memory, vars
    <2> QED BY <2>1, <2>2 DEF FlashTypeOK
<1> QED BY <1>1, <1>2, <1>3 DEF FlashTypeOK

\* What is used was stored, or sent to the web server, or is none.
LEMMA UsedTypes ==
    ASSUME TypeOK, IsConfig(used), [Next]_vars
    PROVE  \A k \in Kinds : used'[k] \in Records[k] \cup {None, Unset}
<1>1. \A k \in Kinds : stored[k] \in Records[k] /\ used[k] \in Records[k] \cup {None, Unset}
    BY DEF TypeOK
<1>2. used = [k \in Kinds |-> used[k]]
    BY DEF IsConfig
<1>3. CASE UNCHANGED used
    BY <1>1, <1>3
<1>4. ASSUME NEW hasConfig \in BOOLEAN, NEW flags, ReadAtBoot(hasConfig, flags)
      PROVE  \A k \in Kinds : used'[k] \in Records[k] \cup {None, Unset}
    <2>1. \A k \in Kinds : used'[k] \in {None, Unset, stored[k]}
        BY <1>4 DEF ReadAtBoot
    <2> QED BY <1>1, <2>1
<1>5. CASE Boot \/ EndConversion
    <2>1. CASE Boot
        BY <1>4, <2>1 DEF Boot
    <2>2. CASE EndConversion
        BY <1>4, <2>2 DEF EndConversion, Saved
    <2> QED BY <1>5, <2>1, <2>2
<1>6. ASSUME NEW f \in Forms, StartSave(f)
      PROVE  \A k \in Kinds : used'[k] \in Records[k] \cup {None, Unset}
    <2>1. \A k \in DOMAIN f : f[k] \in Contents[k]
        BY DEF Forms
    <2>2. "web" \in Kinds
        BY KindsAre
    <2> QED BY <1>1, <1>2, <1>6, <2>1, <2>2, RecordsAre DEF StartSave
<1>7. ASSUME NEW s, NEW w, StartSetup(s, w)
      PROVE  \A k \in Kinds : used'[k] \in Records[k] \cup {None, Unset}
    BY <1>1, <1>2, <1>7 DEF StartSetup
<1>8. CASE Take
    <2>1. \/ UNCHANGED used
          \/ \E k \in Kinds : used' = [used EXCEPT ![k] = stored[k]]
          \/ used' = [used EXCEPT !["mqtt"] = Unset]
        BY <1>8, KindsAre
        DEF Take, TakeSystem, TakeNtp, TakeMqtt, TakeWifi, LongPress, Get
    <2> QED BY <1>1, <1>2, <2>1
<1>9. CASE Restart \/ Reset
    BY <1>9 DEF Restart, Reset, Rebooted
<1>10. StartConversion \/ (\E k \in Kinds : SetRecord(k)) \/ EndSave \/ EndSetup \/ UNCHANGED vars
        => UNCHANGED used
    BY DEF StartConversion, SetRecord, EndSave, EndSetup, vars, memory
<1> QED BY <1>3, <1>5, <1>6, <1>7, <1>8, <1>9, <1>10 DEF Next, Request, Write

LEMMA HasHostIsBoolean == \A mqtt : HasHost(mqtt) \in BOOLEAN
    BY DEF HasHost

LEMMA UseTypes ==
    ASSUME TypeOK, IsConfig(used), [Next]_vars
    PROVE  UseTypeOK'
<1>1. mqttEnabled \in BOOLEAN /\ ap \in BOOLEAN /\ performRestart \in BOOLEAN
    BY TypeParts DEF UseTypeOK
<1>2. CASE UNCHANGED <<mqttEnabled, ap, performRestart>>
    BY <1>1, <1>2, UsedTypes DEF UseTypeOK
<1>3. ASSUME NEW hasConfig \in BOOLEAN, NEW flags, ReadAtBoot(hasConfig, flags)
      PROVE  mqttEnabled' \in BOOLEAN /\ ap' \in BOOLEAN /\ performRestart' \in BOOLEAN
    <2>1. mqttEnabled' = (hasConfig /\ HasHost(stored["mqtt"])) /\ ap' = ~hasConfig
          /\ performRestart' = FALSE
        BY <1>3 DEF ReadAtBoot
    <2> QED BY <2>1, HasHostIsBoolean, Zenon
<1>4. CASE Boot \/ EndConversion
    <2>1. CASE Boot
        BY <1>3, <2>1, UsedTypes DEF Boot, UseTypeOK
    <2>2. CASE EndConversion
        BY <1>3, <2>2, UsedTypes DEF EndConversion, Saved, UseTypeOK
    <2> QED BY <1>4, <2>1, <2>2
<1>5. CASE EndSave
    <2>1. performRestart' = (performRestart \/ (Saved /\ "wifi" \in changed))
        BY <1>5 DEF EndSave
    <2>2. performRestart' \in BOOLEAN
        BY <2>1
    <2> QED BY <1>1, <1>5, <2>2, UsedTypes DEF EndSave, UseTypeOK
<1>6. CASE EndSetup
    <2>1. performRestart' \in BOOLEAN
        <3>1. performRestart' = (performRestart \/ Saved) \/ performRestart' = performRestart
            BY <1>6 DEF EndSetup
        <3> QED BY <1>1, <3>1
    <2> QED BY <1>1, <1>6, <2>1, UsedTypes DEF EndSetup, UseTypeOK
<1>7. CASE Take
    <2>1. performRestart' = performRestart
        BY <1>7 DEF Take, TakeSystem, TakeNtp, TakeMqtt, TakeWifi, LongPress, ReadAgain
    <2>2. mqttEnabled' \in {mqttEnabled, TRUE, FALSE}
        BY <1>7 DEF Take, TakeSystem, TakeNtp, TakeMqtt, TakeWifi, LongPress
    <2>3. ap' \in BOOLEAN
        <3>1. CASE LongPress
            <4>1. ap' = (~ap \/ ~HasConfig)
                BY <3>1 DEF LongPress
            <4> QED BY <4>1
        <3>2. CASE ~LongPress
            BY <1>1, <1>7, <3>2 DEF Take, TakeSystem, TakeNtp, TakeMqtt, TakeWifi
        <3> QED BY <3>1, <3>2
    <2> QED BY <1>1, <2>1, <2>2, <2>3, UsedTypes DEF UseTypeOK
<1>8. CASE Restart \/ Reset
    BY <1>8, UsedTypes DEF Restart, Reset, Rebooted, UseTypeOK
<1>9. StartConversion \/ (\E k \in Kinds : SetRecord(k)) \/ Request \/ UNCHANGED vars
        => UNCHANGED <<mqttEnabled, ap, performRestart>>
    BY DEF StartConversion, SetRecord, Request, StartSave, StartSetup, vars, memory
<1> QED BY <1>2, <1>4, <1>5, <1>6, <1>7, <1>8, <1>9 DEF Next, Write

LEMMA TaskTypes ==
    ASSUME TypeOK, [Next]_vars
    PROVE  TaskTypeOK'
<1> USE DEF TaskTypeOK
<1>0. TaskTypeOK
    BY TypeParts
<1>1. CASE UNCHANGED <<changed, ok, task, form, left>>
    BY <1>0, <1>1
<1>2. CASE Boot \/ EndConversion
    <2>1. changed' \subseteq changed \cup {"system"}
        BY <1>2 DEF Boot, EndConversion, ReadAtBoot
    <2> QED BY <1>0, <1>2, <2>1, KindsAre DEF Boot, EndConversion, ReadAtBoot, NoForm
<1>3. CASE StartConversion
    <2>1. DOMAIN form' = Kinds /\ left' = Kinds /\ task' = "convert" /\ UNCHANGED <<changed, ok>>
        BY <1>3 DEF StartConversion
    <2>2. \A k \in Kinds : form'[k] \in Values[k] \cup {Damaged} \/ (k = "ntp" /\ form'[k] = Unset)
        BY <1>3 DEF StartConversion
    <2>3. "ntp" \in Cleared
        BY KindsAre DEF Cleared
    <2> QED BY <1>0, <2>1, <2>2, <2>3, RecordsAre
<1>4. ASSUME NEW f \in Forms, StartSave(f)
      PROVE  TaskTypeOK'
    <2>1. DOMAIN f \subseteq Kinds /\ \A k \in DOMAIN f : f[k] \in Contents[k]
        BY DEF Forms
    <2>2. PICK filled \in Filled(f) : Requested("save", filled)
        BY <1>4 DEF StartSave
    <2>3. DOMAIN filled = DOMAIN f
          /\ \A k \in DOMAIN f : filled[k] = f[k] \/ filled[k] = Damaged
        BY DEF Filled
    <2> QED BY <1>0, <1>4, <2>1, <2>2, <2>3, RecordsAre DEF StartSave, Requested
<1>5. ASSUME NEW s \in Values["system"], NEW w \in Values["wifi"], StartSetup(s, w)
      PROVE  TaskTypeOK'
    <2>1. /\ DOMAIN form' = Kinds /\ left' = Kinds /\ task' = "setup" /\ ok' = TRUE
          /\ UNCHANGED changed
        BY <1>5 DEF StartSetup
    <2>2. \A k \in Kinds : form'[k] = CASE k = "system" -> s [] k = "wifi" -> w [] OTHER -> Unset
        BY <1>5 DEF StartSetup
    <2>3. \A k \in Kinds \ {"system"} : k \in Cleared
        BY DEF Cleared
    <2> QED BY <1>0, <2>1, <2>2, <2>3, RecordsAre
<1>6. ASSUME NEW k \in Kinds, SetRecord(k)
      PROVE  TaskTypeOK'
    <2>1. PICK flags \in FlagsOf(k, form[k]) : changed' = changed \cup flags
        BY <1>6 DEF SetRecord
    <2>2. changed' \subseteq Kinds \ {"web"}
        BY <1>0, <2>1, FlagsAreKinds
    <2>3. left' = left \ {k} /\ (ok' = ok \/ ok' = FALSE) /\ UNCHANGED <<task, form>>
        BY <1>6 DEF SetRecord
    <2> QED BY <1>0, <2>2, <2>3
<1>7. CASE EndSave \/ EndSetup
    <2>1. left = {} /\ left' = {} /\ task' = "loop" /\ form' = NoForm /\ ok' = TRUE
          /\ UNCHANGED changed
        BY <1>7 DEF EndSave, EndSetup
    <2> QED BY <1>0, <2>1 DEF NoForm
<1>8. CASE Take
    <2>1. UNCHANGED <<ok, task, form, left>> /\ changed' \subseteq changed
        BY <1>8
        DEF Take, TakeSystem, TakeNtp, TakeMqtt, TakeWifi, LongPress, ReadAgain, writing
    <2> QED BY <1>0, <2>1
<1>9. CASE Restart \/ Reset
    BY <1>9, KindsAre DEF Restart, Reset, Rebooted, NoForm
<1>10. CASE UNCHANGED vars
    BY <1>1, <1>10 DEF vars, memory, writing
<1> QED BY <1>2, <1>3, <1>4, <1>5, <1>6, <1>7, <1>8, <1>9, <1>10 DEF Next, Request, Write

LEMMA FaultTypes ==
    ASSUME TypeOK, [Next]_vars
    PROVE  FaultTypeOK'
<1>1. FaultTypeOK
    BY TypeParts
<1>2. formFirst' \in BOOLEAN /\ spoilt' \in BOOLEAN
    <2>1. formFirst' \in {formFirst, TRUE, FALSE} /\ spoilt' \in {spoilt, TRUE, FALSE}
        BY DEF Next, Request, Write, Boot, StartConversion, StartSave, StartSetup, SetRecord, EndSave,
               EndSetup, EndConversion, Take, TakeSystem, TakeNtp, TakeMqtt, TakeWifi, LongPress,
               ReadAgain, Restart, Reset, Rebooted, exceptions, vars
    <2> QED BY <1>1, <2>1 DEF FaultTypeOK
<1>3. failed' \subseteq Kinds \cup {"version", "clear"}
    <2>1. CASE UNCHANGED failed \/ failed' = {}
        BY <1>1, <2>1 DEF FaultTypeOK
    <2>2. ASSUME NEW commit \in Kinds \cup {"version", "clear"}, Fails(commit)
          PROVE  failed' \subseteq Kinds \cup {"version", "clear"}
        BY <1>1, <2>2 DEF Fails, FaultTypeOK
    <2>3. Save \/ clear => UNCHANGED failed \/ Fails("version") \/ Fails("clear")
        BY DEF Save, CommitFails, clear, bounds, faults
    <2>4. \A k \in Kinds : SetRecord(k) => UNCHANGED failed \/ Fails(k)
        BY DEF SetRecord, CommitFails, bounds, faults
    <2>5. \/ UNCHANGED failed \/ failed' = {} \/ Save \/ clear
          \/ \E k \in Kinds : SetRecord(k)
        BY DEF Next, Request, Write, Boot, StartConversion, StartSave, Requested, StartSetup, EndSave,
               EndSetup, EndConversion, Take, TakeSystem, TakeNtp, TakeMqtt, TakeWifi, LongPress,
               ReadAgain, Restart, Reset, Rebooted, vars, bounds, faults
    <2> QED BY <2>1, <2>2, <2>3, <2>4, <2>5
<1> QED BY <1>2, <1>3 DEF FaultTypeOK

LEMMA UsedIsConfig ==
    ASSUME IsConfig(used), [Next]_vars
    PROVE  IsConfig(used')
    BY DEF IsConfig, Next, Request, Write, Boot, ReadAtBoot, StartConversion, StartSave, StartSetup,
           SetRecord, EndSave, EndSetup, EndConversion, Take, TakeSystem, TakeNtp, TakeMqtt,
           TakeWifi, LongPress, Restart, Reset, Rebooted, memory, vars

LEMMA TypeStep ==
    ASSUME TypeOK, SetupInv, IsConfig(used), [Next]_vars
    PROVE  TypeOK' /\ IsConfig(used')
<1>1. FlashTypeOK' /\ UseTypeOK' /\ TaskTypeOK' /\ FaultTypeOK'
    BY FlashTypes, UseTypes, TaskTypes, FaultTypes
<1>2. TypeOK'
    BY <1>1 DEF TypeOK, FlashTypeOK, UseTypeOK, TaskTypeOK, FaultTypeOK
<1> QED BY <1>2, UsedIsConfig

\* Every record in the flash, in use and on its way is one of its own kind, and the
\* access record raises no flag, for any records, faults and forms.
THEOREM StoreTypes == StoreSpec => []TypeOK
<1>1. Init => SetupInv /\ TypeOK /\ IsConfig(used)
    BY SetupInit, TypeInit DEF Init, InMemoryAtReset, IsConfig
<1>2. SetupInv /\ TypeOK /\ IsConfig(used) /\ [Next]_vars
        => (SetupInv /\ TypeOK /\ IsConfig(used))'
    BY SetupStep, TypeStep
<1> QED BY <1>1, <1>2, PTL DEF StoreSpec
=============================================================================
