----------------------------- MODULE ConfigStore -----------------------------
(***************************************************************************)
(* The configuration in EEPROM and its use: the five records and the       *)
(* version byte, each with a commit of its own, written by the forms of    *)
(* the web pages, by the setup page and by the conversion of the old       *)
(* layout; the cached version; the flags that tell loop() what to read     *)
(* again.  The program may be reset between any two commits, and a commit  *)
(* may fail, which leaves the flash as it was.                             *)
(*                                                                         *)
(* A record is one value: its strings and numbers are abstracted to        *)
(* whether two records differ in a field that set...Config() compares.     *)
(***************************************************************************)
EXTENDS Integers, Sequences, FiniteSets

CONSTANTS
    Values,         \* kind -> the records its form or the setup page may send
    Unset,          \* the record that clearWifi(), clearMqtt() ... make
    Off,            \* an NTP record that is not enabled
    Blank,          \* a record never written
    Damaged,        \* a record that a layout written over, or the memory, happened to hold
    None,           \* nothing in use; no configuration
    Starts,         \* version bytes the flash may start with
    MaxForms,       \* forms in one request
    MaxRequests,    \* bound: requests that write
    MaxResets,      \* bound: resets nobody asked for
    MaxFailures     \* bound: commits that fail

\* In the order handleSave(), handleSetup() and loadConfig42() write them.
Order == <<"system", "wifi", "mqtt", "web", "ntp">>
Kinds == { Order[i] : i \in DOMAIN Order }

CheckSum == 1       \* EEPROM_CHECK_SUM
Old == 42           \* the version of the old layout
NoVersion == 255    \* (uint8_t) -1, and erased flash
NotRead == 0        \* configVersion before hasConfig()

\* Records that clear() and handleSetup() empty.
Cleared == Kinds \ {"system"}
Contents == [k \in Kinds |-> IF k \in Cleared THEN Values[k] \cup {Unset} ELSE Values[k]]

ASSUME StoreAssumption ==
    /\ DOMAIN Values = Kinds
    /\ \A k \in Kinds : {Blank, Damaged, None, Unset} \cap Values[k] = {}
    /\ Cardinality({Blank, Damaged, None, Unset}) = 4
    /\ Off \in Values["ntp"]
    /\ Starts \subseteq {CheckSum, Old, NoVersion}
    /\ {MaxForms, MaxRequests, MaxResets, MaxFailures} \subseteq Nat

\* To be without a configuration is not to have some configuration.
ASSUME NoneAssumption == None \notin [Kinds -> UNION { Contents[k] : k \in Kinds }]

VARIABLES
    version, stored,        \* the flash: the version byte, kind -> record
    legacy,                 \* the flash still holds the old layout unharmed
    cached,                 \* configVersion
    changed,                \* systemChanged, wifiChanged, mqttChanged, ntpChanged
    used,                   \* kind -> the record in use: sysConfig, *mqttConfig, ...
    mqttEnabled,
    ap,                     \* the bridge is an access point
    performRestart,
    task,                   \* what is being executed
    form, left, ok,         \* the records to write, those still to be, success so far
    failed,                 \* history: the commits that failed since the start
    formFirst,              \* history: since the start, a form came without a configuration
    spoilt,                 \* history: by such a form, or a conversion cut short, records are
                            \* in the flash that nobody sent; until the setup page wrote all
    requests, resets, failures  \* bounds

flash == <<version, stored, legacy>>
memory == <<cached, changed, used, mqttEnabled, ap, performRestart>>
writing == <<form, left, ok>>
exceptions == <<formFirst, spoilt>>
faults == <<failed, failures>>
bounds == <<requests, resets, faults>>
vars == <<flash, memory, task, writing, exceptions, bounds>>

Records == [k \in Kinds |-> Contents[k] \cup {Blank, Damaged}]
NoForm == [k \in {} |-> None]

TypeOK ==
    /\ version \in {CheckSum, Old, NoVersion} /\ legacy \in BOOLEAN
    /\ cached \in {CheckSum, NoVersion, NotRead}
    /\ \A k \in Kinds : stored[k] \in Records[k] /\ used[k] \in Records[k] \cup {None, Unset}
    /\ changed \subseteq Kinds \ {"web"}
    /\ {mqttEnabled, ap, performRestart, ok, formFirst, spoilt} \subseteq BOOLEAN
    /\ task \in {"boot", "convert", "loop", "save", "setup"}
    /\ failed \subseteq Kinds \cup {"version", "clear"}
    /\ DOMAIN form \subseteq Kinds /\ left \subseteq DOMAIN form
    /\ \A k \in DOMAIN form : form[k] \in Records[k]

InMemoryAtReset ==
    /\ cached = NotRead /\ changed = {"ntp"} /\ used = [k \in Kinds |-> None]
    /\ mqttEnabled = FALSE /\ ap = FALSE /\ performRestart = FALSE
    /\ task = "boot" /\ form = NoForm /\ left = {} /\ ok = TRUE
    /\ failed = {} /\ formFirst = FALSE

Init ==
    /\ version \in Starts /\ legacy = (version = Old)
    /\ IF version = CheckSum
       THEN stored \in { c \in [Kinds -> UNION { Values[k] : k \in Kinds }] :
                            \A k \in Kinds : c[k] \in Values[k] }
       ELSE stored = [k \in Kinds |-> Blank]
    /\ InMemoryAtReset /\ spoilt = FALSE
    /\ requests = 0 /\ resets = 0 /\ failures = 0

-----------------------------------------------------------------------------
(* Reading. *)

\* hasConfig(), once the version byte has been read.
HasConfig == cached = CheckSum

\* get...Config(): the stored record, or the cleared one.
Get(k) == IF HasConfig THEN stored[k] ELSE Unset

\* strlen(host) > 0; a blank record is not empty.
HasHost(mqtt) == mqtt \notin {Unset, None}

\* setup() and ws.setup() after hasConfig().
ReadAtBoot(hasConfig, flags) ==
    /\ task' = "loop" /\ form' = NoForm /\ left' = {} /\ ok' = TRUE
    /\ ap' = ~hasConfig /\ performRestart' = FALSE
    /\ mqttEnabled' = (hasConfig /\ HasHost(stored["mqtt"]))
    /\ changed' = IF hasConfig THEN flags \cup {"system"} ELSE flags
    /\ used' = [k \in Kinds |->
                  CASE k = "mqtt" -> None     \* a null pointer until MQTT_connect()
                    [] k = "web" -> IF cached' = CheckSum THEN stored["web"] ELSE Unset
                    [] OTHER -> IF hasConfig THEN stored[k] ELSE None]

\* hasConfig() reads the version byte once.
Boot ==
    /\ task = "boot" /\ version # Old
    /\ cached' = version
    /\ ReadAtBoot(version = CheckSum, changed)
    /\ UNCHANGED <<flash, exceptions, bounds>>

\* Mutant of StartConversion: configVersion stays 42 meanwhile.
ConvertWithoutGuard ==
    /\ task = "boot" /\ version = Old
    /\ cached' = Old /\ task' = "convert"
    /\ \E c \in [Kinds -> {Damaged, Unset}] : form' = c
    /\ left' = Kinds /\ spoilt' = (spoilt \/ ~legacy)
    /\ UNCHANGED <<flash, changed, used, mqttEnabled, ap, performRestart, ok, formFirst, bounds>>

\* loadConfig42() reads the whole old layout before it writes.  configVersion
\* is -1 meanwhile ("Prevent loop"); NTP is set to its defaults.
StartConversion ==
    /\ task = "boot" /\ version = Old
    /\ cached' = NoVersion /\ task' = "convert"
    /\ \E c \in [Kinds -> UNION { Values[k] : k \in Kinds } \cup {Damaged, Unset}] :
        /\ \A k \in Kinds \ {"ntp"} : c[k] \in IF legacy THEN Values[k] ELSE {Damaged}
        /\ c["ntp"] = Unset
        /\ form' = c
    /\ left' = Kinds /\ spoilt' = (spoilt \/ ~legacy)
    /\ UNCHANGED <<flash, changed, used, mqttEnabled, ap, performRestart, ok, formFirst, bounds>>

-----------------------------------------------------------------------------
(* Writing. *)

\* Mutant of FlagsOf: enabling NTP raises no flag.
FlagsWithoutNtpEnable(k, value) ==
    CASE k = "system" -> {{k}}
      [] k = "web" -> {{}}
      [] k = "ntp" /\ HasConfig /\ value # stored[k] /\ stored[k] = Off -> {{}, {k}}
      [] OTHER -> IF value # Get(k) \/ ~HasConfig THEN {{k}} ELSE {{}}

\* The flags set...Config() may raise.  Reading the system record for comparison
\* raises its flag.  Enabling NTP is a change of wifi, which is to say a restart;
\* its other fields may differ as well.
FlagsOf(k, value) ==
    CASE k = "system" -> {{k}}
      [] k = "web" -> {{}}
      [] k = "ntp" /\ HasConfig /\ value # stored[k] /\ stored[k] = Off -> {{"wifi"}, {"wifi", k}}
      [] OTHER -> IF value # Get(k) \/ ~HasConfig THEN {{k}} ELSE {{}}

NextKind(k) ==
    /\ k \in left
    /\ \E i \in DOMAIN Order : Order[i] = k /\ \A j \in 1 .. i - 1 : Order[j] \notin left

Fails(commit) ==
    /\ failures < MaxFailures
    /\ failures' = failures + 1 /\ failed' = failed \cup {commit}
    /\ UNCHANGED flash

CommitFails(commit) ==
    /\ Fails(commit)
    /\ UNCHANGED <<requests, resets>>

\* set...Config(): the flags are raised whatever becomes of the commit.  The
\* records lie where the old layout lay.
SetRecord(k) ==
    /\ NextKind(k)
    /\ left' = left \ {k}
    /\ \E flags \in FlagsOf(k, form[k]) : changed' = changed \cup flags
    /\ \/ /\ stored' = [stored EXCEPT ![k] = form[k]] /\ legacy' = FALSE
          /\ ok' = ok
          /\ UNCHANGED <<version, spoilt, bounds>>
       \/ /\ CommitFails(k)
          /\ ok' = FALSE /\ spoilt' = (spoilt \/ task = "convert")
    /\ UNCHANGED <<cached, used, mqttEnabled, ap, performRestart, task, form, formFirst>>

\* save(): configVersion is set whatever becomes of the commit.
Save ==
    /\ cached' = CheckSum
    /\ \/ version' = CheckSum /\ UNCHANGED <<stored, legacy, bounds>>
       \/ CommitFails("version")

Saved == failures' = failures

\* The end of loadConfig42(): its success is save()'s alone.
EndConversion ==
    /\ task = "convert" /\ left = {}
    /\ Save
    /\ ReadAtBoot(Saved, changed)
    /\ UNCHANGED exceptions

-----------------------------------------------------------------------------
(* Requests. *)

Requested(t, request) ==
    /\ task = "loop" /\ requests < MaxRequests
    /\ requests' = requests + 1
    /\ task' = t /\ form' = request /\ left' = DOMAIN request /\ ok' = TRUE
    /\ UNCHANGED <<resets, faults>>

\* A request with some of the forms mbc, wc, mqc, ac, nc.
Forms == UNION { { f \in [K -> UNION { Contents[k] : k \in Kinds }] :
                     \A k \in K : f[k] \in Contents[k] } :
                 K \in { K \in SUBSET Kinds : K # {} /\ Cardinality(K) <= MaxForms } }

\* What handleSave() makes of the forms.  Only two of the numbers of the system record
\* are in its form: without a configuration the third is what the memory holds.
Filled(request) ==
    {request} \cup
    IF HasConfig \/ "system" \notin DOMAIN request THEN {}
    ELSE { [request EXCEPT !["system"] = Damaged] }

\* handleSave(), which does not ask hasConfig().  The web server keeps the access record
\* it was sent.
StartSave(request) ==
    /\ \E filled \in Filled(request) : Requested("save", filled)
    /\ formFirst' = (formFirst \/ ~HasConfig) /\ spoilt' = (spoilt \/ ~HasConfig)
    /\ used' = IF "web" \in DOMAIN request THEN [used EXCEPT !["web"] = request["web"]] ELSE used
    /\ UNCHANGED <<flash, cached, changed, mqttEnabled, ap, performRestart>>

\* What the set functions return is not looked at.
EndSave ==
    /\ task = "save" /\ left = {}
    /\ Save
    /\ performRestart' = (performRestart \/ (Saved /\ "wifi" \in changed))
    /\ task' = "loop" /\ form' = NoForm /\ ok' = TRUE
    /\ UNCHANGED <<changed, used, mqttEnabled, ap, left, exceptions>>

\* Mutant of clear: the version byte stays.
ClearKeepsVersion ==
    \/ /\ stored' = [k \in Kinds |-> IF k \in Cleared THEN Unset ELSE stored[k]]
       /\ UNCHANGED <<version, legacy, faults>>
    \/ Fails("clear")

\* clear(): one commit; the cached version stays.
clear ==
    \/ /\ stored' = [k \in Kinds |-> IF k \in Cleared THEN Unset ELSE stored[k]]
       /\ version' = NoVersion /\ legacy' = FALSE
       /\ UNCHANGED faults
    \/ Fails("clear")

\* handleSetup(): system and WiFi as asked for, the rest cleared.
StartSetup(system, wifi) ==
    /\ task = "loop" /\ requests < MaxRequests
    /\ clear
    /\ requests' = requests + 1
    /\ task' = "setup" /\ left' = Kinds /\ ok' = TRUE
    /\ form' = [k \in Kinds |-> CASE k = "system" -> system [] k = "wifi" -> wifi [] OTHER -> Unset]
    /\ used' = [used EXCEPT !["web"] = Unset]
    /\ UNCHANGED <<cached, changed, mqttEnabled, ap, performRestart, resets, exceptions>>

\* Mutant of EndSetup: saved although a record could not be set.
EndSetupAnyway ==
    /\ task = "setup" /\ left = {}
    /\ Save
    /\ performRestart' = (performRestart \/ Saved)
    /\ task' = "loop" /\ form' = NoForm /\ ok' = TRUE /\ spoilt' = (spoilt /\ ~ok)
    /\ UNCHANGED <<changed, used, mqttEnabled, ap, left, formFirst>>

EndSetup ==
    /\ task = "setup" /\ left = {}
    /\ IF ok
       THEN Save /\ performRestart' = (performRestart \/ Saved)
       ELSE UNCHANGED <<flash, cached, performRestart, bounds>>
    /\ task' = "loop" /\ form' = NoForm /\ ok' = TRUE /\ spoilt' = (spoilt /\ ~ok)
    /\ UNCHANGED <<changed, used, mqttEnabled, ap, left, formFirst>>

-----------------------------------------------------------------------------
(* loop(): what is read again. *)

ReadAgain ==
    /\ task = "loop"
    /\ UNCHANGED <<flash, cached, performRestart, task, writing, exceptions, bounds>>

TakeSystem ==
    /\ ReadAgain /\ "system" \in changed
    /\ used' = IF HasConfig THEN [used EXCEPT !["system"] = stored["system"]] ELSE used
    /\ changed' = changed \ {"system"}
    /\ UNCHANGED <<mqttEnabled, ap>>

TakeNtp ==
    /\ ReadAgain /\ ~ap /\ "ntp" \in changed
    /\ used' = IF HasConfig THEN [used EXCEPT !["ntp"] = stored["ntp"]] ELSE used
    /\ changed' = changed \ {"ntp"}
    /\ UNCHANGED <<mqttEnabled, ap>>

\* MQTT_connect(), which is called while there is no session or a change.  The
\* change is acknowledged without a host, or when the broker accepts (MqttSession.tla).
TakeMqtt ==
    /\ ReadAgain /\ ~ap /\ (mqttEnabled \/ "mqtt" \in changed)
    /\ used' = [used EXCEPT !["mqtt"] = Get("mqtt")]
    /\ IF HasHost(Get("mqtt"))
       THEN /\ changed' \in {changed, changed \ {"mqtt"}}
            /\ mqttEnabled' \in {mqttEnabled, TRUE}
            /\ "mqtt" \notin changed' => mqttEnabled'
       ELSE changed' = changed \ {"mqtt"} /\ mqttEnabled' = FALSE
    /\ UNCHANGED ap

\* WiFi_connect(), when the connection is gone (WifiMode.tla).
TakeWifi ==
    /\ ReadAgain /\ ~ap
    /\ IF HasConfig /\ stored["wifi"] # Unset
       THEN used' = [used EXCEPT !["wifi"] = stored["wifi"]] /\ UNCHANGED ap
       ELSE ap' = TRUE /\ UNCHANGED used
    /\ UNCHANGED <<changed, mqttEnabled>>

\* The button: swapWifiMode().  Without a configuration always the access point.
LongPress ==
    /\ ReadAgain
    /\ ap' = (~ap \/ ~HasConfig) /\ ap' # ap
    /\ UNCHANGED <<changed, used, mqttEnabled>>

-----------------------------------------------------------------------------
(* Resets. *)

Rebooted ==
    /\ cached' = NotRead /\ changed' = {"ntp"} /\ used' = [k \in Kinds |-> None]
    /\ mqttEnabled' = FALSE /\ ap' = FALSE /\ performRestart' = FALSE
    /\ task' = "boot" /\ form' = NoForm /\ left' = {} /\ ok' = TRUE
    /\ failed' = {} /\ formFirst' = FALSE
    /\ UNCHANGED <<flash, spoilt, requests, failures>>

\* restartWaitHtml(), when the page is opened.
Restart ==
    /\ task = "loop" /\ performRestart
    /\ Rebooted /\ UNCHANGED resets

Reset ==
    /\ task # "boot" /\ resets < MaxResets
    /\ resets' = resets + 1
    /\ Rebooted

Request ==
    \/ \E f \in Forms : StartSave(f)
    \/ \E s \in Values["system"], w \in Values["wifi"] : StartSetup(s, w)

Write == (\E k \in Kinds : SetRecord(k)) \/ EndSave \/ EndSetup \/ EndConversion
Take == TakeSystem \/ TakeNtp \/ TakeMqtt \/ TakeWifi \/ LongPress

Next == Boot \/ StartConversion \/ Request \/ Write \/ Take \/ Restart \/ Reset

StoreSpec == Init /\ [][Next]_vars

-----------------------------------------------------------------------------
(* Properties. *)

\* The configuration the flash stands for: what the next start would find.  It stands
\* for none while records are in it that nobody sent.
Configuration ==
    IF version = CheckSum /\ ~spoilt THEN stored ELSE None

\* What the next start takes for a configuration is whole, and changes record by
\* record, however the writes of handleSetup(), handleSave() and loadConfig42() are cut
\* short: none of its records is one that was never written, nor one read from a layout
\* already written over.  Three things end this, and only they do: a form saved without
\* a configuration, since save() puts the check sum on whatever the flash holds; a
\* conversion that begins again after it has written; and one of its commits failing.
\* The setup page, when it has written all the records, brings it back.
Promise == INSTANCE StoredConfig WITH config <- Configuration
KeepsPromise == Promise!Spec

\* A configuration that the setup page brings into force is the one that was
\* asked for, record by record, although any of its commits may fail.  (When it
\* is clear()'s that fails, the old one stays in force and is written over.)
SetupIsWhole ==
    [][task = "setup" /\ version # CheckSum /\ version' = CheckSum => stored' = form]_vars

\* What the program uses is what is stored, but for what a flag or a restart that is
\* asked for will bring.  Commits that fail cost no more than the access record,
\* which the web server uses before it is stored, and NTP switched on: when a commit
\* fails, handleSave() or handleSetup() may ask for no restart, and the flag of WiFi
\* stays until the next form does.  It does not hold from a form saved without a
\* configuration to the next start: save() makes a configuration of what the flash
\* holds, and the records that were in no form are neither read nor flagged.
UsedOrDue ==
    task = "loop" /\ ~performRestart /\ version = CheckSum /\ ~formFirst =>
        \A k \in Kinds \ changed :
            \/ used[k] = stored[k]
            \/ k = "mqtt" /\ used[k] = None /\ (mqttEnabled \/ ~HasHost(stored[k]))
            \/ k = "web" /\ k \in failed
            \/ k = "ntp" /\ failed # {} /\ "wifi" \in changed

=============================================================================
