# Verification of villavent-bridge

villavent-bridge is the firmware of an ESP32 that connects a Villavent ventilation
unit (Modbus RTU) to MQTT and to a small web server. This directory holds TLA+
modules of its core, the TLC configurations that check them on small instances, and
proofs for TLAPS of what matters most. `PROJECT.json` maps every definition to the
source lines it models.

Run them with `tlc -workers 2 -config core.cfg MCRegisterManager.tla` (the module of
each configuration is in the table of runs below) and `tlapm RegisterManagerProofs.tla`.

## 1. The system

### Components

| Component | State it keeps | Operations | Correct when |
|---|---|---|---|
| Register cache and `regman` task (`registermanager.cpp`, `register/register.cpp`) | `m_sem`, `m_enabled`, `m_state`; per block the time of the last poll; per register value, pending value, flag byte, MQTT time stamp | `taskCode` rounds: `processPendingCommits`, `updateRegisters` (`readRegister`, `readCoil`); `enable`, `disable`; `accept`; `setPendingWriteBy...` | one task at a time is inside; requested values reach the unit, in order, once asked for; no update is lost |
| Main loop (`main.ino`) | copy of the system configuration, the static `MQTTUpdateVisitor` | network, `mqtt.loop`, `ws.loop`, reconfiguration of the Modbus client, one export pass | the Modbus client is set up only while `regman` is outside of it; every changed value is exported in the end |
| Register table and conversion (`registermanager.cpp`, `register/*`) | constant | `findRegister...`, `getFormattedValue`, `setFormattedValue` | a published value that comes back changes nothing, a request goes to the register it names, one that is dropped asks for nothing new |
| MQTT session (`main.ino`, `MQTT_connect`) | client, `lastMqttRetry`, `mqttEnabled`, the change flag | connect, subscribe, publish, receive | a changed configuration is used in the end; retries are spaced |
| Configuration store (`configuration.cpp`) | version byte and five records in EEPROM, the cached version, four "changed" flags | get, set, ack, `save`, `clear`, `loadConfig42` | a start finds a whole configuration or none; what is used is what is stored, or a flag or a restart will bring it |
| Web server (`web/`) | page state, upload file, `performRestart` | pages, `dataJson`, `writeJson`, `handleSave`, `handleSetup`, uploads | each form stores what it shows |
| WiFi (`main.ino`) | mode, `lastWifiRetry`, DNS server, `wifiConnected`, the button | `WiFi_connect`, `swapWifiMode` | the bridge is reachable in one of its two modes, and does not swap to and fro |
| Firmware update (`main.ino`, `web/`) | the file, `uploading` | upload, flash in `setup()`, restart | the bridge comes to run; nothing is flashed twice, or mixed |
| LEDs (`HwTools.cpp`, `errorBlink`), uptime, debugger, supply voltage, signal strength | `lastError`, `lastErrorBlink`; rollovers of the clock | | not modelled |

### How they interact

- Two FreeRTOS tasks: `regman` on core 0 and `loop()` on core 1. The web server runs
  inside `loop()`; the task it once had is commented out.
- Both use the register cache. `m_sem` is taken by `regman` for a whole round (which
  includes Modbus timeouts of two seconds each), by `accept()` for a traversal (with a
  timeout of 300 ms in `loop()`, without one in `dataJson()`), and by `enable()` and
  `disable()`.
- **Write requests do not take it.** They come from `mqttMessageReceived()` and
  `writeJson()`, store the value and then set a bit in the flag byte of the register,
  a byte in which `regman` sets and clears other bits.
- `mqttMessageReceived()` is a callback of `mqtt.loop()`, which `sendMqttMessage()`
  calls too: a request may be stored in the middle of an export pass.
- `getSystemConfig()` raises the flag that says the system configuration changed.
  Each page that shows it therefore makes `loop()` disable the manager, set up the
  Modbus client again **without the semaphore**, and enable the manager.
- The records of the configuration are written one by one, each with a commit of its
  own, and the version byte last. What the program uses are copies; a change flag or a
  restart has to bring them up to date. The restart is not immediate: `performRestart`
  takes effect when the browser opens `/restart-wait`.
- `WiFi_connect()` and `swapWifiMode()` call each other.
- `errorBlink()` reads the time of the last read, which `regman` writes without it.

### What is hard

Read-modify-writes of one byte by two tasks; a value read before up to two Modbus
timeouts and used after them; a unit that got a write though its answer was lost;
retry loops whose outer `result` is hidden by an inner variable; a visitor that stops
after three messages; time stamps of 16 bits that wrap; sending while the session is
gone; a reset between two commits, or between flashing a file and removing it; a commit
that fails among others that succeed; an upload that is aborted and tried again; flags
kept across a change of the WiFi mode. `PROJECT.json` lists each hazard at its line with the properties about it.

## 2. The modules

| Module | Models | Checked by |
|---|---|---|
| `RegisterManager` | the cache, `regman`, and the part of `loop()` that uses the cache | `MCRegisterManager`: core, live, lostRequest, failedWrite |
| `OrderedWrites` | abstract: what those who request a value are promised | as a property of core |
| `RegisterManagerProofs` | proofs of all its safety properties and of the refinements of `OrderedWrites` and `UpdateExport` | TLAPS |
| `UpdateExport` | the passes of `MQTTUpdateVisitor`, round robin, with a session that breaks | `MCUpdateExport`: export; as a property of core and session_export |
| `MqttSession` | `MQTT_connect()`, the network part of `loop()`, the MQTT record and its change flag | `MCMqttSession`: session |
| `MqttSessionProofs` | proofs of its types and of `SessionIsConfigured` | TLAPS |
| `SessionExport` | the session and the export in one `loop()`: both modules instantiated | `MCSessionExport`: sessionExport |
| `SessionExportProofs` | proofs that it implements both, of what is sent, and of the types of `UpdateExport` | TLAPS |
| `ConfigStore` | EEPROM commit by commit, the flags, the copies in use; forms, setup page, conversion | `MCConfigStore`: store |
| `StoredConfig` | abstract: what the store promises the next start | as a property of store |
| `ConfigStoreProofs` | proofs of its types, `SetupIsWhole`, `UsedOrDue`, and of the refinement of `StoredConfig` | TLAPS |
| `WifiMode` | station, access point, retry period, DNS server, mDNS, the button | wifi |
| `WifiModeProofs` | proofs of its invariants | TLAPS |
| `FirmwareUpdate` | upload, restart, flashing in `setup()` | `MCFirmwareUpdate`: update |
| `FirmwareUpdateProofs` | proofs of its types, `NoLeftover` and `ReceivedIsKept` | TLAPS |
| `ThrottleClock` | the throttle of one register on a wrapping clock | throttle |
| `ThrottleClockProofs` | proofs of `WaitBounded` and `ExportsSpaced` | TLAPS |
| `RegisterTable`, `RegisterValues` | the 13 blocks, look-up, both directions of each conversion, the way of a value to a client and back | `MCRegisterValues`: values |
| `RegisterValuesProofs` | proofs of `FoundOwnsAddress`, `EchoKeepsValue`, `RequestInForce`, and that the table is a layout `RegisterManager` assumes | TLAPS |

### RegisterManager

`rmPc` is the place of `regman` in `taskCode()`:

    sleep -> round -> scan <-> write -> confirm -> clear      (processPendingCommits)
                 \-> give      poll <-> reading -> store -> or  (updateRegisters)
                               give -> sleep

`mPc` is the place of `loop()`: its own top (`loop`), a stored request (`load`, `or`),
the JSON export (`json`, `jsonEnd`), the reconfiguration (`disable` .. `enabling`)
and the pass of the visitor (`accept`, `next`, `visit`, `sent`, `end`).

- `value`, `pending`, `flags` are the members of `SingleReg`. `m_flags |= x` is two
  steps, load and store, wherever the other task may be at the byte; under the
  semaphore of the visitor only a request could interfere, and that is main itself.
- A Modbus write is `RmWriteOk` or `RmWriteFail`; a failed one may have reached the
  unit. Reads return any value.
- `due[b]` stands for `needsUpdate()`; `IntervalPasses` sets it. It cannot become true
  while `updateRegisters()` runs, which compares with the time it was entered at.
- `requests`, `delivered`, `captured`, `handed`, `failed` are history: no guard reads
  them, except `requests` for the bound `MaxRequests`.
- `PendingWriteVisitor::visit()` always returns success, and `readCoil()` tests a
  variable that was never assigned: both loops declare a second `result`. The model
  does what the code does: failed writes are followed by the reads, and after a coil
  block either outcome is possible.

Not in this module: the statistics counters, the texts that are logged, values of
registers that are not readable (nothing looks at them).

### UpdateExport

One traversal per `Accept` .. `Done`; blocks from where the last pass stopped; a pass
ends after `MaxMessages`. Values change between passes only, since a pass holds the
semaphore. `updated` are the registers that are marked, `known` those of which the broker
has the value there is now. `MarkLost` is what finding 1 makes of a mark: a write request
stores back a flag byte that is older than the mark. Only registers of `Writeable` can
lose theirs that way. `ConnectionLost` is external. Out of a pass the position and the
counters are 1 and 0.

`RegisterManager` implements this module (`UpdateExportSpec`): the passes there are the
same code, with `regman`, the requests and the reconfiguration in between. The mapping
takes `mBlock`, `mIdx`, `mVisited`, `mSent` and `vIndex` as they are; a place where main
stores a request that came in while a message was sent counts as `sent`, every other one
out of the visitor as `loop`. A register is `updated` when its flag is up *or* `regman` is
between the value and the flag (`or`), and `known` when the value handed to
`sendMqttMessage()` last is the one in the cache and no mark says otherwise. The session is
not part of `RegisterManager`, so `connected` is TRUE there: what happens when it breaks is
`SessionExport`'s subject.

### MqttSession

One iteration of `loop()` is three places: the network part (`network`), `ws.loop()`
(`web`) and the export pass (`export`). `MQTT_connect()` blocks `loop()`, so that each of
its paths is one step: `SwitchedOff` (no host), `TooSoon`, `Connected`, `Refused`.
`stored` is the MQTT record, `changed` is `mqttChanged`, `loaded` is `*mqttConfig`,
`elapsed` is `millis() - lastMqttRetry`, cut off at the longer retry period. A
configuration is a model value; `NoHost` is the record that switches MQTT off,
`NoRecord` that there is none. `error` after a refused attempt is either value, because
it depends on the MQTT library. `handleSetup` empties the record before it compares with
it, so it raises no flag and relies on the restart (`performRestart`). Without a record
the bridge stays an access point. EEPROM writes are taken to succeed here; `ConfigStore`
has the ones that do not.

### SessionExport

`MqttSession` and `UpdateExport` in one `loop()`. Each is instantiated; every step is one
of the first, one of the second (`NewValue`, `MarkLost` and most of the pass), or the end of
a pass, which is a step of both. What
`UpdateExport` calls `connected` is what `sendMqttMessage()` looks at: a session and a
topic in `*mqttConfig`, whichever configuration that is. The specifications of the two
modules are then properties of the composition (`KeepsSession`, `KeepsExport`): what is
checked of each on its own holds when they interleave. Restarts are left out, because a
pass does not survive one; the behaviours are those between two starts.

### ConfigStore

`version` and `stored` are the flash, `cached` is `configVersion`, `used` are the copies
(`sysConfig`, the `NtpConfig` handed to `configTime`, `*mqttConfig`, the server's
`webConfig`, the record WiFi was begun with). `task` is what is being executed: a request
is a `StartSave` or `StartSetup`, then one `SetRecord` for each record, in the order of the
code, then `EndSave` or `EndSetup`. `Reset` may come between any two of them; a commit may
fail (`Fails`), which leaves the flash and is reported by the function's result. The
code's use of that result is modelled: `handleSetup()` looks at it, `handleSave()` and
`loadConfig42()` do not. `failed` is history: which commits failed since the start.

A record is one value. `Unset` is what `clear...()` makes, `Blank` a record never written,
`Damaged` one read from an old layout that new records have been written over: such a
layout is `legacy = FALSE`. `FlagsOf` says which flags a `set...Config()` may raise: any
difference is one in a compared field.

Two things the code allows break the promise of `StoredConfig`: a form saved on a bridge
that is not set up (`handleSave()` has no check, and `/save` is there from the start), and
a conversion that is cut short, by a reset or a commit that fails. Both are steps of the
model. `spoilt` is history that says since when the flash has held records nobody sent on
account of one of them: `Configuration` is `None` meanwhile, and it ends when the setup page
has written all five records. `formFirst` says that a form came without a configuration since
the start, which `UsedOrDue` excepts: `save()` makes a configuration of records that were in
no form, and these are neither read nor flagged before the next start. `Filled` is what
`handleSave()` makes of a form: without a configuration one number of the system record is
never assigned.

### WifiMode

One iteration of `loop()` is two places, the button and the network. `elapsed` is
`millis() - lastWifiRetry` up to `WIFI_CONNECTION_TIMEOUT`, `held` the time the button has
been held. A call of `WiFi_connect()` or `swapWifiMode()` is one step, the calls within it
included: with the time noted and the radio off, they are at most two deep.

### FirmwareUpdate

`file` is the sequence of pieces in `FILE_FIRMWARE`, each with the upload it is of. An
upload is `UploadStart`, pieces, and `UploadEnd` or `UploadAborted`, in one call of
`handleClient()`, so that no other request comes between. A file that is open when the
program ends keeps some beginning of what was written. What the client is answered is left
out, since nothing depends on it: an upload that is refused, or told that the file could
not be created, is received all the same.

### ThrottleClock

`Modulus` is 65536 in the code. The clock and the stamp are the 16 middle bits of
`millis()`; `readyForMqttExport` is the comparison as written, the special value 0
included.

### RegisterTable, RegisterValues

The addresses, lengths and permissions of the constructors; a named register stands for
its name. Text is a record of what it says (a number in hundredths, or a word), so that
truncation by `toInt()`, scaling by ten and the shifts of levels and years are modelled
by what they do. The values a register has in the unit by itself (`MayBe`, at first and by
`Panel`) are assumed to be what its kind can have: not negative where the register is
written, and below 70 degrees (700) for the frost protection level, whose payloads
`setFormattedValue()` takes for tenths from 70 on. A request that is parsed is compared with
the last one (`Marks`, `pending` is `m_pending_set_value`), and one that is marked is written
as 16 bits and read back signed (`Stored`), so that it may be negative where the unit's own
values are not. It is written at once: what may come between, failures and newer requests, is
in `RegisterManager`, where values are only compared. `VAL_INVALID` is -404, as in the code,
where it is also a number a client may send; `Rejected`, that a payload is refused, is no
number.

## 3. The runs

| Run | Question | Result |
|---|---|---|
| core | every interleaving of both tasks: types, semaphore, reconfiguration, what is written, what is exported, `OrderedWrites`; do its passes do what `UpdateExport` says? | holds, 1.1 million states |
| live | is either task shut out, though the unit may fail for ever? with a unit that answers now and then, are pending writes written and due blocks polled? | neither is; yes, unless the manager is disabled again and again |
| lost_request | is a request that was not delivered still marked? | **no** (finding 1) |
| failed_write | does a failed write end the round? | **no** (finding 2) |
| export | does each block get its turn, does everything drain? | first registers always, all once values rest |
| values | does a value that comes back change anything; is anything lost when a request is dropped as a repetition; does look-up find the owner? | no, but for three exceptions; not unless the unit changed it, or for -404; yes; 807 thousand states |
| throttle | bounded wait and spacing on a clock that wraps | both hold |
| session | does a session outlive a change of its configuration; does the configured one come about? | no; yes |
| session_export | do session and export keep their properties together; do updates go to the right broker, and arrive? | yes (arrive: for registers nobody asks to change), 146 thousand states |
| store | does a start find a whole configuration or none; is a setup stored whole; is what is used what is stored, but for flags and restarts outstanding, and what is left of that when a commit fails? | yes; until a form comes without a configuration or a conversion is cut short, and again after a setup; all but the access record and NTP; 3.8 million states |
| update | does the bridge always come to run; is a file flashed once, and kept till then? | yes |
| wifi | does the mode settle; is the bridge connected again, or an access point? | yes |

### Bounds and why they are enough

- core: one block with two registers, one of which is writeable, two values, two
  requests, two messages per pass. The races are between two tasks at one register or
  at two registers of a block; a third register adds a place to scan. Two requests are
  what it takes for a newer one to overtake an older one between capture and
  confirmation. With `MaxMessages` 2 the limit is met inside the block; values are
  symmetric, since the code only compares them.
- live: a register block and a coil block, one value, one request: every error path of
  both block types. The coil block has the writeable register, so that it could be passed
  over in favour of the first. `DueBlocksPolled` says something of the first block only,
  since reads of coils may be taken for failed.
- export: blocks of three and two registers with `MaxMessages` 3, the value in the code:
  a pass is filled by one block, and one register is throttled. Marks are lost in either
  block, of a register that is throttled or not.
- throttle: a clock of 16 readings and period 5, so that it wraps often; `MaxWait` 40 is
  more than twice round.
- session: two configurations besides none, so that a change from one to the other and
  back is possible; retry periods of 1 and 3 ticks, so that they differ.
- session_export: two blocks of one register, `MaxMessages` 1, so that a pass ends before
  the second block; two configurations; the marks of the first block's register may be lost.
- store: one record of each kind, and emptied ones where a form may empty them; NTP on and
  off. Three requests, so that a form that spoils the flash or a setup that fails is followed
  by a setup and that by a form; one reset and one failed commit. Each page sends the form of
  one record (`MaxForms` 1); the theorems are for any number of forms in a request, and any
  records.
- update: two images in two pieces, three uploads (one that is aborted, one that is
  refused, one after a restart), two resets.
- wifi: short periods for the button and the retry, so that either may be over first; one
  form.
- values: the whole table; register values -3 .. 24, 59 and 68 .. 122, which holds both
  ends of every range the code tests and the truncated half degrees; the words of each
  kind and 15 numbers as what clients send, with three that a signed 16-bit value or
  `VAL_INVALID` makes something else of; five values the unit takes by itself.

### Fairness

`Scheduling` is weak fairness of the steps of each task (they run on different cores)
and strong fairness of a task's take of the semaphore. The latter is what FreeRTOS and
the code give together: `regman` sleeps for at least 200 ms after each give, so a main
task that is blocked is woken; main runs the rest of `loop()` between its takes.
`accept()` with its 300 ms timeout gets *no* fairness: `regman` may hold the semaphore
longer than that in every round. Strong fairness of the end of `loop()` says that
requests and pages do not arrive so densely that `loop()` never gets there.
`UnitAnswers` is an assumption about the unit, made only by `PendingWritesDrain` and
`DueBlocksPolled`: whenever a register (or a block) is tried again and again, some try
succeeds. In UpdateExport the passes are
weakly fair, and a throttled register that is visited again and again is sent (its
period ends: `ThrottleClock`). In MqttSession `loop()` and time go on, and `Connected` is
strongly fair: a broker that is tried again and again accepts at some time.
In FirmwareUpdate `setup()` goes on by itself. In WifiMode `loop()` and time go on, and a
network that can be reached answers an attempt that is made again and again; the
properties are for a bridge that is left alone from some time on (no press or release of
the button, no restart, no network lost). SessionExport adds nothing but `loop()`.
`SessionSettles` is for the time when the stored record stays what it is, WiFi stays, no
restart is outstanding and nothing drops the session.

## 4. The proofs

The theorems about `RegisterManager` are for any number and layout of blocks, any sets of
readable, writeable and throttled registers, any set of values, any number of requests and any limit of
messages, from the three assumptions in `RegisterManager` alone (`BlocksAssumption`,
`DisjointAssumption`, `RegistersAssumption`). `TableIsLaidOut` (`RegisterValuesProofs`)
shows that the 13 blocks of the bridge are such a layout; that blocks do not overlap is
used by `PassesExport` only, which takes a register from its address.

- `SemaphoreAccounted`, `ReconfigurationExclusive`: by the inductive invariant `LockInv`.
  `ReconfigureExclusive` is not inductive: that a round is over when main is at `begin`
  needs that a round under way implies `enabled`, which needs that `enabled` is cleared
  only under the semaphore, which needs the semaphore's accounting.
- `TypeCorrect`: by `TypeInv`, which adds `ExportLimit` to `TypeOK`: the counter of
  messages is within its limit because it is strictly below it wherever the traversal
  goes on, requests stored in the middle of it included, and zero outside.

- `OnlyRequestsWritten`, `WritesAreOrdered`: by `RequestInv`. The captured value is a
  request no older than the last one delivered, because what `regman` captures is the
  last request: `pending` holds that one whenever there is one at all, and
  `PENDING_WRITE` is in a flag byte (or in the copy a task is about to store back) only
  where there is one. A step of `regman` that delivers is then `Deliver` of the abstract
  specification, or a stutter when the same value is written once more; a stored request
  is `Request`. The refinement maps `requests` and `delivered` to themselves. That a
  request may be *dropped* (finding 1) does not contradict it: `OrderedWrites` promises
  the order, not the delivery.

- `SentIsCurrent`, `UpdatesAreTracked`: by `UpdateInv`, on top of `LockInv` (while main sends
  it holds the semaphore, so that `regman` stores nothing) and `RequestInv` (what `regman`
  clears a flag of was requested). It adds that a request for the very register that is
  being sent stores back a byte with `VALUE_UPDATED` in it, because it loaded the byte after
  main found the flag there. For registers that are requested `UpdatesAreTracked` does not
  hold: the race of finding 1 takes a `VALUE_UPDATED` flag just as well as a pending one.

- `PassesExport`: by `TypeInv`, `LockInv`, `UpdateInv` and `MarkInv`. Each action of the
  visitor is the one of the same part of the code in `UpdateExport`; `RmStoreNew` is
  `NewValue`, because the semaphore keeps it out of a pass; `RmSetUpdated` stutters, as the
  mark counts from the new value on; and a request that is stored is `MarkLost` when
  `regman` marked the register after the request had loaded the byte. Everything else
  stutters. `MarkInv` says what the copy of a flag byte that a task is about to store can do
  to the mark in it: main's copy has no mark that the byte has not, so that a request brings
  none back; while a message is being sent, and when `regman` clears a pending flag, the copy
  has the mark if the byte has it, so that none is taken; and requests are stored at
  writeable registers only. That `MarkLost` may leave the broker knowing the value is no
  slack: a value that has gone from one to another and back before the mark was lost is the
  one the broker got.

- `SessionConfigured` (`MqttSession`, from `SessionAssumption`): `SessionIsConfigured` is
  inductive together with `TypeOK`. A save that changes the record raises the flag and a
  later one cannot take it back; a configuration is loaded only where there is no session
  or the flag is up; and the flag goes only with a new session or with `enabled`.

- `SessionTypes`: `TypeOK` of `MqttSession` is inductive.

- `SessionKept`, `ExportKept` (`SessionExport`, from `CompositionAssumption`): every step of
  the composition is a step of `MqttSession` or leaves all its variables alone, and the same
  for `UpdateExport`. For the latter `CanSend`, which is an expression and not a variable,
  may become true only between two passes: by `PassInv`, `loop()` is at its place for the
  export whenever a pass is under way, and loads a configuration or opens a session
  elsewhere. Losing the session is `ConnectionLost` wherever the pass is.
- `SentIsConfigured`: by `SentInv`, `SessionIsConfigured` carried over to the composition.
  `CanSend` excludes its second case, in which MQTT has just been switched off: what is
  loaded then has no host, and `NoHost` is not among the configurations.
- `ExportTypes`: by `CountInv`. `Confirm` counts a message before it compares with the limit,
  so that the counter is strictly below it wherever the pass goes on. The visitor is at a
  register of the table because `NextRegister` stops at the last of its block, and the
  next index is taken modulo the number of blocks. It is stated of the composition, which
  implements `UpdateExport` with any blocks, limit and throttled registers.
- `UpdatesWaitForPeriod`, `ExportsAreSpaced` (`ThrottleClock`): by `ClockInv`, for a clock
  with any number of readings and any period but the longest, `Modulus - 1`. The history
  counters, which do not wrap, are related to the difference of the readings, which does: an
  update has waited at most as many ticks as the difference says, and the difference is at
  most the time since the export. `ExportsAreSpaced` is for a
  register with a period, and for a bound of the counters above it.
- `SetupTakesEffectWhole` (`ConfigStore`): by `SetupInv`. While the setup page's records
  are written and none has failed, those no longer left to write are stored; the version
  byte is written when none is left and none has failed.
- `StoreTypes`: the types of the flash, of the flags and copies, and of the running request
  are inductive together, with no assumption about forms or conversions.
- `UsedIsDue`: by `DueInv`, which has three parts. `Versions`: the cached version is that of
  the flash or ahead of it, because `save()` sets it although its commit failed and `clear()`
  leaves it. `WifiDue`: whenever the flash has no version byte and the program believes in a
  configuration, the flag of WiFi is up. A setup page has emptied the record of WiFi before
  it set one that is not empty, and a conversion sets it without a configuration; nobody
  takes that flag back before a restart. So the form that will put the version byte on
  the records of a failed setup asks for a restart, and whatever has become of the copies in
  use does not matter. `InUse`: with the version byte in place, a kind without a flag is up
  to date, or excused. While a request runs this holds only in part: switching NTP on relies
  on the restart at its end, and the web server uses its record before it is stored.
  Commits of every kind may fail, any number of times, conversions included; what that costs
  is the two differences `UsedOrDue` names, and without either of them TLC finds a
  counterexample. A form without a configuration ends `DueInv` until the next start, which
  makes it hold whatever came before (`FormlessInv`, `DueReset`).
- `StoreKeepsPromise`: by `WholeInv` as well. It says that records are whole not only when
  the version byte says so but when the *cached* version does, because `save()` sets that
  one whatever becomes of its commit, and a later form relies on it; and that a conversion
  has the old layout unharmed to start from. A `SetRecord` is then `Change` of
  `StoredConfig` (or nothing, without a configuration), `clear()` is `Erase`, and writing
  the version byte is `Store`. All of this is said of a flash that is not spoilt. What
  spoils it makes the configuration `None`, which is `Erase`; and by the part of `WholeInv`
  about the setup page the flash holds the page's five records when it takes `spoilt` back.
  Nothing is assumed of forms, resets or commits; without the exception TLC finds a
  counterexample.
- `WifiTypes`, `DnsFollowsMode`, `SetupReachable` (`WifiMode`): their conjunction is
  inductive, none of the last two is alone: an attempt to connect leaves the DNS server as
  it is, because it starts from a mode that is not the access point, and such a mode is one
  with a configuration.
- `NothingIsLeftOver`, `ReceivedStays` (`FirmwareUpdate`): by `FileInv`. The file is open
  only while `uploading` is up, which is never taken back before a restart, so that after
  an upload was received the file is never opened again.
- `FileTypes`: by `SizeInv` on top of `FileInv`: the file holds at most the pieces of the
  uploads so far, and leaves room for those of the current one that are still to come.

- `AddressIsOwned` (`RegisterValues`): no register belongs to two blocks, so that the first
  block found is the only one (`BlocksDisjoint`, `ChosenIsFound`); a block that is found
  for any integer has it between its ends (`FoundByAddress`). `AllButTheLastFound` says for
  each register what is found: its own block, and nothing for the last one of a block.
- `EchoesKeepValue`: by `ValueInv`, for any values of the unit, any words and any numbers of
  clients. The lemmas `FanTakes` .. `FilterAndInputTake` say what each `setFormattedValue()`
  makes of any payload, `FormattedFull` what is published, and `EchoIsTaken` puts the two
  together: a published value is taken back as it was, but for the frost protection level,
  if it is one that a request could set (`Taken`), and rejected if not. `StoredShort` says
  what 16 bits keep: what has been read from the unit once. `ValueInv` says that an echo is
  what is published for the value that the unit has *now*. The exceptions are in the
  property: a year from 34768 on is held as a negative number and published as one before
  2000, and -404 is published as an empty text, which is taken for 0.
- `RequestsInForce`: `RequestInForce` is inductive. A request that is dropped equals
  `pending`, for which the unit has what 16 bits hold of it, until it changes that itself.

`LockInv`, `TypeInv`, `RequestInv`, `UpdateInv`, `MarkInv`, `SetupInv`, `WholeInv`, `DueInv`, `IInv`,
`FileInv`, `SizeInv`, `PassInv`, `SentInv`, `CountInv`, `ClockInv` and `ValueInv` are the
inductive invariants; the last step of each
theorem is temporal logic (LS4), all others are SMT or Zenon.

Every safety property, action property and refinement the passing runs check is thus
proved for every value of the constants; `TypeOK` of `UpdateExport` is not among those of a
run, but is what `ExportTypes` says. Model-checked only are the liveness properties:
`RoundsEnd`, `MainGetsThrough`, `PendingWritesDrain` and `DueBlocksPolled` of
`RegisterManager`, `FirstOfBlockExported` and `ExportDrains` of `UpdateExport`,
`SessionSettles`, `UpdateReachesBroker`, `BootEnds`, and the three of `WifiMode`. They rest
on fairness, which is defined with ENABLED and out of the prover's reach.

## 5. Findings

1. **A write request can get lost.** Requests set `FLG_PENDING_WRITE` without the
   semaphore. `regman` can load the byte before and store it after, and the bit is gone;
   or `confirmPendingWrite()` clears the bit of a request that came while the older
   value was on the bus. The value stays in `m_pending_set_value`, so that the same
   request is then ignored as nothing new.
2. **A failed write is not noticed** (`registermanager.cpp:457` hides the variable tested
   at `:488`): the pass goes on and the reads follow, against the comment at `:165`.

### Also seen

Found while modelling, and followed in the code, but not the subject of a run:

- Modbus: `readCoil()` has the same hidden variable as finding 2 (`:356` hides the one of
  `:345`, which `:372` tests without its ever being assigned), so that the outcome of
  reading coils is arbitrary: `RmReadOk` and `RmReadFail` allow both. A value equal to the
  one last requested is dropped, so that triggers such as `nvm/store` or `filter/age` 0 work
  once per boot, and the last value requested cannot be asked for again after the panel has
  changed it (`RequestInForce`). -404 asked for first is dropped, because it stands for no request; a
  year of 67000 becomes 65000, is read as -536 and published as 1464. The last register of a block cannot be set by its address (`:627`),
  `fan/controltype`, `filter/age` and `nvm/store` among them; by name they can.
- Export: values are marked as handled without being sent while there is no session
  (`main.ino:407-410`; `Send` and `Confirm`). Three registers of one block that change before
  every pass keep its later registers from being exported, as a block that was left early
  is entered again at its first register. An export stamped on the tick where the clock
  reads 0 does not hold the next one back. `fan/allowstop` is published as ON or OFF, but
  accepts only 0, 1, true and false.
- Session: the topics of a new configuration are used on the old session until the retry
  period is over. A write on the web page is answered with 200 and dropped as long as MQTT
  has not been configured.
- Configuration: a form saved before the setup page was ever used makes a configuration of
  records never written: `save()` writes the check sum, and after a restart all five records
  count. A reset in the middle of the conversion of the old layout makes it begin again, from
  what it has already written over, and a commit of it that fails leaves bytes of the old layout
  as a record (`spoilt` in `ConfigStore`).
  `handleSave()` reports a record as saved whose commit failed, because it looks at the
  result of `save()` only. After a setup that failed ("Error saving configuration!") the next
  form brings the records of that setup into force, because the cached version still says
  that there is a configuration. When `save()` fails after NTP was switched on, NTP is not
  begun: its record raised no flag but that of WiFi, and the restart is asked for only by the
  next form that is saved. An access record whose commit failed is used until the next start.
  The mDNS checkbox of `wifi.html:30` is not read by `handleSave()`.
- Firmware: `uploading` is never taken back, and pieces go to whatever file is open, so that
  after an aborted upload the next one is refused, appended to it, and the mixture flashed.
  An upload with a wrong name is answered with an error and stored (`InternalWebServer.cpp:298`
  has no return).
- WiFi: mDNS is not begun again after the button made the bridge an access point and a
  station again, when it is connected before `loop()` looks: `wifiConnected` is still up.
- LEDs: with the pins of main.ino there is no red LED, so that no fault is shown; with one,
  an MQTT error is not shown while the unit is silent (the round of faults does not move on),
  a lost WiFi connection is never shown (`errorBlink()` is called only while connected), and
  a read that `regman` notes between the two times of `:592` shows as silence.
- Uptime: a round of the clock (49 days) in which no page is requested is lost.

## 6. Plan

Done: the core (`RegisterManager`, `OrderedWrites`), `UpdateExport`, `ThrottleClock`,
`RegisterTable`, `RegisterValues`, `MqttSession` and its composition with the export,
`ConfigStore`, `WifiMode` and `FirmwareUpdate`, each with proofs of its safety properties.

What was planned last is done as well: the passes of `RegisterManager` implement
`UpdateExport`, for which that module had to have a step for the marks that the race of
finding 1 takes (`MarkLost`); and `UsedOrDue` says what holds after commits that failed.

Left is what the prover does not reach (the liveness properties, see "The proofs") and what
"Not modelled" lists.

## 7. Not modelled

The status LEDs (`errorBlink()` shows faults and changes nothing that other parts read) and
the uptime; page texts, static files and the password check of the web server; readings of
the supply voltage and the signal strength; what NTP does with its configuration; the debugger and
all log texts, the list of changed addresses (`registermanager.cpp:325`) among them; the
statistics counters; task creation, which `setup()` does once. Real time appears only as
the order of events and as ticks of the periods the code compares. Modbus frames, MQTT
packets, the radio, the file system, the flash and the Update library are outside the
repository: they are represented by what the code sees of them. `main.ino` has a second
button action ("Single press action") that is empty.
