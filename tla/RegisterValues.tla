--------------------------- MODULE RegisterValues ---------------------------
(***************************************************************************)
(* From register values to payloads and back: getFormattedValue() and      *)
(* setFormattedValue() of the block classes, and the way a value takes     *)
(* from the unit over MQTT to a client (or to the bridge itself, when it   *)
(* subscribes to the topic it publishes under) and back to the unit.       *)
(*                                                                         *)
(* A payload is a word or a number with 0, 1 or 2 decimals; the numbers    *)
(* are kept in hundredths.  Of several words with the same meaning one is  *)
(* kept ("liter" of "l", "lps", "liter_per_second").                       *)
(***************************************************************************)
EXTENDS RegisterTable

CONSTANTS
    UnitValues,     \* values registers of the unit have at first
    PanelValues,    \* values the unit gives them by itself, or its panel does
    Words,          \* words a client may send
    Numbers,        \* numbers a client may send, in hundredths
    Rejected        \* setFormattedValue() returns false without a request

Shorts == { n \in Int : -32768 <= n /\ n <= 32767 }

ASSUME ValuesAssumption ==
    /\ UnitValues \subseteq Shorts /\ PanelValues \subseteq Shorts
    /\ Numbers \subseteq Int /\ Rejected \notin Int

VARIABLES
    address,        \* the register this behaviour is about
    unit,           \* its value in the unit
    pending,        \* m_pending_set_value, the value last requested
    payload,        \* the payload on its way to the bridge, or Nothing
    echo,           \* the payload is what the bridge published for unit
    moved           \* history: the unit changed the value after it was last written

vars == <<address, unit, pending, payload, echo, moved>>

Word(w) == [word |-> w]
Number(hundredths, decimals) == [hundredths |-> hundredths, decimals |-> decimals]
Nothing == [word |-> "(nothing)"]
VAL_INVALID == -404     \* not read or not requested yet; also a value like others

IsNumber(p) == "decimals" \in DOMAIN p
OnOff(v) == Word(IF v = 0 THEN "OFF" ELSE "ON")
Plain(v) == Number(100 * v, 0)

-----------------------------------------------------------------------------
(* getFormattedValue(), for a value that was read. *)

Fps == 206
TempLevel == 207
Tenths == 208 .. 218                    \* setpoint, levels, sensors
Year == 556
SystemTypes == (0 .. 5) \cup (12 .. 20)

FormattedFan(a, v) ==
    CASE a \in {109, 110} -> Number(10 * v, 2)
      [] a = 114 -> OnOff(v)
      [] OTHER -> Plain(v)

\* Mutant of FormattedHeater: the offset of the level is one too small.
FormattedHeaterOffset(a, v) ==
    CASE a = TempLevel -> IF v > 0 THEN Number(100 * (v + 10), 2) ELSE Plain(0)
      [] a = Fps -> Number(10 * v, 2)
      [] a \in Tenths -> Number(10 * v, 1)
      [] OTHER -> Plain(v)

FormattedHeater(a, v) ==
    CASE a = TempLevel -> IF v > 0 THEN Number(100 * (v + 11), 2) ELSE Plain(0)
      [] a = Fps -> Number(10 * v, 2)
      [] a \in Tenths -> Number(10 * v, 1)
      [] OTHER -> Plain(v)

FormattedRotor(a, v) == IF a = 352 THEN OnOff(v) ELSE Plain(v)
FormattedSystem(a, v) ==
    IF a # 501 THEN Plain(v) ELSE Word(IF v \in SystemTypes THEN "type" ELSE "unknown")
FormattedClock(a, v) == Plain(IF a = Year THEN 2000 + v ELSE v)
FormattedRelay(v) == IF v \in {0, 1} THEN OnOff(v) ELSE Plain(v)

\* The other block classes print all their values plainly, or all as ON and OFF.
\* All print nothing for VAL_INVALID.
Formatted(a, v) ==
    IF v = VAL_INVALID THEN Word("") ELSE
    CASE a \in RegistersOf(1) -> FormattedFan(a, v)
      [] a \in RegistersOf(2) -> FormattedHeater(a, v)
      [] a \in RegistersOf(4) -> FormattedRotor(a, v)
      [] a \in RegistersOf(5) -> FormattedSystem(a, v)
      [] a \in RegistersOf(7) -> FormattedClock(a, v)
      [] a \in RegistersOf(11) -> FormattedRelay(v)
      [] a \in UNION { RegistersOf(b) : b \in {3, 10, 12, 13} } -> OnOff(v)
      [] OTHER -> Plain(v)

-----------------------------------------------------------------------------
(* setFormattedValue(). *)

\* String::toInt(): what is not a number is 0, decimals are cut off.
Truncated(h) == IF h >= 0 THEN h \div 100 ELSE -((-h) \div 100)
toInt(p) == IF IsNumber(p) THEN Truncated(p.hundredths) ELSE 0
toHundredths(p) == IF IsNumber(p) THEN p.hundredths ELSE 0

\* The text of the payload is one of these words or the number n.
Says(p, n, words) == p = Plain(n) \/ p \in { Word(w) : w \in words }

\* String::toLowerCase()
Lower(p) == IF p = OnOff(0) THEN Word("off") ELSE IF p = OnOff(1) THEN Word("on") ELSE p

\* The first choice whose condition holds; options are <<condition, value>>.
FirstOf(options) ==
    LET ok == { i \in DOMAIN options : options[i][1] }
    IN  IF ok = {} THEN Rejected
        ELSE options[CHOOSE i \in ok : \A j \in ok : i <= j][2]
Within(n, low, high) == IF n \in low .. high THEN n ELSE Rejected

ParsedFan(a, p) ==
    CASE a \in (101 .. 107) \cup {136, 137} -> toInt(p)
      [] a = 108 -> FirstOf(<< <<Says(Lower(p), 0, {"liter"}), 0>>, <<Says(Lower(p), 1, {"m3"}), 1>> >>)
      [] a = 114 -> FirstOf(<< <<Says(Lower(p), 0, {"false"}), 0>>, <<Says(Lower(p), 1, {"true"}), 1>> >>)
      [] a = 115 -> FirstOf(<< <<Says(p, 1, {"true"}) \/ p = Plain(90), 90>> >>)
      [] a = 138 -> FirstOf(<< <<Says(Lower(p), 0, {"airflow"}), 0>>, <<Says(Lower(p), 1, {"speed"}), 1>> >>)
      [] OTHER -> Rejected

ParsedHeater(a, p) ==
    LET none == Says(p, 0, {"none", "no"})
        fps == toHundredths(p)
        level == toInt(p)
    IN  CASE a = 201 -> FirstOf(<< <<none, 0>>, <<Says(p, 1, {"water"}), 1>>,
                          <<Says(p, 2, {"electrical"}), 2>>, <<Says(p, 3, {"contactor"}), 3>> >>)
          [] a = 202 -> FirstOf(<< <<none, 0>>, <<Says(p, 1, {"water"}), 1>> >>)
          [] a = Fps -> IF fps \in 700 .. 1200 THEN (fps \div 100) * 10
                        ELSE IF fps \in 7000 .. 12000 THEN fps \div 100 ELSE Rejected
          [] a = TempLevel -> IF level \in 12 .. 22 THEN level - 11 ELSE Within(level, 0, 11)
          [] a = 220 -> FirstOf(<< <<none, 0>>, <<Says(p, 1, {"electrical"}), 1>> >>)
          [] OTHER -> Rejected

ParsedClock(a, p) ==
    LET n == toInt(p)
    IN  CASE a \in {551, 552} -> Within(n, 0, 59)
          [] a = 553 -> Within(n, 0, 23)
          [] a = 554 -> Within(n, 1, 31)
          [] a = 555 -> Within(n, 1, 12)
          [] a = Year -> IF n >= 2000 THEN n - 2000 ELSE IF n > 0 THEN n ELSE Rejected
          [] OTHER -> Rejected

ParsedFilter(a, p) ==
    CASE a = 601 -> Within(toInt(p), 6, 12)
      [] a = 602 -> Within(toInt(p), 0, 0)
      [] OTHER -> Rejected

ParsedInput(a, p) ==
    CASE a = 702 -> IF toInt(p) >= 0 THEN toInt(p) ELSE Rejected
      [] a \in 703 .. 709 -> Within(toInt(p), 0, 3)
      [] OTHER -> Rejected

ParsedCoil(a, p) ==
    IF a = 11206 THEN Rejected
    ELSE FirstOf(<< <<Says(Lower(p), 0, {"off", "false"}), 0>>,
                    <<Says(Lower(p), 1, {"on", "true"}), 1>> >>)

ParsedNvm(p) == FirstOf(<< <<Says(Lower(p), 1, {"true"}) \/ p = Plain(165), 165>> >>)

\* The block classes without a setFormattedValue() of their own reject.
Parsed(a, p) ==
    CASE a \in RegistersOf(1) -> ParsedFan(a, p)
      [] a \in RegistersOf(2) -> ParsedHeater(a, p)
      [] a \in RegistersOf(6) -> ParsedNvm(p)
      [] a \in RegistersOf(7) -> ParsedClock(a, p)
      [] a \in RegistersOf(8) -> ParsedFilter(a, p)
      [] a \in RegistersOf(9) -> ParsedInput(a, p)
      [] a \in RegistersOf(10) -> ParsedCoil(a, p)
      [] OTHER -> Rejected

-----------------------------------------------------------------------------
(* The way of a value. *)

\* What a client may ask for: the registers, and the addresses next to them.
Queried == AllRegisters \cup { Table[b].start : b \in DOMAIN Table }

Payloads == { Word(w) : w \in Words } \cup
            UNION { { Number(h, 0), Number(h, 2) } : h \in Numbers }

\* Values of a register: only measured temperatures are signed.  The unit's frost
\* protection level, which is in tenths, is below 70 degrees: a number from there on
\* is taken for tenths.
MayBe(v) == (isWriteable(address) => v >= 0) /\ (address = Fps => v < 700)

Init ==
    /\ address \in Queried /\ unit \in UnitValues /\ MayBe(unit)
    /\ pending = VAL_INVALID
    /\ payload = Nothing /\ echo = FALSE /\ moved = FALSE

\* MQTTUpdateVisitor::visit(), once the value was read.
Publish ==
    /\ payload = Nothing /\ isReadable(address)
    /\ payload' = Formatted(address, unit) /\ echo' = TRUE
    /\ UNCHANGED <<address, unit, pending, moved>>

\* A client sends a payload of its own (over MQTT, or from the web page).
Command(p) ==
    /\ payload = Nothing
    /\ payload' = p /\ echo' = FALSE
    /\ UNCHANGED <<address, unit, pending, moved>>

\* The value changes in the unit: at its panel, a clock, a trigger that is done.
Panel(v) ==
    /\ v # unit /\ MayBe(v)
    /\ unit' = v /\ moved' = TRUE /\ echo' = FALSE
    /\ UNCHANGED <<address, pending, payload>>

\* Mutant of Marks: the value is stored before it is compared with the one before.
MarksTooLate(value) == LET current == value IN current # value

\* setNewPendingWriteValue(): a value that was the last one requested is not marked.
Marks(value) == value # pending

\* writeSingleRegister() sends 16 bits, and readRegister() reads them back signed.
Stored(value) == ((value + 32768) % 65536) - 32768

\* mqttMessageReceived(), setPendingWriteByAddress() or ByName().  What is marked is
\* written at once: what may come between is in RegisterManager.
Request(found) ==
    LET value == Parsed(address, payload)
        requested == found # NotFound /\ isWriteable(address) /\ value # Rejected
        marked == requested /\ Marks(value)
    IN  /\ payload # Nothing /\ payload' = Nothing
        /\ pending' = IF requested THEN value ELSE pending
        /\ unit' = IF marked THEN Stored(value) ELSE unit
        /\ moved' = (moved /\ ~marked)
        /\ echo' = FALSE /\ UNCHANGED address

RequestByAddress == Request(findRegisterByAddress(address))
RequestByName == Request(findRegisterByName(address))

Next ==
    \/ Publish \/ RequestByAddress \/ RequestByName
    \/ \E p \in Payloads : Command(p)
    \/ \E v \in PanelValues : Panel(v)

Spec == Init /\ [][Next]_vars

-----------------------------------------------------------------------------
(* Properties. *)

\* A block that findRegisterByAddress() returns owns the address, so that no
\* other register than the one asked for is marked for writing.
FoundOwnsAddress ==
    LET b == findRegisterByAddress(address)
    IN  b = NotFound \/ address \in RegistersOf(b)

\* A published value that comes back leaves the register as it was: a client
\* that restores what it saw, or a bridge that hears itself, changes nothing.
\* But the frost protection level loses its half degrees on the way; a year that 16
\* bits hold as negative is published as one before 2000 and comes back as the years
\* themselves; and -404 is published as a value not read, which is taken for 0.
EchoKeepsValue ==
    [][echo /\ payload' # payload =>
           \/ unit' = unit
           \/ address = Fps /\ unit' = (unit \div 10) * 10
           \/ unit < 0 /\ (address = Year \/ unit = VAL_INVALID)]_vars

\* A request that setNewPendingWriteValue() drops as a repetition asks for nothing
\* that the unit does not have: the last value requested is in force, unless the unit
\* has changed it by itself (a request for the value from before is lost then), or it
\* is -404, which is also what stands for no request (the first one for it is lost).
RequestInForce == pending = VAL_INVALID \/ moved \/ unit = Stored(pending)
=============================================================================
