------------------------- MODULE RegisterValuesProofs -------------------------
(***************************************************************************)
(* The look-up of a register, for every address there is, and the way of a *)
(* value to a client and back, for every value the unit may have and every *)
(* number a client may send.                                               *)
(***************************************************************************)
EXTENDS RegisterValues, TLAPS

-----------------------------------------------------------------------------
(* The register table. *)

LEMMA Blocks == DOMAIN Table = 1 .. 13
BY DEF Table

LEMMA BlockRegisters ==
    /\ RegistersOf(1) = 101 .. 138     /\ RegistersOf(2) = 201 .. 221
    /\ RegistersOf(3) = 3489 .. 3493   /\ RegistersOf(4) = 351 .. 352
    /\ RegistersOf(5) = 501 .. 507     /\ RegistersOf(6) = 549 .. 549
    /\ RegistersOf(7) = 551 .. 557     /\ RegistersOf(8) = 601 .. 602
    /\ RegistersOf(9) = 701 .. 709     /\ RegistersOf(10) = 11201 .. 11207
    /\ RegistersOf(11) = 12001 .. 12003 /\ RegistersOf(12) = 12801 .. 12809
    /\ RegistersOf(13) = 801 .. 802
BY DEF RegistersOf, Table

\* No register belongs to two blocks.
LEMMA BlocksDisjoint ==
    ASSUME NEW b \in DOMAIN Table, NEW c \in DOMAIN Table, NEW a,
           a \in RegistersOf(b), a \in RegistersOf(c)
    PROVE  b = c
BY Blocks, BlockRegisters

\* The blocks of addRegisters() are laid out as RegisterManager assumes of its blocks
\* (BlocksAssumption, DisjointAssumption), and what is readable or writeable is a
\* register of one of them (RegistersAssumption).
THEOREM TableIsLaidOut ==
    /\ \A b \in DOMAIN Table : Table[b].start \in Nat /\ Table[b].length \in Nat \ {0}
    /\ \A b, c \in DOMAIN Table :
           b # c => \/ Table[b].start + Table[b].length <= Table[c].start
                    \/ Table[c].start + Table[c].length <= Table[b].start
    /\ \A a : isReadable(a) \/ isWriteable(a) => a \in AllRegisters
<1>1. \A b \in DOMAIN Table : Table[b].start \in Nat /\ Table[b].length \in Nat \ {0}
    BY DEF Table
<1>2. ASSUME NEW b \in DOMAIN Table, NEW c \in DOMAIN Table,
             Table[b].start + Table[b].length > Table[c].start,
             Table[c].start + Table[c].length > Table[b].start
      PROVE  b = c
    <2>1. CASE Table[b].start <= Table[c].start
        <3>1. Table[c].start + 1 \in RegistersOf(b) /\ Table[c].start + 1 \in RegistersOf(c)
            BY <1>1, <1>2, <2>1 DEF RegistersOf
        <3> QED BY <3>1, BlocksDisjoint
    <2>2. CASE Table[c].start <= Table[b].start
        <3>1. Table[b].start + 1 \in RegistersOf(b) /\ Table[b].start + 1 \in RegistersOf(c)
            BY <1>1, <1>2, <2>2 DEF RegistersOf
        <3> QED BY <3>1, BlocksDisjoint
    <2> QED BY <1>1, <2>1, <2>2
<1>3. \A b, c \in DOMAIN Table :
          b # c => \/ Table[b].start + Table[b].length <= Table[c].start
                   \/ Table[c].start + Table[c].length <= Table[b].start
    BY <1>1, <1>2
<1>4. ASSUME NEW a, isReadable(a) \/ isWriteable(a) PROVE a \in AllRegisters
    <2>1. CASE a \in PermReadOnly
        BY <2>1 DEF PermReadOnly
    <2>2. CASE a \in PermFull \cup PermWriteOnly
        <3>1. a \in RegistersOf(1) \cup RegistersOf(2) \cup RegistersOf(6) \cup RegistersOf(7)
                      \cup RegistersOf(8) \cup RegistersOf(9) \cup RegistersOf(10)
            BY <2>2, BlockRegisters DEF PermFull, PermWriteOnly
        <3> QED BY <3>1, Blocks DEF AllRegisters
    <2> QED BY <1>4, <2>1, <2>2 DEF isReadable, isWriteable
<1> QED BY <1>1, <1>3, <1>4

\* The choice of findRegisterByAddress() and findRegisterByName() among the blocks
\* that may be the one.
LEMMA ChosenIsFound ==
    ASSUME NEW found \in SUBSET (1 .. 13), found # {},
           \A b, c \in found : b = c
    PROVE  (CHOOSE b \in found : \A c \in found : b <= c) \in found
<1>1. PICK b \in found : TRUE
    OBVIOUS
<1>2. \A c \in found : b <= c
    BY <1>1
<1> QED BY <1>2

LEMMA FoundByAddress ==
    ASSUME NEW a \in Int
    PROVE  LET b == findRegisterByAddress(a)
           IN  b = NotFound \/ a \in RegistersOf(b)
<1> DEFINE found == { b \in DOMAIN Table :
                        Table[b].start < a /\ a < Table[b].start + Table[b].length }
<1>1. \A b \in found : a \in RegistersOf(b)
    <2> SUFFICES ASSUME NEW b \in found PROVE a \in RegistersOf(b)
        OBVIOUS
    <2>1. Table[b].start \in Int /\ Table[b].length \in Int
        BY DEF Table
    <2> QED BY <2>1 DEF RegistersOf
<1>2. \A b, c \in found : b = c
    BY <1>1, BlocksDisjoint
<1>3. CASE found = {}
    BY <1>3 DEF findRegisterByAddress
<1>4. CASE found # {}
    <2>1. found \in SUBSET (1 .. 13)
        BY Blocks
    <2>2. (CHOOSE b \in found : \A c \in found : b <= c) \in found
        BY <1>2, <1>4, <2>1, ChosenIsFound
    <2> QED BY <1>1, <1>4, <2>2 DEF findRegisterByAddress
<1> QED BY <1>3, <1>4

\* Every register is found by its address in its own block, but for the last of the
\* block, which is not found at all: findRegisterByAddress() compares with
\* m_start + m_length although the registers begin at m_start + 1.
THEOREM AllButTheLastFound ==
    ASSUME NEW b \in DOMAIN Table, NEW a \in RegistersOf(b)
    PROVE  findRegisterByAddress(a) =
               IF a = Table[b].start + Table[b].length THEN NotFound ELSE b
<1> DEFINE found == { c \in DOMAIN Table :
                        Table[c].start < a /\ a < Table[c].start + Table[c].length }
<1>1. \A c \in DOMAIN Table : Table[c].start \in Int /\ Table[c].length \in Int
    BY DEF Table
<1>2. a \in Int
    BY <1>1 DEF RegistersOf
<1>3. \A c \in found : c = b
    <2> SUFFICES ASSUME NEW c \in found PROVE c = b
        OBVIOUS
    <2>1. a \in RegistersOf(c)
        BY <1>1, <1>2 DEF RegistersOf
    <2> QED BY <2>1, BlocksDisjoint
<1>4. b \in found <=> a # Table[b].start + Table[b].length
    BY <1>1, <1>2 DEF RegistersOf
<1>5. CASE a = Table[b].start + Table[b].length
    <2>1. found = {}
        BY <1>3, <1>4, <1>5
    <2> QED BY <1>5, <2>1 DEF findRegisterByAddress
<1>6. CASE a # Table[b].start + Table[b].length
    <2>1. found # {} /\ found \in SUBSET (1 .. 13) /\ \A c, d \in found : c = d
        BY <1>3, <1>4, <1>6, Blocks
    <2>2. (CHOOSE c \in found : \A d \in found : c <= d) \in found
        BY <2>1, ChosenIsFound
    <2>3. findRegisterByAddress(a) = CHOOSE c \in found : \A d \in found : c <= d
        BY <2>1 DEF findRegisterByAddress
    <2> QED BY <1>3, <1>6, <2>2, <2>3
<1> QED BY <1>5, <1>6

-----------------------------------------------------------------------------
(* The choice among conditions. *)

LEMMA FirstOfTwo ==
    ASSUME NEW c \in BOOLEAN, NEW v, NEW d \in BOOLEAN, NEW w
    PROVE  FirstOf(<< <<c, v>>, <<d, w>> >>) = IF c THEN v ELSE IF d THEN w ELSE Rejected
BY DEF FirstOf

LEMMA FirstOfFour ==
    ASSUME NEW c1 \in BOOLEAN, NEW v1, NEW c2 \in BOOLEAN, NEW v2,
           NEW c3 \in BOOLEAN, NEW v3, NEW c4 \in BOOLEAN, NEW v4
    PROVE  FirstOf(<< <<c1, v1>>, <<c2, v2>>, <<c3, v3>>, <<c4, v4>> >>) =
               IF c1 THEN v1 ELSE IF c2 THEN v2 ELSE IF c3 THEN v3 ELSE IF c4 THEN v4
               ELSE Rejected
BY DEF FirstOf

\* What the text says.
LEMMA SaysIsBoolean ==
    ASSUME NEW p, NEW n, NEW words
    PROVE  Says(p, n, words) \in BOOLEAN
BY DEF Says

LEMMA FirstSaid ==
    ASSUME NEW p, NEW v, NEW w, NEW V, NEW W
    PROVE  FirstOf(<< <<Says(p, v, V), v>>, <<Says(p, w, W), w>> >>) =
               IF Says(p, v, V) THEN v ELSE IF Says(p, w, W) THEN w ELSE Rejected
<1>1. Says(p, v, V) \in BOOLEAN /\ Says(p, w, W) \in BOOLEAN
    BY SaysIsBoolean
<1> QED BY <1>1, FirstOfTwo

-----------------------------------------------------------------------------
(* What is published for a register that may be read and written. *)

LEMMA PlainNumber ==
    ASSUME NEW v \in Int
    PROVE  /\ toInt(Plain(v)) = v /\ Lower(Plain(v)) = Plain(v)
           /\ \A n \in Int : \A words : Says(Plain(v), n, words) <=> v = n
<1>1. IsNumber(Plain(v)) /\ Plain(v).hundredths = 100 * v
    BY DEF IsNumber, Plain, Number
<1>2. toInt(Plain(v)) = v
    <2>1. Truncated(100 * v) = v
        BY DEF Truncated
    <2> QED BY <1>1, <2>1 DEF toInt
<1>3. \A w : Plain(v) # Word(w)
    BY <1>1 DEF IsNumber, Word
<1>4. Lower(Plain(v)) = Plain(v)
    BY <1>3 DEF Lower, OnOff
<1>5. ASSUME NEW n \in Int, NEW words PROVE Says(Plain(v), n, words) <=> v = n
    <2>1. Plain(v) = Plain(n) <=> v = n
        <3>1. Plain(n).hundredths = 100 * n
            BY DEF Plain, Number
        <3> QED BY <1>1, <3>1
    <2> QED BY <1>3, <2>1 DEF Says
<1> QED BY <1>2, <1>4, <1>5

LEMMA FormattedFull ==
    ASSUME NEW a \in PermFull, NEW v \in Int, v # VAL_INVALID
    PROVE  Formatted(a, v) =
               IF a = 114 THEN OnOff(v)
               ELSE IF a = Fps THEN Number(10 * v, 2)
               ELSE IF a = TempLevel /\ v > 0 THEN Number(100 * (v + 11), 2)
               ELSE IF a = TempLevel THEN Plain(0)
               ELSE IF a = Year THEN Plain(2000 + v)
               ELSE Plain(v)
<1>1. CASE a \in RegistersOf(1)
    BY <1>1, BlockRegisters
    DEF Formatted, FormattedFan, Fps, TempLevel, Year, PermFull
<1>2. CASE a \in RegistersOf(2)
    BY <1>2, BlockRegisters
    DEF Formatted, FormattedHeater, Fps, TempLevel, Tenths, Year, PermFull
<1>3. CASE a \in RegistersOf(7)
    BY <1>3, BlockRegisters DEF Formatted, FormattedClock, Fps, TempLevel, Year, PermFull
<1>4. CASE a \in RegistersOf(8) \cup RegistersOf(9)
    BY <1>4, BlockRegisters DEF Formatted, Fps, TempLevel, Year
<1> QED BY <1>1, <1>2, <1>3, <1>4, BlockRegisters DEF PermFull

-----------------------------------------------------------------------------
(* What is accepted for such a register. *)

\* The values a request can give it.
Taken(a) ==
    CASE a \in (101 .. 107) \cup {136, 137} -> Int
      [] a \in {108, 114, 138, 202, 220} -> 0 .. 1
      [] a = Fps -> 70 .. 120
      [] a = TempLevel -> 0 .. 11
      [] a \in {551, 552} -> 0 .. 59
      [] a = 553 -> 0 .. 23
      [] a = 554 -> 1 .. 31
      [] a = 555 -> 1 .. 12
      [] a \in {Year, 702} -> Nat
      [] a = 601 -> 6 .. 12
      [] a = 602 -> 0 .. 0
      [] OTHER -> 0 .. 3

IsPayload(p) == IsNumber(p) => p.hundredths \in Int

LEMMA NumberOf ==
    ASSUME NEW p, IsPayload(p)
    PROVE  toInt(p) \in Int /\ toHundredths(p) \in Int
<1>1. \A h \in Int : Truncated(h) \in Int
    BY DEF Truncated
<1> QED BY <1>1 DEF IsPayload, toInt, toHundredths

Said(p, v, V, w, W) == IF Says(p, v, V) THEN v ELSE IF Says(p, w, W) THEN w ELSE Rejected

\* setFormattedValue() of the five classes that have such registers.
LEMMA FanTakes ==
    ASSUME NEW p
    PROVE  /\ \A a \in (101 .. 107) \cup {136, 137} : Parsed(a, p) = toInt(p)
           /\ Parsed(108, p) = Said(Lower(p), 0, {"liter"}, 1, {"m3"})
           /\ Parsed(114, p) = Said(Lower(p), 0, {"false"}, 1, {"true"})
           /\ Parsed(138, p) = Said(Lower(p), 0, {"airflow"}, 1, {"speed"})
<1>1. \A a \in 101 .. 138 : Parsed(a, p) = ParsedFan(a, p)
    BY BlockRegisters DEF Parsed
<1>2. \A a \in (101 .. 107) \cup {136, 137} : ParsedFan(a, p) = toInt(p)
    BY DEF ParsedFan
<1>3. /\ ParsedFan(108, p) = Said(Lower(p), 0, {"liter"}, 1, {"m3"})
      /\ ParsedFan(114, p) = Said(Lower(p), 0, {"false"}, 1, {"true"})
      /\ ParsedFan(138, p) = Said(Lower(p), 0, {"airflow"}, 1, {"speed"})
    BY FirstSaid DEF ParsedFan, Said
<1> QED BY <1>1, <1>2, <1>3

LEMMA HeaterTakes ==
    ASSUME NEW p
    PROVE  LET fps == toHundredths(p)
               level == toInt(p)
               none == {"none", "no"}
           IN
           /\ Parsed(201, p) = IF Says(p, 0, none) THEN 0
                               ELSE IF Says(p, 1, {"water"}) THEN 1
                               ELSE Said(p, 2, {"electrical"}, 3, {"contactor"})
           /\ Parsed(202, p) = Said(p, 0, none, 1, {"water"})
           /\ Parsed(Fps, p) = IF fps \in 700 .. 1200 THEN (fps \div 100) * 10
                               ELSE IF fps \in 7000 .. 12000 THEN fps \div 100 ELSE Rejected
           /\ Parsed(TempLevel, p) =
                  IF level \in 12 .. 22 THEN level - 11 ELSE Within(level, 0, 11)
           /\ Parsed(220, p) = Said(p, 0, none, 1, {"electrical"})
<1>1. \A a \in 201 .. 221 : Parsed(a, p) = ParsedHeater(a, p)
    BY BlockRegisters DEF Parsed
<1>2. /\ ParsedHeater(202, p) = Said(p, 0, {"none", "no"}, 1, {"water"})
      /\ ParsedHeater(220, p) = Said(p, 0, {"none", "no"}, 1, {"electrical"})
    BY FirstSaid DEF ParsedHeater, Said, Fps, TempLevel
<1>3. ParsedHeater(201, p) = IF Says(p, 0, {"none", "no"}) THEN 0
                             ELSE IF Says(p, 1, {"water"}) THEN 1
                             ELSE Said(p, 2, {"electrical"}, 3, {"contactor"})
    <2>1. ParsedHeater(201, p) =
              FirstOf(<< <<Says(p, 0, {"none", "no"}), 0>>, <<Says(p, 1, {"water"}), 1>>,
                         <<Says(p, 2, {"electrical"}), 2>>, <<Says(p, 3, {"contactor"}), 3>> >>)
        BY DEF ParsedHeater, Fps, TempLevel
    <2>2. /\ Says(p, 0, {"none", "no"}) \in BOOLEAN /\ Says(p, 1, {"water"}) \in BOOLEAN
          /\ Says(p, 2, {"electrical"}) \in BOOLEAN /\ Says(p, 3, {"contactor"}) \in BOOLEAN
        BY SaysIsBoolean
    <2> DEFINE none == Says(p, 0, {"none", "no"})
               water == Says(p, 1, {"water"})
               electrical == Says(p, 2, {"electrical"})
               contactor == Says(p, 3, {"contactor"})
    <2> HIDE DEF none, water, electrical, contactor
    <2>3. FirstOf(<< <<none, 0>>, <<water, 1>>, <<electrical, 2>>, <<contactor, 3>> >>) =
              IF none THEN 0 ELSE IF water THEN 1
              ELSE IF electrical THEN 2 ELSE IF contactor THEN 3 ELSE Rejected
        BY <2>2, FirstOfFour DEF none, water, electrical, contactor
    <2> QED BY <2>1, <2>3 DEF Said, none, water, electrical, contactor
<1>4. /\ ParsedHeater(Fps, p) =
             IF toHundredths(p) \in 700 .. 1200 THEN (toHundredths(p) \div 100) * 10
             ELSE IF toHundredths(p) \in 7000 .. 12000 THEN toHundredths(p) \div 100 ELSE Rejected
      /\ ParsedHeater(TempLevel, p) =
             IF toInt(p) \in 12 .. 22 THEN toInt(p) - 11 ELSE Within(toInt(p), 0, 11)
    BY DEF ParsedHeater, Fps, TempLevel
<1> QED BY <1>1, <1>2, <1>3, <1>4 DEF Fps, TempLevel

LEMMA ClockTakes ==
    ASSUME NEW p
    PROVE  LET n == toInt(p)
           IN  /\ \A a \in {551, 552} : Parsed(a, p) = Within(n, 0, 59)
               /\ Parsed(553, p) = Within(n, 0, 23)
               /\ Parsed(554, p) = Within(n, 1, 31)
               /\ Parsed(555, p) = Within(n, 1, 12)
               /\ Parsed(Year, p) = IF n >= 2000 THEN n - 2000
                                    ELSE IF n > 0 THEN n ELSE Rejected
<1>1. \A a \in 551 .. 557 : Parsed(a, p) = ParsedClock(a, p)
    BY BlockRegisters DEF Parsed
<1> QED BY <1>1 DEF ParsedClock, Year

LEMMA FilterAndInputTake ==
    ASSUME NEW p
    PROVE  LET n == toInt(p)
           IN  /\ Parsed(601, p) = Within(n, 6, 12)
               /\ Parsed(602, p) = Within(n, 0, 0)
               /\ Parsed(702, p) = IF n >= 0 THEN n ELSE Rejected
               /\ \A a \in 703 .. 709 : Parsed(a, p) = Within(n, 0, 3)
<1>1. /\ \A a \in 601 .. 602 : Parsed(a, p) = ParsedFilter(a, p)
      /\ \A a \in 701 .. 709 : Parsed(a, p) = ParsedInput(a, p)
    BY BlockRegisters DEF Parsed
<1> QED BY <1>1 DEF ParsedFilter, ParsedInput

LEMMA TakenOrRejected ==
    ASSUME NEW a \in PermFull, NEW p, IsPayload(p)
    PROVE  Parsed(a, p) \in Taken(a) \cup {Rejected}
<1> USE DEF Fps, TempLevel, Year
<1>1. toInt(p) \in Int /\ toHundredths(p) \in Int
    BY NumberOf
<1>2. CASE a \in (101 .. 108) \cup {114} \cup (136 .. 138)
    <2>1. CASE a \in (101 .. 107) \cup {136, 137}
        BY <1>1, <2>1, FanTakes DEF Taken
    <2>2. CASE a \in {108, 114, 138}
        <3>1. Taken(a) = 0 .. 1
            BY <2>2 DEF Taken
        <3> QED BY <2>2, <3>1, FanTakes DEF Said
    <2> QED BY <1>2, <2>1, <2>2
<1>3. CASE a \in {201, 202, 206, 207, 220}
    <2>1. CASE a = 201
        <3>1. Taken(a) = 0 .. 3
            BY <2>1 DEF Taken
        <3> QED BY <2>1, <3>1, HeaterTakes DEF Said
    <2>2. CASE a \in {202, 220}
        <3>1. Taken(a) = 0 .. 1
            BY <2>2 DEF Taken
        <3> QED BY <2>2, <3>1, HeaterTakes DEF Said
    <2>3. CASE a = Fps
        <3> DEFINE fps == toHundredths(p)
        <3>1. Taken(a) = 70 .. 120
            BY <2>3 DEF Taken
        <3>2. Parsed(a, p) = IF fps \in 700 .. 1200 THEN (fps \div 100) * 10
                             ELSE IF fps \in 7000 .. 12000 THEN fps \div 100 ELSE Rejected
            BY <2>3, HeaterTakes
        <3> HIDE DEF fps
        <3>3. CASE fps \in 700 .. 1200
            <4>1. (fps \div 100) * 10 \in 70 .. 120
                BY <3>3
            <4> QED BY <3>1, <3>2, <3>3, <4>1
        <3>4. CASE fps \in 7000 .. 12000
            <4>1. fps \div 100 \in 70 .. 120
                BY <3>4
            <4> QED BY <3>1, <3>2, <3>4, <4>1
        <3>5. CASE fps \notin 700 .. 1200 /\ fps \notin 7000 .. 12000
            BY <3>2, <3>5
        <3> QED BY <3>3, <3>4, <3>5
    <2>4. CASE a = TempLevel
        <3>1. Taken(a) = 0 .. 11
            BY <2>4 DEF Taken
        <3> QED BY <1>1, <2>4, <3>1, HeaterTakes DEF Within
    <2> QED BY <1>3, <2>1, <2>2, <2>3, <2>4
<1>4. CASE a \in 551 .. 556
    BY <1>1, <1>4, ClockTakes DEF Taken, Within
<1>5. CASE a \in {601, 602} \cup (702 .. 709)
    BY <1>1, <1>5, FilterAndInputTake DEF Taken, Within
<1> QED BY <1>2, <1>3, <1>4, <1>5 DEF PermFull

\* A value that comes back as it was published: it is taken if a request could have
\* set it, and is what it was, but for the half degrees of the frost protection level.
LEMMA EchoIsTaken ==
    ASSUME NEW a \in PermFull, a # 114, NEW v \in Int, v # VAL_INVALID,
           a \in {TempLevel, Year} => v >= 0, a = Fps => v < 700
    PROVE  Parsed(a, Formatted(a, v)) =
               IF v \notin Taken(a) THEN Rejected ELSE IF a = Fps THEN (v \div 10) * 10 ELSE v
<1> USE DEF Fps, TempLevel, Year
<1>1. /\ toInt(Plain(v)) = v /\ Lower(Plain(v)) = Plain(v)
      /\ \A n \in Int : \A words : Says(Plain(v), n, words) <=> v = n
    BY PlainNumber
<1>2. CASE a \notin {Fps, TempLevel, Year}
    <2>1. Formatted(a, v) = Plain(v)
        BY <1>2, FormattedFull
    <2>2. CASE a \in (101 .. 107) \cup {136, 137}
        BY <1>1, <2>1, <2>2, FanTakes DEF Taken
    <2>3. CASE a \in {108, 138}
        <3>1. Taken(a) = 0 .. 1
            BY <2>3 DEF Taken
        <3> QED BY <1>1, <1>2, <2>1, <2>3, <3>1, FanTakes DEF Said
    <2>4. CASE a \in {202, 220}
        <3>1. Taken(a) = 0 .. 1
            BY <2>4 DEF Taken
        <3> QED BY <1>1, <1>2, <2>1, <2>4, <3>1, HeaterTakes DEF Said
    <2>5. CASE a = 201
        <3>1. Taken(a) = 0 .. 3
            BY <2>5 DEF Taken
        <3> QED BY <1>1, <1>2, <2>1, <2>5, <3>1, HeaterTakes DEF Said
    <2>6. CASE a \in 551 .. 555
        BY <1>1, <2>1, <2>6, ClockTakes DEF Taken, Within
    <2>7. CASE a \in {601, 602} \cup (702 .. 709)
        BY <1>1, <2>1, <2>7, FilterAndInputTake DEF Taken, Within
    <2> QED BY <1>2, <2>2, <2>3, <2>4, <2>5, <2>6, <2>7 DEF PermFull
<1>3. CASE a = Fps
    <2>1. toHundredths(Formatted(a, v)) = 10 * v
        BY <1>3, FormattedFull DEF Number, toHundredths, IsNumber
    <2>2. Taken(a) = 70 .. 120
        BY <1>3 DEF Taken
    <2>3. (10 * v) \div 100 = v \div 10
        OBVIOUS
    <2>4. 10 * v \in 700 .. 1200 <=> v \in 70 .. 120
        OBVIOUS
    <2>5. 10 * v \notin 7000 .. 12000
        BY <1>3
    <2>6. Parsed(a, Formatted(a, v)) =
              IF 10 * v \in 700 .. 1200 THEN ((10 * v) \div 100) * 10 ELSE Rejected
        <3> DEFINE p == Formatted(a, v)
        <3> HIDE DEF p
        <3>1. Parsed(206, p) = IF toHundredths(p) \in 700 .. 1200 THEN (toHundredths(p) \div 100) * 10
                  ELSE IF toHundredths(p) \in 7000 .. 12000 THEN toHundredths(p) \div 100
                  ELSE Rejected
            BY HeaterTakes
        <3>2. Parsed(206, p) = IF 10 * v \in 700 .. 1200 THEN ((10 * v) \div 100) * 10
                  ELSE IF 10 * v \in 7000 .. 12000 THEN (10 * v) \div 100
                  ELSE Rejected
            BY <2>1, <3>1 DEF p
        <3> QED BY <1>3, <2>5, <3>2 DEF p
    <2>7. Parsed(a, Formatted(a, v)) =
              IF v \in 70 .. 120 THEN (v \div 10) * 10 ELSE Rejected
        BY <2>3, <2>4, <2>6
    <2> QED BY <1>3, <2>2, <2>7
<1>4. CASE a = TempLevel
    <2>1. Taken(a) = 0 .. 11
        BY <1>4 DEF Taken
    <2>3. toInt(Formatted(a, v)) = IF v > 0 THEN v + 11 ELSE 0
        <3>1. CASE v > 0
            <4>1. Formatted(a, v) = Number(100 * (v + 11), 2)
                BY <1>4, <3>1, FormattedFull
            <4>2. toInt(Number(100 * (v + 11), 2)) = Truncated(100 * (v + 11))
                BY DEF Number, toInt, IsNumber
            <4>3. Truncated(100 * (v + 11)) = v + 11
                BY <3>1 DEF Truncated
            <4> QED BY <3>1, <4>1, <4>2, <4>3
        <3>2. CASE ~(v > 0)
            <4>1. Formatted(a, v) = Plain(0)
                BY <1>4, <3>2, FormattedFull
            <4> QED BY <3>2, <4>1, PlainNumber
        <3> QED BY <3>1, <3>2
    <2> QED BY <1>4, <2>1, <2>3, HeaterTakes DEF Within
<1>5. CASE a = Year
    <2>1. toInt(Formatted(a, v)) = 2000 + v
        <3>1. Formatted(a, v) = Plain(2000 + v)
            BY <1>5, FormattedFull
        <3> QED BY <3>1, PlainNumber
    <2>2. Taken(a) = Nat
        BY <1>5 DEF Taken
    <2> QED BY <1>5, <2>1, <2>2, ClockTakes
<1> QED BY <1>2, <1>3, <1>4, <1>5

-----------------------------------------------------------------------------
(* The way of a value. *)

\* Sixteen bits: what they hold, and what they change.
LEMMA StoredShort ==
    /\ \A v \in Int : Stored(v) \in Shorts
    /\ \A v \in Shorts : Stored(v) = v
<1>1. \A w \in Int : w % 65536 \in Int /\ 0 <= w % 65536 /\ w % 65536 < 65536
    OBVIOUS
<1>2. \A w \in Int : 0 <= w /\ w < 65536 => w % 65536 = w
    OBVIOUS
<1>3. ASSUME NEW v \in Int PROVE Stored(v) \in Shorts
    <2> DEFINE w == v + 32768
    <2>1. w \in Int /\ Stored(v) = (w % 65536) - 32768
        BY DEF Stored
    <2> HIDE DEF w
    <2> QED BY <1>1, <2>1 DEF Shorts
<1>4. ASSUME NEW v \in Shorts PROVE Stored(v) = v
    <2> DEFINE w == v + 32768
    <2>1. /\ w \in Int /\ 0 <= w /\ w < 65536
          /\ v = w - 32768 /\ Stored(v) = (w % 65536) - 32768
        BY DEF Stored, Shorts
    <2> HIDE DEF w
    <2>2. w % 65536 = w
        BY <1>2, <2>1
    <2> QED BY <2>1, <2>2
<1> QED BY <1>3, <1>4

LEMMA StoredValues ==
    ASSUME NEW a \in PermFull, NEW v \in Taken(a)
    PROVE  /\ Stored(v) \in Shorts
           /\ a = TempLevel => Stored(v) >= 0
           /\ a = Fps => Stored(v) < 700
<1>1. v \in Int
    BY DEF Taken, Fps, TempLevel, Year
<1>2. a \in {TempLevel, Fps} => v \in 0 .. 120
    BY DEF Taken, Fps, TempLevel, Year
<1>3. a \in {TempLevel, Fps} => v \in Shorts /\ Stored(v) = v
    <2>1. \A n \in 0 .. 120 : n \in Shorts
        BY DEF Shorts
    <2>2. CASE a \in {TempLevel, Fps}
        <3>1. v \in Shorts
            BY <1>2, <2>1, <2>2
        <3> QED BY <3>1, StoredShort
    <2> QED BY <2>2
<1> QED BY <1>1, <1>2, <1>3, StoredShort

LEMMA FormattedIsPayload ==
    ASSUME NEW a \in PermFull, NEW v \in Int
    PROVE  IsPayload(Formatted(a, v))
<1>1. /\ \A h \in Int : \A d : IsPayload(Number(h, d))
      /\ \A w : IsPayload(Word(w))
    BY DEF IsPayload, IsNumber, Number, Word
<1>2. IsPayload(OnOff(v))
    BY <1>1 DEF OnOff
<1>3. \A n \in Int : IsPayload(Plain(n))
    BY <1>1 DEF Plain
<1>4. CASE v = VAL_INVALID
    BY <1>1, <1>4 DEF Formatted
<1>5. CASE v # VAL_INVALID
    BY <1>1, <1>2, <1>3, <1>5, FormattedFull
<1> QED BY <1>4, <1>5

LEMMA PayloadsArePayloads ==
    /\ IsPayload(Nothing)
    /\ \A p \in Payloads : IsPayload(p)
<1>1. /\ \A h \in Int : \A d : IsPayload(Number(h, d))
      /\ \A w : IsPayload(Word(w)) /\ IsPayload(Nothing)
    BY DEF IsPayload, IsNumber, Number, Word, Nothing
<1> QED BY <1>1, ValuesAssumption DEF Payloads

\* Who may be written and read may be both.
LEMMA ReadAndWritten ==
    ASSUME NEW a, isReadable(a), isWriteable(a)
    PROVE  a \in PermFull
<1>1. a \in PermReadOnly => a \notin PermWriteOnly
    BY DEF PermReadOnly
<1> QED BY <1>1 DEF isReadable, isWriteable

\* What is on its way as an echo is what the bridge publishes for the value the unit
\* has.
ValueInv ==
    /\ address \in Queried
    /\ echo => isReadable(address)
    /\ address \in PermFull =>
          /\ unit \in Shorts
          /\ address = TempLevel => unit >= 0
          /\ address = Fps => unit < 700
          /\ IsPayload(payload)
          /\ echo => payload = Formatted(address, unit)

LEMMA MayBeShort ==
    ASSUME NEW v \in Shorts, MayBe(v), address \in PermFull
    PROVE  /\ address = TempLevel => v >= 0
           /\ address = Fps => v < 700
BY DEF MayBe, isWriteable

LEMMA ValueInit == ASSUME Init PROVE ValueInv
<1>1. unit \in Shorts
    BY ValuesAssumption DEF Init
<1> QED BY <1>1, MayBeShort, PayloadsArePayloads DEF Init, ValueInv

\* A request: what it makes of the unit.
LEMMA RequestStep ==
    ASSUME ValueInv, NEW found, Request(found)
    PROVE  ValueInv'
<1> DEFINE value == Parsed(address, payload)
           requested == found # NotFound /\ isWriteable(address) /\ value # Rejected
           marked == requested /\ Marks(value)
<1> USE DEF ValueInv
<1>1. UNCHANGED address /\ payload' = Nothing /\ echo' = FALSE
    BY DEF Request
<1>2. CASE marked
    <2>1. unit' = Stored(value)
        BY <1>2 DEF Request
    <2>2. address \in PermFull => value \in Taken(address)
        BY <1>2, TakenOrRejected
    <2> HIDE DEF value
    <2>3. address \in PermFull =>
              /\ unit' \in Shorts
              /\ address = TempLevel => unit' >= 0
              /\ address = Fps => unit' < 700
        BY <2>1, <2>2, StoredValues
    <2> QED BY <1>1, <2>3, PayloadsArePayloads
<1>3. CASE ~marked
    <2>1. unit' = unit
        BY <1>3 DEF Request
    <2> QED BY <1>1, <2>1, PayloadsArePayloads
<1> QED BY <1>2, <1>3

LEMMA ValueStep ==
    ASSUME ValueInv, [Next]_vars
    PROVE  ValueInv'
<1> USE DEF ValueInv
<1>1. CASE Publish
    <2>1. /\ UNCHANGED <<address, unit>> /\ isReadable(address)
          /\ payload' = Formatted(address, unit)
        BY <1>1 DEF Publish
    <2>2. address \in PermFull => IsPayload(payload')
        BY <2>1, FormattedIsPayload DEF Shorts
    <2> QED BY <2>1, <2>2
<1>2. CASE RequestByAddress \/ RequestByName
    BY <1>2, RequestStep DEF RequestByAddress, RequestByName
<1>3. ASSUME NEW p \in Payloads, Command(p) PROVE ValueInv'
    BY <1>3, PayloadsArePayloads DEF Command
<1>4. ASSUME NEW v \in PanelValues, Panel(v) PROVE ValueInv'
    <2>1. v \in Shorts
        BY ValuesAssumption
    <2> QED BY <1>4, <2>1, MayBeShort DEF Panel
<1>5. CASE UNCHANGED vars
    BY <1>5 DEF vars
<1> QED BY <1>1, <1>2, <1>3, <1>4, <1>5 DEF Next

\* A block that findRegisterByAddress() returns owns the address, whichever of the
\* addresses a client may ask for it is: a request marks no other register.
THEOREM AddressIsOwned == Spec => []FoundOwnsAddress
<1>1. \A a \in Queried : a \in Int
    <2>1. \A b \in DOMAIN Table : Table[b].start \in Int
        BY DEF Table
    <2> QED BY <2>1 DEF Queried, AllRegisters, RegistersOf
<1>2. ValueInv => FoundOwnsAddress
    BY <1>1, FoundByAddress DEF ValueInv, FoundOwnsAddress
<1> QED BY <1>2, ValueInit, ValueStep, PTL DEF Spec

\* An echo: the unit keeps its value, whatever it is and however it is published; but
\* the frost protection level loses its half degrees, and two kinds of negative values
\* come back as others.
HalfDegreesLost == address = Fps /\ unit' = (unit \div 10) * 10
OtherNegative == unit < 0 /\ (address = Year \/ unit = VAL_INVALID)

LEMMA EchoStep ==
    ASSUME ValueInv, [Next]_vars, echo, payload' # payload
    PROVE  unit' = unit \/ HalfDegreesLost \/ OtherNegative
<1>1. ASSUME NEW found, Request(found), ~OtherNegative
      PROVE  unit' = unit \/ HalfDegreesLost
    <2> DEFINE value == Parsed(address, payload)
               requested == found # NotFound /\ isWriteable(address) /\ value # Rejected
               marked == requested /\ Marks(value)
    <2>1. CASE ~marked
        <3>1. unit' = unit
            BY <1>1, <2>1 DEF Request
        <3> QED BY <3>1
    <2>2. CASE marked
        <3>1. unit' = Stored(value) /\ value # Rejected
            BY <1>1, <2>2 DEF Request
        <3>2. address \in PermFull
            BY <2>2, ReadAndWritten DEF ValueInv
        <3>3. value = Parsed(address, Formatted(address, unit))
            BY <3>2 DEF ValueInv
        <3>4. unit \in Shorts
            BY <3>2 DEF ValueInv
        <3> HIDE DEF value
        <3>5. unit \in Int
            BY <3>4 DEF Shorts
        <3>6. unit # VAL_INVALID /\ (address = Year => unit >= 0)
            BY <1>1, <3>5 DEF VAL_INVALID, OtherNegative
        <3>7. CASE address # 114
            <4>1. address \in {TempLevel, Year} => unit >= 0
                BY <3>2, <3>6 DEF ValueInv
            <4>2. address = Fps => unit < 700
                BY <3>2 DEF ValueInv
            <4>3. value = IF unit \notin Taken(address) THEN Rejected
                          ELSE IF address = Fps THEN (unit \div 10) * 10 ELSE unit
                BY <3>2, <3>3, <3>5, <3>6, <3>7, <4>1, <4>2, EchoIsTaken
            <4>4. CASE address = Fps
                <5>1. unit \in 70 .. 120
                    BY <3>1, <4>3, <4>4 DEF Taken, Fps, TempLevel, Year
                <5>2. (unit \div 10) * 10 \in Shorts
                    BY <5>1 DEF Shorts
                <5> QED BY <3>1, <4>3, <4>4, <5>2, StoredShort DEF HalfDegreesLost
            <4>5. CASE address # Fps
                BY <3>1, <3>4, <4>3, <4>5, StoredShort
            <4> QED BY <4>4, <4>5
        <3>8. CASE address = 114
            <4>1. value = Parsed(114, OnOff(unit))
                BY <3>2, <3>3, <3>5, <3>6, <3>8, FormattedFull
            <4>2. value = Rejected
                BY <4>1, FanTakes DEF Said, Says, Lower, OnOff, Word, Plain, Number
            <4> QED BY <3>1, <4>2
        <3> QED BY <3>7, <3>8
    <2> QED BY <2>1, <2>2
<1>2. CASE RequestByAddress \/ RequestByName
    BY <1>1, <1>2 DEF RequestByAddress, RequestByName
<1>3. CASE Publish \/ (\E p \in Payloads : Command(p)) \/ UNCHANGED vars
    <2>1. unit' = unit
        BY <1>3 DEF Publish, Command, vars
    <2> QED BY <2>1
<1>4. ASSUME NEW v \in PanelValues, Panel(v) PROVE FALSE
    BY <1>4 DEF Panel
<1> QED BY <1>2, <1>3, <1>4 DEF Next

\* A published value that comes back leaves the register as it was, but for half degrees
\* of the frost protection level, years that 16 bits do not hold, and -404.
THEOREM EchoesKeepValue == Spec => EchoKeepsValue
<1>1. ValueInv /\ [Next]_vars =>
          (echo /\ payload' # payload => unit' = unit \/ HalfDegreesLost \/ OtherNegative)
    BY EchoStep
<1> QED BY <1>1, ValueInit, ValueStep, PTL
    DEF Spec, EchoKeepsValue, HalfDegreesLost, OtherNegative

\* A request that is dropped as a repetition asks for what the unit has, unless the unit
\* changed it by itself, or it is for -404: for every register, value and number.
THEOREM RequestsInForce == Spec => []RequestInForce
<1>1. Init => RequestInForce
    BY DEF Init, RequestInForce
<1>2. ASSUME RequestInForce, [Next]_vars PROVE RequestInForce'
    <2>1. ASSUME NEW found, Request(found) PROVE RequestInForce'
        <3> DEFINE value == Parsed(address, payload)
                   requested == found # NotFound /\ isWriteable(address) /\ value # Rejected
        <3>1. CASE requested /\ Marks(value)
            <4>1. unit' = Stored(value) /\ pending' = value
                BY <2>1, <3>1 DEF Request
            <4>2. unit' = Stored(pending')
                BY <4>1
            <4> QED BY <4>2 DEF RequestInForce, Stored
        <3>2. CASE ~(requested /\ Marks(value))
            <4>1. unit' = unit /\ pending' = pending /\ (moved => moved')
                BY <2>1, <3>2 DEF Request, Marks
            <4> QED BY <1>2, <4>1 DEF RequestInForce, Stored
        <3> QED BY <3>1, <3>2
    <2>2. ASSUME NEW v \in PanelValues, Panel(v) PROVE RequestInForce'
        BY <2>2 DEF Panel, RequestInForce
    <2>3. CASE Publish \/ (\E p \in Payloads : Command(p)) \/ UNCHANGED vars
        BY <1>2, <2>3 DEF Publish, Command, vars, RequestInForce, Stored
    <2> QED BY <1>2, <2>1, <2>2, <2>3 DEF Next, RequestByAddress, RequestByName
<1> QED BY <1>1, <1>2, PTL DEF Spec
=============================================================================
