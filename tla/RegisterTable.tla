--------------------------- MODULE RegisterTable ---------------------------
(***************************************************************************)
(* The register blocks of the bridge, as addRegisters() and the            *)
(* constructors of the block classes set them up, and the look-up of the   *)
(* block a write request is for.  Names are left out: a named register     *)
(* stands for its name, which no other register has.                       *)
(***************************************************************************)
EXTENDS Integers, Sequences

\* m_start, m_length and m_coil, in the order of m_registers.
Table == <<
    [start |-> 100,   length |-> 38, coil |-> FALSE],  \* FanRegister
    [start |-> 200,   length |-> 21, coil |-> FALSE],  \* HeaterRegister
    [start |-> 3488,  length |-> 5,  coil |-> TRUE],   \* TempSensorStateCoil
    [start |-> 350,   length |-> 2,  coil |-> FALSE],  \* RotorRegister
    [start |-> 500,   length |-> 7,  coil |-> FALSE],  \* SystemRegister
    [start |-> 548,   length |-> 1,  coil |-> FALSE],  \* NvmRegister
    [start |-> 550,   length |-> 7,  coil |-> FALSE],  \* ClockRegister
    [start |-> 600,   length |-> 2,  coil |-> FALSE],  \* FilterRegister
    [start |-> 700,   length |-> 9,  coil |-> FALSE],  \* InputRegister
    [start |-> 11200, length |-> 7,  coil |-> TRUE],   \* InputCoil
    [start |-> 12000, length |-> 3,  coil |-> TRUE],   \* PcuPbCoil
    [start |-> 12800, length |-> 9,  coil |-> TRUE],   \* AlarmCoil
    [start |-> 800,   length |-> 2,  coil |-> FALSE]   \* AlarmRegister
    >>

RegistersOf(b) == Table[b].start + 1 .. Table[b].start + Table[b].length
AllRegisters == UNION { RegistersOf(b) : b \in DOMAIN Table }

\* The addRegister() calls: permissions (PERM_FULL is the default), and the
\* registers without a name.
Unnamed == {219, 12803}
PermFull ==
    (101 .. 108) \cup {114} \cup (136 .. 138)           \* fan
    \cup {201, 202, 206, 207, 220}                      \* heater and cooler
    \cup (551 .. 556) \cup {601, 602} \cup (702 .. 709) \* clock, filter, inputs
PermWriteOnly == {115, 549} \cup (11201 .. 11205) \cup {11207}
PermReadOnly == AllRegisters \ (PermFull \cup PermWriteOnly \cup Unnamed)

isReadable(a) == a \in PermFull \cup PermReadOnly
isWriteable(a) == a \in PermFull \cup PermWriteOnly

NotFound == 0

\* Mutant of findRegisterByAddress: the address of the block itself is accepted.
FindFromStart(a) ==
    LET found == { b \in DOMAIN Table :
                     Table[b].start <= a /\ a < Table[b].start + Table[b].length }
    IN  IF found = {} THEN NotFound ELSE CHOOSE b \in found : \A c \in found : b <= c

\* The first block for which the test holds.
findRegisterByAddress(a) ==
    LET found == { b \in DOMAIN Table :
                     Table[b].start < a /\ a < Table[b].start + Table[b].length }
    IN  IF found = {} THEN NotFound ELSE CHOOSE b \in found : \A c \in found : b <= c

\* Addresses are found through their name in the block that has them.
findRegisterByName(a) ==
    LET found == { b \in DOMAIN Table : a \in RegistersOf(b) \ Unnamed }
    IN  IF found = {} THEN NotFound ELSE CHOOSE b \in found : \A c \in found : b <= c
=============================================================================
