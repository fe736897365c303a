---------------------------- MODULE Superscalar ----------------------------
(***************************************************************************)
(* The generator of SuperscalarHash programs (superscalar.cpp): it decodes *)
(* groups of slots, fills each slot with a macro-operation of a randomly   *)
(* chosen instruction, assigns its micro-operations to three execution     *)
(* ports and picks operand registers that are ready by then.               *)
(*                                                                         *)
(* What the Blake2Generator returns is any value.  Immediates, and the     *)
(* statistics that do not influence the program, are left out.  An         *)
(* instruction is kept until it is appended to the program, of which only  *)
(* the size remains.                                                       *)
(***************************************************************************)
EXTENDS Integers, Sequences, FiniteSets

CONSTANTS
    Registers,                 \* 0 .. 7
    RegisterNeedsDisplacement, \* r5
    Names,                     \* the instructions in play
    SUPERSCALAR_LATENCY,       \* RANDOMX_SUPERSCALAR_LATENCY
    SuperscalarMaxSize,        \* 3 * RANDOMX_SUPERSCALAR_LATENCY + 2
    LOOK_FORWARD_CYCLES,
    MAX_THROWAWAY_COUNT

ASSUME RegistersAssumption == Registers \subseteq Nat /\ RegisterNeedsDisplacement \in Registers
ASSUME LatencyAssumption == SUPERSCALAR_LATENCY \in Nat \ {0}
ASSUME SizeAssumption == SuperscalarMaxSize \in Nat \ {0}
ASSUME LimitsAssumption == LOOK_FORWARD_CYCLES \in Nat /\ MAX_THROWAWAY_COUNT \in Nat

\* Mutant: the map ends where the longest latency begins.
CYCLE_MAP_SIZE_Short == SUPERSCALAR_LATENCY + 2

CYCLE_MAP_SIZE == SUPERSCALAR_LATENCY + 4

-----------------------------------------------------------------------------
(* Macro-operations, instructions and decode groups.                       *)

Mop(size, latency, uops) == [size |-> size, latency |-> latency, uops |-> uops, dependent |-> FALSE]

P01 == {"P0", "P1"}
P05 == {"P0", "P5"}
P015 == {"P0", "P1", "P5"}

Add_rr == Mop(3, 1, <<P015>>) \* also sub and xor
Mov_rr == Mop(3, 0, <<>>) \* eliminated
Mul_r == Mop(3, 4, <<{"P1"}, {"P5"}>>) \* also imul
Lea_sib == Mop(4, 1, <<P01>>)
Imul_rr == Mop(4, 3, <<{"P1"}>>)
Ror_ri == Mop(4, 1, <<P05>>)
Add_ri == Mop(7, 1, <<P015>>) \* also xor
Mov_ri64 == Mop(10, 1, <<P015>>)

Info(ops, group, resultOp, dstOp, srcOp) ==
    [ops |-> ops, group |-> group, resultOp |-> resultOp, dstOp |-> dstOp, srcOp |-> srcOp]

NOP == Info(<<>>, "INVALID", 0, 0, 0)

MulH(group) == Info(<<Mov_rr, Mul_r, Mov_rr>>, group, 1, 0, 1)

Infos == [
    ISUB_R   |-> Info(<<Add_rr>>, "IADD_RS", 0, 0, 0),
    IXOR_R   |-> Info(<<Add_rr>>, "IXOR_R", 0, 0, 0),
    IADD_RS  |-> Info(<<Lea_sib>>, "IADD_RS", 0, 0, 0),
    IMUL_R   |-> Info(<<Imul_rr>>, "IMUL_R", 0, 0, 0),
    IROR_C   |-> Info(<<Ror_ri>>, "IROR_C", 0, 0, -1),
    IADD_C   |-> Info(<<Add_ri>>, "IADD_C7", 0, 0, -1),
    IXOR_C   |-> Info(<<Add_ri>>, "IXOR_C7", 0, 0, -1),
    IMULH_R  |-> MulH("IMULH_R"),
    ISMULH_R |-> MulH("ISMULH_R"),
    IMUL_RCP |-> Info(<<Mov_ri64, [Imul_rr EXCEPT !.dependent = TRUE]>>, "IMUL_RCP", 1, 1, -1)]

MulHs == {"IMULH_R", "ISMULH_R"}
isMultiplication(name) == name \in MulHs \cup {"IMUL_R", "IMUL_RCP"}

\* opGroupPar is the source for these, constant -1 for the others except MulHs.
groupParIsSource(name) == name \in {"ISUB_R", "IXOR_R", "IADD_RS", "IMUL_R"}
canReuse(name) == name \in MulHs

buffer484 == <<4, 8, 4>>
buffer7333 == <<7, 3, 3, 3>>
buffer3733 == <<3, 7, 3, 3>>
buffer493 == <<4, 9, 3>>
buffer4444 == <<4, 4, 4, 4>>
buffer3310 == <<3, 3, 10>>

\* createForSlot: the instructions of slot number index of a group.
ForSlot(group, index) ==
    LET isLast == index = Len(group)
    IN  CASE group[index] = 3 -> {"ISUB_R", "IXOR_R"} \cup (IF isLast THEN MulHs ELSE {})
          [] group[index] = 4 /\ group = buffer4444 /\ ~isLast -> {"IMUL_R"}
          [] group[index] = 4 /\ ~(group = buffer4444 /\ ~isLast) -> {"IROR_C", "IADD_RS"}
          [] group[index] \in {7, 8, 9} -> {"IXOR_C", "IADD_C"}
          [] group[index] = 10 -> {"IMUL_RCP"}

VARIABLES
    portBusy,       \* the ports in use in each cycle
    registers,      \* RegisterInfo
    buffer,         \* decodeBuffer
    bufferIndex,    \* the slot to be filled, from 1
    current,        \* currentInstruction
    macroOpIndex,
    cycle, topCycle, scheduleCycle, depCycle, decodeCycle,
    portsSaturated,
    programSize, mulCount, throwAwayCount,
    stage

plan == <<portBusy, registers>>
counts == <<programSize, mulCount>>
generatorVars == <<portBusy, registers, buffer, bufferIndex, current, macroOpIndex, cycle, topCycle,
          scheduleCycle, depCycle, decodeCycle, portsSaturated, programSize, mulCount,
          throwAwayCount, stage>>

InfoOf(name) == IF name = "INVALID" THEN NOP ELSE Infos[name]
info == InfoOf(current.name)
mop == info.ops[macroOpIndex + 1]

Instruction(name) == [name |-> name, src |-> -1, dst |-> -1, par |-> -1]
Null == Instruction("INVALID")

-----------------------------------------------------------------------------
(* Ports.                                                                  *)

Earliest(S) == IF S = {} THEN -1 ELSE CHOOSE c \in S : \A d \in S : c <= d

\* scheduleMop<false>: all micro-operations of a macro-operation go in one cycle,
\* and no two of them want the same port.
scheduleMop(op, from, dep) ==
    LET start == IF op.dependent /\ dep > from THEN dep ELSE from
    IN  IF op.uops = <<>> THEN start
        ELSE Earliest({c \in start .. CYCLE_MAP_SIZE - 1 :
                 \A u \in DOMAIN op.uops : op.uops[u] \ portBusy[c] # {}})

\* The port scheduleUop takes: P5, P0 or P1 in this order.
Port(free) == IF "P5" \in free THEN "P5" ELSE IF "P0" \in free THEN "P0" ELSE "P1"

\* scheduleMop<true>
Booked(op, c) ==
    IF op.uops = <<>> THEN portBusy
    ELSE [portBusy EXCEPT ![c] = @ \cup {Port(op.uops[u] \ @) : u \in DOMAIN op.uops}]

-----------------------------------------------------------------------------
(* Operands.                                                               *)

Ready(c) == {r \in Registers : registers[r].latency <= c}

\* selectSource
Sources(c) ==
    IF /\ Cardinality(Ready(c)) = 2 /\ current.name = "IADD_RS"
       /\ RegisterNeedsDisplacement \in Ready(c)
    THEN {RegisterNeedsDisplacement}
    ELSE Ready(c)

\* selectDestination
Destinations(c) ==
    {r \in Ready(c) :
        /\ canReuse(current.name) \/ r # current.src
        /\ \/ throwAwayCount > 0
           \/ info.group # "IMUL_R"
           \/ registers[r].lastOpGroup # "IMUL_R"
        /\ registers[r].lastOpGroup # info.group \/ registers[r].lastOpPar # current.par
        /\ current.name # "IADD_RS" \/ r # RegisterNeedsDisplacement}

\* How many cycles later an operand is ready, or -1.
Ahead == 0 .. LOOK_FORWARD_CYCLES - 1
SourceStall == Earliest({f \in Ahead : Sources(scheduleCycle + f) # {}})
DestinationStall == Earliest({f \in Ahead : Destinations(scheduleCycle + f) # {}})

-----------------------------------------------------------------------------
(* The loops of generateSuperscalar.                                       *)

GeneratorInit ==
    /\ portBusy = [c \in 0 .. CYCLE_MAP_SIZE - 1 |-> {}]
    /\ registers = [r \in Registers |-> [latency |-> 0, lastOpGroup |-> "INVALID", lastOpPar |-> -1]]
    /\ buffer = <<>>
    /\ bufferIndex = 1
    /\ current = Null
    /\ macroOpIndex = 0
    /\ cycle = 0 /\ topCycle = 0 /\ scheduleCycle = 0 /\ depCycle = 0 /\ decodeCycle = 0
    /\ portsSaturated = FALSE
    /\ programSize = 0 /\ mulCount = 0 /\ throwAwayCount = 0
    /\ stage = "fetch"

\* Mutant: an unfinished high multiplication does not choose its group.
FetchNextAny ==
    IF mulCount < decodeCycle + 1 THEN {buffer4444}
    ELSE IF current.name = "IMUL_RCP" THEN {buffer484, buffer493}
    ELSE {buffer484, buffer7333, buffer3733, buffer493}

FetchNext ==
    IF current.name \in MulHs THEN {buffer3310}
    ELSE IF mulCount < decodeCycle + 1 THEN {buffer4444}
    ELSE IF current.name = "IMUL_RCP" THEN {buffer484, buffer493}
    ELSE {buffer484, buffer7333, buffer3733, buffer493}

Full == portsSaturated \/ programSize >= SuperscalarMaxSize

Fetch ==
    /\ stage = "fetch"
    /\ IF decodeCycle < SUPERSCALAR_LATENCY /\ ~Full
       THEN /\ buffer' \in FetchNext
            /\ bufferIndex' = 1
            /\ stage' = "slot"
       ELSE /\ stage' = "done"
            /\ UNCHANGED <<buffer, bufferIndex>>
    /\ UNCHANGED <<plan, current, macroOpIndex, cycle, topCycle, scheduleCycle, depCycle,
                   decodeCycle, portsSaturated, counts, throwAwayCount>>

NeedsNew == macroOpIndex >= Len(info.ops)
SlotsLeft == bufferIndex <= Len(buffer)

\* Every group ends here, also when it is given up.
EndOfBuffer ==
    /\ \/ stage = "break"
       \/ stage = "slot" /\ (~SlotsLeft \/ (NeedsNew /\ Full))
    /\ cycle' = cycle + 1
    /\ decodeCycle' = decodeCycle + 1
    /\ stage' = "fetch"
    /\ UNCHANGED <<plan, buffer, bufferIndex, current, macroOpIndex, topCycle, scheduleCycle,
                   depCycle, portsSaturated, counts, throwAwayCount>>

\* createForSlot.  The parameter of a high multiplication is a random number.
Create(name) ==
    /\ stage = "slot" /\ SlotsLeft /\ NeedsNew /\ ~Full
    /\ name \in ForSlot(buffer, bufferIndex)
    /\ \E par \in IF name \in MulHs THEN {-1} \cup Registers ELSE {-1} :
          current' = [Instruction(name) EXCEPT !.par = par]
    /\ macroOpIndex' = 0
    /\ stage' = "schedule"
    /\ UNCHANGED <<plan, buffer, bufferIndex, cycle, topCycle, scheduleCycle, depCycle,
                   decodeCycle, portsSaturated, counts, throwAwayCount>>

\* Which operand is to be found next.
NeedsSource == macroOpIndex = info.srcOp
NeedsDestination == macroOpIndex = info.dstOp

Schedule ==
    /\ stage = "schedule" \/ (stage = "slot" /\ SlotsLeft /\ ~NeedsNew)
    /\ LET c == scheduleMop(mop, cycle, depCycle)
       IN  IF c < 0
           THEN /\ portsSaturated' = TRUE
                /\ stage' = "break"
                /\ UNCHANGED <<scheduleCycle, topCycle>>
           ELSE /\ scheduleCycle' = c
                /\ topCycle' = cycle
                /\ stage' = IF NeedsSource THEN "source"
                         ELSE IF NeedsDestination THEN "destination" ELSE "issue"
                /\ UNCHANGED portsSaturated
    /\ UNCHANGED <<plan, buffer, bufferIndex, current, macroOpIndex, cycle, depCycle, decodeCycle,
                   counts, throwAwayCount>>

SelectSource ==
    /\ stage = "source"
    /\ LET f == SourceStall
       IN  /\ f >= 0
           /\ \E r \in Sources(scheduleCycle + f) :
                 current' = [current EXCEPT !.src = r,
                                            !.par = IF groupParIsSource(current.name) THEN r ELSE @]
           /\ scheduleCycle' = scheduleCycle + f
           /\ cycle' = cycle + f
    /\ stage' = IF NeedsDestination THEN "destination" ELSE "issue"
    /\ UNCHANGED <<plan, buffer, bufferIndex, macroOpIndex, topCycle, depCycle, decodeCycle,
                   portsSaturated, counts, throwAwayCount>>

SelectDestination ==
    /\ stage = "destination"
    /\ LET f == DestinationStall
       IN  /\ f >= 0
           /\ \E r \in Destinations(scheduleCycle + f) : current' = [current EXCEPT !.dst = r]
           /\ scheduleCycle' = scheduleCycle + f
           /\ cycle' = cycle + f
    /\ stage' = "issue"
    /\ UNCHANGED <<plan, buffer, bufferIndex, macroOpIndex, topCycle, depCycle, decodeCycle,
                   portsSaturated, counts, throwAwayCount>>

GivesUp == throwAwayCount >= MAX_THROWAWAY_COUNT

\* No operand within LOOK_FORWARD_CYCLES: another instruction is tried in the
\* same slot, but not for ever.
ThrowAway ==
    /\ \/ stage = "source" /\ SourceStall < 0
       \/ stage = "destination" /\ DestinationStall < 0
    /\ cycle' = cycle + LOOK_FORWARD_CYCLES
    /\ IF GivesUp
       THEN /\ current' = Null
            /\ stage' = "break"
            /\ UNCHANGED <<macroOpIndex, throwAwayCount>>
       ELSE /\ throwAwayCount' = throwAwayCount + 1
            /\ macroOpIndex' = Len(info.ops)
            /\ stage' = "slot"
            /\ UNCHANGED current
    /\ UNCHANGED <<plan, buffer, bufferIndex, topCycle, scheduleCycle, depCycle, decodeCycle,
                   portsSaturated, counts>>

\* Mutant: the port is looked for from the cycle before operands were found.
IssueCycleEarly == scheduleMop(mop, cycle, cycle)

\* When the macro-operation is executed, its operands known.
IssueCycle == scheduleMop(mop, scheduleCycle, scheduleCycle)

Result(c) == [latency |-> c + mop.latency, lastOpGroup |-> info.group, lastOpPar |-> current.par]

\* The instruction is appended to the program with its last macro-operation.
Issue ==
    /\ stage = "issue"
    /\ throwAwayCount' = 0
    /\ LET c == IssueCycle
           done == macroOpIndex + 1 >= Len(info.ops)
       IN  IF c < 0
           THEN /\ portsSaturated' = TRUE
                /\ stage' = "break"
                /\ UNCHANGED <<plan, bufferIndex, macroOpIndex, cycle, depCycle, counts>>
           ELSE /\ portBusy' = Booked(mop, c)
                /\ depCycle' = c + mop.latency
                /\ registers' = [r \in Registers |->
                       IF macroOpIndex = info.resultOp /\ r = current.dst THEN Result(c)
                       ELSE registers[r]]
                /\ bufferIndex' = bufferIndex + 1
                /\ macroOpIndex' = macroOpIndex + 1
                /\ portsSaturated' = (portsSaturated \/ c >= SUPERSCALAR_LATENCY)
                /\ cycle' = topCycle
                /\ programSize' = programSize + (IF done THEN 1 ELSE 0)
                /\ mulCount' = mulCount + (IF done /\ isMultiplication(current.name) THEN 1 ELSE 0)
                /\ stage' = "slot"
    /\ UNCHANGED <<buffer, current, topCycle, scheduleCycle, decodeCycle>>

GeneratorNext ==
    \/ Fetch
    \/ EndOfBuffer
    \/ \E name \in Names : Create(name)
    \/ Schedule
    \/ SelectSource
    \/ SelectDestination
    \/ ThrowAway
    \/ Issue

GeneratorSpec == GeneratorInit /\ [][GeneratorNext]_generatorVars

-----------------------------------------------------------------------------
(* Properties                                                              *)

\* "The CPU can decode at most 16 bytes of code per cycle and at most 4
\* micro-ops per cycle" (doc/specs.md, 6.2): whatever is thrown away, every
\* macro-operation fits the slot it is issued in, padded by at most two bytes, and
\* the one with two micro-operations comes first in a group of three.
FitsSlot ==
    stage = "issue" =>
        /\ buffer[bufferIndex] \in mop.size .. mop.size + 2
        /\ Len(mop.uops) = 2 => bufferIndex = 1 /\ Len(buffer) = 3

\* A register is available "if the latency of its last operation has elapsed"
\* (doc/specs.md, 6.3.4), and a dependent macro-operation follows the one before:
\* so it is in the cycle of the ports that are taken in the end, which is not
\* the one operands were looked for in.  The destination of a high
\* multiplication was even chosen in the group before, and the cycle counter
\* taken back since.
OperandsReady ==
    stage = "issue" /\ macroOpIndex = info.resultOp =>
        /\ {current.src, current.dst} \ {-1} \subseteq Ready(IssueCycle)
        /\ mop.dependent => IssueCycle >= depCycle

\* The four cycles past the target latency are enough: an instruction that got its
\* operands gets its ports, too (superscalar.cpp:764).  And the program
\* buffer is not overrun, although instructions are appended some slots after
\* the size is checked.
SizesSuffice ==
    /\ stage = "issue" => IssueCycle >= 0
    /\ programSize <= SuperscalarMaxSize

-----------------------------------------------------------------------------
(* What makes the properties inductive.                                    *)

Ports == {"P0", "P1", "P5"}
Groups == {buffer484, buffer7333, buffer3733, buffer493, buffer4444, buffer3310}

TypeInv ==
    /\ stage \in {"fetch", "slot", "schedule", "source", "destination", "issue", "break", "done"}
    /\ portBusy \in [0 .. CYCLE_MAP_SIZE - 1 -> SUBSET Ports]
    /\ DOMAIN registers = Registers /\ \A r \in Registers : registers[r].latency \in Nat
    /\ buffer \in Groups \cup {<<>>} /\ bufferIndex \in Nat \ {0}
    /\ current \in [name : DOMAIN Infos \cup {"INVALID"}, src : Registers \cup {-1},
                    dst : Registers \cup {-1}, par : Registers \cup {-1}]
    /\ macroOpIndex \in Nat /\ programSize \in Nat
    /\ cycle \in Nat /\ topCycle \in Nat /\ scheduleCycle \in Nat /\ depCycle \in Nat
    /\ portsSaturated \in BOOLEAN

Scheduled == stage \in {"source", "destination", "issue"}
Filling == stage = "schedule" \/ Scheduled \/ (stage = "slot" /\ SlotsLeft /\ ~NeedsNew)

\* A macro-operation and the slot it is meant for.  The first of several takes the last
\* slot of its group, the others the first slots of the next one.
Placed ==
    /\ SlotsLeft /\ ~NeedsNew
    /\ buffer[bufferIndex] \in mop.size .. mop.size + 2
    /\ Len(mop.uops) = 2 => bufferIndex = 1 /\ Len(buffer) = 3
    /\ Len(info.ops) > 1 /\ macroOpIndex = 0 => bufferIndex = Len(buffer)
    /\ current.name \in MulHs => IF macroOpIndex = 0 THEN buffer \in {buffer7333, buffer3733, buffer493}
                                 ELSE buffer = buffer3310 /\ bufferIndex = macroOpIndex

\* Only an instruction of several macro-operations is left over by a group.
SlotsRight ==
    /\ stage \notin {"fetch", "done"} => buffer \in Groups
    /\ stage = "slot" => bufferIndex <= Len(buffer) + 1
    /\ Filling => Placed
    /\ (stage \in {"break", "fetch"} \/ (stage = "slot" /\ ~SlotsLeft)) /\ ~NeedsNew /\ ~portsSaturated
          => macroOpIndex = 1 /\ Len(info.ops) > 1
    /\ stage = "source" => NeedsSource
    /\ stage = "destination" => NeedsDestination

SizeRight ==
    /\ programSize <= SuperscalarMaxSize
    /\ ~NeedsNew => programSize < SuperscalarMaxSize

\* Beyond the target latency everything is free and every register ready, until that
\* saturates the ports; of an instruction under way only a move is left then.
RoomLeft ==
    /\ ~portsSaturated =>
          /\ \A c \in SUPERSCALAR_LATENCY .. CYCLE_MAP_SIZE - 1 : portBusy[c] = {}
          /\ \A r \in Registers : registers[r].latency < CYCLE_MAP_SIZE
    /\ portsSaturated /\ Filling => macroOpIndex = 2
    /\ Scheduled /\ mop.uops # <<>> => scheduleCycle < CYCLE_MAP_SIZE

\* Since no operation has looked for its operands before topCycle.
Since == topCycle .. CYCLE_MAP_SIZE - 1
P5Free(c) == "P5" \notin portBusy[c]

\* An operation any port will do for waits for nothing but its operands.
IsPrompt ==
    Scheduled /\ mop.uops = <<P015>> /\ current.name # "IMUL_RCP" =>
        /\ stage = "source" => \A c \in Since : P5Free(c) => scheduleCycle <= c
        /\ stage = "destination" => \A c \in Since : P5Free(c) /\ Ready(c) # {} => scheduleCycle <= c
        /\ stage = "issue" => \A c \in Since : P5Free(c) /\ Destinations(c) # {} => scheduleCycle <= c

Operands ==
    /\ topCycle <= cycle
    /\ info.srcOp = -1 => current.src = -1
    /\ Scheduled => scheduleCycle >= topCycle
    /\ Scheduled /\ mop.dependent => scheduleCycle >= depCycle
    /\ stage \in {"destination", "issue"} /\ NeedsSource => current.src \in Ready(scheduleCycle)
    /\ stage = "issue" /\ NeedsDestination => current.dst \in Destinations(scheduleCycle)

OfMulH(r) == registers[r].lastOpGroup \in MulHs

\* Once a group has placed its addition of a constant, which takes P5 whenever it can, a
\* cycle in which P5 is free and a register ready has one ready that is not the result of a high
\* multiplication, and so fit to be the destination of the next.
ConstantSlot == IF buffer = buffer7333 THEN 1 ELSE 2
Spare ==
    (/\ stage = "slot" \/ stage = "schedule" \/ Scheduled
     /\ buffer \in {buffer7333, buffer3733, buffer493}
     /\ bufferIndex > ConstantSlot)
    => \A c \in Since : P5Free(c) /\ Ready(c) # {} => \E r \in Ready(c) : ~OfMulH(r)

\* So the destination chosen in one group is ready in time for the next.
DestinationOnTime ==
    current.name \in MulHs =>
        /\ macroOpIndex = 0 /\ stage = "destination" => scheduleCycle = topCycle
        /\ macroOpIndex = 0 /\ stage = "issue" =>
              \A c \in Since : P5Free(c) /\ Ready(c) # {} => scheduleCycle <= c
        /\ macroOpIndex = 1 =>
              \A c \in Since : P5Free(c) /\ Ready(c) # {} => current.dst \in Ready(c)

GeneratorInv == TypeInv /\ SlotsRight /\ SizeRight /\ RoomLeft /\ Operands /\ IsPrompt /\ Spare /\ DestinationOnTime
=============================================================================
