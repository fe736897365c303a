----------------------------- MODULE Argon2Fill -----------------------------
(***************************************************************************)
(* Filling the cache with Argon2d (argon2_core.c and the fill_segment      *)
(* implementations): the order of the blocks, the rotation of prev_offset, *)
(* and the choice of the reference block (randomx_argon2_index_alpha).     *)
(*                                                                         *)
(* What a block holds is abstracted to its version: how many passes of     *)
(* this fill have computed it, 0 for what an earlier key, or nobody, left  *)
(* there.  A value read out of a block is any value of its type.  The      *)
(* implementation of fill_segment is chosen with the cache: the reference  *)
(* one chains blocks through memory, the SSSE3 and AVX2 ones through a     *)
(* copy of the previous block, state, that they keep in registers.         *)
(***************************************************************************)
EXTENDS Integers

CONSTANTS
    lanes,           \* instance->lanes
    segment_length,  \* instance->segment_length
    passes,          \* instance->passes
    Randoms,         \* number of values of pseudo_rand (2^32)
    None             \* nothing

ASSUME LanesAssumption == lanes \in Nat \ {0}
\* argon2_core.c:406: there are always at least two blocks in a slice.
ASSUME SegmentAssumption == segment_length \in Nat \ {0, 1}
ASSUME PassesAssumption == passes \in Nat \ {0}
ASSUME RandomsAssumption == Randoms \in Nat \ {0}

SyncPoints == 4

lane_length == SyncPoints * segment_length

VARIABLES
    impl,       \* the fill_segment implementation of the cache
    pc,         \* "seed", "enter", "block" or "done"
    position,   \* pass, lane, slice and index
    curr_offset,
    prev_offset,
    state,      \* the vector implementations' copy of the previous block
    memory,     \* the version each block holds
    inputs      \* the blocks the last block was computed from

vars == <<impl, pc, position, curr_offset, prev_offset, state, memory, inputs>>

Offsets == 0 .. lanes * lane_length - 1
Versions == 0 .. passes
PseudoRands == 0 .. Randoms - 1

Positions == [pass : 0 .. passes, lane : 0 .. lanes - 1,
              slice : 0 .. SyncPoints - 1, index : 0 .. segment_length]

\* A block as it is read: where it lies and which version it has.
Read(offset) == [offset |-> offset, version |-> memory[offset]]

BlockReads == [offset : Offsets, version : Versions]

BlockInputs == [to : Offsets, random : BlockReads, previous : BlockReads, ref : BlockReads,
                old : BlockReads \cup {None}, at : Positions]

ASSUME NoneAssumption == None \notin BlockInputs

-----------------------------------------------------------------------------
(* randomx_argon2_index_alpha                                              *)

\* Mutant: the block before the current one is not left out.
AreaWithPrevious(pos, same_lane) ==
    IF pos.pass = 0
    THEN IF same_lane THEN pos.slice * segment_length + pos.index
                      ELSE pos.slice * segment_length
    ELSE IF same_lane THEN lane_length - segment_length + pos.index
                      ELSE lane_length - segment_length

\* How many blocks of the lane the current block may refer to.
Area(pos, same_lane) ==
    LET finished == IF pos.pass = 0 THEN pos.slice * segment_length
                                    ELSE lane_length - segment_length
    IN  IF same_lane THEN finished + pos.index - 1
        ELSE finished - (IF pos.index = 0 THEN 1 ELSE 0)

\* Squared, so that the newest blocks are chosen most often; x >> 32 divides by
\* the number of random values.
Relative(area, pseudo_rand) ==
    LET square == (pseudo_rand * pseudo_rand) \div Randoms
    IN  area - 1 - (area * square) \div Randoms

\* Mutant: the last slice does not start over at 0 and the others start at the
\* segment that is being filled.
StartAtSlice(pos) == IF pos.pass = 0 THEN 0 ELSE pos.slice * segment_length

\* The oldest segment: the one after the segment that is being filled.
Start(pos) ==
    IF pos.pass = 0 \/ pos.slice = SyncPoints - 1 THEN 0
    ELSE (pos.slice + 1) * segment_length

index_alpha(pos, pseudo_rand, same_lane) ==
    (Start(pos) + Relative(Area(pos, same_lane), pseudo_rand)) % lane_length

-----------------------------------------------------------------------------
(* The fill                                                                *)

Init ==
    /\ impl \in {"ref", "vector"}
    /\ pc = "seed"
    /\ position = [pass |-> 0, lane |-> 0, slice |-> 0, index |-> 0]
    /\ curr_offset = 0
    /\ prev_offset = 0
    /\ state = None
    /\ memory = [o \in Offsets |-> 0]
    /\ inputs = None

\* rxa2_fill_first_blocks.
FillFirstBlocks ==
    /\ pc = "seed"
    /\ memory' = [o \in Offsets |-> IF o % lane_length < 2 THEN 1 ELSE memory[o]]
    /\ pc' = "enter"
    /\ UNCHANGED <<impl, position, curr_offset, prev_offset, state, inputs>>

FirstSegment == position.pass = 0 /\ position.slice = 0

starting_index == IF FirstSegment THEN 2 ELSE 0

\* fill_segment, up to the loop: where the segment starts, which block comes
\* before, and a copy of that block for the vector implementations.
EnterSegment ==
    /\ pc = "enter"
    /\ LET curr == position.lane * lane_length
                     + position.slice * segment_length + starting_index
           prev == IF curr % lane_length = 0 THEN curr + lane_length - 1
                                             ELSE curr - 1
       IN  /\ curr_offset' = curr
           /\ prev_offset' = prev
           /\ state' = IF impl = "vector" THEN Read(prev) ELSE None
    /\ position' = [position EXCEPT !.index = starting_index]
    /\ pc' = "block"
    /\ UNCHANGED <<impl, memory, inputs>>

\* Mutant: prev_offset is not rotated after the first block of a lane.
RotatedNever == prev_offset

Rotated == IF curr_offset % lane_length = 1 THEN curr_offset - 1 ELSE prev_offset

\* Mutant: blocks are added to what the memory held before the first pass.
WithXorAlways(pos) == TRUE

with_xor(pos) == pos.pass > 0

\* One turn of the loop; pseudo_rand and the lane are what memory[prev] holds.
FillBlock(pseudo_rand, anyLane) ==
    /\ pc = "block"
    /\ position.index < segment_length
    /\ LET prev == Rotated
           ref_lane == IF FirstSegment THEN position.lane ELSE anyLane
           ref_index == index_alpha(position, pseudo_rand, ref_lane = position.lane)
           new == [offset |-> curr_offset, version |-> position.pass + 1]
       IN  /\ inputs' = [to |-> curr_offset,
                         random |-> Read(prev),
                         previous |-> IF impl = "vector" THEN state ELSE Read(prev),
                         ref |-> Read(lane_length * ref_lane + ref_index),
                         old |-> IF with_xor(position) THEN Read(curr_offset) ELSE None,
                         at |-> position]
           /\ memory' = [memory EXCEPT ![curr_offset] = position.pass + 1]
           /\ state' = IF impl = "vector" THEN new ELSE None
           /\ prev_offset' = prev + 1
    /\ curr_offset' = curr_offset + 1
    /\ position' = [position EXCEPT !.index = @ + 1]
    /\ UNCHANGED <<impl, pc>>

\* The three loops of fill_memory_blocks_st.
Turn(pos) ==
    IF pos.lane + 1 < lanes
    THEN [pos EXCEPT !.lane = @ + 1, !.index = 0]
    ELSE IF pos.slice + 1 < SyncPoints
    THEN [pos EXCEPT !.slice = @ + 1, !.lane = 0, !.index = 0]
    ELSE [pass |-> pos.pass + 1, lane |-> 0, slice |-> 0, index |-> 0]

LeaveSegment ==
    /\ pc = "block"
    /\ position.index >= segment_length
    /\ position' = Turn(position)
    /\ pc' = IF position'.pass < passes THEN "enter" ELSE "done"
    /\ state' = None
    /\ UNCHANGED <<impl, curr_offset, prev_offset, memory, inputs>>

Next ==
    \/ FillFirstBlocks
    \/ EnterSegment
    \/ \E pseudo_rand \in PseudoRands, lane \in 0 .. lanes - 1 :
         FillBlock(pseudo_rand, lane)
    \/ LeaveSegment

Spec == Init /\ [][Next]_vars

-----------------------------------------------------------------------------
(* Properties                                                              *)

Lane(offset) == offset \div lane_length
Column(offset) == offset % lane_length
SliceOf(column) == column \div segment_length

\* Nothing that was in the memory before this fill enters a block: the cache of
\* a key does not depend on the key the cache had before (randomx_init_cache on
\* a cache that was already initialised), and a first-pass block is not xored
\* over what is there.
NothingStale ==
    inputs # None =>
        /\ inputs.previous.version > 0
        /\ inputs.ref.version > 0
        /\ inputs.old # None =>
             inputs.old.version > 0 /\ inputs.old.version = inputs.at.pass

\* All implementations chain through the same block, the one that was computed
\* just before in the lane, with the value it has now: the registers the vector
\* implementations keep it in agree with the memory the reference one reads, and
\* with the block the random value is taken from.
ChainsThroughNeighbour ==
    inputs # None =>
        LET column == Column(inputs.to)
            before == [offset |-> Lane(inputs.to) * lane_length
                                    + ((column + lane_length - 1) % lane_length),
                       version |-> IF column = 0 THEN inputs.at.pass
                                                 ELSE inputs.at.pass + 1]
        IN  inputs.previous = before /\ inputs.random = before

\* The window of argon2_core.c:91-100: a reference is to one of the last three
\* segments or to a block of the current segment that is already there, it never
\* is the block itself or the one before it, and in another lane it never lies in
\* the segment that is being filled.
RefersToFinished ==
    inputs # None =>
        LET at == inputs.at
            column == at.slice * segment_length + at.index
            ref == Column(inputs.ref.offset)
        IN  /\ inputs.ref.offset # inputs.to
            /\ inputs.ref.offset # inputs.previous.offset
            /\ SliceOf(ref) = at.slice =>
                 Lane(inputs.ref.offset) = at.lane /\ ref < column
            /\ at.pass = 0 => SliceOf(ref) <= at.slice

\* When randomx_argon2_fill_memory_blocks returns, every block has gone through
\* every pass.
AllFilled == pc = "done" => \A o \in Offsets : memory[o] = passes

-----------------------------------------------------------------------------
(* The inductive invariant: the cursors follow from the position, and so   *)
(* does the version of every block.                                        *)

CurrentColumn == position.slice * segment_length + position.index

Neighbour(offset) ==
    IF Column(offset) = 0 THEN offset + lane_length - 1 ELSE offset - 1

CursorsRight ==
    pc = "block" =>
        /\ curr_offset = position.lane * lane_length + CurrentColumn
        /\ prev_offset \in 0 .. lanes * lane_length
        /\ position.index < segment_length =>
             /\ Rotated = Neighbour(curr_offset)
             /\ impl = "vector" => state = Read(Rotated)

\* The block at an offset has been filled in the current pass.
FilledInPass(offset) ==
    LET slice == SliceOf(Column(offset))
    IN  \/ slice < position.slice
        \/ slice = position.slice /\ Lane(offset) < position.lane
        \/ slice = position.slice /\ Lane(offset) = position.lane
              /\ Column(offset) < CurrentColumn

VersionsRight ==
    \A o \in Offsets :
        memory[o] = IF pc = "seed" THEN 0
                    ELSE IF position.pass = 0 /\ Column(o) < 2 THEN 1
                    ELSE IF FilledInPass(o) THEN position.pass + 1
                    ELSE position.pass

PositionRight ==
    /\ position \in Positions
    /\ pc \in {"seed", "enter"} => position.index = 0
    /\ pc = "seed" => position.pass = 0 /\ position.slice = 0 /\ position.lane = 0
    /\ pc = "block" /\ FirstSegment => position.index >= 2
    /\ IF pc = "done"
       THEN position = [pass |-> passes, lane |-> 0, slice |-> 0, index |-> 0]
       ELSE position.pass < passes

IInv ==
    /\ impl \in {"ref", "vector"}
    /\ pc \in {"seed", "enter", "block", "done"}
    /\ PositionRight
    /\ memory \in [Offsets -> Versions]
    /\ CursorsRight
    /\ VersionsRight
    /\ NothingStale
    /\ ChainsThroughNeighbour
    /\ RefersToFinished

-----------------------------------------------------------------------------
(* Refinement.                                                             *)

Cell(offset) == <<Lane(offset), Column(offset)>>

Matrix == INSTANCE BlockMatrix WITH
    Lanes <- lanes, LaneLength <- lane_length, Passes <- passes, None <- None,
    last <- IF inputs = None THEN None
            ELSE <<Cell(inputs.to),
                   Cell(inputs.previous.offset), inputs.previous.version,
                   Cell(inputs.ref.offset), inputs.ref.version>>,
    computed <- [b \in (0 .. lanes - 1) \X (0 .. lane_length - 1) |->
                   memory[b[1] * lane_length + b[2]]]

\* The fill computes the blocks in an order, and from blocks, that the matrix
\* allows.
ImplementsMatrix == Matrix!Spec
=============================================================================
