---------------------------- MODULE CacheProofs ----------------------------
(***************************************************************************)
(* Proofs about what a cache is made of.  Argon2Fill: for every number of  *)
(* lanes and passes, every segment length and every range of the random    *)
(* values, a block is computed from finished blocks of the right version   *)
(* only.  Blake2Stream: for every size of a block and of the counter's     *)
(* words, a message may be cut into updates in any way.  CacheSeed: for    *)
(* every key, the blocks that the fill starts from and the bytes that the  *)
(* superscalar programs are drawn from are the ones specified.             *)
(***************************************************************************)
EXTENDS Argon2Fill, Blake2Stream, CacheSeed, SequenceTheorems, WellFoundedInduction, TLAPS

-----------------------------------------------------------------------------
(* Arithmetic.                                                             *)

LEMMA ScaledBelow ==
    ASSUME NEW a \in Nat \ {0}, NEW q \in Nat, NEW m \in Nat \ {0}, q < m
    PROVE  (a * q) \div m \in 0 .. a - 1
  OBVIOUS

LEMMA DivMod ==
    ASSUME NEW l \in Nat, NEW c \in Nat, NEW n \in Nat \ {0}, c < n
    PROVE  (l * n + c) % n = c /\ (l * n + c) \div n = l
  OBVIOUS

LEMMA ModSmall ==
    ASSUME NEW c \in Nat, NEW n \in Nat \ {0}, c < n
    PROVE  c % n = c
  OBVIOUS

LEMMA ModWrap ==
    ASSUME NEW c \in Nat, NEW n \in Nat \ {0}, n <= c, c < 2 * n
    PROVE  c % n = c - n
  OBVIOUS

LEMMA DivSlice ==
    ASSUME NEW c \in Nat, NEW n \in Nat \ {0}, NEW s \in Nat, s * n <= c, c < s * n + n
    PROVE  c \div n = s
  OBVIOUS

LEMMA DivBounds ==
    ASSUME NEW c \in Nat, NEW n \in Nat \ {0}
    PROVE  /\ c \div n \in Nat
           /\ c % n \in 0 .. n - 1
           /\ (c \div n) * n + (c % n) = c
  OBVIOUS

LEMMA RowBelow ==
    ASSUME NEW l \in Nat, NEW k \in Nat, NEW c \in Nat, NEW n \in Nat \ {0}, l < k, c < n
    PROVE  l * n + c < k * n
  OBVIOUS

LEMMA RowAbove ==
    ASSUME NEW l \in Nat, NEW k \in Nat, NEW c \in Nat, NEW n \in Nat \ {0}, l * n + c < k * n
    PROVE  l < k
<1>1. SUFFICES ASSUME k <= l PROVE FALSE
  OBVIOUS
<1>2. PICK d \in Nat : l = k + d
  <2>1. l - k \in Nat /\ l = k + (l - k)
    BY <1>1
  <2> QED
    BY <2>1
<1>3. l * n = k * n + d * n
  BY <1>2
<1>4. d * n >= 0 /\ k * n \in Int
  OBVIOUS
<1> QED
  BY <1>3, <1>4

LEMMA Sizes == lane_length \in Nat \ {0} /\ lane_length >= 8 /\ segment_length >= 2
               /\ lane_length = 4 * segment_length /\ segment_length \in Nat
  BY SegmentAssumption DEF lane_length, SyncPoints

\* The block at a lane and a column is one of the matrix and is found there again.
LEMMA AtCell ==
    ASSUME NEW l \in 0 .. lanes - 1, NEW c \in 0 .. lane_length - 1
    PROVE  /\ l * lane_length + c \in Offsets
           /\ Lane(l * lane_length + c) = l
           /\ Column(l * lane_length + c) = c
<1>1. l \in Nat /\ c \in Nat /\ c < lane_length /\ l < lanes /\ lanes \in Nat
  BY Sizes, LanesAssumption
<1>2. l * lane_length + c < lanes * lane_length
  BY <1>1, RowBelow, Sizes
<1>3. l * lane_length \in Nat
  BY <1>1, Sizes
<1> QED
  BY <1>1, <1>2, <1>3, DivMod, Sizes, LanesAssumption DEF Offsets, Lane, Column

LEMMA CellOf ==
    ASSUME NEW o \in Offsets
    PROVE  /\ Lane(o) \in 0 .. lanes - 1
           /\ Column(o) \in 0 .. lane_length - 1
           /\ o = Lane(o) * lane_length + Column(o)
<1>1. o \in Nat /\ o < lanes * lane_length
  BY Sizes, LanesAssumption DEF Offsets
<1>2. /\ Lane(o) \in Nat
      /\ Column(o) \in 0 .. lane_length - 1
      /\ o = Lane(o) * lane_length + Column(o)
  BY <1>1, DivBounds, Sizes DEF Lane, Column
<1>3. Lane(o) < lanes
  BY <1>1, <1>2, RowAbove, Sizes, LanesAssumption
<1> QED
  BY <1>2, <1>3, LanesAssumption

LEMMA SliceOfColumn ==
    ASSUME NEW c \in 0 .. lane_length - 1, NEW s \in 0 .. SyncPoints - 1
    PROVE  SliceOf(c) = s <=> s * segment_length <= c /\ c < s * segment_length + segment_length
<1>1. c \in Nat /\ s \in Nat /\ segment_length \in Nat \ {0}
  BY Sizes DEF SyncPoints
<1>2. ASSUME s * segment_length <= c, c < s * segment_length + segment_length
      PROVE  SliceOf(c) = s
  BY <1>1, <1>2, DivSlice DEF SliceOf
<1>3. ASSUME SliceOf(c) = s
      PROVE  s * segment_length <= c /\ c < s * segment_length + segment_length
  <2>1. /\ c % segment_length \in 0 .. segment_length - 1
        /\ s * segment_length + (c % segment_length) = c
    BY <1>1, <1>3, DivBounds DEF SliceOf
  <2> QED
    BY <1>1, <2>1
<1> QED
  BY <1>2, <1>3

LEMMA SliceRange ==
    ASSUME NEW c \in 0 .. lane_length - 1
    PROVE  /\ SliceOf(c) \in 0 .. SyncPoints - 1
           /\ SliceOf(c) = IF c < segment_length THEN 0
                           ELSE IF c < 2 * segment_length THEN 1
                           ELSE IF c < 3 * segment_length THEN 2 ELSE 3
<1>1. c \in Nat /\ c < 4 * segment_length /\ segment_length \in Nat
  BY Sizes
<1>2. /\ SliceOf(c) = 0 <=> c < segment_length
      /\ SliceOf(c) = 1 <=> segment_length <= c /\ c < 2 * segment_length
      /\ SliceOf(c) = 2 <=> 2 * segment_length <= c /\ c < 3 * segment_length
      /\ SliceOf(c) = 3 <=> 3 * segment_length <= c
  <2>1. 0 \in 0 .. SyncPoints - 1 /\ 1 \in 0 .. SyncPoints - 1
        /\ 2 \in 0 .. SyncPoints - 1 /\ 3 \in 0 .. SyncPoints - 1
    BY DEF SyncPoints
  <2>2. SliceOf(c) = 0 <=> 0 * segment_length <= c /\ c < 0 * segment_length + segment_length
    BY <2>1, SliceOfColumn
  <2>3. SliceOf(c) = 1 <=> 1 * segment_length <= c /\ c < 1 * segment_length + segment_length
    BY <2>1, SliceOfColumn
  <2>4. SliceOf(c) = 2 <=> 2 * segment_length <= c /\ c < 2 * segment_length + segment_length
    BY <2>1, SliceOfColumn
  <2>5. SliceOf(c) = 3 <=> 3 * segment_length <= c /\ c < 3 * segment_length + segment_length
    BY <2>1, SliceOfColumn
  <2> QED
    BY <1>1, <2>2, <2>3, <2>4, <2>5
<1> QED
  BY <1>1, <1>2 DEF SyncPoints

-----------------------------------------------------------------------------
(* The reference block.                                                    *)

\* A position at which fill_segment computes a block.
Fills(pos) ==
    /\ pos \in Positions
    /\ pos.index < segment_length
    /\ pos.pass = 0 /\ pos.slice = 0 => pos.index >= 2

\* Multiples of the segment length without a product: slices are 0 to 3.
LEMMA SliceStart ==
    ASSUME NEW s \in 0 .. SyncPoints - 1
    PROVE  /\ s * segment_length \in Nat
           /\ s = 0 => s * segment_length = 0
           /\ s = 1 => s * segment_length = segment_length
           /\ s = 2 => s * segment_length = 2 * segment_length
           /\ s = 3 => s * segment_length = 3 * segment_length
           /\ (s + 1) * segment_length = s * segment_length + segment_length
           /\ s \in {0, 1, 2, 3}
  BY Sizes DEF SyncPoints

\* The area is never empty: the unsigned subtractions do not wrap around.
LEMMA AreaPositive ==
    ASSUME NEW pos, Fills(pos), NEW same \in BOOLEAN,
           pos.pass = 0 /\ pos.slice = 0 => same
    PROVE  Area(pos, same) \in Nat \ {0}
<1>1. /\ pos.slice \in 0 .. SyncPoints - 1 /\ pos.index \in Nat /\ pos.pass \in Nat
      /\ pos.index < segment_length
  BY Sizes, PassesAssumption DEF Fills, Positions
<1> DEFINE first == pos.slice * segment_length
<1>2. /\ first \in Nat
      /\ pos.slice # 0 => first >= segment_length
  BY <1>1, SliceStart, Sizes
<1>3. /\ pos.pass = 0 => Area(pos, same) = IF same THEN first + pos.index - 1
                          ELSE first - (IF pos.index = 0 THEN 1 ELSE 0)
      /\ pos.pass # 0 => Area(pos, same) =
                IF same THEN lane_length - segment_length + pos.index - 1
                ELSE lane_length - segment_length - (IF pos.index = 0 THEN 1 ELSE 0)
  BY DEF Area
<1>4. pos.pass = 0 /\ pos.slice = 0 => pos.index >= 2 /\ same
  BY DEF Fills
<1> HIDE DEF first
<1> QED
  BY <1>1, <1>2, <1>3, <1>4, Sizes

LEMMA RelativeInArea ==
    ASSUME NEW area \in Nat \ {0}, NEW pseudo_rand \in PseudoRands
    PROVE  Relative(area, pseudo_rand) \in 0 .. area - 1
<1> DEFINE square == (pseudo_rand * pseudo_rand) \div Randoms
<1>1. pseudo_rand \in Nat /\ pseudo_rand < Randoms /\ Randoms \in Nat \ {0}
  BY RandomsAssumption DEF PseudoRands
<1>2. square \in Nat /\ square < Randoms
  <2>1. CASE pseudo_rand = 0
    BY <1>1, <2>1
  <2>2. CASE pseudo_rand # 0
    <3>1. square \in 0 .. pseudo_rand - 1
      BY <1>1, <2>2, ScaledBelow
    <3> QED
      BY <1>1, <3>1
  <2> QED
    BY <2>1, <2>2
<1>3. (area * square) \div Randoms \in 0 .. area - 1
  BY <1>1, <1>2, ScaledBelow
<1> QED
  <2>1. Relative(area, pseudo_rand) = area - 1 - ((area * square) \div Randoms)
    BY DEF Relative
  <2> HIDE DEF square
  <2> QED
    BY <1>3, <2>1

\* A finished column of the window, other than the current one and the one before.
InWindow(pos, same, ref) ==
    LET first == pos.slice * segment_length
        column == first + pos.index
    IN  /\ ref \in 0 .. lane_length - 1
        /\ ref < first \/ ref >= first + segment_length \/ (same /\ ref < column)
        /\ same => ref # column - 1 /\ (column = 0 => ref # lane_length - 1)
        /\ pos.pass = 0 => ref < column

\* Where index_alpha points.
LEMMA IndexInWindow ==
    ASSUME NEW pos, Fills(pos), NEW same \in BOOLEAN,
           pos.pass = 0 /\ pos.slice = 0 => same,
           NEW pseudo_rand \in PseudoRands
    PROVE  InWindow(pos, same, index_alpha(pos, pseudo_rand, same))
<1> DEFINE first == pos.slice * segment_length
           area == Area(pos, same)
           rel == Relative(area, pseudo_rand)
           start == Start(pos)
           ref == index_alpha(pos, pseudo_rand, same)
<1>1. /\ pos.slice \in 0 .. SyncPoints - 1 /\ pos.index \in Nat /\ pos.pass \in Nat
      /\ pos.index < segment_length
      /\ pos.pass = 0 /\ pos.slice = 0 => pos.index >= 2
  BY Sizes, PassesAssumption DEF Fills, Positions
<1>2. area \in Nat \ {0}
  BY AreaPositive
<1>3. rel \in 0 .. area - 1
  BY <1>2, RelativeInArea
<1>4. ref = (start + rel) % lane_length
  BY DEF index_alpha
<1>5. CASE pos.pass = 0
  <2>1. start = 0
    BY <1>5 DEF Start
  <2>2. area = IF same THEN first + pos.index - 1
               ELSE first - (IF pos.index = 0 THEN 1 ELSE 0)
    BY <1>5 DEF Area
  <2>3. first \in Nat /\ first + segment_length <= lane_length
    BY <1>1, SliceStart, Sizes
  <2>4. start + rel \in Nat /\ start + rel < lane_length
    BY <1>1, <1>3, <2>1, <2>2, <2>3, Sizes
  <2> HIDE DEF ref, rel, area, start, first
  <2>5. ref = rel
    BY <1>3, <1>4, <2>1, <2>4, ModSmall, Sizes
  <2>6. /\ ref \in 0 .. lane_length - 1
        /\ ref < first \/ (same /\ ref < first + pos.index)
        /\ same => ref # first + pos.index - 1
        /\ first + pos.index = 0 => ~same
        /\ ref < first + pos.index
    BY <1>1, <1>2, <1>3, <2>1, <2>2, <2>3, <2>4, <2>5, Sizes
  <2>7. InWindow(pos, same, ref)
    <3>1. InWindow(pos, same, ref) <=>
            /\ ref \in 0 .. lane_length - 1
            /\ ref < first \/ ref >= first + segment_length
                 \/ (same /\ ref < first + pos.index)
            /\ same => /\ ref # first + pos.index - 1
                       /\ first + pos.index = 0 => ref # lane_length - 1
            /\ pos.pass = 0 => ref < first + pos.index
      BY <1>1, <2>3, <2>6, Sizes DEF InWindow, first
    <3> QED
      BY <1>5, <2>6, <3>1
  <2> QED
    BY <2>7 DEF ref
<1>6. CASE pos.pass # 0
  <2>1. area = IF same THEN lane_length - segment_length + pos.index - 1
               ELSE lane_length - segment_length - (IF pos.index = 0 THEN 1 ELSE 0)
    BY <1>6 DEF Area
  <2>2. start = IF pos.slice = 3 THEN 0 ELSE first + segment_length
    <3>1. start = IF pos.slice = 4 - 1 THEN 0 ELSE (pos.slice + 1) * segment_length
      BY <1>6 DEF Start, SyncPoints
    <3>2. (pos.slice + 1) * segment_length = first + segment_length
      BY <1>1, SliceStart
    <3> QED
      BY <1>1, <3>1, <3>2
  <2>3. /\ first \in Nat
        /\ pos.slice = 3 => first + segment_length = lane_length
        /\ pos.slice # 3 => first + segment_length < lane_length
    BY <1>1, SliceStart, Sizes
  <2>4. start + rel \in Nat /\ start + rel < 2 * lane_length
    BY <1>1, <1>3, <2>1, <2>2, <2>3, Sizes
  <2> HIDE DEF ref, rel, area, start, first
  <2>5. /\ start + rel < lane_length => ref = start + rel
        /\ start + rel >= lane_length => ref = start + rel - lane_length
    <3>1. start \in Int /\ rel \in Int
      BY <1>2, <1>3, <2>2, <2>3, Sizes
    <3>2. ASSUME start + rel < lane_length PROVE ref = start + rel
      BY <1>4, <2>4, <3>1, <3>2, ModSmall, Sizes
    <3>3. ASSUME start + rel >= lane_length PROVE ref = start + rel - lane_length
      BY <1>4, <2>4, <3>1, <3>3, ModWrap, Sizes
    <3> QED
      BY <3>2, <3>3
  <2>6. /\ ref \in 0 .. lane_length - 1
        /\ ref < first \/ ref >= first + segment_length \/ (same /\ ref < first + pos.index)
        /\ same => ref # first + pos.index - 1
        /\ same /\ first + pos.index = 0 => ref # lane_length - 1
    BY <1>1, <1>2, <1>3, <2>1, <2>2, <2>3, <2>4, <2>5, Sizes
  <2>7. InWindow(pos, same, ref)
    <3>1. InWindow(pos, same, ref) <=>
            /\ ref \in 0 .. lane_length - 1
            /\ ref < first \/ ref >= first + segment_length
                 \/ (same /\ ref < first + pos.index)
            /\ same => /\ ref # first + pos.index - 1
                       /\ first + pos.index = 0 => ref # lane_length - 1
            /\ pos.pass = 0 => ref < first + pos.index
      BY <1>1, <2>3, <2>6, Sizes DEF InWindow, first
    <3> QED
      BY <1>6, <2>6, <3>1
  <2> QED
    BY <2>7 DEF ref
<1> QED
  BY <1>5, <1>6

LEMMA NeighbourCell ==
    ASSUME NEW l \in 0 .. lanes - 1, NEW c \in 0 .. lane_length - 1
    PROVE  LET n == Neighbour(l * lane_length + c)
           IN  /\ n \in Offsets
               /\ Lane(n) = l
               /\ Column(n) = IF c = 0 THEN lane_length - 1 ELSE c - 1
               /\ n = l * lane_length + (IF c = 0 THEN lane_length - 1 ELSE c - 1)
<1> DEFINE p == IF c = 0 THEN lane_length - 1 ELSE c - 1
<1>1. p \in 0 .. lane_length - 1
  BY Sizes
<1>2. l * lane_length \in Nat
  BY Sizes, LanesAssumption
<1>3. Neighbour(l * lane_length + c) = l * lane_length + p
  <2>1. Column(l * lane_length + c) = c
    BY AtCell
  <2>2. CASE c = 0
    BY <1>2, <2>1, <2>2, Sizes DEF Neighbour
  <2>3. CASE c # 0
    BY <1>2, <2>1, <2>3, Sizes DEF Neighbour
  <2> QED
    BY <2>2, <2>3
<1>4. /\ l * lane_length + p \in Offsets
      /\ Lane(l * lane_length + p) = l
      /\ Column(l * lane_length + p) = p
  <2> HIDE DEF p
  <2> QED
    BY <1>1, AtCell
<1> QED
  BY <1>3, <1>4

-----------------------------------------------------------------------------
(* The invariant holds in the beginning and every step keeps it.           *)

LEMMA PositionFacts ==
    ASSUME position \in Positions
    PROVE  /\ position.pass \in 0 .. passes /\ position.pass \in Nat
           /\ position.lane \in 0 .. lanes - 1 /\ position.lane \in Nat
           /\ position.slice \in 0 .. SyncPoints - 1 /\ position.slice \in {0, 1, 2, 3}
           /\ position.index \in 0 .. segment_length /\ position.index \in Nat
           /\ position = [pass |-> position.pass, lane |-> position.lane,
                          slice |-> position.slice, index |-> position.index]
  BY PassesAssumption, LanesAssumption, Sizes DEF Positions, SyncPoints

\* The column of the block that is computed next.
LEMMA CurrentCell ==
    ASSUME position \in Positions, position.index < segment_length
    PROVE  /\ CurrentColumn \in 0 .. lane_length - 1
           /\ SliceOf(CurrentColumn) = position.slice
           /\ CurrentColumn \in Nat
           /\ CurrentColumn = 0 <=> position.slice = 0 /\ position.index = 0
<1>1. /\ position.slice \in 0 .. SyncPoints - 1 /\ position.index \in Nat
  BY PositionFacts
<1> DEFINE first == position.slice * segment_length
<1>2. /\ first \in Nat /\ first + segment_length <= lane_length
      /\ first = 0 <=> position.slice = 0
  BY <1>1, SliceStart, Sizes
<1>3. CurrentColumn = first + position.index
  BY DEF CurrentColumn
<1> HIDE DEF first
<1>4. /\ CurrentColumn \in 0 .. lane_length - 1
      /\ CurrentColumn \in Nat
      /\ CurrentColumn = 0 <=> position.slice = 0 /\ position.index = 0
  BY <1>1, <1>2, <1>3, Sizes
<1>5. first <= CurrentColumn /\ CurrentColumn < first + segment_length
  BY <1>1, <1>2, <1>3, Sizes
<1> QED
  BY <1>1, <1>4, <1>5, SliceOfColumn DEF first

LEMMA InitIInv == Init => IInv
<1> SUFFICES ASSUME Init PROVE IInv
  OBVIOUS
<1>1. position \in Positions
  BY LanesAssumption, PassesAssumption, Sizes DEF Init, Positions, SyncPoints
<1>2. PositionRight
  BY <1>1, PassesAssumption DEF Init, PositionRight, Positions, FirstSegment
<1>3. memory \in [Offsets -> Versions] /\ VersionsRight
  BY PassesAssumption DEF Init, VersionsRight, Versions
<1> QED
  BY <1>2, <1>3 DEF Init, IInv, CursorsRight, NothingStale, ChainsThroughNeighbour,
     RefersToFinished

LEMMA FillFirstBlocksKeeps == IInv /\ FillFirstBlocks => IInv'
<1> SUFFICES ASSUME IInv, FillFirstBlocks PROVE IInv'
  OBVIOUS
<1>1. /\ pc = "seed" /\ pc' = "enter" /\ position' = position /\ inputs' = inputs
      /\ impl' = impl
      /\ memory' = [o \in Offsets |-> IF o % lane_length < 2 THEN 1 ELSE memory[o]]
  BY DEF FillFirstBlocks
<1>2. /\ position \in Positions
      /\ position.pass = 0 /\ position.lane = 0 /\ position.slice = 0 /\ position.index = 0
  BY <1>1 DEF IInv, PositionRight, Positions
<1>3. PositionRight'
  BY <1>1, PassesAssumption DEF IInv, PositionRight, FirstSegment
<1>4. memory' \in [Offsets -> Versions]
  BY <1>1, PassesAssumption DEF IInv, Versions
<1>5. VersionsRight'
  <2> SUFFICES ASSUME NEW o \in Offsets
               PROVE  memory'[o] = IF position.pass = 0 /\ Column(o) < 2 THEN 1
                                   ELSE IF FilledInPass(o)' THEN position.pass + 1
                                   ELSE position.pass
    BY <1>1 DEF VersionsRight
  <2>1. memory[o] = 0
    BY <1>1 DEF IInv, VersionsRight
  <2>2. /\ Lane(o) \in Nat /\ Column(o) \in Nat
        /\ SliceOf(Column(o)) \in Nat
    BY CellOf, SliceRange, Sizes, LanesAssumption DEF SyncPoints
  <2>3. CurrentColumn' = 0
    BY <1>1, <1>2, Sizes DEF CurrentColumn
  <2>4. ~FilledInPass(o)'
    BY <1>1, <1>2, <2>2, <2>3 DEF FilledInPass
  <2> QED
    BY <1>1, <1>2, <2>1, <2>4 DEF Column
<1> QED
  BY <1>1, <1>3, <1>4, <1>5 DEF IInv, CursorsRight, NothingStale, ChainsThroughNeighbour,
     RefersToFinished

\* Inputs that stay as they are keep what was shown of them.
LEMMA InputsKeep ==
    ASSUME IInv, inputs' = inputs
    PROVE  NothingStale' /\ ChainsThroughNeighbour' /\ RefersToFinished'
  BY DEF IInv, NothingStale, ChainsThroughNeighbour, RefersToFinished

LEMMA EnterSegmentKeeps == IInv /\ EnterSegment => IInv'
<1> SUFFICES ASSUME IInv, EnterSegment PROVE IInv'
  OBVIOUS
<1> DEFINE column == position.slice * segment_length + starting_index
           curr == position.lane * lane_length
                     + position.slice * segment_length + starting_index
           prev == IF curr % lane_length = 0 THEN curr + lane_length - 1 ELSE curr - 1
<1>1. /\ pc = "enter" /\ pc' = "block" /\ inputs' = inputs /\ impl' = impl
      /\ memory' = memory
      /\ position' = [position EXCEPT !.index = starting_index]
      /\ curr_offset' = curr /\ prev_offset' = prev
      /\ state' = IF impl = "vector" THEN Read(prev) ELSE None
  BY DEF EnterSegment
<1>2. position \in Positions /\ position.index = 0 /\ position.pass < passes
  BY <1>1 DEF IInv, PositionRight, Positions
<1>3. starting_index = IF position.pass = 0 /\ position.slice = 0 THEN 2 ELSE 0
  BY DEF starting_index, FirstSegment
<1>4. /\ position' \in Positions
      /\ position'.pass = position.pass /\ position'.lane = position.lane
      /\ position'.slice = position.slice /\ position'.index = starting_index
  <2>1. starting_index \in 0 .. segment_length
    BY <1>3, Sizes
  <2> QED
    BY <1>1, <1>2, <2>1 DEF Positions
<1>5. PositionRight'
  BY <1>1, <1>2, <1>3, <1>4 DEF PositionRight, FirstSegment, Positions
<1>6. /\ column \in 0 .. lane_length - 1 /\ column # 1
      /\ curr = position.lane * lane_length + column
      /\ CurrentColumn' = column
  <2>1. /\ position.slice * segment_length \in Nat
        /\ position.slice * segment_length + segment_length <= lane_length
        /\ position.slice # 0 => position.slice * segment_length >= segment_length
        /\ position.slice = 0 => position.slice * segment_length = 0
    BY <1>2, PositionFacts, SliceStart, Sizes
  <2>2. position.lane * lane_length \in Nat
    BY <1>2, PositionFacts, Sizes
  <2>3. starting_index \in {0, 2} /\ (starting_index = 2 => position.slice = 0)
    BY <1>3
  <2>4. column \in 0 .. lane_length - 1 /\ column # 1
    <3>1. CASE starting_index = 0
      BY <2>1, <3>1, Sizes
    <3>2. CASE starting_index = 2
      <4>1. position.slice * segment_length = 0
        BY <2>1, <2>3, <3>2
      <4>2. column = 2
        BY <3>2, <4>1
      <4> QED
        BY <4>2, Sizes
    <3> QED
      BY <2>3, <3>1, <3>2
  <2>5. curr = position.lane * lane_length + column
    BY <2>1, <2>2, <2>3, Sizes
  <2>6. CurrentColumn' = column
    BY <1>4 DEF CurrentColumn
  <2> QED
    BY <2>4, <2>5, <2>6
<1>7. curr \in Offsets /\ Column(curr) = column /\ curr % lane_length = column
  <2> HIDE DEF column, curr
  <2> QED
    BY <1>2, <1>6, PositionFacts, AtCell DEF Column
<1>8. prev = Neighbour(curr) /\ prev \in Offsets
  <2>1. prev = Neighbour(curr)
    BY <1>7 DEF Neighbour, Column
  <2> HIDE DEF column, curr, prev
  <2>2. Neighbour(curr) \in Offsets
    BY <1>2, <1>6, PositionFacts, NeighbourCell
  <2> QED
    BY <2>1, <2>2
<1>9. CursorsRight'
  <2> HIDE DEF column, curr, prev
  <2>1. Rotated' = prev
    BY <1>1, <1>6, <1>7 DEF Rotated
  <2>2. Neighbour(curr_offset)' = Neighbour(curr)
    BY <1>1 DEF Neighbour, Column
  <2>3. impl = "vector" => state' = Read(prev)
    BY <1>1
  <2>4. Read(Rotated)' = Read(prev)
    BY <1>1, <2>1 DEF Read
  <2>5. prev \in 0 .. lanes * lane_length
    BY <1>8, Sizes, LanesAssumption DEF Offsets
  <2>6. curr_offset' = position'.lane * lane_length + CurrentColumn'
    BY <1>1, <1>4, <1>6
  <2> QED
    BY <1>1, <1>8, <2>1, <2>2, <2>3, <2>4, <2>5, <2>6 DEF CursorsRight
<1>10. VersionsRight'
  <2> SUFFICES ASSUME NEW o \in Offsets
               PROVE  memory[o] = IF position.pass = 0 /\ Column(o) < 2 THEN 1
                                  ELSE IF FilledInPass(o)' THEN position.pass + 1
                                  ELSE position.pass
    BY <1>1, <1>4 DEF VersionsRight
  <2>1. memory[o] = IF position.pass = 0 /\ Column(o) < 2 THEN 1
                    ELSE IF FilledInPass(o) THEN position.pass + 1
                    ELSE position.pass
    BY <1>1 DEF IInv, VersionsRight
  <2>2. CASE position.pass = 0 /\ Column(o) < 2
    BY <2>1, <2>2
  <2>3. CASE ~(position.pass = 0 /\ Column(o) < 2)
    <3>1. CurrentColumn = position.slice * segment_length
      BY <1>2, PositionFacts, SliceStart DEF CurrentColumn
    <3>2. position.slice * segment_length \in Nat
          /\ (position.slice = 0 => position.slice * segment_length = 0)
      BY <1>2, PositionFacts, SliceStart
    <3>3. Column(o) \in Nat
      BY CellOf, Sizes
    <3>4. ASSUME position.pass = 0, position.slice = 0
          PROVE  ~(Column(o) < CurrentColumn) /\ ~(Column(o) < CurrentColumn')
      BY <1>3, <1>6, <2>3, <3>1, <3>2, <3>3, <3>4
    <3>5. ASSUME ~(position.pass = 0 /\ position.slice = 0)
          PROVE  CurrentColumn' = CurrentColumn
      BY <1>3, <1>6, <3>1, <3>2, <3>5
    <3>6. FilledInPass(o)' <=> FilledInPass(o)
      BY <1>4, <3>4, <3>5 DEF FilledInPass
    <3> QED
      BY <2>1, <3>6
  <2> QED
    BY <2>2, <2>3
<1> QED
  BY <1>1, <1>5, <1>9, <1>10, InputsKeep DEF IInv

\* The blocks one turn of the loop reads and the one it writes.
LEMMA FillBlockKeeps ==
    ASSUME IInv, NEW pseudo_rand \in PseudoRands, NEW anyLane \in 0 .. lanes - 1,
           FillBlock(pseudo_rand, anyLane)
    PROVE  IInv'
<1> DEFINE pass == position.pass
           lane == position.lane
           slice == position.slice
           first == slice * segment_length
           column == CurrentColumn
           before == IF column = 0 THEN lane_length - 1 ELSE column - 1
           prev == Rotated
           ref_lane == IF FirstSegment THEN lane ELSE anyLane
           same == ref_lane = lane
           ref_index == index_alpha(position, pseudo_rand, same)
           ref == lane_length * ref_lane + ref_index
<1>1. /\ pc = "block" /\ pc' = pc /\ impl' = impl
      /\ position.index < segment_length
      /\ memory' = [memory EXCEPT ![curr_offset] = pass + 1]
      /\ state' = IF impl = "vector"
                  THEN [offset |-> curr_offset, version |-> pass + 1] ELSE None
      /\ prev_offset' = prev + 1
      /\ curr_offset' = curr_offset + 1
      /\ position' = [position EXCEPT !.index = @ + 1]
      /\ inputs' = [to |-> curr_offset,
                    random |-> Read(prev),
                    previous |-> IF impl = "vector" THEN state ELSE Read(prev),
                    ref |-> Read(ref),
                    old |-> IF with_xor(position) THEN Read(curr_offset) ELSE None,
                    at |-> position]
  BY DEF FillBlock
<1>2. position \in Positions /\ pass < passes /\ (FirstSegment => position.index >= 2)
  BY <1>1 DEF IInv, PositionRight, Positions
<1>3. /\ pass \in Nat /\ lane \in 0 .. lanes - 1 /\ slice \in 0 .. SyncPoints - 1
      /\ position.index \in Nat /\ position.index < segment_length
      /\ lane \in Nat /\ slice \in {0, 1, 2, 3} /\ passes \in Nat
  BY <1>1, <1>2, PositionFacts, PassesAssumption
<1>4. /\ column \in 0 .. lane_length - 1 /\ column \in Nat
      /\ SliceOf(column) = slice
      /\ column = 0 <=> slice = 0 /\ position.index = 0
      /\ column = first + position.index
      /\ first \in Nat /\ (slice = 0 => first = 0) /\ (slice # 0 => first >= segment_length)
      /\ first + segment_length <= lane_length
  <2>1. column = first + position.index
    BY DEF CurrentColumn
  <2>2. /\ first \in Nat /\ (slice = 0 => first = 0) /\ (slice # 0 => first >= segment_length)
        /\ first + segment_length <= lane_length
    BY <1>3, SliceStart, Sizes
  <2> QED
    BY <1>1, <1>2, <2>1, <2>2, CurrentCell
<1>5. /\ curr_offset = lane * lane_length + column
      /\ curr_offset \in Offsets /\ Lane(curr_offset) = lane /\ Column(curr_offset) = column
  <2>1. curr_offset = lane * lane_length + column
    BY <1>1 DEF IInv, CursorsRight
  <2> HIDE DEF column, lane
  <2> QED
    BY <1>3, <1>4, <2>1, AtCell
<1>6. /\ prev = Neighbour(curr_offset)
      /\ prev \in Offsets /\ Lane(prev) = lane /\ Column(prev) = before
      /\ prev = lane * lane_length + before
      /\ impl = "vector" => state = Read(prev)
  <2>1. prev = Neighbour(curr_offset) /\ (impl = "vector" => state = Read(prev))
    BY <1>1 DEF IInv, CursorsRight
  <2> HIDE DEF column, lane, prev
  <2>2. LET n == Neighbour(lane * lane_length + column)
        IN  /\ n \in Offsets
            /\ Lane(n) = lane
            /\ Column(n) = before
            /\ n = lane * lane_length + before
    BY <1>3, <1>4, NeighbourCell
  <2> QED
    BY <1>5, <2>1, <2>2
<1>7. InWindow(position, same, ref_index)
  <2>1. Fills(position)
    BY <1>1, <1>2 DEF Fills, FirstSegment
  <2>2. position.pass = 0 /\ position.slice = 0 => same
    BY DEF FirstSegment
  <2>3. same \in BOOLEAN
    OBVIOUS
  <2> HIDE DEF same
  <2> QED
    BY <2>1, <2>2, <2>3, IndexInWindow
<1>8. /\ ref_lane \in 0 .. lanes - 1
      /\ ref_index \in 0 .. lane_length - 1
      /\ ref_index < first \/ ref_index >= first + segment_length
           \/ (same /\ ref_index < column)
      /\ same => ref_index # before
      /\ pass = 0 => ref_index < column
  <2>1. ref_lane \in 0 .. lanes - 1
    BY <1>3
  <2> HIDE DEF ref_index, same
  <2>2. /\ ref_index \in 0 .. lane_length - 1
        /\ ref_index < first \/ ref_index >= first + segment_length
             \/ (same /\ ref_index < column)
        /\ same => ref_index # column - 1 /\ (column = 0 => ref_index # lane_length - 1)
        /\ pass = 0 => ref_index < column
    BY <1>7 DEF InWindow, CurrentColumn
  <2> QED
    BY <2>1, <2>2
<1>9. ref \in Offsets /\ Lane(ref) = ref_lane /\ Column(ref) = ref_index
  <2> HIDE DEF ref_lane, ref_index
  <2>1. ref = ref_lane * lane_length + ref_index
    BY <1>8, Sizes, LanesAssumption
  <2> QED
    BY <1>8, <2>1, AtCell
<1> HIDE DEF first, column, before, prev, ref_lane, same, ref_index, ref
<1>10. \A o \in Offsets : memory[o] = IF pass = 0 /\ Column(o) < 2 THEN 1
                                     ELSE IF FilledInPass(o) THEN pass + 1 ELSE pass
  BY <1>1 DEF IInv, VersionsRight
<1>11. memory[prev] = IF column = 0 THEN pass ELSE pass + 1
  <2>1. CASE column = 0
    <3>1. slice = 0 /\ pass # 0 /\ Column(prev) = lane_length - 1
      BY <1>2, <1>4, <1>6, <2>1 DEF before, FirstSegment
    <3>2. lane_length - 1 \in 0 .. lane_length - 1 /\ ~(lane_length - 1 < segment_length)
      BY Sizes
    <3>3. SliceOf(lane_length - 1) # 0 /\ SliceOf(lane_length - 1) \in Nat
      BY <3>2, SliceRange, Sizes DEF SyncPoints
    <3>4. ~FilledInPass(prev)
      BY <3>1, <3>3 DEF FilledInPass
    <3> QED
      BY <1>6, <1>10, <2>1, <3>1, <3>4
  <2>2. CASE column # 0
    <3>1. Column(prev) = column - 1 /\ column - 1 \in 0 .. lane_length - 1
      BY <1>4, <1>6, <2>2, Sizes DEF before
    <3>2. CASE pass = 0 /\ column - 1 < 2
      BY <1>6, <1>10, <2>2, <3>1, <3>2
    <3>3. FilledInPass(prev)
      <4>1. CASE position.index = 0
        <5>1. column - 1 < first
          BY <1>4, <4>1
        <5>2. SliceOf(column - 1) < slice
          BY <1>3, <1>4, <3>1, <5>1, SliceRange, SliceStart, Sizes DEF first
        <5> QED
          BY <3>1, <5>2 DEF FilledInPass
      <4>2. CASE position.index # 0
        <5>1. first <= column - 1 /\ column - 1 < first + segment_length
          BY <1>3, <1>4, <4>2, Sizes
        <5>2. SliceOf(column - 1) = slice
          BY <1>3, <3>1, <5>1, SliceOfColumn DEF first
        <5> QED
          BY <1>4, <1>6, <3>1, <5>2 DEF FilledInPass, column
      <4> QED
        BY <4>1, <4>2
    <3> QED
      BY <1>6, <1>10, <2>2, <3>2, <3>1, <3>3
  <2> QED
    BY <2>1, <2>2
<1>12. memory[ref] > 0
  <2>1. CASE pass # 0
    BY <1>3, <1>9, <1>10, <2>1
  <2>2. CASE pass = 0
    <3>1. ref_index < column
      BY <1>8, <2>2
    <3>2. ref_index < first \/ (same /\ first <= ref_index /\ ref_index < column)
      BY <1>3, <1>4, <1>8, <3>1, Sizes
    <3>3. CASE ref_index < first
      <4>1. SliceOf(ref_index) < slice
        BY <1>3, <1>4, <1>8, <3>3, SliceRange, SliceStart, Sizes DEF first
      <4>2. FilledInPass(ref)
        BY <1>9, <4>1 DEF FilledInPass
      <4> QED
        BY <1>9, <1>10, <2>2, <4>2
    <3>4. CASE same /\ first <= ref_index /\ ref_index < column
      <4>1. ref_index < first + segment_length
        BY <1>3, <1>4, <1>8, <3>4, Sizes
      <4>2. SliceOf(ref_index) = slice
        BY <1>3, <1>8, <3>4, <4>1, SliceOfColumn DEF first
      <4>3. FilledInPass(ref)
        BY <1>9, <3>4, <4>2 DEF FilledInPass, same, column
      <4> QED
        BY <1>9, <1>10, <2>2, <4>3
    <3> QED
      BY <3>2, <3>3, <3>4
  <2> QED
    BY <2>1, <2>2
<1>13. pass # 0 => memory[curr_offset] = pass
  <2>1. ~FilledInPass(curr_offset)
    BY <1>3, <1>4, <1>5 DEF FilledInPass, column
  <2> QED
    BY <1>5, <1>10, <2>1
<1>14. /\ inputs'.to = curr_offset /\ inputs'.random = Read(prev)
       /\ inputs'.previous = Read(prev) /\ inputs'.ref = Read(ref)
       /\ inputs'.at = position
       /\ inputs'.old = IF with_xor(position) THEN Read(curr_offset) ELSE None
  BY <1>1, <1>6
<1>15. NothingStale'
  <2>1. inputs'.previous.version > 0
    <3>1. column = 0 => pass > 0
      BY <1>2, <1>3, <1>4 DEF FirstSegment
    <3>2. memory[prev] > 0
      BY <1>3, <1>11, <3>1
    <3> QED
      BY <1>14, <3>2 DEF Read
  <2>2. inputs'.ref.version > 0
    BY <1>12, <1>14 DEF Read
  <2>3. inputs'.old # None => inputs'.old.version > 0 /\ inputs'.old.version = inputs'.at.pass
    BY <1>3, <1>13, <1>14 DEF Read, with_xor
  <2> QED
    BY <2>1, <2>2, <2>3 DEF NothingStale
<1>16. ChainsThroughNeighbour'
  <2>1. (column + lane_length - 1) % lane_length = before
    <3>1. CASE column = 0
      BY <3>1, ModSmall, Sizes DEF before
    <3>2. CASE column # 0
      <4>1. /\ column + lane_length - 1 \in Nat
            /\ lane_length <= column + lane_length - 1
            /\ column + lane_length - 1 < 2 * lane_length
        BY <1>4, <3>2, Sizes
      <4>2. (column + lane_length - 1) % lane_length = column + lane_length - 1 - lane_length
        BY <1>4, <4>1, ModWrap, Sizes
      <4> QED
        BY <1>4, <3>2, <4>2, Sizes DEF before
    <3> QED
      BY <3>1, <3>2
  <2>2. Read(prev) = [offset |-> lane * lane_length + before,
                      version |-> IF column = 0 THEN pass ELSE pass + 1]
    BY <1>6, <1>11 DEF Read
  <2> QED
    BY <1>5, <1>14, <2>1, <2>2 DEF ChainsThroughNeighbour
<1>17. RefersToFinished'
  <2>1. inputs'.ref.offset = ref /\ inputs'.previous.offset = prev
    BY <1>14 DEF Read
  <2>2. ref # curr_offset
    <3>1. CASE same
      BY <1>3, <1>4, <1>5, <1>8, <1>9, <3>1, Sizes
    <3>2. CASE ~same
      BY <1>5, <1>9, <3>2 DEF same
    <3> QED
      BY <3>1, <3>2
  <2>3. ref # prev
    <3>1. CASE same
      BY <1>6, <1>8, <1>9, <3>1
    <3>2. CASE ~same
      BY <1>6, <1>9, <3>2 DEF same
    <3> QED
      BY <3>1, <3>2
  <2>4. ASSUME SliceOf(ref_index) = slice
        PROVE  same /\ ref_index < column
    <3>1. first <= ref_index /\ ref_index < first + segment_length
      BY <1>3, <1>8, <2>4, SliceOfColumn DEF first
    <3> QED
      BY <1>4, <1>8, <3>1, Sizes
  <2>5. ASSUME pass = 0
        PROVE  SliceOf(ref_index) <= slice
    <3>1. ref_index < first + segment_length
      BY <1>3, <1>4, <1>8, <2>5, Sizes
    <3> QED
      BY <1>3, <1>4, <1>8, <3>1, SliceRange, SliceStart, Sizes DEF first
  <2> QED
    BY <1>9, <1>14, <2>1, <2>2, <2>3, <2>4, <2>5
    DEF RefersToFinished, same, column, CurrentColumn
<1>18. /\ position' \in Positions
       /\ position'.pass = pass /\ position'.lane = lane /\ position'.slice = slice
       /\ position'.index = position.index + 1
       /\ CurrentColumn' = column + 1
  <2>1. position.index + 1 \in 0 .. segment_length
    BY <1>3, Sizes
  <2>2. /\ position' \in Positions
        /\ position'.pass = pass /\ position'.lane = lane /\ position'.slice = slice
        /\ position'.index = position.index + 1
    BY <1>1, <1>2, <2>1 DEF Positions
  <2>3. CurrentColumn' = first + (position.index + 1)
    BY <2>2 DEF CurrentColumn, first
  <2> QED
    BY <1>3, <1>4, <2>2, <2>3
<1>19. PositionRight'
  BY <1>1, <1>2, <1>3, <1>18 DEF PositionRight, FirstSegment, Positions
<1>20. memory' \in [Offsets -> Versions]
  <2>1. pass + 1 \in Versions
    BY <1>2, <1>3 DEF Versions
  <2> QED
    BY <1>1, <2>1 DEF IInv
<1>21. CursorsRight'
  <2>1. curr_offset' = lane * lane_length + (column + 1) /\ lane * lane_length \in Nat
    BY <1>1, <1>3, <1>4, <1>5, Sizes
  <2>2. prev_offset' \in 0 .. lanes * lane_length
    BY <1>1, <1>6, Sizes, LanesAssumption DEF Offsets
  <2>3. ASSUME position'.index < segment_length
        PROVE  Rotated' = Neighbour(curr_offset)' /\ Rotated' = curr_offset
    <3>1. column + 1 \in 0 .. lane_length - 1 /\ column + 1 # 0
      BY <1>3, <1>4, <1>18, <2>3, Sizes
    <3>2. Column(curr_offset') = column + 1
      BY <1>3, <2>1, <3>1, AtCell
    <3>3. Neighbour(curr_offset)' = curr_offset
      BY <1>1, <1>4, <1>5, <2>1, <3>1, <3>2 DEF Neighbour, Column
    <3>4. Rotated' = curr_offset
      <4>1. CASE column = 0
        BY <1>1, <1>5, <2>1, <3>2, <4>1 DEF Rotated, Column, Offsets
      <4>2. CASE column # 0
        <5>1. prev + 1 = curr_offset
          BY <1>4, <1>5, <1>6, <2>1, <4>2 DEF before
        <5>2. ~((curr_offset % lane_length = 1)')
          BY <1>4, <3>2, <4>2 DEF Column
        <5> QED
          BY <1>1, <5>1, <5>2 DEF Rotated
      <4> QED
        BY <4>1, <4>2
    <3> QED
      BY <3>3, <3>4
  <2>5. impl = "vector" => /\ state'.offset = curr_offset
                           /\ state' = [offset |-> curr_offset,
                                        version |-> memory'[curr_offset]]
    BY <1>1, <1>5 DEF IInv
  <2> QED
    BY <1>1, <1>18, <2>1, <2>2, <2>3, <2>5 DEF CursorsRight, Read
<1>22. VersionsRight'
  <2> SUFFICES ASSUME NEW o \in Offsets
               PROVE  memory'[o] = IF pass = 0 /\ Column(o) < 2 THEN 1
                                   ELSE IF FilledInPass(o)' THEN pass + 1 ELSE pass
    BY <1>1, <1>18 DEF VersionsRight
  <2>1. /\ Lane(o) \in Nat /\ Column(o) \in Nat
        /\ o = Lane(o) * lane_length + Column(o)
    BY CellOf, Sizes, LanesAssumption
  <2>2. FilledInPass(o)' <=> FilledInPass(o) \/ o = curr_offset
    <3>1. CASE o = curr_offset
      BY <1>4, <1>5, <1>18, <3>1 DEF FilledInPass
    <3>2. CASE o # curr_offset
      <4>1. ~(Lane(o) = lane /\ Column(o) = column)
        BY <1>5, <2>1, <3>2
      <4>2. Lane(o) = lane => (Column(o) < column + 1 <=> Column(o) < column)
        BY <1>4, <2>1, <4>1
      <4> QED
        BY <1>18, <3>2, <4>2 DEF FilledInPass, column
    <3> QED
      BY <3>1, <3>2
  <2>3. CASE o = curr_offset
    <3>1. ~(pass = 0 /\ Column(o) < 2)
      BY <1>2, <1>3, <1>4, <1>5, <2>3, Sizes DEF FirstSegment
    <3> QED
      BY <1>1, <1>5, <2>2, <2>3, <3>1 DEF IInv
  <2>4. CASE o # curr_offset
    <3>1. memory'[o] = memory[o]
      BY <1>1, <2>4 DEF IInv
    <3> QED
      BY <1>10, <2>2, <2>4, <3>1
  <2> QED
    BY <2>3, <2>4
<1> QED
  BY <1>1, <1>15, <1>16, <1>17, <1>19, <1>20, <1>21, <1>22 DEF IInv

LEMMA LeaveSegmentKeeps == IInv /\ LeaveSegment => IInv'
<1> SUFFICES ASSUME IInv, LeaveSegment PROVE IInv'
  OBVIOUS
<1> DEFINE pass == position.pass
           lane == position.lane
           slice == position.slice
           first == slice * segment_length
<1>1. /\ pc = "block" /\ position.index >= segment_length
      /\ position' = Turn(position)
      /\ pc' = IF position'.pass < passes THEN "enter" ELSE "done"
      /\ impl' = impl /\ memory' = memory /\ inputs' = inputs
  BY DEF LeaveSegment
<1>2. position \in Positions /\ pass < passes
  BY <1>1 DEF IInv, PositionRight, Positions
<1>3. /\ pass \in Nat /\ lane \in 0 .. lanes - 1 /\ slice \in {0, 1, 2, 3} /\ lane \in Nat
      /\ slice \in 0 .. SyncPoints - 1
      /\ position.index = segment_length /\ passes \in Nat /\ lanes \in Nat \ {0}
  BY <1>1, <1>2, PositionFacts, PassesAssumption, LanesAssumption, Sizes
<1>4. /\ first \in Nat
      /\ CurrentColumn = first + segment_length
      /\ (slice + 1) * segment_length = first + segment_length
  BY <1>3, SliceStart, Sizes DEF CurrentColumn
<1>5. \A o \in Offsets : memory[o] = IF pass = 0 /\ Column(o) < 2 THEN 1
                                    ELSE IF FilledInPass(o) THEN pass + 1 ELSE pass
  BY <1>1 DEF IInv, VersionsRight
\* The segment is full.
<1>6. \A o \in Offsets :
        /\ Lane(o) \in 0 .. lanes - 1 /\ Lane(o) \in Nat
        /\ Column(o) \in Nat /\ Column(o) < lane_length
        /\ SliceOf(Column(o)) \in 0 .. 3
        /\ FilledInPass(o) <=> SliceOf(Column(o)) < slice
                             \/ (SliceOf(Column(o)) = slice /\ Lane(o) <= lane)
  <2> SUFFICES ASSUME NEW o \in Offsets
               PROVE  /\ Lane(o) \in 0 .. lanes - 1 /\ Lane(o) \in Nat
                      /\ Column(o) \in Nat /\ Column(o) < lane_length
                      /\ SliceOf(Column(o)) \in 0 .. 3
                      /\ FilledInPass(o) <=> SliceOf(Column(o)) < slice
                             \/ (SliceOf(Column(o)) = slice /\ Lane(o) <= lane)
    OBVIOUS
  <2>1. /\ Lane(o) \in 0 .. lanes - 1 /\ Column(o) \in 0 .. lane_length - 1
    BY CellOf
  <2>2. SliceOf(Column(o)) = slice => Column(o) < CurrentColumn
    BY <1>3, <1>4, <2>1, SliceOfColumn
  <2>3. SliceOf(Column(o)) \in 0 .. 3
    BY <2>1, SliceRange DEF SyncPoints
  <2> QED
    BY <1>3, <2>1, <2>2, <2>3, Sizes DEF FilledInPass
<1>7. PositionRight'
  <2>1. CASE lane + 1 < lanes
    <3>1. position' = [position EXCEPT !.lane = @ + 1, !.index = 0]
      BY <1>1, <2>1 DEF Turn
    <3>2. lane + 1 \in 0 .. lanes - 1 /\ 0 \in 0 .. segment_length
      BY <1>3, <2>1, Sizes
    <3>3. position' \in Positions /\ position'.pass = pass /\ position'.index = 0
      BY <1>2, <3>1, <3>2 DEF Positions
    <3> QED
      BY <1>1, <1>2, <1>3, <3>3 DEF PositionRight, Positions, FirstSegment
  <2>2. CASE ~(lane + 1 < lanes) /\ slice + 1 < SyncPoints
    <3>1. position' = [position EXCEPT !.slice = @ + 1, !.lane = 0, !.index = 0]
      BY <1>1, <2>2 DEF Turn
    <3>2. slice + 1 \in 0 .. SyncPoints - 1 /\ 0 \in 0 .. lanes - 1 /\ 0 \in 0 .. segment_length
      BY <1>3, <2>2, Sizes DEF SyncPoints
    <3>3. position' \in Positions /\ position'.pass = pass /\ position'.index = 0
      BY <1>2, <3>1, <3>2 DEF Positions
    <3> QED
      BY <1>1, <1>2, <1>3, <3>3 DEF PositionRight, Positions, FirstSegment
  <2>3. CASE ~(lane + 1 < lanes) /\ ~(slice + 1 < SyncPoints)
    <3>1. position' = [pass |-> pass + 1, lane |-> 0, slice |-> 0, index |-> 0]
      BY <1>1, <2>3 DEF Turn
    <3>2. pass + 1 \in 0 .. passes /\ 0 \in 0 .. lanes - 1 /\ 0 \in 0 .. SyncPoints - 1
          /\ 0 \in 0 .. segment_length
      BY <1>2, <1>3, Sizes DEF SyncPoints
    <3>3. position' \in Positions /\ position'.pass = pass + 1 /\ position'.index = 0
      BY <3>1, <3>2 DEF Positions
    <3>4. pass + 1 < passes \/ pass + 1 = passes
      BY <1>2, <1>3
    <3> QED
      BY <1>1, <1>3, <3>1, <3>3, <3>4 DEF PositionRight, Positions, FirstSegment
  <2> QED
    BY <2>1, <2>2, <2>3
<1>8. VersionsRight'
  <2> SUFFICES ASSUME NEW o \in Offsets
               PROVE  memory[o] = IF position'.pass = 0 /\ Column(o) < 2 THEN 1
                                  ELSE IF FilledInPass(o)' THEN position'.pass + 1
                                  ELSE position'.pass
    BY <1>1 DEF VersionsRight
  <2> DEFINE s == SliceOf(Column(o))
  <2>1. /\ s \in 0 .. 3 /\ Lane(o) \in 0 .. lanes - 1 /\ Lane(o) \in Nat
        /\ Column(o) \in Nat /\ Column(o) \in 0 .. lane_length - 1
        /\ FilledInPass(o) <=> s < slice \/ (s = slice /\ Lane(o) <= lane)
    BY <1>6, CellOf
  <2> HIDE DEF s
  <2>2. CASE lane + 1 < lanes
    <3>1. /\ position'.pass = pass /\ position'.lane = lane + 1
          /\ position'.slice = slice /\ position'.index = 0
      BY <1>1, <1>2, <2>2 DEF Turn, Positions
    <3>2. CurrentColumn' = first
      BY <1>4, <3>1 DEF CurrentColumn
    <3>3. s = slice => ~(Column(o) < first)
      BY <1>3, <1>4, <2>1, SliceOfColumn DEF s
    <3>4. FilledInPass(o)' <=> s < slice \/ (s = slice /\ Lane(o) < lane + 1)
      BY <3>1, <3>2, <3>3 DEF FilledInPass, s
    <3> QED
      BY <1>3, <1>5, <2>1, <3>1, <3>4
  <2>3. CASE ~(lane + 1 < lanes) /\ slice + 1 < SyncPoints
    <3>1. /\ position'.pass = pass /\ position'.lane = 0
          /\ position'.slice = slice + 1 /\ position'.index = 0
      BY <1>1, <1>2, <2>3 DEF Turn, Positions
    <3>2. CurrentColumn' = first + segment_length
      BY <1>4, <3>1, Sizes DEF CurrentColumn
    <3>3. s = slice + 1 => ~(Column(o) < first + segment_length)
      <4>1. slice + 1 \in 0 .. SyncPoints - 1
        BY <1>3, <2>3 DEF SyncPoints
      <4>2. s = slice + 1 => (slice + 1) * segment_length <= Column(o)
        BY <2>1, <4>1, SliceOfColumn DEF s
      <4> QED
        BY <1>4, <2>1, <4>2, Sizes
    <3>4. FilledInPass(o)' <=> s < slice + 1
      BY <2>1, <3>1, <3>2, <3>3 DEF FilledInPass, s
    <3>5. Lane(o) <= lane
      BY <1>3, <2>1, <2>3
    <3> QED
      BY <1>3, <1>5, <2>1, <3>1, <3>4, <3>5
  <2>4. CASE ~(lane + 1 < lanes) /\ ~(slice + 1 < SyncPoints)
    <3>1. /\ position'.pass = pass + 1 /\ position'.lane = 0
          /\ position'.slice = 0 /\ position'.index = 0
      BY <1>1, <2>4 DEF Turn
    <3>2. CurrentColumn' = 0
      BY <3>1, Sizes DEF CurrentColumn
    <3>3. ~FilledInPass(o)'
      BY <2>1, <3>1, <3>2 DEF FilledInPass, s
    <3>4. FilledInPass(o)
      BY <1>3, <2>1, <2>4 DEF SyncPoints
    <3> QED
      BY <1>3, <1>5, <3>1, <3>3, <3>4
  <2> QED
    BY <2>2, <2>3, <2>4
<1> QED
  BY <1>1, <1>7, <1>8, InputsKeep DEF IInv, CursorsRight

-----------------------------------------------------------------------------
(* Theorems.                                                               *)

LEMMA NextKeeps == IInv /\ [Next]_vars => IInv'
<1> SUFFICES ASSUME IInv, [Next]_vars PROVE IInv'
  OBVIOUS
<1>1. CASE FillFirstBlocks
  BY <1>1, FillFirstBlocksKeeps
<1>2. CASE EnterSegment
  BY <1>2, EnterSegmentKeeps
<1>3. ASSUME NEW pseudo_rand \in PseudoRands, NEW anyLane \in 0 .. lanes - 1,
             FillBlock(pseudo_rand, anyLane)
      PROVE  IInv'
  BY <1>3, FillBlockKeeps
<1>4. CASE LeaveSegment
  BY <1>4, LeaveSegmentKeeps
<1>5. CASE UNCHANGED vars
  <2>1. /\ impl' = impl /\ pc' = pc /\ position' = position /\ memory' = memory
        /\ curr_offset' = curr_offset /\ prev_offset' = prev_offset
        /\ state' = state /\ inputs' = inputs
    BY <1>5 DEF vars
  <2>2. PositionRight'
    BY <2>1 DEF IInv, PositionRight, FirstSegment
  <2>3. CursorsRight'
    BY <2>1 DEF IInv, CursorsRight, CurrentColumn, Rotated, Neighbour, Column, Read
  <2>4. VersionsRight'
    BY <2>1 DEF IInv, VersionsRight, FilledInPass, CurrentColumn
  <2> QED
    BY <2>1, <2>2, <2>3, <2>4, InputsKeep DEF IInv
<1> QED
  BY <1>1, <1>2, <1>3, <1>4, <1>5 DEF Next

LEMMA Invariance == Spec => []IInv
<1>1. Init => IInv
  BY InitIInv
<1>2. IInv /\ [Next]_vars => IInv'
  BY NextKeeps
<1> QED
  BY <1>1, <1>2, PTL DEF Spec

\* For every number of lanes, passes and blocks and every range of random values:
\* no block of the cache takes anything from what the memory held before the fill.
THEOREM KeysDoNotMix == Spec => []NothingStale
<1>1. IInv => NothingStale
  BY DEF IInv
<1> QED
  BY <1>1, Invariance, PTL

\* The reference and the vector implementations chain every block to the current
\* version of its neighbour, the one the random value is taken from.
THEOREM ImplementationsChainAlike == Spec => []ChainsThroughNeighbour
<1>1. IInv => ChainsThroughNeighbour
  BY DEF IInv
<1> QED
  BY <1>1, Invariance, PTL

\* References stay inside the window of finished blocks: not the block itself, not
\* the one before, and in another lane nothing of the segment being filled.
THEOREM ReferencesStayInWindow == Spec => []RefersToFinished
<1>1. IInv => RefersToFinished
  BY DEF IInv
<1> QED
  BY <1>1, Invariance, PTL

\* A finished fill has taken every block through every pass.
THEOREM FillIsComplete == Spec => []AllFilled
<1>1. IInv => AllFilled
  <2> SUFFICES ASSUME IInv, pc = "done", NEW o \in Offsets PROVE memory[o] = passes
    BY DEF AllFilled
  <2>1. position = [pass |-> passes, lane |-> 0, slice |-> 0, index |-> 0]
    BY DEF IInv, PositionRight
  <2>2. /\ Lane(o) \in Nat /\ Column(o) \in Nat /\ SliceOf(Column(o)) \in Nat
    BY CellOf, SliceRange, Sizes, LanesAssumption DEF SyncPoints
  <2>3. CurrentColumn = 0
    BY <2>1, Sizes DEF CurrentColumn
  <2>4. ~FilledInPass(o)
    BY <2>1, <2>2, <2>3 DEF FilledInPass
  <2> QED
    BY <2>1, <2>4, PassesAssumption DEF IInv, VersionsRight
<1> QED
  BY <1>1, Invariance, PTL

-----------------------------------------------------------------------------
(* Argon2Fill implements BlockMatrix.                                      *)

\* The refinement mapping of Matrix.
Computed == [b \in (0 .. lanes - 1) \X (0 .. lane_length - 1) |->
               memory[b[1] * lane_length + b[2]]]
Last == IF inputs = None THEN None
        ELSE <<Cell(inputs.to),
               Cell(inputs.previous.offset), inputs.previous.version,
               Cell(inputs.ref.offset), inputs.ref.version>>

MatrixStep == [Matrix!Next]_Matrix!matrixVars

\* What a turn of the loop computes a block from: the block at the position,
\* which no turn of this pass has reached before, from its neighbour and from
\* another block of the matrix.
LEMMA FillBlockInputs ==
    ASSUME IInv, NEW pseudo_rand \in PseudoRands, NEW anyLane \in 0 .. lanes - 1,
           FillBlock(pseudo_rand, anyLane)
    PROVE  /\ curr_offset \in Offsets
           /\ position.pass \in Nat /\ position.pass < passes
           /\ memory[curr_offset] = position.pass
           /\ memory' = [memory EXCEPT ![curr_offset] = position.pass + 1]
           /\ inputs' \in BlockInputs
           /\ inputs'.to = curr_offset /\ inputs'.at = position
           /\ inputs'.previous \in BlockReads /\ inputs'.ref \in BlockReads
           /\ inputs'.previous.version = memory[inputs'.previous.offset]
           /\ inputs'.ref.version = memory[inputs'.ref.offset]
<1> DEFINE pass == position.pass
           lane == position.lane
           slice == position.slice
           column == CurrentColumn
           prev == Rotated
           ref_lane == IF FirstSegment THEN lane ELSE anyLane
           same == ref_lane = lane
           ref_index == index_alpha(position, pseudo_rand, same)
           ref == lane_length * ref_lane + ref_index
<1>1. /\ pc = "block" /\ position.index < segment_length
      /\ memory' = [memory EXCEPT ![curr_offset] = pass + 1]
      /\ inputs' = [to |-> curr_offset,
                    random |-> Read(prev),
                    previous |-> IF impl = "vector" THEN state ELSE Read(prev),
                    ref |-> Read(ref),
                    old |-> IF with_xor(position) THEN Read(curr_offset) ELSE None,
                    at |-> position]
  BY DEF FillBlock
<1>2. position \in Positions /\ pass < passes /\ (FirstSegment => position.index >= 2)
  BY <1>1 DEF IInv, PositionRight, Positions
<1>3. pass \in Nat /\ lane \in 0 .. lanes - 1 /\ lane \in Nat
  BY <1>2, PositionFacts
<1>4. /\ column \in 0 .. lane_length - 1 /\ SliceOf(column) = slice
      /\ slice = 0 => column = position.index
  BY <1>1, <1>2, CurrentCell, PositionFacts, SliceStart DEF CurrentColumn
<1>5. /\ curr_offset = lane * lane_length + column
      /\ curr_offset \in Offsets /\ Lane(curr_offset) = lane /\ Column(curr_offset) = column
  <2>1. curr_offset = lane * lane_length + column
    BY <1>1 DEF IInv, CursorsRight
  <2> HIDE DEF column, lane
  <2> QED
    BY <1>3, <1>4, <2>1, AtCell
<1>6. prev \in Offsets /\ (impl = "vector" => state = Read(prev))
  <2>1. prev = Neighbour(curr_offset) /\ (impl = "vector" => state = Read(prev))
    BY <1>1 DEF IInv, CursorsRight
  <2> HIDE DEF column, lane, prev
  <2>2. Neighbour(lane * lane_length + column) \in Offsets
    BY <1>3, <1>4, NeighbourCell
  <2> QED
    BY <1>5, <2>1, <2>2
<1>7. ref \in Offsets
  <2>1. Fills(position)
    BY <1>1, <1>2 DEF Fills, FirstSegment
  <2>2. (position.pass = 0 /\ position.slice = 0 => same) /\ same \in BOOLEAN
    BY DEF FirstSegment
  <2>3. InWindow(position, same, ref_index)
    <3> HIDE DEF same
    <3> QED
      BY <2>1, <2>2, IndexInWindow
  <2>4. ref_index \in 0 .. lane_length - 1 /\ ref_lane \in 0 .. lanes - 1
    BY <1>3, <2>3 DEF InWindow
  <2> HIDE DEF ref_lane, ref_index
  <2>5. ref = ref_lane * lane_length + ref_index
    BY <2>4, Sizes, LanesAssumption
  <2> QED
    BY <2>4, <2>5, AtCell
<1>8. \A o \in Offsets : Read(o) \in BlockReads
  BY DEF IInv, Read, BlockReads
<1>9. inputs' \in BlockInputs
  <2> HIDE DEF prev, ref
  <2> QED
    BY <1>1, <1>2, <1>5, <1>6, <1>7, <1>8 DEF BlockInputs
<1>10. memory[curr_offset] = pass
  <2>1. ~(pass = 0 /\ column < 2)
    <3>1. position.index \in Nat /\ (FirstSegment <=> pass = 0 /\ slice = 0)
      BY <1>2, PositionFacts DEF FirstSegment
    <3>2. column < 2 => slice = 0
      BY <1>4, SliceRange, Sizes
    <3> QED
      BY <1>2, <1>4, <3>1, <3>2
  <2>2. ~FilledInPass(curr_offset)
    BY <1>3, <1>4, <1>5, PositionFacts, <1>2, Sizes DEF FilledInPass
  <2> QED
    BY <1>1, <1>5, <2>1, <2>2 DEF IInv, VersionsRight
<1> HIDE DEF prev, ref
<1>11. /\ inputs'.to = curr_offset /\ inputs'.at = position
       /\ inputs'.previous = Read(prev) /\ inputs'.ref = Read(ref)
  BY <1>1, <1>6
<1> QED
  BY <1>1, <1>2, <1>3, <1>5, <1>6, <1>7, <1>8, <1>9, <1>10, <1>11 DEF Read

LEMMA FillBlockImplements ==
    ASSUME IInv, IInv', NEW pseudo_rand \in PseudoRands, NEW anyLane \in 0 .. lanes - 1,
           FillBlock(pseudo_rand, anyLane)
    PROVE  MatrixStep
<1> DEFINE pass == position.pass
           b == Cell(curr_offset)
           prev == inputs'.previous.offset
           r == inputs'.ref.offset
           lane == Lane(curr_offset)
           column == Column(curr_offset)
           before == (column + lane_length - 1) % lane_length
<1>1. /\ curr_offset \in Offsets /\ pass \in Nat /\ pass < passes
      /\ memory[curr_offset] = pass
      /\ memory' = [memory EXCEPT ![curr_offset] = pass + 1]
      /\ inputs' # None /\ inputs'.to = curr_offset /\ inputs'.at = position
      /\ prev \in Offsets /\ r \in Offsets
      /\ inputs'.previous.version = memory[prev]
      /\ inputs'.ref.version = memory[r]
  BY FillBlockInputs, NoneAssumption DEF BlockReads
<1>2. /\ lane \in 0 .. lanes - 1 /\ column \in 0 .. lane_length - 1
      /\ before \in 0 .. lane_length - 1
  <2>1. lane \in 0 .. lanes - 1 /\ column \in 0 .. lane_length - 1
    BY <1>1, CellOf
  <2> HIDE DEF lane, column
  <2>2. column + lane_length - 1 \in Nat
    BY <2>1, Sizes
  <2> QED
    BY <2>1, <2>2, DivBounds, Sizes
\* The previous block is the one before b in the matrix, with the right version.
<1>3. /\ prev = lane * lane_length + before
      /\ memory[prev] = IF column = 0 THEN pass ELSE pass + 1
  BY <1>1 DEF IInv, ChainsThroughNeighbour
<1>4. memory[prev] > 0 /\ memory[r] > 0
  BY <1>1 DEF IInv, NothingStale
<1>5. r # curr_offset /\ r # prev
  BY <1>1 DEF IInv, RefersToFinished
<1>6. Cell(prev) = <<lane, before>>
  <2> HIDE DEF lane, before
  <2> QED
    BY <1>2, <1>3, AtCell DEF Cell
<1>7. \A o \in Offsets : Cell(o) \in Matrix!Blocks /\ Computed[Cell(o)] = memory[o]
  <2> SUFFICES ASSUME NEW o \in Offsets
               PROVE  Cell(o) \in Matrix!Blocks /\ Computed[Cell(o)] = memory[o]
    OBVIOUS
  <2> QED
    BY CellOf DEF Cell, Matrix!Blocks, Computed
<1>8. Matrix!Before(b) = Cell(prev)
  BY <1>6 DEF Cell, Matrix!Before
<1>9. \A o \in Offsets : Cell(o) = b <=> o = curr_offset
  BY <1>1, CellOf DEF Cell
<1>10. Cell(r) \notin {b, Cell(prev)}
  <2>1. Cell(r) = Cell(prev) => r = prev
    <3>1. Cell(r) = Cell(prev) => Lane(r) = Lane(prev) /\ Column(r) = Column(prev)
      BY DEF Cell
    <3> HIDE DEF prev, r
    <3> QED
      BY <1>1, <3>1, CellOf
  <2> QED
    BY <1>1, <1>5, <1>9, <2>1
<1>11. Computed' = [Computed EXCEPT ![b] = Computed[b] + 1]
  <2> SUFFICES ASSUME NEW x \in (0 .. lanes - 1) \X (0 .. lane_length - 1)
               PROVE  Computed'[x] = IF x = b THEN Computed[b] + 1 ELSE Computed[x]
    BY DEF Computed
  <2> DEFINE o == x[1] * lane_length + x[2]
  <2>1. o \in Offsets /\ Cell(o) = x
    BY AtCell DEF Cell
  <2>2. Computed'[x] = memory'[o] /\ Computed[x] = memory[o]
    BY DEF Computed
  <2> HIDE DEF o, b
  <2> QED
    BY <1>1, <1>7, <1>9, <2>1, <2>2 DEF IInv, b
<1>12. Last' = <<b, Cell(prev), memory[prev], Cell(r), memory[r]>>
  BY <1>1 DEF Last, Cell, Lane, Column
<1>13. PICK x \in Matrix!Blocks, y \in Matrix!Blocks : x = b /\ y = Cell(r)
  BY <1>1, <1>7
<1>14. /\ Matrix!Before(x) = Cell(prev) /\ x[2] = column
       /\ Computed[x] = pass /\ Computed[Matrix!Before(x)] = memory[prev]
       /\ Computed[y] = memory[r]
  BY <1>1, <1>7, <1>8, <1>13 DEF Cell
<1>15. /\ Computed[x] < passes
       /\ Computed[Matrix!Before(x)] = Computed[x] + (IF x[2] = 0 THEN 0 ELSE 1)
       /\ Computed[Matrix!Before(x)] > 0 /\ Computed[y] > 0
       /\ y \notin {x, Matrix!Before(x)}
       /\ Computed' = [Computed EXCEPT ![x] = Computed[x] + 1]
       /\ Last' = <<x, Matrix!Before(x), Computed[Matrix!Before(x)], y, Computed[y]>>
  BY <1>1, <1>3, <1>4, <1>10, <1>11, <1>12, <1>13, <1>14
<1>16. Matrix!Compute(x)
  <2>1. y \in Matrix!Blocks \ {x, Matrix!Before(x)}
    BY <1>15
  <2> QED
    BY <1>15, <2>1 DEF Matrix!Compute, Matrix!Ready, Computed, Last
<1> QED
  BY <1>16 DEF MatrixStep, Matrix!Next

LEMMA SeedImplements == IInv /\ FillFirstBlocks => MatrixStep
<1> SUFFICES ASSUME IInv, FillFirstBlocks PROVE MatrixStep
  OBVIOUS
<1>1. /\ pc = "seed" /\ inputs' = inputs
      /\ memory' = [o \in Offsets |-> IF o % lane_length < 2 THEN 1 ELSE memory[o]]
  BY DEF FillFirstBlocks
<1>2. \A x \in Matrix!Blocks : LET o == x[1] * lane_length + x[2]
                               IN  o \in Offsets /\ o % lane_length = x[2] /\ memory[o] = 0
  <2> SUFFICES ASSUME NEW x \in Matrix!Blocks
               PROVE  LET o == x[1] * lane_length + x[2]
                      IN  o \in Offsets /\ o % lane_length = x[2] /\ memory[o] = 0
    OBVIOUS
  <2>1. x[1] \in 0 .. lanes - 1 /\ x[2] \in 0 .. lane_length - 1
    BY DEF Matrix!Blocks
  <2> QED
    BY <1>1, <2>1, AtCell DEF Column, IInv, VersionsRight
<1>3. \A x \in Matrix!Blocks : Computed[x] = 0
  BY <1>2 DEF Computed, Matrix!Blocks
<1>4. Computed' = [x \in Matrix!Blocks |-> IF x[2] < 2 THEN 1 ELSE 0]
  BY <1>1, <1>2 DEF Computed, Matrix!Blocks
<1>5. Matrix!Seed
  BY <1>1, <1>3, <1>4 DEF Matrix!Seed, Computed, Last
<1> QED
  BY <1>5 DEF MatrixStep, Matrix!Next

\* For every number of lanes, passes and blocks and every range of random values,
\* the cursors of the fill walk the matrix in an order Argon2 allows: each block is
\* computed when the block before it in its lane and the block it refers to hold
\* what they have to, and no oftener than there are passes.
THEOREM FillImplementsMatrix == Spec => ImplementsMatrix
<1>1. Init => Matrix!Init
  <2> SUFFICES ASSUME Init PROVE Matrix!Init
    OBVIOUS
  <2>1. \A x \in Matrix!Blocks : x[1] * lane_length + x[2] \in Offsets
    BY AtCell DEF Matrix!Blocks
  <2>2. Computed = [x \in Matrix!Blocks |-> 0]
    BY <2>1 DEF Init, Computed, Matrix!Blocks
  <2> QED
    BY <2>2 DEF Init, Matrix!Init, Computed
<1>2. IInv /\ IInv' /\ [Next]_vars => [Matrix!Next]_Matrix!matrixVars
  <2> SUFFICES ASSUME IInv, IInv', [Next]_vars PROVE MatrixStep
    BY DEF MatrixStep
  <2>1. CASE FillFirstBlocks
    BY <2>1, SeedImplements
  <2>2. ASSUME NEW pseudo_rand \in PseudoRands, NEW anyLane \in 0 .. lanes - 1,
               FillBlock(pseudo_rand, anyLane)
        PROVE  MatrixStep
    BY <2>2, FillBlockImplements
  <2>3. CASE EnterSegment \/ LeaveSegment \/ UNCHANGED vars
    <3>1. memory' = memory /\ inputs' = inputs
      BY <2>3 DEF EnterSegment, LeaveSegment, vars
    <3> QED
      BY <3>1 DEF MatrixStep, Matrix!matrixVars, Cell, Lane, Column
  <2> QED
    BY <2>1, <2>2, <2>3 DEF Next
<1> QED
  BY <1>1, <1>2, Invariance, PTL DEF Spec, ImplementsMatrix, Matrix!Spec


-----------------------------------------------------------------------------
(* Blake2b, which the blocks of a cache begin with (Blake2Stream).         *)

\* A number of bytes in the two words of the counter.
Count(n) == <<n % Word, n \div Word>>

\* The block of a message with number i, when it is whole and not the last.
WholeBlock(i) == [k \in Cells |-> (i - 1) * BlockBytes + k + 1]
Whole(i) == [block |-> WholeBlock(i), t |-> Count(i * BlockBytes), last |-> FALSE]

\* Whole blocks in their order, and the bytes in them.
AllWhole(chain) == \A i \in 1 .. Len(chain) : chain[i] = Whole(i)
Bytes(chain) == Len(chain) * BlockBytes

Wholes == {Whole(i) : i \in Nat}

\* As long as the last block is not compressed: h has the whole blocks so far,
\* buf the bytes after them, and an update under way the rest of the message.
Taken == Bytes(h)
Collecting ==
    /\ out = NoDigest
    /\ h \in Seq(Wholes)
    /\ buflen \in 0 .. BlockBytes
    /\ \A k \in 0 .. buflen - 1 : buf[k] = Taken + k + 1
    /\ AllWhole(h)
    /\ t = Count(Taken)
    /\ streamPc = "idle" => total = Taken + buflen /\ (Len(h) > 0 => buflen > 0)
    /\ streamPc = "update" =>
          /\ inlen \in Nat \ {0} /\ total = Taken + buflen + inlen /\ pin = Taken + buflen + 1
          /\ buflen = 0 \/ buflen + inlen <= BlockBytes

StreamInv ==
    /\ total \in 0 .. MaxLength /\ streamPc \in {"idle", "update"} /\ f0 \in BOOLEAN
    /\ f0 => streamPc = "idle" /\ out = Blake2b(total)
    /\ ~f0 => Collecting

LEMMA Widths ==
    /\ BlockBytes \in Nat \ {0} /\ Word \in Nat \ {0} /\ BlockBytes < Word
    /\ MaxLength \in Nat /\ MaxLength < Word * Word
BY BlockAssumption, WordAssumption, LengthAssumption

\* The carry between the words of the counter is right up to the longest message.
LEMMA Counted ==
    ASSUME NEW n \in Nat, NEW inc \in 0 .. BlockBytes, n + inc <= MaxLength
    PROVE  Incremented(Count(n), inc) = Count(n + inc)
<1>1. /\ BlockBytes \in Nat \ {0} /\ Word \in Nat \ {0} /\ BlockBytes < Word
      /\ MaxLength \in Nat /\ MaxLength < Word * Word
  BY Widths
<1>2. PICK hi \in Nat, lo \in 0 .. Word - 1 : n = hi * Word + lo /\ hi = n \div Word /\ lo = n % Word
  <2>1. n \div Word \in Nat /\ n % Word \in 0 .. Word - 1
    BY <1>1, DivBounds
  <2>2. n = (n \div Word) * Word + (n % Word)
    BY <1>1
  <2>3. QED
    BY <2>1, <2>2
<1>3. Count(n) = <<lo, hi>>
  BY <1>2 DEF Count
<1>4. Incremented(Count(n), inc) =
         <<(lo + inc) % Word, (hi + (IF (lo + inc) % Word < inc THEN 1 ELSE 0)) % Word>>
  BY <1>3 DEF Incremented
<1>c. PICK c \in Nat : c = lo + inc
  BY <1>1, <1>2
<1>5. ASSUME NEW q \in Nat, NEW r \in 0 .. Word - 1, n + inc = q * Word + r
      PROVE  Count(n + inc) = <<r, q>> /\ q < Word
  <2>1. Count(n + inc) = <<r, q>>
    <3>1. (q * Word + r) % Word = r /\ (q * Word + r) \div Word = q
      BY <1>1, <1>5, DivMod
    <3>2. QED
      BY <1>5, <3>1 DEF Count
  <2>2. q < Word
    <3>1. SUFFICES ASSUME q >= Word PROVE FALSE
      BY <1>1, <1>5
    <3>2. q * Word >= Word * Word
      BY <1>1, <3>1
    <3>3. PICK a \in Nat, b \in Nat : a = q * Word /\ b = Word * Word
      BY <1>1
    <3>4. QED
      BY <1>1, <1>5, <3>2, <3>3
  <2>3. QED
    BY <2>1, <2>2
<1>6. CASE lo + inc < Word
  <2>1. (lo + inc) % Word = lo + inc
    <3>1. c % Word = c
      BY <1>1, <1>c, <1>6, ModSmall
    <3>2. QED
      BY <1>c, <3>1
  <2>2. lo + inc \in 0 .. Word - 1 /\ n + inc = hi * Word + (lo + inc)
    BY <1>1, <1>2, <1>6
  <2>3. Count(n + inc) = <<lo + inc, hi>> /\ hi < Word
    BY <1>5, <2>2
  <2>4. (hi + 0) % Word = hi
    BY <1>1, <2>3, ModSmall
  <2>5. ~(lo + inc < inc)
    BY <1>2
  <2>6. QED
    BY <1>4, <2>1, <2>3, <2>4, <2>5
<1>7. CASE lo + inc >= Word
  <2>1. (lo + inc) % Word = (lo + inc) - Word
    <3>1. Word <= c /\ c < 2 * Word
      BY <1>1, <1>2, <1>c, <1>7
    <3>2. c % Word = c - Word
      BY <1>1, <3>1, ModWrap
    <3>3. QED
      BY <1>c, <3>2
  <2>2. /\ (lo + inc) - Word \in 0 .. Word - 1
        /\ n + inc = (hi + 1) * Word + ((lo + inc) - Word)
    BY <1>1, <1>2, <1>7
  <2>3. Count(n + inc) = <<(lo + inc) - Word, hi + 1>> /\ hi + 1 < Word
    BY <1>5, <2>2
  <2>4. (hi + 1) % Word = hi + 1
    BY <1>1, <2>3, ModSmall
  <2>5. (lo + inc) - Word < inc
    BY <1>1, <1>2
  <2>6. QED
    BY <1>4, <2>1, <2>3, <2>4, <2>5
<1>8. QED
  BY <1>1, <1>2, <1>6, <1>7

\* Compressing the block that comes next adds it to the whole blocks.
LEMMA OneMoreBlock ==
    ASSUME NEW chain \in Seq(Wholes), NEW chain2, NEW block, NEW counter,
           AllWhole(chain), Bytes(chain) + BlockBytes <= MaxLength,
           block = WholeBlock(Len(chain) + 1),
           counter = Incremented(Count(Bytes(chain)), BlockBytes),
           chain2 = Compressed(chain, block, counter, FALSE)
    PROVE  /\ chain2 \in Seq(Wholes) /\ Len(chain2) = Len(chain) + 1
           /\ AllWhole(chain2)
           /\ Bytes(chain2) = Bytes(chain) + BlockBytes
           /\ counter = Count(Bytes(chain2))
<1>1. PICK l \in Nat : l = Len(chain)
  OBVIOUS
<1>2. BlockBytes \in Nat \ {0} /\ MaxLength \in Nat
  BY Widths
<1>3. PICK n \in Nat : n = l * BlockBytes
  BY <1>2
<1>4. (l + 1) * BlockBytes = n + BlockBytes
  BY <1>2, <1>3
<1>5. counter = Count(n + BlockBytes)
  BY <1>1, <1>2, <1>3, Counted DEF Bytes
<1>6. [block |-> block, t |-> counter, last |-> FALSE] = Whole(l + 1)
  BY <1>1, <1>4, <1>5 DEF Whole
<1>7. chain2 = Append(chain, Whole(l + 1)) /\ Whole(l + 1) \in Wholes
  BY <1>1, <1>6 DEF Compressed, Wholes
<1>8. /\ chain2 \in Seq(Wholes) /\ Len(chain2) = l + 1
      /\ \A i \in 1 .. l : chain2[i] = chain[i]
      /\ chain2[l + 1] = Whole(l + 1)
  <2>1. PICK e \in Wholes : e = Whole(l + 1) /\ chain2 = Append(chain, e)
    BY <1>7
  <2>2. /\ Append(chain, e) \in Seq(Wholes) /\ Len(Append(chain, e)) = l + 1
        /\ \A i \in 1 .. l : Append(chain, e)[i] = chain[i]
        /\ Append(chain, e)[l + 1] = e
    BY <1>1, AppendProperties
  <2>3. QED
    BY <2>1, <2>2
<1>9. ASSUME NEW i \in 1 .. Len(chain2) PROVE chain2[i] = Whole(i)
  <2>1. CASE i = l + 1
    BY <1>8, <2>1
  <2>2. CASE i \in 1 .. l
    BY <1>1, <1>8, <2>2 DEF AllWhole
  <2>3. QED
    <3>1. i \in 1 .. l + 1
      BY <1>8
    <3>2. i = l + 1 \/ i \in 1 .. l
      BY <3>1
    <3>3. QED
      BY <2>1, <2>2, <3>2, Zenon
<1>10. QED
  BY <1>1, <1>3, <1>4, <1>5, <1>8, <1>9 DEF AllWhole, Bytes

LEMMA InitStream == StreamInit => StreamInv
<1>1. SUFFICES ASSUME StreamInit PROVE StreamInv
  OBVIOUS
<1>2. BlockBytes \in Nat \ {0} /\ MaxLength \in Nat /\ Word \in Nat \ {0}
  BY <1>1, Widths
<1>3. h = <<>> /\ Len(h) = 0 /\ h \in Seq(Wholes) /\ t = <<0, 0>> /\ f0 = FALSE /\ buflen = 0
      /\ streamPc = "idle" /\ out = NoDigest /\ total = 0
  BY <1>1 DEF StreamInit
<1>4. Taken = 0 /\ t = Count(Taken)
  <2>1. Taken = 0
    BY <1>2, <1>3 DEF Taken, Bytes
  <2>2. 0 % Word = 0 /\ 0 \div Word = 0
    BY <1>2
  <2>3. QED
    BY <1>3, <2>1, <2>2 DEF Count
<1>5. Collecting
  BY <1>2, <1>3, <1>4 DEF Collecting, AllWhole
<1>6. QED
  <2>1. total \in 0 .. MaxLength /\ streamPc \in {"idle", "update"} /\ f0 \in BOOLEAN /\ ~f0
    <3>1. total \in 0 .. MaxLength
      BY <1>2, <1>3
    <3>2. streamPc \in {"idle", "update"}
      BY <1>3
    <3>3. f0 \in BOOLEAN /\ ~f0
      BY <1>3, Zenon
    <3>4. QED
      BY <3>1, <3>2, <3>3
  <2>2. QED
    BY <1>1, <1>5, <2>1 DEF StreamInv

\* What one more block comes to for the state of a stream.
LEMMA BlockTaken ==
    ASSUME h \in Seq(Wholes), AllWhole(h),
           t = Count(Taken), Taken + BlockBytes <= MaxLength,
           NEW block, block = [k \in Cells |-> Taken + k + 1],
           t' = Incremented(t, BlockBytes),
           h' = Compressed(h, block, t', FALSE)
    PROVE  /\ h' \in Seq(Wholes) /\ AllWhole(h')
           /\ t' = Count(Taken') /\ Taken' = Taken + BlockBytes /\ Len(h') > 0
<1>1. PICK l \in Nat : l = Len(h)
  OBVIOUS
<1>2. BlockBytes \in Nat \ {0}
  BY Widths
<1>3. block = WholeBlock(l + 1)
  <2>1. PICK d \in Int : d = l * BlockBytes
    BY <1>2
  <2>2. (l + 1) - 1 = l
    OBVIOUS
  <2>3. QED
    BY <1>1, <2>2 DEF WholeBlock, Taken, Bytes
<1>4. PICK chain, chain2, counter : chain = h /\ chain2 = h' /\ counter = t'
  OBVIOUS
<1>5. /\ chain \in Seq(Wholes) /\ AllWhole(chain) /\ Bytes(chain) + BlockBytes <= MaxLength
      /\ block = WholeBlock(Len(chain) + 1)
      /\ counter = Incremented(Count(Bytes(chain)), BlockBytes)
      /\ chain2 = Compressed(chain, block, counter, FALSE)
  BY <1>1, <1>3, <1>4 DEF Taken
<1>6. /\ chain2 \in Seq(Wholes) /\ Len(chain2) = Len(chain) + 1
      /\ AllWhole(chain2)
      /\ Bytes(chain2) = Bytes(chain) + BlockBytes
      /\ counter = Count(Bytes(chain2))
  BY <1>5, OneMoreBlock
<1>7. Taken' = Bytes(chain2) /\ Taken = Bytes(chain)
  BY <1>4 DEF Taken, Bytes
<1>8. Len(chain2) > 0
  <2>1. Len(chain2) = l + 1
    BY <1>1, <1>4, <1>6, Zenon
  <2>2. QED
    BY <2>1
<1>9. QED
  BY <1>4, <1>6, <1>7, <1>8

\* What every step starts from.
LEMMA StreamFacts ==
    ASSUME StreamInv
    PROVE  /\ BlockBytes \in Nat \ {0} /\ MaxLength \in Nat
           /\ total \in 0 .. MaxLength
           /\ ~f0 => Collecting /\ Taken \in Nat
<1>1. BlockBytes \in Nat \ {0} /\ MaxLength \in Nat
  BY Widths DEF StreamInv
<1>2. ASSUME ~f0 PROVE Collecting /\ Taken \in Nat
  <2>1. Collecting /\ Len(h) \in Nat
    BY <1>2 DEF StreamInv, Collecting
  <2>2. QED
    BY <1>1, <2>1 DEF Taken, Bytes
<1>3. QED
  BY <1>1, <1>2 DEF StreamInv

LEMMA StreamIdles ==
    ASSUME StreamInv, UNCHANGED <<h, t, f0, buf, buflen, pin, inlen, streamPc, out, total>>
    PROVE  StreamInv'
<1>2. Blake2b(total)' = Blake2b(total)
  BY DEF Blake2b, BlockCount, Entry, Cells
<1>3. Taken' = Taken
  BY DEF Taken, Bytes
<1>4. Collecting' = Collecting
  BY <1>3 DEF Collecting, AllWhole, Wholes, Whole, WholeBlock, Count, Cells
<1>5. QED
  BY <1>2, <1>4 DEF StreamInv

LEMMA StreamUpdate ==
    ASSUME StreamInv, NEW n \in 1 .. MaxLength - total, Update(n)
    PROVE  StreamInv'
<1>1. /\ BlockBytes \in Nat \ {0} /\ MaxLength \in Nat /\ total \in 0 .. MaxLength
  BY StreamFacts
<1>2. ~f0 /\ f0' = f0 /\ Collecting /\ Taken \in Nat
  BY StreamFacts DEF Update
<1>3. /\ streamPc = "idle" /\ streamPc' = "update" /\ total' = total + n /\ out' = out
      /\ f0' \in BOOLEAN
  BY DEF Update, StreamInv
<1>4. /\ total = Taken + buflen /\ buflen \in 0 .. BlockBytes /\ t = Count(Taken) /\ out = NoDigest
      /\ h \in Seq(Wholes) /\ AllWhole(h)
      /\ \A k \in 0 .. buflen - 1 : buf[k] = Taken + k + 1
  BY <1>2, <1>3 DEF Collecting
<1>5. total' \in 0 .. MaxLength
  BY <1>1, <1>3
<1>6. SUFFICES Collecting'
  BY <1>1, <1>2, <1>3, <1>5 DEF StreamInv
<1>7. CASE Overflows(n)
  <2>1. PICK fill \in 0 .. BlockBytes : fill = BlockBytes - buflen
    BY <1>1, <1>4
  <2>2. /\ buf' = Copied(buflen, total + 1, fill)
        /\ t' = Incremented(t, BlockBytes)
        /\ h' = Compressed(h, buf', t', FALSE)
        /\ buflen' = 0 /\ inlen' = n - fill /\ pin' = total + 1 + fill
    BY <1>7, <2>1 DEF Update
  <2>3. fill < n
    BY <1>1, <1>4, <1>7, <2>1 DEF Overflows
  <2>4. buf' = [k \in Cells |-> Taken + k + 1]
    <3>1. ASSUME NEW k \in Cells
          PROVE  (IF buflen <= k /\ k < buflen + fill THEN total + 1 + (k - buflen) ELSE buf[k])
                   = Taken + k + 1
      BY <1>1, <1>2, <1>4, <2>1 DEF Cells
    <3>2. QED
      BY <2>2, <3>1 DEF Copied
  <2>5. Taken + BlockBytes <= MaxLength
    BY <1>1, <1>2, <1>4, <2>1, <2>3
  <2>6. PICK block : block = buf'
    OBVIOUS
  <2>7. /\ h' \in Seq(Wholes) /\ AllWhole(h')
        /\ t' = Count(Taken') /\ Taken' = Taken + BlockBytes
    BY <1>1, <1>4, <2>2, <2>4, <2>5, <2>6, BlockTaken
  <2>8. /\ inlen' \in Nat \ {0} /\ total' = Taken' + buflen' + inlen'
        /\ pin' = Taken' + buflen' + 1
    BY <1>1, <1>2, <1>3, <1>4, <2>1, <2>2, <2>3, <2>7
  <2>9. QED
    <3>1. out' = NoDigest /\ buflen' = 0 /\ streamPc' = "update"
      BY <1>1, <1>3, <1>4, <2>2, <2>7, <2>8
    <3>2. (h \in Seq(Wholes))' /\ AllWhole(h)' /\ (t = Count(Taken))'
      BY <1>1, <1>3, <1>4, <2>2, <2>7, <2>8 DEF AllWhole, Wholes, Whole, WholeBlock, Count, Cells
    <3>3. buflen' \in 0 .. BlockBytes /\ \A k \in 0 .. buflen' - 1 : buf'[k] = Taken' + k + 1
      BY <3>1, <1>1
    <3>4. QED
      BY <3>1, <3>2, <3>3, <2>8 DEF Collecting
<1>8. CASE ~Overflows(n)
  <2>1. /\ inlen' = n /\ pin' = total + 1 /\ UNCHANGED <<h, t, buf, buflen>>
    BY <1>8 DEF Update
  <2>2. Taken' = Taken
    BY <2>1 DEF Taken, Bytes
  <2>3. /\ inlen' \in Nat \ {0} /\ total' = Taken' + buflen' + inlen'
        /\ pin' = Taken' + buflen' + 1 /\ buflen' + inlen' <= BlockBytes
    BY <1>1, <1>2, <1>3, <1>4, <1>8, <2>1, <2>2 DEF Overflows
  <2>4. QED
    BY <1>1, <1>3, <1>4, <2>1, <2>2, <2>3 DEF Collecting, AllWhole, Whole, WholeBlock, Wholes, Count, Cells
<1>9. QED
  BY <1>7, <1>8

LEMMA StreamUpdateBlock == ASSUME StreamInv, UpdateBlock PROVE StreamInv'
<1>1. /\ BlockBytes \in Nat \ {0} /\ MaxLength \in Nat /\ total \in 0 .. MaxLength
  BY StreamFacts
<1>2. /\ ~f0 /\ streamPc = "update" /\ BlockBytes < inlen /\ f0' = f0
      /\ t' = Incremented(t, BlockBytes)
      /\ h' = Compressed(h, [k \in Cells |-> pin + k], t', FALSE)
      /\ inlen' = inlen - BlockBytes /\ pin' = pin + BlockBytes
      /\ UNCHANGED <<buf, buflen, streamPc, out, total>>
  <2>1. /\ streamPc = "update" /\ inlen > BlockBytes /\ f0' = f0
        /\ t' = Incremented(t, BlockBytes)
        /\ h' = Compressed(h, [k \in Cells |-> pin + k], t', FALSE)
        /\ inlen' = inlen - BlockBytes /\ pin' = pin + BlockBytes
        /\ UNCHANGED <<buf, buflen, streamPc, out, total>>
    BY DEF UpdateBlock, MoreThanOne
  <2>2. ~f0
    BY <2>1 DEF StreamInv
  <2>3. QED
    BY <2>1, <2>2
<1>3. Collecting /\ Taken \in Nat
  BY <1>2, StreamFacts
<1>4. /\ out = NoDigest /\ h \in Seq(Wholes) /\ AllWhole(h) /\ t = Count(Taken)
      /\ buflen \in 0 .. BlockBytes
      /\ inlen \in Nat /\ total = Taken + buflen + inlen /\ pin = Taken + buflen + 1
      /\ buflen = 0 \/ buflen + inlen <= BlockBytes
  BY <1>2, <1>3 DEF Collecting
<1>5. buflen = 0
  BY <1>1, <1>2, <1>4
<1>6. PICK block : block = [k \in Cells |-> pin + k]
  OBVIOUS
<1>7. block = [k \in Cells |-> Taken + k + 1]
  <2>1. ASSUME NEW k \in Cells PROVE pin + k = Taken + k + 1
    BY <1>1, <1>3, <1>4, <1>5 DEF Cells
  <2>2. QED
    BY <1>6, <2>1
<1>8. Taken + BlockBytes <= MaxLength
  BY <1>1, <1>2, <1>3, <1>4
<1>9. /\ h' \in Seq(Wholes) /\ AllWhole(h')
      /\ t' = Count(Taken') /\ Taken' = Taken + BlockBytes
  BY <1>1, <1>2, <1>4, <1>6, <1>7, <1>8, BlockTaken
<1>10. /\ inlen' \in Nat \ {0} /\ total' = Taken' + buflen' + inlen'
       /\ pin' = Taken' + buflen' + 1 /\ buflen' = 0
  BY <1>1, <1>2, <1>3, <1>4, <1>5, <1>9
<1>11. Collecting'
  <2>1. out' = NoDigest /\ buflen' = 0 /\ streamPc' = "update"
    BY <1>1, <1>2, <1>4, <1>9, <1>10
  <2>2. (h \in Seq(Wholes))' /\ AllWhole(h)' /\ (t = Count(Taken))'
    BY <1>1, <1>2, <1>4, <1>9, <1>10 DEF AllWhole, Wholes, Whole, WholeBlock, Count, Cells
  <2>3. buflen' \in 0 .. BlockBytes /\ \A k \in 0 .. buflen' - 1 : buf'[k] = Taken' + k + 1
    BY <2>1, <1>1
  <2>4. QED
    BY <2>1, <2>2, <2>3, <1>10 DEF Collecting
<1>12. QED
  BY <1>1, <1>2, <1>11 DEF StreamInv

LEMMA StreamUpdateKeep == ASSUME StreamInv, UpdateKeep PROVE StreamInv'
<1>1. /\ BlockBytes \in Nat \ {0} /\ MaxLength \in Nat /\ total \in 0 .. MaxLength
  BY StreamFacts
<1>2. /\ streamPc = "update" /\ ~(inlen > BlockBytes)
      /\ buf' = Copied(buflen, pin, inlen) /\ buflen' = buflen + inlen
      /\ streamPc' = "idle" /\ UNCHANGED <<h, t, f0, out, total>>
  BY DEF UpdateKeep, MoreThanOne
<1>3. ~f0
  BY <1>2 DEF StreamInv
<1>4. Collecting /\ Taken \in Nat
  BY <1>3, StreamFacts
<1>5. /\ out = NoDigest /\ h \in Seq(Wholes) /\ AllWhole(h) /\ t = Count(Taken)
      /\ buflen \in 0 .. BlockBytes
      /\ inlen \in Nat \ {0} /\ total = Taken + buflen + inlen /\ pin = Taken + buflen + 1
      /\ buflen = 0 \/ buflen + inlen <= BlockBytes
      /\ \A k \in 0 .. buflen - 1 : buf[k] = Taken + k + 1
  BY <1>2, <1>4 DEF Collecting
<1>6. buflen' \in 0 .. BlockBytes /\ buflen' > 0
  BY <1>1, <1>2, <1>5
<1>7. Taken' = Taken
  BY <1>2 DEF Taken, Bytes
<1>8. ASSUME NEW k \in 0 .. buflen' - 1 PROVE buf'[k] = Taken' + k + 1
  <2>1. k \in Cells
    <3>1. PICK b \in 0 .. BlockBytes : b = buflen'
      BY <1>6
    <3>2. k \in 0 .. b - 1
      BY <3>1
    <3>3. QED
      BY <1>1, <3>2 DEF Cells
  <2>2. buf'[k] = IF buflen <= k /\ k < buflen + inlen THEN pin + (k - buflen) ELSE buf[k]
    BY <1>2, <2>1 DEF Copied
  <2>3. QED
    BY <1>1, <1>2, <1>4, <1>5, <1>7, <2>2
<1>9. total' = Taken' + buflen'
  BY <1>1, <1>2, <1>4, <1>5, <1>7
<1>10. (h \in Seq(Wholes))' /\ AllWhole(h)' /\ (t = Count(Taken))'
  BY <1>2, <1>5, <1>7 DEF AllWhole, Wholes, Whole, WholeBlock, Count, Cells
<1>11. Collecting'
  BY <1>2, <1>5, <1>6, <1>8, <1>9, <1>10 DEF Collecting
<1>12. QED
  BY <1>1, <1>2, <1>3, <1>11 DEF StreamInv

\* How many blocks a message has: the last one is not empty, but for the message
\* that is.
LEMMA Blocks ==
    ASSUME NEW l \in Nat, NEW rest \in 0 .. BlockBytes, l > 0 => rest > 0
    PROVE  BlockCount(l * BlockBytes + rest) = l + 1
<1>1. BlockBytes \in Nat \ {0}
  BY Widths
<1>2. PICK d \in Nat : d = l * BlockBytes
  BY <1>1
<1>3. CASE rest = 0
  <2>1. l = 0
    BY <1>3
  <2>2. d + rest = 0
    BY <1>1, <1>2, <1>3, <2>1
  <2>3. QED
    BY <1>2, <2>1, <2>2 DEF BlockCount
<1>4. CASE rest > 0
  <2>1. d + rest # 0
    BY <1>2, <1>4
  <2>2. PICK r \in Nat : r = rest - 1 /\ r < BlockBytes
    BY <1>1, <1>4
  <2>3. (l + 1) * BlockBytes = d + BlockBytes
    BY <1>1, <1>2
  <2>4. (d + rest) + BlockBytes - 1 = (l + 1) * BlockBytes + r
    BY <1>1, <1>2, <2>2, <2>3
  <2>5. PICK m \in Nat : m = l + 1
    OBVIOUS
  <2>6. (m * BlockBytes + r) \div BlockBytes = m
    BY <1>1, <2>2, DivMod
  <2>7. ((d + rest) + BlockBytes - 1) \div BlockBytes = m
    BY <2>4, <2>5, <2>6
  <2>8. QED
    BY <1>2, <2>1, <2>5, <2>7 DEF BlockCount
<1>5. QED
  BY <1>1, <1>3, <1>4

LEMMA StreamFinal == ASSUME StreamInv, NEW n, Final(n) PROVE StreamInv'
<1>1. /\ BlockBytes \in Nat \ {0} /\ MaxLength \in Nat /\ total \in 0 .. MaxLength
  BY StreamFacts
<1>2. /\ streamPc = "idle" /\ ~f0 /\ f0' /\ f0' \in BOOLEAN
      /\ t' = Incremented(t, buflen) /\ buf' = Padded
      /\ h' = Compressed(h, buf', t', TRUE) /\ out' = h'
      /\ UNCHANGED <<streamPc, total>>
  BY DEF Final, Refuses
<1>3. /\ Taken \in Nat /\ h \in Seq(Wholes) /\ AllWhole(h) /\ t = Count(Taken)
      /\ buflen \in 0 .. BlockBytes
      /\ total = Taken + buflen /\ (Len(h) > 0 => buflen > 0)
      /\ \A k \in 0 .. buflen - 1 : buf[k] = Taken + k + 1
  BY <1>2, StreamFacts DEF Collecting
<1>4. PICK l \in Nat : l = Len(h)
  BY <1>3
<1>5. PICK d \in Nat : d = Taken /\ d = l * BlockBytes
  BY <1>3, <1>4 DEF Taken, Bytes
<1>6. BlockCount(total) = l + 1
  <2>1. PICK rest \in 0 .. BlockBytes : rest = buflen
    BY <1>3
  <2>2. total = l * BlockBytes + rest
    BY <1>3, <1>5, <2>1
  <2>3. l > 0 => rest > 0
    BY <1>3, <1>4, <2>1
  <2>4. QED
    BY <1>1, <2>2, <2>3, Blocks
<1>7. t' = Count(total)
  BY <1>1, <1>2, <1>3, Counted
<1>8. PICK last : last = [block |-> buf', t |-> t', last |-> TRUE]
  OBVIOUS
<1>9. h' = Append(h, last)
  BY <1>2, <1>8 DEF Compressed
<1>10. ASSUME NEW i \in 1 .. l PROVE Entry(total, i) = Whole(i)
  <2>1. PICK e \in Nat : e = i * BlockBytes
    BY <1>1
  <2>2. (i - 1) * BlockBytes = e - BlockBytes
    BY <1>1, <2>1
  <2>3. e <= d
    BY <1>1, <1>5, <2>1
  <2>4. i # l + 1
    OBVIOUS
  <2>5. ASSUME NEW k \in Cells PROVE (e - BlockBytes) + k + 1 <= total
    BY <1>1, <1>3, <1>5, <2>1, <2>3, <2>5 DEF Cells
  <2>6. Entry(total, i) =
           [block |-> [k \in Cells |->
                         IF (e - BlockBytes) + k + 1 <= total THEN (e - BlockBytes) + k + 1 ELSE 0],
            t |-> Count(e), last |-> FALSE]
    BY <1>6, <2>1, <2>2, <2>4 DEF Entry, Count
  <2>7. Whole(i) = [block |-> [k \in Cells |-> (e - BlockBytes) + k + 1],
                    t |-> Count(e), last |-> FALSE]
    BY <2>1, <2>2 DEF Whole, WholeBlock
  <2>8. QED
    BY <2>5, <2>6, <2>7
<1>11. Entry(total, l + 1) = last
  <2>1. ((l + 1) - 1) * BlockBytes = d
    BY <1>1, <1>5
  <2>2. Entry(total, l + 1) =
           [block |-> [k \in Cells |-> IF d + k + 1 <= total THEN d + k + 1 ELSE 0],
            t |-> Count(total), last |-> TRUE]
    BY <1>6, <2>1 DEF Entry, Count
  <2>3. ASSUME NEW k \in Cells
        PROVE  (IF k < buflen THEN buf[k] ELSE 0) = (IF d + k + 1 <= total THEN d + k + 1 ELSE 0)
    BY <1>1, <1>3, <1>5 DEF Cells
  <2>4. buf' = [k \in Cells |-> IF d + k + 1 <= total THEN d + k + 1 ELSE 0]
    BY <1>2, <2>3 DEF Padded
  <2>5. QED
    BY <1>7, <1>8, <2>2, <2>4
<1>12. h' = Blake2b(total)
  <2>1. PICK chain \in Seq(Wholes \cup {last}) : chain = h
    <3>1. Wholes \subseteq Wholes \cup {last}
      OBVIOUS
    <3>2. h \in Seq(Wholes \cup {last})
      BY <1>3, <3>1
    <3>3. QED
      BY <3>2
  <2>2. /\ Append(chain, last) \in Seq(Wholes \cup {last})
        /\ Len(Append(chain, last)) = l + 1
        /\ \A i \in 1 .. l : Append(chain, last)[i] = chain[i]
        /\ Append(chain, last)[l + 1] = last
    BY <1>4, <2>1, AppendProperties
  <2>3. PICK c : c = Append(chain, last)
    OBVIOUS
  <2>4. c = [i \in 1 .. l + 1 |-> c[i]]
    BY <2>2, <2>3, LenProperties
  <2>5. ASSUME NEW i \in 1 .. l + 1 PROVE c[i] = Entry(total, i)
    <3>1. CASE i = l + 1
      BY <1>11, <2>2, <2>3, <3>1
    <3>2. CASE i \in 1 .. l
      <4>1. c[i] = h[i]
        BY <2>1, <2>2, <2>3, <3>2
      <4>2. h[i] = Whole(i)
        BY <1>3, <1>4, <3>2 DEF AllWhole
      <4>3. QED
        BY <1>10, <3>2, <4>1, <4>2
    <3>3. i = l + 1 \/ i \in 1 .. l
      OBVIOUS
    <3>4. QED
      BY <3>1, <3>2, <3>3
  <2>6. c = [i \in 1 .. l + 1 |-> Entry(total, i)]
    BY <2>4, <2>5
  <2>7. QED
    BY <1>6, <1>9, <2>1, <2>3, <2>6 DEF Blake2b
<1>13. Blake2b(total)' = Blake2b(total)
  BY <1>2 DEF Blake2b, BlockCount, Entry, Cells
<1>14. QED
  BY <1>1, <1>2, <1>12, <1>13 DEF StreamInv

\* However a message is cut into calls of blake2b_update, and wherever the counter
\* carries, blake2b_final writes the hash of the message.
THEOREM StreamingIsHashing == StreamSpec => []DigestIsHash
<1>1. StreamInit => StreamInv
  BY InitStream
<1>2. StreamInv /\ [StreamNext]_(streamVars) => StreamInv'
  <2>1. SUFFICES ASSUME StreamInv, [StreamNext]_(streamVars) PROVE StreamInv'
    OBVIOUS
  <2>2. CASE UNCHANGED streamVars
    BY <2>1, <2>2, StreamIdles DEF streamVars
  <2>3. CASE UpdateNothing
    BY <2>1, <2>3, StreamIdles DEF UpdateNothing, streamState
  <2>4. ASSUME NEW n \in 1 .. MaxLength - total, Update(n) \/ UpdateReused(n)
        PROVE  StreamInv'
    <3>1. CASE Update(n)
      BY <2>1, <3>1, StreamUpdate
    <3>2. CASE UpdateReused(n)
      BY <2>1, <3>2, StreamIdles DEF UpdateReused, streamState
    <3>3. QED
      BY <2>4, <3>1, <3>2
  <2>5. CASE UpdateBlock
    BY <2>1, <2>5, StreamUpdateBlock
  <2>6. CASE UpdateKeep
    BY <2>1, <2>6, StreamUpdateKeep
  <2>7. ASSUME NEW n \in 1 .. OutBytes, Final(n) \/ FinalRefused(n)
        PROVE  StreamInv'
    <3>1. CASE Final(n)
      BY <2>1, <3>1, StreamFinal
    <3>2. CASE FinalRefused(n)
      BY <2>1, <3>2, StreamIdles DEF FinalRefused, streamState
    <3>3. QED
      BY <2>7, <3>1, <3>2
  <2>8. QED
    BY <2>1, <2>2, <2>3, <2>4, <2>5, <2>6, <2>7 DEF StreamNext
<1>3. StreamInv => DigestIsHash
  BY DEF StreamInv, Collecting, DigestIsHash
<1>4. QED
  BY <1>1, <1>2, <1>3, PTL DEF StreamSpec

-----------------------------------------------------------------------------
(* What a cache is made of besides the fill (CacheSeed).                   *)

\* The order of the numbers is well-founded: every set of them has a least one.
Less == {p \in Nat \X Nat : p[1] < p[2]}

LEMMA Least ==
    ASSUME NEW S \in SUBSET Nat, S # {}
    PROVE  \E n \in S : \A m \in S : n <= m
<1>1. OpToRel(<, Nat) = Less
  BY DEF OpToRel, Less
<1>2. PICK n \in S : \A m \in S : <<m, n>> \notin Less
  BY <1>1, NatLessThanWellFounded, WFMin
<1>3. ASSUME NEW m \in S PROVE n <= m
  <2>1. ~(m < n)
    BY <1>2 DEF Less
  <2>2. QED
    BY <2>1
<1>4. QED
  BY <1>2, <1>3

\* The first n values of HashesOf, and all of them.
AreHashes(first, size, n, f) ==
    f = [i \in 0 .. n |-> IF i = 0 THEN first ELSE Digest(size, <<f[i - 1]>>)]

AreAllHashes(first, size, f) ==
    f = [i \in Nat |-> IF i = 0 THEN first ELSE Digest(size, <<f[i - 1]>>)]

LEMMA HashesExist == \A first, size : \A n \in Nat : \E f : AreHashes(first, size, n, f)
<1> SUFFICES ASSUME NEW first, NEW size PROVE \A n \in Nat : \E f : AreHashes(first, size, n, f)
  OBVIOUS
<1> DEFINE S == {n \in Nat : ~ \E f : AreHashes(first, size, n, f)}
<1>1. SUFFICES ASSUME S # {} PROVE FALSE
  OBVIOUS
<1>2. PICK n \in S : \A m \in S : n <= m
  BY <1>1, Least
<1>3. CASE n = 0
  <2>1. PICK g : g = [i \in 0 .. 0 |-> first]
    OBVIOUS
  <2>2. g = [i \in 0 .. 0 |-> IF i = 0 THEN first ELSE Digest(size, <<g[i - 1]>>)]
    BY <2>1
  <2>3. AreHashes(first, size, n, g)
    BY <1>3, <2>2 DEF AreHashes
  <2>4. QED
    BY <1>2, <2>3
<1>4. CASE n > 0
  <2>1. n - 1 \in Nat /\ n - 1 \notin S
    BY <1>2, <1>4
  <2>2. PICK f : AreHashes(first, size, n - 1, f)
    BY <2>1
  <2>3. PICK g : g = [i \in 0 .. n |-> IF i = 0 THEN first ELSE Digest(size, <<f[i - 1]>>)]
    OBVIOUS
  <2>4. ASSUME NEW i \in 0 .. n
        PROVE  g[i] = IF i = 0 THEN first ELSE Digest(size, <<g[i - 1]>>)
    <3>1. CASE i = 0
      BY <2>3, <3>1
    <3>2. CASE i > 0
      <4>1. i - 1 \in 0 .. n - 1 /\ i - 1 \in 0 .. n
        BY <1>2, <3>2
      <4>2. g[i - 1] = IF i - 1 = 0 THEN first ELSE Digest(size, <<f[i - 1 - 1]>>)
        BY <2>3, <4>1
      <4>3. f[i - 1] = IF i - 1 = 0 THEN first ELSE Digest(size, <<f[i - 1 - 1]>>)
        BY <2>2, <4>1 DEF AreHashes
      <4>4. g[i] = Digest(size, <<f[i - 1]>>)
        BY <2>3, <3>2
      <4>5. QED
        BY <3>2, <4>2, <4>3, <4>4
    <3>3. QED
      BY <1>2, <3>1, <3>2
  <2>5. g = [i \in 0 .. n |-> g[i]]
    BY <2>3
  <2>6. g = [i \in 0 .. n |-> IF i = 0 THEN first ELSE Digest(size, <<g[i - 1]>>)]
    BY <2>4, <2>5
  <2>7. AreHashes(first, size, n, g)
    BY <2>6 DEF AreHashes
  <2>8. QED
    BY <1>2, <2>7
<1>5. QED
  BY <1>2, <1>3, <1>4

LEMMA HashesAgree ==
    ASSUME NEW first, NEW size, NEW m \in Nat, NEW n \in Nat, NEW f, NEW g,
           AreHashes(first, size, m, f), AreHashes(first, size, n, g)
    PROVE  \A i \in Nat : i <= m /\ i <= n => f[i] = g[i]
<1> DEFINE S == {i \in Nat : i <= m /\ i <= n /\ f[i] # g[i]}
<1>1. SUFFICES ASSUME S # {} PROVE FALSE
  OBVIOUS
<1>2. PICK i \in S : \A j \in S : i <= j
  BY <1>1, Least
<1>3. /\ f[i] = IF i = 0 THEN first ELSE Digest(size, <<f[i - 1]>>)
      /\ g[i] = IF i = 0 THEN first ELSE Digest(size, <<g[i - 1]>>)
  <2>1. i \in 0 .. m /\ i \in 0 .. n
    BY <1>2
  <2>2. QED
    BY <2>1 DEF AreHashes
<1>4. i # 0 => f[i - 1] = g[i - 1]
  <2>1. SUFFICES ASSUME i # 0, f[i - 1] # g[i - 1] PROVE FALSE
    OBVIOUS
  <2>2. i - 1 \in S
    BY <1>2, <2>1
  <2>3. QED
    BY <1>2, <2>2
<1>5. QED
  BY <1>2, <1>3, <1>4

\* HashesOf is the function that its recursion describes.
LEMMA HashesAre ==
    ASSUME NEW first, NEW size
    PROVE  /\ HashesOf(first, size)[0] = first
           /\ \A i \in Nat : HashesOf(first, size)[i + 1] = Digest(size, <<HashesOf(first, size)[i]>>)
<1> DEFINE F(n) == CHOOSE f : AreHashes(first, size, n, f)
<1>1. ASSUME NEW n \in Nat PROVE AreHashes(first, size, n, F(n))
  BY HashesExist
<1>2. PICK g : g = [n \in Nat |-> F(n)[n]]
  OBVIOUS
<1> HIDE DEF F
<1>3. ASSUME NEW i \in Nat
      PROVE  g[i] = IF i = 0 THEN first ELSE Digest(size, <<g[i - 1]>>)
  <2>1. F(i)[i] = IF i = 0 THEN first ELSE Digest(size, <<F(i)[i - 1]>>)
    <3>1. AreHashes(first, size, i, F(i)) /\ i \in 0 .. i
      BY <1>1
    <3>2. QED
      BY <3>1 DEF AreHashes
  <2>2. i # 0 => F(i)[i - 1] = F(i - 1)[i - 1]
    <3>1. SUFFICES ASSUME i # 0 PROVE F(i)[i - 1] = F(i - 1)[i - 1]
      OBVIOUS
    <3>2. i - 1 \in Nat /\ i - 1 <= i /\ i - 1 <= i - 1
      BY <3>1
    <3>3. AreHashes(first, size, i, F(i)) /\ AreHashes(first, size, i - 1, F(i - 1))
      BY <1>1, <3>2
    <3>4. QED
      BY <3>2, <3>3, HashesAgree
  <2>3. i # 0 => i - 1 \in Nat
    OBVIOUS
  <2>4. QED
    BY <1>2, <2>1, <2>2, <2>3
<1>4. g = [i \in Nat |-> g[i]]
  BY <1>2
<1>5. AreAllHashes(first, size, g)
  <2>1. g = [i \in Nat |-> IF i = 0 THEN first ELSE Digest(size, <<g[i - 1]>>)]
    BY <1>3, <1>4
  <2>2. QED
    BY <2>1 DEF AreAllHashes
<1>6. AreAllHashes(first, size, HashesOf(first, size))
  BY <1>5 DEF HashesOf, AreAllHashes
<1>7. ASSUME NEW i \in Nat
      PROVE  HashesOf(first, size)[i + 1] = Digest(size, <<HashesOf(first, size)[i]>>)
  <2>1. i + 1 \in Nat /\ i + 1 # 0 /\ (i + 1) - 1 = i
    OBVIOUS
  <2>2. QED
    BY <1>6, <2>1 DEF AreAllHashes
<1>8. QED
  BY <1>6, <1>7 DEF AreAllHashes

\* If the first value is no digest of its kind, no value comes twice.
LEMMA HashesDiffer ==
    ASSUME NEW first, NEW size, \A x : Digest(size, x) # first,
           NEW i \in Nat, NEW j \in Nat, HashesOf(first, size)[i] = HashesOf(first, size)[j]
    PROVE  i = j
<1> DEFINE H == HashesOf(first, size)
           S == {a \in Nat : \E b \in Nat : a < b /\ H[a] = H[b]}
<1>1. H[0] = first /\ \A a \in Nat : H[a + 1] = Digest(size, <<H[a]>>)
  BY HashesAre
<1> HIDE DEF H
<1>2. S = {}
  <2>1. SUFFICES ASSUME S # {} PROVE FALSE
    OBVIOUS
  <2>2. PICK a \in S : \A c \in S : a <= c
    BY <2>1, Least
  <2>3. PICK b \in Nat : a < b /\ H[a] = H[b]
    BY <2>2
  <2>4. b - 1 \in Nat /\ H[b] = Digest(size, <<H[b - 1]>>)
    <3>1. b - 1 \in Nat /\ (b - 1) + 1 = b
      BY <2>2, <2>3
    <3>2. QED
      BY <1>1, <3>1
  <2>5. a # 0
    BY <1>1, <2>3, <2>4
  <2>6. a - 1 \in Nat /\ H[a] = Digest(size, <<H[a - 1]>>)
    <3>1. a - 1 \in Nat /\ (a - 1) + 1 = a
      BY <2>2, <2>5
    <3>2. QED
      BY <1>1, <3>1
  <2>7. H[a - 1] = H[b - 1]
    BY <2>3, <2>4, <2>6 DEF Digest
  <2>8. a - 1 \in S
    BY <2>3, <2>4, <2>6, <2>7
  <2>9. QED
    BY <2>2, <2>8
<1>3. QED
  BY <1>2 DEF H

LEMMA Halves == HalfOut \in Nat \ {0} /\ DigestBytes = 2 * HalfOut
BY DigestAssumption DEF HalfOut

\* Two functions on numbers, one behind the other.
LEMMA Joined ==
    ASSUME NEW m \in Nat, NEW n \in Nat, NEW f, NEW g,
           f = [i \in 1 .. m |-> f[i]], g = [i \in 1 .. n |-> g[i]]
    PROVE  f \o g = [i \in 1 .. m + n |-> IF i <= m THEN f[i] ELSE g[i - m]]
<1>0. PICK S : S = {f[i] : i \in 1 .. m} \cup {g[i] : i \in 1 .. n}
  OBVIOUS
<1>1. f \in Seq(S) /\ g \in Seq(S) /\ Len(f) = m /\ Len(g) = n
  <2>1. (\A i \in 1 .. m : f[i] \in S) /\ (\A i \in 1 .. n : g[i] \in S)
    BY <1>0
  <2>2. f \in [1 .. m -> S]
    BY <2>1
  <2>3. g \in [1 .. n -> S]
    BY <2>1
  <2>4. f \in Seq(S) /\ g \in Seq(S)
    BY <2>2, <2>3
  <2>5. Len(f) = m /\ Len(g) = n
    OBVIOUS
  <2>6. QED
    BY <2>4, <2>5
<1>2. /\ f \o g \in Seq(S) /\ Len(f \o g) = Len(f) + Len(g)
      /\ \A i \in 1 .. Len(f) + Len(g) :
            (f \o g)[i] = IF i <= Len(f) THEN f[i] ELSE g[i - Len(f)]
  <2>1. f \in Seq(S) /\ g \in Seq(S)
    BY <1>1
  <2>2. QED
    BY <2>1, ConcatProperties
<1>3. f \o g = [i \in 1 .. m + n |-> (f \o g)[i]]
  <2>1. PICK c : c = f \o g
    OBVIOUS
  <2>2. c \in Seq(S) /\ Len(c) = m + n
    BY <1>1, <1>2, <2>1
  <2>3. c = [i \in 1 .. m + n |-> c[i]]
    BY <2>2
  <2>4. QED
    BY <2>1, <2>3
<1>4. QED
  BY <1>1, <1>2, <1>3

\* blake2b_long: one half more.
LEMMA OneMoreHalf ==
    ASSUME NEW size, NEW message, NEW k \in Nat
    PROVE  HalvesOf(size, message, k) \o BytesOf(Links(size, message)[k], HalfOut)
               = HalvesOf(size, message, k + 1)
<1>1. PICK H \in Nat \ {0} : H = HalfOut
  BY Halves
<1>2. PICK f : f = HalvesOf(size, message, k)
  OBVIOUS
<1>3. PICK link : link = Links(size, message)
  OBVIOUS
<1>4. PICK g : g = BytesOf(link[k], H)
  OBVIOUS
<1>5. PICK m \in Nat : m = H * k
  OBVIOUS
<1>6. f = [n \in 1 .. m |-> <<link[(n - 1) \div H], ((n - 1) % H) + 1>>]
  BY <1>1, <1>2, <1>3, <1>5 DEF HalvesOf
<1>7. g = [i \in 1 .. H |-> <<link[k], i>>]
  BY <1>4 DEF BytesOf
<1>8. H * (k + 1) = m + H
  BY <1>1, <1>5
<1>9. f \o g = [i \in 1 .. m + H |-> IF i <= m THEN f[i] ELSE g[i - m]]
  <2>1. f = [i \in 1 .. m |-> f[i]] /\ g = [i \in 1 .. H |-> g[i]]
    BY <1>6, <1>7
  <2>2. QED
    BY <1>1, <2>1, Joined
<1>10. ASSUME NEW i \in 1 .. m + H
       PROVE  (IF i <= m THEN f[i] ELSE g[i - m]) = <<link[(i - 1) \div H], ((i - 1) % H) + 1>>
  <2>1. CASE i <= m
    BY <1>6, <2>1
  <2>2. CASE i > m
    <3>1. PICK c \in 0 .. H - 1 : c = i - m - 1
      BY <2>2, <1>1
    <3>2. i - 1 = k * H + c
      BY <3>1, <1>1, <1>5
    <3>3. (i - 1) % H = c /\ (i - 1) \div H = k
      BY <1>1, <3>1, <3>2, DivMod
    <3>4. i - m \in 1 .. H /\ i - m = c + 1
      BY <1>1, <3>1
    <3>5. g[i - m] = <<link[k], c + 1>>
      BY <1>7, <3>4
    <3>6. QED
      BY <2>2, <3>3, <3>5
  <2>3. QED
    BY <2>1, <2>2
<1>11. f \o g = [i \in 1 .. m + H |-> <<link[(i - 1) \div H], ((i - 1) % H) + 1>>]
  BY <1>9, <1>10
<1>12. HalvesOf(size, message, k + 1) =
          [i \in 1 .. m + H |-> <<link[(i - 1) \div H], ((i - 1) % H) + 1>>]
  BY <1>1, <1>3, <1>8 DEF HalvesOf
<1>13. QED
  BY <1>1, <1>2, <1>3, <1>4, <1>11, <1>12

\* blake2b_long stops with the number of halves of RFC 9106.
LEMMA NumberOfHalves ==
    ASSUME NEW size \in Nat, NEW k \in Nat,
           size - HalfOut * k > HalfOut, size - HalfOut * k <= DigestBytes
    PROVE  (size + HalfOut - 1) \div HalfOut - 2 = k
<1>1. PICK H \in Nat \ {0} : H = HalfOut /\ DigestBytes = 2 * H
  BY Halves
<1>2. PICK m \in Nat : m = H * k
  OBVIOUS
<1>3. PICK c \in Nat : c = size + H - 1
  BY <1>1
<1>4. (k + 2) * H = m + 2 * H
  BY <1>1, <1>2
<1>5. (k + 2) * H <= c /\ c < (k + 2) * H + H
  BY <1>1, <1>2, <1>3, <1>4
<1>6. c \div H = k + 2
  BY <1>1, <1>3, <1>5, DivSlice
<1>7. QED
  BY <1>1, <1>3, <1>6

LEMMA LinkOf ==
    ASSUME NEW size, NEW message
    PROVE  /\ Links(size, message)[0] = Digest(DigestBytes, <<size>> \o message)
           /\ \A i \in Nat : Links(size, message)[i + 1] = Digest(DigestBytes, <<Links(size, message)[i]>>)
BY HashesAre DEF Links

\* Steps that leave the cache's side alone, also those of the generator.
\* Steps that leave the cache's side alone, also those of the generator.
LEMMA StretchIdles ==
    ASSUME StretchInv, UNCHANGED <<blockSize, key, firstBlocks, blockhash, longVars, seedPc>>
    PROVE  StretchInv'
BY DEF StretchInv, longVars, AtBlock, Stored, Chained

LEMMA AtBlockKeeps ==
    ASSUME UNCHANGED <<blockSize, key, firstBlocks, blockhash>>
    PROVE  \A index, lane : AtBlock(index, lane)' <=> AtBlock(index, lane)
BY DEF AtBlock, Stored

LEMMA StretchBegins == ASSUME StretchInv, NEW k, initCache(k) PROVE StretchInv'
<1>1. /\ blockhash' = <<InitialHash(key'), 0, 0>> /\ seedPc' = "stretch"
      /\ blockSize' = blockSize /\ firstBlocks' = firstBlocks
  BY DEF initCache
<1>2. 0 \in 0 .. 1 /\ 0 \in 0 .. Lanes - 1
  BY FirstLanesAssumption
<1>3. AtBlock(0, 0)'
  BY <1>1 DEF AtBlock
<1>4. QED
  BY <1>1, <1>2, <1>3 DEF StretchInv

LEMMA StretchShort == ASSUME StretchInv, LongShort PROVE StretchInv'
<1>1. /\ seedPc = "stretch" /\ seedPc' = "store"
      /\ blockhash' = blockhash /\ blockSize' = blockSize /\ firstBlocks' = firstBlocks
      /\ key' = key /\ blockSize <= DigestBytes
  BY DEF LongShort
<1>2. PICK index \in 0 .. 1, lane \in 0 .. Lanes - 1 : AtBlock(index, lane)
  BY <1>1 DEF StretchInv
<1>3. AtBlock(index, lane)'
  BY <1>1, <1>2, AtBlockKeeps
<1>4. long' = Stretched(blockSize, blockhash)
  BY DEF LongShort, Stretched
<1>5. QED
  BY <1>1, <1>2, <1>3, <1>4 DEF StretchInv

LEMMA StretchFirst == ASSUME StretchInv, LongFirst PROVE StretchInv'
<1>1. /\ seedPc = "stretch" /\ seedPc' = "chain"
      /\ blockhash' = blockhash /\ blockSize' = blockSize /\ firstBlocks' = firstBlocks
      /\ key' = key /\ blockSize > DigestBytes
      /\ out_buffer' = Digest(DigestBytes, <<blockSize>> \o blockhash)
      /\ long' = BytesOf(out_buffer', HalfOut) /\ toproduce' = blockSize - HalfOut
  BY DEF LongFirst
<1>2. PICK index \in 0 .. 1, lane \in 0 .. Lanes - 1 : AtBlock(index, lane)
  BY <1>1 DEF StretchInv
<1>3. AtBlock(index, lane)'
  BY <1>1, <1>2, AtBlockKeeps
<1>4. PICK H \in Nat \ {0} : H = HalfOut /\ DigestBytes = 2 * H
  BY Halves
<1>5. blockSize \in Nat
  BY BlockSizesAssumption DEF StretchInv
<1>6. out_buffer' = Links(blockSize, blockhash)[0]
  BY <1>1, LinkOf
<1>7. HalvesOf(blockSize, blockhash, 0) \o BytesOf(Links(blockSize, blockhash)[0], HalfOut)
          = HalvesOf(blockSize, blockhash, 0 + 1)
  BY OneMoreHalf
<1>8. HalvesOf(blockSize, blockhash, 0) = <<>>
  <2>1. HalfOut * 0 = 0
    BY <1>4
  <2>2. QED
    BY <2>1 DEF HalvesOf
<1>9. <<>> \o BytesOf(out_buffer', HalfOut) = BytesOf(out_buffer', HalfOut)
  <2>1. PICK g : g = BytesOf(out_buffer', HalfOut)
    OBVIOUS
  <2>2. g = [i \in 1 .. HalfOut |-> g[i]] /\ g = [i \in 1 .. HalfOut |-> <<out_buffer', i>>]
    BY <2>1 DEF BytesOf
  <2>3. PICK S : S = {g[i] : i \in 1 .. HalfOut}
    OBVIOUS
  <2>4. g \in [1 .. HalfOut -> S]
    BY <2>2, <2>3
  <2>5. g \in Seq(S)
    BY <1>4, <2>4
  <2>6. <<>> \o g = g
    BY <2>5, ConcatEmptySeq
  <2>7. QED
    BY <2>1, <2>6
<1>10. Chained(1)'
  <2>1. PICK one : one = 1
    OBVIOUS
  <2>2. long' = HalvesOf(blockSize, blockhash, one)
    <3>1. 0 + 1 = one
      BY <2>1
    <3>2. <<>> \o BytesOf(out_buffer', HalfOut) = HalvesOf(blockSize, blockhash, 0 + 1)
      BY <1>6, <1>7, <1>8
    <3>3. QED
      BY <1>1, <1>9, <3>1, <3>2
  <2>3. toproduce' = blockSize - HalfOut * 1 /\ toproduce' > HalfOut
    BY <1>1, <1>4, <1>5
  <2>4. 1 - 1 = 0
    OBVIOUS
  <2>5. QED
    BY <1>1, <1>6, <2>1, <2>2, <2>3, <2>4 DEF Chained
<1>11. 1 \in 1 .. blockSize
  BY <1>1, <1>4, <1>5
<1>12. QED
  BY <1>1, <1>2, <1>3, <1>10, <1>11 DEF StretchInv

LEMMA StretchHalf == ASSUME StretchInv, LongHalf PROVE StretchInv'
<1>1. /\ seedPc = "chain" /\ seedPc' = "chain"
      /\ blockhash' = blockhash /\ blockSize' = blockSize /\ firstBlocks' = firstBlocks
      /\ key' = key /\ toproduce > DigestBytes
      /\ out_buffer' = Digest(DigestBytes, <<out_buffer>>)
      /\ long' = long \o BytesOf(out_buffer', HalfOut) /\ toproduce' = toproduce - HalfOut
  BY DEF LongHalf, MoreToProduce
<1>2. PICK index \in 0 .. 1, lane \in 0 .. Lanes - 1 : AtBlock(index, lane)
  BY <1>1 DEF StretchInv
<1>3. AtBlock(index, lane)'
  BY <1>1, <1>2, AtBlockKeeps
<1>4. PICK H \in Nat \ {0} : H = HalfOut /\ DigestBytes = 2 * H
  BY Halves
<1>5. blockSize \in Nat /\ blockSize > DigestBytes
  BY <1>1, BlockSizesAssumption DEF StretchInv
<1>6. PICK k \in 1 .. blockSize : Chained(k)
  BY <1>1 DEF StretchInv
<1>7. /\ out_buffer = Links(blockSize, blockhash)[k - 1]
      /\ toproduce = blockSize - HalfOut * k
      /\ long = HalvesOf(blockSize, blockhash, k)
  BY <1>6 DEF Chained
<1>8. out_buffer' = Links(blockSize, blockhash)[k]
  <2>1. k - 1 \in Nat /\ (k - 1) + 1 = k
    BY <1>5
  <2>2. \A i \in Nat : Links(blockSize, blockhash)[i + 1] =
                          Digest(DigestBytes, <<Links(blockSize, blockhash)[i]>>)
    BY LinkOf
  <2>3. Links(blockSize, blockhash)[(k - 1) + 1] =
            Digest(DigestBytes, <<Links(blockSize, blockhash)[k - 1]>>)
    BY <2>1, <2>2
  <2>4. QED
    BY <1>1, <1>7, <2>1, <2>3
<1>9. long' = HalvesOf(blockSize, blockhash, k + 1)
  <2>1. k \in Nat
    BY <1>5
  <2>2. QED
    BY <1>1, <1>7, <1>8, <2>1, OneMoreHalf
<1>10. /\ toproduce' = blockSize - HalfOut * (k + 1) /\ toproduce' > HalfOut
       /\ k + 1 \in 1 .. blockSize
  <2>1. PICK m \in Nat : m = H * k
    BY <1>4, <1>5
  <2>2. H * (k + 1) = m + H /\ m >= k
    BY <1>4, <1>5, <2>1
  <2>3. toproduce = blockSize - m
    BY <1>4, <1>7, <2>1
  <2>4. QED
    BY <1>1, <1>4, <1>5, <2>2, <2>3
<1>11. Chained(k + 1)'
  <2>1. (k + 1) - 1 = k
    BY <1>5
  <2>2. QED
    BY <1>1, <1>8, <1>9, <1>10, <2>1 DEF Chained
<1>12. QED
  BY <1>1, <1>2, <1>3, <1>5, <1>10, <1>11 DEF StretchInv

LEMMA StretchLast == ASSUME StretchInv, LongLast PROVE StretchInv'
<1>1. /\ seedPc = "chain" /\ seedPc' = "store"
      /\ blockhash' = blockhash /\ blockSize' = blockSize /\ firstBlocks' = firstBlocks
      /\ key' = key /\ ~(toproduce > DigestBytes)
      /\ out_buffer' = Digest(toproduce, <<out_buffer>>)
      /\ long' = long \o BytesOf(out_buffer', toproduce)
  BY DEF LongLast, MoreToProduce
<1>2. PICK index \in 0 .. 1, lane \in 0 .. Lanes - 1 : AtBlock(index, lane)
  BY <1>1 DEF StretchInv
<1>3. AtBlock(index, lane)'
  BY <1>1, <1>2, AtBlockKeeps
<1>4. blockSize \in Nat /\ blockSize > DigestBytes
  BY <1>1, BlockSizesAssumption DEF StretchInv
<1>5. PICK k \in 1 .. blockSize : Chained(k)
  BY <1>1 DEF StretchInv
<1>6. /\ out_buffer = Links(blockSize, blockhash)[k - 1]
      /\ toproduce = blockSize - HalfOut * k /\ toproduce > HalfOut
      /\ long = HalvesOf(blockSize, blockhash, k)
  BY <1>5 DEF Chained
<1>7. (blockSize + HalfOut - 1) \div HalfOut - 2 = k
  <2>1. k \in Nat /\ HalfOut \in Nat /\ DigestBytes \in Nat
    BY <1>4, Halves
  <2>2. toproduce \in Int
    BY <1>4, <1>6, <2>1
  <2>3. toproduce <= DigestBytes
    BY <1>1, <2>1, <2>2
  <2>4. QED
    BY <1>4, <1>6, <2>1, <2>3, NumberOfHalves
<1>8. long' = Stretched(blockSize, blockhash)
  <2>1. ~(blockSize <= DigestBytes)
    BY <1>4, Halves
  <2>2. QED
    BY <1>1, <1>6, <1>7, <2>1 DEF Stretched
<1>9. QED
  BY <1>1, <1>2, <1>3, <1>8 DEF StretchInv

LEMMA StretchStores == ASSUME StretchInv, StoreBlock PROVE StretchInv'
<1>1. seedPc = "store" /\ long = Stretched(blockSize, blockhash)
  BY DEF StretchInv, StoreBlock
<1>2. PICK index \in 0 .. 1, lane \in 0 .. Lanes - 1 : AtBlock(index, lane)
  BY <1>1 DEF StretchInv
<1>3. blockhash = <<InitialHash(key), index, lane>>
  BY <1>2 DEF AtBlock
<1>4. /\ firstBlocks' = [firstBlocks EXCEPT ![lane][index] = long]
      /\ blockhash' = <<InitialHash(key), (index + 1) % 2, lane + index>>
      /\ seedPc' = IF index = 1 /\ lane = Lanes - 1 THEN "generate" ELSE "stretch"
      /\ UNCHANGED <<blockSize, key>>
  BY <1>3 DEF StoreBlock
<1>5. ASSUME NEW l \in 0 .. Lanes - 1, NEW i \in 0 .. 1
      PROVE  firstBlocks'[l][i] = IF l = lane /\ i = index THEN long ELSE firstBlocks[l][i]
  <2>1. firstBlocks = [l1 \in 0 .. Lanes - 1 |-> [i1 \in 0 .. 1 |-> firstBlocks[l1][i1]]]
    BY DEF StretchInv
  <2>2. QED
    BY <1>4, <2>1
<1>6. firstBlocks' = [l \in 0 .. Lanes - 1 |-> [i \in 0 .. 1 |-> firstBlocks'[l][i]]]
  <2>1. firstBlocks = [l1 \in 0 .. Lanes - 1 |-> [i1 \in 0 .. 1 |-> firstBlocks[l1][i1]]]
    BY DEF StretchInv
  <2>2. QED
    BY <1>4, <2>1
<1>7. ASSUME NEW l \in 0 .. Lanes - 1, NEW i \in 0 .. 1,
             l < lane \/ (l = lane /\ i <= index)
      PROVE  Stored(l, i)'
  <2>1. CASE l = lane /\ i = index
    BY <1>1, <1>3, <1>4, <1>5, <2>1 DEF Stored
  <2>2. CASE l < lane \/ (l = lane /\ i < index)
    <3>1. ~(l = lane /\ i = index)
      BY <2>2
    <3>2. Stored(l, i)
      BY <1>2, <2>2 DEF AtBlock
    <3>3. QED
      BY <1>4, <1>5, <3>1, <3>2 DEF Stored
  <2>3. QED
    BY <1>7, <2>1, <2>2
<1>8. ASSUME NEW x, NEW y, blockhash' = <<InitialHash(key), x, y>>,
             \A l \in 0 .. Lanes - 1, i \in 0 .. 1 :
                 l < y \/ (l = y /\ i < x) => Stored(l, i)'
      PROVE  AtBlock(x, y)'
  BY <1>4, <1>8 DEF AtBlock
<1>9. CASE index = 0
  <2>1. (index + 1) % 2 = 1 /\ lane + index = lane /\ 1 \in 0 .. 1
    BY <1>9
  <2>2. PICK one : one = 1
    OBVIOUS
  <2>3. blockhash' = <<InitialHash(key), one, lane>> /\ seedPc' = "stretch"
    BY <1>4, <1>9, <2>1, <2>2
  <2>4. AtBlock(one, lane)'
    <3>1. ASSUME NEW l \in 0 .. Lanes - 1, NEW i \in 0 .. 1, l < lane \/ (l = lane /\ i < one)
          PROVE  Stored(l, i)'
      BY <1>7, <1>9, <2>2, <3>1
    <3>2. QED
      BY <1>8, <2>3, <3>1
  <2>5. QED
    BY <1>4, <1>6, <2>1, <2>2, <2>3, <2>4 DEF StretchInv
<1>10. CASE index = 1
  <2>1. (index + 1) % 2 = 0 /\ lane + index = lane + 1 /\ 0 \in 0 .. 1
    BY <1>10
  <2>2. PICK zero, next : zero = 0 /\ next = lane + 1
    OBVIOUS
  <2>3. blockhash' = <<InitialHash(key), zero, next>>
    BY <1>4, <2>1, <2>2
  <2>4. AtBlock(zero, next)'
    <3>1. ASSUME NEW l \in 0 .. Lanes - 1, NEW i \in 0 .. 1, l < next \/ (l = next /\ i < zero)
          PROVE  Stored(l, i)'
      <4>1. l < lane \/ (l = lane /\ i <= index)
        BY <1>10, <2>2, <3>1
      <4>2. QED
        BY <1>7, <4>1
    <3>2. QED
      BY <1>8, <2>3, <3>1
  <2>5. CASE lane = Lanes - 1
    <3>1. next = Lanes /\ seedPc' = "generate"
      BY <1>4, <1>10, <2>2, <2>5, FirstLanesAssumption
    <3>2. QED
      BY <1>4, <1>6, <2>2, <2>4, <3>1 DEF StretchInv
  <2>6. CASE lane # Lanes - 1
    <3>1. next \in 0 .. Lanes - 1 /\ seedPc' = "stretch"
      BY <1>4, <2>2, <2>6, FirstLanesAssumption
    <3>2. QED
      BY <1>4, <1>6, <2>1, <2>2, <2>4, <3>1 DEF StretchInv
  <2>7. QED
    BY <2>5, <2>6
<1>11. QED
  BY <1>9, <1>10

LEMMA StretchInvariance == SeedSpec => []StretchInv
<1>1. SeedInit => StretchInv
  BY DEF SeedInit, StretchInv
<1>2. StretchInv /\ [SeedNext]_seedVars => StretchInv'
  <2>1. SUFFICES ASSUME StretchInv, [SeedNext]_seedVars PROVE StretchInv'
    OBVIOUS
  <2>2. CASE UNCHANGED seedVars
    BY <2>1, <2>2, StretchIdles DEF seedVars
  <2>3. ASSUME NEW k \in Keys, initCache(k) PROVE StretchInv'
    BY <2>1, <2>3, StretchBegins
  <2>4. ASSUME LongShort \/ LongFirst \/ LongHalf \/ LongLast \/ StoreBlock PROVE StretchInv'
    BY <2>1, <2>4, StretchShort, StretchFirst, StretchHalf, StretchLast, StretchStores
  <2>5. ASSUME getByte \/ getUInt32 PROVE StretchInv'
    BY <2>1, <2>5, StretchIdles DEF getByte, getUInt32, Draw
  <2>6. QED
    BY <2>1, <2>2, <2>3, <2>4, <2>5 DEF SeedNext
<1>3. QED
  BY <1>1, <1>2, PTL DEF SeedSpec

\* For any key, also when the cache held another one before, for any number of lanes
\* and whatever length of a block: blake2b_long's loop puts out as many halves as
\* RFC 9106 has digests, and rxa2_fill_first_blocks stores each block in its place.
THEOREM FillStartsFromTheKey == SeedSpec => []FirstBlocksAreArgon2s
<1>1. StretchInv => FirstBlocksAreArgon2s
  <2>1. SUFFICES ASSUME StretchInv, seedPc = "generate",
                        NEW l \in 0 .. Lanes - 1, NEW i \in 0 .. 1
                 PROVE  firstBlocks[l][i] = Stretched(blockSize, <<InitialHash(key), i, l>>)
    BY DEF FirstBlocksAreArgon2s
  <2>2. l < Lanes /\ AtBlock(0, Lanes)
    BY <2>1, FirstLanesAssumption DEF StretchInv
  <2>3. Stored(l, i)
    BY <2>1, <2>2 DEF AtBlock
  <2>4. QED
    BY <2>3 DEF Stored
<1>2. QED
  BY <1>1, StretchInvariance, PTL

\* The seed is no digest, so that the generator never comes back to what it had.
LEMMA SeedsDiffer ==
    /\ \A i, j \in Nat : Seeds[i] = Seeds[j] => i = j
    /\ \A i \in Nat : Seeds[i + 1] = Digest(DataSize, <<Seeds[i]>>)
    /\ Seeds[0] = [seed |-> Seed(key)]
<1>1. PICK first : first = [seed |-> Seed(key)]
  OBVIOUS
<1>2. ASSUME NEW x PROVE Digest(DataSize, x) # first
  <2>1. "size" \in DOMAIN Digest(DataSize, x)
    BY DEF Digest
  <2>2. "size" \notin DOMAIN first
    BY <1>1
  <2>3. QED
    BY <2>1, <2>2
<1>3. Seeds = HashesOf(first, DataSize)
  BY <1>1 DEF Seeds
<1>4. QED
  BY <1>1, <1>2, <1>3, HashesAre, HashesDiffer

LEMMA DrawnIdles ==
    ASSUME DrawnInv, UNCHANGED <<key, seedPc, generator>> PROVE DrawnInv'
<1>1. \A n : DrawnFrom(n)' <=> DrawnFrom(n)
  BY DEF DrawnFrom, generator, Seeds, Seed
<1>2. QED
  BY <1>1 DEF DrawnInv, generator

\* Before the generator starts nothing is drawn.
LEMMA DrawnNothing ==
    ASSUME drawn' = <<>>, seedPc' # "generate" PROVE DrawnInv'
BY DEF DrawnInv

LEMMA DrawnBegins ==
    ASSUME drawn' = <<>>, data' = [seed |-> Seed(key')], dataIndex' = DataSize
    PROVE  DrawnInv'
<1>1. Seeds' = Seeds' /\ Seeds'[0] = data'
  <2>1. PICK first : first = [seed |-> Seed(key')]
    OBVIOUS
  <2>2. Seeds' = HashesOf(first, DataSize)
    BY <2>1 DEF Seeds, Seed
  <2>3. QED
    BY <2>1, <2>2, HashesAre
<1>2. Len(drawn') = 0
  OBVIOUS
<1>3. DrawnFrom(0)'
  BY <1>1, <1>2 DEF DrawnFrom
<1>4. QED
  BY <1>2, <1>3 DEF DrawnInv

LEMMA OfTheLast ==
    ASSUME NEW n \in Nat \ {0}, NEW S, NEW p \in 1 .. DataSize, NEW x, NEW y,
           x = <<S[n], p>>, p <= y
    PROVE  \E j \in 1 .. n, q \in 1 .. DataSize : x = <<S[j], q>> /\ (j = n => q <= y)
<1>1. n \in 1 .. n
  OBVIOUS
<1>2. QED
  BY <1>1

LEMMA Draws == ASSUME DrawnInv, NEW need \in 1 .. WordBytes, Draw(need) PROVE DrawnInv'
<1>1. /\ maxSeedSize \in Nat /\ WordBytes \in Nat \ {0}
      /\ DataSize \in Nat \ {0} /\ DataSize >= WordBytes
  BY SeedAssumption DEF DataSize
<1>2. seedPc = "generate" /\ seedPc' = "generate" /\ key' = key
  BY DEF Draw
<1>3. PICK n \in 0 .. Len(drawn) : DrawnFrom(n)
  BY <1>2 DEF DrawnInv
<1>4. PICK m \in Nat : m = Len(drawn)
  BY DEF DrawnInv
<1>5. PICK S : S = Seeds
  OBVIOUS
<1>6. /\ \A i, j \in Nat : S[i] = S[j] => i = j
      /\ \A i \in Nat : S[i + 1] = Digest(DataSize, <<S[i]>>)
  BY <1>5, SeedsDiffer
<1>7. Seeds' = S
  BY <1>2, <1>5 DEF Seeds, Seed
<1>9. dataIndex \in 0 .. DataSize
  BY <1>1, <1>3 DEF DrawnFrom
<1>8. PICK start \in Nat, now \in Nat :
          /\ start = IF UsedUp(need) THEN 0 ELSE dataIndex
          /\ now = IF UsedUp(need) THEN n + 1 ELSE n
  <2>1. PICK start, now : /\ start = IF UsedUp(need) THEN 0 ELSE dataIndex
                          /\ now = IF UsedUp(need) THEN n + 1 ELSE n
    OBVIOUS
  <2>2. start \in Nat
    BY <1>1, <1>9, <2>1
  <2>3. now \in Nat
    BY <1>3, <1>4, <2>1
  <2>4. QED
    BY <2>1, <2>2, <2>3
<1>10. data' = S[now]
  BY <1>3, <1>4, <1>5, <1>6, <1>8 DEF Draw, DrawnFrom
<1>11. dataIndex' = start + need
  BY <1>8 DEF Draw
<1>12. start + need \in 1 .. DataSize
  BY <1>1, <1>8, <1>9 DEF UsedUp
<1>13. /\ Len(drawn') = m + need
       /\ drawn' = [a \in 1 .. m + need |->
                      IF a <= m THEN drawn[a] ELSE <<S[now], start + (a - m)>>]
  <2>1. PICK g : g = [i \in 1 .. need |-> <<S[now], start + i>>]
    OBVIOUS
  <2>2. drawn' = drawn \o g
    BY <1>8, <1>10, <2>1 DEF Draw
  <2>3. need \in Nat /\ g = [i \in 1 .. need |-> g[i]]
    BY <1>1, <2>1
  <2>4. drawn = [a \in 1 .. m |-> drawn[a]]
    BY <1>4 DEF DrawnInv
  <2>5. drawn' = [a \in 1 .. m + need |-> IF a <= m THEN drawn[a] ELSE g[a - m]]
    BY <2>2, <2>3, <2>4, Joined
  <2>6. \A a \in 1 .. m + need : ~(a <= m) => g[a - m] = <<S[now], start + (a - m)>>
    BY <2>1, <2>3
  <2>7. Len(drawn') = m + need
    BY <2>3, <2>5
  <2>8. QED
    BY <2>5, <2>6, <2>7
<1>14. ASSUME NEW a \in 1 .. m
       PROVE  /\ a \in 1 .. m + need /\ drawn'[a] = drawn[a]
              /\ \E j \in 1 .. now, p \in 1 .. DataSize :
                    drawn[a] = <<S[j], p>> /\ (j = now => p <= start)
  <2>1. a \in 1 .. m + need /\ drawn'[a] = drawn[a]
    BY <1>13
  <2>2. PICK j \in 1 .. n, p \in 1 .. DataSize : drawn[a] = <<S[j], p>> /\ (j = n => p <= dataIndex)
    BY <1>3, <1>4, <1>5 DEF DrawnFrom
  <2>3. j \in 1 .. now /\ (j = now => p <= start)
    BY <1>3, <1>4, <1>8, <2>2
  <2>4. QED
    BY <2>1, <2>2, <2>3
<1>15. now \in Nat \ {0}
  BY <1>1, <1>3, <1>4, <1>8 DEF UsedUp, DrawnFrom
<1>16. ASSUME NEW a \in m + 1 .. m + need
       PROVE  /\ a \in 1 .. m + need /\ drawn'[a] = <<S[now], start + (a - m)>>
              /\ start + (a - m) \in 1 .. start + need /\ start + (a - m) > start
  BY <1>13
<1>17. ASSUME NEW a \in 1 .. m + need, NEW b \in 1 .. m + need, drawn'[a] = drawn'[b]
       PROVE  a = b
  <2>1. ASSUME NEW c \in 1 .. m, NEW d \in m + 1 .. m + need, drawn'[c] = drawn'[d]
        PROVE  FALSE
    <3>1. PICK j \in 1 .. now, p \in 1 .. DataSize :
              drawn'[c] = <<S[j], p>> /\ (j = now => p <= start)
      BY <1>14
    <3>2. <<S[j], p>> = <<S[now], start + (d - m)>>
      BY <1>16, <2>1, <3>1
    <3>3. S[j] = S[now] /\ p = start + (d - m)
      BY <3>2
    <3>4. j = now
      <4>1. j \in Nat
        BY <1>8, <3>1
      <4>2. QED
        BY <1>6, <1>8, <3>3, <4>1
    <3>5. start + (d - m) > start
      BY <1>16
    <3>6. QED
      <4>1. p \in Nat /\ p <= start
        BY <1>1, <3>1, <3>4
      <4>2. PICK x : x = start + (d - m)
        OBVIOUS
      <4>3. p = x /\ x > start
        BY <3>3, <3>5, <4>2
      <4>4. QED
        BY <1>8, <4>1, <4>3
  <2>2. CASE a <= m /\ b <= m
    <3>1. drawn[a] = drawn[b] /\ a \in 1 .. Len(drawn) /\ b \in 1 .. Len(drawn)
      BY <1>4, <1>14, <1>17, <2>2
    <3>2. QED
      BY <3>1 DEF DrawnInv
  <2>3. CASE a <= m /\ b > m
    BY <1>17, <2>1, <2>3
  <2>4. CASE a > m /\ b <= m
    BY <1>17, <2>1, <2>4
  <2>5. CASE a > m /\ b > m
    <3>1. <<S[now], start + (a - m)>> = <<S[now], start + (b - m)>>
      BY <1>16, <1>17, <2>5
    <3>2. start + (a - m) = start + (b - m)
      BY <3>1
    <3>3. QED
      BY <1>8, <3>2
  <2>6. QED
    BY <1>4, <2>2, <2>3, <2>4, <2>5
<1>18. DrawnFrom(now)'
  <2>1. data' = Seeds'[now]
    BY <1>7, <1>10
  <2>2. ASSUME NEW a \in 1 .. m + need
        PROVE  \E j \in 1 .. now, p \in 1 .. DataSize :
                  drawn'[a] = <<S[j], p>> /\ (j = now => p <= start + need)
    <3>1. CASE a <= m
      <4>0. a \in 1 .. m
        BY <1>4, <3>1
      <4>1. PICK j \in 1 .. now, p \in 1 .. DataSize :
                drawn'[a] = <<S[j], p>> /\ (j = now => p <= start)
        BY <1>14, <4>0
      <4>2. j = now => p <= start + need
        BY <1>1, <1>8, <4>1
      <4>3. QED
        BY <4>1, <4>2
    <3>2. CASE a > m
      <4>1. a \in m + 1 .. m + need
        BY <1>4, <3>2
      <4>2. PICK p : p = start + (a - m)
        OBVIOUS
      <4>3. drawn'[a] = <<S[now], p>> /\ p \in 1 .. start + need
        BY <1>16, <4>1, <4>2
      <4>4. p \in 1 .. DataSize /\ p <= start + need
        BY <1>1, <1>8, <1>12, <4>3
      <4>5. QED
        BY <1>15, <4>3, <4>4, OfTheLast
    <3>3. a <= m \/ a > m
      BY <1>4
    <3>4. QED
      BY <3>1, <3>2, <3>3, Zenon
  <2>3. ASSUME NEW j \in 1 .. now - 1
        PROVE  \E a \in 1 .. m + need, p \in 1 .. DataSize :
                  drawn'[a] = <<S[j], p>> /\ p > DataSize - WordBytes
    <3>1. \E a \in 1 .. m, p \in 1 .. DataSize :
              drawn[a] = <<S[j], p>> /\ p > DataSize - WordBytes
      <4>1. CASE j \in 1 .. n - 1
        BY <1>3, <1>4, <1>5, <4>1 DEF DrawnFrom
      <4>2. CASE j = n /\ n # 0 /\ UsedUp(need)
        <5>1. dataIndex \in 1 .. DataSize /\ \E a \in 1 .. m : drawn[a] = <<S[j], dataIndex>>
          BY <1>3, <1>4, <1>5, <4>2 DEF DrawnFrom
        <5>2. dataIndex > DataSize - WordBytes
          BY <1>1, <4>2, <5>1 DEF UsedUp
        <5>3. QED
          BY <5>1, <5>2
      <4>3. QED
        BY <1>3, <1>4, <1>8, <4>1, <4>2
    <3>2. QED
      BY <1>14, <3>1
  <2>4. dataIndex' \in 1 .. DataSize /\ \E a \in 1 .. m + need : drawn'[a] = <<S[now], dataIndex'>>
    <3>1. m + need \in m + 1 .. m + need /\ (m + need) - m = need
      BY <1>4
    <3>2. drawn'[m + need] = <<S[now], start + need>> /\ m + need \in 1 .. m + need
      BY <1>16, <3>1
    <3>3. QED
      BY <1>11, <1>12, <3>2
  <2>5. now # 0
    BY <1>15
  <2>6. \A a \in 1 .. Len(drawn') :
            \E j \in 1 .. now, p \in 1 .. DataSize :
                drawn'[a] = <<Seeds'[j], p>> /\ (j = now => p <= dataIndex')
    BY <1>7, <1>11, <1>13, <2>2
  <2>7. \A j \in 1 .. now - 1 :
            \E a \in 1 .. Len(drawn'), p \in 1 .. DataSize :
                drawn'[a] = <<Seeds'[j], p>> /\ p > DataSize - WordBytes
    BY <1>7, <1>13, <2>3
  <2>8. dataIndex' \in 1 .. DataSize /\ \E a \in 1 .. Len(drawn') : drawn'[a] = <<Seeds'[now], dataIndex'>>
    BY <1>7, <1>13, <2>4
  <2>9. QED
    BY <2>1, <2>5, <2>6, <2>7, <2>8 DEF DrawnFrom
<1>19. now \in 0 .. m + need
  BY <1>1, <1>3, <1>4, <1>8
<1>20. /\ Len(drawn') \in Nat
       /\ drawn' = [a \in 1 .. Len(drawn') |-> drawn'[a]]
       /\ \A a, b \in 1 .. Len(drawn') : drawn'[a] = drawn'[b] => a = b
  <2>1. drawn' = [a \in 1 .. m + need |-> drawn'[a]]
    BY <1>13
  <2>2. m + need \in Nat
    BY <1>1
  <2>3. QED
    BY <1>13, <1>17, <2>1, <2>2
<1>21. QED
  BY <1>2, <1>13, <1>18, <1>19, <1>20 DEF DrawnInv

LEMMA DrawnInvariance == SeedSpec => []DrawnInv
<1>1. SeedInit => DrawnInv
  BY DEF SeedInit, DrawnInv
<1>2. DrawnInv /\ [SeedNext]_seedVars => DrawnInv'
  <2>1. SUFFICES ASSUME DrawnInv, [SeedNext]_seedVars PROVE DrawnInv'
    OBVIOUS
  <2>2. CASE UNCHANGED seedVars
    BY <2>1, <2>2, DrawnIdles DEF seedVars, generator
  <2>3. ASSUME NEW k \in Keys, initCache(k) PROVE DrawnInv'
    BY <2>3, DrawnNothing DEF initCache
  <2>4. ASSUME LongShort \/ LongFirst \/ LongHalf \/ LongLast PROVE DrawnInv'
    <3>1. seedPc # "generate" /\ seedPc' # "generate" /\ drawn' = drawn
      BY <2>4 DEF LongShort, LongFirst, LongHalf, LongLast, generator
    <3>2. QED
      BY <2>1, <3>1, DrawnNothing DEF DrawnInv
  <2>5. ASSUME StoreBlock PROVE DrawnInv'
    <3>1. seedPc = "store" /\ drawn' = drawn /\ key' = key
      BY <2>5 DEF StoreBlock
    <3>2. drawn' = <<>>
      BY <2>1, <3>1 DEF DrawnInv
    <3>3. CASE seedPc' = "generate"
      <4>1. data' = [seed |-> Seed(key')] /\ dataIndex' = DataSize
        BY <2>5, <3>1, <3>3 DEF StoreBlock
      <4>2. QED
        BY <3>2, <4>1, DrawnBegins
    <3>4. QED
      BY <3>2, <3>3, DrawnNothing
  <2>6. ASSUME getByte \/ getUInt32 PROVE DrawnInv'
    <3>1. 1 \in 1 .. WordBytes /\ WordBytes \in 1 .. WordBytes
      BY SeedAssumption
    <3>2. PICK need \in 1 .. WordBytes : Draw(need)
      BY <2>6, <3>1 DEF getByte, getUInt32
    <3>3. QED
      BY <2>1, <3>2, Draws
  <2>7. QED
    BY <2>1, <2>2, <2>3, <2>4, <2>5, <2>6 DEF SeedNext
<1>3. QED
  BY <1>1, <1>2, PTL DEF SeedSpec

\* For any size of the seed and of a word, and any order of bytes and words drawn:
\* no byte of the Blake2Generator is used twice, none of the key itself, and
\* checkData gives up less than a word of a digest.
THEOREM BytesAreDrawnOnce == SeedSpec => []EveryByteOnce
<1>1. DrawnInv => EveryByteOnce
  <2>1. SUFFICES ASSUME DrawnInv PROVE EveryByteOnce
    OBVIOUS
  <2>2. DOMAIN drawn = 1 .. Len(drawn) /\ \A a, b \in DOMAIN drawn : drawn[a] = drawn[b] => a = b
    BY <2>1 DEF DrawnInv
  <2>3. ASSUME NEW a \in DOMAIN drawn
        PROVE  /\ "of" \in DOMAIN drawn[a][1] /\ drawn[a][2] \in 1 .. DataSize
               /\ drawn[a][1] # data =>
                     \E b \in DOMAIN drawn :
                         drawn[b][1] = drawn[a][1] /\ drawn[b][2] > DataSize - WordBytes
    <3>1. seedPc = "generate"
      BY <2>1, <2>2, <2>3 DEF DrawnInv
    <3>2. PICK n \in 0 .. Len(drawn) : DrawnFrom(n)
      BY <2>1, <3>1 DEF DrawnInv
    <3>3. PICK j \in 1 .. n, p \in 1 .. DataSize : drawn[a] = <<Seeds[j], p>>
      <4>1. \A c \in 1 .. Len(drawn) :
                \E j \in 1 .. n, p \in 1 .. DataSize : drawn[c] = <<Seeds[j], p>>
        BY <3>2 DEF DrawnFrom
      <4>2. QED
        BY <2>2, <2>3, <4>1
    <3>4. "of" \in DOMAIN Seeds[j]
      <4>1. j - 1 \in Nat /\ (j - 1) + 1 = j
        BY <2>1, <3>2, <3>3 DEF DrawnInv
      <4>2. Seeds[j] = Digest(DataSize, <<Seeds[j - 1]>>)
        BY <4>1, SeedsDiffer
      <4>3. QED
        BY <4>2 DEF Digest
    <3>5. CASE j = n
      BY <3>2, <3>3, <3>4, <3>5 DEF DrawnFrom
    <3>6. CASE j # n
      <4>1. j \in 1 .. n - 1
        BY <2>1, <3>2, <3>3, <3>6 DEF DrawnInv
      <4>2. PICK b \in 1 .. Len(drawn), q \in 1 .. DataSize :
                drawn[b] = <<Seeds[j], q>> /\ q > DataSize - WordBytes
        BY <3>2, <4>1 DEF DrawnFrom
      <4>3. QED
        BY <2>2, <3>3, <3>4, <4>2
    <3>7. QED
      BY <3>5, <3>6
  <2>4. QED
    BY <2>2, <2>3 DEF EveryByteOnce
<1>2. QED
  BY <1>1, DrawnInvariance, PTL

=============================================================================
