----------------------------- MODULE CacheSeed -----------------------------
(***************************************************************************)
(* What initCache (dataset.cpp) does with the key before and after the     *)
(* Argon2 fill: rxa2_initial_hash hashes the parameters and the key,       *)
(* rxa2_fill_first_blocks stretches that hash to the first two blocks of   *)
(* every lane with blake2b_long, and the key seeds the Blake2Generator     *)
(* that the superscalar programs are drawn from.                           *)
(*                                                                         *)
(* A Blake2b digest is its length and the message it is of: Blake2Stream   *)
(* shows that the digest depends on nothing else, however the message is   *)
(* cut into updates.  A message is a sequence of bytes, 32-bit words and   *)
(* whole digests, a byte of a digest is the digest and its position.       *)
(***************************************************************************)
EXTENDS Integers, Sequences

CONSTANTS
    Keys,         \* keys: sequences of bytes, shorter than 2^32
    Parameters,   \* the words of the context hashed before the key
    Salt,         \* what is hashed after the key
    DigestBytes,  \* BLAKE2B_OUTBYTES, even
    BlockSizes,   \* values of ARGON2_BLOCK_SIZE
    Lanes,        \* RANDOMX_ARGON_LANES
    maxSeedSize,  \* bytes of the key the generator takes
    WordBytes,    \* bytes of a 32-bit word
    MaxDrawn,     \* bound on the bytes drawn from one generator
    NoValue

ASSUME DigestAssumption == DigestBytes \in Nat \ {0} /\ DigestBytes % 2 = 0
ASSUME BlockSizesAssumption == BlockSizes \subseteq Nat
ASSUME FirstLanesAssumption == Lanes \in Nat \ {0}
ASSUME SeedAssumption == maxSeedSize \in Nat /\ WordBytes \in Nat \ {0}

\* sizeof(data), at most DigestBytes
DataSize == maxSeedSize + WordBytes

HalfOut == DigestBytes \div 2

VARIABLES
    blockSize,
    key,
    firstBlocks,                 \* the first two blocks of every lane
    blockhash,                   \* H0, number of the block, number of the lane
    toproduce, out_buffer, long, \* output of blake2b_long
    seedPc,                      \* "new", "stretch", "chain", "store", "generate"
    data, dataIndex,             \* Blake2Generator
    drawn                        \* ghost: the bytes drawn from this generator

longVars == <<toproduce, out_buffer, long>>
generator == <<data, dataIndex, drawn>>
seedVars == <<blockSize, key, firstBlocks, blockhash, longVars, seedPc, generator>>

-----------------------------------------------------------------------------

Digest(n, message) == [size |-> n, of |-> message]
BytesOf(string, n) == [i \in 1 .. n |-> <<string, i>>]

\* rxa2_initial_hash: the key behind its length; secret and ad are missing, of
\* length 0.
InitialHash(k) ==
    Digest(DigestBytes, Parameters \o <<Len(k)>> \o k \o <<Len(Salt)>> \o Salt \o <<0, 0>>)

SeedInit ==
    /\ blockSize \in BlockSizes
    /\ key = NoValue
    /\ firstBlocks = [l \in 0 .. Lanes - 1 |-> [i \in 0 .. 1 |-> NoValue]]
    /\ blockhash = NoValue
    /\ toproduce = 0
    /\ out_buffer = NoValue
    /\ long = <<>>
    /\ seedPc = "new"
    /\ data = NoValue
    /\ dataIndex = 0
    /\ drawn = <<>>

\* randomx_argon2_initialize up to the first call of blake2b_long.  A cache may
\* be initialised again.
initCache(k) ==
    /\ seedPc \in {"new", "generate"}
    /\ key' = k
    /\ blockhash' = <<InitialHash(k), 0, 0>>
    /\ seedPc' = "stretch"
    /\ data' = NoValue /\ dataIndex' = 0 /\ drawn' = <<>>
    /\ UNCHANGED <<blockSize, firstBlocks, longVars>>

\* blake2b_long for an output one digest holds.
LongShort ==
    /\ seedPc = "stretch"
    /\ blockSize <= DigestBytes
    /\ long' = BytesOf(Digest(blockSize, <<blockSize>> \o blockhash), blockSize)
    /\ seedPc' = "store"
    /\ UNCHANGED <<blockSize, key, firstBlocks, blockhash, toproduce, out_buffer, generator>>

\* Half of every digest goes out, the whole digest into the next one.
LongFirst ==
    /\ seedPc = "stretch"
    /\ blockSize > DigestBytes
    /\ out_buffer' = Digest(DigestBytes, <<blockSize>> \o blockhash)
    /\ long' = BytesOf(out_buffer', HalfOut)
    /\ toproduce' = blockSize - HalfOut
    /\ seedPc' = "chain"
    /\ UNCHANGED <<blockSize, key, firstBlocks, blockhash, generator>>

\* Mutant: another half is put out when a whole digest would end the output.
MoreToProduceEqual == toproduce >= DigestBytes

\* while (toproduce > BLAKE2B_OUTBYTES)
MoreToProduce == toproduce > DigestBytes

LongHalf ==
    /\ seedPc = "chain"
    /\ MoreToProduce
    /\ out_buffer' = Digest(DigestBytes, <<out_buffer>>)
    /\ long' = long \o BytesOf(out_buffer', HalfOut)
    /\ toproduce' = toproduce - HalfOut
    /\ UNCHANGED <<blockSize, key, firstBlocks, blockhash, seedPc, generator>>

\* The last digest is as long as what is missing.
LongLast ==
    /\ seedPc = "chain"
    /\ ~MoreToProduce
    /\ out_buffer' = Digest(toproduce, <<out_buffer>>)
    /\ long' = long \o BytesOf(out_buffer', toproduce)
    /\ seedPc' = "store"
    /\ UNCHANGED <<blockSize, key, firstBlocks, blockhash, toproduce, generator>>

\* Blake2Generator::Blake2Generator: the key, cut off or with zeros behind it,
\* and the nonce 0; all of it counts as used.
Seed(k) ==
    [i \in 1 .. DataSize |-> IF i <= Len(k) /\ i <= maxSeedSize THEN k[i] ELSE 0]

\* load_block, and on to the next block, the next lane or the generator.
StoreBlock ==
    LET index == blockhash[2]
        lane == blockhash[3]
        finished == index = 1 /\ lane = Lanes - 1
    IN  /\ seedPc = "store"
        /\ firstBlocks' = [firstBlocks EXCEPT ![lane][index] = long]
        /\ blockhash' = [blockhash EXCEPT ![2] = (index + 1) % 2, ![3] = lane + index]
        /\ seedPc' = IF finished THEN "generate" ELSE "stretch"
        /\ data' = IF finished THEN [seed |-> Seed(key)] ELSE data
        /\ dataIndex' = IF finished THEN DataSize ELSE dataIndex
        /\ UNCHANGED <<blockSize, key, longVars, drawn>>

\* Mutant: a word is taken although not all of it is left.
UsedUpBytes(bytesNeeded) == dataIndex + 1 > DataSize

\* checkData: data is hashed in its place when too little is left.
UsedUp(bytesNeeded) == dataIndex + bytesNeeded > DataSize

Draw(bytesNeeded) ==
    /\ seedPc = "generate"
    /\ Len(drawn) + bytesNeeded <= MaxDrawn
    /\ data' = IF UsedUp(bytesNeeded) THEN Digest(DataSize, <<data>>) ELSE data
    /\ LET start == IF UsedUp(bytesNeeded) THEN 0 ELSE dataIndex
       IN  /\ dataIndex' = start + bytesNeeded
           /\ drawn' = drawn \o [i \in 1 .. bytesNeeded |-> <<data', start + i>>]
    /\ UNCHANGED <<blockSize, key, firstBlocks, blockhash, longVars, seedPc>>

getByte == Draw(1)
getUInt32 == Draw(WordBytes)

SeedNext ==
    \/ \E k \in Keys : initCache(k)
    \/ LongShort \/ LongFirst \/ LongHalf \/ LongLast \/ StoreBlock
    \/ getByte \/ getUInt32

SeedSpec == SeedInit /\ [][SeedNext]_seedVars

-----------------------------------------------------------------------------
(* Properties                                                              *)

\* A value, its digest, the digest of that, and so on.
HashesOf(first, size) ==
    LET hash[i \in Nat] == IF i = 0 THEN first ELSE Digest(size, <<hash[i - 1]>>)
    IN  hash

\* The variable-length hash of Argon2 (RFC 9106, 3.3): r chained digests of which
\* half is used, and one of the bytes that are left.
Links(size, message) == HashesOf(Digest(DigestBytes, <<size>> \o message), DigestBytes)

HalvesOf(size, message, r) ==
    [n \in 1 .. HalfOut * r |->
        <<Links(size, message)[(n - 1) \div HalfOut], ((n - 1) % HalfOut) + 1>>]

Stretched(size, message) ==
    LET r == (size + HalfOut - 1) \div HalfOut - 2
        left == size - HalfOut * r
    IN  IF size <= DigestBytes
        THEN BytesOf(Digest(size, <<size>> \o message), size)
        ELSE HalvesOf(size, message, r)
             \o BytesOf(Digest(left, <<Links(size, message)[r - 1]>>), left)

\* When the fill starts, every lane's first two blocks are Argon2's for this key and
\* this place, also in a cache that held another key's, and the generator has
\* nothing left of the key before.
FirstBlocksAreArgon2s ==
    seedPc = "generate" =>
        \A l \in 0 .. Lanes - 1, i \in 0 .. 1 :
            firstBlocks[l][i] = Stretched(blockSize, <<InitialHash(key), i, l>>)

\* However single bytes and words are drawn, no byte is drawn twice, none is the
\* key's own, all come from the 64 bytes of a digest, and a digest is given up only
\* when less than a word of it is left (specs.md 3.5).
EveryByteOnce ==
    /\ \A a, b \in DOMAIN drawn : drawn[a] = drawn[b] => a = b
    /\ \A a \in DOMAIN drawn : "of" \in DOMAIN drawn[a][1] /\ drawn[a][2] \in 1 .. DataSize
    /\ \A a \in DOMAIN drawn :
           drawn[a][1] # data =>
               \E b \in DOMAIN drawn :
                   drawn[b][1] = drawn[a][1] /\ drawn[b][2] > DataSize - WordBytes

-----------------------------------------------------------------------------
(* What makes the properties inductive.                                    *)

\* While the digests are chained: k halves are out and more than one is missing.
Chained(k) ==
    /\ out_buffer = Links(blockSize, blockhash)[k - 1]
    /\ toproduce = blockSize - HalfOut * k
    /\ toproduce > HalfOut
    /\ long = HalvesOf(blockSize, blockhash, k)

\* The blocks are stored lane by lane, those before the one at hand for this key.
Stored(l, i) == firstBlocks[l][i] = Stretched(blockSize, <<InitialHash(key), i, l>>)

AtBlock(index, lane) ==
    /\ blockhash = <<InitialHash(key), index, lane>>
    /\ \A l \in 0 .. Lanes - 1, i \in 0 .. 1 :
          l < lane \/ (l = lane /\ i < index) => Stored(l, i)

StretchInv ==
    /\ blockSize \in BlockSizes
    /\ firstBlocks = [l \in 0 .. Lanes - 1 |-> [i \in 0 .. 1 |-> firstBlocks[l][i]]]
    /\ seedPc \in {"stretch", "chain", "store"} =>
           \E index \in 0 .. 1, lane \in 0 .. Lanes - 1 : AtBlock(index, lane)
    /\ seedPc = "generate" => AtBlock(0, Lanes)
    /\ seedPc = "chain" => blockSize > DigestBytes /\ \E k \in 1 .. blockSize : Chained(k)
    /\ seedPc = "store" => long = Stretched(blockSize, blockhash)

\* The generator's data is the n-th digest of the seed.  The bytes drawn are those
\* of the digests so far, the last one's up to dataIndex, and of every earlier one
\* a byte of its last word.
Seeds == HashesOf([seed |-> Seed(key)], DataSize)

DrawnFrom(n) ==
    /\ data = Seeds[n]
    /\ \A a \in 1 .. Len(drawn) :
          \E j \in 1 .. n, p \in 1 .. DataSize :
              drawn[a] = <<Seeds[j], p>> /\ (j = n => p <= dataIndex)
    /\ \A j \in 1 .. n - 1 :
          \E a \in 1 .. Len(drawn), p \in 1 .. DataSize :
              drawn[a] = <<Seeds[j], p>> /\ p > DataSize - WordBytes
    /\ IF n = 0 THEN dataIndex = DataSize
       ELSE /\ dataIndex \in 1 .. DataSize
            /\ \E a \in 1 .. Len(drawn) : drawn[a] = <<Seeds[n], dataIndex>>

DrawnInv ==
    /\ Len(drawn) \in Nat
    /\ drawn = [a \in 1 .. Len(drawn) |-> drawn[a]]
    /\ \A a, b \in 1 .. Len(drawn) : drawn[a] = drawn[b] => a = b
    /\ seedPc # "generate" => drawn = <<>>
    /\ seedPc = "generate" => \E n \in 0 .. Len(drawn) : DrawnFrom(n)
=============================================================================
