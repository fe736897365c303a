---------------------------- MODULE Blake2Stream ----------------------------
(***************************************************************************)
(* Streaming Blake2b (blake2/blake2b.c): blake2b_update cuts the message   *)
(* into blocks and keeps back what could be the last one, blake2b_final    *)
(* pads and compresses it.                                                 *)
(*                                                                         *)
(* The bytes of a message are numbered from 1, 0 is a zero byte, so that   *)
(* what a block holds tells which bytes went where.  The chaining value h  *)
(* is the list of what was compressed: the compression function is taken   *)
(* to depend on all of its inputs, and on nothing else.  A length is any   *)
(* natural number below Word^2; t is kept in two words.                    *)
(***************************************************************************)
EXTENDS Integers, Sequences

CONSTANTS
    BlockBytes,  \* BLAKE2B_BLOCKBYTES
    Word,        \* values of one word of the counter (2^64)
    OutBytes,    \* BLAKE2B_OUTBYTES
    MaxLength,   \* bound on the length of a message
    NoDigest     \* no digest

ASSUME BlockAssumption == BlockBytes \in Nat \ {0}
ASSUME WordAssumption == Word \in Nat /\ Word > BlockBytes /\ MaxLength < Word * Word
ASSUME OutAssumption == OutBytes \in Nat \ {0}
ASSUME LengthAssumption == MaxLength \in Nat

VARIABLES
    h, t, f0, buf, buflen, outlen,  \* blake2b_state
    pin, inlen,                     \* the update that is under way
    streamPc,                       \* "idle" or "update"
    ret,                            \* what the last call returned
    out,                            \* what blake2b_final has written
    total                           \* ghost: length of the message so far

streamState == <<h, t, f0, buf, buflen, outlen>>
streamVars == <<h, t, f0, buf, buflen, outlen, pin, inlen, streamPc, ret, out, total>>

Cells == 0 .. BlockBytes - 1

-----------------------------------------------------------------------------

\* blake2b_increment_counter
Incremented(c, inc) ==
    LET low == (c[1] + inc) % Word
    IN  <<low, (c[2] + (IF low < inc THEN 1 ELSE 0)) % Word>>

\* blake2b_compress
Compressed(chain, block, counter, last) ==
    Append(chain, [block |-> block, t |-> counter, last |-> last])

\* memcpy(&S->buf[at], from, n)
Copied(at, from, n) ==
    [k \in Cells |-> IF at <= k /\ k < at + n THEN from + (k - at) ELSE buf[k]]

\* blake2b_init with a length it accepts.
StreamInit ==
    /\ outlen \in 1 .. OutBytes
    /\ h = <<>>
    /\ t = <<0, 0>>
    /\ f0 = FALSE
    /\ buf = [k \in Cells |-> 0]
    /\ buflen = 0
    /\ pin = 1
    /\ inlen = 0
    /\ streamPc = "idle"
    /\ ret = 0
    /\ out = NoDigest
    /\ total = 0

\* Mutant: a block is compressed as soon as it is full.
OverflowsFull(n) == buflen + n >= BlockBytes

\* Something comes after the block that is being collected.
Overflows(n) == buflen + n > BlockBytes

\* blake2b_update, up to its loop: nothing to do, a reused state, a block that
\* is completed, or only bytes to keep.
UpdateNothing ==
    /\ streamPc = "idle"
    /\ ret' = 0
    /\ UNCHANGED <<streamState, pin, inlen, streamPc, out, total>>

UpdateReused(n) ==
    /\ streamPc = "idle"
    /\ n # 0
    /\ f0
    /\ ret' = -1
    /\ UNCHANGED <<streamState, pin, inlen, streamPc, out, total>>

Update(n) ==
    /\ streamPc = "idle"
    /\ n # 0
    /\ ~f0
    /\ IF Overflows(n)
       THEN LET fill == BlockBytes - buflen
            IN  /\ buf' = Copied(buflen, total + 1, fill)
                /\ t' = Incremented(t, BlockBytes)
                /\ h' = Compressed(h, buf', t', FALSE)
                /\ buflen' = 0
                /\ inlen' = n - fill
                /\ pin' = total + 1 + fill
       ELSE /\ inlen' = n
            /\ pin' = total + 1
            /\ UNCHANGED <<h, t, buf, buflen>>
    /\ total' = total + n
    /\ streamPc' = "update"
    /\ UNCHANGED <<f0, outlen, ret, out>>

\* while (inlen > BLAKE2B_BLOCKBYTES)
MoreThanOne == inlen > BlockBytes

\* A block is compressed where it lies in the input.
UpdateBlock ==
    /\ streamPc = "update"
    /\ MoreThanOne
    /\ t' = Incremented(t, BlockBytes)
    /\ h' = Compressed(h, [k \in Cells |-> pin + k], t', FALSE)
    /\ inlen' = inlen - BlockBytes
    /\ pin' = pin + BlockBytes
    /\ UNCHANGED <<f0, buf, buflen, outlen, streamPc, ret, out, total>>

\* The rest is kept.
UpdateKeep ==
    /\ streamPc = "update"
    /\ ~MoreThanOne
    /\ buf' = Copied(buflen, pin, inlen)
    /\ buflen' = buflen + inlen
    /\ ret' = 0
    /\ streamPc' = "idle"
    /\ UNCHANGED <<h, t, f0, outlen, pin, inlen, out, total>>

\* memset(&S->buf[S->buflen], 0, ...)
Padded == [k \in Cells |-> IF k < buflen THEN buf[k] ELSE 0]

\* The sanity checks of blake2b_final.
Refuses(n) == n < outlen \/ f0

FinalRefused(n) ==
    /\ streamPc = "idle"
    /\ Refuses(n)
    /\ ret' = -1
    /\ UNCHANGED <<streamState, pin, inlen, streamPc, out, total>>

Final(n) ==
    /\ streamPc = "idle"
    /\ ~Refuses(n)
    /\ t' = Incremented(t, buflen)
    /\ f0' = TRUE
    /\ buf' = Padded
    /\ h' = Compressed(h, buf', t', TRUE)
    /\ out' = h'
    /\ ret' = 0
    /\ UNCHANGED <<buflen, outlen, pin, inlen, streamPc, total>>

StreamNext ==
    \/ UpdateNothing
    \/ \E n \in 1 .. MaxLength - total : Update(n) \/ UpdateReused(n)
    \/ UpdateBlock
    \/ UpdateKeep
    \/ \E n \in 1 .. OutBytes : Final(n) \/ FinalRefused(n)

StreamSpec == StreamInit /\ [][StreamNext]_streamVars

-----------------------------------------------------------------------------
(* Properties                                                              *)

\* What RFC 7693 compresses for a message of n bytes: whole blocks, then the last
\* one with zeros behind it; the last block is empty only if the message is.
BlockCount(n) == IF n = 0 THEN 1 ELSE (n + BlockBytes - 1) \div BlockBytes

Entry(n, i) ==
    LET last == i = BlockCount(n)
        upto == IF last THEN n ELSE i * BlockBytes
    IN  [block |-> [k \in Cells |->
                      LET byte == (i - 1) * BlockBytes + k + 1
                      IN  IF byte <= n THEN byte ELSE 0],
         t |-> <<upto % Word, upto \div Word>>,
         last |-> last]

Blake2b(n) == [i \in 1 .. BlockCount(n) |-> Entry(n, i)]

\* However a message is cut into calls of blake2b_update, blake2b_final writes the
\* hash of the message.
DigestIsHash == out # NoDigest => out = Blake2b(total)
=============================================================================
