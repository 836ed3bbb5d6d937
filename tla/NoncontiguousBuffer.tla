------------------------ MODULE NoncontiguousBuffer -------------------------
(***************************************************************************)
(* NoncontiguousBuffer (src/src/codec/noncontiguous_buffer.cc): the bytes  *)
(* of a frame in a deque of blocks, each read from its own offset on.  The *)
(* codecs append to it when they encode, peek at any offset when they      *)
(* decode and skip what they have decoded.                                 *)
(***************************************************************************)
EXTENDS Naturals, SequencesExt

CONSTANTS Chunks,       \* byte sequences callers append, the empty one included
          Lengths,      \* lengths and offsets callers pass
          BlockLimit,   \* a block of this many bytes is not extended: 4096
          MaxReadable   \* bound: bytes in the buffer

Bytes == UNION {Range(data) : data \in Chunks}

ASSUME BlockLimitAssumption == BlockLimit \in Nat \ {0}
ASSUME CallersAssumption == Chunks \subseteq Seq(Bytes) /\ Lengths \subseteq Nat

VARIABLES blocks,    \* blocks_: sequence of [data, offset]
          readable   \* readable_

bufferVars == <<blocks, readable>>

Block == [data : Seq(Bytes), offset : Nat]

BufferInit == blocks = << >> /\ readable = 0

(***************************************************************************)
(* The unread bytes of a block.                                            *)
(***************************************************************************)
BlockSize(b) == Len(b.data) - b.offset

-----------------------------------------------------------------------------
(***************************************************************************)
(* Append: the last block grows in place while nothing of it was skipped   *)
(* and it is short; otherwise a new block follows it.                      *)
(***************************************************************************)
Extends == blocks # << >> /\ Last(blocks).offset = 0 /\ Len(Last(blocks).data) < BlockLimit

\* Wrong: the bytes are copied to the front of the block that is extended.
AppendInFront(data) ==
  /\ readable' = readable + Len(data)
  /\ blocks' = IF data = << >> THEN blocks
               ELSE IF Extends THEN [blocks EXCEPT ![Len(blocks)].data = data \o @]
               ELSE Append(blocks, [data |-> data, offset |-> 0])

AppendBytes(data) ==
  /\ readable' = readable + Len(data)
  /\ blocks' = IF data = << >> THEN blocks
               ELSE IF Extends THEN [blocks EXCEPT ![Len(blocks)].data = @ \o data]
               ELSE Append(blocks, [data |-> data, offset |-> 0])

(***************************************************************************)
(* Skip: whole blocks are popped off the front while len lasts, the block  *)
(* it ends in moves its offset.                                            *)
(***************************************************************************)
\* Wrong: a block that is used up exactly stays.
SkipInBlockKeepsEmpty(acc, b) ==
  IF acc.len > BlockSize(b)
  THEN [acc EXCEPT !.len = @ - BlockSize(b)]
  ELSE [len |-> 0, kept |-> Append(acc.kept, [b EXCEPT !.offset = @ + acc.len])]
SkipInBlock(acc, b) ==
  IF acc.len > 0 /\ acc.len >= BlockSize(b)
  THEN [acc EXCEPT !.len = @ - BlockSize(b)]
  ELSE [len |-> 0, kept |-> Append(acc.kept, [b EXCEPT !.offset = @ + acc.len])]

SkipBlocks(len) ==
  LET after[i \in 0 .. Len(blocks)] ==
        IF i = 0 THEN [len |-> len, kept |-> << >>] ELSE SkipInBlock(after[i - 1], blocks[i])
  IN  after[Len(blocks)].kept

Skip(len) ==
  IF len >= readable
  THEN blocks' = << >> /\ readable' = 0
  ELSE /\ readable' = readable - len
       /\ blocks' = SkipBlocks(len)

(***************************************************************************)
(* Peek: the bytes copied to the caller, gathered block by block; once     *)
(* to_read of them are there the remaining blocks add nothing.             *)
(***************************************************************************)
\* Wrong: the bytes of a block already skipped are read again.
PeekInBlockFromStart(acc, b) ==
  LET from_block == IF acc.left < BlockSize(b) - acc.skip THEN acc.left
                    ELSE BlockSize(b) - acc.skip
  IN  IF acc.skip >= BlockSize(b)
      THEN [acc EXCEPT !.skip = @ - BlockSize(b)]
      ELSE [copied |-> acc.copied \o SubSeq(b.data, acc.skip + 1, acc.skip + from_block),
            left |-> acc.left - from_block, skip |-> 0]

PeekInBlock(acc, b) ==
  LET from_block == IF acc.left < BlockSize(b) - acc.skip THEN acc.left
                    ELSE BlockSize(b) - acc.skip
      start      == b.offset + acc.skip
  IN  IF acc.skip >= BlockSize(b)
      THEN [acc EXCEPT !.skip = @ - BlockSize(b)]
      ELSE [copied |-> acc.copied \o SubSeq(b.data, start + 1, start + from_block),
            left |-> acc.left - from_block, skip |-> 0]

PeekBlocks(to_read, offset) ==
  LET after[i \in 0 .. Len(blocks)] ==
        IF i = 0 THEN [copied |-> << >>, left |-> to_read, skip |-> offset]
        ELSE PeekInBlock(after[i - 1], blocks[i])
  IN  after[Len(blocks)].copied

Peek(len, offset) ==
  IF offset >= readable THEN << >>
  ELSE PeekBlocks(IF len < readable - offset THEN len ELSE readable - offset, offset)

AsString == Peek(readable, 0)

BufferNext ==
  \/ \E data \in Chunks : readable + Len(data) <= MaxReadable /\ AppendBytes(data)
  \/ \E len \in Lengths : Skip(len)

BufferSpec == BufferInit /\ [][BufferNext]_bufferVars

-----------------------------------------------------------------------------
(***************************************************************************)
(* The bytes that have been appended and not yet skipped.                  *)
(***************************************************************************)
Unread(b) == SubSeq(b.data, b.offset + 1, Len(b.data))

Joined(bs) == FlattenSeq([i \in 1 .. Len(bs) |-> Unread(bs[i])])

Contents == Joined(blocks)

(***************************************************************************)
(* Every block holds an unread byte (Skip pops what it has used up), and   *)
(* readable_ stays in step with the blocks over Append and both branches   *)
(* of Skip: it is unsigned, and Peek and ToString trust it.                *)
(***************************************************************************)
BufferTypeOK ==
  /\ blocks \in Seq(Block)
  /\ \A i \in 1 .. Len(blocks) : blocks[i].offset < Len(blocks[i].data)
  /\ readable = Len(Contents)

(***************************************************************************)
(* Peek returns the window [offset, offset + len) of the unread bytes, cut *)
(* at their end, wherever block boundaries fall; ToString returns them     *)
(* all.                                                                    *)
(***************************************************************************)
PeekIsWindow ==
  /\ \A len, offset \in Lengths :
       Peek(len, offset) = SubSeq(Contents, offset + 1,
                             IF offset + len < Len(Contents) THEN offset + len ELSE Len(Contents))
  /\ AsString = Contents

Queue == INSTANCE ByteQueue WITH contents <- Contents

(***************************************************************************)
(* The deque of blocks behaves as one queue of bytes: appending, extending *)
(* in place, skipping inside a block and over several blocks change its    *)
(* contents as a plain queue would.                                        *)
(***************************************************************************)
ImplementsQueue == Queue!Spec
=============================================================================
