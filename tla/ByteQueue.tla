----------------------------- MODULE ByteQueue ------------------------------
(***************************************************************************)
(* What NoncontiguousBuffer promises: a queue of bytes that grows at one   *)
(* end and is consumed at the other, whatever blocks hold them.            *)
(***************************************************************************)
EXTENDS Naturals, Sequences

CONSTANTS Chunks,    \* byte sequences that may be appended
          Lengths    \* numbers of bytes that may be skipped

VARIABLE contents

Init == contents = << >>

Put(data) == contents' = contents \o data

Skip(len) == contents' = SubSeq(contents, len + 1, Len(contents))

Next == \/ \E data \in Chunks : Put(data)
        \/ \E len \in Lengths : Skip(len)

Spec == Init /\ [][Next]_contents
=============================================================================
