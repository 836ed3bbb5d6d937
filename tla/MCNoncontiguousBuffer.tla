----------------------- MODULE MCNoncontiguousBuffer ------------------------
(* A bounded instance of NoncontiguousBuffer: a block of 3 bytes is full,   *)
(* and chunks of 4 bytes make blocks beyond the limit.                      *)
EXTENDS NoncontiguousBuffer

MCChunks == {<< >>, <<"a">>, <<"b">>, <<"a", "b">>, <<"b", "b", "a", "b">>}
=============================================================================
