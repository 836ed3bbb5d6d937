---------------------------- MODULE MCDiscovery -----------------------------
(* Bounded instances of Discovery.                                          *)
EXTENDS Discovery

MCThreads   == Callers \cup {"w1", "w2"}
MCWatcherOf == [c \in Callers |-> IF c = "c1" THEN "w1" ELSE "w2"]
=============================================================================
