----------------------------- MODULE MCLoadTest -----------------------------
(* A bounded instance of LoadTest: two workers of two calls.  With one      *)
(* worker a stage may be recorded only once.                                *)
EXTENDS LoadTest

Setup(p, workers, timed) == [program |-> p, workers |-> workers, timed |-> timed]

MCSetups ==
  {Setup(p, Threads, << >>) : p \in {"client", "bench_client", "qps_benchmark"}}
  \cup {Setup("benchmark_stats", Threads, <<"NET_IO">>)}
  \cup {Setup(p, {"w1"}, <<"NET_IO">>) : p \in {"client", "bench_client"}}

\* Two durations that lose a nanosecond or a bucket to rounding, one below
\* zero and one beyond the last bucket.
MCDurations == {-1200, 251, 300000, 450000}
MCLatencies == {[w \in Threads |-> IF w = "w1" THEN <<300000, 450000>> ELSE <<251, -1200>>]}
=============================================================================
