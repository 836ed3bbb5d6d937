------------------------------ MODULE LoadTest ------------------------------
(***************************************************************************)
(* The programs that load an RPC service and report on it: workers that    *)
(* call and count outcomes, a monitor thread that samples the counters     *)
(* while they run, and main, which joins them and prints the totals and    *)
(* RuntimeStats' report.                                                   *)
(*                                                                         *)
(*   "client"           src/example/caller/client.cc                       *)
(*   "bench_client"     src/example/caller/bench_client.cc                 *)
(*   "qps_benchmark"    src/tools/qps_benchmark.cc, on simulated calls     *)
(*   "benchmark_stats"  src/tools/benchmark_stats.cc, on simulated calls   *)
(*                      and without a monitor                              *)
(*                                                                         *)
(* A call is its outcome, the stages its timers record and its duration;   *)
(* that it returns is RpcSystem's matter.                                  *)
(***************************************************************************)
EXTENDS RuntimeStats, SequencesExt

CONSTANTS Setups,      \* what is run: [program, workers, timed], the workers it starts
                       \* and the stages besides TOTAL that a call records
          Calls,       \* calls per worker
          Latencies,   \* the call durations of a run: functions [Threads -> [1 .. Calls -> Durations]]
          Segments     \* how many segments the final analysis forms: 5

ASSUME CallsAssumption == Calls \in Nat
ASSUME SegmentsAssumption == Segments \in Nat \ {0}
ASSUME SetupsAssumption ==
  \A s \in Setups : /\ s.program \in {"client", "bench_client", "qps_benchmark", "benchmark_stats"}
                    /\ s.workers \subseteq Threads
                    /\ s.timed \in Seq(Stages \ {"TOTAL"})
ASSUME StepsAssumption == {"count", "latency"} \cap Stages = {}
ASSUME LatenciesAssumption == Latencies \subseteq [Threads -> [1 .. Calls -> Durations]]

VARIABLES setup, latency,     \* what is run, and its calls' durations
          todo,        \* per worker: what its current call has still to do
          left,        \* per worker: calls not yet begun
          outcome,     \* per worker: how its last call ended
          failed,      \* per worker: Controller::m_failed
          really,      \* calls that succeeded (history)
          success, fail, totalLatency,   \* the shared counters
          monPc, prevSuccess, prevFail, curSuccess,   \* the monitor
          history,     \* calls per sampled interval
          running,     \* the flag main clears
          mainPc,      \* "workers", "monitor" (main joins them), "reported"
          report       \* what was printed

setupVars   == <<setup, latency>>
workerVars  == <<todo, left, outcome, failed, really>>
counterVars == <<success, fail, totalLatency>>
monitorVars == <<monPc, prevSuccess, prevFail, curSuccess, history>>
mainVars    == <<running, mainPc, report>>
loadVars    == <<setupVars, workerVars, counterVars, monitorVars, mainVars>>

vars == <<statVars, loadVars>>

program == setup.program

(***************************************************************************)
(* How a call can end: an RPC may also answer with an error code, a        *)
(* simulated call is declared failed or, in benchmark_stats, never fails.  *)
(***************************************************************************)
Outcomes == CASE program = "benchmark_stats" -> {"ok"}
              [] program = "qps_benchmark"   -> {"ok", "failed"}
              [] OTHER                       -> {"ok", "errcode", "failed"}

LoadInit ==
  /\ setup   \in Setups
  /\ latency \in Latencies
  /\ todo    = [w \in Threads |-> << >>]
  /\ left    = [w \in Threads |-> IF w \in setup.workers THEN Calls ELSE 0]
  /\ outcome = [w \in Threads |-> "ok"]
  /\ failed  = [w \in Threads |-> FALSE]
  /\ success = 0 /\ fail = 0 /\ totalLatency = 0
  /\ running = TRUE
  /\ monPc   = IF program = "benchmark_stats" THEN "done" ELSE "check"
  /\ prevSuccess = 0 /\ prevFail = 0 /\ curSuccess = 0
  /\ history = << >>
  /\ mainPc  = "workers"
  /\ report  = << >>
  /\ really  = 0

Init == StatInit /\ LoadInit

-----------------------------------------------------------------------------
(***************************************************************************)
(* What a call does, in order.  CallMethod records its stages and, last,   *)
(* TOTAL, then the worker counts; benchmark_stats counts before the timer  *)
(* of TOTAL goes out of scope; qps_benchmark times nothing and adds up the *)
(* latency of successful calls.  A failed CallMethod may have left before  *)
(* the later stages.                                                       *)
(***************************************************************************)
Work(o) ==
  CASE program = "qps_benchmark"   -> IF o = "ok" THEN {<<"count", "latency">>} ELSE {<<"count">>}
    [] program = "benchmark_stats" -> {setup.timed \o <<"count", "TOTAL">>}
    [] OTHER -> {SubSeq(setup.timed, 1, n) \o <<"TOTAL", "count">> :
                   n \in IF o = "failed" THEN 0 .. Len(setup.timed) ELSE {Len(setup.timed)}}

MoreCalls(w) == left[w] > 0

NextCall(w) ==
  /\ todo[w] = << >> /\ recPc[w] = "idle" /\ MoreCalls(w)
  /\ \E o \in Outcomes :
       /\ outcome' = [outcome EXCEPT ![w] = o]
       /\ failed'  = [failed EXCEPT ![w] = @ \/ o = "failed"]
       /\ really'  = IF o = "ok" THEN really + 1 ELSE really
       /\ \E work \in Work(o) : todo' = [todo EXCEPT ![w] = work]
  /\ left' = [left EXCEPT ![w] = @ - 1]
  /\ UNCHANGED <<statVars, setupVars, counterVars, monitorVars, mainVars>>

Duration(w) == latency[w][Calls - left[w]]

(***************************************************************************)
(* A timer of the call goes out of scope.                                  *)
(***************************************************************************)
StopTimer(w) ==
  /\ todo[w] # << >> /\ Head(todo[w]) \in Stages
  /\ Record(w, Head(todo[w]), Duration(w))
  /\ todo' = [todo EXCEPT ![w] = Tail(@)]
  /\ UNCHANGED <<setupVars, counterVars, monitorVars, mainVars, left, outcome, failed,
                 really>>

Recording(w) == RecordStep(w) /\ UNCHANGED loadVars

(***************************************************************************)
(* The worker counts the call.  The two clients look at a Controller that  *)
(* lives as long as the worker; only bench_client resets it.               *)
(***************************************************************************)
Succeeded(w) ==
  CASE program = "benchmark_stats" -> TRUE
    [] program = "qps_benchmark"   -> outcome[w] = "ok"
    [] OTHER -> ~failed[w] /\ outcome[w] = "ok"

\* Wrong: the controller is not reset.
ResetNever(w) == failed[w]

ResetFailed(w) == failed[w] /\ program # "bench_client"

CountCall(w) ==
  /\ todo[w] # << >> /\ Head(todo[w]) = "count" /\ recPc[w] = "idle"
  /\ success' = IF Succeeded(w) THEN success + 1 ELSE success
  /\ fail'    = IF Succeeded(w) THEN fail ELSE fail + 1
  /\ failed'  = [failed EXCEPT ![w] = ResetFailed(w)]
  /\ todo'    = [todo EXCEPT ![w] = Tail(@)]
  /\ UNCHANGED <<statVars, setupVars, monitorVars, mainVars, left, outcome,
                 totalLatency, really>>

AddLatency(w) ==
  /\ todo[w] # << >> /\ Head(todo[w]) = "latency"
  /\ totalLatency' = totalLatency + Duration(w)
  /\ todo' = [todo EXCEPT ![w] = Tail(@)]
  /\ UNCHANGED <<statVars, setupVars, monitorVars, mainVars, left, outcome, failed,
                 success, fail, really>>

Worker(w) == NextCall(w) \/ StopTimer(w) \/ Recording(w) \/ CountCall(w) \/ AddLatency(w)

-----------------------------------------------------------------------------
(***************************************************************************)
(* The monitor: while (running), sleep, load the two counters one after    *)
(* the other, keep the difference to the last sample.  qps_benchmark looks *)
(* at the flag again when it wakes up; an interval too short to divide by  *)
(* is not sampled.                                                         *)
(***************************************************************************)
MonitorCheck ==
  /\ monPc = "check"
  /\ monPc' = IF running THEN "sleep" ELSE "done"
  /\ UNCHANGED <<statVars, setupVars, workerVars, counterVars, mainVars, prevSuccess,
                 prevFail, curSuccess, history>>

MonitorWake ==
  /\ monPc = "sleep"
  /\ \/ /\ program = "qps_benchmark" /\ ~running
        /\ monPc' = "done" /\ UNCHANGED curSuccess
     \/ /\ program # "client"
        /\ monPc' = "check" /\ UNCHANGED curSuccess
     \/ /\ program = "qps_benchmark" => running
        /\ monPc' = "fail" /\ curSuccess' = success
  /\ UNCHANGED <<statVars, setupVars, workerVars, counterVars, mainVars, prevSuccess,
                 prevFail, history>>

\* Wrong: the previous sample is not kept.
MonitorSampleForgets ==
  /\ monPc = "fail"
  /\ LET calls == (curSuccess - prevSuccess) + (fail - prevFail)
     IN  history' = IF calls > 0 THEN Append(history, calls) ELSE history
  /\ monPc' = "check"
  /\ UNCHANGED <<statVars, setupVars, workerVars, counterVars, mainVars, prevSuccess,
                 prevFail, curSuccess>>

MonitorSample ==
  /\ monPc = "fail"
  /\ LET calls == (curSuccess - prevSuccess) + (fail - prevFail)
     IN  history' = IF calls > 0 THEN Append(history, calls) ELSE history
  /\ prevSuccess' = curSuccess /\ prevFail' = fail
  /\ monPc' = "check"
  /\ UNCHANGED <<statVars, setupVars, workerVars, counterVars, mainVars, curSuccess>>

Monitor == MonitorCheck \/ MonitorWake \/ MonitorSample

-----------------------------------------------------------------------------
(***************************************************************************)
(* main joins the workers, stops and joins the monitor, prints the totals  *)
(* and what it finds in the history, and RuntimeStats' report unless the   *)
(* program times nothing.  Rates are calls per interval.                   *)
(***************************************************************************)
WorkerDone(w) == left[w] = 0 /\ todo[w] = << >> /\ recPc[w] = "idle"

\* Wrong: the monitor is joined, and the flag never cleared.
JoinWorkersOnly ==
  /\ mainPc = "workers" /\ \A w \in Threads : WorkerDone(w)
  /\ mainPc' = "monitor"
  /\ UNCHANGED <<statVars, setupVars, workerVars, counterVars, monitorVars, running, report>>

JoinWorkers ==
  /\ mainPc = "workers" /\ \A w \in Threads : WorkerDone(w)
  /\ running' = FALSE
  /\ mainPc' = "monitor"
  /\ UNCHANGED <<statVars, setupVars, workerVars, counterVars, monitorVars, report>>

Summary ==
  [completed |-> success + fail, success |-> success, samples |-> Len(history),
   peak  |-> IF history = << >> THEN 0 ELSE Max(Range(history)),
   least |-> IF history = << >> THEN 0 ELSE Min(Range(history))]

Report ==
  /\ mainPc = "monitor" /\ monPc = "done"
  /\ report' = [summary |-> Summary,
                stats   |-> IF program = "qps_benchmark" THEN << >> ELSE PrintDetailedReport]
  /\ mainPc' = "reported"
  /\ UNCHANGED <<statVars, setupVars, workerVars, counterVars, monitorVars, running>>

Main == JoinWorkers \/ Report

Next == Monitor \/ Main \/ \E w \in Threads : Worker(w)

Spec == Init /\ [][Next]_vars

(***************************************************************************)
(* Every thread is scheduled, and calls return.                            *)
(***************************************************************************)
FairSpec == /\ Spec
            /\ WF_vars(Monitor) /\ WF_vars(Main)
            /\ \A w \in Threads : WF_vars(Worker(w))

-----------------------------------------------------------------------------
(***************************************************************************)
(* The analysis by segments: ranges of samples, as client.cc and           *)
(* qps_benchmark.cc cut them.                                              *)
(***************************************************************************)
ClientSegments(n) ==
  LET size == Max({1, n \div Segments})
  IN  [k \in {k \in 0 .. (Segments - 1) : k * size < n} |->
         (k * size + 1) .. Min({(k + 1) * size, n})]

\* Wrong: the last segment is as long as the others.
QpsSegmentsEqual(n) ==
  IF n < Segments THEN << >>
  ELSE [k \in 0 .. (Segments - 1) |-> (k * (n \div Segments) + 1) .. ((k + 1) * (n \div Segments))]

QpsSegments(n) ==
  LET size == n \div Segments
  IN  IF n < Segments THEN << >>
      ELSE [k \in 0 .. (Segments - 1) |->
              (k * size + 1) .. IF k = Segments - 1 THEN n ELSE (k + 1) * size]

-----------------------------------------------------------------------------
(***************************************************************************)
(* The report main prints after the join is exact: every call was timed,   *)
(* and for every stage the count and the sum account for each duration     *)
(* recorded once.  Summed from below, the histogram up to a bucket holds   *)
(* every duration shorter than the bucket's end and none that is longer; a *)
(* duration equal to the end may be on either side of it, as doubles       *)
(* round.  Up to the last bucket the histogram holds everything.           *)
(***************************************************************************)
Recorded(s) == SumFunctionOnSet(samples[s], Durations)

ShorterThan(s, x) == SumFunctionOnSet(samples[s], {d \in Durations : d < x})

NoLongerThan(s, x) == SumFunctionOnSet(samples[s], {d \in Durations : d <= x})

TotalOf(s) == SumFunctionOnSet([d \in Durations |-> Ns(d) * samples[s][d]], Durations)

End(b) == (b + 1) * BucketWidth

Timing == program # "qps_benchmark"

ReportExact ==
  mainPc = "reported" /\ Timing =>
    /\ Recorded("TOTAL") = Cardinality(setup.workers) * Calls
    /\ \A s \in Stages :
         /\ counts[s] = Recorded(s)
         /\ totals[s] = TotalOf(s)
         /\ UpTo(s, BucketCount - 1) = Recorded(s)
         /\ \A b \in 0 .. (BucketCount - 2) :
              /\ ShorterThan(s, End(b)) <= UpTo(s, b)
              /\ UpTo(s, b) <= NoLongerThan(s, End(b))

(***************************************************************************)
(* A percentile in the report is the bucket that holds the duration of its *)
(* rank among all durations recorded, both ends of the bucket included.    *)
(* Ranks are cut to whole numbers, and nothing is claimed of a rank that   *)
(* comes out as 0 (P50 of a single call): the code then reports the first  *)
(* bucket, whatever the durations were.                                    *)
(***************************************************************************)
PercentilesOfSamples ==
  mainPc = "reported" /\ Timing =>
    \A s \in DOMAIN report.stats.rows :
      LET r == report.stats.rows[s]
      IN  \A p \in {<<50, r.p50>>, <<95, r.p95>>, <<99, r.p99>>} :
            LET rank == (Recorded(s) * p[1]) \div 100
            IN  rank > 0 =>
                  /\ p[2] \in Buckets
                  /\ p[2] < BucketCount - 1 => NoLongerThan(s, End(p[2])) >= rank
                  /\ p[2] > 0 => ShorterThan(s, End(p[2] - 1)) < rank

(***************************************************************************)
(* No call is lost or counted twice.  The success count is the number of   *)
(* calls that succeeded; in client.cc, which never resets its controllers, *)
(* it can be smaller, and never larger.                                    *)
(***************************************************************************)
CallsAccounted ==
  mainPc = "reported" =>
    /\ report.summary.completed = Cardinality(setup.workers) * Calls
    /\ IF program = "client" THEN report.summary.success <= really
                             ELSE report.summary.success = really

(***************************************************************************)
(* The monitor's intervals add up: each is positive, together they are the *)
(* calls up to its last sample, and neither what the monitor kept nor what *)
(* it has just loaded is ever ahead of the shared counters, although the   *)
(* two are loaded one after the other while workers count.                 *)
(***************************************************************************)
NoNegativeInterval ==
  /\ prevSuccess <= curSuccess /\ curSuccess <= success
  /\ prevFail <= fail

IntervalsAddUp ==
  /\ \A i \in 1 .. Len(history) : history[i] > 0
  /\ SumFunction(history) = prevSuccess + prevFail
  /\ NoNegativeInterval

(***************************************************************************)
(* The segments of the final analysis follow one another from the first    *)
(* sample, and none is empty.  qps_benchmark's cover all samples, whatever *)
(* their number.  client.cc's cover all only when their number is at most  *)
(* Segments or a multiple of it; otherwise exactly the remainder, less     *)
(* than Segments samples at the end of the run, is left out, although      *)
(* client.cc:261 speaks of dividing the whole test.                        *)
(***************************************************************************)
Covered(seg) == UNION {seg[k] : k \in DOMAIN seg}

Consecutive(seg) ==
  /\ \A k \in DOMAIN seg : seg[k] # {}
  /\ \A k \in DOMAIN seg : k + 1 \in DOMAIN seg => Max(seg[k]) + 1 = Min(seg[k + 1])

SegmentsPartition ==
  mainPc = "reported" => \A n \in Len(history) .. (Len(history) + 4 * Segments) :
    /\ Consecutive(ClientSegments(n)) /\ Consecutive(QpsSegments(n))
    /\ n >= Segments => Covered(QpsSegments(n)) = 1 .. n
    /\ Covered(ClientSegments(n)) = 1 .. IF n < Segments THEN n ELSE n - (n % Segments)

(***************************************************************************)
(* The program ends with its report: the monitor sees the flag however it  *)
(* was sleeping or sampling when main cleared it.                          *)
(***************************************************************************)
LoadTestEnds == <>(mainPc = "reported")
=============================================================================
