---------------------------- MODULE RuntimeStats ----------------------------
(***************************************************************************)
(* RuntimeStats (src/src/monitor/runtime_stats.cc): the process-wide timer *)
(* statistics.  Every thread that times a stage updates the count, the     *)
(* sum, the maximum and one histogram bucket of the stage, each an atomic  *)
(* of its own; nothing ties the four together.                             *)
(*                                                                         *)
(* A timer measures whole nanoseconds and hands them over as a double of   *)
(* milliseconds; Record turns that into nanoseconds and into a bucket,     *)
(* each time by an operation on doubles cut to an integer.  Durations are  *)
(* the nanoseconds measured, BucketWidth of them to a bucket, and the two  *)
(* sets CutShort and RoundedDown say where the doubles fall short.  A      *)
(* duration can be negative: high_resolution_clock may be set back.        *)
(***************************************************************************)
EXTENDS Integers, FiniteSetsExt

CONSTANTS Threads,       \* threads that record
          Stages,        \* the stages timed, "TOTAL" among them
          Durations,     \* what a timer may measure
          BucketCount,   \* kHistBucketCount
          BucketWidth,   \* kBucketWidthMs, in nanoseconds: 100000
          CutShort,      \* durations of which Record's ns is one nearer to zero (251 ns)
          RoundedDown,   \* boundaries of buckets whose quotient is below the boundary (0.3 ms)
          LongTailFloor  \* the warning's threshold, in half buckets: 20

ASSUME StagesAssumption == "TOTAL" \in Stages
ASSUME DurationsAssumption == Durations \subseteq Int /\ IsFiniteSet(Durations)
ASSUME ThreadsAssumption == IsFiniteSet(Threads)
ASSUME BucketAssumption == BucketCount \in Nat \ {0} /\ BucketWidth \in Nat \ {0}
ASSUME CutShortAssumption == CutShort \subseteq Durations \ {0}
ASSUME RoundedDownAssumption ==
  RoundedDown \subseteq {d \in Durations : d > 0 /\ d = (d \div BucketWidth) * BucketWidth}

VARIABLES counts,    \* m_counts
          totals,    \* m_total_times
          maxes,     \* m_max_times
          hist,      \* m_hist
          recPc,     \* per thread: where in Record it is
          recStage,  \* per thread: Record's stage
          recMs,     \* per thread: Record's duration_ms, as what was measured
          oldMax,    \* per thread: old_max
          samples    \* per stage: how often each duration was recorded (history)

statVars == <<counts, totals, maxes, hist, recPc, recStage, recMs, oldMax, samples>>

Buckets == 0 .. (BucketCount - 1)

StatInit ==
  /\ counts   = [s \in Stages |-> 0]
  /\ totals   = [s \in Stages |-> 0]
  /\ maxes    = [s \in Stages |-> 0]
  /\ hist     = [s \in Stages |-> [b \in Buckets |-> 0]]
  /\ recPc    = [t \in Threads |-> "idle"]
  /\ recStage = [t \in Threads |-> "TOTAL"]
  /\ recMs    = [t \in Threads |-> 0]
  /\ oldMax   = [t \in Threads |-> 0]
  /\ samples  = [s \in Stages |-> [d \in Durations |-> 0]]

-----------------------------------------------------------------------------
(***************************************************************************)
(* The nanoseconds Record computes from the milliseconds it is given.      *)
(***************************************************************************)
Ns(d) == IF d \in CutShort THEN (IF d > 0 THEN d - 1 ELSE d + 1) ELSE d

(***************************************************************************)
(* ~ScopedTimer measures d and calls Record, which adds to the count and   *)
(* to the sum.  The two additions are one step: nothing reads either       *)
(* before the threads are joined.                                          *)
(***************************************************************************)
Record(t, s, d) ==
  /\ recPc[t] = "idle"
  /\ counts'   = [counts EXCEPT ![s] = @ + 1]
  /\ totals'   = [totals EXCEPT ![s] = @ + Ns(d)]
  /\ recPc'    = [recPc EXCEPT ![t] = "load"]
  /\ recStage' = [recStage EXCEPT ![t] = s]
  /\ recMs'    = [recMs EXCEPT ![t] = d]
  /\ UNCHANGED <<maxes, hist, oldMax, samples>>

LoadMax(t) ==
  /\ recPc[t] = "load"
  /\ oldMax' = [oldMax EXCEPT ![t] = maxes[recStage[t]]]
  /\ recPc'  = [recPc EXCEPT ![t] = "cas"]
  /\ UNCHANGED <<counts, totals, maxes, hist, recStage, recMs, samples>>

(***************************************************************************)
(* One turn of the loop: done when the maximum loaded is large enough, or  *)
(* when the exchange takes place; an exchange that fails, with a reason or *)
(* spuriously, loads the maximum again.                                    *)
(***************************************************************************)
\* Wrong: a plain store instead of the exchange.
CasMaxStores(t) ==
  /\ recPc[t] = "cas"
  /\ maxes' = [maxes EXCEPT ![recStage[t]] = IF Ns(recMs[t]) > oldMax[t] THEN Ns(recMs[t]) ELSE @]
  /\ recPc' = [recPc EXCEPT ![t] = "hist"]
  /\ UNCHANGED <<counts, totals, hist, recStage, recMs, oldMax, samples>>

CasMax(t) ==
  LET s  == recStage[t]
      ns == Ns(recMs[t])
  IN  /\ recPc[t] = "cas"
      /\ \/ /\ ns <= oldMax[t]
            /\ recPc' = [recPc EXCEPT ![t] = "hist"]
            /\ UNCHANGED <<maxes, oldMax>>
         \/ /\ ns > oldMax[t] /\ maxes[s] = oldMax[t]
            /\ maxes' = [maxes EXCEPT ![s] = ns]
            /\ recPc' = [recPc EXCEPT ![t] = "hist"]
            /\ UNCHANGED oldMax
         \/ /\ ns > oldMax[t]
            /\ oldMax' = [oldMax EXCEPT ![t] = maxes[s]]
            /\ UNCHANGED <<maxes, recPc>>
      /\ UNCHANGED <<counts, totals, hist, recStage, recMs, samples>>

(***************************************************************************)
(* The bucket of a duration: the quotient of two doubles, which can fall   *)
(* short of a boundary and then counts a bucket lower, beyond the last     *)
(* bucket in the last, below the first in the first.                       *)
(***************************************************************************)
Quotient(d) == IF d \in RoundedDown THEN (d \div BucketWidth) - 1 ELSE d \div BucketWidth

\* Wrong: a duration at the end of the range is not cut to the last bucket.
BucketPastEnd(d) == Max({0, Min({Quotient(d), BucketCount})})

Bucket(d) == Max({0, Min({Quotient(d), BucketCount - 1})})

CountBucket(t) ==
  LET s == recStage[t]
      d == recMs[t]
  IN  /\ recPc[t] = "hist"
      /\ hist'    = [hist EXCEPT ![s] = [b \in Buckets |-> IF b = Bucket(d) THEN @[b] + 1 ELSE @[b]]]
      /\ samples' = [samples EXCEPT ![s] = [e \in Durations |-> IF e = d THEN @[e] + 1 ELSE @[e]]]
      /\ recPc'   = [recPc EXCEPT ![t] = "idle"]
      /\ UNCHANGED <<counts, totals, maxes, recStage, recMs, oldMax>>

RecordStep(t) == LoadMax(t) \/ CasMax(t) \/ CountBucket(t)

-----------------------------------------------------------------------------
(***************************************************************************)
(* ComputePercentiles: a percentile is the first bucket at which the       *)
(* histogram, summed from below, reaches its share of the count, cut to a  *)
(* whole number.  NoBucket is the 0.0 a percentile keeps when none does.   *)
(***************************************************************************)
NoBucket == -1

UpTo(s, b) == SumFunctionOnSet(hist[s], 0 .. b)

Target(s, percent) == (counts[s] * percent) \div 100

\* Wrong: the percentile is the bucket whose sum exceeds its share.
PercentileAbove(s, percent) ==
  LET reached == {b \in Buckets : UpTo(s, b) > Target(s, percent)}
  IN  IF counts[s] = 0 \/ reached = {} THEN NoBucket ELSE Min(reached)

Percentile(s, percent) ==
  LET reached == {b \in Buckets : UpTo(s, b) >= Target(s, percent)}
  IN  IF counts[s] = 0 \/ reached = {} THEN NoBucket ELSE Min(reached)

ComputePercentiles(s) ==
  [count |-> counts[s], total |-> totals[s], max |-> maxes[s],
   p50 |-> Percentile(s, 50), p95 |-> Percentile(s, 95), p99 |-> Percentile(s, 99)]

(***************************************************************************)
(* PrintDetailedReport: a row for every stage that was recorded, the       *)
(* stages that head the list of bottlenecks and the warning about a long   *)
(* tail.  In half buckets the midpoint of bucket b is 2b + 1.              *)
(***************************************************************************)
PrintDetailedReport ==
  LET rows     == [s \in {s \in Stages : counts[s] > 0} |-> ComputePercentiles(s)]
      parts    == DOMAIN rows \ {"TOTAL"}
      midpoint(b) == IF b = NoBucket THEN 0 ELSE 2 * b + 1
      total    == ComputePercentiles("TOTAL")
  IN  [rows    |-> rows,
       slowest |-> IF total.p50 = NoBucket THEN {}
                   ELSE {s \in parts : \A r \in parts : rows[s].p50 >= rows[r].p50},
       longTail |-> /\ midpoint(total.p99) > 3 * midpoint(total.p95)
                    /\ midpoint(total.p99) > LongTailFloor]

-----------------------------------------------------------------------------
StatTypeOK ==
  /\ counts \in [Stages -> Nat]
  /\ totals \in [Stages -> Int]
  /\ maxes \in [Stages -> Int]
  /\ hist \in [Stages -> [Buckets -> Nat]]
  /\ recPc \in [Threads -> {"idle", "load", "cas", "hist"}]
  /\ recStage \in [Threads -> Stages]
  /\ recMs \in [Threads -> Durations \cup {0}]
  /\ oldMax \in [Threads -> Int]
  /\ samples \in [Stages -> [Durations -> Nat]]

(***************************************************************************)
(* m_max_times is the largest duration recorded so far, in the nanoseconds *)
(* that Record computes, whatever updates of other threads fall between a  *)
(* thread's load and its exchange: every duration that has been through    *)
(* the loop is at most the maximum, and the maximum is 0 or one of them.   *)
(***************************************************************************)
Passed(s, d) == \/ samples[s][d] > 0
                \/ \E t \in Threads : recPc[t] = "hist" /\ recStage[t] = s /\ recMs[t] = d

MaxIsExact ==
  \A s \in Stages :
    /\ \A d \in Durations : Passed(s, d) => Ns(d) <= maxes[s]
    /\ maxes[s] = 0 \/ \E d \in Durations : Passed(s, d) /\ Ns(d) = maxes[s]
=============================================================================
