--------------------------- MODULE LoadTestProofs ---------------------------
(***************************************************************************)
(* What holds of the load programs for every number of threads, calls,     *)
(* stages, buckets and segments and all durations: the maximum that        *)
(* RuntimeStats keeps with its compare-and-exchange loop is exact, the     *)
(* monitor's intervals add up, no call is lost or counted twice, and the   *)
(* report and its percentiles account for every duration.                  *)
(***************************************************************************)
EXTENDS LoadTest, SequenceLemmas

(***************************************************************************)
(* The durations workers measure are Durations.                            *)
(***************************************************************************)
CallsInv ==
  /\ latency \in Latencies
  /\ DOMAIN todo = Threads
  /\ left \in [Threads -> 0 .. Calls]
  /\ \A w \in Threads : todo[w] # << >> => left[w] < Calls

(***************************************************************************)
(* MaxIsExact alone is not inductive: a thread that leaves the loop on an  *)
(* old maximum needs that the maximum has not fallen since it was loaded.  *)
(***************************************************************************)
OldMaxBehind ==
  \A t \in Threads : /\ recPc[t] # "idle" => recMs[t] \in Durations
                     /\ recPc[t] = "cas" => oldMax[t] <= maxes[recStage[t]]

StatInv == StatTypeOK /\ OldMaxBehind /\ MaxIsExact

(***************************************************************************)
(* What a step of any program may do to RuntimeStats.                      *)
(***************************************************************************)
StatStep(t) ==
  \/ \E s \in Stages, d \in Durations : Record(t, s, d)
  \/ RecordStep(t)

StatNext == \E t \in Threads : StatStep(t)

(***************************************************************************)
(* A worker's current call has a duration.                                 *)
(***************************************************************************)
LEMMA DurationOfCall ==
  ASSUME CallsInv, NEW w \in Threads, todo[w] # << >>
  PROVE  Duration(w) \in Durations
  <1>1. left[w] \in 0 .. Calls /\ left[w] < Calls
    BY DEF CallsInv
  <1>2. Calls - left[w] \in 1 .. Calls
    BY <1>1, CallsAssumption
  <1>3. latency \in [Threads -> [1 .. Calls -> Durations]]
    BY LatenciesAssumption DEF CallsInv
  <1> QED
    BY <1>2, <1>3 DEF Duration

LEMMA CallsInvInit == Init => CallsInv
  <1> SUFFICES ASSUME Init PROVE CallsInv
    OBVIOUS
  <1>1. /\ latency \in Latencies
        /\ todo = [w \in Threads |-> << >>]
        /\ left = [w \in Threads |-> IF w \in setup.workers THEN Calls ELSE 0]
    BY DEF Init, LoadInit
  <1> QED
    BY <1>1, CallsAssumption DEF CallsInv

LEMMA CallsInvStep ==
  ASSUME CallsInv, [Next]_vars
  PROVE  CallsInv'
  <1> USE DEF CallsInv
  <1>1. ASSUME NEW w \in Threads, NextCall(w) PROVE CallsInv'
    <2>1. /\ left' = [left EXCEPT ![w] = @ - 1] /\ left[w] > 0
          /\ \E work : todo' = [todo EXCEPT ![w] = work]
          /\ latency' = latency
      BY <1>1 DEF NextCall, MoreCalls, setupVars
    <2>2. left[w] - 1 \in 0 .. Calls /\ left[w] - 1 < Calls
      BY <2>1, CallsAssumption
    <2> QED
      BY <2>1, <2>2
  <1>2. ASSUME NEW w \in Threads, todo[w] # << >>, UNCHANGED <<left, latency>>,
               todo' = [todo EXCEPT ![w] = Tail(@)]
        PROVE  CallsInv'
    BY <1>2
  <1>3. ASSUME NEW w \in Threads, StopTimer(w) \/ CountCall(w) \/ AddLatency(w) PROVE CallsInv'
    <2>1. todo[w] # << >> /\ UNCHANGED <<left, latency>> /\ todo' = [todo EXCEPT ![w] = Tail(@)]
      BY <1>3 DEF StopTimer, CountCall, AddLatency, setupVars
    <2> QED
      BY <1>2, <2>1
  <1>4. CASE UNCHANGED <<todo, left, latency>>
    BY <1>4
  <1>5. ASSUME NEW w \in Threads, Recording(w) PROVE UNCHANGED <<todo, left, latency>>
    BY <1>5 DEF Recording, loadVars, workerVars, setupVars
  <1>6. ASSUME Monitor \/ Main PROVE UNCHANGED <<todo, left, latency>>
    BY <1>6 DEF Monitor, MonitorCheck, MonitorWake, MonitorSample, Main, JoinWorkers, Report,
                workerVars, setupVars
  <1>7. ASSUME UNCHANGED vars PROVE UNCHANGED <<todo, left, latency>>
    BY <1>7 DEF vars, loadVars, workerVars, setupVars
  <1> QED
    BY <1>1, <1>3, <1>4, <1>5, <1>6, <1>7 DEF Next, Worker

(***************************************************************************)
(* Every step of the programs is a step of RuntimeStats or leaves it alone.*)
(***************************************************************************)
LEMMA StatSteps ==
  ASSUME CallsInv, [Next]_vars
  PROVE  [StatNext]_statVars
  <1>1. ASSUME NEW w \in Threads, StopTimer(w) PROVE StatNext
    <2>1. todo[w] # << >> /\ Head(todo[w]) \in Stages /\ Record(w, Head(todo[w]), Duration(w))
      BY <1>1 DEF StopTimer
    <2>2. Duration(w) \in Durations
      BY <2>1, DurationOfCall
    <2> QED
      BY <2>1, <2>2 DEF StatNext, StatStep
  <1>2. ASSUME NEW w \in Threads, Recording(w) PROVE StatNext
    BY <1>2 DEF Recording, StatNext, StatStep
  <1>3. ASSUME NEW w \in Threads, NextCall(w) \/ CountCall(w) \/ AddLatency(w)
        PROVE  UNCHANGED statVars
    BY <1>3 DEF NextCall, CountCall, AddLatency
  <1>4. ASSUME Monitor \/ Main PROVE UNCHANGED statVars
    BY <1>4 DEF Monitor, MonitorCheck, MonitorWake, MonitorSample, Main, JoinWorkers, Report
  <1>5. ASSUME UNCHANGED vars PROVE UNCHANGED statVars
    BY <1>5 DEF vars
  <1> QED
    BY <1>1, <1>2, <1>3, <1>4, <1>5 DEF Next, Worker

-----------------------------------------------------------------------------
LEMMA StatInvInit == Init => StatInv
  <1> SUFFICES ASSUME Init PROVE StatInv
    OBVIOUS
  <1> USE DEF Init, StatInit
  <1>1. StatTypeOK
    BY StagesAssumption DEF StatTypeOK
  <1>2. OldMaxBehind
    BY DEF OldMaxBehind
  <1>3. MaxIsExact
    BY DEF MaxIsExact, Passed
  <1> QED
    BY <1>1, <1>2, <1>3 DEF StatInv

LEMMA RecMsIsInt ==
  ASSUME StatTypeOK, NEW t \in Threads
  PROVE  recMs[t] \in Int
  <1>1. recMs[t] \in Durations \cup {0}
    BY DEF StatTypeOK
  <1>2. Durations \cup {0} \subseteq Int
    BY DurationsAssumption
  <1> QED
    BY <1>1, <1>2

LEMMA NsIsInt ==
  ASSUME NEW d \in Int
  PROVE  Ns(d) \in Int
  BY DEF Ns

(***************************************************************************)
(* Types.                                                                  *)
(***************************************************************************)
LEMMA StatTypesStep ==
  ASSUME StatTypeOK, [StatNext]_statVars
  PROVE  StatTypeOK'
  <1> USE DEF StatTypeOK
  <1>1. ASSUME NEW t \in Threads, NEW s \in Stages, NEW d \in Durations, Record(t, s, d)
        PROVE  StatTypeOK'
    <2>1. Ns(d) \in Int
      BY DurationsAssumption, NsIsInt
    <2> QED
      BY <1>1, <2>1 DEF Record
  <1>2. ASSUME NEW t \in Threads, LoadMax(t) PROVE StatTypeOK'
    BY <1>2 DEF LoadMax
  <1>3. ASSUME NEW t \in Threads, CasMax(t) PROVE StatTypeOK'
    <2>1. Ns(recMs[t]) \in Int
      BY RecMsIsInt, NsIsInt
    <2>2. PICK m : m = Ns(recMs[t])
      OBVIOUS
    <2>3. /\ UNCHANGED <<counts, totals, hist, recStage, recMs, samples>>
          /\ maxes' = maxes \/ maxes' = [maxes EXCEPT ![recStage[t]] = m]
          /\ recPc' = recPc \/ recPc' = [recPc EXCEPT ![t] = "hist"]
          /\ oldMax' = oldMax \/ oldMax' = [oldMax EXCEPT ![t] = maxes[recStage[t]]]
      BY <1>3, <2>2 DEF CasMax
    <2>4. m \in Int /\ recStage[t] \in Stages /\ maxes[recStage[t]] \in Int
      BY <2>1, <2>2
    <2>5. maxes' \in [Stages -> Int]
      BY <2>3, <2>4
    <2>6. oldMax' \in [Threads -> Int]
      BY <2>3, <2>4
    <2>7. recPc' \in [Threads -> {"idle", "load", "cas", "hist"}]
      BY <2>3
    <2> QED
      BY <2>3, <2>5, <2>6, <2>7
  <1>4. ASSUME NEW t \in Threads, CountBucket(t) PROVE StatTypeOK'
    <2> DEFINE s == recStage[t]
               d == recMs[t]
    <2>1. /\ hist' = [hist EXCEPT ![s] = [b \in Buckets |-> IF b = Bucket(d) THEN @[b] + 1 ELSE @[b]]]
          /\ samples' = [samples EXCEPT ![s] = [e \in Durations |-> IF e = d THEN @[e] + 1 ELSE @[e]]]
          /\ recPc' = [recPc EXCEPT ![t] = "idle"]
          /\ UNCHANGED <<counts, totals, maxes, recStage, recMs, oldMax>>
      BY <1>4 DEF CountBucket
    <2>2. s \in Stages
      OBVIOUS
    <2>3. \A b \in Buckets : (IF b = Bucket(d) THEN hist[s][b] + 1 ELSE hist[s][b]) \in Nat
      BY <2>2
    <2>4. \A e \in Durations : (IF e = d THEN samples[s][e] + 1 ELSE samples[s][e]) \in Nat
      BY <2>2
    <2>5. hist' \in [Stages -> [Buckets -> Nat]]
      BY <2>1, <2>2, <2>3
    <2>6. samples' \in [Stages -> [Durations -> Nat]]
      BY <2>1, <2>2, <2>4
    <2> QED
      BY <2>1, <2>5, <2>6
  <1>5. CASE UNCHANGED statVars
    BY <1>5 DEF statVars
  <1> QED
    BY <1>1, <1>2, <1>3, <1>4, <1>5 DEF StatNext, StatStep, RecordStep

(***************************************************************************)
(* The maximum never falls, so what was loaded stays behind it.            *)
(***************************************************************************)
LEMMA MaxGrows ==
  ASSUME StatInv, [StatNext]_statVars, NEW s \in Stages
  PROVE  maxes[s] <= maxes'[s]
  <1>0. StatTypeOK
    BY DEF StatInv
  <1>1. ASSUME NEW t \in Threads, CasMax(t) PROVE maxes[s] <= maxes'[s]
    <2>1. CASE UNCHANGED maxes
      BY <1>0, <2>1 DEF StatTypeOK
    <2>2. CASE /\ Ns(recMs[t]) > oldMax[t] /\ maxes[recStage[t]] = oldMax[t]
               /\ maxes' = [maxes EXCEPT ![recStage[t]] = Ns(recMs[t])]
      <3>1. maxes \in [Stages -> Int] /\ recStage[t] \in Stages /\ Ns(recMs[t]) \in Int
        BY <1>0, RecMsIsInt, NsIsInt DEF StatTypeOK
      <3> QED
        BY <2>2, <3>1
    <2> QED
      BY <1>1, <2>1, <2>2 DEF CasMax
  <1>2. ASSUME NEW t \in Threads,
               (\E r \in Stages, d \in Durations : Record(t, r, d)) \/ LoadMax(t) \/ CountBucket(t)
        PROVE  UNCHANGED maxes
    BY <1>2 DEF Record, LoadMax, CountBucket
  <1>3. ASSUME UNCHANGED statVars PROVE UNCHANGED maxes
    BY <1>3 DEF statVars
  <1>4. ASSUME UNCHANGED maxes PROVE maxes[s] <= maxes'[s]
    BY <1>0, <1>4 DEF StatTypeOK
  <1> QED
    BY <1>1, <1>2, <1>3, <1>4 DEF StatNext, StatStep, RecordStep

LEMMA OldMaxBehindStep ==
  ASSUME StatInv, [StatNext]_statVars
  PROVE  OldMaxBehind'
  <1>0. /\ recPc \in [Threads -> {"idle", "load", "cas", "hist"}]
        /\ recStage \in [Threads -> Stages] /\ DOMAIN recMs = Threads
        /\ oldMax \in [Threads -> Int] /\ maxes \in [Stages -> Int]
        /\ maxes' \in [Stages -> Int]
    BY StatTypesStep DEF StatInv, StatTypeOK
  <1>I. OldMaxBehind
    BY DEF StatInv
  <1> SUFFICES ASSUME NEW u \in Threads
               PROVE  /\ recPc'[u] # "idle" => recMs'[u] \in Durations
                      /\ recPc'[u] = "cas" => oldMax'[u] <= maxes'[recStage'[u]]
    BY DEF OldMaxBehind
  <1>G. recPc[u] = "cas" => oldMax[u] <= maxes'[recStage[u]]
    <2>1. maxes[recStage[u]] <= maxes'[recStage[u]]
      BY <1>0, MaxGrows
    <2> QED
      BY <1>0, <1>I, <2>1 DEF OldMaxBehind
  <1>1. ASSUME NEW t \in Threads, NEW s \in Stages, NEW d \in Durations, Record(t, s, d)
        PROVE  /\ recPc'[u] # "idle" => recMs'[u] \in Durations
               /\ recPc'[u] = "cas" => oldMax'[u] <= maxes'[recStage'[u]]
    BY <1>0, <1>1, <1>G, <1>I DEF Record, OldMaxBehind
  <1>2. ASSUME NEW t \in Threads, LoadMax(t)
        PROVE  /\ recPc'[u] # "idle" => recMs'[u] \in Durations
               /\ recPc'[u] = "cas" => oldMax'[u] <= maxes'[recStage'[u]]
    BY <1>0, <1>2, <1>G, <1>I DEF LoadMax, OldMaxBehind
  <1>3. ASSUME NEW t \in Threads, CasMax(t)
        PROVE  /\ recPc'[u] # "idle" => recMs'[u] \in Durations
               /\ recPc'[u] = "cas" => oldMax'[u] <= maxes'[recStage'[u]]
    <2>1. UNCHANGED <<recStage, recMs>> /\ recPc[t] = "cas"
      BY <1>3 DEF CasMax
    <2>2. CASE recPc' = [recPc EXCEPT ![t] = "hist"] /\ UNCHANGED oldMax
      BY <1>0, <1>G, <1>I, <2>1, <2>2 DEF OldMaxBehind
    <2>3. CASE oldMax' = [oldMax EXCEPT ![t] = maxes[recStage[t]]] /\ UNCHANGED <<maxes, recPc>>
      BY <1>0, <1>G, <1>I, <2>1, <2>3 DEF OldMaxBehind
    <2> QED
      BY <1>3, <2>2, <2>3 DEF CasMax
  <1>4. ASSUME NEW t \in Threads, CountBucket(t)
        PROVE  /\ recPc'[u] # "idle" => recMs'[u] \in Durations
               /\ recPc'[u] = "cas" => oldMax'[u] <= maxes'[recStage'[u]]
    <2>1. /\ recPc' = [recPc EXCEPT ![t] = "idle"]
          /\ UNCHANGED <<maxes, recStage, recMs, oldMax>>
      BY <1>4 DEF CountBucket
    <2> QED
      BY <1>0, <1>G, <1>I, <2>1 DEF OldMaxBehind
  <1>5. CASE UNCHANGED statVars
    BY <1>0, <1>5, <1>G, <1>I DEF statVars, OldMaxBehind
  <1> QED
    BY <1>1, <1>2, <1>3, <1>4, <1>5 DEF StatNext, StatStep, RecordStep

-----------------------------------------------------------------------------
(***************************************************************************)
(* Only leaving the loop adds to the durations that have been through it:  *)
(* a duration is handed from the thread to the history in CountBucket.     *)
(***************************************************************************)
LEMMA PassedKept ==
  ASSUME StatInv, NEW r \in Stages, NEW e \in Durations, NEW t \in Threads,
         \/ \E s \in Stages, d \in Durations : Record(t, s, d)
         \/ LoadMax(t) \/ CountBucket(t)
  PROVE  Passed(r, e)' <=> Passed(r, e)
  <1>0. /\ recPc \in [Threads -> {"idle", "load", "cas", "hist"}]
        /\ recStage \in [Threads -> Stages] /\ DOMAIN recMs = Threads
        /\ samples \in [Stages -> [Durations -> Nat]]
    BY DEF StatInv, StatTypeOK
  <1>1. ASSUME NEW s \in Stages, NEW d \in Durations, Record(t, s, d)
        PROVE  Passed(r, e)' <=> Passed(r, e)
    BY <1>0, <1>1 DEF Record, Passed
  <1>2. CASE LoadMax(t)
    BY <1>0, <1>2 DEF LoadMax, Passed
  <1>3. CASE CountBucket(t)
    <2> DEFINE s == recStage[t]
               d == recMs[t]
    <2>1. /\ recPc[t] = "hist" /\ recPc' = [recPc EXCEPT ![t] = "idle"]
          /\ samples' = [samples EXCEPT ![s] = [f \in Durations |-> IF f = d THEN @[f] + 1 ELSE @[f]]]
          /\ UNCHANGED <<recStage, recMs>>
      BY <1>3 DEF CountBucket
    <2>2. d \in Durations
      BY <2>1 DEF StatInv, OldMaxBehind
    <2>3. s \in Stages
      BY <1>0
    <2>4. ASSUME NEW f \in Durations
          PROVE  samples'[r][f] > 0 <=> samples[r][f] > 0 \/ (r = s /\ f = d)
      <3>1. samples[r][f] \in Nat
        BY <1>0
      <3>2. samples'[r][f] = IF r = s /\ f = d THEN samples[r][f] + 1 ELSE samples[r][f]
        BY <1>0, <2>1, <2>3
      <3> QED
        BY <3>1, <3>2
    <2>5. ASSUME NEW u \in Threads
          PROVE  recPc[u] = "hist" <=> recPc'[u] = "hist" \/ u = t
      BY <1>0, <2>1
    <2>6. (\E u \in Threads : recPc[u] = "hist" /\ recStage[u] = r /\ recMs[u] = e)
             <=> \/ r = s /\ e = d
                 \/ \E u \in Threads : recPc'[u] = "hist" /\ recStage'[u] = r /\ recMs'[u] = e
      BY <2>1, <2>5
    <2>7. samples'[r][e] > 0 <=> samples[r][e] > 0 \/ (r = s /\ e = d)
      BY <2>2, <2>4
    <2> QED
      BY <2>6, <2>7 DEF Passed
  <1> QED
    BY <1>1, <1>2, <1>3

LEMMA MaxIsExactStep ==
  ASSUME StatInv, [StatNext]_statVars
  PROVE  MaxIsExact'
  <1>0. /\ recPc \in [Threads -> {"idle", "load", "cas", "hist"}]
        /\ recStage \in [Threads -> Stages] /\ maxes \in [Stages -> Int]
        /\ oldMax \in [Threads -> Int]
    BY DEF StatInv, StatTypeOK
  <1>I. MaxIsExact /\ OldMaxBehind
    BY DEF StatInv
  <1>K. ASSUME UNCHANGED maxes, \A r \in Stages : \A e \in Durations : Passed(r, e)' <=> Passed(r, e)
        PROVE  MaxIsExact'
    BY <1>I, <1>K DEF MaxIsExact
  <1>1. ASSUME NEW t \in Threads,
               \/ \E s \in Stages, d \in Durations : Record(t, s, d)
               \/ LoadMax(t) \/ CountBucket(t)
        PROVE  MaxIsExact'
    <2>1. UNCHANGED maxes
      BY <1>1 DEF Record, LoadMax, CountBucket
    <2>2. \A r \in Stages : \A e \in Durations : Passed(r, e)' <=> Passed(r, e)
      BY <1>1, PassedKept
    <2> QED
      BY <1>K, <2>1, <2>2
  <1>2. ASSUME NEW t \in Threads, CasMax(t) PROVE MaxIsExact'
    <2>S. PICK s \in Stages, d \in Durations, ns \in Int :
            s = recStage[t] /\ d = recMs[t] /\ ns = Ns(d)
      BY <1>0, <1>2, <1>I, DurationsAssumption, NsIsInt DEF CasMax, OldMaxBehind
    <2>0. /\ recPc[t] = "cas" /\ oldMax[t] <= maxes[s]
          /\ UNCHANGED <<recStage, recMs, samples>>
      BY <1>2, <1>I, <2>S DEF CasMax, OldMaxBehind
    <2>1. CASE UNCHANGED <<maxes, recPc>>
      <3>1. \A r \in Stages : \A e \in Durations : Passed(r, e)' <=> Passed(r, e)
        BY <2>0, <2>1 DEF Passed
      <3> QED
        BY <1>K, <2>1, <3>1
    <2>2. ASSUME recPc' = [recPc EXCEPT ![t] = "hist"], NEW r \in Stages, NEW e \in Durations
          PROVE  Passed(r, e)' <=> Passed(r, e) \/ (r = s /\ e = d)
      BY <1>0, <2>0, <2>2, <2>S DEF Passed
    <2>3. CASE /\ ns <= oldMax[t] /\ recPc' = [recPc EXCEPT ![t] = "hist"]
               /\ UNCHANGED maxes
      <3>1. Ns(d) <= maxes[s]
        BY <1>0, <2>0, <2>3, <2>S
      <3>2. ASSUME NEW r \in Stages
            PROVE  maxes'[r] = 0 \/ \E e \in Durations : Passed(r, e)' /\ Ns(e) = maxes'[r]
        BY <1>I, <2>2, <2>3 DEF MaxIsExact
      <3>3. ASSUME NEW r \in Stages, NEW e \in Durations, Passed(r, e)'
            PROVE  Ns(e) <= maxes'[r]
        BY <1>I, <2>2, <2>3, <3>1, <3>3 DEF MaxIsExact
      <3> QED
        BY <3>2, <3>3 DEF MaxIsExact
    <2>4. CASE /\ ns > oldMax[t] /\ maxes[s] = oldMax[t]
               /\ maxes' = [maxes EXCEPT ![s] = ns]
               /\ recPc' = [recPc EXCEPT ![t] = "hist"]
      <3>0. \A r \in Stages : maxes'[r] = IF r = s THEN ns ELSE maxes[r]
        BY <1>0, <2>4
      <3>1. ASSUME NEW r \in Stages, NEW e \in Durations, Passed(r, e)'
            PROVE  Ns(e) <= maxes'[r]
        <4>1. PICK m \in Int : m = Ns(e)
          BY DurationsAssumption, NsIsInt
        <4>2. CASE Passed(r, e)
          <5>1. m <= maxes[r]
            BY <1>I, <4>1, <4>2 DEF MaxIsExact
          <5>2. maxes[r] \in Int /\ (r = s => maxes[r] < ns)
            BY <1>0, <2>0, <2>4, <2>S
          <5> QED
            BY <3>0, <4>1, <5>1, <5>2
        <4>3. CASE r = s /\ e = d
          BY <2>S, <3>0, <4>3
        <4> QED
          BY <2>2, <2>4, <3>1, <4>2, <4>3
      <3>2. ASSUME NEW r \in Stages
            PROVE  maxes'[r] = 0 \/ \E e \in Durations : Passed(r, e)' /\ Ns(e) = maxes'[r]
        <4>1. CASE r = s
          <5>1. Passed(r, d)'
            BY <2>2, <2>4, <4>1
          <5> QED
            BY <2>S, <3>0, <4>1, <5>1
        <4>2. CASE r # s
          <5>1. maxes[r] = 0 \/ \E e \in Durations : Passed(r, e) /\ Ns(e) = maxes[r]
            BY <1>I DEF MaxIsExact
          <5> QED
            BY <2>2, <2>4, <3>0, <4>2, <5>1
        <4> QED
          BY <4>1, <4>2
      <3> QED
        BY <3>1, <3>2 DEF MaxIsExact
    <2> QED
      BY <1>2, <2>1, <2>3, <2>4, <2>S DEF CasMax
  <1>3. CASE UNCHANGED statVars
    <2>1. UNCHANGED <<maxes, recPc, recStage, recMs, samples>>
      BY <1>3 DEF statVars
    <2>2. \A r \in Stages : \A e \in Durations : Passed(r, e)' <=> Passed(r, e)
      BY <2>1 DEF Passed
    <2> QED
      BY <1>K, <2>1, <2>2
  <1> QED
    BY <1>1, <1>2, <1>3 DEF StatNext, StatStep, RecordStep

LEMMA StatKept ==
  ASSUME CallsInv, StatInv, [Next]_vars
  PROVE  CallsInv' /\ StatInv'
  <1>1. [StatNext]_statVars
    BY StatSteps
  <1>2. StatTypeOK'
    BY <1>1, StatTypesStep DEF StatInv
  <1> QED
    BY <1>1, <1>2, CallsInvStep, OldMaxBehindStep, MaxIsExactStep DEF StatInv

(***************************************************************************)
(* The maximum that Record keeps in m_max_times is exact at every moment,  *)
(* for every number of threads and all durations: no interleaving of the   *)
(* compare-and-exchange loops loses one.                                   *)
(***************************************************************************)
THEOREM MaximumExact == Spec => []MaxIsExact
  <1>1. Init => CallsInv /\ StatInv
    BY CallsInvInit, StatInvInit
  <1>2. CallsInv /\ StatInv /\ [Next]_vars => (CallsInv /\ StatInv)'
    BY StatKept
  <1>3. StatInv => MaxIsExact
    BY DEF StatInv
  <1> QED
    BY <1>1, <1>2, <1>3, PTL DEF Spec

-----------------------------------------------------------------------------
(***************************************************************************)
(* The counters are natural numbers.                                       *)
(***************************************************************************)
CountersInv ==
  /\ success \in Nat /\ fail \in Nat
  /\ prevSuccess \in Nat /\ prevFail \in Nat /\ curSuccess \in Nat
  /\ NoNegativeInterval

LEMMA CountersStep ==
  ASSUME CountersInv, [Next]_vars
  PROVE  CountersInv'
  <1> USE DEF CountersInv, NoNegativeInterval
  <1>1. ASSUME NEW w \in Threads, CountCall(w) PROVE CountersInv'
    <2>1. /\ success' \in {success, success + 1} /\ fail' \in {fail, fail + 1}
          /\ UNCHANGED <<prevSuccess, prevFail, curSuccess>>
      BY <1>1 DEF CountCall, monitorVars
    <2> QED
      BY <2>1
  <1>2. CASE MonitorWake
    <2>1. /\ curSuccess' \in {curSuccess, success}
          /\ UNCHANGED <<success, fail, prevSuccess, prevFail>>
      BY <1>2 DEF MonitorWake, counterVars
    <2> QED
      BY <2>1
  <1>3. CASE MonitorSample
    <2>1. /\ prevSuccess' = curSuccess /\ prevFail' = fail
          /\ UNCHANGED <<success, fail, curSuccess>>
      BY <1>3 DEF MonitorSample, counterVars
    <2> QED
      BY <2>1
  <1>4. CASE UNCHANGED <<success, fail, prevSuccess, prevFail, curSuccess>>
    BY <1>4
  <1>5. ASSUME NEW w \in Threads, NextCall(w) \/ StopTimer(w) \/ Recording(w) \/ AddLatency(w)
        PROVE  UNCHANGED <<success, fail, prevSuccess, prevFail, curSuccess>>
    BY <1>5 DEF NextCall, StopTimer, Recording, AddLatency, loadVars, counterVars, monitorVars
  <1>6. ASSUME MonitorCheck \/ Main
        PROVE  UNCHANGED <<success, fail, prevSuccess, prevFail, curSuccess>>
    BY <1>6 DEF MonitorCheck, Main, JoinWorkers, Report, counterVars, monitorVars
  <1>7. ASSUME UNCHANGED vars
        PROVE  UNCHANGED <<success, fail, prevSuccess, prevFail, curSuccess>>
    BY <1>7 DEF vars, loadVars, counterVars, monitorVars
  <1> QED
    BY <1>1, <1>2, <1>3, <1>4, <1>5, <1>6, <1>7 DEF Next, Worker, Monitor

(***************************************************************************)
(* The monitor loads success and fail one after the other while workers    *)
(* count; still neither what it has loaded nor what it kept is ever ahead  *)
(* of the counters, so no interval it reports is negative.                 *)
(***************************************************************************)
THEOREM IntervalsNotNegative == Spec => []NoNegativeInterval
  <1>1. Init => CountersInv
    BY DEF Init, LoadInit, CountersInv, NoNegativeInterval
  <1>2. CountersInv => NoNegativeInterval
    BY DEF CountersInv
  <1> QED
    BY <1>1, <1>2, CountersStep, PTL DEF Spec

-----------------------------------------------------------------------------
(***************************************************************************)
(* Together the intervals are the calls up to the monitor's last sample:   *)
(* an interval that is not kept had no call in it.                         *)
(***************************************************************************)
IntervalsInv ==
  /\ CountersInv
  /\ history \in Seq(Nat)
  /\ IntervalsAddUp

LEMMA IntervalsInvInit == Init => IntervalsInv
  <1> SUFFICES ASSUME Init PROVE IntervalsInv
    OBVIOUS
  <1>1. history = << >> /\ prevSuccess = 0 /\ prevFail = 0 /\ curSuccess = 0
        /\ success = 0 /\ fail = 0
    BY DEF Init, LoadInit
  <1>2. SumFunction(<< >>) = 0
    <2>1. DOMAIN << >> = {}
      OBVIOUS
    <2> QED
      BY <2>1, SumEmpty DEF SumFunction
  <1>3. history \in Seq(Nat) /\ Len(history) = 0
    BY <1>1
  <1> QED
    BY <1>1, <1>2, <1>3 DEF IntervalsInv, CountersInv, NoNegativeInterval, IntervalsAddUp

LEMMA IntervalsInvStep == IntervalsInv /\ [Next]_vars => IntervalsInv'
  <1> SUFFICES ASSUME IntervalsInv, [Next]_vars PROVE IntervalsInv'
    OBVIOUS
  <1>1. CountersInv'
    BY CountersStep DEF IntervalsInv
  <1>2. CASE UNCHANGED <<history, prevSuccess, prevFail>>
    BY <1>1, <1>2 DEF IntervalsInv, IntervalsAddUp, CountersInv
  <1>3. CASE MonitorSample
    <2> DEFINE calls == (curSuccess - prevSuccess) + (fail - prevFail)
    <2>1. /\ history' = IF calls > 0 THEN Append(history, calls) ELSE history
          /\ prevSuccess' = curSuccess /\ prevFail' = fail
      BY <1>3 DEF MonitorSample
    <2>2. /\ calls \in Nat /\ prevSuccess \in Nat /\ prevFail \in Nat
          /\ curSuccess + fail = (prevSuccess + prevFail) + calls
      BY DEF IntervalsInv, CountersInv, NoNegativeInterval
    <2>3. PICK n \in Nat : n = calls
      BY <2>2
    <2>4. /\ history \in Seq(Nat) /\ SumFunction(history) = prevSuccess + prevFail
          /\ \A i \in 1 .. Len(history) : history[i] > 0
      BY DEF IntervalsInv, IntervalsAddUp
    <2> HIDE DEF calls
    <2>5. CASE n > 0
      <3>1. history' = Append(history, n)
        BY <2>1, <2>3, <2>5
      <3>2. history' \in Seq(Nat) /\ \A i \in 1 .. Len(history') : history'[i] > 0
        BY <2>4, <2>5, <3>1
      <3>3. history \in Seq(Int) /\ n \in Int
        BY <2>4
      <3>4. SumFunction(history') = SumFunction(history) + n
        BY <3>1, <3>3, SumAppend
      <3>5. SumFunction(history') = prevSuccess' + prevFail'
        BY <2>1, <2>2, <2>3, <2>4, <3>4
      <3> QED
        BY <1>1, <3>2, <3>5 DEF IntervalsInv, IntervalsAddUp, CountersInv
    <2>6. CASE n = 0
      <3>1. history' = history
        BY <2>1, <2>3, <2>6
      <3>2. SumFunction(history') = prevSuccess' + prevFail'
        BY <2>1, <2>2, <2>3, <2>4, <2>6, <3>1
      <3> QED
        BY <1>1, <2>4, <3>1, <3>2 DEF IntervalsInv, IntervalsAddUp, CountersInv
    <2> QED
      BY <2>5, <2>6
  <1>4. ASSUME NEW w \in Threads, Worker(w)
        PROVE  UNCHANGED <<history, prevSuccess, prevFail>>
    BY <1>4 DEF Worker, NextCall, StopTimer, Recording, CountCall, AddLatency, loadVars, monitorVars
  <1>5. ASSUME MonitorCheck \/ MonitorWake \/ Main
        PROVE  UNCHANGED <<history, prevSuccess, prevFail>>
    BY <1>5 DEF MonitorCheck, MonitorWake, Main, JoinWorkers, Report, monitorVars
  <1>6. ASSUME UNCHANGED vars
        PROVE  UNCHANGED <<history, prevSuccess, prevFail>>
    BY <1>6 DEF vars, loadVars, monitorVars
  <1> QED
    BY <1>2, <1>3, <1>4, <1>5, <1>6 DEF Next, Monitor

(***************************************************************************)
(* The monitor loads the two counters one after the other while workers    *)
(* count.  Still each interval it keeps is positive and together they are  *)
(* what the counters held at its last sample: no call falls between two    *)
(* intervals or into both.                                                 *)
(***************************************************************************)
THEOREM IntervalsAddUpCorrect == Spec => []IntervalsAddUp
  <1>1. IntervalsInv => IntervalsAddUp
    BY DEF IntervalsInv
  <1> QED
    BY <1>1, IntervalsInvInit, IntervalsInvStep, PTL DEF Spec

-----------------------------------------------------------------------------
(***************************************************************************)
(* What a worker has before it: a call is counted once and, where the      *)
(* program times its calls, measured once, and main goes on only when      *)
(* nothing is left.                                                        *)
(***************************************************************************)
Steps == Stages \cup {"count", "latency"}

WorkInv ==
  /\ setup \in Setups
  /\ left \in [Threads -> 0 .. Calls]
  /\ todo \in [Threads -> Seq(Steps)]
  /\ \A w \in Threads : AtMostOnce(todo[w], "count") /\ AtMostOnce(todo[w], "TOTAL")
  /\ mainPc # "workers" => \A w \in Threads : WorkerDone(w)

(***************************************************************************)
(* A controller says "failed" of the call being counted; client.cc's says  *)
(* so of any later one too.                                                *)
(***************************************************************************)
OutcomeInv ==
  /\ outcome \in [Threads -> {"ok", "errcode", "failed"}]
  /\ failed \in [Threads -> BOOLEAN]
  /\ program = "benchmark_stats" => \A w \in Threads : outcome[w] = "ok"
  /\ program = "bench_client" =>
       \A w \in Threads : failed[w] => Has(todo[w], "count") /\ outcome[w] = "failed"

(***************************************************************************)
(* The calls of each worker that are still to be counted, and whether the  *)
(* one under way succeeded.                                                *)
(***************************************************************************)
Uncounted == [w \in Threads |-> left[w] + (IF Has(todo[w], "count") THEN 1 ELSE 0)]

OkPending == [w \in Threads |-> IF Has(todo[w], "count") /\ outcome[w] = "ok" THEN 1 ELSE 0]

UncountedSum == SumFunctionOnSet(Uncounted, Threads)
OkPendingSum == SumFunctionOnSet(OkPending, Threads)

(***************************************************************************)
(* Counted and uncounted calls together are all calls, at every moment.    *)
(***************************************************************************)
AccountInv ==
  /\ success \in Nat /\ fail \in Nat /\ really \in Nat
  /\ success + fail + UncountedSum = Cardinality(setup.workers) * Calls
  /\ IF program = "client" THEN success + OkPendingSum <= really
                           ELSE success + OkPendingSum = really
  /\ CallsAccounted

-----------------------------------------------------------------------------
(***************************************************************************)
(* A sequence that ends in two steps, neither of them before.              *)
(***************************************************************************)
LEMMA TwoAtEnd ==
  ASSUME NEW q \in Seq(Stages \ {"TOTAL"}), NEW x \in {"count", "TOTAL"}, NEW y \in {"count", "TOTAL"},
         x # y
  PROVE  /\ q \o <<x, y>> \in Seq(Steps)
         /\ Has(q \o <<x, y>>, x) /\ AtMostOnce(q \o <<x, y>>, x)
         /\ Has(q \o <<x, y>>, y) /\ AtMostOnce(q \o <<x, y>>, y)
  <1>1. PICK n \in Nat : n = Len(q)
    OBVIOUS
  <1>2. PICK r : r = q \o <<x, y>>
    OBVIOUS
  <1>3. x \in Steps /\ y \in Steps /\ \A z \in Stages \ {"TOTAL"} : z \in Steps /\ z # x /\ z # y
    BY StagesAssumption, StepsAssumption DEF Steps
  <1>4. q \in Seq(Steps) /\ <<x, y>> \in Seq(Steps)
    BY <1>3
  <1>5. /\ r \in Seq(Steps) /\ Len(r) = n + 2
        /\ \A i \in 1 .. n : r[i] = q[i]
        /\ r[n + 1] = x /\ r[n + 2] = y
    BY <1>1, <1>2, <1>4
  <1>6. \A i \in 1 .. n : r[i] # x /\ r[i] # y
    BY <1>1, <1>3, <1>5
  <1>7. \A i \in 1 .. (n + 2) : (r[i] = x <=> i = n + 1) /\ (r[i] = y <=> i = n + 2)
    BY <1>5, <1>6
  <1>8. n + 1 \in 1 .. (n + 2) /\ n + 2 \in 1 .. (n + 2)
    OBVIOUS
  <1>9. Has(r, x) /\ AtMostOnce(r, x) /\ Has(r, y) /\ AtMostOnce(r, y)
    BY <1>5, <1>7, <1>8 DEF Has, AtMostOnce
  <1> QED
    BY <1>2, <1>5, <1>9

LEMMA WorkShape ==
  ASSUME setup \in Setups, NEW o, NEW work \in Work(o)
  PROVE  /\ work \in Seq(Steps)
         /\ Has(work, "count") /\ AtMostOnce(work, "count")
         /\ Timing => Has(work, "TOTAL")
         /\ AtMostOnce(work, "TOTAL")
  <1>1. setup.timed \in Seq(Stages \ {"TOTAL"})
    BY SetupsAssumption
  <1>2. CASE program = "qps_benchmark"
    <2>1. work = <<"count", "latency">> \/ work = <<"count">>
      BY <1>2 DEF Work
    <2>2. "count" \in Steps /\ "latency" \in Steps
      BY DEF Steps
    <2>3. ~Timing
      BY <1>2 DEF Timing
    <2>4. CASE work = <<"count", "latency">>
      <3>1. work \in Seq(Steps) /\ Len(work) = 2 /\ work[1] = "count" /\ work[2] = "latency"
        BY <2>2, <2>4
      <3>2. \A i \in 1 .. 2 : (work[i] = "count" <=> i = 1) /\ work[i] # "TOTAL"
        BY <3>1
      <3> QED
        BY <2>3, <3>1, <3>2 DEF Has, AtMostOnce
    <2>5. CASE work = <<"count">>
      <3>1. work \in Seq(Steps) /\ Len(work) = 1 /\ work[1] = "count"
        BY <2>2, <2>5
      <3>2. \A i \in 1 .. 1 : i = 1 /\ work[i] = "count"
        BY <3>1
      <3> QED
        BY <2>3, <3>1, <3>2 DEF Has, AtMostOnce
    <2> QED
      BY <2>1, <2>4, <2>5
  <1>3. CASE program = "benchmark_stats"
    <2>1. work = setup.timed \o <<"count", "TOTAL">>
      BY <1>3 DEF Work
    <2> QED
      BY <1>1, <2>1, TwoAtEnd
  <1>4. CASE program # "qps_benchmark" /\ program # "benchmark_stats"
    <2>1. PICK n \in 0 .. Len(setup.timed) : work = SubSeq(setup.timed, 1, n) \o <<"TOTAL", "count">>
      <3>1. Len(setup.timed) \in 0 .. Len(setup.timed)
        BY <1>1
      <3> QED
        BY <1>4, <3>1 DEF Work
    <2>2. SubSeq(setup.timed, 1, n) \in Seq(Stages \ {"TOTAL"})
      BY <1>1
    <2> QED
      BY <2>1, <2>2, TwoAtEnd
  <1> QED
    BY <1>2, <1>3, <1>4

LEMMA WorkInvInit == Init => WorkInv /\ OutcomeInv
  <1> SUFFICES ASSUME Init PROVE WorkInv /\ OutcomeInv
    OBVIOUS
  <1>1. /\ setup \in Setups /\ mainPc = "workers"
        /\ todo = [w \in Threads |-> << >>]
        /\ left = [w \in Threads |-> IF w \in setup.workers THEN Calls ELSE 0]
        /\ outcome = [w \in Threads |-> "ok"] /\ failed = [w \in Threads |-> FALSE]
    BY DEF Init, LoadInit
  <1>2. << >> \in Seq(Steps) /\ Len(<< >>) = 0
    OBVIOUS
  <1>3. \A x : AtMostOnce(<< >>, x)
    BY <1>2 DEF AtMostOnce
  <1>4. left \in [Threads -> 0 .. Calls] /\ todo \in [Threads -> Seq(Steps)]
    BY <1>1, <1>2, CallsAssumption
  <1>5. WorkInv
    BY <1>1, <1>3, <1>4 DEF WorkInv
  <1>6. OutcomeInv
    BY <1>1 DEF OutcomeInv
  <1> QED
    BY <1>5, <1>6

(***************************************************************************)
(* What a step of a worker does to what it has before it.                  *)
(***************************************************************************)
Pops(w) ==
  /\ todo[w] # << >>
  /\ todo' = [todo EXCEPT ![w] = Tail(@)]
  /\ UNCHANGED <<setup, left, outcome, mainPc, really>>

LEMMA PopSteps ==
  ASSUME NEW w \in Threads, StopTimer(w) \/ CountCall(w) \/ AddLatency(w)
  PROVE  Pops(w)
  BY DEF Pops, StopTimer, CountCall, AddLatency, setupVars, mainVars

LEMMA QuietSteps ==
  ASSUME \/ \E w \in Threads : Recording(w)
         \/ Monitor \/ Main \/ UNCHANGED vars
  PROVE  UNCHANGED <<setup, todo, left, outcome, failed, really, success, fail>>
  <1>1. ASSUME NEW w \in Threads, Recording(w)
        PROVE  UNCHANGED <<setup, todo, left, outcome, failed, really, success, fail>>
    BY <1>1 DEF Recording, loadVars, setupVars, workerVars, counterVars
  <1>2. ASSUME Monitor
        PROVE  UNCHANGED <<setup, todo, left, outcome, failed, really, success, fail>>
    BY <1>2 DEF Monitor, MonitorCheck, MonitorWake, MonitorSample, setupVars, workerVars, counterVars
  <1>3. ASSUME Main
        PROVE  UNCHANGED <<setup, todo, left, outcome, failed, really, success, fail>>
    BY <1>3 DEF Main, JoinWorkers, Report, setupVars, workerVars, counterVars
  <1>4. ASSUME UNCHANGED vars
        PROVE  UNCHANGED <<setup, todo, left, outcome, failed, really, success, fail>>
    BY <1>4 DEF vars, loadVars, setupVars, workerVars, counterVars
  <1> QED
    BY <1>1, <1>2, <1>3, <1>4

LEMMA WorkInvStep ==
  ASSUME WorkInv, StatTypeOK, [Next]_vars
  PROVE  WorkInv'
  <1>0. /\ setup \in Setups /\ left \in [Threads -> 0 .. Calls]
        /\ todo \in [Threads -> Seq(Steps)]
        /\ \A w \in Threads : AtMostOnce(todo[w], "count") /\ AtMostOnce(todo[w], "TOTAL")
        /\ mainPc # "workers" => \A w \in Threads : WorkerDone(w)
        /\ DOMAIN recPc = Threads
    BY DEF WorkInv, StatTypeOK
  <1>1. ASSUME NEW w \in Threads, NextCall(w) PROVE WorkInv'
    <2>o. PICK o : \E work \in Work(o) : todo' = [todo EXCEPT ![w] = work]
      BY <1>1 DEF NextCall
    <2>1. PICK work \in Work(o) : todo' = [todo EXCEPT ![w] = work]
      BY <2>o
    <2>2. /\ left[w] > 0 /\ left' = [left EXCEPT ![w] = @ - 1]
          /\ UNCHANGED <<setup, mainPc>>
      BY <1>1 DEF NextCall, MoreCalls, setupVars, mainVars
    <2>3. left' \in [Threads -> 0 .. Calls]
      BY <1>0, <2>2, CallsAssumption
    <2>4. work \in Seq(Steps) /\ AtMostOnce(work, "count") /\ AtMostOnce(work, "TOTAL")
      BY <1>0, <2>1, WorkShape
    <2>5. /\ todo' \in [Threads -> Seq(Steps)]
          /\ \A u \in Threads : todo'[u] = IF u = w THEN work ELSE todo[u]
      BY <1>0, <2>1, <2>4
    <2>6. \A u \in Threads : AtMostOnce(todo'[u], "count") /\ AtMostOnce(todo'[u], "TOTAL")
      BY <1>0, <2>4, <2>5
    <2>7. mainPc = "workers"
      BY <1>0, <2>2 DEF WorkerDone
    <2> QED
      BY <1>0, <2>2, <2>3, <2>5, <2>6, <2>7 DEF WorkInv
  <1>2. ASSUME NEW w \in Threads, Pops(w) PROVE WorkInv'
    <2>1. /\ todo[w] # << >> /\ todo' = [todo EXCEPT ![w] = Tail(@)]
          /\ UNCHANGED <<setup, left, mainPc>>
      BY <1>2 DEF Pops
    <2>2. /\ Tail(todo[w]) \in Seq(Steps)
          /\ AtMostOnce(Tail(todo[w]), "count") /\ AtMostOnce(Tail(todo[w]), "TOTAL")
      BY <1>0, <2>1, TailHas
    <2>3. /\ todo' \in [Threads -> Seq(Steps)]
          /\ \A u \in Threads : todo'[u] = IF u = w THEN Tail(todo[w]) ELSE todo[u]
      BY <1>0, <2>1, <2>2
    <2>4. \A u \in Threads : AtMostOnce(todo'[u], "count") /\ AtMostOnce(todo'[u], "TOTAL")
      BY <1>0, <2>2, <2>3
    <2>5. mainPc = "workers"
      BY <1>0, <2>1 DEF WorkerDone
    <2> QED
      BY <1>0, <2>1, <2>3, <2>4, <2>5 DEF WorkInv
  <1>3. ASSUME UNCHANGED <<setup, todo, left>>,
               mainPc' # "workers" => \A w \in Threads : WorkerDone(w)'
        PROVE  WorkInv'
    BY <1>0, <1>3 DEF WorkInv
  <1>4. ASSUME NEW w \in Threads, Recording(w) PROVE WorkInv'
    <2>1. mainPc' = mainPc /\ recPc[w] # "idle"
      BY <1>4 DEF Recording, RecordStep, LoadMax, CasMax, CountBucket, loadVars, mainVars
    <2>2. mainPc = "workers"
      BY <1>0, <2>1 DEF WorkerDone
    <2>3. UNCHANGED <<setup, todo, left>>
      BY <1>4, QuietSteps
    <2> QED
      BY <1>3, <2>1, <2>2, <2>3
  <1>5. ASSUME Monitor \/ Main \/ UNCHANGED vars PROVE WorkInv'
    <2>1. UNCHANGED <<setup, todo, left>>
      BY <1>5, QuietSteps
    <2>2. UNCHANGED recPc
      BY <1>5 DEF Monitor, MonitorCheck, MonitorWake, MonitorSample, Main, JoinWorkers, Report,
                  vars, statVars
    <2>3. mainPc' = mainPc \/ (mainPc = "monitor" /\ mainPc' = "reported")
          \/ \A w \in Threads : WorkerDone(w)
      BY <1>5 DEF Monitor, MonitorCheck, MonitorWake, MonitorSample, Main, JoinWorkers, Report,
                  vars, loadVars, mainVars
    <2>4. mainPc' # "workers" => \A w \in Threads : WorkerDone(w)
      BY <1>0, <2>3
    <2>5. mainPc' # "workers" => \A w \in Threads : WorkerDone(w)'
      BY <2>1, <2>2, <2>4 DEF WorkerDone
    <2> QED
      BY <1>3, <2>1, <2>5
  <1> QED
    BY <1>1, <1>2, <1>4, <1>5, PopSteps DEF Next, Worker

LEMMA OutcomeInvStep ==
  ASSUME WorkInv, OutcomeInv, [Next]_vars
  PROVE  OutcomeInv'
  <1>0. /\ setup \in Setups /\ todo \in [Threads -> Seq(Steps)]
        /\ \A w \in Threads : AtMostOnce(todo[w], "count")
    BY DEF WorkInv
  <1>1. /\ outcome \in [Threads -> {"ok", "errcode", "failed"}]
        /\ failed \in [Threads -> BOOLEAN]
        /\ program = "benchmark_stats" => \A w \in Threads : outcome[w] = "ok"
        /\ program = "bench_client" =>
             \A w \in Threads : failed[w] => Has(todo[w], "count") /\ outcome[w] = "failed"
    BY DEF OutcomeInv
  <1>2. ASSUME NEW w \in Threads, NextCall(w) PROVE OutcomeInv'
    <2>1. PICK o \in Outcomes :
            /\ outcome' = [outcome EXCEPT ![w] = o]
            /\ failed' = [failed EXCEPT ![w] = @ \/ o = "failed"]
            /\ \E work \in Work(o) : todo' = [todo EXCEPT ![w] = work]
      BY <1>2 DEF NextCall
    <2>2. todo[w] = << >> /\ setup' = setup
      BY <1>2 DEF NextCall, setupVars
    <2>3. PICK work \in Work(o) : todo' = [todo EXCEPT ![w] = work]
      BY <2>1
    <2>4. Has(work, "count")
      BY <1>0, <2>3, WorkShape
    <2>5. \A u \in Threads : todo'[u] = IF u = w THEN work ELSE todo[u]
      BY <1>0, <2>3
    <2>6. o \in {"ok", "errcode", "failed"} /\ (program = "benchmark_stats" => o = "ok")
      BY DEF Outcomes
    <2>7. /\ outcome' \in [Threads -> {"ok", "errcode", "failed"}]
          /\ \A u \in Threads : outcome'[u] = IF u = w THEN o ELSE outcome[u]
      BY <1>1, <2>1, <2>6
    <2>8. failed' \in [Threads -> BOOLEAN]
      BY <1>1, <2>1
    <2>9. ASSUME program = "bench_client", NEW u \in Threads, failed'[u]
          PROVE  Has(todo'[u], "count") /\ outcome'[u] = "failed"
      <3>1. CASE u = w
        <4>1. ~Has(todo[w], "count")
          BY <2>2 DEF Has
        <4>2. ~failed[w]
          BY <1>1, <2>9, <4>1
        <4>3. failed'[w] => failed[w] \/ o = "failed"
          BY <1>1, <2>1
        <4> QED
          BY <2>4, <2>5, <2>7, <2>9, <3>1, <4>2, <4>3
      <3>2. CASE u # w
        <4>1. failed'[u] => failed[u]
          BY <1>1, <2>1, <3>2
        <4> QED
          BY <1>1, <2>5, <2>7, <2>9, <3>2, <4>1
      <3> QED
        BY <3>1, <3>2
    <2> QED
      BY <1>1, <2>2, <2>6, <2>7, <2>8, <2>9 DEF OutcomeInv, program
  <1>3. ASSUME NEW w \in Threads, CountCall(w) PROVE OutcomeInv'
    <2>1. /\ failed' = [failed EXCEPT ![w] = ResetFailed(w)]
          /\ todo[w] # << >> /\ todo' = [todo EXCEPT ![w] = Tail(@)]
          /\ UNCHANGED <<setup, outcome>>
      BY <1>3 DEF CountCall, setupVars
    <2>2. ResetFailed(w) \in BOOLEAN
      BY DEF ResetFailed
    <2>3. failed' \in [Threads -> BOOLEAN]
      BY <1>1, <2>1, <2>2
    <2>4. ASSUME program = "bench_client", NEW u \in Threads, failed'[u]
          PROVE  Has(todo'[u], "count") /\ outcome'[u] = "failed"
      <3>1. u # w
        <4>1. ~ResetFailed(w)
          BY <2>4 DEF ResetFailed
        <4> QED
          BY <1>1, <2>1, <2>4, <4>1
      <3>2. failed'[u] => failed[u]
        BY <1>1, <2>1, <3>1
      <3>3. todo'[u] = todo[u]
        BY <1>0, <2>1, <3>1
      <3> QED
        BY <1>1, <2>1, <2>4, <3>2, <3>3
    <2> QED
      BY <1>1, <2>1, <2>3, <2>4 DEF OutcomeInv, program
  <1>4. ASSUME NEW w \in Threads, StopTimer(w) \/ AddLatency(w) PROVE OutcomeInv'
    <2>1. /\ Head(todo[w]) # "count"
          /\ todo[w] # << >> /\ todo' = [todo EXCEPT ![w] = Tail(@)]
          /\ UNCHANGED <<setup, outcome, failed>>
      BY <1>4, StepsAssumption DEF StopTimer, AddLatency, setupVars
    <2>2. Has(Tail(todo[w]), "count") <=> Has(todo[w], "count")
      BY <1>0, <2>1, TailHas
    <2>3. \A u \in Threads : Has(todo[u], "count") => Has(todo'[u], "count")
      BY <1>0, <2>1, <2>2
    <2> QED
      BY <1>1, <2>1, <2>3 DEF OutcomeInv, program
  <1>5. ASSUME UNCHANGED <<setup, todo, outcome, failed>> PROVE OutcomeInv'
    BY <1>1, <1>5 DEF OutcomeInv, program
  <1> QED
    BY <1>2, <1>3, <1>4, <1>5, QuietSteps DEF Next, Worker

(***************************************************************************)
(* A sum over the threads when one of them takes a step.                   *)
(***************************************************************************)
LEMMA ThreadSum ==
  ASSUME NEW f \in [Threads -> Int], NEW g \in [Threads -> Int], NEW w \in Threads,
         \A u \in Threads \ {w} : g[u] = f[u]
  PROVE  /\ SumFunctionOnSet(f, Threads) \in Int
         /\ SumFunctionOnSet(g, Threads) = SumFunctionOnSet(f, Threads) + (g[w] - f[w])
  <1>1. \A u \in Threads : f[u] \in Int /\ g[u] \in Int
    OBVIOUS
  <1>2. SumFunctionOnSet(f, Threads) \in Int
    BY <1>1, ThreadsAssumption, SumInt
  <1>3. SumFunctionOnSet(g, Threads) = SumFunctionOnSet(f, Threads) + (g[w] - f[w])
    BY <1>1, ThreadsAssumption, SumChange
  <1> QED
    BY <1>2, <1>3

LEMMA PendingTypes ==
  ASSUME WorkInv
  PROVE  Uncounted \in [Threads -> Int] /\ OkPending \in [Threads -> Int]
  <1>1. \A w \in Threads : left[w] \in Int
    BY CallsAssumption DEF WorkInv
  <1> QED
    BY <1>1 DEF Uncounted, OkPending

LEMMA PendingTypesNext ==
  ASSUME WorkInv'
  PROVE  Uncounted' \in [Threads -> Int] /\ OkPending' \in [Threads -> Int]
  <1>1. \A w \in Threads : left'[w] \in Int
    BY CallsAssumption DEF WorkInv
  <1> QED
    BY <1>1 DEF Uncounted, OkPending

LEMMA AccountInit ==
  ASSUME Init
  PROVE  AccountInv
  <1>1. /\ setup \in Setups /\ mainPc = "workers" /\ success = 0 /\ fail = 0 /\ really = 0
        /\ todo = [w \in Threads |-> << >>]
        /\ left = [w \in Threads |-> IF w \in setup.workers THEN Calls ELSE 0]
    BY DEF Init, LoadInit
  <1>2. \A x : ~Has(<< >>, x)
    BY DEF Has
  <1>3. Calls \in Int /\ setup.workers \subseteq Threads
    BY <1>1, CallsAssumption, SetupsAssumption
  <1>4. \A w \in Threads : Uncounted[w] = IF w \in setup.workers THEN Calls ELSE 0
    BY <1>1, <1>2, <1>3 DEF Uncounted
  <1>5. UncountedSum = Cardinality(setup.workers) * Calls
    BY <1>3, <1>4, ThreadsAssumption, SumWithin DEF UncountedSum
  <1>6. \A w \in Threads : OkPending[w] = 0
    BY <1>1, <1>2 DEF OkPending
  <1>7. OkPendingSum = 0
    BY <1>6, ThreadsAssumption, SumZero DEF OkPendingSum
  <1>8. Cardinality(setup.workers) \in Nat
    BY <1>3, ThreadsAssumption, FS_Subset, FS_CardinalityType
  <1>9. Cardinality(setup.workers) * Calls \in Int
    BY <1>3, <1>8
  <1>10. success + fail + UncountedSum = Cardinality(setup.workers) * Calls
    BY <1>1, <1>5, <1>9
  <1>11. /\ success + OkPendingSum = really /\ success + OkPendingSum <= really
         /\ success \in Nat /\ fail \in Nat /\ really \in Nat
    BY <1>1, <1>7
  <1> QED
    BY <1>1, <1>10, <1>11 DEF AccountInv, CallsAccounted

(***************************************************************************)
(* Beginning a call moves it from the calls left to the one under way.     *)
(***************************************************************************)
LEMMA NextCallAccount ==
  ASSUME WorkInv, OutcomeInv, WorkInv', really \in Nat, NEW w \in Threads, NextCall(w)
  PROVE  /\ UncountedSum' = UncountedSum /\ UncountedSum \in Int /\ OkPendingSum \in Int
         /\ \E d \in {0, 1} : really' = really + d /\ OkPendingSum' = OkPendingSum + d
  <1>0. /\ todo \in [Threads -> Seq(Steps)] /\ left \in [Threads -> 0 .. Calls] /\ setup \in Setups
        /\ DOMAIN outcome = Threads
    BY DEF WorkInv, OutcomeInv
  <1>1. PICK o \in Outcomes :
          /\ outcome' = [outcome EXCEPT ![w] = o]
          /\ really' = (IF o = "ok" THEN really + 1 ELSE really)
          /\ \E work \in Work(o) : todo' = [todo EXCEPT ![w] = work]
    BY DEF NextCall
  <1>2. PICK work \in Work(o) : todo' = [todo EXCEPT ![w] = work]
    BY <1>1
  <1>3. todo[w] = << >> /\ left' = [left EXCEPT ![w] = @ - 1]
    BY DEF NextCall
  <1>4. Has(todo'[w], "count") /\ ~Has(todo[w], "count")
    <2>1. Has(work, "count")
      BY <1>0, WorkShape
    <2>2. todo'[w] = work /\ ~Has(<< >>, "count")
      BY <1>0, <1>2 DEF Has
    <2> QED
      BY <1>3, <2>1, <2>2
  <1>5. /\ Uncounted \in [Threads -> Int] /\ Uncounted' \in [Threads -> Int]
        /\ OkPending \in [Threads -> Int] /\ OkPending' \in [Threads -> Int]
    BY PendingTypes, PendingTypesNext
  <1>6. \A u \in Threads \ {w} : todo'[u] = todo[u] /\ left'[u] = left[u] /\ outcome'[u] = outcome[u]
    BY <1>0, <1>1, <1>2, <1>3
  <1>7. \A u \in Threads \ {w} : Uncounted'[u] = Uncounted[u] /\ OkPending'[u] = OkPending[u]
    BY <1>6 DEF Uncounted, OkPending
  <1>8. Uncounted'[w] = Uncounted[w]
    <2>1. left[w] \in Int /\ left'[w] = left[w] - 1
      BY <1>0, <1>3, CallsAssumption
    <2>2. Uncounted[w] = left[w] + 0 /\ Uncounted'[w] = left'[w] + 1
      BY <1>4 DEF Uncounted
    <2> QED
      BY <2>1, <2>2
  <1>9. OkPending[w] = 0 /\ OkPending'[w] = IF o = "ok" THEN 1 ELSE 0
    BY <1>0, <1>1, <1>4 DEF OkPending
  <1>10. /\ UncountedSum \in Int
         /\ UncountedSum' = UncountedSum + (Uncounted'[w] - Uncounted[w])
    BY <1>5, <1>7, ThreadSum DEF UncountedSum
  <1>11. /\ OkPendingSum \in Int
         /\ OkPendingSum' = OkPendingSum + (OkPending'[w] - OkPending[w])
    BY <1>5, <1>7, ThreadSum DEF OkPendingSum
  <1>12. UncountedSum' = UncountedSum
    <2>1. Uncounted[w] \in Int
      BY <1>5
    <2> QED
      BY <1>8, <1>10, <2>1
  <1>13. \E d \in {0, 1} : really' = really + d /\ OkPendingSum' = OkPendingSum + d
    <2>1. CASE o = "ok"
      <3>1. really' = really + 1 /\ OkPendingSum' = OkPendingSum + 1
        BY <1>1, <1>9, <1>11, <2>1
      <3> QED
        BY <3>1
    <2>2. CASE o # "ok"
      <3>1. really' = really + 0 /\ OkPendingSum' = OkPendingSum + 0
        BY <1>1, <1>9, <1>11, <2>2
      <3> QED
        BY <3>1
    <2> QED
      BY <2>1, <2>2
  <1> QED
    BY <1>10, <1>11, <1>12, <1>13

(***************************************************************************)
(* A step that counts takes its call out of both sums, any other step of   *)
(* the call leaves them as they are.                                       *)
(***************************************************************************)
LEMMA PopAccount ==
  ASSUME WorkInv, OutcomeInv, WorkInv', NEW w \in Threads, Pops(w),
         NEW c \in {0, 1}, c = (IF Head(todo[w]) = "count" THEN 1 ELSE 0),
         NEW k \in {0, 1}, k = (IF outcome[w] = "ok" THEN c ELSE 0)
  PROVE  /\ UncountedSum \in Int /\ UncountedSum' = UncountedSum - c
         /\ OkPendingSum \in Int /\ OkPendingSum' = OkPendingSum - k
  <1>0. /\ todo \in [Threads -> Seq(Steps)] /\ left \in [Threads -> 0 .. Calls]
        /\ AtMostOnce(todo[w], "count")
    BY DEF WorkInv
  <1>1. /\ todo[w] # << >> /\ todo' = [todo EXCEPT ![w] = Tail(@)]
        /\ left' = left /\ outcome' = outcome
    BY DEF Pops
  <1>2. /\ Head(todo[w]) = "count" => Has(todo[w], "count") /\ ~Has(Tail(todo[w]), "count")
        /\ Head(todo[w]) # "count" => (Has(Tail(todo[w]), "count") <=> Has(todo[w], "count"))
    BY <1>0, <1>1, TailHas
  <1>3. todo'[w] = Tail(todo[w]) /\ \A u \in Threads \ {w} : todo'[u] = todo[u]
    BY <1>0, <1>1
  <1>4. /\ Uncounted \in [Threads -> Int] /\ Uncounted' \in [Threads -> Int]
        /\ OkPending \in [Threads -> Int] /\ OkPending' \in [Threads -> Int]
    BY PendingTypes, PendingTypesNext
  <1>5. \A u \in Threads \ {w} : Uncounted'[u] = Uncounted[u] /\ OkPending'[u] = OkPending[u]
    BY <1>1, <1>3 DEF Uncounted, OkPending
  <1>6. Uncounted'[w] - Uncounted[w] = -c /\ OkPending'[w] - OkPending[w] = -k
    <2>1. left[w] \in Int
      BY <1>0, CallsAssumption
    <2>2. /\ Uncounted[w] = left[w] + (IF Has(todo[w], "count") THEN 1 ELSE 0)
          /\ Uncounted'[w] = left[w] + (IF Has(Tail(todo[w]), "count") THEN 1 ELSE 0)
          /\ OkPending[w] = IF Has(todo[w], "count") /\ outcome[w] = "ok" THEN 1 ELSE 0
          /\ OkPending'[w] = IF Has(Tail(todo[w]), "count") /\ outcome[w] = "ok" THEN 1 ELSE 0
      BY <1>1, <1>3 DEF Uncounted, OkPending
    <2>3. CASE Head(todo[w]) = "count"
      BY <1>2, <2>1, <2>2, <2>3
    <2>4. CASE Head(todo[w]) # "count"
      BY <1>2, <2>1, <2>2, <2>4
    <2> QED
      BY <2>3, <2>4
  <1>7. /\ UncountedSum \in Int
        /\ UncountedSum' = UncountedSum + (Uncounted'[w] - Uncounted[w])
    BY <1>4, <1>5, ThreadSum DEF UncountedSum
  <1>8. /\ OkPendingSum \in Int
        /\ OkPendingSum' = OkPendingSum + (OkPending'[w] - OkPending[w])
    BY <1>4, <1>5, ThreadSum DEF OkPendingSum
  <1> QED
    BY <1>6, <1>7, <1>8

(***************************************************************************)
(* What CountCall adds to the success count, and that a call counted as    *)
(* one succeeded.                                                          *)
(***************************************************************************)
LEMMA CountedAs ==
  ASSUME OutcomeInv, WorkInv, NEW w \in Threads, Has(todo[w], "count")
  PROVE  /\ Succeeded(w) => outcome[w] = "ok"
         /\ program # "client" /\ outcome[w] = "ok" => Succeeded(w)
  <1>1. program \in {"client", "bench_client", "qps_benchmark", "benchmark_stats"}
    BY SetupsAssumption DEF WorkInv, program
  <1>2. CASE program = "benchmark_stats"
    BY <1>2 DEF Succeeded, OutcomeInv
  <1>3. CASE program = "qps_benchmark"
    BY <1>3 DEF Succeeded
  <1>4. CASE program = "client"
    BY <1>4 DEF Succeeded
  <1>5. CASE program = "bench_client"
    <2>1. failed[w] => outcome[w] = "failed"
      BY <1>5 DEF OutcomeInv
    <2>2. Succeeded(w) <=> ~failed[w] /\ outcome[w] = "ok"
      BY <1>5 DEF Succeeded
    <2> QED
      BY <2>1, <2>2
  <1> QED
    BY <1>1, <1>2, <1>3, <1>4, <1>5

LEMMA AccountStep ==
  ASSUME WorkInv, OutcomeInv, AccountInv, WorkInv', [Next]_vars
  PROVE  AccountInv'
  <1>0. /\ success \in Nat /\ fail \in Nat /\ really \in Nat
        /\ success + fail + UncountedSum = Cardinality(setup.workers) * Calls
        /\ IF program = "client" THEN success + OkPendingSum <= really
                                 ELSE success + OkPendingSum = really
        /\ CallsAccounted
    BY DEF AccountInv
  <1>W. /\ mainPc # "workers" => \A w \in Threads : WorkerDone(w)
        /\ todo \in [Threads -> Seq(Steps)] /\ \A w \in Threads : AtMostOnce(todo[w], "count")
    BY DEF WorkInv
  <1>1. ASSUME NEW w \in Threads, NextCall(w) PROVE AccountInv'
    <2>1. mainPc = "workers"
      BY <1>1, <1>W DEF NextCall, MoreCalls, WorkerDone
    <2>2. UNCHANGED <<setup, success, fail, mainPc>>
      BY <1>1 DEF NextCall, setupVars, counterVars, mainVars
    <2>3. /\ UncountedSum' = UncountedSum /\ OkPendingSum \in Int
          /\ \E d \in {0, 1} : really' = really + d /\ OkPendingSum' = OkPendingSum + d
      BY <1>0, <1>1, NextCallAccount
    <2>4. PICK d \in {0, 1} : really' = really + d /\ OkPendingSum' = OkPendingSum + d
      BY <2>3
    <2>5. really' \in Nat
      BY <1>0, <2>4
    <2>6. IF program = "client" THEN success + OkPendingSum' <= really'
                                ELSE success + OkPendingSum' = really'
      BY <1>0, <2>3, <2>4
    <2>7. CallsAccounted'
      BY <2>1, <2>2 DEF CallsAccounted
    <2> QED
      BY <1>0, <2>2, <2>3, <2>5, <2>6, <2>7 DEF AccountInv, program
  <1>2. ASSUME NEW w \in Threads, StopTimer(w) \/ AddLatency(w) PROVE AccountInv'
    <2>1. Pops(w)
      BY <1>2, PopSteps
    <2>2. Head(todo[w]) # "count" /\ UNCHANGED <<success, fail>>
      BY <1>2, StepsAssumption DEF StopTimer, AddLatency, counterVars
    <2>3. /\ UncountedSum \in Int /\ UncountedSum' = UncountedSum - 0
          /\ OkPendingSum \in Int /\ OkPendingSum' = OkPendingSum - 0
      BY <2>1, <2>2, PopAccount
    <2>4. UncountedSum' = UncountedSum /\ OkPendingSum' = OkPendingSum
      BY <2>3
    <2>5. mainPc = "workers" /\ UNCHANGED <<setup, mainPc, really>>
      BY <1>W, <2>1 DEF Pops, WorkerDone
    <2>6. CallsAccounted'
      BY <2>5 DEF CallsAccounted
    <2> QED
      BY <1>0, <2>2, <2>4, <2>5, <2>6 DEF AccountInv, program
  <1>3. ASSUME NEW w \in Threads, CountCall(w) PROVE AccountInv'
    <2>1. Pops(w)
      BY <1>3, PopSteps
    <2>2. /\ todo[w] # << >> /\ Head(todo[w]) = "count"
          /\ success' = IF Succeeded(w) THEN success + 1 ELSE success
          /\ fail' = IF Succeeded(w) THEN fail ELSE fail + 1
      BY <1>3 DEF CountCall
    <2>3. PICK k \in {0, 1} : k = IF outcome[w] = "ok" THEN 1 ELSE 0
      OBVIOUS
    <2>4. /\ UncountedSum \in Int /\ UncountedSum' = UncountedSum - 1
          /\ OkPendingSum \in Int /\ OkPendingSum' = OkPendingSum - k
      <3>1. /\ 1 = IF Head(todo[w]) = "count" THEN 1 ELSE 0
            /\ k = IF outcome[w] = "ok" THEN 1 ELSE 0
        BY <2>2, <2>3
      <3> QED
        BY <2>1, <3>1, PopAccount
    <2>5. Has(todo[w], "count")
      BY <1>W, <2>2, TailHas
    <2>6. /\ Succeeded(w) => k = 1
          /\ program # "client" /\ ~Succeeded(w) => k = 0
      BY <2>3, <2>5, CountedAs
    <2>7. mainPc = "workers" /\ UNCHANGED <<setup, mainPc, really>>
      BY <1>W, <2>1 DEF Pops, WorkerDone
    <2>8. CallsAccounted'
      BY <2>7 DEF CallsAccounted
    <2>9. /\ success' \in Nat /\ fail' \in Nat
          /\ success' + fail' + UncountedSum' = success + fail + UncountedSum
      BY <1>0, <2>2, <2>4
    <2>10. IF program = "client" THEN success' + OkPendingSum' <= really
                                 ELSE success' + OkPendingSum' = really
      <3>1. CASE Succeeded(w)
        <4>1. success' + OkPendingSum' = success + OkPendingSum
          BY <1>0, <2>2, <2>4, <2>6, <3>1
        <4> QED
          BY <1>0, <4>1
      <3>2. CASE ~Succeeded(w)
        <4>1. success' = success
          BY <2>2, <3>2
        <4>2. CASE program = "client"
          BY <1>0, <2>4, <4>1, <4>2
        <4>3. CASE program # "client"
          <5>1. OkPendingSum' = OkPendingSum
            BY <2>4, <2>6, <3>2, <4>3
          <5> QED
            BY <1>0, <4>1, <4>3, <5>1
        <4> QED
          BY <4>2, <4>3
      <3> QED
        BY <3>1, <3>2
    <2> QED
      BY <1>0, <2>7, <2>8, <2>9, <2>10 DEF AccountInv, program
  <1>4. ASSUME UNCHANGED <<setup, todo, left, outcome, failed, really, success, fail>>,
               CallsAccounted'
        PROVE  AccountInv'
    <2>1. Uncounted' = Uncounted /\ OkPending' = OkPending
      BY <1>4 DEF Uncounted, OkPending
    <2>2. UncountedSum' = UncountedSum /\ OkPendingSum' = OkPendingSum
      BY <2>1 DEF UncountedSum, OkPendingSum
    <2> QED
      BY <1>0, <1>4, <2>2 DEF AccountInv, program
  <1>5. ASSUME (\E w \in Threads : Recording(w)) \/ Monitor \/ JoinWorkers \/ UNCHANGED vars
        PROVE  AccountInv'
    <2>1. UNCHANGED <<setup, todo, left, outcome, failed, really, success, fail>>
      BY <1>5, QuietSteps DEF Main
    <2>2. UNCHANGED report /\ (mainPc' = mainPc \/ mainPc' = "monitor")
      BY <1>5 DEF Recording, Monitor, MonitorCheck, MonitorWake, MonitorSample, JoinWorkers,
                  vars, loadVars, mainVars
    <2>3. CallsAccounted'
      BY <1>0, <2>1, <2>2 DEF CallsAccounted, program
    <2> QED
      BY <1>4, <2>1, <2>3
  <1>6. ASSUME Report PROVE AccountInv'
    <2>1. UNCHANGED <<setup, todo, left, outcome, failed, really, success, fail>>
      BY <1>6, QuietSteps DEF Main
    <2>2. mainPc = "monitor" /\ report'.summary = Summary
      BY <1>6 DEF Report
    <2>3. \A w \in Threads : left[w] = 0 /\ todo[w] = << >>
      BY <1>W, <2>2 DEF WorkerDone
    <2>4. \A x : ~Has(<< >>, x)
      BY DEF Has
    <2>5. \A w \in Threads : Uncounted[w] = 0 /\ OkPending[w] = 0
      BY <2>3, <2>4 DEF Uncounted, OkPending
    <2>6. UncountedSum = 0 /\ OkPendingSum = 0
      BY <2>5, ThreadsAssumption, SumZero DEF UncountedSum, OkPendingSum
    <2>7. report'.summary.completed = success + fail /\ report'.summary.success = success
      BY <2>2 DEF Summary
    <2>8. /\ success + fail = Cardinality(setup.workers) * Calls
          /\ IF program = "client" THEN success <= really ELSE success = really
      BY <1>0, <2>6
    <2>9. CallsAccounted'
      BY <2>1, <2>7, <2>8 DEF CallsAccounted, program
    <2> QED
      BY <1>4, <2>1, <2>9
  <1> QED
    BY <1>1, <1>2, <1>3, <1>5, <1>6 DEF Next, Worker, Main

(***************************************************************************)
(* No interleaving of the workers loses a call or counts it twice, and the *)
(* success count main prints is the number of calls that succeeded, or in  *)
(* client.cc, which does not reset its controllers, at most that many.     *)
(***************************************************************************)
THEOREM CallsAccountedCorrect == Spec => []CallsAccounted
  <1> DEFINE Inv == CallsInv /\ StatInv /\ WorkInv /\ OutcomeInv /\ AccountInv
  <1>1. Init => Inv
    BY CallsInvInit, StatInvInit, WorkInvInit, AccountInit
  <1>2. Inv /\ [Next]_vars => Inv'
    <2> SUFFICES ASSUME Inv, [Next]_vars PROVE Inv'
      OBVIOUS
    <2>1. CallsInv' /\ StatInv'
      BY StatKept
    <2>2. WorkInv'
      BY WorkInvStep DEF StatInv
    <2> QED
      BY <2>1, <2>2, OutcomeInvStep, AccountStep
  <1>3. Inv => CallsAccounted
    BY DEF AccountInv
  <1> QED
    BY <1>1, <1>2, <1>3, PTL DEF Spec

-----------------------------------------------------------------------------
(***************************************************************************)
(* A duration counted in m_counts and m_total_times is in the histogram    *)
(* or still with the thread that records it, and every call of a program   *)
(* that times is in the count of TOTAL or still to be measured.            *)
(***************************************************************************)
InRecord(s) == [t \in Threads |-> IF recPc[t] # "idle" /\ recStage[t] = s THEN 1 ELSE 0]

NsInRecord(s) == [t \in Threads |-> IF recPc[t] # "idle" /\ recStage[t] = s THEN Ns(recMs[t]) ELSE 0]

Untimed == [w \in Threads |-> left[w] + (IF Has(todo[w], "TOTAL") THEN 1 ELSE 0)]

\* The durations that Record counts in a bucket of B, and how often it did.
DurationsOf(B) == {d \in Durations : Bucket(d) \in B}

SamplesIn(s, B) == SumFunctionOnSet(samples[s], DurationsOf(B))

RecordedInv ==
  \A s \in Stages :
    /\ counts[s] = SumFunctionOnSet(samples[s], Durations) + SumFunctionOnSet(InRecord(s), Threads)
    /\ totals[s] = TotalOf(s) + SumFunctionOnSet(NsInRecord(s), Threads)
    /\ \A b \in Buckets : hist[s][b] = SamplesIn(s, {b})

TimedInv ==
  Timing => counts["TOTAL"] + SumFunctionOnSet(Untimed, Threads) = Cardinality(setup.workers) * Calls

-----------------------------------------------------------------------------
(***************************************************************************)
(* Buckets.  Whichever way a boundary is rounded, the buckets up to b hold *)
(* every duration below the end of b and none above it.                    *)
(***************************************************************************)
LEMMA MaxOfTwo ==
  ASSUME NEW a \in Int, NEW b \in Int
  PROVE  Max({a, b}) = IF a >= b THEN a ELSE b
  <1>1. PICK m : m = IF a >= b THEN a ELSE b
    OBVIOUS
  <1>2. m \in {a, b} /\ \A y \in {a, b} : m >= y
    BY <1>1
  <1>3. \A x \in {a, b} : (\A y \in {a, b} : x >= y) => x = m
    BY <1>1
  <1> QED
    BY <1>1, <1>2, <1>3 DEF Max

LEMMA MinOfTwo ==
  ASSUME NEW a \in Int, NEW b \in Int
  PROVE  Min({a, b}) = IF a <= b THEN a ELSE b
  <1>1. PICK m : m = IF a <= b THEN a ELSE b
    OBVIOUS
  <1>2. m \in {a, b} /\ \A y \in {a, b} : m <= y
    BY <1>1
  <1>3. \A x \in {a, b} : (\A y \in {a, b} : x <= y) => x = m
    BY <1>1
  <1> QED
    BY <1>1, <1>2, <1>3 DEF Min

LEMMA DivisionBounds ==
  ASSUME NEW d \in Int, NEW w \in Nat \ {0}
  PROVE  d \div w \in Int /\ (d \div w) * w <= d /\ d < ((d \div w) + 1) * w
  OBVIOUS

LEMMA Remainder ==
  ASSUME NEW n \in Nat, NEW w \in Nat \ {0}
  PROVE  n - (n % w) = (n \div w) * w
  OBVIOUS

LEMMA ProductGrows ==
  ASSUME NEW a \in Int, NEW b \in Int, NEW w \in Nat, a <= b
  PROVE  a * w <= b * w
  OBVIOUS

LEMMA QuotientBounds ==
  ASSUME NEW d \in Int
  PROVE  /\ Quotient(d) \in Int
         /\ Quotient(d) * BucketWidth <= d /\ d <= (Quotient(d) + 1) * BucketWidth
  <1>0. PICK w \in Nat \ {0} : w = BucketWidth
    BY BucketAssumption
  <1>1. PICK q : q = d \div w
    OBVIOUS
  <1>2. q \in Int /\ q * w <= d /\ d < (q + 1) * w
    BY <1>1, DivisionBounds
  <1>3. q * w \in Int /\ (q + 1) * w \in Int /\ (q - 1) * w \in Int /\ (q - 1) * w <= q * w
    BY <1>2, ProductGrows
  <1>4. CASE d \in RoundedDown
    <2>1. Quotient(d) = q - 1 /\ d = q * w
      BY <1>0, <1>1, <1>4, RoundedDownAssumption DEF Quotient
    <2>2. (q - 1) + 1 = q
      BY <1>2
    <2> QED
      BY <1>0, <1>2, <1>3, <2>1, <2>2
  <1>5. CASE d \notin RoundedDown
    <2>1. Quotient(d) = q
      BY <1>0, <1>1, <1>5 DEF Quotient
    <2> QED
      BY <1>0, <1>2, <1>3, <2>1
  <1> QED
    BY <1>4, <1>5

LEMMA BucketHolds ==
  ASSUME NEW d \in Int
  PROVE  /\ Bucket(d) \in Buckets
         /\ \A b \in 0 .. (BucketCount - 2) : /\ d < End(b) => Bucket(d) <= b
                                              /\ Bucket(d) <= b => d <= End(b)
  <1>0. PICK w \in Nat \ {0}, n \in Nat \ {0} : w = BucketWidth /\ n = BucketCount
    BY BucketAssumption
  <1>1. PICK q : q = Quotient(d)
    OBVIOUS
  <1>2. q \in Int /\ q * w <= d /\ d <= (q + 1) * w
    BY <1>0, <1>1, QuotientBounds
  <1>3. PICK m \in Int : m = Min({q, n - 1}) /\ m = IF q <= n - 1 THEN q ELSE n - 1
    <2>1. n - 1 \in Int
      BY <1>0
    <2> QED
      BY <1>2, <2>1, MinOfTwo
  <1>4. Bucket(d) = IF 0 >= m THEN 0 ELSE m
    <2>1. Max({0, m}) = IF 0 >= m THEN 0 ELSE m
      BY MaxOfTwo
    <2> QED
      BY <1>0, <1>1, <1>3, <2>1 DEF Bucket
  <1>5. Bucket(d) \in Buckets
    BY <1>0, <1>2, <1>3, <1>4 DEF Buckets
  <1>6. Bucket(d) = IF q < 0 THEN 0 ELSE IF q >= n THEN n - 1 ELSE q
    BY <1>2, <1>3, <1>4, <1>0
  <1>7. ASSUME NEW b \in 0 .. (BucketCount - 2)
        PROVE  /\ d < End(b) => Bucket(d) <= b
               /\ Bucket(d) <= b => d <= End(b)
    <2>1. b \in Int /\ 0 <= b /\ b < n - 1
      BY <1>0
    <2>2. /\ b < q => (b + 1) * w <= q * w
          /\ q <= b => (q + 1) * w <= (b + 1) * w
      BY <1>2, <2>1, ProductGrows
    <2>3. /\ q * w \in Int /\ (q + 1) * w \in Int
          /\ (b + 1) * w \in Int /\ End(b) = (b + 1) * w
      BY <1>0, <1>2, <2>1 DEF End
    <2>4. (d < End(b) => q <= b) /\ (q <= b => d <= End(b))
      BY <1>2, <2>1, <2>2, <2>3
    <2>5. Bucket(d) <= b <=> q <= b
      BY <1>0, <1>2, <1>6, <2>1
    <2> QED
      BY <2>4, <2>5
  <1> QED
    BY <1>5, <1>7

LEMMA DurationsByBucket ==
  ASSUME NEW B, B \subseteq Buckets
  PROVE  /\ DurationsOf(B) \subseteq Durations /\ IsFiniteSet(DurationsOf(B))
         /\ B = Buckets => DurationsOf(B) = Durations
  <1>1. DurationsOf(B) \subseteq Durations
    BY DEF DurationsOf
  <1>2. IsFiniteSet(DurationsOf(B))
    BY <1>1, DurationsAssumption, FS_Subset
  <1>3. \A d \in Durations : Bucket(d) \in Buckets
    BY DurationsAssumption, BucketHolds
  <1> QED
    BY <1>1, <1>2, <1>3 DEF DurationsOf

(***************************************************************************)
(* One more duration.                                                      *)
(***************************************************************************)
LEMMA AddSample ==
  ASSUME NEW f \in [Durations -> Nat], NEW d \in Durations, NEW g,
         g = [e \in Durations |-> IF e = d THEN f[e] + 1 ELSE f[e]],
         NEW D, D \subseteq Durations
  PROVE  /\ SumFunctionOnSet(f, D) \in Int
         /\ SumFunctionOnSet(g, D) = SumFunctionOnSet(f, D) + IF d \in D THEN 1 ELSE 0
  <1>1. /\ \A e \in D : f[e] \in Int /\ g[e] \in Int
        /\ \A e \in D \ {d} : f[e] = g[e]
        /\ g[d] - f[d] = 1
    OBVIOUS
  <1>2. IsFiniteSet(D)
    BY DurationsAssumption, FS_Subset
  <1>3. SumFunctionOnSet(f, D) \in Int
    BY <1>1, <1>2, SumInt
  <1>4. CASE d \in D
    <2>1. SumFunctionOnSet(g, D) = SumFunctionOnSet(f, D) + (g[d] - f[d])
      BY <1>1, <1>2, <1>4, SumChange
    <2> QED
      BY <1>1, <1>3, <1>4, <2>1
  <1>5. CASE d \notin D
    <2>1. \A e \in D : g[e] = f[e]
      BY <1>1, <1>5
    <2>2. SumFunctionOnSet(g, D) = SumFunctionOnSet(f, D)
      BY <1>2, <2>1, SumSame
    <2> QED
      BY <1>3, <1>5, <2>2
  <1> QED
    BY <1>3, <1>4, <1>5

LEMMA DurationSum ==
  ASSUME NEW F, NEW G, NEW d \in Durations,
         \A e \in Durations : F[e] \in Int /\ G[e] \in Int,
         \A e \in Durations \ {d} : F[e] = G[e]
  PROVE  SumFunctionOnSet(G, Durations) = SumFunctionOnSet(F, Durations) + (G[d] - F[d])
  <1>1. IsFiniteSet(Durations)
    BY DurationsAssumption
  <1>2. ASSUME NEW S, S = Durations
        PROVE  SumFunctionOnSet(G, S) = SumFunctionOnSet(F, S) + (G[d] - F[d])
    BY <1>1, <1>2, SumChange
  <1> QED
    BY <1>2

LEMMA AddTotal ==
  ASSUME NEW f \in [Durations -> Nat], NEW d \in Durations, NEW g,
         g = [e \in Durations |-> IF e = d THEN f[e] + 1 ELSE f[e]]
  PROVE  /\ SumFunctionOnSet([e \in Durations |-> Ns(e) * f[e]], Durations) \in Int
         /\ SumFunctionOnSet([e \in Durations |-> Ns(e) * g[e]], Durations)
              = SumFunctionOnSet([e \in Durations |-> Ns(e) * f[e]], Durations) + Ns(d)
  <1>0. \A e \in Durations : Ns(e) \in Int
    BY DurationsAssumption, NsIsInt
  <1>1. PICK F : F = [e \in Durations |-> Ns(e) * f[e]]
    OBVIOUS
  <1>2. PICK G : G = [e \in Durations |-> Ns(e) * g[e]]
    OBVIOUS
  <1>3. \A e \in Durations : F[e] \in Int /\ G[e] \in Int
    BY <1>0, <1>1, <1>2
  <1>4. \A e \in Durations \ {d} : F[e] = G[e]
    BY <1>1, <1>2
  <1>5. G[d] - F[d] = Ns(d)
    <2>1. PICK n \in Nat, m \in Int : n = f[d] /\ m = Ns(d)
      BY <1>0
    <2>2. F[d] = m * n /\ G[d] = m * (n + 1)
      BY <1>1, <1>2, <2>1
    <2>3. m * (n + 1) - m * n = m
      OBVIOUS
    <2> QED
      BY <2>1, <2>2, <2>3
  <1>6. SumFunctionOnSet(F, Durations) \in Int
    BY <1>3, DurationsAssumption, SumInt
  <1>7. SumFunctionOnSet(G, Durations) = SumFunctionOnSet(F, Durations) + (G[d] - F[d])
    BY <1>3, <1>4, DurationSum
  <1> QED
    BY <1>1, <1>2, <1>5, <1>6, <1>7

LEMMA RecordedInit ==
  ASSUME Init
  PROVE  RecordedInv
  <1>1. /\ counts = [s \in Stages |-> 0] /\ totals = [s \in Stages |-> 0]
        /\ hist = [s \in Stages |-> [b \in Buckets |-> 0]]
        /\ recPc = [t \in Threads |-> "idle"]
        /\ samples = [s \in Stages |-> [d \in Durations |-> 0]]
    BY DEF Init, StatInit
  <1>2. ASSUME NEW s \in Stages
        PROVE  /\ counts[s] = 0 /\ totals[s] = 0
               /\ \A b \in Buckets : hist[s][b] = 0
               /\ \A t \in Threads : InRecord(s)[t] = 0 /\ NsInRecord(s)[t] = 0
               /\ \A d \in Durations : samples[s][d] = 0
    BY <1>1 DEF InRecord, NsInRecord
  <1>3. ASSUME NEW s \in Stages, NEW D, D \subseteq Durations
        PROVE  SumFunctionOnSet(samples[s], D) = 0
    <2>1. IsFiniteSet(D) /\ \A d \in D : samples[s][d] = 0
      BY <1>2, <1>3, DurationsAssumption, FS_Subset
    <2> QED
      BY <2>1, SumZero
  <1>4. ASSUME NEW s \in Stages PROVE TotalOf(s) = 0
    <2>1. PICK F : F = [d \in Durations |-> Ns(d) * samples[s][d]]
      OBVIOUS
    <2>2. \A d \in Durations : Ns(d) \in Int
      BY DurationsAssumption, NsIsInt
    <2>3. ASSUME NEW d \in Durations PROVE F[d] = 0
      <3>1. PICK m \in Int : m = Ns(d)
        BY <2>2
      <3>2. F[d] = m * 0
        BY <1>2, <2>1, <3>1
      <3> QED
        BY <3>2
    <2>4. SumFunctionOnSet(F, Durations) = 0
      BY <2>3, DurationsAssumption, SumZero
    <2> QED
      BY <2>1, <2>4 DEF TotalOf
  <1>5. ASSUME NEW s \in Stages
        PROVE  /\ SumFunctionOnSet(InRecord(s), Threads) = 0
               /\ SumFunctionOnSet(NsInRecord(s), Threads) = 0
    BY <1>2, ThreadsAssumption, SumZero
  <1>6. ASSUME NEW s \in Stages, NEW b \in Buckets PROVE SamplesIn(s, {b}) = 0
    <2>1. DurationsOf({b}) \subseteq Durations
      BY DEF DurationsOf
    <2> QED
      BY <1>3, <2>1 DEF SamplesIn, DurationsOf
  <1> QED
    BY <1>2, <1>3, <1>4, <1>5, <1>6 DEF RecordedInv

LEMMA RecordTypes ==
  ASSUME StatTypeOK, NEW s
  PROVE  InRecord(s) \in [Threads -> Int] /\ NsInRecord(s) \in [Threads -> Int]
  <1>1. \A t \in Threads : Ns(recMs[t]) \in Int
    BY RecMsIsInt, NsIsInt
  <1> QED
    BY <1>1 DEF InRecord, NsInRecord

LEMMA RecordTypesNext ==
  ASSUME StatTypeOK', NEW s
  PROVE  InRecord(s)' \in [Threads -> Int] /\ NsInRecord(s)' \in [Threads -> Int]
  <1>1. \A t \in Threads : recMs'[t] \in Durations \cup {0}
    BY DEF StatTypeOK
  <1>2. \A t \in Threads : Ns(recMs'[t]) \in Int
    <2>1. Durations \cup {0} \subseteq Int
      BY DurationsAssumption
    <2> QED
      BY <1>1, <2>1, NsIsInt
  <1> QED
    BY <1>2 DEF InRecord, NsInRecord

(***************************************************************************)
(* What a step of thread t adds to the sums over the threads.              *)
(***************************************************************************)
LEMMA RecordSums ==
  ASSUME StatTypeOK, StatTypeOK', NEW r \in Stages, NEW t \in Threads,
         \A u \in Threads \ {t} : /\ recPc'[u] = recPc[u] /\ recStage'[u] = recStage[u]
                                  /\ recMs'[u] = recMs[u],
         NEW a \in Int, NEW c \in Int, InRecord(r)'[t] = InRecord(r)[t] + a,
         NsInRecord(r)'[t] = NsInRecord(r)[t] + c
  PROVE  /\ SumFunctionOnSet(InRecord(r), Threads) \in Int
         /\ SumFunctionOnSet(NsInRecord(r), Threads) \in Int
         /\ SumFunctionOnSet(InRecord(r)', Threads) = SumFunctionOnSet(InRecord(r), Threads) + a
         /\ SumFunctionOnSet(NsInRecord(r)', Threads) = SumFunctionOnSet(NsInRecord(r), Threads) + c
  <1>1. PICK f, g, h, k : /\ f = InRecord(r) /\ g = InRecord(r)'
                          /\ h = NsInRecord(r) /\ k = NsInRecord(r)'
    OBVIOUS
  <1>2. /\ f \in [Threads -> Int] /\ g \in [Threads -> Int]
        /\ h \in [Threads -> Int] /\ k \in [Threads -> Int]
    BY <1>1, RecordTypes, RecordTypesNext
  <1>3. \A u \in Threads \ {t} : g[u] = f[u] /\ k[u] = h[u]
    BY <1>1 DEF InRecord, NsInRecord
  <1>4. g[t] - f[t] = a /\ k[t] - h[t] = c
    BY <1>1, <1>2
  <1>5. /\ SumFunctionOnSet(f, Threads) \in Int
        /\ SumFunctionOnSet(g, Threads) = SumFunctionOnSet(f, Threads) + (g[t] - f[t])
    BY <1>2, <1>3, ThreadSum
  <1>6. /\ SumFunctionOnSet(h, Threads) \in Int
        /\ SumFunctionOnSet(k, Threads) = SumFunctionOnSet(h, Threads) + (k[t] - h[t])
    BY <1>2, <1>3, ThreadSum
  <1> QED
    BY <1>1, <1>4, <1>5, <1>6

LEMMA RecordedStep ==
  ASSUME StatInv, StatTypeOK', RecordedInv, [StatNext]_statVars
  PROVE  RecordedInv'
  <1>0. /\ counts \in [Stages -> Nat] /\ totals \in [Stages -> Int]
        /\ hist \in [Stages -> [Buckets -> Nat]]
        /\ recPc \in [Threads -> {"idle", "load", "cas", "hist"}]
        /\ recStage \in [Threads -> Stages] /\ DOMAIN recMs = Threads
        /\ samples \in [Stages -> [Durations -> Nat]]
        /\ StatTypeOK
    BY DEF StatInv, StatTypeOK
  <1>S. StatTypeOK
    BY <1>0
  <1>R. ASSUME NEW r \in Stages
        PROVE  /\ counts[r] = SumFunctionOnSet(samples[r], Durations)
                              + SumFunctionOnSet(InRecord(r), Threads)
               /\ totals[r] = TotalOf(r) + SumFunctionOnSet(NsInRecord(r), Threads)
               /\ \A b \in Buckets : hist[r][b] = SamplesIn(r, {b})
    BY DEF RecordedInv
  <1>T. ASSUME NEW r \in Stages
        PROVE  SumFunctionOnSet(samples[r], Durations) \in Int /\ TotalOf(r) \in Int
    <2>1. PICK f \in [Durations -> Nat] : f = samples[r]
      BY <1>0
    <2>2. PICK F : F = [d \in Durations |-> Ns(d) * f[d]]
      OBVIOUS
    <2>3. \A d \in Durations : Ns(d) \in Int /\ f[d] \in Int
      BY DurationsAssumption, NsIsInt
    <2>4. \A d \in Durations : F[d] \in Int
      BY <2>2, <2>3
    <2>5. SumFunctionOnSet(f, Durations) \in Int /\ SumFunctionOnSet(F, Durations) \in Int
      BY <2>3, <2>4, DurationsAssumption, SumInt
    <2> QED
      BY <2>1, <2>2, <2>5 DEF TotalOf
  <1>1. ASSUME NEW t \in Threads, NEW s \in Stages, NEW d \in Durations, Record(t, s, d)
        PROVE  RecordedInv'
    <2>0. Ns(d) \in Int
      BY DurationsAssumption, NsIsInt
    <2>1. /\ recPc[t] = "idle" /\ recPc' = [recPc EXCEPT ![t] = "load"]
          /\ recStage' = [recStage EXCEPT ![t] = s] /\ recMs' = [recMs EXCEPT ![t] = d]
          /\ counts' = [counts EXCEPT ![s] = @ + 1] /\ totals' = [totals EXCEPT ![s] = @ + Ns(d)]
          /\ hist' = hist /\ samples' = samples
      BY <1>1 DEF Record
    <2>2. \A u \in Threads \ {t} : /\ recPc'[u] = recPc[u] /\ recStage'[u] = recStage[u]
                                   /\ recMs'[u] = recMs[u]
      BY <1>0, <2>1
    <2>3. recPc'[t] = "load" /\ recStage'[t] = s /\ recMs'[t] = d
      BY <1>0, <2>1
    <2> SUFFICES ASSUME NEW r \in Stages
                 PROVE  /\ counts'[r] = SumFunctionOnSet(samples'[r], Durations)
                                        + SumFunctionOnSet(InRecord(r)', Threads)
                        /\ totals'[r] = TotalOf(r)' + SumFunctionOnSet(NsInRecord(r)', Threads)
                        /\ \A b \in Buckets : hist'[r][b] = SamplesIn(r, {b})'
      BY DEF RecordedInv
    <2>4. TotalOf(r)' = TotalOf(r) /\ \A b \in Buckets : SamplesIn(r, {b})' = SamplesIn(r, {b})
      BY <2>1 DEF TotalOf, SamplesIn
    <2>5. PICK a \in Int, c \in Int : a = (IF r = s THEN 1 ELSE 0) /\ c = (IF r = s THEN Ns(d) ELSE 0)
      BY <2>0
    <2>6. InRecord(r)'[t] = InRecord(r)[t] + a /\ NsInRecord(r)'[t] = NsInRecord(r)[t] + c
      <3>1. InRecord(r)[t] = 0 /\ NsInRecord(r)[t] = 0
        BY <2>1 DEF InRecord, NsInRecord
      <3>2. InRecord(r)'[t] = a /\ NsInRecord(r)'[t] = c
        BY <2>3, <2>5 DEF InRecord, NsInRecord
      <3> QED
        BY <3>1, <3>2
    <2>7. /\ SumFunctionOnSet(InRecord(r), Threads) \in Int
          /\ SumFunctionOnSet(NsInRecord(r), Threads) \in Int
          /\ SumFunctionOnSet(InRecord(r)', Threads) = SumFunctionOnSet(InRecord(r), Threads) + a
          /\ SumFunctionOnSet(NsInRecord(r)', Threads) = SumFunctionOnSet(NsInRecord(r), Threads) + c
      BY <1>S, <2>2, <2>6, RecordSums
    <2>8. counts'[r] = counts[r] + a /\ totals'[r] = totals[r] + c
      BY <1>0, <2>1, <2>5
    <2>9. counts'[r] = SumFunctionOnSet(samples[r], Durations) + SumFunctionOnSet(InRecord(r)', Threads)
      BY <1>R, <1>T, <2>7, <2>8
    <2>10. totals'[r] = TotalOf(r) + SumFunctionOnSet(NsInRecord(r)', Threads)
      BY <1>R, <1>T, <2>7, <2>8
    <2> QED
      BY <1>R, <2>1, <2>4, <2>9, <2>10
  <1>2. ASSUME UNCHANGED <<counts, totals, hist, samples, recStage, recMs>>,
               \A t \in Threads : recPc'[t] = "idle" <=> recPc[t] = "idle"
        PROVE  RecordedInv'
    <2>1. \A r \in Stages : InRecord(r)' = InRecord(r) /\ NsInRecord(r)' = NsInRecord(r)
      BY <1>2 DEF InRecord, NsInRecord
    <2>2. \A r \in Stages : /\ TotalOf(r)' = TotalOf(r)
                            /\ \A b \in Buckets : SamplesIn(r, {b})' = SamplesIn(r, {b})
      BY <1>2 DEF TotalOf, SamplesIn
    <2> QED
      BY <1>2, <1>R, <2>1, <2>2 DEF RecordedInv
  <1>3. ASSUME NEW t \in Threads, LoadMax(t) \/ CasMax(t) PROVE RecordedInv'
    <2>1. /\ UNCHANGED <<counts, totals, hist, samples, recStage, recMs>>
          /\ recPc[t] # "idle"
          /\ \/ recPc' = recPc
             \/ recPc' = [recPc EXCEPT ![t] = "cas"] \/ recPc' = [recPc EXCEPT ![t] = "hist"]
      BY <1>3 DEF LoadMax, CasMax
    <2>2. \A u \in Threads : recPc'[u] = "idle" <=> recPc[u] = "idle"
      BY <1>0, <2>1
    <2> QED
      BY <1>2, <2>1, <2>2
  <1>4. ASSUME UNCHANGED statVars PROVE RecordedInv'
    BY <1>2, <1>4 DEF statVars
  <1>5. ASSUME NEW t \in Threads, CountBucket(t) PROVE RecordedInv'
    <2>0. PICK s \in Stages, d \in Durations : s = recStage[t] /\ d = recMs[t]
      <3>1. recPc[t] # "idle"
        BY <1>5 DEF CountBucket
      <3> QED
        BY <1>0, <3>1 DEF StatInv, OldMaxBehind
    <2>1. /\ recPc[t] = "hist" /\ recPc' = [recPc EXCEPT ![t] = "idle"]
          /\ hist' = [hist EXCEPT ![s] = [b \in Buckets |-> IF b = Bucket(d) THEN @[b] + 1 ELSE @[b]]]
          /\ samples' = [samples EXCEPT ![s] = [e \in Durations |-> IF e = d THEN @[e] + 1 ELSE @[e]]]
          /\ UNCHANGED <<counts, totals, recStage, recMs>>
      BY <1>5, <2>0 DEF CountBucket
    <2>2. \A u \in Threads \ {t} : /\ recPc'[u] = recPc[u] /\ recStage'[u] = recStage[u]
                                   /\ recMs'[u] = recMs[u]
      BY <1>0, <2>1
    <2>3. recPc'[t] = "idle" /\ Ns(d) \in Int
      BY <1>0, <2>1, DurationsAssumption, NsIsInt
    <2> SUFFICES ASSUME NEW r \in Stages
                 PROVE  /\ counts'[r] = SumFunctionOnSet(samples'[r], Durations)
                                        + SumFunctionOnSet(InRecord(r)', Threads)
                        /\ totals'[r] = TotalOf(r)' + SumFunctionOnSet(NsInRecord(r)', Threads)
                        /\ \A b \in Buckets : hist'[r][b] = SamplesIn(r, {b})'
      BY DEF RecordedInv
    <2>4. PICK a \in Int, c \in Int : a = (IF r = s THEN 1 ELSE 0) /\ c = (IF r = s THEN Ns(d) ELSE 0)
      BY <2>3
    <2>5. InRecord(r)'[t] = InRecord(r)[t] + (-a) /\ NsInRecord(r)'[t] = NsInRecord(r)[t] + (-c)
      <3>1. InRecord(r)[t] = a /\ NsInRecord(r)[t] = c
        BY <2>0, <2>1, <2>4 DEF InRecord, NsInRecord
      <3>2. InRecord(r)'[t] = 0 /\ NsInRecord(r)'[t] = 0
        BY <2>3 DEF InRecord, NsInRecord
      <3> QED
        BY <3>1, <3>2
    <2>6. /\ SumFunctionOnSet(InRecord(r), Threads) \in Int
          /\ SumFunctionOnSet(NsInRecord(r), Threads) \in Int
          /\ SumFunctionOnSet(InRecord(r)', Threads) = SumFunctionOnSet(InRecord(r), Threads) + (-a)
          /\ SumFunctionOnSet(NsInRecord(r)', Threads) = SumFunctionOnSet(NsInRecord(r), Threads) + (-c)
      <3>1. PICK m \in Int, n \in Int : m = -a /\ n = -c
        OBVIOUS
      <3>2. InRecord(r)'[t] = InRecord(r)[t] + m /\ NsInRecord(r)'[t] = NsInRecord(r)[t] + n
        BY <2>5, <3>1
      <3>3. /\ SumFunctionOnSet(InRecord(r), Threads) \in Int
            /\ SumFunctionOnSet(NsInRecord(r), Threads) \in Int
            /\ SumFunctionOnSet(InRecord(r)', Threads) = SumFunctionOnSet(InRecord(r), Threads) + m
            /\ SumFunctionOnSet(NsInRecord(r)', Threads) = SumFunctionOnSet(NsInRecord(r), Threads) + n
        BY <1>S, <2>2, <3>2, RecordSums
      <3> QED
        BY <3>1, <3>3
    <2>7. /\ SumFunctionOnSet(samples'[r], Durations) = SumFunctionOnSet(samples[r], Durations) + a
          /\ TotalOf(r)' = TotalOf(r) + c
          /\ \A b \in Buckets : hist'[r][b] = SamplesIn(r, {b})'
      <3>1. CASE r # s
        <4>1. samples'[r] = samples[r] /\ hist'[r] = hist[r] /\ a = 0 /\ c = 0
          BY <1>0, <2>1, <2>4, <3>1
        <4>2. TotalOf(r)' = TotalOf(r) /\ \A b \in Buckets : SamplesIn(r, {b})' = SamplesIn(r, {b})
          BY <4>1 DEF TotalOf, SamplesIn
        <4> QED
          BY <1>R, <1>T, <4>1, <4>2
      <3>2. CASE r = s
        <4>1. PICK f \in [Durations -> Nat] : f = samples[r]
          BY <1>0
        <4>2. PICK g : g = [e \in Durations |-> IF e = d THEN f[e] + 1 ELSE f[e]]
          OBVIOUS
        <4>3. samples'[r] = g
          BY <1>0, <2>1, <3>2, <4>1, <4>2
        <4>4. SumFunctionOnSet(g, Durations) = SumFunctionOnSet(f, Durations) + 1
          BY <4>2, AddSample
        <4>5. SumFunctionOnSet([e \in Durations |-> Ns(e) * g[e]], Durations)
                = SumFunctionOnSet([e \in Durations |-> Ns(e) * f[e]], Durations) + Ns(d)
          BY <4>2, AddTotal
        <4>6. TotalOf(r)' = TotalOf(r) + c
          BY <2>4, <3>2, <4>1, <4>3, <4>5 DEF TotalOf
        <4>7. ASSUME NEW b \in Buckets PROVE hist'[r][b] = SamplesIn(r, {b})'
          <5>1. PICK D : D = DurationsOf({b})
            OBVIOUS
          <5>2. D \subseteq Durations /\ (d \in D <=> b = Bucket(d))
            BY <5>1 DEF DurationsOf
          <5>3. /\ SumFunctionOnSet(f, D) \in Int
                /\ SumFunctionOnSet(g, D) = SumFunctionOnSet(f, D) + IF d \in D THEN 1 ELSE 0
            BY <4>2, <5>2, AddSample
          <5>4. SamplesIn(r, {b}) = SumFunctionOnSet(f, D)
            BY <4>1, <5>1 DEF SamplesIn
          <5>5. SamplesIn(r, {b})' = SumFunctionOnSet(g, D)
            BY <4>3, <5>1 DEF SamplesIn
          <5>6. hist'[r][b] = IF b = Bucket(d) THEN hist[r][b] + 1 ELSE hist[r][b]
            BY <1>0, <2>1, <3>2
          <5>7. hist[r][b] = SumFunctionOnSet(f, D)
            BY <1>R, <5>4
          <5> QED
            BY <5>2, <5>3, <5>5, <5>6, <5>7
        <4> QED
          BY <2>4, <3>2, <4>1, <4>3, <4>4, <4>6, <4>7
      <3> QED
        BY <3>1, <3>2
    <2>8. counts'[r] = counts[r] /\ totals'[r] = totals[r]
      BY <2>1
    <2>9. counts'[r] = SumFunctionOnSet(samples'[r], Durations) + SumFunctionOnSet(InRecord(r)', Threads)
      BY <1>R, <1>T, <2>6, <2>7, <2>8
    <2>10. totals'[r] = TotalOf(r)' + SumFunctionOnSet(NsInRecord(r)', Threads)
      BY <1>R, <1>T, <2>6, <2>7, <2>8
    <2> QED
      BY <2>7, <2>9, <2>10
  <1> QED
    BY <1>1, <1>3, <1>4, <1>5 DEF StatNext, StatStep, RecordStep

LEMMA UntimedTypes ==
  ASSUME WorkInv, WorkInv'
  PROVE  Untimed \in [Threads -> Int] /\ Untimed' \in [Threads -> Int]
  <1>1. \A w \in Threads : left[w] \in Int /\ left'[w] \in Int
    BY CallsAssumption DEF WorkInv
  <1> QED
    BY <1>1 DEF Untimed

LEMMA TimedInit ==
  ASSUME Init
  PROVE  TimedInv
  <1>1. /\ setup \in Setups /\ counts["TOTAL"] = 0
        /\ todo = [w \in Threads |-> << >>]
        /\ left = [w \in Threads |-> IF w \in setup.workers THEN Calls ELSE 0]
    BY StagesAssumption DEF Init, LoadInit, StatInit
  <1>2. \A x : ~Has(<< >>, x)
    BY DEF Has
  <1>3. Calls \in Int /\ setup.workers \subseteq Threads
    BY <1>1, CallsAssumption, SetupsAssumption
  <1>4. \A w \in Threads : Untimed[w] = IF w \in setup.workers THEN Calls ELSE 0
    BY <1>1, <1>2, <1>3 DEF Untimed
  <1>5. SumFunctionOnSet(Untimed, Threads) = Cardinality(setup.workers) * Calls
    BY <1>3, <1>4, ThreadsAssumption, SumWithin
  <1>6. Cardinality(setup.workers) \in Nat
    BY <1>3, ThreadsAssumption, FS_Subset, FS_CardinalityType
  <1>7. Cardinality(setup.workers) * Calls \in Int
    BY <1>3, <1>6
  <1> QED
    BY <1>1, <1>5, <1>7 DEF TimedInv

LEMMA TimedStep ==
  ASSUME WorkInv, WorkInv', StatTypeOK, TimedInv, [Next]_vars
  PROVE  TimedInv'
  <1>0. /\ todo \in [Threads -> Seq(Steps)] /\ left \in [Threads -> 0 .. Calls] /\ setup \in Setups
        /\ \A w \in Threads : AtMostOnce(todo[w], "TOTAL")
        /\ counts \in [Stages -> Nat]
    BY DEF WorkInv, StatTypeOK
  <1>U. Untimed \in [Threads -> Int] /\ Untimed' \in [Threads -> Int]
    BY UntimedTypes
  <1>K. ASSUME NEW w \in Threads, setup' = setup, NEW c \in Int,
               \A u \in Threads \ {w} : Untimed'[u] = Untimed[u],
               Timing => Untimed'[w] = Untimed[w] - c,
               counts'["TOTAL"] = counts["TOTAL"] + c
        PROVE  TimedInv'
    <2>1. /\ SumFunctionOnSet(Untimed, Threads) \in Int
          /\ SumFunctionOnSet(Untimed', Threads)
               = SumFunctionOnSet(Untimed, Threads) + (Untimed'[w] - Untimed[w])
      BY <1>U, <1>K, ThreadSum
    <2>2. counts["TOTAL"] \in Int /\ Untimed[w] \in Int
      BY <1>0, <1>U, StagesAssumption
    <2>3. ASSUME Timing
          PROVE  counts'["TOTAL"] + SumFunctionOnSet(Untimed', Threads)
                   = counts["TOTAL"] + SumFunctionOnSet(Untimed, Threads)
      BY <1>K, <2>1, <2>2, <2>3
    <2> QED
      BY <1>K, <2>3 DEF TimedInv, Timing, program
  <1>1. ASSUME NEW w \in Threads, NextCall(w) PROVE TimedInv'
    <2>1. PICK o : \E work \in Work(o) : todo' = [todo EXCEPT ![w] = work]
      BY <1>1 DEF NextCall
    <2>2. PICK work \in Work(o) : todo' = [todo EXCEPT ![w] = work]
      BY <2>1
    <2>3. /\ todo[w] = << >> /\ left' = [left EXCEPT ![w] = @ - 1]
          /\ setup' = setup /\ counts' = counts
      BY <1>1 DEF NextCall, setupVars, statVars
    <2>4. Timing => Has(todo'[w], "TOTAL")
      <3>1. Timing => Has(work, "TOTAL")
        BY <1>0, WorkShape
      <3>2. todo'[w] = work
        BY <1>0, <2>2
      <3> QED
        BY <3>1, <3>2
    <2>5. ~Has(todo[w], "TOTAL")
      BY <2>3 DEF Has
    <2>6. \A u \in Threads \ {w} : todo'[u] = todo[u] /\ left'[u] = left[u]
      BY <1>0, <2>2, <2>3
    <2>7. \A u \in Threads \ {w} : Untimed'[u] = Untimed[u]
      BY <2>6 DEF Untimed
    <2>8. left[w] \in Int /\ left'[w] = left[w] - 1
      BY <1>0, <2>3, CallsAssumption
    <2>9. Timing => Untimed'[w] = left'[w] + 1
      BY <2>4 DEF Untimed
    <2>10. Untimed[w] = left[w] + 0
      BY <2>5 DEF Untimed
    <2>11. Timing => Untimed'[w] = Untimed[w] - 0
      BY <2>8, <2>9, <2>10
    <2>12. counts'["TOTAL"] = counts["TOTAL"] + 0
      BY <1>0, <2>3, StagesAssumption
    <2> QED
      BY <1>K, <2>3, <2>7, <2>11, <2>12
  <1>2. ASSUME NEW w \in Threads, Pops(w), NEW c \in {0, 1},
               c = IF Head(todo[w]) = "TOTAL" THEN 1 ELSE 0,
               counts'["TOTAL"] = counts["TOTAL"] + c
        PROVE  TimedInv'
    <2>1. /\ todo[w] # << >> /\ todo' = [todo EXCEPT ![w] = Tail(@)]
          /\ left' = left /\ setup' = setup
      BY <1>2 DEF Pops
    <2>2. /\ Head(todo[w]) = "TOTAL" => Has(todo[w], "TOTAL") /\ ~Has(Tail(todo[w]), "TOTAL")
          /\ Head(todo[w]) # "TOTAL" => (Has(Tail(todo[w]), "TOTAL") <=> Has(todo[w], "TOTAL"))
      BY <1>0, <2>1, TailHas
    <2>3. todo'[w] = Tail(todo[w]) /\ \A u \in Threads \ {w} : todo'[u] = todo[u]
      BY <1>0, <2>1
    <2>4. \A u \in Threads \ {w} : Untimed'[u] = Untimed[u]
      BY <2>1, <2>3 DEF Untimed
    <2>5. left[w] \in Int
      BY <1>0, CallsAssumption
    <2>6. /\ Untimed[w] = left[w] + (IF Has(todo[w], "TOTAL") THEN 1 ELSE 0)
          /\ Untimed'[w] = left[w] + (IF Has(Tail(todo[w]), "TOTAL") THEN 1 ELSE 0)
      BY <2>1, <2>3 DEF Untimed
    <2>7. Untimed'[w] = Untimed[w] - c
      BY <1>2, <2>2, <2>5, <2>6
    <2> QED
      BY <1>2, <1>K, <2>1, <2>4, <2>7
  <1>3. ASSUME NEW w \in Threads, StopTimer(w) PROVE TimedInv'
    <2>1. /\ Pops(w) /\ Head(todo[w]) \in Stages
          /\ counts' = [counts EXCEPT ![Head(todo[w])] = @ + 1]
      BY <1>3, PopSteps DEF StopTimer, Record
    <2>2. PICK c \in {0, 1} : c = IF Head(todo[w]) = "TOTAL" THEN 1 ELSE 0
      OBVIOUS
    <2>3. counts'["TOTAL"] = counts["TOTAL"] + c
      BY <1>0, <2>1, <2>2, StagesAssumption
    <2> QED
      BY <1>2, <2>1, <2>2, <2>3
  <1>4. ASSUME NEW w \in Threads, CountCall(w) \/ AddLatency(w) PROVE TimedInv'
    <2>1. Pops(w) /\ Head(todo[w]) # "TOTAL" /\ counts' = counts
      BY <1>4, PopSteps, StepsAssumption, StagesAssumption DEF CountCall, AddLatency, statVars
    <2>2. counts'["TOTAL"] = counts["TOTAL"] + 0
      BY <1>0, <2>1, StagesAssumption
    <2> QED
      BY <1>2, <2>1, <2>2
  <1>5. ASSUME UNCHANGED <<setup, todo, left, counts>> PROVE TimedInv'
    <2>1. Untimed' = Untimed
      BY <1>5 DEF Untimed
    <2> QED
      BY <1>5, <2>1 DEF TimedInv, Timing, program
  <1>6. ASSUME (\E w \in Threads : Recording(w)) \/ Monitor \/ Main \/ UNCHANGED vars
        PROVE  UNCHANGED counts
    BY <1>6 DEF Recording, RecordStep, LoadMax, CasMax, CountBucket, Monitor, MonitorCheck,
                MonitorWake, MonitorSample, Main, JoinWorkers, Report, vars, statVars
  <1> QED
    BY <1>1, <1>3, <1>4, <1>5, <1>6, QuietSteps DEF Next, Worker

(***************************************************************************)
(* Everything the theorems about the final report rest on.                 *)
(***************************************************************************)
ReportInv == CallsInv /\ StatInv /\ WorkInv /\ RecordedInv /\ TimedInv

LEMMA ReportInvInit == Init => ReportInv
  BY CallsInvInit, StatInvInit, WorkInvInit, RecordedInit, TimedInit DEF ReportInv

LEMMA ReportInvStep == ReportInv /\ [Next]_vars => ReportInv'
  <1> SUFFICES ASSUME ReportInv, [Next]_vars PROVE ReportInv'
    OBVIOUS
  <1>1. CallsInv /\ StatInv /\ WorkInv /\ RecordedInv /\ TimedInv /\ StatTypeOK
    BY DEF ReportInv, StatInv
  <1>2. CallsInv' /\ StatInv' /\ StatTypeOK'
    BY <1>1, StatKept DEF StatInv
  <1>3. WorkInv'
    BY <1>1, WorkInvStep
  <1>4. [StatNext]_statVars
    BY <1>1, StatSteps
  <1>5. RecordedInv'
    BY <1>1, <1>2, <1>4, RecordedStep
  <1>6. TimedInv'
    BY <1>1, <1>3, TimedStep
  <1> QED
    BY <1>2, <1>3, <1>5, <1>6 DEF ReportInv

(***************************************************************************)
(* When the workers are done nothing is under way, and every part of the   *)
(* statistics counts the same durations.                                   *)
(***************************************************************************)
LEMMA Exact ==
  ASSUME ReportInv, mainPc # "workers", NEW s \in Stages
  PROVE  /\ SamplesIn(s, Buckets) = Recorded(s)
         /\ counts[s] = Recorded(s)
         /\ totals[s] = TotalOf(s)
         /\ \A b \in Buckets : hist[s][b] = SamplesIn(s, {b})
  <1>0. counts[s] \in Nat /\ totals[s] \in Int /\ samples[s] \in [Durations -> Nat]
    BY DEF ReportInv, StatInv, StatTypeOK
  <1>1. DurationsOf(Buckets) = Durations
    BY DurationsByBucket
  <1>2. SamplesIn(s, Buckets) = Recorded(s)
    BY <1>1 DEF SamplesIn, Recorded
  <1>3. \A t \in Threads : recPc[t] = "idle"
    BY DEF ReportInv, WorkInv, WorkerDone
  <1>4. \A t \in Threads : InRecord(s)[t] = 0 /\ NsInRecord(s)[t] = 0
    BY <1>3 DEF InRecord, NsInRecord
  <1>5. SumFunctionOnSet(InRecord(s), Threads) = 0 /\ SumFunctionOnSet(NsInRecord(s), Threads) = 0
    BY <1>4, ThreadsAssumption, SumZero
  <1>6. /\ counts[s] = SumFunctionOnSet(samples[s], Durations) + SumFunctionOnSet(InRecord(s), Threads)
        /\ totals[s] = TotalOf(s) + SumFunctionOnSet(NsInRecord(s), Threads)
        /\ \A b \in Buckets : hist[s][b] = SamplesIn(s, {b})
    BY DEF ReportInv, RecordedInv
  <1>7. SumFunctionOnSet(samples[s], Durations) \in Int /\ TotalOf(s) \in Int
    <2>1. \A d \in Durations : Ns(d) \in Int /\ samples[s][d] \in Int
      BY <1>0, DurationsAssumption, NsIsInt
    <2>2. PICK F : F = [d \in Durations |-> Ns(d) * samples[s][d]]
      OBVIOUS
    <2>3. \A d \in Durations : F[d] \in Int
      BY <2>1, <2>2
    <2>4. SumFunctionOnSet(samples[s], Durations) \in Int /\ SumFunctionOnSet(F, Durations) \in Int
      BY <2>1, <2>3, DurationsAssumption, SumInt
    <2> QED
      BY <2>2, <2>4 DEF TotalOf
  <1> QED
    BY <1>2, <1>5, <1>6, <1>7 DEF Recorded

-----------------------------------------------------------------------------
(***************************************************************************)
(* The histogram summed from below counts the durations up to a bucket.    *)
(***************************************************************************)
LEMMA HistogramSum ==
  ASSUME NEW f \in [Durations -> Nat], NEW h \in [Buckets -> Nat],
         \A b \in Buckets : h[b] = SumFunctionOnSet(f, DurationsOf({b}))
  PROVE  \A b \in Buckets : SumFunctionOnSet(h, 0 .. b) = SumFunctionOnSet(f, DurationsOf(0 .. b))
  <1> DEFINE T == {b \in Buckets : SumFunctionOnSet(h, 0 .. b) # SumFunctionOnSet(f, DurationsOf(0 .. b))}
  <1>0. Buckets \subseteq Nat /\ \A b \in Buckets : 0 .. b \subseteq Buckets
    BY BucketAssumption DEF Buckets
  <1>1. ASSUME T # {} PROVE FALSE
    <2>0. T \subseteq Nat
      BY <1>0
    <2>1. PICK k \in T : \A y \in T : k <= y
      <3> HIDE DEF T
      <3> QED
        BY <1>1, <2>0, LeastNat
    <2>2. /\ k \in Nat /\ k \in Buckets
          /\ SumFunctionOnSet(h, 0 .. k) # SumFunctionOnSet(f, DurationsOf(0 .. k))
      BY <1>0, <2>1
    <2>3. PICK B : B = 0 .. (k - 1)
      OBVIOUS
    <2>4. 0 .. k = B \cup {k} /\ B \cap {k} = {} /\ B \subseteq Buckets /\ {k} \subseteq Buckets
      BY <1>0, <2>2, <2>3
    <2>5. \A b \in B \cup {k} : h[b] \in Int
      BY <2>4
    <2>6. IsFiniteSet(B) /\ IsFiniteSet({k})
      <3>1. 0 \in Int /\ k - 1 \in Int
        BY <2>2
      <3>2. IsFiniteSet(0 .. (k - 1))
        BY <3>1, FS_Interval
      <3> QED
        BY <2>3, <3>2, FS_Singleton
    <2>7. SumFunctionOnSet(h, B \cup {k}) = SumFunctionOnSet(h, B) + SumFunctionOnSet(h, {k})
      BY <2>4, <2>5, <2>6, SumDisjoint
    <2>8. SumFunctionOnSet(h, {k}) = h[k]
      <3>1. \A x \in {k} : h[x] = h[k]
        OBVIOUS
      <3>2. h[k] \in Int /\ Cardinality({k}) = 1
        BY <2>5, FS_Singleton
      <3>3. SumFunctionOnSet(h, {k}) = Cardinality({k}) * h[k]
        BY <2>6, <3>1, <3>2, SumConstant
      <3> QED
        BY <3>2, <3>3
    <2>9. PICK D, E : D = DurationsOf(B) /\ E = DurationsOf({k})
      OBVIOUS
    <2>10. /\ D = {d \in Durations : Bucket(d) \in B} /\ IsFiniteSet(D)
           /\ E = {d \in Durations : Bucket(d) \in {k}} /\ IsFiniteSet(E)
      <3>1. B \subseteq Buckets /\ {k} \subseteq Buckets
        BY <2>4
      <3>2. IsFiniteSet(D) /\ IsFiniteSet(E)
        BY <2>9, <3>1, DurationsByBucket
      <3> QED
        BY <2>9, <3>2 DEF DurationsOf
    <2>11. DurationsOf(0 .. k) = D \cup E
      BY <2>4, <2>9 DEF DurationsOf
    <2>12. D \cap E = {} /\ \A d \in D \cup E : f[d] \in Int
      BY <2>4, <2>10
    <2>13. SumFunctionOnSet(f, D \cup E) = SumFunctionOnSet(f, D) + SumFunctionOnSet(f, E)
      BY <2>10, <2>12, SumDisjoint
    <2>14. h[k] = SumFunctionOnSet(f, E)
      BY <2>2, <2>9
    <2>15. SumFunctionOnSet(h, B) = SumFunctionOnSet(f, D)
      <3>1. CASE k = 0
        <4>1. B = {} /\ D = {}
          BY <2>3, <2>10, <3>1
        <4> QED
          BY <4>1, SumEmpty
      <3>2. CASE k # 0
        <4>1. k - 1 \in Buckets /\ k - 1 < k
          BY <2>2, <3>2, BucketAssumption DEF Buckets
        <4>2. k - 1 \notin T
          BY <2>1, <2>2, <4>1
        <4> QED
          BY <2>3, <2>9, <4>1, <4>2
      <3> QED
        BY <3>1, <3>2
    <2> QED
      BY <2>2, <2>4, <2>7, <2>8, <2>11, <2>13, <2>14, <2>15
  <1> QED
    BY <1>1

LEMMA UpToIsSamples ==
  ASSUME ReportInv, mainPc # "workers", NEW s \in Stages, NEW b \in Buckets
  PROVE  UpTo(s, b) = SamplesIn(s, 0 .. b)
  <1>0. samples[s] \in [Durations -> Nat] /\ hist[s] \in [Buckets -> Nat]
    BY DEF ReportInv, StatInv, StatTypeOK
  <1>1. \A c \in Buckets : hist[s][c] = SumFunctionOnSet(samples[s], DurationsOf({c}))
    BY Exact DEF SamplesIn
  <1>2. SumFunctionOnSet(hist[s], 0 .. b) = SumFunctionOnSet(samples[s], DurationsOf(0 .. b))
    BY <1>0, <1>1, HistogramSum
  <1> QED
    BY <1>2 DEF UpTo, SamplesIn

LEMMA SumOfSubset ==
  ASSUME NEW f \in [Durations -> Nat], NEW A, NEW B, A \subseteq B, B \subseteq Durations
  PROVE  /\ SumFunctionOnSet(f, A) \in Nat /\ SumFunctionOnSet(f, B) \in Nat
         /\ SumFunctionOnSet(f, A) <= SumFunctionOnSet(f, B)
  <1>1. PICK C : C = B \ A
    OBVIOUS
  <1>2. A \cup C = B /\ A \cap C = {} /\ \A x \in B : f[x] \in Nat /\ f[x] \in Int
    BY <1>1
  <1>3. IsFiniteSet(A) /\ IsFiniteSet(B) /\ IsFiniteSet(C)
    BY <1>1, DurationsAssumption, FS_Subset
  <1>4. /\ SumFunctionOnSet(f, A) \in Nat /\ SumFunctionOnSet(f, B) \in Nat
        /\ SumFunctionOnSet(f, C) \in Nat
    BY <1>2, <1>3, SumNat
  <1>5. SumFunctionOnSet(f, A \cup C) = SumFunctionOnSet(f, A) + SumFunctionOnSet(f, C)
    BY <1>2, <1>3, SumDisjoint
  <1>6. SumFunctionOnSet(f, B) = SumFunctionOnSet(f, A) + SumFunctionOnSet(f, C)
    BY <1>2, <1>5
  <1> QED
    BY <1>4, <1>6

(***************************************************************************)
(* The histogram up to a bucket lies between the durations below the       *)
(* bucket's end and those that do not exceed it.                           *)
(***************************************************************************)
LEMMA HistogramBounds ==
  ASSUME ReportInv, mainPc # "workers", NEW s \in Stages, NEW b \in 0 .. (BucketCount - 2)
  PROVE  /\ ShorterThan(s, End(b)) \in Nat /\ UpTo(s, b) \in Nat /\ NoLongerThan(s, End(b)) \in Nat
         /\ ShorterThan(s, End(b)) <= UpTo(s, b)
         /\ UpTo(s, b) <= NoLongerThan(s, End(b))
  <1>0. PICK f \in [Durations -> Nat] : f = samples[s]
    BY DEF ReportInv, StatInv, StatTypeOK
  <1>1. b \in Buckets /\ Buckets \subseteq Nat
    BY BucketAssumption DEF Buckets
  <1>2. PICK A, B, C : /\ A = {d \in Durations : d < End(b)} /\ B = DurationsOf(0 .. b)
                       /\ C = {d \in Durations : d <= End(b)}
    OBVIOUS
  <1>3. ASSUME NEW d \in Durations
        PROVE  /\ d < End(b) => Bucket(d) \in 0 .. b
               /\ Bucket(d) \in 0 .. b => d <= End(b)
    <2>0. d \in Int
      BY DurationsAssumption
    <2>1. /\ Bucket(d) \in Buckets
          /\ \A c \in 0 .. (BucketCount - 2) : /\ d < End(c) => Bucket(d) <= c
                                               /\ Bucket(d) <= c => d <= End(c)
      BY <2>0, BucketHolds
    <2>2. (d < End(b) => Bucket(d) <= b) /\ (Bucket(d) <= b => d <= End(b))
      BY <2>1
    <2>3. PICK k \in Nat : k = Bucket(d)
      BY <1>1, <2>1
    <2>4. k \in 0 .. b <=> k <= b
      BY <1>1
    <2> QED
      BY <2>2, <2>3, <2>4
  <1>4. A \subseteq B /\ B \subseteq C /\ C \subseteq Durations
    BY <1>2, <1>3 DEF DurationsOf
  <1>5. /\ SumFunctionOnSet(f, A) \in Nat /\ SumFunctionOnSet(f, B) \in Nat
        /\ SumFunctionOnSet(f, C) \in Nat
        /\ SumFunctionOnSet(f, A) <= SumFunctionOnSet(f, B)
        /\ SumFunctionOnSet(f, B) <= SumFunctionOnSet(f, C)
    <2>1. B \subseteq Durations
      BY <1>4
    <2>2. SumFunctionOnSet(f, A) \in Nat /\ SumFunctionOnSet(f, A) <= SumFunctionOnSet(f, B)
      BY <1>4, <2>1, SumOfSubset
    <2>3. /\ SumFunctionOnSet(f, B) \in Nat /\ SumFunctionOnSet(f, C) \in Nat
          /\ SumFunctionOnSet(f, B) <= SumFunctionOnSet(f, C)
      BY <1>4, SumOfSubset
    <2> QED
      BY <2>2, <2>3
  <1>6. UpTo(s, b) = SumFunctionOnSet(f, B)
    BY <1>0, <1>1, <1>2, UpToIsSamples DEF SamplesIn
  <1> QED
    BY <1>0, <1>2, <1>5, <1>6 DEF ShorterThan, NoLongerThan

LEMMA UpToLast ==
  ASSUME ReportInv, mainPc # "workers", NEW s \in Stages
  PROVE  UpTo(s, BucketCount - 1) = Recorded(s)
  <1>1. BucketCount - 1 \in Buckets /\ 0 .. (BucketCount - 1) = Buckets
    BY BucketAssumption DEF Buckets
  <1> QED
    BY <1>1, UpToIsSamples, Exact

(***************************************************************************)
(* The report printed after the join is exact, for every number of workers *)
(* and calls, all durations, every rounding of the boundaries and every    *)
(* interleaving of their Records: the count and the sum of every stage     *)
(* account for each duration once, the histogram for every one on the      *)
(* right side of each bucket's end, and each call was timed once.          *)
(***************************************************************************)
THEOREM ReportExactCorrect == Spec => []ReportExact
  <1>1. ReportInv => ReportExact
    <2> SUFFICES ASSUME ReportInv, mainPc = "reported", Timing
                 PROVE  /\ Recorded("TOTAL") = Cardinality(setup.workers) * Calls
                        /\ \A s \in Stages :
                             /\ counts[s] = Recorded(s)
                             /\ totals[s] = TotalOf(s)
                             /\ UpTo(s, BucketCount - 1) = Recorded(s)
                             /\ \A b \in 0 .. (BucketCount - 2) :
                                  /\ ShorterThan(s, End(b)) <= UpTo(s, b)
                                  /\ UpTo(s, b) <= NoLongerThan(s, End(b))
      BY DEF ReportExact
    <2>1. \A s \in Stages : counts[s] = Recorded(s) /\ totals[s] = TotalOf(s)
      BY Exact
    <2>2. \A s \in Stages : UpTo(s, BucketCount - 1) = Recorded(s)
      BY UpToLast
    <2>3. \A s \in Stages : \A b \in 0 .. (BucketCount - 2) :
             /\ ShorterThan(s, End(b)) <= UpTo(s, b)
             /\ UpTo(s, b) <= NoLongerThan(s, End(b))
      BY HistogramBounds
    <2>4. \A w \in Threads : left[w] = 0 /\ todo[w] = << >>
      BY DEF ReportInv, WorkInv, WorkerDone
    <2>5. \A x : ~Has(<< >>, x)
      BY DEF Has
    <2>6. \A w \in Threads : Untimed[w] = 0
      BY <2>4, <2>5 DEF Untimed
    <2>7. SumFunctionOnSet(Untimed, Threads) = 0
      BY <2>6, ThreadsAssumption, SumZero
    <2>8. counts["TOTAL"] \in Nat
      BY StagesAssumption DEF ReportInv, StatInv, StatTypeOK
    <2>9. counts["TOTAL"] = Cardinality(setup.workers) * Calls
      BY <2>7, <2>8 DEF ReportInv, TimedInv
    <2> QED
      BY <2>1, <2>2, <2>3, <2>9, StagesAssumption
  <1> QED
    BY <1>1, ReportInvInit, ReportInvStep, PTL DEF Spec

-----------------------------------------------------------------------------
(***************************************************************************)
(* What a percentile promises.                                             *)
(***************************************************************************)
OfRank(s, p, b) ==
  LET rank == (Recorded(s) * p) \div 100
  IN  rank > 0 =>
        /\ b \in Buckets
        /\ b < BucketCount - 1 => NoLongerThan(s, End(b)) >= rank
        /\ b > 0 => ShorterThan(s, End(b - 1)) < rank

LEMMA PercentileOfRank ==
  ASSUME ReportInv, mainPc # "workers", NEW s \in Stages, counts[s] > 0, NEW p \in 0 .. 100
  PROVE  OfRank(s, p, Percentile(s, p))
  <1>1. PICK n \in Nat : n = counts[s] /\ n = Recorded(s)
    BY Exact DEF ReportInv, StatInv, StatTypeOK
  <1>2. PICK rank : rank = (n * p) \div 100
    OBVIOUS
  <1>3. rank \in Int /\ rank <= n
    <2>1. PICK m : m = n * p
      OBVIOUS
    <2>2. m \in Int /\ 0 <= m /\ m <= n * 100
      BY <2>1
    <2>3. rank = m \div 100
      BY <1>2, <2>1
    <2> QED
      BY <2>2, <2>3
  <1>4. PICK R : R = {b \in Buckets : UpTo(s, b) >= rank}
    OBVIOUS
  <1>5. Percentile(s, p) = IF R = {} THEN NoBucket ELSE Min(R)
    BY <1>1, <1>2, <1>4 DEF Percentile, Target
  <1>6. BucketCount - 1 \in R
    <2>1. BucketCount - 1 \in Buckets
      BY BucketAssumption DEF Buckets
    <2>2. UpTo(s, BucketCount - 1) = n
      BY <1>1, UpToLast
    <2> QED
      BY <1>3, <1>4, <2>1, <2>2
  <1>7. R \subseteq Nat
    BY <1>4, BucketAssumption DEF Buckets
  <1>8. PICK k \in R : \A y \in R : k <= y
    BY <1>6, <1>7, LeastNat
  <1>9. Percentile(s, p) = k
    <2>1. \A x \in R : (\A y \in R : x <= y) => x = k
      BY <1>7, <1>8
    <2>2. Min(R) = k
      BY <1>8, <2>1 DEF Min
    <2> QED
      BY <1>5, <1>6, <2>2
  <1>10. k \in Nat /\ k \in Buckets /\ k <= BucketCount - 1 /\ UpTo(s, k) >= rank
    BY <1>4, <1>6, <1>7, <1>8
  <1>11. k < BucketCount - 1 => NoLongerThan(s, End(k)) >= rank
    <2> SUFFICES ASSUME k < BucketCount - 1 PROVE NoLongerThan(s, End(k)) >= rank
      OBVIOUS
    <2>1. k \in 0 .. (BucketCount - 2)
      BY <1>10, BucketAssumption
    <2>2. /\ UpTo(s, k) \in Nat /\ NoLongerThan(s, End(k)) \in Nat
          /\ UpTo(s, k) <= NoLongerThan(s, End(k))
      BY <2>1, HistogramBounds
    <2> QED
      BY <1>3, <1>10, <2>2
  <1>12. k > 0 => ShorterThan(s, End(k - 1)) < rank
    <2> SUFFICES ASSUME k > 0 PROVE ShorterThan(s, End(k - 1)) < rank
      OBVIOUS
    <2>1. PICK j \in 0 .. (BucketCount - 2) : j = k - 1
      BY <1>10, BucketAssumption
    <2>2. j \notin R /\ j \in Buckets
      BY <1>8, <1>10, <2>1, BucketAssumption DEF Buckets
    <2>3. /\ UpTo(s, j) \in Nat /\ ShorterThan(s, End(j)) \in Nat
          /\ ShorterThan(s, End(j)) <= UpTo(s, j)
      BY HistogramBounds
    <2>4. UpTo(s, j) < rank
      BY <1>3, <1>4, <2>2, <2>3
    <2>5. ShorterThan(s, End(j)) < rank
      BY <1>3, <2>3, <2>4
    <2> QED
      BY <2>1, <2>5
  <1> QED
    BY <1>1, <1>2, <1>9, <1>10, <1>11, <1>12 DEF OfRank

(***************************************************************************)
(* What was printed is still what the statistics say.                      *)
(***************************************************************************)
Rows == [s \in {s \in Stages : counts[s] > 0} |-> ComputePercentiles(s)]

RowsInv == mainPc = "reported" /\ Timing => report.stats.rows = Rows

LEMMA RowsInvStep ==
  ASSUME ReportInv, RowsInv, [Next]_vars
  PROVE  RowsInv'
  <1>0. /\ todo \in [Threads -> Seq(Steps)]
        /\ mainPc # "workers" => \A w \in Threads : WorkerDone(w)
    BY DEF ReportInv, WorkInv
  <1>1. ASSUME NEW w \in Threads, Worker(w) PROVE RowsInv'
    <2>1. mainPc = "workers"
      BY <1>0, <1>1 DEF Worker, NextCall, MoreCalls, StopTimer, Recording, RecordStep, LoadMax,
                        CasMax, CountBucket, CountCall, AddLatency, WorkerDone
    <2>2. mainPc' = mainPc
      BY <1>1 DEF Worker, NextCall, StopTimer, Recording, CountCall, AddLatency, loadVars, mainVars
    <2> QED
      BY <2>1, <2>2 DEF RowsInv
  <1>2. ASSUME UNCHANGED statVars PROVE Rows' = Rows
    BY <1>2 DEF statVars, Rows, ComputePercentiles, Percentile, UpTo, Target
  <1>3. ASSUME Monitor \/ JoinWorkers \/ UNCHANGED vars PROVE RowsInv'
    <2>1. UNCHANGED statVars /\ UNCHANGED <<setup, report>> /\ (mainPc' = mainPc \/ mainPc' = "monitor")
      BY <1>3 DEF Monitor, MonitorCheck, MonitorWake, MonitorSample, JoinWorkers, vars, loadVars,
                  mainVars, setupVars
    <2> QED
      BY <1>2, <2>1 DEF RowsInv, Timing, program
  <1>4. ASSUME Report PROVE RowsInv'
    <2>1. /\ UNCHANGED statVars /\ setup' = setup
          /\ report'.stats = IF program = "qps_benchmark" THEN << >> ELSE PrintDetailedReport
      BY <1>4 DEF Report, setupVars
    <2>2. PrintDetailedReport.rows = Rows
      BY DEF PrintDetailedReport, Rows
    <2> QED
      BY <1>2, <2>1, <2>2 DEF RowsInv, Timing, program
  <1> QED
    BY <1>1, <1>3, <1>4 DEF Next, Main

(***************************************************************************)
(* ComputePercentiles finds, for every stage, number of calls and all      *)
(* durations, the bucket that holds the duration of the percentile's rank, *)
(* whenever that rank is at least 1.                                       *)
(***************************************************************************)
THEOREM PercentilesCorrect == Spec => []PercentilesOfSamples
  <1>1. Init => RowsInv
    BY DEF Init, LoadInit, RowsInv
  <1>2. ReportInv /\ RowsInv => PercentilesOfSamples
    <2> SUFFICES ASSUME ReportInv, RowsInv, mainPc = "reported", Timing,
                        NEW s \in DOMAIN report.stats.rows
                 PROVE  LET r == report.stats.rows[s]
                        IN  \A p \in {<<50, r.p50>>, <<95, r.p95>>, <<99, r.p99>>} :
                              OfRank(s, p[1], p[2])
      BY DEF PercentilesOfSamples, OfRank
    <2>1. report.stats.rows = Rows
      BY DEF RowsInv
    <2>2. s \in Stages /\ counts[s] > 0 /\ report.stats.rows[s] = ComputePercentiles(s)
      BY <2>1 DEF Rows
    <2>3. PICK r : r = report.stats.rows[s]
      OBVIOUS
    <2>4. r.p50 = Percentile(s, 50) /\ r.p95 = Percentile(s, 95) /\ r.p99 = Percentile(s, 99)
      BY <2>2, <2>3 DEF ComputePercentiles
    <2>5. 50 \in 0 .. 100 /\ 95 \in 0 .. 100 /\ 99 \in 0 .. 100
      OBVIOUS
    <2>6. OfRank(s, 50, r.p50) /\ OfRank(s, 95, r.p95) /\ OfRank(s, 99, r.p99)
      BY <2>2, <2>4, <2>5, PercentileOfRank
    <2> QED
      BY <2>3, <2>6
  <1>3. ReportInv /\ RowsInv /\ [Next]_vars => RowsInv'
    BY RowsInvStep
  <1> QED
    BY <1>1, <1>2, <1>3, ReportInvInit, ReportInvStep, PTL DEF Spec

-----------------------------------------------------------------------------
(***************************************************************************)
(* The segments of the final analysis, for every number of samples.        *)
(***************************************************************************)
LEMMA IntervalEnds ==
  ASSUME NEW a \in Int, NEW b \in Int, a <= b
  PROVE  Max(a .. b) = b /\ Min(a .. b) = a
  <1>1. a \in a .. b /\ b \in a .. b
    OBVIOUS
  <1>2. /\ \A y \in a .. b : b >= y
        /\ \A x \in a .. b : (\A y \in a .. b : x >= y) => x = b
    BY <1>1
  <1>3. /\ \A y \in a .. b : a <= y
        /\ \A x \in a .. b : (\A y \in a .. b : x <= y) => x = a
    BY <1>1
  <1> QED
    BY <1>1, <1>2, <1>3 DEF Max, Min

LEMMA ClientSegmentsFollow ==
  ASSUME NEW n \in Nat
  PROVE  /\ Consecutive(ClientSegments(n))
         /\ Covered(ClientSegments(n)) = 1 .. IF n < Segments THEN n ELSE n - (n % Segments)
  <1>0. PICK S \in Nat \ {0} : S = Segments
    BY SegmentsAssumption
  <1>1. PICK size \in Nat \ {0} : /\ size = Max({1, n \div Segments})
                                  /\ size = IF 1 >= n \div S THEN 1 ELSE n \div S
    <2>1. n \div S \in Int
      OBVIOUS
    <2>2. Max({1, n \div S}) = IF 1 >= n \div S THEN 1 ELSE n \div S
      BY <2>1, MaxOfTwo
    <2>3. Max({1, n \div S}) \in Nat \ {0}
      BY <2>1, <2>2
    <2> QED
      BY <1>0, <2>2, <2>3
  <1>2. PICK K : K = {k \in 0 .. (S - 1) : k * size < n}
    OBVIOUS
  <1>3. PICK seg : seg = [k \in K |-> (k * size + 1) .. Min({(k + 1) * size, n})]
    OBVIOUS
  <1>4. ClientSegments(n) = seg
    BY <1>0, <1>1, <1>2, <1>3 DEF ClientSegments
  <1>5. ASSUME NEW k \in K
        PROVE  \E m \in Int : /\ k \in Nat /\ k * size \in Nat /\ (k + 1) * size \in Nat
                              /\ k * size < n /\ k * size + 1 <= m /\ m <= n
                              /\ m = IF (k + 1) * size <= n THEN (k + 1) * size ELSE n
                              /\ seg[k] = (k * size + 1) .. m
    <2>1. k \in Nat /\ k * size < n
      BY <1>2
    <2>2. k * size \in Nat /\ (k + 1) * size = k * size + size
      BY <2>1
    <2>3. (k + 1) * size \in Nat /\ k * size + 1 <= (k + 1) * size
      BY <2>2
    <2>4. PICK m : m = Min({(k + 1) * size, n})
      OBVIOUS
    <2>5. m = IF (k + 1) * size <= n THEN (k + 1) * size ELSE n
      BY <2>3, <2>4, MinOfTwo
    <2>6. seg[k] = (k * size + 1) .. m
      BY <1>3, <2>4
    <2>7. m \in Int /\ k * size + 1 <= m /\ m <= n
      BY <2>1, <2>2, <2>3, <2>5
    <2> QED
      BY <2>1, <2>2, <2>3, <2>5, <2>6, <2>7
  <1>6. DOMAIN seg = K
    BY <1>3
  <1>7. ASSUME NEW k \in K PROVE seg[k] # {}
    <2>1. PICK m \in Int : /\ k * size \in Nat /\ k * size + 1 <= m
                           /\ seg[k] = (k * size + 1) .. m
      BY <1>5
    <2>2. PICK a \in Nat : a = k * size
      BY <2>1
    <2>3. a + 1 \in (a + 1) .. m
      BY <2>1, <2>2
    <2> QED
      BY <2>1, <2>2, <2>3
  <1>8. ASSUME NEW k \in K, k + 1 \in K PROVE Max(seg[k]) + 1 = Min(seg[k + 1])
    <2>1. PICK m \in Int : /\ k * size \in Nat /\ (k + 1) * size \in Nat /\ k * size + 1 <= m
                           /\ (k + 1) * size < n => m = (k + 1) * size
                           /\ seg[k] = (k * size + 1) .. m
      BY <1>5
    <2>2. PICK j : j = k + 1
      OBVIOUS
    <2>3. PICK l \in Int : /\ j * size \in Nat /\ j * size < n /\ j * size + 1 <= l
                           /\ seg[j] = (j * size + 1) .. l
      BY <1>5, <1>8, <2>2
    <2>4. PICK a \in Nat, b \in Nat : a = k * size /\ b = j * size
      BY <2>1, <2>3
    <2>5. m = b /\ a + 1 <= m /\ b + 1 <= l
      BY <2>1, <2>2, <2>3, <2>4
    <2>6. Max((a + 1) .. m) = m /\ Min((b + 1) .. l) = b + 1
      <3>1. a + 1 \in Int /\ b + 1 \in Int
        OBVIOUS
      <3> QED
        BY <2>5, <3>1, IntervalEnds
    <2> QED
      BY <2>1, <2>2, <2>3, <2>4, <2>5, <2>6
  <1>9. Consecutive(seg)
    BY <1>6, <1>7, <1>8 DEF Consecutive
  <1>10. PICK c \in Nat : c = S * size
    OBVIOUS
  <1>11. ASSUME NEW k \in K, NEW i \in seg[k] PROVE i \in 1 .. n /\ i <= c
    <2>1. PICK m \in Int : /\ k \in Nat /\ k * size \in Nat /\ (k + 1) * size \in Nat /\ m <= n
                           /\ m = IF (k + 1) * size <= n THEN (k + 1) * size ELSE n
                           /\ seg[k] = (k * size + 1) .. m
      BY <1>5
    <2>2. k + 1 <= S /\ k + 1 \in Int
      BY <1>2, <2>1
    <2>3. (k + 1) * size <= c
      BY <1>10, <2>2, ProductGrows
    <2>4. PICK a \in Nat, b \in Nat : a = k * size /\ b = (k + 1) * size
      BY <2>1
    <2>5. i \in (a + 1) .. m
      BY <2>1, <2>4
    <2> QED
      BY <2>1, <2>3, <2>4, <2>5
  <1>12. ASSUME NEW i \in 1 .. n, i <= c PROVE \E k \in K : i \in seg[k]
    <2>1. PICK k : k = (i - 1) \div size
      OBVIOUS
    <2>2. k \in Int /\ k * size <= i - 1 /\ i - 1 < (k + 1) * size
      <3>1. i - 1 \in Int
        OBVIOUS
      <3> QED
        BY <2>1, <3>1, DivisionBounds
    <2>3. PICK a \in Int, b \in Int : a = k * size /\ b = (k + 1) * size
      BY <2>2
    <2>4. k >= 0
      <3>1. k < 0 => (k + 1) * size <= 0 * size
        <4>1. k < 0 => k + 1 <= 0 /\ k + 1 \in Int
          BY <2>2
        <4> QED
          BY <4>1, ProductGrows
      <3>2. 0 * size = 0
        OBVIOUS
      <3> QED
        BY <2>2, <2>3, <3>1, <3>2
    <2>5. k < S
      <3>1. S <= k => S * size <= k * size
        BY <2>2, ProductGrows
      <3> QED
        BY <1>10, <1>12, <2>2, <2>3, <3>1
    <2>6. k \in K
      BY <1>2, <2>2, <2>3, <2>4, <2>5
    <2>7. PICK m \in Int : /\ m = IF (k + 1) * size <= n THEN (k + 1) * size ELSE n
                           /\ seg[k] = (k * size + 1) .. m
      BY <1>5, <2>6
    <2>8. i \in (a + 1) .. m
      BY <2>2, <2>3, <2>7
    <2> QED
      BY <2>3, <2>6, <2>7, <2>8
  <1>13. PICK last \in Int : /\ last = IF n < Segments THEN n ELSE n - (n % Segments)
                             /\ last = IF c <= n THEN c ELSE n
    <2>1. PICK q : q = n \div S
      OBVIOUS
    <2>2. q \in Int /\ q * S <= n /\ n < (q + 1) * S /\ n - (n % S) = q * S
      BY <2>1, DivisionBounds, Remainder
    <2>3. CASE n < S
      <3>1. q <= 0
        <4>1. 0 < q => 1 * S <= q * S
          BY <2>2, ProductGrows
        <4>2. 1 * S = S /\ q * S \in Int
          BY <2>2
        <4> QED
          BY <2>2, <2>3, <4>1, <4>2
      <3>2. size = 1 /\ c = S
        BY <1>1, <1>10, <2>1, <2>2, <3>1
      <3> QED
        BY <1>0, <2>3, <3>2
    <2>4. CASE n >= S
      <3>1. q >= 1
        <4>1. q < 1 => (q + 1) * S <= 1 * S
          <5>1. q < 1 => q + 1 <= 1 /\ q + 1 \in Int
            BY <2>2
          <5> QED
            BY <5>1, ProductGrows
        <4>2. 1 * S = S /\ (q + 1) * S \in Int
          BY <2>2
        <4> QED
          BY <2>2, <2>4, <4>1, <4>2
      <3>2. size = q /\ c = q * S
        BY <1>1, <1>10, <2>1, <2>2, <3>1
      <3>3. c <= n /\ n - (n % S) = c
        BY <2>2, <3>2
      <3> QED
        BY <1>0, <2>4, <3>3
    <2> QED
      BY <2>3, <2>4
  <1>14. Covered(seg) = 1 .. last
    <2>1. Covered(seg) = UNION {seg[k] : k \in K}
      BY <1>6 DEF Covered
    <2>2. \A i : i \in 1 .. last <=> i \in 1 .. n /\ i <= c
      BY <1>13
    <2> QED
      BY <1>11, <1>12, <2>1, <2>2
  <1> QED
    BY <1>4, <1>9, <1>13, <1>14

LEMMA QpsSegmentsCover ==
  ASSUME NEW n \in Nat
  PROVE  /\ Consecutive(QpsSegments(n))
         /\ n >= Segments => Covered(QpsSegments(n)) = 1 .. n
  <1>0. PICK S \in Nat \ {0} : S = Segments
    BY SegmentsAssumption
  <1>1. CASE n < S
    <2>1. QpsSegments(n) = << >>
      BY <1>0, <1>1 DEF QpsSegments
    <2>2. DOMAIN << >> = {}
      OBVIOUS
    <2>3. Consecutive(<< >>)
      BY <2>2 DEF Consecutive
    <2> QED
      BY <1>0, <1>1, <2>1, <2>3
  <1>2. CASE n >= S
    <2>1. PICK size \in Nat \ {0} : size = n \div S /\ S * size <= n
      <3>1. PICK q : q = n \div S
        OBVIOUS
      <3>2. q \in Int /\ q * S <= n /\ n < (q + 1) * S
        BY <3>1, DivisionBounds
      <3>3. q >= 1
        <4>1. q < 1 => (q + 1) * S <= 1 * S
          <5>1. q < 1 => q + 1 <= 1 /\ q + 1 \in Int
            BY <3>2
          <5> QED
            BY <5>1, ProductGrows
        <4>2. 1 * S = S /\ (q + 1) * S \in Int
          BY <3>2
        <4> QED
          BY <1>2, <3>2, <4>1, <4>2
      <3>4. S * q = q * S
        BY <3>2
      <3> QED
        BY <3>1, <3>2, <3>3, <3>4
    <2>2. PICK top \in [0 .. (S - 1) -> Int] :
            top = [k \in 0 .. (S - 1) |-> IF k = S - 1 THEN n ELSE (k + 1) * size]
      <3>1. \A k \in 0 .. (S - 1) : (IF k = S - 1 THEN n ELSE (k + 1) * size) \in Int
        OBVIOUS
      <3> QED
        BY <3>1
    <2>3. PICK seg : seg = [k \in 0 .. (S - 1) |-> (k * size + 1) .. top[k]]
      OBVIOUS
    <2>4. QpsSegments(n) = seg
      <3>1. QpsSegments(n) = [k \in 0 .. (S - 1) |->
                                (k * size + 1) .. IF k = S - 1 THEN n ELSE (k + 1) * size]
        BY <1>0, <1>2, <2>1 DEF QpsSegments
      <3>2. \A k \in 0 .. (S - 1) : top[k] = IF k = S - 1 THEN n ELSE (k + 1) * size
        BY <2>2
      <3> QED
        BY <2>3, <3>1, <3>2
    <2>5. ASSUME NEW k \in 0 .. (S - 1)
          PROVE  /\ k \in Nat /\ k * size \in Nat /\ (k + 1) * size \in Int
                 /\ k * size + 1 <= (k + 1) * size /\ (k + 1) * size <= n
                 /\ top[k] \in Int /\ k * size + 1 <= top[k] /\ top[k] <= n
      <3>1. k \in Nat /\ k + 1 <= S /\ k + 1 \in Int
        OBVIOUS
      <3>2. k * size \in Nat /\ (k + 1) * size = k * size + size
        BY <3>1
      <3>3. (k + 1) * size <= S * size
        BY <3>1, ProductGrows
      <3>4. S * size \in Int
        OBVIOUS
      <3>5. k * size + 1 <= (k + 1) * size /\ (k + 1) * size <= n /\ (k + 1) * size \in Int
        BY <2>1, <3>2, <3>3, <3>4
      <3>6. top[k] = n \/ top[k] = (k + 1) * size
        BY <2>2
      <3> QED
        BY <3>1, <3>2, <3>5, <3>6
    <2>6. DOMAIN seg = 0 .. (S - 1)
      BY <2>3
    <2>7. ASSUME NEW k \in 0 .. (S - 1) PROVE seg[k] # {} /\ seg[k] \subseteq 1 .. n
      <3>1. PICK a \in Nat : a = k * size
        BY <2>5
      <3>2. PICK m \in Int : m = top[k]
        BY <2>5
      <3>3. a + 1 <= m /\ m <= n
        BY <2>5, <3>1, <3>2
      <3>4. seg[k] = (a + 1) .. m
        BY <2>3, <3>1, <3>2
      <3>5. a + 1 \in (a + 1) .. m /\ (a + 1) .. m \subseteq 1 .. n
        BY <3>3
      <3> QED
        BY <3>4, <3>5
    <2>8. ASSUME NEW k \in 0 .. (S - 1), k + 1 \in 0 .. (S - 1)
          PROVE  Max(seg[k]) + 1 = Min(seg[k + 1])
      <3>1. PICK j \in 0 .. (S - 1) : j = k + 1
        BY <2>8
      <3>2. k # S - 1
        BY <2>8
      <3>3. top[k] = j * size
        BY <2>2, <3>1, <3>2
      <3>4. PICK a \in Nat, b \in Nat, l \in Int : a = k * size /\ b = j * size /\ l = top[j]
        BY <2>5
      <3>5. a + 1 <= b /\ b + 1 <= l
        BY <2>5, <3>3, <3>4
      <3>6. seg[k] = (a + 1) .. b /\ seg[j] = (b + 1) .. l
        BY <2>3, <3>3, <3>4
      <3>7. Max((a + 1) .. b) = b /\ Min((b + 1) .. l) = b + 1
        <4>1. a + 1 \in Int /\ b + 1 \in Int /\ b \in Int
          OBVIOUS
        <4> QED
          BY <3>5, <4>1, IntervalEnds
      <3> QED
        BY <3>1, <3>6, <3>7
    <2>9. Consecutive(seg)
      BY <2>6, <2>7, <2>8 DEF Consecutive
    <2>10. ASSUME NEW i \in 1 .. n PROVE \E k \in 0 .. (S - 1) : i \in seg[k]
      <3>1. PICK c \in Int : c = (S - 1) * size
        OBVIOUS
      <3>2. CASE i > c
        <4>1. S - 1 \in 0 .. (S - 1) /\ top[S - 1] = n
          BY <2>2
        <4>2. seg[S - 1] = (c + 1) .. n
          BY <2>3, <3>1, <4>1
        <4>3. i \in (c + 1) .. n
          BY <3>2
        <4> QED
          BY <4>1, <4>2, <4>3
      <3>3. CASE i <= c
        <4>1. PICK k : k = (i - 1) \div size
          OBVIOUS
        <4>2. k \in Int /\ k * size <= i - 1 /\ i - 1 < (k + 1) * size
          <5>1. i - 1 \in Int
            OBVIOUS
          <5> QED
            BY <4>1, <5>1, DivisionBounds
        <4>3. k >= 0
          <5>1. k < 0 => (k + 1) * size <= 0 * size
            <6>1. k < 0 => k + 1 <= 0 /\ k + 1 \in Int
              BY <4>2
            <6> QED
              BY <6>1, ProductGrows
          <5>2. 0 * size = 0 /\ (k + 1) * size \in Int
            BY <4>2
          <5> QED
            BY <4>2, <5>1, <5>2
        <4>4. k < S - 1
          <5>1. S - 1 <= k => (S - 1) * size <= k * size
            <6>1. S - 1 \in Int
              OBVIOUS
            <6> QED
              BY <4>2, <6>1, ProductGrows
          <5>2. k * size \in Int
            BY <4>2
          <5> QED
            BY <3>1, <3>3, <4>2, <5>1, <5>2
        <4>5. k \in 0 .. (S - 1) /\ top[k] = (k + 1) * size
          BY <2>2, <4>2, <4>3, <4>4
        <4>6. seg[k] = (k * size + 1) .. ((k + 1) * size)
          BY <2>3, <4>5
        <4>7. k * size \in Int /\ (k + 1) * size \in Int
          BY <4>2
        <4>8. i \in (k * size + 1) .. ((k + 1) * size)
          BY <4>2, <4>7
        <4> QED
          BY <4>5, <4>6, <4>8
      <3> QED
        BY <3>1, <3>2, <3>3
    <2>11. Covered(seg) = 1 .. n
      BY <2>6, <2>7, <2>10 DEF Covered
    <2> QED
      BY <1>0, <2>4, <2>9, <2>11
  <1> QED
    BY <1>1, <1>2

(***************************************************************************)
(* The segments in which client.cc and qps_benchmark.cc cut their samples  *)
(* neither overlap nor leave a gap, however many samples there are and     *)
(* into however many segments they are cut; qps_benchmark's cover every    *)
(* sample, and client.cc's all but the remainder of the division.          *)
(***************************************************************************)
THEOREM SegmentsCorrect == Spec => []SegmentsPartition
  <1>1. IntervalsInv => SegmentsPartition
    <2> SUFFICES ASSUME IntervalsInv, NEW n \in Len(history) .. (Len(history) + 4 * Segments)
                 PROVE  /\ Consecutive(ClientSegments(n)) /\ Consecutive(QpsSegments(n))
                        /\ n >= Segments => Covered(QpsSegments(n)) = 1 .. n
                        /\ Covered(ClientSegments(n))
                             = 1 .. IF n < Segments THEN n ELSE n - (n % Segments)
      BY DEF SegmentsPartition
    <2>1. Len(history) \in Nat /\ 4 * Segments \in Nat
      BY SegmentsAssumption DEF IntervalsInv
    <2>2. n \in Nat
      BY <2>1
    <2> QED
      BY <2>2, ClientSegmentsFollow, QpsSegmentsCover
  <1> QED
    BY <1>1, IntervalsInvInit, IntervalsInvStep, PTL DEF Spec
=============================================================================
