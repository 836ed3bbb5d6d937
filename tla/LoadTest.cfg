SPECIFICATION FairSpec
CONSTANTS
  Threads = {"w1", "w2"}
  Stages = {"NET_IO", "TOTAL"}
  Durations <- MCDurations
  BucketCount = 4
  BucketWidth = 100000
  CutShort = {251}
  RoundedDown = {300000}
  LongTailFloor = 2
  Setups <- MCSetups
  Calls = 2
  Latencies <- MCLatencies
  Segments = 5
INVARIANTS
  MaxIsExact
  ReportExact
  PercentilesOfSamples
  CallsAccounted
  IntervalsAddUp
  SegmentsPartition
PROPERTIES
  LoadTestEnds
CHECK_DEADLOCK FALSE
