-------------------------- MODULE FrameTimeStatistics --------------------------
(***************************************************************************)
(* The statistics of the profilers (Client/Diagnostics/FrameTimeProfiler): *)
(* an array overwritten in a circle, and a snapshot computed from a sorted *)
(* copy of it.  Milliseconds are integers, and so are percents: 95 and 99  *)
(* in the code, where limits are 16.67 and 33.33.                          *)
(***************************************************************************)
EXTENDS Integers, Sequences, FiniteSets, Functions

CONSTANTS
    SampleCapacity,   \* 600 in the code
    MaxMilliseconds,  \* bound: recorded times are 0..MaxMilliseconds
    Percents,         \* which percentiles a snapshot holds
    Limits            \* a snapshot counts the samples above each of these

ASSUME StatisticsAssumption ==
    /\ SampleCapacity \in Nat \ {0} /\ MaxMilliseconds \in Nat
    /\ Percents \subseteq 1..100 /\ Limits \subseteq Nat

VARIABLES
    times,        \* frameTimesMilliseconds_, counted from 1
    nextIndex,    \* nextSampleIndex_ + 1
    sampleCount,  \* sampleCount_
    lastTimes     \* history: the samples a snapshot should be of, in order

statisticsVars == <<times, nextIndex, sampleCount, lastTimes>>

(* FrameTimeProfiler::Reset *)
Cleared ==
    [times |-> [index \in 1..SampleCapacity |-> 0],
     nextIndex |-> 1, sampleCount |-> 0]

StatisticsInit ==
    /\ times = Cleared.times /\ nextIndex = Cleared.nextIndex
    /\ sampleCount = Cleared.sampleCount /\ lastTimes = <<>>

Smaller(a, b) == IF a < b THEN a ELSE b

(* FrameTimeProfiler::RecordMilliseconds; a time of zero is refused. *)
RecordMilliseconds(milliseconds) ==
    /\ milliseconds > 0
    /\ times' = [times EXCEPT ![nextIndex] = milliseconds]
    /\ nextIndex' = (nextIndex % SampleCapacity) + 1
    /\ sampleCount' = Smaller(sampleCount + 1, SampleCapacity)
    /\ lastTimes' = (IF Len(lastTimes) = SampleCapacity THEN Tail(lastTimes)
                     ELSE lastTimes) \o <<milliseconds>>

ResetStatistics ==
    /\ times' = Cleared.times /\ nextIndex' = Cleared.nextIndex
    /\ sampleCount' = Cleared.sampleCount /\ lastTimes' = <<>>

StatisticsNext ==
    \/ \E milliseconds \in 0..MaxMilliseconds : RecordMilliseconds(milliseconds)
    \/ ResetStatistics

StatisticsSpec == StatisticsInit /\ [][StatisticsNext]_statisticsVars

(* n / d rounded up *)
Ceiling(n, d) == (n + d - 1) \div d

MutantRankRoundedDown(percent) ==
    Smaller((percent * sampleCount) \div 100 + 1, sampleCount)

(* The place in the sorted samples, counted from 1: std::ceil, one less    *)
(* for an index from 0, and no more than the last.                         *)
PercentileIndex(percent) ==
    Smaller(Ceiling(percent * sampleCount, 100), sampleCount)

TotalOf(samples) ==
    LET sum[n \in 0..Len(samples)] ==
            IF n = 0 THEN 0 ELSE sum[n - 1] + samples[n]
    IN  sum[Len(samples)]

NumberAbove(samples, limit) ==
    Cardinality({index \in 1..Len(samples) : samples[index] > limit})

(* What std::sort makes of them: the same samples, the least first. *)
Sorted(samples) ==
    LET places == 1..Len(samples)
        order == CHOOSE order \in Bijection(places, places) :
                    \A i, j \in places :
                        i < j => samples[order[i]] <= samples[order[j]]
    IN  [i \in places |-> samples[order[i]]]

(* FrameTimeProfiler::CaptureSnapshot, unless there are no samples; the    *)
(* average is total / sampleCount.                                         *)
CaptureSnapshot ==
    LET sorted == Sorted(SubSeq(times, 1, sampleCount))
    IN  [total |-> TotalOf(sorted),
         over |-> [limit \in Limits |-> NumberAbove(sorted, limit)],
         percentile |-> [percent \in Percents |->
                            sorted[PercentileIndex(percent)]],
         maximum |-> sorted[sampleCount]]

-----------------------------------------------------------------------------
(* The nearest-rank percentile: the least sample that at least so many     *)
(* percent of the samples do not exceed.                                   *)
NearestRank(percent) ==
    CHOOSE sample \in 1..MaxMilliseconds :
        LET Enough(value) ==
                100 * (Len(lastTimes) - NumberAbove(lastTimes, value))
                    >= percent * Len(lastTimes)
        IN  /\ \E index \in 1..Len(lastTimes) : lastTimes[index] = sample
            /\ Enough(sample)
            /\ \A index \in 1..Len(lastTimes) :
                  lastTimes[index] < sample => ~Enough(lastTimes[index])

(* However many samples came before and wherever the circle stands, a      *)
(* snapshot describes the newest SampleCapacity samples since the reset:   *)
(* their sum, their number above a limit, their percentiles by nearest     *)
(* rank and their maximum.                                                 *)
SnapshotIsOfLastSamples ==
    /\ sampleCount = Len(lastTimes)
    /\ sampleCount > 0 =>
          /\ CaptureSnapshot.total = TotalOf(lastTimes)
          /\ \A limit \in Limits : CaptureSnapshot.over[limit]
                                      = NumberAbove(lastTimes, limit)
          /\ \A percent \in Percents :
                CaptureSnapshot.percentile[percent] = NearestRank(percent)
          /\ CaptureSnapshot.maximum = NearestRank(100)
=============================================================================
