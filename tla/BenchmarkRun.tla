----------------------------- MODULE BenchmarkRun -----------------------------
(***************************************************************************)
(* The automated rendering benchmark: BenchmarkSession, the stress scene,  *)
(* the profilers (FrameTimeProfiler) and the GPU timing queries of         *)
(* D3D11Renderer, driven by the frame loop of Client/Application.cpp.      *)
(* A frame is the main thread's frame time, keys, session update and draw, *)
(* in this order; a key that is not pressed is passed over.  The GPU       *)
(* answers the queries of earlier frames whenever it likes.  A sample is   *)
(* abstracted to the measurement it belongs to; the counts that a saved    *)
(* result has are those the last frame left in the renderer.               *)
(***************************************************************************)
EXTENDS Integers, Sequences

CONSTANTS
    Scenarios,         \* a sequence of [count, mode], 8 in the code
    StressCounts,      \* what keys 1 to 4 ask for
    MaximumInstanceCount,   \* of the stress scene, 10000 in the code
    SampleCapacity,    \* 600 in the code, TargetSampleCount as well
    QuerySets,         \* GpuTimingQuerySetCount, 4 in the code
    SceneItems,        \* what there is to draw without a stress scene
    InitialCapacity,   \* InitialInstanceCapacity, 1024 in the code
    MinimumTime        \* a phase's minimum duration: 2 or 3 s, in units

Modes == {"InstancedBatch", "PerInstance"}

ASSUME BenchmarkAssumption ==
    /\ MaximumInstanceCount \in Nat /\ StressCounts \subseteq Nat \ {0}
    /\ Scenarios \in Seq([count : 1..MaximumInstanceCount, mode : Modes])
    /\ Scenarios # <<>>
    /\ SampleCapacity \in Nat \ {0}
    /\ QuerySets \in Nat \ {0} /\ SceneItems \in Nat \ {0}
    /\ InitialCapacity \in Nat \ {0}
    /\ MinimumTime \in Nat

VARIABLES
    step,              \* where in the frame the main thread is
    phase, scenario,   \* phase_ and scenarioIndex_, counted from 1
    elapsed,           \* phaseElapsedSeconds_, up to MinimumTime
    stressCount,       \* renderItems_.size() of the stress scene, 0: disabled
    mode,              \* stressSubmissionMode
    vsync,             \* presentSyncInterval_ # 0
    capacity,          \* instanceBufferCapacity_
    statistics,        \* statistics_: the counts of the last frame
    drawn,             \* history: the measurement the last frame belonged to
    frameTimes,        \* frameTimeProfiler_
    renderTimes,       \* cpuSubmissionProfiler_ and presentProfiler_
    gpuTimes,          \* gpuProfiler_
    querySets,         \* gpuTimingQuerySets_
    writeIndex         \* gpuTimingWriteIndex_, counted from 1

session == <<phase, scenario, elapsed>>
conditions == <<stressCount, mode, vsync>>
profilers == <<frameTimes, renderTimes, gpuTimes>>
queries == <<querySets, writeIndex>>
lastFrame == <<capacity, statistics, drawn>>
vars == <<step, session, conditions, lastFrame, profilers, queries>>

(* A query set is free, in flight, or answered, validly or not; current    *)
(* means that its generation is the renderer's, which only ever grows.     *)
NoQuery == [state |-> "Free", current |-> FALSE, sample |-> 0]

NoCounts == [instances |-> 0, dropped |-> 0, drawCalls |-> 0]

Init ==
    /\ step = "Begin"
    /\ phase = "Idle" /\ scenario = 1 /\ elapsed = 0
    /\ stressCount = 0 /\ mode = "InstancedBatch" /\ vsync = TRUE
    /\ capacity = InitialCapacity /\ statistics = NoCounts /\ drawn = 0
    /\ frameTimes = <<>> /\ renderTimes = <<>> /\ gpuTimes = <<>>
    /\ querySets = [set \in 1..QuerySets |-> NoQuery] /\ writeIndex = 1

(* The parts of a frame between the frame time and the draw. *)
Inputs == <<"StressKey", "ModeKey", "StartKey", "CancelKey", "Session">>

(* The frame has come to one of the parts before this one. *)
Before(part) ==
    \E i \in 1..Len(Inputs) :
        /\ step = Inputs[i]
        /\ \A j \in 1..i : Inputs[j] # part

IsActive == phase \in {"WarmingUp", "Measuring"}

(* What a frame drawn now belongs to: the measurement of a scenario, under *)
(* exactly its conditions, or none.                                        *)
Measurement ==
    IF /\ phase = "Measuring" /\ ~vsync
       /\ Scenarios[scenario] = [count |-> stressCount, mode |-> mode]
    THEN scenario ELSE 0

(* FrameTimeProfiler::RecordMilliseconds, a ring buffer. *)
Recorded(samples, sample) ==
    IF Len(samples) = SampleCapacity
    THEN Append(Tail(samples), sample) ELSE Append(samples, sample)

-----------------------------------------------------------------------------
MutantKeepGpuTimingGeneration == querySets

(* The sets with every query in flight made stale. *)
BeginGpuTimingGeneration ==
    [set \in 1..QuerySets |-> [querySets[set] EXCEPT !.current = FALSE]]

ResetProfilers ==
    /\ frameTimes' = <<>> /\ renderTimes' = <<>> /\ gpuTimes' = <<>>
    /\ querySets' = BeginGpuTimingGeneration

(* The top of a frame: the time of the last one is recorded. *)
RecordFrame ==
    /\ step = "Begin"
    /\ frameTimes' = Recorded(frameTimes, drawn)
    /\ step' = "StressKey"
    /\ UNCHANGED <<session, conditions, lastFrame, renderTimes, gpuTimes, queries>>

Smaller(a, b) == IF a < b THEN a ELSE b

(* RenderingStressScene::SetInstanceCount; a count of zero disables it, as *)
(* Disable does.                                                           *)
SetInstanceCount(count) == stressCount' = Smaller(count, MaximumInstanceCount)

(* Keys 1 to 5: a stress scene of some size, or none. *)
StressKey ==
    /\ Before("ModeKey") /\ ~IsActive
    /\ \E count \in StressCounts \cup {0} : SetInstanceCount(count)
    /\ ResetProfilers
    /\ step' = "ModeKey"
    /\ UNCHANGED <<session, mode, vsync, lastFrame, writeIndex>>

(* Key 6. *)
ModeKey ==
    /\ Before("StartKey") /\ ~IsActive
    /\ stressCount # 0
    /\ mode' \in Modes \ {mode}
    /\ ResetProfilers
    /\ step' = "StartKey"
    /\ UNCHANGED <<session, stressCount, vsync, lastFrame, writeIndex>>

MutantApplyScenarioKeepsMode(number) ==
    /\ SetInstanceCount(Scenarios[number].count)
    /\ UNCHANGED mode
    /\ querySets' = BeginGpuTimingGeneration
    /\ UNCHANGED writeIndex

ApplyScenario(number) ==
    /\ SetInstanceCount(Scenarios[number].count)
    /\ mode' = Scenarios[number].mode
    /\ querySets' = BeginGpuTimingGeneration
    /\ UNCHANGED writeIndex

(* Key 7. *)
StartKey ==
    /\ Before("CancelKey") /\ ~IsActive
    /\ phase' = "WarmingUp" /\ scenario' = 1 /\ elapsed' = 0
    /\ vsync' = FALSE
    /\ ApplyScenario(1)
    /\ step' = "CancelKey"
    /\ UNCHANGED <<lastFrame, profilers>>

LeaveStressScene ==
    /\ SetInstanceCount(0) /\ mode' = "InstancedBatch" /\ vsync' = TRUE

(* Key 8. *)
CancelKey ==
    /\ Before("Session") /\ IsActive
    /\ phase' = "Idle" /\ scenario' = 1 /\ elapsed' = 0
    /\ LeaveStressScene
    /\ ResetProfilers
    /\ step' = "Session"
    /\ UNCHANGED <<lastFrame, writeIndex>>

-----------------------------------------------------------------------------
EnoughSamples ==
    \A samples \in {frameTimes, renderTimes, gpuTimes} :
        Len(samples) = SampleCapacity

(* A phase lasts its minimum time and until every profiler is full. *)
PhaseIsOver(time) == elapsed + time >= MinimumTime /\ EnoughSamples

SessionGoesOn(time) ==
    /\ ~IsActive \/ ~PhaseIsOver(time)
    /\ elapsed' = IF IsActive THEN Smaller(elapsed + time, MinimumTime)
                  ELSE elapsed
    /\ UNCHANGED <<phase, scenario, conditions, profilers, queries>>

MeasurementStarts(time) ==
    /\ phase = "WarmingUp" /\ PhaseIsOver(time)
    /\ phase' = "Measuring" /\ elapsed' = 0
    /\ ResetProfilers
    /\ UNCHANGED <<scenario, conditions, writeIndex>>

(* The result is captured and saved, and the next scenario applied; the    *)
(* profilers keep their samples for the next warm-up.                      *)
MeasurementFinishes(time) ==
    /\ phase = "Measuring" /\ PhaseIsOver(time)
    /\ elapsed' = 0 /\ scenario' = scenario + 1
    /\ IF scenario < Len(Scenarios)
       THEN /\ phase' = "WarmingUp"
            /\ ApplyScenario(scenario')
            /\ UNCHANGED vsync
       ELSE /\ phase' = "Completed"
            /\ LeaveStressScene
            /\ UNCHANGED queries
    /\ UNCHANGED profilers

SessionUpdate(time) ==
    /\ Before("Draw")
    /\ SessionGoesOn(time) \/ MeasurementStarts(time) \/ MeasurementFinishes(time)
    /\ step' = "Draw"
    /\ UNCHANGED lastFrame

-----------------------------------------------------------------------------
Finished == {set \in 1..QuerySets : querySets[set].state \in {"Valid", "Invalid"}}
Usable == {set \in Finished :
              querySets[set].state = "Valid" /\ querySets[set].current}

(* ResolveGpuTimingQueries frees the finished sets in the order of the     *)
(* array and stops at the first usable answer.                             *)
Resolved == IF Usable = {} THEN Finished
            ELSE {set \in Finished : \A usable \in Usable : set <= usable}
Answer == {querySets[set].sample : set \in Resolved \cap Usable}

(* BeginGpuTimingQuery takes the first set not in flight, from writeIndex. *)
Distance(set) == (set - writeIndex) % QuerySets
Nearest(sets) ==
    {set \in sets : \A other \in sets : Distance(set) <= Distance(other)}

MutantResolveKeepsInvalid(set) ==
    IF set \in Resolved /\ querySets[set].state = "Valid" THEN NoQuery
    ELSE querySets[set]

AfterResolve(set) == IF set \in Resolved THEN NoQuery ELSE querySets[set]

Items == IF stressCount > 0 THEN stressCount ELSE SceneItems

(* EnsureInstanceBufferCapacity: enough, or as before if it cannot grow.   *)
(* InstanceBuffer has how much it grows.                                   *)
Grown == {capacity, IF Items > capacity THEN Items ELSE capacity}

(* The background, the ground, and the sprites: at once, or one by one in  *)
(* the stress scene if its mode says so.                                   *)
DrawCalls(instances) ==
    2 + (IF stressCount = 0 \/ mode = "InstancedBatch" THEN 1 ELSE instances)

MutantCountsAddUp(reached) ==
    LET instances == Smaller(Items, capacity')
    IN  [instances |-> instances, dropped |-> Items - instances,
         drawCalls |-> Smaller(statistics.drawCalls
                                 + DrawCalls(instances), 2 * DrawCalls(Items))]

(* The counts of a frame start from zero, and stay as far as they have     *)
(* come when a buffer cannot be mapped and Render gives up.                *)
Counts(reached) ==
    LET instances == Smaller(Items, capacity')
    IN  IF reached = "Camera" THEN NoCounts
        ELSE [instances |-> instances, dropped |-> Items - instances,
              drawCalls |-> IF reached = "Items" THEN 0
                            ELSE DrawCalls(instances)]

(* D3D11Renderer::Render and the recording of its statistics.  It may fail *)
(* to map the buffer of the camera, or then that of the items; then        *)
(* nothing is drawn, and the zero times it leaves are not recorded.        *)
Draw(reached) ==
    LET free == {set \in 1..QuerySets : AfterResolve(set).state = "Free"}
        taken == IF reached = "Presented" THEN Nearest(free) ELSE {}
    IN  /\ step = "Draw"
        /\ capacity' \in IF reached = "Camera" THEN {capacity} ELSE Grown
        /\ statistics' = Counts(reached)
        /\ querySets' = [set \in 1..QuerySets |->
               IF set \in taken
               THEN [state |-> "Pending", current |-> TRUE,
                     sample |-> Measurement]
               ELSE AfterResolve(set)]
        /\ writeIndex' \in IF taken = {} THEN {writeIndex}
                           ELSE {(set % QuerySets) + 1 : set \in taken}
        /\ renderTimes' = IF reached = "Presented"
                          THEN Recorded(renderTimes, Measurement)
                          ELSE renderTimes
        /\ IF Answer = {} THEN UNCHANGED gpuTimes
           ELSE \E sample \in Answer : gpuTimes' = Recorded(gpuTimes, sample)
        /\ drawn' = Measurement
        /\ step' = "Begin"
        /\ UNCHANGED <<session, conditions, frameTimes>>

(* External: the GPU finishes the commands of a frame; the timestamps may  *)
(* be useless (disjoint, a lost device).                                   *)
GpuAnswers(state) ==
    /\ \E set \in 1..QuerySets :
          /\ querySets[set].state = "Pending"
          /\ querySets' = [querySets EXCEPT ![set].state = state]
    /\ UNCHANGED <<step, session, conditions, lastFrame, profilers, writeIndex>>

-----------------------------------------------------------------------------
FrameStep ==
    \/ RecordFrame \/ StressKey \/ ModeKey \/ StartKey \/ CancelKey
    \/ (\E time \in 0..1 : SessionUpdate(time))
    \/ (\E reached \in {"Camera", "Items", "Presented"} : Draw(reached))

Next == FrameStep \/ (\E state \in {"Valid", "Invalid"} : GpuAnswers(state))

Spec == Init /\ [][Next]_vars

(* Frames follow one another and take time, drawing succeeds again and     *)
(* again, and the GPU answers again and again with useful timestamps.      *)
FairSpec ==
    /\ Spec
    /\ WF_vars(FrameStep)
    /\ SF_vars(SessionUpdate(1)) /\ SF_vars(Draw("Presented"))
    /\ SF_vars(GpuAnswers("Valid"))

-----------------------------------------------------------------------------
(* While a session runs, frames are drawn under the conditions of its      *)
(* scenario; otherwise the presentation waits for VSync as it did before.  *)
SessionOwnsConditions ==
    step = "Draw" =>
        /\ vsync = ~IsActive
        /\ IsActive =>
              Scenarios[scenario] = [count |-> stressCount, mode |-> mode]

(* What a saved result says of its frames is true of its scenario.  It     *)
(* holds a full set of samples from every profiler, all of them from its   *)
(* own measurement: none from the warm-up, an earlier scenario or a frame  *)
(* before the session, however late the GPU answers.  Its counts are those *)
(* of one frame of the scenario: all its instances, drawn or dropped, and  *)
(* the draw calls of its mode; only a last frame that gave up leaves zeros *)
(* there.                                                                  *)
ResultIsPure ==
    [][phase = "Measuring" /\ phase' \in {"WarmingUp", "Completed"} =>
          /\ \A samples \in {frameTimes, renderTimes, gpuTimes} :
                /\ Len(samples) = SampleCapacity
                /\ \A i \in 1..Len(samples) : samples[i] = scenario
          /\ LET count == Scenarios[scenario].count
                 batched == Scenarios[scenario].mode = "InstancedBatch"
             IN  \/ statistics = NoCounts
                 \/ /\ statistics.instances + statistics.dropped = count
                    /\ statistics.drawCalls \in
                          {0, IF batched THEN 3 ELSE 2 + statistics.instances}
      ]_vars

(* A session comes to its end: no query set is lost to a bad answer, and   *)
(* no profiler waits for a sample that never comes.                        *)
SessionEnds == IsActive ~> ~IsActive
=============================================================================
