-------------------------- MODULE BenchmarkRun_proofs --------------------------
(***************************************************************************)
(* Proofs about the automated benchmark, for any list of scenarios, any    *)
(* sample capacity and any number of query sets.  BenchInv says of every   *)
(* container a sample passes through, the profilers, the query sets in     *)
(* flight and the frame last drawn, that while a scenario is measured it   *)
(* holds only what belongs to that measurement.                            *)
(***************************************************************************)
EXTENDS BenchmarkRun, TLAPS

Steps == {"Begin", "StressKey", "ModeKey", "StartKey", "CancelKey", "Session",
          "Draw"}
Queries == [state : {"Free", "Pending", "Valid", "Invalid"},
            current : BOOLEAN, sample : Nat]

BenchTypeOK ==
    /\ step \in Steps
    /\ phase \in {"Idle", "WarmingUp", "Measuring", "Completed"}
    /\ scenario \in Nat /\ stressCount \in Nat /\ mode \in Modes
    /\ vsync \in BOOLEAN /\ capacity \in Nat /\ drawn \in Nat
    /\ frameTimes \in Seq(Nat) /\ renderTimes \in Seq(Nat) /\ gpuTimes \in Seq(Nat)
    /\ querySets \in [1..QuerySets -> Queries]

(* SessionOwnsConditions, at every point of a frame. *)
OwnConditions ==
    /\ vsync = ~IsActive
    /\ IsActive =>
          /\ scenario \in 1..Len(Scenarios)
          /\ Scenarios[scenario] = [count |-> stressCount, mode |-> mode]

AllOf(samples, number) == \A i \in 1..Len(samples) : samples[i] = number

PureSamples ==
    phase = "Measuring" =>
        /\ AllOf(frameTimes, scenario) /\ AllOf(renderTimes, scenario)
        /\ AllOf(gpuTimes, scenario)

(* An answer that would still be recorded is one of this measurement. *)
PureQueries ==
    phase = "Measuring" =>
        \A set \in 1..QuerySets :
            querySets[set].current => querySets[set].sample = scenario

(* The counts of a frame drawn for a scenario, or of one that gave up. *)
CountsOf(number) ==
    LET count == Scenarios[number].count
        batched == Scenarios[number].mode = "InstancedBatch"
    IN  \/ statistics = NoCounts
        \/ /\ statistics.instances + statistics.dropped = count
           /\ statistics.drawCalls \in
                 {0, IF batched THEN 3 ELSE 2 + statistics.instances}

(* Until the first draw of a measurement the renderer still has the last   *)
(* frame of the warm-up.                                                   *)
LastFrameIsOurs ==
    phase = "Measuring" =>
        /\ step = "Begin" => drawn = scenario
        /\ step # "Draw" => CountsOf(scenario)

BenchInv ==
    BenchTypeOK /\ OwnConditions /\ PureSamples /\ PureQueries /\ LastFrameIsOurs

-----------------------------------------------------------------------------
(* The operators of the module *)

(* A scenario asks for no more instances than the stress scene has. *)
LEMMA ScenarioFacts ==
    /\ Len(Scenarios) \in Nat \ {0}
    /\ \A number \in 1..Len(Scenarios) :
          /\ Scenarios[number].count \in Nat \ {0}
          /\ Scenarios[number].mode \in Modes
          /\ Smaller(Scenarios[number].count, MaximumInstanceCount)
                = Scenarios[number].count
          /\ Scenarios[number] = [count |-> Scenarios[number].count,
                                  mode |-> Scenarios[number].mode]
<1> DEFINE S == [count : 1..MaximumInstanceCount, mode : Modes]
<1>1. Scenarios \in Seq(S) /\ Scenarios # <<>> /\ MaximumInstanceCount \in Nat
  BY BenchmarkAssumption
<1>2. \A entry \in S :
         /\ entry.count \in 1..MaximumInstanceCount /\ entry.mode \in Modes
         /\ entry = [count |-> entry.count, mode |-> entry.mode]
  OBVIOUS
<1> HIDE DEF S
<1>3. \A number \in 1..Len(Scenarios) : Scenarios[number] \in S
  BY <1>1
<1>4. \A count \in 1..MaximumInstanceCount :
         count \in Nat \ {0} /\ Smaller(count, MaximumInstanceCount) = count
  BY <1>1 DEF Smaller
<1>5. Len(Scenarios) \in Nat \ {0}
  BY <1>1
<1> QED BY <1>2, <1>3, <1>4, <1>5

(* The keys and the update of the session come before the draw. *)
LEMMA BeforeDraw ==
    ASSUME NEW part, Before(part)
    PROVE  step \in {"StressKey", "ModeKey", "StartKey", "CancelKey", "Session"}
BY DEF Before, Inputs

(* A profiler that records holds what it held and the new sample. *)
LEMMA RecordedFacts ==
    ASSUME NEW samples \in Seq(Nat), NEW sample \in Nat
    PROVE  /\ Recorded(samples, sample) \in Seq(Nat)
           /\ \A number : AllOf(samples, number) /\ sample = number =>
                 AllOf(Recorded(samples, sample), number)
<1>1. ASSUME NEW kept \in Seq(Nat), NEW number, AllOf(kept, number), sample = number
      PROVE  AllOf(Append(kept, sample), number)
  <2>1. /\ Len(Append(kept, sample)) = Len(kept) + 1 /\ Len(kept) \in Nat
        /\ \A i \in 1..Len(kept) : Append(kept, sample)[i] = kept[i]
        /\ Append(kept, sample)[Len(kept) + 1] = sample
    OBVIOUS
  <2>2. \A i \in 1..(Len(kept) + 1) : i \in 1..Len(kept) \/ i = Len(kept) + 1
    BY <2>1
  <2> QED BY <1>1, <2>1, <2>2 DEF AllOf
<1>2. CASE Len(samples) = SampleCapacity
  <2>1. samples # <<>>
    BY <1>2, BenchmarkAssumption
  <2>2. /\ Tail(samples) \in Seq(Nat) /\ Len(Tail(samples)) = Len(samples) - 1
        /\ Len(samples) \in Nat
        /\ \A i \in 1..(Len(samples) - 1) : Tail(samples)[i] = samples[i + 1]
    BY <2>1
  <2>3. \A number : AllOf(samples, number) => AllOf(Tail(samples), number)
    BY <2>2 DEF AllOf
  <2>4. Append(Tail(samples), sample) \in Seq(Nat)
    BY <2>2
  <2>5. Recorded(samples, sample) = Append(Tail(samples), sample)
    BY <1>2 DEF Recorded
  <2> QED BY <1>1, <2>2, <2>3, <2>4, <2>5
<1>3. CASE Len(samples) # SampleCapacity
  <2>1. Recorded(samples, sample) = Append(samples, sample)
    BY <1>3 DEF Recorded
  <2>2. Append(samples, sample) \in Seq(Nat)
    OBVIOUS
  <2> QED BY <1>1, <2>1, <2>2
<1> QED BY <1>2, <1>3

(* A new generation makes every query in flight stale. *)
LEMMA GenerationFacts ==
    ASSUME querySets \in [1..QuerySets -> Queries]
    PROVE  /\ BeginGpuTimingGeneration \in [1..QuerySets -> Queries]
           /\ \A set \in 1..QuerySets : ~BeginGpuTimingGeneration[set].current
<1>1. \A query \in Queries :
         /\ [query EXCEPT !.current = FALSE] \in Queries
         /\ [query EXCEPT !.current = FALSE].current = FALSE
  BY DEF Queries
<1> QED BY <1>1 DEF BeginGpuTimingGeneration

(* While a scenario is measured, a frame drawn belongs to it. *)
LEMMA MeasurementFacts ==
    ASSUME BenchTypeOK, OwnConditions
    PROVE  Measurement \in Nat /\ (phase = "Measuring" => Measurement = scenario)
BY DEF BenchTypeOK, OwnConditions, Measurement, IsActive

-----------------------------------------------------------------------------
(* The inductive invariant *)

(* The profilers and queries reset, outside a measurement or at its start. *)
LEMMA ResetFacts ==
    ASSUME BenchTypeOK, ResetProfilers
    PROVE  /\ \A number : /\ AllOf(frameTimes', number)
                          /\ AllOf(renderTimes', number)
                          /\ AllOf(gpuTimes', number)
           /\ frameTimes' \in Seq(Nat) /\ renderTimes' \in Seq(Nat)
           /\ gpuTimes' \in Seq(Nat)
           /\ querySets' \in [1..QuerySets -> Queries]
           /\ \A set \in 1..QuerySets : ~querySets'[set].current
<1>1. <<>> \in Seq(Nat) /\ Len(<<>>) = 0
  OBVIOUS
<1>2. \A number : AllOf(<<>>, number)
  BY <1>1 DEF AllOf
<1> QED BY <1>1, <1>2, GenerationFacts DEF BenchTypeOK, ResetProfilers

(* A key acts outside a session, starts one or cancels it. *)
LEMMA KeysKeep ==
    ASSUME BenchInv, StressKey \/ ModeKey \/ StartKey \/ CancelKey
    PROVE  BenchInv'
<1> BenchTypeOK /\ OwnConditions
  BY DEF BenchInv
<1>1. CASE StressKey
  <2>1. /\ ~IsActive /\ ResetProfilers /\ step' = "ModeKey"
        /\ UNCHANGED <<phase, scenario, mode, vsync, capacity, statistics, drawn>>
    BY <1>1 DEF StressKey, session, lastFrame
  <2>2. stressCount' \in Nat
    BY <1>1, BenchmarkAssumption DEF StressKey, SetInstanceCount, Smaller
  <2>3. phase' # "Measuring" /\ ~IsActive'
    BY <2>1 DEF IsActive
  <2>4. BenchTypeOK'
    BY <2>1, <2>2, ResetFacts DEF BenchTypeOK, Steps
  <2> QED BY <2>1, <2>3, <2>4 DEF BenchInv, OwnConditions, PureSamples, PureQueries,
                                  LastFrameIsOurs
<1>2. CASE ModeKey
  <2>1. /\ ~IsActive /\ ResetProfilers /\ step' = "StartKey" /\ mode' \in Modes
        /\ UNCHANGED <<phase, scenario, stressCount, vsync, capacity, statistics,
                       drawn>>
    BY <1>2 DEF ModeKey, session, lastFrame
  <2>3. phase' # "Measuring" /\ ~IsActive'
    BY <2>1 DEF IsActive
  <2>4. BenchTypeOK'
    BY <2>1, ResetFacts DEF BenchTypeOK, Steps
  <2> QED BY <2>1, <2>3, <2>4 DEF BenchInv, OwnConditions, PureSamples, PureQueries,
                                  LastFrameIsOurs
<1>3. CASE StartKey
  <2>1. /\ phase' = "WarmingUp" /\ scenario' = 1 /\ vsync' = FALSE
        /\ step' = "CancelKey" /\ ApplyScenario(1)
        /\ UNCHANGED <<capacity, statistics, drawn, frameTimes, renderTimes, gpuTimes>>
    BY <1>3 DEF StartKey, lastFrame, profilers
  <2>2. /\ 1 \in 1..Len(Scenarios)
        /\ stressCount' = Scenarios[1].count /\ mode' = Scenarios[1].mode
        /\ querySets' = BeginGpuTimingGeneration
    <3>1. 1 \in 1..Len(Scenarios)
      <4>1. \A n \in Nat \ {0} : 1 \in 1..n
        OBVIOUS
      <4> QED BY <4>1, ScenarioFacts
    <3> QED BY <2>1, <3>1, ScenarioFacts DEF ApplyScenario, SetInstanceCount
  <2>3. BenchTypeOK'
    BY <2>1, <2>2, ScenarioFacts, GenerationFacts DEF BenchTypeOK, Steps
  <2>4. OwnConditions'
    BY <2>1, <2>2, ScenarioFacts DEF OwnConditions, IsActive
  <2> QED BY <2>1, <2>3, <2>4 DEF BenchInv, PureSamples, PureQueries, LastFrameIsOurs
<1>4. CASE CancelKey
  <2>1. /\ phase' = "Idle" /\ scenario' = 1 /\ step' = "Session"
        /\ LeaveStressScene /\ ResetProfilers
        /\ UNCHANGED <<capacity, statistics, drawn>>
    BY <1>4 DEF CancelKey, lastFrame
  <2>2. stressCount' \in Nat /\ mode' \in Modes /\ vsync' = TRUE
    BY <2>1, BenchmarkAssumption DEF LeaveStressScene, SetInstanceCount, Smaller, Modes
  <2>3. BenchTypeOK'
    BY <2>1, <2>2, ResetFacts DEF BenchTypeOK, Steps
  <2> QED BY <2>1, <2>2, <2>3 DEF BenchInv, OwnConditions, IsActive, PureSamples,
                                  PureQueries, LastFrameIsOurs
<1> QED BY <1>1, <1>2, <1>3, <1>4

(* The top of a frame records the frame before it. *)
LEMMA RecordKeeps ==
    ASSUME BenchInv, RecordFrame
    PROVE  BenchInv'
<1>1. /\ step = "Begin" /\ step' = "StressKey"
      /\ frameTimes' = Recorded(frameTimes, drawn)
      /\ UNCHANGED <<phase, scenario, stressCount, mode, vsync, capacity,
                     statistics, drawn, renderTimes, gpuTimes, querySets>>
  BY DEF RecordFrame, session, conditions, lastFrame, queries
<1>2. /\ frameTimes' \in Seq(Nat)
      /\ \A number : AllOf(frameTimes, number) /\ drawn = number =>
            AllOf(frameTimes', number)
  BY <1>1, RecordedFacts DEF BenchInv, BenchTypeOK
<1>3. BenchTypeOK'
  BY <1>1, <1>2 DEF BenchInv, BenchTypeOK, Steps
<1>4. OwnConditions' /\ PureQueries'
  BY <1>1 DEF BenchInv, OwnConditions, PureQueries, IsActive
<1>5. PureSamples'
  BY <1>1, <1>2 DEF BenchInv, PureSamples, LastFrameIsOurs, AllOf
<1>6. LastFrameIsOurs'
  BY <1>1 DEF BenchInv, LastFrameIsOurs, CountsOf
<1> QED BY <1>3, <1>4, <1>5, <1>6 DEF BenchInv

(* The update of the session moves it on, or starts or ends a measurement. *)
LEMMA UpdateKeeps ==
    ASSUME BenchInv, NEW time \in 0..1, SessionUpdate(time)
    PROVE  BenchInv'
<1> BenchTypeOK /\ OwnConditions
  BY DEF BenchInv
<1>1. /\ step' = "Draw" /\ UNCHANGED <<capacity, statistics, drawn>>
  BY DEF SessionUpdate, lastFrame
<1>2. CASE SessionGoesOn(time)
  <2>1. UNCHANGED <<phase, scenario, stressCount, mode, vsync, frameTimes,
                    renderTimes, gpuTimes, querySets>>
    BY <1>2 DEF SessionGoesOn, conditions, profilers, queries
  <2>2. BenchTypeOK'
    BY <1>1, <2>1 DEF BenchTypeOK, Steps
  <2> QED BY <1>1, <2>1, <2>2 DEF BenchInv, OwnConditions, IsActive, PureSamples,
                                  AllOf, PureQueries, LastFrameIsOurs
<1>3. CASE MeasurementStarts(time)
  <2>1. /\ phase = "WarmingUp" /\ phase' = "Measuring" /\ ResetProfilers
        /\ UNCHANGED <<scenario, stressCount, mode, vsync>>
    BY <1>3 DEF MeasurementStarts, conditions
  <2>2. BenchTypeOK'
    BY <1>1, <2>1, ResetFacts DEF BenchTypeOK, Steps
  <2>3. OwnConditions'
    BY <2>1 DEF OwnConditions, IsActive
  <2>4. PureSamples' /\ PureQueries' /\ LastFrameIsOurs'
    BY <1>1, ResetFacts, <2>1 DEF PureSamples, PureQueries, LastFrameIsOurs
  <2> QED BY <2>2, <2>3, <2>4 DEF BenchInv
<1>4. CASE MeasurementFinishes(time)
  <2>1. /\ phase = "Measuring" /\ scenario' = scenario + 1
        /\ UNCHANGED <<frameTimes, renderTimes, gpuTimes>>
    BY <1>4 DEF MeasurementFinishes, profilers
  <2>2. CASE scenario < Len(Scenarios)
    <3>1. /\ phase' = "WarmingUp" /\ ApplyScenario(scenario') /\ UNCHANGED vsync
      BY <1>4, <2>2 DEF MeasurementFinishes
    <3>2. scenario' \in 1..Len(Scenarios)
      BY <2>1, <2>2, ScenarioFacts DEF OwnConditions, IsActive
    <3>3. /\ stressCount' = Scenarios[scenario'].count
          /\ mode' = Scenarios[scenario'].mode
          /\ querySets' = BeginGpuTimingGeneration
      BY <3>1, <3>2, ScenarioFacts DEF ApplyScenario, SetInstanceCount
    <3>4. BenchTypeOK'
      <4>1. scenario' \in Nat
        BY <2>1 DEF BenchTypeOK
      <4>2. stressCount' \in Nat /\ mode' \in Modes
        BY <3>2, <3>3, ScenarioFacts
      <4>3. querySets' \in [1..QuerySets -> Queries]
        BY <3>3, GenerationFacts DEF BenchTypeOK
      <4> QED BY <1>1, <2>1, <3>1, <4>1, <4>2, <4>3 DEF BenchTypeOK, Steps
    <3>5. OwnConditions'
      BY <2>1, <3>1, <3>2, <3>3, ScenarioFacts DEF OwnConditions, IsActive
    <3> QED BY <3>1, <3>4, <3>5 DEF BenchInv, PureSamples, PureQueries, LastFrameIsOurs
  <2>3. CASE ~(scenario < Len(Scenarios))
    <3>1. /\ phase' = "Completed" /\ LeaveStressScene /\ UNCHANGED querySets
      BY <1>4, <2>3 DEF MeasurementFinishes, queries
    <3>2. stressCount' \in Nat /\ mode' \in Modes /\ vsync' = TRUE
      BY <3>1, BenchmarkAssumption DEF LeaveStressScene, SetInstanceCount, Smaller, Modes
    <3>3. BenchTypeOK'
      BY <1>1, <2>1, <3>1, <3>2 DEF BenchTypeOK, Steps
    <3> QED BY <3>1, <3>2, <3>3 DEF BenchInv, OwnConditions, IsActive, PureSamples,
                                    PureQueries, LastFrameIsOurs
  <2> QED BY <2>2, <2>3
<1> QED BY <1>2, <1>3, <1>4 DEF SessionUpdate

(* Resolving the queries frees some, and records a sample of a current one. *)
LEMMA ResolveFacts ==
    ASSUME BenchTypeOK
    PROVE  /\ \A set \in 1..QuerySets :
                 /\ AfterResolve(set) \in Queries
                 /\ AfterResolve(set).current =>
                       /\ querySets[set].current
                       /\ AfterResolve(set).sample = querySets[set].sample
           /\ \A sample \in Answer :
                 /\ sample \in Nat
                 /\ \E set \in 1..QuerySets :
                       querySets[set].current /\ sample = querySets[set].sample
<1>1. NoQuery \in Queries /\ ~NoQuery.current
  BY DEF NoQuery, Queries
<1>2. \A set \in 1..QuerySets : querySets[set] \in Queries
  BY DEF BenchTypeOK
<1>3. \A query \in Queries : query.sample \in Nat
  BY DEF Queries
<1>4. Answer = {querySets[set].sample : set \in Resolved \cap Usable}
  BY DEF Answer
<1>5. Usable \subseteq 1..QuerySets /\ \A set \in Usable : querySets[set].current
  BY DEF Usable, Finished
<1> QED BY <1>1, <1>2, <1>3, <1>4, <1>5 DEF AfterResolve

(* What a frame leaves in the renderer are the counts of what it drew. *)
LEMMA CountsFacts ==
    ASSUME BenchTypeOK, OwnConditions, phase = "Measuring",
           NEW reached, capacity' \in Nat, statistics' = Counts(reached)
    PROVE  \/ statistics' = NoCounts
           \/ /\ statistics'.instances + statistics'.dropped
                    = Scenarios[scenario].count
              /\ statistics'.drawCalls \in
                    {0, IF Scenarios[scenario].mode = "InstancedBatch" THEN 3
                        ELSE 2 + statistics'.instances}
<1> DEFINE instances == Smaller(Items, capacity')
<1>1. /\ Scenarios[scenario].count = stressCount /\ Scenarios[scenario].mode = mode
      /\ stressCount \in Nat \ {0}
  BY ScenarioFacts DEF OwnConditions, IsActive
<1>2. Items = stressCount
  BY <1>1 DEF Items
<1>3. instances \in Nat /\ instances + (Items - instances) = stressCount
  <2>1. \A n, m \in Nat : /\ Smaller(n, m) \in Nat
                           /\ Smaller(n, m) + (n - Smaller(n, m)) = n
    BY DEF Smaller
  <2> QED BY <1>1, <1>2, <2>1
<1>4. DrawCalls(instances) = IF mode = "InstancedBatch" THEN 3 ELSE 2 + instances
  BY <1>1, <1>3 DEF DrawCalls
<1>5. CASE reached = "Camera"
  BY <1>5 DEF Counts
<1>6. CASE reached # "Camera"
  <2>1. statistics' = [instances |-> instances, dropped |-> Items - instances,
                       drawCalls |-> IF reached = "Items" THEN 0
                                     ELSE DrawCalls(instances)]
    BY <1>6 DEF Counts
  <2> HIDE DEF instances
  <2> QED BY <1>1, <1>3, <1>4, <2>1
<1> QED BY <1>5, <1>6

(* A frame is drawn, and what it measured is recorded as its own. *)
LEMMA DrawKeeps ==
    ASSUME BenchInv, NEW reached, Draw(reached)
    PROVE  BenchInv'
<1> BenchTypeOK /\ OwnConditions
  BY DEF BenchInv
<1>1. PICK taken \in SUBSET (1..QuerySets) :
         querySets' = [set \in 1..QuerySets |->
               IF set \in taken
               THEN [state |-> "Pending", current |-> TRUE,
                     sample |-> Measurement]
               ELSE AfterResolve(set)]
  <2>1. \A sets \in SUBSET (1..QuerySets) : Nearest(sets) \subseteq 1..QuerySets
    BY DEF Nearest
  <2>2. {set \in 1..QuerySets : AfterResolve(set).state = "Free"} \subseteq 1..QuerySets
    OBVIOUS
  <2> QED BY <2>1, <2>2 DEF Draw
<1>2. /\ step = "Draw" /\ step' = "Begin" /\ drawn' = Measurement
      /\ statistics' = Counts(reached)
      /\ \/ renderTimes' = Recorded(renderTimes, Measurement)
         \/ UNCHANGED renderTimes
      /\ \/ UNCHANGED gpuTimes
         \/ \E sample \in Answer : gpuTimes' = Recorded(gpuTimes, sample)
      /\ capacity' \in {capacity} \cup Grown
      /\ UNCHANGED <<phase, scenario, stressCount, mode, vsync, frameTimes>>
  BY DEF Draw, session, conditions
<1>3. Measurement \in Nat /\ (phase = "Measuring" => Measurement = scenario)
  BY MeasurementFacts
<1>4. capacity' \in Nat
  BY <1>2, BenchmarkAssumption DEF BenchTypeOK, Grown, Items
<1>5. querySets' \in [1..QuerySets -> Queries]
  <2>1. [state |-> "Pending", current |-> TRUE, sample |-> Measurement] \in Queries
    BY <1>3 DEF Queries
  <2> QED BY <1>1, <2>1, ResolveFacts
<1>6. /\ renderTimes' \in Seq(Nat)
      /\ phase = "Measuring" /\ AllOf(renderTimes, scenario) =>
            AllOf(renderTimes', scenario)
  BY <1>2, <1>3, RecordedFacts DEF BenchTypeOK
<1>7. /\ gpuTimes' \in Seq(Nat)
      /\ phase = "Measuring" /\ AllOf(gpuTimes, scenario) => AllOf(gpuTimes', scenario)
  <2>1. CASE UNCHANGED gpuTimes
    BY <2>1 DEF BenchTypeOK
  <2>2. ASSUME NEW sample \in Answer, gpuTimes' = Recorded(gpuTimes, sample)
        PROVE  /\ gpuTimes' \in Seq(Nat)
               /\ phase = "Measuring" /\ AllOf(gpuTimes, scenario) =>
                     AllOf(gpuTimes', scenario)
    <3>1. sample \in Nat /\ (phase = "Measuring" => sample = scenario)
      BY ResolveFacts DEF BenchInv, PureQueries
    <3> QED BY <2>2, <3>1, RecordedFacts DEF BenchTypeOK
  <2> QED BY <1>2, <2>1, <2>2
<1>8. BenchTypeOK'
  BY <1>2, <1>3, <1>4, <1>5, <1>6, <1>7 DEF BenchTypeOK, Steps
<1>9. OwnConditions'
  BY <1>2 DEF OwnConditions, IsActive
<1>10. PureSamples'
  BY <1>2, <1>6, <1>7 DEF BenchInv, PureSamples, AllOf
<1>11. PureQueries'
  BY <1>1, <1>2, <1>3, ResolveFacts DEF BenchInv, PureQueries
<1>12. LastFrameIsOurs'
  <2> SUFFICES ASSUME phase = "Measuring"
               PROVE  drawn' = scenario /\ CountsOf(scenario)'
    BY <1>2 DEF LastFrameIsOurs
  <2> QED BY <1>2, <1>3, <1>4, CountsFacts DEF CountsOf
<1> QED BY <1>8, <1>9, <1>10, <1>11, <1>12 DEF BenchInv

(* An answer of the GPU tells nothing but that the query has finished. *)
LEMMA AnswerKeeps ==
    ASSUME BenchInv, NEW state \in {"Valid", "Invalid"}, GpuAnswers(state)
    PROVE  BenchInv'
<1>1. PICK set \in 1..QuerySets :
         querySets' = [querySets EXCEPT ![set].state = state]
  BY DEF GpuAnswers
<1>2. UNCHANGED <<step, phase, scenario, stressCount, mode, vsync, capacity,
                  statistics, drawn, frameTimes, renderTimes, gpuTimes>>
  BY DEF GpuAnswers, session, conditions, lastFrame, profilers
<1>3. querySets \in [1..QuerySets -> Queries]
  BY DEF BenchInv, BenchTypeOK
<1>4. \A query \in Queries :
         /\ [query EXCEPT !.state = state] \in Queries
         /\ [query EXCEPT !.state = state].current = query.current
         /\ [query EXCEPT !.state = state].sample = query.sample
  BY DEF Queries
<1>5. /\ querySets' \in [1..QuerySets -> Queries]
      /\ \A other \in 1..QuerySets :
            /\ querySets'[other].current = querySets[other].current
            /\ querySets'[other].sample = querySets[other].sample
  BY <1>1, <1>3, <1>4
<1>6. BenchTypeOK'
  BY <1>2, <1>5 DEF BenchInv, BenchTypeOK
<1>7. PureQueries'
  BY <1>2, <1>5 DEF BenchInv, PureQueries
<1> QED BY <1>2, <1>6, <1>7 DEF BenchInv, OwnConditions, IsActive, PureSamples,
                                AllOf, LastFrameIsOurs, CountsOf

(* The inductive invariant holds in every state of every run. *)
THEOREM BenchInvariance == Spec => []BenchInv
<1>1. Init => BenchInv
  <2> SUFFICES ASSUME Init PROVE BenchInv
    OBVIOUS
  <2>1. <<>> \in Seq(Nat)
    OBVIOUS
  <2>2. NoQuery \in Queries
    BY DEF NoQuery, Queries
  <2>3. querySets \in [1..QuerySets -> Queries]
    BY <2>2 DEF Init
  <2> QED BY <2>1, <2>3, BenchmarkAssumption
          DEF Init, BenchInv, BenchTypeOK, OwnConditions, PureSamples,
              PureQueries, LastFrameIsOurs, IsActive, Steps, Modes
<1>2. BenchInv /\ [Next]_vars => BenchInv'
  <2> SUFFICES ASSUME BenchInv, [Next]_vars PROVE BenchInv'
    OBVIOUS
  <2>1. CASE UNCHANGED vars
    BY <2>1 DEF vars, session, conditions, lastFrame, profilers, queries,
                BenchInv, BenchTypeOK, OwnConditions, PureSamples, AllOf,
                PureQueries, LastFrameIsOurs, CountsOf, IsActive
  <2> QED BY <2>1, KeysKeep, RecordKeeps, UpdateKeeps, DrawKeeps, AnswerKeeps
          DEF Next, FrameStep
<1> QED BY <1>1, <1>2, PTL DEF Spec

(* While a session runs, every frame is drawn under the conditions of its  *)
(* scenario, whatever keys are pressed and whenever it is cancelled.       *)
THEOREM SessionAlwaysOwnsConditions == Spec => []SessionOwnsConditions
<1>1. BenchInv => SessionOwnsConditions
  BY DEF BenchInv, OwnConditions, SessionOwnsConditions
<1> QED BY <1>1, BenchInvariance, PTL

(* A saved result consists of a full set of samples of its own measurement *)
(* from every profiler and of counts of its own scenario, however many     *)
(* frames the GPU's answers are late.                                      *)
THEOREM ResultAlwaysPure == Spec => ResultIsPure
<1> DEFINE Pure ==
       /\ \A samples \in {frameTimes, renderTimes, gpuTimes} :
             /\ Len(samples) = SampleCapacity
             /\ \A i \in 1..Len(samples) : samples[i] = scenario
       /\ LET count == Scenarios[scenario].count
              batched == Scenarios[scenario].mode = "InstancedBatch"
          IN  \/ statistics = NoCounts
              \/ /\ statistics.instances + statistics.dropped = count
                 /\ statistics.drawCalls \in
                       {0, IF batched THEN 3 ELSE 2 + statistics.instances}
<1>1. BenchInv /\ [Next]_vars =>
         [phase = "Measuring" /\ phase' \in {"WarmingUp", "Completed"} => Pure]_vars
  <2> SUFFICES ASSUME BenchInv, Next, phase = "Measuring",
                      phase' \in {"WarmingUp", "Completed"}
               PROVE  Pure
    OBVIOUS
  <2>1. PICK time \in 0..1 : SessionUpdate(time) /\ MeasurementFinishes(time)
    <3>1. ~RecordFrame /\ ~StressKey /\ ~ModeKey /\ ~StartKey /\ ~CancelKey
      BY DEF RecordFrame, StressKey, ModeKey, StartKey, CancelKey, session, IsActive
    <3>2. \A reached : ~Draw(reached)
      BY DEF Draw, session
    <3>3. \A state : ~GpuAnswers(state)
      BY DEF GpuAnswers, session
    <3>4. \A time \in 0..1 : ~SessionGoesOn(time) /\ ~MeasurementStarts(time)
      BY DEF SessionGoesOn, MeasurementStarts
    <3> QED BY <3>1, <3>2, <3>3, <3>4 DEF Next, FrameStep, SessionUpdate
  <2>2. step # "Draw" /\ EnoughSamples
    BY <2>1, BeforeDraw DEF SessionUpdate, MeasurementFinishes, PhaseIsOver
  <2> QED BY <2>2 DEF EnoughSamples, BenchInv, PureSamples, AllOf,
                      LastFrameIsOurs, CountsOf
<1> QED BY <1>1, BenchInvariance, PTL DEF Spec, ResultIsPure
=============================================================================
