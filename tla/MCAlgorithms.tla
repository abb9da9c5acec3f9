----------------------------- MODULE MCAlgorithms -----------------------------
(***************************************************************************)
(* The three algorithms that keep state between their calls, side by side: *)
(* a behaviour is one of the grid, of the statistics or of the buffer, and *)
(* leaves the other two alone.                                             *)
(***************************************************************************)
EXTENDS GridCombat, FrameTimeStatistics, InstanceBuffer

VARIABLE algorithm

algorithmVars == <<algorithm, gridVars, statisticsVars, bufferVars>>

(* Two cells on either side of each axis, which is all two bits can tell   *)
(* apart; positions on the edges and inside of the inner cells.            *)
MCPoints == [x : -2..1, y : -2..1]
MCLayouts == [1..2 -> [x : {-2, 1}, y : {-1, 0}]]
MCDirections == {<<1, 0>>, <<-1, 0>>, <<0, -1>>, <<1, 1>>}

MCInit ==
    /\ algorithm \in {"Grid", "Statistics", "Buffer"}
    /\ IF algorithm = "Grid" THEN GridInit
       ELSE /\ place = [slot \in Slots |-> [x |-> 0, y |-> 0]]
            /\ health = [slot \in Slots |-> 0]
            /\ cells = Rebuild(place, health)
    /\ StatisticsInit
    /\ BufferInit

MCNext ==
    /\ UNCHANGED algorithm
    /\ \/ /\ algorithm = "Grid" /\ GridNext
          /\ UNCHANGED <<statisticsVars, bufferVars>>
       \/ /\ algorithm = "Statistics" /\ StatisticsNext
          /\ UNCHANGED <<gridVars, bufferVars>>
       \/ /\ algorithm = "Buffer" /\ BufferNext
          /\ UNCHANGED <<gridVars, statisticsVars>>

MCSpec == MCInit /\ [][MCNext]_algorithmVars
=============================================================================
