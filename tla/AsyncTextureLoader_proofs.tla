----------------------- MODULE AsyncTextureLoader_proofs -----------------------
(***************************************************************************)
(* Proofs about the asynchronous loader, for any limits, names and image   *)
(* sizes.  The inductive invariant IInv adds to the properties what they   *)
(* rest on: the worker holds a proper request while it is busy with one,   *)
(* the flags agree with where the two threads are, and the ids of the      *)
(* outstanding requests, container by container.  That the loader          *)
(* implements its contract and that its memory account is exact follow     *)
(* from it, the latter with an induction over the results waiting.         *)
(***************************************************************************)
EXTENDS AsyncTextureLoader, TLAPS, WellFoundedInduction

StopPlaces == {"StopNotifyRequest", "StopNotifySpace", "StopJoin", "StopClear"}

HoldsRequest == Holding => request \in Requests

(* How running_, stopRequested_ and the thread handle hang together. *)
SessionShape ==
    /\ worker # "None" => running
    /\ running => worker # "None" \/ main = "StopClear"
    /\ main = "StopClear" => worker = "None"
    /\ main \in StopPlaces <=> running /\ stopRequested
    /\ decoding <=> worker = "Decoding"
    /\ stopRequested => requestQueue = <<>>
    /\ ~running => /\ main = "Idle" /\ decodedBytes = 0
                   /\ requestQueue = <<>> /\ completedQueue = <<>>
                   /\ pendingPaths = {}

Busy == IF Holding THEN 1 ELSE 0

(* OutstandingInOrder, container by container. *)
IdsInOrder ==
    ~stopRequested =>
        /\ \A i \in 1..Len(requestQueue) :
              requestQueue[i].id = nextRequestId - 1 - Len(requestQueue) + i
        /\ Holding => request.id = nextRequestId - 1 - Len(requestQueue)
        /\ \A i \in 1..Len(completedQueue) :
              completedQueue[i].id = nextRequestId - 1 - Len(requestQueue)
                                        - Busy - Len(completedQueue) + i

IInv ==
    /\ TypeOK /\ HoldsRequest /\ SessionShape
    /\ QueuesBounded /\ NoLostWakeup /\ IdsInOrder /\ PendingExact

-----------------------------------------------------------------------------
(* Images, results and the value NoRequest are what their names say. *)
LEMMA ConstantFacts ==
    /\ NoImage \in Images
    /\ NoRequest \notin Requests
    /\ \A decoded \in Images : decoded.bytes \in Nat
    /\ \A name \in Names : NormalizePath(name) \in Paths \cup {NoPath}
    /\ MaximumQueuedRequestCount \in Nat /\ MaximumQueuedRequestCount > 0
    /\ MaximumCompletedResultCount \in Nat /\ MaximumCompletedResultCount > 0
<1>1. NoImage \in Images
  BY DEF NoImage, Images
<1>2. NoRequest \notin Requests
  BY PathsAssumption DEF NoRequest, Requests
<1>3. \A decoded \in Images : decoded.bytes \in Nat
  <2>1. \A decoded \in [succeeded : {FALSE}, bytes : {0}] : decoded.bytes \in Nat
    OBVIOUS
  <2>2. \A decoded \in [succeeded : {TRUE}, bytes : ImageSizes] :
           decoded.bytes \in Nat
    BY SizesAssumption
  <2> QED BY <2>1, <2>2 DEF Images
<1>4. \A name \in Names : NormalizePath(name) \in Paths \cup {NoPath}
  BY PathsAssumption DEF NormalizePath
<1>5. /\ MaximumQueuedRequestCount \in Nat /\ MaximumQueuedRequestCount > 0
      /\ MaximumCompletedResultCount \in Nat /\ MaximumCompletedResultCount > 0
  BY LimitsAssumption
<1> QED BY <1>1, <1>2, <1>3, <1>4, <1>5

(* A step of HandOver with an image in Images keeps the variables it moves *)
(* within their types.                                                     *)
LEMMA HandOverType ==
    ASSUME TypeOK, HoldsRequest, Holding, NEW decoded \in Images,
           HandOver(decoded)
    PROVE  /\ completedQueue' \in Seq(Results)
           /\ decodedBytes' \in Nat /\ peakDecodedBytes' \in Nat
           /\ worker' \in {"Exited", "RequestTest", "SpaceWait"}
           /\ decoderInitialized' \in BOOLEAN
           /\ request' \in Requests \cup {NoRequest} /\ image' \in Images
           /\ worker' = "SpaceWait" => request' = request
<1> USE ConstantFacts
<1>1. CASE stopRequested
  BY <1>1 DEF TypeOK, HandOver
<1>2. CASE ~stopRequested /\ Len(completedQueue) < MaximumCompletedResultCount
  <2>1. [id |-> request.id, path |-> request.path, image |-> decoded] \in Results
    BY DEF HoldsRequest, Requests, Results
  <2>2. decodedBytes' \in Nat /\ peakDecodedBytes' \in Nat
    BY <1>2 DEF TypeOK, HandOver, Larger
  <2>3. completedQueue' =
           Append(completedQueue, [id |-> request.id, path |-> request.path,
                                   image |-> decoded])
    BY <1>2 DEF HandOver
  <2>4. completedQueue' \in Seq(Results)
    BY <2>1, <2>3 DEF TypeOK
  <2> QED BY <1>2, <2>2, <2>4 DEF TypeOK, HandOver
<1>3. CASE ~stopRequested /\ Len(completedQueue) >= MaximumCompletedResultCount
  BY <1>3 DEF TypeOK, HandOver
<1> QED BY <1>1, <1>2, <1>3 DEF HandOver

(* Every step keeps the types, and the worker's hold on a proper request. *)
LEMMA TypeInductive ==
    TypeOK /\ HoldsRequest /\ [Next]_vars => TypeOK' /\ HoldsRequest'
<1> SUFFICES ASSUME TypeOK, HoldsRequest, [Next]_vars
             PROVE  TypeOK' /\ HoldsRequest'
  OBVIOUS
<1> USE ConstantFacts
<1>0. <<>> \in Seq(Requests) /\ <<>> \in Seq(Results)
  OBVIOUS
<1>1. CASE Start
  <2>1. /\ worker' \in WorkerPlaces /\ running' \in BOOLEAN
        /\ worker' \in {"Starting", worker}
    BY <1>1 DEF Start, TypeOK, WorkerPlaces
  <2>2. /\ requestQueue' \in Seq(Requests) /\ completedQueue' \in Seq(Results)
        /\ pendingPaths' \subseteq Paths /\ nextRequestId' \in Nat \ {0}
        /\ decodedBytes' \in Nat /\ peakDecodedBytes' \in Nat
        /\ rejectedRequestCount' \in Nat /\ failedRequestCount' \in Nat
        /\ decoding' \in BOOLEAN /\ stopRequested' \in BOOLEAN
    <3>1. /\ requestQueue' = <<>> /\ completedQueue' = <<>>
          /\ pendingPaths' = {} /\ nextRequestId' = 1
          /\ decodedBytes' = 0 /\ peakDecodedBytes' = 0
          /\ rejectedRequestCount' = 0 /\ failedRequestCount' = 0
          /\ decoding' = FALSE /\ stopRequested' = FALSE
      BY <1>1 DEF Start
    <3>2. requestQueue' \in Seq(Requests) /\ completedQueue' \in Seq(Results)
      BY <1>0, <3>1
    <3>3. /\ pendingPaths' \subseteq Paths /\ nextRequestId' \in Nat \ {0}
          /\ decodedBytes' \in Nat /\ peakDecodedBytes' \in Nat
          /\ rejectedRequestCount' \in Nat /\ failedRequestCount' \in Nat
      BY <3>1
    <3>4. decoding' \in BOOLEAN /\ stopRequested' \in BOOLEAN
      BY <3>1
    <3> QED BY <3>2, <3>3, <3>4
  <2>3. UNCHANGED <<decoderInitialized, request, image, main, accepted, output>>
    BY <1>1 DEF Start, callVars
  <2>4. TypeOK'
    BY <2>1, <2>2, <2>3 DEF TypeOK
  <2> QED BY <2>1, <2>3, <2>4 DEF HoldsRequest, Holding
<1>2. CASE RequestCall
  <2>1. ASSUME NEW name \in Names, RejectRequest(name) PROVE TypeOK' /\ HoldsRequest'
    BY <2>1 DEF RejectRequest, TypeOK, HoldsRequest, Holding, queues, flags,
                workerVars, callVars
  <2>2. ASSUME NEW name \in Names, AcceptRequest(name) PROVE TypeOK' /\ HoldsRequest'
    <3> DEFINE new == [id |-> nextRequestId, path |-> NormalizePath(name)]
    <3>1. new \in Requests /\ NormalizePath(name) \in Paths
      BY <2>2 DEF AcceptRequest, Refuses, Requests, TypeOK
    <3> QED
      BY <2>2, <3>1 DEF AcceptRequest, TypeOK, HoldsRequest, Holding, counters,
                        flags, workerVars, MainPlaces
  <2> QED BY <1>2, <2>1, <2>2 DEF RequestCall
<1>3. CASE TryPopCompleted
  <2>1. output' \in Results /\ decodedBytes' \in Nat
    <3>1. Head(completedQueue) \in Results
      BY <1>3 DEF TryPopCompleted, TypeOK
    <3>2. Head(completedQueue).image.bytes \in Nat
      BY <3>1 DEF Results
    <3> QED BY <1>3, <3>1, <3>2 DEF TryPopCompleted, TypeOK, Smaller
  <2> QED
    BY <1>3, <2>1 DEF TryPopCompleted, TypeOK, HoldsRequest, Holding, flags,
                      workerVars, MainPlaces
<1>4. CASE StopRequests
  BY <1>4 DEF StopRequests, TypeOK, HoldsRequest, Holding, counters, workerVars,
              MainPlaces
<1>5. CASE MainContinues
  <2>1. CASE RequestNotifies
    BY <2>1 DEF RequestNotifies, Notify, TypeOK, HoldsRequest, Holding, queues,
                counters, flags, MainPlaces, WorkerPlaces
  <2>2. CASE PopNotifies
    BY <2>2 DEF PopNotifies, Notify, TypeOK, HoldsRequest, Holding, queues,
                counters, flags, MainPlaces, WorkerPlaces
  <2>3. CASE StopNotifiesRequest
    BY <2>3 DEF StopNotifiesRequest, Notify, TypeOK, HoldsRequest, Holding,
                queues, counters, flags, MainPlaces, WorkerPlaces
  <2>4. CASE StopNotifiesSpace
    BY <2>4 DEF StopNotifiesSpace, Notify, TypeOK, HoldsRequest, Holding,
                queues, counters, flags, MainPlaces, WorkerPlaces
  <2>5. CASE StopJoins
    BY <2>5 DEF StopJoins, TypeOK, HoldsRequest, Holding, queues, counters,
                flags, MainPlaces, WorkerPlaces
  <2>6. CASE StopClears
    BY <1>0, <2>6 DEF StopClears, TypeOK, HoldsRequest, Holding, workerVars,
                      MainPlaces
  <2> QED BY <1>5, <2>1, <2>2, <2>3, <2>4, <2>5, <2>6 DEF MainContinues
<1>6. CASE WorkerSteps
  <2>1. CASE WorkerStarts
    BY <2>1 DEF WorkerStarts, TypeOK, HoldsRequest, Holding, queues, counters,
                flags, callVars, WorkerPlaces
  <2>2. CASE WorkerSleepsForRequest
    BY <2>2 DEF WorkerSleepsForRequest, TypeOK, HoldsRequest, Holding, queues,
                counters, flags, callVars, WorkerPlaces
  <2>3. CASE WorkerTakesRequest
    <3>1. Head(requestQueue) \in Requests
      BY <2>3 DEF WorkerTakesRequest, TypeOK
    <3> QED
      BY <2>3, <3>1 DEF WorkerTakesRequest, TypeOK, HoldsRequest, counters,
                        callVars, WorkerPlaces
  <2>4. CASE WorkerStopsIdle
    BY <2>4 DEF WorkerStopsIdle, TypeOK, HoldsRequest, Holding, queues,
                counters, flags, callVars, WorkerPlaces
  <2>5. CASE WorkerDecodes
    <3>1. PICK decoded \in Images :
             /\ decoding' = FALSE
             /\ failedRequestCount' =
                   failedRequestCount + (IF decoded.succeeded THEN 0 ELSE 1)
             /\ HandOver(decoded)
      BY <2>5 DEF WorkerDecodes
    <3>2. Holding
      BY <2>5 DEF WorkerDecodes, Holding
    <3>3. failedRequestCount' \in Nat
      BY <3>1 DEF TypeOK
    <3> QED
      BY <2>5, <3>1, <3>2, <3>3, HandOverType
         DEF WorkerDecodes, TypeOK, HoldsRequest, Holding, callVars, WorkerPlaces
  <2>6. CASE WorkerRetests
    <3>1. Holding /\ HandOver(image) /\ image \in Images
      BY <2>6 DEF WorkerRetests, Holding, TypeOK
    <3> QED
      BY <2>6, <3>1, HandOverType
         DEF WorkerRetests, TypeOK, HoldsRequest, Holding, flags, callVars,
             WorkerPlaces
  <2> QED BY <1>6, <2>1, <2>2, <2>3, <2>4, <2>5, <2>6 DEF WorkerSteps
<1>7. CASE SpuriousWakeup
  BY <1>7 DEF SpuriousWakeup, TypeOK, HoldsRequest, Holding, queues, counters,
              flags, callVars, WorkerPlaces
<1>8. CASE UNCHANGED vars
  BY <1>8 DEF TypeOK, HoldsRequest, Holding, vars, queues, counters, flags,
              workerVars, callVars
<1> QED BY <1>1, <1>2, <1>3, <1>4, <1>5, <1>6, <1>7, <1>8 DEF Next

(* HandOver keeps or ends the worker's run, and touches no flag. *)
LEMMA HandOverPlaces ==
    ASSUME NEW decoded, HandOver(decoded)
    PROVE  /\ stopRequested => worker' = "Exited"
           /\ worker' \in {"Exited", "RequestTest", "SpaceWait"}
           /\ UNCHANGED completedQueue \/ ~stopRequested
           /\ UNCHANGED decodedBytes \/ ~stopRequested
           /\ worker' = "SpaceWait" =>
                 /\ ~stopRequested /\ UNCHANGED completedQueue
                 /\ Len(completedQueue) >= MaximumCompletedResultCount
BY DEF HandOver

(* Every step keeps the flags in agreement with the two threads' places. *)
LEMMA ShapeInductive ==
    TypeOK /\ SessionShape /\ [Next]_vars => SessionShape'
<1> SUFFICES ASSUME TypeOK, SessionShape, [Next]_vars
             PROVE  SessionShape'
  OBVIOUS
<1> USE DEF StopPlaces
<1>1. CASE Start
  BY <1>1 DEF Start, SessionShape, callVars
<1>2. CASE RequestCall
  <2>1. ASSUME NEW name \in Names, RejectRequest(name) PROVE SessionShape'
    BY <2>1 DEF RejectRequest, SessionShape, queues, flags, workerVars, callVars
  <2>2. ASSUME NEW name \in Names, AcceptRequest(name) PROVE SessionShape'
    BY <2>2 DEF AcceptRequest, Refuses, SessionShape, counters, flags, workerVars
  <2> QED BY <1>2, <2>1, <2>2 DEF RequestCall
<1>3. CASE TryPopCompleted
  BY <1>3 DEF TryPopCompleted, SessionShape, flags, workerVars
<1>4. CASE StopRequests
  BY <1>4 DEF StopRequests, SessionShape, counters, workerVars
<1>5. CASE MainContinues
  <2>1. CASE RequestNotifies
    BY <2>1 DEF RequestNotifies, Notify, SessionShape, queues, counters, flags
  <2>2. CASE PopNotifies
    BY <2>2 DEF PopNotifies, Notify, SessionShape, queues, counters, flags
  <2>3. CASE StopNotifiesRequest
    BY <2>3 DEF StopNotifiesRequest, Notify, SessionShape, queues, counters, flags
  <2>4. CASE StopNotifiesSpace
    BY <2>4 DEF StopNotifiesSpace, Notify, SessionShape, queues, counters, flags
  <2>5. CASE StopJoins
    BY <2>5 DEF StopJoins, SessionShape, queues, counters, flags
  <2>6. CASE StopClears
    BY <2>6 DEF StopClears, SessionShape, workerVars
  <2> QED BY <1>5, <2>1, <2>2, <2>3, <2>4, <2>5, <2>6 DEF MainContinues
<1>6. CASE WorkerSteps
  <2>1. CASE WorkerStarts
    BY <2>1 DEF WorkerStarts, SessionShape, queues, counters, flags, callVars
  <2>2. CASE WorkerSleepsForRequest
    BY <2>2 DEF WorkerSleepsForRequest, SessionShape, queues, counters, flags,
                callVars
  <2>3. CASE WorkerTakesRequest
    BY <2>3 DEF WorkerTakesRequest, SessionShape, counters, callVars
  <2>4. CASE WorkerStopsIdle
    BY <2>4 DEF WorkerStopsIdle, SessionShape, queues, counters, flags, callVars
  <2>5. CASE WorkerDecodes
    <3>1. PICK decoded \in Images : decoding' = FALSE /\ HandOver(decoded)
      BY <2>5 DEF WorkerDecodes
    <3> QED
      BY <2>5, <3>1, HandOverPlaces DEF WorkerDecodes, SessionShape, callVars
  <2>6. CASE WorkerRetests
    BY <2>6, HandOverPlaces DEF WorkerRetests, SessionShape, flags, callVars
  <2> QED BY <1>6, <2>1, <2>2, <2>3, <2>4, <2>5, <2>6 DEF WorkerSteps
<1>7. CASE SpuriousWakeup
  BY <1>7 DEF SpuriousWakeup, SessionShape, queues, counters, flags, callVars
<1>8. CASE UNCHANGED vars
  BY <1>8 DEF SessionShape, vars, queues, counters, flags, workerVars, callVars
<1> QED BY <1>1, <1>2, <1>3, <1>4, <1>5, <1>6, <1>7, <1>8 DEF Next

(* Every step keeps both queues within their limits: only an admitted      *)
(* request and a published result lengthen one.                            *)
LEMMA BoundsInductive ==
    TypeOK /\ QueuesBounded /\ [Next]_vars => QueuesBounded'
<1> SUFFICES ASSUME TypeOK, QueuesBounded, [Next]_vars
             PROVE  QueuesBounded'
  OBVIOUS
<1> USE LimitsAssumption
<1>1. ASSUME requestQueue' \in {requestQueue, <<>>},
             completedQueue' \in {completedQueue, <<>>}
      PROVE  QueuesBounded'
  BY <1>1 DEF QueuesBounded
<1>2. CASE RequestCall
  <2>1. ASSUME NEW name \in Names, RejectRequest(name) PROVE QueuesBounded'
    BY <1>1, <2>1 DEF RejectRequest, queues
  <2>2. ASSUME NEW name \in Names, AcceptRequest(name) PROVE QueuesBounded'
    <3>1. /\ Len(requestQueue) < MaximumQueuedRequestCount
          /\ Len(requestQueue') = Len(requestQueue) + 1
          /\ UNCHANGED completedQueue
      BY <2>2 DEF AcceptRequest, Refuses, TypeOK
    <3> QED BY <3>1 DEF QueuesBounded, TypeOK
  <2> QED BY <1>2, <2>1, <2>2 DEF RequestCall
<1>3. CASE TryPopCompleted
  BY <1>3 DEF TryPopCompleted, QueuesBounded, TypeOK
<1>4. CASE Start \/ StopRequests \/ MainContinues \/ SpuriousWakeup
  BY <1>1, <1>4 DEF Start, StopRequests, MainContinues, RequestNotifies,
     PopNotifies, StopNotifiesRequest, StopNotifiesSpace, StopJoins, StopClears,
     SpuriousWakeup, queues
<1>5. ASSUME NEW decoded, HandOver(decoded), UNCHANGED requestQueue
      PROVE  QueuesBounded'
  <2>1. Len(completedQueue') <= MaximumCompletedResultCount
    BY <1>5 DEF HandOver, QueuesBounded, TypeOK
  <2> QED BY <1>5, <2>1 DEF QueuesBounded
<1>6. CASE WorkerSteps
  <2>1. CASE WorkerTakesRequest
    BY <2>1 DEF WorkerTakesRequest, QueuesBounded, TypeOK
  <2>2. CASE WorkerStarts \/ WorkerSleepsForRequest \/ WorkerStopsIdle
    BY <1>1, <2>2 DEF WorkerStarts, WorkerSleepsForRequest, WorkerStopsIdle, queues
  <2>3. CASE WorkerDecodes \/ WorkerRetests
    BY <1>5, <2>3 DEF WorkerDecodes, WorkerRetests
  <2> QED BY <1>6, <2>1, <2>2, <2>3 DEF WorkerSteps
<1>7. CASE UNCHANGED vars
  BY <1>1, <1>7 DEF vars, queues
<1> QED BY <1>2, <1>3, <1>4, <1>6, <1>7 DEF Next

(* Every step keeps the sleeping worker within reach of a wakeup. *)
LEMMA WakeupInductive ==
    TypeOK /\ SessionShape /\ NoLostWakeup /\ [Next]_vars => NoLostWakeup'
<1> SUFFICES ASSUME TypeOK, SessionShape, NoLostWakeup, [Next]_vars
             PROVE  NoLostWakeup'
  OBVIOUS
<1>1. CASE Start
  BY <1>1 DEF Start, NoLostWakeup, SessionShape
<1>2. CASE RequestCall
  <2>1. ASSUME NEW name \in Names, RejectRequest(name) PROVE NoLostWakeup'
    BY <2>1 DEF RejectRequest, NoLostWakeup, queues, flags, workerVars, callVars
  <2>2. ASSUME NEW name \in Names, AcceptRequest(name) PROVE NoLostWakeup'
    BY <2>2 DEF AcceptRequest, NoLostWakeup, counters, flags, workerVars
  <2> QED BY <1>2, <2>1, <2>2 DEF RequestCall
<1>3. CASE TryPopCompleted
  BY <1>3 DEF TryPopCompleted, NoLostWakeup, flags, workerVars
<1>4. CASE StopRequests
  BY <1>4 DEF StopRequests, NoLostWakeup, counters, workerVars
<1>5. CASE MainContinues
  <2>1. CASE RequestNotifies
    BY <2>1 DEF RequestNotifies, Notify, NoLostWakeup, queues, flags
  <2>2. CASE PopNotifies
    BY <2>2 DEF PopNotifies, Notify, NoLostWakeup, queues, flags
  <2>3. CASE StopNotifiesRequest
    BY <2>3 DEF StopNotifiesRequest, Notify, NoLostWakeup, queues, flags
  <2>4. CASE StopNotifiesSpace
    BY <2>4 DEF StopNotifiesSpace, Notify, NoLostWakeup, queues, flags
  <2>5. CASE StopJoins
    BY <2>5 DEF StopJoins, NoLostWakeup
  <2>6. CASE StopClears
    BY <2>6 DEF StopClears, NoLostWakeup, SessionShape, workerVars
  <2> QED BY <1>5, <2>1, <2>2, <2>3, <2>4, <2>5, <2>6 DEF MainContinues
<1>6. ASSUME NEW decoded, HandOver(decoded), UNCHANGED <<stopRequested, main>>
      PROVE  NoLostWakeup'
  <2>1. worker' = "SpaceWait" =>
           /\ ~stopRequested /\ UNCHANGED completedQueue
           /\ Len(completedQueue) >= MaximumCompletedResultCount
    BY <1>6, HandOverPlaces
  <2>2. worker' # "RequestWait"
    BY <1>6, HandOverPlaces
  <2> QED BY <1>6, <2>1, <2>2, LimitsAssumption DEF NoLostWakeup, TypeOK
<1>7. CASE WorkerSteps
  <2>1. CASE WorkerStarts \/ WorkerTakesRequest \/ WorkerStopsIdle
    BY <2>1 DEF WorkerStarts, WorkerTakesRequest, WorkerStopsIdle, NoLostWakeup
  <2>2. CASE WorkerSleepsForRequest
    BY <2>2 DEF WorkerSleepsForRequest, NoLostWakeup, queues, flags
  <2>3. CASE WorkerDecodes \/ WorkerRetests
    BY <1>6, <2>3 DEF WorkerDecodes, WorkerRetests, flags, callVars
  <2> QED BY <1>7, <2>1, <2>2, <2>3 DEF WorkerSteps
<1>8. CASE SpuriousWakeup
  BY <1>8 DEF SpuriousWakeup, NoLostWakeup, queues, flags, callVars
<1>9. CASE UNCHANGED vars
  BY <1>9 DEF NoLostWakeup, vars, queues, flags, workerVars, callVars
<1> QED BY <1>1, <1>2, <1>3, <1>4, <1>5, <1>7, <1>8, <1>9 DEF Next

(* Every step keeps the ids contiguous from the oldest result to the       *)
(* newest request: what moves between the containers moves at their ends.  *)
LEMMA IdsInductive ==
    TypeOK /\ HoldsRequest /\ SessionShape /\ IdsInOrder /\ [Next]_vars
        => IdsInOrder'
<1> SUFFICES ASSUME TypeOK, HoldsRequest, SessionShape, IdsInOrder, [Next]_vars
             PROVE  IdsInOrder'
  OBVIOUS
<1>1. ASSUME UNCHANGED <<requestQueue, completedQueue, nextRequestId, request>>,
             stopRequested' \/ (UNCHANGED stopRequested /\ Holding' = Holding)
      PROVE  IdsInOrder'
  BY <1>1 DEF IdsInOrder, Busy
<1>2. ASSUME stopRequested' PROVE IdsInOrder'
  BY <1>2 DEF IdsInOrder
<1>3. CASE Start
  <2>1. Len(requestQueue') = 0 /\ Len(completedQueue') = 0 /\ ~Holding'
    BY <1>3 DEF Start, SessionShape, Holding
  <2> QED BY <2>1 DEF IdsInOrder
<1>4. CASE RequestCall
  <2>1. ASSUME NEW name \in Names, RejectRequest(name) PROVE IdsInOrder'
    BY <1>1, <2>1 DEF RejectRequest, queues, flags, workerVars, Holding
  <2>2. ASSUME NEW name \in Names, AcceptRequest(name) PROVE IdsInOrder'
    <3> DEFINE new == [id |-> nextRequestId, path |-> NormalizePath(name)]
    <3>1. ~stopRequested /\ nextRequestId' = nextRequestId + 1
      BY <2>2 DEF AcceptRequest, Refuses
    <3>2. requestQueue' = Append(requestQueue, new)
      BY <2>2 DEF AcceptRequest
    <3>3. /\ Len(requestQueue') = Len(requestQueue) + 1
          /\ \A i \in 1..Len(requestQueue) : requestQueue'[i] = requestQueue[i]
          /\ requestQueue'[Len(requestQueue) + 1] = new
      BY <3>2 DEF TypeOK
    <3>4. UNCHANGED <<completedQueue, request>> /\ Holding' = Holding
      BY <2>2 DEF AcceptRequest, workerVars, Holding
    <3>5. Busy' = Busy /\ Busy \in 0..1
      BY <3>4 DEF Busy
    <3>6. \A i \in 1..Len(requestQueue') :
             requestQueue'[i].id = nextRequestId' - 1 - Len(requestQueue') + i
      <4> SUFFICES ASSUME NEW i \in 1..Len(requestQueue')
                   PROVE  requestQueue'[i].id =
                             nextRequestId' - 1 - Len(requestQueue') + i
        OBVIOUS
      <4>1. nextRequestId \in Nat /\ Len(requestQueue) \in Nat
        BY DEF TypeOK
      <4>2. CASE i = Len(requestQueue) + 1
        BY <3>1, <3>3, <4>1, <4>2
      <4>3. CASE i \in 1..Len(requestQueue)
        <5>1. requestQueue[i].id = nextRequestId - 1 - Len(requestQueue) + i
          BY <3>1, <4>3 DEF IdsInOrder
        <5> QED BY <3>1, <3>3, <4>1, <4>3, <5>1
      <4> QED BY <3>3, <4>1, <4>2, <4>3
    <3>7. Holding' => request'.id = nextRequestId' - 1 - Len(requestQueue')
      BY <3>1, <3>3, <3>4 DEF IdsInOrder, TypeOK
    <3>8. \A i \in 1..Len(completedQueue') :
             completedQueue'[i].id = nextRequestId' - 1 - Len(requestQueue')
                                       - Busy' - Len(completedQueue') + i
      BY <3>1, <3>3, <3>4, <3>5 DEF IdsInOrder, TypeOK
    <3> QED BY <3>6, <3>7, <3>8 DEF IdsInOrder
  <2> QED BY <1>4, <2>1, <2>2 DEF RequestCall
<1>5. CASE TryPopCompleted
  <2>1. /\ Len(completedQueue') = Len(completedQueue) - 1
        /\ \A i \in 1..Len(completedQueue') :
              completedQueue'[i] = completedQueue[i + 1]
    BY <1>5 DEF TryPopCompleted, TypeOK
  <2>2. /\ UNCHANGED <<requestQueue, nextRequestId, request, stopRequested>>
        /\ Holding' = Holding
    BY <1>5 DEF TryPopCompleted, flags, workerVars, Holding
  <2>3. Busy' = Busy /\ Busy \in 0..1
    BY <2>2 DEF Busy
  <2>4. ~stopRequested => \A i \in 1..Len(completedQueue') :
           completedQueue'[i].id = nextRequestId - 1 - Len(requestQueue)
                                     - Busy - Len(completedQueue') + i
    BY <2>1, <2>3 DEF IdsInOrder, TypeOK
  <2> QED BY <2>2, <2>3, <2>4 DEF IdsInOrder
<1>6. CASE StopRequests
  BY <1>2, <1>6 DEF StopRequests
<1>7. CASE MainContinues
  <2>1. CASE RequestNotifies \/ PopNotifies
    <3>1. Holding' = Holding
      BY <2>1 DEF RequestNotifies, PopNotifies, Notify, Holding
    <3> QED BY <1>1, <2>1, <3>1 DEF RequestNotifies, PopNotifies, queues, flags
  <2>2. CASE StopNotifiesRequest \/ StopNotifiesSpace \/ StopJoins \/ StopClears
    <3>1. main \in StopPlaces /\ UNCHANGED stopRequested
      BY <2>2 DEF StopNotifiesRequest, StopNotifiesSpace, StopJoins, StopClears,
                  StopPlaces, flags
    <3> QED BY <1>2, <3>1 DEF SessionShape
  <2> QED BY <1>7, <2>1, <2>2 DEF MainContinues
<1>8. ASSUME NEW decoded, HandOver(decoded), Holding,
             UNCHANGED <<requestQueue, nextRequestId, stopRequested>>
      PROVE  IdsInOrder'
  <2>1. CASE stopRequested
    BY <1>2, <1>8, <2>1
  <2>2. CASE ~stopRequested /\ Len(completedQueue) >= MaximumCompletedResultCount
    <3>1. worker' = "SpaceWait" /\ UNCHANGED <<completedQueue, request>>
      BY <1>8, <2>2, LimitsAssumption DEF HandOver, TypeOK
    <3> QED BY <1>1, <1>8, <3>1 DEF Holding
  <2>3. CASE ~stopRequested /\ Len(completedQueue) < MaximumCompletedResultCount
    <3> DEFINE result == [id |-> request.id, path |-> request.path,
                          image |-> decoded]
    <3>1. completedQueue' = Append(completedQueue, result) /\ ~Holding'
      BY <1>8, <2>3, LimitsAssumption DEF HandOver, TypeOK, Holding
    <3>2. /\ Len(completedQueue') = Len(completedQueue) + 1
          /\ \A i \in 1..Len(completedQueue) :
                completedQueue'[i] = completedQueue[i]
          /\ completedQueue'[Len(completedQueue) + 1] = result
      BY <3>1 DEF TypeOK
    <3>3. Busy = 1 /\ Busy' = 0
      BY <1>8, <3>1 DEF Busy
    <3>4. result.id = nextRequestId - 1 - Len(requestQueue)
      BY <1>8, <2>3 DEF IdsInOrder
    <3>5. \A i \in 1..Len(completedQueue') :
             completedQueue'[i].id = nextRequestId - 1 - Len(requestQueue)
                                       - Busy' - Len(completedQueue') + i
      <4> SUFFICES ASSUME NEW i \in 1..Len(completedQueue')
                   PROVE  completedQueue'[i].id =
                             nextRequestId - 1 - Len(requestQueue)
                               - Busy' - Len(completedQueue') + i
        OBVIOUS
      <4>1. /\ nextRequestId \in Nat /\ Len(requestQueue) \in Nat
            /\ Len(completedQueue) \in Nat
        BY DEF TypeOK
      <4>2. CASE i = Len(completedQueue) + 1
        BY <3>2, <3>3, <3>4, <4>1, <4>2
      <4>3. CASE i \in 1..Len(completedQueue)
        <5>1. completedQueue[i].id = nextRequestId - 1 - Len(requestQueue)
                                       - Busy - Len(completedQueue) + i
          BY <2>3, <4>3 DEF IdsInOrder
        <5> QED BY <3>2, <3>3, <4>1, <4>3, <5>1
      <4> QED BY <3>2, <4>1, <4>2, <4>3
    <3> QED BY <1>8, <2>3, <3>1, <3>5 DEF IdsInOrder
  <2> QED BY <2>1, <2>2, <2>3, LimitsAssumption DEF TypeOK
<1>9. CASE WorkerSteps
  <2>1. CASE WorkerStarts \/ WorkerSleepsForRequest \/ WorkerStopsIdle
    <3>1. Holding' = Holding
      BY <2>1 DEF WorkerStarts, WorkerSleepsForRequest, WorkerStopsIdle, Holding
    <3> QED
      BY <1>1, <2>1, <3>1 DEF WorkerStarts, WorkerSleepsForRequest,
         WorkerStopsIdle, queues, flags
  <2>2. CASE WorkerTakesRequest
    <3>1. /\ Len(requestQueue') = Len(requestQueue) - 1
          /\ \A i \in 1..Len(requestQueue') :
                requestQueue'[i] = requestQueue[i + 1]
          /\ request' = requestQueue[1] /\ 1 \in 1..Len(requestQueue)
      BY <2>2 DEF WorkerTakesRequest, TypeOK
    <3>2. UNCHANGED <<completedQueue, nextRequestId, stopRequested>> /\ ~stopRequested
      BY <2>2 DEF WorkerTakesRequest
    <3>3. Busy = 0 /\ Busy' = 1
      BY <2>2 DEF WorkerTakesRequest, Busy, Holding
    <3>4. \A i \in 1..Len(requestQueue') :
             requestQueue'[i].id = nextRequestId - 1 - Len(requestQueue') + i
      <4> SUFFICES ASSUME NEW i \in 1..Len(requestQueue')
                   PROVE  requestQueue'[i].id =
                             nextRequestId - 1 - Len(requestQueue') + i
        OBVIOUS
      <4>1. nextRequestId \in Nat /\ Len(requestQueue) \in Nat
        BY DEF TypeOK
      <4>2. i + 1 \in 1..Len(requestQueue)
        BY <3>1, <4>1
      <4>3. requestQueue[i + 1].id
               = nextRequestId - 1 - Len(requestQueue) + (i + 1)
        BY <3>2, <4>2 DEF IdsInOrder
      <4> QED BY <3>1, <4>1, <4>3
    <3>5. request'.id = nextRequestId - 1 - Len(requestQueue')
      BY <3>1, <3>2 DEF IdsInOrder, TypeOK
    <3>6. \A i \in 1..Len(completedQueue) :
             completedQueue[i].id = nextRequestId - 1 - Len(requestQueue')
                                      - Busy' - Len(completedQueue) + i
      <4>1. /\ nextRequestId \in Nat /\ Len(requestQueue) \in Nat
            /\ Len(completedQueue) \in Nat
        BY DEF TypeOK
      <4>2. \A i \in 1..Len(completedQueue) :
               completedQueue[i].id = nextRequestId - 1 - Len(requestQueue)
                                        - Busy - Len(completedQueue) + i
        BY <3>2 DEF IdsInOrder
      <4>3. nextRequestId - 1 - Len(requestQueue') - Busy'
               = nextRequestId - 1 - Len(requestQueue) - Busy
        BY <3>1, <3>3, <4>1
      <4> QED BY <4>2, <4>3
    <3> QED BY <3>2, <3>4, <3>5, <3>6 DEF IdsInOrder
  <2>3. CASE WorkerDecodes \/ WorkerRetests
    <3>1. Holding
      BY <2>3 DEF WorkerDecodes, WorkerRetests, Holding
    <3> QED BY <1>8, <2>3, <3>1 DEF WorkerDecodes, WorkerRetests, flags
  <2> QED BY <1>9, <2>1, <2>2, <2>3 DEF WorkerSteps
<1>10. CASE SpuriousWakeup
  <2>1. Holding' = Holding
    BY <1>10 DEF SpuriousWakeup, Holding
  <2> QED BY <1>1, <1>10, <2>1 DEF SpuriousWakeup, queues, flags
<1>11. CASE UNCHANGED vars
  BY <1>1, <1>11 DEF vars, queues, flags, workerVars, Holding
<1> QED
  BY <1>3, <1>4, <1>5, <1>6, <1>7, <1>9, <1>10, <1>11 DEF Next

(* What a concatenation holds at each place. *)
LEMMA Concatenation ==
    ASSUME NEW S, NEW s \in Seq(S), NEW t \in Seq(S)
    PROVE  /\ s \o t \in Seq(S) /\ Len(s \o t) = Len(s) + Len(t)
           /\ \A j \in 1..Len(s) : (s \o t)[j] = s[j]
           /\ \A j \in (Len(s) + 1)..(Len(s) + Len(t)) :
                 (s \o t)[j] = t[j - Len(s)]
OBVIOUS

(* Taking the first of a concatenation takes the first of its first part. *)
LEMMA TailOfConcatenation ==
    ASSUME NEW S, NEW s \in Seq(S), NEW t \in Seq(S), s # <<>>
    PROVE  s \o t # <<>> /\ Tail(s \o t) = Tail(s) \o t
OBVIOUS

(* What is known of the requests that some results answer. *)
Tickets(results) == [i \in 1..Len(results) |-> TicketOf(results[i])]

(* The results, the request in hand and the queue laid end to end. *)
LineUp(results, hand, queue) == Tickets(results) \o hand \o queue

(* Each result answers a request. *)
LEMMA TicketsPlaces ==
    ASSUME NEW results \in Seq(Results)
    PROVE  /\ Tickets(results) \in Seq(Requests)
           /\ Len(Tickets(results)) = Len(results)
           /\ \A i \in 1..Len(results) :
                 Tickets(results)[i] = TicketOf(results[i])
<1>1. \A i \in 1..Len(results) : results[i] \in Results
  OBVIOUS
<1>2. \A result \in Results : TicketOf(result) \in Requests
  BY DEF Results, Requests, TicketOf
<1> QED BY <1>1, <1>2 DEF Tickets

(* Where the three parts of the line are. *)
LEMMA LineUpPlaces ==
    ASSUME NEW results \in Seq(Results), NEW hand \in Seq(Requests),
           NEW queue \in Seq(Requests)
    PROVE  /\ LineUp(results, hand, queue) \in Seq(Requests)
           /\ Len(LineUp(results, hand, queue))
                 = Len(results) + Len(hand) + Len(queue)
           /\ \A i \in 1..Len(results) :
                 LineUp(results, hand, queue)[i] = TicketOf(results[i])
           /\ \A i \in 1..Len(hand) :
                 LineUp(results, hand, queue)[Len(results) + i] = hand[i]
           /\ \A i \in 1..Len(queue) :
                 LineUp(results, hand, queue)[Len(results) + Len(hand) + i]
                     = queue[i]
<1> DEFINE done == Tickets(results)
           taken == done \o hand
<1>1. /\ done \in Seq(Requests) /\ Len(done) = Len(results)
      /\ \A i \in 1..Len(results) : done[i] = TicketOf(results[i])
  BY TicketsPlaces
<1>2. Len(results) \in Nat /\ Len(hand) \in Nat /\ Len(queue) \in Nat
  OBVIOUS
<1> HIDE DEF done
<1>3. /\ taken \in Seq(Requests) /\ Len(taken) = Len(results) + Len(hand)
      /\ \A i \in 1..Len(results) : taken[i] = done[i]
      /\ \A i \in (Len(done) + 1)..(Len(done) + Len(hand)) :
            taken[i] = hand[i - Len(done)]
  <2>1. done \in Seq(Requests) /\ hand \in Seq(Requests)
    BY <1>1
  <2>2. /\ taken \in Seq(Requests) /\ Len(taken) = Len(done) + Len(hand)
        /\ \A i \in 1..Len(done) : taken[i] = done[i]
        /\ \A i \in (Len(done) + 1)..(Len(done) + Len(hand)) :
              taken[i] = hand[i - Len(done)]
    BY ONLY <2>1, Concatenation
  <2> QED BY <1>1, <2>2
<1> HIDE DEF taken
<1>4. LineUp(results, hand, queue) = taken \o queue
  BY DEF LineUp, taken, done
<1>5. /\ taken \o queue \in Seq(Requests)
      /\ Len(taken \o queue) = Len(taken) + Len(queue)
      /\ \A i \in 1..Len(taken) : (taken \o queue)[i] = taken[i]
      /\ \A i \in (Len(taken) + 1)..(Len(taken) + Len(queue)) :
            (taken \o queue)[i] = queue[i - Len(taken)]
  <2>1. taken \in Seq(Requests) /\ queue \in Seq(Requests)
    BY <1>3
  <2> QED BY ONLY <2>1, Concatenation
<1>6. \A i \in 1..Len(hand) : taken[Len(results) + i] = hand[i]
  <2> SUFFICES ASSUME NEW i \in 1..Len(hand)
               PROVE  taken[Len(results) + i] = hand[i]
    OBVIOUS
  <2>1. /\ Len(results) + i \in (Len(done) + 1)..(Len(done) + Len(hand))
        /\ Len(results) + i - Len(done) = i
    BY <1>1, <1>2
  <2> QED BY <1>3, <2>1
<1>7. \A i \in 1..Len(queue) :
         (taken \o queue)[Len(results) + Len(hand) + i] = queue[i]
  BY <1>2, <1>3, <1>5
<1> QED BY <1>1, <1>2, <1>3, <1>4, <1>5, <1>6, <1>7

(* What is queued is appended to the line. *)
LEMMA LineUpAppends ==
    ASSUME NEW results \in Seq(Results), NEW hand \in Seq(Requests),
           NEW queue \in Seq(Requests), NEW new \in Requests
    PROVE  LineUp(results, hand, Append(queue, new))
              = Append(LineUp(results, hand, queue), new)
BY TicketsPlaces DEF LineUp

(* Taking the head of the queue in hand leaves the line as it is. *)
LEMMA LineUpTakes ==
    ASSUME NEW results \in Seq(Results), NEW queue \in Seq(Requests),
           queue # <<>>
    PROVE  LineUp(results, <<Head(queue)>>, Tail(queue))
              = LineUp(results, <<>>, queue)
BY TicketsPlaces DEF LineUp

(* So does publishing the result of what is in hand. *)
LEMMA LineUpPublishes ==
    ASSUME NEW results \in Seq(Results), NEW result \in Results,
           NEW queue \in Seq(Requests)
    PROVE  LineUp(Append(results, result), <<>>, queue)
              = LineUp(results, <<TicketOf(result)>>, queue)
<1>1. Tickets(Append(results, result)) = Append(Tickets(results), TicketOf(result))
  BY DEF Tickets
<1> QED BY <1>1, TicketsPlaces DEF LineUp

(* Popping a result takes the first of the line. *)
LEMMA LineUpPops ==
    ASSUME NEW results \in Seq(Results), NEW hand \in Seq(Requests),
           NEW queue \in Seq(Requests), results # <<>>
    PROVE  /\ LineUp(results, hand, queue) # <<>>
           /\ LineUp(results, hand, queue)[1] = TicketOf(Head(results))
           /\ LineUp(Tail(results), hand, queue)
                 = Tail(LineUp(results, hand, queue))
<1>1. Tickets(Tail(results)) = Tail(Tickets(results))
  BY DEF Tickets
<1> DEFINE line == LineUp(results, hand, queue)
           rest == LineUp(Tail(results), hand, queue)
<1>2. Tail(results) \in Seq(Results) /\ Len(Tail(results)) = Len(results) - 1
  OBVIOUS
<1>3. Tickets(results) # <<>> /\ Tickets(results)[1] = TicketOf(Head(results))
  BY TicketsPlaces
<1>4. line # <<>> /\ line[1] = TicketOf(Head(results))
  <2>1. /\ line \in Seq(Requests)
        /\ Len(line) = Len(results) + Len(hand) + Len(queue)
        /\ \A i \in 1..Len(results) : line[i] = TicketOf(results[i])
    BY LineUpPlaces
  <2>2. Len(results) \in Nat \ {0} /\ Head(results) = results[1]
    OBVIOUS
  <2> QED BY <2>1, <2>2
<1>5. rest = Tail(line)
  <2>1. /\ Tickets(results) \in Seq(Requests)
        /\ Tickets(results) \o hand \in Seq(Requests)
    BY TicketsPlaces
  <2>2. /\ Tickets(results) \o hand # <<>>
        /\ Tail(Tickets(results) \o hand) = Tail(Tickets(results)) \o hand
    BY <1>3, <2>1, TailOfConcatenation
  <2>3. Tail((Tickets(results) \o hand) \o queue)
           = Tail(Tickets(results) \o hand) \o queue
    BY <2>1, <2>2, TailOfConcatenation
  <2> QED BY <1>1, <2>2, <2>3 DEF LineUp
<1> QED BY <1>4, <1>5
(* Outstanding is such a line, and so it is after a step. *)
LEMMA OutstandingIsLine ==
    /\ Outstanding = LineUp(completedQueue, InHand, requestQueue)
    /\ Outstanding' = LineUp(completedQueue', InHand', requestQueue')
BY DEF Outstanding, LineUp, Tickets

(* What the worker has in hand is a request or none. *)
LEMMA HandPlaces ==
    ASSUME HoldsRequest
    PROVE  /\ InHand \in Seq(Requests) /\ Len(InHand) = Busy /\ Busy \in 0..1
           /\ Holding => InHand[1] = request
BY DEF HoldsRequest, InHand, Busy

(* The ids, container by container, are those of the line. *)
LEMMA OutstandingIds ==
    ASSUME TypeOK, HoldsRequest, IdsInOrder
    PROVE  OutstandingInOrder
<1> SUFFICES ASSUME ~stopRequested, NEW i \in 1..Len(Outstanding)
             PROVE  Outstanding[i].id = nextRequestId - 1 - Len(Outstanding) + i
  BY DEF OutstandingInOrder
<1> DEFINE n == nextRequestId
           q == Len(requestQueue)
           c == Len(completedQueue)
<1>1. n \in Nat /\ q \in Nat /\ c \in Nat /\ Busy \in 0..1
  BY HandPlaces DEF TypeOK
<1>2. /\ Len(Outstanding) = c + Busy + q
      /\ \A j \in 1..c : Outstanding[j] = TicketOf(completedQueue[j])
      /\ \A j \in 1..Busy : Outstanding[c + j] = InHand[j]
      /\ \A j \in 1..q : Outstanding[c + Busy + j] = requestQueue[j]
  <2>1. /\ completedQueue \in Seq(Results) /\ requestQueue \in Seq(Requests)
        /\ InHand \in Seq(Requests) /\ Len(InHand) = Busy
    BY HandPlaces DEF TypeOK
  <2> QED BY <2>1, OutstandingIsLine, LineUpPlaces
<1>3. CASE i \in 1..c
  <2>1. completedQueue[i].id = n - 1 - q - Busy - c + i
    BY <1>3 DEF IdsInOrder
  <2>2. Outstanding[i].id = completedQueue[i].id
    <3>1. Outstanding[i] = TicketOf(completedQueue[i])
      BY <1>2, <1>3
    <3> QED BY <3>1 DEF TicketOf
  <2> QED BY <1>1, <1>2, <2>1, <2>2
<1>4. CASE i \in (c + 1)..(c + Busy)
  <2>1. Busy = 1 /\ Holding /\ i = c + 1
    BY <1>1, <1>4 DEF Busy
  <2>2. Outstanding[i] = request
    BY <1>1, <1>2, <2>1, HandPlaces
  <2>3. request.id = n - 1 - q
    BY <2>1 DEF IdsInOrder
  <2> QED BY <1>1, <1>2, <2>1, <2>2, <2>3
<1>5. CASE i \in (c + Busy + 1)..(c + Busy + q)
  <2> DEFINE j == i - (c + Busy)
  <2>1. j \in 1..q /\ i = c + Busy + j
    BY <1>1, <1>5
  <2>2. requestQueue[j].id = n - 1 - q + j
    BY <2>1 DEF IdsInOrder
  <2>3. Outstanding[i] = requestQueue[j]
    BY <1>2, <2>1
  <2> QED BY <1>1, <1>2, <2>1, <2>2, <2>3
<1> QED BY <1>1, <1>2, <1>3, <1>4, <1>5

(* What a step does to the line of outstanding requests. *)
LineRestarts ==
    /\ ~running /\ ~stopRequested' /\ running' \in BOOLEAN
    /\ nextRequestId' = 1 /\ Outstanding' = <<>> /\ pendingPaths' = {}
LineGrows(path) ==
    /\ running /\ ~stopRequested /\ UNCHANGED <<running, stopRequested>>
    /\ path \notin pendingPaths
    /\ Len(requestQueue) < MaximumQueuedRequestCount
    /\ nextRequestId' = nextRequestId + 1
    /\ Outstanding' = Append(Outstanding, [id |-> nextRequestId, path |-> path])
    /\ pendingPaths' = pendingPaths \cup {path}
LineShrinks ==
    /\ Outstanding # <<>>
    /\ Outstanding' = Tail(Outstanding)
    /\ pendingPaths' = pendingPaths \ {Outstanding[1].path}
    /\ UNCHANGED <<running, stopRequested, nextRequestId>>
LineCloses == stopRequested' /\ UNCHANGED nextRequestId
LineRests ==
    UNCHANGED <<Outstanding, pendingPaths, running, stopRequested, nextRequestId>>

(* A step that keeps the three containers keeps the line. *)
LEMMA LineKept ==
    ASSUME UNCHANGED <<completedQueue, requestQueue, request>>, Holding' = Holding
    PROVE  UNCHANGED Outstanding
BY DEF Outstanding, InHand

(* Every step does one of these, and the worker's steps do nothing to it. *)
LEMMA LineSteps ==
    ASSUME TypeOK, TypeOK', HoldsRequest, HoldsRequest', SessionShape, [Next]_vars
    PROVE  \/ LineRestarts \/ (\E path \in Paths : LineGrows(path))
           \/ LineShrinks \/ LineCloses \/ LineRests
<1>1. /\ completedQueue \in Seq(Results) /\ requestQueue \in Seq(Requests)
      /\ completedQueue' \in Seq(Results) /\ requestQueue' \in Seq(Requests)
      /\ InHand \in Seq(Requests)
  BY HandPlaces DEF TypeOK
<1>2. CASE Start
  <2>1. requestQueue' = <<>> /\ completedQueue' = <<>> /\ InHand' = <<>>
    BY <1>2 DEF Start, SessionShape, InHand, Holding
  <2>2. Outstanding' = <<>>
    BY <2>1 DEF Outstanding
  <2> QED BY <1>2, <2>2 DEF Start, LineRestarts
<1>3. CASE RequestCall
  <2>1. ASSUME NEW name \in Names, RejectRequest(name) PROVE LineRests
    <3>1. Holding' = Holding
      BY <2>1 DEF RejectRequest, workerVars, Holding
    <3> QED BY <2>1, <3>1, LineKept
            DEF RejectRequest, LineRests, queues, flags, workerVars
  <2>2. ASSUME NEW name \in Names, AcceptRequest(name)
        PROVE  \E path \in Paths : LineGrows(path)
    <3> DEFINE path == NormalizePath(name)
               new == [id |-> nextRequestId, path |-> path]
    <3>1. path \in Paths /\ new \in Requests
      BY <2>2, ConstantFacts DEF AcceptRequest, Refuses, TypeOK, Requests
    <3>2. /\ requestQueue' = Append(requestQueue, new)
          /\ UNCHANGED completedQueue /\ InHand' = InHand
      BY <2>2 DEF AcceptRequest, workerVars, InHand, Holding
    <3>3. Outstanding' = Append(Outstanding, new)
      BY <1>1, <3>1, <3>2, OutstandingIsLine, LineUpAppends
    <3>4. LineGrows(path)
      BY <2>2, <3>3, LimitsAssumption
         DEF AcceptRequest, Refuses, LineGrows, flags, TypeOK
    <3> QED BY <3>1, <3>4
  <2> QED BY <1>3, <2>1, <2>2 DEF RequestCall
<1>4. CASE TryPopCompleted
  <2>1. /\ completedQueue # <<>> /\ completedQueue' = Tail(completedQueue)
        /\ UNCHANGED requestQueue /\ InHand' = InHand
        /\ output' = Head(completedQueue)
    BY <1>4 DEF TryPopCompleted, workerVars, InHand, Holding
  <2>2. /\ Outstanding # <<>> /\ Outstanding[1] = TicketOf(output')
        /\ Outstanding' = Tail(Outstanding)
    BY <1>1, <2>1, OutstandingIsLine, LineUpPops
  <2>3. output'.path = Outstanding[1].path
    BY <2>2 DEF TicketOf
  <2> QED BY <1>4, <2>2, <2>3 DEF TryPopCompleted, LineShrinks, flags
<1>5. CASE StopRequests
  BY <1>5 DEF StopRequests, LineCloses
<1>6. CASE MainContinues
  <2>1. CASE RequestNotifies \/ PopNotifies
    <3>1. Holding' = Holding
      BY <2>1 DEF RequestNotifies, PopNotifies, Notify, Holding
    <3> QED BY <2>1, <3>1, LineKept
            DEF RequestNotifies, PopNotifies, LineRests, queues, flags
  <2>2. CASE StopNotifiesRequest \/ StopNotifiesSpace \/ StopJoins \/ StopClears
    BY <2>2 DEF StopNotifiesRequest, StopNotifiesSpace, StopJoins, StopClears,
                SessionShape, StopPlaces, LineCloses, queues, flags
  <2> QED BY <1>6, <2>1, <2>2 DEF MainContinues
<1>7. ASSUME NEW decoded \in Images, HandOver(decoded), Holding,
             UNCHANGED <<requestQueue, pendingPaths, nextRequestId,
                         stopRequested, running>>
      PROVE  LineCloses \/ LineRests
  <2>1. CASE stopRequested
    BY <1>7, <2>1 DEF LineCloses
  <2>2. CASE ~stopRequested /\ Len(completedQueue) >= MaximumCompletedResultCount
    <3>1. Holding' = Holding /\ UNCHANGED <<completedQueue, request>>
      BY <1>7, <2>2, LimitsAssumption DEF HandOver, TypeOK, Holding
    <3> QED BY <1>7, <3>1, LineKept DEF LineRests
  <2>3. CASE ~stopRequested /\ Len(completedQueue) < MaximumCompletedResultCount
    <3> DEFINE result == [id |-> request.id, path |-> request.path,
                          image |-> decoded]
    <3>1. /\ completedQueue' = Append(completedQueue, result)
          /\ InHand' = <<>> /\ InHand = <<request>>
      BY <1>7, <2>3, LimitsAssumption DEF HandOver, TypeOK, InHand, Holding
    <3>2. result \in Results /\ TicketOf(result) = request
      BY <1>7 DEF HoldsRequest, Requests, Results, TicketOf
    <3>3. UNCHANGED Outstanding
      BY <1>1, <1>7, <3>1, <3>2, OutstandingIsLine, LineUpPublishes
    <3> QED BY <1>7, <3>3 DEF LineRests
  <2> QED BY <2>1, <2>2, <2>3, LimitsAssumption DEF TypeOK
<1>8. CASE WorkerSteps
  <2>1. CASE WorkerStarts \/ WorkerSleepsForRequest \/ WorkerStopsIdle
    <3>1. Holding' = Holding
      BY <2>1 DEF WorkerStarts, WorkerSleepsForRequest, WorkerStopsIdle, Holding
    <3> QED
      BY <2>1, <3>1, LineKept DEF WorkerStarts, WorkerSleepsForRequest,
         WorkerStopsIdle, LineRests, queues, flags
  <2>2. CASE WorkerTakesRequest
    <3>1. /\ requestQueue # <<>> /\ requestQueue' = Tail(requestQueue)
          /\ InHand = <<>> /\ InHand' = <<Head(requestQueue)>>
          /\ UNCHANGED completedQueue
      BY <2>2 DEF WorkerTakesRequest, InHand, Holding
    <3>2. UNCHANGED Outstanding
      BY <1>1, <3>1, OutstandingIsLine, LineUpTakes
    <3> QED BY <2>2, <3>2 DEF WorkerTakesRequest, LineRests
  <2>3. CASE WorkerDecodes \/ WorkerRetests
    <3>1. Holding /\ image \in Images
      BY <2>3 DEF WorkerDecodes, WorkerRetests, Holding, TypeOK
    <3> QED BY <1>7, <2>3, <3>1 DEF WorkerDecodes, WorkerRetests, flags
  <2> QED BY <1>8, <2>1, <2>2, <2>3 DEF WorkerSteps
<1>9. CASE SpuriousWakeup
  <2>1. Holding' = Holding
    BY <1>9 DEF SpuriousWakeup, Holding
  <2> QED BY <1>9, <2>1, LineKept DEF SpuriousWakeup, LineRests, queues, flags
<1>10. CASE UNCHANGED vars
  <2>1. Holding' = Holding
    BY <1>10 DEF vars, workerVars, Holding
  <2> QED BY <1>10, <2>1, LineKept
          DEF vars, LineRests, queues, flags, workerVars
<1> QED
  BY <1>2, <1>3, <1>4, <1>5, <1>6, <1>8, <1>9, <1>10 DEF Next

(* Every step keeps pendingPaths_ the set of the paths of the line, and    *)
(* these paths distinct: the line grows by a path that is not in it, and   *)
(* the path that leaves it is nowhere else in it.                          *)
LEMMA PendingInductive ==
    ASSUME TypeOK, TypeOK', HoldsRequest, HoldsRequest', SessionShape,
           PendingExact, [Next]_vars
    PROVE  PendingExact'
<1>1. Outstanding \in Seq(Requests)
  BY HandPlaces, OutstandingIsLine, LineUpPlaces DEF TypeOK
<1>2. CASE LineRestarts
  BY <1>2 DEF LineRestarts, PendingExact
<1>3. ASSUME NEW path \in Paths, LineGrows(path) PROVE PendingExact'
  <2> DEFINE n == Len(Outstanding)
  <2>1. /\ n \in Nat /\ Len(Outstanding') = n + 1
        /\ \A i \in 1..n : Outstanding'[i] = Outstanding[i]
        /\ Outstanding'[n + 1].path = path
    BY <1>1, <1>3 DEF LineGrows, Requests
  <2>2. /\ pendingPaths = {Outstanding[i].path : i \in 1..n}
        /\ \A i, j \in 1..n : Outstanding[i].path = Outstanding[j].path => i = j
        /\ path \notin pendingPaths /\ pendingPaths' = pendingPaths \cup {path}
    BY <1>3 DEF LineGrows, PendingExact
  <2>3. pendingPaths' = {Outstanding'[i].path : i \in 1..(n + 1)}
    <3>1. \A i \in 1..(n + 1) : i \in 1..n \/ i = n + 1
      BY <2>1
    <3>2. \A i \in 1..n : i \in 1..(n + 1)
      BY <2>1
    <3>3. n + 1 \in 1..(n + 1)
      BY <2>1
    <3> HIDE DEF n
    <3> QED BY <2>1, <2>2, <3>1, <3>2, <3>3
  <2>4. \A i, j \in 1..(n + 1) :
           Outstanding'[i].path = Outstanding'[j].path => i = j
    BY <2>1, <2>2
  <2> QED BY <2>1, <2>3, <2>4 DEF PendingExact
<1>4. CASE LineShrinks
  <2> SUFFICES ASSUME ~stopRequested PROVE PendingExact'
    BY <1>4 DEF LineShrinks, PendingExact
  <2> DEFINE n == Len(Outstanding)
  <2>1. /\ n \in Nat \ {0} /\ Len(Outstanding') = n - 1
        /\ \A i \in 1..(n - 1) : Outstanding'[i] = Outstanding[i + 1]
    BY <1>1, <1>4 DEF LineShrinks
  <2>2. /\ pendingPaths = {Outstanding[i].path : i \in 1..n}
        /\ \A i, j \in 1..n : Outstanding[i].path = Outstanding[j].path => i = j
        /\ pendingPaths' = pendingPaths \ {Outstanding[1].path}
    BY <1>4 DEF LineShrinks, PendingExact
  <2>3. pendingPaths' = {Outstanding'[i].path : i \in 1..(n - 1)}
    <3>1. \A i \in 1..n : i # 1 => i - 1 \in 1..(n - 1) /\ (i - 1) + 1 = i
      BY <2>1
    <3>2. \A i \in 1..(n - 1) : i + 1 \in 1..n /\ i + 1 # 1
      BY <2>1
    <3>3. 1 \in 1..n
      BY <2>1
    <3>4. ASSUME NEW path \in pendingPaths'
          PROVE  path \in {Outstanding'[i].path : i \in 1..(n - 1)}
      <4>1. PICK i \in 1..n : path = Outstanding[i].path
        BY <2>2, <3>4
      <4>2. i # 1
        BY <2>2, <3>4, <4>1
      <4>3. path = Outstanding'[i - 1].path /\ i - 1 \in 1..(n - 1)
        BY <2>1, <3>1, <4>1, <4>2
      <4> QED BY <4>3
    <3>5. ASSUME NEW i \in 1..(n - 1)
          PROVE  Outstanding'[i].path \in pendingPaths'
      <4>1. Outstanding'[i].path = Outstanding[i + 1].path
        BY <2>1
      <4>2. Outstanding[i + 1].path \in pendingPaths
        BY <2>2, <3>2
      <4>3. Outstanding[i + 1].path # Outstanding[1].path
        BY <2>2, <3>2, <3>3
      <4> QED BY <2>2, <4>1, <4>2, <4>3
    <3> QED BY <3>4, <3>5
  <2>4. \A i, j \in 1..(n - 1) :
           Outstanding'[i].path = Outstanding'[j].path => i = j
    BY <2>1, <2>2
  <2> QED BY <2>1, <2>3, <2>4 DEF PendingExact
<1>5. CASE LineCloses
  BY <1>5 DEF LineCloses, PendingExact
<1>6. CASE LineRests
  BY <1>6 DEF LineRests, PendingExact
<1> QED BY <1>2, <1>3, <1>4, <1>5, <1>6, LineSteps

-----------------------------------------------------------------------------
(* The program starts in the invariant. *)
LEMMA Initially == Init => IInv
<1> SUFFICES ASSUME Init PROVE IInv
  OBVIOUS
<1>1. NoImage \in Images
  BY ConstantFacts
<1>2. TypeOK
  <2>1. <<>> \in Seq(Requests) /\ <<>> \in Seq(Results)
    OBVIOUS
  <2>2. requestQueue \in Seq(Requests) /\ completedQueue \in Seq(Results)
    BY <2>1 DEF Init
  <2>3. /\ pendingPaths \subseteq Paths /\ nextRequestId \in Nat \ {0}
        /\ decodedBytes \in Nat /\ peakDecodedBytes \in Nat
        /\ rejectedRequestCount \in Nat /\ failedRequestCount \in Nat
    BY DEF Init
  <2>4. /\ decoding \in BOOLEAN /\ stopRequested \in BOOLEAN
        /\ running \in BOOLEAN /\ decoderInitialized \in BOOLEAN
    BY DEF Init
  <2>5. /\ worker \in WorkerPlaces /\ main \in MainPlaces
        /\ request \in Requests \cup {NoRequest} /\ image \in Images
        /\ accepted \in Requests \cup {NoRequest}
        /\ output \in Results \cup {NoResult}
    BY <1>1 DEF Init, WorkerPlaces, MainPlaces
  <2> QED BY <2>2, <2>3, <2>4, <2>5 DEF TypeOK
<1>3. SessionShape /\ NoLostWakeup
  BY DEF Init, SessionShape, StopPlaces, NoLostWakeup
<1>4. HoldsRequest /\ QueuesBounded /\ IdsInOrder
  BY LimitsAssumption DEF Init, HoldsRequest, QueuesBounded, IdsInOrder, Holding
<1>5. PendingExact
  <2>1. Outstanding = <<>>
    BY DEF Init, Outstanding, InHand, Holding
  <2> QED BY <2>1 DEF Init, PendingExact
<1> QED BY <1>2, <1>3, <1>4, <1>5 DEF IInv

(* No step leaves it. *)
LEMMA Inductive == IInv /\ [Next]_vars => IInv'
BY TypeInductive, ShapeInductive, BoundsInductive, WakeupInductive, IdsInductive,
   PendingInductive DEF IInv

(* IInv holds in every state the loader can reach. *)
THEOREM Invariance == Spec => []IInv
BY Initially, Inductive, PTL DEF Spec

(* Every variable keeps its type; in particular a request or a result that *)
(* is queued carries a normalised, non-empty path.                         *)
THEOREM TypesKept == Spec => []TypeOK
<1>1. IInv => TypeOK
  BY DEF IInv
<1> QED BY <1>1, Invariance, PTL

(* Neither queue ever holds more than its limit, whatever the limits are. *)
THEOREM LimitsKept == Spec => []QueuesBounded
<1>1. IInv => QueuesBounded
  BY DEF IInv
<1> QED BY <1>1, Invariance, PTL

(* Notifying after the mutex was released loses no wakeup: a worker asleep *)
(* although it has something to do is about to be notified.                *)
THEOREM WakeupsKept == Spec => []NoLostWakeup
<1>1. IInv => NoLostWakeup
  BY DEF IInv
<1> QED BY <1>1, Invariance, PTL

(* When Stop has returned, the worker is joined and nothing is left. *)
THEOREM StopLeavesNothing == Spec => []StoppedClean
<1>1. IInv => StoppedClean
  BY DEF IInv, SessionShape, StoppedClean
<1> QED BY <1>1, Invariance, PTL

(* The outstanding requests are the last ones accepted, in their order: no *)
(* interleaving of the two threads loses, repeats or reorders a request.   *)
THEOREM FirstInFirstOut == Spec => []OutstandingInOrder
<1>1. IInv => OutstandingInOrder
  BY OutstandingIds DEF IInv
<1> QED BY <1>1, Invariance, PTL

(* pendingPaths_ is exactly the set of the paths that are outstanding, and *)
(* no path is outstanding twice.                                           *)
THEOREM PendingKept == Spec => []PendingExact
<1>1. IInv => PendingExact
  BY DEF IInv
<1> QED BY <1>1, Invariance, PTL

-----------------------------------------------------------------------------
(* The loader starts as its contract does. *)
LEMMA ContractInitially == Init => Promise!Closed
<1> SUFFICES ASSUME Init PROVE Promise!Closed
  OBVIOUS
<1>1. Outstanding = <<>>
  BY DEF Init, Outstanding, InHand, Holding
<1> QED BY <1>1 DEF Init, Promise!Closed

(* The queue, the hand and the results bound the line. *)
LEMMA OutstandingBounded ==
    ASSUME TypeOK, HoldsRequest, QueuesBounded
    PROVE  /\ Outstanding \in Seq(Requests)
           /\ Len(Outstanding) <= Len(requestQueue) + 1
                                    + MaximumCompletedResultCount
<1>1. /\ Outstanding \in Seq(Requests)
      /\ Len(Outstanding) = Len(completedQueue) + Busy + Len(requestQueue)
  <2>1. /\ completedQueue \in Seq(Results) /\ requestQueue \in Seq(Requests)
        /\ InHand \in Seq(Requests) /\ Len(InHand) = Busy
    BY HandPlaces DEF TypeOK
  <2> QED BY <2>1, OutstandingIsLine, LineUpPlaces
<1>2. Busy \in 0..1 /\ Len(completedQueue) \in Nat /\ Len(requestQueue) \in Nat
  BY HandPlaces DEF TypeOK
<1> QED BY <1>1, <1>2, LimitsAssumption DEF QueuesBounded

(* A step of the loader is a step of its contract, or none. *)
LEMMA ContractSteps ==
    ASSUME IInv, IInv', [Next]_vars
    PROVE  [Promise!Step]_(Promise!contract)
<1> USE DEF Promise!Step, Promise!contract
<1>1. /\ LineRestarts \/ (\E path \in Paths : LineGrows(path))
            \/ LineShrinks \/ LineCloses \/ LineRests
      /\ nextRequestId \in Nat
  BY LineSteps DEF IInv, TypeOK
<1>2. /\ Outstanding \in Seq(Requests)
      /\ Len(Outstanding) <= Len(requestQueue) + 1 + MaximumCompletedResultCount
      /\ Len(requestQueue) \in Nat
  BY OutstandingBounded DEF IInv, TypeOK
<1>3. CASE LineRestarts
  BY <1>3 DEF LineRestarts, Promise!Open
<1>4. ASSUME NEW path \in Paths, LineGrows(path) PROVE Promise!Accept(path)
  <2>1. Len(Outstanding)
           < MaximumQueuedRequestCount + 1 + MaximumCompletedResultCount
    BY <1>2, <1>4, LimitsAssumption DEF LineGrows
  <2>2. \A i \in 1..Len(Outstanding) : Outstanding[i].path # path
    BY <1>4 DEF LineGrows, IInv, PendingExact
  <2> QED BY <1>1, <1>4, <2>1, <2>2 DEF LineGrows, Promise!Accept
<1>5. CASE LineShrinks
  BY <1>5 DEF LineShrinks, Promise!HandBack
<1>6. CASE LineCloses
  BY <1>6 DEF LineCloses, Promise!Close
<1>7. CASE LineRests
  BY <1>7 DEF LineRests
<1> QED BY <1>1, <1>3, <1>4, <1>5, <1>6, <1>7

(* The loader, with its two threads and two queues, implements the one     *)
(* first-in first-out line of its contract, for every value of the limits. *)
THEOREM LoaderImplementsContract == Spec => ImplementsContract
<1>1. IInv /\ IInv' /\ [Next]_vars => [Promise!Step]_(Promise!contract)
  BY ContractSteps
<1> QED
  BY <1>1, Invariance, ContractInitially, PTL
     DEF Spec, ImplementsContract, Promise!Contract

-----------------------------------------------------------------------------
(* Sums of image sizes over any queue: the recursion of BytesUpTo exists,  *)
(* and what it does when a result is appended or taken.                    *)

(* Induction, over a set: the least number outside of it would follow a *)
(* number in it, so there is none.                                      *)
LEMMA Induction ==
    ASSUME NEW S, 0 \in S, \A n \in Nat : n \in S => n + 1 \in S
    PROVE  Nat \subseteq S
<1> DEFINE T == Nat \ S
           R == OpToRel(<, Nat)
<1> SUFFICES ASSUME T # {} PROVE FALSE
  OBVIOUS
<1>1. IsWellFoundedOn(R, Nat)
  BY NatLessThanWellFounded
<1>2. T \subseteq Nat
  OBVIOUS
<1>3. \E x \in T : \A y \in T : ~(<<y, x>> \in R)
  <2> HIDE DEF T, R
  <2> QED BY <1>1, <1>2, WFMin
<1>4. PICK x \in T : \A y \in T : ~(<<y, x>> \in R)
  BY <1>3
<1>5. \A y \in T : ~(y < x)
  BY <1>4 DEF OpToRel
<1>6. x # 0 /\ x - 1 \in Nat /\ x = (x - 1) + 1 /\ x - 1 < x
  OBVIOUS
<1> QED BY <1>5, <1>6

(* The running sums of the sizes of some results, BytesUpTo for any queue. *)
SumsOf(results) ==
    CHOOSE sum : sum = [i \in Nat |->
        IF i = 0 THEN 0 ELSE results[i].image.bytes + sum[i - 1]]

(* There are such sums: SumsOf is what its recursion says. *)
LEMMA SumsExist ==
    ASSUME NEW results
    PROVE  SumsOf(results) =
              [i \in Nat |-> IF i = 0 THEN 0
                             ELSE results[i].image.bytes + SumsOf(results)[i - 1]]
<1> DEFINE From(n, h) ==
               /\ h = [i \in 0..n |-> h[i]]
               /\ h[0] = 0
               /\ \A i \in 1..n : h[i] = results[i].image.bytes + h[i - 1]
           Some == {n \in Nat : \E h : From(n, h)}
           Sum(n) == CHOOSE h : From(n, h)
           All == [n \in Nat |-> Sum(n)[n]]
<1>1. \A n \in Nat : From(n, Sum(n))
  <2>1. 0 \in Some
    <3> DEFINE h == [i \in 0..0 |-> 0]
    <3>1. From(0, h)
      OBVIOUS
    <3> QED BY <3>1
  <2>2. ASSUME NEW n \in Nat, n \in Some PROVE n + 1 \in Some
    <3>1. PICK h : From(n, h)
      BY <2>2
    <3> DEFINE more == [i \in 0..(n + 1) |->
                           IF i = n + 1 THEN results[n + 1].image.bytes + h[n]
                           ELSE h[i]]
    <3>2. \A i \in 0..(n + 1) : i \in 0..n \/ i = n + 1
      OBVIOUS
    <3>3. more[0] = 0 /\ more = [i \in 0..(n + 1) |-> more[i]]
      BY <3>1
    <3>4. more[n + 1] = results[n + 1].image.bytes + more[(n + 1) - 1]
      OBVIOUS
    <3>5. ASSUME NEW i \in 1..n
          PROVE  more[i] = results[i].image.bytes + more[i - 1]
      <4>1. more[i] = h[i] /\ more[i - 1] = h[i - 1]
        BY <3>5
      <4> QED BY <3>1, <4>1
    <3>6. \A i \in 1..(n + 1) : more[i] = results[i].image.bytes + more[i - 1]
      <4>1. \A i \in 1..(n + 1) : i \in 1..n \/ i = n + 1
        OBVIOUS
      <4> HIDE DEF more
      <4> QED BY <3>4, <3>5, <4>1
    <3>7. From(n + 1, more)
      BY <3>3, <3>6
    <3>8. n + 1 \in Nat
      OBVIOUS
    <3> HIDE DEF From, more
    <3> QED BY <3>7, <3>8
  <2>3. Nat \subseteq Some
    <3> HIDE DEF Some
    <3> QED BY <2>1, <2>2, Induction
  <2>4. ASSUME NEW n \in Nat PROVE From(n, Sum(n))
    <3>1. \E h : From(n, h)
      BY <2>3
    <3> HIDE DEF From
    <3> QED BY <3>1
  <2> QED BY <2>4
<1>2. \A n \in Nat, k \in Nat : Sum(n + k)[n] = Sum(n)[n]
  <2> SUFFICES ASSUME NEW n \in Nat, NEW k \in Nat
               PROVE  Sum(n + k)[n] = Sum(n)[n]
    OBVIOUS
  <2> DEFINE Equal == {i \in Nat : i <= n => Sum(n + k)[i] = Sum(n)[i]}
  <2>1. From(n, Sum(n)) /\ From(n + k, Sum(n + k))
    <3>1. n + k \in Nat
      OBVIOUS
    <3> HIDE DEF From, Sum
    <3> QED BY <1>1, <3>1
  <2> HIDE DEF Sum
  <2>2. 0 \in Equal
    BY <2>1
  <2>3. ASSUME NEW i \in Nat, i \in Equal PROVE i + 1 \in Equal
    <3> SUFFICES ASSUME i + 1 <= n PROVE Sum(n + k)[i + 1] = Sum(n)[i + 1]
      OBVIOUS
    <3>1. i + 1 \in 1..n /\ i + 1 \in 1..(n + k) /\ (i + 1) - 1 = i
      OBVIOUS
    <3>2. Sum(n + k)[i] = Sum(n)[i]
      BY <2>3
    <3>3. Sum(n)[i + 1] = results[i + 1].image.bytes + Sum(n)[(i + 1) - 1]
      BY <2>1, <3>1
    <3>4. Sum(n + k)[i + 1]
             = results[i + 1].image.bytes + Sum(n + k)[(i + 1) - 1]
      BY <2>1, <3>1
    <3> QED BY <3>1, <3>2, <3>3, <3>4
  <2>4. Nat \subseteq Equal
    <3> HIDE DEF Equal
    <3> QED BY <2>2, <2>3, Induction
  <2> QED BY <2>4
<1>3. ASSUME NEW n \in Nat, n # 0
      PROVE  All[n] = results[n].image.bytes + All[n - 1]
  <2>1. n - 1 \in Nat /\ (n - 1) + 1 = n /\ n \in 1..n
    BY <1>3
  <2>2. Sum(n)[n] = results[n].image.bytes + Sum(n)[n - 1]
    BY <1>1, <2>1
  <2>3. Sum(n)[n - 1] = Sum(n - 1)[n - 1]
    <3> HIDE DEF Sum
    <3>1. Sum((n - 1) + 1)[n - 1] = Sum(n - 1)[n - 1]
      BY <1>2, <2>1
    <3> QED BY <2>1, <3>1
  <2> HIDE DEF Sum
  <2> QED BY <2>1, <2>2, <2>3
<1>4. All[0] = 0
  BY <1>1
<1>5. All = [i \in Nat |-> IF i = 0 THEN 0
                          ELSE results[i].image.bytes + All[i - 1]]
  <2>1. All = [i \in Nat |-> All[i]]
    OBVIOUS
  <2> HIDE DEF All
  <2> QED BY <1>3, <1>4, <2>1
<1> HIDE DEF All
<1> QED BY <1>5 DEF SumsOf

(* The recursion, step by step. *)
LEMMA SumsSteps ==
    ASSUME NEW results
    PROVE  /\ SumsOf(results)[0] = 0
           /\ \A n \in Nat : SumsOf(results)[n + 1]
                                = results[n + 1].image.bytes + SumsOf(results)[n]
<1> DEFINE sum == SumsOf(results)
<1>1. sum = [i \in Nat |-> IF i = 0 THEN 0
                          ELSE results[i].image.bytes + sum[i - 1]]
  BY SumsExist
<1> HIDE DEF sum
<1>2. \A i \in Nat : sum[i] = IF i = 0 THEN 0
                               ELSE results[i].image.bytes + sum[i - 1]
  BY <1>1
<1>3. ASSUME NEW n \in Nat
      PROVE  sum[n + 1] = results[n + 1].image.bytes + sum[n]
  <2>1. n + 1 \in Nat /\ n + 1 # 0 /\ (n + 1) - 1 = n
    OBVIOUS
  <2>2. sum[n + 1] = results[n + 1].image.bytes + sum[(n + 1) - 1]
    BY <1>2, <2>1
  <2> QED BY <2>1, <2>2
<1> QED BY <1>2, <1>3 DEF sum

(* Sums of sizes are numbers, and bounded by the largest one met. *)
LEMMA SumsBounded ==
    ASSUME NEW results \in Seq(Results), NEW n \in 0..Len(results)
    PROVE  /\ SumsOf(results)[n] \in Nat
           /\ \E largest \in ImageSizes \cup {0} :
                 SumsOf(results)[n] <= n * largest
<1> DEFINE sum == SumsOf(results)
           Good == {m \in Nat : m <= Len(results) =>
                       /\ sum[m] \in Nat
                       /\ \E largest \in ImageSizes \cup {0} :
                             sum[m] <= m * largest}
<1>1. sum[0] = 0 /\ \A m \in Nat : sum[m + 1] = results[m + 1].image.bytes + sum[m]
  BY SumsSteps
<1>2. \A i \in 1..Len(results) : results[i].image.bytes \in ImageSizes \cup {0}
  <2>1. \A i \in 1..Len(results) : results[i].image \in Images
    <3>1. \A i \in 1..Len(results) : results[i] \in Results
      OBVIOUS
    <3> QED BY <3>1 DEF Results
  <2>2. \A decoded \in Images : decoded.bytes \in ImageSizes \cup {0}
    BY DEF Images
  <2> QED BY <2>1, <2>2
<1>3. ImageSizes \cup {0} \subseteq Nat
  BY SizesAssumption
<1> HIDE DEF sum
<1>4. 0 \in Good
  <2>1. sum[0] \in Nat /\ sum[0] <= 0 * 0
    BY <1>1
  <2> QED BY <2>1
<1>5. ASSUME NEW m \in Nat, m \in Good PROVE m + 1 \in Good
  <2> SUFFICES ASSUME m + 1 <= Len(results)
               PROVE  /\ sum[m + 1] \in Nat
                      /\ \E largest \in ImageSizes \cup {0} :
                            sum[m + 1] <= (m + 1) * largest
    OBVIOUS
  <2> DEFINE new == results[m + 1].image.bytes
  <2>1. new \in ImageSizes \cup {0} /\ new \in Nat
    BY <1>2, <1>3
  <2>2. sum[m + 1] = new + sum[m]
    BY <1>1
  <2>3. sum[m] \in Nat
    BY <1>5
  <2>4. PICK largest \in ImageSizes \cup {0} : sum[m] <= m * largest
    BY <1>5
  <2>5. largest \in Nat
    BY <1>3, <2>4
  <2> HIDE DEF new
  <2>6. CASE new <= largest
    <3>1. sum[m + 1] <= m * largest + largest
      BY <2>1, <2>2, <2>3, <2>4, <2>5, <2>6
    <3>2. m * largest + largest = (m + 1) * largest
      BY <2>5
    <3> QED BY <2>1, <2>2, <2>3, <2>4, <3>1, <3>2
  <2>7. CASE largest <= new
    <3>1. m * largest <= m * new
      BY <2>1, <2>5, <2>7
    <3>2. m * new + new = (m + 1) * new
      BY <2>1
    <3>3. m * largest \in Nat /\ m * new \in Nat
      BY <2>1, <2>5
    <3>4. sum[m + 1] <= (m + 1) * new
      BY <2>1, <2>2, <2>3, <2>4, <3>1, <3>2, <3>3
    <3> QED BY <2>1, <2>2, <2>3, <3>4
  <2> QED BY <2>1, <2>5, <2>6, <2>7
<1>6. Nat \subseteq Good
  <2> HIDE DEF Good
  <2> QED BY <1>4, <1>5, Induction
<1> QED BY <1>6 DEF sum

(* A sum depends on the results it is about only. *)
LEMMA SumsAgree ==
    ASSUME NEW results, NEW others, NEW n \in Nat,
           \A i \in 1..n : results[i] = others[i]
    PROVE  SumsOf(results)[n] = SumsOf(others)[n]
<1> DEFINE a == SumsOf(results)
           b == SumsOf(others)
           Good == {m \in Nat : m <= n => a[m] = b[m]}
<1>1. /\ a[0] = 0 /\ \A m \in Nat : a[m + 1] = results[m + 1].image.bytes + a[m]
      /\ b[0] = 0 /\ \A m \in Nat : b[m + 1] = others[m + 1].image.bytes + b[m]
  BY SumsSteps
<1> HIDE DEF a, b
<1>2. 0 \in Good
  BY <1>1
<1>3. ASSUME NEW m \in Nat, m \in Good PROVE m + 1 \in Good
  <2> SUFFICES ASSUME m + 1 <= n PROVE a[m + 1] = b[m + 1]
    OBVIOUS
  <2>1. a[m] = b[m] /\ results[m + 1] = others[m + 1]
    BY <1>3
  <2> QED BY <1>1, <2>1
<1>4. Nat \subseteq Good
  <2> HIDE DEF Good
  <2> QED BY <1>2, <1>3, Induction
<1> QED BY <1>4 DEF a, b

(* Appending a result adds its size. *)
LEMMA SumOfAppend ==
    ASSUME NEW results \in Seq(Results), NEW new \in Results
    PROVE  SumsOf(Append(results, new))[Len(Append(results, new))]
              = SumsOf(results)[Len(results)] + new.image.bytes
<1> DEFINE n == Len(results)
           more == Append(results, new)
<1>1. /\ n \in Nat /\ Len(more) = n + 1 /\ more[n + 1] = new
      /\ \A i \in 1..n : more[i] = results[i]
  OBVIOUS
<1> HIDE DEF more, n
<1>2. SumsOf(more)[n] = SumsOf(results)[n]
  BY <1>1, SumsAgree
<1>3. SumsOf(more)[n + 1] = more[n + 1].image.bytes + SumsOf(more)[n]
  BY <1>1, SumsSteps
<1>4. SumsOf(results)[n] \in Nat
  <2>1. n \in 0..Len(results)
    BY <1>1 DEF n
  <2> QED BY <2>1, SumsBounded
<1>5. new.image.bytes \in Nat
  BY ConstantFacts DEF Results
<1>6. SumsOf(more)[Len(more)] = SumsOf(results)[n] + new.image.bytes
  BY <1>1, <1>2, <1>3, <1>4, <1>5
<1> QED BY <1>6 DEF more, n

(* Taking the first result takes its size away. *)
LEMMA SumOfTail ==
    ASSUME NEW results \in Seq(Results), results # <<>>
    PROVE  SumsOf(results)[Len(results)]
              = Head(results).image.bytes
                   + SumsOf(Tail(results))[Len(Tail(results))]
<1> DEFINE a == SumsOf(results)
           b == SumsOf(Tail(results))
           first == Head(results).image.bytes
           Good == {m \in Nat : m < Len(results) => a[m + 1] = first + b[m]}
<1>1. /\ a[0] = 0 /\ \A m \in Nat : a[m + 1] = results[m + 1].image.bytes + a[m]
      /\ b[0] = 0
      /\ \A m \in Nat : b[m + 1] = Tail(results)[m + 1].image.bytes + b[m]
  BY SumsSteps
<1>2. /\ Len(results) \in Nat \ {0} /\ Len(Tail(results)) = Len(results) - 1
      /\ Tail(results) \in Seq(Results) /\ Head(results) = results[1]
      /\ \A i \in 1..(Len(results) - 1) : Tail(results)[i] = results[i + 1]
  OBVIOUS
<1>3. \A i \in 1..Len(results) : results[i].image.bytes \in Nat
  <2>1. \A i \in 1..Len(results) : results[i] \in Results
    OBVIOUS
  <2>2. \A result \in Results : result.image.bytes \in Nat
    BY ConstantFacts DEF Results
  <2> QED BY <2>1, <2>2
<1>4. first \in Nat /\ first = results[1].image.bytes
  BY <1>2, <1>3
<1>5. \A m \in 0..(Len(results) - 1) : b[m] \in Nat
  BY <1>2, SumsBounded
<1> HIDE DEF a, b, first
<1>6. 0 \in Good
  <2>1. a[0 + 1] = results[0 + 1].image.bytes + a[0]
    BY <1>1
  <2>2. 0 + 1 = 1
    OBVIOUS
  <2>3. a[0 + 1] = first + b[0]
    BY <1>1, <1>4, <2>1, <2>2
  <2> QED BY <2>3
<1>7. ASSUME NEW m \in Nat, m \in Good PROVE m + 1 \in Good
  <2> SUFFICES ASSUME m + 1 < Len(results) PROVE a[(m + 1) + 1] = first + b[m + 1]
    OBVIOUS
  <2> DEFINE next == results[(m + 1) + 1].image.bytes
  <2>1. a[m + 1] = first + b[m]
    BY <1>2, <1>7
  <2>2. a[(m + 1) + 1] = next + a[m + 1]
    <3>1. m + 1 \in Nat
      OBVIOUS
    <3> QED BY <1>1, <3>1
  <2>3. b[m + 1] = next + b[m]
    <3>1. m + 1 \in 1..(Len(results) - 1)
      BY <1>2
    <3>2. Tail(results)[m + 1] = results[(m + 1) + 1]
      BY <1>2, <3>1
    <3>3. b[m + 1] = Tail(results)[m + 1].image.bytes + b[m]
      BY <1>1
    <3> QED BY <3>2, <3>3
  <2>4. next \in Nat /\ b[m] \in Nat
    BY <1>2, <1>3, <1>5
  <2> HIDE DEF next
  <2> QED BY <1>4, <2>1, <2>2, <2>3, <2>4
<1>8. Nat \subseteq Good
  <2> HIDE DEF Good
  <2> QED BY <1>6, <1>7, Induction
<1>9. Len(results) - 1 \in Nat /\ (Len(results) - 1) + 1 = Len(results)
  BY <1>2
<1>10. a[(Len(results) - 1) + 1] = first + b[Len(results) - 1]
  BY <1>8, <1>9
<1> QED BY <1>2, <1>9, <1>10 DEF a, b, first

-----------------------------------------------------------------------------
(* The account of the decoded bytes *)

(* BytesUpTo is the running sum of the results in the completed queue. *)
LEMMA BytesAreSums ==
    /\ BytesUpTo = SumsOf(completedQueue)
    /\ BytesUpTo' = SumsOf(completedQueue')
<1>1. BytesUpTo = SumsOf(completedQueue)
  BY DEF BytesUpTo, SumsOf
<1>2. BytesUpTo' = SumsOf(completedQueue')
  BY DEF BytesUpTo, SumsOf
<1> QED BY <1>1, <1>2

(* The invariant, with the sum spelled out for any queue. *)
Accounted(results, bytes, peak) ==
    /\ bytes = SumsOf(results)[Len(results)]
    /\ bytes <= peak
    /\ \E largest \in ImageSizes \cup {0} :
          peak <= MaximumCompletedResultCount * largest

(* ...which is DecodedMemoryAccounted, before and after a step. *)
LEMMA AccountedIs ==
    /\ DecodedMemoryAccounted
          <=> Accounted(completedQueue, decodedBytes, peakDecodedBytes)
    /\ DecodedMemoryAccounted'
          <=> Accounted(completedQueue', decodedBytes', peakDecodedBytes')
<1>1. DecodedMemoryAccounted
          <=> Accounted(completedQueue, decodedBytes, peakDecodedBytes)
  BY BytesAreSums DEF DecodedMemoryAccounted, Accounted
<1>2. DecodedMemoryAccounted'
          <=> Accounted(completedQueue', decodedBytes', peakDecodedBytes')
  BY BytesAreSums DEF DecodedMemoryAccounted, Accounted
<1> QED BY <1>1, <1>2

(* An empty queue accounts for no byte. *)
LEMMA NothingAccounted ==
    ASSUME NEW peak \in Nat,
           \E largest \in ImageSizes \cup {0} :
              peak <= MaximumCompletedResultCount * largest
    PROVE  Accounted(<<>>, 0, peak)
<1>1. SumsOf(<<>>)[0] = 0
  BY SumsSteps
<1>2. Len(<<>>) = 0
  OBVIOUS
<1> QED BY <1>1, <1>2 DEF Accounted

(* Publishing a result keeps the account, and the peak bounded, as long as *)
(* the queue was not full.                                                 *)
LEMMA PublishAccounted ==
    ASSUME NEW results \in Seq(Results), NEW bytes \in Nat, NEW peak \in Nat,
           NEW new \in Results, Len(results) < MaximumCompletedResultCount,
           Accounted(results, bytes, peak)
    PROVE  Accounted(Append(results, new), bytes + new.image.bytes,
                     Larger(peak, bytes + new.image.bytes))
<1> DEFINE more == Append(results, new)
           b == bytes + new.image.bytes
<1>1. new.image.bytes \in Nat
  BY ConstantFacts DEF Results
<1>2. b = SumsOf(more)[Len(more)]
  BY SumOfAppend DEF Accounted
<1>3. more \in Seq(Results) /\ Len(more) \in 0..MaximumCompletedResultCount
      /\ Len(more) \in 0..Len(more) /\ Len(more) \in Nat
  BY ConstantFacts
<1>4. \E largest \in ImageSizes \cup {0} : SumsOf(more)[Len(more)] <= Len(more) * largest
  <2> HIDE DEF more
  <2> QED BY <1>3, SumsBounded
<1>5. PICK largest \in ImageSizes \cup {0} : b <= Len(more) * largest
  <2> HIDE DEF more, b
  <2> QED BY <1>2, <1>4
<1>6. b \in Nat
  BY <1>1
<1>7. largest \in Nat
  BY SizesAssumption
<1>8. MaximumCompletedResultCount \in Nat
  BY ConstantFacts
<1> HIDE DEF more, b
<1>9. b <= MaximumCompletedResultCount * largest
  <2> DEFINE n == Len(more)
             m == MaximumCompletedResultCount
  <2>1. n \in Nat /\ m \in Nat /\ n <= m
    BY <1>3, <1>8
  <2> HIDE DEF n, m
  <2>2. n * largest <= m * largest /\ n * largest \in Nat /\ m * largest \in Nat
    BY <1>7, <2>1
  <2>3. b <= n * largest
    BY <1>5 DEF n
  <2>4. b <= m * largest
    BY <1>6, <2>2, <2>3
  <2> QED BY <2>4 DEF m
<1>10. b <= Larger(peak, b)
  BY <1>6 DEF Larger
<1>11. \E most \in ImageSizes \cup {0} :
           Larger(peak, b) <= MaximumCompletedResultCount * most
  BY <1>9 DEF Larger, Accounted
<1>12. Accounted(more, b, Larger(peak, b))
  BY <1>2, <1>10, <1>11 DEF Accounted
<1> QED BY <1>12 DEF more, b

(* Handing the oldest result back keeps the account: the subtraction never *)
(* saturates.                                                              *)
LEMMA PopAccounted ==
    ASSUME NEW results \in Seq(Results), NEW bytes \in Nat, NEW peak \in Nat,
           results # <<>>, Accounted(results, bytes, peak)
    PROVE  Accounted(Tail(results),
                     bytes - Smaller(bytes, Head(results).image.bytes), peak)
<1> DEFINE first == Head(results).image.bytes
           rest == SumsOf(Tail(results))[Len(Tail(results))]
<1>1. bytes = first + rest
  BY SumOfTail DEF Accounted
<1>2. rest \in Nat
  <2>1. /\ Tail(results) \in Seq(Results) /\ Len(Tail(results)) \in Nat
        /\ Len(Tail(results)) \in 0..Len(Tail(results))
    OBVIOUS
  <2> QED BY <2>1, SumsBounded
<1>3. first \in Nat
  <2>1. Head(results) \in Results
    OBVIOUS
  <2> QED BY <2>1, ConstantFacts DEF Results
<1>4. /\ bytes <= peak
      /\ \E largest \in ImageSizes \cup {0} :
          peak <= MaximumCompletedResultCount * largest
  BY DEF Accounted
<1> HIDE DEF first, rest
<1>5. bytes - Smaller(bytes, first) = rest
  BY <1>1, <1>2, <1>3 DEF Smaller
<1>6. rest <= peak
  BY <1>1, <1>2, <1>3, <1>4
<1>7. bytes - Smaller(bytes, first) <= peak
  BY <1>5, <1>6
<1>8. bytes - Smaller(bytes, first) = SumsOf(Tail(results))[Len(Tail(results))]
  BY <1>5 DEF rest
<1>9. Accounted(Tail(results), bytes - Smaller(bytes, first), peak)
  BY <1>4, <1>7, <1>8 DEF Accounted
<1> QED BY <1>9 DEF first

(* The worker's second critical section keeps the account. *)
LEMMA HandOverAccounted ==
    ASSUME TypeOK, HoldsRequest, Holding, DecodedMemoryAccounted,
           NEW decoded \in Images, HandOver(decoded)
    PROVE  DecodedMemoryAccounted'
<1>1. CASE UNCHANGED <<completedQueue, decodedBytes, peakDecodedBytes>>
  <2>1. Accounted(completedQueue', decodedBytes', peakDecodedBytes')
    BY <1>1, AccountedIs
  <2> QED BY <2>1, AccountedIs
<1>2. CASE /\ Len(completedQueue) < MaximumCompletedResultCount
           /\ decodedBytes' = decodedBytes + decoded.bytes
           /\ peakDecodedBytes' = Larger(peakDecodedBytes, decodedBytes')
           /\ completedQueue' =
                 Append(completedQueue,
                        [id |-> request.id, path |-> request.path,
                         image |-> decoded])
  <2> DEFINE new == [id |-> request.id, path |-> request.path,
                     image |-> decoded]
  <2>1. new \in Results /\ new.image.bytes = decoded.bytes
    BY DEF HoldsRequest, Requests, Results
  <2>2. /\ completedQueue \in Seq(Results)
        /\ decodedBytes \in Nat /\ peakDecodedBytes \in Nat
    BY DEF TypeOK
  <2>3. Accounted(completedQueue, decodedBytes, peakDecodedBytes)
    BY AccountedIs
  <2> HIDE DEF new
  <2>4. Accounted(Append(completedQueue, new), decodedBytes + new.image.bytes,
                  Larger(peakDecodedBytes, decodedBytes + new.image.bytes))
    BY <1>2, <2>1, <2>2, <2>3, PublishAccounted
  <2>5. Accounted(completedQueue', decodedBytes', peakDecodedBytes')
    BY <1>2, <2>1, <2>4 DEF new
  <2> QED BY <2>5, AccountedIs
<1> QED BY <1>1, <1>2 DEF HandOver

(* Every step keeps the account of the decoded bytes. *)
LEMMA MemoryInductive ==
    TypeOK /\ HoldsRequest /\ DecodedMemoryAccounted /\ [Next]_vars
       => DecodedMemoryAccounted'
<1> SUFFICES ASSUME TypeOK, HoldsRequest, DecodedMemoryAccounted, [Next]_vars
             PROVE  DecodedMemoryAccounted'
  OBVIOUS
<1>1. Accounted(completedQueue, decodedBytes, peakDecodedBytes)
  BY AccountedIs
<1>2. SUFFICES ASSUME ~UNCHANGED <<completedQueue, decodedBytes, peakDecodedBytes>>
               PROVE  Accounted(completedQueue', decodedBytes', peakDecodedBytes')
  BY <1>1, AccountedIs
<1>3. CASE Start
  <2>1. 0 \in ImageSizes \cup {0} /\ 0 <= MaximumCompletedResultCount * 0
    BY ConstantFacts
  <2>2. Accounted(<<>>, 0, 0)
    BY <2>1, NothingAccounted
  <2> QED BY <1>3, <2>2 DEF Start
<1>4. CASE TryPopCompleted
  <2>1. /\ completedQueue \in Seq(Results)
        /\ decodedBytes \in Nat /\ peakDecodedBytes \in Nat
    BY DEF TypeOK
  <2>2. /\ completedQueue # <<>>
        /\ completedQueue' = Tail(completedQueue)
        /\ decodedBytes' = decodedBytes
              - Smaller(decodedBytes, Head(completedQueue).image.bytes)
        /\ peakDecodedBytes' = peakDecodedBytes
    BY <1>4 DEF TryPopCompleted
  <2>3. Accounted(Tail(completedQueue),
                  decodedBytes - Smaller(decodedBytes,
                                         Head(completedQueue).image.bytes),
                  peakDecodedBytes)
    BY <1>1, <2>1, <2>2, PopAccounted
  <2> QED BY <2>2, <2>3
<1>5. CASE StopClears
  <2>1. peakDecodedBytes \in Nat /\ \E largest \in ImageSizes \cup {0} :
           peakDecodedBytes <= MaximumCompletedResultCount * largest
    BY <1>1 DEF TypeOK, Accounted
  <2>2. Accounted(<<>>, 0, peakDecodedBytes)
    BY <2>1, NothingAccounted
  <2> QED BY <1>5, <2>2 DEF StopClears
<1>6. CASE WorkerDecodes
  <2>1. PICK decoded \in Images : HandOver(decoded)
    BY <1>6 DEF WorkerDecodes
  <2>2. Holding
    BY <1>6 DEF WorkerDecodes, Holding
  <2> QED BY <2>1, <2>2, HandOverAccounted, AccountedIs
<1>7. CASE WorkerRetests
  <2>1. image \in Images /\ HandOver(image) /\ Holding
    BY <1>7 DEF WorkerRetests, Holding, TypeOK
  <2> QED BY <2>1, HandOverAccounted, AccountedIs
<1> QED
  BY <1>2, <1>3, <1>4, <1>5, <1>6, <1>7
  DEF Next, RequestCall, AcceptRequest, RejectRequest, StopRequests,
      MainContinues, RequestNotifies, PopNotifies, StopNotifiesRequest,
      StopNotifiesSpace, StopJoins, WorkerSteps, WorkerStarts,
      WorkerSleepsForRequest, WorkerTakesRequest, WorkerStopsIdle,
      SpuriousWakeup, vars, queues, counters

(* decodedBytesAwaitingUpload_ is, at every moment, the size of exactly the *)
(* images in the completed queue, and its peak is bounded by the limit of   *)
(* the queue, in every run of the loader, for any sizes of images.          *)
THEOREM MemoryAccounted == Spec => []DecodedMemoryAccounted
<1>1. Init => DecodedMemoryAccounted
  <2> SUFFICES ASSUME Init PROVE DecodedMemoryAccounted
    OBVIOUS
  <2>1. 0 \in ImageSizes \cup {0} /\ 0 <= MaximumCompletedResultCount * 0
    BY ConstantFacts
  <2>2. Accounted(<<>>, 0, 0)
    BY <2>1, NothingAccounted
  <2> QED BY <2>2, AccountedIs DEF Init
<1>2. Spec => [](TypeOK /\ HoldsRequest)
  <2>1. Spec => []IInv
    BY Invariance
  <2>2. IInv => TypeOK /\ HoldsRequest
    BY DEF IInv
  <2> QED BY <2>1, <2>2, PTL
<1> QED BY <1>1, <1>2, MemoryInductive, PTL DEF Spec
=============================================================================
