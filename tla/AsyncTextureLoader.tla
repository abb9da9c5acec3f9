-------------------------- MODULE AsyncTextureLoader --------------------------
(***************************************************************************)
(* The background texture loader of the client                             *)
(* (Client/Rendering/AsyncTextureLoader): one main thread that calls       *)
(* Start, Request, TryPopCompleted and Stop, one worker thread that takes  *)
(* requests, decodes them outside the lock and hands the results back      *)
(* through a bounded queue.  All shared state is protected by one mutex,   *)
(* so a critical section is one step.  The notifications are sent after    *)
(* the mutex is released, so each is a step of its own; a thread asleep on *)
(* a condition variable is a program counter value of the worker and tests *)
(* its predicate again once it is woken.                                   *)
(***************************************************************************)
EXTENDS Integers, Sequences

CONSTANTS
    Names,                        \* the path spellings callers pass
    Paths,                        \* normalised paths
    NoPath,                       \* the empty path
    Lexical,                      \* path::lexically_normal on Names
    ImageSizes,                   \* byte sizes a decoded image may have
    MaximumQueuedRequestCount,    \* 32 in the code
    MaximumCompletedResultCount,  \* 8 in the code
    MaxAccepted,                  \* bound: requests accepted per start
    MaxCounted                    \* bound: rejections counted per start

ASSUME PathsAssumption ==
    /\ NoPath \notin Paths
    /\ Lexical \in [Names -> Paths \cup {NoPath}]
ASSUME SizesAssumption == ImageSizes \subseteq Nat \ {0}
ASSUME LimitsAssumption ==
    /\ MaximumQueuedRequestCount \in Nat \ {0}
    /\ MaximumCompletedResultCount \in Nat \ {0}
    /\ MaxAccepted \in Nat
    /\ MaxCounted \in Nat

Requests == [id : Nat, path : Paths]
NoRequest == [id |-> 0, path |-> NoPath]

(* What DecodeFromFile leaves behind: pixels only when it succeeded. *)
Images == [succeeded : {FALSE}, bytes : {0}]
            \cup [succeeded : {TRUE}, bytes : ImageSizes]
NoImage == [succeeded |-> FALSE, bytes |-> 0]

Results == [id : Nat, path : Paths, image : Images]
NoResult == [id |-> 0, path |-> NoPath, image |-> NoImage]

VARIABLES
    requestQueue,          \* requestQueue_
    completedQueue,        \* completedQueue_
    pendingPaths,          \* pendingPaths_
    nextRequestId,         \* nextRequestId_
    decodedBytes,          \* decodedBytesAwaitingUpload_
    peakDecodedBytes,      \* peakDecodedBytes_
    rejectedRequestCount,  \* rejectedRequestCount_
    failedRequestCount,    \* failedRequestCount_
    decoding,              \* decoding_
    stopRequested,         \* stopRequested_
    running,               \* running_
    worker,                \* where the worker thread is; "None" = not joinable
    decoderInitialized,    \* the worker's local: COM and WIC came up
    request,               \* the worker's local: the request in hand
    image,                 \* the worker's local: the image it decoded to
    main,                  \* where the main thread is inside the API
    accepted,              \* Request's local: what the caller gets a ticket for
    output                 \* TryPopCompleted's output parameter

queues == <<requestQueue, completedQueue, pendingPaths, nextRequestId>>
counters == <<decodedBytes, peakDecodedBytes, rejectedRequestCount,
              failedRequestCount>>
flags == <<decoding, stopRequested, running>>
workerVars == <<worker, decoderInitialized, request, image>>
callVars == <<main, accepted, output>>
vars == <<queues, counters, flags, workerVars, callVars>>

WorkerPlaces == {"None", "Starting", "RequestTest", "RequestWait", "Decoding",
                 "SpaceTest", "SpaceWait", "Exited"}
MainPlaces == {"Idle", "NotifyRequest", "NotifySpace", "StopNotifyRequest",
               "StopNotifySpace", "StopJoin", "StopClear"}

-----------------------------------------------------------------------------
(* The main thread *)

Init ==
    /\ requestQueue = <<>> /\ completedQueue = <<>> /\ pendingPaths = {}
    /\ nextRequestId = 1
    /\ decodedBytes = 0 /\ peakDecodedBytes = 0
    /\ rejectedRequestCount = 0 /\ failedRequestCount = 0
    /\ decoding = FALSE /\ stopRequested = FALSE /\ running = FALSE
    /\ worker = "None" /\ decoderInitialized = FALSE
    /\ request = NoRequest /\ image = NoImage
    /\ main = "Idle" /\ accepted = NoRequest /\ output = NoResult

(* The thread constructor may throw; a loader already running is left as is. *)
Start ==
    /\ main = "Idle" /\ ~running
    /\ requestQueue' = <<>> /\ completedQueue' = <<>> /\ pendingPaths' = {}
    /\ nextRequestId' = 1
    /\ decodedBytes' = 0 /\ peakDecodedBytes' = 0
    /\ rejectedRequestCount' = 0 /\ failedRequestCount' = 0
    /\ decoding' = FALSE /\ stopRequested' = FALSE
    /\ \/ running' = TRUE /\ worker' = "Starting"
       \/ running' = FALSE /\ UNCHANGED worker
    /\ UNCHANGED <<decoderInitialized, request, image, callVars>>

MutantNotNormalized(name) == name
NormalizePath(name) == Lexical[name]

MutantAdmitsPending(path) ==
    \/ path = NoPath \/ ~running \/ stopRequested
    \/ Len(requestQueue) >= MaximumQueuedRequestCount

Refuses(path) ==
    \/ path = NoPath
    \/ ~running
    \/ stopRequested
    \/ Len(requestQueue) >= MaximumQueuedRequestCount
    \/ path \in pendingPaths

RejectRequest(name) ==
    /\ main = "Idle"
    /\ Refuses(NormalizePath(name))
    /\ rejectedRequestCount < MaxCounted
    /\ rejectedRequestCount' = rejectedRequestCount + 1
    /\ UNCHANGED <<queues, decodedBytes, peakDecodedBytes, failedRequestCount,
                   flags, workerVars, callVars>>

AcceptRequest(name) ==
    LET path == NormalizePath(name)
        new == [id |-> nextRequestId, path |-> path]
    IN  /\ main = "Idle"
        /\ ~Refuses(path)
        /\ nextRequestId <= MaxAccepted
        /\ nextRequestId' = nextRequestId + 1
        /\ requestQueue' = Append(requestQueue, new)
        /\ pendingPaths' = pendingPaths \cup {path}
        /\ accepted' = new
        /\ main' = "NotifyRequest"
        /\ UNCHANGED <<completedQueue, counters, flags, workerVars, output>>

(* condition_variable::notify: the worker is the only waiter. *)
Notify(waiting, testing) ==
    worker' = IF worker = waiting THEN testing ELSE worker

RequestNotifies ==
    /\ main = "NotifyRequest"
    /\ Notify("RequestWait", "RequestTest")
    /\ main' = "Idle"
    /\ accepted' = NoRequest
    /\ UNCHANGED <<queues, counters, flags, decoderInitialized, request, image,
                   output>>

Smaller(a, b) == IF a < b THEN a ELSE b
Larger(a, b) == IF a < b THEN b ELSE a

TryPopCompleted ==
    /\ main = "Idle"
    /\ completedQueue # <<>>
    /\ output' = Head(completedQueue)
    /\ completedQueue' = Tail(completedQueue)
    /\ pendingPaths' = pendingPaths \ {output'.path}
    /\ decodedBytes' =
          decodedBytes - Smaller(decodedBytes, output'.image.bytes)
    /\ main' = "NotifySpace"
    /\ UNCHANGED <<requestQueue, nextRequestId, peakDecodedBytes,
                   rejectedRequestCount, failedRequestCount, flags, workerVars,
                   accepted>>

MutantPopForgetsNotify ==
    /\ main = "NotifySpace" /\ main' = "Idle" /\ output' = NoResult
    /\ UNCHANGED <<queues, counters, flags, workerVars, accepted>>

PopNotifies ==
    /\ main = "NotifySpace"
    /\ Notify("SpaceWait", "SpaceTest")
    /\ main' = "Idle"
    /\ output' = NoResult
    /\ UNCHANGED <<queues, counters, flags, decoderInitialized, request, image,
                   accepted>>

(* Stop returns at once when there is neither a loader nor a thread. *)
StopRequests ==
    /\ main = "Idle"
    /\ running \/ worker # "None"
    /\ stopRequested' = TRUE
    /\ requestQueue' = <<>>
    /\ main' = "StopNotifyRequest"
    /\ UNCHANGED <<completedQueue, pendingPaths, nextRequestId, counters,
                   decoding, running, workerVars, accepted, output>>

StopNotifiesRequest ==
    /\ main = "StopNotifyRequest"
    /\ Notify("RequestWait", "RequestTest")
    /\ main' = "StopNotifySpace"
    /\ UNCHANGED <<queues, counters, flags, decoderInitialized, request, image,
                   accepted, output>>

MutantStopForgetsSpace ==
    /\ main = "StopNotifySpace" /\ main' = "StopJoin"
    /\ UNCHANGED <<queues, counters, flags, workerVars, accepted, output>>

StopNotifiesSpace ==
    /\ main = "StopNotifySpace"
    /\ Notify("SpaceWait", "SpaceTest")
    /\ main' = "StopJoin"
    /\ UNCHANGED <<queues, counters, flags, decoderInitialized, request, image,
                   accepted, output>>

MutantStopDetaches ==
    /\ main = "StopJoin" /\ main' = "StopClear"
    /\ UNCHANGED <<queues, counters, flags, workerVars, accepted, output>>

StopJoins ==
    /\ main = "StopJoin"
    /\ worker = "Exited"
    /\ worker' = "None"
    /\ main' = "StopClear"
    /\ UNCHANGED <<queues, counters, flags, decoderInitialized, request, image,
                   accepted, output>>

StopClears ==
    /\ main = "StopClear"
    /\ requestQueue' = <<>> /\ completedQueue' = <<>> /\ pendingPaths' = {}
    /\ decodedBytes' = 0
    /\ decoding' = FALSE /\ running' = FALSE
    /\ main' = "Idle"
    /\ UNCHANGED <<nextRequestId, peakDecodedBytes, rejectedRequestCount,
                   failedRequestCount, stopRequested, workerVars, accepted,
                   output>>

-----------------------------------------------------------------------------
(* The worker thread *)

WorkerStarts ==
    /\ worker = "Starting"
    /\ decoderInitialized' \in BOOLEAN
    /\ worker' = "RequestTest"
    /\ UNCHANGED <<queues, counters, flags, request, image, callVars>>

MutantSleepsUntested ==
    /\ worker = "RequestTest" /\ ~stopRequested
    /\ worker' = "RequestWait"
    /\ UNCHANGED <<queues, counters, flags, decoderInitialized, request, image,
                   callVars>>

WorkerSleepsForRequest ==
    /\ worker = "RequestTest"
    /\ ~stopRequested /\ requestQueue = <<>>
    /\ worker' = "RequestWait"
    /\ UNCHANGED <<queues, counters, flags, decoderInitialized, request, image,
                   callVars>>

MutantTakesNewest ==
    /\ worker = "RequestTest" /\ ~stopRequested /\ requestQueue # <<>>
    /\ request' = requestQueue[Len(requestQueue)]
    /\ requestQueue' = SubSeq(requestQueue, 1, Len(requestQueue) - 1)
    /\ decoding' = TRUE /\ worker' = "Decoding"
    /\ UNCHANGED <<completedQueue, pendingPaths, nextRequestId, counters,
                   stopRequested, running, decoderInitialized, image, callVars>>

WorkerTakesRequest ==
    /\ worker = "RequestTest"
    /\ ~stopRequested /\ requestQueue # <<>>
    /\ request' = Head(requestQueue)
    /\ requestQueue' = Tail(requestQueue)
    /\ decoding' = TRUE
    /\ worker' = "Decoding"
    /\ UNCHANGED <<completedQueue, pendingPaths, nextRequestId, counters,
                   stopRequested, running, decoderInitialized, image, callVars>>

WorkerStopsIdle ==
    /\ worker = "RequestTest"
    /\ stopRequested
    /\ worker' = "Exited"
    /\ decoderInitialized' = FALSE
    /\ UNCHANGED <<queues, counters, flags, request, image, callVars>>

(* A bug: the predicate is tested once and the result published anyway. *)
MutantHandOverUnbounded(decoded) ==
    /\ decodedBytes' = decodedBytes + decoded.bytes
    /\ peakDecodedBytes' = Larger(peakDecodedBytes, decodedBytes')
    /\ completedQueue' =
          Append(completedQueue, [id |-> request.id, path |-> request.path,
                                  image |-> decoded])
    /\ worker' = IF stopRequested THEN "Exited" ELSE "RequestTest"
    /\ request' = NoRequest /\ image' = NoImage
    /\ UNCHANGED decoderInitialized

(* The rest of the worker's second critical section, from the test of its *)
(* predicate on: leave, publish the result, or sleep until there is room.  *)
HandOver(decoded) ==
    \/ /\ stopRequested
       /\ worker' = "Exited"
       /\ decoderInitialized' = FALSE
       /\ request' = NoRequest /\ image' = NoImage
       /\ UNCHANGED <<completedQueue, decodedBytes, peakDecodedBytes>>
    \/ /\ ~stopRequested
       /\ Len(completedQueue) < MaximumCompletedResultCount
       /\ decodedBytes' = decodedBytes + decoded.bytes
       /\ peakDecodedBytes' = Larger(peakDecodedBytes, decodedBytes')
       /\ completedQueue' =
             Append(completedQueue, [id |-> request.id, path |-> request.path,
                                     image |-> decoded])
       /\ worker' = "RequestTest"
       /\ request' = NoRequest /\ image' = NoImage
       /\ UNCHANGED decoderInitialized
    \/ /\ ~stopRequested
       /\ Len(completedQueue) >= MaximumCompletedResultCount
       /\ worker' = "SpaceWait"
       /\ image' = decoded
       /\ UNCHANGED <<completedQueue, decodedBytes, peakDecodedBytes,
                      decoderInitialized, request>>

(* Decoding touches no shared state; it ends where the lock is taken. *)
WorkerDecodes ==
    /\ worker = "Decoding"
    /\ \E decoded \in Images :
          /\ decoded.succeeded => decoderInitialized
          /\ decoding' = FALSE
          /\ failedRequestCount' =
                failedRequestCount + (IF decoded.succeeded THEN 0 ELSE 1)
          /\ HandOver(decoded)
    /\ UNCHANGED <<requestQueue, pendingPaths, nextRequestId,
                   rejectedRequestCount, stopRequested, running, callVars>>

WorkerRetests ==
    /\ worker = "SpaceTest"
    /\ HandOver(image)
    /\ UNCHANGED <<requestQueue, pendingPaths, nextRequestId,
                   rejectedRequestCount, failedRequestCount, flags, callVars>>

(* A condition variable may wake its waiter without a notification. *)
SpuriousWakeup ==
    /\ \/ worker = "RequestWait" /\ worker' = "RequestTest"
       \/ worker = "SpaceWait" /\ worker' = "SpaceTest"
    /\ UNCHANGED <<queues, counters, flags, decoderInitialized, request, image,
                   callVars>>

-----------------------------------------------------------------------------
RequestCall == \E name \in Names : AcceptRequest(name) \/ RejectRequest(name)

(* Steps the main thread takes once it is inside a call. *)
MainContinues ==
    \/ RequestNotifies \/ PopNotifies
    \/ StopNotifiesRequest \/ StopNotifiesSpace \/ StopJoins \/ StopClears

WorkerSteps ==
    \/ WorkerStarts \/ WorkerSleepsForRequest \/ WorkerTakesRequest
    \/ WorkerStopsIdle \/ WorkerDecodes \/ WorkerRetests

Next ==
    \/ Start \/ RequestCall \/ TryPopCompleted \/ StopRequests
    \/ MainContinues \/ WorkerSteps \/ SpuriousWakeup

Spec == Init /\ [][Next]_vars

(* Both threads are scheduled and a decode ends; the application polls the *)
(* completed queue every frame.  Nothing forces a Start, a Request, a Stop *)
(* or a spurious wakeup.                                                   *)
FairSpec ==
    /\ Spec
    /\ WF_vars(MainContinues)
    /\ WF_vars(WorkerSteps)
    /\ SF_vars(TryPopCompleted)

-----------------------------------------------------------------------------
TypeOK ==
    /\ requestQueue \in Seq(Requests)
    /\ completedQueue \in Seq(Results)
    /\ pendingPaths \subseteq Paths
    /\ nextRequestId \in Nat \ {0}
    /\ decodedBytes \in Nat /\ peakDecodedBytes \in Nat
    /\ rejectedRequestCount \in Nat /\ failedRequestCount \in Nat
    /\ decoding \in BOOLEAN /\ stopRequested \in BOOLEAN /\ running \in BOOLEAN
    /\ worker \in WorkerPlaces /\ decoderInitialized \in BOOLEAN
    /\ request \in Requests \cup {NoRequest} /\ image \in Images
    /\ main \in MainPlaces
    /\ accepted \in Requests \cup {NoRequest}
    /\ output \in Results \cup {NoResult}

Holding == worker \in {"Decoding", "SpaceTest", "SpaceWait"}
InHand == IF Holding THEN <<request>> ELSE <<>>
TicketOf(item) == [id |-> item.id, path |-> item.path]

(* Every request accepted and not yet handed back, the oldest first: the *)
(* results, then the one the worker holds, then the queue.               *)
Outstanding ==
    [i \in 1..Len(completedQueue) |-> TicketOf(completedQueue[i])]
        \o InHand \o requestQueue

(* Between calls and inside Request and TryPopCompleted, the outstanding   *)
(* requests are exactly the last ones accepted, in the order of their ids: *)
(* no step of the worker loses, duplicates or overtakes one.               *)
OutstandingInOrder ==
    ~stopRequested =>
        \A i \in 1..Len(Outstanding) :
            Outstanding[i].id = nextRequestId - 1 - Len(Outstanding) + i

(* pendingPaths_ is the set of the paths of the outstanding requests, and  *)
(* no two of them share a path: a path is never refused for a request that *)
(* was already handed back, nor decoded twice at a time.                   *)
PendingExact ==
    ~stopRequested =>
        /\ pendingPaths = {Outstanding[i].path : i \in 1..Len(Outstanding)}
        /\ \A i, j \in 1..Len(Outstanding) :
              Outstanding[i].path = Outstanding[j].path => i = j

BytesUpTo[i \in Nat] ==
    IF i = 0 THEN 0 ELSE completedQueue[i].image.bytes + BytesUpTo[i - 1]

(* decodedBytesAwaitingUpload_ is the size of exactly the images in the    *)
(* completed queue (the saturating subtraction never has to saturate), and *)
(* its peak stays within the largest images the bounded queue can hold.    *)
DecodedMemoryAccounted ==
    /\ decodedBytes = BytesUpTo[Len(completedQueue)]
    /\ decodedBytes <= peakDecodedBytes
    /\ \E largest \in ImageSizes \cup {0} :
          peakDecodedBytes <= MaximumCompletedResultCount * largest

(* Neither queue outgrows its limit. *)
QueuesBounded ==
    /\ Len(requestQueue) <= MaximumQueuedRequestCount
    /\ Len(completedQueue) <= MaximumCompletedResultCount

(* The worker never sleeps on a condition that already holds, unless the   *)
(* main thread has released the mutex and is about to send the wakeup:     *)
(* notifying after the unlock loses none, on either condition variable.    *)
NoLostWakeup ==
    /\ worker = "RequestWait" /\ (stopRequested \/ requestQueue # <<>>) =>
          main \in {"NotifyRequest", "StopNotifyRequest"}
    /\ worker = "SpaceWait"
          /\ (stopRequested
               \/ Len(completedQueue) < MaximumCompletedResultCount) =>
          main \in {"NotifySpace", "StopNotifyRequest", "StopNotifySpace"}

(* When Stop has returned, the worker has been joined and nothing of the   *)
(* session is left: no queued work, no decoded pixels, no pending path.    *)
StoppedClean ==
    main = "Idle" /\ ~running =>
        /\ worker = "None" /\ ~decoding
        /\ requestQueue = <<>> /\ completedQueue = <<>> /\ pendingPaths = {}
        /\ decodedBytes = 0

(* A call to Stop returns, whether the worker is idle, decoding, asleep on *)
(* a full completed queue or not yet in its loop.                          *)
StopReturns == main = "StopNotifyRequest" ~> main = "Idle"

(* An accepted path does not stay pending for ever: it is handed back, or  *)
(* the loader is stopped.                                                  *)
AcceptedIsServed ==
    \A path \in Paths : path \in pendingPaths ~> path \notin pendingPaths

(* The loader implements its contract: seen from the calling thread, the   *)
(* two queues and the request in the worker's hand are one first-in        *)
(* first-out line of requests that a Stop empties.                         *)
Promise == INSTANCE LoaderContract WITH
    Capacity <- MaximumQueuedRequestCount + 1 + MaximumCompletedResultCount,
    open <- running /\ ~stopRequested,
    lastId <- nextRequestId - 1,
    outstanding <- IF stopRequested THEN <<>> ELSE Outstanding

ImplementsContract == Promise!Contract
=============================================================================
