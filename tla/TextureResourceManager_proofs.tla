---------------------- MODULE TextureResourceManager_proofs ----------------------
(***************************************************************************)
(* Proofs about the texture cache over the loader, for any set of paths,   *)
(* any limits and any number of requests.  The cache inherits the          *)
(* invariant of the loader; ManagerInv adds what holds between the two:    *)
(* which requests the loader owes the cache, place by place, and how many  *)
(* of the accepted ones have not yet been decided.                         *)
(***************************************************************************)
EXTENDS TextureResourceManager, AsyncTextureLoader_proofs, FiniteSetTheorems

Line == {Outstanding[i] : i \in 1..Len(Outstanding)}
InUpdate == IF output = NoResult THEN {} ELSE {TicketOf(output)}
Ticket(path) == [id |-> resources[path].requestId, path |-> path]
QueuedPaths == {path \in Paths : State(path) = "Queued"}
ReadyPaths == {path \in Paths : State(path) = "Ready"}

CacheTypeOK ==
    /\ resources \in [Paths -> Entries]
    /\ managerRunning \in BOOLEAN
    /\ failedUploadCount \in Nat

(* The manager runs with its loader, and the two calls that leave a result *)
(* to their caller are inside it exactly while they have one.              *)
CallShape ==
    /\ managerRunning = running
    /\ ~managerRunning => resources = EmptyCache
    /\ accepted # NoRequest <=> main = "NotifyRequest"
    /\ output # NoResult <=> main = "NotifySpace"

(* QueuedIsOwed, with what is between a call of the loader and its return. *)
OwedExact ==
    running /\ ~stopRequested =>
        /\ Line \cup InUpdate = {Ticket(path) : path \in QueuedPaths}
                                   \cup AboutToInsert
        /\ accepted # NoRequest =>
              State(accepted.path) \in {"Unloaded", "Failed"}
        /\ output # NoResult => \A ticket \in Line : ticket.path # output.path

(* The paths of a queue, and of the results in one that hold an image. *)
PathsOf(items) == {items[i].path : i \in 1..Len(items)}
ImagesOf(results) ==
    {results[i].path : i \in {j \in 1..Len(results) : results[j].image.succeeded}}

(* The paths whose request may still become Ready. *)
InWork == IF Holding /\ (worker = "Decoding" \/ image.succeeded)
          THEN {request.path} ELSE {}
InUpload == IF output.image.succeeded THEN {output.path} ELSE {}
UndecidedPaths ==
    PathsOf(requestQueue) \cup ImagesOf(completedQueue) \cup InWork \cup InUpload

(* Every accepted request is counted once, or is not decided yet. *)
RequestsCounted ==
    running /\ ~stopRequested =>
        /\ IsFiniteSet(ReadyPaths) /\ IsFiniteSet(UndecidedPaths)
        /\ nextRequestId - 1 =
              Cardinality(ReadyPaths) + failedRequestCount + failedUploadCount
                  + Cardinality(UndecidedPaths)

ManagerInv ==
    IInv /\ CacheTypeOK /\ CallShape /\ OwedExact /\ RequestsCounted

-----------------------------------------------------------------------------
(* What the steps of the loader mean to the cache *)

(* The cache's steps are steps of the loader. *)
LEMMA LoaderSteps == [ManagerNext]_managerVars => [Next]_vars
BY DEF ManagerNext, managerVars, ManagerStart, RequestAsync, Update,
       ManagerStop, ManagerContinues, RequestAsyncReturns, UpdateReturns,
       ManagerStopReturns, WorkerOrWakeup, Next, RequestCall, MainContinues

(* The session is open between a start and a stop. *)
LEMMA OpenSession ==
    ASSUME IInv
    PROVE  /\ main \in {"NotifyRequest", "NotifySpace"} => running /\ ~stopRequested
           /\ main \in StopPlaces <=> running /\ stopRequested
           /\ worker # "None" => running
BY DEF IInv, SessionShape, StopPlaces

(* Outstanding requests are requests. *)
LEMMA LineTyped ==
    ASSUME IInv
    PROVE  Outstanding \in Seq(Requests) /\ Line \subseteq Requests
<1>1. Outstanding \in Seq(Requests)
  BY OutstandingBounded DEF IInv
<1>2. \A i \in 1..Len(Outstanding) : Outstanding[i] \in Requests
  BY <1>1
<1> QED BY <1>1, <1>2 DEF Line

(* An accepted request is added to the line. *)
LEMMA Accepting ==
    ASSUME IInv, IInv', NEW name \in Names, AcceptRequest(name)
    PROVE  /\ running /\ ~stopRequested
           /\ NormalizePath(name) \in Paths \ pendingPaths
           /\ accepted' = [id |-> nextRequestId, path |-> NormalizePath(name)]
           /\ accepted' \in Requests
           /\ Line' = Line \cup {accepted'}
<1> DEFINE path == NormalizePath(name)
           n == Len(Outstanding)
<1>1. /\ running /\ ~stopRequested /\ path \in Paths \ pendingPaths
      /\ UNCHANGED <<running, stopRequested>>
      /\ nextRequestId' = nextRequestId + 1 /\ nextRequestId \in Nat
      /\ pendingPaths' = pendingPaths \cup {path}
      /\ accepted' = [id |-> nextRequestId, path |-> path]
  BY ConstantFacts DEF AcceptRequest, Refuses, flags, IInv, TypeOK
<1>2. [Next]_vars
  BY DEF Next, RequestCall
<1> HIDE DEF path
<1>3. PICK grown \in Paths : LineGrows(grown)
  BY <1>1, <1>2, LineSteps
  DEF IInv, LineRestarts, LineShrinks, LineCloses, LineRests
<1>4. grown = path
  BY <1>1, <1>3 DEF LineGrows
<1>5. Outstanding' = Append(Outstanding, accepted')
  BY <1>1, <1>3, <1>4 DEF LineGrows
<1>6. accepted' \in Requests
  BY <1>1 DEF Requests
<1>7. /\ Len(Outstanding') = n + 1 /\ n \in Nat
      /\ \A i \in 1..n : Outstanding'[i] = Outstanding[i]
      /\ Outstanding'[n + 1] = accepted'
  BY <1>5, <1>6, LineTyped
<1> HIDE DEF n
<1>8. \A i \in 1..(n + 1) : i \in 1..n \/ i = n + 1
  BY <1>7
<1>9. 1..n \subseteq 1..(n + 1) /\ n + 1 \in 1..(n + 1)
  BY <1>7
<1>10. Line' = {Outstanding'[i] : i \in 1..(n + 1)} /\ Line = {Outstanding[i] : i \in 1..n}
  BY <1>7 DEF Line, n
<1>11. Line' = Line \cup {accepted'}
  BY <1>7, <1>8, <1>9, <1>10
<1> QED BY <1>1, <1>6, <1>11 DEF path

(* The result Update is given is the first of the line, and about a path    *)
(* that nothing else in the line is about.                                  *)
LEMMA Popping ==
    ASSUME IInv, IInv', TryPopCompleted
    PROVE  /\ running /\ ~stopRequested
           /\ output' \in Results /\ output' # NoResult
           /\ TicketOf(output') \in Line
           /\ Line' = Line \ {TicketOf(output')}
           /\ \A ticket \in Line' : ticket.path # output'.path
<1> DEFINE n == Len(Outstanding)
           first == TicketOf(output')
<1>1. /\ main = "Idle" /\ completedQueue # <<>>
      /\ output' = Head(completedQueue) /\ completedQueue' = Tail(completedQueue)
      /\ UNCHANGED <<requestQueue, running, stopRequested, worker, request>>
  BY DEF TryPopCompleted, flags, workerVars
<1>2. /\ completedQueue \in Seq(Results) /\ requestQueue \in Seq(Requests)
      /\ InHand \in Seq(Requests) /\ InHand' = InHand
  BY <1>1, HandPlaces DEF IInv, TypeOK, InHand, Holding
<1>3. running /\ ~stopRequested
  BY <1>1 DEF IInv, SessionShape, StopPlaces
<1>4. output' \in Results /\ output' # NoResult
  <2>1. output' \in Results
    BY <1>1, <1>2
  <2>2. NoResult \notin Results
    BY PathsAssumption DEF NoResult, Results
  <2> QED BY <2>1, <2>2
<1>5. Outstanding # <<>> /\ Outstanding[1] = first /\ Outstanding' = Tail(Outstanding)
  BY <1>1, <1>2, LineUpPops, OutstandingIsLine
<1>6. first.path = output'.path
  BY DEF TicketOf
<1>7. /\ n \in Nat \ {0} /\ Len(Outstanding') = n - 1 /\ 1 \in 1..n
      /\ \A i \in 1..(n - 1) : Outstanding'[i] = Outstanding[i + 1]
  BY <1>5, LineTyped
<1>8. \A i, j \in 1..n : Outstanding[i].path = Outstanding[j].path => i = j
  BY <1>3 DEF IInv, PendingExact
<1> HIDE DEF n, first
<1>9. /\ Line' = {Outstanding'[i] : i \in 1..(n - 1)}
      /\ Line = {Outstanding[i] : i \in 1..n}
  BY <1>7 DEF Line, n
<1>10. \A i \in 1..n : i = 1 \/ (i - 1 \in 1..(n - 1) /\ i = (i - 1) + 1)
  BY <1>7
<1>11. \A i \in 1..(n - 1) : i + 1 \in 1..n /\ i + 1 # 1
  BY <1>7
<1>12. \A i \in 1..n : i # 1 => Outstanding[i] # first /\ Outstanding[i].path # first.path
  BY <1>5, <1>7, <1>8
<1>13. ASSUME NEW ticket \in Line'
       PROVE  ticket \in Line /\ ticket # first /\ ticket.path # first.path
  <2>1. PICK i \in 1..(n - 1) : ticket = Outstanding'[i]
    BY <1>9
  <2>2. ticket = Outstanding[i + 1] /\ i + 1 \in 1..n /\ i + 1 # 1
    BY <1>7, <1>11, <2>1
  <2> QED BY <1>9, <1>12, <2>2
<1>14. ASSUME NEW ticket \in Line, ticket # first PROVE ticket \in Line'
  <2>1. PICK i \in 1..n : ticket = Outstanding[i]
    BY <1>9
  <2>2. i - 1 \in 1..(n - 1) /\ i = (i - 1) + 1
    BY <1>5, <1>10, <1>14, <2>1
  <2>3. ticket = Outstanding'[i - 1]
    BY <1>7, <2>1, <2>2
  <2> QED BY <1>9, <2>2, <2>3
<1>15. first \in Line
  BY <1>5, <1>7, <1>9
<1> QED BY <1>3, <1>4, <1>6, <1>13, <1>14, <1>15 DEF first

(* A step that changes none of these does not change the line. *)
LEMMA Resting ==
    ASSUME IInv, IInv', [Next]_vars, running, ~stopRequested,
           UNCHANGED <<pendingPaths, nextRequestId, running, stopRequested>>
    PROVE  Outstanding' = Outstanding /\ Line' = Line
<1>1. CASE LineShrinks
  <2>1. Outstanding[1].path \in pendingPaths
    <3>1. Outstanding \in Seq(Requests) /\ Outstanding # <<>>
      BY <1>1, LineTyped DEF LineShrinks
    <3>2. 1 \in 1..Len(Outstanding)
      BY <3>1
    <3>3. pendingPaths = {Outstanding[i].path : i \in 1..Len(Outstanding)}
      BY DEF IInv, PendingExact
    <3> QED BY <3>2, <3>3
  <2> QED BY <1>1, <2>1 DEF LineShrinks
<1>2. nextRequestId \in Nat
  BY DEF IInv, TypeOK
<1>3. Outstanding' = Outstanding
  BY <1>1, <1>2, LineSteps
  DEF IInv, LineRestarts, LineGrows, LineCloses, LineRests
<1> QED BY <1>3 DEF Line

(* A start leaves no line. *)
LEMMA Starting ==
    ASSUME IInv, IInv', Start
    PROVE  Line' = {} /\ UndecidedPaths' = (IF output'.image.succeeded
                                            THEN {output'.path} ELSE {})
<1>1. requestQueue' = <<>> /\ completedQueue' = <<>>
  BY DEF Start
<1>2. ~Holding'
  BY DEF Start, Holding, IInv, SessionShape
<1>3. Outstanding' = <<>>
  BY <1>1, <1>2 DEF Outstanding, InHand
<1>4. Len(<<>>) = 0
  OBVIOUS
<1>5. Line' = {}
  BY <1>3, <1>4 DEF Line
<1>6. UndecidedPaths' = (IF output'.image.succeeded THEN {output'.path} ELSE {})
  <2>1. PathsOf(requestQueue)' = {} /\ ImagesOf(completedQueue)' = {}
    BY <1>1, <1>4 DEF PathsOf, ImagesOf
  <2>2. InWork' = {}
    BY <1>2 DEF InWork
  <2> QED BY <2>1, <2>2 DEF UndecidedPaths, InUpload
<1> QED BY <1>5, <1>6

-----------------------------------------------------------------------------
(* What the cache and the loader owe each other *)

(* ManagerInv without the counts. *)
CacheInv == IInv /\ CacheTypeOK /\ CallShape /\ OwedExact

(* No result Update is given is unknown or stale: its path is Queued under *)
(* the id of the result.                                                   *)
LEMMA NeverStale ==
    ASSUME CacheInv, main = "NotifySpace"
    PROVE  /\ running /\ ~stopRequested /\ output \in Results
           /\ output.path \in QueuedPaths
           /\ TicketOf(output) = Ticket(output.path)
           /\ ~IsStale(output)
           /\ \A ticket \in Line : ticket.path # output.path
<1>1. /\ output # NoResult /\ accepted = NoRequest
      /\ output \in Results
  BY DEF CacheInv, CallShape, IInv, TypeOK
<1>2. running /\ ~stopRequested
  BY OpenSession DEF CacheInv
<1>3. Line \cup InUpdate = {Ticket(path) : path \in QueuedPaths}
  BY <1>1, <1>2 DEF CacheInv, OwedExact, AboutToInsert
<1>4. TicketOf(output) \in InUpdate
  BY <1>1 DEF InUpdate
<1>5. PICK path \in QueuedPaths : TicketOf(output) = Ticket(path)
  BY <1>3, <1>4
<1>6. path = output.path /\ output.id = resources[path].requestId
  BY <1>5 DEF TicketOf, Ticket
<1>7. State(path) = "Queued" /\ path \in Paths
  BY DEF QueuedPaths
<1>8. \A ticket \in Line : ticket.path # output.path
  BY <1>1, <1>2 DEF CacheInv, OwedExact
<1> QED BY <1>1, <1>2, <1>5, <1>6, <1>7, <1>8 DEF IsStale

(* The tickets of the queued paths, with a path added and one taken away. *)
LEMMA QueuedTickets ==
    ASSUME NEW path \in Paths, NEW id \in Nat, NEW state \in States,
           resources \in [Paths -> Entries],
           resources' = [resources EXCEPT ![path] =
                            [state |-> state, requestId |-> id]]
    PROVE  {Ticket(p) : p \in QueuedPaths}' =
              {Ticket(p) : p \in QueuedPaths \ {path}}
                 \cup (IF state = "Queued" THEN {[id |-> id, path |-> path]}
                       ELSE {})
<1>1. \A p \in Paths : resources'[p] =
          IF p = path THEN [state |-> state, requestId |-> id]
          ELSE resources[p]
  OBVIOUS
<1>2. \A p \in Paths : p # path =>
          /\ (p \in QueuedPaths)' <=> p \in QueuedPaths
          /\ Ticket(p)' = Ticket(p)
  BY <1>1 DEF QueuedPaths, State, Ticket
<1>3. (path \in QueuedPaths)' <=> state = "Queued"
  BY <1>1 DEF QueuedPaths, State
<1>4. Ticket(path)' = [id |-> id, path |-> path]
  BY <1>1 DEF Ticket
<1>5. QueuedPaths \subseteq Paths /\ QueuedPaths' \subseteq Paths
  BY DEF QueuedPaths
<1>6. QueuedPaths' = (QueuedPaths \ {path}) \cup (IF state = "Queued" THEN {path} ELSE {})
  BY <1>2, <1>3, <1>5
<1>7. {Ticket(p) : p \in QueuedPaths}' = {Ticket(p)' : p \in QueuedPaths'}
  OBVIOUS
<1> QED BY <1>2, <1>4, <1>5, <1>6, <1>7

(* A step of the loader alone that leaves the line to itself. *)
LEMMA QuietStep ==
    ASSUME CacheInv, IInv', [Next]_vars, UNCHANGED cacheVars,
           UNCHANGED <<accepted, output, running, stopRequested>>,
           main' = main \/ stopRequested,
           main' = main \/ main' \in StopPlaces,
           stopRequested \/ UNCHANGED <<pendingPaths, nextRequestId>>
    PROVE  CacheInv'
<1>1. CacheTypeOK'
  BY DEF CacheInv, CacheTypeOK, cacheVars, Entries, States
<1>2. CallShape'
  <2>1. main' # main => accepted = NoRequest /\ output = NoResult
    BY OpenSession DEF CacheInv, CallShape
  <2> QED BY <2>1 DEF CacheInv, CallShape, cacheVars, StopPlaces, EmptyCache
<1>3. OwedExact'
  <2> SUFFICES ASSUME running, ~stopRequested PROVE OwedExact'
    BY DEF OwedExact
  <2>1. Line' = Line
    BY Resting DEF CacheInv
  <2>2. /\ InUpdate' = InUpdate /\ AboutToInsert' = AboutToInsert
        /\ {Ticket(p) : p \in QueuedPaths}' = {Ticket(p) : p \in QueuedPaths}
        /\ State(accepted.path)' = State(accepted.path)
    BY DEF InUpdate, AboutToInsert, TicketOf, Ticket, QueuedPaths, State, cacheVars
  <2> QED BY <2>1, <2>2 DEF CacheInv, OwedExact
<1> QED BY <1>1, <1>2, <1>3 DEF CacheInv

(* The steps that enter and leave Request. *)
LEMMA RequestSteps ==
    ASSUME CacheInv, IInv', [Next]_vars,
           (\E name \in Names : RequestAsync(name)) \/ RequestAsyncReturns
    PROVE  CacheInv'
<1>1. ASSUME NEW name \in Names, RequestAsync(name), RejectRequest(name)
      PROVE  CacheInv'
  BY <1>1, QuietStep
  DEF RequestAsync, RejectRequest, callVars, flags, queues
<1>2. ASSUME NEW name \in Names, RequestAsync(name), AcceptRequest(name)
      PROVE  CacheInv'
  <2> DEFINE path == NormalizePath(name)
  <2>1. /\ running /\ ~stopRequested /\ path \in Paths
        /\ accepted' = [id |-> nextRequestId, path |-> path]
        /\ accepted' \in Requests
        /\ Line' = Line \cup {accepted'}
    BY <1>2, Accepting DEF CacheInv
  <2>2. /\ main = "Idle" /\ main' = "NotifyRequest"
        /\ UNCHANGED <<output, running, stopRequested, resources,
                       managerRunning, failedUploadCount>>
        /\ State(path) \in {"Unloaded", "Failed"}
    BY <1>2 DEF RequestAsync, MayRequest, AcceptRequest, flags, cacheVars
  <2>3. accepted' # NoRequest /\ accepted'.path = path
    BY <2>1, ConstantFacts
  <2>4. accepted = NoRequest /\ output = NoResult
    BY <2>2 DEF CacheInv, CallShape
  <2>5. CacheTypeOK'
    BY <2>2 DEF CacheInv, CacheTypeOK, Entries, States
  <2>6. CallShape'
    BY <2>2, <2>3, <2>4 DEF CacheInv, CallShape, EmptyCache
  <2>7. OwedExact'
    <3>1. InUpdate' = {} /\ InUpdate = {} /\ AboutToInsert = {}
      BY <2>2, <2>4 DEF InUpdate, AboutToInsert
    <3>2. {Ticket(p) : p \in QueuedPaths}' = {Ticket(p) : p \in QueuedPaths}
      BY <2>2 DEF Ticket, QueuedPaths, State
    <3>3. Line = {Ticket(p) : p \in QueuedPaths}
      BY <2>1, <3>1 DEF CacheInv, OwedExact
    <3>4. AboutToInsert' = {accepted'}
      BY <2>3 DEF AboutToInsert
    <3>5. State(accepted.path)' \in {"Unloaded", "Failed"}
      BY <2>2, <2>3 DEF State
    <3> HIDE DEF path
    <3> QED BY <2>1, <2>2, <2>4, <3>1, <3>2, <3>3, <3>4, <3>5 DEF OwedExact
  <2> QED BY <2>5, <2>6, <2>7 DEF CacheInv
<1>3. CASE RequestAsyncReturns
  <2>1. /\ main = "NotifyRequest" /\ main' = "Idle" /\ accepted' = NoRequest
        /\ UNCHANGED <<output, running, stopRequested, managerRunning,
                       failedUploadCount, pendingPaths, nextRequestId>>
        /\ resources' = [resources EXCEPT ![accepted.path] =
                            [state |-> "Queued", requestId |-> accepted.id]]
    BY <1>3 DEF RequestAsyncReturns, RequestNotifies, queues, flags
  <2>2. running /\ ~stopRequested /\ accepted # NoRequest /\ output = NoResult
    BY <2>1, OpenSession DEF CacheInv, CallShape
  <2>3. accepted \in Requests /\ accepted.path \in Paths /\ accepted.id \in Nat
        /\ accepted = [id |-> accepted.id, path |-> accepted.path]
    BY <2>2 DEF CacheInv, IInv, TypeOK, Requests
  <2>4. resources \in [Paths -> Entries]
    BY DEF CacheInv, CacheTypeOK
  <2>5. CacheTypeOK'
    <3>1. [state |-> "Queued", requestId |-> accepted.id] \in Entries
      BY <2>3 DEF Entries, States
    <3> QED BY <2>1, <2>3, <2>4, <3>1 DEF CacheInv, CacheTypeOK
  <2>6. CallShape'
    BY <2>1, <2>2 DEF CacheInv, CallShape
  <2>7. OwedExact'
    <3>1. {Ticket(p) : p \in QueuedPaths}' =
             {Ticket(p) : p \in QueuedPaths \ {accepted.path}} \cup {accepted}
      <4>1. "Queued" \in States
        BY DEF States
      <4> QED BY <2>1, <2>3, <2>4, <4>1, QueuedTickets
    <3>2. accepted.path \notin QueuedPaths
      BY <2>2 DEF CacheInv, OwedExact, QueuedPaths
    <3>3. Line' = Line
      BY <2>1, <2>2, Resting DEF CacheInv
    <3>4. InUpdate = {} /\ InUpdate' = {} /\ AboutToInsert = {accepted}
          /\ AboutToInsert' = {}
      BY <2>1, <2>2 DEF InUpdate, AboutToInsert
    <3>5. Line = {Ticket(p) : p \in QueuedPaths} \cup {accepted}
      BY <2>2, <3>4 DEF CacheInv, OwedExact
    <3>6. QueuedPaths \ {accepted.path} = QueuedPaths
      BY <3>2
    <3> QED BY <2>1, <2>2, <3>1, <3>3, <3>4, <3>5, <3>6 DEF OwedExact
  <2> QED BY <2>5, <2>6, <2>7 DEF CacheInv
<1> QED BY <1>1, <1>2, <1>3 DEF RequestAsync

(* The steps that enter and leave Update. *)
LEMMA UpdateSteps ==
    ASSUME CacheInv, IInv', [Next]_vars, Update \/ UpdateReturns
    PROVE  CacheInv'
<1>1. CASE Update
  <2>1. /\ running /\ ~stopRequested
        /\ output' # NoResult
        /\ TicketOf(output') \in Line
        /\ Line' = Line \ {TicketOf(output')}
        /\ \A ticket \in Line' : ticket.path # output'.path
    BY <1>1, Popping DEF Update, CacheInv
  <2>2. /\ main = "Idle" /\ main' = "NotifySpace"
        /\ UNCHANGED <<accepted, running, stopRequested, resources,
                       managerRunning, failedUploadCount>>
    BY <1>1 DEF Update, TryPopCompleted, flags, cacheVars
  <2>3. accepted = NoRequest /\ output = NoResult
    BY <2>2 DEF CacheInv, CallShape
  <2>4. CacheTypeOK'
    BY <2>2 DEF CacheInv, CacheTypeOK, Entries, States
  <2>5. CallShape'
    BY <2>1, <2>2, <2>3 DEF CacheInv, CallShape, EmptyCache
  <2>6. OwedExact'
    <3>1. /\ InUpdate' = {TicketOf(output')} /\ InUpdate = {}
          /\ AboutToInsert = {} /\ AboutToInsert' = {}
      BY <2>1, <2>2, <2>3 DEF InUpdate, AboutToInsert, TicketOf
    <3>2. {Ticket(p) : p \in QueuedPaths}' = {Ticket(p) : p \in QueuedPaths}
      BY <2>2 DEF Ticket, QueuedPaths, State
    <3>3. Line = {Ticket(p) : p \in QueuedPaths}
      BY <2>1, <3>1 DEF CacheInv, OwedExact
    <3> QED BY <2>1, <2>2, <2>3, <3>1, <3>2, <3>3 DEF OwedExact
  <2> QED BY <2>4, <2>5, <2>6 DEF CacheInv
<1>2. CASE UpdateReturns
  <2>1. /\ main = "NotifySpace" /\ main' = "Idle" /\ output' = NoResult
        /\ UNCHANGED <<accepted, running, stopRequested, managerRunning,
                       pendingPaths, nextRequestId>>
    BY <1>2 DEF UpdateReturns, PopNotifies, queues, flags
  <2>2. /\ running /\ ~stopRequested
        /\ output.path \in QueuedPaths /\ TicketOf(output) = Ticket(output.path)
        /\ ~IsStale(output)
        /\ \A ticket \in Line : ticket.path # output.path
    BY <2>1, NeverStale
  <2>3. resources \in [Paths -> Entries] /\ failedUploadCount \in Nat
    BY DEF CacheInv, CacheTypeOK
  <2>4. PICK state \in {"Ready", "Failed"} :
           resources' = [resources EXCEPT ![output.path].state = state]
    BY <1>2, <2>2 DEF UpdateReturns, Concluded
  <2>5. failedUploadCount' \in Nat
    BY <1>2, <2>3 DEF UpdateReturns
  <2>6. /\ output.path \in Paths /\ resources[output.path].requestId \in Nat
        /\ resources' = [resources EXCEPT ![output.path] =
              [state |-> state, requestId |-> resources[output.path].requestId]]
    <3>1. output.path \in Paths
      BY <2>2 DEF QueuedPaths
    <3>2. resources[output.path] \in Entries
      BY <2>3, <3>1
    <3>3. /\ resources[output.path].requestId \in Nat
          /\ [resources[output.path] EXCEPT !.state = state] =
                [state |-> state, requestId |-> resources[output.path].requestId]
      BY <3>2 DEF Entries
    <3>4. resources' = [resources EXCEPT ![output.path] =
                           [resources[output.path] EXCEPT !.state = state]]
      BY <2>4
    <3> QED BY <3>1, <3>3, <3>4
  <2>7. CacheTypeOK'
    <3>1. [state |-> state, requestId |-> resources[output.path].requestId] \in Entries
      BY <2>6 DEF Entries, States
    <3> QED BY <2>1, <2>3, <2>5, <2>6, <3>1 DEF CacheInv, CacheTypeOK
  <2>8. accepted = NoRequest /\ accepted' = NoRequest
    BY <2>1 DEF CacheInv, CallShape
  <2>9. CallShape'
    BY <2>1, <2>2, <2>8 DEF CacheInv, CallShape
  <2>10. OwedExact'
    <3>1. {Ticket(p) : p \in QueuedPaths}' =
             {Ticket(p) : p \in QueuedPaths \ {output.path}}
      <4>1. state \in States /\ state # "Queued"
        BY DEF States
      <4>2. {Ticket(p) : p \in QueuedPaths}' =
              {Ticket(p) : p \in QueuedPaths \ {output.path}}
                 \cup (IF state = "Queued"
                       THEN {[id |-> resources[output.path].requestId,
                              path |-> output.path]}
                       ELSE {})
        BY <2>3, <2>6, <4>1, QueuedTickets
      <4> QED BY <4>1, <4>2
    <3>2. /\ InUpdate = {Ticket(output.path)} /\ InUpdate' = {}
          /\ AboutToInsert = {} /\ AboutToInsert' = {}
      BY <2>1, <2>2, <2>8 DEF InUpdate, AboutToInsert, CacheInv, CallShape
    <3>3. Line' = Line
      BY <2>1, <2>2, Resting DEF CacheInv
    <3>4. Line \cup {Ticket(output.path)} = {Ticket(p) : p \in QueuedPaths}
      BY <2>2, <3>2 DEF CacheInv, OwedExact
    <3>5. \A p : Ticket(p).path = p
      BY DEF Ticket
    <3>6. {Ticket(p) : p \in QueuedPaths \ {output.path}} =
             {Ticket(p) : p \in QueuedPaths} \ {Ticket(output.path)}
      BY <2>2, <3>5
    <3>7. Ticket(output.path) \notin Line
      BY <2>2, <3>5
    <3>8. Line = {Ticket(p) : p \in QueuedPaths \ {output.path}}
      BY <3>4, <3>6, <3>7
    <3> QED BY <2>1, <2>8, <3>1, <3>2, <3>3, <3>8 DEF OwedExact
  <2> QED BY <2>7, <2>9, <2>10 DEF CacheInv
<1> QED BY <1>1, <1>2

(* Every step of the manager keeps what it and its loader owe each other. *)
LEMMA CacheInductive == CacheInv /\ [ManagerNext]_managerVars => CacheInv'
<1> SUFFICES ASSUME CacheInv, [ManagerNext]_managerVars
             PROVE  CacheInv'
  OBVIOUS
<1>1. [Next]_vars /\ IInv /\ IInv'
  BY LoaderSteps, Inductive DEF CacheInv
<1>2. CASE ManagerStart
  <2>1. /\ main = "Idle" /\ UNCHANGED <<main, accepted, output>>
        /\ resources' = EmptyCache /\ failedUploadCount' = 0
        /\ managerRunning' = running'
    BY <1>2 DEF ManagerStart, Start, callVars
  <2>2. accepted = NoRequest /\ output = NoResult
    BY <2>1 DEF CacheInv, CallShape
  <2>3. EmptyCache \in [Paths -> Entries]
    BY DEF EmptyCache, NoEntry, Entries, States
  <2>4. running' \in BOOLEAN
    BY <1>1 DEF IInv, TypeOK
  <2>5. CacheTypeOK' /\ CallShape'
    BY <2>1, <2>2, <2>3, <2>4 DEF CacheTypeOK, CallShape, EmptyCache
  <2>6. Line' = {}
    BY <1>1, <1>2, Starting DEF ManagerStart
  <2>7. InUpdate' = {} /\ AboutToInsert' = {}
    BY <2>1, <2>2 DEF InUpdate, AboutToInsert
  <2>8. QueuedPaths' = {}
    BY <2>1 DEF QueuedPaths, State, EmptyCache, NoEntry
  <2>9. {Ticket(p) : p \in QueuedPaths}' = {}
    BY <2>8
  <2>10. OwedExact'
    BY <2>1, <2>2, <2>6, <2>7, <2>9 DEF OwedExact
  <2> QED BY <1>1, <2>5, <2>10 DEF CacheInv
<1>3. CASE ManagerStop
  <2>1. /\ main = "Idle" /\ main' = "StopNotifyRequest" /\ stopRequested' = TRUE
        /\ UNCHANGED <<accepted, output, running, resources, managerRunning,
                       failedUploadCount>>
    BY <1>3 DEF ManagerStop, StopRequests, cacheVars
  <2> QED BY <1>1, <2>1
          DEF CacheInv, CacheTypeOK, CallShape, OwedExact, EmptyCache, Entries,
              States
<1>4. CASE ManagerStopReturns
  <2>1. /\ main = "StopClear" /\ main' = "Idle" /\ ~running'
        /\ UNCHANGED <<accepted, output, failedUploadCount>>
        /\ resources' = EmptyCache /\ ~managerRunning' /\ managerRunning' \in BOOLEAN
    BY <1>4 DEF ManagerStopReturns, StopClears
  <2>2. EmptyCache \in [Paths -> Entries]
    BY DEF EmptyCache, NoEntry, Entries, States
  <2>3. CacheTypeOK'
    BY <2>1, <2>2 DEF CacheInv, CacheTypeOK
  <2>4. CallShape'
    <3>1. EmptyCache' = EmptyCache /\ running' \in BOOLEAN
      BY <1>1 DEF EmptyCache, IInv, TypeOK
    <3> QED BY <2>1, <3>1 DEF CacheInv, CallShape
  <2>5. OwedExact'
    BY <2>1 DEF OwedExact
  <2> QED BY <1>1, <2>3, <2>4, <2>5 DEF CacheInv
<1>5. CASE /\ StopNotifiesRequest \/ StopNotifiesSpace \/ StopJoins
           /\ UNCHANGED cacheVars
  <2>1. /\ main \in StopPlaces /\ main' \in StopPlaces
        /\ UNCHANGED <<accepted, output, running, stopRequested>>
    BY <1>5 DEF StopNotifiesRequest, StopNotifiesSpace, StopJoins, StopPlaces,
                flags
  <2>2. stopRequested
    BY <1>1, <2>1, OpenSession
  <2> QED BY <1>1, <1>5, <2>1, <2>2, QuietStep
<1>6. CASE WorkerOrWakeup
  BY <1>1, <1>6, QuietStep
  DEF WorkerOrWakeup, WorkerSteps, WorkerStarts, WorkerSleepsForRequest,
      WorkerTakesRequest, WorkerStopsIdle, WorkerDecodes, WorkerRetests,
      SpuriousWakeup, callVars, flags, queues
<1>7. CASE UNCHANGED managerVars
  BY <1>1, <1>7, QuietStep DEF managerVars, vars, callVars, flags, queues
<1> QED
  BY <1>1, <1>2, <1>3, <1>4, <1>5, <1>6, <1>7, RequestSteps, UpdateSteps
  DEF ManagerNext, ManagerContinues

(* The invariant of the cache holds in the initial states. *)
LEMMA CacheInitially == ManagerInit => CacheInv
<1> SUFFICES ASSUME ManagerInit PROVE CacheInv
  OBVIOUS
<1>1. IInv
  BY Initially DEF ManagerInit
<1>2. /\ ~running /\ main = "Idle" /\ accepted = NoRequest /\ output = NoResult
      /\ resources = EmptyCache /\ managerRunning = FALSE
      /\ failedUploadCount = 0 /\ running = FALSE
  BY DEF ManagerInit, Init
<1>3. EmptyCache \in [Paths -> Entries]
  BY DEF EmptyCache, NoEntry, Entries, States
<1> QED BY <1>1, <1>2, <1>3 DEF CacheInv, CacheTypeOK, CallShape, OwedExact

(* It holds in every state of every run of the manager. *)
LEMMA CacheInvariance == ManagerSpec => []CacheInv
BY CacheInitially, CacheInductive, PTL DEF ManagerSpec

(* The cache's variables, and the loader's under it, keep their types. *)
THEOREM ManagerTypeCorrect == ManagerSpec => []ManagerTypeOK
<1>1. CacheInv => ManagerTypeOK
  BY DEF CacheInv, IInv, CacheTypeOK, ManagerTypeOK
<1> QED BY <1>1, CacheInvariance, PTL

(* An entry of the cache is Queued exactly while the loader owes its       *)
(* result, under the id the entry carries, in every run of the manager.    *)
THEOREM QueuedAlwaysOwed == ManagerSpec => []QueuedIsOwed
<1>1. CacheInv => QueuedIsOwed
  <2> SUFFICES ASSUME CacheInv, managerRunning, ~stopRequested
               PROVE  Owed \ AboutToInsert =
                         {[id |-> resources[path].requestId, path |-> path] :
                            path \in {p \in Paths : State(p) = "Queued"}}
                           \ AboutToInsert
    BY DEF QueuedIsOwed
  <2>1. Line \cup InUpdate = {Ticket(path) : path \in QueuedPaths}
                                 \cup AboutToInsert
    BY DEF CacheInv, CallShape, OwedExact
  <2>2. Owed = Line \cup InUpdate
    BY DEF Owed, Line, InUpdate
  <2>3. {Ticket(path) : path \in QueuedPaths} =
            {[id |-> resources[path].requestId, path |-> path] :
                path \in {p \in Paths : State(p) = "Queued"}}
    BY DEF Ticket, QueuedPaths
  <2> QED BY <2>1, <2>2, <2>3
<1> QED BY <1>1, CacheInvariance, PTL

(* No result Update takes from the loader is dropped as unknown or stale:  *)
(* the test for it in Update never fires.                                  *)
THEOREM NoResultDropped ==
    ManagerSpec => [](output # NoResult => ~IsStale(output))
<1>1. CacheInv => (output # NoResult => ~IsStale(output))
  BY NeverStale DEF CacheInv, CallShape
<1> QED BY <1>1, CacheInvariance, PTL

(* Only a stop takes a Ready texture away. *)
LEMMA ReadyStays ==
    CacheInv /\ [ManagerNext]_managerVars =>
        \A path \in Paths : State(path) = "Ready" /\ managerRunning' =>
            resources'[path] = resources[path]
<1> SUFFICES ASSUME CacheInv, [ManagerNext]_managerVars, NEW path \in Paths,
                    State(path) = "Ready", managerRunning'
             PROVE  resources'[path] = resources[path]
  OBVIOUS
<1>1. CASE ManagerStart
  <2>1. resources = EmptyCache
    BY <1>1 DEF ManagerStart, CacheInv, CallShape
  <2> QED BY <2>1 DEF State, EmptyCache, NoEntry
<1>2. CASE RequestAsyncReturns
  <2>1. /\ main = "NotifyRequest"
        /\ resources' = [resources EXCEPT ![accepted.path] =
                            [state |-> "Queued", requestId |-> accepted.id]]
    BY <1>2 DEF RequestAsyncReturns, RequestNotifies
  <2>2. State(accepted.path) # "Ready"
    BY <2>1, OpenSession DEF CacheInv, CallShape, OwedExact
  <2> QED BY <2>1, <2>2 DEF CacheInv, CacheTypeOK
<1>3. CASE UpdateReturns
  <2>1. output.path \in QueuedPaths
    BY <1>3, NeverStale DEF UpdateReturns, PopNotifies
  <2>2. output.path # path
    BY <2>1 DEF QueuedPaths
  <2>3. \A state : Concluded(output, state)[path] = resources[path]
    BY <2>2 DEF Concluded, CacheInv, CacheTypeOK
  <2> QED BY <1>3, <2>3 DEF UpdateReturns
<1> QED
  BY <1>1, <1>2, <1>3
  DEF managerVars, ManagerNext, RequestAsync, Update, ManagerStop, ManagerContinues,
      ManagerStopReturns, WorkerOrWakeup, cacheVars

(* A Ready texture stays as it is until the manager is stopped. *)
THEOREM ReadyAlwaysKept == ManagerSpec => ReadyIsKept
<1>1. CacheInv /\ [ManagerNext]_managerVars =>
         [\A path \in Paths :
            State(path) = "Ready" /\ managerRunning' =>
               resources'[path] = resources[path]]_managerVars
  BY ReadyStays
<1> QED BY <1>1, CacheInvariance, PTL DEF ManagerSpec, ReadyIsKept

-----------------------------------------------------------------------------
(* How many requests are not decided yet *)

(* The paths of a queue after an append, and after its head was taken. *)
LEMMA PathsMove ==
    ASSUME NEW S, NEW items \in Seq(S)
    PROVE  /\ \A new \in S : PathsOf(Append(items, new)) = PathsOf(items) \cup {new.path}
           /\ items # <<>> =>
                 PathsOf(items) = PathsOf(Tail(items)) \cup {Head(items).path}
<1> DEFINE n == Len(items)
<1>1. ASSUME NEW new \in S
      PROVE  PathsOf(Append(items, new)) = PathsOf(items) \cup {new.path}
  <2> DEFINE more == Append(items, new)
  <2>1. /\ Len(more) = n + 1 /\ n \in Nat /\ more[n + 1] = new
        /\ \A i \in 1..n : more[i] = items[i]
    OBVIOUS
  <2> HIDE DEF more, n
  <2>2. 1..(n + 1) = 1..n \cup {n + 1}
    BY <2>1
  <2>3. PathsOf(more) = {more[i].path : i \in 1..n} \cup {new.path}
    BY <2>1, <2>2 DEF PathsOf
  <2>4. PathsOf(items) = {more[i].path : i \in 1..n}
    BY <2>1 DEF PathsOf, n
  <2> QED BY <2>3, <2>4 DEF more
<1>2. ASSUME items # <<>>
      PROVE  PathsOf(items) = PathsOf(Tail(items)) \cup {Head(items).path}
  <2> DEFINE rest == Tail(items)
  <2>1. /\ n \in Nat \ {0} /\ Len(rest) = n - 1 /\ items[1] = Head(items)
        /\ \A i \in 1..(n - 1) : rest[i] = items[i + 1]
    BY <1>2
  <2> HIDE DEF rest, n
  <2>2. \A i \in 1..n : i = 1 \/ (i - 1 \in 1..(n - 1) /\ i = (i - 1) + 1)
    BY <2>1
  <2>3. 1 \in 1..n /\ \A i \in 1..(n - 1) : i + 1 \in 1..n
    BY <2>1
  <2>4. /\ PathsOf(items) = {items[i].path : i \in 1..n}
        /\ PathsOf(rest) = {rest[i].path : i \in 1..(n - 1)}
    BY <2>1 DEF PathsOf, n
  <2>5. ASSUME NEW path \in PathsOf(items)
        PROVE  path \in PathsOf(rest) \cup {Head(items).path}
    <3>1. PICK i \in 1..n : path = items[i].path
      BY <2>4
    <3>2. CASE i = 1
      BY <2>1, <3>1, <3>2
    <3>3. CASE i - 1 \in 1..(n - 1) /\ i = (i - 1) + 1
      <4>1. path = rest[i - 1].path
        BY <2>1, <3>1, <3>3
      <4> QED BY <2>4, <3>3, <4>1
    <3> QED BY <2>2, <3>2, <3>3
  <2>6. ASSUME NEW path \in PathsOf(rest) PROVE path \in PathsOf(items)
    <3>1. PICK i \in 1..(n - 1) : path = rest[i].path
      BY <2>4
    <3>2. path = items[i + 1].path /\ i + 1 \in 1..n
      BY <2>1, <2>3, <3>1
    <3> QED BY <2>4, <3>2
  <2>7. Head(items).path \in PathsOf(items)
    BY <2>1, <2>3, <2>4
  <2> QED BY <2>5, <2>6, <2>7 DEF rest
<1> QED BY <1>1, <1>2

(* The same for the results that hold an image. *)
LEMMA ImagesMove ==
    ASSUME NEW S, NEW results \in Seq(S)
    PROVE  /\ \A new \in S : ImagesOf(Append(results, new)) =
                 ImagesOf(results) \cup (IF new.image.succeeded THEN {new.path} ELSE {})
           /\ results # <<>> =>
                 ImagesOf(results) = ImagesOf(Tail(results))
                     \cup (IF Head(results).image.succeeded
                           THEN {Head(results).path} ELSE {})
<1> DEFINE n == Len(results)
<1>1. ASSUME NEW new \in S
      PROVE  ImagesOf(Append(results, new)) =
                ImagesOf(results) \cup (IF new.image.succeeded THEN {new.path} ELSE {})
  <2> DEFINE more == Append(results, new)
  <2>1. /\ Len(more) = n + 1 /\ n \in Nat /\ more[n + 1] = new
        /\ \A i \in 1..n : more[i] = results[i]
    OBVIOUS
  <2> HIDE DEF more, n
  <2>2. 1..(n + 1) = 1..n \cup {n + 1}
    BY <2>1
  <2>3. ImagesOf(more) = {more[i].path : i \in {j \in 1..n : more[j].image.succeeded}}
                            \cup (IF new.image.succeeded THEN {new.path} ELSE {})
    BY <2>1, <2>2 DEF ImagesOf
  <2>4. ImagesOf(results) = {more[i].path : i \in {j \in 1..n : more[j].image.succeeded}}
    BY <2>1 DEF ImagesOf, n
  <2> QED BY <2>3, <2>4 DEF more
<1>2. ASSUME results # <<>>
      PROVE  ImagesOf(results) = ImagesOf(Tail(results))
                \cup (IF Head(results).image.succeeded
                      THEN {Head(results).path} ELSE {})
  <2> DEFINE rest == Tail(results)
  <2>1. /\ n \in Nat \ {0} /\ Len(rest) = n - 1 /\ results[1] = Head(results)
        /\ \A i \in 1..(n - 1) : rest[i] = results[i + 1]
    BY <1>2
  <2> HIDE DEF rest, n
  <2>2. \A i \in 1..n : i = 1 \/ (i - 1 \in 1..(n - 1) /\ i = (i - 1) + 1)
    BY <2>1
  <2>3. 1 \in 1..n /\ \A i \in 1..(n - 1) : i + 1 \in 1..n
    BY <2>1
  <2>4. /\ \A path : path \in ImagesOf(results) <=>
              \E i \in 1..n : results[i].image.succeeded /\ path = results[i].path
        /\ \A path : path \in ImagesOf(rest) <=>
              \E i \in 1..(n - 1) : rest[i].image.succeeded /\ path = rest[i].path
    BY <2>1 DEF ImagesOf, n
  <2>5. ASSUME NEW path \in ImagesOf(results)
        PROVE  \/ path \in ImagesOf(rest)
               \/ Head(results).image.succeeded /\ path = Head(results).path
    <3>1. PICK i \in 1..n : results[i].image.succeeded /\ path = results[i].path
      BY <2>4
    <3>2. CASE i = 1
      BY <2>1, <3>1, <3>2
    <3>3. CASE i - 1 \in 1..(n - 1) /\ i = (i - 1) + 1
      <4>1. path = rest[i - 1].path /\ rest[i - 1].image.succeeded
        BY <2>1, <3>1, <3>3
      <4> QED BY <2>4, <3>3, <4>1
    <3> QED BY <2>2, <3>2, <3>3
  <2>6. ASSUME NEW path \in ImagesOf(rest) PROVE path \in ImagesOf(results)
    <3>1. PICK i \in 1..(n - 1) : rest[i].image.succeeded /\ path = rest[i].path
      BY <2>4
    <3>2. /\ results[i + 1].image.succeeded /\ path = results[i + 1].path
          /\ i + 1 \in 1..n
      BY <2>1, <2>3, <3>1
    <3> QED BY <2>4, <3>2
  <2>7. Head(results).image.succeeded => Head(results).path \in ImagesOf(results)
    BY <2>1, <2>3, <2>4
  <2> QED BY <2>5, <2>6, <2>7 DEF rest
<1> QED BY <1>1, <1>2

(* Everything undecided is on the line or in Update's hands; the request   *)
(* the worker holds shares its path with no other on the line.             *)
LEMMA Apart ==
    ASSUME IInv, ~stopRequested
    PROVE  /\ PathsOf(requestQueue) \subseteq pendingPaths
           /\ ImagesOf(completedQueue) \subseteq pendingPaths
           /\ InWork \subseteq pendingPaths
           /\ Holding => /\ request.path \notin PathsOf(requestQueue)
                         /\ request.path \notin ImagesOf(completedQueue)
           /\ pendingPaths = {ticket.path : ticket \in Line}
<1> DEFINE c == Len(completedQueue)
           h == Len(InHand)
           q == Len(requestQueue)
           n == Len(Outstanding)
<1>1. /\ completedQueue \in Seq(Results) /\ requestQueue \in Seq(Requests)
      /\ InHand \in Seq(Requests) /\ h = Busy /\ Busy \in 0..1
      /\ Holding => InHand[1] = request /\ h = 1
  BY HandPlaces DEF IInv, TypeOK, Busy
<1>2. /\ n = c + h + q
      /\ \A i \in 1..c : Outstanding[i] = TicketOf(completedQueue[i])
      /\ \A i \in 1..h : Outstanding[c + i] = InHand[i]
      /\ \A i \in 1..q : Outstanding[c + h + i] = requestQueue[i]
  <2> HIDE DEF h, c, q, n
  <2>1. /\ Len(LineUp(completedQueue, InHand, requestQueue)) = c + h + q
        /\ \A i \in 1..c : LineUp(completedQueue, InHand, requestQueue)[i]
                              = TicketOf(completedQueue[i])
        /\ \A i \in 1..h : LineUp(completedQueue, InHand, requestQueue)[c + i]
                              = InHand[i]
        /\ \A i \in 1..q : LineUp(completedQueue, InHand, requestQueue)[c + h + i]
                              = requestQueue[i]
    BY ONLY <1>1, LineUpPlaces DEF c, h, q
  <2> QED BY ONLY <2>1, OutstandingIsLine DEF n
<1>3. /\ pendingPaths = {Outstanding[i].path : i \in 1..n}
      /\ \A i, j \in 1..n : Outstanding[i].path = Outstanding[j].path => i = j
  BY DEF IInv, PendingExact
<1>4. c \in Nat /\ q \in Nat /\ h \in 0..1
  BY <1>1
<1>5. \A item : TicketOf(item).path = item.path
  BY DEF TicketOf
<1> HIDE DEF n, c, h, q
<1>6. /\ \A i \in 1..c : i \in 1..n
      /\ \A i \in 1..h : c + i \in 1..n
      /\ \A i \in 1..q : c + h + i \in 1..n
  BY <1>2, <1>4
<1>7. PathsOf(requestQueue) \subseteq pendingPaths
  <2> SUFFICES ASSUME NEW path \in PathsOf(requestQueue) PROVE path \in pendingPaths
    OBVIOUS
  <2>1. PICK i \in 1..q : path = requestQueue[i].path
    BY DEF PathsOf, q
  <2>2. path = Outstanding[c + h + i].path /\ c + h + i \in 1..n
    BY <1>2, <1>6, <2>1
  <2> QED BY <1>3, <2>2
<1>8. ASSUME NEW path \in ImagesOf(completedQueue)
      PROVE  \E i \in 1..c : path = Outstanding[i].path
  <2>1. PICK i \in 1..c : path = completedQueue[i].path
    BY DEF ImagesOf, c
  <2>2. path = Outstanding[i].path
    BY <1>2, <1>5, <2>1
  <2> QED BY <2>2
<1>9. ImagesOf(completedQueue) \subseteq pendingPaths
  BY <1>3, <1>6, <1>8
<1>10. Holding => /\ c + 1 \in 1..n /\ Outstanding[c + 1].path = request.path
                  /\ h = 1
  <2>1. Holding => 1 \in 1..h
    BY <1>1
  <2> QED BY <1>1, <1>2, <1>6, <2>1
<1>11. InWork \subseteq pendingPaths
  BY <1>3, <1>10 DEF InWork
<1>12. ASSUME Holding PROVE request.path \notin ImagesOf(completedQueue)
  <2> SUFFICES ASSUME request.path \in ImagesOf(completedQueue) PROVE FALSE
    OBVIOUS
  <2>1. PICK i \in 1..c : request.path = Outstanding[i].path
    BY <1>8
  <2>2. i = c + 1
    BY <1>3, <1>6, <1>10, <1>12, <2>1
  <2> QED BY <1>4, <2>2
<1>13. ASSUME Holding PROVE request.path \notin PathsOf(requestQueue)
  <2> SUFFICES ASSUME request.path \in PathsOf(requestQueue) PROVE FALSE
    OBVIOUS
  <2>1. PICK i \in 1..q : request.path = requestQueue[i].path
    BY DEF PathsOf, q
  <2>2. request.path = Outstanding[c + h + i].path /\ c + h + i \in 1..n
    BY <1>2, <1>6, <2>1
  <2>3. c + h + i = c + 1
    BY <1>3, <1>10, <1>13, <2>2
  <2> QED BY <1>4, <1>10, <1>13, <2>3
<1>14. pendingPaths = {ticket.path : ticket \in Line}
  BY <1>3 DEF Line, n
<1> QED BY <1>7, <1>9, <1>11, <1>12, <1>13, <1>14

(* What a step does to the undecided requests: nothing,... *)
CountsRest ==
    /\ UndecidedPaths' = UndecidedPaths /\ ReadyPaths' = ReadyPaths
    /\ UNCHANGED <<nextRequestId, failedRequestCount, failedUploadCount>>

(* ...one more is accepted,... *)
CountsGrow(path) ==
    /\ path \notin UndecidedPaths /\ UndecidedPaths' = UndecidedPaths \cup {path}
    /\ nextRequestId' = nextRequestId + 1 /\ ReadyPaths' = ReadyPaths
    /\ UNCHANGED <<failedRequestCount, failedUploadCount>>

(* ...or one is decided, and counted once. *)
CountsDecide(path) ==
    /\ path \in UndecidedPaths /\ UndecidedPaths' = UndecidedPaths \ {path}
    /\ UNCHANGED nextRequestId
    /\ \/ /\ path \notin ReadyPaths /\ ReadyPaths' = ReadyPaths \cup {path}
          /\ UNCHANGED <<failedRequestCount, failedUploadCount>>
       \/ /\ ReadyPaths' = ReadyPaths /\ UNCHANGED failedUploadCount
          /\ failedRequestCount' = failedRequestCount + 1
       \/ /\ ReadyPaths' = ReadyPaths /\ UNCHANGED failedRequestCount
          /\ failedUploadCount' = failedUploadCount + 1

(* Each of them keeps the account of the requests. *)
LEMMA CountsAddUp ==
    ASSUME IInv, CacheTypeOK, RequestsCounted, running, ~stopRequested,
           CountsRest \/ (\E path : CountsGrow(path) \/ CountsDecide(path))
    PROVE  RequestsCounted'
<1> DEFINE ready == Cardinality(ReadyPaths)
           open == Cardinality(UndecidedPaths)
<1>1. /\ IsFiniteSet(ReadyPaths) /\ IsFiniteSet(UndecidedPaths)
      /\ nextRequestId - 1 =
              ready + failedRequestCount + failedUploadCount + open
  BY DEF RequestsCounted
<1>2. ready \in Nat /\ open \in Nat
  BY <1>1, FS_CardinalityType
<1>3. /\ failedRequestCount \in Nat /\ failedUploadCount \in Nat
      /\ nextRequestId \in Nat
  BY DEF IInv, TypeOK, CacheTypeOK
<1> HIDE DEF ready, open
<1>4. CASE CountsRest
  <2>1. /\ IsFiniteSet(ReadyPaths') /\ Cardinality(ReadyPaths') = ready
        /\ IsFiniteSet(UndecidedPaths') /\ Cardinality(UndecidedPaths') = open
    BY <1>1, <1>4 DEF CountsRest, ready, open
  <2> QED BY <1>1, <1>2, <1>3, <1>4, <2>1 DEF CountsRest, RequestsCounted
<1>5. ASSUME NEW path, CountsGrow(path) PROVE RequestsCounted'
  <2>1. IsFiniteSet(UndecidedPaths') /\ Cardinality(UndecidedPaths') = open + 1
    BY <1>1, <1>5, FS_AddElement DEF CountsGrow, open
  <2>2. IsFiniteSet(ReadyPaths') /\ Cardinality(ReadyPaths') = ready
    BY <1>1, <1>5 DEF CountsGrow, ready
  <2> QED BY <1>1, <1>2, <1>3, <1>5, <2>1, <2>2 DEF CountsGrow, RequestsCounted
<1>6. ASSUME NEW path, CountsDecide(path) PROVE RequestsCounted'
  <2>1. IsFiniteSet(UndecidedPaths') /\ Cardinality(UndecidedPaths') = open - 1
    BY <1>1, <1>6, FS_RemoveElement DEF CountsDecide, open
  <2>2. CASE /\ path \notin ReadyPaths /\ ReadyPaths' = ReadyPaths \cup {path}
             /\ UNCHANGED <<failedRequestCount, failedUploadCount>>
    <3>1. IsFiniteSet(ReadyPaths') /\ Cardinality(ReadyPaths') = ready + 1
      BY <1>1, <2>2, FS_AddElement DEF ready
    <3> QED BY <1>1, <1>2, <1>3, <1>6, <2>1, <2>2, <3>1
            DEF CountsDecide, RequestsCounted
  <2>3. CASE ReadyPaths' = ReadyPaths
    <3>1. IsFiniteSet(ReadyPaths') /\ Cardinality(ReadyPaths') = ready
      BY <1>1, <2>3 DEF ready
    <3>2. CASE /\ UNCHANGED failedUploadCount
               /\ failedRequestCount' = failedRequestCount + 1
      BY <1>1, <1>2, <1>3, <1>6, <2>1, <3>1, <3>2
      DEF CountsDecide, RequestsCounted
    <3>3. CASE /\ UNCHANGED failedRequestCount
               /\ failedUploadCount' = failedUploadCount + 1
      BY <1>1, <1>2, <1>3, <1>6, <2>1, <3>1, <3>3
      DEF CountsDecide, RequestsCounted
    <3>4. CASE path \notin ReadyPaths /\ ReadyPaths' = ReadyPaths \cup {path}
      BY <2>3, <3>4
    <3> QED BY <1>6, <3>2, <3>3, <3>4 DEF CountsDecide
  <2> QED BY <1>6, <2>2, <2>3 DEF CountsDecide
<1> QED BY <1>4, <1>5, <1>6

(* What the worker does with the request in its hand once it is decoded. *)
LEMMA HandOverCounts ==
    ASSUME IInv, running, ~stopRequested, Holding, NEW decoded \in Images,
           HandOver(decoded),
           UNCHANGED <<requestQueue, output, resources, nextRequestId,
                       failedUploadCount>>
    PROVE  /\ ReadyPaths' = ReadyPaths
           /\ decoded.succeeded =>
                 UndecidedPaths' = UndecidedPaths \cup {request.path}
           /\ ~decoded.succeeded =>
                 UndecidedPaths' = PathsOf(requestQueue)
                     \cup ImagesOf(completedQueue) \cup InUpload
<1>1. ReadyPaths' = ReadyPaths /\ InUpload' = InUpload
      /\ PathsOf(requestQueue)' = PathsOf(requestQueue)
  BY DEF ReadyPaths, State, InUpload, PathsOf
<1>2. InWork = {} \/ InWork = {request.path}
  BY DEF InWork
<1>3. CASE /\ completedQueue' =
                Append(completedQueue, [id |-> request.id, path |-> request.path,
                                        image |-> decoded])
           /\ worker' = "RequestTest"
  <2> DEFINE new == [id |-> request.id, path |-> request.path, image |-> decoded]
  <2>1. new \in Results /\ new.path = request.path /\ new.image = decoded
    BY DEF IInv, HoldsRequest, Requests, Results
  <2>2. completedQueue \in Seq(Results)
    BY DEF IInv, TypeOK
  <2> HIDE DEF new
  <2>3. ImagesOf(Append(completedQueue, new)) =
           ImagesOf(completedQueue) \cup (IF new.image.succeeded THEN {new.path} ELSE {})
    BY ONLY <2>1, <2>2, ImagesMove
  <2>4. ImagesOf(completedQueue') = ImagesOf(completedQueue)
           \cup (IF decoded.succeeded THEN {request.path} ELSE {})
    BY <1>3, <2>1, <2>3 DEF new
  <2>5. InWork' = {}
    BY <1>3 DEF InWork, Holding
  <2> QED BY <1>1, <1>2, <2>4, <2>5 DEF UndecidedPaths
<1>4. CASE /\ worker' = "SpaceWait" /\ image' = decoded
           /\ UNCHANGED <<completedQueue, request>>
  <2>1. InWork' = (IF decoded.succeeded THEN {request.path} ELSE {})
    BY <1>4 DEF InWork, Holding
  <2>2. ImagesOf(completedQueue') = ImagesOf(completedQueue)
    BY <1>4
  <2> QED BY <1>1, <1>2, <2>1, <2>2 DEF UndecidedPaths
<1> QED BY <1>3, <1>4 DEF HandOver

(* What the steps of the worker do to the undecided requests. *)
LEMMA WorkerCounts ==
    ASSUME CacheInv, running, ~stopRequested, WorkerOrWakeup
    PROVE  CountsRest \/ (\E path : CountsDecide(path))
<1>1. /\ UNCHANGED <<output, resources, nextRequestId, failedUploadCount>>
      /\ ReadyPaths' = ReadyPaths /\ InUpload' = InUpload
  BY DEF WorkerOrWakeup, WorkerSteps, WorkerStarts, WorkerSleepsForRequest,
         WorkerTakesRequest, WorkerStopsIdle, WorkerDecodes, WorkerRetests,
         SpuriousWakeup, callVars, queues, cacheVars, ReadyPaths, State, InUpload
<1> IInv
  BY DEF CacheInv
<1>2. CASE WorkerStarts \/ WorkerSleepsForRequest \/ SpuriousWakeup
  <2>1. /\ UNCHANGED <<requestQueue, completedQueue, request, image,
                       failedRequestCount>>
        /\ Holding' = Holding
        /\ Holding => worker # "Decoding" /\ worker' # "Decoding"
    BY <1>2 DEF WorkerStarts, WorkerSleepsForRequest, SpuriousWakeup, queues,
                counters, Holding
  <2>2. InWork' = InWork
    BY <2>1 DEF InWork
  <2> QED BY <1>1, <2>1, <2>2 DEF CountsRest, UndecidedPaths
<1>3. CASE WorkerStopsIdle
  BY <1>3 DEF WorkerStopsIdle
<1>4. CASE WorkerTakesRequest
  <2>1. /\ requestQueue # <<>> /\ request' = Head(requestQueue)
        /\ requestQueue' = Tail(requestQueue)
        /\ worker = "RequestTest" /\ worker' = "Decoding"
        /\ UNCHANGED <<completedQueue, failedRequestCount>>
    BY <1>4 DEF WorkerTakesRequest, counters
  <2>2. requestQueue \in Seq(Requests)
    BY DEF IInv, TypeOK
  <2>3. PathsOf(requestQueue) = PathsOf(Tail(requestQueue)) \cup {Head(requestQueue).path}
    BY ONLY <2>1, <2>2, PathsMove
  <2>4. InWork = {} /\ InWork' = {request'.path}
    BY <2>1 DEF InWork, Holding
  <2> QED BY <1>1, <2>1, <2>3, <2>4 DEF CountsRest, UndecidedPaths
<1>5. CASE WorkerDecodes
  <2>1. PICK decoded \in Images :
           /\ failedRequestCount' =
                failedRequestCount + (IF decoded.succeeded THEN 0 ELSE 1)
           /\ HandOver(decoded)
    BY <1>5 DEF WorkerDecodes
  <2>2. UNCHANGED requestQueue /\ Holding /\ InWork = {request.path}
        /\ failedRequestCount \in Nat
    BY <1>5 DEF WorkerDecodes, Holding, InWork, IInv, TypeOK
  <2>3. /\ decoded.succeeded =>
              UndecidedPaths' = UndecidedPaths \cup {request.path}
        /\ ~decoded.succeeded =>
              UndecidedPaths' = PathsOf(requestQueue)
                  \cup ImagesOf(completedQueue) \cup InUpload
    BY <1>1, <2>1, <2>2, HandOverCounts
  <2>4. CASE decoded.succeeded
    BY <1>1, <2>1, <2>2, <2>3, <2>4 DEF CountsRest, UndecidedPaths
  <2>5. CASE ~decoded.succeeded
    <3>1. /\ request.path \notin PathsOf(requestQueue)
          /\ request.path \notin ImagesOf(completedQueue)
          /\ request.path \in pendingPaths
      BY <2>2, Apart
    <3>2. request.path \notin InUpload
      <4>1. PICK ticket \in Line : ticket.path = request.path
        BY <2>2, <3>1, Apart
      <4>2. output # NoResult => ticket.path # output.path
        BY DEF CacheInv, OwedExact
      <4> QED BY <4>1, <4>2 DEF InUpload, NoResult, NoImage
    <3>3. CountsDecide(request.path)
      BY <1>1, <2>1, <2>2, <2>3, <2>5, <3>1, <3>2 DEF CountsDecide, UndecidedPaths
    <3> QED BY <3>3
  <2> QED BY <2>4, <2>5
<1>6. CASE WorkerRetests
  <2>1. /\ HandOver(image) /\ image \in Images /\ Holding /\ worker = "SpaceTest"
        /\ UNCHANGED <<requestQueue, failedRequestCount>>
    BY <1>6 DEF WorkerRetests, Holding, IInv, TypeOK
  <2>2. InWork = IF image.succeeded THEN {request.path} ELSE {}
    BY <2>1 DEF InWork
  <2>3. /\ image.succeeded =>
              UndecidedPaths' = UndecidedPaths \cup {request.path}
        /\ ~image.succeeded =>
              UndecidedPaths' = PathsOf(requestQueue)
                  \cup ImagesOf(completedQueue) \cup InUpload
    BY <1>1, <2>1, HandOverCounts
  <2>4. UndecidedPaths' = UndecidedPaths
    BY <2>2, <2>3 DEF UndecidedPaths
  <2> QED BY <1>1, <2>1, <2>4 DEF CountsRest
<1> QED BY <1>2, <1>3, <1>4, <1>5, <1>6 DEF WorkerOrWakeup, WorkerSteps

(* What the calls of the main thread do to the undecided requests. *)
LEMMA CallCounts ==
    ASSUME CacheInv, CacheInv', [Next]_vars, running, ~stopRequested,
           \/ (\E name \in Names : RequestAsync(name)) \/ RequestAsyncReturns
           \/ Update \/ UpdateReturns
    PROVE  CountsRest \/ (\E path : CountsGrow(path) \/ CountsDecide(path))
<1> IInv
  BY DEF CacheInv
<1>1. ASSUME NEW name \in Names, RequestAsync(name), RejectRequest(name)
      PROVE  CountsRest
  BY <1>1
  DEF RequestAsync, RejectRequest, queues, flags, workerVars, callVars, cacheVars,
      CountsRest, UndecidedPaths, PathsOf, ImagesOf, InWork, InUpload, Holding,
      ReadyPaths, State
<1>2. ASSUME NEW name \in Names, RequestAsync(name), AcceptRequest(name)
      PROVE  \E path : CountsGrow(path)
  <2> DEFINE path == NormalizePath(name)
             new == [id |-> nextRequestId, path |-> path]
  <2>1. /\ main = "Idle" /\ path \notin pendingPaths
        /\ path \in Paths /\ nextRequestId \in Nat
        /\ requestQueue' = Append(requestQueue, new)
        /\ nextRequestId' = nextRequestId + 1
        /\ UNCHANGED <<completedQueue, failedRequestCount, worker, request,
                       image, output, resources, failedUploadCount>>
    <3>1. path \in Paths
      BY <1>2, ConstantFacts DEF AcceptRequest, Refuses
    <3> QED BY <1>2, <3>1 DEF RequestAsync, AcceptRequest, Refuses, counters,
                        workerVars, cacheVars, IInv, TypeOK
  <2>2. output = NoResult
    BY <2>1 DEF CacheInv, CallShape
  <2>3. InUpload = {} /\ InUpload' = {}
    BY <2>1, <2>2 DEF InUpload, NoResult, NoImage
  <2>4. path \notin UndecidedPaths
    BY <2>1, <2>3, Apart DEF UndecidedPaths
  <2>5. requestQueue \in Seq(Requests) /\ new \in Requests /\ new.path = path
    BY <2>1 DEF IInv, TypeOK, Requests
  <2> HIDE DEF path, new
  <2>6. PathsOf(Append(requestQueue, new)) = PathsOf(requestQueue) \cup {path}
    BY ONLY <2>5, PathsMove
  <2>7. InWork' = InWork /\ ReadyPaths' = ReadyPaths
        /\ ImagesOf(completedQueue') = ImagesOf(completedQueue)
    BY <2>1 DEF InWork, Holding, ReadyPaths, State
  <2>8. CountsGrow(path)
    BY <2>1, <2>3, <2>4, <2>6, <2>7 DEF CountsGrow, UndecidedPaths
  <2> QED BY <2>8
<1>3. CASE RequestAsyncReturns
  <2>1. /\ main = "NotifyRequest"
        /\ UNCHANGED <<requestQueue, completedQueue, nextRequestId,
                       failedRequestCount, request, image, output,
                       failedUploadCount>>
        /\ Holding' = Holding /\ (worker' = "Decoding" <=> worker = "Decoding")
        /\ resources' = [resources EXCEPT ![accepted.path] =
                            [state |-> "Queued", requestId |-> accepted.id]]
    BY <1>3 DEF RequestAsyncReturns, RequestNotifies, Notify, queues, counters,
                Holding
  <2>2. UndecidedPaths' = UndecidedPaths
    BY <2>1 DEF UndecidedPaths, PathsOf, ImagesOf, InWork, InUpload
  <2>3. State(accepted.path) \in {"Unloaded", "Failed"}
    BY <2>1 DEF CacheInv, CallShape, OwedExact
  <2>4. ReadyPaths' = ReadyPaths
    BY <2>1, <2>3 DEF ReadyPaths, State, CacheInv, CacheTypeOK
  <2> QED BY <2>1, <2>2, <2>4 DEF CountsRest
<1>4. CASE Update
  <2>1. /\ main = "Idle" /\ completedQueue # <<>>
        /\ output' = Head(completedQueue)
        /\ completedQueue' = Tail(completedQueue)
        /\ UNCHANGED <<requestQueue, nextRequestId, failedRequestCount, worker,
                       request, image, resources, failedUploadCount>>
    BY <1>4 DEF Update, TryPopCompleted, workerVars, cacheVars
  <2>2. output = NoResult
    BY <2>1 DEF CacheInv, CallShape
  <2>3. InUpload = {} /\ InUpload' = IF Head(completedQueue).image.succeeded
                                     THEN {Head(completedQueue).path} ELSE {}
    BY <2>1, <2>2 DEF InUpload, NoResult, NoImage
  <2>4. completedQueue \in Seq(Results)
    BY DEF IInv, TypeOK
  <2>5. ImagesOf(completedQueue) = ImagesOf(Tail(completedQueue))
            \cup (IF Head(completedQueue).image.succeeded
                  THEN {Head(completedQueue).path} ELSE {})
    BY ONLY <2>1, <2>4, ImagesMove
  <2>6. InWork' = InWork /\ ReadyPaths' = ReadyPaths
        /\ PathsOf(requestQueue') = PathsOf(requestQueue)
    BY <2>1 DEF InWork, Holding, ReadyPaths, State
  <2>7. UndecidedPaths' = UndecidedPaths
    BY <2>1, <2>3, <2>5, <2>6 DEF UndecidedPaths
  <2> QED BY <2>1, <2>6, <2>7 DEF CountsRest
<1>5. CASE UpdateReturns
  <2>1. /\ main = "NotifySpace" /\ output' = NoResult
        /\ UNCHANGED <<requestQueue, completedQueue, nextRequestId,
                       failedRequestCount, request, image>>
        /\ Holding' = Holding /\ (worker' = "Decoding" <=> worker = "Decoding")
    BY <1>5 DEF UpdateReturns, PopNotifies, Notify, queues, counters, Holding
  <2>2. /\ output.path \in QueuedPaths /\ ~IsStale(output)
        /\ \A ticket \in Line : ticket.path # output.path
    BY <2>1, NeverStale
  <2>3. /\ resources \in [Paths -> Entries] /\ failedUploadCount \in Nat
        /\ output.path \in Paths /\ State(output.path) = "Queued"
    BY <2>2 DEF CacheInv, CacheTypeOK, QueuedPaths
  <2>4. PICK uploaded \in BOOLEAN :
           /\ resources' = [resources EXCEPT ![output.path].state =
                               IF output.image.succeeded /\ uploaded
                               THEN "Ready" ELSE "Failed"]
           /\ failedUploadCount' = failedUploadCount +
                 (IF output.image.succeeded /\ ~uploaded THEN 1 ELSE 0)
    BY <1>5, <2>2 DEF UpdateReturns, Concluded
  <2>5. InUpload' = {}
    BY <2>1 DEF InUpload, NoResult, NoImage
  <2>6. UndecidedPaths' =
           PathsOf(requestQueue) \cup ImagesOf(completedQueue) \cup InWork
    BY <2>1, <2>5 DEF UndecidedPaths, PathsOf, ImagesOf, InWork
  <2>7. output.path \notin UndecidedPaths'
    <3>1. UndecidedPaths' \subseteq {ticket.path : ticket \in Line}
      BY <2>6, Apart
    <3> QED BY <2>2, <3>1
  <2>8. output.path \notin ReadyPaths
    BY <2>3 DEF ReadyPaths
  <2>9. ReadyPaths' = IF output.image.succeeded /\ uploaded
                      THEN ReadyPaths \cup {output.path} ELSE ReadyPaths
    <3>1. \A path \in Paths : State(path)' =
             IF path = output.path
             THEN IF output.image.succeeded /\ uploaded THEN "Ready" ELSE "Failed"
             ELSE State(path)
      BY <2>3, <2>4 DEF State, Entries
    <3>2. ReadyPaths' = {path \in Paths : State(path)' = "Ready"}
      BY DEF ReadyPaths
    <3> QED BY <2>3, <2>8, <3>1, <3>2 DEF ReadyPaths
  <2>10. CASE ~output.image.succeeded
    <3>1. UndecidedPaths' = UndecidedPaths
      BY <2>6, <2>10 DEF UndecidedPaths, InUpload
    <3> QED BY <2>1, <2>3, <2>4, <2>9, <2>10, <3>1 DEF CountsRest
  <2>11. CASE output.image.succeeded
    <3>1. /\ output.path \in UndecidedPaths
          /\ UndecidedPaths' = UndecidedPaths \ {output.path}
      BY <2>6, <2>7, <2>11 DEF UndecidedPaths, InUpload
    <3>2. CountsDecide(output.path)
      BY <2>1, <2>3, <2>4, <2>8, <2>9, <2>11, <3>1 DEF CountsDecide
    <3> QED BY <3>2
  <2> QED BY <2>10, <2>11
<1> QED BY <1>1, <1>2, <1>3, <1>4, <1>5 DEF RequestAsync

(* Every step of the manager keeps the account of the requests. *)
LEMMA CountInductive ==
    CacheInv /\ RequestsCounted /\ [ManagerNext]_managerVars => RequestsCounted'
<1> SUFFICES ASSUME CacheInv, RequestsCounted, [ManagerNext]_managerVars,
                    running', ~stopRequested'
             PROVE  RequestsCounted'
  BY DEF RequestsCounted
<1>1. [Next]_vars /\ CacheInv' /\ IInv /\ IInv' /\ CacheTypeOK
  BY LoaderSteps, CacheInductive, Inductive DEF CacheInv
<1>2. CASE ManagerStart
  <2>1. /\ main = "Idle" /\ UNCHANGED output /\ nextRequestId' = 1
        /\ failedRequestCount' = 0 /\ failedUploadCount' = 0
        /\ resources' = EmptyCache
    BY <1>2 DEF ManagerStart, Start, callVars
  <2>2. output' = NoResult
    BY <2>1 DEF CacheInv, CallShape
  <2>3. UndecidedPaths' = {}
    BY <1>1, <1>2, <2>2, Starting DEF ManagerStart, NoResult, NoImage
  <2>4. ReadyPaths' = {}
    BY <2>1 DEF ReadyPaths, State, EmptyCache, NoEntry
  <2> QED BY <2>1, <2>3, <2>4, FS_EmptySet DEF RequestsCounted
<1>3. CASE ManagerStop \/ ManagerStopReturns
  BY <1>3 DEF ManagerStop, StopRequests, ManagerStopReturns, StopClears
<1>4. CASE StopNotifiesRequest \/ StopNotifiesSpace \/ StopJoins
  <2>1. main \in StopPlaces /\ UNCHANGED stopRequested
    BY <1>4 DEF StopNotifiesRequest, StopNotifiesSpace, StopJoins, StopPlaces,
                flags
  <2> QED BY <1>1, <2>1, OpenSession
<1>5. CASE WorkerOrWakeup
  <2>1. running /\ ~stopRequested
    <3>1. UNCHANGED <<running, stopRequested>>
      BY <1>5 DEF WorkerOrWakeup, WorkerSteps, WorkerStarts, SpuriousWakeup,
                  WorkerSleepsForRequest, WorkerTakesRequest, WorkerStopsIdle,
                  WorkerDecodes, WorkerRetests, flags
    <3> QED BY <3>1
  <2> QED BY <1>1, <1>5, <2>1, WorkerCounts, CountsAddUp
<1>6. CASE \/ (\E name \in Names : RequestAsync(name)) \/ RequestAsyncReturns
           \/ Update \/ UpdateReturns
  <2>1. running /\ ~stopRequested
    <3>1. UNCHANGED <<running, stopRequested>>
      BY <1>6 DEF RequestAsync, AcceptRequest, RejectRequest, RequestAsyncReturns,
                  RequestNotifies, Update, TryPopCompleted, UpdateReturns,
                  PopNotifies, flags
    <3> QED BY <3>1
  <2> QED BY <1>1, <1>6, <2>1, CallCounts, CountsAddUp
<1>7. CASE UNCHANGED managerVars
  <2>1. running /\ ~stopRequested
    BY <1>7 DEF managerVars, vars, flags
  <2>2. CountsRest
    BY <1>7
    DEF managerVars, vars, flags, queues, counters, workerVars, callVars,
        cacheVars, CountsRest, UndecidedPaths, PathsOf, ImagesOf, InWork,
        InUpload, Holding, ReadyPaths, State
  <2> QED BY <1>1, <2>1, <2>2, CountsAddUp
<1> QED
  BY <1>2, <1>3, <1>4, <1>5, <1>6, <1>7 DEF ManagerNext, ManagerContinues

(* The invariant of the manager as a whole, in every state of every run. *)
THEOREM ManagerInvariance == ManagerSpec => []ManagerInv
<1>1. ManagerInit => RequestsCounted
  BY DEF ManagerInit, Init, RequestsCounted
<1>2. ManagerInv <=> CacheInv /\ RequestsCounted
  BY DEF ManagerInv, CacheInv
<1> QED BY <1>1, <1>2, CacheInitially, CacheInductive, CountInductive, PTL
        DEF ManagerSpec

(* Once nothing is under way, every request the session accepted is a      *)
(* Ready texture, a failed decode or a failed upload: the counters of the  *)
(* overlay agree with the cache in every run, however many requests it     *)
(* makes.                                                                  *)
THEOREM StatisticsAlwaysReconcile == ManagerSpec => []StatisticsReconcile
<1>1. ManagerInv => StatisticsReconcile
  <2> SUFFICES ASSUME ManagerInv, managerRunning, ~stopRequested, Owed = {}
               PROVE  nextRequestId - 1 =
                         Cardinality({path \in Paths : State(path) = "Ready"})
                             + failedRequestCount + failedUploadCount
    BY DEF StatisticsReconcile
  <2>1. IInv /\ CacheTypeOK /\ running
    BY DEF ManagerInv, CallShape
  <2>2. Line = {} /\ output = NoResult
    BY DEF Owed, Line
  <2>3. pendingPaths = {} /\ InUpload = {}
    BY <2>1, <2>2, Apart DEF InUpload, NoResult, NoImage
  <2>4. UndecidedPaths = {}
    BY <2>1, <2>3, Apart DEF UndecidedPaths
  <2>5. /\ IsFiniteSet(ReadyPaths)
        /\ nextRequestId - 1 =
              Cardinality(ReadyPaths) + failedRequestCount + failedUploadCount
                  + Cardinality(UndecidedPaths)
    BY <2>1 DEF ManagerInv, RequestsCounted
  <2>6. Cardinality(UndecidedPaths) = 0
    BY <2>4, FS_EmptySet
  <2>7. Cardinality(ReadyPaths) \in Nat
    BY <2>5, FS_CardinalityType
  <2>8. failedRequestCount \in Nat /\ failedUploadCount \in Nat
    BY <2>1 DEF IInv, TypeOK, CacheTypeOK
  <2> QED BY <2>5, <2>6, <2>7, <2>8 DEF ReadyPaths
<1> QED BY <1>1, ManagerInvariance, PTL

(* Under the cache the loader runs as specified: what is proved of the     *)
(* loader holds of it wherever the client uses it.                         *)
THEOREM LoaderUnderneath == ManagerSpec => Spec
<1>1. ManagerInit => Init
  BY DEF ManagerInit
<1> QED BY <1>1, LoaderSteps, PTL DEF ManagerSpec, Spec
=============================================================================
