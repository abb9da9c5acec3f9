------------------------ MODULE TextureResourceManager ------------------------
(***************************************************************************)
(* The texture cache of the client (Client/Rendering/                      *)
(* TextureResourceManager) on top of the loader: the main thread calls     *)
(* Start, RequestAsync, Update and Stop, and each of them runs the         *)
(* loader's call inside it.  The cache belongs to the main thread, so what *)
(* a call does to it after the loader's call returned is part of the step  *)
(* that returns.                                                           *)
(***************************************************************************)
EXTENDS AsyncTextureLoader, FiniteSets

VARIABLES
    resources,          \* resources_; a path without an entry is Unloaded
    managerRunning,     \* running_, and renderer_ # nullptr with it
    failedUploadCount   \* failedUploadCount_

cacheVars == <<resources, managerRunning, failedUploadCount>>
managerVars == <<vars, cacheVars>>

(* ReadyForUpload is only ever seen inside Update. *)
States == {"Unloaded", "Queued", "Ready", "Failed"}
NoEntry == [state |-> "Unloaded", requestId |-> 0]
Entries == [state : States, requestId : Nat]
EmptyCache == [path \in Paths |-> NoEntry]

ManagerInit ==
    /\ Init
    /\ resources = EmptyCache
    /\ managerRunning = FALSE
    /\ failedUploadCount = 0

State(path) == resources[path].state

ManagerStart ==
    /\ ~managerRunning
    /\ Start
    /\ resources' = EmptyCache
    /\ failedUploadCount' = 0
    /\ managerRunning' = running'

MutantRequestsAgain(path) == managerRunning /\ path # NoPath

(* RequestAsync returns false without any effect in the other cases. *)
MayRequest(path) ==
    /\ managerRunning
    /\ path # NoPath
    /\ State(path) \in {"Unloaded", "Failed"}

RequestAsync(name) ==
    /\ MayRequest(NormalizePath(name))
    /\ AcceptRequest(name) \/ RejectRequest(name)
    /\ UNCHANGED cacheVars

(* A bug: insert instead of insert_or_assign. *)
MutantInsertKeepsOld ==
    /\ RequestNotifies
    /\ resources' = IF State(accepted.path) = "Failed" THEN resources
                    ELSE [resources EXCEPT ![accepted.path] =
                      [state |-> "Queued", requestId |-> accepted.id]]
    /\ UNCHANGED <<managerRunning, failedUploadCount>>

(* The loader's Request has returned a ticket: insert_or_assign. *)
RequestAsyncReturns ==
    /\ RequestNotifies
    /\ resources' = [resources EXCEPT ![accepted.path] =
                        [state |-> "Queued", requestId |-> accepted.id]]
    /\ UNCHANGED <<managerRunning, failedUploadCount>>

(* Update hands at most one completed result to the GPU per call. *)
Update ==
    /\ managerRunning
    /\ TryPopCompleted
    /\ UNCHANGED cacheVars

IsStale(result) ==
    \/ State(result.path) = "Unloaded"
    \/ resources[result.path].requestId # result.id

MutantFailureForgotten(result, state) ==
    IF state = "Failed" THEN resources
    ELSE [resources EXCEPT ![result.path].state = state]

MutantLeavesReadyForUpload(result, state) ==
    IF IsStale(result) THEN resources
    ELSE [resources EXCEPT ![result.path].state =
             IF state = "Failed" THEN "ReadyForUpload" ELSE state]

(* An unknown path or an id that is not the entry's: the result is dropped. *)
Concluded(result, state) ==
    IF IsStale(result) THEN resources
    ELSE [resources EXCEPT ![result.path].state = state]

MutantUploadFailureUncounted ==
    /\ PopNotifies
    /\ \E uploaded \in BOOLEAN :
          resources' = Concluded(output, IF output.image.succeeded /\ uploaded
                                         THEN "Ready" ELSE "Failed")
    /\ UNCHANGED <<managerRunning, failedUploadCount>>

UpdateReturns ==
    /\ PopNotifies
    /\ \E uploaded \in BOOLEAN :
          LET decoded == output.image.succeeded
          IN  /\ resources' = Concluded(output, IF decoded /\ uploaded
                                                THEN "Ready" ELSE "Failed")
              /\ failedUploadCount' = failedUploadCount +
                    (IF ~IsStale(output) /\ decoded /\ ~uploaded
                     THEN 1 ELSE 0)
    /\ UNCHANGED managerRunning

ManagerStop == StopRequests /\ UNCHANGED cacheVars

ManagerStopReturns ==
    /\ StopClears
    /\ resources' = EmptyCache
    /\ managerRunning' = FALSE
    /\ UNCHANGED failedUploadCount

ManagerContinues ==
    \/ RequestAsyncReturns
    \/ UpdateReturns
    \/ (StopNotifiesRequest \/ StopNotifiesSpace \/ StopJoins)
          /\ UNCHANGED cacheVars
    \/ ManagerStopReturns

WorkerOrWakeup == (WorkerSteps \/ SpuriousWakeup) /\ UNCHANGED cacheVars

ManagerNext ==
    \/ ManagerStart \/ (\E name \in Names : RequestAsync(name)) \/ Update
    \/ ManagerStop \/ ManagerContinues \/ WorkerOrWakeup

ManagerSpec == ManagerInit /\ [][ManagerNext]_managerVars

(* Update is called every frame, and a frame makes finitely many other calls. *)
ManagerFairSpec ==
    /\ ManagerSpec
    /\ WF_managerVars(ManagerContinues)
    /\ WF_managerVars(WorkerSteps /\ UNCHANGED cacheVars)
    /\ SF_managerVars(Update)

-----------------------------------------------------------------------------
ManagerTypeOK ==
    /\ TypeOK
    /\ resources \in [Paths -> Entries]
    /\ managerRunning \in BOOLEAN
    /\ failedUploadCount \in Nat

(* What the loader still owes the cache: the outstanding requests and the *)
(* result Update has in its hands.                                        *)
Owed == {Outstanding[i] : i \in 1..Len(Outstanding)}
            \cup (IF output = NoResult THEN {} ELSE {TicketOf(output)})
AboutToInsert == IF accepted = NoRequest THEN {} ELSE {accepted}

(* An entry is Queued exactly while the loader owes its result, under the  *)
(* id the entry carries.  So no entry waits for a result that never comes, *)
(* and Update never drops a result as unknown or stale.                    *)
QueuedIsOwed ==
    managerRunning /\ ~stopRequested =>
        Owed \ AboutToInsert =
            {[id |-> resources[path].requestId, path |-> path] :
                path \in {p \in Paths : State(p) = "Queued"}} \ AboutToInsert

(* The counters of the diagnostics overlay agree with the cache once       *)
(* nothing is under way: every request of the session became a Ready       *)
(* entry, a failed decode or a failed upload.                              *)
StatisticsReconcile ==
    managerRunning /\ ~stopRequested /\ Owed = {} =>
        nextRequestId - 1 =
            Cardinality({path \in Paths : State(path) = "Ready"})
                + failedRequestCount + failedUploadCount

(* A Ready texture stays as it is until the manager is stopped: no later   *)
(* request, result or failure replaces it.                                 *)
ReadyIsKept ==
    [][\A path \in Paths :
          State(path) = "Ready" /\ managerRunning' =>
              resources'[path] = resources[path]]_managerVars

(* A queued texture becomes Ready or Failed, or the manager is stopped. *)
QueuedIsResolved ==
    \A path \in Paths : State(path) = "Queued" ~> State(path) # "Queued"

(* Docs/AsyncResourceStreamingRequirements.md:89-95, the allowed           *)
(* transitions; Loading and ReadyForUpload are passed inside a call.  Only *)
(* a stop empties the cache.                                               *)
AllowedTransitions ==
    [][\A path \in Paths :
          managerRunning' /\ State(path)' # State(path) =>
              <<State(path), State(path)'>> \in
                  {<<"Unloaded", "Queued">>, <<"Queued", "Ready">>,
                   <<"Queued", "Failed">>}]_managerVars
=============================================================================
