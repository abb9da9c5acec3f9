--------------------------- MODULE TextureStreaming ---------------------------
(***************************************************************************)
(* The frame loop of Client/Application.cpp as far as it streams textures: *)
(* what key 9 (load the set at once), key 0 (stream the set) and key =     *)
(* (back to the default ground) do, when the finished set is put on the    *)
(* ground, the benchmark session that blocks the keys, and the shutdown.   *)
(* The main thread's work between two calls of the cache is one step.      *)
(***************************************************************************)
EXTENDS TextureResourceManager

CONSTANTS
    TextureSet,    \* textureLoadTestPaths, a sequence of names
    GroundName     \* asyncTextureTestPath, one of them

(* The set is a list of literal paths, none of them empty. *)
ASSUME TextureSetAssumption ==
    /\ TextureSet \in Seq(Names)
    /\ \A i \in 1..Len(TextureSet) : NormalizePath(TextureSet[i]) # NoPath
    /\ GroundName \in {TextureSet[i] : i \in 1..Len(TextureSet)}

VARIABLES
    phase,            \* where the frame is
    next,             \* the texture of the set key 0 asks for next
    ground,           \* groundTextureOverride_: whose texture it refers to
    readyWasLogged,   \* streamedTextureReadyWasLogged
    sessionActive,    \* benchmarkSession_.IsActive()
    lastKey           \* history: the last of the keys 0, 9 and = that acted

frameVars == <<phase, next, ground, readyWasLogged, sessionActive, lastKey>>
streamVars == <<managerVars, frameVars>>

Phases == {"Setup", "Update", "Updating", "Check", "Key0", "Requesting",
           "KeyReset", "Session", "Quit", "Abort", "Ended", "Aborted"}

SetPaths == {NormalizePath(TextureSet[i]) : i \in 1..Len(TextureSet)}
SetIsReady == \A path \in SetPaths : State(path) = "Ready"

StreamInit ==
    /\ ManagerInit
    /\ phase = "Setup" /\ next = 1
    /\ ground = "default" /\ readyWasLogged = FALSE
    /\ sessionActive = FALSE /\ lastKey = "none"

(* Run returns EXIT_FAILURE when the manager does not start. *)
Setup ==
    /\ phase = "Setup"
    /\ ManagerStart
    /\ phase' = IF managerRunning' THEN "Update" ELSE "Aborted"
    /\ UNCHANGED <<next, ground, readyWasLogged, sessionActive, lastKey>>

FrameUpdate ==
    /\ phase = "Update"
    /\ \/ Update /\ phase' = "Updating"
       \/ /\ completedQueue = <<>> /\ phase' = "Check"
          /\ UNCHANGED managerVars
    /\ UNCHANGED <<next, ground, readyWasLogged, sessionActive, lastKey>>

FrameUpdateReturns ==
    /\ phase = "Updating"
    /\ UpdateReturns
    /\ phase' = "Check"
    /\ UNCHANGED <<next, ground, readyWasLogged, sessionActive, lastKey>>

(* The finished set is put on the ground once per request of the user. *)
SwitchDue == ~readyWasLogged /\ SetIsReady

(* The top of the frame, and key 9: a synchronous load may fail, and then *)
(* leaves the ground as it is.                                            *)
CheckAndKey9 ==
    /\ phase = "Check"
    /\ readyWasLogged' = (readyWasLogged \/ SwitchDue)
    /\ LET shown == IF SwitchDue THEN "streamed" ELSE ground
       IN  \/ ground' = shown /\ UNCHANGED lastKey
           \/ ~sessionActive /\ ground' = "sync" /\ lastKey' = "9"
    /\ phase' = "Key0"
    /\ UNCHANGED <<managerVars, next, sessionActive>>

Key0Ignored ==
    /\ phase = "Key0"
    /\ phase' = "KeyReset"
    /\ UNCHANGED <<managerVars, next, ground, readyWasLogged, sessionActive,
                   lastKey>>

Key0CacheHit ==
    /\ phase = "Key0" /\ ~sessionActive
    /\ SetIsReady
    /\ ground' = "streamed"
    /\ readyWasLogged' = TRUE
    /\ lastKey' = "0"
    /\ phase' = "KeyReset"
    /\ UNCHANGED <<managerVars, next, sessionActive>>

(* Bound: the key is pressed only while ids for the whole set are left. *)
Key0Requests ==
    /\ phase = "Key0" /\ ~sessionActive
    /\ ~SetIsReady
    /\ nextRequestId + Len(TextureSet) - 1 <= MaxAccepted
    /\ next' = 1
    /\ lastKey' = "0"
    /\ phase' = "Requesting"
    /\ UNCHANGED <<managerVars, ground, readyWasLogged, sessionActive>>

MutantRequestsOne ==
    /\ phase = "Requesting" /\ main = "Idle" /\ next <= Len(TextureSet)
    /\ RequestAsync(TextureSet[next])
    /\ next' = Len(TextureSet) + 1
    /\ UNCHANGED <<phase, ground, readyWasLogged, sessionActive, lastKey>>

RequestNext ==
    /\ phase = "Requesting" /\ main = "Idle" /\ next <= Len(TextureSet)
    /\ \/ RequestAsync(TextureSet[next])
       \/ /\ State(NormalizePath(TextureSet[next])) \notin {"Unloaded", "Failed"}
          /\ UNCHANGED managerVars
    /\ next' = next + 1
    /\ UNCHANGED <<phase, ground, readyWasLogged, sessionActive, lastKey>>

RequestReturns ==
    /\ phase = "Requesting"
    /\ RequestAsyncReturns
    /\ UNCHANGED frameVars

RequestsDone ==
    /\ phase = "Requesting" /\ main = "Idle" /\ next > Len(TextureSet)
    /\ readyWasLogged' = FALSE
    /\ phase' = "KeyReset"
    /\ next' = 1
    /\ UNCHANGED <<managerVars, ground, sessionActive, lastKey>>

MutantResetForgetsStream ==
    /\ phase = "KeyReset"
    /\ \/ UNCHANGED <<ground, readyWasLogged, lastKey>>
       \/ /\ ~sessionActive
          /\ ground' = "default" /\ lastKey' = "="
          /\ UNCHANGED readyWasLogged
    /\ phase' = "Session"
    /\ UNCHANGED <<managerVars, next, sessionActive>>

KeyReset ==
    /\ phase = "KeyReset"
    /\ \/ UNCHANGED <<ground, readyWasLogged, lastKey>>
       \/ /\ ~sessionActive
          /\ ground' = "default" /\ readyWasLogged' = TRUE /\ lastKey' = "="
    /\ phase' = "Session"
    /\ UNCHANGED <<managerVars, next, sessionActive>>

(* Keys 7 and 8 start and cancel a benchmark session, which also ends by  *)
(* itself; then the next frame begins, the window is closed, or Run       *)
(* returns because the player's move cannot be sent.                      *)
SessionAndNextFrame ==
    /\ phase = "Session"
    /\ sessionActive' \in BOOLEAN
    /\ phase' \in {"Update", "Quit", "Abort"}
    /\ UNCHANGED <<managerVars, next, ground, readyWasLogged, lastKey>>

(* Run has ended when the cache is stopped. *)
AfterStop ==
    phase' = IF managerRunning' THEN phase
             ELSE IF phase = "Quit" THEN "Ended" ELSE "Aborted"

StopManager ==
    \/ ManagerStop
    \/ (StopNotifiesRequest \/ StopNotifiesSpace \/ StopJoins)
          /\ UNCHANGED cacheVars
    \/ ManagerStopReturns

MutantQuitKeepsOverride ==
    /\ phase \in {"Quit", "Abort"}
    /\ StopManager
    /\ AfterStop
    /\ UNCHANGED <<next, ground, readyWasLogged, sessionActive, lastKey>>

(* An ordinary end takes the override back before the cache is stopped; on *)
(* an early return the manager's destructor stops the cache.               *)
Quit ==
    /\ phase \in {"Quit", "Abort"}
    /\ StopManager
    /\ ground' = IF phase = "Quit" THEN "default" ELSE ground
    /\ AfterStop
    /\ UNCHANGED <<next, readyWasLogged, sessionActive, lastKey>>

FrameStep ==
    \/ FrameUpdate \/ FrameUpdateReturns \/ CheckAndKey9
    \/ Key0Ignored \/ Key0CacheHit \/ Key0Requests
    \/ RequestNext \/ RequestReturns \/ RequestsDone
    \/ KeyReset \/ SessionAndNextFrame \/ Quit

Ended == phase \in {"Ended", "Aborted"} /\ UNCHANGED streamVars

StreamNext ==
    \/ Setup \/ FrameStep \/ Ended
    \/ WorkerOrWakeup /\ UNCHANGED frameVars

StreamSpec == StreamInit /\ [][StreamNext]_streamVars

(* The frame loop runs on, and so does the worker thread. *)
StreamFairSpec ==
    /\ StreamSpec
    /\ WF_streamVars(FrameStep)
    /\ WF_streamVars(WorkerSteps /\ UNCHANGED <<cacheVars, frameVars>>)

-----------------------------------------------------------------------------
StreamTypeOK ==
    /\ ManagerTypeOK
    /\ phase \in Phases
    /\ next \in 1..(Len(TextureSet) + 1)
    /\ ground \in {"default", "sync", "streamed"}
    /\ readyWasLogged \in BOOLEAN /\ sessionActive \in BOOLEAN
    /\ lastKey \in {"none", "9", "0", "="}

(* The streamed ground is shown only while every texture of the set is in  *)
(* the cache, Ready: the override never outlives the cache that made it,   *)
(* except where Run returns early and the objects are destroyed.           *)
StreamedGroundIsCached ==
    ground = "streamed" =>
        \/ managerRunning /\ SetIsReady
        \/ phase = "Aborted"

(* A result that arrives after key = does not bring the streamed ground    *)
(* back: it returns only when key 0 is pressed again.                      *)
ResetIsNotUndone ==
    [][lastKey = "=" /\ lastKey' = "=" => ground' \in {ground, "default"}]_streamVars

(* Key 0 ends with the streamed texture on the ground, unless a texture of *)
(* the set fails, another key is pressed or the client is closed.          *)
StreamedGroundIsShown ==
    lastKey = "0" ~>
        \/ ground = "streamed"
        \/ lastKey # "0"
        \/ \E path \in SetPaths : State(path) = "Failed"
        \/ phase \in {"Quit", "Abort", "Ended", "Aborted"}

(* Docs/AsyncResourceStreamingRequirements.md:218: the keys are refused    *)
(* while a session runs so that streaming does not collide with the        *)
(* benchmark; the ground would then stay the same during a session.        *)
SessionKeepsGround ==
    [][sessionActive /\ sessionActive' /\ phase # "Quit" =>
          ground' = ground]_streamVars
=============================================================================
