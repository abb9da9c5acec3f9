------------------------ MODULE TextureStreaming_proofs ------------------------
(***************************************************************************)
(* Proofs about the frame loop that streams textures, for any set of       *)
(* textures, any limits and any number of keys pressed.  The cache under   *)
(* it keeps its own invariant; StreamInv adds where the frame is while the *)
(* cache runs, and what the last key means for the ground.                 *)
(***************************************************************************)
EXTENDS TextureStreaming, TextureResourceManager_proofs

FramePlaces == {"Update", "Updating", "Check", "Key0", "Requesting", "KeyReset",
                "Session"}

FrameTypeOK ==
    /\ phase \in Phases
    /\ next \in 1..(Len(TextureSet) + 1)
    /\ ground \in {"default", "sync", "streamed"}
    /\ readyWasLogged \in BOOLEAN /\ sessionActive \in BOOLEAN
    /\ lastKey \in {"none", "9", "0", "="}

(* The cache runs while frames do, and a call of it is open only where the *)
(* frame makes one.                                                        *)
CacheFollowsFrame ==
    /\ phase \in FramePlaces => managerRunning /\ ~stopRequested
    /\ phase \in {"Quit", "Abort"} => managerRunning
    /\ phase \in {"Setup", "Ended", "Aborted"} => ~managerRunning
    /\ main = "NotifySpace" => phase = "Updating"
    /\ main = "NotifyRequest" => phase = "Requesting"

(* After key = the finished set counts as already announced; only key 0    *)
(* asks for the set, and until it has asked for all of it, it is the last. *)
KeyShape ==
    /\ lastKey = "=" => readyWasLogged
    /\ phase = "Requesting" => lastKey = "0"

StreamInv ==
    /\ CacheInv /\ FrameTypeOK /\ CacheFollowsFrame /\ KeyShape
    /\ phase = "Setup" => ground = "default"
    /\ StreamedGroundIsCached

-----------------------------------------------------------------------------
(* The steps of the frame are steps of the cache *)

(* The textures of the set are paths. *)
LEMMA SetIsPaths ==
    /\ \A i \in 1..Len(TextureSet) :
          TextureSet[i] \in Names /\ NormalizePath(TextureSet[i]) \in Paths
    /\ SetPaths \subseteq Paths
    /\ Len(TextureSet) \in Nat \ {0}
<1>1. TextureSet \in Seq(Names)
  BY TextureSetAssumption
<1>2. \A i \in 1..Len(TextureSet) : TextureSet[i] \in Names
  BY <1>1
<1>3. \A i \in 1..Len(TextureSet) : NormalizePath(TextureSet[i]) \in Paths
  BY <1>2, TextureSetAssumption, ConstantFacts
<1>4. \E i \in 1..Len(TextureSet) : TRUE
  BY TextureSetAssumption
<1>5. Len(TextureSet) \in Nat
  BY <1>1
<1>6. Len(TextureSet) # 0
  BY <1>4, <1>5
<1> QED BY <1>2, <1>3, <1>5, <1>6 DEF SetPaths

(* Each of the frame's steps is one step of the cache, or none. *)
LEMMA CacheSteps ==
    FrameTypeOK /\ [StreamNext]_streamVars => [ManagerNext]_managerVars
<1> SUFFICES ASSUME FrameTypeOK, [StreamNext]_streamVars
             PROVE  [ManagerNext]_managerVars
  OBVIOUS
<1>1. CASE RequestNext
  <2>1. CASE RequestAsync(TextureSet[next])
    <3>1. TextureSet[next] \in Names
      <4>1. next \in 1..Len(TextureSet)
        BY <1>1, SetIsPaths DEF RequestNext, FrameTypeOK
      <4> QED BY <4>1, SetIsPaths
    <3> QED BY <2>1, <3>1 DEF ManagerNext
  <2> QED BY <1>1, <2>1 DEF RequestNext
<1>2. CASE Quit
  BY <1>2 DEF Quit, StopManager, ManagerNext, ManagerContinues
<1>3. CASE Setup
  BY <1>3 DEF Setup, ManagerNext
<1>4. CASE FrameUpdate \/ FrameUpdateReturns \/ RequestReturns
  BY <1>4 DEF FrameUpdate, FrameUpdateReturns, RequestReturns, ManagerNext,
              ManagerContinues
<1>5. CASE WorkerOrWakeup
  BY <1>5 DEF ManagerNext
<1>6. CASE UNCHANGED managerVars
  BY <1>6
<1> QED
  BY <1>1, <1>2, <1>3, <1>4, <1>5, <1>6
  DEF StreamNext, FrameStep, CheckAndKey9, Key0Ignored, Key0CacheHit,
      Key0Requests, RequestsDone, KeyReset, SessionAndNextFrame, Ended, streamVars

(* The set of textures stays in the cache as long as the cache runs. *)
LEMMA SetStaysReady ==
    ASSUME StreamInv, [StreamNext]_streamVars, SetIsReady, managerRunning'
    PROVE  SetIsReady'
<1>1. CacheInv /\ [ManagerNext]_managerVars
  BY CacheSteps DEF StreamInv
<1>2. \A path \in Paths : State(path) = "Ready" =>
         resources'[path] = resources[path]
  BY <1>1, ReadyStays
<1>3. \A path \in SetPaths : State(path)' = "Ready"
  BY <1>2, SetIsPaths DEF SetIsReady, State
<1> QED BY <1>3 DEF SetIsReady, SetPaths

-----------------------------------------------------------------------------
(* The inductive invariant *)

(* Every step keeps the frame's own variables in their types. *)
LEMMA FrameTypes ==
    ASSUME FrameTypeOK, [StreamNext]_streamVars
    PROVE  FrameTypeOK'
<1> DEFINE n == Len(TextureSet)
<1>1. n \in Nat \ {0}
  BY SetIsPaths
<1> HIDE DEF n
<1>2. FrameTypeOK <=>
        /\ phase \in Phases /\ next \in 1..(n + 1)
        /\ ground \in {"default", "sync", "streamed"}
        /\ readyWasLogged \in BOOLEAN /\ sessionActive \in BOOLEAN
        /\ lastKey \in {"none", "9", "0", "="}
  BY DEF FrameTypeOK, n
<1>3. next' \in 1..(n + 1)
  <2>1. \/ next' = next \/ next' = 1
        \/ next <= n /\ next' = next + 1
    BY DEF StreamNext, Setup, FrameStep, FrameUpdate, FrameUpdateReturns,
           CheckAndKey9, Key0Ignored, Key0CacheHit, Key0Requests, RequestNext,
           RequestReturns, RequestsDone, KeyReset, SessionAndNextFrame, Quit,
           Ended, streamVars, frameVars, n
  <2> QED BY <1>1, <1>2, <2>1
<1>4. phase' \in Phases
  BY <1>2
  DEF StreamNext, Setup, FrameStep, FrameUpdate, FrameUpdateReturns,
      CheckAndKey9, Key0Ignored, Key0CacheHit, Key0Requests, RequestNext,
      RequestReturns, RequestsDone, KeyReset, SessionAndNextFrame, Quit,
      AfterStop, Ended, streamVars, frameVars, Phases
<1>5. ground' \in {"default", "sync", "streamed"}
  BY <1>2
  DEF StreamNext, Setup, FrameStep, FrameUpdate, FrameUpdateReturns,
      CheckAndKey9, Key0Ignored, Key0CacheHit, Key0Requests, RequestNext,
      RequestReturns, RequestsDone, KeyReset, SessionAndNextFrame, Quit,
      Ended, streamVars, frameVars
<1>6. sessionActive' \in BOOLEAN /\ lastKey' \in {"none", "9", "0", "="}
  BY <1>2
  DEF StreamNext, Setup, FrameStep, FrameUpdate, FrameUpdateReturns,
      CheckAndKey9, Key0Ignored, Key0CacheHit, Key0Requests, RequestNext,
      RequestReturns, RequestsDone, KeyReset, SessionAndNextFrame, Quit,
      Ended, streamVars, frameVars
<1>7. readyWasLogged' \in BOOLEAN
  <2>1. \/ UNCHANGED readyWasLogged
        \/ readyWasLogged' \in {TRUE, FALSE}
        \/ readyWasLogged' = (readyWasLogged \/ SwitchDue)
    BY DEF StreamNext, Setup, FrameStep, FrameUpdate, FrameUpdateReturns,
           CheckAndKey9, Key0Ignored, Key0CacheHit, Key0Requests, RequestNext,
           RequestReturns, RequestsDone, KeyReset, SessionAndNextFrame, Quit,
           Ended, streamVars, frameVars
  <2> QED BY <1>2, <2>1
<1> QED BY <1>3, <1>4, <1>5, <1>6, <1>7 DEF FrameTypeOK, n

(* Every step keeps the cache in step with the frame. *)
LEMMA FollowingInductive ==
    ASSUME StreamInv, [StreamNext]_streamVars
    PROVE  CacheFollowsFrame'
<1> /\ CacheInv /\ IInv /\ CacheFollowsFrame /\ managerRunning = running
  BY DEF StreamInv, CacheInv, CallShape
<1> USE DEF FramePlaces
<1>1. CASE Setup
  <2>1. /\ phase = "Setup" /\ main = "Idle" /\ UNCHANGED main
        /\ stopRequested' = FALSE
        /\ phase' = IF managerRunning' THEN "Update" ELSE "Aborted"
    BY <1>1 DEF Setup, ManagerStart, Start, callVars
  <2> QED BY <2>1 DEF CacheFollowsFrame
<1>2. CASE FrameUpdate
  <2>1. /\ phase = "Update" /\ UNCHANGED <<managerRunning, stopRequested>>
        /\ \/ phase' = "Updating" /\ main = "Idle" /\ main' = "NotifySpace"
           \/ phase' = "Check" /\ UNCHANGED main
    BY <1>2 DEF FrameUpdate, Update, TryPopCompleted, cacheVars, flags,
                managerVars, vars, callVars
  <2> QED BY <2>1 DEF CacheFollowsFrame
<1>3. CASE FrameUpdateReturns
  <2>1. /\ phase = "Updating" /\ phase' = "Check" /\ main' = "Idle"
        /\ UNCHANGED <<managerRunning, stopRequested>>
    BY <1>3 DEF FrameUpdateReturns, UpdateReturns, PopNotifies, flags
  <2> QED BY <2>1 DEF CacheFollowsFrame
<1>4. CASE \/ CheckAndKey9 \/ Key0Ignored \/ Key0CacheHit \/ Key0Requests
           \/ RequestsDone \/ KeyReset \/ SessionAndNextFrame
  <2>1. UNCHANGED <<main, managerRunning, stopRequested>>
    BY <1>4 DEF CheckAndKey9, Key0Ignored, Key0CacheHit, Key0Requests,
                RequestsDone, KeyReset, SessionAndNextFrame, managerVars, vars,
                callVars, flags, cacheVars
  <2>2. /\ phase \in FramePlaces \ {"Updating"}
        /\ phase = "Requesting" => main = "Idle"
        /\ phase' \in (FramePlaces \cup {"Quit", "Abort"})
    BY <1>4 DEF CheckAndKey9, Key0Ignored, Key0CacheHit, Key0Requests,
                RequestsDone, KeyReset, SessionAndNextFrame
  <2> QED BY <2>1, <2>2 DEF CacheFollowsFrame
<1>5. CASE RequestNext
  <2>1. /\ phase = "Requesting" /\ UNCHANGED <<phase, managerRunning, stopRequested>>
        /\ main' \in {"Idle", "NotifyRequest"}
    BY <1>5 DEF RequestNext, RequestAsync, AcceptRequest, RejectRequest,
                cacheVars, flags, managerVars, vars, callVars
  <2> QED BY <2>1 DEF CacheFollowsFrame
<1>6. CASE RequestReturns
  <2>1. /\ main' = "Idle" /\ UNCHANGED <<phase, managerRunning, stopRequested>>
    BY <1>6 DEF RequestReturns, RequestAsyncReturns, RequestNotifies, frameVars,
                flags
  <2> QED BY <2>1 DEF CacheFollowsFrame
<1>7. CASE Quit
  <2>1. /\ main' \notin {"NotifySpace", "NotifyRequest"}
        /\ phase \in {"Quit", "Abort"}
    BY <1>7 DEF Quit, StopManager, ManagerStop, StopRequests, StopJoins,
                StopNotifiesRequest, StopNotifiesSpace, ManagerStopReturns,
                StopClears
  <2>2. phase' = IF managerRunning' THEN phase
                 ELSE IF phase = "Quit" THEN "Ended" ELSE "Aborted"
    BY <1>7 DEF Quit, AfterStop
  <2> QED BY <2>1, <2>2 DEF CacheFollowsFrame
<1>8. CASE WorkerOrWakeup /\ UNCHANGED frameVars
  <2>1. UNCHANGED <<main, phase, managerRunning, stopRequested>>
    BY <1>8 DEF WorkerOrWakeup, WorkerSteps, WorkerStarts, SpuriousWakeup,
                WorkerSleepsForRequest, WorkerTakesRequest, WorkerStopsIdle,
                WorkerDecodes, WorkerRetests, callVars, flags, cacheVars, frameVars
  <2> QED BY <2>1 DEF CacheFollowsFrame
<1>9. CASE UNCHANGED streamVars
  <2>1. UNCHANGED <<main, phase, managerRunning, stopRequested>>
    BY <1>9 DEF streamVars, managerVars, vars, callVars, flags, cacheVars, frameVars
  <2> QED BY <2>1 DEF CacheFollowsFrame
<1> QED BY <1>1, <1>2, <1>3, <1>4, <1>5, <1>6, <1>7, <1>8, <1>9
        DEF StreamNext, FrameStep, Ended

(* Every step keeps what the last key means. *)
LEMMA KeysInductive ==
    ASSUME StreamInv, [StreamNext]_streamVars
    PROVE  KeyShape'
<1> KeyShape /\ FrameTypeOK
  BY DEF StreamInv
<1>1. CASE FrameUpdate \/ FrameUpdateReturns \/ Setup \/ Quit
  <2>1. UNCHANGED <<lastKey, readyWasLogged>> /\ phase' # "Requesting"
    BY <1>1 DEF FrameUpdate, FrameUpdateReturns, Setup, Quit, AfterStop
  <2> QED BY <2>1 DEF KeyShape
<1>2. CASE CheckAndKey9
  <2>1. lastKey' \in {lastKey, "9"} /\ phase' = "Key0"
        /\ (readyWasLogged => readyWasLogged')
    BY <1>2 DEF CheckAndKey9
  <2> QED BY <2>1 DEF KeyShape
<1>3. CASE Key0Ignored \/ Key0CacheHit \/ Key0Requests \/ KeyReset
           \/ SessionAndNextFrame
  BY <1>3 DEF Key0Ignored, Key0CacheHit, Key0Requests, KeyReset,
              SessionAndNextFrame, KeyShape
<1>4. CASE RequestsDone
  BY <1>4 DEF RequestsDone, KeyShape
<1>5. CASE RequestNext \/ UNCHANGED frameVars
  <2>1. UNCHANGED <<lastKey, readyWasLogged, phase>>
    BY <1>5 DEF RequestNext, frameVars
  <2> QED BY <2>1 DEF KeyShape
<1> QED BY <1>1, <1>2, <1>3, <1>4, <1>5
        DEF StreamNext, FrameStep, RequestReturns, Ended, streamVars

(* Every step keeps the streamed ground in the cache. *)
LEMMA GroundInductive ==
    ASSUME StreamInv, CacheFollowsFrame', [StreamNext]_streamVars
    PROVE  /\ StreamedGroundIsCached'
           /\ phase' = "Setup" => ground' = "default"
<1> CacheFollowsFrame /\ FrameTypeOK /\ StreamedGroundIsCached
  BY DEF StreamInv
<1>1. phase' = "Setup" => ground' = "default"
  <2>1. CASE UNCHANGED frameVars
    BY <2>1 DEF frameVars, StreamInv
  <2>2. CASE ~UNCHANGED frameVars
    <3>1. phase' # "Setup"
      BY <2>2
      DEF StreamNext, Setup, FrameStep, FrameUpdate, FrameUpdateReturns,
          CheckAndKey9, Key0Ignored, Key0CacheHit, Key0Requests, RequestNext,
          RequestReturns, RequestsDone, KeyReset, SessionAndNextFrame, Quit,
          AfterStop, Ended, streamVars
    <3> QED BY <3>1
  <2> QED BY <2>1, <2>2
<1> SUFFICES ASSUME ground' = "streamed", phase' # "Aborted"
             PROVE  managerRunning' /\ SetIsReady'
  BY <1>1 DEF StreamedGroundIsCached
<1>2. SUFFICES ASSUME managerRunning' PROVE SetIsReady
  <2>1. managerRunning'
    <3>1. phase' \notin {"Setup", "Ended"}
      <4>1. CASE Quit
        <5>1. phase # "Quit"
          BY <4>1 DEF Quit
        <5> QED BY <4>1, <5>1 DEF Quit, AfterStop
      <4>2. CASE UNCHANGED frameVars
        <5>1. phase' = phase /\ ground = "streamed"
          BY <4>2 DEF frameVars
        <5> QED BY <5>1 DEF StreamedGroundIsCached, CacheFollowsFrame
      <4>3. CASE ~Quit /\ ~UNCHANGED frameVars
        BY <4>3
        DEF StreamNext, Setup, FrameStep, FrameUpdate, FrameUpdateReturns,
            CheckAndKey9, Key0Ignored, Key0CacheHit, Key0Requests, RequestNext,
            RequestReturns, RequestsDone, KeyReset, SessionAndNextFrame,
            Ended, streamVars
      <4> QED BY <4>1, <4>2, <4>3
    <3>2. phase' \in Phases
      BY FrameTypes DEF FrameTypeOK
    <3> QED BY <3>1, <3>2 DEF CacheFollowsFrame, FramePlaces, Phases
  <2> QED BY <1>2, <2>1, SetStaysReady
<1>3. CASE ground = "streamed"
  <2>1. phase # "Aborted"
    <3>1. SUFFICES ASSUME phase = "Aborted" PROVE phase' = "Aborted"
      OBVIOUS
    <3> QED BY <3>1
        DEF StreamNext, Setup, FrameStep, FrameUpdate, FrameUpdateReturns,
            CheckAndKey9, Key0Ignored, Key0CacheHit, Key0Requests, RequestNext,
            RequestReturns, RequestsDone, KeyReset, SessionAndNextFrame, Quit,
            Ended, streamVars, frameVars
  <2> QED BY <1>3, <2>1 DEF StreamedGroundIsCached
<1>4. CASE ground # "streamed"
  <2>1. \/ CheckAndKey9 /\ SwitchDue
        \/ Key0CacheHit
    BY <1>4
    DEF StreamNext, Setup, FrameStep, FrameUpdate, FrameUpdateReturns,
        CheckAndKey9, Key0Ignored, Key0Requests, RequestNext, RequestReturns,
        RequestsDone, KeyReset, SessionAndNextFrame, Quit, Ended, streamVars,
        frameVars
  <2> QED BY <2>1 DEF SwitchDue, Key0CacheHit
<1> QED BY <1>3, <1>4

(* The inductive invariant holds in every state of every run. *)
THEOREM StreamInvariance == StreamSpec => []StreamInv
<1>1. StreamInit => StreamInv
  <2> SUFFICES ASSUME StreamInit PROVE StreamInv
    OBVIOUS
  <2>1. CacheInv
    BY CacheInitially DEF StreamInit
  <2>2. FrameTypeOK
    <3>1. 1 \in 1..(Len(TextureSet) + 1)
      <4>1. \A n \in Nat : 1 \in 1..(n + 1)
        OBVIOUS
      <4> QED BY <4>1, SetIsPaths
    <3> QED BY <3>1 DEF StreamInit, FrameTypeOK, Phases
  <2>3. managerRunning = FALSE /\ main = "Idle"
    BY DEF StreamInit, ManagerInit, Init
  <2> QED BY <2>1, <2>2, <2>3 DEF StreamInit, StreamInv, CacheFollowsFrame,
                                  KeyShape, FramePlaces, StreamedGroundIsCached
<1>2. StreamInv /\ [StreamNext]_streamVars => StreamInv'
  <2> SUFFICES ASSUME StreamInv, [StreamNext]_streamVars PROVE StreamInv'
    OBVIOUS
  <2>1. CacheInv'
    BY CacheSteps, CacheInductive DEF StreamInv
  <2>2. FrameTypeOK' /\ CacheFollowsFrame' /\ KeyShape'
    BY FrameTypes, FollowingInductive, KeysInductive DEF StreamInv
  <2> QED BY <2>1, <2>2, GroundInductive DEF StreamInv
<1> QED BY <1>1, <1>2, PTL DEF StreamSpec

(* The types of the frame loop, the cache and the loader together. *)
THEOREM StreamTypeCorrect == StreamSpec => []StreamTypeOK
<1>1. StreamInv => StreamTypeOK
  BY DEF StreamInv, StreamTypeOK, FrameTypeOK, CacheInv, IInv, CacheTypeOK,
         ManagerTypeOK
<1> QED BY <1>1, StreamInvariance, PTL

(* The ground refers to a streamed texture only while the whole set is in  *)
(* the running cache, for any set of textures and any keys.                *)
THEOREM StreamedGroundAlwaysCached == StreamSpec => []StreamedGroundIsCached
<1>1. StreamInv => StreamedGroundIsCached
  BY DEF StreamInv
<1> QED BY <1>1, StreamInvariance, PTL

(* Key = is final: a result that arrives later does not bring the streamed *)
(* ground back.                                                            *)
THEOREM ResetNeverUndone == StreamSpec => ResetIsNotUndone
<1>1. StreamInv /\ [StreamNext]_streamVars =>
         [lastKey = "=" /\ lastKey' = "=" => ground' \in {ground, "default"}]_streamVars
  <2> SUFFICES ASSUME StreamInv, StreamNext, lastKey = "=", lastKey' = "="
               PROVE  ground' \in {ground, "default"}
    OBVIOUS
  <2>1. ~SwitchDue
    BY DEF StreamInv, KeyShape, SwitchDue
  <2> QED BY <2>1
      DEF StreamNext, Setup, FrameStep, FrameUpdate, FrameUpdateReturns,
          CheckAndKey9, Key0Ignored, Key0CacheHit, Key0Requests, RequestNext,
          RequestReturns, RequestsDone, KeyReset, SessionAndNextFrame, Quit,
          Ended, streamVars, frameVars
<1> QED BY <1>1, StreamInvariance, PTL DEF StreamSpec, ResetIsNotUndone

(* The cache and the loader under the frame loop run as specified, so that *)
(* what is proved of them holds in the client.                             *)
THEOREM CacheUnderneath == StreamSpec => ManagerSpec
<1>1. StreamInit => ManagerInit
  BY DEF StreamInit
<1>2. StreamInv => FrameTypeOK
  BY DEF StreamInv
<1> QED BY <1>1, <1>2, CacheSteps, StreamInvariance, PTL
        DEF StreamSpec, ManagerSpec
=============================================================================
