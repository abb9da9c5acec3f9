--------------------------- MODULE DungeonController ---------------------------
(***************************************************************************)
(* The progress through the rooms of a dungeon                             *)
(* (Client/Gameplay/DungeonController): the state of every room, the       *)
(* current one, and the flags by which the scene learns of a changed room, *)
(* a cleared room and the cleared dungeon.  Update is an operator on the   *)
(* monsters alive in the scene, for the scene calls it up to three times a *)
(* frame.                                                                  *)
(***************************************************************************)
EXTENDS Integers, Sequences, FiniteSets

CONSTANTS
    Rooms,       \* rooms_: a sequence of [monsterCount, monsterHealth]
    RoomLimit    \* minimumBounds and maximumBounds: -RoomLimit..RoomLimit

ASSUME RoomsAssumption ==
    /\ Rooms \in Seq([monsterCount : Nat \ {0}, monsterHealth : Nat \ {0}])
    /\ Rooms # <<>>
    /\ RoomLimit \in Nat

RoomNumbers == 1..Len(Rooms)

VARIABLES
    roomState,         \* rooms_[i].state
    currentRoom,       \* currentRoomIndex_, counted from 1
    dungeonCleared,    \* dungeonCleared_
    roomChanged,       \* roomChanged_
    lastClearedRoom,   \* lastClearedRoomIndex_, counted from 1
    hasClearedRoom,    \* hasClearedRoomEvent_
    hasDungeonCleared  \* hasDungeonClearedEvent_

roomVars == <<roomState, currentRoom, dungeonCleared, roomChanged,
              lastClearedRoom, hasClearedRoom, hasDungeonCleared>>

FirstRoomReady ==
    /\ roomState = [room \in RoomNumbers |-> "Ready"]
    /\ currentRoom = 1
    /\ dungeonCleared = FALSE /\ roomChanged = FALSE
    /\ lastClearedRoom = 1
    /\ hasClearedRoom = FALSE /\ hasDungeonCleared = FALSE

(* The scene consumes the changed-room flag that a restart sets at once. *)
RestartRooms ==
    /\ roomState' = [room \in RoomNumbers |-> "Ready"]
    /\ currentRoom' = 1
    /\ dungeonCleared' = FALSE /\ roomChanged' = FALSE
    /\ lastClearedRoom' = 1
    /\ hasClearedRoom' = FALSE /\ hasDungeonCleared' = FALSE

EnterRoom ==
    /\ roomState' = [roomState EXCEPT ![currentRoom] = "Combat"]
    /\ UNCHANGED <<currentRoom, dungeonCleared, roomChanged, lastClearedRoom,
                   hasClearedRoom, hasDungeonCleared>>

MutantClearRoomOffByOne ==
    /\ roomState' = [roomState EXCEPT ![currentRoom] = "Cleared"]
    /\ lastClearedRoom' = currentRoom
    /\ hasClearedRoom' = TRUE
    /\ IF currentRoom >= Len(Rooms) - 1
       THEN /\ dungeonCleared' = TRUE /\ hasDungeonCleared' = TRUE
            /\ UNCHANGED <<currentRoom, roomChanged>>
       ELSE /\ currentRoom' = currentRoom + 1 /\ roomChanged' = TRUE
            /\ UNCHANGED <<dungeonCleared, hasDungeonCleared>>

MutantClearRoomForgetsEvent ==
    /\ roomState' = [roomState EXCEPT ![currentRoom] = "Cleared"]
    /\ lastClearedRoom' = currentRoom
    /\ hasClearedRoom' = (currentRoom < Len(Rooms))
    /\ IF currentRoom = Len(Rooms)
       THEN /\ dungeonCleared' = TRUE /\ hasDungeonCleared' = TRUE
            /\ UNCHANGED <<currentRoom, roomChanged>>
       ELSE /\ currentRoom' = currentRoom + 1 /\ roomChanged' = TRUE
            /\ UNCHANGED <<dungeonCleared, hasDungeonCleared>>

ClearRoom ==
    /\ roomState' = [roomState EXCEPT ![currentRoom] = "Cleared"]
    /\ lastClearedRoom' = currentRoom
    /\ hasClearedRoom' = TRUE
    /\ IF currentRoom = Len(Rooms)
       THEN /\ dungeonCleared' = TRUE /\ hasDungeonCleared' = TRUE
            /\ UNCHANGED <<currentRoom, roomChanged>>
       ELSE /\ currentRoom' = currentRoom + 1 /\ roomChanged' = TRUE
            /\ UNCHANGED <<dungeonCleared, hasDungeonCleared>>

(* One coordinate stands for both. *)
ContainsPlayer(position) == position \in -RoomLimit..RoomLimit

(* A bug: a room may be entered and cleared in one call. *)
MutantUpdateRooms(position, aliveCount) ==
    IF dungeonCleared \/ ~ContainsPlayer(position) THEN UNCHANGED roomVars
    ELSE IF aliveCount = 0 THEN ClearRoom
    ELSE IF roomState[currentRoom] = "Ready" THEN EnterRoom
    ELSE UNCHANGED roomVars

(* DungeonController::Update: at most one change of one room per call.     *)
(* aliveCount is AliveMonsterCount, over the slots the current room uses.  *)
UpdateRooms(position, aliveCount) ==
    IF dungeonCleared THEN UNCHANGED roomVars
    ELSE IF roomState[currentRoom] = "Ready" /\ ContainsPlayer(position)
    THEN EnterRoom
    ELSE IF roomState[currentRoom] = "Combat" /\ aliveCount = 0
    THEN ClearRoom
    ELSE UNCHANGED roomVars

-----------------------------------------------------------------------------
RoomTypeOK ==
    /\ roomState \in [RoomNumbers -> {"Ready", "Combat", "Cleared"}]
    /\ currentRoom \in RoomNumbers /\ lastClearedRoom \in RoomNumbers
    /\ dungeonCleared \in BOOLEAN /\ roomChanged \in BOOLEAN
    /\ hasClearedRoom \in BOOLEAN /\ hasDungeonCleared \in BOOLEAN

(* Rooms are cleared in order: those before the current one are Cleared,   *)
(* those after it untouched, and the dungeon is cleared exactly when every *)
(* room is.                                                                *)
RoomsInOrder ==
    /\ \A room \in 1..(currentRoom - 1) : roomState[room] = "Cleared"
    /\ \A room \in (currentRoom + 1)..Len(Rooms) : roomState[room] = "Ready"
    /\ dungeonCleared <=> (\A room \in RoomNumbers : roomState[room] = "Cleared")
=============================================================================
