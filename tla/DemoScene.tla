------------------------------ MODULE DemoScene ------------------------------
(***************************************************************************)
(* The scene of the client (Client/Presentation/DemoScene) with its effect *)
(* pool (SpriteEffectPool) and the attacks of CombatSystem.  A frame is    *)
(* played in the order of DemoScene::Update: prepare a changed room and    *)
(* move, attack around, attack in a cone, announce and collect what is to  *)
(* be drawn.  Which of the monsters in the spatial grid an attack reaches  *)
(* is geometry and left open here (GridCombat has it); health is counted   *)
(* in attacks survived (50 points each).                                   *)
(***************************************************************************)
EXTENDS DungeonController

CONSTANTS
    MonsterSlots,   \* monsters_.size(), 100 in the code
    EffectSlots,    \* SpriteEffectPool::Capacity, 64 in the code
    Lifetime,       \* of an effect, in units of the longest simulated delta
    MovementLimit   \* the player is clamped to -MovementLimit..MovementLimit

ASSUME SceneAssumption ==
    /\ MonsterSlots \in Nat \ {0}
    /\ EffectSlots \in Nat \ {0}
    /\ Lifetime \in Nat \ {0}
    /\ MovementLimit \in Nat

(* Every room covers all of the ground the clamp leaves to the player. *)
ASSUME BoundsAssumption == MovementLimit <= RoomLimit

VARIABLES
    phase,          \* where in the frame the scene is
    monsters,       \* health of every slot; alive means more than 0
    gridded,        \* the slots spatialGrid_ lists
    position,       \* playerPosition_
    grounded,       \* playerIsGrounded_
    effects,        \* remaining time of every slot; active means more than 0
    activeCount,    \* activeCount_ of the pool
    visibleCount,   \* visibleRenderItemCount_
    preparedFor,    \* history: the room the monsters were last set up for
    announced       \* history: rooms announced as cleared since the restart

sceneVars == <<phase, monsters, gridded, position, grounded, effects, activeCount,
               visibleCount, preparedFor, announced>>
allVars == <<roomVars, sceneVars>>

Alive == {slot \in 1..MonsterSlots : monsters[slot] > 0}
Active == {slot \in 1..EffectSlots : effects[slot] > 0}

Smaller(a, b) == IF a < b THEN a ELSE b

(* AliveMonsterCount looks at the slots of the current room only. *)
AliveCountOf(health, room) ==
    Cardinality({slot \in 1..Smaller(Rooms[room].monsterCount, MonsterSlots) :
                    health[slot] > 0})

MonstersOf(room) ==
    [slot \in 1..MonsterSlots |->
        IF slot <= Rooms[room].monsterCount THEN Rooms[room].monsterHealth
        ELSE 0]

(* SpatialGrid::Rebuild takes in who is alive at that time. *)
GridOf(room) == {slot \in 1..MonsterSlots : MonstersOf(room)[slot] > 0}

SceneInit ==
    /\ FirstRoomReady
    /\ phase = "Begin"
    /\ monsters = MonstersOf(1) /\ gridded = GridOf(1) /\ preparedFor = 1
    /\ position = 0 /\ grounded = TRUE
    /\ effects = [slot \in 1..EffectSlots |-> 0] /\ activeCount = 0
    /\ visibleCount = 0 /\ announced = <<>>

MutantRestartKeepsCount ==
    /\ phase = "Begin"
    /\ RestartRooms
    /\ position' = 0 /\ grounded' = TRUE
    /\ effects' = [slot \in 1..EffectSlots |-> 0]
    /\ monsters' = MonstersOf(1) /\ gridded' = GridOf(1) /\ preparedFor' = 1
    /\ announced' = <<>>
    /\ UNCHANGED <<phase, visibleCount, activeCount>>

(* Key R, before the scene's update of the frame. *)
RestartDungeon ==
    /\ phase = "Begin"
    /\ RestartRooms
    /\ position' = 0 /\ grounded' = TRUE
    /\ effects' = [slot \in 1..EffectSlots |-> 0] /\ activeCount' = 0
    /\ monsters' = MonstersOf(1) /\ gridded' = GridOf(1) /\ preparedFor' = 1
    /\ announced' = <<>>
    /\ UNCHANGED <<phase, visibleCount>>

(* DemoScene::ReconcilePlayerPosition, between two updates: the server     *)
(* approves positions within the bounds only, and the player is put there  *)
(* or on the way to it.                                                    *)
Reconcile ==
    /\ phase = "Begin"
    /\ position' \in -MovementLimit..MovementLimit
    /\ UNCHANGED <<roomVars, phase, monsters, gridded, grounded, effects, activeCount,
                   visibleCount, preparedFor, announced>>

(* A bug: the grid is left as it was for the room before. *)
MutantNotRebuilt ==
    /\ UNCHANGED gridded
    /\ IF roomChanged
       THEN monsters' = MonstersOf(currentRoom) /\ preparedFor' = currentRoom
       ELSE UNCHANGED <<monsters, preparedFor>>

(* Consumes the changed-room flag; the monsters are set up and the grid is *)
(* rebuilt, which happens at no other time.                                *)
PrepareCurrentRoom ==
    IF roomChanged
    THEN /\ monsters' = MonstersOf(currentRoom)
         /\ gridded' = GridOf(currentRoom)
         /\ preparedFor' = currentRoom
    ELSE UNCHANGED <<monsters, gridded, preparedFor>>

EffectsExpire(delta) ==
    LET expired == {slot \in Active : effects[slot] <= delta}
    IN  /\ effects' = [slot \in 1..EffectSlots |->
                          IF slot \in Active \ expired
                          THEN effects[slot] - delta ELSE 0]
        /\ activeCount' = activeCount - Cardinality(expired)

MutantUnclamped(to) == to

Clamp(to) ==
    IF to > MovementLimit THEN MovementLimit
    ELSE IF to < -MovementLimit THEN -MovementLimit ELSE to

(* The first part of DemoScene::Update; a jump started now or earlier may  *)
(* or may not have landed by the end of it.                                *)
PrepareAndMove ==
    /\ phase = "Begin"
    /\ PrepareCurrentRoom
    /\ roomChanged' = FALSE
    /\ \E delta \in 0..1 : EffectsExpire(delta)
    /\ \E step \in -1..1 : position' = Clamp(position + step)
    /\ grounded' \in BOOLEAN
    /\ phase' = "Prepared"
    /\ UNCHANGED <<roomState, currentRoom, dungeonCleared, lastClearedRoom,
                   hasClearedRoom, hasDungeonCleared, visibleCount, announced>>

UpdateAfterMove ==
    /\ phase = "Prepared"
    /\ UpdateRooms(position, AliveCountOf(monsters, currentRoom))
    /\ phase' = "Moved"
    /\ UNCHANGED <<monsters, gridded, position, grounded, effects, activeCount,
                   visibleCount, preparedFor, announced>>

(* SpriteEffectPool::Spawn takes the first free slot, if there is one. *)
SpawnEffect ==
    \/ /\ Active = 1..EffectSlots
       /\ UNCHANGED <<effects, activeCount>>
    \/ \E slot \in 1..EffectSlots \ Active :
          /\ 1..(slot - 1) \subseteq Active
          /\ effects' = [effects EXCEPT ![slot] = Lifetime]
          /\ activeCount' = activeCount + 1

(* An attack costs each living monster of the grid that it reaches one     *)
(* unit of health; then the rooms are updated with what is left.           *)
AttackAndUpdate ==
    /\ grounded
    /\ \E reached \in SUBSET (Alive \cap gridded) :
          monsters' = [slot \in 1..MonsterSlots |->
                          IF slot \in reached THEN monsters[slot] - 1
                          ELSE monsters[slot]]
    /\ UpdateRooms(position, AliveCountOf(monsters', currentRoom))

AreaAttack ==
    /\ phase = "Moved"
    /\ \/ AttackAndUpdate /\ SpawnEffect
       \/ UNCHANGED <<roomVars, monsters, effects, activeCount>>
    /\ phase' = "Attacked"
    /\ UNCHANGED <<gridded, position, grounded, visibleCount, preparedFor,
                   announced>>

ConeAttack ==
    /\ phase = "Attacked"
    /\ \/ AttackAndUpdate
       \/ UNCHANGED <<roomVars, monsters>>
    /\ phase' = "ConeDone"
    /\ UNCHANGED <<gridded, position, grounded, effects, activeCount,
                   visibleCount, preparedFor, announced>>

(* The cleared-room and cleared-dungeon flags are consumed, and the items  *)
(* to draw collected: the player, the living monsters, the active effects. *)
AnnounceAndCollect ==
    /\ phase = "ConeDone"
    /\ announced' = IF hasClearedRoom THEN Append(announced, lastClearedRoom)
                    ELSE announced
    /\ hasClearedRoom' = FALSE /\ hasDungeonCleared' = FALSE
    /\ visibleCount' = 1 + Cardinality(Alive) + Cardinality(Active)
    /\ phase' = "Begin"
    /\ UNCHANGED <<roomState, currentRoom, dungeonCleared, roomChanged,
                   lastClearedRoom, monsters, gridded, position, grounded,
                   effects, activeCount, preparedFor>>

SceneNext ==
    \/ RestartDungeon \/ Reconcile
    \/ PrepareAndMove \/ UpdateAfterMove \/ AreaAttack \/ ConeAttack
    \/ AnnounceAndCollect

SceneSpec == SceneInit /\ [][SceneNext]_allVars

-----------------------------------------------------------------------------
SceneTypeOK ==
    /\ RoomTypeOK
    /\ phase \in {"Begin", "Prepared", "Moved", "Attacked", "ConeDone"}
    /\ monsters \in [1..MonsterSlots -> Nat]
    /\ gridded \subseteq 1..MonsterSlots
    /\ position \in -MovementLimit..MovementLimit
    /\ grounded \in BOOLEAN
    /\ effects \in [1..EffectSlots -> 0..Lifetime]
    /\ activeCount \in Nat /\ visibleCount \in Nat
    /\ preparedFor \in RoomNumbers
    /\ announced \in Seq(RoomNumbers)

(* A room is cleared only by the death of its own monsters.  After a room  *)
(* is cleared its dead monsters stay in the slots until the next frame     *)
(* sets up the new ones, and a cone attack of the same frame updates the   *)
(* rooms once more: it must not clear the next room on their account.      *)
ClearedByOwnMonsters ==
    [][\A room \in RoomNumbers :
          roomState[room] # "Cleared" /\ roomState'[room] = "Cleared" =>
              /\ preparedFor = room
              /\ \A slot \in 1..MonsterSlots : monsters'[slot] = 0]_allVars

(* At the end of a frame every room cleared since the start of the dungeon *)
(* has been announced once, in order: a single flag and one remembered     *)
(* room lose no event.                                                     *)
ClearsAnnounced ==
    phase = "Begin" =>
        announced = [room \in 1..Cardinality({r \in RoomNumbers :
                                roomState[r] = "Cleared"}) |-> room]

(* A fight can always go on.  Once a frame has moved the player and        *)
(* updated the rooms, the current room is being fought (the player is      *)
(* within it, whatever the clamp, a restart or the server did), it has a   *)
(* living monster, and every living monster is one that attacks can find,  *)
(* although the grid is rebuilt only with the room.  Otherwise the dungeon *)
(* could not be finished.                                                  *)
FightGoesOn ==
    phase = "Moved" /\ ~dungeonCleared =>
        /\ roomState[currentRoom] = "Combat"
        /\ AliveCountOf(monsters, currentRoom) > 0
        /\ Alive \subseteq gridded

(* activeCount_ is the number of active effects, whatever order of spawns, *)
(* expiries and restarts, and the items collected fit the array of         *)
(* 1 + MonsterCount + Capacity items.                                      *)
PoolCountIsExact ==
    /\ activeCount = Cardinality(Active)
    /\ visibleCount <= 1 + MonsterSlots + EffectSlots
=============================================================================
