---------------------------- MODULE DemoScene_proofs ----------------------------
(***************************************************************************)
(* Proofs about the scene and the progress through its rooms, for any      *)
(* rooms, any number of slots and any bounds that let the player reach     *)
(* every room.  The inductive invariant SceneInv adds to the properties    *)
(* what a frame knows where: when a room may be changed, whose monsters    *)
(* are in the slots, and what is still to be announced.                    *)
(***************************************************************************)
EXTENDS DemoScene, FiniteSetTheorems, TLAPS

(* How far the dungeon is cleared. *)
ClearedCount == IF dungeonCleared THEN Len(Rooms) ELSE currentRoom - 1

RoomShape ==
    /\ RoomsInOrder
    /\ ~dungeonCleared => roomState[currentRoom] # "Cleared"
    /\ dungeonCleared => currentRoom = Len(Rooms) /\ ~roomChanged

(* The slots hold the monsters of the room they were set up for, which is   *)
(* the current one once a changed room has been prepared.                   *)
MonstersShape ==
    /\ \A slot \in 1..MonsterSlots :
          slot > Rooms[preparedFor].monsterCount => monsters[slot] = 0
    /\ ~roomChanged => preparedFor = currentRoom
    /\ ~roomChanged /\ ~dungeonCleared =>
          AliveCountOf(monsters, currentRoom) > 0
    /\ Alive \subseteq gridded

(* A changed room is prepared first thing in a frame, and entered again     *)
(* before the first attack; only an attack clears a room.                   *)
FrameShape ==
    /\ phase \in {"Prepared", "Moved"} => ~roomChanged
    /\ phase = "Moved" /\ ~dungeonCleared => roomState[currentRoom] = "Combat"
    /\ phase = "Attacked" /\ ~dungeonCleared =>
          (roomChanged <=> roomState[currentRoom] = "Ready")
    /\ phase \in {"Begin", "Prepared", "Moved"} => ~hasClearedRoom

(* One room at most is cleared and not yet announced. *)
AnnouncedShape ==
    /\ hasClearedRoom => /\ lastClearedRoom = ClearedCount
                         /\ roomChanged \/ dungeonCleared
    /\ announced = [room \in 1..(IF hasClearedRoom THEN ClearedCount - 1
                                 ELSE ClearedCount) |-> room]

SceneInv ==
    /\ SceneTypeOK /\ RoomShape /\ MonstersShape /\ FrameShape
    /\ AnnouncedShape /\ PoolCountIsExact

-----------------------------------------------------------------------------
(* There is a first room, and every room has monsters with some health. *)
LEMMA RoomFacts ==
    /\ Len(Rooms) \in Nat \ {0}
    /\ 1 \in RoomNumbers /\ RoomNumbers = 1..Len(Rooms)
    /\ \A room \in RoomNumbers : /\ Rooms[room].monsterCount \in Nat \ {0}
                                 /\ Rooms[room].monsterHealth \in Nat \ {0}
<1>1. Len(Rooms) \in Nat \ {0}
  BY RoomsAssumption
<1>2. \A room \in RoomNumbers :
         Rooms[room] \in [monsterCount : Nat \ {0}, monsterHealth : Nat \ {0}]
  <2> DEFINE R == [monsterCount : Nat \ {0}, monsterHealth : Nat \ {0}]
  <2>1. Rooms \in Seq(R)
    BY RoomsAssumption
  <2> HIDE DEF R
  <2>2. \A room \in RoomNumbers : Rooms[room] \in R
    BY <2>1 DEF RoomNumbers
  <2> QED BY <2>2 DEF R
<1>3. \A room \in RoomNumbers : /\ Rooms[room].monsterCount \in Nat \ {0}
                                /\ Rooms[room].monsterHealth \in Nat \ {0}
  BY <1>2
<1> QED BY <1>1, <1>3 DEF RoomNumbers

(* AliveMonsterCount is a number, and 0 only if no slot of the room lives. *)
LEMMA AliveCountFacts ==
    ASSUME NEW room \in RoomNumbers, NEW health \in [1..MonsterSlots -> Nat]
    PROVE  /\ AliveCountOf(health, room) \in Nat
           /\ AliveCountOf(health, room) = 0 <=>
                 \A slot \in 1..MonsterSlots :
                    slot <= Rooms[room].monsterCount => health[slot] = 0
<1> DEFINE used == 1..Smaller(Rooms[room].monsterCount, MonsterSlots)
           living == {slot \in used : health[slot] > 0}
<1>1. Smaller(Rooms[room].monsterCount, MonsterSlots) \in Int
  BY RoomFacts, SceneAssumption DEF Smaller
<1>2. IsFiniteSet(used)
  BY ONLY <1>1, FS_Interval, 1 \in Int
<1>3. IsFiniteSet(living)
  <2>1. living \in SUBSET used
    OBVIOUS
  <2> HIDE DEF living, used
  <2> QED BY <1>2, <2>1, FS_Subset
<1>4. Cardinality(living) \in Nat /\ (Cardinality(living) = 0 <=> living = {})
  <2> HIDE DEF living
  <2> QED BY <1>3, FS_CardinalityType, FS_EmptySet
<1>5. living = {} <=> \A slot \in 1..MonsterSlots :
                         slot <= Rooms[room].monsterCount => health[slot] = 0
  <2>1. Rooms[room].monsterCount \in Nat /\ MonsterSlots \in Nat
    BY RoomFacts, SceneAssumption
  <2>2. \A slot \in 1..MonsterSlots :
           slot \in used <=> slot <= Rooms[room].monsterCount
    BY <2>1 DEF Smaller
  <2>3. used \subseteq 1..MonsterSlots
    BY <2>1 DEF Smaller
  <2> HIDE DEF used
  <2>4. \A slot \in 1..MonsterSlots : health[slot] > 0 <=> health[slot] # 0
    OBVIOUS
  <2> QED BY <2>2, <2>3, <2>4
<1>6. AliveCountOf(health, room) = Cardinality(living)
  BY DEF AliveCountOf
<1> HIDE DEF living
<1> QED BY <1>4, <1>5, <1>6

(* The monsters a room is set up with live, and are no more than its own. *)
LEMMA FreshMonsters ==
    ASSUME NEW room \in RoomNumbers
    PROVE  /\ MonstersOf(room) \in [1..MonsterSlots -> Nat]
           /\ \A slot \in 1..MonsterSlots :
                 slot > Rooms[room].monsterCount => MonstersOf(room)[slot] = 0
           /\ AliveCountOf(MonstersOf(room), room) > 0
           /\ {slot \in 1..MonsterSlots : MonstersOf(room)[slot] > 0}
                 \subseteq GridOf(room)
<1>1. MonstersOf(room) \in [1..MonsterSlots -> Nat]
  BY RoomFacts DEF MonstersOf
<1>2. \A slot \in 1..MonsterSlots :
         slot > Rooms[room].monsterCount => MonstersOf(room)[slot] = 0
  BY RoomFacts DEF MonstersOf
<1>3. 1 \in 1..MonsterSlots /\ 1 <= Rooms[room].monsterCount
      /\ MonstersOf(room)[1] # 0
  BY RoomFacts, SceneAssumption DEF MonstersOf
<1>4. AliveCountOf(MonstersOf(room), room) > 0
  <2>1. AliveCountOf(MonstersOf(room), room) \in Nat
    BY <1>1, AliveCountFacts
  <2>2. AliveCountOf(MonstersOf(room), room) # 0
    BY <1>1, <1>3, AliveCountFacts
  <2> QED BY <2>1, <2>2
<1> QED BY <1>1, <1>2, <1>4 DEF GridOf

(* The player, clamped, is within every room. *)
LEMMA WithinRoom ==
    \A point \in -MovementLimit..MovementLimit : ContainsPlayer(point)
BY SceneAssumption, RoomsAssumption, BoundsAssumption DEF ContainsPlayer

(* What one update may do to the rooms, with the player within bounds. *)
LEMMA UpdateCases ==
    ASSUME NEW point, NEW count, ContainsPlayer(point), UpdateRooms(point, count)
    PROVE  \/ /\ UNCHANGED roomVars
              /\ dungeonCleared \/ roomState[currentRoom] # "Ready"
              /\ dungeonCleared \/ roomState[currentRoom] # "Combat" \/ count # 0
           \/ ~dungeonCleared /\ roomState[currentRoom] = "Ready" /\ EnterRoom
           \/ /\ ~dungeonCleared /\ roomState[currentRoom] = "Combat"
              /\ count = 0 /\ ClearRoom
BY DEF UpdateRooms

(* Entering the current room keeps the rooms in order. *)
LEMMA EnterKeepsRooms ==
    ASSUME RoomTypeOK, RoomShape, ~dungeonCleared, EnterRoom
    PROVE  RoomTypeOK' /\ RoomShape' /\ roomState'[currentRoom'] = "Combat"
<1>1. currentRoom \in RoomNumbers
  BY DEF RoomTypeOK
<1>2. /\ roomState' \in [RoomNumbers -> {"Ready", "Combat", "Cleared"}]
      /\ roomState'[currentRoom] = "Combat"
      /\ \A room \in RoomNumbers \ {currentRoom} : roomState'[room] = roomState[room]
  BY DEF RoomTypeOK, EnterRoom
<1>3. RoomTypeOK'
  BY <1>2 DEF RoomTypeOK, EnterRoom
<1>4. RoomShape'
  <2>1. \A room \in 1..(currentRoom - 1) : room \in RoomNumbers \ {currentRoom}
    BY <1>1, RoomFacts
  <2>2. \A room \in (currentRoom + 1)..Len(Rooms) : room \in RoomNumbers \ {currentRoom}
    BY <1>1, RoomFacts
  <2>3. ~(\A room \in RoomNumbers : roomState'[room] = "Cleared")
    BY <1>1, <1>2
  <2> QED BY <1>1, <1>2, <2>1, <2>2, <2>3 DEF RoomShape, RoomsInOrder, EnterRoom
<1> QED BY <1>2, <1>3, <1>4 DEF EnterRoom

(* Clearing the current room keeps the rooms in order, and makes one more *)
(* room to announce.                                                      *)
LEMMA ClearKeepsRooms ==
    ASSUME RoomTypeOK, RoomShape, ~dungeonCleared, ~roomChanged, ClearRoom
    PROVE  /\ RoomTypeOK' /\ RoomShape'
           /\ ClearedCount' = ClearedCount + 1
           /\ hasClearedRoom' /\ lastClearedRoom' = ClearedCount'
           /\ \/ roomChanged' /\ ~dungeonCleared'
                 /\ roomState'[currentRoom'] = "Ready"
              \/ dungeonCleared'
<1>1. currentRoom \in RoomNumbers /\ currentRoom \in 1..Len(Rooms)
  BY RoomFacts DEF RoomTypeOK
<1>2. /\ roomState' \in [RoomNumbers -> {"Ready", "Combat", "Cleared"}]
      /\ roomState'[currentRoom] = "Cleared"
      /\ \A room \in RoomNumbers \ {currentRoom} : roomState'[room] = roomState[room]
  BY DEF RoomTypeOK, ClearRoom
<1>3. /\ \A room \in 1..(currentRoom - 1) : room \in RoomNumbers \ {currentRoom}
      /\ \A room \in (currentRoom + 1)..Len(Rooms) :
            room \in RoomNumbers \ {currentRoom}
  BY <1>1, RoomFacts
<1>4. /\ \A room \in 1..(currentRoom - 1) : roomState'[room] = "Cleared"
      /\ \A room \in (currentRoom + 1)..Len(Rooms) : roomState'[room] = "Ready"
  BY <1>2, <1>3 DEF RoomShape, RoomsInOrder
<1>5. CASE currentRoom = Len(Rooms)
  <2>1. /\ dungeonCleared' /\ currentRoom' = currentRoom
        /\ roomChanged' = roomChanged
    BY <1>5 DEF ClearRoom
  <2>2. RoomTypeOK'
    BY <1>1, <1>2, <1>5 DEF RoomTypeOK, ClearRoom
  <2>3. \A room \in RoomNumbers : room = currentRoom \/ room \in 1..(currentRoom - 1)
    BY <1>1, <1>5, RoomFacts
  <2>4. \A room \in RoomNumbers : roomState'[room] = "Cleared"
    BY <1>2, <1>4, <2>3
  <2>5. RoomShape'
    BY <1>4, <1>5, <2>1, <2>4 DEF RoomShape, RoomsInOrder
  <2> QED BY <1>1, <1>5, <2>1, <2>2, <2>5 DEF ClearedCount, ClearRoom
<1>6. CASE currentRoom # Len(Rooms)
  <2>1. /\ dungeonCleared' = FALSE /\ currentRoom' = currentRoom + 1
        /\ roomChanged'
    BY <1>6 DEF ClearRoom
  <2>2. currentRoom' \in RoomNumbers /\ currentRoom' \in (currentRoom + 1)..Len(Rooms)
    BY <1>1, <1>6, <2>1, RoomFacts
  <2>3. RoomTypeOK'
    BY <1>1, <1>2, <1>6, <2>2 DEF RoomTypeOK, ClearRoom
  <2>4. roomState'[currentRoom'] = "Ready"
    BY <1>4, <2>2
  <2>5. /\ \A room \in 1..(currentRoom' - 1) :
              room = currentRoom \/ room \in 1..(currentRoom - 1)
        /\ \A room \in (currentRoom' + 1)..Len(Rooms) :
              room \in (currentRoom + 1)..Len(Rooms)
    BY <1>1, <2>1, RoomFacts
  <2>6. /\ \A room \in 1..(currentRoom' - 1) : roomState'[room] = "Cleared"
        /\ \A room \in (currentRoom' + 1)..Len(Rooms) : roomState'[room] = "Ready"
    BY <1>2, <1>4, <2>5
  <2>7. RoomShape'
    BY <2>1, <2>2, <2>4, <2>6 DEF RoomShape, RoomsInOrder
  <2>8. ClearedCount' = ClearedCount + 1 /\ lastClearedRoom' = ClearedCount'
    BY <1>1, <2>1 DEF ClearedCount, ClearRoom
  <2>9. hasClearedRoom'
    BY DEF ClearRoom
  <2> QED BY <2>1, <2>3, <2>4, <2>7, <2>8, <2>9
<1> QED BY <1>5, <1>6

(* An update of the rooms keeps them in order and the account of what is to *)
(* be announced, and says which of its three outcomes it had.               *)
LEMMA RoomsUpdated ==
    ASSUME RoomTypeOK, RoomShape, AnnouncedShape,
           NEW point, NEW count, ContainsPlayer(point),
           ~dungeonCleared /\ roomState[currentRoom] = "Combat" => ~roomChanged,
           UpdateRooms(point, count), announced' = announced
    PROVE  /\ RoomTypeOK' /\ RoomShape' /\ AnnouncedShape'
           /\ \/ /\ UNCHANGED roomVars
                 /\ \/ dungeonCleared
                    \/ roomState[currentRoom] = "Combat" /\ count # 0
              \/ /\ ~dungeonCleared /\ roomState[currentRoom] = "Ready"
                 /\ EnterRoom /\ roomState'[currentRoom'] = "Combat"
              \/ /\ ~dungeonCleared /\ roomState[currentRoom] = "Combat"
                 /\ count = 0 /\ ClearRoom
                 /\ \/ /\ roomChanged' /\ ~dungeonCleared'
                       /\ roomState'[currentRoom'] = "Ready"
                    \/ dungeonCleared'
<1>1. roomState[currentRoom] \in {"Ready", "Combat", "Cleared"}
  BY DEF RoomTypeOK
<1>2. CASE /\ UNCHANGED roomVars
           /\ dungeonCleared \/ roomState[currentRoom] # "Ready"
           /\ dungeonCleared \/ roomState[currentRoom] # "Combat" \/ count # 0
  <2>1. dungeonCleared \/ (roomState[currentRoom] = "Combat" /\ count # 0)
    BY <1>1, <1>2 DEF RoomShape
  <2>2. RoomTypeOK' /\ RoomShape'
    BY <1>2 DEF roomVars, RoomTypeOK, RoomShape, RoomsInOrder
  <2>3. AnnouncedShape'
    BY <1>2 DEF roomVars, AnnouncedShape, ClearedCount
  <2> QED BY <1>2, <2>1, <2>2, <2>3
<1>3. CASE ~dungeonCleared /\ roomState[currentRoom] = "Ready" /\ EnterRoom
  <2>1. AnnouncedShape'
    BY <1>3 DEF EnterRoom, AnnouncedShape, ClearedCount
  <2> QED BY <1>3, <2>1, EnterKeepsRooms
<1>4. CASE /\ ~dungeonCleared /\ roomState[currentRoom] = "Combat"
           /\ count = 0 /\ ClearRoom
  <2>1. ~roomChanged /\ ~hasClearedRoom
    BY <1>4 DEF AnnouncedShape
  <2>2. /\ RoomTypeOK' /\ RoomShape'
        /\ ClearedCount' = ClearedCount + 1
        /\ hasClearedRoom' /\ lastClearedRoom' = ClearedCount'
        /\ \/ roomChanged' /\ ~dungeonCleared'
              /\ roomState'[currentRoom'] = "Ready"
           \/ dungeonCleared'
    BY <1>4, <2>1, ClearKeepsRooms
  <2>3. ClearedCount \in Nat /\ ClearedCount' - 1 = ClearedCount
    <3>1. ClearedCount \in Nat
      BY RoomFacts DEF RoomTypeOK, ClearedCount
    <3> QED BY <2>2, <3>1
  <2>4. announced = [room \in 1..ClearedCount |-> room]
    BY <2>1 DEF AnnouncedShape
  <2>5. announced' = [room \in 1..(ClearedCount' - 1) |-> room]
    BY <2>3, <2>4
  <2>6. AnnouncedShape'
    BY <2>2, <2>5 DEF AnnouncedShape
  <2> QED BY <1>4, <2>2, <2>6
<1> QED BY <1>2, <1>3, <1>4, UpdateCases

(* An attack takes health from living monsters of the grid, one unit each. *)
LEMMA AttackedMonsters ==
    ASSUME SceneTypeOK, MonstersShape, NEW reached \in SUBSET (Alive \cap gridded),
           monsters' = [slot \in 1..MonsterSlots |->
                          IF slot \in reached THEN monsters[slot] - 1
                          ELSE monsters[slot]]
    PROVE  /\ monsters' \in [1..MonsterSlots -> Nat]
           /\ \A slot \in 1..MonsterSlots : monsters[slot] = 0 => monsters'[slot] = 0
           /\ Alive' \subseteq Alive
<1>1. monsters \in [1..MonsterSlots -> Nat]
  BY DEF SceneTypeOK
<1>2. \A slot \in reached : slot \in 1..MonsterSlots /\ monsters[slot] > 0
  BY DEF Alive
<1>3. \A slot \in 1..MonsterSlots :
         /\ monsters'[slot] \in Nat /\ monsters'[slot] <= monsters[slot]
  BY <1>1, <1>2
<1>4. monsters' \in [1..MonsterSlots -> Nat]
  BY <1>3
<1>5. \A slot \in 1..MonsterSlots : monsters[slot] = 0 => monsters'[slot] = 0
  BY <1>1, <1>3
<1>6. Alive' \subseteq Alive
  BY <1>1, <1>3 DEF Alive
<1> QED BY <1>4, <1>5, <1>6

-----------------------------------------------------------------------------
(* The effect pool *)

(* Slots are finitely many, and no set of them outnumbers them. *)
LEMMA SlotsFacts ==
    ASSUME NEW limit \in Nat, NEW slots \in SUBSET (1..limit)
    PROVE  /\ IsFiniteSet(slots) /\ Cardinality(slots) \in Nat
           /\ Cardinality(slots) <= limit
<1>1. IsFiniteSet(1..limit) /\ Cardinality(1..limit) <= limit
  <2>1. limit \in Int /\ 1 \in Int /\ (1 > limit => 0 <= limit)
        /\ limit - 1 + 1 = limit
    OBVIOUS
  <2> QED BY <2>1, FS_Interval
<1>2. IsFiniteSet(slots) /\ Cardinality(slots) <= Cardinality(1..limit)
  BY <1>1, FS_Subset
<1>3. Cardinality(slots) \in Nat /\ Cardinality(1..limit) \in Nat
  BY <1>1, <1>2, FS_CardinalityType
<1> QED BY <1>1, <1>2, <1>3

(* Before and after a step, the active effects and the living monsters are *)
(* no more than their slots.                                               *)
LEMMA PoolFacts ==
    /\ IsFiniteSet(Active) /\ Cardinality(Active) \in 0..EffectSlots
    /\ Cardinality(Active') \in Nat
    /\ Cardinality(Alive) \in 0..MonsterSlots
<1>1. EffectSlots \in Nat /\ MonsterSlots \in Nat
  BY SceneAssumption
<1>2. /\ Active \in SUBSET (1..EffectSlots) /\ Active' \in SUBSET (1..EffectSlots)
      /\ Alive \in SUBSET (1..MonsterSlots)
  BY DEF Active, Alive
<1>3. /\ IsFiniteSet(Active) /\ Cardinality(Active) \in Nat
      /\ Cardinality(Active) <= EffectSlots
  BY ONLY <1>1, <1>2, SlotsFacts
<1>4. Cardinality(Active') \in Nat
  BY ONLY <1>1, <1>2, SlotsFacts
<1>5. Cardinality(Alive) \in Nat /\ Cardinality(Alive) <= MonsterSlots
  BY ONLY <1>1, <1>2, SlotsFacts
<1> QED BY <1>1, <1>3, <1>4, <1>5

(* Expiry takes the expired effects, and no other, off the count. *)
LEMMA ExpireKeepsCount ==
    ASSUME effects \in [1..EffectSlots -> 0..Lifetime],
           activeCount = Cardinality(Active),
           NEW delta \in 0..1, EffectsExpire(delta)
    PROVE  /\ effects' \in [1..EffectSlots -> 0..Lifetime]
           /\ activeCount' = Cardinality(Active')
<1> DEFINE expired == {slot \in Active : effects[slot] <= delta}
<1>1. /\ effects' = [slot \in 1..EffectSlots |->
                       IF slot \in Active \ expired
                       THEN effects[slot] - delta ELSE 0]
      /\ activeCount' = activeCount - Cardinality(expired)
  BY DEF EffectsExpire
<1>2. /\ \A slot \in 1..EffectSlots : effects[slot] \in 0..Lifetime
      /\ Lifetime \in Nat
  BY SceneAssumption
<1>3. Active' = Active \ expired
  <2>1. \A slot \in Active \ expired :
           slot \in 1..EffectSlots /\ effects[slot] - delta > 0
    BY <1>2 DEF Active
  <2>2. \A slot \in 1..EffectSlots : effects'[slot] > 0 <=> slot \in Active \ expired
    <3> HIDE DEF expired
    <3> QED BY <1>1, <2>1
  <2>3. Active' = {slot \in 1..EffectSlots : effects'[slot] > 0}
    BY DEF Active
  <2>4. Active \subseteq 1..EffectSlots
    BY DEF Active
  <2> HIDE DEF expired
  <2> QED BY <2>2, <2>3, <2>4
<1>4. \A slot \in 1..EffectSlots : effects'[slot] \in 0..Lifetime
  <2>1. \A slot \in Active \ expired : effects[slot] - delta \in 0..Lifetime
    BY <1>2 DEF Active
  <2> HIDE DEF expired
  <2> QED BY <1>1, <1>2, <2>1
<1>5. effects' \in [1..EffectSlots -> 0..Lifetime]
  <2> HIDE DEF expired
  <2> QED BY <1>1, <1>4
<1>6. Active \cap expired = expired
  OBVIOUS
<1>7. Cardinality(Active \ expired) = Cardinality(Active) - Cardinality(expired)
  <2>1. Cardinality(Active \ expired)
           = Cardinality(Active) - Cardinality(Active \cap expired)
    <3> HIDE DEF expired
    <3> QED BY PoolFacts, FS_Difference
  <2> HIDE DEF expired
  <2> QED BY <2>1, <1>6
<1> HIDE DEF expired
<1> QED BY <1>1, <1>3, <1>5, <1>7

(* A spawned effect takes a free slot and is counted, or is dropped. *)
LEMMA SpawnKeepsCount ==
    ASSUME effects \in [1..EffectSlots -> 0..Lifetime],
           activeCount = Cardinality(Active), SpawnEffect
    PROVE  /\ effects' \in [1..EffectSlots -> 0..Lifetime]
           /\ activeCount' = Cardinality(Active')
<1>1. CASE UNCHANGED <<effects, activeCount>>
  BY <1>1 DEF Active
<1>2. ASSUME NEW slot \in 1..EffectSlots \ Active,
             effects' = [effects EXCEPT ![slot] = Lifetime],
             activeCount' = activeCount + 1
      PROVE  /\ effects' \in [1..EffectSlots -> 0..Lifetime]
             /\ activeCount' = Cardinality(Active')
  <2>1. Lifetime \in 0..Lifetime /\ Lifetime > 0
    BY SceneAssumption
  <2>2. effects' \in [1..EffectSlots -> 0..Lifetime]
    BY <1>2, <2>1
  <2>3. Active' = Active \cup {slot}
    BY <1>2, <2>1 DEF Active
  <2>4. Cardinality(Active \cup {slot}) = Cardinality(Active) + 1
    BY <1>2, PoolFacts, FS_AddElement
  <2> QED BY <1>2, <2>2, <2>3, <2>4
<1> QED BY <1>1, <1>2 DEF SpawnEffect

-----------------------------------------------------------------------------
(* The invariant *)

(* Counting on by one. *)
LEMMA CountOn ==
    ASSUME NEW n \in Nat
    PROVE  Append([room \in 1..n |-> room], n + 1) = [room \in 1..(n + 1) |-> room]
<1> DEFINE counted == [room \in 1..n |-> room]
<1>1. counted \in Seq(Nat) /\ Len(counted) = n
  OBVIOUS
<1>2. /\ Append(counted, n + 1) \in Seq(Nat)
      /\ Len(Append(counted, n + 1)) = n + 1
      /\ \A i \in 1..(n + 1) :
            Append(counted, n + 1)[i] = IF i = n + 1 THEN n + 1 ELSE counted[i]
  <2> HIDE DEF counted
  <2> QED BY <1>1
<1>3. \A i \in 1..(n + 1) : Append(counted, n + 1)[i] = i
  BY <1>2
<1>4. DOMAIN Append(counted, n + 1) = 1..(n + 1)
  BY <1>2
<1>5. Append(counted, n + 1) = [i \in 1..(n + 1) |-> Append(counted, n + 1)[i]]
  BY <1>1, <1>4
<1> HIDE DEF counted
<1>6. Append(counted, n + 1) = [room \in 1..(n + 1) |-> room]
  BY <1>3, <1>5
<1> QED BY <1>6 DEF counted

(* How far the dungeon is cleared, and what that says of the rooms. *)
LEMMA ClearedFacts ==
    ASSUME RoomTypeOK, RoomShape
    PROVE  /\ ClearedCount \in 0..Len(Rooms)
           /\ {room \in RoomNumbers : roomState[room] = "Cleared"}
                 = 1..ClearedCount
<1>1. currentRoom \in 1..Len(Rooms) /\ Len(Rooms) \in Nat
  BY RoomFacts DEF RoomTypeOK
<1>2. ClearedCount \in 0..Len(Rooms)
  BY <1>1 DEF ClearedCount
<1>3. CASE dungeonCleared
  <2>1. \A room \in RoomNumbers : roomState[room] = "Cleared"
    BY <1>3 DEF RoomShape, RoomsInOrder
  <2>2. ClearedCount = Len(Rooms)
    BY <1>3 DEF ClearedCount
  <2> QED BY <1>2, <2>1, <2>2, RoomFacts
<1>4. CASE ~dungeonCleared
  <2>1. \A room \in RoomNumbers :
           \/ room \in 1..(currentRoom - 1)
           \/ room = currentRoom
           \/ room \in (currentRoom + 1)..Len(Rooms)
    BY <1>1, RoomFacts
  <2>2. \A room \in RoomNumbers :
           roomState[room] = "Cleared" <=> room \in 1..(currentRoom - 1)
    BY <1>1, <1>4, <2>1 DEF RoomShape, RoomsInOrder
  <2>3. \A room \in 1..(currentRoom - 1) : room \in RoomNumbers
    BY <1>1, RoomFacts
  <2>4. ClearedCount = currentRoom - 1
    BY <1>4 DEF ClearedCount
  <2>5. {room \in RoomNumbers : roomState[room] = "Cleared"}
           = 1..(currentRoom - 1)
    BY <2>2, <2>3
  <2> QED BY <1>2, <2>4, <2>5
<1> QED BY <1>2, <1>3, <1>4

(* What was announced are numbers of rooms. *)
LEMMA AnnouncedType ==
    ASSUME RoomTypeOK, RoomShape, AnnouncedShape
    PROVE  announced \in Seq(RoomNumbers)
<1> DEFINE n == IF hasClearedRoom THEN ClearedCount - 1 ELSE ClearedCount
<1>1. n \in 0..Len(Rooms)
  <2>1. hasClearedRoom => ClearedCount # 0
    BY RoomFacts DEF AnnouncedShape, RoomTypeOK
  <2> QED BY <2>1, ClearedFacts, RoomFacts
<1>2. announced = [room \in 1..n |-> room]
  BY DEF AnnouncedShape
<1> HIDE DEF n
<1>3. n \in Nat /\ \A room \in 1..n : room \in RoomNumbers
  BY <1>1, RoomFacts
<1> QED BY <1>2, <1>3

(* The first frame of a dungeon. *)
LEMMA SceneInitially == SceneInit => SceneInv
<1> SUFFICES ASSUME SceneInit PROVE SceneInv
  OBVIOUS
<1> USE DEF SceneInit, FirstRoomReady
<1>1. RoomTypeOK
  BY RoomFacts DEF RoomTypeOK
<1>2. RoomShape
  BY RoomFacts DEF RoomShape, RoomsInOrder
<1>3. MonstersShape
  BY RoomFacts, FreshMonsters DEF MonstersShape, Alive
<1>4. FrameShape
  BY DEF FrameShape
<1>5. AnnouncedShape
  BY DEF AnnouncedShape, ClearedCount
<1>6. Active = {}
  BY DEF Active
<1>7. PoolCountIsExact
  BY <1>6, FS_EmptySet, SceneAssumption DEF PoolCountIsExact
<1>8. SceneTypeOK
  <2>1. monsters \in [1..MonsterSlots -> Nat]
    BY RoomFacts, FreshMonsters
  <2>2. gridded \subseteq 1..MonsterSlots
    BY DEF GridOf
  <2>3. effects \in [1..EffectSlots -> 0..Lifetime]
    BY SceneAssumption
  <2>4. position \in -MovementLimit..MovementLimit
    BY SceneAssumption
  <2>5. announced \in Seq(RoomNumbers)
    OBVIOUS
  <2>6. preparedFor \in RoomNumbers
    BY RoomFacts
  <2> QED BY <1>1, <2>1, <2>2, <2>3, <2>4, <2>5, <2>6 DEF SceneTypeOK
<1> QED BY <1>2, <1>3, <1>4, <1>5, <1>7, <1>8 DEF SceneInv

(* A restart begins the dungeon again in the middle of anything. *)
LEMMA RestartKeeps == SceneInv /\ RestartDungeon => SceneInv'
<1> SUFFICES ASSUME SceneInv, RestartDungeon PROVE SceneInv'
  OBVIOUS
<1> USE DEF RestartDungeon, RestartRooms
<1>1. RoomTypeOK'
  BY RoomFacts DEF RoomTypeOK
<1>2. RoomShape'
  BY RoomFacts DEF RoomShape, RoomsInOrder
<1>3. MonstersShape'
  BY RoomFacts, FreshMonsters DEF MonstersShape, Alive
<1>4. FrameShape'
  BY DEF FrameShape
<1>5. AnnouncedShape'
  BY DEF AnnouncedShape, ClearedCount
<1>6. Active' = {}
  BY DEF Active
<1>7. PoolCountIsExact'
  BY <1>6, FS_EmptySet DEF PoolCountIsExact, SceneInv
<1>8. SceneTypeOK'
  <2>1. monsters' \in [1..MonsterSlots -> Nat]
    BY RoomFacts, FreshMonsters
  <2>2. gridded' \subseteq 1..MonsterSlots
    BY DEF GridOf
  <2>3. effects' \in [1..EffectSlots -> 0..Lifetime]
    BY SceneAssumption
  <2>4. position' \in -MovementLimit..MovementLimit
    BY SceneAssumption
  <2>5. announced' \in Seq(RoomNumbers)
    OBVIOUS
  <2>6. preparedFor' \in RoomNumbers
    BY RoomFacts
  <2> QED BY <1>1, <2>1, <2>2, <2>3, <2>4, <2>5, <2>6 DEF SceneTypeOK, SceneInv
<1> QED BY <1>2, <1>3, <1>4, <1>5, <1>7, <1>8 DEF SceneInv

(* The correction of the position touches nothing else. *)
LEMMA ReconcileKeeps == SceneInv /\ Reconcile => SceneInv'
BY DEF Reconcile, roomVars, SceneInv, SceneTypeOK, RoomTypeOK, RoomShape,
       RoomsInOrder, MonstersShape, FrameShape, AnnouncedShape, ClearedCount,
       PoolCountIsExact, Alive, Active, AliveCountOf

(* The first part of a frame sets a changed room up. *)
LEMMA PrepareKeeps == SceneInv /\ PrepareAndMove => SceneInv'
<1> SUFFICES ASSUME SceneInv, PrepareAndMove PROVE SceneInv'
  OBVIOUS
<1>0. /\ RoomTypeOK /\ SceneTypeOK /\ RoomShape /\ MonstersShape /\ FrameShape
      /\ AnnouncedShape /\ PoolCountIsExact
  BY DEF SceneInv, SceneTypeOK
<1>1. /\ phase = "Begin" /\ phase' = "Prepared"
      /\ PrepareCurrentRoom /\ roomChanged' = FALSE
      /\ UNCHANGED <<roomState, currentRoom, dungeonCleared, lastClearedRoom,
                     hasClearedRoom, hasDungeonCleared, visibleCount, announced>>
      /\ grounded' \in BOOLEAN
  BY DEF PrepareAndMove
<1>2. currentRoom \in RoomNumbers
  BY <1>0 DEF RoomTypeOK
<1>3. RoomTypeOK'
  BY <1>0, <1>1 DEF RoomTypeOK
<1>4. RoomShape'
  BY <1>0, <1>1 DEF RoomShape, RoomsInOrder
<1>5. FrameShape'
  BY <1>0, <1>1 DEF FrameShape
<1>6. AnnouncedShape'
  BY <1>0, <1>1 DEF AnnouncedShape, ClearedCount, FrameShape
<1>7. MonstersShape' /\ monsters' \in [1..MonsterSlots -> Nat]
      /\ gridded' \subseteq 1..MonsterSlots /\ preparedFor' \in RoomNumbers
  <2>1. CASE roomChanged
    <3>1. /\ monsters' = MonstersOf(currentRoom) /\ gridded' = GridOf(currentRoom)
          /\ preparedFor' = currentRoom
      BY <1>1, <2>1 DEF PrepareCurrentRoom
    <3>2. MonstersShape'
      BY <1>1, <1>2, <3>1, FreshMonsters DEF MonstersShape, Alive
    <3> QED BY <1>2, <3>1, <3>2, FreshMonsters DEF GridOf
  <2>2. CASE ~roomChanged
    <3>1. UNCHANGED <<monsters, gridded, preparedFor>>
      BY <1>1, <2>2 DEF PrepareCurrentRoom
    <3>2. MonstersShape'
      BY <1>0, <1>1, <2>2, <3>1 DEF MonstersShape, Alive, AliveCountOf
    <3> QED BY <1>0, <3>1, <3>2 DEF SceneTypeOK
  <2> QED BY <2>1, <2>2
<1>8. effects' \in [1..EffectSlots -> 0..Lifetime]
      /\ activeCount' = Cardinality(Active')
  <2>1. PICK delta \in 0..1 : EffectsExpire(delta)
    BY DEF PrepareAndMove
  <2>2. effects \in [1..EffectSlots -> 0..Lifetime]
        /\ activeCount = Cardinality(Active)
    BY <1>0 DEF SceneTypeOK, PoolCountIsExact
  <2> QED BY <2>1, <2>2, ExpireKeepsCount
<1>9. position' \in -MovementLimit..MovementLimit
  <2>1. PICK step \in -1..1 : position' = Clamp(position + step)
    BY DEF PrepareAndMove
  <2>2. position \in Int /\ MovementLimit \in Nat
    BY <1>0, SceneAssumption DEF SceneTypeOK
  <2> QED BY <2>1, <2>2 DEF Clamp
<1>10. PoolCountIsExact'
  BY <1>0, <1>1, <1>8 DEF PoolCountIsExact
<1>11. activeCount' \in Nat
  BY <1>8, PoolFacts
<1>12. SceneTypeOK'
  BY <1>0, <1>1, <1>3, <1>7, <1>8, <1>9, <1>11 DEF SceneTypeOK
<1> QED BY <1>4, <1>5, <1>6, <1>7, <1>10, <1>12 DEF SceneInv

(* Once the player has moved, the current room is entered: it is not        *)
(* cleared, for its monsters live.                                          *)
LEMMA UpdateKeeps == SceneInv /\ UpdateAfterMove => SceneInv'
<1> SUFFICES ASSUME SceneInv, UpdateAfterMove PROVE SceneInv'
  OBVIOUS
<1>0. /\ RoomTypeOK /\ SceneTypeOK /\ RoomShape /\ MonstersShape /\ FrameShape
      /\ AnnouncedShape /\ PoolCountIsExact
  BY DEF SceneInv, SceneTypeOK
<1> DEFINE count == AliveCountOf(monsters, currentRoom)
<1>1. /\ phase = "Prepared" /\ phase' = "Moved" /\ UpdateRooms(position, count)
      /\ UNCHANGED <<monsters, gridded, position, grounded, effects, activeCount,
                     visibleCount, preparedFor, announced>>
  BY DEF UpdateAfterMove
<1>2. ContainsPlayer(position)
  BY <1>0, WithinRoom DEF SceneTypeOK
<1>3. ~roomChanged /\ ~hasClearedRoom
  BY <1>0, <1>1 DEF FrameShape
<1>4. ~dungeonCleared => count # 0
  <2>1. count \in Nat
    BY <1>0, AliveCountFacts DEF SceneTypeOK, RoomTypeOK
  <2> QED BY <1>0, <1>3, <2>1 DEF MonstersShape
<1> HIDE DEF count
<1>5. /\ RoomTypeOK' /\ RoomShape' /\ AnnouncedShape'
      /\ \/ UNCHANGED roomVars
            /\ (dungeonCleared \/ roomState[currentRoom] = "Combat")
         \/ EnterRoom /\ roomState'[currentRoom'] = "Combat"
  BY <1>0, <1>1, <1>2, <1>3, <1>4, RoomsUpdated
<1>6. /\ UNCHANGED <<currentRoom, dungeonCleared, roomChanged, hasClearedRoom>>
      /\ dungeonCleared' \/ roomState'[currentRoom'] = "Combat"
  BY <1>5 DEF roomVars, EnterRoom
<1>7. FrameShape'
  BY <1>1, <1>3, <1>6 DEF FrameShape
<1>8. MonstersShape'
  BY <1>0, <1>1, <1>6 DEF MonstersShape, Alive, AliveCountOf
<1>9. PoolCountIsExact'
  BY <1>0, <1>1 DEF PoolCountIsExact, Active
<1>10. SceneTypeOK'
  BY <1>0, <1>1, <1>5 DEF SceneTypeOK
<1> QED BY <1>5, <1>7, <1>8, <1>9, <1>10 DEF SceneInv

(* An attack, and the update of the rooms after it: a room is cleared only  *)
(* by the death of its own monsters, and what it leaves is in order.        *)
LEMMA AttackFacts ==
    ASSUME SceneInv, phase \in {"Moved", "Attacked"}, AttackAndUpdate,
           UNCHANGED <<gridded, position, preparedFor, announced>>
    PROVE  /\ RoomTypeOK' /\ RoomShape' /\ AnnouncedShape' /\ MonstersShape'
           /\ monsters' \in [1..MonsterSlots -> Nat]
           /\ phase = "Moved" /\ ~dungeonCleared' =>
                 (roomChanged' <=> roomState'[currentRoom'] = "Ready")
           /\ \A room \in RoomNumbers :
                 roomState[room] # "Cleared" /\ roomState'[room] = "Cleared" =>
                    /\ preparedFor = room
                    /\ \A slot \in 1..MonsterSlots : monsters'[slot] = 0
<1> DEFINE count == AliveCountOf(monsters', currentRoom)
<1>0. /\ RoomTypeOK /\ SceneTypeOK /\ RoomShape /\ MonstersShape /\ FrameShape
      /\ AnnouncedShape
  BY DEF SceneInv, SceneTypeOK
<1>1. PICK reached \in SUBSET (Alive \cap gridded) :
         monsters' = [slot \in 1..MonsterSlots |->
                        IF slot \in reached THEN monsters[slot] - 1
                        ELSE monsters[slot]]
  BY DEF AttackAndUpdate
<1>2. UpdateRooms(position, count)
  BY DEF AttackAndUpdate
<1>3. /\ monsters' \in [1..MonsterSlots -> Nat]
      /\ \A slot \in 1..MonsterSlots : monsters[slot] = 0 => monsters'[slot] = 0
      /\ Alive' \subseteq Alive
  BY <1>0, <1>1, AttackedMonsters
<1>4. /\ count \in Nat
      /\ count = 0 <=> \A slot \in 1..MonsterSlots :
            slot <= Rooms[currentRoom].monsterCount => monsters'[slot] = 0
  BY <1>0, <1>3, AliveCountFacts DEF RoomTypeOK
<1>5. ContainsPlayer(position)
  BY <1>0, WithinRoom DEF SceneTypeOK
<1>6. ~dungeonCleared => (roomChanged <=> roomState[currentRoom] = "Ready")
  BY <1>0 DEF FrameShape
<1>7. ~dungeonCleared /\ roomState[currentRoom] = "Combat" => ~roomChanged
  BY <1>6
<1>8. RoomTypeOK' /\ RoomShape' /\ AnnouncedShape'
  BY <1>0, <1>2, <1>5, <1>7, RoomsUpdated
<1>9. CASE /\ UNCHANGED roomVars
           /\ dungeonCleared
                 \/ (roomState[currentRoom] = "Combat" /\ count # 0)
  <2>1. MonstersShape'
    <3>1. ~dungeonCleared => count > 0
      BY <1>4, <1>9
    <3>2. AliveCountOf(monsters', currentRoom') = count
      BY <1>9 DEF roomVars
    <3> HIDE DEF count
    <3>3. ~roomChanged' /\ ~dungeonCleared' => AliveCountOf(monsters', currentRoom') > 0
      BY <1>9, <3>1, <3>2 DEF roomVars
    <3> QED BY <1>0, <1>3, <1>9, <3>3 DEF MonstersShape, roomVars
  <2> QED BY <1>3, <1>6, <1>8, <1>9, <2>1 DEF roomVars
<1>10. CASE ~dungeonCleared /\ roomState[currentRoom] = "Ready" /\ EnterRoom
             /\ roomState'[currentRoom'] = "Combat"
  <2>1. phase # "Moved" /\ roomChanged
    BY <1>0, <1>6, <1>10 DEF FrameShape
  <2>2. MonstersShape'
    BY <1>0, <1>3, <1>10, <2>1 DEF MonstersShape, EnterRoom
  <2>3. \A room \in RoomNumbers : roomState'[room] = "Cleared" =>
           roomState[room] = "Cleared"
    BY <1>0, <1>10 DEF EnterRoom, RoomTypeOK
  <2> QED BY <1>3, <1>8, <2>1, <2>2, <2>3
<1>11. CASE /\ ~dungeonCleared /\ roomState[currentRoom] = "Combat"
            /\ count = 0 /\ ClearRoom
            /\ \/ /\ roomChanged' /\ ~dungeonCleared'
                  /\ roomState'[currentRoom'] = "Ready"
               \/ dungeonCleared'
  <2>1. ~roomChanged /\ preparedFor = currentRoom
    BY <1>0, <1>7, <1>11 DEF MonstersShape
  <2>2. \A slot \in 1..MonsterSlots : monsters'[slot] = 0
    <3>1. \A slot \in 1..MonsterSlots :
             \/ slot <= Rooms[currentRoom].monsterCount
             \/ slot > Rooms[currentRoom].monsterCount
      BY <1>0, RoomFacts DEF RoomTypeOK
    <3> QED BY <1>0, <1>3, <1>4, <1>11, <2>1, <3>1 DEF MonstersShape
  <2>3. dungeonCleared' => currentRoom' = currentRoom
    BY <1>11 DEF ClearRoom
  <2>4. MonstersShape'
    <3> HIDE DEF count
    <3> QED BY <1>0, <1>3, <1>11, <2>1, <2>3 DEF MonstersShape
  <2>5. \A room \in RoomNumbers :
           roomState[room] # "Cleared" /\ roomState'[room] = "Cleared" =>
              room = currentRoom
    BY <1>0, <1>11 DEF ClearRoom, RoomTypeOK
  <2> QED BY <1>3, <1>8, <1>11, <2>1, <2>2, <2>4, <2>5
<1> QED
  <2> HIDE DEF count
  <2> QED BY <1>0, <1>2, <1>5, <1>7, <1>9, <1>10, <1>11, RoomsUpdated

(* The attack around the player. *)
LEMMA AreaKeeps == SceneInv /\ AreaAttack => SceneInv'
<1> SUFFICES ASSUME SceneInv, AreaAttack PROVE SceneInv'
  OBVIOUS
<1>0. /\ RoomTypeOK /\ SceneTypeOK /\ RoomShape /\ MonstersShape /\ FrameShape
      /\ AnnouncedShape /\ PoolCountIsExact
  BY DEF SceneInv, SceneTypeOK
<1>1. /\ phase = "Moved" /\ phase' = "Attacked"
      /\ UNCHANGED <<gridded, position, grounded, visibleCount, preparedFor,
                     announced>>
  BY DEF AreaAttack
<1>2. CASE AttackAndUpdate /\ SpawnEffect
  <2>1. /\ RoomTypeOK' /\ RoomShape' /\ AnnouncedShape' /\ MonstersShape'
        /\ monsters' \in [1..MonsterSlots -> Nat]
        /\ ~dungeonCleared' =>
              (roomChanged' <=> roomState'[currentRoom'] = "Ready")
    BY <1>1, <1>2, AttackFacts
  <2>2. FrameShape'
    BY <1>1, <2>1 DEF FrameShape
  <2>3. effects' \in [1..EffectSlots -> 0..Lifetime]
        /\ activeCount' = Cardinality(Active')
    BY <1>0, <1>2, SpawnKeepsCount DEF SceneTypeOK, PoolCountIsExact
  <2>4. PoolCountIsExact' /\ activeCount' \in Nat
    BY <1>0, <1>1, <2>3, PoolFacts DEF PoolCountIsExact
  <2>5. SceneTypeOK'
    BY <1>0, <1>1, <2>1, <2>3, <2>4 DEF SceneTypeOK
  <2> QED BY <2>1, <2>2, <2>4, <2>5 DEF SceneInv
<1>3. CASE UNCHANGED <<roomVars, monsters, effects, activeCount>>
  <2>1. SceneTypeOK' /\ RoomShape' /\ AnnouncedShape'
    BY <1>0, <1>1, <1>3
    DEF roomVars, SceneTypeOK, RoomTypeOK, RoomShape, RoomsInOrder,
        AnnouncedShape, ClearedCount
  <2>2. MonstersShape' /\ PoolCountIsExact'
    BY <1>0, <1>1, <1>3
    DEF roomVars, MonstersShape, PoolCountIsExact, Alive, Active, AliveCountOf
  <2>3. FrameShape'
    BY <1>0, <1>1, <1>3 DEF roomVars, FrameShape
  <2> QED BY <2>1, <2>2, <2>3 DEF SceneInv
<1> QED BY <1>2, <1>3 DEF AreaAttack

(* The attack in a cone, which may find the room just changed. *)
LEMMA ConeKeeps == SceneInv /\ ConeAttack => SceneInv'
<1> SUFFICES ASSUME SceneInv, ConeAttack PROVE SceneInv'
  OBVIOUS
<1>0. /\ RoomTypeOK /\ SceneTypeOK /\ RoomShape /\ MonstersShape /\ FrameShape
      /\ AnnouncedShape /\ PoolCountIsExact
  BY DEF SceneInv, SceneTypeOK
<1>1. /\ phase = "Attacked" /\ phase' = "ConeDone"
      /\ UNCHANGED <<gridded, position, grounded, effects, activeCount,
                     visibleCount, preparedFor, announced>>
  BY DEF ConeAttack
<1>2. FrameShape'
  BY <1>1 DEF FrameShape
<1>3. PoolCountIsExact'
  BY <1>0, <1>1 DEF PoolCountIsExact, Active
<1>4. CASE AttackAndUpdate
  <2>1. /\ RoomTypeOK' /\ RoomShape' /\ AnnouncedShape' /\ MonstersShape'
        /\ monsters' \in [1..MonsterSlots -> Nat]
    BY <1>1, <1>4, AttackFacts
  <2>2. SceneTypeOK'
    BY <1>0, <1>1, <2>1 DEF SceneTypeOK
  <2> QED BY <1>2, <1>3, <2>1, <2>2 DEF SceneInv
<1>5. CASE UNCHANGED <<roomVars, monsters>>
  <2>1. SceneTypeOK' /\ RoomShape' /\ AnnouncedShape'
    BY <1>0, <1>1, <1>5
    DEF roomVars, SceneTypeOK, RoomTypeOK, RoomShape, RoomsInOrder,
        AnnouncedShape, ClearedCount
  <2>2. MonstersShape'
    BY <1>0, <1>1, <1>5 DEF roomVars, MonstersShape, Alive, AliveCountOf
  <2> QED BY <1>2, <1>3, <2>1, <2>2 DEF SceneInv
<1> QED BY <1>4, <1>5 DEF ConeAttack

(* The end of a frame announces what was cleared, and draws what there is. *)
LEMMA AnnounceKeeps == SceneInv /\ AnnounceAndCollect => SceneInv'
<1> SUFFICES ASSUME SceneInv, AnnounceAndCollect PROVE SceneInv'
  OBVIOUS
<1> USE DEF AnnounceAndCollect
<1>0. /\ RoomTypeOK /\ SceneTypeOK /\ RoomShape /\ MonstersShape /\ FrameShape
      /\ AnnouncedShape /\ PoolCountIsExact
  BY DEF SceneInv, SceneTypeOK
<1>1. RoomTypeOK' /\ RoomShape' /\ MonstersShape' /\ FrameShape'
  BY <1>0
  DEF RoomTypeOK, RoomShape, RoomsInOrder, MonstersShape, FrameShape, Alive,
      AliveCountOf
<1>2. announced' = [room \in 1..ClearedCount |-> room]
  <2>1. CASE hasClearedRoom
    <3>1. /\ lastClearedRoom = ClearedCount
          /\ announced = [room \in 1..(ClearedCount - 1) |-> room]
      BY <1>0, <2>1 DEF AnnouncedShape
    <3>2. ClearedCount - 1 \in Nat /\ (ClearedCount - 1) + 1 = ClearedCount
      BY <1>0, <3>1, RoomFacts DEF RoomTypeOK
    <3>3. Append(announced, (ClearedCount - 1) + 1)
             = [room \in 1..((ClearedCount - 1) + 1) |-> room]
      BY <3>1, <3>2, CountOn
    <3>4. announced' = Append(announced, ClearedCount)
      BY <2>1, <3>1
    <3> QED BY <3>2, <3>3, <3>4
  <2>2. CASE ~hasClearedRoom
    BY <1>0, <2>2 DEF AnnouncedShape
  <2> QED BY <2>1, <2>2
<1>3. ClearedCount' = ClearedCount
  BY DEF ClearedCount
<1>4. AnnouncedShape'
  BY <1>2, <1>3 DEF AnnouncedShape
<1>5. PoolCountIsExact' /\ visibleCount' \in Nat
  <2>1. Active' = Active
    BY DEF Active
  <2> QED BY <1>0, <2>1, PoolFacts, SceneAssumption DEF PoolCountIsExact
<1>6. announced' \in Seq(RoomNumbers)
  <2>1. ClearedCount \in 0..Len(Rooms)
    BY <1>0, ClearedFacts
  <2>2. ClearedCount \in Nat /\ \A room \in 1..ClearedCount : room \in RoomNumbers
    BY <2>1, RoomFacts
  <2> HIDE DEF AnnounceAndCollect
  <2> QED BY <1>2, <2>2
<1>7. SceneTypeOK'
  BY <1>0, <1>1, <1>5, <1>6 DEF SceneTypeOK
<1> QED BY <1>1, <1>4, <1>5, <1>7 DEF SceneInv

(* Every step of the scene keeps the invariant. *)
LEMMA SceneInductive == SceneInv /\ [SceneNext]_allVars => SceneInv'
<1>1. SceneInv /\ UNCHANGED allVars => SceneInv'
  BY DEF allVars, sceneVars, roomVars, SceneInv, SceneTypeOK, RoomTypeOK,
         RoomShape, RoomsInOrder, MonstersShape, FrameShape, AnnouncedShape,
         ClearedCount, PoolCountIsExact, Alive, Active, AliveCountOf
<1> QED
  BY <1>1, RestartKeeps, ReconcileKeeps, PrepareKeeps, UpdateKeeps, AreaKeeps,
     ConeKeeps, AnnounceKeeps
  DEF SceneNext

-----------------------------------------------------------------------------
(* The invariant holds in every state of the scene. *)
THEOREM SceneInvariance == SceneSpec => []SceneInv
BY SceneInitially, SceneInductive, PTL DEF SceneSpec

(* The state of the scene and of its rooms keeps its types. *)
THEOREM SceneTypeCorrect == SceneSpec => []SceneTypeOK
<1>1. SceneInv => SceneTypeOK
  BY DEF SceneInv
<1> QED BY <1>1, SceneInvariance, PTL

(* Rooms are cleared in order, whatever attacks, moves and restarts do. *)
THEOREM RoomsKeptInOrder == SceneSpec => []RoomsInOrder
<1>1. SceneInv => RoomsInOrder
  BY DEF SceneInv, RoomShape
<1> QED BY <1>1, SceneInvariance, PTL

(* A fight can always go on: the room is entered, has a living monster, and *)
(* every living monster can be found by the attacks.                        *)
THEOREM FightAlwaysGoesOn == SceneSpec => []FightGoesOn
<1>1. SceneInv => FightGoesOn
  BY DEF SceneInv, FightGoesOn, FrameShape, MonstersShape
<1> QED BY <1>1, SceneInvariance, PTL

(* Every cleared room has been announced once, in order, at the end of a    *)
(* frame.                                                                   *)
THEOREM ClearsAlwaysAnnounced == SceneSpec => []ClearsAnnounced
<1>1. ASSUME SceneInv PROVE ClearsAnnounced
  <2> SUFFICES ASSUME phase = "Begin"
               PROVE  announced = [room \in 1..Cardinality({r \in RoomNumbers :
                                       roomState[r] = "Cleared"}) |-> room]
    BY DEF ClearsAnnounced
  <2>1. announced = [room \in 1..ClearedCount |-> room]
    BY <1>1 DEF SceneInv, FrameShape, AnnouncedShape
  <2>2. /\ ClearedCount \in Nat
        /\ {r \in RoomNumbers : roomState[r] = "Cleared"} = 1..ClearedCount
    BY <1>1, ClearedFacts, RoomFacts DEF SceneInv, SceneTypeOK
  <2>3. Cardinality(1..ClearedCount) = ClearedCount
    <3>1. ClearedCount \in Int /\ 1 \in Int
          /\ (1 > ClearedCount => ClearedCount = 0)
          /\ ClearedCount - 1 + 1 = ClearedCount
      BY <2>2
    <3> QED BY <3>1, FS_Interval
  <2> QED BY <2>1, <2>2, <2>3
<1>2. SceneInv => ClearsAnnounced
  BY <1>1
<1> QED BY <1>2, SceneInvariance, PTL

(* The counter of the effect pool is the number of its active effects, and  *)
(* what is collected to be drawn fits the array.                            *)
THEOREM PoolCountAlwaysExact == SceneSpec => []PoolCountIsExact
<1>1. SceneInv => PoolCountIsExact
  BY DEF SceneInv
<1> QED BY <1>1, SceneInvariance, PTL

(* A room is cleared only by the death of its own monsters: never on        *)
(* account of the dead of the room before it.                               *)
THEOREM ClearedOnlyByOwnMonsters == SceneSpec => ClearedByOwnMonsters
<1> DEFINE OwnMonsters ==
        \A room \in RoomNumbers :
           roomState[room] # "Cleared" /\ roomState'[room] = "Cleared" =>
              /\ preparedFor = room
              /\ \A slot \in 1..MonsterSlots : monsters'[slot] = 0
<1>1. ASSUME SceneInv, [SceneNext]_allVars PROVE OwnMonsters \/ UNCHANGED allVars
  <2>1. CASE roomState' = roomState
    BY <2>1
  <2>2. CASE RestartDungeon
    BY <2>2 DEF RestartDungeon, RestartRooms
  <2>3. CASE UpdateAfterMove
    <3>1. RoomShape' /\ SceneInv'
      BY <1>1, <2>3, UpdateKeeps DEF SceneInv
    <3>2. UNCHANGED roomVars \/ EnterRoom \/ ClearRoom
      BY <2>3 DEF UpdateAfterMove, UpdateRooms
    <3>3. ~hasClearedRoom'
      BY <2>3, <3>1 DEF SceneInv, FrameShape, UpdateAfterMove
    <3>4. UNCHANGED roomVars \/ EnterRoom
      BY <3>2, <3>3 DEF ClearRoom
    <3> QED BY <1>1, <3>4 DEF roomVars, EnterRoom, SceneInv, SceneTypeOK, RoomTypeOK
  <2>4. CASE AreaAttack
    <3>1. UNCHANGED roomState
             \/ (AttackAndUpdate
                   /\ UNCHANGED <<gridded, position, preparedFor, announced>>
                   /\ phase \in {"Moved", "Attacked"})
      BY <2>4 DEF AreaAttack, roomVars
    <3> QED BY <1>1, <3>1, AttackFacts
  <2>5. CASE ConeAttack
    <3>1. UNCHANGED roomState
             \/ (AttackAndUpdate
                   /\ UNCHANGED <<gridded, position, preparedFor, announced>>
                   /\ phase \in {"Moved", "Attacked"})
      BY <2>5 DEF ConeAttack, roomVars
    <3> QED BY <1>1, <3>1, AttackFacts
  <2> QED BY <1>1, <2>1, <2>2, <2>3, <2>4, <2>5
          DEF SceneNext, Reconcile, PrepareAndMove, AnnounceAndCollect, allVars,
              roomVars
<1>2. SceneInv /\ [SceneNext]_allVars => [OwnMonsters]_allVars
  BY <1>1
<1> QED BY <1>2, SceneInvariance, PTL DEF SceneSpec, ClearedByOwnMonsters

=============================================================================
