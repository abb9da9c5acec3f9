CONSTANTS
    Rooms <- MCRooms
    RoomLimit = 1
    MovementLimit = 1
    MonsterSlots = 3
    EffectSlots = 2
    Lifetime = 3
SPECIFICATION SceneSpec
INVARIANTS SceneTypeOK RoomsInOrder ClearsAnnounced FightGoesOn
    PoolCountIsExact
PROPERTIES ClearedByOwnMonsters
