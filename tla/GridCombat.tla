------------------------------ MODULE GridCombat ------------------------------
(***************************************************************************)
(* The broad and the narrow phase of an attack: SpatialGrid collects       *)
(* candidates from the cells around the attacker, CombatSystem tests them  *)
(* exactly and takes their health.  CombatSystem::ApplyAreaAttack, which   *)
(* looks at every monster, is the reference: the grid may save work and    *)
(* must not change the outcome.  Coordinates are integers in units finer   *)
(* than a cell, health is counted in attacks survived, and the width of a  *)
(* packed cell coordinate is a constant.                                   *)
(***************************************************************************)
EXTENDS Integers, FiniteSets

CONSTANTS
    SlotCount,    \* monsters_.size(), 100 in the code
    Points,       \* positions of attackers and monsters: [x, y], integers
    Layouts,      \* where PrepareCurrentRoom may place the monsters
    MaxHealth,    \* attacks the toughest monster survives
    CellSize,     \* cellSize_
    KeyBits,      \* bits of one coordinate in a packed key, 32 in the code
    Ranges,       \* ranges of attacks, 0.45 and 0.9 in the code: a query
                  \* does not reach round all the keys there are
    Directions    \* playerFacing_ as <<x, y>>, of any length but 0

Slots == 1..SlotCount

ASSUME GridAssumption ==
    /\ SlotCount \in Nat \ {0} /\ MaxHealth \in Nat \ {0}
    /\ Points \subseteq [x : Int, y : Int]
    /\ Layouts \subseteq [Slots -> Points] /\ Layouts # {}
    /\ CellSize \in Nat \ {0} /\ KeyBits \in Nat /\ 2^KeyBits \in Nat \ {0}
    /\ Ranges \subseteq Int
    /\ \A range \in Ranges : 2 * range <= CellSize * (2^KeyBits - 1)
    /\ Directions \subseteq (Int \X Int) \ {<<0, 0>>}

VARIABLES
    place,      \* position of every monster
    health,     \* health of every monster; alive means more than 0
    cells       \* cells_: for the keys in use, the monsters of that cell

gridVars == <<place, health, cells>>

(* SpatialGrid::ToCell, for one coordinate: \div rounds down, as floor. *)
ToCell(coordinate) == coordinate \div CellSize

Unsigned(n) == n % 2^KeyBits

(* A bug: the lower half is widened with its sign, so that a negative one *)
(* overwrites the upper half of the key.                                  *)
MutantSignExtended(x, y) ==
    IF y < 0 THEN y ELSE Unsigned(x) * 2^KeyBits + y

(* Both halves are made unsigned before they are put side by side. *)
MakeCellKey(x, y) == Unsigned(x) * 2^KeyBits + Unsigned(y)

KeyOf(point) == MakeCellKey(ToCell(point.x), ToCell(point.y))

(* SpatialGrid::Rebuild takes in who is alive. *)
Rebuild(places, healths) ==
    LET living == {slot \in Slots : healths[slot] > 0}
    IN  [key \in {KeyOf(places[slot]) : slot \in living} |->
            {slot \in living : KeyOf(places[slot]) = key}]

(* SpatialGrid::Query lists every cell that the square around the center   *)
(* touches, and so a monster as often as its cell is looked up.            *)
TimesFound(slot, center, radius) ==
    LET Touched(c) == ToCell(c - radius)..ToCell(c + radius)
    IN  IF radius < 0 THEN 0
        ELSE Cardinality({cell \in Touched(center.x) \X Touched(center.y) :
                LET key == MakeCellKey(cell[1], cell[2])
                IN  key \in DOMAIN cells /\ slot \in cells[key]})

Square(n) == n * n
DistanceSquared(p, q) == Square(p.x - q.x) + Square(p.y - q.y)

InRange(origin, range, point) ==
    range > 0 /\ DistanceSquared(point, origin) <= Square(range)

(* The angle to the direction is at most half a right angle: the           *)
(* comparison of the normalized dot product with cos(45 degrees), squared. *)
InCone(origin, direction, range, point) ==
    LET dot == (point.x - origin.x) * direction[1]
                 + (point.y - origin.y) * direction[2]
    IN  /\ InRange(origin, range, point)
        /\ \/ point = origin
           \/ /\ dot > 0
              /\ 2 * Square(dot) >= DistanceSquared(point, origin)
                    * (Square(direction[1]) + Square(direction[2]))

-----------------------------------------------------------------------------
(* The slots that the room does not use are dead and stay where they were. *)
Toughened(count, toughness) ==
    [slot \in Slots |-> IF slot <= count THEN toughness ELSE 0]

GridInit ==
    /\ place \in Layouts
    /\ \E count \in Slots, toughness \in 1..MaxHealth :
          health = Toughened(count, toughness)
    /\ cells = Rebuild(place, health)

(* DemoScene::PrepareCurrentRoom, for the next room or after a restart. *)
PrepareRoom(layout, count, toughness) ==
    /\ place' = [slot \in Slots |-> IF slot <= count THEN layout[slot]
                                    ELSE place[slot]]
    /\ health' = Toughened(count, toughness)
    /\ cells' = Rebuild(place', health')

(* A monster loses health at each visit, until it is dead. *)
Struck(visits) ==
    [slot \in Slots |-> IF visits[slot] < health[slot]
                        THEN health[slot] - visits[slot] ELSE 0]

(* CombatSystem::ApplyAreaAttackToCandidates, with the grid's candidates. *)
AfterAreaAttack(origin, range) ==
    Struck([slot \in Slots |-> IF InRange(origin, range, place[slot])
                               THEN TimesFound(slot, origin, range) ELSE 0])

(* CombatSystem::ApplyConeAttackToCandidates *)
AfterConeAttack(origin, direction, range) ==
    Struck([slot \in Slots |->
              IF InCone(origin, direction, range, place[slot])
              THEN TimesFound(slot, origin, range) ELSE 0])

(* CombatSystem::ApplyAreaAttack, without a grid: every monster once.  No *)
(* caller uses it.                                                        *)
AfterScan(origin, range) ==
    Struck([slot \in Slots |-> IF InRange(origin, range, place[slot])
                               THEN 1 ELSE 0])

(* The grid is not rebuilt for those who die. *)
AreaAttack(origin, range) ==
    health' = AfterAreaAttack(origin, range) /\ UNCHANGED <<place, cells>>

ConeAttack(origin, direction, range) ==
    /\ health' = AfterConeAttack(origin, direction, range)
    /\ UNCHANGED <<place, cells>>

GridNext ==
    \/ \E layout \in Layouts, count \in Slots, toughness \in 1..MaxHealth :
          PrepareRoom(layout, count, toughness)
    \/ \E origin \in Points, range \in Ranges : AreaAttack(origin, range)
    \/ \E origin \in Points, range \in Ranges, direction \in Directions :
          ConeAttack(origin, direction, range)

GridSpec == GridInit /\ [][GridNext]_gridVars

-----------------------------------------------------------------------------
(* The grid changes no outcome: wherever an attack starts, it leaves every *)
(* monster as the same attack over all monsters would, none missed and     *)
(* none hit twice, on either side of the origin, on the edge of a cell,    *)
(* and with the dead still listed.                                         *)
GridMissesNothing ==
    \A origin \in Points, range \in Ranges :
        /\ AfterAreaAttack(origin, range) = AfterScan(origin, range)
        /\ \A direction \in Directions :
              AfterConeAttack(origin, direction, range) =
                 [slot \in Slots |->
                     IF InCone(origin, direction, range, place[slot])
                     THEN AfterScan(origin, range)[slot] ELSE health[slot]]
=============================================================================
