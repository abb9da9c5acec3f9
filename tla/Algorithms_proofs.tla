---------------------------- MODULE Algorithms_proofs ----------------------------
(***************************************************************************)
(* Proofs about the three algorithms that keep state between their calls.  *)
(* Grid: for any number of monsters, any positions and any size of a cell, *)
(* a monster in reach is in a cell that is looked up, and no two cells     *)
(* that are looked up share a key, so it is found once.  Statistics: for   *)
(* any capacity of the circle and any history of samples, a snapshot is of *)
(* the newest ones.  Buffer: for any widths of the two kinds of size, what *)
(* is written fits.                                                        *)
(***************************************************************************)
EXTENDS GridCombat, FrameTimeStatistics, InstanceBuffer, FiniteSetTheorems,
        FunctionTheorems, SequenceTheorems, WellFoundedInduction, TLAPS

GridTypeOK == place \in [Slots -> Points] /\ health \in [Slots -> Nat]

(* The cells hold every living monster at its own key, and nobody at any   *)
(* other.                                                                  *)
CellsHoldLiving ==
    /\ \A slot \in Slots : health[slot] > 0 =>
          KeyOf(place[slot]) \in DOMAIN cells /\ slot \in cells[KeyOf(place[slot])]
    /\ \A key \in DOMAIN cells : \A slot \in cells[key] : KeyOf(place[slot]) = key

GridInv == GridTypeOK /\ CellsHoldLiving

Keys == 2^KeyBits

-----------------------------------------------------------------------------
(* Cells and keys *)

LEMMA PointFacts ==
    ASSUME NEW point \in Points
    PROVE  point.x \in Int /\ point.y \in Int
BY GridAssumption

(* Cells are in the order of their coordinates.                            *)
LEMMA CellFacts ==
    ASSUME NEW c \in Int
    PROVE  /\ ToCell(c) \in Int
           /\ CellSize * ToCell(c) <= c /\ c < CellSize * ToCell(c) + CellSize
BY GridAssumption DEF ToCell

LEMMA CellsInOrder ==
    ASSUME NEW c \in Int, NEW d \in Int, c <= d
    PROVE  ToCell(c) <= ToCell(d)
<1> DEFINE a == ToCell(c)
           b == ToCell(d)
<1>1. /\ a \in Int /\ b \in Int /\ CellSize \in Nat \ {0}
      /\ CellSize * a <= c /\ d < CellSize * b + CellSize
  BY CellFacts, GridAssumption
<1> HIDE DEF a, b
<1>2. SUFFICES ASSUME b + 1 <= a PROVE FALSE
  BY <1>1 DEF a, b
<1>3. CellSize * (b + 1) <= CellSize * a
  BY <1>1, <1>2
<1>4. CellSize * (b + 1) = CellSize * b + CellSize
  BY <1>1
<1>5. CellSize * a \in Int /\ CellSize * b \in Int
  BY <1>1
<1> QED BY ONLY <1>1, <1>3, <1>4, <1>5, c \in Int, d \in Int, c <= d

(* A query touches fewer cells in a line than there are keys.              *)
LEMMA FewCells ==
    ASSUME NEW c \in Int, NEW range \in Ranges, range > 0
    PROVE  ToCell(c + range) - ToCell(c - range) < Keys
<1> DEFINE a == ToCell(c - range)
           b == ToCell(c + range)
<1>1. /\ range \in Int /\ CellSize \in Nat \ {0} /\ Keys \in Nat \ {0}
      /\ 2 * range <= CellSize * (Keys - 1)
  BY GridAssumption DEF Keys
<1>2. /\ a \in Int /\ b \in Int
      /\ c - range < CellSize * a + CellSize /\ CellSize * b <= c + range
  BY <1>1, CellFacts
<1> HIDE DEF a, b
<1>3. CellSize * (Keys - 1) = CellSize * Keys - CellSize
  BY <1>1
<1>4. CellSize * a \in Int /\ CellSize * b \in Int /\ CellSize * Keys \in Int
  BY <1>1, <1>2
<1>5. CellSize * b - CellSize * a < CellSize * Keys
  BY ONLY <1>1, <1>2, <1>3, <1>4, c \in Int
<1>6. SUFFICES ASSUME Keys <= b - a PROVE FALSE
  BY <1>1, <1>2 DEF a, b
<1>7. CellSize * Keys <= CellSize * (b - a)
  BY <1>1, <1>2, <1>6
<1>8. CellSize * (b - a) = CellSize * b - CellSize * a
  BY <1>1, <1>2
<1> QED BY ONLY <1>4, <1>5, <1>7, <1>8

(* Coordinates nearer to each other than there are keys have keys of their *)
(* own.                                                                    *)
LEMMA UnsignedFacts ==
    ASSUME NEW n \in Int
    PROVE  Unsigned(n) \in 0..Keys - 1
BY GridAssumption DEF Unsigned, Keys

LEMMA UnsignedApart ==
    ASSUME NEW m \in Int, NEW n \in Int, m - n < Keys, n - m < Keys,
           Unsigned(m) = Unsigned(n)
    PROVE  m = n
<1> DEFINE a == m \div Keys
           b == n \div Keys
<1>1. Keys \in Nat \ {0}
  BY GridAssumption DEF Keys
<1>2. /\ a \in Int /\ b \in Int
      /\ m = Keys * a + Unsigned(m) /\ n = Keys * b + Unsigned(n)
  <2>1. \A i \in Int, k \in Nat \ {0} : i \div k \in Int /\ i = k * (i \div k) + (i % k)
    OBVIOUS
  <2> QED BY <1>1, <2>1 DEF Unsigned, Keys
<1> HIDE DEF a, b
<1>3. Unsigned(m) \in Int /\ Unsigned(n) \in Int
  BY <1>1, UnsignedFacts
<1>4. Keys * a \in Int /\ Keys * b \in Int
  BY <1>1, <1>2
<1>5. Keys * a - Keys * b < Keys /\ Keys * b - Keys * a < Keys
  BY ONLY <1>1, <1>2, <1>3, <1>4, m \in Int, n \in Int, m - n < Keys, n - m < Keys,
          Unsigned(m) = Unsigned(n)
<1>6. ~(a + 1 <= b)
  <2> SUFFICES ASSUME a + 1 <= b PROVE FALSE
    OBVIOUS
  <2>1. Keys * (a + 1) <= Keys * b
    BY <1>1, <1>2
  <2>2. Keys * (a + 1) = Keys * a + Keys
    BY <1>1, <1>2
  <2> QED BY ONLY <2>1, <2>2, <1>1, <1>4, <1>5
<1>7. ~(b + 1 <= a)
  <2> SUFFICES ASSUME b + 1 <= a PROVE FALSE
    OBVIOUS
  <2>1. Keys * (b + 1) <= Keys * a
    BY <1>1, <1>2
  <2>2. Keys * (b + 1) = Keys * b + Keys
    BY <1>1, <1>2
  <2> QED BY ONLY <2>1, <2>2, <1>1, <1>4, <1>5
<1>8. a = b
  BY ONLY <1>2, <1>6, <1>7
<1> QED BY <1>2, <1>8

(* A key tells the two halves it is made of.                               *)
LEMMA KeyHalves ==
    ASSUME NEW x \in Int, NEW y \in Int, NEW u \in Int, NEW v \in Int,
           MakeCellKey(x, y) = MakeCellKey(u, v)
    PROVE  Unsigned(x) = Unsigned(u) /\ Unsigned(y) = Unsigned(v)
<1> DEFINE a == Unsigned(x)
           b == Unsigned(y)
           c == Unsigned(u)
           d == Unsigned(v)
<1>1. /\ Keys \in Nat \ {0}
      /\ a \in 0..Keys - 1 /\ b \in 0..Keys - 1 /\ c \in 0..Keys - 1 /\ d \in 0..Keys - 1
  BY UnsignedFacts, GridAssumption DEF Keys
<1>2. a * Keys + b = c * Keys + d
  BY DEF MakeCellKey, Keys
<1> HIDE DEF a, b, c, d
<1>3. a * Keys \in Int /\ c * Keys \in Int
  BY <1>1
<1>4. ~(a + 1 <= c)
  <2> SUFFICES ASSUME a + 1 <= c PROVE FALSE
    OBVIOUS
  <2>1. (a + 1) * Keys <= c * Keys
    BY <1>1
  <2>2. (a + 1) * Keys = a * Keys + Keys
    BY <1>1
  <2> QED BY ONLY <1>1, <1>2, <1>3, <2>1, <2>2
<1>5. ~(c + 1 <= a)
  <2> SUFFICES ASSUME c + 1 <= a PROVE FALSE
    OBVIOUS
  <2>1. (c + 1) * Keys <= a * Keys
    BY <1>1
  <2>2. (c + 1) * Keys = c * Keys + Keys
    BY <1>1
  <2> QED BY ONLY <1>1, <1>2, <1>3, <2>1, <2>2
<1>6. a = c
  BY ONLY <1>1, <1>4, <1>5
<1>7. b = d
  BY ONLY <1>1, <1>2, <1>3, <1>6
<1> QED BY <1>6, <1>7 DEF a, b, c, d

(* What is in range is in the square around the origin.                    *)
LEMMA SquareAround ==
    ASSUME NEW origin \in Points, NEW point \in Points, NEW range \in Int,
           InRange(origin, range, point)
    PROVE  /\ range > 0
           /\ origin.x - range <= point.x /\ point.x <= origin.x + range
           /\ origin.y - range <= point.y /\ point.y <= origin.y + range
<1>1. \A r \in Int, s \in Int, t \in Int :
         r > 0 /\ s * s + t * t <= r * r => s <= r /\ -r <= s /\ t <= r /\ -r <= t
  <2> SUFFICES ASSUME NEW r \in Int, NEW s \in Int, NEW t \in Int,
                      r > 0, s * s + t * t <= r * r
               PROVE  s <= r /\ -r <= s /\ t <= r /\ -r <= t
    OBVIOUS
  <2>1. s * s >= 0 /\ t * t >= 0 /\ s * s \in Int /\ t * t \in Int /\ r * r \in Int
    OBVIOUS
  <2>2. s * s <= r * r /\ t * t <= r * r
    BY ONLY <2>1, s * s + t * t <= r * r
  <2>3. \A n \in Int : n * n <= r * r => n <= r /\ -r <= n
    OBVIOUS
  <2> QED BY <2>2, <2>3
<1> DEFINE s == point.x - origin.x
           t == point.y - origin.y
<1>2. /\ s \in Int /\ t \in Int /\ range > 0 /\ s * s + t * t <= range * range
  BY PointFacts DEF InRange, DistanceSquared, Square
<1> HIDE DEF s, t
<1>3. s <= range /\ -range <= s /\ t <= range /\ -range <= t
  BY <1>1, <1>2
<1> QED BY <1>2, <1>3, PointFacts DEF s, t

-----------------------------------------------------------------------------
(* Queries *)

(* The cells that a query looks up and the slot is listed in.              *)
CellsFound(slot, center, radius) ==
    {cell \in (ToCell(center.x - radius)..ToCell(center.x + radius))
                \X (ToCell(center.y - radius)..ToCell(center.y + radius)) :
        LET key == MakeCellKey(cell[1], cell[2])
        IN  key \in DOMAIN cells /\ slot \in cells[key]}

LEMMA TimesFoundIsNat ==
    ASSUME NEW slot \in Slots, NEW origin \in Points, NEW range \in Ranges
    PROVE  TimesFound(slot, origin, range) \in Nat
<1> DEFINE Touched(c) == ToCell(c - range)..ToCell(c + range)
<1>1. /\ range \in Int /\ origin.x \in Int /\ origin.y \in Int
  BY PointFacts, GridAssumption
<1>2. IsFiniteSet(Touched(origin.x)) /\ IsFiniteSet(Touched(origin.y))
  <2>1. \A c \in Int : c - range \in Int /\ c + range \in Int
    BY <1>1
  <2>2. \A c \in Int : ToCell(c - range) \in Int /\ ToCell(c + range) \in Int
    BY <2>1, CellFacts
  <2> QED BY <1>1, <2>2, FS_Interval
<1>3. IsFiniteSet(Touched(origin.x) \X Touched(origin.y))
  BY <1>2, FS_Product
<1>4. CellsFound(slot, origin, range) \in SUBSET (Touched(origin.x) \X Touched(origin.y))
  BY DEF CellsFound
<1>5. IsFiniteSet(CellsFound(slot, origin, range))
  BY <1>3, <1>4, FS_Subset
<1>6. Cardinality(CellsFound(slot, origin, range)) \in Nat
  BY <1>5, FS_CardinalityType
<1> QED BY <1>6 DEF TimesFound, CellsFound

(* A living monster in range is found once.                                *)
LEMMA FoundOnce ==
    ASSUME GridInv, NEW slot \in Slots, health[slot] > 0,
           NEW origin \in Points, NEW range \in Ranges,
           InRange(origin, range, place[slot])
    PROVE  TimesFound(slot, origin, range) = 1
<1> DEFINE point == place[slot]
           home == <<ToCell(point.x), ToCell(point.y)>>
           Touched(c) == ToCell(c - range)..ToCell(c + range)
<1>1. point \in Points
  BY DEF GridInv, GridTypeOK
<1>2. /\ range \in Int /\ origin.x \in Int /\ origin.y \in Int
      /\ point.x \in Int /\ point.y \in Int
  BY <1>1, PointFacts, GridAssumption
<1>3. /\ range > 0
      /\ origin.x - range <= point.x /\ point.x <= origin.x + range
      /\ origin.y - range <= point.y /\ point.y <= origin.y + range
  BY <1>1, <1>2, SquareAround
<1>4. \A c \in Int : /\ ToCell(c) \in Int /\ ToCell(c - range) \in Int
                     /\ ToCell(c + range) \in Int
                     /\ ToCell(c + range) - ToCell(c - range) < Keys
  <2> SUFFICES ASSUME NEW c \in Int
               PROVE  /\ ToCell(c) \in Int /\ ToCell(c - range) \in Int
                      /\ ToCell(c + range) \in Int
                      /\ ToCell(c + range) - ToCell(c - range) < Keys
    OBVIOUS
  <2>1. c - range \in Int /\ c + range \in Int
    BY <1>2
  <2>2. /\ ToCell(c) \in Int /\ ToCell(c - range) \in Int
        /\ ToCell(c + range) \in Int
    BY <2>1, CellFacts
  <2>3. ToCell(c + range) - ToCell(c - range) < Keys
    BY <1>3, FewCells
  <2> QED BY <2>2, <2>3
<1>5. ToCell(point.x) \in Touched(origin.x) /\ ToCell(point.y) \in Touched(origin.y)
  <2>1. /\ origin.x - range \in Int /\ origin.x + range \in Int
        /\ origin.y - range \in Int /\ origin.y + range \in Int
    BY <1>2
  <2>2. /\ ToCell(origin.x - range) <= ToCell(point.x)
        /\ ToCell(point.x) <= ToCell(origin.x + range)
        /\ ToCell(origin.y - range) <= ToCell(point.y)
        /\ ToCell(point.y) <= ToCell(origin.y + range)
    BY <1>2, <1>3, <2>1, CellsInOrder
  <2>3. /\ ToCell(origin.x - range) \in Int /\ ToCell(point.x) \in Int
        /\ ToCell(origin.x + range) \in Int /\ ToCell(origin.y - range) \in Int
        /\ ToCell(point.y) \in Int /\ ToCell(origin.y + range) \in Int
    BY <1>2, <1>4
  <2> HIDE DEF point
  <2> QED BY ONLY <2>2, <2>3
<1>6. home \in CellsFound(slot, origin, range)
  <2>1. MakeCellKey(home[1], home[2]) = KeyOf(place[slot])
    BY DEF KeyOf
  <2>2. KeyOf(place[slot]) \in DOMAIN cells /\ slot \in cells[KeyOf(place[slot])]
    BY DEF GridInv, CellsHoldLiving
  <2>3. home \in Touched(origin.x) \X Touched(origin.y)
    BY <1>5
  <2> HIDE DEF home, Touched
  <2> QED BY <2>1, <2>2, <2>3 DEF CellsFound, Touched
<1>7. ASSUME NEW cell \in CellsFound(slot, origin, range)
      PROVE  cell = home
  <2>1. /\ cell \in Touched(origin.x) \X Touched(origin.y)
        /\ MakeCellKey(cell[1], cell[2]) \in DOMAIN cells
        /\ slot \in cells[MakeCellKey(cell[1], cell[2])]
    BY DEF CellsFound
  <2>2. /\ cell[1] \in Touched(origin.x) /\ cell[2] \in Touched(origin.y)
        /\ cell = <<cell[1], cell[2]>>
    BY <2>1
  <2>3. KeyOf(point) = MakeCellKey(cell[1], cell[2])
    BY <2>1 DEF GridInv, CellsHoldLiving
  <2>4. /\ cell[1] \in Int /\ cell[2] \in Int
        /\ ToCell(point.x) \in Int /\ ToCell(point.y) \in Int
    <3>1. cell[1] \in Int /\ cell[2] \in Int
      BY <1>2, <1>4, <2>2
    <3>2. ToCell(point.x) \in Int /\ ToCell(point.y) \in Int
      BY <1>2, <1>4
    <3> QED BY <3>1, <3>2
  <2>5. /\ Unsigned(cell[1]) = Unsigned(ToCell(point.x))
        /\ Unsigned(cell[2]) = Unsigned(ToCell(point.y))
    BY <2>3, <2>4, KeyHalves DEF KeyOf
  <2>6. Keys \in Int
    BY GridAssumption DEF Keys
  <2>7. cell[1] - ToCell(point.x) < Keys /\ ToCell(point.x) - cell[1] < Keys
    BY <1>2, <1>4, <1>5, <2>2, <2>4, <2>6
  <2>8. cell[2] - ToCell(point.y) < Keys /\ ToCell(point.y) - cell[2] < Keys
    BY <1>2, <1>4, <1>5, <2>2, <2>4, <2>6
  <2>9. cell[1] = ToCell(point.x) /\ cell[2] = ToCell(point.y)
    BY <2>4, <2>5, <2>7, <2>8, UnsignedApart
  <2> QED BY <2>2, <2>9
<1>8. CellsFound(slot, origin, range) = {home}
  <2> HIDE DEF home
  <2> QED BY <1>6, <1>7
<1>9. Cardinality(CellsFound(slot, origin, range)) = 1
  <2> HIDE DEF home
  <2> QED BY <1>8, FS_Singleton
<1>10. TimesFound(slot, origin, range) = Cardinality(CellsFound(slot, origin, range))
  BY <1>2, <1>3 DEF TimesFound, CellsFound
<1> QED BY <1>9, <1>10

-----------------------------------------------------------------------------
(* Attacks *)

LEMMA StruckFacts ==
    ASSUME GridInv, NEW visits \in [Slots -> Nat]
    PROVE  /\ Struck(visits) \in [Slots -> Nat]
           /\ \A slot \in Slots : Struck(visits)[slot] > 0 => health[slot] > 0
BY DEF GridInv, GridTypeOK, Struck

(* Visits that agree on the living leave the same health.                  *)
LEMMA StruckAlike ==
    ASSUME GridInv, NEW many \in [Slots -> Nat], NEW few \in [Slots -> Nat],
           \A slot \in Slots : health[slot] > 0 => many[slot] = few[slot]
    PROVE  Struck(many) = Struck(few)
<1>1. \A slot \in Slots : health[slot] \in Nat
  BY DEF GridInv, GridTypeOK
<1>2. \A slot \in Slots : Struck(many)[slot] = Struck(few)[slot]
  BY <1>1 DEF Struck
<1>3. Struck(many) \in [Slots -> Nat] /\ Struck(few) \in [Slots -> Nat]
  BY StruckFacts
<1> QED BY <1>2, <1>3

(* Who is visited in an area attack, and in a cone attack.                 *)
AreaVisits(origin, range) ==
    [slot \in Slots |-> IF InRange(origin, range, place[slot])
                        THEN TimesFound(slot, origin, range) ELSE 0]
ConeVisits(origin, direction, range) ==
    [slot \in Slots |-> IF InCone(origin, direction, range, place[slot])
                        THEN TimesFound(slot, origin, range) ELSE 0]

LEMMA VisitsFacts ==
    ASSUME NEW origin \in Points, NEW range \in Ranges
    PROVE  /\ AreaVisits(origin, range) \in [Slots -> Nat]
           /\ \A direction : ConeVisits(origin, direction, range) \in [Slots -> Nat]
BY TimesFoundIsNat DEF AreaVisits, ConeVisits

LEMMA GridExact == GridInv => GridMissesNothing
<1> SUFFICES ASSUME GridInv, NEW origin \in Points, NEW range \in Ranges
             PROVE  /\ AfterAreaAttack(origin, range) = AfterScan(origin, range)
                    /\ \A direction \in Directions :
                          AfterConeAttack(origin, direction, range) =
                             [slot \in Slots |->
                                 IF InCone(origin, direction, range, place[slot])
                                 THEN AfterScan(origin, range)[slot] ELSE health[slot]]
  BY DEF GridMissesNothing
<1> DEFINE once == [slot \in Slots |-> IF InRange(origin, range, place[slot])
                                       THEN 1 ELSE 0]
<1>1. once \in [Slots -> Nat]
  OBVIOUS
<1>2. AfterAreaAttack(origin, range) = AfterScan(origin, range)
  <2>1. \A slot \in Slots : health[slot] > 0 =>
           AreaVisits(origin, range)[slot] = once[slot]
    BY FoundOnce DEF AreaVisits
  <2>2. Struck(AreaVisits(origin, range)) = Struck(once)
    <3> HIDE DEF once
    <3> QED BY <1>1, <2>1, VisitsFacts, StruckAlike
  <2> QED BY <2>2 DEF AfterAreaAttack, AfterScan, AreaVisits
<1>3. ASSUME NEW direction \in Directions
      PROVE  AfterConeAttack(origin, direction, range) =
                [slot \in Slots |->
                    IF InCone(origin, direction, range, place[slot])
                    THEN AfterScan(origin, range)[slot] ELSE health[slot]]
  <2> DEFINE coned == [slot \in Slots |->
                          IF InCone(origin, direction, range, place[slot])
                          THEN 1 ELSE 0]
             expected == [slot \in Slots |->
                             IF InCone(origin, direction, range, place[slot])
                             THEN AfterScan(origin, range)[slot] ELSE health[slot]]
  <2>1. \A slot \in Slots : InCone(origin, direction, range, place[slot]) =>
           InRange(origin, range, place[slot])
    BY DEF InCone
  <2>2. \A slot \in Slots : health[slot] > 0 =>
           ConeVisits(origin, direction, range)[slot] = coned[slot]
    BY <2>1, FoundOnce DEF ConeVisits
  <2>3. coned \in [Slots -> Nat]
    OBVIOUS
  <2>4. Struck(ConeVisits(origin, direction, range)) = Struck(coned)
    <3> HIDE DEF coned
    <3> QED BY <2>2, <2>3, VisitsFacts, StruckAlike
  <2>5. \A slot \in Slots : health[slot] \in Nat
    BY DEF GridInv, GridTypeOK
  <2>6. \A slot \in Slots : Struck(coned)[slot] = expected[slot]
    BY <2>1, <2>5 DEF Struck, AfterScan
  <2>7. Struck(coned) = expected
    BY <2>6 DEF Struck
  <2> QED BY <2>4, <2>7 DEF AfterConeAttack, ConeVisits
<1> QED BY <1>2, <1>3

-----------------------------------------------------------------------------
(* The invariant *)

LEMMA RebuildFacts ==
    ASSUME NEW places \in [Slots -> Points], NEW healths \in [Slots -> Nat]
    PROVE  /\ \A slot \in Slots : healths[slot] > 0 =>
                 /\ KeyOf(places[slot]) \in DOMAIN Rebuild(places, healths)
                 /\ slot \in Rebuild(places, healths)[KeyOf(places[slot])]
           /\ \A key \in DOMAIN Rebuild(places, healths) :
                 \A slot \in Rebuild(places, healths)[key] : KeyOf(places[slot]) = key
BY DEF Rebuild

LEMMA ToughenedFacts ==
    ASSUME NEW count \in Slots, NEW toughness \in 1..MaxHealth
    PROVE  Toughened(count, toughness) \in [Slots -> Nat]
BY GridAssumption DEF Toughened

(* An attack moves nobody, and the dead stay listed.                       *)
LEMMA AttackKeeps ==
    ASSUME GridInv, NEW visits \in [Slots -> Nat], health' = Struck(visits),
           UNCHANGED <<place, cells>>
    PROVE  GridInv'
<1>1. health' \in [Slots -> Nat] /\ \A slot \in Slots : health'[slot] > 0 => health[slot] > 0
  BY StruckFacts
<1> QED BY <1>1 DEF GridInv, GridTypeOK, CellsHoldLiving

(* GridInv holds throughout.                                               *)
THEOREM GridInvariance == GridSpec => []GridInv
<1>1. GridInit => GridInv
  <2> SUFFICES ASSUME GridInit PROVE GridInv
    OBVIOUS
  <2>1. place \in [Slots -> Points]
    BY GridAssumption DEF GridInit
  <2>2. health \in [Slots -> Nat]
    BY ToughenedFacts DEF GridInit
  <2>3. cells = Rebuild(place, health)
    BY DEF GridInit
  <2> QED BY <2>1, <2>2, <2>3, RebuildFacts DEF GridInv, GridTypeOK, CellsHoldLiving
<1>2. GridInv /\ [GridNext]_gridVars => GridInv'
  <2> SUFFICES ASSUME GridInv, [GridNext]_gridVars PROVE GridInv'
    OBVIOUS
  <2>1. ASSUME NEW layout \in Layouts, NEW count \in Slots,
               NEW toughness \in 1..MaxHealth, PrepareRoom(layout, count, toughness)
        PROVE  GridInv'
    <3>1. place' \in [Slots -> Points]
      BY <2>1, GridAssumption DEF PrepareRoom, GridInv, GridTypeOK
    <3>2. health' \in [Slots -> Nat]
      BY <2>1, ToughenedFacts DEF PrepareRoom
    <3>3. cells' = Rebuild(place', health')
      BY <2>1 DEF PrepareRoom
    <3> QED BY <3>1, <3>2, <3>3, RebuildFacts DEF GridInv, GridTypeOK, CellsHoldLiving
  <2>2. ASSUME NEW origin \in Points, NEW range \in Ranges, AreaAttack(origin, range)
        PROVE  GridInv'
    BY <2>2, VisitsFacts, AttackKeeps DEF AreaAttack, AfterAreaAttack, AreaVisits
  <2>3. ASSUME NEW origin \in Points, NEW range \in Ranges,
               NEW direction \in Directions, ConeAttack(origin, direction, range)
        PROVE  GridInv'
    BY <2>3, VisitsFacts, AttackKeeps DEF ConeAttack, AfterConeAttack, ConeVisits
  <2>4. CASE UNCHANGED gridVars
    BY <2>4 DEF gridVars, GridInv, GridTypeOK, CellsHoldLiving
  <2> QED BY <2>1, <2>2, <2>3, <2>4 DEF GridNext
<1> QED BY <1>1, <1>2, PTL DEF GridSpec

(* The grid of SpatialGrid.cpp changes no outcome: whatever the size of a  *)
(* cell, an attack through it misses no monster and hits none twice.       *)
THEOREM GridNeverMisses == GridSpec => []GridMissesNothing
<1>1. GridInv => GridMissesNothing
  BY GridExact
<1> QED BY <1>1, GridInvariance, PTL

-----------------------------------------------------------------------------
(* Recursion over numbers: a set with zero that is closed under the        *)
(* successor has every number.                                             *)
LEMMA Induction ==
    ASSUME NEW S, 0 \in S, \A n \in Nat : n \in S => n + 1 \in S
    PROVE  Nat \subseteq S
<1> DEFINE T == Nat \ S
           R == OpToRel(<, Nat)
<1> SUFFICES ASSUME T # {} PROVE FALSE
  OBVIOUS
<1>1. IsWellFoundedOn(R, Nat)
  BY NatLessThanWellFounded, Zenon
<1>2. T \subseteq Nat
  OBVIOUS
<1>3. \E x \in T : \A y \in T : ~(<<y, x>> \in R)
  <2> HIDE DEF T, R
  <2> QED BY <1>1, <1>2, WFMin, Zenon
<1>4. PICK x \in T : \A y \in T : ~(<<y, x>> \in R)
  BY <1>3
<1>5. \A y \in T : ~(y < x)
  BY <1>4, Zenon DEF OpToRel
<1>6. x # 0 /\ x - 1 \in Nat /\ x = (x - 1) + 1 /\ x - 1 < x
  OBVIOUS
<1> QED BY <1>5, <1>6

-----------------------------------------------------------------------------
(* The buffer of instances *)

(* The buffer is as large as its capacity says, and has been asked for more *)
(* than half of it.                                                         *)
BufferInv ==
    /\ instanceBufferCapacity \in Sizes \ {0} /\ largest \in Sizes
    /\ byteWidth = instanceBufferCapacity * InstanceBytes
    /\ submitted \in Sizes /\ dropped \in Nat
    /\ submitted - dropped <= instanceBufferCapacity
    /\ instanceBufferCapacity < 2 * largest

LEMMA SizeFacts ==
    /\ MaximumSize \in Nat /\ Sizes = 0..MaximumSize
    /\ MaximumBufferBytes \in Nat /\ MaximumBufferBytes <= MaximumSize
    /\ 2^UIntBits = MaximumBufferBytes + 1
    /\ InstanceBytes \in Nat \ {0} /\ InitialInstanceCapacity \in Nat \ {0}
    /\ InitialInstanceCapacity * InstanceBytes \in 1..MaximumBufferBytes
<1>1. /\ 2^UIntBits \in Nat /\ 2^SizeBits \in Nat /\ 2^UIntBits <= 2^SizeBits
      /\ InstanceBytes \in Nat \ {0} /\ InitialInstanceCapacity \in Nat \ {0}
      /\ InitialInstanceCapacity * InstanceBytes < 2^UIntBits
  BY BufferAssumption
<1>2. InitialInstanceCapacity * InstanceBytes \in Nat \ {0}
  BY <1>1
<1> DEFINE u == 2^UIntBits
           s == 2^SizeBits
           p == InitialInstanceCapacity * InstanceBytes
<1>3. MaximumSize = s - 1 /\ MaximumBufferBytes = u - 1 /\ Sizes = 0..(s - 1)
  BY DEF MaximumSize, MaximumBufferBytes, Sizes
<1> HIDE DEF u, s, p
<1>4. u \in Nat /\ s \in Nat /\ u <= s /\ p < u /\ p \in Nat \ {0}
  BY <1>1, <1>2 DEF u, s, p
<1> QED BY <1>1, <1>3, <1>4 DEF u, p

(* A size of at most b bytes: so many items of InstanceBytes fit. *)
LEMMA Quotient ==
    ASSUME NEW b \in Nat, NEW c \in Nat, NEW d \in Nat \ {0}, c <= b \div d
    PROVE  d * c <= b /\ d * c \in Nat /\ d * c = c * d
<1>1. b \div d \in Nat /\ d * (b \div d) <= b
  BY SMT
<1>2. d * c <= d * (b \div d)
  BY <1>1, SMT
<1> QED BY <1>1, <1>2, SMT

(* A product is no less for a larger factor. *)
LEMMA Monotone ==
    ASSUME NEW a \in Int, NEW b \in Int, NEW d \in Nat, a <= b
    PROVE  a * d <= b * d
BY SMT
-----------------------------------------------------------------------------
(* Doubling *)

From(required) ==
    CHOOSE from : from = [capacity \in Sizes |->
            IF capacity >= required THEN capacity
            ELSE IF capacity > MaximumSize \div 2 THEN NoCapacity
            ELSE from[capacity * 2]]

(* The recursion of Doubled can be solved: from the capacities that cannot *)
(* be doubled downwards.                                                   *)
LEMMA DoublingExists ==
    ASSUME NEW required \in Nat
    PROVE  From(required) = [capacity \in Sizes |->
              IF capacity >= required THEN capacity
              ELSE IF capacity > MaximumSize \div 2 THEN NoCapacity
              ELSE From(required)[capacity * 2]]
<1> DEFINE Value(g, c) == IF c >= required THEN c
                          ELSE IF c > MaximumSize \div 2 THEN NoCapacity
                          ELSE g[c * 2]
           Solves(g, n) == /\ g = [c \in Sizes |-> g[c]]
                           /\ \A c \in Sizes : c # 0 /\ c > MaximumSize - n =>
                                 g[c] = Value(g, c)
           Solved == {n \in Nat : \E g : Solves(g, n)}
<1> USE SizeFacts
<1>1. 0 \in Solved
  <2> DEFINE g == [c \in Sizes |-> 0]
  <2>1. Solves(g, 0)
    OBVIOUS
  <2> QED BY <2>1
<1>2. ASSUME NEW n \in Nat, n \in Solved PROVE n + 1 \in Solved
  <2>1. PICK g : Solves(g, n)
    BY <1>2
  <2> DEFINE more == [c \in Sizes |-> IF c = MaximumSize - n THEN Value(g, c)
                                      ELSE g[c]]
  <2>2. more = [c \in Sizes |-> more[c]]
    OBVIOUS
  <2>3. ASSUME NEW c \in Sizes, c # 0, c > MaximumSize - (n + 1)
        PROVE  more[c] = Value(more, c)
    <3>1. c <= MaximumSize \div 2 => c * 2 \in Sizes /\ c * 2 # MaximumSize - n
      BY <2>3
    <3>2. c <= MaximumSize \div 2 => more[c * 2] = g[c * 2]
      BY <3>1
    <3>3. Value(more, c) = Value(g, c)
      <4> HIDE DEF more
      <4> QED BY <3>2
    <3>4. c = MaximumSize - n \/ c > MaximumSize - n
      BY <2>3
    <3>5. more[c] = Value(g, c)
      <4>1. CASE c = MaximumSize - n
        BY <4>1
      <4>2. CASE c > MaximumSize - n
        <5>1. g[c] = Value(g, c)
          BY <2>1, <2>3, <4>2
        <5>2. more[c] = g[c]
          BY <4>2
        <5> QED BY <5>1, <5>2
      <4> QED BY <3>4, <4>1, <4>2
    <3> QED BY <3>3, <3>5
  <2>4. Solves(more, n + 1)
    <3> HIDE DEF more, Value
    <3> QED BY <2>2, <2>3
  <2> HIDE DEF Solves
  <2> QED BY <2>4
<1>3. MaximumSize \in Solved
  <2> HIDE DEF Solved
  <2> QED BY <1>1, <1>2, Induction
<1>4. PICK g : Solves(g, MaximumSize)
  BY <1>3
<1> DEFINE all == [c \in Sizes |-> IF c = 0 /\ 0 >= required THEN 0 ELSE g[c]]
<1>5. all = [c \in Sizes |-> Value(all, c)]
  <2>1. ASSUME NEW c \in Sizes PROVE all[c] = Value(all, c)
    <3>1. CASE c = 0
      BY <3>1
    <3>2. CASE c # 0
      <4>1. all[c] = g[c] /\ g[c] = Value(g, c)
        <5>1. c > MaximumSize - MaximumSize
          BY <3>2
        <5>2. g[c] = Value(g, c)
          <6> HIDE DEF Value
          <6> QED BY <1>4, <3>2, <5>1
        <5> QED BY <3>2, <5>2
      <4>2. c <= MaximumSize \div 2 => c * 2 \in Sizes /\ c * 2 # 0
        BY <3>2
      <4>3. c <= MaximumSize \div 2 => all[c * 2] = g[c * 2]
        BY <4>2
      <4> HIDE DEF all
      <4> QED BY <4>1, <4>3
    <3> QED BY <3>1, <3>2
  <2>2. all = [c \in Sizes |-> all[c]]
    OBVIOUS
  <2> HIDE DEF all, Value
  <2> QED BY <2>1, <2>2
<1> HIDE DEF all
<1> QED BY <1>5 DEF From

(* Doubling ends with what is required or with nothing, and the last step  *)
(* was necessary.                                                          *)
LEMMA DoubledFacts ==
    ASSUME NEW required \in Nat, instanceBufferCapacity \in Sizes \ {0},
           instanceBufferCapacity < required
    PROVE  \/ Doubled(required) = NoCapacity
           \/ /\ Doubled(required) \in Sizes \ {0}
              /\ required <= Doubled(required) /\ Doubled(required) < 2 * required
<1> DEFINE from == From(required)
           Good(c) == \/ from[c] = NoCapacity
                      \/ /\ from[c] \in Sizes \ {0} /\ required <= from[c]
                         /\ c >= required \/ from[c] < 2 * required
           Below == {n \in Nat : \A c \in Sizes :
                        c # 0 /\ c >= MaximumSize - n => Good(c)}
<1> USE SizeFacts
<1>1. \A c \in Sizes : from[c] = IF c >= required THEN c
                               ELSE IF c > MaximumSize \div 2 THEN NoCapacity
                               ELSE from[c * 2]
  <2>1. from = [c \in Sizes |-> IF c >= required THEN c
                               ELSE IF c > MaximumSize \div 2 THEN NoCapacity
                               ELSE from[c * 2]]
    BY DoublingExists
  <2> HIDE DEF from
  <2> QED BY <2>1
<1> HIDE DEF from
<1>2. \A c \in Sizes : c # 0 /\ (c >= required \/ c > MaximumSize \div 2) => Good(c)
  BY <1>1
<1>3. \A c \in Sizes : c # 0 /\ c < required /\ c <= MaximumSize \div 2 =>
          c * 2 \in Sizes /\ c * 2 > c /\ (Good(c * 2) => Good(c))
  <2> SUFFICES ASSUME NEW c \in Sizes, c # 0, c < required,
                      c <= MaximumSize \div 2
               PROVE  c * 2 \in Sizes /\ c * 2 > c /\ (Good(c * 2) => Good(c))
    OBVIOUS
  <2>1. c * 2 \in Sizes /\ c * 2 > c
    OBVIOUS
  <2>2. from[c] = from[c * 2]
    BY <1>1
  <2>3. c * 2 >= required => from[c * 2] = c * 2
    BY <1>1, <2>1
  <2> QED BY <2>1, <2>2, <2>3
<1> HIDE DEF Good
<1>4. 0 \in Below
  BY <1>2, <1>3
<1>5. ASSUME NEW n \in Nat, n \in Below PROVE n + 1 \in Below
  <2>1. ASSUME NEW c \in Sizes, c # 0, c >= MaximumSize - (n + 1) PROVE Good(c)
    <3>1. CASE c >= required \/ c > MaximumSize \div 2
      BY <1>2, <2>1, <3>1
    <3>2. CASE ~(c >= required \/ c > MaximumSize \div 2)
      <4>1. c * 2 \in Sizes /\ c * 2 > c /\ (Good(c * 2) => Good(c))
        BY <1>3, <2>1, <3>2
      <4>2. c * 2 # 0 /\ c * 2 >= MaximumSize - n
        BY <2>1, <4>1
      <4>3. Good(c * 2)
        BY <1>5, <4>1, <4>2
      <4> QED BY <4>1, <4>3
    <3> QED BY <3>1, <3>2
  <2> QED BY <2>1
<1>6. MaximumSize \in Below
  <2> HIDE DEF Below
  <2> QED BY <1>4, <1>5, Induction
<1>7. Good(instanceBufferCapacity)
  BY <1>6
<1>8. Doubled(required) = from[instanceBufferCapacity]
  BY DEF Doubled, From, from
<1> QED BY <1>7, <1>8 DEF Good

(* What EnsureInstanceBufferCapacity leaves. *)
LEMMA EnsureKeeps ==
    ASSUME BufferInv, NEW required \in Sizes,
           EnsureInstanceBufferCapacity(required)
    PROVE  /\ instanceBufferCapacity' \in Sizes \ {0}
           /\ byteWidth' = instanceBufferCapacity' * InstanceBytes
           /\ \/ instanceBufferCapacity' = instanceBufferCapacity
              \/ instanceBufferCapacity' < 2 * required
<1> USE SizeFacts
<1>1. CASE UNCHANGED <<instanceBufferCapacity, byteWidth>>
  BY <1>1 DEF BufferInv
<1>2. CASE ~UNCHANGED <<instanceBufferCapacity, byteWidth>>
  <2> DEFINE new == Doubled(required)
  <2>1. /\ required > instanceBufferCapacity /\ FitsInBytes(new)
        /\ instanceBufferCapacity' = new
        /\ byteWidth' = (InstanceBytes * new) % 2^UIntBits
    BY <1>2 DEF EnsureInstanceBufferCapacity
  <2>2. new \in Sizes \ {0} /\ new < 2 * required
    BY <2>1, DoubledFacts DEF BufferInv, FitsInBytes
  <2> HIDE DEF new
  <2>3. /\ InstanceBytes * new <= MaximumBufferBytes /\ InstanceBytes * new \in Nat
        /\ InstanceBytes * new = new * InstanceBytes
    <3>1. new \in Nat /\ new <= MaximumBufferBytes \div InstanceBytes
      BY <2>1, <2>2 DEF FitsInBytes
    <3> QED BY <3>1, Quotient
  <2>4. (InstanceBytes * new) % 2^UIntBits = InstanceBytes * new
    <3> DEFINE product == InstanceBytes * new
               width == 2^UIntBits
    <3>1. product \in Nat /\ width \in Nat /\ product < width
      BY <2>3
    <3> HIDE DEF product, width
    <3>2. product % width = product
      BY <3>1
    <3> QED BY <3>2 DEF product, width
  <2> QED BY <2>1, <2>2, <2>3, <2>4
<1> QED BY <1>1, <1>2

(* What does not fit is what is dropped. *)
LEMMA FrameFits ==
    ASSUME NEW n \in Nat, NEW c \in Nat
    PROVE  LET rest == IF n > c THEN n - c ELSE 0
           IN  rest \in Nat /\ n - rest <= c
<1>1. CASE n > c
  BY <1>1
<1>2. CASE ~(n > c)
  BY <1>2
<1> QED BY <1>1, <1>2

LEMMA TwiceTheLarger ==
    ASSUME NEW c \in Nat, NEW n \in Nat, NEW m \in Nat, c < 2 * n, n <= m
    PROVE  c < 2 * m
OBVIOUS

LEMMA RenderKeeps ==
    ASSUME BufferInv, NEW items \in Sizes, RenderItems(items)
    PROVE  BufferInv'
<1> USE SizeFacts
<1>1. /\ instanceBufferCapacity' \in Sizes \ {0}
      /\ byteWidth' = instanceBufferCapacity' * InstanceBytes
      /\ \/ instanceBufferCapacity' = instanceBufferCapacity
         \/ instanceBufferCapacity' < 2 * items
  BY EnsureKeeps DEF RenderItems
<1>2. /\ submitted' = items
      /\ dropped' = IF items > instanceBufferCapacity'
                    THEN items - instanceBufferCapacity' ELSE 0
      /\ largest' = IF items > largest THEN items ELSE largest
  BY DEF RenderItems
<1>3. largest' \in Sizes /\ largest <= largest' /\ items <= largest'
  BY <1>2 DEF BufferInv
<1>4. dropped' \in Nat /\ submitted' - dropped' <= instanceBufferCapacity'
  <2>1. items \in Nat /\ instanceBufferCapacity' \in Nat
    BY <1>1
  <2> DEFINE c == instanceBufferCapacity'
  <2>2. c \in Nat /\ dropped' = IF items > c THEN items - c ELSE 0
    BY <1>2, <2>1
  <2> HIDE DEF c
  <2>3. dropped' \in Nat /\ items - dropped' <= c
    BY <2>1, <2>2, FrameFits
  <2> QED BY <1>2, <2>3 DEF c
<1>5. instanceBufferCapacity' < 2 * largest'
  <2> DEFINE c == instanceBufferCapacity'
             m == largest'
  <2>1. /\ c \in Nat /\ m \in Nat /\ items \in Nat /\ largest \in Nat
        /\ largest <= m /\ items <= m
        /\ c < 2 * largest \/ c < 2 * items
    BY <1>1, <1>3 DEF BufferInv
  <2> HIDE DEF c, m
  <2>2. c < 2 * m
    BY ONLY <2>1, TwiceTheLarger
  <2> QED BY <2>2 DEF c, m
<1> QED BY <1>1, <1>2, <1>3, <1>4, <1>5 DEF BufferInv

(* BufferInv holds throughout: whether a growth succeeds, fails or is      *)
(* refused, capacity and buffer agree.                                     *)
THEOREM BufferInvariance == BufferSpec => []BufferInv
<1>1. BufferInit => BufferInv
  <2> SUFFICES ASSUME BufferInit PROVE BufferInv
    OBVIOUS
  <2> DEFINE c == InitialInstanceCapacity
             d == InstanceBytes
  <2>1. c \in Nat \ {0} /\ d \in Nat \ {0} /\ c * d <= MaximumBufferBytes
    BY SizeFacts
  <2>2. c <= c * d
    BY <2>1, SMT
  <2>3. c \in Sizes \ {0}
    BY <2>1, <2>2, SizeFacts
  <2> QED BY <2>3, SizeFacts DEF BufferInit, BufferInv
<1>2. BufferInv /\ [BufferNext]_bufferVars => BufferInv'
  <2> SUFFICES ASSUME BufferInv, [BufferNext]_bufferVars PROVE BufferInv'
    OBVIOUS
  <2>1. CASE BufferNext
    BY <2>1, RenderKeeps DEF BufferNext
  <2>2. CASE UNCHANGED bufferVars
    BY <2>2 DEF bufferVars, BufferInv
  <2> QED BY <2>1, <2>2
<1> QED BY <1>1, <1>2, PTL DEF BufferSpec

(* Whatever Render is asked for, what it writes fits into the buffer it     *)
(* maps: D3D11Renderer::EnsureInstanceBufferCapacity refuses every growth  *)
(* whose size in bytes a UINT would cut off, for any widths of std::size_t *)
(* and UINT; and doubling never overshoots what was needed by a factor of  *)
(* two.                                                                    *)
THEOREM BufferAlwaysHolds == BufferSpec => []BufferHoldsWhatIsWritten
<1>1. BufferInv => BufferHoldsWhatIsWritten
  <2> SUFFICES ASSUME BufferInv PROVE BufferHoldsWhatIsWritten
    OBVIOUS
  <2>1. /\ submitted - dropped \in Int /\ instanceBufferCapacity \in Int
        /\ submitted - dropped <= instanceBufferCapacity
        /\ InstanceBytes \in Nat
    BY SizeFacts DEF BufferInv
  <2>2. (submitted - dropped) * InstanceBytes
            <= instanceBufferCapacity * InstanceBytes
    BY <2>1, Monotone
  <2> QED BY <2>2 DEF BufferInv, BufferHoldsWhatIsWritten
<1> QED BY <1>1, BufferInvariance, PTL

-----------------------------------------------------------------------------
(* Statistics: sums *)

(* The sums of the first samples, and of the first n: TotalOf(s) is        *)
(* Sum(s, Len(s)).                                                         *)
Partial(f, n) ==
    CHOOSE sum : sum = [k \in 0..n |-> IF k = 0 THEN 0 ELSE sum[k - 1] + f[k]]

Sum(f, n) == Partial(f, n)[n]

LEMMA PartialExists ==
    ASSUME NEW f, NEW n \in Nat
    PROVE  \A k \in 0..n : Partial(f, n)[k]
              = IF k = 0 THEN 0 ELSE Partial(f, n)[k - 1] + f[k]
<1> DEFINE Solves(g, m) == g = [k \in 0..m |-> IF k = 0 THEN 0 ELSE g[k - 1] + f[k]]
           Solved == {m \in Nat : \E g : Solves(g, m)}
<1>1. 0 \in Solved
  <2> DEFINE g == [k \in 0..0 |-> 0]
  <2>1. Solves(g, 0)
    OBVIOUS
  <2> QED BY <2>1
<1>2. ASSUME NEW m \in Nat, m \in Solved PROVE m + 1 \in Solved
  <2>1. PICK g : Solves(g, m)
    BY <1>2
  <2> DEFINE more == [k \in 0..(m + 1) |-> IF k = 0 THEN 0
                        ELSE IF k <= m THEN g[k] ELSE g[m] + f[k]]
  <2>2. ASSUME NEW k \in 0..(m + 1)
        PROVE  more[k] = IF k = 0 THEN 0 ELSE more[k - 1] + f[k]
    <3>1. \A j \in 0..m : g[j] = IF j = 0 THEN 0 ELSE g[j - 1] + f[j]
      BY <2>1
    <3>2. \A j \in 0..m : more[j] = g[j]
      BY <3>1
    <3>3. CASE k = 0
      BY <3>3
    <3>4. CASE k \in 1..m
      <4>1. k - 1 \in 0..m /\ k \in 0..m /\ k # 0
        BY <3>4
      <4> HIDE DEF more
      <4> QED BY <3>1, <3>2, <4>1
    <3>5. CASE k = m + 1
      <4>1. more[k] = g[m] + f[k] /\ k - 1 = m /\ k # 0 /\ m \in 0..m
        BY <3>5
      <4> HIDE DEF more
      <4> QED BY <3>2, <4>1
    <3> QED BY <3>3, <3>4, <3>5
  <2>3. more = [k \in 0..(m + 1) |-> more[k]]
    OBVIOUS
  <2>4. Solves(more, m + 1)
    <3> HIDE DEF more
    <3> QED BY <2>2, <2>3
  <2> HIDE DEF more
  <2> QED BY <2>4
<1>3. n \in Solved
  <2> HIDE DEF Solved
  <2> QED BY <1>1, <1>2, Induction
<1>4. PICK g : Solves(g, n)
  BY <1>3
<1>5. Partial(f, n) = [k \in 0..n |-> IF k = 0 THEN 0 ELSE Partial(f, n)[k - 1] + f[k]]
  BY <1>4 DEF Partial
<1> DEFINE p == Partial(f, n)
<1>6. p = [k \in 0..n |-> IF k = 0 THEN 0 ELSE p[k - 1] + f[k]]
  BY <1>5
<1> HIDE DEF p
<1>7. \A k \in 0..n : p[k] = IF k = 0 THEN 0 ELSE p[k - 1] + f[k]
  BY <1>6
<1> QED BY <1>7 DEF p

(* A sum is of the samples it is of, whatever comes after them. *)
LEMMA PartialAgrees ==
    ASSUME NEW f, NEW g, NEW m \in Nat, NEW n \in Nat, NEW l \in Nat, l <= m, l <= n,
           \A k \in 1..l : f[k] = g[k]
    PROVE  Partial(f, m)[l] = Partial(g, n)[l]
<1> DEFINE a == Partial(f, m)
           b == Partial(g, n)
           Agreed == {k \in Nat : k <= l => a[k] = b[k]}
<1>1. /\ \A k \in 0..m : a[k] = IF k = 0 THEN 0 ELSE a[k - 1] + f[k]
      /\ \A k \in 0..n : b[k] = IF k = 0 THEN 0 ELSE b[k - 1] + g[k]
  BY PartialExists
<1> HIDE DEF a, b
<1>2. 0 \in Agreed
  BY <1>1
<1>3. ASSUME NEW k \in Nat, k \in Agreed PROVE k + 1 \in Agreed
  <2> SUFFICES ASSUME k + 1 <= l PROVE a[k + 1] = b[k + 1]
    OBVIOUS
  <2>1. /\ k + 1 \in 0..m /\ k + 1 \in 0..n /\ k + 1 # 0 /\ (k + 1) - 1 = k
        /\ k + 1 \in 1..l /\ k <= l
    OBVIOUS
  <2>2. a[k + 1] = a[k] + f[k + 1] /\ b[k + 1] = b[k] + g[k + 1]
    BY <1>1, <2>1
  <2>3. a[k] = b[k] /\ f[k + 1] = g[k + 1]
    BY <1>3, <2>1
  <2> QED BY <2>2, <2>3
<1>4. l \in Agreed
  <2> HIDE DEF Agreed
  <2> QED BY <1>2, <1>3, Induction
<1> QED BY <1>4 DEF a, b

LEMMA SumAgrees ==
    ASSUME NEW f, NEW g, NEW n \in Nat, \A k \in 1..n : f[k] = g[k]
    PROVE  Sum(f, n) = Sum(g, n)
BY PartialAgrees DEF Sum

LEMMA SumSteps ==
    ASSUME NEW f
    PROVE  /\ Sum(f, 0) = 0
           /\ \A n \in Nat : Sum(f, n + 1) = Sum(f, n) + f[n + 1]
<1>1. Sum(f, 0) = 0
  BY PartialExists DEF Sum
<1>2. ASSUME NEW n \in Nat PROVE Sum(f, n + 1) = Sum(f, n) + f[n + 1]
  <2>1. /\ n + 1 \in 0..(n + 1) /\ n + 1 # 0 /\ (n + 1) - 1 = n /\ n + 1 \in Nat
        /\ n <= n + 1 /\ n <= n
    OBVIOUS
  <2>2. Partial(f, n + 1)[n + 1] = Partial(f, n + 1)[n] + f[n + 1]
    BY <2>1, PartialExists
  <2>3. Partial(f, n + 1)[n] = Partial(f, n)[n]
    BY <2>1, PartialAgrees
  <2> QED BY <2>2, <2>3 DEF Sum
<1> QED BY <1>1, <1>2

LEMMA SumType ==
    ASSUME NEW n \in Nat, NEW f \in [1..n -> Nat], NEW m \in 0..n
    PROVE  Sum(f, m) \in Nat
<1> DEFINE Typed == {k \in Nat : k <= n => Sum(f, k) \in Nat}
<1>1. 0 \in Typed
  BY SumSteps
<1>2. ASSUME NEW k \in Nat, k \in Typed PROVE k + 1 \in Typed
  <2> SUFFICES ASSUME k + 1 <= n PROVE Sum(f, k + 1) \in Nat
    OBVIOUS
  <2>1. Sum(f, k + 1) = Sum(f, k) + f[k + 1]
    BY SumSteps
  <2>2. Sum(f, k) \in Nat /\ f[k + 1] \in Nat
    BY <1>2
  <2> QED BY <2>1, <2>2
<1>3. m \in Typed
  <2>1. m \in Nat
    OBVIOUS
  <2> HIDE DEF Typed
  <2> QED BY <1>1, <1>2, <2>1, Induction
<1> QED BY <1>3

(* What one sample more or less does to a sum. *)
LEMMA SumWithOneChanged ==
    ASSUME NEW n \in Nat, NEW f \in [1..n -> Nat], NEW g \in [1..n -> Nat],
           NEW k \in 1..n, \A i \in 1..n : i # k => f[i] = g[i]
    PROVE  Sum(f, n) + g[k] = Sum(g, n) + f[k]
<1> DEFINE Changed == {m \in Nat : m \in k..n =>
                          Sum(f, m) + g[k] = Sum(g, m) + f[k]}
<1>1. 0 \in Changed
  OBVIOUS
<1>2. ASSUME NEW m \in Nat, m \in Changed PROVE m + 1 \in Changed
  <2> SUFFICES ASSUME m + 1 \in k..n
               PROVE  Sum(f, m + 1) + g[k] = Sum(g, m + 1) + f[k]
    OBVIOUS
  <2>1. Sum(f, m + 1) = Sum(f, m) + f[m + 1] /\ Sum(g, m + 1) = Sum(g, m) + g[m + 1]
    BY SumSteps
  <2>2. m \in 0..n /\ m + 1 \in 1..n
    OBVIOUS
  <2>3. /\ Sum(f, m) \in Nat /\ Sum(g, m) \in Nat /\ f[m + 1] \in Nat
        /\ g[m + 1] \in Nat /\ f[k] \in Nat /\ g[k] \in Nat
    BY <2>2, SumType
  <2>4. CASE m + 1 = k
    <3>1. \A i \in 1..m : f[i] = g[i]
      BY <2>2, <2>4
    <3>2. Sum(f, m) = Sum(g, m)
      BY <3>1, SumAgrees
    <3>3. f[m + 1] = f[k] /\ g[m + 1] = g[k]
      BY <2>4
    <3> QED BY ONLY <2>1, <2>3, <3>2, <3>3
  <2>5. CASE m + 1 # k
    <3>1. Sum(f, m) + g[k] = Sum(g, m) + f[k]
      BY <1>2, <2>5
    <3>2. f[m + 1] = g[m + 1]
      BY <2>2, <2>5
    <3> DEFINE a == Sum(f, m)
               b == Sum(g, m)
               c == f[m + 1]
               d == f[k]
               e == g[k]
    <3>3. a \in Nat /\ b \in Nat /\ c \in Nat /\ d \in Nat /\ e \in Nat /\ a + e = b + d
      BY <2>3, <3>1
    <3>4. Sum(f, m + 1) = a + c /\ Sum(g, m + 1) = b + c
      BY <2>1, <3>2
    <3> HIDE DEF a, b, c, d, e
    <3>5. (a + c) + e = (b + c) + d
      BY <3>3
    <3> QED BY <3>4, <3>5 DEF d, e
  <2> QED BY <2>4, <2>5
<1>3. n \in Changed
  <2> HIDE DEF Changed
  <2> QED BY <1>1, <1>2, Induction
<1> QED BY <1>3

-----------------------------------------------------------------------------
(* Rearrangements *)

(* p is an order of the places 1..n. *)
Permutes(p, n) ==
    /\ p \in [1..n -> 1..n]
    /\ \A i, j \in 1..n : p[i] = p[j] => i = j
    /\ \A t \in 1..n : \E i \in 1..n : p[i] = t

LEMMA Bijections ==
    ASSUME NEW n, NEW p
    PROVE  p \in Bijection(1..n, 1..n) <=> Permutes(p, n)
<1>1. ASSUME p \in Bijection(1..n, 1..n) PROVE Permutes(p, n)
  <2>1. p \in [1..n -> 1..n]
    BY <1>1, Fun_BijectionProperties, Zenon
  <2>2. \A i, j \in 1..n : p[i] = p[j] => i = j
    BY <1>1, Fun_BijectionProperties, Zenon
  <2>3. \A t \in 1..n : \E i \in 1..n : p[i] = t
    BY <1>1, Fun_BijectionProperties, Zenon
  <2> QED BY <2>1, <2>2, <2>3 DEF Permutes
<1>2. ASSUME Permutes(p, n) PROVE p \in Bijection(1..n, 1..n)
  BY <1>2, Fun_IsBij DEF Permutes
<1> QED BY <1>1, <1>2

(* g has the samples of f, each where p says. *)
Rearranges(p, f, g, n) ==
    /\ Permutes(p, n)
    /\ \A i \in 1..n : g[i] = f[p[i]]

(* Sending the place that p sends to the last one where p sends the last   *)
(* one: a rearrangement of one sample less.                                *)
LEMMA LastLeftOut ==
    ASSUME NEW n \in Nat, NEW p, Permutes(p, n + 1),
           NEW k \in 1..(n + 1), p[k] = n + 1
    PROVE  Permutes([i \in 1..n |-> IF i = k THEN p[n + 1] ELSE p[i]], n)
<1> DEFINE q == [i \in 1..n |-> IF i = k THEN p[n + 1] ELSE p[i]]
<1>1. /\ p \in [1..(n + 1) -> 1..(n + 1)]
      /\ \A i, j \in 1..(n + 1) : p[i] = p[j] => i = j
      /\ \A t \in 1..(n + 1) : \E i \in 1..(n + 1) : p[i] = t
  BY DEF Permutes
<1>2. n + 1 \in 1..(n + 1) /\ \A i \in 1..n : i \in 1..(n + 1) /\ i # n + 1
  OBVIOUS
<1>3. q \in [1..n -> 1..n]
  <2> SUFFICES ASSUME NEW i \in 1..n PROVE (IF i = k THEN p[n + 1] ELSE p[i]) \in 1..n
    OBVIOUS
  <2>1. ASSUME NEW j \in 1..(n + 1), j # k PROVE p[j] \in 1..n
    <3>1. p[j] \in 1..(n + 1) /\ p[j] # n + 1
      BY <1>1, <2>1
    <3> QED BY <3>1
  <2> QED BY <1>2, <2>1
<1>4. \A i, j \in 1..n : q[i] = q[j] => i = j
  BY <1>1, <1>2
<1>5. ASSUME NEW t \in 1..n PROVE \E i \in 1..n : q[i] = t
  <2>1. PICK i \in 1..(n + 1) : p[i] = t
    BY <1>1, <1>2
  <2>2. i # k
    BY <1>2, <2>1
  <2>3. CASE i = n + 1
    <3>1. k \in 1..n
      BY <2>2, <2>3
    <3> QED BY <2>1, <2>3, <3>1
  <2>4. CASE i # n + 1
    <3>1. i \in 1..n
      BY <2>4
    <3> QED BY <2>1, <2>2, <3>1
  <2> QED BY <2>3, <2>4
<1> HIDE DEF q
<1>6. Permutes(q, n)
  BY <1>3, <1>4, <1>5 DEF Permutes
<1> QED BY <1>6 DEF q

LEMMA SumRearranged ==
    ASSUME NEW N \in Nat, NEW F \in [1..N -> Nat], NEW G \in [1..N -> Nat], NEW P,
           Rearranges(P, F, G, N)
    PROVE  Sum(G, N) = Sum(F, N)
<1> DEFINE Same(n) == \A f, g \in [1..n -> Nat] : \A p :
                          Rearranges(p, f, g, n) => Sum(g, n) = Sum(f, n)
           Kept == {n \in Nat : Same(n)}
<1>1. 0 \in Kept
  BY SumSteps
<1>2. ASSUME NEW n \in Nat, n \in Kept PROVE n + 1 \in Kept
  <2> SUFFICES Same(n + 1)
    <3> HIDE DEF Same
    <3> QED OBVIOUS
  <2> SUFFICES ASSUME NEW f \in [1..(n + 1) -> Nat], NEW g \in [1..(n + 1) -> Nat],
                      NEW p, Rearranges(p, f, g, n + 1)
               PROVE  Sum(g, n + 1) = Sum(f, n + 1)
    BY Zenon
  <2>1. /\ Permutes(p, n + 1)
        /\ \A i \in 1..(n + 1) : g[i] = f[p[i]]
    BY DEF Rearranges
  <2>2. /\ p \in [1..(n + 1) -> 1..(n + 1)]
        /\ \A i, j \in 1..(n + 1) : p[i] = p[j] => i = j
        /\ \A t \in 1..(n + 1) : \E i \in 1..(n + 1) : p[i] = t
    BY <2>1 DEF Permutes
  <2>3. n + 1 \in 1..(n + 1) /\ \A i \in 1..n : i \in 1..(n + 1) /\ i # n + 1
    OBVIOUS
  <2>4. PICK k \in 1..(n + 1) : p[k] = n + 1
    BY <2>2, <2>3
  <2> DEFINE q == [i \in 1..n |-> IF i = k THEN p[n + 1] ELSE p[i]]
             first == [i \in 1..n |-> f[i]]
             old == [i \in 1..n |-> g[i]]
             new == [i \in 1..n |-> f[q[i]]]
  <2>5. Permutes(q, n)
    BY <2>1, <2>4, LastLeftOut
  <2>6. q \in [1..n -> 1..n] /\ \A i \in 1..n : q[i] = IF i = k THEN p[n + 1] ELSE p[i]
    <3>1. \A i \in 1..n : q[i] = IF i = k THEN p[n + 1] ELSE p[i]
      OBVIOUS
    <3> HIDE DEF q
    <3> QED BY <2>5, <3>1 DEF Permutes
  <2> HIDE DEF q
  <2>7. /\ first \in [1..n -> Nat] /\ old \in [1..n -> Nat] /\ new \in [1..n -> Nat]
        /\ \A i \in 1..n : first[i] = f[i] /\ old[i] = g[i] /\ new[i] = f[q[i]]
    BY <2>3, <2>6
  <2> HIDE DEF first, old, new
  <2>8. Sum(new, n) = Sum(first, n)
    <3>1. Rearranges(q, first, new, n)
      BY <2>5, <2>6, <2>7 DEF Rearranges
    <3> QED BY <1>2, <2>7, <3>1
  <2>9. Sum(first, n) = Sum(f, n) /\ Sum(old, n) = Sum(g, n)
    BY <2>7, SumAgrees
  <2>10. /\ Sum(f, n + 1) = Sum(f, n) + f[n + 1]
         /\ Sum(g, n + 1) = Sum(g, n) + g[n + 1]
    BY SumSteps
  <2>11. Sum(g, n) + g[n + 1] = Sum(new, n) + f[n + 1]
    <3>1. CASE k = n + 1
      <4>1. \A i \in 1..n : new[i] = g[i]
        <5> SUFFICES ASSUME NEW i \in 1..n PROVE new[i] = g[i]
          OBVIOUS
        <5>1. new[i] = f[q[i]]
          BY <2>7
        <5>2. q[i] = p[i]
          BY <2>3, <2>6, <3>1
        <5>3. g[i] = f[p[i]]
          BY <2>1, <2>3
        <5> QED BY <5>1, <5>2, <5>3
      <4>2. Sum(new, n) = Sum(g, n)
        BY <4>1, SumAgrees
      <4>3. g[n + 1] = f[n + 1]
        BY <2>1, <2>3, <2>4, <3>1
      <4> QED BY <4>2, <4>3
    <3>2. CASE k # n + 1
      <4>1. k \in 1..n
        BY <3>2
      <4>2. ASSUME NEW i \in 1..n, i # k PROVE new[i] = old[i]
        <5>1. new[i] = f[q[i]] /\ old[i] = g[i]
          BY <2>7
        <5>2. q[i] = p[i]
          BY <2>6, <4>2
        <5>3. g[i] = f[p[i]]
          BY <2>1, <2>3
        <5> QED BY <5>1, <5>2, <5>3
      <4>3. old[k] = f[n + 1] /\ new[k] = g[n + 1]
        <5>1. old[k] = g[k] /\ new[k] = f[q[k]] /\ q[k] = p[n + 1]
          BY <2>6, <2>7, <4>1
        <5>2. g[k] = f[p[k]] /\ g[n + 1] = f[p[n + 1]]
          BY <2>1, <2>3
        <5> QED BY <2>4, <5>1, <5>2
      <4>4. Sum(new, n) + old[k] = Sum(old, n) + new[k]
        <5>1. new \in [1..n -> Nat] /\ old \in [1..n -> Nat] /\ n \in Nat
          BY <2>7
        <5>2. \A i \in 1..n : i # k => new[i] = old[i]
          BY <4>2
        <5> QED BY ONLY <4>1, <5>1, <5>2, SumWithOneChanged
      <4> QED BY <2>9, <4>3, <4>4
    <3> QED BY <3>1, <3>2
  <2> QED BY <2>8, <2>9, <2>10, <2>11
<1>3. N \in Kept
  <2> HIDE DEF Kept
  <2> QED BY <1>1, <1>2, Induction
<1> QED BY <1>3

CountAbove(f, n, limit) == Cardinality({i \in 1..n : f[i] > limit})

(* As many samples are above a limit wherever they stand. *)
LEMMA CountRearranged ==
    ASSUME NEW n \in Nat, NEW f, NEW g, NEW p, Rearranges(p, f, g, n), NEW limit
    PROVE  CountAbove(g, n, limit) = CountAbove(f, n, limit)
<1> DEFINE S == {i \in 1..n : g[i] > limit}
           T == {i \in 1..n : f[i] > limit}
           b == [i \in S |-> p[i]]
<1>1. /\ p \in [1..n -> 1..n]
      /\ \A i, j \in 1..n : p[i] = p[j] => i = j
      /\ \A t \in 1..n : \E i \in 1..n : p[i] = t
      /\ \A i \in 1..n : g[i] = f[p[i]]
  BY DEF Rearranges, Permutes
<1>2. IsFiniteSet(1..n)
  BY FS_Interval
<1>3. IsFiniteSet(S) /\ IsFiniteSet(T)
  <2>1. S \in SUBSET (1..n) /\ T \in SUBSET (1..n)
    OBVIOUS
  <2> HIDE DEF S, T
  <2> QED BY <1>2, <2>1, FS_Subset
<1>4. b \in [S -> T]
  <2>1. \A i \in S : p[i] \in T
    BY <1>1
  <2> QED BY <2>1
<1>5. \A i, j \in S : b[i] = b[j] => i = j
  BY <1>1
<1>6. \A t \in T : \E i \in S : b[i] = t
  <2> SUFFICES ASSUME NEW t \in T PROVE \E i \in S : b[i] = t
    OBVIOUS
  <2>1. PICK i \in 1..n : p[i] = t
    BY <1>1
  <2>2. i \in S
    BY <1>1, <2>1
  <2> QED BY <2>1, <2>2
<1> HIDE DEF S, T, b
<1>7. b \in Bijection(S, T)
  BY <1>4, <1>5, <1>6, Fun_IsBij
<1>8. ExistsBijection(S, T)
  BY <1>7, Fun_ExistsBij
<1>9. Cardinality(T) = Cardinality(S)
  BY <1>3, <1>8, FS_Bijection
<1> QED BY <1>9 DEF S, T, CountAbove

-----------------------------------------------------------------------------
(* Sorting *)

LEMMA MaximumExists ==
    ASSUME NEW n \in Nat \ {0}, NEW f \in [1..n -> Nat]
    PROVE  \E m \in 1..n : \A i \in 1..n : f[i] <= f[m]
<1> DEFINE Found == {k \in Nat : k \in 1..n =>
                        \E m \in 1..k : \A i \in 1..k : f[i] <= f[m]}
<1>1. 0 \in Found
  OBVIOUS
<1>2. ASSUME NEW k \in Nat, k \in Found PROVE k + 1 \in Found
  <2> SUFFICES ASSUME k + 1 \in 1..n
               PROVE  \E m \in 1..(k + 1) : \A i \in 1..(k + 1) : f[i] <= f[m]
    OBVIOUS
  <2>1. CASE k = 0
    <3>1. 1 \in 1..(k + 1) /\ \A i \in 1..(k + 1) : i = 1
      BY <2>1
    <3>2. f[1] <= f[1]
      BY <2>1
    <3> QED BY <3>1, <3>2
  <2>2. CASE k # 0
    <3>1. PICK m \in 1..k : \A i \in 1..k : f[i] <= f[m]
      BY <1>2, <2>2
    <3>2. /\ f[m] \in Nat /\ f[k + 1] \in Nat /\ \A i \in 1..k : f[i] \in Nat
          /\ m \in 1..(k + 1) /\ k + 1 \in 1..(k + 1)
          /\ \A i \in 1..(k + 1) : i \in 1..k \/ i = k + 1
      OBVIOUS
    <3>3. CASE f[k + 1] <= f[m]
      BY <3>1, <3>2, <3>3
    <3>4. CASE ~(f[k + 1] <= f[m])
      <4>1. \A i \in 1..(k + 1) : f[i] <= f[k + 1]
        BY <3>1, <3>2, <3>4
      <4> QED BY <3>2, <4>1
    <3> QED BY <3>3, <3>4
  <2> QED BY <2>1, <2>2
<1>3. n \in Found
  <2>1. n \in Nat
    OBVIOUS
  <2> HIDE DEF Found
  <2> QED BY <1>1, <1>2, <2>1, Induction
<1> QED BY <1>3

(* p is an order of the places in which the samples do not fall. *)
Orders(p, f, n) ==
    /\ Permutes(p, n)
    /\ \A i, j \in 1..n : i < j => f[p[i]] <= f[p[j]]

(* A place for one sample more at the end: m is sent there, and n + 1 where *)
(* m stood.                                                                 *)
LEMMA LastPutIn ==
    ASSUME NEW n \in Nat, NEW q, Permutes(q, n), NEW m \in 1..(n + 1)
    PROVE  Permutes([i \in 1..(n + 1) |-> IF i = n + 1 THEN m
                                          ELSE IF q[i] = m THEN n + 1 ELSE q[i]],
                    n + 1)
<1> DEFINE p == [i \in 1..(n + 1) |-> IF i = n + 1 THEN m
                                      ELSE IF q[i] = m THEN n + 1 ELSE q[i]]
<1>1. /\ q \in [1..n -> 1..n]
      /\ \A i, j \in 1..n : q[i] = q[j] => i = j
      /\ \A t \in 1..n : \E i \in 1..n : q[i] = t
  BY DEF Permutes
<1>2. /\ \A i \in 1..(n + 1) : i = n + 1 \/ i \in 1..n
      /\ \A i \in 1..n : i # n + 1 /\ i \in 1..(n + 1)
      /\ n + 1 \in 1..(n + 1)
  OBVIOUS
<1>3. /\ p[n + 1] = m
      /\ \A i \in 1..n : p[i] = IF q[i] = m THEN n + 1 ELSE q[i]
  BY <1>2
<1>4. p \in [1..(n + 1) -> 1..(n + 1)]
  BY <1>1, <1>2
<1> HIDE DEF p
<1>5. \A i \in 1..n : p[i] # m
  BY <1>1, <1>2, <1>3
<1>6. \A i, j \in 1..n : p[i] = p[j] => i = j
  <2> SUFFICES ASSUME NEW i \in 1..n, NEW j \in 1..n, p[i] = p[j] PROVE i = j
    OBVIOUS
  <2>1. q[i] \in 1..n /\ q[j] \in 1..n /\ q[i] # n + 1 /\ q[j] # n + 1
    BY <1>1, <1>2
  <2>2. /\ p[i] = IF q[i] = m THEN n + 1 ELSE q[i]
        /\ p[j] = IF q[j] = m THEN n + 1 ELSE q[j]
    BY <1>3
  <2>3. q[i] = q[j]
    BY <2>1, <2>2
  <2> QED BY <1>1, <2>3
<1>7. \A i, j \in 1..(n + 1) : p[i] = p[j] => i = j
  BY <1>2, <1>3, <1>5, <1>6
<1>8. ASSUME NEW t \in 1..(n + 1) PROVE \E i \in 1..(n + 1) : p[i] = t
  <2>1. CASE t = m
    BY <1>2, <1>3, <2>1
  <2>2. CASE t # m /\ t = n + 1
    <3>1. m \in 1..n
      BY <2>2, <1>2
    <3>2. PICK i \in 1..n : q[i] = m
      BY <1>1, <3>1
    <3> QED BY <1>2, <1>3, <2>2, <3>2
  <2>3. CASE t # m /\ t # n + 1
    <3>1. t \in 1..n
      BY <2>3, <1>2
    <3>2. PICK i \in 1..n : q[i] = t
      BY <1>1, <3>1
    <3> QED BY <1>2, <1>3, <2>3, <3>2
  <2> QED BY <2>1, <2>2, <2>3
<1>9. Permutes(p, n + 1)
  BY <1>4, <1>7, <1>8 DEF Permutes
<1> QED BY <1>9 DEF p

(* Any samples can be put in order: the greatest last, and the others by   *)
(* what is said of one sample less.                                        *)
LEMMA OrderExists ==
    ASSUME NEW N \in Nat, NEW F \in [1..N -> Nat]
    PROVE  \E p : Orders(p, F, N)
<1> DEFINE Ordered(n) == \A f \in [1..n -> Nat] : \E p : Orders(p, f, n)
           All == {n \in Nat : Ordered(n)}
<1>1. 0 \in All
  <2> SUFFICES ASSUME NEW f \in [1..0 -> Nat] PROVE \E p : Orders(p, f, 0)
    OBVIOUS
  <2> DEFINE p == [i \in 1..0 |-> i]
  <2>1. Orders(p, f, 0)
    BY DEF Orders, Permutes
  <2> HIDE DEF p
  <2> QED BY <2>1
<1>2. ASSUME NEW n \in Nat, n \in All PROVE n + 1 \in All
  <2> SUFFICES Ordered(n + 1)
    <3> HIDE DEF Ordered
    <3> QED OBVIOUS
  <2> SUFFICES ASSUME NEW f \in [1..(n + 1) -> Nat] PROVE \E p : Orders(p, f, n + 1)
    BY Zenon
  <2>1. /\ \A i \in 1..(n + 1) : i = n + 1 \/ i \in 1..n
        /\ \A i \in 1..n : i # n + 1 /\ i \in 1..(n + 1)
        /\ n + 1 \in 1..(n + 1) /\ \A i \in 1..n : ~(n + 1 < i)
    OBVIOUS
  <2>2. PICK m \in 1..(n + 1) : \A i \in 1..(n + 1) : f[i] <= f[m]
    <3>1. n + 1 \in Nat \ {0}
      OBVIOUS
    <3> QED BY <3>1, MaximumExists
  <2> DEFINE g == [i \in 1..n |-> IF i = m THEN f[n + 1] ELSE f[i]]
  <2>3. /\ g \in [1..n -> Nat]
        /\ \A i \in 1..n : g[i] = IF i = m THEN f[n + 1] ELSE f[i]
    BY <2>1
  <2> HIDE DEF g
  <2>4. PICK q : Orders(q, g, n)
    BY <1>2, <2>3
  <2>5. /\ Permutes(q, n) /\ q \in [1..n -> 1..n]
        /\ \A i, j \in 1..n : i < j => g[q[i]] <= g[q[j]]
    BY <2>4 DEF Orders, Permutes
  <2> DEFINE p == [i \in 1..(n + 1) |-> IF i = n + 1 THEN m
                                        ELSE IF q[i] = m THEN n + 1 ELSE q[i]]
  <2>6. Permutes(p, n + 1)
    BY <2>5, LastPutIn
  <2>7. p[n + 1] = m /\ \A i \in 1..n : p[i] = IF q[i] = m THEN n + 1 ELSE q[i]
    BY <2>1
  <2> HIDE DEF p
  <2>8. \A i \in 1..n : f[p[i]] = g[q[i]]
    BY <2>3, <2>5, <2>7
  <2>9. \A i \in 1..n : p[i] \in 1..(n + 1)
    BY <2>1, <2>6 DEF Permutes
  <2>10. \A i, j \in 1..(n + 1) : i < j => f[p[i]] <= f[p[j]]
    <3> SUFFICES ASSUME NEW i \in 1..(n + 1), NEW j \in 1..(n + 1), i < j
                 PROVE  f[p[i]] <= f[p[j]]
      OBVIOUS
    <3>1. i \in 1..n
      OBVIOUS
    <3>2. CASE j = n + 1
      BY <2>2, <2>7, <2>9, <3>1, <3>2
    <3>3. CASE j \in 1..n
      BY <2>5, <2>8, <3>1, <3>3
    <3> QED BY <2>1, <3>2, <3>3
  <2>11. Orders(p, f, n + 1)
    BY <2>6, <2>10 DEF Orders
  <2> QED BY <2>11
<1>3. N \in All
  <2> HIDE DEF All
  <2> QED BY <1>1, <1>2, Induction
<1> QED BY <1>3

(* What a sorted copy is. *)
LEMMA SortedFacts ==
    ASSUME NEW s \in Seq(Nat)
    PROVE  /\ Sorted(s) \in [1..Len(s) -> Nat] /\ Len(Sorted(s)) = Len(s)
           /\ \E p : Rearranges(p, s, Sorted(s), Len(s))
           /\ \A i, j \in 1..Len(s) : i < j => Sorted(s)[i] <= Sorted(s)[j]
<1> DEFINE n == Len(s)
           order == CHOOSE order \in Bijection(1..n, 1..n) :
                       \A i, j \in 1..n : i < j => s[order[i]] <= s[order[j]]
<1>1. n \in Nat /\ s \in [1..n -> Nat]
  BY LenProperties
<1>2. Sorted(s) = [i \in 1..n |-> s[order[i]]]
  BY DEF Sorted
<1> HIDE DEF n
<1>3. \E p \in Bijection(1..n, 1..n) :
         \A i, j \in 1..n : i < j => s[p[i]] <= s[p[j]]
  BY <1>1, OrderExists, Bijections DEF Orders
<1>4. /\ order \in Bijection(1..n, 1..n)
      /\ \A i, j \in 1..n : i < j => s[order[i]] <= s[order[j]]
  BY <1>3
<1> HIDE DEF order
<1>5. Permutes(order, n)
  BY <1>4, Bijections
<1>6. order \in [1..n -> 1..n]
  BY <1>5 DEF Permutes
<1>7. Sorted(s) \in [1..n -> Nat] /\ \A i \in 1..n : Sorted(s)[i] = s[order[i]]
  BY <1>1, <1>2, <1>6
<1>8. Rearranges(order, s, Sorted(s), n)
  BY <1>5, <1>7 DEF Rearranges
<1>9. \A i, j \in 1..n : i < j => Sorted(s)[i] <= Sorted(s)[j]
  BY <1>4, <1>7
<1>10. Len(Sorted(s)) = n
  BY <1>1, <1>7
<1> QED BY <1>7, <1>8, <1>9, <1>10 DEF n

-----------------------------------------------------------------------------
(* The circle *)

(* Where in the circle the i-th of the last samples is. *)
PlaceOf(i) ==
    IF sampleCount < SampleCapacity THEN i
    ELSE IF nextIndex + i - 1 <= SampleCapacity THEN nextIndex + i - 1
    ELSE nextIndex + i - 1 - SampleCapacity

(* The circle holds the newest samples in order, beginning at the place    *)
(* that is overwritten next once all are taken.                            *)
RingInv ==
    /\ times \in [1..SampleCapacity -> Nat] /\ nextIndex \in 1..SampleCapacity
    /\ lastTimes \in Seq(1..MaxMilliseconds)
    /\ sampleCount = Len(lastTimes) /\ sampleCount <= SampleCapacity
    /\ sampleCount < SampleCapacity => nextIndex = sampleCount + 1
    /\ \A i \in 1..sampleCount : lastTimes[i] = times[PlaceOf(i)]

LEMMA RingStarts ==
    ASSUME times = Cleared.times, nextIndex = Cleared.nextIndex,
           sampleCount = Cleared.sampleCount, lastTimes = <<>>
    PROVE  RingInv
<1>1. SampleCapacity \in Nat \ {0}
  BY StatisticsAssumption
<1>2. /\ times = [index \in 1..SampleCapacity |-> 0] /\ nextIndex = 1
      /\ sampleCount = 0
  BY DEF Cleared
<1>3. lastTimes \in Seq(1..MaxMilliseconds) /\ Len(lastTimes) = 0
  BY EmptySeq
<1> QED BY <1>1, <1>2, <1>3 DEF RingInv

(* The place after the last is the first. *)
LEMMA NextPlace ==
    ASSUME NEW n \in Nat \ {0}, NEW k \in 1..n
    PROVE  (k % n) + 1 = IF k < n THEN k + 1 ELSE 1
<1>1. CASE k < n
  <2>1. k % n = k
    BY <1>1
  <2> QED BY <1>1, <2>1
<1>2. CASE k = n
  <2>1. n % n = 0
    OBVIOUS
  <2> QED BY <1>2, <2>1
<1> QED BY <1>1, <1>2

LEMMA RecordKeeps ==
    ASSUME RingInv, NEW milliseconds \in 0..MaxMilliseconds,
           RecordMilliseconds(milliseconds)
    PROVE  RingInv'
<1> DEFINE N == SampleCapacity
           S == 1..MaxMilliseconds
           kept == IF Len(lastTimes) = N THEN Tail(lastTimes) ELSE lastTimes
<1>1. N \in Nat \ {0} /\ milliseconds \in S /\ S \subseteq Nat
  BY StatisticsAssumption DEF RecordMilliseconds
<1>2. /\ times \in [1..N -> Nat] /\ nextIndex \in 1..N
      /\ lastTimes \in Seq(S)
      /\ sampleCount = Len(lastTimes) /\ sampleCount <= N /\ sampleCount \in Nat
      /\ sampleCount < N => nextIndex = sampleCount + 1
      /\ \A i \in 1..sampleCount : lastTimes[i] = times[PlaceOf(i)]
  BY LenProperties DEF RingInv
<1>3. /\ times' = [times EXCEPT ![nextIndex] = milliseconds]
      /\ nextIndex' = (nextIndex % N) + 1
      /\ sampleCount' = IF sampleCount + 1 < N THEN sampleCount + 1 ELSE N
      /\ lastTimes' = kept \o <<milliseconds>>
  BY DEF RecordMilliseconds, Smaller
<1>4. nextIndex' = IF nextIndex < N THEN nextIndex + 1 ELSE 1
  BY <1>1, <1>2, <1>3, NextPlace
<1>5. times' \in [1..N -> Nat] /\ nextIndex' \in 1..N
  BY <1>1, <1>2, <1>3, <1>4
<1>6. /\ times'[nextIndex] = milliseconds
      /\ \A i \in 1..N : i # nextIndex => times'[i] = times[i]
  BY <1>1, <1>2, <1>3
<1>7. /\ kept \in Seq(S) /\ Len(kept) \in Nat
      /\ sampleCount' = Len(kept) + 1 /\ sampleCount' \in Nat \ {0}
      /\ \A i \in 1..Len(kept) :
            kept[i] = IF sampleCount = N THEN lastTimes[i + 1] ELSE lastTimes[i]
  <2>1. CASE sampleCount = N
    <3>1. lastTimes # <<>>
      BY <1>1, <1>2, <2>1
    <3>2. /\ Tail(lastTimes) \in Seq(S) /\ Len(Tail(lastTimes)) = Len(lastTimes) - 1
          /\ \A i \in 1..Len(Tail(lastTimes)) : Tail(lastTimes)[i] = lastTimes[i + 1]
      BY <1>2, <3>1, HeadTailProperties
    <3>3. kept = Tail(lastTimes)
      BY <1>2, <2>1
    <3>4. sampleCount' = N
      BY <1>1, <1>3, <2>1
    <3> HIDE DEF kept
    <3> QED BY <1>1, <1>2, <2>1, <3>2, <3>3, <3>4
  <2>2. CASE sampleCount # N
    <3>1. kept = lastTimes
      BY <1>2, <2>2
    <3>2. sampleCount' = sampleCount + 1
      BY <1>1, <1>2, <1>3, <2>2
    <3> HIDE DEF kept
    <3> QED BY <1>2, <2>2, <3>1, <3>2
  <2> QED BY <2>1, <2>2
<1> HIDE DEF kept
<1>8. /\ <<milliseconds>> \in Seq(S) /\ Len(<<milliseconds>>) = 1
      /\ <<milliseconds>>[1] = milliseconds
  BY <1>1
<1>9. /\ lastTimes' \in Seq(S) /\ Len(lastTimes') = sampleCount'
      /\ \A i \in 1..sampleCount' :
            lastTimes'[i] = IF i <= Len(kept) THEN kept[i] ELSE milliseconds
  <2>1. /\ kept \o <<milliseconds>> \in Seq(S)
        /\ Len(kept \o <<milliseconds>>) = Len(kept) + 1
        /\ \A i \in 1..(Len(kept) + 1) : (kept \o <<milliseconds>>)[i]
              = IF i <= Len(kept) THEN kept[i] ELSE <<milliseconds>>[i - Len(kept)]
    BY <1>7, <1>8, ConcatProperties
  <2>2. Len(kept) \in Nat /\ Len(kept) + 1 = sampleCount'
    BY <1>7, Zenon
  <2>3. \A i \in 1..(Len(kept) + 1) : i <= Len(kept) \/ i - Len(kept) = 1
    BY <2>2
  <2> QED BY <1>3, <1>8, <2>1, <2>2, <2>3
<1>10. sampleCount' <= N /\ (sampleCount' < N => nextIndex' = sampleCount' + 1)
  BY <1>1, <1>2, <1>3, <1>4
<1>11. ASSUME NEW i \in 1..sampleCount'
       PROVE  lastTimes'[i] = times'[PlaceOf(i)']
  <2>1. i \in Nat /\ i >= 1 /\ i <= sampleCount'
    BY <1>7
  <2>2. PlaceOf(i)' = IF sampleCount' < N THEN i
                      ELSE IF nextIndex' + i - 1 <= N THEN nextIndex' + i - 1
                      ELSE nextIndex' + i - 1 - N
    BY DEF PlaceOf
  <2>3. CASE i = sampleCount'
    <3>1. lastTimes'[i] = milliseconds
      BY <1>7, <1>9, <2>1, <2>3
    <3>2. PlaceOf(i)' = nextIndex
      <4>1. CASE sampleCount' < N
        <5>1. sampleCount < N /\ sampleCount' = sampleCount + 1
          BY <1>1, <1>2, <1>3, <4>1
        <5> QED BY <1>2, <2>2, <2>3, <4>1, <5>1
      <4>2. CASE ~(sampleCount' < N)
        <5>1. sampleCount' = N /\ (nextIndex = N \/ nextIndex < N)
          BY <1>1, <1>2, <1>3, <4>2
        <5>2. PlaceOf(i)' = IF nextIndex' + N - 1 <= N THEN nextIndex' + N - 1
                            ELSE nextIndex' + N - 1 - N
          BY <2>2, <2>3, <4>2, <5>1
        <5>3. CASE nextIndex = N
          <6>1. nextIndex' = 1
            BY <1>1, <1>2, <1>4, <5>3
          <6> QED BY <1>1, <5>2, <5>3, <6>1
        <5>4. CASE nextIndex < N
          <6>1. nextIndex' = nextIndex + 1
            BY <1>4, <5>4
          <6> QED BY <1>1, <1>2, <5>2, <5>4, <6>1
        <5> QED BY <5>1, <5>3, <5>4
      <4> QED BY <4>1, <4>2
    <3> QED BY <1>6, <3>1, <3>2
  <2>4. CASE i # sampleCount' /\ sampleCount = N
    <3>1. /\ i + 1 \in 1..sampleCount /\ i \in 1..Len(kept)
          /\ sampleCount' = N
      BY <1>1, <1>3, <1>7, <2>1, <2>4
    <3>2. lastTimes'[i] = lastTimes[i + 1]
      BY <1>7, <1>9, <2>4, <3>1
    <3>3. lastTimes[i + 1] = times[PlaceOf(i + 1)]
      BY <1>2, <3>1
    <3>4. PlaceOf(i + 1) = IF nextIndex + i <= N THEN nextIndex + i
                           ELSE nextIndex + i - N
      BY <1>1, <1>2, <2>1, <2>4 DEF PlaceOf
    <3>5. PlaceOf(i)' = PlaceOf(i + 1)
      BY <1>1, <1>2, <1>4, <2>1, <2>2, <3>1, <3>4
    <3>6. PlaceOf(i + 1) \in 1..N /\ PlaceOf(i + 1) # nextIndex
      <4>1. i \in Nat /\ 1 <= i /\ i < N /\ nextIndex \in 1..N
        BY <1>2, <2>1, <2>4, <3>1
      <4>2. CASE nextIndex + i <= N
        BY <1>1, <3>4, <4>1, <4>2
      <4>3. CASE ~(nextIndex + i <= N)
        BY <1>1, <3>4, <4>1, <4>3
      <4> QED BY <4>2, <4>3
    <3> QED BY <1>6, <3>2, <3>3, <3>5, <3>6
  <2>5. CASE i # sampleCount' /\ sampleCount # N
    <3>1. /\ sampleCount' = sampleCount + 1 /\ i \in 1..sampleCount
          /\ i \in 1..Len(kept)
      <4>1. sampleCount' = sampleCount + 1
        BY <1>1, <1>2, <1>3, <2>5
      <4>2. Len(kept) = sampleCount
        BY <1>2, <1>7, <4>1
      <4> QED BY <1>2, <2>1, <2>5, <4>1, <4>2
    <3>2. lastTimes'[i] = lastTimes[i] /\ lastTimes[i] = times[PlaceOf(i)]
      BY <1>2, <1>7, <1>9, <2>5, <3>1
    <3>3. PlaceOf(i) = i
      BY <1>1, <1>2, <2>5 DEF PlaceOf
    <3>4. PlaceOf(i)' = i
      <4>1. CASE sampleCount' < N
        BY <2>2, <4>1
      <4>2. CASE ~(sampleCount' < N)
        <5>1. sampleCount' = N /\ nextIndex = N
          BY <1>1, <1>2, <2>5, <3>1, <4>2
        <5>2. nextIndex' = 1
          BY <1>1, <1>4, <5>1
        <5> QED BY <1>1, <2>1, <2>2, <5>1, <5>2
      <4> QED BY <4>1, <4>2
    <3>5. i \in 1..N /\ i # nextIndex
      BY <1>1, <1>2, <2>5, <3>1
    <3> QED BY <1>6, <3>2, <3>3, <3>4, <3>5
  <2> QED BY <2>3, <2>4, <2>5
<1> QED BY <1>5, <1>9, <1>10, <1>11 DEF RingInv

(* RingInv holds throughout: the circle holds the newest samples.          *)
THEOREM RingInvariance == StatisticsSpec => []RingInv
<1>1. StatisticsInit => RingInv
  BY RingStarts DEF StatisticsInit
<1>2. RingInv /\ [StatisticsNext]_statisticsVars => RingInv'
  <2> SUFFICES ASSUME RingInv, [StatisticsNext]_statisticsVars PROVE RingInv'
    OBVIOUS
  <2>1. ASSUME NEW milliseconds \in 0..MaxMilliseconds,
               RecordMilliseconds(milliseconds)
        PROVE  RingInv'
    BY <2>1, RecordKeeps
  <2>2. CASE ResetStatistics
    <3>1. /\ times' = [index \in 1..SampleCapacity |-> 0] /\ nextIndex' = 1
          /\ sampleCount' = 0 /\ lastTimes' = <<>>
      BY <2>2 DEF ResetStatistics, Cleared
    <3>2. SampleCapacity \in Nat \ {0}
      BY StatisticsAssumption
    <3>3. lastTimes' \in Seq(1..MaxMilliseconds) /\ Len(lastTimes') = 0
      BY <3>1, EmptySeq
    <3> QED BY <3>1, <3>2, <3>3 DEF RingInv
  <2>3. CASE UNCHANGED statisticsVars
    BY <2>3 DEF statisticsVars, RingInv, PlaceOf
  <2> QED BY <2>1, <2>2, <2>3 DEF StatisticsNext
<1> QED BY <1>1, <1>2, PTL DEF StatisticsSpec

-----------------------------------------------------------------------------
(* Snapshots *)

Window == SubSeq(times, 1, sampleCount)

(* The filled part of the circle, and the last samples as a rearrangement  *)
(* of it.                                                                  *)
LEMMA WindowFacts ==
    ASSUME RingInv
    PROVE  /\ Window \in Seq(Nat) /\ Len(Window) = sampleCount
           /\ sampleCount \in Nat /\ lastTimes \in [1..sampleCount -> Nat]
           /\ \E p : Rearranges(p, Window, lastTimes, sampleCount)
<1> DEFINE N == SampleCapacity
           n == sampleCount
           p == [i \in 1..n |-> PlaceOf(i)]
<1>1. N \in Nat \ {0}
  BY StatisticsAssumption
<1>2. /\ times \in [1..N -> Nat] /\ nextIndex \in 1..N
      /\ lastTimes \in Seq(1..MaxMilliseconds)
      /\ n = Len(lastTimes) /\ n <= N
      /\ \A i \in 1..n : lastTimes[i] = times[PlaceOf(i)]
  BY DEF RingInv
<1>3. n \in Nat /\ lastTimes \in [1..n -> 1..MaxMilliseconds]
  BY <1>2, LenProperties
<1>4. lastTimes \in [1..n -> Nat]
  BY <1>3
<1>5. /\ Window \in Seq(Nat) /\ Len(Window) = n
      /\ \A i \in 1..n : Window[i] = times[i]
  <2>1. \A i \in 1..n : times[i] \in Nat
    BY <1>1, <1>2, <1>3
  <2>2. /\ SubSeq(times, 1, n) \in Seq(Nat)
        /\ Len(SubSeq(times, 1, n)) = IF 1 <= n THEN n - 1 + 1 ELSE 0
        /\ \A i \in 1..(n - 1 + 1) : SubSeq(times, 1, n)[i] = times[1 + i - 1]
    BY <1>3, <2>1, SubSeqProperties
  <2>3. n - 1 + 1 = n /\ \A i \in 1..n : 1 + i - 1 = i
    BY <1>3
  <2> QED BY <1>3, <2>2, <2>3 DEF Window
<1>6. \A i \in 1..n : PlaceOf(i) = IF n < N THEN i
                         ELSE IF nextIndex + i - 1 <= N THEN nextIndex + i - 1
                         ELSE nextIndex + i - 1 - N
  BY DEF PlaceOf
<1>7. \A i \in 1..n : p[i] = PlaceOf(i)
  OBVIOUS
<1>8. ASSUME NEW i \in 1..n PROVE PlaceOf(i) \in 1..n
  <2>1. i \in Nat /\ 1 <= i /\ i <= n
    BY <1>3
  <2>2. CASE n < N
    BY <1>6, <2>2
  <2>3. CASE n = N /\ nextIndex + i - 1 <= N
    <3>1. PlaceOf(i) = nextIndex + i - 1
      BY <1>1, <1>6, <2>3
    <3> QED BY <1>1, <1>2, <2>1, <2>3, <3>1
  <2>4. CASE n = N /\ ~(nextIndex + i - 1 <= N)
    <3>1. PlaceOf(i) = nextIndex + i - 1 - N
      BY <1>1, <1>6, <2>4
    <3> QED BY <1>1, <1>2, <2>1, <2>4, <3>1
  <2> QED BY <1>1, <1>2, <1>3, <2>2, <2>3, <2>4
<1>9. p \in [1..n -> 1..n]
  BY <1>8
<1> HIDE DEF p
<1>10. \A i, j \in 1..n : p[i] = p[j] => i = j
  <2> SUFFICES ASSUME NEW i \in 1..n, NEW j \in 1..n, PlaceOf(i) = PlaceOf(j)
               PROVE  i = j
    BY <1>7
  <2>1. /\ i \in Nat /\ 1 <= i /\ i <= n /\ j \in Nat /\ 1 <= j /\ j <= n
        /\ nextIndex \in Nat /\ n <= N
    BY <1>1, <1>2, <1>3
  <2>2. CASE n < N
    BY <1>6, <2>2
  <2>3. CASE n = N
    <3> DEFINE PlaceAt(k) == IF nextIndex + k - 1 <= N THEN nextIndex + k - 1
                             ELSE nextIndex + k - 1 - N
    <3>1. PlaceOf(i) = PlaceAt(i) /\ PlaceOf(j) = PlaceAt(j)
      BY <1>1, <1>6, <2>3
    <3>2. PlaceAt(i) = PlaceAt(j)
      BY <3>1
    <3> QED BY ONLY <1>1, <2>1, <2>3, <3>2
  <2> QED BY <1>1, <1>3, <2>1, <2>2, <2>3
<1>11. ASSUME NEW t \in 1..n PROVE \E i \in 1..n : p[i] = t
  <2>1. CASE n < N
    BY <1>6, <1>7, <2>1
  <2>2. CASE ~(n < N) /\ t >= nextIndex
    <3>1. t - nextIndex + 1 \in 1..n
      BY <1>2, <1>3, <2>2
    <3>2. PlaceOf(t - nextIndex + 1) = t
      BY <1>1, <1>2, <1>3, <1>6, <2>2, <3>1
    <3> QED BY <1>7, <3>1, <3>2
  <2>3. CASE ~(n < N) /\ t < nextIndex
    <3>1. t - nextIndex + 1 + N \in 1..n
      BY <1>1, <1>2, <1>3, <2>3
    <3>2. PlaceOf(t - nextIndex + 1 + N) = t
      BY <1>1, <1>2, <1>3, <1>6, <2>3, <3>1
    <3> QED BY <1>7, <3>1, <3>2
  <2>4. t \in Int /\ nextIndex \in Int
    BY <1>2
  <2> QED BY <2>1, <2>2, <2>3, <2>4
<1>12. Permutes(p, n)
  BY <1>9, <1>10, <1>11 DEF Permutes
<1>13. Rearranges(p, Window, lastTimes, n)
  BY <1>2, <1>5, <1>7, <1>8, <1>12 DEF Rearranges
<1> QED BY <1>3, <1>4, <1>5, <1>13

(* The r-th of n sorted samples: at most n - r are above it, and at least  *)
(* n - r + 1 are above whatever is less than it.                           *)
LEMMA RankInOrder ==
    ASSUME NEW n \in Nat, NEW s \in [1..n -> Nat], NEW r \in 1..n,
           \A i, j \in 1..n : i < j => s[i] <= s[j]
    PROVE  /\ CountAbove(s, n, s[r]) \in 0..(n - r)
           /\ \A value \in Nat : value < s[r] =>
                 CountAbove(s, n, value) \in (n - r + 1)..n
<1> DEFINE Above(value) == {i \in 1..n : s[i] > value}
<1>1. /\ IsFiniteSet(1..n) /\ Cardinality(1..n) = n
      /\ IsFiniteSet((r + 1)..n) /\ Cardinality((r + 1)..n) = n - r
      /\ IsFiniteSet(r..n) /\ Cardinality(r..n) = n - r + 1
  <2>1. /\ 1 \in Int /\ n \in Int /\ r \in Int /\ r + 1 \in Int
        /\ 1 <= r /\ r <= n
    OBVIOUS
  <2>2. IsFiniteSet(1..n) /\ Cardinality(1..n) = IF 1 > n THEN 0 ELSE n - 1 + 1
    BY <2>1, FS_Interval, Zenon
  <2>3. /\ IsFiniteSet((r + 1)..n)
        /\ Cardinality((r + 1)..n) = IF r + 1 > n THEN 0 ELSE n - (r + 1) + 1
    BY <2>1, FS_Interval, Zenon
  <2>4. IsFiniteSet(r..n) /\ Cardinality(r..n) = IF r > n THEN 0 ELSE n - r + 1
    BY <2>1, FS_Interval, Zenon
  <2> QED BY <2>1, <2>2, <2>3, <2>4
<1>2. Cardinality(Above(s[r])) \in 0..(n - r)
  <2>1. Above(s[r]) \in SUBSET ((r + 1)..n)
    <3> SUFFICES ASSUME NEW i \in 1..n, s[i] > s[r] PROVE i \in (r + 1)..n
      OBVIOUS
    <3>1. i # r /\ ~(i < r)
      OBVIOUS
    <3> QED BY <3>1
  <2> DEFINE A == Above(s[r])
  <2>2. A \in SUBSET ((r + 1)..n)
    BY <2>1
  <2> HIDE DEF A, Above
  <2>3. IsFiniteSet(A) /\ Cardinality(A) <= Cardinality((r + 1)..n)
    BY <1>1, <2>2, FS_Subset
  <2>4. Cardinality(A) \in Nat
    BY <2>3, FS_CardinalityType
  <2>5. Cardinality(A) \in 0..(n - r)
    BY <1>1, <2>3, <2>4
  <2> QED BY <2>5 DEF A
<1>3. ASSUME NEW value \in Nat, value < s[r]
      PROVE  Cardinality(Above(value)) \in (n - r + 1)..n
  <2> DEFINE A == Above(value)
  <2>1. A \in SUBSET (1..n)
    OBVIOUS
  <2>2. r..n \in SUBSET A
    <3> SUFFICES ASSUME NEW i \in r..n PROVE i \in 1..n /\ s[i] > value
      OBVIOUS
    <3>1. i \in 1..n /\ (i = r \/ r < i)
      OBVIOUS
    <3>2. s[r] <= s[i]
      BY <3>1
    <3> QED BY <1>3, <3>1, <3>2
  <2> HIDE DEF A, Above
  <2>3. IsFiniteSet(A) /\ Cardinality(A) <= Cardinality(1..n)
    BY <1>1, <2>1, FS_Subset
  <2>4. Cardinality(r..n) <= Cardinality(A)
    BY <2>2, <2>3, FS_Subset
  <2>5. Cardinality(A) \in Nat
    BY <2>3, FS_CardinalityType
  <2>6. Cardinality(A) \in (n - r + 1)..n
    BY <1>1, <2>3, <2>4, <2>5
  <2> QED BY <2>6 DEF A
<1> HIDE DEF Above
<1>4. \A value : CountAbove(s, n, value) = Cardinality(Above(value))
  BY DEF CountAbove, Above
<1> QED BY <1>2, <1>3, <1>4

(* Both the sorted copy and the last samples are the window rearranged. *)
LEMMA SnapshotFacts ==
    ASSUME RingInv
    PROVE  LET n == sampleCount
               s == Sorted(Window)
               Count(value) == CountAbove(s, n, value)
           IN  /\ n \in Nat /\ s \in [1..n -> Nat] /\ Len(s) = n
               /\ \A i, j \in 1..n : i < j => s[i] <= s[j]
               /\ TotalOf(s) = TotalOf(lastTimes)
               /\ \A value : /\ NumberAbove(s, value) = Count(value)
                             /\ NumberAbove(lastTimes, value) = Count(value)
               /\ \A i \in 1..n : \E j \in 1..n : lastTimes[j] = s[i]
<1> DEFINE n == sampleCount
           s == Sorted(Window)
           Count(f, value) == CountAbove(f, n, value)
<1>1. /\ Window \in Seq(Nat) /\ Len(Window) = n /\ n \in Nat
      /\ lastTimes \in [1..n -> Nat] /\ Len(lastTimes) = n
      /\ \E p : Rearranges(p, Window, lastTimes, n)
  BY WindowFacts DEF RingInv
<1>2. PICK p : Rearranges(p, Window, lastTimes, n)
  BY <1>1
<1>3. /\ s \in [1..n -> Nat] /\ Len(s) = n
      /\ \E q : Rearranges(q, Window, s, n)
      /\ \A i, j \in 1..n : i < j => s[i] <= s[j]
  BY <1>1, SortedFacts
<1>4. PICK q : Rearranges(q, Window, s, n)
  BY <1>3
<1> HIDE DEF s
<1>5. Window \in [1..n -> Nat]
  BY <1>1, LenProperties
<1>6. TotalOf(s) = TotalOf(lastTimes)
  <2>1. Sum(s, n) = Sum(Window, n) /\ Sum(lastTimes, n) = Sum(Window, n)
    BY <1>1, <1>2, <1>3, <1>4, <1>5, SumRearranged
  <2>2. TotalOf(s) = Sum(s, n) /\ TotalOf(lastTimes) = Sum(lastTimes, n)
    BY <1>1, <1>3 DEF TotalOf, Sum, Partial
  <2> QED BY <2>1, <2>2
<1>7. ASSUME NEW value
      PROVE  /\ NumberAbove(s, value) = Count(s, value)
             /\ NumberAbove(lastTimes, value) = Count(s, value)
  <2>1. Count(s, value) = Count(Window, value)
    BY <1>1, <1>4, CountRearranged
  <2>2. Count(lastTimes, value) = Count(Window, value)
    BY <1>1, <1>2, CountRearranged
  <2>3. /\ NumberAbove(s, value) = Count(s, value)
        /\ NumberAbove(lastTimes, value) = Count(lastTimes, value)
    BY <1>1, <1>3 DEF NumberAbove, CountAbove
  <2> QED BY <2>1, <2>2, <2>3
<1>8. ASSUME NEW i \in 1..n PROVE \E j \in 1..n : lastTimes[j] = s[i]
  <2>1. q[i] \in 1..n /\ s[i] = Window[q[i]]
    BY <1>4 DEF Rearranges, Permutes
  <2>2. PICK j \in 1..n : p[j] = q[i]
    BY <1>2, <2>1 DEF Rearranges, Permutes
  <2>3. lastTimes[j] = Window[p[j]]
    BY <1>2 DEF Rearranges
  <2> QED BY <2>1, <2>2, <2>3
<1> QED BY <1>1, <1>3, <1>6, <1>7, <1>8 DEF s

(* The sample at the place that so many percent asks for. *)
LEMMA RankIs ==
    ASSUME RingInv, NEW percent \in Nat, NEW r \in 1..sampleCount,
           percent * sampleCount <= 100 * r, 100 * (r - 1) < percent * sampleCount
    PROVE  Sorted(Window)[r] = NearestRank(percent)
<1> DEFINE n == sampleCount
           s == Sorted(Window)
           Count(value) == CountAbove(s, n, value)
           x == percent * n
           Enough(value) == 100 * (Len(lastTimes) - NumberAbove(lastTimes, value))
                                >= percent * Len(lastTimes)
           Right(sample) ==
               /\ \E index \in 1..Len(lastTimes) : lastTimes[index] = sample
               /\ Enough(sample)
               /\ \A index \in 1..Len(lastTimes) :
                     lastTimes[index] < sample => ~Enough(lastTimes[index])
<1>1. /\ n \in Nat /\ s \in [1..n -> Nat]
      /\ \A i, j \in 1..n : i < j => s[i] <= s[j]
      /\ \A value : NumberAbove(lastTimes, value) = Count(value)
      /\ \A i \in 1..n : \E j \in 1..n : lastTimes[j] = s[i]
  BY SnapshotFacts
<1>2. Len(lastTimes) = n /\ lastTimes \in [1..n -> 1..MaxMilliseconds]
  BY LenProperties DEF RingInv
<1>3. x \in Nat /\ r \in Nat /\ r <= n /\ x <= 100 * r /\ 100 * (r - 1) < x
  BY <1>1
<1>4. /\ Count(s[r]) \in 0..(n - r)
      /\ \A value \in Nat : value < s[r] => Count(value) \in (n - r + 1)..n
  <2> HIDE DEF s
  <2> QED BY <1>1, RankInOrder
<1>5. \A value : Enough(value) <=> 100 * (n - Count(value)) >= x
  <2> HIDE DEF Count
  <2> QED BY <1>1, <1>2
<1> HIDE DEF s, Count, Enough, x
<1>6. Right(s[r])
  <2>1. \E index \in 1..Len(lastTimes) : lastTimes[index] = s[r]
    BY <1>1, <1>2
  <2>2. Enough(s[r])
    BY <1>1, <1>3, <1>4, <1>5
  <2>3. ASSUME NEW index \in 1..Len(lastTimes), lastTimes[index] < s[r]
        PROVE  ~Enough(lastTimes[index])
    <3>1. lastTimes[index] \in Nat
      BY <1>2
    <3>2. Count(lastTimes[index]) \in (n - r + 1)..n
      BY <1>4, <2>3, <3>1
    <3>3. 100 * (n - Count(lastTimes[index])) <= 100 * (r - 1)
      BY <1>1, <1>3, <3>2
    <3>4. 100 * (n - Count(lastTimes[index])) \in Int /\ 100 * (r - 1) \in Int
      BY <1>1, <1>3, <3>2
    <3> QED BY <1>3, <1>5, <3>3, <3>4
  <2> QED BY <2>1, <2>2, <2>3
<1>7. s[r] \in 1..MaxMilliseconds
  BY <1>1, <1>2
<1>8. ASSUME NEW a \in 1..MaxMilliseconds, Right(a) PROVE a = s[r]
  <2>1. a \in Int /\ s[r] \in Int
    BY <1>7
  <2>2. ~(a < s[r])
    BY <1>6, <1>8
  <2>3. ~(s[r] < a)
    BY <1>6, <1>8
  <2> QED BY <2>1, <2>2, <2>3
<1>9. NearestRank(percent) = CHOOSE sample \in 1..MaxMilliseconds : Right(sample)
  BY DEF NearestRank, Right, Enough
<1> HIDE DEF Right
<1>10. (CHOOSE sample \in 1..MaxMilliseconds : Right(sample)) = s[r]
  BY <1>6, <1>7, <1>8
<1> QED BY <1>9, <1>10 DEF s

(* The place the code computes is that one, and the last for 100 percent.  *)
LEMMA PercentilePlaces ==
    ASSUME sampleCount \in Nat \ {0}, NEW percent \in 1..100
    PROVE  /\ PercentileIndex(percent) \in 1..sampleCount
           /\ percent * sampleCount <= 100 * PercentileIndex(percent)
           /\ 100 * (PercentileIndex(percent) - 1) < percent * sampleCount
<1> DEFINE n == sampleCount
           x == percent * n
           c == (x + 99) \div 100
<1>1. n \in Nat \ {0} /\ x \in Nat /\ 1 <= x /\ x <= 100 * n
  <2>1. \A a, b \in Nat : a >= 1 /\ b >= 1 /\ a <= 100 =>
            a * b \in Nat /\ 1 <= a * b /\ a * b <= 100 * b
    OBVIOUS
  <2> QED BY <2>1
<1>2. PercentileIndex(percent) = IF c < n THEN c ELSE n
  <2>1. x + 100 - 1 = x + 99
    BY <1>1
  <2>2. PercentileIndex(percent) = Smaller((x + 100 - 1) \div 100, n)
    BY DEF PercentileIndex, Ceiling
  <2> QED BY <2>1, <2>2 DEF Smaller
<1> HIDE DEF x
<1>3. c \in Nat /\ 100 * c <= x + 99 /\ x + 99 < 100 * c + 100
  BY <1>1
<1> HIDE DEF c
<1>4. c \in 1..n /\ x <= 100 * c /\ 100 * (c - 1) < x
  BY <1>1, <1>3
<1>5. PercentileIndex(percent) = c
  BY <1>1, <1>2, <1>4
<1> QED BY <1>4, <1>5 DEF x

(* What FrameTimeProfiler::CaptureSnapshot makes of its circle is what the *)
(* newest samples give in the order they came: their sum, their number     *)
(* above each limit, their percentiles by nearest rank and their maximum,  *)
(* for any capacity, any percents and any limits.                          *)
THEOREM SnapshotAlwaysOfLastSamples == StatisticsSpec => []SnapshotIsOfLastSamples
<1>1. RingInv => SnapshotIsOfLastSamples
  <2> SUFFICES ASSUME RingInv PROVE SnapshotIsOfLastSamples
    OBVIOUS
  <2> DEFINE n == sampleCount
             s == Sorted(Window)
  <2>1. /\ n = Len(lastTimes) /\ n \in Nat
        /\ TotalOf(s) = TotalOf(lastTimes)
        /\ \A limit \in Limits : NumberAbove(s, limit) = NumberAbove(lastTimes, limit)
    BY SnapshotFacts DEF RingInv
  <2>2. /\ CaptureSnapshot.total = TotalOf(s)
        /\ CaptureSnapshot.over = [limit \in Limits |-> NumberAbove(s, limit)]
        /\ CaptureSnapshot.percentile
              = [percent \in Percents |-> s[PercentileIndex(percent)]]
        /\ CaptureSnapshot.maximum = s[n]
    BY DEF CaptureSnapshot, Window
  <2> HIDE DEF s
  <2>3. ASSUME n > 0, NEW percent \in Percents
        PROVE  CaptureSnapshot.percentile[percent] = NearestRank(percent)
    <3>1. percent \in 1..100 /\ n \in Nat \ {0}
      BY <2>1, <2>3, StatisticsAssumption
    <3>2. s[PercentileIndex(percent)] = NearestRank(percent)
      <4> DEFINE r == PercentileIndex(percent)
      <4>1. /\ r \in 1..n /\ percent * n <= 100 * r
            /\ 100 * (r - 1) < percent * n /\ percent \in Nat
        BY <3>1, PercentilePlaces
      <4> HIDE DEF r
      <4>2. Sorted(Window)[r] = NearestRank(percent)
        BY <4>1, RankIs, Zenon
      <4> QED BY <4>2 DEF r, s
    <3> QED BY <2>2, <3>2
  <2>4. ASSUME n > 0 PROVE CaptureSnapshot.maximum = NearestRank(100)
    <3>1. n \in 1..n /\ 100 * n <= 100 * n /\ 100 * (n - 1) < 100 * n
      BY <2>1, <2>4
    <3>2. s[n] = NearestRank(100)
      BY <3>1, RankIs DEF s
    <3> QED BY <2>2, <3>2
  <2> QED BY <2>1, <2>2, <2>3, <2>4 DEF SnapshotIsOfLastSamples
<1> QED BY <1>1, RingInvariance, PTL
=============================================================================
