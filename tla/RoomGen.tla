------------------------------ MODULE RoomGen ------------------------------
(***************************************************************************)
(* One room of a dungeon, from bare wall to furniture                      *)
(* (src/src/dungeon/roomgen.cpp, generateRoom and the populate functions   *)
(* generateDungeon calls after it).  A room is the set of its floor tiles  *)
(* and the sets of what was put on others.  Rolls are choices; which of    *)
(* several outcomes that fit comes first is left open.                     *)
(***************************************************************************)
EXTENDS Integers, Sequences, FiniteSets
LOCAL INSTANCE SequencesExt
LOCAL INSTANCE FiniteSetsExt

CONSTANTS
    Width, Height,   \* ROOM_WIDTH, ROOM_HEIGHT
    DoorSets,        \* sequences of <<direction, offset>>
    SmallSizes,      \* SMALL_ROOM_MIN_SIZE..SMALL_ROOM_MAX_SIZE
    LSizes, Arms,    \* the same for the L
    Radius, Seeds,   \* of the chambers of a cave, and how their rims fray
    Chambers,        \* sequences of their centres
    Coverage,        \* [low, high]: CAVE_MIN_ACCEPTED_COVERAGE, CAVE_MAX_...
    Wanted,          \* for each kind of room, where its foes are best placed
    Layouts,         \* offsets of the pillars
    Roomy, Ample,    \* the tiles that furniture needs, and pillars
    Ruins, Patch,    \* where patches of rubble are best placed, and their tiles
    Pieces           \* bound: pillars and pieces of furniture

VARIABLES
    kind,     \* RoomType
    shape,    \* RoomShape
    wide,     \* whether the foes of the theme stand on two by two tiles
    doors,    \* room.connections
    stage,    \* the generator's next step
    floor,    \* the tiles that are TILE_FLOOR
    foes,     \* TILE_ENEMY_START
    things,   \* chest and loot
    blocks,   \* pillars and furniture
    rubble

genVars == <<kind, shape, wide, doors, stage, floor, foes, things, blocks, rubble>>

Cells == (0..(Width - 1)) \X (0..(Height - 1))
Interior == (1..(Width - 2)) \X (1..(Height - 2))
Rect(x, y, w, h) == (x..(x + w - 1)) \X (y..(y + h - 1))
Between(a, b) == IF a <= b THEN a..b ELSE b..a
Gap(a, b) == IF a <= b THEN b - a ELSE a - b
Beside(c) == {<<c[1] + 1, c[2]>>, <<c[1] - 1, c[2]>>, <<c[1], c[2] + 1>>, <<c[1], c[2] - 1>>}

(***************************************************************************)
(* Doors                                                                   *)
(***************************************************************************)
DoorTile(d) ==
    CASE d[1] = "north" -> <<d[2], 0>> [] d[1] = "south" -> <<d[2], Height - 1>>
      [] d[1] = "west" -> <<0, d[2]>> [] d[1] = "east" -> <<Width - 1, d[2]>>
\* getConnectionInteriorPosition
Inside(d) ==
    CASE d[1] = "north" -> <<d[2], 1>> [] d[1] = "south" -> <<d[2], Height - 2>>
      [] d[1] = "west" -> <<1, d[2]>> [] d[1] = "east" -> <<Width - 2, d[2]>>
Vertical(d) == d[1] \in {"north", "south"}
DoorTiles == {DoorTile(doors[i]) : i \in DOMAIN doors}
Approaches == {Inside(doors[i]) : i \in DOMAIN doors}

(***************************************************************************)
(* validateRoomConnectivity                                                *)
(***************************************************************************)
RECURSIVE Reach(_, _, _)
Reach(tiles, seen, rim) ==
    IF rim = {} THEN seen
    ELSE LET next == ((UNION {Beside(c) : c \in rim}) \cap tiles) \ seen
         IN  Reach(tiles, seen \cup next, next)

Connected(tiles) ==
    /\ tiles # {} /\ LET first == {CHOOSE c \in tiles : TRUE} IN Reach(tiles, first, first) = tiles
    /\ DoorTiles \cup Approaches \subseteq tiles

Walkable == floor \cup foes \cup things \cup rubble \cup DoorTiles

(***************************************************************************)
(* Carving                                                                 *)
(***************************************************************************)
\* carveManhattanPath
Path(from, to, verticalFirst) ==
    IF verticalFirst
    THEN ({from[1]} \X Between(from[2], to[2])) \cup (Between(from[1], to[1]) \X {to[2]})
    ELSE (Between(from[1], to[1]) \X {from[2]}) \cup ({to[1]} \X Between(from[2], to[2]))

\* carveCorridorPoint: a wide corridor stays inside of the outer wall.
Widened(c, width) ==
    IF width = 1 THEN {c}
    ELSE Rect(IF c[1] = Width - 2 THEN c[1] - 1 ELSE c[1],
              IF c[2] = Height - 2 THEN c[2] - 1 ELSE c[2], 2, 2)
WidePath(cells, width) == UNION {Widened(c, width) : c \in cells}

\* connectRoomConnectionToFloor, for every door
Joined(tiles, anchor) ==
    tiles \cup UNION {Path(Inside(doors[i]), anchor, Vertical(doors[i])) : i \in DOMAIN doors}

Centre == <<Width \div 2, Height \div 2>>
Square == Joined(Interior, Centre)

SmallRooms ==
    {Joined(Rect(x, y, w, h), <<x + (w \div 2), y + (h \div 2)>>) :
        <<x, y, w, h>> \in {q \in (1..(Width - 2)) \X (1..(Height - 2)) \X SmallSizes \X SmallSizes :
                                q[1] + q[3] <= Width - 1 /\ q[2] + q[4] <= Height - 1}}

\* createLRoom: an upright and a level arm of the same outline
LShape(x, y, w, h, a, b, right, bottom) ==
    LET ax == IF right THEN x + w - a ELSE x
        by == IF bottom THEN y + h - b ELSE y
    IN  Joined(Rect(ax, y, a, h) \cup Rect(x, by, w, b), <<ax + (a \div 2), by + (b \div 2)>>)
LRooms ==
    {LShape(q[1], q[2], q[3], q[4], a, b, r, s) :
        q \in {p \in (1..(Width - 2)) \X (1..(Height - 2)) \X LSizes \X LSizes :
                   p[1] + p[3] <= Width - 1 /\ p[2] + p[4] <= Height - 1},
        a \in Arms, b \in Arms, r \in BOOLEAN, s \in BOOLEAN}

(***************************************************************************)
(* Winding corridors                                                       *)
(***************************************************************************)
\* chooseProgressiveTurns, chooseTurnCoordinate
Early(from, size) == IF from = 1 THEN 3..5 ELSE (size - 6)..(size - 4)
Across(a, b, size, width) == {v \in 3..(size - 4) : Gap(v, a) > width /\ Gap(v, b) > width}

\* generateWindingCorridorPath
Paths(p, q, a, b, width) ==
    IF Vertical(a) /\ Vertical(b)
    THEN {<<p, <<p[1], s>>, <<c, s>>, <<c, t>>, <<q[1], t>>, q>> :
             s \in Early(p[2], Height), t \in Early(q[2], Height), c \in Across(p[1], q[1], Width, width)}
    ELSE IF ~Vertical(a) /\ ~Vertical(b)
    THEN {<<p, <<s, p[2]>>, <<s, c>>, <<t, c>>, <<t, q[2]>>, q>> :
             s \in Early(p[1], Width), t \in Early(q[1], Width), c \in Across(p[2], q[2], Height, width)}
    ELSE {IF Vertical(a) THEN <<p, <<p[1], y>>, <<x, y>>, <<x, q[2]>>, q>>
          ELSE <<p, <<x, p[2]>>, <<x, y>>, <<q[1], y>>, q>> :
             x \in Across(p[1], q[1], Width, width), y \in Across(p[2], q[2], Height, width)}

Segment(pts, i) == Between(pts[i][1], pts[i + 1][1]) \X Between(pts[i][2], pts[i + 1][2])

\* validateCorridorPath: straight runs of two or more that never meet again
ValidPath(pts) ==
    /\ \A i \in DOMAIN pts : pts[i] \in Interior
    /\ \A i \in 1..(Len(pts) - 1) :
          /\ (pts[i][1] = pts[i + 1][1]) # (pts[i][2] = pts[i + 1][2])
          /\ Cardinality(Segment(pts, i)) > 2
          /\ i > 1 => (pts[i][1] = pts[i + 1][1]) # (pts[i - 1][1] = pts[i][1])
          /\ \A j \in (i + 2)..(Len(pts) - 1) : Segment(pts, i) \cap Segment(pts, j) = {}

Corridors ==
    IF Len(doors) # 2 THEN {}
    ELSE UNION {{WidePath(UNION {Segment(pts, i) : i \in 1..(Len(pts) - 1)}, w) :
                    pts \in {p \in Paths(Inside(doors[1]), Inside(doors[2]), doors[1], doors[2], w) : ValidPath(p)}} :
                w \in 1..2}

(***************************************************************************)
(* Caves                                                                   *)
(***************************************************************************)
\* carveCaveBlob: the core is solid, the rim is frayed
Blob(c, rx, ry, seed) ==
    {p \in Interior :
        LET v == (p[1] - c[1]) * (p[1] - c[1]) * ry * ry + (p[2] - c[2]) * (p[2] - c[2]) * rx * rx
            limit == rx * rx * ry * ry
        IN  \/ p = c
            \/ v <= limit /\ (v * 4 <= limit * 3 \/ ((p[1] * 17 + p[2] * 31 + seed * 13) % 256) % 5 # 0)}

\* findNearestRoomFloor, connectCaveConnection
Nearest(tiles, p) ==
    CHOOSE c \in tiles : \A d \in tiles :
        LET a == Gap(c[1], p[1]) + Gap(c[2], p[2]) b == Gap(d[1], p[1]) + Gap(d[2], p[2])
        IN  a < b \/ (a = b /\ (c[2] < d[2] \/ (c[2] = d[2] /\ c[1] <= d[1])))
CaveJoined(tiles) ==
    FoldLeft(LAMBDA t, d : t \cup WidePath(Path(Inside(d), Nearest(t, Inside(d)), Vertical(d)), 2), tiles, doors)

\* growCaveTowardCoverage: one tile more that has two neighbours, from the scan's last place on
Area == Cardinality(Interior)
Percent(tiles) == (Cardinality(tiles) * 100 + (Area \div 2)) \div Area
Grow(cave) ==
    LET index(c) == (c[2] - 1) * (Width - 2) + c[1] - 1
        turn(c) == (index(c) + Area - (cave.scan % Area)) % Area
        more == {c \in Interior \ cave.tiles : Cardinality(Beside(c) \cap cave.tiles) >= 2}
        next == CHOOSE c \in more : \A d \in more : turn(c) <= turn(d)
    IN  IF more = {} \/ Cardinality(cave.tiles) * 100 >= Area * Coverage.low THEN cave
        ELSE [tiles |-> cave.tiles \cup {next}, scan |-> index(next) + 17]
Grown(tiles, seed) == FoldLeft(LAMBDA cave, n : Grow(cave), [tiles |-> tiles, scan |-> (seed * 19) % 256], [n \in 1..Area |-> n]).tiles

\* caveHasOpenCombatArea, caveHasLongOneTileTunnel
OpenArea(tiles) == \E c \in tiles : Rect(c[1], c[2], 3, 3) \subseteq tiles
LongTunnel(tiles) ==
    \/ \E c \in tiles : LET t == <<c[1], c[2] + 1>>
                        IN  t \in tiles /\ (Rect(c[1] - 1, c[2], 1, 2) \cup Rect(c[1] + 1, c[2], 1, 2)) \cap tiles = {}
    \/ \E c \in tiles : LET t == <<c[1] + 1, c[2]>>
                        IN  t \in tiles /\ (Rect(c[1], c[2] - 1, 2, 1) \cup Rect(c[1], c[2] + 1, 2, 1)) \cap tiles = {}

\* createCaveAttempt: chambers, each but the first joined to the first
Hollow(centres, seed) ==
    UNION {Blob(centres[i], Radius - IF i = 1 THEN 0 ELSE (seed + i - 1) % 2, Radius - ((seed + i + IF i = 1 THEN 1 ELSE 0) % 2),
                seed + (i - 1) * 11) : i \in DOMAIN centres}
        \cup UNION {WidePath(Path(centres[i], centres[1], (seed + i) % 2 = 1), 2) : i \in 2..Len(centres)}
Acceptable(tiles) ==
    /\ Percent(tiles) \in Coverage.low..Coverage.high
    /\ OpenArea(tiles) /\ ~LongTunnel(tiles)
Caves == {t \in {Grown(CaveJoined(Hollow(c, s)), s) : c \in Chambers, s \in Seeds} : Acceptable(t)}

(***************************************************************************)
(* buildRoomGeometry; the full room is kept for whatever does not work.    *)
(***************************************************************************)
Shaped(of) ==
    CASE of = "square" -> {Square} [] of = "small" -> SmallRooms [] of = "L" -> LRooms
      [] of = "corridor" -> Corridors [] of = "cave" -> Caves
Whole(tiles) == Connected(tiles \cup DoorTiles)

Carve(of) ==
    /\ stage = "carve" /\ stage' = "content"
    /\ LET fitting == {t \in Shaped(of) : Whole(t)}
       IN  IF fitting = {} THEN floor' = Square /\ shape' = "square"
           ELSE floor' \in fitting /\ shape' = of
    /\ UNCHANGED <<kind, wide, doors, foes, things, blocks, rubble>>

(***************************************************************************)
(* Contents: placeContentMarkerNear                                        *)
(***************************************************************************)
Footprint(c) == IF wide THEN Rect(c[1], c[2], 2, 2) ELSE {c}

\* isReservedContentTile
Reserved(placed) == Approaches \cup (IF wide THEN UNION {Rect(c[1], c[2], 2, 2) : c \in placed} ELSE {})

Available(tiles, placed, area) ==
    {c \in tiles : \A p \in area : LET t == <<c[1] + p[1], c[2] + p[2]>>
                                    IN  t \in tiles /\ t \notin Reserved(placed)}
Mark(big) == IF big THEN (0..1) \X (0..1) ELSE {<<0, 0>>}

\* The foes placed so far, or none when one finds no place.
PutAll(tiles, prefs) ==
    FoldLeft(LAMBDA s, p :
                 LET spots == Available(tiles \ s.put, s.put, Mark(wide))
                 IN  IF s.failed \/ spots = {} THEN [s EXCEPT !.failed = TRUE]
                     ELSE [s EXCEPT !.put = @ \cup {Nearest(spots, p)}],
             [put |-> {}, failed |-> FALSE], prefs)

\* generateCombat and generateAmbush place the foes for whom there is room.
Foes(tiles) == PutAll(tiles, Wanted[kind])

\* generateBoss: in the full room when they do not all find a place
Content ==
    /\ stage = "content" /\ stage' = "pillars"
    /\ IF kind = "treasure"
       THEN LET at(t, x) == LET spots == Available(t, {}, Mark(FALSE))
                            IN  IF spots = {} THEN {} ELSE {Nearest(spots, <<x, 3>>)}
                chest == at(floor, Centre[1])
                loot == at(floor \ chest, Centre[1] - 2)
            IN  things' = chest \cup loot /\ floor' = floor \ (chest \cup loot) /\ UNCHANGED <<shape, foes>>
       ELSE LET retry == kind = "boss" /\ Foes(floor).failed
                base == IF retry THEN Square ELSE floor
            IN  /\ foes' = Foes(base).put /\ floor' = base \ Foes(base).put
                /\ shape' = IF retry THEN "square" ELSE shape
                /\ UNCHANGED things
    /\ UNCHANGED <<kind, wide, doors, blocks, rubble>>

(***************************************************************************)
(* Pillars, furniture, rubble                                              *)
(***************************************************************************)
\* isNearRoomConnection
NearDoor == {c \in Cells : \E a \in Approaches : Gap(c[1], a[1]) <= 1 /\ Gap(c[2], a[2]) <= 1}
MayPut(c) == c \in floor /\ c \in Interior /\ c \notin Reserved(foes) \cup NearDoor
\* isRoomEligibleForPillars, isRoomEligibleForFurniture
Suits == kind # "treasure" /\ shape \notin {"corridor", "small"}
\* Never checked.
Unchecked(tiles) == TRUE

StaysWhole(tiles) == Connected(tiles)

Furnish(tiles) == IF Suits /\ Cardinality(tiles \cap Interior) >= Roomy THEN "furniture" ELSE "rubble"

PutPillars(c, layout) ==
    LET pillars == {<<c[1] + o[1], c[2] + o[2]>> : o \in layout}
    IN  /\ stage = "pillars" /\ Suits /\ Cardinality(floor) >= Ample
        /\ \A p \in pillars : MayPut(p)
        /\ StaysWhole(Walkable \ pillars)
        /\ stage' = Furnish(Walkable \ pillars)
        /\ blocks' = pillars /\ floor' = floor \ pillars
        /\ UNCHANGED <<kind, shape, wide, doors, foes, things, rubble>>

\* placeFurnitureAt
PutFurniture(c) ==
    /\ stage = "furniture" /\ MayPut(c)
    /\ StaysWhole(Walkable \ {c})
    /\ Cardinality(blocks) < Pieces
    /\ blocks' = blocks \cup {c} /\ floor' = floor \ {c}
    /\ UNCHANGED <<kind, shape, wide, doors, stage, foes, things, rubble>>

\* placeRubblePatch; the room of the boss gets two.
Pattern == <<<<0, 0>>, <<1, 0>>, <<0, 1>>, <<-1, 0>>, <<1, 1>>, <<-1, 1>>, <<0, -1>>, <<2, 0>>, <<-2, 0>>>>
Laid(tiles, wish) ==
    LET fits(c) == MayPut(c) /\ c \in tiles
        spots == {c \in tiles : fits(c)}
        origin == Nearest(spots, wish)
        patch == SelectSeq([i \in DOMAIN Pattern |-> <<origin[1] + Pattern[i][1], origin[2] + Pattern[i][2]>>], fits)
    IN  IF spots = {} THEN tiles ELSE tiles \ Range(SubSeq(patch, 1, Min({Patch, Len(patch)})))
PutRubble(wishes) ==
    /\ stage = "rubble" /\ stage' = "done"
    /\ kind # "treasure" /\ (kind = "boss") = (Len(wishes) = 2)
    /\ floor' = FoldLeft(Laid, floor, wishes)
    /\ rubble' = floor \ floor'
    /\ UNCHANGED <<kind, shape, wide, doors, foes, things, blocks>>

\* A roll, or nothing that fits.
GoOn ==
    /\ stage \in {"pillars", "furniture", "rubble"}
    /\ stage' = CASE stage = "pillars" -> Furnish(Walkable) [] stage = "furniture" -> "rubble" [] stage = "rubble" -> "done"
    /\ UNCHANGED <<kind, shape, wide, doors, floor, foes, things, blocks, rubble>>

GenInit ==
    /\ kind \in DOMAIN Wanted \cup {"treasure"} /\ wide \in BOOLEAN /\ doors \in DoorSets
    /\ kind = "treasure" => ~wide /\ Len(doors) = 1
    /\ shape = "square"
    /\ stage = "carve" /\ floor = {} /\ foes = {} /\ things = {} /\ blocks = {} /\ rubble = {}

GenNext ==
    \/ \E of \in {"square", "small", "L", "corridor", "cave"} : Carve(of)
    \/ Content \/ GoOn
    \/ \E c \in Interior : PutFurniture(c) \/ \E l \in Layouts : PutPillars(c, l)
    \/ \E wishes \in Ruins : PutRubble(wishes)

GenSpec == GenInit /\ [][GenNext]_genVars

(***************************************************************************)
(* Whatever is rolled, every door leads to every other and to every foe    *)
(* and thing; nothing stands on the tile one enters on; no foe stands on   *)
(* another one, a pillar or rubble; and the boss never comes alone.        *)
(***************************************************************************)
RoomHolds ==
    stage \notin {"carve", "content"} =>
        /\ Connected(Walkable)
        /\ Approaches \subseteq floor
        /\ \A f \in foes : Footprint(f) \subseteq (floor \cup {f}) /\ Footprint(f) \cap foes = {f}
        /\ \A f, g \in foes : f # g => Footprint(f) \cap Footprint(g) = {}
        /\ kind = "boss" => Cardinality(foes) = Len(Wanted[kind])
=============================================================================
