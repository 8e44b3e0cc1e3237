---------------------------- MODULE WorldProofs ----------------------------
(***************************************************************************)
(* Proofs about World, whatever the player picks up and wherever it is      *)
(* dropped.                                                                 *)
(***************************************************************************)
EXTENDS World, TLAPS

Park == {"ALLERTON", "FU_DOGS", "STATUE", "SUNSINGER"}
Airport == {"WILLARD", "WILL_SIDE", "REM_PLANE", "COCKPIT"}
North == {"OVER_WILL", "AIR_RIO", "REM_ICE", "REM_LAB"}
Beckman == {"BECKLOBBY", "BECK_MRI"}

(* What has been done before the player stands where they stand.            *)
Entered(r) ==
  /\ r = "IN_CLEANR" => "WEARING_SUIT" \in flags
  /\ r \in Beckman => loc["ROBOT_LIVE"] # Limbo
  /\ r \in Park => "WEARING_SUIT" \in flags
  /\ r \in Park \cup Airport => "CAR_FIXED" \in flags
  /\ r \in North => takeoff

(* What has been done before objects are where they are.                    *)
Progress ==
  /\ "CAR_FIXED" \in flags => "CAR_OPEN" \in flags
  /\ loc["BOOK_C"] # Limbo => "HAS_EATEN" \in flags
  /\ loc["GPS_GOOD"] # Limbo => "WEARING_SUIT" \in flags
  /\ loc["MIMO_CARD"] # "STATUE" => "WEARING_SUIT" \in flags
  /\ takeoff => {"WEARING_SUIT", "CAR_FIXED"} \subseteq flags
  /\ loc["TUX"] # "REM_LAB" => "LURED_TUX" \in flags
  /\ "LURED_TUX" \in flags => takeoff

IInv == TypeOK /\ Entered(where) /\ Progress /\ OneForm /\ HoodShows /\ NoShortcut

Batteries == {"BATT_CAR", "BATT_EMPTY", "BATT_FULL"}
Named == Batteries \cup
  {"GPS_BAD", "GPS_GOOD", "ROBOT_DEAD", "ROBOT_LIVE", "BOOK_C", "MIMO_CARD", "TUX"}

----------------------------------------------------------------------------
(* Facts of the tables.                                                     *)

LEMMA NoSuchRoom == Limbo \notin Rooms /\ "INVENTORY" \notin Rooms
BY DEF Rooms, EverittArea, BardeenArea, CSLArea, FarArea, Limbo

LEMMA NamedObjects == Named \subseteq Objects
BY DEF Named, Batteries, Objects, ObjectData

Guarded == Beckman \cup Park \cup Airport \cup North \cup {"IN_CLEANR"}

LEMMA EverittDoors ==
  ASSUME NEW r \in DOMAIN EverittArea, NEW i \in 1..3
  PROVE  EverittArea[r][i] \notin Guarded
BY DEF EverittArea, Guarded, North, Airport, Park, Beckman

LEMMA BardeenDoors ==
  ASSUME NEW r \in DOMAIN BardeenArea, NEW i \in 1..3
  PROVE  BardeenArea[r][i] \notin Guarded
BY DEF BardeenArea, Guarded, North, Airport, Park, Beckman

LEMMA CSLDoors ==
  ASSUME NEW r \in DOMAIN CSLArea, NEW i \in 1..3
  PROVE  /\ CSLArea[r][i] \notin Park \cup Airport \cup North \cup {"IN_CLEANR"}
         /\ CSLArea[r][i] \in Beckman => r \in Beckman
BY DEF CSLArea, North, Airport, Park, Beckman

LEMMA FarDoors ==
  ASSUME NEW r \in DOMAIN FarArea, NEW i \in 1..3
  PROVE  /\ FarArea[r][i] \notin Beckman \cup {"IN_CLEANR"}
         /\ FarArea[r][i] \in Park => r \in Park
         /\ FarArea[r][i] \in Airport => r \in Airport \cup North
         /\ FarArea[r][i] \in North => r \in North
BY DEF FarArea, North, Airport, Park, Beckman

LEMMA DoorsOf ==
  ASSUME NEW r \in Rooms
  PROVE  \/ r \in DOMAIN EverittArea /\ Doors[r] = EverittArea[r]
         \/ r \in DOMAIN BardeenArea /\ Doors[r] = BardeenArea[r]
         \/ r \in DOMAIN CSLArea /\ Doors[r] = CSLArea[r]
         \/ r \in DOMAIN FarArea /\ Doors[r] = FarArea[r]
<1>1. /\ DOMAIN EverittArea \cap DOMAIN BardeenArea = {}
      /\ DOMAIN EverittArea \cap DOMAIN CSLArea = {}
      /\ DOMAIN EverittArea \cap DOMAIN FarArea = {}
      /\ DOMAIN BardeenArea \cap DOMAIN CSLArea = {}
      /\ DOMAIN BardeenArea \cap DOMAIN FarArea = {}
      /\ DOMAIN CSLArea \cap DOMAIN FarArea = {}
  BY DEF EverittArea, BardeenArea, CSLArea, FarArea
<1>2. Doors[r] = CASE r \in DOMAIN EverittArea -> EverittArea[r]
                   [] r \in DOMAIN BardeenArea -> BardeenArea[r]
                   [] r \in DOMAIN CSLArea -> CSLArea[r]
                   [] r \in DOMAIN FarArea -> FarArea[r]
  BY DEF Doors
<1>3. r \in DOMAIN EverittArea \/ r \in DOMAIN BardeenArea
        \/ r \in DOMAIN CSLArea \/ r \in DOMAIN FarArea
  BY DEF Rooms
<1> QED
  BY <1>1, <1>2, <1>3

LEMMA DoorsLead ==
  ASSUME NEW r \in Rooms, NEW i \in 1..3
  PROVE  Doors[r][i] \in Rooms \cup {"NONE"}
<1>1. r \in DOMAIN EverittArea => EverittArea[r][i] \in Rooms \cup {"NONE"}
  BY DEF EverittArea, BardeenArea, CSLArea, FarArea, Rooms
<1>2. r \in DOMAIN BardeenArea => BardeenArea[r][i] \in Rooms \cup {"NONE"}
  BY DEF EverittArea, BardeenArea, CSLArea, FarArea, Rooms
<1>3. r \in DOMAIN CSLArea => CSLArea[r][i] \in Rooms \cup {"NONE"}
  BY DEF EverittArea, BardeenArea, CSLArea, FarArea, Rooms
<1>4. r \in DOMAIN FarArea => FarArea[r][i] \in Rooms \cup {"NONE"}
  BY DEF EverittArea, BardeenArea, CSLArea, FarArea, Rooms
<1> QED
  BY <1>1, <1>2, <1>3, <1>4, DoorsOf

LEMMA DoorsRespectLocks ==
  ASSUME IInv, NEW r \in Rooms, NEW i \in 1..3, Entered(r)
  PROVE  Entered(Doors[r][i])
<1>1. CASE r \in DOMAIN EverittArea /\ Doors[r] = EverittArea[r]
  BY <1>1, EverittDoors DEF Entered, Guarded
<1>2. CASE r \in DOMAIN BardeenArea /\ Doors[r] = BardeenArea[r]
  BY <1>2, BardeenDoors DEF Entered, Guarded
<1>3. CASE r \in DOMAIN CSLArea /\ Doors[r] = CSLArea[r]
  <2>1. /\ Doors[r][i] \notin Park \cup Airport \cup North \cup {"IN_CLEANR"}
        /\ Doors[r][i] \in Beckman => r \in Beckman
    BY <1>3, CSLDoors
  <2> QED
    BY <2>1 DEF Entered
<1>4. CASE r \in DOMAIN FarArea /\ Doors[r] = FarArea[r]
  <2>1. takeoff => "CAR_FIXED" \in flags
    BY DEF IInv, Progress
  <2>2. /\ Doors[r][i] \notin Beckman \cup {"IN_CLEANR"}
        /\ Doors[r][i] \in Park => r \in Park
        /\ Doors[r][i] \in Airport => r \in Airport \cup North
        /\ Doors[r][i] \in North => r \in North
    BY <1>4, FarDoors
  <2> QED
    BY <2>1, <2>2 DEF Entered
<1> QED
  BY <1>1, <1>2, <1>3, <1>4, DoorsOf

----------------------------------------------------------------------------
LEMMA InitInv == Init => IInv
<1> SUFFICES ASSUME Init PROVE IInv
  OBVIOUS
<1>1. \A o \in Objects : loc[o] = ObjectData[o][2]
  BY DEF Init
<1>2. \A o \in Objects : ObjectData[o][2] \in Rooms \cup {Limbo}
  BY DEF ObjectData, Objects, Rooms, EverittArea, BardeenArea, CSLArea, FarArea, Limbo
<1>3. "EAST_EVRT" \in Rooms
  BY DEF Rooms, EverittArea
<1>4. TypeOK
  BY <1>1, <1>2, <1>3 DEF Init, TypeOK
<1>5. /\ \A o \in Batteries \cup {"GPS_GOOD", "ROBOT_LIVE", "BOOK_C"} : loc[o] = Limbo
      /\ loc["GPS_BAD"] # Limbo /\ loc["ROBOT_DEAD"] # Limbo
      /\ loc["MIMO_CARD"] = "STATUE" /\ loc["TUX"] = "REM_LAB"
  BY <1>1, NamedObjects DEF ObjectData, Named, Batteries, Limbo
<1>6. OneForm
  BY <1>5 DEF OneForm, Only, Batteries, Init
<1>7. Progress /\ HoodShows
  BY <1>5 DEF Progress, HoodShows, Init
<1>8. Entered(where) /\ NoShortcut
  BY DEF Entered, Beckman, Park, Airport, North, NoShortcut, Init
<1> QED
  BY <1>4, <1>6, <1>7, <1>8 DEF IInv

(* The player goes to a room that may be entered.                           *)
LEMMA MoveInv ==
  ASSUME IInv, NEW r \in Rooms, Entered(r), MoveTo(r)
  PROVE  IInv'
BY NoSuchRoom DEF IInv, MoveTo, TypeOK, Entered, Progress, OneForm, Only, HoodShows,
                  NoShortcut, Limbo

LEMMA LeftInv ==
  ASSUME IInv, where # "NONE", TryToMoveLeft
  PROVE  IInv'
<1>1. where \in Rooms /\ Entered(where)
  BY DEF IInv, TypeOK
<1>2. Left(where) \in Rooms /\ Entered(Left(where))
  BY <1>1, DoorsLead, DoorsRespectLocks DEF TryToMoveLeft, Left
<1> QED
  BY <1>2, MoveInv DEF TryToMoveLeft

LEMMA RightInv ==
  ASSUME IInv, where # "NONE", TryToMoveRight
  PROVE  IInv'
<1>1. where \in Rooms /\ Entered(where)
  BY DEF IInv, TypeOK
<1>2. Right(where) \in Rooms /\ Entered(Right(where))
  BY <1>1, DoorsLead, DoorsRespectLocks DEF TryToMoveRight, Right
<1> QED
  BY <1>2, MoveInv DEF TryToMoveRight

LEMMA EnterInv ==
  ASSUME IInv, where # "NONE", TryToEnter
  PROVE  IInv'
<1>1. where \in Rooms /\ Entered(where)
  BY DEF IInv, TypeOK
<1>2. {"IN_CLEANR", "IN_395LAB", "CSL_LOBBY", "BECKLOBBY", "OVER_WILL"} \subseteq Rooms
  BY DEF Rooms, EverittArea, CSLArea, FarArea
<1>3. CASE Enter(where) = "NONE"
  <2>1. Unlocked(where) # "NONE" /\ MoveTo(Unlocked(where))
    BY <1>3 DEF TryToEnter
  <2>2. Entered(Unlocked(where)) /\ Unlocked(where) \in Rooms
    BY <1>2, <2>1, NoSuchRoom
    DEF Unlocked, Entered, Carried, Limbo, Beckman, Park, Airport, North
  <2> QED
    BY <2>1, <2>2, MoveInv
<1>4. CASE Enter(where) # "NONE"
  <2>1. MoveTo(Enter(where))
    BY <1>4 DEF TryToEnter
  <2>2. CASE where = "COCKPIT" /\ takeoff
    <3>1. Enter(where) = "OVER_WILL" /\ Entered("OVER_WILL")
      BY <2>2 DEF Enter, Entered, Beckman, Park, Airport, North
    <3> QED
      BY <1>2, <2>1, <3>1, MoveInv
  <2>3. CASE ~(where = "COCKPIT" /\ takeoff)
    <3>1. Enter(where) = Doors[where][2]
      BY <2>3 DEF Enter
    <3>2. Enter(where) \in Rooms /\ Entered(Enter(where))
      BY <1>1, <1>4, <3>1, DoorsLead, DoorsRespectLocks
    <3> QED
      BY <2>1, <3>2, MoveInv
  <2> QED
    BY <2>2, <2>3
<1> QED
  BY <1>3, <1>4

LEMMA DriveInv ==
  ASSUME IInv, where # "NONE", GoAllerton \/ GoWillard \/ GoCampus
  PROVE  IInv'
<1>1. {"ALLERTON", "WILLARD", "CAR_SITE"} \subseteq Rooms
  BY DEF Rooms, FarArea
<1>2. CASE GoAllerton
  <2>1. "CAR_FIXED" \in flags /\ "WEARING_SUIT" \in flags
    BY <1>2 DEF GoAllerton, IInv, Progress, Carried, Limbo
  <2>2. Entered("ALLERTON")
    BY <2>1 DEF Entered, Beckman, Park, Airport, North
  <2> QED
    BY <1>1, <1>2, <2>2, MoveInv DEF GoAllerton
<1>3. CASE GoWillard
  <2>1. Entered("WILLARD")
    BY <1>3 DEF GoWillard, Entered, Beckman, Park, Airport, North
  <2> QED
    BY <1>1, <1>3, <2>1, MoveInv DEF GoWillard
<1>4. CASE GoCampus
  <2>1. Entered("CAR_SITE")
    BY DEF Entered, Beckman, Park, Airport, North
  <2> QED
    BY <1>1, <1>4, <2>1, MoveInv DEF GoCampus
<1> QED
  BY <1>2, <1>3, <1>4

(* The last step: what the player carries tells what has been done.         *)
LEMMA DoInv ==
  ASSUME IInv, where # "NONE", Do
  PROVE  IInv'
<1>1. flags = Flags
  BY DEF Do, IInv, TypeOK, Progress, Carried, Flags, Limbo
<1> QED
  BY <1>1 DEF Do, MoveTo, IInv, TypeOK, Entered, Progress, OneForm, Only, HoodShows,
              NoShortcut, Limbo, Beckman, Park, Airport, North

----------------------------------------------------------------------------
(* What a move of objects does.                                             *)
LEMMA MoveLoc ==
  ASSUME TypeOK, NEW gone, NEW obj, NEW room \in Rooms \cup {"INVENTORY", Limbo},
         Move(gone, obj, room)
  PROVE  /\ loc' \in [Objects -> Rooms \cup {"INVENTORY", Limbo}]
         /\ \A o \in Objects : loc'[o] = IF o \in gone THEN Limbo
                                         ELSE IF o = obj THEN room ELSE loc[o]
BY DEF Move, TypeOK

(* What is at hand is in the world.                                         *)
LEMMA HandInWorld ==
  ASSUME IInv, where # "NONE", NEW o, AtHand(o)
  PROVE  loc[o] # Limbo
BY NoSuchRoom DEF AtHand, Here, IInv, TypeOK, Limbo

(* Objects that stay in or out of the world; the book is the exception.     *)
LEMMA RelocateInv ==
  ASSUME IInv, where # "NONE", Stay, UNCHANGED <<hood, takeoff>>,
         flags \subseteq flags', flags' \subseteq flags \cup {"HAS_EATEN", "WEARING_SUIT"},
         loc' \in [Objects -> Rooms \cup {"INVENTORY", Limbo}],
         \A o \in Named \ {"BOOK_C"} : loc'[o] = Limbo <=> loc[o] = Limbo,
         loc'["BOOK_C"] # Limbo => "HAS_EATEN" \in flags',
         loc'["MIMO_CARD"] # "STATUE" => "WEARING_SUIT" \in flags',
         loc'["TUX"] # "REM_LAB" => "LURED_TUX" \in flags
  PROVE  IInv'
<1>1. /\ "CAR_OPEN" \in flags' <=> "CAR_OPEN" \in flags
      /\ "CAR_FIXED" \in flags' <=> "CAR_FIXED" \in flags
      /\ "LURED_TUX" \in flags' <=> "LURED_TUX" \in flags
  OBVIOUS
<1>2. \A o \in Batteries \cup {"GPS_BAD", "GPS_GOOD", "ROBOT_DEAD", "ROBOT_LIVE"} :
         loc'[o] = Limbo <=> loc[o] = Limbo
  BY DEF Named, Batteries
<1>3. TypeOK'
  BY DEF IInv, TypeOK, Stay, Flags
<1>4. Entered(where)'
  BY <1>1, <1>2 DEF IInv, Entered, Stay
<1>5. Progress'
  BY <1>1, <1>2 DEF IInv, Progress
<1>6. OneForm'
  BY <1>1, <1>2 DEF IInv, OneForm, Only, Batteries
<1>7. HoodShows' /\ NoShortcut'
  BY <1>1 DEF IInv, HoodShows, NoShortcut, Stay
<1> QED
  BY <1>3, <1>4, <1>5, <1>6, <1>7 DEF IInv

(* Objects of which the invariant does not speak.                           *)
LEMMA PutInv ==
  ASSUME IInv, where # "NONE", Stay, UNCHANGED <<hood, takeoff>>,
         flags \subseteq flags', flags' \subseteq flags \cup {"HAS_EATEN", "WEARING_SUIT"},
         NEW obj, obj \notin Named, NEW room \in Rooms \cup {"INVENTORY", Limbo},
         Put(obj, room)
  PROVE  IInv'
<1>1. /\ loc' \in [Objects -> Rooms \cup {"INVENTORY", Limbo}]
      /\ \A o \in Named : loc'[o] = loc[o]
  BY MoveLoc, NamedObjects DEF Put, IInv
<1>2. {"BOOK_C", "MIMO_CARD", "TUX"} \subseteq Named
  BY DEF Named
<1> QED
  BY <1>1, <1>2, RelocateInv DEF IInv, Progress

LEMMA InventoryInv ==
  ASSUME IInv, where # "NONE", Inventory
  PROVE  IInv'
BY DEF Inventory, IInv, TypeOK, Entered, Progress, OneForm, Only, HoodShows, NoShortcut

LEMMA DewInv ==
  ASSUME IInv, where # "NONE", BuyDew \/ DrinkDew
  PROVE  IInv'
<1>1. "MTN_DEW" \notin Named
  BY DEF Named, Batteries
<1> QED
  BY <1>1, PutInv DEF BuyDew, DrinkDew

LEMMA FedInv ==
  ASSUME IInv, where # "NONE", BuyYogurt \/ Sigh
  PROVE  IInv'
<1>1. /\ UNCHANGED <<loc, hood, takeoff>> /\ Stay
      /\ flags' = flags \cup {"HAS_EATEN"}
  BY DEF BuyYogurt, Sigh, Accomplish
<1> QED
  BY <1>1, RelocateInv DEF IInv, TypeOK, Progress

LEMMA WearInv ==
  ASSUME IInv, where # "NONE", Wear
  PROVE  IInv'
<1>1. "BUNNYSUIT" \notin Named
  BY DEF Named, Batteries
<1> QED
  BY <1>1, PutInv DEF Wear, Accomplish

----------------------------------------------------------------------------
(* Objects that a command turns into another one.                           *)
LEMMA TransformInv ==
  ASSUME IInv, where # "NONE", Stay, UNCHANGED <<flags, hood, takeoff>>,
         NEW gone, NEW obj, Move(gone, obj, "INVENTORY"),
         gone \cap {"BOOK_C", "MIMO_CARD", "TUX"} = {}, obj \notin {"BOOK_C", "MIMO_CARD", "TUX"},
         obj = "GPS_GOOD" => "WEARING_SUIT" \in flags,
         loc'["ROBOT_LIVE"] # Limbo \/ loc["ROBOT_LIVE"] = Limbo,
         OneForm'
  PROVE  IInv'
<1>1. /\ loc' \in [Objects -> Rooms \cup {"INVENTORY", Limbo}]
      /\ \A o \in Objects : loc'[o] = IF o \in gone THEN Limbo
                                      ELSE IF o = obj THEN "INVENTORY" ELSE loc[o]
  BY MoveLoc DEF IInv
<1>2. {"BOOK_C", "MIMO_CARD", "TUX", "GPS_GOOD"} \subseteq Objects
  BY NamedObjects DEF Named
<1>3. /\ \A o \in {"BOOK_C", "MIMO_CARD", "TUX"} : loc'[o] = loc[o]
      /\ loc'["GPS_GOOD"] # Limbo => obj = "GPS_GOOD" \/ loc["GPS_GOOD"] # Limbo
  BY <1>1, <1>2
<1>4. TypeOK'
  BY <1>1 DEF IInv, TypeOK, Stay
<1>5. Entered(where)' /\ Progress' /\ HoodShows' /\ NoShortcut'
  BY <1>3 DEF IInv, Entered, Progress, HoodShows, NoShortcut, Stay
<1> QED
  BY <1>4, <1>5 DEF IInv

LEMMA ChargeInv ==
  ASSUME IInv, where # "NONE", Charge
  PROVE  IInv'
<1>1. Move({"BATT_EMPTY"}, "BATT_FULL", "INVENTORY")
  BY DEF Charge
<1>2. \A o \in Objects : loc'[o] = IF o = "BATT_EMPTY" THEN Limbo
                                   ELSE IF o = "BATT_FULL" THEN "INVENTORY" ELSE loc[o]
  BY <1>1, MoveLoc DEF IInv
<1>3. /\ loc'["BATT_CAR"] = loc["BATT_CAR"]
      /\ loc'["BATT_EMPTY"] = Limbo /\ loc'["BATT_FULL"] # Limbo
      /\ \A o \in {"GPS_BAD", "GPS_GOOD", "ROBOT_DEAD", "ROBOT_LIVE"} : loc'[o] = loc[o]
  BY <1>2, NamedObjects DEF Named, Batteries, Limbo
<1>4. loc["BATT_EMPTY"] # Limbo
  BY HandInWorld DEF Charge
<1>5. OneForm'
  BY <1>3, <1>4 DEF IInv, OneForm, Only, Charge
<1> QED
  BY <1>1, <1>3, <1>5, TransformInv DEF Charge

LEMMA FixInv ==
  ASSUME IInv, where # "NONE", Fix
  PROVE  IInv'
<1>1. Move({"GPS_BAD", "GPS_SPEC"}, "GPS_GOOD", "INVENTORY")
  BY DEF Fix
<1>2. \A o \in Objects : loc'[o] = IF o \in {"GPS_BAD", "GPS_SPEC"} THEN Limbo
                                   ELSE IF o = "GPS_GOOD" THEN "INVENTORY" ELSE loc[o]
  BY <1>1, MoveLoc DEF IInv
<1>3. /\ loc'["GPS_BAD"] = Limbo /\ loc'["GPS_GOOD"] # Limbo
      /\ \A o \in Batteries \cup {"ROBOT_DEAD", "ROBOT_LIVE"} : loc'[o] = loc[o]
  BY <1>2, NamedObjects DEF Named, Batteries, Limbo
<1>4. OneForm'
  BY <1>3 DEF IInv, OneForm, Only, Fix, Batteries
<1>5. "WEARING_SUIT" \in flags
  BY DEF Fix, Here, IInv, Entered
<1> QED
  BY <1>1, <1>3, <1>4, <1>5, TransformInv DEF Fix

LEMMA FlashInv ==
  ASSUME IInv, where # "NONE", Flash
  PROVE  IInv'
<1>1. Move({"ROBOT_DEAD"}, "ROBOT_LIVE", "INVENTORY")
  BY DEF Flash
<1>2. \A o \in Objects : loc'[o] = IF o = "ROBOT_DEAD" THEN Limbo
                                   ELSE IF o = "ROBOT_LIVE" THEN "INVENTORY" ELSE loc[o]
  BY <1>1, MoveLoc DEF IInv
<1>3. /\ loc'["ROBOT_DEAD"] = Limbo /\ loc'["ROBOT_LIVE"] # Limbo
      /\ \A o \in Batteries \cup {"GPS_BAD", "GPS_GOOD"} : loc'[o] = loc[o]
  BY <1>2, NamedObjects DEF Named, Batteries, Limbo
<1>4. OneForm'
  BY <1>3 DEF IInv, OneForm, Only, Flash, Batteries
<1> QED
  BY <1>1, <1>3, <1>4, TransformInv DEF Flash

(* The hood opens: the battery appears in the car, the key is gone.         *)
LEMMA UseCarInv ==
  ASSUME IInv, where # "NONE", UseCar
  PROVE  IInv'
<1>1. "CAR_SITE" \in Rooms
  BY DEF Rooms, FarArea
<1>2. /\ loc' \in [Objects -> Rooms \cup {"INVENTORY", Limbo}]
      /\ \A o \in Objects : loc'[o] = IF o = "CAR_KEY" THEN Limbo
                                      ELSE IF o = "BATT_CAR" THEN "CAR_SITE" ELSE loc[o]
  BY <1>1, MoveLoc DEF UseCar, IInv
<1>3. /\ loc'["BATT_CAR"] # Limbo
      /\ \A o \in Named \ {"BATT_CAR"} : loc'[o] = loc[o]
  BY <1>2, NamedObjects DEF Named, Batteries, Limbo
<1>4. /\ "BATT_EMPTY" \in Named \ {"BATT_CAR"} /\ "BATT_FULL" \in Named \ {"BATT_CAR"}
      /\ {"GPS_BAD", "GPS_GOOD", "ROBOT_DEAD", "ROBOT_LIVE", "BOOK_C", "MIMO_CARD", "TUX"}
           \subseteq Named \ {"BATT_CAR"}
  BY DEF Named, Batteries
<1>5. /\ flags' = flags \cup {"CAR_OPEN"} /\ hood' = "open" /\ takeoff' = takeoff
      /\ {"CAR_OPEN", "CAR_FIXED"} \cap flags = {} /\ Stay
  BY DEF UseCar, Accomplish, SwapHood, IInv, TypeOK, HoodShows
<1>6. TypeOK'
  BY <1>2, <1>5 DEF IInv, TypeOK, Stay, Flags
<1>7. OneForm'
  BY <1>3, <1>4, <1>5 DEF IInv, OneForm, Only
<1>8. Entered(where)' /\ Progress'
  BY <1>3, <1>4, <1>5 DEF IInv, Entered, Progress, Stay
<1>9. HoodShows' /\ NoShortcut'
  BY <1>5 DEF HoodShows, NoShortcut, Stay
<1> QED
  BY <1>6, <1>7, <1>8, <1>9 DEF IInv

LEMMA UseFishInv ==
  ASSUME IInv, where # "NONE", UseFish
  PROVE  IInv'
<1>1. /\ loc' \in [Objects -> Rooms \cup {"INVENTORY", Limbo}]
      /\ \A o \in Objects : loc'[o] = IF o = "FISH" THEN Limbo
                                      ELSE IF o = "TUX" THEN "INVENTORY" ELSE loc[o]
  BY MoveLoc DEF UseFish, IInv
<1>2. /\ \A o \in Batteries \cup {"GPS_BAD", "GPS_GOOD", "ROBOT_DEAD", "ROBOT_LIVE",
                                   "BOOK_C", "MIMO_CARD"} : loc'[o] = loc[o]
  BY <1>1, NamedObjects DEF Named, Batteries
<1>3. flags' = flags \cup {"LURED_TUX"} /\ UNCHANGED <<hood, takeoff>> /\ Stay
  BY DEF UseFish, Accomplish
<1>4. takeoff
  BY DEF UseFish, Here, IInv, Entered, North
<1>5. TypeOK'
  BY <1>1, <1>3 DEF IInv, TypeOK, Stay, Flags
<1>6. OneForm'
  BY <1>2, <1>3 DEF IInv, OneForm, Only, Batteries
<1>7. Entered(where)' /\ Progress'
  BY <1>2, <1>3, <1>4 DEF IInv, Entered, Progress, Stay
<1>8. HoodShows' /\ NoShortcut'
  BY <1>3 DEF IInv, HoodShows, NoShortcut, Stay
<1> QED
  BY <1>5, <1>6, <1>7, <1>8 DEF IInv

(* The battery is at hand, so the hood is open: it closes.                  *)
LEMMA InstallBatteryInv ==
  ASSUME IInv, where # "NONE", InstallBattery
  PROVE  IInv'
<1>1. /\ loc' \in [Objects -> Rooms \cup {"INVENTORY", Limbo}]
      /\ \A o \in Objects : loc'[o] = IF o = "BATT_FULL" THEN Limbo ELSE loc[o]
  BY MoveLoc DEF InstallBattery, Put, IInv
<1>2. loc["BATT_FULL"] # Limbo
  BY HandInWorld DEF InstallBattery
<1>3. /\ "CAR_OPEN" \in flags /\ "CAR_FIXED" \notin flags
      /\ loc["BATT_CAR"] = Limbo /\ loc["BATT_EMPTY"] = Limbo
  BY <1>2 DEF IInv, OneForm, Only
<1>4. /\ \A o \in Batteries : loc'[o] = Limbo
      /\ \A o \in Named \ Batteries : loc'[o] = loc[o]
  BY <1>1, <1>3, NamedObjects DEF Named, Batteries
<1>5. {"GPS_BAD", "GPS_GOOD", "ROBOT_DEAD", "ROBOT_LIVE", "BOOK_C", "MIMO_CARD", "TUX"}
         \subseteq Named \ Batteries
  BY DEF Named, Batteries
<1>6. /\ flags' = flags \cup {"CAR_FIXED"} /\ hood' = "closed" /\ takeoff' = takeoff
      /\ Stay
  BY <1>3 DEF InstallBattery, Accomplish, SwapHood, IInv, HoodShows
<1>7. TypeOK'
  BY <1>1, <1>6 DEF IInv, TypeOK, Stay, Flags
<1>8. OneForm'
  BY <1>4, <1>5, <1>6 DEF IInv, OneForm, Only, Batteries
<1>9. Entered(where)' /\ Progress'
  BY <1>3, <1>4, <1>5, <1>6 DEF IInv, Entered, Progress, Stay
<1>10. HoodShows' /\ NoShortcut'
  BY <1>6 DEF HoodShows, NoShortcut, Stay
<1> QED
  BY <1>7, <1>8, <1>9, <1>10 DEF IInv

LEMMA InstallMimoInv ==
  ASSUME IInv, where # "NONE", InstallMimo
  PROVE  IInv'
<1>1. /\ loc' \in [Objects -> Rooms \cup {"INVENTORY", Limbo}]
      /\ \A o \in Objects : loc'[o] = IF o = "MIMO_CARD" THEN Limbo ELSE loc[o]
  BY MoveLoc DEF InstallMimo, Put, IInv
<1>2. \A o \in Named \ {"MIMO_CARD"} : loc'[o] = loc[o]
  BY <1>1, NamedObjects
<1>3. /\ Batteries \subseteq Named \ {"MIMO_CARD"}
      /\ {"GPS_BAD", "GPS_GOOD", "ROBOT_DEAD", "ROBOT_LIVE", "BOOK_C", "TUX"}
           \subseteq Named \ {"MIMO_CARD"}
  BY DEF Named, Batteries
<1>4. takeoff' /\ UNCHANGED <<flags, hood>> /\ Stay
  BY DEF InstallMimo
<1>5. "CAR_FIXED" \in flags
  BY DEF InstallMimo, Here, IInv, Entered, Airport
<1>6. "WEARING_SUIT" \in flags
  <2>1. CASE loc["MIMO_CARD"] # "STATUE"
    BY <2>1 DEF IInv, Progress
  <2>2. CASE loc["MIMO_CARD"] = "STATUE"
    BY <2>2 DEF InstallMimo, AtHand, Here
  <2> QED
    BY <2>1, <2>2
<1>7. TypeOK'
  BY <1>1, <1>4 DEF IInv, TypeOK, Stay, InstallMimo
<1>8. OneForm'
  BY <1>2, <1>3, <1>4 DEF IInv, OneForm, Only, Batteries
<1>9. Entered(where)' /\ Progress'
  BY <1>2, <1>3, <1>4, <1>5, <1>6 DEF IInv, Entered, Progress, Stay
<1>10. HoodShows' /\ NoShortcut'
  BY <1>4 DEF IInv, HoodShows, NoShortcut, Stay
<1> QED
  BY <1>7, <1>8, <1>9, <1>10 DEF IInv

----------------------------------------------------------------------------
(* The car's battery is taken.                                              *)
LEMMA TakeBatteryInv ==
  ASSUME IInv, where # "NONE", Stay, UNCHANGED <<flags, hood, takeoff>>,
         TakesBattery, Move({"BATT_CAR"}, "BATT_EMPTY", "INVENTORY")
  PROVE  IInv'
<1>1. \A o \in Objects : loc'[o] = IF o = "BATT_CAR" THEN Limbo
                                   ELSE IF o = "BATT_EMPTY" THEN "INVENTORY" ELSE loc[o]
  BY MoveLoc DEF IInv
<1>2. /\ loc'["BATT_CAR"] = Limbo /\ loc'["BATT_EMPTY"] # Limbo
      /\ loc'["BATT_FULL"] = loc["BATT_FULL"]
      /\ \A o \in {"GPS_BAD", "GPS_GOOD", "ROBOT_DEAD", "ROBOT_LIVE"} : loc'[o] = loc[o]
  BY <1>1, NamedObjects DEF Named, Batteries, Limbo
<1>3. loc["BATT_CAR"] # Limbo
  BY DEF TakesBattery, Limbo
<1>4. OneForm'
  BY <1>2, <1>3 DEF IInv, OneForm, Only
<1> QED
  BY <1>2, <1>4, TransformInv

(* The special book, which may come from nowhere.                           *)
LEMMA BookInv ==
  ASSUME IInv, where # "NONE", Stay, UNCHANGED <<flags, hood, takeoff>>,
         NEW name, NEW o \in ReserveBook(name), Put(o, "INVENTORY")
  PROVE  IInv'
<1>1. (o = "BOOK_C" /\ "HAS_EATEN" \in flags) \/ o = "BOOK_WODE"
  BY DEF ReserveBook
<1>2. CASE o = "BOOK_WODE"
  BY <1>2, PutInv DEF Named, Batteries
<1>3. CASE o = "BOOK_C" /\ "HAS_EATEN" \in flags
  <2>1. /\ loc' \in [Objects -> Rooms \cup {"INVENTORY", Limbo}]
        /\ \A p \in Named \ {"BOOK_C"} : loc'[p] = loc[p]
    BY <1>3, MoveLoc, NamedObjects DEF Put, IInv
  <2>2. {"MIMO_CARD", "TUX"} \subseteq Named \ {"BOOK_C"}
    BY DEF Named
  <2> QED
    BY <1>3, <2>1, <2>2, RelocateInv DEF IInv, Progress
<1> QED
  BY <1>1, <1>2, <1>3

(* An object of a room goes to another room, or to the backpack.            *)
LEMMA CarryInv ==
  ASSUME IInv, where # "NONE", Stay, UNCHANGED <<flags, hood, takeoff>>,
         NEW o \in Objects, loc[o] \in {where, "INVENTORY"},
         o = "TUX" => "LURED_TUX" \in flags,
         NEW room \in Rooms \cup {"INVENTORY"}, Put(o, room)
  PROVE  IInv'
<1>1. where \in Rooms /\ Entered(where)
  BY DEF IInv, TypeOK
<1>2. /\ loc' \in [Objects -> Rooms \cup {"INVENTORY", Limbo}]
      /\ \A p \in Objects : loc'[p] = IF p = o THEN room ELSE loc[p]
  BY MoveLoc DEF Put, IInv
<1>3. loc[o] # Limbo /\ room # Limbo
  BY <1>1, NoSuchRoom DEF Limbo
<1>4. \A p \in Named : loc'[p] = Limbo <=> loc[p] = Limbo
  BY <1>2, <1>3, NamedObjects
<1>5. {"BOOK_C", "MIMO_CARD", "TUX"} \subseteq Named
  BY DEF Named
<1>6. loc'["MIMO_CARD"] # "STATUE" => "WEARING_SUIT" \in flags
  <2>1. CASE loc["MIMO_CARD"] # "STATUE"
    BY <2>1 DEF IInv, Progress
  <2>2. CASE loc["MIMO_CARD"] = "STATUE" /\ o = "MIMO_CARD"
    BY <1>1, <2>2 DEF Entered, Park
  <2>3. CASE loc["MIMO_CARD"] = "STATUE" /\ o # "MIMO_CARD"
    BY <1>2, <1>5, <2>3, NamedObjects
  <2> QED
    BY <2>1, <2>2, <2>3
<1>7. loc'["TUX"] # "REM_LAB" => "LURED_TUX" \in flags
  BY <1>2, <1>5, NamedObjects DEF IInv, Progress
<1>8. loc'["BOOK_C"] # Limbo => "HAS_EATEN" \in flags
  BY <1>4, <1>5 DEF IInv, Progress
<1> QED
  BY <1>2, <1>4, <1>6, <1>7, <1>8, RelocateInv

LEMMA GetInv ==
  ASSUME IInv, where # "NONE", NEW name, Get(name)
  PROVE  IInv'
<1>1. Stay /\ UNCHANGED <<flags, hood, takeoff>>
  BY DEF Get
<1>2. CASE TakesBattery
  BY <1>1, <1>2, TakeBatteryInv DEF Get
<1>3. CASE ~TakesBattery
  <2>1. PICK o \in IF ReserveBook(name) # {} THEN ReserveBook(name)
                                              ELSE FindInRoom(where, name) :
           (o = "TUX" => "LURED_TUX" \in flags) /\ Put(o, "INVENTORY")
    BY <1>3 DEF Get
  <2>2. CASE o \in ReserveBook(name)
    BY <1>1, <2>1, <2>2, BookInv
  <2>3. CASE o \in FindInRoom(where, name)
    BY <1>1, <2>1, <2>3, CarryInv DEF FindInRoom
  <2> QED
    BY <2>1, <2>2, <2>3
<1> QED
  BY <1>2, <1>3

LEMMA DropInv ==
  ASSUME IInv, where # "NONE", NEW name, Drop(name)
  PROVE  IInv'
<1>1. Stay /\ UNCHANGED <<flags, hood, takeoff>> /\ where \in Rooms
  BY DEF Drop, IInv, TypeOK
<1>2. PICK o \in FindInRoom("INVENTORY", name) : Put(o, where)
  BY DEF Drop
<1>3. o \in Objects /\ loc[o] = "INVENTORY"
  BY DEF FindInRoom
<1>4. o = "TUX" => "LURED_TUX" \in flags
  BY <1>3 DEF IInv, Progress
<1> QED
  BY <1>1, <1>2, <1>3, <1>4, CarryInv

----------------------------------------------------------------------------
LEMMA NextInv == IInv /\ [Next]_vars => IInv'
<1> SUFFICES ASSUME IInv, [Next]_vars PROVE IInv'
  OBVIOUS
<1>1. CASE UNCHANGED vars
  BY <1>1 DEF vars, IInv, TypeOK, Entered, Progress, OneForm, Only, HoodShows, NoShortcut
<1>2. CASE Next
  <2>1. where # "NONE"
    BY <1>2 DEF Next
  <2>2. CASE TryToMoveLeft \/ TryToEnter \/ TryToMoveRight
    BY <2>1, <2>2, LeftInv, EnterInv, RightInv
  <2>3. CASE Inventory
    BY <2>1, <2>3, InventoryInv
  <2>4. CASE BuyDew \/ DrinkDew \/ BuyYogurt \/ Sigh
    BY <2>1, <2>4, DewInv, FedInv
  <2>5. CASE Wear \/ Charge \/ Fix \/ Flash
    BY <2>1, <2>5, WearInv, ChargeInv, FixInv, FlashInv
  <2>6. CASE UseCar \/ UseFish
    BY <2>1, <2>6, UseCarInv, UseFishInv
  <2>7. CASE InstallBattery \/ InstallMimo
    BY <2>1, <2>7, InstallBatteryInv, InstallMimoInv
  <2>8. CASE \E o \in Handled : Get(Name(o))
    BY <2>1, <2>8, GetInv
  <2>9. CASE \E o \in Droppable : Drop(Name(o))
    BY <2>1, <2>9, DropInv
  <2>10. CASE GoAllerton \/ GoWillard \/ GoCampus
    BY <2>1, <2>10, DriveInv
  <2>11. CASE Do
    BY <2>1, <2>11, DoInv
  <2> QED
    BY <1>2, <2>2, <2>3, <2>4, <2>5, <2>6, <2>7, <2>8, <2>9, <2>10, <2>11 DEF Next
<1> QED
  BY <1>1, <1>2

(* The inductive invariant, whichever objects the player picks up and       *)
(* wherever they are dropped.                                               *)
THEOREM Invariance == Spec => []IInv
BY InitInv, NextInv, PTL DEF Spec

(* Every object is in a room, in the backpack or nowhere, and the player in *)
(* a room until the game is won.                                            *)
THEOREM TypeCorrect == Spec => []TypeOK
<1>1. IInv => TypeOK
  BY DEF IInv
<1> QED
  BY <1>1, Invariance, PTL

(* The commands that replace an object never leave two forms of it, and     *)
(* never lose it.                                                           *)
THEOREM ThingsStayUnique == Spec => []OneForm
<1>1. IInv => OneForm
  BY DEF IInv
<1> QED
  BY <1>1, Invariance, PTL

(* The swaps of the car's photo never get out of step with the car.         *)
THEOREM HoodAgrees == Spec => []HoodShows
<1>1. IInv => HoodShows
  BY DEF IInv
<1> QED
  BY <1>1, Invariance, PTL

(* No walk and no drive leads behind a lock that was not opened.            *)
THEOREM LocksCannotBePassed == Spec => []LocksHold
<1>1. IInv => LocksHold
  BY DEF IInv, Entered, LocksHold, Beckman, Park, Airport, North
<1> QED
  BY <1>1, Invariance, PTL

(* The game is won only by a player who has done everything.                *)
THEOREM WonInFull == Spec => []NoShortcut
<1>1. IInv => NoShortcut
  BY DEF IInv
<1> QED
  BY <1>1, Invariance, PTL
=============================================================================
