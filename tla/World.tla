------------------------------- MODULE World -------------------------------
(***************************************************************************)
(* The adventure's world (world.c): a player walks between rooms, carries   *)
(* objects and types commands until the MP2 is done.                        *)
(*                                                                          *)
(* A command that only shows a message changes nothing and is left out.     *)
(* The player looks at the inventory or at the room in which they stand;    *)
(* the inventory's "enter" door is read only in the first case, and then    *)
(* leads to that room.  A room's contents are a set: which of two books of  *)
(* one list is found first is left open.  Positions in photos and the       *)
(* random photo of the Boneyard bridge are left out.                        *)
(***************************************************************************)
EXTENDS WorldMap, Naturals

CONSTANTS
  Handled,    \* objects the player picks up or buys
  Droppable,  \* objects the player drops, and
  DropRooms   \* where

ASSUME WorldAssumption ==
  Handled \subseteq Objects /\ Droppable \subseteq Handled /\ DropRooms \subseteq Rooms

Flags == {"HAS_EATEN", "WEARING_SUIT", "CAR_OPEN", "CAR_FIXED", "LURED_TUX"}
Limbo == "NONE"

VARIABLES
  where,    \* the room in which the player stands; "NONE" when the game is won
  looking,  \* the player looks at the inventory
  loc,      \* the room of each object
  flags,    \* the accomplishments
  hood,     \* what the photo of the car shows
  takeoff   \* the cockpit has a door into the air

vars == <<where, looking, loc, flags, hood, takeoff>>

Init ==
  /\ where = "EAST_EVRT" /\ looking = FALSE
  /\ loc = [o \in Objects |-> ObjectData[o][2]]
  /\ flags = {}
  /\ hood = "closed"
  /\ takeoff = FALSE

----------------------------------------------------------------------------
Here == IF looking THEN "INVENTORY" ELSE where
Carried(o) == loc[o] = "INVENTORY"
AtHand(o) == loc[o] \in {"INVENTORY", Here}

(* remove_object of some objects, insert_object of one.                     *)
Move(gone, obj, room) ==
  loc' = [o \in Objects |-> IF o \in gone THEN Limbo
                             ELSE IF o = obj THEN room ELSE loc[o]]
Put(obj, room) == Move({}, obj, room)

Left(r) == Doors[r][1]
Right(r) == Doors[r][3]
Enter(r) == IF r = "COCKPIT" /\ takeoff THEN "OVER_WILL" ELSE Doors[r][2]

AnyDoor(r) == CASE r = "BY_CLEANR" -> "IN_CLEANR"
                [] r = "BY_395LAB" -> "IN_395LAB"
                [] r = "CSL_DOOR" -> "CSL_LOBBY"
                [] r = "BECK_DOOR" -> "BECKLOBBY"
                [] OTHER -> "NONE"

(* The room behind a lock that the player can open.                         *)
Unlocked(r) ==
  CASE r = "BY_CLEANR" /\ "WEARING_SUIT" \in flags -> "IN_CLEANR"
    [] r = "BY_395LAB" /\ Carried("ICARD") -> "IN_395LAB"
    [] r = "CSL_DOOR" /\ Carried("ICARD") -> "CSL_LOBBY"
    [] r = "BECK_DOOR" /\ Carried("ROBOT_LIVE") -> "BECKLOBBY"
    [] OTHER -> "NONE"

MoveTo(r) ==
  /\ where' = r
  /\ UNCHANGED <<looking, loc, flags, hood, takeoff>>

TryToMoveLeft == ~looking /\ Left(where) # "NONE" /\ MoveTo(Left(where))
TryToMoveRight == ~looking /\ Right(where) # "NONE" /\ MoveTo(Right(where))

TryToEnter ==
  /\ ~looking
  /\ LET r == IF Enter(where) # "NONE" THEN Enter(where) ELSE Unlocked(where)
     IN  r # "NONE" /\ MoveTo(r)

(* "inventory", and "enter" from the inventory.                             *)
Inventory ==
  /\ looking' = ~looking
  /\ UNCHANGED <<where, loc, flags, hood, takeoff>>

(* do_photo_swap of the car's photo                                         *)
SwapHood == hood' = IF hood = "closed" THEN "open" ELSE "closed"

(* A command by which the player does not move.                             *)
Stay == UNCHANGED <<where, looking>>

----------------------------------------------------------------------------
(* buy dew                                                                  *)
BuyDew ==
  /\ "MTN_DEW" \in Handled
  /\ Here = "EVRT_VEND" /\ ~AtHand("MTN_DEW")
  /\ Put("MTN_DEW", "INVENTORY")
  /\ Stay /\ UNCHANGED <<flags, hood, takeoff>>

DrinkDew ==
  /\ AtHand("MTN_DEW")
  /\ Put("MTN_DEW", Limbo)
  /\ Stay /\ UNCHANGED <<flags, hood, takeoff>>

Accomplish(flag) ==
  /\ flags' = flags \cup {flag}
  /\ Stay

(* buy yogurt                                                               *)
BuyYogurt ==
  /\ Here = "IN_COCOMR" /\ "HAS_EATEN" \notin flags
  /\ Accomplish("HAS_EATEN") /\ UNCHANGED <<loc, hood, takeoff>>

Sigh ==
  /\ Here = "BY_ZAS"
  /\ Accomplish("HAS_EATEN") /\ UNCHANGED <<loc, hood, takeoff>>

(* wear bunnysuit                                                           *)
Wear ==
  /\ AtHand("BUNNYSUIT")
  /\ Put("BUNNYSUIT", Limbo)
  /\ Accomplish("WEARING_SUIT") /\ UNCHANGED <<hood, takeoff>>

(* charge battery                                                           *)
Charge ==
  /\ Here = "BECK_MRI" /\ AtHand("BATT_EMPTY") /\ ~AtHand("BATT_FULL")
  /\ Move({"BATT_EMPTY"}, "BATT_FULL", "INVENTORY")
  /\ Stay /\ UNCHANGED <<flags, hood, takeoff>>

(* fix gps                                                                  *)
Fix ==
  /\ Here = "IN_CLEANR"
  /\ AtHand("GPS_BAD") /\ ~AtHand("GPS_GOOD") /\ AtHand("GPS_SPEC")
  /\ Move({"GPS_BAD", "GPS_SPEC"}, "GPS_GOOD", "INVENTORY")
  /\ Stay /\ UNCHANGED <<flags, hood, takeoff>>

FlashKeepsDead ==
  /\ Here = "IN_395LAB" /\ AtHand("ROBOT_DEAD") /\ ~AtHand("ROBOT_LIVE")
  /\ Put("ROBOT_LIVE", "INVENTORY")
  /\ Stay /\ UNCHANGED <<flags, hood, takeoff>>

(* flash robot                                                              *)
Flash ==
  /\ Here = "IN_395LAB" /\ AtHand("ROBOT_DEAD") /\ ~AtHand("ROBOT_LIVE")
  /\ Move({"ROBOT_DEAD"}, "ROBOT_LIVE", "INVENTORY")
  /\ Stay /\ UNCHANGED <<flags, hood, takeoff>>

(* use car                                                                  *)
UseCarAgain ==
  /\ Here = "CAR_SITE" /\ Carried("CAR_KEY")
  /\ SwapHood
  /\ Put("BATT_CAR", "CAR_SITE")
  /\ Accomplish("CAR_OPEN") /\ UNCHANGED takeoff

UseCar ==
  /\ Here = "CAR_SITE" /\ flags \cap {"CAR_OPEN", "CAR_FIXED"} = {}
  /\ Carried("CAR_KEY")
  /\ SwapHood
  /\ Move({"CAR_KEY"}, "BATT_CAR", "CAR_SITE")
  /\ Accomplish("CAR_OPEN") /\ UNCHANGED takeoff

(* use fish                                                                 *)
UseFish ==
  /\ Here = "REM_LAB" /\ AtHand("FISH")
  /\ Move({"FISH"}, "TUX", "INVENTORY")
  /\ Accomplish("LURED_TUX") /\ UNCHANGED <<hood, takeoff>>

(* install battery                                                          *)
InstallBattery ==
  /\ Here = "CAR_SITE" /\ AtHand("BATT_FULL") /\ ~AtHand("BATT_EMPTY")
  /\ Put("BATT_FULL", Limbo)
  /\ SwapHood
  /\ Accomplish("CAR_FIXED") /\ UNCHANGED takeoff

(* install mimo                                                             *)
InstallMimo ==
  /\ Here = "COCKPIT" /\ AtHand("MIMO_CARD")
  /\ Put("MIMO_CARD", Limbo)
  /\ takeoff' = TRUE
  /\ Stay /\ UNCHANGED <<flags, hood>>

----------------------------------------------------------------------------
(* obj_special_get: the book of the library's reserve desk, and the battery *)
(* in the car, whatever the player asked for.                               *)
ReserveBook(name) ==
  {b \in {IF "HAS_EATEN" \in flags THEN "BOOK_C" ELSE "BOOK_WODE"} :
     where = "RESERVE" /\ name = "book" /\ loc[b] = Limbo}

TakesBattery == where = "CAR_SITE" /\ loc["BATT_CAR"] = "CAR_SITE"

FindInRoom(r, name) == {o \in Objects : loc[o] = r /\ Name(o) = name}

(* get: from the room in which the player stands, looking or not.           *)
Get(name) ==
  \/ /\ TakesBattery
     /\ Move({"BATT_CAR"}, "BATT_EMPTY", "INVENTORY")
     /\ Stay /\ UNCHANGED <<flags, hood, takeoff>>
  \/ /\ ~TakesBattery
     /\ \E o \in IF ReserveBook(name) # {} THEN ReserveBook(name)
                                           ELSE FindInRoom(where, name) :
          /\ o \in Handled
          /\ o = "TUX" => "LURED_TUX" \in flags
          /\ Put(o, "INVENTORY")
     /\ Stay /\ UNCHANGED <<flags, hood, takeoff>>

(* drop: into the room in which the player stands, looking or not.          *)
Drop(name) ==
  /\ where \in DropRooms
  /\ \E o \in FindInRoom("INVENTORY", name) \cap Droppable : Put(o, where)
  /\ Stay /\ UNCHANGED <<flags, hood, takeoff>>

(* go: by car.                                                              *)
GoAllerton ==
  /\ Here \in {"WILLARD", "CAR_SITE"}
  /\ "CAR_FIXED" \in flags /\ Carried("GPS_GOOD")
  /\ MoveTo("ALLERTON")

GoWillard ==
  /\ Here \in {"ALLERTON", "CAR_SITE"}
  /\ "CAR_FIXED" \in flags
  /\ MoveTo("WILLARD")

GoCampus ==
  /\ Here \in {"ALLERTON", "WILLARD"}
  /\ MoveTo("CAR_SITE")

DoWithoutTux ==
  /\ Here = "IN_391LAB" /\ Carried("BOOK_C") /\ Carried("MP2")
  /\ MoveTo("NONE")

(* do mp2: the player wins.                                                 *)
Do ==
  /\ Here = "IN_391LAB"
  /\ Carried("BOOK_C") /\ Carried("MP2") /\ loc["TUX"] = "IN_391LAB"
  /\ MoveTo("NONE")

----------------------------------------------------------------------------
Next ==
  /\ where # "NONE"
  /\ \/ TryToMoveLeft \/ TryToEnter \/ TryToMoveRight
     \/ Inventory
     \/ BuyDew \/ DrinkDew \/ BuyYogurt \/ Sigh
     \/ Wear \/ Charge \/ Fix \/ Flash
     \/ UseCar \/ UseFish
     \/ InstallBattery \/ InstallMimo
     \/ \E o \in Handled : Get(Name(o))
     \/ \E o \in Droppable : Drop(Name(o))
     \/ GoAllerton \/ GoWillard \/ GoCampus
     \/ Do

Spec == Init /\ [][Next]_vars

----------------------------------------------------------------------------
(* Types of all variables.                                                  *)
TypeOK ==
  /\ where \in Rooms \cup {"NONE"}
  /\ looking \in BOOLEAN
  /\ loc \in [Objects -> Rooms \cup {"INVENTORY", Limbo}]
  /\ flags \subseteq Flags
  /\ hood \in {"open", "closed"}
  /\ takeoff \in BOOLEAN

(* One of some objects is in the world.                                     *)
Only(forms) ==
  \E o \in forms : loc[o] # Limbo /\ \A p \in forms \ {o} : loc[p] = Limbo

(* "Objects are unique" (world.c:190): a thing that commands turn into      *)
(* another one is in the world in one of its forms only; the battery is     *)
(* there from the opening of the car until it is installed.                 *)
OneForm ==
  /\ Only({"GPS_BAD", "GPS_GOOD"})
  /\ Only({"ROBOT_DEAD", "ROBOT_LIVE"})
  /\ IF "CAR_OPEN" \in flags /\ "CAR_FIXED" \notin flags
       THEN Only({"BATT_CAR", "BATT_EMPTY", "BATT_FULL"})
       ELSE \A o \in {"BATT_CAR", "BATT_EMPTY", "BATT_FULL"} : loc[o] = Limbo

(* The photo of the car, swapped by two commands, shows an open hood while  *)
(* the car is open and not fixed.                                           *)
HoodShows ==
  hood = "open" <=> "CAR_OPEN" \in flags /\ "CAR_FIXED" \notin flags

(* No door leads round a lock: the cleanroom is entered in a bunny suit,    *)
(* Beckman with the robot, Allerton and the airport with a working car, the *)
(* far north with the card installed.                                       *)
LocksHold ==
  /\ where = "IN_CLEANR" => "WEARING_SUIT" \in flags
  /\ where \in {"BECKLOBBY", "BECK_MRI"} => loc["ROBOT_LIVE"] # Limbo
  /\ where \in {"ALLERTON", "FU_DOGS", "STATUE", "SUNSINGER", "WILLARD", "WILL_SIDE",
                "REM_PLANE", "COCKPIT"} => "CAR_FIXED" \in flags
  /\ where \in {"OVER_WILL", "AIR_RIO", "REM_ICE", "REM_LAB"} => takeoff

(* The game is not won before each accomplishment that world.c records.     *)
NoShortcut == where = "NONE" => flags = Flags
=============================================================================
