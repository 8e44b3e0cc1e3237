------------------------------ MODULE WorldMap ------------------------------
(***************************************************************************)
(* The tables of world.c: the doors of each room, to the left, in front     *)
(* ("enter") and to the right, and where each object is at the beginning.   *)
(* Identifiers are those of the code without R_ and O_; "NONE" is R_NONE,   *)
(* "INVENTORY" the backpack.                                                *)
(***************************************************************************)
(* Area 1: Everitt and Green Street.                                     *)
EverittArea == [
  IN_391LAB |-> <<"NONE", "BY_391LAB", "NONE">>,
  BY_391LAB |-> <<"BY_ZAS", "IN_391LAB", "BY_IEEE">>,
  IN_IEEE   |-> <<"NONE", "BY_IEEE", "NONE">>,
  BY_IEEE   |-> <<"BY_391LAB", "IN_IEEE", "BY_395LAB">>,
  IN_395LAB |-> <<"NONE", "BY_395LAB", "NONE">>,
  BY_395LAB |-> <<"BY_IEEE", "NONE", "EVT_STAIR">>,
  EVT_STAIR |-> <<"BY_395LAB", "EAST_EVRT", "BY_CLEANR">>,
  IN_CLEANR |-> <<"NONE", "BY_CLEANR", "NONE">>,
  BY_CLEANR |-> <<"EVT_STAIR", "NONE", "EVRT_VEND">>,
  EVRT_VEND |-> <<"BY_CLEANR", "EVRT_BSMT", "NONE">>,
  ALMAMATER |-> <<"EAST_EVRT", "EAST_EVRT", "BY_COCOMR">>,
  IN_COCOMR |-> <<"NONE", "BY_COCOMR", "NONE">>,
  BY_COCOMR |-> <<"ALMAMATER", "IN_COCOMR", "BY_ZAS">>,
  BY_ZAS    |-> <<"BY_COCOMR", "NONE", "NONE">>,
  EAST_EVRT |-> <<"ALMAMATER", "EVT_STAIR", "EVRT_BSMT">>,
  EVRT_BSMT |-> <<"EAST_EVRT", "EVRT_VEND", "CIRCLE_SW">>]

(* Area 2: Bardeen Quad.                                                 *)
BardeenArea == [
  WEST_BONE |-> <<"CIRCLE_SW", "NONE", "CIRCLE_N">>,
  CIRCLE_N  |-> <<"WEST_BONE", "TALBOT_NW", "EAST_BONE">>,
  CIRCLE_SW |-> <<"EAST_BONE", "EVRT_BSMT", "CIRCLE_N">>,
  EAST_BONE |-> <<"CIRCLE_N", "NONE", "CIRCLE_SW">>,
  BARDEEN   |-> <<"LIB_BACK", "EAST_BONE", "TALBOT_SW">>,
  LIB_BACK  |-> <<"DCL", "RESERVE", "BARDEEN">>,
  RESERVE   |-> <<"NONE", "LIB_BACK", "LIB_FRONT">>,
  TALBOT_NW |-> <<"CIRCLE_SW", "TALBOT", "TALBOT_SW">>,
  TALBOT_SW |-> <<"TALBOT_NW", "TALBOT", "SPRINGFLD">>,
  TALBOT    |-> <<"NONE", "TALBOT_NW", "NONE">>,
  SPRINGFLD |-> <<"TALBOT_SW", "CARIBOU", "KENNEY">>,
  CARIBOU   |-> <<"NONE", "SPRINGFLD", "NONE">>,
  KENNEY    |-> <<"SPRINGFLD", "NONE", "DCL">>,
  DCL       |-> <<"KENNEY", "KENNEY_E", "LIB_FRONT">>,
  LIB_FRONT |-> <<"DCL", "RESERVE", "TALBOT_SW">>]

(* Area 3: CSL.                                                          *)
CSLArea == [
  KENNEY_E  |-> <<"DCL", "DCL", "NEWMARK">>,
  NEWMARK   |-> <<"MNTL_NW", "NONE", "KENNEY_E">>,
  MNTL_NW   |-> <<"NEWMARK", "MNTLLOBBY", "CSL_VIEW">>,
  MNTL_SW   |-> <<"MNTL_NW", "MNTLLOBBY", "BECKMAN">>,
  MNTLLOBBY |-> <<"MNTL_LAB1", "MNTL_SW", "MNTL_LAB2">>,
  MNTL_LAB1 |-> <<"NONE", "NONE", "MNTLLOBBY">>,
  MNTL_LAB2 |-> <<"MNTLLOBBY", "MNTL_LAB3", "NONE">>,
  MNTL_LAB3 |-> <<"NONE", "MNTL_LAB2", "NONE">>,
  CSL_VIEW  |-> <<"BECK_LOT", "CSL_DOOR", "MNTL_NW">>,
  CSL_DOOR  |-> <<"BECK_LOT", "NONE", "MNTL_NW">>,
  CSL_LOBBY |-> <<"CSL_UPPER", "CSL_DOOR", "NONE">>,
  CSL_UPPER |-> <<"NONE", "CSLLOUNGE", "CSL_LOBBY">>,
  CSLLOUNGE |-> <<"NONE", "CSL_UPPER", "NONE">>,
  BECK_LOT  |-> <<"BECKMAN", "GARAGE", "CSL_VIEW">>,
  BECKMAN   |-> <<"MNTL_SW", "BECK_DOOR", "BECK_LOT">>,
  BECK_DOOR |-> <<"MNTL_SW", "NONE", "BECK_LOT">>,
  BECKLOBBY |-> <<"NONE", "BECK_MRI", "BECK_DOOR">>,
  BECK_MRI  |-> <<"NONE", "BECKLOBBY", "NONE">>]

(* Area 4: the rest of the world.                                        *)
FarArea == [
  GARAGE    |-> <<"BECK_LOT", "CAR_SITE", "NONE">>,
  CAR_SITE  |-> <<"NONE", "GARAGE", "NONE">>,
  ALLERTON  |-> <<"FU_DOGS", "NONE", "SUNSINGER">>,
  FU_DOGS   |-> <<"NONE", "STATUE", "ALLERTON">>,
  STATUE    |-> <<"NONE", "FU_DOGS", "NONE">>,
  SUNSINGER |-> <<"ALLERTON", "NONE", "NONE">>,
  WILLARD   |-> <<"NONE", "WILL_SIDE", "NONE">>,
  WILL_SIDE |-> <<"REM_PLANE", "NONE", "WILLARD">>,
  REM_PLANE |-> <<"COCKPIT", "NONE", "WILL_SIDE">>,
  COCKPIT   |-> <<"NONE", "NONE", "REM_PLANE">>,
  OVER_WILL |-> <<"NONE", "COCKPIT", "AIR_RIO">>,
  AIR_RIO   |-> <<"OVER_WILL", "NONE", "REM_ICE">>,
  REM_ICE   |-> <<"AIR_RIO", "REM_LAB", "NONE">>,
  REM_LAB   |-> <<"NONE", "REM_ICE", "NONE">>]
Rooms == UNION {DOMAIN EverittArea, DOMAIN BardeenArea, DOMAIN CSLArea, DOMAIN FarArea}

Doors == [r \in Rooms |-> CASE r \in DOMAIN EverittArea -> EverittArea[r]
                            [] r \in DOMAIN BardeenArea -> BardeenArea[r]
                            [] r \in DOMAIN CSLArea -> CSLArea[r]
                            [] r \in DOMAIN FarArea -> FarArea[r]]

(* An object's name in commands, and its room at the beginning.             *)
ObjectData == [
  BOARD      |-> <<"board", "IN_IEEE">>,
  JETPACK    |-> <<"jetpack", "TALBOT">>,
  TUX        |-> <<"tux", "REM_LAB">>,
  MP2        |-> <<"mp2", "CSLLOUNGE">>,
  BOOK_C     |-> <<"book", "NONE">>,
  BOOK_WODE  |-> <<"book", "NONE">>,
  GPS_BAD    |-> <<"gps", "TALBOT">>,
  GPS_GOOD   |-> <<"gps", "NONE">>,
  GPS_SPEC   |-> <<"spec", "CSL_UPPER">>,
  BUNNYSUIT  |-> <<"bunnysuit", "ALMAMATER">>,
  BATT_EMPTY |-> <<"battery", "NONE">>,
  BATT_FULL  |-> <<"battery", "NONE">>,
  BATT_CAR   |-> <<"battery", "NONE">>,
  MTN_DEW    |-> <<"dew", "NONE">>,
  FISH       |-> <<"fish", "EAST_BONE">>,
  ICARD      |-> <<"Icard", "BARDEEN">>,
  CAR_KEY    |-> <<"key", "CARIBOU">>,
  ROBOT_DEAD |-> <<"robot", "MNTL_LAB3">>,
  ROBOT_LIVE |-> <<"robot", "NONE">>,
  MIMO_CARD  |-> <<"mimo", "STATUE">>]

Objects == DOMAIN ObjectData
Name(o) == ObjectData[o][1]
=============================================================================
