------------------------------- MODULE Camera -------------------------------
(***************************************************************************)
(* What the game's video code promises its player: the screen is at every   *)
(* moment one picture, a window on the room at some moment of the game, and *)
(* it changes only to the picture of the moment.                            *)
(***************************************************************************)
EXTENDS Integers

CONSTANTS
  XDim, YDim,  \* size of the screen in pixels
  Width,       \* width of each room's photo, and
  Height,      \* height
  Fast,        \* the most pixels that a command moves the window
  Pixel(_, _, _, _)  \* colour at (x, y) of a room with some objects in it

VARIABLES
  room, x, y,  \* the window's room and upper left corner
  objects,     \* the objects, each in its place
  screen       \* colour of each pixel shown

Screen == (0 .. XDim - 1) \X (0 .. YDim - 1)
Picture == [p \in Screen |-> Pixel(room, x + p[1], y + p[2], objects)]

Init == x = 0 /\ y = 0 /\ screen = [p \in Screen |-> 0]

(* The window moves within the photo.                                       *)
Scroll ==
  /\ x' \in x - Fast .. x + Fast /\ x' \in 0 .. Width[room] - XDim
  /\ y' \in y - Fast .. y + Fast /\ y' \in 0 .. Height[room] - YDim
  /\ x' = x \/ y' = y
  /\ UNCHANGED <<room, objects, screen>>

(* The player enters a room, at its photo's corner.                         *)
Enter == x' = 0 /\ y' = 0 /\ UNCHANGED <<objects, screen>>

(* Objects change place.                                                    *)
Handle == UNCHANGED <<room, x, y, screen>>

Show == screen' = Picture /\ UNCHANGED <<room, x, y, objects>>

Next == Scroll \/ Enter \/ Handle \/ Show

Spec == Init /\ [][Next]_<<room, x, y, objects, screen>>
=============================================================================
