------------------------------- MODULE Window -------------------------------
(***************************************************************************)
(* The adventure's video window: modex.c's build buffer and display pages,  *)
(* photo.c's lines, and the part of adventure.c's event loop that moves the *)
(* window and draws.                                                        *)
(*                                                                          *)
(* Colours are numbers, 0 outside of a photo.  Objects in a room do not     *)
(* overlap: the code draws the one that came last in front.                 *)
(* The window's corner is kept twice in the code, by the game (map_x,       *)
(* map_y) and by modex.c (show_x, show_y): each move of the first is        *)
(* followed by set_view_window, here the same step.  The status bar has     *)
(* video memory and a module (StatusThread) of its own.                     *)
(***************************************************************************)
EXTENDS Integers

CONSTANTS
  XDim, YDim,     \* SCROLL_X_DIM, SCROLL_Y_DIM
  Extra,          \* bytes of the build buffer beyond one screen
  Speed,          \* MOTION_SPEED
  Rooms, Width, Height,  \* the rooms, and the sizes of their photos
  Objects, ImgWidth, ImgHeight,  \* the objects, and the sizes of their images
  Transparent,    \* OBJ_CLR_TRANSP
  File,           \* the pixels in the file of each photo and image
  Spots,          \* bound: where an object may come to lie, if it can in the room
  Fence           \* MEM_FENCE_WIDTH

(* insert_object: a place in the lowest quarter of the photo, or anywhere   *)
(* if the object is too large for that.                                     *)
Upto(range) == IF range <= 0 THEN {0} ELSE 0 .. range - 1

Places(o, r) ==
  LET low == Height[r] \div 4 - ImgHeight[o]
  IN  Upto(Width[r] - ImgWidth[o]) \X
        (IF low <= 0 THEN Upto(Height[r] - ImgHeight[o])
                     ELSE {(3 * Height[r]) \div 4 + i : i \in Upto(low)})

ASSUME WindowAssumption ==
  /\ XDim \in Nat /\ XDim > 0 /\ XDim % 4 = 0 /\ YDim \in Nat \ {0}
  /\ Extra \in Nat /\ Speed \in Nat /\ Fence \in Nat
  /\ \A r \in Rooms : Width[r] \in Nat /\ Width[r] >= XDim
                      /\ Height[r] \in Nat /\ Height[r] >= YDim

Carried == "INVENTORY"
Magic == -1     \* MEM_FENCE_MAGIC
XWidth == XDim \div 4
ScrollSize == XWidth * YDim
ScreenSize == 4 * ScrollSize + 1
BufSize == ScreenSize + Extra
BaseInit == (BufSize - ScreenSize) \div 2

Planes == 0 .. 3
Bytes == 0 .. ScrollSize - 1
Memory == -Fence .. BufSize + Fence - 1
Screen == (0 .. XDim - 1) \X (0 .. YDim - 1)

VARIABLES
  where,          \* the room
  objects,        \* the place of each object: its room, x and y
  show_x, show_y, \* the window's upper left corner
  x_speed, y_speed,
  img3_off,       \* address in the build buffer of (0, 0) in plane 3
  build,          \* the build buffer between its fences
  vram,           \* two pages of four planes
  plane,          \* the plane that show_screen copies next
  target,         \* the page that target_img addresses
  start,          \* the page that the VGA displays; -1 before the first
  pc              \* the step of the event loop

vars == <<where, objects, show_x, show_y, x_speed, y_speed, img3_off, build,
          vram, plane, target, start, pc>>
view == <<show_x, show_y, img3_off, build>>
video == <<vram, plane, target, start>>
player == <<where, objects, x_speed, y_speed>>

Init ==
  /\ where \in Rooms
  /\ \E r \in Rooms, s \in [Objects -> UNION {Spots[o] : o \in Objects}] :
       /\ \A o \in Objects : s[o] \in Spots[o] \cap Places(o, r)
       /\ objects = [o \in Objects |-> [room |-> r, x |-> s[o][1], y |-> s[o][2]]]
  /\ show_x = 0 /\ show_y = 0
  /\ x_speed = Speed /\ y_speed = Speed
  /\ img3_off = BaseInit
  /\ build = [a \in Memory |-> IF a \in 0 .. BufSize - 1 THEN 0 ELSE Magic]
  /\ vram = [p \in {0, 1} |-> [i \in Planes |-> [b \in Bytes |-> 0]]]
  /\ target = 0 /\ plane = 0 /\ start = -1
  /\ pc = "enter"

----------------------------------------------------------------------------
(* read_photo and read_obj_image: a file begins with the bottom row, an     *)
(* array with the top one; colours of photos go from 5:6:5 to 2:2:2 bits.   *)
Upright(file, width, height) ==
  [k \in 0 .. width * height - 1 |->
     file[width * (height - 1 - k \div width) + (k % width) + 1]]

Shade(p) == 16 * (p \div 2^14) + 4 * ((p \div 2^9) % 4) + ((p \div 2^3) % 4)

ReadPhoto(r) ==
  LET img == Upright(File[r], Width[r], Height[r])
  IN  [k \in DOMAIN img |-> Shade(img[k])]

Photos == [r \in Rooms |-> ReadPhoto(r)]
Images == [o \in Objects |-> Upright(File[o], ImgWidth[o], ImgHeight[o])]

Stray == -2     \* whatever lies outside of an array
Element(array, k) == IF k \in DOMAIN array THEN array[k] ELSE Stray

----------------------------------------------------------------------------
(* photo.c: one line of a room's photo with the objects that lie on it.     *)
ObjectPixel(objs, o, x, y) ==
  Images[o][x - objs[o].x + ImgWidth[o] * (y - objs[o].y)]

ObjectsAt(objs, r, x, y) ==
  {o \in Objects :
     /\ objs[o].room = r
     /\ x - objs[o].x \in 0 .. ImgWidth[o] - 1
     /\ y - objs[o].y \in 0 .. ImgHeight[o] - 1
     /\ ObjectPixel(objs, o, x, y) # Transparent}

WithObjects(objs, r, x, y, photo) ==
  IF ObjectsAt(objs, r, x, y) = {} THEN photo
  ELSE ObjectPixel(objs, CHOOSE o \in ObjectsAt(objs, r, x, y) : TRUE, x, y)

(* fill_horiz_buffer: it does not ask whether y is in the photo.            *)
HorizLine(objs, x, y) ==
  [idx \in 0 .. XDim - 1 |->
     WithObjects(objs, where, x + idx, y,
       IF 0 <= x + idx /\ Width[where] > x + idx
         THEN Element(Photos[where], Width[where] * y + x + idx) ELSE 0)]

(* fill_vert_buffer: it does not ask whether x is.                          *)
VertLine(objs, x, y) ==
  [idx \in 0 .. YDim - 1 |->
     WithObjects(objs, where, x, y + idx,
       IF 0 <= y + idx /\ Height[where] > y + idx
         THEN Element(Photos[where], Width[where] * (y + idx) + x) ELSE 0)]

----------------------------------------------------------------------------
(* modex.c: the build buffer holds the planes in reverse order, so that the *)
(* planes that the window's corner shifts by one do not run into others.    *)
Address(off, x, y) ==
  off + (3 - (x % 4)) * ScrollSize + x \div 4 + y * XWidth

(* Lines written into a buffer: colours is a function on the pixels drawn.  *)
Paint(mem, off, colours) ==
  LET at == [p \in DOMAIN colours |-> Address(off, p[1], p[2])]
  IN  [a \in Memory |->
         LET hit == {p \in DOMAIN colours : at[p] = a}
         IN  IF hit = {} THEN mem[a] ELSE colours[CHOOSE p \in hit : TRUE]]

(* draw_horiz_line and draw_vert_line of some lines of the window           *)
DrawHoriz(mem, off, objs, x, y, lines) ==
  LET line == [l \in lines |-> HorizLine(objs, x, y + l)]
  IN  Paint(mem, off, [p \in {<<x + c, y + l>> : c \in 0 .. XDim - 1, l \in lines} |->
                         line[p[2] - y][p[1] - x]])

DrawVert(mem, off, objs, x, y, lines) ==
  LET line == [l \in lines |-> VertLine(objs, x + l, y)]
  IN  Paint(mem, off, [p \in {<<x + l, y + c>> : c \in 0 .. YDim - 1, l \in lines} |->
                         line[p[1] - x][p[2] - y]])

FitsLoosely(off, x, y) ==
  /\ off + x \div 4 + y * XWidth >= 0
  /\ off + 3 * ScrollSize + (x + XDim - 1) \div 4 + (y + YDim - 1) * XWidth <= BufSize

(* The window lies between the ends of the build buffer.                    *)
Fits(off, x, y) ==
  /\ off + x \div 4 + y * XWidth >= 0
  /\ off + 3 * ScrollSize + (x + XDim - 1) \div 4 + (y + YDim - 1) * XWidth < BufSize

Overlaps(x, y, old_x, old_y) ==
  /\ x > old_x - XDim /\ x < old_x + XDim
  /\ y > old_y - YDim /\ y < old_y + YDim

Centred(x, y) == BaseInit - x \div 4 - y * XWidth

(* What copying byte by byte leaves at byte i, from the first byte upwards  *)
(* and from the last downwards: where the areas overlap, the wrong one      *)
(* reads bytes that it has already overwritten.                             *)
Upwards(mem, from, to, length, i) ==
  IF from < to THEN mem[from + (i % (to - from))] ELSE mem[from + i]

Downwards(mem, from, to, length, i) ==
  IF from > to THEN mem[from + length - 1 - ((length - 1 - i) % (from - to))] ELSE mem[from + i]

Copied(mem, from, to, length, i) ==
  IF from < to THEN Downwards(mem, from, to, length, i) ELSE Upwards(mem, from, to, length, i)

Larger(a, b) == IF a > b THEN a ELSE b
Smaller(a, b) == IF a > b THEN b ELSE a

(* The still visible data in the old place, copied to the new one.          *)
CopyOver(mem, off, new, x, y, old_x, old_y) ==
  LET start_off == Larger(x, old_x) \div 4 + Larger(y, old_y) * XWidth
      end_x == Smaller(x, old_x) + XDim - 1
      end_y == Smaller(y, old_y) + YDim - 1
      length == end_x \div 4 + end_y * XWidth + 1 - start_off + 3 * ScrollSize
  IN  [a \in Memory |->
         IF a - new - start_off \in 0 .. length - 1
           THEN Copied(mem, off + start_off, new + start_off, length, a - new - start_off)
           ELSE mem[a]]

NewOffset(x, y) == IF Fits(img3_off, x, y) THEN img3_off ELSE Centred(x, y)

(* set_view_window                                                          *)
Moved(x, y) ==
  IF Fits(img3_off, x, y) \/ ~Overlaps(x, y, show_x, show_y) THEN build
  ELSE CopyOver(build, img3_off, Centred(x, y), x, y, show_x, show_y)

SetWindow(x, y) ==
  /\ show_x' = x /\ show_y' = y
  /\ img3_off' = NewOffset(x, y)

----------------------------------------------------------------------------
(* The event loop: draw the room on entry, show the screen, wait for a      *)
(* tick, and carry out at most one command.                                 *)
EnterRoom ==
  /\ pc = "enter"
  /\ SetWindow(0, 0)
  /\ build' = DrawHoriz(Moved(0, 0), NewOffset(0, 0), objects, 0, 0, 0 .. YDim - 1)
  /\ pc' = "turn"
  /\ UNCHANGED <<player, video>>

(* show_screen: the planes are copied to the page that is not displayed,    *)
(* then the VGA turns to it.                                                *)
PlaneStart(i) ==
  LET p_off == 3 - (show_x % 4)
  IN  img3_off + show_x \div 4 + show_y * XWidth
        + ((p_off - i + 4) % 4) * ScrollSize + (IF p_off < i THEN 1 ELSE 0)

SamePage == target
OtherPage == 1 - target

TurnPage ==
  /\ pc = "turn"
  /\ target' = OtherPage
  /\ pc' = "copy"
  /\ UNCHANGED <<player, view, vram, plane, start>>

CopyImage ==
  /\ pc = "copy"
  /\ vram' = [vram EXCEPT ![target][plane] = [b \in Bytes |-> build[PlaneStart(plane) + b]]]
  /\ plane' = (plane + 1) % 4
  /\ pc' = IF plane' = 0 THEN "flip" ELSE "copy"
  /\ UNCHANGED <<player, view, target, start>>

Flip ==
  /\ pc = "flip"
  /\ start' = target
  /\ pc' = "wait"
  /\ UNCHANGED <<player, view, vram, target, plane>>

Command ==
  /\ pc = "wait" /\ pc' = "turn"
  /\ UNCHANGED video

(* move_photo_down, move_photo_up                                           *)
MoveDown ==
  LET delta == Smaller(y_speed, show_y)
      y == show_y - delta
  IN  /\ SetWindow(show_x, y)
      /\ build' = DrawHoriz(Moved(show_x, y), NewOffset(show_x, y), objects, show_x, y,
                            0 .. delta - 1)

MoveUp ==
  LET delta == Smaller(y_speed, Height[where] - YDim - show_y)
      y == show_y + delta
  IN  /\ SetWindow(show_x, y)
      /\ build' = DrawHoriz(Moved(show_x, y), NewOffset(show_x, y), objects, show_x, y,
                            YDim - delta .. YDim - 1)

(* move_photo_left, move_photo_right                                        *)
MoveLeft ==
  LET delta == Smaller(x_speed, Width[where] - XDim - show_x)
      x == show_x + delta
  IN  /\ SetWindow(x, show_y)
      /\ build' = DrawVert(Moved(x, show_y), NewOffset(x, show_y), objects, x, show_y,
                           XDim - delta .. XDim - 1)

MoveRight ==
  LET delta == Smaller(x_speed, show_x)
      x == show_x - delta
  IN  /\ SetWindow(x, show_y)
      /\ build' = DrawVert(Moved(x, show_y), NewOffset(x, show_y), objects, x, show_y,
                           0 .. delta - 1)

MovePhoto ==
  /\ Command
  /\ MoveDown \/ MoveUp \/ MoveLeft \/ MoveRight
  /\ UNCHANGED player

(* redraw_room, after a typed command that changed the room's contents      *)
RedrawRoom(objs) ==
  /\ objects' = objs
  /\ build' = DrawHoriz(build, img3_off, objs, show_x, show_y, 0 .. YDim - 1)
  /\ UNCHANGED <<where, show_x, show_y, img3_off>>

Has(o, objs) == o \in Objects /\ objs[o].room = Carried

Get(o) ==
  /\ Command
  /\ objects[o].room = where
  /\ LET objs == [objects EXCEPT ![o].room = Carried]
     IN  /\ RedrawRoom(objs)
         /\ x_speed' = IF Has("board", objs) THEN 3 * Speed ELSE x_speed
         /\ y_speed' = IF Has("jetpack", objs) THEN 3 * Speed ELSE y_speed

Drop(o, spot) ==
  /\ Command
  /\ objects[o].room = Carried
  /\ LET objs == [objects EXCEPT ![o] = [room |-> where, x |-> spot[1], y |-> spot[2]]]
     IN  /\ RedrawRoom(objs)
         /\ x_speed' = IF Has("board", objs) THEN x_speed ELSE Speed
         /\ y_speed' = IF Has("jetpack", objs) THEN y_speed ELSE Speed

(* A command that takes the player to a room; it may be the same one.       *)
ChangeRoom ==
  /\ pc = "wait" /\ pc' = "enter"
  /\ where' \in Rooms
  /\ UNCHANGED <<objects, x_speed, y_speed, view, video>>

Next ==
  \/ EnterRoom \/ TurnPage \/ CopyImage \/ Flip
  \/ MovePhoto \/ ChangeRoom
  \/ \E o \in Objects : Get(o) \/ \E s \in Spots[o] \cap Places(o, where) : Drop(o, s)

Spec == Init /\ [][Next]_vars

----------------------------------------------------------------------------
(* The colour that the photo's file and the objects give to a pixel.        *)
Pixel(r, x, y, objs) ==
  WithObjects(objs, r, x, y, Shade(File[r][Width[r] * (Height[r] - 1 - y) + x + 1]))

(* What the VGA shows.                                                      *)
Shown ==
  [p \in Screen |->
     IF start = -1 THEN 0 ELSE vram[start][p[1] % 4][p[1] \div 4 + p[2] * XWidth]]

(* A player who has changed rooms stands at the corner of the new one.      *)
Entered(c) == IF pc = "enter" THEN 0 ELSE c

Look == INSTANCE Camera WITH
  room <- where, x <- Entered(show_x), y <- Entered(show_y), screen <- Shown,
  Fast <- 3 * Speed

(* The screen is one whole picture at every moment of the copying, and      *)
(* changes only to the picture of the room and the objects as they are.     *)
Whole == Look!Spec

(* While the game waits for the player, the screen shows the room as it is: *)
(* no command leaves a stale picture behind.                                *)
UpToDate == pc = "wait" => Shown = Look!Picture

(* What clear_mode_X tests at the end of the game: neither fence of the     *)
(* build buffer is ever broken, wherever the window has been.               *)
FencesHold == \A a \in Memory : (a < 0 \/ a >= BufSize) => build[a] = Magic
=============================================================================
