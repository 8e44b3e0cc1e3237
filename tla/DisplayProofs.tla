---------------------------- MODULE DisplayProofs ---------------------------
(***************************************************************************)
(* Theorems about the two displays, for every size of each: the game's,     *)
(* Window, whatever its photos and build buffer, and the kernel's, Console, *)
(* for any number of terminals and whatever programs print.                 *)
(*                                                                          *)
(* FencesHold needs to know where the window lies in the build buffer.      *)
(* Its pixels are the bytes from its first in plane 3, which lies at the    *)
(* lowest address, to its last in plane 0: Fits says that these two bytes   *)
(* are in the buffer.                                                       *)
(*                                                                          *)
(* UpToDate and Whole, which says that the video code implements Camera,    *)
(* need to know what the build buffer and the two pages hold.  WindowInv:   *)
(* between two steps of the event loop each pixel of the window has the     *)
(* room's colour at its address (Scene), and the page behind holds the      *)
(* planes copied so far (VideoInv).  Addresses of two pixels differ         *)
(* (PixelsApart), so drawing some lines leaves the others; copying to the   *)
(* middle of the buffer keeps what the old and the new window share         *)
(* (CopiedPixel), and the lines drawn are the rest.                         *)
(*                                                                          *)
(* Console implements Screens: a view, which is a page of cells and an x    *)
(* and y, is a tape whose place to write is Cols * y + x, and putc on the   *)
(* one is Advance or Erase on the other.  ConsoleInv says that a steady     *)
(* display has the page mapped that the executing terminal owns, and where  *)
(* the terminals write (PlacesInv): what exceptions leave is a wide view,   *)
(* whose place may lie anywhere, and a text with a new line brings it back  *)
(* on the screen (PrintedWide).                                             *)
(***************************************************************************)
EXTENDS Window, Console, WellFoundedInduction, TLAPS

(* A move uncovers no more than the screen (6 of 320 by 182 pixels): it is  *)
(* no longer than its speed, nor than what the photo has beyond the screen. *)
Slow ==
  \A r \in Rooms : /\ Smaller(3 * Speed, Width[r] - XDim) <= XDim
                   /\ Smaller(3 * Speed, Height[r] - YDim) <= YDim

Outside(a) == a < 0 \/ a >= BufSize

Kept(mem) == \A a \in Memory : Outside(a) => mem[a] = Magic

(* The window at (wx, wy) lies within the photo of room r.                  *)
InRoom(r, wx, wy) == wx \in 0 .. Width[r] - XDim /\ wy \in 0 .. Height[r] - YDim

IInv ==
  /\ show_x \in Int /\ show_y \in Int /\ img3_off \in Int
  /\ x_speed \in {Speed, 3 * Speed} /\ y_speed \in {Speed, 3 * Speed}
  /\ where \in Rooms
  /\ Fits(img3_off, show_x, show_y)
  /\ Kept(build)
  /\ pc # "enter" => InRoom(where, show_x, show_y)

----------------------------------------------------------------------------
(* The sizes of a plane, the screen and the buffer.                         *)
LEMMA Sizes ==
  /\ XWidth \in Nat /\ XDim = 4 * XWidth /\ XWidth > 0
  /\ ScrollSize \in Nat /\ ScrollSize = XWidth * YDim
  /\ BaseInit \in Nat /\ BaseInit <= Extra
  /\ BufSize = 4 * ScrollSize + 1 + Extra
<1>1. XWidth \in Nat /\ XDim = 4 * XWidth /\ XWidth > 0
  BY WindowAssumption DEF XWidth
<1>2. ScrollSize \in Nat /\ ScrollSize = XWidth * YDim
  BY <1>1, WindowAssumption DEF ScrollSize
<1>3. BufSize - ScreenSize = Extra
  BY <1>2, WindowAssumption DEF BufSize, ScreenSize
<1>4. BaseInit \in Nat /\ BaseInit <= Extra
  BY <1>3, WindowAssumption DEF BaseInit
<1> QED
  BY <1>1, <1>2, <1>4 DEF BufSize, ScreenSize

LEMMA TimesMonotonic ==
  ASSUME NEW w \in Nat, NEW a \in Int, NEW b \in Int, a <= b
  PROVE  a * w <= b * w
OBVIOUS

(* A window in the middle of the buffer fits.                               *)
LEMMA CentredFits ==
  ASSUME NEW wx \in Int, NEW wy \in Int
  PROVE  Centred(wx, wy) \in Int /\ Fits(Centred(wx, wy), wx, wy)
<1>1. PICK w \in Nat : w = XWidth /\ XDim = 4 * w
  BY Sizes
<1>2. PICK s \in Nat : s = ScrollSize /\ s = w * YDim
  BY <1>1, Sizes
<1>3. PICK r \in Int : r = wy * w
  BY <1>1
<1>4. (wy + YDim - 1) * w = r + s - w
  BY <1>1, <1>2, <1>3, WindowAssumption
<1>5. Centred(wx, wy) = BaseInit - wx \div 4 - r
  BY <1>1, <1>3 DEF Centred
<1>6. (wx + 4 * w - 1) \div 4 <= wx \div 4 + w
  BY <1>1
<1>7. Centred(wx, wy) + wx \div 4 + r >= 0
  BY <1>5, <1>3, Sizes
<1>8. Centred(wx, wy) + 3 * s + (wx + 4 * w - 1) \div 4 + (r + s - w) < BufSize
  <2>1. PICK left \in Int, right \in Int :
          /\ left = wx \div 4 /\ right = (wx + 4 * w - 1) \div 4
          /\ right <= left + w
    BY <1>1, <1>6
  <2>2. PICK c \in Int : c = Centred(wx, wy) /\ c = BaseInit - left - r
    BY <1>3, <1>5, <2>1, Sizes
  <2>3. BufSize = 4 * s + 1 + Extra /\ BaseInit \in Nat /\ BaseInit <= Extra
    BY <1>2, Sizes
  <2>4. c + 3 * s + right + (r + s - w) < BufSize
    BY <1>1, <1>2, <1>3, <2>1, <2>2, <2>3, WindowAssumption
  <2> QED
    BY <2>1, <2>2, <2>4
<1> QED
  BY <1>1, <1>2, <1>3, <1>4, <1>5, <1>7, <1>8, Sizes DEF Fits

(* All pixels of a window that fits are in the buffer.                      *)
LEMMA AddressInside ==
  ASSUME NEW off \in Int, NEW wx \in Int, NEW wy \in Int, Fits(off, wx, wy),
         NEW px \in wx .. wx + XDim - 1, NEW py \in wy .. wy + YDim - 1
  PROVE  Address(off, px, py) \in 0 .. BufSize - 1
<1>1. PICK w \in Nat : w = XWidth /\ XDim = 4 * w
  BY Sizes
<1>2. PICK s \in Nat : s = ScrollSize
  BY Sizes
<1>3. px \in Int /\ py \in Int /\ wx <= px /\ px <= wx + XDim - 1 /\ wy <= py /\ py <= wy + YDim - 1
  BY <1>1, WindowAssumption
<1>4. PICK low \in Int, at \in Int, high \in Int :
        low = wy * w /\ at = py * w /\ high = (wy + YDim - 1) * w
  BY <1>1, <1>3, WindowAssumption
<1>5. low <= at /\ at <= high
  BY <1>1, <1>3, <1>4, TimesMonotonic, WindowAssumption
<1>6. PICK k \in Int : k = (3 - (px % 4)) * s /\ 0 <= k /\ k <= 3 * s
  <2>1. PICK m \in 0..3 : m = px % 4
    BY <1>3
  <2>2. \A i \in 0..3 : i * s \in Int /\ 0 <= i * s /\ i * s <= 3 * s
    BY <1>2
  <2> QED
    BY <2>1, <2>2
<1>7. wx \div 4 <= px \div 4 /\ px \div 4 <= (wx + XDim - 1) \div 4
  BY <1>1, <1>3
<1>8. Address(off, px, py) = off + k + px \div 4 + at
  BY <1>1, <1>2, <1>4, <1>6 DEF Address
<1>9. off + wx \div 4 + low >= 0
  BY <1>1, <1>4 DEF Fits
<1>10. off + 3 * s + (wx + XDim - 1) \div 4 + high < BufSize
  BY <1>1, <1>2, <1>4 DEF Fits
<1> QED
  BY <1>1, <1>2, <1>3, <1>4, <1>5, <1>6, <1>7, <1>8, <1>9, <1>10, Sizes, WindowAssumption

----------------------------------------------------------------------------
(* Lines drawn inside of a window that fits leave the fences alone.         *)
LEMMA WriteKeeps ==
  ASSUME NEW mem, Kept(mem),
         NEW off \in Int, NEW wx \in Int, NEW wy \in Int, Fits(off, wx, wy),
         NEW colours,
         DOMAIN colours \subseteq (wx .. wx + XDim - 1) \X (wy .. wy + YDim - 1)
  PROVE  Kept(Paint(mem, off, colours))
<1>1. SUFFICES ASSUME NEW a \in Memory, Outside(a)
               PROVE  Paint(mem, off, colours)[a] = Magic
  BY DEF Kept
<1>2. ASSUME NEW p \in DOMAIN colours
      PROVE  Address(off, p[1], p[2]) # a
  <2>1. p[1] \in wx .. wx + XDim - 1 /\ p[2] \in wy .. wy + YDim - 1
    OBVIOUS
  <2>2. Address(off, p[1], p[2]) \in 0 .. BufSize - 1
    BY <2>1, AddressInside
  <2> QED
    BY <1>1, <2>2, Sizes, WindowAssumption DEF Outside, Memory
<1>3. {p \in DOMAIN colours :
         [q \in DOMAIN colours |-> Address(off, q[1], q[2])][p] = a} = {}
  BY <1>2
<1>4. Paint(mem, off, colours)[a] = mem[a]
  BY <1>3, Zenon DEF Paint
<1> QED
  BY <1>1, <1>4 DEF Kept

LEMMA DrawHorizKeeps ==
  ASSUME NEW mem, Kept(mem), NEW objs,
         NEW off \in Int, NEW wx \in Int, NEW wy \in Int, Fits(off, wx, wy),
         NEW lines, lines \subseteq 0 .. YDim - 1
  PROVE  Kept(DrawHoriz(mem, off, objs, wx, wy, lines))
<1>1. XDim \in Nat /\ YDim \in Nat
  BY WindowAssumption
<1>2. ASSUME NEW c \in 0 .. XDim - 1, NEW l \in lines
      PROVE  wx + c \in wx .. wx + XDim - 1 /\ wy + l \in wy .. wy + YDim - 1
  BY <1>1
<1>3. {<<wx + c, wy + l>> : c \in 0 .. XDim - 1, l \in lines}
        \subseteq (wx .. wx + XDim - 1) \X (wy .. wy + YDim - 1)
  BY <1>2
<1> QED
  BY <1>3, WriteKeeps DEF DrawHoriz

LEMMA DrawVertKeeps ==
  ASSUME NEW mem, Kept(mem), NEW objs,
         NEW off \in Int, NEW wx \in Int, NEW wy \in Int, Fits(off, wx, wy),
         NEW lines, lines \subseteq 0 .. XDim - 1
  PROVE  Kept(DrawVert(mem, off, objs, wx, wy, lines))
<1>1. XDim \in Nat /\ YDim \in Nat
  BY WindowAssumption
<1>2. ASSUME NEW c \in 0 .. YDim - 1, NEW l \in lines
      PROVE  wx + l \in wx .. wx + XDim - 1 /\ wy + c \in wy .. wy + YDim - 1
  BY <1>1
<1>3. {<<wx + l, wy + c>> : c \in 0 .. YDim - 1, l \in lines}
        \subseteq (wx .. wx + XDim - 1) \X (wy .. wy + YDim - 1)
  BY <1>2
<1> QED
  BY <1>3, WriteKeeps DEF DrawVert

(* What the window's old and new place share lies inside of the new one, so *)
(* copying it there leaves the fences alone.                                *)
LEMMA CopyKeeps ==
  ASSUME NEW mem, Kept(mem), NEW off \in Int, NEW new \in Int,
         NEW wx \in Int, NEW wy \in Int, Fits(new, wx, wy),
         NEW old_x \in Int, NEW old_y \in Int
  PROVE  Kept(CopyOver(mem, off, new, wx, wy, old_x, old_y))
<1> DEFINE first == Larger(wx, old_x) \div 4 + Larger(wy, old_y) * XWidth
           end_x == Smaller(wx, old_x) + XDim - 1
           end_y == Smaller(wy, old_y) + YDim - 1
           len == end_x \div 4 + end_y * XWidth + 1 - first + 3 * ScrollSize
<1>1. SUFFICES ASSUME NEW a \in Memory, Outside(a)
               PROVE  CopyOver(mem, off, new, wx, wy, old_x, old_y)[a] = Magic
  BY DEF Kept
<1>2. PICK w \in Nat : w = XWidth /\ XDim = 4 * w
  BY Sizes
<1>3. PICK s \in Nat : s = ScrollSize
  BY Sizes
<1>4. PICK lx \in Int, ly \in Int, ex \in Int, ey \in Int :
        /\ lx = Larger(wx, old_x) /\ ly = Larger(wy, old_y) /\ ex = end_x /\ ey = end_y
        /\ wx <= lx /\ wy <= ly /\ ex <= wx + XDim - 1 /\ ey <= wy + YDim - 1
  BY <1>2, WindowAssumption DEF Larger, Smaller
<1>5. PICK top \in Int, from \in Int, to \in Int, bottom \in Int :
        /\ top = wy * w /\ from = ly * w /\ to = ey * w /\ bottom = (wy + YDim - 1) * w
        /\ top <= from /\ to <= bottom
  <2>1. wy * w <= ly * w /\ ey * w <= (wy + YDim - 1) * w
    BY <1>2, <1>4, TimesMonotonic, WindowAssumption
  <2> QED
    BY <1>2, <1>4, <2>1, WindowAssumption
<1>6. wx \div 4 <= lx \div 4 /\ ex \div 4 <= (wx + XDim - 1) \div 4
  BY <1>2, <1>4
<1>7. first = lx \div 4 + from
  BY <1>2, <1>4, <1>5
<1>8. len = ex \div 4 + to + 1 - first + 3 * s
  BY <1>2, <1>3, <1>4, <1>5
<1>9. new + wx \div 4 + top >= 0
  BY <1>2, <1>5 DEF Fits
<1>10. new + 3 * s + (wx + XDim - 1) \div 4 + bottom < BufSize
  BY <1>2, <1>3, <1>5 DEF Fits
<1>11. a - new - first \notin 0 .. len - 1
  <2>1. a \in Int /\ (a < 0 \/ a >= BufSize) /\ BufSize \in Int
    BY <1>1, Sizes, WindowAssumption DEF Outside, Memory
  <2>2. PICK l \in Int, e \in Int, b \in Int, f \in Int :
          /\ l = wx \div 4 /\ b = lx \div 4 /\ e = ex \div 4 /\ f = (wx + XDim - 1) \div 4
          /\ l <= b /\ e <= f
    BY <1>2, <1>4, <1>6
  <2>3. new + l + top >= 0 /\ new + 3 * s + f + bottom < BufSize
    BY <1>9, <1>10, <2>2
  <2>4. first = b + from /\ len = e + to + 1 - first + 3 * s
    BY <1>7, <1>8, <2>2
  <2> HIDE DEF first, len
  <2>5. first \in Int /\ len \in Int
    BY <1>3, <1>5, <2>2, <2>4
  <2>6. CASE a < 0
    BY <1>5, <2>1, <2>2, <2>3, <2>4, <2>5, <2>6
  <2>7. CASE a >= BufSize
    BY <1>3, <1>5, <2>1, <2>2, <2>3, <2>4, <2>5, <2>7
  <2> QED
    BY <2>1, <2>6, <2>7
<1>12. CopyOver(mem, off, new, wx, wy, old_x, old_y)[a] = mem[a]
  BY <1>11 DEF CopyOver
<1> QED
  BY <1>1, <1>12 DEF Kept

----------------------------------------------------------------------------
(* set_view_window leaves a window that fits, and the fences.               *)
LEMMA Repositioned ==
  ASSUME IInv, NEW wx \in Int, NEW wy \in Int
  PROVE  /\ NewOffset(wx, wy) \in Int
         /\ Fits(NewOffset(wx, wy), wx, wy)
         /\ Kept(Moved(wx, wy))
<1>1. Centred(wx, wy) \in Int /\ Fits(Centred(wx, wy), wx, wy)
  BY CentredFits
<1>2. NewOffset(wx, wy) \in Int /\ Fits(NewOffset(wx, wy), wx, wy)
  BY <1>1 DEF NewOffset, IInv
<1>3. Kept(CopyOver(build, img3_off, Centred(wx, wy), wx, wy, show_x, show_y))
  BY <1>1, CopyKeeps DEF IInv
<1>4. Kept(Moved(wx, wy))
  BY <1>3 DEF Moved, IInv
<1> QED
  BY <1>2, <1>4

LEMMA InitInv == Init => IInv
<1> SUFFICES ASSUME Init PROVE IInv
  OBVIOUS
<1>1. Centred(0, 0) = BaseInit
  BY Sizes DEF Centred
<1>2. BaseInit \in Int /\ Fits(BaseInit, 0, 0)
  BY <1>1, CentredFits
<1>3. Kept(build)
  BY Sizes, WindowAssumption DEF Init, Kept, Outside, Memory
<1> QED
  BY <1>2, <1>3 DEF Init, IInv

(* A step that moves the window to (wx, wy) and draws some of its lines.      *)
LEMMA MoveStep ==
  ASSUME IInv, NEW wx \in Int, NEW wy \in Int, InRoom(where, wx, wy), SetWindow(wx, wy),
         UNCHANGED <<where, x_speed, y_speed>>,
         \/ \E lines \in SUBSET (0 .. YDim - 1) :
              build' = DrawHoriz(Moved(wx, wy), NewOffset(wx, wy), objects, wx, wy, lines)
         \/ \E lines \in SUBSET (0 .. XDim - 1) :
              build' = DrawVert(Moved(wx, wy), NewOffset(wx, wy), objects, wx, wy, lines)
  PROVE  IInv'
<1>1. /\ NewOffset(wx, wy) \in Int /\ Fits(NewOffset(wx, wy), wx, wy)
      /\ Kept(Moved(wx, wy))
  BY Repositioned
<1>2. \A lines \in SUBSET (0 .. YDim - 1) :
        Kept(DrawHoriz(Moved(wx, wy), NewOffset(wx, wy), objects, wx, wy, lines))
  BY <1>1, DrawHorizKeeps
<1>3. \A lines \in SUBSET (0 .. XDim - 1) :
        Kept(DrawVert(Moved(wx, wy), NewOffset(wx, wy), objects, wx, wy, lines))
  BY <1>1, DrawVertKeeps
<1>4. Kept(build')
  BY <1>2, <1>3, Zenon
<1>5. Kept(build)'
  BY <1>4 DEF Kept
<1>6. Fits(img3_off, show_x, show_y)'
  BY <1>1 DEF SetWindow, Fits
<1>7. InRoom(where, show_x, show_y)'
  BY DEF SetWindow, InRoom
<1> QED
  BY <1>1, <1>5, <1>6, <1>7 DEF IInv, SetWindow

(* What holds of the window and the speeds before a move.                   *)
LEMMA BeforeMove ==
  ASSUME Slow, IInv, InRoom(where, show_x, show_y)
  PROVE  /\ XDim \in Nat /\ YDim \in Nat /\ Speed \in Nat
         /\ Width[where] \in Nat /\ Height[where] \in Nat
         /\ show_x \in 0 .. Width[where] - XDim /\ show_y \in 0 .. Height[where] - YDim
         /\ x_speed \in 0 .. 3 * Speed /\ y_speed \in 0 .. 3 * Speed
         /\ x_speed <= XDim \/ Width[where] - XDim <= XDim
         /\ y_speed <= YDim \/ Height[where] - YDim <= YDim
BY WindowAssumption DEF Slow, IInv, InRoom, Smaller

LEMMA MoveDownStep ==
  ASSUME Slow, IInv, InRoom(where, show_x, show_y), MoveDown, UNCHANGED player
  PROVE  IInv'
<1> DEFINE delta == Smaller(y_speed, show_y)
           lines == 0 .. delta - 1
<1>1. delta \in 0 .. YDim /\ delta <= show_y
  BY BeforeMove DEF Smaller
<1>2. SetWindow(show_x, show_y - delta)
      /\ build' = DrawHoriz(Moved(show_x, show_y - delta), NewOffset(show_x, show_y - delta),
                            objects, show_x, show_y - delta, lines)
  BY DEF MoveDown
<1> HIDE DEF delta
<1>3. /\ lines \in SUBSET (0 .. YDim - 1)
      /\ show_x \in Int /\ show_y - delta \in Int /\ InRoom(where, show_x, show_y - delta)
  BY <1>1, BeforeMove DEF InRoom
<1> QED
  BY <1>2, <1>3, MoveStep DEF player

LEMMA MoveUpStep ==
  ASSUME Slow, IInv, InRoom(where, show_x, show_y), MoveUp, UNCHANGED player
  PROVE  IInv'
<1> DEFINE delta == Smaller(y_speed, Height[where] - YDim - show_y)
           lines == YDim - delta .. YDim - 1
<1>1. delta \in 0 .. YDim /\ delta <= Height[where] - YDim - show_y
  BY BeforeMove DEF Smaller
<1>2. SetWindow(show_x, show_y + delta)
      /\ build' = DrawHoriz(Moved(show_x, show_y + delta), NewOffset(show_x, show_y + delta),
                            objects, show_x, show_y + delta, lines)
  BY DEF MoveUp
<1> HIDE DEF delta
<1>3. /\ lines \in SUBSET (0 .. YDim - 1)
      /\ show_x \in Int /\ show_y + delta \in Int /\ InRoom(where, show_x, show_y + delta)
  BY <1>1, BeforeMove DEF InRoom
<1> QED
  BY <1>2, <1>3, MoveStep DEF player

LEMMA MoveLeftStep ==
  ASSUME Slow, IInv, InRoom(where, show_x, show_y), MoveLeft, UNCHANGED player
  PROVE  IInv'
<1> DEFINE delta == Smaller(x_speed, Width[where] - XDim - show_x)
           lines == XDim - delta .. XDim - 1
<1>1. delta \in 0 .. XDim /\ delta <= Width[where] - XDim - show_x
  BY BeforeMove DEF Smaller
<1>2. SetWindow(show_x + delta, show_y)
      /\ build' = DrawVert(Moved(show_x + delta, show_y), NewOffset(show_x + delta, show_y),
                           objects, show_x + delta, show_y, lines)
  BY DEF MoveLeft
<1> HIDE DEF delta
<1>3. /\ lines \in SUBSET (0 .. XDim - 1)
      /\ show_x + delta \in Int /\ show_y \in Int /\ InRoom(where, show_x + delta, show_y)
  BY <1>1, BeforeMove DEF InRoom
<1> QED
  BY <1>2, <1>3, MoveStep DEF player

LEMMA MoveRightStep ==
  ASSUME Slow, IInv, InRoom(where, show_x, show_y), MoveRight, UNCHANGED player
  PROVE  IInv'
<1> DEFINE delta == Smaller(x_speed, show_x)
           lines == 0 .. delta - 1
<1>1. delta \in 0 .. XDim /\ delta <= show_x
  BY BeforeMove DEF Smaller
<1>2. SetWindow(show_x - delta, show_y)
      /\ build' = DrawVert(Moved(show_x - delta, show_y), NewOffset(show_x - delta, show_y),
                           objects, show_x - delta, show_y, lines)
  BY DEF MoveRight
<1> HIDE DEF delta
<1>3. /\ lines \in SUBSET (0 .. XDim - 1)
      /\ show_x - delta \in Int /\ show_y \in Int /\ InRoom(where, show_x - delta, show_y)
  BY <1>1, BeforeMove DEF InRoom
<1> QED
  BY <1>2, <1>3, MoveStep DEF player

LEMMA EnterRoomStep ==
  ASSUME IInv, EnterRoom PROVE IInv'
<1>1. 0 .. YDim - 1 \in SUBSET (0 .. YDim - 1)
  OBVIOUS
<1>2. SetWindow(0, 0)
      /\ build' = DrawHoriz(Moved(0, 0), NewOffset(0, 0), objects, 0, 0, 0 .. YDim - 1)
  BY DEF EnterRoom
<1>3. UNCHANGED <<where, x_speed, y_speed>>
  BY DEF EnterRoom, player
<1>4. 0 \in Int /\ InRoom(where, 0, 0)
  BY WindowAssumption DEF InRoom, IInv
<1>5. ASSUME NEW wx \in Int, NEW wy \in Int, InRoom(where, wx, wy), SetWindow(wx, wy),
             build' = DrawHoriz(Moved(wx, wy), NewOffset(wx, wy), objects, wx, wy, 0 .. YDim - 1)
      PROVE  IInv'
  BY <1>1, <1>3, <1>5, MoveStep
<1> QED
  BY <1>2, <1>4, <1>5

(* The room is redrawn in its place.                                        *)
LEMMA RedrawStep ==
  ASSUME IInv, NEW objs, pc # "enter", RedrawRoom(objs),
         x_speed' \in {Speed, 3 * Speed}, y_speed' \in {Speed, 3 * Speed}
  PROVE  IInv'
<1>1. Kept(DrawHoriz(build, img3_off, objs, show_x, show_y, 0 .. YDim - 1))
  BY DrawHorizKeeps DEF IInv
<1>2. Kept(build)'
  BY <1>1 DEF Kept, RedrawRoom
<1>3. Fits(img3_off, show_x, show_y)'
  BY DEF Fits, RedrawRoom, IInv
<1>4. InRoom(where, show_x, show_y)'
  BY DEF InRoom, RedrawRoom, IInv
<1> QED
  BY <1>2, <1>3, <1>4 DEF IInv, RedrawRoom

LEMMA Unmoved ==
  ASSUME IInv, UNCHANGED <<x_speed, y_speed, view>>, where' \in Rooms,
         pc' = "enter" \/ (where' = where /\ pc # "enter")
  PROVE  IInv'
<1>1. Fits(img3_off, show_x, show_y)' /\ Kept(build)'
  BY DEF view, IInv, Fits, Kept
<1>2. pc' # "enter" => InRoom(where, show_x, show_y)'
  BY DEF view, IInv, InRoom
<1> QED
  BY <1>1, <1>2 DEF IInv, view

LEMMA NextInv ==
  ASSUME Slow, IInv, [Next]_vars PROVE IInv'
<1>1. CASE EnterRoom
  BY <1>1, EnterRoomStep
<1>2. CASE TurnPage
  BY <1>2, Unmoved DEF TurnPage, player, IInv
<1>3. CASE CopyImage
  BY <1>3, Unmoved DEF CopyImage, player, IInv
<1>4. CASE Flip
  BY <1>4, Unmoved DEF Flip, player, IInv
<1>5. CASE MovePhoto
  BY <1>5, MoveDownStep, MoveUpStep, MoveLeftStep, MoveRightStep DEF MovePhoto, Command, IInv
<1>6. CASE ChangeRoom
  BY <1>6, Unmoved DEF ChangeRoom
<1>7. ASSUME NEW o \in Objects, Get(o) PROVE IInv'
  <2>1. x_speed' \in {Speed, 3 * Speed} /\ y_speed' \in {Speed, 3 * Speed}
    BY <1>7 DEF Get, IInv
  <2> QED
    BY <1>7, <2>1, RedrawStep DEF Get, Command
<1>8. ASSUME NEW o \in Objects, NEW spot, Drop(o, spot) PROVE IInv'
  <2>1. x_speed' \in {Speed, 3 * Speed} /\ y_speed' \in {Speed, 3 * Speed}
    BY <1>8 DEF Drop, IInv
  <2> QED
    BY <1>8, <2>1, RedrawStep DEF Drop, Command
<1>9. CASE UNCHANGED vars
  BY <1>9 DEF vars, view, IInv, InRoom, Fits, Kept
<1> QED
  BY <1>1, <1>2, <1>3, <1>4, <1>5, <1>6, <1>7, <1>8, <1>9 DEF Next

(* For every size of screen, of the photos and of the build buffer: as long *)
(* as no move is longer than the screen, nothing that draw_horiz_line,      *)
(* draw_vert_line or set_view_window write breaks the memory fences that    *)
(* clear_mode_X checks.                                                     *)
THEOREM Fenced == ASSUME Slow PROVE Spec => []FencesHold
<1>1. IInv => FencesHold
  BY DEF IInv, Kept, Outside, FencesHold
<1>2. IInv /\ [Next]_vars => IInv'
  BY NextInv
<1> QED
  BY InitInv, <1>1, <1>2, PTL DEF Spec

----------------------------------------------------------------------------
(* Where plane i of the window begins in the build buffer; each plane that  *)
(* the corner shifts begins one byte later.                                 *)
Slot(m, i) == (3 - m - i + 4) % 4
Carry(m, i) == IF 3 - m < i THEN 1 ELSE 0
PlaneAt(off, wx, wy, i) ==
  off + wx \div 4 + wy * XWidth + Slot(wx % 4, i) * ScrollSize + Carry(wx % 4, i)

(* Planes are counted from the window's first column; they lie in reverse.  *)
LEMMA SlotIs ==
  ASSUME NEW m \in 0 .. 3, NEW i \in 0 .. 3
  PROVE  /\ Slot(m, i) \in 0 .. 3 /\ Carry(m, i) \in {0, 1}
         /\ Slot(m, i) = IF m + i < 4 THEN 3 - (m + i) ELSE 7 - (m + i)
         /\ Carry(m, i) = IF m + i < 4 THEN 0 ELSE 1
BY DEF Slot, Carry

(* The pixels of the window, counted from its corner.                       *)
Columns == 0 .. XDim - 1
Lines == 0 .. YDim - 1

(* A pixel of the window is a byte of its plane.                            *)
LEMMA AddressOf ==
  ASSUME NEW off \in Int, NEW wx \in Int, NEW wy \in Int,
         NEW c \in Columns, NEW l \in Lines
  PROVE  /\ c % 4 \in Planes /\ c \div 4 \in 0 .. XWidth - 1
         /\ c \div 4 + l * XWidth \in Bytes
         /\ Address(off, wx + c, wy + l)
              = PlaneAt(off, wx, wy, c % 4) + (c \div 4 + l * XWidth)
<1>1. PICK w \in Nat : w = XWidth /\ XDim = 4 * w /\ w > 0
  BY Sizes
<1>2. PICK s \in Nat : s = ScrollSize /\ s = w * YDim
  BY <1>1, Sizes
<1>3. c \in Nat /\ c < 4 * w /\ l \in Nat /\ l <= YDim - 1 /\ YDim \in Nat
  BY <1>1, WindowAssumption DEF Columns, Lines
<1>4. PICK m \in 0 .. 3, q \in Int : m = wx % 4 /\ q = wx \div 4 /\ wx = 4 * q + m
  OBVIOUS
<1>5. PICK i \in 0 .. 3, d \in Nat : i = c % 4 /\ d = c \div 4 /\ c = 4 * d + i
  BY <1>3
<1>6. d \in 0 .. w - 1
  BY <1>3, <1>5
<1>7. PICK a \in Nat : a = l * w /\ a <= s - w
  <2>1. l * w <= (YDim - 1) * w
    BY <1>1, <1>3, TimesMonotonic
  <2>2. (YDim - 1) * w = s - w
    BY <1>2, <1>3
  <2> QED
    BY <1>3, <2>1, <2>2
<1>8. d + a \in 0 .. s - 1
  BY <1>6, <1>7
<1>9. PICK r \in Int : r = wy * w
  OBVIOUS
<1>10. (wy + l) * w = r + a
  BY <1>3, <1>7, <1>9
<1>11. Address(off, wx + c, wy + l)
         = off + (3 - ((wx + c) % 4)) * s + (wx + c) \div 4 + (r + a)
  BY <1>1, <1>2, <1>10 DEF Address
<1>12. PlaneAt(off, wx, wy, i) = off + q + r + Slot(m, i) * s + Carry(m, i)
  BY <1>1, <1>2, <1>4, <1>9 DEF PlaneAt
<1>13. CASE m + i < 4
  <2>1. (wx + c) % 4 = m + i /\ (wx + c) \div 4 = q + d
    BY <1>3, <1>4, <1>5, <1>13
  <2>2. Slot(m, i) = 3 - (m + i) /\ Carry(m, i) = 0
    BY <1>13, SlotIs
  <2>3. PICK k \in Int : k = (3 - (m + i)) * s
    OBVIOUS
  <2>4. Address(off, wx + c, wy + l) = off + k + (q + d) + (r + a)
    BY <1>11, <2>1, <2>3
  <2>5. PlaneAt(off, wx, wy, i) = off + q + r + k + 0
    BY <1>12, <2>2, <2>3
  <2> QED
    BY <1>1, <1>2, <1>5, <1>6, <1>7, <1>8, <2>4, <2>5 DEF Planes, Bytes
<1>14. CASE ~(m + i < 4)
  <2>1. (wx + c) % 4 = m + i - 4 /\ (wx + c) \div 4 = q + d + 1
    BY <1>3, <1>4, <1>5, <1>14
  <2>2. Slot(m, i) = 7 - (m + i) /\ Carry(m, i) = 1
    BY <1>14, SlotIs
  <2>3. PICK k \in Int : k = (7 - (m + i)) * s
    OBVIOUS
  <2>4. Address(off, wx + c, wy + l) = off + k + (q + d + 1) + (r + a)
    <3>1. 3 - (m + i - 4) = 7 - (m + i)
      OBVIOUS
    <3> QED
      BY <1>11, <2>1, <2>3, <3>1
  <2>5. PlaneAt(off, wx, wy, i) = off + q + r + k + 1
    BY <1>12, <2>2, <2>3
  <2> QED
    BY <1>1, <1>2, <1>5, <1>6, <1>7, <1>8, <2>4, <2>5 DEF Planes, Bytes
<1> QED
  BY <1>13, <1>14

(* Planes do not run into each other.                                       *)
LEMMA PlanesApart ==
  ASSUME NEW off \in Int, NEW wx \in Int, NEW wy \in Int,
         NEW i \in Planes, NEW j \in Planes, i # j,
         NEW a \in Bytes, NEW b \in Bytes
  PROVE  PlaneAt(off, wx, wy, i) + a # PlaneAt(off, wx, wy, j) + b
<1>1. PICK s \in Nat : s = ScrollSize /\ a \in 0 .. s - 1 /\ b \in 0 .. s - 1
  BY Sizes DEF Bytes
<1>2. PICK base \in Int : base = off + wx \div 4 + wy * XWidth
  BY Sizes
<1>3. PICK m \in 0 .. 3 : m = wx % 4
  OBVIOUS
<1>4. i \in 0 .. 3 /\ j \in 0 .. 3
  BY DEF Planes
<1>5. \A k \in 0 .. 3 : PlaneAt(off, wx, wy, k) = base + Slot(m, k) * s + Carry(m, k)
  BY <1>1, <1>2, <1>3 DEF PlaneAt
<1>6. ASSUME NEW h \in 0 .. 3, NEW k \in 0 .. 3, Slot(m, h) < Slot(m, k)
      PROVE  Slot(m, h) * s + s <= Slot(m, k) * s /\ Carry(m, h) <= Carry(m, k)
  <2>1. /\ Slot(m, h) = IF m + h < 4 THEN 3 - (m + h) ELSE 7 - (m + h)
        /\ Slot(m, k) = IF m + k < 4 THEN 3 - (m + k) ELSE 7 - (m + k)
        /\ Carry(m, h) = IF m + h < 4 THEN 0 ELSE 1
        /\ Carry(m, k) = IF m + k < 4 THEN 0 ELSE 1
        /\ Slot(m, h) \in 0 .. 3 /\ Slot(m, k) \in 0 .. 3
    BY SlotIs
  <2>2. Carry(m, h) <= Carry(m, k)
    BY <1>6, <2>1
  <2>3. (Slot(m, h) + 1) * s <= Slot(m, k) * s
    BY <1>6, <2>1, TimesMonotonic
  <2>4. (Slot(m, h) + 1) * s = Slot(m, h) * s + s
    BY <2>1
  <2> QED
    BY <2>2, <2>3, <2>4
<1>7. Slot(m, i) # Slot(m, j)
  <2>1. /\ Slot(m, i) = IF m + i < 4 THEN 3 - (m + i) ELSE 7 - (m + i)
        /\ Slot(m, j) = IF m + j < 4 THEN 3 - (m + j) ELSE 7 - (m + j)
    BY <1>4, SlotIs
  <2> QED
    BY <1>4, <2>1
<1>8. PICK f \in 0 .. 3, g \in 0 .. 3, e \in Nat, h \in Nat :
        /\ f = Slot(m, i) /\ g = Slot(m, j) /\ e = Carry(m, i) /\ h = Carry(m, j)
  BY <1>4, SlotIs
<1>9. PICK u \in Int, v \in Int : u = f * s /\ v = g * s
  OBVIOUS
<1>10. PlaneAt(off, wx, wy, i) = base + u + e /\ PlaneAt(off, wx, wy, j) = base + v + h
  BY <1>4, <1>5, <1>8, <1>9
<1>11. CASE f < g
  <2>1. u + s <= v /\ e <= h
    BY <1>4, <1>6, <1>8, <1>9, <1>11
  <2> QED
    BY <1>1, <1>10, <2>1
<1>12. CASE g < f
  <2>1. v + s <= u /\ h <= e
    BY <1>4, <1>6, <1>8, <1>9, <1>12
  <2> QED
    BY <1>1, <1>10, <2>1
<1> QED
  BY <1>7, <1>8, <1>11, <1>12

(* No two places in an array of rows are the same.                          *)
LEMMA RowsApart ==
  ASSUME NEW w \in Nat, NEW a \in 0 .. w - 1, NEW b \in 0 .. w - 1,
         NEW l \in Nat, NEW k \in Nat, a + l * w = b + k * w
  PROVE  a = b /\ l = k
<1>1. CASE l < k
  <2>1. (l + 1) * w <= k * w
    BY <1>1, TimesMonotonic
  <2>2. (l + 1) * w = l * w + w /\ l * w \in Int /\ k * w \in Int
    OBVIOUS
  <2> QED
    BY <2>1, <2>2
<1>2. CASE k < l
  <2>1. (k + 1) * w <= l * w
    BY <1>2, TimesMonotonic
  <2>2. (k + 1) * w = k * w + w /\ l * w \in Int /\ k * w \in Int
    OBVIOUS
  <2> QED
    BY <2>1, <2>2
<1>3. CASE l = k
  <2>1. l * w \in Int
    OBVIOUS
  <2> QED
    BY <1>3, <2>1
<1> QED
  BY <1>1, <1>2, <1>3

(* Two pixels of the window have different addresses.                       *)
LEMMA PixelsApart ==
  ASSUME NEW off \in Int, NEW wx \in Int, NEW wy \in Int,
         NEW c \in Columns, NEW l \in Lines,
         NEW d \in Columns, NEW k \in Lines
  PROVE  Address(off, wx + c, wy + l) = Address(off, wx + d, wy + k) => c = d /\ l = k
<1>1. /\ c % 4 \in Planes /\ c \div 4 \in 0 .. XWidth - 1
      /\ c \div 4 + l * XWidth \in Bytes
      /\ Address(off, wx + c, wy + l) = PlaneAt(off, wx, wy, c % 4) + (c \div 4 + l * XWidth)
  BY AddressOf
<1>2. /\ d % 4 \in Planes /\ d \div 4 \in 0 .. XWidth - 1
      /\ d \div 4 + k * XWidth \in Bytes
      /\ Address(off, wx + d, wy + k) = PlaneAt(off, wx, wy, d % 4) + (d \div 4 + k * XWidth)
  BY AddressOf
<1> HAVE Address(off, wx + c, wy + l) = Address(off, wx + d, wy + k)
<1>3. c % 4 = d % 4
  <2> SUFFICES ASSUME c % 4 # d % 4 PROVE FALSE
    OBVIOUS
  <2>1. PlaneAt(off, wx, wy, c % 4) + (c \div 4 + l * XWidth)
          # PlaneAt(off, wx, wy, d % 4) + (d \div 4 + k * XWidth)
    <3> DEFINE i == c % 4
               j == d % 4
               a == c \div 4 + l * XWidth
               b == d \div 4 + k * XWidth
    <3>1. i \in Planes /\ j \in Planes /\ a \in Bytes /\ b \in Bytes /\ i # j
      BY <1>1, <1>2
    <3> HIDE DEF i, j, a, b
    <3>2. PlaneAt(off, wx, wy, i) + a # PlaneAt(off, wx, wy, j) + b
      BY <3>1, PlanesApart
    <3> QED
      BY <3>2 DEF i, j, a, b
  <2> QED
    BY <1>1, <1>2, <2>1, Zenon
<1>4. PICK p : p = PlaneAt(off, wx, wy, c % 4) /\ p \in Int
  <2>1. wx % 4 \in 0 .. 3 /\ c % 4 \in 0 .. 3
    BY <1>1 DEF Planes
  <2>2. Slot(wx % 4, c % 4) * ScrollSize \in Int /\ Carry(wx % 4, c % 4) \in Int
    BY <2>1, SlotIs, Sizes
  <2>3. PlaneAt(off, wx, wy, c % 4) \in Int
    BY <2>2, Sizes DEF PlaneAt
  <2> QED
    BY <2>3
<1>5. c \div 4 + l * XWidth = d \div 4 + k * XWidth
  <2> DEFINE at == c \div 4 + l * XWidth
             bt == d \div 4 + k * XWidth
  <2>0. at \in Bytes /\ bt \in Bytes
    BY <1>1, <1>2
  <2> HIDE DEF at, bt
  <2>1. PICK a \in Int, b \in Int : a = at /\ b = bt
    BY <2>0 DEF Bytes
  <2>2. p + at = p + bt
    BY <1>1, <1>2, <1>3, <1>4, Zenon DEF at, bt
  <2>3. p + a = p + b
    BY <2>1, <2>2, Zenon
  <2>4. at = bt
    BY <1>4, <2>1, <2>3
  <2> QED
    BY <2>4 DEF at, bt
<1>6. c \div 4 = d \div 4 /\ l = k
  <2>1. l \in Nat /\ k \in Nat
    BY WindowAssumption DEF Lines
  <2>2. PICK w \in Nat : w = XWidth
    BY Sizes
  <2>3. PICK a \in 0 .. w - 1, b \in 0 .. w - 1 : a = c \div 4 /\ b = d \div 4
    BY <1>1, <1>2, <2>2
  <2>4. a + l * w = b + k * w
    BY <1>5, <2>2, <2>3, Zenon
  <2>5. a = b /\ l = k
    BY <2>1, <2>4, RowsApart
  <2> QED
    BY <2>3, <2>5
<1>7. c = d
  <2>1. c \in Nat /\ d \in Nat
    BY WindowAssumption DEF Columns
  <2> QED
    BY <1>3, <1>6, <2>1
<1> QED
  BY <1>6, <1>7

----------------------------------------------------------------------------
(* Pixels that all lie on the window at (wx, wy).                           *)
OnWindow(pixels, wx, wy) ==
  pixels \subseteq {<<wx + d, wy + k>> : d \in Columns, k \in Lines}

(* What painting leaves at a pixel: its colour, if it was painted.          *)
Repainted(mem, off, colours, px, py) ==
  Paint(mem, off, colours)[Address(off, px, py)]
    = IF <<px, py>> \in DOMAIN colours THEN colours[<<px, py>>] ELSE mem[Address(off, px, py)]

(* Painting changes the pixels painted and no other pixel of the window.    *)
LEMMA Painted ==
  ASSUME NEW mem, NEW off \in Int, NEW wx \in Int, NEW wy \in Int, Fits(off, wx, wy),
         NEW colours,
         OnWindow(DOMAIN colours, wx, wy),
         NEW c \in Columns, NEW l \in Lines
  PROVE  Repainted(mem, off, colours, wx + c, wy + l)
<1> DEFINE p == <<wx + c, wy + l>>
           a == Address(off, wx + c, wy + l)
           at == [q \in DOMAIN colours |-> Address(off, q[1], q[2])]
           hit == {q \in DOMAIN colours : at[q] = a}
<1>1. a \in Memory
  <2>1. /\ XDim \in Nat /\ YDim \in Nat /\ Fence \in Nat
        /\ wx + c \in wx .. wx + XDim - 1 /\ wy + l \in wy .. wy + YDim - 1
    BY WindowAssumption DEF Columns, Lines
  <2>2. a \in 0 .. BufSize - 1
    BY <2>1, AddressInside
  <2> HIDE DEF a
  <2> QED
    BY <2>1, <2>2, Sizes, WindowAssumption DEF Memory
<1>2. Paint(mem, off, colours)[a] = IF hit = {} THEN mem[a] ELSE colours[CHOOSE q \in hit : TRUE]
  <2>1. Paint(mem, off, colours)
          = [b \in Memory |-> IF {q \in DOMAIN colours : at[q] = b} = {} THEN mem[b]
                ELSE colours[CHOOSE q \in {q \in DOMAIN colours : at[q] = b} : TRUE]]
    BY DEF Paint
  <2> HIDE DEF a, at
  <2> QED
    BY <1>1, <2>1, Zenon
<1>3. ASSUME NEW q \in hit PROVE q = p
  <2>1. q \in DOMAIN colours /\ at[q] = a
    OBVIOUS
  <2>2. PICK d \in Columns, k \in Lines : q = <<wx + d, wy + k>>
    BY <2>1 DEF OnWindow
  <2>3. q[1] = wx + d /\ q[2] = wy + k
    BY <2>2
  <2>4. Address(off, wx + d, wy + k) = Address(off, wx + c, wy + l)
    BY <2>1, <2>3, Zenon
  <2>5. d = c /\ k = l
    BY <2>4, PixelsApart
  <2> QED
    BY <2>2, <2>5
<1>4. p[1] = wx + c /\ p[2] = wy + l
  OBVIOUS
<1>5. p \in DOMAIN colours => at[p] = a
  BY <1>4, Zenon
<1> HIDE DEF p, a, at
<1>6. CASE p \in DOMAIN colours
  <2>1. hit = {p}
    BY <1>3, <1>5, <1>6
  <2>2. (CHOOSE q \in hit : TRUE) = p
    BY <2>1
  <2>3. hit # {}
    BY <2>1
  <2>4. Paint(mem, off, colours)[a] = colours[p]
    BY <1>2, <2>2, <2>3, Zenon
  <2> QED
    BY <1>6, <2>4, Zenon DEF Repainted, p, a
<1>7. CASE p \notin DOMAIN colours
  <2>1. hit = {}
    BY <1>3, <1>7
  <2>2. Paint(mem, off, colours)[a] = mem[a]
    BY <1>2, <2>1, Zenon
  <2> QED
    BY <1>7, <2>2, Zenon DEF Repainted, p, a
<1> QED
  BY <1>6, <1>7

(* Lines drawn into a window are the window's lines, and the others stay.   *)
LEMMA DrawnHoriz ==
  ASSUME NEW mem, NEW objs, NEW off \in Int, NEW wx \in Int, NEW wy \in Int, Fits(off, wx, wy),
         NEW lines, lines \subseteq Lines, NEW c \in Columns, NEW l \in Lines
  PROVE  DrawHoriz(mem, off, objs, wx, wy, lines)[Address(off, wx + c, wy + l)]
           = IF l \in lines THEN HorizLine(objs, wx, wy + l)[c]
             ELSE mem[Address(off, wx + c, wy + l)]
<1> DEFINE line == [k \in lines |-> HorizLine(objs, wx, wy + k)]
           at == {<<wx + d, wy + k>> : d \in 0 .. XDim - 1, k \in lines}
           colours == [p \in at |-> line[p[2] - wy][p[1] - wx]]
           p == <<wx + c, wy + l>>
<1>1. DrawHoriz(mem, off, objs, wx, wy, lines) = Paint(mem, off, colours)
  BY DEF DrawHoriz
<1>0. OnWindow(DOMAIN colours, wx, wy)
  BY DEF Columns, OnWindow
<1>2. DOMAIN colours = at
  OBVIOUS
<1>3. p \in at <=> l \in lines
  <2>1. ASSUME p \in at PROVE l \in lines
    <3>1. PICK d \in 0 .. XDim - 1, k \in lines : <<wx + c, wy + l>> = <<wx + d, wy + k>>
      BY <2>1
    <3>2. k \in Int /\ l \in Int /\ wy + l = wy + k
      BY <3>1 DEF Lines
    <3>3. l = k
      BY <3>2
    <3> QED
      BY <3>3
  <2>2. ASSUME l \in lines PROVE p \in at
    BY <2>2 DEF Columns
  <2> QED
    BY <2>1, <2>2
<1>4. ASSUME l \in lines PROVE colours[p] = HorizLine(objs, wx, wy + l)[c]
  <2>1. p[1] - wx = c /\ p[2] - wy = l
    BY DEF Columns, Lines
  <2>2. colours[p] = line[p[2] - wy][p[1] - wx]
    BY <1>3, <1>4
  <2>3. line[l] = HorizLine(objs, wx, wy + l)
    BY <1>4
  <2> HIDE DEF line, colours, p
  <2> QED
    BY <2>1, <2>2, <2>3
<1> HIDE DEF line, at, colours
<1>5. Paint(mem, off, colours)[Address(off, wx + c, wy + l)]
        = IF p \in DOMAIN colours THEN colours[p] ELSE mem[Address(off, wx + c, wy + l)]
  <2>1. Repainted(mem, off, colours, wx + c, wy + l)
    BY <1>0, Painted
  <2> QED
    BY <2>1, Zenon DEF Repainted
<1> QED
  BY <1>1, <1>2, <1>3, <1>4, <1>5, Zenon

(* The same of columns.                                                     *)
LEMMA DrawnVert ==
  ASSUME NEW mem, NEW objs, NEW off \in Int, NEW wx \in Int, NEW wy \in Int, Fits(off, wx, wy),
         NEW lines, lines \subseteq Columns, NEW c \in Columns, NEW l \in Lines
  PROVE  DrawVert(mem, off, objs, wx, wy, lines)[Address(off, wx + c, wy + l)]
           = IF c \in lines THEN VertLine(objs, wx + c, wy)[l]
             ELSE mem[Address(off, wx + c, wy + l)]
<1> DEFINE line == [k \in lines |-> VertLine(objs, wx + k, wy)]
           at == {<<wx + k, wy + d>> : d \in 0 .. YDim - 1, k \in lines}
           colours == [p \in at |-> line[p[1] - wx][p[2] - wy]]
           p == <<wx + c, wy + l>>
<1>1. DrawVert(mem, off, objs, wx, wy, lines) = Paint(mem, off, colours)
  BY DEF DrawVert
<1>0. OnWindow(DOMAIN colours, wx, wy)
  BY DEF Lines, OnWindow
<1>2. DOMAIN colours = at
  OBVIOUS
<1>3. p \in at <=> c \in lines
  <2>1. ASSUME p \in at PROVE c \in lines
    <3>1. PICK d \in 0 .. YDim - 1, k \in lines : <<wx + c, wy + l>> = <<wx + k, wy + d>>
      BY <2>1
    <3>2. k \in Int /\ c \in Int /\ wx + c = wx + k
      BY <3>1 DEF Columns
    <3>3. c = k
      BY <3>2
    <3> QED
      BY <3>3
  <2>2. ASSUME c \in lines PROVE p \in at
    BY <2>2 DEF Lines
  <2> QED
    BY <2>1, <2>2
<1>4. ASSUME c \in lines PROVE colours[p] = VertLine(objs, wx + c, wy)[l]
  <2>1. p[1] - wx = c /\ p[2] - wy = l
    BY DEF Columns, Lines
  <2>2. colours[p] = line[p[1] - wx][p[2] - wy]
    BY <1>3, <1>4
  <2>3. line[c] = VertLine(objs, wx + c, wy)
    BY <1>4
  <2> HIDE DEF line, colours, p
  <2> QED
    BY <2>1, <2>2, <2>3
<1> HIDE DEF line, at, colours
<1>5. Paint(mem, off, colours)[Address(off, wx + c, wy + l)]
        = IF p \in DOMAIN colours THEN colours[p] ELSE mem[Address(off, wx + c, wy + l)]
  <2>1. Repainted(mem, off, colours, wx + c, wy + l)
    BY <1>0, Painted
  <2> QED
    BY <2>1, Zenon DEF Repainted
<1> QED
  BY <1>1, <1>2, <1>3, <1>4, <1>5, Zenon

----------------------------------------------------------------------------
(* The row and column of a place in an array of rows.                       *)
LEMMA Quotient ==
  ASSUME NEW w \in Nat, NEW row \in Nat, NEW col \in Nat, col < w
  PROVE  (w * row + col) \div w = row /\ (w * row + col) % w = col
<1>1. PICK k \in Nat : k = w * row + col
  OBVIOUS
<1>2. PICK q \in Int, r \in Int : q = k \div w /\ r = k % w
  OBVIOUS
<1>3. k = w * q + r /\ 0 <= r /\ r < w
  BY <1>2
<1>4. w * row = row * w /\ w * q = q * w
  OBVIOUS
<1>5. CASE q < row
  <2>1. (q + 1) * w <= row * w
    BY <1>5, TimesMonotonic
  <2>2. (q + 1) * w = q * w + w
    OBVIOUS
  <2> QED
    BY <1>1, <1>3, <1>4, <2>1, <2>2
<1>6. CASE row < q
  <2>1. (row + 1) * w <= q * w
    BY <1>6, TimesMonotonic
  <2>2. (row + 1) * w = row * w + w
    OBVIOUS
  <2> QED
    BY <1>1, <1>3, <1>4, <2>1, <2>2
<1>7. CASE q = row
  <2>1. w * q = w * row
    BY <1>7, Zenon
  <2>2. PICK z \in Int : z = w * row
    OBVIOUS
  <2>3. k = z + col /\ k = z + r
    BY <1>1, <1>3, <2>1, <2>2, Zenon
  <2>4. r = col
    BY <2>3
  <2>5. k \div w = row /\ k % w = col
    BY <1>2, <1>7, <2>4, Zenon
  <2> QED
    BY <1>1, <2>5, Zenon
<1> QED
  BY <1>5, <1>6, <1>7

(* The photo in memory is the file's upright, and has a pixel where the     *)
(* room has one.                                                            *)
LEMMA PhotoPixel ==
  ASSUME NEW r \in Rooms, NEW px \in 0 .. Width[r] - 1, NEW py \in 0 .. Height[r] - 1
  PROVE  Element(Photos[r], Width[r] * py + px)
           = Shade(File[r][Width[r] * (Height[r] - 1 - py) + px + 1])
<1>1. PICK w \in Nat : w = Width[r] /\ w > 0
  BY WindowAssumption
<1>2. PICK h \in Nat : h = Height[r] /\ h > 0
  BY WindowAssumption
<1>3. px \in Nat /\ px < w /\ py \in Nat /\ py <= h - 1
  BY <1>1, <1>2
<1>4. PICK k \in Nat : k = w * py + px
  BY <1>3
<1>5. k \div w = py /\ k % w = px
  BY <1>3, <1>4, Quotient
<1>6. k \in 0 .. w * h - 1
  <2>1. py * w <= (h - 1) * w
    BY <1>2, <1>3, TimesMonotonic
  <2>2. (h - 1) * w = w * h - w /\ py * w = w * py
    BY <1>2, <1>3
  <2> QED
    BY <1>1, <1>3, <1>4, <2>1, <2>2
<1>7. Upright(File[r], w, h)[k] = File[r][w * (h - 1 - k \div w) + (k % w) + 1]
  BY <1>6 DEF Upright
<1>8. DOMAIN Upright(File[r], w, h) = 0 .. w * h - 1
  BY DEF Upright
<1>9. Photos[r] = ReadPhoto(r)
  BY DEF Photos
<1>10. k \in DOMAIN Photos[r] /\ Photos[r][k] = Shade(Upright(File[r], w, h)[k])
  BY <1>1, <1>2, <1>6, <1>8, <1>9, Zenon DEF ReadPhoto
<1>11. Element(Photos[r], k) = Shade(File[r][w * (h - 1 - py) + px + 1])
  BY <1>5, <1>7, <1>10, Zenon DEF Element
<1> QED
  BY <1>1, <1>2, <1>4, <1>11, Zenon

(* What fill_horiz_buffer and fill_vert_buffer find are the room's pixels.  *)
LEMMA HorizPixel ==
  ASSUME NEW objs, NEW x1 \in Int, NEW y1 \in 0 .. Height[where] - 1, NEW c \in Columns,
         where \in Rooms, x1 + c \in 0 .. Width[where] - 1
  PROVE  HorizLine(objs, x1, y1)[c] = Pixel(where, x1 + c, y1, objs)
<1>1. Width[where] \in Nat /\ Height[where] \in Nat
  BY WindowAssumption
<1>2. 0 <= x1 + c /\ Width[where] > x1 + c /\ c \in Int
  BY <1>1, WindowAssumption DEF Columns
<1>3. PICK k : k = Width[where] * y1 /\ k \in Int
  BY <1>1
<1>4. k + x1 + c = k + (x1 + c)
  BY <1>2, <1>3
<1>5. Element(Photos[where], Width[where] * y1 + x1 + c)
        = Shade(File[where][Width[where] * (Height[where] - 1 - y1) + (x1 + c) + 1])
  BY <1>3, <1>4, PhotoPixel
<1> QED
  BY <1>2, <1>5 DEF HorizLine, Pixel, Columns

LEMMA VertPixel ==
  ASSUME NEW objs, NEW x1 \in 0 .. Width[where] - 1, NEW y1 \in Int, NEW l \in Lines,
         where \in Rooms, y1 + l \in 0 .. Height[where] - 1
  PROVE  VertLine(objs, x1, y1)[l] = Pixel(where, x1, y1 + l, objs)
<1>1. Width[where] \in Nat /\ Height[where] \in Nat
  BY WindowAssumption
<1>2. 0 <= y1 + l /\ Height[where] > y1 + l /\ l \in Int
  BY <1>1, WindowAssumption DEF Lines
<1>3. Element(Photos[where], Width[where] * (y1 + l) + x1)
        = Shade(File[where][Width[where] * (Height[where] - 1 - (y1 + l)) + x1 + 1])
  BY PhotoPixel
<1> QED
  BY <1>2, <1>3 DEF VertLine, Pixel, Lines

----------------------------------------------------------------------------
(* Copying byte by byte in the direction chosen leaves every byte as it was *)
(* before the copying began.                                                *)
LEMMA CopiedByte ==
  ASSUME NEW mem, NEW from \in Int, NEW to \in Int, NEW len, NEW i
  PROVE  Copied(mem, from, to, len, i) = mem[from + i]
BY DEF Copied, Upwards, Downwards

(* The part of the photo that the old and the new window share is copied.   *)
LEMMA CopiedPixel ==
  ASSUME NEW mem, NEW off \in Int, NEW new \in Int,
         NEW wx \in Int, NEW wy \in Int, Fits(new, wx, wy),
         NEW old_x \in Int, NEW old_y \in Int,
         NEW px \in wx .. wx + XDim - 1, NEW py \in wy .. wy + YDim - 1,
         px \in old_x .. old_x + XDim - 1, py \in old_y .. old_y + YDim - 1
  PROVE  CopyOver(mem, off, new, wx, wy, old_x, old_y)[Address(new, px, py)]
           = mem[Address(off, px, py)]
<1> DEFINE first == Larger(wx, old_x) \div 4 + Larger(wy, old_y) * XWidth
           end_x == Smaller(wx, old_x) + XDim - 1
           end_y == Smaller(wy, old_y) + YDim - 1
           len == end_x \div 4 + end_y * XWidth + 1 - first + 3 * ScrollSize
           a == Address(new, px, py)
<1>1. PICK w \in Nat : w = XWidth /\ XDim = 4 * w
  BY Sizes
<1>2. PICK s \in Nat : s = ScrollSize
  BY Sizes
<1>3. px \in Int /\ py \in Int /\ YDim \in Nat
  BY <1>1, WindowAssumption
<1>4. PICK lx \in Int, ly \in Int, ex \in Int, ey \in Int :
        /\ lx = Larger(wx, old_x) /\ ly = Larger(wy, old_y) /\ ex = end_x /\ ey = end_y
        /\ lx <= px /\ ly <= py /\ px <= ex /\ py <= ey
  BY <1>1, <1>3 DEF Larger, Smaller
<1>5. PICK top \in Int, at \in Int, bottom \in Int :
        /\ top = ly * w /\ at = py * w /\ bottom = ey * w /\ top <= at /\ at <= bottom
  <2>1. ly * w <= py * w /\ py * w <= ey * w
    BY <1>1, <1>3, <1>4, TimesMonotonic
  <2> QED
    BY <1>1, <1>3, <1>4, <2>1
<1>6. PICK l \in Int, p \in Int, e \in Int :
        /\ l = lx \div 4 /\ p = px \div 4 /\ e = ex \div 4 /\ l <= p /\ p <= e
  BY <1>3, <1>4
<1>7. PICK k \in Int : k = (3 - (px % 4)) * s /\ 0 <= k /\ k <= 3 * s
  <2>1. PICK m \in 0..3 : m = px % 4
    BY <1>3
  <2>2. \A i \in 0..3 : i * s \in Int /\ 0 <= i * s /\ i * s <= 3 * s
    BY <1>2
  <2> QED
    BY <2>1, <2>2
<1>8. first = l + top
  BY <1>1, <1>4, <1>5, <1>6
<1>9. len = e + bottom + 1 - first + 3 * s
  BY <1>1, <1>2, <1>4, <1>5, <1>6
<1>10. \A o \in Int : Address(o, px, py) = o + k + p + at
  BY <1>1, <1>2, <1>5, <1>6, <1>7 DEF Address
<1>11. a \in Memory
  <2>1. a \in 0 .. BufSize - 1
    BY AddressInside
  <2> HIDE DEF a
  <2> QED
    BY <2>1, Sizes, WindowAssumption DEF Memory
<1> HIDE DEF first, len, a
<1>12. a = new + k + p + at /\ first \in Int /\ len \in Int
  BY <1>2, <1>5, <1>6, <1>8, <1>9, <1>10 DEF a
<1>13. a - new - first \in 0 .. len - 1
  BY <1>2, <1>5, <1>6, <1>7, <1>8, <1>9, <1>12
<1>14. CopyOver(mem, off, new, wx, wy, old_x, old_y)[a]
         = Copied(mem, off + first, new + first, len, a - new - first)
  BY <1>11, <1>13, Zenon DEF CopyOver, first, len
<1>15. CopyOver(mem, off, new, wx, wy, old_x, old_y)[a] = mem[(off + first) + (a - new - first)]
  BY <1>12, <1>14, CopiedByte
<1>16. (off + first) + (a - new - first) = Address(off, px, py)
  BY <1>5, <1>6, <1>7, <1>10, <1>12
<1> QED
  BY <1>15, <1>16, Zenon DEF a

----------------------------------------------------------------------------
(* The build buffer holds the window's part of the room.                    *)
Drawn(mem, off, r, wx, wy, objs) ==
  \A c \in Columns, l \in Lines :
    mem[Address(off, wx + c, wy + l)] = Pixel(r, wx + c, wy + l, objs)

(* The windows at (wx, wy) and (old_x, old_y) share a pixel.                *)
Shared(wx, wy, old_x, old_y, c, l) ==
  wx + c - old_x \in Columns /\ wy + l - old_y \in Lines

(* The pixels of a window within the photo are the photo's.                 *)
LEMMA InPhoto ==
  ASSUME NEW r \in Rooms, NEW wx, NEW wy, InRoom(r, wx, wy),
         NEW c \in Columns, NEW l \in Lines
  PROVE  /\ wx \in Nat /\ wy \in Nat /\ c \in Nat /\ l \in Nat
         /\ wx + c \in 0 .. Width[r] - 1 /\ wy + l \in 0 .. Height[r] - 1
         /\ wx + c \in wx .. wx + XDim - 1 /\ wy + l \in wy .. wy + YDim - 1
<1>1. /\ Width[r] \in Nat /\ Height[r] \in Nat /\ XDim \in Nat /\ YDim \in Nat
  BY WindowAssumption
<1> QED
  BY <1>1 DEF InRoom, Columns, Lines

(* set_view_window keeps what the old and the new window share.             *)
LEMMA MovedPixel ==
  ASSUME IInv, InRoom(where, show_x, show_y), NEW wx, NEW wy, InRoom(where, wx, wy),
         NEW c \in Columns, NEW l \in Lines, Shared(wx, wy, show_x, show_y, c, l)
  PROVE  Moved(wx, wy)[Address(NewOffset(wx, wy), wx + c, wy + l)]
           = build[Address(img3_off, wx + c, wy + l)]
<1>1. where \in Rooms /\ img3_off \in Int /\ XDim \in Nat /\ YDim \in Nat
  BY WindowAssumption DEF IInv
<1>2. /\ wx \in Nat /\ wy \in Nat /\ c \in Nat /\ l \in Nat
      /\ wx + c \in wx .. wx + XDim - 1 /\ wy + l \in wy .. wy + YDim - 1
  BY <1>1, InPhoto
<1>3. show_x \in Int /\ show_y \in Int
  BY DEF IInv
<1>4. /\ wx + c \in show_x .. show_x + XDim - 1 /\ wy + l \in show_y .. show_y + YDim - 1
      /\ wx + c - show_x \in 0 .. XDim - 1 /\ wy + l - show_y \in 0 .. YDim - 1
  BY <1>1, <1>2, <1>3 DEF Shared, Columns, Lines
<1>5. CASE Fits(img3_off, wx, wy)
  BY <1>5 DEF Moved, NewOffset
<1>6. CASE ~Fits(img3_off, wx, wy)
  <2>1. Overlaps(wx, wy, show_x, show_y)
    BY <1>1, <1>2, <1>3, <1>4 DEF Overlaps, Columns, Lines
  <2>2. /\ Moved(wx, wy) = CopyOver(build, img3_off, Centred(wx, wy), wx, wy, show_x, show_y)
        /\ NewOffset(wx, wy) = Centred(wx, wy)
    BY <1>6, <2>1 DEF Moved, NewOffset
  <2>3. Centred(wx, wy) \in Int /\ Fits(Centred(wx, wy), wx, wy)
    BY <1>2, CentredFits
  <2>4. CopyOver(build, img3_off, Centred(wx, wy), wx, wy, show_x, show_y)
          [Address(Centred(wx, wy), wx + c, wy + l)] = build[Address(img3_off, wx + c, wy + l)]
    BY <1>1, <1>2, <1>3, <1>4, <2>3, CopiedPixel
  <2> QED
    BY <2>2, <2>4, Zenon
<1> QED
  BY <1>5, <1>6

(* The buffer holds the room's pixels that the two windows share.           *)
LEMMA SharedPixel ==
  ASSUME IInv, InRoom(where, show_x, show_y), NEW wx, NEW wy, InRoom(where, wx, wy),
         NEW objs, Drawn(build, img3_off, where, show_x, show_y, objs),
         NEW c \in Columns, NEW l \in Lines, Shared(wx, wy, show_x, show_y, c, l)
  PROVE  Moved(wx, wy)[Address(NewOffset(wx, wy), wx + c, wy + l)]
           = Pixel(where, wx + c, wy + l, objs)
<1>1. where \in Rooms /\ show_x \in Int /\ show_y \in Int
  BY DEF IInv
<1>2. wx \in Nat /\ wy \in Nat /\ c \in Nat /\ l \in Nat
  BY <1>1, InPhoto
<1>3. PICK d \in Columns, k \in Lines : d = wx + c - show_x /\ k = wy + l - show_y
  BY DEF Shared
<1>4. show_x + d = wx + c /\ show_y + k = wy + l
  BY <1>1, <1>2, <1>3
<1>5. build[Address(img3_off, show_x + d, show_y + k)] = Pixel(where, show_x + d, show_y + k, objs)
  BY DEF Drawn
<1>6. Moved(wx, wy)[Address(NewOffset(wx, wy), wx + c, wy + l)]
        = build[Address(img3_off, wx + c, wy + l)]
  BY MovedPixel
<1> QED
  BY <1>4, <1>5, <1>6, Zenon

(* Lines drawn where the windows share nothing complete the room.           *)
LEMMA HorizScene ==
  ASSUME NEW mem, NEW off \in Int, NEW wx, NEW wy, Fits(off, wx, wy),
         where \in Rooms, InRoom(where, wx, wy), NEW objs,
         NEW lines, lines \subseteq Lines,
         \A c \in Columns, l \in Lines :
           l \in lines \/ mem[Address(off, wx + c, wy + l)] = Pixel(where, wx + c, wy + l, objs)
  PROVE  Drawn(DrawHoriz(mem, off, objs, wx, wy, lines), off, where, wx, wy, objs)
<1>1. SUFFICES ASSUME NEW c \in Columns, NEW l \in Lines
               PROVE  DrawHoriz(mem, off, objs, wx, wy, lines)[Address(off, wx + c, wy + l)]
                        = Pixel(where, wx + c, wy + l, objs)
  BY DEF Drawn
<1>2. /\ wx \in Nat /\ wy \in Nat
      /\ wx + c \in 0 .. Width[where] - 1 /\ wy + l \in 0 .. Height[where] - 1
  BY InPhoto
<1>3. DrawHoriz(mem, off, objs, wx, wy, lines)[Address(off, wx + c, wy + l)]
        = IF l \in lines THEN HorizLine(objs, wx, wy + l)[c]
          ELSE mem[Address(off, wx + c, wy + l)]
  BY <1>2, DrawnHoriz
<1>4. HorizLine(objs, wx, wy + l)[c] = Pixel(where, wx + c, wy + l, objs)
  BY <1>2, HorizPixel
<1>5. l \in lines \/ mem[Address(off, wx + c, wy + l)] = Pixel(where, wx + c, wy + l, objs)
  OBVIOUS
<1> QED
  BY <1>3, <1>4, <1>5, Zenon

(* The same of columns.                                                     *)
LEMMA VertScene ==
  ASSUME NEW mem, NEW off \in Int, NEW wx, NEW wy, Fits(off, wx, wy),
         where \in Rooms, InRoom(where, wx, wy), NEW objs,
         NEW lines, lines \subseteq Columns,
         \A c \in Columns, l \in Lines :
           c \in lines \/ mem[Address(off, wx + c, wy + l)] = Pixel(where, wx + c, wy + l, objs)
  PROVE  Drawn(DrawVert(mem, off, objs, wx, wy, lines), off, where, wx, wy, objs)
<1>1. SUFFICES ASSUME NEW c \in Columns, NEW l \in Lines
               PROVE  DrawVert(mem, off, objs, wx, wy, lines)[Address(off, wx + c, wy + l)]
                        = Pixel(where, wx + c, wy + l, objs)
  BY DEF Drawn
<1>2. /\ wx \in Nat /\ wy \in Nat
      /\ wx + c \in 0 .. Width[where] - 1 /\ wy + l \in 0 .. Height[where] - 1
  BY InPhoto
<1>3. DrawVert(mem, off, objs, wx, wy, lines)[Address(off, wx + c, wy + l)]
        = IF c \in lines THEN VertLine(objs, wx + c, wy)[l]
          ELSE mem[Address(off, wx + c, wy + l)]
  BY <1>2, DrawnVert
<1>4. VertLine(objs, wx + c, wy)[l] = Pixel(where, wx + c, wy + l, objs)
  BY <1>2, VertPixel
<1>5. c \in lines \/ mem[Address(off, wx + c, wy + l)] = Pixel(where, wx + c, wy + l, objs)
  OBVIOUS
<1> QED
  BY <1>3, <1>4, <1>5, Zenon

----------------------------------------------------------------------------
(* What the event loop keeps between entering a room and leaving it.        *)
Scene ==
  /\ InRoom(where, show_x, show_y)
  /\ Drawn(build, img3_off, where, show_x, show_y, objects)

(* A step by which the window moves no further than it may.                 *)
Scrolls ==
  /\ show_x' \in show_x - 3 * Speed .. show_x + 3 * Speed
  /\ show_y' \in show_y - 3 * Speed .. show_y + 3 * Speed
  /\ show_x' = show_x \/ show_y' = show_y

(* A move draws the lines that it uncovers, and keeps the others.           *)
LEMMA MoveHorizScene ==
  ASSUME IInv, Scene, NEW wx, NEW wy, InRoom(where, wx, wy),
         NEW lines, lines \subseteq Lines,
         \A c \in Columns, l \in Lines : l \in lines \/ Shared(wx, wy, show_x, show_y, c, l),
         SetWindow(wx, wy), UNCHANGED <<where, objects>>,
         build' = DrawHoriz(Moved(wx, wy), NewOffset(wx, wy), objects, wx, wy, lines)
  PROVE  Scene'
<1>1. wx \in Int /\ wy \in Int /\ where \in Rooms
  BY WindowAssumption DEF InRoom, IInv
<1>2. NewOffset(wx, wy) \in Int /\ Fits(NewOffset(wx, wy), wx, wy)
  BY <1>1, Repositioned
<1>3. ASSUME NEW c \in Columns, NEW l \in Lines
      PROVE  \/ l \in lines
             \/ Moved(wx, wy)[Address(NewOffset(wx, wy), wx + c, wy + l)]
                  = Pixel(where, wx + c, wy + l, objects)
  <2>1. CASE l \in lines
    BY <2>1
  <2>2. CASE Shared(wx, wy, show_x, show_y, c, l)
    BY <2>2, SharedPixel DEF Scene
  <2> QED
    BY <2>1, <2>2
<1>4. Drawn(DrawHoriz(Moved(wx, wy), NewOffset(wx, wy), objects, wx, wy, lines),
            NewOffset(wx, wy), where, wx, wy, objects)
  BY <1>1, <1>2, <1>3, HorizScene
<1>5. /\ show_x' = wx /\ show_y' = wy /\ img3_off' = NewOffset(wx, wy)
      /\ where' = where /\ objects' = objects
  BY DEF SetWindow
<1>6. Drawn(build', img3_off', where', show_x', show_y', objects')
  BY <1>4, <1>5, Zenon
<1> QED
  BY <1>5, <1>6 DEF Scene, InRoom, Drawn

LEMMA MoveVertScene ==
  ASSUME IInv, Scene, NEW wx, NEW wy, InRoom(where, wx, wy),
         NEW lines, lines \subseteq Columns,
         \A c \in Columns, l \in Lines : c \in lines \/ Shared(wx, wy, show_x, show_y, c, l),
         SetWindow(wx, wy), UNCHANGED <<where, objects>>,
         build' = DrawVert(Moved(wx, wy), NewOffset(wx, wy), objects, wx, wy, lines)
  PROVE  Scene'
<1>1. wx \in Int /\ wy \in Int /\ where \in Rooms
  BY WindowAssumption DEF InRoom, IInv
<1>2. NewOffset(wx, wy) \in Int /\ Fits(NewOffset(wx, wy), wx, wy)
  BY <1>1, Repositioned
<1>3. ASSUME NEW c \in Columns, NEW l \in Lines
      PROVE  \/ c \in lines
             \/ Moved(wx, wy)[Address(NewOffset(wx, wy), wx + c, wy + l)]
                  = Pixel(where, wx + c, wy + l, objects)
  <2>1. CASE c \in lines
    BY <2>1
  <2>2. CASE Shared(wx, wy, show_x, show_y, c, l)
    BY <2>2, SharedPixel DEF Scene
  <2> QED
    BY <2>1, <2>2
<1>4. Drawn(DrawVert(Moved(wx, wy), NewOffset(wx, wy), objects, wx, wy, lines),
            NewOffset(wx, wy), where, wx, wy, objects)
  BY <1>1, <1>2, <1>3, VertScene
<1>5. /\ show_x' = wx /\ show_y' = wy /\ img3_off' = NewOffset(wx, wy)
      /\ where' = where /\ objects' = objects
  BY DEF SetWindow
<1>6. Drawn(build', img3_off', where', show_x', show_y', objects')
  BY <1>4, <1>5, Zenon
<1> QED
  BY <1>5, <1>6 DEF Scene, InRoom, Drawn

(* The four moves; no more lines are uncovered than the screen has.         *)
LEMMA MoveDownScene ==
  ASSUME Slow, IInv, Scene, MoveDown, UNCHANGED player
  PROVE  Scene' /\ Scrolls
<1> DEFINE delta == Smaller(y_speed, show_y)
           wy == show_y - delta
           lines == 0 .. delta - 1
<1>0. InRoom(where, show_x, show_y)
  BY DEF Scene
<1>1. delta \in 0 .. YDim /\ delta <= show_y /\ delta <= 3 * Speed
  BY <1>0, BeforeMove DEF Smaller
<1>2. /\ SetWindow(show_x, wy)
      /\ build' = DrawHoriz(Moved(show_x, wy), NewOffset(show_x, wy), objects, show_x, wy, lines)
  BY DEF MoveDown
<1> HIDE DEF delta
<1>3. InRoom(where, show_x, wy) /\ lines \subseteq Lines
  BY <1>0, <1>1, BeforeMove DEF InRoom, Lines
<1>4. ASSUME NEW c \in Columns, NEW l \in Lines
      PROVE  l \in lines \/ Shared(show_x, wy, show_x, show_y, c, l)
  BY <1>0, <1>1, BeforeMove DEF Shared, Columns, Lines
<1>5. Scrolls
  <2>1. show_x' = show_x /\ show_y' = show_y - delta
    BY <1>2 DEF SetWindow
  <2>2. show_x \in Int /\ show_y \in Int /\ Speed \in Nat
    BY <1>0, BeforeMove
  <2> QED
    BY ONLY <1>0, <1>1, <2>1, <2>2, BeforeMove, Slow, IInv DEF Scrolls
<1> HIDE DEF wy, lines
<1>6. Scene'
  BY <1>2, <1>3, <1>4, MoveHorizScene DEF player
<1> QED
  BY <1>5, <1>6

LEMMA MoveUpScene ==
  ASSUME Slow, IInv, Scene, MoveUp, UNCHANGED player
  PROVE  Scene' /\ Scrolls
<1> DEFINE delta == Smaller(y_speed, Height[where] - YDim - show_y)
           wy == show_y + delta
           lines == YDim - delta .. YDim - 1
<1>0. InRoom(where, show_x, show_y)
  BY DEF Scene
<1>1. delta \in 0 .. YDim /\ delta <= Height[where] - YDim - show_y /\ delta <= 3 * Speed
  BY <1>0, BeforeMove DEF Smaller
<1>2. /\ SetWindow(show_x, wy)
      /\ build' = DrawHoriz(Moved(show_x, wy), NewOffset(show_x, wy), objects, show_x, wy, lines)
  BY DEF MoveUp
<1> HIDE DEF delta
<1>3. InRoom(where, show_x, wy) /\ lines \subseteq Lines
  BY <1>0, <1>1, BeforeMove DEF InRoom, Lines
<1>4. ASSUME NEW c \in Columns, NEW l \in Lines
      PROVE  l \in lines \/ Shared(show_x, wy, show_x, show_y, c, l)
  BY <1>0, <1>1, BeforeMove DEF Shared, Columns, Lines
<1>5. Scrolls
  <2>1. show_x' = show_x /\ show_y' = show_y + delta
    BY <1>2 DEF SetWindow
  <2>2. show_x \in Int /\ show_y \in Int /\ Speed \in Nat
    BY <1>0, BeforeMove
  <2> QED
    BY ONLY <1>0, <1>1, <2>1, <2>2, BeforeMove, Slow, IInv DEF Scrolls
<1> HIDE DEF wy, lines
<1>6. Scene'
  BY <1>2, <1>3, <1>4, MoveHorizScene DEF player
<1> QED
  BY <1>5, <1>6

LEMMA MoveLeftScene ==
  ASSUME Slow, IInv, Scene, MoveLeft, UNCHANGED player
  PROVE  Scene' /\ Scrolls
<1> DEFINE delta == Smaller(x_speed, Width[where] - XDim - show_x)
           wx == show_x + delta
           lines == XDim - delta .. XDim - 1
<1>0. InRoom(where, show_x, show_y)
  BY DEF Scene
<1>1. delta \in 0 .. XDim /\ delta <= Width[where] - XDim - show_x /\ delta <= 3 * Speed
  BY <1>0, BeforeMove DEF Smaller
<1>2. /\ SetWindow(wx, show_y)
      /\ build' = DrawVert(Moved(wx, show_y), NewOffset(wx, show_y), objects, wx, show_y, lines)
  BY DEF MoveLeft
<1> HIDE DEF delta
<1>3. InRoom(where, wx, show_y) /\ lines \subseteq Columns
  BY <1>0, <1>1, BeforeMove DEF InRoom, Columns
<1>4. ASSUME NEW c \in Columns, NEW l \in Lines
      PROVE  c \in lines \/ Shared(wx, show_y, show_x, show_y, c, l)
  BY <1>0, <1>1, BeforeMove DEF Shared, Columns, Lines
<1>5. Scrolls
  <2>1. show_x' = show_x + delta /\ show_y' = show_y
    BY <1>2 DEF SetWindow
  <2>2. show_x \in Int /\ show_y \in Int /\ Speed \in Nat
    BY <1>0, BeforeMove
  <2> QED
    BY ONLY <1>0, <1>1, <2>1, <2>2, BeforeMove, Slow, IInv DEF Scrolls
<1> HIDE DEF wx, lines
<1>6. Scene'
  BY <1>2, <1>3, <1>4, MoveVertScene DEF player
<1> QED
  BY <1>5, <1>6

LEMMA MoveRightScene ==
  ASSUME Slow, IInv, Scene, MoveRight, UNCHANGED player
  PROVE  Scene' /\ Scrolls
<1> DEFINE delta == Smaller(x_speed, show_x)
           wx == show_x - delta
           lines == 0 .. delta - 1
<1>0. InRoom(where, show_x, show_y)
  BY DEF Scene
<1>1. delta \in 0 .. XDim /\ delta <= show_x /\ delta <= 3 * Speed
  BY <1>0, BeforeMove DEF Smaller
<1>2. /\ SetWindow(wx, show_y)
      /\ build' = DrawVert(Moved(wx, show_y), NewOffset(wx, show_y), objects, wx, show_y, lines)
  BY DEF MoveRight
<1> HIDE DEF delta
<1>3. InRoom(where, wx, show_y) /\ lines \subseteq Columns
  BY <1>0, <1>1, BeforeMove DEF InRoom, Columns
<1>4. ASSUME NEW c \in Columns, NEW l \in Lines
      PROVE  c \in lines \/ Shared(wx, show_y, show_x, show_y, c, l)
  BY <1>0, <1>1, BeforeMove DEF Shared, Columns, Lines
<1>5. Scrolls
  <2>1. show_x' = show_x - delta /\ show_y' = show_y
    BY <1>2 DEF SetWindow
  <2>2. show_x \in Int /\ show_y \in Int /\ Speed \in Nat
    BY <1>0, BeforeMove
  <2> QED
    BY ONLY <1>0, <1>1, <2>1, <2>2, BeforeMove, Slow, IInv DEF Scrolls
<1> HIDE DEF wx, lines
<1>6. Scene'
  BY <1>2, <1>3, <1>4, MoveVertScene DEF player
<1> QED
  BY <1>5, <1>6

(* The whole window is drawn on entry, and again after objects moved.       *)
LEMMA AllDrawn ==
  ASSUME NEW mem, NEW off \in Int, NEW wx, NEW wy, Fits(off, wx, wy),
         where \in Rooms, InRoom(where, wx, wy), NEW objs
  PROVE  Drawn(DrawHoriz(mem, off, objs, wx, wy, 0 .. YDim - 1), off, where, wx, wy, objs)
<1>1. 0 .. YDim - 1 = Lines
  BY DEF Lines
<1>2. Drawn(DrawHoriz(mem, off, objs, wx, wy, Lines), off, where, wx, wy, objs)
  BY HorizScene
<1> QED
  BY <1>1, <1>2, Zenon

(* Entry draws the room from its corner.                                    *)
LEMMA EnterScene ==
  ASSUME IInv, EnterRoom
  PROVE  Scene' /\ show_x' = 0 /\ show_y' = 0
<1>1. where \in Rooms
  BY DEF IInv
<1>2. InRoom(where, 0, 0)
  BY <1>1, WindowAssumption DEF InRoom
<1>3. NewOffset(0, 0) \in Int /\ Fits(NewOffset(0, 0), 0, 0)
  BY Repositioned
<1>4. Drawn(DrawHoriz(Moved(0, 0), NewOffset(0, 0), objects, 0, 0, 0 .. YDim - 1),
            NewOffset(0, 0), where, 0, 0, objects)
  BY <1>1, <1>2, <1>3, AllDrawn
<1>5. /\ show_x' = 0 /\ show_y' = 0 /\ img3_off' = NewOffset(0, 0)
      /\ where' = where /\ objects' = objects
      /\ build' = DrawHoriz(Moved(0, 0), NewOffset(0, 0), objects, 0, 0, 0 .. YDim - 1)
  BY DEF EnterRoom, SetWindow, player
<1>6. Drawn(build', img3_off', where', show_x', show_y', objects')
  BY <1>4, <1>5, Zenon
<1> QED
  BY <1>2, <1>5, <1>6 DEF Scene, InRoom, Drawn

(* redraw_room draws it where the window is.                                *)
LEMMA RedrawScene ==
  ASSUME IInv, Scene, NEW objs, RedrawRoom(objs)
  PROVE  Scene'
<1>1. /\ where \in Rooms /\ img3_off \in Int /\ Fits(img3_off, show_x, show_y)
      /\ InRoom(where, show_x, show_y)
  BY DEF IInv, Scene
<1>2. Drawn(DrawHoriz(build, img3_off, objs, show_x, show_y, 0 .. YDim - 1),
            img3_off, where, show_x, show_y, objs)
  BY <1>1, AllDrawn
<1>3. /\ show_x' = show_x /\ show_y' = show_y /\ img3_off' = img3_off
      /\ where' = where /\ objects' = objs
      /\ build' = DrawHoriz(build, img3_off, objs, show_x, show_y, 0 .. YDim - 1)
  BY DEF RedrawRoom
<1>4. Drawn(build', img3_off', where', show_x', show_y', objects')
  BY <1>2, <1>3, Zenon
<1> QED
  BY <1>1, <1>3, <1>4 DEF Scene, InRoom, Drawn

----------------------------------------------------------------------------
(* A plane of a page holds the window's pixels of that plane.               *)
Uploaded(shot, mem, off, wx, wy, i) ==
  \A b \in Bytes : shot[i][b] = mem[PlaneAt(off, wx, wy, i) + b]

(* Plane i of the page that target_img addresses is the window's.           *)
OnPage(i) == Uploaded(vram[target], build, img3_off, show_x, show_y, i)

(* The two pages and the copying, step by step.                             *)
VideoInv ==
  /\ pc \in {"enter", "turn", "copy", "flip", "wait"}
  /\ plane \in Planes /\ (pc # "copy" => plane = 0)
  /\ target \in {0, 1} /\ start \in {-1, 0, 1}
  /\ DOMAIN vram = {0, 1} /\ \A p \in {0, 1} : DOMAIN vram[p] = Planes
  /\ pc \in {"copy", "flip"} => start # target
  /\ pc \in {"enter", "turn"} => start \in {-1, target}
  /\ pc = "wait" => start = target
  /\ pc = "copy" => \A i \in Planes : i < plane => OnPage(i)
  /\ pc \in {"flip", "wait"} => \A i \in Planes : OnPage(i)

WindowInv == IInv /\ VideoInv /\ (pc # "enter" => Scene)

(* The page that was copied is the room's picture.                          *)
LEMMA PagePixel ==
  ASSUME WindowInv, pc \in {"flip", "wait"}, NEW c \in Columns, NEW l \in Lines
  PROVE  vram[target][c % 4][c \div 4 + l * XWidth] = Pixel(where, show_x + c, show_y + l, objects)
<1>1. img3_off \in Int /\ show_x \in Int /\ show_y \in Int /\ Scene
  BY DEF WindowInv, IInv
<1>2. build[Address(img3_off, show_x + c, show_y + l)]
        = Pixel(where, show_x + c, show_y + l, objects)
  BY <1>1 DEF Scene, Drawn
<1>3. /\ c % 4 \in Planes /\ c \div 4 + l * XWidth \in Bytes
      /\ Address(img3_off, show_x + c, show_y + l)
           = PlaneAt(img3_off, show_x, show_y, c % 4) + (c \div 4 + l * XWidth)
  BY <1>1, AddressOf
<1>4. OnPage(c % 4)
  BY <1>3 DEF WindowInv, VideoInv
<1>5. vram[target][c % 4][c \div 4 + l * XWidth]
        = build[PlaneAt(img3_off, show_x, show_y, c % 4) + (c \div 4 + l * XWidth)]
  BY <1>3, <1>4, Zenon DEF OnPage, Uploaded
<1> QED
  BY <1>2, <1>3, <1>5, Zenon

(* The screen that a page of the video memory makes.                        *)
PageOn(shot) == [p \in Screen |-> shot[p[1] % 4][p[1] \div 4 + p[2] * XWidth]]

(* The page that was copied is the picture that Camera shows.               *)
LEMMA PageIsPicture ==
  ASSUME WindowInv, pc \in {"flip", "wait"}
  PROVE  PageOn(vram[target]) = Look!Picture
<1>1. ASSUME NEW p \in Screen
      PROVE  vram[target][p[1] % 4][p[1] \div 4 + p[2] * XWidth]
               = Pixel(where, show_x + p[1], show_y + p[2], objects)
  <2>1. p[1] \in Columns /\ p[2] \in Lines
    BY DEF Screen, Columns, Lines
  <2> QED
    BY <2>1, PagePixel
<1>2. Look!Picture = [p \in Screen |-> Pixel(where, show_x + p[1], show_y + p[2], objects)]
  BY DEF Look!Picture, Look!Screen, Screen, Entered
<1> QED
  BY <1>1, <1>2 DEF PageOn

LEMMA ShownIs ==
  /\ start = -1 => Shown = [p \in Screen |-> 0]
  /\ start # -1 => Shown = PageOn(vram[start])
BY DEF Shown, PageOn

(* While the game waits, the VGA shows that page.                           *)
LEMMA ShownPicture ==
  ASSUME WindowInv
  PROVE  UpToDate
<1>1. CASE pc = "wait"
  <2>1. start = target /\ start # -1
    BY <1>1 DEF WindowInv, VideoInv
  <2>2. Shown = PageOn(vram[target])
    BY <2>1, ShownIs
  <2>3. PageOn(vram[target]) = Look!Picture
    BY <1>1, PageIsPicture
  <2> QED
    BY <2>2, <2>3, Zenon DEF UpToDate
<1> QED
  BY <1>1 DEF UpToDate

(* show_screen copies each plane from where it begins.                      *)
LEMMA StartAt ==
  ASSUME NEW i \in Planes
  PROVE  PlaneStart(i) = PlaneAt(img3_off, show_x, show_y, i)
BY DEF PlaneStart, PlaneAt, Slot, Carry

----------------------------------------------------------------------------
(* What a step is to Camera.                                                *)
Looks ==
  \/ Look!Next
  \/ UNCHANGED <<where, Entered(show_x), Entered(show_y), objects, Shown>>

(* A step that keeps the invariant, but for IInv, and is one of Camera's.   *)
Proper == VideoInv' /\ (pc' # "enter" => Scene') /\ Looks

LEMMA SceneStays ==
  ASSUME Scene, UNCHANGED <<where, objects, view>> PROVE Scene'
BY DEF Scene, InRoom, Drawn, view

LEMMA ShownStays == ASSUME UNCHANGED <<vram, start>> PROVE Shown' = Shown
BY DEF Shown

(* The commands and the drawing leave the pages alone.                      *)
LEMMA VideoStays ==
  ASSUME VideoInv, UNCHANGED video,
         \/ pc = "enter" /\ pc' = "turn"
         \/ pc = "wait" /\ pc' \in {"turn", "enter"}
  PROVE  VideoInv'
BY DEF VideoInv, video

(* One lemma for each step of the event loop.                               *)
LEMMA EnterProper == ASSUME WindowInv, EnterRoom PROVE Proper
<1>1. Scene' /\ show_x' = 0 /\ show_y' = 0
  BY EnterScene DEF WindowInv
<1>2. VideoInv'
  BY VideoStays DEF EnterRoom, WindowInv
<1>3. Shown' = Shown
  BY ShownStays DEF EnterRoom, video
<1>4. Entered(show_x)' = Entered(show_x) /\ Entered(show_y)' = Entered(show_y)
  BY <1>1 DEF EnterRoom, Entered
<1>5. Looks
  BY <1>3, <1>4 DEF Looks, EnterRoom, player
<1> QED
  BY <1>1, <1>2, <1>5 DEF Proper

LEMMA TurnProper == ASSUME WindowInv, TurnPage PROVE Proper
<1>1. Scene'
  BY SceneStays DEF TurnPage, player, WindowInv
<1>2. VideoInv'
  <2>1. /\ pc = "turn" /\ pc' = "copy" /\ target' = 1 - target
        /\ vram' = vram /\ plane' = plane /\ start' = start
    BY DEF TurnPage, OtherPage
  <2>2. plane = 0 /\ target \in {0, 1} /\ start \in {-1, target}
    BY <2>1 DEF WindowInv, VideoInv
  <2>3. \A i \in Planes : ~(i < plane')
    BY <2>1, <2>2 DEF Planes
  <2>4. plane' \in Planes /\ target' \in {0, 1} /\ start' # target'
    BY <2>1, <2>2 DEF Planes
  <2> QED
    BY <2>1, <2>2, <2>3, <2>4 DEF WindowInv, VideoInv
<1>3. Shown' = Shown
  BY ShownStays DEF TurnPage
<1>4. Entered(show_x)' = Entered(show_x) /\ Entered(show_y)' = Entered(show_y)
  BY DEF TurnPage, view, Entered
<1>5. Looks
  BY <1>3, <1>4 DEF Looks, TurnPage, player
<1> QED
  BY <1>1, <1>2, <1>5 DEF Proper

LEMMA CopyProper == ASSUME WindowInv, CopyImage PROVE Proper
<1>1. Scene'
  BY SceneStays DEF CopyImage, player, WindowInv
<1> DEFINE copy == [b \in Bytes |-> build[PlaneStart(plane) + b]]
<1>2. /\ vram' = [vram EXCEPT ![target][plane] = copy]
      /\ plane' = (plane + 1) % 4 /\ pc' = IF plane' = 0 THEN "flip" ELSE "copy"
      /\ pc = "copy" /\ target' = target /\ start' = start /\ view' = view
  BY DEF CopyImage
<1>3. /\ plane \in Planes /\ target \in {0, 1} /\ start \in {-1, 0, 1} /\ start # target
      /\ DOMAIN vram = {0, 1} /\ DOMAIN vram[0] = Planes /\ DOMAIN vram[1] = Planes
      /\ \A i \in Planes : i < plane => OnPage(i)
  BY <1>2 DEF WindowInv, VideoInv
<1>4. /\ DOMAIN vram' = {0, 1} /\ DOMAIN vram'[0] = Planes /\ DOMAIN vram'[1] = Planes
      /\ vram'[target][plane] = copy
      /\ \A i \in Planes : i # plane => vram'[target][i] = vram[target][i]
      /\ \A p \in {0, 1} : p # target => vram'[p] = vram[p]
  BY <1>2, <1>3
<1>5. Uploaded(vram'[target], build, img3_off, show_x, show_y, plane)
  BY <1>3, <1>4, StartAt DEF Uploaded
<1> HIDE DEF copy
<1>6. ASSUME NEW i \in Planes, i < plane
      PROVE  Uploaded(vram'[target], build, img3_off, show_x, show_y, i)
  <2>1. OnPage(i) /\ i # plane
    BY <1>3, <1>6 DEF Planes
  <2> QED
    BY <1>4, <2>1 DEF OnPage, Uploaded
<1>7. ASSUME NEW i \in Planes, i <= plane PROVE OnPage(i)'
  <2>1. Uploaded(vram'[target], build, img3_off, show_x, show_y, i)
    BY <1>3, <1>5, <1>6, <1>7 DEF Planes
  <2> QED
    BY <1>2, <2>1 DEF OnPage, view
<1>8. plane' \in Planes /\ (pc' = "copy" => plane' = plane + 1) /\ (pc' = "flip" => plane = 3)
      /\ pc' \in {"copy", "flip"} /\ (pc' = "flip" => plane' = 0)
  BY <1>2, <1>3 DEF Planes
<1>9. VideoInv'
  <2>1. pc' = "copy" => \A i \in Planes : i < plane' => OnPage(i)'
    BY <1>3, <1>7, <1>8 DEF Planes
  <2>2. pc' = "flip" => \A i \in Planes : OnPage(i)'
    BY <1>3, <1>7, <1>8 DEF Planes
  <2> HIDE DEF OnPage
  <2> QED
    BY <1>2, <1>3, <1>4, <1>8, <2>1, <2>2 DEF VideoInv
<1>10. Shown' = Shown
  <2>1. start # -1 => vram'[start] = vram[start]
    BY <1>3, <1>4
  <2> QED
    BY <1>2, <2>1 DEF Shown
<1>11. Entered(show_x)' = Entered(show_x) /\ Entered(show_y)' = Entered(show_y)
  BY <1>2, <1>8 DEF view, Entered
<1>12. Looks
  BY <1>10, <1>11 DEF Looks, CopyImage, player
<1> QED
  BY <1>1, <1>9, <1>12 DEF Proper

LEMMA FlipProper == ASSUME WindowInv, Flip PROVE Proper
<1>1. Scene'
  BY SceneStays DEF Flip, player, WindowInv
<1>2. VideoInv'
  BY DEF Flip, player, view, WindowInv, VideoInv, OnPage
<1>3. Shown' = PageOn(vram[target])
  BY DEF Flip, WindowInv, VideoInv, Shown, PageOn
<1>4. PageOn(vram[target]) = Look!Picture
  BY PageIsPicture DEF Flip
<1>5. Entered(show_x)' = Entered(show_x) /\ Entered(show_y)' = Entered(show_y)
  BY DEF Flip, view, Entered
<1>6. Look!Show
  BY <1>3, <1>4, <1>5, Zenon DEF Look!Show, Flip, player
<1> QED
  BY <1>1, <1>2, <1>6 DEF Proper, Looks, Look!Next

LEMMA MoveProper == ASSUME Slow, WindowInv, MovePhoto PROVE Proper
<1>1. Scene' /\ Scrolls
  <2>1. IInv /\ Scene /\ UNCHANGED player
    BY DEF MovePhoto, Command, WindowInv
  <2>2. MoveDown \/ MoveUp \/ MoveLeft \/ MoveRight
    BY DEF MovePhoto
  <2> QED
    BY <2>1, <2>2, MoveDownScene, MoveUpScene, MoveLeftScene, MoveRightScene
<1>2. VideoInv'
  BY VideoStays DEF MovePhoto, Command, WindowInv
<1>3. Shown' = Shown
  BY ShownStays DEF MovePhoto, Command, video
<1>4. /\ Entered(show_x) = show_x /\ Entered(show_y) = show_y
      /\ Entered(show_x)' = show_x' /\ Entered(show_y)' = show_y'
      /\ where' = where /\ objects' = objects
  BY DEF MovePhoto, Command, Entered, player
<1>5. show_x' \in 0 .. Width[where] - XDim /\ show_y' \in 0 .. Height[where] - YDim
  BY <1>1, <1>4 DEF Scene, InRoom
<1>6. Look!Scroll
  BY <1>1, <1>3, <1>4, <1>5, Zenon DEF Look!Scroll, Scrolls
<1> QED
  BY <1>1, <1>2, <1>6 DEF Proper, Looks, Look!Next

LEMMA HandleProper ==
  ASSUME WindowInv, Command, NEW objs, RedrawRoom(objs) PROVE Proper
<1>1. Scene'
  BY RedrawScene DEF Command, WindowInv
<1>2. VideoInv'
  BY VideoStays DEF Command, WindowInv
<1>3. Shown' = Shown
  BY ShownStays DEF Command, video
<1>4. Entered(show_x)' = Entered(show_x) /\ Entered(show_y)' = Entered(show_y)
  BY DEF Command, RedrawRoom, Entered
<1>5. Look!Handle
  BY <1>3, <1>4 DEF Look!Handle, RedrawRoom
<1> QED
  BY <1>1, <1>2, <1>5 DEF Proper, Looks, Look!Next

LEMMA ChangeProper == ASSUME WindowInv, ChangeRoom PROVE Proper
<1>1. pc' = "enter"
  BY DEF ChangeRoom
<1>2. VideoInv'
  BY VideoStays DEF ChangeRoom, WindowInv
<1>3. Shown' = Shown
  BY ShownStays DEF ChangeRoom, video
<1>4. Entered(show_x)' = 0 /\ Entered(show_y)' = 0
  BY DEF ChangeRoom, Entered
<1>5. Look!Enter
  BY <1>3, <1>4 DEF Look!Enter, ChangeRoom
<1> QED
  BY <1>1, <1>2, <1>5 DEF Proper, Looks, Look!Next

LEMMA StillProper == ASSUME WindowInv, UNCHANGED vars PROVE Proper
<1>1. pc # "enter" => Scene'
  BY SceneStays DEF vars, view, WindowInv
<1>2. VideoInv'
  BY DEF vars, WindowInv, VideoInv, OnPage
<1>3. Shown' = Shown
  BY ShownStays DEF vars
<1>4. Entered(show_x)' = Entered(show_x) /\ Entered(show_y)' = Entered(show_y)
  BY DEF vars, Entered
<1> QED
  BY <1>1, <1>2, <1>3, <1>4 DEF Proper, Looks, vars

LEMMA WindowStep ==
  ASSUME Slow, WindowInv, [Next]_vars PROVE WindowInv' /\ Looks
<1>1. Proper
  <2>1. ASSUME NEW o \in Objects, Get(o) PROVE Proper
    BY <2>1, HandleProper DEF Get
  <2>2. ASSUME NEW o \in Objects, NEW spot, Drop(o, spot) PROVE Proper
    BY <2>2, HandleProper DEF Drop
  <2> QED
    BY <2>1, <2>2, EnterProper, TurnProper, CopyProper, FlipProper, MoveProper, ChangeProper,
       StillProper DEF Next
<1>2. IInv'
  BY NextInv DEF WindowInv
<1> QED
  BY <1>1, <1>2 DEF Proper, WindowInv

LEMMA WindowStart == ASSUME Init PROVE WindowInv /\ Look!Init
<1>1. VideoInv
  BY DEF Init, VideoInv, Planes
<1>2. WindowInv
  BY <1>1, InitInv DEF WindowInv, Init
<1>3. Shown = [p \in Screen |-> 0]
  BY DEF Init, Shown
<1>4. Entered(show_x) = 0 /\ Entered(show_y) = 0
  BY DEF Init, Entered
<1>5. Look!Init
  BY <1>3, <1>4 DEF Look!Init, Look!Screen, Screen
<1> QED
  BY <1>2, <1>5

(* At every step of the event loop the build buffer holds the room's pixels *)
(* at the window, and each plane copied so far is on the page behind.       *)
THEOREM WindowInvariance == ASSUME Slow PROVE Spec => []WindowInv
<1>1. WindowInv /\ [Next]_vars => WindowInv'
  BY WindowStep
<1> QED
  BY WindowStart, <1>1, PTL DEF Spec

(* For every size of screen, photos, images and build buffer, every set of  *)
(* rooms and objects: while the game waits for the player, the screen shows *)
(* the room as it is.  No move, get, drop or change of room, drawn line by  *)
(* line, copied within the build buffer or not, leaves a stale pixel.       *)
THEOREM PictureUpToDate == ASSUME Slow PROVE Spec => []UpToDate
<1>1. WindowInv => UpToDate
  BY ShownPicture
<1> QED
  BY <1>1, WindowInvariance, PTL

(* The video code implements Camera: while planes are copied the VGA shows  *)
(* the other page, so the screen changes only when it turns, and then to    *)
(* the whole picture of that moment; the window moves within the photo.     *)
THEOREM WholePictures == ASSUME Slow PROVE Spec => Whole
<1>1. Init => Look!Init
  BY WindowStart
<1>2. WindowInv /\ [Next]_vars =>
        [Look!Next]_<<where, Entered(show_x), Entered(show_y), objects, Shown>>
  BY WindowStep DEF Looks
<1> QED
  BY <1>1, <1>2, WindowInvariance, PTL DEF Spec, Whole, Look!Spec

----------------------------------------------------------------------------
(* The console's views: what putc takes and returns, on the screen and      *)
(* wherever an exception's putc has left the place to write.                *)
Marks == Chars \cup {Blank}
Views == [cells : [Cells -> Marks], x : 0 .. Cols - 1, y : 0 .. Rows - 1]
Wide == [cells : [Cells -> Marks], x : Nat, y : Nat]
Texts == Seq(Chars \cup {Newline})

(* A view as a tape.                                                        *)
Flat(v) == [cells |-> v.cells, pos |-> Cols * v.y + v.x]

(* A set of naturals has a least one: what recursions are followed by.      *)
LEMMA LeastOf ==
  ASSUME NEW S \in SUBSET Nat, S # {}
  PROVE  \E i \in S : \A j \in S : i <= j
<1> DEFINE R == OpToRel(<, Nat)
<1>1. IsWellFoundedOn(R, Nat)
  BY NatLessThanWellFounded
<1>2. \A a, b \in Nat : a < b => <<a, b>> \in R
  BY DEF OpToRel
<1> HIDE DEF R
<1>3. PICK i \in S : \A j \in S : ~(<<j, i>> \in R)
  BY <1>1, WFMin
<1>4. ASSUME NEW j \in S PROVE i <= j
  <2>1. i \in Nat /\ j \in Nat /\ <<j, i>> \notin R
    BY <1>3
  <2>2. ~(j < i)
    BY <1>2, <2>1, Zenon
  <2> QED
    BY <2>1, <2>2
<1> QED
  BY <1>4

(* Rows of w cells, h of them.                                              *)
LEMMA Grid ==
  ASSUME NEW w \in Nat, NEW h \in Nat, NEW a \in 0 .. w - 1, NEW b \in 0 .. h - 1
  PROVE  /\ w * b \in Nat /\ w * h \in Nat
         /\ w * (b + 1) = w * b + w /\ w * (b - 1) = w * b - w
         /\ w * (h - 1) = w * h - w
         /\ w * b + w <= w * h
         /\ b + 1 < h => w * b + w < w * h
         /\ b > 0 => w * b >= w
         /\ (w * b + a) \div w = b
<1>1. PICK k \in Nat : h = b + 1 + k
  <2>1. h - b - 1 \in Nat /\ h = b + 1 + (h - b - 1)
    OBVIOUS
  <2> QED
    BY <2>1
<1>2. w * h = w * b + w + w * k /\ w * k \in Nat
  BY <1>1
<1>3. k > 0 => w * k > 0
  OBVIOUS
<1>4. w * b \in Nat /\ w * (b + 1) = w * b + w /\ w * (b - 1) = w * b - w
  OBVIOUS
<1>5. w * (h - 1) = w * h - w
  OBVIOUS
<1>6. b > 0 => w * b >= w
  OBVIOUS
<1>7. (w * b + a) \div w = b
  OBVIOUS
<1>8. b + 1 < h => k > 0
  BY <1>1
<1>9. w * b + w <= w * h /\ (b + 1 < h => w * b + w < w * h)
  <2>1. \A p \in Nat, q \in Nat : w * b + w <= w * b + w + q /\ (q > 0 => w * b + w < w * b + w + q)
    BY <1>4
  <2> QED
    BY <1>2, <1>3, <1>8, <1>4
<1> QED
  BY <1>2, <1>4, <1>5, <1>6, <1>7, <1>9, <1>1

(* The sizes of the screen.                                                 *)
LEMMA OnScreen ==
  ASSUME NEW a \in 0 .. Cols - 1, NEW b \in 0 .. Rows - 1
  PROVE  /\ Cols * b \in Nat /\ Cols * Rows \in Nat
         /\ Cols * (b + 1) = Cols * b + Cols /\ Cols * (b - 1) = Cols * b - Cols
         /\ Cols * (Rows - 1) = Cols * Rows - Cols
         /\ Cols * b + Cols <= Cols * Rows
         /\ b + 1 < Rows => Cols * b + Cols < Cols * Rows
         /\ b > 0 => Cols * b >= Cols
         /\ (Cols * b + a) \div Cols = b
         /\ Cols * b + a \in Cells
<1>1. Cols \in Nat /\ Rows \in Nat
  BY ConsoleAssumption
<1>2. Cols * b \in Nat /\ Cols * Rows \in Nat /\ Cols * b + Cols <= Cols * Rows
  BY <1>1, Grid
<1>3. Cols * b + a \in Cells
  BY <1>1, <1>2 DEF Cells
<1> QED
  BY <1>1, <1>3, Grid

(* Scrolling a page is scrolling its tape.                                  *)
LEMMA ScrollUpIs ==
  ASSUME NEW cells \in [Cells -> Marks]
  PROVE  /\ ScrollUp(cells) \in [Cells -> Marks]
         /\ ScrollUp(cells) = [i \in 0 .. Cols * Rows - 1 |->
                                 IF i + Cols < Cols * Rows THEN cells[i + Cols] ELSE Blank]
<1>1. \A i \in Cells : i + Cols \in Cells <=> i + Cols < Cols * Rows
  <2>1. PICK n \in Int : n = Cols * Rows
    BY ConsoleAssumption
  <2> QED
    BY <2>1, ConsoleAssumption DEF Cells
<1> QED
  BY <1>1 DEF ScrollUp, Cells, Marks

(* Views and tapes by their parts, and what the operators do with the parts. *)
View(k, a, b) == [cells |-> k, x |-> a, y |-> b]
Strip(k, p) == [cells |-> k, pos |-> p]
Wrote(k, p, c) == [k EXCEPT ![p] = c]

LEMMA Parts ==
  ASSUME NEW k, NEW a, NEW b, NEW p
  PROVE  /\ View(k, a, b).cells = k /\ View(k, a, b).x = a /\ View(k, a, b).y = b
         /\ Strip(k, p).cells = k /\ Strip(k, p).pos = p
         /\ Flat(View(k, a, b)) = Strip(k, Cols * b + a)
BY DEF View, Strip, Flat

LEMMA ViewsAre ==
  /\ \A k \in [Cells -> Marks], a \in 0 .. Cols - 1, b \in 0 .. Rows - 1 : View(k, a, b) \in Views
  /\ \A v \in Views :
       /\ v = View(v.cells, v.x, v.y)
       /\ v.cells \in [Cells -> Marks] /\ v.x \in 0 .. Cols - 1 /\ v.y \in 0 .. Rows - 1
BY DEF View, Views

LEMMA WideAre ==
  /\ \A k \in [Cells -> Marks], a \in Nat, b \in Nat : View(k, a, b) \in Wide
  /\ \A v \in Wide :
       /\ v = View(v.cells, v.x, v.y)
       /\ v.cells \in [Cells -> Marks] /\ v.x \in Nat /\ v.y \in Nat
BY DEF View, Wide

LEMMA ViewsWide == Views \subseteq Wide
BY ConsoleAssumption DEF Views, Wide

LEMMA Changed ==
  ASSUME NEW k, NEW a, NEW b, NEW m
  PROVE  /\ [View(k, a, b) EXCEPT !.x = m] = View(k, m, b)
         /\ [View(k, a, b) EXCEPT !.y = m] = View(k, a, m)
         /\ [View(k, a, b) EXCEPT !.cells = m] = View(m, a, b)
<1>1. PICK r, p, q, s : r = [cells |-> k, x |-> a, y |-> b] /\ p = [cells |-> k, x |-> m, y |-> b]
                      /\ q = [cells |-> k, x |-> a, y |-> m] /\ s = [cells |-> m, x |-> a, y |-> b]
  OBVIOUS
<1>2. [r EXCEPT !.x = m] = p
  BY <1>1
<1>3. [r EXCEPT !.y = m] = q
  BY <1>1
<1>4. [r EXCEPT !.cells = m] = s
  BY <1>1
<1> QED
  BY <1>1, <1>2, <1>3, <1>4, Zenon DEF View

LEMMA NextRow ==
  ASSUME NEW k, NEW a, NEW b, NEW r, r = View(k, a, b)
  PROVE  [r EXCEPT !.x = 0, !.y = @ + 1] = View(k, 0, b + 1)
<1>1. r.y = b
  BY Parts
<1>2. [r EXCEPT !.x = 0] = View(k, 0, b)
  BY Changed
<1>3. [View(k, 0, b) EXCEPT !.y = b + 1] = View(k, 0, b + 1)
  BY Changed
<1> QED
  BY <1>1, <1>2, <1>3, Zenon

LEMMA SettleIs ==
  ASSUME NEW k, NEW a, NEW b
  PROVE  Settle(View(k, a, b)) =
           IF a = Cols /\ b < Rows - 1 THEN View(k, 0, b + 1)
           ELSE IF (a = Cols /\ b = Rows - 1) \/ b > Rows - 1
             THEN View(ScrollUp(k), 0, Rows - 1)
             ELSE View(k, a, b)
<1>1. PICK r : r = View(k, a, b)
  OBVIOUS
<1>2. r.cells = k /\ r.x = a /\ r.y = b
  BY <1>1, Parts
<1>3. [r EXCEPT !.x = 0, !.y = @ + 1] = View(k, 0, b + 1)
  BY <1>1, NextRow, Zenon
<1>4. Settle(r) = IF r.x = Cols /\ r.y < Rows - 1 THEN [r EXCEPT !.x = 0, !.y = @ + 1]
                  ELSE IF EndsScreen(r) THEN View(ScrollUp(r.cells), 0, Rows - 1) ELSE r
  BY Zenon DEF Settle, View
<1>5. EndsScreen(r) <=> ((a = Cols /\ b = Rows - 1) \/ b > Rows - 1)
  BY <1>2 DEF EndsScreen
<1>6. CASE a = Cols /\ b < Rows - 1
  BY <1>1, <1>2, <1>3, <1>4, <1>6, Zenon
<1>7. CASE ~(a = Cols /\ b < Rows - 1) /\ ((a = Cols /\ b = Rows - 1) \/ b > Rows - 1)
  <2>1. Settle(r) = View(ScrollUp(k), 0, Rows - 1)
    BY <1>2, <1>4, <1>5, <1>7, Zenon
  <2> QED
    BY <1>1, <1>7, <2>1, Zenon
<1>8. CASE ~(a = Cols /\ b < Rows - 1) /\ ~((a = Cols /\ b = Rows - 1) \/ b > Rows - 1)
  <2>1. Settle(r) = r
    BY <1>2, <1>4, <1>5, <1>8, Zenon
  <2> QED
    BY <1>1, <1>8, <2>1, Zenon
<1> QED
  BY <1>6, <1>7, <1>8, Zenon

LEMMA ForwardIs ==
  ASSUME NEW k, NEW a, NEW b, NEW c
  PROVE  Forward(View(k, a, b), c) =
           IF c = Newline THEN View(k, 0, b + 1) ELSE View(k, a + 1, b % Rows)
<1>1. PICK r : r = View(k, a, b)
  OBVIOUS
<1>2. r.x = a /\ r.y = b
  BY <1>1, Parts
<1>3. [r EXCEPT !.x = 0, !.y = @ + 1] = View(k, 0, b + 1)
  BY <1>1, NextRow, Zenon
<1>4. [r EXCEPT !.x = @ + 1, !.y = @ % Rows] = View(k, a + 1, b % Rows)
  <2>1. PICK m, n : m = a + 1 /\ n = b % Rows
    OBVIOUS
  <2>2. [View(k, a, b) EXCEPT !.x = m] = View(k, m, b)
    BY Changed
  <2>3. [View(k, m, b) EXCEPT !.y = n] = View(k, m, n)
    <3>1. PICK t, u : t = [cells |-> k, x |-> m, y |-> b] /\ u = [cells |-> k, x |-> m, y |-> n]
      OBVIOUS
    <3>2. [t EXCEPT !.y = n] = u
      BY <3>1
    <3> QED
      BY <3>1, <3>2, Zenon DEF View
  <2> QED
    BY <1>1, <1>2, <2>1, <2>2, <2>3, Zenon
<1> QED
  BY <1>1, <1>3, <1>4, Zenon DEF Forward

LEMMA StoreIs ==
  ASSUME NEW k, NEW a, NEW b, NEW c
  PROVE  Store(View(k, a, b), c) =
           IF c = Newline THEN View(k, a, b) ELSE View(Wrote(k, Cols * b + a, c), a, b)
<1>1. PICK r : r = View(k, a, b)
  OBVIOUS
<1>2. r.cells = k /\ r.x = a /\ r.y = b
  BY <1>1, Parts
<1>3. [r EXCEPT !.cells[Cols * r.y + r.x] = c] = View(Wrote(k, Cols * b + a, c), a, b)
  <2>1. PICK m : m = Wrote(k, Cols * b + a, c)
    OBVIOUS
  <2>2. [View(k, a, b) EXCEPT !.cells = m] = View(m, a, b)
    BY Changed
  <2>3. m = [k EXCEPT ![Cols * b + a] = c]
    BY <2>1 DEF Wrote
  <2> QED
    BY <1>1, <1>2, <2>1, <2>2, <2>3, Zenon
<1> QED
  BY <1>1, <1>3, Zenon DEF Store

LEMMA PutNewlineIs ==
  ASSUME NEW k, NEW a, NEW b
  PROVE  PutC(View(k, a, b), Newline) = Settle(View(k, 0, b + 1))
<1>1. Newline # Backspaced
  BY DEF Newline, Backspaced
<1>2. Store(View(k, a, b), Newline) = View(k, a, b)
  BY StoreIs
<1>3. Forward(View(k, a, b), Newline) = View(k, 0, b + 1)
  BY ForwardIs
<1>4. ASSUME NEW v PROVE PutC(v, Newline) = Settle(Forward(Store(v, Newline), Newline))
  BY <1>1 DEF PutC
<1> QED
  BY <1>2, <1>3, <1>4, Zenon

LEMMA PutCharIs ==
  ASSUME NEW k, NEW a, NEW b, NEW c, c # Backspaced, c # Newline
  PROVE  PutC(View(k, a, b), c) =
           Settle(View(Wrote(k, Cols * b + a, c), a + 1, b % Rows))
<1>1. PICK m : m = Wrote(k, Cols * b + a, c)
  OBVIOUS
<1>2. Store(View(k, a, b), c) = View(m, a, b)
  BY <1>1, StoreIs
<1>3. Forward(View(m, a, b), c) = View(m, a + 1, b % Rows)
  BY ForwardIs
<1>4. ASSUME NEW v PROVE PutC(v, c) = Settle(Forward(Store(v, c), c))
  BY DEF PutC
<1> QED
  BY <1>1, <1>2, <1>3, <1>4, Zenon

(* The tape when the characters are m and place is the next one to write.    *)
Placed(m, place) ==
  IF place < Cols * Rows THEN Strip(m, place)
  ELSE Strip([i \in 0 .. Cols * Rows - 1 |->
                IF i + Cols < Cols * Rows THEN m[i + Cols] ELSE Blank],
             Cols * Rows - Cols)

LEMMA AdvanceIs ==
  ASSUME NEW k, NEW p, NEW c
  PROVE  Abstract!Advance(Strip(k, p), c) =
           IF c = Newline THEN Placed(k, Cols * (p \div Cols + 1)) ELSE Placed(Wrote(k, p, c), p + 1)
<1> DEFINE New(r) == IF c = Newline THEN r.cells ELSE [r.cells EXCEPT ![r.pos] = c]
           Place(r) == IF c = Newline THEN Cols * (r.pos \div Cols + 1) ELSE r.pos + 1
<1>1. Strip(k, p).cells = k /\ Strip(k, p).pos = p
  BY Parts
<1>2. ASSUME NEW r PROVE Abstract!Advance(r, c) = Placed(New(r), Place(r))
  BY Zenon DEF Abstract!Advance, Abstract!Size, Abstract!Tape, Strip, Placed
<1>3. ASSUME NEW r
      PROVE  /\ c = Newline => New(r) = r.cells /\ Place(r) = Cols * (r.pos \div Cols + 1)
             /\ c # Newline => New(r) = Wrote(r.cells, r.pos, c) /\ Place(r) = r.pos + 1
  BY Zenon DEF Wrote
<1> HIDE DEF New, Place
<1> QED
  BY <1>1, <1>2, <1>3, Zenon

(* A character written on a view is one written on its tape.                *)
LEMMA PutCView ==
  ASSUME NEW v \in Views, NEW c \in Chars \cup {Newline}
  PROVE  PutC(v, c) \in Views /\ Flat(PutC(v, c)) = Abstract!Advance(Flat(v), c)
<1>1. PICK k \in [Cells -> Marks], a \in 0 .. Cols - 1, b \in 0 .. Rows - 1 : v = View(k, a, b)
  BY ViewsAre
<1>2. PICK row \in Nat, size \in Nat :
        /\ row = Cols * b /\ size = Cols * Rows
        /\ Cols * (b + 1) = row + Cols /\ Cols * (Rows - 1) = size - Cols
        /\ row + Cols <= size /\ (b + 1 < Rows => row + Cols < size)
        /\ (row + a) \div Cols = b /\ row + a \in Cells
  BY OnScreen
<1>3. Cols \in Nat /\ Cols >= 2 /\ Rows \in Nat /\ Rows > 0
  BY ConsoleAssumption
<1>4. c # Backspaced /\ (c # Newline => c \in Chars)
  BY ConsoleAssumption DEF Newline, Backspaced
<1>5. Flat(v) = Strip(k, row + a)
  BY <1>1, <1>2, Parts
<1> DEFINE Scrolled(m) == Strip(ScrollUp(m), size - Cols)
<1>6. ASSUME NEW m \in [Cells -> Marks]
      PROVE  /\ ScrollUp(m) =
                  [i \in 0 .. size - 1 |-> IF i + Cols < size THEN m[i + Cols] ELSE Blank]
             /\ View(ScrollUp(m), 0, Rows - 1) \in Views
             /\ Flat(View(ScrollUp(m), 0, Rows - 1)) = Scrolled(m)
  <2>1. ScrollUp(m) \in [Cells -> Marks]
    BY ScrollUpIs
  <2>2. ScrollUp(m) = [i \in 0 .. size - 1 |-> IF i + Cols < size THEN m[i + Cols] ELSE Blank]
    BY <1>2, ScrollUpIs
  <2>3. 0 \in 0 .. Cols - 1 /\ Rows - 1 \in 0 .. Rows - 1
    BY <1>3
  <2>4. View(ScrollUp(m), 0, Rows - 1) \in Views
    BY <2>1, <2>3, ViewsAre
  <2>5. Flat(View(ScrollUp(m), 0, Rows - 1)) = Strip(ScrollUp(m), Cols * (Rows - 1) + 0)
    BY Parts
  <2>6. Cols * (Rows - 1) + 0 = size - Cols
    BY <1>2, <1>3
  <2> QED
    BY <2>2, <2>4, <2>5, <2>6, Zenon
<1>7. CASE c = Newline
  <2>1. PutC(v, c) = Settle(View(k, 0, b + 1))
    BY <1>1, <1>4, <1>7, PutNewlineIs
  <2>2. Abstract!Advance(Flat(v), c) =
          IF row + Cols < size THEN Strip(k, row + Cols) ELSE Scrolled(k)
    <3>1. Cols * ((row + a) \div Cols + 1) = row + Cols
      BY <1>2
    <3>2. Abstract!Advance(Strip(k, row + a), c) = Placed(k, row + Cols)
      BY <1>7, <3>1, AdvanceIs, Zenon
    <3> QED
      BY <1>2, <1>5, <1>6, <3>2, Zenon DEF Placed
  <2>3. CASE b + 1 < Rows
    <3>1. Settle(View(k, 0, b + 1)) = View(k, 0, b + 1)
      <4>1. 0 # Cols /\ ~(b + 1 > Rows - 1)
        BY <1>3, <2>3
      <4> QED
        BY <4>1, SettleIs, Zenon
    <3>2. 0 \in 0 .. Cols - 1 /\ b + 1 \in 0 .. Rows - 1
      BY <1>3, <2>3
    <3>3. View(k, 0, b + 1) \in Views
      BY <3>2, ViewsAre
    <3>4. Flat(View(k, 0, b + 1)) = Strip(k, Cols * (b + 1) + 0)
      BY Parts
    <3>5. Cols * (b + 1) + 0 = row + Cols
      BY <1>2, <1>3
    <3> QED
      BY <1>2, <2>1, <2>2, <2>3, <3>1, <3>3, <3>4, <3>5, Zenon
  <2>4. CASE ~(b + 1 < Rows)
    <3>1. Settle(View(k, 0, b + 1)) = View(ScrollUp(k), 0, Rows - 1)
      <4>1. 0 # Cols /\ b + 1 > Rows - 1
        BY <1>3, <2>4
      <4> QED
        BY <4>1, SettleIs, Zenon
    <3>2. ~(row + Cols < size)
      <4>1. b + 1 = Rows
        BY <1>3, <2>4
      <4> QED
        BY <1>2, <1>3, <4>1
    <3> QED
      BY <1>6, <2>1, <2>2, <3>1, <3>2, Zenon
  <2> QED
    BY <2>3, <2>4
<1>8. CASE c # Newline
  <2>1. PICK m \in [Cells -> Marks] : m = Wrote(k, row + a, c)
    BY <1>2, <1>4, <1>8 DEF Marks, Wrote
  <2>2. PutC(v, c) = Settle(View(m, a + 1, b))
    <3>1. PutC(View(k, a, b), c) = Settle(View(Wrote(k, Cols * b + a, c), a + 1, b % Rows))
      BY <1>4, <1>8, PutCharIs
    <3>2. b % Rows = b
      BY <1>3
    <3> QED
      BY <1>1, <1>2, <2>1, <3>1, <3>2, Zenon
  <2>3. Abstract!Advance(Flat(v), c) =
          IF row + a + 1 < size THEN Strip(m, row + a + 1) ELSE Scrolled(m)
    <3>1. Abstract!Advance(Strip(k, row + a), c) = Placed(m, row + a + 1)
      BY <1>8, <2>1, AdvanceIs, Zenon
    <3> QED
      BY <1>2, <1>5, <1>6, <3>1, Zenon DEF Placed
  <2>4. CASE a + 1 < Cols
    <3>1. Settle(View(m, a + 1, b)) = View(m, a + 1, b)
      <4>1. a + 1 # Cols /\ ~(b > Rows - 1)
        BY <1>3, <2>4
      <4> QED
        BY <4>1, SettleIs, Zenon
    <3>2. a + 1 \in 0 .. Cols - 1
      BY <1>3, <2>4
    <3>3. View(m, a + 1, b) \in Views
      BY <3>2, ViewsAre
    <3>4. Flat(View(m, a + 1, b)) = Strip(m, Cols * b + (a + 1))
      BY Parts
    <3>5. Cols * b + (a + 1) = row + a + 1 /\ row + a + 1 < size
      BY <1>2, <1>3, <2>4
    <3> QED
      BY <2>2, <2>3, <3>1, <3>3, <3>4, <3>5, Zenon
  <2>5. CASE a + 1 = Cols /\ b + 1 < Rows
    <3>1. Settle(View(m, a + 1, b)) = View(m, 0, b + 1)
      <4>1. b < Rows - 1
        BY <1>3, <2>5
      <4> QED
        BY <4>1, <2>5, SettleIs, Zenon
    <3>2. 0 \in 0 .. Cols - 1 /\ b + 1 \in 0 .. Rows - 1
      BY <1>3, <2>5
    <3>3. View(m, 0, b + 1) \in Views
      BY <3>2, ViewsAre
    <3>4. Flat(View(m, 0, b + 1)) = Strip(m, Cols * (b + 1) + 0)
      BY Parts
    <3>5. Cols * (b + 1) + 0 = row + a + 1 /\ row + a + 1 < size
      BY <1>2, <1>3, <2>5
    <3> QED
      BY <2>2, <2>3, <3>1, <3>3, <3>4, <3>5, Zenon
  <2>6. CASE a + 1 = Cols /\ ~(b + 1 < Rows)
    <3>1. Settle(View(m, a + 1, b)) = View(ScrollUp(m), 0, Rows - 1)
      <4>1. b = Rows - 1 /\ ~(b < Rows - 1)
        BY <1>3, <2>6
      <4> QED
        BY <4>1, <2>6, SettleIs, Zenon
    <3>2. ~(row + a + 1 < size)
      <4>1. b + 1 = Rows
        BY <1>3, <2>6
      <4> QED
        BY <1>2, <1>3, <2>6, <4>1
    <3> QED
      BY <1>6, <2>2, <2>3, <3>1, <3>2, Zenon
  <2>7. a + 1 < Cols \/ a + 1 = Cols
    BY <1>3
  <2> QED
    BY <2>4, <2>5, <2>6, <2>7
<1> QED
  BY <1>7, <1>8

(* The test of the end of a row brings what lies one place too far back on  *)
(* the screen.                                                              *)
LEMMA SettleWide ==
  ASSUME NEW k \in [Cells -> Marks], NEW a \in Nat, NEW b \in Nat
  PROVE  /\ Settle(View(k, a, b)) \in Wide
         /\ a <= Cols /\ b <= Rows => Settle(View(k, a, b)) \in Views
<1>1. Cols \in Nat /\ Cols >= 2 /\ Rows \in Nat /\ Rows > 0
  BY ConsoleAssumption
<1>2. ScrollUp(k) \in [Cells -> Marks]
  BY ScrollUpIs
<1>3. CASE a = Cols /\ b < Rows - 1
  <2>1. Settle(View(k, a, b)) = View(k, 0, b + 1)
    BY <1>3, SettleIs, Zenon
  <2>2. 0 \in 0 .. Cols - 1 /\ b + 1 \in 0 .. Rows - 1
    BY <1>1, <1>3
  <2> QED
    BY <2>1, <2>2, ViewsAre, ViewsWide
<1>4. CASE ~(a = Cols /\ b < Rows - 1) /\ ((a = Cols /\ b = Rows - 1) \/ b > Rows - 1)
  <2>1. Settle(View(k, a, b)) = View(ScrollUp(k), 0, Rows - 1)
    BY <1>4, SettleIs, Zenon
  <2>2. 0 \in 0 .. Cols - 1 /\ Rows - 1 \in 0 .. Rows - 1
    BY <1>1
  <2> QED
    BY <1>2, <2>1, <2>2, ViewsAre, ViewsWide
<1>5. CASE ~(a = Cols /\ b < Rows - 1) /\ ~((a = Cols /\ b = Rows - 1) \/ b > Rows - 1)
  <2>1. Settle(View(k, a, b)) = View(k, a, b)
    BY <1>5, SettleIs, Zenon
  <2>2. a <= Cols => a \in 0 .. Cols - 1 /\ b \in 0 .. Rows - 1
    BY <1>1, <1>5
  <2> QED
    BY <2>1, <2>2, ViewsAre, WideAre
<1> QED
  BY <1>3, <1>4, <1>5

LEMMA PutCWide ==
  ASSUME NEW v \in Wide, NEW c \in Chars \cup {Newline}
  PROVE  PutC(v, c) \in Wide /\ (c = Newline => PutC(v, c) \in Views)
<1>1. PICK k \in [Cells -> Marks], a \in Nat, b \in Nat : v = View(k, a, b)
  BY WideAre
<1>2. Cols \in Nat /\ Cols >= 2 /\ Rows \in Nat /\ Rows > 0
  BY ConsoleAssumption
<1>3. c # Backspaced /\ (c # Newline => c \in Chars)
  BY ConsoleAssumption DEF Newline, Backspaced
<1>4. CASE c = Newline
  <2>1. PutC(v, c) = Settle(View(k, 0, b + 1))
    BY <1>1, <1>4, PutNewlineIs
  <2>2. CASE b + 1 <= Rows
    <3>1. 0 \in Nat /\ b + 1 \in Nat /\ 0 <= Cols
      BY <1>2
    <3>2. Settle(View(k, 0, b + 1)) \in Views
      BY <2>2, <3>1, SettleWide
    <3> QED
      BY <2>1, <3>2, ViewsWide
  <2>3. CASE ~(b + 1 <= Rows)
    <3>1. b + 1 > Rows - 1 /\ 0 # Cols
      BY <1>2, <2>3
    <3>2. Settle(View(k, 0, b + 1)) = View(ScrollUp(k), 0, Rows - 1)
      BY <3>1, SettleIs, Zenon
    <3>3. 0 \in 0 .. Cols - 1 /\ Rows - 1 \in 0 .. Rows - 1
      BY <1>2
    <3> QED
      BY <2>1, <3>2, <3>3, ScrollUpIs, ViewsAre, ViewsWide
  <2> QED
    BY <2>2, <2>3
<1>5. CASE c # Newline
  <2>1. PutC(v, c) = Settle(View(Wrote(k, Cols * b + a, c), a + 1, b % Rows))
    BY <1>1, <1>3, <1>5, PutCharIs
  <2>2. Wrote(k, Cols * b + a, c) \in [Cells -> Marks]
    BY <1>3, <1>5 DEF Wrote, Marks
  <2>3. a + 1 \in Nat /\ b % Rows \in Nat
    BY <1>2
  <2> QED
    BY <1>5, <2>1, <2>2, <2>3, SettleWide
<1> QED
  BY <1>4, <1>5

----------------------------------------------------------------------------
(* The recursion of Printed, to the n-th character.                         *)
Reaches(after, v, text, n) ==
  after = [i \in 0 .. n |-> IF i = 0 THEN v ELSE PutC(after[i - 1], text[i])]

(* That recursion has a solution.                                           *)
LEMMA PrintedExists ==
  ASSUME NEW v, NEW text, NEW n \in Nat
  PROVE  \E after : Reaches(after, v, text, n)
<1> DEFINE Bad == {m \in Nat : ~\E after : Reaches(after, v, text, m)}
<1>1. SUFFICES ASSUME Bad # {} PROVE FALSE
  OBVIOUS
<1>2. PICK m \in Bad : \A j \in Bad : m <= j
  <2>1. Bad \in SUBSET Nat
    OBVIOUS
  <2> QED
    BY <1>1, <2>1, LeastOf
<1>3. m \in Nat /\ ~\E after : Reaches(after, v, text, m)
  OBVIOUS
<1>4. CASE m = 0
  <2> DEFINE f == [i \in 0 .. 0 |-> v]
  <2>1. Reaches(f, v, text, 0)
    BY DEF Reaches
  <2> QED
    BY <1>3, <1>4, <2>1
<1>5. CASE m # 0
  <2>1. m - 1 \in Nat /\ m - 1 \notin Bad
    BY <1>2, <1>3, <1>5
  <2>2. PICK f : Reaches(f, v, text, m - 1)
    BY <2>1
  <2>3. \A i \in 0 .. m - 1 : f[i] = IF i = 0 THEN v ELSE PutC(f[i - 1], text[i])
    BY <2>2 DEF Reaches
  <2> DEFINE g == [i \in 0 .. m |-> IF i = m THEN PutC(f[m - 1], text[m]) ELSE f[i]]
  <2>4. \A i \in 0 .. m - 1 : g[i] = f[i]
    BY <1>3
  <2>5. g[m] = PutC(f[m - 1], text[m])
    BY <1>3
  <2>6. g = [i \in 0 .. m |-> g[i]]
    OBVIOUS
  <2> HIDE DEF g
  <2>7. ASSUME NEW i \in 0 .. m
        PROVE  g[i] = IF i = 0 THEN v ELSE PutC(g[i - 1], text[i])
    <3>1. CASE i = m
      <4>1. i # 0 /\ g[i - 1] = f[i - 1]
        BY <1>3, <1>5, <2>4, <3>1
      <4> QED
        BY <2>5, <3>1, <4>1
    <3>2. CASE i # m /\ i # 0
      <4>1. g[i - 1] = f[i - 1] /\ g[i] = f[i] /\ f[i] = PutC(f[i - 1], text[i])
        BY <1>3, <2>3, <2>4, <3>2
      <4> QED
        BY <3>2, <4>1
    <3>3. CASE i # m /\ i = 0
      BY <1>3, <2>3, <2>4, <3>3
    <3> QED
      BY <3>1, <3>2, <3>3
  <2>8. Reaches(g, v, text, m)
    BY <2>6, <2>7, Zenon DEF Reaches
  <2> QED
    BY <1>3, <2>8
<1> QED
  BY <1>4, <1>5

(* A text printed on a view is the text printed on its tape.                *)
LEMMA PrintedView ==
  ASSUME NEW v \in Views, NEW text \in Texts
  PROVE  /\ Printed(v, text) \in Views
         /\ Flat(Printed(v, text)) = Abstract!Printed(Flat(v), text)
<1> DEFINE n == Len(text)
           f == CHOOSE after : Reaches(after, v, text, n)
           Follows(h) ==
             h = [i \in 0 .. n |-> IF i = 0 THEN Flat(v) ELSE Abstract!Advance(h[i - 1], text[i])]
           h == CHOOSE after : Follows(after)
<1>1. n \in Nat
  BY DEF Texts
<1>2. Reaches(f, v, text, n)
  BY <1>1, PrintedExists
<1>3. Printed(v, text) = f[n]
  BY DEF Printed, Reaches
<1>4. Abstract!Printed(Flat(v), text) = h[n]
  BY DEF Abstract!Printed
<1> HIDE DEF f, n
<1>5. \A i \in 0 .. n : f[i] = IF i = 0 THEN v ELSE PutC(f[i - 1], text[i])
  BY <1>2 DEF Reaches
<1>6. \A i \in 0 .. n : i # 0 => text[i] \in Chars \cup {Newline}
  BY DEF Texts, n
<1>7. \A i \in 0 .. n : f[i] \in Views
  <2> DEFINE Bad == {i \in 0 .. n : f[i] \notin Views}
  <2> SUFFICES ASSUME Bad # {} PROVE FALSE
    OBVIOUS
  <2>1. Bad \in SUBSET Nat
    OBVIOUS
  <2>2. PICK i \in Bad : \A j \in Bad : i <= j
    BY <2>1, LeastOf
  <2>3. i \in 0 .. n /\ f[i] \notin Views
    OBVIOUS
  <2>4. i # 0
    BY <1>5, <2>3
  <2>5. i - 1 \in 0 .. n /\ i - 1 \notin Bad
    BY <1>1, <2>2, <2>3, <2>4
  <2>6. f[i - 1] \in Views
    BY <2>5
  <2> QED
    BY <1>5, <1>6, <2>3, <2>4, <2>6, PutCView
<1>8. \A i \in 0 .. n : i # 0 => Flat(f[i]) = Abstract!Advance(Flat(f[i - 1]), text[i])
  <2> SUFFICES ASSUME NEW i \in 0 .. n, i # 0
               PROVE  Flat(f[i]) = Abstract!Advance(Flat(f[i - 1]), text[i])
    OBVIOUS
  <2>1. i - 1 \in 0 .. n
    BY <1>1
  <2> QED
    BY <1>5, <1>6, <1>7, <2>1, PutCView
<1>9. Follows(h)
  <2> DEFINE g == [i \in 0 .. n |-> Flat(f[i])]
  <2>1. ASSUME NEW i \in 0 .. n
        PROVE  g[i] = IF i = 0 THEN Flat(v) ELSE Abstract!Advance(g[i - 1], text[i])
    <3>1. CASE i = 0
      BY <1>5, <3>1
    <3>2. CASE i # 0
      <4>1. i - 1 \in 0 .. n
        BY <1>1, <3>2
      <4>2. g[i] = Flat(f[i]) /\ g[i - 1] = Flat(f[i - 1])
        BY <4>1
      <4> QED
        BY <1>8, <3>2, <4>2
    <3> QED
      BY <3>1, <3>2
  <2>2. g = [i \in 0 .. n |-> g[i]]
    OBVIOUS
  <2> HIDE DEF g
  <2>3. Follows(g)
    BY <2>1, <2>2, Zenon
  <2> QED
    BY <2>3
<1> HIDE DEF h
<1>10. \A i \in 0 .. n : h[i] = IF i = 0 THEN Flat(v) ELSE Abstract!Advance(h[i - 1], text[i])
  BY <1>9
<1>11. \A i \in 0 .. n : h[i] = Flat(f[i])
  <2> DEFINE Bad == {i \in 0 .. n : h[i] # Flat(f[i])}
  <2> SUFFICES ASSUME Bad # {} PROVE FALSE
    OBVIOUS
  <2>1. Bad \in SUBSET Nat
    OBVIOUS
  <2>2. PICK i \in Bad : \A j \in Bad : i <= j
    BY <2>1, LeastOf
  <2>3. i \in 0 .. n /\ h[i] # Flat(f[i])
    OBVIOUS
  <2>4. i # 0
    BY <1>5, <1>10, <2>3
  <2>5. i - 1 \in 0 .. n /\ i - 1 \notin Bad
    BY <1>1, <2>2, <2>3, <2>4
  <2>6. h[i - 1] = Flat(f[i - 1])
    BY <2>5
  <2> QED
    BY <1>8, <1>10, <2>3, <2>4, <2>6
<1> QED
  BY <1>1, <1>3, <1>4, <1>7, <1>11

(* Wherever it begins, a text with a new line ends on the screen.           *)
LEMMA PrintedWide ==
  ASSUME NEW v \in Wide, NEW text \in Texts
  PROVE  /\ Printed(v, text) \in Wide
         /\ (\E i \in DOMAIN text : text[i] = Newline) => Printed(v, text) \in Views
<1> DEFINE n == Len(text)
           f == CHOOSE after : Reaches(after, v, text, n)
<1>1. n \in Nat /\ DOMAIN text = 1 .. n
  BY DEF Texts
<1>2. Reaches(f, v, text, n)
  BY <1>1, PrintedExists
<1>3. Printed(v, text) = f[n]
  BY DEF Printed, Reaches
<1> HIDE DEF f, n
<1>4. \A i \in 0 .. n : f[i] = IF i = 0 THEN v ELSE PutC(f[i - 1], text[i])
  BY <1>2 DEF Reaches
<1>5. \A i \in 0 .. n : i # 0 => text[i] \in Chars \cup {Newline}
  BY DEF Texts, n
<1>6. \A i \in 0 .. n : f[i] \in Wide
  <2> DEFINE Bad == {i \in 0 .. n : f[i] \notin Wide}
  <2> SUFFICES ASSUME Bad # {} PROVE FALSE
    OBVIOUS
  <2>1. Bad \in SUBSET Nat
    OBVIOUS
  <2>2. PICK i \in Bad : \A j \in Bad : i <= j
    BY <2>1, LeastOf
  <2>3. i \in 0 .. n /\ f[i] \notin Wide
    OBVIOUS
  <2>4. i # 0
    BY <1>4, <2>3
  <2>5. i - 1 \in 0 .. n /\ i - 1 \notin Bad
    BY <1>1, <2>2, <2>3, <2>4
  <2>6. f[i - 1] \in Wide
    BY <2>5
  <2> QED
    BY <1>4, <1>5, <2>3, <2>4, <2>6, PutCWide
<1>7. ASSUME NEW i \in 1 .. n, text[i] = Newline PROVE f[n] \in Views
  <2> DEFINE Bad == {j \in i .. n : f[j] \notin Views}
  <2> SUFFICES ASSUME Bad # {} PROVE FALSE
    BY <1>1
  <2>1. Bad \in SUBSET Nat
    OBVIOUS
  <2>2. PICK j \in Bad : \A m \in Bad : j <= m
    BY <2>1, LeastOf
  <2>3. j \in i .. n /\ f[j] \notin Views
    OBVIOUS
  <2>4. j \in 0 .. n /\ j # 0 /\ j - 1 \in 0 .. n
    BY <1>1, <2>3
  <2>5. f[j] = PutC(f[j - 1], text[j]) /\ text[j] \in Chars \cup {Newline} /\ f[j - 1] \in Wide
    BY <1>4, <1>5, <1>6, <2>4
  <2>6. CASE j = i
    BY <1>7, <2>3, <2>5, <2>6, PutCWide
  <2>7. CASE j # i
    <3>1. j - 1 \in i .. n /\ j - 1 \notin Bad
      BY <1>1, <2>2, <2>3, <2>7
    <3>2. f[j - 1] \in Views
      BY <3>1
    <3> QED
      BY <2>3, <2>5, <3>2, PutCView
  <2> QED
    BY <2>6, <2>7
<1> QED
  BY <1>1, <1>3, <1>6, <1>7
----------------------------------------------------------------------------
(* A backspace erases an earlier cell, and writes there next.               *)
LEMMA RubIs ==
  ASSUME NEW k, NEW a \in Int, NEW b
  PROVE  Rub(View(k, a, b)) =
           IF a > 0 THEN View(Wrote(k, Cols * b + (a - 1), Blank), a - 1, b)
           ELSE IF a = 0 /\ b # 0
             THEN View(Wrote(k, Cols * (b - 1) + (Cols - 2), Blank), Cols - 2, b - 1)
             ELSE View(Wrote(k, Cols * b + a, Blank), a, b)
<1>1. PICK r : r = View(k, a, b)
  OBVIOUS
<1>2. r.cells = k /\ r.x = a /\ r.y = b
  BY <1>1, Parts
<1>3. ASSUME NEW c, NEW d, NEW u, u = View(k, c, d)
      PROVE  [u EXCEPT !.cells[Cols * u.y + u.x] = Blank] =
               View(Wrote(k, Cols * d + c, Blank), c, d)
  <2>1. u.cells = k /\ u.x = c /\ u.y = d
    BY <1>3, Parts
  <2>2. PICK m : m = Wrote(k, Cols * d + c, Blank)
    OBVIOUS
  <2>3. [View(k, c, d) EXCEPT !.cells = m] = View(m, c, d)
    BY Changed
  <2>4. m = [k EXCEPT ![Cols * d + c] = Blank]
    BY <2>2 DEF Wrote
  <2> QED
    BY <1>3, <2>1, <2>2, <2>3, <2>4, Zenon
<1>4. [r EXCEPT !.x = @ - 1] = View(k, a - 1, b)
  <2>1. [View(k, a, b) EXCEPT !.x = a - 1] = View(k, a - 1, b)
    BY Changed
  <2> QED
    BY <1>1, <1>2, <2>1, Zenon
<1>5. [r EXCEPT !.x = Cols - 2, !.y = @ - 1] = View(k, Cols - 2, b - 1)
  <2>1. PICK c, d : c = Cols - 2 /\ d = b - 1
    OBVIOUS
  <2>2. [View(k, a, b) EXCEPT !.x = c] = View(k, c, b)
    BY Changed
  <2>3. [View(k, c, b) EXCEPT !.y = d] = View(k, c, d)
    <3>1. PICK t, u : t = [cells |-> k, x |-> c, y |-> b] /\ u = [cells |-> k, x |-> c, y |-> d]
      OBVIOUS
    <3>2. [t EXCEPT !.y = d] = u
      BY <3>1
    <3> QED
      BY <3>1, <3>2, Zenon DEF View
  <2> QED
    BY <1>1, <1>2, <2>1, <2>2, <2>3, Zenon
<1> DEFINE Wiped(u) == [u EXCEPT !.cells[Cols * u.y + u.x] = Blank]
           Back == CASE r.x > 0 -> [r EXCEPT !.x = @ - 1]
                     [] r.x = 0 /\ r.y # 0 -> [r EXCEPT !.x = Cols - 2, !.y = @ - 1]
                     [] OTHER -> r
<1>6. Rub(r) = Wiped(Back)
  BY Zenon DEF Rub
<1>7. ASSUME NEW c, NEW d, NEW u, u = View(k, c, d)
      PROVE  Wiped(u) = View(Wrote(k, Cols * d + c, Blank), c, d)
  BY <1>3, <1>7
<1> HIDE DEF Wiped
<1>8. CASE a > 0
  <2>1. Back = [r EXCEPT !.x = @ - 1]
    <3>1. r.x > 0 /\ ~(r.x = 0 /\ r.y # 0)
      BY <1>2, <1>8
    <3> QED
      BY <3>1, Zenon
  <2>2. Back = View(k, a - 1, b)
    BY <1>4, <2>1, Zenon
  <2> HIDE DEF Back
  <2>3. Wiped(Back) = View(Wrote(k, Cols * b + (a - 1), Blank), a - 1, b)
    BY <1>7, <2>2
  <2> QED
    BY <1>1, <1>6, <1>8, <2>3, Zenon
<1>9. CASE ~(a > 0) /\ a = 0 /\ b # 0
  <2>1. Back = [r EXCEPT !.x = Cols - 2, !.y = @ - 1]
    <3>1. ~(r.x > 0) /\ r.x = 0 /\ r.y # 0
      BY <1>2, <1>9
    <3> QED
      BY <3>1, Zenon
  <2>2. Back = View(k, Cols - 2, b - 1)
    BY <1>5, <2>1, Zenon
  <2> HIDE DEF Back
  <2>3. Wiped(Back) = View(Wrote(k, Cols * (b - 1) + (Cols - 2), Blank), Cols - 2, b - 1)
    BY <1>7, <2>2
  <2> QED
    BY <1>1, <1>6, <1>9, <2>3, Zenon
<1>10. CASE ~(a > 0) /\ ~(a = 0 /\ b # 0)
  <2>1. Back = r
    BY <1>2, <1>10
  <2> QED
    BY <1>1, <1>6, <1>7, <1>10, <2>1, Zenon
<1>11. a = 0 => ~(a > 0)
  OBVIOUS
<1> QED
  BY <1>8, <1>9, <1>10, <1>11, Zenon

LEMMA RubWide ==
  ASSUME NEW v \in Wide
  PROVE  Rub(v) \in Wide
<1>1. PICK k \in [Cells -> Marks], a \in Nat, b \in Nat : v = View(k, a, b)
  BY WideAre
<1>2. Cols \in Nat /\ Cols >= 2
  BY ConsoleAssumption
<1>3. ASSUME NEW p PROVE Wrote(k, p, Blank) \in [Cells -> Marks]
  BY DEF Wrote, Marks
<1>4. CASE a > 0
  <2>1. Rub(v) = View(Wrote(k, Cols * b + (a - 1), Blank), a - 1, b)
    BY <1>1, <1>4, RubIs
  <2>2. a - 1 \in Nat
    BY <1>4
  <2> QED
    BY <1>3, <2>1, <2>2, WideAre
<1>5. CASE a = 0 /\ b # 0
  <2>1. Rub(v) = View(Wrote(k, Cols * (b - 1) + (Cols - 2), Blank), Cols - 2, b - 1)
    BY <1>1, <1>5, RubIs
  <2>2. Cols - 2 \in Nat /\ b - 1 \in Nat
    BY <1>2, <1>5
  <2> QED
    BY <1>3, <2>1, <2>2, WideAre
<1>6. CASE a = 0 /\ b = 0
  <2>1. Rub(v) = View(Wrote(k, Cols * b + a, Blank), a, b)
    BY <1>1, <1>6, RubIs
  <2> QED
    BY <1>3, <2>1, WideAre
<1> QED
  BY <1>4, <1>5, <1>6

(* What Abstract!Erase says of the cell.                                    *)
Erased(tape, p) ==
  /\ p \in 0 .. Cols * Rows - 1
  /\ p < tape.pos \/ p = 0
  /\ p \div Cols >= (tape.pos - 1) \div Cols

LEMMA RubView ==
  ASSUME NEW v \in Views
  PROVE  /\ Rub(v) \in Views
         /\ \E p : Erased(Flat(v), p) /\ Flat(Rub(v)) = Strip(Wrote(v.cells, p, Blank), p)
<1>1. PICK k \in [Cells -> Marks], a \in 0 .. Cols - 1, b \in 0 .. Rows - 1 : v = View(k, a, b)
  BY ViewsAre
<1>2. v.cells = k
  BY <1>1, Parts
<1>3. PICK row \in Nat :
        /\ row = Cols * b /\ Cols * (b - 1) = row - Cols
        /\ (row + a) \div Cols = b /\ row + a \in Cells /\ (b > 0 => row >= Cols)
  BY OnScreen
<1>4. Cols \in Nat /\ Cols >= 2 /\ Rows \in Nat /\ Rows > 0
  BY ConsoleAssumption
<1>5. Flat(v).pos = row + a
  BY <1>1, <1>3, Parts
<1>6. ASSUME NEW p \in Cells PROVE Wrote(k, p, Blank) \in [Cells -> Marks]
  BY DEF Wrote, Marks
<1>7. PICK size \in Nat : size = Cols * Rows /\ Cells = 0 .. size - 1
  BY OnScreen, <1>4 DEF Cells
<1>8. ASSUME NEW c \in 0 .. Cols - 1, NEW d \in 0 .. Rows - 1, NEW p,
             p = Cols * d + c, Erased(Flat(v), p),
             Rub(v) = View(Wrote(k, p, Blank), c, d)
      PROVE  /\ Rub(v) \in Views
             /\ \E q : Erased(Flat(v), q) /\ Flat(Rub(v)) = Strip(Wrote(v.cells, q, Blank), q)
  <2>1. p \in Cells
    BY <1>8 DEF Erased, Cells
  <2>2. Rub(v) \in Views
    BY <1>6, <1>8, <2>1, ViewsAre
  <2>3. Flat(View(Wrote(k, p, Blank), c, d)) = Strip(Wrote(k, p, Blank), Cols * d + c)
    BY Parts
  <2>4. Flat(Rub(v)) = Strip(Wrote(v.cells, p, Blank), p)
    BY <1>2, <1>8, <2>3, Zenon
  <2> QED
    BY <1>8, <2>2, <2>4
<1>9. CASE a > 0
  <2>1. Rub(v) = View(Wrote(k, Cols * b + (a - 1), Blank), a - 1, b)
    BY <1>1, <1>9, RubIs
  <2>2. a - 1 \in 0 .. Cols - 1
    BY <1>4, <1>9
  <2>3. Cols * b + (a - 1) = row + a - 1
    BY <1>3, <1>4
  <2>4. (row + a - 1) \div Cols = b
    <3>1. (Cols * b + (a - 1)) \div Cols = b
      BY <2>2, OnScreen
    <3> QED
      BY <2>3, <3>1
  <2>5. Erased(Flat(v), row + a - 1)
    BY <1>3, <1>4, <1>5, <1>7, <1>9, <2>4 DEF Erased
  <2> QED
    BY <1>8, <2>1, <2>2, <2>3, <2>5
<1>10. CASE a = 0 /\ b # 0
  <2>1. Rub(v) = View(Wrote(k, Cols * (b - 1) + (Cols - 2), Blank), Cols - 2, b - 1)
    BY <1>1, <1>10, RubIs
  <2>2. Cols - 2 \in 0 .. Cols - 1 /\ Cols - 1 \in 0 .. Cols - 1 /\ b - 1 \in 0 .. Rows - 1
    BY <1>4, <1>10
  <2>3. /\ Cols * (b - 1) + (Cols - 2) = row - 2
        /\ Cols * (b - 1) + (Cols - 1) = row - 1 /\ row >= Cols
    BY <1>3, <1>4, <1>10
  <2>4. (row - 2) \div Cols = b - 1 /\ (row - 1) \div Cols = b - 1
    <3>1. (Cols * (b - 1) + (Cols - 2)) \div Cols = b - 1
      BY <2>2, OnScreen
    <3>2. (Cols * (b - 1) + (Cols - 1)) \div Cols = b - 1
      BY <2>2, OnScreen
    <3> QED
      BY <2>3, <3>1, <3>2
  <2>5. Erased(Flat(v), row - 2)
    BY <1>3, <1>4, <1>5, <1>7, <1>10, <2>3, <2>4 DEF Erased
  <2> QED
    BY <1>8, <2>1, <2>2, <2>3, <2>5
<1>11. CASE a = 0 /\ b = 0
  <2>1. Rub(v) = View(Wrote(k, Cols * b + a, Blank), a, b)
    BY <1>1, <1>11, RubIs
  <2>2. Cols * b + a = 0
    BY <1>4, <1>11
  <2>3. Erased(Flat(v), 0)
    <3>1. Flat(v).pos = 0
      BY <1>1, <2>2, Parts
    <3>2. 0 \div Cols >= (0 - 1) \div Cols /\ 0 \in Cells
      BY <1>3, <1>4, <1>11, <2>2
    <3> QED
      BY <1>7, <3>1, <3>2 DEF Erased
  <2> QED
    BY <1>8, <2>1, <2>2, <2>3
<1> QED
  BY <1>4, <1>9, <1>10, <1>11
----------------------------------------------------------------------------
Pages == {Display} \cup Terminals
Contents == [Pages -> [Cells -> Marks]]

Traps ==
  {r \in [char : 0 .. Len(Exception), for : Terminals, row : Nat,
          stage : {"none", "call", "store", "advance", "settle", "scroll", "cursor"}] :
     r.stage # "none" => r.char # 0}

Settling(p) == trap[p].stage = "settle"

(* One place too far, at the end of a row or below the last.                *)
Near(t) == x[t] \in 0 .. Cols /\ y[t] \in 0 .. Rows

(* Where the terminals write, while their lines are whole: on the screen,   *)
(* or near it before the test of the end of a row, which one exception at   *)
(* a time is about to make for the terminal.                                *)
PlacesInv ==
  /\ \A t \in Terminals \ torn : IF Between(t) THEN Near(t) ELSE ~Off(t)
  /\ \A p, q \in Terminals :
       Settling(p) /\ Settling(q) /\ p # q /\ trap[p].for = trap[q].for => trap[p].for \in torn

(* The console's inductive invariant.  A display that a program writes to   *)
(* astray is one that is not steady.                                        *)
ConsoleInv ==
  /\ exec \in Terminals /\ disp \in Terminals /\ mapped \in Pages
  /\ page \in Contents
  /\ x \in [Terminals -> Nat] /\ y \in [Terminals -> Nat]
  /\ trap \in [Terminals -> Traps] /\ torn \subseteq Terminals
  /\ steady => mapped = PageOf(exec, disp)
  /\ PlacesInv

(* Two terminals never share a page.                                        *)
LEMMA PagesApart ==
  /\ Display \notin Terminals
  /\ \A t, d \in Terminals : PageOf(t, d) \in Pages
  /\ \A t, u, d \in Terminals : PageOf(t, d) = PageOf(u, d) => t = u
<1>1. Display \notin Terminals
  BY DEF Display, Terminals
<1> QED
  BY <1>1 DEF PageOf, Pages

(* Nothing that is printed holds a backspace.                               *)
LEMMA SomeTexts ==
  /\ Outputs \subseteq Texts /\ Prompt \in Texts /\ Banner \in Texts /\ Message \in Texts
  /\ Exception \in Texts
  /\ <<>> \in Texts /\ <<Newline>> \in Texts /\ \A c \in Chars : <<c>> \in Texts
<1>1. Outputs \cup {Prompt, Banner, Message, Exception} \subseteq Texts
  BY ConsoleAssumption, Zenon DEF Texts
<1>2. <<>> \in Texts /\ <<Newline>> \in Texts /\ \A c \in Chars : <<c>> \in Texts
  BY DEF Texts
<1> QED
  BY <1>1, <1>2, Zenon

LEMMA DrawTypes ==
  ASSUME NEW t \in Terminals, NEW v \in Wide, NEW to \in Pages, NEW pages \in Contents,
         NEW d \in Terminals, ConsoleInv, Draw(t, v, to, pages, d)
  PROVE  /\ page' = [pages EXCEPT ![to] = v.cells] /\ page' \in Contents
         /\ x' = [x EXCEPT ![t] = v.x] /\ x' \in [Terminals -> Nat]
         /\ y' = [y EXCEPT ![t] = v.y] /\ y' \in [Terminals -> Nat]
         /\ vga' = Cols * y'[d] + x'[d]
<1>1. v.cells \in [Cells -> Marks] /\ v.x \in Nat /\ v.y \in Nat
  BY WideAre
<1> QED
  BY <1>1 DEF Draw, ConsoleInv, Contents

(* The screens and places of Abstract.                                      *)
ACells == [u \in Terminals |-> page[PageOf(u, disp)]]
APos == [u \in Terminals |-> Cols * y[u] + x[u]]

(* Drawing a view through the page of a terminal changes its screen only.    *)
LEMMA DrawBecomes ==
  ASSUME NEW t \in Terminals, NEW v \in Wide, NEW pages \in Contents,
         ConsoleInv, disp' \in Terminals,
         Draw(t, v, PageOf(t, disp'), pages, disp'),
         \A u \in Terminals : u # t => pages[PageOf(u, disp')] = page[PageOf(u, disp)]
  PROVE  /\ ACells' = [ACells EXCEPT ![t] = Flat(v).cells]
         /\ APos' = [APos EXCEPT ![t] = Flat(v).pos]
         /\ vga' = APos'[disp']
<1>1. PageOf(t, disp') \in Pages
  BY PagesApart
<1>2. /\ page' = [pages EXCEPT ![PageOf(t, disp')] = v.cells]
      /\ x' = [x EXCEPT ![t] = v.x] /\ y' = [y EXCEPT ![t] = v.y]
      /\ vga' = Cols * y'[disp'] + x'[disp']
  BY <1>1, DrawTypes
<1>3. ACells' = [ACells EXCEPT ![t] = v.cells]
  <2>1. ASSUME NEW u \in Terminals
        PROVE  page'[PageOf(u, disp')] = IF u = t THEN v.cells ELSE page[PageOf(u, disp)]
    <3>1. PageOf(u, disp') \in Pages /\ (u # t => PageOf(u, disp') # PageOf(t, disp'))
      BY PagesApart
    <3> QED
      BY <1>1, <1>2, <3>1 DEF Contents
  <2> QED
    BY <2>1 DEF ACells
<1>4. APos' = [APos EXCEPT ![t] = Cols * v.y + v.x]
  BY <1>2 DEF APos, ConsoleInv
<1>5. Flat(v).cells = v.cells /\ Flat(v).pos = Cols * v.y + v.x
  BY DEF Flat
<1>6. vga' = APos'[disp']
  BY <1>2 DEF APos
<1> QED
  BY <1>3, <1>4, <1>5, <1>6, Zenon

(* A text on a terminal, through its page.                                  *)
LEMMA PutsPut ==
  ASSUME NEW t \in Terminals, NEW text \in Texts, NEW pages \in Contents,
         ConsoleInv, ~Off(t), disp' \in Terminals,
         Puts(t, text, PageOf(t, disp'), pages, disp'),
         \A u \in Terminals : pages[PageOf(u, disp')] = page[PageOf(u, disp)]
  PROVE  Abstract!Put(t, text) /\ vga' = APos'[disp']
<1> DEFINE v == [cells |-> pages[PageOf(t, disp')], x |-> x[t], y |-> y[t]]
           w == Printed(v, text)
<1>1. v \in Views
  <2>1. PageOf(t, disp') \in Pages
    BY PagesApart
  <2> QED
    BY <2>1 DEF Views, Off, ConsoleInv, Contents
<1>2. w \in Views /\ Flat(w) = Abstract!Printed(Flat(v), text)
  BY <1>1, PrintedView
<1>3. Draw(t, w, PageOf(t, disp'), pages, disp')
  BY DEF Puts, Through
<1>4. Flat(v) = [cells |-> ACells[t], pos |-> APos[t]]
  BY DEF Flat, ACells, APos
<1> HIDE DEF v, w
<1>5. /\ ACells' = [ACells EXCEPT ![t] = Flat(w).cells]
      /\ APos' = [APos EXCEPT ![t] = Flat(w).pos]
      /\ vga' = APos'[disp']
  BY <1>2, <1>3, DrawBecomes, ViewsWide
<1>6. Flat(w) = Abstract!Printed([cells |-> ACells[t], pos |-> APos[t]], text)
  BY <1>2, <1>4, Zenon
<1> QED
  BY <1>5, <1>6, Zenon DEF Abstract!Put, Abstract!Becomes, ACells, APos

(* What is drawn leaves the places in order, unless it begins off the       *)
(* screen and does not renew the line.                                      *)
LEMMA DrawnInv ==
  ASSUME NEW t \in Terminals, NEW v \in Wide, NEW to \in Pages, NEW pages \in Contents,
         NEW d \in Terminals, NEW renewed \in BOOLEAN, ConsoleInv,
         Draw(t, v, to, pages, d), Tear(t, renewed), trap' = trap,
         renewed \/ ~Off(t) => v \in Views,
         exec' \in Terminals, disp' \in Terminals, mapped' \in Pages,
         steady' => mapped' = PageOf(exec', disp')
  PROVE  ConsoleInv'
<1>1. /\ page' \in Contents
      /\ x' = [x EXCEPT ![t] = v.x] /\ x' \in [Terminals -> Nat]
      /\ y' = [y EXCEPT ![t] = v.y] /\ y' \in [Terminals -> Nat]
  BY DrawTypes
<1>2. /\ trap \in [Terminals -> Traps] /\ torn \subseteq Terminals /\ PlacesInv
      /\ x \in [Terminals -> Nat] /\ y \in [Terminals -> Nat]
  BY DEF ConsoleInv
<1>3. /\ torn' \subseteq Terminals
      /\ \A u \in Terminals : u # t => (u \in torn' <=> u \in torn)
      /\ Between(t) => t \in torn'
      /\ t \notin torn' => renewed \/ t \notin torn
  BY <1>2 DEF Tear
<1>4. \A u \in Terminals : Between(u)' <=> Between(u)
  BY DEF Between
<1>5. ASSUME NEW u \in Terminals \ torn'
      PROVE  IF Between(u)' THEN Near(u)' ELSE ~Off(u)'
  <2>1. CASE u # t
    <3>1. u \notin torn /\ x'[u] = x[u] /\ y'[u] = y[u]
      BY <1>1, <1>2, <1>3, <2>1
    <3>2. (Near(u)' <=> Near(u)) /\ (Off(u)' <=> Off(u))
      BY <3>1 DEF Near, Off
    <3> QED
      BY <1>2, <1>4, <3>1, <3>2 DEF PlacesInv
  <2>2. CASE u = t
    <3>1. ~Between(t)
      BY <1>3, <2>2
    <3>2. renewed \/ ~Off(t)
      BY <1>2, <1>3, <2>2, <3>1 DEF PlacesInv
    <3>3. v \in Views
      BY <3>2
    <3>4. v.x \in 0 .. Cols - 1 /\ v.y \in 0 .. Rows - 1
      BY <3>3, ViewsAre
    <3>5. x'[t] = v.x /\ y'[t] = v.y
      BY <1>1, <1>2
    <3>6. ~Off(t)'
      BY <3>4, <3>5 DEF Off
    <3> QED
      BY <1>4, <2>2, <3>1, <3>6
  <2> QED
    BY <2>1, <2>2
<1>6. ASSUME NEW p \in Terminals, NEW q \in Terminals,
             Settling(p)', Settling(q)', p # q, trap'[p].for = trap'[q].for
      PROVE  trap'[p].for \in torn'
  <2>1. Settling(p) /\ Settling(q) /\ trap[p].for = trap[q].for
    BY <1>6 DEF Settling
  <2>2. trap[p].for \in torn
    BY <1>2, <1>6, <2>1 DEF PlacesInv
  <2>3. Between(trap[p].for)
    BY <2>1 DEF Between, Settling
  <2>4. trap'[p].for = trap[p].for
    OBVIOUS
  <2> QED
    BY <1>2, <1>3, <2>2, <2>3, <2>4
<1>7. PlacesInv'
  BY <1>5, <1>6 DEF PlacesInv
<1> QED
  BY <1>1, <1>2, <1>3, <1>7 DEF ConsoleInv

LEMMA ThroughIs ==
  ASSUME NEW t \in Terminals, NEW to \in Pages, NEW pages \in Contents, ConsoleInv
  PROVE  Through(t, to, pages) \in Wide /\ (~Off(t) => Through(t, to, pages) \in Views)
BY DEF Through, Wide, Views, Off, ConsoleInv, Contents

LEMMA PutsInv ==
  ASSUME NEW t \in Terminals, NEW text \in Texts, NEW to \in Pages, NEW pages \in Contents,
         NEW d \in Terminals, ConsoleInv, Puts(t, text, to, pages, d), trap' = trap,
         exec' \in Terminals, disp' \in Terminals, mapped' \in Pages,
         steady' => mapped' = PageOf(exec', disp')
  PROVE  ConsoleInv'
<1>1. PICK v : v = Through(t, to, pages)
  OBVIOUS
<1>2. v \in Wide /\ (~Off(t) => v \in Views)
  BY <1>1, ThroughIs
<1>3. PICK renewed \in BOOLEAN : renewed <=> \E i \in DOMAIN text : text[i] = Newline
  OBVIOUS
<1>4. Printed(v, text) \in Wide /\ (renewed \/ ~Off(t) => Printed(v, text) \in Views)
  BY <1>2, <1>3, PrintedWide, PrintedView
<1>5. Draw(t, Printed(v, text), to, pages, d)
  BY <1>1 DEF Puts
<1>6. Tear(t, renewed)
  <2>1. torn' = IF Between(t) THEN torn \cup {t}
                ELSE IF \E i \in DOMAIN text : text[i] = Newline THEN torn \ {t} ELSE torn
    BY DEF Puts, Tear
  <2> QED
    BY <1>3, <2>1 DEF Tear
<1> QED
  BY <1>4, <1>5, <1>6, DrawnInv

(* Where nothing is drawn and no exception's putc tests the end of a row,   *)
(* the places stay.                                                         *)
LEMMA StillInv ==
  ASSUME ConsoleInv, x' = x, y' = y, torn' = torn, trap' \in [Terminals -> Traps],
         \A p \in Terminals : /\ Settling(p)' <=> Settling(p)
                              /\ Settling(p) => trap'[p].for = trap[p].for,
         page' \in Contents, exec' \in Terminals, disp' \in Terminals, mapped' \in Pages,
         steady' => mapped' = PageOf(exec', disp')
  PROVE  ConsoleInv'
<1>1. \A u \in Terminals : Between(u)' <=> Between(u)
  BY DEF Between, Settling
<1>2. \A u \in Terminals : (Near(u)' <=> Near(u)) /\ (Off(u)' <=> Off(u))
  BY DEF Near, Off
<1>3. \A u \in Terminals \ torn' : IF Between(u)' THEN Near(u)' ELSE ~Off(u)'
  BY <1>1, <1>2 DEF ConsoleInv, PlacesInv
<1>4. ASSUME NEW p \in Terminals, NEW q \in Terminals,
             Settling(p)', Settling(q)', p # q, trap'[p].for = trap'[q].for
      PROVE  trap'[p].for \in torn'
  <2>1. /\ Settling(p) /\ Settling(q)
        /\ trap'[p].for = trap[p].for /\ trap'[q].for = trap[q].for
    BY <1>4
  <2> QED
    BY <1>4, <2>1 DEF ConsoleInv, PlacesInv
<1>5. PlacesInv'
  BY <1>3, <1>4 DEF PlacesInv
<1> QED
  BY <1>5 DEF ConsoleInv

(* Another terminal's screen comes to the display, and no screen changes.   *)
LEMMA SwitchedKeeps ==
  ASSUME NEW t \in Terminals, ConsoleInv
  PROVE  /\ Switched(t) \in Contents
         /\ \A u \in Terminals : Switched(t)[PageOf(u, t)] = page[PageOf(u, disp)]
<1>1. Display \notin Terminals
  BY PagesApart
<1>2. disp \in Terminals /\ page \in Contents
  BY DEF ConsoleInv
<1>3. CASE t = disp
  BY <1>2, <1>3 DEF Switched
<1>4. CASE t # disp
  <2>1. Switched(t) = [page EXCEPT ![disp] = page[Display], ![Display] = page[t]]
    BY <1>4 DEF Switched
  <2>2. Switched(t) \in Contents
    BY <1>2, <2>1 DEF Contents, Pages
  <2>3. ASSUME NEW u \in Terminals PROVE Switched(t)[PageOf(u, t)] = page[PageOf(u, disp)]
    BY <1>1, <1>2, <1>4, <2>1 DEF PageOf, Contents, Pages
  <2> QED
    BY <2>2, <2>3
<1> QED
  BY <1>3, <1>4

----------------------------------------------------------------------------
(* Texts of Abstract, and what a step of the console may be.                *)
ATexts == Outputs \cup {<<>>, Prompt, Banner, Message, <<Newline>>} \cup {<<c>> : c \in Chars}

Apart == Misdirected \/ Abstract!Next \/ UNCHANGED <<page, x, y, disp, vga>>

(* The steps of a text that goes where it should, from a place on screen.   *)
LEMMA PutsApart ==
  ASSUME NEW t \in Terminals, NEW text \in ATexts, NEW pages \in Contents,
         ConsoleInv, ~Off(t), disp' \in Terminals,
         Puts(t, text, PageOf(t, disp'), pages, disp'),
         \A u \in Terminals : pages[PageOf(u, disp')] = page[PageOf(u, disp)]
  PROVE  Apart
<1>1. text \in Texts
  BY SomeTexts DEF ATexts
<1>2. Abstract!Put(t, text) /\ vga' = APos'[disp']
  BY <1>1, PutsPut
<1>3. Abstract!Next
  BY <1>2, Zenon DEF Abstract!Next, APos, ATexts
<1> QED
  BY <1>3 DEF Apart

LEMMA EchoStep ==
  ASSUME NEW text \in ATexts, ConsoleInv, Keyboard(disp), Echo(text)
  PROVE  ConsoleInv' /\ (~Off(disp) => Apart)
<1>1. disp \in Terminals /\ exec \in Terminals /\ page \in Contents /\ text \in Texts
  BY SomeTexts DEF ConsoleInv, ATexts
<1>2. /\ disp' = disp /\ mapped' = PageOf(exec, disp) /\ exec' = exec
      /\ steady' = steady /\ trap' = trap
  BY DEF Keyboard
<1>3. Display \in Pages /\ PageOf(disp, disp') = Display
  BY <1>2 DEF Pages, PageOf
<1>4. Puts(disp, text, Display, page, disp)
  BY DEF Echo
<1>5. mapped' \in Pages /\ mapped' = PageOf(exec', disp')
  BY <1>1, <1>2, PagesApart
<1>6. ConsoleInv'
  BY <1>1, <1>2, <1>3, <1>4, <1>5, PutsInv
<1>7. ASSUME ~Off(disp) PROVE Apart
  <2>1. Puts(disp, text, PageOf(disp, disp'), page, disp')
    BY <1>2, <1>3, <1>4 DEF Puts, Draw
  <2>2. \A u \in Terminals : page[PageOf(u, disp')] = page[PageOf(u, disp)]
    BY <1>2
  <2> QED
    BY <1>1, <1>2, <1>7, <2>1, <2>2, PutsApart
<1> QED
  BY <1>6, <1>7

LEMMA BackspaceStep ==
  ASSUME ConsoleInv, Backspace
  PROVE  ConsoleInv' /\ Apart
<1> DEFINE v == [cells |-> page[Display], x |-> x[disp], y |-> y[disp]]
<1>1. /\ disp \in Terminals /\ exec \in Terminals
      /\ page \in Contents /\ Display \in Pages
  BY DEF ConsoleInv, Pages
<1>2. /\ disp' = disp /\ mapped' = PageOf(exec, disp) /\ exec' = exec
      /\ steady' = steady /\ trap' = trap
  BY DEF Backspace, Keyboard
<1>3. v \in Wide /\ (~Off(disp) => v \in Views)
  BY <1>1, ThroughIs DEF Through
<1>4. Draw(disp, Printed(v, <<Backspaced>>), Display, page, disp) /\ Tear(disp, FALSE)
  <2>1. Puts(disp, <<Backspaced>>, Display, page, disp)
    BY DEF Backspace, Echo
  <2>2. ~\E i \in DOMAIN <<Backspaced>> : <<Backspaced>>[i] = Newline
    BY DEF Backspaced, Newline
  <2> QED
    BY <2>1, <2>2 DEF Puts, Through, Tear
<1>5. Flat(v) = [cells |-> ACells[disp], pos |-> APos[disp]]
  BY <1>1 DEF Flat, ACells, APos, PageOf
<1>6. v.cells = ACells[disp] /\ Flat(v).pos = APos[disp]
  BY <1>1, <1>5 DEF ACells, PageOf
<1> HIDE DEF v
<1>7. Printed(v, <<Backspaced>>) = Rub(v)
  <2> DEFINE f == CHOOSE after : Reaches(after, v, <<Backspaced>>, 1)
  <2>1. Reaches(f, v, <<Backspaced>>, 1)
    BY PrintedExists
  <2>2. Len(<<Backspaced>>) = 1 /\ <<Backspaced>>[1] = Backspaced
    OBVIOUS
  <2>3. Printed(v, <<Backspaced>>) = f[1]
    BY <2>2, Zenon DEF Printed, Reaches
  <2> HIDE DEF f
  <2>4. f[0] = v /\ f[1] = PutC(f[0], <<Backspaced>>[1])
    BY <2>1 DEF Reaches
  <2>5. PutC(v, Backspaced) = Rub(v)
    <3>1. Backspaced # Newline
      BY DEF Backspaced, Newline
    <3> QED
      BY <3>1 DEF PutC
  <2> QED
    BY <2>2, <2>3, <2>4, <2>5
<1>8. Draw(disp, Rub(v), Display, page, disp)
  BY <1>4, <1>7
<1>9. Rub(v) \in Wide /\ (~Off(disp) => Rub(v) \in Views)
  BY <1>3, RubWide, RubView
<1>10. mapped' \in Pages /\ mapped' = PageOf(exec', disp')
  BY <1>1, <1>2, PagesApart
<1>11. ConsoleInv'
  BY <1>1, <1>2, <1>4, <1>8, <1>9, <1>10, DrawnInv
<1>12. SUFFICES ASSUME ~Off(disp) PROVE Apart
  BY <1>11 DEF Apart, Misdirected
<1>13. PICK p : /\ Erased(Flat(v), p)
                /\ Flat(Rub(v)) = Strip(Wrote(v.cells, p, Blank), p)
  BY <1>3, <1>12, RubView
<1>14. Draw(disp, Rub(v), PageOf(disp, disp'), page, disp')
  BY <1>2, <1>8 DEF PageOf, Draw
<1>15. \A u \in Terminals : page[PageOf(u, disp')] = page[PageOf(u, disp)]
  BY <1>2
<1>16. /\ ACells' = [ACells EXCEPT ![disp] = Flat(Rub(v)).cells]
       /\ APos' = [APos EXCEPT ![disp] = Flat(Rub(v)).pos]
       /\ vga' = APos'[disp']
  BY <1>1, <1>2, <1>9, <1>14, <1>15, DrawBecomes
<1>17. Flat(Rub(v)).cells = [ACells[disp] EXCEPT ![p] = Blank] /\ Flat(Rub(v)).pos = p
  BY <1>6, <1>13, Parts DEF Wrote
<1>18. /\ p \in 0 .. Cols * Rows - 1 /\ (p < APos[disp] \/ p = 0)
       /\ p \div Cols >= (APos[disp] - 1) \div Cols
  BY <1>6, <1>13, Zenon DEF Erased
<1>19. /\ ACells' = [ACells EXCEPT ![disp] = [ACells[disp] EXCEPT ![p] = Blank]]
       /\ APos' = [APos EXCEPT ![disp] = p]
  BY <1>16, <1>17, Zenon
<1>20. Abstract!Erase(disp)
  <2>1. [cells |-> [ACells[disp] EXCEPT ![p] = Blank], pos |-> p].cells =
          [ACells[disp] EXCEPT ![p] = Blank]
    OBVIOUS
  <2>2. [cells |-> [ACells[disp] EXCEPT ![p] = Blank], pos |-> p].pos = p
    OBVIOUS
  <2> QED
    BY <1>18, <1>19, <2>1, <2>2, Zenon
    DEF Abstract!Erase, Abstract!Becomes, Abstract!Tape, Abstract!Size, ACells, APos
<1>21. Abstract!Next
  BY <1>16, <1>20, Zenon DEF Abstract!Next, APos
<1> QED
  BY <1>21 DEF Apart

LEMMA ClearStep ==
  ASSUME ConsoleInv, ClearScreen
  PROVE  ConsoleInv' /\ Apart
<1>1. /\ disp \in Terminals /\ exec \in Terminals
      /\ page \in Contents /\ Display \in Pages
  BY DEF ConsoleInv, Pages
<1>2. /\ disp' = disp /\ mapped' = PageOf(exec, disp) /\ exec' = exec
      /\ steady' = steady /\ trap' = trap /\ Tear(disp, TRUE)
  BY DEF ClearScreen, Keyboard
<1>3. PICK text \in {<<>>, Prompt} : Draw(disp, Printed(Cleared, text), Display, page, disp)
  BY DEF ClearScreen
<1>4. text \in Texts /\ text \in ATexts
  BY SomeTexts DEF ATexts
<1>5. Cleared \in Views
  BY ConsoleAssumption DEF Cleared, Views, Marks
<1>6. Flat(Cleared) = [cells |-> [i \in Cells |-> Blank], pos |-> 0]
  BY ConsoleAssumption DEF Flat, Cleared
<1> DEFINE w == Printed(Cleared, text)
<1>7. w \in Views /\ Flat(w) = Abstract!Printed(Flat(Cleared), text)
  BY <1>4, <1>5, PrintedView
<1> HIDE DEF w
<1>8. Draw(disp, w, Display, page, disp)
  BY <1>3 DEF w
<1>9. w \in Wide /\ mapped' \in Pages /\ mapped' = PageOf(exec', disp')
  BY <1>1, <1>2, <1>7, PagesApart, ViewsWide
<1>10. ConsoleInv'
  BY <1>1, <1>2, <1>7, <1>8, <1>9, DrawnInv
<1>11. Draw(disp, w, PageOf(disp, disp'), page, disp')
  BY <1>2, <1>8 DEF PageOf, Draw
<1>12. \A u \in Terminals : page[PageOf(u, disp')] = page[PageOf(u, disp)]
  BY <1>2
<1>13. /\ ACells' = [ACells EXCEPT ![disp] = Flat(w).cells]
       /\ APos' = [APos EXCEPT ![disp] = Flat(w).pos]
       /\ vga' = APos'[disp']
  BY <1>1, <1>2, <1>9, <1>11, <1>12, DrawBecomes
<1>14. Flat(w) =
         Abstract!Printed([cells |-> [i \in 0 .. Cols * Rows - 1 |-> Blank], pos |-> 0], text)
  BY <1>6, <1>7, Zenon DEF Cells
<1>15. Abstract!Clear(disp, text)
  BY <1>13, <1>14, Zenon
  DEF Abstract!Clear, Abstract!Becomes, Abstract!Tape, Abstract!Size, ACells, APos
<1>16. Abstract!Next
  BY <1>4, <1>13, <1>15, Zenon DEF Abstract!Next, APos, ATexts
<1> QED
  BY <1>10, <1>16 DEF Apart

LEMMA SwitchStep ==
  ASSUME NEW t \in Terminals, ConsoleInv, SwitchTerminal(t)
  PROVE  ConsoleInv' /\ Apart
<1>1. /\ disp' = t /\ mapped' = PageOf(exec, t) /\ exec' = exec /\ steady' = steady
      /\ page' = Switched(t) /\ vga' = Cols * y[t] + x[t] /\ x' = x /\ y' = y
      /\ trap' = trap /\ torn' = torn
  BY DEF SwitchTerminal, Keyboard
<1>2. /\ Switched(t) \in Contents
      /\ \A u \in Terminals : Switched(t)[PageOf(u, t)] = page[PageOf(u, disp)]
  BY SwitchedKeeps
<1>3. ConsoleInv'
  <2>1. exec' \in Terminals /\ mapped' \in Pages /\ trap' \in [Terminals -> Traps]
    BY <1>1, PagesApart DEF ConsoleInv
  <2>2. \A p \in Terminals : /\ Settling(p)' <=> Settling(p)
                             /\ Settling(p) => trap'[p].for = trap[p].for
    BY <1>1 DEF Settling
  <2> QED
    BY <1>1, <1>2, <2>1, <2>2, StillInv
<1>4. ACells' = ACells
  BY <1>1, <1>2 DEF ACells
<1>5. APos' = APos /\ vga' = APos'[disp']
  BY <1>1 DEF APos
<1>6. Abstract!Next
  BY <1>4, <1>5, Zenon DEF Abstract!Next, ACells, APos
<1> QED
  BY <1>3, <1>6 DEF Apart

LEMMA ProgramStep ==
  ASSUME ConsoleInv, Write \/ KernelMessage \/ Read
  PROVE  ConsoleInv' /\ Apart
<1>1. exec \in Terminals /\ disp \in Terminals /\ mapped \in Pages /\ page \in Contents
  BY DEF ConsoleInv
<1>2. /\ exec' = exec /\ disp' = disp /\ mapped' = mapped
      /\ steady' = steady /\ trap' = trap
  BY DEF Write, KernelMessage, Read, Program
<1>3. \A u \in Terminals : page[PageOf(u, disp')] = page[PageOf(u, disp)]
  BY <1>2
<1>4. ASSUME NEW t \in Terminals, NEW text \in ATexts, Puts(t, text, mapped, page, disp)
      PROVE  ConsoleInv' /\ (mapped = PageOf(t, disp) /\ ~Off(t) => Apart)
  <2>1. text \in Texts
    BY SomeTexts DEF ATexts
  <2>2. steady' => mapped' = PageOf(exec', disp')
    BY <1>2 DEF ConsoleInv
  <2>3. ConsoleInv'
    BY <1>1, <1>2, <1>4, <2>1, <2>2, PutsInv
  <2>4. ASSUME mapped = PageOf(t, disp), ~Off(t) PROVE Apart
    <3>1. Puts(t, text, PageOf(t, disp'), page, disp')
      BY <1>2, <1>4, <2>4 DEF Puts, Draw
    <3> QED
      BY <1>1, <1>2, <1>3, <2>4, <3>1, PutsApart
  <2> QED
    BY <2>3, <2>4
<1>5. Astray => ~steady
  BY DEF Astray, ConsoleInv
<1>6. CASE Write
  <2>1. PICK text \in Outputs : Puts(exec, text, mapped, page, disp)
    BY <1>6 DEF Write
  <2>2. text \in ATexts
    BY DEF ATexts
  <2>3. ConsoleInv' /\ (mapped = PageOf(exec, disp) /\ ~Off(exec) => Apart)
    BY <1>1, <1>4, <2>1, <2>2
  <2>4. Astray \/ Off(exec) => Apart
    BY <1>5, <1>6 DEF Apart, Misdirected
  <2> QED
    BY <2>3, <2>4 DEF Astray
<1>7. CASE KernelMessage
  <2>1. Puts(disp, Message, mapped, page, disp) /\ Message \in ATexts
    BY <1>7 DEF KernelMessage, ATexts
  <2>2. ConsoleInv' /\ (mapped = PageOf(disp, disp) /\ ~Off(disp) => Apart)
    BY <1>1, <1>4, <2>1
  <2>3. Astray \/ exec # disp \/ Off(disp) => Apart
    BY <1>5, <1>7 DEF Apart, Misdirected
  <2> QED
    BY <2>2, <2>3 DEF Astray
<1>8. CASE Read
  <2>1. UNCHANGED <<page, x, y, vga, torn>>
    BY <1>8 DEF Read, drawn
  <2>2. \A p \in Terminals : /\ Settling(p)' <=> Settling(p)
                             /\ Settling(p) => trap'[p].for = trap[p].for
    BY <1>2 DEF Settling
  <2>3. trap' \in [Terminals -> Traps] /\ (steady' => mapped' = PageOf(exec', disp'))
    BY <1>2 DEF ConsoleInv
  <2> QED
    BY <1>1, <1>2, <2>1, <2>2, <2>3, StillInv DEF Apart
<1> QED
  BY <1>6, <1>7, <1>8

LEMMA ShellStep ==
  ASSUME ConsoleInv, PitStartShell
  PROVE  ConsoleInv' /\ Apart
<1>1. exec \in Terminals /\ disp \in Terminals /\ mapped \in Pages /\ page \in Contents
  BY DEF ConsoleInv
<1>2. /\ disp' = exec /\ exec' = exec /\ ~steady' /\ trap' = trap
      /\ mapped' = IF disp = exec THEN mapped ELSE Display
      /\ Puts(exec, Banner, mapped', Switched(exec), exec)
  BY DEF PitStartShell
<1>3. /\ Switched(exec) \in Contents
      /\ \A u \in Terminals : Switched(exec)[PageOf(u, exec)] = page[PageOf(u, disp)]
  BY <1>1, SwitchedKeeps
<1>4. Banner \in ATexts /\ Banner \in Texts /\ mapped' \in Pages
  BY <1>1, <1>2, SomeTexts DEF ATexts, Pages
<1>5. ConsoleInv'
  BY <1>1, <1>2, <1>3, <1>4, PutsInv
<1>6. CASE (exec = disp /\ Astray) \/ Off(exec)
  BY <1>5, <1>6 DEF Apart, Misdirected
<1>7. CASE ~(exec = disp /\ Astray) /\ ~Off(exec)
  <2>1. mapped' = PageOf(exec, exec)
    BY <1>2, <1>7 DEF Astray, PageOf
  <2>2. Puts(exec, Banner, PageOf(exec, disp'), Switched(exec), disp')
    BY <1>2, <2>1 DEF Puts, Draw
  <2>3. \A u \in Terminals : Switched(exec)[PageOf(u, disp')] = page[PageOf(u, disp)]
    BY <1>2, <1>3
  <2>4. Apart
    BY <1>1, <1>2, <1>3, <1>4, <1>7, <2>2, <2>3, PutsApart
  <2> QED
    BY <1>5, <2>4
<1> QED
  BY <1>6, <1>7

LEMMA StillStep ==
  ASSUME ConsoleInv, OtherKey \/ UnusedKey \/ PitSwitch
  PROVE  ConsoleInv' /\ Apart
<1>1. UNCHANGED <<page, x, y, disp, vga, trap, torn>>
  BY DEF OtherKey, UnusedKey, PitSwitch, Keyboard, drawn
<1>2. exec \in Terminals /\ disp \in Terminals /\ mapped \in Pages
  BY DEF ConsoleInv
<1>3. /\ exec' \in Terminals /\ mapped' \in Pages
      /\ steady' => mapped' = PageOf(exec', disp')
  <2>1. CASE OtherKey
    BY <1>1, <1>2, <2>1, PagesApart DEF OtherKey, Keyboard
  <2>2. CASE UnusedKey
    BY <1>2, <2>2 DEF UnusedKey, Pages
  <2>3. CASE PitSwitch
    <3>1. exec' \in Terminals
      BY <1>2, <2>3, ConsoleAssumption DEF PitSwitch, Terminals
    <3> QED
      BY <1>1, <1>2, <2>3, <3>1, PagesApart DEF PitSwitch, Remap
  <2> QED
    BY <2>1, <2>2, <2>3
<1>4. \A p \in Terminals : /\ Settling(p)' <=> Settling(p)
                           /\ Settling(p) => trap'[p].for = trap[p].for
  BY <1>1 DEF Settling
<1>5. page' \in Contents /\ disp' \in Terminals /\ trap' \in [Terminals -> Traps]
  BY <1>1 DEF ConsoleInv
<1>6. ConsoleInv'
  BY <1>1, <1>3, <1>4, <1>5, StillInv
<1> QED
  BY <1>1, <1>6 DEF Apart

(* An exception's message changes only the page that is mapped.             *)
LEMMA TrappedApart ==
  ASSUME ConsoleInv, Trapped, mapped' = mapped, exec' = exec, disp' = disp,
         page' = page \/ \E cells : page' = [page EXCEPT ![mapped] = cells]
  PROVE  Apart
<1>1. exec \in Terminals /\ disp \in Terminals /\ (steady => mapped = PageOf(exec, disp))
  BY DEF ConsoleInv
<1>2. ASSUME steady, NEW t \in Terminals \ {exec}
      PROVE  page'[PageOf(t, disp)] = page[PageOf(t, disp)]
  <2>1. PageOf(t, disp) # mapped /\ PageOf(t, disp) \in Pages
    BY <1>1, <1>2, PagesApart
  <2> QED
    BY <2>1 DEF ConsoleInv, Contents
<1>3. Misdirected
  BY <1>2 DEF Misdirected
<1> QED
  BY <1>3 DEF Apart

(* The steps of an exception that move no place to write.                   *)
LEMMA TrapStillStep ==
  ASSUME ConsoleInv, Raise \/ CallPutc \/ StoreChar \/ ScrollRow \/ DrawCursor
  PROVE  ConsoleInv' /\ Apart
<1>1. /\ exec \in Terminals /\ disp \in Terminals /\ mapped \in Pages
      /\ page \in Contents /\ trap \in [Terminals -> Traps]
      /\ steady => mapped = PageOf(exec, disp)
  BY DEF ConsoleInv
<1>2. /\ exec' = exec /\ disp' = disp /\ mapped' = mapped /\ steady' = steady
      /\ x' = x /\ y' = y /\ torn' = torn
  BY DEF Raise, CallPutc, StoreChar, ScrollRow, DrawCursor, Trap, drawn
<1>3. PICK r \in Traps : r = trap[exec]
  BY <1>1
<1>4. /\ r.char \in 0 .. Len(Exception) /\ r.for \in Terminals /\ r.row \in Nat
      /\ r.stage # "none" => r.char # 0
      /\ Len(Exception) \in Nat /\ Len(Exception) # 0
      /\ Rows \in Nat \ {0} /\ 0 \in Terminals
  BY <1>3, ConsoleAssumption DEF Traps, Terminals
<1>5. ASSUME NEW q \in Traps, trap' = [trap EXCEPT ![exec] = q],
             r.stage # "settle", q.stage # "settle", page' \in Contents
      PROVE  ConsoleInv'
  <2>1. trap' \in [Terminals -> Traps]
    BY <1>1, <1>5
  <2>2. \A p \in Terminals : /\ Settling(p)' <=> Settling(p)
                             /\ Settling(p) => trap'[p].for = trap[p].for
    BY <1>1, <1>3, <1>5 DEF Settling
  <2> QED
    BY <1>1, <1>2, <1>5, <2>1, <2>2, StillInv
<1>6. CASE Raise
  <2>1. page' = page /\ r.stage = "none"
    BY <1>3, <1>6 DEF Raise, Trap, drawn
  <2>2. PICK q : q = [r EXCEPT !.char = 1, !.stage = "call"]
    OBVIOUS
  <2>3. trap' = [trap EXCEPT ![exec] = q]
    BY <1>1, <1>3, <1>6, <2>2 DEF Raise
  <2>4. q \in Traps /\ q.stage = "call"
    <3>1. 1 \in 0 .. Len(Exception) /\ 1 # 0
      BY <1>4
    <3> QED
      BY <2>2, <3>1 DEF Traps
  <2>5. Trapped
    BY <1>6 DEF Trapped
  <2> QED
    BY <1>1, <1>2, <1>5, <2>1, <2>3, <2>4, <2>5, TrappedApart
<1>7. CASE CallPutc
  <2>1. page' = page /\ r.stage = "call"
    BY <1>3, <1>7 DEF CallPutc, Trap, drawn
  <2>2. PICK q : q = [r EXCEPT !.stage = "store", !.for = disp]
    OBVIOUS
  <2>3. trap' = [trap EXCEPT ![exec] = q]
    BY <1>1, <1>3, <1>7, <2>2 DEF CallPutc
  <2>4. q \in Traps /\ q.stage = "store"
    BY <1>1, <1>4, <2>1, <2>2 DEF Traps
  <2>5. Trapped
    BY <1>7 DEF Trapped
  <2> QED
    BY <1>1, <1>2, <1>5, <2>1, <2>3, <2>4, <2>5, TrappedApart
<1>8. CASE StoreChar
  <2>1. r.stage = "store" /\ r.char \in DOMAIN Exception
    <3>1. r.stage = "store"
      BY <1>3, <1>8 DEF StoreChar, Trap
    <3>2. DOMAIN Exception = 1 .. Len(Exception)
      BY SomeTexts DEF Texts
    <3> QED
      BY <1>4, <3>1, <3>2
  <2>2. PICK c : c = Exception[r.char]
    OBVIOUS
  <2>3. c \in Chars \cup {Newline}
    BY <2>1, <2>2, SomeTexts DEF Texts
  <2>4. PICK cells : /\ page' = [page EXCEPT ![mapped] = cells]
                     /\ cells = Store(Through(r.for, mapped, page), c).cells
    BY <1>3, <1>8, <2>2 DEF StoreChar
  <2>5. cells \in [Cells -> Marks]
    <3>1. PICK k \in [Cells -> Marks], a \in Nat, b \in Nat :
            Through(r.for, mapped, page) = View(k, a, b)
      BY <1>1, <1>4, ThroughIs, WideAre
    <3>2. c \in Marks \/ c = Newline
      BY <2>3 DEF Marks
    <3>3. CASE c = Newline
      BY <2>4, <3>1, <3>3, StoreIs, Parts
    <3>4. CASE c # Newline
      <4>1. Store(View(k, a, b), c) = View(Wrote(k, Cols * b + a, c), a, b)
        BY <3>4, StoreIs
      <4>2. cells = Wrote(k, Cols * b + a, c)
        BY <2>4, <3>1, <4>1, Parts
      <4> QED
        BY <3>2, <3>4, <4>2 DEF Wrote
    <3> QED
      BY <3>3, <3>4
  <2>6. page' \in Contents
    BY <1>1, <2>4, <2>5 DEF Contents
  <2>7. PICK q : q = [r EXCEPT !.stage = "advance"]
    OBVIOUS
  <2>8. trap' = [trap EXCEPT ![exec] = q]
    BY <1>1, <1>3, <1>8, <2>7 DEF StoreChar, Goes
  <2>9. q \in Traps /\ q.stage = "advance"
    BY <1>4, <2>1, <2>7 DEF Traps
  <2>10. Trapped
    BY <1>8 DEF Trapped
  <2> QED
    BY <1>2, <1>5, <2>1, <2>4, <2>6, <2>8, <2>9, <2>10, TrappedApart
<1>9. CASE ScrollRow
  <2>1. r.stage = "scroll"
    BY <1>3, <1>9 DEF ScrollRow, Trap
  <2>2. PICK cells : /\ page' = [page EXCEPT ![mapped] = cells]
                     /\ cells = [i \in Cells |-> IF i \div Cols = r.row
                                                 THEN ScrollUp(page[mapped])[i]
                                                 ELSE page[mapped][i]]
    BY <1>1, <1>3, <1>9 DEF ScrollRow, Contents
  <2>3. cells \in [Cells -> Marks]
    <3>1. page[mapped] \in [Cells -> Marks]
      BY <1>1 DEF Contents
    <3>2. ScrollUp(page[mapped]) \in [Cells -> Marks]
      BY <3>1, ScrollUpIs
    <3> QED
      BY <2>2, <3>1, <3>2
  <2>4. page' \in Contents
    BY <1>1, <2>2, <2>3 DEF Contents
  <2>5. PICK q : q = [r EXCEPT !.row = (r.row + 1) % Rows,
                               !.stage = IF r.row = Rows - 1 THEN "cursor" ELSE r.stage]
    OBVIOUS
  <2>6. trap' = [trap EXCEPT ![exec] = q]
    BY <1>1, <1>3, <1>9, <2>5 DEF ScrollRow
  <2>7. q \in Traps /\ q.stage # "settle"
    <3>1. (r.row + 1) % Rows \in Nat
      BY <1>4
    <3> QED
      BY <1>4, <2>1, <2>5, <3>1 DEF Traps
  <2>8. Trapped
    BY <1>9 DEF Trapped
  <2> QED
    BY <1>2, <1>5, <2>1, <2>2, <2>4, <2>6, <2>7, <2>8, TrappedApart
<1>10. CASE DrawCursor
  <2>1. r.stage = "cursor" /\ page' = page
    BY <1>3, <1>10 DEF DrawCursor, Trap
  <2>2. PICK q : q = IF r.char = Len(Exception) THEN NoTrap
                     ELSE [NoTrap EXCEPT !.char = r.char + 1, !.stage = "call"]
    OBVIOUS
  <2>3. trap' = [trap EXCEPT ![exec] = q]
    BY <1>1, <1>3, <1>10, <2>2 DEF DrawCursor
  <2>4. q \in Traps /\ q.stage # "settle"
    <3>1. NoTrap \in Traps /\ NoTrap.stage = "none"
      BY <1>4 DEF Traps, NoTrap
    <3>2. CASE r.char = Len(Exception)
      BY <2>2, <3>1, <3>2
    <3>3. CASE r.char # Len(Exception)
      <4>1. r.char + 1 \in 0 .. Len(Exception) /\ r.char + 1 # 0
        BY <1>4, <3>3
      <4>2. q = [NoTrap EXCEPT !.char = r.char + 1, !.stage = "call"]
        BY <2>2, <3>3
      <4> QED
        BY <3>1, <4>1, <4>2 DEF Traps
    <3> QED
      BY <3>2, <3>3
  <2>5. Trapped
    BY <1>10 DEF Trapped
  <2> QED
    BY <1>1, <1>2, <1>5, <2>1, <2>3, <2>4, <2>5, TrappedApart
<1> QED
  BY <1>6, <1>7, <1>8, <1>9, <1>10

(* A new place, one too far at most if the one before is on the screen.     *)
LEMMA AdvanceStep ==
  ASSUME ConsoleInv, Advance
  PROVE  ConsoleInv' /\ Apart
<1>1. /\ exec \in Terminals /\ disp \in Terminals /\ mapped \in Pages
      /\ page \in Contents /\ trap \in [Terminals -> Traps] /\ torn \subseteq Terminals
      /\ x \in [Terminals -> Nat] /\ y \in [Terminals -> Nat]
      /\ steady => mapped = PageOf(exec, disp)
  BY DEF ConsoleInv
<1>2. PICK t \in Terminals : t = trap[exec].for
  BY <1>1 DEF Traps
<1>3. /\ exec' = exec /\ disp' = disp /\ mapped' = mapped /\ steady' = steady
      /\ page' = page /\ trap[exec].stage = "advance" /\ Tear(t, FALSE)
      /\ trap' = [trap EXCEPT ![exec].stage = "settle"]
  BY <1>2 DEF Advance, Trap, Goes
<1>4. Cols \in Nat /\ Rows \in Nat \ {0}
  BY ConsoleAssumption
<1>5. PICK a \in Nat, b \in Nat :
        /\ x' = [x EXCEPT ![t] = a] /\ y' = [y EXCEPT ![t] = b]
        /\ ~Off(t) => a <= Cols /\ b <= Rows
  <2>1. PICK c : c = Exception[trap[exec].char]
    OBVIOUS
  <2>2. PICK v : v = Forward(View(page[mapped], x[t], y[t]), c)
    OBVIOUS
  <2>3. x' = [x EXCEPT ![t] = v.x] /\ y' = [y EXCEPT ![t] = v.y]
    BY <1>2, <2>1, <2>2 DEF Advance, Through, View
  <2>4. CASE c = Newline
    <3>1. v.x = 0 /\ v.y = y[t] + 1
      BY <2>2, <2>4, ForwardIs, Parts
    <3>2. ~Off(t) => y[t] + 1 <= Rows
      BY <1>1, <1>4 DEF Off
    <3>3. 0 \in Nat /\ y[t] + 1 \in Nat /\ 0 <= Cols
      BY <1>1, <1>4
    <3> QED
      BY <2>3, <3>1, <3>2, <3>3
  <2>5. CASE c # Newline
    <3>1. v.x = x[t] + 1 /\ v.y = y[t] % Rows
      BY <2>2, <2>5, ForwardIs, Parts
    <3>2. x[t] + 1 \in Nat /\ y[t] % Rows \in 0 .. Rows - 1
      BY <1>1, <1>4
    <3>3. ~Off(t) => x[t] + 1 <= Cols
      BY <1>1, <1>4 DEF Off
    <3>4. y[t] % Rows \in Nat /\ y[t] % Rows <= Rows
      BY <1>4, <3>2
    <3> QED
      BY <2>3, <3>1, <3>2, <3>3, <3>4
  <2> QED
    BY <2>4, <2>5
<1>6. /\ x' \in [Terminals -> Nat] /\ y' \in [Terminals -> Nat]
      /\ x'[t] = a /\ y'[t] = b
      /\ \A u \in Terminals : u # t => x'[u] = x[u] /\ y'[u] = y[u]
  BY <1>1, <1>5
<1>7. /\ torn' \subseteq Terminals /\ torn \subseteq torn'
      /\ \A u \in Terminals : u # t => (u \in torn' <=> u \in torn)
      /\ Between(t) => t \in torn'
  <2>1. torn' = IF Between(t) THEN torn \cup {t} ELSE torn
    BY <1>3 DEF Tear
  <2> QED
    BY <1>1, <2>1
<1>8. /\ trap' \in [Terminals -> Traps]
      /\ trap'[exec].stage = "settle" /\ ~Settling(exec) /\ trap'[exec].for = t
      /\ \A p \in Terminals : p # exec => trap'[p] = trap[p]
  <2>1. PICK r \in Traps : r = trap[exec]
    BY <1>1
  <2>2. PICK q : q = [r EXCEPT !.stage = "settle"]
    OBVIOUS
  <2>3. r.stage = "advance" /\ r.for = t
    BY <1>2, <1>3, <2>1
  <2>4. q \in Traps /\ q.stage = "settle" /\ q.for = t
    BY <2>2, <2>3 DEF Traps
  <2>5. trap' = [trap EXCEPT ![exec] = q]
    BY <1>1, <1>3, <2>1, <2>2
  <2> QED
    BY <1>1, <2>1, <2>3, <2>4, <2>5 DEF Settling
<1>9. ASSUME NEW u \in Terminals \ torn'
      PROVE  IF Between(u)' THEN Near(u)' ELSE ~Off(u)'
  <2>1. u \notin torn
    BY <1>7
  <2>2. CASE u = t
    <3>1. ~Off(t)
      BY <1>7, <2>1, <2>2 DEF ConsoleInv, PlacesInv
    <3>2. Near(t)'
      BY <1>4, <1>5, <1>6, <3>1 DEF Near
    <3>3. Between(t)'
      BY <1>1, <1>8 DEF Between, Settling
    <3> QED
      BY <2>2, <3>2, <3>3
  <2>3. CASE u # t
    <3>1. Between(u)' <=> Between(u)
      <4>1. \A p \in Terminals :
              /\ (trap'[p].stage = "settle" /\ trap'[p].for = u)
                   <=> (trap[p].stage = "settle" /\ trap[p].for = u)
        BY <1>8, <2>3 DEF Settling
      <4> QED
        BY <4>1 DEF Between
    <3>2. (Near(u)' <=> Near(u)) /\ (Off(u)' <=> Off(u))
      BY <1>6, <2>3 DEF Near, Off
    <3> QED
      BY <2>1, <3>1, <3>2 DEF ConsoleInv, PlacesInv
  <2> QED
    BY <2>2, <2>3
<1>10. ASSUME NEW p \in Terminals, NEW q \in Terminals,
              Settling(p)', Settling(q)', p # q, trap'[p].for = trap'[q].for
       PROVE  trap'[p].for \in torn'
  <2>1. CASE p # exec /\ q # exec
    <3>1. Settling(p) /\ Settling(q) /\ trap[p].for = trap[q].for
      BY <1>8, <1>10, <2>1 DEF Settling
    <3>2. trap[p].for \in torn
      BY <1>10, <3>1 DEF ConsoleInv, PlacesInv
    <3> QED
      BY <1>7, <1>8, <2>1, <3>2
  <2>2. ASSUME NEW s \in Terminals, s # exec, Settling(s)', trap'[s].for = t
        PROVE  t \in torn'
    <3>1. Between(t)
      BY <1>8, <2>2 DEF Between, Settling
    <3> QED
      BY <1>7, <3>1
  <2>3. CASE p = exec
    BY <1>8, <1>10, <2>2, <2>3
  <2>4. CASE q = exec
    BY <1>8, <1>10, <2>2, <2>4
  <2> QED
    BY <2>1, <2>3, <2>4
<1>11. PlacesInv'
  BY <1>9, <1>10 DEF PlacesInv
<1>12. ConsoleInv'
  BY <1>1, <1>3, <1>6, <1>7, <1>8, <1>11 DEF ConsoleInv
<1>13. Trapped
  BY DEF Trapped
<1> QED
  BY <1>3, <1>12, <1>13, TrappedApart

(* The test of the end of a row.                                            *)
LEMMA SettleRowStep ==
  ASSUME ConsoleInv, SettleRow
  PROVE  ConsoleInv' /\ Apart
<1>1. /\ exec \in Terminals /\ disp \in Terminals /\ mapped \in Pages
      /\ page \in Contents /\ trap \in [Terminals -> Traps] /\ torn \subseteq Terminals
      /\ x \in [Terminals -> Nat] /\ y \in [Terminals -> Nat]
      /\ steady => mapped = PageOf(exec, disp)
  BY DEF ConsoleInv
<1>2. PICK t \in Terminals : t = trap[exec].for
  BY <1>1 DEF Traps
<1>3. PICK stage \in {"scroll", "cursor"} : trap' = [trap EXCEPT ![exec].stage = stage]
  BY DEF SettleRow, Goes
<1>4. /\ exec' = exec /\ disp' = disp /\ mapped' = mapped /\ steady' = steady
      /\ page' = page /\ torn' = torn /\ trap[exec].stage = "settle"
  BY DEF SettleRow, Trap
<1>5. PICK a \in Nat, b \in Nat :
        /\ x' = [x EXCEPT ![t] = a] /\ y' = [y EXCEPT ![t] = b]
        /\ Near(t) => a \in 0 .. Cols - 1 /\ b \in 0 .. Rows - 1
  <2>1. PICK v : v = Settle(View(page[mapped], x[t], y[t]))
    OBVIOUS
  <2>2. x' = [x EXCEPT ![t] = v.x] /\ y' = [y EXCEPT ![t] = v.y]
    BY <1>2, <2>1 DEF SettleRow, Through, View
  <2>3. page[mapped] \in [Cells -> Marks] /\ x[t] \in Nat /\ y[t] \in Nat
    BY <1>1 DEF Contents
  <2>4. v \in Wide /\ (x[t] <= Cols /\ y[t] <= Rows => v \in Views)
    BY <2>1, <2>3, SettleWide
  <2>5. v.x \in Nat /\ v.y \in Nat
    BY <2>4, WideAre
  <2>6. Near(t) => v \in Views
    <3>1. Near(t) => x[t] <= Cols /\ y[t] <= Rows
      BY ConsoleAssumption DEF Near
    <3> QED
      BY <2>4, <3>1
  <2>7. Near(t) => v.x \in 0 .. Cols - 1 /\ v.y \in 0 .. Rows - 1
    BY <2>6, ViewsAre
  <2> QED
    BY <2>2, <2>5, <2>7
<1>6. /\ x' \in [Terminals -> Nat] /\ y' \in [Terminals -> Nat]
      /\ x'[t] = a /\ y'[t] = b
      /\ \A u \in Terminals : u # t => x'[u] = x[u] /\ y'[u] = y[u]
  BY <1>1, <1>5
<1>7. /\ trap' \in [Terminals -> Traps]
      /\ Settling(exec) /\ trap'[exec].stage # "settle"
      /\ \A p \in Terminals : p # exec => trap'[p] = trap[p]
  <2>1. PICK r \in Traps : r = trap[exec]
    BY <1>1
  <2>2. PICK q : q = [r EXCEPT !.stage = stage]
    OBVIOUS
  <2>3. r.stage = "settle"
    BY <1>4, <2>1
  <2>4. q \in Traps /\ q.stage # "settle"
    BY <2>2, <2>3 DEF Traps
  <2>5. trap' = [trap EXCEPT ![exec] = q]
    BY <1>1, <1>3, <2>1, <2>2
  <2> QED
    BY <1>1, <2>1, <2>3, <2>4, <2>5 DEF Settling
<1>8. Between(t)
  BY <1>1, <1>2, <1>4 DEF Between
<1>9. ASSUME NEW u \in Terminals \ torn'
      PROVE  IF Between(u)' THEN Near(u)' ELSE ~Off(u)'
  <2>1. u \notin torn
    BY <1>4
  <2>2. CASE u = t
    <3>1. Near(t)
      BY <1>8, <2>1, <2>2 DEF ConsoleInv, PlacesInv
    <3>2. ~Off(t)'
      BY <1>5, <1>6, <3>1 DEF Off
    <3>3. \A p \in Terminals : ~(trap'[p].stage = "settle" /\ trap'[p].for = t)
      <4>1. ASSUME NEW p \in Terminals, trap'[p].stage = "settle", trap'[p].for = t
            PROVE  FALSE
        <5>1. p # exec /\ Settling(p) /\ trap[p].for = t
          BY <1>7, <4>1 DEF Settling
        <5>2. t \in torn
          BY <1>1, <1>2, <1>7, <5>1 DEF ConsoleInv, PlacesInv
        <5> QED
          BY <2>1, <2>2, <5>2
      <4> QED
        BY <4>1
    <3>4. ~Between(t)'
      BY <3>3 DEF Between
    <3> QED
      BY <2>2, <3>2, <3>4
  <2>3. CASE u # t
    <3>1. Between(u)' <=> Between(u)
      <4>1. \A p \in Terminals :
              /\ (trap'[p].stage = "settle" /\ trap'[p].for = u)
                   <=> (trap[p].stage = "settle" /\ trap[p].for = u)
        BY <1>2, <1>7, <2>3 DEF Settling
      <4> QED
        BY <4>1 DEF Between
    <3>2. (Near(u)' <=> Near(u)) /\ (Off(u)' <=> Off(u))
      BY <1>6, <2>3 DEF Near, Off
    <3> QED
      BY <2>1, <3>1, <3>2 DEF ConsoleInv, PlacesInv
  <2> QED
    BY <2>2, <2>3
<1>10. ASSUME NEW p \in Terminals, NEW q \in Terminals,
              Settling(p)', Settling(q)', p # q, trap'[p].for = trap'[q].for
       PROVE  trap'[p].for \in torn'
  <2>1. p # exec /\ q # exec /\ trap'[p] = trap[p] /\ trap'[q] = trap[q]
    BY <1>7, <1>10 DEF Settling
  <2>2. Settling(p) /\ Settling(q) /\ trap[p].for = trap[q].for
    BY <1>10, <2>1 DEF Settling
  <2> QED
    BY <1>4, <1>10, <2>1, <2>2 DEF ConsoleInv, PlacesInv
<1>11. PlacesInv'
  BY <1>9, <1>10 DEF PlacesInv
<1>12. ConsoleInv'
  BY <1>1, <1>4, <1>6, <1>7, <1>11 DEF ConsoleInv
<1>13. Trapped
  BY DEF Trapped
<1> QED
  BY <1>4, <1>12, <1>13, TrappedApart

LEMMA ConsoleStep ==
  ASSUME ConsoleInv, [NextConsole]_console
  PROVE  ConsoleInv' /\ Apart
<1>1. ASSUME NEW c \in Chars, Type(c) PROVE ConsoleInv' /\ Apart
  <2>1. ConsoleInv' /\ (~Off(disp) => Apart)
    BY <1>1, EchoStep DEF Type, ATexts
  <2>2. Off(disp) => Apart
    BY <1>1 DEF Apart, Misdirected
  <2> QED
    BY <2>1, <2>2
<1>2. CASE Enter
  <2>1. ConsoleInv' /\ (~Off(disp) => Apart)
    BY <1>2, EchoStep DEF Enter, ATexts
  <2>2. Off(disp) => Apart
    BY <1>2 DEF Apart, Misdirected
  <2> QED
    BY <2>1, <2>2
<1>3. CASE Backspace
  BY <1>3, BackspaceStep
<1>4. CASE ClearScreen
  BY <1>4, ClearStep
<1>5. CASE OtherKey \/ UnusedKey \/ PitSwitch
  BY <1>5, StillStep
<1>6. ASSUME NEW t \in Terminals, SwitchTerminal(t) PROVE ConsoleInv' /\ Apart
  BY <1>6, SwitchStep
<1>7. CASE Write \/ KernelMessage \/ Read
  BY <1>7, ProgramStep
<1>8. CASE PitStartShell
  BY <1>8, ShellStep
<1>9. CASE Trapped
  BY <1>9, TrapStillStep, AdvanceStep, SettleRowStep DEF Trapped
<1>10. CASE UNCHANGED console
  <2>1. UNCHANGED <<exec, disp, mapped, page, x, y, vga, trap, steady, torn>>
    BY <1>10 DEF console
  <2>2. \A p \in Terminals : /\ Settling(p)' <=> Settling(p)
                             /\ Settling(p) => trap'[p].for = trap[p].for
    BY <2>1 DEF Settling
  <2>3. /\ page' \in Contents /\ exec' \in Terminals /\ disp' \in Terminals
        /\ mapped' \in Pages /\ trap' \in [Terminals -> Traps]
        /\ steady' => mapped' = PageOf(exec', disp')
    BY <2>1 DEF ConsoleInv
  <2> QED
    BY <2>1, <2>2, <2>3, StillInv DEF Apart
<1> QED
  BY <1>1, <1>2, <1>3, <1>4, <1>5, <1>6, <1>7, <1>8, <1>9, <1>10, Zenon DEF NextConsole, Pit

LEMMA ConsoleStart ==
  ASSUME InitConsole
  PROVE  ConsoleInv /\ Abstract!Init
<1>1. /\ exec \in Terminals /\ disp \in Terminals /\ mapped \in Pages
      /\ page \in Contents /\ ~steady
  BY ConsoleAssumption DEF InitConsole, Terminals, Pages, Contents, Marks
<1>2. Cells = 0 .. Cols * Rows - 1
  BY DEF Cells
<1>3. [u \in Terminals |-> page[PageOf(u, disp)]] =
        [u \in Terminals |-> [i \in 0 .. Cols * Rows - 1 |-> Blank]]
  BY <1>1, <1>2, PagesApart DEF InitConsole, Pages
<1>4. [u \in Terminals |-> Cols * y[u] + x[u]] = [u \in Terminals |-> 0] /\ vga = 0
  BY ConsoleAssumption DEF InitConsole
<1>5. x \in [Terminals -> Nat] /\ y \in [Terminals -> Nat] /\ torn = {}
  BY DEF InitConsole
<1>6. trap \in [Terminals -> Traps]
  <2>1. NoTrap \in Traps
    BY ConsoleAssumption DEF NoTrap, Traps, Terminals
  <2> QED
    BY <2>1 DEF InitConsole
<1>7. \A t \in Terminals : trap[t].stage # "settle" /\ ~Off(t)
  BY ConsoleAssumption DEF InitConsole, NoTrap, Off
<1>8. PlacesInv
  BY <1>7 DEF PlacesInv, Between, Settling
<1> QED
  BY <1>1, <1>3, <1>4, <1>5, <1>6, <1>8, Zenon
  DEF ConsoleInv, Abstract!Init, Abstract!Tape, Abstract!Size

(* The executing terminal's page is mapped while the display is steady, and *)
(* every page, place to write and terminal is one there is.                 *)
THEOREM ConsoleInvariance == SpecConsole => []ConsoleInv
BY ConsoleStart, ConsoleStep, PTL DEF SpecConsole

(* For every number and size of screens, whatever is printed and whenever   *)
(* exceptions come: every text leaves the place to write on the screen,     *)
(* unless something was drawn for the terminal in the middle of an          *)
(* exception's putc for it and no new line came since.                      *)
THEOREM NeverOffScreen == SpecConsole => []PlaceOnScreen
<1>1. ConsoleInv => PlaceOnScreen
  BY DEF ConsoleInv, PlacesInv, PlaceOnScreen
<1> QED
  BY <1>1, ConsoleInvariance, PTL

(* The console implements Screens: but for the output that Misdirected       *)
(* names, keys, programs, scrolling and switches change the screen of one    *)
(* terminal, in front or not, as its tape would, and the cursor follows; and *)
(* a steady display keeps an exception's message on its terminal's screen.   *)
THEOREM ScreensKeptApart == SpecConsole => ScreensApart
<1>1. InitConsole => Abstract!Init
  BY ConsoleStart
<1>2. ConsoleInv /\ [NextConsole]_console =>
        [Misdirected \/ Abstract!Next]_<<page, x, y, disp, vga>>
  BY ConsoleStep DEF Apart
<1> QED
  BY <1>1, <1>2, ConsoleInvariance, PTL DEF SpecConsole, ScreensApart
=============================================================================
