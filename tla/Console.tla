------------------------------ MODULE Console -------------------------------
(***************************************************************************)
(* The kernel's text display: putc and its callers in lib.c, terminal.c and *)
(* keyboard.c, the terminals' saved screens and the mapping of the video    *)
(* page that decides where a program's output goes.                         *)
(*                                                                          *)
(* Interrupts are off in the keyboard's and the timer's handler and in      *)
(* system calls, so each is a step.  Exceptions come through trap gates:    *)
(* their handler prints with interrupts on, and its putc is cut into steps  *)
(* where a key, a tick or another program can see or change what it uses.   *)
(*                                                                          *)
(* The keyboard handler maps the display while it draws, and maps the       *)
(* executing terminal's page again on every return but one.  The first      *)
(* ticks start the shells.  Line buffers are module Terminal's: here only   *)
(* their lengths, which tell whether backspace erases.                      *)
(*                                                                          *)
(* Programs print no backspace: putc erases on the displayed terminal then, *)
(* whoever prints.                                                          *)
(***************************************************************************)
EXTENDS Integers, Sequences

CONSTANTS
  NumTerminals, \* the terminals (3)
  Cols, Rows,   \* NUM_COLS, NUM_ROWS
  Chars,        \* printable characters
  Outputs,      \* what programs write in one call
  Prompt,       \* "391OS> "
  Banner,       \* "Terminal n"
  Message,      \* what the kernel prints in a system call
  Exception,    \* what it prints for an exception
  PageCells,    \* bound: the characters of a page, shown or not (2048); a text
                \* that would leave the page is not put
  MaxLength,    \* bound: characters typed in a line
  Faulty        \* bound: the terminals whose programs have exceptions

Blank == "blank"
Newline == "newline"
Backspaced == "backspace"

ASSUME ConsoleAssumption ==
  /\ NumTerminals \in Nat \ {0} /\ MaxLength \in Nat
  /\ Cols \in Nat \ {0, 1} /\ Rows \in Nat \ {0}
  /\ Chars \cap {Blank, Newline, Backspaced} = {}
  /\ Outputs \cup {Prompt, Banner, Message, Exception} \subseteq Seq(Chars \cup {Newline})
  /\ Exception # <<>>
  /\ PageCells \in Nat

Terminals == 0 .. NumTerminals - 1
Cells == 0 .. Cols * Rows - 1
Display == -1   \* the page at VIDEO_ADDRESS; others are the terminals' own

VARIABLES
  exec,    \* exec_terminal
  disp,    \* disp_terminal
  started, \* the terminals that have a PCB
  mapped,  \* page_table[VIDEO_INDEX]: the page that putc writes to
  page,    \* the characters of the display and of each terminal's vid_mem
  x, y,    \* terminals[t].x and y
  vga,     \* the VGA's cursor location
  length,  \* terminals[t].buffer_length
  unacked, \* a keyboard interrupt was not acknowledged: no other comes
  trap,    \* each terminal's exception while it is printed: the character, the
           \* stage of its putc, the terminal that putc draws for, scroll_up's row
  steady,  \* history: since the timer last mapped a page, no shell was started
           \* and no key without a character pressed
  torn     \* history: the terminals that something was drawn for in the middle
           \* of an exception's putc, until a new line or a cleared screen

console == <<exec, disp, started, mapped, page, x, y, vga, length, unacked, trap, steady, torn>>
drawn == <<page, x, y, vga>>

NoTrap == [char |-> 0, stage |-> "none", for |-> 0, row |-> 0]

(* init_terminal, after the boot's messages have been cleared               *)
InitConsole ==
  /\ exec = 1 % NumTerminals /\ disp = 0
  /\ started = {} /\ mapped = Display
  /\ page = [p \in {Display} \cup Terminals |-> [i \in Cells |-> Blank]]
  /\ x = [t \in Terminals |-> 0] /\ y = [t \in Terminals |-> 0]
  /\ vga = 0
  /\ length = [t \in Terminals |-> 0]
  /\ unacked = FALSE /\ steady = FALSE
  /\ trap = [t \in Terminals |-> NoTrap] /\ torn = {}

----------------------------------------------------------------------------
(* set_vidmem                                                               *)
PageOf(t, d) == IF t = d THEN Display ELSE t

ScrollUp(cells) == [i \in Cells |-> IF i + Cols \in Cells THEN cells[i + Cols] ELSE Blank]

(* clear and reset_cursor                                                   *)
Cleared == [cells |-> [i \in Cells |-> Blank], x |-> 0, y |-> 0]

(* putc on v, the page written to and the terminal's x and y.  Outside of   *)
(* the cells nothing is seen.                                               *)
Rub(v) ==
  LET u == CASE v.x > 0 -> [v EXCEPT !.x = @ - 1]
             [] v.x = 0 /\ v.y # 0 -> [v EXCEPT !.x = Cols - 2, !.y = @ - 1]
             [] OTHER -> v
  IN  [u EXCEPT !.cells[Cols * u.y + u.x] = Blank]

SettleLate(v) ==
  IF v.x = Cols /\ v.y < Rows THEN [v EXCEPT !.x = 0, !.y = @ + 1]
  ELSE IF v.y > Rows THEN [cells |-> ScrollUp(v.cells), x |-> 0, y |-> Rows - 1]
  ELSE v

(* The end of a row, and of the screen.                                     *)
EndsScreen(v) == (v.x = Cols /\ v.y = Rows - 1) \/ v.y > Rows - 1

Settle(v) ==
  IF v.x = Cols /\ v.y < Rows - 1 THEN [v EXCEPT !.x = 0, !.y = @ + 1]
  ELSE IF EndsScreen(v) THEN [cells |-> ScrollUp(v.cells), x |-> 0, y |-> Rows - 1]
  ELSE v

(* The next place, before that.                                             *)
Forward(v, c) == IF c = Newline THEN [v EXCEPT !.x = 0, !.y = @ + 1]
                 ELSE [v EXCEPT !.x = @ + 1, !.y = @ % Rows]

Store(v, c) == IF c = Newline THEN v ELSE [v EXCEPT !.cells[Cols * v.y + v.x] = c]

PutC(v, c) == IF c = Backspaced THEN Rub(v) ELSE Settle(Forward(Store(v, c), c))

(* A text is put character by character.                                    *)
Printed(v, text) ==
  LET after[n \in 0 .. Len(text)] == IF n = 0 THEN v ELSE PutC(after[n - 1], text[n])
  IN  after[Len(text)]

(* puts or printf of a text for terminal t, through a page, while d is      *)
(* displayed; draw_cursor draws the displayed terminal's cursor.            *)
Draw(t, v, to, pages, d) ==
  /\ page' = [pages EXCEPT ![to] = v.cells]
  /\ x' = [x EXCEPT ![t] = v.x]
  /\ y' = [y EXCEPT ![t] = v.y]
  /\ vga' = Cols * y'[d] + x'[d]

(* putc for terminal t through a page.                                      *)
Through(t, to, pages) == [cells |-> pages[to], x |-> x[t], y |-> y[t]]

(* An exception's putc is between a new place of terminal t and the test of *)
(* the end of its row.                                                      *)
Between(t) == \E p \in Terminals : trap[p].stage = "settle" /\ trap[p].for = t

(* What is drawn there tears the line.                                      *)
Tear(t, renewed) ==
  torn' = IF Between(t) THEN torn \cup {t} ELSE IF renewed THEN torn \ {t} ELSE torn

FitsPage(t, text) ==
  t \in torn \/ Between(t) => Cols * y[t] + x[t] + Len(text) <= PageCells

Puts(t, text, to, pages, d) ==
  /\ Draw(t, Printed(Through(t, to, pages), text), to, pages, d)
  /\ Tear(t, \E i \in DOMAIN text : text[i] = Newline)

(* switch_terminal's copies                                                 *)
Switched(t) == IF t = disp THEN page
               ELSE [page EXCEPT ![disp] = page[Display], ![Display] = page[t]]

----------------------------------------------------------------------------
(* The keyboard handler draws on the display; then set_vidmem.              *)
Keyboard(d) ==
  /\ ~unacked
  /\ disp' = d
  /\ mapped' = PageOf(exec, d)
  /\ UNCHANGED <<exec, started, unacked, trap, steady>>

Echo(text) == FitsPage(disp, text) /\ Puts(disp, text, Display, page, disp)

Type(c) ==
  /\ Keyboard(disp)
  /\ length[disp] < MaxLength
  /\ Echo(<<c>>)
  /\ length' = [length EXCEPT ![disp] = @ + 1]

Enter ==
  /\ Keyboard(disp)
  /\ Echo(<<Newline>>)
  /\ UNCHANGED length

Backspace ==
  /\ Keyboard(disp)
  /\ length[disp] > 0
  /\ Echo(<<Backspaced>>)
  /\ length' = [length EXCEPT ![disp] = @ - 1]

(* Ctrl+L, on a terminal that has a program: clear, reset_cursor and, for a *)
(* shell, the prompt.                                                       *)
ClearScreen ==
  /\ Keyboard(disp)
  /\ disp \in started
  /\ \E text \in {<<>>, Prompt} :
       Draw(disp, Printed(Cleared, text), Display, page, disp)
  /\ Tear(disp, TRUE)
  /\ UNCHANGED length

(* Alt and a function key.                                                  *)
SwitchTerminal(t) ==
  /\ Keyboard(t)
  /\ page' = Switched(t)
  /\ vga' = Cols * y[t] + x[t]
  /\ UNCHANGED <<x, y, length, torn>>

(* A release, or a backspace in an empty line: only the mapping.            *)
OtherKey ==
  /\ Keyboard(disp)
  /\ UNCHANGED <<drawn, length, torn>>

(* A key without a character: the display stays mapped.                     *)
UnusedKey ==
  /\ ~unacked /\ unacked' = TRUE /\ steady' = FALSE
  /\ mapped' = Display
  /\ UNCHANGED <<exec, disp, started, drawn, length, trap, torn>>

----------------------------------------------------------------------------
Program ==
  /\ exec \in started /\ trap[exec] = NoTrap
  /\ UNCHANGED <<exec, disp, started, mapped, unacked, trap, steady>>

(* private_terminal_write                                                   *)
Write ==
  /\ Program
  /\ \E text \in Outputs : FitsPage(exec, text) /\ Puts(exec, text, mapped, page, disp)
  /\ UNCHANGED length

(* printf in a system call writes where the program does, but at the        *)
(* displayed terminal's x and y.                                            *)
KernelMessage ==
  /\ Program
  /\ FitsPage(disp, Message) /\ Puts(disp, Message, mapped, page, disp)
  /\ UNCHANGED length

(* A read empties the line when it begins and when it ends.                 *)
Read ==
  /\ Program
  /\ length' = [length EXCEPT ![exec] = 0]
  /\ UNCHANGED <<drawn, torn>>

----------------------------------------------------------------------------
(* An exception of the executing program: exception_handler, a putc at a    *)
(* time.                                                                    *)
Trap(stage) ==
  /\ exec \in started /\ trap[exec].stage = stage
  /\ UNCHANGED <<exec, disp, started, mapped, length, unacked, steady>>

Goes(stage) == trap' = [trap EXCEPT ![exec].stage = stage]

Raise ==
  /\ Trap("none")
  /\ exec \in Faulty
  /\ trap' = [trap EXCEPT ![exec].char = 1, ![exec].stage = "call"]
  /\ UNCHANGED <<drawn, torn>>

(* putc's argument is the terminal displayed now.                           *)
CallPutc ==
  /\ Trap("call")
  /\ trap' = [trap EXCEPT ![exec].stage = "store", ![exec].for = disp]
  /\ UNCHANGED <<drawn, torn>>

(* The steps of putc for the terminal it was called with.                   *)
StoreChar ==
  /\ Trap("store")
  /\ LET t == trap[exec].for
         c == Exception[trap[exec].char]
     IN  /\ FitsPage(t, <<c>>)
         /\ page' = [page EXCEPT ![mapped] = Store(Through(t, mapped, page), c).cells]
  /\ Goes("advance")
  /\ UNCHANGED <<x, y, vga, torn>>

Advance ==
  /\ Trap("advance")
  /\ LET t == trap[exec].for
         v == Forward(Through(t, mapped, page), Exception[trap[exec].char])
     IN  /\ x' = [x EXCEPT ![t] = v.x]
         /\ y' = [y EXCEPT ![t] = v.y]
         /\ Tear(t, FALSE)
  /\ Goes("settle")
  /\ UNCHANGED <<page, vga>>

SettleRow ==
  /\ Trap("settle")
  /\ LET t == trap[exec].for
         v == Settle(Through(t, mapped, page))
     IN  /\ x' = [x EXCEPT ![t] = v.x]
         /\ y' = [y EXCEPT ![t] = v.y]
         /\ Goes(IF EndsScreen(Through(t, mapped, page)) THEN "scroll" ELSE "cursor")
  /\ UNCHANGED <<page, vga, torn>>

ScrollRow ==
  /\ Trap("scroll")
  /\ LET r == trap[exec].row
     IN  /\ page' = [page EXCEPT ![mapped] =
                      [i \in Cells |-> IF i \div Cols = r THEN ScrollUp(@)[i] ELSE @[i]]]
         /\ trap' = [trap EXCEPT ![exec].row = (r + 1) % Rows,
                                 ![exec].stage = IF r = Rows - 1 THEN "cursor" ELSE @]
  /\ UNCHANGED <<x, y, vga, torn>>

(* draw_cursor, and the next character or halt.                             *)
DrawCursor ==
  /\ Trap("cursor")
  /\ vga' = Cols * y[disp] + x[disp]
  /\ LET n == trap[exec].char
     IN  trap' = [trap EXCEPT ![exec] =
                    IF n = Len(Exception) THEN NoTrap
                    ELSE [NoTrap EXCEPT !.char = n + 1, !.stage = "call"]]
  /\ UNCHANGED <<page, x, y, torn>>

Trapped ==
  Raise \/ CallPutc \/ StoreChar \/ Advance \/ SettleRow \/ ScrollRow \/ DrawCursor

----------------------------------------------------------------------------

(* pit_handler on a terminal without a PCB: the terminal is displayed and   *)
(* its shell starts.                                                        *)
PitStartShell ==
  /\ exec \notin started
  /\ started' = started \cup {exec} /\ steady' = FALSE
  /\ disp' = exec
  /\ mapped' = IF disp = exec THEN mapped ELSE Display
  /\ Puts(exec, Banner, mapped', Switched(exec), exec)
  /\ UNCHANGED <<exec, length, unacked, trap>>

RemapNever(next) == mapped' = mapped

(* switch_vid and set_vidmem, unless the next terminal has no PCB yet.      *)
Remap(next) == mapped' = IF next \in started THEN PageOf(next, disp) ELSE mapped

PitSwitch ==
  /\ exec \in started
  /\ exec' = (exec + 1) % NumTerminals
  /\ Remap(exec')
  /\ steady' = (exec' \in started)
  /\ UNCHANGED <<disp, started, drawn, length, unacked, trap, torn>>

Pit == PitStartShell \/ PitSwitch

NextConsole ==
  \/ \E c \in Chars : Type(c)
  \/ Enter \/ Backspace \/ ClearScreen \/ OtherKey \/ UnusedKey
  \/ \E t \in Terminals : SwitchTerminal(t)
  \/ Write \/ KernelMessage \/ Read
  \/ Trapped
  \/ Pit

SpecConsole == InitConsole /\ [][NextConsole]_console

----------------------------------------------------------------------------
(* The executing program's output would go to the wrong page.               *)
Astray == mapped # PageOf(exec, disp)

(* The place to write is not on the screen.                                 *)
Off(t) == x[t] \notin 0 .. Cols - 1 \/ y[t] \notin 0 .. Rows - 1

(* What goes astray: output between a key without a character, or the start *)
(* of a shell, and the next time that the timer maps a page; the kernel's   *)
(* messages to programs in the background; the banner of a terminal that    *)
(* the user has already brought to the front; what is drawn for a terminal  *)
(* off the screen; and an exception's message, which comes in pieces, but   *)
(* changes only its own terminal's screen unless one of these is the case.  *)
Misdirected ==
  \/ Astray /\ ~steady /\ (Write \/ KernelMessage)
  \/ exec # disp /\ KernelMessage
  \/ exec = disp /\ Astray /\ PitStartShell
  \/ Off(disp) /\ ((\E c \in Chars : Type(c)) \/ Enter \/ Backspace \/ KernelMessage)
  \/ Off(exec) /\ (Write \/ PitStartShell)
  \/ /\ Trapped
     /\ steady /\ ~Off(trap[exec].for) =>
          \A t \in Terminals \ {exec} : page'[PageOf(t, disp)] = page[PageOf(t, disp)]

Abstract == INSTANCE Screens WITH
  cells <- [t \in Terminals |-> page[PageOf(t, disp)]],
  pos <- [t \in Terminals |-> Cols * y[t] + x[t]],
  front <- disp, cursor <- vga,
  Texts <- Outputs \cup {<<>>, Prompt, Banner, Message, <<Newline>>} \cup {<<c>> : c \in Chars}

(* Each terminal has a screen of its own, in front or not: keys, programs,  *)
(* scrolling and switches change no other, and the cursor on display is     *)
(* where the terminal in front writes.                                      *)
ScreensApart ==
  Abstract!Init /\ [][Misdirected \/ Abstract!Next]_<<page, x, y, disp, vga>>

(* putc never writes outside of the page: every text leaves the place to    *)
(* write on the screen, unless something was drawn for the terminal in the  *)
(* middle of an exception's putc for it and no new line came since.         *)
PlaceOnScreen == \A t \in Terminals : t \in torn \/ Between(t) \/ ~Off(t)
=============================================================================
