------------------------------ MODULE Terminal ------------------------------
(***************************************************************************)
(* The keyboard, the line buffer of each terminal and the program that      *)
(* reads a line (keyboard.c, terminal.c).                                   *)
(*                                                                          *)
(* The keyboard interrupt works on the displayed terminal, a read on the    *)
(* executing one.  A read spins with interrupts on; it leaves the spin in   *)
(* one step and copies the line, with interrupts off, in another: keys and  *)
(* timer ticks may come between the two.                                    *)
(*                                                                          *)
(* echo and screen are what the keyboard handler draws after the prompt:    *)
(* the user's idea of the line, to compare with the buffer.                 *)
(***************************************************************************)
EXTENDS Integers, Sequences, SequencesExt

CONSTANTS
  NumTerminals, \* the terminals (3)
  BufSize,      \* cells of a line buffer (128)
  Chars,        \* printable characters
  MaxLength     \* bound: keys counted in a buffer

Newline == "newline"
Blank == "blank"      \* ' ', what a read fills the buffer with
Del == "del"          \* 0x10, what backspace leaves

ASSUME TerminalAssumption ==
  /\ NumTerminals \in Nat \ {0}
  /\ BufSize \in Nat \ {0}
  /\ MaxLength \in Nat
  /\ Chars \cap {Newline, Blank, Del} = {}

VARIABLES
  exec,    \* exec_terminal
  disp,    \* disp_terminal
  length,  \* terminals[t].buffer_length
  buffer,  \* terminals[t].buffer
  enter,   \* enter_pressed[t]
  reader,  \* where terminal t's program is: "out" of a read, in its "spin",
           \* or "past" the spin
  echo,    \* characters drawn after the prompt since the read began
  screen,  \* "typing": nothing else was drawn; "entered": then Enter was;
           \* "mixed": other keys came after Enter, or the screen was cleared
  unacked, \* a keyboard interrupt was not acknowledged: no other will come
  wild     \* a backspace wrote outside the buffer: what follows is not modelled

line == <<length, buffer, enter>>
view == <<echo, screen>>
vars == <<exec, disp, line, reader, view, unacked, wild>>

Terminals == 0..(NumTerminals - 1)
Cells == 1..BufSize

Init ==
  /\ exec \in Terminals
  /\ disp = 0
  /\ length = [t \in Terminals |-> 0]
  /\ buffer = [t \in Terminals |-> [i \in Cells |-> Blank]]
  /\ enter = [t \in Terminals |-> FALSE]
  /\ reader = [t \in Terminals |-> "out"]
  /\ echo = [t \in Terminals |-> <<>>]
  /\ screen = [t \in Terminals |-> "typing"]
  /\ unacked = FALSE
  /\ wild = FALSE

----------------------------------------------------------------------------
TargetExecuting == exec

(* The terminal whose line a key changes.                                   *)
Target == disp

Keyboard == ~unacked /\ ~wild /\ UNCHANGED <<exec, reader>>

(* The line drawn on terminal t's screen, if its program reads one.         *)
Draw(t, chars, then) ==
  IF reader[t] = "out" THEN UNCHANGED view
  ELSE /\ echo' = [echo EXCEPT ![t] = IF then = "mixed" THEN <<>> ELSE chars]
       /\ screen' = [screen EXCEPT ![t] = then]

(* buffer_char stores a character, but not in the last cell.                *)
Store(t, c) ==
  buffer' = [buffer EXCEPT ![t] = IF length[t] < BufSize - 1
                                  THEN [@ EXCEPT ![length[t] + 1] = c] ELSE @]

(* A printable key: putc and buffer_char.                                   *)
Type(c) ==
  /\ Keyboard
  /\ length[Target] < MaxLength
  /\ Store(Target, c)
  /\ length' = [length EXCEPT ![Target] = @ + 1]
  /\ Draw(disp, Append(echo[disp], c),
          IF screen[disp] = "typing" THEN "typing" ELSE "mixed")
  /\ UNCHANGED <<disp, enter, unacked, wild>>

(* The Enter key.                                                           *)
Enter ==
  /\ Keyboard
  /\ buffer' = [buffer EXCEPT ![Target][IF length[Target] < BufSize
                                        THEN length[Target] + 1 ELSE BufSize] = Newline]
  /\ enter' = [enter EXCEPT ![Target] = TRUE]
  /\ Draw(disp, echo[disp],
          IF screen[disp] = "mixed" THEN "mixed" ELSE "entered")
  /\ UNCHANGED <<disp, length, unacked, wild>>

(* buffer_length after a backspace.                                         *)
Shorter(t) == IF length[t] > 0 THEN length[t] - 1 ELSE 0

(* The Backspace key: putc erases if the buffer has a character, and        *)
(* backspace() overwrites the cell it uncovers, or the first one.           *)
Backspace ==
  /\ Keyboard
  /\ Shorter(Target) < BufSize
  /\ length' = [length EXCEPT ![Target] = Shorter(Target)]
  /\ buffer' = [buffer EXCEPT ![Target][Shorter(Target) + 1] = Del]
  /\ Draw(disp, IF length[disp] > 0 THEN Front(echo[disp]) ELSE echo[disp],
          IF screen[disp] = "typing" THEN "typing" ELSE "mixed")
  /\ UNCHANGED <<disp, enter, unacked, wild>>

(* The same with buffer_length above the size of the buffer: the byte is    *)
(* written to buffer_length itself or to the next terminal.                 *)
BackspaceOutside ==
  /\ Keyboard
  /\ Shorter(Target) >= BufSize
  /\ wild' = TRUE
  /\ UNCHANGED <<disp, line, view, unacked>>

(* Ctrl+L clears the screen and leaves the buffer.                          *)
ClearScreen ==
  /\ Keyboard
  /\ Draw(disp, echo[disp], "mixed")
  /\ UNCHANGED <<disp, line, unacked, wild>>

(* A key with no character returns without an end-of-interrupt.             *)
UnusedKey ==
  /\ Keyboard
  /\ unacked' = TRUE
  /\ UNCHANGED <<disp, line, view, wild>>

(* Alt and a function key.                                                  *)
SwitchTerminal(t) ==
  /\ Keyboard
  /\ disp' = t
  /\ UNCHANGED <<line, view, unacked, wild>>

----------------------------------------------------------------------------
(* The terminal whose line a read clears and copies.                        *)
Reader == exec

Program == ~wild /\ UNCHANGED <<exec, disp, unacked, wild>>

(* Blank line of terminal t.                                                *)
Reset(t) ==
  /\ length' = [length EXCEPT ![t] = 0]
  /\ buffer' = [buffer EXCEPT ![t] = [i \in Cells |-> Blank]]

(* read(0): the buffer is cleared, the Enter flag is left as it is.         *)
Read ==
  /\ Program
  /\ reader[exec] = "out"
  /\ Reset(Reader)
  /\ reader' = [reader EXCEPT ![exec] = "spin"]
  /\ echo' = [echo EXCEPT ![exec] = <<>>]
  /\ screen' = [screen EXCEPT ![exec] = "typing"]
  /\ UNCHANGED enter

CompleteFull(t) == length[t] >= BufSize - 1 /\ enter[t]

(* The condition that ends the spin.                                        *)
Complete(t) == length[t] >= BufSize - 1 \/ enter[t]

LeaveSpin(t) ==
  /\ Program
  /\ exec = t
  /\ reader[t] = "spin"
  /\ Complete(t)
  /\ reader' = [reader EXCEPT ![t] = "past"]
  /\ UNCHANGED <<line, view>>

(* What the read copies to its caller; cells past the buffer are not data.  *)
Data(t) == SubSeq(buffer[t], 1, length[t] + 1)

(* The read returns Data(t).                                                *)
ReadReturn(t) ==
  /\ Program
  /\ exec = t
  /\ reader[t] = "past"
  /\ enter' = [enter EXCEPT ![t] = FALSE]
  /\ Reset(t)
  /\ reader' = [reader EXCEPT ![t] = "out"]
  /\ echo' = [echo EXCEPT ![t] = <<>>]
  /\ screen' = [screen EXCEPT ![t] = "typing"]

(* The timer gives the CPU to the next terminal.                            *)
Tick ==
  /\ ~wild
  /\ exec' = (exec + 1) % NumTerminals
  /\ UNCHANGED <<disp, line, reader, view, unacked, wild>>

----------------------------------------------------------------------------
Next ==
  \/ \E c \in Chars : Type(c)
  \/ Enter
  \/ Backspace
  \/ BackspaceOutside
  \/ ClearScreen
  \/ UnusedKey
  \/ \E t \in Terminals : SwitchTerminal(t) \/ LeaveSpin(t) \/ ReadReturn(t)
  \/ Read
  \/ Tick

Spec == Init /\ [][Next]_vars

(* The timer keeps ticking, and a spin tests its condition thousands of     *)
(* times in each slice of its terminal.                                     *)
FairSpec ==
  /\ Spec
  /\ WF_vars(Tick)
  /\ \A t \in Terminals : SF_vars(LeaveSpin(t)) /\ SF_vars(ReadReturn(t))

----------------------------------------------------------------------------
TypeOK ==
  /\ exec \in Terminals /\ disp \in Terminals
  /\ length \in [Terminals -> 0..MaxLength]
  /\ buffer \in [Terminals -> [Cells -> Chars \cup {Newline, Blank, Del}]]
  /\ enter \in [Terminals -> BOOLEAN]
  /\ reader \in [Terminals -> {"out", "spin", "past"}]
  /\ echo \in [Terminals -> Seq(Chars)]
  /\ screen \in [Terminals -> {"typing", "entered", "mixed"}]
  /\ unacked \in BOOLEAN /\ wild \in BOOLEAN

(* A read returns what the user sees: whatever was typed and erased, on     *)
(* this terminal and the others, before and after the spin, the characters  *)
(* copied are those on the screen, and Enter as the last key ends them.     *)
LineDelivered ==
  \A t \in Terminals : reader[t] # "out" /\ length[t] < BufSize =>
    CASE screen[t] = "typing"  -> Front(Data(t)) = echo[t]
      [] screen[t] = "entered" -> Data(t) = Append(echo[t], Newline)
      [] screen[t] = "mixed"   -> TRUE

(* Enter ends a read, whatever is typed or displayed before the reader runs.*)
EnterReturns ==
  \A t \in Terminals : reader[t] = "spin" /\ enter[t] ~> reader[t] = "out" \/ wild
=============================================================================
