------------------------------ MODULE Screens -------------------------------
(***************************************************************************)
(* What several terminals on one display promise: each has a screen of its  *)
(* own, a tape of cells with a place to write, and whatever is printed or   *)
(* erased on one leaves the others as they are.  The display has a cursor,  *)
(* at the place of the terminal in front.                                   *)
(***************************************************************************)
EXTENDS Integers, Sequences

CONSTANTS
  Terminals,
  Cols, Rows,
  Blank, Newline,
  Texts        \* what may be printed in one go

VARIABLES
  cells,  \* what each terminal shows
  pos,    \* its place to write
  front,  \* the terminal on display
  cursor  \* the cursor of the display

Size == Cols * Rows
Tape == 0 .. Size - 1

Init ==
  /\ cells = [t \in Terminals |-> [i \in Tape |-> Blank]]
  /\ pos = [t \in Terminals |-> 0]
  /\ cursor = 0

(* A character goes to the place to write, a new line to the next row; at   *)
(* the end of the tape it loses its first row.                              *)
Advance(tape, c) ==
  LET written == IF c = Newline THEN tape.cells ELSE [tape.cells EXCEPT ![tape.pos] = c]
      place   == IF c = Newline THEN Cols * (tape.pos \div Cols + 1) ELSE tape.pos + 1
  IN  IF place < Size THEN [cells |-> written, pos |-> place]
      ELSE [cells |-> [i \in Tape |-> IF i + Cols < Size THEN written[i + Cols] ELSE Blank],
            pos |-> Size - Cols]

Printed(tape, text) ==
  LET after[n \in 0 .. Len(text)] == IF n = 0 THEN tape ELSE Advance(after[n - 1], text[n])
  IN  after[Len(text)]

Becomes(t, tape) ==
  /\ cells' = [cells EXCEPT ![t] = tape.cells]
  /\ pos' = [pos EXCEPT ![t] = tape.pos]

Put(t, text) ==
  Becomes(t, Printed([cells |-> cells[t], pos |-> pos[t]], text))

Clear(t, text) ==
  Becomes(t, Printed([cells |-> [i \in Tape |-> Blank], pos |-> 0], text))

(* An earlier cell becomes blank, and the place to write.  Which one is the *)
(* code's matter: from the start of a row it is not the last of the row     *)
(* above.                                                                   *)
Erase(t) ==
  \E p \in Tape :
    /\ p < pos[t] \/ p = 0
    /\ p \div Cols >= (pos[t] - 1) \div Cols
    /\ Becomes(t, [cells |-> [cells[t] EXCEPT ![p] = Blank], pos |-> p])

Next ==
  /\ \/ UNCHANGED <<cells, pos>>
     \/ \E t \in Terminals, text \in Texts : Put(t, text)
     \/ \E text \in Texts : Clear(front, text)
     \/ Erase(front)
  /\ cursor' = pos'[front']

=============================================================================
