--------------------------- MODULE TerminalProofs ---------------------------
(***************************************************************************)
(* Theorems about Terminal for every number of terminals, size of the line  *)
(* buffer, and set of characters.                                           *)
(*                                                                          *)
(* LineDelivered is about a line shorter than the buffer.  It is not        *)
(* inductive: a line grows past the buffer and is erased back into it, and  *)
(* what the buffer held in between must be known.  Echoed says it for every *)
(* length, of the cells that buffer_char may fill: all but the last.        *)
(***************************************************************************)
EXTENDS Terminal, SequenceTheorems, TLAPS

(* The characters on the screen are counted, and in the buffer as far as it *)
(* reaches.                                                                 *)
Drawn(t) ==
  /\ Len(echo[t]) = length[t]
  /\ \A i \in 1..length[t] : i < BufSize => buffer[t][i] = echo[t][i]

(* The buffer ends in the newline, when Enter was the last key.             *)
Ended(t) == length[t] < BufSize => buffer[t][length[t] + 1] = Newline

Echoed(t) ==
  /\ screen[t] \in {"typing", "entered"} => Drawn(t)
  /\ screen[t] = "entered" => Ended(t)

IInv == TypeOK /\ \A t \in Terminals : reader[t] # "out" => Echoed(t)

Cell == Chars \cup {Newline, Blank, Del}

----------------------------------------------------------------------------
LEMMA Appended ==
  ASSUME NEW s \in Seq(Chars), NEW c \in Chars
  PROVE  /\ Append(s, c) \in Seq(Chars)
         /\ Len(Append(s, c)) = Len(s) + 1
         /\ \A i \in 1..Len(s) : Append(s, c)[i] = s[i]
         /\ Append(s, c)[Len(s) + 1] = c
OBVIOUS

LEMMA Fronted ==
  ASSUME NEW s \in Seq(Chars)
  PROVE  /\ Front(s) \in Seq(Chars)
         /\ Len(s) > 0 => Len(Front(s)) = Len(s) - 1
         /\ Len(s) > 0 => \A i \in 1..(Len(s) - 1) : Front(s)[i] = s[i]
<1>1. PICK n \in Nat : n = Len(s)
  OBVIOUS
<1>2. \A i \in 1..(n - 1) : i \in 1..Len(s)
  BY <1>1
<1>3. \A i \in 1..(n - 1) : s[i] \in Chars
  BY <1>2, ElementOfSeq
<1>4. /\ Front(s) \in Seq(Chars)
      /\ Len(Front(s)) = IF 1 <= n - 1 THEN n - 1 - 1 + 1 ELSE 0
      /\ \A i \in 1..(n - 1 - 1 + 1) : Front(s)[i] = s[1 + i - 1]
  BY <1>1, <1>3, SubSeqProperties DEF Front
<1> QED
  BY <1>1, <1>4

(* What a row of cells holds in its first n.                                *)
LEMMA FirstCells ==
  ASSUME NEW b \in [Cells -> Cell], NEW n \in Nat, n <= BufSize
  PROVE  /\ SubSeq(b, 1, n) \in Seq(Cell)
         /\ Len(SubSeq(b, 1, n)) = n
         /\ \A i \in 1..n : SubSeq(b, 1, n)[i] = b[i]
<1>1. \A i \in 1..n : b[i] \in Cell
  BY TerminalAssumption DEF Cells
<1>2. /\ SubSeq(b, 1, n) \in Seq(Cell)
      /\ Len(SubSeq(b, 1, n)) = IF 1 <= n THEN n - 1 + 1 ELSE 0
      /\ \A i \in 1..(n - 1 + 1) : SubSeq(b, 1, n)[i] = b[1 + i - 1]
  BY <1>1, SubSeqProperties
<1> QED
  BY <1>2

(* What Echoed says, when a read copies it.                                 *)
LEMMA EchoedDelivers ==
  ASSUME TypeOK, NEW t \in Terminals, Echoed(t), length[t] < BufSize
  PROVE  CASE screen[t] = "typing"  -> Front(Data(t)) = echo[t]
           [] screen[t] = "entered" -> Data(t) = Append(echo[t], Newline)
           [] screen[t] = "mixed"   -> TRUE
<1>1. PICK n \in Nat : n = length[t]
  BY DEF TypeOK
<1>2. buffer[t] \in [Cells -> Cell] /\ echo[t] \in Seq(Chars) /\ echo[t] \in Seq(Cell)
  BY SeqMonotonic DEF TypeOK, Cell
<1>3. n + 1 \in Nat /\ n + 1 <= BufSize /\ n <= BufSize
  BY <1>1, TerminalAssumption
<1>4. /\ Data(t) \in Seq(Cell)
      /\ Len(Data(t)) = n + 1
      /\ \A i \in 1..(n + 1) : Data(t)[i] = buffer[t][i]
  BY <1>1, <1>2, <1>3, FirstCells DEF Data
<1>5. CASE screen[t] = "typing"
  <2>1. Len(echo[t]) = n /\ \A i \in 1..n : buffer[t][i] = echo[t][i]
    BY <1>1, <1>3, <1>5, TerminalAssumption DEF Echoed, Drawn
  <2>2. Front(Data(t)) = SubSeq(Data(t), 1, n)
    BY <1>4 DEF Front
  <2>3. \A i \in 1..n : i \in 1..Len(Data(t))
    BY <1>4
  <2>4. \A i \in 1..n : Data(t)[i] \in Cell
    BY <1>4, <2>3, ElementOfSeq
  <2>5. /\ SubSeq(Data(t), 1, n) \in Seq(Cell)
        /\ Len(SubSeq(Data(t), 1, n)) = IF 1 <= n THEN n - 1 + 1 ELSE 0
        /\ \A i \in 1..(n - 1 + 1) : SubSeq(Data(t), 1, n)[i] = Data(t)[1 + i - 1]
    BY <2>4, SubSeqProperties
  <2>6. \A i \in 1..n : SubSeq(Data(t), 1, n)[i] = echo[t][i]
    BY <1>4, <2>1, <2>5
  <2>7. SubSeq(Data(t), 1, n) = echo[t]
    BY <1>2, <2>1, <2>5, <2>6, SeqEqual
  <2> QED
    BY <1>5, <2>2, <2>7
<1>6. CASE screen[t] = "entered"
  <2>1. /\ Len(echo[t]) = n
        /\ \A i \in 1..n : buffer[t][i] = echo[t][i]
        /\ buffer[t][n + 1] = Newline
    BY <1>1, <1>3, <1>6, TerminalAssumption DEF Echoed, Drawn, Ended
  <2>2. /\ Append(echo[t], Newline) \in Seq(Cell)
        /\ Len(Append(echo[t], Newline)) = n + 1
        /\ \A i \in 1..n : Append(echo[t], Newline)[i] = echo[t][i]
        /\ Append(echo[t], Newline)[n + 1] = Newline
    BY <1>2, <2>1 DEF Cell
  <2>3. \A i \in 1..(n + 1) : Data(t)[i] = Append(echo[t], Newline)[i]
    BY <1>4, <2>1, <2>2
  <2>4. Data(t) = Append(echo[t], Newline)
    BY <1>4, <2>2, <2>3, SeqEqual
  <2> QED
    BY <1>6, <2>4
<1>7. CASE screen[t] = "mixed"
  BY <1>7
<1> QED
  BY <1>5, <1>6, <1>7 DEF TypeOK

----------------------------------------------------------------------------
LEMMA InitInv == Init => IInv
<1> SUFFICES ASSUME Init PROVE IInv
  OBVIOUS
<1>1. <<>> \in Seq(Chars)
  BY EmptySeq
<1>2. disp \in Terminals
  BY TerminalAssumption DEF Init, Terminals
<1> QED
  BY <1>1, <1>2, TerminalAssumption DEF Init, IInv, TypeOK

(* A terminal whose line and screen a step leaves alone.                    *)
LEMMA Untouched ==
  ASSUME NEW t \in Terminals, reader[t] # "out" => Echoed(t),
         reader'[t] # "out" => reader[t] # "out",
         length'[t] = length[t], buffer'[t] = buffer[t],
         echo'[t] = echo[t], screen'[t] = screen[t]
  PROVE  reader'[t] # "out" => Echoed(t)'
BY DEF Echoed, Drawn, Ended

(* The screen after a key, when it is not mixed up.                         *)
LEMMA DrawType ==
  ASSUME TypeOK, NEW t \in Terminals, NEW chars \in Seq(Chars),
         NEW then \in {"typing", "entered", "mixed"}, Draw(t, chars, then)
  PROVE  /\ echo' \in [Terminals -> Seq(Chars)]
         /\ screen' \in [Terminals -> {"typing", "entered", "mixed"}]
         /\ \A u \in Terminals \ {t} : echo'[u] = echo[u] /\ screen'[u] = screen[u]
         /\ reader[t] # "out" => screen'[t] = then
         /\ reader[t] # "out" /\ then # "mixed" => echo'[t] = chars
<1>1. <<>> \in Seq(Chars)
  BY EmptySeq
<1> QED
  BY <1>1 DEF Draw, view, TypeOK

(* A key that changes terminal t's line only.                               *)
LEMMA OtherLines ==
  ASSUME IInv, NEW t \in Terminals, UNCHANGED reader,
         \A u \in Terminals \ {t} :
           /\ length'[u] = length[u] /\ buffer'[u] = buffer[u]
           /\ echo'[u] = echo[u] /\ screen'[u] = screen[u],
         reader[t] # "out" => Echoed(t)'
  PROVE  \A u \in Terminals : reader'[u] # "out" => Echoed(u)'
BY Untouched DEF IInv

LEMMA TypeInv == ASSUME IInv, NEW c \in Chars, Type(c) PROVE IInv'
<1>0. PICK d \in Terminals : d = disp
  BY DEF IInv, TypeOK
<1> DEFINE chars == Append(echo[d], c)
           then == IF screen[d] = "typing" THEN "typing" ELSE "mixed"
<1>1. TypeOK
  BY DEF IInv, TypeOK
<1>2. PICK s \in Seq(Chars) : s = echo[d]
  BY <1>1 DEF TypeOK
<1>3. /\ chars \in Seq(Chars)
      /\ Len(chars) = Len(s) + 1
      /\ \A i \in 1..Len(s) : chars[i] = s[i]
      /\ chars[Len(s) + 1] = c
  BY <1>2, Appended
<1>4. Draw(d, chars, then)
  BY <1>0 DEF Type
<1> HIDE DEF chars
<1>5. then \in {"typing", "entered", "mixed"}
  OBVIOUS
<1>6. /\ echo' \in [Terminals -> Seq(Chars)]
      /\ screen' \in [Terminals -> {"typing", "entered", "mixed"}]
      /\ \A u \in Terminals \ {d} : echo'[u] = echo[u] /\ screen'[u] = screen[u]
      /\ reader[d] # "out" => screen'[d] = then
      /\ reader[d] # "out" /\ then # "mixed" => echo'[d] = chars
  BY <1>1, <1>3, <1>4, <1>5, DrawType
<1>7. TypeOK'
  BY <1>0, <1>1, <1>6, TerminalAssumption DEF Type, Keyboard, Store, Target, TypeOK, Cells
<1>8. reader[d] # "out" => Echoed(d)'
  <2> SUFFICES ASSUME reader[d] # "out", then = "typing" PROVE Echoed(d)'
    BY <1>6 DEF Echoed
  <2>1. Drawn(d)
    BY <1>1 DEF IInv, Echoed
  <2>2. PICK n \in Nat : n = length[d] /\ n = Len(s)
    BY <1>1, <1>2, <2>1 DEF Drawn, TypeOK
  <2>3. length'[d] = n + 1 /\ echo'[d] = chars /\ screen'[d] = "typing"
    BY <1>0, <1>1, <1>6, <2>2 DEF Type, Target, TypeOK
  <2>4. \A i \in 1..n : i < BufSize => buffer'[d][i] = s[i]
    BY <1>0, <1>1, <1>2, <2>1, <2>2, TerminalAssumption DEF Drawn, Type, Store, Target, TypeOK, Cells
  <2>5. n + 1 < BufSize => buffer'[d][n + 1] = c
    BY <1>0, <1>1, <2>2, TerminalAssumption DEF Type, Store, Target, TypeOK, Cells
  <2> QED
    BY <1>3, <2>2, <2>3, <2>4, <2>5 DEF Echoed, Drawn
<1>9. \A u \in Terminals \ {d} : length'[u] = length[u] /\ buffer'[u] = buffer[u]
  BY <1>0, <1>1 DEF Type, Store, Target, TypeOK
<1> QED
  BY <1>0, <1>1, <1>6, <1>7, <1>8, <1>9, OtherLines DEF Type, Keyboard, IInv

LEMMA EnterInv == ASSUME IInv, Enter PROVE IInv'
<1>0. PICK d \in Terminals : d = disp
  BY DEF IInv, TypeOK
<1> DEFINE then == IF screen[d] = "mixed" THEN "mixed" ELSE "entered"
           at == IF length[d] < BufSize THEN length[d] + 1 ELSE BufSize
<1>1. TypeOK /\ echo[d] \in Seq(Chars)
  BY DEF IInv, TypeOK
<1>2. Draw(d, echo[d], then) /\ then \in {"typing", "entered", "mixed"}
  BY <1>0 DEF Enter
<1>3. /\ echo' \in [Terminals -> Seq(Chars)]
      /\ screen' \in [Terminals -> {"typing", "entered", "mixed"}]
      /\ \A u \in Terminals \ {d} : echo'[u] = echo[u] /\ screen'[u] = screen[u]
      /\ reader[d] # "out" => screen'[d] = then
      /\ reader[d] # "out" /\ then # "mixed" => echo'[d] = echo[d]
  BY <1>1, <1>2, DrawType
<1>4. at \in Cells
  BY <1>1, TerminalAssumption DEF TypeOK, Cells
<1>5. /\ buffer' \in [Terminals -> [Cells -> Cell]]
      /\ \A i \in Cells : buffer'[d][i] = IF i = at THEN Newline ELSE buffer[d][i]
      /\ \A u \in Terminals \ {d} : buffer'[u] = buffer[u]
  BY <1>0, <1>1, <1>4 DEF Enter, Target, TypeOK, Cell
<1>6. TypeOK'
  BY <1>0, <1>1, <1>3, <1>5 DEF Enter, Keyboard, Target, TypeOK, Cell
<1>7. reader[d] # "out" => Echoed(d)'
  <2> SUFFICES ASSUME reader[d] # "out", screen[d] # "mixed" PROVE Echoed(d)'
    BY <1>3 DEF Echoed
  <2>1. Drawn(d)
    BY <1>1 DEF IInv, Echoed, TypeOK
  <2>2. PICK n \in Nat : n = length[d]
    BY <1>1 DEF TypeOK
  <2>3. \A i \in 1..n : i < BufSize => buffer'[d][i] = echo[d][i]
    BY <1>5, <2>1, <2>2, TerminalAssumption DEF Drawn, Cells
  <2>4. n < BufSize => buffer'[d][n + 1] = Newline
    BY <1>4, <1>5, <2>2
  <2>5. length'[d] = n /\ echo'[d] = echo[d] /\ Len(echo[d]) = n
    BY <1>0, <1>3, <2>1, <2>2 DEF Drawn, Enter
  <2> QED
    BY <2>3, <2>4, <2>5 DEF Echoed, Drawn, Ended
<1>8. \A u \in Terminals \ {d} : length'[u] = length[u] /\ buffer'[u] = buffer[u]
  BY <1>0, <1>5 DEF Enter
<1> QED
  BY <1>0, <1>1, <1>3, <1>6, <1>7, <1>8, OtherLines DEF Enter, Keyboard, IInv

LEMMA BackspaceInv == ASSUME IInv, Backspace PROVE IInv'
<1>0. PICK d \in Terminals : d = disp
  BY DEF IInv, TypeOK
<1>1. TypeOK
  BY DEF IInv
<1>2. PICK n \in Nat : n = length[d]
  BY <1>1 DEF TypeOK
<1>3. PICK s \in Seq(Chars) : s = echo[d]
  BY <1>1 DEF TypeOK
<1> DEFINE chars == IF length[d] > 0 THEN Front(echo[d]) ELSE echo[d]
           then == IF screen[d] = "typing" THEN "typing" ELSE "mixed"
           left == Shorter(d)
<1>4. /\ chars \in Seq(Chars)
      /\ n > 0 /\ Len(s) = n => Len(chars) = n - 1
      /\ n > 0 /\ Len(s) = n => \A i \in 1..(n - 1) : chars[i] = s[i]
      /\ n = 0 => chars = s
  <2>1. PICK f \in Seq(Chars) : f = Front(s) /\ (Len(s) > 0 => Len(f) = Len(s) - 1)
                               /\ (Len(s) > 0 => \A i \in 1..(Len(s) - 1) : f[i] = s[i])
    BY Fronted
  <2>2. chars = IF n > 0 THEN f ELSE s
    BY <1>2, <1>3, <2>1
  <2> QED
    BY <2>1, <2>2
<1>5. Draw(d, chars, then)
  BY <1>0 DEF Backspace
<1> HIDE DEF chars
<1>6. then \in {"typing", "entered", "mixed"}
  OBVIOUS
<1>7. /\ echo' \in [Terminals -> Seq(Chars)]
      /\ screen' \in [Terminals -> {"typing", "entered", "mixed"}]
      /\ \A u \in Terminals \ {d} : echo'[u] = echo[u] /\ screen'[u] = screen[u]
      /\ reader[d] # "out" => screen'[d] = then
      /\ reader[d] # "out" /\ then # "mixed" => echo'[d] = chars
  BY <1>1, <1>4, <1>5, <1>6, DrawType
<1>8. left = (IF n > 0 THEN n - 1 ELSE 0) /\ left + 1 \in Cells
      /\ left \in 0..MaxLength
  BY <1>0, <1>1, <1>2, TerminalAssumption DEF Backspace, Target, Shorter, Cells, TypeOK
<1>9. /\ buffer' = [buffer EXCEPT ![d][left + 1] = Del]
      /\ length' = [length EXCEPT ![d] = left]
  BY <1>0 DEF Backspace, Target
<1> HIDE DEF left
<1>10. /\ buffer' \in [Terminals -> [Cells -> Cell]]
       /\ \A i \in Cells : buffer'[d][i] = IF i = left + 1 THEN Del ELSE buffer[d][i]
       /\ \A u \in Terminals \ {d} : buffer'[u] = buffer[u] /\ length'[u] = length[u]
  BY <1>1, <1>8, <1>9 DEF TypeOK, Cell
<1>11. TypeOK'
  BY <1>0, <1>1, <1>7, <1>8, <1>9, <1>10 DEF Backspace, Keyboard, TypeOK, Cell
<1>12. reader[d] # "out" => Echoed(d)'
  <2> SUFFICES ASSUME reader[d] # "out", then = "typing" PROVE Echoed(d)'
    BY <1>7 DEF Echoed
  <2>1. Drawn(d)
    BY <1>1 DEF IInv, Echoed
  <2>2. Len(s) = n /\ \A i \in 1..n : i < BufSize => buffer[d][i] = s[i]
    BY <1>2, <1>3, <2>1 DEF Drawn
  <2>3. length'[d] = left /\ echo'[d] = chars /\ screen'[d] = "typing"
    BY <1>1, <1>7, <1>9 DEF TypeOK
  <2>4. Len(chars) = left
    BY <1>2, <1>4, <1>8, <2>2
  <2>5. \A i \in 1..left : i < BufSize => buffer'[d][i] = chars[i]
    <3> SUFFICES ASSUME NEW i \in 1..left, i < BufSize PROVE buffer'[d][i] = chars[i]
      OBVIOUS
    <3>1. n > 0 /\ i \in 1..(n - 1) /\ i \in Cells /\ i # left + 1
      BY <1>8, TerminalAssumption DEF Cells
    <3> QED
      BY <1>4, <1>10, <2>2, <3>1
  <2> QED
    BY <2>3, <2>4, <2>5 DEF Echoed, Drawn
<1> QED
  BY <1>0, <1>1, <1>7, <1>10, <1>11, <1>12, OtherLines DEF Backspace, Keyboard, IInv

LEMMA ClearScreenInv == ASSUME IInv, ClearScreen PROVE IInv'
<1>0. PICK d \in Terminals : d = disp
  BY DEF IInv, TypeOK
<1>1. TypeOK /\ echo[d] \in Seq(Chars)
  BY DEF IInv, TypeOK
<1>2. Draw(d, echo[d], "mixed")
  BY <1>0 DEF ClearScreen
<1>3. /\ echo' \in [Terminals -> Seq(Chars)]
      /\ screen' \in [Terminals -> {"typing", "entered", "mixed"}]
      /\ \A u \in Terminals \ {d} : echo'[u] = echo[u] /\ screen'[u] = screen[u]
      /\ reader[d] # "out" => screen'[d] = "mixed"
  BY <1>1, <1>2, DrawType
<1>4. TypeOK'
  BY <1>1, <1>3 DEF ClearScreen, Keyboard, line, TypeOK
<1>5. reader[d] # "out" => Echoed(d)'
  BY <1>3 DEF Echoed
<1> QED
  BY <1>3, <1>4, <1>5, OtherLines DEF ClearScreen, Keyboard, line, IInv

(* A read starts on an empty line, which its return leaves.                 *)
LEMMA ReadInv ==
  ASSUME IInv,
         \/ Read
         \/ \E t \in Terminals : ReadReturn(t)
  PROVE  IInv'
<1>0. PICK e \in Terminals : e = exec
  BY DEF IInv, TypeOK
<1>1. TypeOK
  BY DEF IInv
<1>2. <<>> \in Seq(Chars) /\ Len(<<>>) = 0
  BY EmptySeq
<1>3. /\ Reset(e)
      /\ echo' = [echo EXCEPT ![e] = <<>>]
      /\ screen' = [screen EXCEPT ![e] = "typing"]
      /\ \E r \in {"out", "spin"} : reader' = [reader EXCEPT ![e] = r]
      /\ enter' = enter \/ enter' = [enter EXCEPT ![e] = FALSE]
      /\ UNCHANGED <<exec, disp, unacked, wild>>
  BY <1>0 DEF Read, ReadReturn, Program, Reader
<1>4. TypeOK'
  <2>1. length' \in [Terminals -> 0..MaxLength]
    BY <1>1, <1>3, TerminalAssumption DEF Reset, TypeOK
  <2>5. enter' \in [Terminals -> BOOLEAN]
    <3>1. enter \in [Terminals -> BOOLEAN] /\ [enter EXCEPT ![e] = FALSE] \in [Terminals -> BOOLEAN]
      BY <1>1 DEF TypeOK
    <3> QED
      BY <1>3, <3>1
  <2>2. buffer' \in [Terminals -> [Cells -> Chars \cup {Newline, Blank, Del}]]
    BY <1>1, <1>3 DEF Reset, TypeOK
  <2>3. echo' \in [Terminals -> Seq(Chars)]
    BY <1>1, <1>2, <1>3 DEF TypeOK
  <2>4. /\ screen' \in [Terminals -> {"typing", "entered", "mixed"}]
        /\ reader' \in [Terminals -> {"out", "spin", "past"}]
    BY <1>1, <1>3 DEF TypeOK
  <2> QED
    BY <1>1, <1>3, <2>1, <2>2, <2>3, <2>4, <2>5 DEF TypeOK
<1>5. Echoed(e)'
  BY <1>1, <1>2, <1>3 DEF Echoed, Drawn, Reset, TypeOK
<1>6. ASSUME NEW u \in Terminals \ {e}, reader'[u] # "out" PROVE Echoed(u)'
  <2>1. /\ length'[u] = length[u] /\ buffer'[u] = buffer[u]
        /\ echo'[u] = echo[u] /\ screen'[u] = screen[u] /\ reader'[u] = reader[u]
    BY <1>1, <1>3 DEF Reset, TypeOK
  <2> QED
    BY <1>6, <2>1, Untouched DEF IInv
<1> QED
  BY <1>4, <1>5, <1>6 DEF IInv

(* The steps that change no line and no screen.                             *)
LEMMA OtherInv ==
  ASSUME IInv,
         \/ BackspaceOutside \/ UnusedKey \/ Tick \/ UNCHANGED vars
         \/ \E t \in Terminals : SwitchTerminal(t) \/ LeaveSpin(t)
  PROVE  IInv'
<1>1. TypeOK
  BY DEF IInv
<1>2. (exec + 1) % NumTerminals \in Terminals
  BY TerminalAssumption DEF TypeOK, IInv, Terminals
<1>3. UNCHANGED <<length, buffer, echo, screen>>
  BY DEF BackspaceOutside, UnusedKey, Tick, vars, SwitchTerminal, LeaveSpin, line, view
<1>4. reader' \in [Terminals -> {"out", "spin", "past"}]
      /\ \A t \in Terminals : reader'[t] # "out" => reader[t] # "out"
  BY <1>1 DEF BackspaceOutside, UnusedKey, Tick, vars, SwitchTerminal, LeaveSpin, Keyboard, TypeOK
<1>5. TypeOK'
  BY <1>1, <1>2, <1>3, <1>4
  DEF BackspaceOutside, UnusedKey, Tick, vars, SwitchTerminal, LeaveSpin, line, Keyboard, Program, TypeOK
<1> QED
  BY <1>3, <1>4, <1>5, Untouched DEF IInv

(* At all times the characters of a line that are on the screen are counted *)
(* by buffer_length, and are in the buffer as far as it reaches, whatever   *)
(* keys, switches, ticks and reads came.                                    *)
THEOREM Invariance == Spec => []IInv
<1>1. IInv /\ [Next]_vars => IInv'
  BY TypeInv, EnterInv, BackspaceInv, ClearScreenInv, ReadInv, OtherInv DEF Next
<1> QED
  BY InitInv, <1>1, PTL DEF Spec

(* The line of each terminal, and what its screen shows of it, keep their   *)
(* types for every buffer size.                                             *)
THEOREM TypeCorrect == Spec => []TypeOK
<1>1. IInv => TypeOK
  BY DEF IInv
<1> QED
  BY <1>1, Invariance, PTL

(* A read copies the line on the screen: for every size of the buffer and   *)
(* any number of keys, erased or not, before and after the spin.            *)
THEOREM LinesDelivered == Spec => []LineDelivered
<1>1. IInv => LineDelivered
  BY EchoedDelivers DEF IInv, LineDelivered
<1> QED
  BY <1>1, Invariance, PTL

(* How many ticks it takes until terminal t executes.                       *)
Away(t) == IF exec <= t THEN t - exec ELSE t + NumTerminals - exec

(* Enter once pressed while a program reads is not lost: no key, switch,    *)
(* read or return of any terminal takes the flag back, the read that it     *)
(* ends does not fall back into its spin, only its own return clears the    *)
(* flag, and every tick brings its terminal nearer to its turn.             *)
EnterKept ==
  [][\A t \in Terminals : reader[t] # "out" /\ enter[t] =>
       \/ ReadReturn(t)
       \/ /\ enter'[t] /\ reader'[t] # "out"
          /\ reader[t] = "past" => reader'[t] = "past"
          /\ Away(t) \in 0..(NumTerminals - 1)
          /\ exec' # exec /\ exec # t => Away(t)' < Away(t)]_vars

(* A turn of n terminals, from e to t, and a tick later.                    *)
LEMMA AwayIs ==
  ASSUME NEW n \in Nat \ {0}, NEW e \in 0..(n - 1), NEW t \in 0..(n - 1), NEW m, m = (e + 1) % n
  PROVE  LET a == IF e <= t THEN t - e ELSE t + n - e
             b == IF m <= t THEN t - m ELSE t + n - m
         IN  a \in 0..(n - 1) /\ (e # t => b < a)
<1>1. m = IF e + 1 = n THEN 0 ELSE e + 1
  <2>1. CASE e + 1 = n
    <3>1. n % n = 0
      OBVIOUS
    <3> QED
      BY <2>1, <3>1
  <2>2. CASE e + 1 < n
    BY <2>2
  <2> QED
    BY <2>1, <2>2
<1> QED
  BY <1>1

(* What each step leaves of an Enter.                                       *)
LEMMA EnterStep ==
  ASSUME TypeOK, [Next]_vars, NEW t \in Terminals, reader[t] # "out", enter[t]
  PROVE  \/ ReadReturn(t)
         \/ /\ enter'[t] /\ reader'[t] # "out"
            /\ reader[t] = "past" => reader'[t] = "past"
            /\ Away(t) \in 0..(NumTerminals - 1)
            /\ exec' # exec /\ exec # t => Away(t)' < Away(t)
<1>1. /\ exec \in Terminals /\ disp \in Terminals
      /\ enter \in [Terminals -> BOOLEAN] /\ reader \in [Terminals -> {"out", "spin", "past"}]
      /\ NumTerminals \in Nat \ {0}
  BY TerminalAssumption DEF TypeOK
<1>2. Away(t) \in 0..(NumTerminals - 1) /\ (Tick /\ exec # t => Away(t)' < Away(t))
  BY <1>1, AwayIs DEF Away, Tick, Terminals
<1>3. exec' # exec => Tick
  BY DEF Next, Type, Enter, Backspace, BackspaceOutside, ClearScreen, UnusedKey, SwitchTerminal,
     Keyboard, Program, LeaveSpin, ReadReturn, Read, vars
<1>4. CASE UNCHANGED <<enter, reader>>
  BY <1>1, <1>2, <1>3, <1>4
<1>5. CASE Enter
  <2>1. enter'[t] /\ reader' = reader
    BY <1>1, <1>5 DEF Enter, Keyboard, Target
  <2> QED
    BY <1>2, <1>3, <2>1
<1>6. ASSUME NEW u \in Terminals, LeaveSpin(u)
      PROVE  enter'[t] /\ reader'[t] # "out" /\ (reader[t] = "past" => reader'[t] = "past")
  BY <1>1, <1>6 DEF LeaveSpin, line
<1>7. ASSUME NEW u \in Terminals, ReadReturn(u), u # t
      PROVE  enter'[t] /\ reader'[t] = reader[t]
  BY <1>1, <1>7 DEF ReadReturn
<1>8. CASE Read
  BY <1>1, <1>2, <1>3, <1>8 DEF Read
<1>9. \/ UNCHANGED <<enter, reader>> \/ Enter \/ Read
      \/ \E u \in Terminals : LeaveSpin(u) \/ ReadReturn(u)
  BY DEF Next, Type, Backspace, BackspaceOutside, ClearScreen, UnusedKey, SwitchTerminal,
     Keyboard, line, vars, Tick
<1> QED
  BY <1>2, <1>3, <1>4, <1>5, <1>6, <1>7, <1>8, <1>9

(* For every number of terminals: what is needed of the program that reads  *)
(* to return on Enter is only that it runs in a turn of its terminal        *)
(* (terminal_read and the enter_pressed flag of keyboard.c).                *)
THEOREM EnterNotLost == Spec => EnterKept
<1>1. TypeOK /\ [Next]_vars =>
        [\A t \in Terminals : reader[t] # "out" /\ enter[t] =>
           \/ ReadReturn(t)
           \/ /\ enter'[t] /\ reader'[t] # "out"
              /\ reader[t] = "past" => reader'[t] = "past"
              /\ Away(t) \in 0..(NumTerminals - 1)
              /\ exec' # exec /\ exec # t => Away(t)' < Away(t)]_vars
  BY EnterStep
<1> QED
  BY <1>1, TypeCorrect, PTL DEF Spec, EnterKept
=============================================================================
