------------------------------ MODULE KeyCodes -------------------------------
(***************************************************************************)
(* What keyboard_handler (keyboard.c) makes of a scan code: the two tables  *)
(* and the modifier keys.                                                   *)
(*                                                                          *)
(* A key stands for all that the tables and the handler treat alike; "l" is *)
(* the letter of Ctrl+L.  The modifiers' counters are bytes that a held key *)
(* increments again and again, so at any key each may be 0 or not, whatever *)
(* keys are held.                                                           *)
(***************************************************************************)

None == "no character"   \* 0 in the tables

scanCodes ==
  [A |-> "a", L |-> "l", One |-> "1", Esc |-> "escape", Space |-> " ",
   Return |-> "newline", Rubout |-> "backspace", F1 |-> None, Home |-> None]

shiftScanCodes ==
  [A |-> "A", L |-> "L", One |-> "!", Esc |-> "escape", Space |-> " ",
   Return |-> "newline", Rubout |-> "backspace", F1 |-> None, Home |-> None]

Codes == DOMAIN scanCodes

(* Which counters are above 0.                                              *)
Modifiers == [shift : BOOLEAN, ctrl : BOOLEAN, alt : BOOLEAN, caps : BOOLEAN]

(* The character of a key: shift and caps lock cancel out, and caps lock    *)
(* changes letters only.                                                    *)
Character(code, m) ==
  IF m.shift # m.caps /\ (scanCodes[code] \in {"a", "l"} \/ ~m.caps)
    THEN shiftScanCodes[code] ELSE scanCodes[code]

(* Alt without shift takes every key, and knows the function keys.          *)
Meaning(code, m) ==
  IF m.alt /\ ~m.shift
    THEN IF code = "F1" THEN "switch terminal" ELSE "nothing"
    ELSE LET c == Character(code, m)
         IN  CASE c = "newline" -> "enter"
               [] c = "backspace" -> "backspace"
               [] c = "l" /\ m.ctrl -> "clear screen"
               [] c = None -> "unused"
               [] OTHER -> "type"

(* What one interrupt of the keyboard may mean: a key that goes down, a     *)
(* modifier that is pressed or released, a key that goes up.                *)
Meanings ==
  {Meaning(code, m) : code \in Codes, m \in Modifiers} \cup {"modifier", "nothing"}
=============================================================================
