-------------------------------- MODULE Input --------------------------------
(***************************************************************************)
(* The adventure's player input: input.c, and the dispatch of commands by   *)
(* adventure.c's event loop.                                                *)
(*                                                                          *)
(* Keys send sequences of bytes.  A tick may end after any byte: get_command*)
(* reads until stdin is empty, and the rest of a key comes in a later tick. *)
(* What a typed command does is World's; here it only returns its result.   *)
(***************************************************************************)
EXTENDS Naturals, Sequences, SequencesExt

CONSTANTS
  Letters,   \* letters that the player types; " " is the space
  MaxTyped   \* MAX_TYPED_LEN

ASSUME InputAssumption == MaxTyped \in Nat

VARIABLES
  rest,    \* bytes that the last key has still to send
  key,     \* the last key
  state,   \* the automaton for escape sequences
  pushed,  \* the command that get_command will return
  typing,  \* the typed command
  phase,   \* the step of the event loop: enter, read, handle; quit
  from     \* history: the automaton's state when the last key began

input == <<rest, key, state, pushed, typing, phase, from>>

(* The arrow that moves the photo down, the key that enters a door, and the *)
(* plain keys.                                                              *)
Plain == Letters \cup {"ESC", "DEL", "CR", "QUIT"}
KeyBytes(k) == CASE k = "Up" -> <<"ESC", "[", "A">>
                 [] k = "Home" -> <<"ESC", "[", "1", "~">>
                 [] OTHER -> <<k>>
Keys == Plain \cup {"Up", "Home"}

(* Letters that end escape sequences are letters or digits that one types.  *)
ValidTyping(ch) == ch \in Letters \cup {"A", "1", "DEL"}

TypedOver(text, ch) ==
  CASE ch = "DEL" -> IF Len(text) > 0 THEN Front(text) ELSE text
    [] OTHER -> IF Len(text) < MaxTyped THEN Append(text, ch) ELSE Append(Front(text), ch)

TypedAChar(text, ch) ==
  CASE ch = "DEL" -> IF Len(text) > 0 THEN Front(text) ELSE text
    [] OTHER -> IF Len(text) < MaxTyped THEN Append(text, ch) ELSE text

----------------------------------------------------------------------------
(* The table of verbs: name, shortest abbreviation, command.                *)
CmdList ==
  << <<<<"b","u","y">>, 3, "BUY">>, <<<<"c","h","a","r","g","e">>, 2, "CHARGE">>,
     <<<<"d","o">>, 2, "DO">>, <<<<"d","r","i","n","k">>, 3, "DRINK">>,
     <<<<"d","r","o","p">>, 2, "DROP">>, <<<<"f","i","x">>, 3, "FIX">>,
     <<<<"f","l","a","s","h">>, 5, "FLASH">>, <<<<"g","e","t">>, 1, "GET">>,
     <<<<"g","o">>, 2, "GO">>, <<<<"g","r","a","b">>, 2, "GET">>,
     <<<<"i","n","s","t","a","l","l">>, 3, "INSTALL">>,
     <<<<"i","n","v","e","n","t","o","r","y">>, 1, "INVENTORY">>,
     <<<<"s","i","g","h">>, 4, "SIGH">>, <<<<"u","s","e">>, 3, "USE">>,
     <<<<"w","e","a","r">>, 4, "WEAR">> >>

Entries == 1 .. Len(CmdList)

(* sanity_check: every entry can match, and not everything does; every      *)
(* command has an entry.                                                    *)
Sane ==
  /\ \A e \in Entries : CmdList[e][2] \in 1 .. Len(CmdList[e][1])
  /\ {CmdList[e][3] : e \in Entries} =
       {"BUY", "CHARGE", "DO", "DRINK", "DROP", "FIX", "FLASH", "GET", "GO",
        "INSTALL", "INVENTORY", "SIGH", "USE", "WEAR"}

(* strip the leading spaces; the verb ends at the next one                  *)
Verb(text) ==
  LET first == SelectInSeq(text, LAMBDA c : c # " ")
      stripped == IF first = 0 THEN <<>> ELSE SubSeq(text, first, Len(text))
      space == SelectInSeq(stripped, LAMBDA c : c = " ")
  IN  IF space = 0 THEN stripped ELSE SubSeq(stripped, 1, space - 1)

MatchesShort(e, verb) == IsPrefix(verb, CmdList[e][1])
Matches(e, verb) == CmdList[e][2] <= Len(verb) /\ IsPrefix(verb, CmdList[e][1])

(* The first entry that the verb abbreviates, or 0.                         *)
Lookup(verb) ==
  LET found == {e \in Entries : Matches(e, verb)}
  IN  IF found = {} THEN 0 ELSE CHOOSE e \in found : \A f \in found : e <= f

----------------------------------------------------------------------------
InitInput ==
  /\ rest = <<>> /\ key = "CR"
  /\ state = 0 /\ pushed = "NONE"
  /\ typing = <<>>
  /\ phase = "enter" /\ from = 0

(* The room is entered: a partly typed command is discarded.                *)
EnterRoom ==
  /\ phase = "enter"
  /\ typing' = <<>>
  /\ phase' = "read"
  /\ UNCHANGED <<rest, key, state, pushed, from>>

(* A byte outside of an escape sequence, or one that breaks it.             *)
Ordinary(ch) ==
  /\ typing' = IF ValidTyping(ch) THEN TypedAChar(typing, ch) ELSE typing
  /\ pushed' = IF ch = "CR" THEN "TYPED" ELSE pushed

Push(cmd) == pushed' = cmd /\ UNCHANGED typing
Swallow == UNCHANGED <<pushed, typing>>

(* One turn of get_command's loop.                                          *)
Automaton(ch) ==
  CASE state = 0 /\ ch = "ESC" -> state' = 1 /\ Swallow
    [] state = 1 /\ ch = "[" -> state' = 2 /\ Swallow
    [] state = 2 /\ ch = "A" -> state' = 0 /\ Push("UP")
    [] state = 2 /\ ch = "1" -> state' = 3 /\ Push("ENTER")
    [] state = 3 /\ ch = "~" -> state' = 0 /\ Swallow
    [] OTHER -> state' = 0 /\ Ordinary(ch)

NextByte(k) == IF rest = <<>> THEN Head(KeyBytes(k)) ELSE Head(rest)

ReadByte(k) ==
  /\ phase = "read"
  /\ IF rest = <<>> THEN key' = k /\ rest' = Tail(KeyBytes(k)) /\ from' = state
                    ELSE k = key /\ rest' = Tail(rest) /\ UNCHANGED <<key, from>>
  /\ NextByte(k) # "QUIT"
  /\ Automaton(NextByte(k))
  /\ UNCHANGED phase

(* A backquote quits at once.                                               *)
Quit ==
  /\ phase = "read" /\ rest = <<>>
  /\ key' = "QUIT" /\ phase' = "quit"
  /\ UNCHANGED <<rest, state, pushed, typing, from>>

ReadNothingForgets ==
  /\ phase = "read"
  /\ phase' = "handle" /\ state' = 0
  /\ UNCHANGED <<rest, key, pushed, typing, from>>

(* No byte is left: the tick's command is the last one pushed.              *)
ReadNothing ==
  /\ phase = "read"
  /\ phase' = "handle"
  /\ UNCHANGED <<rest, key, state, pushed, typing, from>>

(* The dispatch of a command ends the tick.                                 *)
EndTick(room) ==
  /\ phase' = IF room THEN "enter" ELSE "read"
  /\ pushed' = "NONE"
  /\ UNCHANGED <<rest, key, state, from>>

Move ==
  /\ phase = "handle" /\ pushed \in {"NONE", "UP"}
  /\ UNCHANGED typing
  /\ EndTick(FALSE)

(* try_to_enter succeeds or not.                                            *)
Walk ==
  /\ phase = "handle" /\ pushed = "ENTER"
  /\ UNCHANGED typing
  /\ \E room \in BOOLEAN : EndTick(room)

(* handle_typing                                                            *)
HandleTyping(result) ==
  /\ phase = "handle" /\ pushed = "TYPED"
  /\ IF Lookup(Verb(typing)) = 0
       THEN result = "ALLOW_EDIT" /\ UNCHANGED typing /\ EndTick(FALSE)
       ELSE /\ typing' = IF result \in {"CHANGE_ROOM", "ALLOW_EDIT"} THEN typing ELSE <<>>
            /\ EndTick(result = "CHANGE_ROOM")

NextInput ==
  \/ EnterRoom \/ Quit \/ ReadNothing \/ Move \/ Walk
  \/ \E k \in Keys : ReadByte(k)
  \/ \E r \in {"CHANGE_ROOM", "ALLOW_EDIT", "DISCARD_TEXT", "REDRAW_ROOM"} : HandleTyping(r)
=============================================================================
