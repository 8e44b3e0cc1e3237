-------------------------------- MODULE Game ---------------------------------
(***************************************************************************)
(* The adventure's process: the player's input within a session.            *)
(***************************************************************************)
EXTENDS Input, Session

vars == <<input, session>>

Init == InitInput /\ InitSession

(* The event loop runs while main is in it and no cleanups run.             *)
Loop == At("loop") /\ phase # "quit" /\ NextInput /\ UNCHANGED session

(* Quit leaves the loop; so does the command that wins the game.            *)
Leave ==
  /\ LeaveLoop
  /\ \/ phase = "quit"
     \/ phase = "handle" /\ pushed = "TYPED" /\ Lookup(Verb(typing)) # 0
  /\ UNCHANGED input

Main == Loop \/ Leave \/ (Program(Sane) /\ UNCHANGED input)

Next ==
  \/ Main
  \/ (ClockFails /\ UNCHANGED input)
  \/ (Arrives /\ UNCHANGED input)

(* A process that can run does.                                             *)
Spec == Init /\ [][Next]_vars /\ WF_vars(Program(Sane) /\ UNCHANGED input)

----------------------------------------------------------------------------
(* A key's bytes mean the same however ticks split them: an arrow or Home   *)
(* that begins outside of an escape sequence gives its command and types    *)
(* nothing (the automaton's state is kept between calls, input.c:176).      *)
KeysSurviveTicks ==
  [][(key \in {"Up", "Home"} /\ from = 0 /\ rest # <<>> /\ rest' # rest) =>
          /\ typing' = typing
          /\ (key = "Up" /\ rest' = <<>>) => pushed' = "UP"
          /\ (key = "Home" /\ Len(rest') = 1) => pushed' = "ENTER"]_input

(* Text leaves the typed line only by the delete key, by a command that was *)
(* recognised, or with the room.                                            *)
TextKept ==
  [][~IsPrefix(typing, typing') =>
       \/ phase = "enter"
       \/ phase = "handle" /\ pushed = "TYPED" /\ Lookup(Verb(typing)) # 0
       \/ phase = "read" /\ key' = "DEL" /\ Len(typing') + 1 = Len(typing)]_input

(* After blanks, each verb's shortest abbreviation and its full name give   *)
(* its command: no entry shadows another, which sanity_check leaves         *)
(* unchecked (adventure.c:846).                                             *)
VerbsReachable ==
  (\A i \in 1 .. Len(typing) : typing[i] = " ") =>
    \A e \in Entries : \A n \in {CmdList[e][2], Len(CmdList[e][1])} :
      LET found == Lookup(Verb(typing \o SubSeq(CmdList[e][1], 1, n) \o <<" ">>))
      IN  found # 0 /\ CmdList[found][3] = CmdList[e][3]

(* The cleanups that a run has unlinked and not executed, and the resource  *)
(* that main has taken and not pushed.                                      *)
Newest == Resources[SelectLastInSeq(Resources, LAMBDA r : r \in held)]

InFlight ==
  {frames[i].in : i \in 1 .. Len(frames)}
    \cup (IF pc \in {"blank", "program", "push"} THEN {Newest} ELSE {})

(* However the game ends, unless by a second signal, the screen and the     *)
(* terminal are given back, except what a signal caught in flight.          *)
GivenBack ==
  end \notin {"none", "killed"} =>
    /\ "tty" \in held => "tty" \in InFlight
    /\ screen # "text" => InFlight \cap {"video", "text_mode"} # {}

(* No cleanup runs for what was free already: clear_mode_X would write to   *)
(* video memory that it has unmapped.                                       *)
NeverTwice == again => pc \in {"clock", "cleared"}

(* A signal that is caught ends the game, whatever its cleanups meet.       *)
SignalEnds == (frames # <<>> /\ Top.for # "main") ~> end # "none"
=============================================================================
