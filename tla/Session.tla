------------------------------ MODULE Session -------------------------------
(***************************************************************************)
(* A session of the adventure from main to the shell: the resources that    *)
(* adventure.c's main takes in turn, the stack of cleanups of assert.c, and *)
(* the failures and signals that end the game at any step.                  *)
(*                                                                          *)
(* "thread" is the status thread, "video" the mapped video memory, "tty"    *)
(* the terminal's unbuffered mode.  Signals are delivered to the main       *)
(* thread, as Linux does when it can take them.                             *)
(***************************************************************************)
EXTENDS Naturals, Sequences, SequencesExt

CONSTANT Signals  \* signals that clean_on_signals catches

ASSUME SessionAssumption == {"main", "panic", "none"} \cap Signals = {}

Resources == <<"thread", "video", "tty">>

VARIABLES
  pc,       \* the step of main
  held,     \* the resources that are taken
  screen,   \* what the VGA shows: "text", "mode_X", or nothing ("blank")
  stack,    \* the cleanup stack, its top first
  frames,   \* the runs of cleanups under way: what for, and the cleanup it is in
  caught,   \* the signals that have a handler; others have their default
  nonblock, \* O_NONBLOCK of stdin, which the shell shares
  end,      \* how the process ended, or "none"
  again     \* history: the text mode was set in memory no longer mapped

session == <<pc, held, screen, stack, frames, caught, nonblock, end, again>>

InitSession ==
  /\ pc = "signals"
  /\ held = {} /\ screen = "text" /\ stack = <<>> /\ frames = <<>>
  /\ caught = {} /\ nonblock = FALSE
  /\ end = "none" /\ again = FALSE

----------------------------------------------------------------------------
(* main.  It runs while no cleanups do.                                     *)
At(step) == pc = step /\ frames = <<>> /\ end = "none"
Go(step) == pc' = step

(* PANIC and ABORT clean up, then end the process.                          *)
Fail ==
  /\ frames' = <<[for |-> "panic", in |-> "none"]>>
  /\ UNCHANGED pc

(* clean_on_signals: the handlers are set one by one.                       *)
CleanOnSignals ==
  /\ At("signals")
  /\ \/ Go("world") /\ caught' = Signals /\ UNCHANGED frames
     \/ Fail /\ caught' \in SUBSET Signals
  /\ UNCHANGED <<held, screen, stack, nonblock, end, again>>

(* build_world, and sanity_check                                            *)
BuildWorld(sane) ==
  /\ At("world")
  /\ (sane /\ Go("take") /\ UNCHANGED frames) \/ Fail
  /\ UNCHANGED <<held, screen, stack, caught, nonblock, end, again>>

(* The resources are taken in turn, and each is pushed after it was taken.  *)
Wanted == Resources[Len(stack) + 1]

Take(resource, then) ==
  /\ Wanted = resource
  /\ \/ held' = held \cup {resource} /\ Go(then) /\ UNCHANGED frames
     \/ Fail /\ UNCHANGED held
  /\ UNCHANGED <<screen, stack, caught, nonblock, end, again>>

CreateThread == At("take") /\ Take("thread", "push")

(* The VGA is blanked; it shows a picture again when its registers and      *)
(* palette have been set, for the text also the fonts.                      *)
VGABlank == screen' = "blank"
ProgramModeX == screen' = "mode_X"
SetTextMode3 == screen' = "text"

(* set_mode_X                                                               *)
OpenMemory == At("take") /\ Take("video", "blank")

SetModeX ==
  /\ \/ At("blank") /\ VGABlank /\ Go("program")
     \/ At("program") /\ ProgramModeX /\ Go("push")
  /\ UNCHANGED <<held, stack, frames, caught, nonblock, end, again>>

(* init_input: fcntl, then the terminal's settings                          *)
SetNonblock ==
  /\ At("take") /\ Wanted = "tty"
  /\ \/ nonblock' = TRUE /\ Go("settings") /\ UNCHANGED frames
     \/ Fail /\ UNCHANGED nonblock
  /\ UNCHANGED <<held, screen, stack, caught, end, again>>

SetTerminal == At("settings") /\ Take("tty", "push")

(* push_cleanup: memory may be out.                                         *)
PushCleanup ==
  /\ At("push")
  /\ \/ /\ stack' = <<Wanted>> \o stack
        /\ Go(IF Len(stack) + 1 < Len(Resources) THEN "take" ELSE "loop")
        /\ UNCHANGED frames
     \/ Fail /\ UNCHANGED stack
  /\ UNCHANGED <<held, screen, caught, nonblock, end, again>>

(* The cleanups: what they give back.  O_NONBLOCK is not taken back.        *)
CancelStatusThread(taken) == taken \ {"thread"}
Unmap(taken) == taken \ {"video"}
ShutdownInput(taken) == taken \ {"tty"}

(* gettimeofday fails in the loop: two cleanups, not by the stack, and exit.*)
ClockFails ==
  /\ At("loop") /\ VGABlank /\ Go("clock")
  /\ UNCHANGED <<held, stack, frames, caught, nonblock, end, again>>

ClearModeX ==
  /\ At("clock") /\ Go("cleared")
  /\ SetTextMode3 /\ held' = Unmap(held)
  /\ UNCHANGED <<stack, frames, caught, nonblock, end, again>>

ClockExit ==
  /\ At("cleared")
  /\ held' = ShutdownInput(held)
  /\ end' = "clock"
  /\ UNCHANGED <<pc, screen, stack, frames, caught, nonblock, again>>

(* The game is quit or won.                                                 *)
LeaveLoop ==
  /\ At("loop") /\ Go("pop")
  /\ UNCHANGED <<held, screen, stack, frames, caught, nonblock, end, again>>

PopInMain ==
  /\ At("pop") /\ stack # <<>>
  /\ frames' = <<[for |-> "main", in |-> "none"]>>
  /\ UNCHANGED <<pc, held, screen, stack, caught, nonblock, end, again>>

Exit ==
  /\ At("pop") /\ stack = <<>>
  /\ end' = "exit"
  /\ UNCHANGED <<pc, held, screen, stack, frames, caught, nonblock, again>>

----------------------------------------------------------------------------
(* pop_cleanup, in the innermost run of cleanups: the top is unlinked, then *)
(* executed.  A run for main pops one cleanup, any other the whole stack.   *)
Top == frames[Len(frames)]
Cleaning == frames # <<>> /\ end = "none"

KeepLinked ==
  /\ Cleaning /\ Top.in = "none" /\ stack # <<>>
  /\ frames' = [frames EXCEPT ![Len(frames)].in = Head(stack)]
  /\ stack' = stack
  /\ UNCHANGED <<pc, held, screen, caught, nonblock, end, again>>

Unlink ==
  /\ Cleaning /\ Top.in = "none" /\ stack # <<>>
  /\ frames' = [frames EXCEPT ![Len(frames)].in = Head(stack)]
  /\ stack' = Tail(stack)
  /\ UNCHANGED <<pc, held, screen, caught, nonblock, end, again>>

(* What a cleanup does: clear_mode_X blanks the VGA, and in a second step   *)
(* has restored the text mode and its fonts, and unmaps the memory.         *)
Step(resource, after) ==
  /\ Cleaning /\ Top.in = resource
  /\ frames' = IF Top.for = "main" /\ after = "none" THEN Front(frames)
                ELSE [frames EXCEPT ![Len(frames)].in = after]
  /\ UNCHANGED <<pc, stack, caught, nonblock, end>>

Execute ==
  \/ Step("thread", "none") /\ held' = CancelStatusThread(held) /\ UNCHANGED <<screen, again>>
  \/ Step("tty", "none") /\ held' = ShutdownInput(held) /\ UNCHANGED <<screen, again>>
  \/ /\ Step("video", "text_mode") /\ VGABlank /\ UNCHANGED held
     /\ again' = (again \/ "video" \notin held)
  \/ Step("text_mode", "none") /\ SetTextMode3 /\ held' = Unmap(held) /\ UNCHANGED again

FinishEarly ==
  /\ Cleaning /\ Top.in = "none"
  /\ end' = Top.for
  /\ UNCHANGED <<pc, held, screen, stack, frames, caught, nonblock, again>>

FinishReturns ==
  /\ Cleaning /\ Top.in = "none" /\ stack = <<>>
  /\ IF Top.for = "panic" THEN end' = "panic" /\ UNCHANGED frames
                          ELSE frames' = Front(frames) /\ UNCHANGED end
  /\ UNCHANGED <<pc, held, screen, stack, caught, nonblock, again>>

(* do_cleanups returns: exit, abort, or the signal again, now by default.   *)
Finish ==
  /\ Cleaning /\ Top.in = "none" /\ stack = <<>>
  /\ end' = Top.for
  /\ UNCHANGED <<pc, held, screen, stack, frames, caught, nonblock, again>>

(* catch_signal; the handler is installed for one time and blocks its own   *)
(* signal.                                                                  *)
CatchSignal(s) ==
  /\ end = "none" /\ s \in caught
  /\ frames' = Append(frames, [for |-> s, in |-> "none"])
  /\ caught' = caught \ {s}
  /\ UNCHANGED <<pc, held, screen, stack, nonblock, end, again>>

(* Without a handler a signal kills the process, unless every thread blocks *)
(* it: then it waits for the end that its handler brings anyway.            *)
Kill(s) ==
  /\ end = "none" /\ s \notin caught
  /\ "thread" \in held \/ \A i \in 1 .. Len(frames) : frames[i].for # s
  /\ end' = "killed"
  /\ UNCHANGED <<pc, held, screen, stack, frames, caught, nonblock, again>>

Program(sane) ==
  \/ CleanOnSignals \/ BuildWorld(sane)
  \/ CreateThread \/ OpenMemory \/ SetModeX \/ SetNonblock \/ SetTerminal \/ PushCleanup
  \/ ClearModeX \/ ClockExit \/ PopInMain \/ Exit
  \/ Unlink \/ Execute \/ Finish

Arrives == \E s \in Signals : CatchSignal(s) \/ Kill(s)
=============================================================================
