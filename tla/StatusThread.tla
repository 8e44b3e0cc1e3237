---------------------------- MODULE StatusThread ----------------------------
(***************************************************************************)
(* The status message of the adventure game in mp2_jdchang3/adventure.c:    *)
(* the game thread posts messages and draws the status bar, a helper thread *)
(* deletes a message 1.5 seconds after it was posted.                       *)
(*                                                                          *)
(* Every access to status_msg is made holding msg_lock, except that of the  *)
(* drawing code.  A critical section is therefore one step, taken where the *)
(* lock is acquired, and drawing is a step for each read of the message.    *)
(***************************************************************************)
EXTENDS Integers

CONSTANTS
  Msgs,   \* the messages of show_status
  Delay   \* how long a message is to stay, in units of Time

None == "none"           \* status_msg is the empty string
Idle == "idle"           \* the bar shows the room and the typed command
Blank == "blank"         \* the bar shows nothing
Headless == "headless"   \* the bar shows a message without its first letter

ASSUME StatusAssumption ==
  /\ Delay \in Nat \ {0}
  /\ Msgs \cap {None, Idle, Blank, Headless} = {}

VARIABLES
  msg,     \* status_msg
  helper,  \* the helper thread: about to take the lock at "lock", in
           \* pthread_cond_wait at "wait", in pthread_cond_timedwait at
           \* "timed", about to take the lock again after a wake-up at "rearm"
           \* and after the timeout at "expired"
  left,    \* time until the deadline of the timed wait
  game,    \* the game thread: "check", "measure", "first" and "letter" are
           \* the reads of a drawing, "play" is the rest of the event loop
  bar,     \* what the status bar shows
  age      \* history: time since the last message was posted, up to Delay

status == <<msg, helper, left, game, bar, age>>

InitStatus ==
  /\ msg = None
  /\ helper = "lock"
  /\ left = 0
  /\ game = "check"
  /\ bar = Blank
  /\ age = 0

----------------------------------------------------------------------------
NoSignal == helper

(* pthread_cond_signal: a waiting helper will take the lock again.          *)
Signalled ==
  IF helper = "wait" THEN "lock"
  ELSE IF helper = "timed" THEN "rearm" ELSE helper

(* show_status                                                              *)
Post(m) ==
  /\ game = "play"
  /\ msg' = m
  /\ helper' = Signalled
  /\ age' = 0
  /\ UNCHANGED <<left, game, bar>>

(* The clock is read and the deadline set.                                  *)
SetDeadline == helper' = "timed" /\ left' = Delay

AwaitFirst == helper' = "wait" /\ left' = left

(* With the lock held: wait while there is no message.                      *)
AwaitMessage ==
  IF msg = None THEN helper' = "wait" /\ left' = left ELSE SetDeadline

Lock ==
  /\ helper = "lock"
  /\ AwaitMessage
  /\ UNCHANGED <<msg, game, bar, age>>

(* A wake-up that is not a timeout starts the clock again.                  *)
Rearm ==
  /\ helper = "rearm"
  /\ SetDeadline
  /\ UNCHANGED <<msg, game, bar, age>>

(* Either wait may end without a signal.                                    *)
Spurious ==
  /\ helper \in {"wait", "timed"}
  /\ helper' = Signalled
  /\ UNCHANGED <<msg, left, game, bar, age>>

(* The timed wait times out.  The lock is still to be taken: the other      *)
(* thread may post before, and its signal finds nobody waiting.             *)
Expire ==
  /\ helper = "timed"
  /\ left = 0
  /\ helper' = "expired"
  /\ UNCHANGED <<msg, left, game, bar, age>>

(* The message is deleted.                                                  *)
Clear ==
  /\ helper = "expired"
  /\ msg' = None
  /\ helper' = "lock"
  /\ UNCHANGED <<left, game, bar, age>>

(* The deadline is a point in time: once it has passed it stays passed.     *)
CountLeft(t) == IF t > 0 THEN t - 1 ELSE 0

Time ==
  /\ left' = CountLeft(left)
  /\ age' = IF age < Delay THEN age + 1 ELSE Delay
  /\ UNCHANGED <<msg, helper, game, bar>>

----------------------------------------------------------------------------
(* One read of the message by the drawing code: what it shows if the        *)
(* message is gone, else what it reads next.                                *)
Look(here, shown, next) ==
  /\ game = here
  /\ IF msg = None THEN game' = "play" /\ bar' = shown
                   ELSE game' = next /\ bar' = bar
  /\ UNCHANGED <<msg, helper, left, age>>

(* status_bar_to_VGA chooses between the message and the idle line, then    *)
(* status_bar takes its length and tests its first letter.                  *)
CheckMessage == Look("check", Idle, "measure")
Measure      == Look("measure", Blank, "first")
TestFirst    == Look("first", Blank, "letter")

(* The first letter is read again to be drawn.                              *)
DrawLetters ==
  /\ game = "letter"
  /\ bar' = IF msg = None THEN Headless ELSE msg
  /\ game' = "play"
  /\ UNCHANGED <<msg, helper, left, age>>

(* The event loop comes round.                                              *)
NextTick ==
  /\ game = "play"
  /\ game' = "check"
  /\ UNCHANGED <<msg, helper, left, bar, age>>

----------------------------------------------------------------------------
Helper == Lock \/ Rearm \/ Expire \/ Clear
Draw   == CheckMessage \/ Measure \/ TestFirst \/ DrawLetters

NextStatus ==
  \/ \E m \in Msgs : Post(m)
  \/ Spurious
  \/ Helper
  \/ Time
  \/ Draw
  \/ NextTick

SpecStatus == InitStatus /\ [][NextStatus]_status

(* Time passes, both threads are scheduled.                                 *)
FairSpec ==
  /\ SpecStatus
  /\ WF_status(Helper)
  /\ WF_status(Time)
  /\ WF_status(Draw)
  /\ WF_status(NextTick)

----------------------------------------------------------------------------
TypeOK ==
  /\ msg \in Msgs \cup {None}
  /\ helper \in {"lock", "wait", "timed", "rearm", "expired"}
  /\ left \in 0..Delay
  /\ game \in {"check", "measure", "first", "letter", "play"}
  /\ bar \in Msgs \cup {Idle, Blank, Headless}
  /\ age \in 0..Delay

(* While the helper waits without a deadline there is nothing to delete: no *)
(* message is posted between its test and its wait, or before it runs.      *)
NoLostMessage == helper = "wait" => msg = None

(* The clock is restarted for a new message: the timed wait never ends on a *)
(* message that has been up for less than Delay.                            *)
ExpiresInTime == [][helper' = "expired" /\ helper # "expired" => age >= Delay]_status

(* Unlocked reads can spoil the bar, but not for good: when no message      *)
(* comes any more, the last one is deleted and the bar returns to the room. *)
Quiet == <>[][~Spurious /\ \A m \in Msgs : ~Post(m)]_status

ReturnsToIdle == Quiet => <>[](msg = None /\ bar = Idle)
=============================================================================
