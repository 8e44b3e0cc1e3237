-------------------------------- MODULE Tux --------------------------------
(***************************************************************************)
(* The driver of the Tux controller, mp2_jdchang3/module/tuxctl-ioctl.c,    *)
(* with the controller as mtcp.h describes it.                              *)
(*                                                                          *)
(* A program calls tuxctl_ioctl, the receive interrupt calls                *)
(* tuxctl_handle_packet.  The interrupt may come anywhere in a call: a call *)
(* is cut where the two touch the same data.  Packets and commands are sent *)
(* whole and in order: TuxLine is about their bytes.                        *)
(***************************************************************************)
EXTENDS Naturals, Sequences

CONSTANTS
  Leds,     \* the arguments of TUX_SET_LED
  Pointer,  \* the argument of TUX_BUTTONS, an address, taken as LEDs
  Reports,  \* what the controller reports of its buttons
  Line      \* bound: commands and packets on the line, in each direction

Zeros == "zeros"       \* what is in the driver's arrays that was never written

Halves == Leds \cup {Pointer, Zeros}

(* A report of the buttons is two bytes, of four buttons each.  A bit is    *)
(* clear when its button is held down, and bit 7 of each byte is set: no    *)
(* report has a byte of zeros, which is read as all four buttons held.      *)
Idle == "idle"
Held == "held"
Copies == {Idle, Held, Zeros} \X {Idle, Held, Zeros}

LedSet(d) == [op |-> "led", data |-> d]
BiocOn == [op |-> "bioc"]
LedUsr == [op |-> "usr"]
Ack == [op |-> "ack"]
Reset == [op |-> "reset"]
Event(b) == [op |-> "event", buttons |-> b]

Commands == {BiocOn, LedUsr} \cup {LedSet(d) : d \in Halves \X Halves}
Packets == {Ack, Reset} \cup {Event(b) : b \in Reports}

ASSUME TuxAssumption ==
  /\ Pointer \notin Leds /\ Zeros \notin Leds \cup {Pointer}
  /\ Reports \subseteq {Idle, Held} \X {Idle, Held}

VARIABLES
  ack,      \* ack: 1 until the controller acknowledges
  prev,     \* prev_stored_packets, as two halves
  stored,   \* stored_packets
  call,     \* the program's call: "none"; where set_TUX_buttons is: "read" with
            \* one byte read, "told" with both; or where an LED request is:
            \* "asked" when accepted, "copy" with half of prev written, "put" with
            \* all of it
  arg,      \* the argument of set_TUX_LED, until it is in prev
  first,    \* the byte that set_TUX_buttons read first, while it is needed
  down, up, \* what is on the line to and from the controller
  leds, usr, bioc, dead, buttons, \* the controller: its LEDs, user mode,
            \* button events on, locked up, the buttons themselves
  missed,   \* history: no event was ever sent, or a button changed since
  had       \* history: what stored has been while set_TUX_buttons reads it

driver == <<ack, prev, stored, call, arg, first, had>>
controller == <<leds, usr, bioc, dead, buttons, missed>>
vars == <<driver, down, up, controller>>

Init ==
  /\ ack = 0
  /\ prev = <<Zeros, Zeros>>
  /\ stored = <<Zeros, Zeros>>
  /\ call = "none"
  /\ arg = Zeros
  /\ first = Zeros
  /\ down = <<>>
  /\ up = <<>>
  /\ leds = <<Zeros, Zeros>>
  /\ usr = FALSE
  /\ bioc = FALSE
  /\ dead = FALSE
  /\ buttons \in Reports
  /\ missed = TRUE
  /\ had = {}

----------------------------------------------------------------------------
(* The program.                                                             *)
NoCommands == <<>>

InitCommands == <<BiocOn, LedUsr>>

Locked == 1

(* TUX_INIT                                                                 *)
IoctlInit ==
  /\ call = "none"
  /\ Len(down) + 2 <= Line
  /\ ack' = Locked
  /\ down' = down \o InitCommands
  /\ UNCHANGED <<prev, stored, call, arg, first, had, up, controller>>

(* An LED request is dropped while the last one is not acknowledged.        *)
(* Otherwise set_TUX_LED is called.                                         *)
RequestLeds(d) ==
  /\ ack = 0
  /\ Len(down) < Line
  /\ ack' = Locked
  /\ call' = "asked"
  /\ arg' = d
  /\ UNCHANGED <<prev, stored, down, up, controller>>

(* TUX_SET_LED                                                              *)
IoctlSetLed ==
  /\ call = "none"
  /\ \E d \in Leds : RequestLeds(d)
  /\ UNCHANGED <<first, had>>

(* TUX_BUTTONS: set_TUX_buttons reads stored_packets with interrupts on, a  *)
(* byte at a time.                                                          *)
IoctlButtons ==
  /\ call = "none"
  /\ call' = "read"
  /\ first' = stored[1]
  /\ had' = {stored}
  /\ UNCHANGED <<ack, prev, stored, arg, down, up, controller>>

ReadLast ==
  /\ call = "read"
  /\ call' = "told"
  /\ first' = Zeros
  /\ had' = {}
  /\ UNCHANGED <<ack, prev, stored, arg, down, up, controller>>

(* The program has its report.  There is no break: the call goes on as      *)
(* TUX_SET_LED with the address of the report.                              *)
FallThrough ==
  /\ call = "told"
  /\ \/ RequestLeds(Pointer)
     \/ ack = 1 /\ call' = "none" /\ UNCHANGED <<ack, prev, stored, arg, down, up, controller>>
  /\ UNCHANGED <<first, had>>

(* set_TUX_LED copies its packet to prev_stored_packets, half of it first.  *)
CopyHalf ==
  /\ call = "asked"
  /\ call' = "copy"
  /\ prev' = <<arg, prev[2]>>
  /\ arg' = Zeros
  /\ UNCHANGED <<ack, stored, first, had, down, up, controller>>

CopyFirst ==
  /\ call = "copy"
  /\ call' = "put"
  /\ prev' = <<prev[1], prev[1]>>
  /\ UNCHANGED <<ack, stored, arg, first, had, down, up, controller>>

SendFirst ==
  /\ call = "copy"
  /\ call' = "put"
  /\ down' = Append(down, LedSet(<<prev[1], prev[1]>>))
  /\ UNCHANGED <<ack, prev, stored, arg, first, had, up, controller>>

CopyLast ==
  /\ call = "put"
  /\ call' = "none"
  /\ prev' = <<prev[1], prev[1]>>
  /\ UNCHANGED <<ack, stored, arg, first, had, down, up, controller>>

SendLast ==
  /\ call = "put"
  /\ call' = "none"
  /\ down' = Append(down, LedSet(<<prev[1], prev[1]>>))
  /\ UNCHANGED <<ack, prev, stored, arg, first, had, up, controller>>

SetLedSwapped == SendFirst \/ CopyLast

(* The rest of set_TUX_LED: prev_stored_packets is written before the       *)
(* packet is sent.                                                          *)
SetLed == CopyFirst \/ SendLast

Call == ReadLast \/ FallThrough \/ CopyHalf \/ SetLed

----------------------------------------------------------------------------
(* The receive interrupt: tuxctl_handle_packet.                             *)
Received(op) ==
  /\ up # <<>>
  /\ Head(up).op = op
  /\ up' = Tail(up)

HandleAck ==
  /\ Received("ack")
  /\ ack' = 0
  /\ UNCHANGED <<prev, stored, call, arg, first, had, down, controller>>

Ignore(report) == stored

Store(report) == report

HandleEvent ==
  /\ Received("event")
  /\ stored' = Store(Head(up).buttons)
  /\ had' = IF call = "read" THEN had \cup {stored'} ELSE had
  /\ UNCHANGED <<ack, prev, call, arg, first, down, controller>>

(* What a reset of the controller is answered with.                         *)
Restore == Append(InitCommands, LedSet(prev))

HandleReset ==
  /\ Received("reset")
  /\ ack' = Locked
  /\ down' = down \o Restore
  /\ UNCHANGED <<prev, stored, call, arg, first, had, controller>>

----------------------------------------------------------------------------
(* The controller.                                                          *)
Unknown(c) == c.op = "led" /\ c.data[1] = Zeros

(* A command is carried out and acknowledged.  Six zero bytes are no        *)
(* command: the controller locks up, with debug-lockup on.                  *)
Obey ==
  /\ down # <<>>
  /\ Len(up) < Line
  /\ down' = Tail(down)
  /\ LET c == Head(down)
         done == ~dead /\ ~Unknown(c)
     IN  /\ dead' = ~done
         /\ up' = IF done THEN Append(up, Ack) ELSE up
         /\ leds' = IF done /\ c.op = "led" THEN c.data ELSE leds
         /\ usr' = (usr \/ (done /\ c.op = "usr"))
         /\ bioc' = (bioc \/ (done /\ c.op = "bioc"))
  /\ UNCHANGED <<driver, buttons, missed>>

(* Buttons are pressed or released.                                         *)
Press ==
  /\ buttons' \in Reports \ {buttons}
  /\ IF bioc /\ ~dead
       THEN Len(up) + 1 < Line /\ up' = Append(up, Event(buttons')) /\ missed' = FALSE
       ELSE up' = up /\ missed' = TRUE
  /\ UNCHANGED <<driver, down, leds, usr, bioc, dead>>

(* The reset button of the controller.                                      *)
PressReset ==
  /\ Len(down) + 3 <= Line /\ Len(up) + 1 < Line
  /\ \A i \in DOMAIN up : up[i] # Reset
  /\ up' = Append(up, Reset)
  /\ leds' = <<Zeros, Zeros>>
  /\ usr' = FALSE
  /\ bioc' = FALSE
  /\ dead' = FALSE
  /\ UNCHANGED <<driver, down, buttons, missed>>

----------------------------------------------------------------------------
Handle == HandleAck \/ HandleEvent \/ HandleReset

User == IoctlInit \/ IoctlSetLed \/ IoctlButtons \/ Press \/ PressReset

Next == User \/ Call \/ Handle \/ Obey

Spec == Init /\ [][Next]_vars

(* The program's call, the interrupt and the controller go on.              *)
FairSpec == Spec /\ WF_vars(Call) /\ WF_vars(Handle) /\ WF_vars(Obey)

----------------------------------------------------------------------------
TypeOK ==
  /\ ack \in {0, 1}
  /\ prev \in Halves \X Halves
  /\ stored \in Copies
  /\ call \in {"none", "read", "told", "asked", "copy", "put"}
  /\ arg \in Halves
  /\ first \in {Idle, Held, Zeros}
  /\ had \subseteq Copies
  /\ down \in Seq(Commands)
  /\ up \in Seq(Packets)
  /\ leds \in Halves \X Halves
  /\ {usr, bioc, dead, missed} \subseteq BOOLEAN
  /\ buttons \in Reports

(* What set_TUX_buttons tells the program, when it has read the second byte.*)
Told == <<first, stored[2]>>

(* Events have changed both bytes of the driver's copy while it was read.   *)
Mixed == \A i \in {1, 2} : \E r, q \in had : r[i] # q[i]

(* The driver's copy of the buttons is the controller's, except for events  *)
(* on their way, for changes while the controller reported none, and before *)
(* the first event.  What TUX_BUTTONS tells a program is a copy the driver  *)
(* had during the call, unless events changed both bytes between its reads. *)
ButtonsFollow ==
  /\ ~missed /\ (\A i \in DOMAIN up : up[i].op # "event") => stored = buttons
  /\ call = "read" => Told \in had \/ Mixed

(* When programs and the user do nothing any more, the LEDs show the last   *)
(* request the driver accepted, also if a reset came during that request,   *)
(* and a controller that was once in user mode is in user mode.             *)
Quiet == <>[][~User]_vars

LedsFollow ==
  Quiet => /\ <>[](dead \/ leds = prev)
           /\ <>usr => <>[](dead \/ usr)

(* LED requests are never refused for good: an acknowledgement comes, or    *)
(* the controller has locked up.                                            *)
AckComes == (ack = 1) ~> (ack = 0 \/ dead)
=============================================================================
