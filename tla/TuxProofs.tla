----------------------------- MODULE TuxProofs ------------------------------
(***************************************************************************)
(* Theorems about Tux for every set of LED arguments and any number of      *)
(* packets on the line, and about the line discipline, TuxLine, for every   *)
(* room of its buffers and whatever is lost.                                *)
(*                                                                          *)
(* ButtonsFollow speaks of the driver's copy when no event is on its way.   *)
(* NewestFollows says where the newest report of the buttons is: in the     *)
(* last event on the line, or in the driver.                                *)
(*                                                                          *)
(* SettleInv says where the last request is when no call is going on: in    *)
(* the LEDs, in the last LED command on the line, or with the driver, which *)
(* has still to answer a reset.  Work counts what the driver and the        *)
(* controller have still to do for the calls that were made.                *)
(*                                                                          *)
(* LineInv speaks of the stream of bytes that have arrived and have not     *)
(* been passed: saved, then the ring, then the driver's buffer.  Its bytes  *)
(* keep the order of the line, none is missing between two unless it was    *)
(* lost, and the first byte of a packet that has lost none stays on it      *)
(* until the packet is handled.                                             *)
(*                                                                          *)
(* CommandInv says of the commands that at most one of a call is waiting,   *)
(* the last and whole, in the ring before tuxctl_ldisc_put takes it and in  *)
(* buf after; what the driver has been given are whole commands.            *)
(***************************************************************************)
EXTENDS Tux, TuxLine, SequenceTheorems, FiniteSetTheorems, WellFoundedInduction, TLAPS

IsEvent(i) == i \in 1..Len(up) /\ up[i].op = "event"

NewestFollows ==
  ~missed =>
    /\ (\A i \in 1..Len(up) : ~IsEvent(i)) => stored = buttons
    /\ \A i \in 1..Len(up) :
         IsEvent(i) /\ (\A j \in (i + 1)..Len(up) : ~IsEvent(j)) => up[i].buttons = buttons

IInv == TypeOK /\ NewestFollows

----------------------------------------------------------------------------
(* Only events have the op of one.                                          *)
LEMMA Ops ==
  /\ Ack.op = "ack" /\ Reset.op = "reset"
  /\ \A b \in Reports : Event(b).op = "event" /\ Event(b).buttons = b
  /\ Ack \in Packets /\ Reset \in Packets /\ \A b \in Reports : Event(b) \in Packets
BY DEF Ack, Reset, Event, Packets

LEMMA CommandTypes ==
  /\ InitCommands \in Seq(Commands)
  /\ \A d \in Halves \X Halves : LedSet(d) \in Commands
  /\ \A d \in Halves \X Halves : Append(InitCommands, LedSet(d)) \in Seq(Commands)
<1>1. BiocOn \in Commands /\ LedUsr \in Commands
      /\ \A d \in Halves \X Halves : LedSet(d) \in Commands
  BY DEF Commands
<1>2. InitCommands \in Seq(Commands)
  BY <1>1 DEF InitCommands
<1> QED
  BY <1>1, <1>2

LEMMA TypeInit == Init => TypeOK
<1>1. <<>> \in Seq(Commands) /\ <<>> \in Seq(Packets)
  BY EmptySeq
<1> SUFFICES ASSUME Init PROVE TypeOK
  OBVIOUS
<1>2. {usr, bioc, dead, missed} \subseteq BOOLEAN /\ buttons \in Reports
  BY DEF Init
<1>4. stored \in Copies /\ first \in {Idle, Held, Zeros} /\ had \subseteq Copies
  BY DEF Init, Copies
<1>3. prev \in Halves \X Halves /\ leds \in Halves \X Halves
  BY DEF Init, Halves
<1> QED
  BY <1>1, <1>2, <1>3, <1>4 DEF Init, TypeOK

(* A packet that is received leaves the line.                               *)
LEMMA ReceivedType ==
  ASSUME TypeOK, NEW op, Received(op)
  PROVE  /\ up' \in Seq(Packets)
         /\ Head(up) \in Packets /\ Head(up) = up[1] /\ up[1].op = op
         /\ Len(up) \in Nat /\ Len(up) > 0 /\ Len(up') = Len(up) - 1
         /\ \A i \in 1..Len(up') : up'[i] = up[i + 1]
BY HeadTailProperties DEF Received, TypeOK

LEMMA TypeStep == ASSUME TypeOK, [Next]_vars PROVE TypeOK'
<1>1. CASE IoctlInit
  BY <1>1, CommandTypes, ConcatProperties
  DEF IoctlInit, Locked, controller, TypeOK
<1>2. ASSUME NEW d \in Leds \cup {Pointer}, RequestLeds(d), UNCHANGED <<first, had>>
      PROVE  TypeOK'
  BY <1>2 DEF RequestLeds, Locked, controller, TypeOK, Halves
<1>3. CASE CopyHalf \/ CopyFirst
  <2>1. prev' \in Halves \X Halves /\ arg' \in Halves
    BY <1>3 DEF CopyHalf, CopyFirst, TypeOK, Halves
  <2> QED
    BY <1>3, <2>1 DEF CopyHalf, CopyFirst, controller, TypeOK
<1>4. CASE SendLast
  <2>1. <<prev[1], prev[1]>> \in Halves \X Halves
    BY DEF TypeOK
  <2>2. down' \in Seq(Commands)
    BY <1>4, <2>1, CommandTypes DEF SendLast, TypeOK
  <2> QED
    BY <1>4, <2>2 DEF SendLast, controller, TypeOK
<1>5. CASE Press
  <2>1. buttons' \in Reports
    BY <1>5 DEF Press
  <2>2. up' \in Seq(Packets)
    <3>1. PICK e \in Packets : e = Event(buttons')
      BY <2>1, Ops
    <3>2. up' = Append(up, e) \/ up' = up
      BY <1>5, <3>1 DEF Press
    <3> QED
      BY <3>2 DEF TypeOK
  <2>3. missed' \in BOOLEAN
    BY <1>5 DEF Press
  <2> QED
    BY <1>5, <2>1, <2>2, <2>3 DEF Press, driver, TypeOK
<1>6. CASE PressReset
  <2>1. up' \in Seq(Packets)
    BY <1>6, Ops DEF PressReset, TypeOK
  <2> QED
    BY <1>6, <2>1 DEF PressReset, driver, TypeOK, Halves
<1>7. CASE HandleAck
  BY <1>7, ReceivedType DEF HandleAck, controller, TypeOK
<1>8. CASE HandleEvent
  <2>1. stored' \in Copies
    <3>1. Head(up) \in Packets /\ Head(up).op = "event"
      BY <1>8, ReceivedType DEF HandleEvent
    <3>2. PICK b \in Reports : Head(up) = Event(b)
      BY <3>1 DEF Packets, Ack, Reset
    <3> QED
      BY <1>8, <3>2, Ops, TuxAssumption DEF HandleEvent, Store, Copies
  <2>2. up' \in Seq(Packets)
    BY <1>8, ReceivedType DEF HandleEvent
  <2>3. had' \subseteq Copies
    BY <1>8, <2>1 DEF HandleEvent, TypeOK
  <2> QED
    BY <1>8, <2>1, <2>2, <2>3 DEF HandleEvent, controller, TypeOK
<1>9. CASE HandleReset
  <2>1. down' \in Seq(Commands)
    BY <1>9, CommandTypes, ConcatProperties DEF HandleReset, Restore, TypeOK
  <2>2. up' \in Seq(Packets)
    BY <1>9, ReceivedType DEF HandleReset
  <2> QED
    BY <1>9, <2>1, <2>2 DEF HandleReset, Locked, controller, TypeOK
<1>10. CASE Obey
  <2>1. Head(down) \in Commands /\ down' \in Seq(Commands)
    BY <1>10, HeadTailProperties DEF Obey, TypeOK
  <2>2. Head(down).op = "led" => Head(down).data \in Halves \X Halves
    BY <2>1 DEF Commands, BiocOn, LedUsr, LedSet
  <2>3. up' \in Seq(Packets)
    BY <1>10, Ops DEF Obey, TypeOK
  <2>4. leds' \in Halves \X Halves
    BY <1>10, <2>2 DEF Obey, TypeOK
  <2>5. dead' \in BOOLEAN /\ usr' \in BOOLEAN /\ bioc' \in BOOLEAN
    BY <1>10 DEF Obey, TypeOK
  <2> QED
    BY <1>10, <2>1, <2>3, <2>4, <2>5 DEF Obey, driver, TypeOK
<1>11. CASE UNCHANGED vars
  BY <1>11 DEF vars, driver, controller, TypeOK
<1>12. CASE IoctlButtons
  BY <1>12 DEF IoctlButtons, controller, TypeOK, Copies
<1>13. CASE ReadLast
  BY <1>13 DEF ReadLast, controller, TypeOK
<1>14. CASE FallThrough
  <2>1. CASE RequestLeds(Pointer)
    BY <1>2, <1>14, <2>1 DEF FallThrough
  <2>2. CASE ack = 1 /\ call' = "none" /\ UNCHANGED <<ack, prev, stored, arg, down, up, controller>>
    BY <1>14, <2>2 DEF FallThrough, controller, TypeOK
  <2> QED
    BY <1>14, <2>1, <2>2 DEF FallThrough
<1> QED
  BY <1>1, <1>2, <1>3, <1>4, <1>5, <1>6, <1>7, <1>8, <1>9, <1>10, <1>11, <1>12, <1>13, <1>14
  DEF Next, User, Call, IoctlSetLed, SetLed, Handle

----------------------------------------------------------------------------
(* A packet that is no event leaves the newest report where it is.          *)
LEMMA ReceiveFollows ==
  ASSUME TypeOK, NewestFollows, NEW op, op # "event", Received(op),
         UNCHANGED <<missed, stored, buttons>>
  PROVE  NewestFollows'
<1> SUFFICES ASSUME ~missed PROVE NewestFollows'
  BY DEF NewestFollows
<1>1. PICK n \in Nat : n = Len(up') /\ Len(up) = n + 1
  BY ReceivedType DEF TypeOK
<1>2. \A i \in 1..n : up'[i] = up[i + 1]
  BY <1>1, ReceivedType
<1>3. up[1].op # "event"
  BY ReceivedType
<1>4. \A i \in 1..n : IsEvent(i)' <=> IsEvent(i + 1)
  BY <1>1, <1>2 DEF IsEvent
<1>5. ~IsEvent(1)
  BY <1>3 DEF IsEvent
<1>6. ASSUME \A i \in 1..n : ~IsEvent(i)' PROVE stored' = buttons'
  <2>1. \A i \in 1..(n + 1) : i = 1 \/ (i - 1 \in 1..n /\ (i - 1) + 1 = i)
    OBVIOUS
  <2>2. \A i \in 1..(n + 1) : ~IsEvent(i)
    BY <1>4, <1>5, <1>6, <2>1
  <2> QED
    BY <1>1, <2>2 DEF NewestFollows
<1>7. ASSUME NEW i \in 1..n, IsEvent(i)', \A j \in (i + 1)..n : ~IsEvent(j)'
      PROVE  up'[i].buttons = buttons'
  <2>1. i + 1 \in 1..(n + 1) /\ IsEvent(i + 1)
    BY <1>4, <1>7
  <2>2. \A j \in (i + 2)..(n + 1) : j - 1 \in (i + 1)..n /\ j - 1 \in 1..n /\ (j - 1) + 1 = j
    OBVIOUS
  <2>3. \A j \in (i + 1 + 1)..(n + 1) : ~IsEvent(j)
    BY <1>4, <1>7, <2>2
  <2>4. up[i + 1].buttons = buttons
    BY <1>1, <2>1, <2>3 DEF NewestFollows
  <2> QED
    BY <1>2, <2>4
<1> QED
  BY <1>1, <1>6, <1>7 DEF NewestFollows

(* Nor does a packet that is no event when the controller sends it.         *)
LEMMA SendFollows ==
  ASSUME TypeOK, NewestFollows, NEW p \in Packets, p.op # "event",
         up' = Append(up, p), UNCHANGED <<missed, stored, buttons>>
  PROVE  NewestFollows'
<1> SUFFICES ASSUME ~missed PROVE NewestFollows'
  BY DEF NewestFollows
<1>1. PICK n \in Nat : n = Len(up)
  BY DEF TypeOK
<1>2. Len(up') = n + 1 /\ up'[n + 1] = p /\ \A i \in 1..n : up'[i] = up[i]
  BY <1>1 DEF TypeOK
<1>3. ~IsEvent(n + 1)'
  BY <1>2 DEF IsEvent
<1>4. \A i \in 1..n : IsEvent(i)' <=> IsEvent(i)
  BY <1>1, <1>2 DEF IsEvent
<1>5. ASSUME \A i \in 1..(n + 1) : ~IsEvent(i)' PROVE stored' = buttons'
  <2>1. \A i \in 1..n : ~IsEvent(i)
    BY <1>4, <1>5
  <2> QED
    BY <1>1, <2>1 DEF NewestFollows
<1>6. ASSUME NEW i \in 1..(n + 1), IsEvent(i)', \A j \in (i + 1)..(n + 1) : ~IsEvent(j)'
      PROVE  up'[i].buttons = buttons'
  <2>1. i \in 1..n /\ IsEvent(i)
    BY <1>3, <1>4, <1>6
  <2>2. \A j \in (i + 1)..n : ~IsEvent(j)
    BY <1>4, <1>6
  <2>3. up[i].buttons = buttons
    BY <1>1, <2>1, <2>2 DEF NewestFollows
  <2> QED
    BY <1>2, <2>1, <2>3
<1> QED
  BY <1>2, <1>5, <1>6 DEF NewestFollows

(* An event that is handled was the newest, if none is behind it.           *)
LEMMA EventFollows ==
  ASSUME TypeOK, NewestFollows, HandleEvent
  PROVE  NewestFollows'
<1>0. UNCHANGED <<missed, buttons>> /\ Received("event")
  BY DEF HandleEvent, controller
<1> SUFFICES ASSUME ~missed PROVE NewestFollows'
  BY <1>0 DEF NewestFollows
<1>1. PICK n \in Nat : n = Len(up') /\ Len(up) = n + 1
  BY <1>0, ReceivedType DEF TypeOK
<1>2. \A i \in 1..n : up'[i] = up[i + 1]
  BY <1>0, <1>1, ReceivedType
<1>3. IsEvent(1) /\ stored' = up[1].buttons
  BY <1>0, <1>1, ReceivedType DEF IsEvent, HandleEvent, Store
<1>4. \A i \in 1..n : IsEvent(i)' <=> IsEvent(i + 1)
  BY <1>1, <1>2 DEF IsEvent
<1>5. ASSUME \A i \in 1..n : ~IsEvent(i)' PROVE stored' = buttons'
  <2>1. \A i \in 2..(n + 1) : i - 1 \in 1..n /\ (i - 1) + 1 = i
    OBVIOUS
  <2>2. \A i \in (1 + 1)..(n + 1) : ~IsEvent(i)
    BY <1>4, <1>5, <2>1
  <2>3. 1 \in 1..Len(up)
    BY <1>1
  <2>4. up[1].buttons = buttons
    BY <1>1, <1>3, <2>2, <2>3 DEF NewestFollows
  <2> QED
    BY <1>0, <1>3, <2>4
<1>6. ASSUME NEW i \in 1..n, IsEvent(i)', \A j \in (i + 1)..n : ~IsEvent(j)'
      PROVE  up'[i].buttons = buttons'
  <2>1. i + 1 \in 1..(n + 1) /\ IsEvent(i + 1)
    BY <1>4, <1>6
  <2>2. \A j \in (i + 2)..(n + 1) : j - 1 \in (i + 1)..n /\ j - 1 \in 1..n /\ (j - 1) + 1 = j
    OBVIOUS
  <2>3. \A j \in (i + 1 + 1)..(n + 1) : ~IsEvent(j)
    BY <1>4, <1>6, <2>2
  <2>4. up[i + 1].buttons = buttons
    BY <1>1, <2>1, <2>3 DEF NewestFollows
  <2> QED
    BY <1>0, <1>2, <2>4
<1> QED
  BY <1>1, <1>5, <1>6 DEF NewestFollows

(* A report that the controller sends is the newest.                        *)
LEMMA PressFollows ==
  ASSUME TypeOK, NewestFollows, Press
  PROVE  NewestFollows'
<1> SUFFICES ASSUME ~missed' PROVE NewestFollows'
  BY DEF NewestFollows
<1>1. PICK n \in Nat : n = Len(up)
  BY DEF TypeOK
<1>2. PICK e \in Packets : e = Event(buttons')
  BY Ops DEF Press
<1>3. e.op = "event" /\ e.buttons = buttons'
  BY <1>2, Ops DEF Press
<1>4. up' = Append(up, e)
  BY <1>2 DEF Press
<1>5. Len(up') = n + 1 /\ up'[n + 1] = e
  BY <1>1, <1>4 DEF TypeOK
<1>6. IsEvent(n + 1)'
  BY <1>3, <1>5 DEF IsEvent
<1>7. ~\A i \in 1..Len(up') : ~IsEvent(i)'
  BY <1>5, <1>6
<1>8. ASSUME NEW i \in 1..(n + 1), \A j \in (i + 1)..(n + 1) : ~IsEvent(j)'
      PROVE  i = n + 1
  <2>1. ~(n + 1 \in (i + 1)..(n + 1))
    BY <1>6, <1>8
  <2> QED
    BY <2>1
<1> QED
  BY <1>3, <1>5, <1>7, <1>8 DEF NewestFollows

LEMMA StepFollows == ASSUME TypeOK, NewestFollows, [Next]_vars PROVE NewestFollows'
<1>1. CASE \/ IoctlInit \/ IoctlSetLed \/ IoctlButtons \/ Call \/ UNCHANGED vars
  <2>1. UNCHANGED <<up, missed, stored, buttons>>
    BY <1>1 DEF IoctlInit, IoctlSetLed, IoctlButtons, RequestLeds, Call, ReadLast, FallThrough,
                CopyHalf, SetLed, CopyFirst, SendLast, vars, driver, controller
  <2> QED
    BY <2>1 DEF NewestFollows, IsEvent
<1>2. CASE Press
  BY <1>2, PressFollows
<1>3. CASE PressReset
  BY <1>3, SendFollows, Ops DEF PressReset, driver
<1>4. CASE HandleEvent
  BY <1>4, EventFollows
<1>5. CASE HandleAck
  BY <1>5, ReceiveFollows DEF HandleAck, controller
<1>6. CASE HandleReset
  BY <1>6, ReceiveFollows DEF HandleReset, controller
<1>7. CASE Obey
  <2>1. UNCHANGED <<missed, stored, buttons>>
    BY <1>7 DEF Obey, driver
  <2>2. up' = Append(up, Ack) \/ up' = up
    BY <1>7 DEF Obey
  <2>3. CASE up' = up
    BY <2>1, <2>3 DEF NewestFollows, IsEvent
  <2>4. CASE up' = Append(up, Ack)
    BY <2>1, <2>4, SendFollows, Ops
  <2> QED
    BY <2>2, <2>3, <2>4
<1> QED
  BY <1>1, <1>2, <1>3, <1>4, <1>5, <1>6, <1>7 DEF Next, User, Handle

(* Types, and what the driver has stored of the buttons, at all times: the  *)
(* newest report is the last event on the line or, without one, in the      *)
(* driver.                                                                  *)
THEOREM Invariance == Spec => []IInv
<1>1. Init => IInv
  <2> SUFFICES ASSUME Init PROVE NewestFollows
    BY TypeInit DEF IInv
  <2>1. missed
    BY DEF Init
  <2> QED
    BY <2>1 DEF NewestFollows
<1>2. IInv /\ [Next]_vars => IInv'
  BY TypeStep, StepFollows DEF IInv
<1> QED
  BY <1>1, <1>2, PTL DEF Spec

(* The driver's state, the line's and the controller's keep their types for *)
(* every bound on the line.                                                 *)
THEOREM TypeCorrect == Spec => []TypeOK
<1>1. IInv => TypeOK
  BY DEF IInv
<1> QED
  BY <1>1, Invariance, PTL

(* The copy of which set_TUX_buttons has read a byte is one of those it     *)
(* could have read whole, as is the newest.                                 *)
Reading == call = "read" => stored \in had /\ \E r \in had : first = r[1]

LEMMA ReadingStep == ASSUME Reading, [Next]_vars PROVE Reading'
<1>1. CASE IoctlButtons
  BY <1>1 DEF IoctlButtons, Reading
<1>2. CASE HandleEvent
  BY <1>2 DEF HandleEvent, Reading
<1>3. CASE \/ HandleAck \/ HandleReset \/ Obey \/ Press \/ PressReset \/ UNCHANGED vars
  BY <1>3 DEF HandleAck, HandleReset, Obey, Press, PressReset, vars, driver, Reading
<1>4. CASE IoctlInit
  BY <1>4 DEF IoctlInit, Reading
<1>5. CASE IoctlSetLed \/ Call
  BY <1>5 DEF IoctlSetLed, RequestLeds, Call, ReadLast, FallThrough, CopyHalf, SetLed, CopyFirst, SendLast,
              Reading
<1> QED
  BY <1>1, <1>2, <1>3, <1>4, <1>5 DEF Next, User, Handle

(* A report of which the bytes are of two copies is one of them, if the     *)
(* copies have a byte in common; otherwise both bytes have changed.         *)
LEMMA ToldOrMixed ==
  ASSUME TypeOK, Reading, call = "read"
  PROVE  Told \in had \/ Mixed
<1>1. PICK r \in had : first = r[1]
  BY DEF Reading
<1>2. stored \in had /\ r \in Copies /\ stored \in Copies
  BY DEF Reading, TypeOK
<1>3. \A c \in Copies : c = <<c[1], c[2]>>
  BY DEF Copies
<1>4. CASE r[1] = stored[1]
  BY <1>1, <1>2, <1>3, <1>4 DEF Told
<1>5. CASE r[2] = stored[2]
  BY <1>1, <1>2, <1>3, <1>5 DEF Told
<1>6. CASE r[1] # stored[1] /\ r[2] # stored[2]
  BY <1>2, <1>6 DEF Mixed
<1> QED
  BY <1>4, <1>5, <1>6

(* The driver knows the buttons whenever no event is on its way, once there *)
(* was one and unless they changed while the controller reported nothing;   *)
(* and what set_TUX_buttons tells a program, while events come between its  *)
(* reads of the two bytes, is mixed of two copies only if both bytes have   *)
(* changed.                                                                 *)
THEOREM ButtonsKnown == Spec => []ButtonsFollow
<1>1. ASSUME IInv, Reading PROVE ButtonsFollow
  <2>1. DOMAIN up = 1..Len(up)
    BY <1>1 DEF IInv, TypeOK
  <2>2. ~missed /\ (\A i \in DOMAIN up : up[i].op # "event") => stored = buttons
    BY <1>1, <2>1 DEF IInv, NewestFollows, IsEvent
  <2>3. call = "read" => Told \in had \/ Mixed
    BY <1>1, ToldOrMixed DEF IInv
  <2> QED
    BY <2>2, <2>3 DEF ButtonsFollow
<1>2. Init => Reading
  BY DEF Init, Reading
<1>3. Reading /\ [Next]_vars => Reading'
  BY ReadingStep
<1> QED
  BY <1>1, <1>2, <1>3, Invariance, PTL DEF Spec

----------------------------------------------------------------------------
(* The last request, the user mode and the rest.                            *)
(* A reset, or an acknowledgement, that the driver has not read.            *)
ResetComes == \E i \in 1 .. Len(up) : up[i] = Reset
AckArrives == \E i \in 1 .. Len(up) : up[i] = Ack

(* The last LED command that is on the line, or the LEDs if there is none,  *)
(* is d.                                                                    *)
SentLast(d) ==
  \/ \E i \in 1 .. Len(down) :
       /\ down[i] = LedSet(d)
       /\ \A j \in (i + 1) .. Len(down) : down[j].op # "led"
  \/ (\A i \in 1 .. Len(down) : down[i].op # "led") /\ leds = d

(* Unless a reset is still to be answered, the LEDs are about to show the   *)
(* last request; and an LED request that is waiting has something to wait   *)
(* for.                                                                     *)
SettleInv ==
  /\ call = "put" => prev[1] = prev[2]
  /\ call \in {"asked", "copy", "put"} \/ dead \/ ResetComes \/ SentLast(prev)
  /\ ack = 1 => call \in {"asked", "copy", "put"} \/ down # <<>> \/ dead \/ ResetComes \/ AckArrives

(* The program is in no call, the controller has carried out every command  *)
(* and the driver has read all but reports of the buttons.                  *)
Settled ==
  call = "none" /\ down = <<>> /\ \A i \in 1 .. Len(up) : up[i].op = "event"

(* Whenever nothing goes on any more, the LEDs show what was asked for last *)
(* and no request waits for an acknowledgement, unless the controller has   *)
(* locked up: what set_TUX_LED and tuxctl_handle_packet say to each other   *)
(* never ends with an older request shown or a call refused for good.       *)
SettledRight == Settled => dead \/ (leds = prev /\ ack = 0)

(* The user mode that the program asked for is on, or its command is on the *)
(* line, or a reset took it that the driver still has to answer.            *)
UserModeDue ==
  dead \/ usr \/ ResetComes \/ \E i \in 1 .. Len(down) : down[i] = LedUsr

(* The user mode once asked for stays so: no reset makes                    *)
(* tuxctl_handle_packet forget to ask for it again.                         *)
UserModeKept == [][UserModeDue => UserModeDue']_vars

(* What the commands are told apart by.                                     *)
LEMMA CommandOps ==
  /\ BiocOn.op = "bioc" /\ LedUsr.op = "usr"
  /\ \A d : LedSet(d).op = "led" /\ LedSet(d).data = d
  /\ InitCommands \in Seq(Commands) /\ Len(InitCommands) = 2
  /\ InitCommands[1] = BiocOn /\ InitCommands[2] = LedUsr
<1>1. InitCommands \in Seq(Commands)
  BY CommandTypes
<1> QED
  BY <1>1 DEF BiocOn, LedUsr, LedSet, InitCommands

(* What stays on the line and what comes behind it.                         *)
LEMMA Lengthened ==
  ASSUME NEW S, NEW s \in Seq(S), NEW t \in Seq(S)
  PROVE  /\ s \o t \in Seq(S) /\ Len(s \o t) = Len(s) + Len(t)
         /\ \A i \in 1 .. Len(s) : (s \o t)[i] = s[i]
         /\ \A i \in 1 .. Len(t) : (s \o t)[Len(s) + i] = t[i]
         /\ \A i \in 1 .. Len(s \o t) :
              i \in 1 .. Len(s) \/ \E k \in 1 .. Len(t) : i = Len(s) + k
<1>1. Len(s) \in Nat /\ Len(t) \in Nat
  BY LenProperties
<1>2. /\ s \o t \in Seq(S) /\ Len(s \o t) = Len(s) + Len(t)
      /\ \A i \in 1 .. Len(s) + Len(t) : (s \o t)[i] = IF i <= Len(s) THEN s[i] ELSE t[i - Len(s)]
  BY ConcatProperties
<1>3. \A i \in 1 .. Len(s) : (s \o t)[i] = s[i]
  BY <1>1, <1>2
<1>4. ASSUME NEW i \in 1 .. Len(t) PROVE (s \o t)[Len(s) + i] = t[i]
  <2>1. PICK j \in 1 .. Len(s) + Len(t) : j = Len(s) + i
    BY <1>1
  <2>2. ~(j <= Len(s)) /\ j - Len(s) = i
    BY <1>1, <2>1
  <2>3. (s \o t)[j] = t[j - Len(s)]
    BY <1>2, <2>2
  <2> QED
    BY <2>1, <2>2, <2>3
<1>5. ASSUME NEW i \in 1 .. Len(s) + Len(t)
      PROVE  i \in 1 .. Len(s) \/ \E k \in 1 .. Len(t) : i = Len(s) + k
  <2>1. CASE i > Len(s)
    <3>1. i - Len(s) \in 1 .. Len(t) /\ i = Len(s) + (i - Len(s))
      BY <1>1, <2>1
    <3> QED
      BY <3>1
  <2> QED
    BY <1>1, <2>1
<1> QED
  BY <1>2, <1>3, <1>4, <1>5

(* Commands are sent: the last of them is the last request, or none is an   *)
(* LED command.                                                             *)
LEMMA SentBehind ==
  ASSUME TypeOK, NEW t \in Seq(Commands), down' = down \o t, NEW d,
         \/ t # <<>> /\ t[Len(t)] = LedSet(d)
         \/ SentLast(d) /\ leds' = leds /\ \A k \in 1 .. Len(t) : t[k].op # "led"
  PROVE  SentLast(d)'
<1>1. down \in Seq(Commands) /\ Len(down) \in Nat /\ Len(t) \in Nat
  BY LenProperties DEF TypeOK
<1>2. /\ Len(down') = Len(down) + Len(t)
      /\ \A i \in 1 .. Len(down) : down'[i] = down[i]
      /\ \A i \in 1 .. Len(t) : down'[Len(down) + i] = t[i]
      /\ \A i \in 1 .. Len(down') : i \in 1 .. Len(down) \/ \E k \in 1 .. Len(t) : i = Len(down) + k
  BY <1>1, Lengthened
<1>3. CASE t # <<>> /\ t[Len(t)] = LedSet(d)
  <2>1. Len(t) \in 1 .. Len(t)
    BY <1>1, <1>3, EmptySeq
  <2>2. down'[Len(down')] = LedSet(d) /\ Len(down') \in 1 .. Len(down')
    BY <1>1, <1>2, <1>3, <2>1
  <2>3. \A j \in (Len(down') + 1) .. Len(down') : down'[j].op # "led"
    BY <1>1, <1>2
  <2> QED
    BY <2>2, <2>3 DEF SentLast
<1>4. CASE SentLast(d) /\ leds' = leds /\ \A k \in 1 .. Len(t) : t[k].op # "led"
  <2>1. \A i \in 1 .. Len(down') : i \notin 1 .. Len(down) => down'[i].op # "led"
    BY <1>2, <1>4
  <2>2. CASE \E i \in 1 .. Len(down) :
               down[i] = LedSet(d) /\ \A j \in (i + 1) .. Len(down) : down[j].op # "led"
    <3>1. PICK i \in 1 .. Len(down) :
            down[i] = LedSet(d) /\ \A j \in (i + 1) .. Len(down) : down[j].op # "led"
      BY <2>2
    <3>2. i \in 1 .. Len(down') /\ down'[i] = LedSet(d)
      BY <1>1, <1>2, <3>1
    <3>3. ASSUME NEW j \in (i + 1) .. Len(down') PROVE down'[j].op # "led"
      <4>1. j \in 1 .. Len(down') /\ (j \in 1 .. Len(down) => j \in (i + 1) .. Len(down))
        BY <1>1, <1>2, <3>1
      <4> QED
        BY <1>2, <2>1, <3>1, <4>1
    <3> QED
      BY <3>2, <3>3 DEF SentLast
  <2>3. CASE (\A i \in 1 .. Len(down) : down[i].op # "led") /\ leds = d
    <3>1. \A i \in 1 .. Len(down') : down'[i].op # "led"
      BY <1>2, <2>1, <2>3
    <3> QED
      BY <1>4, <2>3, <3>1 DEF SentLast
  <2> QED
    BY <1>4, <2>2, <2>3 DEF SentLast
<1> QED
  BY <1>3, <1>4

(* A command is carried out: the LEDs are the next command's.               *)
LEMMA SentObeyed ==
  ASSUME TypeOK, NEW d, SentLast(d), down # <<>>, down' = Tail(down),
         leds' = IF Head(down).op = "led" THEN Head(down).data ELSE leds
  PROVE  SentLast(d)'
<1>1. /\ down \in Seq(Commands) /\ Len(down) \in Nat /\ Len(down) > 0
      /\ Len(down') = Len(down) - 1 /\ Head(down) = down[1]
      /\ \A i \in 1 .. Len(down') : down'[i] = down[i + 1]
  BY HeadTailProperties, LenProperties, EmptySeq DEF TypeOK
<1>2. CASE \E i \in 1 .. Len(down) :
             down[i] = LedSet(d) /\ \A j \in (i + 1) .. Len(down) : down[j].op # "led"
  <2>1. PICK i \in 1 .. Len(down) :
          down[i] = LedSet(d) /\ \A j \in (i + 1) .. Len(down) : down[j].op # "led"
    BY <1>2
  <2>2. CASE i = 1
    <3>1. leds' = d
      BY <1>1, <2>1, <2>2, CommandOps
    <3>2. \A k \in 1 .. Len(down') : down'[k].op # "led"
      <4> TAKE k \in 1 .. Len(down')
      <4>1. k + 1 \in (i + 1) .. Len(down)
        BY <1>1, <2>2
      <4> QED
        BY <1>1, <2>1, <4>1
    <3> QED
      BY <3>1, <3>2 DEF SentLast
  <2>3. CASE i # 1
    <3>1. PICK k \in 1 .. Len(down') : k = i - 1
      BY <1>1, <2>3
    <3>2. k + 1 = i
      BY <1>1, <3>1
    <3>3. down'[k] = LedSet(d)
      BY <1>1, <2>1, <3>2
    <3>4. \A j \in (k + 1) .. Len(down') : down'[j].op # "led"
      <4> TAKE j \in (k + 1) .. Len(down')
      <4>1. j \in 1 .. Len(down') /\ j + 1 \in (i + 1) .. Len(down)
        BY <1>1, <3>1, <3>2
      <4> QED
        BY <1>1, <2>1, <4>1
    <3> QED
      BY <3>3, <3>4 DEF SentLast
  <2> QED
    BY <2>2, <2>3
<1>3. CASE (\A i \in 1 .. Len(down) : down[i].op # "led") /\ leds = d
  <2>1. leds' = d
    BY <1>1, <1>3
  <2>2. \A k \in 1 .. Len(down') : down'[k].op # "led"
    <3> TAKE k \in 1 .. Len(down')
    <3>1. k + 1 \in 1 .. Len(down)
      BY <1>1
    <3> QED
      BY <1>1, <1>3, <3>1
  <2> QED
    BY <2>1, <2>2 DEF SentLast
<1> QED
  BY <1>2, <1>3 DEF SentLast

LEMMA SettleInit == ASSUME Init PROVE SettleInv
BY DEF Init, SettleInv, SentLast

(* What a packet that leaves, and one that comes, does to the others.       *)
LEMMA UpTail ==
  ASSUME TypeOK, NEW op, Received(op)
  PROVE  /\ op # "reset" => (ResetComes => ResetComes')
         /\ op # "ack" => (AckArrives => AckArrives')
<1>1. /\ Len(up) \in Nat /\ Len(up) > 0 /\ Len(up') = Len(up) - 1 /\ up[1].op = op
      /\ \A i \in 1 .. Len(up') : up'[i] = up[i + 1]
  BY ReceivedType
<1>2. ASSUME NEW p, NEW i \in 1 .. Len(up), up[i] = p, p.op # op
      PROVE  \E k \in 1 .. Len(up') : up'[k] = p
  <2>1. i # 1
    BY <1>1, <1>2
  <2>2. PICK k \in 1 .. Len(up') : k = i - 1
    BY <1>1, <2>1
  <2>3. k + 1 = i
    BY <1>1, <2>2
  <2> QED
    BY <1>1, <1>2, <2>3
<1> QED
  BY <1>2, Ops DEF ResetComes, AckArrives

LEMMA UpAppend ==
  ASSUME TypeOK, NEW p \in Packets, up' = Append(up, p)
  PROVE  /\ ResetComes => ResetComes'
         /\ AckArrives => AckArrives'
         /\ p = Reset => ResetComes'
         /\ p = Ack => AckArrives'
<1>1. /\ Len(up) \in Nat /\ Len(up') = Len(up) + 1
      /\ \A i \in 1 .. Len(up) : up'[i] = up[i]
      /\ up'[Len(up) + 1] = p
  BY AppendProperties, LenProperties DEF TypeOK
<1>2. Len(up) + 1 \in 1 .. Len(up') /\ 1 .. Len(up) \subseteq 1 .. Len(up')
  BY <1>1
<1> QED
  BY <1>1, <1>2 DEF ResetComes, AckArrives

LEMMA UpSame ==
  ASSUME up' = up PROVE (ResetComes' <=> ResetComes) /\ (AckArrives' <=> AckArrives)
BY DEF ResetComes, AckArrives

(* Commands come behind those that are on the line.                         *)
LEMMA DownLonger ==
  ASSUME TypeOK, NEW t \in Seq(Commands), t # <<>>, down' = down \o t
  PROVE  down' # <<>>
<1>1. Len(down') = Len(down) + Len(t) /\ Len(down) \in Nat /\ Len(t) \in Nat
  BY Lengthened, LenProperties DEF TypeOK
<1>2. Len(t) # 0
  BY EmptySeq
<1> QED
  BY <1>1, <1>2

(* Sequences of one element and of three.                                   *)
LEMMA Single ==
  ASSUME NEW S, NEW x \in S
  PROVE  \E t \in Seq(S) : t = <<x>> /\ t # <<>> /\ t[Len(t)] = x
<1>1. <<x>> \in Seq(S) /\ Len(<<x>>) = 1 /\ <<x>>[1] = x /\ <<x>> # <<>>
  OBVIOUS
<1> QED
  BY <1>1

LEMMA AppendLast ==
  ASSUME NEW S, NEW s \in Seq(S), NEW x \in S
  PROVE  Len(s) = 2 => /\ Append(s, x) \in Seq(S) /\ Len(Append(s, x)) = 3
                       /\ Append(s, x)[1] = s[1] /\ Append(s, x)[2] = s[2] /\ Append(s, x)[3] = x
<1> DEFINE a == Append(s, x)
<1>1. /\ a \in Seq(S) /\ Len(a) = Len(s) + 1
      /\ (\A i \in 1 .. Len(s) : a[i] = s[i]) /\ a[Len(s) + 1] = x
  BY AppendProperties
<1> HIDE DEF a
<1> HAVE Len(s) = 2
<1>2. Len(s) + 1 = 3 /\ 1 \in 1 .. Len(s) /\ 2 \in 1 .. Len(s)
  OBVIOUS
<1>3. Len(a) = 3 /\ a[3] = x
  BY Zenon, <1>1, <1>2
<1>4. a[1] = s[1] /\ a[2] = s[2]
  BY <1>1, <1>2
<1> QED
  BY Zenon, <1>1, <1>3, <1>4 DEF a

LEMMA LastOfThree ==
  ASSUME NEW S, NEW t \in Seq(S), Len(t) = 3
  PROVE  t # <<>> /\ t[Len(t)] = t[3]
BY EmptySeq

(* What a reset is answered with, and what a call sends.                    *)
LEMMA RestoreIs ==
  ASSUME TypeOK
  PROVE  /\ Restore \in Seq(Commands) /\ Len(Restore) = 3
         /\ Restore[1] = BiocOn /\ Restore[2] = LedUsr /\ Restore[3] = LedSet(prev)
<1>1. LedSet(prev) \in Commands
  BY CommandTypes DEF TypeOK
<1> QED
  BY <1>1, CommandOps, AppendLast DEF Restore

LEMMA LedsSent ==
  ASSUME TypeOK, SendLast
  PROVE  \E t \in Seq(Commands), d \in Halves \X Halves :
           /\ d = <<prev[1], prev[1]>> /\ t = <<LedSet(d)>> /\ t # <<>> /\ t[Len(t)] = LedSet(d)
           /\ down' = down \o t /\ Len(down') = Len(down) + 1
<1>1. PICK d \in Halves \X Halves : d = <<prev[1], prev[1]>>
  BY DEF TypeOK
<1>2. PICK q \in Commands : q = LedSet(d)
  BY CommandTypes
<1>3. down' = Append(down, q)
  BY <1>1, <1>2 DEF SendLast
<1>4. down' = down \o <<q>> /\ Len(down') = Len(down) + 1
  BY <1>3, AppendIsConcat, AppendProperties DEF TypeOK
<1>5. PICK t \in Seq(Commands) : t = <<q>> /\ t # <<>> /\ t[Len(t)] = q
  BY Single
<1> QED
  BY <1>1, <1>2, <1>4, <1>5

(* A step keeps SettleInv: one step per action.                             *)
LEMMA SettleStep ==
  ASSUME TypeOK, SettleInv, [Next]_vars
  PROVE  SettleInv'
<1> PICK d : d = prev
  OBVIOUS
<1>1. CASE IoctlInit
  <2>1. /\ InitCommands \in Seq(Commands) /\ InitCommands # <<>>
        /\ \A k \in 1 .. Len(InitCommands) : InitCommands[k].op # "led"
    BY CommandOps
  <2>2. /\ down' = down \o InitCommands /\ call = "none" /\ call' = "none"
        /\ prev' = prev /\ up' = up /\ leds' = leds /\ dead' = dead
    BY <1>1 DEF IoctlInit, controller
  <2>3. SentLast(d) => SentLast(d)'
    BY <2>1, <2>2, SentBehind
  <2>4. SentLast(prev) => SentLast(prev)'
    BY <2>2, <2>3 DEF SentLast
  <2>5. down' # <<>>
    BY <2>1, <2>2, DownLonger
  <2> QED
    BY <2>2, <2>4, <2>5, UpSame DEF SettleInv
<1>2. ASSUME NEW e, RequestLeds(e) PROVE SettleInv'
  BY <1>2 DEF RequestLeds, SettleInv
<1>3. CASE CopyHalf \/ CopyFirst
  BY <1>3 DEF CopyHalf, CopyFirst, SettleInv
<1>4. CASE SendLast
  <2>1. prev[1] = prev[2] /\ <<prev[1], prev[1]>> = prev
    BY <1>4 DEF SendLast, SettleInv, TypeOK
  <2>3. PICK t \in Seq(Commands) : t # <<>> /\ t[Len(t)] = LedSet(d) /\ down' = down \o t
    BY <1>4, <2>1, LedsSent
  <2>4. prev' = prev /\ call' = "none"
    BY <1>4 DEF SendLast
  <2>5. SentLast(d)'
    BY <2>3, <2>4, SentBehind
  <2>6. SentLast(prev)'
    BY <2>4, <2>5 DEF SentLast
  <2>7. down' # <<>>
    BY <2>3, <2>4, DownLonger
  <2> QED
    BY <2>4, <2>6, <2>7 DEF SettleInv
<1>5. CASE HandleAck
  <2>1. ack' = 0 /\ UNCHANGED <<prev, call, down, leds, dead>>
    BY <1>5 DEF HandleAck, controller
  <2>2. ResetComes => ResetComes'
    BY <1>5, UpTail DEF HandleAck
  <2> QED
    BY <2>1, <2>2 DEF SettleInv, SentLast
<1>6. CASE HandleEvent
  <2>1. UNCHANGED <<ack, prev, call, down, leds, dead>>
    BY <1>6 DEF HandleEvent, controller
  <2>2. (ResetComes => ResetComes') /\ (AckArrives => AckArrives')
    BY <1>6, UpTail DEF HandleEvent
  <2> QED
    BY <2>1, <2>2 DEF SettleInv, SentLast
<1>7. CASE HandleReset
  <2>1. down' = down \o Restore /\ UNCHANGED <<prev, call>>
    BY <1>7 DEF HandleReset
  <2>2. PICK t \in Seq(Commands) : t = Restore /\ t # <<>> /\ t[Len(t)] = LedSet(d)
    <3>1. Restore \in Seq(Commands) /\ Len(Restore) = 3 /\ Restore[3] = LedSet(d)
      BY RestoreIs
    <3>2. Restore # <<>> /\ Restore[Len(Restore)] = LedSet(d)
      BY <3>1, LastOfThree
    <3> QED
      BY <3>1, <3>2
  <2>3. SentLast(d)'
    BY <2>1, <2>2, SentBehind
  <2>4. SentLast(prev)'
    BY <2>1, <2>3 DEF SentLast
  <2>5. down' # <<>>
    BY <2>1, <2>2, DownLonger
  <2> QED
    BY <2>1, <2>4, <2>5 DEF SettleInv
<1>8. CASE Obey
  <2> DEFINE cmd == Head(down)
             obeys == ~dead /\ ~Unknown(cmd)
  <2>1. /\ down # <<>> /\ down' = Tail(down) /\ dead' = ~obeys
        /\ up' = (IF obeys THEN Append(up, Ack) ELSE up)
        /\ leds' = (IF obeys /\ cmd.op = "led" THEN cmd.data ELSE leds)
        /\ UNCHANGED <<ack, prev, call>>
    BY <1>8 DEF Obey, driver
  <2>2. CASE ~obeys
    BY <2>1, <2>2, UpSame DEF SettleInv
  <2>3. CASE obeys
    <3>1. up' = Append(up, Ack) /\ leds' = (IF cmd.op = "led" THEN cmd.data ELSE leds) /\ ~dead
      BY <2>1, <2>3
    <3> HIDE DEF cmd, obeys
    <3>2. (ResetComes => ResetComes') /\ AckArrives'
      BY <3>1, UpAppend, Ops
    <3>3. SentLast(d) => SentLast(d)'
      BY <2>1, <3>1, SentObeyed DEF cmd
    <3>4. SentLast(prev) => SentLast(prev)'
      BY <2>1, <3>3 DEF SentLast
    <3> QED
      BY <2>1, <3>1, <3>2, <3>4 DEF SettleInv
  <2> QED
    BY <2>2, <2>3
<1>9. CASE Press
  <2>1. UNCHANGED <<ack, prev, call, down, leds, dead>>
    BY <1>9 DEF Press, driver
  <2>2. up' = up \/ (up' = Append(up, Event(buttons')) /\ buttons' \in Reports)
    BY <1>9 DEF Press
  <2>3. (ResetComes => ResetComes') /\ (AckArrives => AckArrives')
    <3>1. CASE up' = up
      BY <3>1, UpSame
    <3>2. CASE up' = Append(up, Event(buttons')) /\ buttons' \in Reports
      <4>1. PICK p \in Packets : p = Event(buttons')
        BY <3>2, Ops
      <4> QED
        BY <3>2, <4>1, UpAppend
    <3> QED
      BY <2>2, <3>1, <3>2
  <2> QED
    BY <2>1, <2>3 DEF SettleInv, SentLast
<1>10. CASE PressReset
  <2>1. ResetComes' /\ UNCHANGED <<prev, call>>
    BY <1>10, UpAppend, Ops DEF PressReset, driver
  <2> QED
    BY <2>1 DEF SettleInv
<1>11. CASE UNCHANGED vars
  BY <1>11 DEF vars, driver, controller, SettleInv, SentLast, ResetComes, AckArrives
<1>12. ASSUME call \in {"none", "read", "told"}, call' \in {"none", "read", "told"},
              UNCHANGED <<ack, prev, down, up, controller>>
       PROVE  SettleInv'
  BY <1>12 DEF controller, SettleInv, SentLast, ResetComes, AckArrives
<1>13. CASE IoctlButtons \/ ReadLast
  BY <1>12, <1>13 DEF IoctlButtons, ReadLast
<1>14. CASE FallThrough
  BY <1>2, <1>12, <1>14 DEF FallThrough
<1> QED
  BY <1>1, <1>2, <1>3, <1>4, <1>5, <1>6, <1>7, <1>8, <1>9, <1>10, <1>11, <1>13, <1>14
  DEF Next, User, Call, SetLed, Handle, IoctlSetLed

(* The LEDs settle on the last request, whatever calls, resets,             *)
(* acknowledgements and commands cross on the line (set_led and             *)
(* tuxctl_handle_packet).                                                   *)
THEOREM SettlesRight == Spec => []SettledRight
<1>1. TypeOK /\ SettleInv => SettledRight
  <2> SUFFICES ASSUME TypeOK, SettleInv, Settled PROVE dead \/ (leds = prev /\ ack = 0)
    BY DEF SettledRight
  <2>1. ~ResetComes /\ ~AckArrives
    BY Ops DEF Settled, ResetComes, AckArrives
  <2>2. SentLast(prev) => leds = prev
    BY DEF Settled, SentLast
  <2>3. dead \/ ack = 0
    BY <2>1 DEF SettleInv, Settled, TypeOK
  <2> QED
    BY <2>1, <2>2, <2>3 DEF SettleInv, Settled
<1>2. Init => SettleInv
  BY SettleInit
<1>3. TypeOK /\ SettleInv /\ [Next]_vars => SettleInv'
  BY SettleStep
<1> QED
  BY <1>1, <1>2, <1>3, TypeCorrect, PTL DEF Spec

(* The command that turns the user mode on is on the line.                  *)
UsrComes == \E i \in 1 .. Len(down) : down[i] = LedUsr

(* It stays there until it is carried out.                                  *)
LEMMA UsrStays ==
  ASSUME TypeOK, NEW t \in Seq(Commands), down' = down \o t,
         UsrComes \/ \E k \in 1 .. Len(t) : t[k] = LedUsr
  PROVE  UsrComes'
<1>1. /\ Len(down) \in Nat /\ Len(t) \in Nat /\ Len(down') = Len(down) + Len(t)
      /\ \A i \in 1 .. Len(down) : down'[i] = down[i]
      /\ \A i \in 1 .. Len(t) : down'[Len(down) + i] = t[i]
  BY Lengthened, LenProperties DEF TypeOK
<1>2. CASE UsrComes
  <2>1. PICK i \in 1 .. Len(down) : down[i] = LedUsr
    BY <1>2 DEF UsrComes
  <2>2. i \in 1 .. Len(down') /\ down'[i] = LedUsr
    BY <1>1, <2>1
  <2> QED
    BY <2>2 DEF UsrComes
<1>3. CASE \E k \in 1 .. Len(t) : t[k] = LedUsr
  <2>1. PICK k \in 1 .. Len(t) : t[k] = LedUsr
    BY <1>3
  <2>2. Len(down) + k \in 1 .. Len(down') /\ down'[Len(down) + k] = LedUsr
    BY <1>1, <2>1
  <2> QED
    BY <2>2 DEF UsrComes
<1> QED
  BY <1>2, <1>3

LEMMA UsrObeyed ==
  ASSUME TypeOK, UsrComes, down # <<>>, down' = Tail(down), Head(down).op # "usr"
  PROVE  UsrComes'
<1>1. /\ Len(down) \in Nat /\ Len(down') = Len(down) - 1 /\ Head(down) = down[1]
      /\ \A i \in 1 .. Len(down') : down'[i] = down[i + 1]
  BY HeadTailProperties, LenProperties DEF TypeOK
<1>2. PICK i \in 1 .. Len(down) : down[i] = LedUsr
  BY DEF UsrComes
<1>3. i # 1
  BY <1>1, <1>2, CommandOps
<1>4. PICK k \in 1 .. Len(down') : k = i - 1
  BY <1>1, <1>3
<1>5. k + 1 = i
  BY <1>1, <1>4
<1>6. down'[k] = LedUsr
  BY <1>1, <1>2, <1>5
<1> QED
  BY <1>6 DEF UsrComes

LEMMA UserModeStep ==
  ASSUME TypeOK, [Next]_vars, UserModeDue
  PROVE  UserModeDue'
<1>1. CASE IoctlInit
  <2>1. /\ down' = down \o InitCommands /\ up' = up /\ usr' = usr /\ dead' = dead
    BY <1>1 DEF IoctlInit, controller
  <2>2. UsrComes => UsrComes'
    BY <2>1, CommandOps, UsrStays
  <2> QED
    BY <2>1, <2>2, UpSame DEF UserModeDue, UsrComes
<1>2. ASSUME NEW e, RequestLeds(e) PROVE UserModeDue'
  BY <1>2 DEF RequestLeds, controller, UserModeDue, ResetComes
<1>3. CASE CopyHalf \/ CopyFirst
  BY <1>3 DEF CopyHalf, CopyFirst, controller, UserModeDue, ResetComes
<1>4. CASE SendLast
  <2>3. PICK t \in Seq(Commands) : down' = down \o t
    BY <1>4, LedsSent
  <2>4. up' = up /\ usr' = usr /\ dead' = dead
    BY <1>4 DEF SendLast, controller
  <2>5. UsrComes => UsrComes'
    BY <2>3, UsrStays
  <2> QED
    BY <2>4, <2>5, UpSame DEF UserModeDue, UsrComes
<1>5. CASE HandleAck
  <2>1. ResetComes => ResetComes'
    BY <1>5, UpTail DEF HandleAck
  <2> QED
    BY <1>5, <2>1 DEF HandleAck, controller, UserModeDue
<1>6. CASE HandleEvent
  <2>1. ResetComes => ResetComes'
    BY <1>6, UpTail DEF HandleEvent
  <2> QED
    BY <1>6, <2>1 DEF HandleEvent, controller, UserModeDue
<1>7. CASE HandleReset
  <2>1. PICK t \in Seq(Commands) : t = Restore /\ Len(t) = 3 /\ t[2] = LedUsr
    BY RestoreIs
  <2>2. down' = down \o t
    BY <1>7, <2>1 DEF HandleReset
  <2>3. 2 \in 1 .. Len(t)
    BY <2>1
  <2>4. \E k \in 1 .. Len(t) : t[k] = LedUsr
    BY <2>1, <2>3
  <2>5. UsrComes'
    BY <2>2, <2>4, UsrStays
  <2> QED
    BY <2>5 DEF UserModeDue, UsrComes
<1>8. CASE Obey
  <2> DEFINE cmd == Head(down)
             obeys == ~dead /\ ~Unknown(cmd)
  <2>1. /\ down # <<>> /\ down' = Tail(down) /\ dead' = ~obeys
        /\ up' = (IF obeys THEN Append(up, Ack) ELSE up)
        /\ usr' = (usr \/ (obeys /\ cmd.op = "usr"))
    BY <1>8 DEF Obey, driver
  <2>2. CASE ~obeys
    BY <2>1, <2>2 DEF UserModeDue
  <2>3. CASE obeys
    <3>1. up' = Append(up, Ack) /\ usr' = (usr \/ cmd.op = "usr") /\ ~dead
      BY <2>1, <2>3
    <3> HIDE DEF cmd, obeys
    <3>2. ResetComes => ResetComes'
      BY <3>1, UpAppend, Ops
    <3>3. cmd.op # "usr" => (UsrComes => UsrComes')
      BY <2>1, UsrObeyed DEF cmd
    <3> QED
      BY <3>1, <3>2, <3>3 DEF UserModeDue, UsrComes
  <2> QED
    BY <2>2, <2>3
<1>9. CASE Press
  <2>1. UNCHANGED <<down, usr, dead>>
    BY <1>9 DEF Press, driver
  <2>2. up' = up \/ (up' = Append(up, Event(buttons')) /\ buttons' \in Reports)
    BY <1>9 DEF Press
  <2>3. ResetComes => ResetComes'
    <3>1. CASE up' = up
      BY <3>1, UpSame
    <3>2. CASE up' = Append(up, Event(buttons')) /\ buttons' \in Reports
      <4>1. PICK p \in Packets : p = Event(buttons')
        BY <3>2, Ops
      <4> QED
        BY <3>2, <4>1, UpAppend
    <3> QED
      BY <2>2, <3>1, <3>2
  <2> QED
    BY <2>1, <2>3 DEF UserModeDue
<1>10. CASE PressReset
  BY <1>10, UpAppend, Ops DEF PressReset, UserModeDue
<1>11. ASSUME UNCHANGED <<down, up, controller>> PROVE UserModeDue'
  BY <1>11 DEF controller, UserModeDue, ResetComes
<1>12. CASE IoctlButtons \/ ReadLast \/ UNCHANGED vars
  BY <1>11, <1>12 DEF IoctlButtons, ReadLast, vars
<1>13. CASE FallThrough
  BY <1>2, <1>11, <1>13 DEF FallThrough
<1> QED
  BY <1>1, <1>2, <1>3, <1>4, <1>5, <1>6, <1>7, <1>8, <1>9, <1>10, <1>12, <1>13
  DEF Next, User, Call, SetLed, Handle, IoctlSetLed

(* The user mode is never given up, at no point between a reset and its     *)
(* answer.                                                                  *)
THEOREM UserModeStays == Spec => UserModeKept
<1>1. TypeOK /\ [Next]_vars => [UserModeDue => UserModeDue']_vars
  BY UserModeStep
<1> QED
  BY <1>1, TypeCorrect, PTL DEF Spec, UserModeKept

(* Only one reset is on the line: the controller resets again when the      *)
(* driver has read the first.                                               *)
OneReset == \A i, j \in 1 .. Len(up) : up[i] = Reset /\ up[j] = Reset => i = j

(* How many steps the program's call, the driver and the controller still   *)
(* have before them, if the user does nothing: a command is carried out and *)
(* acknowledged, a reset is answered by three commands.                     *)
CallWork ==
  CASE call = "none" -> 0 [] call = "put" -> 3 [] call = "copy" -> 4
    [] call = "asked" -> 5 [] call = "told" -> 6 [] call = "read" -> 7

Work ==
  2 * Len(down) + Len(up) + (IF ResetComes THEN 6 ELSE 0) + CallWork

(* Every step that is not the user's leaves less to do.                     *)
WorkEnds == [][~User => Work \in Nat /\ Work' \in Nat /\ Work' < Work]_vars

(* A packet leaves the line or comes onto it.                               *)
LEMMA UpTailOne ==
  ASSUME TypeOK, OneReset, NEW op, Received(op)
  PROVE  /\ OneReset' /\ (ResetComes' => ResetComes)
         /\ op = "reset" => ResetComes /\ ~ResetComes'
         /\ Len(up') = Len(up) - 1 /\ Len(up) \in Nat /\ Len(up') \in Nat
<1>1. /\ Len(up) \in Nat /\ Len(up) > 0 /\ Len(up') = Len(up) - 1 /\ up[1].op = op
      /\ up[1] \in Packets
      /\ \A i \in 1 .. Len(up') : up'[i] = up[i + 1]
  BY ReceivedType
<1>2. \A i \in 1 .. Len(up') : i + 1 \in 1 .. Len(up) /\ i + 1 # 1
  BY <1>1
<1>3. OneReset'
  <2>1. SUFFICES ASSUME NEW i \in 1 .. Len(up'), NEW j \in 1 .. Len(up'),
                        up'[i] = Reset, up'[j] = Reset
                 PROVE  i = j
    BY DEF OneReset
  <2>2. i + 1 = j + 1
    BY <1>1, <1>2, <2>1 DEF OneReset
  <2> QED
    BY <1>1, <2>2
<1>4. ResetComes' => ResetComes
  BY <1>1, <1>2 DEF ResetComes
<1>5. ASSUME op = "reset" PROVE ResetComes /\ ~ResetComes'
  <2>1. up[1] = Reset
    BY <1>1, <1>5 DEF Packets, Ack, Reset, Event
  <2>2. 1 \in 1 .. Len(up)
    BY <1>1
  <2>3. \A i \in 1 .. Len(up') : up'[i] # Reset
    BY <1>1, <1>2, <2>1, <2>2 DEF OneReset
  <2> QED
    BY <2>1, <2>2, <2>3 DEF ResetComes
<1> QED
  BY <1>1, <1>3, <1>4, <1>5

LEMMA UpAppendOne ==
  ASSUME TypeOK, OneReset, NEW p \in Packets, up' = Append(up, p), p = Reset => ~ResetComes
  PROVE  /\ OneReset' /\ (p # Reset => (ResetComes' <=> ResetComes))
         /\ Len(up') = Len(up) + 1 /\ Len(up) \in Nat /\ Len(up') \in Nat
<1>1. /\ Len(up) \in Nat /\ Len(up') = Len(up) + 1
      /\ \A i \in 1 .. Len(up) : up'[i] = up[i]
      /\ up'[Len(up) + 1] = p
  BY AppendProperties, LenProperties DEF TypeOK
<1>2. \A i \in 1 .. Len(up') : i \in 1 .. Len(up) \/ (i = Len(up) + 1 /\ up'[i] = p)
  BY <1>1
<1>3. OneReset'
  <2>1. SUFFICES ASSUME NEW i \in 1 .. Len(up'), NEW j \in 1 .. Len(up'),
                        up'[i] = Reset, up'[j] = Reset
                 PROVE  i = j
    BY DEF OneReset
  <2>2. CASE p = Reset
    <3>1. i \notin 1 .. Len(up) /\ j \notin 1 .. Len(up)
      BY <1>1, <2>1, <2>2 DEF ResetComes
    <3> QED
      BY <1>2, <3>1
  <2>3. CASE p # Reset
    <3>1. i \in 1 .. Len(up) /\ j \in 1 .. Len(up)
      BY <1>2, <2>1, <2>3
    <3> QED
      BY <1>1, <2>1, <3>1 DEF OneReset
  <2> QED
    BY <2>2, <2>3
<1>4. ASSUME p # Reset PROVE ResetComes' <=> ResetComes
  BY <1>1, <1>2, <1>4, UpAppend DEF ResetComes
<1> QED
  BY <1>1, <1>3, <1>4

LEMMA OneResetStep ==
  ASSUME TypeOK, OneReset, [Next]_vars
  PROVE  OneReset'
<1>1. CASE up' = up
  BY <1>1 DEF OneReset
<1>2. ASSUME NEW op, Received(op) PROVE OneReset'
  BY <1>2, UpTailOne
<1>3. ASSUME up' = Append(up, Ack) PROVE OneReset'
  <2>1. Ack \in Packets /\ Ack # Reset
    BY Ops
  <2> QED
    BY <1>3, <2>1, UpAppendOne
<1>4. ASSUME NEW b \in Reports, up' = Append(up, Event(b)) PROVE OneReset'
  <2>1. PICK p \in Packets : p = Event(b) /\ p # Reset
    BY Ops
  <2> QED
    BY <1>4, <2>1, UpAppendOne
<1>5. CASE PressReset
  BY <1>5, Ops, UpAppendOne DEF PressReset, ResetComes
<1>6. \/ up' = up \/ up' = Append(up, Ack)
      \/ (buttons' \in Reports /\ up' = Append(up, Event(buttons')))
      \/ PressReset \/ Received("ack") \/ Received("event") \/ Received("reset")
  BY DEF Next, User, Call, SetLed, Handle, IoctlInit, IoctlSetLed, IoctlButtons, ReadLast,
    FallThrough, RequestLeds, CopyHalf, CopyFirst, SendLast, HandleAck, HandleEvent, HandleReset, Obey, Press, vars
<1> QED
  BY <1>1, <1>2, <1>3, <1>4, <1>5, <1>6

LEMMA WorkStep ==
  ASSUME TypeOK, OneReset, Next, ~User
  PROVE  Work \in Nat /\ Work' \in Nat /\ Work' < Work
<1> DEFINE R == IF ResetComes THEN 6 ELSE 0
<1>1. Len(down) \in Nat /\ Len(up) \in Nat /\ CallWork \in Nat /\ R \in {0, 6}
  BY LenProperties DEF TypeOK, CallWork
<1>2. Work = 2 * Len(down) + Len(up) + R + CallWork
      /\ Work' = 2 * Len(down') + Len(up') + R' + CallWork'
  BY DEF Work
<1>3. R' \in {0, 6} /\ ((ResetComes' => ResetComes) => R' <= R)
  OBVIOUS
<1>4. CASE CopyFirst
  <2>1. CallWork = 4 /\ CallWork' = 3
    BY <1>4 DEF CopyFirst, CallWork
  <2>2. down' = down /\ up' = up /\ R' = R
    BY <1>4, UpSame DEF CopyFirst
  <2> HIDE DEF R
  <2> QED
    BY <1>1, <1>2, <2>1, <2>2
<1>5. CASE SendLast
  <2>1. CallWork = 3 /\ CallWork' = 0
    BY <1>5 DEF SendLast, CallWork
  <2>2. up' = up /\ R' = R
    BY <1>5, UpSame DEF SendLast
  <2>3. Len(down') = Len(down) + 1
    BY <1>5, LedsSent
  <2> HIDE DEF R
  <2> QED
    BY <1>1, <1>2, <2>1, <2>2, <2>3
<1>6. CASE HandleAck \/ HandleEvent
  <2>1. down' = down /\ CallWork' = CallWork
    BY <1>6 DEF HandleAck, HandleEvent, CallWork
  <2>2. Len(up') = Len(up) - 1 /\ Len(up') \in Nat /\ R' <= R
    BY <1>3, <1>6, UpTailOne DEF HandleAck, HandleEvent
  <2> HIDE DEF R
  <2> QED
    BY <1>1, <1>2, <1>3, <2>1, <2>2
<1>7. CASE HandleReset
  <2>1. CallWork' = CallWork
    BY <1>7 DEF HandleReset, CallWork
  <2>2. Len(up') = Len(up) - 1 /\ Len(up') \in Nat /\ R = 6 /\ R' = 0
    BY <1>7, UpTailOne DEF HandleReset
  <2>3. Len(down') = Len(down) + 3
    <3>1. PICK t \in Seq(Commands) : t = Restore /\ Len(t) = 3
      BY RestoreIs
    <3>2. down' = down \o t /\ down \in Seq(Commands)
      BY <1>7, <3>1 DEF HandleReset, TypeOK
    <3>3. Len(down') = Len(down) + Len(t)
      BY <3>2, Lengthened
    <3> QED
      BY <3>1, <3>3
  <2> HIDE DEF R
  <2> QED
    BY <1>1, <1>2, <2>1, <2>2, <2>3
<1>8. CASE Obey
  <2>1. CallWork' = CallWork /\ down # <<>> /\ down' = Tail(down) /\ up' \in {up, Append(up, Ack)}
    BY <1>8 DEF Obey, driver, CallWork
  <2>2. Len(down') = Len(down) - 1 /\ Len(down') \in Nat
    BY <2>1, HeadTailProperties, LenProperties, EmptySeq DEF TypeOK
  <2>3. Len(up') \in {Len(up), Len(up) + 1} /\ R' = R
    <3>1. CASE up' = up
      BY <3>1, UpSame
    <3>2. CASE up' = Append(up, Ack)
      <4>1. Ack \in Packets /\ Ack # Reset
        BY Ops
      <4>2. Len(up') = Len(up) + 1 /\ (ResetComes' <=> ResetComes)
        BY <3>2, <4>1, UpAppendOne
      <4> QED
        BY <4>2
    <3> QED
      BY <2>1, <3>1, <3>2
  <2> HIDE DEF R
  <2> QED
    BY <1>1, <1>2, <2>1, <2>2, <2>3
<1>9. CASE ReadLast \/ FallThrough \/ CopyHalf
  <2>1. CallWork' < CallWork /\ CallWork' \in Nat
    BY <1>9 DEF ReadLast, FallThrough, RequestLeds, CopyHalf, CallWork
  <2>2. down' = down /\ up' = up /\ R' = R
    BY <1>9, UpSame DEF ReadLast, FallThrough, RequestLeds, CopyHalf
  <2> HIDE DEF R
  <2> QED
    BY <1>1, <1>2, <2>1, <2>2
<1> QED
  BY <1>4, <1>5, <1>6, <1>7, <1>8, <1>9 DEF Next, Call, SetLed, Handle

(* Left alone, driver and controller come to rest: no acknowledgement,      *)
(* reset or command sets off others without end (the answers of             *)
(* tuxctl_handle_packet and of the controller to each other).  With the     *)
(* fairness of the run they therefore come to Settled.                      *)
THEOREM ComesToRest == Spec => WorkEnds
<1>1. TypeOK /\ OneReset /\ [Next]_vars =>
        [~User => Work \in Nat /\ Work' \in Nat /\ Work' < Work]_vars
  BY WorkStep
<1>2. Init => OneReset
  BY DEF Init, OneReset
<1>3. TypeOK /\ OneReset /\ [Next]_vars => OneReset'
  BY OneResetStep
<1> QED
  BY <1>1, <1>2, <1>3, TypeCorrect, PTL DEF Spec, WorkEnds

----------------------------------------------------------------------------
(* The line discipline.                                                     *)

LEMMA LeastOf ==
  ASSUME NEW S \in SUBSET Nat, S # {}
  PROVE  \E i \in S : \A j \in S : i <= j
<1> DEFINE R == OpToRel(<, Nat)
<1>1. IsWellFoundedOn(R, Nat)
  BY NatLessThanWellFounded
<1>2. \A x, y \in Nat : x < y => <<x, y>> \in R
  BY DEF OpToRel
<1> HIDE DEF R
<1>3. PICK i \in S : \A j \in S : ~(<<j, i>> \in R)
  BY <1>1, WFMin
<1>4. ASSUME NEW j \in S PROVE i <= j
  <2>1. i \in Nat /\ j \in Nat /\ <<j, i>> \notin R
    BY <1>3
  <2>2. ~(j < i)
    BY <1>2, <2>1, Zenon
  <2> QED
    BY <2>1, <2>2
<1> QED
  BY <1>4

(* One turn of the callback's loop: what it finds from byte i on, if f is   *)
(* what it finds from later ones.                                           *)
Turn(bytes, f, i) ==
  IF i > Len(bytes) - 2 THEN [found |-> <<>>, stop |-> i]
  ELSE IF Framed(bytes, i)
    THEN [found |-> <<SubSeq(bytes, i, i + 2)>> \o f[i + 3].found,
          stop |-> f[i + 3].stop]
    ELSE f[i + 1]

IsLoop(f, low, bytes) ==
  f = [i \in low..(Len(bytes) + 1) |-> Turn(bytes, f, i)]

(* The recursion of Callback has a solution.                                *)
LEMMA LoopExists ==
  ASSUME NEW bytes \in Seq(Bytes)
  PROVE  \E f : IsLoop(f, 1, bytes)
<1> DEFINE n == Len(bytes)
           Bad == {m \in 0..n : ~\E f : IsLoop(f, n + 1 - m, bytes)}
<1>0. n \in Nat
  OBVIOUS
<1>1. SUFFICES ASSUME Bad # {} PROVE FALSE
  <2>1. n \notin Bad /\ n + 1 - n = 1
    BY <1>0, <1>1
  <2> QED
    BY <2>1
<1>2. PICK m \in Bad : \A k \in Bad : m <= k
  <2>1. Bad \in SUBSET Nat
    OBVIOUS
  <2> QED
    BY <1>1, <2>1, LeastOf
<1> DEFINE low == n + 1 - m
<1>3. m \in 0..n /\ low \in 1..(n + 1)
  BY <1>0, <1>2
<1>4. CASE m = 0
  <2> DEFINE f == [i \in low..(n + 1) |-> [found |-> <<>>, stop |-> i]]
  <2>1. \A i \in low..(n + 1) : Turn(bytes, f, i) = [found |-> <<>>, stop |-> i]
    BY <1>4, <1>0 DEF Turn
  <2>2. IsLoop(f, low, bytes)
    BY <2>1 DEF IsLoop
  <2> QED
    BY <1>2, <2>2
<1>5. CASE m # 0
  <2>1. m - 1 \in 0..n /\ m - 1 \notin Bad
    BY <1>0, <1>2, <1>5
  <2>2. PICK f : IsLoop(f, n + 1 - (m - 1), bytes)
    BY <2>1
  <2>3. n + 1 - (m - 1) = low + 1
    BY <1>0, <1>3
  <2>4. \A i \in (low + 1)..(n + 1) : f[i] = Turn(bytes, f, i)
    BY <2>2, <2>3 DEF IsLoop
  <2> DEFINE g == [i \in low..(n + 1) |-> IF i = low THEN Turn(bytes, f, low) ELSE f[i]]
  <2>5. ASSUME NEW i \in low..(n + 1) PROVE g[i] = Turn(bytes, g, i)
    <3>1. i <= n - 2 => g[i + 1] = f[i + 1] /\ g[i + 3] = f[i + 3]
      BY <1>0, <1>3
    <3>2. Turn(bytes, g, i) = Turn(bytes, f, i)
      <4> HIDE DEF g, low
      <4>1. i \in Int
        BY <1>0, <1>3
      <4>2. CASE i > n - 2
        BY <4>2 DEF Turn
      <4>3. CASE i <= n - 2
        <5>1. g[i + 1] = f[i + 1] /\ g[i + 3] = f[i + 3]
          BY <3>1, <4>3
        <5> QED
          BY <5>1 DEF Turn
      <4> QED
        BY <4>1, <4>2, <4>3, <1>0
    <3>3. CASE i = low
      BY <3>2, <3>3
    <3>4. CASE i # low
      <4>1. i \in (low + 1)..(n + 1)
        BY <3>4, <1>0, <1>3
      <4>2. g[i] = f[i]
        BY <3>4
      <4> QED
        BY <2>4, <3>2, <4>1, <4>2
    <3> QED
      BY <3>3, <3>4
  <2>6. IsLoop(g, low, bytes)
    <3>1. g = [i \in low..(n + 1) |-> g[i]]
      OBVIOUS
    <3> HIDE DEF g, low
    <3> QED
      BY <2>5, <3>1, Zenon DEF IsLoop
  <2> QED
    BY <1>2, <2>6
<1> QED
  BY <1>4, <1>5

(* What the loop does from byte i on: pos says where the packets begin that *)
(* it finds.  Packets do not overlap, none that is framed is left out, and  *)
(* nor is a byte behind that could still begin one.                         *)
Finds(r, i, bytes, pos) ==
  /\ r.stop \in i..(Len(bytes) + 1) /\ r.stop >= Len(bytes) - 1
  /\ r.found \in Seq(Seq(Bytes))
  /\ pos \in Seq(i..(Len(bytes) - 2)) /\ Len(pos) = Len(r.found)
  /\ \A a \in 1..Len(pos) :
       /\ r.found[a] = SubSeq(bytes, pos[a], pos[a] + 2)
       /\ Framed(bytes, pos[a])
       /\ pos[a] + 3 <= r.stop
       /\ \A b \in 1..Len(pos) : a < b => pos[a] + 3 <= pos[b]
  /\ \A j \in i..(Len(bytes) - 2) : Framed(bytes, j) => \E a \in 1..Len(pos) : pos[a] = j
  /\ \A j \in i..Len(bytes) : j >= Len(bytes) - 1 /\ ~High(bytes[j]) => r.stop <= j

LEMMA FindsTurn ==
  ASSUME NEW bytes \in Seq(Bytes), NEW f, NEW i \in 1..(Len(bytes) + 1),
         f[i] = Turn(bytes, f, i),
         \A k \in (i + 1)..(Len(bytes) + 1) : \E pos : Finds(f[k], k, bytes, pos)
  PROVE  \E pos : Finds(f[i], i, bytes, pos)
<1> DEFINE n == Len(bytes)
<1>0. n \in Nat
  OBVIOUS
<1>1. CASE i > n - 2
  <2>1. f[i] = [found |-> <<>>, stop |-> i]
    BY <1>1 DEF Turn
  <2>2. f[i].found = <<>> /\ f[i].stop = i
    BY <2>1
  <2>3. <<>> \in Seq(Seq(Bytes)) /\ <<>> \in Seq(i..(n - 2)) /\ Len(<<>>) = 0
    BY EmptySeq
  <2>4. Finds(f[i], i, bytes, <<>>)
    BY <1>0, <1>1, <2>2, <2>3 DEF Finds
  <2> QED
    BY <2>4
<1>2. CASE i <= n - 2 /\ ~Framed(bytes, i)
  <2>1. f[i] = f[i + 1] /\ i + 1 \in (i + 1)..(n + 1)
    BY <1>0, <1>2 DEF Turn
  <2>2. PICK pos : Finds(f[i + 1], i + 1, bytes, pos)
    BY <2>1
  <2>3. pos \in Seq(i..(n - 2))
    <3>1. pos \in Seq((i + 1)..(n - 2)) /\ (i + 1)..(n - 2) \subseteq i..(n - 2)
      BY <2>2 DEF Finds
    <3> QED
      BY <3>1, SeqMonotonic
  <2>4. \A j \in i..(n - 2) : Framed(bytes, j) => j \in (i + 1)..(n - 2)
    BY <1>2
  <2>5. \A j \in i..n : j >= n - 1 => j \in (i + 1)..n
    BY <1>0, <1>2
  <2>6. f[i + 1].stop \in i..(n + 1)
    BY <2>2, <1>0 DEF Finds
  <2>7. Finds(f[i + 1], i, bytes, pos)
    BY <2>2, <2>3, <2>4, <2>5, <2>6 DEF Finds
  <2> QED
    BY <2>1, <2>7
<1>3. CASE i <= n - 2 /\ Framed(bytes, i)
  <2>1. i + 3 \in (i + 1)..(n + 1)
    BY <1>0, <1>3
  <2>2. PICK q : Finds(f[i + 3], i + 3, bytes, q)
    BY <2>1
  <2> DEFINE T == SubSeq(bytes, i, i + 2)
             rest == f[i + 3]
             pos == <<i>> \o q
             found == <<T>> \o rest.found
  <2>3. f[i] = [found |-> found, stop |-> rest.stop]
    BY <1>0, <1>3 DEF Turn
  <2>4. /\ q \in Seq((i + 3)..(n - 2)) /\ q \in Seq(i..(n - 2)) /\ Len(q) = Len(rest.found)
        /\ rest.found \in Seq(Seq(Bytes)) /\ Len(q) \in Nat
    <3>1. q \in Seq((i + 3)..(n - 2)) /\ (i + 3)..(n - 2) \subseteq i..(n - 2)
      BY <2>2 DEF Finds
    <3>2. q \in Seq(i..(n - 2))
      BY <3>1, SeqMonotonic
    <3> QED
      BY <2>2, <3>1, <3>2, LenProperties DEF Finds
  <2>5. <<T>> \in Seq(Seq(Bytes)) /\ <<i>> \in Seq(i..(n - 2)) /\ Len(<<T>>) = 1 /\ Len(<<i>>) = 1
    <3>1. T \in Seq(Bytes)
      BY <1>0, <1>3, SubSeqProperties
    <3> HIDE DEF T
    <3> QED
      BY <1>3, <3>1
  <2>6. /\ found \in Seq(Seq(Bytes)) /\ Len(found) = 1 + Len(q)
        /\ found[1] = T
        /\ \A a \in 2..(1 + Len(q)) : found[a] = rest.found[a - 1]
    <3> HIDE DEF T
    <3> QED
      BY <2>4, <2>5, ConcatProperties
  <2>7. /\ pos \in Seq(i..(n - 2)) /\ Len(pos) = 1 + Len(q)
        /\ pos[1] = i
        /\ \A a \in 2..(1 + Len(q)) : pos[a] = q[a - 1]
    BY <2>4, <2>5, ConcatProperties
  <2>8. \A a \in 1..Len(q) : q[a] \in (i + 3)..(n - 2)
    BY <2>4, ElementOfSeq
  <2>9. rest.stop \in (i + 3)..(n + 1) /\ rest.stop >= n - 1
    BY <2>2 DEF Finds
  <2>10. ~Framed(bytes, i + 1) /\ ~Framed(bytes, i + 2) /\ High(bytes[i + 1]) /\ High(bytes[i + 2])
    BY <1>3 DEF Framed
  <2> HIDE DEF pos, found, rest
  <2>11. ASSUME NEW a \in 1..(1 + Len(q))
         PROVE  /\ found[a] = SubSeq(bytes, pos[a], pos[a] + 2)
                /\ Framed(bytes, pos[a])
                /\ pos[a] + 3 <= rest.stop
                /\ \A b \in 1..(1 + Len(q)) : a < b => pos[a] + 3 <= pos[b]
    <3>1. CASE a = 1
      <4>1. found[a] = T /\ pos[a] = i
        BY <3>1, <2>6, <2>7
      <4>2. ASSUME NEW b \in 1..(1 + Len(q)), a < b PROVE pos[a] + 3 <= pos[b]
        <5>1. b - 1 \in 1..Len(q) /\ b \in 2..(1 + Len(q))
          BY <2>4, <3>1, <4>2
        <5> QED
          BY <5>1, <4>1, <2>7, <2>8
      <4> QED
        BY <4>1, <4>2, <2>9, <1>3
    <3>2. CASE a # 1
      <4>1. a - 1 \in 1..Len(q) /\ a \in 2..(1 + Len(q))
        BY <3>2, <2>4
      <4>2. /\ rest.found[a - 1] = SubSeq(bytes, q[a - 1], q[a - 1] + 2)
            /\ Framed(bytes, q[a - 1])
            /\ q[a - 1] + 3 <= rest.stop
            /\ \A b \in 1..Len(q) : a - 1 < b => q[a - 1] + 3 <= q[b]
        BY <2>2, <4>1 DEF Finds, rest
      <4>3. ASSUME NEW b \in 1..(1 + Len(q)), a < b PROVE pos[a] + 3 <= pos[b]
        <5>1. b - 1 \in 1..Len(q) /\ b \in 2..(1 + Len(q)) /\ a - 1 < b - 1
          BY <2>4, <4>1, <4>3
        <5> QED
          BY <5>1, <4>1, <4>2, <2>7
      <4> QED
        BY <4>1, <4>2, <4>3, <2>6, <2>7
    <3> QED
      BY <3>1, <3>2
  <2>12. ASSUME NEW j \in i..(n - 2), Framed(bytes, j)
         PROVE  \E a \in 1..(1 + Len(q)) : pos[a] = j
    <3>1. CASE j = i
      <4>1. 1 \in 1..(1 + Len(q))
        BY <2>4
      <4> QED
        BY <3>1, <4>1, <2>7
    <3>2. CASE j # i
      <4>1. j \in (i + 3)..(n - 2)
        BY <3>2, <2>10, <2>12, <1>0
      <4>2. PICK a \in 1..Len(q) : q[a] = j
        BY <4>1, <2>2, <2>12 DEF Finds
      <4>3. a + 1 \in 2..(1 + Len(q)) /\ (a + 1) - 1 = a /\ a + 1 \in 1..(1 + Len(q))
        BY <2>4
      <4> QED
        BY <4>2, <4>3, <2>7
    <3> QED
      BY <3>1, <3>2
  <2>13. ASSUME NEW j \in i..n, j >= n - 1, ~High(bytes[j]) PROVE rest.stop <= j
    <3>1. j \in (i + 3)..n
      BY <1>0, <1>3, <2>10, <2>13
    <3> QED
      BY <3>1, <2>2, <2>13 DEF Finds, rest
  <2>14. rest.stop \in i..(n + 1)
    BY <2>9, <1>0
  <2>15. Finds([found |-> found, stop |-> rest.stop], i, bytes, pos)
    BY <2>6, <2>7, <2>9, <2>11, <2>12, <2>13, <2>14 DEF Finds
  <2> QED
    BY <2>3, <2>15 DEF found, rest
<1> QED
  BY <1>0, <1>1, <1>2, <1>3

(* What the callback does with the bytes it looks at.                       *)
LEMMA CallbackFinds ==
  ASSUME NEW bytes \in Seq(Bytes)
  PROVE  \E pos : Finds(Callback(bytes), 1, bytes, pos)
<1> DEFINE n == Len(bytes)
           f == CHOOSE g : IsLoop(g, 1, bytes)
<1>0. n \in Nat
  OBVIOUS
<1>1. IsLoop(f, 1, bytes)
  BY LoopExists
<1>2. Callback(bytes) = f[1]
  BY DEF Callback, IsLoop, Turn
<1> HIDE DEF f
<1>3. \A i \in 1..(n + 1) : f[i] = Turn(bytes, f, i)
  BY <1>1 DEF IsLoop
<1> DEFINE Bad == {m \in 0..n : ~\E pos : Finds(f[n + 1 - m], n + 1 - m, bytes, pos)}
<1>4. Bad = {}
  <2> SUFFICES ASSUME Bad # {} PROVE FALSE
    OBVIOUS
  <2>1. PICK m \in Bad : \A k \in Bad : m <= k
    <3>1. Bad \in SUBSET Nat
      OBVIOUS
    <3> QED
      BY <3>1, LeastOf
  <2> DEFINE i == n + 1 - m
  <2>2. m \in 0..n /\ i \in 1..(n + 1)
    BY <1>0
  <2>3. ASSUME NEW k \in (i + 1)..(n + 1) PROVE \E pos : Finds(f[k], k, bytes, pos)
    <3>1. n + 1 - k \in 0..n /\ n + 1 - k < m /\ n + 1 - (n + 1 - k) = k
      BY <1>0, <2>2
    <3>2. n + 1 - k \notin Bad
      BY <2>1, <2>2, <3>1
    <3> QED
      BY <3>1, <3>2
  <2>4. f[i] = Turn(bytes, f, i)
    BY <1>3, <2>2
  <2>5. \E pos : Finds(f[i], i, bytes, pos)
    <3> HIDE DEF i
    <3> QED
      BY <2>2, <2>3, <2>4, FindsTurn
  <2> QED
    BY <2>1, <2>5
<1>5. n \in 0..n /\ n + 1 - n = 1
  BY <1>0
<1> QED
  BY <1>2, <1>4, <1>5

(* The bytes that have arrived and have not been passed, in order.          *)
Stream == (saved \o rx) \o flip

Arrived(d) == Place(d) < sent + 4

LineTypes ==
  /\ sent \in 0..(3 * NumPackets)
  /\ gone \in SUBSET Bytes
  /\ flip \in Seq(Bytes) /\ rx \in Seq(Bytes) /\ saved \in Seq(Bytes)
  /\ Len(saved) <= 2 /\ Len(rx) <= RingRoom
  /\ handled \in Seq(Seq(Bytes))

(* Bytes keep their order, and none is missing between two but for those    *)
(* that were lost.                                                          *)
InOrder ==
  /\ \A i, j \in 1..Len(Stream) : i < j => Place(Stream[i]) < Place(Stream[j])
  /\ \A i \in 1..Len(Stream) : Arrived(Stream[i])

Contiguous ==
  \A i \in 1..Len(Stream), d \in Bytes :
    Place(Stream[i]) < Place(d) /\ Arrived(d) =>
      d \in gone \/ \E j \in 1..Len(Stream) : Stream[j] = d

(* A packet that was handled lies before the stream, and before the next.   *)
Genuine(h, lost) ==
  \/ \E p \in 1..NumPackets : h = Whole(p)
  \/ \E d, e \in Between(h[1], h[3]) \cap lost : d # e

Passed ==
  \A a \in 1..Len(handled) :
    /\ Genuine(handled[a], gone)
    /\ handled[a][1] \in Bytes /\ handled[a][3] \in Bytes
    /\ Arrived(handled[a][3])
    /\ \A i \in 1..Len(Stream) : Place(handled[a][3]) < Place(Stream[i])
    /\ \A b \in 1..Len(handled) : a < b => Place(handled[a][3]) < Place(handled[b][1])

(* The first byte of a packet that has lost none stays until it is handled. *)
Kept ==
  \A p \in 1..NumPackets :
    Arrived(Byte(p, 1)) /\ (\A k \in 1..3 : Byte(p, k) \notin gone) =>
      \/ \E a \in 1..Len(handled) : handled[a] = Whole(p)
      \/ \E i \in 1..Len(Stream) : Stream[i] = Byte(p, 1)

LineInv == LineTypes /\ InOrder /\ Contiguous /\ Passed /\ Kept

LEMMA BytePlaces ==
  /\ \A p \in 1..NumPackets, k \in 1..3 :
       /\ Byte(p, k) \in Bytes /\ Place(Byte(p, k)) = 3 * p + k
       /\ High(Byte(p, k)) <=> k > 1
  /\ \A b \in Bytes : \E p \in 1..NumPackets, k \in 1..3 : b = Byte(p, k)
  /\ \A b \in Bytes : Place(b) \in Nat
  /\ \A b, c \in Bytes : Place(b) = Place(c) => b = c
<1>1. \A p \in 1..NumPackets, k \in 1..3 :
        /\ Byte(p, k) \in Bytes /\ Place(Byte(p, k)) = 3 * p + k
        /\ High(Byte(p, k)) <=> k > 1
  BY DEF Bytes, Byte, Place, High
<1>2. \A b \in Bytes : \E p \in 1..NumPackets, k \in 1..3 : b = Byte(p, k)
  BY DEF Bytes
<1>3. \A b \in Bytes : Place(b) \in Nat
  BY <1>1, <1>2, TuxLineAssumption
<1>4. ASSUME NEW b \in Bytes, NEW c \in Bytes, Place(b) = Place(c) PROVE b = c
  <2>1. PICK p \in 1..NumPackets, k \in 1..3 : b = Byte(p, k)
    BY <1>2
  <2>2. PICK q \in 1..NumPackets, j \in 1..3 : c = Byte(q, j)
    BY <1>2
  <2>3. 3 * p + k = 3 * q + j
    BY <1>1, <1>4, <2>1, <2>2
  <2>4. p \in Int /\ q \in Int
    BY TuxLineAssumption
  <2>5. p = q /\ k = j
    BY <2>3, <2>4
  <2> QED
    BY <2>1, <2>2, <2>5
<1> QED
  BY <1>1, <1>2, <1>3, <1>4

LEMMA FirstRest ==
  ASSUME NEW S, NEW s \in Seq(S), NEW n \in Nat
  PROVE  LET m == Smaller(n, Len(s))
         IN  /\ m \in 0..Len(s) /\ m <= n
             /\ First(s, n) \in Seq(S) /\ Len(First(s, n)) = m
             /\ \A i \in 1..m : First(s, n)[i] = s[i]
             /\ Rest(s, n) \in Seq(S) /\ Len(Rest(s, n)) = Len(s) - m
             /\ \A i \in 1..(Len(s) - m) : Rest(s, n)[i] = s[m + i]
<1> DEFINE m == Smaller(n, Len(s))
<1>1. Len(s) \in Nat
  OBVIOUS
<1>2. m \in 0..Len(s) /\ m <= n
  BY <1>1 DEF Smaller
<1> HIDE DEF m
<1>3. /\ SubSeq(s, 1, m) \in Seq(S) /\ Len(SubSeq(s, 1, m)) = m
      /\ \A i \in 1..m : SubSeq(s, 1, m)[i] = s[i]
  BY <1>1, <1>2, SubSeqProperties
<1>4. /\ SubSeq(s, m + 1, Len(s)) \in Seq(S)
      /\ Len(SubSeq(s, m + 1, Len(s))) = Len(s) - m
      /\ \A i \in 1..(Len(s) - m) : SubSeq(s, m + 1, Len(s))[i] = s[m + i]
  <2>1. \A i \in (m + 1)..Len(s) : s[i] \in S
    BY <1>1, <1>2
  <2>2. /\ SubSeq(s, m + 1, Len(s)) \in Seq(S)
        /\ Len(SubSeq(s, m + 1, Len(s))) = IF m + 1 <= Len(s) THEN Len(s) - (m + 1) + 1 ELSE 0
        /\ \A i \in 1..(Len(s) - (m + 1) + 1) : SubSeq(s, m + 1, Len(s))[i] = s[m + 1 + i - 1]
    BY <2>1, <1>1, <1>2, SubSeqProperties
  <2> QED
    BY <2>2, <1>1, <1>2
<1> QED
  BY <1>2, <1>3, <1>4 DEF First, Rest, m

LEMMA Joined ==
  ASSUME NEW S, NEW s \in Seq(S), NEW t \in Seq(S)
  PROVE  /\ s \o t \in Seq(S) /\ Len(s \o t) = Len(s) + Len(t)
         /\ \A i \in 1..Len(s) : (s \o t)[i] = s[i]
         /\ \A i \in 1..Len(t) : (s \o t)[Len(s) + i] = t[i]
<1>1. /\ s \o t \in Seq(S) /\ Len(s \o t) = Len(s) + Len(t)
      /\ \A i \in 1..(Len(s) + Len(t)) : (s \o t)[i] = IF i <= Len(s) THEN s[i] ELSE t[i - Len(s)]
  BY ConcatProperties
<1>2. Len(s) \in Nat /\ Len(t) \in Nat
  OBVIOUS
<1>3. ASSUME NEW i \in 1..Len(s) PROVE (s \o t)[i] = s[i]
  BY <1>1, <1>2
<1>4. ASSUME NEW i \in 1..Len(t) PROVE (s \o t)[Len(s) + i] = t[i]
  <2>1. Len(s) + i \in 1..(Len(s) + Len(t)) /\ ~(Len(s) + i <= Len(s)) /\ Len(s) + i - Len(s) = i
    BY <1>2
  <2> QED
    BY <1>1, <2>1
<1> QED
  BY <1>1, <1>3, <1>4

LEMMA StreamType ==
  ASSUME LineTypes
  PROVE  /\ Stream \in Seq(Bytes) /\ Len(Stream) = Len(saved) + Len(rx) + Len(flip)
         /\ Len(Stream) \in Nat /\ Len(saved) \in Nat /\ Len(rx) \in Nat /\ Len(flip) \in Nat
         /\ \A i \in 1..Len(Stream) : Stream[i] \in Bytes
         /\ \A i \in 1..Len(saved) : Stream[i] = saved[i]
         /\ \A i \in 1..Len(rx) : Stream[Len(saved) + i] = rx[i]
         /\ \A i \in 1..Len(flip) : Stream[Len(saved) + Len(rx) + i] = flip[i]
<1>1. saved \in Seq(Bytes) /\ rx \in Seq(Bytes) /\ flip \in Seq(Bytes)
  BY DEF LineTypes
<1>2. Len(saved) \in Nat /\ Len(rx) \in Nat /\ Len(flip) \in Nat
  BY <1>1
<1>3. /\ saved \o rx \in Seq(Bytes) /\ Len(saved \o rx) = Len(saved) + Len(rx)
      /\ \A i \in 1..(Len(saved) + Len(rx)) :
           (saved \o rx)[i] = IF i <= Len(saved) THEN saved[i] ELSE rx[i - Len(saved)]
  BY <1>1, ConcatProperties
<1>4. /\ Stream \in Seq(Bytes) /\ Len(Stream) = Len(saved) + Len(rx) + Len(flip)
      /\ \A i \in 1..(Len(saved) + Len(rx) + Len(flip)) :
           Stream[i] = IF i <= Len(saved) + Len(rx) THEN (saved \o rx)[i]
                       ELSE flip[i - (Len(saved) + Len(rx))]
  BY <1>1, <1>3, ConcatProperties DEF Stream
<1>5. \A i \in 1..Len(Stream) : Stream[i] \in Bytes
  BY <1>4, ElementOfSeq
<1>6. \A i \in 1..Len(saved) : Stream[i] = saved[i]
  BY <1>2, <1>3, <1>4
<1>7. \A i \in 1..Len(rx) : Stream[Len(saved) + i] = rx[i]
  <2> TAKE i \in 1..Len(rx)
  <2>1. /\ Len(saved) + i \in 1..(Len(saved) + Len(rx)) /\ ~(Len(saved) + i <= Len(saved))
        /\ Len(saved) + i - Len(saved) = i
    BY <1>2
  <2>2. Len(saved) + i \in 1..(Len(saved) + Len(rx) + Len(flip)) /\ Len(saved) + i <= Len(saved) + Len(rx)
    BY <1>2
  <2> QED
    BY <1>3, <1>4, <2>1, <2>2
<1>8. \A i \in 1..Len(flip) : Stream[Len(saved) + Len(rx) + i] = flip[i]
  <2> TAKE i \in 1..Len(flip)
  <2>1. /\ Len(saved) + Len(rx) + i \in 1..(Len(saved) + Len(rx) + Len(flip))
        /\ ~(Len(saved) + Len(rx) + i <= Len(saved) + Len(rx))
        /\ Len(saved) + Len(rx) + i - (Len(saved) + Len(rx)) = i
    BY <1>2
  <2> QED
    BY <1>4, <2>1
<1> QED
  BY <1>2, <1>4, <1>5, <1>6, <1>7, <1>8

(* What an interrupt does to the stream: it drops bytes at its end that the *)
(* ring has no room for, hands the first n to the callback, and keeps those *)
(* from its stop on.                                                        *)
LEMMA ReceiveStream ==
  ASSUME LineTypes, Receive
  PROVE  \E bytes \in Seq(Bytes), n \in 0..Len(Stream), m \in 0..Len(Stream) :
           LET e == Callback(bytes).stop - 1
           IN  /\ Len(bytes) = n /\ n <= m
               /\ \A i \in 1..n : bytes[i] = Stream[i]
               /\ handled' = handled \o Found(bytes)
               /\ e \in 0..n
               /\ Len(Stream') = m - e
               /\ \A i \in 1..(m - e) : Stream'[i] = Stream[e + i]
               /\ gone' = gone \cup {Stream[i] : i \in (m + 1)..Len(Stream)}
               /\ LineTypes'
<1> DEFINE free == RingRoom - Len(rx)
           ring == rx \o First(flip, free)
           got == PacketRoom - Len(saved)
           bytes == saved \o First(ring, got)
           ls == Len(saved)
           lr == Len(rx)
           lf == Len(flip)
           k == Smaller(free, lf)
           g == Smaller(got, lr + k)
           n == ls + g
           m == ls + lr + k
           e == Callback(bytes).stop - 1
<1>1. /\ saved \in Seq(Bytes) /\ rx \in Seq(Bytes) /\ flip \in Seq(Bytes)
      /\ handled \in Seq(Seq(Bytes)) /\ gone \in SUBSET Bytes
      /\ ls \in Nat /\ lr \in Nat /\ lf \in Nat /\ free \in Nat /\ got \in Nat
      /\ RingRoom \in Nat /\ PacketRoom \in Nat
  <2>1. RingRoom \in Nat /\ PacketRoom \in Nat /\ PacketRoom > 2
    BY TuxLineAssumption
  <2> QED
    BY <2>1 DEF LineTypes
<1>2. /\ flip' = <<>> /\ gone' = gone \cup ToSet(Rest(flip, free))
      /\ rx' = Rest(ring, got)
      /\ handled' = handled \o Found(bytes)
      /\ saved' = SubSeq(bytes, e + 1, Len(bytes))
      /\ sent' = sent
  <2>1. Callback(bytes).stop = e + 1
    <3>1. bytes \in Seq(Bytes)
      <4>1. ring \in Seq(Bytes)
        BY <1>1, FirstRest, ConcatProperties
      <4> HIDE DEF ring
      <4> QED
        BY <1>1, <4>1, FirstRest, ConcatProperties
    <3> HIDE DEF bytes
    <3>2. Callback(bytes).stop \in Int
      BY <3>1, CallbackFinds DEF Finds
    <3> QED
      BY <3>2
  <2> QED
    BY <2>1 DEF Receive, Remaining, Leftover
<1>3. /\ k \in 0..lf /\ First(flip, free) \in Seq(Bytes) /\ Len(First(flip, free)) = k
      /\ k <= free
      /\ \A i \in 1..k : First(flip, free)[i] = flip[i]
      /\ Rest(flip, free) \in Seq(Bytes) /\ Len(Rest(flip, free)) = lf - k
      /\ \A i \in 1..(lf - k) : Rest(flip, free)[i] = flip[k + i]
  BY <1>1, FirstRest
<1>4. /\ ring \in Seq(Bytes) /\ Len(ring) = lr + k
      /\ \A i \in 1..(lr + k) : ring[i] = Stream[ls + i]
  <2> HIDE DEF k, free
  <2>1. /\ ring \in Seq(Bytes) /\ Len(ring) = lr + k
        /\ \A i \in 1..lr : ring[i] = rx[i]
        /\ \A i \in 1..k : ring[lr + i] = First(flip, free)[i]
    <3> DEFINE t == First(flip, free)
    <3>1. t \in Seq(Bytes) /\ Len(t) = k
      BY <1>3
    <3> HIDE DEF t
    <3>6. rx \in Seq(Bytes) /\ t \in Seq(Bytes)
      BY <1>1, <3>1
    <3>2. /\ rx \o t \in Seq(Bytes) /\ Len(rx \o t) = Len(rx) + Len(t)
          /\ \A i \in 1..Len(rx) : (rx \o t)[i] = rx[i]
          /\ \A i \in 1..Len(t) : (rx \o t)[Len(rx) + i] = t[i]
      BY <3>6, Joined
    <3>3. ring = rx \o t
      BY DEF t
    <3>4. Len(rx) = lr /\ \A i : t[i] = First(flip, free)[i]
      BY DEF t
    <3> HIDE DEF ring, lr
    <3>5. /\ ring \in Seq(Bytes) /\ Len(ring) = lr + k
          /\ \A i \in 1..lr : ring[i] = rx[i]
          /\ \A i \in 1..k : ring[lr + i] = t[i]
      BY <3>1, <3>2, <3>3, <3>4
    <3> QED
      BY <3>4, <3>5
  <2>2. ASSUME NEW i \in 1..(lr + k) PROVE ring[i] = Stream[ls + i]
    <3> HIDE DEF ring
    <3>1. CASE i <= lr
      <4>1. i \in 1..lr
        BY <3>1, <1>1, <1>3
      <4> QED
        BY <2>1, <4>1, StreamType
    <3>2. CASE i > lr
      <4>1. i - lr \in 1..k /\ i - lr \in 1..lf /\ ls + lr + (i - lr) = ls + i /\ lr + (i - lr) = i
        BY <1>1, <1>3, <3>2
      <4>2. Stream[ls + i] = flip[i - lr]
        BY <4>1, StreamType
      <4>3. ring[i] = First(flip, free)[i - lr] /\ First(flip, free)[i - lr] = flip[i - lr]
        BY <2>1, <4>1, <1>3
      <4> QED
        BY <4>2, <4>3
    <3> QED
      BY <3>1, <3>2, <1>1, <1>3
  <2> QED
    BY <2>1, <2>2
<1> HIDE DEF ring
<1>5. /\ g \in 0..(lr + k) /\ First(ring, got) \in Seq(Bytes) /\ Len(First(ring, got)) = g
      /\ g <= got
      /\ \A i \in 1..g : First(ring, got)[i] = ring[i]
      /\ Rest(ring, got) \in Seq(Bytes) /\ Len(Rest(ring, got)) = (lr + k) - g
      /\ \A i \in 1..((lr + k) - g) : Rest(ring, got)[i] = ring[g + i]
  <2>1. g = Smaller(got, Len(ring))
    BY <1>4
  <2>2. got \in Nat /\ ring \in Seq(Bytes)
    BY <1>1, <1>4
  <2> HIDE DEF k, free, got, g
  <2>3. LET b == Smaller(got, Len(ring))
        IN  /\ b \in 0..Len(ring) /\ b <= got
            /\ First(ring, got) \in Seq(Bytes) /\ Len(First(ring, got)) = b
            /\ \A i \in 1..b : First(ring, got)[i] = ring[i]
            /\ Rest(ring, got) \in Seq(Bytes) /\ Len(Rest(ring, got)) = Len(ring) - b
            /\ \A i \in 1..(Len(ring) - b) : Rest(ring, got)[i] = ring[b + i]
    BY <2>2, FirstRest
  <2>4. Len(ring) = lr + k
    BY <1>4
  <2> QED
    BY <2>1, <2>3, <2>4
<1> HIDE DEF k, g, free, got
<1>6. n \in Nat /\ m \in Nat /\ n <= m /\ m <= Len(Stream) /\ Len(Stream) = ls + lr + lf
  BY <1>1, <1>3, <1>5, StreamType
<1>7. /\ bytes \in Seq(Bytes) /\ Len(bytes) = n
      /\ \A i \in 1..n : bytes[i] = Stream[i]
  <2>1. /\ bytes \in Seq(Bytes) /\ Len(bytes) = n
        /\ \A i \in 1..ls : bytes[i] = saved[i]
        /\ \A i \in 1..g : bytes[ls + i] = First(ring, got)[i]
    <3> DEFINE t == First(ring, got)
    <3>1. t \in Seq(Bytes) /\ Len(t) = g
      BY <1>5
    <3> HIDE DEF t
    <3>6. saved \in Seq(Bytes) /\ t \in Seq(Bytes)
      BY <1>1, <3>1
    <3>2. /\ saved \o t \in Seq(Bytes) /\ Len(saved \o t) = Len(saved) + Len(t)
          /\ \A i \in 1..Len(saved) : (saved \o t)[i] = saved[i]
          /\ \A i \in 1..Len(t) : (saved \o t)[Len(saved) + i] = t[i]
      BY <3>6, Joined
    <3>3. bytes = saved \o t
      BY DEF t
    <3>4. Len(saved) = ls /\ \A i : t[i] = First(ring, got)[i]
      BY DEF t
    <3> HIDE DEF bytes, ls, n
    <3>5. /\ bytes \in Seq(Bytes) /\ Len(bytes) = ls + g
          /\ \A i \in 1..ls : bytes[i] = saved[i]
          /\ \A i \in 1..g : bytes[ls + i] = t[i]
      BY <3>1, <3>2, <3>3, <3>4
    <3> QED
      BY <3>4, <3>5 DEF n
  <2>2. ASSUME NEW i \in 1..n PROVE bytes[i] = Stream[i]
    <3> HIDE DEF bytes
    <3>1. CASE i <= ls
      <4>1. i \in 1..ls
        BY <3>1, <1>1, <1>6
      <4> QED
        BY <2>1, <4>1, StreamType
    <3>2. CASE i > ls
      <4>0. g \in Int /\ k \in Int
        BY <1>1, <1>3, <1>5
      <4>1. i - ls \in 1..g /\ ls + (i - ls) = i
        BY <4>0, <1>1, <3>2
      <4>2. i - ls \in 1..(lr + k)
        BY <4>0, <4>1, <1>1, <1>5
      <4>3. First(ring, got)[i - ls] = Stream[i]
        BY <4>1, <4>2, <1>4, <1>5
      <4> QED
        BY <2>1, <4>1, <4>3
    <3> QED
      BY <3>1, <3>2, <1>1, <1>6
  <2> QED
    BY <2>1, <2>2
<1> HIDE DEF bytes
<1>8. PICK pos : Finds(Callback(bytes), 1, bytes, pos)
  BY <1>7, CallbackFinds
<1>9. e \in 0..n /\ n - e <= 2 /\ Found(bytes) \in Seq(Seq(Bytes))
  BY <1>6, <1>7, <1>8 DEF Finds, Found
<1> HIDE DEF e, n, m
<1>10. /\ saved' \in Seq(Bytes) /\ Len(saved') = n - e
       /\ \A i \in 1..(n - e) : saved'[i] = Stream[e + i]
  <2>1. \A i \in (e + 1)..n : bytes[i] \in Bytes
    BY <1>6, <1>7, <1>9, ElementOfSeq
  <2>2. /\ saved' \in Seq(Bytes) /\ Len(saved') = IF e + 1 <= n THEN n - (e + 1) + 1 ELSE 0
        /\ \A i \in 1..(n - (e + 1) + 1) : saved'[i] = bytes[e + 1 + i - 1]
    BY <2>1, <1>2, <1>6, <1>7, <1>9, SubSeqProperties
  <2>3. \A i \in 1..(n - e) : e + 1 + i - 1 = e + i /\ e + i \in 1..n /\ i \in 1..(n - (e + 1) + 1)
    BY <1>6, <1>9
  <2>4. Len(saved') = n - e
    BY <2>2, <1>6, <1>9
  <2> QED
    BY <2>2, <2>3, <2>4, <1>7
<1>11. /\ rx' \in Seq(Bytes) /\ Len(rx') = m - n
       /\ \A i \in 1..(m - n) : rx'[i] = Stream[n + i]
  <2>1. m - n = (lr + k) - g /\ \A i \in 1..(m - n) : g + i \in 1..(lr + k) /\ ls + (g + i) = n + i
    BY <1>1, <1>3, <1>5 DEF n, m
  <2>2. rx' \in Seq(Bytes) /\ Len(rx') = m - n
    BY <1>2, <1>5, <2>1
  <2>3. ASSUME NEW i \in 1..(m - n) PROVE rx'[i] = Stream[n + i]
    <3>1. rx'[i] = ring[g + i]
      BY <1>2, <1>5, <2>1
    <3>2. ring[g + i] = Stream[ls + (g + i)]
      BY <1>4, <2>1
    <3> QED
      BY <3>1, <3>2, <2>1
  <2> QED
    BY <2>2, <2>3
<1>12. /\ Len(Stream') = m - e
       /\ \A i \in 1..(m - e) : Stream'[i] = Stream[e + i]
  <2>1. flip' \in Seq(Bytes) /\ Len(flip') = 0
    BY <1>2
  <2>2. /\ saved' \o rx' \in Seq(Bytes) /\ Len(saved' \o rx') = m - e
        /\ \A i \in 1..(n - e) : (saved' \o rx')[i] = saved'[i]
        /\ \A i \in 1..(m - n) : (saved' \o rx')[(n - e) + i] = rx'[i]
    <3>1. (n - e) + (m - n) = m - e
      BY <1>6, <1>9
    <3>2. saved' \in Seq(Bytes) /\ rx' \in Seq(Bytes) /\ Len(saved') = n - e /\ Len(rx') = m - n
      BY <1>10, <1>11
    <3>3. /\ saved' \o rx' \in Seq(Bytes) /\ Len(saved' \o rx') = Len(saved') + Len(rx')
          /\ \A i \in 1..Len(saved') : (saved' \o rx')[i] = saved'[i]
          /\ \A i \in 1..Len(rx') : (saved' \o rx')[Len(saved') + i] = rx'[i]
      <4> DEFINE s == saved'
                 r == rx'
      <4>1. s \in Seq(Bytes) /\ r \in Seq(Bytes)
        BY <3>2
      <4> HIDE DEF s, r
      <4>2. /\ s \o r \in Seq(Bytes) /\ Len(s \o r) = Len(s) + Len(r)
            /\ \A i \in 1..Len(s) : (s \o r)[i] = s[i]
            /\ \A i \in 1..Len(r) : (s \o r)[Len(s) + i] = r[i]
        BY <4>1, Joined
      <4> QED
        BY <4>2 DEF s, r
    <3> QED
      BY <3>1, <3>2, <3>3
  <2>3. Stream' = saved' \o rx'
    BY <2>2, <1>2, ConcatEmptySeq DEF Stream
  <2>4. ASSUME NEW i \in 1..(m - e) PROVE Stream'[i] = Stream[e + i]
    <3>1. CASE i <= n - e
      <4>1. i \in 1..(n - e)
        BY <3>1, <1>6, <1>9
      <4> QED
        BY <2>2, <2>3, <4>1, <1>10
    <3>2. CASE i > n - e
      <4>1. i - (n - e) \in 1..(m - n) /\ n + (i - (n - e)) = e + i /\ (n - e) + (i - (n - e)) = i
        BY <3>2, <1>6, <1>9
      <4>2. Stream'[i] = rx'[i - (n - e)]
        BY <2>2, <2>3, <4>1
      <4> QED
        BY <4>1, <4>2, <1>11
    <3> QED
      BY <3>1, <3>2, <1>6, <1>9
  <2> QED
    BY <2>2, <2>3, <2>4
<1>13. gone' = gone \cup {Stream[i] : i \in (m + 1)..Len(Stream)}
  <2>1. ToSet(Rest(flip, free)) = {Rest(flip, free)[i] : i \in 1..(lf - k)}
    BY <1>3 DEF ToSet
  <2>2. \A i \in 1..(lf - k) : /\ Rest(flip, free)[i] = Stream[m + i]
                               /\ m + i \in (m + 1)..Len(Stream)
    <3> TAKE i \in 1..(lf - k)
    <3>1. k + i \in 1..lf /\ ls + lr + (k + i) = m + i /\ m + i \in (m + 1)..Len(Stream)
      BY <1>1, <1>3, <1>6 DEF m
    <3> QED
      BY <3>1, <1>3, StreamType
  <2>3. \A i \in (m + 1)..Len(Stream) : i - m \in 1..(lf - k) /\ m + (i - m) = i
    BY <1>1, <1>3, <1>6 DEF m
  <2>4. {Rest(flip, free)[i] : i \in 1..(lf - k)} = {Stream[i] : i \in (m + 1)..Len(Stream)}
    BY <2>2, <2>3
  <2> QED
    BY <1>2, <2>1, <2>4
<1>14. LineTypes'
  <2>1. gone' \in SUBSET Bytes
    BY <1>1, <1>6, <1>13, StreamType
  <2>2. handled' \in Seq(Seq(Bytes))
    BY <1>1, <1>2, <1>9, ConcatProperties
  <2>3. Len(rx') <= RingRoom
    BY <1>1, <1>3, <1>5, <1>11 DEF m, n, free
  <2> QED
    BY <2>1, <2>2, <2>3, <1>2, <1>6, <1>9, <1>10, <1>11 DEF LineTypes
<1>15. n \in 0..Len(Stream) /\ m \in 0..Len(Stream)
  BY <1>6
<1> QED
  BY <1>2, <1>6, <1>7, <1>9, <1>12, <1>13, <1>14, <1>15 DEF e

(* The two bytes of a packet after the first that lie between.              *)
LEMMA WirePlace ==
  ASSUME sent \in 0..(3 * NumPackets), sent < 3 * NumPackets
  PROVE  /\ Wire \in Bytes /\ Place(Wire) = sent + 4
<1>1. NumPackets \in Nat /\ sent \in Nat
  BY TuxLineAssumption
<1>2. PICK q \in Nat, r \in 0..2 : sent = 3 * q + r /\ sent \div 3 = q /\ sent % 3 = r
  BY <1>1
<1>3. q + 1 \in 1..NumPackets /\ r + 1 \in 1..3
  BY <1>1, <1>2
<1>4. Wire = Byte(q + 1, r + 1)
  BY <1>2 DEF Wire
<1>5. Wire \in Bytes /\ Place(Wire) = 3 * (q + 1) + (r + 1)
  BY <1>3, <1>4, BytePlaces
<1> QED
  BY <1>2, <1>5

LEMMA LineInit == ASSUME InitLine PROVE LineInv
<1>1. /\ <<>> \in Seq(Bytes) /\ <<>> \in Seq(Seq(Bytes)) /\ Len(<<>>) = 0
      /\ NumPackets \in Nat /\ RingRoom \in Nat
  BY EmptySeq, TuxLineAssumption
<1>2. LineTypes
  BY <1>1 DEF InitLine, LineTypes
<1>3. Len(Stream) = 0
  BY <1>1, <1>2, StreamType DEF InitLine
<1>4. Len(handled) = 0 /\ sent = 0
  BY <1>1 DEF InitLine
<1>5. ASSUME NEW p \in 1..NumPackets PROVE ~Arrived(Byte(p, 1))
  <2>1. Place(Byte(p, 1)) = 3 * p + 1
    BY BytePlaces
  <2> QED
    BY <2>1, <1>4, <1>1 DEF Arrived
<1> QED
  BY <1>2, <1>3, <1>4, <1>5 DEF LineInv, InOrder, Contiguous, Passed, Kept

LEMMA SameLine == ASSUME LineInv, UNCHANGED rcv PROVE LineInv'
BY DEF LineInv, LineTypes, InOrder, Contiguous, Passed, Kept, rcv, Stream, Arrived, Genuine

(* A byte that arrives is the last of the stream, or is lost.               *)
LEMMA ArriveKeeps == ASSUME LineInv, Arrive PROVE LineInv'
<1> DEFINE n == Len(Stream)
<1>1. /\ sent \in 0..(3 * NumPackets) /\ sent < 3 * NumPackets /\ sent' = sent + 1
      /\ UNCHANGED <<rx, saved, handled>>
      /\ \/ flip' = Append(flip, Wire) /\ gone' = gone
         \/ flip' = flip /\ gone' = gone \cup {Wire}
      /\ flip \in Seq(Bytes) /\ gone \in SUBSET Bytes
      /\ NumPackets \in Nat
      /\ LineTypes
  BY TuxLineAssumption DEF Arrive, LineInv, LineTypes
<1>2. Wire \in Bytes /\ Place(Wire) = sent + 4
  BY <1>1, WirePlace
<1>3. LineTypes'
  <2>1. flip' \in Seq(Bytes) /\ gone' \in SUBSET Bytes
    BY <1>1, <1>2, AppendProperties
  <2>2. sent' \in 0..(3 * NumPackets)
    BY <1>1
  <2> QED
    BY <1>1, <2>1, <2>2 DEF LineTypes
<1>4. n \in Nat /\ Stream \in Seq(Bytes) /\ \A i \in 1..n : Stream[i] \in Bytes
  BY <1>1, StreamType
<1>5. \/ Stream' = Stream /\ gone' = gone \cup {Wire}
      \/ /\ gone' = gone /\ Len(Stream') = n + 1 /\ Stream'[n + 1] = Wire
         /\ \A i \in 1..n : Stream'[i] = Stream[i]
  <2>1. CASE flip' = flip /\ gone' = gone \cup {Wire}
    BY <1>1, <2>1 DEF Stream
  <2>2. CASE flip' = Append(flip, Wire) /\ gone' = gone
    <3>1. saved \o rx \in Seq(Bytes)
      BY <1>1, ConcatProperties DEF LineTypes
    <3>2. Stream' = Append(Stream, Wire)
      <4> DEFINE s == saved \o rx
      <4>1. s \in Seq(Bytes) /\ Stream' = s \o Append(flip, Wire) /\ Stream = s \o flip
        BY <1>1, <2>2, <3>1 DEF Stream
      <4> HIDE DEF s
      <4>2. s \o Append(flip, Wire) = Append(s \o flip, Wire)
        BY <4>1, <1>1, <1>2
      <4> QED
        BY <4>1, <4>2
    <3> QED
      BY <3>2, <2>2, <1>2, <1>4, AppendProperties
  <2> QED
    BY <1>1, <2>1, <2>2
<1>6. Len(Stream') \in Nat /\ Len(Stream') >= n /\ gone \subseteq gone'
      /\ (\A i \in 1..n : Stream'[i] = Stream[i])
      /\ \A i \in 1..Len(Stream') : i \in 1..n \/ (i = n + 1 /\ Stream'[i] = Wire /\ Len(Stream') = n + 1)
  BY <1>4, <1>5
<1>7. \A b \in Bytes : /\ Place(b) \in Nat
                       /\ Arrived(b) <=> Place(b) < sent + 4
                       /\ Arrived(b)' <=> Place(b) < sent + 5
                       /\ Arrived(b)' => Arrived(b) \/ b = Wire
  <2>1. \A b \in Bytes : (Arrived(b) <=> Place(b) < sent + 4) /\ (Arrived(b)' <=> Place(b) < sent + 1 + 4)
    BY <1>1 DEF Arrived, Place
  <2> QED
    BY <2>1, <1>1, <1>2, BytePlaces
<1>8. \A i \in 1..n : Arrived(Stream[i])
  BY DEF LineInv, InOrder
<1> HIDE DEF n
<1>9. InOrder'
  <2>1. ASSUME NEW i \in 1..Len(Stream'), NEW j \in 1..Len(Stream'), i < j
        PROVE  Place(Stream'[i]) < Place(Stream'[j])
    <3>1. i \in 1..n
      BY <1>4, <1>6, <2>1
    <3>2. CASE j \in 1..n
      BY <1>6, <2>1, <3>1, <3>2 DEF LineInv, InOrder, n
    <3>3. CASE Stream'[j] = Wire
      BY <1>2, <1>4, <1>6, <1>7, <1>8, <3>1, <3>3
    <3> QED
      BY <1>6, <3>2, <3>3
  <2>2. ASSUME NEW i \in 1..Len(Stream') PROVE Place(Stream'[i]) < sent + 1 + 4
    <3>1. CASE i \in 1..n
      <4>1. Place(Stream[i]) < sent + 4 /\ Place(Stream[i]) \in Nat
        BY <3>1, <1>4, <1>7, <1>8
      <4> QED
        BY <4>1, <3>1, <1>1, <1>6
    <3>2. CASE Stream'[i] = Wire
      BY <3>2, <1>1, <1>2
    <3> QED
      BY <1>6, <3>1, <3>2
  <2>3. \A i, j \in 1..Len(Stream') : i < j => Place(Stream'[i]) < Place(Stream'[j])
    BY <2>1
  <2> QED
    BY <2>2, <2>3, <1>1 DEF InOrder, Arrived, Place
<1>10. Contiguous'
  <2>1. ASSUME NEW i \in 1..Len(Stream'), NEW d \in Bytes, Place(Stream'[i]) < Place(d),
               Arrived(d)'
        PROVE  d \in gone' \/ \E j \in 1..Len(Stream') : Stream'[j] = d
    <3>1. CASE d = Wire
      <4>1. CASE gone' = gone \cup {Wire}
        BY <3>1, <4>1
      <4>2. CASE Len(Stream') = n + 1 /\ Stream'[n + 1] = Wire
        BY <3>1, <4>2, <1>4
      <4> QED
        BY <1>5, <4>1, <4>2
    <3>2. CASE d # Wire
      <4>1. Arrived(d) /\ Place(d) < sent + 4
        BY <3>2, <2>1, <1>7
      <4>2. i \in 1..n
        BY <4>1, <2>1, <1>1, <1>2, <1>6, <1>7
      <4>3. d \in gone \/ \E j \in 1..n : Stream[j] = d
        BY <4>1, <4>2, <2>1, <1>6 DEF LineInv, Contiguous, n
      <4> QED
        BY <4>3, <1>4, <1>6
    <3> QED
      BY <3>1, <3>2
  <2> QED
    BY <2>1 DEF Contiguous, Arrived, Place
<1>11. Passed'
  <2>1. ASSUME NEW a \in 1..Len(handled)
        PROVE  /\ Genuine(handled[a], gone')
               /\ handled[a][1] \in Bytes /\ handled[a][3] \in Bytes
               /\ Place(handled[a][3]) < sent + 1 + 4
               /\ \A i \in 1..Len(Stream') : Place(handled[a][3]) < Place(Stream'[i])
               /\ \A b \in 1..Len(handled) : a < b => Place(handled[a][3]) < Place(handled[b][1])
    <3>1. /\ Genuine(handled[a], gone) /\ Arrived(handled[a][3])
          /\ handled[a][1] \in Bytes /\ handled[a][3] \in Bytes
          /\ \A i \in 1..n : Place(handled[a][3]) < Place(Stream[i])
          /\ \A b \in 1..Len(handled) : a < b => Place(handled[a][3]) < Place(handled[b][1])
      BY DEF LineInv, Passed, n
    <3>2. Genuine(handled[a], gone')
      <4>1. CASE \E p \in 1..NumPackets : handled[a] = Whole(p)
        BY <4>1, <1>1 DEF Genuine
      <4>2. CASE \E d, e \in Between(handled[a][1], handled[a][3]) \cap gone : d # e
        <5>1. PICK d, e \in Between(handled[a][1], handled[a][3]) \cap gone : d # e
          BY <4>2
        <5>2. /\ d \in Between(handled[a][1], handled[a][3]) \cap gone'
              /\ e \in Between(handled[a][1], handled[a][3]) \cap gone'
          BY <5>1, <1>1, <1>6
        <5> QED
          BY <5>1, <5>2 DEF Genuine, Between
      <4> QED
        BY <3>1, <4>1, <4>2 DEF Genuine
    <3>3. Place(handled[a][3]) < sent + 4 /\ Place(handled[a][3]) \in Nat
      BY <3>1, <1>7
    <3>4. ASSUME NEW i \in 1..Len(Stream') PROVE Place(handled[a][3]) < Place(Stream'[i])
      <4>1. CASE i \in 1..n
        BY <4>1, <3>1, <1>6
      <4>2. CASE Stream'[i] = Wire
        BY <4>2, <3>3, <1>1, <1>2
      <4> QED
        BY <4>1, <4>2, <1>6
    <3> QED
      BY <3>1, <3>2, <3>3, <3>4, <1>1
  <2> QED
    BY <2>1, <1>1 DEF Passed, Arrived, Place
<1>12. Kept'
  <2>1. ASSUME NEW p \in 1..NumPackets, Arrived(Byte(p, 1))', \A k \in 1..3 : Byte(p, k) \notin gone'
        PROVE  \/ \E a \in 1..Len(handled) : handled[a] = Whole(p)
               \/ \E i \in 1..Len(Stream') : Stream'[i] = Byte(p, 1)
    <3>1. Byte(p, 1) \in Bytes
      BY BytePlaces
    <3>2. CASE Byte(p, 1) = Wire
      <4>1. Wire \notin gone'
        BY <2>1, <3>2
      <4> QED
        BY <3>2, <4>1, <1>4, <1>5
    <3>3. CASE Arrived(Byte(p, 1))
      <4>1. \/ \E a \in 1..Len(handled) : handled[a] = Whole(p)
            \/ \E i \in 1..n : Stream[i] = Byte(p, 1)
        BY <3>3, <2>1, <1>6 DEF LineInv, Kept, n
      <4> QED
        BY <4>1, <1>4, <1>6
    <3> QED
      BY <2>1, <3>1, <3>2, <3>3, <1>7
  <2> QED
    BY <2>1, <1>1 DEF Kept, Arrived, Place, Byte, Whole
<1> QED
  BY <1>3, <1>9, <1>10, <1>11, <1>12 DEF LineInv

(* Three bytes, each after the other, that look like a packet are one, if   *)
(* fewer than two bytes between them were lost.                             *)
LEMMA TwoLost ==
  ASSUME NEW b \in Bytes, NEW c \in Bytes, NEW d \in Bytes,
         ~High(b), High(c), High(d), Place(b) < Place(c), Place(c) < Place(d),
         \A x \in Bytes : Place(b) < Place(x) /\ Place(x) < Place(c) => x \in gone,
         \A x \in Bytes : Place(c) < Place(x) /\ Place(x) < Place(d) => x \in gone
  PROVE  Genuine(<<b, c, d>>, gone)
<1>1. PICK p \in 1..NumPackets, k \in 1..3 : b = Byte(p, k)
  BY BytePlaces
<1>2. PICK q \in 1..NumPackets, k2 \in 1..3 : c = Byte(q, k2)
  BY BytePlaces
<1>3. PICK r \in 1..NumPackets, k3 \in 1..3 : d = Byte(r, k3)
  BY BytePlaces
<1>4. \A y \in 1..NumPackets, z \in 1..3 :
        /\ Byte(y, z) \in Bytes /\ Place(Byte(y, z)) = 3 * y + z
        /\ z > 1 <=> High(Byte(y, z))
  BY BytePlaces
<1>5. k = 1 /\ k2 \in {2, 3} /\ k3 \in {2, 3}
  <2>1. ~(k > 1) /\ k2 > 1 /\ k3 > 1
    BY <1>1, <1>2, <1>3, <1>4
  <2> QED
    BY <2>1
<1>6. Place(b) = 3 * p + 1 /\ Place(c) = 3 * q + k2 /\ Place(d) = 3 * r + k3
  BY <1>1, <1>2, <1>3, <1>4, <1>5
<1>7. p \in Nat /\ q \in Nat /\ r \in Nat
  BY TuxLineAssumption
<1>8. ASSUME NEW x \in Bytes, NEW y \in Bytes, x # y,
             \/ Place(b) < Place(x) /\ Place(x) < Place(c)
             \/ Place(c) < Place(x) /\ Place(x) < Place(d),
             \/ Place(b) < Place(y) /\ Place(y) < Place(c)
             \/ Place(c) < Place(y) /\ Place(y) < Place(d)
      PROVE  Genuine(<<b, c, d>>, gone)
  <2>1. Place(x) \in Nat /\ Place(y) \in Nat
    BY BytePlaces
  <2>2. Place(b) < Place(x) /\ Place(x) < Place(d) /\ Place(b) < Place(y) /\ Place(y) < Place(d)
    BY <2>1, <1>5, <1>6, <1>7, <1>8
  <2>3. x \in Between(b, d) \cap gone /\ y \in Between(b, d) \cap gone
    BY <2>2, <1>8 DEF Between
  <2>4. <<b, c, d>>[1] = b /\ <<b, c, d>>[3] = d
    OBVIOUS
  <2> QED
    BY <2>3, <2>4, <1>8, Zenon DEF Genuine
<1>9. Byte(p, 2) # Byte(p, 3) /\ Byte(p, 3) # Byte(r, 1) /\ Byte(p, 2) # Byte(r, 1)
  BY DEF Byte
<1>10. /\ Byte(p, 2) \in Bytes /\ Place(Byte(p, 2)) = 3 * p + 2
       /\ Byte(p, 3) \in Bytes /\ Place(Byte(p, 3)) = 3 * p + 3
       /\ Byte(r, 1) \in Bytes /\ Place(Byte(r, 1)) = 3 * r + 1
  BY <1>4
<1>11. CASE q = p /\ k2 = 2
  <2>1. CASE r = p
    <3>1. k3 = 3
      BY <2>1, <1>5, <1>6, <1>7, <1>11
    <3>2. <<b, c, d>> = Whole(p)
      BY <2>1, <3>1, <1>1, <1>2, <1>3, <1>5, <1>11 DEF Whole
    <3> QED
      BY <3>2 DEF Genuine
  <2>2. CASE r # p
    <3>1. r > p
      BY <2>2, <1>5, <1>6, <1>7, <1>11
    <3>2. Place(c) < Place(Byte(p, 3)) /\ Place(Byte(p, 3)) < Place(d)
      BY <3>1, <1>5, <1>6, <1>7, <1>10, <1>11
    <3>3. Place(c) < Place(Byte(r, 1)) /\ Place(Byte(r, 1)) < Place(d)
      BY <3>1, <1>5, <1>6, <1>7, <1>10, <1>11
    <3> QED
      BY <3>2, <3>3, <1>8, <1>9, <1>10
  <2> QED
    BY <2>1, <2>2
<1>12. CASE q = p /\ k2 = 3
  <2>1. r > p
    BY <1>5, <1>6, <1>7, <1>12
  <2>2. Place(b) < Place(Byte(p, 2)) /\ Place(Byte(p, 2)) < Place(c)
    BY <1>6, <1>7, <1>10, <1>12
  <2>3. Place(c) < Place(Byte(r, 1)) /\ Place(Byte(r, 1)) < Place(d)
    BY <2>1, <1>5, <1>6, <1>7, <1>10, <1>12
  <2> QED
    BY <2>2, <2>3, <1>8, <1>9, <1>10
<1>13. CASE q # p
  <2>1. q > p
    BY <1>5, <1>6, <1>7, <1>13
  <2>2. Place(b) < Place(Byte(p, 2)) /\ Place(Byte(p, 2)) < Place(c)
    BY <2>1, <1>5, <1>6, <1>7, <1>10
  <2>3. Place(b) < Place(Byte(p, 3)) /\ Place(Byte(p, 3)) < Place(c)
    BY <2>1, <1>5, <1>6, <1>7, <1>10
  <2> QED
    BY <2>2, <2>3, <1>8, <1>9, <1>10
<1> QED
  BY <1>5, <1>11, <1>12, <1>13

(* What the callback takes for a packet.                                    *)
LEMMA FramedGenuine ==
  ASSUME LineInv, NEW i \in 1..Len(Stream), i + 2 \in 1..Len(Stream),
         ~High(Stream[i]), High(Stream[i + 1]), High(Stream[i + 2])
  PROVE  Genuine(<<Stream[i], Stream[i + 1], Stream[i + 2]>>, gone)
<1>1. LineTypes
  BY DEF LineInv
<1>2. i + 1 \in 1..Len(Stream) /\ Len(Stream) \in Nat /\ i \in Nat
  BY <1>1, StreamType
<1>3. Stream[i] \in Bytes /\ Stream[i + 1] \in Bytes /\ Stream[i + 2] \in Bytes
  BY <1>1, <1>2, StreamType
<1>4. \A k, l \in 1..Len(Stream) : k < l => Place(Stream[k]) < Place(Stream[l])
  BY DEF LineInv, InOrder
<1>5. Place(Stream[i]) < Place(Stream[i + 1]) /\ Place(Stream[i + 1]) < Place(Stream[i + 2])
  BY <1>2, <1>4
<1>6. ASSUME NEW x \in Bytes, NEW m \in {i, i + 1},
             Place(Stream[m]) < Place(x), Place(x) < Place(Stream[m + 1])
      PROVE  x \in gone
  <2>1. /\ m \in 1..Len(Stream) /\ m + 1 \in 1..Len(Stream)
        /\ Stream[m] \in Bytes /\ Stream[m + 1] \in Bytes
    BY <1>1, <1>2, StreamType
  <2>2. Place(x) \in Nat /\ Place(Stream[m]) \in Nat /\ Place(Stream[m + 1]) \in Nat
    BY <2>1, BytePlaces
  <2>3. Arrived(x)
    <3>1. Arrived(Stream[m + 1])
      BY <2>1 DEF LineInv, InOrder
    <3>2. sent \in Int /\ Place(Stream[m + 1]) < sent + 4
      BY <3>1, <1>1, TuxLineAssumption DEF Arrived, LineTypes
    <3>3. Place(x) < sent + 4
      BY <3>2, <2>2, <1>6
    <3> QED
      BY <3>3 DEF Arrived
  <2>4. ASSUME NEW j \in 1..Len(Stream), Stream[j] = x PROVE FALSE
    <3>1. j <= m \/ j >= m + 1
      BY <1>2
    <3>2. CASE j <= m
      <4>1. j = m \/ Place(Stream[j]) < Place(Stream[m])
        BY <3>2, <1>2, <1>4, <2>1
      <4> QED
        BY <4>1, <2>2, <2>4, <1>6
    <3>3. CASE j >= m + 1
      <4>1. j = m + 1 \/ Place(Stream[m + 1]) < Place(Stream[j])
        BY <3>3, <1>2, <1>4, <2>1
      <4> QED
        BY <4>1, <2>2, <2>4, <1>6
    <3> QED
      BY <3>1, <3>2, <3>3
  <2> QED
    BY <2>1, <2>3, <2>4, <1>6 DEF LineInv, Contiguous
<1>7. \A x \in Bytes :
        /\ Place(Stream[i]) < Place(x) /\ Place(x) < Place(Stream[i + 1]) => x \in gone
        /\ Place(Stream[i + 1]) < Place(x) /\ Place(x) < Place(Stream[i + 2]) => x \in gone
  <2>1. i + 1 + 1 = i + 2
    BY <1>2
  <2> QED
    BY <1>6, <2>1
<1> DEFINE b == Stream[i]
           c == Stream[i + 1]
           d == Stream[i + 2]
<1>8. ~High(b) /\ High(c) /\ High(d)
  OBVIOUS
<1>9. b \in Bytes /\ c \in Bytes /\ d \in Bytes /\ Place(b) < Place(c) /\ Place(c) < Place(d)
  BY <1>3, <1>5
<1>10. /\ \A x \in Bytes : Place(b) < Place(x) /\ Place(x) < Place(c) => x \in gone
       /\ \A x \in Bytes : Place(c) < Place(x) /\ Place(x) < Place(d) => x \in gone
  BY <1>7
<1>11. Genuine(<<b, c, d>>, gone)
  <2> HIDE DEF b, c, d
  <2> QED
    BY <1>8, <1>9, <1>10, TwoLost
<1> QED
  BY <1>11

(* A packet whose bytes were not lost lies on the stream byte after byte.   *)
LEMMA NextBytes ==
  ASSUME LineInv, NEW p \in 1..NumPackets, NEW i \in 1..Len(Stream),
         Stream[i] = Byte(p, 1), i + 1 \in 1..Len(Stream), i + 2 \in 1..Len(Stream),
         \A k \in 1..3 : Byte(p, k) \notin gone
  PROVE  Stream[i + 1] = Byte(p, 2) /\ Stream[i + 2] = Byte(p, 3)
<1>1. LineTypes /\ sent \in Int /\ p \in Nat /\ i \in Nat
  BY TuxLineAssumption DEF LineInv, LineTypes
<1>2. \A k \in 1..3 : Byte(p, k) \in Bytes /\ Place(Byte(p, k)) = 3 * p + k
  BY BytePlaces
<1>3. \A k, l \in 1..Len(Stream) : k < l => Place(Stream[k]) < Place(Stream[l])
  BY DEF LineInv, InOrder
<1>4. ASSUME NEW k \in {2, 3}, NEW m \in 1..Len(Stream), m + 1 \in 1..Len(Stream), Stream[m] = Byte(p, k - 1)
      PROVE  Stream[m + 1] = Byte(p, k)
  <2> DEFINE b == Byte(p, k)
             c == Stream[m + 1]
  <2>1. b \in Bytes /\ Place(b) = 3 * p + k /\ Place(Stream[m]) = 3 * p + k - 1 /\ b \notin gone
    <3>1. k \in 1..3 /\ k - 1 \in 1..3
      OBVIOUS
    <3> QED
      BY <3>1, <1>1, <1>2, <1>4
  <2>11. c \in Bytes /\ m \in Int
    BY <1>1, <1>4, StreamType
  <2>2. c \in Bytes /\ Place(c) \in Nat /\ m \in Int
    BY <2>11, BytePlaces
  <2>3. Place(Stream[m]) < Place(c)
    BY <2>2, <1>3, <1>4
  <2>4. Place(b) <= Place(c)
    BY <2>1, <2>2, <2>3, <1>1
  <2>5. Place(c) < sent + 4
    BY <1>4 DEF LineInv, InOrder, Arrived
  <2>6. Arrived(b) /\ Place(Stream[m]) < Place(b)
    BY <2>1, <2>2, <2>4, <2>5, <1>1 DEF Arrived
  <2>7. PICK j \in 1..Len(Stream) : Stream[j] = b
    BY <2>1, <2>6 DEF LineInv, Contiguous
  <2>8. j > m
    <3>1. j \in Int /\ Place(Stream[j]) = 3 * p + k /\ Place(Stream[m]) = 3 * p + k - 1
      BY <2>1, <2>7
    <3>2. j # m
      BY <3>1, <1>1
    <3>3. ~(j < m)
      <4>1. j < m => Place(Stream[j]) < Place(Stream[m])
        BY <1>3
      <4> QED
        BY <4>1, <3>1, <1>1
    <3> QED
      BY <3>1, <3>2, <3>3, <2>2
  <2>9. j = m + 1 \/ j > m + 1
    BY <2>2, <2>8
  <2>10. CASE j > m + 1
    <3>1. Place(c) < Place(b)
      BY <2>7, <2>10, <1>3, <1>4
    <3> QED
      BY <3>1, <2>1, <2>2, <2>4, <1>1
  <2> QED
    BY <2>7, <2>9, <2>10
<1>5. Stream[i + 1] = Byte(p, 2)
  BY <1>4
<1>6. i + 1 + 1 = i + 2
  BY <1>1
<1> QED
  BY <1>4, <1>5, <1>6

LEMMA SubSeqOfThree ==
  ASSUME NEW s \in Seq(Bytes), NEW i \in 1..Len(s), i + 2 \in 1..Len(s)
  PROVE  SubSeq(s, i, i + 2) = <<s[i], s[i + 1], s[i + 2]>>
<1> DEFINE t == SubSeq(s, i, i + 2)
<1>1. /\ \A j \in i..(i + 2) : s[j] \in Bytes
      /\ i \in Int /\ i + 2 \in Int
  OBVIOUS
<1>2. /\ t \in Seq(Bytes) /\ Len(t) = 3
      /\ t[1] = s[i] /\ t[2] = s[i + 1] /\ t[3] = s[i + 2]
  BY <1>1, SubSeqProperties
<1> HIDE DEF t
<1>3. t = <<t[1], t[2], t[3]>>
  BY <1>2
<1> QED
  BY <1>2, <1>3 DEF t

(* The interrupt hands over the bytes before e for good, those of packets   *)
(* that are handled and those that are passed over, and loses those from m. *)
LEMMA ReceiveKeeps == ASSUME LineInv, Receive PROVE LineInv'
<1>1. LineTypes /\ NumPackets \in Nat
  BY TuxLineAssumption DEF LineInv
<1>2. PICK bytes \in Seq(Bytes), n \in 0..Len(Stream), m \in 0..Len(Stream) :
        LET e == Callback(bytes).stop - 1
        IN  /\ Len(bytes) = n /\ n <= m
            /\ \A i \in 1..n : bytes[i] = Stream[i]
            /\ handled' = handled \o Found(bytes)
            /\ e \in 0..n
            /\ Len(Stream') = m - e
            /\ \A i \in 1..(m - e) : Stream'[i] = Stream[e + i]
            /\ gone' = gone \cup {Stream[i] : i \in (m + 1)..Len(Stream)}
            /\ LineTypes'
  BY <1>1, ReceiveStream
<1>3. PICK pos : Finds(Callback(bytes), 1, bytes, pos)
  BY CallbackFinds
<1> DEFINE e == Callback(bytes).stop - 1
           found == Found(bytes)
           l == Len(Stream)
           h == Len(handled)
           f == Len(found)
<1>4. /\ found \in Seq(Seq(Bytes)) /\ Len(pos) = f /\ f \in Nat
      /\ pos \in Seq(1..(n - 2))
      /\ Callback(bytes).stop = e + 1 /\ e + 1 >= n - 1
  <2>1. /\ found \in Seq(Seq(Bytes)) /\ Len(pos) = f /\ pos \in Seq(1..(Len(bytes) - 2))
        /\ Callback(bytes).stop \in 1..(Len(bytes) + 1) /\ Callback(bytes).stop >= Len(bytes) - 1
    BY <1>3 DEF Finds, Found
  <2>2. f \in Nat
    BY <2>1, LenProperties
  <2>3. Len(bytes) = n
    BY <1>2
  <2>4. Callback(bytes).stop = e + 1
    BY <2>1
  <2> QED
    BY <2>1, <2>2, <2>3, <2>4
<1>5. \A a \in 1..f : pos[a] \in 1..(n - 2)
  BY <1>4, ElementOfSeq
<1>6. \A a \in 1..f : /\ found[a] = SubSeq(bytes, pos[a], pos[a] + 2)
                      /\ Framed(bytes, pos[a])
                      /\ pos[a] + 3 <= e + 1
                      /\ \A b \in 1..f : a < b => pos[a] + 3 <= pos[b]
  BY <1>3, <1>4 DEF Finds, Found
<1>7. \A j \in 1..(n - 2) : Framed(bytes, j) => \E a \in 1..f : pos[a] = j
  BY <1>2, <1>3, <1>4 DEF Finds
<1>8. \A j \in 1..n : j >= n - 1 /\ ~High(bytes[j]) => e + 1 <= j
  BY <1>2, <1>3, <1>4 DEF Finds
<1>9. /\ n \in 0..l /\ m \in 0..l /\ n <= m /\ Len(bytes) = n
      /\ \A i \in 1..n : bytes[i] = Stream[i]
      /\ handled' = handled \o found
      /\ e \in 0..n
      /\ Len(Stream') = m - e
      /\ \A i \in 1..(m - e) : Stream'[i] = Stream[e + i]
      /\ gone' = gone \cup {Stream[i] : i \in (m + 1)..l}
      /\ LineTypes'
      /\ sent' = sent
  BY <1>2 DEF Receive
<1>10. l \in Nat /\ \A i \in 1..l : Stream[i] \in Bytes
  BY <1>1, StreamType
<1>11. \A b \in Bytes : Place(b) \in Nat
  BY BytePlaces
<1>12. /\ h \in Nat /\ Len(handled') = h + f
       /\ \A a \in 1..h : handled'[a] = handled[a]
       /\ \A a \in 1..f : handled'[h + a] = found[a]
  <2>1. handled \in Seq(Seq(Bytes))
    BY <1>1 DEF LineTypes
  <2> DEFINE T == Seq(Bytes)
  <2>3. handled \in Seq(T) /\ found \in Seq(T)
    BY <2>1, <1>4
  <2> HIDE DEF found, T
  <2>2. /\ Len(handled \o found) = Len(handled) + Len(found)
        /\ \A i \in 1..Len(handled) : (handled \o found)[i] = handled[i]
        /\ \A i \in 1..Len(found) : (handled \o found)[Len(handled) + i] = found[i]
    BY <2>3, Joined
  <2> QED
    BY <2>1, <2>2, <1>9
<1> HIDE DEF e, found, l, h, f
<1>13. ASSUME NEW a \in 1..f
       PROVE  /\ pos[a] \in 1..l /\ pos[a] + 1 \in 1..l /\ pos[a] + 2 \in 1..l /\ pos[a] + 2 <= e
              /\ found[a] = <<Stream[pos[a]], Stream[pos[a] + 1], Stream[pos[a] + 2]>>
              /\ Genuine(found[a], gone)
  <2>0. pos[a] \in 1..(n - 2) /\ pos[a] + 3 <= e + 1 /\ n \in 0..l /\ e \in 0..n
    BY <1>5, <1>6, <1>9
  <2>1. /\ pos[a] \in 1..n /\ pos[a] + 1 \in 1..n /\ pos[a] + 2 \in 1..n
        /\ pos[a] \in 1..l /\ pos[a] + 1 \in 1..l /\ pos[a] + 2 \in 1..l /\ pos[a] + 2 <= e
    <3>1. n \in Int /\ n <= l /\ e \in Int /\ l \in Int
      BY <2>0, <1>10
    <3>2. pos[a] \in Int /\ pos[a] >= 1 /\ pos[a] <= n - 2 /\ pos[a] + 3 <= e + 1
      BY <2>0, <3>1
    <3> DEFINE i == pos[a]
    <3>3. i \in Int /\ i >= 1 /\ i <= n - 2 /\ i + 3 <= e + 1
      BY <3>2
    <3> HIDE DEF i
    <3>4. i \in 1..n /\ i + 1 \in 1..n /\ i + 2 \in 1..n
      BY <3>1, <3>3
    <3>5. i \in 1..l /\ i + 1 \in 1..l /\ i + 2 \in 1..l /\ i + 2 <= e
      BY <3>1, <3>3
    <3> QED
      BY <3>4, <3>5 DEF i
  <2>2. SubSeq(bytes, pos[a], pos[a] + 2) = <<bytes[pos[a]], bytes[pos[a] + 1], bytes[pos[a] + 2]>>
    <3> DEFINE i == pos[a]
    <3>1. i \in 1..Len(bytes) /\ i + 2 \in 1..Len(bytes)
      BY <2>1, <1>9
    <3> HIDE DEF i
    <3>2. SubSeq(bytes, i, i + 2) = <<bytes[i], bytes[i + 1], bytes[i + 2]>>
      BY <3>1, SubSeqOfThree
    <3> QED
      BY <3>2 DEF i
  <2>3. found[a] = <<Stream[pos[a]], Stream[pos[a] + 1], Stream[pos[a] + 2]>>
    BY <2>1, <2>2, <1>6, <1>9
  <2>4. ~High(bytes[pos[a]]) /\ High(bytes[pos[a] + 1]) /\ High(bytes[pos[a] + 2])
    BY <1>6 DEF Framed
  <2>5. /\ bytes[pos[a]] = Stream[pos[a]] /\ bytes[pos[a] + 1] = Stream[pos[a] + 1]
        /\ bytes[pos[a] + 2] = Stream[pos[a] + 2]
    BY <2>1, <1>9
  <2>6. Genuine(<<Stream[pos[a]], Stream[pos[a] + 1], Stream[pos[a] + 2]>>, gone)
    <3>1. /\ ~High(Stream[pos[a]]) /\ High(Stream[pos[a] + 1]) /\ High(Stream[pos[a] + 2])
          /\ pos[a] \in 1..Len(Stream) /\ pos[a] + 2 \in 1..Len(Stream)
      BY <2>1, <2>4, <2>5 DEF l
    <3> QED
      BY <3>1, FramedGenuine
  <2> QED
    BY <2>1, <2>3, <2>6
<1>14. \A i, j \in 1..l : i < j => Place(Stream[i]) < Place(Stream[j])
  BY DEF LineInv, InOrder, l
<1>15. \A i \in 1..l : Place(Stream[i]) < sent + 4
  BY DEF LineInv, InOrder, Arrived, l
<1>16. \A i \in 1..(m - e) : e + i \in 1..l /\ Stream'[i] \in Bytes
  <2> TAKE i \in 1..(m - e)
  <2>1. n \in 0..l /\ m \in 0..l /\ e \in 0..n /\ Stream'[i] = Stream[e + i]
    BY <1>9
  <2>2. e + i \in 1..l
    BY <2>1, <1>10
  <2> QED
    BY <2>1, <2>2, <1>10
<1>23. e \in Int /\ m \in Int
  BY <1>9, <1>10
<1>17. gone \subseteq gone'
  BY <1>9
<1>18. \A hh : Genuine(hh, gone) => Genuine(hh, gone')
  <2>1. ASSUME NEW hh, Genuine(hh, gone) PROVE Genuine(hh, gone')
    <3>1. CASE \E p \in 1..NumPackets : hh = Whole(p)
      BY <3>1 DEF Genuine
    <3>2. CASE \E d, c \in Between(hh[1], hh[3]) \cap gone : d # c
      BY <3>2, <1>17 DEF Genuine
    <3> QED
      BY <2>1, <3>1, <3>2 DEF Genuine
  <2> QED
    BY <2>1
<1>19. InOrder'
  <2>1. ASSUME NEW i \in 1..(m - e), NEW j \in 1..(m - e), i < j
        PROVE  Place(Stream'[i]) < Place(Stream'[j])
    <3>1. e + i \in 1..l /\ e + j \in 1..l /\ e + i < e + j
      <4>1. m - e \in Int /\ i \in Int /\ j \in Int
        BY <1>23
      <4>2. e + i < e + j
        BY <4>1, <2>1, <1>23
      <4> QED
        BY <4>2, <1>16
    <3> QED
      BY <3>1, <1>9, <1>14
  <2>2. \A i \in 1..(m - e) : Place(Stream'[i]) < sent + 4
    BY <1>9, <1>15, <1>16
  <2> QED
    BY <2>1, <2>2, <1>9 DEF InOrder, Arrived, Place
<1>20. Contiguous'
  <2>1. ASSUME NEW i \in 1..(m - e), NEW d \in Bytes, Place(Stream'[i]) < Place(d), Place(d) < sent + 4
        PROVE  d \in gone' \/ \E j \in 1..(m - e) : Stream'[j] = d
    <3>1. e + i \in 1..l /\ Stream'[i] = Stream[e + i]
      BY <1>9, <1>16
    <3>2. d \in gone \/ \E j \in 1..l : Stream[j] = d
      BY <3>1, <2>1 DEF LineInv, Contiguous, Arrived, l
    <3>3. CASE d \in gone
      BY <3>3, <1>17
    <3>4. ASSUME NEW j \in 1..l, Stream[j] = d PROVE d \in gone' \/ \E k \in 1..(m - e) : Stream'[k] = d
      <4>1. j > e + i
        <5>1. Place(Stream[e + i]) < Place(Stream[j]) /\ Place(Stream[e + i]) \in Nat /\ Place(Stream[j]) \in Nat
          BY <3>1, <3>4, <2>1, <1>10, <1>11
        <5>2. j # e + i
          BY <5>1
        <5>3. ~(j < e + i)
          BY <5>1, <3>1, <1>14
        <5> QED
          BY <5>2, <5>3, <1>9, <1>10
      <4>2. CASE j > m
        BY <4>2, <3>4, <1>9, <1>10
      <4>3. CASE j <= m
        <5>1. j - e \in 1..(m - e) /\ e + (j - e) = j
          BY <4>1, <4>3, <1>9, <1>10
        <5> QED
          BY <5>1, <3>4, <1>9
      <4> QED
        BY <4>2, <4>3, <1>9, <1>10
    <3> QED
      BY <3>2, <3>3, <3>4
  <2> QED
    BY <2>1, <1>9 DEF Contiguous, Arrived, Place
<1>21. Passed'
  <2>1. ASSUME NEW a \in 1..h
        PROVE  /\ Genuine(handled[a], gone) /\ Place(handled[a][3]) < sent + 4
               /\ handled[a][1] \in Bytes /\ handled[a][3] \in Bytes
               /\ \A i \in 1..l : Place(handled[a][3]) < Place(Stream[i])
               /\ \A b \in 1..h : a < b => Place(handled[a][3]) < Place(handled[b][1])
    BY DEF LineInv, Passed, Arrived, h, l
  <2>2. ASSUME NEW a \in 1..f
        PROVE  /\ found[a][1] = Stream[pos[a]] /\ found[a][3] = Stream[pos[a] + 2]
               /\ found[a][1] \in Bytes /\ found[a][3] \in Bytes
    <3> DEFINE x == Stream[pos[a]]
               y == Stream[pos[a] + 1]
               z == Stream[pos[a] + 2]
    <3>1. found[a] = <<x, y, z>> /\ x \in Bytes /\ z \in Bytes
      BY <1>10, <1>13
    <3> HIDE DEF x, y, z
    <3>2. found[a][1] = x /\ found[a][3] = z /\ x \in Bytes /\ z \in Bytes
      BY <3>1
    <3> QED
      BY <3>2 DEF x, z
  <2>3. \A a \in 1..(h + f) : a \in 1..h \/ (a - h \in 1..f /\ handled'[a] = found[a - h])
    <3> TAKE a \in 1..(h + f)
    <3>1. a \in 1..h \/ (a - h \in 1..f /\ h + (a - h) = a)
      BY <1>4, <1>12
    <3> QED
      BY <3>1, <1>12
  <2>4. ASSUME NEW a \in 1..f, NEW i \in 1..l, i >= pos[a] + 3
        PROVE  Place(found[a][3]) < Place(Stream[i])
    <3>1. pos[a] + 2 \in 1..l /\ pos[a] + 2 < i
      BY <2>4, <1>5, <1>10, <1>13
    <3> QED
      BY <3>1, <2>2, <1>14
  <2>5. ASSUME NEW a \in 1..(h + f)
        PROVE  /\ Genuine(handled'[a], gone)
               /\ handled'[a][1] \in Bytes /\ handled'[a][3] \in Bytes
               /\ Place(handled'[a][3]) < sent + 4
    <3>1. CASE a \in 1..h
      BY <3>1, <2>1, <1>12
    <3>2. CASE a - h \in 1..f /\ handled'[a] = found[a - h]
      <4> DEFINE b == a - h
      <4>1. b \in 1..f /\ handled'[a] = found[b]
        BY <3>2
      <4> HIDE DEF b
      <4>2. Genuine(found[b], gone) /\ pos[b] + 2 \in 1..l
        BY <4>1, <1>13
      <4>3. Place(found[b][3]) < sent + 4
        BY <4>1, <4>2, <2>2, <1>15
      <4> QED
        BY <4>1, <4>2, <4>3, <2>2
    <3> QED
      BY <2>3, <3>1, <3>2
  <2>6. ASSUME NEW a \in 1..(h + f), NEW i \in 1..(m - e)
        PROVE  Place(handled'[a][3]) < Place(Stream'[i])
    <3>0. e + i \in 1..l /\ Stream'[i] = Stream[e + i] /\ e + i > e
      BY <1>9, <1>16, <1>23
    <3>1. CASE a \in 1..h
      BY <3>0, <3>1, <2>1, <1>12
    <3>2. CASE a - h \in 1..f /\ handled'[a] = found[a - h]
      <4>1. e + i >= pos[a - h] + 3
        <5>1. pos[a - h] \in 1..l /\ pos[a - h] + 2 <= e
          BY <3>2, <1>13
        <5> QED
          BY <3>0, <5>1, <1>10, <1>23
      <4> QED
        BY <3>0, <3>2, <4>1, <2>4
    <3> QED
      BY <2>3, <3>1, <3>2
  <2>7. ASSUME NEW a \in 1..(h + f), NEW b \in 1..(h + f), a < b
        PROVE  Place(handled'[a][3]) < Place(handled'[b][1])
    <3>1. CASE b \in 1..h
      <4>1. a \in 1..h
        BY <3>1, <2>7, <1>4, <1>12
      <4> QED
        BY <3>1, <4>1, <2>1, <2>7, <1>12
    <3>2. CASE b - h \in 1..f /\ handled'[b] = found[b - h]
      <4>1. pos[b - h] \in 1..l /\ handled'[b][1] = Stream[pos[b - h]]
        BY <3>2, <2>2, <1>13
      <4>2. CASE a \in 1..h
        BY <4>1, <4>2, <2>1, <1>12
      <4>3. CASE a - h \in 1..f /\ handled'[a] = found[a - h]
        <5>1. a - h < b - h
          BY <2>7, <1>4, <1>12
        <5>2. pos[b - h] >= pos[a - h] + 3
          BY <5>1, <3>2, <4>3, <1>6, <1>5
        <5> QED
          BY <5>2, <4>1, <4>3, <2>4
      <4> QED
        BY <2>3, <4>2, <4>3
    <3> QED
      BY <2>3, <3>1, <3>2
  <2>8. \A a \in 1..(h + f) : Genuine(handled'[a], gone')
    BY <2>5, <1>18
  <2> HIDE DEF h
  <2> QED
    BY <2>5, <2>6, <2>7, <2>8, <1>9, <1>12 DEF Passed, Arrived, Place
<1>22. Kept'
  <2>1. ASSUME NEW p \in 1..NumPackets, Place(Byte(p, 1)) < sent + 4,
               \A k \in 1..3 : Byte(p, k) \notin gone'
        PROVE  \/ \E a \in 1..(h + f) : handled'[a] = Whole(p)
               \/ \E i \in 1..(m - e) : Stream'[i] = Byte(p, 1)
    <3>1. \A k \in 1..3 : Byte(p, k) \notin gone
      BY <2>1, <1>17
    <3>2. \/ \E a \in 1..h : handled[a] = Whole(p)
          \/ \E i \in 1..l : Stream[i] = Byte(p, 1)
      BY <3>1, <2>1 DEF LineInv, Kept, Arrived, h, l
    <3>3. CASE \E a \in 1..h : handled[a] = Whole(p)
      <4>1. \A a \in 1..h : a \in 1..(h + f)
        BY <1>4, <1>12
      <4> QED
        BY <3>3, <4>1, <1>12
    <3>4. ASSUME NEW i \in 1..l, Stream[i] = Byte(p, 1)
          PROVE  \/ \E a \in 1..(h + f) : handled'[a] = Whole(p)
                 \/ \E j \in 1..(m - e) : Stream'[j] = Byte(p, 1)
      <4>1. i <= m
        <5>1. CASE i > m
          <6>1. Byte(p, 1) \in gone'
            BY <5>1, <3>4, <1>9, <1>10, <1>23
          <6> QED
            BY <6>1, <2>1
        <5> QED
          BY <5>1, <1>10, <1>23
      <4>2. CASE i > e
        <5>1. i - e \in 1..(m - e) /\ e + (i - e) = i
          BY <4>1, <4>2, <1>10, <1>23
        <5> QED
          BY <5>1, <3>4, <1>9
      <4>3. CASE i <= e
        <5>1. i \in 1..n /\ bytes[i] = Byte(p, 1) /\ n \in Int
          <6>1. n \in 0..l /\ e \in 0..n
            BY <1>9
          <6>2. i \in 1..n /\ n \in Int
            BY <6>1, <4>3, <1>10
          <6> QED
            BY <6>2, <3>4, <1>9
        <5>2. ~High(bytes[i])
          BY <5>1, BytePlaces
        <5>3. i \in 1..(n - 2)
          <6>1. ~(i >= n - 1)
            BY <5>1, <5>2, <1>8, <4>3, <1>23
          <6> QED
            BY <6>1, <5>1
        <5>4. /\ i + 1 \in 1..n /\ i + 2 \in 1..n /\ i + 1 \in 1..l /\ i + 2 \in 1..l
              /\ bytes[i + 1] = Stream[i + 1] /\ bytes[i + 2] = Stream[i + 2]
          <6>1. n \in 0..l
            BY <1>9
          <6>2. i + 1 \in 1..n /\ i + 2 \in 1..n /\ i + 1 \in 1..l /\ i + 2 \in 1..l
            BY <6>1, <5>3, <1>10
          <6> QED
            BY <6>2, <1>9
        <5>5. Stream[i + 1] = Byte(p, 2) /\ Stream[i + 2] = Byte(p, 3)
          BY <3>1, <3>4, <5>4, NextBytes DEF l
        <5>6. Framed(bytes, i)
          <6>1. High(bytes[i + 1]) /\ High(bytes[i + 2])
            BY <5>4, <5>5, BytePlaces
          <6> QED
            BY <6>1, <5>2 DEF Framed
        <5>7. PICK a \in 1..f : pos[a] = i
          BY <5>3, <5>6, <1>7
        <5>8. found[a] = Whole(p)
          BY <5>7, <5>5, <3>4, <1>13 DEF Whole
        <5>9. h + a \in 1..(h + f) /\ handled'[h + a] = found[a]
          <6>1. a \in 1..f /\ f \in Nat /\ h \in Nat
            BY <1>4, <1>12
          <6>2. h + a \in 1..(h + f)
            BY <6>1
          <6> QED
            BY <6>1, <6>2, <1>12
        <5> QED
          BY <5>8, <5>9
      <4> QED
        BY <4>2, <4>3, <1>10, <1>23
    <3> QED
      BY <3>2, <3>3, <3>4
  <2> QED
    BY <2>1, <1>9, <1>12 DEF Kept, Arrived, Place, Byte, Whole
<1> QED
  BY <1>9, <1>19, <1>20, <1>21, <1>22 DEF LineInv

(* At all times what was saved, the ring and the flip buffer hold what is   *)
(* left of the packets sent, in order and less only what the line lost, and *)
(* nothing whole is passed over by tuxctl_ldisc_rcv_buf's callback.         *)
THEOREM LineInvariance == SpecLine => []LineInv
<1>1. InitLine => LineInv
  BY LineInit
<1>2. LineInv /\ [NextLine]_line => LineInv'
  <2> SUFFICES ASSUME LineInv, [NextLine]_line PROVE LineInv'
    OBVIOUS
  <2>1. CASE \/ Put \/ ReadRoom \/ Take \/ Write \/ Drain \/ WriteWakeup \/ UNCHANGED line
    <3>1. UNCHANGED rcv
      BY <2>1 DEF Put, ReadRoom, Take, Write, Drain, WriteWakeup, line
    <3> QED
      BY <3>1, SameLine
  <2>2. CASE Arrive
    BY <2>2, ArriveKeeps
  <2>3. CASE Receive
    BY <2>3, ReceiveKeeps
  <2> QED
    BY <2>1, <2>2, <2>3 DEF NextLine
<1> QED
  BY <1>1, <1>2, PTL DEF SpecLine

(* The packets that were handled are the elements of a sequence.            *)
LEMMA HandledElements ==
  ASSUME LineInv
  PROVE  /\ Len(handled) \in Nat /\ DOMAIN handled = 1..Len(handled)
         /\ ToSet(handled) = {handled[a] : a \in 1..Len(handled)}
<1>1. handled \in Seq(Seq(Bytes))
  BY DEF LineInv, LineTypes
<1> QED
  BY <1>1 DEF ToSet

LEMMA BytesFinite == IsFiniteSet(Bytes)
<1>1. IsFiniteSet(1..NumPackets) /\ IsFiniteSet(1..3)
  <2>1. NumPackets \in Int /\ 1 \in Int /\ 3 \in Int
    BY TuxLineAssumption
  <2>2. \A a, b \in Int : IsFiniteSet(a..b)
    BY FS_Interval
  <2> QED
    BY <2>1, <2>2
<1>2. IsFiniteSet((1..NumPackets) \X (1..3))
  BY <1>1, FS_Product
<1>3. Bytes = (1..NumPackets) \X (1..3)
  BY DEF Bytes, Byte
<1> QED
  BY <1>2, <1>3

(* Packets are handled in the order they were sent and none twice, for any  *)
(* number of packets, any room, and whatever is lost on the line or for     *)
(* want of room in the ring.                                                *)
THEOREM PacketsInOrder == SpecLine => []HandledInOrder
<1>1. LineInv => HandledInOrder
  BY HandledElements DEF LineInv, Passed, HandledInOrder
<1> QED
  BY <1>1, LineInvariance, PTL

(* Bytes of two packets are taken for one only when at least two bytes      *)
(* between them were lost.                                                  *)
THEOREM LossIsDetected == SpecLine => []LossDetected
<1>1. ASSUME LineInv PROVE LossDetected
  <2>1. ASSUME NEW h \in ToSet(handled)
        PROVE  \/ \E p \in 1..NumPackets : h = Whole(p)
               \/ Cardinality(Between(h[1], h[3]) \cap gone) >= 2
    <3>1. PICK a \in 1..Len(handled) : h = handled[a]
      BY <1>1, <2>1, HandledElements
    <3>2. Genuine(h, gone)
      BY <1>1, <3>1 DEF LineInv, Passed
    <3>3. CASE \E d, e \in Between(h[1], h[3]) \cap gone : d # e
      <4> DEFINE S == Between(h[1], h[3]) \cap gone
      <4>1. IsFiniteSet(S) /\ Cardinality(S) \in Nat
        <5>1. IsFiniteSet(Bytes)
          BY BytesFinite
        <5>2. S \subseteq Bytes
          BY DEF Between
        <5> QED
          BY <5>1, <5>2, FS_Subset, FS_CardinalityType
      <4>2. PICK d, e \in S : d # e
        BY <3>3
      <4> HIDE DEF S
      <4>3. IsFiniteSet({d, e}) /\ Cardinality({d, e}) = 2
        <5>1. IsFiniteSet({e}) /\ Cardinality({e}) = 1
          BY FS_Singleton
        <5>2. IsFiniteSet({e} \cup {d}) /\ Cardinality({e} \cup {d}) = Cardinality({e}) + 1
          BY <5>1, <4>2, FS_AddElement
        <5>3. {e} \cup {d} = {d, e}
          OBVIOUS
        <5>4. IsFiniteSet({d, e}) /\ Cardinality({d, e}) = Cardinality({e}) + 1
          BY <5>2, <5>3, Zenon
        <5> QED
          BY <5>1, <5>4
      <4>4. Cardinality({d, e}) <= Cardinality(S)
        BY <4>1, <4>2, FS_Subset
      <4>5. Cardinality(S) >= 2
        BY <4>1, <4>3, <4>4
      <4> QED
        BY <4>5 DEF S
    <3> QED
      BY <3>2, <3>3 DEF Genuine
  <2> QED
    BY <2>1 DEF LossDetected
<1> QED
  BY <1>1, LineInvariance, PTL

(* A packet all of whose bytes arrived and left the buffers was handled,    *)
(* however the interrupts cut it up and whatever was lost around it.        *)
THEOREM PacketsHandled == SpecLine => []WholeHandled
<1>1. ASSUME LineInv PROVE WholeHandled
  <2>1. ASSUME NEW p \in 1..(sent \div 3), ToSet(Whole(p)) \cap (gone \cup Pending) = {}
        PROVE  Whole(p) \in ToSet(handled)
    <3>1. sent \in 0..(3 * NumPackets) /\ NumPackets \in Nat /\ LineTypes
      BY <1>1, TuxLineAssumption DEF LineInv, LineTypes
    <3>2. p \in 1..NumPackets /\ 3 * p + 1 < sent + 4
      <4>1. PICK q \in Nat, r \in 0..2 : sent = 3 * q + r /\ sent \div 3 = q
        BY <3>1
      <4> QED
        BY <4>1, <3>1, <2>1
    <3>3. \A k \in 1..3 : Byte(p, k) \in ToSet(Whole(p))
      BY DEF Whole, ToSet
    <3>4. \A k \in 1..3 : Byte(p, k) \notin gone
      BY <2>1, <3>3
    <3>5. Arrived(Byte(p, 1))
      BY <3>2, BytePlaces DEF Arrived
    <3>6. \/ \E a \in 1..Len(handled) : handled[a] = Whole(p)
          \/ \E i \in 1..Len(Stream) : Stream[i] = Byte(p, 1)
      BY <1>1, <3>2, <3>4, <3>5 DEF LineInv, Kept
    <3>7. ASSUME NEW i \in 1..Len(Stream) PROVE Stream[i] \in Pending
      <4>1. /\ saved \in Seq(Bytes) /\ rx \in Seq(Bytes) /\ flip \in Seq(Bytes)
            /\ DOMAIN saved = 1..Len(saved) /\ DOMAIN rx = 1..Len(rx) /\ DOMAIN flip = 1..Len(flip)
        BY <3>1 DEF LineTypes
      <4>2. \/ i \in 1..Len(saved)
            \/ i - Len(saved) \in 1..Len(rx) /\ Len(saved) + (i - Len(saved)) = i
            \/ /\ i - (Len(saved) + Len(rx)) \in 1..Len(flip)
               /\ Len(saved) + Len(rx) + (i - (Len(saved) + Len(rx))) = i
        <5>1. /\ Len(Stream) = Len(saved) + Len(rx) + Len(flip)
              /\ Len(saved) \in Nat /\ Len(rx) \in Nat /\ Len(flip) \in Nat
          BY <3>1, StreamType
        <5> QED
          BY <5>1
      <4>3. \/ \E j \in 1..Len(saved) : Stream[i] = saved[j]
            \/ \E j \in 1..Len(rx) : Stream[i] = rx[j]
            \/ \E j \in 1..Len(flip) : Stream[i] = flip[j]
        BY <4>2, <3>1, StreamType
      <4> QED
        BY <4>1, <4>3 DEF Pending, ToSet
    <3>8. Byte(p, 1) \notin Pending
      BY <2>1, <3>3
    <3> QED
      BY <1>1, <3>6, <3>7, <3>8, HandledElements
  <2> QED
    BY <2>1 DEF WholeHandled
<1> QED
  BY <1>1, LineInvariance, PTL

----------------------------------------------------------------------------
(* Transmission of the line discipline.                                     *)

(* The bytes of a command.                                                  *)
Cmd(id) == [k \in 1..Size |-> Byte(id, k)]
CommandBytes == Nat \X (1..Size)

(* In s every command that was begun goes on to its end, and no byte is     *)
(* there twice.                                                             *)
Sound(s) ==
  /\ s \in Seq(CommandBytes)
  /\ \A i \in 1..Len(s) : s[i][2] < Size => i < Len(s) /\ s[i + 1] = Byte(s[i][1], s[i][2] + 1)
  /\ \A i, j \in 1..Len(s) : s[i] = s[j] => i = j

(* Command id has begun in s, or no byte of it is there.                    *)
Begun(s, id) == \E i \in 1..Len(s) : s[i] = Byte(id, 1)

Without(s, id) == \A i \in 1..Len(s) : s[i][1] # id

LEMMA CmdIs ==
  ASSUME NEW id \in Nat
  PROVE  /\ Size \in Nat /\ Size > 0
         /\ Cmd(id) \in Seq(CommandBytes) /\ Len(Cmd(id)) = Size /\ Cmd(id) # <<>>
         /\ \A k \in 1..Size : Cmd(id)[k] = Byte(id, k)
<1>1. Size \in Nat /\ Size > 0
  BY TuxLineAssumption
<1>2. \A k \in 1..Size : Byte(id, k) \in CommandBytes
  BY DEF Byte, CommandBytes
<1>3. Cmd(id) \in [1..Size -> CommandBytes]
  BY <1>2 DEF Cmd
<1>4. Cmd(id) \in Seq(CommandBytes) /\ Len(Cmd(id)) = Size
  BY <1>1, <1>3
<1>5. Cmd(id) # <<>>
  BY <1>1, <1>4
<1> QED
  BY <1>1, <1>4, <1>5 DEF Cmd

LEMMA BytePair ==
  ASSUME NEW id, NEW k PROVE Byte(id, k)[1] = id /\ Byte(id, k)[2] = k
BY DEF Byte

(* A command that is not in s can be appended whole.                        *)
LEMMA CommandAppended ==
  ASSUME NEW s, Sound(s), NEW id \in Nat, Without(s, id)
  PROVE  /\ Sound(s \o Cmd(id))
         /\ \A i \in 1..Len(s \o Cmd(id)) :
              (s \o Cmd(id))[i][1] = id \/ \E j \in 1..Len(s) : (s \o Cmd(id))[i] = s[j]
         /\ Begun(s \o Cmd(id), id)
         /\ \A d \in Nat : Begun(s, d) => Begun(s \o Cmd(id), d)
<1> DEFINE c == Cmd(id)
           t == s \o c
<1>1. /\ s \in Seq(CommandBytes) /\ Len(s) \in Nat
      /\ \A i \in 1..Len(s) : s[i] \in CommandBytes
  BY DEF Sound
<1>2. /\ Size \in Nat /\ Size > 0 /\ c \in Seq(CommandBytes) /\ Len(c) = Size
      /\ \A k \in 1..Size : c[k] = Byte(id, k)
  BY CmdIs
<1> HIDE DEF c
<1>3. /\ t \in Seq(CommandBytes) /\ Len(t) = Len(s) + Size
      /\ \A i \in 1..Len(s) : t[i] = s[i]
      /\ \A k \in 1..Size : t[Len(s) + k] = Byte(id, k)
  <2>1. /\ s \o c \in Seq(CommandBytes) /\ Len(s \o c) = Len(s) + Len(c)
        /\ \A i \in 1..Len(s) : (s \o c)[i] = s[i]
        /\ \A i \in 1..Len(c) : (s \o c)[Len(s) + i] = c[i]
    <3>1. s \in Seq(CommandBytes) /\ c \in Seq(CommandBytes)
      BY <1>1, <1>2
    <3> QED
      BY <3>1, Joined
  <2> QED
    BY <1>2, <2>1 DEF t
<1> HIDE DEF t
<1>4. ASSUME NEW i \in 1..Len(t)
      PROVE  \/ i \in 1..Len(s) /\ t[i] = s[i]
             \/ i - Len(s) \in 1..Size /\ t[i] = Byte(id, i - Len(s))
  <2>1. CASE i <= Len(s)
    BY <2>1, <1>1, <1>3
  <2>2. CASE i > Len(s)
    <3>1. i - Len(s) \in 1..Size /\ Len(s) + (i - Len(s)) = i
      BY <2>2, <1>1, <1>2, <1>3
    <3> QED
      BY <3>1, <1>3
  <2> QED
    BY <2>1, <2>2, <1>1
<1>5. ASSUME NEW i \in 1..Len(t), t[i][2] < Size
      PROVE  i < Len(t) /\ t[i + 1] = Byte(t[i][1], t[i][2] + 1)
  <2>1. CASE i \in 1..Len(s) /\ t[i] = s[i]
    <3>1. i < Len(s) /\ s[i + 1] = Byte(s[i][1], s[i][2] + 1)
      BY <1>5, <2>1 DEF Sound
    <3>2. i + 1 \in 1..Len(s) /\ i < Len(t)
      BY <1>1, <1>2, <1>3, <2>1, <3>1
    <3> QED
      BY <1>3, <2>1, <3>1, <3>2
  <2>2. CASE i - Len(s) \in 1..Size /\ t[i] = Byte(id, i - Len(s))
    <3>1. t[i][1] = id /\ t[i][2] = i - Len(s)
      BY <2>2, BytePair
    <3>2. i - Len(s) + 1 \in 1..Size /\ Len(s) + (i - Len(s) + 1) = i + 1
      BY <1>1, <1>2, <1>3, <1>5, <2>2, <3>1
    <3>3. i < Len(t)
      BY <1>1, <1>2, <1>3, <3>2
    <3> QED
      BY <1>3, <3>1, <3>2, <3>3
  <2> QED
    BY <1>4, <2>1, <2>2
<1>6. ASSUME NEW i \in 1..Len(t), NEW j \in 1..Len(t), t[i] = t[j] PROVE i = j
  <2>1. CASE i \in 1..Len(s) /\ t[i] = s[i] /\ j \in 1..Len(s) /\ t[j] = s[j]
    BY <1>6, <2>1 DEF Sound
  <2>2. CASE i - Len(s) \in 1..Size /\ t[i] = Byte(id, i - Len(s))
             /\ j - Len(s) \in 1..Size /\ t[j] = Byte(id, j - Len(s))
    <3>1. i - Len(s) = j - Len(s)
      <4>1. Byte(id, i - Len(s)) = Byte(id, j - Len(s))
        BY <1>6, <2>2
      <4> QED
        BY <4>1, BytePair
    <3> QED
      BY <1>1, <1>3, <3>1
  <2>3. CASE i \in 1..Len(s) /\ t[i] = s[i] /\ t[j] = Byte(id, j - Len(s))
    <3>1. s[i][1] # id /\ s[i] = Byte(id, j - Len(s))
      BY <1>6, <2>3 DEF Without
    <3> QED
      BY <3>1, BytePair
  <2>4. CASE j \in 1..Len(s) /\ t[j] = s[j] /\ t[i] = Byte(id, i - Len(s))
    <3>1. s[j][1] # id /\ s[j] = Byte(id, i - Len(s))
      BY <1>6, <2>4 DEF Without
    <3> QED
      BY <3>1, BytePair
  <2> QED
    BY <1>4, <2>1, <2>2, <2>3, <2>4
<1>7. Sound(t)
  BY <1>3, <1>5, <1>6 DEF Sound
<1>8. ASSUME NEW i \in 1..Len(t) PROVE t[i][1] = id \/ \E j \in 1..Len(s) : t[i] = s[j]
  BY <1>4, BytePair
<1>9. Begun(t, id)
  <2>1. Len(s) + 1 \in 1..Len(t) /\ 1 \in 1..Size
    BY <1>1, <1>2, <1>3
  <2> QED
    BY <1>3, <2>1 DEF Begun
<1>10. ASSUME NEW d \in Nat, Begun(s, d) PROVE Begun(t, d)
  <2>1. PICK i \in 1..Len(s) : s[i] = Byte(d, 1)
    BY <1>10 DEF Begun
  <2>2. i \in 1..Len(t)
    BY <1>1, <1>2, <1>3
  <2> QED
    BY <1>3, <2>1, <2>2 DEF Begun
<1> QED
  BY <1>7, <1>8, <1>9, <1>10 DEF t, c

(* The serial driver has room for a command.                                *)
HasRoom == Room >= Size

(* Bytes that wait: none, or the whole of command id.                       *)
Part(s, id) == s = <<>> \/ (id > 0 /\ s = Cmd(id))

(* Of the commands 1..c of calls all but the last have been given to the    *)
(* driver, and it waits in t or in b if it has not; of the commands that    *)
(* answer packets those up to top may have been given.                      *)
Delivered(t, b, o, top, c) ==
  /\ Part(t, c) /\ Part(b, c) /\ (t = <<>> \/ b = <<>>)
  /\ Sound(o)
  /\ \A i \in 1..Len(o) : o[i][1] \in 1..c \/ o[i][1] \in (NumCommands + 1)..top
  /\ t # <<>> \/ b # <<>> => Without(o, c)
  /\ \A d \in 1..c : Begun(o, d) \/ (d = c /\ (t # <<>> \/ b # <<>>))

(* Room for all of s takes all of it.                                       *)
LEMMA FirstAll ==
  ASSUME NEW S, NEW s \in Seq(S), NEW n \in Int, n >= Len(s)
  PROVE  First(s, n) = s /\ Rest(s, n) = <<>>
<1>1. n \in Nat /\ Len(s) \in Nat /\ Smaller(n, Len(s)) = Len(s)
  <2>1. Len(s) \in Nat
    OBVIOUS
  <2> QED
    BY <2>1 DEF Smaller
<1>2. /\ First(s, n) \in Seq(S) /\ Len(First(s, n)) = Len(s)
      /\ \A i \in 1..Len(s) : First(s, n)[i] = s[i]
      /\ Rest(s, n) \in Seq(S) /\ Len(Rest(s, n)) = Len(s) - Len(s)
  BY <1>1, FirstRest
<1>3. First(s, n) = s
  BY <1>2, SeqEqual
<1>4. Len(Rest(s, n)) = 0
  BY <1>1, <1>2
<1> QED
  BY <1>2, <1>3, <1>4, EmptySeq

(* Bytes that wait may be given to the driver.                              *)
LEMMA FlushDelivers ==
  ASSUME NEW t, NEW b, NEW o, NEW top \in Nat, NEW c \in Nat, c <= NumCommands,
         Delivered(t, b, o, top, c)
  PROVE  Delivered(<<>>, b, o \o t, top, c)
<1>1. o \in Seq(CommandBytes)
  BY DEF Delivered, Sound
<1>2. CASE t = <<>>
  <2>1. o \o t = o
    BY <1>1, <1>2, ConcatEmptySeq
  <2> QED
    BY <1>2, <2>1
<1>3. CASE t # <<>>
  <2>1. c > 0 /\ t = Cmd(c) /\ b = <<>> /\ Without(o, c) /\ Sound(o)
    BY <1>3 DEF Delivered, Part
  <2> DEFINE q == o \o Cmd(c)
  <2>2. /\ Sound(q) /\ Begun(q, c)
        /\ \A i \in 1..Len(q) : q[i][1] = c \/ \E j \in 1..Len(o) : q[i] = o[j]
        /\ \A d \in Nat : Begun(o, d) => Begun(q, d)
    BY ONLY <2>1, c \in Nat, CommandAppended
  <2> HIDE DEF q
  <2>3. \A i \in 1..Len(q) : q[i][1] \in 1..c \/ q[i][1] \in (NumCommands + 1)..top
    <3>1. \A i \in 1..Len(o) : o[i][1] \in 1..c \/ o[i][1] \in (NumCommands + 1)..top
      BY DEF Delivered
    <3>2. c \in 1..c
      BY <2>1
    <3> QED
      BY <2>2, <3>1, <3>2
  <2>4. \A d \in 1..c : Begun(q, d)
    BY <2>2 DEF Delivered
  <2>5. Delivered(<<>>, b, q, top, c)
    BY <2>1, <2>2, <2>3, <2>4 DEF Delivered, Part
  <2> QED
    BY <2>1, <2>5 DEF q
<1> QED
  BY <1>2, <1>3

LEMMA Symmetric ==
  ASSUME NEW t, NEW b, NEW o, NEW top, NEW c, Delivered(t, b, o, top, c)
  PROVE  Delivered(b, t, o, top, c)
BY DEF Delivered

LEMMA Later ==
  ASSUME NEW t, NEW b, NEW o, NEW top \in Int, NEW new \in Int, top <= new, NEW c,
         Delivered(t, b, o, top, c)
  PROVE  Delivered(t, b, o, new, c)
<1>1. NumCommands \in Nat
  BY TuxLineAssumption
<1>2. \A d \in (NumCommands + 1)..top : d \in (NumCommands + 1)..new
  BY <1>1
<1> QED
  BY <1>2 DEF Delivered

(* The command that answers a packet goes out behind the bytes that wait in *)
(* the ring.                                                                *)
LEMMA ReplyDelivers ==
  ASSUME NEW t, NEW b, NEW o, NEW top \in Nat, NEW c \in Nat, c <= NumCommands,
         NEW id \in Nat, id > top, id > NumCommands,
         Delivered(t, b, o, top, c)
  PROVE  Delivered(<<>>, b, o \o (t \o Cmd(id)), id, c)
<1> DEFINE w == Cmd(id)
           u == o \o t
           q == u \o w
<1>1. NumCommands \in Nat
  BY TuxLineAssumption
<1>2. Delivered(<<>>, b, u, top, c)
  BY FlushDelivers
<1>3. o \in Seq(CommandBytes) /\ t \in Seq(CommandBytes) /\ w \in Seq(CommandBytes)
  BY CmdIs, EmptySeq DEF Delivered, Sound, Part
<1>4. o \o (t \o w) = q
  <2> HIDE DEF w
  <2>1. (o \o t) \o w = o \o (t \o w)
    BY ONLY <1>3, ConcatAssociative
  <2> QED
    BY <2>1
<1> HIDE DEF u
<1>5. Sound(u) /\ \A i \in 1..Len(u) : u[i][1] \in 1..c \/ u[i][1] \in (NumCommands + 1)..top
  BY <1>2 DEF Delivered
<1>6. \A d \in 1..c : d # id
  BY <1>1
<1>7. \A d \in (NumCommands + 1)..top : d # id /\ d \in (NumCommands + 1)..id
  BY <1>1
<1>8. Without(u, id)
  BY <1>5, <1>6, <1>7 DEF Without
<1>9. /\ Sound(q)
      /\ \A i \in 1..Len(q) : q[i][1] = id \/ \E j \in 1..Len(u) : q[i] = u[j]
      /\ \A d \in Nat : Begun(u, d) => Begun(q, d)
  BY ONLY <1>5, <1>8, id \in Nat, CommandAppended
<1> HIDE DEF q
<1>10. id \in (NumCommands + 1)..id
  BY <1>1
<1>11. \A i \in 1..Len(q) : q[i][1] \in 1..c \/ q[i][1] \in (NumCommands + 1)..id
  BY <1>5, <1>7, <1>9, <1>10
<1>12. \A d \in 1..c : Begun(q, d) \/ (d = c /\ b # <<>>)
  <2>1. \A d \in 1..c : Begun(u, d) \/ (d = c /\ b # <<>>)
    BY <1>2 DEF Delivered
  <2> QED
    BY <1>9, <2>1
<1>13. b # <<>> => Without(q, c)
  <2>1. b # <<>> => Without(u, c)
    BY <1>2 DEF Delivered
  <2>2. c # id
    BY <1>1
  <2> QED
    BY <1>9, <2>1, <2>2 DEF Without
<1>14. Part(<<>>, c) /\ Part(b, c)
  BY <1>2 DEF Delivered, Part
<1>15. Delivered(<<>>, b, q, id, c)
  BY <1>9, <1>11, <1>12, <1>13, <1>14 DEF Delivered
<1> QED
  BY <1>4, <1>15

(* The driver's room when s.out has been given to it.                       *)
Free(s) == DriverRoom - (Len(s.out) - done)

(* What holds of the rings while the packets of an interrupt are answered.  *)
(* Free(s) only falls, so that there was room for a command if there is any *)
(* at the end.                                                              *)
Good(s, top) ==
  /\ s.tx \in Seq(CommandBytes) /\ s.out \in Seq(CommandBytes)
  /\ Free(s) \in Nat
  /\ Free(s) > 0 => Delivered(s.tx, buf, s.out, top, puts) /\ s.tx \in {<<>>, tx}

(* Send never gives the driver more than it has room for; if it leaves      *)
(* room, it has given all.                                                  *)
LEMMA SendIs ==
  ASSUME done \in Nat, NEW s, s.tx \in Seq(CommandBytes), s.out \in Seq(CommandBytes),
         Free(s) \in Nat, NEW id \in Nat
  PROVE  LET r == Send(s, id)
         IN  /\ r.tx \in Seq(CommandBytes) /\ r.out \in Seq(CommandBytes)
             /\ Free(r) \in Nat /\ Free(r) <= Free(s)
             /\ Free(r) > 0 /\ Len(s.tx) + Size <= RingRoom =>
                  r.tx = <<>> /\ r.out = s.out \o (s.tx \o Cmd(id))
<1> DEFINE w == Cmd(id)
           all == s.tx \o w
           ring == First(all, RingRoom)
           free == Free(s)
           taken == First(ring, free + 1)
           given == First(taken, free)
           r == Send(s, id)
<1>1. w \in Seq(CommandBytes) /\ Len(w) = Size /\ Size \in Nat
  BY CmdIs
<1>2. r.tx = Rest(ring, free + 1) /\ r.out = s.out \o given
  BY DEF Send, Filled, Left, Taken, Free, Cmd
<1>3. RingRoom \in Nat /\ DriverRoom \in Nat
  BY TuxLineAssumption
<1> HIDE DEF w, r
<1>4. all \in Seq(CommandBytes) /\ Len(all) = Len(s.tx) + Size
  <2>1. all \in Seq(CommandBytes) /\ Len(all) = Len(s.tx) + Len(w)
    BY ONLY <1>1, s.tx \in Seq(CommandBytes), ConcatProperties
  <2> QED
    BY <1>1, <2>1
<1> HIDE DEF all, free
<1>5. free \in Nat /\ free + 1 \in Nat
  BY DEF free
<1>6. ring \in Seq(CommandBytes) /\ (Len(all) <= RingRoom => ring = all)
  <2>1. ring \in Seq(CommandBytes)
    BY ONLY <1>3, <1>4, FirstRest
  <2>2. Len(all) <= RingRoom => ring = all
    BY ONLY <1>3, <1>4, FirstAll
  <2> QED
    BY <2>1, <2>2
<1> HIDE DEF ring
<1>7. /\ taken \in Seq(CommandBytes) /\ Len(taken) = Smaller(free + 1, Len(ring))
      /\ Rest(ring, free + 1) \in Seq(CommandBytes)
  BY ONLY <1>5, <1>6, FirstRest
<1>8. Len(ring) <= free + 1 => taken = ring /\ Rest(ring, free + 1) = <<>>
  BY ONLY <1>5, <1>6, FirstAll
<1> HIDE DEF taken
<1>9. given \in Seq(CommandBytes) /\ Len(given) = Smaller(free, Len(taken))
  BY ONLY <1>5, <1>7, FirstRest
<1>10. Len(taken) <= free => given = taken
  BY ONLY <1>5, <1>7, FirstAll
<1> HIDE DEF given
<1>11. Len(ring) \in Nat /\ Len(taken) \in Nat /\ Len(given) \in Nat /\ Len(s.out) \in Nat
  BY <1>6, <1>7, <1>9
<1>12. r.tx \in Seq(CommandBytes)
  BY <1>2, <1>7
<1>13. r.out \in Seq(CommandBytes) /\ Len(r.out) = Len(s.out) + Len(given)
  <2> DEFINE o == s.out
  <2>1. o \in Seq(CommandBytes) /\ r.out = o \o given
    BY <1>2
  <2> HIDE DEF o
  <2>2. r.out \in Seq(CommandBytes) /\ Len(r.out) = Len(o) + Len(given)
    BY ONLY <1>9, <2>1, ConcatProperties
  <2> QED
    BY <2>2 DEF o
<1>14. Free(r) = free - Len(given)
  BY <1>3, <1>11, <1>13 DEF Free, free
<1>15. Len(given) <= free
  BY <1>5, <1>9, <1>11 DEF Smaller
<1>16. Free(r) \in Nat /\ Free(r) <= free
  BY <1>5, <1>11, <1>14, <1>15
<1>17. ASSUME Free(r) > 0, Len(s.tx) + Size <= RingRoom
       PROVE  r.tx = <<>> /\ r.out = s.out \o all
  <2>1. Len(given) < free
    BY <1>17, <1>5, <1>11, <1>14
  <2>2. Len(taken) < free
    BY <2>1, <1>5, <1>9, <1>11 DEF Smaller
  <2>3. Len(ring) < free
    BY <2>2, <1>5, <1>7, <1>11 DEF Smaller
  <2>4. ring = all
    BY <1>4, <1>6, <1>17
  <2>5. taken = ring /\ Rest(ring, free + 1) = <<>>
    BY <1>5, <1>8, <1>11, <2>3
  <2>6. given = taken
    BY <1>10, <1>5, <1>11, <2>2
  <2> QED
    BY <1>2, <2>4, <2>5, <2>6
<1> QED
  BY <1>12, <1>13, <1>16, <1>17 DEF r, free, all, w

LEMMA SendGood ==
  ASSUME RingRoom >= 2 * Size, done \in Nat, puts \in 0..NumCommands, NEW s, NEW top \in Nat,
         Good(s, top), NEW id \in Nat, id > top, id > NumCommands
  PROVE  Good(Send(s, id), id)
<1> DEFINE r == Send(s, id)
<1>1. /\ s.tx \in Seq(CommandBytes) /\ s.out \in Seq(CommandBytes) /\ Free(s) \in Nat
      /\ Free(s) > 0 => Delivered(s.tx, buf, s.out, top, puts)
  BY DEF Good
<1>2. /\ r.tx \in Seq(CommandBytes) /\ r.out \in Seq(CommandBytes)
      /\ Free(r) \in Nat /\ Free(r) <= Free(s)
      /\ Free(r) > 0 /\ Len(s.tx) + Size <= RingRoom =>
           r.tx = <<>> /\ r.out = s.out \o (s.tx \o Cmd(id))
  BY <1>1, SendIs
<1> HIDE DEF r
<1>3. ASSUME Free(r) > 0 PROVE Delivered(r.tx, buf, r.out, id, puts) /\ r.tx = <<>>
  <2>1. Free(s) > 0
    BY <1>1, <1>2, <1>3
  <2>2. Delivered(s.tx, buf, s.out, top, puts)
    BY <1>1, <2>1
  <2>3. Len(s.tx) <= Size /\ Size \in Nat
    <3>1. s.tx = <<>> \/ s.tx = Cmd(puts)
      BY <2>2 DEF Delivered, Part
    <3>2. puts \in Nat /\ Size \in Nat
      BY TuxLineAssumption
    <3>3. Len(Cmd(puts)) = Size /\ Len(<<>>) = 0
      BY <3>2, CmdIs
    <3> QED
      BY <3>1, <3>2, <3>3
  <2>4. Len(s.tx) + Size <= RingRoom
    <3>1. RingRoom \in Nat /\ Len(s.tx) \in Nat
      BY <1>1, TuxLineAssumption
    <3> QED
      BY <3>1, <2>3
  <2>5. r.tx = <<>> /\ r.out = s.out \o (s.tx \o Cmd(id))
    BY <1>2, <1>3, <2>4
  <2>6. puts \in Nat /\ puts <= NumCommands
    BY TuxLineAssumption
  <2>7. Delivered(<<>>, buf, s.out \o (s.tx \o Cmd(id)), id, puts)
    BY <2>2, <2>6, ReplyDelivers
  <2> QED
    BY <2>5, <2>7
<1> QED
  BY <1>2, <1>3 DEF Good, r

LEMMA AnswerGood ==
  ASSUME RingRoom >= 2 * Size, done \in Nat, puts \in 0..NumCommands, NEW s, NEW top \in Nat,
         Good(s, top), NEW packet, packet[1][1] \in Nat,
         NumCommands + 2 * packet[1][1] - 1 > top, packet[1][1] > 0
  PROVE  Good(Answer(s, packet), NumCommands + 2 * packet[1][1])
<1> DEFINE p == packet[1][1]
           a == NumCommands + 2 * p - 1
           b == NumCommands + 2 * p
<1>1. /\ NumCommands \in Nat /\ a \in Nat /\ b \in Nat /\ b > a /\ a > top
      /\ a > NumCommands /\ b > NumCommands /\ b >= top
  BY TuxLineAssumption
<1>2. CASE p \in Resets
  <2>1. Answer(s, packet) = Send(Send(s, a), b)
    BY <1>2 DEF Answer
  <2> HIDE DEF a, b
  <2>2. Good(Send(s, a), a)
    BY <1>1, SendGood
  <2>3. Good(Send(Send(s, a), b), b)
    BY <1>1, <2>2, SendGood
  <2> QED
    BY <2>1, <2>3 DEF b
<1>3. CASE p \notin Resets
  <2>1. Answer(s, packet) = s
    BY <1>3 DEF Answer
  <2> HIDE DEF a, b
  <2>2. Delivered(s.tx, buf, s.out, top, puts) => Delivered(s.tx, buf, s.out, b, puts)
    BY <1>1, Later
  <2>3. Good(s, b)
    BY <2>2 DEF Good
  <2> QED
    BY <2>1, <2>3 DEF b
<1> QED
  BY <1>2, <1>3

(* The recursion of Answered.                                               *)
NextAnswer(packets, g, n) ==
  IF n = 0 THEN [tx |-> tx, out |-> out] ELSE Answer(g[n - 1], packets[n])

Answering(g, packets, m) == g = [n \in 0..m |-> NextAnswer(packets, g, n)]

(* It has a solution.                                                       *)
LEMMA AnsweringExists ==
  ASSUME NEW packets, NEW l \in Nat
  PROVE  \E g : Answering(g, packets, l)
<1> DEFINE Bad == {m \in 0..l : ~\E g : Answering(g, packets, m)}
<1>1. SUFFICES ASSUME Bad # {} PROVE FALSE
  <2>1. l \in 0..l
    OBVIOUS
  <2> QED
    BY <1>1, <2>1
<1>2. PICK m \in Bad : \A k \in Bad : m <= k
  <2>1. Bad \in SUBSET Nat
    OBVIOUS
  <2> QED
    BY <1>1, <2>1, LeastOf
<1>3. m \in 0..l /\ ~\E g : Answering(g, packets, m)
  BY <1>2
<1>4. CASE m = 0
  <2> DEFINE g == [n \in 0..0 |-> [tx |-> tx, out |-> out]]
  <2>1. \A n \in 0..0 : NextAnswer(packets, g, n) = [tx |-> tx, out |-> out]
    BY DEF NextAnswer
  <2>2. Answering(g, packets, 0)
    BY <2>1 DEF Answering
  <2> QED
    BY <1>3, <1>4, <2>2
<1>5. CASE m # 0
  <2>1. m - 1 \in 0..l /\ m - 1 \notin Bad
    BY <1>2, <1>3, <1>5
  <2>2. PICK f : Answering(f, packets, m - 1)
    BY <2>1
  <2>3. \A n \in 0..(m - 1) : f[n] = NextAnswer(packets, f, n)
    BY <2>2 DEF Answering
  <2> DEFINE g == [n \in 0..m |-> IF n = m THEN NextAnswer(packets, f, m) ELSE f[n]]
  <2>4. ASSUME NEW n \in 0..m PROVE g[n] = NextAnswer(packets, g, n)
    <3>1. n # 0 => g[n - 1] = f[n - 1]
      BY <1>3
    <3>2. NextAnswer(packets, g, n) = NextAnswer(packets, f, n)
      <4> HIDE DEF g
      <4> QED
        BY <3>1 DEF NextAnswer
    <3>3. CASE n = m
      BY <3>2, <3>3
    <3>4. CASE n # m
      <4>1. n \in 0..(m - 1) /\ g[n] = f[n]
        BY <3>4, <1>3
      <4> QED
        BY <2>3, <3>2, <4>1
    <3> QED
      BY <3>3, <3>4
  <2>5. Answering(g, packets, m)
    <3>1. g = [n \in 0..m |-> g[n]]
      OBVIOUS
    <3> HIDE DEF g
    <3> QED
      BY <2>4, <3>1, Zenon DEF Answering
  <2> QED
    BY <1>3, <2>5
<1> QED
  BY <1>4, <1>5

(* The highest number of a command that may be out after packets.           *)
Highest(packets, n, top) ==
  IF n = 0 THEN top ELSE NumCommands + 2 * packets[n][1][1]

(* All packets of an interrupt are answered, if their numbers grow.         *)
LEMMA AnsweredGood ==
  ASSUME RingRoom >= 2 * Size, done \in Nat, puts \in 0..NumCommands,
         NEW packets, NEW l \in Nat, Len(packets) = l, NEW top \in Nat,
         Good([tx |-> tx, out |-> out], top),
         \A n \in 1..l : packets[n][1][1] \in Nat /\ packets[n][1][1] > 0,
         \A n \in 1..l : NumCommands + 2 * packets[n][1][1] - 1 > Highest(packets, n - 1, top)
  PROVE  Good(Answered(packets), Highest(packets, l, top))
<1> DEFINE f == CHOOSE g : Answering(g, packets, l)
<1>1. Answering(f, packets, l)
  BY AnsweringExists
<1>2. Answered(packets) = f[l]
  BY DEF Answered, Answering, NextAnswer
<1> HIDE DEF f
<1>3. \A n \in 0..l : f[n] = NextAnswer(packets, f, n)
  BY <1>1 DEF Answering
<1> DEFINE Bad == {n \in 0..l : ~Good(f[n], Highest(packets, n, top))}
<1>4. SUFFICES ASSUME Bad # {} PROVE FALSE
  <2>1. l \in 0..l
    OBVIOUS
  <2>2. Good(f[l], Highest(packets, l, top))
    BY <1>4, <2>1
  <2> QED
    BY <1>2, <2>2
<1>5. PICK m \in Bad : \A k \in Bad : m <= k
  <2>1. Bad \in SUBSET Nat
    OBVIOUS
  <2> QED
    BY <1>4, <2>1, LeastOf
<1>6. m \in 0..l /\ ~Good(f[m], Highest(packets, m, top))
  BY <1>5
<1>7. CASE m = 0
  <2>1. f[0] = [tx |-> tx, out |-> out] /\ Highest(packets, 0, top) = top
    BY <1>3, <1>6, <1>7 DEF NextAnswer, Highest
  <2> QED
    BY <1>6, <1>7, <2>1
<1>8. CASE m # 0
  <2>1. m - 1 \in 0..l /\ m - 1 \notin Bad /\ m \in 1..l
    BY <1>5, <1>6, <1>8
  <2> DEFINE h == Highest(packets, m - 1, top)
             s == f[m - 1]
             packet == packets[m]
  <2>2. Good(s, h)
    BY <2>1
  <2>3. h \in Nat
    <3>1. NumCommands \in Nat
      BY TuxLineAssumption
    <3>2. m - 1 # 0 => packets[m - 1][1][1] \in Nat
      <4>1. m - 1 # 0 => m - 1 \in 1..l
        BY <2>1
      <4> QED
        BY <4>1
    <3> DEFINE q == packets[m - 1][1][1]
    <3>3. h = IF m - 1 = 0 THEN top ELSE NumCommands + 2 * q
      BY DEF Highest
    <3>4. m - 1 # 0 => q \in Nat
      BY <3>2
    <3> HIDE DEF q, h
    <3> QED
      BY <3>1, <3>3, <3>4
  <2>4. f[m] = Answer(s, packet) /\ Highest(packets, m, top) = NumCommands + 2 * packet[1][1]
    BY <1>3, <1>6, <1>8 DEF NextAnswer, Highest
  <2>5. packet[1][1] \in Nat /\ packet[1][1] > 0 /\ NumCommands + 2 * packet[1][1] - 1 > h
    BY <2>1
  <2> HIDE DEF h, s, packet
  <2>6. Good(Answer(s, packet), NumCommands + 2 * packet[1][1])
    BY <2>2, <2>3, <2>5, AnswerGood
  <2> QED
    BY <1>6, <2>4, <2>6
<1> QED
  BY <1>7, <1>8

(* The number of a packet that was handled.                                 *)
Number(hs, a) == hs[a][1][1]

(* The packets that are handled have growing numbers.                       *)
LEMMA NumbersGrow ==
  ASSUME NEW hs, NEW lost,
         \A a \in 1..Len(hs) :
           /\ Genuine(hs[a], lost) /\ hs[a][1] \in Bytes /\ hs[a][3] \in Bytes
           /\ \A b \in 1..Len(hs) : a < b => Place(hs[a][3]) < Place(hs[b][1])
  PROVE  /\ \A a \in 1..Len(hs) : Number(hs, a) \in 1..NumPackets
         /\ \A a, b \in 1..Len(hs) : a < b => Number(hs, a) < Number(hs, b)
<1>1. NumPackets \in Nat
  BY TuxLineAssumption
<1>2. ASSUME NEW b \in Bytes
      PROVE  b[1] \in 1..NumPackets /\ b[2] \in 1..3 /\ Place(b) = 3 * b[1] + b[2]
  BY DEF Bytes, Byte, Place
<1>3. ASSUME NEW a \in 1..Len(hs)
      PROVE  Place(hs[a][3]) >= Place(hs[a][1]) + 2
  <2>1. Genuine(hs[a], lost)
    OBVIOUS
  <2>2. ASSUME NEW p \in 1..NumPackets, hs[a] = Whole(p)
        PROVE  Place(hs[a][3]) >= Place(hs[a][1]) + 2
    <3>1. hs[a][1] = Byte(p, 1) /\ hs[a][3] = Byte(p, 3)
      BY <2>2 DEF Whole
    <3>2. Place(Byte(p, 1)) = 3 * p + 1 /\ Place(Byte(p, 3)) = 3 * p + 3
      BY BytePlaces
    <3> QED
      BY <3>1, <3>2, <1>1
  <2>3. ASSUME NEW d \in Bytes, Place(hs[a][1]) < Place(d), Place(d) < Place(hs[a][3])
        PROVE  Place(hs[a][3]) >= Place(hs[a][1]) + 2
    <3>1. hs[a][1] \in Bytes /\ hs[a][3] \in Bytes
      OBVIOUS
    <3>2. /\ Place(d) \in Nat
          /\ Place(hs[a][1]) \in Nat /\ Place(hs[a][3]) \in Nat
      BY <3>1, BytePlaces
    <3> QED
      BY <2>3, <3>2
  <2> QED
    BY <2>1, <2>2, <2>3 DEF Genuine, Between
<1>4. ASSUME NEW a \in 1..Len(hs) PROVE Number(hs, a) \in 1..NumPackets
  BY <1>2 DEF Number
<1>5. ASSUME NEW a \in 1..Len(hs), NEW b \in 1..Len(hs), a < b
      PROVE  Number(hs, a) < Number(hs, b)
  <2> DEFINE x == hs[a][1]
             y == hs[b][1]
             z == hs[a][3]
  <2>1. x \in Bytes /\ y \in Bytes /\ z \in Bytes /\ Place(z) < Place(y) /\ Place(z) >= Place(x) + 2
    <3>1. x \in Bytes /\ z \in Bytes /\ Place(z) < Place(y)
      BY <1>5
    <3>2. y \in Bytes
      OBVIOUS
    <3>3. Place(z) >= Place(x) + 2
      BY <1>3
    <3> QED
      BY <3>1, <3>2, <3>3
  <2> HIDE DEF x, y, z
  <2>2. PICK p \in 1..NumPackets, k \in 1..3 : p = x[1] /\ Place(x) = 3 * p + k
    BY <1>2, <2>1
  <2>3. PICK q \in 1..NumPackets, j \in 1..3 : q = y[1] /\ Place(y) = 3 * q + j
    BY <1>2, <2>1
  <2>4. Place(z) \in Nat
    BY <2>1, BytePlaces
  <2>5. p < q
    <3>1. p \in Int /\ q \in Int
      BY <1>1
    <3>2. 3 * p + k + 2 <= Place(z) /\ Place(z) < 3 * q + j
      BY <2>1, <2>2, <2>3
    <3> QED
      BY ONLY <3>1, <3>2, <2>4, k \in 1..3, j \in 1..3
  <2>6. Number(hs, a) = p /\ Number(hs, b) = q
    BY <2>2, <2>3 DEF Number, x, y
  <2> QED
    BY <2>5, <2>6
<1> QED
  BY <1>4, <1>5

(* The highest number of a command that the driver may have been given.     *)
Top == IF Len(handled) = 0 THEN NumCommands ELSE NumCommands + 2 * Number(handled, Len(handled))

CommandInv ==
  /\ puts \in 0..NumCommands /\ done \in Nat
  /\ tx # <<>> => putting \in {"room", "take"}
  /\ buf # <<>> => putting = "write"
  /\ putting = "take" => room >= Size
  /\ room \in Int
  /\ Delivered(tx, buf, out, Top, puts)

LEMMA CommandInit == ASSUME InitLine PROVE CommandInv
<1>1. NumCommands \in Nat
  BY TuxLineAssumption
<1>2. Sound(<<>>) /\ Len(<<>>) = 0
  BY EmptySeq DEF Sound
<1>3. Delivered(<<>>, <<>>, <<>>, Top, 0)
  BY <1>2 DEF Delivered, Part
<1> QED
  BY <1>1, <1>3 DEF InitLine, CommandInv

(* What the invariant says of the bytes that wait and of the driver's room. *)
LEMMA Waiting ==
  ASSUME LineInv, HasRoom, CommandInv
  PROVE  /\ Room \in Nat /\ Room >= Size /\ Size \in Nat /\ Size > 0
         /\ puts \in Nat /\ puts <= NumCommands /\ NumCommands \in Nat /\ Top \in Nat
         /\ Top >= NumCommands
         /\ tx \in Seq(CommandBytes) /\ Len(tx) <= Size /\ Len(tx) \in Nat
         /\ buf \in Seq(CommandBytes) /\ Len(buf) <= Size /\ Len(buf) \in Nat
         /\ out \in Seq(CommandBytes)
<1>1. DriverRoom \in Nat /\ Size \in Nat /\ Size > 0 /\ NumCommands \in Nat /\ NumPackets \in Nat
  BY TuxLineAssumption
<1>2. out \in Seq(CommandBytes) /\ Len(out) \in Nat
  BY DEF CommandInv, Delivered, Sound
<1>3. Room \in Nat /\ Room >= Size
  <2>1. Room \in Int
    BY <1>1, <1>2 DEF Room, CommandInv
  <2> QED
    BY <1>1, <2>1 DEF HasRoom
<1>4. puts \in Nat /\ puts <= NumCommands
  BY <1>1 DEF CommandInv
<1>5. Top \in Nat /\ Top >= NumCommands
  <2>1. Len(handled) # 0 => Number(handled, Len(handled)) \in 1..NumPackets
    <3>1. Len(handled) # 0 => Len(handled) \in 1..Len(handled)
      BY HandledElements
    <3>2. \A a \in 1..Len(handled) : Number(handled, a) \in 1..NumPackets
      <4>1. \A a \in 1..Len(handled) :
              /\ Genuine(handled[a], gone) /\ handled[a][1] \in Bytes /\ handled[a][3] \in Bytes
              /\ \A b \in 1..Len(handled) : a < b => Place(handled[a][3]) < Place(handled[b][1])
        BY DEF LineInv, Passed
      <4> QED
        BY <4>1, NumbersGrow
    <3> QED
      BY <3>1, <3>2
  <2> DEFINE q == Number(handled, Len(handled))
  <2>2. Top = IF Len(handled) = 0 THEN NumCommands ELSE NumCommands + 2 * q
    BY DEF Top
  <2> HIDE DEF q
  <2>3. Len(handled) # 0 => q \in Nat
    <3>1. Len(handled) # 0 => q \in 1..NumPackets
      BY <2>1 DEF q
    <3> QED
      BY <3>1, <1>1
  <2> QED
    BY <1>1, <2>2, <2>3
<1>6. ASSUME NEW s, Part(s, puts)
      PROVE  s \in Seq(CommandBytes) /\ Len(s) <= Size /\ Len(s) \in Nat
  <2>1. Cmd(puts) \in Seq(CommandBytes) /\ Len(Cmd(puts)) = Size
    BY <1>4, CmdIs
  <2>2. <<>> \in Seq(CommandBytes) /\ Len(<<>>) = 0
    BY EmptySeq
  <2> QED
    <3>1. CASE s = <<>>
      BY <3>1, <2>2, <1>1
    <3>2. CASE s = Cmd(puts)
      <4> DEFINE w == Cmd(puts)
      <4>1. s = w /\ w \in Seq(CommandBytes) /\ Len(w) = Size
        BY <3>2, <2>1
      <4> HIDE DEF w
      <4> QED
        BY <4>1, <1>1
    <3> QED
      BY <1>6, <3>1, <3>2 DEF Part
<1> QED
  BY <1>1, <1>2, <1>3, <1>4, <1>5, <1>6 DEF CommandInv, Delivered

(* One lemma for each step that moves bytes of commands.                    *)
LEMMA PutDelivers ==
  ASSUME RingRoom >= 2 * Size, LineInv, HasRoom, CommandInv, Put
  PROVE  CommandInv'
<1>1. /\ Size \in Nat /\ Size > 0 /\ NumCommands \in Nat /\ puts \in Nat /\ Top \in Nat
      /\ puts' = puts + 1 /\ puts' \in Nat /\ puts' > 0 /\ puts' <= NumCommands
      /\ RingRoom \in Nat
  BY Waiting, TuxLineAssumption DEF Put
<1>2. tx = <<>> /\ buf = <<>>
  BY DEF Put, CommandInv
<1>3. UNCHANGED <<handled, room, buf, out, done>> /\ putting' = "room" /\ Top' = Top
  BY DEF Put, rcv, Top
<1>4. tx' = Cmd(puts')
  <2> DEFINE w == Cmd(puts')
  <2>1. w \in Seq(CommandBytes) /\ Len(w) = Size
    BY <1>1, CmdIs
  <2>2. tx' = First(<<>> \o w, RingRoom)
    BY <1>2 DEF Put, Filled, Cmd
  <2> HIDE DEF w
  <2>3. <<>> \o w = w
    BY ONLY <2>1, ConcatEmptySeq
  <2>4. Len(w) <= RingRoom
    BY <1>1, <2>1
  <2>5. First(w, RingRoom) = w
    BY ONLY <2>1, <2>4, <1>1, FirstAll
  <2> QED
    BY <2>2, <2>3, <2>5 DEF w
<1>5. Delivered(<<>>, <<>>, out, Top, puts)
  BY <1>2 DEF CommandInv
<1>6. Delivered(tx', <<>>, out, Top, puts')
  <2>1. \A d \in 1..puts : d # puts' /\ d \in 1..puts'
    BY <1>1
  <2>2. \A d \in (NumCommands + 1)..Top : d # puts'
    BY <1>1
  <2>3. \A i \in 1..Len(out) : out[i][1] \in 1..puts \/ out[i][1] \in (NumCommands + 1)..Top
    BY <1>5 DEF Delivered
  <2>4. Without(out, puts')
    BY <2>1, <2>2, <2>3 DEF Without
  <2>5. \A d \in 1..puts' : d \in 1..puts \/ d = puts'
    BY <1>1
  <2>6. \A d \in 1..puts : Begun(out, d)
    BY <1>5 DEF Delivered
  <2>7. tx' # <<>>
    BY <1>1, <1>4, CmdIs
  <2>8. Part(tx', puts') /\ Part(<<>>, puts')
    BY <1>1, <1>4 DEF Part
  <2> QED
    BY <1>5, <2>1, <2>3, <2>4, <2>5, <2>6, <2>7, <2>8 DEF Delivered
<1> QED
  BY <1>1, <1>2, <1>3, <1>6 DEF CommandInv

LEMMA TakeDelivers ==
  ASSUME LineInv, HasRoom, CommandInv, Take
  PROVE  CommandInv'
<1>1. UNCHANGED <<handled, puts, out, done>> /\ putting' = "write" /\ Top' = Top /\ room' = 0
  BY DEF Take, rcv, Top
<1>2. room + 1 \in Int /\ room + 1 >= Len(tx) /\ tx \in Seq(CommandBytes) /\ buf = <<>>
  BY Waiting DEF Take, CommandInv
<1>3. buf' = tx /\ tx' = <<>>
  <2>1. First(tx, room + 1) = tx /\ Rest(tx, room + 1) = <<>>
    BY <1>2, FirstAll
  <2> QED
    BY <2>1 DEF Take, Taken, Left
<1>4. Delivered(tx', buf', out, Top, puts)
  BY <1>2, <1>3, Symmetric DEF CommandInv
<1> QED
  BY <1>1, <1>3, <1>4 DEF CommandInv

LEMMA WriteDelivers ==
  ASSUME LineInv, HasRoom, CommandInv, Write
  PROVE  CommandInv'
<1>1. UNCHANGED <<handled, tx, puts, room, done>> /\ putting' = "none" /\ buf' = <<>> /\ Top' = Top
  BY DEF Write, rcv, Top
<1>2. tx = <<>>
  BY DEF Write, CommandInv
<1>3. out' = out \o buf
  <2>1. Room \in Int /\ Room >= Len(buf) /\ buf \in Seq(CommandBytes)
    BY Waiting
  <2>2. First(buf, Room) = buf
    BY <2>1, FirstAll
  <2> QED
    BY <2>2 DEF Write
<1>4. Delivered(<<>>, tx, out', Top, puts)
  <2>1. Delivered(buf, tx, out, Top, puts)
    BY Symmetric DEF CommandInv
  <2> QED
    BY <1>3, <2>1, Waiting, FlushDelivers
<1>5. Delivered(tx', buf', out', Top, puts)
  BY <1>1, <1>2, <1>4
<1> QED
  BY <1>1, <1>2, <1>5 DEF CommandInv

LEMMA WakeupDelivers ==
  ASSUME LineInv, HasRoom, CommandInv, WriteWakeup
  PROVE  CommandInv'
<1>1. UNCHANGED <<handled, puts, putting, room, buf, done>> /\ Top' = Top
  BY DEF WriteWakeup, rcv, Top
<1>2. out' = out \o tx /\ tx' = <<>>
  <2>1. /\ Room \in Int /\ Room >= Len(tx) /\ Room + 1 \in Int /\ Room + 1 >= Len(tx)
        /\ tx \in Seq(CommandBytes)
    BY Waiting
  <2>2. First(tx, Room + 1) = tx /\ Rest(tx, Room + 1) = <<>> /\ First(tx, Room) = tx
    BY <2>1, FirstAll
  <2> QED
    BY <2>2 DEF WriteWakeup, Taken, Left
<1>3. Delivered(<<>>, buf, out', Top, puts)
  BY <1>2, Waiting, FlushDelivers DEF CommandInv
<1> QED
  BY <1>1, <1>2, <1>3 DEF CommandInv

(* The bytes that an interrupt hands to the callback.                       *)
Chunk == saved \o First(rx \o First(flip, RingRoom - Len(rx)), PacketRoom - Len(saved))

LEMMA ChunkType == ASSUME LineTypes PROVE Chunk \in Seq(Bytes)
<1>1. RingRoom \in Nat /\ PacketRoom \in Nat /\ PacketRoom > 2
  BY TuxLineAssumption
<1>2. /\ saved \in Seq(Bytes) /\ rx \in Seq(Bytes) /\ flip \in Seq(Bytes)
      /\ RingRoom - Len(rx) \in Nat /\ PacketRoom - Len(saved) \in Nat
  BY <1>1 DEF LineTypes
<1> DEFINE a == First(flip, RingRoom - Len(rx))
           b == First(rx \o a, PacketRoom - Len(saved))
<1>3. a \in Seq(Bytes)
  BY <1>2, FirstRest
<1> HIDE DEF a
<1>4. rx \o a \in Seq(Bytes)
  BY <1>2, <1>3, ConcatProperties
<1>5. b \in Seq(Bytes)
  BY <1>2, <1>4, FirstRest
<1> HIDE DEF b
<1>6. saved \o b \in Seq(Bytes)
  BY <1>2, <1>5, ConcatProperties
<1> QED
  BY <1>6 DEF Chunk, a, b

LEMMA ReceiveDelivers ==
  ASSUME RingRoom >= 2 * Size, LineInv, LineInv', HasRoom, HasRoom', CommandInv, Receive
  PROVE  CommandInv'
<1> DEFINE found == Found(Chunk)
           f == Len(found)
           h == Len(handled)
           after == Answered(found)
           base == [tx |-> tx, out |-> out]
<1>1. UNCHANGED <<puts, putting, room, buf, done>> /\ tx' = after.tx /\ out' = after.out
      /\ handled' = handled \o found
  BY DEF Receive, Chunk
<1>2. found \in Seq(Seq(Bytes)) /\ f \in Nat
  <2>1. Chunk \in Seq(Bytes)
    BY ChunkType DEF LineInv
  <2>2. PICK pos : Finds(Callback(Chunk), 1, Chunk, pos)
    BY <2>1, CallbackFinds
  <2>3. found \in Seq(Seq(Bytes))
    BY <2>2 DEF Finds, Found
  <2> QED
    BY <2>3, LenProperties
<1> HIDE DEF found, after
<1>3. /\ h \in Nat /\ Len(handled') = h + f
      /\ \A a \in 1..h : handled'[a] = handled[a]
      /\ \A a \in 1..f : handled'[h + a] = found[a]
  <2> DEFINE T == Seq(Bytes)
  <2>1. handled \in Seq(T) /\ found \in Seq(T)
    BY <1>2 DEF LineInv, LineTypes
  <2> HIDE DEF T
  <2>2. /\ Len(handled \o found) = Len(handled) + Len(found)
        /\ \A i \in 1..Len(handled) : (handled \o found)[i] = handled[i]
        /\ \A i \in 1..Len(found) : (handled \o found)[Len(handled) + i] = found[i]
    BY <2>1, Joined
  <2>3. h \in Nat
    BY HandledElements
  <2> QED
    BY <1>1, <2>2, <2>3
<1>4. /\ \A a \in 1..(h + f) : Number(handled', a) \in 1..NumPackets
      /\ \A a, b \in 1..(h + f) : a < b => Number(handled', a) < Number(handled', b)
  <2>1. \A a \in 1..Len(handled') :
          /\ Genuine(handled'[a], gone') /\ handled'[a][1] \in Bytes /\ handled'[a][3] \in Bytes
          /\ \A b \in 1..Len(handled') : a < b => Place(handled'[a][3]) < Place(handled'[b][1])
    BY DEF LineInv, Passed
  <2> DEFINE hs == handled'
             lost == gone'
  <2> HIDE DEF hs, lost
  <2>2. \A a \in 1..Len(hs) :
          /\ Genuine(hs[a], lost) /\ hs[a][1] \in Bytes /\ hs[a][3] \in Bytes
          /\ \A b \in 1..Len(hs) : a < b => Place(hs[a][3]) < Place(hs[b][1])
    BY <2>1 DEF hs, lost
  <2>3. /\ \A a \in 1..Len(hs) : Number(hs, a) \in 1..NumPackets
        /\ \A a, b \in 1..Len(hs) : a < b => Number(hs, a) < Number(hs, b)
    BY <2>2, NumbersGrow
  <2> QED
    BY <1>3, <2>3 DEF hs
<1>5. /\ Room \in Nat /\ Size \in Nat /\ Size > 0 /\ NumCommands \in Nat /\ Top \in Nat
      /\ tx \in Seq(CommandBytes) /\ out \in Seq(CommandBytes)
      /\ done \in Nat /\ puts \in 0..NumCommands /\ NumPackets \in Nat
      /\ Delivered(tx, buf, out, Top, puts)
  BY Waiting, TuxLineAssumption DEF CommandInv
<1>6. Good(base, Top)
  <2>1. base.tx = tx /\ base.out = out
    OBVIOUS
  <2>2. Free(base) = Room
    BY <2>1 DEF Free, Room
  <2> HIDE DEF base
  <2> QED
    BY <1>5, <2>1, <2>2 DEF Good
<1>7. ASSUME NEW n \in 1..f
      PROVE  /\ found[n][1][1] = Number(handled', h + n)
             /\ found[n][1][1] \in 1..NumPackets /\ h + n \in 1..(h + f)
  <2>1. h + n \in 1..(h + f)
    BY <1>2, <1>3
  <2> QED
    BY <2>1, <1>3, <1>4 DEF Number
<1>8. Top = IF h = 0 THEN NumCommands ELSE NumCommands + 2 * Number(handled', h)
  <2>1. h # 0 => h \in 1..h
    BY <1>3
  <2>2. h # 0 => Number(handled', h) = Number(handled, h)
    BY <1>3, <2>1 DEF Number
  <2> QED
    BY <2>2 DEF Top
<1> HIDE DEF f, h
<1>9. ASSUME NEW n \in 1..f
      PROVE  NumCommands + 2 * found[n][1][1] - 1 > Highest(found, n - 1, Top)
  <2>1. PICK p \in 1..NumPackets : p = found[n][1][1] /\ p = Number(handled', h + n)
    BY <1>7
  <2>2. CASE n = 1
    <3>1. CASE h = 0
      BY <3>1, <2>1, <2>2, <1>5, <1>8 DEF Highest
    <3>2. CASE h # 0
      <4>1. h \in 1..(h + f) /\ h + n \in 1..(h + f) /\ h < h + n
        BY <3>2, <1>2, <1>3, <1>7 DEF f, h
      <4>2. PICK q \in 1..NumPackets : q = Number(handled', h)
        BY <4>1, <1>4
      <4>3. q < p
        BY <4>1, <4>2, <2>1, <1>4
      <4>4. Highest(found, n - 1, Top) = NumCommands + 2 * q
        BY <4>2, <3>2, <2>2, <1>8 DEF Highest
      <4> QED
        BY <4>3, <4>4, <2>1, <1>5
    <3> QED
      BY <3>1, <3>2
  <2>3. CASE n # 1
    <3>1. n - 1 \in 1..f
      BY <2>3, <1>2 DEF f
    <3>2. PICK q \in 1..NumPackets : q = found[n - 1][1][1] /\ q = Number(handled', h + (n - 1))
      BY <3>1, <1>7
    <3>3. h + (n - 1) \in 1..(h + f) /\ h + n \in 1..(h + f) /\ h + (n - 1) < h + n
      BY <3>1, <1>2, <1>3, <1>7 DEF f, h
    <3>4. q < p
      BY <3>2, <3>3, <2>1, <1>4
    <3>5. Highest(found, n - 1, Top) = NumCommands + 2 * q
      BY <3>2, <2>3 DEF Highest
    <3> QED
      BY <3>4, <3>5, <2>1, <1>5
  <2> QED
    BY <2>2, <2>3
<1>10. Good(after, Highest(found, f, Top))
  <2>1. \A n \in 1..f : found[n][1][1] \in Nat /\ found[n][1][1] > 0
    BY <1>7
  <2>2. f \in Nat /\ Len(found) = f
    BY <1>2 DEF f
  <2> QED
    BY <2>1, <2>2, <1>5, <1>6, <1>9, AnsweredGood DEF after
<1>11. Top' = Highest(found, f, Top)
  <2>1. CASE f = 0
    <3>1. Len(handled') = h
      BY <2>1, <1>2, <1>3 DEF f, h
    <3>2. Top' = Top
      BY <3>1, <1>8 DEF Top
    <3> QED
      BY <2>1, <3>2 DEF Highest
  <2>2. CASE f # 0
    <3>1. f \in 1..f /\ Len(handled') = h + f /\ h + f # 0
      BY <2>2, <1>2, <1>3 DEF f, h
    <3>2. Number(handled', h + f) = found[f][1][1]
      BY <3>1, <1>7
    <3>3. Top' = NumCommands + 2 * Number(handled', h + f)
      BY <3>1 DEF Top
    <3> QED
      BY <2>2, <3>2, <3>3 DEF Highest
  <2> QED
    BY <2>1, <2>2
<1>12. Delivered(after.tx, buf, after.out, Top', puts) /\ after.tx \in {<<>>, tx}
  <2>1. Free(after) = Room'
    BY <1>1 DEF Free, Room
  <2>2. Free(after) > 0
    BY <2>1, <1>5, <1>10 DEF HasRoom, Good
  <2> QED
    BY <2>2, <1>10, <1>11 DEF Good
<1>13. Delivered(tx', buf', out', Top', puts')
  BY <1>1, <1>12
<1>14. tx' # <<>> => putting' \in {"room", "take"}
  BY <1>1, <1>12 DEF CommandInv
<1>15. buf' # <<>> => putting' = "write"
  BY <1>1 DEF CommandInv
<1> QED
  BY <1>1, <1>13, <1>14, <1>15 DEF CommandInv

LEMMA CommandStep ==
  ASSUME RingRoom >= 2 * Size, LineInv, LineInv', HasRoom, HasRoom', CommandInv, [NextLine]_line
  PROVE  CommandInv'
<1>1. CASE ReadRoom
  <2>1. /\ UNCHANGED <<handled, tx, puts, buf, out, done>> /\ putting' = "take" /\ room' = Room
        /\ putting = "room" /\ Top' = Top
    BY <1>1 DEF ReadRoom, rcv, Top
  <2>2. Room \in Int /\ Room >= Size
    BY Waiting
  <2> QED
    BY <2>1, <2>2 DEF CommandInv
<1>2. CASE Drain
  <2>1. /\ UNCHANGED <<handled, tx, puts, putting, room, buf, out>> /\ done' = done + 1
        /\ Top' = Top
    BY <1>2 DEF Drain, rcv, Top
  <2> QED
    BY <2>1 DEF CommandInv
<1>3. CASE Arrive \/ UNCHANGED line
  <2>1. UNCHANGED <<handled, tx, puts, putting, room, buf, out, done>> /\ Top' = Top
    BY <1>3 DEF Arrive, line, rcv, snd, Top
  <2> QED
    BY <2>1 DEF CommandInv
<1> QED
  BY <1>1, <1>2, <1>3, PutDelivers, TakeDelivers, WriteDelivers, WakeupDelivers, ReceiveDelivers
  DEF NextLine

(* What the run checks follows.                                             *)
LEMMA CommandsAreWhole == ASSUME CommandInv PROVE CommandsWhole
<1>1. /\ Delivered(tx, buf, out, Top, puts) /\ Sound(out) /\ puts \in Nat
      /\ out \in Seq(CommandBytes) /\ DOMAIN out = 1..Len(out)
  BY TuxLineAssumption DEF CommandInv, Delivered, Sound
<1>2. ASSUME NEW i \in DOMAIN out
      PROVE  LET b == out[i]
             IN  /\ b[2] < Size => i < Len(out) /\ out[i + 1] = Byte(b[1], b[2] + 1)
                 /\ \A j \in DOMAIN out : out[j] = b => j = i
  BY <1>1 DEF Sound
<1>3. ASSUME NEW s, Part(s, puts), s # <<>> PROVE Byte(puts, 1) \in ToSet(s)
  <2>1. s = Cmd(puts)
    BY <1>3 DEF Part
  <2>2. 1 \in 1..Size /\ 1 \in DOMAIN Cmd(puts) /\ Cmd(puts)[1] = Byte(puts, 1)
    BY TuxLineAssumption DEF Cmd
  <2> QED
    BY <2>1, <2>2 DEF ToSet
<1>4. ASSUME NEW d \in 1..puts
      PROVE  Byte(d, 1) \in ToSet(tx) \cup ToSet(buf) \cup ToSet(out)
  <2>1. Begun(out, d) \/ (d = puts /\ (tx # <<>> \/ buf # <<>>))
    BY <1>1 DEF Delivered
  <2>2. CASE Begun(out, d)
    BY <1>1, <2>2 DEF Begun, ToSet
  <2>3. CASE d = puts /\ (tx # <<>> \/ buf # <<>>)
    BY <1>1, <1>3, <2>3 DEF Delivered
  <2> QED
    BY <2>1, <2>2, <2>3
<1> QED
  BY <1>2, <1>4 DEF CommandsWhole

(* While the serial driver has room for one more command, every command     *)
(* goes out whole, once and in one piece, and none is forgotten, although   *)
(* calls put and write in parts between which the interrupt puts, takes and *)
(* writes from the same ring: for any number of commands and packets, any   *)
(* ring of two commands, and whatever is lost on the line.                  *)
THEOREM CommandsGoWhole ==
  ASSUME RingRoom >= 2 * Size
  PROVE  SpecLine /\ []HasRoom => []CommandsWhole
<1>1. InitLine => CommandInv
  BY CommandInit
<1>2. LineInv /\ LineInv' /\ HasRoom /\ HasRoom' /\ CommandInv /\ [NextLine]_line => CommandInv'
  BY CommandStep
<1>3. CommandInv => CommandsWhole
  BY CommandsAreWhole
<1> QED
  BY <1>1, <1>2, <1>3, LineInvariance, PTL DEF SpecLine
=============================================================================
