----------------------------- MODULE Interrupts -----------------------------
(***************************************************************************)
(* The two interrupt controllers of i8259.c, and how the handlers of the    *)
(* timer, the keyboard and the clock end their interrupts; the clock and    *)
(* its readers are module Rtc's.                                            *)
(*                                                                          *)
(* Interrupts are off while a handler runs (idt_wrap.S; the sti before iret *)
(* takes effect after it), so a handler is a step.  They are on in programs *)
(* and while a program spins in a read.  A device may interrupt at any time.*)
(***************************************************************************)
EXTENDS Rtc, KeyCodes

VARIABLE service  \* IRQs in service: taken, and their end not yet sent

allvars == <<vars, service>>

Timer == 0
Key == 1
Cascade == 2  \* where the slave is connected to the master
Clock == 8    \* the first IRQ of the slave

(* enable_irq, on the set of masked IRQs                                    *)
EnableIrq(masks, irq) == masks \ {irq}

(* i8259_init masks all and enables the cascade; then KB_init, rtc_init and *)
(* i8253_init.                                                              *)
Masks ==
  EnableIrq(EnableIrq(EnableIrq(EnableIrq(0 .. 15, Cascade), Key), Clock), Timer)

(* The IRQs in service after send_eoi: the end of one of the slave's is     *)
(* sent to the master too.                                                  *)
SendEoiOnce(taken, irq) == taken \ {irq}
SendEoi(taken, irq) == taken \ (IF irq < 8 THEN {irq} ELSE {irq, Cascade})

(* The IRQs that the controllers put in service for one of a device.        *)
InService(irq) == service \cup (IF irq < 8 THEN {irq} ELSE {irq, Cascade})

(* An IRQ in service holds back those of its own and of lower priority,     *)
(* that is of larger number; to the master all the slave's are the cascade. *)
Passes(irq) ==
  /\ irq \notin Masks
  /\ \A s \in service : (s < 8) = (irq < 8) => irq < s
  /\ irq < 8 \/ \A s \in service : s < 8 => Cascade < s

----------------------------------------------------------------------------
InitPic == Init /\ service = {}

TimerInterrupt ==
  /\ Passes(Timer)
  /\ Tick
  /\ service' = SendEoi(InService(Timer), Timer)

ClockInterrupt ==
  /\ Passes(Clock)
  /\ Handler
  /\ service' = SendEoi(InService(Clock), Clock)

(* keyboard_handler: every return sends the end, but the one for a key      *)
(* without a character; with Alt that key is ignored, and its end sent.     *)
KeyReturns(meaning) ==
  IF meaning = "unused" THEN InService(Key) ELSE SendEoi(InService(Key), Key)

KeyInterrupt ==
  /\ Passes(Key)
  /\ \E meaning \in Meanings : service' = KeyReturns(meaning)
  /\ UNCHANGED vars

(* The system calls of Rtc.                                                 *)
Calls ==
  \/ Open \/ Close \/ Read \/ Execute \/ Halt
  \/ \E f \in Freqs : Write(f)

Return(t) == ReadReturn(t) /\ UNCHANGED service

NextPic ==
  \/ TimerInterrupt \/ ClockInterrupt \/ KeyInterrupt
  \/ Calls /\ UNCHANGED service
  \/ \E t \in Terminals : Return(t)

(* The timer and the clock never stop; a spin tests its flag all the time.  *)
SpecPic ==
  /\ InitPic /\ [][NextPic]_allvars
  /\ WF_allvars(TimerInterrupt) /\ WF_allvars(ClockInterrupt)
  /\ \A t \in Terminals : SF_allvars(Return(t))

----------------------------------------------------------------------------
(* A read of the clock returns, whatever the terminal's programs have done  *)
(* to the state that they share, unless one of them has asked for more than *)
(* TARGET_FREQ, or the keyboard's handler has left its interrupt in         *)
(* service, which holds the clock's back.                                   *)
ReadsReturnUnlessHeld ==
  \A t \in Terminals : waiting[t] ~> ~waiting[t] \/ TooFast(t) \/ Key \in service

(* The timer gets through whatever is left in service: a key without a      *)
(* character stops the keyboard and the clock, but not the scheduler.       *)
TimerGetsThrough == \A t \in Terminals : []<>(exec = t)
=============================================================================
