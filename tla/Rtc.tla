-------------------------------- MODULE Rtc --------------------------------
(***************************************************************************)
(* The virtual real-time clock of rtc.c: one hardware interrupt drives a    *)
(* counter per terminal, and a program that reads the clock spins, with     *)
(* interrupts on, until its terminal's flag is set.                         *)
(*                                                                          *)
(* The driver's state is per terminal, but descriptors belong to programs,  *)
(* and a terminal runs a stack of them: opens and closes of a program meet  *)
(* the state its parent left.  The terminals are scheduled round robin, as  *)
(* in module Process, once their shells have started.                       *)
(***************************************************************************)
EXTENDS Integers, Sequences, SequencesExt

CONSTANTS
  NumTerminals,\* the terminals (3)
  TargetFreq,  \* TARGET_FREQ: rate of the hardware interrupt (1024)
  MaxFreq,     \* MAX_FREQ: the largest frequency rtc_write accepts (8192)
  Freqs,       \* the frequencies programs write
  MaxDepth,    \* bound: programs on one terminal
  MaxFds       \* bound: clock descriptors of one program (at most 6)

ASSUME RtcAssumption ==
  /\ NumTerminals \in Nat \ {0}
  /\ TargetFreq \in Nat /\ TargetFreq >= 2
  /\ MaxFreq \in Nat /\ MaxFreq >= 2
  /\ Freqs \subseteq Int
  /\ MaxDepth \in Nat \ {0}
  /\ MaxFds \in Nat \ {0}

VARIABLES
  exec,     \* exec_terminal
  on,       \* rtc_on
  flag,     \* rtc_intr_flag
  counter,  \* rtc_counter; every value below 0 is represented by Expired
  period,   \* rtc_period
  asked,    \* history: the frequency last accepted, 0 before the first
  fds,      \* per terminal, the clock descriptors each of its programs holds
  waiting,  \* terminal t spins in rtc_read
  fresh     \* history: t spins and an interrupt came since it began to

clock == <<on, flag, counter, period, asked>>
vars  == <<exec, clock, fds, waiting, fresh>>

Terminals == 0..(NumTerminals - 1)

(* A counter that was 0 when the interrupt came runs away from 0, to return *)
(* after 2^32 interrupts, 48 days.                                          *)
Expired == -1

Init ==
  /\ exec \in Terminals
  /\ on = [t \in Terminals |-> FALSE]
  /\ flag = [t \in Terminals |-> FALSE]
  /\ counter = [t \in Terminals |-> 0]
  /\ period = [t \in Terminals |-> 0]
  /\ asked = [t \in Terminals |-> 0]
  /\ fds = [t \in Terminals |-> <<0>>]
  /\ waiting = [t \in Terminals |-> FALSE]
  /\ fresh = [t \in Terminals |-> FALSE]

----------------------------------------------------------------------------
(* What rtc_counter is set to when it reaches 0.                            *)
Reload(t) == period[t]

(* The interrupt at hand is the one terminal t's counter waits for.         *)
Fires(t) == counter[t] = 1

CountDown(t) ==
  IF Fires(t) THEN Reload(t)
  ELSE IF counter[t] > 1 THEN counter[t] - 1 ELSE Expired

(* rtc_handler: count all terminals down.                                   *)
Handler ==
  /\ flag' = [t \in Terminals |-> flag[t] \/ Fires(t)]
  /\ counter' = [t \in Terminals |-> CountDown(t)]
  /\ fresh' = [t \in Terminals |-> waiting[t] /\ (fresh[t] \/ Fires(t))]
  /\ UNCHANGED <<exec, on, period, asked, fds, waiting>>

(* The frequencies rtc_write accepts.                                       *)
Accepts(f) == 2 <= f /\ f <= MaxFreq /\ \E n \in 0..13 : f = 2^n

SetFreqLater(f) ==
  /\ asked' = [asked EXCEPT ![exec] = f]
  /\ period' = [period EXCEPT ![exec] = TargetFreq \div f]
  /\ counter' = counter

(* rtc_write with a frequency it accepts: above TARGET_FREQ the counter and *)
(* the period are 0.                                                        *)
SetFreq(f) ==
  /\ asked' = [asked EXCEPT ![exec] = f]
  /\ period' = [period EXCEPT ![exec] = TargetFreq \div f]
  /\ counter' = [counter EXCEPT ![exec] = TargetFreq \div f]

(* The number of clock descriptors of the running program.                  *)
Held == Last(fds[exec])

SetHeld(n) == fds' = [fds EXCEPT ![exec] = Append(Front(@), n)]

Running == ~waiting[exec]

(* open("rtc"): rtc_open, with rtc_write of 2 Hz.                           *)
Open ==
  /\ Running
  /\ Held < MaxFds
  /\ on' = [on EXCEPT ![exec] = TRUE]
  /\ SetFreq(2)
  /\ SetHeld(Held + 1)
  /\ UNCHANGED <<exec, flag, waiting, fresh>>

(* close of a clock descriptor: rtc_close turns the terminal's clock off.   *)
Close ==
  /\ Running
  /\ Held > 0
  /\ on' = [on EXCEPT ![exec] = FALSE]
  /\ SetHeld(Held - 1)
  /\ UNCHANGED <<exec, flag, counter, period, asked, waiting, fresh>>

(* write to a clock descriptor; a frequency that is refused changes nothing.*)
Write(f) ==
  /\ Running
  /\ Held > 0
  /\ Accepts(f)
  /\ SetFreq(f)
  /\ UNCHANGED <<exec, on, flag, fds, waiting, fresh>>

KeepFlag == flag

(* rtc_read on entry forgets an old interrupt, if the clock is on.          *)
ClearFlag == [flag EXCEPT ![exec] = flag[exec] /\ ~on[exec]]

Read ==
  /\ Running
  /\ Held > 0
  /\ flag' = ClearFlag
  /\ waiting' = [waiting EXCEPT ![exec] = TRUE]
  /\ fresh' = [fresh EXCEPT ![exec] = FALSE]
  /\ UNCHANGED <<exec, on, counter, period, asked, fds>>

(* The spin ends, in a slice of its terminal.                               *)
ReadReturn(t) ==
  /\ exec = t
  /\ waiting[t]
  /\ flag[t]
  /\ waiting' = [waiting EXCEPT ![t] = FALSE]
  /\ fresh' = [fresh EXCEPT ![t] = FALSE]
  /\ UNCHANGED <<exec, clock, fds>>

(* The program executes another, which starts without clock descriptors.    *)
Execute ==
  /\ Running
  /\ Len(fds[exec]) < MaxDepth
  /\ fds' = [fds EXCEPT ![exec] = Append(@, 0)]
  /\ UNCHANGED <<exec, clock, waiting, fresh>>

(* halt closes what is open and returns to the parent; the last program of  *)
(* a terminal is replaced by a new shell.                                   *)
Halt ==
  /\ Running
  /\ on' = [on EXCEPT ![exec] = @ /\ Held = 0]
  /\ fds' = [fds EXCEPT ![exec] = IF Len(@) > 1 THEN Front(@) ELSE <<0>>]
  /\ UNCHANGED <<exec, flag, counter, period, asked, waiting, fresh>>

TickStays ==
  /\ exec' = exec % NumTerminals
  /\ UNCHANGED <<clock, fds, waiting, fresh>>

(* The timer gives the CPU to the next terminal.                            *)
Tick ==
  /\ exec' = (exec + 1) % NumTerminals
  /\ UNCHANGED <<clock, fds, waiting, fresh>>

----------------------------------------------------------------------------
Next ==
  \/ Handler
  \/ Open
  \/ Close
  \/ \E f \in Freqs : Write(f)
  \/ Read
  \/ \E t \in Terminals : ReadReturn(t)
  \/ Execute
  \/ Halt
  \/ Tick

Spec == Init /\ [][Next]_vars

----------------------------------------------------------------------------
TypeOK ==
  /\ exec \in Terminals
  /\ on \in [Terminals -> BOOLEAN]
  /\ flag \in [Terminals -> BOOLEAN]
  /\ counter \in [Terminals -> Nat \cup {Expired}]
  /\ period \in [Terminals -> Nat]
  /\ asked \in [Terminals -> Nat]
  /\ fds \in [Terminals -> Seq(0..MaxFds)]
  /\ \A t \in Terminals : Len(fds[t]) \in 1..MaxDepth
  /\ waiting \in [Terminals -> BOOLEAN]
  /\ fresh \in [Terminals -> BOOLEAN]

(* Some program of terminal t holds the clock open.                         *)
InUse(t) == \E i \in DOMAIN fds[t] : fds[t][i] > 0

(* rtc_write was last given more than TARGET_FREQ, which it accepts.        *)
TooFast(t) == asked[t] > TargetFreq

(* While a terminal's programs hold the clock its counter is on the way to  *)
(* the next interrupt, which comes within one period: writes, child         *)
(* programs and closes never leave it at a value from which it misses 0.    *)
(* Only a program that asks for more than TARGET_FREQ does, and from then   *)
(* on the terminal has no interrupt until another frequency is written.     *)
CountsDown ==
  \A t \in Terminals : InUse(t) =>
    IF TooFast(t) THEN counter[t] \in {0, Expired} ELSE counter[t] \in 1..period[t]

(* rtc_read waits for an interrupt: it does not return on one that came     *)
(* before it was called, unless a close has turned the terminal's clock off.*)
ReadWaitsWhileOn == \A t \in Terminals : waiting[t] /\ on[t] /\ flag[t] => fresh[t]
=============================================================================
