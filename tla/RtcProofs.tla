----------------------------- MODULE RtcProofs -----------------------------
(***************************************************************************)
(* Theorems about Rtc, and about the clock under the interrupt controllers  *)
(* of Interrupts, for every number of terminals, every set of frequencies   *)
(* and every depth and number of descriptors.                               *)
(*                                                                          *)
(* CountsDown is inductive: rtc_write accepts up to MaxFreq, and above      *)
(* TargetFreq the period TargetFreq / f is 0, which the counter, itself 0   *)
(* then, has already missed.                                                *)
(*                                                                          *)
(* That a read returns is not proved, but what it is owed is: ServedInTime  *)
(* says that its wait only ever gets shorter, or never ends if a program    *)
(* has asked for too much, and HeldBack what a key can hold back that       *)
(* leaves its interrupt in service.                                         *)
(***************************************************************************)
EXTENDS Interrupts, SequenceTheorems, TLAPS

----------------------------------------------------------------------------
(* What the stack of a terminal's programs is after each change of it.      *)
Stacked == {s \in Seq(0..MaxFds) : Len(s) \in 1..MaxDepth}

LEMMA SetTop ==
  ASSUME NEW s \in Stacked, NEW n \in 0..MaxFds
  PROVE  /\ Append(Front(s), n) \in Stacked
         /\ Len(Append(Front(s), n)) = Len(s)
         /\ \A i \in 1..(Len(s) - 1) : Append(Front(s), n)[i] = s[i]
         /\ Append(Front(s), n)[Len(s)] = n
<1> DEFINE f == Front(s)
<1>1. s \in Seq(0..MaxFds) /\ Len(s) \in Nat /\ Len(s) >= 1
  BY RtcAssumption DEF Stacked
<1>2. /\ f \in Seq(0..MaxFds)
      /\ Len(f) = Len(s) - 1
      /\ \A i \in 1..(Len(s) - 1) : f[i] = s[i]
  <2>1. PICK n1 \in Nat : n1 = Len(s) - 1
    BY <1>1
  <2>2. ASSUME NEW i \in 1..n1 PROVE s[i] \in 0..MaxFds
    <3>1. i \in 1..Len(s)
      BY <1>1, <2>1
    <3> QED
      BY <3>1, <1>1, ElementOfSeq
  <2>3. /\ f \in Seq(0..MaxFds)
        /\ Len(f) = IF 1 <= n1 THEN n1 - 1 + 1 ELSE 0
        /\ \A i \in 1..(n1 - 1 + 1) : f[i] = s[1 + i - 1]
    BY <2>1, <2>2, SubSeqProperties DEF Front
  <2> QED
    BY <2>1, <2>3, <1>1
<1> HIDE DEF f
<1>3. /\ Append(f, n) \in Seq(0..MaxFds)
      /\ Len(Append(f, n)) = Len(s)
      /\ \A i \in 1..(Len(s) - 1) : Append(f, n)[i] = s[i]
      /\ Append(f, n)[Len(s)] = n
  BY <1>1, <1>2
<1> QED
  BY <1>3, RtcAssumption DEF Stacked, f

LEMMA PushTop ==
  ASSUME NEW s \in Stacked, Len(s) < MaxDepth
  PROVE  /\ Append(s, 0) \in Stacked
         /\ Len(Append(s, 0)) = Len(s) + 1
         /\ \A i \in 1..Len(s) : Append(s, 0)[i] = s[i]
         /\ Append(s, 0)[Len(s) + 1] = 0
BY RtcAssumption DEF Stacked

LEMMA PopTop ==
  ASSUME NEW s \in Stacked, Len(s) > 1
  PROVE  /\ Front(s) \in Stacked
         /\ Len(Front(s)) = Len(s) - 1
         /\ \A i \in 1..(Len(s) - 1) : Front(s)[i] = s[i]
BY RtcAssumption DEF Stacked, Front

LEMMA NewShell == <<0>> \in Stacked /\ Len(<<0>>) = 1 /\ <<0>>[1] = 0
BY RtcAssumption DEF Stacked

LEMMA TopHeld ==
  ASSUME NEW s \in Stacked
  PROVE  Last(s) \in 0..MaxFds /\ Len(s) \in DOMAIN s
BY RtcAssumption DEF Stacked, Last

(* Dividing TargetFreq by an accepted frequency within it leaves a period   *)
(* of at least one interrupt.                                               *)
LEMMA PeriodPositive ==
  ASSUME NEW f \in Int, 2 <= f, f <= TargetFreq
  PROVE  TargetFreq \div f \in Nat /\ TargetFreq \div f >= 1
BY RtcAssumption

(* Above TargetFreq, no period.                                             *)
LEMMA NoPeriod ==
  ASSUME NEW f \in Int, f > TargetFreq
  PROVE  TargetFreq \div f = 0
BY RtcAssumption

(* Of any accepted frequency, it is a natural number.                       *)
LEMMA PeriodNat ==
  ASSUME NEW f \in Int, 2 <= f
  PROVE  TargetFreq \div f \in Nat
BY RtcAssumption

(* TypeOK says of every terminal that its programs are Stacked.             *)
LEMMA StackedType ==
  /\ TypeOK => fds \in [Terminals -> Stacked]
  /\ \A g \in [Terminals -> Stacked] :
       g \in [Terminals -> Seq(0..MaxFds)] /\ \A t \in Terminals : Len(g[t]) \in 1..MaxDepth
<1>1. TypeOK => fds \in [Terminals -> Stacked]
  BY DEF TypeOK, Stacked
<1>2. \A g \in [Terminals -> Stacked] :
        g \in [Terminals -> Seq(0..MaxFds)] /\ \A t \in Terminals : Len(g[t]) \in 1..MaxDepth
  BY DEF Stacked
<1> QED
  BY <1>1, <1>2

LEMMA NextTerminalType ==
  ASSUME NEW t \in Terminals
  PROVE  (t + 1) % NumTerminals \in Terminals
BY RtcAssumption DEF Terminals

----------------------------------------------------------------------------
(* The types, proved as one invariant of the steps.                         *)
LEMMA TypeInit == Init => TypeOK
<1> SUFFICES ASSUME Init PROVE TypeOK
  OBVIOUS
<1>1. fds \in [Terminals -> Stacked]
  BY NewShell DEF Init
<1> QED
  BY <1>1, StackedType DEF Init, TypeOK

LEMMA TypeStep == TypeOK /\ [Next]_vars => TypeOK'
<1> SUFFICES ASSUME TypeOK, [Next]_vars PROVE TypeOK'
  OBVIOUS
<1>1. fds \in [Terminals -> Stacked] /\ exec \in Terminals /\ fds[exec] \in Stacked
  BY StackedType DEF TypeOK
<1>2. ASSUME fds' \in [Terminals -> Stacked]
      PROVE  /\ fds' \in [Terminals -> Seq(0..MaxFds)]
             /\ \A t \in Terminals : Len(fds'[t]) \in 1..MaxDepth
  BY <1>2, StackedType
<1>3. CASE Handler
  <2>1. \A t \in Terminals : CountDown(t) \in Nat \cup {Expired}
    <3> SUFFICES ASSUME NEW t \in Terminals PROVE CountDown(t) \in Nat \cup {Expired}
      OBVIOUS
    <3>1. counter[t] \in Nat \cup {Expired} /\ period[t] \in Nat
      BY DEF TypeOK
    <3> QED
      BY <3>1 DEF CountDown, Fires, Reload, Expired
  <2>2. counter' \in [Terminals -> Nat \cup {Expired}]
    BY <1>3, <2>1 DEF Handler
  <2>3. flag' \in [Terminals -> BOOLEAN] /\ fresh' \in [Terminals -> BOOLEAN]
    BY <1>3 DEF Handler, Fires, TypeOK
  <2>4. UNCHANGED <<exec, on, period, asked, fds, waiting>>
    BY <1>3 DEF Handler
  <2> QED
    BY <2>2, <2>3, <2>4 DEF TypeOK
<1>4. CASE Open
  <2>1. Held + 1 \in 0..MaxFds
    BY <1>1, <1>4, TopHeld, RtcAssumption DEF Open, Held
  <2>2. fds' \in [Terminals -> Stacked]
    BY <1>1, <1>4, <2>1, SetTop DEF Open, SetHeld
  <2>3. TargetFreq \div 2 \in Nat /\ 2 \in Nat
    BY PeriodNat
  <2> QED
    BY <1>2, <1>4, <2>2, <2>3 DEF Open, SetFreq, TypeOK
<1>5. CASE Close
  <2>1. Held - 1 \in 0..MaxFds
    BY <1>1, <1>5, TopHeld, RtcAssumption DEF Close, Held
  <2>2. fds' \in [Terminals -> Stacked]
    BY <1>1, <1>5, <2>1, SetTop DEF Close, SetHeld
  <2> QED
    BY <1>2, <1>5, <2>2 DEF Close, TypeOK
<1>6. ASSUME NEW f \in Freqs, Write(f) PROVE TypeOK'
  <2>1. TargetFreq \div f \in Nat /\ f \in Nat
    BY <1>6, PeriodNat, RtcAssumption DEF Write, Accepts
  <2> QED
    BY <1>6, <2>1 DEF Write, SetFreq, TypeOK
<1>7. CASE Read
  BY <1>7 DEF Read, ClearFlag, TypeOK
<1>8. ASSUME NEW t \in Terminals, ReadReturn(t) PROVE TypeOK'
  BY <1>8 DEF ReadReturn, clock, TypeOK
<1>9. CASE Execute
  <2>1. fds' \in [Terminals -> Stacked]
    BY <1>1, <1>9, PushTop DEF Execute
  <2> QED
    BY <1>2, <1>9, <2>1 DEF Execute, clock, TypeOK
<1>10. CASE Halt
  <2>1. CASE Len(fds[exec]) > 1
    <3>1. fds' \in [Terminals -> Stacked]
      BY <1>1, <1>10, <2>1, PopTop DEF Halt
    <3> QED
      BY <1>2, <1>10, <3>1 DEF Halt, TypeOK
  <2>2. CASE ~(Len(fds[exec]) > 1)
    <3>1. fds' \in [Terminals -> Stacked]
      BY <1>1, <1>10, <2>2, NewShell DEF Halt
    <3> QED
      BY <1>2, <1>10, <3>1 DEF Halt, TypeOK
  <2> QED
    BY <2>1, <2>2
<1>11. CASE Tick
  BY <1>11, NextTerminalType DEF Tick, clock, TypeOK
<1>12. CASE UNCHANGED vars
  BY <1>12 DEF vars, clock, TypeOK
<1> QED
  BY <1>3, <1>4, <1>5, <1>6, <1>7, <1>8, <1>9, <1>10, <1>11, <1>12 DEF Next

(* The driver's arrays and the programs' descriptors keep their types for   *)
(* every frequency, above TargetFreq too.                                   *)
THEOREM TypeCorrect == Spec => []TypeOK
<1> QED
  BY TypeInit, TypeStep, PTL DEF Spec

----------------------------------------------------------------------------
(* A counter set to a positive period, or counted down from one, is within  *)
(* it, and one set to 0 has missed it; an open, a write, a child or a close *)
(* change which terminals are in use only as they set the counter.          *)
LEMMA CountStep ==
  ASSUME TypeOK, CountsDown, [Next]_vars
  PROVE  CountsDown'
<1>1. fds \in [Terminals -> Stacked] /\ exec \in Terminals /\ fds[exec] \in Stacked
  BY StackedType DEF TypeOK
<1>2. \A t \in Terminals : DOMAIN fds[t] = 1..Len(fds[t]) /\ Len(fds[t]) \in Nat
  BY <1>1 DEF Stacked
<1>3. CASE Handler
  BY <1>3 DEF Handler, TypeOK, CountDown, Fires, Reload, Expired, CountsDown, InUse, TooFast
<1>4. ASSUME NEW f \in Int, 2 <= f, SetFreq(f),
             \A t \in Terminals \ {exec} : fds'[t] = fds[t]
      PROVE  CountsDown'
  <2>1. asked'[exec] = f /\ counter'[exec] = TargetFreq \div f /\ period'[exec] = TargetFreq \div f
    BY <1>1, <1>4 DEF SetFreq, TypeOK
  <2>2. IF asked'[exec] > TargetFreq THEN counter'[exec] \in {0, Expired}
        ELSE counter'[exec] \in 1..period'[exec]
    <3>2. CASE f > TargetFreq
      BY <1>4, <2>1, <3>2, NoPeriod, RtcAssumption
    <3>3. CASE f <= TargetFreq
      BY <1>4, <2>1, <3>3, PeriodPositive, RtcAssumption
    <3> QED
      BY <1>4, <3>2, <3>3, RtcAssumption
  <2>3. \A t \in Terminals \ {exec} :
          counter'[t] = counter[t] /\ period'[t] = period[t] /\ asked'[t] = asked[t]
    BY <1>1, <1>4 DEF SetFreq, TypeOK
  <2> QED
    BY <1>4, <2>1, <2>2, <2>3 DEF CountsDown, InUse, TooFast
<1>5. ASSUME \A t \in Terminals : InUse(t)' => InUse(t),
             UNCHANGED <<counter, period, asked>>
      PROVE  CountsDown'
  BY <1>5 DEF CountsDown, TooFast
<1>6. CASE Open
  <2>1. \A t \in Terminals \ {exec} : fds'[t] = fds[t]
    BY <1>1, <1>6 DEF Open, SetHeld
  <2> QED
    BY <1>4, <1>6, <2>1, RtcAssumption DEF Open
<1>7. CASE Close
  <2>1. Held - 1 \in 0..MaxFds /\ Held > 0
    BY <1>1, <1>7, TopHeld, RtcAssumption DEF Close, Held
  <2>2. InUse(exec)
    BY <1>1, <2>1, TopHeld DEF InUse, Held, Last
  <2>3. \A t \in Terminals \ {exec} : fds'[t] = fds[t]
    BY <1>1, <1>7 DEF Close, SetHeld
  <2> QED
    BY <1>5, <1>7, <2>2, <2>3 DEF Close, InUse
<1>8. ASSUME NEW f \in Freqs, Write(f) PROVE CountsDown'
  BY <1>4, <1>8, RtcAssumption DEF Write, Accepts
<1>9. CASE Read
  BY <1>5, <1>9 DEF Read, InUse
<1>10. ASSUME NEW t \in Terminals, ReadReturn(t) PROVE CountsDown'
  BY <1>5, <1>10 DEF ReadReturn, clock, InUse
<1>11. CASE Execute
  <2>1. /\ fds'[exec] = Append(fds[exec], 0)
        /\ \A t \in Terminals \ {exec} : fds'[t] = fds[t]
    BY <1>1, <1>11 DEF Execute
  <2>2. InUse(exec)' => InUse(exec)
    BY <1>1, <1>2, <1>11, <2>1, PushTop DEF InUse, Stacked, Execute
  <2> QED
    BY <1>5, <1>11, <2>1, <2>2 DEF Execute, clock, InUse
<1>12. CASE Halt
  <2>1. \A t \in Terminals \ {exec} : fds'[t] = fds[t]
    BY <1>1, <1>12 DEF Halt
  <2>2. CASE Len(fds[exec]) > 1
    <3>1. fds'[exec] = Front(fds[exec])
      BY <1>1, <1>12, <2>2 DEF Halt
    <3>2. /\ DOMAIN fds'[exec] \subseteq DOMAIN fds[exec]
          /\ \A i \in DOMAIN fds'[exec] : fds'[exec][i] = fds[exec][i]
      <4>1. PICK s \in Stacked : s = fds[exec]
        BY <1>1
      <4>2. /\ DOMAIN s = 1..Len(s) /\ Len(s) \in Nat
            /\ DOMAIN Front(s) = 1..Len(Front(s))
            /\ Len(Front(s)) = Len(s) - 1
            /\ \A i \in 1..(Len(s) - 1) : Front(s)[i] = s[i]
        BY <2>2, <4>1, PopTop DEF Stacked
      <4> QED
        BY <3>1, <4>1, <4>2
    <3>3. UNCHANGED exec
      BY <1>12 DEF Halt
    <3>4. InUse(exec)' => InUse(exec)
      BY <3>2, <3>3 DEF InUse
    <3> QED
      BY <1>5, <1>12, <2>1, <3>4 DEF Halt, InUse
  <2>3. CASE ~(Len(fds[exec]) > 1)
    <3>1. fds'[exec] = <<0>>
      BY <1>1, <1>12, <2>3 DEF Halt
    <3>2. ~InUse(exec)'
      BY <3>1, <1>12, NewShell DEF InUse, Stacked, Halt
    <3> QED
      BY <1>5, <1>12, <2>1, <3>2 DEF Halt, InUse
  <2> QED
    BY <2>2, <2>3
<1>13. CASE Tick
  BY <1>5, <1>13 DEF Tick, clock, InUse
<1>14. CASE UNCHANGED vars
  BY <1>5, <1>14 DEF vars, clock, InUse
<1> QED
  BY <1>3, <1>6, <1>7, <1>8, <1>9, <1>10, <1>11, <1>12, <1>13, <1>14 DEF Next

(* For all frequencies that rtc_write accepts: a clock in use always counts *)
(* down to its next interrupt, or has been given more than TARGET_FREQ and  *)
(* has missed it for good.                                                  *)
THEOREM ClockRuns == Spec => []CountsDown
<1>1. Init => CountsDown
  BY NewShell DEF Init, CountsDown, InUse, Stacked
<1>2. TypeOK /\ CountsDown /\ [Next]_vars => CountsDown'
  BY CountStep
<1> QED
  BY <1>1, <1>2, TypeCorrect, PTL DEF Spec

(* A read that began with the clock on returns only on an interrupt that    *)
(* came since.                                                              *)
THEOREM ReadsWait == Spec => []ReadWaitsWhileOn
<1>1. Init => ReadWaitsWhileOn
  BY DEF Init, ReadWaitsWhileOn
<1>2. TypeOK /\ ReadWaitsWhileOn /\ [Next]_vars => ReadWaitsWhileOn'
  <2> SUFFICES ASSUME TypeOK, ReadWaitsWhileOn, [Next]_vars
               PROVE  ReadWaitsWhileOn'
    OBVIOUS
  <2>1. CASE Handler
    BY <2>1 DEF Handler, TypeOK, ReadWaitsWhileOn, Fires
  <2>2. CASE Open
    BY <2>2 DEF Open, Running, TypeOK, ReadWaitsWhileOn
  <2>3. CASE Close
    BY <2>3 DEF Close, Running, TypeOK, ReadWaitsWhileOn
  <2>4. ASSUME NEW f \in Freqs, Write(f) PROVE ReadWaitsWhileOn'
    BY <2>4 DEF Write, ReadWaitsWhileOn
  <2>5. CASE Read
    BY <2>5 DEF Read, ClearFlag, TypeOK, ReadWaitsWhileOn
  <2>6. ASSUME NEW t \in Terminals, ReadReturn(t) PROVE ReadWaitsWhileOn'
    BY <2>6 DEF ReadReturn, clock, TypeOK, ReadWaitsWhileOn
  <2>7. CASE Execute
    BY <2>7 DEF Execute, clock, ReadWaitsWhileOn
  <2>8. CASE Halt
    BY <2>8 DEF Halt, Running, TypeOK, ReadWaitsWhileOn
  <2>9. CASE Tick
    BY <2>9 DEF Tick, clock, ReadWaitsWhileOn
  <2>10. CASE UNCHANGED vars
    BY <2>10 DEF vars, clock, ReadWaitsWhileOn
  <2> QED
    BY <2>1, <2>2, <2>3, <2>4, <2>5, <2>6, <2>7, <2>8, <2>9, <2>10 DEF Next
<1> QED
  BY <1>1, <1>2, TypeCorrect, PTL DEF Spec

----------------------------------------------------------------------------
(* A program that spins in a read holds the clock open.                     *)
SpinHolds == \A t \in Terminals : waiting[t] => Last(fds[t]) > 0

(* Terminal t waits for an interrupt that no counter brings.                *)
Stalled(t) == waiting[t] /\ ~flag[t] /\ TooFast(t)

(* A spin is served: until the interrupt it waits for has come its counter  *)
(* never rises, and every interrupt of the clock lowers it, so it comes     *)
(* within a period whatever the programs of all terminals do; and what the  *)
(* interrupt has set stays set until the read has seen it.  A spin that     *)
(* began after more than TARGET_FREQ was asked for is never served: nothing *)
(* that the other terminals do ends it.                                     *)
ServedInTime ==
  [][\A t \in Terminals : waiting[t] =>
       \/ Stalled(t) /\ Stalled(t)'
       \/ ReadReturn(t)
       \/ waiting'[t] /\ flag'[t]
       \/ /\ waiting'[t] /\ ~Stalled(t) /\ counter[t] \in Nat /\ counter'[t] \in Nat
          /\ counter'[t] <= counter[t]
          /\ Handler => counter'[t] < counter[t]]_vars

LEMMA SpinStep ==
  ASSUME TypeOK, SpinHolds, [Next]_vars
  PROVE  SpinHolds'
<1>1. fds \in [Terminals -> Stacked] /\ exec \in Terminals /\ waiting \in [Terminals -> BOOLEAN]
  BY StackedType DEF TypeOK
<1>2. ASSUME UNCHANGED waiting, Running, \A t \in Terminals \ {exec} : fds'[t] = fds[t]
      PROVE  SpinHolds'
  BY <1>1, <1>2 DEF SpinHolds, Running
<1>3. ASSUME UNCHANGED <<waiting, fds>> PROVE SpinHolds'
  BY <1>3 DEF SpinHolds
<1>4. CASE Handler \/ Tick \/ (\E f \in Freqs : Write(f)) \/ UNCHANGED vars
  BY <1>3, <1>4 DEF Handler, Tick, Write, vars
<1>5. CASE Open \/ Close \/ Execute \/ Halt
  BY <1>1, <1>2, <1>5 DEF Open, Close, Execute, Halt, SetHeld
<1>6. CASE Read
  BY <1>1, <1>6 DEF Read, Held, SpinHolds
<1>7. ASSUME NEW t \in Terminals, ReadReturn(t) PROVE SpinHolds'
  BY <1>1, <1>7 DEF ReadReturn, SpinHolds
<1> QED
  BY <1>4, <1>5, <1>6, <1>7 DEF Next

(* So its counter is on the way to an interrupt, or has missed it.          *)
LEMMA SpinCounts ==
  ASSUME TypeOK, SpinHolds, CountsDown, NEW t \in Terminals, waiting[t]
  PROVE  IF TooFast(t) THEN counter[t] \in {0, Expired} ELSE counter[t] \in Nat /\ counter[t] >= 1
<1>1. fds[t] \in Stacked
  BY StackedType DEF TypeOK
<1>2. InUse(t)
  BY <1>1, TopHeld DEF SpinHolds, InUse, Last
<1>3. (IF TooFast(t) THEN counter[t] \in {0, Expired} ELSE counter[t] \in 1..period[t])
      /\ period[t] \in Nat
  BY <1>2 DEF CountsDown, TypeOK
<1> QED
  BY <1>3

LEMMA ServeStep ==
  ASSUME TypeOK, SpinHolds, CountsDown, [Next]_vars, NEW t \in Terminals, waiting[t]
  PROVE  \/ Stalled(t) /\ Stalled(t)'
         \/ ReadReturn(t)
         \/ waiting'[t] /\ flag'[t]
         \/ /\ waiting'[t] /\ ~Stalled(t) /\ counter[t] \in Nat /\ counter'[t] \in Nat
            /\ counter'[t] <= counter[t]
            /\ Handler => counter'[t] < counter[t]
<1>1. /\ flag[t] \in BOOLEAN /\ exec \in Terminals /\ asked[t] \in Nat
      /\ waiting \in [Terminals -> BOOLEAN] /\ flag \in [Terminals -> BOOLEAN]
      /\ counter \in [Terminals -> Nat \cup {Expired}]
  BY DEF TypeOK
<1>2. TooFast(t) => counter[t] \in {0, Expired}
  BY SpinCounts
<1>3. ~TooFast(t) => counter[t] \in Nat /\ counter[t] >= 1
  BY SpinCounts
<1>4. CASE Handler
  <2>1. waiting'[t] /\ flag'[t] = (flag[t] \/ Fires(t)) /\ counter'[t] = CountDown(t)
        /\ asked' = asked
    BY <1>4 DEF Handler
  <2>2. CASE TooFast(t)
    BY <1>1, <1>2, <2>1, <2>2 DEF Fires, Expired, Stalled, TooFast
  <2>3. CASE ~TooFast(t)
    <3>1. CASE Fires(t)
      <4>1. waiting'[t] /\ flag'[t]
        BY <2>1, <3>1
      <4> QED
        BY <4>1, Zenon
    <3>2. CASE ~Fires(t)
      <4>1. /\ counter[t] \in Nat /\ counter'[t] \in Nat
            /\ counter'[t] <= counter[t] /\ counter'[t] < counter[t]
        BY <1>3, <2>1, <2>3, <3>2 DEF CountDown, Fires
      <4>2. ~Stalled(t)
        BY <2>3 DEF Stalled
      <4> QED
        BY <2>1, <4>1, <4>2, Zenon
    <3> QED
      BY <3>1, <3>2
  <2> QED
    BY <2>2, <2>3
<1>5. ASSUME waiting'[t], flag'[t] <=> flag[t], counter'[t] = counter[t], asked'[t] = asked[t], ~Handler
      PROVE  \/ Stalled(t) /\ Stalled(t)'
             \/ waiting'[t] /\ flag'[t]
             \/ /\ waiting'[t] /\ ~Stalled(t) /\ counter[t] \in Nat /\ counter'[t] \in Nat
                /\ counter'[t] <= counter[t]
                /\ Handler => counter'[t] < counter[t]
  <2>1. CASE flag[t]
    BY <1>5, <2>1, Zenon
  <2>2. CASE ~flag[t] /\ TooFast(t)
    BY <1>1, <1>5, <2>2 DEF Stalled, TooFast
  <2>3. CASE ~flag[t] /\ ~TooFast(t)
    BY <1>1, <1>3, <1>5, <2>3 DEF Stalled
  <2> QED
    BY <2>1, <2>2, <2>3
<1>6. CASE ~Handler /\ ~(\E s \in Terminals : ReadReturn(s))
  <2>1. waiting'[t]
    BY <1>1, <1>6 DEF Next, Open, Close, Write, Read, Execute, Halt, Tick, vars
  <2>2. flag'[t] <=> flag[t]
    BY <1>1, <1>6 DEF Next, Open, Close, Write, Read, ClearFlag, Running, Execute, Halt, Tick,
       vars, clock
  <2>3. counter'[t] = counter[t]
    BY <1>1, <1>6 DEF Next, Open, Close, Write, SetFreq, Read, Running, Execute, Halt, Tick,
       vars, clock
  <2>4. asked'[t] = asked[t]
    BY <1>1, <1>6 DEF TypeOK, Next, Open, Close, Write, SetFreq, Read, Running, Execute, Halt,
       Tick, vars, clock
  <2> QED
    BY <1>5, <1>6, <2>1, <2>2, <2>3, <2>4
<1>7. ASSUME NEW s \in Terminals, ReadReturn(s), s # t, ~Handler
      PROVE  waiting'[t] /\ (flag'[t] <=> flag[t]) /\ counter'[t] = counter[t] /\ asked'[t] = asked[t]
  BY <1>1, <1>7 DEF ReadReturn, clock
<1> QED
  BY <1>4, <1>5, <1>6, <1>7

(* Whatever frequencies are written: no program, terminal or scheduling     *)
(* delays a reader beyond its period, no interrupt is lost between the      *)
(* handler that sets the flag and the read that tests it, and who is not    *)
(* served has asked for more than TARGET_FREQ (rtc_handler, rtc_write,      *)
(* rtc_read).                                                               *)
THEOREM ReadersServed == Spec => ServedInTime
<1>1. Init => SpinHolds
  BY DEF Init, SpinHolds
<1>2. TypeOK /\ SpinHolds /\ [Next]_vars => SpinHolds'
  BY SpinStep
<1>3. TypeOK /\ SpinHolds /\ CountsDown /\ [Next]_vars =>
        [\A t \in Terminals : waiting[t] =>
           \/ Stalled(t) /\ Stalled(t)'
           \/ ReadReturn(t)
           \/ waiting'[t] /\ flag'[t]
           \/ /\ waiting'[t] /\ ~Stalled(t) /\ counter[t] \in Nat /\ counter'[t] \in Nat
              /\ counter'[t] <= counter[t]
              /\ Handler => counter'[t] < counter[t]]_vars
  BY ServeStep
<1> QED
  BY <1>1, <1>2, <1>3, TypeCorrect, ClockRuns, PTL DEF Spec, ServedInTime

----------------------------------------------------------------------------
(* The controllers only decide when an interrupt comes: what happens under  *)
(* them happens in Rtc too, where it may come at any time.                  *)
LEMMA PicImplements == InitPic /\ [][NextPic]_allvars => Spec
<1>1. InitPic => Init
  BY DEF InitPic
<1>2. [NextPic]_allvars => [Next]_vars
  <2> SUFFICES ASSUME [NextPic]_allvars PROVE [Next]_vars
    OBVIOUS
  <2>1. CASE TimerInterrupt
    BY <2>1 DEF TimerInterrupt, Next
  <2>2. CASE ClockInterrupt
    BY <2>2 DEF ClockInterrupt, Next
  <2>3. CASE KeyInterrupt
    BY <2>3 DEF KeyInterrupt
  <2>4. CASE Calls
    BY <2>4 DEF Calls, Next
  <2>5. ASSUME NEW t \in Terminals, Return(t) PROVE [Next]_vars
    BY <2>5 DEF Return, Next
  <2>6. CASE UNCHANGED allvars
    BY <2>6 DEF allvars
  <2> QED
    BY <2>1, <2>2, <2>3, <2>4, <2>5, <2>6 DEF NextPic
<1> QED
  BY <1>1, <1>2, PTL DEF Spec

(* So the system with its interrupt controllers keeps the promises of the   *)
(* clock: a key that leaves its interrupt in service delays them, and no    *)
(* more.                                                                    *)
THEOREM ReadsWaitUnderPic == SpecPic => []ReadWaitsWhileOn
<1> QED
  BY PicImplements, ReadsWait, PTL DEF SpecPic

(* The clock of rtc.c counts down under the controllers too: what they hold *)
(* back is an interrupt that has come, not the count to the next.           *)
THEOREM ClockRunsUnderPic == SpecPic => []CountsDown
<1> QED
  BY PicImplements, ClockRuns, PTL DEF SpecPic

(* And under them too rtc_read is owed a bounded number of interrupts: that *)
(* a read never returns is the controllers' doing, or that of a program     *)
(* that wrote more than TARGET_FREQ.                                        *)
THEOREM ReadersServedUnderPic == SpecPic => ServedInTime
<1> QED
  BY PicImplements, ReadersServed, PTL DEF SpecPic

(* The interrupts that stay in service, and what they hold back.            *)
HeldBack ==
  /\ service \subseteq {Key} /\ Passes(Timer)
  /\ Passes(Clock) <=> Key \notin service

(* Only a key can leave its interrupt in service, and it holds back the     *)
(* clock and itself but never the timer: after it reads of the clock wait,  *)
(* and the scheduler goes on (the return of keyboard_handler that sends no  *)
(* end of interrupt).                                                       *)
THEOREM TimerNeverHeld == SpecPic => []HeldBack
<1> DEFINE Kept == service \subseteq {Key}
<1>1. InitPic => Kept
  BY DEF InitPic
<1>2. Kept /\ [NextPic]_allvars => Kept'
  <2> SUFFICES ASSUME Kept, [NextPic]_allvars PROVE service' \subseteq {Key}
    OBVIOUS
  <2>1. CASE TimerInterrupt
    BY <2>1 DEF TimerInterrupt, SendEoi, InService, Timer, Key
  <2>2. CASE ClockInterrupt
    BY <2>2 DEF ClockInterrupt, SendEoi, InService, Clock, Cascade, Key
  <2>3. CASE KeyInterrupt
    BY <2>3 DEF KeyInterrupt, KeyReturns, SendEoi, InService, Key
  <2> QED
    BY <2>1, <2>2, <2>3 DEF NextPic, Return, allvars
<1>3. Kept => HeldBack
  <2>1. Timer \notin Masks /\ Clock \notin Masks
    BY DEF Masks, EnableIrq, Timer, Clock, Key, Cascade
  <2> QED
    BY <2>1 DEF HeldBack, Passes, Timer, Clock, Key, Cascade
<1> QED
  BY <1>1, <1>2, <1>3, PTL DEF SpecPic
=============================================================================
