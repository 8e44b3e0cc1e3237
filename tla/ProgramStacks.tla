--------------------------- MODULE ProgramStacks ---------------------------
(***************************************************************************)
(* What execute, halt and the boot sequence promise together: every         *)
(* terminal holds a stack of programs, each with a pid of its own; a        *)
(* program that executes another waits under it and is on top again when    *)
(* the other halts; and a terminal that has started is never left without a *)
(* program.                                                                 *)
(***************************************************************************)
EXTENDS Naturals, Sequences

CONSTANT MaxProcs

VARIABLE progs   \* the pids of each terminal's programs, the oldest first

Terminals == 0..2
Pids      == 0..(MaxProcs - 1)

PidsOf(s) == {s[i] : i \in DOMAIN s}

(* The pids no terminal uses.                                               *)
Free == Pids \ UNION {PidsOf(progs[t]) : t \in Terminals}

Init == progs = [t \in Terminals |-> <<>>]

(* A program starts on t: the first one, or one executed by the top one.    *)
Push(t, p) ==
  /\ progs' = [progs EXCEPT ![t] = Append(@, p)]

(* The top program halts and its parent continues.                          *)
Pop(t) ==
  /\ Len(progs[t]) > 1
  /\ progs' = [progs EXCEPT ![t] = SubSeq(@, 1, Len(@) - 1)]

(* The only program halts and another takes its place at once.              *)
Replace(t, p) ==
  /\ Len(progs[t]) = 1
  /\ progs' = [progs EXCEPT ![t] = <<p>>]

Next == \E t \in Terminals :
  \/ Pop(t)
  \/ \E p \in Free : Push(t, p)
  \/ \E p \in Free \cup PidsOf(progs[t]) : Replace(t, p)

Spec == Init /\ [][Next]_progs
=============================================================================
