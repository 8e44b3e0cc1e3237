--------------------------- MODULE ProcessProofs ---------------------------
(***************************************************************************)
(* Theorems about Process for every length of the process table.            *)
(*                                                                          *)
(* The invariant the runs check is not inductive: to see that halt frees a  *)
(* pid that was counted, one must know that the halted program's parent is  *)
(* alive, that the two belong to one terminal, and that no other program is *)
(* above it.  Owned says so with two witnesses the code does not store, the *)
(* terminal and the depth of each live pid; the rest of IInv ties saved     *)
(* contexts, TSS stacks and the window of halt to the live pids.            *)
(*                                                                          *)
(* With it Process implements ProgramStacks: following the parents from a   *)
(* terminal's PCB meets its programs and no others (ProgramsListed), and a  *)
(* list that follows them is the one that ProgramsOf finds (ProgramsAre).   *)
(***************************************************************************)
EXTENDS Process, FiniteSetTheorems, SequenceTheorems, WellFoundedInduction, TLAPS

(* own and lvl place every live pid at a level of a terminal's stack of     *)
(* programs, with the terminal's PCB at the top and no place used twice.    *)
Ranked(own, lvl) ==
  /\ \A t \in Terminals : pcb[t] # NoProc =>
       pcb[t] \in busy /\ own[pcb[t]] = t /\ lvl[pcb[t]] = tnum[t]
  /\ \A t \in Terminals : pcb[t] = NoProc => tnum[t] = 0
  /\ \A p \in busy : pcb[own[p]] # NoProc /\ lvl[p] \in 1..tnum[own[p]]
  /\ \A p, q \in busy : own[p] = own[q] /\ lvl[p] = lvl[q] => p = q

(* The parent of a program above the first level is one level below it, and *)
(* is what its PCB says to return to.                                       *)
Linked(own, lvl) ==
  \A p \in busy : lvl[p] > 1 =>
    /\ parent[p] \in busy
    /\ own[parent[p]] = own[p]
    /\ lvl[parent[p]] = lvl[p] - 1
    /\ tssEsp0[p] = parent[p]
    /\ parentStack[p] = parent[p]

Owned ==
  \E own \in [Pids -> Terminals], lvl \in [Pids -> 0..MaxProcs] :
    Ranked(own, lvl) /\ Linked(own, lvl)

(* In the window of halt the pid is free, unless it was taken and the       *)
(* window's frames are lost, and its PCB leads back to the terminal's PCB.  *)
HaltWindow ==
  \A t \in Terminals : halting[t] # NoProc =>
    /\ \A u \in Terminals : pcb[u] # NoProc
    /\ t \notin lost => /\ halting[t] \notin busy
                        /\ parentStack[halting[t]] = pcb[t]

IInv ==
  /\ TypeOK
  /\ Accounting
  /\ MappingFollows
  /\ ContextOnOwnStack
  /\ Owned
  /\ HaltWindow

----------------------------------------------------------------------------
(* Adding a free pid to, or taking a used one from, the process table.      *)
LEMMA PidsFinite ==
  ASSUME NEW S \in SUBSET Pids
  PROVE  /\ IsFiniteSet(S)
         /\ Cardinality(S) \in 0..MaxProcs
<1>1. IsFiniteSet(Pids) /\ Cardinality(Pids) = MaxProcs
  BY FS_Interval, MaxProcsAssumption DEF Pids
<1>2. IsFiniteSet(S) /\ Cardinality(S) <= Cardinality(Pids)
  BY <1>1, FS_Subset
<1>3. Cardinality(S) \in Nat
  BY <1>2, FS_CardinalityType
<1> QED
  BY <1>1, <1>2, <1>3, MaxProcsAssumption

LEMMA TakePid ==
  ASSUME NEW S \in SUBSET Pids, NEW p \in Pids \ S
  PROVE  /\ S \cup {p} \in SUBSET Pids
         /\ Cardinality(S \cup {p}) = Cardinality(S) + 1
BY PidsFinite, FS_AddElement

LEMMA FreePid ==
  ASSUME NEW S \in SUBSET Pids, NEW p \in S
  PROVE  /\ S \ {p} \in SUBSET Pids
         /\ Cardinality(S \ {p}) = Cardinality(S) - 1
BY PidsFinite, FS_RemoveElement

(* The process table used, with own and lvl, is well formed for a program   *)
(* to start on exec above here others: what Ranked and Linked say, except   *)
(* that exec's PCB is only required to be in the table if here is not 0.    *)
Ready(used, here, own, lvl) ==
  /\ \A t \in Terminals \ {exec} : pcb[t] # NoProc =>
       pcb[t] \in used /\ own[pcb[t]] = t /\ lvl[pcb[t]] = tnum[t]
  /\ \A t \in Terminals \ {exec} : pcb[t] = NoProc => tnum[t] = 0
  /\ \A p \in used : own[p] # exec => pcb[own[p]] # NoProc /\ lvl[p] \in 1..tnum[own[p]]
  /\ \A p \in used : own[p] = exec => lvl[p] \in 1..here
  /\ \A p, q \in used : own[p] = own[q] /\ lvl[p] = lvl[q] => p = q
  /\ \A p \in used : lvl[p] > 1 =>
       /\ parent[p] \in used
       /\ own[parent[p]] = own[p]
       /\ lvl[parent[p]] = lvl[p] - 1
       /\ tssEsp0[p] = parent[p]
       /\ parentStack[p] = parent[p]
  /\ here > 0 => /\ pcb[exec] \in used
                  /\ own[pcb[exec]] = exec
                  /\ lvl[pcb[exec]] = here
                  /\ esp0 = pcb[exec]
                  /\ stack = pcb[exec]

(* execute keeps the stacks of programs well formed.                        *)
LEMMA StartOwned ==
  ASSUME TypeOK,
         NEW used \in SUBSET Pids, NEW here \in 0..(MaxProcs - 1), NEW count, NEW context,
         NEW new \in Pids \ used,
         NEW own \in [Pids -> Terminals], NEW lvl \in [Pids -> 0..MaxProcs],
         Start(new, used, count, here, context),
         Ready(used, here, own, lvl)
  PROVE  Owned'
<1> USE MaxProcsAssumption
<1>1. PICK own2 \in [Pids -> Terminals], lvl2 \in [Pids -> 0..MaxProcs] :
        own2 = [own EXCEPT ![new] = exec] /\ lvl2 = [lvl EXCEPT ![new] = here + 1]
  <2>1. [own EXCEPT ![new] = exec] \in [Pids -> Terminals]
    BY DEF TypeOK
  <2>2. [lvl EXCEPT ![new] = here + 1] \in [Pids -> 0..MaxProcs]
    BY DEF TypeOK
  <2> QED BY <2>1, <2>2
<1>2. /\ own2[new] = exec
      /\ lvl2[new] = here + 1
      /\ \A p \in used : own2[p] = own[p] /\ lvl2[p] = lvl[p] /\ p # new
  BY <1>1
<1>3. /\ busy' = used \cup {new}
      /\ pcb'[exec] = new
      /\ tnum'[exec] = here + 1
      /\ \A t \in Terminals \ {exec} : pcb'[t] = pcb[t] /\ tnum'[t] = tnum[t]
      /\ parent'[new] = pcb[exec] /\ tssEsp0'[new] = esp0 /\ parentStack'[new] = stack
      /\ \A p \in used : /\ parent'[p] = parent[p]
                         /\ tssEsp0'[p] = tssEsp0[p]
                         /\ parentStack'[p] = parentStack[p]
  BY DEF Start, TypeOK
<1>4. exec \in Terminals /\ NoProc \notin Pids
  BY DEF TypeOK, NoProc, Pids
<1> USE DEF Ready
<1>5. Ranked(own2, lvl2)'
  <2>1. \A t \in Terminals : pcb'[t] # NoProc =>
          pcb'[t] \in busy' /\ own2[pcb'[t]] = t /\ lvl2[pcb'[t]] = tnum'[t]
    BY <1>2, <1>3, <1>4
  <2>2. \A t \in Terminals : pcb'[t] = NoProc => tnum'[t] = 0
    BY <1>3, <1>4
  <2>3. \A p \in busy' : pcb'[own2[p]] # NoProc /\ lvl2[p] \in 1..tnum'[own2[p]]
    <3> TAKE p \in busy'
    <3>1. CASE p = new
      BY <3>1, <1>2, <1>3, <1>4
    <3>2. CASE p \in used /\ own[p] = exec
      BY <3>2, <1>2, <1>3, <1>4
    <3>3. CASE p \in used /\ own[p] # exec
      BY <3>3, <1>2, <1>3, <1>4
    <3> QED BY <3>1, <3>2, <3>3, <1>3
  <2>4. \A p, q \in busy' : own2[p] = own2[q] /\ lvl2[p] = lvl2[q] => p = q
    <3> TAKE p, q \in busy'
    <3>1. CASE p \in used /\ q \in used
      BY <3>1, <1>2
    <3>2. CASE p = new /\ q \in used
      BY <3>2, <1>2
    <3>3. CASE p \in used /\ q = new
      BY <3>3, <1>2
    <3> QED BY <3>1, <3>2, <3>3, <1>3
  <2> QED BY <2>1, <2>2, <2>3, <2>4 DEF Ranked
<1>6. Linked(own2, lvl2)'
  <2> SUFFICES ASSUME NEW p \in busy', lvl2[p] > 1
      PROVE /\ parent'[p] \in busy'
            /\ own2[parent'[p]] = own2[p]
            /\ lvl2[parent'[p]] = lvl2[p] - 1
            /\ tssEsp0'[p] = parent'[p]
            /\ parentStack'[p] = parent'[p]
    BY DEF Linked
  <2>1. CASE p = new
    BY <2>1, <1>2, <1>3
  <2>2. CASE p \in used
    BY <2>2, <1>2, <1>3
  <2> QED BY <2>1, <2>2, <1>3
<1> QED
  BY <1>5, <1>6 DEF Owned

(* execute preserves the invariant, from a table that has the counted       *)
(* programs and no pid that a halting terminal has given up.                *)
LEMMA StartInv ==
  ASSUME IInv,
         NEW used \in SUBSET busy, NEW here \in 0..MaxProcs, NEW count,
         NEW context \in Pids \cup {NoProc},
         NEW new \in Pids \ used,
         NEW own \in [Pids -> Terminals], NEW lvl \in [Pids -> 0..MaxProcs],
         Start(new, used, count, here, context),
         Ready(used, here, own, lvl),
         count = Cardinality(used),
         count = here + (tnum[0] + tnum[1] + tnum[2] - tnum[exec]),
         halting[exec] = NoProc, unacked' = unacked,
         exec' = exec, halting' = halting, disp' \in Terminals,
         vidMem' \in Pages, vidPage' \in Pages
  PROVE  IInv'
<1> USE MaxProcsAssumption
<1>0. TypeOK /\ Accounting /\ ContextOnOwnStack /\ HaltWindow
  BY DEF IInv
<1>1. /\ used \in SUBSET Pids
      /\ used \cup {new} \in SUBSET Pids
      /\ Cardinality(used \cup {new}) = count + 1
      /\ count \in 0..(MaxProcs - 1)
  <2>1. used \in SUBSET Pids
    BY <1>0 DEF TypeOK
  <2>2. used \cup {new} \in SUBSET Pids /\ Cardinality(used \cup {new}) = count + 1
    BY <2>1, TakePid
  <2>3. Cardinality(used) \in 0..MaxProcs /\ Cardinality(used \cup {new}) \in 0..MaxProcs
    BY <2>1, <2>2, PidsFinite
  <2> QED BY <2>1, <2>2, <2>3
<1>2. here \in 0..(MaxProcs - 1)
  BY <1>0, <1>1 DEF TypeOK, Terminals
<1>3. /\ busy' = used \cup {new} /\ num' = count + 1
      /\ tnum' = [tnum EXCEPT ![exec] = here + 1]
      /\ pcb' = [pcb EXCEPT ![exec] = new]
      /\ parentStack' = [parentStack EXCEPT ![new] = stack]
      /\ userStack' = [userStack EXCEPT ![new] = context]
      /\ userPd' = new /\ esp0' = new /\ stack' = new
      /\ lost' = lost \cup {t \in Terminals : halting[t] = new}
  BY DEF Start
<1>4. exec \in Terminals /\ new \in Pids /\ new # NoProc
  BY <1>0 DEF TypeOK, Pids, NoProc
<1>5. TypeOK'
  <2>1. tnum' \in [Terminals -> 0..MaxProcs] /\ num' \in 0..MaxProcs /\ busy' \subseteq Pids
    BY <1>0, <1>1, <1>2, <1>3, <1>4 DEF TypeOK
  <2>2. /\ parent' \in [Pids -> Pids \cup {NoProc}]
        /\ parentStack' \in [Pids -> Pids \cup {NoProc}]
        /\ tssEsp0' \in [Pids -> Pids \cup {NoProc}]
        /\ userStack' \in [Pids -> Pids \cup {NoProc}]
        /\ pcb' \in [Terminals -> Pids \cup {NoProc}]
    BY <1>0, <1>4 DEF TypeOK, Start
  <2> QED BY <1>0, <1>3, <1>4, <2>1, <2>2 DEF TypeOK
<1>6. Accounting'
  <2>1. tnum'[exec] = here + 1 /\ \A t \in Terminals \ {exec} : tnum'[t] = tnum[t]
    BY <1>0, <1>3, <1>4 DEF TypeOK
  <2>2. tnum'[0] + tnum'[1] + tnum'[2] = here + 1 + (tnum[0] + tnum[1] + tnum[2] - tnum[exec])
    BY <1>0, <1>2, <1>4, <2>1 DEF TypeOK, Terminals
  <2> QED BY <1>1, <1>2, <1>3, <2>2, <1>0 DEF Accounting, TypeOK, Terminals
<1>7. pcb'[exec'] = new /\ halting'[exec'] = NoProc
  BY <1>0, <1>3, <1>4 DEF TypeOK
<1>8. MappingFollows'
  BY <1>3, <1>4, <1>7 DEF MappingFollows, Current
<1>9. ContextOnOwnStack'
  <2> SUFFICES ASSUME NEW t \in Terminals, pcb'[t] # NoProc
      PROVE IF t = exec' THEN stack' = StackOf(t)' ELSE userStack'[pcb'[t]] = StackOf(t)'
    BY DEF ContextOnOwnStack
  <2>1. CASE t = exec
    BY <2>1, <1>3, <1>7 DEF StackOf
  <2>2. CASE t # exec
    <3>1. pcb'[t] = pcb[t] /\ pcb[t] \in used /\ halting'[t] = halting[t]
      BY <2>2, <1>0, <1>3 DEF TypeOK, Ready
    <3>2. userStack'[pcb[t]] = userStack[pcb[t]]
      BY <3>1, <1>0, <1>1, <1>3 DEF TypeOK
    <3> QED BY <2>2, <3>1, <3>2, <1>0 DEF ContextOnOwnStack, StackOf
  <2> QED BY <2>1, <2>2
<1>10. Owned'
  BY <1>0, <1>1, <1>2, StartOwned
<1>11. HaltWindow'
  <2> SUFFICES ASSUME NEW t \in Terminals, halting'[t] # NoProc
      PROVE /\ \A u \in Terminals : pcb'[u] # NoProc
            /\ t \notin lost' => /\ halting'[t] \notin busy'
                                 /\ parentStack'[halting'[t]] = pcb'[t]
    BY DEF HaltWindow
  <2>1. t # exec /\ halting[t] # NoProc /\ halting[t] \in Pids
    BY <1>0 DEF TypeOK
  <2>2. \A u \in Terminals : pcb'[u] # NoProc
    BY <2>1, <1>0, <1>3, <1>4 DEF HaltWindow, TypeOK
  <2>3. ASSUME t \notin lost'
        PROVE halting[t] \notin busy' /\ parentStack'[halting[t]] = pcb'[t]
    <3>1. halting[t] # new /\ t \notin lost
      BY <2>3, <1>3
    <3>2. halting[t] \notin busy /\ parentStack[halting[t]] = pcb[t]
      BY <2>1, <3>1, <1>0 DEF HaltWindow
    <3> QED BY <2>1, <3>1, <3>2, <1>0, <1>3 DEF TypeOK
  <2> QED BY <2>2, <2>3
<1> QED
  BY <1>5, <1>6, <1>8, <1>9, <1>10, <1>11 DEF IInv

----------------------------------------------------------------------------
LEMMA InitInv == Init => IInv
<1> SUFFICES ASSUME Init PROVE IInv
  OBVIOUS
<1> USE MaxProcsAssumption DEF Init
<1>1. TypeOK
  <2>1. /\ exec \in Terminals /\ disp \in Terminals /\ busy \subseteq Pids /\ num \in 0..MaxProcs
        /\ tnum \in [Terminals -> 0..MaxProcs] /\ pcb \in [Terminals -> Pids \cup {NoProc}]
        /\ halting \in [Terminals -> Pids \cup {NoProc}] /\ lost \subseteq Terminals
    BY DEF Terminals, Pids
  <2>2. /\ parent \in [Pids -> Pids \cup {NoProc}] /\ parentStack \in [Pids -> Pids \cup {NoProc}]
        /\ tssEsp0 \in [Pids -> Pids \cup {NoProc}] /\ userStack \in [Pids -> Pids \cup {NoProc}]
    OBVIOUS
  <2>3. userPd \in Pids \cup {NoProc} /\ esp0 \in Pids /\ stack \in Pids
    BY DEF Pids
  <2>4. vidMem \in Pages /\ vidPage \in Pages
    BY DEF Pages
  <2>5. unacked \in BOOLEAN
    BY Zenon
  <2> QED
    BY ONLY <2>1, <2>2, <2>3, <2>4, <2>5 DEF TypeOK
<1>2. Accounting
  BY FS_EmptySet DEF Accounting, Terminals
<1>3. MappingFollows
  BY DEF MappingFollows
<1>4. ContextOnOwnStack
  BY DEF ContextOnOwnStack
<1>5. Owned
  <2>1. PICK own \in [Pids -> Terminals], lvl \in [Pids -> 0..MaxProcs] : TRUE
    <3>1. [p \in Pids |-> 0] \in [Pids -> Terminals] /\ [p \in Pids |-> 0] \in [Pids -> 0..MaxProcs]
      BY DEF Terminals
    <3> QED BY <3>1
  <2>2. Ranked(own, lvl) /\ Linked(own, lvl)
    BY DEF Ranked, Linked
  <2> QED BY <2>2 DEF Owned
<1>6. HaltWindow
  BY DEF HaltWindow
<1> QED
  BY <1>1, <1>2, <1>3, <1>4, <1>5, <1>6 DEF IInv

(* A program that runs in user mode is alive, counted, mapped and on its    *)
(* own stack.                                                               *)
LEMMA UserFacts ==
  ASSUME IInv, UserMode
  PROVE  /\ exec \in Terminals /\ pcb[exec] \in busy /\ pcb[exec] \in Pids
         /\ tnum[exec] \in 1..MaxProcs
         /\ userPd = pcb[exec] /\ esp0 = pcb[exec] /\ stack = pcb[exec]
         /\ num \in 1..MaxProcs
<1>1. exec \in Terminals /\ pcb[exec] # NoProc
  BY DEF IInv, TypeOK, UserMode
<1>2. PICK own \in [Pids -> Terminals], lvl \in [Pids -> 0..MaxProcs] :
        Ranked(own, lvl)
  BY DEF IInv, Owned
<1>3. pcb[exec] \in busy /\ tnum[exec] \in 1..tnum[exec]
  BY <1>1, <1>2 DEF Ranked
<1>4. pcb[exec] \in Pids /\ tnum[exec] \in 1..MaxProcs
  BY <1>1, <1>3 DEF IInv, TypeOK
<1>5. num \in 1..MaxProcs
  BY <1>1, <1>4, MaxProcsAssumption DEF IInv, TypeOK, Accounting, Terminals
<1>6. userPd = pcb[exec] /\ esp0 = pcb[exec]
  BY <1>1, <1>5 DEF IInv, MappingFollows, Current, UserMode
<1>7. stack = pcb[exec]
  BY <1>1 DEF IInv, ContextOnOwnStack, StackOf, UserMode
<1> QED
  BY <1>1, <1>3, <1>4, <1>5, <1>6, <1>7

LEMMA ExecuteInv == IInv /\ Execute => IInv'
<1> SUFFICES ASSUME IInv, Execute PROVE IInv'
  OBVIOUS
<1>1. PICK new \in FirstFree(busy) : Start(new, busy, num, tnum[exec], NoProc)
  BY DEF Execute
<1>2. new \in Pids \ busy
  BY DEF FirstFree
<1>3. PICK own \in [Pids -> Terminals], lvl \in [Pids -> 0..MaxProcs] :
        Ranked(own, lvl) /\ Linked(own, lvl)
  BY DEF IInv, Owned
<1>4. UserMode /\ exec' = exec /\ halting' = halting /\ halting[exec] = NoProc
      /\ disp' = disp /\ vidMem' = vidMem /\ vidPage' = vidPage /\ unacked' = unacked
  BY DEF Execute, UserMode, video
<1>5. Ready(busy, tnum[exec], own, lvl)
  BY <1>3, <1>4, UserFacts DEF Ready, Ranked, Linked, UserMode
<1>6. /\ num = Cardinality(busy)
      /\ num = tnum[exec] + (tnum[0] + tnum[1] + tnum[2] - tnum[exec])
      /\ tnum[exec] \in 0..MaxProcs
      /\ disp' \in Terminals /\ vidMem' \in Pages /\ vidPage' \in Pages
  BY <1>4 DEF IInv, Accounting, TypeOK, Terminals
<1> QED
  BY <1>1, <1>2, <1>4, <1>5, <1>6, StartInv

LEMMA PitStartShellInv == IInv /\ ~Wild /\ PitStartShell => IInv'
<1> SUFFICES ASSUME IInv, ~Wild, PitStartShell PROVE IInv'
  OBVIOUS
<1>1. PICK new \in FirstFree(busy) : Start(new, busy, num, tnum[exec], stack)
  BY DEF PitStartShell
<1>2. new \in Pids \ busy
  BY DEF FirstFree
<1>3. PICK own \in [Pids -> Terminals], lvl \in [Pids -> 0..MaxProcs] :
        Ranked(own, lvl) /\ Linked(own, lvl)
  BY DEF IInv, Owned
<1>4. /\ exec' = exec /\ halting' = halting /\ disp' = exec /\ vidPage' = vidPage
      /\ vidMem' \in {vidMem, Screen} /\ unacked' = unacked
      /\ pcb[exec] = NoProc /\ exec \in Terminals
  BY DEF PitStartShell, IInv, TypeOK
<1>5. tnum[exec] = 0 /\ halting[exec] = NoProc
  BY <1>3, <1>4 DEF Ranked, IInv, HaltWindow
<1>6. Ready(busy, tnum[exec], own, lvl)
  BY <1>3, <1>4, <1>5 DEF Ready, Ranked, Linked
<1>7. /\ num = Cardinality(busy)
      /\ num = tnum[exec] + (tnum[0] + tnum[1] + tnum[2] - tnum[exec])
      /\ tnum[exec] \in 0..MaxProcs
      /\ disp' \in Terminals /\ vidMem' \in Pages /\ vidPage' \in Pages
      /\ stack \in Pids \cup {NoProc}
  BY <1>4 DEF IInv, Accounting, TypeOK, Terminals, Pages
<1> QED
  BY <1>1, <1>2, <1>4, <1>5, <1>6, <1>7, StartInv

LEMMA HaltLastInv == IInv /\ HaltLast => IInv'
<1> SUFFICES ASSUME IInv, HaltLast PROVE IInv'
  OBVIOUS
<1> DEFINE used == busy \ {pcb[exec]}
<1>1. PICK new \in FirstFree(used) : Start(new, used, num - 1, 0, NoProc)
  BY DEF HaltLast
<1>2. new \in Pids \ used
  BY DEF FirstFree
<1>3. PICK own \in [Pids -> Terminals], lvl \in [Pids -> 0..MaxProcs] :
        Ranked(own, lvl) /\ Linked(own, lvl)
  BY DEF IInv, Owned
<1>4. UserMode /\ exec' = exec /\ halting' = halting /\ halting[exec] = NoProc
      /\ disp' = disp /\ vidMem' = vidMem /\ vidPage' = vidPage /\ tnum[exec] = 1
      /\ unacked' = unacked
  BY DEF HaltLast, UserMode, video
<1>5. \A p \in busy : own[p] = exec => p = pcb[exec]
  <2> SUFFICES ASSUME NEW p \in busy, own[p] = exec PROVE p = pcb[exec]
    OBVIOUS
  <2>1. lvl[p] = 1
    BY <1>3, <1>4 DEF Ranked
  <2>2. pcb[exec] \in busy /\ own[pcb[exec]] = exec /\ lvl[pcb[exec]] = 1
    BY <1>3, <1>4, UserFacts DEF Ranked, UserMode
  <2> QED BY <1>3, <2>1, <2>2 DEF Ranked
<1>6. Ready(used, 0, own, lvl)
  <2>1. \A t \in Terminals \ {exec} : pcb[t] # NoProc => pcb[t] \in used
    BY <1>3, <1>4, UserFacts DEF Ranked, UserMode
  <2>2. \A p \in used : own[p] # exec
    BY <1>5
  <2>3. \A p \in used : lvl[p] > 1 => parent[p] \in used
    <3> SUFFICES ASSUME NEW p \in used, lvl[p] > 1 PROVE parent[p] # pcb[exec] /\ parent[p] \in busy
      OBVIOUS
    <3>1. parent[p] \in busy /\ own[parent[p]] = own[p] /\ own[p] # exec
      BY <1>3, <2>2 DEF Linked
    <3>2. own[pcb[exec]] = exec
      BY <1>3, <1>4, UserFacts DEF Ranked, UserMode
    <3> QED BY <3>1, <3>2
  <2> QED BY <1>3, <2>1, <2>2, <2>3 DEF Ready, Ranked, Linked
<1>7. /\ num - 1 = Cardinality(used)
      /\ used \in SUBSET busy
      /\ num - 1 = 0 + (tnum[0] + tnum[1] + tnum[2] - tnum[exec])
  <2>1. busy \in SUBSET Pids /\ pcb[exec] \in busy
    BY <1>4, UserFacts DEF IInv, TypeOK
  <2>2. Cardinality(used) = Cardinality(busy) - 1
    BY <2>1, FreePid
  <2>3. num = tnum[0] + tnum[1] + tnum[2] /\ tnum \in [Terminals -> 0..MaxProcs]
        /\ num = Cardinality(busy) /\ num \in 0..MaxProcs
    BY DEF IInv, Accounting, TypeOK
  <2> QED BY <2>2, <2>3, <1>4 DEF Terminals
<1>8. 0 \in 0..MaxProcs /\ disp' \in Terminals /\ vidMem' \in Pages /\ vidPage' \in Pages
  BY <1>4, MaxProcsAssumption DEF IInv, TypeOK
<1> HIDE DEF used
<1> QED
  BY <1>1, <1>2, <1>4, <1>6, <1>7, <1>8, StartInv

(* The first half of halt: the parent is alive, one level down, and what    *)
(* the PCB saved for it is its own stack.                                   *)
LEMMA HaltInv == IInv /\ Halt => IInv'
<1> SUFFICES ASSUME IInv, Halt PROVE IInv'
  OBVIOUS
<1> DEFINE cur  == pcb[exec]
           prev == parent[pcb[exec]]
<1>1. PICK own \in [Pids -> Terminals], lvl \in [Pids -> 0..MaxProcs] :
        Ranked(own, lvl) /\ Linked(own, lvl)
  BY DEF IInv, Owned
<1>2. /\ UserMode /\ tnum[exec] > 1
      /\ busy' = busy \ {cur} /\ num' = num - 1
      /\ tnum' = [tnum EXCEPT ![exec] = @ - 1]
      /\ userPd' = prev /\ esp0' = tssEsp0[cur]
      /\ pcb' = [pcb EXCEPT ![exec] = prev]
      /\ halting' = [halting EXCEPT ![exec] = cur]
      /\ exec' = exec /\ lost' = lost /\ stack' = stack /\ userStack' = userStack
      /\ parent' = parent /\ parentStack' = parentStack /\ tssEsp0' = tssEsp0
      /\ disp' = disp /\ vidMem' = vidMem /\ vidPage' = vidPage /\ unacked' = unacked
  BY DEF Halt, Release, ReturnEsp0, pcbData, video
<1>3. TypeOK /\ Accounting /\ ContextOnOwnStack /\ HaltWindow
  BY DEF IInv
<1>4. /\ exec \in Terminals /\ cur \in busy /\ cur \in Pids /\ cur # NoProc
      /\ tnum[exec] \in 2..MaxProcs /\ num \in 1..MaxProcs
      /\ stack = cur
      /\ \A t \in Terminals : pcb[t] # NoProc
      /\ halting[exec] = NoProc /\ exec \notin lost
  BY <1>2, UserFacts, MaxProcsAssumption DEF UserMode, Wild
<1>5. /\ prev \in busy /\ prev # cur /\ prev \in Pids /\ prev # NoProc
      /\ own[prev] = exec /\ lvl[prev] = tnum[exec] - 1
      /\ tssEsp0[cur] = prev /\ parentStack[cur] = prev
  <2>1. own[cur] = exec /\ lvl[cur] = tnum[exec]
    BY <1>1, <1>4 DEF Ranked
  <2>2. /\ prev \in busy /\ own[prev] = exec /\ lvl[prev] = tnum[exec] - 1
        /\ tssEsp0[cur] = prev /\ parentStack[cur] = prev
    BY <1>1, <1>2, <1>4, <2>1 DEF Linked
  <2>3. prev # cur /\ prev \in Pids
    BY <2>1, <2>2, <1>3, <1>4 DEF TypeOK
  <2>4. prev # NoProc
    BY <2>3 DEF Pids, NoProc
  <2> QED BY <2>2, <2>3, <2>4
<1>6. /\ busy' \in SUBSET Pids
      /\ Cardinality(busy') = Cardinality(busy) - 1
  BY <1>2, <1>3, <1>4, FreePid DEF TypeOK
<1>7. TypeOK'
  <2>1. num' \in 0..MaxProcs /\ tnum' \in [Terminals -> 0..MaxProcs]
    BY <1>2, <1>3, <1>4, MaxProcsAssumption DEF TypeOK
  <2>2. pcb' \in [Terminals -> Pids \cup {NoProc}] /\ halting' \in [Terminals -> Pids \cup {NoProc}]
        /\ userPd' \in Pids /\ esp0' \in Pids
    BY <1>2, <1>3, <1>4, <1>5 DEF TypeOK
  <2> QED BY <1>2, <1>3, <1>6, <2>1, <2>2 DEF TypeOK
<1>8. Accounting'
  <2>1. tnum'[exec] = tnum[exec] - 1 /\ \A t \in Terminals \ {exec} : tnum'[t] = tnum[t]
    BY <1>2, <1>3, <1>4 DEF TypeOK
  <2>2. tnum'[0] + tnum'[1] + tnum'[2] = tnum[0] + tnum[1] + tnum[2] - 1
    BY <1>3, <1>4, <2>1 DEF TypeOK, Terminals
  <2>3. num = Cardinality(busy) /\ num = tnum[0] + tnum[1] + tnum[2]
    BY <1>3 DEF Accounting
  <2>4. tnum[0] \in Int /\ tnum[1] \in Int /\ tnum[2] \in Int
    BY <1>3 DEF TypeOK, Terminals
  <2> QED BY <1>2, <1>4, <1>6, <2>2, <2>3, <2>4 DEF Accounting
<1>9. pcb'[exec] = prev /\ halting'[exec] = cur
      /\ \A t \in Terminals \ {exec} : pcb'[t] = pcb[t] /\ halting'[t] = halting[t]
  BY <1>2, <1>3, <1>4 DEF TypeOK
<1>10. MappingFollows'
  BY <1>2, <1>5, <1>9 DEF MappingFollows, Current
<1>11. ContextOnOwnStack'
  BY <1>2, <1>3, <1>4, <1>9 DEF ContextOnOwnStack, StackOf
<1>12. Ranked(own, lvl)'
  <2>1. \A t \in Terminals : pcb'[t] # NoProc /\ pcb'[t] \in busy'
                               /\ own[pcb'[t]] = t /\ lvl[pcb'[t]] = tnum'[t]
    <3> TAKE t \in Terminals
    <3>1. CASE t = exec
      BY <3>1, <1>2, <1>3, <1>4, <1>5, <1>9 DEF TypeOK
    <3>2. CASE t # exec
      <4>1. pcb[t] \in busy /\ own[pcb[t]] = t /\ lvl[pcb[t]] = tnum[t] /\ own[cur] = exec
        BY <1>1, <1>4 DEF Ranked
      <4> QED BY <3>2, <4>1, <1>2, <1>3, <1>4, <1>9 DEF TypeOK
    <3> QED BY <3>1, <3>2
  <2>2. \A p \in busy' : pcb'[own[p]] # NoProc /\ lvl[p] \in 1..tnum'[own[p]]
    <3> TAKE p \in busy'
    <3>1. p \in busy /\ p # cur /\ lvl[p] \in 1..tnum[own[p]] /\ own[p] \in Terminals
      BY <1>1, <1>2, <1>3 DEF Ranked, TypeOK
    <3>2. CASE own[p] = exec
      <4>1. lvl[p] # tnum[exec]
        BY <3>1, <3>2, <1>1, <1>4 DEF Ranked
      <4>2. tnum'[exec] = tnum[exec] - 1
        BY <1>2, <1>3, <1>4 DEF TypeOK
      <4> QED BY <3>1, <3>2, <4>1, <4>2, <1>4, <1>5, <1>9
    <3>3. CASE own[p] # exec
      BY <3>1, <3>3, <1>2, <1>3, <1>4, <1>9 DEF TypeOK
    <3> QED BY <3>2, <3>3
  <2>3. \A p, q \in busy' : own[p] = own[q] /\ lvl[p] = lvl[q] => p = q
    BY <1>1, <1>2 DEF Ranked
  <2> QED BY <2>1, <2>2, <2>3 DEF Ranked
<1>13. Linked(own, lvl)'
  <2> SUFFICES ASSUME NEW p \in busy', lvl[p] > 1
      PROVE /\ parent[p] \in busy /\ parent[p] # cur
            /\ own[parent[p]] = own[p]
            /\ lvl[parent[p]] = lvl[p] - 1
            /\ tssEsp0[p] = parent[p]
            /\ parentStack[p] = parent[p]
    BY <1>2 DEF Linked
  <2>1. /\ p \in busy /\ parent[p] \in busy
        /\ own[parent[p]] = own[p]
        /\ lvl[parent[p]] = lvl[p] - 1
        /\ tssEsp0[p] = parent[p]
        /\ parentStack[p] = parent[p]
    BY <1>1, <1>2 DEF Linked
  <2>2. parent[p] # cur
    <3> SUFFICES ASSUME parent[p] = cur PROVE FALSE
      OBVIOUS
    <3>1. own[p] = exec /\ lvl[p] = tnum[exec] + 1
      BY <1>1, <1>3, <1>4, <2>1 DEF Ranked, TypeOK
    <3>2. lvl[p] \in 1..tnum[exec]
      BY <1>1, <2>1, <3>1 DEF Ranked
    <3> QED BY <1>4, <3>1, <3>2
  <2> QED BY <2>1, <2>2
<1>14. HaltWindow'
  <2> SUFFICES ASSUME NEW t \in Terminals, halting'[t] # NoProc
      PROVE /\ \A u \in Terminals : pcb'[u] # NoProc
            /\ t \notin lost' => /\ halting'[t] \notin busy'
                                 /\ parentStack'[halting'[t]] = pcb'[t]
    BY DEF HaltWindow
  <2>1. \A u \in Terminals : pcb'[u] # NoProc
    BY <1>4, <1>5, <1>9
  <2>2. CASE t = exec
    BY <2>1, <2>2, <1>2, <1>5, <1>9
  <2>3. CASE t # exec
    BY <2>1, <2>3, <1>2, <1>3, <1>9 DEF HaltWindow
  <2> QED BY <2>2, <2>3
<1> QED
  BY <1>7, <1>8, <1>10, <1>11, <1>12, <1>13, <1>14 DEF IInv, Owned

(* The second half: clearing the flag again changes nothing, since the pid  *)
(* is not in use, and the CPU is back on the parent's stack.                *)
LEMMA HaltReturnInv == IInv /\ HaltReturn => IInv'
<1> SUFFICES ASSUME IInv, HaltReturn PROVE IInv'
  OBVIOUS
<1>1. /\ ~Wild /\ halting[exec] # NoProc
      /\ busy' = busy \ {halting[exec]}
      /\ stack' = parentStack[halting[exec]]
      /\ halting' = [halting EXCEPT ![exec] = NoProc]
      /\ exec' = exec /\ num' = num /\ tnum' = tnum /\ pcb' = pcb
      /\ parent' = parent /\ parentStack' = parentStack /\ tssEsp0' = tssEsp0
      /\ userStack' = userStack /\ userPd' = userPd /\ esp0' = esp0 /\ lost' = lost
      /\ disp' = disp /\ vidMem' = vidMem /\ vidPage' = vidPage /\ unacked' = unacked
  BY DEF HaltReturn, pcbData, video
<1>2. TypeOK /\ Accounting /\ MappingFollows /\ ContextOnOwnStack /\ Owned /\ HaltWindow
  BY DEF IInv
<1>3. /\ exec \in Terminals /\ halting[exec] \in Pids
      /\ halting[exec] \notin busy /\ parentStack[halting[exec]] = pcb[exec]
      /\ \A u \in Terminals : pcb[u] # NoProc
  BY <1>1, <1>2 DEF HaltWindow, Wild, TypeOK
<1>4. busy' = busy
  BY <1>1, <1>3
<1>5. TypeOK'
  <2>1. halting' \in [Terminals -> Pids \cup {NoProc}] /\ stack' \in Pids \cup {NoProc}
    BY <1>1, <1>2, <1>3 DEF TypeOK
  <2> QED BY <1>1, <1>2, <1>4, <2>1 DEF TypeOK
<1>6. Accounting'
  <2>1. Cardinality(busy') = Cardinality(busy)
    BY <1>4
  <2> QED BY <1>1, <1>2, <2>1 DEF Accounting
<1>7. MappingFollows'
  BY <1>1, <1>2, <1>3 DEF MappingFollows, Current, Wild
<1>8. ContextOnOwnStack'
  BY <1>1, <1>2, <1>3 DEF ContextOnOwnStack, StackOf, TypeOK
<1>9. Owned'
  BY <1>1, <1>2, <1>4 DEF Owned, Ranked, Linked
<1>10. HaltWindow'
  BY <1>1, <1>2, <1>3, <1>4 DEF HaltWindow, TypeOK
<1> QED
  BY <1>5, <1>6, <1>7, <1>8, <1>9, <1>10 DEF IInv

(* The steps that leave the process table alone.                            *)
LEMMA VideoInv ==
  ASSUME IInv, UNCHANGED <<exec, table, pcb, pcbData, userStack, cpu, halting, lost>>,
         disp' \in Terminals, vidMem' \in Pages, vidPage' \in Pages, unacked' \in BOOLEAN
  PROVE  IInv'
<1>1. /\ exec' = exec /\ busy' = busy /\ num' = num /\ tnum' = tnum /\ pcb' = pcb
      /\ parent' = parent /\ parentStack' = parentStack /\ tssEsp0' = tssEsp0
      /\ userStack' = userStack /\ userPd' = userPd /\ esp0' = esp0 /\ stack' = stack
      /\ halting' = halting /\ lost' = lost
  BY DEF table, pcbData, cpu
<1>2. TypeOK'
  BY <1>1 DEF IInv, TypeOK
<1>3. Accounting' /\ MappingFollows' /\ ContextOnOwnStack'
  BY <1>1 DEF IInv, Accounting, MappingFollows, Current, Wild, ContextOnOwnStack, StackOf
<1>4. Owned'
  BY <1>1 DEF IInv, Owned, Ranked, Linked
<1>5. HaltWindow'
  BY <1>1 DEF IInv, HaltWindow
<1> QED
  BY <1>2, <1>3, <1>4, <1>5 DEF IInv

LEMMA PageOfType == \A t, d \in Terminals : PageOf(t, d) \in Pages
BY DEF PageOf, Pages, Terminals, Screen

LEMMA VidmapInv == IInv /\ Vidmap => IInv'
<1> SUFFICES ASSUME IInv, Vidmap PROVE IInv'
  OBVIOUS
<1>1. disp' \in Terminals /\ vidMem' \in Pages /\ vidPage' \in Pages /\ unacked' \in BOOLEAN
  BY PageOfType DEF Vidmap, IInv, TypeOK
<1> QED
  BY <1>1, VideoInv DEF Vidmap

LEMMA KeyInv ==
  ASSUME IInv, (\E t \in Terminals : SwitchTerminal(t)) \/ Key \/ UnusedKey
  PROVE  IInv'
<1>1. disp' \in Terminals /\ vidMem' \in Pages /\ vidPage' \in Pages /\ unacked' \in BOOLEAN
  BY PageOfType DEF SwitchTerminal, Key, UnusedKey, Keyboard, IInv, TypeOK, Pages
<1> QED
  BY <1>1, VideoInv DEF SwitchTerminal, Key, UnusedKey, Keyboard

(* The terminals' PCBs are distinct.                                        *)
LEMMA PcbsDistinct ==
  ASSUME IInv, NEW t \in Terminals, NEW u \in Terminals, t # u, pcb[t] # NoProc
  PROVE  pcb[t] # pcb[u]
<1>1. PICK own \in [Pids -> Terminals], lvl \in [Pids -> 0..MaxProcs] : Ranked(own, lvl)
  BY DEF IInv, Owned
<1> QED
  BY <1>1 DEF Ranked

(* A tick that only saves the context and moves exec_terminal on.           *)
LEMMA PitEmptyInv == IInv /\ ~Wild /\ PitEmpty => IInv'
<1> SUFFICES ASSUME IInv, ~Wild, PitEmpty PROVE IInv'
  OBVIOUS
<1> DEFINE next == NextTerminal(exec)
<1>1. /\ busy' = busy /\ num' = num /\ tnum' = tnum /\ pcb' = pcb
      /\ parent' = parent /\ parentStack' = parentStack /\ tssEsp0' = tssEsp0
      /\ userPd' = userPd /\ esp0' = esp0 /\ stack' = stack
      /\ halting' = halting /\ lost' = lost
      /\ disp' = disp /\ vidMem' = vidMem /\ vidPage' = vidPage /\ unacked' = unacked
      /\ userStack' = [userStack EXCEPT ![pcb[exec]] = stack]
      /\ exec' = next /\ pcb[exec] # NoProc /\ pcb[next] = NoProc
  BY DEF PitEmpty, SaveContext, table, pcbData, cpu, video
<1>2. TypeOK /\ Accounting /\ MappingFollows /\ ContextOnOwnStack /\ Owned /\ HaltWindow
  BY DEF IInv
<1>3. exec \in Terminals /\ next \in Terminals /\ pcb[exec] \in Pids
  BY <1>1, <1>2 DEF TypeOK, Terminals, NextTerminal
<1>4. \A t \in Terminals : halting[t] = NoProc
  BY <1>1, <1>2, <1>3 DEF HaltWindow
<1>5. stack = pcb[exec] /\ (num > 0 => userPd = pcb[exec] /\ esp0 = pcb[exec])
  BY <1>1, <1>2, <1>3, <1>4 DEF ContextOnOwnStack, StackOf, MappingFollows, Current
<1>6. TypeOK'
  BY <1>1, <1>2, <1>3 DEF TypeOK
<1>7. Accounting' /\ Owned' /\ HaltWindow'
  BY <1>1, <1>2 DEF Accounting, Owned, Ranked, Linked, HaltWindow
<1>8. MappingFollows'
  BY <1>1, <1>5 DEF MappingFollows, Current
<1>9. ContextOnOwnStack'
  <2> SUFFICES ASSUME NEW t \in Terminals, pcb[t] # NoProc
      PROVE t # next /\ userStack'[pcb[t]] = pcb[t]
    BY <1>1, <1>4 DEF ContextOnOwnStack, StackOf
  <2>1. CASE t = exec
    BY <2>1, <1>1, <1>2, <1>3, <1>5 DEF TypeOK
  <2>2. CASE t # exec
    <3>1. pcb[t] # pcb[exec] /\ pcb[t] \in Pids
      BY <2>2, <1>2, <1>3, PcbsDistinct DEF TypeOK
    <3>2. userStack[pcb[t]] = pcb[t]
      BY <2>2, <1>2, <1>4 DEF ContextOnOwnStack, StackOf
    <3> QED BY <3>1, <3>2, <1>1, <1>2 DEF TypeOK
  <2> QED BY <2>1, <2>2, <1>1
<1> QED
  BY <1>6, <1>7, <1>8, <1>9 DEF IInv

(* The ordinary tick resumes the next terminal on the stack its last tick   *)
(* saved, which no other terminal's tick has overwritten.                   *)
LEMMA PitSwitchInv == IInv /\ ~Wild /\ PitSwitch => IInv'
<1> SUFFICES ASSUME IInv, ~Wild, PitSwitch PROVE IInv'
  OBVIOUS
<1> DEFINE next == NextTerminal(exec)
<1>1. /\ busy' = busy /\ num' = num /\ tnum' = tnum /\ pcb' = pcb
      /\ parent' = parent /\ parentStack' = parentStack /\ tssEsp0' = tssEsp0
      /\ userPd' = pcb[next] /\ esp0' = pcb[next]
      /\ stack' = userStack'[pcb[next]]
      /\ halting' = halting /\ lost' = lost /\ disp' = disp /\ unacked' = unacked
      /\ vidMem' = PageOf(next, disp) /\ vidPage' = PageOf(next, disp)
      /\ userStack' = [userStack EXCEPT ![pcb[exec]] = stack]
      /\ exec' = next /\ pcb[exec] # NoProc /\ pcb[next] # NoProc
  BY DEF PitSwitch, RemapVideo, SaveContext, table, pcbData
<1>2. TypeOK /\ Accounting /\ ContextOnOwnStack /\ Owned /\ HaltWindow
  BY DEF IInv
<1>3. /\ exec \in Terminals /\ next \in Terminals /\ next # exec
      /\ pcb[exec] \in Pids /\ pcb[next] \in Pids
  BY <1>1, <1>2 DEF TypeOK, Terminals, NextTerminal
<1>4. TypeOK'
  <2>1. userStack' \in [Pids -> Pids \cup {NoProc}]
    BY <1>1, <1>2, <1>3 DEF TypeOK
  <2>2. stack' \in Pids \cup {NoProc} /\ vidMem' \in Pages /\ vidPage' \in Pages
    BY <2>1, <1>1, <1>2, <1>3, PageOfType DEF TypeOK
  <2> QED BY <2>1, <2>2, <1>1, <1>2, <1>3 DEF TypeOK
<1>5. Accounting' /\ Owned' /\ HaltWindow'
  BY <1>1, <1>2 DEF Accounting, Owned, Ranked, Linked, HaltWindow
<1>6. MappingFollows'
  BY <1>1 DEF MappingFollows, Current
<1>7. \A t \in Terminals : pcb[t] # NoProc => userStack'[pcb[t]] = StackOf(t)
  <2> TAKE t \in Terminals
  <2> HAVE pcb[t] # NoProc
  <2>1. CASE t = exec
    BY <2>1, <1>1, <1>2, <1>3 DEF TypeOK, ContextOnOwnStack
  <2>2. CASE t # exec
    <3>1. pcb[t] # pcb[exec] /\ pcb[t] \in Pids
      BY <2>2, <1>2, <1>3, PcbsDistinct DEF TypeOK
    <3>2. userStack[pcb[t]] = StackOf(t)
      BY <2>2, <1>2 DEF ContextOnOwnStack
    <3> QED BY <3>1, <3>2, <1>1, <1>2 DEF TypeOK
  <2> QED BY <2>1, <2>2
<1>8. ContextOnOwnStack'
  BY <1>1, <1>3, <1>7 DEF ContextOnOwnStack, StackOf
<1> QED
  BY <1>4, <1>5, <1>6, <1>8 DEF IInv

----------------------------------------------------------------------------
LEMMA StepInv == IInv /\ [Next]_vars => IInv'
<1> SUFFICES ASSUME IInv, [Next]_vars PROVE IInv'
  OBVIOUS
<1>1. CASE Execute
  BY <1>1, ExecuteInv
<1>2. CASE HaltLast
  BY <1>2, HaltLastInv
<1>3. CASE Halt
  BY <1>3, HaltInv
<1>4. CASE HaltReturn
  BY <1>4, HaltReturnInv
<1>5. CASE Vidmap
  BY <1>5, VidmapInv
<1>6. CASE Pit
  BY <1>6, PitStartShellInv, PitEmptyInv, PitSwitchInv DEF Pit
<1>7. CASE (\E t \in Terminals : SwitchTerminal(t)) \/ Key \/ UnusedKey
  BY <1>7, KeyInv
<1>8. CASE UNCHANGED vars
  <2>1. disp' \in Terminals /\ vidMem' \in Pages /\ vidPage' \in Pages /\ unacked' \in BOOLEAN
    BY <1>8 DEF vars, video, IInv, TypeOK
  <2> QED BY <2>1, <1>8, VideoInv DEF vars
<1> QED
  BY <1>1, <1>2, <1>3, <1>4, <1>5, <1>6, <1>7, <1>8 DEF Next

(* The strengthened invariant holds in every reachable state.               *)
THEOREM Invariance == Spec => []IInv
<1> QED
  BY InitInv, StepInv, PTL DEF Spec

(* Every variable keeps its type: in particular num_programs stays within   *)
(* the process table and every PCB a halt returns to is a PCB.              *)
THEOREM TypeCorrect == Spec => []TypeOK
<1>1. IInv => TypeOK
  BY DEF IInv
<1> QED
  BY <1>1, Invariance, PTL

(* num_programs, the process flags and the terminals' counts agree.         *)
THEOREM CountsAgree == Spec => []Accounting
<1>1. IInv => Accounting
  BY DEF IInv
<1> QED
  BY <1>1, Invariance, PTL

(* A program runs with its own memory and its own TSS stack.                *)
THEOREM OwnMapping == Spec => []MappingFollows
<1>1. IInv => MappingFollows
  BY DEF IInv
<1> QED
  BY <1>1, Invariance, PTL

(* A terminal is resumed on its own kernel stack.                           *)
THEOREM OwnStack == Spec => []ContextOnOwnStack
<1>1. IInv => ContextOnOwnStack
  BY DEF IInv
<1> QED
  BY <1>1, Invariance, PTL

(* Two terminals can only share a kernel stack while one is in halt.        *)
THEOREM ExclusiveStacks == Spec => []ExclusiveOutsideWindow
<1>1. IInv => ExclusiveOutsideWindow
  BY PcbsDistinct DEF ExclusiveOutsideWindow, StacksExclusive, StackOf
<1> QED
  BY <1>1, Invariance, PTL

----------------------------------------------------------------------------
(* A set of numbers has a least one.                                       *)
LEMMA LeastOf ==
  ASSUME NEW S \in SUBSET Nat, S # {}
  PROVE  \E i \in S : \A j \in S : i <= j
<1> DEFINE R == OpToRel(<, Nat)
<1>1. IsWellFoundedOn(R, Nat)
  BY NatLessThanWellFounded
<1>2. \A x, y \in Nat : x < y => <<x, y>> \in R
  BY DEF OpToRel
<1> HIDE DEF R
<1>3. PICK i \in S : \A j \in S : ~(<<j, i>> \in R)
  BY <1>1, WFMin
<1>4. ASSUME NEW j \in S PROVE i <= j
  <2>1. i \in Nat /\ j \in Nat /\ <<j, i>> \notin R
    BY <1>3
  <2>2. ~(j < i)
    BY <1>2, <2>1, Zenon
  <2> QED
    BY <2>1, <2>2
<1> QED
  BY <1>4

(* s lists n programs, each the parent of the next one, up to top.          *)
Chain(s, n, top, up) ==
  s = [i \in 1..n |-> IF i = n THEN top
                      ELSE IF s[i + 1] \in Pids THEN up[s[i + 1]] ELSE NoProc]

(* Only one list does.                                                      *)
LEMMA ChainUnique ==
  ASSUME NEW n \in Nat, NEW top, NEW up, NEW s, NEW f,
         Chain(s, n, top, up), Chain(f, n, top, up)
  PROVE  s = f
<1>1. /\ DOMAIN s = 1..n /\ DOMAIN f = 1..n
      /\ s = [i \in 1..n |-> s[i]] /\ f = [i \in 1..n |-> f[i]]
  BY DEF Chain
<1>2. \A i \in 1..n : s[i] = f[i]
  <2> SUFFICES ASSUME NEW k \in 1..n, s[k] # f[k] PROVE FALSE
    OBVIOUS
  <2> DEFINE Differ == {m \in 0..n : n - m \in 1..n /\ s[n - m] # f[n - m]}
  <2>1. Differ \in SUBSET Nat /\ Differ # {}
    <3>1. n - k \in Differ
      OBVIOUS
    <3>2. \A m \in Differ : m \in Nat
      OBVIOUS
    <3> HIDE DEF Differ
    <3> QED
      BY <3>1, <3>2
  <2>2. PICK m \in Differ : \A j \in Differ : m <= j
    <3> HIDE DEF Differ
    <3> QED
      BY <2>1, LeastOf
  <2>3. PICK i \in 1..n : i = n - m /\ s[i] # f[i]
    BY <2>2
  <2>4. CASE i = n
    BY <2>3, <2>4 DEF Chain
  <2>5. CASE i # n
    <3>1. i + 1 \in 1..n /\ m - 1 \in 0..n /\ n - (m - 1) = i + 1 /\ ~(m <= m - 1)
      BY <2>2, <2>3, <2>5
    <3>2. s[i + 1] = f[i + 1]
      BY <2>2, <3>1
    <3> QED
      BY <2>3, <2>5, <3>2 DEF Chain
  <2> QED
    BY <2>4, <2>5
<1> QED
  BY <1>1, <1>2

(* A list that follows the links from a terminal's PCB is its programs.     *)
LEMMA ProgramsAre ==
  \A t, s : tnum[t] \in Nat /\ Chain(s, tnum[t], pcb[t], parent) => ProgramsOf(t) = s
<1> TAKE t, s
<1> HAVE tnum[t] \in Nat /\ Chain(s, tnum[t], pcb[t], parent)
<1> DEFINE g == CHOOSE f : f = [i \in 1..tnum[t] |->
                  IF i = tnum[t] THEN pcb[t]
                  ELSE IF f[i + 1] \in Pids THEN parent[f[i + 1]] ELSE NoProc]
<1>1. ProgramsOf(t) = g
  BY DEF ProgramsOf
<1>2. Chain(g, tnum[t], pcb[t], parent)
  BY DEF Chain
<1> HIDE DEF g
<1> QED
  BY <1>1, <1>2, ChainUnique

(* The same in the next state.                                             *)
LEMMA ProgramsAreNext ==
  \A t, s : tnum'[t] \in Nat /\ Chain(s, tnum'[t], pcb'[t], parent') => ProgramsOf(t)' = s
<1>1. (\A t, s : tnum[t] \in Nat /\ Chain(s, tnum[t], pcb[t], parent) => ProgramsOf(t) = s)'
  BY ProgramsAre, PTL
<1> QED
  BY <1>1

(* The programs of a terminal are in the process table, and no others'.     *)
LEMMA ProgramsListed ==
  ASSUME IInv, NEW own \in [Pids -> Terminals], NEW lvl \in [Pids -> 0..MaxProcs],
         Ranked(own, lvl), Linked(own, lvl), NEW t \in Terminals
  PROVE  /\ tnum[t] \in Nat
         /\ ProgramsOf(t) \in [1..tnum[t] -> busy]
         /\ Chain(ProgramsOf(t), tnum[t], pcb[t], parent)
         /\ \A i \in 1..tnum[t] : own[ProgramsOf(t)[i]] = t
<1>1. PICK n \in Nat : n = tnum[t]
  BY DEF IInv, TypeOK
<1>2. busy \subseteq Pids /\ NoProc \notin Pids
  BY DEF IInv, TypeOK, NoProc, Pids
<1>3. n > 0 => pcb[t] \in busy /\ own[pcb[t]] = t /\ lvl[pcb[t]] = n
  BY <1>1 DEF Ranked
<1>4. \A i \in 1..n : \E p \in busy : own[p] = t /\ lvl[p] = i
  <2> SUFFICES ASSUME NEW k \in 1..n, \A p \in busy : ~(own[p] = t /\ lvl[p] = k)
               PROVE  FALSE
    OBVIOUS
  <2> DEFINE Bare == {m \in 0..n : n - m \in 1..n
                                    /\ \A p \in busy : ~(own[p] = t /\ lvl[p] = n - m)}
  <2>1. Bare \in SUBSET Nat /\ Bare # {}
    <3>1. n - k \in Bare
      OBVIOUS
    <3>2. \A m \in Bare : m \in Nat
      OBVIOUS
    <3> HIDE DEF Bare
    <3> QED
      BY <3>1, <3>2
  <2>2. PICK m \in Bare : \A j \in Bare : m <= j
    <3> HIDE DEF Bare
    <3> QED
      BY <2>1, LeastOf
  <2>3. PICK i \in 1..n : i = n - m /\ \A p \in busy : ~(own[p] = t /\ lvl[p] = i)
    BY <2>2
  <2>4. i # n
    BY <1>3, <2>3
  <2>5. i + 1 \in 1..n /\ m - 1 \in 0..n /\ n - (m - 1) = i + 1 /\ ~(m <= m - 1)
    BY <2>2, <2>3, <2>4
  <2>6. PICK p \in busy : own[p] = t /\ lvl[p] = i + 1
    BY <2>2, <2>5
  <2>7. parent[p] \in busy /\ own[parent[p]] = t /\ lvl[parent[p]] = i
    BY <2>3, <2>6 DEF Linked
  <2> QED
    BY <2>3, <2>7
<1>5. PICK s \in [1..n -> busy] : \A i \in 1..n : own[s[i]] = t /\ lvl[s[i]] = i
  <2>1. [i \in 1..n |-> CHOOSE p \in busy : own[p] = t /\ lvl[p] = i] \in [1..n -> busy]
    BY <1>4
  <2>2. \A i \in 1..n : LET q == CHOOSE p \in busy : own[p] = t /\ lvl[p] = i
                        IN  own[q] = t /\ lvl[q] = i
    BY <1>4
  <2> QED
    BY <2>1, <2>2
<1>6. \A i \in 1..n : i # n => i + 1 \in 1..n /\ s[i] = parent[s[i + 1]]
  <2> SUFFICES ASSUME NEW i \in 1..n, i # n PROVE i + 1 \in 1..n /\ s[i] = parent[s[i + 1]]
    OBVIOUS
  <2>1. i + 1 \in 1..n /\ i + 1 > 1
    OBVIOUS
  <2>2. s[i + 1] \in busy /\ own[s[i + 1]] = t /\ lvl[s[i + 1]] = i + 1
    BY <1>5, <2>1
  <2>3. parent[s[i + 1]] \in busy /\ own[parent[s[i + 1]]] = t /\ lvl[parent[s[i + 1]]] = i
    BY <2>1, <2>2 DEF Linked
  <2>4. s[i] \in busy /\ own[s[i]] = t /\ lvl[s[i]] = i
    BY <1>5
  <2> QED
    BY <2>1, <2>3, <2>4 DEF Ranked
<1>7. n > 0 => s[n] = pcb[t]
  BY <1>3, <1>5 DEF Ranked
<1>8. Chain(s, n, pcb[t], parent)
  <2>1. \A i \in 1..n : s[i] = IF i = n THEN pcb[t]
                               ELSE IF s[i + 1] \in Pids THEN parent[s[i + 1]] ELSE NoProc
    BY <1>2, <1>5, <1>6, <1>7
  <2> QED
    BY <1>5, <2>1 DEF Chain
<1>9. ProgramsOf(t) = s
  BY <1>1, <1>8, ProgramsAre
<1> QED
  BY <1>1, <1>5, <1>8, <1>9

(* A function on 1..n is a sequence of length n.                            *)
LEMMA ListIsSeq ==
  ASSUME NEW n \in Nat, NEW S, NEW s \in [1..n -> S]
  PROVE  s \in Seq(S) /\ Len(s) = n
<1>1. s \in Seq(S)
  BY SeqDef
<1>2. Len(s) \in Nat /\ 1..Len(s) = 1..n
  BY <1>1, LenProperties
<1> QED
  BY <1>1, <1>2

(* A terminal whose count, PCB and parents stay has the programs it had.    *)
LEMMA SameChain ==
  ASSUME IInv, NEW own \in [Pids -> Terminals], NEW lvl \in [Pids -> 0..MaxProcs],
         Ranked(own, lvl), Linked(own, lvl), NEW t \in Terminals,
         tnum'[t] = tnum[t], pcb'[t] = pcb[t],
         \A i \in 1..tnum[t] : parent'[ProgramsOf(t)[i]] = parent[ProgramsOf(t)[i]]
  PROVE  ProgramsOf(t)' = ProgramsOf(t)
<1>count. PICK n \in Nat : n = tnum[t]
  BY ProgramsListed
<1>1. PICK s \in [1..n -> busy] :
        s = ProgramsOf(t) /\ n = tnum[t] /\ Chain(s, n, pcb[t], parent)
  BY <1>count, ProgramsListed
<1>2. Chain(s, n, pcb[t], parent')
  <2>1. \A i \in 1..n : s[i] = IF i = n THEN pcb[t]
                               ELSE IF s[i + 1] \in Pids THEN parent'[s[i + 1]] ELSE NoProc
    <3> TAKE i \in 1..n
    <3>1. s[i] = IF i = n THEN pcb[t]
                 ELSE IF s[i + 1] \in Pids THEN parent[s[i + 1]] ELSE NoProc
      BY <1>1 DEF Chain
    <3>2. i # n => i + 1 \in 1..n
      OBVIOUS
    <3> QED
      BY <1>1, <3>1, <3>2
  <2> QED
    BY <1>1, <2>1 DEF Chain
<1>3. tnum'[t] \in Nat /\ Chain(s, tnum'[t], pcb'[t], parent')
  BY <1>1, <1>2
<1> QED
  BY <1>1, <1>3, ProgramsAreNext

(* A pid that is not in the process table is free.                          *)
LEMMA FreeOf ==
  ASSUME \A t \in Terminals : ProgramsOf(t) \in [1..tnum[t] -> busy],
         NEW p \in Pids \ busy
  PROVE  p \in Abstract!Free
<1>1. ASSUME NEW t \in Terminals
      PROVE  p \notin Abstract!PidsOf([u \in Terminals |-> ProgramsOf(u)][t])
  BY <1>1 DEF Abstract!PidsOf
<1> QED
  BY <1>1 DEF Abstract!Free, Abstract!Pids, Abstract!Terminals, Pids, Terminals

(* A program starts on top of the ones that were there.                     *)
LEMMA PushStep ==
  ASSUME IInv, NEW new \in Pids \ busy, NEW context,
         Start(new, busy, num, tnum[exec], context)
  PROVE  new \in Abstract!Free /\ Abstract!Push(exec, new)
<1>0. PICK e \in Terminals : e = exec
  BY DEF IInv, TypeOK
<1>1. PICK own \in [Pids -> Terminals], lvl \in [Pids -> 0..MaxProcs] :
        Ranked(own, lvl) /\ Linked(own, lvl)
  BY DEF IInv, Owned
<1>2. e \in Terminals /\ e = exec /\ tnum \in [Terminals -> 0..MaxProcs]
      /\ pcb \in [Terminals -> Pids \cup {NoProc}] /\ parent \in [Pids -> Pids \cup {NoProc}]
      /\ busy \subseteq Pids /\ NoProc \notin Pids
  BY <1>0 DEF IInv, TypeOK, NoProc, Pids
<1>3. \A t \in Terminals : ProgramsOf(t) \in [1..tnum[t] -> busy]
  BY <1>1, ProgramsListed
<1>4. \A t \in Terminals \ {e} : ProgramsOf(t)' = ProgramsOf(t)
  <2> TAKE t \in Terminals \ {e}
  <2>1. tnum'[t] = tnum[t] /\ pcb'[t] = pcb[t]
    BY <1>2 DEF Start
  <2>2. \A i \in 1..tnum[t] : parent'[ProgramsOf(t)[i]] = parent[ProgramsOf(t)[i]]
    <3>1. \A i \in 1..tnum[t] : ProgramsOf(t)[i] \in busy
      BY <1>3
    <3>2. \A p \in busy : parent'[p] = parent[p]
      BY <1>2 DEF Start
    <3> QED
      BY <3>1, <3>2
  <2> QED
    BY <1>1, <2>1, <2>2, SameChain
<1>5. ProgramsOf(e)' = Append(ProgramsOf(e), new)
  <2>count. PICK n \in Nat : n = tnum[e]
    BY <1>1, <1>2, ProgramsListed
  <2>1. PICK s \in [1..n -> busy] :
          s = ProgramsOf(e) /\ n = tnum[e] /\ Chain(s, n, pcb[e], parent)
    BY <2>count, <1>1, <1>2, ProgramsListed
  <2>2. PICK f : f = [i \in 1..n + 1 |-> IF i = n + 1 THEN new ELSE s[i]]
    OBVIOUS
  <2>3. tnum'[e] = n + 1 /\ pcb'[e] = new
        /\ parent' = [parent EXCEPT ![new] = pcb[e]]
    BY <1>2, <2>1 DEF Start
  <2>4. \A i \in 1..n + 1 : f[i] = IF i = n + 1 THEN new
                                   ELSE IF f[i + 1] \in Pids THEN parent'[f[i + 1]] ELSE NoProc
    <3> TAKE i \in 1..n + 1
    <3>1. CASE i = n + 1
      BY <2>2, <3>1
    <3>2. CASE i = n
      <4>1. s[n] = pcb[e]
        BY <2>1, <3>2 DEF Chain
      <4> QED
        BY <1>2, <2>2, <2>3, <3>2, <4>1
    <3>3. CASE i < n
      <4>1. i + 1 \in 1..n /\ i \in 1..n /\ i # n
        BY <3>3
      <4>2. s[i + 1] \in busy /\ s[i + 1] \in Pids /\ s[i + 1] # new
        <5>1. s[i + 1] \in busy
          BY <2>1, <4>1
        <5> QED
          BY <1>2, <5>1
      <4>3. s[i] = parent[s[i + 1]]
        BY <2>1, <4>1, <4>2 DEF Chain
      <4>4. f[i] = s[i] /\ f[i + 1] = s[i + 1]
        BY <2>2, <4>1
      <4> QED
        BY <1>2, <2>3, <3>3, <4>2, <4>3, <4>4
    <3> QED
      BY <3>1, <3>2, <3>3
  <2>5. Chain(f, n + 1, new, parent')
    BY <2>2, <2>4 DEF Chain
  <2>6. ProgramsOf(e)' = f
    <3>1. tnum'[e] \in Nat /\ Chain(f, tnum'[e], pcb'[e], parent')
      BY <2>1, <2>3, <2>5
    <3> QED
      BY <3>1, ProgramsAreNext
  <2>7. f = Append(s, new)
    <3>0. n + 1 \in Nat /\ s \in [1..n -> Pids]
      BY <1>2, <2>1
    <3>1. s \in Seq(Pids) /\ Len(s) = n
      BY <2>1, <3>0, ListIsSeq
    <3>2. f \in [1..n + 1 -> Pids]
      BY <1>2, <2>1, <2>2
    <3>3. f \in Seq(Pids) /\ Len(f) = n + 1
      BY <3>0, <3>2, ListIsSeq
    <3>4. Append(s, new) \in Seq(Pids) /\ Len(Append(s, new)) = n + 1
          /\ \A i \in 1..n + 1 : Append(s, new)[i] = IF i = n + 1 THEN new ELSE s[i]
      BY <3>1
    <3>5. \A i \in 1..n + 1 : f[i] = Append(s, new)[i]
      BY <2>2, <3>4
    <3> QED
      BY <3>3, <3>4, <3>5, SeqEqual
  <2> QED
    BY <2>1, <2>6, <2>7
<1>6. new \in Abstract!Free
  BY <1>3, FreeOf
<1>7. [t \in Terminals |-> ProgramsOf(t)]'
        = [[t \in Terminals |-> ProgramsOf(t)] EXCEPT ![e] = Append(@, new)]
  BY <1>2, <1>4, <1>5
<1> QED
  BY <1>0, <1>6, <1>7 DEF Abstract!Push

(* The last program of a terminal halts: its shell takes its place.         *)
LEMMA ReplaceStep ==
  IInv /\ HaltLast =>
    \E p \in Abstract!Free \cup Abstract!PidsOf([t \in Terminals |-> ProgramsOf(t)][exec]) :
      Abstract!Replace(exec, p)
<1> SUFFICES ASSUME IInv, HaltLast
             PROVE  \E p \in Abstract!Free
                          \cup Abstract!PidsOf([t \in Terminals |-> ProgramsOf(t)][exec]) :
                      Abstract!Replace(exec, p)
  OBVIOUS
<1>0. PICK e \in Terminals : e = exec
  BY DEF IInv, TypeOK
<1> DEFINE used == busy \ {pcb[e]}
<1>1. PICK new \in Pids \ used : Start(new, used, num - 1, 0, NoProc)
  <2>1. PICK new \in FirstFree(used) : Start(new, used, num - 1, 0, NoProc)
    BY <1>0 DEF HaltLast
  <2>2. new \in Pids \ used
    BY DEF FirstFree
  <2> QED
    BY <2>1, <2>2
<1>2. PICK own \in [Pids -> Terminals], lvl \in [Pids -> 0..MaxProcs] :
        Ranked(own, lvl) /\ Linked(own, lvl)
  BY DEF IInv, Owned
<1>3. e \in Terminals /\ e = exec /\ tnum \in [Terminals -> 0..MaxProcs]
      /\ pcb \in [Terminals -> Pids \cup {NoProc}] /\ parent \in [Pids -> Pids \cup {NoProc}]
      /\ busy \subseteq Pids /\ tnum[e] = 1
  BY <1>0 DEF IInv, TypeOK, HaltLast
<1>4. own[pcb[e]] = e /\ pcb[e] \in busy
  BY <1>2, <1>3, UserFacts DEF Ranked, HaltLast, UserMode
<1>5. \A t \in Terminals : ProgramsOf(t) \in [1..tnum[t] -> busy]
                           /\ \A i \in 1..tnum[t] : own[ProgramsOf(t)[i]] = t
  BY <1>2, ProgramsListed
<1>6. \A t \in Terminals \ {e} : ProgramsOf(t)' = ProgramsOf(t)
  <2> TAKE t \in Terminals \ {e}
  <2>1. tnum'[t] = tnum[t] /\ pcb'[t] = pcb[t]
    BY <1>1, <1>3 DEF Start
  <2>2. \A i \in 1..tnum[t] : ProgramsOf(t)[i] \in used
    BY <1>4, <1>5
  <2>3. \A i \in 1..tnum[t] : parent'[ProgramsOf(t)[i]] = parent[ProgramsOf(t)[i]]
    BY <1>1, <1>3, <2>2 DEF Start
  <2> QED
    BY <1>2, <2>1, <2>3, SameChain
<1>7. ProgramsOf(e)' = <<new>>
  <2>1. tnum'[e] = 1 /\ pcb'[e] = new
    BY <1>1, <1>3 DEF Start
  <2>2. Chain(<<new>>, 1, new, parent')
    <3>1. <<new>> = [i \in 1..1 |-> new]
      OBVIOUS
    <3>2. \A i \in 1..1 : i = 1
      OBVIOUS
    <3> QED
      BY <3>1, <3>2 DEF Chain
  <2> QED
    BY <2>1, <2>2, ProgramsAreNext
<1>8. PICK only : ProgramsOf(e) = <<only>> /\ only = pcb[e]
  <2>1. Chain(ProgramsOf(e), 1, pcb[e], parent)
    BY <1>2, <1>3, ProgramsListed
  <2>2. ProgramsOf(e) = [i \in 1..1 |-> pcb[e]]
    BY <2>1 DEF Chain
  <2> QED
    BY <2>2
<1>9. new \in Abstract!Free \cup {pcb[e]}
  <2>1. \A t \in Terminals : ProgramsOf(t) \in [1..tnum[t] -> busy]
    BY <1>5
  <2>2. new \notin busy \/ new = pcb[e]
    BY <1>1
  <2> QED
    BY <1>1, <2>1, <2>2, FreeOf
<1>10. Abstract!PidsOf(ProgramsOf(e)) = {pcb[e]} /\ Len(ProgramsOf(e)) = 1
  BY <1>8 DEF Abstract!PidsOf
<1>11. [t \in Terminals |-> ProgramsOf(t)]'
        = [[t \in Terminals |-> ProgramsOf(t)] EXCEPT ![e] = <<new>>]
  BY <1>3, <1>6, <1>7
<1>12. [t \in Terminals |-> ProgramsOf(t)][e] = ProgramsOf(e)
  BY <1>3
<1>13. Abstract!Replace(exec, new)
  BY <1>0, <1>10, <1>11, <1>12 DEF Abstract!Replace
<1>14. new \in Abstract!Free \cup Abstract!PidsOf([t \in Terminals |-> ProgramsOf(t)][exec])
  BY <1>0, <1>9, <1>10, <1>12
<1> QED
  BY <1>13, <1>14

(* Any other program halts: its parent is on top.                           *)
LEMMA PopStep ==
  IInv /\ Halt => Abstract!Pop(exec)
<1> SUFFICES ASSUME IInv, Halt PROVE Abstract!Pop(exec)
  OBVIOUS
<1>0. PICK e \in Terminals : e = exec
  BY DEF IInv, TypeOK
<1>1. PICK own \in [Pids -> Terminals], lvl \in [Pids -> 0..MaxProcs] :
        Ranked(own, lvl) /\ Linked(own, lvl)
  BY DEF IInv, Owned
<1>2. e \in Terminals /\ e = exec /\ tnum \in [Terminals -> 0..MaxProcs]
      /\ pcb \in [Terminals -> Pids \cup {NoProc}] /\ busy \subseteq Pids /\ tnum[e] > 1
      /\ tnum' = [tnum EXCEPT ![e] = @ - 1]
      /\ pcb' = [pcb EXCEPT ![e] = parent[pcb[e]]]
      /\ parent' = parent
  BY <1>0 DEF IInv, TypeOK, Halt, Release, pcbData
<1>3. \A t \in Terminals \ {e} : ProgramsOf(t)' = ProgramsOf(t)
  <2> TAKE t \in Terminals \ {e}
  <2>1. tnum'[t] = tnum[t] /\ pcb'[t] = pcb[t]
    BY <1>2
  <2> QED
    BY <1>1, <1>2, <2>1, SameChain
<1>count. PICK n \in Nat : n = tnum[e]
  BY <1>1, <1>2, ProgramsListed
<1>4. PICK s \in [1..n -> busy] :
        s = ProgramsOf(e) /\ n = tnum[e] /\ Chain(s, n, pcb[e], parent)
  BY <1>count, <1>1, <1>2, ProgramsListed
<1>5. PICK f : f = [i \in 1..n - 1 |-> s[i]]
  OBVIOUS
<1>6. tnum'[e] = n - 1 /\ n - 1 \in Nat /\ n > 1 /\ pcb'[e] = parent[pcb[e]]
  BY <1>2, <1>4
<1>7. \A i \in 1..n - 1 : f[i] = IF i = n - 1 THEN parent[pcb[e]]
                                 ELSE IF f[i + 1] \in Pids THEN parent[f[i + 1]] ELSE NoProc
  <2> TAKE i \in 1..n - 1
  <2>1. i \in 1..n /\ i # n /\ i + 1 \in 1..n /\ n \in 1..n
    BY <1>6
  <2>2. s[i + 1] \in Pids /\ s[n] = pcb[e]
    BY <1>2, <1>4, <2>1 DEF Chain
  <2>3. s[i] = parent[s[i + 1]]
    BY <1>4, <2>1, <2>2 DEF Chain
  <2>4. f[i] = s[i]
    BY <1>5
  <2>5. CASE i = n - 1
    BY <2>2, <2>3, <2>4, <2>5, <1>6
  <2>6. CASE i # n - 1
    <3>1. i + 1 \in 1..n - 1
      BY <2>6
    <3> QED
      BY <1>5, <2>2, <2>3, <2>4, <2>6, <3>1
  <2> QED
    BY <2>5, <2>6
<1>8. Chain(f, n - 1, parent[pcb[e]], parent)
  BY <1>5, <1>7 DEF Chain
<1>9. ProgramsOf(e)' = f
  BY <1>2, <1>6, <1>8, ProgramsAreNext
<1>10. s \in Seq(busy) /\ Len(s) = n /\ f = SubSeq(s, 1, n - 1)
  <2>1. s \in Seq(busy) /\ Len(s) = n
    BY <1>4, ListIsSeq
  <2>2. f \in [1..n - 1 -> busy]
    BY <1>4, <1>5
  <2>3. f \in Seq(busy) /\ Len(f) = n - 1
    BY <1>6, <2>2, ListIsSeq
  <2>4. \A i \in 1..n - 1 : s[i] \in busy
    BY <1>4
  <2>5. /\ SubSeq(s, 1, n - 1) \in Seq(busy) /\ Len(SubSeq(s, 1, n - 1)) = n - 1
        /\ \A i \in 1..n - 1 : SubSeq(s, 1, n - 1)[i] = s[i]
    BY <1>6, <2>4, SubSeqProperties
  <2>6. \A i \in 1..n - 1 : f[i] = SubSeq(s, 1, n - 1)[i]
    BY <1>5, <2>5
  <2> QED
    BY <2>1, <2>3, <2>5, <2>6, SeqEqual
<1>11. [t \in Terminals |-> ProgramsOf(t)]'
        = [[t \in Terminals |-> ProgramsOf(t)] EXCEPT ![e] = SubSeq(@, 1, Len(@) - 1)]
  BY <1>2, <1>3, <1>4, <1>9, <1>10
<1>12. [t \in Terminals |-> ProgramsOf(t)][e] = s
  BY <1>2, <1>4
<1> QED
  BY <1>0, <1>6, <1>10, <1>11, <1>12 DEF Abstract!Pop

(* All other steps leave the stacks of programs as they are.                *)
LEMMA OtherStep ==
  ASSUME IInv, UNCHANGED <<tnum, pcb, parent>>
  PROVE  [t \in Terminals |-> ProgramsOf(t)]' = [t \in Terminals |-> ProgramsOf(t)]
<1>1. PICK own \in [Pids -> Terminals], lvl \in [Pids -> 0..MaxProcs] :
        Ranked(own, lvl) /\ Linked(own, lvl)
  BY DEF IInv, Owned
<1>2. \A t \in Terminals : ProgramsOf(t)' = ProgramsOf(t)
  BY <1>1, SameChain
<1> QED
  BY <1>2

LEMMA StacksInit == Init => Abstract!Init
<1> SUFFICES ASSUME Init PROVE \A t \in Terminals : ProgramsOf(t) = <<>>
  BY DEF Abstract!Init, Abstract!Terminals, Terminals
<1> TAKE t \in Terminals
<1>1. tnum[t] = 0
  BY DEF Init
<1>2. Chain(<<>>, 0, pcb[t], parent)
  <2>1. 1..0 = {} /\ DOMAIN <<>> = {}
    OBVIOUS
  <2> QED
    BY <2>1 DEF Chain
<1>3. tnum[t] \in Nat /\ Chain(<<>>, tnum[t], pcb[t], parent)
  BY <1>1, <1>2
<1> QED
  BY <1>3, ProgramsAre, Zenon

LEMMA StacksStep ==
  IInv /\ [Next]_vars => [Abstract!Next]_([t \in Terminals |-> ProgramsOf(t)])
<1> SUFFICES ASSUME IInv, [Next]_vars
             PROVE  [Abstract!Next]_([t \in Terminals |-> ProgramsOf(t)])
  OBVIOUS
<1> USE DEF Abstract!Next, Abstract!Terminals, Abstract!Pids
<1>1. exec \in 0..2 /\ exec \in Terminals /\ Pids = 0..MaxProcs - 1
  BY DEF IInv, TypeOK, Terminals, Pids
<1>2. CASE Execute
  <2>1. PICK new \in Pids \ busy : Start(new, busy, num, tnum[exec], NoProc)
    BY <1>2 DEF Execute, FirstFree
  <2> QED
    BY <1>1, <2>1, PushStep
<1>3. CASE Pit /\ PitStartShell
  <2>1. PICK new \in Pids \ busy : Start(new, busy, num, tnum[exec], stack)
    BY <1>3 DEF PitStartShell, FirstFree
  <2> QED
    BY <1>1, <2>1, PushStep
<1>4. CASE HaltLast
  BY <1>1, <1>4, ReplaceStep
<1>5. CASE Halt
  BY <1>1, <1>5, PopStep
<1>6. CASE UNCHANGED <<tnum, pcb, parent>>
  BY <1>6, OtherStep
<1>7. CASE HaltReturn
  BY <1>6, <1>7 DEF HaltReturn, pcbData
<1>8. CASE Vidmap
  BY <1>6, <1>8 DEF Vidmap, table, pcbData
<1>9. CASE Pit /\ (PitEmpty \/ PitSwitch)
  BY <1>6, <1>9 DEF PitEmpty, PitSwitch, table, pcbData
<1>10. CASE (\E t \in Terminals : SwitchTerminal(t)) \/ Key \/ UnusedKey
  BY <1>6, <1>10 DEF SwitchTerminal, Key, UnusedKey, Keyboard, table, pcbData
<1>11. CASE UNCHANGED vars
  BY <1>6, <1>11 DEF vars, table, pcbData
<1> QED
  BY <1>2, <1>3, <1>4, <1>5, <1>7, <1>8, <1>9, <1>10, <1>11 DEF Next, Pit

(* The process table implements a stack of programs on each terminal: a     *)
(* program starts on top, halts from the top, and a terminal's last program *)
(* is replaced at once.                                                     *)
THEOREM ImplementsStacks == Spec => Stacks
<1> QED
  BY StacksInit, StacksStep, Invariance, PTL DEF Spec, Stacks, Abstract!Spec

(* Nothing but a key without a character makes the console of a terminal    *)
(* that is not displayed write to the visible screen, and it does so no     *)
(* longer than until the timer changes the terminal.                        *)
THEOREM OwnScreen == Spec => NoScribble
<1>1. IInv /\ [Next]_vars => (~Scribbles /\ Scribbles' => UnusedKey)
                            /\ (exec' # exec => ~Scribbles')
  <2> SUFFICES ASSUME IInv, [Next]_vars
               PROVE  (~Scribbles /\ Scribbles' => UnusedKey) /\ (exec' # exec => ~Scribbles')
    OBVIOUS
  <2> USE DEF Scribbles
  <2>1. exec \in Terminals /\ pcb \in [Terminals -> Pids \cup {NoProc}]
    BY DEF IInv, TypeOK
  <2>2. CASE Execute \/ HaltLast \/ Halt
    <3>1. pcb[exec] # NoProc /\ exec' = exec /\ disp' = disp /\ vidMem' = vidMem
      BY <2>1, <2>2 DEF Execute, HaltLast, Halt, UserMode, video
    <3> QED
      BY <3>1
  <2>3. CASE HaltReturn
    BY <2>3 DEF HaltReturn, video
  <2>4. CASE Vidmap
    BY <2>4 DEF Vidmap
  <2>5. CASE PitStartShell
    BY <2>5 DEF PitStartShell
  <2>6. CASE PitEmpty
    BY <2>6 DEF PitEmpty
  <2>7. CASE PitSwitch
    BY <2>1, <2>7 DEF PitSwitch, RemapVideo, PageOf, Screen, Terminals, NextTerminal
  <2>8. ASSUME NEW t \in Terminals, SwitchTerminal(t) PROVE ~Scribbles' /\ exec' = exec
    BY <2>1, <2>8 DEF SwitchTerminal, Keyboard, PageOf, Screen, Terminals
  <2>9. CASE Key
    BY <2>1, <2>9 DEF Key, Keyboard, PageOf, Screen, Terminals
  <2>10. CASE UnusedKey
    BY <2>10 DEF UnusedKey, Keyboard
  <2>11. CASE UNCHANGED vars
    BY <2>11 DEF vars, video
  <2> QED
    BY <2>2, <2>3, <2>4, <2>5, <2>6, <2>7, <2>8, <2>9, <2>10, <2>11 DEF Next, Pit
<1> QED
  BY <1>1, Invariance, PTL DEF Spec, NoScribble

----------------------------------------------------------------------------
(* The page that vidmap gives.                                              *)
(* What a program's vidmap pointer names is right for its terminal.         *)
UserPageRight == vidPage \in {NoPage, PageOf(exec, disp)}

(* Only Alt+Fn leaves the page of a vidmap behind: no start or end of a     *)
(* program, no vidmap and no tick does.  And it is left behind for the rest *)
(* of the slice at most: whichever terminal the timer goes on to, its page  *)
(* is right.                                                                *)
PageFollowsTicks ==
  [][/\ UserPageRight /\ ~UserPageRight' => \E t \in Terminals : SwitchTerminal(t)
     /\ exec' # exec => UserPageRight']_vars

(* Until the three shells have been started, in the order 1, 2, 0, no page  *)
(* is mapped.                                                               *)
Booting ==
  (\E t \in Terminals : pcb[t] = NoProc) =>
    /\ vidPage = NoPage
    /\ \/ exec = 1 /\ pcb[2] = NoProc /\ pcb[0] = NoProc
       \/ exec = 2 /\ pcb[1] # NoProc /\ pcb[0] = NoProc
       \/ exec = 0 /\ pcb[1] # NoProc /\ pcb[2] # NoProc

(* halt returns to a program that exists.                                   *)
LEMMA ParentLives == ASSUME IInv, Halt PROVE parent[pcb[exec]] # NoProc
<1>1. UserMode /\ tnum[exec] > 1
  BY DEF Halt
<1>2. exec \in Terminals /\ pcb[exec] \in busy /\ pcb[exec] # NoProc
  BY <1>1, UserFacts DEF UserMode
<1>3. PICK own \in [Pids -> Terminals], lvl \in [Pids -> 0..MaxProcs] :
        Ranked(own, lvl) /\ Linked(own, lvl)
  BY DEF IInv, Owned
<1>4. lvl[pcb[exec]] > 1
  BY <1>1, <1>2, <1>3 DEF Ranked
<1>5. parent[pcb[exec]] \in busy /\ busy \subseteq Pids
  BY <1>2, <1>3, <1>4 DEF Linked, IInv, TypeOK
<1> QED
  BY <1>5, MaxProcsAssumption DEF Pids, NoProc

(* A terminal that has a program keeps one.                                 *)
LEMMA KeepsShell ==
  ASSUME IInv, [Next]_vars, NEW t \in Terminals, pcb[t] # NoProc
  PROVE  pcb'[t] # NoProc
<1>1. pcb \in [Terminals -> Pids \cup {NoProc}] /\ exec \in Terminals /\ busy \subseteq Pids
  BY DEF IInv, TypeOK
<1>2. ASSUME NEW new \in Pids, pcb' = [pcb EXCEPT ![exec] = new] PROVE pcb'[t] # NoProc
  BY <1>1, <1>2, MaxProcsAssumption DEF Pids, NoProc
<1>3. CASE Execute
  BY <1>2, <1>3 DEF Execute, Start, FirstFree
<1>4. CASE HaltLast
  BY <1>2, <1>4 DEF HaltLast, Start, FirstFree
<1>5. CASE PitStartShell
  BY <1>2, <1>5 DEF PitStartShell, Start, FirstFree
<1>6. CASE Halt
  BY <1>1, <1>6, ParentLives DEF Halt
<1>7. CASE HaltReturn \/ Vidmap \/ PitEmpty \/ PitSwitch \/ UNCHANGED vars
  BY <1>7 DEF HaltReturn, Vidmap, PitEmpty, PitSwitch, vars
<1>8. CASE (\E d \in Terminals : SwitchTerminal(d)) \/ Key \/ UnusedKey
  BY <1>8 DEF SwitchTerminal, Key, UnusedKey, Keyboard
<1> QED
  BY <1>3, <1>4, <1>5, <1>6, <1>7, <1>8 DEF Next, Pit

(* The order in which the shells are started.                               *)
LEMMA BootingStep == ASSUME IInv, Booting, [Next]_vars PROVE Booting'
<1>1. pcb \in [Terminals -> Pids \cup {NoProc}] /\ exec \in Terminals
  BY DEF IInv, TypeOK
<1>2. \A t \in Terminals : pcb[t] # NoProc => pcb'[t] # NoProc
  BY KeepsShell
<1>3. Terminals = {0, 1, 2}
  BY DEF Terminals
<1>4. CASE \A t \in Terminals : pcb[t] # NoProc
  BY <1>2, <1>4 DEF Booting
<1>5. ASSUME \E t \in Terminals : pcb[t] = NoProc PROVE Booting'
  <2>1. /\ vidPage = NoPage
        /\ \/ exec = 1 /\ pcb[2] = NoProc /\ pcb[0] = NoProc
           \/ exec = 2 /\ pcb[1] # NoProc /\ pcb[0] = NoProc
           \/ exec = 0 /\ pcb[1] # NoProc /\ pcb[2] # NoProc
    BY <1>5 DEF Booting
  <2>2. ~UserMode /\ \A t \in Terminals : halting[t] = NoProc
    BY <1>5 DEF UserMode, IInv, HaltWindow
  <2>3. CASE PitStartShell
    <3>1. exec' = exec /\ vidPage' = vidPage /\ \A t \in Terminals : t # exec => pcb'[t] = pcb[t]
      BY <1>1, <2>3 DEF PitStartShell, Start
    <3> QED
      BY <1>2, <1>3, <2>1, <3>1 DEF Booting
  <2>4. CASE PitEmpty
    <3>1. exec' = NextTerminal(exec) /\ pcb' = pcb /\ vidPage' = vidPage /\ pcb[exec] # NoProc
          /\ pcb[NextTerminal(exec)] = NoProc
      BY <2>4 DEF PitEmpty, video
    <3>2. /\ exec = 1 => NextTerminal(exec) = 2
          /\ exec = 2 => NextTerminal(exec) = 0
          /\ exec = 0 => NextTerminal(exec) = 1
      BY DEF NextTerminal
    <3> QED
      BY <2>1, <3>1, <3>2 DEF Booting
  <2>5. ~PitSwitch
    <3>1. /\ exec = 1 => NextTerminal(exec) = 2
          /\ exec = 2 => NextTerminal(exec) = 0
          /\ exec = 0 => NextTerminal(exec) = 1
      BY DEF NextTerminal
    <3>2. ASSUME exec = 0 PROVE pcb[exec] = NoProc
      BY <1>3, <1>5, <2>1, <3>2
    <3> QED
      BY <2>1, <3>1, <3>2 DEF PitSwitch
  <2>6. CASE (\E d \in Terminals : SwitchTerminal(d)) \/ Key \/ UnusedKey
    BY <2>1, <2>6 DEF SwitchTerminal, Key, UnusedKey, Keyboard, Booting
  <2>7. CASE UNCHANGED vars
    BY <2>1, <2>7 DEF vars, video, Booting
  <2> QED
    BY <1>1, <2>2, <2>3, <2>4, <2>5, <2>6, <2>7
    DEF Next, Pit, Execute, HaltLast, Halt, HaltReturn, Vidmap
<1> QED
  BY <1>4, <1>5

(* What each step does to the page.                                         *)
LEMMA PageStep ==
  ASSUME IInv, Booting, [Next]_vars
  PROVE  /\ UserPageRight /\ ~UserPageRight' => \E t \in Terminals : SwitchTerminal(t)
         /\ exec' # exec => UserPageRight'
<1> USE DEF UserPageRight
<1>1. CASE Execute \/ HaltLast \/ Halt \/ HaltReturn
  BY <1>1 DEF Execute, HaltLast, Halt, HaltReturn, video
<1>2. CASE Vidmap
  BY <1>2 DEF Vidmap
<1>3. CASE PitStartShell
  <2>1. vidPage' = NoPage /\ exec' = exec
    BY <1>3 DEF PitStartShell, Booting, IInv, TypeOK
  <2> QED
    BY <2>1
<1>4. CASE PitEmpty
  <2>1. NextTerminal(exec) \in Terminals
    BY DEF NextTerminal, Terminals, IInv, TypeOK
  <2>2. vidPage' = NoPage
    BY <1>4, <2>1 DEF PitEmpty, Booting, video
  <2> QED
    BY <2>2
<1>5. CASE PitSwitch
  BY <1>5 DEF PitSwitch, RemapVideo
<1>6. ASSUME NEW t \in Terminals, SwitchTerminal(t) PROVE exec' = exec
  BY <1>6 DEF SwitchTerminal, Keyboard
<1>7. CASE Key \/ UnusedKey
  BY <1>7 DEF Key, UnusedKey, Keyboard
<1>8. CASE UNCHANGED vars
  BY <1>8 DEF vars, video
<1> QED
  BY <1>1, <1>2, <1>3, <1>4, <1>5, <1>6, <1>7, <1>8 DEF Next, Pit

(* A vidmap pointer shows another terminal's screen only after Alt+Fn and   *)
(* only until the next tick that goes on to another terminal (keyboard.c:275 *)
(* remaps only the console's page, by set_vidmem; pit_handler also calls    *)
(* switch_vid).                                                             *)
THEOREM UserPageFollows == Spec => PageFollowsTicks
<1>1. Init => Booting
  BY DEF Init, Booting, Terminals
<1>2. IInv /\ Booting /\ [Next]_vars => Booting'
  BY BootingStep
<1>3. IInv /\ Booting /\ [Next]_vars =>
        [/\ UserPageRight /\ ~UserPageRight' => \E t \in Terminals : SwitchTerminal(t)
         /\ exec' # exec => UserPageRight']_vars
  BY PageStep
<1> QED
  BY <1>1, <1>2, <1>3, Invariance, PTL DEF Spec, PageFollowsTicks
=============================================================================
