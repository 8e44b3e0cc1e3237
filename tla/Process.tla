------------------------------ MODULE Process ------------------------------
(***************************************************************************)
(* Processes, terminals and the scheduler of the kernel in                  *)
(* mp3_group_29-master/student-distrib: the process table (process_flag,    *)
(* num_programs, the PCBs at the bottom of the 8 KB kernel stacks), the     *)
(* system calls execute, halt and vidmap, the timer handler that starts the *)
(* three shells and then runs the terminals round robin, and the keyboard   *)
(* handler's mapping of the video page: it maps the display while it draws  *)
(* and the executing terminal's page when it returns, except on a key       *)
(* without a character.                                                     *)
(*                                                                          *)
(* Interrupts are off inside every handler, so an operation is one step,    *)
(* except halt: it executes sti (syscalls.c:59) before it clears its        *)
(* process_flag for the second time and jumps back into the parent's        *)
(* execute.  Halt is therefore two steps with a window between them in      *)
(* which the timer may run the other terminals.                             *)
(*                                                                          *)
(* A kernel stack, a PCB, a user page and a TSS stack pointer all belong to *)
(* one pid, so each is represented by that pid.                             *)
(***************************************************************************)
EXTENDS Integers, FiniteSets

CONSTANT MaxProcs   \* length of process_flag: 6 in the code

\* Room for the three shells, and num_programs is a uint8_t.
ASSUME MaxProcsAssumption == MaxProcs \in 3..255

VARIABLES
  exec,         \* exec_terminal
  disp,         \* disp_terminal
  busy,         \* the pids whose process_flag is set
  num,          \* num_programs
  tnum,         \* terminals[t].num_programs
  pcb,          \* terminals[t].pcb, as the pid that owns the PCB
  parent,       \* parent_pcb of each PCB
  parentStack,  \* the kernel stack that parent_esp and parent_ebp point into
  tssEsp0,      \* tss_esp0 of each PCB: the TSS stack its parent ran with
  userStack,    \* the kernel stack that user_esp and user_ebp point into
  userPd,       \* page_directory[32]: whose 4 MB page is mapped at 128 MB
  esp0,         \* tss.esp0: whose kernel stack the next trap uses
  stack,        \* the kernel stack (hence the process) the CPU is on
  vidMem,       \* page_table[0xB8]: the page the kernel's console writes to
  vidPage,      \* page_table[0]: the page a program's vidmap pointer names
  halting,      \* the pid that terminal t is halting, between sti and the jump
  unacked,      \* a keyboard interrupt was not acknowledged: no other comes
  lost          \* terminals whose suspended kernel frames were overwritten

table   == <<busy, num, tnum>>
pcbData == <<parent, parentStack, tssEsp0>>
cpu     == <<userPd, esp0, stack>>
video   == <<disp, vidMem, vidPage>>
vars    == <<exec, table, pcb, pcbData, userStack, cpu, video, halting, unacked, lost>>

Terminals == 0..2
Pids      == 0..(MaxProcs - 1)
NoProc    == -1              \* a NULL PCB, or a pointer into no kernel stack

Screen   == 0                \* VIDEO_ADDRESS
NoPage   == -1               \* not present
Pages    == {NoPage, Screen} \cup {t + 1 : t \in Terminals}

(* VIDEO_ADDRESS for the displayed terminal, otherwise its vid_mem page.    *)
PageOf(t, d) == IF t = d THEN Screen ELSE t + 1

(* The next terminal in turn.                                               *)
NextTerminal(t) == (t + 1) % 3

AlwaysFirst(used) == {0}

(* The pid the allocation loop of execute takes: the first free one.        *)
FirstFree(used) == {p \in Pids \ used : \A q \in Pids \ used : p <= q}

(* The CPU is about to run over, or has run over, frames that are gone.     *)
(* What happens then is undefined: no step is taken.                        *)
Wild == exec \in lost

(* A program runs in user mode and may make a system call.  The three       *)
(* shells are started in the first five ticks, 50 ms, in which the shells   *)
(* already started wait in terminal_read: no command line is typed by then, *)
(* so no program starts or ends before every terminal has its shell.        *)
UserMode ==
  /\ ~Wild
  /\ \A t \in Terminals : pcb[t] # NoProc
  /\ halting[exec] = NoProc

Init ==
  /\ exec = 1
  /\ disp = 0
  /\ busy = {}
  /\ num = 0
  /\ tnum = [t \in Terminals |-> 0]
  /\ pcb = [t \in Terminals |-> NoProc]
  /\ parent = [p \in Pids |-> NoProc]
  /\ parentStack = [p \in Pids |-> NoProc]
  /\ tssEsp0 = [p \in Pids |-> NoProc]
  /\ userStack = [p \in Pids |-> NoProc]
  /\ userPd = NoProc
  /\ esp0 = 0                \* 0x800000, which is also pid 0's stack
  /\ stack = 0
  /\ vidMem = Screen
  /\ vidPage = NoPage
  /\ halting = [t \in Terminals |-> NoProc]
  /\ unacked = FALSE
  /\ lost = {}

----------------------------------------------------------------------------
(* execute, from the choice of the pid to the switch to user mode.  used,   *)
(* count and here are process_flag, num_programs and the terminal's         *)
(* num_programs on entry; context is the user_esp of a scheduled PCB.  The  *)
(* new program's stack may still hold frames of a terminal that is halting. *)
Start(new, used, count, here, context) ==
  /\ busy' = used \cup {new}
  /\ num' = count + 1
  /\ tnum' = [tnum EXCEPT ![exec] = here + 1]
  /\ parent' = [parent EXCEPT ![new] = pcb[exec]]
  /\ parentStack' = [parentStack EXCEPT ![new] = stack]
  /\ tssEsp0' = [tssEsp0 EXCEPT ![new] = esp0]
  /\ userStack' = [userStack EXCEPT ![new] = context]
  /\ pcb' = [pcb EXCEPT ![exec] = new]
  /\ userPd' = new
  /\ esp0' = new
  /\ stack' = new
  /\ lost' = lost \cup {t \in Terminals : halting[t] = new}

(* A program executes another one.  The paths that return without starting  *)
(* it (bad name, no such file, not an ELF image, MaxProcs programs already) *)
(* change nothing.                                                          *)
Execute ==
  /\ UserMode
  /\ num < MaxProcs
  /\ \E new \in FirstFree(busy) :
       Start(new, busy, num, tnum[exec], NoProc)
  /\ UNCHANGED <<exec, video, halting, unacked>>

(* halt of the last program of a terminal starts a new shell in its place,  *)
(* from inside halt; the call to execute never returns.                     *)
HaltLast ==
  /\ UserMode
  /\ tnum[exec] = 1
  /\ LET used == busy \ {pcb[exec]}
     IN  \E new \in FirstFree(used) : Start(new, used, num - 1, 0, NoProc)
  /\ UNCHANGED <<exec, video, halting, unacked>>

ReleaseKeepsNum(cur) ==
  /\ busy' = busy \ {cur}
  /\ num' = num
  /\ tnum' = [tnum EXCEPT ![exec] = @ - 1]

(* halt takes the program out of the process table.                         *)
Release(cur) ==
  /\ busy' = busy \ {cur}
  /\ num' = num - 1
  /\ tnum' = [tnum EXCEPT ![exec] = @ - 1]

KeepEsp0(cur) == esp0

(* The TSS stack halt restores for the parent.                              *)
ReturnEsp0(cur) == tssEsp0[cur]

(* halt of any other program, up to sti: the pid is free, the parent is the *)
(* terminal's program again, and the CPU is still on the old kernel stack.  *)
Halt ==
  /\ UserMode
  /\ tnum[exec] > 1
  /\ LET cur == pcb[exec]
     IN  /\ Release(cur)
         /\ userPd' = parent[cur]
         /\ esp0' = ReturnEsp0(cur)
         /\ pcb' = [pcb EXCEPT ![exec] = parent[cur]]
         /\ halting' = [halting EXCEPT ![exec] = cur]
  /\ UNCHANGED <<exec, pcbData, userStack, stack, video, unacked, lost>>

(* The rest of halt: process_flag is cleared again and the CPU goes back to *)
(* the frame of execute that the parent left on its kernel stack.           *)
HaltReturn ==
  /\ ~Wild
  /\ halting[exec] # NoProc
  /\ busy' = busy \ {halting[exec]}
  /\ stack' = parentStack[halting[exec]]
  /\ halting' = [halting EXCEPT ![exec] = NoProc]
  /\ UNCHANGED <<exec, num, tnum, pcb, pcbData, userStack, userPd, esp0, video, unacked, lost>>

(* vidmap with a good pointer: switch_vid.                                  *)
Vidmap ==
  /\ UserMode
  /\ vidPage' = PageOf(exec, disp)
  /\ UNCHANGED <<exec, table, pcb, pcbData, userStack, cpu, disp, vidMem, halting, unacked>>
  /\ UNCHANGED lost

----------------------------------------------------------------------------
(* pit_handler on a terminal without a PCB: display the terminal and start  *)
(* its shell.  switch_terminal restores the video mapping only when the     *)
(* terminal was not the displayed one.                                      *)
PitStartShell ==
  /\ pcb[exec] = NoProc
  /\ disp' = exec
  /\ vidMem' = IF disp = exec THEN vidMem ELSE Screen
  /\ \E new \in FirstFree(busy) :
       Start(new, busy, num, tnum[exec], stack)
  /\ UNCHANGED <<exec, vidPage, halting, unacked>>

SaveAfterSwitch == [userStack EXCEPT ![pcb[NextTerminal(exec)]] = stack]

(* pit_handler saves the interrupted context in the PCB of exec_terminal.   *)
SaveContext == [userStack EXCEPT ![pcb[exec]] = stack]

RemapConsoleOnly(t) == vidMem' = PageOf(t, disp) /\ vidPage' = vidPage
RemapUserOnly(t)    == vidPage' = PageOf(t, disp) /\ vidMem' = vidMem

(* switch_vid and set_vidmem for terminal t.                                *)
RemapVideo(t) == vidPage' = PageOf(t, disp) /\ vidMem' = PageOf(t, disp)

(* The next terminal has no PCB yet: the handler returns into the old       *)
(* program, which runs on under the new exec_terminal.                      *)
PitEmpty ==
  LET next == NextTerminal(exec)
  IN  /\ pcb[exec] # NoProc
      /\ pcb[next] = NoProc
      /\ userStack' = SaveContext
      /\ exec' = next
      /\ UNCHANGED <<table, pcb, pcbData, cpu, video, halting, unacked, lost>>

(* The ordinary tick: save here, map the next program's video page, memory  *)
(* and TSS stack, and load the context its own last tick saved.             *)
PitSwitch ==
  LET next == NextTerminal(exec)
  IN  /\ pcb[exec] # NoProc
      /\ pcb[next] # NoProc
      /\ userStack' = SaveContext
      /\ exec' = next
      /\ RemapVideo(next)
      /\ userPd' = pcb[next]
      /\ esp0' = pcb[next]
      /\ stack' = SaveContext[pcb[next]]
      /\ UNCHANGED <<table, pcb, pcbData, disp, halting, unacked, lost>>

Pit == ~Wild /\ (PitStartShell \/ PitEmpty \/ PitSwitch)

(* keyboard_handler: nothing of the processes changes.                      *)
Keyboard ==
  /\ ~Wild
  /\ ~unacked
  /\ UNCHANGED <<exec, table, pcb, pcbData, userStack, cpu, vidPage, halting, lost>>

(* Alt+F1..F3: switch_terminal, then set_vidmem for the executing terminal. *)
SwitchTerminal(t) ==
  /\ Keyboard
  /\ disp' = t
  /\ vidMem' = PageOf(exec, t)
  /\ UNCHANGED unacked

(* Any other key: what it draws is module Console's.                        *)
Key ==
  /\ Keyboard
  /\ vidMem' = PageOf(exec, disp)
  /\ UNCHANGED <<disp, unacked>>

(* A key without a character: restore_vidmem, and the handler returns with  *)
(* neither set_vidmem nor send_eoi.                                         *)
UnusedKey ==
  /\ Keyboard
  /\ vidMem' = Screen
  /\ unacked' = TRUE
  /\ UNCHANGED disp

----------------------------------------------------------------------------
Next ==
  \/ Execute
  \/ HaltLast
  \/ Halt
  \/ HaltReturn
  \/ Vidmap
  \/ Pit
  \/ \E t \in Terminals : SwitchTerminal(t)
  \/ Key
  \/ UnusedKey

Spec == Init /\ [][Next]_vars

(* The timer never stops, and it finds interrupts on again in every state. *)
FairSpec == Spec /\ WF_vars(Pit)

----------------------------------------------------------------------------
(* The programs of terminal t from its shell up, found by following         *)
(* parent_pcb from terminals[t].pcb for num_programs links.                 *)
ProgramsOf(t) ==
  LET n == tnum[t]
      f[i \in 1..n] == IF i = n THEN pcb[t]
                       ELSE IF f[i + 1] \in Pids THEN parent[f[i + 1]] ELSE NoProc
  IN  f

(* The kernel stack terminal t runs on: the one of its program, or the old  *)
(* program's while halt is in its window.                                   *)
StackOf(t) == IF halting[t] # NoProc THEN halting[t] ELSE pcb[t]

(* The program whose memory and TSS stack must be in place.                 *)
Current == IF pcb[exec] # NoProc THEN pcb[exec] ELSE stack

TypeOK ==
  /\ exec \in Terminals
  /\ disp \in Terminals
  /\ busy \subseteq Pids
  /\ num \in 0..MaxProcs
  /\ tnum \in [Terminals -> 0..MaxProcs]
  /\ pcb \in [Terminals -> Pids \cup {NoProc}]
  /\ parent \in [Pids -> Pids \cup {NoProc}]
  /\ parentStack \in [Pids -> Pids \cup {NoProc}]
  /\ tssEsp0 \in [Pids -> Pids \cup {NoProc}]
  /\ userStack \in [Pids -> Pids \cup {NoProc}]
  /\ userPd \in Pids \cup {NoProc}
  /\ esp0 \in Pids \cup {NoProc}
  /\ stack \in Pids \cup {NoProc}
  /\ vidMem \in Pages
  /\ vidPage \in Pages
  /\ halting \in [Terminals -> Pids \cup {NoProc}]
  /\ unacked \in BOOLEAN
  /\ lost \subseteq Terminals

(* The three counts of programs agree: num_programs is the number of set    *)
(* process flags and the sum of the terminals' counts, so execute's test    *)
(* num_programs >= 6 is exact and its pid_full branch is never taken.       *)
Accounting ==
  /\ num = Cardinality(busy)
  /\ num = tnum[0] + tnum[1] + tnum[2]

(* The memory at 128 MB and the stack of the next trap belong to the        *)
(* program of the executing terminal, at every point where an interrupt can *)
(* come: halt's restored tss_esp0 and the scheduler's computed one agree.   *)
MappingFollows ==
  num > 0 /\ ~Wild => userPd = Current /\ esp0 = Current

(* A terminal is always resumed on its own kernel stack: the CPU is on it   *)
(* while the terminal executes, and the saved context points into it while  *)
(* it does not, including after a tick in the window of halt.               *)
ContextOnOwnStack ==
  \A t \in Terminals : pcb[t] # NoProc =>
    IF t = exec THEN stack = StackOf(t) ELSE userStack[pcb[t]] = StackOf(t)

(* The console of a program's terminal would write to the screen of another *)
(* one.                                                                     *)
Scribbles == vidMem = Screen /\ disp # exec /\ pcb[exec] # NoProc

(* The console of a terminal that is not displayed does not write to the    *)
(* visible screen: switches, ticks, system calls and keys never make it so, *)
(* but for a key without a character, and what that leaves is gone when the *)
(* timer next changes the terminal.                                         *)
NoScribble ==
  [][/\ ~Scribbles /\ Scribbles' => UnusedKey
     /\ exec' # exec => ~Scribbles']_vars

(* No two terminals run on one kernel stack: process_flag tells which pids  *)
(* are free, so a new program's stack holds nobody else's frames.           *)
StacksExclusive ==
  \A t, u \in Terminals :
    t # u /\ pcb[t] # NoProc /\ pcb[u] # NoProc => StackOf(t) # StackOf(u)

(* The window of halt is the only way that can fail: when no terminal is in *)
(* it, no two terminals share a stack.                                      *)
ExclusiveOutsideWindow ==
  (\A t \in Terminals : halting[t] = NoProc) => StacksExclusive

(* Each terminal is a stack of programs over a shared set of pids.          *)
Abstract == INSTANCE ProgramStacks WITH progs <- [t \in Terminals |-> ProgramsOf(t)]
Stacks == Abstract!Spec

(* A program's vidmap pointer names the visible screen of another terminal  *)
(* at most until the timer corrects it: Alt+Fn itself does not.             *)
UserPageRefreshed ==
  (vidPage = Screen /\ exec # disp) ~> (vidPage = Screen => exec = disp \/ Wild)
=============================================================================
