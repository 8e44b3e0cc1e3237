# A verification project for the ECE 391 kernel and its companions

The repository holds the work of a group in a systems course. Its largest parts
are an x86 kernel (`mp3_group_29-master/student-distrib`) with three virtual
terminals, and an adventure game with a kernel driver for its controller
(`mp2_jdchang3`). This project models the concurrent core of the kernel, who owns
which process slot, stack, page, screen and line of input while interrupts come
at any time, and the game's two threads, its input, its video window, its world
and the driver below it.

Paths below are relative to `mp3_group_29-master/student-distrib` unless they
start with another directory.

## Inventory

| Component | State it keeps | Operations | What is hard | What makes it correct |
|---|---|---|---|---|
| Processes and scheduler (`syscalls.c`, `syscall_help.c`, `i8253.c`, `paging.c`) | `process_flag`, `num_programs`, `terminals[]` (`pcb`, `num_programs`), a PCB at the bottom of each pid's 8 KB kernel stack, `tss.esp0`, `page_directory[32]`, the two video page entries | `execute`, `halt`, `vidmap`, `pit_handler`, `switch_terminal` | the timer switches stacks under a system call; `halt` enables interrupts before it has left the stack it freed; boot runs `execute` from inside the timer handler | counts agree; program, memory, TSS stack and saved context belong together; each terminal is a stack of programs; nobody starves; nobody draws on another's screen |
| Virtual RTC (`rtc.c`) | per terminal: on, flag, counter, period | `rtc_handler`, `rtc_open/close/read/write` | state is per terminal, descriptors per program; readers spin | a read returns, and only on a later interrupt |
| Keyboard and line buffer (`keyboard.c`, `terminal.c`) | per terminal: buffer, length, Enter flag; modifier keys | `keyboard_handler`, `buffer_char`, `backspace`, `private_terminal_read` | the interrupt works on the displayed terminal, the reader on the executing one; the copy comes later than the end of the spin | the reader gets the line the user sees; Enter ends it; the buffer is bounded |
| Console (`lib.c`, `terminal.c`, `idt.c`) | screen pages, cursor per terminal | `putc`, `scroll_up`, `clear`, `draw_cursor`, `switch_terminal`, `exception_handler` | echo and program output share a screen and the mapping of the video page; an exception's message is printed with interrupts on | a terminal's output appears on its own screen |
| Interrupt controller (`i8259.c`, `idt.c`, `*_wrap.S`) | masks, in-service bits | `enable_irq`, `send_eoi`, the gates | a missing EOI blocks lower priorities for ever | the timer, which schedules, gets through whatever a handler forgot |
| Descriptors and file system (`syscalls.c`, `filesys.c`) | 8 descriptors per PCB with position and operations; the read-only image | `open`, `close`, `read`, `write`, `read_data`, `read_dentry_*` | position and PCB are looked up through globals | reads return the file's bytes in order, once |
| Command line (`syscall_help.c`) | `cmd`, `argv` of a PCB | `parse_cmd`, `getargs` | bounds of strings | what is parsed is what was typed |
| Game loop and status thread (`mp2_jdchang3/adventure.c`) | status message, condition variable, position, current room | `game_loop`, `status_thread`, `show_status`, `move_photo_*` | two threads; a timed wait races with a new message | a message is shown for its time and then cleared |
| World (`mp2_jdchang3/world.c`) | rooms and doors, the place of each object, accomplishment flags | `try_to_*`, `typed_cmd_*` | long sequences of commands in any order; facts kept in tables, flags, photos and places at once | a thing has one form; locks hold; no victory without the work |
| Video window (`mp2_jdchang3/modex.c`, `photo.c`, `text.c`) | build buffer, window origin, displayed page | `set_view_window`, `show_screen`, `draw_*_line` | the window moves inside a buffer and is copied, in overlapping areas, when it reaches an end; four planes and two pages | nothing is written outside of the buffer; the screen shows the room as it is, and never half a picture |
| Input (`mp2_jdchang3/input.c`) | typed string, escape state, last buttons | `get_command`, `typed_a_char` | a tick may end in the middle of an escape sequence | a key means the same however ticks split it; typed text is kept |
| Session (`mp2_jdchang3/assert.c`, `adventure.c` main) | stack of cleanups, caught signals, the resources taken | `push_cleanup`, `pop_cleanup`, `do_cleanups`, `catch_signal`, PANIC | failures and signals at every step, also within cleanups | screen and terminal are given back, once |
| Tux driver (`mp2_jdchang3/module`) | rings, saved LED value, acknowledgement flag, buttons | `tuxctl_ioctl`, `tuxctl_handle_packet`, line discipline callbacks | lost bytes, resynchronisation, resets, two contexts | LEDs show the last accepted request |

`mp1_jdchang3`, `ps1_jdchang3` and `ps2_jdchang3` are small, given by the course, or
stubs; PROJECT.json says why each is left out.

Interaction: user programs enter the kernel by system calls (interrupts off
through the interrupt gate, on again only in the two spin loops and in `halt`) and by
exceptions (through trap gates, with interrupts on until `halt`'s `cli`,
`idt.c:60-63`);
the PIT handler is the only place where one terminal's program stops and another
continues; the keyboard handler works on `disp_terminal`, everything else on
`exec_terminal`. Those two globals and `terminals[]` are what the components
share.

In the game, the helper thread and the event loop share the status message and its
lock; the event loop calls input (`get_command`), the world (`handle_typing`,
`try_to_*`), and the video code (`set_view_window`, `draw_*_line`, `show_screen`), and
`assert.c` runs the cleanups of what `main` took, from `main`, from a panic or from a
signal handler.

## Modules

### Process, ProgramStacks, ProcessProofs

`Process` has one action per handler: `Execute`, `HaltLast` (the shell of a
terminal halts and is replaced), `Halt` and `HaltReturn` (the two halves of halt
around `sti`, `syscalls.c:59`), `Vidmap`, the keyboard's `SwitchTerminal`, `Key` and
`UnusedKey`, and the timer `Pit`, whose three disjuncts are the three paths of
`pit_handler`. An action is a step because interrupts are off in it. An exception is
here the `halt` that ends it; what it prints is in `Console`. `FirstFree`, `Start`, `Release`,
`SaveContext` and `RemapVideo` are the parts of these handlers.

A PCB, a kernel stack, a 4 MB user page and a TSS stack pointer are functions of
the pid in the code (`syscalls.c:175,203,227`), so each is represented by that
pid; `stack` is the kernel stack of the process the CPU runs. Saved `esp` values
are represented by the stack they point into: that is what a wrong save changes.

`lost` marks a terminal whose suspended kernel frames another program's
`execute` may have overwritten. What the CPU does on such a stack is undefined;
`Wild` stops the model there, which is why the run does not check deadlock, and
the temporal properties say "or Wild".

`UserMode` assumes that no program is executed or halted before the three shells
are up. They come up in the first five ticks (50 ms), and a shell runs nothing
before a line is typed. The consequences of a faster first command are
in the list of hazards.

The keyboard's handler maps the display while it draws (`keyboard.c:304`) and maps the
executing terminal's page again when it returns, except for a key without a character
(`keyboard.c:376-379`): `UnusedKey` leaves the display mapped, and, because that return
sends no end of interrupt either, no other key comes (`unacked`). `Scribbles` is the
state in which a program in the background would write to the visible screen.
`NoScribble` says that no other step leads there, and that whenever the timer changes
the executing terminal the mapping is right again.

`ProgramStacks` is what the process component promises: each terminal is a stack
of programs over a shared pool of pids, changed by push, pop and replace.
`Stacks` states that `Process` implements it, the stack of a terminal being found
in the code's own data: `terminals[t].pcb` and `parent_pcb` links.

### Rtc, KeyCodes, Interrupts, RtcProofs

`Handler` is `rtc_handler`; `Open`, `Close`, `Write`, `Read` and `ReadReturn` are
the driver's operations on the executing terminal. `Execute` and `Halt` change
only which program's descriptors are on top: the model keeps, for each terminal,
the number of clock descriptors of each of its programs. A counter that misses 0
is `Expired`: it comes back to 0 only after 2^32 interrupts. `rtc_write` accepts
frequencies up to MAX_FREQ, 8192, but TARGET_FREQ, the rate of the interrupts, is 1024:
above it the period and the counter become 0 (`rtc.c:197`), and the next interrupt
misses it. `asked`, the frequency last accepted, is a history variable, and
`TooFast` says that it is one of these. So is `fresh`: an interrupt came since the read
began. `Tick` is the scheduler seen from here.

`Interrupts` puts the two controllers of `i8259.c` around the clock: `Passes` is
what their masks and priorities let through, `service` holds what a handler has
not ended, and `TimerInterrupt`, `ClockInterrupt` and `KeyInterrupt` are the
handlers. What a key means is in `KeyCodes`, from the scan code tables and the
modifiers of `keyboard.c`. A key without a character returns before `send_eoi`
(`keyboard.c:376`): the keyboard and everything below it, the clock among them,
stays held back. `ReadsReturnUnlessHeld` names that and `TooFast` as the only ways in
which a read of the clock does not return, and `TimerGetsThrough` says that scheduling
survives them.

### Terminal, TerminalProofs

`Type`, `Enter`, `Backspace`, `ClearScreen`, `UnusedKey` and `SwitchTerminal` are
the paths of `keyboard_handler` that change more than a modifier; `Read`,
`LeaveSpin` and `ReadReturn` are the three parts of `private_terminal_read`:
before `sti`, the exit of the spin, and after `cli`. Between the last two the
interrupts are on, so keys and ticks interleave. `echo` and `screen` say what the
handler drew after the prompt, and `LineDelivered` compares that with what the
read copies. A backspace with `buffer_length` above the buffer writes into the
fields after it; the model stops there (`wild`).

A key is here the kind of key that `KeyCodes` makes of a scan code. `Chars` has one
element in the run: it tells stored, blank, newline and deleted cells apart, and
positions are distinguished by the cells around them.

### Console, Screens, MCConsole, DisplayProofs

`Console` is what is on the screens: `PutC` with the end of a row and of the screen
(`Settle`), the erasing of a character (`Rub`), `clear`, the terminals' saved pages,
and `mapped`, the page that the kernel's video mapping names. The keyboard handler
maps the display, draws and maps the executing terminal's page again (`Keyboard`);
`Write` and `Read` are a program's calls, `KernelMessage` is `printf` in a system call
(`syscalls.c:43,130,161`), `Pit` the boot of a shell and the ticks.

System calls come through interrupt gates, exceptions through trap gates
(`idt.c:60-63`): the `printf`s of `exception_handler` (`idt.c:121-122`) run with interrupts
on. `Trapped` is that message, a `putc` at a time, and each `putc` cut where a key, a tick
or another program can see or change what it uses: the choice of the terminal
(`CallPutc`; `printf` passes the `disp_terminal` of the moment), the character
(`StoreChar`), the next place (`Advance`, `lib.c:239-244`), the test of the row's and the
screen's end (`SettleRow`, `lib.c:248-259`), each row of the scrolling (`ScrollRow`) and the
cursor (`DrawCursor`). `trap` is where each terminal's exception is; several can be
under way, since ticks come in between. A key drawn between `Advance` and `SettleRow`
finds x at NUM_COLS and writes behind the row; x then passes NUM_COLS, and the
test, which is for equality, does not see it until a new line. `torn` is a history
variable: the terminals for which something was drawn there and no new line or `clear`
came since. `PlaceOnScreen` says that this is the only way in which a terminal's place
leaves the screen.

`Screens` is what that should amount to: each terminal has a tape of
cells of its own, and a place to write on it. `ScreensApart` states the refinement.
The code keeps it except for the steps that `Misdirected` lists, each with its cause:
the output of a shell until the next tick when it is started on a terminal that was
not the executing one's mapping, output after a key without a character until the
next tick, `printf` in a system call of a program in the background, which uses
the displayed terminal's cursor, what is drawn for a terminal whose place is off the
screen, and the pieces of an exception's message. Of those it still says that they
change no screen but the executing terminal's, if the mapping is in step (`steady`) and
the place on the screen. A step that is none of these and writes to another
screen violates the property.

### StatusThread, GameProofs

The game's status message, two threads and a condition variable. `Lock`, `Rearm`,
`Expire` and `Clear` are the places of `status_thread` between two acquisitions of
`msg_lock`; `Post` is `show_status`, called by the game thread. A critical section
is one step, at the acquisition of the lock. A timed wait that has timed out must
still take the lock again: `Expire` and `Clear` are two steps, and `Post` may come
between. `Signalled` is `pthread_cond_signal`, which wakes a waiting thread or does
nothing; `Spurious` is the wake-up POSIX allows. The drawing code reads
`status_msg` without the lock, once in each of `CheckMessage`, `Measure`,
`TestFirst` and `DrawLetters`; clearing writes only the first character, so later
reads of a message that was deleted meanwhile see the rest of it. `Time` is the clock, with the 1.5 s
cut into `Delay` units, and `age` a history variable.

### Tux, MCTux, TuxLine, TuxProofs

The kernel driver of the game's controller. `Tux` works on whole packets and
commands: `IoctlInit`, `IoctlSetLed` and `IoctlButtons` are the ioctls
(`TUX_BUTTONS` has no `break` and goes on as an LED request with the address of its
result: `Pointer`), `HandleAck`, `HandleEvent` and `HandleReset` the packets. The
receive interrupt may come within a call. `set_TUX_buttons` reads the two bytes of
`stored_packets` without a lock (`tuxctl-ioctl.c:148-149`), so it is two steps,
`IoctlButtons` and `ReadLast`, and an event may be stored between them; the fall into
the LED request is a third (`FallThrough`), since an acknowledgement may come before it.
A request that is accepted is cut before `set_TUX_LED` copies its packet to
`prev_stored_packets`, in the middle of that copy (`CopyHalf`, `CopyFirst`) and before the
packet is sent (`SendLast`). The test and the setting of the flag
(`tuxctl-ioctl.c:109-112`) are one step: an acknowledgement between them clears a flag
that is clear, as before both, and a reset sets it, as after both. `TUX_INIT` sets the
flag and puts its commands in one step: with an acknowledgement in between the outcome is
that of one after both, with a reset that of one before both.

A report has four buttons in each byte, active low, under a bit 7 that is always set
(`mtcp.h:188-198`). The driver's copy begins as zeros, which is no report: until the first
event a program is told that all buttons are held. `ButtonsFollow` speaks from the first
event on. `Told` is what a program is told; two events during the read can make it
a mix of reports the driver never had, but only if they changed both bytes (`Mixed`).
`MCTux` gives the run its two reports.
 The controller (`Obey`, `Press`, `PressReset`) is taken from `mtcp.h`.

`TuxLine` works on bytes. A packet byte is known by its packet and place; its first byte
has the high bit clear. `Receive` is `tuxctl_ldisc_rcv_buf` with the callback and
the answers to resets, all in one interrupt; `Put`, `ReadRoom`, `Take` and `Write`
are the parts of `tuxctl_ldisc_put` in a call, which the interrupt may separate.
`Callback` is the loop of the callback over the bytes, as a recursive function: it
passes three where a packet is framed and one where none is.

### Files, MCFiles, FilesProofs

`Open`, `Close`, `ReadFile` and `ReadDir` are the system calls as they reach
`filesys.c`; `Restart` is the end of a program, after which `pcb_init` clears its
descriptors. `ReadData` is the loop of `read_data` over blocks, as a recursive
function; a byte of the image is its address, so what it returns shows which
memory it copied, and `Slice` is what the inode says it should be. `due`, where the
next read of a descriptor starts, is a history variable that knows nothing of the
position the code keeps. The model ends at the first read on a terminal that is not
displayed (`background`): from there positions belong to nobody. `MCFiles` is the
image of the run: one file has blocks out of order and ends within its last block,
the other fills its block.

### WorldMap, World, WorldProofs

The adventure itself, as one player and their commands. `WorldMap` holds the tables of
`world.c` in full: 63 rooms with their doors and 20 objects. In `World` each command that
changes something is an action; a command that only shows a message is a step that
changes nothing and is left out. `where` is the room of the player and `looking` says
whether they look at the inventory, which the code represents as a room whose "enter"
door is set on the way in. `Here` is the code's current room; `get` and `drop` use the
room behind the inventory. `Put` and `Move` are the removals and insertions of objects,
whose lists are sets here. `hood` is the photo of the car, which two commands swap;
`takeoff` is the door that installing the card adds to the cockpit.

### Window, Camera, MCWindow, DisplayProofs

The video code of the game, pixel by pixel on a small screen. `build` is the build
buffer between its fences, `img3_off` the address in it of the logical origin; the
four planes lie in reverse order (`Address`). `SetWindow`, `NewOffset` and `Moved` are
`set_view_window`: `Fits` decides whether the window can stay, and `CopyOver` copies
what remains visible when it cannot. `Copied` is byte-wise copying in the direction
the code takes, so copying overlapping areas the wrong way spoils pixels, as it would
in memory. `HorizLine` and `VertLine` are `photo.c`'s lines with the objects on them,
from files whose rows are upside down (`Upright`) and whose colours are reduced
(`Shade`). `TurnPage`, `CopyImage` (one step for each plane) and `Flip` are
`show_screen`. `EnterRoom`, the four moves, `Get`, `Drop` and `ChangeRoom` are the
commands of the event loop that change the picture.

`Camera` is what a player should see: one whole picture of the room at some moment,
changing only to the picture of the moment. `Whole` states that `Window` implements
it, with the plane-wise copying hidden. `FencesHold` is what `clear_mode_X` tests at
the end of the game.

### Input, Session, Game, GameProofs

`Input` is the automaton of `get_command` over bytes: an arrow sends three, a Home
four, and a tick may end after any (`ReadNothing`). `CmdList` is the table of verbs
in full, `Lookup` its search by abbreviation, `HandleTyping` the dispatch with the
four results of a command. `Session` is `main` and `assert.c`: the resources are taken
in turn and pushed on the stack of cleanups, each step may fail (`Fail` is a panic),
and a signal may arrive at any step (`CatchSignal`), also while cleanups run, in
which case `frames` holds a run of cleanups inside another. The VGA goes through
`blank` on its way to mode X and back to text. `Game` composes the two.

## Runs

| Run | Instance | Shows |
|---|---|---|
| process | 5 pids, 3 terminals | the invariants of the process table, the refinement of `ProgramStacks`, that only a key without a character maps the display for a program in the background, and that neither this nor a stale vidmap page lasts |
| process_reuse | 4 pids | violated: `StacksExclusive`, by a tick in the window of `halt` |
| rtc | 2 terminals, 2 programs each, 2 descriptors each, TARGET_FREQ = 4, frequencies 0, 2, 3, 8, all 16 IRQs | a clock in use counts down unless it was given more than TARGET_FREQ; a read ends on a later interrupt; every read ends unless that or a key holds the clock back; the timer gets through |
| terminal | 2 terminals, 3 cells, 4 keys counted | a read returns the line on the screen; Enter ends a read |
| console | 2 terminals, one row of 2, a page of 3 characters, texts of one and two, exceptions on one terminal | the refinement of `Screens`; places stay on the screen but for lines torn by an exception's `putc` |
| files | 2 terminals, 2 descriptors each, an image of 3 entries with files of 7 and 3 bytes in blocks of 3, reads of 0, 1, 2 and 5 | reads on the displayed terminal return their file's bytes in order; positions stay inside |
| status | 2 messages, Delay = 3 | no message is waited on without a deadline; the timed wait ends only on a message of full age; the bar returns to the room |
| game | 2 letters, lines of 2, 2 signals | keys and typed text survive ticks; verbs do not shadow each other; the screen and the terminal are given back once, and a caught signal ends the game |
| window | a screen of 8 by 2, photos of 11 by 3 and 8 by 4, an object of 2 by 2 and one of a pixel, 4 spare bytes in the buffer | the fences hold; the screen is up to date whenever the game waits; the refinement of `Camera` |
| line | 3 packets, one a reset, 2 commands of calls, rings of 6 bytes, 2 bytes lost on the line | every packet that arrives is handled, in order; a wrong one needs two lost bytes; commands go out whole |
| tux | 1 LED value and the address, 2 reports of buttons, 3 commands and 3 packets on the line | reports follow the buttons from the first event on; the LEDs show the last accepted request; acknowledgements come |
| world | 15 of the 20 objects handled; Tux, battery, GPS and Icard dropped in the lab and at the car | no command sequence duplicates or loses a thing, passes a lock, or wins early; the photo of the car follows the car |

Bounds. Five pids let one terminal hold three programs while the others hold
one, and reach the limit; a nested halt inside a halt window of another terminal
needs four. The kernel has six pids: the proofs do not depend on the number. Two
terminals suffice for `Rtc`, `Terminal` and `Console`, where a terminal only ever
meets "itself" and "another"; of the frequencies one gives a period of two, one is above
TARGET_FREQ, one is no power of two and one is below 2.
Three cells and a count of four reach the full buffer, the count past it, and the
backspace outside. On a screen of one row every character that ends it and every newline
scrolls; a page has room for one more character than the screen (`PageCells`), so a torn
line can leave the screen, and a text that would leave the page is not put. Exceptions of
one terminal (`Faulty`) meet keys, ticks, the other terminal's output and terminal
switches; the proofs have any number of rows, and of exceptions under way at once. The
zeros of `Tux` differ from both reports in both bytes, so a program's read can mix
the first event with them. The reads of the image start and end inside and at the
edges of blocks, at the end and behind it, and 5 spans two blocks. Two messages tell
an old from a new one, and a Delay of three lets a message come before, in and after
the middle of a wait. Lines of two letters are full after two keys and hold a verb
("g"), a space before it, or none; letters and digits that end a broken escape
sequence are typed too. Two signals let one arrive in the cleanups of the other. The
window's photos let it move by up to three pixels to the right and two down, to every
remainder by four; with four spare bytes it leaves the buffer after one or two moves,
in both directions, and copies overlapping areas both ways. The board triples the
speed. Three packets are nine bytes, more than the ring; the packet array of five
takes a packet and two saved bytes. The line of `Tux` holds the answer to one reset,
which the interrupt appends whole, behind whatever a call appends. The run `world` has
the whole map. Objects without a use in the puzzle are never picked up, and those with
one are dropped in two rooms, the lab where Tux must be and the site of the car, where
the battery's forms meet; the state space is otherwise the number of objects to the
power of the number of rooms. The proofs allow every object in every room.

Deadlock is not checked where the system may stop: after undefined behaviour
(`process`, `terminal`), when the process has ended (`game`), when nothing is left to
do (`world`).

Fairness. `Process`: the timer interrupt, which the hardware repeats and no state
masks for ever. `Interrupts`: timer and clock weakly, since both devices go on, and
a spinning reader strongly, because it tests its flag thousands of times in each
10 ms slice. `Terminal`: the same for the timer and the reader; the keyboard is never
assumed to act. `StatusThread`: both threads and the clock, weakly: Linux schedules
them, and the event loop never blocks. Posts and spurious wake-ups are never
assumed; `Quiet` says that they stop, since each of them restarts the clock. `Tux`:
a call goes on, packets are received, the controller obeys; no byte is lost. `Game`:
the process goes on, weakly; keys and signals are never assumed.

## Properties

- `Accounting`, `MappingFollows`, `ContextOnOwnStack`, `ExclusiveOutsideWindow`,
  `Stacks`: state kept in several places by several handlers agrees, at every point
  where an interrupt can come.
- `NoScribble`: which step can break the mapping of the console, and when it is mended.
- `StacksExclusive` fails: `halt` clears `process_flag` and enables interrupts
  while it still runs on the freed pid's stack. `ExclusiveOutsideWindow` shows
  that this window is the only way.
- `UserPageRefreshed`: a program's vidmap page may name the wrong screen after
  Alt+Fn, but only until the timer corrects it.
- `CountsDown`, `ReadWaitsWhileOn`, `ReadsReturnUnlessHeld`, `TimerGetsThrough`: about
  the clock, across child programs that close it, and what stops it.
- `LineDelivered`, `EnterReturns`: about a line of input, compared with what was drawn.
- `PlaceOnScreen`, `ScreensApart`: about the screens.
- `NoLostMessage`, `ExpiresInTime`, `ReturnsToIdle`: the classical hazards of a
  condition variable (lost and spurious wake-ups, a timeout against a new
  message), and unlocked reads whose damage must not last.
- `VerbsReachable`, `KeysSurviveTicks`, `TextKept`: what a player types is what the
  game gets. `GivenBack`, `NeverTwice`, `SignalEnds`: how the game ends.
- `FencesHold`, `UpToDate`, `Whole`: the picture in the buffer, in the planes and on
  the screen is the room's.
- `LedsFollow`, `AckComes`, `ButtonsFollow`: what driver and controller believe of
  each other agrees in the end.
  `AckComes` allows the controller to lock up, because the code lets it: until an
  LED request has been accepted, a reset is answered with six zero bytes, which are
  no command.
- `ReadsInOrder`, `PositionsInside`: what a program reads, across opens, closes and
  other programs with the same descriptor numbers. `ReadsInOrder` excepts a read of at
  most a block that starts within one block and ends in the next: `read_data` copies it
  in one piece, from the memory behind the first block.
- `WholeHandled`, `LossDetected`, `HandledInOrder`, `CommandsWhole`: what the line
  discipline does to the bytes of packets and commands.
- `OneForm`, `HoodShows`, `LocksHold`, `NoShortcut`: about the game. Each needs many
  commands to violate. `LocksHold` is about the map: it would fail through one door too
  many in the tables. `NoShortcut` relates the end to everything before it, although
  `typed_cmd_do` tests only where three objects are. Nothing says the game can always be
  won: an Icard dropped behind its own lock ends all hope.

### What the code does that the properties except

The models contain these behaviours; the properties are stated so as to say what
holds besides them.

- An Enter pressed while no program reads is kept: the flag is cleared only as a read
  ends (`terminal.c:202`), so it ends the next read at once (`terminal.c:188`), with the line
  that the read has emptied as it began (`terminal.c:177`).
- `file_read` and `dir_read` use the displayed terminal's descriptor
  (`filesys.c:47`): a read in the background moves somebody else's position.
- A status message posted between the timeout and the helper's acquisition of the lock
  is cleared at once (`mp2_jdchang3/adventure.c:671`).
- A key without a character ends all keyboard and clock interrupts (`keyboard.c:376`), and
  leaves the display mapped: what a program in the background prints goes to the visible
  screen until the timer next changes the terminal (`keyboard.c:304`).
- A key, or another program's output, in the middle of an exception's `putc` can push a
  terminal's place off its screen, where it stays until a new line (`lib.c:239,248`); what is
  printed there is not seen.
- An exception's message goes to the terminals displayed while it is printed, each
  character at that terminal's cursor (`lib.c:173-175`), through the mapping of the one that
  executes.
- `TUX_BUTTONS` before the first event tells a program that all buttons are held, and two
  events during its read can give it one byte of each
  (`mp2_jdchang3/module/tuxctl-ioctl.c:37,148`).
- Holding shift or alt counts the key as often as it repeats (`keyboard.c:259`), so the
  release leaves it pressed.
- Characters typed after Enter, before the reader runs, overwrite the newline
  (`terminal.c:273`).
- `rtc_write` accepts frequencies above TARGET_FREQ, with a period of 0
  (`rtc.c:191-199`): the clock then misses 0, and a read of it spins until the terminal is
  given another frequency, which a program that waits cannot do.
- Backspace at the start of a row goes to the last column but one (`lib.c:213`).
- A lone Escape takes the first byte of the arrow after it: the arrow's letter is typed.
- A backquote drops the commands of its tick.
- `O_NONBLOCK` of standard input, which the shell shares, is never taken back.
- A second signal during the cleanups of the first runs the rest of them inside it and
  then ends the process: the cleanup that was interrupted is not finished. When
  `gettimeofday` fails, a signal makes `clear_mode_X` run twice.

## Proofs

`ProcessProofs` proves the invariants of `Process` for every length of the
process table from 3 to 255 (`MaxProcsAssumption`: three shells, and
`num_programs` is a `uint8_t`). The invariants of the run are not inductive. That
halting the top program of a terminal frees exactly one counted pid needs to know
that its parent is alive, belongs to the same terminal and has only it above.
`Owned` says so through two witnesses the code does not store, the terminal
(`own`) and the level (`lvl`) of each live pid: `Ranked` makes the PCB of a
terminal the top of its levels, `Linked` makes parents the next level down, with
the TSS stack and frame they were left with. `HaltWindow` keeps the same for a
program between the two halves of halt. `IInv` is the conjunction; `InitInv` and
`StepInv` give `Invariance`, from which the theorems on types, counts, mapping,
contexts and stacks follow. The step proof has a lemma per handler, and `Start`,
`Release` and the refinement of the witnesses are lemmas of their own.

`ImplementsStacks` proves the refinement. `ProgramsOf` is a recursive function; that
the list it computes is the only one that follows the parents (`ChainUnique`), and that
it meets live programs of its own terminal only (`ProgramsListed`), are proved with
least elements (`LeastOf`) in place of an induction, whose theorems take an operator.
Then each handler's step is a push (`PushStep`), a pop, a replacement or a stutter.

`OwnScreen` proves `NoScribble`: each handler but `UnusedKey` leaves the mapping with the
terminal it belongs to, and the timer maps the next terminal's page whatever was mapped.
`UserPageFollows` is what can be proved of `UserPageRefreshed`: only Alt+Fn leaves the
page of a vidmap on the wrong screen, and whenever the executing terminal changes the
page is right. The boot needs an invariant of its own (`Booting`): the two paths of
`pit_handler` that start a shell do not map the page, which is right only because
no program can have asked for one yet.

`RtcProofs` proves types, `ReadWaitsWhileOn` and `CountsDown`, for every set of
frequencies: a frequency accepted above TARGET_FREQ is a case of the property, not
excluded by an assumption. The lemmas on the stack of programs (`SetTop`, `PushTop`, `PopTop`) rest on the library's
theorems on sequences. `ClockRunsUnderPic` and `ReadsWaitUnderPic` carry both over to
`Interrupts`, whose steps are steps of `Rtc` or leave it alone (`PicImplements`). `ReadersServed` says
what a waiting read is owed: its counter never rises, each interrupt lowers it, and the
flag stays set until it is seen, unless the terminal is `TooFast`, in which case the read
stays `Stalled`. It needs that a program that waits holds the clock open
(`SpinHolds`), so no close of another program can stop it. `TimerNeverHeld` proves that a
key alone can stay in service, and that the timer has priority over it.

`TerminalProofs` proves `LineDelivered` for every size of the buffer. It is not
inductive, because a line can grow past the buffer and be erased back into it.
`Drawn` says for every length that the characters on the screen are counted, and are
in the buffer as far as it reaches; `Ended` where the newline is. `EnterNotLost`, for
every number of terminals: from an Enter in a read to the return of that read no step takes the
flag back, and each tick brings the terminal nearer to its turn (`Away`).

`TuxProofs` proves `ButtonsFollow`: `NewestFollows` says that the newest report of the
buttons is the last event on the line or, if there is none, in the driver, once there has
been one. For the read in two steps, `Reading` says that the copy of the moment and the
one whose first byte was read are among those that the driver `had` during the call, and
`ToldOrMixed` that two copies with a byte in common do not mix.
Of the LEDs it proves where every exchange ends. `SettleInv`: when no call goes on, the last
request is in the last LED command on the line or shown, or a reset is still to be
answered, which will send it again; and a request that waits for an acknowledgement has
something to wait for. So where everything is at rest, the LEDs are right and requests
are accepted (`SettlesRight`), and it does come to rest (`ComesToRest`): `Work` weighs
commands, packets and the one reset that can be on the line (`OneReset`), and every step
that the user does not cause lowers it. Acknowledgements arrive in this model; a lost one is
among the hazards.

It also proves the properties of `TuxLine`. Those of reception hold for any number of packets,
size of ring and set of lost bytes. What has arrived and is not yet handled is one
`Stream`, wherever its bytes lie: saved by the driver, in the ring, in the flip buffer.
`LineInv` says that the stream is in the order of the line (`InOrder`), lacks only what
the line lost (`Contiguous`), begins behind everything handled, which was whole or missed
two bytes (`Passed`), and still holds the first byte of each whole packet that is not
handled (`Kept`). `CallbackFinds` says what the callback's loop does, whatever the bytes:
every packet framed in them is found, none overlaps another, and no byte that could
begin one is passed over. `LossDetected` rests on `TwoLost`: three bytes that are framed
and of different packets lie two lost bytes apart.
`CommandsGoWhole` is about transmission: it assumes a ring of two commands or more
(`TUXCTL_BUFSIZE` is 64 and a command at most 6 bytes) and, at all times, room for one more command in the
serial driver (`HasRoom`), which no step of the line discipline secures and which the
run grants with `DriverRoom`. `CommandInv` says that of the commands of calls only the
last can be waiting, whole, in the ring before `Take` or in `buf` after it, and that
what the driver was given are whole commands (`Delivered`). The interrupt may answer
several packets at once, and its intermediate states are not states of the
specification: that the driver's room only shrinks (`SendIs`) lets the room at the end
vouch for each of them (`AnsweredGood`). That no answer repeats an earlier one needs
the numbers of handled packets to grow (`NumbersGrow`), which follows from `LineInv`.

`DisplayProofs` proves all three properties of `Window` for every size of screen, photos,
images and buffer, every set of rooms and objects, under the assumption `Slow` that a
move uncovers no more than the screen (the code moves by 6 of 320 and 182 pixels at
most; the run's photos are too small for more). For `FencesHold` the invariant is that
the window `Fits`: its pixels lie between the first byte of plane 3 and the last of
plane 0 (`AddressInside`). A window that was centred fits, because the buffer has a
screen's room and a byte (`CentredFits`), and the part that is copied lies inside of the
new window (`CopyKeeps`).

`UpToDate` and the refinement `Whole` need what the buffer and the pages hold
(`WindowInv`). `Scene`: at the address of each pixel of the window is the room's colour.
Two pixels of the window never share an address, although the planes lie reversed and
each that the corner shifts begins a byte later (`AddressOf`, `PixelsApart`); so drawing
some lines leaves the others (`Painted`). A move keeps what the old and the new window
share, wherever the buffer's middle is (`MovedPixel`, `CopiedPixel`), and draws the
rest; that `photo.c`'s two ways of finding a line agree with the file, whose rows are
upside down, is `HorizPixel`, `VertPixel` and `PhotoPixel`. `VideoInv`: the planes copied
so far are on the page that is not shown. Turning to it is then Camera's `Show`, and
every other step leaves the screen alone.

It proves both properties of `Console` too, for every size of screen, number of
terminals and text, with exceptions on all of them. `ConsoleInv` keeps the mapping on the
executing terminal's page while the display is `steady`, and `PlacesInv` the cursors: a
terminal that is not torn is on its screen, or one place behind its end while an
exception is about to test for it (`Near`); and two exceptions are never at that test
for the same terminal unless it is torn, so the second does not find what the first left.
What exceptions leave behind are views whose place can be anywhere (`Wide`): `PutCWide`
keeps them so, and `PrintedWide` shows that a text with a new line brings the place back
on the screen wherever it was. For the refinement, `Flat` maps a page and
its cursor to a tape and a place on it; `PutCView` shows that a character put on a page,
with its end of a row and its scrolling, is the character put on the tape, and
`PrintedView` that a text is. Each handler then writes on the tape of the terminal that
it draws for, or is one of the steps that `Misdirected` names; for an exception's steps
`TrapStillStep` and `TrappedApart` show what they leave alone.

`FilesProofs` proves types, `PositionsInside` and `ReadsInOrder` for every image.
`PositionsFollow` is the invariant behind them: a position is where the next read is due.
`OneDescriptor` does the work of all the calls that change one descriptor. `ReadsSlice`
is about the loop of `read_data`, for every file, offset and length: block `i` goes to
the place in the buffer that it has in the file (`Places`), so what each turn of the loop
copies and what the later ones copy make one piece (`TurnBehind`, `PiecesJoin`); the
first turn is apart, because it begins within a block (`TurnFirst`), and is where a read
that `Crosses` goes wrong. The theorem `InOrder` has the hypothesis that the directory
does not fill the boot block: of 63 entries `dir_read` never returns the last
(`filesys.c:136`). The image of the repository has fewer.

`WorldProofs` proves all five invariants of `World`, whatever is handled and wherever it
is dropped. `Entered` says what has been done before the player can be in a room,
`Progress` what has been done before an object can be away from where it began:
`NoShortcut` follows from the second only with the first, since Tux is reached through
locks. The tables are read by four lemmas on doors (`EverittDoors`, `BardeenDoors`,
`CSLDoors`, `FarDoors`), which say between which parts of the map doors lead;
`DoorsRespectLocks` rests on them. Commands that only carry things are one lemma
(`RelocateInv`), those that turn one thing into another are another (`TransformInv`).

`GameProofs` proves `NoLostMessage` and `ExpiresInTime` for every `Delay` and every set of
messages. `DeadlineCovers` is the strengthening: during a timed wait, the time left and
the age of the message add up to at least `Delay`. `MessageRunsOut` gives what a message
has left as a number (`Remaining`) that no step raises unless a message is posted or a
wake-up is spurious, and says that a bar which shows the room again stays so.

It proves `GivenBack` and `NeverTwice` for every set of signals, however they interrupt
each other. `SessionInv` says what `main` holds at each of its steps while no cleanup
runs (`InMain`) and while it runs one itself (`MainPops`). For runs inside runs, `Rank` is
the place of a cleanup's resource above the bottom of the stack: a cleanup in progress
ranks above all that are left and all that later runs unlinked (`Nested`), and what `main`
has taken and not pushed is no cleanup's (`NotPushed`). Whoever still has to release a
resource therefore exists (`TtyOwned`, `ScreenOwned`) and is alone, and video memory is
mapped while a cleanup that writes to it is to come (`Mapped`). `CleanupsEnd` bounds what
is left of them: `CleanWork` counts the cleanups still linked and the rest of the present one,
and a signal, which can come once, adds nothing to it.

It proves `KeysSurviveTicks` and `TextKept` for every set of letters and length of a line:
`InputInv` relates the state of the automaton to the bytes of a key that are still to come.
`VerbsFound` proves `VerbsReachable` by comparing the entries of the table two by two.

Every invariant and every action property of the passing runs, and each of the three
refinements, is stated by a theorem. Only model-checked are the eight liveness properties, because
leads-to under fairness needs ENABLED, which is out of the prover's reach. What they say
without fairness is proved, for every value of the constants: what no step can undo, and a
number that no step raises and the steps in question lower. Left to TLC is that the steps
do happen.

| liveness property | theorem | what is proved of it |
| --- | --- | --- |
| `UserPageRefreshed` | `UserPageFollows` | a change of the executing terminal makes the page right |
| `ReadsReturnUnlessHeld` | `ReadersServedUnderPic` | `counter` falls, `flag` once set stays |
| `TimerGetsThrough` | `TimerNeverHeld` | nothing holds the timer back |
| `EnterReturns` | `EnterNotLost` | the flag stays, `Away` falls |
| `ReturnsToIdle` | `MessageRunsOut` | `Remaining` falls, an idle bar stays |
| `SignalEnds` | `CleanupsEnd` | `CleanWork` falls, signals run out |
| `LedsFollow`, `AckComes` | `SettlesRight`, `ComesToRest` | `Work` falls; at rest they hold |

Inductions over data, such as the loops of `read_data`, of the line discipline's callback
and of `puts`, are done with a least counterexample (`LeastOf`), because the library's
induction theorems take an operator.

## Not modelled

- `parse_cmd` and `getargs`: one string scanned in one step of one program. A blank or
  a newline at the end of the arguments makes them "too many", and every command that
  begins with "exit" leaves the shell: plain tests of strings reach both.
- `printf`, `itoa` and the other formats of `lib.c`; the fonts of `text.c` and the VGA's
  register tables; the attribute byte of a cell.
- The bits of descriptors, gates and page entries, and the registers that the assembly
  wrappers save: the models say which page, stack or handler they name.
- Data of program images, argument strings, and the return values of system calls with
  invalid arguments, which change nothing.
- `photo.c`'s octree and `generate_palette`: nothing calls them, and the initialisers of
  their structures are no C.
- The status text of `modex.c`, whose 41 characters (`idle_string`) are written by
  `sprintf` without a bound.
- The random photo of the bridge and the reading of images by `build_world`; the
  build with the Tux controller as the game's input, which is switched off.
- Opening and closing the line discipline and the LEDs' segment codes.
- A serial driver short of room. `tuxctl_ldisc_write_wakeup` asks for the room before it
  takes the lock (`mp2_jdchang3/module/tuxctl-ld.c:197-198`), so an answer of the interrupt
  in between makes it stale, and its loop takes bytes while `n <= room` (`:203`), one more
  than there is room for. In `TuxLine` the driver's room, `DriverRoom`, holds every byte of a run, and
  the proof assumes room for one more command (`HasRoom`): neither can then lose a byte.
- What is printed beyond a page. A torn line can grow past the 2048 characters of the page
  and would go on in the next one, which is a terminal's saved screen (`paging.c:31-34`);
  `Console` puts no text that would leave the page.
- A second program executed in the 50 ms of the boot (see `UserMode`).
- What the first switch to a terminal finds in its saved page, which the code leaves as
  the boot left it: `Console` begins with blank pages.
- User programs are the environment of the kernel's models. `mp1_jdchang3` is a driver
  whose assembly is a stub; `ps1_jdchang3`, `ps2_jdchang3` and the kernel's unit tests
  are not parts of either system.
