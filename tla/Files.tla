------------------------------- MODULE Files -------------------------------
(***************************************************************************)
(* Descriptors of programs and reads of the read-only file system: open,    *)
(* close and read of syscalls.c, file_read, dir_read and read_data of       *)
(* filesys.c.  Every call runs with interrupts off.                         *)
(*                                                                          *)
(* A byte of the image is its address, so that what a read returns shows    *)
(* where it was read.  The model starts with a shell on each terminal.      *)
(* Reads of terminals and of the clock are in other modules.                *)
(***************************************************************************)
EXTENDS Integers, Sequences

CONSTANTS
  NumTerminals,
  Fds,         \* the descriptors open may give, 2..7
  BlockSize,
  DirEntries,  \* the sequence of directory entries: a type and an inode
  DirLimit,    \* entries the boot block has room for, 63
  Blocks,      \* the data blocks of each inode
  Length,      \* the bytes of each inode
  Sizes        \* bytes asked for by a read

Terminals == 0..(NumTerminals - 1)
Types == {"dir", "file"}
Inodes == DOMAIN Length

(* Directories and the clock have inode 0, which exists.                    *)
ASSUME FilesAssumption ==
  /\ NumTerminals \in Nat \ {0}
  /\ Fds \subseteq Nat
  /\ BlockSize \in Nat \ {0}
  /\ DirEntries \in Seq([type : Types, inode : Inodes])
  /\ DirLimit \in Nat
  /\ Inodes \subseteq Nat /\ 0 \in Inodes
  /\ Length \in [Inodes -> Nat] /\ Blocks \in [Inodes -> Seq(Nat)]
  /\ Sizes \subseteq Nat

VARIABLES
  open_files,  \* the descriptors of each terminal's program
  exec,        \* exec_terminal
  disp,        \* disp_terminal
  due,         \* history: where the next read of a descriptor is to start
  right,       \* history: the last read returned what was due
  background   \* history: a program read while another terminal was
               \* displayed; the model ends there

vars == <<open_files, exec, disp, due, right, background>>

Free == [type |-> "none", inode |-> 0, pos |-> 0]
NoFiles == [fd \in Fds |-> Free]
NothingDue == [fd \in Fds |-> 0]

Init ==
  /\ open_files = [t \in Terminals |-> NoFiles]
  /\ exec = 0 /\ disp \in Terminals
  /\ due = [t \in Terminals |-> NothingDue]
  /\ right = TRUE
  /\ background = FALSE

----------------------------------------------------------------------------
(* read_data                                                                *)

(* What is left of the file, or of the request.  The difference is          *)
(* unsigned: behind the end it is large.                                    *)
RemainRequested(inode, offset, length) == length

Remain(inode, offset, length) ==
  IF Length[inode] >= offset /\ Length[inode] - offset < length
    THEN Length[inode] - offset ELSE length

(* An inode's unused block numbers are 0.                                   *)
Block(inode, i) == IF i < Len(Blocks[inode]) THEN Blocks[inode][i + 1] ELSE 0

(* n bytes that follow each other in memory.                                *)
Copied(address, n) == [k \in 1..n |-> address + k - 1]

FromBlockStart(inode, offset, length) ==
  LET n == Remain(inode, offset, length)
  IN  Copied(Block(inode, offset \div BlockSize) * BlockSize, n)

(* The loop over the blocks: where the bytes of the i-th go in the caller's  *)
(* buffer, and so how many remain.  The last copy does not stop at the end   *)
(* of its block.                                                             *)
ReadData(inode, offset, length) ==
  LET n == Remain(inode, offset, length)
      skipped(i) == IF i = 0 THEN offset % BlockSize ELSE 0
      from(i) == Block(inode, (offset \div BlockSize) + i) * BlockSize + skipped(i)
      to(i) == IF i = 0 THEN 0 ELSE (i - 1) * BlockSize + (BlockSize - skipped(0))
      walk[i \in 0..n] ==
        IF n - to(i) > BlockSize
          THEN Copied(from(i), BlockSize - skipped(i)) \o walk[i + 1]
          ELSE Copied(from(i), n - to(i))
  IN  walk[0]

(* What a read is to return: n bytes of the file.                           *)
Slice(inode, offset, n) ==
  [k \in 1..n |->
     LET p == offset + k - 1
     IN  Block(inode, p \div BlockSize) * BlockSize + (p % BlockSize)]

(* The only copy of a read starts within a block and ends in the next.      *)
Crosses(inode, offset, length) ==
  LET n == Remain(inode, offset, length)
  IN  n <= BlockSize /\ (offset % BlockSize) + n > BlockSize

----------------------------------------------------------------------------
(* The first free descriptor, if there is one.                              *)
FirstFree(files) ==
  {fd \in Fds : /\ files[fd].type = "none"
                /\ \A g \in Fds : files[g].type = "none" => fd <= g}

(* The entry that open makes.                                               *)
Opened(files, fd, entry) ==
  [files EXCEPT ![fd] = [type |-> entry.type,
                         inode |-> IF entry.type = "file" THEN entry.inode ELSE 0,
                         pos |-> 0]]

(* open: the first free descriptor.                                         *)
Open(entry) ==
  /\ \E fd \in FirstFree(open_files[exec]) :
       /\ open_files' = [open_files EXCEPT ![exec] = Opened(@, fd, entry)]
       /\ due' = [due EXCEPT ![exec][fd] = 0]
  /\ UNCHANGED <<exec, disp, right, background>>

(* close of a descriptor in use: clear_fd                                   *)
Close(fd) ==
  /\ open_files[exec][fd].type # "none"
  /\ open_files' = [open_files EXCEPT ![exec][fd] = Free]
  /\ due' = [due EXCEPT ![exec][fd] = 0]
  /\ UNCHANGED <<exec, disp, right, background>>

(* The program ends and pcb_init prepares the next one.  A close of a free  *)
(* descriptor calls a null pointer, which the exception handler turns into  *)
(* a halt.                                                                  *)
Restart ==
  /\ open_files' = [open_files EXCEPT ![exec] = NoFiles]
  /\ due' = [due EXCEPT ![exec] = NothingDue]
  /\ UNCHANGED <<exec, disp, right, background>>

(* The histories after a read by descriptor fd.                             *)
Record(fd, ok, next) ==
  /\ right' = ok
  /\ due' = [due EXCEPT ![exec][fd] = next]
  /\ background' = (exec # disp)
  /\ UNCHANGED <<exec, disp>>

(* read of a regular file: file_read looks up the displayed terminal.       *)
ReadFile(fd, length) ==
  /\ open_files[exec][fd].type = "file"
  /\ LET f == open_files[disp][fd]
         inode == open_files[exec][fd].inode
         from == due[exec][fd]
         n == Remain(inode, from, length)
     IN  /\ open_files' = [open_files EXCEPT ![disp][fd].pos =
                              f.pos + Remain(f.inode, f.pos, length)]
         /\ Record(fd,
              \/ ReadData(f.inode, f.pos, length) = Slice(inode, from, n)
              \/ f.inode = inode /\ f.pos = from /\ Crosses(inode, from, length),
              from + n)

(* The entries that are returned: the caller gets 0 for the others.         *)
EntryAt(index) == IF index < Len(DirEntries) /\ index + 1 < DirLimit
                    THEN <<index>> ELSE <<>>

(* dir_read's next position.                                                *)
NextIndex(index) == IF index < Len(DirEntries) THEN index + 1 ELSE index

(* read of a directory: dir_read                                            *)
ReadDir(fd) ==
  /\ open_files[exec][fd].type = "dir"
  /\ LET index == open_files[disp][fd].pos
         from == due[exec][fd]
         entry == IF from < Len(DirEntries) THEN <<from>> ELSE <<>>
     IN  /\ open_files' = [open_files EXCEPT ![disp][fd].pos = NextIndex(index)]
         /\ Record(fd, EntryAt(index) = entry, from + Len(entry))

(* The scheduler.                                                           *)
Tick ==
  /\ exec' = (exec + 1) % NumTerminals
  /\ UNCHANGED <<open_files, disp, due, right, background>>

(* Alt and a function key.                                                  *)
SwitchTerminal(t) ==
  /\ t # disp
  /\ disp' = t
  /\ UNCHANGED <<open_files, exec, due, right, background>>

----------------------------------------------------------------------------
Next ==
  /\ ~background
  /\ \/ \E n \in DOMAIN DirEntries : Open(DirEntries[n])
     \/ \E fd \in Fds : Close(fd)
     \/ \E fd \in Fds : ReadDir(fd)
     \/ \E fd \in Fds, n \in Sizes : ReadFile(fd, n)
     \/ Restart
     \/ Tick
     \/ \E t \in Terminals : SwitchTerminal(t)

Spec == Init /\ [][Next]_vars

----------------------------------------------------------------------------
(* Types of all variables.                                                  *)
TypeOK ==
  /\ open_files \in [Terminals ->
       [Fds -> [type : Types \cup {"none"}, inode : Inodes, pos : Nat]]]
  /\ exec \in Terminals /\ disp \in Terminals
  /\ due \in [Terminals -> [Fds -> Nat]]
  /\ right \in BOOLEAN /\ background \in BOOLEAN

(* Programs that read while their terminal is displayed get the bytes of    *)
(* their own file, or the entries of the directory, in order and once each, *)
(* whatever other terminals do with the same descriptor numbers and         *)
(* whatever was open before; except a read that starts within a block, asks *)
(* for no more than a block and ends in the next (read_data).               *)
ReadsInOrder == ~background => right

(* A position never passes the end of the file or directory: there the      *)
(* unsigned difference of read_data would let a read go on behind the file. *)
PositionsInside ==
  ~background => \A t \in Terminals, fd \in Fds :
    LET f == open_files[t][fd]
    IN  f.pos <= CASE f.type = "file" -> Length[f.inode]
                   [] f.type = "dir" -> Len(DirEntries)
                   [] f.type = "none" -> 0
=============================================================================
