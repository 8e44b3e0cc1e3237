---------------------------- MODULE FilesProofs ----------------------------
(***************************************************************************)
(* Proofs about Files, for every image, number of terminals and read size.  *)
(***************************************************************************)
EXTENDS Files, WellFoundedInduction, TLAPS

Descriptor == [type : Types \cup {"none"}, inode : Inodes, pos : Nat]

(* Where a descriptor may stand.                                            *)
Inside(f) == f.pos <= CASE f.type = "file" -> Length[f.inode]
                        [] f.type = "dir" -> Len(DirEntries)
                        [] f.type = "none" -> 0

(* While no program has read in the background, positions are inside and    *)
(* are where the next read is due.                                          *)
Follows ==
  ~background => \A t \in Terminals, fd \in Fds :
    Inside(open_files[t][fd]) /\ due[t][fd] = open_files[t][fd].pos

IInv == TypeOK /\ Follows

LEMMA LeastOf ==
  ASSUME NEW S \in SUBSET Nat, S # {}
  PROVE  \E i \in S : \A j \in S : i <= j
<1> DEFINE R == OpToRel(<, Nat)
<1>1. IsWellFoundedOn(R, Nat)
  BY NatLessThanWellFounded
<1>2. \A a, b \in Nat : a < b => <<a, b>> \in R
  BY DEF OpToRel
<1> HIDE DEF R
<1>3. PICK i \in S : \A j \in S : ~(<<j, i>> \in R)
  BY <1>1, WFMin
<1>4. ASSUME NEW j \in S PROVE i <= j
  <2>1. i \in Nat /\ j \in Nat /\ <<j, i>> \notin R
    BY <1>3
  <2>2. ~(j < i)
    BY <1>2, <2>1, Zenon
  <2> QED
    BY <2>1, <2>2
<1> QED
  BY <1>4

LEMMA ElementOfSeq ==
  ASSUME NEW S, NEW s \in Seq(S), NEW n \in DOMAIN s
  PROVE  s[n] \in S
OBVIOUS

(* What a read of an existing file is left with is a length, and does not   *)
(* pass the end of the file if it starts inside.                            *)
LEMMA RemainType ==
  ASSUME NEW inode \in Inodes, NEW offset \in Nat, NEW length \in Nat
  PROVE  /\ Remain(inode, offset, length) \in Nat
         /\ offset <= Length[inode] =>
              offset + Remain(inode, offset, length) <= Length[inode]
BY FilesAssumption DEF Remain

LEMMA FreeIsDescriptor == Free \in Descriptor /\ Inside(Free)
BY FilesAssumption DEF Free, Descriptor, Inside

LEMMA InitInv == Init => IInv
<1> SUFFICES ASSUME Init PROVE IInv
  OBVIOUS
<1>1. 0 \in Terminals
  BY FilesAssumption DEF Terminals
<1>2. TypeOK
  BY <1>1, FreeIsDescriptor DEF Init, TypeOK, NoFiles, NothingDue, Descriptor
<1>3. Follows
  BY FreeIsDescriptor DEF Init, Follows, NoFiles, NothingDue, Free
<1> QED
  BY <1>2, <1>3 DEF IInv

(* A step that leaves one descriptor and its due position in order, and     *)
(* the others alone, keeps the invariant; the two are of the same program   *)
(* unless the step ends the model.                                          *)
LEMMA OneDescriptor ==
  ASSUME IInv, NEW t \in Terminals, NEW u \in Terminals, NEW fd \in Fds,
         NEW f \in Descriptor, NEW next \in Nat,
         ~background' => ~background /\ t = u /\ Inside(f) /\ next = f.pos,
         open_files' = [open_files EXCEPT ![t][fd] = f],
         due' = [due EXCEPT ![u][fd] = next],
         exec' \in Terminals, disp' \in Terminals,
         right' \in BOOLEAN, background' \in BOOLEAN
  PROVE  IInv'
<1>1. TypeOK'
  BY DEF IInv, TypeOK, Descriptor
<1>2. Follows'
  <2> SUFFICES ASSUME ~background', NEW v \in Terminals, NEW g \in Fds
               PROVE  /\ Inside(open_files'[v][g])
                      /\ due'[v][g] = open_files'[v][g].pos
    BY DEF Follows, Inside
  <2>1. Inside(open_files[v][g]) /\ due[v][g] = open_files[v][g].pos
    BY DEF IInv, Follows
  <2>2. open_files'[v][g] = IF v = t /\ g = fd THEN f ELSE open_files[v][g]
    BY DEF IInv, TypeOK
  <2>3. due'[v][g] = IF v = t /\ g = fd THEN next ELSE due[v][g]
    BY DEF IInv, TypeOK
  <2> QED
    BY <2>1, <2>2, <2>3
<1> QED
  BY <1>1, <1>2 DEF IInv

LEMMA OpenInv ==
  ASSUME IInv, ~background, NEW n \in DOMAIN DirEntries, Open(DirEntries[n])
  PROVE  IInv'
<1> DEFINE entry == DirEntries[n]
<1>1. PICK fd \in FirstFree(open_files[exec]) :
        /\ open_files' = [open_files EXCEPT ![exec] = Opened(@, fd, entry)]
        /\ due' = [due EXCEPT ![exec][fd] = 0]
  BY DEF Open
<1>2. fd \in Fds
  BY DEF FirstFree
<1> DEFINE f == [type |-> entry.type,
                 inode |-> IF entry.type = "file" THEN entry.inode ELSE 0,
                 pos |-> 0]
<1>3. entry \in [type : Types, inode : Inodes]
  BY FilesAssumption, ElementOfSeq
<1>4. f \in Descriptor /\ Inside(f) /\ f.pos = 0
  BY <1>3, FilesAssumption DEF Descriptor, Inside, Types
<1>5. open_files' = [open_files EXCEPT ![exec][fd] = f]
  BY <1>1, <1>2 DEF Opened, IInv, TypeOK
<1>6. exec \in Terminals
  BY DEF IInv, TypeOK
<1>7. /\ exec' \in Terminals /\ disp' \in Terminals
      /\ right' \in BOOLEAN /\ background' \in BOOLEAN
  BY DEF IInv, TypeOK, Open
<1>8. due' = [due EXCEPT ![exec][fd] = 0]
  BY <1>1
<1>9. 0 \in Nat /\ 0 = f.pos
  BY <1>4
<1> HIDE DEF f
<1> QED
  BY <1>2, <1>4, <1>5, <1>6, <1>7, <1>8, <1>9, OneDescriptor

LEMMA CloseInv ==
  ASSUME IInv, ~background, NEW fd \in Fds, Close(fd)
  PROVE  IInv'
BY FreeIsDescriptor, OneDescriptor DEF Close, IInv, TypeOK, Free

LEMMA RestartInv ==
  ASSUME IInv, ~background, Restart
  PROVE  IInv'
<1>1. TypeOK'
  BY FreeIsDescriptor DEF Restart, IInv, TypeOK, NoFiles, NothingDue, Descriptor
<1>2. Follows'
  <2> SUFFICES ASSUME NEW t \in Terminals, NEW fd \in Fds
               PROVE  /\ Inside(open_files'[t][fd])
                      /\ due'[t][fd] = open_files'[t][fd].pos
    BY DEF Follows, Inside
  <2>1. CASE t = exec
    <3>1. open_files'[t][fd] = Free /\ due'[t][fd] = 0
      BY <2>1 DEF Restart, IInv, TypeOK, NoFiles, NothingDue
    <3> QED
      BY <3>1, FreeIsDescriptor DEF Free
  <2>2. CASE t # exec
    <3>1. open_files'[t][fd] = open_files[t][fd] /\ due'[t][fd] = due[t][fd]
      BY <2>2 DEF Restart, IInv, TypeOK
    <3> QED
      BY <3>1 DEF IInv, Follows
  <2> QED
    BY <2>1, <2>2
<1> QED
  BY <1>1, <1>2 DEF IInv

LEMMA ReadFileInv ==
  ASSUME IInv, ~background, NEW fd \in Fds, NEW length \in Sizes,
         ReadFile(fd, length)
  PROVE  IInv'
<1> DEFINE f == open_files[disp][fd]
           moved == [f EXCEPT !.pos = f.pos + Remain(f.inode, f.pos, length)]
           inode == open_files[exec][fd].inode
           from == due[exec][fd]
           next == from + Remain(inode, from, length)
<1>1. /\ exec \in Terminals /\ disp \in Terminals
      /\ f \in Descriptor /\ inode \in Inodes /\ from \in Nat
      /\ length \in Nat
  BY FilesAssumption DEF IInv, TypeOK, Descriptor
<1>2. moved \in Descriptor /\ next \in Nat
  BY <1>1, RemainType DEF Descriptor
<1>3. /\ open_files' = [open_files EXCEPT ![disp][fd] = moved]
      /\ due' = [due EXCEPT ![exec][fd] = next]
      /\ right' \in BOOLEAN /\ background' \in BOOLEAN
      /\ exec' = exec /\ disp' = disp
  BY <1>1 DEF ReadFile, Record, IInv, TypeOK
<1>4. ASSUME ~background' PROVE disp = exec /\ Inside(moved) /\ next = moved.pos
  <2>1. disp = exec /\ f.type = "file" /\ inode = f.inode
    BY <1>4 DEF ReadFile, Record
  <2>2. Inside(f) /\ from = f.pos
    BY <1>1, <2>1 DEF IInv, Follows
  <2>3. f.pos <= Length[f.inode]
    BY <2>1, <2>2 DEF Inside
  <2>4. moved.pos = f.pos + Remain(f.inode, f.pos, length)
        /\ moved.type = "file" /\ moved.inode = f.inode
    BY <1>1, <2>1 DEF Descriptor
  <2>5. moved.pos <= Length[f.inode]
    BY <1>1, <2>3, <2>4, RemainType DEF Descriptor
  <2> QED
    BY <2>1, <2>2, <2>4, <2>5 DEF Inside
<1> HIDE DEF f, moved, next
<1> QED
  BY <1>1, <1>2, <1>3, <1>4, OneDescriptor

LEMMA ReadDirInv ==
  ASSUME IInv, ~background, NEW fd \in Fds, ReadDir(fd)
  PROVE  IInv'
<1> DEFINE f == open_files[disp][fd]
           moved == [f EXCEPT !.pos = NextIndex(f.pos)]
           from == due[exec][fd]
           entry == IF from < Len(DirEntries) THEN <<from>> ELSE <<>>
           next == from + Len(entry)
<1>1. /\ exec \in Terminals /\ disp \in Terminals
      /\ f \in Descriptor /\ from \in Nat
  BY DEF IInv, TypeOK, Descriptor
<1>2. Len(entry) = IF from < Len(DirEntries) THEN 1 ELSE 0
  OBVIOUS
<1>3. Len(DirEntries) \in Nat
  BY FilesAssumption
<1>4. moved \in Descriptor /\ next \in Nat
  BY <1>1, <1>2, <1>3 DEF Descriptor, NextIndex
<1>5. /\ open_files' = [open_files EXCEPT ![disp][fd] = moved]
      /\ due' = [due EXCEPT ![exec][fd] = next]
      /\ right' \in BOOLEAN /\ background' \in BOOLEAN
      /\ exec' = exec /\ disp' = disp
  BY <1>1 DEF ReadDir, Record, IInv, TypeOK
<1>6. ASSUME ~background' PROVE disp = exec /\ Inside(moved) /\ next = moved.pos
  <2>1. disp = exec /\ f.type = "dir"
    BY <1>6 DEF ReadDir, Record
  <2>2. Inside(f) /\ from = f.pos
    BY <1>1, <2>1 DEF IInv, Follows
  <2>3. f.pos <= Len(DirEntries)
    BY <2>1, <2>2 DEF Inside
  <2>4. moved.pos = NextIndex(f.pos) /\ moved.type = "dir"
    BY <1>1, <2>1 DEF Descriptor
  <2> QED
    BY <1>1, <1>2, <1>3, <2>1, <2>2, <2>3, <2>4 DEF Inside, NextIndex, Descriptor
<1> HIDE DEF f, moved, next
<1> QED
  BY <1>1, <1>4, <1>5, <1>6, OneDescriptor

LEMMA StepInv == IInv /\ [Next]_vars => IInv'
<1> SUFFICES ASSUME IInv, [Next]_vars PROVE IInv'
  OBVIOUS
<1>1. CASE ~background /\ \E n \in DOMAIN DirEntries : Open(DirEntries[n])
  BY <1>1, OpenInv
<1>2. CASE ~background /\ \E fd \in Fds : Close(fd)
  BY <1>2, CloseInv
<1>3. CASE ~background /\ \E fd \in Fds : ReadDir(fd)
  BY <1>3, ReadDirInv
<1>4. CASE ~background /\ \E fd \in Fds, n \in Sizes : ReadFile(fd, n)
  BY <1>4, ReadFileInv
<1>5. CASE ~background /\ Restart
  BY <1>5, RestartInv
<1>6. CASE Tick
  <2>1. exec' \in Terminals
    BY <1>6, FilesAssumption DEF Tick, IInv, TypeOK, Terminals
  <2> QED
    BY <1>6, <2>1 DEF Tick, IInv, TypeOK, Follows, Inside
<1>7. CASE \E t \in Terminals : SwitchTerminal(t)
  <2>1. PICK t \in Terminals : SwitchTerminal(t)
    BY <1>7
  <2> QED
    BY <2>1 DEF SwitchTerminal, IInv, TypeOK, Follows, Inside
<1>8. CASE UNCHANGED vars
  BY <1>8 DEF vars, IInv, TypeOK, Follows, Inside
<1> QED
  BY <1>1, <1>2, <1>3, <1>4, <1>5, <1>6, <1>7, <1>8 DEF Next

(* The position of a descriptor is where its next read is due, as long as   *)
(* programs read only on the displayed terminal.                            *)
THEOREM PositionsFollow == Spec => []IInv
BY InitInv, StepInv, PTL DEF Spec

(* Types, for every image and any number of terminals.                      *)
THEOREM TypeCorrect == Spec => []TypeOK
<1>1. IInv => TypeOK
  BY DEF IInv
<1> QED
  BY <1>1, PositionsFollow, PTL

(* No position passes the end of its file or directory (read_data).         *)
THEOREM StaysInside == Spec => []PositionsInside
<1>1. IInv => PositionsInside
  BY DEF IInv, Follows, PositionsInside, Inside
<1> QED
  BY <1>1, PositionsFollow, PTL

----------------------------------------------------------------------------
(* What read_data returns.                                                  *)

(* Where the byte at a position of a file is, and m bytes from a position.  *)
Address(inode, p) == Block(inode, p \div BlockSize) * BlockSize + (p % BlockSize)
Piece(inode, p, m) == [k \in 1..m |-> Address(inode, p + k - 1)]

LEMMA AddressType ==
  ASSUME NEW inode \in Inodes, NEW p \in Nat
  PROVE  Address(inode, p) \in Nat
<1>1. PICK b \in Nat : b = BlockSize /\ b > 0
  BY FilesAssumption
<1>2. Blocks[inode] \in Seq(Nat)
  BY FilesAssumption
<1>3. p \div b \in Nat /\ p % b \in Nat
  BY <1>1
<1>4. Block(inode, p \div b) \in Nat
  BY <1>2, <1>3 DEF Block
<1>5. Block(inode, p \div b) * b \in Nat
  BY <1>1, <1>4
<1> QED
  BY <1>1, <1>3, <1>5 DEF Address

LEMMA InBlock ==
  ASSUME NEW b \in Nat, NEW a \in Nat, NEW c \in Nat, c < b
  PROVE  (b * a + c) \div b = a /\ (b * a + c) % b = c
OBVIOUS

(* Bytes of one block are copied from their addresses.                      *)
LEMMA CopiedIs ==
  ASSUME NEW inode \in Inodes, NEW a \in Nat, NEW c \in Nat, NEW m \in Int, c + m <= BlockSize
  PROVE  Copied(Block(inode, a) * BlockSize + c, m) = Piece(inode, BlockSize * a + c, m)
<1>1. PICK b \in Nat : b = BlockSize /\ b > 0
  BY FilesAssumption
<1>2. ASSUME NEW k \in 1..m
      PROVE  Block(inode, a) * b + c + k - 1 = Address(inode, b * a + c + k - 1)
  <2>1. c + k - 1 \in Nat /\ c + k - 1 < b
    BY <1>1
  <2>2. (b * a + (c + k - 1)) \div b = a /\ (b * a + (c + k - 1)) % b = c + k - 1
    BY <1>1, <2>1, InBlock
  <2>3. b * a + (c + k - 1) = b * a + c + k - 1
    BY <1>1
  <2>4. Address(inode, b * a + c + k - 1) = Block(inode, a) * b + (c + k - 1)
    BY <1>1, <2>2, <2>3, Zenon DEF Address
  <2>5. Block(inode, a) * b \in Int
    <3>1. Blocks[inode] \in Seq(Nat)
      BY FilesAssumption
    <3>2. Block(inode, a) \in Nat
      BY <3>1 DEF Block
    <3> QED
      BY <1>1, <3>2
  <2> QED
    BY <2>4, <2>5
<1> QED
  BY <1>1, <1>2 DEF Copied, Piece

(* Byte c of block a of a file is at this address, and p in the file.       *)
Lies(inode, a, c, address, p) ==
  address = Block(inode, a) * BlockSize + c /\ p = BlockSize * a + c

LEMMA CopiedFrom ==
  ASSUME NEW inode \in Inodes, NEW a \in Nat, NEW c \in Nat, NEW address, NEW p,
         Lies(inode, a, c, address, p), NEW m \in Int, c + m <= BlockSize
  PROVE  Copied(address, m) = Piece(inode, p, m)
BY CopiedIs, Zenon DEF Lies

LEMMA ConcatAt ==
  ASSUME NEW s \in Seq(Nat), NEW t \in Seq(Nat)
  PROVE  /\ s \o t \in Seq(Nat)
         /\ Len(s \o t) = Len(s) + Len(t)
         /\ \A k \in 1..(Len(s) + Len(t)) :
              (s \o t)[k] = IF k <= Len(s) THEN s[k] ELSE t[k - Len(s)]
OBVIOUS

LEMMA SameSeq ==
  ASSUME NEW s \in Seq(Nat), NEW t \in Seq(Nat), Len(s) = Len(t),
         \A k \in 1..Len(s) : s[k] = t[k]
  PROVE  s = t
OBVIOUS

LEMMA PieceType ==
  ASSUME NEW inode \in Inodes, NEW p \in Nat, NEW m \in Nat
  PROVE  /\ Piece(inode, p, m) \in Seq(Nat)
         /\ Len(Piece(inode, p, m)) = m
         /\ \A k \in 1..m : Piece(inode, p, m)[k] = Address(inode, p + k - 1)
BY AddressType DEF Piece

(* Pieces that follow each other make one.                                  *)
Join(s, t) == s \o t

LEMMA PiecesJoin ==
  ASSUME NEW inode \in Inodes, NEW p \in Nat, NEW m \in Nat, NEW j \in Nat
  PROVE  Join(Piece(inode, p, m), Piece(inode, p + m, j)) = Piece(inode, p, m + j)
<1> m + j \in Nat /\ p + m \in Nat
  OBVIOUS
<1>1. PICK s \in Seq(Nat) : s = Piece(inode, p, m)
  BY PieceType
<1>2. PICK t \in Seq(Nat) : t = Piece(inode, p + m, j)
  BY PieceType
<1> DEFINE n == m + j
<1> HIDE DEF n
<1>0. n \in Nat /\ n = m + j
  BY DEF n
<1>3. PICK u \in Seq(Nat) : u = Piece(inode, p, n)
  BY <1>0, PieceType, Zenon
<1>4. Len(s) = m /\ \A k \in 1..m : s[k] = Address(inode, p + k - 1)
  BY <1>1, PieceType
<1>5. Len(t) = j /\ \A k \in 1..j : t[k] = Address(inode, (p + m) + k - 1)
  BY <1>2, PieceType
<1>6. Len(u) = n /\ \A k \in 1..n : u[k] = Address(inode, p + k - 1)
  BY <1>0, <1>3, PieceType, Zenon
<1>7. PICK w \in Seq(Nat) : w = s \o t
  BY ConcatAt, Zenon
<1>8. /\ Len(w) = n
      /\ \A k \in 1..n : w[k] = IF k <= m THEN s[k] ELSE t[k - m]
  BY <1>0, <1>4, <1>5, <1>7, ConcatAt
<1>9. ASSUME NEW k \in 1..n PROVE w[k] = u[k]
  <2>1. CASE k <= m
    BY <1>4, <1>6, <1>8, <2>1
  <2>2. CASE ~(k <= m)
    <3>1. k - m \in 1..j /\ (p + m) + (k - m) - 1 = p + k - 1
      BY <1>0, <2>2
    <3>2. t[k - m] = Address(inode, p + k - 1)
      BY <1>5, <3>1
    <3> QED
      BY <1>6, <1>8, <2>2, <3>2
  <2> QED
    BY <2>1, <2>2
<1>10. w = u
  BY <1>6, <1>8, <1>9, SameSeq
<1> QED
  BY <1>0, <1>1, <1>2, <1>3, <1>7, <1>10, Zenon DEF Join

(* The loop of read_data over the blocks, unfolded.                         *)
Skipped(offset, i) == IF i = 0 THEN offset % BlockSize ELSE 0
From(inode, offset, i) ==
  Block(inode, (offset \div BlockSize) + i) * BlockSize + Skipped(offset, i)
To(offset, i) ==
  IF i = 0 THEN 0 ELSE (i - 1) * BlockSize + (BlockSize - Skipped(offset, 0))

Turn(f, inode, offset, n, i) ==
  IF n - To(offset, i) > BlockSize
    THEN Copied(From(inode, offset, i), BlockSize - Skipped(offset, i)) \o f[i + 1]
    ELSE Copied(From(inode, offset, i), n - To(offset, i))

Walks(f, inode, offset, n) ==
  f = [i \in 0..n |-> Turn(f, inode, offset, n, i)]

Rest(inode, offset, n, i) == Piece(inode, offset + To(offset, i), n - To(offset, i))

(* A block behind the first goes where the one before it ends, and lies in  *)
(* the file as it lies in the buffer.                                       *)
LEMMA Places ==
  ASSUME NEW offset \in Nat, NEW i \in Nat, i # 0
  PROVE  /\ To(offset, i) \in Nat /\ i <= To(offset, i)
         /\ offset + To(offset, i) = BlockSize * ((offset \div BlockSize) + i)
         /\ To(offset, i + 1) = To(offset, i) + BlockSize
<1>1. PICK b \in Nat : b = BlockSize /\ b > 0
  BY FilesAssumption
<1>2. PICK a \in Nat : a = offset \div b
  BY <1>1
<1>3. PICK c \in Nat : c = offset % b /\ c < b
  BY <1>1
<1>4. offset = b * a + c
  BY <1>1, <1>2, <1>3
<1>5. To(offset, i) = (i - 1) * b + (b - c)
  BY <1>1, <1>3 DEF To, Skipped
<1>6. To(offset, i + 1) = i * b + (b - c)
  BY <1>1, <1>3 DEF To, Skipped
<1>7. (i - 1) * b + b = i * b /\ (i - 1) * b \in Nat /\ (i - 1) * b >= i - 1
  BY <1>1
<1>8. b * (a + i) = b * a + i * b /\ b * a \in Nat /\ i * b \in Nat
  BY <1>1
<1>9. offset + To(offset, i) = b * (a + i)
  BY <1>3, <1>4, <1>5, <1>7, <1>8
<1>10. To(offset, i) \in Nat /\ i <= To(offset, i)
  BY <1>3, <1>5, <1>7
<1>11. To(offset, i + 1) = To(offset, i) + b
  BY <1>3, <1>5, <1>6, <1>7, <1>8
<1> QED
  BY <1>1, <1>2, <1>9, <1>10, <1>11

LEMMA TurnBehind ==
  ASSUME NEW inode \in Inodes, NEW offset \in Nat, NEW n \in Nat,
         NEW i \in 1..n, NEW f,
         i + 1 <= n => f[i + 1] = Rest(inode, offset, n, i + 1)
  PROVE  Turn(f, inode, offset, n, i) = Rest(inode, offset, n, i)
<1>1. BlockSize \in Nat /\ BlockSize > 0
  BY FilesAssumption
<1>2. PICK a \in Nat : a = (offset \div BlockSize) + i
  BY <1>1
<1>3. PICK to \in Nat : to = To(offset, i) /\ i <= to
  BY Places
<1>4. offset + to = BlockSize * a + 0 /\ To(offset, i + 1) = to + BlockSize
  <2>1. offset + to = BlockSize * a /\ To(offset, i + 1) = to + BlockSize
    BY <1>1, <1>2, <1>3, Places
  <2>2. BlockSize * a + 0 = BlockSize * a
    BY <1>1, <1>2
  <2> QED
    BY <2>1, <2>2
<1>5. From(inode, offset, i) = Block(inode, a) * BlockSize + 0 /\ Skipped(offset, i) = 0
  BY <1>1, <1>2 DEF From, Skipped
<1>0. Lies(inode, a, 0, From(inode, offset, i), offset + to)
  BY <1>4, <1>5, Zenon DEF Lies
<1>6. CASE n - to > BlockSize
  <2>1. i + 1 <= n
    BY <1>1, <1>3, <1>6
  <2>2. PICK p \in Nat : p = offset + to
    BY <1>3
  <2>3. PICK j \in Nat : j = (n - to) - BlockSize /\ n - (to + BlockSize) = j /\ BlockSize + j = n - to
    BY <1>1, <1>3, <1>6
  <2>4. f[i + 1] = Piece(inode, p + BlockSize, j)
    <3>1. offset + (to + BlockSize) = p + BlockSize
      BY <1>1, <1>3, <2>2
    <3> QED
      BY <1>4, <2>1, <2>3, <3>1 DEF Rest
  <2>5. Copied(From(inode, offset, i), BlockSize) = Piece(inode, p, BlockSize)
    BY <1>0, <1>1, <1>2, <2>2, CopiedFrom
  <2>6. Turn(f, inode, offset, n, i)
          = Join(Piece(inode, p, BlockSize), Piece(inode, p + BlockSize, j))
    <3>1. BlockSize - Skipped(offset, i) = BlockSize
      BY <1>1, <1>5
    <3> QED
      BY <1>1, <1>3, <1>6, <2>4, <2>5, <3>1 DEF Turn, Join
  <2>7. Join(Piece(inode, p, BlockSize), Piece(inode, p + BlockSize, j))
          = Piece(inode, p, n - to)
    <3>1. Join(Piece(inode, p, BlockSize), Piece(inode, p + BlockSize, j))
            = Piece(inode, p, BlockSize + j)
      BY ONLY inode \in Inodes, p \in Nat, j \in Nat, <1>1, PiecesJoin, SMT
    <3> QED
      BY <2>3, <3>1, Zenon
  <2> QED
    BY <1>3, <2>2, <2>6, <2>7 DEF Rest
<1>7. CASE ~(n - to > BlockSize)
  <2>1. PICK m \in Int : m = n - to /\ 0 + m <= BlockSize
    BY <1>1, <1>3, <1>7
  <2>2. Copied(From(inode, offset, i), m) = Piece(inode, offset + to, m)
    BY <1>0, <1>1, <1>2, <2>1, CopiedFrom
  <2>3. Turn(f, inode, offset, n, i) = Copied(From(inode, offset, i), m)
    BY <1>1, <1>3, <1>7, <2>1 DEF Turn
  <2> QED
    BY <1>3, <2>1, <2>2, <2>3, Zenon DEF Rest
<1> QED
  BY <1>6, <1>7

LEMMA TurnFirst ==
  ASSUME NEW inode \in Inodes, NEW offset \in Nat, NEW n \in Nat, NEW f,
         n >= 1 => f[1] = Rest(inode, offset, n, 1),
         ~(n <= BlockSize /\ (offset % BlockSize) + n > BlockSize)
  PROVE  Turn(f, inode, offset, n, 0) = Piece(inode, offset, n)
<1>1. BlockSize \in Nat /\ BlockSize > 0
  BY FilesAssumption
<1>2. PICK a \in Nat : a = offset \div BlockSize
  BY <1>1
<1>3. PICK c \in Nat : c = offset % BlockSize /\ c < BlockSize
  BY <1>1
<1>4. offset = BlockSize * a + c
  BY <1>1, <1>2, <1>3
<1>5. /\ From(inode, offset, 0) = Block(inode, a) * BlockSize + c
      /\ Skipped(offset, 0) = c
      /\ To(offset, 0) = 0
      /\ To(offset, 1) = BlockSize - c
  <2>1. a + 0 = a /\ (1 - 1) * BlockSize = 0
    BY <1>1, <1>2
  <2>2. Skipped(offset, 0) = c
    BY <1>1, <1>3 DEF Skipped
  <2>3. From(inode, offset, 0) = Block(inode, a) * BlockSize + c
    BY <1>1, <1>2, <2>1, <2>2 DEF From
  <2>4. To(offset, 1) = (1 - 1) * BlockSize + (BlockSize - c)
    BY <1>1, <2>2 DEF To
  <2>5. To(offset, 1) = BlockSize - c
    BY <1>1, <1>3, <2>1, <2>4
  <2> QED
    BY <2>2, <2>3, <2>5 DEF To
<1>0. Lies(inode, a, c, From(inode, offset, 0), offset)
  BY <1>4, <1>5, Zenon DEF Lies
<1>6. CASE n > BlockSize
  <2>1. PICK m \in Nat : m = BlockSize - c /\ c + m <= BlockSize
    BY <1>1, <1>3
  <2>2. PICK j \in Nat : j = n - m /\ m + j = n
    BY <1>1, <1>6, <2>1
  <2>3. f[1] = Piece(inode, offset + m, j)
    BY <1>1, <1>5, <1>6, <2>1, <2>2 DEF Rest
  <2>4. Copied(From(inode, offset, 0), m) = Piece(inode, offset, m)
    BY <1>0, <1>1, <1>2, <1>3, <2>1, CopiedFrom
  <2>5. PICK q \in Nat : q = offset + m
    OBVIOUS
  <2>6. Turn(f, inode, offset, n, 0) = Join(Piece(inode, offset, m), Piece(inode, q, j))
    <3>1. n - To(offset, 0) > BlockSize /\ 0 + 1 = 1
      BY <1>1, <1>5, <1>6
    <3>2. Turn(f, inode, offset, n, 0) = Copied(From(inode, offset, 0), m) \o f[1]
      BY <1>5, <2>1, <3>1, Zenon DEF Turn
    <3> QED
      BY <2>3, <2>4, <2>5, <3>2, Zenon DEF Join
  <2>7. Join(Piece(inode, offset, m), Piece(inode, q, j)) = Piece(inode, offset, n)
    <3>1. Join(Piece(inode, offset, m), Piece(inode, offset + m, j))
            = Piece(inode, offset, m + j)
      BY ONLY inode \in Inodes, offset \in Nat, m \in Nat, j \in Nat, PiecesJoin, SMT
    <3> QED
      BY <2>2, <2>5, <3>1, Zenon
  <2> QED
    BY <2>6, <2>7, Zenon
<1>7. CASE ~(n > BlockSize)
  <2>1. c + n <= BlockSize
    BY <1>1, <1>3, <1>7
  <2>2. Turn(f, inode, offset, n, 0) = Copied(From(inode, offset, 0), n)
    <3>1. n - To(offset, 0) = n /\ ~(n > BlockSize)
      BY <1>5, <1>7
    <3> QED
      BY <3>1, Zenon DEF Turn
  <2>3. Copied(From(inode, offset, 0), n) = Piece(inode, offset, n)
    BY <1>0, <1>1, <1>2, <1>3, <2>1, CopiedFrom
  <2> QED
    BY <2>2, <2>3, Zenon
<1> QED
  BY <1>6, <1>7

(* The loop has a solution.                                                 *)
LEMMA WalkExists ==
  ASSUME NEW inode \in Inodes, NEW offset \in Nat, NEW n \in Nat
  PROVE  \E f : Walks(f, inode, offset, n)
<1> DEFINE tails == [i \in 0..n |-> Rest(inode, offset, n, i)]
           g == [i \in 0..n |-> IF i = 0 THEN Turn(tails, inode, offset, n, 0)
                                ELSE Rest(inode, offset, n, i)]
<1>1. \A i \in 1..n : tails[i] = Rest(inode, offset, n, i) /\ g[i] = Rest(inode, offset, n, i)
  OBVIOUS
<1>2. g[0] = Turn(tails, inode, offset, n, 0)
  OBVIOUS
<1>3. g = [i \in 0..n |-> g[i]]
  OBVIOUS
<1> HIDE DEF g, tails
<1>4. ASSUME NEW i \in 0..n PROVE g[i] = Turn(g, inode, offset, n, i)
  <2>1. CASE i = 0
    <3>1. n - To(offset, 0) > BlockSize => 1 \in 1..n
      BY FilesAssumption DEF To
    <3>2. n - To(offset, 0) > BlockSize => tails[0 + 1] = g[0 + 1]
      <4>1. 0 + 1 = 1
        OBVIOUS
      <4> QED
        BY <1>1, <3>1, <4>1
    <3>3. Turn(tails, inode, offset, n, 0) = Turn(g, inode, offset, n, 0)
      BY <3>2, Zenon DEF Turn
    <3> QED
      BY <1>2, <2>1, <3>3
  <2>2. CASE i # 0
    <3>1. i \in 1..n /\ (i + 1 <= n => i + 1 \in 1..n)
      BY <2>2
    <3> QED
      BY <1>1, <3>1, TurnBehind
  <2> QED
    BY <2>1, <2>2
<1>5. Walks(g, inode, offset, n)
  BY <1>3, <1>4, Zenon DEF Walks
<1> QED
  BY <1>5

(* read_data returns the bytes of the file from the offset on, unless its   *)
(* only copy crosses the end of a block.                                    *)
LEMMA ReadsSlice ==
  ASSUME NEW inode \in Inodes, NEW offset \in Nat, NEW length \in Nat,
         ~Crosses(inode, offset, length)
  PROVE  ReadData(inode, offset, length)
           = Slice(inode, offset, Remain(inode, offset, length))
<1> DEFINE n == Remain(inode, offset, length)
           f == CHOOSE walk : Walks(walk, inode, offset, n)
<1>0. n \in Nat
  BY RemainType
<1>1. Walks(f, inode, offset, n)
  BY <1>0, WalkExists
<1>2. ReadData(inode, offset, length) = f[0]
  BY DEF ReadData, Walks, Turn, From, To, Skipped
<1>3. Slice(inode, offset, n) = Piece(inode, offset, n)
  BY DEF Slice, Piece, Address
<1>4. ~(n <= BlockSize /\ (offset % BlockSize) + n > BlockSize)
  BY DEF Crosses
<1> HIDE DEF f, n
<1>5. \A i \in 0..n : f[i] = Turn(f, inode, offset, n, i)
  BY <1>1 DEF Walks
<1>6. \A i \in 1..n : f[i] = Rest(inode, offset, n, i)
  <2> DEFINE Bad == {m \in 0..n : n - m # 0 /\ f[n - m] # Rest(inode, offset, n, n - m)}
  <2>1. Bad = {}
    <3> SUFFICES ASSUME Bad # {} PROVE FALSE
      OBVIOUS
    <3>1. Bad \in SUBSET Nat
      OBVIOUS
    <3>2. PICK m \in Bad : \A j \in Bad : m <= j
      BY <3>1, LeastOf
    <3>3. m \in 0..n /\ n - m # 0 /\ f[n - m] # Rest(inode, offset, n, n - m)
      OBVIOUS
    <3>4. PICK i \in 1..n : i = n - m
      BY <1>0, <3>3
    <3>5. ASSUME i + 1 <= n PROVE f[i + 1] = Rest(inode, offset, n, i + 1)
      <4>1. m - 1 \in 0..n /\ n - (m - 1) = i + 1 /\ n - (m - 1) # 0 /\ ~(m <= m - 1)
        BY <1>0, <3>3, <3>4, <3>5
      <4>2. m - 1 \notin Bad
        BY <3>2, <4>1
      <4> QED
        BY <4>1, <4>2
    <3>6. f[i] = Turn(f, inode, offset, n, i)
      BY <1>0, <1>5
    <3>7. f[i] = Rest(inode, offset, n, i)
      BY <1>0, <3>5, <3>6, TurnBehind
    <3> QED
      BY <3>3, <3>4, <3>7
  <2>2. ASSUME NEW i \in 1..n PROVE f[i] = Rest(inode, offset, n, i)
    <3>1. n - i \in 0..n /\ n - (n - i) = i /\ i # 0
      BY <1>0
    <3>2. n - i \notin Bad
      BY <2>1
    <3> QED
      BY <3>1, <3>2
  <2> QED
    BY <2>2
<1>7. f[0] = Piece(inode, offset, n)
  <2>1. n >= 1 => f[1] = Rest(inode, offset, n, 1)
    BY <1>0, <1>6
  <2>2. f[0] = Turn(f, inode, offset, n, 0)
    BY <1>0, <1>5
  <2> QED
    BY <1>0, <1>4, <2>1, <2>2, TurnFirst
<1> QED
  BY <1>2, <1>3, <1>7 DEF n

----------------------------------------------------------------------------
(* A read that leaves its program displayed returned what was due.          *)
LEMMA ReadFileRight ==
  ASSUME IInv, NEW fd \in Fds, NEW length \in Sizes, ~background,
         ReadFile(fd, length), ~background'
  PROVE  right'
<1> DEFINE f == open_files[disp][fd]
           inode == open_files[exec][fd].inode
           from == due[exec][fd]
<1>1. exec = disp /\ exec \in Terminals /\ f = open_files[exec][fd]
  BY DEF ReadFile, Record, IInv, TypeOK
<1>2. f.inode = inode /\ f.pos = from
  BY <1>1 DEF IInv, Follows
<1>3. inode \in Inodes /\ from \in Nat /\ length \in Nat
  BY <1>1, FilesAssumption DEF IInv, TypeOK
<1>4. right' = \/ ReadData(f.inode, f.pos, length)
                    = Slice(inode, from, Remain(inode, from, length))
               \/ f.inode = inode /\ f.pos = from /\ Crosses(inode, from, length)
  BY DEF ReadFile, Record
<1> HIDE DEF f, inode, from
<1>5. CASE Crosses(inode, from, length)
  BY <1>2, <1>4, <1>5
<1>6. CASE ~Crosses(inode, from, length)
  BY <1>2, <1>3, <1>4, <1>6, ReadsSlice
<1> QED
  BY <1>5, <1>6

LEMMA ReadDirRight ==
  ASSUME IInv, NEW fd \in Fds, ~background, Len(DirEntries) < DirLimit,
         ReadDir(fd), ~background'
  PROVE  right'
<1> DEFINE index == open_files[disp][fd].pos
           from == due[exec][fd]
<1>1. exec = disp /\ exec \in Terminals
  BY DEF ReadDir, Record, IInv, TypeOK
<1>2. index = from /\ from \in Nat
  BY <1>1 DEF IInv, Follows, TypeOK
<1>3. right' = (EntryAt(index) = IF from < Len(DirEntries) THEN <<from>> ELSE <<>>)
  BY DEF ReadDir, Record
<1> HIDE DEF index, from
<1>4. Len(DirEntries) \in Nat /\ DirLimit \in Nat
  BY FilesAssumption
<1>5. from < Len(DirEntries) => from + 1 < DirLimit
  BY <1>2, <1>4
<1> QED
  BY <1>2, <1>3, <1>5 DEF EntryAt

LEMMA StepRight ==
  ASSUME IInv, ReadsInOrder, Len(DirEntries) < DirLimit, [Next]_vars
  PROVE  ReadsInOrder'
<1> SUFFICES ASSUME ~background' PROVE right'
  BY DEF ReadsInOrder
<1>1. CASE ~background /\ \E fd \in Fds : ReadDir(fd)
  BY <1>1, ReadDirRight
<1>2. CASE ~background /\ \E fd \in Fds, n \in Sizes : ReadFile(fd, n)
  BY <1>2, ReadFileRight
<1>3. CASE UNCHANGED <<right, background>>
  BY <1>3 DEF ReadsInOrder
<1>4. \/ ~background /\ \E fd \in Fds : ReadDir(fd)
      \/ ~background /\ \E fd \in Fds, n \in Sizes : ReadFile(fd, n)
      \/ UNCHANGED <<right, background>>
  BY DEF Next, vars, Open, Close, Restart, Tick, SwitchTerminal
<1> QED
  BY <1>1, <1>2, <1>3, <1>4

(* Reads of the displayed program return the bytes of its own file in       *)
(* order, whatever the file's length, the block size, the offset and the    *)
(* sizes asked for, but for the last copy that crosses a block; and the     *)
(* entries of a directory that does not fill the boot block.  Of a full one *)
(* dir_read never returns the last entry.                                   *)
THEOREM InOrder ==
  ASSUME Len(DirEntries) < DirLimit
  PROVE  Spec => []ReadsInOrder
<1>1. Init => ReadsInOrder
  BY DEF Init, ReadsInOrder
<1>2. IInv /\ ReadsInOrder /\ [Next]_vars => ReadsInOrder'
  BY StepRight
<1> QED
  BY <1>1, <1>2, PositionsFollow, PTL DEF Spec
=============================================================================
