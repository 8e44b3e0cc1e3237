------------------------------ MODULE TuxLine ------------------------------
(***************************************************************************)
(* The line discipline of the Tux controller, module/tuxctl-ld.c: packets   *)
(* of three bytes are found again in what the serial driver received, and   *)
(* commands go out through a ring that a call and the receive interrupt     *)
(* share.                                                                   *)
(*                                                                          *)
(* The methods take a spinlock with interrupts off.  An interrupt is one    *)
(* step; a call of tuxctl_ldisc_put is cut where it holds no lock.  A ring  *)
(* is the sequence of its bytes.                                            *)
(***************************************************************************)
EXTENDS Naturals, FiniteSets, SequencesExt

CONSTANTS
  NumPackets,  \* bound: packets the controller sends, 1..NumPackets
  Resets,      \* those that are answered with two commands, as MTCP_RESET is
  RingRoom,    \* bytes that fit into a ring, TUXCTL_BUFSIZE - 1
  PacketRoom,  \* bytes of the array packet
  MaxLost,     \* bound: bytes lost on the line
  NumCommands, \* bound: commands put by calls
  Size,        \* bytes of a command
  DriverRoom   \* bytes that fit into the serial driver

ASSUME TuxLineAssumption ==
  /\ NumPackets \in Nat /\ Resets \subseteq 1..NumPackets
  /\ {RingRoom, DriverRoom, MaxLost, NumCommands} \subseteq Nat
  /\ PacketRoom \in Nat /\ PacketRoom > 2
  /\ Size \in Nat \ {0}

(* Byte k of packet or command p.  The first byte of a packet has its high  *)
(* bit clear, the others have it set.                                       *)
Byte(p, k) == <<p, k>>
High(b) == b[2] > 1

VARIABLES
  sent,     \* bytes the controller has sent
  gone,     \* history: the bytes that were lost
  flip,     \* what the serial driver received and has not handed over
  rx,       \* the receive ring
  saved,    \* saved, of tuxctl_ldisc_data_callback
  handled,  \* history: the packets given to tuxctl_handle_packet
  tx,       \* the transmit ring
  puts,     \* commands put so far
  putting,  \* a call of tuxctl_ldisc_put: "none", or after its first part
            \* "room", with the room known "take", with bytes taken "write"
  room, buf,  \* its room and the bytes it took
  out,      \* history: the bytes given to the serial driver
  done      \* how many of them the serial driver has sent

rcv == <<sent, gone, flip, rx, saved, handled>>
snd == <<tx, puts, putting, room, buf, out, done>>
line == <<rcv, snd>>

InitLine ==
  /\ sent = 0
  /\ gone = {}
  /\ flip = <<>> /\ rx = <<>> /\ saved = <<>> /\ handled = <<>>
  /\ tx = <<>> /\ buf = <<>> /\ out = <<>>
  /\ puts = 0 /\ room = 0 /\ done = 0
  /\ putting = "none"

Smaller(m, n) == IF m < n THEN m ELSE n
First(s, n) == SubSeq(s, 1, Smaller(n, Len(s)))
Rest(s, n) == SubSeq(s, Smaller(n, Len(s)) + 1, Len(s))

----------------------------------------------------------------------------
(* Transmission.                                                            *)
Room == DriverRoom - (Len(out) - done)

(* A command goes into the ring as far as it fits.                          *)
Filled(ring, id) == First(ring \o [k \in 1..Size |-> Byte(id, k)], RingRoom)

(* write_wakeup takes a byte more than the driver has room for.             *)
Taken(ring, r) == First(ring, r + 1)
LeftAll(ring, r) == ring
Left(ring, r) == Rest(ring, r + 1)

(* tuxctl_ldisc_put from a call: the ring is filled, ...                    *)
Put ==
  /\ putting = "none"
  /\ puts < NumCommands
  /\ puts' = puts + 1
  /\ tx' = Filled(tx, puts')
  /\ putting' = "room"
  /\ UNCHANGED <<rcv, room, buf, out, done>>

(* ... then tuxctl_ldisc_write_wakeup asks the driver for its room, ...     *)
ReadRoom ==
  /\ putting = "room"
  /\ room' = Room
  /\ putting' = "take"
  /\ UNCHANGED <<rcv, tx, puts, buf, out, done>>

(* ... takes bytes with the lock held, ...                                  *)
Take ==
  /\ putting = "take"
  /\ buf' = Taken(tx, room)
  /\ tx' = Left(tx, room)
  /\ room' = 0
  /\ putting' = "write"
  /\ UNCHANGED <<rcv, puts, out, done>>

(* ... and gives them to the driver, which accepts as many as fit.          *)
Write ==
  /\ putting = "write"
  /\ out' = out \o First(buf, Room)
  /\ buf' = <<>>
  /\ putting' = "none"
  /\ UNCHANGED <<rcv, tx, puts, room, done>>

(* The serial driver sends a byte, ...                                      *)
Drain ==
  /\ done < Len(out)
  /\ done' = done + 1
  /\ UNCHANGED <<rcv, tx, puts, putting, room, buf, out>>

(* ... and asks for more, from an interrupt.                                *)
WriteWakeup ==
  /\ out' = out \o First(Taken(tx, Room), Room)
  /\ tx' = Left(tx, Room)
  /\ UNCHANGED <<rcv, puts, putting, room, buf, done>>

----------------------------------------------------------------------------
(* Reception.                                                               *)
Wire == Byte((sent \div 3) + 1, (sent % 3) + 1)

(* A byte arrives, or is lost.                                              *)
Arrive ==
  /\ sent < 3 * NumPackets
  /\ sent' = sent + 1
  /\ \/ flip' = Append(flip, Wire) /\ gone' = gone
     \/ Cardinality(gone) < MaxLost /\ flip' = flip /\ gone' = gone \cup {Wire}
  /\ UNCHANGED <<rx, saved, handled, snd>>

(* tuxctl_ldisc_get removes what it returns.                                *)
RemainingAll(ring, got) == ring
Remaining(ring, got) == Rest(ring, got)

FramedByFirst(bytes, i) == ~High(bytes[i])

(* A packet may begin at i.                                                 *)
Framed(bytes, i) ==
  ~High(bytes[i]) /\ High(bytes[i + 1]) /\ High(bytes[i + 2])

(* The loop of the callback from byte i on: the packets that it finds, and  *)
(* the byte it stops at.  It stops before the last two bytes.               *)
Callback(bytes) ==
  LET n == Len(bytes)
      from[i \in 1..(n + 1)] ==
        IF i > n - 2 THEN [found |-> <<>>, stop |-> i]
        ELSE IF Framed(bytes, i)
          THEN [found |-> <<SubSeq(bytes, i, i + 2)>> \o from[i + 3].found,
                stop |-> from[i + 3].stop]
          ELSE from[i + 1]
  IN  from[1]

Found(bytes) == Callback(bytes).found

SavedNone(bytes) == <<>>
(* The bytes from there on, at most two, are kept for the next time.        *)
Leftover(bytes) == SubSeq(bytes, Callback(bytes).stop, Len(bytes))

(* tuxctl_handle_packet answers a reset with two commands, each put and     *)
(* followed by a write_wakeup in the interrupt.                             *)
Send(s, id) ==
  LET ring == Filled(s.tx, id)
      free == DriverRoom - (Len(s.out) - done)
  IN  [tx |-> Left(ring, free), out |-> s.out \o First(Taken(ring, free), free)]

Answer(s, packet) ==
  LET p == packet[1][1]
  IN  IF p \in Resets
        THEN Send(Send(s, NumCommands + 2 * p - 1), NumCommands + 2 * p)
        ELSE s

Answered(packets) ==
  LET after[n \in 0..Len(packets)] ==
        IF n = 0 THEN [tx |-> tx, out |-> out] ELSE Answer(after[n - 1], packets[n])
  IN  after[Len(packets)]

(* tuxctl_ldisc_rcv_buf: what does not fit into the ring is lost, and the   *)
(* callback takes what fits into its array.                                 *)
Receive ==
  /\ flip # <<>>
  /\ flip' = <<>>
  /\ LET free == RingRoom - Len(rx)
         ring == rx \o First(flip, free)
         got == PacketRoom - Len(saved)
         bytes == saved \o First(ring, got)
         after == Answered(Found(bytes))
     IN  /\ gone' = gone \cup ToSet(Rest(flip, free))
         /\ rx' = Remaining(ring, got)
         /\ handled' = handled \o Found(bytes)
         /\ saved' = Leftover(bytes)
         /\ tx' = after.tx
         /\ out' = after.out
  /\ UNCHANGED <<sent, puts, putting, room, buf, done>>

----------------------------------------------------------------------------
NextLine ==
  \/ Put \/ ReadRoom \/ Take \/ Write
  \/ Drain \/ WriteWakeup
  \/ Arrive \/ Receive

SpecLine == InitLine /\ [][NextLine]_line

----------------------------------------------------------------------------
Bytes == {Byte(p, k) : p \in 1..NumPackets, k \in 1..3}

Whole(p) == <<Byte(p, 1), Byte(p, 2), Byte(p, 3)>>

Pending == ToSet(flip) \cup ToSet(rx) \cup ToSet(saved)

(* A packet all of whose bytes arrived is handled, however the bytes were   *)
(* cut into chunks and whatever was lost around it.                         *)
WholeHandled ==
  \A p \in 1..(sent \div 3) :
    ToSet(Whole(p)) \cap (gone \cup Pending) = {} => Whole(p) \in ToSet(handled)

Place(b) == 3 * b[1] + b[2]
Between(b, c) == {d \in Bytes : Place(b) < Place(d) /\ Place(d) < Place(c)}

(* The framing bits detect lost bytes: bytes of two packets are taken for   *)
(* one only when at least two bytes between them were lost.                 *)
LossDetected ==
  \A h \in ToSet(handled) :
    \/ \E p \in 1..NumPackets : h = Whole(p)
    \/ Cardinality(Between(h[1], h[3]) \cap gone) >= 2

(* Packets are handled in the order they were sent, none twice.             *)
HandledInOrder ==
  \A i, j \in DOMAIN handled : i < j => Place(handled[i][3]) < Place(handled[j][1])

(* While the driver has room for all, a command goes out whole, once, and   *)
(* not mixed with another, and none is forgotten, although calls and the    *)
(* interrupt share the ring.                                                *)
CommandsWhole ==
  /\ \A i \in DOMAIN out :
       LET b == out[i]
       IN  /\ b[2] < Size => i < Len(out) /\ out[i + 1] = Byte(b[1], b[2] + 1)
           /\ \A j \in DOMAIN out : out[j] = b => j = i
  /\ \A id \in 1..puts : Byte(id, 1) \in ToSet(tx) \cup ToSet(buf) \cup ToSet(out)
=============================================================================
