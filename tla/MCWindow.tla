------------------------------ MODULE MCWindow ------------------------------
(***************************************************************************)
(* The video window with a screen of 8 by 2 pixels, on two rooms that the   *)
(* window can be moved in by up to three pixels, with a board of two pixels *)
(* by two that has a transparent corner, and a jetpack of one pixel.        *)
(***************************************************************************)
EXTENDS Window

MCWidth == [hall |-> 11, yard |-> 8]
MCHeight == [hall |-> 3, yard |-> 4]
MCImgWidth == [board |-> 2, jetpack |-> 1]
MCImgHeight == [board |-> 2, jetpack |-> 1]
(* 64 colours tell all pixels of the photos apart, but two.                 *)
MCPixel(c) == 2^14 * (c \div 16) + 2^9 * ((c \div 4) % 4) + 2^3 * (c % 4) + 6

MCFile ==
  [hall |-> [i \in 1 .. 33 |-> MCPixel(i - 1)],
   yard |-> [i \in 1 .. 32 |-> MCPixel(i + 31)],
   board |-> <<100, 101, 102, 64>>,
   jetpack |-> <<110>>]

MCSpots == [board |-> {<<1, 0>>, <<1, 1>>}, jetpack |-> {<<6, 1>>, <<9, 1>>}]
=============================================================================
