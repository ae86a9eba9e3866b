------------------------------ MODULE MCFootage ------------------------------
(***************************************************************************)
(* Bounded instances of Footage: every image with up to four of a handful  *)
(* of records, in any order.  They lie before, in, at the edge of and out  *)
(* of the window and the gaps of two cameras, one pair further apart than  *)
(* half the range of a timestamp; one is damaged, one is no video, the     *)
(* largest sequence number is among them.                                  *)
(***************************************************************************)
EXTENDS Footage

Video(c, t, n) == [ch |-> c, ts |-> t, seq |-> n, corrupted |-> FALSE]
Damaged(c, t, n) == [ch |-> c, ts |-> t, seq |-> n, corrupted |-> TRUE]

Frames ==
  {Video(1, 1, 0), Video(1, 2, 3), Video(1, 9, 1), Video(1, 7, 3),
   Video(2, 2, 1), Video(2, 3, 0), Video(2, 8, 2), Video(2, 13, 3),
   Damaged(1, 5, 1), Video(0, 0, 0)}

MCExtractions == BoundedSeq(Frames, 4)
==============================================================================
