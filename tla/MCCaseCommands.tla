--------------------------- MODULE MCCaseCommands ---------------------------
(***************************************************************************)
(* Bounded instances of CaseCommands.  The first image has two blocks of 2 *)
(* bytes or one of 4; the others are the same grown at a block boundary,   *)
(* truncated at one, altered (its first header broken, with a start code   *)
(* behind it), and with a tail too short for a header.                     *)
(***************************************************************************)
EXTENDS CaseCommands

CONSTANTS p1, p2

MCProcs == {p1, p2}
MCByte == {0, 1, 2, 3, 5, 9}
MCSoundBytes == {1, 2, 3}
MCImages == {<<1, 5, 2, 9>>, <<1, 5, 2, 9, 3, 5>>, <<1, 5>>, <<0, 9, 2, 9>>, <<1, 5, 2>>}
MCFewImages == {<<1, 9, 9, 5>>, <<1, 9>>, <<0, 9, 9, 5>>}
MCBlockSizes == {2, 4}
MCBlockSize == {2}
Nothing == {}

EvidenceCommands == {"acquire", "parse", "verify", "query"}
DatabaseCommands == {"parse", "carve", "correlate", "analyze", "report"}
AllCommands == EvidenceCommands \cup DatabaseCommands

ProcSymmetry == {[p \in MCProcs |-> p], [p \in MCProcs |-> IF p = p1 THEN p2 ELSE p1]}
=============================================================================
