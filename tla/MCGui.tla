-------------------------------- MODULE MCGui --------------------------------
(***************************************************************************)
(* Bounded instances of Gui: two cases, the one the workstation starts     *)
(* with, where something else was acquired before, and another, empty one; *)
(* a source that can be read and one that cannot.                          *)
(***************************************************************************)
EXTENDS Gui

CONSTANTS a, b, x, y

MCCases == {a, b}
MCImages == {x, y}

MCSources == {x, NoImage}
=============================================================================
