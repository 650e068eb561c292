---------------------------- MODULE MCGuiSession ----------------------------
(***************************************************************************)
(* Instances of GuiSession for TLC.                                        *)
(***************************************************************************)
EXTENDS GuiSession

CONSTANTS lobby, den

TwoRooms == {lobby, den}
=============================================================================
