----------------------------- MODULE MCCommands -----------------------------
(***************************************************************************)
(* Small instances of Commands for TLC.                                    *)
(***************************************************************************)
EXTENDS Commands

CONSTANTS cp1, cp2

MCOneCharger == {cp1}
MCTwoChargers == {cp1, cp2}
=============================================================================
