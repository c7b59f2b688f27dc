----------------------------- MODULE MCMainLoop ---------------------------
(* An executor in a main loop, on all short programs over an alphabet.     *)
EXTENDS MainLoop, LightPrograms

CONSTANTS Units, MaxUnits

MCPrograms == ProgramsOf(Units, MaxUnits)

===========================================================================
