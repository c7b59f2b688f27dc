--------------------------- MODULE MCLightPlayer --------------------------
(* The light player on all short programs over an alphabet.                *)
EXTENDS LightPlayerAnswers, LightPrograms

CONSTANTS Units, MaxUnits

MCPrograms == ProgramsOf(Units, MaxUnits)

===========================================================================
