------------------------------ MODULE PatchLimits ------------------------------
(* The texts of files, and what clients ask to replace in them.            *)
EXTENDS Naturals, Sequences

CONSTANTS Words, MaxLines,
          MaxBlock,         \* bound on the lines of a block that is looked for
          Replacements,     \* what blocks may be replaced by
          MaxPatches        \* 20 in the code

Line == [word : Words, ended : BOOLEAN]

\* A replacement is split into lines, too.
ASSUME ReplacementsAssumption == Replacements \subseteq Seq(Line)
================================================================================
