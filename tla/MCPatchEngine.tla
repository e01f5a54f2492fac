---------------------------- MODULE MCPatchEngine ----------------------------
(***************************************************************************)
(* The engine on a library of six words: two offsets, one symbol that      *)
(* exists and one that does not.  Stock words are 1..6, patch words above  *)
(* 10; a patch is one or two words long.                                   *)
(***************************************************************************)
EXTENDS PatchEngine

MCKeys       == {"0x1", "0x3", "_sym", "_missing"}
MCOffsetKeys == {"0x1", "0x3"}
MCCells      == 1 .. 6
MCWords      == 1 .. 6 \cup {11, 12, 13}
MCStock      == [c \in 1 .. 6 |-> c]
MCData       == {"hex", "ret", ""}
MCCode       == [d \in MCData |-> CASE d = "hex" -> <<11, 12>>
                                    [] d = "ret" -> <<13>>
                                    [] OTHER     -> << >>]
MCResolve    == [k \in MCKeys |-> CASE k = "0x1" -> 1 [] k = "0x3"  -> 3
                                    [] k = "_sym" -> 5 [] OTHER -> 0]
MCAddOffset  == [a \in {"0x4"} |-> 1]
(* One code word happens to spell a usable offset; the others spell nothing. *)
MCSpelling   == [w \in MCWords |-> IF w = 4 THEN "0x1" ELSE "_missing"]

(* No two keys patch a common cell, as the theorems about the engine ask. *)
ASSUME KeysAreSeparate == Separate
==============================================================================
