-------------------------- MODULE MCSavedFeatures --------------------------
(***************************************************************************)
(* One feature of each kind: a patch toggle that is on by default, a       *)
(* slider from 1 to 2 and a spinner of two items.                          *)
(***************************************************************************)
EXTENDS SavedFeatures

MCDefaultOn  == [f \in {"patch"} |-> TRUE]
MCMin        == [f \in {"coins"} |-> 1]
MCMax        == [f \in {"coins"} |-> 2]
MCNativeInit == [f \in {"patch", "coins", "origin"} |->
                    CASE f = "patch" -> FALSE [] f = "coins" -> 1 [] OTHER -> 0]
=============================================================================
