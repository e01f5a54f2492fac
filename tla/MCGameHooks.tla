----------------------------- MODULE MCGameHooks -----------------------------
(* The shipped use: hack_thread instruments one function, feature 5 two,   *)
(* one of them an exported symbol.                                         *)
EXTENDS GameHooks

MCAddresses == {"0x23558C", "0x235630", "_example__sym"}
MCCallers   == {"hack_thread", "Changes"}
MCUses      == [c \in MCCallers |-> IF c = "Changes" THEN {"0x235630", "_example__sym"} ELSE {"0x23558C"}]
=============================================================================
