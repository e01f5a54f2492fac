-------------------------- MODULE MCFeatureChanges --------------------------
(***************************************************************************)
(* Features on a small library.  The first set of keys is used by the      *)
(* well-behaved features, which keep their patches apart; "_alias" is a    *)
(* second name of the address 0x1.  The last set is the keys of the        *)
(* handlers Main.cpp ships.                                                *)
(***************************************************************************)
EXTENDS FeatureChanges

WellKeys     == {"0x1", "0x3", "_sym", "_missing"}
WellOffsets  == {"0x1", "0x3"}
ShippedKeys  == {"0x1079728", "0x10709AC", "0x107094D", "_example__sym"}
MCKeys       == WellKeys \cup {"_alias"} \cup ShippedKeys
MCOffsetKeys == {"0x1", "0x3", "0x1079728", "0x10709AC", "0x107094D"}
MCCells      == 1 .. 6
MCWords      == 1 .. 6 \cup {11, 12, 13}
MCStock      == [c \in 1 .. 6 |-> c]
MCData       == {"C0035FD6", "ret", "mov w0, #222", "E05F40B2C0035FD6",
                 "mov x0, #0xffffff; ret", ""}
MCCode       == [d \in MCData |-> CASE d \in {"ret", "C0035FD6"} -> <<11>>
                                    [] d = "mov w0, #222"        -> <<12>>
                                    [] d = ""                    -> << >>
                                    [] OTHER                     -> <<13, 11>>]
WellResolve  == [k \in WellKeys |-> CASE k = "0x1"  -> 1
                                      [] k = "0x3"  -> 3
                                      [] k = "_sym" -> 5
                                      [] OTHER      -> 0]
MCResolve    == [k \in MCKeys |->
                    CASE k \in WellKeys            -> WellResolve[k]
                      [] k \in {"_alias", "0x1079728"} -> 1
                      [] k = "0x10709AC"           -> 3
                      [] k = "0x107094D"           -> 2
                      [] OTHER                     -> 0]
(* Machine code read as text names nothing. *)
MCSpelling   == [w \in MCWords |-> "_missing"]
MCAddOffset  == [a \in {"0x204", "0xAC", "0x5F"} |-> 1]

(* A switch; a pair of patches on and off; a missing symbol; relative forms. *)
WellBehaved  == {"switch", "pair", "missing", "relative", "relative symbol"}
WellHandler  == [fb \in WellBehaved \X BOOLEAN |->
    CASE fb[1] = "switch"   -> <<PATCH_SWITCH("0x1", "ret", fb[2])>>
      [] fb[1] = "pair"     -> IF fb[2] THEN <<PATCH("0x3", "E05F40B2C0035FD6"), PATCH("_sym", "ret")>>
                                        ELSE <<RESTORE("0x3"), RESTORE("_sym")>>
      [] fb[1] = "missing"  -> <<PATCH_SWITCH("_missing", "ret", fb[2])>>
      [] fb[1] = "relative" -> <<rPATCH_SWITCH("0x1", "0x204", "ret", fb[2])>>
      [] OTHER              -> <<rPATCH_SWITCH("_sym", "0xAC", "ret", fb[2])>>]

(* Two features on one address, by its offset and by its symbol. *)
Aliased      == {"offset", "symbol"}
AliasHandler == [fb \in Aliased \X BOOLEAN |->
    <<PATCH_SWITCH(IF fb[1] = "offset" THEN "0x1" ELSE "_alias", "ret", fb[2])>>]

(* Two features on one address, both by its offset. *)
SharedHandler == [fb \in Aliased \X BOOLEAN |-> <<PATCH_SWITCH("0x1", "ret", fb[2])>>]

(* One feature with a relative patch. *)
Relative     == {"relative"}
RelHandler   == [fb \in Relative \X BOOLEAN |-> <<rPATCH_SWITCH("0x1", "0x204", "ret", fb[2])>>]

(* The features of Main.cpp. *)
Shipped        == {0, 4}
ShippedHandler == [fb \in Shipped \X BOOLEAN |-> IF fb[1] = 0 THEN Changes0(fb[2]) ELSE Changes4(fb[2])]

(* The well-behaved features obey the rules under which the theorems about *)
(* switching hold.                                                         *)
ASSUME WellIsWellBehaved == Keys = WellKeys => WellBehavedFeatures /\ OffHandlersPassFalse
=============================================================================
