---------------------------- MODULE PatchSwitch ----------------------------
(***************************************************************************)
(* What the patch engine promises its callers: every key is an independent *)
(* on/off switch, bound to the patch it is first used with, and the        *)
(* positions of the switches alone decide what the game executes.          *)
(***************************************************************************)
EXTENDS Integers, Sequences

CONSTANTS Keys, Cells, Words, Stock, Patches, Address

VARIABLES
    patch,    \* the patch each used key is bound to
    on,       \* the switches that are on
    image     \* the code the game executes

switchVars == <<patch, on, image>>

Covers(p, k) == Address[k] .. (Address[k] + Len(p[k]) - 1)

(* The code m is what the switches in s, bound to the patches p, call for. *)
Shows(m, p, s) ==
    \A c \in Cells :
        /\ \A k \in s : c \in Covers(p, k) => m[c] = p[k][c - Address[k] + 1]
        /\ (\A k \in s : c \notin Covers(p, k)) => m[c] = Stock[c]

SwitchInit ==
    /\ patch = [k \in {} |-> << >>]
    /\ on = {}
    /\ image = Stock

(* A first use binds the key; no later use rebinds it. *)
Bound(k) ==
    \/ k \in DOMAIN patch /\ UNCHANGED patch
    \/ /\ k \notin DOMAIN patch
       /\ \E bytes \in Patches :
             patch' = [x \in DOMAIN patch \cup {k} |-> IF x = k THEN bytes ELSE patch[x]]

(* Moving one switch, or failing to, leaves the others where they are. *)
Switch(k) ==
    /\ Bound(k)
    /\ on' \in {on, on \cup {k}, on \ {k}}
    /\ image' \in [Cells -> Words]
    /\ Shows(image', patch', on')

SwitchSpec == SwitchInit /\ [][\E k \in Keys : Switch(k)]_switchVars
=============================================================================
