--------------------------- MODULE FeatureChanges ---------------------------
(***************************************************************************)
(* Changes of Main.cpp as far as it patches code: the UI thread runs the   *)
(* handler of a feature, a list of patch macros, one macro after another,  *)
(* while the linker may map the library between any two of them and any    *)
(* code patch may fail.                                                    *)
(***************************************************************************)
EXTENDS PatchEngine

CONSTANTS
    Features,    \* feature numbers with a handler made of patch macros
    Handler      \* the macros a feature runs for each value of boolean

(* A call of PATCH, RESTORE, PATCH_SWITCH or of one of their relative forms. *)
Macros == [kind : {"patch", "relative"}, key : Keys, add : DOMAIN AddOffset \cup {""},
           data : Data, apply : BOOLEAN]

ASSUME HandlerAssumption == Handler \in [Features \X BOOLEAN -> Seq(Macros)]

VARIABLES
    on,         \* the boolean each feature was last called with
    current,    \* the feature whose handler runs, or ran last
    todo,       \* the macros of that handler still to run
    clean       \* whether every macro of a feature's last run took hold

fcVars == <<loaded, mem, express, crashed, on, current, todo, clean>>

-----------------------------------------------------------------------------
(* The macros. *)
PATCH_SWITCH(k, d, b) == [kind |-> "patch", key |-> k, add |-> "", data |-> d, apply |-> b]
PATCH(k, d)           == PATCH_SWITCH(k, d, TRUE)
RESTORE(k)            == PATCH_SWITCH(k, "", FALSE)

rPATCH_SWITCH(root, add, d, b) ==
    [kind |-> "relative", key |-> root, add |-> add, data |-> d, apply |-> b]
rPATCH(root, add, d)  == rPATCH_SWITCH(root, add, d, TRUE)
rRESTORE(root, add)   == rPATCH_SWITCH(root, add, "", FALSE)

(* The two handlers Main.cpp ships, in the order of their lines. *)
Changes0(b) == <<
    PATCH_SWITCH("0x1079728", "C0035FD6", b),
    PATCH_SWITCH("_example__sym", "C0035FD6", b),
    PATCH_SWITCH("0x1079728", "ret", b),
    PATCH_SWITCH("_example__sym", "ret", b),
    PATCH_SWITCH("0x1079728", "mov w0, #222", TRUE),
    PATCH_SWITCH("_example__sym", "mov w0, #222", TRUE),
    rPATCH_SWITCH("0x1079728", "0x204", "C0035FD6", b),
    rPATCH_SWITCH("_example__sym", "0xAC", "C0035FD6", b),
    rPATCH_SWITCH("0x1079728", "0x204", "mov x0, #0xffffff; ret", b),
    rPATCH_SWITCH("_example__sym", "0xAC", "mov x0, #0xffffff; ret", b) >>

Changes4(b) ==
    IF b THEN <<
        PATCH("0x10709AC", "E05F40B2C0035FD6"),
        rPATCH("0x107094D", "0x5F", "E05F40B2C0035FD6"),
        PATCH("_example__sym", "E05F40B2C0035FD6"),
        rPATCH("_example__sym", "0x5F", "E05F40B2C0035FD6"),
        PATCH("0x10709AC", "mov x0, #0xffffff; ret"),
        rPATCH("0x107094D", "0x5F", "mov x0, #0xffffff; ret"),
        PATCH("_example__sym", "mov x0, #0xffffff; ret"),
        rPATCH("_example__sym", "0x5F", "mov x0, #0xffffff; ret") >>
    ELSE <<
        RESTORE("0x10709AC"), rRESTORE("0x10709AC", "0x5F"),
        RESTORE("_example__sym"), rRESTORE("_example__sym", "0x5F") >>

-----------------------------------------------------------------------------
fcInit ==
    /\ Init
    /\ on = [f \in Features |-> FALSE]
    /\ current \in Features
    /\ todo = << >>
    /\ clean = [f \in Features |-> TRUE]

(* The menu calls Changes(featNum, boolean) on the UI thread. *)
Changes(f, b) ==
    /\ todo = << >>
    /\ on' = [on EXCEPT ![f] = b]
    /\ current' = f
    /\ todo' = Handler[<<f, b>>]
    /\ clean' = [clean EXCEPT ![f] = TRUE]
    /\ UNCHANGED vars

Applied(entries, k) == k \in DOMAIN entries /\ entries[k].applied

(* DobbyPatchWrapper, its early returns included; the key ends up as asked or not. *)
RunPatch(c) ==
    /\ c.kind = "patch"
    /\ \/ DobbyPatchWrapper(c.key, c.data, c.apply)
       \/ ~Usable(c.key, c.data) /\ UNCHANGED vars
    /\ clean' = [clean EXCEPT ![current] = @ /\ (Applied(express', c.key) <=> c.apply)]

(* PatchRelativeOffset; it returns at once while the library is missing. *)
RunRelative(c) ==
    /\ c.kind = "relative"
    /\ \/ PatchRelativeOffset(c.key, c.add, c.data, c.apply)
       \/ ~loaded /\ UNCHANGED vars
       \/ /\ loaded /\ c.key \in OffsetKeys
          /\ ~Usable(Spelling[mem[Resolve[c.key] + AddOffset[c.add]]], c.data)
          /\ UNCHANGED vars
    /\ UNCHANGED clean

RunMacro ==
    /\ todo # << >>
    /\ RunPatch(Head(todo)) \/ RunRelative(Head(todo))
    /\ todo' = Tail(todo)
    /\ UNCHANGED <<on, current>>

fcNext ==
    /\ ~crashed
    /\ \/ LoadLibrary /\ UNCHANGED <<on, current, todo, clean>>
       \/ \E f \in Features, b \in BOOLEAN : Changes(f, b)
       \/ RunMacro

fcSpec == fcInit /\ [][fcNext]_fcVars

-----------------------------------------------------------------------------
fcTypeOK ==
    /\ TypeOK
    /\ on \in [Features -> BOOLEAN] /\ clean \in [Features -> BOOLEAN]
    /\ current \in Features
    /\ todo = << >> \/ \E b \in BOOLEAN : Len(todo) <= Len(Handler[<<current, b>>])

Idle == todo = << >> /\ ~crashed

(* The macros of one kind that a feature runs when it is called with b. *)
MacrosOf(f, b, kind) ==
    LET h == Handler[<<f, b>>] IN {h[i] : i \in {j \in 1 .. Len(h) : h[j].kind = kind}}

(* The cells the on-handler of a feature patches. *)
Targets(f) ==
    UNION {Span(Resolve[c.key], Len(Code[c.data])) :
              c \in {m \in MacrosOf(f, TRUE, "patch") : Resolve[m.key] # NoAddr}}

(***************************************************************************)
(* Switching features off puts the game back: when every feature that      *)
(* patches a cell is off and its off-handler took hold, the cell holds     *)
(* stock code, in whatever order the features were switched and whatever   *)
(* failed before (ARCHITECTURE.md:246).                                    *)
(***************************************************************************)
OffPutsBack ==
    Idle => \A x \in Cells :
        (\A f \in Features : x \in Targets(f) => ~on[f] /\ clean[f]) => mem[x] = Stock[x]

(***************************************************************************)
(* Switching a feature on patches the game: while the feature is on and    *)
(* its on-handler took hold, every cell it targets differs from stock, no  *)
(* matter how the other features were switched since.                      *)
(***************************************************************************)
OnTakesEffect ==
    Idle => \A f \in Features : on[f] /\ clean[f] =>
        \A x \in Targets(f) : mem[x] # Stock[x]

(* The same of the relative macros: the patch lands at root + offset       *)
(* (ARCHITECTURE.md:239-243).                                              *)
RelativeTakesEffect ==
    Idle => \A f \in Features : on[f] /\ clean[f] /\ loaded =>
        \A c \in MacrosOf(f, TRUE, "relative") :
            mem[Resolve[c.key] + AddOffset[c.add]] # Stock[Resolve[c.key] + AddOffset[c.add]]

(* A handler called with boolean = false applies no patch, at any of its   *)
(* macros: PATCH_SWITCH applies or restores depending on the boolean       *)
(* (ARCHITECTURE.md:226-227).                                              *)
OffNeverApplies ==
    [][todo # << >> /\ ~on[current] => \A k \in Keys : Applied(express', k) => Applied(express, k)]_fcVars

(* No patch macro takes the process down; an address that is not found is  *)
(* reported and skipped (Macros.h:265-268, ARCHITECTURE.md:259).           *)
NeverCrashes == ~crashed

(* What the switches promise, in well-typed states: off puts the game      *)
(* back, on takes effect, whatever happened in between.                    *)
SwitchesWork == fcTypeOK /\ OffPutsBack /\ OnTakesEffect

-----------------------------------------------------------------------------
(***************************************************************************)
(* The author's duty, under which the switches work.  A handler applies    *)
(* its patches when called with true and restores the same keys when       *)
(* called with false; no two features use one key, and a key is used with  *)
(* one patch (any other text given with it, like the empty one of RESTORE, *)
(* does not assemble); the patch changes every word it covers; no two keys *)
(* patch a common cell; and machine code read as text, which is what the   *)
(* relative macros look up, names nothing.                                 *)
(***************************************************************************)
PatchMacros(f, b) == MacrosOf(f, b, "patch")

FollowsBoolean(f) ==
    /\ \A b \in BOOLEAN : \A c \in PatchMacros(f, b) : c.apply = b
    /\ {c.key : c \in PatchMacros(f, TRUE)} = {c.key : c \in PatchMacros(f, FALSE)}

PatchesForReal(f) ==
    \A c \in PatchMacros(f, TRUE) :
        /\ Len(Code[c.data]) > 0
        /\ Resolve[c.key] # NoAddr =>
              \A i \in 1 .. Len(Code[c.data]) : Code[c.data][i] # Stock[Resolve[c.key] + i - 1]

OwnKeys ==
    \A f1, f2 \in Features : \A b1, b2 \in BOOLEAN :
        \A c1 \in PatchMacros(f1, b1), c2 \in PatchMacros(f2, b2) : c1.key = c2.key =>
            /\ f1 = f2
            /\ \/ Code[c1.data] = Code[c2.data]
               \/ Len(Code[c1.data]) = 0
               \/ Len(Code[c2.data]) = 0

(* What OffNeverApplies needs: off-handlers pass false, whatever the form. *)
OffHandlersPassFalse ==
    \A f \in Features : \A kind \in {"patch", "relative"} : \A c \in MacrosOf(f, FALSE, kind) : ~c.apply

WellBehavedFeatures ==
    /\ \A f \in Features : FollowsBoolean(f) /\ PatchesForReal(f)
    /\ OwnKeys
    /\ Separate
    /\ \A w \in Words : Resolve[Spelling[w]] = NoAddr
=============================================================================
