-------------------------------- MODULE MCXdl --------------------------------
(***************************************************************************)
(* The two state machines of xDL in one run: a behaviour is either about   *)
(* the locks on the way to the linker or about the handles, which take the *)
(* walk over the linker's list as one step.                                *)
(***************************************************************************)
EXTENDS XdlLinker, XdlHandles

VARIABLE part
allVars == <<part, linkerVars, handlesVars>>

Init ==
    /\ LinkerInit /\ HandlesInit
    /\ \/ part = "linker" /\ linked = <<>>
       \/ part = "handles" /\ api = "P" /\ table = "symtab"
Next ==
    /\ UNCHANGED part
    /\ \/ part = "linker" /\ LinkerNext /\ UNCHANGED handlesVars
       \/ part = "handles" /\ HandlesNext /\ UNCHANGED linkerVars
Spec == Init /\ [][Next]_allVars
        /\ \A t \in Threads : SF_allVars(part = "linker" /\ Proceed(t) /\ UNCHANGED <<part, handlesVars>>)

CONSTANTS t1, t2, egl, vendor
MCThreads == {t1, t2}
MCLibs == {egl, vendor}
MCOpened == {vendor}
MCCallers == <<"sphal">>
MCRank == <<[l \in MCLibs |-> IF l = egl THEN 1 ELSE 3]>>
MCSees == [l \in MCLibs |-> {egl}]

CONSTANTS linker, il2cpp, bare, mod, exe
MCObjects == {linker, il2cpp, bare, mod, exe}
app == <<"/", "app", "/", "lib">>
MCPath == [o \in MCObjects |-> CASE o = linker -> <<"/", "bin", "/", "linker">>
                                 [] o = il2cpp -> app \o <<"il2cpp.so">>
                                 [] o = bare -> <<"lib", "il2cpp.so">>
                                 [] o = mod -> <<"/", "sys", "/", "lib", "il2cpp.so">>
                                 [] o = exe -> <<"/", "bin", "/", "game">>]
MCPages == [o \in MCObjects |-> CASE o = linker -> {} [] o = il2cpp -> {1} [] o = bare -> {1}
                                  [] o = mod -> {2} [] o = exe -> {}]
MCFilenames == {<<"lib", "il2cpp.so">>, app \o <<"il2cpp.so">>, <<"/", "link.so">>}
MCLinkNames == {<<"lib", "il2cpp.so">>}
MCDesignates == [f \in MCFilenames |-> IF Last(f) = "link.so" THEN exe ELSE il2cpp]
=============================================================================
