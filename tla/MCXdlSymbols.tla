---------------------------- MODULE MCXdlSymbols ----------------------------
(* Files with every order of a good, a bad and a zipped table; images with *)
(* colliding names in either hash table, undefined, thread-local and       *)
(* indirect symbols, and internal names with suffixes.                     *)
EXTENDS XdlSymbols

MCSections == {<<>>, <<"badtab", "symtab">>, <<"debugdata">>, <<"debugdata", "symtab">>, <<"badtab", "debugdata">>}
MCPlain == [sections |-> <<"badtab", "symtab">>, debug |-> <<>>, damaged |-> FALSE, output |-> 3]
MCZipped == [sections : MCSections, debug : {<<"badtab", "symtab">>, <<"badtab">>},
                  damaged : BOOLEAN, output : {3, 9}]
MCSymtabFiles == {MCPlain} \cup MCZipped

nA == <<"a">>
nB == <<"b">>
nAB == <<"a", "b">>
nC == <<"c">>
nAdot == <<"a", ".", "l">>
nAdot7 == <<"a", ".", "l", ".", "7">>
MCNames == {nA, nB, nAB, nC, nAdot, nAdot7, <<"a", ".">>}

MCSysvHash == [n \in MCNames |-> Len(n) + (IF n[1] = "b" THEN 1 ELSE 0)]
MCGnuHash  == [n \in MCNames |-> CASE n = nA -> 4 [] n = nB -> 2 [] n = nAB -> 5 [] n = nC -> 14 [] OTHER -> 7]

Sym(n, v, t, s) == [name |-> n, value |-> v, size |-> 2, type |-> t, section |-> s, target |-> 9]
MCDynsym == {<<>>,
             <<Sym(nB, 0, "func", "undef"), Sym(nA, 3, "func", "text"), Sym(nC, 5, "func", "text"), Sym(nAB, 7, "func", "text")>>,
             <<Sym(nC, 0, "func", "undef"), Sym(nB, 1, "ifunc", "text"), Sym(nA, 3, "tls", "text"), Sym(nAB, 7, "func", "reserved")>>}
MCSymtab == {<<Sym(nAdot7, 3, "func", "text"), Sym(nA, 5, "func", "text"), Sym(nAB, 7, "func", "reserved")>>,
             <<Sym(nB, 3, "tls", "text"), Sym(nAB, 9, "func", "text")>>}
MCImages ==
    {img \in [file : {MCPlain}, gnu : BOOLEAN, sysv : BOOLEAN, dynsym : MCDynsym, symtab : MCSymtab] :
        img.dynsym = <<>> => ~img.gnu /\ ~img.sysv}
    \cup [file : MCZipped, gnu : {FALSE}, sysv : {FALSE}, dynsym : {<<>>}, symtab : MCSymtab]
MCOffsets == 1 .. 10
=============================================================================
