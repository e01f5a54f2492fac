------------------------------ MODULE MCOverlay ------------------------------
(* Three of the eight functions resolveRuntime looks up: enough for the      *)
(* library to link before, between and after lookups.                      *)
EXTENDS Overlay

MCSymbols == <<"domain_get", "thread_attach", "object_unbox">>
=============================================================================
