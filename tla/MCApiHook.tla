----------------------------- MODULE MCApiHook -----------------------------
(* TLC instance of ApiHook: one hook on LoadLibrary and two on a function    *)
(* whose module is not loaded at first, but comes with a plug-in.            *)
EXTENDS ApiHook

MCImports == [m \in Modules |-> CASE m \in {"exe", "own"} -> {"LoadLibrary"}
                                  [] m = "plugin" -> {"MessageBox"}
                                  [] OTHER -> {}]
MCHome == [f \in Functions |-> IF f = "LoadLibrary" THEN "kernel32" ELSE "user32"]
MCTarget == [h \in Hooks |-> IF h = "h1" THEN "LoadLibrary" ELSE "MessageBox"]
=============================================================================
