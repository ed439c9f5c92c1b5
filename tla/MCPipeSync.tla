----------------------------- MODULE MCPipeSync -----------------------------
(* TLC instances of PipeSync: two workers, as in main(), short and long lines.  *)
EXTENDS PipeSync

MCCut == [m \in Messages |-> IF m \in Long THEN "ab" ELSE m]
=============================================================================
