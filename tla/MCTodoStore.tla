---------------------------- MODULE MCTodoStore ----------------------------
(* A TLC instance of TodoStore: two titles of which one changes when it is  *)
(* encoded, one remark, one time ("not set") and one stamp.                 *)
EXTENDS TodoStore

MCTitles == {"bread?", "split"}
MCTexts == MCTitles \cup {"-"}
MCReencode == [t \in MCTexts |-> IF t = "split" THEN "bread?" ELSE t]
=============================================================================
