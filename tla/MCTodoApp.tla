----------------------------- MODULE MCTodoApp -----------------------------
(* A TLC instance of TodoApp.  "long" stands for a title of more than 255   *)
(* characters, which EN_CHANGE clips to "lon".                              *)
EXTENDS TodoApp

MCTitles == {"", "long", "lon"}
MCRemarks == {"-"}
MCClip == [t \in MCTitles |-> IF t = "long" THEN "lon" ELSE t]
MCSame == [t \in MCTitles |-> t]
MCSameRemarks == [t \in MCRemarks |-> t]
MCSameText == [t \in Texts |-> t]
=============================================================================
