----------------------------- MODULE MCReminder -----------------------------
(* A TLC instance of Reminder: texts play no part. *)
EXTENDS Reminder

MCSame == [t \in Texts |-> t]
=============================================================================
