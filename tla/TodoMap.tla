------------------------------ MODULE TodoMap ------------------------------
(***************************************************************************)
(* What core::TodoMgr (utilities/todolist/core.hpp) promises its caller,   *)
(* stated without the vector, the id counter, the search or the file       *)
(* format: a handle names one item for as long as the program runs, an     *)
(* operation touches the item it names and nothing else, the order of the  *)
(* items is the order in which they were added, and whatever the program   *)
(* holds is what the next start of the program holds.  What may go wrong   *)
(* is said here too, as far as the code lets it: Failures.                 *)
(***************************************************************************)
EXTENDS Naturals, Sequences

CONSTANTS
  NewContents,     (* contents a caller may add                            *)
  Kept(_),         (* what is kept of a content across a restart           *)
  Failures         (* what may happen to the file, see TodoStore!Faults    *)

VARIABLES
  map,             (* handle -> content, for the items of the running list *)
  kept,            (* the contents the next start begins with, in order    *)
  broken,          (* what was kept cannot be read any more                *)
  on               (* TRUE while the program runs                          *)

mapVars == <<map, kept, broken, on>>

(* What is kept is the contents in the order of their handles, which is the *)
(* insertion order.                                                         *)
KeptInOrder(ks, m) ==
  \E hs \in [DOMAIN ks -> DOMAIN m] :
    /\ \A i, j \in DOMAIN ks : i < j => hs[i] < hs[j]
    /\ \A h \in DOMAIN m : \E i \in DOMAIN ks : hs[i] = h
    /\ ks = [i \in DOMAIN ks |-> Kept(m[hs[i]])]
    /\ DOMAIN ks = 1..Len(ks)

MapInit == map = <<>> /\ kept = <<>> /\ broken = FALSE /\ on = FALSE

(* The program starts with what was kept, never with a broken file, and    *)
(* with nothing if it is kept from reading it.                             *)
Open ==
  /\ ~on /\ on'
  /\ \/ ~broken /\ map' = [h \in {i - 1 : i \in DOMAIN kept} |-> kept[h + 1]]
     \/ "unopened" \in Failures /\ map' = <<>>
  /\ UNCHANGED <<kept, broken>>

Close ==
  /\ on /\ ~on'
  /\ map' = <<>>
  /\ UNCHANGED <<kept, broken>>

(* A fresh handle is above every handle in use. *)
MapAdd ==
  \E h \in DOMAIN map' \ DOMAIN map :
    /\ \A g \in DOMAIN map : g < h
    /\ map'[h] \in NewContents
    /\ map' = [g \in DOMAIN map \cup {h} |-> IF g = h THEN map'[h] ELSE map[g]]

MapRemove ==
  \E h \in DOMAIN map : map' = [g \in DOMAIN map \ {h} |-> map[g]]

(* One field of one item changes; a change of status is dated. *)
MapUpdate ==
  \E h \in DOMAIN map :
    /\ DOMAIN map' = DOMAIN map
    /\ \/ \E f \in {"text", "remark", "deadline", "remind", "everyday"} :
            map' = [map EXCEPT ![h][f] = map'[h][f]]
       \/ map' = [map EXCEPT ![h].status = map'[h].status,
                             ![h].lastmodified = map'[h].lastmodified]

Break == broken' /\ kept' = <<>>

MapChange ==
  /\ on /\ on'
  /\ \/ "short" \in Failures /\ Break
     \/ "unopened" \in Failures /\ UNCHANGED <<kept, broken>>
     \/ ~broken' /\ KeptInOrder(kept', map')
  /\ MapAdd \/ MapRemove \/ MapUpdate

(* The program dies while it changes what is kept. *)
MapDies ==
  /\ "killed" \in Failures
  /\ on /\ ~on' /\ map' = <<>> /\ Break

MapNext == Open \/ Close \/ MapChange \/ MapDies

MapSpec == MapInit /\ [][MapNext]_mapVars

=============================================================================
