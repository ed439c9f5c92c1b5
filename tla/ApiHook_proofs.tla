--------------------------- MODULE ApiHook_proofs ---------------------------
(***************************************************************************)
(* Proofs about ApiHook, for any number of threads, modules, functions and *)
(* hooks: no import leads to a replacement that is gone, but for entries   *)
(* that could not be written and destructors that overlap a follow-up.     *)
(* The destructor restores only the modules of its snapshot and whoever    *)
(* unlinks a hook changes one pointer, so the inductive invariant HookInv  *)
(* says where else a hook may be known: in import tables, in other hooks,  *)
(* by walkers.  ListInv puts the linked hooks in an order, which chain     *)
(* then follows; Healed says which entries are replaced, or will be by a   *)
(* walk on its way.                                                        *)
(***************************************************************************)
EXTENDS ApiHook, FiniteSetTheorems, WellFoundedInduction, TLAPS

-----------------------------------------------------------------------------
(* The inductive invariant *)

(* The entries of a module that may lead to a hook: of the functions it    *)
(* imports, and none of the module of CAPIHook.                            *)
Patchable(h) == {m \in Modules \ {Own} : Target[h] \in Imports[m]}

(* Every entry is the function or a hook that found it; and that one is not *)
(* gone, unless a follow-up may have written the entry behind the back of   *)
(* its destructor, or the destructor could not write it.                    *)
EntriesLive ==
  \A m \in loaded, f \in Functions :
    iat[m][f] # f =>
      /\ iat[m][f] \in Hooks /\ orig[iat[m][f]] = f /\ m \in Patchable(iat[m][f])
      /\ iat[m][f] \in Linked \cup raced \/ f \in denied[m]

(* A hook knows the address of its own function or of none.                 *)
Originals ==
  \A h \in Hooks :
    /\ orig[h] \in {Nil, Target[h]}
    /\ life[h] \in {"found", "patching"} => orig[h] = Target[h]

(* The pointers stay among the linked hooks; the head has no predecessor    *)
(* and no hook has two, so that Unlink leaves no pointer to the hook.       *)
Pointers ==
  /\ head \in Linked \cup {Nil}
  /\ \A g \in Linked : next[g] \in Linked \cup {Nil}
  /\ \A g \in Linked : next[g] = head => head = Nil
  /\ \A g, k \in Linked : next[g] = next[k] /\ next[g] # Nil => g = k

(* The constructing thread has one object in hand.                          *)
OneAtATime ==
  /\ \A g, k \in Hooks : ~Settled(g) /\ ~Settled(k) => g = k
  /\ \A h \in Hooks : life[h] \in {"patching", "restoring"} => todo \subseteq Patchable(h)

(* What the destructor has not restored yet is on its list; then nothing    *)
(* leads to the hook any more.                                              *)
Restoring ==
  \A h \in Hooks \ raced, m \in loaded :
    iat[m][Target[h]] = h /\ Target[h] \notin denied[m] =>
      /\ life[h] = "restoring" => m \in todo
      /\ life[h] # "restored"

(* Hooks that stay among themselves, as do all that a walk will come by.    *)
Closed(R) == \A g \in R : next[g] \in R \cup {Nil}

(* A thread that walks is at a linked hook, or one unlinked meanwhile, and  *)
(* so it remains; it patches only for a hook that found its function.       *)
Walkers ==
  \A t \in Threads :
    /\ \E R \in SUBSET (Linked \cup raced) : cur[t] \in R \cup {Nil} /\ Closed(R)
    /\ tpc[t] = "idle" => cur[t] = Nil
    /\ tpc[t] = "patch" => /\ cur[t] # Nil /\ orig[cur[t]] = Target[cur[t]]
                           /\ left[t] \subseteq Patchable(cur[t])
    /\ tpc[t] # "idle" => Destroying \subseteq raced

(* Only destructors overlap follow-ups so far.                              *)
Overlaps == \A h \in raced : life[h] \in {"restoring", "restored", "dead"}

(* The inductive invariant. *)
HookInv == HookTypeOK /\ EntriesLive /\ Originals /\ Pointers /\ OneAtATime
           /\ Restoring /\ Walkers /\ Overlaps

-----------------------------------------------------------------------------
(* Parts of steps *)

(* Refusals to write add up while a module is loaded.                      *)
MoreDenied ==
  /\ denied' \in [Modules -> SUBSET Functions]
  /\ \A k \in Modules : denied[k] \subseteq denied'[k]

(* ReplaceIATEntryInOneMod (apihook.cpp:186-248) changes one entry, if it  *)
(* is the one it looks for and can be written.                             *)
LEMMA ReplaceEffect ==
  ASSUME NEW m \in Modules, NEW f \in Functions, NEW current, NEW new, HookTypeOK,
         Replace(m, f, current, new), m \in loaded /\ iat[m][f] = current => new \in Addr
  PROVE  /\ iat' \in [Modules -> [Functions -> Addr]] /\ MoreDenied
         /\ \A k \in Modules, g \in Functions : iat'[k][g] # iat[k][g] =>
              k = m /\ g = f /\ m \in loaded /\ iat[m][f] = current /\ iat'[k][g] = new
         /\ m \in loaded /\ iat[m][f] = current => iat'[m][f] = new \/ f \in denied'[m]
<1>1. CASE m \in loaded /\ iat[m][f] = current /\ iat' = [iat EXCEPT ![m][f] = new] /\ denied' = denied
  BY <1>1 DEF HookTypeOK, MoreDenied
<1>2. CASE iat' = iat /\ denied' = [denied EXCEPT ![m] = @ \cup {f}]
  BY <1>2 DEF HookTypeOK, MoreDenied
<1>3. CASE ~(m \in loaded /\ iat[m][f] = current) /\ UNCHANGED tables
  BY <1>3 DEF HookTypeOK, MoreDenied, tables
<1> QED  BY <1>1, <1>2, <1>3 DEF Replace

(* A step of one constructor or destructor moves that object only. *)
LEMMA LifeMoves ==
  ASSUME NEW h \in Hooks, NEW l \in Life, HookTypeOK, Become(h, l)
  PROVE  /\ life' \in [Hooks -> Life] /\ life'[h] = l
         /\ \A g \in Hooks : g # h => life'[g] = life[g]
  BY DEF HookTypeOK, Become

(* A step that moves no walker keeps Walkers if it keeps closed what was so *)
(* and starts no destructor behind a walker's back.                        *)
LEMMA WalkersStay ==
  ASSUME Walkers, UNCHANGED <<tpc, cur, left>>,
         \A g \in Linked \cup raced : g \in (Linked \cup raced)',
         \A R \in SUBSET (Linked \cup raced) : Closed(R) => Closed(R)',
         \A h \in Hooks : orig[h] = Target[h] => orig'[h] = Target[h],
         HookTypeOK,
         (\E t \in Threads : tpc[t] # "idle") /\ Destroying \subseteq raced =>
           (Destroying \subseteq raced)'
  PROVE  Walkers'
<1> SUFFICES ASSUME NEW t \in Threads
             PROVE  /\ (\E R \in SUBSET (Linked \cup raced) :
                          cur[t] \in R \cup {Nil} /\ Closed(R))'
                    /\ tpc'[t] = "idle" => cur'[t] = Nil
                    /\ tpc'[t] = "patch" => /\ cur'[t] # Nil /\ orig'[cur'[t]] = Target[cur'[t]]
                                            /\ left'[t] \subseteq Patchable(cur'[t])
                    /\ tpc'[t] # "idle" => (Destroying \subseteq raced)'
  BY DEF Walkers
<1>1. PICK R \in SUBSET (Linked \cup raced) : cur[t] \in R \cup {Nil} /\ Closed(R)
  BY DEF Walkers
<1>2. R \in SUBSET (Linked \cup raced)' /\ cur'[t] \in R \cup {Nil} /\ Closed(R)'
  BY <1>1
<1>3. cur[t] \in Hooks \cup {Nil}
  BY DEF HookTypeOK
<1>4. tpc[t] # "idle" => Destroying \subseteq raced
  BY DEF Walkers
<1> QED  BY <1>2, <1>3, <1>4 DEF Walkers

-----------------------------------------------------------------------------
(* Constructor and destructor *)

(* A new hook becomes the head of the list (apihook.cpp:40-41); nothing    *)
(* leads to it yet.                                                        *)
LEMMA ConstructKeeps ==
  ASSUME NEW h \in Hooks, HookInv, Construct(h)
  PROVE  HookInv'
  <1> USE DEF HookInv
  <1>1. HookTypeOK'
    BY DEF HookTypeOK, Life, Construct, Become, objects, walkers, tables
  <1>2. EntriesLive'
    BY DEF EntriesLive, Linked, Construct, Become, tables
  <1>3. Originals'
    BY DEF Originals, Construct, Become
  <1>4. Pointers'
    BY DEF HookTypeOK, Pointers, Linked, Construct, Become
  <1>5. OneAtATime'
    BY DEF OneAtATime, Settled, Construct, Become
  <1>6. Restoring'
    BY DEF Restoring, Construct, Become, tables
  <1>7. Walkers'
    <2>1. /\ UNCHANGED <<tpc, cur, left, orig, raced>> /\ Become(h, "linked")
          /\ life[h] = "unborn" /\ next' = [next EXCEPT ![h] = head]
      BY DEF Construct, walkers
    <2>2. /\ life' \in [Hooks -> Life] /\ life'[h] = "linked"
          /\ \A g \in Hooks : g # h => life'[g] = life[g]
      BY <2>1, LifeMoves DEF Life
    <2>3. h \notin Linked \cup raced
      BY <2>1 DEF Linked, Overlaps
    <2>4. \A g \in Linked \cup raced : g \in (Linked \cup raced)' /\ next'[g] = next[g]
      BY <2>1, <2>2, <2>3 DEF Linked, HookTypeOK
    <2>5. \A R \in SUBSET (Linked \cup raced) : Closed(R) => Closed(R)'
      BY <2>4 DEF Closed
    <2>6. Destroying' = Destroying
      BY <2>1, <2>2 DEF Destroying
    <2> QED  BY <2>1, <2>4, <2>5, <2>6, WalkersStay
  <1>8. Overlaps'
    BY DEF Overlaps, Construct, Become, OneAtATime
  <1> QED  BY <1>1, <1>2, <1>3, <1>4, <1>5, <1>6, <1>7, <1>8

(* An Effect is what an action does to the variables the invariant reads.  *)
FindOriginalEffect(h) ==
  /\ UNCHANGED <<loaded, iat, head, next, todo, walkers, missed, denied, raced>>
  /\ life' \in [Hooks -> Life] /\ Linked' = Linked /\ life[h] = "linked"
  /\ life'[h] \in {"found", "alive"}
  /\ orig' \in [Hooks -> Functions \cup {Nil}] /\ orig'[h] \in {orig[h], Target[h]}
  /\ life'[h] = "found" => orig'[h] = Target[h]
  /\ life'[h] = "alive" => orig'[h] = orig[h]
  /\ \A g \in Hooks : g # h => life'[g] = life[g] /\ orig'[g] = orig[g]

LEMMA FindOriginalMoves ==
  ASSUME NEW h \in Hooks, HookInv, FindOriginal(h)
  PROVE  FindOriginalEffect(h)
  <1> USE DEF HookInv, FindOriginalEffect
  <1>1. CASE Home[Target[h]] \in loaded
    <2>1. Become(h, "found") /\ orig' = [orig EXCEPT ![h] = Target[h]] /\ life[h] = "linked"
      BY <1>1 DEF FindOriginal
    <2>2. /\ life' \in [Hooks -> Life] /\ life'[h] = "found"
          /\ \A g \in Hooks : g # h => life'[g] = life[g]
      BY <2>1, LifeMoves DEF Life
    <2>3. Linked' = Linked
      BY <2>1, <2>2 DEF Linked
    <2> QED  BY <2>1, <2>2, <2>3, HookAssumption DEF FindOriginal, HookTypeOK, tables
  <1>2. CASE Home[Target[h]] \notin loaded
    <2>1. Become(h, "alive") /\ orig' = orig /\ life[h] = "linked"
      BY <1>2 DEF FindOriginal
    <2>2. /\ life' \in [Hooks -> Life] /\ life'[h] = "alive"
          /\ \A g \in Hooks : g # h => life'[g] = life[g]
      BY <2>1, LifeMoves DEF Life
    <2>3. Linked' = Linked
      BY <2>1, <2>2 DEF Linked
    <2> QED  BY <2>1, <2>2, <2>3 DEF FindOriginal, HookTypeOK, tables
  <1> QED  BY <1>1, <1>2

(* The hook learns the address of its function, or that there is none      *)
(* (apihook.cpp:43-62).                                                    *)
LEMMA FindOriginalKeeps ==
  ASSUME NEW h \in Hooks, HookInv, FindOriginal(h)
  PROVE  HookInv'
  <1> USE DEF HookInv
  <1>0. FindOriginalEffect(h)
    BY FindOriginalMoves DEF HookInv
  <1> USE DEF FindOriginalEffect
  <1>1. HookTypeOK'
    BY <1>0 DEF HookTypeOK, objects, walkers
  <1>2. EntriesLive'
    <2> SUFFICES ASSUME NEW m \in loaded', NEW f \in Functions, iat'[m][f] # f
                 PROVE  /\ iat'[m][f] \in Hooks /\ orig'[iat'[m][f]] = f
                        /\ m \in Patchable(iat'[m][f])
                        /\ iat'[m][f] \in Linked' \cup raced' \/ f \in denied'[m]
      BY DEF EntriesLive
    <2>1. m \in loaded /\ iat'[m][f] = iat[m][f]
      BY <1>0
    <2>2. /\ iat[m][f] \in Hooks /\ orig[iat[m][f]] = f /\ m \in Patchable(iat[m][f])
          /\ iat[m][f] \in Linked \cup raced \/ f \in denied[m]
      BY <2>1 DEF EntriesLive
    <2> QED  BY <1>0, <2>2, HookAssumption DEF Originals
  <1>3. Originals'
    BY <1>0 DEF Originals
  <1>4. Pointers'
    BY <1>0 DEF Pointers
  <1>5. OneAtATime'
    BY <1>0 DEF OneAtATime, Settled
  <1>6. Restoring'
    BY <1>0 DEF Restoring
  <1>7. Walkers'
    <2>1. \A R \in SUBSET (Linked \cup raced) : Closed(R) => Closed(R)'
      BY <1>0 DEF Closed
    <2>2. Destroying' = Destroying
      BY <1>0 DEF Destroying
    <2>3. \A g \in Hooks : orig[g] = Target[g] => orig'[g] = Target[g]
      BY <1>0 DEF Originals
    <2> QED  BY <1>0, <2>1, <2>2, <2>3, WalkersStay DEF walkers
  <1>8. Overlaps'
    BY <1>0 DEF Overlaps, HookTypeOK
  <1> QED  BY <1>1, <1>2, <1>3, <1>4, <1>5, <1>6, <1>7, <1>8

(* The constructor takes its snapshot of the modules (apihook.cpp:89-90). *)
LEMMA BeginPatchKeeps ==
  ASSUME NEW h \in Hooks, HookInv, BeginPatch(h)
  PROVE  HookInv'
  <1> USE DEF HookInv
  <1>1. HookTypeOK'
    BY DEF HookTypeOK, Life, BeginPatch, Become, Snapshot, objects, walkers, tables
  <1>2. EntriesLive'
    BY DEF EntriesLive, Linked, BeginPatch, Become, tables
  <1>3. Originals'
    BY DEF Originals, BeginPatch, Become
  <1>4. Pointers'
    BY DEF Pointers, Linked, BeginPatch, Become
  <1>5. OneAtATime'
    BY DEF HookTypeOK, OneAtATime, Settled, Patchable, BeginPatch, Become, Snapshot
  <1>6. Restoring'
    BY DEF Restoring, BeginPatch, Become, OneAtATime, Settled, tables
  <1>7. Walkers'
    <2>1. UNCHANGED <<tpc, cur, left, next, orig, raced>> /\ Linked' = Linked
      BY DEF BeginPatch, Become, Linked, walkers
    <2>2. Destroying' = Destroying
      BY DEF BeginPatch, Become, Destroying
    <2>3. \A R \in SUBSET (Linked \cup raced) : Closed(R) => Closed(R)'
      BY <2>1 DEF Closed
    <2> QED  BY <2>1, <2>2, <2>3, WalkersStay
  <1>8. Overlaps'
    BY DEF Overlaps, BeginPatch, Become
  <1> QED  BY <1>1, <1>2, <1>3, <1>4, <1>5, <1>6, <1>7, <1>8

PatchEffect(h) ==
  /\ UNCHANGED <<loaded, head, next, orig, walkers, missed, raced>> /\ MoreDenied
  /\ life' \in [Hooks -> Life] /\ Linked' = Linked
  /\ life[h] = "patching" /\ life'[h] \in {"patching", "alive"}
  /\ \A g \in Hooks : g # h => life'[g] = life[g]
  /\ todo' \subseteq todo /\ iat' \in [Modules -> [Functions -> Addr]]
  /\ \A k \in Modules, g \in Functions : iat'[k][g] # iat[k][g] =>
       k \in todo /\ k \in loaded /\ g = Target[h] /\ iat[k][g] = orig[h] /\ iat'[k][g] = h
  /\ \A k \in loaded : k \in todo \ todo' =>
       iat'[k][Target[h]] # orig[h] \/ Target[h] \in denied'[k]
  /\ life'[h] = "alive" => todo = {}

LEMMA PatchMoves ==
  ASSUME NEW h \in Hooks, HookInv, Patch(h)
  PROVE  PatchEffect(h)
  <1> USE DEF HookInv, PatchEffect
  <1>1. CASE \E m \in todo : Replace(m, Target[h], orig[h], h) /\ todo' = todo \ {m} /\ life' = life
    <2>1. PICK m \in todo : Replace(m, Target[h], orig[h], h) /\ todo' = todo \ {m} /\ life' = life
      BY <1>1
    <2>2. m \in Modules /\ Target[h] \in Functions
      BY HookAssumption DEF HookTypeOK
    <2>3. m \in loaded /\ iat[m][Target[h]] = orig[h] => h \in Addr
      BY DEF Addr
    <2>4. /\ iat' \in [Modules -> [Functions -> Addr]] /\ MoreDenied
          /\ \A k \in Modules, g \in Functions : iat'[k][g] # iat[k][g] =>
               /\ k = m /\ g = Target[h] /\ m \in loaded
               /\ iat[m][Target[h]] = orig[h] /\ iat'[k][g] = h
          /\ m \in loaded /\ iat[m][Target[h]] = orig[h] =>
               iat'[m][Target[h]] = h \/ Target[h] \in denied'[m]
      BY <2>1, <2>2, <2>3, ReplaceEffect
    <2>5. Linked' = Linked
      BY <2>1 DEF Linked
    <2>6. orig[h] # h
      BY HookAssumption DEF HookTypeOK
    <2>7. todo' \subseteq todo /\ \A k \in todo : k \in todo \ todo' => k = m
      BY <2>1
    <2>8. m \in loaded => iat'[m][Target[h]] # orig[h] \/ Target[h] \in denied'[m]
      BY <2>2, <2>4, <2>6
    <2>9. life[h] = "patching"
      BY DEF Patch
    <2> QED  BY <2>1, <2>4, <2>5, <2>7, <2>8, <2>9 DEF Patch, HookTypeOK
  <1>2. CASE todo = {} /\ Become(h, "alive") /\ UNCHANGED <<tables, todo>>
    <2>1. /\ life' \in [Hooks -> Life] /\ life'[h] = "alive"
          /\ \A g \in Hooks : g # h => life'[g] = life[g]
      BY <1>2, LifeMoves DEF Life
    <2>2. Linked' = Linked
      BY <2>1 DEF Linked, Patch
    <2>3. UNCHANGED <<iat, denied, todo>> /\ MoreDenied
      BY <1>2 DEF tables, MoreDenied, HookTypeOK
    <2> QED  BY <1>2, <2>1, <2>2, <2>3 DEF Patch, HookTypeOK
  <1> QED  BY <1>1, <1>2 DEF Patch

(* It patches a module: the entry leads to a hook that is linked and knows *)
(* the original (apihook.cpp:147-167).                                     *)
LEMMA PatchKeeps ==
  ASSUME NEW h \in Hooks, HookInv, Patch(h)
  PROVE  HookInv'
  <1> USE DEF HookInv
  <1>0. PatchEffect(h)
    BY PatchMoves DEF HookInv
  <1> USE DEF PatchEffect
  <1>1. HookTypeOK'
    BY <1>0 DEF HookTypeOK, objects, walkers, MoreDenied
  <1>2. EntriesLive'
    <2> SUFFICES ASSUME NEW m \in loaded', NEW f \in Functions, iat'[m][f] # f
                 PROVE  /\ iat'[m][f] \in Hooks /\ orig'[iat'[m][f]] = f
                        /\ m \in Patchable(iat'[m][f])
                        /\ iat'[m][f] \in Linked' \cup raced' \/ f \in denied'[m]
      BY DEF EntriesLive
    <2>1. m \in loaded /\ m \in Modules /\ denied[m] \subseteq denied'[m]
      BY <1>0 DEF HookTypeOK, MoreDenied
    <2>2. CASE iat'[m][f] = iat[m][f]
      BY <1>0, <2>1, <2>2 DEF EntriesLive
    <2>3. CASE iat'[m][f] # iat[m][f]
      <3>1. m \in todo /\ f = Target[h] /\ iat'[m][f] = h
        BY <1>0, <2>1, <2>3
      <3>2. orig[h] = Target[h] /\ todo \subseteq Patchable(h)
        BY <1>0 DEF Originals, OneAtATime
      <3>3. h \in Linked
        BY <1>0 DEF Linked
      <3> QED  BY <1>0, <3>1, <3>2, <3>3
    <2> QED  BY <2>2, <2>3
  <1>3. Originals'
    BY <1>0 DEF Originals
  <1>4. Pointers'
    BY <1>0 DEF Pointers
  <1>5. OneAtATime'
    BY <1>0 DEF OneAtATime, Settled
  <1>6. Restoring'
    BY <1>0 DEF Restoring, OneAtATime, Settled
  <1>7. Walkers'
    <2>1. \A R \in SUBSET (Linked \cup raced) : Closed(R) => Closed(R)'
      BY <1>0 DEF Closed
    <2>2. Destroying' = Destroying
      BY <1>0 DEF Destroying
    <2> QED  BY <1>0, <2>1, <2>2, WalkersStay DEF walkers
  <1>8. Overlaps'
    BY <1>0 DEF Overlaps, HookTypeOK
  <1> QED  BY <1>1, <1>2, <1>3, <1>4, <1>5, <1>6, <1>7, <1>8

(* The destructor's snapshot has every module with an entry that leads to  *)
(* the hook (apihook.cpp:97-100).                                          *)
LEMMA DestroyKeeps ==
  ASSUME NEW h \in Hooks, HookInv, Destroy(h)
  PROVE  HookInv'
  <1> USE DEF HookInv
  <1>0. /\ UNCHANGED <<loaded, tables, head, next, orig, walkers, missed>>
        /\ life' \in [Hooks -> Life] /\ Linked' = Linked /\ life'[h] = "restoring"
        /\ \A g \in Hooks : g # h => life'[g] = life[g]
        /\ \A g \in Hooks : Settled(g)
        /\ todo' = Snapshot(h) /\ raced' = IF NobodyWalks THEN raced ELSE raced \cup {h}
        /\ life[h] = "alive"
    <2>1. /\ UNCHANGED <<loaded, tables, head, next, orig, walkers, missed>>
          /\ life[h] = "alive" /\ Become(h, "restoring")
          /\ (\A g \in Hooks : Settled(g)) /\ todo' = Snapshot(h)
          /\ raced' = IF NobodyWalks THEN raced ELSE raced \cup {h}
      BY DEF Destroy
    <2>2. /\ life' \in [Hooks -> Life] /\ life'[h] = "restoring"
          /\ \A g \in Hooks : g # h => life'[g] = life[g]
      BY <2>1, LifeMoves DEF Life
    <2> QED  BY <2>1, <2>2 DEF Linked
  <1>1. HookTypeOK'
    BY <1>0 DEF HookTypeOK, objects, walkers, Snapshot, tables
  <1>2. EntriesLive'
    BY <1>0 DEF EntriesLive, tables
  <1>3. Originals'
    BY <1>0 DEF Originals
  <1>4. Pointers'
    BY <1>0 DEF Pointers
  <1>5. OneAtATime'
    BY <1>0 DEF HookTypeOK, OneAtATime, Settled, Patchable, Snapshot
  <1>6. Restoring'
    <2> SUFFICES ASSUME NEW g \in Hooks \ raced', NEW m \in loaded,
                        iat'[m][Target[g]] = g, Target[g] \notin denied'[m]
                 PROVE  /\ life'[g] = "restoring" => m \in todo'
                        /\ life'[g] # "restored"
      BY <1>0 DEF Restoring
    <2>1. CASE g # h
      BY <1>0, <2>1 DEF Settled
    <2>2. CASE g = h
      <3>1. iat[m][Target[h]] = h => m \in Patchable(h)
        BY HookAssumption DEF EntriesLive
      <3> QED  BY <1>0, <2>2, <3>1 DEF Snapshot, Patchable, tables
    <2> QED  BY <2>1, <2>2
  <1>7. Walkers'
    <2>1. \A R \in SUBSET (Linked \cup raced) : Closed(R) => Closed(R)'
      BY <1>0 DEF Closed
    <2>2. (\E t \in Threads : tpc[t] # "idle") => raced' = raced \cup {h}
      BY <1>0 DEF NobodyWalks
    <2>3. Destroying' \subseteq Destroying \cup {h}
      BY <1>0 DEF Destroying
    <2>4. (\E t \in Threads : tpc[t] # "idle") /\ Destroying \subseteq raced =>
            (Destroying \subseteq raced)'
      BY <2>2, <2>3
    <2>5. \A g \in Linked \cup raced : g \in (Linked \cup raced)'
      BY <1>0
    <2> QED  BY <1>0, <2>1, <2>4, <2>5, WalkersStay DEF walkers
  <1>8. Overlaps'
    BY <1>0 DEF Overlaps, HookTypeOK
  <1> QED  BY <1>1, <1>2, <1>3, <1>4, <1>5, <1>6, <1>7, <1>8

RestoreEffect(h) ==
  /\ UNCHANGED <<loaded, head, next, orig, walkers, missed, raced>> /\ MoreDenied
  /\ life' \in [Hooks -> Life] /\ Linked' = Linked
  /\ life[h] = "restoring" /\ life'[h] \in {"restoring", "restored"}
  /\ \A g \in Hooks : g # h => life'[g] = life[g]
  /\ todo' \subseteq todo /\ iat' \in [Modules -> [Functions -> Addr]]
  /\ \A k \in Modules, g \in Functions : iat'[k][g] # iat[k][g] =>
       k \in todo /\ k \in loaded /\ g = Target[h] /\ iat[k][g] = h /\ iat'[k][g] = orig[h]
  /\ \A k \in loaded : k \in todo \ todo' =>
       iat'[k][Target[h]] # h \/ Target[h] \in denied'[k]
  /\ life'[h] = "restored" => todo = {} /\ iat' = iat

LEMMA RestoreMoves ==
  ASSUME NEW h \in Hooks, HookInv, Restore(h)
  PROVE  RestoreEffect(h)
  <1> USE DEF HookInv, RestoreEffect
  <1>1. CASE \E m \in todo : Replace(m, Target[h], h, orig[h]) /\ todo' = todo \ {m} /\ life' = life
    <2>1. PICK m \in todo : Replace(m, Target[h], h, orig[h]) /\ todo' = todo \ {m} /\ life' = life
      BY <1>1
    <2>2. m \in Modules /\ Target[h] \in Functions
      BY HookAssumption DEF HookTypeOK
    <2>3. m \in loaded /\ iat[m][Target[h]] = h => orig[h] \in Addr
      BY HookAssumption DEF EntriesLive, Addr
    <2>4. /\ iat' \in [Modules -> [Functions -> Addr]] /\ MoreDenied
          /\ \A k \in Modules, g \in Functions : iat'[k][g] # iat[k][g] =>
               /\ k = m /\ g = Target[h] /\ m \in loaded
               /\ iat[m][Target[h]] = h /\ iat'[k][g] = orig[h]
          /\ m \in loaded /\ iat[m][Target[h]] = h =>
               iat'[m][Target[h]] = orig[h] \/ Target[h] \in denied'[m]
      BY <2>1, <2>2, <2>3, ReplaceEffect
    <2>5. Linked' = Linked
      BY <2>1 DEF Linked
    <2>6. todo' \subseteq todo /\ \A k \in todo : k \in todo \ todo' => k = m
      BY <2>1
    <2>7. orig[h] # h
      BY HookAssumption DEF HookTypeOK
    <2>8. m \in loaded => iat'[m][Target[h]] # h \/ Target[h] \in denied'[m]
      BY <2>2, <2>4, <2>7
    <2>9. life[h] = "restoring"
      BY DEF Restore
    <2> QED  BY <2>1, <2>4, <2>5, <2>6, <2>8, <2>9 DEF Restore, HookTypeOK
  <1>2. CASE todo = {} /\ Become(h, "restored") /\ UNCHANGED <<tables, todo>>
    <2>1. /\ life' \in [Hooks -> Life] /\ life'[h] = "restored"
          /\ \A g \in Hooks : g # h => life'[g] = life[g]
      BY <1>2, LifeMoves DEF Life
    <2>2. Linked' = Linked
      BY <2>1 DEF Linked, Restore
    <2>3. UNCHANGED <<iat, denied, todo>> /\ MoreDenied
      BY <1>2 DEF tables, MoreDenied, HookTypeOK
    <2> QED  BY <1>2, <2>1, <2>2, <2>3 DEF Restore, HookTypeOK
  <1> QED  BY <1>1, <1>2 DEF Restore

(* The destructor restores a module: its entry is the function again       *)
(* (apihook.cpp:147-167).                                                  *)
LEMMA RestoreKeeps ==
  ASSUME NEW h \in Hooks, HookInv, Restore(h)
  PROVE  HookInv'
  <1> USE DEF HookInv
  <1>0. RestoreEffect(h)
    BY RestoreMoves DEF HookInv
  <1> USE DEF RestoreEffect
  <1>1. HookTypeOK'
    BY <1>0 DEF HookTypeOK, objects, walkers, MoreDenied
  <1>2. EntriesLive'
    <2> SUFFICES ASSUME NEW m \in loaded', NEW f \in Functions, iat'[m][f] # f
                 PROVE  /\ iat'[m][f] \in Hooks /\ orig'[iat'[m][f]] = f
                        /\ m \in Patchable(iat'[m][f])
                        /\ iat'[m][f] \in Linked' \cup raced' \/ f \in denied'[m]
      BY DEF EntriesLive
    <2>1. m \in loaded /\ m \in Modules /\ denied[m] \subseteq denied'[m]
      BY <1>0 DEF HookTypeOK, MoreDenied
    <2>2. CASE iat'[m][f] = iat[m][f]
      BY <1>0, <2>1, <2>2 DEF EntriesLive
    <2>3. CASE iat'[m][f] # iat[m][f]
      <3>1. iat[m][f] = h /\ iat'[m][f] = orig[h]
        BY <1>0, <2>1, <2>3
      <3>2. iat[m][f] # f
        BY <3>1, HookAssumption
      <3> QED  BY <2>1, <3>1, <3>2 DEF EntriesLive
    <2> QED  BY <2>2, <2>3
  <1>3. Originals'
    BY <1>0 DEF Originals
  <1>4. Pointers'
    BY <1>0 DEF Pointers
  <1>5. OneAtATime'
    BY <1>0 DEF OneAtATime, Settled
  <1>6. Restoring'
    <2> SUFFICES ASSUME NEW g \in Hooks \ raced', NEW m \in loaded,
                        iat'[m][Target[g]] = g, Target[g] \notin denied'[m]
                 PROVE  /\ life'[g] = "restoring" => m \in todo'
                        /\ life'[g] # "restored"
      BY <1>0 DEF Restoring
    <2>1. CASE g # h
      BY <1>0, <2>1 DEF OneAtATime, Settled
    <2>2. CASE g = h
      <3>1. m \in Modules /\ Target[h] \in Functions /\ orig[h] # h
        BY HookAssumption DEF HookTypeOK
      <3>2. iat'[m][Target[h]] = h => iat[m][Target[h]] = h
        BY <1>0, <3>1
      <3>3. m \in todo
        BY <1>0, <2>2, <3>1, <3>2 DEF Restoring, MoreDenied
      <3> QED  BY <1>0, <2>2, <3>2, <3>3
    <2> QED  BY <2>1, <2>2
  <1>7. Walkers'
    <2>1. \A R \in SUBSET (Linked \cup raced) : Closed(R) => Closed(R)'
      BY <1>0 DEF Closed
    <2>2. Destroying' = Destroying
      BY <1>0 DEF Destroying
    <2> QED  BY <1>0, <2>1, <2>2, WalkersStay DEF walkers
  <1>8. Overlaps'
    BY <1>0 DEF Overlaps, HookTypeOK
  <1> QED  BY <1>1, <1>2, <1>3, <1>4, <1>5, <1>6, <1>7, <1>8

UnlinkEffect(h) ==
  /\ UNCHANGED <<loaded, tables, orig, todo, walkers, missed, raced>>
  /\ life[h] = "restored" /\ life' \in [Hooks -> Life] /\ life'[h] = "dead"
  /\ \A g \in Hooks : g # h => life'[g] = life[g]
  /\ Linked' = Linked \ {h} /\ h \in Linked /\ Linked \subseteq Hooks

LEMMA UnlinkMoves ==
  ASSUME NEW h \in Hooks, HookInv, Unlink(h)
  PROVE  UnlinkEffect(h)
  <1> USE DEF HookInv, UnlinkEffect
  <1>1. /\ life[h] = "restored" /\ Become(h, "dead")
        /\ UNCHANGED <<loaded, tables, orig, todo, walkers, missed, raced>>
    BY DEF Unlink
  <1>2. /\ life' \in [Hooks -> Life] /\ life'[h] = "dead"
        /\ \A g \in Hooks : g # h => life'[g] = life[g]
    BY <1>1, LifeMoves DEF Life
  <1> QED  BY <1>1, <1>2 DEF Linked

(* The hook leaves the list, at the head or inside, and no pointer to it   *)
(* stays behind (apihook.cpp:102-119).                                     *)
LEMMA UnlinkKeeps ==
  ASSUME NEW h \in Hooks, HookInv, Unlink(h)
  PROVE  HookInv'
  <1> USE DEF HookInv
  <1>0. UnlinkEffect(h)
    BY UnlinkMoves DEF HookInv
  <1> USE DEF UnlinkEffect
  <1>1. HookTypeOK'
    <2>1. head' \in Hooks \cup {Nil} /\ next' \in [Hooks -> Hooks \cup {Nil}]
      BY DEF Unlink, HookTypeOK
    <2> QED  BY <1>0, <2>1 DEF HookTypeOK, walkers, tables
  <1>2. EntriesLive'
    <2> SUFFICES ASSUME NEW m \in loaded, NEW f \in Functions, iat[m][f] # f
                 PROVE  /\ iat[m][f] \in Hooks /\ orig[iat[m][f]] = f
                        /\ m \in Patchable(iat[m][f])
                        /\ iat[m][f] \in Linked' \cup raced \/ f \in denied[m]
      BY <1>0 DEF EntriesLive, tables
    <2>1. /\ iat[m][f] \in Hooks /\ orig[iat[m][f]] = f /\ m \in Patchable(iat[m][f])
          /\ iat[m][f] \in Linked \cup raced \/ f \in denied[m]
      BY DEF EntriesLive
    <2>2. f # Nil /\ Target[iat[m][f]] = f
      BY <2>1, HookAssumption DEF Originals
    <2>3. iat[m][f] = h => h \in raced \/ f \in denied[m]
      BY <1>0, <2>2 DEF Restoring
    <2> QED  BY <1>0, <2>1, <2>3
  <1>3. Originals'
    BY <1>0 DEF Originals
  <1>4. Pointers'
    <2>1. CASE head = h
      <3>1. head' = next[h] /\ next' = next
        BY <2>1 DEF Unlink
      <3> QED  BY <1>0, <2>1, <3>1 DEF Pointers
    <2>2. CASE head # h
      <3>1. /\ head' = head
            /\ \A g \in Linked : next'[g] = IF next[g] = h THEN next[h] ELSE next[g]
        BY <2>2 DEF Unlink, Linked
      <3>2. \A g \in Linked \ {h} : next'[g] \in (Linked \ {h}) \cup {Nil}
        BY <1>0, <3>1 DEF Pointers
      <3>3. \A g \in Linked \ {h} : next'[g] = head => head = Nil
        BY <1>0, <3>1 DEF Pointers
      <3>4. ASSUME NEW g \in Linked \ {h}, NEW k \in Linked \ {h},
                   next'[g] = next'[k], next'[g] # Nil
            PROVE  g = k
        <4>1. \A x, y \in Linked : next[x] = next[y] /\ next[x] # Nil => x = y
          BY DEF Pointers
        <4>2. CASE next[g] = h /\ next[k] = h
          BY <4>1, <4>2, HookAssumption
        <4>3. CASE next[g] = h /\ next[k] # h
          BY <4>1, <4>3, <1>0, <3>1, <3>4
        <4>4. CASE next[g] # h /\ next[k] = h
          BY <4>1, <4>4, <1>0, <3>1, <3>4
        <4>5. CASE next[g] # h /\ next[k] # h
          BY <4>1, <4>5, <3>1, <3>4
        <4> QED  BY <4>2, <4>3, <4>4, <4>5
      <3> QED  BY <1>0, <2>2, <3>1, <3>4 DEF Pointers
    <2> QED  BY <2>1, <2>2
  <1>5. OneAtATime'
    BY <1>0 DEF OneAtATime, Settled
  <1>6. Restoring'
    BY <1>0 DEF Restoring, tables
  <1>7. Walkers'
    <2>1. CASE \A t \in Threads : tpc[t] = "idle"
      <3>1. \A t \in Threads : cur'[t] = Nil /\ tpc'[t] = "idle"
        BY <1>0, <2>1 DEF Walkers, walkers
      <3>2. {} \in SUBSET (Linked \cup raced)' /\ Closed({})'
        BY DEF Closed
      <3> QED  BY <3>1, <3>2 DEF Walkers
    <2>2. CASE \E t \in Threads : tpc[t] # "idle"
      <3>1. h \in raced
        BY <1>0, <2>2 DEF Walkers, Destroying
      <3>2. \A g \in Linked \cup raced : g \in (Linked \cup raced)'
        BY <1>0, <3>1
      <3>3. \A g \in Hooks : next'[g] = next[g] \/ (next[g] = h /\ next'[g] = next[h])
        BY DEF Unlink, HookTypeOK
      <3>4. \A R \in SUBSET (Linked \cup raced) : Closed(R) => Closed(R)'
        <4> SUFFICES ASSUME NEW R \in SUBSET (Linked \cup raced), Closed(R), NEW g \in R
                     PROVE  next'[g] \in R \cup {Nil}
          BY DEF Closed
        <4>1. g \in Hooks /\ next[g] \in R \cup {Nil}
          BY DEF Closed, Linked, HookTypeOK
        <4>2. next[g] = h => h \in R
          BY <4>1, HookAssumption
        <4>3. next[g] = h => next[h] \in R \cup {Nil}
          BY <4>2 DEF Closed
        <4> QED  BY <3>3, <4>1, <4>3
      <3>5. Destroying' \subseteq Destroying
        BY <1>0 DEF Destroying
      <3>6. Destroying \subseteq raced => (Destroying \subseteq raced)'
        BY <1>0, <3>5
      <3> QED  BY <1>0, <3>2, <3>4, <3>6, WalkersStay DEF walkers
    <2> QED  BY <2>1, <2>2
  <1>8. Overlaps'
    BY <1>0 DEF Overlaps, HookTypeOK
  <1> QED  BY <1>1, <1>2, <1>3, <1>4, <1>5, <1>6, <1>7, <1>8

-----------------------------------------------------------------------------
(* Loading and freeing modules *)

WalkEffect(t) ==
  /\ UNCHANGED <<loaded, tables, objects, raced>> /\ tpc[t] = "walk"
  /\ tpc' \in [Threads -> {"idle", "walk", "patch"}]
  /\ left' \in [Threads -> SUBSET Modules]
  /\ missed' \subseteq missed /\ heals' \in [Threads -> SUBSET Modules]
  /\ \A u \in Threads : u # t => /\ tpc'[u] = tpc[u] /\ cur'[u] = cur[u]
                                  /\ left'[u] = left[u] /\ heals'[u] = heals[u]
  /\ \/ /\ cur[t] = Nil /\ tpc'[t] = "idle" /\ cur' = cur
        /\ missed' = missed \ heals[t] /\ heals'[t] = {}
     \/ /\ cur[t] # Nil /\ orig[cur[t]] = Nil /\ tpc'[t] = "walk"
        /\ cur' = [cur EXCEPT ![t] = next[cur[t]]] /\ UNCHANGED <<missed, heals>>
     \/ /\ cur[t] # Nil /\ orig[cur[t]] # Nil /\ tpc'[t] = "patch" /\ cur' = cur
        /\ left'[t] = Snapshot(cur[t]) /\ UNCHANGED <<missed, heals>>

LEMMA WalkMoves ==
  ASSUME NEW t \in Threads, HookInv, Walk(t)
  PROVE  WalkEffect(t)
  <1> USE DEF HookInv, WalkEffect
  <1>1. cur[t] = Nil \/ Snapshot(cur[t]) \subseteq Modules
    BY DEF HookTypeOK, Snapshot
  <1> QED  BY <1>1 DEF Walk, HookTypeOK

(* The follow-up of a load goes to the next hook, past those that found no *)
(* function (apihook.cpp:349-365).                                         *)
LEMMA WalkKeeps ==
  ASSUME NEW t \in Threads, HookInv, Walk(t)
  PROVE  HookInv'
  <1> USE DEF HookInv
  <1>0. WalkEffect(t)
    BY WalkMoves DEF HookInv
  <1> USE DEF WalkEffect
  <1>1. HookTypeOK'
    <2>1. cur' \in [Threads -> Hooks \cup {Nil}]
      BY <1>0 DEF HookTypeOK
    <2> QED  BY <1>0 DEF HookTypeOK, objects, tables
  <1>2. EntriesLive'
    BY <1>0 DEF EntriesLive, Linked, objects, tables
  <1>3. Originals'
    BY <1>0 DEF Originals, objects
  <1>4. Pointers'
    BY <1>0 DEF Pointers, Linked, objects
  <1>5. OneAtATime'
    BY <1>0 DEF OneAtATime, Settled, objects
  <1>6. Restoring'
    BY <1>0 DEF Restoring, objects, tables
  <1>7. Walkers'
    <2>1. Linked' = Linked /\ Destroying' = Destroying /\ next' = next /\ raced' = raced
      BY <1>0 DEF Linked, Destroying, objects
    <2>2. \A u \in Threads : u # t => tpc'[u] = tpc[u] /\ cur'[u] = cur[u] /\ left'[u] = left[u]
      BY <1>0
    <2>3. tpc'[t] = "idle" => cur'[t] = Nil
      BY <1>0
    <2>6. PICK R \in SUBSET (Linked \cup raced) : cur[t] \in R \cup {Nil} /\ Closed(R)
      BY DEF Walkers
    <2>7. cur'[t] = cur[t] \/ (cur[t] # Nil /\ cur'[t] = next[cur[t]])
      BY <1>0 DEF HookTypeOK
    <2>8. cur'[t] \in R \cup {Nil} /\ Closed(R)'
      BY <2>1, <2>6, <2>7 DEF Closed
    <2>4. tpc'[t] = "patch" => /\ cur'[t] # Nil /\ orig[cur'[t]] = Target[cur'[t]]
                               /\ left'[t] \subseteq Patchable(cur'[t])
      <3>1. cur[t] # Nil => Snapshot(cur[t]) \subseteq Patchable(cur[t])
        BY DEF HookTypeOK, Snapshot, Patchable
      <3> QED  BY <1>0, <3>1 DEF HookTypeOK, Originals
    <2>5. Destroying \subseteq raced
      BY <1>0 DEF Walkers
    <2>9. orig' = orig
      BY <1>0 DEF objects
    <2> SUFFICES ASSUME NEW u \in Threads
                 PROVE  /\ \E S \in SUBSET (Linked \cup raced) :
                             cur'[u] \in S \cup {Nil} /\ Closed(S)'
                        /\ tpc'[u] = "idle" => cur'[u] = Nil
                        /\ tpc'[u] = "patch" => /\ cur'[u] # Nil /\ orig[cur'[u]] = Target[cur'[u]]
                                                /\ left'[u] \subseteq Patchable(cur'[u])
                        /\ tpc'[u] # "idle" => Destroying \subseteq raced
      BY <2>1, <2>9 DEF Walkers
    <2>10. CASE u = t
      BY <2>3, <2>4, <2>5, <2>8, <2>10
    <2>11. CASE u # t
      BY <2>1, <2>2, <2>11 DEF Walkers, Closed
    <2> QED  BY <2>10, <2>11
  <1>8. Overlaps'
    BY <1>0 DEF Overlaps, HookTypeOK, objects
  <1> QED  BY <1>1, <1>2, <1>3, <1>4, <1>5, <1>6, <1>7, <1>8

WalkPatchEffect(t) ==
  /\ UNCHANGED <<loaded, objects, missed, heals, raced>> /\ tpc[t] = "patch" /\ MoreDenied
  /\ cur[t] \in Linked \cup raced /\ cur[t] \in Hooks /\ Linked' = Linked
  /\ orig[cur[t]] = Target[cur[t]] /\ left[t] \subseteq Patchable(cur[t])
  /\ Destroying \subseteq raced
  /\ tpc' \in [Threads -> {"idle", "walk", "patch"}]
  /\ cur' \in [Threads -> Hooks \cup {Nil}] /\ left' \in [Threads -> SUBSET Modules]
  /\ \A u \in Threads : u # t => tpc'[u] = tpc[u] /\ cur'[u] = cur[u] /\ left'[u] = left[u]
  /\ \/ tpc'[t] = "patch" /\ cur'[t] = cur[t] /\ left'[t] \subseteq left[t]
     \/ tpc'[t] = "walk" /\ cur'[t] = next[cur[t]] /\ left[t] = {} /\ left' = left
  /\ iat' \in [Modules -> [Functions -> Addr]]
  /\ \A k \in Modules, g \in Functions : iat'[k][g] # iat[k][g] =>
       k \in left[t] /\ g = Target[cur[t]] /\ iat'[k][g] = cur[t]
  /\ \A k \in loaded : k \in left[t] \ left'[t] =>
       iat'[k][Target[cur[t]]] # Target[cur[t]] \/ Target[cur[t]] \in denied'[k]

LEMMA WalkPatchMoves ==
  ASSUME NEW t \in Threads, HookInv, WalkPatch(t)
  PROVE  WalkPatchEffect(t)
  <1> USE DEF HookInv, WalkPatchEffect
  <1>1. /\ UNCHANGED <<loaded, objects, missed, heals, raced>> /\ tpc[t] = "patch"
        /\ \/ \E m \in left[t] :
                /\ Replace(m, Target[cur[t]], orig[cur[t]], cur[t])
                /\ left' = [left EXCEPT ![t] = @ \ {m}] /\ UNCHANGED <<tpc, cur>>
           \/ /\ left[t] = {}
              /\ tpc' = [tpc EXCEPT ![t] = "walk"] /\ cur' = [cur EXCEPT ![t] = next[cur[t]]]
              /\ UNCHANGED <<tables, left>>
    BY DEF WalkPatch
  <1>2. /\ cur[t] \in Linked \cup raced /\ orig[cur[t]] = Target[cur[t]]
        /\ left[t] \subseteq Patchable(cur[t]) /\ Destroying \subseteq raced
    BY <1>1 DEF Walkers
  <1>3. cur[t] \in Hooks /\ Linked' = Linked
    BY <1>1, <1>2 DEF Linked, objects, HookTypeOK
  <1>4. CASE \E m \in left[t] :
                /\ Replace(m, Target[cur[t]], orig[cur[t]], cur[t])
                /\ left' = [left EXCEPT ![t] = @ \ {m}] /\ UNCHANGED <<tpc, cur>>
    <2>1. PICK m \in left[t] :
                /\ Replace(m, Target[cur[t]], orig[cur[t]], cur[t])
                /\ left' = [left EXCEPT ![t] = @ \ {m}] /\ UNCHANGED <<tpc, cur>>
      BY <1>4
    <2>2. m \in Modules /\ Target[cur[t]] \in Functions /\ cur[t] \in Addr
      BY <1>3, HookAssumption DEF HookTypeOK, Addr
    <2>3. /\ iat' \in [Modules -> [Functions -> Addr]] /\ MoreDenied
          /\ \A k \in Modules, g \in Functions : iat'[k][g] # iat[k][g] =>
               /\ k = m /\ g = Target[cur[t]] /\ m \in loaded
               /\ iat[m][Target[cur[t]]] = orig[cur[t]] /\ iat'[k][g] = cur[t]
          /\ m \in loaded /\ iat[m][Target[cur[t]]] = orig[cur[t]] =>
               iat'[m][Target[cur[t]]] = cur[t] \/ Target[cur[t]] \in denied'[m]
      BY <2>1, <2>2, ReplaceEffect
    <2>4. left'[t] = left[t] \ {m} /\ left[t] \subseteq Modules
      BY <2>1 DEF HookTypeOK
    <2>5. Target[cur[t]] # cur[t]
      BY <2>2, <1>3, HookAssumption
    <2>6. m \in loaded =>
            iat'[m][Target[cur[t]]] # Target[cur[t]] \/ Target[cur[t]] \in denied'[m]
      BY <1>2, <2>2, <2>3, <2>5
    <2>7. \A k \in loaded : k \in left[t] \ left'[t] =>
            iat'[k][Target[cur[t]]] # Target[cur[t]] \/ Target[cur[t]] \in denied'[k]
      BY <2>4, <2>6
    <2> QED  BY <1>1, <1>2, <1>3, <2>1, <2>3, <2>7 DEF HookTypeOK
  <1>5. CASE /\ left[t] = {}
             /\ tpc' = [tpc EXCEPT ![t] = "walk"] /\ cur' = [cur EXCEPT ![t] = next[cur[t]]]
             /\ UNCHANGED <<tables, left>>
    <2>1. UNCHANGED <<iat, denied, left>> /\ MoreDenied
      BY <1>5 DEF tables, MoreDenied, HookTypeOK
    <2> QED  BY <1>1, <1>2, <1>3, <1>5, <2>1 DEF HookTypeOK
  <1> QED  BY <1>1, <1>4, <1>5

(* The follow-up patches a module for a hook, which is linked or among     *)
(* those unlinked meanwhile (apihook.cpp:351-352).                         *)
LEMMA WalkPatchKeeps ==
  ASSUME NEW t \in Threads, HookInv, WalkPatch(t)
  PROVE  HookInv'
  <1> USE DEF HookInv
  <1>0. WalkPatchEffect(t)
    BY WalkPatchMoves DEF HookInv
  <1> USE DEF WalkPatchEffect
  <1>1. HookTypeOK'
    BY <1>0 DEF HookTypeOK, objects, walkers, MoreDenied
  <1>2. EntriesLive'
    <2> SUFFICES ASSUME NEW m \in loaded', NEW f \in Functions, iat'[m][f] # f
                 PROVE  /\ iat'[m][f] \in Hooks /\ orig'[iat'[m][f]] = f
                        /\ m \in Patchable(iat'[m][f])
                        /\ iat'[m][f] \in Linked' \cup raced' \/ f \in denied'[m]
      BY DEF EntriesLive
    <2>1. m \in loaded /\ m \in Modules /\ denied[m] \subseteq denied'[m]
      BY <1>0 DEF HookTypeOK, MoreDenied
    <2>2. CASE iat'[m][f] = iat[m][f]
      BY <1>0, <2>1, <2>2 DEF EntriesLive, objects
    <2>3. CASE iat'[m][f] # iat[m][f]
      BY <1>0, <2>1, <2>3 DEF objects
    <2> QED  BY <2>2, <2>3
  <1>3. Originals'
    BY <1>0 DEF Originals, objects, walkers
  <1>4. Pointers'
    BY <1>0 DEF Pointers, objects, walkers
  <1>5. OneAtATime'
    BY <1>0 DEF OneAtATime, Settled, objects, walkers
  <1>6. Restoring'
    <2> SUFFICES ASSUME NEW g \in Hooks \ raced', NEW m \in loaded,
                        iat'[m][Target[g]] = g, Target[g] \notin denied'[m]
                 PROVE  /\ life'[g] = "restoring" => m \in todo'
                        /\ life'[g] # "restored"
      BY <1>0 DEF Restoring
    <2>1. m \in Modules /\ Target[g] \in Functions /\ life' = life /\ todo' = todo /\ raced' = raced
      BY <1>0, HookAssumption DEF HookTypeOK, objects
    <2>2. CASE iat[m][Target[g]] = g
      BY <1>0, <2>1, <2>2 DEF Restoring, MoreDenied
    <2>3. CASE iat[m][Target[g]] # g
      <3>1. cur[t] = g
        BY <1>0, <2>1, <2>3
      <3> QED  BY <1>0, <2>1, <3>1 DEF Destroying
    <2> QED  BY <2>2, <2>3
  <1>7. Walkers'
    <2>1. /\ Destroying' = Destroying /\ orig' = orig /\ next' = next
          /\ Linked' = Linked /\ raced' = raced
      BY <1>0 DEF Destroying, objects
    <2>6. PICK R \in SUBSET (Linked \cup raced) : cur[t] \in R \cup {Nil} /\ Closed(R)
      BY DEF Walkers
    <2>7. cur'[t] = cur[t] \/ cur'[t] = next[cur[t]]
      BY <1>0
    <2>8. cur[t] # Nil
      BY <1>0, HookAssumption
    <2>2. cur'[t] \in R \cup {Nil} /\ Closed(R)'
      BY <2>1, <2>6, <2>7, <2>8 DEF Closed
    <2>3. /\ tpc'[t] = "patch" => /\ cur'[t] # Nil /\ orig[cur'[t]] = Target[cur'[t]]
                                  /\ left'[t] \subseteq Patchable(cur'[t])
          /\ tpc'[t] # "idle"
      BY <1>0, HookAssumption
    <2> SUFFICES ASSUME NEW u \in Threads
                 PROVE  /\ \E S \in SUBSET (Linked \cup raced) :
                             cur'[u] \in S \cup {Nil} /\ Closed(S)'
                        /\ tpc'[u] = "idle" => cur'[u] = Nil
                        /\ tpc'[u] = "patch" => /\ cur'[u] # Nil /\ orig[cur'[u]] = Target[cur'[u]]
                                                /\ left'[u] \subseteq Patchable(cur'[u])
                        /\ tpc'[u] # "idle" => Destroying \subseteq raced
      BY <2>1 DEF Walkers
    <2>4. CASE u = t
      BY <1>0, <2>2, <2>3, <2>4
    <2>5. CASE u # t
      <3>1. cur'[u] = cur[u] /\ tpc'[u] = tpc[u] /\ left'[u] = left[u]
        BY <1>0, <2>5
      <3> QED  BY <2>1, <3>1 DEF Walkers, Closed
    <2> QED  BY <2>4, <2>5
  <1>8. Overlaps'
    BY <1>0 DEF Overlaps, HookTypeOK, objects
  <1> QED  BY <1>1, <1>2, <1>3, <1>4, <1>5, <1>6, <1>7, <1>8

(* A module goes; entries in it no longer count. *)
LEMMA FreeKeeps ==
  ASSUME NEW m \in Modules, HookInv, Free(m)
  PROVE  HookInv'
  <1> USE DEF HookInv
  <1>1. HookTypeOK'
    BY DEF HookTypeOK, Free, objects, walkers
  <1>2. EntriesLive'
    BY DEF EntriesLive, Linked, Free, objects, walkers
  <1>3. Originals'
    BY DEF Originals, Free, objects, walkers
  <1>4. Pointers'
    BY DEF Pointers, Linked, Free, objects, walkers
  <1>5. OneAtATime'
    BY DEF OneAtATime, Settled, Free, objects, walkers
  <1>6. Restoring'
    BY DEF Restoring, Free, objects, walkers
  <1>7. Walkers'
    <2>1. UNCHANGED <<tpc, cur, left, next, orig, life, raced>>
      BY DEF Free, objects
    <2>2. Linked' = Linked /\ Destroying' = Destroying
      BY <2>1 DEF Linked, Destroying
    <2>3. \A R \in SUBSET (Linked \cup raced) : Closed(R) => Closed(R)'
      BY <2>1 DEF Closed
    <2> QED  BY <2>1, <2>2, <2>3, WalkersStay
  <1>8. Overlaps'
    BY DEF Overlaps, Free, objects
  <1> QED  BY <1>1, <1>2, <1>3, <1>4, <1>5, <1>6, <1>7, <1>8

(* Modules arrive with tables as the loader makes them. *)
LEMMA LoadPastKeeps ==
  ASSUME NEW m \in Modules, HookInv, LoadPast(m)
  PROVE  HookInv'
  <1> USE DEF HookInv
  <1>1. HookTypeOK'
    BY HookAssumption
       DEF HookTypeOK, Addr, LoadPast, Arrive, Arriving, Fresh, objects, walkers
  <1>2. EntriesLive'
    BY HookAssumption
       DEF HookTypeOK, EntriesLive, Linked, LoadPast, Arrive, Arriving, Fresh,
           objects
  <1>3. Originals'
    BY DEF Originals, LoadPast, objects
  <1>4. Pointers'
    BY DEF Pointers, Linked, LoadPast, objects
  <1>5. OneAtATime'
    BY DEF OneAtATime, Settled, LoadPast, objects
  <1>6. Restoring'
    BY HookAssumption
       DEF HookTypeOK, Restoring, LoadPast, Arrive, Arriving, Fresh, objects
  <1>7. Walkers'
    <2>1. UNCHANGED <<tpc, cur, left, next, orig, life, raced>>
      BY DEF LoadPast, objects, walkers
    <2>2. Linked' = Linked /\ Destroying' = Destroying
      BY <2>1 DEF Linked, Destroying
    <2>3. \A R \in SUBSET (Linked \cup raced) : Closed(R) => Closed(R)'
      BY <2>1 DEF Closed
    <2> QED  BY <2>1, <2>2, <2>3, WalkersStay
  <1>8. Overlaps'
    BY DEF Overlaps, LoadPast, objects
  <1> QED  BY <1>1, <1>2, <1>3, <1>4, <1>5, <1>6, <1>7, <1>8

(* So they do when a hook caught the load; the walk begins at the head of  *)
(* the list (apihook.cpp:373-422).                                         *)
LEMMA LoadCaughtKeeps ==
  ASSUME NEW t \in Threads, NEW caller \in Modules, NEW m \in Modules, HookInv,
         LoadCaught(t, caller, m)
  PROVE  HookInv'
  <1> USE DEF HookInv
  <1>1. HookTypeOK'
    BY HookAssumption
       DEF HookTypeOK, Addr, LoadCaught, Arrive, Arriving, Fresh, objects, walkers,
           Destroying
  <1>2. EntriesLive'
    BY HookAssumption
       DEF HookTypeOK, EntriesLive, Linked, LoadCaught, Arrive, Arriving, Fresh,
           objects, walkers
  <1>3. Originals'
    BY DEF Originals, LoadCaught, objects, walkers
  <1>4. Pointers'
    BY DEF Pointers, Linked, LoadCaught, objects, walkers
  <1>5. OneAtATime'
    BY DEF OneAtATime, Settled, LoadCaught, objects, walkers
  <1>6. Restoring'
    BY HookAssumption
       DEF HookTypeOK, Restoring, LoadCaught, Arrive, Arriving, Fresh, objects,
           walkers
  <1>7. Walkers'
    <2>1. /\ cur' = [cur EXCEPT ![t] = head] /\ tpc' = [tpc EXCEPT ![t] = "walk"]
          /\ UNCHANGED <<objects, left>> /\ raced' = raced \cup Destroying
      BY DEF LoadCaught
    <2>2. /\ Linked' = Linked /\ Destroying' = Destroying /\ next' = next /\ orig' = orig
          /\ left' = left
      BY <2>1 DEF Linked, Destroying, objects
    <2>3. head \in Linked \cup {Nil} /\ Closed(Linked)'
      BY <2>2 DEF Pointers, Closed
    <2>4. /\ tpc'[t] = "walk" /\ cur'[t] = head
          /\ \A u \in Threads : u # t => tpc'[u] = tpc[u] /\ cur'[u] = cur[u]
      BY <2>1 DEF HookTypeOK
    <2> SUFFICES ASSUME NEW u \in Threads
                 PROVE  /\ \E S \in SUBSET (Linked \cup raced)' :
                             cur'[u] \in S \cup {Nil} /\ Closed(S)'
                        /\ tpc'[u] = "idle" => cur'[u] = Nil
                        /\ tpc'[u] = "patch" => /\ cur'[u] # Nil /\ orig[cur'[u]] = Target[cur'[u]]
                                                /\ left[u] \subseteq Patchable(cur'[u])
                        /\ (Destroying \subseteq raced)'
      BY <2>2 DEF Walkers
    <2>5. CASE u = t
      BY <2>1, <2>2, <2>3, <2>4, <2>5
    <2>6. CASE u # t
      <3>1. PICK R \in SUBSET (Linked \cup raced) : cur[u] \in R \cup {Nil} /\ Closed(R)
        BY DEF Walkers
      <3>2. R \in SUBSET (Linked \cup raced)' /\ cur'[u] \in R \cup {Nil} /\ Closed(R)'
        BY <2>1, <2>2, <2>4, <2>6, <3>1 DEF Closed
      <3>3. cur'[u] = cur[u] /\ tpc'[u] = tpc[u]
        BY <2>4, <2>6
      <3> QED  BY <2>1, <2>2, <3>2, <3>3 DEF Walkers
    <2> QED  BY <2>5, <2>6
  <1>8. Overlaps'
    BY DEF Overlaps, LoadCaught, Destroying, objects
  <1> QED  BY <1>1, <1>2, <1>3, <1>4, <1>5, <1>6, <1>7, <1>8

-----------------------------------------------------------------------------
(* The specification *)

(* Every step keeps the invariant. *)
LEMMA HookStepKeeps == HookInv /\ [Next]_vars => HookInv'
  <1> SUFFICES ASSUME HookInv, [Next]_vars PROVE HookInv'
    OBVIOUS
  <1>1. CASE \E h \in Hooks : Construct(h) \/ Destroy(h) \/ Object(h)
    BY <1>1, ConstructKeeps, DestroyKeeps, FindOriginalKeeps, BeginPatchKeeps,
       PatchKeeps, RestoreKeeps, UnlinkKeeps
       DEF Object
  <1>2. CASE \E t \in Threads : Thread(t)
    BY <1>2, WalkKeeps, WalkPatchKeeps DEF Thread
  <1>3. CASE \E t \in Threads, caller, m \in Modules : LoadCaught(t, caller, m)
    BY <1>3, LoadCaughtKeeps
  <1>4. CASE \E m \in Modules : LoadPast(m) \/ Free(m)
    BY <1>4, LoadPastKeeps, FreeKeeps
  <1>5. CASE UNCHANGED vars
    BY <1>5
       DEF vars, HookInv, HookTypeOK, EntriesLive, Originals, Pointers, OneAtATime,
           Restoring, Walkers, Overlaps, Closed, Linked, Settled, Destroying
  <1> QED  BY <1>1, <1>2, <1>3, <1>4, <1>5 DEF Next

(* It holds before the first hook is constructed. *)
LEMMA HookInit == Init => HookInv
  <1> SUFFICES ASSUME Init PROVE HookInv
    OBVIOUS
  <1>1. HookTypeOK
    BY HookAssumption DEF Init, HookTypeOK, Fresh, Addr, Life
  <1>2. EntriesLive
    BY HookAssumption DEF Init, EntriesLive, Fresh
  <1>3. Originals /\ Pointers /\ OneAtATime /\ Restoring /\ Walkers /\ Overlaps
    BY DEF Init, Originals, Pointers, OneAtATime, Restoring, Walkers, Overlaps, Closed,
           Linked, Settled
  <1> QED  BY <1>1, <1>2, <1>3 DEF HookInv

(* In every reachable state the import tables, the list and the threads    *)
(* that walk along it fit together as HookInv says, also when hooks are    *)
(* destroyed during a follow-up or entries cannot be written.              *)
THEOREM HookInvariant == Spec => []HookInv
  <1> QED  BY HookStepKeeps, HookInit, PTL DEF Spec

(* Every variable keeps its type: entries of import tables are functions   *)
(* or hooks, never the null pointer of a hook that found no function.      *)
THEOREM HookTypeCorrect == Spec => []HookTypeOK
  <1>1. HookInv => HookTypeOK
    BY DEF HookInv
  <1> QED  BY <1>1, HookInvariant, PTL

(* No import of a loaded module leads to a replacement for another         *)
(* function, nor to one that is gone - but for a hook whose destructor     *)
(* overlapped a follow-up and for an entry that could not be written -,    *)
(* and the module of CAPIHook keeps its originals, however hooks come and  *)
(* go while modules are loaded and freed (apihook.cpp:97-119, 339-367).    *)
THEOREM NothingEverDangles == Spec => []NoneDangles
  <1>1. HookInv => NoneDangles
    BY HookAssumption
       DEF HookInv, NoneDangles, EntriesLive, Originals, Linked, Patchable
  <1> QED  BY <1>1, HookInvariant, PTL

-----------------------------------------------------------------------------
(* The list, whoever walks along it and whatever is destroyed meanwhile:   *)
(* the linked hooks in some order p, each with a pointer to the next.      *)
Listing(n, p) ==
  /\ p \in [1..n -> Linked]
  /\ \A i, j \in 1..n : p[i] = p[j] => i = j
  /\ \A h \in Linked : \E i \in 1..n : p[i] = h
  /\ head = IF n = 0 THEN Nil ELSE p[1]
  /\ \A i \in 1..n : next[p[i]] = IF i = n THEN Nil ELSE p[i + 1]

ListInv ==
  /\ next \in [Hooks -> Hooks \cup {Nil}] /\ life \in [Hooks -> Life]
  /\ \E n \in Nat : \E p : Listing(n, p)

(* The constructor puts the hook in front. *)
LEMMA ConstructLists ==
  ASSUME ListInv, NEW h \in Hooks, Construct(h)
  PROVE  ListInv'
<1>1. PICK n \in Nat : \E p : Listing(n, p)
  BY DEF ListInv
<1>2. PICK p : Listing(n, p)
  BY <1>1
<1>3. /\ life[h] = "unborn" /\ life' = [life EXCEPT ![h] = "linked"]
      /\ next' = [next EXCEPT ![h] = head] /\ head' = h
  BY DEF Construct, Become
<1>4. /\ life \in [Hooks -> Life] /\ next \in [Hooks -> Hooks \cup {Nil}]
      /\ head \in Hooks \cup {Nil}
  BY <1>2 DEF ListInv, Listing, Linked
<1>5. Linked' = Linked \cup {h} /\ h \notin Linked /\ Linked \subseteq Hooks
  BY <1>3, <1>4 DEF Linked
<1> DEFINE q == [i \in 1..(n + 1) |-> IF i = 1 THEN h ELSE p[i - 1]]
<1>6. /\ p \in [1..n -> Linked]
      /\ \A i, j \in 1..n : p[i] = p[j] => i = j
      /\ \A g \in Linked : \E i \in 1..n : p[i] = g
      /\ head = IF n = 0 THEN Nil ELSE p[1]
      /\ \A i \in 1..n : next[p[i]] = IF i = n THEN Nil ELSE p[i + 1]
  BY <1>2 DEF Listing
<1>7. /\ q[1] = h
      /\ \A i \in 1..n : q[i + 1] = p[i] /\ q[i + 1] \in Linked
      /\ \A i \in 1..(n + 1) : i # 1 => i - 1 \in 1..n /\ q[i] = p[i - 1]
  BY <1>6
<1>8. q \in [1..(n + 1) -> Linked']
  BY <1>5, <1>6, <1>7
<1>9. DOMAIN q = 1..(n + 1)
  OBVIOUS
<1> HIDE DEF q
<1>10. \A i, j \in 1..(n + 1) : q[i] = q[j] => i = j
  <2> SUFFICES ASSUME NEW i \in 1..(n + 1), NEW j \in 1..(n + 1), q[i] = q[j]
               PROVE  i = j
    OBVIOUS
  <2>1. CASE i # 1 /\ j # 1
    <3>1. i - 1 = j - 1
      BY <2>1, <1>6, <1>7
    <3>2. QED BY <3>1
  <2>2. CASE i = 1 /\ j # 1
    <3>1. q[j] \in Linked
      BY <2>2, <1>6, <1>7
    <3>2. QED BY <3>1, <2>2, <1>5, <1>7
  <2>3. CASE i # 1 /\ j = 1
    <3>1. q[i] \in Linked
      BY <2>3, <1>6, <1>7
    <3>2. QED BY <3>1, <2>3, <1>5, <1>7
  <2>4. QED BY <2>1, <2>2, <2>3
<1>11. \A g \in Linked' : \E i \in 1..(n + 1) : q[i] = g
  <2> SUFFICES ASSUME NEW g \in Linked'
               PROVE  \E i \in 1..(n + 1) : q[i] = g
    OBVIOUS
  <2>1. CASE g = h
    BY <2>1, <1>7
  <2>2. CASE g # h
    <3>1. PICK i \in 1..n : p[i] = g
      BY <2>2, <1>5, <1>6
    <3>2. i + 1 \in 1..(n + 1) /\ q[i + 1] = g
      BY <3>1, <1>7
    <3>3. QED BY <3>2
  <2>3. QED BY <2>1, <2>2
<1>12. \A g \in Linked : next'[g] = next[g]
  BY <1>3, <1>4, <1>5
<1>13. next'[h] = head
  BY <1>3, <1>4
<1>14. \A i \in 1..(n + 1) : next'[q[i]] = IF i = n + 1 THEN Nil ELSE q[i + 1]
  <2> SUFFICES ASSUME NEW i \in 1..(n + 1)
               PROVE  next'[q[i]] = IF i = n + 1 THEN Nil ELSE q[i + 1]
    OBVIOUS
  <2>1. CASE i = 1
    <3>1. next'[q[i]] = head
      BY <2>1, <1>7, <1>13
    <3>2. CASE n = 0
      BY <2>1, <3>1, <3>2, <1>6
    <3>3. CASE n # 0
      <4>1. 1 \in 1..n /\ i # n + 1 /\ q[1 + 1] = p[1]
        BY <2>1, <3>3, <1>7
      <4>2. QED BY <2>1, <3>1, <3>3, <4>1, <1>6
    <3>4. QED BY <3>2, <3>3
  <2>2. CASE i # 1
    <3>1. i - 1 \in 1..n /\ q[i] = p[i - 1] /\ p[i - 1] \in Linked
      BY <2>2, <1>6, <1>7
    <3>2. next'[q[i]] = IF i - 1 = n THEN Nil ELSE p[(i - 1) + 1]
      BY <3>1, <1>12, <1>6
    <3>3. i # n + 1 => i \in 1..n /\ q[i + 1] = p[i]
      BY <1>7
    <3>4. (i - 1) + 1 = i /\ (i - 1 = n <=> i = n + 1)
      OBVIOUS
    <3>5. QED BY <3>2, <3>3, <3>4
  <2>3. QED BY <2>1, <2>2
<1>15. Listing(n + 1, q)'
  <2>1. head' = IF n + 1 = 0 THEN Nil ELSE q[1]
    BY <1>3, <1>7
  <2>2. QED BY <1>8, <1>10, <1>11, <1>14, <2>1 DEF Listing
<1>16. life' \in [Hooks -> Life] /\ next' \in [Hooks -> Hooks \cup {Nil}]
  BY <1>3, <1>4 DEF Life
<1>17. n + 1 \in Nat
  OBVIOUS
<1>18. QED BY <1>15, <1>16, <1>17 DEF ListInv

(* The destructor takes it out, at the head or behind its predecessor. *)
LEMMA UnlinkLists ==
  ASSUME ListInv, NEW h \in Hooks, Unlink(h)
  PROVE  ListInv'
<1>1. PICK n \in Nat : \E p : Listing(n, p)
  BY DEF ListInv
<1>2. PICK p : Listing(n, p)
  BY <1>1
<1>3. /\ p \in [1..n -> Linked]
      /\ \A i, j \in 1..n : p[i] = p[j] => i = j
      /\ \A g \in Linked : \E i \in 1..n : p[i] = g
      /\ head = IF n = 0 THEN Nil ELSE p[1]
      /\ \A i \in 1..n : next[p[i]] = IF i = n THEN Nil ELSE p[i + 1]
  BY <1>2 DEF Listing
<1>4. life[h] = "restored" /\ life' = [life EXCEPT ![h] = "dead"]
  BY DEF Unlink, Become
<1>5. /\ life \in [Hooks -> Life] /\ next \in [Hooks -> Hooks \cup {Nil}]
      /\ head \in Hooks \cup {Nil} /\ Nil \notin Hooks
  BY <1>2, HookAssumption DEF ListInv, Listing, Linked
<1>6. Linked' = Linked \ {h} /\ h \in Linked /\ Linked \subseteq Hooks
  BY <1>4, <1>5 DEF Linked
<1>7. PICK k \in 1..n : p[k] = h
  BY <1>3, <1>6
<1> DEFINE q == [i \in 1..(n - 1) |-> IF i < k THEN p[i] ELSE p[i + 1]]
<1>8. \A i \in 1..(n - 1) : /\ i < k => i \in 1..n /\ i # k /\ q[i] = p[i]
                            /\ ~(i < k) => i + 1 \in 1..n /\ i + 1 # k /\ q[i] = p[i + 1]
  OBVIOUS
<1>9. DOMAIN q = 1..(n - 1) /\ q = [i \in 1..(n - 1) |-> q[i]]
  OBVIOUS
<1> HIDE DEF q
<1>10. \A i \in 1..n : i # k => p[i] \in Linked \ {h}
  BY <1>3, <1>7
<1>11. q \in [1..(n - 1) -> Linked']
  <2>1. \A i \in 1..(n - 1) : q[i] \in Linked'
    BY <1>6, <1>8, <1>10
  <2>2. QED BY <1>9, <2>1
<1>12. \A i, j \in 1..(n - 1) : q[i] = q[j] => i = j
  <2> SUFFICES ASSUME NEW i \in 1..(n - 1), NEW j \in 1..(n - 1), q[i] = q[j]
               PROVE  i = j
    OBVIOUS
  <2>1. PICK a \in 1..n : q[i] = p[a] /\ a = IF i < k THEN i ELSE i + 1
    BY <1>8
  <2>2. PICK b \in 1..n : q[j] = p[b] /\ b = IF j < k THEN j ELSE j + 1
    BY <1>8
  <2>3. p[a] = p[b]
    BY <2>1, <2>2
  <2>4. a = b
    BY <2>3, <1>3
  <2>5. QED BY <2>1, <2>2, <2>4
<1>13. \A g \in Linked' : \E i \in 1..(n - 1) : q[i] = g
  <2> SUFFICES ASSUME NEW g \in Linked'
               PROVE  \E i \in 1..(n - 1) : q[i] = g
    OBVIOUS
  <2>1. PICK a \in 1..n : p[a] = g
    BY <1>3, <1>6
  <2>2. a # k
    BY <2>1, <1>6, <1>7
  <2>3. CASE a < k
    <3>1. a \in 1..(n - 1)
      BY <2>3
    <3>2. QED BY <2>1, <2>3, <3>1, <1>8
  <2>4. CASE ~(a < k)
    <3>1. a - 1 \in 1..(n - 1) /\ ~(a - 1 < k) /\ (a - 1) + 1 = a
      BY <2>2, <2>4
    <3>2. QED BY <2>1, <3>1, <1>8
  <2>5. QED BY <2>3, <2>4
<1>14. /\ head = h => /\ k = 1 /\ head' = next[h] /\ next' = next
       /\ head # h => /\ k # 1 /\ head' = head
                      /\ \A g \in Linked : next'[g] = IF next[g] = h THEN next[h] ELSE next[g]
  <2>1. head = p[1] /\ 1 \in 1..n
    BY <1>3
  <2>2. head = h <=> k = 1
    BY <2>1, <1>3, <1>7
  <2>3. \A g \in Linked : g \in Hooks /\ life[g] # "dead"
    BY DEF Linked
  <2>4. QED BY <2>2, <2>3 DEF Unlink
<1>15. \A i \in 1..n : next[p[i]] = h => i + 1 = k
  <2> SUFFICES ASSUME NEW i \in 1..n, next[p[i]] = h
               PROVE  i + 1 = k
    OBVIOUS
  <2>1. i # n /\ i + 1 \in 1..n /\ p[i + 1] = h
    BY <1>3, <1>5, <1>6
  <2>2. QED BY <2>1, <1>3, <1>7
<1>16. \A i \in 1..n : i + 1 = k => next[p[i]] = h
  BY <1>3, <1>7
<1>17. next[h] = IF k = n THEN Nil ELSE p[k + 1]
  BY <1>3, <1>7
<1>18. \A i \in 1..(n - 1) : next'[q[i]] = IF i = n - 1 THEN Nil ELSE q[i + 1]
  <2> SUFFICES ASSUME NEW i \in 1..(n - 1)
               PROVE  next'[q[i]] = IF i = n - 1 THEN Nil ELSE q[i + 1]
    OBVIOUS
  <2>1. CASE i < k /\ i + 1 = k
    <3>1. i \in 1..n /\ q[i] = p[i] /\ p[i] \in Linked
      BY <2>1, <1>3, <1>8
    <3>2. k # 1 /\ next[p[i]] = h
      BY <2>1, <3>1, <1>16
    <3>3. next'[q[i]] = next[h]
      BY <3>1, <3>2, <1>14
    <3>4. i # n - 1 => i + 1 \in 1..(n - 1) /\ ~(i + 1 < k) /\ q[i + 1] = p[k + 1]
      <4>1. i # n - 1 => i + 1 \in 1..(n - 1) /\ ~(i + 1 < k)
        BY <2>1
      <4>2. QED BY <4>1, <2>1, <1>8
    <3>5. i = n - 1 <=> k = n
      BY <2>1
    <3>6. QED BY <3>3, <3>4, <3>5, <1>17
  <2>2. CASE i < k /\ i + 1 # k
    <3>1. i \in 1..n /\ q[i] = p[i] /\ p[i] \in Linked
      BY <2>2, <1>3, <1>8
    <3>2. next[p[i]] # h
      BY <2>2, <3>1, <1>15
    <3>3. next'[q[i]] = next[p[i]]
      BY <3>1, <3>2, <1>14
    <3>4. i # n /\ i # n - 1 /\ i + 1 \in 1..(n - 1) /\ i + 1 < k
      BY <2>2
    <3>5. q[i + 1] = p[i + 1]
      BY <3>4, <1>8
    <3>6. QED BY <3>1, <3>3, <3>4, <3>5, <1>3
  <2>3. CASE ~(i < k)
    <3>1. i + 1 \in 1..n /\ q[i] = p[i + 1] /\ p[i + 1] \in Linked
      BY <2>3, <1>3, <1>8
    <3>2. (i + 1) + 1 # k
      BY <2>3
    <3>3. next[p[i + 1]] # h
      BY <3>1, <3>2, <1>15
    <3>4. next'[q[i]] = next[p[i + 1]]
      BY <3>1, <3>3, <1>14
    <3>5. next[p[i + 1]] = IF i + 1 = n THEN Nil ELSE p[(i + 1) + 1]
      BY <3>1, <1>3
    <3>6. i = n - 1 <=> i + 1 = n
      OBVIOUS
    <3>7. i # n - 1 => q[i + 1] = p[(i + 1) + 1]
      <4>1. i # n - 1 => i + 1 \in 1..(n - 1) /\ ~(i + 1 < k)
        BY <2>3
      <4>2. QED BY <4>1, <1>8
    <3>8. QED BY <3>4, <3>5, <3>6, <3>7
  <2>4. QED BY <2>1, <2>2, <2>3
<1>19. head' = IF n - 1 = 0 THEN Nil ELSE q[1]
  <2>1. CASE head = h
    <3>1. k = 1 /\ head' = IF n = 1 THEN Nil ELSE p[1 + 1]
      BY <2>1, <1>14, <1>17
    <3>2. n # 1 => 1 \in 1..(n - 1) /\ ~(1 < k)
      BY <3>1
    <3>3. n # 1 => q[1] = p[1 + 1]
      BY <3>2, <1>8
    <3>4. n = 1 <=> n - 1 = 0
      OBVIOUS
    <3>5. QED BY <3>1, <3>3, <3>4
  <2>2. CASE head # h
    <3>1. k # 1 /\ head' = p[1]
      BY <2>2, <1>3, <1>14
    <3>2. n - 1 # 0 /\ 1 \in 1..(n - 1) /\ 1 < k
      BY <3>1
    <3>3. QED BY <3>1, <3>2, <1>8
  <2>3. QED BY <2>1, <2>2
<1>20. Listing(n - 1, q)'
  BY <1>11, <1>12, <1>13, <1>18, <1>19 DEF Listing
<1>21. life' \in [Hooks -> Life] /\ next' \in [Hooks -> Hooks \cup {Nil}]
  <2>1. life' \in [Hooks -> Life]
    BY <1>4, <1>5 DEF Life
  <2>2. QED BY <2>1, <1>5 DEF Unlink
<1>22. n - 1 \in Nat
  OBVIOUS
<1>23. QED BY <1>20, <1>21, <1>22 DEF ListInv

(* The other steps of a constructor or destructor leave the list alone. *)
LEMMA StepLists ==
  ASSUME ListInv, [Next]_vars
  PROVE  ListInv'
<1>1. ASSUME UNCHANGED <<head, next, life>>
      PROVE  ListInv'
  BY <1>1 DEF ListInv, Listing, Linked
<1>2. ASSUME NEW h \in Hooks, NEW l \in Life \ {"unborn", "dead"},
             life[h] \notin {"unborn", "dead"}, UNCHANGED <<head, next>>, Become(h, l)
      PROVE  ListInv'
  <2>1. life' \in [Hooks -> Life]
    BY <1>2 DEF ListInv, Become
  <2>2. Linked' = Linked
    BY <1>2, <2>1 DEF ListInv, Linked, Become
  <2>3. \A n, p : Listing(n, p)' <=> Listing(n, p)
    BY <1>2, <2>2 DEF Listing
  <2>4. QED BY <1>2, <2>1, <2>3 DEF ListInv
<1>3. ASSUME NEW h \in Hooks, Destroy(h) \/ FindOriginal(h) \/ BeginPatch(h) \/ Patch(h) \/ Restore(h)
      PROVE  ListInv'
  <2>1. UNCHANGED <<head, next>>
    BY <1>3 DEF Destroy, FindOriginal, BeginPatch, Patch, Restore
  <2>2. life[h] \notin {"unborn", "dead"}
    BY <1>3 DEF Destroy, FindOriginal, BeginPatch, Patch, Restore
  <2>3. \/ life' = life
        \/ \E l \in Life \ {"unborn", "dead"} : Become(h, l)
    BY <1>3 DEF Destroy, FindOriginal, BeginPatch, Patch, Restore, Life
  <2>4. QED BY <1>1, <1>2, <2>1, <2>2, <2>3
<1>4. CASE \E h \in Hooks : Construct(h) \/ Destroy(h) \/ Object(h)
  BY <1>3, <1>4, ConstructLists, UnlinkLists DEF Object
<1>5. CASE \E t \in Threads : Thread(t)
  BY <1>1, <1>5 DEF Thread, Walk, WalkPatch, objects
<1>6. CASE \E t \in Threads, caller, m \in Modules : LoadCaught(t, caller, m)
  BY <1>1, <1>6 DEF LoadCaught, objects
<1>7. CASE \E m \in Modules : LoadPast(m) \/ Free(m)
  BY <1>1, <1>7 DEF LoadPast, Free, objects
<1>8. CASE UNCHANGED vars
  BY <1>1, <1>8 DEF vars
<1>9. QED BY <1>4, <1>5, <1>6, <1>7, <1>8 DEF Next

LEMMA EmptyList == Init => ListInv
<1> SUFFICES ASSUME Init
             PROVE  ListInv
  OBVIOUS
<1>1. Linked = {}
  BY DEF Init, Linked
<1>2. <<>> \in [1..0 -> Linked]
  OBVIOUS
<1>3. Listing(0, <<>>)
  BY <1>1, <1>2 DEF Listing, Init
<1>4. QED BY <1>3 DEF ListInv, Init, Life

(* chain runs through the list and stays at its end.  It is one function:  *)
(* one that satisfies its equation exists, and two agree everywhere, else  *)
(* they would differ at a first place.                                     *)
LEMMA ChainIs ==
  ASSUME NEW n \in Nat, NEW p, Listing(n, p)
  PROVE  \A i \in Places : chain[i] = IF i < n THEN p[i + 1] ELSE Nil
<1> DEFINE G == [i \in Places |-> IF i < n THEN p[i + 1] ELSE Nil]
           Eq(f) == f = [i \in Places |-> IF i = 0 THEN head
                                          ELSE IF f[i - 1] = Nil THEN Nil ELSE next[f[i - 1]]]
<1>0. Places = 0..Cardinality(Hooks) /\ Cardinality(Hooks) \in Nat
  BY FS_CardinalityType, HookAssumption DEF Places
<1>1. /\ p \in [1..n -> Linked]
      /\ head = IF n = 0 THEN Nil ELSE p[1]
      /\ \A i \in 1..n : next[p[i]] = IF i = n THEN Nil ELSE p[i + 1]
  BY DEF Listing
<1>2. \A i \in 1..n : p[i] # Nil
  BY <1>1, HookAssumption DEF Linked
<1>3. \A i \in Places : G[i] = IF i = 0 THEN head
                               ELSE IF G[i - 1] = Nil THEN Nil ELSE next[G[i - 1]]
  <2> SUFFICES ASSUME NEW i \in Places
               PROVE  G[i] = IF i = 0 THEN head
                             ELSE IF G[i - 1] = Nil THEN Nil ELSE next[G[i - 1]]
    OBVIOUS
  <2>1. CASE i = 0
    <3>1. G[i] = IF 0 < n THEN p[0 + 1] ELSE Nil
      BY <2>1, <1>0
    <3>2. QED BY <2>1, <3>1, <1>1
  <2>2. CASE i # 0
    <3>1. i - 1 \in Places /\ (i - 1) + 1 = i /\ i \in Nat
      BY <2>2, <1>0
    <3>2. G[i - 1] = IF i - 1 < n THEN p[i] ELSE Nil
      BY <3>1
    <3>3. G[i] = IF i < n THEN p[i + 1] ELSE Nil
      OBVIOUS
    <3> HIDE DEF G
    <3>4. CASE i - 1 < n
      <4>1. i \in 1..n /\ (i < n <=> i # n)
        BY <2>2, <3>1, <3>4
      <4>2. G[i - 1] = p[i] /\ p[i] # Nil
        BY <3>2, <3>4, <4>1, <1>2
      <4>3. next[p[i]] = IF i = n THEN Nil ELSE p[i + 1]
        BY <4>1, <1>1
      <4>4. QED BY <2>2, <3>3, <4>1, <4>2, <4>3
    <3>5. CASE ~(i - 1 < n)
      <4>1. ~(i < n)
        BY <3>1, <3>5
      <4>2. G[i - 1] = Nil /\ G[i] = Nil
        BY <3>2, <3>3, <3>5, <4>1
      <4>3. QED BY <2>2, <4>2
    <3>6. QED BY <3>4, <3>5
  <2>3. QED BY <2>1, <2>2
<1>4. Eq(G)
  <2>1. G = [i \in Places |-> G[i]]
    OBVIOUS
  <2> HIDE DEF G
  <2>2. QED BY <2>1, <1>3
<1>5. Eq(chain)
  <2>1. chain = CHOOSE f : Eq(f)
    BY DEF chain
  <2> HIDE DEF Eq, G
  <2>2. QED BY <2>1, <1>4
<1>6. \A i \in Places : chain[i] = IF i = 0 THEN head
                                   ELSE IF chain[i - 1] = Nil THEN Nil ELSE next[chain[i - 1]]
  BY <1>5
<1> DEFINE B == {i \in Places : chain[i] # G[i]}
<1>7. B = {}
  <2> SUFFICES ASSUME B # {}
               PROVE  FALSE
    OBVIOUS
  <2>1. B \subseteq Nat
    BY <1>0
  <2>2. PICK b \in B : \A j \in B : ~(<<j, b>> \in OpToRel(<, Nat))
    BY <2>1, NatLessThanWellFounded, WFMin
  <2>3. \A j \in B : ~(j < b)
    BY <2>1, <2>2 DEF OpToRel
  <2>4. b \in Places /\ chain[b] # G[b]
    OBVIOUS
  <2> HIDE DEF G
  <2>5. CASE b = 0
    BY <2>4, <2>5, <1>3, <1>6
  <2>6. CASE b # 0
    <3>1. b - 1 \in Places /\ b - 1 < b
      BY <2>4, <2>6, <1>0
    <3>2. chain[b - 1] = G[b - 1]
      BY <3>1, <2>3
    <3>3. QED BY <2>4, <2>6, <3>2, <1>3, <1>6
  <2>7. QED BY <2>5, <2>6
<1>8. QED BY <1>7

(* There is room for every hook before the last place. *)
LEMMA ListShort ==
  ASSUME NEW n \in Nat, NEW p, Listing(n, p)
  PROVE  n <= Cardinality(Hooks) /\ Cardinality(Hooks) \in Nat
<1>1. p \in Injection(1..n, Hooks)
  <2>1. p \in [1..n -> Hooks] /\ \A a, b \in 1..n : p[a] = p[b] => a = b
    BY DEF Listing, Linked
  <2>2. IsInjective(p)
    BY <2>1 DEF IsInjective
  <2>3. QED BY <2>1, <2>2, Zenon DEF Injection
<1>2. Cardinality(1..n) <= Cardinality(Hooks) /\ Cardinality(Hooks) \in Nat
  BY <1>1, FS_Injection, FS_CardinalityType, HookAssumption
<1>3. Cardinality(1..n) = n
  <2>1. Cardinality(1..n) = IF 1 > n THEN 0 ELSE n - 1 + 1
    BY n \in Int, 1 \in Int, FS_Interval, Zenon
  <2>2. QED BY <2>1
<1>4. QED BY <1>2, <1>3

LEMMA ListedIntact == ListInv => ListIntact
<1> SUFFICES ASSUME ListInv
             PROVE  ListIntact
  OBVIOUS
<1>1. PICK n \in Nat : \E p : Listing(n, p)
  BY DEF ListInv
<1>2. PICK p : Listing(n, p)
  BY <1>1
<1>3. \A i \in Places : chain[i] = IF i < n THEN p[i + 1] ELSE Nil
  BY <1>2, ChainIs
<1>4. n <= Cardinality(Hooks) /\ Cardinality(Hooks) \in Nat
  BY <1>2, ListShort
<1>5. Places = 0..Cardinality(Hooks)
  BY DEF Places
<1>6. p \in [1..n -> Linked] /\ \A h \in Linked : \E i \in 1..n : p[i] = h
  BY <1>2 DEF Listing
<1>7. chain[Cardinality(Hooks)] = Nil
  BY <1>3, <1>4, <1>5
<1>8. \A i \in Places : chain[i] \in Linked \cup {Nil}
  <2> SUFFICES ASSUME NEW i \in Places
               PROVE  chain[i] \in Linked \cup {Nil}
    OBVIOUS
  <2>1. i < n => i + 1 \in 1..n
    BY <1>4, <1>5
  <2>2. QED BY <2>1, <1>3, <1>6
<1>9. \A h \in Linked : h # Nil /\ \E i \in Places : chain[i] = h
  <2> SUFFICES ASSUME NEW h \in Linked
               PROVE  h # Nil /\ \E i \in Places : chain[i] = h
    OBVIOUS
  <2>1. PICK i \in 1..n : p[i] = h
    BY <1>6
  <2>2. i - 1 \in Places /\ i - 1 < n /\ (i - 1) + 1 = i
    BY <1>4, <1>5
  <2>3. chain[i - 1] = h
    BY <2>1, <2>2, <1>3
  <2>4. h # Nil
    BY HookAssumption DEF Linked
  <2>5. QED BY <2>2, <2>3, <2>4
<1>10. {chain[i] : i \in Places} \ {Nil} = Linked
  BY <1>8, <1>9
<1>11. QED BY <1>7, <1>10 DEF ListIntact

(* sm_pHead and the m_pNext of the hooks are one finite list of exactly    *)
(* the hooks between construction and destruction (apihook.cpp:38-41,      *)
(* 102-118), whichever hook is destroyed and however the loads of other    *)
(* threads run along the list meanwhile.                                   *)
THEOREM ListAlwaysIntact == Spec => []ListIntact
<1>1. ListInv /\ [Next]_vars => ListInv'
  BY StepLists
<1>2. QED BY <1>1, EmptyList, ListedIntact, PTL DEF Spec

-----------------------------------------------------------------------------
(* Which modules are patched.  A hook on f that has begun to restore may   *)
(* take the entries of another hook on f with it; until then, a module     *)
(* with an import for a hook that patches or has patched                   *)
Gone(f) ==
  \E h \in Hooks : Target[h] = f /\ life[h] \in {"restoring", "restored", "dead"}

Bound(h, m) ==
  /\ life[h] \in {"patching", "alive"} /\ orig[h] = Target[h]
  /\ ~Gone(Target[h]) /\ m \in Patchable(h)

(* is patched or cannot be, or its constructor has it on its list, ...     *)
Done(h, m) ==
  \/ iat[m][Target[h]] # Target[h]
  \/ Target[h] \in denied[m]
  \/ life[h] = "patching" /\ m \in todo

(* The hooks from h on: in every set that has h and with a hook its next.  *)
Ahead(h) ==
  {g \in Hooks : \A S \in SUBSET Hooks :
                   h \in S /\ (\A k \in S : next[k] \in S \cup {Nil}) => g \in S}

(* ... or the thread that follows up its load is on the way to the hook.   *)
Coming(t, h, m) ==
  \/ tpc[t] = "walk" /\ cur[t] # Nil /\ h \in Ahead(cur[t])
  \/ tpc[t] = "patch" /\ h \in Ahead(cur[t]) /\ (h = cur[t] => m \in left[t])

Unset == \A h \in Hooks : life[h] \in {"unborn", "linked"} => orig[h] = Nil

HealsLoaded == \A t \in Threads : heals[t] \subseteq loaded

CaughtUp == \A m \in loaded \ missed, h \in Hooks : Bound(h, m) => Done(h, m)

FollowedUp ==
  \A t \in Threads, h \in Hooks : \A m \in heals[t] :
    tpc[t] # "idle" /\ Bound(h, m) => Done(h, m) \/ Coming(t, h, m)

Healed == Unset /\ HealsLoaded /\ CaughtUp /\ FollowedUp

(* Walking along the list. *)
LEMMA AheadSelf ==
  ASSUME NEW h \in Hooks
  PROVE  h \in Ahead(h)
BY DEF Ahead

LEMMA AheadStep ==
  ASSUME NEW h \in Hooks, NEW g \in Ahead(h), g # h
  PROVE  next[h] # Nil /\ g \in Ahead(next[h])
<1>1. \A S \in SUBSET Hooks :
        h \in S /\ (\A k \in S : next[k] \in S \cup {Nil}) => g \in S
  BY DEF Ahead
<1>2. g \in Hooks
  BY DEF Ahead
<1>3. next[h] # Nil
  <2>1. {h} \in SUBSET Hooks /\ g \notin {h}
    OBVIOUS
  <2>2. next[h] = Nil => \A k \in {h} : next[k] \in {h} \cup {Nil}
    OBVIOUS
  <2>3. QED BY <1>1, <2>1, <2>2
<1>4. ASSUME NEW S \in SUBSET Hooks, next[h] \in S, \A k \in S : next[k] \in S \cup {Nil}
      PROVE  g \in S
  <2> DEFINE T == S \cup {h}
  <2>1. T \in SUBSET Hooks /\ h \in T /\ \A k \in T : next[k] \in T \cup {Nil}
    BY <1>4
  <2> HIDE DEF T
  <2>2. g \in T
    BY <2>1, <1>1
  <2>3. QED BY <2>2 DEF T
<1>5. QED BY <1>2, <1>3, <1>4 DEF Ahead

(* From the head every linked hook is ahead: else there were a first one   *)
(* that is not.                                                            *)
LEMMA AheadOfHead ==
  ASSUME ListInv, NEW h \in Linked
  PROVE  head # Nil /\ h \in Ahead(head)
<1>1. PICK n \in Nat : \E p : Listing(n, p)
  BY DEF ListInv
<1>2. PICK p : Listing(n, p)
  BY <1>1
<1>3. /\ p \in [1..n -> Linked]
      /\ \A g \in Linked : \E i \in 1..n : p[i] = g
      /\ head = IF n = 0 THEN Nil ELSE p[1]
      /\ \A i \in 1..n : next[p[i]] = IF i = n THEN Nil ELSE p[i + 1]
  BY <1>2 DEF Listing
<1>4. PICK a \in 1..n : p[a] = h
  BY <1>3
<1>5. head = p[1] /\ head \in Linked
  BY <1>3, <1>4
<1>6. Nil \notin Linked /\ Linked \subseteq Hooks
  BY HookAssumption DEF Linked
<1>7. ASSUME NEW S \in SUBSET Hooks, head \in S, \A k \in S : next[k] \in S \cup {Nil},
             h \notin S
      PROVE  FALSE
  <2> DEFINE B == {i \in 1..n : p[i] \notin S}
  <2>1. B \subseteq Nat /\ B # {}
    BY <1>4, <1>7
  <2>2. PICK b \in B : \A j \in B : ~(<<j, b>> \in OpToRel(<, Nat))
    BY <2>1, NatLessThanWellFounded, WFMin
  <2>3. \A j \in B : ~(j < b)
    BY <2>1, <2>2 DEF OpToRel
  <2>4. b \in 1..n /\ p[b] \notin S
    OBVIOUS
  <2>5. b # 1
    BY <2>4, <1>5, <1>7
  <2>6. b - 1 \in 1..n /\ b - 1 < b /\ b - 1 # n /\ (b - 1) + 1 = b
    BY <2>4, <2>5
  <2>7. p[b - 1] \in S
    BY <2>3, <2>6
  <2>8. next[p[b - 1]] = p[b]
    BY <2>6, <1>3
  <2>9. p[b] \in S \cup {Nil} /\ p[b] \in Linked
    BY <2>4, <2>7, <2>8, <1>3, <1>7
  <2>10. QED BY <2>4, <2>9, <1>6
<1>8. QED BY <1>5, <1>6, <1>7 DEF Ahead

(* A hook constructed meanwhile is put before the others, and one unlinked *)
(* meanwhile is passed over.                                               *)
LEMMA AheadGrows ==
  ASSUME NEW R \in SUBSET Hooks, Closed(R), \A g \in R : next'[g] = next[g],
         NEW x \in R, NEW g \in Ahead(x)
  PROVE  g \in Ahead(x)'
<1>1. \A S \in SUBSET Hooks :
        x \in S /\ (\A k \in S : next[k] \in S \cup {Nil}) => g \in S
  BY DEF Ahead
<1>2. ASSUME NEW S \in SUBSET Hooks, x \in S, \A k \in S : next'[k] \in S \cup {Nil}
      PROVE  g \in S
  <2> DEFINE T == S \cap R
  <2>1. T \in SUBSET Hooks /\ x \in T /\ \A k \in T : next[k] \in T \cup {Nil}
    BY <1>2 DEF Closed
  <2> HIDE DEF T
  <2>2. g \in T
    BY <2>1, <1>1
  <2>3. QED BY <2>2 DEF T
<1>3. g \in Hooks
  BY DEF Ahead
<1>4. QED BY <1>2, <1>3 DEF Ahead

LEMMA AheadPasses ==
  ASSUME NEW h \in Hooks, NEW x \in Hooks, NEW g \in Ahead(x), g # h,
         \A k \in Hooks : next'[k] = next[k] \/ (next[k] = h /\ next'[k] = next[h])
  PROVE  g \in Ahead(x)'
<1>1. \A S \in SUBSET Hooks :
        x \in S /\ (\A k \in S : next[k] \in S \cup {Nil}) => g \in S
  BY DEF Ahead
<1>2. ASSUME NEW S \in SUBSET Hooks, x \in S, \A k \in S : next'[k] \in S \cup {Nil}
      PROVE  g \in S
  <2>1. CASE \A k \in S : next[k] # h
    <3>1. \A k \in S : next[k] \in S \cup {Nil}
      BY <1>2, <2>1
    <3> QED  BY <1>1, <1>2, <3>1
  <2>2. CASE \E k \in S : next[k] = h
    <3> DEFINE T == S \cup {h}
    <3>1. next[h] \in T \cup {Nil}
      <4>1. PICK k \in S : next[k] = h
        BY <2>2
      <4>3. CASE h \in S
        <5>1. next'[h] = next[h]
          BY <4>1
        <5>2. next'[h] \in S \cup {Nil}
          BY <1>2, <4>3
        <5> QED  BY <5>1, <5>2
      <4>4. CASE h \notin S
        <5>1. next'[k] \in S \cup {Nil} /\ (next'[k] = h \/ next'[k] = next[h])
          BY <1>2, <4>1
        <5>2. next'[k] = h => next[h] \in T \cup {Nil} \/ h = Nil
          BY <4>4, <5>1
        <5>3. h # Nil
          BY HookAssumption
        <5> QED  BY <5>1, <5>2, <5>3
      <4> QED  BY <4>3, <4>4
    <3>2. \A k \in S : next[k] \in T \cup {Nil}
      BY <1>2
    <3>3. T \in SUBSET Hooks /\ x \in T /\ \A k \in T : next[k] \in T \cup {Nil}
      BY <1>2, <3>1, <3>2
    <3> HIDE DEF T
    <3>4. g \in T
      BY <1>1, <3>3
    <3> QED  BY <3>4 DEF T
  <2> QED  BY <2>1, <2>2
<1>3. g \in Hooks
  BY DEF Ahead
<1> QED  BY <1>2, <1>3 DEF Ahead

(* A step that loads and frees nothing keeps Healed if whoever is not      *)
(* patched after it was bound and not patched before it, and on the way to *)
(* be patched by the same threads.                                         *)
LEMMA HealedKept ==
  ASSUME Healed, Unset', UNCHANGED <<loaded, missed, heals>>, HookTypeOK,
         \A g \in Hooks, m \in loaded :
           Bound(g, m)' /\ ~Done(g, m)' => Bound(g, m) /\ ~Done(g, m),
         \A t \in Threads, g \in Hooks, m \in loaded :
           tpc'[t] # "idle" /\ Bound(g, m)' /\ ~Done(g, m)' =>
             tpc[t] # "idle" /\ (Coming(t, g, m) => Coming(t, g, m)')
  PROVE  Healed'
<1>1. HealsLoaded'
  BY DEF Healed, HealsLoaded
<1>2. CaughtUp'
  BY DEF Healed, CaughtUp
<1>3. FollowedUp'
  <2> SUFFICES ASSUME NEW t \in Threads, NEW h \in Hooks, NEW m \in heals'[t],
                      tpc'[t] # "idle", Bound(h, m)', ~Done(h, m)'
               PROVE  Coming(t, h, m)'
    BY DEF FollowedUp
  <2>1. m \in heals[t] /\ m \in loaded
    BY DEF Healed, HealsLoaded
  <2>2. Bound(h, m) /\ ~Done(h, m)
    BY <2>1
  <2>3. tpc[t] # "idle" /\ (Coming(t, h, m) => Coming(t, h, m)')
    BY <2>1
  <2>4. Coming(t, h, m)
    BY <2>1, <2>2, <2>3 DEF Healed, FollowedUp
  <2>5. QED BY <2>3, <2>4
<1>4. QED BY <1>1, <1>2, <1>3 DEF Healed

LEMMA SameWalk ==
  ASSUME UNCHANGED <<walkers, next>>, NEW t \in Threads, NEW h \in Hooks, NEW m
  PROVE  Coming(t, h, m)' <=> Coming(t, h, m)
BY DEF Coming, Ahead, walkers

LEMMA ConstructHeals ==
  ASSUME NEW h \in Hooks, HookInv, Healed, Construct(h)
  PROVE  Healed'
<1>1. /\ UNCHANGED <<loaded, iat, denied, orig, todo, walkers, missed, raced>>
      /\ life[h] = "unborn" /\ Become(h, "linked") /\ next' = [next EXCEPT ![h] = head]
  BY DEF Construct, tables
<1>2. /\ life' \in [Hooks -> Life] /\ life'[h] = "linked"
      /\ \A g \in Hooks : g # h => life'[g] = life[g]
  BY <1>1, LifeMoves DEF HookInv, Life
<1>3. Unset'
  BY <1>1, <1>2 DEF Healed, Unset
<1>4. \A f : Gone(f)' <=> Gone(f)
  BY <1>1, <1>2 DEF Gone
<1>5. \A g \in Hooks, m \in loaded :
        Bound(g, m)' /\ ~Done(g, m)' => Bound(g, m) /\ ~Done(g, m)
  BY <1>1, <1>2, <1>4 DEF Bound, Done, Patchable
<1>6. ASSUME NEW t \in Threads, NEW g \in Hooks, NEW m \in loaded, Coming(t, g, m)
      PROVE  Coming(t, g, m)'
  <2>1. PICK R \in SUBSET (Linked \cup raced) : cur[t] \in R \cup {Nil} /\ Closed(R)
    BY DEF HookInv, Walkers
  <2>2. h \notin Linked \cup raced
    BY <1>1 DEF Linked, HookInv, Overlaps
  <2>3. R \in SUBSET Hooks /\ \A k \in R : next'[k] = next[k]
    BY <1>1, <2>2 DEF HookInv, HookTypeOK, Linked
  <2>4. g \in Ahead(cur[t])
    BY <1>6 DEF Coming
  <2>5. cur'[t] = cur[t] /\ tpc' = tpc /\ left' = left
    BY <1>1 DEF walkers
  <2>6. \A x \in R : \A k \in Ahead(x) : k \in Ahead(x)'
    BY <2>1, <2>3, AheadGrows
  <2>9. cur[t] \in R
    BY <1>6, <2>1 DEF Coming, HookInv, Walkers
  <2>7. g \in Ahead(cur[t])'
    BY <2>9, <2>4, <2>5, <2>6 DEF Ahead
  <2>8. QED BY <1>6, <2>5, <2>7 DEF Coming
<1>7. \A t \in Threads, g \in Hooks, m \in loaded :
        tpc'[t] # "idle" /\ Bound(g, m)' /\ ~Done(g, m)' =>
          tpc[t] # "idle" /\ (Coming(t, g, m) => Coming(t, g, m)')
  BY <1>1, <1>6 DEF walkers
<1>8. UNCHANGED <<loaded, missed, heals>> /\ HookTypeOK
  BY <1>1 DEF walkers, HookInv
<1>9. QED BY <1>3, <1>5, <1>7, <1>8, HealedKept

(* A step of one object that leaves the list alone. *)
LEMMA ObjectHeals ==
  ASSUME HookInv, Healed, Unset', UNCHANGED <<loaded, missed, walkers, next>>,
         \A g \in Hooks, m \in loaded :
           Bound(g, m)' /\ ~Done(g, m)' => Bound(g, m) /\ ~Done(g, m)
  PROVE  Healed'
<1>1. \A t \in Threads, g \in Hooks, m \in loaded :
        tpc'[t] # "idle" /\ Bound(g, m)' /\ ~Done(g, m)' =>
          tpc[t] # "idle" /\ (Coming(t, g, m) => Coming(t, g, m)')
  BY SameWalk DEF walkers
<1>2. UNCHANGED <<loaded, missed, heals>> /\ HookTypeOK
  BY DEF walkers, HookInv
<1>3. QED BY <1>1, <1>2, HealedKept

LEMMA FindOriginalHeals ==
  ASSUME NEW h \in Hooks, HookInv, Healed, FindOriginal(h)
  PROVE  Healed'
<1>0. FindOriginalEffect(h)
  BY FindOriginalMoves
<1> USE DEF FindOriginalEffect
<1>1. orig[h] = Nil
  BY <1>0 DEF Healed, Unset
<1>2. Unset'
  BY <1>0 DEF Healed, Unset
<1>3. \A f : Gone(f)' <=> Gone(f)
  BY <1>0 DEF Gone
<1>4. Target[h] # Nil
  BY HookAssumption
<1>5. \A m : ~Bound(h, m)'
  BY <1>0, <1>1, <1>4 DEF Bound
<1>6. \A g \in Hooks, m \in loaded :
        Bound(g, m)' /\ ~Done(g, m)' => Bound(g, m) /\ ~Done(g, m)
  BY <1>0, <1>3, <1>5 DEF Bound, Done, Patchable
<1>7. UNCHANGED <<loaded, missed, walkers, next>>
  BY <1>0
<1>8. QED BY <1>2, <1>6, <1>7, ObjectHeals

LEMMA BeginPatchHeals ==
  ASSUME NEW h \in Hooks, HookInv, Healed, BeginPatch(h)
  PROVE  Healed'
<1>1. /\ UNCHANGED <<loaded, iat, denied, head, next, orig, walkers, missed>>
      /\ life[h] = "found" /\ Become(h, "patching") /\ todo' = Snapshot(h)
  BY DEF BeginPatch, tables
<1>2. /\ life' \in [Hooks -> Life] /\ life'[h] = "patching"
      /\ \A g \in Hooks : g # h => life'[g] = life[g]
  BY <1>1, LifeMoves DEF HookInv, Life
<1>3. Unset'
  BY <1>1, <1>2 DEF Healed, Unset
<1>4. \A f : Gone(f)' <=> Gone(f)
  BY <1>1, <1>2 DEF Gone
<1>5. \A g \in Hooks : g # h => life[g] # "patching"
  BY <1>1 DEF HookInv, OneAtATime, Settled
<1>6. \A m \in loaded : Bound(h, m)' => Done(h, m)'
  BY <1>1, <1>2 DEF Bound, Done, Patchable, Snapshot
<1>7. \A g \in Hooks \ {h}, m \in loaded :
        Bound(g, m)' /\ ~Done(g, m)' => Bound(g, m) /\ ~Done(g, m)
  BY <1>1, <1>2, <1>4, <1>5 DEF Bound, Done, Patchable
<1>8. \A g \in Hooks, m \in loaded :
        Bound(g, m)' /\ ~Done(g, m)' => Bound(g, m) /\ ~Done(g, m)
  BY <1>6, <1>7
<1>9. UNCHANGED <<loaded, missed, walkers, next>>
  BY <1>1
<1>10. QED BY <1>3, <1>8, <1>9, ObjectHeals

LEMMA PatchHeals ==
  ASSUME NEW h \in Hooks, HookInv, Healed, Patch(h)
  PROVE  Healed'
<1>0. PatchEffect(h)
  BY PatchMoves
<1> USE DEF PatchEffect
<1>1. Unset'
  BY <1>0 DEF Healed, Unset
<1>2. \A f : Gone(f)' <=> Gone(f)
  BY <1>0 DEF Gone
<1>3. orig[h] = Target[h] /\ h \notin Functions
  BY <1>0, HookAssumption DEF HookInv, Originals
<1>4. \A g \in Hooks : g # h => life[g] # "patching" /\ life'[g] # "patching"
  BY <1>0 DEF HookInv, OneAtATime, Settled
<1>5. \A m \in loaded, g \in Hooks : iat[m][Target[g]] # Target[g] => iat'[m][Target[g]] # Target[g]
  <2>1. \A g \in Hooks : Target[g] \in Functions
    BY HookAssumption
  <2>2. loaded \subseteq Modules
    BY DEF HookInv, HookTypeOK
  <2>3. QED BY <1>0, <1>3, <2>1, <2>2
<1>11. \A m \in loaded, g \in Hooks : Target[g] \in denied[m] => Target[g] \in denied'[m]
  BY <1>0 DEF MoreDenied, HookInv, HookTypeOK
<1>6. \A m \in loaded : Done(h, m) => Done(h, m)'
  BY <1>0, <1>3, <1>5, <1>11 DEF Done
<1>7. \A g \in Hooks \ {h}, m \in loaded : Done(g, m) => Done(g, m)'
  BY <1>4, <1>5, <1>11 DEF Done
<1>8. \A g \in Hooks, m \in loaded : Bound(g, m)' => Bound(g, m)
  BY <1>0, <1>2 DEF Bound, Patchable
<1>9. UNCHANGED <<loaded, missed, walkers, next>>
  BY <1>0
<1>10. QED BY <1>1, <1>6, <1>7, <1>8, <1>9, ObjectHeals

LEMMA DestroyHeals ==
  ASSUME NEW h \in Hooks, HookInv, Healed, Destroy(h)
  PROVE  Healed'
<1>1. /\ UNCHANGED <<loaded, iat, denied, head, next, orig, walkers, missed>>
      /\ life[h] = "alive" /\ Become(h, "restoring") /\ \A g \in Hooks : Settled(g)
  BY DEF Destroy, tables
<1>2. /\ life' \in [Hooks -> Life] /\ life'[h] = "restoring"
      /\ \A g \in Hooks : g # h => life'[g] = life[g]
  BY <1>1, LifeMoves DEF HookInv, Life
<1>3. Unset'
  BY <1>1, <1>2 DEF Healed, Unset
<1>4. \A f : Gone(f) => Gone(f)'
  BY <1>1, <1>2 DEF Gone
<1>5. \A g \in Hooks : life[g] # "patching"
  BY <1>1 DEF Settled
<1>6. \A g \in Hooks, m \in loaded :
        Bound(g, m)' /\ ~Done(g, m)' => Bound(g, m) /\ ~Done(g, m)
  BY <1>1, <1>2, <1>4, <1>5 DEF Bound, Done, Patchable
<1>7. UNCHANGED <<loaded, missed, walkers, next>>
  BY <1>1
<1>8. QED BY <1>3, <1>6, <1>7, ObjectHeals

LEMMA RestoreHeals ==
  ASSUME NEW h \in Hooks, HookInv, Healed, Restore(h)
  PROVE  Healed'
<1>0. RestoreEffect(h)
  BY RestoreMoves
<1> USE DEF RestoreEffect
<1>1. Unset'
  BY <1>0 DEF Healed, Unset
<1>2. /\ \A f : Gone(f) => Gone(f)'
      /\ Gone(Target[h])'
  BY <1>0 DEF Gone
<1>3. \A g \in Hooks : life[g] # "patching"
  BY <1>0 DEF HookInv, OneAtATime, Settled
<1>4. \A g \in Hooks, m \in loaded : Target[g] # Target[h] => iat'[m][Target[g]] = iat[m][Target[g]]
  <2>1. \A g \in Hooks : Target[g] \in Functions
    BY HookAssumption
  <2>2. loaded \subseteq Modules
    BY DEF HookInv, HookTypeOK
  <2>3. QED BY <1>0, <2>1, <2>2
<1>9. \A m \in loaded, g \in Hooks : Target[g] \in denied[m] => Target[g] \in denied'[m]
  BY <1>0 DEF MoreDenied, HookInv, HookTypeOK
<1>5. \A m : \A g \in Hooks : Bound(g, m)' => Bound(g, m) /\ Target[g] # Target[h]
  BY <1>0, <1>2 DEF Bound, Patchable
<1>6. \A g \in Hooks, m \in loaded :
        Bound(g, m)' /\ ~Done(g, m)' => Bound(g, m) /\ ~Done(g, m)
  BY <1>3, <1>4, <1>5, <1>9 DEF Done
<1>7. UNCHANGED <<loaded, missed, walkers, next>>
  BY <1>0
<1>8. QED BY <1>1, <1>6, <1>7, ObjectHeals

LEMMA UnlinkHeals ==
  ASSUME NEW h \in Hooks, HookInv, Healed, Unlink(h)
  PROVE  Healed'
<1>0. UnlinkEffect(h)
  BY UnlinkMoves
<1> USE DEF UnlinkEffect
<1>1. Unset'
  BY <1>0 DEF Healed, Unset
<1>2. \A f : Gone(f) => Gone(f)'
  BY <1>0 DEF Gone
<1>3. \A g \in Hooks, m \in loaded :
        Bound(g, m)' /\ ~Done(g, m)' => Bound(g, m) /\ ~Done(g, m)
  <2>1. \A m : ~Bound(h, m)'
    BY <1>0 DEF Bound
  <2>2. \A g \in Hooks \ {h}, m \in loaded :
          Bound(g, m)' /\ ~Done(g, m)' => Bound(g, m) /\ ~Done(g, m)
    BY <1>0, <1>2 DEF Bound, Done, Patchable, tables
  <2>3. QED BY <2>1, <2>2
<1>8. \A k \in Hooks : next'[k] = next[k] \/ (next[k] = h /\ next'[k] = next[h])
  BY DEF Unlink
<1>4. ASSUME NEW t \in Threads, NEW g \in Hooks, NEW m, g # h, Coming(t, g, m)
      PROVE  Coming(t, g, m)'
  <2>1. cur[t] \in Hooks /\ g \in Ahead(cur[t])
    BY <1>4 DEF Coming, HookInv, HookTypeOK, Walkers
  <2>2. \A x \in Hooks : \A k \in Ahead(x) : k # h => k \in Ahead(x)'
    BY <1>8, AheadPasses
  <2>3. cur'[t] = cur[t] /\ tpc' = tpc /\ left' = left
    BY <1>0 DEF walkers
  <2>4. g \in Ahead(cur[t])'
    BY <1>4, <2>1, <2>2, <2>3 DEF Ahead
  <2> QED  BY <1>4, <2>3, <2>4 DEF Coming
<1>9. \A m : ~Bound(h, m)'
  BY <1>0 DEF Bound
<1>5. \A t \in Threads, g \in Hooks, m \in loaded :
        tpc'[t] # "idle" /\ Bound(g, m)' /\ ~Done(g, m)' =>
          tpc[t] # "idle" /\ (Coming(t, g, m) => Coming(t, g, m)')
  BY <1>0, <1>4, <1>9 DEF walkers
<1>6. UNCHANGED <<loaded, missed, heals>> /\ HookTypeOK
  BY <1>0 DEF walkers, HookInv
<1>7. QED BY <1>1, <1>3, <1>5, <1>6, HealedKept

(* A thread goes on to the next hook; one that found its function it       *)
(* patches for, one that did not has nothing to patch; at the end all that *)
(* were missed when its load began are made up for.                        *)
LEMMA WalkHeals ==
  ASSUME NEW t \in Threads, HookInv, Healed, Walk(t)
  PROVE  Healed'
<1>0. WalkEffect(t)
  BY WalkMoves
<1> USE DEF WalkEffect
<1>1. UNCHANGED <<loaded, iat, denied, objects>> /\ tpc[t] = "walk"
  BY <1>0 DEF tables
<1>2. Unset'
  BY <1>1 DEF Healed, Unset, objects
<1>3. HealsLoaded'
  BY <1>0 DEF Healed, HealsLoaded
<1>4. \A m : \A g \in Hooks : /\ Bound(g, m)' <=> Bound(g, m)
                              /\ Done(g, m)' <=> Done(g, m)
  BY <1>1 DEF Bound, Done, Gone, Patchable, objects
<1>5. \A h : Ahead(h)' = Ahead(h)
  BY <1>1 DEF Ahead, objects
<1>6. CaughtUp'
  <2> SUFFICES ASSUME NEW m \in loaded', m \notin missed', NEW g \in Hooks, Bound(g, m)'
               PROVE  Done(g, m)'
    BY DEF CaughtUp
  <2>1. m \in loaded /\ Bound(g, m)
    BY <1>1, <1>4
  <2>2. CASE m \in missed
    <3>1. cur[t] = Nil /\ m \in heals[t]
      BY <1>0, <2>2
    <3>2. Done(g, m) \/ Coming(t, g, m)
      BY <1>1, <2>1, <3>1 DEF Healed, FollowedUp
    <3>3. ~Coming(t, g, m)
      BY <1>1, <3>1 DEF Coming
    <3>4. QED BY <1>4, <3>2, <3>3
  <2>3. CASE m \notin missed
    BY <1>4, <2>1, <2>3 DEF Healed, CaughtUp
  <2>4. QED BY <2>2, <2>3
<1>7. FollowedUp'
  <2> SUFFICES ASSUME NEW u \in Threads, NEW g \in Hooks, NEW m \in heals'[u],
                      tpc'[u] # "idle", Bound(g, m)', ~Done(g, m)'
               PROVE  Coming(u, g, m)'
    BY DEF FollowedUp
  <2>1. Bound(g, m) /\ ~Done(g, m)
    BY <1>4
  <2>2. CASE u # t
    <3>1. tpc'[u] = tpc[u] /\ cur'[u] = cur[u] /\ left'[u] = left[u] /\ m \in heals[u]
      BY <1>0, <2>2
    <3>2. Coming(u, g, m)
      BY <2>1, <3>1 DEF Healed, FollowedUp
    <3>3. QED BY <1>5, <3>1, <3>2 DEF Coming
  <2>3. CASE u = t
    <3>1. cur[t] # Nil /\ heals' = heals /\ cur[t] \in Hooks
      BY <1>0, <2>3 DEF HookInv, HookTypeOK
    <3>2. m \in heals[t] /\ m \in loaded
      BY <2>3, <3>1 DEF Healed, HealsLoaded
    <3>3. Coming(t, g, m)
      BY <1>1, <2>1, <3>2 DEF Healed, FollowedUp
    <3>4. g \in Ahead(cur[t])
      BY <3>3 DEF Coming
    <3>5. CASE orig[cur[t]] = Nil
      <4>1. tpc'[t] = "walk" /\ cur'[t] = next[cur[t]]
        BY <1>0, <3>1, <3>5 DEF HookInv, HookTypeOK
      <4>2. g # cur[t]
        BY <2>1, <3>5, HookAssumption DEF Bound
      <4>3. next[cur[t]] # Nil /\ g \in Ahead(next[cur[t]])
        BY <3>1, <3>4, <4>2, AheadStep
      <4>4. g \in Ahead(cur'[t])
        BY <4>1, <4>3
      <4>5. g \in Ahead(cur[t])'
        BY <1>5, <4>4 DEF Ahead, objects
      <4>6. QED BY <2>3, <4>1, <4>3, <4>5 DEF Coming
    <3>6. CASE orig[cur[t]] # Nil
      <4>1. tpc'[t] = "patch" /\ cur' = cur /\ left'[t] = Snapshot(cur[t])
        BY <1>0, <3>1, <3>6
      <4>2. g = cur[t] => m \in left'[t]
        BY <2>1, <3>2, <4>1 DEF Bound, Patchable, Snapshot
      <4>3. g \in Ahead(cur[t])'
        BY <1>1, <3>4, <4>1 DEF Ahead, objects
      <4>4. QED BY <2>3, <4>1, <4>2, <4>3 DEF Coming
    <3>7. QED BY <3>5, <3>6
  <2>4. QED BY <2>2, <2>3
<1>8. QED BY <1>2, <1>3, <1>6, <1>7 DEF Healed

(* It patches the modules for the hook it is at, then leaves the hook. *)
LEMMA WalkPatchHeals ==
  ASSUME NEW t \in Threads, HookInv, Healed, WalkPatch(t)
  PROVE  Healed'
<1>0. WalkPatchEffect(t)
  BY WalkPatchMoves
<1> USE DEF WalkPatchEffect
<1>1. UNCHANGED <<loaded, objects, missed, heals>> /\ tpc[t] = "patch"
  BY <1>0
<1>2. Unset'
  BY <1>1 DEF Healed, Unset, objects
<1>3. \A m : \A g \in Hooks : Bound(g, m)' <=> Bound(g, m)
  BY <1>1 DEF Bound, Gone, Patchable, objects
<1>4. \A m \in loaded, g \in Hooks : Done(g, m) => Done(g, m)'
  <2>1. \A g \in Hooks : Target[g] \in Functions /\ g \notin Functions
    BY HookAssumption
  <2>2. loaded \subseteq Modules
    BY DEF HookInv, HookTypeOK
  <2>3. \A m \in loaded, g \in Hooks : iat[m][Target[g]] # Target[g] => iat'[m][Target[g]] # Target[g]
    BY <1>0, <2>1, <2>2
  <2>4. \A m \in loaded, g \in Hooks : Target[g] \in denied[m] => Target[g] \in denied'[m]
    BY <1>0, <2>2 DEF MoreDenied
  <2>5. QED BY <1>1, <2>3, <2>4 DEF Done, objects
<1>5. next' = next
  BY <1>1 DEF objects
<1>6. \A u \in Threads, g \in Hooks, m \in loaded :
        tpc'[u] # "idle" /\ Bound(g, m)' /\ ~Done(g, m)' =>
          tpc[u] # "idle" /\ (Coming(u, g, m) => Coming(u, g, m)')
  <2> SUFFICES ASSUME NEW u \in Threads, NEW g \in Hooks, NEW m \in loaded,
                      tpc'[u] # "idle", Bound(g, m)', ~Done(g, m)'
               PROVE  tpc[u] # "idle" /\ (Coming(u, g, m) => Coming(u, g, m)')
    OBVIOUS
  <2>1. CASE u # t
    <3>1. tpc'[u] = tpc[u] /\ cur'[u] = cur[u] /\ left'[u] = left[u]
      BY <1>0, <2>1
    <3>2. QED BY <1>5, <3>1 DEF Coming, Ahead
  <2>2. CASE u = t
    <3> SUFFICES ASSUME Coming(t, g, m)
                 PROVE  Coming(t, g, m)'
      BY <1>1, <2>2
    <3>1. g \in Ahead(cur[t]) /\ (g = cur[t] => m \in left[t])
      BY <1>1 DEF Coming
    <3>2. CASE tpc'[t] = "patch" /\ cur'[t] = cur[t]
      <4>1. g = cur[t] => m \in left'[t]
        <5>1. g = cur[t] => /\ iat'[m][Target[cur[t]]] = Target[cur[t]]
                            /\ Target[cur[t]] \notin denied'[m]
          BY DEF Done
        <5>2. QED BY <1>0, <3>1, <5>1
      <4>2. g \in Ahead(cur[t])'
        BY <1>5, <3>1, <3>2 DEF Ahead
      <4>3. QED BY <3>2, <4>1, <4>2 DEF Coming
    <3>3. CASE tpc'[t] = "walk" /\ cur'[t] = next[cur[t]] /\ left[t] = {}
      <4>1. g # cur[t] /\ cur[t] \in Hooks
        BY <1>0, <3>1, <3>3
      <4>2. next[cur[t]] # Nil /\ g \in Ahead(next[cur[t]])
        BY <3>1, <4>1, AheadStep
      <4>3. g \in Ahead(cur[t])'
        BY <1>5, <3>3, <4>2 DEF Ahead
      <4>4. QED BY <3>3, <4>2, <4>3 DEF Coming
    <3>4. QED BY <1>0, <3>2, <3>3
  <2>3. QED BY <2>1, <2>2
<1>7. HookTypeOK
  BY DEF HookInv
<1>8. UNCHANGED <<loaded, missed, heals>>
  BY <1>1
<1>9. QED BY <1>2, <1>3, <1>4, <1>6, <1>7, <1>8, HealedKept

(* Modules arrive unpatched, and are missed. *)
ArriveEffect(m) ==
  /\ loaded \subseteq loaded' /\ loaded' = loaded \cup Arriving(m)
  /\ missed' = missed \cup Arriving(m)
  /\ \A k \in loaded : iat'[k] = iat[k]
  /\ UNCHANGED <<objects, denied>>

LEMMA ArriveMoves ==
  ASSUME NEW m \in Modules, HookInv, Arrive(m), missed' = missed \cup Arriving(m),
         UNCHANGED <<objects, denied>>
  PROVE  ArriveEffect(m)
BY DEF Arrive, Arriving, ArriveEffect, HookInv, HookTypeOK

LEMMA ArriveHeals ==
  ASSUME NEW m \in Modules, HookInv, Healed, ArriveEffect(m)
  PROVE  /\ Unset' /\ CaughtUp'
         /\ \A k \in loaded, g \in Hooks : /\ Bound(g, k)' <=> Bound(g, k)
                                           /\ Done(g, k)' <=> Done(g, k)
         /\ \A h : Ahead(h)' = Ahead(h)
<1> USE DEF ArriveEffect
<1>1. Unset'
  BY DEF Healed, Unset, objects
<1>2. \A k \in loaded, g \in Hooks : /\ Bound(g, k)' <=> Bound(g, k)
                                     /\ Done(g, k)' <=> Done(g, k)
  BY DEF Bound, Done, Gone, Patchable, objects
<1>3. CaughtUp'
  BY <1>2 DEF Healed, CaughtUp
<1>4. \A h : Ahead(h)' = Ahead(h)
  BY DEF Ahead, objects
<1>5. QED BY <1>1, <1>2, <1>3, <1>4

LEMMA LoadPastHeals ==
  ASSUME NEW m \in Modules, HookInv, Healed, LoadPast(m)
  PROVE  Healed'
<1>0. ArriveEffect(m) /\ UNCHANGED walkers
  BY ArriveMoves DEF LoadPast
<1>1. /\ Unset' /\ CaughtUp'
      /\ \A k \in loaded, g \in Hooks : /\ Bound(g, k)' <=> Bound(g, k)
                                        /\ Done(g, k)' <=> Done(g, k)
      /\ \A h : Ahead(h)' = Ahead(h)
  BY <1>0, ArriveHeals
<1>2. HealsLoaded'
  BY <1>0 DEF Healed, HealsLoaded, ArriveEffect, walkers
<1>3. FollowedUp'
  <2> SUFFICES ASSUME NEW u \in Threads, NEW g \in Hooks, NEW k \in heals'[u],
                      tpc'[u] # "idle", Bound(g, k)', ~Done(g, k)'
               PROVE  Coming(u, g, k)'
    BY DEF FollowedUp
  <2>1. tpc' = tpc /\ cur' = cur /\ left' = left /\ heals' = heals /\ next' = next
    BY <1>0 DEF walkers, ArriveEffect, objects
  <2>2. k \in heals[u] /\ k \in loaded
    BY <2>1 DEF Healed, HealsLoaded
  <2>3. Bound(g, k) /\ ~Done(g, k)
    BY <1>1, <2>2
  <2>4. Coming(u, g, k)
    BY <2>1, <2>2, <2>3 DEF Healed, FollowedUp
  <2>5. QED BY <2>1, <2>4 DEF Coming, Ahead
<1>4. QED BY <1>1, <1>2, <1>3 DEF Healed

(* The thread that follows up the load begins at the head, behind which    *)
(* every hook is that could be bound to a module missed so far.            *)
LEMMA LoadCaughtHeals ==
  ASSUME NEW t \in Threads, NEW caller \in Modules, NEW m \in Modules, HookInv,
         ListInv, Healed, LoadCaught(t, caller, m)
  PROVE  Healed'
<1>0. /\ ArriveEffect(m) /\ left' = left
      /\ tpc' = [tpc EXCEPT ![t] = "walk"] /\ cur' = [cur EXCEPT ![t] = head]
      /\ heals' = [heals EXCEPT ![t] = missed \cup Arriving(m)]
  BY ArriveMoves DEF LoadCaught
<1>1. /\ Unset' /\ CaughtUp'
      /\ \A k \in loaded, g \in Hooks : /\ Bound(g, k)' <=> Bound(g, k)
                                        /\ Done(g, k)' <=> Done(g, k)
      /\ \A h : Ahead(h)' = Ahead(h)
  BY <1>0, ArriveHeals
<1>2. /\ tpc'[t] = "walk" /\ cur'[t] = head /\ heals'[t] = missed \cup Arriving(m)
      /\ \A u \in Threads : u # t => /\ tpc'[u] = tpc[u] /\ cur'[u] = cur[u]
                                     /\ heals'[u] = heals[u]
      /\ next' = next /\ life' = life
  BY <1>0 DEF HookInv, HookTypeOK, ArriveEffect, objects
<1>3. HealsLoaded'
  BY <1>0, <1>2 DEF Healed, HealsLoaded, ArriveEffect, HookInv, HookTypeOK
<1>4. FollowedUp'
  <2> SUFFICES ASSUME NEW u \in Threads, NEW g \in Hooks, NEW k \in heals'[u],
                      tpc'[u] # "idle", Bound(g, k)', ~Done(g, k)'
               PROVE  Coming(u, g, k)'
    BY DEF FollowedUp
  <2>1. CASE u # t
    <3>1. k \in heals[u] /\ k \in loaded
      BY <1>2, <2>1 DEF Healed, HealsLoaded
    <3>2. Bound(g, k) /\ ~Done(g, k)
      BY <1>1, <3>1
    <3>3. Coming(u, g, k)
      BY <1>2, <2>1, <3>1, <3>2 DEF Healed, FollowedUp
    <3>4. QED BY <1>0, <1>2, <2>1, <3>3 DEF Coming, Ahead
  <2>2. CASE u = t
    <3>1. g \in Linked
      BY <1>2 DEF Bound, Linked
    <3>2. head # Nil /\ g \in Ahead(head)
      BY <3>1, AheadOfHead
    <3>3. g \in Ahead(cur[t])'
      BY <1>2, <3>2 DEF Ahead
    <3>4. QED BY <1>2, <2>2, <3>2, <3>3 DEF Coming
  <2>3. QED BY <2>1, <2>2
<1>5. QED BY <1>1, <1>3, <1>4 DEF Healed

LEMMA FreeHeals ==
  ASSUME NEW m \in Modules, HookInv, Healed, Free(m)
  PROVE  Healed'
<1>1. /\ loaded' = loaded \ {m} /\ missed' = missed \ {m}
      /\ heals' = [u \in Threads |-> heals[u] \ {m}]
      /\ UNCHANGED <<iat, objects, tpc, cur, left>>
      /\ \A k \in Modules : k # m => denied'[k] = denied[k]
  BY DEF Free, HookInv, HookTypeOK
<1>2. Unset' /\ HealsLoaded'
  BY <1>1 DEF Healed, Unset, HealsLoaded, objects
<1>3. \A k \in Modules \ {m}, g \in Hooks :
        (Bound(g, k)' <=> Bound(g, k)) /\ (Done(g, k)' <=> Done(g, k))
  BY <1>1 DEF Bound, Done, Gone, Patchable, objects
<1>4. CaughtUp'
  <2> SUFFICES ASSUME NEW k \in loaded \ {m}, k \notin missed, NEW g \in Hooks, Bound(g, k)'
               PROVE  Done(g, k)'
    BY <1>1 DEF CaughtUp
  <2>1. k \in Modules \ {m}
    BY DEF HookInv, HookTypeOK
  <2>2. Bound(g, k)
    BY <1>3, <2>1
  <2>3. Done(g, k)
    BY <2>2 DEF Healed, CaughtUp
  <2> QED  BY <1>3, <2>1, <2>3
<1>5. \A u \in Threads : \A g, k : Coming(u, g, k)' <=> Coming(u, g, k)
  BY <1>1 DEF Coming, Ahead, objects
<1>6. FollowedUp'
  <2> SUFFICES ASSUME NEW u \in Threads, NEW g \in Hooks, NEW k \in heals'[u],
                      tpc'[u] # "idle", Bound(g, k)'
               PROVE  Done(g, k)' \/ Coming(u, g, k)'
    BY DEF FollowedUp
  <2>1. k \in heals[u] /\ k \in Modules \ {m} /\ tpc[u] # "idle"
    BY <1>1 DEF HookInv, HookTypeOK
  <2>2. Bound(g, k)
    BY <1>3, <2>1
  <2>3. Done(g, k) \/ Coming(u, g, k)
    BY <2>1, <2>2 DEF Healed, FollowedUp
  <2> QED  BY <1>3, <1>5, <2>1, <2>3
<1>7. QED BY <1>2, <1>4, <1>6 DEF Healed

LEMMA StepHeals ==
  ASSUME HookInv, ListInv, Healed, [Next]_vars
  PROVE  Healed'
<1>1. CASE \E h \in Hooks : Construct(h) \/ Destroy(h) \/ Object(h)
  BY <1>1, ConstructHeals, DestroyHeals, FindOriginalHeals, BeginPatchHeals, PatchHeals,
     RestoreHeals, UnlinkHeals DEF Object
<1>2. CASE \E t \in Threads : Thread(t)
  BY <1>2, WalkHeals, WalkPatchHeals DEF Thread
<1>3. CASE \E t \in Threads, caller, m \in Modules : LoadCaught(t, caller, m)
  BY <1>3, LoadCaughtHeals
<1>4. CASE \E m \in Modules : LoadPast(m) \/ Free(m)
  BY <1>4, LoadPastHeals, FreeHeals
<1>5. CASE UNCHANGED vars
  BY <1>5 DEF vars, Healed, Unset, HealsLoaded, CaughtUp, FollowedUp, Bound, Done, Gone,
              Patchable, Coming, Ahead
<1>6. QED BY <1>1, <1>2, <1>3, <1>4, <1>5 DEF Next

LEMMA InitHealed == Init => Healed
BY DEF Init, Healed, Unset, HealsLoaded, CaughtUp, FollowedUp, Bound

(* GetProcAddress leads to a hook exactly if a linked hook has the address. *)
LEMMA GetProcAddressHooks ==
  ASSUME ListIntact, NEW f \in Functions
  PROVE  GetProcAddress(f) \in Hooks <=> \E h \in Linked : orig[h] = f
<1> DEFINE found == {i \in Places : chain[i] # Nil /\ orig[chain[i]] = f}
<1>1. /\ \A i \in Places : chain[i] # Nil => chain[i] \in Linked
      /\ \A h \in Linked : \E i \in Places : chain[i] # Nil /\ chain[i] = h
  BY DEF ListIntact
<1>2. f \notin Hooks /\ Linked \subseteq Hooks
  BY HookAssumption DEF Linked
<1>3. found # {} <=> \E h \in Linked : orig[h] = f
  BY <1>1
<1>4. CASE found = {}
  <2>1. GetProcAddress(f) = f
    BY <1>4 DEF GetProcAddress
  <2>2. QED BY <1>2, <1>3, <1>4, <2>1
<1>5. CASE found # {}
  <2>1. found \subseteq Nat
    BY FS_CardinalityType, HookAssumption DEF Places
  <2>2. PICK b \in found : \A j \in found : ~(<<j, b>> \in OpToRel(<, Nat))
    BY <1>5, <2>1, NatLessThanWellFounded, WFMin
  <2>3. \A j \in found : b <= j
    <3> HIDE DEF found
    <3>1. \A j \in found : ~(j < b)
      BY <2>1, <2>2 DEF OpToRel
    <3>2. QED BY <2>1, <3>1
  <2> DEFINE c == CHOOSE i \in found : \A j \in found : i <= j
  <2>4. c \in found
    <3> HIDE DEF found
    <3>1. QED BY <2>3
  <2>5. GetProcAddress(f) = chain[c]
    BY <1>5 DEF GetProcAddress
  <2>6. chain[c] \in Linked
    BY <1>1, <2>4
  <2>7. QED BY <1>2, <1>3, <1>5, <2>5, <2>6
<1>6. QED BY <1>4, <1>5

LEMMA HealedSameWay ==
  ASSUME HookInv, ListInv, Healed
  PROVE  SameWay
<1> SUFFICES ASSUME NEW f \in Functions, NEW m \in loaded \ (missed \cup {Own}),
                    f \in Imports[m], f \notin denied[m],
                    \A h \in Hooks : Target[h] = f => Settled(h),
                    \A h \in Hooks : Target[h] = f /\ life[h] = "dead" =>
                      {k \in Hooks : Target[k] = f} = {h} /\ h \notin raced
             PROVE  iat[m][f] \in Hooks <=> GetProcAddress(f) \in Hooks
  BY DEF SameWay
<1>1. GetProcAddress(f) \in Hooks <=> \E h \in Linked : orig[h] = f
  BY ListedIntact, GetProcAddressHooks
<1>2. f \notin Hooks /\ f # Nil /\ Linked \subseteq Hooks
  BY HookAssumption DEF Linked
<1>3. iat[m][f] # f => iat[m][f] \in Linked /\ orig[iat[m][f]] = f
  <2> SUFFICES ASSUME iat[m][f] # f
               PROVE  iat[m][f] \in Linked /\ orig[iat[m][f]] = f
    OBVIOUS
  <2>1. iat[m][f] \in Hooks /\ orig[iat[m][f]] = f /\ iat[m][f] \in Linked \cup raced
    BY DEF HookInv, EntriesLive
  <2>2. Target[iat[m][f]] = f
    BY <1>2, <2>1 DEF HookInv, Originals
  <2>3. iat[m][f] \in raced => life[iat[m][f]] # "unborn" /\ life[iat[m][f]] # "dead"
    BY <2>1, <2>2 DEF HookInv, Overlaps
  <2> QED  BY <2>1, <2>3 DEF Linked
<1>4. ASSUME NEW h \in Linked, orig[h] = f
      PROVE  iat[m][f] # f
  <2>1. h \in Hooks /\ Target[h] = f /\ life[h] \notin {"unborn", "dead"}
    BY <1>2, <1>4 DEF HookInv, Originals, Linked
  <2>2. life[h] = "alive"
    BY <2>1 DEF Settled
  <2>3. ~Gone(f)
    <3> SUFFICES ASSUME NEW k \in Hooks, Target[k] = f,
                        life[k] \in {"restoring", "restored", "dead"}
                 PROVE  FALSE
      BY DEF Gone
    <3>1. life[k] = "dead"
      BY DEF Settled
    <3>2. h \in {k}
      BY <2>1, <3>1
    <3>3. QED BY <2>1, <3>1, <3>2
  <2>4. Bound(h, m)
    BY <1>4, <2>1, <2>2, <2>3 DEF Bound, Patchable, HookInv, HookTypeOK
  <2>5. Done(h, m)
    BY <2>1, <2>4 DEF Healed, CaughtUp
  <2>6. QED BY <2>1, <2>2, <2>5 DEF Done
<1>5. QED BY <1>1, <1>2, <1>3, <1>4

(* A call through the import table and one by way of GetProcAddress reach  *)
(* a replacement or not alike, in every module that was there before the   *)
(* hook or whose load was followed up (apihook.cpp:339-422), whatever      *)
(* loads, follow-ups, constructions and patches run at the same time; but  *)
(* for functions of which one of two hooks was destroyed, or one by a      *)
(* destructor that overlapped a follow-up, and entries that could not be   *)
(* written.                                                                *)
THEOREM AlwaysTheSameWay == Spec => []SameWay
<1>1. HookInv /\ ListInv /\ Healed /\ [Next]_vars => HookInv' /\ ListInv' /\ Healed'
  BY HookStepKeeps, StepLists, StepHeals
<1>2. Init => HookInv /\ ListInv /\ Healed
  BY HookInit, EmptyList, InitHealed
<1>3. HookInv /\ ListInv /\ Healed => SameWay
  BY HealedSameWay
<1> QED  BY <1>1, <1>2, <1>3, PTL DEF Spec

=============================================================================
