-------------------------- MODULE TodoStore_proofs --------------------------
(***************************************************************************)
(* Proofs about TodoStore, for every value of its constants: the list      *)
(* stays ordered by id, so that the binary search of Impl::at always ends  *)
(* on the item it was asked for; and, when no dump fails, the file is the  *)
(* list.  The inductive invariant is StoreInv.  Last, with FileFound: the  *)
(* store implements TodoMap, under every fault.                            *)
(***************************************************************************)
EXTENDS TodoStore, FiniteSetTheorems, SequenceTheorems, TLAPS

(* IdsOrdered as a predicate of a list and a counter. *)
Ordered(s, k) ==
  /\ \A i, j \in DOMAIN s : i < j => s[i].id < s[j].id
  /\ \A i \in DOMAIN s : s[i].id < k

StoreInv == StoreTypeOK /\ IdsOrdered

-----------------------------------------------------------------------------
(* Lists *)

LEMMA ElementTyped ==
  ASSUME NEW S, NEW s \in Seq(S)
  PROVE  /\ Len(s) \in Nat /\ DOMAIN s = 1..Len(s)
         /\ \A j \in DOMAIN s : s[j] \in S
OBVIOUS

LEMMA IdTyped ==
  ASSUME NEW s \in Seq(Item)
  PROVE  \A j \in DOMAIN s : s[j].id \in Nat
<1>1. \A item \in Item : item.id \in Nat
  BY DEF Item
<1>2. QED BY <1>1, ElementTyped

(* On an ordered list the search for an item's id ends on that item: the   *)
(* smaller ids are exactly those of the items before it.                   *)
LEMMA SearchHits ==
  ASSUME NEW s \in Seq(Item), NEW k, Ordered(s, k), NEW i \in DOMAIN s
  PROVE  /\ LowerBound(s, s[i].id) = i
         /\ UpperBound(s, s[i].id) = i + 1
<1>1. \A j \in DOMAIN s : s[j].id \in Nat
  BY IdTyped
<1>2. i \in Nat \ {0} /\ DOMAIN s = 1..Len(s) /\ Len(s) \in Nat
  OBVIOUS
<1>3. {j \in DOMAIN s : s[j].id < s[i].id} = 1..(i - 1)
  <2>1. \A j \in DOMAIN s : s[j].id < s[i].id <=> j < i
    BY <1>1, <1>2 DEF Ordered
  <2>2. QED BY <2>1, <1>2
<1>4. {j \in DOMAIN s : s[j].id <= s[i].id} = 1..i
  <2>1. \A j \in DOMAIN s : s[j].id <= s[i].id <=> j <= i
    BY <1>1, <1>2 DEF Ordered
  <2>2. QED BY <2>1, <1>2
<1>5. Cardinality(1..(i - 1)) = i - 1 /\ Cardinality(1..i) = i
  <2>1. /\ Cardinality(1..(i - 1)) = IF 1 > i - 1 THEN 0 ELSE (i - 1) - 1 + 1
        /\ Cardinality(1..i) = IF 1 > i THEN 0 ELSE i - 1 + 1
    BY <1>2, i - 1 \in Int, i \in Int, 1 \in Int, FS_Interval, Zenon
  <2>2. QED BY <2>1, <1>2
<1>6. LowerBound(s, s[i].id) = (i - 1) + 1
  BY <1>3, <1>5 DEF LowerBound
<1>7. UpperBound(s, s[i].id) = i + 1
  BY <1>4, <1>5 DEF UpperBound
<1>8. QED BY <1>2, <1>6, <1>7

(* erase() keeps the other items and their order. *)
LEMMA ErasedList ==
  ASSUME NEW S, NEW s \in Seq(S), NEW i \in DOMAIN s
  PROVE  /\ RemoveAt(s, i) \in Seq(S)
         /\ Len(RemoveAt(s, i)) = Len(s) - 1
         /\ \A j \in 1..(Len(s) - 1) :
              RemoveAt(s, i)[j] = IF j < i THEN s[j] ELSE s[j + 1]
<1>1. /\ SubSeq(s, 1, i - 1) \in Seq(S) /\ Len(SubSeq(s, 1, i - 1)) = i - 1
      /\ \A j \in 1..(i - 1) : SubSeq(s, 1, i - 1)[j] = s[j]
  BY SubSeqProperties
<1>2. /\ SubSeq(s, i + 1, Len(s)) \in Seq(S)
      /\ Len(SubSeq(s, i + 1, Len(s))) = Len(s) - i
      /\ \A j \in 1..(Len(s) - i) : SubSeq(s, i + 1, Len(s))[j] = s[i + j]
  BY SubSeqProperties
<1>3. /\ RemoveAt(s, i) \in Seq(S)
      /\ Len(RemoveAt(s, i)) = (i - 1) + (Len(s) - i)
      /\ \A j \in 1..((i - 1) + (Len(s) - i)) :
           RemoveAt(s, i)[j] = IF j <= i - 1 THEN SubSeq(s, 1, i - 1)[j]
                               ELSE SubSeq(s, i + 1, Len(s))[j - (i - 1)]
  <2> DEFINE a == SubSeq(s, 1, i - 1)
             b == SubSeq(s, i + 1, Len(s))
  <2>1. RemoveAt(s, i) = a \o b
    BY DEF RemoveAt
  <2>2. a \in Seq(S) /\ Len(a) = i - 1 /\ b \in Seq(S) /\ Len(b) = Len(s) - i
    BY <1>1, <1>2
  <2> HIDE DEF a, b
  <2>3. /\ a \o b \in Seq(S)
        /\ Len(a \o b) = Len(a) + Len(b)
        /\ \A j \in 1..(Len(a) + Len(b)) :
             (a \o b)[j] = IF j <= Len(a) THEN a[j] ELSE b[j - Len(a)]
    BY <2>2, ConcatProperties
  <2>4. QED BY <2>1, <2>2, <2>3 DEF a, b
<1>4. i \in 1..Len(s) /\ Len(s) \in Nat
  OBVIOUS
<1>5. ASSUME NEW j \in 1..(Len(s) - 1)
      PROVE  RemoveAt(s, i)[j] = IF j < i THEN s[j] ELSE s[j + 1]
  <2>1. CASE j < i
    <3>1. j \in 1..((i - 1) + (Len(s) - i)) /\ j <= i - 1 /\ j \in 1..(i - 1)
      BY <2>1, <1>4, SMT
    <3>2. RemoveAt(s, i)[j] = SubSeq(s, 1, i - 1)[j]
      BY <3>1, <1>3, Zenon
    <3>3. QED BY <2>1, <3>1, <3>2, <1>1
  <2>2. CASE ~(j < i)
    <3>1. j - (i - 1) \in 1..(Len(s) - i) /\ i + (j - (i - 1)) = j + 1
      BY <2>2, <1>4
    <3>2. RemoveAt(s, i)[j] = SubSeq(s, i + 1, Len(s))[j - (i - 1)]
      <4>1. j \in 1..((i - 1) + (Len(s) - i)) /\ ~(j <= i - 1)
        BY <2>2, <1>4
      <4>2. QED BY <4>1, <1>3, Zenon
    <3>3. QED BY <2>2, <3>1, <3>2, <1>2
  <2>3. QED BY <2>1, <2>2
<1>6. QED BY <1>3, <1>4, <1>5

LEMMA ErasedOrdered ==
  ASSUME NEW s \in Seq(Item), NEW k \in Nat, Ordered(s, k), NEW i \in DOMAIN s
  PROVE  Ordered(RemoveAt(s, i), k)
<1>1. DOMAIN RemoveAt(s, i) = 1..(Len(s) - 1)
  BY ErasedList
<1>2. \A j \in 1..(Len(s) - 1) : \E m \in DOMAIN s :
        /\ RemoveAt(s, i)[j] = s[m]
        /\ m = IF j < i THEN j ELSE j + 1
  BY ErasedList
<1>4. ASSUME NEW a \in DOMAIN RemoveAt(s, i), NEW b \in DOMAIN RemoveAt(s, i), a < b
      PROVE  RemoveAt(s, i)[a].id < RemoveAt(s, i)[b].id
  <2>1. PICK m \in DOMAIN s : /\ RemoveAt(s, i)[a] = s[m]
                              /\ m = IF a < i THEN a ELSE a + 1
    BY <1>1, <1>2
  <2>2. PICK n \in DOMAIN s : /\ RemoveAt(s, i)[b] = s[n]
                              /\ n = IF b < i THEN b ELSE b + 1
    BY <1>1, <1>2
  <2>3. m < n
    BY <2>1, <2>2, <1>4, <1>1
  <2>4. QED BY <2>1, <2>2, <2>3 DEF Ordered
<1>5. \A a \in DOMAIN RemoveAt(s, i) : RemoveAt(s, i)[a].id < k
  BY <1>1, <1>2 DEF Ordered
<1>6. QED BY <1>4, <1>5 DEF Ordered

(* push() appends an item whose id is the counter. *)
LEMMA PushedOrdered ==
  ASSUME NEW s \in Seq(Item), NEW k \in Nat, Ordered(s, k),
         NEW item \in Item, item.id = k
  PROVE  Append(s, item) \in Seq(Item) /\ Ordered(Append(s, item), k + 1)
<1>1. \A j \in DOMAIN s : s[j].id \in Nat
  BY IdTyped
<1>2. /\ Append(s, item) \in Seq(Item)
      /\ DOMAIN Append(s, item) = 1..(Len(s) + 1)
      /\ \A j \in 1..(Len(s) + 1) :
           Append(s, item)[j] = IF j = Len(s) + 1 THEN item ELSE s[j]
  BY AppendProperties
<1>3. QED BY <1>1, <1>2 DEF Ordered

(* An update of one field keeps the length, the ids and the types. *)
Replace(s, n, v) == [s EXCEPT ![n] = v]

SameIds(s, t) == DOMAIN t = DOMAIN s /\ \A i \in DOMAIN s : t[i].id = s[i].id

LEMMA UpdatedOrdered ==
  ASSUME NEW s, NEW t, NEW k, Ordered(s, k), SameIds(s, t)
  PROVE  Ordered(t, k)
BY DEF Ordered, SameIds

LEMMA ReplacedItem ==
  ASSUME NEW s \in Seq(Item), NEW n, NEW v,
         n \in DOMAIN s => v \in Item /\ v.id = s[n].id
  PROVE  Replace(s, n, v) \in Seq(Item) /\ SameIds(s, Replace(s, n, v))
<1>1. DOMAIN s = 1..Len(s) /\ Len(s) \in Nat
  BY ElementTyped
<1>2. CASE n \in DOMAIN s
  <2>1. n \in 1..Len(s) /\ v \in Item /\ v.id = s[n].id
    BY <1>1, <1>2
  <2>2. /\ Replace(s, n, v) \in Seq(Item)
        /\ Len(Replace(s, n, v)) = Len(s)
        /\ \A j \in 1..Len(s) : Replace(s, n, v)[j] = IF j = n THEN v ELSE s[j]
    BY <2>1, ExceptSeq DEF Replace
  <2>3. DOMAIN Replace(s, n, v) = 1..Len(s)
    BY <2>2, ElementTyped
  <2>4. QED BY <1>1, <2>1, <2>2, <2>3 DEF SameIds
<1>3. CASE n \notin DOMAIN s
  <2>1. Replace(s, n, v) = s
    BY <1>1, <1>3 DEF Replace
  <2>2. QED BY <2>1 DEF SameIds
<1>4. QED BY <1>2, <1>3

LEMMA UpdatedField ==
  ASSUME NEW item \in Item
  PROVE  /\ \A x \in Titles : /\ [item EXCEPT !.text = x] \in Item
                              /\ [item EXCEPT !.text = x].id = item.id
         /\ \A x \in Remarks : /\ [item EXCEPT !.remark = x] \in Item
                               /\ [item EXCEPT !.remark = x].id = item.id
         /\ \A x \in Times : /\ [item EXCEPT !.deadline = x] \in Item
                             /\ [item EXCEPT !.deadline = x].id = item.id
                             /\ [item EXCEPT !.remind = x] \in Item
                             /\ [item EXCEPT !.remind = x].id = item.id
         /\ \A x \in BOOLEAN : /\ [item EXCEPT !.everyday = x] \in Item
                               /\ [item EXCEPT !.everyday = x].id = item.id
         /\ \A x \in BOOLEAN, y \in Stamps :
              /\ [item EXCEPT !.status = x, !.lastmodified = y] \in Item
              /\ [item EXCEPT !.status = x, !.lastmodified = y].id = item.id
BY DEF Item

LEMMA WithTyped ==
  ASSUME NEW s \in Seq(Item), NEW id
  PROVE  /\ \A x \in Titles : WithTitle(s, id, x) \in Seq(Item) /\ SameIds(s, WithTitle(s, id, x))
         /\ \A x \in Remarks : WithRemark(s, id, x) \in Seq(Item) /\ SameIds(s, WithRemark(s, id, x))
         /\ \A x \in Times : WithDeadline(s, id, x) \in Seq(Item) /\ SameIds(s, WithDeadline(s, id, x))
         /\ \A x \in Times : WithRemind(s, id, x) \in Seq(Item) /\ SameIds(s, WithRemind(s, id, x))
         /\ \A x \in BOOLEAN : WithEveryday(s, id, x) \in Seq(Item) /\ SameIds(s, WithEveryday(s, id, x))
         /\ \A x \in BOOLEAN, y \in Stamps :
              WithStatus(s, id, x, y) \in Seq(Item) /\ SameIds(s, WithStatus(s, id, x, y))
<1> DEFINE n == At(s, id)
<1>1. n \in DOMAIN s => s[n] \in Item
  BY ElementTyped
<1>2. ASSUME NEW x \in Titles
      PROVE  WithTitle(s, id, x) \in Seq(Item) /\ SameIds(s, WithTitle(s, id, x))
  <2> DEFINE v == [s[n] EXCEPT !.text = x]
  <2>1. WithTitle(s, id, x) = Replace(s, n, v)
    BY DEF WithTitle, Replace
  <2>2. n \in DOMAIN s => v \in Item /\ v.id = s[n].id
    BY <1>1, UpdatedField
  <2> HIDE DEF v, n
  <2>3. QED BY <2>1, <2>2, ReplacedItem
<1>3. ASSUME NEW x \in Remarks
      PROVE  WithRemark(s, id, x) \in Seq(Item) /\ SameIds(s, WithRemark(s, id, x))
  <2> DEFINE v == [s[n] EXCEPT !.remark = x]
  <2>1. WithRemark(s, id, x) = Replace(s, n, v)
    BY DEF WithRemark, Replace
  <2>2. n \in DOMAIN s => v \in Item /\ v.id = s[n].id
    BY <1>1, UpdatedField
  <2> HIDE DEF v, n
  <2>3. QED BY <2>1, <2>2, ReplacedItem
<1>4. ASSUME NEW x \in Times
      PROVE  WithDeadline(s, id, x) \in Seq(Item) /\ SameIds(s, WithDeadline(s, id, x))
  <2> DEFINE v == [s[n] EXCEPT !.deadline = x]
  <2>1. WithDeadline(s, id, x) = Replace(s, n, v)
    BY DEF WithDeadline, Replace
  <2>2. n \in DOMAIN s => v \in Item /\ v.id = s[n].id
    BY <1>1, UpdatedField
  <2> HIDE DEF v, n
  <2>3. QED BY <2>1, <2>2, ReplacedItem
<1>5. ASSUME NEW x \in Times
      PROVE  WithRemind(s, id, x) \in Seq(Item) /\ SameIds(s, WithRemind(s, id, x))
  <2> DEFINE v == [s[n] EXCEPT !.remind = x]
  <2>1. WithRemind(s, id, x) = Replace(s, n, v)
    BY DEF WithRemind, Replace
  <2>2. n \in DOMAIN s => v \in Item /\ v.id = s[n].id
    BY <1>1, UpdatedField
  <2> HIDE DEF v, n
  <2>3. QED BY <2>1, <2>2, ReplacedItem
<1>6. ASSUME NEW x \in BOOLEAN
      PROVE  WithEveryday(s, id, x) \in Seq(Item) /\ SameIds(s, WithEveryday(s, id, x))
  <2> DEFINE v == [s[n] EXCEPT !.everyday = x]
  <2>1. WithEveryday(s, id, x) = Replace(s, n, v)
    BY DEF WithEveryday, Replace
  <2>2. n \in DOMAIN s => v \in Item /\ v.id = s[n].id
    BY <1>1, UpdatedField
  <2> HIDE DEF v, n
  <2>3. QED BY <2>1, <2>2, ReplacedItem
<1>7. ASSUME NEW x \in BOOLEAN, NEW y \in Stamps
      PROVE  WithStatus(s, id, x, y) \in Seq(Item) /\ SameIds(s, WithStatus(s, id, x, y))
  <2> DEFINE v == [s[n] EXCEPT !.status = x, !.lastmodified = y]
  <2>1. WithStatus(s, id, x, y) = Replace(s, n, v)
    BY DEF WithStatus, Replace
  <2>2. n \in DOMAIN s => v \in Item /\ v.id = s[n].id
    BY <1>1 DEF Item
  <2> HIDE DEF v, n
  <2>3. QED BY <2>1, <2>2, ReplacedItem
<1>8. QED BY <1>2, <1>3, <1>4, <1>5, <1>6, <1>7

(* load() numbers the saved items from 0. *)
LEMMA LoadedOrdered ==
  ASSUME NEW recs \in Seq(SavedItem)
  PROVE  Loaded(recs) \in Seq(Item) /\ Ordered(Loaded(recs), Len(recs))
<1>0. /\ DOMAIN recs = 1..Len(recs) /\ Len(recs) \in Nat
      /\ \A i \in DOMAIN recs : recs[i] \in SavedItem
  BY ElementTyped
<1>1. ASSUME NEW i \in DOMAIN recs
      PROVE  Restored(recs[i], i - 1) \in Item
  <2>1. ASSUME NEW rec \in SavedItem, NEW id \in Nat
        PROVE  Restored(rec, id) \in Item
    BY DEF Restored, SavedItem, Item
  <2>2. QED BY <1>0, <2>1
<1>2. Loaded(recs) \in Seq(Item)
  BY <1>0, <1>1 DEF Loaded
<1>3. \A i \in DOMAIN recs : Loaded(recs)[i].id = i - 1
  BY DEF Loaded, Restored
<1>4. DOMAIN Loaded(recs) = 1..Len(recs)
  BY <1>0 DEF Loaded
<1>5. QED BY <1>0, <1>2, <1>3, <1>4 DEF Ordered

(* What dump() writes can be loaded again. *)
LEMMA SavedItemTyped ==
  ASSUME NEW item \in Item
  PROVE  Saved(item) \in SavedItem
<1>1. Reencode[item.text] \in Titles /\ Reencode[item.remark] \in Remarks
  BY StoreAssumption DEF Item
<1>2. QED BY <1>1 DEF Saved, SavedItem, Item

LEMMA SavedTyped ==
  ASSUME NEW s \in Seq(Item)
  PROVE  WholeFile(s) \in FileType
<1>1. \A i \in 1..Len(s) : Saved(s[i]) \in SavedItem
  BY SavedItemTyped, ElementTyped
<1>2. Image(s) = [i \in 1..Len(s) |-> Saved(s[i])] /\ Len(s) \in Nat
  BY ElementTyped DEF Image
<1>3. Image(s) \in Seq(SavedItem)
  BY <1>1, <1>2, IsASeq
<1>4. QED BY <1>3 DEF WholeFile, FileType

-----------------------------------------------------------------------------
(* Steps *)

(* dump() after a change, whatever becomes of it. *)
LEMMA CommitKeeps ==
  ASSUME StoreInv, mode = "run",
         NEW s \in Seq(Item), NEW k \in Nat, Ordered(s, k), Commit(s, k)
  PROVE  StoreInv'
<1>1. CASE todos' = s /\ tick' = k /\ mode' = mode
  <2>1. file' \in FileType
    <3>1. TornFile \in FileType
      BY DEF TornFile, FileType
    <3>2. file' \in {WholeFile(s), file, TornFile}
      BY <1>1 DEF Commit
    <3>3. QED BY <3>1, <3>2, SavedTyped DEF StoreInv, StoreTypeOK
  <2>2. QED BY <1>1, <2>1 DEF StoreInv, StoreTypeOK, IdsOrdered, Ordered
<1>2. CASE todos' = <<>> /\ tick' = 0 /\ mode' = "off" /\ file' = TornFile
  BY <1>2 DEF StoreInv, StoreTypeOK, IdsOrdered, TornFile, FileType
<1>3. QED BY <1>1, <1>2 DEF Commit

LEMMA LoadKeeps ==
  ASSUME StoreInv, Load
  PROVE  StoreInv'
<1>1. CASE /\ file.state = "whole"
           /\ todos' = Loaded(file.items) /\ tick' = Len(file.items) /\ mode' = "run"
  <2>1. file.items \in Seq(SavedItem)
    BY DEF StoreInv, StoreTypeOK, FileType
  <2>2. Len(file.items) \in Nat
    BY <2>1, ElementTyped
  <2>3. QED BY <1>1, <2>1, <2>2, LoadedOrdered
            DEF Load, StoreInv, StoreTypeOK, IdsOrdered, Ordered
<1>2. CASE todos' = <<>> /\ tick' = 0 /\ mode' \in {"run", "dead"}
  BY <1>2 DEF Load, StoreInv, StoreTypeOK, IdsOrdered
<1>3. QED BY <1>1, <1>2 DEF Load

LEMMA AddKeeps ==
  ASSUME StoreInv, NEW t \in Titles, NEW r \in Remarks, NEW d \in Times, NEW m \in Times,
         NEW now \in Stamps, AddTodo(t, r, d, m, now)
  PROVE  StoreInv'
<1> DEFINE item == [id |-> tick, text |-> t, remark |-> r, status |-> FALSE,
                    lastmodified |-> now, deadline |-> d, remind |-> m,
                    everyday |-> FALSE]
<1>1. todos \in Seq(Item) /\ tick \in Nat /\ Ordered(todos, tick)
  BY DEF StoreInv, StoreTypeOK, IdsOrdered, Ordered
<1>2. item \in Item /\ item.id = tick
  BY <1>1 DEF Item
<1>3. mode = "run" /\ Commit(Append(todos, item), tick + 1)
  BY DEF AddTodo
<1> HIDE DEF item
<1>4. Append(todos, item) \in Seq(Item) /\ Ordered(Append(todos, item), tick + 1)
  BY <1>1, <1>2, PushedOrdered
<1>5. tick + 1 \in Nat
  BY <1>1
<1>6. QED BY <1>3, <1>4, <1>5, CommitKeeps

LEMMA RemoveKeeps ==
  ASSUME StoreInv, NEW id \in Live, RemoveTodo(id)
  PROVE  StoreInv'
<1>1. todos \in Seq(Item) /\ tick \in Nat /\ Ordered(todos, tick)
  BY DEF StoreInv, StoreTypeOK, IdsOrdered, Ordered
<1>2. PICK i \in DOMAIN todos : todos[i].id = id
  BY DEF Live
<1>3. At(todos, id) = i
  BY <1>1, <1>2, SearchHits DEF At
<1>4. RemoveAt(todos, i) \in Seq(Item) /\ Ordered(RemoveAt(todos, i), tick)
  BY <1>1, ErasedList, ErasedOrdered
<1>5. QED BY <1>1, <1>3, <1>4, CommitKeeps DEF RemoveTodo

LEMMA UpdateKeeps ==
  ASSUME StoreInv, mode = "run",
         NEW s \in Seq(Item), SameIds(todos, s), Commit(s, tick)
  PROVE  StoreInv'
<1>1. tick \in Nat /\ Ordered(todos, tick)
  BY DEF StoreInv, StoreTypeOK, IdsOrdered, Ordered
<1>2. Ordered(s, tick)
  BY <1>1, UpdatedOrdered
<1>3. QED BY <1>1, <1>2, CommitKeeps

LEMMA StepKeeps == StoreInv /\ [StoreNext]_storeVars => StoreInv'
<1> SUFFICES ASSUME StoreInv, [StoreNext]_storeVars
             PROVE  StoreInv'
  OBVIOUS
<1>0. todos \in Seq(Item)
  BY DEF StoreInv, StoreTypeOK
<1>1. CASE Load
  BY <1>1, LoadKeeps
<1>2. CASE Quit
  BY <1>2 DEF Quit, StoreInv, StoreTypeOK, IdsOrdered
<1>3. ASSUME NEW t \in Titles, NEW r \in Remarks, NEW d \in Times, NEW m \in Times,
             NEW now \in Stamps, AddTodo(t, r, d, m, now)
      PROVE  StoreInv'
  BY <1>3, AddKeeps
<1>4. ASSUME NEW id \in Live, RemoveTodo(id)
      PROVE  StoreInv'
  BY <1>4, RemoveKeeps
<1>5. ASSUME NEW id, NEW b \in BOOLEAN, NEW now \in Stamps, UpdateStatus(id, b, now)
      PROVE  StoreInv'
  BY <1>0, <1>5, WithTyped, UpdateKeeps DEF UpdateStatus
<1>6. ASSUME NEW id, NEW t \in Titles, UpdateTitle(id, t)
      PROVE  StoreInv'
  BY <1>0, <1>6, WithTyped, UpdateKeeps DEF UpdateTitle
<1>7. ASSUME NEW id, NEW r \in Remarks, UpdateRemark(id, r)
      PROVE  StoreInv'
  BY <1>0, <1>7, WithTyped, UpdateKeeps DEF UpdateRemark
<1>8. ASSUME NEW id, NEW t \in Times, UpdateDeadline(id, t)
      PROVE  StoreInv'
  BY <1>0, <1>8, WithTyped, UpdateKeeps DEF UpdateDeadline
<1>9. ASSUME NEW id, NEW t \in Times, UpdateRemaind(id, t)
      PROVE  StoreInv'
  BY <1>0, <1>9, WithTyped, UpdateKeeps DEF UpdateRemaind
<1>10. ASSUME NEW id, NEW b \in BOOLEAN, UpdateEveryday(id, b)
       PROVE  StoreInv'
  BY <1>0, <1>10, WithTyped, UpdateKeeps DEF UpdateEveryday
<1>11. CASE UNCHANGED storeVars
  BY <1>11 DEF storeVars, StoreInv, StoreTypeOK, IdsOrdered
<1>12. QED
  BY <1>1, <1>2, <1>3, <1>4, <1>5, <1>6, <1>7, <1>8, <1>9, <1>10, <1>11 DEF StoreNext

-----------------------------------------------------------------------------
(* The inductive invariant: the types of the list and of the file, and the  *)
(* order of the ids below the counter, hold in every reachable state.       *)
THEOREM StoreInvariant == StoreSpec => []StoreInv
<1>1. StoreInit => StoreInv
  BY DEF StoreInit, StoreInv, StoreTypeOK, IdsOrdered, NoFile, FileType
<1>2. QED BY <1>1, StepKeeps, PTL DEF StoreSpec

(* Every state of the store is well-typed, and a program that does not run  *)
(* holds no list.                                                           *)
THEOREM StoreTypeCorrect == StoreSpec => []StoreTypeOK
<1>1. StoreInv => StoreTypeOK
  BY DEF StoreInv
<1>2. QED BY <1>1, StoreInvariant, PTL

(* The vector is always ordered by id and every id is below tick: the       *)
(* precondition of std::equal_range in Impl::at, through any sequence of    *)
(* additions, removals, updates, failed dumps and restarts.                 *)
THEOREM IdsAlwaysOrdered == StoreSpec => []IdsOrdered
<1>1. StoreInv => IdsOrdered
  BY DEF StoreInv
<1>2. QED BY <1>1, StoreInvariant, PTL

(* Impl::at finds every item the list holds, and only that item: its        *)
(* assertion never fails for a live id.                                     *)
THEOREM LookupsAlwaysHit == StoreSpec => []LookupHits
<1>1. StoreInv => LookupHits
  <2> SUFFICES ASSUME StoreInv
               PROVE  LookupHits
    OBVIOUS
  <2>1. todos \in Seq(Item) /\ Ordered(todos, tick)
    BY DEF StoreInv, StoreTypeOK, IdsOrdered, Ordered
  <2>2. QED BY <2>1, SearchHits DEF LookupHits
<1>2. QED BY <1>1, StoreInvariant, PTL

-----------------------------------------------------------------------------
(* The saved list.  While the program runs the file is the list; for a      *)
(* restart to keep that, what the file holds must not change when it is     *)
(* encoded once more.                                                       *)
Encoded(recs) ==
  \A i \in DOMAIN recs : /\ Reencode[recs[i].text] = recs[i].text
                         /\ Reencode[recs[i].remark] = recs[i].remark

CurrentInv ==
  /\ StoreInv
  /\ SavedIsCurrent
  /\ Encoded(file.items)
  /\ file.state = "absent" => file = NoFile

LEMMA ImageEncoded ==
  ASSUME NEW s \in Seq(Item)
  PROVE  Encoded(Image(s))
<1>1. \A item \in Item : /\ Reencode[Saved(item).text] = Saved(item).text
                         /\ Reencode[Saved(item).remark] = Saved(item).remark
  BY StoreAssumption DEF Saved, Item, Texts
<1>2. DOMAIN Image(s) = DOMAIN s /\ \A i \in DOMAIN s : Image(s)[i] = Saved(s[i])
  BY DEF Image
<1>3. QED BY <1>1, <1>2, ElementTyped DEF Encoded

LEMMA ReloadedImage ==
  ASSUME NEW recs \in Seq(SavedItem), Encoded(recs)
  PROVE  Image(Loaded(recs)) = recs
<1>1. \A i \in DOMAIN recs : recs[i] \in SavedItem
  BY ElementTyped
<1>2. ASSUME NEW i \in DOMAIN recs
      PROVE  Saved(Restored(recs[i], i - 1)) = recs[i]
  BY <1>1 DEF Saved, Restored, SavedItem, Encoded
<1>3. DOMAIN Loaded(recs) = DOMAIN recs
  BY DEF Loaded
<1>4. Image(Loaded(recs)) = [i \in DOMAIN recs |-> recs[i]]
  BY <1>2, <1>3 DEF Image, Loaded
<1>5. QED BY <1>4

LEMMA CommitSaves ==
  ASSUME "unopened" \notin Faults, NEW s \in Seq(Item), NEW k, Commit(s, k)
  PROVE  /\ SavedIsCurrent'
         /\ Encoded(file.items)'
         /\ (file.state = "absent" => file = NoFile)'
<1>1. CASE todos' = s /\ file' = WholeFile(s)
  <2>1. file'.items = Image(s) /\ file'.state = "whole"
    BY <1>1 DEF WholeFile
  <2> QED
    BY <1>1, <2>1, ImageEncoded DEF SavedIsCurrent, WholeFile, Image, Encoded
<1>2. CASE file' = TornFile /\ ("short" \in Faults \/ mode' = "off")
  BY <1>2 DEF TornFile, SavedIsCurrent, Encoded
<1>3. QED BY <1>1, <1>2 DEF Commit

LEMMA StepSaves ==
  ASSUME "unopened" \notin Faults, CurrentInv, [StoreNext]_storeVars
  PROVE  CurrentInv'
<1>1. StoreInv'
  BY StepKeeps DEF CurrentInv
<1>2. todos \in Seq(Item)
  BY DEF CurrentInv, StoreInv, StoreTypeOK
<1>3. ASSUME NEW s \in Seq(Item), NEW k, Commit(s, k)
      PROVE  CurrentInv'
  BY <1>1, <1>3, CommitSaves DEF CurrentInv
<1>4. CASE Load
  <2>1. file' = file
    BY <1>4 DEF Load
  <2>2. /\ Encoded(file.items)'
        /\ (file.state = "absent" => file = NoFile)'
    BY <2>1 DEF CurrentInv
  <2>3. CASE file.state = "whole" /\ todos' = Loaded(file.items)
    <3>1. file.items \in Seq(SavedItem) /\ file = [state |-> "whole", items |-> file.items]
      BY <2>3 DEF CurrentInv, StoreInv, StoreTypeOK, FileType
    <3>2. Image(todos') = file.items
      BY <3>1, <2>3, ReloadedImage DEF CurrentInv
    <3>3. WholeFile(todos') = file
      BY <3>1, <3>2 DEF WholeFile
    <3>4. SavedIsCurrent'
      BY <3>3, <2>1 DEF SavedIsCurrent, WholeFile, Image
    <3>5. QED BY <1>1, <2>2, <3>4 DEF CurrentInv
  <2>4. CASE file.state = "absent" /\ todos' = <<>>
    BY <2>1, <2>2, <2>4, <1>1 DEF CurrentInv, SavedIsCurrent
  <2>5. CASE mode' = "dead"
    BY <2>2, <2>5, <1>1 DEF CurrentInv, SavedIsCurrent
  <2>6. QED BY <1>4, <2>3, <2>4, <2>5 DEF Load
<1>5. CASE Quit
  BY <1>1, <1>5 DEF Quit, CurrentInv, SavedIsCurrent, Encoded
<1>6. ASSUME NEW t \in Titles, NEW r \in Remarks, NEW d \in Times, NEW m \in Times,
             NEW now \in Stamps, AddTodo(t, r, d, m, now)
      PROVE  CurrentInv'
  <2>1. tick \in Nat /\ Ordered(todos, tick)
    BY DEF CurrentInv, StoreInv, StoreTypeOK, IdsOrdered, Ordered
  <2> DEFINE item == [id |-> tick, text |-> t, remark |-> r, status |-> FALSE,
                      lastmodified |-> now, deadline |-> d, remind |-> m,
                      everyday |-> FALSE]
  <2>2. item \in Item /\ Commit(Append(todos, item), tick + 1)
    BY <1>6, <2>1 DEF AddTodo, Item
  <2> HIDE DEF item
  <2>3. Append(todos, item) \in Seq(Item)
    BY <1>2, <2>2, AppendProperties
  <2>4. QED BY <1>3, <2>2, <2>3
<1>7. ASSUME NEW id \in Live, RemoveTodo(id)
      PROVE  CurrentInv'
  <2>1. Ordered(todos, tick)
    BY DEF CurrentInv, StoreInv, IdsOrdered, Ordered
  <2>2. PICK i \in DOMAIN todos : At(todos, id) = i
    BY <1>2, <2>1, SearchHits DEF At, Live
  <2>3. RemoveAt(todos, At(todos, id)) \in Seq(Item)
    BY <1>2, <2>2, ErasedList
  <2>4. QED BY <1>3, <1>7, <2>3 DEF RemoveTodo
<1>8. ASSUME NEW id, NEW b \in BOOLEAN, NEW now \in Stamps, UpdateStatus(id, b, now)
      PROVE  CurrentInv'
  BY <1>2, <1>3, <1>8, WithTyped DEF UpdateStatus
<1>9. ASSUME NEW id, NEW t \in Titles, UpdateTitle(id, t)
      PROVE  CurrentInv'
  BY <1>2, <1>3, <1>9, WithTyped DEF UpdateTitle
<1>10. ASSUME NEW id, NEW r \in Remarks, UpdateRemark(id, r)
       PROVE  CurrentInv'
  BY <1>2, <1>3, <1>10, WithTyped DEF UpdateRemark
<1>11. ASSUME NEW id, NEW t \in Times, UpdateDeadline(id, t)
       PROVE  CurrentInv'
  BY <1>2, <1>3, <1>11, WithTyped DEF UpdateDeadline
<1>12. ASSUME NEW id, NEW t \in Times, UpdateRemaind(id, t)
       PROVE  CurrentInv'
  BY <1>2, <1>3, <1>12, WithTyped DEF UpdateRemaind
<1>13. ASSUME NEW id, NEW b \in BOOLEAN, UpdateEveryday(id, b)
       PROVE  CurrentInv'
  BY <1>2, <1>3, <1>13, WithTyped DEF UpdateEveryday
<1>14. CASE UNCHANGED storeVars
  BY <1>1, <1>14 DEF storeVars, CurrentInv, SavedIsCurrent, WholeFile, Image, Encoded, TornFile
<1>15. QED
  BY <1>4, <1>5, <1>6, <1>7, <1>8, <1>9, <1>10, <1>11, <1>12, <1>13, <1>14 DEF StoreNext

(* When every dump and every load can open the file, it is the list in      *)
(* every state of a running program, or torn where a disk may be full:      *)
(* never an older list.                                                     *)
THEOREM DumpedListIsCurrent ==
  ASSUME "unopened" \notin Faults PROVE StoreSpec => []SavedIsCurrent
<1>1. StoreInit => CurrentInv
  BY DEF StoreInit, CurrentInv, StoreInv, StoreTypeOK, IdsOrdered, NoFile, FileType,
         SavedIsCurrent, Encoded
<1>2. CurrentInv /\ [StoreNext]_storeVars => CurrentInv'
  BY StepSaves
<1>3. CurrentInv => SavedIsCurrent
  BY DEF CurrentInv
<1>4. QED BY <1>1, <1>2, <1>3, PTL DEF StoreSpec

(* Once the file is torn and the program is not running, no number of       *)
(* restarts gets it running, as long as the file can be opened.             *)
THEOREM TornStaysTorn == ASSUME "unopened" \notin Faults PROVE StoreSpec => TornIsForever
<1>1. Unstartable /\ [StoreNext]_storeVars => Unstartable'
  BY DEF Unstartable, StoreNext, storeVars, Load, Quit, AddTodo, RemoveTodo, UpdateStatus,
         UpdateTitle, UpdateRemark, UpdateDeadline, UpdateRemaind, UpdateEveryday
<1>2. QED BY <1>1, PTL DEF StoreSpec, TornIsForever

(* Whatever faults there are, a file that can be parsed was written whole   *)
(* from one list the program held.                                          *)
THEOREM FileNeverMixed == StoreSpec => NoMixedFile
<1>1. [StoreNext]_storeVars =>
        [file' # file /\ file'.state = "whole" => file' = WholeFile(todos')]_storeVars
  <2>1. ASSUME NEW s, NEW k, Commit(s, k), file' # file, file'.state = "whole"
        PROVE  file' = WholeFile(todos')
    BY <2>1 DEF Commit, TornFile, WholeFile, Image
  <2>2. QED
    BY <2>1 DEF StoreNext, storeVars, Load, Quit, AddTodo, RemoveTodo, UpdateStatus,
         UpdateTitle, UpdateRemark, UpdateDeadline, UpdateRemaind, UpdateEveryday
<1>2. QED BY <1>1, PTL DEF StoreSpec, NoMixedFile

-----------------------------------------------------------------------------
(* The store implements TodoMap.  MapOf and KeptOf are the refinement       *)
(* mapping as operators of a list and of what a file holds.                 *)
IdsOf(s) == {s[i].id : i \in DOMAIN s}

MapOf(s) ==
  [h \in IdsOf(s) |-> Content(s[CHOOSE i \in DOMAIN s : s[i].id = h])]

KeptOf(recs) == [i \in DOMAIN recs |-> Content(Restored(recs[i], 0))]

(* On an ordered list a handle is mapped to the item that has it. *)
LEMMA MapEntries ==
  ASSUME NEW s \in Seq(Item), NEW k, Ordered(s, k)
  PROVE  /\ DOMAIN MapOf(s) = IdsOf(s)
         /\ \A i \in DOMAIN s : MapOf(s)[s[i].id] = Content(s[i])
<1>1. \A i, j \in DOMAIN s : s[i].id = s[j].id => i = j
  <2>1. \A i \in DOMAIN s : i \in Nat /\ s[i].id \in Nat
    BY ElementTyped, IdTyped
  <2>2. QED BY <2>1 DEF Ordered
<1>2. ASSUME NEW i \in DOMAIN s
      PROVE  (CHOOSE j \in DOMAIN s : s[j].id = s[i].id) = i
  BY <1>1
<1>3. QED BY <1>2 DEF MapOf, IdsOf

(* The fields of an item after a change of some of them. *)
LEMMA ContentChanged ==
  ASSUME NEW item \in Item, NEW x
  PROVE  /\ Content([item EXCEPT !.text = x]) = [Content(item) EXCEPT !["text"] = x]
         /\ Content([item EXCEPT !.remark = x]) = [Content(item) EXCEPT !["remark"] = x]
         /\ Content([item EXCEPT !.deadline = x]) = [Content(item) EXCEPT !["deadline"] = x]
         /\ Content([item EXCEPT !.remind = x]) = [Content(item) EXCEPT !["remind"] = x]
         /\ Content([item EXCEPT !.everyday = x]) = [Content(item) EXCEPT !["everyday"] = x]
BY DEF Content, Item

(* What a dump of an item keeps is what TodoMap says is kept of its content. *)
LEMMA SavedContent ==
  ASSUME NEW item \in Item
  PROVE  Content(Restored(Saved(item), 0)) = KeptContent(Content(item))
<1> DEFINE c == Content(item)
           d == Content(Restored(Saved(item), 0))
           Fields == {"text", "remark", "status", "lastmodified", "deadline", "remind", "everyday"}
<1>1. /\ c = [f \in Fields |-> item[f]]
      /\ d = [f \in Fields |-> Restored(Saved(item), 0)[f]]
  BY DEF Content
<1>2. /\ d["text"] = Reencode[c.text] /\ d["remark"] = Reencode[c.remark]
      /\ d["status"] = c["status"] /\ d["lastmodified"] = c["lastmodified"]
      /\ d["deadline"] = c["deadline"] /\ d["remind"] = c["remind"]
      /\ d["everyday"] = FALSE
  BY <1>1 DEF Restored, Saved
<1>3. c = [f \in Fields |-> c[f]] /\ d = [f \in Fields |-> d[f]]
  BY <1>1
<1> HIDE DEF c, d
<1> DEFINE e == KeptContent(c)
<1>4. DOMAIN e = Fields
  BY <1>3 DEF KeptContent
<1>5. /\ e["text"] = Reencode[c.text] /\ e["remark"] = Reencode[c.remark]
      /\ e["status"] = c["status"] /\ e["lastmodified"] = c["lastmodified"]
      /\ e["deadline"] = c["deadline"] /\ e["remind"] = c["remind"]
      /\ e["everyday"] = FALSE
  BY <1>3 DEF KeptContent
<1>6. e = [f \in Fields |-> e[f]]
  BY <1>3 DEF KeptContent
<1> HIDE DEF e
<1>7. \A f \in Fields : d[f] = e[f]
  BY <1>2, <1>5
<1>8. d = e
  BY <1>3, <1>6, <1>7, Zenon
<1>9. QED BY <1>8 DEF c, d, e

LEMMA RestoredContent ==
  ASSUME NEW rec, NEW h, NEW g
  PROVE  Content(Restored(rec, h)) = Content(Restored(rec, g))
<1> DEFINE a == Restored(rec, h)
           b == Restored(rec, g)
<1>1. /\ a["text"] = b["text"] /\ a["remark"] = b["remark"] /\ a["status"] = b["status"]
      /\ a["lastmodified"] = b["lastmodified"] /\ a["deadline"] = b["deadline"]
      /\ a["remind"] = b["remind"] /\ a["everyday"] = b["everyday"]
  BY DEF Restored
<1> HIDE DEF a, b
<1>2. \A f \in {"text", "remark", "status", "lastmodified", "deadline", "remind", "everyday"} :
        a[f] = b[f]
  BY <1>1
<1>3. Content(a) = Content(b)
  BY <1>2 DEF Content
<1>4. QED BY <1>3 DEF a, b

(* A whole file keeps the list in the order of the handles. *)
LEMMA ImageKept ==
  ASSUME NEW s \in Seq(Item), NEW k, Ordered(s, k)
  PROVE  Abs!KeptInOrder(KeptOf(Image(s)), MapOf(s))
<1> DEFINE ks == KeptOf(Image(s))
           hs == [i \in DOMAIN ks |-> s[i].id]
<1>1. DOMAIN ks = DOMAIN s
  BY DEF KeptOf, Image
<1>2. /\ DOMAIN MapOf(s) = IdsOf(s)
      /\ \A i \in DOMAIN s : MapOf(s)[s[i].id] = Content(s[i])
  BY MapEntries
<1>3. hs \in [DOMAIN ks -> DOMAIN MapOf(s)]
  BY <1>1, <1>2 DEF IdsOf
<1>4. \A i, j \in DOMAIN ks : i < j => hs[i] < hs[j]
  BY <1>1 DEF Ordered
<1>5. \A h \in DOMAIN MapOf(s) : \E i \in DOMAIN ks : hs[i] = h
  BY <1>1, <1>2 DEF IdsOf
<1>6. \A i \in DOMAIN s : ks[i] = KeptContent(Content(s[i]))
  BY ElementTyped, SavedContent DEF KeptOf, Image
<1>7. ks = [i \in DOMAIN ks |-> ks[i]]
  BY DEF KeptOf
<1>8. \A i \in DOMAIN ks : hs[i] = s[i].id
  OBVIOUS
<1>9. DOMAIN ks = 1..Len(ks)
  <2>1. ks = [i \in 1..Len(s) |-> ks[i]] /\ Len(s) \in Nat
    BY <1>1, <1>7, ElementTyped
  <2> HIDE DEF ks
  <2>2. QED BY <2>1
<1> HIDE DEF ks, hs
<1>10. ks = [i \in DOMAIN ks |-> KeptContent(MapOf(s)[hs[i]])]
  BY <1>1, <1>2, <1>6, <1>7, <1>8
<1>11. Abs!KeptInOrder(ks, MapOf(s))
  BY <1>3, <1>4, <1>5, <1>9, <1>10 DEF Abs!KeptInOrder
<1>12. QED BY <1>11 DEF ks

(* n is m with the new handle h, above all others, for the content c. *)
AddedAt(m, n, h, c) ==
  /\ h \in DOMAIN n \ DOMAIN m
  /\ \A g \in DOMAIN m : g < h
  /\ n[h] = c
  /\ n = [g \in DOMAIN m \cup {h} |-> IF g = h THEN n[h] ELSE m[g]]

(* push() adds a handle above all others. *)
LEMMA AddedMap ==
  ASSUME NEW s \in Seq(Item), NEW k \in Nat, Ordered(s, k), NEW item \in Item, item.id = k
  PROVE  AddedAt(MapOf(s), MapOf(Append(s, item)), k, Content(item))
<1> DEFINE t == Append(s, item)
           m == MapOf(s)
           n == MapOf(t)
<1>1. /\ t \in Seq(Item)
      /\ Ordered(t, k + 1)
      /\ DOMAIN t = 1..(Len(s) + 1)
      /\ \A j \in 1..(Len(s) + 1) : t[j] = IF j = Len(s) + 1 THEN item ELSE s[j]
  BY PushedOrdered, AppendProperties
<1>2. DOMAIN s = 1..Len(s) /\ Len(s) \in Nat /\ \A j \in DOMAIN s : s[j].id \in Nat
  BY ElementTyped, IdTyped
<1> HIDE DEF t
<1>3. /\ t[Len(s) + 1] = item /\ Len(s) + 1 \in DOMAIN t
      /\ \A j \in DOMAIN s : j \in DOMAIN t /\ t[j] = s[j]
      /\ \A j \in DOMAIN t : j = Len(s) + 1 \/ j \in DOMAIN s
  BY <1>1, <1>2
<1>4. /\ DOMAIN m = IdsOf(s) /\ DOMAIN n = IdsOf(t)
      /\ \A i \in DOMAIN s : m[s[i].id] = Content(s[i])
      /\ \A i \in DOMAIN t : n[t[i].id] = Content(t[i])
      /\ n = [h \in DOMAIN n |-> n[h]]
  <2>1. n = [h \in DOMAIN n |-> n[h]]
    BY DEF MapOf
  <2>2. QED BY <1>1, <2>1, MapEntries
<1> HIDE DEF m, n
<1>5. \A g \in DOMAIN m : g < k
  BY <1>4 DEF Ordered, IdsOf
<1>6. k \notin DOMAIN m
  BY <1>4, <1>2 DEF Ordered, IdsOf
<1>7. DOMAIN n = DOMAIN m \cup {k}
  BY <1>3, <1>4 DEF IdsOf
<1>8. n[k] = Content(item)
  BY <1>3, <1>4
<1>9. \A g \in DOMAIN m : n[g] = m[g]
  BY <1>3, <1>4 DEF IdsOf
<1>10. n = [g \in DOMAIN m \cup {k} |-> IF g = k THEN n[k] ELSE m[g]]
  BY <1>4, <1>7, <1>9
<1>11. AddedAt(m, n, k, Content(item))
  BY <1>5, <1>6, <1>7, <1>8, <1>10 DEF AddedAt
<1>12. QED BY <1>11 DEF m, n, t

(* erase() removes one handle and leaves every other item alone. *)
LEMMA RemovedMap ==
  ASSUME NEW s \in Seq(Item), NEW k \in Nat, Ordered(s, k), NEW i \in DOMAIN s
  PROVE  /\ s[i].id \in DOMAIN MapOf(s)
         /\ MapOf(RemoveAt(s, i)) = [g \in DOMAIN MapOf(s) \ {s[i].id} |-> MapOf(s)[g]]
<1> DEFINE t == RemoveAt(s, i)
           m == MapOf(s)
           n == MapOf(t)
<1>1. /\ t \in Seq(Item) /\ Ordered(t, k) /\ DOMAIN t = 1..(Len(s) - 1)
      /\ \A j \in 1..(Len(s) - 1) : t[j] = IF j < i THEN s[j] ELSE s[j + 1]
  BY ErasedList, ErasedOrdered
<1>2. DOMAIN s = 1..Len(s) /\ Len(s) \in Nat /\ i \in 1..Len(s)
  BY ElementTyped
<1>3. /\ DOMAIN m = IdsOf(s) /\ DOMAIN n = IdsOf(t)
      /\ \A j \in DOMAIN s : m[s[j].id] = Content(s[j])
      /\ \A j \in DOMAIN t : n[t[j].id] = Content(t[j])
      /\ n = [h \in DOMAIN n |-> n[h]]
  <2>1. n = [h \in DOMAIN n |-> n[h]]
    BY DEF MapOf
  <2>2. QED BY <1>1, <2>1, MapEntries
<1> HIDE DEF t
<1>4. \A j \in DOMAIN t : \E l \in DOMAIN s : l # i /\ t[j] = s[l]
  <2>1. ASSUME NEW j \in DOMAIN t
        PROVE  \E l \in DOMAIN s : l # i /\ t[j] = s[l]
    <3>1. CASE j < i
      BY <1>1, <1>2, <3>1
    <3>2. CASE ~(j < i)
      <4>1. j + 1 \in DOMAIN s /\ j + 1 # i /\ t[j] = s[j + 1]
        BY <1>1, <1>2, <3>2
      <4>2. QED BY <4>1
    <3>3. QED BY <3>1, <3>2
  <2>2. QED BY <2>1
<1>5. \A l \in DOMAIN s : l # i => \E j \in DOMAIN t : t[j] = s[l]
  <2>1. ASSUME NEW l \in DOMAIN s, l # i
        PROVE  \E j \in DOMAIN t : t[j] = s[l]
    <3>1. CASE l < i
      <4>1. l \in DOMAIN t /\ t[l] = s[l]
        BY <1>1, <1>2, <3>1
      <4>2. QED BY <4>1
    <3>2. CASE ~(l < i)
      <4>1. l - 1 \in DOMAIN t /\ t[l - 1] = s[(l - 1) + 1] /\ (l - 1) + 1 = l
        BY <1>1, <1>2, <2>1, <3>2
      <4>2. QED BY <4>1
    <3>3. QED BY <3>1, <3>2
  <2>2. QED BY <2>1
<1>6. \A l \in DOMAIN s : l # i => s[l].id # s[i].id
  <2>1. \A j \in DOMAIN s : j \in Nat /\ s[j].id \in Nat
    BY ElementTyped, IdTyped
  <2>2. QED BY <2>1 DEF Ordered
<1> HIDE DEF m, n
<1>7. DOMAIN n = DOMAIN m \ {s[i].id}
  <2>1. \A h \in DOMAIN n : h \in DOMAIN m /\ h # s[i].id
    BY <1>3, <1>4, <1>6 DEF IdsOf
  <2>2. \A h \in DOMAIN m : h # s[i].id => h \in DOMAIN n
    BY <1>3, <1>5, <1>6 DEF IdsOf
  <2>3. QED BY <2>1, <2>2
<1>8. \A h \in DOMAIN n : n[h] = m[h]
  BY <1>3, <1>4 DEF IdsOf
<1>9. s[i].id \in DOMAIN m
  BY <1>3 DEF IdsOf
<1>10. n = [g \in DOMAIN m \ {s[i].id} |-> m[g]]
  BY <1>3, <1>7, <1>8
<1>11. QED BY <1>9, <1>10 DEF m, n, t

(* An update rewrites the item of one handle. *)
LEMMA UpdatedMap ==
  ASSUME NEW s \in Seq(Item), NEW k, Ordered(s, k), NEW i \in DOMAIN s,
         NEW v \in Item, v.id = s[i].id
  PROVE  /\ s[i].id \in DOMAIN MapOf(s)
         /\ MapOf(Replace(s, i, v)) = [MapOf(s) EXCEPT ![s[i].id] = Content(v)]
         /\ MapOf(s)[s[i].id] = Content(s[i])
<1> DEFINE t == Replace(s, i, v)
           m == MapOf(s)
           n == MapOf(t)
<1>1. t \in Seq(Item) /\ SameIds(s, t)
  BY ReplacedItem
<1>2. Ordered(t, k)
  BY <1>1, UpdatedOrdered
<1>3. /\ DOMAIN m = IdsOf(s) /\ DOMAIN n = IdsOf(t)
      /\ \A j \in DOMAIN s : m[s[j].id] = Content(s[j])
      /\ \A j \in DOMAIN t : n[t[j].id] = Content(t[j])
      /\ n = [h \in DOMAIN n |-> n[h]]
  <2>1. n = [h \in DOMAIN n |-> n[h]]
    BY DEF MapOf
  <2>2. QED BY <1>1, <1>2, <2>1, MapEntries
<1>4. \A j \in DOMAIN s : t[j] = IF j = i THEN v ELSE s[j]
  BY DEF Replace
<1>5. IdsOf(t) = IdsOf(s)
  BY <1>1 DEF SameIds, IdsOf
<1>6. \A l \in DOMAIN s : l # i => s[l].id # s[i].id
  <2>1. \A j \in DOMAIN s : j \in Nat /\ s[j].id \in Nat
    BY ElementTyped, IdTyped
  <2>2. QED BY <2>1 DEF Ordered
<1>7. m = [h \in DOMAIN m |-> m[h]]
  BY DEF MapOf
<1> HIDE DEF t, m, n
<1>8. n[s[i].id] = Content(v)
  BY <1>1, <1>3, <1>4 DEF SameIds
<1>9. \A h \in DOMAIN m : h # s[i].id => n[h] = m[h]
  BY <1>1, <1>3, <1>4, <1>6 DEF SameIds, IdsOf
<1>10. n = [m EXCEPT ![s[i].id] = Content(v)]
  BY <1>3, <1>5, <1>7, <1>8, <1>9
<1>11. s[i].id \in DOMAIN m
  BY <1>3 DEF IdsOf
<1>12. QED BY <1>3, <1>10, <1>11 DEF m, n, t

(* A file that is not there keeps nothing. *)
FileFound == file.state = "absent" => file = NoFile

LEMMA Mapping ==
  /\ AbsMap = MapOf(todos)
  /\ AbsMap' = MapOf(todos')
BY DEF AbsMap, MapOf, Live, IdsOf

LEMMA EmptyMap == MapOf(<<>>) = <<>>
<1>1. IdsOf(<<>>) = {}
  BY DEF IdsOf
<1>2. MapOf(<<>>) = [h \in {} |-> Content(<<>>[CHOOSE i \in DOMAIN <<>> : <<>>[i].id = h])]
  BY <1>1 DEF MapOf
<1>3. QED BY <1>2

(* One dump: the file keeps the new list, or what the faults leave of it.  *)
LEMMA CommitRefines ==
  ASSUME mode = "run", NEW s \in Seq(Item), NEW k, Ordered(s, k), Commit(s, k),
         todos' = s => Abs!MapAdd \/ Abs!MapRemove \/ Abs!MapUpdate
  PROVE  Abs!MapNext
<1>1. CASE todos' = s /\ mode' = mode
  <2>1. CASE file' = WholeFile(s)
    <3>1. Abs!KeptInOrder([i \in DOMAIN file'.items |-> Content(Restored(file'.items[i], 0))], AbsMap')
      <4>1. file'.items = Image(s)
        BY <2>1 DEF WholeFile
      <4>2. QED BY <1>1, <4>1, ImageKept, Mapping DEF KeptOf
    <3>2. file'.state # "torn"
      BY <2>1 DEF WholeFile
    <3>3. Abs!MapChange
      BY <1>1, <3>1, <3>2 DEF Abs!MapChange
    <3>4. QED BY <3>3 DEF Abs!MapNext
  <2>2. CASE "unopened" \in Faults /\ file' = file
    <3>1. Abs!MapChange
      BY <1>1, <2>2 DEF Abs!MapChange
    <3>2. QED BY <3>1 DEF Abs!MapNext
  <2>3. CASE "short" \in Faults /\ file' = TornFile
    <3>1. Abs!Break
      BY <2>3 DEF Abs!Break, TornFile
    <3>2. Abs!MapChange
      BY <1>1, <2>3, <3>1 DEF Abs!MapChange
    <3>3. QED BY <3>2 DEF Abs!MapNext
  <2>4. QED BY <1>1, <2>1, <2>2, <2>3 DEF Commit, TornFile
<1>2. CASE "killed" \in Faults /\ todos' = <<>> /\ mode' = "off" /\ file' = TornFile
  <2>1. AbsMap' = <<>>
    BY <1>2, Mapping, EmptyMap
  <2>2. Abs!Break
    BY <1>2 DEF Abs!Break, TornFile
  <2>3. Abs!MapDies
    BY <1>2, <2>1, <2>2 DEF Abs!MapDies
  <2>4. QED BY <2>3 DEF Abs!MapNext
<1>3. QED BY <1>1, <1>2 DEF Commit

LEMMA LoadRefines ==
  ASSUME StoreInv, FileFound, Load
  PROVE  [Abs!MapNext]_Abs!mapVars
<1>1. todos = <<>> /\ mode # "run" /\ file' = file
  BY DEF Load, StoreInv, StoreTypeOK
<1>2. CASE file.state = "whole" /\ todos' = Loaded(file.items) /\ mode' = "run"
  <2> DEFINE recs == file.items
             ks == KeptOf(recs)
  <2>1. recs \in Seq(SavedItem)
    BY DEF StoreInv, StoreTypeOK, FileType
  <2>2. Loaded(recs) \in Seq(Item) /\ Ordered(Loaded(recs), Len(recs))
    BY <2>1, LoadedOrdered
  <2>3. /\ DOMAIN Loaded(recs) = DOMAIN recs
        /\ \A i \in DOMAIN recs : Loaded(recs)[i] = Restored(recs[i], i - 1)
    BY DEF Loaded
  <2>4. \A i \in DOMAIN recs : /\ Restored(recs[i], i - 1).id = i - 1
                               /\ Content(Restored(recs[i], i - 1)) = Content(Restored(recs[i], 0))
    BY RestoredContent DEF Restored
  <2>5. DOMAIN ks = DOMAIN recs /\ \A i \in DOMAIN recs : ks[i] = Content(Restored(recs[i], 0))
    BY DEF KeptOf
  <2>6. \A i \in DOMAIN recs : i \in Nat \ {0}
    BY <2>1
  <2> DEFINE m == MapOf(Loaded(recs))
  <2>7. /\ DOMAIN m = IdsOf(Loaded(recs))
        /\ \A i \in DOMAIN Loaded(recs) : m[Loaded(recs)[i].id] = Content(Loaded(recs)[i])
        /\ m = [h \in DOMAIN m |-> m[h]]
    <3>1. m = [h \in DOMAIN m |-> m[h]]
      BY DEF MapOf
    <3>2. QED BY <2>2, <3>1, MapEntries
  <2> HIDE DEF m, ks, recs
  <2>8. DOMAIN m = {i - 1 : i \in DOMAIN ks}
    BY <2>3, <2>4, <2>5, <2>7 DEF IdsOf
  <2>9. \A i \in DOMAIN recs : m[i - 1] = ks[i] /\ i = (i - 1) + 1
    BY <2>3, <2>4, <2>5, <2>6, <2>7
  <2>10. \A h \in DOMAIN m : m[h] = ks[h + 1]
    BY <2>5, <2>6, <2>8, <2>9
  <2>11. m = [h \in {i - 1 : i \in DOMAIN ks} |-> ks[h + 1]]
    BY <2>7, <2>8, <2>10
  <2>12. AbsMap' = [h \in {i - 1 : i \in DOMAIN ks} |-> ks[h + 1]]
    BY <1>2, <2>11, Mapping DEF m, recs
  <2>13. Abs!Open
    BY <1>1, <1>2, <2>12 DEF Abs!Open, ks, KeptOf, recs
  <2>14. QED BY <2>13 DEF Abs!MapNext
<1>3. CASE (file.state = "absent" \/ "unopened" \in Faults) /\ todos' = <<>> /\ mode' = "run"
  <2>1. AbsMap' = <<>>
    BY <1>3, Mapping, EmptyMap
  <2>2. CASE "unopened" \in Faults
    <3>1. Abs!Open
      BY <1>1, <1>3, <2>1, <2>2 DEF Abs!Open
    <3>2. QED BY <3>1 DEF Abs!MapNext
  <2>3. CASE file.state = "absent"
    <3>1. file.items = <<>> /\ file.state # "torn"
      BY <2>3 DEF FileFound, NoFile
    <3> DEFINE ks == [i \in DOMAIN file.items |-> Content(Restored(file.items[i], 0))]
    <3>2. DOMAIN ks = {}
      BY <3>1
    <3> HIDE DEF ks
    <3>3. [h \in {i - 1 : i \in DOMAIN ks} |-> ks[h + 1]] = <<>>
      <4>1. {i - 1 : i \in DOMAIN ks} = {}
        BY <3>2
      <4>2. [h \in {i - 1 : i \in DOMAIN ks} |-> ks[h + 1]] = [h \in {} |-> ks[h + 1]]
        BY <4>1
      <4>3. QED BY <4>2
    <3>4. Abs!Open
      BY <1>1, <1>3, <2>1, <3>1, <3>3 DEF Abs!Open, ks
    <3>5. QED BY <3>4 DEF Abs!MapNext
  <2>4. QED BY <1>3, <2>2, <2>3
<1>4. CASE todos' = <<>> /\ mode' = "dead"
  <2>1. AbsMap' = AbsMap
    BY <1>1, <1>4, Mapping
  <2>2. UNCHANGED Abs!mapVars
    BY <1>1, <1>4, <2>1 DEF Abs!mapVars
  <2>3. QED BY <2>2
<1>5. QED BY <1>2, <1>3, <1>4 DEF Load

LEMMA QuitRefines ==
  ASSUME Quit
  PROVE  Abs!MapNext
<1>1. AbsMap' = <<>>
  BY Mapping, EmptyMap DEF Quit
<1>2. Abs!Close
  BY <1>1 DEF Quit, Abs!Close
<1>3. QED BY <1>2 DEF Abs!MapNext

LEMMA AddRefines ==
  ASSUME StoreInv, NEW t \in Titles, NEW r \in Remarks, NEW d \in Times, NEW m \in Times,
         NEW now \in Stamps, AddTodo(t, r, d, m, now)
  PROVE  Abs!MapNext
<1> DEFINE item == [id |-> tick, text |-> t, remark |-> r, status |-> FALSE,
                    lastmodified |-> now, deadline |-> d, remind |-> m,
                    everyday |-> FALSE]
<1>1. todos \in Seq(Item) /\ tick \in Nat /\ Ordered(todos, tick)
  BY DEF StoreInv, StoreTypeOK, IdsOrdered, Ordered
<1>2. item \in Item /\ item.id = tick
  BY <1>1 DEF Item
<1>3. mode = "run" /\ Commit(Append(todos, item), tick + 1)
  BY DEF AddTodo
<1>4. Content(item) \in AddedContents
  <2> DEFINE Fields == {"text", "remark", "status", "lastmodified", "deadline", "remind", "everyday"}
             c == Content(item)
  <2>1. c = [f \in Fields |-> c[f]] /\ \A f \in Fields : c[f] = item[f]
    BY DEF Content
  <2>2. /\ item["text"] = t /\ item["remark"] = r /\ item["status"] = FALSE
        /\ item["lastmodified"] = now /\ item["deadline"] = d /\ item["remind"] = m
        /\ item["everyday"] = FALSE
    OBVIOUS
  <2> HIDE DEF c, item
  <2>3. /\ c["text"] = t /\ c["remark"] = r /\ c["status"] = FALSE
        /\ c["lastmodified"] = now /\ c["deadline"] = d /\ c["remind"] = m
        /\ c["everyday"] = FALSE
    BY <2>1, <2>2
  <2>4. c \in AddedContents
    BY <2>1, <2>3 DEF AddedContents
  <2>5. QED BY <2>4 DEF c
<1> HIDE DEF item
<1>5. Append(todos, item) \in Seq(Item) /\ Ordered(Append(todos, item), tick + 1)
  BY <1>1, <1>2, PushedOrdered
<1>6. ASSUME todos' = Append(todos, item)
      PROVE  Abs!MapAdd
  <2> DEFINE a == MapOf(todos)
             b == MapOf(Append(todos, item))
  <2>1. AddedAt(a, b, tick, Content(item))
    BY <1>1, <1>2, AddedMap
  <2>2. AbsMap = a /\ AbsMap' = b
    BY <1>6, Mapping
  <2> HIDE DEF a, b
  <2>3. QED BY <1>4, <2>1, <2>2 DEF Abs!MapAdd, AddedAt
<1>7. QED BY <1>3, <1>5, <1>6, CommitRefines

LEMMA RemoveRefines ==
  ASSUME StoreInv, NEW id \in Live, RemoveTodo(id)
  PROVE  Abs!MapNext
<1>1. todos \in Seq(Item) /\ tick \in Nat /\ Ordered(todos, tick)
  BY DEF StoreInv, StoreTypeOK, IdsOrdered, Ordered
<1>2. PICK i \in DOMAIN todos : todos[i].id = id
  BY DEF Live
<1>3. At(todos, id) = i
  BY <1>1, <1>2, SearchHits DEF At
<1>4. RemoveAt(todos, i) \in Seq(Item) /\ Ordered(RemoveAt(todos, i), tick)
  BY <1>1, ErasedList, ErasedOrdered
<1>5. mode = "run" /\ Commit(RemoveAt(todos, i), tick)
  BY <1>3 DEF RemoveTodo
<1>6. ASSUME todos' = RemoveAt(todos, i)
      PROVE  Abs!MapRemove
  <2>1. /\ id \in DOMAIN MapOf(todos)
        /\ MapOf(RemoveAt(todos, i)) = [g \in DOMAIN MapOf(todos) \ {id} |-> MapOf(todos)[g]]
    BY <1>1, <1>2, RemovedMap
  <2>2. AbsMap = MapOf(todos) /\ AbsMap' = MapOf(RemoveAt(todos, i))
    BY <1>6, Mapping
  <2>3. QED BY <2>1, <2>2 DEF Abs!MapRemove
<1>7. QED BY <1>4, <1>5, <1>6, CommitRefines

(* v is item with one field, or the status and its date, changed. *)
FieldChanged(item, v) ==
  \/ \E f \in {"text", "remark", "deadline", "remind", "everyday"} : \E x :
       Content(v) = [Content(item) EXCEPT ![f] = x]
  \/ \E x, y : Content(v) = [Content(item) EXCEPT !["status"] = x, !["lastmodified"] = y]

LEMMA UpdateRefines ==
  ASSUME StoreInv, mode = "run", NEW id \in Live, NEW v \in Item, v.id = id,
         Commit(Replace(todos, At(todos, id), v), tick),
         FieldChanged(todos[At(todos, id)], v)
  PROVE  Abs!MapNext
<1>1. todos \in Seq(Item) /\ tick \in Nat /\ Ordered(todos, tick)
  BY DEF StoreInv, StoreTypeOK, IdsOrdered, Ordered
<1>2. PICK i \in DOMAIN todos : todos[i].id = id
  BY DEF Live
<1>3. At(todos, id) = i
  BY <1>1, <1>2, SearchHits DEF At
<1> DEFINE s == Replace(todos, i, v)
<1>4. s \in Seq(Item) /\ Ordered(s, tick)
  BY <1>1, <1>2, ReplacedItem, UpdatedOrdered
<1>5. ASSUME todos' = s
      PROVE  Abs!MapUpdate
  <2> DEFINE a == MapOf(todos)
             b == MapOf(s)
  <2>1. /\ id \in DOMAIN a
        /\ b = [a EXCEPT ![id] = Content(v)]
        /\ a[id] = Content(todos[i])
    BY <1>1, <1>2, UpdatedMap
  <2>2. AbsMap = a /\ AbsMap' = b
    BY <1>5, Mapping
  <2> HIDE DEF a, b
  <2>3. DOMAIN b = DOMAIN a /\ b[id] = Content(v)
    BY <2>1
  <2>4. CASE \E f \in {"text", "remark", "deadline", "remind", "everyday"} : \E x :
               Content(v) = [Content(todos[i]) EXCEPT ![f] = x]
    <3>1. PICK f \in {"text", "remark", "deadline", "remind", "everyday"} : \E x :
                 Content(v) = [Content(todos[i]) EXCEPT ![f] = x]
      BY <2>4
    <3> PICK x : Content(v) = [Content(todos[i]) EXCEPT ![f] = x]
      BY <3>1
    <3>2. f \in DOMAIN Content(todos[i])
      BY DEF Content
    <3>3. b[id][f] = x
      BY <2>3, <3>1, <3>2
    <3>4. b = [a EXCEPT ![id][f] = b[id][f]]
      <4>1. b = [a EXCEPT ![id] = [a[id] EXCEPT ![f] = x]]
        BY <2>1, <3>1
      <4>2. [a EXCEPT ![id][f] = x] = [a EXCEPT ![id] = [a[id] EXCEPT ![f] = x]]
        OBVIOUS
      <4>3. QED BY <3>3, <4>1, <4>2
    <3>5. id \in DOMAIN AbsMap /\ DOMAIN AbsMap' = DOMAIN AbsMap
      BY <2>1, <2>2, <2>3
    <3>6. AbsMap' = [AbsMap EXCEPT ![id][f] = (AbsMap')[id][f]]
      BY <2>2, <3>4, Zenon
    <3>7. QED BY <3>5, <3>6, Zenon DEF Abs!MapUpdate
  <2>5. CASE \E x, y :
               Content(v) = [Content(todos[i]) EXCEPT !["status"] = x, !["lastmodified"] = y]
    <3>1. PICK x, y :
            Content(v) = [Content(todos[i]) EXCEPT !["status"] = x, !["lastmodified"] = y]
      BY <2>5
    <3>2. {"status", "lastmodified"} \subseteq DOMAIN Content(todos[i])
      BY DEF Content
    <3>3. b[id].status = x /\ b[id].lastmodified = y
      BY <2>3, <3>1, <3>2
    <3>4. b = [a EXCEPT ![id].status = b[id].status,
                        ![id].lastmodified = b[id].lastmodified]
      BY <2>1, <3>1, <3>3
    <3>5. QED BY <2>1, <2>2, <2>3, <3>4 DEF Abs!MapUpdate
  <2>6. QED BY <1>3, <2>4, <2>5 DEF FieldChanged
<1>6. mode = "run" /\ Commit(s, tick)
  BY <1>3
<1> HIDE DEF s
<1>7. QED BY <1>4, <1>5, <1>6, CommitRefines

(* Each update function rewrites the item the search finds. *)
LEMMA UpdatesRefine ==
  ASSUME StoreInv, NEW id \in Live,
         \/ \E b \in BOOLEAN, now \in Stamps : UpdateStatus(id, b, now)
         \/ \E t \in Titles : UpdateTitle(id, t)
         \/ \E r \in Remarks : UpdateRemark(id, r)
         \/ \E t \in Times : UpdateDeadline(id, t)
         \/ \E t \in Times : UpdateRemaind(id, t)
         \/ \E b \in BOOLEAN : UpdateEveryday(id, b)
  PROVE  Abs!MapNext
<1> DEFINE n == At(todos, id)
           item == todos[n]
<1>1. item \in Item /\ item.id = id
  <2>1. todos \in Seq(Item) /\ Ordered(todos, tick)
    BY DEF StoreInv, StoreTypeOK, IdsOrdered, Ordered
  <2>2. PICK i \in DOMAIN todos : todos[i].id = id
    BY DEF Live
  <2>3. n = i
    BY <2>1, <2>2, SearchHits DEF At
  <2>4. QED BY <2>1, <2>2, <2>3, ElementTyped
<1>2. ASSUME mode = "run", NEW v \in Item, v.id = id, FieldChanged(item, v),
             Commit(Replace(todos, n, v), tick)
      PROVE  Abs!MapNext
  BY <1>2, UpdateRefines
<1>3. ASSUME NEW b \in BOOLEAN, NEW now \in Stamps, UpdateStatus(id, b, now)
      PROVE  Abs!MapNext
  <2> DEFINE v == [item EXCEPT !.status = b, !.lastmodified = now]
  <2>1. mode = "run" /\ Commit(Replace(todos, n, v), tick)
    BY <1>3 DEF UpdateStatus, WithStatus, Replace
  <2>2. v \in Item /\ v.id = id
    BY <1>1 DEF Item
  <2>3. FieldChanged(item, v)
    <3>1. Content(v) = [Content(item) EXCEPT !["status"] = b, !["lastmodified"] = now]
      <4>0. item \in Item
        BY <1>1
      <4> HIDE DEF item
      <4>1. QED BY <4>0 DEF Content, Item
    <3>2. QED BY <3>1 DEF FieldChanged
  <2> HIDE DEF v, n, item
  <2>4. QED BY <2>1, <2>2, <2>3, <1>2
<1>4. ASSUME NEW v, NEW f \in {"text", "remark", "deadline", "remind", "everyday"}, NEW x,
             mode = "run", v \in Item, v.id = id,
             Content(v) = [Content(item) EXCEPT ![f] = x],
             Commit(Replace(todos, n, v), tick)
      PROVE  Abs!MapNext
  <2>1. FieldChanged(item, v)
    BY <1>4 DEF FieldChanged
  <2>2. QED BY <1>2, <1>4, <2>1
<1>5. ASSUME NEW x \in Titles, UpdateTitle(id, x)
      PROVE  Abs!MapNext
  <2> DEFINE v == [item EXCEPT !.text = x]
  <2>1. mode = "run" /\ Commit(Replace(todos, n, v), tick)
    BY <1>5 DEF UpdateTitle, WithTitle, Replace
  <2>2. v \in Item /\ v.id = id /\ Content(v) = [Content(item) EXCEPT !["text"] = x]
    BY <1>1, UpdatedField, ContentChanged
  <2> HIDE DEF v, n, item
  <2>3. QED BY <2>1, <2>2, <1>4
<1>6. ASSUME NEW x \in Remarks, UpdateRemark(id, x)
      PROVE  Abs!MapNext
  <2> DEFINE v == [item EXCEPT !.remark = x]
  <2>1. mode = "run" /\ Commit(Replace(todos, n, v), tick)
    BY <1>6 DEF UpdateRemark, WithRemark, Replace
  <2>2. v \in Item /\ v.id = id /\ Content(v) = [Content(item) EXCEPT !["remark"] = x]
    BY <1>1, UpdatedField, ContentChanged
  <2> HIDE DEF v, n, item
  <2>3. QED BY <2>1, <2>2, <1>4
<1>7. ASSUME NEW x \in Times, UpdateDeadline(id, x)
      PROVE  Abs!MapNext
  <2> DEFINE v == [item EXCEPT !.deadline = x]
  <2>1. mode = "run" /\ Commit(Replace(todos, n, v), tick)
    BY <1>7 DEF UpdateDeadline, WithDeadline, Replace
  <2>2. v \in Item /\ v.id = id /\ Content(v) = [Content(item) EXCEPT !["deadline"] = x]
    BY <1>1, UpdatedField, ContentChanged
  <2> HIDE DEF v, n, item
  <2>3. QED BY <2>1, <2>2, <1>4
<1>8. ASSUME NEW x \in Times, UpdateRemaind(id, x)
      PROVE  Abs!MapNext
  <2> DEFINE v == [item EXCEPT !.remind = x]
  <2>1. mode = "run" /\ Commit(Replace(todos, n, v), tick)
    BY <1>8 DEF UpdateRemaind, WithRemind, Replace
  <2>2. v \in Item /\ v.id = id /\ Content(v) = [Content(item) EXCEPT !["remind"] = x]
    BY <1>1, UpdatedField, ContentChanged
  <2> HIDE DEF v, n, item
  <2>3. QED BY <2>1, <2>2, <1>4
<1>9. ASSUME NEW x \in BOOLEAN, UpdateEveryday(id, x)
      PROVE  Abs!MapNext
  <2> DEFINE v == [item EXCEPT !.everyday = x]
  <2>1. mode = "run" /\ Commit(Replace(todos, n, v), tick)
    BY <1>9 DEF UpdateEveryday, WithEveryday, Replace
  <2>2. v \in Item /\ v.id = id /\ Content(v) = [Content(item) EXCEPT !["everyday"] = x]
    BY <1>1, UpdatedField, ContentChanged
  <2> HIDE DEF v, n, item
  <2>3. QED BY <2>1, <2>2, <1>4
<1>10. QED BY <1>3, <1>5, <1>6, <1>7, <1>8, <1>9

LEMMA StepRefines ==
  ASSUME StoreInv, FileFound, [StoreNext]_storeVars
  PROVE  [Abs!MapNext]_Abs!mapVars
<1>1. CASE Load
  BY <1>1, LoadRefines
<1>2. CASE Quit
  BY <1>2, QuitRefines
<1>3. ASSUME NEW t \in Titles, NEW r \in Remarks, NEW d \in Times, NEW m \in Times,
             NEW now \in Stamps, AddTodo(t, r, d, m, now)
      PROVE  Abs!MapNext
  BY <1>3, AddRefines
<1>4. ASSUME NEW id \in Live, RemoveTodo(id)
      PROVE  Abs!MapNext
  BY <1>4, RemoveRefines
<1>5. CASE UNCHANGED storeVars
  <2>1. AbsMap' = AbsMap
    BY <1>5, Mapping DEF storeVars
  <2>2. UNCHANGED Abs!mapVars
    BY <1>5, <2>1 DEF storeVars, Abs!mapVars
  <2>3. QED BY <2>2
<1>6. QED BY <1>1, <1>2, <1>3, <1>4, <1>5, UpdatesRefine DEF StoreNext

LEMMA StepFinds ==
  ASSUME FileFound, [StoreNext]_storeVars
  PROVE  FileFound'
<1>1. ASSUME NEW s, NEW k, Commit(s, k)
      PROVE  FileFound'
  BY <1>1 DEF FileFound, Commit, WholeFile, TornFile
<1>2. CASE UNCHANGED file
  BY <1>2 DEF FileFound
<1>3. QED
  BY <1>1, <1>2 DEF StoreNext, storeVars, Load, Quit, AddTodo, RemoveTodo, UpdateStatus,
       UpdateTitle, UpdateRemark, UpdateDeadline, UpdateRemaind, UpdateEveryday

(* The vector, the binary search, the id counter and the file implement the *)
(* map of handles: every member function of TodoMgr, with all that may go   *)
(* wrong in its dump, and every start and end of the program is a step of   *)
(* TodoMap or leaves the map alone.                                         *)
THEOREM StoreImplementsMap == StoreSpec => ImplementsTodoMap
<1>1. StoreInit => Abs!MapInit
  <2> SUFFICES ASSUME StoreInit
               PROVE  Abs!MapInit
    OBVIOUS
  <2>1. AbsMap = <<>>
    BY Mapping, EmptyMap DEF StoreInit
  <2>2. file.items = <<>> /\ file.state = "absent" /\ mode = "off"
    BY DEF StoreInit, NoFile
  <2>3. [i \in DOMAIN file.items |-> Content(Restored(file.items[i], 0))] = <<>>
    BY <2>2
  <2>4. QED BY <2>1, <2>2, <2>3 DEF Abs!MapInit
<1>2. StoreInit => FileFound
  BY DEF StoreInit, FileFound
<1>3. FileFound /\ [StoreNext]_storeVars => FileFound'
  BY StepFinds
<1>4. StoreInv /\ FileFound /\ [StoreNext]_storeVars => [Abs!MapNext]_Abs!mapVars
  BY StepRefines
<1>5. QED
  BY <1>1, <1>2, <1>3, <1>4, StoreInvariant, PTL DEF StoreSpec, ImplementsTodoMap, Abs!MapSpec

=============================================================================
