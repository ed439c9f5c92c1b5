------------------------- MODULE ScreenTime_proofs -------------------------
(***************************************************************************)
(* Proofs about ScreenTime, for any windows, any finite set of titles and  *)
(* any number of waiting senders: the times credited add up, and they are  *)
(* the times the titles were in front.  The sum over the titles is a fold, *)
(* of which only its recursive equation is known: that it exists, is a     *)
(* number and grows with each of its terms comes first.  The inductive     *)
(* invariant is ScreenInv.                                                 *)
(***************************************************************************)
EXTENDS ScreenTime, FiniteSetTheorems, WellFoundedInduction, TLAPS

(* FoldFunction of the community modules: the sums over the subsets of S   *)
(* are one function, each taken from the sum without a chosen element.     *)
First(s) == CHOOSE x \in s : TRUE

IsSums(f, S, g) ==
  g = [s \in SUBSET S |-> IF s = {} THEN 0 ELSE f[First(s)] + g[s \ {First(s)}]]

Sums(f, S) == CHOOSE g : IsSums(f, S, g)

LEMMA SumOfIs ==
  ASSUME NEW f
  PROVE  SumOf(f) = Sums(f, DOMAIN f)[DOMAIN f]
BY DEF SumOf, SumFunction, SumFunctionOnSet, FoldFunctionOnSet, MapThenFoldSet, Sums, IsSums, First

-----------------------------------------------------------------------------
(* Sums.  What follows is by the number of elements of a subset: a least   *)
(* one for which it fails would be one that holds for its predecessor.     *)

LEMMA Least ==
  ASSUME NEW B, B \subseteq Nat, B # {}
  PROVE  \E b \in B : \A j \in B : ~(j < b)
<1>1. PICK b \in B : \A j \in B : ~(<<j, b>> \in OpToRel(<, Nat))
  BY NatLessThanWellFounded, WFMin
<1>2. \A j \in B : ~(j < b)
  BY <1>1 DEF OpToRel
<1>3. QED BY <1>2

LEMMA WithoutFirst ==
  ASSUME NEW S, IsFiniteSet(S), NEW s \in SUBSET S, s # {}
  PROVE  /\ First(s) \in s /\ First(s) \in S /\ s \ {First(s)} \in SUBSET S
         /\ Cardinality(s) \in Nat /\ Cardinality(s \ {First(s)}) \in Nat
         /\ Cardinality(s) = Cardinality(s \ {First(s)}) + 1
<1>1. First(s) \in s
  BY DEF First
<1>2. IsFiniteSet(s)
  BY FS_Subset
<1>3. IsFiniteSet(s \ {First(s)}) /\ Cardinality(s \ {First(s)}) = Cardinality(s) - 1
  BY <1>1, <1>2, FS_RemoveElement
<1>4. Cardinality(s) \in Nat /\ Cardinality(s \ {First(s)}) \in Nat
  BY <1>2, <1>3, FS_CardinalityType
<1>5. QED BY <1>1, <1>3, <1>4

LEMMA ByElements ==
  ASSUME NEW S, IsFiniteSet(S), NEW Q, {} \in Q,
         \A s \in SUBSET S : s # {} /\ s \ {First(s)} \in Q => s \in Q
  PROVE  \A s \in SUBSET S : s \in Q
<1> DEFINE B == {n \in Nat : \E s \in SUBSET S : s \notin Q /\ Cardinality(s) = n}
<1>1. B = {}
  <2> SUFFICES ASSUME B # {}
               PROVE  FALSE
    OBVIOUS
  <2>1. PICK b \in B : \A j \in B : ~(j < b)
    BY Least
  <2>2. PICK s \in SUBSET S : s \notin Q /\ Cardinality(s) = b
    OBVIOUS
  <2>3. s # {}
    BY <2>2
  <2>4. /\ s \ {First(s)} \in SUBSET S /\ Cardinality(s \ {First(s)}) \in Nat
        /\ b = Cardinality(s \ {First(s)}) + 1
    BY <2>2, <2>3, WithoutFirst
  <2>5. Cardinality(s \ {First(s)}) < b
    <3> DEFINE c == Cardinality(s \ {First(s)})
    <3>1. c \in Nat /\ b = c + 1
      BY <2>4
    <3> HIDE DEF c
    <3>2. c < b
      BY <3>1
    <3>3. QED BY <3>2 DEF c
  <2>6. s \ {First(s)} \in Q
    BY <2>1, <2>4, <2>5
  <2>7. QED BY <2>2, <2>3, <2>6
<1>2. \A s \in SUBSET S : Cardinality(s) \in Nat
  BY FS_Subset, FS_CardinalityType
<1>3. QED BY <1>1, <1>2

Small(S, n) == {s \in SUBSET S : Cardinality(s) <= n}

SumsTo(f, S, n, g) ==
  /\ g \in [Small(S, n) -> Nat]
  /\ \A s \in Small(S, n) : g[s] = IF s = {} THEN 0 ELSE f[First(s)] + g[s \ {First(s)}]

LEMMA SumsExtend ==
  ASSUME NEW S, IsFiniteSet(S), NEW f \in [S -> Nat], NEW n \in Nat,
         NEW g, SumsTo(f, S, n, g)
  PROVE  \E h : SumsTo(f, S, n + 1, h)
<1> DEFINE h == [s \in Small(S, n + 1) |->
                   IF s = {} THEN 0 ELSE f[First(s)] + g[s \ {First(s)}]]
<1>1. \A s \in Small(S, n + 1) :
        s # {} => f[First(s)] \in Nat /\ s \ {First(s)} \in Small(S, n)
  BY WithoutFirst DEF Small
<1>2. Small(S, n) \subseteq Small(S, n + 1)
  <2>1. \A s \in SUBSET S : Cardinality(s) \in Nat
    BY FS_Subset, FS_CardinalityType
  <2>2. QED BY <2>1 DEF Small
<1>3. g \in [Small(S, n) -> Nat]
  BY DEF SumsTo
<1>4. \A s \in Small(S, n) : g[s] = IF s = {} THEN 0 ELSE f[First(s)] + g[s \ {First(s)}]
  BY DEF SumsTo
<1>5. \A s \in Small(S, n + 1) : h[s] = IF s = {} THEN 0 ELSE f[First(s)] + g[s \ {First(s)}]
  OBVIOUS
<1>6. DOMAIN h = Small(S, n + 1) /\ h = [s \in Small(S, n + 1) |-> h[s]]
  OBVIOUS
<1> HIDE DEF h
<1>7. \A s \in Small(S, n) : h[s] = g[s]
  BY <1>2, <1>4, <1>5
<1>8. \A s \in Small(S, n + 1) : h[s] \in Nat
  <2> SUFFICES ASSUME NEW s \in Small(S, n + 1)
               PROVE  h[s] \in Nat
    OBVIOUS
  <2>1. CASE s = {}
    BY <2>1, <1>5
  <2>2. CASE s # {}
    <3>1. f[First(s)] \in Nat /\ g[s \ {First(s)}] \in Nat
      BY <2>2, <1>1, <1>3
    <3>2. h[s] = f[First(s)] + g[s \ {First(s)}]
      BY <2>2, <1>5
    <3>3. QED BY <3>1, <3>2
  <2>3. QED BY <2>1, <2>2
<1>9. h \in [Small(S, n + 1) -> Nat]
  BY <1>6, <1>8
<1>10. \A s \in Small(S, n + 1) : h[s] = IF s = {} THEN 0 ELSE f[First(s)] + h[s \ {First(s)}]
  BY <1>1, <1>5, <1>7
<1>11. SumsTo(f, S, n + 1, h)
  BY <1>9, <1>10 DEF SumsTo
<1>12. QED BY <1>11

LEMMA SumsUpTo ==
  ASSUME NEW S, IsFiniteSet(S), NEW f \in [S -> Nat]
  PROVE  \A n \in Nat : \E g : SumsTo(f, S, n, g)
<1> DEFINE B == {n \in Nat : ~ \E g : SumsTo(f, S, n, g)}
<1> SUFFICES ASSUME B # {}
             PROVE  FALSE
  OBVIOUS
<1>1. PICK b \in B : \A j \in B : ~(j < b)
  BY Least
<1>2. CASE b = 0
  <2> DEFINE g == [s \in Small(S, 0) |-> 0]
  <2>1. \A s \in Small(S, 0) : s = {}
    <3>1. \A s \in SUBSET S : IsFiniteSet(s) /\ Cardinality(s) \in Nat
      BY FS_Subset, FS_CardinalityType
    <3>2. \A s \in Small(S, 0) : IsFiniteSet(s) /\ Cardinality(s) = 0
      BY <3>1 DEF Small
    <3>3. QED BY <3>2, FS_EmptySet
  <2>2. SumsTo(f, S, 0, g)
    BY <2>1 DEF SumsTo
  <2>3. QED BY <2>2, <1>2
<1>3. CASE b # 0
  <2>1. b - 1 \in Nat /\ b - 1 < b /\ (b - 1) + 1 = b
    BY <1>3
  <2>2. PICK g : SumsTo(f, S, b - 1, g)
    BY <2>1, <1>1
  <2>3. \E h : SumsTo(f, S, b, h)
    BY <2>1, <2>2, SumsExtend
  <2>4. QED BY <2>3
<1>4. QED BY <1>2, <1>3

LEMMA SumsAre ==
  ASSUME NEW S, IsFiniteSet(S), NEW f \in [S -> Nat]
  PROVE  /\ Sums(f, S) \in [SUBSET S -> Nat]
         /\ \A s \in SUBSET S :
              Sums(f, S)[s] = IF s = {} THEN 0 ELSE f[First(s)] + Sums(f, S)[s \ {First(s)}]
<1>1. Cardinality(S) \in Nat
  BY FS_CardinalityType
<1>2. \A s \in SUBSET S : IsFiniteSet(s) /\ Cardinality(s) <= Cardinality(S)
  BY FS_Subset
<1>3. Small(S, Cardinality(S)) = SUBSET S
  BY <1>2 DEF Small
<1>4. PICK g : SumsTo(f, S, Cardinality(S), g)
  BY <1>1, SumsUpTo
<1>5. IsSums(f, S, g)
  BY <1>3, <1>4 DEF IsSums, SumsTo
<1>6. IsSums(f, S, Sums(f, S))
  BY <1>5 DEF Sums
<1>7. \A s \in SUBSET S :
        Sums(f, S)[s] = IF s = {} THEN 0 ELSE f[First(s)] + Sums(f, S)[s \ {First(s)}]
  <2> DEFINE F == Sums(f, S)
  <2>1. F = [s \in SUBSET S |-> IF s = {} THEN 0 ELSE f[First(s)] + F[s \ {First(s)}]]
    BY <1>6 DEF IsSums
  <2> HIDE DEF F
  <2>2. \A s \in SUBSET S : F[s] = IF s = {} THEN 0 ELSE f[First(s)] + F[s \ {First(s)}]
    BY <2>1
  <2>3. QED BY <2>2 DEF F
<1> DEFINE Q == {s \in SUBSET S : Sums(f, S)[s] \in Nat}
<1>8. {} \in Q
  BY <1>7
<1>9. \A s \in SUBSET S : s # {} /\ s \ {First(s)} \in Q => s \in Q
  <2> SUFFICES ASSUME NEW s \in SUBSET S, s # {}, s \ {First(s)} \in Q
               PROVE  s \in Q
    OBVIOUS
  <2>1. f[First(s)] \in Nat
    BY WithoutFirst
  <2>2. Sums(f, S)[s] = f[First(s)] + Sums(f, S)[s \ {First(s)}]
    BY <1>7
  <2>3. Sums(f, S)[s \ {First(s)}] \in Nat
    OBVIOUS
  <2>4. Sums(f, S)[s] \in Nat
    BY <2>1, <2>2, <2>3
  <2>5. QED BY <2>4
<1> HIDE DEF Q
<1>10. \A s \in SUBSET S : s \in Q
  BY <1>8, <1>9, ByElements
<1>11. \A s \in SUBSET S : Sums(f, S)[s] \in Nat
  BY <1>10 DEF Q
<1>12. Sums(f, S) = [s \in SUBSET S |-> Sums(f, S)[s]]
  BY <1>6 DEF IsSums
<1> DEFINE F == Sums(f, S)
<1> HIDE DEF F
<1>13. F \in [SUBSET S -> Nat]
  BY <1>11, <1>12 DEF F
<1>14. QED BY <1>7, <1>13 DEF F

(* All of S together, which is what SumOf of a function on S is.           *)
LEMMA SumType ==
  ASSUME NEW S, IsFiniteSet(S), NEW f \in [S -> Nat]
  PROVE  SumOf(f) \in Nat
<1>1. DOMAIN f = S
  OBVIOUS
<1>2. Sums(f, S) \in [SUBSET S -> Nat]
  BY SumsAre
<1>3. Sums(f, S)[S] \in Nat
  BY <1>2
<1>4. QED BY <1>1, <1>3, SumOfIs

LEMMA SumOfNothing ==
  ASSUME NEW S, IsFiniteSet(S), NEW f \in [S -> Nat], \A x \in S : f[x] = 0
  PROVE  SumOf(f) = 0
<1> DEFINE Q == {s \in SUBSET S : Sums(f, S)[s] = 0}
<1>1. {} \in Q
  BY SumsAre
<1>2. \A s \in SUBSET S : s # {} /\ s \ {First(s)} \in Q => s \in Q
  <2> SUFFICES ASSUME NEW s \in SUBSET S, s # {}, s \ {First(s)} \in Q
               PROVE  s \in Q
    OBVIOUS
  <2>1. f[First(s)] = 0
    BY WithoutFirst
  <2>2. Sums(f, S)[s] = f[First(s)] + Sums(f, S)[s \ {First(s)}]
    <3>1. \A q \in SUBSET S :
            Sums(f, S)[q] = IF q = {} THEN 0 ELSE f[First(q)] + Sums(f, S)[q \ {First(q)}]
      BY SumsAre
    <3>2. QED BY <3>1, Zenon
  <2>3. Sums(f, S)[s] = 0
    BY <2>1, <2>2
  <2>4. QED BY <2>3
<1> HIDE DEF Q
<1>3. \A s \in SUBSET S : s \in Q
  BY <1>1, <1>2, ByElements
<1>4. Sums(f, S)[S] = 0 /\ DOMAIN f = S
  BY <1>3 DEF Q
<1>5. QED BY <1>4, SumOfIs

(* g is f with d more at t.                                                *)
Raised(S, f, g, t, d) ==
  /\ t \in S /\ d \in Nat /\ f \in [S -> Nat] /\ g \in [S -> Nat]
  /\ \A x \in S : g[x] = IF x = t THEN f[t] + d ELSE f[x]

LEMMA RaisedOnce ==
  ASSUME NEW S, NEW f \in [S -> Nat], NEW t \in S, NEW d \in Nat,
         NEW g, g = [f EXCEPT ![t] = @ + d]
  PROVE  Raised(S, f, g, t, d)
BY DEF Raised

(* What is added at one place is added to the sum.                         *)
LEMMA SumAdds ==
  ASSUME NEW S, IsFiniteSet(S), NEW f, NEW g, NEW t, NEW d, Raised(S, f, g, t, d)
  PROVE  SumOf(g) = SumOf(f) + d
<1> DEFINE Q == {s \in SUBSET S : Sums(g, S)[s] = Sums(f, S)[s] + (IF t \in s THEN d ELSE 0)}
<1>1. /\ t \in S /\ d \in Nat /\ f \in [S -> Nat] /\ g \in [S -> Nat]
      /\ \A x \in S : g[x] = IF x = t THEN f[t] + d ELSE f[x]
  BY DEF Raised
<1> USE <1>1
<1>2. {} \in Q
  <2>1. Sums(g, S)[{}] = 0 /\ Sums(f, S)[{}] = 0
    BY <1>1, SumsAre
  <2>2. QED BY <2>1
<1>3. \A s \in SUBSET S : s # {} /\ s \ {First(s)} \in Q => s \in Q
  <2> SUFFICES ASSUME NEW s \in SUBSET S, s # {}, s \ {First(s)} \in Q
               PROVE  s \in Q
    OBVIOUS
  <2> DEFINE r == s \ {First(s)}
  <2>1. First(s) \in S /\ First(s) \in s
    BY WithoutFirst
  <2>2. /\ Sums(g, S)[s] = g[First(s)] + Sums(g, S)[r]
        /\ Sums(f, S)[s] = f[First(s)] + Sums(f, S)[r]
    <3>1. Sums(g, S)[s] = g[First(s)] + Sums(g, S)[r]
      <4>1. g \in [S -> Nat]
        BY <1>1
      <4>2. \A q \in SUBSET S :
              Sums(g, S)[q] = IF q = {} THEN 0 ELSE g[First(q)] + Sums(g, S)[q \ {First(q)}]
        BY <4>1, SumsAre
      <4>3. QED BY <4>2, Zenon
    <3>2. Sums(f, S)[s] = f[First(s)] + Sums(f, S)[r]
      <4>1. \A q \in SUBSET S :
              Sums(f, S)[q] = IF q = {} THEN 0 ELSE f[First(q)] + Sums(f, S)[q \ {First(q)}]
        BY SumsAre
      <4>2. QED BY <4>1, Zenon
    <3>3. QED BY <3>1, <3>2
  <2>3. Sums(g, S)[r] = Sums(f, S)[r] + (IF t \in r THEN d ELSE 0)
    OBVIOUS
  <2>4. f[First(s)] \in Nat /\ Sums(f, S)[r] \in Nat
    <3>1. r \in SUBSET S
      OBVIOUS
    <3>2. Sums(f, S) \in [SUBSET S -> Nat]
      BY SumsAre
    <3>3. QED BY <2>1, <3>1, <3>2
  <2>5. Sums(g, S)[s] = Sums(f, S)[s] + (IF t \in s THEN d ELSE 0)
    <3>1. CASE First(s) = t
      <4>1. g[First(s)] = f[First(s)] + d /\ t \in s /\ t \notin r
        BY <3>1, <1>1, <2>1
      <4> HIDE DEF r
      <4>2. QED BY <4>1, <2>2, <2>3, <2>4
    <3>2. CASE First(s) # t
      <4>1. g[First(s)] = f[First(s)] /\ (t \in s <=> t \in r)
        BY <3>2, <1>1, <2>1
      <4>2. (IF t \in r THEN d ELSE 0) \in Nat
        OBVIOUS
      <4> HIDE DEF r
      <4>3. QED BY <4>1, <4>2, <2>2, <2>3, <2>4
    <3>3. QED BY <3>1, <3>2
  <2>6. QED BY <2>5
<1> HIDE DEF Q
<1>4. \A s \in SUBSET S : s \in Q
  BY <1>2, <1>3, ByElements
<1>5. Sums(g, S)[S] = Sums(f, S)[S] + d
  BY <1>4 DEF Q
<1>6. SumOf(g) = Sums(g, S)[S] /\ SumOf(f) = Sums(f, S)[S]
  BY <1>1, SumOfIs
<1>7. QED BY <1>5, <1>6

LEMMA PartOfSum ==
  ASSUME NEW S, IsFiniteSet(S), NEW f \in [S -> Nat], NEW t \in S
  PROVE  f[t] <= SumOf(f)
<1> DEFINE z == [f EXCEPT ![t] = 0]
<1>1. z \in [S -> Nat] /\ f[t] \in Nat
  OBVIOUS
<1>2. Raised(S, z, f, t, f[t])
  BY <1>1 DEF Raised
<1> HIDE DEF z
<1>3. SumOf(f) = SumOf(z) + f[t]
  BY <1>2, SumAdds
<1>4. SumOf(z) \in Nat
  BY <1>1, SumType
<1> DEFINE A == SumOf(f)
           C == SumOf(z)
<1> HIDE DEF A, C
<1>5. A = C + f[t] /\ C \in Nat
  BY <1>3, <1>4 DEF A, C
<1>6. f[t] <= A
  BY <1>1, <1>5
<1>7. QED BY <1>6 DEF A

-----------------------------------------------------------------------------
(* The inductive invariant.                                                *)

(* The title of which the time is running.                                 *)
Running == IF drawing = Untitled THEN lastWindowTitle ELSE drawing

(* Until when time has been credited: all of it while the list is drawn.   *)
CreditedTill == IF drawing = Untitled THEN lastTimePoint ELSE clock

Histories ==
  /\ real \in [Titles -> Nat] /\ drawn \in [Titles -> Nat]
  /\ began <= lastTimePoint

(* Before the first title nothing is counted.                              *)
NotBegun ==
  lastWindowTitle = Untitled =>
    /\ drawing = Untitled /\ lastTimePoint = began
    /\ usageData = Nobody /\ drawn = Nobody /\ real = Nobody

Total == SumOf(usageData) + SumOf(drawn) + began = CreditedTill

(* The window in front is the one that sent last or, once its message is   *)
(* handled, the one whose time is running.                                 *)
FrontReports ==
  plain /\ hooked =>
    /\ senders # <<>> => senders[Len(senders)] = front /\ title[front] # Untitled
    /\ senders = <<>> /\ lastWindowTitle # Untitled => title[front] = Running

Stint(t) == IF t = lastWindowTitle /\ drawing = Untitled THEN clock - lastTimePoint ELSE 0

AllCredited ==
  plain /\ hooked /\ lastWindowTitle # Untitled =>
    \A t \in Titles \ {Untitled} : usageData[t] + Stint(t) + drawn[t] = real[t]

ScreenInv ==
  ScreenTypeOK /\ Histories /\ NotBegun /\ Total /\ FrontReports /\ AllCredited

LEMMA InitHolds == ScreenInit => ScreenInv
<1> SUFFICES ASSUME ScreenInit
             PROVE  ScreenInv
  OBVIOUS
<1> USE ScreenAssumption
<1>1. Nobody \in [Titles -> 0..MaxClock] /\ Nobody \in [Titles -> Nat] /\ \A t \in Titles : Nobody[t] = 0
  BY DEF Nobody
<1>2. SumOf(Nobody) = 0
  BY <1>1, SumOfNothing
<1>3. <<>> \in Seq(Wnds \ Unhooked) /\ Len(<<>>) = 0
  OBVIOUS
<1>4. ScreenTypeOK
  BY <1>1, <1>3 DEF ScreenInit, ScreenTypeOK
<1>5. Histories
  BY <1>1 DEF ScreenInit, Histories
<1>6. NotBegun
  BY DEF ScreenInit, NotBegun
<1>7. Total
  BY <1>2 DEF ScreenInit, Total, CreditedTill
<1>8. FrontReports
  BY DEF ScreenInit, FrontReports
<1>9. AllCredited
  BY DEF ScreenInit, AllCredited
<1>10. QED BY <1>4, <1>5, <1>6, <1>7, <1>8, <1>9 DEF ScreenInv

(* The sums are numbers.                                                   *)
LEMMA SumsTyped ==
  ASSUME ScreenInv
  PROVE  /\ SumOf(usageData) \in Nat /\ SumOf(drawn) \in Nat
         /\ usageData \in [Titles -> Nat]
<1>1. usageData \in [Titles -> Nat]
  BY ScreenAssumption DEF ScreenInv, ScreenTypeOK
<1>2. drawn \in [Titles -> Nat] /\ IsFiniteSet(Titles)
  BY ScreenAssumption DEF ScreenInv, Histories
<1>3. QED BY <1>1, <1>2, SumType

LEMMA ActivateKeeps ==
  ASSUME ScreenInv, NEW w \in Wnds, Activate(w)
  PROVE  ScreenInv'
<1> USE ScreenAssumption DEF ScreenInv
<1>1. UNCHANGED <<usageData, lastWindowTitle, lastTimePoint, drawing, hooked,
                  clock, title, real, drawn, began>>
  BY DEF Activate, program
<1>2. /\ front' = w
      /\ plain' = (plain /\ w \notin Unhooked /\ title[w] # Untitled)
      /\ IF hooked /\ w \notin Unhooked
         THEN Len(senders) < MaxSenders /\ senders' = Append(senders, w)
         ELSE senders' = senders
  BY DEF Activate
<1>3. /\ senders' \in Seq(Wnds \ Unhooked) /\ Len(senders') <= MaxSenders
      /\ hooked /\ w \notin Unhooked => senders' # <<>> /\ senders'[Len(senders')] = w
  <2>1. senders \in Seq(Wnds \ Unhooked) /\ Len(senders) <= MaxSenders
    BY DEF ScreenTypeOK
  <2>2. CASE hooked /\ w \notin Unhooked
    <3>1. Len(senders) < MaxSenders /\ senders' = Append(senders, w)
      BY <2>2, <1>2
    <3>2. w \in Wnds \ Unhooked
      BY <2>2
    <3>3. /\ Append(senders, w) \in Seq(Wnds \ Unhooked)
          /\ Len(Append(senders, w)) = Len(senders) + 1
          /\ Append(senders, w)[Len(senders) + 1] = w
      BY <2>1, <3>2
    <3>4. Len(senders) \in Nat
      BY <2>1
    <3>5. senders' # <<>>
      BY <3>1, <3>3, <3>4
    <3>6. QED BY <3>1, <3>3, <3>4, <3>5
  <2>3. CASE ~(hooked /\ w \notin Unhooked)
    BY <2>1, <2>3, <1>2
  <2>4. QED BY <2>2, <2>3
<1>4. ScreenTypeOK'
  <2>1. front' \in Wnds /\ plain' \in BOOLEAN
    BY <1>2 DEF ScreenTypeOK
  <2>2. QED BY <1>1, <1>3, <2>1 DEF ScreenTypeOK
<1>5. Histories'
  BY <1>1 DEF Histories
<1>6. NotBegun'
  BY <1>1 DEF NotBegun
<1>7. Total'
  BY <1>1 DEF Total, CreditedTill, SumOf
<1>8. FrontReports'
  BY <1>1, <1>2, <1>3 DEF FrontReports
<1>9. AllCredited'
  BY <1>1, <1>2 DEF AllCredited, Stint
<1>10. QED BY <1>4, <1>5, <1>6, <1>7, <1>8, <1>9

LEMMA RetitleKeeps ==
  ASSUME ScreenInv, NEW w \in Wnds, NEW t \in Titles, Retitle(w, t)
  PROVE  ScreenInv'
<1> USE DEF ScreenInv
<1>1. UNCHANGED <<usageData, lastWindowTitle, lastTimePoint, drawing, hooked,
                  clock, front, senders, real, drawn, began>>
  BY DEF Retitle, program
<1>2. title' = [title EXCEPT ![w] = t] /\ plain' = (plain /\ w # front)
  BY DEF Retitle
<1>3. ScreenTypeOK'
  <2>1. title' \in [Wnds -> Titles] /\ plain' \in BOOLEAN
    BY <1>2 DEF ScreenTypeOK
  <2>2. QED BY <1>1, <2>1 DEF ScreenTypeOK
<1>4. Histories'
  BY <1>1 DEF Histories
<1>5. NotBegun'
  BY <1>1 DEF NotBegun
<1>6. Total'
  BY <1>1 DEF Total, CreditedTill, SumOf
<1>7. FrontReports'
  <2>1. plain' => plain /\ title'[front] = title[front]
    BY <1>2 DEF ScreenTypeOK
  <2>2. QED BY <1>1, <2>1 DEF FrontReports, Running
<1>8. AllCredited'
  BY <1>1, <1>2 DEF AllCredited, Stint
<1>9. QED BY <1>3, <1>4, <1>5, <1>6, <1>7, <1>8

(* A tick counts for the window in front and, while the list is drawn, for *)
(* the drawing: for the same title if every window has reported.           *)
LEMMA TickKeeps ==
  ASSUME ScreenInv, Tick
  PROVE  ScreenInv'
<1> USE ScreenAssumption DEF ScreenInv
<1>1. UNCHANGED <<usageData, lastWindowTitle, lastTimePoint, drawing, hooked,
                  front, title, senders, began>>
  BY DEF Tick, program
<1>2. /\ clock < MaxClock /\ clock' = clock + 1
      /\ plain' = (plain /\ senders = <<>>)
      /\ real' = IF lastWindowTitle = Untitled THEN real ELSE [real EXCEPT ![title[front]] = @ + 1]
      /\ drawn' = IF drawing = Untitled THEN drawn ELSE [drawn EXCEPT ![drawing] = @ + 1]
  BY DEF Tick
<1>3. title[front] \in Titles /\ drawing \in Titles
  BY DEF ScreenTypeOK
<1>4. ScreenTypeOK'
  <2>1. clock' \in 0..MaxClock /\ plain' \in BOOLEAN
    BY <1>2 DEF ScreenTypeOK
  <2>2. lastTimePoint \in 0..clock' /\ began \in 0..clock'
    BY <1>2 DEF ScreenTypeOK
  <2>3. QED BY <1>1, <2>1, <2>2 DEF ScreenTypeOK
<1>5. Histories'
  <2>1. [real EXCEPT ![title[front]] = @ + 1] \in [Titles -> Nat]
    BY <1>3 DEF Histories
  <2>2. [drawn EXCEPT ![drawing] = @ + 1] \in [Titles -> Nat]
    BY <1>3 DEF Histories
  <2>3. QED BY <1>1, <1>2, <2>1, <2>2 DEF Histories
<1>6. NotBegun'
  BY <1>1, <1>2 DEF NotBegun
<1>7. Total'
  <2>1. CASE drawing = Untitled
    <3>1. drawn' = drawn
      BY <2>1, <1>2
    <3>2. QED BY <2>1, <3>1, <1>1 DEF Total, CreditedTill, SumOf
  <2>2. CASE drawing # Untitled
    <3>1. drawn' = [drawn EXCEPT ![drawing] = @ + 1]
      BY <2>2, <1>2
    <3>2. Raised(Titles, drawn, drawn', drawing, 1)
      BY <3>1, <1>3, RaisedOnce DEF Histories
    <3>3. SumOf(drawn') = SumOf(drawn) + 1 /\ SumOf(usageData') = SumOf(usageData)
      BY <3>2, <1>1, SumAdds DEF SumOf
    <3>4. SumOf(usageData) \in Nat /\ SumOf(drawn) \in Nat
      BY SumsTyped
    <3>5. SumOf(usageData) + SumOf(drawn) + began = clock
      BY <2>2 DEF Total, CreditedTill
    <3> DEFINE U == SumOf(usageData)
               D == SumOf(drawn)
    <3> HIDE DEF U, D
    <3>6. U + D + began = clock /\ U \in Nat /\ D \in Nat
      BY <3>4, <3>5 DEF U, D
    <3>7. U + (D + 1) + began = clock'
      BY <3>6, <1>2 DEF ScreenTypeOK
    <3>8. SumOf(usageData') + SumOf(drawn') + began' = clock'
      BY <3>3, <3>7, <1>1 DEF U, D
    <3>9. QED BY <2>2, <3>8, <1>1 DEF Total, CreditedTill, SumOf
  <2>3. QED BY <2>1, <2>2
<1>8. FrontReports'
  BY <1>1, <1>2 DEF FrontReports, Running
<1>9. AllCredited'
  <2> SUFFICES ASSUME plain', hooked', lastWindowTitle' # Untitled,
                      NEW t \in Titles \ {Untitled}
               PROVE  (usageData[t] + Stint(t) + drawn[t] = real[t])'
    BY DEF AllCredited
  <2>1. plain /\ hooked /\ senders = <<>> /\ lastWindowTitle # Untitled
    BY <1>1, <1>2
  <2>2. usageData[t] + Stint(t) + drawn[t] = real[t]
    BY <2>1 DEF AllCredited
  <2>3. title[front] = Running
    BY <2>1 DEF FrontReports
  <2>4. real'[t] = IF t = Running THEN real[t] + 1 ELSE real[t]
    BY <2>1, <2>3, <1>2, <1>3 DEF Histories
  <2>5. /\ usageData[t] \in Nat /\ drawn[t] \in Nat /\ real[t] \in Nat
        /\ clock \in Nat /\ lastTimePoint \in Nat /\ lastTimePoint <= clock
    BY SumsTyped DEF Histories, ScreenTypeOK
  <2>6. CASE drawing = Untitled
    <3>1. drawn' = drawn /\ Running = lastWindowTitle
      BY <2>6, <1>2 DEF Running
    <3>2. CASE t = lastWindowTitle
      <4>1. Stint(t) = clock - lastTimePoint /\ Stint(t)' = clock' - lastTimePoint
        BY <2>6, <3>2, <1>1 DEF Stint
      <4>2. real'[t] = real[t] + 1
        BY <2>4, <3>1, <3>2
      <4>3. QED BY <4>1, <4>2, <3>1, <2>2, <2>5, <1>1, <1>2
    <3>3. CASE t # lastWindowTitle
      <4>1. Stint(t) = 0 /\ Stint(t)' = 0
        BY <3>3, <1>1 DEF Stint
      <4>2. real'[t] = real[t]
        BY <2>4, <3>1, <3>3
      <4>3. QED BY <4>1, <4>2, <3>1, <2>2, <2>5, <1>1
    <3>4. QED BY <3>2, <3>3
  <2>7. CASE drawing # Untitled
    <3>1. Running = drawing /\ Stint(t) = 0 /\ Stint(t)' = 0
      BY <2>7, <1>1 DEF Running, Stint
    <3>2. drawn'[t] = IF t = drawing THEN drawn[t] + 1 ELSE drawn[t]
      BY <2>7, <1>2, <1>3 DEF Histories
    <3>3. QED BY <3>1, <3>2, <2>2, <2>4, <2>5, <1>1
  <2>8. QED BY <2>6, <2>7
<1>10. QED BY <1>4, <1>5, <1>6, <1>7, <1>8, <1>9

(* What one message adds: the time since the last change, of which the     *)
(* title that was running had it in front.                                 *)
LEMMA CreditKeeps ==
  ASSUME ScreenInv, NEW t \in Titles, Credit(t), drawing = Untitled, drawn' = drawn,
         began' = began, drawing' = t, t # Untitled, clock' = clock
  PROVE  Total' /\ usageData' \in [Titles -> 0..MaxClock]
<1> USE ScreenAssumption DEF ScreenInv
<1> DEFINE d == clock - lastTimePoint
<1>1. usageData' = [usageData EXCEPT ![lastWindowTitle] = @ + d]
  BY DEF Credit
<1>2. /\ d \in Nat /\ lastWindowTitle \in Titles /\ clock \in 0..MaxClock
      /\ clock = lastTimePoint + d /\ lastTimePoint \in Nat /\ began \in Nat
  BY DEF ScreenTypeOK
<1>3. usageData \in [Titles -> Nat] /\ SumOf(usageData) \in Nat /\ SumOf(drawn) \in Nat
  BY SumsTyped
<1> HIDE DEF d
<1>4. usageData' \in [Titles -> Nat]
  BY <1>1, <1>2, <1>3
<1>5. Raised(Titles, usageData, usageData', lastWindowTitle, d)
  BY <1>1, <1>2, <1>3, RaisedOnce
<1>6. SumOf(usageData') = SumOf(usageData) + d /\ SumOf(drawn') = SumOf(drawn)
  BY <1>5, SumAdds DEF SumOf
<1>7. SumOf(usageData) + SumOf(drawn) + began = lastTimePoint
  BY DEF Total, CreditedTill
<1> DEFINE U == SumOf(usageData)
           D == SumOf(drawn)
<1>8. U \in Nat /\ D \in Nat /\ U + D + began = lastTimePoint
  BY <1>3, <1>7
<1>9. SumOf(usageData') = U + d /\ SumOf(drawn') = D
  BY <1>6
<1> HIDE DEF U, D
<1>10. (U + d) + D + began = clock /\ U + d <= MaxClock
  BY <1>2, <1>8
<1>11. Total'
  <2>1. SumOf(usageData') + SumOf(drawn') + began' = clock'
    BY <1>9, <1>10
  <2>2. drawing' # Untitled
    OBVIOUS
  <2>3. QED BY <2>1, <2>2 DEF Total, CreditedTill, SumOf
<1>12. \A u \in Titles : usageData'[u] \in 0..MaxClock
  <2> SUFFICES ASSUME NEW u \in Titles
               PROVE  usageData'[u] \in 0..MaxClock
    OBVIOUS
  <2>1. usageData'[u] <= SumOf(usageData')
    BY <1>4, PartOfSum
  <2>2. usageData'[u] \in Nat
    BY <1>4
  <2>3. usageData'[u] <= U + d
    BY <2>1, <1>9
  <2>4. QED BY <2>2, <2>3, <1>2, <1>8, <1>10
<1>13. QED BY <1>4, <1>11, <1>12

LEMMA ReceiveKeeps ==
  ASSUME ScreenInv, Receive
  PROVE  ScreenInv'
<1> USE ScreenAssumption DEF ScreenInv
<1> DEFINE t == title[Head(senders)]
<1>1. UNCHANGED <<hooked, clock, front, title, real, drawn, plain>>
  BY DEF Receive, desktop
<1>2. hooked /\ senders # <<>> /\ drawing = Untitled /\ senders' = Tail(senders)
  BY DEF Receive
<1>3. \/ /\ t \in {Untitled, lastWindowTitle}
         /\ UNCHANGED <<usageData, lastWindowTitle, lastTimePoint, drawing, began>>
      \/ /\ t \notin {Untitled, lastWindowTitle} /\ lastWindowTitle = Untitled
         /\ lastWindowTitle' = t /\ lastTimePoint' = clock /\ began' = clock
         /\ UNCHANGED <<usageData, drawing>>
      \/ /\ t \notin {Untitled, lastWindowTitle} /\ lastWindowTitle # Untitled
         /\ Credit(t) /\ drawing' = t
         /\ UNCHANGED <<lastWindowTitle, lastTimePoint, began>>
  BY DEF Receive, Ignored
<1>4. /\ senders \in Seq(Wnds \ Unhooked) /\ Len(senders) \in Nat /\ Len(senders) # 0
      /\ Head(senders) = senders[1] /\ Head(senders) \in Wnds
      /\ Tail(senders) \in Seq(Wnds \ Unhooked) /\ Len(Tail(senders)) = Len(senders) - 1
      /\ Tail(senders) # <<>> => Tail(senders)[Len(Tail(senders))] = senders[Len(senders)]
      /\ Tail(senders) = <<>> => Len(senders) = 1
  <2>1. senders \in Seq(Wnds \ Unhooked) /\ senders # <<>>
    BY <1>2 DEF ScreenTypeOK
  <2>2. Len(senders) \in Nat /\ Len(senders) # 0 /\ Head(senders) = senders[1] /\ senders[1] \in Wnds
    BY <2>1
  <2>3. Tail(senders) \in Seq(Wnds \ Unhooked) /\ Len(Tail(senders)) = Len(senders) - 1
    BY <2>1
  <2>4. \A i \in 1..Len(Tail(senders)) : Tail(senders)[i] = senders[i + 1]
    BY <2>1
  <2>5. Tail(senders) = <<>> => Len(senders) = 1
    <3> DEFINE rest == Tail(senders)
    <3>1. Len(<<>>) = 0
      OBVIOUS
    <3>2. rest = <<>> => Len(rest) = 0
      BY <3>1, Zenon
    <3>3. QED BY <3>2, <2>2, <2>3
  <2>6. Tail(senders) # <<>> => Len(senders) - 1 \in 1..Len(Tail(senders))
    BY <2>2, <2>3
  <2>7. Tail(senders) # <<>> => Tail(senders)[Len(senders) - 1] = senders[Len(senders)]
    BY <2>2, <2>4, <2>6
  <2>8. QED BY <2>2, <2>3, <2>5, <2>7
<1>5. t \in Titles
  BY <1>4 DEF ScreenTypeOK
<1>6. /\ plain => title[front] # Untitled
      /\ plain /\ senders' # <<>> => senders'[Len(senders')] = front
      /\ plain /\ senders' = <<>> => t = title[front]
  <2>1. plain => senders[Len(senders)] = front /\ title[front] # Untitled
    BY <1>2 DEF FrontReports
  <2>2. QED BY <2>1, <1>2, <1>4
<1>7. senders' \in Seq(Wnds \ Unhooked) /\ Len(senders') <= MaxSenders
  BY <1>2, <1>4 DEF ScreenTypeOK
<1> HIDE DEF t
<1>8. CASE /\ t \in {Untitled, lastWindowTitle}
           /\ UNCHANGED <<usageData, lastWindowTitle, lastTimePoint, drawing, began>>
  <2>1. ScreenTypeOK'
    BY <1>1, <1>7, <1>8 DEF ScreenTypeOK
  <2>2. Histories'
    BY <1>1, <1>8 DEF Histories
  <2>3. NotBegun'
    BY <1>1, <1>8 DEF NotBegun
  <2>4. Total'
    BY <1>1, <1>8 DEF Total, CreditedTill, SumOf
  <2>5. FrontReports'
    BY <1>1, <1>2, <1>6, <1>8 DEF FrontReports, Running
  <2>6. AllCredited'
    BY <1>1, <1>8 DEF AllCredited, Stint
  <2>7. QED BY <2>1, <2>2, <2>3, <2>4, <2>5, <2>6
<1>9. CASE /\ t \notin {Untitled, lastWindowTitle} /\ lastWindowTitle = Untitled
           /\ lastWindowTitle' = t /\ lastTimePoint' = clock /\ began' = clock
           /\ UNCHANGED <<usageData, drawing>>
  <2>1. ScreenTypeOK'
    BY <1>1, <1>2, <1>5, <1>7, <1>9 DEF ScreenTypeOK
  <2>2. Histories'
    BY <1>1, <1>9 DEF Histories, ScreenTypeOK
  <2>3. NotBegun'
    BY <1>9 DEF NotBegun
  <2>4. Nobody \in [Titles -> Nat] /\ \A u \in Titles : Nobody[u] = 0
    BY DEF Nobody
  <2>5. usageData = Nobody /\ drawn = Nobody /\ real = Nobody
    BY <1>9 DEF NotBegun
  <2>6. Total'
    <3>1. SumOf(Nobody) = 0
      BY <2>4, SumOfNothing
    <3>2. SumOf(usageData') = 0 /\ SumOf(drawn') = 0
      BY <3>1, <2>5, <1>1, <1>9 DEF SumOf
    <3>3. CreditedTill' = clock /\ clock \in Nat
      BY <1>2, <1>9 DEF CreditedTill, ScreenTypeOK
    <3>4. SumOf(usageData') + SumOf(drawn') + began' = CreditedTill'
      BY <3>2, <3>3, <1>9
    <3>5. QED BY <3>4 DEF Total, SumOf
  <2>7. FrontReports'
    BY <1>1, <1>2, <1>6, <1>9 DEF FrontReports, Running
  <2>8. AllCredited'
    <3> SUFFICES ASSUME NEW u \in Titles \ {Untitled}
                 PROVE  (usageData[u] + Stint(u) + drawn[u] = real[u])'
      BY DEF AllCredited
    <3>1. usageData'[u] = 0 /\ drawn'[u] = 0 /\ real'[u] = 0
      BY <2>4, <2>5, <1>1, <1>9
    <3>2. clock' - lastTimePoint' = 0
      BY <1>1, <1>9 DEF ScreenTypeOK
    <3>3. Stint(u)' = 0
      BY <3>2 DEF Stint
    <3>4. QED BY <3>1, <3>3
  <2>9. QED BY <2>1, <2>2, <2>3, <2>6, <2>7, <2>8
<1>10. CASE /\ t \notin {Untitled, lastWindowTitle} /\ lastWindowTitle # Untitled
            /\ Credit(t) /\ drawing' = t
            /\ UNCHANGED <<lastWindowTitle, lastTimePoint, began>>
  <2>1. Total' /\ usageData' \in [Titles -> 0..MaxClock]
    BY <1>1, <1>2, <1>5, <1>10, CreditKeeps
  <2>2. ScreenTypeOK'
    BY <2>1, <1>1, <1>5, <1>7, <1>10 DEF ScreenTypeOK
  <2>3. Histories'
    BY <1>1, <1>10 DEF Histories
  <2>4. NotBegun'
    BY <1>10 DEF NotBegun
  <2>5. FrontReports'
    BY <1>1, <1>2, <1>6, <1>10 DEF FrontReports, Running
  <2>6. AllCredited'
    <3> SUFFICES ASSUME plain, NEW u \in Titles \ {Untitled}
                 PROVE  (usageData[u] + Stint(u) + drawn[u] = real[u])'
      BY <1>1 DEF AllCredited
    <3>1. usageData[u] + Stint(u) + drawn[u] = real[u]
      BY <1>2, <1>10 DEF AllCredited
    <3>2. /\ usageData[u] \in Nat /\ drawn[u] \in Nat /\ real[u] \in Nat
          /\ clock \in Nat /\ lastTimePoint \in Nat /\ lastTimePoint <= clock
      BY SumsTyped DEF Histories, ScreenTypeOK
    <3>3. usageData'[u] = IF u = lastWindowTitle THEN usageData[u] + (clock - lastTimePoint)
                          ELSE usageData[u]
      BY <1>10 DEF Credit, ScreenTypeOK
    <3>4. Stint(u) = IF u = lastWindowTitle THEN clock - lastTimePoint ELSE 0
      BY <1>2 DEF Stint
    <3>5. Stint(u)' = 0
      BY <1>10 DEF Stint
    <3>6. usageData'[u] = usageData[u] + Stint(u)
      BY <3>2, <3>3, <3>4
    <3>7. Stint(u) \in Nat
      BY <3>2, <3>4
    <3>8. drawn'[u] = drawn[u] /\ real'[u] = real[u]
      BY <1>1
    <3>9. QED BY <3>1, <3>2, <3>5, <3>6, <3>7, <3>8
  <2>7. QED BY <2>1, <2>2, <2>3, <2>4, <2>5, <2>6
<1>11. QED BY <1>3, <1>8, <1>9, <1>10

(* The drawing is over: what it took is in drawn, not in a stint.          *)
LEMMA DrawnKeeps ==
  ASSUME ScreenInv, Drawn
  PROVE  ScreenInv'
<1> USE DEF ScreenInv
<1>1. UNCHANGED <<usageData, hooked, senders, clock, front, title, real, drawn, began, plain>>
  BY DEF Drawn, desktop, history
<1>2. /\ drawing # Untitled /\ drawing' = Untitled
      /\ lastWindowTitle' = drawing /\ lastTimePoint' = clock
  BY DEF Drawn
<1>3. ScreenTypeOK'
  BY <1>1, <1>2, ScreenAssumption DEF ScreenTypeOK
<1>4. Histories'
  BY <1>1, <1>2 DEF Histories, ScreenTypeOK
<1>5. NotBegun'
  BY <1>2 DEF NotBegun
<1>6. Total'
  BY <1>1, <1>2 DEF Total, CreditedTill, SumOf
<1>7. FrontReports'
  BY <1>1, <1>2 DEF FrontReports, Running, NotBegun
<1>8. AllCredited'
  <2> SUFFICES ASSUME plain, hooked, NEW t \in Titles \ {Untitled}
               PROVE  (usageData[t] + Stint(t) + drawn[t] = real[t])'
    BY <1>1 DEF AllCredited
  <2>1. lastWindowTitle # Untitled
    BY <1>2 DEF NotBegun
  <2>2. usageData[t] + Stint(t) + drawn[t] = real[t]
    BY <2>1 DEF AllCredited
  <2>3. Stint(t) = 0
    BY <1>2 DEF Stint
  <2>4. clock' - lastTimePoint' = 0
    BY <1>1, <1>2 DEF ScreenTypeOK
  <2>5. Stint(t)' = 0
    BY <2>4 DEF Stint
  <2>6. QED BY <2>2, <2>3, <2>5, <1>1
<1>9. QED BY <1>3, <1>4, <1>5, <1>6, <1>7, <1>8

LEMMA DestroyKeeps ==
  ASSUME ScreenInv, Destroy
  PROVE  ScreenInv'
<1> USE ScreenAssumption DEF ScreenInv
<1>1. UNCHANGED <<usageData, lastWindowTitle, lastTimePoint, drawing, clock, front, title,
                  real, drawn, began, plain>>
  BY DEF Destroy, desktop, history
<1>2. hooked' = FALSE /\ senders' = <<>>
  BY DEF Destroy
<1>3. ScreenTypeOK'
  <2>0. <<>> \in Seq(Wnds \ Unhooked) /\ Len(<<>>) = 0
    OBVIOUS
  <2>1. senders' \in Seq(Wnds \ Unhooked) /\ Len(senders') <= MaxSenders /\ hooked' \in BOOLEAN
    <3>1. Len(<<>>) <= MaxSenders
      BY <2>0
    <3>2. QED BY <3>1, <2>0, <1>2
  <2>2. QED BY <2>1, <1>1 DEF ScreenTypeOK
<1>4. Histories' /\ NotBegun'
  BY <1>1 DEF Histories, NotBegun
<1>5. Total'
  BY <1>1 DEF Total, CreditedTill, SumOf
<1>6. FrontReports' /\ AllCredited'
  BY <1>2 DEF FrontReports, AllCredited
<1>7. QED BY <1>3, <1>4, <1>5, <1>6

LEMMA StutterKeeps ==
  ASSUME ScreenInv, UNCHANGED vars
  PROVE  ScreenInv'
<1> USE DEF ScreenInv, vars, program, desktop, history
<1>1. ScreenTypeOK' /\ Histories' /\ NotBegun'
  BY DEF ScreenTypeOK, Histories, NotBegun
<1>2. Total'
  BY DEF Total, CreditedTill, SumOf
<1>3. FrontReports' /\ AllCredited'
  BY DEF FrontReports, AllCredited, Running, Stint
<1>4. QED BY <1>1, <1>2, <1>3

-----------------------------------------------------------------------------
(* The theorems *)

(* The clock of screen_use_time in every reachable state: what has been    *)
(* credited, what is still running and what it took to draw, by title and  *)
(* together, and that the window in front is the one that reported last    *)
(* (app.cc:138-160), for any windows, titles and number of waiting hooks.  *)
THEOREM ScreenInvariant == Spec => []ScreenInv
<1>1. ScreenInv /\ [Next]_vars => ScreenInv'
  <2> SUFFICES ASSUME ScreenInv, [Next]_vars
               PROVE  ScreenInv'
    OBVIOUS
  <2>1. CASE Tick
    BY <2>1, TickKeeps
  <2>2. CASE Receive
    BY <2>2, ReceiveKeeps
  <2>3. CASE Drawn
    BY <2>3, DrawnKeeps
  <2>4. CASE Destroy
    BY <2>4, DestroyKeeps
  <2>5. CASE \E w \in Wnds : Activate(w) \/ \E t \in Titles : Retitle(w, t)
    BY <2>5, ActivateKeeps, RetitleKeeps
  <2>6. CASE UNCHANGED vars
    BY <2>6, StutterKeeps
  <2>7. QED BY <2>1, <2>2, <2>3, <2>4, <2>5, <2>6 DEF Next
<1>2. QED BY InitHolds, <1>1, PTL DEF Spec

(* Type correctness.  That a time never exceeds the clock rests on the     *)
(* sum: no title can have more than all of them.                           *)
THEOREM ScreenTypeCorrect == Spec => []ScreenTypeOK
<1>1. ScreenInv => ScreenTypeOK
  BY DEF ScreenInv
<1>2. QED BY <1>1, ScreenInvariant, PTL

(* No time is counted twice and none is lost but for the drawing of the    *)
(* list (app.cc:154-158), whatever windows come, go, change their titles   *)
(* or report late.                                                         *)
THEOREM TimesAlwaysAddUp == Spec => []TimesAddUp
<1>1. ScreenInv => TimesAddUp
  <2> SUFFICES ASSUME ScreenInv, drawing = Untitled
               PROVE  SumOf(usageData) + SumOf(drawn) = lastTimePoint - began
    BY DEF TimesAddUp
  <2> DEFINE U == SumOf(usageData)
             D == SumOf(drawn)
  <2>1. U + D + began = lastTimePoint
    BY DEF ScreenInv, Total, CreditedTill
  <2>2. U \in Nat /\ D \in Nat /\ began \in Nat
    BY SumsTyped, ScreenAssumption DEF ScreenInv, ScreenTypeOK
  <2> HIDE DEF U, D
  <2>3. U + D = lastTimePoint - began
    BY <2>1, <2>2
  <2>4. QED BY <2>3 DEF U, D
<1>2. QED BY <1>1, ScreenInvariant, PTL

(* What a title is credited with is the time its window was in front, less *)
(* the drawing, as long as windows report at once and keep their titles    *)
(* (app.cc:148-159).                                                       *)
THEOREM CreditedAlwaysReal == Spec => []CreditedIsReal
<1>1. ScreenInv => CreditedIsReal
  BY DEF ScreenInv, AllCredited, Stint, CreditedIsReal
<1>2. QED BY <1>1, ScreenInvariant, PTL

=============================================================================
