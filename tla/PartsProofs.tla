---------------------------- MODULE PartsProofs -----------------------------
(***************************************************************************)
(* Proofs about the parts of a node, for all values of their constants     *)
(* that MCParts!PartsAssumption admits.  Each part has an invariant that   *)
(* its initial states have and its steps keep (for some in StoresProofs,   *)
(* for the scheduler in SchedulerProofs); together they are the invariant  *)
(* of the node, from which the theorems at the end follow.  First come     *)
(* facts about the least and the greatest number of a set, and about sums  *)
(* over a finite set, which change by what one of their terms changes.     *)
(***************************************************************************)
EXTENDS StoresProofs, SchedulerProofs

-----------------------------------------------------------------------------
(* Numbers *)

\* A set of numbers has a least one, and a bounded one a greatest one.
LEMMA LeastNumber == ASSUME NEW S \in SUBSET Nat, S # {} PROVE \E x \in S : \A y \in S : x <= y
<1>1. PICK x \in S : \A y \in S : <<y, x>> \notin OpToRel(<, Nat)
  BY NatLessThanWellFounded, WFMin
<1>2. ASSUME NEW y \in S PROVE x <= y
  <2>1. x \in Nat /\ y \in Nat /\ ~ (y < x)
    <3>1. <<y, x>> \in Nat \X Nat
      OBVIOUS
    <3>2. <<y, x>> \notin {ss \in Nat \X Nat : ss[1] < ss[2]}
      BY <1>1 DEF OpToRel
    <3> QED BY <3>1, <3>2
  <2> QED BY <2>1
<1> QED BY <1>2

LEMMA GreatestNumber ==
    ASSUME NEW S \in SUBSET Nat, S # {}, NEW b \in Nat, \A y \in S : y <= b
    PROVE  \E x \in S : \A y \in S : x >= y
<1> DEFINE rest == {b - y : y \in S}
<1>1. rest \in SUBSET Nat /\ rest # {}
  <2>1. \A y \in S : b - y \in Nat
    OBVIOUS
  <2> QED BY <2>1
<1>2. PICK r \in rest : \A q \in rest : r <= q
  BY <1>1, LeastNumber
<1>3. PICK x \in S : r = b - x
  BY <1>2
<1>4. ASSUME NEW y \in S PROVE x >= y
  <2>1. b - x <= b - y
    BY <1>2, <1>3
  <2> QED BY <2>1
<1> QED BY <1>4

-----------------------------------------------------------------------------
(* Sums *)

Sum(f, S) == SumFunctionOnSet(f, S)
Some(S) == CHOOSE x \in S : TRUE
IsIter(g, f, S) ==
    g = [s \in SUBSET S |-> IF s = {} THEN 0 ELSE f[Some(s)] + g[s \ {Some(s)}]]
Iter(f, S) == CHOOSE g : IsIter(g, f, S)

\* The member that is chosen from a set is one of it.
LEMMA SomeIn == ASSUME NEW S, S # {} PROVE Some(S) \in S
BY DEF Some

\* A sum is the value of the iteration that defines it.
LEMMA SumIsIter == ASSUME NEW f, NEW S PROVE Sum(f, S) = Iter(f, S)[S]
BY DEF Sum, SumFunctionOnSet, FoldFunctionOnSet, MapThenFoldSet, Iter, IsIter, Some

\* The recursion of a sum over S is well defined, and the same for its subsets.
Folds(f, S) ==
    /\ \E g : IsIter(g, f, S)
    /\ \A g : IsIter(g, f, S) => \A s \in SUBSET S : g[s] = Sum(f, s)

\* An iteration at a set takes one member of it and goes on with the rest.
LEMMA IterUnfolds ==
    ASSUME NEW f, NEW S, NEW g, IsIter(g, f, S), NEW s \in SUBSET S, s # {}
    PROVE  g[s] = f[Some(s)] + g[s \ {Some(s)}]
BY DEF IsIter

\* An iteration ends with zero.
LEMMA IterEmpty ==
    ASSUME NEW f, NEW S, NEW g, IsIter(g, f, S)
    PROVE  g[{}] = 0
BY DEF IsIter

\* A sum that folds takes one term and adds the rest.
LEMMA FoldsUnfold ==
    ASSUME NEW f, NEW S, Folds(f, S)
    PROVE  Sum(f, S) = IF S = {} THEN 0 ELSE f[Some(S)] + Sum(f, S \ {Some(S)})
<1> DEFINE g == Iter(f, S)
<1>1. IsIter(g, f, S)
  BY DEF Folds, Iter
<1>2. g[S] = Sum(f, S)
  BY SumIsIter
<1>3. CASE S = {}
  BY <1>1, <1>2, <1>3, IterEmpty
<1>4. CASE S # {}
  <2>1. g[S] = f[Some(S)] + g[S \ {Some(S)}]
    BY <1>1, <1>4, IterUnfolds
  <2>2. g[S \ {Some(S)}] = Sum(f, S \ {Some(S)})
    BY <1>1 DEF Folds
  <2> QED BY <2>1, <2>2, <1>2, <1>4
<1> QED BY <1>3, <1>4

\* A sum folds if the sums over all proper subsets do.
LEMMA FoldsStep ==
    ASSUME NEW f, NEW S, \A u \in SUBSET S : u # S => Folds(f, u)
    PROVE  Folds(f, S)
<1> DEFINE g == [s \in SUBSET S |-> IF s = {} THEN 0 ELSE f[Some(s)] + Sum(f, s \ {Some(s)})]
<1>1. \A s \in SUBSET S : g[s] = IF s = {} THEN 0 ELSE f[Some(s)] + Sum(f, s \ {Some(s)})
  OBVIOUS
<1>2. g = [s \in SUBSET S |-> g[s]]
  OBVIOUS
<1> HIDE DEF g
<1>3. ASSUME NEW s \in SUBSET S, s # {}
      PROVE  s \ {Some(s)} \in SUBSET S /\ s \ {Some(s)} # S
  BY <1>3, SomeIn
<1>4. ASSUME NEW s \in SUBSET S, s # {}
      PROVE  g[s \ {Some(s)}] = Sum(f, s \ {Some(s)})
  <2>1. PICK u : u = s \ {Some(s)}
    OBVIOUS
  <2>2. u \in SUBSET S /\ Folds(f, u)
    BY <2>1, <1>3, <1>4
  <2> QED BY <2>1, <2>2, <1>1, FoldsUnfold
<1>5. \A s \in SUBSET S : g[s] = IF s = {} THEN 0 ELSE f[Some(s)] + g[s \ {Some(s)}]
  BY <1>1, <1>4
<1>6. IsIter(g, f, S)
  BY <1>2, <1>5 DEF IsIter
<1>7. IsIter(Iter(f, S), f, S)
  BY <1>6 DEF Iter
<1>8. ASSUME NEW h, IsIter(h, f, S), NEW s \in SUBSET S, s # S
      PROVE  h[s] = Sum(f, s)
  <2> DEFINE k == [u \in SUBSET s |-> h[u]]
  <2>1. \A u \in SUBSET s : k[u] = h[u]
    OBVIOUS
  <2>2. k = [u \in SUBSET s |-> k[u]]
    OBVIOUS
  <2> HIDE DEF k
  <2>3. ASSUME NEW u \in SUBSET s
        PROVE  k[u] = IF u = {} THEN 0 ELSE f[Some(u)] + k[u \ {Some(u)}]
    <3>1. u \in SUBSET S /\ u \ {Some(u)} \in SUBSET s
      OBVIOUS
    <3>2. k[u] = h[u] /\ k[u \ {Some(u)}] = h[u \ {Some(u)}]
      BY <2>1, <3>1
    <3>3. CASE u = {}
      BY <3>2, <3>3, <1>8, IterEmpty
    <3>4. CASE u # {}
      <4>1. h[u] = f[Some(u)] + h[u \ {Some(u)}]
        BY <3>1, <3>4, <1>8, IterUnfolds
      <4> QED BY <4>1, <3>2, <3>4
    <3> QED BY <3>3, <3>4
  <2>4. IsIter(k, f, s)
    BY <2>2, <2>3 DEF IsIter
  <2>5. k[s] = Sum(f, s)
    BY <2>4, <1>8 DEF Folds
  <2> QED BY <2>5, <2>1
<1>9. ASSUME NEW h, IsIter(h, f, S)
      PROVE  h[S] = Sum(f, S)
  <2>1. CASE S = {}
    BY <2>1, <1>7, <1>9, IterEmpty, SumIsIter
  <2>2. CASE S # {}
    <3>1. PICK u : u = S \ {Some(S)}
      OBVIOUS
    <3>2. u \in SUBSET S /\ u # S
      BY <3>1, <2>2, <1>3
    <3>3. h[u] = Sum(f, u) /\ Iter(f, S)[u] = Sum(f, u)
      BY <3>2, <1>7, <1>8, <1>9
    <3>4. h[S] = f[Some(S)] + h[u] /\ Iter(f, S)[S] = f[Some(S)] + Iter(f, S)[u]
      BY <3>1, <1>7, <1>9, <2>2, IterUnfolds
    <3> QED BY <3>3, <3>4, SumIsIter
  <2> QED BY <2>1, <2>2
<1> QED BY <1>6, <1>8, <1>9 DEF Folds

\* Every sum over a finite set folds: no smallest set is an exception.
LEMMA AllFold == ASSUME NEW f, NEW S, IsFiniteSet(S) PROVE Folds(f, S)
<1> DEFINE Bad == {s \in SUBSET S : ~Folds(f, s)}
<1>0. Bad \in SUBSET SUBSET S
  OBVIOUS
<1>1. SUFFICES ASSUME Bad # {} PROVE FALSE
  OBVIOUS
<1> HIDE DEF Bad
<1>2. PICK s \in Bad : \A u \in SUBSET s : u # s => u \notin Bad
  BY <1>0, <1>1, Smallest
<1> USE DEF Bad
<1>3. \A u \in SUBSET s : u # s => Folds(f, u)
  BY <1>2
<1> QED BY <1>2, <1>3, FoldsStep

\* The recursive equation of a sum over a finite set.
LEMMA SumUnfolds ==
    ASSUME NEW f, NEW S, IsFiniteSet(S)
    PROVE  Sum(f, S) = IF S = {} THEN 0 ELSE f[Some(S)] + Sum(f, S \ {Some(S)})
BY AllFold, FoldsUnfold

\* A sum of naturals is a natural, and any of its terms can be taken out first.
LEMMA SumTakes ==
    ASSUME NEW f, NEW S, IsFiniteSet(S), \A y \in S : f[y] \in Nat
    PROVE  /\ Sum(f, S) \in Nat
           /\ \A x \in S : Sum(f, S) = f[x] + Sum(f, S \ {x})
<1> DEFINE Holds(s) == /\ Sum(f, s) \in Nat
                   /\ \A x \in s : Sum(f, s) = f[x] + Sum(f, s \ {x})
           Bad == {s \in SUBSET S : ~Holds(s)}
<1>0. Bad \in SUBSET SUBSET S
  OBVIOUS
<1>1. SUFFICES ASSUME Bad # {} PROVE FALSE
  OBVIOUS
<1> HIDE DEF Bad
<1>2. PICK s \in Bad : \A u \in SUBSET s : u # s => u \notin Bad
  BY <1>0, <1>1, Smallest
<1> USE DEF Bad
<1>3. \A u \in SUBSET s : u # s => Holds(u)
  BY <1>2
<1>4. \A u \in SUBSET S : IsFiniteSet(u)
  BY FS_Subset
<1>5. CASE s = {}
  <2>1. IsFiniteSet({})
    BY FS_EmptySet
  <2>2. \A h : Sum(h, {}) = 0
    BY <2>1, SumUnfolds
  <2> QED BY <1>2, <1>5, <2>2
<1>6. CASE s # {}
  <2>1. PICK c : c = Some(s)
    OBVIOUS
  <2>2. c \in s /\ Sum(f, s) = f[c] + Sum(f, s \ {c})
    BY <2>1, <1>4, <1>6, SomeIn, SumUnfolds
  <2>3. Holds(s \ {c})
    BY <2>2, <1>3
  <2>4. Sum(f, s) \in Nat
    BY <2>2, <2>3
  <2>5. ASSUME NEW x \in s, x # c
        PROVE  Sum(f, s) = f[x] + Sum(f, s \ {x})
    <3>1. Holds(s \ {x})
      BY <2>5, <1>3
    <3>2. (s \ {x}) \ {c} = (s \ {c}) \ {x} /\ x \in s \ {c} /\ c \in s \ {x}
      BY <2>2, <2>5
    <3>3. PICK r : r = (s \ {c}) \ {x}
      OBVIOUS
    <3>4. Sum(f, s \ {c}) = f[x] + Sum(f, r) /\ Sum(f, s \ {x}) = f[c] + Sum(f, r)
      BY <3>1, <3>2, <3>3, <2>3
    <3>5. Holds(r)
      BY <3>3, <2>2, <1>3
    <3>6. f[x] \in Nat /\ f[c] \in Nat
      BY <2>2, <2>5
    <3> QED BY <3>4, <3>5, <3>6, <2>2
  <2>6. Holds(s)
    BY <2>2, <2>4, <2>5
  <2> QED BY <2>6, <1>2
<1> QED BY <1>5, <1>6

\* Two sums differ as their terms do.
LEMMA SumGrows ==
    ASSUME NEW f, NEW g, NEW S, IsFiniteSet(S),
           \A y \in S : f[y] \in Nat /\ g[y] \in Nat /\ f[y] <= g[y]
    PROVE  Sum(f, S) <= Sum(g, S)
<1> DEFINE Bad == {s \in SUBSET S : ~(Sum(f, s) <= Sum(g, s))}
<1>0. Bad \in SUBSET SUBSET S
  OBVIOUS
<1>1. SUFFICES ASSUME Bad # {} PROVE FALSE
  OBVIOUS
<1> HIDE DEF Bad
<1>2. PICK s \in Bad : \A u \in SUBSET s : u # s => u \notin Bad
  BY <1>0, <1>1, Smallest
<1> USE DEF Bad
<1>4. \A u \in SUBSET S : /\ IsFiniteSet(u)
                          /\ \A x \in u : /\ Sum(f, u) = f[x] + Sum(f, u \ {x})
                                          /\ Sum(g, u) = g[x] + Sum(g, u \ {x})
                          /\ Sum(f, u) \in Nat /\ Sum(g, u) \in Nat
  BY FS_Subset, SumTakes
<1>5. CASE s = {}
  <2>1. IsFiniteSet({})
    BY FS_EmptySet
  <2>2. \A h : Sum(h, {}) = 0
    BY <2>1, SumUnfolds
  <2> QED BY <1>2, <1>5, <2>2
<1>6. CASE s # {}
  <2>1. PICK c \in s : TRUE
    BY <1>6
  <2>2. PICK u : u = s \ {c}
    OBVIOUS
  <2>3. u \in SUBSET s /\ u # s /\ u \in SUBSET S
    BY <2>1, <2>2
  <2>4. Sum(f, u) <= Sum(g, u)
    BY <2>3, <1>2
  <2>5. Sum(f, s) = f[c] + Sum(f, u) /\ Sum(g, s) = g[c] + Sum(g, u)
    BY <2>1, <2>2, <1>4
  <2>6. f[c] \in Nat /\ g[c] \in Nat /\ f[c] <= g[c] /\ Sum(f, u) \in Nat /\ Sum(g, u) \in Nat
    BY <2>1, <2>3, <1>4
  <2>7. Sum(f, s) <= Sum(g, s)
    BY <2>4, <2>5, <2>6
  <2> QED BY <2>7, <1>2
<1> QED BY <1>5, <1>6

\* The sum of a part and the sum of the rest.
LEMMA SumParts ==
    ASSUME NEW f, NEW S, NEW Q, NEW R, IsFiniteSet(S), \A y \in S : f[y] \in Nat,
           Q \subseteq S, R \subseteq S, \A y \in S : y \in Q <=> y \notin R
    PROVE  Sum(f, S) = Sum(f, Q) + Sum(f, R)
<1> DEFINE Holds(s) == \A a, r : a = s \cap Q /\ r = s \cap R
                               => Sum(f, s) = Sum(f, a) + Sum(f, r)
           Bad == {s \in SUBSET S : ~Holds(s)}
<1>0. Bad \in SUBSET SUBSET S
  OBVIOUS
<1>1. Bad = {}
  <2>1. SUFFICES ASSUME Bad # {} PROVE FALSE
    OBVIOUS
  <2> HIDE DEF Bad
  <2>2. PICK s \in Bad : \A u \in SUBSET s : u # s => u \notin Bad
    BY <1>0, <2>1, Smallest
  <2> USE DEF Bad
  <2>3. s \in SUBSET S /\ \A u \in SUBSET s : u # s => Holds(u)
    BY <2>2
  <2>4. PICK a, r : a = s \cap Q /\ r = s \cap R /\ Sum(f, s) # Sum(f, a) + Sum(f, r)
    BY <2>2
  <2>5. \A u \in SUBSET S : IsFiniteSet(u)
    BY FS_Subset
  <2>6. \A u \in SUBSET S : /\ \A x \in u : Sum(f, u) = f[x] + Sum(f, u \ {x})
                            /\ Sum(f, u) \in Nat
    BY <2>5, SumTakes
  <2>7. CASE s = {}
    <3>1. IsFiniteSet({}) /\ a = {} /\ r = {}
      BY <2>4, <2>7, FS_EmptySet
    <3>2. Sum(f, {}) = 0
      BY <3>1, SumUnfolds
    <3> QED BY <2>4, <2>7, <3>1, <3>2
  <2>8. CASE s # {}
    <3>1. PICK c \in s : TRUE
      BY <2>8
    <3>2. PICK u, d, e : u = s \ {c} /\ d = u \cap Q /\ e = u \cap R
      OBVIOUS
    <3>3. u \in SUBSET s /\ u # s /\ u \in SUBSET S /\ d \in SUBSET S /\ e \in SUBSET S
          /\ a \in SUBSET S /\ r \in SUBSET S
      BY <2>3, <2>4, <3>1, <3>2
    <3>4. Sum(f, u) = Sum(f, d) + Sum(f, e)
      BY <2>3, <3>2, <3>3
    <3>5. f[c] \in Nat /\ Sum(f, d) \in Nat /\ Sum(f, e) \in Nat /\ c \in S
      BY <2>3, <2>6, <3>1, <3>3
    <3>6. Sum(f, s) = f[c] + Sum(f, u)
      BY <2>3, <2>6, <3>1, <3>2
    <3>7. CASE c \in Q
      <4>1. d = a \ {c} /\ c \in a /\ e = r
        BY <2>4, <3>1, <3>2, <3>5, <3>7
      <4>2. Sum(f, a) = f[c] + Sum(f, d)
        BY <4>1, <3>3, <2>6
      <4> QED BY <4>1, <4>2, <3>4, <3>5, <3>6, <2>4
    <3>8. CASE c \notin Q
      <4>1. e = r \ {c} /\ c \in r /\ d = a
        BY <2>4, <3>1, <3>2, <3>5, <3>8
      <4>2. Sum(f, r) = f[c] + Sum(f, e)
        BY <4>1, <3>3, <2>6
      <4> QED BY <4>1, <4>2, <3>4, <3>5, <3>6, <2>4
    <3> QED BY <3>7, <3>8
  <2> QED BY <2>7, <2>8
<1>2. Holds(S)
  BY <1>1
<1>3. Q = S \cap Q /\ R = S \cap R
  OBVIOUS
<1> HIDE DEF Bad
<1> QED BY <1>2, <1>3

\* A sum depends on its terms alone.
LEMMA SumSame ==
    ASSUME NEW f, NEW g, NEW S, IsFiniteSet(S), \A y \in S : f[y] \in Nat /\ f[y] = g[y]
    PROVE  Sum(f, S) = Sum(g, S)
<1>1. \A y \in S : g[y] \in Nat
  OBVIOUS
<1>2. Sum(f, S) \in Nat /\ Sum(g, S) \in Nat
  BY <1>1, SumTakes
<1>3. Sum(f, S) <= Sum(g, S) /\ Sum(g, S) <= Sum(f, S)
  <2>1. \A y \in S : /\ f[y] \in Nat /\ g[y] \in Nat /\ f[y] <= g[y] /\ g[y] <= f[y]
    OBVIOUS
  <2> QED BY <2>1, SumGrows
<1> QED BY <1>2, <1>3

\* A sum whose terms are those of one function in a part and of another in the rest.
LEMMA SumSplits ==
    ASSUME NEW w, NEW f, NEW g, NEW S, NEW Q, NEW R, IsFiniteSet(S),
           \A y \in S : f[y] \in Nat /\ g[y] \in Nat /\ w[y] = IF y \in Q THEN f[y] ELSE g[y],
           Q \subseteq S, R \subseteq S, \A y \in S : y \in Q <=> y \notin R
    PROVE  Sum(w, S) = Sum(f, Q) + Sum(g, R)
<1>1. \A y \in S : w[y] \in Nat
  OBVIOUS
<1>2. Sum(w, S) = Sum(w, Q) + Sum(w, R)
  BY <1>1, SumParts
<1>3. IsFiniteSet(Q) /\ IsFiniteSet(R)
  BY FS_Subset
<1>4. Sum(w, Q) = Sum(f, Q)
  <2>1. \A y \in Q : w[y] \in Nat /\ w[y] = f[y]
    BY <1>1
  <2> QED BY <2>1, <1>3, SumSame
<1>5. Sum(w, R) = Sum(g, R)
  <2>1. \A y \in R : w[y] \in Nat /\ w[y] = g[y]
    BY <1>1
  <2> QED BY <2>1, <1>3, SumSame
<1> QED BY <1>2, <1>4, <1>5

-----------------------------------------------------------------------------
(* Gpu *)

\* What a call holds of its device or was promised, whichever it is.
Weights == [t \in GpuTask |-> IF gTask[t].status \in G!Live THEN Bytes[t] ELSE gTask[t].used]
Weight(d) == Sum(Weights, G!On(d))

\* A call holds memory while it works only, and no more than it asked for; it has a device
\* from the moment it chose one; a victim is released after it was told to stop.
CallInOrder(t) ==
    /\ gTask[t].used <= Bytes[t]
    /\ gTask[t].pc # "running" => gTask[t].used = 0
    /\ gTask[t].pc \in {"idle", "chosen", "cool"} => gTask[t].status = "none"
    /\ gTask[t].pc \notin {"idle", "failed"} => gTask[t].dev \in G!Device
    /\ gTask[t].pc = "idle" => gTask[t].dev = 0
    /\ gTask[t].status = "pending" => gTask[t].pc = "reserved"
    /\ gTask[t].pc \in {"active", "running"} /\ ~gTask[t].stopped => gTask[t].status = "active"
VictimsAreStopped == \A d \in G!Device : gWatch[d].pc = "free" => gTask[gWatch[d].victim].stopped
CallsInOrder == VictimsAreStopped /\ \A t \in GpuTask : CallInOrder(t)

DevicesFit == \A d \in G!Device : Weight(d) + Margin <= Total

GpuInv == G!TypeOK /\ CallsInOrder /\ DevicesFit

\* What the assumption says of the constants of the GPU.
LEMMA GpuConstants ==
    /\ IsFiniteSet(GpuTask) /\ GpuTask # {} /\ Llm \subseteq GpuTask
    /\ Devices \in Nat \ {0} /\ Bytes \in [GpuTask -> Nat]
    /\ Total \in Nat /\ Margin \in 0 .. Total /\ MaxOther \in Nat
    /\ Temps \subseteq 0 .. 4
BY PartsAssumption DEF G!GpuAssumption, G!IsFiniteSet, IsFiniteSet

\* The sums of the model are those of the lemmas above.
LEMMA GpuSums == ASSUME NEW f, NEW S PROVE G!SumFunctionOnSet(f, S) = Sum(f, S)
BY DEF G!SumFunctionOnSet, G!FoldFunctionOnSet, G!MapThenFoldSet,
       Sum, SumFunctionOnSet, FoldFunctionOnSet, MapThenFoldSet

\* What a call weighs is a number, and finitely many calls are on a device.
LEMMA WeightsTyped ==
    ASSUME G!TypeOK, NEW d
    PROVE  /\ IsFiniteSet(G!On(d)) /\ G!On(d) \subseteq GpuTask
           /\ \A t \in GpuTask : Weights[t] \in Nat /\ G!Held[t] \in Nat /\ Bytes[t] \in Nat
<1>1. G!On(d) \subseteq GpuTask
  BY DEF G!On
<1>2. IsFiniteSet(G!On(d))
  BY <1>1, GpuConstants, FS_Subset
<1>3. \A t \in GpuTask : Bytes[t] \in Nat
  BY GpuConstants
<1> QED BY <1>1, <1>2, <1>3 DEF Weights, G!Held, G!TypeOK

\* The weight of a device is what is promised on it and what the others still hold.
LEMMA WeightIs ==
    ASSUME G!TypeOK, NEW d
    PROVE  /\ Weight(d) = G!Reserved(d)
                 + Sum(G!Held, {t \in G!On(d) : gTask[t].status \notin G!Live})
           /\ Weight(d) <= G!Reserved(d) + G!Used(d)
           /\ Weight(d) \in Nat /\ G!Reserved(d) \in Nat /\ G!Used(d) \in Nat
<1>0. PICK S, Q, R : /\ S = G!On(d)
                     /\ Q = {t \in G!On(d) : gTask[t].status \in G!Live}
                     /\ R = {t \in G!On(d) : gTask[t].status \notin G!Live}
  OBVIOUS
<1>1. IsFiniteSet(S) /\ S \subseteq GpuTask /\ Q \subseteq S /\ R \subseteq S
      /\ (\A t \in S : t \in Q <=> t \notin R)
      /\ \A t \in S : Weights[t] \in Nat /\ G!Held[t] \in Nat /\ Bytes[t] \in Nat
  BY <1>0, WeightsTyped
<1>2. \A t \in S : /\ Bytes[t] \in Nat /\ G!Held[t] \in Nat
                   /\ Weights[t] = IF t \in Q THEN Bytes[t] ELSE G!Held[t]
  BY <1>0, <1>1 DEF Weights, G!Held
<1>3. Sum(Weights, S) = Sum(Bytes, Q) + Sum(G!Held, R)
  BY <1>1, <1>2, SumSplits
<1>4. Sum(G!Held, S) = Sum(G!Held, Q) + Sum(G!Held, R)
  BY <1>1, SumParts
<1>5. IsFiniteSet(Q) /\ IsFiniteSet(R)
  BY <1>1, FS_Subset
<1>6. /\ Sum(Weights, S) \in Nat
      /\ Sum(Bytes, Q) \in Nat /\ Sum(G!Held, Q) \in Nat /\ Sum(G!Held, R) \in Nat
  BY <1>1, <1>5, SumTakes
<1>7. /\ Weight(d) = Sum(Weights, S) /\ G!Used(d) = Sum(G!Held, S)
      /\ G!Reserved(d) = Sum(Bytes, Q)
      /\ Sum(G!Held, {t \in G!On(d) : gTask[t].status \notin G!Live}) = Sum(G!Held, R)
  BY <1>0, GpuSums DEF Weight, G!Used, G!Reserved
<1> QED BY <1>3, <1>4, <1>6, <1>7

\* A step that makes no call heavier and moves none keeps every device fit.
LEMMA LighterFits ==
    ASSUME G!TypeOK, G!TypeOK', DevicesFit,
           \A t \in GpuTask : gTask'[t].dev = gTask[t].dev /\ Weights'[t] <= Weights[t]
    PROVE  DevicesFit'
<1> SUFFICES ASSUME NEW d \in G!Device PROVE (Weight(d) + Margin <= Total)'
  BY DEF DevicesFit, G!Device
<1>1. G!On(d)' = G!On(d)
  BY DEF G!On
<1>2. IsFiniteSet(G!On(d)) /\ G!On(d) \subseteq GpuTask
  BY WeightsTyped
<1>3. \A t \in GpuTask : Weights[t] \in Nat /\ Weights'[t] \in Nat
  BY GpuConstants DEF Weights, G!TypeOK
<1>4. \A t \in G!On(d) : Weights'[t] \in Nat /\ Weights[t] \in Nat /\ Weights'[t] <= Weights[t]
  BY <1>2, <1>3
<1>5. Sum(Weights', G!On(d)) <= Sum(Weights, G!On(d))
  BY <1>2, <1>4, SumGrows
<1>6. Weight(d)' = Sum(Weights', G!On(d)) /\ Weight(d) = Sum(Weights, G!On(d))
  BY <1>1 DEF Weight
<1>7. Sum(Weights', G!On(d)) \in Nat /\ Sum(Weights, G!On(d)) \in Nat
  BY <1>2, <1>4, SumTakes
<1>8. Weight(d) + Margin <= Total
  BY DEF DevicesFit
<1> QED BY <1>5, <1>6, <1>7, <1>8, GpuConstants

\* The smallest number of a set is one of it.
LEMMA SmallestNumber == ASSUME NEW S \in SUBSET Nat, S # {} PROVE G!Min(S) \in S
BY LeastNumber DEF G!Min

CallType ==
    [pc : {"idle", "chosen", "cool", "reserved", "active", "running", "deregister",
           "release", "done", "failed"},
     dev : 0 .. Devices, status : {"none", "pending", "active", "released", "expired"},
     aged : BOOLEAN, used : Nat, stopped : BOOLEAN]
WatchType == [pc : {"idle", "preempt", "lookup", "stop", "free", "clear"}, victim : GpuTask]
ThermalType == {"normal", "warning"} \cup G!Hot
CallsTyped == gTask \in [GpuTask -> CallType]
MonitorsTyped ==
    /\ gThermal \in [G!Device -> ThermalType]
    /\ gLastTemp \in [G!Device -> [G!Device -> 0 .. 4]]
    /\ gSampling \in [G!Device -> 0 .. Devices]
WatchTyped == gWatch \in [G!Device -> WatchType]
OtherTyped == gOther \in [G!Device -> 0 .. MaxOther]

GpuTyped == CallsTyped /\ gFns \subseteq GpuTask /\ OtherTyped /\ MonitorsTyped /\ WatchTyped

\* The type invariant, and its three parts, in this state and the next.
LEMMA GpuTypes == (G!TypeOK <=> GpuTyped) /\ (G!TypeOK <=> GpuTyped)'
BY DEF GpuTyped, G!Device, G!TypeOK, CallsTyped, CallType, OtherTyped, MonitorsTyped, ThermalType, WatchTyped, WatchType

\* The GPU begins in its invariant.
LEMMA GpuStarts == G!Init => GpuInv
<1> SUFFICES ASSUME G!Init PROVE GpuInv
  OBVIOUS
<1>1. (CHOOSE t \in GpuTask : TRUE) \in GpuTask
  BY GpuConstants
<1>2. G!TypeOK
  <2>1. CallsTyped /\ gFns \subseteq GpuTask
    BY GpuConstants DEF G!Init, CallsTyped, CallType
  <2>2. OtherTyped /\ MonitorsTyped /\ WatchTyped
    BY <1>1, GpuConstants
    DEF G!Init, OtherTyped, MonitorsTyped, WatchTyped, WatchType, ThermalType
  <2> QED BY <2>1, <2>2, GpuTypes DEF GpuTyped
<1>3. CallsInOrder
  BY GpuConstants DEF G!Init, CallsInOrder, CallInOrder, VictimsAreStopped
<1>4. ASSUME NEW d \in G!Device PROVE Weight(d) = 0
  <2>1. G!On(d) = {}
    BY GpuConstants DEF G!Init, G!On, G!Device
  <2>2. Sum(Weights, {}) = 0
    BY FS_EmptySet, SumUnfolds
  <2> QED BY <2>1, <2>2 DEF Weight
<1>5. DevicesFit
  BY <1>4, GpuConstants DEF DevicesFit
<1> QED BY <1>2, <1>3, <1>5 DEF GpuInv

\* The device that is chosen is one.
LEMMA ChosenIsDevice ==
    ASSUME NEW t \in GpuTask, NEW read \in SUBSET G!Device, G!Suitable(t, read) # {}
    PROVE  G!Min(G!Suitable(t, read)) \in G!Device
<1>1. G!Device \subseteq Nat /\ 1 \in G!Device
  BY GpuConstants DEF G!Device
<1>2. G!Suitable(t, read) \subseteq G!Device
  BY <1>1 DEF G!Suitable, G!FirstFit, G!MostFree
<1> QED BY <1>1, <1>2, SmallestNumber

\* What choosing a device does to a call.
LEMMA ChooseIs ==
    ASSUME NEW t \in GpuTask, G!Choose(t)
    PROVE  /\ gTask[t].pc = "idle"
           /\ \/ gTask' = [gTask EXCEPT ![t].pc = "failed"]
              \/ \E m \in G!Device : gTask' = [gTask EXCEPT ![t].pc = "chosen", ![t].dev = m]
           /\ UNCHANGED <<gFns, gOther, gThermal, gLastTemp, gSampling, gWatch>>
<1>1. PICK read \in SUBSET G!Device :
        IF G!Suitable(t, read) = {} THEN G!Goes(t, "failed")
        ELSE gTask' = [gTask EXCEPT ![t].pc = "chosen",
                                    ![t].dev = G!Min(G!Suitable(t, read))]
  BY DEF G!Choose
<1>2. PICK m : m = G!Min(G!Suitable(t, read))
  OBVIOUS
<1>3. G!Suitable(t, read) # {} => m \in G!Device
  BY <1>2, ChosenIsDevice
<1>4. \/ gTask' = [gTask EXCEPT ![t].pc = "failed"]
      \/ m \in G!Device /\ gTask' = [gTask EXCEPT ![t].pc = "chosen", ![t].dev = m]
  BY <1>1, <1>2, <1>3 DEF G!Goes
<1> QED BY <1>4 DEF G!Choose, G!At

\* Every step keeps the types of the GPU.
LEMMA GpuTypesStay == G!TypeOK /\ [G!Next]_(G!vars) => G!TypeOK'
<1> SUFFICES ASSUME G!TypeOK, [G!Next]_(G!vars) PROVE G!TypeOK'
  OBVIOUS
<1>0. CallsTyped /\ gFns \subseteq GpuTask /\ OtherTyped /\ MonitorsTyped /\ WatchTyped
  BY GpuTypes DEF GpuTyped
<1>1. ASSUME NEW t \in GpuTask, G!Call(t) PROVE G!TypeOK'
  <2>0. Bytes[t] \in Nat /\ gTask[t] \in CallType
    BY <1>0, GpuConstants DEF CallsTyped
  <2> USE DEF G!At, G!Goes, G!Settles, G!Freed
  <2>1. CASE G!Choose(t)
    <3>1. CallsTyped'
      <4>1. CASE gTask' = [gTask EXCEPT ![t].pc = "failed"]
        BY <1>0, <4>1 DEF CallsTyped, CallType
      <4>2. ASSUME NEW m \in G!Device,
                   gTask' = [gTask EXCEPT ![t].pc = "chosen", ![t].dev = m]
            PROVE  CallsTyped'
        <5>1. m \in 0 .. Devices
          BY GpuConstants DEF G!Device
        <5> DEFINE r == [gTask[t] EXCEPT !.pc = "chosen", !.dev = m]
        <5>2. r \in CallType
          BY <2>0, <5>1 DEF CallType
        <5>3. gTask' = [gTask EXCEPT ![t] = r]
          BY <4>2
        <5> HIDE DEF r
        <5> QED BY <1>0, <5>2, <5>3 DEF CallsTyped
      <4> QED BY <2>1, <4>1, <4>2, ChooseIs
    <3> QED BY <1>0, <2>1, <3>1, ChooseIs, GpuTypes
            DEF GpuTyped, OtherTyped, MonitorsTyped, WatchTyped, G!Device
  <2>2. ASSUME \/ G!CheckThermal(t) \/ G!Reserve(t) \/ G!Activate(t)
               \/ G!Allocate(t) \/ G!Finish(t) \/ G!Release(t) \/ G!Age(t)
        PROVE  G!TypeOK'
    <3>1. CallsTyped'
      <4> USE <1>0, <2>0 DEF CallsTyped, CallType
      <4>1. CASE G!CheckThermal(t) \/ G!Reserve(t)
        BY <4>1 DEF G!CheckThermal, G!Reserve
      <4>2. CASE G!Activate(t)
        BY <4>2 DEF G!Activate
      <4>3. CASE G!Allocate(t)
        BY <4>3 DEF G!Allocate
      <4>4. CASE G!Finish(t)
        BY <4>4 DEF G!Finish
      <4>5. CASE G!Release(t)
        BY <4>5 DEF G!Release
      <4>6. CASE G!Age(t)
        BY <4>6 DEF G!Age
      <4> QED BY <2>2, <4>1, <4>2, <4>3, <4>4, <4>5, <4>6
    <3>2. UNCHANGED <<gFns, gOther, gThermal, gLastTemp, gSampling, gWatch>>
      BY <2>2
      DEF G!CheckThermal, G!Reserve, G!Activate, G!Allocate, G!Finish, G!Release, G!Age
    <3> QED BY <1>0, <3>1, <3>2, GpuTypes
            DEF GpuTyped, OtherTyped, MonitorsTyped, WatchTyped, G!Device
  <2>3. CASE G!RegisterTask(t) \/ G!DeregisterTask(t)
    <3>1. CallsTyped'
      BY <1>0, <2>3 DEF G!RegisterTask, G!DeregisterTask, CallsTyped, CallType
    <3>2. (gFns \subseteq GpuTask)' /\ UNCHANGED <<gOther, gThermal, gLastTemp, gSampling, gWatch>>
      BY <1>0, <2>3 DEF G!RegisterTask, G!DeregisterTask
    <3> QED BY <1>0, <3>1, <3>2, GpuTypes
            DEF GpuTyped, OtherTyped, MonitorsTyped, WatchTyped, G!Device
  <2> QED BY <1>1, <2>1, <2>2, <2>3 DEF G!Call
<1>2. ASSUME NEW d \in G!Device, G!Background(d) PROVE G!TypeOK'
  <2>0. gWatch[d] \in WatchType /\ gTask[gWatch[d].victim] \in CallType
        /\ gWatch[d].victim \in GpuTask
    BY <1>0, <1>2 DEF WatchTyped, CallsTyped, WatchType
  <2>1. CASE G!Expire(d) \/ G!FreeVictim(d) \/ G!StopVictim(d)
    <3>1. CallsTyped'
      <4> USE <1>0, <2>0 DEF CallsTyped, CallType
      <4>1. CASE G!Expire(d)
        BY <4>1 DEF G!Expire
      <4>2. CASE G!FreeVictim(d)
        BY <4>2 DEF G!FreeVictim, G!Freed
      <4>3. CASE G!StopVictim(d)
        BY <4>3 DEF G!StopVictim
      <4> QED BY <2>1, <4>1, <4>2, <4>3
    <3>2. WatchTyped'
      BY <1>0, <1>2, <2>1 DEF G!Expire, G!FreeVictim, G!StopVictim, WatchTyped, WatchType, G!Device
    <3>3. UNCHANGED <<gFns, gOther, gThermal, gLastTemp, gSampling>>
      BY <2>1 DEF G!Expire, G!FreeVictim, G!StopVictim
    <3> QED BY <1>0, <3>1, <3>2, <3>3, GpuTypes DEF GpuTyped, OtherTyped, MonitorsTyped, G!Device
  <2>2. CASE G!OthersUse(d) \/ G!ClearCache(d)
    <3>1. OtherTyped'
      BY <1>0, <1>2, <2>2, GpuConstants DEF G!OthersUse, G!ClearCache, OtherTyped, G!Device
    <3>2. WatchTyped'
      BY <1>0, <1>2, <2>2 DEF G!OthersUse, G!ClearCache, WatchTyped, WatchType, G!Device
    <3>3. UNCHANGED <<gTask, gFns, gThermal, gLastTemp, gSampling>>
      BY <2>2 DEF G!OthersUse, G!ClearCache
    <3> QED BY <1>0, <3>1, <3>2, <3>3, GpuTypes DEF GpuTyped, CallsTyped, MonitorsTyped, G!Device
  <2>3. CASE G!Sample(d)
    <3>1. PICK s \in G!Device : s = IF gSampling[d] = 0 THEN 1 ELSE gSampling[d]
      BY <1>0, <1>2, GpuConstants DEF MonitorsTyped, G!Device
    <3>2. (s + 1) % (Devices + 1) \in 0 .. Devices
      BY GpuConstants DEF G!Device
    <3>3. /\ gSampling' = [gSampling EXCEPT ![d] = (s + 1) % (Devices + 1)]
          /\ UNCHANGED <<gTask, gFns, gOther, gWatch>>
          /\ \/ \E temp \in Temps :
                  /\ gLastTemp' = [gLastTemp EXCEPT ![d][s] = temp]
                  /\ gThermal' = [gThermal EXCEPT ![d] = G!NextThermal(@, temp)]
             \/ UNCHANGED <<gLastTemp, gThermal>>
      BY <2>3, <3>1 DEF G!Sample
    <3>4. \A x \in ThermalType, temp \in 0 .. 4 : G!NextThermal(x, temp) \in ThermalType
      BY DEF G!NextThermal, ThermalType, G!Hot
    <3>5. gSampling' \in [G!Device -> 0 .. Devices]
      BY <1>0, <1>2, <3>2, <3>3 DEF MonitorsTyped
    <3>6. gLastTemp' \in [G!Device -> [G!Device -> 0 .. 4]]
      <4>1. CASE UNCHANGED gLastTemp
        BY <1>0, <4>1 DEF MonitorsTyped
      <4>2. ASSUME NEW temp \in Temps, gLastTemp' = [gLastTemp EXCEPT ![d][s] = temp]
            PROVE  gLastTemp' \in [G!Device -> [G!Device -> 0 .. 4]]
        <5>1. temp \in 0 .. 4 /\ gLastTemp[d] \in [G!Device -> 0 .. 4]
          BY <1>0, <1>2, <4>2, GpuConstants DEF MonitorsTyped
        <5> DEFINE row == [gLastTemp[d] EXCEPT ![s] = temp]
        <5>2. row \in [G!Device -> 0 .. 4]
          BY <3>1, <5>1
        <5>3. gLastTemp' = [gLastTemp EXCEPT ![d] = row]
          BY <4>2
        <5> HIDE DEF row
        <5> QED BY <1>0, <5>2, <5>3 DEF MonitorsTyped
      <4> QED BY <3>3, <4>1, <4>2
    <3>7. gThermal' \in [G!Device -> ThermalType]
      <4>1. \A temp \in Temps : G!NextThermal(gThermal[d], temp) \in ThermalType
        BY <1>0, <1>2, <3>4, GpuConstants DEF MonitorsTyped
      <4> QED BY <1>0, <1>2, <3>3, <4>1 DEF MonitorsTyped
    <3>8. MonitorsTyped'
      BY <3>5, <3>6, <3>7 DEF MonitorsTyped, ThermalType, G!Device, G!Hot
    <3> QED BY <1>0, <3>3, <3>8, GpuTypes DEF GpuTyped, OtherTyped, CallsTyped, WatchTyped, G!Device
  <2>4. CASE G!Check(d) \/ G!PickVictim(d) \/ G!LookUp(d)
    <3>1. WatchTyped'
      BY <1>0, <1>2, <2>4
      DEF G!Check, G!PickVictim, G!LowestActive, G!On, G!LookUp, WatchTyped, WatchType, G!Device
    <3>2. UNCHANGED <<gTask, gFns, gOther, gThermal, gLastTemp, gSampling>>
      BY <2>4 DEF G!Check, G!PickVictim, G!LookUp
    <3> QED BY <1>0, <3>1, <3>2, GpuTypes DEF GpuTyped, OtherTyped, CallsTyped, MonitorsTyped, G!Device
  <2> QED BY <1>2, <2>1, <2>2, <2>3, <2>4 DEF G!Background
<1>3. CASE UNCHANGED G!vars
  BY <1>3 DEF G!vars, G!TypeOK
<1> QED BY <1>1, <1>2, <1>3 DEF G!Next

\* What a step of a call does to it and to the others.
CallStep(t) ==
    /\ CallInOrder(t)'
    /\ gTask[t].stopped => gTask'[t].stopped
    /\ G!Choose(t) \/ G!Reserve(t) \/ (gTask'[t].dev = gTask[t].dev /\ Weights'[t] <= Weights[t])
    /\ \A u \in GpuTask \ {t} : gTask'[u] = gTask[u]
    /\ UNCHANGED <<gOther, gWatch>>

\* Every step of a call is one of the steps that the sums allow.
LEMMA CallSteps ==
    ASSUME GpuTyped, CallsInOrder, NEW t \in GpuTask, G!Call(t)
    PROVE  CallStep(t)
<1>0. /\ Bytes[t] \in Nat /\ gTask[t] \in CallType /\ gTask \in [GpuTask -> CallType]
      /\ CallInOrder(t)
  BY GpuConstants DEF GpuTyped, CallsTyped, CallsInOrder
<1> USE <1>0
<1> USE DEF G!At, G!Goes, G!Settles, CallStep, CallInOrder, CallType, Weights, G!Live
<1>1. CASE G!Choose(t)
  <2>1. CASE gTask' = [gTask EXCEPT ![t].pc = "failed"]
    BY <1>1, <2>1, ChooseIs DEF G!Device
  <2>2. ASSUME NEW m \in G!Device,
               gTask' = [gTask EXCEPT ![t].pc = "chosen", ![t].dev = m]
        PROVE  CallStep(t)
    BY <1>1, <2>2, ChooseIs DEF G!Device
  <2> QED BY <1>1, <2>1, <2>2, ChooseIs
<1>2. CASE G!CheckThermal(t)
  BY <1>2 DEF G!CheckThermal, G!Device
<1>3. CASE G!Reserve(t)
  BY <1>3 DEF G!Reserve, G!Device
<1>4. CASE G!Activate(t)
  BY <1>4 DEF G!Activate, G!Device
<1>5. CASE G!RegisterTask(t)
  BY <1>5 DEF G!RegisterTask, G!Device
<1>6. CASE G!Allocate(t)
  BY <1>6 DEF G!Allocate, G!Device
<1>7. CASE G!Finish(t)
  BY <1>7 DEF G!Finish, G!Device
<1>8. CASE G!DeregisterTask(t)
  BY <1>8 DEF G!DeregisterTask, G!Device
<1>9. CASE G!Release(t)
  BY <1>9 DEF G!Release, G!Freed, G!Device
<1>10. CASE G!Age(t)
  BY <1>10 DEF G!Age, G!Device
<1> QED
  BY <1>1, <1>2, <1>3, <1>4, <1>5, <1>6, <1>7, <1>8, <1>9, <1>10 DEF G!Call

\* What a step of the loops of a device does to the calls.
LEMMA LoopSteps ==
    ASSUME GpuTyped, CallsInOrder, NEW d \in G!Device, G!Background(d)
    PROVE  /\ CallsInOrder'
           /\ \A t \in GpuTask : gTask'[t].dev = gTask[t].dev /\ Weights'[t] <= Weights[t]
<1>0. /\ \A t \in GpuTask : Bytes[t] \in Nat /\ gTask[t] \in CallType /\ CallInOrder(t)
      /\ gTask \in [GpuTask -> CallType]
      /\ gWatch \in [G!Device -> WatchType] /\ VictimsAreStopped
      /\ gWatch[d] \in WatchType /\ gWatch[d].victim \in GpuTask
  BY GpuConstants DEF GpuTyped, CallsTyped, WatchTyped, CallsInOrder, WatchType
<1>1. CASE G!Expire(d)
  <2>1. ASSUME NEW t \in GpuTask
        PROVE  /\ CallInOrder(t)' /\ gTask'[t].stopped = gTask[t].stopped
               /\ gTask'[t].dev = gTask[t].dev /\ Weights'[t] <= Weights[t]
    BY <1>0, <1>1
    DEF G!Expire, G!Expires, CallType, CallInOrder, G!Device, Weights, G!Live
  <2>2. VictimsAreStopped'
    <3>1. \A c \in G!Device : gWatch[c].victim \in GpuTask
      BY <1>0 DEF WatchType
    <3> QED BY <1>0, <1>1, <2>1, <3>1 DEF G!Expire, VictimsAreStopped, G!Device
  <2> QED BY <2>1, <2>2 DEF CallsInOrder
<1>2. CASE G!StopVictim(d) \/ G!FreeVictim(d)
  <2>1. PICK v \in GpuTask : v = gWatch[d].victim
    BY <1>0
  <2>2. ASSUME NEW t \in GpuTask
        PROVE  /\ CallInOrder(t)' /\ (gTask[t].stopped => gTask'[t].stopped)
               /\ gTask'[t].dev = gTask[t].dev /\ Weights'[t] <= Weights[t]
    <3>1. CASE G!StopVictim(d)
      BY <1>0, <2>1, <3>1
      DEF G!StopVictim, CallType, CallInOrder, G!Device, Weights, G!Live
    <3>2. CASE G!FreeVictim(d)
      <4>1. gTask[v].stopped
        BY <1>0, <2>1, <3>2 DEF G!FreeVictim, G!Watching, VictimsAreStopped
      <4> QED BY <1>0, <2>1, <3>2, <4>1
          DEF G!FreeVictim, G!Freed, CallType, CallInOrder, G!Device, Weights, G!Live
    <3> QED BY <1>2, <3>1, <3>2
  <2>3. VictimsAreStopped'
    <3>1. \A c \in G!Device : gWatch[c].victim \in GpuTask
      BY <1>0 DEF WatchType
    <3>2. \A c \in G!Device \ {d} : gWatch'[c] = gWatch[c]
      BY <1>0, <1>2 DEF G!StopVictim, G!FreeVictim
    <3>3. gWatch'[d].pc = "free" => gTask'[gWatch'[d].victim].stopped
      BY <1>0, <1>2 DEF G!StopVictim, G!FreeVictim, WatchType, CallType
    <3> QED BY <1>0, <2>2, <3>1, <3>2, <3>3 DEF VictimsAreStopped, G!Device
  <2> QED BY <2>2, <2>3 DEF CallsInOrder
<1>3. CASE \/ G!OthersUse(d) \/ G!Sample(d) \/ G!Check(d) \/ G!PickVictim(d)
           \/ G!LookUp(d) \/ G!ClearCache(d)
  <2>1. UNCHANGED gTask
    BY <1>3
    DEF G!OthersUse, G!Sample, G!Check, G!PickVictim, G!LookUp, G!ClearCache
  <2>2. \A t \in GpuTask : /\ CallInOrder(t)' /\ gTask'[t].dev = gTask[t].dev
                           /\ Weights'[t] <= Weights[t]
    BY <1>0, <2>1 DEF CallInOrder, CallType, G!Device, Weights, G!Live
  <2>3. \A c \in G!Device : gWatch'[c].pc = "free" => gWatch'[c] = gWatch[c]
    BY <1>0, <1>3
    DEF G!OthersUse, G!Sample, G!Check, G!PickVictim, G!LookUp, G!ClearCache, WatchType
  <2>4. VictimsAreStopped'
    BY <1>0, <2>1, <2>3 DEF VictimsAreStopped, G!Device
  <2> QED BY <2>2, <2>4 DEF CallsInOrder
<1> QED BY <1>1, <1>2, <1>3 DEF G!Background

\* Every step keeps the order of the phases of a call.
LEMMA OrderStays ==
    ASSUME GpuTyped, CallsInOrder, [G!Next]_(G!vars) PROVE CallsInOrder'
<1>1. ASSUME NEW t \in GpuTask, G!Call(t) PROVE CallsInOrder'
  <2>1. CallStep(t)
    BY <1>1, CallSteps
  <2>2. \A u \in GpuTask : CallInOrder(u)'
    BY <2>1 DEF CallStep, CallInOrder, CallsInOrder, G!Device
  <2>3. \A d \in G!Device : gWatch[d].victim \in GpuTask
    BY DEF GpuTyped, WatchTyped, WatchType
  <2>4. VictimsAreStopped'
    BY <2>1, <2>3 DEF CallStep, VictimsAreStopped, CallsInOrder, G!Device
  <2> QED BY <2>2, <2>4 DEF CallsInOrder
<1>2. CASE UNCHANGED G!vars
  BY <1>2 DEF G!vars, CallsInOrder, CallInOrder, VictimsAreStopped, G!Device
<1> QED BY <1>1, <1>2, LoopSteps DEF G!Next

\* A call that has just chosen a device weighs nothing yet.
LEMMA ChoiceFits ==
    ASSUME G!TypeOK, G!TypeOK', CallsInOrder, DevicesFit, NEW t \in GpuTask, G!Choose(t)
    PROVE  DevicesFit'
<1> SUFFICES ASSUME NEW d \in G!Device PROVE (Weight(d) + Margin <= Total)'
  BY DEF DevicesFit, G!Device
<1>1. PICK S, R : S = G!On(d) /\ R = G!On(d)'
  OBVIOUS
<1>2. /\ gTask[t].pc = "idle" /\ gTask[t].dev = 0 /\ gTask[t].used = 0
      /\ gTask[t].status = "none" /\ CallStep(t) /\ gTask[t] \in CallType
  <2>1. GpuTyped /\ gTask[t].pc = "idle" /\ CallInOrder(t) /\ G!Call(t)
    BY ChooseIs, GpuTypes DEF CallsInOrder, G!Call
  <2>2. gTask[t] \in CallType
    BY <2>1 DEF GpuTyped, CallsTyped
  <2> QED BY <2>1, <2>2, CallSteps DEF CallInOrder
<1>3. gTask'[t].used = 0 /\ gTask'[t].status = "none"
  <2>1. gTask \in [GpuTask -> CallType]
    BY GpuTypes DEF GpuTyped, CallsTyped
  <2>2. CASE gTask' = [gTask EXCEPT ![t].pc = "failed"]
    BY <2>1, <2>2, <1>2 DEF CallType
  <2>3. ASSUME NEW m, gTask' = [gTask EXCEPT ![t].pc = "chosen", ![t].dev = m]
        PROVE  gTask'[t].used = 0 /\ gTask'[t].status = "none"
    BY <2>1, <2>3, <1>2 DEF CallType
  <2> QED BY <2>2, <2>3, ChooseIs
<1>4. t \notin S /\ (R = S \/ (t \in R /\ S = R \ {t}))
  BY <1>1, <1>2, GpuConstants DEF G!On, CallStep, G!Device
<1>5. Weights'[t] = 0 /\ \A u \in GpuTask \ {t} : Weights'[u] = Weights[u]
  BY <1>2, <1>3 DEF Weights, CallStep, G!Live
<1>6. /\ IsFiniteSet(S) /\ S \subseteq GpuTask /\ IsFiniteSet(R) /\ R \subseteq GpuTask
      /\ \A u \in GpuTask : Weights[u] \in Nat /\ Weights'[u] \in Nat
  <2>1. R \subseteq GpuTask
    BY <1>1 DEF G!On
  <2>2. \A u \in GpuTask : Weights[u] \in Nat
    BY WeightsTyped
  <2> QED BY <1>1, <1>5, <2>1, <2>2, WeightsTyped, GpuConstants, FS_Subset
<1>7. Sum(Weights', S) = Sum(Weights, S)
  <2>1. \A u \in S : Weights'[u] \in Nat /\ Weights'[u] = Weights[u]
    BY <1>4, <1>5, <1>6
  <2> QED BY <2>1, <1>6, SumSame
<1>8. Sum(Weights', S) \in Nat /\ Sum(Weights', R) = Sum(Weights', S)
  <2>1. \A u \in R : Weights'[u] \in Nat
    BY <1>6
  <2>2. \A u \in S : Weights'[u] \in Nat
    BY <1>6
  <2>3. Sum(Weights', S) \in Nat
    BY <2>2, <1>6, SumTakes
  <2>4. t \in R => Sum(Weights', R) = Weights'[t] + Sum(Weights', R \ {t})
    BY <2>1, <1>6, SumTakes
  <2> QED BY <2>3, <2>4, <1>4, <1>5
<1>9. Weight(d)' = Sum(Weights', R) /\ Weight(d) = Sum(Weights, S)
  BY <1>1 DEF Weight
<1>10. Weight(d) + Margin <= Total
  BY DEF DevicesFit
<1> QED BY <1>7, <1>8, <1>9, <1>10

\* A reservation counts what is reserved and what is held already.
LEMMA ReservationFits ==
    ASSUME G!TypeOK, G!TypeOK', CallsInOrder, DevicesFit, NEW t \in GpuTask, G!Reserve(t)
    PROVE  DevicesFit'
<1> SUFFICES ASSUME NEW d \in G!Device PROVE (Weight(d) + Margin <= Total)'
  BY DEF DevicesFit, G!Device
<1>1. /\ gTask[t].pc = "cool" /\ gTask[t].used = 0 /\ gTask[t].status = "none"
      /\ CallStep(t) /\ gTask[t] \in CallType /\ gTask[t].dev \in G!Device
  BY CallSteps, GpuTypes DEF G!Reserve, G!At, CallsInOrder, CallInOrder, GpuTyped, CallsTyped, G!Call
<1>2. /\ gTask'[t].used = 0 /\ gTask'[t].dev = gTask[t].dev
      /\ \/ gTask'[t].status = "none"
         \/ gTask'[t].status = "pending" /\ G!Fits(t)
  BY <1>1, GpuTypes DEF CallType, GpuTyped, CallsTyped, G!Reserve, G!Goes, G!Settles
<1>3. /\ Weights[t] = 0 /\ Bytes[t] \in Nat
      /\ \A u \in GpuTask \ {t} : Weights'[u] = Weights[u]
      /\ \A u \in GpuTask : gTask'[u].dev = gTask[u].dev
      /\ Weights'[t] = 0 \/ (Weights'[t] = Bytes[t] /\ G!Fits(t))
  BY <1>1, <1>2, GpuConstants DEF Weights, CallStep, G!Live
<1>4. CASE gTask[t].dev # d \/ Weights'[t] = 0
  <2>1. PICK S : S = G!On(d)
    OBVIOUS
  <2>2. S = G!On(d)' /\ IsFiniteSet(S) /\ S \subseteq GpuTask /\ (t \in S => gTask[t].dev = d)
    BY <2>1, <1>3, WeightsTyped DEF G!On
  <2>3. \A u \in S : Weights[u] \in Nat /\ Weights[u] = Weights'[u]
    BY <1>3, <1>4, <2>2, WeightsTyped
  <2>4. Sum(Weights, S) = Sum(Weights', S)
    BY <2>2, <2>3, SumSame
  <2> QED BY <2>1, <2>2, <2>4 DEF DevicesFit, Weight
<1>5. CASE gTask[t].dev = d /\ Weights'[t] = Bytes[t] /\ G!Fits(t)
  <2>1. PICK S, R : S = G!On(d) /\ R = G!On(d) \ {t}
    OBVIOUS
  <2>2. /\ S = G!On(d)' /\ IsFiniteSet(S) /\ IsFiniteSet(R) /\ S \subseteq GpuTask
        /\ t \in S /\ R = S \ {t}
    <3>1. S = G!On(d)' /\ S \subseteq GpuTask /\ IsFiniteSet(S) /\ t \in S /\ R = S \ {t}
      BY <2>1, <1>3, <1>5, WeightsTyped DEF G!On
    <3>2. IsFiniteSet(R)
      BY <3>1, FS_Subset
    <3> QED BY <3>1, <3>2
  <2>3. \A u \in S : Weights[u] \in Nat /\ Weights'[u] \in Nat
    BY <1>3, <1>5, <2>2, WeightsTyped
  <2>4. \A u \in R : Weights[u] \in Nat /\ Weights'[u] = Weights[u]
    BY <1>3, <2>2, <2>3
  <2>5. Sum(Weights', R) = Sum(Weights, R)
    BY <2>2, <2>4, SumSame
  <2>6. /\ Sum(Weights', S) = Bytes[t] + Sum(Weights', R)
        /\ Sum(Weights, S) = 0 + Sum(Weights, R)
        /\ Sum(Weights, R) \in Nat
    BY <2>2, <2>3, <2>4, <1>3, <1>5, SumTakes
  <2>7. Weight(d)' = Sum(Weights', S) /\ Weight(d) = Sum(Weights, S)
    BY <2>1, <2>2 DEF Weight
  <2>8. /\ Weight(d) <= G!Reserved(d) + G!Used(d)
        /\ Weight(d) \in Nat /\ G!Reserved(d) \in Nat /\ G!Used(d) \in Nat
    BY WeightIs
  <2>9. Total - gOther[d] - G!Used(d) >= G!Reserved(d) + Margin + Bytes[t]
    BY <1>5 DEF G!Fits, G!Free
  <2>10. gOther[d] \in Nat /\ Total \in Nat /\ Margin \in Nat /\ Bytes[t] \in Nat
    BY <1>3, GpuConstants, GpuTypes DEF GpuTyped, OtherTyped
  <2>11. Weight(d)' = Bytes[t] + Weight(d)
    BY <2>5, <2>6, <2>7
  <2> QED BY <2>8, <2>9, <2>10, <2>11
<1> QED BY <1>3, <1>4, <1>5

\* Every step keeps the invariant of the GPU.
LEMMA GpuInvStays == GpuInv /\ [G!Next]_(G!vars) => GpuInv'
<1> SUFFICES ASSUME GpuInv, [G!Next]_(G!vars) PROVE GpuInv'
  OBVIOUS
<1>1. G!TypeOK /\ GpuTyped /\ CallsInOrder /\ DevicesFit /\ G!TypeOK' /\ CallsInOrder'
  BY GpuTypesStay, GpuTypes, OrderStays DEF GpuInv
<1>2. ASSUME NEW t \in GpuTask, G!Call(t) PROVE DevicesFit'
  <2>1. CallStep(t)
    BY <1>1, <1>2, CallSteps
  <2>2. CASE gTask'[t].dev = gTask[t].dev /\ Weights'[t] <= Weights[t]
    <3>1. \A u \in GpuTask : gTask'[u].dev = gTask[u].dev /\ Weights'[u] <= Weights[u]
      <4>1. \A u \in GpuTask : Weights[u] \in Nat
        BY <1>1, WeightsTyped
      <4>2. \A u \in GpuTask \ {t} : gTask'[u].dev = gTask[u].dev /\ Weights'[u] = Weights[u]
        BY <2>1 DEF CallStep, Weights
      <4> QED BY <4>1, <4>2, <2>2
    <3> QED BY <1>1, <3>1, LighterFits
  <2> QED BY <1>1, <2>1, <2>2, ChoiceFits, ReservationFits DEF CallStep
<1>3. ASSUME NEW d \in G!Device, G!Background(d) PROVE DevicesFit'
  BY <1>1, <1>3, LoopSteps, LighterFits
<1>4. ASSUME UNCHANGED G!vars PROVE DevicesFit'
  <2>1. \A t \in GpuTask : Weights[t] \in Nat
    BY <1>1, WeightsTyped
  <2>2. \A t \in GpuTask : gTask'[t].dev = gTask[t].dev /\ Weights'[t] <= Weights[t]
    BY <1>4, <2>1 DEF G!vars, Weights
  <2> QED BY <1>1, <2>2, LighterFits
<1>5. \/ \E t \in GpuTask : G!Call(t)
      \/ \E d \in G!Device : G!Background(d)
      \/ UNCHANGED G!vars
  BY DEF G!Next
<1>6. DevicesFit'
  BY <1>2, <1>3, <1>4, <1>5
<1> QED BY <1>1, <1>6 DEF GpuInv

\* The invariant gives the two properties of the reservations.
LEMMA GpuHolds == GpuInv => G!WorkIsReserved /\ G!NotOvercommitted
<1> SUFFICES ASSUME GpuInv PROVE G!WorkIsReserved /\ G!NotOvercommitted
  OBVIOUS
<1>1. G!WorkIsReserved
  BY DEF GpuInv, CallsInOrder, CallInOrder, G!WorkIsReserved
<1>2. ASSUME NEW d \in G!Device
      PROVE  G!Reserved(d)
               + G!SumFunctionOnSet(G!Held, {t \in G!On(d) : gTask[t].status \notin G!Live})
               + Margin <= Total
  <2>1. PICK R : R = {t \in G!On(d) : gTask[t].status \notin G!Live}
    OBVIOUS
  <2>2. Weight(d) = G!Reserved(d) + Sum(G!Held, R) /\ Weight(d) + Margin <= Total
    BY <2>1, WeightIs DEF GpuInv, DevicesFit
  <2>3. G!SumFunctionOnSet(G!Held, R) = Sum(G!Held, R)
    BY GpuSums
  <2> QED BY <2>1, <2>2, <2>3
<1> QED BY <1>1, <1>2 DEF G!NotOvercommitted

-----------------------------------------------------------------------------
(* Sdn *)

\* The rule sets on the way to the peers, and those that were applied there, hold the rules
\* of the topology they name.
SetsAreWhole ==
    /\ \A m \in dWire : m.set.hash = m.set.rules
    /\ \A p \in Peer : dLast[p].hash = dLast[p].rules
\* What a peer applied last is what its kernel enforces.
AppliedIsEnforced == \A p \in Peer \ dHalfway : dLast[p] # D!NoSet => dKernel[p] = dLast[p].rules

SdnInv == D!TypeOK /\ SetsAreWhole /\ AppliedIsEnforced /\ D!ConfirmedIsEnforced

RequestType ==
    [pc : {"idle", "apply", "wait", "activate", "write", "label", "rules", "local"},
     top : Topo \cup {NoNode}, todo : SUBSET Peer, bad : BOOLEAN, set : D!RuleSet]
CtlType == [top : Topo \cup {NoNode}, version : 0 .. MaxVersion, online : SUBSET Peer]
OpTyped == dOp \in [Requests -> RequestType]
CtlTyped ==
    /\ dCtl \in CtlType
    /\ dHistory \in Seq(Topo) /\ Len(dHistory) <= MaxHistory
    /\ dActive \in [memory : Topo \cup {NoNode}, disk : Topo \cup {NoNode}]
    /\ dLock \in Requests \cup {NoNode} /\ dRestarts \in 0 .. MaxRestart
WireTyped == dWire \subseteq [from : Requests, to : Peer, set : D!RuleSet]
NodesTyped ==
    /\ dLast \in [D!Members -> D!RuleSet] /\ dKernel \in [D!Members -> Topo \cup {NoNode}]
    /\ dConfirmed \in [Peer -> Topo \cup {NoNode}] /\ dHalfway \subseteq D!Members
SdnTyped == CtlTyped /\ OpTyped /\ WireTyped /\ NodesTyped

\* What the assumption says of the constants of the SDN.
LEMMA SdnConstants ==
    /\ Coord \notin Peer /\ NoNode \notin Topo \cup Requests
    /\ MaxHistory \in Nat /\ MaxVersion \in Nat /\ MaxRestart \in Nat
    /\ D!NoSet \in D!RuleSet /\ D!NoSet.hash = D!NoSet.rules
    /\ D!Idle \in RequestType
BY PartsAssumption DEF D!SdnAssumption, D!NoSet, D!RuleSet, D!Idle, RequestType

\* The type invariant, and its four parts, in this state and the next.
LEMMA SdnTypes == (D!TypeOK <=> SdnTyped) /\ (D!TypeOK <=> SdnTyped)'
BY DEF D!TypeOK, SdnTyped, CtlTyped, OpTyped, WireTyped, NodesTyped, CtlType, RequestType,
       D!RuleSet, D!Members

\* The SDN begins in its invariant.
LEMMA SdnStarts == D!Init => SdnInv
<1> SUFFICES ASSUME D!Init PROVE SdnInv
  OBVIOUS
<1> USE SdnConstants
<1>1. CtlTyped
  BY DEF D!Init, CtlTyped, CtlType
<1>2. OpTyped /\ WireTyped /\ NodesTyped
  BY DEF D!Init, OpTyped, WireTyped, NodesTyped, D!Members
<1>3. SetsAreWhole /\ AppliedIsEnforced /\ D!ConfirmedIsEnforced
  BY DEF D!Init, SetsAreWhole, AppliedIsEnforced, D!ConfirmedIsEnforced, D!Members
<1> QED BY <1>1, <1>2, <1>3, SdnTypes DEF SdnInv, SdnTyped

\* A step that leaves the peers alone and adds whole sets to the wire keeps what they enforce.
PeersStay ==
    /\ \A m \in dWire' \ dWire : m.set.hash = m.set.rules
    /\ \A p \in Peer : dLast'[p] = dLast[p] /\ dKernel'[p] = dKernel[p]
    /\ dConfirmed' = dConfirmed /\ \A p \in Peer : p \in dHalfway' <=> p \in dHalfway

\* A step that leaves the peers alone keeps what is said of them.
LEMMA PeersStayHolds ==
    ASSUME SdnInv, PeersStay
    PROVE  SetsAreWhole' /\ AppliedIsEnforced' /\ D!ConfirmedIsEnforced'
BY DEF SdnInv, PeersStay, SetsAreWhole, AppliedIsEnforced, D!ConfirmedIsEnforced, D!NoSet

\* What a reconciler does with a rule set.
LEMMA ReconcileIs ==
    ASSUME SdnTyped, NEW n \in D!Members, NEW rs \in D!RuleSet, NEW result,
           D!Reconcile(n, rs, result)
    PROVE  /\ dLast' \in [D!Members -> D!RuleSet] /\ dKernel' \in [D!Members -> Topo \cup {NoNode}]
           /\ dHalfway' \subseteq D!Members
           /\ \A c \in D!Members \ {n} : /\ dLast'[c] = dLast[c] /\ dKernel'[c] = dKernel[c]
                                         /\ c \in dHalfway' <=> c \in dHalfway
           /\ n \in dHalfway => n \in dHalfway'
           /\ \/ UNCHANGED <<dLast, dKernel, dHalfway>> /\ D!Converged(n, rs)
              \/ UNCHANGED <<dLast, dKernel, dHalfway>> /\ result # "ok"
              \/ dLast'[n] = rs /\ dKernel'[n] = rs.rules
              \/ n \in dHalfway' /\ result # "ok" /\ dLast'[n] = dLast[n]
<1>1. rs.rules \in Topo \cup {NoNode}
  BY DEF D!RuleSet
<1> QED BY <1>1 DEF D!Reconcile, SdnTyped, NodesTyped

\* The coordinator's own reconciliation leaves the peers alone.
LEMMA ReconcileLocalStays ==
    ASSUME SdnInv, SdnTyped, NEW o \in Requests, D!ReconcileLocal(o)
    PROVE  SdnTyped' /\ PeersStay
<1>1. PICK result : D!Reconcile(Coord, dOp[o].set, result)
  BY DEF D!ReconcileLocal
<1>2. Coord \in D!Members /\ dOp[o].set \in D!RuleSet
  BY DEF SdnTyped, OpTyped, RequestType, D!Members
<1>3. /\ dLast' \in [D!Members -> D!RuleSet] /\ dKernel' \in [D!Members -> Topo \cup {NoNode}]
      /\ dHalfway' \subseteq D!Members
      /\ \A c \in D!Members \ {Coord} : /\ dLast'[c] = dLast[c] /\ dKernel'[c] = dKernel[c]
                                        /\ c \in dHalfway' <=> c \in dHalfway
  BY <1>1, <1>2, ReconcileIs
<1>4. /\ UNCHANGED <<dCtl, dHistory, dActive, dLock, dWire, dConfirmed, dRestarts>>
      /\ dOp' = [dOp EXCEPT ![o] = D!Idle]
  BY DEF D!ReconcileLocal
<1>5. OpTyped'
  BY <1>4, SdnConstants DEF SdnTyped, OpTyped
<1>6. NodesTyped'
  BY <1>3, <1>4 DEF SdnTyped, NodesTyped, D!Members, D!RuleSet
<1>7. CtlTyped' /\ WireTyped'
  BY <1>4 DEF SdnTyped, CtlTyped, WireTyped
<1>8. PeersStay
  BY <1>3, <1>4, SdnConstants DEF PeersStay, D!Members
<1> QED BY <1>5, <1>6, <1>7, <1>8 DEF SdnTyped

\* A rule set that reaches its peer keeps the invariant.
LEMMA HandleStays ==
    ASSUME SdnInv, SdnTyped, NEW m \in dWire, D!HandleRuleSet(m)
    PROVE  SdnTyped' /\ SetsAreWhole' /\ AppliedIsEnforced' /\ D!ConfirmedIsEnforced'
<1> DEFINE w == D!At(m.from, "wait") /\ m.to \in dOp[m.from].todo
                  /\ m.set.version = dCtl.version /\ m.set.hash = dCtl.top
<1>1. PICK result :
        /\ D!Reconcile(m.to, m.set, result)
        /\ dOp' = IF w THEN [dOp EXCEPT ![m.from].todo = @ \ {m.to},
                                        ![m.from].bad = @ \/ result # "ok"]
                  ELSE dOp
        /\ dConfirmed' = [dConfirmed EXCEPT ![m.to] =
                            IF w /\ result = "ok" THEN m.set.rules ELSE NoNode]
  BY DEF D!HandleRuleSet
<1>2. /\ dWire' = dWire \ {m}
      /\ UNCHANGED <<dCtl, dHistory, dActive, dLock, dRestarts>>
  BY DEF D!HandleRuleSet
<1> HIDE DEF w
<1>3. PICK p \in Peer : p = m.to
  BY DEF SdnTyped, WireTyped
<1>4. /\ m.set \in D!RuleSet /\ m.from \in Requests /\ p \in D!Members
      /\ m.set.rules \in Topo \cup {NoNode} /\ m.set.hash = m.set.rules
  BY DEF SdnTyped, WireTyped, D!Members, D!RuleSet, SdnInv, SetsAreWhole
<1>5. /\ dLast' \in [D!Members -> D!RuleSet] /\ dKernel' \in [D!Members -> Topo \cup {NoNode}]
      /\ dHalfway' \subseteq D!Members
      /\ \A c \in D!Members \ {p} : /\ dLast'[c] = dLast[c] /\ dKernel'[c] = dKernel[c]
                                    /\ c \in dHalfway' <=> c \in dHalfway
      /\ p \in dHalfway => p \in dHalfway'
      /\ \/ UNCHANGED <<dLast, dKernel, dHalfway>> /\ D!Converged(p, m.set)
         \/ UNCHANGED <<dLast, dKernel, dHalfway>> /\ result # "ok"
         \/ dLast'[p] = m.set /\ dKernel'[p] = m.set.rules
         \/ p \in dHalfway' /\ result # "ok" /\ dLast'[p] = dLast[p]
  BY <1>1, <1>3, <1>4, ReconcileIs
<1>6. /\ dConfirmed' \in [Peer -> Topo \cup {NoNode}]
      /\ \A q \in Peer \ {p} : dConfirmed'[q] = dConfirmed[q]
      /\ dConfirmed'[p] = NoNode \/ (dConfirmed'[p] = m.set.rules /\ result = "ok")
  BY <1>1, <1>3, <1>4 DEF SdnTyped, NodesTyped
<1>7. OpTyped'
  <2>1. dOp[m.from] \in RequestType /\ dOp \in [Requests -> RequestType]
    BY <1>4 DEF SdnTyped, OpTyped
  <2> DEFINE r == [dOp[m.from] EXCEPT !.todo = @ \ {m.to}, !.bad = @ \/ result # "ok"]
  <2>2. r \in RequestType
    BY <2>1 DEF RequestType
  <2>3. dOp' = dOp \/ dOp' = [dOp EXCEPT ![m.from] = r]
    BY <1>1
  <2> HIDE DEF r
  <2> QED BY <2>1, <2>2, <2>3 DEF OpTyped
<1>8. CtlTyped' /\ WireTyped'
  BY <1>2 DEF SdnTyped, CtlTyped, WireTyped
<1>9. NodesTyped'
  BY <1>5, <1>6 DEF NodesTyped, D!Members, D!RuleSet
<1>10. \A q \in Peer : q \in D!Members
  BY DEF D!Members
<1>11. SetsAreWhole'
  <2>1. \A q \in Peer : dLast'[q].hash = dLast'[q].rules
    BY <1>4, <1>5, <1>10 DEF SdnInv, SetsAreWhole
  <2> QED BY <1>2, <2>1 DEF SdnInv, SetsAreWhole
<1>12. AppliedIsEnforced'
  BY <1>5, <1>10 DEF SdnInv, AppliedIsEnforced, D!NoSet
<1>13. D!ConfirmedIsEnforced'
  <2>1. D!Converged(p, m.set) /\ p \notin dHalfway => dKernel[p] = m.set.rules
    BY <1>4 DEF D!Converged, SdnInv, SetsAreWhole, AppliedIsEnforced
  <2>2. p \notin dHalfway' /\ dConfirmed'[p] # NoNode => dKernel'[p] = dConfirmed'[p]
    BY <1>5, <1>6, <2>1
  <2> QED BY <1>5, <1>6, <1>10, <2>2 DEF SdnInv, D!ConfirmedIsEnforced
<1> QED BY <1>7, <1>8, <1>9, <1>11, <1>12, <1>13 DEF SdnTyped

\* A restart of a peer keeps the invariant.
LEMMA RestartPeerStays ==
    ASSUME SdnInv, SdnTyped, NEW p \in Peer, D!RestartPeer(p)
    PROVE  SdnTyped' /\ SetsAreWhole' /\ AppliedIsEnforced' /\ D!ConfirmedIsEnforced'
<1>1. PICK rules \in {dKernel[p], NoNode} : dKernel' = [dKernel EXCEPT ![p] = rules]
  BY DEF D!RestartPeer
<1>2. /\ dRestarts < MaxRestart /\ dRestarts' = dRestarts + 1
      /\ dLast' = [dLast EXCEPT ![p] = D!NoSet]
      /\ dWire' = {m \in dWire : m.to # p}
      /\ dConfirmed' = [dConfirmed EXCEPT ![p] = NoNode]
      /\ dHalfway' = dHalfway \ {p}
      /\ UNCHANGED <<dCtl, dHistory, dActive, dLock, dOp>>
  BY DEF D!RestartPeer
<1>3. p \in D!Members /\ \A q \in Peer : q \in D!Members
  BY DEF D!Members
<1>4. CtlTyped' /\ OpTyped' /\ WireTyped'
  BY <1>2, SdnConstants DEF SdnTyped, CtlTyped, OpTyped, WireTyped
<1>5. /\ dLast' \in [D!Members -> D!RuleSet] /\ dKernel' \in [D!Members -> Topo \cup {NoNode}]
      /\ dConfirmed' \in [Peer -> Topo \cup {NoNode}] /\ dHalfway' \subseteq D!Members
  BY <1>1, <1>2, <1>3, SdnConstants DEF SdnTyped, NodesTyped
<1>6. NodesTyped'
  BY <1>5 DEF NodesTyped, D!Members, D!RuleSet
<1>7. /\ dLast'[p] = D!NoSet /\ dConfirmed'[p] = NoNode
      /\ \A q \in Peer \ {p} : /\ dLast'[q] = dLast[q] /\ dKernel'[q] = dKernel[q]
                               /\ dConfirmed'[q] = dConfirmed[q]
                               /\ q \in dHalfway' <=> q \in dHalfway
  BY <1>1, <1>2, <1>3 DEF SdnTyped, NodesTyped
<1>8. SetsAreWhole'
  BY <1>2, <1>7, SdnConstants DEF SdnInv, SetsAreWhole
<1>9. AppliedIsEnforced'
  BY <1>7 DEF SdnInv, AppliedIsEnforced, D!NoSet
<1>10. D!ConfirmedIsEnforced'
  BY <1>7 DEF SdnInv, D!ConfirmedIsEnforced
<1> QED BY <1>4, <1>6, <1>8, <1>9, <1>10 DEF SdnTyped

\* A restart of the coordinator leaves the peers alone.
LEMMA RestartCoordinatorStays ==
    ASSUME SdnInv, SdnTyped, D!RestartCoordinator
    PROVE  SdnTyped' /\ PeersStay
<1>1. PICK rules \in {dKernel[Coord], NoNode} : dKernel' = [dKernel EXCEPT ![Coord] = rules]
  BY DEF D!RestartCoordinator
<1>2. /\ dRestarts < MaxRestart /\ dRestarts' = dRestarts + 1
      /\ dCtl' = [top |-> NoNode, version |-> 0, online |-> {}]
      /\ dHistory' = <<>>
      /\ dActive' = [dActive EXCEPT !.memory = dActive.disk]
      /\ dLock' = NoNode
      /\ dOp' = [o \in Requests |-> D!Idle]
      /\ dLast' = [dLast EXCEPT ![Coord] = D!NoSet]
      /\ dHalfway' = dHalfway \ {Coord}
      /\ UNCHANGED <<dWire, dConfirmed>>
  BY DEF D!RestartCoordinator
<1>3. Coord \in D!Members /\ Coord \notin Peer /\ \A q \in Peer : q \in D!Members
  BY SdnConstants DEF D!Members
<1>4. CtlTyped'
  BY <1>2, SdnConstants DEF SdnTyped, CtlTyped, CtlType
<1>5. OpTyped' /\ WireTyped'
  BY <1>2, SdnConstants DEF SdnTyped, OpTyped, WireTyped
<1>6. /\ dLast' \in [D!Members -> D!RuleSet] /\ dKernel' \in [D!Members -> Topo \cup {NoNode}]
      /\ dConfirmed' \in [Peer -> Topo \cup {NoNode}] /\ dHalfway' \subseteq D!Members
  BY <1>1, <1>2, <1>3, SdnConstants DEF SdnTyped, NodesTyped
<1>7. NodesTyped'
  BY <1>6 DEF NodesTyped, D!Members, D!RuleSet
<1>8. PeersStay
  BY <1>1, <1>2, <1>3 DEF PeersStay, SdnTyped, NodesTyped
<1> QED BY <1>4, <1>5, <1>7, <1>8 DEF SdnTyped

\* The steps of a request before its answers change neither nodes nor rule sets on the way.
LEMMA RequestStays ==
    ASSUME SdnInv, SdnTyped, NEW o \in Requests, D!Request(o)
    PROVE  SdnTyped' /\ PeersStay
<1>0. /\ dOp[o] \in RequestType /\ dOp \in [Requests -> RequestType] /\ dCtl \in CtlType
      /\ dHistory \in Seq(Topo) /\ Len(dHistory) <= MaxHistory
  BY DEF SdnTyped, OpTyped, CtlTyped
<1>1. ASSUME UNCHANGED <<dLast, dKernel, dConfirmed, dHalfway, dRestarts>>,
             WireTyped', \A m \in dWire' \ dWire : m.set.hash = m.set.rules,
             NEW r \in RequestType, dOp' = [dOp EXCEPT ![o] = r],
             dCtl' \in CtlType, dHistory' \in Seq(Topo), Len(dHistory') <= MaxHistory,
             dActive' \in [memory : Topo \cup {NoNode}, disk : Topo \cup {NoNode}],
             dLock' \in Requests \cup {NoNode}
      PROVE  SdnTyped' /\ PeersStay
  <2>1. CtlTyped'
    BY <1>1 DEF SdnTyped, CtlTyped, CtlType
  <2>2. OpTyped'
    BY <1>0, <1>1 DEF OpTyped
  <2>3. NodesTyped'
    BY <1>1 DEF SdnTyped, NodesTyped, D!Members, D!RuleSet
  <2> QED BY <1>1, <2>1, <2>2, <2>3 DEF SdnTyped, PeersStay
<1> USE DEF D!At, D!Go, D!nodes
<1>2. ASSUME NEW t \in Topo, D!ApplyTopology(o, t) PROVE SdnTyped' /\ PeersStay
  <2> DEFINE r == [D!Idle EXCEPT !.pc = "apply", !.top = t]
  <2>1. r \in RequestType
    BY SdnConstants DEF RequestType
  <2>2. dOp' = [dOp EXCEPT ![o] = r] /\ dCtl' \in CtlType
    BY <1>0, <1>2 DEF D!ApplyTopology, CtlType
  <2> HIDE DEF r
  <2> QED BY <1>1, <1>2, <2>1, <2>2 DEF D!ApplyTopology, SdnTyped, CtlTyped, WireTyped
<1>3. CASE D!Rollback(o)
  <2> DEFINE r == [D!Idle EXCEPT !.pc = "apply", !.top = D!Last(dHistory)]
  <2>1. /\ D!Last(dHistory) \in Topo /\ D!Front(dHistory) \in Seq(Topo)
        /\ Len(D!Front(dHistory)) <= MaxHistory
    BY <1>0, <1>3, SdnConstants DEF D!Rollback, D!Last, D!Front
  <2>2. r \in RequestType
    BY <2>1, SdnConstants DEF RequestType
  <2>3. dOp' = [dOp EXCEPT ![o] = r] /\ dHistory' = D!Front(dHistory)
    BY <1>3 DEF D!Rollback
  <2> HIDE DEF r
  <2> QED BY <1>1, <1>3, <2>1, <2>2, <2>3 DEF D!Rollback, SdnTyped, CtlTyped, WireTyped
<1>4. CASE D!Apply(o)
  <2>1. PICK reached \in SUBSET dCtl.online :
         /\ dWire' = dWire \cup {[from |-> o, to |-> p, set |-> [hash |-> dOp[o].top,
                                 version |-> dCtl.version + 1, rules |-> dOp[o].top]] : p \in reached}
         /\ dOp' = [dOp EXCEPT ![o].pc = "wait", ![o].todo = reached,
                               ![o].bad = reached # dCtl.online]
    BY <1>4 DEF D!Apply
  <2>2. /\ dCtl.version < MaxVersion /\ dLock' = o /\ dHistory' = D!Saved
        /\ dCtl' = [dCtl EXCEPT !.top = dOp[o].top, !.version = @ + 1]
        /\ UNCHANGED <<dActive, dLast, dKernel, dConfirmed, dHalfway, dRestarts>>
    BY <1>4 DEF D!Apply
  <2>3. /\ dCtl.version + 1 \in 0 .. MaxVersion /\ dOp[o].top \in Topo \cup {NoNode}
        /\ reached \subseteq Peer
    BY <1>0, <2>1, <2>2, SdnConstants DEF CtlType, RequestType
  <2>4. PICK s \in D!RuleSet : /\ s = [hash |-> dOp[o].top, version |-> dCtl.version + 1,
                                       rules |-> dOp[o].top]
                               /\ s.hash = s.rules
    <3>1. [hash |-> dOp[o].top, version |-> dCtl.version + 1, rules |-> dOp[o].top] \in D!RuleSet
      BY <2>3 DEF D!RuleSet
    <3> QED BY <3>1
  <2>5. WireTyped' /\ \A m \in dWire' \ dWire : m.set.hash = m.set.rules
    <3>1. dWire' = dWire \cup {[from |-> o, to |-> p, set |-> s] : p \in reached}
      BY <2>1, <2>4
    <3>2. dWire \subseteq [from : Requests, to : Peer, set : D!RuleSet]
      BY DEF SdnTyped, WireTyped
    <3>3. dWire' \subseteq [from : Requests, to : Peer, set : D!RuleSet]
      BY <3>1, <3>2, <2>3, <2>4
    <3>4. WireTyped'
      BY <3>3 DEF WireTyped, D!RuleSet
    <3>5. \A m \in dWire' \ dWire : m.set = s
      BY <3>1
    <3> QED BY <3>4, <3>5, <2>4
  <2>6. dCtl' \in CtlType
    BY <1>0, <2>2, <2>3 DEF CtlType
  <2>7. dHistory' \in Seq(Topo) /\ Len(dHistory') <= MaxHistory
    <3>1. PICK h : h = IF dCtl.top = NoNode THEN dHistory ELSE Append(dHistory, dCtl.top)
      OBVIOUS
    <3>2. h \in Seq(Topo) /\ Len(h) <= MaxHistory + 1
      BY <1>0, <3>1, SdnConstants DEF CtlType
    <3>3. dHistory' = IF Len(h) > MaxHistory THEN Tail(h) ELSE h
      BY <2>2, <3>1 DEF D!Saved
    <3>4. Len(h) > MaxHistory => Tail(h) \in Seq(Topo) /\ Len(Tail(h)) = Len(h) - 1
      BY <3>2, SdnConstants
    <3> QED BY <3>2, <3>3, <3>4, SdnConstants
  <2> DEFINE r == [dOp[o] EXCEPT !.pc = "wait", !.todo = reached, !.bad = reached # dCtl.online]
  <2>8. r \in RequestType
    BY <1>0, <2>3 DEF RequestType
  <2>9. dOp' = [dOp EXCEPT ![o] = r]
    BY <2>1
  <2> HIDE DEF r
  <2> QED BY <1>1, <2>2, <2>5, <2>6, <2>7, <2>8, <2>9 DEF SdnTyped, CtlTyped
<1>5. ASSUME NEW p \in Peer, D!AckTimesOut(o, p) PROVE SdnTyped' /\ PeersStay
  <2> DEFINE r == [dOp[o] EXCEPT !.todo = @ \ {p}, !.bad = TRUE]
  <2>1. r \in RequestType
    BY <1>0 DEF RequestType
  <2>2. dOp' = [dOp EXCEPT ![o] = r]
    BY <1>5 DEF D!AckTimesOut
  <2> HIDE DEF r
  <2> QED BY <1>1, <1>5, <2>1, <2>2 DEF D!AckTimesOut, SdnTyped, CtlTyped, WireTyped
<1>6. CASE D!Distributed(o)
  <2>1. PICK r \in RequestType : dOp' = [dOp EXCEPT ![o] = r]
    <3> DEFINE r == [dOp[o] EXCEPT !.pc = "activate"]
    <3>1. r \in RequestType
      BY <1>0 DEF RequestType
    <3>2. dOp' = [dOp EXCEPT ![o] = D!Idle] \/ dOp' = [dOp EXCEPT ![o] = r]
      BY <1>6 DEF D!Distributed
    <3> HIDE DEF r
    <3> QED BY <3>1, <3>2, SdnConstants
  <2> QED BY <1>1, <1>6, <2>1 DEF D!Distributed, SdnTyped, CtlTyped, WireTyped
<1>7. CASE D!Activate(o) \/ D!WriteConfig(o)
  <2>1. PICK r \in RequestType : dOp' = [dOp EXCEPT ![o] = r]
    <3> DEFINE r == [dOp[o] EXCEPT !.pc = "write"]
               q == [dOp[o] EXCEPT !.pc = "label"]
    <3>1. r \in RequestType /\ q \in RequestType
      BY <1>0 DEF RequestType
    <3>2. dOp' = [dOp EXCEPT ![o] = q] \/ dOp' = [dOp EXCEPT ![o] = r]
      BY <1>7 DEF D!Activate, D!WriteConfig
    <3> HIDE DEF r, q
    <3> QED BY <3>1, <3>2
  <2>2. dActive' \in [memory : Topo \cup {NoNode}, disk : Topo \cup {NoNode}]
    BY <1>0, <1>7 DEF D!Activate, D!WriteConfig, SdnTyped, CtlTyped, RequestType
  <2> QED BY <1>1, <1>7, <2>1, <2>2
          DEF D!Activate, D!WriteConfig, SdnTyped, CtlTyped, WireTyped
<1>8. CASE D!LabelLocal(o) \/ D!ComputeLocal(o)
  <2>1. PICK r \in RequestType : dOp' = [dOp EXCEPT ![o] = r]
    <3> DEFINE r == [dOp[o] EXCEPT !.pc = "rules", !.set.hash = dCtl.top,
                                   !.set.version = dCtl.version]
               q == [dOp[o] EXCEPT !.pc = "local", !.set.rules = dCtl.top]
    <3>1. r \in RequestType /\ q \in RequestType
      BY <1>0 DEF RequestType, D!RuleSet, CtlType
    <3>2. dOp' = [dOp EXCEPT ![o] = q] \/ dOp' = [dOp EXCEPT ![o] = r]
      BY <1>8 DEF D!LabelLocal, D!ComputeLocal
    <3> HIDE DEF r, q
    <3> QED BY <3>1, <3>2
  <2> QED BY <1>1, <1>8, <2>1 DEF D!LabelLocal, D!ComputeLocal, SdnTyped, CtlTyped, WireTyped
<1> QED BY <1>2, <1>3, <1>4, <1>5, <1>6, <1>7, <1>8, ReconcileLocalStays DEF D!Request

\* Every step of the SDN keeps its invariant.
LEMMA SdnInvStays == SdnInv /\ [D!Next]_(D!vars) => SdnInv'
<1> SUFFICES ASSUME SdnInv, [D!Next]_(D!vars) PROVE SdnInv'
  OBVIOUS
<1>1. SdnTyped
  BY SdnTypes DEF SdnInv
<1>2. ASSUME SdnTyped', PeersStay PROVE SdnInv'
  BY <1>2, SdnTypes, PeersStayHolds DEF SdnInv
<1>3. ASSUME SdnTyped', SetsAreWhole', AppliedIsEnforced', D!ConfirmedIsEnforced' PROVE SdnInv'
  BY <1>3, SdnTypes DEF SdnInv
<1>4. ASSUME NEW m \in dWire, D!StreamBreaks(m) PROVE SdnInv'
  <2>1. SdnTyped' /\ PeersStay
    BY <1>1, <1>4
    DEF D!StreamBreaks, D!nodes, SdnTyped, CtlTyped, OpTyped, WireTyped, NodesTyped, PeersStay,
        D!Members, D!RuleSet, CtlType, RequestType
  <2> QED BY <1>2, <2>1
<1>5. ASSUME UNCHANGED D!vars PROVE SdnInv'
  <2>1. SdnTyped' /\ PeersStay
    BY <1>1, <1>5
    DEF D!vars, SdnTyped, CtlTyped, OpTyped, WireTyped, NodesTyped, PeersStay,
        D!Members, D!RuleSet, CtlType, RequestType
  <2> QED BY <1>2, <2>1
<1>6. \/ \E o \in Requests : D!Request(o)
      \/ \E m \in dWire : D!HandleRuleSet(m) \/ D!StreamBreaks(m)
      \/ \E p \in Peer : D!RestartPeer(p)
      \/ D!RestartCoordinator
      \/ UNCHANGED D!vars
  BY DEF D!Next
<1> QED
  BY <1>1, <1>2, <1>3, <1>4, <1>5, <1>6, RequestStays, HandleStays, RestartPeerStays,
     RestartCoordinatorStays

-----------------------------------------------------------------------------
(* Mcp *)

InstanceType ==
    [proc : {"none", "alive", "failed", "dead"}, open : BOOLEAN, pending : SUBSET Nat,
     asked : SUBSET (Nat \X Caller), ids : Nat]
CallOfType ==
    [pc : {"idle", "chosen", "wait", "done"}, inst : 0 .. MaxStarts, id : Nat,
     got : {"none", "error"} \cup Caller]
Serves(i) == cInst[i].proc = "alive" /\ cInst[i].open

InstanceFine(i) ==
    /\ cInst[i].pending \subseteq 1 .. cInst[i].ids
    /\ cInst[i].open => cInst[i].proc # "none" /\ i = cCur /\ cCfg.exists
    /\ Serves(i) => \A a \in cInst[i].asked : a[1] <= cInst[i].ids
\* A call waits for the one request that has its number, at an instance that serves.
CallFine(c) ==
    /\ cCall[c].pc \in {"chosen", "wait"} => cCall[c].inst \in C!Instance
    /\ cCall[c].pc = "wait" =>
         /\ cInst[cCall[c].inst].proc # "none"
         /\ Serves(cCall[c].inst) =>
              /\ cCall[c].id <= cInst[cCall[c].inst].ids
              /\ \A a \in cInst[cCall[c].inst].asked : a[1] = cCall[c].id => a[2] = c
    /\ cCall[c].got \in {"none", "error", c}

GatewayTyped ==
    /\ cCfg \in C!Config /\ cDisk \in C!Config /\ cCur \in 0 .. MaxStarts
    /\ cToggle \in [Toggle -> [pc : {"idle", "save", "done"}, on : BOOLEAN]]
    /\ cLoops \in {"off", "on", "over"}
InstancesTyped == cInst \in [C!Instance -> InstanceType]
CallsOfTyped == cCall \in [Caller -> CallOfType]
InstancesFine == InstancesTyped /\ \A i \in C!Instance : InstanceFine(i)
CallsFine == CallsOfTyped /\ \A c \in Caller : CallFine(c)
McpInv == GatewayTyped /\ InstancesFine /\ CallsFine

\* The gateway begins in its invariant.
LEMMA McpStarts == C!Init => McpInv
<1> SUFFICES ASSUME C!Init PROVE McpInv
  OBVIOUS
<1> USE PartsAssumption DEF C!McpAssumption, C!Init
<1>1. GatewayTyped
  BY DEF GatewayTyped, C!NoConfig, C!Config
<1>2. InstancesFine
  BY DEF InstancesFine, InstancesTyped, InstanceType, InstanceFine, Serves, C!Unused
<1>3. CallsFine
  BY DEF CallsFine, CallsOfTyped, CallOfType, CallFine, C!Waiting
<1> QED BY <1>1, <1>2, <1>3 DEF McpInv

\* An instance stays, is shut or starts.
Shut(i) ==
    /\ cInst'[i] \in InstanceType /\ cInst'[i].pending = {} /\ ~Serves(i)'
    /\ cInst'[i].open => cInst[i].open
    /\ cInst[i].proc # "none" => cInst'[i].proc # "none"
    /\ cInst'[i].open => cInst'[i].proc # "none"
Born(i) ==
    /\ cInst[i].proc = "none"
    /\ cInst'[i] \in InstanceType /\ cInst'[i].pending = {} /\ cInst'[i].asked = {}
    /\ cInst'[i].proc # "none" /\ (cInst'[i].open => i = cCur' /\ cCfg'.exists)
InstancesMove ==
    /\ cInst' = [i \in C!Instance |-> cInst'[i]]
    /\ \A i \in C!Instance :
         \/ cInst'[i] = cInst[i] /\ (cInst[i].open => i = cCur' /\ cCfg'.exists)
         \/ Shut(i) /\ (cInst'[i].open => i = cCur' /\ cCfg'.exists)
         \/ Born(i)

\* A move of the instances that no call notices keeps what is said of both.
LEMMA InstancesMoved ==
    ASSUME InstancesFine, CallsFine, InstancesMove, UNCHANGED cCall
    PROVE  InstancesFine' /\ CallsFine'
<1>1. InstancesFine'
  BY DEF InstancesFine, InstancesMove, InstancesTyped, InstanceFine, Shut, Born, C!Instance, Serves
<1>2. CallsFine'
  <2>1. CallsOfTyped'
    BY DEF CallsFine, CallsOfTyped, CallOfType
  <2>2. ASSUME NEW c \in Caller PROVE CallFine(c)'
    <3>1. CallFine(c) /\ cCall'[c] = cCall[c]
      BY DEF CallsFine
    <3>2. CASE cCall[c].pc = "wait"
      <4>1. PICK i \in C!Instance : i = cCall[c].inst
        BY <3>1, <3>2 DEF CallFine
      <4> QED BY <3>1, <3>2, <4>1
              DEF InstancesMove, Shut, Born, CallFine, Serves, C!Instance
    <3> QED BY <3>1, <3>2 DEF CallFine, C!Instance
  <2> QED BY <2>1, <2>2 DEF CallsFine
<1> QED BY <1>1, <1>2

\* An instance that is told to stop.
LEMMA StoppedIs ==
    ASSUME InstancesFine, NEW i \in 0 .. MaxStarts
    PROVE  /\ C!Stopped(i) \in [C!Instance -> InstanceType]
           /\ \A j \in C!Instance \ {i} : C!Stopped(i)[j] = cInst[j]
           /\ i \in C!Instance => /\ C!Stopped(i)[i].open = FALSE /\ C!Stopped(i)[i].pending = {}
                                  /\ C!Stopped(i)[i].proc = cInst[i].proc
<1>1. CASE i = 0
  BY <1>1, PartsAssumption DEF C!McpAssumption, C!Stopped, C!Instance, InstancesFine, InstancesTyped
<1>2. CASE i # 0
  <2>1. i \in C!Instance /\ cInst[i] \in InstanceType
    BY <1>2, PartsAssumption DEF C!McpAssumption, C!Instance, InstancesFine, InstancesTyped
  <2> DEFINE x == [C!Silent(cInst[i]) EXCEPT !.open = FALSE]
  <2>2. x \in InstanceType /\ x.open = FALSE /\ x.pending = {} /\ x.proc = cInst[i].proc
    BY <2>1 DEF InstanceType, C!Silent
  <2>3. C!Stopped(i) = [cInst EXCEPT ![i] = x]
    BY <1>2 DEF C!Stopped
  <2> HIDE DEF x
  <2> QED BY <2>1, <2>2, <2>3 DEF InstancesFine, InstancesTyped
<1> QED BY <1>1, <1>2

\* Stopping the current instance is such a move.
LEMMA StopMoves ==
    ASSUME InstancesFine, GatewayTyped, C!StopInstance
    PROVE  InstancesMove /\ cCur' \in 0 .. MaxStarts
<1>1. cInst' = C!Stopped(cCur) /\ cCur' = 0 /\ cCur \in 0 .. MaxStarts
  BY DEF C!StopInstance, GatewayTyped
<1>2. ASSUME NEW i \in C!Instance
      PROVE  \/ cInst'[i] = cInst[i] /\ ~cInst[i].open
             \/ Shut(i) /\ ~cInst'[i].open
  <2>1. CASE i = cCur
    BY <1>1, <2>1, StoppedIs DEF Shut, Serves
  <2>2. CASE i # cCur
    BY <1>1, <2>2, StoppedIs DEF InstancesFine, InstanceFine
  <2> QED BY <2>1, <2>2
<1>3. cInst' = [i \in C!Instance |-> cInst'[i]]
  BY <1>1, StoppedIs
<1> QED BY <1>1, <1>2, <1>3, PartsAssumption DEF InstancesMove, C!McpAssumption

\* Starting a new instance is such a move.
LEMMA StartMoves ==
    ASSUME InstancesFine, GatewayTyped, C!StartInstance, cCfg'.exists
    PROVE  InstancesMove /\ cCur' \in 0 .. MaxStarts
<1>1. PICK i \in C!Fresh, ok \in BOOLEAN :
        /\ cCur' = i
        /\ cInst' = [C!Stopped(cCur) EXCEPT ![i] = [C!Unused EXCEPT
                        !.proc = IF ok THEN "alive" ELSE "failed", !.open = ok]]
  BY DEF C!StartInstance, C!StartedAfter
<1>2. i \in C!Instance /\ cInst[i] = C!Unused /\ cCur \in 0 .. MaxStarts
  BY <1>1 DEF C!Fresh, GatewayTyped
<1> DEFINE x == [C!Unused EXCEPT !.proc = IF ok THEN "alive" ELSE "failed", !.open = ok]
<1>3. /\ x \in InstanceType /\ x.pending = {} /\ x.asked = {} /\ x.proc # "none"
      /\ C!Unused.proc = "none"
  BY <1>1 DEF C!Unused, InstanceType
<1>4. cInst' = [C!Stopped(cCur) EXCEPT ![i] = x]
  BY <1>1
<1> HIDE DEF x
<1>5. cInst'[i] = x /\ (\A j \in C!Instance \ {i} : cInst'[j] = C!Stopped(cCur)[j])
      /\ cInst' = [j \in C!Instance |-> cInst'[j]]
  BY <1>2, <1>4, StoppedIs
<1>6. Born(i)
  BY <1>1, <1>2, <1>3, <1>5 DEF Born
<1>7. ASSUME NEW j \in C!Instance, j # i
      PROVE  \/ cInst'[j] = cInst[j] /\ ~cInst[j].open
             \/ Shut(j) /\ ~cInst'[j].open
  <2>1. CASE j = cCur
    BY <1>2, <1>5, <1>7, <2>1, StoppedIs DEF Shut, Serves
  <2>2. CASE j # cCur
    <3>1. cInst'[j] = C!Stopped(cCur)[j] /\ C!Stopped(cCur)[j] = cInst[j]
      BY <1>2, <1>5, <1>7, <2>2, StoppedIs
    <3> QED BY <2>2, <3>1 DEF InstancesFine, InstanceFine
  <2> QED BY <2>1, <2>2
<1>8. cCur' \in 0 .. MaxStarts
  BY <1>1, <1>2, PartsAssumption DEF C!Instance, C!McpAssumption
<1> QED BY <1>5, <1>6, <1>7, <1>8 DEF InstancesMove

\* A configuration is saved.
LEMMA SaveMoves ==
    ASSUME InstancesFine, GatewayTyped, NEW b \in BOOLEAN, C!Save(b)
    PROVE  /\ InstancesMove /\ cCur' \in 0 .. MaxStarts
           /\ cCfg' \in C!Config /\ cDisk' \in C!Config
<1>1. /\ cCfg' = [exists |-> TRUE, on |-> b]
      /\ \/ cDisk' = cCfg' /\ (C!StartInstance \/ C!StopInstance)
         \/ UNCHANGED <<cDisk, cCur, cInst>>
  BY DEF C!Save
<1>2. cCfg' \in C!Config /\ cDisk' \in C!Config
  <2>1. [exists |-> TRUE, on |-> b] \in C!Config
    BY DEF C!Config
  <2>2. cDisk' = cCfg' \/ cDisk' = cDisk
    BY <1>1
  <2> QED BY <1>1, <2>1, <2>2 DEF GatewayTyped
<1>3. cCfg'.exists
  BY <1>1
<1>4. CASE UNCHANGED <<cDisk, cCur, cInst>>
  BY <1>2, <1>3, <1>4 DEF InstancesMove, InstancesFine, InstancesTyped, InstanceFine, GatewayTyped
<1> QED BY <1>1, <1>2, <1>3, <1>4, StartMoves, StopMoves

\* A request that is sent to an instance keeps the invariant.
LEMMA RequestFine ==
    ASSUME McpInv, NEW c \in Caller, C!Request(c)
    PROVE  McpInv'
<1>1. /\ cCall[c].pc = "chosen" /\ cCall[c].inst \in C!Instance /\ cCall[c] \in CallOfType
      /\ cCall[c].got \in {"none", "error", c}
      /\ UNCHANGED <<cCfg, cDisk, cCur, cToggle, cLoops>>
  BY DEF C!Request, McpInv, CallsFine, CallFine, CallsOfTyped
<1>2. PICK i \in C!Instance : i = cCall[c].inst
  BY <1>1
<1>3. PICK n \in Nat : n = cInst[i].ids + 1
  BY <1>2 DEF McpInv, InstancesFine, InstancesTyped, InstanceType
<1>4. GatewayTyped'
  BY <1>1 DEF McpInv, GatewayTyped, C!Config
<1>5. CASE UNCHANGED cInst /\ C!Return(c, "error")
  <2>1. InstancesFine'
    BY <1>1, <1>5
    DEF McpInv, InstancesFine, InstancesTyped, InstanceType, InstanceFine, Serves, C!Instance
  <2>2. C!Returned("error") \in CallOfType /\ C!Returned("error").pc = "done"
        /\ C!Returned("error").got = "error"
    BY PartsAssumption DEF C!Returned, CallOfType, C!McpAssumption
  <2>3. CallsOfTyped'
    BY <1>5, <2>2 DEF C!Return, McpInv, CallsFine, CallsOfTyped, CallOfType
  <2>4. ASSUME NEW d \in Caller PROVE CallFine(d)'
    <3>1. CallFine(d) /\ (d = c => cCall'[d] = C!Returned("error"))
          /\ (d # c => cCall'[d] = cCall[d])
      BY <1>5 DEF C!Return, McpInv, CallsFine, CallsOfTyped
    <3> QED BY <1>5, <2>2, <3>1 DEF CallFine, Serves, C!Instance
  <2> QED BY <1>4, <2>1, <2>3, <2>4 DEF McpInv, CallsFine
<1>6. CASE /\ cInst[i].open
           /\ cCall' = [cCall EXCEPT ![c].pc = "wait", ![c].id = n]
           /\ cInst' = [cInst EXCEPT ![i].ids = n, ![i].pending = @ \cup {n},
                                     ![i].asked = @ \cup {<<n, c>>}]
  <2> DEFINE x == [cInst[i] EXCEPT !.ids = n, !.pending = @ \cup {n},
                                   !.asked = @ \cup {<<n, c>>}]
             y == [cCall[c] EXCEPT !.pc = "wait", !.id = n]
  <2>1. /\ cInst \in [C!Instance -> InstanceType] /\ cInst[i] \in InstanceType
        /\ cCall \in [Caller -> CallOfType] /\ InstanceFine(i)
    BY DEF McpInv, InstancesFine, InstancesTyped, CallsFine, CallsOfTyped
  <2>2. /\ x \in InstanceType /\ x.ids = n /\ x.pending = cInst[i].pending \cup {n}
        /\ x.asked = cInst[i].asked \cup {<<n, c>>}
        /\ x.open = cInst[i].open /\ x.proc = cInst[i].proc
    <3>1. PICK p, q : p = cInst[i].pending \cup {n} /\ q = cInst[i].asked \cup {<<n, c>>}
      OBVIOUS
    <3>2. p \in SUBSET Nat /\ q \in SUBSET (Nat \X Caller)
      BY <2>1, <3>1 DEF InstanceType
    <3>3. x = [cInst[i] EXCEPT !.ids = n, !.pending = p, !.asked = q]
      BY <3>1
    <3> QED BY <2>1, <3>1, <3>2, <3>3 DEF InstanceType
  <2>3. /\ y \in CallOfType /\ y.pc = "wait" /\ y.id = n /\ y.inst = i
        /\ y.got \in {"none", "error", c}
    BY <1>1, <1>2 DEF CallOfType
  <2>4. cInst' = [cInst EXCEPT ![i] = x] /\ cCall' = [cCall EXCEPT ![c] = y]
    BY <1>6
  <2> HIDE DEF x, y
  <2>5. /\ cInst' \in [C!Instance -> InstanceType] /\ cInst'[i] = x
        /\ \A j \in C!Instance \ {i} : cInst'[j] = cInst[j]
        /\ cCall' \in [Caller -> CallOfType] /\ cCall'[c] = y
        /\ \A d \in Caller \ {c} : cCall'[d] = cCall[d]
    BY <2>1, <2>2, <2>3, <2>4
  <2>6. cInst[i].ids \in Nat /\ n = cInst[i].ids + 1 /\ cInst[i].proc # "none"
    BY <1>3, <1>6, <2>1 DEF InstanceType, InstanceFine
  <2>7. Serves(i) => \A a \in cInst[i].asked : a \in Nat \X Caller /\ a[1] <= cInst[i].ids
    BY <2>1 DEF InstanceFine, InstanceType
  <2>8. InstanceFine(i)'
    <3>1. x.pending \subseteq 1 .. n
      BY <2>1, <2>2, <2>6 DEF InstanceFine
    <3>2. Serves(i) => \A a \in x.asked : a[1] <= n
      BY <2>2, <2>6, <2>7
    <3> QED BY <1>1, <2>1, <2>2, <2>5, <3>1, <3>2 DEF InstanceFine, Serves
  <2>9. InstancesFine'
    <3>1. \A j \in C!Instance \ {i} : InstanceFine(j)'
      BY <1>1, <2>5 DEF McpInv, InstancesFine, InstanceFine, Serves
    <3>2. InstancesTyped'
      BY <2>5 DEF InstancesTyped, C!Instance, InstanceType
    <3> QED BY <2>8, <3>1, <3>2 DEF InstancesFine, C!Instance
  <2>10. ASSUME NEW d \in Caller PROVE CallFine(d)'
    <3>1. CASE d = c
      <4>1. Serves(i) => \A a \in x.asked : a[1] = n => a[2] = c
        BY <2>2, <2>6, <2>7
      <4>2. Serves(i)' <=> Serves(i)
        BY <2>2, <2>5 DEF Serves
      <4> QED BY <2>2, <2>3, <2>5, <2>6, <3>1, <4>1, <4>2 DEF CallFine, Serves, C!Instance
    <3>2. CASE d # c
      <4>1. CallFine(d) /\ cCall'[d] = cCall[d] /\ cCall[d].id \in Nat
        BY <2>1, <2>5, <3>2 DEF McpInv, CallsFine, CallOfType
      <4>2. CASE cCall[d].pc = "wait" /\ cCall[d].inst = i
        <5>1. Serves(i) => \A a \in x.asked : a[1] = cCall[d].id => a[2] = d
          BY <2>2, <2>6, <4>1, <4>2 DEF CallFine
        <5>2. Serves(i) => cCall[d].id <= n
          BY <2>6, <4>1, <4>2 DEF CallFine
        <5>3. Serves(i)' <=> Serves(i)
          BY <2>2, <2>5 DEF Serves
        <5> QED BY <2>2, <2>5, <2>6, <4>1, <4>2, <5>1, <5>2, <5>3
                DEF CallFine, Serves, C!Instance
      <4>3. CASE ~(cCall[d].pc = "wait" /\ cCall[d].inst = i)
        BY <2>5, <4>1, <4>3 DEF CallFine, Serves, C!Instance
      <4> QED BY <4>2, <4>3
    <3> QED BY <3>1, <3>2
  <2>11. CallsOfTyped'
    BY <2>5 DEF CallsOfTyped, CallOfType
  <2> QED BY <1>4, <2>9, <2>10, <2>11 DEF McpInv, CallsFine
<1> QED BY <1>2, <1>3, <1>5, <1>6 DEF C!Request, C!NextID

\* An answer of an instance keeps the invariant.
LEMMA AnswerFine ==
    ASSUME McpInv, NEW i \in C!Instance, NEW a \in cInst[i].asked, C!Answer(i, a)
    PROVE  McpInv'
<1>1. /\ Serves(i) /\ cDisk' \in {cDisk, IF cCfg.exists THEN cCfg ELSE cDisk}
      /\ cInst' = [cInst EXCEPT ![i].asked = @ \ {a}, ![i].pending = @ \ {a[1]}]
      /\ UNCHANGED <<cCfg, cCur, cToggle, cLoops>>
  BY DEF C!Answer, Serves
<1>2. /\ cCall' = [c \in Caller |-> cCall'[c]]
      /\ \A c \in Caller :
           \/ cCall'[c] = cCall[c]
           \/ /\ cCall'[c] = C!Returned(a[2])
              /\ cCall[c].pc = "wait" /\ cCall[c].inst = i /\ cCall[c].id = a[1]
  <2>1. PICK waits : waits = {c \in Caller : cCall[c].pc = "wait" /\ cCall[c].inst = i
                                               /\ cCall[c].id = a[1]}
    OBVIOUS
  <2>2. cCall' = [c \in Caller |-> IF c \in waits /\ a[1] \in cInst[i].pending
                                   THEN C!Returned(a[2]) ELSE cCall[c]]
    BY <2>1 DEF C!Answer
  <2> QED BY <2>1, <2>2
<1>3. /\ cInst \in [C!Instance -> InstanceType] /\ cInst[i] \in InstanceType
      /\ cCall \in [Caller -> CallOfType] /\ InstanceFine(i)
  BY DEF McpInv, InstancesFine, InstancesTyped, CallsFine, CallsOfTyped
<1>4. a \in Nat \X Caller
  BY <1>3 DEF InstanceType
<1>5. GatewayTyped'
  BY <1>1 DEF McpInv, GatewayTyped, C!Config
<1> DEFINE x == [cInst[i] EXCEPT !.asked = @ \ {a}, !.pending = @ \ {a[1]}]
<1>6. /\ x \in InstanceType /\ x.ids = cInst[i].ids /\ x.pending \subseteq cInst[i].pending
      /\ x.asked \subseteq cInst[i].asked
      /\ x.open = cInst[i].open /\ x.proc = cInst[i].proc
  BY <1>3 DEF InstanceType
<1>7. cInst' = [cInst EXCEPT ![i] = x]
  BY <1>1
<1> HIDE DEF x
<1>8. /\ cInst' \in [C!Instance -> InstanceType]
      /\ \A j \in C!Instance : /\ cInst'[j].ids = cInst[j].ids
                               /\ cInst'[j].pending \subseteq cInst[j].pending
                               /\ cInst'[j].asked \subseteq cInst[j].asked
                               /\ cInst'[j].open = cInst[j].open /\ cInst'[j].proc = cInst[j].proc
  BY <1>3, <1>6, <1>7
<1>9. InstancesFine'
  <2>1. InstancesTyped'
    BY <1>8 DEF InstancesTyped, C!Instance, InstanceType
  <2>2. ASSUME NEW j \in C!Instance PROVE InstanceFine(j)'
    <3>1. InstanceFine(j)
      BY DEF McpInv, InstancesFine
    <3> QED BY <1>1, <1>8, <3>1 DEF InstanceFine, Serves
  <2> QED BY <2>1, <2>2 DEF InstancesFine, C!Instance
<1>10. /\ C!Returned(a[2]) \in CallOfType /\ C!Returned(a[2]).pc = "done"
       /\ C!Returned(a[2]).got = a[2]
  BY <1>4, PartsAssumption DEF C!Returned, CallOfType, C!McpAssumption
<1>11. CallsOfTyped'
  <2>1. \A c \in Caller : cCall'[c] \in CallOfType
    BY <1>2, <1>3, <1>10
  <2>2. cCall' \in [Caller -> CallOfType]
    BY <1>2, <2>1
  <2> QED BY <2>2 DEF CallsOfTyped, CallOfType
<1>12. ASSUME NEW c \in Caller PROVE CallFine(c)'
  <2>1. CallFine(c)
    BY DEF McpInv, CallsFine
  <2>2. CASE cCall'[c] = C!Returned(a[2]) /\ cCall[c].pc = "wait" /\ cCall[c].inst = i
             /\ cCall[c].id = a[1]
    <3>1. a[2] = c
      BY <1>1, <2>1, <2>2 DEF CallFine
    <3> QED BY <1>10, <2>2, <3>1 DEF CallFine
  <2>3. CASE cCall'[c] = cCall[c]
    <3>1. CASE cCall[c].pc = "wait"
      <4>1. PICK j \in C!Instance : j = cCall[c].inst
        BY <2>1, <3>1 DEF CallFine
      <4> QED BY <1>8, <2>1, <2>3, <3>1, <4>1 DEF CallFine, Serves, C!Instance
    <3> QED BY <2>1, <2>3, <3>1 DEF CallFine, C!Instance
  <2> QED BY <1>2, <2>2, <2>3
<1> QED BY <1>5, <1>9, <1>11, <1>12 DEF McpInv, CallsFine

\* The choice of an instance keeps the invariant.
LEMMA ChooseFine ==
    ASSUME McpInv, NEW c \in Caller, C!Choose(c)
    PROVE  McpInv'
<1> DEFINE y == [cCall[c] EXCEPT !.pc = "chosen", !.inst = cCur]
<1>1. /\ cCall' = [cCall EXCEPT ![c] = y] /\ cCur # 0
      /\ UNCHANGED <<cCfg, cDisk, cCur, cInst, cToggle, cLoops>>
  BY DEF C!Choose, C!IsRunning
<1>2. /\ cCall \in [Caller -> CallOfType] /\ cCur \in C!Instance /\ cCur \in 0 .. MaxStarts
  BY <1>1, PartsAssumption
  DEF McpInv, GatewayTyped, CallsFine, CallsOfTyped, C!Instance, C!McpAssumption
<1>3. y \in CallOfType /\ y.pc = "chosen" /\ y.inst = cCur /\ y.got = cCall[c].got
  <2>1. cCall[c] \in CallOfType
    BY <1>2
  <2> QED BY <1>2, <2>1 DEF CallOfType
<1> HIDE DEF y
<1>4. GatewayTyped' /\ InstancesFine'
  BY <1>1
  DEF McpInv, GatewayTyped, C!Config, InstancesFine, InstancesTyped, InstanceType,
      InstanceFine, Serves, C!Instance
<1>5. CallsOfTyped'
  BY <1>1, <1>2, <1>3 DEF CallsOfTyped, CallOfType
<1>6. \A d \in Caller : CallFine(d)'
  BY <1>1, <1>2, <1>3 DEF McpInv, CallsFine, CallFine, Serves, C!Instance
<1> QED BY <1>4, <1>5, <1>6 DEF McpInv, CallsFine

\* A call that gives up keeps the invariant.
LEMMA GiveUpFine ==
    ASSUME McpInv, NEW c \in Caller, C!GiveUp(c)
    PROVE  McpInv'
<1>1. /\ cCall[c].pc = "wait" /\ cCall' = [cCall EXCEPT ![c] = C!Returned("error")]
      /\ UNCHANGED <<cCfg, cDisk, cCur, cToggle, cLoops>>
  BY DEF C!GiveUp, C!Return
<1>2. PICK i \in C!Instance : i = cCall[c].inst
  BY <1>1 DEF McpInv, CallsFine, CallFine
<1>3. /\ cInst \in [C!Instance -> InstanceType] /\ cInst[i] \in InstanceType
      /\ cCall \in [Caller -> CallOfType]
  BY DEF McpInv, InstancesFine, InstancesTyped, CallsFine, CallsOfTyped
<1> DEFINE x == [cInst[i] EXCEPT !.pending = @ \ {cCall[c].id}]
<1>4. /\ x \in InstanceType /\ x.ids = cInst[i].ids /\ x.pending \subseteq cInst[i].pending
      /\ x.asked = cInst[i].asked /\ x.open = cInst[i].open /\ x.proc = cInst[i].proc
  BY <1>3 DEF InstanceType
<1>5. cInst' = [cInst EXCEPT ![i] = x] \/ cInst' = cInst
  BY <1>2 DEF C!GiveUp
<1> HIDE DEF x
<1>6. /\ cInst' \in [C!Instance -> InstanceType]
      /\ \A j \in C!Instance : /\ cInst'[j].ids = cInst[j].ids
                               /\ cInst'[j].pending \subseteq cInst[j].pending
                               /\ cInst'[j].asked = cInst[j].asked
                               /\ cInst'[j].open = cInst[j].open /\ cInst'[j].proc = cInst[j].proc
  BY <1>3, <1>4, <1>5
<1>7. GatewayTyped'
  BY <1>1 DEF McpInv, GatewayTyped, C!Config
<1>8. InstancesFine'
  <2>1. InstancesTyped'
    BY <1>6 DEF InstancesTyped, C!Instance, InstanceType
  <2>2. ASSUME NEW j \in C!Instance PROVE InstanceFine(j)'
    <3>1. InstanceFine(j)
      BY DEF McpInv, InstancesFine
    <3> QED BY <1>1, <1>6, <3>1 DEF InstanceFine, Serves
  <2> QED BY <2>1, <2>2 DEF InstancesFine, C!Instance
<1>9. /\ C!Returned("error") \in CallOfType /\ C!Returned("error").pc = "done"
      /\ C!Returned("error").got = "error"
  BY PartsAssumption DEF C!Returned, CallOfType, C!McpAssumption
<1>10. CallsOfTyped'
  BY <1>1, <1>3, <1>9 DEF CallsOfTyped, CallOfType
<1>11. ASSUME NEW d \in Caller PROVE CallFine(d)'
  <2>1. CallFine(d) /\ (d = c => cCall'[d] = C!Returned("error"))
        /\ (d # c => cCall'[d] = cCall[d])
    BY <1>1, <1>3 DEF McpInv, CallsFine
  <2>2. CASE d # c /\ cCall[d].pc = "wait"
    <3>1. PICK j \in C!Instance : j = cCall[d].inst
      BY <2>1, <2>2 DEF CallFine
    <3> QED BY <1>6, <2>1, <2>2, <3>1 DEF CallFine, Serves, C!Instance
  <2> QED BY <1>9, <2>1, <2>2 DEF CallFine, C!Instance
<1> QED BY <1>7, <1>8, <1>10, <1>11 DEF McpInv, CallsFine

\* A restart of the gateway keeps the invariant.
LEMMA RestartFine == ASSUME McpInv, C!Restart PROVE McpInv'
<1>1. /\ cCfg' = cDisk /\ cLoops' = "off" /\ cCur' = 0 /\ cDisk' = cDisk
      /\ cInst' = [i \in C!Instance |-> IF cInst[i] = C!Unused THEN C!Unused
                    ELSE [C!Silent(cInst[i]) EXCEPT !.open = FALSE, !.proc = "dead"]]
      /\ cCall' = [c \in Caller |-> C!Waiting]
      /\ cToggle' = [t \in Toggle |-> IF cToggle[t].pc = "save"
                                 THEN [cToggle[t] EXCEPT !.pc = "done"] ELSE cToggle[t]]
  BY DEF C!Restart
<1>2. GatewayTyped'
  <2>1. cToggle' \in [Toggle -> [pc : {"idle", "save", "done"}, on : BOOLEAN]]
    BY <1>1 DEF McpInv, GatewayTyped
  <2>2. 0 \in 0 .. MaxStarts
    BY PartsAssumption DEF C!McpAssumption
  <2>3. cDisk \in C!Config
    BY DEF McpInv, GatewayTyped
  <2> QED BY <1>1, <2>1, <2>2, <2>3 DEF GatewayTyped, C!Config
<1>3. ASSUME NEW i \in C!Instance
      PROVE  /\ cInst'[i] \in InstanceType /\ cInst'[i].pending = {} /\ ~cInst'[i].open
             /\ cInst'[i].asked = {}
  <2>1. cInst[i] \in InstanceType
    BY DEF McpInv, InstancesFine, InstancesTyped
  <2> DEFINE x == [C!Silent(cInst[i]) EXCEPT !.open = FALSE, !.proc = "dead"]
  <2>2. /\ x \in InstanceType /\ x.pending = {} /\ ~x.open /\ x.asked = {}
    BY <2>1 DEF C!Silent, InstanceType
  <2>3. /\ C!Unused \in InstanceType /\ C!Unused.pending = {} /\ ~C!Unused.open
        /\ C!Unused.asked = {}
    BY DEF C!Unused, InstanceType
  <2>4. cInst'[i] = C!Unused \/ cInst'[i] = x
    BY <1>1
  <2> HIDE DEF x
  <2> QED BY <2>2, <2>3, <2>4
<1>4. InstancesFine'
  <2>1. cInst' \in [C!Instance -> InstanceType]
    <3>1. cInst' = [i \in C!Instance |-> cInst'[i]]
      BY <1>1
    <3> QED BY <1>3, <3>1
  <2>2. InstancesTyped'
    BY <2>1 DEF InstancesTyped, C!Instance, InstanceType
  <2>3. \A i \in C!Instance : InstanceFine(i)'
    BY <1>3 DEF InstanceFine, Serves
  <2> QED BY <2>2, <2>3 DEF InstancesFine, C!Instance
<1>5. CallsFine'
  <2>1. /\ C!Waiting \in CallOfType /\ C!Waiting.pc = "idle" /\ C!Waiting.got = "none"
    BY PartsAssumption DEF CallOfType, C!Waiting, C!McpAssumption
  <2>2. \A c \in Caller : cCall'[c] = C!Waiting
    BY <1>1
  <2>3. CallsOfTyped'
    BY <1>1, <2>1 DEF CallsOfTyped, CallOfType
  <2> QED BY <2>1, <2>2, <2>3 DEF CallsFine, CallFine
<1> QED BY <1>2, <1>4, <1>5 DEF McpInv

\* Every step of the gateway keeps its invariant.
LEMMA McpInvStays == McpInv /\ [C!Next]_(C!vars) => McpInv'
<1> SUFFICES ASSUME McpInv, [C!Next]_(C!vars) PROVE McpInv'
  OBVIOUS
<1>0. GatewayTyped /\ InstancesFine /\ CallsFine
  BY DEF McpInv
<1>1. ASSUME GatewayTyped', InstancesMove, UNCHANGED cCall PROVE McpInv'
  BY <1>0, <1>1, InstancesMoved DEF McpInv
<1>2. CASE C!Run
  <2>1. /\ (C!StartInstance /\ cCfg.exists) \/ UNCHANGED <<cCur, cInst>>
        /\ UNCHANGED <<cCfg, cDisk, cCall, cToggle>> /\ cLoops' = "on"
    BY <1>2 DEF C!Run
  <2>2. InstancesMove /\ cCur' \in 0 .. MaxStarts
    <3>1. CASE UNCHANGED <<cCur, cInst>>
      BY <1>0, <2>1, <3>1
      DEF InstancesMove, InstancesFine, InstancesTyped, InstanceFine, GatewayTyped
    <3>2. CASE C!StartInstance /\ cCfg.exists
      BY <1>0, <2>1, <3>2, StartMoves
    <3> QED BY <2>1, <3>1, <3>2
  <2>3. GatewayTyped'
    BY <1>0, <2>1, <2>2 DEF GatewayTyped, C!Config
  <2> QED BY <1>1, <2>1, <2>2, <2>3
<1>3. CASE C!Watchdog
  <2>1. C!StartInstance /\ cCfg.exists /\ UNCHANGED <<cCfg, cDisk, cCall, cToggle, cLoops>>
    BY <1>3 DEF C!Watchdog
  <2>2. InstancesMove /\ cCur' \in 0 .. MaxStarts
    BY <1>0, <2>1, StartMoves
  <2>3. GatewayTyped'
    BY <1>0, <2>1, <2>2 DEF GatewayTyped, C!Config
  <2> QED BY <1>1, <2>1, <2>2, <2>3
<1>4. CASE C!StopAll
  <2>1. C!StopInstance /\ cLoops' = "over" /\ UNCHANGED <<cCfg, cDisk, cCall, cToggle>>
    BY <1>4 DEF C!StopAll
  <2>2. InstancesMove /\ cCur' \in 0 .. MaxStarts
    BY <1>0, <2>1, StopMoves
  <2>3. GatewayTyped'
    BY <1>0, <2>1, <2>2 DEF GatewayTyped, C!Config
  <2> QED BY <1>1, <2>1, <2>2, <2>3
<1>5. CASE C!DeleteServer
  <2>1. /\ C!StopInstance /\ UNCHANGED <<cCall, cToggle, cLoops>>
        /\ cCfg' = C!NoConfig /\ cDisk' = C!NoConfig
    BY <1>5 DEF C!DeleteServer
  <2>2. InstancesMove /\ cCur' \in 0 .. MaxStarts
    BY <1>0, <2>1, StopMoves
  <2>3. GatewayTyped'
    BY <1>0, <2>1, <2>2 DEF GatewayTyped, C!Config, C!NoConfig
  <2> QED BY <1>1, <2>1, <2>2, <2>3
<1>6. ASSUME NEW b \in BOOLEAN, C!SaveConfig(b) PROVE McpInv'
  <2>1. C!Save(b) /\ UNCHANGED <<cCall, cToggle, cLoops>>
    BY <1>6 DEF C!SaveConfig
  <2>2. /\ InstancesMove /\ cCur' \in 0 .. MaxStarts
        /\ cCfg' \in C!Config /\ cDisk' \in C!Config
    BY <1>0, <2>1, SaveMoves
  <2>3. GatewayTyped'
    BY <1>0, <2>1, <2>2 DEF GatewayTyped, C!Config
  <2> QED BY <1>1, <2>1, <2>2, <2>3
<1>7. ASSUME NEW t \in Toggle, C!ToggleSaves(t) PROVE McpInv'
  <2>1. PICK b \in {cToggle[t].on} \cup {o \in {cCfg.on} : cCfg.exists} : C!Save(b)
    BY <1>7 DEF C!ToggleSaves
  <2>2. b \in BOOLEAN
    BY <1>0, <2>1 DEF GatewayTyped, C!Config
  <2>3. /\ InstancesMove /\ cCur' \in 0 .. MaxStarts
        /\ cCfg' \in C!Config /\ cDisk' \in C!Config
    BY <1>0, <2>1, <2>2, SaveMoves
  <2>4. UNCHANGED <<cCall, cLoops>> /\ cToggle' = [cToggle EXCEPT ![t].pc = "done"]
    BY <1>7 DEF C!ToggleSaves
  <2>5. GatewayTyped'
    BY <1>0, <2>3, <2>4 DEF GatewayTyped, C!Config
  <2> QED BY <1>1, <2>3, <2>4, <2>5
<1>8. ASSUME NEW t \in Toggle, NEW b \in BOOLEAN, C!ToggleServer(t, b) PROVE McpInv'
  <2>1. /\ cCfg.exists /\ cCfg' = [cCfg EXCEPT !.on = b]
        /\ cToggle' = [cToggle EXCEPT ![t] = [pc |-> "save", on |-> b]]
        /\ UNCHANGED <<cDisk, cCur, cInst, cCall, cLoops>>
    BY <1>8 DEF C!ToggleServer
  <2>2. cCfg' \in C!Config /\ cCfg'.exists
    BY <1>0, <2>1 DEF GatewayTyped, C!Config
  <2>3. GatewayTyped'
    BY <1>0, <2>1, <2>2 DEF GatewayTyped, C!Config
  <2>4. InstancesMove
    BY <1>0, <2>1, <2>2 DEF InstancesMove, InstancesFine, InstancesTyped, InstanceFine
  <2> QED BY <1>1, <2>1, <2>3, <2>4
<1>9. ASSUME NEW i \in C!Instance, C!Exits(i) \/ C!HandshakeFails(i) PROVE McpInv'
  <2>0. cInst[i] \in InstanceType /\ cInst \in [C!Instance -> InstanceType]
        /\ \A j \in C!Instance : InstanceFine(j)
    BY <1>0 DEF InstancesFine, InstancesTyped
  <2>1. UNCHANGED <<cCfg, cDisk, cCur, cCall, cToggle, cLoops>> /\ cInst[i].proc = "alive"
    BY <1>9 DEF C!Exits, C!HandshakeFails
  <2>2. GatewayTyped'
    BY <1>0, <2>1 DEF GatewayTyped, C!Config
  <2>3. PICK x \in InstanceType :
          /\ cInst' = [cInst EXCEPT ![i] = x] /\ x.pending = {}
          /\ ~(x.proc = "alive" /\ x.open) /\ (x.open => cInst[i].open) /\ x.proc # "none"
    <3> DEFINE x == [C!Silent(cInst[i]) EXCEPT !.proc = "dead"]
               y == [C!Silent(cInst[i]) EXCEPT !.open = FALSE]
    <3>1. /\ x \in InstanceType /\ x.pending = {} /\ x.proc = "dead" /\ x.open = cInst[i].open
          /\ y \in InstanceType /\ y.pending = {} /\ y.proc = "alive" /\ y.open = FALSE
      BY <2>0, <2>1 DEF InstanceType, C!Silent
    <3>2. cInst' = [cInst EXCEPT ![i] = x] \/ cInst' = [cInst EXCEPT ![i] = y]
      BY <1>9, PartsAssumption DEF C!Exits, C!HandshakeFails, C!Stopped, C!Instance, C!McpAssumption
    <3> HIDE DEF x, y
    <3> QED BY <3>1, <3>2
  <2>4. Shut(i) /\ \A j \in C!Instance \ {i} : cInst'[j] = cInst[j]
    BY <2>0, <2>3 DEF Shut, Serves
  <2>5. InstancesMove
    <3>1. cInst' = [j \in C!Instance |-> cInst'[j]]
      BY <2>0, <2>3
    <3> QED BY <2>0, <2>1, <2>4, <3>1 DEF InstancesMove, InstanceFine, Shut
  <2> QED BY <1>1, <2>1, <2>2, <2>5
<1>10. CASE UNCHANGED C!vars
  <2>1. GatewayTyped' /\ UNCHANGED cCall
    BY <1>0, <1>10 DEF C!vars, GatewayTyped, C!Config
  <2>2. InstancesMove
    BY <1>0, <1>10 DEF C!vars, InstancesMove, InstancesFine, InstancesTyped, InstanceFine
  <2> QED BY <1>1, <2>1, <2>2
<1> QED
  BY <1>2, <1>3, <1>4, <1>5, <1>6, <1>7, <1>8, <1>9, <1>10, RequestFine, AnswerFine,
     ChooseFine, GiveUpFine, RestartFine DEF C!Next

\* The invariant gives the types and the two properties of the gateway.
LEMMA McpHolds == McpInv => C!TypeOK /\ C!OneProcess /\ C!AnswerIsOwn
<1> SUFFICES ASSUME McpInv PROVE C!TypeOK /\ C!OneProcess /\ C!AnswerIsOwn
  OBVIOUS
<1>1. C!TypeOK
  BY DEF McpInv, GatewayTyped, InstancesFine, InstancesTyped, InstanceType, InstanceFine,
         CallsFine, CallsOfTyped, CallOfType, C!TypeOK
<1>2. C!OneProcess
  BY DEF McpInv, InstancesFine, InstanceFine, C!OneProcess
<1>3. C!AnswerIsOwn
  BY DEF McpInv, CallsFine, CallFine, C!AnswerIsOwn
<1> QED BY <1>1, <1>2, <1>3

-----------------------------------------------------------------------------
(* Worker *)

\* What a run has left behind so far.
RunFine(t) ==
    /\ wRun[t] = "idle" => /\ wAlive[t] = {} /\ wForked[t] = {} /\ t \notin wReaped
                           /\ wWatcher[t] = "none"
    /\ wRun[t] # "idle" => "shell" \in wForked[t]
    /\ wRun[t] \in {"cleanup", "returned"} => t \in wReaped
    /\ t \in wReaped => "shell" \notin wAlive[t]
    /\ t \in wSandboxed /\ "shell" \notin wAlive[t] => wAlive[t] = {}
    /\ t \in wSandboxed /\ wWatcher[t] = "killed" => wAlive[t] = {}
    /\ wRun[t] = "returned" /\ t \in wCgroup => wLimiter[t] = "assign"

WorkerInv == W!TypeOK /\ \A t \in Command : RunFine(t)

\* The worker begins in its invariant.
LEMMA WorkerStarts == W!Init => WorkerInv
BY DEF W!Init, WorkerInv, W!TypeOK, RunFine

\* A step of one run.
RunSteps(t) ==
    /\ wRun' \in [Command -> {"idle", "waiting", "cleanup", "returned"}]
    /\ wAlive' \in [Command -> SUBSET W!Proc] /\ wForked' \in [Command -> SUBSET W!Proc]
    /\ wReaped' \subseteq Command /\ wEnded' \subseteq Command /\ wCgroup' \subseteq Command
    /\ wWatcher' \in [Command -> {"none", "select", "killed", "stopped"}]
    /\ wLimiter' \in [Command -> {"none", "rlimits", "mkdir", "assign", "done"}]
    /\ wLimits' \in [Command -> {W!Unlimited} \cup {W!Rlimits(l) : l \in Given}]
    /\ wSandboxed' = wSandboxed
    /\ \A u \in Command \ {t} :
         /\ wRun'[u] = wRun[u] /\ wAlive'[u] = wAlive[u] /\ wForked'[u] = wForked[u]
         /\ wWatcher'[u] = wWatcher[u] /\ wLimiter'[u] = wLimiter[u]
         /\ (u \in wReaped' <=> u \in wReaped) /\ (u \in wCgroup' <=> u \in wCgroup)
    /\ RunFine(t)'

\* Every step of one run keeps the invariant.
LEMMA RunStepsHold ==
    ASSUME WorkerInv, NEW t \in Command, RunSteps(t)
    PROVE  WorkerInv'
<1>1. W!TypeOK'
  BY DEF WorkerInv, W!TypeOK, RunSteps, W!Proc, W!Unlimited, W!Rlimits, W!Filled
<1>2. \A u \in Command \ {t} : RunFine(u)'
  BY DEF WorkerInv, RunSteps, RunFine
<1> QED BY <1>1, <1>2 DEF WorkerInv, RunSteps

\* Every step of the worker keeps its invariant.
LEMMA WorkerInvStays == WorkerInv /\ [W!Next]_(W!vars) => WorkerInv'
<1> SUFFICES ASSUME WorkerInv, [W!Next]_(W!vars) PROVE WorkerInv'
  OBVIOUS
<1>0. W!TypeOK /\ \A t \in Command : RunFine(t)
  BY DEF WorkerInv
<1>1. ASSUME NEW t \in Command,
             \/ W!Start(t) \/ W!ContextEnds(t) \/ W!Kill(t) \/ W!WatcherStops(t)
             \/ W!SetRlimits(t) \/ W!MakeCgroup(t) \/ W!Assign(t) \/ W!Reap(t)
             \/ W!WaitReturns(t) \/ W!Return(t)
             \/ \E p \in W!Proc : W!Fork(t, p) \/ W!Exit(t, p)
      PROVE  RunSteps(t)
  <2>0. RunFine(t)
    BY <1>0
  <2> USE <1>0, <2>0 DEF W!TypeOK, RunSteps, RunFine
  <2>1. CASE W!Start(t)
    BY <2>1 DEF W!Start, W!Proc
  <2>2. CASE W!ContextEnds(t)
    BY <2>2 DEF W!ContextEnds
  <2>3. CASE W!Kill(t)
    BY <2>3 DEF W!Kill, W!Survivors, W!Group
  <2>4. CASE W!WatcherStops(t)
    BY <2>4 DEF W!WatcherStops
  <2>5. CASE W!SetRlimits(t)
    BY <2>5 DEF W!SetRlimits
  <2>6. CASE W!MakeCgroup(t)
    BY <2>6 DEF W!MakeCgroup
  <2>7. CASE W!Assign(t)
    BY <2>7 DEF W!Assign
  <2>8. CASE W!Reap(t)
    BY <2>8 DEF W!Reap
  <2>9. CASE W!WaitReturns(t)
    BY <2>9 DEF W!WaitReturns
  <2>10. CASE W!Return(t)
    BY <2>10 DEF W!Return
  <2>11. ASSUME NEW p \in W!Proc, W!Fork(t, p) PROVE RunSteps(t)
    BY <2>11 DEF W!Fork
  <2>12. ASSUME NEW p \in W!Proc, W!Exit(t, p) PROVE RunSteps(t)
    BY <2>12 DEF W!Exit, W!Survivors
  <2> QED BY <1>1, <2>1, <2>2, <2>3, <2>4, <2>5, <2>6, <2>7, <2>8, <2>9, <2>10, <2>11, <2>12
<1>2. CASE UNCHANGED W!vars
  BY <1>0, <1>2 DEF W!vars, WorkerInv, W!TypeOK, RunFine, W!Unlimited, W!Rlimits, W!Filled, W!Proc
<1> QED BY <1>1, <1>2, RunStepsHold DEF W!Next

\* The invariant gives the two properties of the sandbox.
LEMMA WorkerHolds == WorkerInv => W!NothingOutlivesSandbox /\ W!CgroupsAreRemoved
BY DEF WorkerInv, RunFine, W!TypeOK, W!NothingOutlivesSandbox, W!CgroupsAreRemoved

-----------------------------------------------------------------------------
(* Lending *)

\* A lender without a session, that did not end one, has told no handshake that it has one.
LenderFine ==
    /\ lSession = NoNode /\ ~lGone => ~lBorrowed /\ \A a \in Attempt : lPeer[a].pc # "ok"
    /\ \A a \in Attempt : lPeer[a].pc = "accept" => lPeer[a].tok \in Token
LendingInv == L!TypeOK /\ LenderFine

HandshakeType ==
    [pc : {"idle", "challenge", "verify", "accept", "ok", "reset", "over"},
     tok : Token \cup {NoNode}]

\* Lending begins in its invariant.
LEMMA LendingStarts == L!Init => LendingInv
<1> SUFFICES ASSUME L!Init PROVE LendingInv
  OBVIOUS
<1>1. L!TypeOK
  BY DEF L!Init, L!TypeOK
<1>2. LenderFine
  BY DEF L!Init, LenderFine
<1> QED BY <1>1, <1>2 DEF LendingInv

\* Every step of lending keeps its invariant.
LEMMA LendingInvStays == LendingInv /\ [L!Next]_(L!vars) => LendingInv'
<1> SUFFICES ASSUME LendingInv, [L!Next]_(L!vars) PROVE LendingInv'
  OBVIOUS
<1>0. /\ lToken \in [Token -> {"none", "lent", "expired"}] /\ lSession \in Token \cup {NoNode}
      /\ lOwn \in [Attempt -> {"idle", "asked", "responded", "done"}]
      /\ lPeer \in [Attempt -> HandshakeType]
      /\ lBorrowed \in BOOLEAN /\ lGone \in BOOLEAN
      /\ lAsks \in [Task -> {"idle", "sent", "done", "failed"}]
      /\ lServes \in [Task -> {"idle", "check", "refuse", "run", "error", "output", "over"}]
      /\ LenderFine /\ NoNode \notin Token
  BY PartsAssumption DEF LendingInv, L!TypeOK, HandshakeType, L!LendingAssumption
<1>1. ASSUME lToken' \in [Token -> {"none", "lent", "expired"}],
             lSession' \in Token \cup {NoNode},
             lOwn' \in [Attempt -> {"idle", "asked", "responded", "done"}],
             lPeer' \in [Attempt -> HandshakeType],
             lBorrowed' \in BOOLEAN, lGone' \in BOOLEAN,
             lAsks' \in [Task -> {"idle", "sent", "done", "failed"}],
             lServes' \in [Task -> {"idle", "check", "refuse", "run", "error", "output", "over"}],
             LenderFine'
      PROVE  LendingInv'
  BY <1>1 DEF LendingInv, L!TypeOK, HandshakeType
<1>2. ASSUME UNCHANGED <<lToken, lSession, lOwn, lPeer, lBorrowed, lGone>>,
             lAsks' \in [Task -> {"idle", "sent", "done", "failed"}],
             lServes' \in [Task -> {"idle", "check", "refuse", "run", "error", "output", "over"}]
      PROVE  LendingInv'
  BY <1>0, <1>1, <1>2 DEF LenderFine
<1>3. ASSUME NEW t \in Token, L!GenerateToken(t) \/ L!Expires(t) PROVE LendingInv'
  BY <1>0, <1>1, <1>3 DEF L!GenerateToken, L!Expires, L!tasks, LenderFine
<1>4. ASSUME NEW a \in Attempt,
             \/ L!Connect(a) \/ L!Respond(a) \/ L!Verify(a) \/ L!Accept(a) \/ L!Confirmed(a)
             \/ L!GivesUp(a) \/ L!LenderGivesUp(a) \/ L!Rejected(a)
      PROVE  LendingInv'
  <2>0. lPeer[a] \in HandshakeType
    BY <1>0
  <2> USE <1>0, <2>0 DEF L!PeerGoes, L!tasks, LenderFine, HandshakeType
  <2>1. CASE L!Connect(a)
    BY <1>1, <2>1 DEF L!Connect
  <2>2. CASE L!Respond(a)
    BY <1>1, <2>2 DEF L!Respond
  <2>3. CASE L!Verify(a)
    <3>1. /\ lPeer[a].pc = "verify"
          /\ UNCHANGED <<lToken, lSession, lOwn, lBorrowed, lGone, lAsks, lServes>>
      BY <2>3 DEF L!Verify
    <3>2. PICK h \in HandshakeType :
            /\ lPeer' = [lPeer EXCEPT ![a] = h] /\ h.pc \in {"accept", "reset"}
            /\ h.pc = "accept" => h.tok \in Token
      <4>1. CASE L!PeerGoes(a, "reset")
        <5> DEFINE h == [lPeer[a] EXCEPT !.pc = "reset"]
        <5>1. h \in HandshakeType /\ h.pc = "reset" /\ lPeer' = [lPeer EXCEPT ![a] = h]
          BY <4>1
        <5> HIDE DEF h
        <5> QED BY <5>1
      <4>2. ASSUME NEW t \in Token, lPeer' = [lPeer EXCEPT ![a] = [pc |-> "accept", tok |-> t]]
            PROVE  \E h \in HandshakeType :
                      /\ lPeer' = [lPeer EXCEPT ![a] = h] /\ h.pc \in {"accept", "reset"}
                      /\ h.pc = "accept" => h.tok \in Token
        <5>1. PICK h : h = [pc |-> "accept", tok |-> t]
          OBVIOUS
        <5>2. h \in HandshakeType /\ h.pc = "accept" /\ h.tok \in Token
          BY <5>1
        <5>3. lPeer' = [lPeer EXCEPT ![a] = h]
          BY <4>2, <5>1
        <5> QED BY <5>2, <5>3
      <4> QED BY <2>3, <4>1, <4>2 DEF L!Verify
    <3>3. /\ lPeer' \in [Attempt -> HandshakeType]
          /\ \A b \in Attempt \ {a} : lPeer'[b] = lPeer[b]
          /\ lPeer'[a].pc \in {"accept", "reset"}
          /\ lPeer'[a].pc = "accept" => lPeer'[a].tok \in Token
      BY <3>2
    <3>4. LenderFine'
      BY <3>1, <3>3
    <3> QED BY <1>1, <3>1, <3>3, <3>4
  <2>4. CASE L!Accept(a)
    BY <1>1, <2>4 DEF L!Accept
  <2>5. CASE L!Confirmed(a)
    BY <1>1, <2>5 DEF L!Confirmed
  <2>6. CASE L!GivesUp(a) \/ L!Rejected(a)
    BY <1>1, <2>6 DEF L!GivesUp, L!Rejected
  <2>7. CASE L!LenderGivesUp(a)
    BY <1>1, <2>7 DEF L!LenderGivesUp
  <2> QED BY <1>4, <2>1, <2>2, <2>3, <2>4, <2>5, <2>6, <2>7
<1>5. CASE L!Revoke
  BY <1>0, <1>1, <1>5 DEF L!Revoke, LenderFine
<1>6. CASE L!RemoveBorrowedPeer
  BY <1>0, <1>1, <1>6 DEF L!RemoveBorrowedPeer, LenderFine
<1>7. CASE L!LenderRestarts
  <2>1. lPeer' \in [Attempt -> HandshakeType] /\ \A a \in Attempt : lPeer'[a].pc \in {"idle", "over"}
    BY <1>0, <1>7 DEF L!LenderRestarts, HandshakeType
  <2> QED BY <1>0, <1>1, <1>7, <2>1 DEF L!LenderRestarts, LenderFine
<1>8. ASSUME NEW k \in Task, L!Ask(k) \/ L!Authorize(k) \/ L!Executed(k) \/ L!Answered(k) \/ L!Breaks(k)
      PROVE  LendingInv'
  <2> USE <1>0, <1>2 DEF L!handshakes
  <2>1. CASE L!Ask(k)
    BY <2>1 DEF L!Ask
  <2>2. CASE L!Authorize(k)
    BY <2>2 DEF L!Authorize
  <2>3. CASE L!Executed(k)
    BY <2>3 DEF L!Executed
  <2>4. CASE L!Answered(k)
    BY <2>4 DEF L!Answered
  <2>5. CASE L!Breaks(k)
    BY <2>5 DEF L!Breaks
  <2> QED BY <1>8, <2>1, <2>2, <2>3, <2>4, <2>5
<1>9. CASE UNCHANGED L!vars
  BY <1>0, <1>2, <1>9 DEF L!vars
<1> QED BY <1>3, <1>4, <1>5, <1>6, <1>7, <1>8, <1>9 DEF L!Next

\* The invariant gives the types and that a borrowed node serves.
LEMMA LendingHolds == LendingInv => L!BorrowedIsServed
BY DEF LendingInv, LenderFine, L!TypeOK, L!BorrowedIsServed
-----------------------------------------------------------------------------
(* BrowserPin *)

SubmissionType ==
    [pc : {"idle", "refused", "hash", "valid", "wrong", "entered", "done"},
     knows : 0 .. MaxPins, read : 0 .. MaxPins]
PinInv ==
    /\ bPin \in 0 .. MaxPins /\ bPins \in 0 .. MaxPins /\ bPin <= bPins
    /\ bSessions \subseteq Guess \X (1 .. MaxPins)
    /\ bTries \in Nat /\ bDecays \in Nat /\ bTries <= bDecays
    /\ bSub \in [Guess -> SubmissionType]
    /\ \A s \in Guess : bSub[s].pc = "valid" => bSub[s].read # 0

\* The lock of the browser begins in its invariant.
LEMMA PinStarts == B!Init => PinInv
BY PartsAssumption DEF B!PinAssumption, B!Init, PinInv, SubmissionType

\* Every step of the lock keeps its invariant.
LEMMA PinInvStays == PinInv /\ [B!Next]_(B!vars) => PinInv'
<1> SUFFICES ASSUME PinInv, [B!Next]_(B!vars) PROVE PinInv'
  OBVIOUS
<1>0. MaxPins \in Nat
  BY PartsAssumption DEF B!PinAssumption
<1>1. CASE B!GeneratePIN \/ B!RevokePIN \/ B!SessionExpires
  BY <1>0, <1>1 DEF B!GeneratePIN, B!RevokePIN, B!SessionExpires, PinInv
<1>2. CASE B!TakeBack
  BY <1>2 DEF B!TakeBack, PinInv
<1>3. ASSUME NEW s \in Guess, NEW n \in 0 .. MaxPins, B!Arrive(s, n) PROVE PinInv'
  BY <1>0, <1>3 DEF B!Arrive, B!Goes, PinInv, SubmissionType
<1>4. ASSUME NEW s \in Guess, B!ReadHash(s) PROVE PinInv'
  BY <1>0, <1>4 DEF B!ReadHash, PinInv, SubmissionType
<1>5. ASSUME NEW s \in Guess, B!Enter(s) PROVE PinInv'
  <2>1. bSub[s].read \in 1 .. MaxPins
    BY <1>0, <1>5 DEF B!Enter, PinInv, SubmissionType
  <2> QED BY <1>5, <2>1 DEF B!Enter, B!Goes, PinInv, SubmissionType
<1>6. ASSUME NEW s \in Guess, B!Forget(s) \/ B!Wrong(s) PROVE PinInv'
  BY <1>6 DEF B!Forget, B!Wrong, B!Goes, PinInv, SubmissionType
<1>7. CASE UNCHANGED B!vars
  BY <1>7 DEF B!vars, PinInv
<1> QED BY <1>1, <1>2, <1>3, <1>4, <1>5, <1>6, <1>7 DEF B!Next

\* The invariant gives the types and that a refusal passes.
LEMMA PinHolds == PinInv => B!TypeOK /\ B!RefusalPasses
BY DEF PinInv, SubmissionType, B!TypeOK, B!RefusalPasses

-----------------------------------------------------------------------------
(* Pipeline *)

StepType == [pc : P!PC, failed : BOOLEAN]
ServerType == [pc : {"off", "listen", "speak", "closed", "broken"}, said : 0 .. Chunks]
Event == P!Step \X P!Status
Told == \E j \in DOMAIN P!Events : P!Events[j] = <<2, "completed">>
StepsTyped == pStep \in [P!Step -> StepType]
ServersTyped == pServer \in [{1, 2} -> ServerType]
ChannelTyped == pChannel \in Seq(Event) /\ Len(pChannel) <= Capacity /\ pShown \in Seq(Event)
CountsTyped ==
    /\ pAudio \in {"none", "copy", "whole", "cut"} /\ pRun \in {"resolve", "wait", "over"}
    /\ pHeard = pServer[1].said /\ pTokens = pServer[2].said /\ pPrompt \in {0, Chunks}

\* The prompt is read when the model has said everything; the event that completes it comes
\* before its step returns; and the third step begins after that.
StepsInOrder ==
    /\ pRun = "resolve" => /\ pPrompt = 0 /\ \A s \in P!Step : pStep[s].pc = "off"
    /\ pServer[2].pc = "closed" => pServer[2].said = Chunks
    /\ pPrompt # 0 => pStep[2].pc \in {"complete", "over"}
    /\ pPrompt # 0 /\ pStep[2].pc = "over" => Told
    /\ pStep[3].pc \in {"event", "image", "complete"} => pPrompt # 0 /\ Told
    /\ pStep[3].pc \notin {"dial", "read"}
PipelineInv ==
    /\ StepsTyped /\ ServersTyped /\ ChannelTyped /\ CountsTyped
    /\ StepsInOrder /\ P!ImageOfWholePrompt

\* What the assumption says of the constants of the pipeline.
LEMMA PipelineConstants ==
    /\ Chunks \in Nat \ {0} /\ Capacity \in Nat \ {0}
    /\ P!Step = {1, 2, 3} /\ P!Transcribe = 1 /\ P!Prompt = 2 /\ P!Image = 3
BY PartsAssumption DEF P!PipelineAssumption, P!Step, P!Transcribe, P!Prompt, P!Image

\* An event that is sent is the last of all events.
LEMMA EventsSent ==
    ASSUME NEW S, NEW f \in Seq(S), NEW g \in Seq(S), NEW x \in S
    PROVE  f \o Append(g, x) = Append(f \o g, x)
OBVIOUS

\* An event that is shown only changes places.
LEMMA EventsShown ==
    ASSUME NEW S, NEW f \in Seq(S), NEW g \in Seq(S), g # <<>>
    PROVE  /\ Append(f, Head(g)) \o Tail(g) = f \o g
           /\ Append(f, Head(g)) \in Seq(S) /\ Tail(g) \in Seq(S) /\ Len(Tail(g)) = Len(g) - 1
OBVIOUS

\* The pipeline begins in its invariant.
LEMMA PipelineStarts == P!Init => PipelineInv
<1> SUFFICES ASSUME P!Init PROVE PipelineInv
  OBVIOUS
<1> USE PipelineConstants DEF P!Init
<1>1. StepsTyped /\ ServersTyped /\ ChannelTyped /\ CountsTyped
  BY DEF StepsTyped, ServersTyped, ChannelTyped, CountsTyped, StepType, ServerType, P!PC
<1>2. StepsInOrder
  BY DEF StepsInOrder
<1>3. P!ImageOfWholePrompt
  BY DEF P!ImageOfWholePrompt, P!Events
<1> QED BY <1>1, <1>2, <1>3 DEF PipelineInv

\* The events that were there stay in their places.
EventsGrow ==
    /\ DOMAIN P!Events \subseteq DOMAIN P!Events'
    /\ \A k \in DOMAIN P!Events : P!Events'[k] = P!Events[k]

\* Sending an event appends it to the events.
LEMMA SendGrows ==
    ASSUME ChannelTyped, NEW s \in P!Step, NEW word \in P!Status, P!Send(s, word),
           UNCHANGED pShown
    PROVE  /\ ChannelTyped' /\ EventsGrow
           /\ \A k \in DOMAIN P!Events' \ DOMAIN P!Events : P!Events'[k] = <<s, word>>
           /\ \E k \in DOMAIN P!Events' : P!Events'[k] = <<s, word>>
           /\ \A k \in DOMAIN P!Events' \ DOMAIN P!Events, j \in DOMAIN P!Events : j \in 1 .. k - 1
<1>1. PICK e \in Event : e = <<s, word>>
  BY DEF Event
<1>2. pChannel' = Append(pChannel, e) /\ Len(pChannel) < Capacity
  BY <1>1 DEF P!Send
<1>3. pChannel' \in Seq(Event) /\ Len(pChannel') = Len(pChannel) + 1
  BY <1>2 DEF ChannelTyped
<1>4. ChannelTyped'
  BY <1>2, <1>3, PipelineConstants DEF ChannelTyped, Event, P!Step, P!Status
<1> DEFINE ev == pShown \o pChannel
           Longer == Append(ev, e)
<1>5. ev \in Seq(Event)
  BY DEF ChannelTyped
<1>6. P!Events' = Longer /\ P!Events = ev
  BY <1>2, EventsSent DEF ChannelTyped, P!Events
<1> HIDE DEF ev
<1>7. /\ Longer \in Seq(Event) /\ Len(Longer) = Len(ev) + 1 /\ Len(ev) \in Nat
      /\ Longer[Len(ev) + 1] = e /\ \A k \in 1 .. Len(ev) : Longer[k] = ev[k]
      /\ DOMAIN ev = 1 .. Len(ev)
  BY <1>5
<1>8. DOMAIN Longer = 1 .. Len(ev) + 1
  BY <1>7
<1> HIDE DEF Longer
<1>9. \A k \in DOMAIN Longer \ DOMAIN ev : k = Len(ev) + 1
  BY <1>7, <1>8
<1>10. EventsGrow
  BY <1>6, <1>7, <1>8 DEF EventsGrow
<1>11. \A k \in DOMAIN P!Events' \ DOMAIN P!Events, j \in DOMAIN P!Events : j \in 1 .. k - 1
  BY <1>6, <1>7, <1>9
<1>12. Len(ev) + 1 \in DOMAIN Longer
  BY <1>7, <1>8
<1> QED BY <1>1, <1>4, <1>6, <1>7, <1>9, <1>10, <1>11, <1>12

\* Every step of the pipeline keeps its invariant.
LEMMA PipelineInvStays == PipelineInv /\ [P!Next]_(P!vars) => PipelineInv'
<1> SUFFICES ASSUME PipelineInv, [P!Next]_(P!vars) PROVE PipelineInv'
  OBVIOUS
<1> USE PipelineConstants
<1>0. /\ StepsTyped /\ ServersTyped /\ ChannelTyped /\ CountsTyped
      /\ StepsInOrder /\ P!ImageOfWholePrompt
      /\ pStep[1] \in StepType /\ pStep[2] \in StepType /\ pStep[3] \in StepType
      /\ pServer[1] \in ServerType /\ pServer[2] \in ServerType
  BY DEF PipelineInv, StepsTyped, ServersTyped
\* Steps that leave the events and the prompt alone.
<1>1. ASSUME StepsTyped', ServersTyped', CountsTyped', UNCHANGED <<pChannel, pShown, pPrompt>>,
             StepsInOrder'
      PROVE  PipelineInv'
  <2>1. P!Events' = P!Events /\ ChannelTyped'
    BY <1>0, <1>1 DEF P!Events, ChannelTyped, Event, P!Step, P!Status
  <2>2. P!ImageOfWholePrompt'
    BY <1>0, <1>1, <2>1 DEF P!ImageOfWholePrompt
  <2> QED BY <1>1, <2>1, <2>2 DEF PipelineInv
<1>2. UNCHANGED <<pChannel, pShown>> => (Told' <=> Told)
  BY DEF Told, P!Events
<1>3. CASE P!Unresolved \/ P!RunReturns \/ P!CopyEnds
  <2>1. /\ UNCHANGED <<pStep, pServer, pHeard, pTokens, pPrompt, pChannel, pShown>>
        /\ pAudio' \in {"none", "copy", "whole", "cut"} /\ pRun' \in {pRun, "over"}
    BY <1>0, <1>3 DEF P!Unresolved, P!RunReturns, P!CopyEnds, CountsTyped
  <2>2. StepsTyped' /\ ServersTyped' /\ CountsTyped'
    BY <1>0, <2>1 DEF StepsTyped, ServersTyped, CountsTyped, StepType, ServerType, P!PC
  <2>3. StepsInOrder'
    BY <1>0, <1>2, <2>1 DEF StepsInOrder
  <2> QED BY <1>1, <2>1, <2>2, <2>3
<1>4. CASE P!Run
  <2>1. /\ pRun = "resolve" /\ pRun' = "wait" /\ pAudio' = "copy" /\ pPrompt = 0
        /\ UNCHANGED <<pServer, pHeard, pTokens, pPrompt, pChannel, pShown>>
    BY <1>0, <1>4 DEF P!Run, StepsInOrder
  <2>2. StepsTyped' /\ pStep'[3].pc = "gather"
    BY <1>0, <1>4 DEF P!Run, StepsTyped, StepType, P!PC
  <2>3. ServersTyped' /\ CountsTyped'
    BY <1>0, <2>1 DEF ServersTyped, CountsTyped, ServerType
  <2>4. StepsInOrder'
    BY <1>0, <2>1, <2>2 DEF StepsInOrder
  <2> QED BY <1>1, <2>1, <2>2, <2>3, <2>4
<1>5. CASE P!Broadcast
  <2>1. /\ pChannel # <<>> /\ pShown' = Append(pShown, Head(pChannel))
        /\ pChannel' = Tail(pChannel)
        /\ UNCHANGED <<pAudio, pStep, pServer, pHeard, pTokens, pPrompt, pRun>>
    BY <1>5 DEF P!Broadcast
  <2>2. /\ P!Events' = P!Events /\ pShown' \in Seq(Event) /\ pChannel' \in Seq(Event)
        /\ Len(pChannel') = Len(pChannel) - 1
    BY <1>0, <2>1, EventsShown DEF P!Events, ChannelTyped
  <2>3. ChannelTyped'
    BY <1>0, <2>2 DEF ChannelTyped, Event, P!Step, P!Status
  <2>4. StepsTyped' /\ ServersTyped' /\ CountsTyped'
    BY <1>0, <2>1 DEF StepsTyped, ServersTyped, CountsTyped, StepType, ServerType, P!PC
  <2>5. StepsInOrder' /\ P!ImageOfWholePrompt'
    BY <1>0, <2>1, <2>2 DEF StepsInOrder, Told, P!ImageOfWholePrompt
  <2> QED BY <2>3, <2>4, <2>5 DEF PipelineInv
\* Steps of one goroutine that leave the events and the prompt alone.
<1>6. ASSUME NEW s \in {1, 2, 3}, NEW x \in StepType, pStep' = [pStep EXCEPT ![s] = x],
             s = 2 => pPrompt = 0 /\ x.pc # "complete",
             s = 3 => x.pc \notin {"dial", "read"} /\ (x.pc \in {"event", "image", "complete"} => pPrompt # 0 /\ Told),
             pRun # "resolve",
             ServersTyped', pServer'[2].pc = "closed" => pServer'[2].said = Chunks,
             CountsTyped', UNCHANGED <<pChannel, pShown, pPrompt, pRun>>
      PROVE  PipelineInv'
  <2>1. StepsTyped'
    BY <1>0, <1>6 DEF StepsTyped, StepType, P!PC
  <2>2. pStep'[s] = x /\ \A u \in {1, 2, 3} \ {s} : pStep'[u] = pStep[u]
    BY <1>0, <1>6 DEF StepsTyped
  <2>3. StepsInOrder'
    BY <1>0, <1>2, <1>6, <2>2 DEF StepsInOrder
  <2> QED BY <1>1, <1>6, <2>1, <2>3
<1>7. ASSUME NEW s \in {1, 2}, P!Dial(s) \/ P!BrokenStream(s) PROVE PipelineInv'
  <2>1. /\ pStep[s].pc \in {"dial", "read"} /\ pRun # "resolve"
        /\ s = 2 => pPrompt = 0
    BY <1>0, <1>7 DEF P!Dial, P!BrokenStream, StepsInOrder
  <2>2. PICK x \in StepType : pStep' = [pStep EXCEPT ![s] = x] /\ x.pc \in {"read", "over"}
    <3> DEFINE x == [pStep[s] EXCEPT !.pc = "read"]
               y == [pc |-> "over", failed |-> TRUE]
    <3>1. x \in StepType /\ y \in StepType /\ x.pc = "read" /\ y.pc = "over"
      BY <1>0 DEF StepType, P!PC
    <3>2. pStep' = [pStep EXCEPT ![s] = x] \/ pStep' = [pStep EXCEPT ![s] = y]
      BY <1>7 DEF P!Dial, P!BrokenStream, P!Goes, P!Fails
    <3> HIDE DEF x, y
    <3> QED BY <3>1, <3>2
  <2>3. /\ ServersTyped' /\ pServer'[1].said = pServer[1].said
        /\ pServer'[2].said = pServer[2].said
        /\ pServer'[2].pc = "closed" => pServer[2].pc = "closed"
    BY <1>0, <1>7 DEF P!Dial, P!BrokenStream, ServersTyped, ServerType
  <2>4. UNCHANGED <<pAudio, pHeard, pTokens, pPrompt, pChannel, pShown, pRun>>
    BY <1>7 DEF P!Dial, P!BrokenStream
  <2> QED BY <1>0, <1>6, <2>1, <2>2, <2>3, <2>4 DEF CountsTyped, StepsInOrder
<1>8. ASSUME P!Listened \/ \E s \in {1, 2} : P!Closes(s) \/ P!Breaks(s) PROVE PipelineInv'
  <2>1. /\ ServersTyped' /\ pServer'[1].said = pServer[1].said
        /\ pServer'[2].said = pServer[2].said
        /\ pServer'[2].pc = "closed" => pServer'[2].said = Chunks
    <3>1. CASE P!Listened
      BY <1>0, <3>1 DEF P!Listened, ServersTyped, ServerType, StepsInOrder
    <3>2. ASSUME NEW s \in {1, 2}, P!Closes(s) \/ P!Breaks(s)
          PROVE  /\ ServersTyped' /\ pServer'[1].said = pServer[1].said
                 /\ pServer'[2].said = pServer[2].said
                 /\ pServer'[2].pc = "closed" => pServer'[2].said = Chunks
      BY <1>0, <3>2 DEF P!Closes, P!Breaks, ServersTyped, ServerType, StepsInOrder
    <3> QED BY <1>8, <3>1, <3>2
  <2>2. UNCHANGED <<pAudio, pStep, pHeard, pTokens, pPrompt, pChannel, pShown, pRun>>
    BY <1>8 DEF P!Listened, P!Closes, P!Breaks
  <2>3. StepsTyped' /\ CountsTyped' /\ StepsInOrder'
    BY <1>0, <1>2, <2>1, <2>2 DEF StepsTyped, StepType, P!PC, CountsTyped, StepsInOrder
  <2> QED BY <1>1, <2>1, <2>2, <2>3
<1>9. ASSUME P!HearChunk \/ P!ReadToken PROVE PipelineInv'
  <2>1. PICK s \in {1, 2} :
          /\ pStep[s].pc = "read" /\ pServer[s].pc = "speak" /\ pServer[s].said < Chunks
          /\ pServer' = [pServer EXCEPT ![s].said = @ + 1]
          /\ pStep' = [pStep EXCEPT ![s].pc = "event"]
          /\ pHeard' = IF s = 1 THEN pHeard + 1 ELSE pHeard
          /\ pTokens' = IF s = 2 THEN pTokens + 1 ELSE pTokens
    BY <1>9 DEF P!HearChunk, P!ReadToken, P!Goes
  <2>2. UNCHANGED <<pAudio, pPrompt, pChannel, pShown, pRun>>
    BY <1>9 DEF P!HearChunk, P!ReadToken
  <2>3. /\ ServersTyped' /\ pServer'[s].said = pServer[s].said + 1 /\ pServer'[s].pc = "speak"
        /\ \A u \in {1, 2} \ {s} : pServer'[u] = pServer[u]
    BY <1>0, <2>1 DEF ServersTyped, ServerType
  <2> DEFINE x == [pStep[s] EXCEPT !.pc = "event"]
  <2>4. x \in StepType /\ x.pc = "event" /\ pStep' = [pStep EXCEPT ![s] = x]
    BY <1>0, <2>1 DEF StepType, P!PC
  <2> HIDE DEF x
  <2>5. pRun # "resolve" /\ (s = 2 => pPrompt = 0)
    BY <1>0, <2>1 DEF StepsInOrder
  <2>6. CountsTyped'
    BY <1>0, <2>1, <2>2, <2>3 DEF CountsTyped
  <2>7. pServer'[2].pc = "closed" => pServer'[2].said = Chunks
    BY <1>0, <2>3 DEF StepsInOrder
  <2>8. /\ s \in {1, 2, 3} /\ s # 3 /\ (s = 2 => pPrompt = 0 /\ x.pc # "complete")
        /\ UNCHANGED <<pChannel, pShown, pPrompt, pRun>>
    BY <2>2, <2>4, <2>5
  <2>9. ServersTyped' /\ pRun # "resolve"
    BY <2>3, <2>5
  <2>10. x \in StepType /\ pStep' = [pStep EXCEPT ![s] = x]
    BY <2>4
  <2> QED BY <1>6, <2>6, <2>7, <2>8, <2>9, <2>10
<1>10. ASSUME P!Heard \/ P!Gathered \/ P!GatherPrompt \/ P!Generate PROVE PipelineInv'
  <2>1. UNCHANGED <<pAudio, pServer, pHeard, pTokens, pPrompt, pChannel, pShown, pRun>>
    BY <1>10 DEF P!Heard, P!Gathered, P!GatherPrompt, P!Generate
  <2>2. ServersTyped' /\ CountsTyped' /\ (pServer'[2].pc = "closed" => pServer'[2].said = Chunks)
    BY <1>0, <2>1 DEF ServersTyped, ServerType, CountsTyped, StepsInOrder
  <2>3. PICK s \in {1, 2, 3}, x \in StepType :
          /\ pStep' = [pStep EXCEPT ![s] = x] /\ pStep[s].pc # "off"
          /\ s = 2 => pPrompt = 0 /\ x.pc # "complete"
          /\ s = 3 => /\ x.pc \notin {"dial", "read"}
                      /\ x.pc \in {"event", "image", "complete"} => pPrompt # 0 /\ Told
    <3> DEFINE a == [pStep[1] EXCEPT !.pc = "complete"]
               b == [pStep[2] EXCEPT !.pc = "dial"]
               c == [pStep[3] EXCEPT !.pc = "event"]
               d == [pStep[3] EXCEPT !.pc = "complete"]
               y == [pc |-> "over", failed |-> TRUE]
    <3>1. /\ a \in StepType /\ a.pc = "complete" /\ b \in StepType /\ b.pc = "dial"
          /\ c \in StepType /\ c.pc = "event" /\ d \in StepType /\ d.pc = "complete"
          /\ y \in StepType /\ y.pc = "over"
      BY <1>0 DEF StepType, P!PC
    <3>2. CASE P!Heard
      <4>1. pStep' = [pStep EXCEPT ![1] = a] /\ pStep[1].pc # "off"
        BY <3>2 DEF P!Heard, P!Goes
      <4> HIDE DEF a, b, c, d, y
      <4> a \in StepType
        BY <3>1
      <4> WITNESS 1 \in {1, 2, 3}, a \in StepType
      <4> QED BY <3>1, <4>1
    <3>3. CASE P!Gathered
      <4>1. /\ pStep' = [pStep EXCEPT ![2] = b] \/ pStep' = [pStep EXCEPT ![2] = y]
            /\ pStep[2].pc = "gather" /\ pPrompt = 0
        BY <1>0, <3>3 DEF P!Gathered, P!Goes, P!Fails, StepsInOrder
      <4> HIDE DEF a, b, c, d, y
      <4> QED BY <3>1, <4>1
    <3>4. CASE P!GatherPrompt
      <4>1. /\ \/ pStep' = [pStep EXCEPT ![3] = c] /\ pPrompt # 0 /\ Told
               \/ pStep' = [pStep EXCEPT ![3] = y]
            /\ pStep[3].pc = "gather"
        BY <1>0, <3>4 DEF P!GatherPrompt, P!Goes, P!Fails, P!Over, StepsInOrder
      <4> HIDE DEF a, b, c, d, y
      <4> QED BY <3>1, <4>1
    <3>5. CASE P!Generate
      <4>1. /\ pStep' = [pStep EXCEPT ![3] = d] /\ pPrompt # 0 /\ Told
            /\ pStep[3].pc = "image"
        BY <1>0, <3>5 DEF P!Generate, P!Goes, StepsInOrder
      <4> HIDE DEF a, b, c, d, y
      <4> d \in StepType
        BY <3>1
      <4> WITNESS 3 \in {1, 2, 3}, d \in StepType
      <4> QED BY <3>1, <4>1
    <3> QED BY <1>10, <3>2, <3>3, <3>4, <3>5
  <2>4. pRun # "resolve"
    BY <1>0, <2>3 DEF StepsInOrder
  <2> QED BY <1>6, <2>1, <2>2, <2>3, <2>4
<1>11. ASSUME P!WritePrompt PROVE PipelineInv'
  <2>1. /\ pStep[2].pc = "read" /\ pServer[2].pc = "closed" /\ pPrompt' = Chunks /\ pPrompt = 0
        /\ pStep' = [pStep EXCEPT ![2].pc = "complete"]
        /\ UNCHANGED <<pAudio, pServer, pHeard, pTokens, pChannel, pShown, pRun>>
        /\ pRun # "resolve" /\ pStep[3].pc \notin {"event", "image", "complete"}
    BY <1>0, <1>11 DEF P!WritePrompt, P!Goes, StepsInOrder, CountsTyped
  <2>2. StepsTyped' /\ pStep'[2].pc = "complete" /\ pStep'[3] = pStep[3]
    BY <1>0, <2>1 DEF StepsTyped, StepType, P!PC
  <2>3. ServersTyped' /\ CountsTyped' /\ StepsInOrder'
    BY <1>0, <2>1, <2>2 DEF ServersTyped, ServerType, CountsTyped, StepsInOrder
  <2>4. P!Events' = P!Events /\ ChannelTyped'
    BY <1>0, <2>1 DEF P!Events, ChannelTyped, Event, P!Step, P!Status
  <2>5. P!ImageOfWholePrompt'
    BY <1>0, <2>1, <2>4 DEF P!ImageOfWholePrompt
  <2> QED BY <2>2, <2>3, <2>4, <2>5 DEF PipelineInv
<1>12. ASSUME NEW s \in P!Step, P!Streamed(s) \/ P!Complete(s) PROVE PipelineInv'
  <2>1. PICK word \in P!Status :
          /\ P!Send(s, word) /\ UNCHANGED <<pAudio, pServer, pHeard, pTokens, pPrompt, pShown, pRun>>
          /\ \/ word = "streaming" /\ pStep[s].pc = "event" /\ s # 3
                /\ pStep' = [pStep EXCEPT ![s].pc = "read"]
             \/ word = "streaming" /\ pStep[s].pc = "event" /\ s = 3
                /\ pStep' = [pStep EXCEPT ![s].pc = "image"]
             \/ word = "completed" /\ pStep[s].pc = "complete"
                /\ pStep' = [pStep EXCEPT ![s].pc = "over"]
    BY <1>12 DEF P!Streamed, P!Complete, P!Goes, P!Status
  <2>2. /\ ChannelTyped' /\ EventsGrow
        /\ \A k \in DOMAIN P!Events' \ DOMAIN P!Events : P!Events'[k] = <<s, word>>
        /\ \E k \in DOMAIN P!Events' : P!Events'[k] = <<s, word>>
        /\ \A k \in DOMAIN P!Events' \ DOMAIN P!Events, j \in DOMAIN P!Events : j \in 1 .. k - 1
    BY <1>0, <2>1, SendGrows
  <2>3. /\ StepsTyped' /\ \A u \in {1, 2, 3} \ {s} : pStep'[u] = pStep[u]
        /\ \/ word = "streaming" /\ pStep[s].pc = "event" /\ s # 3 /\ pStep'[s].pc = "read"
           \/ word = "streaming" /\ pStep[s].pc = "event" /\ s = 3 /\ pStep'[s].pc = "image"
           \/ word = "completed" /\ pStep[s].pc = "complete" /\ pStep'[s].pc = "over"
    BY <1>0, <2>1 DEF StepsTyped, StepType, P!PC
  <2>4. ServersTyped' /\ CountsTyped'
    BY <1>0, <2>1 DEF ServersTyped, ServerType, CountsTyped
  <2>5. Told => Told'
    BY <2>2 DEF Told, EventsGrow
  <2>6. s = 2 /\ word = "completed" => Told'
    BY <2>2 DEF Told
  <2>7. StepsInOrder'
    BY <1>0, <2>1, <2>3, <2>5, <2>6 DEF StepsInOrder
  <2>8. P!ImageOfWholePrompt'
    <3> SUFFICES ASSUME NEW k \in DOMAIN P!Events', P!Events'[k][1] = 3
                 PROVE  /\ pPrompt' = Chunks
                        /\ \E j \in 1 .. k - 1 : P!Events'[j] = <<2, "completed">>
      BY DEF P!ImageOfWholePrompt
    <3>1. CASE k \in DOMAIN P!Events
      <4>1. /\ pPrompt = Chunks
            /\ \E j \in 1 .. k - 1 : P!Events[j] = <<2, "completed">>
        BY <1>0, <2>2, <3>1 DEF P!ImageOfWholePrompt, EventsGrow
      <4>2. \A j \in 1 .. k - 1 : j \in DOMAIN P!Events
        BY <1>0, <3>1 DEF P!Events, ChannelTyped
      <4> QED BY <2>1, <2>2, <4>1, <4>2 DEF EventsGrow
    <3>2. CASE k \notin DOMAIN P!Events
      <4>1. s = 3
        BY <2>2, <3>2
      <4>2. pPrompt = Chunks /\ Told
        BY <1>0, <2>3, <4>1 DEF StepsInOrder, CountsTyped
      <4>3. PICK j \in DOMAIN P!Events : P!Events[j] = <<2, "completed">>
        BY <4>2 DEF Told
      <4>4. j \in 1 .. k - 1 /\ P!Events'[j] = <<2, "completed">>
        BY <2>2, <3>2, <4>3 DEF EventsGrow
      <4> QED BY <2>1, <4>2, <4>4
    <3> QED BY <3>1, <3>2
  <2> QED BY <2>2, <2>3, <2>4, <2>7, <2>8 DEF PipelineInv
<1>13. ASSUME UNCHANGED P!vars PROVE PipelineInv'
  <2>1. StepsTyped' /\ ServersTyped' /\ CountsTyped' /\ StepsInOrder'
    BY <1>0, <1>2, <1>13
    DEF P!vars, StepsTyped, StepType, P!PC, ServersTyped, ServerType, CountsTyped, StepsInOrder
  <2> QED BY <1>1, <1>13, <2>1 DEF P!vars
<1>14. \/ P!Unresolved \/ P!Run \/ P!RunReturns \/ P!Broadcast \/ P!CopyEnds
       \/ P!Listened
       \/ P!HearChunk \/ P!Heard \/ P!Gathered \/ P!ReadToken \/ P!WritePrompt \/ P!GatherPrompt
       \/ P!Generate
       \/ \E s \in P!Step : P!Streamed(s) \/ P!Complete(s)
       \/ \E s \in {1, 2} : P!Dial(s) \/ P!Closes(s) \/ P!Breaks(s) \/ P!BrokenStream(s)
       \/ UNCHANGED P!vars
  BY DEF P!Next
<1> QED
  BY <1>3, <1>4, <1>5, <1>7, <1>8, <1>9, <1>10, <1>11, <1>12, <1>13, <1>14

\* The invariant gives the types and that an image is of a whole prompt.
LEMMA PipelineHolds == PipelineInv => P!TypeOK /\ P!ImageOfWholePrompt
<1> SUFFICES ASSUME PipelineInv PROVE P!TypeOK /\ P!ImageOfWholePrompt
  OBVIOUS
<1>1. pServer[1].said \in 0 .. Chunks /\ pServer[2].said \in 0 .. Chunks
      /\ pPrompt \in 0 .. Chunks
  BY PipelineConstants DEF PipelineInv, ServersTyped, ServerType, CountsTyped
<1> QED BY <1>1, PipelineConstants
        DEF PipelineInv, StepsTyped, StepType, ServersTyped, ServerType, ChannelTyped, Event,
            CountsTyped, P!TypeOK

-----------------------------------------------------------------------------
(* Tunnel *)

EnableType == [pc : {"idle", "register", "registered", "interface", "proxy", "connect",
                     "return", "failed", "over"}, up : BOOLEAN]
RelaysTyped ==
    /\ xRelay \in Relay /\ xTunnels \in [Relay -> SUBSET (Enabling \X (2 .. LastOctet))]
    /\ xOctet \in [Relay -> 2 .. LastOctet] /\ xId \in Enabling \cup {0}
RequestsTyped ==
    /\ xEn \in [Enabling -> EnableType]
    /\ xDis \in [Disabling -> {"idle", "proxy", "interface", "deregister", "over"}]
TunnelTyped ==
    /\ xState \in {"disconnected", "connecting", "connected", "error"}
    /\ xWg \in BOOLEAN /\ xSevered \in BOOLEAN
    /\ xServer \in Enabling \cup {0} /\ xListening \in Enabling \cup {0}

Listed(e) == \E r \in Relay : \E t \in xTunnels[r] : t[1] = e

\* A request that was answered is listed by a relay; one that is past its registration
\* finds the tunnel of that moment listed; and one that is past the proxy finds it listening.
RequestsServed ==
    ~xSevered =>
      /\ xState = "connected" => xListening # 0 /\ Listed(xId)
      /\ \A e \in Enabling :
           /\ xEn[e].pc = "registered" => Listed(e)
           /\ xEn[e].pc \in {"interface", "proxy", "connect"} => Listed(xId)
           /\ xEn[e].pc = "connect" => xListening # 0
TunnelInv == RelaysTyped /\ RequestsTyped /\ TunnelTyped /\ RequestsServed

\* What the assumption says of the constants of the tunnel.
LEMMA TunnelConstants ==
    /\ Enabling \subseteq Nat \ {0} /\ LastOctet \in Nat /\ LastOctet > 1
    /\ Userspace \in BOOLEAN
BY PartsAssumption DEF T!TunnelAssumption

\* A tunnel begins in its invariant.
LEMMA TunnelStarts == T!Init => TunnelInv
<1> SUFFICES ASSUME T!Init PROVE TunnelInv
  OBVIOUS
<1>1. RelaysTyped
  BY TunnelConstants DEF T!Init, RelaysTyped
<1>2. RequestsTyped
  BY DEF T!Init, RequestsTyped, EnableType
<1>3. TunnelTyped
  BY DEF T!Init, TunnelTyped
<1>4. RequestsServed
  BY DEF T!Init, RequestsServed
<1> QED BY <1>1, <1>2, <1>3, <1>4 DEF TunnelInv

\* Every step of a tunnel keeps its invariant.
LEMMA TunnelInvStays == TunnelInv /\ [T!Next]_(T!vars) => TunnelInv'
<1> SUFFICES ASSUME TunnelInv, [T!Next]_(T!vars) PROVE TunnelInv'
  OBVIOUS
<1>0. RelaysTyped /\ RequestsTyped /\ TunnelTyped /\ RequestsServed
  BY DEF TunnelInv
<1>1. ASSUME NEW e \in Enabling,
             \/ T!Enable(e) \/ T!Register(e) \/ T!Registered(e) \/ T!RegisterFails(e)
             \/ T!BringUp(e) \/ T!ProxyStart(e) \/ T!Connected(e) \/ T!Returns(e)
      PROVE  TunnelInv'
  <2>1. PICK x \in EnableType : xEn' = [xEn EXCEPT ![e] = x]
    <3>1. xEn[e] \in EnableType
      BY <1>0 DEF RequestsTyped
    <3>2. ASSUME NEW at \in {"register", "registered", "interface", "connect", "failed",
                             "return", "over"}, xEn' = [xEn EXCEPT ![e].pc = at]
          PROVE  \E x \in EnableType : xEn' = [xEn EXCEPT ![e] = x]
      <4> DEFINE x == [xEn[e] EXCEPT !.pc = at]
      <4>1. x \in EnableType /\ xEn' = [xEn EXCEPT ![e] = x]
        BY <3>1, <3>2 DEF EnableType
      <4> HIDE DEF x
      <4> QED BY <4>1
    <3>3. ASSUME NEW up \in BOOLEAN, xEn' = [xEn EXCEPT ![e] = [pc |-> "proxy", up |-> up]]
          PROVE  \E x \in EnableType : xEn' = [xEn EXCEPT ![e] = x]
      <4> DEFINE x == [pc |-> "proxy", up |-> up]
      <4>1. x \in EnableType /\ xEn' = [xEn EXCEPT ![e] = x]
        BY <3>3 DEF EnableType
      <4> HIDE DEF x
      <4> QED BY <4>1
    <3> QED
      BY <1>1, <3>2, <3>3 DEF T!Enable, T!Register, T!Registered, T!RegisterFails,
         T!BringUp, T!ProxyStart, T!Connected, T!Returns, T!Goes
  <2>2. /\ xEn' \in [Enabling -> EnableType]
        /\ \A f \in Enabling \ {e} : xEn'[f] = xEn[f]
    BY <1>0, <2>1 DEF RequestsTyped
  <2>3. RequestsTyped'
    BY <1>0, <1>1, <2>2 DEF RequestsTyped, EnableType, T!Enable, T!Register, T!Registered,
       T!RegisterFails, T!BringUp, T!ProxyStart, T!Connected, T!Returns
  <2>4. xEn[e] \in EnableType
    BY <1>0 DEF RequestsTyped
  <2>5. CASE T!Register(e)
    <3>1. PICK t \in Enabling \X (2 .. LastOctet) : t = <<e, xOctet[xRelay]>>
      BY <1>0 DEF RelaysTyped
    <3>2. PICK o \in 2 .. LastOctet : xOctet' = [xOctet EXCEPT ![xRelay] = o]
      <4>1. xOctet[xRelay] \in 2 .. LastOctet
        BY <1>0 DEF RelaysTyped
      <4> DEFINE o == IF xOctet[xRelay] = LastOctet THEN 2 ELSE xOctet[xRelay] + 1
      <4>2. o \in 2 .. LastOctet
        BY <4>1, TunnelConstants
      <4>3. xOctet' = [xOctet EXCEPT ![xRelay] = o]
        BY <2>5 DEF T!Register
      <4> QED BY <4>2, <4>3
    <3>3. PICK s \in SUBSET (Enabling \X (2 .. LastOctet)) : s = xTunnels[xRelay] \cup {t}
      BY <1>0, <3>1 DEF RelaysTyped
    <3>4. xTunnels' = [xTunnels EXCEPT ![xRelay] = s]
      BY <2>5, <3>1, <3>3 DEF T!Register
    <3>5. /\ xEn'[e].pc = "registered"
          /\ UNCHANGED <<xState, xId, xRelay, xWg, xServer, xListening, xDis, xSevered>>
      BY <1>0, <2>4, <2>5 DEF T!Register, T!Goes, EnableType, RequestsTyped
    <3>6. RelaysTyped'
      BY <1>0, <3>2, <3>4, <3>5 DEF RelaysTyped
    <3>7. /\ \A r \in Relay : xTunnels[r] \subseteq xTunnels'[r]
          /\ t \in xTunnels'[xRelay] /\ xRelay \in Relay
      BY <1>0, <3>3, <3>4 DEF RelaysTyped
    <3>8. (\A f \in Enabling \cup {0} : Listed(f) => Listed(f)') /\ Listed(e)'
      BY <3>1, <3>7 DEF Listed
    <3>9. RequestsServed'
      <4> SUFFICES ASSUME ~xSevered', NEW f \in Enabling
                   PROVE  /\ xState' = "connected" => xListening' # 0 /\ Listed(xId)'
                          /\ xEn'[f].pc = "registered" => Listed(f)'
                          /\ xEn'[f].pc \in {"interface", "proxy", "connect"} => Listed(xId)'
                          /\ xEn'[f].pc = "connect" => xListening' # 0
        BY DEF RequestsServed, Listed
      <4>1. Listed(xId) => Listed(xId)'
        BY <3>5, <3>7 DEF Listed
      <4> QED BY <1>0, <2>2, <3>5, <3>8, <4>1 DEF RequestsServed
    <3>10. TunnelTyped'
      BY <1>0, <3>5 DEF TunnelTyped
    <3> QED BY <2>3, <3>6, <3>9, <3>10 DEF TunnelInv
  \* Steps that leave the relays alone.
  <2>6. ASSUME UNCHANGED <<xRelay, xTunnels, xOctet, xSevered>>, xId' \in {xId, e},
               TunnelTyped', xListening # 0 => xListening' # 0,
               xId' = e => Listed(e) \/ xSevered \/ xId = e,
               xState' = "connected" => xState = "connected" \/ xEn[e].pc = "connect",
               xEn'[e].pc # "registered",
               xEn'[e].pc \in {"interface", "proxy", "connect"} =>
                   xEn[e].pc \in {"interface", "proxy"} \/ (xId' = e /\ xEn[e].pc = "registered"),
               xEn'[e].pc = "connect" => xListening' # 0
        PROVE  TunnelInv'
    <3>1. RelaysTyped'
      BY <1>0, <2>6 DEF RelaysTyped
    <3>2. \A i \in Enabling \cup {0} : Listed(i)' <=> Listed(i)
      BY <2>6 DEF Listed
    <3>3. Listed(xId)' <=> Listed(xId')
      BY <2>6 DEF Listed
    <3>4. ~xSevered' => \/ xId' = xId
                        \/ xId' = e /\ Listed(e)
      BY <2>6
    <3>5. ~xSevered' /\ Listed(xId) => Listed(xId)'
      BY <3>3, <3>4
    <3>6. RequestsServed'
      <4> SUFFICES ASSUME ~xSevered', NEW f \in Enabling
                   PROVE  /\ xState' = "connected" => xListening' # 0 /\ Listed(xId)'
                          /\ xEn'[f].pc = "registered" => Listed(f)'
                          /\ xEn'[f].pc \in {"interface", "proxy", "connect"} => Listed(xId)'
                          /\ xEn'[f].pc = "connect" => xListening' # 0
        BY DEF RequestsServed, Listed
      <4>1. xState' = "connected" => xListening' # 0 /\ Listed(xId)'
        BY <1>0, <2>6, <3>5 DEF RequestsServed
      <4>2. CASE f = e
        BY <1>0, <2>6, <3>2, <3>3, <3>4, <3>5, <4>1, <4>2 DEF RequestsServed
      <4>3. CASE f # e
        BY <1>0, <2>2, <2>6, <3>2, <3>5, <4>1, <4>3 DEF RequestsServed
      <4> QED BY <4>2, <4>3
    <3> QED BY <2>3, <2>6, <3>1, <3>6 DEF TunnelInv
  <2>7. ASSUME NEW at \in {"register", "interface", "connect", "failed", "return", "over"},
               xEn' = [xEn EXCEPT ![e].pc = at]
        PROVE  xEn'[e].pc = at
    BY <1>0, <2>7 DEF RequestsTyped, EnableType
  <2>8. CASE T!Enable(e) \/ T!RegisterFails(e) \/ T!Returns(e) \/ T!Connected(e)
    <3>1. /\ xEn'[e].pc \in {"register", "failed", "over", "return"}
          /\ xState' = "connected" => xState = "connected" \/ xEn[e].pc = "connect"
          /\ UNCHANGED <<xRelay, xTunnels, xOctet, xSevered, xId, xListening, xServer>>
      BY <2>7, <2>8 DEF T!Enable, T!RegisterFails, T!Returns, T!Connected, T!Goes
    <3>2. TunnelTyped'
      BY <1>0, <2>8, <3>1
      DEF TunnelTyped, T!Enable, T!RegisterFails, T!Returns, T!Connected
    <3> QED BY <2>6, <3>1, <3>2
  <2>9. CASE T!Registered(e)
    <3>1. /\ xEn'[e].pc = "interface" /\ xEn[e].pc = "registered" /\ xId' = e
          /\ UNCHANGED <<xRelay, xTunnels, xOctet, xSevered, xListening, xServer, xState, xWg>>
      BY <2>7, <2>9 DEF T!Registered, T!Goes
    <3>2. TunnelTyped'
      BY <1>0, <3>1 DEF TunnelTyped
    <3>3. Listed(e) \/ xSevered
      BY <1>0, <3>1 DEF RequestsServed
    <3> QED BY <2>6, <3>1, <3>2, <3>3
  <2>10. CASE T!BringUp(e)
    <3>1. /\ xEn'[e].pc = "proxy" /\ xEn[e].pc = "interface" /\ xWg' \in BOOLEAN
          /\ UNCHANGED <<xRelay, xTunnels, xOctet, xSevered, xListening, xServer, xState, xId>>
      BY <1>0, <2>10 DEF T!BringUp, RequestsTyped, TunnelTyped
    <3>2. TunnelTyped'
      BY <1>0, <3>1 DEF TunnelTyped
    <3>3. xId' = e => Listed(e) \/ xSevered \/ xId = e
      BY <3>1
    <3> QED BY <2>6, <3>1, <3>2, <3>3
  <2>11. CASE T!ProxyStart(e)
    <3>1. /\ xEn'[e].pc \in {"connect", "failed"} /\ xEn[e].pc = "proxy" /\ xServer' = e
          /\ xEn'[e].pc = "connect" => xListening' # 0
          /\ xListening' \in {xListening, e} /\ (xListening # 0 => xListening' # 0)
          /\ xState' = "connected" => xState = "connected"
          /\ xState' \in {xState, "error"}
          /\ UNCHANGED <<xRelay, xTunnels, xOctet, xSevered, xId>>
      BY <2>7, <2>11, TunnelConstants DEF T!ProxyStart, T!Goes
    <3>2. xWg' \in BOOLEAN
      BY <1>0, <2>11 DEF T!ProxyStart, TunnelTyped
    <3>3. TunnelTyped'
      BY <1>0, <3>1, <3>2 DEF TunnelTyped
    <3>4. xId' = e => Listed(e) \/ xSevered \/ xId = e
      BY <3>1
    <3> QED BY <2>6, <3>1, <3>3, <3>4
  <2> QED BY <1>1, <2>5, <2>8, <2>9, <2>10, <2>11
<1>2. ASSUME NEW d \in Disabling,
             T!Disable(d) \/ T!StopProxy(d) \/ T!Down(d) \/ T!Deregister(d)
      PROVE  TunnelInv'
  <2>1. RequestsTyped'
    BY <1>0, <1>2 DEF RequestsTyped, T!Disable, T!StopProxy, T!Down, T!Deregister, T!DisGoes
  <2>2. TunnelTyped'
    BY <1>0, <1>2 DEF TunnelTyped, T!Disable, T!StopProxy, T!Down, T!Deregister, T!InUse
  <2>3. RelaysTyped'
    <3>1. CASE T!Deregister(d)
      <4>1. PICK s \in SUBSET (Enabling \X (2 .. LastOctet)) :
               s = {t \in xTunnels[xRelay] : t[1] # xId}
        BY <1>0 DEF RelaysTyped
      <4>2. xTunnels' \in {xTunnels, [xTunnels EXCEPT ![xRelay] = s]}
        BY <3>1, <4>1 DEF T!Deregister
      <4>3. UNCHANGED <<xRelay, xOctet, xId>>
        BY <3>1 DEF T!Deregister
      <4> QED BY <1>0, <4>2, <4>3 DEF RelaysTyped
    <3> QED BY <1>0, <1>2, <3>1 DEF RelaysTyped, T!Disable, T!StopProxy, T!Down
  <2>4. CASE T!Disable(d)
    <3>1. /\ xState' = "disconnected"
          /\ UNCHANGED <<xId, xRelay, xTunnels, xListening, xEn, xSevered>>
      BY <2>4 DEF T!Disable
    <3>2. RequestsServed'
      BY <1>0, <3>1 DEF RequestsServed, Listed
    <3> QED BY <2>1, <2>2, <2>3, <3>2 DEF TunnelInv
  <2>5. CASE T!StopProxy(d) \/ T!Down(d) \/ T!Deregister(d)
    <3>1. xSevered' = (xSevered \/ T!InUse) /\ UNCHANGED <<xState, xEn>>
      BY <2>5 DEF T!StopProxy, T!Down, T!Deregister
    <3>2. ~xSevered' => xState' # "connected" /\ \A e \in Enabling : xEn'[e].pc \in {"idle", "over"}
      BY <3>1 DEF T!InUse
    <3>3. RequestsServed'
      BY <3>2 DEF RequestsServed
    <3> QED BY <2>1, <2>2, <2>3, <3>3 DEF TunnelInv
  <2> QED BY <1>2, <2>4, <2>5
<1>3. ASSUME NEW r \in Relay, T!UpdateRelay(r) PROVE TunnelInv'
  <2>1. /\ xRelay' = r
        /\ UNCHANGED <<xState, xId, xTunnels, xOctet, xWg, xServer, xListening, xEn, xDis,
                       xSevered>>
    BY <1>3 DEF T!UpdateRelay
  <2>2. RelaysTyped' /\ RequestsTyped' /\ TunnelTyped'
    BY <1>0, <2>1 DEF RelaysTyped, RequestsTyped, EnableType, TunnelTyped
  <2>3. RequestsServed'
    BY <1>0, <2>1 DEF RequestsServed, Listed
  <2> QED BY <2>2, <2>3 DEF TunnelInv
<1>4. ASSUME UNCHANGED T!vars PROVE TunnelInv'
  <2>1. RelaysTyped' /\ RequestsTyped' /\ TunnelTyped'
    BY <1>0, <1>4 DEF T!vars, RelaysTyped, RequestsTyped, EnableType, TunnelTyped
  <2>2. RequestsServed'
    BY <1>0, <1>4 DEF T!vars, RequestsServed, Listed
  <2> QED BY <2>1, <2>2 DEF TunnelInv
<1> QED BY <1>1, <1>2, <1>3, <1>4 DEF T!Next

\* The invariant of a tunnel implies what the runs check of it.
LEMMA TunnelHolds == TunnelInv => T!TypeOK /\ T!ConnectedIsServed
<1> SUFFICES ASSUME TunnelInv PROVE T!TypeOK /\ T!ConnectedIsServed
  OBVIOUS
<1>1. T!TypeOK
  BY DEF TunnelInv, RelaysTyped, RequestsTyped, EnableType, TunnelTyped, T!TypeOK
<1>2. T!ConnectedIsServed
  BY DEF TunnelInv, RequestsServed, Listed, T!ConnectedIsServed
<1> QED BY <1>1, <1>2

-----------------------------------------------------------------------------
(* Placement *)

ReportType == [used : Nat, idle : N!Percent, vram : Nat, seen : BOOLEAN]
SnapshotType == [free : 0 .. 4, idle : N!Percent, latency : {0, 15}, vram : Nat,
                 health : N!Mille, seen : BOOLEAN, inFlight : Nat]
DemandType == [class : {"shell", "llm", "gpu", "cpu", "io"}, needs : 0 .. 3,
               requiresGPU : BOOLEAN, allowed : SUBSET Node]
PlacementInv == N!TypeOK

\* The ranges of the reports and the scores.
LEMMA PlacementRanges ==
    /\ \A x : x \in N!Percent <=> x \in Nat /\ x <= 100
    /\ \A x : x \in N!Mille <=> x \in Nat /\ x <= 1000
BY DEF N!Percent, N!Mille

\* What the assumption says of the constants of the placement.
LEMMA PlacementConstants ==
    Reports \subseteq [Node -> ReportType] /\ MaxInFlight \in Nat /\ MaxOutcomes \in Nat
BY PartsAssumption DEF N!PlacementAssumption, ReportType

\* The placement begins in its type.
LEMMA PlacementStarts == N!Init => PlacementInv
BY PlacementConstants, PlacementRanges DEF N!Init, PlacementInv, N!TypeOK, N!Whole

\* The health score stays between nothing and all.
LEMMA EwmaTyped ==
    ASSUME PlacementInv, NEW n \in Node, NEW success \in BOOLEAN
    PROVE  N!Ewma(n, success) \in N!Mille
<1> DEFINE v == IF success THEN 1000 ELSE 0
           h == tHealth[n]
<1>1. h \in N!Mille /\ v \in N!Mille
  BY PlacementRanges DEF PlacementInv, N!TypeOK
<1>2. N!Ewma(n, success) = v \/ N!Ewma(n, success) = (v + 4 * h) \div 5
  BY DEF N!Ewma
<1> HIDE DEF v, h
<1>3. (v + 4 * h) \div 5 \in N!Mille
  BY <1>1, PlacementRanges
<1> QED BY <1>1, <1>2, <1>3

\* Every step of the placement keeps its type.
LEMMA PlacementInvStays == PlacementInv /\ [N!Next]_(N!vars) => PlacementInv'
<1> SUFFICES ASSUME PlacementInv, [N!Next]_(N!vars) PROVE PlacementInv'
  OBVIOUS
<1> USE PlacementConstants DEF PlacementInv, N!TypeOK
<1>1. ASSUME NEW n \in Node, N!Turns(n) \/ N!Blocks(n) PROVE PlacementInv'
  BY <1>1 DEF N!Turns, N!Blocks, N!Flipped
<1>2. ASSUME NEW n \in Lender, NEW size \in {0, N!Whole}, N!Lends(n, size) PROVE PlacementInv'
  BY <1>2 DEF N!Lends
<1>3. ASSUME NEW req \in N!Tasks, NEW p, N!Submit(req, p) PROVE PlacementInv'
  <2>1. PICK n \in N!Runner : tInFlight[n] < MaxInFlight
                              /\ tInFlight' = [tInFlight EXCEPT ![n] = @ + 1]
    BY <1>3 DEF N!Submit
  <2>2. tInFlight' \in [N!Runner -> 0 .. MaxInFlight]
    BY <2>1
  <2> QED BY <1>3, <2>2 DEF N!Submit
<1>4. ASSUME NEW n \in N!Runner, NEW success \in BOOLEAN, N!Finish(n, success)
      PROVE  PlacementInv'
  <2>1. tInFlight' \in [N!Runner -> 0 .. MaxInFlight]
    BY <1>4 DEF N!Finish
  <2>2. tHealth' \in [Node -> N!Mille] /\ tOutcomes' \in [Node -> 0 .. MaxOutcomes]
    <3>1. CASE n \in Lender
      BY <1>4, <3>1 DEF N!Finish
    <3>2. CASE n \notin Lender
      <4>1. n \in Node
        BY <3>2 DEF N!Runner
      <4>2. N!Ewma(n, success) \in N!Mille
        BY <4>1, EwmaTyped
      <4> QED BY <1>4, <3>2, <4>1, <4>2 DEF N!Finish
    <3> QED BY <3>1, <3>2
  <2> QED BY <1>4, <2>1, <2>2 DEF N!Finish
<1>5. CASE UNCHANGED N!vars
  BY <1>5 DEF N!vars
<1> QED BY <1>1, <1>2, <1>3, <1>4, <1>5 DEF N!Next

\* What a command is classified as.
LEMMA TasksTyped == N!Tasks \subseteq DemandType
<1> SUFFICES ASSUME NEW c \in {"shell", "llm", "gpu", "cpu", "io"}, NEW h \in N!Hints
             PROVE  N!Classify(c, h) \in DemandType
  BY DEF N!Tasks
<1>1. h.ram \in {0, 3} /\ h.node \in SUBSET Node
  BY DEF N!Hints
<1>2. N!Needs(c) \in 0 .. 3
  BY DEF N!Needs
<1> QED BY <1>1, <1>2 DEF N!Classify, DemandType

\* What the scorer is told of a node.
LEMMA SnapshotTyped ==
    ASSUME PlacementInv, NEW n \in N!Runner
    PROVE  N!Snapshot(n) \in SnapshotType
<1> USE PlacementConstants DEF PlacementInv, N!TypeOK, SnapshotType, N!Whole, N!Snapshot
<1>0. tInFlight[n] \in Nat
  OBVIOUS
<1>1. CASE n \in Node
  <2>1. tReport[n] \in ReportType /\ tHealth[n] \in N!Mille
    BY <1>1
  <2> DEFINE used == tReport[n].used
             room == IF 4 > used THEN 4 - used ELSE 0
  <2>2. room \in 0 .. 4
    <3>1. used \in Nat
      BY <2>1 DEF ReportType
    <3> HIDE DEF used
    <3> QED BY <3>1
  <2>3. N!Snapshot(n) = [free |-> room, idle |-> tReport[n].idle, latency |-> 0,
                         vram |-> tReport[n].vram, health |-> tHealth[n],
                         seen |-> tReport[n].seen, inFlight |-> tInFlight[n]]
    BY <1>1 DEF N!IdleOf
  <2> HIDE DEF room
  <2> QED BY <1>0, <2>1, <2>2, <2>3 DEF ReportType
<1>2. CASE n \notin Node
  <2>1. n \in Lender
    BY <1>2 DEF N!Runner
  <2>2. tLent[n] \in {0, 4}
    BY <2>1
  <2> QED BY <1>0, <1>2, <2>2, PlacementRanges
<1> QED BY <1>1, <1>2

\* The curve of the memory that is left.
LEMMA ScoreRAMGrows ==
    ASSUME NEW req \in DemandType, NEW s \in SnapshotType, NEW t \in SnapshotType,
           s.free >= t.free, t.free >= req.needs
    PROVE  /\ N!ScoreRAM(s, req) \in N!Mille
           /\ N!ScoreRAM(t, req) \in N!Mille
           /\ N!ScoreRAM(s, req) >= N!ScoreRAM(t, req)
<1> DEFINE curve == <<47, 378, 881, 989, 999>>
<1>1. /\ curve[1] = 47 /\ curve[2] = 378 /\ curve[3] = 881 /\ curve[4] = 989
      /\ curve[5] = 999
  OBVIOUS
<1>2. \A i \in 1 .. 5 : i = 1 \/ i = 2 \/ i = 3 \/ i = 4 \/ i = 5
  OBVIOUS
<1> HIDE DEF curve
<1>3. \A i, j \in 1 .. 5 : curve[i] \in N!Mille /\ (i >= j => curve[i] >= curve[j])
  BY <1>1, <1>2, PlacementRanges
<1>4. /\ s.free - req.needs + 1 \in 1 .. 5 /\ t.free - req.needs + 1 \in 1 .. 5
      /\ s.free - req.needs + 1 >= t.free - req.needs + 1
  BY DEF DemandType, SnapshotType
<1>5. /\ N!ScoreRAM(s, req) = curve[s.free - req.needs + 1]
      /\ N!ScoreRAM(t, req) = curve[t.free - req.needs + 1]
  BY DEF N!ScoreRAM, curve
<1> DEFINE i == s.free - req.needs + 1
           j == t.free - req.needs + 1
<1> HIDE DEF i, j
<1>6. i \in 1 .. 5 /\ j \in 1 .. 5 /\ i >= j
  BY <1>4 DEF i, j
<1>7. N!ScoreRAM(s, req) = curve[i] /\ N!ScoreRAM(t, req) = curve[j]
  BY <1>5 DEF i, j
<1> QED BY <1>3, <1>6, <1>7

\* Every other curve, and that it turns no advantage into a handicap.
LEMMA ScoresGrow ==
    ASSUME NEW req \in DemandType, NEW s \in SnapshotType, NEW t \in SnapshotType,
           s.idle >= t.idle, s.vram >= t.vram, s.health >= t.health
    PROVE  /\ N!ScoreCPU(s) \in N!Mille /\ N!ScoreCPU(t) \in N!Mille
           /\ N!ScoreCPU(s) >= N!ScoreCPU(t)
           /\ s.idle > t.idle => N!ScoreCPU(s) > N!ScoreCPU(t)
           /\ N!ScoreAffinity(s, req) \in N!Mille /\ N!ScoreAffinity(t, req) \in N!Mille
           /\ N!ScoreAffinity(s, req) >= N!ScoreAffinity(t, req)
           /\ N!ScoreHealth(s) \in N!Mille /\ N!ScoreHealth(t) \in N!Mille
           /\ N!ScoreHealth(s) >= N!ScoreHealth(t)
           /\ N!ScoreLatency(s, req) \in N!Mille
<1>1. /\ s.idle \in N!Percent /\ t.idle \in N!Percent /\ s.vram \in Nat /\ t.vram \in Nat
      /\ s.health \in N!Mille /\ t.health \in N!Mille
  BY DEF SnapshotType
<1>2. /\ N!ScoreCPU(s) \in N!Mille /\ N!ScoreCPU(t) \in N!Mille
      /\ N!ScoreCPU(s) >= N!ScoreCPU(t)
      /\ s.idle > t.idle => N!ScoreCPU(s) > N!ScoreCPU(t)
  <2> DEFINE curve(i) == IF i < 20 THEN i * 5 ELSE i * 10
  <2>1. N!ScoreCPU(s) = curve(s.idle) /\ N!ScoreCPU(t) = curve(t.idle)
    BY DEF N!ScoreCPU
  <2>2. \A i \in N!Percent : curve(i) \in N!Mille
    BY PlacementRanges
  <2>3. \A i, j \in N!Percent : i > j => curve(i) > curve(j)
    BY PlacementRanges
  <2> HIDE DEF curve
  <2>4. s.idle = t.idle \/ s.idle > t.idle
    BY <1>1, PlacementRanges
  <2> QED BY <1>1, <2>1, <2>2, <2>3, <2>4, PlacementRanges
<1>3. /\ N!ScoreAffinity(s, req) \in N!Mille /\ N!ScoreAffinity(t, req) \in N!Mille
      /\ N!ScoreAffinity(s, req) >= N!ScoreAffinity(t, req)
  BY <1>1, PlacementRanges DEF N!ScoreAffinity
<1>4. /\ N!ScoreHealth(s) \in N!Mille /\ N!ScoreHealth(t) \in N!Mille
      /\ N!ScoreHealth(s) >= N!ScoreHealth(t)
  <2> DEFINE curve(i) == IF i < 500 THEN i \div 2 ELSE i
  <2>1. N!ScoreHealth(s) = curve(s.health) /\ N!ScoreHealth(t) = curve(t.health)
    BY DEF N!ScoreHealth
  <2>2. \A i \in N!Mille : curve(i) \in N!Mille
    BY PlacementRanges
  <2>3. \A i, j \in N!Mille : i >= j => curve(i) >= curve(j)
    BY PlacementRanges
  <2> HIDE DEF curve
  <2> QED BY <1>1, <2>1, <2>2, <2>3
<1>5. N!ScoreLatency(s, req) \in N!Mille
  BY PlacementRanges DEF N!ScoreLatency
<1> QED BY <1>2, <1>3, <1>4, <1>5

\* The score is a number with a bound.
LEMMA ScoreTyped ==
    ASSUME NEW req \in DemandType, NEW s \in SnapshotType, s.free >= req.needs
    PROVE  N!Score(s, req) \in Nat /\ N!Score(s, req) <= 20000
<1>1. N!ScoreRAM(s, req) \in N!Mille
  <2>1. s.free >= s.free
    BY DEF SnapshotType
  <2> QED BY <2>1, ScoreRAMGrows
<1>2. /\ N!ScoreCPU(s) \in N!Mille /\ N!ScoreAffinity(s, req) \in N!Mille
      /\ N!ScoreHealth(s) \in N!Mille /\ N!ScoreLatency(s, req) \in N!Mille
  <2>1. s.idle >= s.idle /\ s.vram >= s.vram /\ s.health >= s.health
    BY PlacementRanges DEF SnapshotType
  <2> QED BY <2>1, ScoresGrow
<1>3. \A a, b, c, d, e \in N!Mille :
        6 * a + 4 * b + 5 * c + 3 * d + 2 * e \in Nat
        /\ 6 * a + 4 * b + 5 * c + 3 * d + 2 * e <= 20000
  BY PlacementRanges
<1> QED BY <1>1, <1>2, <1>3 DEF N!Score

\* A node that is better in everything has a better score.
LEMMA ScoreGrows ==
    ASSUME NEW req \in DemandType, NEW s \in SnapshotType, NEW t \in SnapshotType,
           s.free >= t.free, t.free >= req.needs, s.idle > t.idle, s.latency = t.latency,
           s.vram >= t.vram, s.health >= t.health
    PROVE  N!Score(s, req) > N!Score(t, req)
<1>1. /\ N!ScoreRAM(s, req) \in N!Mille /\ N!ScoreRAM(t, req) \in N!Mille
      /\ N!ScoreRAM(s, req) >= N!ScoreRAM(t, req)
  BY ScoreRAMGrows
<1>2. s.idle >= t.idle
  BY PlacementRanges DEF SnapshotType
<1>3. /\ N!ScoreCPU(s) \in N!Mille /\ N!ScoreCPU(t) \in N!Mille
      /\ N!ScoreCPU(s) > N!ScoreCPU(t)
      /\ N!ScoreAffinity(s, req) \in N!Mille /\ N!ScoreAffinity(t, req) \in N!Mille
      /\ N!ScoreAffinity(s, req) >= N!ScoreAffinity(t, req)
      /\ N!ScoreHealth(s) \in N!Mille /\ N!ScoreHealth(t) \in N!Mille
      /\ N!ScoreHealth(s) >= N!ScoreHealth(t)
      /\ N!ScoreLatency(s, req) \in N!Mille
  BY <1>2, ScoresGrow
<1>4. N!ScoreLatency(s, req) = N!ScoreLatency(t, req)
  BY DEF N!ScoreLatency
<1> DEFINE a == N!ScoreRAM(s, req)
           b == N!ScoreCPU(s)
           c == N!ScoreLatency(s, req)
           d == N!ScoreAffinity(s, req)
           e == N!ScoreHealth(s)
           x == N!ScoreRAM(t, req)
           y == N!ScoreCPU(t)
           v == N!ScoreAffinity(t, req)
           w == N!ScoreHealth(t)
<1>5. /\ a \in Nat /\ b \in Nat /\ c \in Nat /\ d \in Nat /\ e \in Nat
      /\ x \in Nat /\ y \in Nat /\ v \in Nat /\ w \in Nat
      /\ a >= x /\ b > y /\ d >= v /\ e >= w
  BY <1>1, <1>3, PlacementRanges
<1>6. /\ N!Score(s, req) = 6 * a + 4 * b + 5 * c + 3 * d + 2 * e
      /\ N!Score(t, req) = 6 * x + 4 * y + 5 * c + 3 * v + 2 * w
  BY <1>4 DEF N!Score
<1> HIDE DEF a, b, c, d, e, x, y, v, w
<1>7. 6 * a + 4 * b + 5 * c + 3 * d + 2 * e > 6 * x + 4 * y + 5 * c + 3 * v + 2 * w
  BY <1>5
<1> QED BY <1>6, <1>7

\* The nodes that may take a task, and what an eligible one has.
Fit(req) == {n \in N!Candidates : N!Eligible(n, N!Snapshot(n), req)}
LEMMA FitTyped ==
    ASSUME PlacementInv, NEW req \in DemandType, NEW n \in Fit(req)
    PROVE  /\ N!Snapshot(n) \in SnapshotType
           /\ N!Score(N!Snapshot(n), req) \in Nat
           /\ N!Score(N!Snapshot(n), req) <= 20000
<1>1. n \in N!Runner
  BY DEF Fit, N!Candidates, N!Runner, PlacementInv, N!TypeOK
<1>2. N!Snapshot(n) \in SnapshotType
  BY <1>1, SnapshotTyped
<1>3. N!Snapshot(n).free >= req.needs
  BY DEF Fit, N!Eligible
<1> QED BY <1>2, <1>3, ScoreTyped

\* Of the nodes that may take a task one has the best score.
LEMMA SomeBest ==
    ASSUME PlacementInv, NEW req \in DemandType, Fit(req) # {}
    PROVE  N!BestNodes(req) # {}
<1> DEFINE score(n) == N!Score(N!Snapshot(n), req)
           scores == {score(n) : n \in Fit(req)}
           most == 20000
<1>1. most \in Nat /\ \A n \in Fit(req) : score(n) \in Nat /\ score(n) <= most
  BY FitTyped
<1> HIDE DEF score, most
<1>2. scores \in SUBSET Nat /\ scores # {} /\ \A x \in scores : x <= most
  BY <1>1
<1> HIDE DEF scores
<1>3. PICK best \in scores : \A x \in scores : best >= x
  BY <1>1, <1>2, GreatestNumber
<1>4. PICK n \in Fit(req) : best = score(n)
  BY <1>3 DEF scores
<1>5. \A m \in Fit(req) : score(n) >= score(m)
  BY <1>3, <1>4 DEF scores
<1>6. n \in N!BestNodes(req)
  BY <1>5 DEF N!BestNodes, Fit, score
<1> QED BY <1>6

\* No task goes to a member that another one beats.
LEMMA NonePassedOver == PlacementInv => N!NoBetterPassedOver
<1> SUFFICES ASSUME PlacementInv, NEW req \in N!Tasks,
                    NEW m \in N!SelectNode(req, {}) \cap N!Candidates \cap Node,
                    NEW n \in N!Candidates \cap Node,
                    N!Eligible(n, N!Snapshot(n), req), N!Beats(n, m)
             PROVE  FALSE
  BY DEF N!NoBetterPassedOver
<1>1. req \in DemandType
  BY TasksTyped
<1>2. n \in Fit(req)
  BY DEF Fit
<1>3. m \in N!BestNodes(req)
  <2>1. N!BestNodes(req) # {}
    BY <1>1, <1>2, SomeBest
  <2> QED BY <2>1 DEF N!SelectNode
<1>4. m \in Fit(req) /\ N!Score(N!Snapshot(m), req) >= N!Score(N!Snapshot(n), req)
  BY <1>2, <1>3 DEF N!BestNodes, Fit
<1> DEFINE s == N!Snapshot(n)
           t == N!Snapshot(m)
<1>5. /\ s \in SnapshotType /\ t \in SnapshotType
      /\ N!Score(s, req) \in Nat /\ N!Score(s, req) <= 20000 /\ N!Score(t, req) \in Nat
  BY <1>1, <1>2, <1>4, FitTyped
<1>6. t.free >= req.needs
  BY <1>4 DEF Fit, N!Eligible
<1>7. /\ s.free >= t.free /\ s.idle > t.idle /\ s.latency = t.latency
      /\ s.vram >= t.vram /\ s.health >= t.health
  <2>1. tReport[n] \in ReportType /\ tReport[m] \in ReportType
    BY PlacementConstants DEF PlacementInv, N!TypeOK
  <2> QED BY <2>1, PlacementRanges DEF N!Snapshot, N!IdleOf, N!Beats, N!Whole, ReportType
<1>8. N!Score(s, req) > N!Score(t, req)
  BY <1>1, <1>5, <1>6, <1>7, ScoreGrows
<1> QED BY <1>4, <1>5, <1>8

\* A node that the caller prefers gets the task when it is online.
LEMMA PreferredTaken == PlacementInv => N!PreferredIsTaken
<1> SUFFICES ASSUME PlacementInv, NEW req \in N!Tasks, NEW n \in tOnline
             PROVE  N!SelectNode(req, {n}) = {n}
  BY DEF N!PreferredIsTaken
<1> DEFINE asked == [req EXCEPT !.allowed = {n}]
<1>1. req \in DemandType /\ n \in Node
  BY TasksTyped DEF PlacementInv, N!TypeOK
<1>2. asked \in DemandType /\ asked.allowed = {n}
  BY <1>1 DEF DemandType
<1> HIDE DEF asked
<1>3. N!BestNodes(asked) \subseteq {n}
  BY <1>2 DEF N!BestNodes, N!Eligible
<1>4. N!SelectNode(req, {n}) = IF N!BestNodes(asked) # {} THEN N!BestNodes(asked)
                               ELSE N!Fallback({n})
  BY DEF N!SelectNode, asked
<1>5. N!Fallback({n}) = {n}
  BY DEF N!Fallback
<1> QED BY <1>3, <1>4, <1>5

-----------------------------------------------------------------------------
(* The rules of a node *)

RulesTyped ==
    /\ rSetting \in X!Setting
    /\ rNode \in Segment \cup {NoNode}
    /\ \E k \in 0 .. MaxPolicies : rPolicies \in [1 .. k -> Policy]
RulesInv ==
    /\ RulesTyped
    /\ rCompiled => rRuleSet = [rules |-> X!SegmentRules \cup X!PolicyRules \cup X!ManagementRules,
                                bands |-> X!Bands]

\* What the assumption says of the constants of the rules.
LEMMA RulesConstants == Policy \subseteq X!AnyPolicy /\ MaxPolicies \in Nat /\ Rates \subseteq Nat
BY PartsAssumption DEF X!RulesAssumption

\* The compiler begins with inputs of their types.
LEMMA RulesStart == X!Init => RulesInv
<1> SUFFICES ASSUME X!Init PROVE RulesInv
  OBVIOUS
<1>1. rPolicies \in UNION {[1 .. k -> Policy] : k \in 0 .. MaxPolicies}
  BY DEF X!Init, X!BoundedSeq, X!SeqOf
<1> QED BY <1>1 DEF X!Init, RulesInv, RulesTyped

\* The rule set is what is compiled from the inputs, which stay.
LEMMA RulesInvStays == RulesInv /\ [X!Next]_(X!vars) => RulesInv'
<1> SUFFICES ASSUME RulesInv, [X!Next]_(X!vars) PROVE RulesInv'
  OBVIOUS
<1>1. UNCHANGED <<rSetting, rNode, rPolicies>>
  BY DEF X!Next, X!ComputeRuleSet, X!vars
<1>2. /\ X!SegmentRules' = X!SegmentRules /\ X!PolicyRules' = X!PolicyRules
      /\ X!ManagementRules' = X!ManagementRules /\ X!Bands' = X!Bands
  BY <1>1 DEF X!SegmentRules, X!PolicyRules, X!Applies, X!ManagementRules, X!Bands, X!MaxBps,
              X!Shapers, X!RangeOf
<1>3. RulesTyped'
  BY <1>1 DEF RulesInv, RulesTyped
<1>4. CASE X!ComputeRuleSet
  BY <1>2, <1>3, <1>4 DEF X!ComputeRuleSet, RulesInv
<1>5. CASE UNCHANGED X!vars
  BY <1>2, <1>3, <1>5 DEF X!vars, RulesInv
<1> QED BY <1>4, <1>5 DEF X!Next

\* Every rule but the management rules has a higher number than those.
LEMMA OthersComeLater ==
    ASSUME RulesInv, NEW r \in X!SegmentRules \cup X!PolicyRules
    PROVE  r.prio \in Int /\ r.prio > 1
<1>1. CASE r \in X!SegmentRules
  <2>1. CASE rNode = NoNode
    <3>1. r = X!Rule(900, "deny", "any", {}, "", FALSE)
      BY <1>1, <2>1 DEF X!SegmentRules
    <3>2. r.prio = 900
      BY <3>1, Zenon DEF X!Rule
    <3> QED BY <3>2
  <2>2. CASE rNode # NoNode
    <3>1. CASE r = X!Rule(500, "deny", "internet", {}, "", FALSE)
      <4>1. r.prio = 500
        BY <3>1, Zenon DEF X!Rule
      <4> QED BY <4>1
    <3>2. CASE \E s \in Segment : r = X!Rule(400, "deny", X!RangeOf(s), {}, "", FALSE)
      <4>1. PICK s \in Segment : r = X!Rule(400, "deny", X!RangeOf(s), {}, "", FALSE)
        BY <3>2, Zenon
      <4>2. r.prio = 400
        BY <4>1, Zenon DEF X!Rule
      <4> QED BY <4>2
    <3>3. CASE r = X!Rule(300, "deny", "any", {X!FabricApi, X!FabricRelay, X!Ollama}, "", FALSE)
      <4>1. r.prio = 300
        BY <3>3, Zenon DEF X!Rule
      <4> QED BY <4>1
    <3> QED BY <1>1, <2>2, <3>1, <3>2, <3>3 DEF X!SegmentRules
  <2> QED BY <2>1, <2>2
<1>2. CASE r \in X!PolicyRules
  <2>1. PICK p \in X!ToSet(rPolicies) : r.prio = X!ComputePriority(p)
    BY <1>2 DEF X!PolicyRules, X!Rule
  <2> DEFINE host == IF p.host THEN 400 ELSE 0
             port == IF p.port # 0 THEN 200 ELSE 0
             seg == IF p.seg THEN 100 ELSE 0
             proto == IF p.proto # "" THEN 50 ELSE 0
             internet == IF p.internet THEN 30 ELSE 0
  <2>2. X!ComputePriority(p) = 1000 - host - port - seg - proto - internet
    BY DEF X!ComputePriority, X!Weight
  <2>4. /\ host \in {0, 400} /\ port \in {0, 200} /\ seg \in {0, 100} /\ proto \in {0, 50}
        /\ internet \in {0, 30}
    OBVIOUS
  <2> HIDE DEF host, port, seg, proto, internet
  <2>5. r.prio = 1000 - host - port - seg - proto - internet
    BY <2>1, <2>2
  <2>6. 1000 - host - port - seg - proto - internet > 1
    BY <2>4
  <2> QED BY <2>4, <2>5, <2>6
<1> QED BY <1>1, <1>2

\* No rules lock the administrator out.
LEMMA NeverLockedOut == RulesInv => X!NoLockout
<1> SUFFICES ASSUME RulesInv, rCompiled, NEW packet \in X!Management
             PROVE  X!Verdicts(packet) = {"allow"}
  BY DEF X!NoLockout
<1> DEFINE hits == {r \in rRuleSet.rules : X!Nft(r, packet)}
           first == {h \in hits : \A o \in hits : h.prio <= o.prio}
<1>1. rRuleSet.rules = X!SegmentRules \cup X!PolicyRules \cup X!ManagementRules
  BY DEF RulesInv
<1>2. \A r \in X!ManagementRules : r.prio = 1 /\ r.action = "allow"
  BY DEF X!ManagementRules, X!Rule
<1>3. PICK m \in X!ManagementRules : X!Nft(m, packet)
  <2> DEFINE m == X!Rule(1, "allow", "any", {packet.port}, packet.proto, FALSE)
  <2>1. m \in X!ManagementRules
    BY DEF X!Management, X!ManagementRules
  <2>2. packet.proto # ""
    BY DEF X!Management, X!Packet
  <2>3. X!Nft(m, packet)
    BY <2>2 DEF X!Nft, X!NftProto, X!Rule
  <2> QED BY <2>1, <2>3
<1>4. m \in hits
  BY <1>1, <1>3
<1>5. \A r \in hits : r.prio \in Int /\ r.prio >= 1
  BY <1>1, <1>2, OthersComeLater
<1>6. m \in first
  BY <1>2, <1>4, <1>5
<1>7. ASSUME NEW h \in first PROVE h.action = "allow"
  <2>1. h.prio <= 1 /\ h \in rRuleSet.rules
    BY <1>2, <1>3, <1>4
  <2>2. h \in X!ManagementRules
    BY <1>1, <2>1, OthersComeLater
  <2> QED BY <1>2, <2>2
<1>8. X!Verdicts(packet) = {r.action : r \in first}
  BY DEF X!Verdicts
<1> HIDE DEF first
<1> QED BY <1>2, <1>3, <1>6, <1>7, <1>8

\* The rate a policy gives a band is a number.
LEMMA LimitTyped == ASSUME RulesInv, NEW b \in 1 .. 4 PROVE X!MaxBps(b) \in Nat
<1>1. PICK k \in Nat : rPolicies \in [1 .. k -> Policy]
  BY RulesConstants DEF RulesInv, RulesTyped
<1>2. CASE X!Shapers(b) # {}
  <2>1. X!Shapers(b) \subseteq 1 .. k
    BY <1>1 DEF X!Shapers
  <2>2. \E x \in X!Shapers(b) : \A y \in X!Shapers(b) : x >= y
    <3>1. X!Shapers(b) \in SUBSET Nat /\ \A y \in X!Shapers(b) : y <= k
      BY <2>1
    <3> QED BY <1>2, <3>1, GreatestNumber
  <2>3. X!Max(X!Shapers(b)) \in 1 .. k
    BY <2>1, <2>2 DEF X!Max
  <2>4. rPolicies[X!Max(X!Shapers(b))] \in X!AnyPolicy
    BY <1>1, <2>3, RulesConstants
  <2> QED BY <1>2, <2>4 DEF X!MaxBps, X!AnyPolicy
<1> QED BY <1>2 DEF X!MaxBps

\* No band of a node may send more than its segment.
LEMMA BandsWithin == RulesInv => X!WithinSegment
<1> SUFFICES ASSUME RulesInv, rCompiled, rNode # NoNode, rSetting.bw > 0, NEW b \in 1 .. 4
             PROVE  rRuleSet.bands[b] \in 1 .. rSetting.bw
  BY DEF X!WithinSegment
<1>1. rRuleSet.bands[b] = X!Cap(X!MaxBps(b), rSetting.bw)
  BY DEF RulesInv, X!Bands
<1>2. rSetting.bw \in Nat
  BY RulesConstants DEF RulesInv, RulesTyped, X!Setting
<1> DEFINE limit == X!MaxBps(b)
           bw == rSetting.bw
<1>3. limit \in Nat /\ bw \in Nat /\ bw > 0
  BY <1>2, LimitTyped
<1> HIDE DEF limit, bw
<1>4. X!Cap(limit, bw) \in 1 .. bw
  BY <1>3 DEF X!Cap
<1> QED BY <1>1, <1>4 DEF limit, bw

-----------------------------------------------------------------------------
(* The sweep of the subnets *)

LEMMA SweepConstants ==
    /\ ChanSize \in Nat /\ Space \in Nat \ {0}
    /\ \A s \in Subnets :
         s.host \in 0 .. Space - 1 /\ s.size \in 1 .. Space /\ Space % s.size = 0
BY PartsAssumption DEF PartsAssumption, Y!SweepAssumption

\* A multiple of m above a number is at least m above the multiple below it.
LEMMA NextMultiple ==
    ASSUME NEW m \in Nat \ {0}, NEW n \in Nat, NEW h \in 0 .. n - 1, n % m = 0
    PROVE  h - (h % m) \in Nat /\ h - (h % m) + m <= n
<1>1. h % m \in 0 .. m - 1 /\ h = m * (h \div m) + (h % m) /\ h \div m \in Nat
  <2>1. h \in Nat
    OBVIOUS
  <2>2. h % m \in 0 .. m - 1
    BY <2>1, SMT
  <2>3. h = m * (h \div m) + (h % m)
    BY <2>1, SMT
  <2>4. h \div m \in Nat
    BY <2>1, SMT
  <2> QED BY <2>2, <2>3, <2>4
<1>2. n = m * (n \div m) /\ n \div m \in Nat
  BY SMT
<1> DEFINE a == h \div m
           b == n \div m
<1>3. a < b
  <2>1. m * a < m * b
    BY <1>1, <1>2
  <2> HIDE DEF a, b
  <2>2. a \in Nat /\ b \in Nat
    BY <1>1, <1>2 DEF a, b
  <2>3. b <= a => m * b <= m * a
    BY <2>2, SMT
  <2>4. m * a \in Nat /\ m * b \in Nat
    BY <2>2, SMT
  <2> QED BY <2>1, <2>2, <2>3, <2>4
<1>4. m * (a + 1) <= m * b
  <2> HIDE DEF a, b
  <2>1. a \in Nat /\ b \in Nat
    BY <1>1, <1>2 DEF a, b
  <2> QED BY <1>3, <2>1, SMT
<1>5. m * (a + 1) = m * a + m
  BY <1>1, SMT
<1>6. h - (h % m) = m * a
  BY <1>1, SMT
<1>7. m * a \in Nat
  BY <1>1, SMT
<1> QED BY <1>2, <1>4, <1>5, <1>6, <1>7

LEMMA SubnetInside ==
    ASSUME NEW s \in Subnets
    PROVE  /\ Y!Network(s) \in Y!Addresses /\ Y!Broadcast(s) \in Y!Addresses
           /\ s.size > 1 => Y!Network(s) < Y!Broadcast(s)
<1>1. s.size \in Nat \ {0} /\ Space \in Nat /\ s.host \in 0 .. Space - 1 /\ Space % s.size = 0
  BY SweepConstants
<1>2. s.host - (s.host % s.size) \in Nat /\ s.host - (s.host % s.size) + s.size <= Space
  BY <1>1, NextMultiple
<1> QED BY <1>1, <1>2 DEF Y!Network, Y!Broadcast, Y!Addresses

LEMMA NextAddress ==
    ASSUME NEW a \in Y!Addresses
    PROVE  Y!After(a) \in Y!Addresses /\ (a + 1 \in Y!Addresses => Y!After(a) = a + 1)
<1>1. Space \in Nat \ {0} /\ a \in Nat
  BY SweepConstants DEF Y!Addresses
<1>2. (a + 1) % Space \in 0 .. Space - 1
  BY <1>1, SMT
<1>3. a + 1 \in 0 .. Space - 1 => (a + 1) % Space = a + 1
  BY <1>1, SMT
<1> QED BY <1>2, <1>3 DEF Y!After, Y!Addresses

\* What joins a channel is in it, and what leaves it is what was in it.
LEMMA Channelled ==
    ASSUME NEW S, NEW s \in Seq(S)
    PROVE  /\ \A x \in S : Y!ToSet(Append(s, x)) = Y!ToSet(s) \cup {x}
           /\ s # <<>> => /\ Y!ToSet(s) = {Head(s)} \cup Y!ToSet(Tail(s))
                          /\ Head(s) \in S /\ Tail(s) \in Seq(S) /\ Len(Tail(s)) = Len(s) - 1
           /\ Y!ToSet(s) \subseteq S
<1>1. ASSUME NEW x \in S PROVE Y!ToSet(Append(s, x)) = Y!ToSet(s) \cup {x}
  <2> DEFINE t == Append(s, x)
  <2>1. t \in Seq(S) /\ DOMAIN t = DOMAIN s \cup {Len(s) + 1} /\ t[Len(s) + 1] = x
    BY <1>1
  <2>2. \A i \in DOMAIN s : t[i] = s[i]
    BY <1>1
  <2> HIDE DEF t
  <2>3. Y!ToSet(t) = Y!ToSet(s) \cup {x}
    BY <2>1, <2>2 DEF Y!ToSet
  <2> QED BY <2>3 DEF t
<1>2. ASSUME s # <<>> PROVE Y!ToSet(s) = {Head(s)} \cup Y!ToSet(Tail(s))
  <2>1. \A i \in DOMAIN s : i = 1 \/ (i - 1 \in DOMAIN Tail(s) /\ Tail(s)[i - 1] = s[i])
    BY <1>2
  <2>2. \A i \in DOMAIN Tail(s) : i + 1 \in DOMAIN s /\ Tail(s)[i] = s[i + 1]
    BY <1>2
  <2>3. 1 \in DOMAIN s /\ Head(s) = s[1]
    BY <1>2
  <2>4. Y!ToSet(s) \subseteq {Head(s)} \cup Y!ToSet(Tail(s))
    BY <2>1, <2>3 DEF Y!ToSet
  <2>5. {Head(s)} \cup Y!ToSet(Tail(s)) \subseteq Y!ToSet(s)
    BY <2>2, <2>3 DEF Y!ToSet
  <2> QED BY <2>4, <2>5
<1>3. ASSUME s # <<>> PROVE Head(s) \in S /\ Tail(s) \in Seq(S) /\ Len(Tail(s)) = Len(s) - 1
  BY <1>3
<1>4. Y!ToSet(s) \subseteq S
  BY DEF Y!ToSet
<1> QED BY <1>1, <1>2, <1>3, <1>4

\* No subnet that is swept has a single address.
NoSingle == \A s \in Y!Small : s.size > 1

\* The walk is in a subnet that it has not reached the end of.
WalkInside ==
    sScan = "walk" => \E s \in Y!Small \ sTodo :
        Y!Network(s) <= sWalk.at /\ sWalk.at < sWalk.end /\ sWalk.end = Y!Broadcast(s)

\* Every host of a subnet that was looked at was handed to the workers, but for those ahead.
HandedOver ==
    ~sCancelled => \A s \in Y!Small \ sTodo : \A a \in Y!HostsOf(s) :
        \/ a \in sSwept \cup Y!ToSet(sIpChan)
        \/ sScan = "walk" /\ sWalk.end = Y!Broadcast(s) /\ sWalk.at < a

\* A worker leaves when all was taken, or the request is over.
LeftLast ==
    /\ \A w \in sOpened : sWorker[w] # "start"
    /\ ~sCancelled => \A w \in sOpened :
         sWorker[w] = "gone" => sIpChan = <<>> /\ sScan \notin {"next", "walk"}
    /\ sScan = "done" => \A w \in Sweeper : sWorker[w] = "gone"

SweepInv ==
    /\ Y!TypeOK /\ LeftLast
    /\ sScan \notin {"next", "walk"} => sTodo = {}
    /\ NoSingle => /\ WalkInside /\ HandedOver
                   /\ sSwept \cup Y!ToSet(sIpChan) \subseteq Y!Hosts

LEMMA SweepStart == Y!Init => SweepInv
<1> SUFFICES ASSUME Y!Init PROVE SweepInv
  OBVIOUS
<1>1. Y!TypeOK
  <2>1. 0 \in Y!Addresses /\ ChanSize \in Nat
    BY SweepConstants DEF Y!Addresses
  <2>2. [at |-> 0, end |-> 0] \in [at : Y!Addresses, end : Y!Addresses]
    BY <2>1
  <2>3. <<>> \in Seq(Y!Addresses) /\ Len(<<>>) <= ChanSize
    BY <2>1
  <2> QED BY <2>2, <2>3 DEF Y!Init, Y!TypeOK
<1>2. Y!ToSet(<<>>) = {}
  BY DEF Y!ToSet
<1>3. sTodo = Subnets /\ Y!Small \subseteq Subnets
  BY DEF Y!Init, Y!Small
<1> QED BY <1>1, <1>2, <1>3 DEF Y!Init, SweepInv, LeftLast, WalkInside, HandedOver

LEMMA SweptWalks ==
    ASSUME SweepInv, Y!NextSubnet PROVE SweepInv'
<1>1. PICK s \in sTodo :
        /\ sTodo' = sTodo \ {s}
        /\ IF s \in Y!Small
           THEN sScan' = "walk" /\ sWalk' = [at |-> Y!Network(s), end |-> Y!Broadcast(s)]
           ELSE UNCHANGED <<sScan, sWalk>>
  BY DEF Y!NextSubnet
<1>2. sScan = "next" /\ UNCHANGED <<sIpChan, sWorker, sOpened, sSwept, sCancelled>>
  BY DEF Y!NextSubnet
<1>3. s \in Subnets
  BY DEF SweepInv, Y!TypeOK
<1>4. Y!TypeOK'
  <2>1. Y!TypeOK
    BY DEF SweepInv
  <2>2. [at |-> Y!Network(s), end |-> Y!Broadcast(s)] \in [at : Y!Addresses, end : Y!Addresses]
    BY <1>3, SubnetInside
  <2>3. sWalk' \in [at : Y!Addresses, end : Y!Addresses] /\ sTodo' \subseteq Subnets
    BY <1>1, <2>1, <2>2 DEF Y!TypeOK
  <2>4. sScan' \in {"next", "walk"}
    BY <1>1, <1>2
  <2> QED BY <1>2, <2>1, <2>3, <2>4 DEF Y!TypeOK
<1>5. LeftLast'
  BY <1>1, <1>2 DEF SweepInv, LeftLast
<1>6. sScan' \in {"next", "walk"}
  BY <1>1, <1>2
<1>7. ASSUME NoSingle PROVE WalkInside'
  <2>1. CASE s \in Y!Small
    <3>1. s.size > 1
      BY <1>7, <2>1 DEF NoSingle
    <3>2. Y!Network(s) \in Int /\ Y!Network(s) < Y!Broadcast(s)
      BY <1>3, <3>1, SubnetInside DEF Y!Addresses
    <3> QED BY <1>1, <2>1, <3>2 DEF WalkInside
  <2>2. CASE s \notin Y!Small
    BY <1>1, <1>2, <2>2 DEF WalkInside
  <2> QED BY <2>1, <2>2
<1>8. ASSUME NoSingle PROVE HandedOver'
  <2> SUFFICES ASSUME ~sCancelled, NEW r \in Y!Small \ sTodo', NEW a \in Y!HostsOf(r)
               PROVE  \/ a \in sSwept \cup Y!ToSet(sIpChan)
                      \/ sScan' = "walk" /\ sWalk'.end = Y!Broadcast(r) /\ sWalk'.at < a
    BY <1>2 DEF HandedOver
  <2>1. CASE r = s
    <3>1. Y!Network(s) < a
      BY <1>3, <2>1, SubnetInside DEF Y!HostsOf, Y!Addresses
    <3> QED BY <1>1, <2>1, <3>1
  <2>2. CASE r # s
    BY <1>1, <1>2, <1>8, <2>2 DEF SweepInv, HandedOver
  <2> QED BY <2>1, <2>2
<1> QED BY <1>1, <1>2, <1>4, <1>5, <1>6, <1>7, <1>8 DEF SweepInv

\* An address is handed to the workers, or the request is over and it may not be.
LEMMA SweptHands ==
    ASSUME SweepInv, NEW ip \in Y!Addresses, Y!Hand(ip)
    PROVE  /\ sIpChan' \in Seq(Y!Addresses) /\ Len(sIpChan') <= ChanSize
           /\ Y!ToSet(sIpChan') \subseteq Y!ToSet(sIpChan) \cup {ip}
           /\ Y!ToSet(sIpChan) \subseteq Y!ToSet(sIpChan')
           /\ ~sCancelled => ip \in Y!ToSet(sIpChan')
<1>1. sIpChan \in Seq(Y!Addresses) /\ Len(sIpChan) <= ChanSize /\ ChanSize \in Nat
  BY SweepConstants DEF SweepInv, Y!TypeOK
<1>2. CASE sCancelled /\ UNCHANGED sIpChan
  BY <1>1, <1>2
<1>3. CASE Len(sIpChan) < ChanSize /\ sIpChan' = Append(sIpChan, ip)
  <2>1. sIpChan' \in Seq(Y!Addresses) /\ Len(sIpChan') = Len(sIpChan) + 1
    BY <1>1, <1>3
  <2>2. Y!ToSet(sIpChan') = Y!ToSet(sIpChan) \cup {ip}
    BY <1>1, <1>3, Channelled
  <2>3. Len(sIpChan) \in Nat
    BY <1>1
  <2> QED BY <1>1, <1>3, <2>1, <2>2, <2>3
<1> QED BY <1>2, <1>3 DEF Y!Hand

LEMMA SweptIterates ==
    ASSUME SweepInv, Y!Iterate PROVE SweepInv'
<1> DEFINE next == Y!After(sWalk.at)
<1>1. /\ sScan = "walk" /\ sWalk' = [sWalk EXCEPT !.at = next]
      /\ UNCHANGED <<sTodo, sWorker, sOpened, sSwept, sCancelled>>
  BY DEF Y!Iterate
<1>2. IF next = sWalk.end THEN sScan' = "next" /\ UNCHANGED sIpChan
      ELSE sScan' = "walk" /\ Y!Hand(next)
  BY DEF Y!Iterate
<1>3. Y!TypeOK /\ sWalk.at \in Y!Addresses /\ sWalk.end \in Y!Addresses
  BY DEF SweepInv, Y!TypeOK
<1>4. next \in Y!Addresses
  BY <1>3, NextAddress
<1>5. /\ sWalk' \in [at : Y!Addresses, end : Y!Addresses]
      /\ sWalk'.at = next /\ sWalk'.end = sWalk.end
  BY <1>1, <1>3, <1>4 DEF Y!TypeOK
<1> HIDE DEF next
<1>6. /\ sIpChan' \in Seq(Y!Addresses) /\ Len(sIpChan') <= ChanSize
      /\ Y!ToSet(sIpChan') \subseteq Y!ToSet(sIpChan) \cup {next}
      /\ Y!ToSet(sIpChan) \subseteq Y!ToSet(sIpChan')
      /\ ~sCancelled /\ next # sWalk.end => next \in Y!ToSet(sIpChan')
      /\ next = sWalk.end => Y!ToSet(sIpChan') = Y!ToSet(sIpChan)
  BY <1>2, <1>3, <1>4, SweptHands DEF Y!TypeOK
<1>7. sScan' \in {"next", "walk"}
  BY <1>2
<1>8. Y!TypeOK'
  BY <1>1, <1>3, <1>5, <1>6, <1>7 DEF Y!TypeOK
<1>9. LeftLast'
  BY <1>1, <1>7 DEF SweepInv, LeftLast
<1>10. ASSUME NoSingle
       PROVE WalkInside' /\ HandedOver' /\ sSwept' \cup Y!ToSet(sIpChan') \subseteq Y!Hosts
  <2>1. PICK s \in Y!Small \ sTodo :
          Y!Network(s) <= sWalk.at /\ sWalk.at < sWalk.end /\ sWalk.end = Y!Broadcast(s)
    BY <1>1, <1>10 DEF SweepInv, WalkInside
  <2>2. Y!Network(s) \in Int /\ Y!Broadcast(s) \in Int /\ sWalk.at \in Int
    BY <1>3, SubnetInside DEF Y!Small, Y!Addresses
  <2>3. next = sWalk.at + 1
    <3>1. sWalk.at + 1 \in Y!Addresses
      BY <1>3, <2>1, SweepConstants DEF Y!Addresses
    <3> QED BY <1>3, <3>1, NextAddress DEF next
  <2>4. WalkInside'
    <3>1. CASE next = sWalk.end
      BY <1>2, <3>1 DEF WalkInside
    <3>2. CASE next # sWalk.end
      BY <1>1, <1>5, <2>1, <2>2, <2>3, <3>2 DEF WalkInside
    <3> QED BY <3>1, <3>2
  <2>5. HandedOver'
    <3> SUFFICES ASSUME ~sCancelled, NEW r \in Y!Small \ sTodo, NEW a \in Y!HostsOf(r)
                 PROVE  \/ a \in sSwept \cup Y!ToSet(sIpChan')
                        \/ sScan' = "walk" /\ sWalk'.end = Y!Broadcast(r) /\ sWalk'.at < a
      BY <1>1 DEF HandedOver
    <3>1. CASE a \in sSwept \cup Y!ToSet(sIpChan)
      BY <1>6, <3>1
    <3>2. CASE sWalk.end = Y!Broadcast(r) /\ sWalk.at < a
      <4>1. a \in Int /\ a < Y!Broadcast(r)
        BY SubnetInside DEF Y!HostsOf, Y!Small, Y!Addresses
      <4>2. next < sWalk.end
        BY <2>1, <2>2, <2>3, <3>2, <4>1
      <4>3. CASE a = next
        BY <1>6, <4>2, <4>3, <2>2, <2>3
      <4>4. CASE next < a
        BY <1>2, <1>5, <3>2, <4>2, <4>4, <2>2, <2>3
      <4> QED BY <2>2, <2>3, <3>2, <4>1, <4>3, <4>4
    <3> QED BY <1>10, <3>1, <3>2 DEF SweepInv, HandedOver
  <2>6. next # sWalk.end => next \in Y!Hosts
    <3>1. next # sWalk.end => next \in Y!HostsOf(s)
      BY <2>1, <2>2, <2>3 DEF Y!HostsOf
    <3> QED BY <3>1 DEF Y!Hosts
  <2>7. sSwept' \cup Y!ToSet(sIpChan') \subseteq Y!Hosts
    BY <1>1, <1>6, <1>10, <2>6 DEF SweepInv
  <2> QED BY <2>4, <2>5, <2>7
<1> QED BY <1>7, <1>8, <1>9, <1>10 DEF SweepInv

LEMMA SweptTakes ==
    ASSUME SweepInv, NEW w \in Sweeper, Y!Take(w) PROVE SweepInv'
<1>1. /\ sWorker[w] = "ready" /\ sIpChan # <<>> /\ sIpChan' = Tail(sIpChan)
      /\ UNCHANGED <<sTodo, sWalk, sScan, sOpened, sCancelled>>
  BY DEF Y!Take
<1>2. \/ sCancelled /\ sWorker' = [sWorker EXCEPT ![w] = "gone"] /\ UNCHANGED sSwept
      \/ ~sCancelled /\ sSwept' = sSwept \cup {Head(sIpChan)} /\ UNCHANGED sWorker
  BY DEF Y!Take
<1>3. Y!TypeOK /\ sIpChan \in Seq(Y!Addresses) /\ Len(sIpChan) <= ChanSize /\ ChanSize \in Nat
  BY SweepConstants DEF SweepInv, Y!TypeOK
<1>4. /\ Y!ToSet(sIpChan) = {Head(sIpChan)} \cup Y!ToSet(sIpChan')
      /\ Head(sIpChan) \in Y!Addresses /\ sIpChan' \in Seq(Y!Addresses)
      /\ Len(sIpChan') <= ChanSize
  <2>1. /\ Y!ToSet(sIpChan) = {Head(sIpChan)} \cup Y!ToSet(Tail(sIpChan))
        /\ Head(sIpChan) \in Y!Addresses /\ Tail(sIpChan) \in Seq(Y!Addresses)
        /\ Len(Tail(sIpChan)) = Len(sIpChan) - 1
    BY <1>1, <1>3, Channelled
  <2> QED BY <1>1, <1>3, <2>1
<1>5. /\ sWorker' \in [Sweeper -> {"start", "ready", "gone"}]
      /\ \A v \in Sweeper : \/ sWorker'[v] = sWorker[v]
                            \/ v = w /\ sCancelled /\ sWorker'[v] = "gone"
  BY <1>2, <1>3 DEF Y!TypeOK
<1>6. sSwept' \subseteq Y!Addresses
  BY <1>2, <1>3, <1>4 DEF Y!TypeOK
<1>7. Y!TypeOK'
  BY <1>1, <1>3, <1>4, <1>5, <1>6 DEF Y!TypeOK
<1>8. LeftLast'
  <2>1. sOpened \subseteq Sweeper
    BY <1>3 DEF Y!TypeOK
  <2> QED BY <1>1, <1>5, <2>1 DEF SweepInv, LeftLast
<1>9. /\ sSwept' \cup Y!ToSet(sIpChan') \subseteq sSwept \cup Y!ToSet(sIpChan)
      /\ ~sCancelled => sSwept \cup Y!ToSet(sIpChan) \subseteq sSwept' \cup Y!ToSet(sIpChan')
  BY <1>2, <1>4
<1>10. ASSUME NoSingle
       PROVE WalkInside' /\ HandedOver' /\ sSwept' \cup Y!ToSet(sIpChan') \subseteq Y!Hosts
  BY <1>1, <1>9, <1>10 DEF SweepInv, WalkInside, HandedOver
<1> QED BY <1>1, <1>7, <1>8, <1>10 DEF SweepInv

\* The steps that touch neither the walk nor what is handed over.
LEMMA SweptStays ==
    ASSUME SweepInv, UNCHANGED <<sTodo, sWalk, sIpChan, sSwept>>, Y!TypeOK', LeftLast',
           sScan' = "walk" <=> sScan = "walk",
           sScan' \notin {"next", "walk"} => sTodo = {}, sCancelled => sCancelled'
    PROVE  SweepInv'
<1>1. NoSingle => WalkInside'
  BY DEF SweepInv, WalkInside
<1>2. NoSingle => HandedOver'
  BY DEF SweepInv, HandedOver
<1> QED BY <1>1, <1>2 DEF SweepInv

LEMMA SweepInvStays == SweepInv /\ [Y!Next]_sweeping => SweepInv'
<1> SUFFICES ASSUME SweepInv, [Y!Next]_sweeping PROVE SweepInv'
  OBVIOUS
<1>1. Y!TypeOK
  BY DEF SweepInv
<1>2. CASE Y!Close
  <2>1. sScan = "next" /\ sScan' = "closed" /\ sTodo = {}
        /\ UNCHANGED <<sTodo, sWalk, sIpChan, sWorker, sOpened, sSwept, sCancelled>>
    BY <1>2 DEF Y!Close
  <2>2. Y!TypeOK' /\ LeftLast'
    BY <1>1, <2>1 DEF SweepInv, Y!TypeOK, LeftLast
  <2> QED BY <2>1, <2>2, SweptStays
<1>3. CASE Y!Cancel
  <2>1. sCancelled' = TRUE
        /\ UNCHANGED <<sTodo, sWalk, sScan, sIpChan, sWorker, sOpened, sSwept>>
    BY <1>3 DEF Y!Cancel
  <2>2. Y!TypeOK' /\ LeftLast'
    BY <1>1, <2>1 DEF SweepInv, Y!TypeOK, LeftLast
  <2> QED BY <2>1, <2>2, SweptStays DEF SweepInv
<1>4. CASE Y!Return
  <2>1. sScan = "closed" /\ sScan' \in {"done", "timed out", "cancelled"}
        /\ (sScan' = "done" => \A w \in Sweeper : sWorker[w] = "gone")
        /\ UNCHANGED <<sTodo, sWalk, sIpChan, sWorker, sOpened, sSwept, sCancelled>>
    BY <1>4 DEF Y!Return
  <2>2. Y!TypeOK' /\ LeftLast'
    BY <1>1, <2>1 DEF SweepInv, Y!TypeOK, LeftLast
  <2> QED BY <2>1, <2>2, SweptStays DEF SweepInv
<1>5. ASSUME NEW w \in Sweeper, Y!Open(w) PROVE SweepInv'
  <2>1. sWorker[w] = "start" /\ sWorker' = [sWorker EXCEPT ![w] = "ready"]
        /\ sOpened' = sOpened \cup {w}
        /\ UNCHANGED <<sTodo, sWalk, sScan, sIpChan, sSwept, sCancelled>>
    BY <1>5 DEF Y!Open
  <2>2. Y!TypeOK' /\ LeftLast'
    BY <1>1, <2>1 DEF SweepInv, Y!TypeOK, LeftLast
  <2> QED BY <2>1, <2>2, SweptStays DEF SweepInv
<1>6. ASSUME NEW w \in Sweeper, Y!OpenFails(w) PROVE SweepInv'
  <2>1. sWorker[w] = "start" /\ sWorker' = [sWorker EXCEPT ![w] = "gone"]
        /\ UNCHANGED <<sTodo, sWalk, sScan, sIpChan, sOpened, sSwept, sCancelled>>
    BY <1>6 DEF Y!OpenFails
  <2>2. Y!TypeOK' /\ LeftLast'
    BY <1>1, <2>1 DEF SweepInv, Y!TypeOK, LeftLast
  <2> QED BY <2>1, <2>2, SweptStays DEF SweepInv
<1>7. ASSUME NEW w \in Sweeper, Y!Leave(w) PROVE SweepInv'
  <2>1. sIpChan = <<>> /\ sScan \notin {"next", "walk"}
        /\ sWorker' = [sWorker EXCEPT ![w] = "gone"]
        /\ UNCHANGED <<sTodo, sWalk, sScan, sIpChan, sOpened, sSwept, sCancelled>>
    BY <1>7 DEF Y!Leave
  <2>2. Y!TypeOK' /\ LeftLast'
    BY <1>1, <2>1 DEF SweepInv, Y!TypeOK, LeftLast
  <2> QED BY <2>1, <2>2, SweptStays DEF SweepInv
<1>8. CASE UNCHANGED sweeping
  <2>1. UNCHANGED <<sTodo, sWalk, sScan, sIpChan, sWorker, sOpened, sSwept, sCancelled>>
    BY <1>8 DEF sweeping
  <2>2. Y!TypeOK' /\ LeftLast'
    BY <1>1, <2>1 DEF SweepInv, Y!TypeOK, LeftLast
  <2> QED BY <2>1, <2>2, SweptStays DEF SweepInv
<1> QED
  BY <1>2, <1>3, <1>4, <1>5, <1>6, <1>7, <1>8, SweptWalks, SweptIterates, SweptTakes
  DEF Y!Next

LEMMA SweepHolds == SweepInv => Y!TypeOK /\ Y!SweptAreHosts
<1> SUFFICES ASSUME SweepInv PROVE Y!TypeOK /\ Y!SweptAreHosts
  OBVIOUS
<1>1. ASSUME NoSingle, sScan = "done", ~sCancelled, sOpened # {} PROVE Y!Hosts \subseteq sSwept
  <2>1. PICK w \in sOpened : sWorker[w] = "gone"
    BY <1>1 DEF SweepInv, LeftLast, Y!TypeOK
  <2>2. sIpChan = <<>> /\ sTodo = {}
    BY <1>1, <2>1 DEF SweepInv, LeftLast
  <2>3. Y!ToSet(sIpChan) = {}
    BY <2>2 DEF Y!ToSet
  <2> QED BY <1>1, <2>2, <2>3 DEF SweepInv, HandedOver, Y!Hosts
<1> QED BY <1>1 DEF SweepInv, NoSingle, Y!SweptAreHosts

-----------------------------------------------------------------------------
(* A search of the knowledge bases *)

\* The cardinality and the finiteness of the model are those of the lemmas.
LEMMA SearchCardinality ==
    ASSUME NEW S
    PROVE  Z!Cardinality(S) = Cardinality(S) /\ (Z!IsFiniteSet(S) <=> IsFiniteSet(S))
BY DEF Z!Cardinality, Cardinality, Z!IsFiniteSet, IsFiniteSet

LEMMA SearchConstants ==
    /\ BestK \in Nat /\ MaxTopK \in Nat
    /\ \A f \in Indexes : \A n \in Knowing \cup {Self} :
         IsFiniteSet(f[n]) /\ \A x \in f[n] : x.score \in Int /\ x.known \in BOOLEAN
BY PartsAssumption, SearchCardinality DEF PartsAssumption, Z!SearchAssumption

\* The set of the elements of a sequence is finite.
LEMMA FiniteRange == ASSUME NEW S, NEW s \in Seq(S) PROVE IsFiniteSet(Z!ToSet(s))
<1>1. s \in Surjection(1 .. Len(s), Z!ToSet(s))
  BY DEF Surjection, Z!ToSet
<1>2. IsFiniteSet(1 .. Len(s))
  BY FS_Interval
<1> QED BY <1>1, <1>2, FS_Surjection

\* An enumeration of a set without repetitions has all of its elements.
LEMMA Enumerates ==
    ASSUME NEW S, IsFiniteSet(S), NEW f \in [1 .. Cardinality(S) -> S],
           \A i, j \in 1 .. Cardinality(S) : f[i] = f[j] => i = j
    PROVE  f \in Seq(S) /\ Len(f) = Cardinality(S) /\ Z!ToSet(f) = S
<1>1. Cardinality(S) \in Nat
  BY FS_CardinalityType
<1>2. f \in Seq(S) /\ Len(f) = Cardinality(S)
  BY <1>1
<1>3. f \in Injection(1 .. Cardinality(S), S)
  BY DEF Injection, IsInjective
<1>4. Cardinality(1 .. Cardinality(S)) = Cardinality(S)
  BY <1>1, FS_Interval
<1>5. f \in Surjection(1 .. Cardinality(S), S)
  BY <1>3, <1>4, FS_Injection
<1>6. \A x \in S : \E i \in 1 .. Cardinality(S) : f[i] = x
  BY <1>5 DEF Surjection
<1>7. DOMAIN f = 1 .. Cardinality(S)
  OBVIOUS
<1>8. Z!ToSet(f) = S
  BY <1>6, <1>7 DEF Z!ToSet
<1> QED BY <1>2, <1>8

\* SetToSeq lists a finite set, each element once.
LEMMA ListsSet ==
    ASSUME NEW S, IsFiniteSet(S)
    PROVE  /\ Z!SetToSeq(S) \in Seq(S) /\ Z!ToSet(Z!SetToSeq(S)) = S
           /\ \A i, j \in DOMAIN Z!SetToSeq(S) :
                Z!SetToSeq(S)[i] = Z!SetToSeq(S)[j] => i = j
<1> DEFINE Lists(f) == /\ f \in [1 .. Cardinality(S) -> S]
                       /\ \A i, j \in DOMAIN f : f[i] = f[j] => i = j
<1>1. PICK g : g \in Bijection(1 .. Cardinality(S), S)
  BY FS_CardinalityType DEF ExistsBijection
<1>2. Lists(g)
  BY <1>1 DEF Bijection, Injection, IsInjective
<1>3. Z!SetToSeq(S) = CHOOSE f : Lists(f)
  BY SearchCardinality DEF Z!SetToSeq, Z!IsInjective
<1>4. Lists(Z!SetToSeq(S))
  BY <1>2, <1>3
<1> QED BY <1>4, Enumerates

\* Among finitely many hits one has the highest score.
LEMMA Highest ==
    ASSUME NEW hits, IsFiniteSet(hits), hits # {}, \A h \in hits : h.score \in Int
    PROVE  \E h \in hits : \A g \in hits : g.score <= h.score
<1> DEFINE Above(h) == {g \in hits : g.score > h.score}
           above == {Cardinality(Above(h)) : h \in hits}
<1>1. \A h \in hits : IsFiniteSet(Above(h)) /\ Cardinality(Above(h)) \in Nat
  BY FS_Subset, FS_CardinalityType
<1>2. above \in SUBSET Nat /\ above # {}
  BY <1>1
<1>3. PICK r \in above : \A q \in above : r <= q
  BY <1>2, LeastNumber
<1>4. PICK h \in hits : r = Cardinality(Above(h))
  BY <1>3
<1>5. ASSUME NEW g \in hits, g.score > h.score PROVE FALSE
  <2>1. Above(g) \in SUBSET Above(h) /\ g \in Above(h) /\ g \notin Above(g)
    BY <1>5
  <2>2. IsFiniteSet(Above(h)) /\ IsFiniteSet(Above(g))
    BY <1>1
  <2>3. Cardinality(Above(g)) # Cardinality(Above(h))
    <3> HIDE DEF Above
    <3> QED BY <2>1, <2>2, FS_Subset
  <2>4. Cardinality(Above(g)) <= Cardinality(Above(h))
    <3> HIDE DEF Above
    <3> QED BY <2>1, <2>2, FS_Subset
  <2>5. r <= Cardinality(Above(g))
    BY <1>3
  <2>6. Cardinality(Above(g)) \in Nat /\ Cardinality(Above(h)) \in Nat
    BY <1>1
  <2> HIDE DEF Above
  <2> QED BY <1>4, <2>3, <2>4, <2>5, <2>6
<1>6. \A g \in hits : g.score <= h.score
  <2> HIDE DEF Above, above
  <2> QED BY <1>5
<1> QED BY <1>6

\* A node knows the text of all its vectors, and has no chunk twice.
IsWhole(held) ==
    \A x \in held : x.known /\ \A y \in held : y.chunk = x.chunk => y = x

\* A set of hits answers for a chunk of a node: it has the chunk, or as many different ones
\* that are no worse as the node is asked for.
Alone(hits) == \A g, h \in hits : g.chunk = h.chunk => g = h
HasHit(hits, x) == \E h \in hits : h.chunk = x.chunk /\ h.score >= x.score
Enough(hits, k, x) ==
    \E c \in SUBSET hits : Cardinality(c) = k /\ Alone(c) /\ \A h \in c : h.score >= x.score
Covered(hits, held, k) == \A x \in held : HasHit(hits, x) \/ Enough(hits, k, x)

\* The same of what a search returns, in which no chunk is twice.
Once(s) == \A i, j \in DOMAIN s : s[i].chunk = s[j].chunk => i = j
NoneBetter(s, held, k) ==
    \A x \in held :
        \/ \E i \in DOMAIN s : s[i].chunk = x.chunk /\ s[i].score >= x.score
        \/ k <= Len(s) /\ \A i \in 1 .. k : s[i].score >= x.score

\* What answers for a node goes on to with more hits.
LEMMA CoveredGrows ==
    ASSUME NEW hits, NEW more, hits \subseteq more, NEW held, NEW k, Covered(hits, held, k)
    PROVE  Covered(more, held, k)
<1>1. \A x : HasHit(hits, x) => HasHit(more, x)
  BY DEF HasHit
<1>2. \A x : Enough(hits, k, x) => Enough(more, k, x)
  BY DEF Enough
<1> QED BY <1>1, <1>2 DEF Covered

\* No node is asked for more than the search returns.
LEMMA AskedFor == ASSUME NEW n PROVE Z!Asked(n) \in Nat /\ Z!Asked(n) <= BestK
BY SearchConstants DEF Z!Asked, Z!Smaller

\* The answer of a node that is whole answers for all its chunks.
LEMMA AnswersCover ==
    ASSUME qIndex \in Indexes, NEW n \in Z!Holder, NEW k \in Nat, NEW found \in Z!LocalSearch(n, k)
    PROVE  /\ IsFiniteSet(found) /\ found \subseteq Z!Hits
           /\ IsWhole(qIndex[n]) => Covered(found, qIndex[n], k)
<1> DEFINE held == qIndex[n]
<1>1. PICK best \in Z!Best(k, held) : found = {Z!Hit(x) : x \in {y \in best : y.known}}
  BY DEF Z!LocalSearch
<1>2. /\ best \in SUBSET held /\ Cardinality(best) = Z!Smaller(k, Cardinality(held))
      /\ \A x \in best, y \in held \ best : x.score >= y.score
  BY <1>1, SearchCardinality DEF Z!Best
<1>3. IsFiniteSet(held) /\ \A x \in held : x.score \in Int
  BY SearchConstants DEF Z!Holder
<1>4. IsFiniteSet(best) /\ Cardinality(best) \in Nat /\ Cardinality(held) \in Nat
  BY <1>2, <1>3, FS_Subset, FS_CardinalityType
<1> DEFINE told == {y \in best : y.known}
<1>5. IsFiniteSet(told)
  BY <1>4, FS_Subset
<1>6. IsFiniteSet(found)
  <2> DEFINE hit == [x \in told |-> Z!Hit(x)]
  <2>1. hit \in Surjection(told, found)
    <3>1. hit \in [told -> found]
      BY <1>1
    <3>2. \A h \in found : \E x \in told : hit[x] = h
      BY <1>1
    <3> QED BY <3>1, <3>2 DEF Surjection
  <2> QED BY <1>5, <2>1, FS_Surjection
<1>7. found \subseteq Z!Hits
  <2> SUFFICES ASSUME NEW h \in found PROVE h \in Z!Hits
    OBVIOUS
  <2>1. PICK x \in held : h = Z!Hit(x)
    BY <1>1, <1>2
  <2>2. h \in {Z!Hit(y) : y \in qIndex[n]}
    BY <2>1
  <2> DEFINE family == {{Z!Hit(y) : y \in f[o]} : f \in Indexes, o \in Z!Holder}
  <2>3. {Z!Hit(y) : y \in qIndex[n]} \in family
    OBVIOUS
  <2>4. Z!Hits = UNION family
    BY DEF Z!Hits
  <2> HIDE DEF family
  <2> QED BY <2>2, <2>3, <2>4
<1>8. ASSUME IsWhole(held) PROVE Covered(found, held, k)
  <2>1. told = best
    BY <1>2, <1>8 DEF IsWhole
  <2>2. \A x \in best : Z!Hit(x) \in found /\ Z!Hit(x).chunk = x.chunk /\ Z!Hit(x).score = x.score
    BY <1>1, <2>1 DEF Z!Hit
  <2>3. \A h \in found : \E x \in best : h = Z!Hit(x)
    BY <1>1, <2>1
  <2> SUFFICES ASSUME NEW x \in held PROVE HasHit(found, x) \/ Enough(found, k, x)
    BY DEF Covered
  <2>4. CASE x \in best
    BY <1>3, <2>2, <2>4 DEF HasHit
  <2>5. CASE x \notin best
    <3>1. best # held
      BY <2>5
    <3>2. Cardinality(best) # Cardinality(held)
      BY <1>2, <1>3, <3>1, FS_Subset
    <3>3. Cardinality(best) = k
      BY <1>2, <3>2 DEF Z!Smaller
    <3> DEFINE hit == [y \in best |-> Z!Hit(y)]
    <3>4. hit \in Surjection(best, found)
      <4>1. hit \in [best -> found]
        BY <2>2
      <4>2. \A h \in found : \E y \in best : hit[y] = h
        BY <2>3
      <4> QED BY <4>1, <4>2 DEF Surjection
    <3>5. \A y, z \in best : y.chunk = z.chunk => y = z
      BY <1>2, <1>8 DEF IsWhole
    <3>6. hit \in Injection(best, found)
      <4>1. \A y, z \in best : hit[y] = hit[z] => y.chunk = z.chunk
        BY <2>2
      <4>2. \A y, z \in DOMAIN hit : hit[y] = hit[z] => y = z
        BY <3>5, <4>1
      <4> QED BY <3>4, <4>2 DEF Injection, IsInjective, Surjection
    <3>7. Cardinality(found) = k
      BY <1>4, <3>3, <3>4, <3>6, FS_Surjection
    <3>8. Alone(found)
      BY <2>2, <2>3, <3>5 DEF Alone
    <3>9. \A h \in found : h.score >= x.score
      BY <1>2, <2>2, <2>3, <2>5
    <3> QED BY <3>7, <3>8, <3>9 DEF Enough
  <2> QED BY <2>4, <2>5
<1> QED BY <1>6, <1>7, <1>8

\* A hit is a chunk and its score.
LEMMA HitsScored ==
    ASSUME NEW h \in Z!Hits
    PROVE  h.score \in Int /\ h = [chunk |-> h.chunk, score |-> h.score]
<1>1. PICK f \in Indexes, n \in Z!Holder : h \in {Z!Hit(x) : x \in f[n]}
  BY DEF Z!Hits
<1>2. PICK x \in f[n] : h = Z!Hit(x)
  BY <1>1
<1>3. x.score \in Int
  BY SearchConstants DEF Z!Holder
<1> QED BY <1>2, <1>3 DEF Z!Hit

\* What is left after duplicates are dropped answers for the same nodes.
LEMMA DuplicatesDropped ==
    ASSUME NEW s \in Seq(Z!Hits)
    PROVE  LET hits == Z!ToSet(s)
               kept == Z!Deduplicated(s)
           IN  /\ kept \subseteq hits /\ IsFiniteSet(kept) /\ Alone(kept)
               /\ \A f \in Indexes, n \in Z!Holder, k \in Nat :
                    Covered(hits, f[n], k) => Covered(kept, f[n], k)
<1> DEFINE hits == Z!ToSet(s)
           kept == Z!Deduplicated(s)
<1>1. kept = {x \in hits : \A y \in hits : y.chunk = x.chunk => y.score <= x.score}
  BY DEF Z!Deduplicated
<1>2. hits \subseteq Z!Hits /\ IsFiniteSet(hits)
  BY FiniteRange DEF Z!ToSet
<1>3. \A h \in hits : h.score \in Int /\ h = [chunk |-> h.chunk, score |-> h.score]
  BY <1>2, HitsScored
<1> HIDE DEF hits, kept
<1>4. kept \subseteq hits /\ IsFiniteSet(kept)
  BY <1>1, <1>2, FS_Subset
<1>5. Alone(kept)
  <2> SUFFICES ASSUME NEW g \in kept, NEW h \in kept, g.chunk = h.chunk PROVE g = h
    BY DEF Alone
  <2>1. g.score <= h.score /\ h.score <= g.score /\ g \in hits /\ h \in hits
    BY <1>1
  <2>2. g.score = h.score
    BY <1>3, <2>1
  <2> QED BY <1>3, <2>1, <2>2
<1>6. ASSUME NEW h \in hits PROVE \E g \in kept : g.chunk = h.chunk /\ h.score <= g.score
  <2> DEFINE same == {g \in hits : g.chunk = h.chunk}
  <2>1. IsFiniteSet(same) /\ same # {} /\ \A g \in same : g.score \in Int
    BY <1>2, <1>3, <1>6, FS_Subset
  <2>2. PICK g \in same : \A e \in same : e.score <= g.score
    <3> HIDE DEF same
    <3> QED BY <2>1, Highest
  <2> QED BY <1>1, <1>6, <2>2
<1>7. ASSUME NEW f \in Indexes, NEW n \in Z!Holder, NEW k \in Nat, Covered(hits, f[n], k)
      PROVE  Covered(kept, f[n], k)
  <2> SUFFICES ASSUME NEW x \in f[n] PROVE HasHit(kept, x) \/ Enough(kept, k, x)
    BY DEF Covered
  <2>1. x.score \in Int
    BY <1>7, SearchConstants DEF Z!Holder
  <2>2. CASE HasHit(hits, x)
    <3>1. PICK h \in hits : h.chunk = x.chunk /\ h.score >= x.score
      BY <2>2 DEF HasHit
    <3>2. PICK g \in kept : g.chunk = h.chunk /\ h.score <= g.score
      BY <1>6
    <3>3. g.score \in Int /\ h.score \in Int
      BY <1>3, <1>4
    <3> QED BY <2>1, <3>1, <3>2, <3>3 DEF HasHit
  <2>3. CASE Enough(hits, k, x)
    <3>1. PICK c \in SUBSET hits : /\ Cardinality(c) = k /\ Alone(c)
                                /\ \A h \in c : h.score >= x.score
      BY <2>3 DEF Enough
    <3> DEFINE top(h) == CHOOSE g \in kept : g.chunk = h.chunk /\ h.score <= g.score
               tops == [h \in c |-> top(h)]
               better == {top(h) : h \in c}
    <3>2. \A h \in c : top(h) \in kept /\ top(h).chunk = h.chunk /\ h.score <= top(h).score
      BY <1>6, <3>1
    <3>3. IsFiniteSet(c)
      BY <1>2, <3>1, FS_Subset
    <3> HIDE DEF top
    <3>4. tops \in Surjection(c, better)
      BY DEF Surjection
    <3>5. tops \in Injection(c, better)
      <4>1. \A g, h \in c : tops[g] = tops[h] => g = h
        BY <3>1, <3>2 DEF Alone
      <4> QED BY <3>4, <4>1 DEF Injection, IsInjective, Surjection
    <3>6. Cardinality(better) = k
      <4> HIDE DEF tops, better
      <4> QED BY <3>1, <3>3, <3>4, <3>5, FS_Surjection
    <3>7. better \in SUBSET kept
      BY <3>2
    <3>8. Alone(better)
      BY <1>5, <3>7 DEF Alone
    <3>9. \A g \in better : g.score >= x.score
      <4> SUFFICES ASSUME NEW h \in c PROVE top(h).score >= x.score
        OBVIOUS
      <4>1. h.score \in Int /\ top(h).score \in Int
        BY <1>3, <1>4, <3>1, <3>2
      <4> QED BY <2>1, <3>1, <3>2, <4>1
    <3> QED BY <3>6, <3>7, <3>8, <3>9 DEF Enough
  <2> QED BY <1>7, <2>2, <2>3 DEF Covered
<1> QED BY <1>4, <1>5, <1>7 DEF hits, kept

\* A prefix of a sequence.
LEMMA Prefix ==
    ASSUME NEW S, NEW s \in Seq(S), NEW m \in 0 .. Len(s)
    PROVE  /\ SubSeq(s, 1, m) \in Seq(S) /\ Len(SubSeq(s, 1, m)) = m
           /\ DOMAIN SubSeq(s, 1, m) = 1 .. m
           /\ \A i \in 1 .. m : i \in DOMAIN s /\ SubSeq(s, 1, m)[i] = s[i]
OBVIOUS

\* The smaller of two numbers.
LEMMA OneOfBoth ==
    ASSUME NEW a \in Nat, NEW b \in Nat
    PROVE  /\ Z!Smaller(a, b) \in 0 .. a /\ Z!Smaller(a, b) \in Nat
           /\ Z!Smaller(a, b) <= a /\ Z!Smaller(a, b) <= b
           /\ Z!Smaller(a, b) = a \/ Z!Smaller(a, b) = b
BY DEF Z!Smaller

\* The sorted hits have the same elements, the best first.
LEMMA Sorted ==
    ASSUME NEW s \in Seq(Z!Hits), NEW t \in Z!SetToSeqs(DOMAIN s)
    PROVE  LET r == [i \in DOMAIN s |-> s[t[i]]]
           IN  /\ r \in Seq(Z!Hits) /\ Z!ToSet(r) = Z!ToSet(s)
               /\ Once(s) => Once(r)
<1> DEFINE r == [i \in DOMAIN s |-> s[t[i]]]
<1>1. DOMAIN s = 1 .. Len(s) /\ Len(s) \in Nat
  OBVIOUS
<1>2. IsFiniteSet(DOMAIN s) /\ Cardinality(DOMAIN s) = Len(s)
  BY <1>1, FS_Interval
<1>3. /\ t \in [1 .. Cardinality(DOMAIN s) -> DOMAIN s]
      /\ \A i, j \in 1 .. Cardinality(DOMAIN s) : t[i] = t[j] => i = j
  BY SearchCardinality DEF Z!SetToSeqs
<1>4. Z!ToSet(t) = DOMAIN s
  BY <1>2, <1>3, Enumerates
<1>5. t \in [DOMAIN s -> DOMAIN s] /\ \A i, j \in DOMAIN s : t[i] = t[j] => i = j
  BY <1>1, <1>2, <1>3
<1>6. r \in Seq(Z!Hits) /\ DOMAIN r = DOMAIN s
  BY <1>1, <1>5
<1>7. Z!ToSet(r) = Z!ToSet(s)
  <2>1. \A i \in DOMAIN r : r[i] = s[t[i]] /\ t[i] \in DOMAIN s
    BY <1>5
  <2>2. \A j \in DOMAIN s : \E i \in DOMAIN r : r[i] = s[j]
    BY <1>4, <1>5 DEF Z!ToSet
  <2> HIDE DEF r
  <2> QED BY <2>1, <2>2 DEF Z!ToSet
<1>8. Once(s) => Once(r)
  BY <1>5 DEF Once
<1> QED BY <1>6, <1>7, <1>8

\* The first m of sorted hits, of which at most as many as are cut are left.
Cuts(s, r, m, top) ==
    /\ s \in Seq(Z!Hits) /\ r \in Seq(Z!Hits) /\ Z!Descending(s)
    /\ m \in Nat /\ top \in Nat /\ m <= Len(s) /\ m <= top /\ (m = Len(s) \/ m = top)
    /\ Len(r) = m /\ \A i \in 1 .. m : r[i] = s[i]

\* They answer for the same nodes.
LEMMA FirstAnswer ==
    ASSUME NEW s, NEW r, NEW m, NEW top, Cuts(s, r, m, top),
           NEW held, \A x \in held : x.score \in Int,
           NEW k \in Nat, k <= top, Covered(Z!ToSet(s), held, k)
    PROVE  NoneBetter(r, held, k)
<1>0. s \in Seq(Z!Hits) /\ r \in Seq(Z!Hits) /\ Len(r) = m
  BY DEF Cuts
<1>1. Len(s) \in Nat /\ DOMAIN s = 1 .. Len(s) /\ DOMAIN r = 1 .. m
  BY <1>0
<1>8. Len(s) \in Nat /\ m \in Nat /\ m <= Len(s)
  BY <1>1 DEF Cuts
<1>9. \A i \in 1 .. m : i \in DOMAIN s /\ i \in DOMAIN r /\ i \in Nat /\ 1 <= i
  <2>1. \A i \in 1 .. m : i \in 1 .. Len(s) /\ i \in Nat /\ 1 <= i
    BY <1>8
  <2> QED BY <1>1, <2>1
<1>10. IsFiniteSet(DOMAIN s) /\ Cardinality(DOMAIN s) = Len(s)
  <2>1. IsFiniteSet(1 .. Len(s)) /\ Cardinality(1 .. Len(s)) = Len(s)
    <3>1. Len(s) \in Int /\ 1 \in Int /\ (1 > Len(s) => Len(s) = 0)
      BY <1>8
    <3> QED BY <3>1, FS_Interval
  <2> QED BY <1>1, <2>1
<1>2. \A i \in DOMAIN s : s[i].score \in Int
  BY <1>0, HitsScored
<1>6. /\ m \in Nat /\ top \in Nat /\ m <= Len(s) /\ m <= top /\ (m = Len(s) \/ m = top)
      /\ \A i \in 1 .. m : r[i] = s[i]
  BY DEF Cuts
<1>7. Z!Descending(s)
  BY DEF Cuts
<1> SUFFICES ASSUME NEW x \in held
             PROVE  \/ \E i \in DOMAIN r : r[i].chunk = x.chunk /\ r[i].score >= x.score
                    \/ k <= m /\ \A i \in 1 .. k : r[i].score >= x.score
  BY <1>0 DEF NoneBetter
<1>3. x.score \in Int
  OBVIOUS
<1>4. CASE HasHit(Z!ToSet(s), x)
  <2>1. PICK i \in DOMAIN s : s[i].chunk = x.chunk /\ s[i].score >= x.score
    BY <1>4 DEF HasHit, Z!ToSet
  <2>2. i \in Nat /\ 1 <= i /\ i <= Len(s)
    BY <1>1, <2>1
  <2>3. CASE i <= m
    <3>1. i \in 1 .. m
      BY <1>8, <2>2, <2>3
    <3>2. i \in DOMAIN r /\ r[i] = s[i]
      BY <1>6, <1>9, <3>1
    <3> QED BY <2>1, <3>2
  <2>4. CASE ~ (i <= m)
    <3>1. m = top /\ k <= m
      BY <1>6, <2>2, <2>4
    <3>2. ASSUME NEW j \in 1 .. k PROVE r[j].score >= x.score
      <4>1. j \in 1 .. m /\ j < i /\ j \in DOMAIN s
        BY <1>1, <1>6, <2>2, <2>4, <3>1
      <4>2. s[j].score >= s[i].score
        BY <1>7, <2>1, <4>1 DEF Z!Descending
      <4>3. s[j].score \in Int /\ s[i].score \in Int
        BY <1>2, <2>1, <4>1
      <4>4. r[j] = s[j]
        BY <1>6, <4>1
      <4> QED BY <1>3, <2>1, <4>2, <4>3, <4>4
    <3> QED BY <3>1, <3>2
  <2> QED BY <2>3, <2>4
<1>5. CASE Enough(Z!ToSet(s), k, x)
  <2>1. PICK c \in SUBSET Z!ToSet(s) : Cardinality(c) = k /\ \A h \in c : h.score >= x.score
    BY <1>5 DEF Enough
  <2> DEFINE places == {i \in DOMAIN s : s[i] \in c}
             at == [i \in places |-> s[i]]
  <2>2. /\ IsFiniteSet(places) /\ Cardinality(places) \in Nat
        /\ Cardinality(places) <= Len(s)
    <3>1. IsFiniteSet(DOMAIN s) /\ Cardinality(DOMAIN s) = Len(s)
      BY <1>10
    <3>2. places \in SUBSET (DOMAIN s)
      OBVIOUS
    <3> HIDE DEF places
    <3> QED BY <3>1, <3>2, FS_Subset, FS_CardinalityType
  <2>3. at \in Surjection(places, c)
    <3>1. \A h \in c : \E i \in places : at[i] = h
      BY DEF Z!ToSet
    <3> QED BY <3>1 DEF Surjection
  <2>4. k <= Cardinality(places)
    <3> HIDE DEF places, at
    <3> QED BY <2>1, <2>2, <2>3, FS_Surjection
  <2>5. \A i \in places : i \in DOMAIN s /\ s[i].score >= x.score
    BY <2>1
  <2> HIDE DEF places, at
  <2>6. k <= m
    <3>1. k <= Len(s)
      BY <1>1, <2>2, <2>4
    <3> QED BY <1>6, <3>1
  <2>7. ASSUME NEW j \in 1 .. k, ~ (s[j].score >= x.score) PROVE FALSE
    <3>0. j \in 1 .. m /\ j <= k
      BY <1>8, <2>6
    <3>1. j \in DOMAIN s /\ j \in Nat /\ 1 <= j /\ j <= k
      BY <1>9, <3>0
    <3>2. ASSUME NEW i \in places PROVE i \in 1 .. j - 1
      <4>1. i \in DOMAIN s /\ s[i].score >= x.score
        BY <2>5
      <4>2. i \in Nat /\ 1 <= i
        BY <1>1, <4>1
      <4>3. j < i => s[j].score >= s[i].score
        BY <1>7, <3>1, <4>1 DEF Z!Descending
      <4>4. s[i].score \in Int /\ s[j].score \in Int
        BY <1>2, <3>1, <4>1
      <4>5. ~ (j < i) /\ i # j
        BY <1>3, <2>7, <4>1, <4>3, <4>4
      <4> QED BY <3>1, <4>2, <4>5
    <3>3. IsFiniteSet(1 .. j - 1) /\ Cardinality(1 .. j - 1) = j - 1
      <4>1. j - 1 \in Int /\ 1 \in Int /\ (1 > j - 1 => j - 1 = 0)
        BY <3>1
      <4> QED BY <4>1, FS_Interval
    <3>4. Cardinality(places) <= j - 1
      <4>1. places \in SUBSET (1 .. j - 1)
        BY <3>2
      <4> QED BY <3>3, <4>1, FS_Subset
    <3> QED BY <2>2, <2>4, <3>1, <3>4
  <2>8. ASSUME NEW i \in 1 .. k PROVE r[i].score >= x.score
    <3>1. i \in 1 .. m
      BY <1>6, <2>6
    <3> QED BY <1>6, <2>7, <3>1
  <2> QED BY <2>6, <2>8
<1> QED BY <1>4, <1>5 DEF Covered

\* Of sorted hits those that are left after the cut answer for the same nodes.
LEMMA CutAnswers ==
    ASSUME NEW s, s \in Seq(Z!Hits) /\ Once(s) /\ Z!Descending(s),
           NEW r, r = SubSeq(s, 1, Z!Smaller(Len(s), BestK))
    PROVE  /\ r \in Seq(Z!Hits) /\ Once(r) /\ Z!Descending(r)
           /\ \A f \in Indexes, n \in Z!Holder :
                Covered(Z!ToSet(s), f[n], Z!Asked(n)) => NoneBetter(r, f[n], Z!Asked(n))
<1>1. Len(s) \in Nat /\ BestK \in Nat /\ DOMAIN s = 1 .. Len(s)
  BY SearchConstants
<1> DEFINE m == Z!Smaller(Len(s), BestK)
<1>2. m \in 0 .. Len(s) /\ m \in Nat /\ m <= Len(s) /\ m <= BestK /\ (m = Len(s) \/ m = BestK)
  BY <1>1, OneOfBoth
<1> HIDE DEF m
<1>4. /\ r \in Seq(Z!Hits) /\ Len(r) = m /\ DOMAIN r = 1 .. m
      /\ \A i \in 1 .. m : i \in DOMAIN s /\ r[i] = s[i]
  BY <1>2, Prefix DEF m
<1>5. \A i \in DOMAIN r : i \in DOMAIN s /\ r[i] = s[i]
  BY <1>4
<1>6. Once(r)
  BY <1>5 DEF Once
<1>7. Z!Descending(r)
  BY <1>5 DEF Z!Descending
<1>9. Cuts(s, r, m, BestK)
  BY <1>1, <1>2, <1>4 DEF Cuts
<1>8. ASSUME NEW f \in Indexes, NEW n \in Z!Holder, Covered(Z!ToSet(s), f[n], Z!Asked(n))
      PROVE  NoneBetter(r, f[n], Z!Asked(n))
  <2>1. \A x \in f[n] : x.score \in Int
    BY SearchConstants DEF Z!Holder
  <2>2. Z!Asked(n) \in Nat /\ Z!Asked(n) <= BestK
    BY AskedFor
  <2> QED BY <1>8, <1>9, <2>1, <2>2, FirstAnswer
<1> QED BY <1>4, <1>6, <1>7, <1>8

\* The hits collected so far answer for the nodes that were heard, and so does what is left
\* after the cut.  When hits are merged no chunk is among them twice, and once they are
\* sorted the best come first.
HitsAnswer(hits, heard, index) ==
    \A n \in heard : IsWhole(index[n]) => Covered(hits, index[n], Z!Asked(n))
NoneLeftOut(s, heard, index) ==
    \A n \in heard : IsWhole(index[n]) => NoneBetter(s, index[n], Z!Asked(n))

SearchInv ==
    /\ Z!TypeOK
    /\ \A p \in Knowing :
         /\ IsFiniteSet(qQuery[p].found)
         /\ qQuery[p].pc = "append" => HitsAnswer(qQuery[p].found, {p}, qIndex)
    /\ qSearch = "wait" => HitsAnswer(Z!ToSet(qResults), qHeard, qIndex)
    /\ qSearch = "merge" => HitsAnswer(Z!ToSet(qSeen), qHeard, qIndex)
    /\ ~qRaced =>
         /\ qSearch \in {"sort", "cut"} => HitsAnswer(Z!ToSet(qResults), qHeard, qIndex)
         /\ qSearch \in {"sort", "cut", "return", "done"} => Once(qResults)
         /\ qSearch \in {"cut", "return", "done"} => Z!Descending(qResults)
         /\ qSearch \in {"return", "done"} => NoneLeftOut(qResults, qHeard, qIndex)

LEMMA SearchStart == Z!Init => SearchInv
<1> SUFFICES ASSUME Z!Init PROVE SearchInv
  OBVIOUS
<1>1. /\ qIndex \in Indexes /\ qSearch = "start" /\ qResults = <<>> /\ qSeen = <<>>
      /\ qQuery = [p \in Knowing |-> Z!NoQuery] /\ qHeard = {} /\ qRaced = FALSE
  BY DEF Z!Init
<1>2. Z!NoQuery \in [pc : {"off", "ask", "append", "over"}, found : SUBSET Z!Hits]
  BY DEF Z!NoQuery
<1>3. <<>> \in Seq(Z!Hits)
  OBVIOUS
<1>4. Z!TypeOK
  BY <1>1, <1>2, <1>3 DEF Z!TypeOK
<1>5. \A p \in Knowing : qQuery[p].pc = "off" /\ IsFiniteSet(qQuery[p].found)
  BY <1>1, FS_EmptySet DEF Z!NoQuery
<1> QED BY <1>1, <1>4, <1>5 DEF SearchInv

LEMMA SearchBegins == ASSUME SearchInv, Z!Begin PROVE SearchInv'
<1>1. PICK found \in Z!LocalSearch(Self, Z!Asked(Self)), up \in SUBSET Knowing :
        /\ qResults' = Z!SetToSeq(found)
        /\ qQuery' = [p \in Knowing |->
                        [Z!NoQuery EXCEPT !.pc = IF p \in up THEN "ask" ELSE "off"]]
  BY DEF Z!Begin
<1>2. /\ qSearch' = "wait" /\ qHeard' = {Self} /\ UNCHANGED <<qIndex, qSeen, qRaced>>
  BY DEF Z!Begin
<1>3. Z!TypeOK /\ qIndex \in Indexes /\ Self \in Z!Holder
  BY DEF SearchInv, Z!TypeOK, Z!Holder
<1>4. /\ IsFiniteSet(found) /\ found \subseteq Z!Hits
      /\ IsWhole(qIndex[Self]) => Covered(found, qIndex[Self], Z!Asked(Self))
  BY <1>3, AskedFor, AnswersCover
<1>5. qResults' \in Seq(found) /\ Z!ToSet(qResults') = found
  BY <1>1, <1>4, ListsSet
<1>6. qResults' \in Seq(Z!Hits)
  BY <1>4, <1>5
<1>7. \A p \in Knowing : qQuery'[p].pc \in {"ask", "off"} /\ qQuery'[p].found = {}
  BY <1>1 DEF Z!NoQuery
<1>8. qQuery' \in [Knowing -> [pc : {"off", "ask", "append", "over"}, found : SUBSET Z!Hits]]
  <2>1. ASSUME NEW c \in {"ask", "off"}
        PROVE  [Z!NoQuery EXCEPT !.pc = c]
                 \in [pc : {"off", "ask", "append", "over"}, found : SUBSET Z!Hits]
    BY DEF Z!NoQuery
  <2> QED BY <1>1, <2>1
<1>9. Z!TypeOK'
  BY <1>2, <1>3, <1>6, <1>8 DEF Z!TypeOK
<1>10. HitsAnswer(Z!ToSet(qResults'), qHeard', qIndex')
  BY <1>2, <1>4, <1>5 DEF HitsAnswer
<1> QED BY <1>2, <1>7, <1>9, <1>10, FS_EmptySet DEF SearchInv

\* Other steps keep what is true of the goroutines when they leave them alone.
LEMMA SearchMoves ==
    ASSUME SearchInv, UNCHANGED <<qIndex, qQuery, qHeard, qRaced>>, qSearch' # "wait",
           qResults' \in Seq(Z!Hits), qSeen' \in Seq(Z!Hits),
           qSearch' \in {"merge", "sort", "cut", "return", "done", "failed"},
           qSearch' = "merge" => HitsAnswer(Z!ToSet(qSeen'), qHeard, qIndex),
           ~qRaced =>
             /\ qSearch' \in {"sort", "cut"} => HitsAnswer(Z!ToSet(qResults'), qHeard, qIndex)
             /\ qSearch' \in {"sort", "cut", "return", "done"} => Once(qResults')
             /\ qSearch' \in {"cut", "return", "done"} => Z!Descending(qResults')
             /\ qSearch' \in {"return", "done"} => NoneLeftOut(qResults', qHeard, qIndex)
    PROVE  SearchInv'
<1>1. Z!TypeOK'
  BY DEF SearchInv, Z!TypeOK
<1> QED BY <1>1 DEF SearchInv

LEMMA SearchMerges == ASSUME SearchInv, Z!Merge PROVE SearchInv'
<1> DEFINE left == Z!Deduplicated(qSeen)
<1>1. /\ qSearch = "merge" /\ qSearch' = "sort" /\ qResults' = Z!SetToSeq(left)
      /\ UNCHANGED <<qIndex, qSeen, qQuery, qHeard, qRaced>>
  BY DEF Z!Merge
<1>2. /\ qIndex \in Indexes /\ qSeen \in Seq(Z!Hits) /\ qHeard \subseteq Z!Holder
      /\ HitsAnswer(Z!ToSet(qSeen), qHeard, qIndex)
  BY <1>1 DEF SearchInv, Z!TypeOK
<1>3. /\ left \subseteq Z!ToSet(qSeen) /\ IsFiniteSet(left) /\ Alone(left)
      /\ \A f \in Indexes, n \in Z!Holder, k \in Nat :
           Covered(Z!ToSet(qSeen), f[n], k) => Covered(left, f[n], k)
  BY <1>2, DuplicatesDropped
<1> HIDE DEF left
<1>4. /\ qResults' \in Seq(left) /\ Z!ToSet(qResults') = left
      /\ \A i, j \in DOMAIN qResults' : qResults'[i] = qResults'[j] => i = j
  BY <1>1, <1>3, ListsSet
<1>5. left \subseteq Z!Hits
  BY <1>2, <1>3 DEF Z!ToSet
<1>6. qResults' \in Seq(Z!Hits)
  BY <1>4, <1>5
<1>7. HitsAnswer(Z!ToSet(qResults'), qHeard, qIndex)
  BY <1>2, <1>3, <1>4, AskedFor DEF HitsAnswer
<1>8. Once(qResults')
  <2>1. \A i \in DOMAIN qResults' : qResults'[i] \in left
    BY <1>4
  <2> QED BY <1>3, <1>4, <2>1 DEF Once, Alone
<1> QED BY <1>1, <1>2, <1>6, <1>7, <1>8, SearchMoves

LEMMA SearchSorts == ASSUME SearchInv, Z!Sort PROVE SearchInv'
<1>1. PICK t \in Z!SetToSeqs(DOMAIN qResults) :
        /\ qResults' = [i \in DOMAIN qResults |-> qResults[t[i]]]
        /\ Z!Descending(qResults')
  BY DEF Z!Sort
<1>2. /\ qSearch = "sort" /\ qSearch' = "cut"
      /\ UNCHANGED <<qIndex, qSeen, qQuery, qHeard, qRaced>>
  BY DEF Z!Sort
<1>3. qResults \in Seq(Z!Hits) /\ qSeen \in Seq(Z!Hits)
  BY DEF SearchInv, Z!TypeOK
<1>4. /\ qResults' \in Seq(Z!Hits) /\ Z!ToSet(qResults') = Z!ToSet(qResults)
      /\ Once(qResults) => Once(qResults')
  BY <1>1, <1>3, Sorted
<1>5. ~qRaced => HitsAnswer(Z!ToSet(qResults'), qHeard, qIndex) /\ Once(qResults')
  BY <1>2, <1>4 DEF SearchInv
<1> QED BY <1>1, <1>2, <1>3, <1>4, <1>5, SearchMoves

LEMMA SearchCuts == ASSUME SearchInv, Z!Cut PROVE SearchInv'
<1>1. /\ qSearch = "cut" /\ qSearch' = "return"
      /\ qResults' = SubSeq(qResults, 1, Z!Smaller(Len(qResults), BestK))
      /\ UNCHANGED <<qIndex, qSeen, qQuery, qHeard, qRaced>>
  BY DEF Z!Cut
<1>2. /\ qResults \in Seq(Z!Hits) /\ qSeen \in Seq(Z!Hits) /\ qIndex \in Indexes
      /\ qHeard \subseteq Z!Holder
  BY DEF SearchInv, Z!TypeOK
<1>3. qResults' \in Seq(Z!Hits)
  <2>1. Z!Smaller(Len(qResults), BestK) \in 0 .. Len(qResults)
    BY <1>2, SearchConstants DEF Z!Smaller
  <2> QED BY <1>1, <1>2, <2>1, Prefix
<1>4. ASSUME ~qRaced
      PROVE  /\ Once(qResults') /\ Z!Descending(qResults')
             /\ NoneLeftOut(qResults', qHeard, qIndex)
  <2>1. /\ HitsAnswer(Z!ToSet(qResults), qHeard, qIndex) /\ Once(qResults)
        /\ Z!Descending(qResults)
    BY <1>1, <1>4 DEF SearchInv
  <2>2. /\ Once(qResults') /\ Z!Descending(qResults')
        /\ \A f \in Indexes, n \in Z!Holder :
             Covered(Z!ToSet(qResults), f[n], Z!Asked(n))
               => NoneBetter(qResults', f[n], Z!Asked(n))
    BY <1>1, <1>2, <2>1, CutAnswers
  <2> QED BY <1>2, <2>1, <2>2 DEF HitsAnswer, NoneLeftOut
<1> QED BY <1>1, <1>2, <1>3, <1>4, SearchMoves

\* What the goroutine of a peer does to the record of it.
LEMMA QueryTyped ==
    ASSUME Z!TypeOK, NEW p \in Knowing, NEW q,
           q \in [pc : {"off", "ask", "append", "over"}, found : SUBSET Z!Hits],
           qQuery' = [qQuery EXCEPT ![p] = q]
    PROVE  /\ qQuery' \in [Knowing -> [pc : {"off", "ask", "append", "over"},
                                       found : SUBSET Z!Hits]]
           /\ qQuery'[p] = q /\ \A o \in Knowing : o # p => qQuery'[o] = qQuery[o]
BY DEF Z!TypeOK

LEMMA SearchAnswers == ASSUME SearchInv, NEW p \in Knowing, Z!Answer(p) PROVE SearchInv'
<1>1. PICK found \in Z!LocalSearch(p, Z!Asked(p)) :
        qQuery' = [qQuery EXCEPT ![p] = [pc |-> "append", found |-> found]]
  BY DEF Z!Answer
<1>2. UNCHANGED <<qIndex, qSearch, qResults, qSeen, qHeard, qRaced>>
  BY DEF Z!Answer
<1>3. Z!TypeOK /\ qIndex \in Indexes /\ p \in Z!Holder
  BY DEF SearchInv, Z!TypeOK, Z!Holder
<1>4. /\ IsFiniteSet(found) /\ found \subseteq Z!Hits
      /\ IsWhole(qIndex[p]) => Covered(found, qIndex[p], Z!Asked(p))
  BY <1>3, AskedFor, AnswersCover
<1> DEFINE q == [pc |-> "append", found |-> found]
<1>5. q \in [pc : {"off", "ask", "append", "over"}, found : SUBSET Z!Hits] /\ q.found = found
  BY <1>4
<1>6. qQuery' = [qQuery EXCEPT ![p] = q]
  BY <1>1
<1> HIDE DEF q
<1>7. /\ qQuery' \in [Knowing -> [pc : {"off", "ask", "append", "over"}, found : SUBSET Z!Hits]]
      /\ qQuery'[p] = q /\ \A o \in Knowing : o # p => qQuery'[o] = qQuery[o]
  BY <1>3, <1>5, <1>6, QueryTyped
<1>8. Z!TypeOK'
  BY <1>2, <1>3, <1>7 DEF Z!TypeOK
<1>9. HitsAnswer(found, {p}, qIndex)
  BY <1>4 DEF HitsAnswer
<1>10. \A o \in Knowing :
         /\ IsFiniteSet(qQuery'[o].found)
         /\ qQuery'[o].pc = "append" => HitsAnswer(qQuery'[o].found, {o}, qIndex')
  BY <1>2, <1>4, <1>5, <1>7, <1>9 DEF SearchInv
<1> QED BY <1>2, <1>8, <1>10 DEF SearchInv

\* A goroutine that has ended.
LEMMA QueryEnds ==
    ASSUME SearchInv, NEW p \in Knowing,
           qQuery' = [qQuery EXCEPT ![p].pc = "over"], qIndex' = qIndex
    PROVE  /\ qQuery' \in [Knowing -> [pc : {"off", "ask", "append", "over"},
                                       found : SUBSET Z!Hits]]
           /\ \A o \in Knowing :
                /\ IsFiniteSet(qQuery'[o].found)
                /\ qQuery'[o].pc = "append" => HitsAnswer(qQuery'[o].found, {o}, qIndex')
<1> DEFINE q == [qQuery[p] EXCEPT !.pc = "over"]
<1>1. Z!TypeOK
  BY DEF SearchInv
<1>2. qQuery[p] \in [pc : {"off", "ask", "append", "over"}, found : SUBSET Z!Hits]
  BY <1>1 DEF Z!TypeOK
<1>3. /\ q \in [pc : {"off", "ask", "append", "over"}, found : SUBSET Z!Hits]
      /\ q.found = qQuery[p].found /\ q.pc = "over"
  BY <1>2
<1>4. qQuery' = [qQuery EXCEPT ![p] = q]
  BY <1>1 DEF Z!TypeOK
<1> HIDE DEF q
<1>5. /\ qQuery' \in [Knowing -> [pc : {"off", "ask", "append", "over"}, found : SUBSET Z!Hits]]
      /\ qQuery'[p] = q /\ \A o \in Knowing : o # p => qQuery'[o] = qQuery[o]
  BY <1>1, <1>3, <1>4, QueryTyped
<1> QED BY <1>3, <1>5 DEF SearchInv

LEMMA SearchGivesUp == ASSUME SearchInv, NEW p \in Knowing, Z!Unanswered(p) PROVE SearchInv'
<1>1. /\ qQuery' = [qQuery EXCEPT ![p].pc = "over"]
      /\ UNCHANGED <<qIndex, qSearch, qResults, qSeen, qHeard, qRaced>>
  BY DEF Z!Unanswered
<1>2. /\ qQuery' \in [Knowing -> [pc : {"off", "ask", "append", "over"}, found : SUBSET Z!Hits]]
      /\ \A o \in Knowing :
           /\ IsFiniteSet(qQuery'[o].found)
           /\ qQuery'[o].pc = "append" => HitsAnswer(qQuery'[o].found, {o}, qIndex')
  BY <1>1, QueryEnds
<1>3. Z!TypeOK'
  BY <1>1, <1>2 DEF SearchInv, Z!TypeOK
<1> QED BY <1>1, <1>2, <1>3 DEF SearchInv

\* The elements of a sequence that is appended to another.
LEMMA Appended ==
    ASSUME NEW S, NEW s \in Seq(S), NEW t \in Seq(S)
    PROVE  s \o t \in Seq(S) /\ Z!ToSet(s \o t) = Z!ToSet(s) \cup Z!ToSet(t)
<1>1. /\ s \o t \in Seq(S) /\ DOMAIN s = 1 .. Len(s) /\ DOMAIN t = 1 .. Len(t)
      /\ DOMAIN (s \o t) = 1 .. Len(s) + Len(t) /\ Len(s) \in Nat /\ Len(t) \in Nat
  OBVIOUS
<1>2. \A i \in DOMAIN s : i \in DOMAIN (s \o t) /\ (s \o t)[i] = s[i]
  BY <1>1
<1>3. \A j \in DOMAIN t : Len(s) + j \in DOMAIN (s \o t) /\ (s \o t)[Len(s) + j] = t[j]
  BY <1>1
<1>4. \A i \in DOMAIN (s \o t) : \/ i \in DOMAIN s /\ (s \o t)[i] = s[i]
                                 \/ \E j \in DOMAIN t : (s \o t)[i] = t[j]
  <2> SUFFICES ASSUME NEW i \in DOMAIN (s \o t), i \notin DOMAIN s
               PROVE  \E j \in DOMAIN t : (s \o t)[i] = t[j]
    BY <1>2
  <2>1. i - Len(s) \in DOMAIN t /\ i = Len(s) + (i - Len(s))
    BY <1>1
  <2> QED BY <1>3, <2>1
<1>5. Z!ToSet(s \o t) = Z!ToSet(s) \cup Z!ToSet(t)
  <2> DEFINE both == s \o t
  <2>1. \A x \in Z!ToSet(both) : x \in Z!ToSet(s) \/ x \in Z!ToSet(t)
    BY <1>4 DEF Z!ToSet
  <2>2. \A i \in DOMAIN s : s[i] \in Z!ToSet(both)
    BY <1>2 DEF Z!ToSet
  <2>3. \A j \in DOMAIN t : t[j] \in Z!ToSet(both)
    BY <1>3 DEF Z!ToSet
  <2> HIDE DEF both
  <2>4. \A x \in Z!ToSet(s) \cup Z!ToSet(t) : x \in Z!ToSet(both)
    BY <2>2, <2>3 DEF Z!ToSet
  <2>5. Z!ToSet(both) = Z!ToSet(s) \cup Z!ToSet(t)
    BY <2>1, <2>4
  <2> QED BY <2>5 DEF both
<1> QED BY <1>1, <1>5

LEMMA SearchCollects == ASSUME SearchInv, NEW p \in Knowing, Z!Collect(p) PROVE SearchInv'
<1>1. /\ qQuery[p].pc = "append" /\ qQuery' = [qQuery EXCEPT ![p].pc = "over"]
      /\ UNCHANGED <<qIndex, qSearch, qSeen>>
  BY DEF Z!Collect
<1>2. /\ qQuery' \in [Knowing -> [pc : {"off", "ask", "append", "over"}, found : SUBSET Z!Hits]]
      /\ \A o \in Knowing :
           /\ IsFiniteSet(qQuery'[o].found)
           /\ qQuery'[o].pc = "append" => HitsAnswer(qQuery'[o].found, {o}, qIndex')
  BY <1>1, QueryEnds
<1>3. CASE Z!Over
  <2>1. UNCHANGED <<qResults, qHeard, qRaced>>
    BY <1>3 DEF Z!Collect
  <2>2. Z!TypeOK'
    BY <1>1, <1>2, <2>1 DEF SearchInv, Z!TypeOK
  <2> QED BY <1>1, <1>2, <2>1, <2>2 DEF SearchInv
<1>4. CASE ~Z!Over
  <2> DEFINE found == qQuery[p].found
             more == Z!SetToSeq(found)
  <2>1. PICK old \in {qResults} \cup IF qSearch = "wait" THEN {} ELSE {qSeen} :
          qResults' = old \o more
    BY <1>4 DEF Z!Collect
  <2>2. /\ qHeard' = IF qSearch = "wait" THEN qHeard \cup {p} ELSE qHeard
        /\ qRaced' = (qRaced \/ qSearch # "wait")
    BY <1>4 DEF Z!Collect
  <2>3. /\ Z!TypeOK /\ qResults \in Seq(Z!Hits) /\ qSeen \in Seq(Z!Hits)
        /\ qHeard \subseteq Z!Holder /\ qRaced \in BOOLEAN /\ p \in Z!Holder
    BY DEF SearchInv, Z!TypeOK, Z!Holder
  <2>4. found \in SUBSET Z!Hits /\ IsFiniteSet(found) /\ HitsAnswer(found, {p}, qIndex)
    BY <1>1 DEF SearchInv, Z!TypeOK
  <2> HIDE DEF found
  <2>5. more \in Seq(found) /\ Z!ToSet(more) = found
    BY <2>4, ListsSet
  <2>6. more \in Seq(Z!Hits)
    BY <2>4, <2>5
  <2> HIDE DEF more
  <2>7. old \in Seq(Z!Hits)
    BY <2>1, <2>3
  <2>8. qResults' \in Seq(Z!Hits) /\ Z!ToSet(qResults') = Z!ToSet(old) \cup found
    BY <2>1, <2>5, <2>6, <2>7, Appended
  <2>9. qHeard' \subseteq Z!Holder /\ qRaced' \in BOOLEAN
    BY <2>2, <2>3
  <2>10. Z!TypeOK'
    BY <1>1, <1>2, <2>3, <2>8, <2>9 DEF Z!TypeOK
  <2>11. ASSUME qSearch = "wait" PROVE HitsAnswer(Z!ToSet(qResults'), qHeard', qIndex')
    <3>1. old = qResults /\ qHeard' = qHeard \cup {p} /\ qIndex' = qIndex
      BY <1>1, <2>1, <2>2, <2>11
    <3>2. HitsAnswer(Z!ToSet(qResults), qHeard, qIndex)
      BY <2>11 DEF SearchInv
    <3> SUFFICES ASSUME NEW n \in qHeard \cup {p}, IsWhole(qIndex[n])
                 PROVE  Covered(Z!ToSet(qResults'), qIndex[n], Z!Asked(n))
      BY <3>1 DEF HitsAnswer
    <3>3. CASE n \in qHeard
      <4>1. Covered(Z!ToSet(qResults), qIndex[n], Z!Asked(n))
        BY <3>2, <3>3 DEF HitsAnswer
      <4>2. Z!ToSet(qResults) \subseteq Z!ToSet(qResults')
        BY <2>8, <3>1
      <4> QED BY <4>1, <4>2, CoveredGrows
    <3>4. CASE n = p
      <4>1. Covered(found, qIndex[n], Z!Asked(n))
        BY <2>4, <3>4 DEF HitsAnswer
      <4>2. found \subseteq Z!ToSet(qResults')
        BY <2>8
      <4> QED BY <4>1, <4>2, CoveredGrows
    <3> QED BY <3>3, <3>4
  <2>12. qSearch = "merge" => HitsAnswer(Z!ToSet(qSeen'), qHeard', qIndex')
    BY <1>1, <2>2 DEF SearchInv
  <2>13. ~qRaced' => qSearch = "wait"
    BY <2>2
  <2> QED BY <1>1, <1>2, <2>10, <2>11, <2>12, <2>13 DEF SearchInv
<1> QED BY <1>3, <1>4

LEMMA SearchInvStays == SearchInv /\ [Z!Next]_searching => SearchInv'
<1> SUFFICES ASSUME SearchInv, [Z!Next]_searching PROVE SearchInv'
  OBVIOUS
<1>1. CASE Z!Begin
  BY <1>1, SearchBegins
<1>2. CASE Z!Wait
  <2>1. /\ qSearch = "wait" /\ UNCHANGED <<qIndex, qResults, qQuery, qHeard, qRaced>>
        /\ \/ qSearch' = "merge" /\ qSeen' = qResults
           \/ qSearch' = "failed" /\ qSeen' = qSeen
    BY <1>2 DEF Z!Wait
  <2>2. /\ qResults \in Seq(Z!Hits) /\ qSeen \in Seq(Z!Hits)
        /\ HitsAnswer(Z!ToSet(qResults), qHeard, qIndex)
    BY <2>1 DEF SearchInv, Z!TypeOK
  <2> QED BY <2>1, <2>2, SearchMoves
<1>3. CASE Z!Merge
  BY <1>3, SearchMerges
<1>4. CASE Z!Sort
  BY <1>4, SearchSorts
<1>5. CASE Z!Cut
  BY <1>5, SearchCuts
<1>6. CASE Z!Return
  <2>1. /\ qSearch = "return" /\ qSearch' = "done"
        /\ UNCHANGED <<qIndex, qResults, qSeen, qQuery, qHeard, qRaced>>
    BY <1>6 DEF Z!Return
  <2>2. qResults' \in Seq(Z!Hits) /\ qSeen' \in Seq(Z!Hits)
    BY <2>1 DEF SearchInv, Z!TypeOK
  <2>3. ~qRaced => /\ Once(qResults') /\ Z!Descending(qResults')
                   /\ NoneLeftOut(qResults', qHeard, qIndex)
    BY <2>1 DEF SearchInv
  <2> QED BY <2>1, <2>2, <2>3, SearchMoves
<1>7. ASSUME NEW p \in Knowing, Z!Unanswered(p) \/ Z!Answer(p) \/ Z!Collect(p) PROVE SearchInv'
  BY <1>7, SearchGivesUp, SearchAnswers, SearchCollects
<1>8. CASE UNCHANGED searching
  <2>1. UNCHANGED <<qIndex, qSearch, qResults, qSeen, qQuery, qHeard, qRaced>>
    BY <1>8 DEF searching
  <2>2. Z!TypeOK'
    BY <2>1 DEF SearchInv, Z!TypeOK
  <2> QED BY <2>1, <2>2 DEF SearchInv
<1> QED BY <1>1, <1>2, <1>3, <1>4, <1>5, <1>6, <1>7, <1>8 DEF Z!Next

\* The invariant gives what is promised.
LEMMA SearchHolds == SearchInv => Z!TypeOK /\ Z!NoBetterLeftOut
<1> SUFFICES ASSUME SearchInv PROVE Z!TypeOK /\ Z!NoBetterLeftOut
  OBVIOUS
<1>1. Z!TypeOK
  BY DEF SearchInv
<1>2. ASSUME qSearch = "done", ~qRaced
      PROVE  /\ Z!Descending(qResults)
             /\ \A i, j \in DOMAIN qResults :
                  qResults[i].chunk = qResults[j].chunk => i = j
             /\ \A n \in Z!Whole : NoneBetter(qResults, qIndex[n], Z!Asked(n))
  <2>1. /\ Once(qResults) /\ Z!Descending(qResults)
        /\ NoneLeftOut(qResults, qHeard, qIndex)
    BY <1>2 DEF SearchInv
  <2>2. \A n \in Z!Whole : n \in qHeard /\ IsWhole(qIndex[n])
    BY DEF Z!Whole, IsWhole
  <2> QED BY <2>1, <2>2 DEF Once, NoneLeftOut
<1> QED BY <1>1, <1>2 DEF Z!NoBetterLeftOut, NoneBetter

-----------------------------------------------------------------------------
(* The node *)

\* The invariants of the parts, with that of the scheduler (SchedulerProofs).
PartsInv ==
    /\ IInv /\ McpInv /\ WorkerInv /\ LendingInv /\ PipelineInv /\ TunnelInv /\ PinInv
    /\ BrainInv /\ FilesInv /\ SettingsInv /\ GpuInv /\ SdnInv /\ VaultInv /\ PulseInv
    /\ MemoryInv /\ AuditInv /\ PlacementInv /\ RulesInv /\ SweepInv /\ SearchInv

\* The node begins in the invariant.
LEMMA PartsStart == PartsInit => PartsInv
BY InitIInv, McpStarts, WorkerStarts, LendingStarts, PipelineStarts, TunnelStarts, PinStarts,
   BrainStarts, FilesStart, SettingsStarts, GpuStarts, SdnStarts, VaultStarts, PulseStarts,
   MemoryStarts, AuditStarts, PlacementStarts, RulesStart, SweepStart, SearchStart
DEF PartsInit, PartsInv

\* A step of the node is one of a part, or leaves the part alone.
LEMMA PartsMove ==
    [PartsNext]_all =>
        /\ [Next]_vars
        /\ [C!Next]_(C!vars) /\ [W!Next]_(W!vars) /\ [L!Next]_(L!vars) /\ [P!Next]_(P!vars)
        /\ [T!Next]_(T!vars) /\ [B!Next]_(B!vars) /\ [K!Next]_(K!vars) /\ [F!Next]_(F!vars)
        /\ [E!Next]_(E!vars) /\ [G!Next]_(G!vars) /\ [D!Next]_(D!vars) /\ [V!Next]_(V!vars)
        /\ [U!Next]_(U!vars) /\ [M!Next]_(M!vars) /\ [A!Next]_(A!vars) /\ [N!Next]_(N!vars)
        /\ [X!Next]_(X!vars) /\ [Y!Next]_sweeping /\ [Z!Next]_searching
<1>1. /\ UNCHANGED gateway => UNCHANGED C!vars
      /\ UNCHANGED tasks => UNCHANGED W!vars
      /\ UNCHANGED lending => UNCHANGED L!vars
      /\ UNCHANGED pipelines => UNCHANGED P!vars
      /\ UNCHANGED tunnels => UNCHANGED T!vars
      /\ UNCHANGED pinned => UNCHANGED B!vars
      /\ UNCHANGED brain => UNCHANGED K!vars
      /\ UNCHANGED files => UNCHANGED F!vars
      /\ UNCHANGED settings => UNCHANGED E!vars
      /\ UNCHANGED gpus => UNCHANGED G!vars
      /\ UNCHANGED sdn => UNCHANGED D!vars
      /\ UNCHANGED credentials => UNCHANGED V!vars
      /\ UNCHANGED pulsing => UNCHANGED U!vars
      /\ UNCHANGED memories => UNCHANGED M!vars
      /\ UNCHANGED auditing => UNCHANGED A!vars
      /\ UNCHANGED placing => UNCHANGED N!vars
      /\ UNCHANGED compiling => UNCHANGED X!vars
  BY DEF gateway, C!vars, tasks, W!vars, lending, L!vars, pipelines, P!vars, tunnels, T!vars,
         pinned, B!vars, brain, K!vars, files, F!vars, settings, E!vars, gpus, G!vars, sdn, D!vars,
         credentials, V!vars, pulsing, U!vars, memories, M!vars, auditing, A!vars,
         placing, N!vars, compiling, X!vars
<1> QED BY <1>1 DEF PartsNext, all

\* Every step of the node keeps the invariant.
LEMMA PartsInvStays == PartsInv /\ [PartsNext]_all => PartsInv'
BY PartsMove, NextIInv, McpInvStays, WorkerInvStays, LendingInvStays, PipelineInvStays,
   TunnelInvStays, PinInvStays, BrainInvStays, FilesInvStays, SettingsInvStays, GpuInvStays,
   SdnInvStays, VaultInvStays, PulseInvStays, MemoryInvStays, AuditInvStays,
   PlacementInvStays, RulesInvStays, SweepInvStays, SearchInvStays
DEF PartsInv

\* The node is always in the invariant.
LEMMA PartsInvariance == PartsSpec => []PartsInv
BY PartsStart, PartsInvStays, PTL DEF PartsSpec

\* Every variable of every part always has its type.
THEOREM PartsAreTyped == PartsSpec => []TypesOK
<1>1. PartsInv => TypesOK
  BY McpHolds, LendingHolds, PipelineHolds, TunnelHolds, PinHolds, BrainHolds, FilesHold,
     SettingsHolds, VaultHolds, PulseHolds, MemoryHolds, AuditHolds, SweepHolds, SearchHolds
  DEF PartsInv, IInv, WorkerInv, LendingInv, GpuInv, SdnInv, PlacementInv, TypesOK
<1> QED BY PartsInvariance, <1>1, PTL

\* An MCP server never has two processes, nor a caller the answer to another call, and a
\* sandboxed task leaves no process and no control group behind.
THEOREM ProcessesSound == PartsSpec => []ProcessesAreSound
<1>1. PartsInv => ProcessesAreSound
  BY McpHolds, WorkerHolds DEF PartsInv, ProcessesAreSound
<1> QED BY PartsInvariance, <1>1, PTL

\* A borrowed node serves, an image is of a whole prompt, a connected tunnel is served, and
\* a browser that is refused will be let in; a sweep reaches every host of the small subnets,
\* and a search leaves out no chunk of a node that it heard for a worse one.
THEOREM RemoteWorkSound == PartsSpec => []RemoteWorkIsSound
<1>1. PartsInv => RemoteWorkIsSound
  BY LendingHolds, PipelineHolds, TunnelHolds, PinHolds, SweepHolds, SearchHolds
  DEF PartsInv, RemoteWorkIsSound
<1> QED BY PartsInvariance, <1>1, PTL

\* What is kept twice agrees, also after a crash: texts and vectors, files and copies,
\* settings, credentials and keys, insights and their list.
THEOREM StoresSound == PartsSpec => []StoresAreSound
<1>1. PartsInv => StoresAreSound
  BY BrainHolds, FilesHold, SettingsHolds, VaultHolds, PulseHolds DEF PartsInv, StoresAreSound
<1> QED BY PartsInvariance, <1>1, PTL

\* No call works on a GPU without a reservation, and what is reserved or held fits the device;
\* no task goes to a member that another one beats, and a preferred node gets it.
THEOREM PlacementsSound == PartsSpec => []PlacementsAreSound
<1>1. PartsInv => PlacementsAreSound
  BY GpuHolds, NonePassedOver, PreferredTaken DEF PartsInv, PlacementsAreSound
<1> QED BY PartsInvariance, <1>1, PTL

\* The rules that a peer confirmed last are those that its kernel enforces; no rules lock the
\* administrator out, and no band exceeds its segment.
THEOREM RulesSound == PartsSpec => []RulesAreSound
<1>1. PartsInv => RulesAreSound
  BY NeverLockedOut, BandsWithin DEF PartsInv, SdnInv, RulesAreSound
<1> QED BY PartsInvariance, <1>1, PTL

\* Memories are told apart, counted and ordered as they are used, and the audit log keeps its
\* newest events in order.
THEOREM RecordsKept == PartsSpec => []RecordsAreKept
<1>1. PartsInv => RecordsAreKept
  BY MemoryHolds, AuditHolds DEF PartsInv, RecordsAreKept
<1> QED BY PartsInvariance, <1>1, PTL
=============================================================================
