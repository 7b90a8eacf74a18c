-------------------------- MODULE StreamTableProofs --------------------------
(***************************************************************************)
(* Proofs about the stream table, for any handlers, ids, frames, queue     *)
(* capacities and ceilings.  WithinCeilings needs ReleasedIsClean (a claim *)
(* resets the count of an id that must have had none) and the types.       *)
(***************************************************************************)
EXTENDS StreamTable, FiniteSetTheorems, SequenceTheorems, TLAPS

IInv == TableType /\ WithinCeilings /\ ReleasedIsClean /\ TotalIsSum

-----------------------------------------------------------------------------
(* Sums.  SumFunctionOnSet takes the elements in the order of a CHOOSE; that *)
(* the sum exists and does not depend on it is shown by induction over the   *)
(* size of the set.  The induction theorems of the library have an operator  *)
(* for a parameter; this one has the set of numbers of which a thing holds.  *)

LEMMA Induction ==
  ASSUME NEW T, 0 \in T, \A n \in Nat : n \in T => n + 1 \in T
  PROVE  Nat \subseteq T
<1> SUFFICES ASSUME Nat \ T # {} PROVE FALSE  OBVIOUS
<1>1. PICK n \in Nat \ T : \A m \in Nat \ T : ~(<<m, n>> \in OpToRel(<, Nat))
  BY WFMin, NatLessThanWellFounded
<1>2. n # 0 /\ n - 1 \in Nat /\ n - 1 < n  OBVIOUS
<1>3. n - 1 \in T
  <2>1. <<n - 1, n>> \in OpToRel(<, Nat)  BY <1>2 DEF OpToRel
  <2> QED  BY <1>1, <1>2, <2>1
<1>4. (n - 1) + 1 = n  OBVIOUS
<1> QED  BY <1>2, <1>3, <1>4

\* what the sum of f over D is the value of: iterations over the parts of D,
\* which exist (first over the parts of up to n elements)
One(s) == CHOOSE x \in s : TRUE
Iterates(f, D, g) ==
  g = [s \in SUBSET D |-> IF s = {} THEN 0 ELSE f[One(s)] + g[s \ {One(s)}]]

LEMMA SumIterates ==
  ASSUME NEW f, NEW D
  PROVE  SumFunctionOnSet(f, D) = (CHOOSE g : Iterates(f, D, g))[D]
BY DEF SumFunctionOnSet, FoldFunctionOnSet, MapThenFoldSet, Iterates, One

UpTo(D, n) == {s \in SUBSET D : Cardinality(s) <= n}
Partly(f, D, n, g) ==
  g = [s \in UpTo(D, n) |-> IF s = {} THEN 0 ELSE f[One(s)] + g[s \ {One(s)}]]

LEMMA OneLess ==
  ASSUME NEW D, IsFiniteSet(D), NEW s \in SUBSET D, s # {}, NEW a \in s
  PROVE  /\ One(s) \in s /\ s \ {a} \in SUBSET D
         /\ Cardinality(s) \in Nat /\ Cardinality(s \ {a}) \in Nat
         /\ Cardinality(s) = Cardinality(s \ {a}) + 1
<1>1. IsFiniteSet(s)  BY FS_Subset
<1>2. Cardinality(s \ {a}) = Cardinality(s) - 1 /\ IsFiniteSet(s \ {a})  BY <1>1, FS_RemoveElement
<1> QED  BY <1>1, <1>2, FS_CardinalityType DEF One

LEMMA IterationExists ==
  ASSUME NEW D, IsFiniteSet(D), NEW f
  PROVE  \E g : Iterates(f, D, g)
<1> DEFINE T == {n \in Nat : \E g : Partly(f, D, n, g)}
<1>1. 0 \in T
  <2>1. \A s \in UpTo(D, 0) : s = {}
    <3> SUFFICES ASSUME NEW s \in UpTo(D, 0), s # {} PROVE FALSE  OBVIOUS
    <3>1. s \in SUBSET D /\ Cardinality(s) <= 0  BY DEF UpTo
    <3>2. IsFiniteSet(s) /\ Cardinality(s) \in Nat  BY <3>1, FS_Subset, FS_CardinalityType
    <3>3. Cardinality(s) = 0  BY <3>1, <3>2
    <3> QED  BY <3>2, <3>3, FS_EmptySet
  <2>2. Partly(f, D, 0, [s \in UpTo(D, 0) |-> 0])  BY <2>1 DEF Partly
  <2> QED  BY <2>2
<1>2. ASSUME NEW n \in Nat, n \in T PROVE n + 1 \in T
  <2>1. PICK g : Partly(f, D, n, g)  BY <1>2
  <2> DEFINE h == [s \in UpTo(D, n + 1) |-> IF s = {} THEN 0 ELSE f[One(s)] + g[s \ {One(s)}]]
  <2>2. \A s \in UpTo(D, n + 1) : s # {} => s \ {One(s)} \in UpTo(D, n) /\ s \ {One(s)} \in UpTo(D, n + 1)
    <3> SUFFICES ASSUME NEW s \in UpTo(D, n + 1), s # {} 
                 PROVE s \ {One(s)} \in UpTo(D, n) /\ s \ {One(s)} \in UpTo(D, n + 1)
      OBVIOUS
    <3>1. s \in SUBSET D /\ One(s) \in s /\ Cardinality(s) <= n + 1  BY DEF One, UpTo
    <3>2. /\ s \ {One(s)} \in SUBSET D /\ Cardinality(s \ {One(s)}) \in Nat
          /\ Cardinality(s) = Cardinality(s \ {One(s)}) + 1
      BY <3>1, OneLess
    <3> QED  BY <3>1, <3>2 DEF UpTo
  <2>3. \A s \in UpTo(D, n) : s \in UpTo(D, n + 1)
    <3> SUFFICES ASSUME NEW s \in UpTo(D, n) PROVE s \in UpTo(D, n + 1)  OBVIOUS
    <3>1. Cardinality(s) \in Nat  BY FS_Subset, FS_CardinalityType DEF UpTo
    <3> QED  BY <3>1 DEF UpTo
  <2>4. \A s \in UpTo(D, n) : h[s] = g[s]  BY <2>1, <2>3 DEF Partly
  <2>5. Partly(f, D, n + 1, h)  BY <2>2, <2>4 DEF Partly
  <2> QED  BY <2>5
<1>3. Cardinality(D) \in Nat  BY FS_CardinalityType
<1>4. Cardinality(D) \in T
  <2> HIDE DEF T
  <2>1. Nat \subseteq T  BY <1>1, <1>2, Induction
  <2> QED  BY <1>3, <2>1
<1>5. UpTo(D, Cardinality(D)) = SUBSET D  BY FS_Subset DEF UpTo
<1> QED  BY <1>4, <1>5 DEF Partly, Iterates

Iteration(f, D) == CHOOSE g : Iterates(f, D, g)

LEMMA Iterate ==
  ASSUME NEW D, IsFiniteSet(D), NEW f
  PROVE  /\ SumFunctionOnSet(f, D) = Iteration(f, D)[D] /\ Iteration(f, D)[{}] = 0
         /\ \A s \in SUBSET D : s # {} => Iteration(f, D)[s] = f[One(s)] + Iteration(f, D)[s \ {One(s)}]
<1>1. Iterates(f, D, Iteration(f, D))  BY IterationExists DEF Iteration
<1>2. SumFunctionOnSet(f, D) = Iteration(f, D)[D]  BY SumIterates DEF Iteration
<1>3. {} \in SUBSET D  OBVIOUS
<1> QED  BY <1>1, <1>2, <1>3 DEF Iterates

\* the sum over a part does not depend on the rest
LEMMA SumPart ==
  ASSUME NEW D, IsFiniteSet(D), NEW E, IsFiniteSet(E), NEW f, NEW h,
         NEW T, T \subseteq D, T \subseteq E, \A x \in T : f[x] = h[x]
  PROVE  Iteration(f, D)[T] = Iteration(h, E)[T]
<1> DEFINE S == {n \in Nat : \A s \in SUBSET T : Cardinality(s) = n =>
                               Iteration(f, D)[s] = Iteration(h, E)[s]}
<1>0. IsFiniteSet(T)  BY FS_Subset
<1>1. 0 \in S
  <2>1. \A s \in SUBSET T : Cardinality(s) = 0 => s = {}  BY <1>0, FS_Subset, FS_EmptySet
  <2> QED  BY <2>1, Iterate
<1>2. ASSUME NEW n \in Nat, n \in S PROVE n + 1 \in S
  <2> SUFFICES ASSUME NEW s \in SUBSET T, Cardinality(s) = n + 1
               PROVE  Iteration(f, D)[s] = Iteration(h, E)[s]
    OBVIOUS
  <2>1. s # {}  BY FS_EmptySet
  <2>2. One(s) \in s  BY <2>1 DEF One
  <2>3. s \ {One(s)} \in SUBSET T /\ Cardinality(s \ {One(s)}) = n
    BY <1>0, <2>1, <2>2, OneLess
  <2>4. Iteration(f, D)[s \ {One(s)}] = Iteration(h, E)[s \ {One(s)}]  BY <1>2, <2>3
  <2> QED  BY <2>1, <2>2, <2>4, Iterate
<1>3. Cardinality(T) \in S
  <2> HIDE DEF S
  <2> QED  BY <1>0, <1>1, <1>2, Induction, FS_CardinalityType
<1> QED  BY <1>3

LEMMA SumSame ==
  ASSUME NEW D, IsFiniteSet(D), NEW f, NEW h, \A x \in D : f[x] = h[x]
  PROVE  SumFunctionOnSet(f, D) = SumFunctionOnSet(h, D)
BY SumPart, Iterate

LEMMA SumOne ==
  ASSUME NEW D, IsFiniteSet(D), NEW f, D # {}
  PROVE  SumFunctionOnSet(f, D) = f[One(D)] + SumFunctionOnSet(f, D \ {One(D)})
<1>1. D \ {One(D)} \in SUBSET D /\ IsFiniteSet(D \ {One(D)})  BY FS_Subset
<1>2. Iteration(f, D)[D \ {One(D)}] = Iteration(f, D \ {One(D)})[D \ {One(D)}]
  BY <1>1, SumPart
<1>3. SumFunctionOnSet(f, D \ {One(D)}) = Iteration(f, D \ {One(D)})[D \ {One(D)}]
  BY <1>1, Iterate
<1>4. /\ SumFunctionOnSet(f, D) = Iteration(f, D)[D]
      /\ Iteration(f, D)[D] = f[One(D)] + Iteration(f, D)[D \ {One(D)}]
  <2>1. D \in SUBSET D  OBVIOUS
  <2> QED  BY <2>1, Iterate
<1> QED  BY <1>2, <1>3, <1>4

LEMMA SumNone == ASSUME NEW f PROVE SumFunctionOnSet(f, {}) = 0
BY Iterate, FS_EmptySet

LEMMA SumNat ==
  ASSUME NEW D, IsFiniteSet(D), NEW f, \A x \in D : f[x] \in Nat
  PROVE  SumFunctionOnSet(f, D) \in Nat
<1> DEFINE T == {n \in Nat : \A s \in SUBSET D : Cardinality(s) = n => SumFunctionOnSet(f, s) \in Nat}
<1>1. 0 \in T
  <2>1. \A s \in SUBSET D : Cardinality(s) = 0 => s = {}  BY FS_Subset, FS_EmptySet
  <2>2. SumFunctionOnSet(f, {}) = 0  BY SumNone
  <2> QED  BY <2>1, <2>2
<1>2. ASSUME NEW n \in Nat, n \in T PROVE n + 1 \in T
  <2> SUFFICES ASSUME NEW s \in SUBSET D, Cardinality(s) = n + 1 PROVE SumFunctionOnSet(f, s) \in Nat
    OBVIOUS
  <2>1. s # {} /\ IsFiniteSet(s)  BY FS_EmptySet, FS_Subset
  <2>2. One(s) \in s  BY <2>1 DEF One
  <2>3. s \ {One(s)} \in SUBSET D /\ Cardinality(s \ {One(s)}) = n  BY <2>1, <2>2, OneLess
  <2>4. SumFunctionOnSet(f, s) = f[One(s)] + SumFunctionOnSet(f, s \ {One(s)})  BY <2>1, SumOne
  <2>5. SumFunctionOnSet(f, s \ {One(s)}) \in Nat  BY <1>2, <2>3
  <2>6. f[One(s)] \in Nat  BY <2>2
  <2> QED  BY <2>4, <2>5, <2>6
<1>3. Cardinality(D) \in T
  <2> HIDE DEF T
  <2> QED  BY <1>1, <1>2, Induction, FS_CardinalityType
<1> QED  BY <1>3

\* whichever element comes first
LEMMA SumLess ==
  ASSUME NEW D, IsFiniteSet(D), NEW f, \A x \in D : f[x] \in Nat, NEW a \in D
  PROVE  SumFunctionOnSet(f, D) = f[a] + SumFunctionOnSet(f, D \ {a})
<1> DEFINE T == {n \in Nat : \A s \in SUBSET D : Cardinality(s) = n => \A b \in s :
                   SumFunctionOnSet(f, s) = f[b] + SumFunctionOnSet(f, s \ {b})}
<1>1. 0 \in T
  <2>1. \A s \in SUBSET D : Cardinality(s) = 0 => s = {}  BY FS_Subset, FS_EmptySet
  <2> QED  BY <2>1
<1>2. ASSUME NEW n \in Nat, n \in T PROVE n + 1 \in T
  <2> SUFFICES ASSUME NEW s \in SUBSET D, Cardinality(s) = n + 1, NEW b \in s
               PROVE  SumFunctionOnSet(f, s) = f[b] + SumFunctionOnSet(f, s \ {b})
    OBVIOUS
  <2>1. s # {} /\ IsFiniteSet(s)  BY FS_EmptySet, FS_Subset
  <2>2. PICK x \in s : x = One(s)  BY <2>1 DEF One
  <2>5. SumFunctionOnSet(f, s) = f[x] + SumFunctionOnSet(f, s \ {x})  BY <2>1, <2>2, SumOne
  <2>6. CASE b = x  BY <2>5, <2>6
  <2>7. CASE b # x
    <3>1. PICK rest : rest = (s \ {x}) \ {b}  OBVIOUS
    <3>2. b \in s \ {x} /\ x \in s \ {b} /\ (s \ {b}) \ {x} = rest  BY <3>1, <2>2, <2>7
    <3>3. \A c \in s : s \ {c} \in SUBSET D /\ Cardinality(s \ {c}) = n  BY <2>1, OneLess
    <3>4. SumFunctionOnSet(f, s \ {x}) = f[b] + SumFunctionOnSet(f, rest)
      BY <1>2, <3>1, <3>2, <3>3
    <3>5. SumFunctionOnSet(f, s \ {b}) = f[x] + SumFunctionOnSet(f, rest)
      BY <1>2, <3>2, <3>3
    <3>6. rest \in SUBSET D /\ IsFiniteSet(rest)  BY <3>1, FS_Subset
    <3>7. SumFunctionOnSet(f, rest) \in Nat  BY <3>6, SumNat
    <3>8. f[b] \in Nat /\ f[x] \in Nat  OBVIOUS
    <3> QED  BY <2>5, <3>4, <3>5, <3>7, <3>8
  <2> QED  BY <2>6, <2>7
<1>3. Cardinality(D) \in T
  <2> HIDE DEF T
  <2> QED  BY <1>1, <1>2, Induction, FS_CardinalityType
<1> QED  BY <1>3

LEMMA SumZero ==
  ASSUME NEW D, IsFiniteSet(D), NEW f, \A x \in D : f[x] = 0
  PROVE  SumFunctionOnSet(f, D) = 0
<1> DEFINE T == {n \in Nat : \A s \in SUBSET D : Cardinality(s) = n => SumFunctionOnSet(f, s) = 0}
<1>1. 0 \in T
  <2>1. \A s \in SUBSET D : Cardinality(s) = 0 => s = {}  BY FS_Subset, FS_EmptySet
  <2>2. SumFunctionOnSet(f, {}) = 0  BY SumNone
  <2> QED  BY <2>1, <2>2
<1>2. ASSUME NEW n \in Nat, n \in T PROVE n + 1 \in T
  <2> SUFFICES ASSUME NEW s \in SUBSET D, Cardinality(s) = n + 1 PROVE SumFunctionOnSet(f, s) = 0
    OBVIOUS
  <2>1. s # {} /\ IsFiniteSet(s)  BY FS_EmptySet, FS_Subset
  <2>2. One(s) \in s  BY <2>1 DEF One
  <2>3. s \ {One(s)} \in SUBSET D /\ Cardinality(s \ {One(s)}) = n  BY <2>1, <2>2, OneLess
  <2>4. SumFunctionOnSet(f, s) = f[One(s)] + SumFunctionOnSet(f, s \ {One(s)})  BY <2>1, SumOne
  <2> QED  BY <1>2, <2>2, <2>3, <2>4
<1>3. Cardinality(D) \in T
  <2> HIDE DEF T
  <2> QED  BY <1>1, <1>2, Induction, FS_CardinalityType
<1> QED  BY <1>3

\* over an interval, without its last element and without its first
LEMMA SumInterval ==
  ASSUME NEW lo \in Nat, NEW hi \in Nat, lo <= hi, NEW f, \A i \in lo..hi : f[i] \in Nat,
         NEW below \in Int, hi = below + 1
  PROVE  /\ SumFunctionOnSet(f, lo..hi) = f[hi] + SumFunctionOnSet(f, lo..below)
         /\ SumFunctionOnSet(f, lo..hi) = f[lo] + SumFunctionOnSet(f, (lo + 1)..hi)
<1>1. IsFiniteSet(lo..hi)  BY FS_Interval
<1>2. lo \in lo..hi /\ hi \in lo..hi  OBVIOUS
<1>3. (lo..hi) \ {hi} = lo..below /\ (lo..hi) \ {lo} = (lo + 1)..hi  OBVIOUS
<1>4. /\ SumFunctionOnSet(f, lo..hi) = f[hi] + SumFunctionOnSet(f, (lo..hi) \ {hi})
      /\ SumFunctionOnSet(f, lo..hi) = f[lo] + SumFunctionOnSet(f, (lo..hi) \ {lo})
  BY <1>1, <1>2, SumLess
<1> QED  BY <1>3, <1>4

LEMMA SumUpdate ==
  ASSUME NEW D, IsFiniteSet(D), NEW f \in [D -> Nat], NEW a \in D, NEW v \in Nat
  PROVE  /\ SumFunction(f) \in Nat /\ f[a] <= SumFunction(f)
         /\ SumFunction([f EXCEPT ![a] = v]) = SumFunction(f) - f[a] + v
<1>1. PICK h \in [D -> Nat] : h = [f EXCEPT ![a] = v]  OBVIOUS
<1>2. /\ SumFunctionOnSet(f, D) = f[a] + SumFunctionOnSet(f, D \ {a})
      /\ SumFunctionOnSet(f, D) \in Nat
  BY SumLess, SumNat
<1>3. SumFunctionOnSet(h, D) = h[a] + SumFunctionOnSet(h, D \ {a})  BY SumLess
<1>4. IsFiniteSet(D \ {a})  BY FS_Subset
<1>5. SumFunctionOnSet(f, D \ {a}) \in Nat  BY <1>4, SumNat
<1>6. \A x \in D \ {a} : f[x] = h[x]  BY <1>1
<1>7. SumFunctionOnSet(f, D \ {a}) = SumFunctionOnSet(h, D \ {a})  BY <1>4, <1>6, SumSame
<1>8. SumFunction(f) = SumFunctionOnSet(f, D) /\ SumFunction(h) = SumFunctionOnSet(h, D)
  BY DEF SumFunction
<1> QED  BY <1>1, <1>2, <1>3, <1>5, <1>7, <1>8

\* items put at the end of a queue and taken from its front
LEMMA SizeAppend ==
  ASSUME NEW S, \A x \in S : x.n \in Nat, NEW q \in Seq(S), NEW item \in S
  PROVE  /\ SizeOf(q) \in Nat
         /\ SizeOf(Append(q, item)) = SizeOf(q) + item.n
<1> DEFINE f == [i \in DOMAIN q |-> q[i].n]
           g == [i \in DOMAIN Append(q, item) |-> Append(q, item)[i].n]
           D == 1..(Len(q) + 1)
<1>1. DOMAIN q = 1..Len(q) /\ DOMAIN Append(q, item) = D /\ Len(q) \in Nat  OBVIOUS
<1>2. IsFiniteSet(1..Len(q)) /\ IsFiniteSet(D)  BY <1>1, FS_Interval
<1>3. /\ \A i \in 1..Len(q) : f[i] \in Nat /\ f[i] = g[i]
      /\ \A i \in D : g[i] \in Nat
      /\ g[Len(q) + 1] = item.n
  <2>1. \A i \in 1..Len(q) : q[i] \in S /\ Append(q, item)[i] = q[i]  OBVIOUS
  <2>2. Append(q, item)[Len(q) + 1] = item  OBVIOUS
  <2> QED  BY <1>1, <2>1, <2>2
<1>4. SizeOf(q) = SumFunctionOnSet(f, 1..Len(q)) /\ SizeOf(Append(q, item)) = SumFunctionOnSet(g, D)
  BY <1>1 DEF SizeOf, SumFunction
<1> HIDE DEF f, g
<1>6. SumFunctionOnSet(g, D) = g[Len(q) + 1] + SumFunctionOnSet(g, 1..Len(q))
  <2>1. PICK last \in Nat : last = Len(q) + 1  BY <1>1
  <2>2. 1 <= last /\ \A i \in 1..last : g[i] \in Nat  BY <1>1, <1>3, <2>1
  <2>3. SumFunctionOnSet(g, 1..last) = g[last] + SumFunctionOnSet(g, 1..Len(q))
    BY <1>1, <2>1, <2>2, SumInterval
  <2> QED  BY <2>1, <2>3
<1>7. /\ SumFunctionOnSet(f, 1..Len(q)) = SumFunctionOnSet(g, 1..Len(q))
      /\ SumFunctionOnSet(f, 1..Len(q)) \in Nat
  BY <1>2, <1>3, SumSame, SumNat
<1> QED  BY <1>3, <1>4, <1>6, <1>7

LEMMA SizeTail ==
  ASSUME NEW S, \A x \in S : x.n \in Nat, NEW q \in Seq(S), q # <<>>
  PROVE  SizeOf(q) = Head(q).n + SizeOf(Tail(q)) /\ SizeOf(Tail(q)) \in Nat /\ Head(q).n \in Nat
<1> DEFINE f == [i \in DOMAIN q |-> q[i].n]
           g == [i \in DOMAIN Tail(q) |-> Tail(q)[i].n]
<1>1. /\ Len(q) \in Nat \ {0} /\ DOMAIN q = 1..Len(q) /\ DOMAIN Tail(q) = 1..(Len(q) - 1)
      /\ Tail(q) \in Seq(S) /\ Head(q) \in S
  OBVIOUS
<1>2. /\ \A i \in 1..Len(q) : f[i] \in Nat
      /\ \A i \in 1..(Len(q) - 1) : g[i] = f[i + 1] /\ g[i] \in Nat
      /\ f[1] = Head(q).n
  <2>1. \A i \in 1..Len(q) : q[i] \in S  OBVIOUS
  <2>2. \A i \in 1..(Len(q) - 1) : Tail(q)[i] = q[i + 1]  OBVIOUS
  <2> QED  BY <1>1, <2>1, <2>2
<1>3. SizeOf(q) = SumFunctionOnSet(f, 1..Len(q)) /\ SizeOf(Tail(q)) = SumFunctionOnSet(g, 1..(Len(q) - 1))
  BY <1>1 DEF SizeOf, SumFunction
<1> HIDE DEF f, g
<1> DEFINE T == {n \in Nat : n <= Len(q) - 1 =>
                    SumFunctionOnSet(g, 1..n) = SumFunctionOnSet(f, 2..(n + 1))}
<1>4. 0 \in T
  <2>1. 1..0 = {} /\ 2..(0 + 1) = {}  OBVIOUS
  <2> QED  BY <2>1, SumNone
<1>5. ASSUME NEW n \in Nat, n \in T PROVE n + 1 \in T
  <2> SUFFICES ASSUME n + 1 <= Len(q) - 1
               PROVE  SumFunctionOnSet(g, 1..(n + 1)) = SumFunctionOnSet(f, 2..(n + 2))
    OBVIOUS
  <2>1. PICK k \in Nat : k = n + 1  OBVIOUS
  <2>2. PICK l \in Nat : l = k + 1  OBVIOUS
  <2>3. /\ \A i \in 1..k : g[i] \in Nat
        /\ \A i \in 2..l : f[i] \in Nat
        /\ g[k] = f[l] /\ 1 <= k /\ 2 <= l
    BY <1>1, <1>2, <2>1, <2>2
  <2>4. SumFunctionOnSet(g, 1..k) = g[k] + SumFunctionOnSet(g, 1..n)
    BY <2>1, <2>3, SumInterval
  <2>5. SumFunctionOnSet(f, 2..l) = f[l] + SumFunctionOnSet(f, 2..k)
    BY <2>2, <2>3, SumInterval
  <2>6. n <= Len(q) - 1 /\ k = n + 1 /\ l = n + 2  BY <1>1, <2>1, <2>2
  <2> QED  BY <1>5, <2>3, <2>4, <2>5, <2>6
<1>6. Len(q) - 1 \in T
  <2> HIDE DEF T
  <2> QED  BY <1>1, <1>4, <1>5, Induction
<1>7. SumFunctionOnSet(g, 1..(Len(q) - 1)) = SumFunctionOnSet(f, 2..Len(q))  BY <1>1, <1>6
<1>8. IsFiniteSet(1..(Len(q) - 1))
  <2>1. Len(q) - 1 \in Int /\ 1 \in Int  BY <1>1
  <2> QED  BY <2>1, FS_Interval
<1>9. SumFunctionOnSet(f, 1..Len(q)) = f[1] + SumFunctionOnSet(f, 2..Len(q))
  <2>0. Len(q) - 1 \in Int  BY <1>1
  <2>1. PICK less \in Int : less = Len(q) - 1  BY <2>0
  <2>2. Len(q) = less + 1 /\ 1 <= Len(q) /\ Len(q) \in Nat  BY <1>1, <2>1
  <2>3. SumFunctionOnSet(f, 1..Len(q)) = f[1] + SumFunctionOnSet(f, (1 + 1)..Len(q))
    BY <1>2, <2>2, SumInterval
  <2> QED  BY <2>3
<1>10. SumFunctionOnSet(g, 1..(Len(q) - 1)) \in Nat  BY <1>2, <1>8, SumNat
<1> QED  BY <1>1, <1>2, <1>3, <1>7, <1>9, <1>10

LEMMA SizeNone ==
  ASSUME NEW S, NEW q \in Seq(S), \A i \in DOMAIN q : q[i].n = 0
  PROVE  SizeOf(q) = 0
<1> DEFINE f == [i \in DOMAIN q |-> q[i].n]
<1>1. DOMAIN q = 1..Len(q) /\ Len(q) \in Nat  OBVIOUS
<1>2. SizeOf(q) = SumFunctionOnSet(f, 1..Len(q))  BY <1>1 DEF SizeOf, SumFunction
<1>5. Len(q) \in Int /\ 1 \in Int  BY <1>1
<1>4. IsFiniteSet(1..Len(q))  BY <1>5, FS_Interval
<1>3. \A i \in 1..Len(q) : f[i] = 0  BY <1>1
<1> QED  BY <1>2, <1>3, <1>4, SumZero

LEMMA SizeOfEmpty == SizeOf(<<>>) = 0
<1>1. <<>> \in Seq(Item) /\ \A i \in DOMAIN <<>> : <<>>[i].n = 0  OBVIOUS
<1> QED  BY <1>1, SizeNone

\* what the two ends of a queue do to its size
LEMMA Sizes ==
  ASSUME NEW S, \A x \in S : x.n \in Nat, NEW q \in Seq(S)
  PROVE  /\ SizeOf(q) \in Nat
         /\ \A x \in S : SizeOf(Append(q, x)) = SizeOf(q) + x.n
         /\ q # <<>> => /\ Head(q) \in S /\ Head(q).n \in Nat
                        /\ Tail(q) \in Seq(S) /\ SizeOf(Tail(q)) \in Nat
                        /\ SizeOf(q) = Head(q).n + SizeOf(Tail(q))
<1>1. ASSUME q # <<>>
      PROVE  /\ Head(q) \in S /\ Head(q).n \in Nat /\ Tail(q) \in Seq(S)
             /\ SizeOf(Tail(q)) \in Nat /\ SizeOf(q) = Head(q).n + SizeOf(Tail(q))
  BY <1>1, SizeTail, HeadTailProperties
<1>2. SizeOf(q) \in Nat
  <2>1. CASE q = <<>>  BY <2>1, SizeOfEmpty
  <2>2. CASE q # <<>>  BY <2>2, <1>1
  <2> QED  BY <2>1, <2>2
<1>3. \A x \in S : SizeOf(Append(q, x)) = SizeOf(q) + x.n  BY SizeAppend
<1> QED  BY <1>1, <1>2, <1>3

LEMMA ItemSizes == \A x \in Item : x.n \in Nat
BY DEF Item

-----------------------------------------------------------------------------

LEMMA RegisteredFinite == IsFiniteSet(Registered) /\ Cardinality(Registered) \in Nat
<1>1. Registered \subseteq Ids  BY DEF Registered
<1> QED  BY <1>1, TableAssumption, FS_Subset, FS_CardinalityType

\* a set of registered ids that does not grow stays under the limit
LEMMA FewerRegistered ==
  ASSUME Cardinality(Registered) <= MaxStreams, Registered' \subseteq Registered
  PROVE  Cardinality(Registered') <= MaxStreams
<1>1. Cardinality(Registered') <= Cardinality(Registered) /\ IsFiniteSet(Registered')
  BY RegisteredFinite, FS_Subset
<1>2. Cardinality(Registered') \in Nat  BY <1>1, FS_CardinalityType
<1> QED  BY <1>1, <1>2, RegisteredFinite, TableAssumption

\* the queues hold control tuples whatever is put into or taken from them
LEMMA QueueTypes ==
  ASSUME ctrlQ \in [Handlers -> Seq(Item)], NEW h \in Handlers
  PROVE  /\ \A item \in Item : PutIfRoom(h, item) => ctrlQ' \in [Handlers -> Seq(Item)]
         /\ TakeItem(h) => ctrlQ' \in [Handlers -> Seq(Item)]
         /\ CloseAllStreams => ctrlQ' \in [Handlers -> Seq(Item)]
         /\ [ctrlQ EXCEPT ![h] = <<>>] \in [Handlers -> Seq(Item)]
<1>1. Close \in Item  BY DEF Close, Signal, Item, Tags
<1>2. ASSUME NEW item \in Item, PutIfRoom(h, item) PROVE ctrlQ' \in [Handlers -> Seq(Item)]
  BY <1>2 DEF PutIfRoom
<1>3. ASSUME TakeItem(h) PROVE ctrlQ' \in [Handlers -> Seq(Item)]
  BY <1>3 DEF TakeItem
<1>4. ASSUME CloseAllStreams PROVE ctrlQ' \in [Handlers -> Seq(Item)]
  BY <1>1, <1>4 DEF CloseAllStreams
<1> QED  BY <1>2, <1>3, <1>4

-----------------------------------------------------------------------------
(* One lemma per operation of the table: the ceilings and the clean release  *)
(* survive it.                                                               *)

\* one count of the sum changes
LEMMA ChargeSum ==
  ASSUME IInv, NEW id \in Ids, NEW n \in Nat
  PROVE  /\ totalBytes \in Nat /\ streamBytes[id] \in Nat /\ streamBytes[id] <= totalBytes
         /\ SumFunction([streamBytes EXCEPT ![id] = n]) = totalBytes - streamBytes[id] + n
<1>1. /\ IsFiniteSet(Ids) /\ streamBytes \in [Ids -> Nat]
      /\ totalBytes \in Nat /\ totalBytes = SumFunction(streamBytes)
  BY TableAssumption DEF IInv, TableType, TotalIsSum
<1> QED  BY <1>1, SumUpdate

LEMMA ClaimKeeps ==
  ASSUME IInv, NEW h \in Handlers, NEW id \in Ids, Claim(h, id)
  PROVE  IInv'
<1> USE DEF IInv
<1>1. streams[id] = NoHandler /\ Cardinality(Registered) < MaxStreams
  BY RegisteredFinite, TableAssumption DEF Claim, ClaimError, TableType
<1>2. TableType'  BY QueueTypes DEF TableType, Claim
<1>3. Registered' = Registered \cup {id} /\ id \notin Registered
  BY <1>1, TableAssumption DEF Claim, TableType, Registered
<1>7. Cardinality(Registered') = Cardinality(Registered) + 1
  BY <1>3, RegisteredFinite, FS_AddElement
<1>4. Cardinality(Registered') <= MaxStreams
  BY <1>1, <1>7, RegisteredFinite, TableAssumption
<1>5. WithinCeilings'
  BY <1>4, TableAssumption DEF TableType, Claim, WithinCeilings
<1>6. ReleasedIsClean'  BY <1>1, TableAssumption DEF TableType, Claim, ReleasedIsClean
<1>8. TotalIsSum'
  <2>1. streamBytes' = streamBytes  BY <1>1 DEF Claim, ReleasedIsClean, TableType
  <2> QED  BY <2>1 DEF Claim, TotalIsSum
<1> QED  BY <1>2, <1>5, <1>6, <1>8

LEMMA FrameKeeps ==
  ASSUME IInv, NEW id \in Ids, NEW item \in Item, StreamCtrl(id, item)
  PROVE  IInv'
<1> USE DEF IInv
<1>1. streams[id] \in Handlers /\ streams[id] # NoHandler
  BY DEF StreamCtrl, Live, TableType
<1>2. Close \in Item /\ item.n \in Nat  BY DEF Close, Signal, Item, Tags
<1>3. CASE CtrlOverflow(id, item)
  <2>1. ctrlQ' \in [Handlers -> Seq(Item)]
    BY <1>1, <1>2, <1>3, QueueTypes DEF CtrlOverflow, TableType
  <2>2. Registered' = Registered  BY <1>3 DEF CtrlOverflow, Registered
  <2> QED  BY <1>1, <1>3, <2>1, <2>2, FewerRegistered
           DEF CtrlOverflow, TableType, WithinCeilings, ReleasedIsClean, TotalIsSum
<1>4. CASE CtrlData(id, item)
  <2>1. ctrlQ' \in [Handlers -> Seq(Item)]
    BY <1>1, <1>4, QueueTypes DEF CtrlData, TableType
  <2>2. Registered' = Registered  BY <1>4 DEF CtrlData, Registered
  <2>3. TableType'  BY <1>2, <1>4, <2>1 DEF CtrlData, TableType
  <2>4. WithinCeilings'
    BY <1>2, <1>4, <2>2, TableAssumption DEF CtrlData, Overflows, TableType, WithinCeilings
  <2>5. ReleasedIsClean'  BY <1>1, <1>4 DEF CtrlData, TableType, ReleasedIsClean
  <2>6. TotalIsSum'
    <3>1. streamBytes[id] + item.n \in Nat /\ streamBytes[id] \in Nat  BY <1>2 DEF TableType
    <3>2. /\ totalBytes \in Nat
          /\ SumFunction([streamBytes EXCEPT ![id] = streamBytes[id] + item.n])
               = totalBytes - streamBytes[id] + (streamBytes[id] + item.n)
      BY <3>1, ChargeSum
    <3> QED  BY <1>2, <1>4, <3>1, <3>2 DEF CtrlData, TotalIsSum
  <2> QED  BY <2>3, <2>4, <2>5, <2>6
<1>5. CASE CtrlDropped(id, item)
  BY <1>5 DEF CtrlDropped, tableVars, TableType, WithinCeilings, ReleasedIsClean, TotalIsSum, Registered
<1>6. CASE CtrlSignal(id, item)
  <2>1. ctrlQ' \in [Handlers -> Seq(Item)]
    BY <1>1, <1>6, QueueTypes DEF CtrlSignal, TableType
  <2> QED  BY <1>6, <2>1 DEF CtrlSignal, TableType, WithinCeilings, ReleasedIsClean, TotalIsSum, Registered
<1> QED  BY <1>3, <1>4, <1>5, <1>6 DEF StreamCtrl

LEMMA DrainKeeps ==
  ASSUME IInv, NEW id \in Ids, NEW n \in Nat, DrainBytes(id, n), UNCHANGED <<streams, closing>>,
         ctrlQ' \in [Handlers -> Seq(Item)]
  PROVE  IInv'
<1> USE DEF IInv
<1>1. Drained(id, n) \in Nat /\ Drained(id, n) <= streamBytes[id] /\ streamBytes[id] \in Nat
  BY DEF Drained, TableType
<1>2. Registered' = Registered  BY DEF Registered
<1>3. /\ totalBytes' \in Nat /\ totalBytes' <= totalBytes
      /\ streamBytes' \in [Ids -> Nat]
      /\ \A other \in Ids : streamBytes'[other] <= streamBytes[other]
  BY <1>1 DEF DrainBytes, TableType
<1>4. TableType'  BY <1>3 DEF TableType
<1>5. WithinCeilings'  BY <1>2, <1>3, TableAssumption DEF WithinCeilings, TableType
<1>6. ReleasedIsClean'  BY <1>3 DEF ReleasedIsClean, TableType
<1>7. TotalIsSum'
  <2> DEFINE d == Drained(id, n)
  <2>1. streamBytes[id] - d \in Nat  BY <1>1
  <2>2. /\ totalBytes \in Nat /\ streamBytes[id] <= totalBytes
        /\ SumFunction([streamBytes EXCEPT ![id] = streamBytes[id] - d])
             = totalBytes - streamBytes[id] + (streamBytes[id] - d)
    BY <2>1, ChargeSum
  <2>3. totalBytes' = totalBytes - d  BY <1>1, <2>2 DEF DrainBytes
  <2> HIDE DEF d
  <2>4. streamBytes' = [streamBytes EXCEPT ![id] = streamBytes[id] - d]  BY DEF DrainBytes, d
  <2> QED  BY <1>1, <2>2, <2>3, <2>4 DEF TotalIsSum, d
<1> QED  BY <1>4, <1>5, <1>6, <1>7

LEMMA ReleaseKeeps ==
  ASSUME IInv, NEW h \in Handlers, NEW id \in Ids, streams[id] = h, ReleaseStream(h, id)
  PROVE  IInv'
<1> USE DEF IInv
<1>1. AfterRelease(id) \in Nat /\ AfterRelease(id) <= totalBytes
  BY DEF AfterRelease, TableType
<1>6. ctrlQ' \in [Handlers -> Seq(Item)]  BY QueueTypes DEF ReleaseStream, TableType
<1>7. /\ streams' = [streams EXCEPT ![id] = NoHandler]
      /\ streamBytes' = [streamBytes EXCEPT ![id] = 0]
      /\ totalBytes' = AfterRelease(id)
      /\ closing' \subseteq closing
  BY DEF ReleaseStream, StillClosing
<1>2. TableType'  BY <1>1, <1>6, <1>7 DEF TableType
<1>3. Registered' \subseteq Registered  BY DEF ReleaseStream, Registered, TableType
<1>4. WithinCeilings'
  BY <1>1, <1>3, FewerRegistered, TableAssumption DEF WithinCeilings, ReleaseStream, TableType
<1>5. ReleasedIsClean'  BY DEF ReleasedIsClean, ReleaseStream, StillClosing, TableType
<1>8. TotalIsSum'
  <2>1. /\ totalBytes \in Nat /\ streamBytes[id] \in Nat /\ streamBytes[id] <= totalBytes
        /\ SumFunction([streamBytes EXCEPT ![id] = 0]) = totalBytes - streamBytes[id] + 0
    BY ChargeSum
  <2> QED  BY <1>7, <2>1 DEF AfterRelease, TotalIsSum
<1> QED  BY <1>2, <1>4, <1>5, <1>8

-----------------------------------------------------------------------------

LEMMA NothingCharged == SumFunction([id \in Ids |-> 0]) = 0
<1> DEFINE f == [id \in Ids |-> 0]
<1>1. SumFunctionOnSet(f, Ids) = 0  BY SumZero, TableAssumption
<1> QED  BY <1>1 DEF SumFunction

LEMMA InitIInv == TableInit => IInv
<1> SUFFICES ASSUME TableInit PROVE IInv  OBVIOUS
<1>1. Registered = {}  BY DEF TableInit, Registered
<1>2. Cardinality(Registered) = 0  BY <1>1, FS_EmptySet
<1>3. TableType /\ ReleasedIsClean  BY DEF TableInit, TableType, ReleasedIsClean
<1>4. WithinCeilings  BY <1>2, TableAssumption DEF TableInit, WithinCeilings
<1>5. TotalIsSum  BY NothingCharged DEF TableInit, TotalIsSum
<1> QED  BY <1>3, <1>4, <1>5 DEF IInv

LEMMA NextIInv == IInv /\ [TableNext]_tableVars => IInv'
<1> SUFFICES ASSUME IInv, [TableNext]_tableVars PROVE IInv'  OBVIOUS
<1>1. CASE ClaimOne  BY <1>1, ClaimKeeps DEF ClaimOne
<1>2. ASSUME NEW id \in Ids, NEW item \in Frames, StreamCtrl(id, item) PROVE IInv'
  BY <1>2, FrameKeeps, TableAssumption
<1>3. CASE Consume
  <2>1. ctrlQ' \in [Handlers -> Seq(Item)]  BY <1>3, QueueTypes DEF Consume, IInv, TableType
  <2> QED  BY <1>3, <2>1 DEF Consume, IInv, TableType, WithinCeilings, ReleasedIsClean, TotalIsSum,
      Registered
<1>4. ASSUME NEW id \in Ids, NEW n \in 0..StreamCap,
             DrainBytes(id, n), UNCHANGED <<streams, closing>>,
             ctrlQ' = ctrlQ \/ \E h \in Handlers : TakeItem(h)
      PROVE  IInv'
  <2>1. ctrlQ' \in [Handlers -> Seq(Item)]  BY <1>4, QueueTypes DEF IInv, TableType
  <2>2. n \in Nat  BY TableAssumption
  <2> QED  BY <1>4, <2>1, <2>2, DrainKeeps
<1>5. CASE ReleaseOwn  BY <1>5, ReleaseKeeps DEF ReleaseOwn
<1>6. CASE CloseAllStreams
  <2>1. ctrlQ' \in [Handlers -> Seq(Item)]
    <3>1. Close \in Item  BY DEF Close, Signal, Item, Tags
    <3> QED  BY <1>6, <3>1 DEF CloseAllStreams, IInv, TableType
  <2> QED  BY <1>6, <2>1
           DEF CloseAllStreams, IInv, TableType, WithinCeilings, ReleasedIsClean, TotalIsSum, Registered
<1>7. CASE NewTable
  <2>1. Registered' = {}  BY <1>7 DEF NewTable, Registered
  <2>2. Cardinality(Registered') = 0  BY <2>1, FS_EmptySet
  <2>3. TableType' /\ ReleasedIsClean'  BY <1>7 DEF NewTable, TableType, ReleasedIsClean
  <2>4. WithinCeilings'  BY <1>7, <2>2, TableAssumption DEF NewTable, WithinCeilings
  <2>5. TotalIsSum'  BY <1>7, NothingCharged DEF NewTable, TotalIsSum
  <2> QED  BY <2>3, <2>4, <2>5 DEF IInv
<1>8. CASE UNCHANGED tableVars
  BY <1>8 DEF tableVars, IInv, TableType, WithinCeilings, ReleasedIsClean, TotalIsSum, Registered
<1> QED  BY <1>1, <1>2, <1>3, <1>4, <1>5, <1>6, <1>7, <1>8 DEF TableNext, Drain

(* The three hold together in every state of the table.                      *)
THEOREM Invariant == TableSpec => []IInv
  BY InitIInv, NextIInv, PTL DEF TableSpec

(* Ids, queues, counts and marks keep their types: no count goes below zero, *)
(* although drains and releases arrive in any order.  (gateway.py 305-309,   *)
(* 534-543)                                                                  *)
THEOREM TypeCorrect == TableSpec => []TableType
<1>1. IInv => TableType  BY DEF IInv
<1> QED  BY <1>1, Invariant, PTL

(* No interleaving of frames, drains and releases takes a stream, or the     *)
(* session, past its byte ceiling, or the table past its number of streams.  *)
(* (gateway.py 276-282, 527)                                                 *)
THEOREM CeilingsHold == TableSpec => []WithinCeilings
<1>1. IInv => WithinCeilings  BY DEF IInv
<1> QED  BY <1>1, Invariant, PTL

(* An id nobody owns has no bytes held against it and is not marked closing, *)
(* so its next owner starts afresh.  (gateway.py 517-543)                    *)
THEOREM CleanRelease == TableSpec => []ReleasedIsClean
<1>1. IInv => ReleasedIsClean  BY DEF IInv
<1> QED  BY <1>1, Invariant, PTL

(* The session's count of bytes is the sum of its streams' counts, for any   *)
(* number of streams and frames of any size: neither clamp ever loses a      *)
(* byte.  (gateway.py 298-309, 534-543)                                      *)
THEOREM TotalHolds == TableSpec => []TotalIsSum
<1>1. IInv => TotalIsSum  BY DEF IInv
<1> QED  BY <1>1, Invariant, PTL
=============================================================================
