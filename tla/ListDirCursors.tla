--------------------------- MODULE ListDirCursors ---------------------------
(***************************************************************************)
(* Lemmas about the cursors of list_dir.                                   *)
(*                                                                         *)
(* A cursor divides the paths into those it has passed and those to come.  *)
(* The lemmas say how each operation of the command on its stack moves     *)
(* that division, and which files are reported when it moves.              *)
(***************************************************************************)
EXTENDS ListDir, SequenceTheorems, TLAPS

-----------------------------------------------------------------------------
(* Stacks of frames. *)

(* The path of a frame is made of the positions of the frames below it. *)
Shape(s) ==
  \A j \in 1..Len(s) :
    Len(s[j].path) = j - 1 /\ \A i \in 1..(j - 1) : s[j].path[i] = s[i].after

\* p is in the directory of frame k, or below it
Under(s, k, p) == k <= Len(p) /\ \A i \in 1..(k - 1) : p[i] = s[i].after

PassedIn(s, k, p) ==
  /\ Under(s, k, p)
  /\ \/ p[k] < s[k].after
     \/ p[k] = s[k].after /\ (k = Len(s) \/ k = Len(p))

Passed(s, p) == s = <<>> \/ \E k \in 1..Len(s) : PassedIn(s, k, p)

\* still to come in the directory of the last frame
Left(s, p) == Under(s, Len(s), p) /\ p[Len(s)] > s[Len(s)].after

\* the position of the last frame moved on to n
MovedOn(s, n) == [s EXCEPT ![Len(s)].after = n]

LEMMA PathFacts ==
  ASSUME NEW p \in Paths
  PROVE  /\ p \in Seq(Names) /\ Len(p) \in Nat
         /\ \A i \in 1..Len(p) : p[i] \in Names /\ p[i] \in Nat /\ p[i] > 0
<1>1. p \in Seq(Names) /\ Names \subseteq Nat \ {0}  BY ListDirAssumption DEF ListDirAssumption
<1>2. Len(p) \in Nat /\ \A i \in 1..Len(p) : p[i] \in Names
  BY <1>1, ElementOfSeq, LenProperties
<1>3. \A n \in Names : n \in Nat /\ n > 0  BY <1>1
<1> QED  BY <1>1, <1>2, <1>3

LEMMA FrameFacts ==
  ASSUME NEW s \in Seq(Frame)
  PROVE  /\ Len(s) \in Nat
         /\ \A i \in 1..Len(s) : s[i].path \in Paths /\ s[i].after \in Nat
         /\ s # <<>> => Len(s) \in 1..Len(s) /\ Last(s) = s[Len(s)] /\ Last(s) \in Frame
<1>1. Len(s) \in Nat /\ \A i \in 1..Len(s) : s[i] \in Frame
  BY ElementOfSeq, LenProperties
<1>4. \A x \in Names \cup {0} : x \in Nat  BY ListDirAssumption DEF ListDirAssumption
<1>2. ASSUME NEW f \in Frame PROVE f.path \in Paths /\ f.after \in Nat
  <2>1. f.path \in Paths /\ f.after \in Names \cup {0}  BY DEF Frame
  <2> QED  BY <2>1, <1>4
<1>3. s # <<>> => Len(s) > 0  BY EmptySeq, <1>1
<1> QED  BY <1>1, <1>2, <1>3 DEF Last

(* Closing the directory of the last frame: what was to come there is passed *)
(* over.                                                                     *)
LEMMA FrontStack ==
  ASSUME NEW s \in Seq(Frame), s # <<>>, Shape(s)
  PROVE  /\ Front(s) \in Seq(Frame) /\ Len(Front(s)) = Len(s) - 1 /\ Shape(Front(s))
         /\ \A p \in Paths : Passed(s, p) => Passed(Front(s), p)
         /\ \A p \in Paths \ {<<>>} : Passed(Front(s), p) => Passed(s, p) \/ Left(s, p)
<1> DEFINE k == Len(s)
           r == Front(s)
<1>1. k \in Nat /\ k >= 1 /\ \A i \in 1..k : s[i].after \in Nat /\ s[i] \in Frame
  BY FrameFacts, ElementOfSeq
<1>2. r \in Seq(Frame) /\ Len(r) = k - 1 /\ \A i \in 1..(k - 1) : r[i] = s[i]
  <2>1. 1 \in Int /\ k - 1 \in Int /\ \A i \in 1..(k - 1) : s[i] \in Frame  BY <1>1
  <2>2. SubSeq(s, 1, k - 1) \in Seq(Frame)  BY <2>1, SubSeqProperties
  <2>3. Len(SubSeq(s, 1, k - 1)) = k - 1
    <3>1. Len(SubSeq(s, 1, k - 1)) = IF 1 <= k - 1 THEN k - 1 - 1 + 1 ELSE 0
      BY ONLY <2>1, SubSeqProperties
    <3>2. \A n \in Nat : n >= 1 => (IF 1 <= n - 1 THEN n - 1 - 1 + 1 ELSE 0) = n - 1
      OBVIOUS
    <3> QED  BY <3>1, <3>2, <1>1
  <2>4. \A i \in 1..(k - 1) : SubSeq(s, 1, k - 1)[i] = s[i]
    BY <1>1
  <2> QED  BY <2>2, <2>3, <2>4 DEF Front
<1> HIDE DEF r
<1>3. Shape(r)
  <2> SUFFICES ASSUME NEW j \in 1..Len(r)
               PROVE  Len(r[j].path) = j - 1 /\ \A i \in 1..(j - 1) : r[j].path[i] = r[i].after
    BY DEF Shape
  <2>1. j \in 1..k /\ r[j] = s[j] /\ \A i \in 1..(j - 1) : r[i] = s[i]  BY <1>1, <1>2
  <2> QED  BY <2>1 DEF Shape
<1>4. r = <<>> <=> k = 1  BY <1>1, <1>2, EmptySeq
<1>5. ASSUME NEW p \in Paths, Passed(s, p) PROVE Passed(r, p)
  <2>1. PICK j \in 1..k : PassedIn(s, j, p)  BY <1>5, <1>1 DEF Passed
  <2>2. CASE j < k
    <3>1. j \in 1..Len(r)  BY <2>2, <1>1, <1>2
    <3>2. Under(r, j, p)  BY <2>1, <2>2, <1>1, <1>2 DEF PassedIn, Under
    <3>3. r[j] = s[j] /\ (j = k \/ j = Len(p) => j = Len(r) \/ j = Len(p))  BY <2>2, <1>1, <1>2
    <3> QED  BY <2>1, <3>1, <3>2, <3>3 DEF PassedIn, Passed
  <2>3. CASE j = k /\ k > 1
    <3>1. k - 1 \in 1..Len(r)  BY <2>3, <1>1, <1>2
    <3>2. Len(p) \in Nat  BY PathFacts
    <3>3. Under(r, k - 1, p)  BY <2>1, <2>3, <3>2, <1>1, <1>2 DEF PassedIn, Under
    <3>4. p[k - 1] = r[k - 1].after  BY <2>1, <2>3, <1>1, <1>2 DEF PassedIn, Under
    <3> QED  BY <3>1, <3>3, <3>4, <1>2 DEF PassedIn, Passed
  <2>4. CASE j = k /\ k = 1  BY <2>4, <1>4 DEF Passed
  <2> QED  BY <2>2, <2>3, <2>4, <1>1
<1>6. ASSUME NEW p \in Paths \ {<<>>}, Passed(r, p) PROVE Passed(s, p) \/ Left(s, p)
  <2>1. Len(p) \in Nat /\ Len(p) >= 1 /\ \A i \in 1..Len(p) : p[i] \in Nat
    BY PathFacts, EmptySeq
  <2>2. CASE Under(s, k, p)
    <3>1. p[k] \in Nat /\ s[k].after \in Nat  BY <2>1, <2>2, <1>1 DEF Under
    <3>2. CASE p[k] > s[k].after  BY <3>2, <2>2 DEF Left
    <3>3. CASE p[k] <= s[k].after
      <4>1. PassedIn(s, k, p)  BY <3>1, <3>3, <2>2 DEF PassedIn
      <4> QED  BY <4>1, <1>1 DEF Passed
    <3> QED  BY <3>1, <3>2, <3>3
  <2>3. CASE ~Under(s, k, p)
    <3>1. k > 1  BY <2>1, <2>3, <1>1 DEF Under
    <3>2. PICK j \in 1..(k - 1) : PassedIn(r, j, p)  BY <1>6, <1>2, <1>4, <3>1, <1>1 DEF Passed
    <3>3. Under(s, j, p)
      <4>1. Under(r, j, p)  BY <3>2 DEF PassedIn
      <4>2. \A i \in 1..(j - 1) : r[i] = s[i]  BY <1>1, <1>2
      <4> QED  BY <4>1, <4>2 DEF Under
    <3>4. r[j] = s[j] /\ j \in 1..k  BY <1>1, <1>2
    <3>5. p[j] < s[j].after \/ (p[j] = s[j].after /\ j = Len(p))
      <4>1. p[j] < s[j].after \/ (p[j] = s[j].after /\ (j = k - 1 \/ j = Len(p)))
        BY <3>2, <3>4, <1>2 DEF PassedIn
      <4>2. CASE p[j] = s[j].after /\ j = k - 1 /\ j # Len(p)
        <5>1. k <= Len(p)  BY <4>2, <3>3, <2>1, <1>1 DEF Under
        <5>2. ASSUME NEW i \in 1..(k - 1) PROVE p[i] = s[i].after
          <6>1. i = j \/ i \in 1..(j - 1)  BY <4>2, <1>1
          <6> QED  BY <6>1, <4>2, <3>3 DEF Under
        <5> QED  BY <5>1, <5>2, <2>3 DEF Under
      <4> QED  BY <4>1, <4>2
    <3> QED  BY <3>3, <3>4, <3>5 DEF PassedIn, Passed
  <2> QED  BY <2>2, <2>3
<1> QED  BY <1>2, <1>3, <1>5, <1>6 DEF r

(* Visiting a name: what lies before it is passed over, what it stands for   *)
(* is passed.                                                                *)
LEMMA MovedOnStack ==
  ASSUME NEW s \in Seq(Frame), s # <<>>, Shape(s),
         NEW n \in Names, n > s[Len(s)].after
  PROVE  /\ MovedOn(s, n) \in Seq(Frame) /\ Len(MovedOn(s, n)) = Len(s) /\ Shape(MovedOn(s, n))
         /\ Last(MovedOn(s, n)) = [path |-> Last(s).path, after |-> n]
         /\ \A i \in 1..(Len(s) - 1) : MovedOn(s, n)[i] = s[i]
         /\ \A p \in Paths : Passed(s, p) => Passed(MovedOn(s, n), p)
         /\ \A p \in Paths : Passed(MovedOn(s, n), p)
                              => Passed(s, p) \/ (Left(s, p) /\ p[Len(s)] <= n)
<1> DEFINE k == Len(s)
           t == MovedOn(s, n)
<1>1. k \in Nat /\ k >= 1 /\ k \in 1..k /\ \A i \in 1..k : s[i].after \in Nat /\ s[i] \in Frame
  BY FrameFacts, ElementOfSeq
<1>2. n \in Nat /\ n \in Names \cup {0}  BY ListDirAssumption DEF ListDirAssumption
<1>3. [s[k] EXCEPT !.after = n] = [path |-> s[k].path, after |-> n]
  BY <1>1 DEF Frame
<1>4. [path |-> s[k].path, after |-> n] \in Frame
  <2>1. s[k].path \in Paths  BY <1>1, FrameFacts
  <2> QED  BY <2>1, <1>2 DEF Frame
<1>5. t = [s EXCEPT ![k] = [path |-> s[k].path, after |-> n]]
  BY <1>3 DEF MovedOn
<1>6. /\ t \in Seq(Frame) /\ Len(t) = k
      /\ t[k] = [path |-> s[k].path, after |-> n]
      /\ \A i \in 1..(k - 1) : t[i] = s[i]
  BY <1>1, <1>4, <1>5, ExceptSeq
<1>7. t # <<>>  BY <1>1, <1>6, EmptySeq
<1> HIDE DEF t
<1>8. Shape(t)
  <2> SUFFICES ASSUME NEW j \in 1..k
               PROVE  Len(t[j].path) = j - 1 /\ \A i \in 1..(j - 1) : t[j].path[i] = t[i].after
    BY <1>6 DEF Shape
  <2>1. t[j].path = s[j].path
    <3>1. j = k \/ j \in 1..(k - 1)  BY <1>1
    <3> QED  BY <3>1, <1>6
  <2>2. \A i \in 1..(j - 1) : t[i] = s[i]  BY <1>1, <1>6
  <2> QED  BY <2>1, <2>2 DEF Shape
<1>9. Last(t) = [path |-> Last(s).path, after |-> n]  BY <1>6 DEF Last
<1>10. \A j \in 1..k, p \in Paths : Under(t, j, p) <=> Under(s, j, p)
  <2> SUFFICES ASSUME NEW j \in 1..k, NEW p \in Paths
               PROVE  Under(t, j, p) <=> Under(s, j, p)
    OBVIOUS
  <2>1. \A i \in 1..(j - 1) : t[i] = s[i]  BY <1>1, <1>6
  <2> QED  BY <2>1 DEF Under
<1>11. ASSUME NEW p \in Paths, Passed(s, p) PROVE Passed(t, p)
  <2>1. PICK j \in 1..k : PassedIn(s, j, p)  BY <1>11, <1>1 DEF Passed
  <2>2. Under(t, j, p)  BY <2>1, <1>10 DEF PassedIn
  <2>3. CASE j = k
    <3>1. j \in 1..Len(p) /\ p[j] \in Nat  BY <2>2, PathFacts, <1>1 DEF Under
    <3>2. p[k] < s[k].after \/ p[k] = s[k].after  BY <2>1, <2>3 DEF PassedIn
    <3>3. p[k] < n  BY <3>1, <3>2, <2>3, <1>1, <1>2
    <3>4. PassedIn(t, k, p)  BY <3>3, <2>2, <2>3, <1>6 DEF PassedIn
    <3> QED  BY <3>4, <1>1, <1>6 DEF Passed
  <2>4. CASE j # k
    <3>1. t[j] = s[j]  BY <2>4, <1>1, <1>6
    <3>2. PassedIn(t, j, p)  BY <3>1, <2>1, <2>2, <1>6 DEF PassedIn
    <3> QED  BY <3>2, <1>6 DEF Passed
  <2> QED  BY <2>3, <2>4
<1>12. ASSUME NEW p \in Paths, Passed(t, p) PROVE Passed(s, p) \/ (Left(s, p) /\ p[k] <= n)
  <2>1. PICK j \in 1..k : PassedIn(t, j, p)  BY <1>12, <1>6, <1>7 DEF Passed
  <2>2. Under(s, j, p)  BY <2>1, <1>10 DEF PassedIn
  <2>3. CASE j = k
    <3>1. j \in 1..Len(p) /\ p[j] \in Nat  BY <2>2, PathFacts, <1>1 DEF Under
    <3>2. p[k] < n \/ p[k] = n  BY <2>1, <2>3, <1>6 DEF PassedIn
    <3>3. CASE p[k] > s[k].after
      <4>1. p[k] <= n  BY <3>1, <3>2, <2>3, <1>2
      <4> QED  BY <4>1, <3>3, <2>2, <2>3 DEF Left
    <3>4. CASE p[k] <= s[k].after
      <4>1. PassedIn(s, k, p)  BY <3>1, <3>4, <2>2, <2>3, <1>1 DEF PassedIn
      <4> QED  BY <4>1, <1>1 DEF Passed
    <3> QED  BY <3>1, <3>3, <3>4, <2>3, <1>1
  <2>4. CASE j # k
    <3>1. t[j] = s[j]  BY <2>4, <1>1, <1>6
    <3>2. PassedIn(s, j, p)  BY <3>1, <2>1, <2>2, <1>6 DEF PassedIn
    <3> QED  BY <3>2, <1>1 DEF Passed
  <2> QED  BY <2>3, <2>4
<1> QED  BY <1>6, <1>8, <1>9, <1>11, <1>12 DEF t

(* What is to come in the directory of the last frame has its path.          *)
LEMMA LeftPath ==
  ASSUME NEW s \in Seq(Frame), s # <<>>, Shape(s), NEW p \in Paths, Under(s, Len(s), p)
  PROVE  /\ Len(s) - 1 \in 0..(Len(p) - 1) /\ p[Len(s)] \in Names
         /\ SubSeq(p, 1, Len(s) - 1) = Last(s).path
         /\ SubSeq(p, 1, Len(s)) = Child(Last(s).path, p[Len(s)])
         /\ Child(Last(s).path, p[Len(s)]) \in Paths
         /\ Len(p) = Len(s) => p = Child(Last(s).path, p[Len(s)])
<1> DEFINE k == Len(s)
           d == Last(s).path
<1>1. k \in Nat /\ k >= 1 /\ k \in 1..k /\ d = s[k].path /\ d \in Paths
  BY FrameFacts
<1>2. k <= Len(p) /\ \A i \in 1..(k - 1) : p[i] = s[i].after  BY DEF Under
<1>3. p \in Seq(Names) /\ Len(p) \in Nat /\ k \in 1..Len(p) /\ p[k] \in Names
  BY PathFacts, <1>1, <1>2
<1>4. d \in Seq(Names) /\ Len(d) = k - 1 /\ \A i \in 1..(k - 1) : d[i] = s[i].after
  <2>1. d \in Seq(Names)  BY <1>1, PathFacts
  <2>2. Len(s[k].path) = k - 1 /\ \A i \in 1..(k - 1) : s[k].path[i] = s[i].after
    BY <1>1 DEF Shape
  <2> QED  BY <2>1, <2>2, <1>1
<1> HIDE DEF d
<1>5. /\ SubSeq(p, 1, k - 1) \in Seq(Names) /\ Len(SubSeq(p, 1, k - 1)) = k - 1
      /\ \A i \in 1..(k - 1) : SubSeq(p, 1, k - 1)[i] = p[i]
  <2>1. 1 \in Int /\ k - 1 \in Int /\ \A i \in 1..(k - 1) : p[i] \in Names
    BY <1>1, <1>2, <1>3, PathFacts
  <2>2. SubSeq(p, 1, k - 1) \in Seq(Names)  BY <2>1, SubSeqProperties
  <2>3. Len(SubSeq(p, 1, k - 1)) = IF 1 <= k - 1 THEN k - 1 - 1 + 1 ELSE 0
    BY ONLY <2>1, SubSeqProperties
  <2>4. \A n \in Nat : n >= 1 => (IF 1 <= n - 1 THEN n - 1 - 1 + 1 ELSE 0) = n - 1
    OBVIOUS
  <2>5. \A i \in 1..(k - 1) : SubSeq(p, 1, k - 1)[i] = p[i]  BY <1>1, <1>2, <1>3
  <2> QED  BY <2>2, <2>3, <2>4, <2>5, <1>1
<1>6. SubSeq(p, 1, k - 1) = d
  <2>1. \A i \in 1..Len(d) : SubSeq(p, 1, k - 1)[i] = d[i]  BY <1>2, <1>4, <1>5
  <2> QED  BY <2>1, <1>4, <1>5, SeqEqual
<1>7. SubSeq(p, 1, k) = Append(d, p[k])
  <2>1. SubSeq(p, 1, k) = SubSeq(p, 1, k - 1) \o <<p[k]>>
    <3>1. 1 \in 1..Len(p) /\ k \in 1..Len(p)  BY <1>1, <1>3
    <3> QED  BY <3>1, <1>3, SubSeqRecursiveSecond
  <2>2. Append(d, p[k]) = d \o <<p[k]>>  BY <1>3, <1>4, AppendIsConcat
  <2> QED  BY <2>1, <2>2, <1>6
<1>8. SubSeq(p, 1, k) \in Paths
  <2>1. k \in 0..Len(p)  BY <1>1, <1>3
  <2> QED  BY <2>1, ListDirAssumption DEF ListDirAssumption
<1>9. Len(p) = k => p = Append(d, p[k])  BY <1>3, <1>7, SubSeqFull
<1>10. k - 1 \in 0..(Len(p) - 1)  BY <1>1, <1>3
<1> QED  BY <1>3, <1>6, <1>7, <1>8, <1>9, <1>10 DEF d, Child

(* A name after the position is not passed yet.                              *)
LEMMA NewPath ==
  ASSUME NEW s \in Seq(Frame), s # <<>>, Shape(s),
         NEW n \in Names, n > s[Len(s)].after, Child(Last(s).path, n) \in Paths
  PROVE  /\ ~Passed(s, Child(Last(s).path, n))
         /\ Passed(MovedOn(s, n), Child(Last(s).path, n))
<1> DEFINE k == Len(s)
           d == Last(s).path
           c == Append(d, n)
           t == MovedOn(s, n)
<1>1. k \in Nat /\ k >= 1 /\ k \in 1..k /\ d = s[k].path /\ d \in Paths
      /\ \A i \in 1..k : s[i].after \in Nat
  BY FrameFacts
<1>2. d \in Seq(Names) /\ Len(d) = k - 1 /\ \A i \in 1..(k - 1) : d[i] = s[i].after
  <2>1. d \in Seq(Names)  BY <1>1, PathFacts
  <2>2. Len(s[k].path) = k - 1 /\ \A i \in 1..(k - 1) : s[k].path[i] = s[i].after
    BY <1>1 DEF Shape
  <2> QED  BY <2>1, <2>2, <1>1
<1>3. n \in Nat  BY ListDirAssumption DEF ListDirAssumption
<1> HIDE DEF d
<1>4. Len(c) = k /\ c[k] = n /\ \A i \in 1..(k - 1) : c[i] = s[i].after
  <2>1. /\ Len(c) = Len(d) + 1 /\ c[Len(d) + 1] = n
        /\ \A i \in 1..Len(d) : c[i] = d[i]
    BY <1>2, AppendProperties
  <2>2. Len(d) + 1 = k  BY <1>1, <1>2
  <2> QED  BY <2>1, <2>2, <1>2
<1> HIDE DEF c
<1>5. ~Passed(s, c)
  <2> SUFFICES ASSUME NEW j \in 1..k, PassedIn(s, j, c) PROVE FALSE
    BY <1>1 DEF Passed
  <2>1. CASE j = k  BY <2>1, <1>1, <1>3, <1>4 DEF PassedIn
  <2>2. CASE j # k
    <3>1. c[j] = s[j].after /\ j # Len(c)  BY <2>2, <1>1, <1>4
    <3>2. ~(c[j] < s[j].after)  BY <3>1, <1>1
    <3> QED  BY <2>2, <3>1, <3>2 DEF PassedIn
  <2> QED  BY <2>1, <2>2
<1>6. /\ Len(t) = k /\ t[k].after = n /\ t \in Seq(Frame)
      /\ \A i \in 1..(k - 1) : t[i] = s[i]
  <2>1. Last(t) = [path |-> d, after |-> n] /\ Len(t) = k /\ t \in Seq(Frame)
        /\ \A i \in 1..(k - 1) : t[i] = s[i]
    BY MovedOnStack DEF d
  <2> QED  BY <2>1 DEF Last
<1> HIDE DEF t
<1>7. PassedIn(t, k, c)
  <2>1. Under(t, k, c)  BY <1>1, <1>4, <1>6 DEF Under
  <2> QED  BY <2>1, <1>4, <1>6 DEF PassedIn
<1>8. Passed(t, c)  BY <1>1, <1>6, <1>7 DEF Passed
<1> QED  BY <1>5, <1>8 DEF c, t, d, Child

(* Descending into a directory: what lies before it is passed over.          *)
LEMMA DeeperStack ==
  ASSUME NEW s \in Seq(Frame), s # <<>>, Shape(s),
         NEW n \in Names, n > s[Len(s)].after, Child(Last(s).path, n) \in Paths
  PROVE  LET u == Append(MovedOn(s, n), [path |-> Child(Last(s).path, n), after |-> 0])
         IN /\ u \in Seq(Frame) /\ u # <<>> /\ Len(u) = Len(s) + 1 /\ Shape(u)
            /\ \A p \in Paths : Passed(s, p) => Passed(u, p)
            /\ \A p \in Paths : Passed(u, p) =>
                  \/ Passed(s, p)
                  \/ Left(s, p) /\ (p[Len(s)] < n \/ (p[Len(s)] = n /\ Len(p) = Len(s)))
<1> DEFINE k == Len(s)
           t == MovedOn(s, n)
           d == Last(s).path
           f == [path |-> Append(d, n), after |-> 0]
           u == Append(t, f)
<1>1. k \in Nat /\ k >= 1 /\ k \in 1..k /\ d = s[k].path /\ d \in Paths
      /\ \A i \in 1..k : s[i].after \in Nat
  BY FrameFacts
<1>2. d \in Seq(Names) /\ Len(d) = k - 1 /\ \A i \in 1..(k - 1) : d[i] = s[i].after
  <2>1. d \in Seq(Names)  BY <1>1, PathFacts
  <2>2. Len(s[k].path) = k - 1 /\ \A i \in 1..(k - 1) : s[k].path[i] = s[i].after
    BY <1>1 DEF Shape
  <2> QED  BY <2>1, <2>2, <1>1
<1>3. n \in Nat  BY ListDirAssumption DEF ListDirAssumption
<1>4. t \in Seq(Frame) /\ Len(t) = k /\ Shape(t) /\ Last(t) = [path |-> d, after |-> n]
      /\ \A i \in 1..(k - 1) : t[i] = s[i]
  BY MovedOnStack
<1>5. t[k].after = n  BY <1>4 DEF Last
<1>6. f \in Frame  BY DEF Frame, Child
<1> HIDE DEF t, d
<1>7. Len(Append(d, n)) = k /\ Append(d, n)[k] = n /\ \A i \in 1..(k - 1) : Append(d, n)[i] = s[i].after
  <2>1. /\ Len(Append(d, n)) = Len(d) + 1 /\ Append(d, n)[Len(d) + 1] = n
        /\ \A i \in 1..Len(d) : Append(d, n)[i] = d[i]
    BY <1>2, AppendProperties
  <2>2. Len(d) + 1 = k  BY <1>1, <1>2
  <2> QED  BY <2>1, <2>2, <1>2
<1>8. f.path = Append(d, n) /\ f.after = 0  OBVIOUS
<1> HIDE DEF f
<1>9. /\ u \in Seq(Frame) /\ u # <<>> /\ Len(u) = k + 1
      /\ \A i \in 1..k : u[i] = t[i]
      /\ u[k + 1] = f
  <2>1. u \in Seq(Frame)  BY <1>4, <1>6, AppendProperties
  <2>2. u # <<>>  BY <1>4, <1>6, AppendProperties
  <2>3. /\ Len(u) = Len(t) + 1 /\ u[Len(t) + 1] = f
        /\ \A i \in 1..Len(t) : u[i] = t[i]
    BY <1>4, <1>6, AppendProperties
  <2> QED  BY <2>1, <2>2, <2>3, <1>4
<1> HIDE DEF u
<1>10. u[k].after = n /\ \A i \in 1..(k - 1) : u[i] = s[i]  BY <1>1, <1>4, <1>5, <1>9
<1>11. Shape(u)
  <2> SUFFICES ASSUME NEW j \in 1..(k + 1)
               PROVE  Len(u[j].path) = j - 1 /\ \A i \in 1..(j - 1) : u[j].path[i] = u[i].after
    BY <1>9 DEF Shape
  <2>1. CASE j = k + 1
    <3>1. u[j].path = Append(d, n)  BY <2>1, <1>9, <1>8
    <3>2. Len(u[j].path) = j - 1  BY <3>1, <2>1, <1>1, <1>7
    <3>3. ASSUME NEW i \in 1..(j - 1) PROVE u[j].path[i] = u[i].after
      <4>1. i = k \/ i \in 1..(k - 1)  BY <2>1, <1>1
      <4> QED  BY <4>1, <3>1, <1>7, <1>10
    <3> QED  BY <3>2, <3>3
  <2>2. CASE j # k + 1
    <3>1. j \in 1..k /\ \A i \in 1..(j - 1) : i \in 1..k  BY <2>2, <1>1
    <3>2. u[j] = t[j] /\ \A i \in 1..(j - 1) : u[i] = t[i]  BY <3>1, <1>9
    <3> QED  BY <3>1, <3>2, <1>4 DEF Shape
  <2> QED  BY <2>1, <2>2
<1>12. \A j \in 1..k, p \in Paths : Under(u, j, p) <=> Under(s, j, p)
  <2> SUFFICES ASSUME NEW j \in 1..k, NEW p \in Paths
               PROVE  Under(u, j, p) <=> Under(s, j, p)
    OBVIOUS
  <2>1. \A i \in 1..(j - 1) : u[i] = s[i]  BY <1>1, <1>10
  <2> QED  BY <2>1 DEF Under
<1>13. ASSUME NEW p \in Paths, Passed(s, p) PROVE Passed(u, p)
  <2>1. PICK j \in 1..k : PassedIn(s, j, p)  BY <1>13, <1>1 DEF Passed
  <2>2. Under(u, j, p) /\ j \in 1..Len(u)  BY <2>1, <1>1, <1>9, <1>12 DEF PassedIn
  <2>3. CASE j = k
    <3>1. j \in 1..Len(p) /\ p[j] \in Nat  BY <2>2, PathFacts, <1>1 DEF Under
    <3>2. p[k] < s[k].after \/ p[k] = s[k].after  BY <2>1, <2>3 DEF PassedIn
    <3>3. p[k] < n  BY <3>1, <3>2, <2>3, <1>1, <1>3
    <3>4. PassedIn(u, k, p)  BY <3>3, <2>2, <2>3, <1>10 DEF PassedIn
    <3> QED  BY <3>4, <2>2, <2>3 DEF Passed
  <2>4. CASE j # k
    <3>1. u[j] = s[j]  BY <2>4, <1>1, <1>10
    <3>2. PassedIn(u, j, p)  BY <3>1, <2>1, <2>2, <2>4 DEF PassedIn
    <3> QED  BY <3>2, <2>2 DEF Passed
  <2> QED  BY <2>3, <2>4
<1>14. ASSUME NEW p \in Paths, Passed(u, p)
       PROVE  Passed(s, p) \/ (Left(s, p) /\ (p[k] < n \/ (p[k] = n /\ Len(p) = k)))
  <2>1. PICK j \in 1..(k + 1) : PassedIn(u, j, p)  BY <1>14, <1>9 DEF Passed
  <2>2. CASE j = k + 1
    <3>1. j \in 1..Len(p) /\ p[j] \in Nat /\ p[j] > 0
      BY <2>1, <2>2, PathFacts, <1>1 DEF PassedIn, Under
    <3> QED  BY <3>1, <2>1, <2>2, <1>9, <1>8 DEF PassedIn
  <2>3. CASE j = k
    <3>1. Under(s, k, p)  BY <2>1, <2>3, <1>1, <1>12 DEF PassedIn
    <3>2. k \in 1..Len(p) /\ p[k] \in Nat  BY <3>1, PathFacts, <1>1 DEF Under
    <3>3. p[k] < n \/ (p[k] = n /\ Len(p) = k)
      BY <2>1, <2>3, <1>1, <1>9, <1>10 DEF PassedIn
    <3>4. CASE p[k] > s[k].after  BY <3>1, <3>3, <3>4 DEF Left
    <3>5. CASE p[k] <= s[k].after
      <4>1. PassedIn(s, k, p)  BY <3>1, <3>2, <3>5, <1>1 DEF PassedIn
      <4> QED  BY <4>1, <1>1 DEF Passed
    <3> QED  BY <3>2, <3>4, <3>5, <1>1
  <2>4. CASE j \in 1..(k - 1)
    <3>1. u[j] = s[j] /\ j # Len(u) /\ j \in 1..k  BY <2>4, <1>1, <1>9, <1>10
    <3>2. Under(s, j, p)  BY <2>1, <3>1, <1>12 DEF PassedIn
    <3>3. PassedIn(s, j, p)  BY <3>1, <3>2, <2>1 DEF PassedIn
    <3> QED  BY <3>3, <3>1 DEF Passed
  <2> QED  BY <2>2, <2>3, <2>4, <1>1
<1> QED  BY <1>9, <1>11, <1>13, <1>14 DEF u, f, t, d, Child

-----------------------------------------------------------------------------
(* Cursors and what has been reported. *)

(* l reports each file once, none that is still to come, and all the files   *)
(* of K that have been passed.                                               *)
Divides(s, l, K) ==
  /\ IsInjective(l)
  /\ \A p \in Range(l) : Passed(s, p)
  /\ \A p \in K : Passed(s, p) => p \in Range(l)

(* Reporting a file that has not been reported. *)
LEMMA AppendReported ==
  ASSUME NEW l \in Seq(Paths), NEW c \in Paths
  PROVE  /\ Append(l, c) \in Seq(Paths) /\ Len(Append(l, c)) = Len(l) + 1
         /\ Range(Append(l, c)) = Range(l) \cup {c} /\ Range(l) \subseteq Paths
         /\ IsInjective(l) /\ c \notin Range(l) => IsInjective(Append(l, c))
<1> DEFINE m == Append(l, c)
<1>1. /\ m \in Seq(Paths) /\ Len(m) = Len(l) + 1 /\ m[Len(l) + 1] = c
      /\ \A i \in 1..Len(l) : m[i] = l[i]
  BY AppendProperties
<1>2. Len(l) \in Nat /\ DOMAIN l = 1..Len(l) /\ DOMAIN m = 1..Len(m)
  BY <1>1, LenProperties
<1> HIDE DEF m
<1>3. \A i \in 1..(Len(l) + 1) : i = Len(l) + 1 \/ i \in 1..Len(l)  BY <1>2
<1>4. \A i \in 1..Len(l) : i \in 1..(Len(l) + 1) /\ Len(l) + 1 \in 1..(Len(l) + 1)  BY <1>2
<1>5. Range(m) = Range(l) \cup {c}
  <2>1. Len(l) + 1 \in DOMAIN m  BY <1>1, <1>2
  <2> QED  BY <2>1, <1>1, <1>2, <1>3, <1>4 DEF Range
<1>6. Range(l) \subseteq Paths  BY <1>2, ElementOfSeq DEF Range
<1>7. ASSUME IsInjective(l), c \notin Range(l) PROVE IsInjective(m)
  <2>1. \A i \in 1..Len(l) : l[i] # c  BY <1>7, <1>2 DEF Range
  <2>2. \A i, j \in 1..Len(l) : l[i] = l[j] => i = j  BY <1>7, <1>2 DEF IsInjective
  <2>3. \A i, j \in 1..(Len(l) + 1) : m[i] = m[j] => i = j  BY <2>1, <2>2, <1>1, <1>3
  <2> QED  BY <2>3, <1>1, <1>2 DEF IsInjective
<1> QED  BY <1>1, <1>5, <1>6, <1>7 DEF m

(* Closing a directory in which nothing of K is to come. *)
LEMMA FrontDivides ==
  ASSUME NEW s \in Seq(Frame), s # <<>>, Shape(s), NEW l \in Seq(Paths),
         NEW K, K \subseteq Paths \ {<<>>}, Divides(s, l, K), \A p \in K : ~Left(s, p)
  PROVE  Divides(Front(s), l, K)
<1>1. \A p \in Range(l) : p \in Paths
  <2>1. DOMAIN l = 1..Len(l)  BY LenProperties
  <2> QED  BY <2>1, ElementOfSeq DEF Range
<1> QED  BY <1>1, FrontStack DEF Divides

(* Visiting a name that is not a directory: the file, if K may have it. *)
LEMMA MovedOnDivides ==
  ASSUME NEW s \in Seq(Frame), s # <<>>, Shape(s), NEW l \in Seq(Paths),
         NEW K, K \subseteq Paths, Divides(s, l, K),
         NEW n \in Names, n > s[Len(s)].after, Child(Last(s).path, n) \in Paths
  PROVE  /\ (\A p \in K : ~(Left(s, p) /\ p[Len(s)] <= n)) => Divides(MovedOn(s, n), l, K)
         /\ (\A p \in K : Left(s, p) /\ p[Len(s)] <= n => p = Child(Last(s).path, n))
             => Divides(MovedOn(s, n), Append(l, Child(Last(s).path, n)), K)
<1> DEFINE c == Child(Last(s).path, n)
           t == MovedOn(s, n)
<1>1. /\ \A p \in Paths : Passed(s, p) => Passed(t, p)
      /\ \A p \in Paths : Passed(t, p) => Passed(s, p) \/ (Left(s, p) /\ p[Len(s)] <= n)
  BY MovedOnStack
<1>2. ~Passed(s, c) /\ Passed(t, c)  BY NewPath
<1>3. /\ Range(Append(l, c)) = Range(l) \cup {c} /\ Range(l) \subseteq Paths
      /\ IsInjective(l) /\ c \notin Range(l) => IsInjective(Append(l, c))
  BY AppendReported
<1>4. c \in Paths  OBVIOUS
<1> HIDE DEF c, t
<1>5. ASSUME \A p \in K : ~(Left(s, p) /\ p[Len(s)] <= n) PROVE Divides(t, l, K)
  BY <1>1, <1>3, <1>5 DEF Divides
<1>6. ASSUME \A p \in K : Left(s, p) /\ p[Len(s)] <= n => p = c
      PROVE  Divides(t, Append(l, c), K)
  <2>1. IsInjective(Append(l, c))  BY <1>2, <1>3 DEF Divides
  <2>2. \A p \in Range(Append(l, c)) : Passed(t, p)  BY <1>1, <1>2, <1>3 DEF Divides
  <2>3. \A p \in K : Passed(t, p) => p \in Range(Append(l, c))
    BY <1>1, <1>3, <1>6 DEF Divides
  <2> QED  BY <2>1, <2>2, <2>3 DEF Divides
<1> QED  BY <1>5, <1>6 DEF c, t

(* Descending, when K has nothing before the directory. *)
LEMMA DeeperDivides ==
  ASSUME NEW s \in Seq(Frame), s # <<>>, Shape(s), NEW l \in Seq(Paths),
         NEW K, K \subseteq Paths, Divides(s, l, K),
         NEW n \in Names, n > s[Len(s)].after, Child(Last(s).path, n) \in Paths,
         \A p \in K : Left(s, p) => p[Len(s)] >= n /\ (p[Len(s)] = n => Len(p) # Len(s))
  PROVE  Divides(Append(MovedOn(s, n), [path |-> Child(Last(s).path, n), after |-> 0]), l, K)
<1> DEFINE u == Append(MovedOn(s, n), [path |-> Child(Last(s).path, n), after |-> 0])
<1>1. /\ \A p \in Paths : Passed(s, p) => Passed(u, p)
      /\ \A p \in Paths : Passed(u, p) =>
            \/ Passed(s, p)
            \/ Left(s, p) /\ (p[Len(s)] < n \/ (p[Len(s)] = n /\ Len(p) = Len(s)))
  BY DeeperStack
<1> HIDE DEF u
<1>2. \A p \in Range(l) : p \in Paths
  <2>1. DOMAIN l = 1..Len(l)  BY LenProperties
  <2> QED  BY <2>1, ElementOfSeq DEF Range
<1>3. ASSUME NEW p \in K, Passed(u, p) PROVE Passed(s, p)
  <2>1. CASE Left(s, p)
    <3>1. p[Len(s)] \in Nat /\ n \in Nat
      <4>1. p[Len(s)] \in Names  BY <2>1, LeftPath DEF Left
      <4> QED  BY <4>1, ListDirAssumption DEF ListDirAssumption
    <3>2. ~(p[Len(s)] < n)  BY <2>1, <3>1
    <3> QED  BY <1>1, <1>3, <2>1, <3>2
  <2> QED  BY <1>1, <1>3, <2>1
<1>4. Divides(u, l, K)  BY <1>1, <1>2, <1>3 DEF Divides
<1> QED  BY <1>4 DEF u

(* The agent accepts a stack that has the shape. (fs.py 341-380)             *)
LEMMA ShapeIsValid ==
  ASSUME NEW s \in Seq(Frame), s # <<>>, Len(s) <= MaxDepth, Shape(s)
  PROVE  ValidCursor(s)
<1>1. Len(s) \in Nat /\ Len(s) >= 1 /\ \A i \in 1..Len(s) : s[i].path \in Seq(Names) /\ s[i] \in Frame
  BY FrameFacts, PathFacts, ElementOfSeq
<1>2. s[1].path = <<>>
  <2>1. Len(s[1].path) = 0  BY <1>1 DEF Shape
  <2> QED  BY <1>1, <2>1, EmptySeq
<1>3. ASSUME NEW i \in 2..Len(s) PROVE s[i].path = Child(s[i - 1].path, s[i - 1].after)
  <2> DEFINE d == s[i - 1].path
             a == s[i - 1].after
             e == s[i].path
  <2>1. /\ d \in Seq(Names) /\ Len(d) = i - 2 /\ \A j \in 1..(i - 2) : d[j] = s[j].after
    <3>1. i - 1 \in 1..Len(s)  BY <1>1
    <3>2. Len(d) = (i - 1) - 1 /\ \A j \in 1..((i - 1) - 1) : d[j] = s[j].after
      BY <3>1 DEF Shape
    <3>3. (i - 1) - 1 = i - 2  BY <1>1
    <3> QED  BY <3>1, <3>2, <3>3, <1>1
  <2>2. /\ e \in Seq(Names) /\ Len(e) = i - 1 /\ \A j \in 1..(i - 1) : e[j] = s[j].after
    BY <1>1 DEF Shape
  <2>3. a \in Names
    <3>1. i - 1 \in 1..Len(e)  BY <1>1, <2>2
    <3>2. e[i - 1] \in Names  BY <3>1, <2>2, ElementOfSeq
    <3>3. e[i - 1] = a  BY <3>1, <2>2
    <3> QED  BY <3>2, <3>3
  <2> HIDE DEF d, a, e
  <2>4. /\ Append(d, a) \in Seq(Names) /\ Len(Append(d, a)) = Len(d) + 1
        /\ Append(d, a)[Len(d) + 1] = a /\ \A j \in 1..Len(d) : Append(d, a)[j] = d[j]
    BY <2>1, <2>3, AppendProperties
  <2>5. Len(d) + 1 = i - 1  BY <2>1
  <2>6. ASSUME NEW j \in 1..(i - 1) PROVE e[j] = Append(d, a)[j]
    <3>1. j = i - 1 \/ j \in 1..(i - 2)  OBVIOUS
    <3>2. e[j] = s[j].after  BY <2>2
    <3>3. CASE j = i - 1  BY <3>2, <3>3, <2>4, <2>5 DEF a
    <3>4. CASE j \in 1..(i - 2)  BY <3>2, <3>4, <2>1, <2>4
    <3> QED  BY <3>1, <3>3, <3>4
  <2>7. e = Append(d, a)  BY <2>2, <2>4, <2>5, <2>6, SeqEqual
  <2> QED  BY <2>7 DEF d, a, e, Child
<1> QED  BY <1>1, <1>2, <1>3 DEF ValidCursor, Ancestry
=============================================================================
