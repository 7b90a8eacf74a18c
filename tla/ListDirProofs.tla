---------------------------- MODULE ListDirProofs ----------------------------
(***************************************************************************)
(* Proofs about list_dir, for any tree, any limits and any changes between *)
(* two system calls: its types and limits, that the agent accepts its own  *)
(* cursors, and that ListDir keeps the promise of Listing.                 *)
(***************************************************************************)
EXTENDS ListDirCursors, WellFoundedInduction

-----------------------------------------------------------------------------
(* The inductive invariant: the caller's cursor divides the files it has     *)
(* received from those to come, the command's stack those received and those *)
(* found for this page from the rest, and the names to be visited are enough *)
(* for all that is to come in the open directory.                            *)

TreeOK == WellFormed(tree) /\ \A p \in steady : tree[p] = "file"

Kept == steady \cap Reachable

CursorOK ==
  /\ pc # "rejected" /\ (pc # "complete" => cursor # <<>>)
  /\ Shape(cursor) /\ Divides(cursor, received, Kept)

PageOK ==
  /\ pc \in {"loop", "scan", "answer"} => Shape(stack) /\ Divides(stack, received \o files, Kept)
  /\ pc \in {"loop", "scan"} => visited < MaxEntries /\ Len(files) < MaxFiles

ScanOK ==
  pc = "scan" =>
    /\ stack # <<>>
    /\ \A n \in names : Child(Top.path, n) \in Paths /\ n > Top.after
    /\ \A p \in steady : Left(stack, p) => p[Len(stack)] \in names /\ ~unlinked

IInv == TypeOK /\ TreeOK /\ CursorOK /\ PageOK /\ ScanOK

-----------------------------------------------------------------------------
(* What the tree holds on the way to a file. *)

LEMMA KeptFiles ==
  ASSUME TypeOK, TreeOK
  PROVE  Kept \subseteq Paths \ {<<>>} /\ steady \subseteq Paths \ {<<>>}
<1>1. tree[<<>>] # "file"  BY DEF TreeOK, WellFormed
<1> QED  BY <1>1 DEF TypeOK, TreeOK, Kept

LEMMA OnTheWay ==
  ASSUME NEW s \in Seq(Frame), s # <<>>, Shape(s), NEW p \in Paths,
         Under(s, Len(s), p), tree[p] = "file", WellFormed(tree)
  PROVE  /\ IsDir(Last(s).path) /\ p[Len(s)] \in Names
         /\ Child(Last(s).path, p[Len(s)]) \in Paths
         /\ tree[Child(Last(s).path, p[Len(s)])] # "none"
         /\ Len(p) = Len(s) => p = Child(Last(s).path, p[Len(s)])
         /\ Len(p) # Len(s) => IsDir(Child(Last(s).path, p[Len(s)]))
<1> DEFINE k == Len(s)
           d == Last(s).path
           c == Child(d, p[k])
<1>1. k \in Nat /\ k >= 1 /\ Len(p) \in Nat /\ k <= Len(p)
  BY FrameFacts, PathFacts DEF Under
<1>2. /\ k - 1 \in 0..(Len(p) - 1) /\ p[k] \in Names
      /\ SubSeq(p, 1, k - 1) = d /\ SubSeq(p, 1, k) = c /\ c \in Paths
      /\ Len(p) = k => p = c
  BY LeftPath
<1> HIDE DEF d, c
<1>3. \A j \in 0..(Len(p) - 1) : tree[SubSeq(p, 1, j)] = "dir"  BY DEF WellFormed
<1>4. IsDir(d)  BY <1>2, <1>3 DEF IsDir
<1>5. Len(p) # k => IsDir(c)
  <2>1. Len(p) # k => k \in 0..(Len(p) - 1)  BY <1>1
  <2> QED  BY <2>1, <1>2, <1>3 DEF IsDir
<1>6. tree[c] # "none"  BY <1>2, <1>5 DEF IsDir
<1> QED  BY <1>2, <1>4, <1>5, <1>6 DEF d, c

(* Every non-empty set of names has a smallest one. *)
LEMMA SmallestName ==
  ASSUME NEW N, N \subseteq Nat, N # {}
  PROVE  \E n \in N : \A other \in N : n <= other
<1>1. PICK n \in N : \A other \in N : ~ (<<other, n>> \in OpToRel(<, Nat))
  BY NatLessThanWellFounded, WFMin
<1>2. ASSUME NEW other \in N PROVE n <= other
  <2>1. other \in Nat /\ n \in Nat /\ <<other, n>> \in Nat \X Nat  OBVIOUS
  <2>2. ~ (other < n)  BY <1>1, <2>1 DEF OpToRel
  <2> QED  BY <2>1, <2>2
<1> QED  BY <1>2

(* What the next name of the open directory can be. *)
LEMMA NextFacts ==
  ASSUME IInv, pc = "scan", names # {}
  PROVE  /\ NextName \in names /\ NextName \in Names /\ \A other \in names : NextName <= other
         /\ NextName > stack[Len(stack)].after
         /\ Child(Top.path, NextName) \in Paths
         /\ \A p \in steady : Left(stack, p) =>
              /\ p[Len(stack)] >= NextName
              /\ p[Len(stack)] <= NextName =>
                   IF Len(p) = Len(stack)
                     THEN p = Child(Top.path, NextName) /\ Stat(Child(Top.path, NextName)) = "file"
                     ELSE Stat(Child(Top.path, NextName)) = "dir"
<1>1. names \subseteq Names /\ Names \subseteq Nat
  BY ListDirAssumption DEF ListDirAssumption, IInv, TypeOK
<1>2. NextName \in names /\ \A other \in names : NextName <= other
  BY <1>1, SmallestName DEF NextName
<1>3. stack \in Seq(Frame) /\ stack # <<>> /\ Shape(stack) /\ Top = stack[Len(stack)]
  <2>1. stack \in Seq(Frame) /\ stack # <<>> /\ Shape(stack)  BY DEF IInv, TypeOK, ScanOK, PageOK
  <2> QED  BY <2>1, FrameFacts DEF Top
<1>4. NextName > Top.after /\ Child(Top.path, NextName) \in Paths  BY <1>2 DEF IInv, ScanOK
<1>5. ASSUME NEW p \in steady, Left(stack, p)
      PROVE  /\ p[Len(stack)] >= NextName
             /\ p[Len(stack)] <= NextName =>
                   IF Len(p) = Len(stack)
                     THEN p = Child(Top.path, NextName) /\ Stat(Child(Top.path, NextName)) = "file"
                     ELSE Stat(Child(Top.path, NextName)) = "dir"
  <2>1. p[Len(stack)] \in names /\ ~unlinked  BY <1>5 DEF IInv, ScanOK
  <2>2. p[Len(stack)] \in Nat /\ NextName \in Nat /\ NextName <= p[Len(stack)]
    BY <1>1, <1>2, <2>1
  <2>3. p \in Paths /\ tree[p] = "file" /\ WellFormed(tree) /\ Under(stack, Len(stack), p)
    BY <1>5 DEF IInv, TypeOK, TreeOK, Left
  <2>4. /\ Len(p) = Len(stack) => p = Child(Top.path, p[Len(stack)])
        /\ Len(p) # Len(stack) => IsDir(Child(Top.path, p[Len(stack)]))
    BY <1>3, <2>3, OnTheWay DEF Top
  <2>5. p[Len(stack)] <= NextName => p[Len(stack)] = NextName  BY <2>2
  <2> QED  BY <2>1, <2>2, <2>3, <2>4, <2>5 DEF Stat, IsDir
<1> QED  BY <1>1, <1>2, <1>3, <1>4, <1>5

-----------------------------------------------------------------------------
(* The beginning, and every action of the listing. *)

\* the properties of the list of all that has been reported
LEMMA Reported ==
  ASSUME TypeOK
  PROVE  /\ received \in Seq(Paths) /\ files \in Seq(Paths) /\ received \o files \in Seq(Paths)
         /\ received \o <<>> = received
         /\ \A c \in Paths : received \o Append(files, c) = Append(received \o files, c)
<1>1. received \in Seq(Paths) /\ files \in Seq(Paths)  BY DEF TypeOK
<1>2. received \o files \in Seq(Paths) /\ received \o <<>> = received
  BY <1>1, ConcatProperties, ConcatEmptySeq
<1>3. ASSUME NEW c \in Paths PROVE received \o Append(files, c) = Append(received \o files, c)
  <2>1. Append(files, c) = files \o <<c>> /\ Append(received \o files, c) = (received \o files) \o <<c>>
    BY <1>1, <1>2, AppendIsConcat
  <2>2. <<c>> \in Seq(Paths)  OBVIOUS
  <2> QED  BY <1>1, <2>1, <2>2, ConcatAssociative
<1> QED  BY <1>1, <1>2, <1>3

LEMMA InitInv == Init => IInv
<1> SUFFICES ASSUME Init PROVE IInv  OBVIOUS
<1>1. <<>> \in Paths /\ Names \subseteq Nat \ {0}
      /\ MaxEntries \in Nat \ {0} /\ MaxFiles \in Nat \ {0} /\ MaxDepth \in Nat \ {0} /\ MaxLost \in Nat
  BY ListDirAssumption DEF ListDirAssumption
<1>2. Root \in Frame /\ Root.path = <<>> /\ Root.after = 0  BY <1>1 DEF Root, Frame
<1>3. cursor = <<Root>> /\ cursor \in Seq(Frame) /\ Len(cursor) = 1 /\ cursor[1] = Root
      /\ cursor # <<>>
  BY <1>2 DEF Init
<1>4. Len(<<>>) = 0 /\ <<>> \in Seq(Frame) /\ <<>> \in Seq(Paths) /\ DOMAIN <<>> = {}
  OBVIOUS
<1>5. TypeOK
  <2>1. tree \in [Paths -> {"none", "file", "dir"}] /\ steady \subseteq Paths  BY DEF Init
  <2>2. Len(cursor) <= MaxDepth /\ Len(stack) <= MaxDepth /\ Len(files) <= MaxFiles
    BY <1>1, <1>3, <1>4 DEF Init
  <2>3. visited \in 0..MaxEntries /\ lost \in 0..MaxLost  BY <1>1 DEF Init
  <2>4. cursor \in Seq(Frame) /\ stack \in Seq(Frame) /\ files \in Seq(Paths) /\ received \in Seq(Paths)
    BY <1>3, <1>4 DEF Init
  <2> QED  BY <2>1, <2>2, <2>3, <2>4 DEF Init, TypeOK
<1>6. TreeOK  BY DEF Init, TreeOK
<1>7. Shape(cursor)
  <2> SUFFICES ASSUME NEW j \in 1..1
               PROVE  Len(cursor[j].path) = j - 1
                      /\ \A i \in 1..(j - 1) : cursor[j].path[i] = cursor[i].after
    BY <1>3 DEF Shape
  <2>1. j = 1 /\ 1..(j - 1) = {}  OBVIOUS
  <2> QED  BY <2>1, <1>2, <1>3, <1>4
<1>8. Divides(cursor, received, Kept)
  <2>1. received = <<>> /\ IsInjective(received) /\ Range(received) = {}
    BY <1>4 DEF Init, IsInjective, Range
  <2>2. ASSUME NEW p \in Kept, Passed(cursor, p) PROVE FALSE
    <3>1. PassedIn(cursor, 1, p)  BY <2>2, <1>3 DEF Passed
    <3>2. p \in Paths /\ p # <<>>  BY <1>5, <1>6, KeptFiles
    <3>3. 1 \in 1..Len(p) /\ p[1] \in Nat /\ p[1] > 0
      BY <3>1, <3>2, PathFacts DEF PassedIn, Under
    <3> QED  BY <3>1, <3>3, <1>2, <1>3 DEF PassedIn
  <2> QED  BY <2>1, <2>2 DEF Divides
<1>9. CursorOK  BY <1>3, <1>7, <1>8 DEF CursorOK, Init
<1> QED  BY <1>5, <1>6, <1>9 DEF IInv, PageOK, ScanOK, Init

(* A request is never rejected; a listed directory that is not there has no  *)
(* steady file.                                                              *)
LEMMA BeginPageInv == IInv /\ BeginPage => IInv'
<1> SUFFICES ASSUME IInv, BeginPage PROVE IInv'  OBVIOUS
<1>1. ValidCursor(cursor) /\ cursor # <<>>
  <2>1. cursor \in Seq(Frame) /\ cursor # <<>> /\ Len(cursor) <= MaxDepth /\ Shape(cursor)
    BY DEF IInv, TypeOK, CursorOK, BeginPage
  <2> QED  BY <2>1, ShapeIsValid
<1>2. /\ UNCHANGED <<tree, names, unlinked, paginated, cursor, received, lost, steady>>
      /\ files' = <<>> /\ visited' = 0 /\ pc = "ready"
      /\ pc' = IF IsDir(<<>>) THEN "loop" ELSE "answer"
      /\ stack' = IF IsDir(<<>>) THEN cursor ELSE <<>>
  BY <1>1 DEF BeginPage, caller
<1>3. MaxEntries \in Nat \ {0} /\ MaxFiles \in Nat \ {0} /\ MaxDepth \in Nat \ {0}
  BY ListDirAssumption DEF ListDirAssumption
<1>4. Len(<<>>) = 0 /\ <<>> \in Seq(Frame) /\ <<>> \in Seq(Paths)  OBVIOUS
<1>5. TypeOK'  BY <1>2, <1>3, <1>4 DEF IInv, TypeOK
<1>6. TreeOK'  BY <1>2 DEF IInv, TreeOK
<1>7. Kept' = Kept  BY <1>2 DEF Kept
<1>8. CursorOK'
  <2>1. pc' \notin {"rejected", "complete"}  BY <1>2
  <2> QED  BY <1>1, <1>2, <1>7, <2>1 DEF IInv, CursorOK
<1>9. Shape(stack') /\ Divides(stack', (received \o files)', Kept')
  <2>1. (received \o files)' = received  BY <1>2, Reported DEF IInv
  <2>2. CASE IsDir(<<>>)  BY <2>1, <2>2, <1>2, <1>7 DEF IInv, CursorOK
  <2>3. CASE ~IsDir(<<>>)
    <3>1. Kept = {}
      <4> SUFFICES ASSUME NEW p \in Kept PROVE FALSE  OBVIOUS
      <4>1. p \in Paths /\ p # <<>> /\ tree[p] = "file" /\ WellFormed(tree)
        BY KeptFiles DEF IInv, TreeOK, Kept
      <4>2. p \in Seq(Names) /\ Len(p) \in Nat /\ Len(p) >= 1  BY <4>1, PathFacts, EmptySeq
      <4>3. 0 \in 0..(Len(p) - 1)  BY <4>2
      <4>4. SubSeq(p, 1, 0) = <<>>  BY SubSeqEmpty
      <4> QED  BY <4>1, <4>3, <4>4, <2>3 DEF WellFormed, IsDir
    <3>2. stack' = <<>> /\ Shape(<<>>) /\ \A p : Passed(<<>>, p)
      BY <2>3, <1>2, <1>4 DEF Shape, Passed
    <3> QED  BY <3>1, <3>2, <2>1, <1>7 DEF IInv, CursorOK, Divides
  <2> QED  BY <2>2, <2>3
<1>10. PageOK'  BY <1>2, <1>3, <1>4, <1>9 DEF PageOK
<1>11. ScanOK'  BY <1>2 DEF ScanOK
<1> QED  BY <1>5, <1>6, <1>8, <1>10, <1>11 DEF IInv

(* Opening a directory finds the names of all that is to come in it. *)
LEMMA OpenDirInv == IInv /\ OpenDir => IInv'
<1> SUFFICES ASSUME IInv, OpenDir PROVE IInv'  OBVIOUS
<1>1. /\ UNCHANGED <<tree, stack, visited, files, paginated, cursor, received, lost, steady>>
      /\ pc = "loop" /\ pc' = "scan" /\ stack # <<>>
      /\ names' = Pending(Top) /\ unlinked' = FALSE
  BY DEF OpenDir, caller
<1>2. names' \subseteq Names  BY <1>1 DEF Pending, Children
<1>3. TypeOK'  BY <1>1, <1>2 DEF IInv, TypeOK
<1>4. TreeOK' /\ Kept' = Kept /\ CursorOK'  BY <1>1 DEF IInv, TreeOK, Kept, CursorOK
<1>5. PageOK'  BY <1>1, <1>4 DEF IInv, PageOK
<1>6. ScanOK'
  <2>1. stack \in Seq(Frame) /\ Shape(stack) /\ Top = stack[Len(stack)]
    <3>1. stack \in Seq(Frame) /\ Shape(stack)  BY <1>1 DEF IInv, TypeOK, PageOK
    <3> QED  BY <3>1, <1>1, FrameFacts DEF Top
  <2>2. Top' = Top  BY <1>1 DEF Top
  <2>3. \A n \in names' : Child(Top.path, n) \in Paths /\ n > Top.after
    BY <1>1 DEF Pending, Children, Exists
  <2>4. ASSUME NEW p \in steady, Left(stack, p) PROVE p[Len(stack)] \in names'
    <3>1. p \in Paths /\ tree[p] = "file" /\ WellFormed(tree) /\ Under(stack, Len(stack), p)
          /\ p[Len(stack)] > Top.after
      BY <2>1, <2>4 DEF IInv, TypeOK, TreeOK, Left
    <3>2. /\ p[Len(stack)] \in Names /\ Child(Top.path, p[Len(stack)]) \in Paths
          /\ tree[Child(Top.path, p[Len(stack)])] # "none"
      BY <1>1, <2>1, <3>1, OnTheWay DEF Top
    <3> QED  BY <1>1, <3>1, <3>2 DEF Pending, Children, Exists
  <2> QED  BY <1>1, <2>2, <2>3, <2>4 DEF ScanOK
<1> QED  BY <1>3, <1>4, <1>5, <1>6 DEF IInv

(* Leaving a directory in which nothing steady and reachable is to come. *)
LEMMA PopInv ==
  ASSUME IInv, pc \in {"loop", "scan"}, stack # <<>>, \A p \in Kept : ~Left(stack, p),
         Pop, pc' = "loop",
         UNCHANGED <<tree, names, unlinked, visited, files, caller, steady>>
  PROVE  IInv'
<1>1. UNCHANGED <<tree, names, unlinked, visited, files, paginated, cursor, received, lost, steady>>
      /\ stack' = Front(stack)
  BY DEF caller, Pop
<1>2. /\ stack \in Seq(Frame) /\ Shape(stack) /\ Len(stack) <= MaxDepth /\ Len(stack) \in Nat
      /\ Divides(stack, received \o files, Kept)
  BY LenProperties DEF IInv, TypeOK, PageOK
<1>3. Front(stack) \in Seq(Frame) /\ Len(Front(stack)) = Len(stack) - 1 /\ Shape(Front(stack))
  BY <1>2, FrontStack
<1>4. Len(Front(stack)) <= MaxDepth
  BY <1>2, <1>3, ListDirAssumption DEF ListDirAssumption
<1>5. TypeOK'  BY <1>1, <1>3, <1>4 DEF IInv, TypeOK
<1>6. TreeOK' /\ Kept' = Kept /\ CursorOK'
  BY <1>1 DEF IInv, TreeOK, Kept, CursorOK
<1>7. Divides(Front(stack), received \o files, Kept)
  BY <1>2, Reported, KeptFiles, FrontDivides DEF IInv
<1>8. PageOK'  BY <1>1, <1>3, <1>6, <1>7 DEF IInv, PageOK
<1> QED  BY <1>5, <1>6, <1>8 DEF IInv, ScanOK

(* What cannot be opened is not kept, or nothing is to come in it. *)
LEMMA OpenFailsInv == IInv /\ OpenFails => IInv'
<1> SUFFICES ASSUME IInv, OpenFails PROVE IInv'  OBVIOUS
<1>1. /\ pc = "loop" /\ pc' = pc /\ stack # <<>> /\ Pop
      /\ ~IsDir(Top.path) \/ Top.path \in Flaky
      /\ UNCHANGED <<tree, names, unlinked, visited, files, caller, steady>>
  BY DEF OpenFails, PassOver
<1>2. stack \in Seq(Frame) /\ Shape(stack)  BY <1>1 DEF IInv, TypeOK, PageOK
<1>3. ASSUME NEW p \in Kept, Left(stack, p) PROVE FALSE
  <2>1. p \in Paths /\ p \in Reachable /\ tree[p] = "file" /\ WellFormed(tree)
        /\ Under(stack, Len(stack), p)
    BY <1>3 DEF IInv, TypeOK, TreeOK, Left, Kept
  <2>2. IsDir(Top.path)  BY <1>1, <1>2, <2>1, OnTheWay DEF Top
  <2>3. Len(stack) - 1 \in 0..(Len(p) - 1) /\ SubSeq(p, 1, Len(stack) - 1) = Top.path
    BY <1>1, <1>2, <2>1, LeftPath DEF Top
  <2>4. Top.path \notin Flaky
    <3> DEFINE k == Len(stack) - 1
               m == Len(p) - 1
    <3>1. k \in Int /\ m \in Int /\ k \in 0..m /\ SubSeq(p, 1, k) = Top.path
      BY <1>2, <2>1, <2>3, PathFacts, LenProperties
    <3>2. \A i \in 1..Len(p) : SubSeq(p, 1, i) \notin Flaky  BY <2>1 DEF Reachable
    <3> HIDE DEF k, m
    <3>3. CASE k = 0
      <4>1. SubSeq(p, 1, 0) = <<>>  BY SubSeqEmpty
      <4>2. Top.path = <<>>  BY <3>1, <3>3, <4>1
      <4> QED  BY <4>2, ListDirAssumption DEF ListDirAssumption
    <3>4. CASE k # 0
      <4>1. k \in 1..Len(p)
        <5>1. Len(p) \in Nat /\ k <= m /\ m = Len(p) - 1  BY <2>1, <3>1, PathFacts DEF m
        <5> QED  BY <3>1, <3>4, <5>1
      <4> QED  BY <3>1, <3>2, <4>1
    <3> QED  BY <3>3, <3>4
  <2> QED  BY <1>1, <2>2, <2>4
<1> QED  BY <1>1, <1>3, PopInv

LEMMA CloseDirInv == IInv /\ CloseDir => IInv'
<1> SUFFICES ASSUME IInv, CloseDir PROVE IInv'  OBVIOUS
<1>1. /\ pc = "scan" /\ pc' = "loop" /\ names = {} /\ Pop
      /\ UNCHANGED <<tree, names, unlinked, visited, files, caller, steady>>
  BY DEF CloseDir
<1>2. stack # <<>> /\ \A p \in Kept : ~Left(stack, p)  BY <1>1 DEF IInv, ScanOK, Kept
<1> QED  BY <1>1, <1>2, PopInv

LEMMA LoopEndsInv == IInv /\ LoopEnds => IInv'
<1> SUFFICES ASSUME IInv, LoopEnds PROVE IInv'  OBVIOUS
<1>1. /\ pc = "loop" /\ pc' = "answer"
      /\ UNCHANGED <<tree, stack, names, unlinked, visited, files, paginated, cursor, received, lost, steady>>
  BY DEF LoopEnds, page, caller
<1>2. TypeOK'  BY <1>1 DEF IInv, TypeOK
<1>3. TreeOK' /\ Kept' = Kept /\ CursorOK'  BY <1>1 DEF IInv, TreeOK, Kept, CursorOK
<1>4. PageOK'  BY <1>1, <1>3 DEF IInv, PageOK
<1> QED  BY <1>1, <1>2, <1>3, <1>4 DEF IInv, ScanOK

(* Going on in the open directory after one of its names: what is to come    *)
(* after the new position was to come before it.                             *)
LEMMA LeftAfter ==
  ASSUME IInv, pc = "scan", names # {}, NEW p \in Paths, Left(MovedOn(stack, NextName), p)
  PROVE  Left(stack, p) /\ p[Len(stack)] > NextName
<1> DEFINE k == Len(stack)
           t == MovedOn(stack, NextName)
<1>1. stack \in Seq(Frame) /\ stack # <<>> /\ Shape(stack) /\ NextName \in Names
      /\ NextName > stack[k].after
  BY NextFacts DEF IInv, TypeOK, PageOK, ScanOK
<1>2. /\ Len(t) = k /\ Last(t) = [path |-> Last(stack).path, after |-> NextName]
      /\ \A i \in 1..(k - 1) : t[i] = stack[i]
  BY <1>1, MovedOnStack
<1>3. t[k].after = NextName  BY <1>2 DEF Last
<1> HIDE DEF t
<1>4. Under(stack, k, p)
  <2>1. Under(t, k, p)  BY <1>2 DEF Left, t
  <2> QED  BY <2>1, <1>2 DEF Under
<1>5. p[k] > NextName  BY <1>2, <1>3 DEF Left, t
<1>6. k \in Nat /\ k >= 1 /\ stack[k].after \in Nat /\ k <= Len(p)
  BY <1>1, <1>4, FrameFacts DEF Under
<1>7. p[k] \in Nat /\ NextName \in Nat
  <2>1. k \in 1..Len(p)  BY <1>6, PathFacts
  <2> QED  BY <2>1, <1>1, PathFacts, ListDirAssumption DEF ListDirAssumption
<1> QED  BY <1>1, <1>4, <1>5, <1>6, <1>7 DEF Left

(* A name that is not a directory: it is reported if it is a file, and what  *)
(* is kept has nothing else up to it.                                        *)
LEMMA VisitOtherInv == IInv /\ VisitOther => IInv'
<1> SUFFICES ASSUME IInv, VisitOther PROVE IInv'  OBVIOUS
<1> DEFINE n == NextName
           c == Child(Top.path, n)
           t == MovedOn(stack, n)
<1>0. PICK seen \in Seen(c) \ {"dir"} :
        files' = IF seen = "file" THEN Append(files, c) ELSE files
  BY DEF VisitOther
<1>s. /\ seen = "file" => Stat(c) = "file"
      /\ seen # "file" => Stat(c) \notin {"file", "dir"} \/ c \in Flaky
  BY DEF Seen
<1>1. /\ UNCHANGED <<tree, unlinked, paginated, cursor, received, lost, steady>>
      /\ pc = "scan" /\ names # {} /\ visited' = visited + 1
      /\ stack' = t /\ names' = names \ {n}
      /\ files' = IF seen = "file" THEN Append(files, c) ELSE files
      /\ pc' = IF PageFull(visited', files') THEN "answer" ELSE "scan"
  BY <1>0 DEF VisitOther, Visit, caller, Advanced, MovedOn
<1>2. /\ n \in names /\ n \in Names /\ \A other \in names : n <= other
      /\ n > stack[Len(stack)].after /\ c \in Paths
      /\ \A p \in steady : Left(stack, p) =>
           /\ p[Len(stack)] >= n
           /\ p[Len(stack)] <= n =>
                IF Len(p) = Len(stack) THEN p = c /\ Stat(c) = "file" ELSE Stat(c) = "dir"
  BY <1>1, NextFacts
<1>3. /\ stack \in Seq(Frame) /\ stack # <<>> /\ Shape(stack) /\ Len(stack) <= MaxDepth
      /\ Divides(stack, received \o files, Kept)
      /\ visited < MaxEntries /\ Len(files) < MaxFiles
      /\ \A m \in names : Child(Top.path, m) \in Paths /\ m > Top.after
  BY <1>1 DEF IInv, TypeOK, PageOK, ScanOK
<1>4. t \in Seq(Frame) /\ Len(t) = Len(stack) /\ Shape(t) /\ t # <<>>
      /\ Last(t) = [path |-> Top.path, after |-> n]
  <2>1. t \in Seq(Frame) /\ Len(t) = Len(stack) /\ Shape(t)
        /\ Last(t) = [path |-> Top.path, after |-> n]
    BY <1>2, <1>3, MovedOnStack DEF Top
  <2> QED  BY <2>1, <1>3, EmptySeq
<1>5. /\ files \in Seq(Paths) /\ Append(files, c) \in Seq(Paths)
      /\ Len(Append(files, c)) = Len(files) + 1 /\ Len(files) \in Nat
      /\ visited \in Nat /\ MaxEntries \in Nat /\ MaxFiles \in Nat
  BY <1>2, AppendReported, LenProperties, ListDirAssumption DEF IInv, TypeOK, ListDirAssumption
<1>6. TypeOK'
  <2>1. files' \in Seq(Paths) /\ Len(files') <= MaxFiles /\ visited' \in 0..MaxEntries
    BY <1>1, <1>3, <1>5
  <2>2. stack' \in Seq(Frame) /\ Len(stack') <= MaxDepth  BY <1>1, <1>3, <1>4
  <2> QED  BY <1>1, <2>1, <2>2 DEF IInv, TypeOK
<1>7. TreeOK' /\ Kept' = Kept /\ CursorOK'
  <2>1. pc' \notin {"rejected", "complete"} /\ pc # "complete"  BY <1>1
  <2>2. TreeOK' /\ Kept' = Kept  BY <1>1 DEF IInv, TreeOK, Kept
  <2> QED  BY <1>1, <2>1, <2>2 DEF IInv, CursorOK
<1>8. Divides(t, received \o files', Kept)
  <2>1. /\ (\A p \in Kept : ~(Left(stack, p) /\ p[Len(stack)] <= n))
            => Divides(t, received \o files, Kept)
        /\ (\A p \in Kept : Left(stack, p) /\ p[Len(stack)] <= n => p = c)
            => Divides(t, Append(received \o files, c), Kept)
    BY <1>2, <1>3, MovedOnDivides, KeptFiles, Reported DEF IInv, Top
  <2>2. CASE seen = "file"
    <3>1. received \o files' = Append(received \o files, c)
      BY <2>2, <1>1, <1>2, Reported DEF IInv
    <3>2. \A p \in Kept : Left(stack, p) /\ p[Len(stack)] <= n => p = c
      BY <1>2, <1>s, <2>2 DEF Kept
    <3> QED  BY <2>1, <3>1, <3>2
  <2>3. CASE seen # "file"
    <3>1. ASSUME NEW p \in Kept, Left(stack, p), p[Len(stack)] <= n PROVE FALSE
      <4>1. IF Len(p) = Len(stack) THEN p = c /\ Stat(c) = "file" ELSE Stat(c) = "dir"
        BY <1>2, <3>1 DEF Kept
      <4>2. c \in Flaky  BY <1>s, <2>3, <4>1
      <4>3. p \in Paths /\ Under(stack, Len(stack), p) /\ p[Len(stack)] >= n
        BY <1>2, <3>1 DEF Kept, IInv, TypeOK, Left
      <4>4. /\ SubSeq(p, 1, Len(stack)) = Child(Top.path, p[Len(stack)])
            /\ p[Len(stack)] \in Names /\ Len(stack) \in 1..Len(p)
        <5>1. Len(stack) \in Nat /\ Len(stack) >= 1 /\ Len(p) \in Nat /\ Len(stack) <= Len(p)
          BY <1>3, <4>3, FrameFacts, PathFacts DEF Under
        <5> QED  BY <1>3, <4>3, <5>1, LeftPath DEF Top
      <4>5. p[Len(stack)] = n
        <5> DEFINE at == p[Len(stack)]
        <5>1. at \in Nat /\ n \in Nat
          BY <1>2, <4>4, ListDirAssumption DEF ListDirAssumption
        <5>2. at >= n /\ at <= n  BY <3>1, <4>3
        <5>3. \A x, y \in Nat : x >= y /\ x <= y => x = y  OBVIOUS
        <5> HIDE DEF at, n
        <5>4. at = n  BY <5>1, <5>2, <5>3
        <5> QED  BY <5>4 DEF at
      <4>6. SubSeq(p, 1, Len(stack)) \notin Flaky  BY <3>1, <4>4 DEF Kept, Reachable
      <4> QED  BY <4>2, <4>4, <4>5, <4>6
    <3> QED  BY <2>1, <2>3, <3>1, <1>1
  <2> QED  BY <2>2, <2>3
<1>9. PageOK'
  <2>1. Shape(stack') /\ Divides(stack', (received \o files)', Kept')
    BY <1>1, <1>4, <1>7, <1>8
  <2>2. pc' = "scan" => visited' < MaxEntries /\ Len(files') < MaxFiles
    <3>1. visited' \in Nat /\ Len(files') \in Nat  BY <1>1, <1>5
    <3> QED  BY <1>1, <1>5, <3>1 DEF PageFull
  <2> QED  BY <1>1, <2>1, <2>2 DEF PageOK
<1>10. ScanOK'
  <2>1. \A m \in names \ {n} : Child(Top.path, m) \in Paths /\ m > n
    <3>1. names \subseteq Nat  BY ListDirAssumption DEF ListDirAssumption, IInv, TypeOK
    <3> QED  BY <1>2, <1>3, <3>1
  <2>2. ASSUME NEW p \in steady, Left(t, p) PROVE p[Len(stack)] \in names \ {n} /\ ~unlinked
    <3>1. p \in Paths  BY DEF IInv, TypeOK
    <3>2. Left(stack, p) /\ p[Len(stack)] > n  BY <1>1, <2>2, <3>1, LeftAfter
    <3>3. p[Len(stack)] \in names /\ ~unlinked  BY <1>1, <3>2, <2>2 DEF IInv, ScanOK
    <3>4. n \in Nat  BY <1>2, ListDirAssumption DEF ListDirAssumption
    <3> QED  BY <3>2, <3>3, <3>4
  <2>3. Top'.path = Top.path /\ Top'.after = n  BY <1>1, <1>4 DEF Top
  <2> QED  BY <1>1, <1>4, <2>1, <2>2, <2>3 DEF ScanOK
<1> QED  BY <1>6, <1>7, <1>9, <1>10 DEF IInv

(* A directory: all that is kept up to it lies below it. *)
LEMMA DescendInv == IInv /\ Descend => IInv'
<1> SUFFICES ASSUME IInv, Descend PROVE IInv'  OBVIOUS
<1> DEFINE n == NextName
           c == Child(Top.path, n)
           u == Append(MovedOn(stack, n), [path |-> c, after |-> 0])
<1>1. /\ UNCHANGED <<tree, unlinked, files, paginated, cursor, received, lost, steady>>
      /\ pc = "scan" /\ names # {} /\ visited' = visited + 1
      /\ names' = {} /\ Stat(c) = "dir"
      /\ \/ pc' = "tooDeep" /\ stack' = stack
         \/ /\ Len(stack) < MaxDepth /\ stack' = u
            /\ pc' = IF visited' >= MaxEntries THEN "answer" ELSE "loop"
  <2>1. Len(stack) \in Nat /\ MaxDepth \in Nat
    BY LenProperties, ListDirAssumption DEF IInv, TypeOK, ListDirAssumption
  <2>2. Len(stack) >= MaxDepth \/ Len(stack) < MaxDepth  BY <2>1
  <2>3. /\ UNCHANGED <<tree, unlinked, files, paginated, cursor, received, lost, steady>>
        /\ pc = "scan" /\ names # {} /\ visited' = visited + 1
        /\ names' = {} /\ Stat(c) = "dir"
    BY DEF Descend, Visit, caller
  <2>4. IF Len(stack) >= MaxDepth
          THEN pc' = "tooDeep" /\ stack' = stack
          ELSE stack' = u /\ pc' = IF visited' >= MaxEntries THEN "answer" ELSE "loop"
    BY DEF Descend, Advanced, MovedOn
  <2> QED  BY <2>2, <2>3, <2>4
<1>2. /\ n \in Names /\ n > stack[Len(stack)].after /\ c \in Paths
      /\ \A p \in steady : Left(stack, p) =>
           /\ p[Len(stack)] >= n
           /\ p[Len(stack)] <= n =>
                IF Len(p) = Len(stack) THEN p = c /\ Stat(c) = "file" ELSE Stat(c) = "dir"
  BY <1>1, NextFacts
<1>3. /\ stack \in Seq(Frame) /\ stack # <<>> /\ Shape(stack) /\ Len(stack) <= MaxDepth
      /\ Divides(stack, received \o files, Kept) /\ received \o files \in Seq(Paths)
      /\ visited < MaxEntries /\ Len(files) < MaxFiles
  BY <1>1, Reported DEF IInv, TypeOK, PageOK, ScanOK
<1>4. visited \in Nat /\ MaxEntries \in Nat /\ visited' \in 0..MaxEntries
      /\ MaxDepth \in Nat /\ Len(stack) \in Nat
  <2>1. visited \in 0..MaxEntries /\ MaxEntries \in Nat /\ MaxDepth \in Nat
    BY ListDirAssumption DEF IInv, TypeOK, ListDirAssumption
  <2> QED  BY <2>1, <1>1, <1>3, LenProperties
<1>5. u \in Seq(Frame) /\ Len(u) = Len(stack) + 1 /\ Shape(u)
  BY <1>2, <1>3, DeeperStack DEF Top
<1>6. Divides(u, received \o files, Kept)
  <2>1. ASSUME NEW p \in Kept, Left(stack, p)
        PROVE  p[Len(stack)] >= n /\ (p[Len(stack)] = n => Len(p) # Len(stack))
    <3>1. n \in Nat  BY <1>2, ListDirAssumption DEF ListDirAssumption
    <3>2. p[Len(stack)] = n => p[Len(stack)] <= n  BY <3>1
    <3> QED  BY <1>1, <1>2, <2>1, <3>2 DEF Kept
  <2>2. Kept \subseteq Paths  BY KeptFiles DEF IInv
  <2> QED  BY <1>2, <1>3, <2>1, <2>2, DeeperDivides DEF Top
<1> HIDE DEF u, c, n
<1>7. TypeOK'
  <2>1. stack' \in Seq(Frame) /\ Len(stack') <= MaxDepth  BY <1>1, <1>3, <1>4, <1>5
  <2> QED  BY <1>1, <1>4, <2>1 DEF IInv, TypeOK
<1>8. TreeOK' /\ Kept' = Kept /\ CursorOK'
  <2>1. pc' \notin {"rejected", "complete"} /\ pc # "complete"  BY <1>1
  <2>2. TreeOK' /\ Kept' = Kept  BY <1>1 DEF IInv, TreeOK, Kept
  <2> QED  BY <1>1, <2>1, <2>2 DEF IInv, CursorOK
<1>9. PageOK'
  <2>1. CASE pc' = "tooDeep"  BY <2>1 DEF PageOK
  <2>2. CASE pc' # "tooDeep"
    <3>1. stack' = u /\ pc' = IF visited' >= MaxEntries THEN "answer" ELSE "loop"
      BY <1>1, <2>2
    <3>2. pc' = "loop" => visited' < MaxEntries  BY <1>4, <3>1
    <3> QED  BY <1>1, <1>3, <1>5, <1>6, <1>8, <3>1, <3>2 DEF PageOK
  <2> QED  BY <2>1, <2>2
<1>10. ScanOK'  BY <1>1 DEF ScanOK
<1> QED  BY <1>7, <1>8, <1>9, <1>10 DEF IInv

-----------------------------------------------------------------------------
(* The answer. *)

LEMMA RefuseInv == IInv /\ Refuse => IInv'
<1> SUFFICES ASSUME IInv, Refuse PROVE IInv'  OBVIOUS
<1>1. /\ pc = "answer" /\ pc' = "refused"
      /\ UNCHANGED <<tree, stack, names, unlinked, visited, files, paginated, cursor, received, lost, steady>>
  BY DEF Refuse, page, caller
<1>2. TypeOK'  BY <1>1 DEF IInv, TypeOK
<1>3. TreeOK' /\ Kept' = Kept /\ CursorOK'  BY <1>1 DEF IInv, TreeOK, Kept, CursorOK
<1> QED  BY <1>1, <1>2, <1>3 DEF IInv, PageOK, ScanOK

(* The command's stack becomes the caller's cursor with the files that go    *)
(* with it.                                                                  *)
LEMMA DeliverInv == IInv /\ Deliver => IInv'
<1> SUFFICES ASSUME IInv, Deliver PROVE IInv'  OBVIOUS
<1>1. /\ UNCHANGED <<tree, paginated, lost, steady>>
      /\ pc = "answer" /\ received' = received \o files /\ cursor' = stack
      /\ pc' = IF stack = <<>> THEN "complete" ELSE "ready"
      /\ stack' = <<>> /\ names' = {} /\ unlinked' = FALSE /\ visited' = 0 /\ files' = <<>>
  BY DEF Deliver, Forget
<1>2. MaxEntries \in Nat /\ MaxFiles \in Nat /\ MaxDepth \in Nat
  BY ListDirAssumption DEF ListDirAssumption
<1>3. Len(<<>>) = 0 /\ <<>> \in Seq(Frame) /\ <<>> \in Seq(Paths)  OBVIOUS
<1>4. received' \in Seq(Paths)  BY <1>1, Reported DEF IInv
<1>5. TypeOK'
  <2>1. stack' \in Seq(Frame) /\ Len(stack') <= MaxDepth  BY <1>1, <1>2, <1>3
  <2>2. files' \in Seq(Paths) /\ Len(files') <= MaxFiles  BY <1>1, <1>2, <1>3
  <2>3. visited' \in 0..MaxEntries  BY <1>1, <1>2
  <2> QED  BY <1>1, <1>4, <2>1, <2>2, <2>3 DEF IInv, TypeOK
<1>6. TreeOK' /\ Kept' = Kept  BY <1>1 DEF IInv, TreeOK, Kept
<1>7. Shape(stack) /\ Divides(stack, received \o files, Kept)  BY <1>1 DEF IInv, PageOK
<1>8. CursorOK'  BY <1>1, <1>6, <1>7 DEF CursorOK
<1>9. PageOK' /\ ScanOK'  BY <1>1 DEF PageOK, ScanOK
<1> QED  BY <1>5, <1>6, <1>8, <1>9 DEF IInv

(* A lost answer leaves the caller with the cursor it had. *)
LEMMA LoseInv == IInv /\ Lose => IInv'
<1> SUFFICES ASSUME IInv, Lose PROVE IInv'  OBVIOUS
<1>1. /\ UNCHANGED <<tree, paginated, cursor, received, steady>>
      /\ pc = "answer" /\ pc' = "ready" /\ lost < MaxLost /\ lost' = lost + 1
      /\ stack' = <<>> /\ names' = {} /\ unlinked' = FALSE /\ visited' = 0 /\ files' = <<>>
  BY DEF Lose, Forget
<1>2. MaxEntries \in Nat /\ MaxFiles \in Nat /\ MaxDepth \in Nat /\ MaxLost \in Nat
  BY ListDirAssumption DEF ListDirAssumption
<1>3. Len(<<>>) = 0 /\ <<>> \in Seq(Frame) /\ <<>> \in Seq(Paths)  OBVIOUS
<1>4. lost' \in 0..MaxLost  BY <1>1, <1>2 DEF IInv, TypeOK
<1>5. TypeOK'
  <2>1. stack' \in Seq(Frame) /\ Len(stack') <= MaxDepth  BY <1>1, <1>2, <1>3
  <2>2. files' \in Seq(Paths) /\ Len(files') <= MaxFiles  BY <1>1, <1>2, <1>3
  <2>3. visited' \in 0..MaxEntries  BY <1>1, <1>2
  <2> QED  BY <1>1, <1>4, <2>1, <2>2, <2>3 DEF IInv, TypeOK
<1>6. TreeOK' /\ Kept' = Kept /\ CursorOK'  BY <1>1 DEF IInv, TreeOK, Kept, CursorOK
<1>7. PageOK' /\ ScanOK'  BY <1>1 DEF PageOK, ScanOK
<1> QED  BY <1>5, <1>6, <1>7 DEF IInv

-----------------------------------------------------------------------------
(* The other file commands. *)

(* Any change that keeps a tree, and does not remove the open directory over *)
(* files that are to come, keeps the invariant.                              *)
LEMMA BecomesInv ==
  ASSUME IInv, NEW p \in Paths, NEW kind \in {"none", "file", "dir"}, Becomes(p, kind),
         WellFormed(tree'),
         kind = "none" => \A f \in steady : \A j \in 0..(Len(f) - 1) : SubSeq(f, 1, j) # p
  PROVE  IInv'
<1>1. /\ UNCHANGED <<pc, stack, names, visited, files, paginated, cursor, received, lost>>
      /\ pc # "complete" /\ pc # "rejected"
      /\ tree' = [tree EXCEPT ![p] = kind] /\ steady' = {f \in steady : f # p}
      /\ unlinked' = (unlinked \/ (kind = "none" /\ pc = "scan" /\ Top.path = p))
  BY DEF Becomes, Listening, caller
<1>2. tree' \in [Paths -> {"none", "file", "dir"}]  BY <1>1 DEF IInv, TypeOK
<1>3. unlinked' \in BOOLEAN /\ steady' \subseteq Paths  BY <1>1 DEF IInv, TypeOK
<1>4. TypeOK'  BY <1>1, <1>2, <1>3 DEF IInv, TypeOK
<1>5. TreeOK'
  <2>1. \A f \in steady' : tree'[f] = "file"  BY <1>1 DEF IInv, TypeOK, TreeOK
  <2> QED  BY <2>1 DEF TreeOK
<1>6. Kept' \subseteq Kept  BY <1>1 DEF Kept
<1>7. CursorOK'  BY <1>1, <1>6 DEF IInv, CursorOK, Divides
<1>8. PageOK'  BY <1>1, <1>6 DEF IInv, PageOK, Divides
<1>9. ScanOK'
  <2> SUFFICES ASSUME pc = "scan" PROVE ScanOK'  BY <1>1 DEF ScanOK
  <2>1. stack # <<>> /\ stack \in Seq(Frame) /\ Shape(stack)
    BY DEF IInv, TypeOK, PageOK, ScanOK
  <2>2. ASSUME NEW f \in steady', Left(stack, f) PROVE f[Len(stack)] \in names /\ ~unlinked'
    <3>1. f \in steady /\ f \in Paths /\ Under(stack, Len(stack), f) /\ tree[f] = "file"
      BY <1>1, <2>2 DEF IInv, TypeOK, TreeOK, Left
    <3>2. f[Len(stack)] \in names /\ ~unlinked  BY <2>2, <3>1 DEF IInv, ScanOK
    <3>3. ~(kind = "none" /\ Top.path = p)
      <4>1. Len(stack) - 1 \in 0..(Len(f) - 1) /\ SubSeq(f, 1, Len(stack) - 1) = Top.path
        BY <2>1, <3>1, LeftPath DEF Top
      <4> QED  BY <3>1, <4>1
    <3> QED  BY <1>1, <3>2, <3>3
  <2>3. Top' = Top  BY <1>1 DEF Top
  <2> QED  BY <1>1, <2>2, <2>3 DEF IInv, ScanOK
<1> QED  BY <1>4, <1>5, <1>7, <1>8, <1>9 DEF IInv

\* what exists below a directory makes one of its names exist
LEMMA BelowHasChild ==
  ASSUME NEW t, WellFormed(t), NEW f \in Paths, t[f] # "none", NEW j \in 0..(Len(f) - 1)
  PROVE  /\ SubSeq(f, 1, j) \in Paths /\ f[j + 1] \in Names
         /\ Child(SubSeq(f, 1, j), f[j + 1]) \in Paths
         /\ t[Child(SubSeq(f, 1, j), f[j + 1])] # "none"
<1>1. f \in Seq(Names) /\ Len(f) \in Nat /\ j \in Nat /\ j + 1 \in 1..Len(f) /\ j \in 0..Len(f)
  BY PathFacts
<1>2. f[j + 1] \in Names  BY <1>1, PathFacts
<1>3. SubSeq(f, 1, j) \in Paths /\ SubSeq(f, 1, j + 1) \in Paths
  <2>1. j + 1 \in 0..Len(f)  BY <1>1
  <2> QED  BY <1>1, <2>1, ListDirAssumption DEF ListDirAssumption
<1>4. SubSeq(f, 1, j + 1) = Append(SubSeq(f, 1, j), f[j + 1])
  <2>1. SubSeq(f, 1, j + 1) = SubSeq(f, 1, (j + 1) - 1) \o <<f[j + 1]>>
    <3>1. 1 \in 1..Len(f) /\ j + 1 \in 1..Len(f)  BY <1>1
    <3> QED  BY <1>1, <3>1, SubSeqRecursiveSecond
  <2>2. (j + 1) - 1 = j  BY <1>1
  <2>3. SubSeq(f, 1, j) \in Seq(Names)  BY <1>3, PathFacts
  <2> QED  BY <1>2, <2>1, <2>2, <2>3, AppendIsConcat
<1>5. t[SubSeq(f, 1, j + 1)] # "none"
  <2>1. CASE j + 1 = Len(f)  BY <2>1, <1>1, SubSeqFull
  <2>2. CASE j + 1 # Len(f)
    <3>1. j + 1 \in 0..(Len(f) - 1)  BY <2>2, <1>1
    <3>2. t[SubSeq(f, 1, j + 1)] = "dir"  BY <3>1 DEF WellFormed
    <3> QED  BY <3>2
  <2> QED  BY <2>1, <2>2
<1> QED  BY <1>2, <1>3, <1>4, <1>5 DEF Child

\* adding a file or a directory where there is nothing, in a directory
LEMMA CreateKeepsTree ==
  ASSUME IInv, NEW p \in Paths, tree[p] = "none", NEW kind \in {"file", "dir"},
         tree' = [tree EXCEPT ![p] = kind],
         (p # <<>> /\ IsDir(Parent(p))) \/ (p = <<>> /\ kind = "dir")
  PROVE  WellFormed(tree')
<1>1. tree \in [Paths -> {"none", "file", "dir"}] /\ WellFormed(tree)  BY DEF IInv, TypeOK, TreeOK
<1>2. \A q \in Paths : tree'[q] = IF q = p THEN kind ELSE tree[q]  BY <1>1
<1>3. <<>> \in Paths  BY ListDirAssumption DEF ListDirAssumption
<1>4. tree'[<<>>] \in {"none", "dir"}  BY <1>1, <1>2, <1>3 DEF WellFormed
<1>5. ASSUME NEW q \in Paths, tree'[q] # "none", NEW j \in 0..(Len(q) - 1)
      PROVE  tree'[SubSeq(q, 1, j)] = "dir"
  <2>1. Len(q) \in Nat /\ q \in Seq(Names) /\ Len(p) \in Nat /\ p \in Seq(Names)  BY PathFacts
  <2>2. SubSeq(q, 1, j) \in Paths
    <3>1. j \in 0..Len(q)  BY <2>1
    <3> QED  BY <3>1, ListDirAssumption DEF ListDirAssumption
  <2>3. CASE q # p
    <3>1. tree[SubSeq(q, 1, j)] = "dir"  BY <1>1, <1>2, <1>5, <2>3 DEF WellFormed
    <3> QED  BY <1>2, <2>2, <3>1
  <2>4. CASE q = p
    <3>1. p # <<>> /\ Len(p) >= 1  BY <2>1, <2>4, EmptySeq
    <3>2. Parent(p) = SubSeq(p, 1, Len(p) - 1) /\ tree[Parent(p)] = "dir"
      BY <3>1 DEF Parent, Front, IsDir
    <3>3. tree[SubSeq(p, 1, j)] = "dir"
      <4>1. CASE j = Len(p) - 1  BY <3>2, <4>1
      <4>2. CASE j # Len(p) - 1
        <5> DEFINE d == SubSeq(p, 1, Len(p) - 1)
        <5>1. d \in Paths
          <6>1. Len(p) - 1 \in 0..Len(p)  BY <2>1, <3>1
          <6> QED  BY <6>1, ListDirAssumption DEF ListDirAssumption
        <5>2. Len(d) = Len(p) - 1
          <6>1. 1 \in Int /\ Len(p) - 1 \in Int /\ \A i \in 1..(Len(p) - 1) : p[i] \in Names
            BY <2>1, PathFacts
          <6>2. Len(d) = IF 1 <= Len(p) - 1 THEN Len(p) - 1 - 1 + 1 ELSE 0
            BY ONLY <6>1, SubSeqProperties
          <6>3. \A n \in Nat : n >= 1 => (IF 1 <= n - 1 THEN n - 1 - 1 + 1 ELSE 0) = n - 1
            OBVIOUS
          <6> QED  BY <2>1, <3>1, <6>2, <6>3
        <5>3. SubSeq(d, 1, j) = SubSeq(p, 1, j)
          <6>1. CASE j = 0
            <7>1. SubSeq(d, 1, 0) = <<>> /\ SubSeq(p, 1, 0) = <<>>  BY SubSeqEmpty
            <7> QED  BY <6>1, <7>1
          <6>2. CASE j # 0
            <7>1. 1 \in 1..Len(p) /\ Len(p) - 1 \in 1..Len(p)
                  /\ 1 \in 1..((Len(p) - 1) - 1 + 1) /\ j \in 1..((Len(p) - 1) - 1 + 1)
              BY <2>1, <2>4, <3>1, <4>2, <6>2
            <7>2. SubSeq(d, 1, j) = SubSeq(p, 1 + 1 - 1, 1 + j - 1)
              BY ONLY <2>1, <7>1, SubSeqOfSubSeq
            <7>3. 1 + 1 - 1 = 1 /\ 1 + j - 1 = j  BY <7>1
            <7> QED  BY <7>2, <7>3
          <6> QED  BY <6>1, <6>2
        <5>4. j \in 0..(Len(d) - 1)  BY <2>1, <2>4, <3>1, <4>2, <5>2
        <5>5. tree[d] # "none"  BY <3>2
        <5> HIDE DEF d
        <5>6. tree[SubSeq(d, 1, j)] = "dir"  BY <1>1, <5>1, <5>4, <5>5 DEF WellFormed
        <5> QED  BY <5>3, <5>6
      <4> QED  BY <4>1, <4>2
    <3> QED  BY <1>2, <2>2, <2>4, <3>3
  <2> QED  BY <2>3, <2>4
<1> QED  BY <1>4, <1>5 DEF WellFormed

\* taking away what has nothing below it
LEMMA RemoveKeepsTree ==
  ASSUME IInv, NEW p \in Paths, tree' = [tree EXCEPT ![p] = "none"],
         \A f \in Paths : tree[f] # "none" => \A j \in 0..(Len(f) - 1) : SubSeq(f, 1, j) # p
  PROVE  WellFormed(tree')
<1>1. tree \in [Paths -> {"none", "file", "dir"}] /\ WellFormed(tree)  BY DEF IInv, TypeOK, TreeOK
<1>2. \A q \in Paths : tree'[q] = IF q = p THEN "none" ELSE tree[q]  BY <1>1
<1>3. <<>> \in Paths  BY ListDirAssumption DEF ListDirAssumption
<1>4. tree'[<<>>] \in {"none", "dir"}  BY <1>1, <1>2, <1>3 DEF WellFormed
<1>5. ASSUME NEW q \in Paths, tree'[q] # "none", NEW j \in 0..(Len(q) - 1)
      PROVE  tree'[SubSeq(q, 1, j)] = "dir"
  <2>1. q # p /\ tree[q] # "none"  BY <1>2, <1>5
  <2>2. SubSeq(q, 1, j) \in Paths  BY <1>1, <2>1, BelowHasChild
  <2>3. tree[SubSeq(q, 1, j)] = "dir" /\ SubSeq(q, 1, j) # p  BY <1>1, <2>1 DEF WellFormed
  <2> QED  BY <1>2, <2>2, <2>3
<1> QED  BY <1>4, <1>5 DEF WellFormed

LEMMA CreateFileInv == \A p \in Paths : IInv /\ CreateFile(p) => IInv'
<1> SUFFICES ASSUME NEW p \in Paths, IInv, CreateFile(p) PROVE IInv'  OBVIOUS
<1>1. p # <<>> /\ tree[p] = "none" /\ IsDir(Parent(p)) /\ Becomes(p, "file")  BY DEF CreateFile
<1>2. WellFormed(tree')  BY <1>1, CreateKeepsTree DEF Becomes
<1> QED  BY <1>1, <1>2, BecomesInv

LEMMA MakeDirInv == \A p \in Paths : IInv /\ MakeDir(p) => IInv'
<1> SUFFICES ASSUME NEW p \in Paths, IInv, MakeDir(p) PROVE IInv'  OBVIOUS
<1>1. tree[p] = "none" /\ (p = <<>> \/ IsDir(Parent(p))) /\ Becomes(p, "dir")  BY DEF MakeDir
<1>2. WellFormed(tree')  BY <1>1, CreateKeepsTree DEF Becomes
<1> QED  BY <1>1, <1>2, BecomesInv

LEMMA UnlinkInv == \A p \in Paths : IInv /\ Unlink(p) => IInv'
<1> SUFFICES ASSUME NEW p \in Paths, IInv, Unlink(p) PROVE IInv'  OBVIOUS
<1>1. tree[p] = "file" /\ Becomes(p, "none")  BY DEF Unlink
<1>2. \A f \in Paths : tree[f] # "none" => \A j \in 0..(Len(f) - 1) : SubSeq(f, 1, j) # p
  BY <1>1 DEF IInv, TreeOK, WellFormed
<1>3. WellFormed(tree')  BY <1>1, <1>2, RemoveKeepsTree DEF Becomes
<1>4. \A f \in steady : f \in Paths /\ tree[f] # "none"  BY DEF IInv, TypeOK, TreeOK
<1> QED  BY <1>1, <1>2, <1>3, <1>4, BecomesInv

LEMMA RemoveDirInv == \A p \in Paths : IInv /\ RemoveDir(p) => IInv'
<1> SUFFICES ASSUME NEW p \in Paths, IInv, RemoveDir(p) PROVE IInv'  OBVIOUS
<1>1. Children(p) = {} /\ Becomes(p, "none")  BY DEF RemoveDir
<1>2. ASSUME NEW f \in Paths, tree[f] # "none", NEW j \in 0..(Len(f) - 1), SubSeq(f, 1, j) = p
      PROVE  FALSE
  <2>1. f[j + 1] \in Names /\ Child(p, f[j + 1]) \in Paths /\ tree[Child(p, f[j + 1])] # "none"
    BY <1>2, BelowHasChild DEF IInv, TreeOK
  <2> QED  BY <1>1, <2>1 DEF Children, Exists
<1>3. WellFormed(tree')  BY <1>1, <1>2, RemoveKeepsTree DEF Becomes
<1>4. \A f \in steady : f \in Paths /\ tree[f] # "none"  BY DEF IInv, TypeOK, TreeOK
<1> QED  BY <1>1, <1>2, <1>3, <1>4, BecomesInv

-----------------------------------------------------------------------------
(* The invariant holds, and what follows from it. *)

LEMMA StutterInv == IInv /\ UNCHANGED vars => IInv'
<1> SUFFICES ASSUME IInv, UNCHANGED vars PROVE IInv'  OBVIOUS
<1>1. UNCHANGED <<tree, pc, stack, names, unlinked, visited, files,
                  paginated, cursor, received, lost, steady>>
  BY DEF vars, page, caller
<1>2. TypeOK'  BY <1>1 DEF IInv, TypeOK
<1>3. TreeOK' /\ Kept' = Kept  BY <1>1 DEF IInv, TreeOK, Kept
<1>4. CursorOK' /\ PageOK'  BY <1>1, <1>3 DEF IInv, CursorOK, PageOK
<1>5. ScanOK'  BY <1>1 DEF IInv, ScanOK, Top
<1> QED  BY <1>2, <1>3, <1>4, <1>5 DEF IInv

LEMMA StepInv == IInv /\ [Next]_vars => IInv'
<1> SUFFICES ASSUME IInv, [Next]_vars PROVE IInv'  OBVIOUS
<1>1. CASE List
  BY <1>1, BeginPageInv, OpenDirInv, OpenFailsInv, LoopEndsInv, VisitOtherInv, DescendInv,
     CloseDirInv, RefuseInv, DeliverInv DEF List
<1>2. CASE Lose  BY <1>2, LoseInv
<1>3. CASE Others  BY <1>3, CreateFileInv, MakeDirInv, UnlinkInv, RemoveDirInv DEF Others
<1>4. CASE UNCHANGED vars  BY <1>4, StutterInv
<1> QED  BY <1>1, <1>2, <1>3, <1>4 DEF Next

(* Of the files that were there throughout, and whose stat and whose         *)
(* directories' stat and open do not fail, those reported are those that the *)
(* cursor has passed, at every step of a page and of a change to the tree.   *)
(* (fs.py 266-339)                                                           *)
THEOREM InvHolds == Spec => []IInv
<1> QED  BY InitInv, StepInv, PTL DEF Spec

(* The cursor stays within its depth, a page within its limits. (fs.py 21-23, 302-317) *)
THEOREM TypeCorrect == Spec => []TypeOK
<1>1. IInv => TypeOK  BY DEF IInv
<1> QED  BY <1>1, InvHolds, PTL

(* A cursor the agent has given out is never rejected, whatever happened to  *)
(* the tree in between. (fs.py 341-380)                                      *)
THEOREM CursorsAccepted == Spec => []CursorAccepted
<1>1. IInv => CursorAccepted  BY DEF IInv, CursorOK, CursorAccepted
<1> QED  BY <1>1, InvHolds, PTL

-----------------------------------------------------------------------------
(* ListDir implements Listing: only an answer that arrives is a page, and    *)
(* only the other commands change what is steady.                            *)

LEMMA DeliverIsPage == IInv /\ IInv' /\ Deliver => Promise!ReceivePage
<1> SUFFICES ASSUME IInv, IInv', Deliver PROVE Promise!ReceivePage  OBVIOUS
<1>1. /\ pc = "answer" /\ received' = received \o files /\ steady' = steady
      /\ cursor' = stack /\ pc' = IF stack = <<>> THEN "complete" ELSE "ready"
  BY DEF Deliver
<1>2. received \in Seq(Paths) /\ files \in Seq(Paths) /\ received' \in Seq(Paths)
  BY DEF IInv, TypeOK
<1>3. IsPrefix(received, received')
  <2>1. /\ Len(received') = Len(received) + Len(files) /\ Len(received) \in Nat /\ Len(files) \in Nat
        /\ \A i \in 1..(Len(received) + Len(files)) : received'[i] =
             IF i <= Len(received) THEN received[i] ELSE files[i - Len(received)]
    BY <1>1, <1>2, ConcatProperties, LenProperties
  <2>2. \A i \in 1..Len(received) : received'[i] = received[i]  BY <2>1
  <2>3. SubSeq(received, 1, Len(received)) = received  BY <1>2, SubSeqFull
  <2> DEFINE r == SubSeq(received', 1, Len(received))
  <2>4. r \in Seq(Paths) /\ Len(r) = Len(received) /\ \A i \in 1..Len(received) : r[i] = received[i]
    <3>1. \A i \in 1..Len(received) : received'[i] \in Paths  BY <1>2, <2>2, ElementOfSeq
    <3>2. /\ r \in Seq(Paths)
          /\ Len(r) = IF 1 <= Len(received) THEN Len(received) - 1 + 1 ELSE 0
          /\ \A i \in 1..(Len(received) - 1 + 1) : r[i] = received'[1 + i - 1]
      BY <2>1, <3>1, SubSeqProperties
    <3>3. Len(r) = Len(received)  BY <2>1, <3>2
    <3>4. \A i \in 1..Len(received) : i \in 1..(Len(received) - 1 + 1) /\ 1 + i - 1 = i  BY <2>1
    <3> QED  BY <2>2, <3>2, <3>3, <3>4
  <2> HIDE DEF r
  <2>5. r = received  BY <1>2, <2>4, SeqEqual
  <2>6. Len(received) <= Len(received')  BY <2>1
  <2> QED  BY <2>3, <2>5, <2>6 DEF r, IsPrefix
<1>4. IsInjective(received') /\ Range(received') \subseteq Paths
  <2>1. IsInjective(received')  BY DEF IInv, CursorOK, Divides
  <2>2. Range(received') \subseteq Paths  BY <1>2, AppendReported, ListDirAssumption DEF ListDirAssumption
  <2> QED  BY <2>1, <2>2
<1>5. (pc' = "complete") => steady \cap Reachable \subseteq Range(received')
  <2> SUFFICES ASSUME pc' = "complete" PROVE Kept' \subseteq Range(received')
    BY <1>1 DEF Kept
  <2>1. cursor' = <<>>  BY <1>1
  <2>2. \A p \in Kept' : Passed(cursor', p)  BY <2>1 DEF Passed
  <2> QED  BY <2>2 DEF IInv, CursorOK, Divides
<1>6. ~(pc = "complete") /\ (pc' = "complete") \in BOOLEAN  BY <1>1
<1>7. steady' \cap Reachable = steady \cap Reachable  BY <1>1
<1> QED
  BY <1>3, <1>4, <1>5, <1>6, <1>7
  DEF Promise!ReceivePage, Promise!IsPrefix, Promise!Range, Promise!IsInjective, IsPrefix, Range,
      IsInjective

LEMMA StepPromise == IInv /\ IInv' /\ [Next]_vars => [Promise!Next]_(Promise!vars)
<1> SUFFICES ASSUME IInv, IInv', [Next]_vars
             PROVE  Promise!Next \/ UNCHANGED Promise!vars
  OBVIOUS
<1>1. CASE Deliver  BY <1>1, DeliverIsPage DEF Promise!Next
<1>2. CASE BeginPage \/ OpenDir \/ OpenFails \/ LoopEnds \/ VisitOther \/ Descend \/ CloseDir \/ Refuse \/ Lose
  <2>1. steady' = steady /\ received' = received
    BY <1>2 DEF BeginPage, OpenDir, OpenFails, LoopEnds, VisitOther, Descend, CloseDir, Refuse, Lose, caller
  <2>2. pc # "complete" /\ pc' # "complete"
    BY <1>2 DEF BeginPage, OpenDir, OpenFails, LoopEnds, VisitOther, Visit, Descend, CloseDir, Refuse, Lose
  <2> QED  BY <2>1, <2>2 DEF Promise!vars
<1>3. CASE Others
  <2>1. PICK p \in Paths, kind \in {"none", "file", "dir"} : Becomes(p, kind)
    BY <1>3 DEF Others, CreateFile, MakeDir, Unlink, RemoveDir
  <2>2. received' = received /\ pc' = pc /\ steady' \subseteq steady
    BY <2>1 DEF Becomes, caller
  <2> QED  BY <2>2 DEF Promise!Next, Promise!Change
<1>4. CASE UNCHANGED vars
  <2>1. received' = received /\ pc' = pc /\ steady' = steady  BY <1>4 DEF vars, caller
  <2> QED  BY <2>1 DEF Promise!vars
<1> QED  BY <1>1, <1>2, <1>3, <1>4 DEF Next, List

(* No file is reported twice, and when the listing says it is complete none  *)
(* is missing that was there throughout and that no failing stat or open     *)
(* hides: for any tree, any changes to it between two system calls, any set  *)
(* of entries whose stat or open may fail, and any pages asked for again.    *)
(* (fs.py 266-339)                                                           *)
THEOREM Implements == Spec => KeepsPromise
<1>1. Init => Promise!Init
  <2> SUFFICES ASSUME Init PROVE Promise!Init  OBVIOUS
  <2>1. IInv  BY InitInv
  <2>2. steady \cap Reachable \subseteq Paths  BY <2>1 DEF IInv, TypeOK
  <2> QED  BY <2>2 DEF Init, Promise!Init
<1> QED  BY <1>1, InvHolds, StepPromise, PTL DEF Spec, KeepsPromise, Promise!Spec
=============================================================================
