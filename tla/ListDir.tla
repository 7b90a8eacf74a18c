------------------------------ MODULE ListDir ------------------------------
(***************************************************************************)
(* fs.list_dir (agent/commands/fs.py): a recursive listing in pages, whose *)
(* only state between two pages is the cursor the caller sends back, while *)
(* the other file commands change the tree.                                *)
(*                                                                         *)
(* A name is a number, in the order of sorted(); a path is the sequence of *)
(* its names below the listed directory; 0 stands for the empty position.  *)
(***************************************************************************)
EXTENDS Naturals, SequencesExt

CONSTANTS
  Names,       \* bound: names of entries
  Paths,       \* bound: paths that may exist, the listed directory included
  Flaky,       \* entries whose stat or open may fail (permissions, descriptors, the disk)
  MaxEntries,  \* _MAX_LIST_ENTRIES
  MaxFiles,    \* _MAX_LIST_FILES
  MaxDepth,    \* _MAX_LIST_CURSOR_DEPTH
  MaxLost      \* bound: answers that get lost, and pages asked for again

ASSUME ListDirAssumption ==
  /\ Names \subseteq Nat \ {0}
  /\ Paths \subseteq Seq(Names) /\ <<>> \in Paths
  /\ \A p \in Paths : \A j \in 0..Len(p) : SubSeq(p, 1, j) \in Paths
  /\ Flaky \subseteq Paths \ {<<>>}
  /\ MaxEntries \in Nat \ {0} /\ MaxFiles \in Nat \ {0} /\ MaxDepth \in Nat \ {0}
  /\ MaxLost \in Nat

VARIABLES
  paginated, \* the caller sends pagination: true
  tree,      \* [Paths -> what is there]
  cursor,    \* the caller's cursor: a stack of directories being listed
  pc,        \* where the command stands, or how the listing ended
  stack,     \* the command's own stack
  names,     \* names of the open directory that are still to be visited
  unlinked,  \* the open directory has been removed meanwhile
  visited,   \* entries visited for this page
  files,     \* files found for this page
  received,  \* files of all the pages the caller has received
  lost,      \* answers lost so far
  steady     \* files there ever since the first page was asked for

page == <<stack, names, unlinked, visited, files>>
caller == <<paginated, cursor, received, lost>>
vars == <<tree, pc, page, caller, steady>>

Frame == [path : Paths, after : Names \cup {0}]

\* next_cursor and the limits of a page are part of the types
TypeOK ==
  /\ tree \in [Paths -> {"none", "file", "dir"}]
  /\ cursor \in Seq(Frame) /\ stack \in Seq(Frame)
  /\ Len(cursor) <= MaxDepth /\ Len(stack) <= MaxDepth
  /\ pc \in {"ready", "loop", "scan", "answer", "complete", "refused", "rejected", "tooDeep"}
  /\ names \subseteq Names /\ unlinked \in BOOLEAN
  /\ visited \in 0..MaxEntries
  /\ files \in Seq(Paths) /\ Len(files) <= MaxFiles
  /\ paginated \in BOOLEAN /\ received \in Seq(Paths)
  /\ lost \in 0..MaxLost
  /\ steady \subseteq Paths

Top == Last(stack)
Child(p, n) == Append(p, n)
Parent(p) == Front(p)
Exists(p) == p \in Paths /\ tree[p] # "none"
Children(p) == {n \in Names : Exists(Child(p, n))}
IsDir(p) == tree[p] = "dir"

Root == [path |-> <<>>, after |-> 0]

WellFormed(t) ==
  /\ t[<<>>] \in {"none", "dir"}
  /\ \A p \in Paths : t[p] # "none" => \A j \in 0..(Len(p) - 1) : t[SubSeq(p, 1, j)] = "dir"

Init ==
  /\ tree \in {t \in [Paths -> {"none", "file", "dir"}] : WellFormed(t)}
  /\ paginated \in BOOLEAN /\ cursor = <<Root>> /\ received = <<>> /\ lost = 0
  /\ pc = "ready" /\ stack = <<>> /\ names = {} /\ unlinked = FALSE
  /\ visited = 0 /\ files = <<>>
  /\ steady = {p \in Paths : tree[p] = "file"}

-----------------------------------------------------------------------------
(* One page. *)

\* _validate_list_cursor: every frame is where its parent frame stands
Ancestry_Anew(s) == \A i \in 2..Len(s) : s[i].path = Child(s[i - 1].path, s[i].after)
Ancestry(s) == \A i \in 2..Len(s) : s[i].path = Child(s[i - 1].path, s[i - 1].after)

ValidCursor(s) ==
  /\ Len(s) \in 1..MaxDepth
  /\ s[1].path = <<>>
  /\ Ancestry(s)

(* The request for a page: a directory that does not exist is an empty list. *)
BeginPage ==
  /\ pc = "ready"
  /\ files' = <<>> /\ visited' = 0
  /\ IF ~ValidCursor(cursor)
       THEN pc' = "rejected" /\ UNCHANGED stack
       ELSE IF IsDir(<<>>)
              THEN pc' = "loop" /\ stack' = cursor
              ELSE pc' = "answer" /\ stack' = <<>>
  /\ UNCHANGED <<tree, names, unlinked, caller, steady>>

Pop == stack' = Front(stack)

\* names after the position of the frame
Pending_FromStart(f) == Children(f.path)                       \* mutant: ignores the position
Pending(f) == {n \in Children(f.path) : n > f.after}

OpenDir ==
  /\ pc = "loop" /\ stack # <<>> /\ IsDir(Top.path)
  /\ names' = Pending(Top)
  /\ unlinked' = FALSE
  /\ pc' = "scan"
  /\ UNCHANGED <<tree, stack, visited, files, caller, steady>>

(* OSError on open: the directory is passed over. *)
PassOver_Again == UNCHANGED stack     \* mutant: tries the same directory again
PassOver == Pop

OpenFails ==
  /\ pc = "loop" /\ stack # <<>>
  /\ ~IsDir(Top.path) \/ Top.path \in Flaky
  /\ PassOver
  /\ UNCHANGED <<tree, pc, names, unlinked, visited, files, caller, steady>>

LoopEnds ==
  /\ pc = "loop" /\ stack = <<>>
  /\ pc' = "answer"
  /\ UNCHANGED <<tree, page, caller, steady>>

-----------------------------------------------------------------------------
(* One entry of the open directory, the smallest name first. *)

NextName == CHOOSE n \in names : \A other \in names : n <= other

\* os.stat relative to the open directory: nothing is left in a removed one,
\* and an OSError reads as if there were nothing
Stat(p) == IF unlinked THEN "none" ELSE tree[p]
Seen(p) == {Stat(p)} \cup {none \in {"none"} : p \in Flaky}

\* frame["after"] = name
Advanced(n) == [stack EXCEPT ![Len(stack)].after = n]

PageFull_Past(v, fs) == v > MaxEntries \/ Len(fs) > MaxFiles     \* mutant: > for >=
PageFull(v, fs) == v >= MaxEntries \/ Len(fs) >= MaxFiles

Visit ==
  /\ pc = "scan" /\ names # {}
  /\ visited' = visited + 1

VisitOther ==
  /\ Visit
  /\ stack' = Advanced(NextName)
  /\ names' = names \ {NextName}
  /\ \E seen \in Seen(Child(Top.path, NextName)) \ {"dir"} :
       files' = IF seen = "file" THEN Append(files, Child(Top.path, NextName)) ELSE files
  /\ pc' = IF PageFull(visited', files') THEN "answer" ELSE "scan"
  /\ UNCHANGED <<tree, unlinked, caller, steady>>

Descend ==
  /\ Visit
  /\ Stat(Child(Top.path, NextName)) = "dir"
  /\ IF Len(stack) >= MaxDepth
       THEN pc' = "tooDeep" /\ UNCHANGED stack
       ELSE /\ stack' = Append(Advanced(NextName),
                               [path |-> Child(Top.path, NextName), after |-> 0])
            /\ pc' = IF visited' >= MaxEntries THEN "answer" ELSE "loop"
  /\ names' = {}
  /\ UNCHANGED <<tree, unlinked, files, caller, steady>>

CloseDir ==
  /\ pc = "scan" /\ names = {}
  /\ Pop
  /\ pc' = "loop"
  /\ UNCHANGED <<tree, names, unlinked, visited, files, caller, steady>>

-----------------------------------------------------------------------------
(* The answer.  A caller that does not page is refused a partial one; an     *)
(* answer that does not arrive, or an error in its place, makes the caller   *)
(* ask again with the cursor it has.                                         *)

Refuse ==
  /\ pc = "answer" /\ stack # <<>> /\ ~paginated
  /\ pc' = "refused"
  /\ UNCHANGED <<tree, page, caller, steady>>

Forget == stack' = <<>> /\ names' = {} /\ unlinked' = FALSE /\ visited' = 0 /\ files' = <<>>

Deliver ==
  /\ pc = "answer" /\ (stack = <<>> \/ paginated)
  /\ received' = received \o files
  /\ cursor' = stack
  /\ pc' = IF stack = <<>> THEN "complete" ELSE "ready"
  /\ Forget
  /\ UNCHANGED <<paginated, tree, lost, steady>>

Lose ==
  /\ pc = "answer" /\ lost < MaxLost
  /\ lost' = lost + 1
  /\ pc' = "ready"
  /\ Forget
  /\ UNCHANGED <<paginated, tree, cursor, received, steady>>

-----------------------------------------------------------------------------
(* The other file commands, and the instance itself, change the tree by one  *)
(* system call at a time: write_text and write_bytes create the parents and  *)
(* the file, mkdir each directory, remove_tree empties what it removes.      *)

Listening == pc \notin {"complete", "refused", "rejected", "tooDeep"}

Becomes(p, kind) ==
  /\ Listening
  /\ tree' = [tree EXCEPT ![p] = kind]
  /\ steady' = {f \in steady : f # p}
  /\ unlinked' = (unlinked \/ (kind = "none" /\ pc = "scan" /\ Top.path = p))
  /\ UNCHANGED <<pc, stack, names, visited, files, caller>>

CreateFile(p) == p # <<>> /\ tree[p] = "none" /\ IsDir(Parent(p)) /\ Becomes(p, "file")
MakeDir(p) == tree[p] = "none" /\ (p = <<>> \/ IsDir(Parent(p))) /\ Becomes(p, "dir")
Unlink(p) == tree[p] = "file" /\ Becomes(p, "none")
RemoveDir(p) == IsDir(p) /\ Children(p) = {} /\ Becomes(p, "none")

List ==
  \/ BeginPage \/ OpenDir \/ OpenFails \/ LoopEnds \/ VisitOther \/ Descend \/ CloseDir
  \/ Refuse \/ Deliver
Others == \E p \in Paths : CreateFile(p) \/ MakeDir(p) \/ Unlink(p) \/ RemoveDir(p)

Next == List \/ Lose \/ Others

Spec == Init /\ [][Next]_vars /\ WF_vars(List)

-----------------------------------------------------------------------------
(* Properties. *)

\* the files that the listing can see, as every directory on the way to them
Reachable == {f \in Paths : \A i \in 1..Len(f) : SubSeq(f, 1, i) \notin Flaky}

Promise == INSTANCE Listing WITH
  Files <- Paths, steady <- steady \cap Reachable, listed <- received,
  complete <- (pc = "complete")

(* Whatever the other commands do between two system calls of the listing,   *)
(* and whichever pages are asked for twice, no file is reported twice, and   *)
(* none is missing that was there throughout and whose stat, and the stat    *)
(* and open of the directories on the way to it, do not fail.                *)
(* (fs.py 266-339)                                                           *)
KeepsPromise == Promise!Spec

(* The agent accepts every cursor it has given out. (fs.py 341-380)          *)
CursorAccepted == pc # "rejected"

(* The listing comes to an end even if the tree never stops changing.        *)
(* (fs.py 288, 328)                                                          *)
ListingEnds == <>(pc \in {"complete", "refused", "tooDeep"})
=============================================================================
