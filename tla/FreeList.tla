------------------------------ MODULE FreeList ------------------------------
(***************************************************************************)
(* The memory of one worker (gc_marksweep.h): macroblocks, cut into heap   *)
(* elements, each on one of five lists.  A list is sorted by address and   *)
(* has one iterator that stays where the last operation left it; Alloc     *)
(* goes on from there, insert only resets it when it must, and the sweeps  *)
(* of DoGC walk two or more lists at once.                                 *)
(*                                                                         *)
(* Memory is counted in units of HEAP_ELEM_ALIGNMENT.  An element is its   *)
(* address; its buffer of m_size[e] units follows behind the header.  What *)
(* is reachable is the subject of module MarkSweep: here any local or      *)
(* global term may turn out dead.                                          *)
(***************************************************************************)
EXTENDS Integers, FiniteSets, SequencesExt

CONSTANTS HeaderSize,   \* sizeof(HeapElement)
          MinSplit,     \* a rest of this size is not split off
          BlockSize,    \* Config::macroblock_size
          MacroBlocks,  \* the addresses where malloc may place a macroblock
          Sizes,        \* of what is allocated
          MaxUsed       \* bound: elements in use

ASSUME SizeAssumption ==
  /\ HeaderSize \in Nat \ {0} /\ BlockSize \in Nat
  /\ MinSplit \in Nat /\ MinSplit > HeaderSize
  /\ Sizes \subseteq 1 .. BlockSize
ASSUME AlignedAssumption ==
  /\ MacroBlocks \subseteq Nat
  /\ \A m, n \in MacroBlocks : m < n => m + HeaderSize + BlockSize < n

VARIABLES m_size,     \* of every element
          list, it,   \* the lists, and the position of their iterators
          kind,       \* what an element on m_new or m_other holds
          pc,         \* what the worker does to its heap
          want,       \* the allocation under way
          gc          \* the collection under way

freeVars == <<m_size, list, it, kind, pc, want, gc>>

Lists == {"free", "new", "local", "global", "other"}
Kinds == {"unborn", "local", "global", "other", "freed"}
Nothing == [size |-> 0, of |-> "term", blocks |-> 0]
NoGC == [only_local |-> TRUE, from |-> "none", swept |-> "none", total_free |-> 0]

FreeListInit ==
  /\ m_size = <<>>
  /\ list = [l \in Lists |-> <<>>] /\ it = [l \in Lists |-> 1]
  /\ kind = <<>>
  /\ pc = "run" /\ want = Nothing /\ gc = NoGC

Elems == DOMAIN m_size
End(e) == e + HeaderSize + m_size[e]

With(f, x, v) == [y \in DOMAIN f \cup {x} |-> IF y = x THEN v ELSE f[y]]

(* The lists and iterators as one value, so that the steps of a handler    *)
(* can be composed.                                                        *)
Heap == [list |-> list, it |-> it, size |-> m_size]
SetHeap(h) == list' = h.list /\ it' = h.it /\ m_size' = h.size

-----------------------------------------------------------------------------
(* HeapElementList and its Iterator.  Position 1 is m_prev = NULL, the     *)
(* position behind the last element is m_cur = NULL.                       *)
AtEnd(h, l) == h.it[l] > Len(h.list[l])
cur(h, l) == h.list[l][h.it[l]]

iterate(h, l) == [h EXCEPT !.it[l] = 1]
next(h, l) == IF AtEnd(h, l) THEN h ELSE [h EXCEPT !.it[l] = @ + 1]
drop(h, l) == [h EXCEPT !.list[l] = RemoveAt(@, h.it[l])]

canMove_Always(h, l, e) == TRUE

canMove(h, l, e) ==
  \/ h.list[l] = <<>>
  \/ h.it[l] > 1 /\ AtEnd(h, l) /\ Last(h.list[l]) <= e
  \/ h.it[l] = 1
  \/ ~AtEnd(h, l) /\ cur(h, l) <= e

(* The iterator goes on while the element after it is not behind e.        *)
move(h, l, e) ==
  LET s == h.list[l]
      stops(i) == i >= Len(s) \/ s[i + 1] > e
  IN  [h EXCEPT !.it[l] = CHOOSE i \in @ .. Len(s) + 1 :
                            stops(i) /\ \A j \in @ .. i - 1 : ~stops(j)]

insertAt_Before(h, l, e) ==
  LET g == move(h, l, e)
      after == ~AtEnd(g, l) /\ (g.it[l] > 1 \/ cur(g, l) < e)
      f == [g EXCEPT !.list[l] = InsertAt(@, IF after THEN g.it[l] + 1 ELSE g.it[l], e)]
  IN  IF after THEN f ELSE [f EXCEPT !.it[l] = @ + 1]

(* Behind the current element, or before it at the begin; an iterator at   *)
(* the end and one before which e is put now point to e.                   *)
insertAt(h, l, e) ==
  LET g == move(h, l, e)
      after == ~AtEnd(g, l) /\ (g.it[l] > 1 \/ cur(g, l) < e)
  IN  [g EXCEPT !.list[l] = InsertAt(@, IF after THEN g.it[l] + 1 ELSE g.it[l], e)]

insert(h, l, e) == insertAt(IF canMove(h, l, e) THEN h ELSE iterate(h, l), l, e)

Adjacent(h, d, e) == d + HeaderSize + h.size[d] = e
Merge_BufferOnly(h, d, e) ==
  [h EXCEPT !.size = [x \in DOMAIN @ \ {e} |-> IF x = d THEN @[d] + @[e] ELSE @[x]]]

Merge(h, d, e) ==
  [h EXCEPT !.size = [x \in DOMAIN @ \ {e} |->
                        IF x = d THEN @[d] + HeaderSize + @[e] ELSE @[x]]]

(* The element under the iterator takes up its successor.                  *)
MergeNext(h, l) ==
  LET i == h.it[l] + 1 IN
  IF i <= Len(h.list[l]) /\ Adjacent(h, cur(h, l), h.list[l][i])
  THEN [Merge(h, cur(h, l), h.list[l][i]) EXCEPT !.list[l] = RemoveAt(@, i)]
  ELSE h

(* Iterator::merge: e becomes part of the element before it or gets its    *)
(* own place; then comes the element after it.                             *)
merge(h, l, e) ==
  LET g == move(h, l, e) IN
  MergeNext(IF ~AtEnd(g, l) /\ Adjacent(g, cur(g, l), e) THEN Merge(g, cur(g, l), e)
            ELSE move(insertAt(g, l, e), l, e), l)

-----------------------------------------------------------------------------
(* Alloc looks for a place from the iterator of the free list on.          *)
Alloc(s, of) ==
  /\ pc = "run" /\ Cardinality(Elems \ Range(list["free"])) < MaxUsed
  /\ want' = [size |-> s, of |-> of, blocks |-> 0]
  /\ pc' = "alloc"
  /\ UNCHANGED <<m_size, list, it, kind, gc>>

Looking == pc = "alloc" /\ ~AtEnd(Heap, "free")
Candidate == cur(Heap, "free")

Skip ==
  /\ Looking /\ m_size[Candidate] < want.size
  /\ SetHeap(next(Heap, "free"))
  /\ UNCHANGED <<kind, pc, want, gc>>

Splits(e, s) == m_size[e] - s > MinSplit

(* Iterator::use: the last units of the element, or else all of it.        *)
Cut(e, s) ==
  LET new == End(e) - s - HeaderSize IN
  [heap |-> [Heap EXCEPT !.size = With([m_size EXCEPT ![e] = @ - s - HeaderSize], new, s)],
   elem |-> new]
Take(e, s) == IF Splits(e, s) THEN Cut(e, s) ELSE [heap |-> drop(Heap, "free"), elem |-> e]

Use ==
  LET u == Take(Candidate, want.size)
      is == IF want.of = "term" THEN [list |-> "new", kind |-> "unborn"]
                                ELSE [list |-> "other", kind |-> "other"]
  IN  /\ Looking /\ m_size[Candidate] >= want.size
      /\ SetHeap(insert(u.heap, is.list, u.elem))
      /\ kind' = With(kind, u.elem, is.kind)
      /\ pc' = "run" /\ want' = Nothing
      /\ UNCHANGED gc

(* A constructor ends with MarkBirth, and knows whether its term is global.*)
Born(e) ==
  /\ pc = "run" /\ e \in Range(list["new"]) /\ kind[e] = "unborn"
  /\ \E k \in {"local", "global"} : kind' = [kind EXCEPT ![e] = k]
  /\ UNCHANGED <<m_size, list, it, pc, want, gc>>

(* Only for what is no term; the next collection takes it.                 *)
FreeOther(e) ==
  /\ pc = "run" /\ e \in Range(list["other"]) /\ kind[e] = "other"
  /\ kind' = [kind EXCEPT ![e] = "freed"]
  /\ UNCHANGED <<m_size, list, it, pc, want, gc>>

-----------------------------------------------------------------------------
(* DoGC, called while the worker evaluates, by InspectState and by Alloc   *)
(* when the free list ran out, and by AllocMB when malloc fails.           *)
BeginGC(local, from) ==
  /\ ~local \/ list["new"] # <<>> \/ list["local"] # <<>>
  /\ gc' = [only_local |-> local, from |-> from, swept |-> "local", total_free |-> 0]
  /\ SetHeap(iterate(iterate(Heap, "local"), "free"))
  /\ pc' = "sweep"
  /\ UNCHANGED <<kind, want>>

Exhausted == pc = "alloc" /\ AtEnd(Heap, "free")

GCInBetween == pc = "run" /\ \E local \in BOOLEAN : BeginGC(local, "run")
GCInspect == Exhausted /\ BeginGC(FALSE, "inspect")
GCLocal == (Exhausted \/ pc = "alloc_local") /\ BeginGC(TRUE, "alloc")

NothingToCollect ==
  /\ Exhausted \/ pc = "alloc_local"
  /\ list["new"] = <<>> /\ list["local"] = <<>>
  /\ pc' = "alloc_mb"
  /\ UNCHANGED <<m_size, list, it, kind, want, gc>>

AddMB(m) == insert([Heap EXCEPT !.size = With(@, m, BlockSize)], "free", m)

AllocMB ==
  /\ pc = "alloc_mb"
  /\ \E m \in MacroBlocks \ Elems : SetHeap(AddMB(m))
  /\ want' = [want EXCEPT !.blocks = @ + 1]
  /\ pc' = "alloc"
  /\ UNCHANGED <<kind, gc>>

AllocMBFails == pc = "alloc_mb" /\ BeginGC(FALSE, "trigger")

(* An element of list l under its iterator is dead.                        *)
Collect(l) ==
  LET e == cur(Heap, l)
  IN  /\ SetHeap(merge(drop(Heap, l), "free", e))
      /\ kind' = [x \in DOMAIN kind \ {e} |-> kind[x]]
      /\ gc' = [gc EXCEPT !.total_free = @ + m_size[e]]
      /\ UNCHANGED <<pc, want>>

Keep(l) == SetHeap(next(Heap, l)) /\ UNCHANGED <<kind, pc, want, gc>>

MoveTo(l, to) ==
  /\ SetHeap(insertAt(drop(Heap, l), to, cur(Heap, l)))
  /\ UNCHANGED <<kind, pc, want, gc>>

Sweeping(l) == pc = "sweep" /\ gc.swept = l /\ ~AtEnd(Heap, l)
Swept(l) == pc = "sweep" /\ gc.swept = l /\ AtEnd(Heap, l)

SweepLocal == Sweeping("local") /\ (Keep("local") \/ Collect("local"))

SweepNew ==
  /\ Sweeping("new")
  /\ LET k == kind[cur(Heap, "new")] IN
       \/ k = "unborn" /\ Keep("new")
       \/ k = "global" /\ MoveTo("new", "global")
       \/ k = "local" /\ (MoveTo("new", "local") \/ Collect("new"))

SweepGlobal == Sweeping("global") /\ (Keep("global") \/ Collect("global"))

SweepOther ==
  /\ Sweeping("other")
  /\ \/ kind[cur(Heap, "other")] = "other" /\ Keep("other")
     \/ kind[cur(Heap, "other")] = "freed" /\ Collect("other")

(* From one loop to the next one, which resets the iterators it uses.      *)
SweptTo(from, to, lists) ==
  /\ Swept(from)
  /\ gc' = [gc EXCEPT !.swept = to]
  /\ it' = [l \in Lists |-> IF l \in lists THEN 1 ELSE it[l]]
  /\ UNCHANGED <<m_size, list, kind, pc, want>>

NextSweep ==
  \/ SweptTo("local", "new", {"new", "local", "global", "free"})
  \/ ~gc.only_local /\ SweptTo("new", "global", {"global", "free"})
  \/ gc.only_local /\ SweptTo("new", "other", {"other", "free"})
  \/ SweptTo("global", "other", {"other", "free"})

FreedMuch == gc.total_free > BlockSize \div 2

(* Where the worker goes on with the result of DoGC.                       *)
AfterGC ==
  CASE gc.from = "run" -> "run"
    [] gc.from # "run" /\ FreedMuch -> "alloc"
    [] gc.from = "inspect" /\ ~FreedMuch -> "alloc_local"
    [] gc.from = "alloc" /\ ~FreedMuch -> "alloc_mb"
    [] gc.from = "trigger" /\ ~FreedMuch -> "error"

EndGC ==
  /\ Swept("other")
  /\ pc' = AfterGC
  /\ SetHeap(IF AfterGC = "alloc" THEN iterate(Heap, "free") ELSE Heap)
  /\ gc' = NoGC
  /\ UNCHANGED <<kind, want>>

(* Error("out of memory") ends the program.                                *)
OutOfMemory == pc = "error" /\ UNCHANGED freeVars

FreeListNext ==
  \/ \E s \in Sizes, of \in {"term", "other"} : Alloc(s, of)
  \/ Skip \/ Use
  \/ \E e \in Elems : Born(e) \/ FreeOther(e)
  \/ GCInBetween \/ GCInspect \/ GCLocal \/ NothingToCollect
  \/ AllocMB \/ AllocMBFails
  \/ SweepLocal \/ SweepNew \/ SweepGlobal \/ SweepOther \/ NextSweep \/ EndGC
  \/ OutOfMemory

FreeListSpec == FreeListInit /\ [][FreeListNext]_freeVars

-----------------------------------------------------------------------------
(* No memory is lost or given out twice: every element is on one list, at  *)
(* one place of it, and the elements of a macroblock cover it without gap  *)
(* and without overlap (gc_marksweep.h:55-77, 123-204).                    *)
Tiled ==
  /\ \A e \in Elems :
       Cardinality({p \in Lists \X (1 .. Cardinality(Elems)) :
                      p[2] <= Len(list[p[1]]) /\ list[p[1]][p[2]] = e}) = 1
  /\ \A l \in Lists : Range(list[l]) \subseteq Elems
  /\ \A e \in Elems :
       /\ m_size[e] >= 0
       /\ End(e) \in Elems \/ \E m \in MacroBlocks \cap Elems : End(e) = m + HeaderSize + BlockSize
       /\ \A d \in Elems : d < e => End(d) <= e

(* The lists are sorted and free elements that are neighbours have become  *)
(* one, whichever lists they came from, in whichever order, and wherever   *)
(* the iterators were: free memory does not fall apart for good            *)
(* (gc_marksweep.h:136-204, 234-247).                                      *)
Coalesced ==
  /\ \A l \in Lists : \A i \in 2 .. Len(list[l]) : list[l][i - 1] < list[l][i]
  /\ \A d, e \in Range(list["free"]) : End(d) # e

(* An allocation that needs a new macroblock is served from it: the        *)
(* iterator of Alloc does not stand behind the memory that was added       *)
(* (gc_marksweep.h:328-351, 498-513).                                      *)
OneMacroBlock == want.blocks <= 1
=============================================================================
