---------------------------- MODULE FreeListProofs ----------------------------
(* Proofs about the memory of a worker, for any macroblocks, any sizes and  *)
(* any number of elements.                                                  *)
EXTENDS FreeList, TLAPS, FiniteSetTheorems, WellFoundedInduction

(* The elements of X are on no list, all others on one.                     *)
Sorted(s) == \A i, j \in 1 .. Len(s) : i < j => s[i] < s[j]
ListsOK(h) ==
  /\ h = [list |-> h.list, it |-> h.it, size |-> h.size]
  /\ h.list \in [Lists -> Seq(Nat)] /\ h.it \in [Lists -> Nat]
  /\ \A l \in Lists : Sorted(h.list[l]) /\ h.it[l] \in 1 .. Len(h.list[l]) + 1
On(h, l) == Range(h.list[l])
Placed(h, X) ==
  /\ \A l \in Lists : On(h, l) \cap X = {}
  /\ \A k, l \in Lists : k # l => On(h, k) \cap On(h, l) = {}
  /\ DOMAIN h.size = X \cup UNION {On(h, l) : l \in Lists}

(* Elements fill their macroblock.                                          *)
EndIn(size, e) == e + HeaderSize + size[e]
EndOf(m) == m + HeaderSize + BlockSize
InBlock(size, e, m) ==
  /\ m \in DOMAIN size /\ m <= e /\ EndIn(size, e) <= EndOf(m)
  /\ EndIn(size, e) # EndOf(m) => EndIn(size, e) \in DOMAIN size
SizesOK(size) ==
  /\ IsFiniteSet(DOMAIN size) /\ DOMAIN size \subseteq Nat /\ size \in [DOMAIN size -> Nat]
  /\ \A d, e \in DOMAIN size : d < e => EndIn(size, d) <= e
  /\ \A e \in DOMAIN size : \E m \in MacroBlocks : InBlock(size, e, m)

Apart(size, S) == \A d, e \in S : EndIn(size, d) # e

HeapOK(h, X) ==
  /\ ListsOK(h) /\ Placed(h, X) /\ SizesOK(h.size)
  /\ Apart(h.size, On(h, "free"))

(* The iterator of list l can find the place of e.                          *)
Start(s, i, e) ==
  \/ i = 1
  \/ i <= Len(s) /\ s[i] <= e
  \/ i = Len(s) + 1 /\ s[Len(s)] <= e
Ready(h, l, e) == Start(h.list[l], h.it[l], e)

Rest(h, l) == {h.list[l][i] : i \in h.it[l] .. Len(h.list[l])}

(* What an operation on list l leaves alone, and where its iterator is then.*)
Same(h, g, l) ==
  \A k \in Lists : k # l => g.list[k] = h.list[k] /\ g.it[k] = h.it[k]
Points(h, l, e) == h.it[l] <= Len(h.list[l]) /\ h.list[l][h.it[l]] <= e

(* The lists that elements of a list are moved to.                          *)
Targets(l) == IF l = "new" THEN {"local", "global", "free"} ELSE {"free"}
OnElement(h) == h.list["free"] = <<>> \/ h.it["free"] <= Len(h.list["free"])
SweepOK(h, l) ==
  /\ OnElement(h)
  /\ \A t \in Targets(l), e \in Rest(h, l) : Ready(h, t, e)

HeapTypeOK ==
  /\ DOMAIN m_size \subseteq Nat /\ m_size \in [DOMAIN m_size -> Nat]
  /\ list \in [Lists -> Seq(DOMAIN m_size)] /\ it \in [Lists -> Nat]
WorkerTypeOK ==
  /\ pc \in {"run", "alloc", "alloc_local", "alloc_mb", "sweep", "error"}
  /\ want \in [size : Nat, of : {"term", "other"}, blocks : Nat]
  /\ gc \in [only_local : BOOLEAN, from : {"none", "run", "inspect", "alloc", "trigger"},
             swept : {"none", "local", "new", "global", "other"}, total_free : Nat]
TypeOK ==
  HeapTypeOK /\ kind \in [Elems \ Range(list["free"]) -> Kinds] /\ WorkerTypeOK

(* A macroblock that was added for an allocation serves it.                 *)
Serves == \E e \in Rest(Heap, "free") : m_size[e] >= want.size
WantOK ==
  /\ want.size <= BlockSize
  /\ want.blocks = 0 \/ (want.blocks = 1 /\ pc = "alloc" /\ Serves)

SweptOK ==
  pc = "sweep" => gc.from # "none" /\ gc.swept # "none" /\ SweepOK(Heap, gc.swept)

IInv == TypeOK /\ HeapOK(Heap, {}) /\ WantOK /\ SweptOK
-----------------------------------------------------------------------------
(* A set of natural numbers has a least element.                            *)
LEMMA Least ==
  ASSUME NEW T, T \subseteq Nat, T # {}
  PROVE  \E m \in T : \A n \in T : m <= n
<1> DEFINE R == {ss \in Nat \X Nat : ss[1] < ss[2]}
<1>1. IsWellFoundedOn(R, Nat)
  BY NatLessThanWellFounded DEF OpToRel
<1> HIDE DEF R
<1>2. PICK m \in T : \A n \in T : <<n, m>> \notin R
  BY <1>1, WFMin
<1>3. \A n \in T : <<n, m>> \in R <=> n < m
  BY DEF R
<1>4. ASSUME NEW n \in T PROVE m <= n
  <2>1. n \in Nat /\ m \in Nat
    OBVIOUS
  <2>2. ~(n < m)
    BY <1>2, <1>3
  <2> QED BY <2>1, <2>2
<1> QED BY <1>4

(* Sequences with an element more, or less.                                 *)
Joins(a, b, t) ==
  /\ t \in Seq(Nat) /\ Len(t) = Len(a) + Len(b)
  /\ \A j \in 1 .. Len(a) : t[j] = a[j]
  /\ \A j \in 1 .. Len(b) : t[Len(a) + j] = b[j]
Inserts(s, i, e, t) ==
  /\ t \in Seq(Nat) /\ Len(t) = Len(s) + 1 /\ t[i] = e
  /\ \A j \in 1 .. i - 1 : t[j] = s[j]
  /\ \A j \in i .. Len(s) : t[j + 1] = s[j]
Removes(s, i, t) ==
  /\ t \in Seq(Nat) /\ Len(t) = Len(s) - 1
  /\ \A j \in 1 .. i - 1 : t[j] = s[j]
  /\ \A j \in i .. Len(t) : t[j] = s[j + 1]

LEMMA ConcatIs ==
  ASSUME NEW a \in Seq(Nat), NEW b \in Seq(Nat), NEW t, t = a \o b
  PROVE  Joins(a, b, t)
BY DEF Joins

LEMMA SubSeqIs ==
  ASSUME NEW s \in Seq(Nat), NEW i \in Nat, NEW k \in Nat, k <= Len(s), 1 <= i, i <= k + 1
  PROVE  /\ SubSeq(s, i, k) \in Seq(Nat) /\ Len(SubSeq(s, i, k)) = k + 1 - i
         /\ \A j \in 1 .. k + 1 - i : SubSeq(s, i, k)[j] = s[i - 1 + j]
<1> DEFINE a == SubSeq(s, i, k)
<1>1. Len(a) = k + 1 - i
  OBVIOUS
<1>2. \A j \in 1 .. k + 1 - i : a[j] = s[i - 1 + j]
  OBVIOUS
<1>3. a \in Seq(Nat)
  OBVIOUS
<1> QED BY <1>1, <1>2, <1>3

LEMMA InsertAtIs ==
  ASSUME NEW s \in Seq(Nat), NEW e \in Nat, NEW i \in 1 .. Len(s) + 1,
         NEW t, t = InsertAt(s, i, e)
  PROVE  Inserts(s, i, e, t)
<1> DEFINE a == SubSeq(s, 1, i - 1)
           b == SubSeq(s, i, Len(s))
           c == <<e>>
<1>0. i - 1 \in Nat /\ i \in Nat /\ Len(s) \in Nat /\ i - 1 <= Len(s)
  OBVIOUS
<1>1. a \in Seq(Nat) /\ Len(a) = i - 1 /\ \A j \in 1 .. i - 1 : a[j] = s[j]
  <2>1. /\ a \in Seq(Nat) /\ Len(a) = i - 1 + 1 - 1
        /\ \A j \in 1 .. i - 1 + 1 - 1 : a[j] = s[1 - 1 + j]
    BY <1>0, SubSeqIs
  <2> HIDE DEF a
  <2> QED BY <2>1, <1>0
<1>2. /\ b \in Seq(Nat) /\ Len(b) = Len(s) - i + 1
      /\ \A j \in 1 .. Len(s) - i + 1 : b[j] = s[i - 1 + j]
  <2>1. /\ b \in Seq(Nat) /\ Len(b) = Len(s) + 1 - i
        /\ \A j \in 1 .. Len(s) + 1 - i : b[j] = s[i - 1 + j]
    BY <1>0, SubSeqIs
  <2> HIDE DEF b
  <2> QED BY <2>1, <1>0
<1>3. t = (a \o c) \o b
  BY DEF InsertAt
<1>4. c \in Seq(Nat) /\ Len(c) = 1 /\ c[1] = e
  OBVIOUS
<1> HIDE DEF a, b, c
<1>5. /\ a \o c \in Seq(Nat) /\ Len(a \o c) = i
      /\ \A j \in 1 .. i - 1 : (a \o c)[j] = s[j]
      /\ (a \o c)[i] = e
  <2> DEFINE ac == a \o c
  <2>1. Joins(a, c, ac)
    BY <1>1, <1>4, ConcatIs
  <2> HIDE DEF ac
  <2>2. /\ ac \in Seq(Nat) /\ Len(ac) = i /\ \A j \in 1 .. i - 1 : ac[j] = s[j]
        /\ ac[i] = e
    BY <2>1, <1>0, <1>1, <1>4 DEF Joins
  <2> QED BY <2>2 DEF ac
<1> DEFINE d == a \o c
<1> HIDE DEF d
<1>6. /\ t \in Seq(Nat) /\ Len(t) = Len(d) + Len(b)
      /\ \A j \in 1 .. Len(d) : t[j] = d[j]
      /\ \A j \in 1 .. Len(b) : t[Len(d) + j] = b[j]
  <2>1. Joins(d, b, t)
    BY <1>2, <1>3, <1>5, ConcatIs DEF d
  <2> QED BY <2>1 DEF Joins
<1>7. d \in Seq(Nat) /\ Len(d) = i /\ d[i] = e /\ \A j \in 1 .. i - 1 : d[j] = s[j]
  BY <1>5 DEF d
<1>8. ASSUME NEW j \in i .. Len(s) PROVE t[j + 1] = s[j]
  <2>1. j - i + 1 \in 1 .. Len(b) /\ i + (j - i + 1) = j + 1 /\ i - 1 + (j - i + 1) = j
    BY <1>0, <1>2
  <2>2. t[i + (j - i + 1)] = b[j - i + 1]
    BY <2>1, <1>6, <1>7
  <2>3. b[j - i + 1] = s[i - 1 + (j - i + 1)]
    BY <2>1, <1>2
  <2> QED BY <2>1, <2>2, <2>3
<1>9. Len(t) = Len(s) + 1 /\ t[i] = e /\ \A j \in 1 .. i - 1 : t[j] = s[j]
  BY <1>0, <1>2, <1>6, <1>7
<1> QED BY <1>6, <1>8, <1>9 DEF Inserts

LEMMA RemoveAtIs ==
  ASSUME NEW s \in Seq(Nat), NEW i \in 1 .. Len(s), NEW t, t = RemoveAt(s, i)
  PROVE  Removes(s, i, t)
<1> DEFINE a == SubSeq(s, 1, i - 1)
           b == SubSeq(s, i + 1, Len(s))
<1>0. i - 1 \in Nat /\ i \in Nat /\ Len(s) \in Nat /\ i - 1 <= Len(s)
  OBVIOUS
<1>1. a \in Seq(Nat) /\ Len(a) = i - 1 /\ \A j \in 1 .. i - 1 : a[j] = s[j]
  <2>1. /\ a \in Seq(Nat) /\ Len(a) = i - 1 + 1 - 1
        /\ \A j \in 1 .. i - 1 + 1 - 1 : a[j] = s[1 - 1 + j]
    BY <1>0, SubSeqIs
  <2> HIDE DEF a
  <2> QED BY <2>1, <1>0
<1>2. /\ b \in Seq(Nat) /\ Len(b) = Len(s) - i
      /\ \A j \in 1 .. Len(s) - i : b[j] = s[i + j]
  <2>1. /\ b \in Seq(Nat) /\ Len(b) = Len(s) + 1 - (i + 1)
        /\ \A j \in 1 .. Len(s) + 1 - (i + 1) : b[j] = s[i + 1 - 1 + j]
    BY <1>0, SubSeqIs
  <2> HIDE DEF b
  <2> QED BY <2>1, <1>0
<1>3. t = a \o b
  BY DEF RemoveAt
<1> HIDE DEF a, b
<1>4. /\ t \in Seq(Nat) /\ Len(t) = Len(a) + Len(b)
      /\ \A j \in 1 .. Len(a) : t[j] = a[j]
      /\ \A j \in 1 .. Len(b) : t[Len(a) + j] = b[j]
  <2>1. Joins(a, b, t)
    BY <1>1, <1>2, <1>3, ConcatIs
  <2> QED BY <2>1 DEF Joins
<1>5. ASSUME NEW j \in i .. Len(s) - 1 PROVE t[j] = s[j + 1]
  <2>1. j - i + 1 \in 1 .. Len(b) /\ i - 1 + (j - i + 1) = j /\ i + (j - i + 1) = j + 1
    BY <1>0, <1>2
  <2>2. t[i - 1 + (j - i + 1)] = b[j - i + 1]
    BY <2>1, <1>4, <1>1
  <2>3. b[j - i + 1] = s[i + (j - i + 1)]
    BY <2>1, <1>2
  <2> QED BY <2>1, <2>2, <2>3
<1>6. Len(t) = Len(s) - 1 /\ \A j \in 1 .. i - 1 : t[j] = s[j]
  BY <1>0, <1>1, <1>2, <1>4
<1>7. \A j \in i .. Len(t) : t[j] = s[j + 1]
  BY <1>5, <1>6
<1> QED BY <1>4, <1>6, <1>7 DEF Removes

LEMMA RangeIs ==
  ASSUME NEW s \in Seq(Nat), NEW e
  PROVE  e \in Range(s) <=> \E i \in 1 .. Len(s) : s[i] = e
BY DEF Range

(* e goes to position i.                                                    *)
Fits(s, i, e) ==
  (\A j \in 1 .. i - 1 : s[j] < e) /\ (\A j \in i .. Len(s) : s[j] > e)

LEMMA Inserted ==
  ASSUME NEW s \in Seq(Nat), NEW e \in Nat, NEW i \in 1 .. Len(s) + 1,
         NEW t, t = InsertAt(s, i, e), Sorted(s), Fits(s, i, e)
  PROVE  /\ t \in Seq(Nat) /\ Len(t) = Len(s) + 1 /\ Sorted(t) /\ t[i] = e
         /\ Range(t) = Range(s) \cup {e}
<1>1. /\ t \in Seq(Nat) /\ Len(t) = Len(s) + 1 /\ t[i] = e
      /\ \A j \in 1 .. i - 1 : t[j] = s[j]
      /\ \A j \in i .. Len(s) : t[j + 1] = s[j]
  <2>1. Inserts(s, i, e, t)
    BY InsertAtIs
  <2> QED BY ONLY <2>1 DEF Inserts
<1>f. (\A j \in 1 .. i - 1 : s[j] < e) /\ (\A j \in i .. Len(s) : s[j] > e)
  BY DEF Fits
<1>2. ASSUME NEW j \in 1 .. Len(t), j > i
      PROVE  j - 1 \in i .. Len(s) /\ t[j] = s[j - 1]
  <2>1. j - 1 \in i .. Len(s) /\ (j - 1) + 1 = j
    BY <1>1, <1>2
  <2>2. t[(j - 1) + 1] = s[j - 1]
    BY <1>1, <2>1
  <2> QED BY <2>1, <2>2
<1>3. Sorted(t)
  <2>1. SUFFICES ASSUME NEW j \in 1 .. Len(t), NEW k \in 1 .. Len(t), j < k
                 PROVE  t[j] < t[k]
    BY DEF Sorted
  <2>2. CASE k < i
    <3>1. j \in 1 .. Len(s) /\ k \in 1 .. Len(s) /\ t[j] = s[j] /\ t[k] = s[k]
      BY <2>1, <2>2, <1>1
    <3> QED BY <3>1, <2>1 DEF Sorted
  <2>3. CASE k = i
    <3>1. j \in 1 .. i - 1
      BY <2>1, <2>3, <1>1
    <3> QED BY <3>1, <2>3, <1>1, <1>f
  <2>4. CASE k > i /\ j < i
    <3>1. k - 1 \in i .. Len(s) /\ t[k] = s[k - 1] /\ t[j] = s[j] /\ j \in 1 .. i - 1
      BY <2>1, <2>4, <1>1, <1>2
    <3> QED BY <3>1, <1>f DEF Sorted
  <2>5. CASE k > i /\ j = i
    <3>1. k - 1 \in i .. Len(s) /\ t[k] = s[k - 1]
      BY <2>1, <2>5, <1>2
    <3> QED BY <3>1, <2>5, <1>1, <1>f
  <2>6. CASE k > i /\ j > i
    <3>1. k - 1 \in i .. Len(s) /\ t[k] = s[k - 1] /\ j - 1 \in i .. Len(s) /\ t[j] = s[j - 1]
      BY <2>6, <1>2
    <3>2. k - 1 \in 1 .. Len(s) /\ j - 1 \in 1 .. Len(s) /\ j - 1 < k - 1
      BY <3>1, <2>1
    <3> QED BY <3>1, <3>2 DEF Sorted
  <2> QED BY <2>1, <2>2, <2>3, <2>4, <2>5, <2>6
<1>4. ASSUME NEW d \in Range(t) PROVE d \in Range(s) \cup {e}
  <2>1. PICK j \in 1 .. Len(t) : t[j] = d
    BY <1>1, RangeIs
  <2>2. CASE j < i
    <3>1. j \in 1 .. Len(s) /\ s[j] = d
      BY <2>1, <2>2, <1>1
    <3> QED BY <3>1, RangeIs
  <2>3. CASE j > i
    <3>1. j - 1 \in 1 .. Len(s) /\ s[j - 1] = d
      BY <2>1, <2>3, <1>2
    <3> QED BY <3>1, RangeIs
  <2> QED BY <2>1, <2>2, <2>3, <1>1
<1>5. ASSUME NEW d \in Range(s) PROVE d \in Range(t)
  <2>1. PICK j \in 1 .. Len(s) : s[j] = d
    BY RangeIs
  <2>2. CASE j < i
    <3>1. j \in 1 .. Len(t) /\ t[j] = d
      BY <2>1, <2>2, <1>1
    <3> QED BY <3>1, <1>1, RangeIs
  <2>3. CASE j >= i
    <3>1. j + 1 \in 1 .. Len(t) /\ t[j + 1] = d
      BY <2>1, <2>3, <1>1
    <3> QED BY <3>1, <1>1, RangeIs
  <2> QED BY <2>2, <2>3
<1>6. e \in Range(t)
  BY <1>1, RangeIs
<1> QED BY <1>1, <1>3, <1>4, <1>5, <1>6

LEMMA Removed ==
  ASSUME NEW s \in Seq(Nat), NEW i \in 1 .. Len(s), NEW t, t = RemoveAt(s, i), Sorted(s)
  PROVE  /\ t \in Seq(Nat) /\ Len(t) = Len(s) - 1 /\ Sorted(t)
         /\ Range(t) = Range(s) \ {s[i]}
<1>1. /\ t \in Seq(Nat) /\ Len(t) = Len(s) - 1
      /\ \A j \in 1 .. i - 1 : t[j] = s[j]
      /\ \A j \in i .. Len(t) : t[j] = s[j + 1]
  BY RemoveAtIs DEF Removes
<1>2. ASSUME NEW j \in 1 .. Len(t)
      PROVE  \/ j < i /\ j \in 1 .. i - 1 /\ j \in 1 .. Len(s) /\ t[j] = s[j]
             \/ j >= i /\ j + 1 \in 1 .. Len(s) /\ t[j] = s[j + 1]
  <2>1. CASE j < i
    <3>1. j \in 1 .. i - 1 /\ j \in 1 .. Len(s)
      BY <2>1, <1>1
    <3> QED BY <2>1, <3>1, <1>1
  <2>2. CASE j >= i
    <3>1. j \in i .. Len(t) /\ j + 1 \in 1 .. Len(s)
      BY <2>2, <1>1
    <3> QED BY <2>2, <3>1, <1>1
  <2> QED BY <2>1, <2>2
<1>3. Sorted(t)
  <2>1. SUFFICES ASSUME NEW j \in 1 .. Len(t), NEW k \in 1 .. Len(t), j < k
                 PROVE  t[j] < t[k]
    BY DEF Sorted
  <2>2. CASE k < i
    <3>1. j \in 1 .. Len(s) /\ k \in 1 .. Len(s) /\ t[j] = s[j] /\ t[k] = s[k]
      BY <2>1, <2>2, <1>2
    <3> QED BY <3>1, <2>1 DEF Sorted
  <2>3. CASE k >= i /\ j < i
    <3>1. j \in 1 .. Len(s) /\ k + 1 \in 1 .. Len(s) /\ t[j] = s[j] /\ t[k] = s[k + 1] /\ j < k + 1
      BY <2>1, <2>3, <1>2
    <3> QED BY <3>1 DEF Sorted
  <2>4. CASE k >= i /\ j >= i
    <3>1. /\ j + 1 \in 1 .. Len(s) /\ k + 1 \in 1 .. Len(s)
          /\ t[j] = s[j + 1] /\ t[k] = s[k + 1] /\ j + 1 < k + 1
      BY <2>1, <2>4, <1>2
    <3> QED BY <3>1 DEF Sorted
  <2> QED BY <2>1, <2>2, <2>3, <2>4
<1>4. ASSUME NEW d \in Range(t) PROVE d \in Range(s) \ {s[i]}
  <2>1. PICK j \in 1 .. Len(t) : t[j] = d
    BY <1>1, RangeIs
  <2>2. CASE j < i
    <3>1. j \in 1 .. Len(s) /\ s[j] = d
      BY <2>1, <2>2, <1>2
    <3>2. s[j] < s[i] /\ s[j] \in Nat
      BY <3>1, <2>2 DEF Sorted
    <3> QED BY <3>1, <3>2, RangeIs
  <2>3. CASE j >= i
    <3>1. j + 1 \in 1 .. Len(s) /\ s[j + 1] = d /\ i < j + 1
      BY <2>1, <2>3, <1>2
    <3>2. s[i] < s[j + 1] /\ s[i] \in Nat
      BY <3>1 DEF Sorted
    <3> QED BY <3>1, <3>2, RangeIs
  <2> QED BY <2>2, <2>3
<1>5. ASSUME NEW d \in Range(s), d # s[i] PROVE d \in Range(t)
  <2>1. PICK j \in 1 .. Len(s) : s[j] = d
    BY RangeIs
  <2>2. CASE j < i
    <3>1. j \in 1 .. Len(t) /\ t[j] = d
      BY <2>1, <2>2, <1>1
    <3> QED BY <3>1, <1>1, RangeIs
  <2>3. CASE j > i
    <3>1. j - 1 \in i .. Len(t) /\ j - 1 \in 1 .. Len(t) /\ (j - 1) + 1 = j
      BY <2>1, <2>3, <1>1
    <3>2. t[j - 1] = s[(j - 1) + 1]
      BY <3>1, <1>1
    <3>3. t[j - 1] = d
      BY <2>1, <3>1, <3>2
    <3> QED BY <3>1, <3>3, <1>1, RangeIs
  <2> QED BY <2>1, <2>2, <2>3, <1>5
<1> QED BY <1>1, <1>3, <1>4, <1>5

-----------------------------------------------------------------------------
(* Memory: elements are neighbours, are joined, cut, or new.                *)
LEMMA ConstantsAre ==
  /\ HeaderSize \in Nat \ {0} /\ BlockSize \in Nat /\ MinSplit \in Nat
  /\ MinSplit > HeaderSize /\ Sizes \subseteq 1 .. BlockSize /\ MacroBlocks \subseteq Nat
  /\ \A m, n \in MacroBlocks : m < n => EndOf(m) < n
  /\ \A m \in MacroBlocks : EndOf(m) \in Nat
BY SizeAssumption, AlignedAssumption DEF EndOf

LEMMA ElemIs ==
  ASSUME NEW size, SizesOK(size), NEW e \in DOMAIN size
  PROVE  /\ e \in Nat /\ size[e] \in Nat /\ EndIn(size, e) \in Nat /\ e < EndIn(size, e)
         /\ EndIn(size, e) = e + HeaderSize + size[e]
         /\ \E m \in MacroBlocks : InBlock(size, e, m) /\ m \in Nat /\ m \in DOMAIN size /\ m <= e
BY ConstantsAre DEF SizesOK, EndIn, InBlock

(* Elements that overlap or touch are of one macroblock.                    *)
LEMMA SameBlock ==
  ASSUME NEW size, SizesOK(size), NEW d \in DOMAIN size, NEW e \in DOMAIN size,
         d <= e, NEW m \in MacroBlocks, InBlock(size, d, m),
         NEW n \in MacroBlocks, InBlock(size, e, n), e <= EndIn(size, d)
  PROVE  m = n
<1>1. /\ d \in Nat /\ e \in Nat /\ EndIn(size, d) \in Nat /\ EndIn(size, e) \in Nat
      /\ d < EndIn(size, d) /\ e < EndIn(size, e)
  BY ElemIs
<1>2. m \in Nat /\ n \in Nat /\ EndOf(m) \in Nat /\ EndOf(n) \in Nat
      /\ (m < n => EndOf(m) < n) /\ (n < m => EndOf(n) < m)
  BY ConstantsAre
<1>3. m <= d /\ EndIn(size, d) <= EndOf(m) /\ n <= e /\ EndIn(size, e) <= EndOf(n)
  BY DEF InBlock
<1> QED BY <1>1, <1>2, <1>3

(* The address of a macroblock is that of its first element.                *)
LEMMA FirstElement ==
  ASSUME NEW size, SizesOK(size), NEW e \in DOMAIN size, e \in MacroBlocks,
         NEW m \in MacroBlocks, InBlock(size, e, m)
  PROVE  e = m
<1>1. e \in Nat /\ EndIn(size, e) \in Nat /\ e < EndIn(size, e)
  BY ElemIs
<1>2. m \in Nat /\ EndOf(m) \in Nat /\ (m < e => EndOf(m) < e)
  BY ConstantsAre
<1>3. m <= e /\ EndIn(size, e) <= EndOf(m)
  BY DEF InBlock
<1> QED BY <1>1, <1>2, <1>3

(* Merge                                                                    *)
Joined(size, d, e, new) ==
  /\ DOMAIN new = DOMAIN size \ {e} /\ d \in DOMAIN new
  /\ EndIn(new, d) = EndIn(size, e)
  /\ \A x \in DOMAIN new : x # d => EndIn(new, x) = EndIn(size, x)
  /\ new \in [DOMAIN new -> Nat]

LEMMA JoinedIs ==
  ASSUME NEW size, SizesOK(size), NEW d \in DOMAIN size, NEW e \in DOMAIN size,
         EndIn(size, d) = e,
         NEW new, new = [x \in DOMAIN size \ {e} |->
                           IF x = d THEN size[d] + HeaderSize + size[e] ELSE size[x]]
  PROVE  Joined(size, d, e, new)
<1>1. d # e /\ size[d] \in Nat /\ size[e] \in Nat /\ d \in Nat /\ e = d + HeaderSize + size[d]
  BY ElemIs
<1>2. DOMAIN new = DOMAIN size \ {e} /\ d \in DOMAIN new
  BY <1>1
<1>3. new[d] = size[d] + HeaderSize + size[e] /\ \A x \in DOMAIN new : x # d => new[x] = size[x]
  BY <1>1
<1>4. EndIn(new, d) = EndIn(size, e)
  BY <1>1, <1>3, ConstantsAre DEF EndIn
<1>5. \A x \in DOMAIN new : x # d => EndIn(new, x) = EndIn(size, x)
  BY <1>3 DEF EndIn
<1>6. \A x \in DOMAIN new : new[x] \in Nat
  BY <1>1, <1>2, <1>3, ConstantsAre, ElemIs
<1> QED BY <1>2, <1>4, <1>5, <1>6 DEF Joined

LEMMA JoinedOK ==
  ASSUME NEW size, SizesOK(size), NEW d \in DOMAIN size, NEW e \in DOMAIN size,
         EndIn(size, d) = e, NEW new, Joined(size, d, e, new)
  PROVE  SizesOK(new)
<1>1. d < e /\ d \in Nat /\ e \in Nat /\ e < EndIn(size, e)
  BY ElemIs
<1>2. IsFiniteSet(DOMAIN new) /\ DOMAIN new \subseteq Nat /\ new \in [DOMAIN new -> Nat]
  BY FS_RemoveElement DEF SizesOK, Joined
<1>3. ASSUME NEW x \in DOMAIN new, NEW y \in DOMAIN new, x < y PROVE EndIn(new, x) <= y
  <2>1. x \in DOMAIN size /\ y \in DOMAIN size /\ y # e /\ x # e /\ x \in Nat /\ y \in Nat
    BY <1>3, ElemIs DEF Joined
  <2>2. EndIn(size, x) <= y
    BY <1>3, <2>1 DEF SizesOK
  <2>3. CASE x = d
    <3>1. e <= y
      BY <2>2, <2>3
    <3>2. e < y
      BY <3>1, <2>1, <1>1
    <3>3. EndIn(size, e) <= y
      BY <3>2, <2>1 DEF SizesOK
    <3> QED BY <2>3, <3>3 DEF Joined
  <2>4. CASE x # d
    BY <1>3, <2>2, <2>4 DEF Joined
  <2> QED BY <2>3, <2>4
<1>4. PICK m \in MacroBlocks : InBlock(size, d, m)
  BY ElemIs
<1>5. PICK n \in MacroBlocks : InBlock(size, e, n)
  BY ElemIs
<1>6. n = m
  BY <1>1, <1>4, <1>5, SameBlock
<1>7. m # e /\ m \in Nat
  BY <1>1, <1>4, ConstantsAre DEF InBlock
<1>8. e \notin MacroBlocks
  BY <1>5, <1>6, <1>7, FirstElement
<1>9. ASSUME NEW x \in DOMAIN new PROVE \E k \in MacroBlocks : InBlock(new, x, k)
  <2>1. x \in DOMAIN size /\ x # e /\ x \in Nat
    BY <1>9, ElemIs DEF Joined
  <2>2. CASE x = d
    <3>1. EndIn(new, x) = EndIn(size, e) /\ m \in DOMAIN new
      BY <2>2, <1>4, <1>7 DEF Joined, InBlock
    <3>2. EndIn(size, e) # e /\ EndIn(size, e) \in Nat
      BY <1>1, ElemIs
    <3>3. EndIn(new, x) # EndOf(m) => EndIn(new, x) \in DOMAIN new
      BY <3>1, <3>2, <1>5, <1>6 DEF InBlock, Joined
    <3>4. m <= x /\ EndIn(new, x) <= EndOf(m)
      BY <2>2, <3>1, <1>4, <1>5, <1>6 DEF InBlock
    <3> QED BY <3>1, <3>3, <3>4 DEF InBlock
  <2>3. CASE x # d
    <3>1. PICK k \in MacroBlocks : InBlock(size, x, k)
      BY <2>1, ElemIs
    <3>2. EndIn(new, x) = EndIn(size, x) /\ k \in DOMAIN new
      BY <1>8, <1>9, <2>3, <3>1 DEF InBlock, Joined
    <3>3. EndIn(size, x) # e
      <4>1. SUFFICES ASSUME EndIn(size, x) = e PROVE FALSE
        OBVIOUS
      <4>2. x < e
        BY <4>1, <2>1, ElemIs
      <4>3. CASE x < d
        <5>1. EndIn(size, x) <= d
          BY <4>3, <2>1 DEF SizesOK
        <5> QED BY <5>1, <4>1, <1>1
      <4>4. CASE d < x
        <5>1. EndIn(size, d) <= x
          BY <4>4, <2>1 DEF SizesOK
        <5> QED BY <5>1, <4>2, <2>1, <1>1
      <4> QED BY <4>3, <4>4, <2>3, <2>1, <1>1
    <3> QED BY <3>1, <3>2, <3>3 DEF InBlock, Joined
  <2> QED BY <2>2, <2>3
<1> QED BY <1>2, <1>3, <1>9 DEF SizesOK

(* Iterator::use                                                            *)
LEMMA CutOK ==
  ASSUME NEW size, SizesOK(size), NEW e \in DOMAIN size, NEW s \in Nat,
         size[e] - s > MinSplit, NEW c, c = EndIn(size, e) - s - HeaderSize,
         NEW new, new = With([size EXCEPT ![e] = @ - s - HeaderSize], c, s)
  PROVE  /\ SizesOK(new) /\ c \notin DOMAIN size /\ DOMAIN new = DOMAIN size \cup {c}
         /\ EndIn(new, e) = c /\ EndIn(new, c) = EndIn(size, e)
         /\ \A x \in DOMAIN size : x # e => EndIn(new, x) = EndIn(size, x)
<1>1. /\ e \in Nat /\ size[e] \in Nat /\ EndIn(size, e) = e + HeaderSize + size[e]
      /\ HeaderSize \in Nat \ {0} /\ MinSplit \in Nat /\ MinSplit > HeaderSize
  BY ElemIs, ConstantsAre
<1>2. c \in Nat /\ e < c /\ c < EndIn(size, e) /\ size[e] - s - HeaderSize \in Nat
  BY <1>1
<1>3. c \notin DOMAIN size
  <2>1. SUFFICES ASSUME c \in DOMAIN size PROVE FALSE
    OBVIOUS
  <2>2. EndIn(size, e) <= c
    BY <2>1, <1>2 DEF SizesOK
  <2> QED BY <2>2, <1>1, <1>2
<1>4. /\ DOMAIN new = DOMAIN size \cup {c} /\ new[c] = s /\ new[e] = size[e] - s - HeaderSize
      /\ \A x \in DOMAIN size : x # e => new[x] = size[x]
  <2>1. size \in [DOMAIN size -> Nat] /\ e \in DOMAIN size /\ c # e
    BY <1>1, <1>2 DEF SizesOK
  <2> QED BY <2>1, <1>3 DEF With
<1>5. /\ EndIn(new, e) = c /\ EndIn(new, c) = EndIn(size, e)
      /\ \A x \in DOMAIN size : x # e => EndIn(new, x) = EndIn(size, x)
  <2>1. EndIn(new, e) = e + HeaderSize + new[e] /\ EndIn(new, c) = c + HeaderSize + new[c]
    BY DEF EndIn
  <2>2. EndIn(new, e) = c /\ EndIn(new, c) = EndIn(size, e)
    BY <1>1, <1>4, <2>1
  <2>3. \A x \in DOMAIN size : x # e => EndIn(new, x) = EndIn(size, x)
    BY <1>4 DEF EndIn
  <2> QED BY <2>2, <2>3
<1>6. /\ IsFiniteSet(DOMAIN new) /\ DOMAIN new \subseteq Nat
      /\ \A x \in DOMAIN new : new[x] \in Nat
  <2>1. IsFiniteSet(DOMAIN size) /\ DOMAIN size \subseteq Nat
    BY DEF SizesOK
  <2>4. DOMAIN new = DOMAIN size \cup {c} /\ c \in Nat
    BY <1>2, <1>4
  <2>5. IsFiniteSet(DOMAIN size \cup {c})
    BY <2>1, FS_AddElement
  <2>3. IsFiniteSet(DOMAIN new) /\ DOMAIN new \subseteq Nat
    BY ONLY <2>1, <2>4, <2>5
  <2>2. ASSUME NEW x \in DOMAIN new PROVE new[x] \in Nat
    BY <1>2, <1>4, ElemIs
  <2> QED BY <2>2, <2>3
<1>7. new \in [DOMAIN new -> Nat]
  <2>1. new = [x \in DOMAIN new |-> new[x]]
    BY DEF With
  <2> QED BY <2>1, <1>6
<1>8. ASSUME NEW x \in DOMAIN new, NEW y \in DOMAIN new, x < y PROVE EndIn(new, x) <= y
  <2>1. x \in Nat /\ y \in Nat
    BY <1>6
  <2>2. CASE x = c
    <3>1. y \in DOMAIN size /\ e < y
      BY <2>1, <2>2, <1>2, <1>4, <1>8, <1>1
    <3>2. EndIn(size, e) <= y
      BY <3>1 DEF SizesOK
    <3> QED BY <2>2, <3>2, <1>5
  <2>3. CASE x # c /\ y = c
    <3>1. x \in DOMAIN size
      BY <2>3, <1>4
    <3>2. CASE x = e
      BY <3>2, <2>3, <1>5, <1>2
    <3>3. CASE x < e
      <4>1. EndIn(size, x) <= e
        BY <3>1, <3>3 DEF SizesOK
      <4>2. EndIn(size, x) \in Nat
        BY <3>1, ElemIs
      <4>3. x # e
        BY <3>3, <1>1
      <4>4. EndIn(new, x) = EndIn(size, x)
        BY <3>1, <4>3, <1>5
      <4> QED BY <4>1, <4>2, <4>4, <2>1, <2>3, <1>1, <1>2
    <3>4. CASE e < x
      <4>1. EndIn(size, e) <= x
        BY <3>1, <3>4 DEF SizesOK
      <4> QED BY <4>1, <2>1, <2>3, <1>2, <1>1, <1>8
    <3> QED BY <3>2, <3>3, <3>4, <2>1, <1>1
  <2>4. CASE x # c /\ y # c
    <3>1. x \in DOMAIN size /\ y \in DOMAIN size
      BY <2>4, <1>4
    <3>2. EndIn(size, x) <= y
      BY <3>1, <1>8 DEF SizesOK
    <3>3. CASE x = e
      BY <3>3, <3>2, <1>5, <1>2, <1>1, <2>1
    <3> QED BY <3>1, <3>2, <3>3, <1>5
  <2> QED BY <2>2, <2>3, <2>4
<1>9. ASSUME NEW x \in DOMAIN new PROVE \E k \in MacroBlocks : InBlock(new, x, k)
  <2>1. PICK m \in MacroBlocks : InBlock(size, e, m) /\ m \in Nat /\ m <= e
    BY ElemIs
  <2>2. CASE x = c
    BY <2>1, <2>2, <1>1, <1>2, <1>4, <1>5 DEF InBlock
  <2>3. CASE x = e
    <3>1. EndIn(new, x) = c /\ c \in DOMAIN new /\ m \in DOMAIN new
      BY <2>1, <2>3, <1>4, <1>5 DEF InBlock
    <3>2. EndIn(size, e) <= EndOf(m) /\ EndOf(m) \in Nat /\ EndIn(size, e) \in Nat
      BY <2>1, ConstantsAre, ElemIs DEF InBlock
    <3>3. c <= EndOf(m)
      BY <3>2, <1>2
    <3> QED BY <3>1, <3>3, <2>1, <2>3 DEF InBlock
  <2>4. CASE x # c /\ x # e
    <3>1. x \in DOMAIN size
      BY <2>4, <1>4
    <3>2. PICK k \in MacroBlocks : InBlock(size, x, k)
      BY <3>1, ElemIs
    <3> QED BY <3>1, <3>2, <2>4, <1>4, <1>5 DEF InBlock
  <2> QED BY <2>2, <2>3, <2>4
<1>10. SizesOK(new)
  BY <1>6, <1>7, <1>8, <1>9 DEF SizesOK
<1> QED BY <1>3, <1>4, <1>5, <1>10

(* AllocMB                                                                  *)
LEMMA BlockOK ==
  ASSUME NEW size, SizesOK(size), NEW m \in MacroBlocks, m \notin DOMAIN size,
         NEW new, new = With(size, m, BlockSize)
  PROVE  /\ SizesOK(new) /\ DOMAIN new = DOMAIN size \cup {m} /\ m \in Nat
         /\ EndIn(new, m) = EndOf(m) /\ new[m] = BlockSize
         /\ \A x \in DOMAIN size : /\ EndIn(new, x) = EndIn(size, x)
                                   /\ EndIn(new, x) # m /\ EndIn(new, m) # x
<1>1. /\ DOMAIN new = DOMAIN size \cup {m} /\ new[m] = BlockSize
      /\ \A x \in DOMAIN size : new[x] = size[x]
  BY DEF With
<1>2. m \in Nat /\ EndOf(m) \in Nat /\ BlockSize \in Nat
  BY ConstantsAre
<1>3. EndIn(new, m) = EndOf(m) /\ \A x \in DOMAIN size : EndIn(new, x) = EndIn(size, x)
  BY <1>1 DEF EndIn, EndOf
<1>4. /\ IsFiniteSet(DOMAIN new) /\ DOMAIN new \subseteq Nat
      /\ \A x \in DOMAIN new : new[x] \in Nat
  BY <1>1, <1>2, FS_AddElement, ElemIs DEF SizesOK
<1>5. new \in [DOMAIN new -> Nat]
  <2>1. new = [x \in DOMAIN new |-> new[x]]
    BY DEF With
  <2> QED BY <2>1, <1>4
<1>6. ASSUME NEW x \in DOMAIN size
      PROVE  \/ x < m /\ EndIn(size, x) < m
             \/ m < x /\ EndOf(m) < x
  <2>1. PICK n \in MacroBlocks : InBlock(size, x, n) /\ n \in DOMAIN size /\ n <= x /\ n \in Nat
    BY ElemIs
  <2>2. n # m
    BY <2>1
  <2>3. /\ x \in Nat /\ EndIn(size, x) \in Nat /\ x < EndIn(size, x)
        /\ EndIn(size, x) <= EndOf(n) /\ EndOf(n) \in Nat
    BY <2>1, ElemIs, ConstantsAre DEF InBlock
  <2>4. (n < m => EndOf(n) < m) /\ (m < n => EndOf(m) < n)
    BY ConstantsAre
  <2> QED BY <2>1, <2>2, <2>3, <2>4, <1>2
<1>7. ASSUME NEW x \in DOMAIN new, NEW y \in DOMAIN new, x < y PROVE EndIn(new, x) <= y
  <2>1. CASE x \in DOMAIN size /\ y \in DOMAIN size
    BY <2>1, <1>3, <1>7 DEF SizesOK
  <2>2. CASE x = m /\ y \in DOMAIN size
    <3>1. y \in Nat
      BY <2>2, ElemIs
    <3> QED BY <2>2, <3>1, <1>2, <1>3, <1>6, <1>7
  <2>3. CASE y = m /\ x \in DOMAIN size
    <3>1. x \in Nat /\ EndIn(size, x) \in Nat
      BY <2>3, ElemIs
    <3> QED BY <2>3, <3>1, <1>2, <1>3, <1>6, <1>7
  <2> QED BY <2>1, <2>2, <2>3, <1>1, <1>2, <1>7
<1>8. ASSUME NEW x \in DOMAIN new PROVE \E k \in MacroBlocks : InBlock(new, x, k)
  <2>1. CASE x = m
    BY <2>1, <1>1, <1>2, <1>3 DEF InBlock
  <2>2. CASE x # m
    <3>1. x \in DOMAIN size
      BY <2>2, <1>1
    <3>2. PICK k \in MacroBlocks : InBlock(size, x, k)
      BY <3>1, ElemIs
    <3> QED BY <3>1, <3>2, <1>1, <1>3 DEF InBlock
  <2> QED BY <2>1, <2>2
<1>9. SizesOK(new)
  BY <1>4, <1>5, <1>7, <1>8 DEF SizesOK
<1>10. ASSUME NEW x \in DOMAIN size PROVE EndIn(new, x) # m /\ EndIn(new, m) # x
  <2>1. x \in Nat /\ EndIn(size, x) \in Nat /\ x < EndIn(size, x)
    BY ElemIs
  <2>2. EndIn(new, m) = EndOf(m) /\ EndIn(new, x) = EndIn(size, x)
    BY <1>3
  <2>3. CASE x < m /\ EndIn(size, x) < m
    <3>1. m <= EndOf(m)
      BY ConstantsAre DEF EndOf
    <3> QED BY <2>1, <2>2, <2>3, <3>1, <1>2
  <2>4. CASE m < x /\ EndOf(m) < x
    BY <2>1, <2>2, <2>4, <1>2
  <2> QED BY <2>3, <2>4, <1>6
<1> QED BY <1>1, <1>2, <1>3, <1>9, <1>10

-----------------------------------------------------------------------------
(* The iterator: Moved is what insert and merge rely on.                    *)
Stops(s, i, e) == i >= Len(s) \/ s[i + 1] > e
Moved(s, i0, e, k) ==
  /\ k \in i0 .. Len(s) + 1 /\ (i0 <= Len(s) => k <= Len(s))
  /\ \A j \in k + 1 .. Len(s) : s[j] > e
  /\ k <= Len(s) /\ k > 1 => s[k] <= e
  /\ i0 <= Len(s) /\ s[i0] <= e => s[k] <= e
  /\ k = Len(s) + 1 /\ Len(s) > 0 => s[Len(s)] <= e

LEMMA MovedIs ==
  ASSUME NEW s \in Seq(Nat), Sorted(s), NEW e \in Nat, NEW i0 \in 1 .. Len(s) + 1,
         Start(s, i0, e),
         NEW k, k = CHOOSE i \in i0 .. Len(s) + 1 :
                      Stops(s, i, e) /\ \A j \in i0 .. i - 1 : ~Stops(s, j, e)
  PROVE  Moved(s, i0, e, k)
<1> DEFINE T == {i \in i0 .. Len(s) + 1 : Stops(s, i, e)}
<1>0. Len(s) \in Nat /\ i0 \in Nat
  OBVIOUS
<1>1. \E i \in T : \A j \in T : i <= j
  <2>1. T \subseteq Nat
    BY <1>0
  <2>2. Len(s) + 1 \in T
    BY <1>0 DEF Stops
  <2> HIDE DEF T
  <2>3. T # {}
    BY <2>2
  <2> QED BY <2>1, <2>3, Least
<1>2. PICK i \in T : \A j \in T : i <= j
  BY <1>1
<1>3. \A j \in i0 .. i - 1 : ~Stops(s, j, e)
  <2>1. SUFFICES ASSUME NEW j \in i0 .. i - 1, Stops(s, j, e) PROVE FALSE
    OBVIOUS
  <2>2. j \in T
    BY <1>0, <2>1
  <2>3. i <= j
    BY <1>2, <2>2
  <2> QED BY <2>3, <1>0
<1>4. k \in i0 .. Len(s) + 1 /\ Stops(s, k, e) /\ \A j \in i0 .. k - 1 : ~Stops(s, j, e)
  BY <1>2, <1>3
<1> HIDE DEF T
<1>5. i0 <= Len(s) => k <= Len(s)
  <2>1. SUFFICES ASSUME i0 <= Len(s), k > Len(s) PROVE FALSE
    BY <1>0, <1>4
  <2>2. Len(s) \in i0 .. k - 1 /\ Stops(s, Len(s), e)
    BY <1>0, <1>4, <2>1 DEF Stops
  <2> QED BY <1>4, <2>2
<1>6. ASSUME NEW j \in k + 1 .. Len(s) PROVE s[j] > e
  <2>1. k \in Nat /\ k < Len(s) /\ k + 1 \in 1 .. Len(s) /\ s[k + 1] \in Nat /\ s[j] \in Nat
        /\ j \in 1 .. Len(s)
    BY <1>0, <1>4
  <2>2. s[k + 1] > e
    BY <1>0, <1>4, <2>1 DEF Stops
  <2>3. CASE j = k + 1
    BY <2>2, <2>3
  <2>4. CASE j # k + 1
    <3>1. k + 1 < j
      BY <2>1, <2>4
    <3>2. s[k + 1] < s[j]
      BY <2>1, <3>1 DEF Sorted
    <3> QED BY <2>1, <2>2, <3>2
  <2> QED BY <2>3, <2>4
<1>7. ASSUME k > i0, k <= Len(s) PROVE s[k] <= e
  <2>1. k - 1 \in i0 .. k - 1 /\ (k - 1) + 1 = k /\ k \in 1 .. Len(s)
    BY <1>0, <1>4, <1>7
  <2>2. ~Stops(s, k - 1, e)
    BY <2>1, <1>4
  <2>3. ~(s[k] > e) /\ s[k] \in Nat
    BY <2>1, <2>2 DEF Stops
  <2> QED BY <2>3
<1>8. ASSUME k <= Len(s), k > 1 PROVE s[k] <= e
  <2>1. CASE k > i0
    BY <2>1, <1>7, <1>8
  <2>2. CASE k = i0
    <3>0. i0 > 1 /\ i0 <= Len(s)
      BY ONLY <2>2, <1>8
    <3>1. i0 # 1 /\ i0 # Len(s) + 1
      BY ONLY <3>0, <1>0
    <3>2. s[i0] <= e
      BY <3>1 DEF Start
    <3> QED BY <2>2, <3>2
  <2> QED BY <2>1, <2>2, <1>4, <1>0
<1>9. ASSUME i0 <= Len(s), s[i0] <= e PROVE s[k] <= e
  <2>1. CASE k > i0
    BY <2>1, <1>7, <1>5, <1>9
  <2>2. CASE k = i0
    BY <2>2, <1>9
  <2> QED BY <2>1, <2>2, <1>4, <1>0
<1>10. ASSUME k = Len(s) + 1, Len(s) > 0 PROVE s[Len(s)] <= e
  <2>1. i0 = Len(s) + 1
    BY <1>0, <1>4, <1>5, <1>10
  <2> QED BY <2>1, <1>0, <1>10 DEF Start
<1> QED BY <1>4, <1>5, <1>6, <1>8, <1>9, <1>10 DEF Moved

(* What is before the iterator is smaller.                                  *)
LEMMA MovedBefore ==
  ASSUME NEW s \in Seq(Nat), Sorted(s), NEW e \in Nat, NEW i0 \in 1 .. Len(s) + 1,
         NEW k, Moved(s, i0, e, k), NEW j \in 1 .. k - 1
  PROVE  j \in 1 .. Len(s) /\ (k <= Len(s) => s[j] < s[k]) /\ (e \notin Range(s) => s[j] < e)
<1>1. k \in 1 .. Len(s) + 1 /\ Len(s) \in Nat /\ j \in 1 .. Len(s) /\ s[j] \in Nat
  BY DEF Moved
<1>2. ASSUME k <= Len(s) PROVE s[j] < s[k] /\ s[k] <= e /\ s[k] \in Nat
  <2>1. k \in 1 .. Len(s) /\ j < k /\ k > 1
    BY <1>1, <1>2
  <2>2. s[j] < s[k]
    BY <2>1, <1>1 DEF Sorted
  <2>3. s[k] <= e
    BY <2>1, <1>2 DEF Moved
  <2> QED BY <2>1, <2>2, <2>3
<1>3. ASSUME e \notin Range(s) PROVE s[j] < e
  <2>1. CASE k <= Len(s)
    BY <2>1, <1>1, <1>2
  <2>2. CASE k = Len(s) + 1
    <3>1. Len(s) > 0 /\ Len(s) \in 1 .. Len(s)
      BY <1>1
    <3>2. s[Len(s)] <= e /\ s[Len(s)] \in Nat
      BY <3>1, <2>2 DEF Moved
    <3>3. j < Len(s) => s[j] < s[Len(s)]
      BY <3>1, <1>1 DEF Sorted
    <3>4. s[j] # e
      BY <1>1, <1>3, RangeIs
    <3> QED BY <1>1, <3>1, <3>2, <3>3, <3>4
  <2> QED BY <2>1, <2>2, <1>1
<1> QED BY <1>1, <1>2, <1>3

(* The place insertAt chooses, and where it leaves the iterator.            *)
LEMMA PlaceIs ==
  ASSUME NEW s \in Seq(Nat), Sorted(s), NEW e \in Nat, e \notin Range(s),
         NEW i0 \in 1 .. Len(s) + 1, NEW k, Moved(s, i0, e, k),
         NEW after \in BOOLEAN, after <=> (k <= Len(s) /\ (k > 1 \/ s[k] < e)),
         NEW p, p = IF after THEN k + 1 ELSE k,
         NEW t, t = InsertAt(s, p, e)
  PROVE  /\ t \in Seq(Nat) /\ Len(t) = Len(s) + 1 /\ Sorted(t)
         /\ Range(t) = Range(s) \cup {e}
         /\ k \in 1 .. Len(t) /\ t[k] <= e
<1>1. k \in 1 .. Len(s) + 1 /\ Len(s) \in Nat /\ p \in 1 .. Len(s) + 1
  BY DEF Moved
<1>2. \A j \in 1 .. Len(s) : s[j] \in Nat /\ s[j] # e
  BY RangeIs
<1>3. ASSUME NEW j \in 1 .. p - 1 PROVE s[j] < e
  <2>1. CASE j \in 1 .. k - 1
    BY <2>1, MovedBefore
  <2>2. CASE j \notin 1 .. k - 1
    <3>1. after /\ j = k
      BY <1>1, <2>2
    <3>2. k \in 1 .. Len(s) /\ (k > 1 => s[k] <= e)
      BY <3>1, <1>1 DEF Moved
    <3>3. s[k] \in Nat /\ s[k] # e
      BY <3>2, <1>2
    <3> QED BY <3>1, <3>2, <3>3
  <2> QED BY <2>1, <2>2
<1>4. ASSUME NEW j \in p .. Len(s) PROVE s[j] > e
  <2>1. CASE j > k
    <3>1. j \in k + 1 .. Len(s)
      BY <2>1, <1>1
    <3> QED BY <3>1 DEF Moved
  <2>2. CASE j <= k
    <3>1. j = k /\ ~after /\ k \in 1 .. Len(s)
      BY <2>2, <1>1
    <3>2. ~(s[k] < e)
      BY <3>1, <1>1
    <3> QED BY <3>1, <3>2, <1>2
  <2> QED BY <2>1, <2>2, <1>1
<1>5. /\ t \in Seq(Nat) /\ Len(t) = Len(s) + 1 /\ Sorted(t) /\ t[p] = e
      /\ Range(t) = Range(s) \cup {e}
  <2>1. Fits(s, p, e)
    BY <1>3, <1>4 DEF Fits
  <2> QED BY <1>1, <2>1, Inserted
<1>6. t[k] <= e
  <2>1. k \in 1 .. Len(t) /\ p \in 1 .. Len(t) /\ t[k] \in Nat
    BY <1>1, <1>5
  <2>2. k < p => t[k] < t[p]
    BY <2>1, <1>5 DEF Sorted
  <2>3. k < p \/ k = p
    BY <1>1
  <2> QED BY <2>1, <2>2, <2>3, <1>5
<1> QED BY <1>1, <1>5, <1>6

-----------------------------------------------------------------------------
(* Operations on the lists of a heap.                                       *)
ListsAre(h) ==
  /\ h = [list |-> h.list, it |-> h.it, size |-> h.size]
  /\ h.list \in [Lists -> Seq(Nat)] /\ h.it \in [Lists -> Nat]

LEMMA ListIs ==
  ASSUME NEW h, ListsOK(h), NEW l \in Lists
  PROVE  /\ h.list[l] \in Seq(Nat) /\ Sorted(h.list[l]) /\ Len(h.list[l]) \in Nat
         /\ h.it[l] \in 1 .. Len(h.list[l]) + 1 /\ h.it[l] \in Nat
BY DEF ListsOK

LEMMA ListElem ==
  ASSUME NEW h, ListsOK(h), NEW l \in Lists, NEW i \in 1 .. Len(h.list[l])
  PROVE  h.list[l][i] \in Nat /\ h.list[l][i] \in On(h, l)
<1>1. h.list[l] \in Seq(Nat)
  BY ListIs
<1>2. h.list[l][i] \in Range(h.list[l])
  BY <1>1, RangeIs
<1> QED BY <1>1, <1>2 DEF On

LEMMA OnIs ==
  ASSUME NEW h, ListsOK(h), NEW l \in Lists, NEW e \in On(h, l)
  PROVE  e \in Nat /\ \E i \in 1 .. Len(h.list[l]) : h.list[l][i] = e
<1>1. h.list[l] \in Seq(Nat)
  BY ListIs
<1>2. PICK i \in 1 .. Len(h.list[l]) : h.list[l][i] = e
  BY <1>1, RangeIs DEF On
<1> QED BY <1>1, <1>2

ItSet(h, l, i, g) == g = [h EXCEPT !.it[l] = i]
ListSet(h, l, s, g) == g = [h EXCEPT !.list[l] = s]

LEMMA SetIt ==
  ASSUME NEW h, ListsOK(h), NEW l \in Lists, NEW i \in 1 .. Len(h.list[l]) + 1,
         NEW g, ItSet(h, l, i, g)
  PROVE  /\ ListsOK(g) /\ g.list = h.list /\ g.size = h.size
         /\ g.it[l] = i /\ Same(h, g, l)
<1>1. ListsAre(h)
  BY DEF ListsOK, ListsAre
<1>2. i \in Nat /\ Len(h.list[l]) \in Nat
  BY ListIs
<1>3. g.list = h.list /\ g.size = h.size /\ g.it = [h.it EXCEPT ![l] = i]
  BY <1>1 DEF ListsAre, ItSet
<1>4. g = [list |-> g.list, it |-> g.it, size |-> g.size]
  BY <1>1 DEF ListsAre, ItSet
<1>5. g.it \in [Lists -> Nat] /\ g.it[l] = i /\ \A k \in Lists : k # l => g.it[k] = h.it[k]
  BY <1>1, <1>2, <1>3 DEF ListsAre
<1>6. ASSUME NEW k \in Lists
      PROVE  Sorted(g.list[k]) /\ g.it[k] \in 1 .. Len(g.list[k]) + 1
  <2>1. Sorted(h.list[k]) /\ h.it[k] \in 1 .. Len(h.list[k]) + 1
    BY ListIs
  <2> QED BY ONLY <2>1, <1>3, <1>5, k \in Lists, i \in 1 .. Len(h.list[l]) + 1
<1>7. ListsOK(g)
  BY <1>1, <1>3, <1>4, <1>5, <1>6 DEF ListsOK, ListsAre
<1>8. Same(h, g, l)
  BY <1>3, <1>5 DEF Same
<1> QED BY <1>3, <1>5, <1>7, <1>8

LEMMA SetList ==
  ASSUME NEW h, ListsOK(h), NEW l \in Lists, NEW s \in Seq(Nat), Sorted(s),
         h.it[l] \in 1 .. Len(s) + 1, NEW g, ListSet(h, l, s, g)
  PROVE  /\ ListsOK(g) /\ g.it = h.it /\ g.size = h.size
         /\ g.list[l] = s /\ Same(h, g, l)
<1>1. ListsAre(h)
  BY DEF ListsOK, ListsAre
<1>3. g.it = h.it /\ g.size = h.size /\ g.list = [h.list EXCEPT ![l] = s]
  BY <1>1 DEF ListsAre, ListSet
<1>4. g = [list |-> g.list, it |-> g.it, size |-> g.size]
  BY <1>1 DEF ListsAre, ListSet
<1>5. /\ g.list \in [Lists -> Seq(Nat)] /\ g.list[l] = s
      /\ \A k \in Lists : k # l => g.list[k] = h.list[k]
  BY <1>1, <1>3 DEF ListsAre
<1>6. ASSUME NEW k \in Lists
      PROVE  Sorted(g.list[k]) /\ g.it[k] \in 1 .. Len(g.list[k]) + 1
  <2>1. Sorted(h.list[k]) /\ h.it[k] \in 1 .. Len(h.list[k]) + 1
    BY ListIs
  <2>2. CASE k = l
    BY <2>2, <1>3, <1>5
  <2>3. CASE k # l
    BY <2>1, <2>3, <1>3, <1>5
  <2> QED BY <2>2, <2>3
<1>7. ListsOK(g)
  BY <1>1, <1>3, <1>4, <1>5, <1>6 DEF ListsOK, ListsAre
<1>8. Same(h, g, l)
  BY <1>3, <1>5 DEF Same
<1> QED BY <1>3, <1>5, <1>7, <1>8

LEMMA SetSize ==
  ASSUME NEW h, ListsOK(h), NEW z, NEW g, g = [h EXCEPT !.size = z]
  PROVE  ListsOK(g) /\ g.list = h.list /\ g.it = h.it /\ g.size = z
<1>1. ListsAre(h)
  BY DEF ListsOK, ListsAre
<1>2. g.list = h.list /\ g.it = h.it /\ g.size = z
  BY <1>1 DEF ListsAre
<1>3. g = [list |-> g.list, it |-> g.it, size |-> g.size]
  BY <1>1 DEF ListsAre
<1> QED BY <1>2, <1>3 DEF ListsOK

LEMMA SameOn ==
  ASSUME NEW h, NEW g, NEW l \in Lists, Same(h, g, l), NEW k \in Lists, k # l
  PROVE  /\ On(g, k) = On(h, k) /\ Rest(g, k) = Rest(h, k)
         /\ g.list[k] = h.list[k] /\ g.it[k] = h.it[k]
BY DEF Same, On, Rest

LEMMA EqualOn ==
  ASSUME NEW h, NEW g, g.list = h.list, NEW l
  PROVE  On(g, l) = On(h, l)
BY DEF On

(* Iterator::next, reset, and moving forth.                                 *)
LEMMA IterateIs ==
  ASSUME NEW h, ListsOK(h), NEW l \in Lists, NEW g, g = iterate(h, l)
  PROVE  ListsOK(g) /\ g.list = h.list /\ g.size = h.size /\ g.it[l] = 1 /\ Same(h, g, l)
<1>1. 1 \in 1 .. Len(h.list[l]) + 1
  BY ListIs
<1>2. ItSet(h, l, 1, g)
  BY DEF iterate, ItSet
<1> QED BY ONLY ListsOK(h), l \in Lists, <1>1, <1>2, SetIt

LEMMA NextIs ==
  ASSUME NEW h, ListsOK(h), NEW l \in Lists, ~AtEnd(h, l), NEW g, g = next(h, l)
  PROVE  /\ ListsOK(g) /\ g.list = h.list /\ g.size = h.size
         /\ g.it[l] = h.it[l] + 1 /\ Same(h, g, l)
<1>1. h.it[l] + 1 \in 1 .. Len(h.list[l]) + 1
  BY ListIs DEF AtEnd
<1>2. ItSet(h, l, h.it[l] + 1, g)
  BY DEF next, ItSet
<1> QED BY ONLY ListsOK(h), l \in Lists, <1>1, <1>2, SetIt

LEMMA MoveIs ==
  ASSUME NEW h, ListsOK(h), NEW l \in Lists, NEW e \in Nat, Ready(h, l, e),
         NEW g, g = move(h, l, e)
  PROVE  /\ ListsOK(g) /\ g.list = h.list /\ g.size = h.size /\ Same(h, g, l)
         /\ Moved(h.list[l], h.it[l], e, g.it[l])
<1> DEFINE k == CHOOSE i \in h.it[l] .. Len(h.list[l]) + 1 :
                  /\ Stops(h.list[l], i, e)
                  /\ \A j \in h.it[l] .. i - 1 : ~Stops(h.list[l], j, e)
<1>1. ItSet(h, l, k, g)
  BY DEF move, Stops, ItSet
<1>2. /\ h.list[l] \in Seq(Nat) /\ Sorted(h.list[l]) /\ Len(h.list[l]) \in Nat
      /\ h.it[l] \in 1 .. Len(h.list[l]) + 1
  BY ListIs
<1>3. Start(h.list[l], h.it[l], e)
  BY DEF Ready
<1>4. Moved(h.list[l], h.it[l], e, k)
  BY <1>2, <1>3, MovedIs
<1> HIDE DEF k
<1>5. k \in 1 .. Len(h.list[l]) + 1
  BY <1>2, <1>4 DEF Moved
<1>6. /\ ListsOK(g) /\ g.list = h.list /\ g.size = h.size /\ Same(h, g, l) /\ g.it[l] = k
  BY ONLY ListsOK(h), l \in Lists, <1>1, <1>5, SetIt
<1> QED BY <1>4, <1>6

(* Iterator::drop                                                           *)
LEMMA DropIs ==
  ASSUME NEW h, ListsOK(h), NEW l \in Lists, NEW i \in 1 .. Len(h.list[l]),
         h.it[l] <= Len(h.list[l]),
         NEW g, g = [h EXCEPT !.list[l] = RemoveAt(h.list[l], i)]
  PROVE  /\ ListsOK(g) /\ g.it = h.it /\ g.size = h.size /\ Same(h, g, l)
         /\ On(g, l) = On(h, l) \ {h.list[l][i]}
         /\ Removes(h.list[l], i, g.list[l])
<1> DEFINE s == h.list[l]
           t == RemoveAt(s, i)
<1>1. s \in Seq(Nat) /\ Sorted(s) /\ Len(s) \in Nat /\ h.it[l] \in 1 .. Len(s) + 1
  BY ListIs
<1> HIDE DEF s
<1>2. i \in 1 .. Len(s) /\ h.it[l] <= Len(s)
  BY DEF s
<1>3. t \in Seq(Nat) /\ Len(t) = Len(s) - 1 /\ Sorted(t) /\ Range(t) = Range(s) \ {s[i]}
  BY <1>1, <1>2, Removed
<1>4. Removes(s, i, t)
  BY <1>1, <1>2, RemoveAtIs
<1> HIDE DEF t
<1>5. h.it[l] \in 1 .. Len(t) + 1
  BY <1>1, <1>2, <1>3
<1>6. ListSet(h, l, t, g)
  BY DEF s, t, ListSet
<1>7. ListsOK(g) /\ g.it = h.it /\ g.size = h.size /\ g.list[l] = t /\ Same(h, g, l)
  BY ONLY ListsOK(h), l \in Lists, <1>3, <1>5, <1>6, SetList
<1> QED BY <1>3, <1>4, <1>7 DEF On, s

(* HeapElementList::insert, once the iterator stands well.                  *)
InsertedAt(h, g, l, e) ==
  /\ ListsOK(g) /\ g.size = h.size /\ Same(h, g, l)
  /\ On(g, l) = On(h, l) \cup {e} /\ Points(g, l, e)

LEMMA InsertAtOK ==
  ASSUME NEW h, ListsOK(h), NEW l \in Lists, NEW e \in Nat, Ready(h, l, e), e \notin On(h, l),
         NEW g, g = insertAt(h, l, e)
  PROVE  InsertedAt(h, g, l, e)
<1> DEFINE m == move(h, l, e)
           s == h.list[l]
           k == m.it[l]
           after == ~AtEnd(m, l) /\ (m.it[l] > 1 \/ cur(m, l) < e)
           p == IF after THEN k + 1 ELSE k
           t == InsertAt(s, p, e)
<1>1. /\ ListsOK(m) /\ m.list = h.list /\ m.size = h.size /\ Same(h, m, l)
      /\ Moved(h.list[l], h.it[l], e, m.it[l])
  BY MoveIs
<1>2. g = [m EXCEPT !.list[l] = InsertAt(m.list[l], p, e)]
  BY DEF insertAt
<1> HIDE DEF m
<1>3. s \in Seq(Nat) /\ Sorted(s) /\ Len(s) \in Nat /\ h.it[l] \in 1 .. Len(s) + 1
  BY ListIs
<1>4. e \notin Range(s)
  BY DEF On
<1>5. after \in BOOLEAN /\ (after <=> (k <= Len(s) /\ (k > 1 \/ s[k] < e)))
  <2>1. k \in 1 .. Len(s) + 1
    BY <1>1, <1>3 DEF Moved
  <2>2. after <=> (k <= Len(s) /\ (k > 1 \/ s[k] < e))
    BY <1>1, <1>3, <2>1 DEF AtEnd, cur
  <2> QED BY <2>2
<1>6. Moved(s, h.it[l], e, k) /\ ListSet(m, l, t, g)
  BY <1>1, <1>2 DEF ListSet
<1> HIDE DEF s, k, after
<1>7. /\ t \in Seq(Nat) /\ Len(t) = Len(s) + 1 /\ Sorted(t)
      /\ Range(t) = Range(s) \cup {e}
      /\ k \in 1 .. Len(t) /\ t[k] <= e
  BY <1>3, <1>4, <1>5, <1>6, PlaceIs
<1> HIDE DEF t, p
<1>8. m.it[l] = k /\ h.list[l] = s
  BY DEF s, k
<1>9. m.it[l] \in 1 .. Len(t) + 1
  BY <1>7, <1>8
<1>10. ListsOK(g) /\ g.it = m.it /\ g.size = m.size /\ g.list[l] = t /\ Same(m, g, l)
  BY ONLY l \in Lists, <1>1, <1>6, <1>7, <1>9, SetList
<1>11. Same(h, g, l)
  BY <1>1, <1>10 DEF Same
<1>12. Points(g, l, e)
  BY <1>7, <1>8, <1>10 DEF Points
<1> QED BY <1>1, <1>7, <1>8, <1>10, <1>11, <1>12 DEF InsertedAt, On

LEMMA InsertOK ==
  ASSUME NEW h, ListsOK(h), NEW l \in Lists, NEW e \in Nat, e \notin On(h, l),
         NEW g, g = insert(h, l, e)
  PROVE  InsertedAt(h, g, l, e)
<1>1. /\ h.list[l] \in Seq(Nat) /\ Len(h.list[l]) \in Nat
      /\ h.it[l] \in 1 .. Len(h.list[l]) + 1
  BY ListIs
<1>2. CASE canMove(h, l, e)
  <2>1. Ready(h, l, e)
    <3>1. CASE h.list[l] = <<>>
      BY <3>1, <1>1 DEF Ready, Start
    <3>2. CASE h.it[l] > 1 /\ AtEnd(h, l) /\ Last(h.list[l]) <= e
      BY <3>2, <1>1 DEF Ready, Start, AtEnd, Last
    <3>3. CASE h.it[l] = 1
      BY <3>3 DEF Ready, Start
    <3>4. CASE ~AtEnd(h, l) /\ cur(h, l) <= e
      BY <3>4, <1>1 DEF Ready, Start, AtEnd, cur
    <3> QED BY <1>2, <3>1, <3>2, <3>3, <3>4 DEF canMove
  <2>2. g = insertAt(h, l, e)
    BY <1>2 DEF insert
  <2> QED BY <2>1, <2>2, InsertAtOK
<1>3. CASE ~canMove(h, l, e)
  <2> DEFINE f == iterate(h, l)
  <2>1. ListsOK(f) /\ f.list = h.list /\ f.size = h.size /\ f.it[l] = 1 /\ Same(h, f, l)
    BY IterateIs
  <2>2. g = insertAt(f, l, e)
    BY <1>3 DEF insert
  <2> HIDE DEF f
  <2>3. Ready(f, l, e)
    BY <2>1 DEF Ready, Start
  <2>4. On(f, l) = On(h, l)
    BY <2>1, EqualOn
  <2>5. InsertedAt(f, g, l, e)
    BY <2>1, <2>2, <2>3, <2>4, InsertAtOK
  <2> QED BY <2>1, <2>4, <2>5 DEF InsertedAt, Same
<1> QED BY <1>2, <1>3

-----------------------------------------------------------------------------
(* Where the elements are.                                                  *)
LEMMA PutPlaced ==
  ASSUME NEW h, NEW e, Placed(h, {e}), NEW g, NEW l \in Lists, Same(h, g, l),
         DOMAIN g.size = DOMAIN h.size, On(g, l) = On(h, l) \cup {e}
  PROVE  Placed(g, {})
<1>1. \A k \in Lists : k # l => On(g, k) = On(h, k)
  BY SameOn
<1>2. /\ \A k \in Lists : On(h, k) \cap {e} = {}
      /\ \A j, k \in Lists : j # k => On(h, j) \cap On(h, k) = {}
      /\ DOMAIN h.size = {e} \cup UNION {On(h, k) : k \in Lists}
  BY DEF Placed
<1>3. \A j, k \in Lists : j # k => On(g, j) \cap On(g, k) = {}
  <2>1. SUFFICES ASSUME NEW j \in Lists, NEW k \in Lists, j # k
                 PROVE  On(g, j) \cap On(g, k) = {}
    OBVIOUS
  <2>2. On(h, j) \cap On(h, k) = {} /\ e \notin On(h, j) /\ e \notin On(h, k)
    BY <1>2, <2>1
  <2>3. CASE j = l
    BY <2>1, <2>2, <2>3, <1>1
  <2>4. CASE k = l
    BY <2>1, <2>2, <2>4, <1>1
  <2>5. CASE j # l /\ k # l
    BY <2>1, <2>2, <2>5, <1>1
  <2> QED BY <2>3, <2>4, <2>5
<1>4. UNION {On(g, k) : k \in Lists} = {e} \cup UNION {On(h, k) : k \in Lists}
  BY <1>1
<1> QED BY <1>2, <1>3, <1>4 DEF Placed

LEMMA TakenPlaced ==
  ASSUME NEW h, Placed(h, {}), NEW g, NEW l \in Lists, Same(h, g, l), NEW e \in On(h, l),
         DOMAIN g.size = DOMAIN h.size, On(g, l) = On(h, l) \ {e}
  PROVE  Placed(g, {e})
<1>1. \A k \in Lists : k # l => On(g, k) = On(h, k)
  BY SameOn
<1>2. /\ \A j, k \in Lists : j # k => On(h, j) \cap On(h, k) = {}
      /\ DOMAIN h.size = UNION {On(h, k) : k \in Lists}
  BY DEF Placed
<1>3. \A j, k \in Lists : j # k => On(g, j) \cap On(g, k) = {}
  <2>1. SUFFICES ASSUME NEW j \in Lists, NEW k \in Lists, j # k
                 PROVE  On(g, j) \cap On(g, k) = {}
    OBVIOUS
  <2>2. On(h, j) \cap On(h, k) = {}
    BY <1>2, <2>1
  <2>3. On(g, j) \subseteq On(h, j) /\ On(g, k) \subseteq On(h, k)
    BY <1>1
  <2> QED BY <2>2, <2>3
<1>4. \A k \in Lists : On(g, k) \cap {e} = {}
  <2>1. SUFFICES ASSUME NEW k \in Lists PROVE e \notin On(g, k)
    OBVIOUS
  <2>2. CASE k = l
    BY <2>2
  <2>3. CASE k # l
    BY <2>3, <1>1, <1>2
  <2> QED BY <2>2, <2>3
<1>5. {e} \cup UNION {On(g, k) : k \in Lists} = UNION {On(h, k) : k \in Lists}
  BY <1>1
<1> QED BY <1>2, <1>3, <1>4, <1>5 DEF Placed

LEMMA GonePlaced ==
  ASSUME NEW h, NEW e, Placed(h, {e}), NEW g, g.list = h.list,
         DOMAIN g.size = DOMAIN h.size \ {e}
  PROVE  Placed(g, {})
<1>1. \A k \in Lists : On(g, k) = On(h, k)
  BY EqualOn
<1> QED BY <1>1 DEF Placed

LEMMA NewPlaced ==
  ASSUME NEW h, Placed(h, {}), NEW g, g.list = h.list, NEW e, e \notin DOMAIN h.size,
         DOMAIN g.size = DOMAIN h.size \cup {e}
  PROVE  Placed(g, {e})
<1>1. \A k \in Lists : On(g, k) = On(h, k)
  BY EqualOn
<1> QED BY <1>1 DEF Placed

LEMMA PlacedIs ==
  ASSUME NEW h, NEW X, Placed(h, X), NEW l \in Lists, NEW e
  PROVE  /\ e \in On(h, l) => e \in DOMAIN h.size /\ e \notin X
         /\ e \in X => e \in DOMAIN h.size /\ e \notin On(h, l)
         /\ \A k \in Lists : k # l => (e \in On(h, l) => e \notin On(h, k))
BY DEF Placed

(* The elements that are not free.                                          *)
NonFree(h) == UNION {On(h, l) : l \in Lists \ {"free"}}

LEMMA NonFreeIs ==
  ASSUME NEW h, Placed(h, {})
  PROVE  DOMAIN h.size \ On(h, "free") = NonFree(h)
<1>1. "free" \in Lists
  BY DEF Lists
<1>2. DOMAIN h.size = UNION {On(h, l) : l \in Lists}
  BY DEF Placed
<1>3. \A l \in Lists \ {"free"} : On(h, l) \cap On(h, "free") = {}
  BY <1>1 DEF Placed
<1> QED BY <1>1, <1>2, <1>3 DEF NonFree

LEMMA NonFreeSame ==
  ASSUME NEW h, NEW g, Same(h, g, "free")
  PROVE  NonFree(g) = NonFree(h)
<1>1. \A l \in Lists \ {"free"} : On(g, l) = On(h, l)
  BY DEF Same, On
<1> QED BY <1>1 DEF NonFree

LEMMA NonFreePut ==
  ASSUME NEW h, NEW g, NEW l \in Lists, l # "free", Same(h, g, l),
         NEW e, On(g, l) = On(h, l) \cup {e}
  PROVE  NonFree(g) = NonFree(h) \cup {e}
<1>1. \A k \in Lists : k # l => On(g, k) = On(h, k)
  BY SameOn
<1> QED BY <1>1 DEF NonFree

LEMMA NonFreeTaken ==
  ASSUME NEW h, Placed(h, {}), NEW g, NEW l \in Lists, l # "free", Same(h, g, l),
         NEW e \in On(h, l), On(g, l) = On(h, l) \ {e}
  PROVE  NonFree(g) = NonFree(h) \ {e}
<1>1. \A k \in Lists : k # l => On(g, k) = On(h, k)
  BY SameOn
<1>2. \A k \in Lists : k # l => e \notin On(h, k)
  BY PlacedIs
<1> QED BY <1>1, <1>2 DEF NonFree

-----------------------------------------------------------------------------
(* Iterator::merge                                                          *)
ApartBut(size, S, c) == \A d, e \in S : d # c => EndIn(size, d) # e

LEMMA MergeIs ==
  ASSUME NEW h, ListsOK(h), SizesOK(h.size), NEW d \in DOMAIN h.size, NEW e \in DOMAIN h.size,
         EndIn(h.size, d) = e, NEW g, g = Merge(h, d, e)
  PROVE  /\ ListsOK(g) /\ SizesOK(g.size) /\ g.list = h.list /\ g.it = h.it
         /\ Joined(h.size, d, e, g.size)
<1> DEFINE z == [x \in DOMAIN h.size \ {e} |->
                   IF x = d THEN h.size[d] + HeaderSize + h.size[e] ELSE h.size[x]]
<1>1. g = [h EXCEPT !.size = z]
  BY DEF Merge
<1>2. Joined(h.size, d, e, z)
  BY JoinedIs
<1> HIDE DEF z
<1>3. SizesOK(z)
  BY <1>2, JoinedOK
<1>4. ListsOK(g) /\ g.list = h.list /\ g.it = h.it /\ g.size = z
  BY <1>1, SetSize
<1> QED BY <1>2, <1>3, <1>4

(* A free element that another one touches is its successor.                *)
LEMMA SuccessorIs ==
  ASSUME NEW h, ListsOK(h), Placed(h, {}), SizesOK(h.size), NEW i \in 1 .. Len(h.list["free"]),
         NEW f \in On(h, "free"), EndIn(h.size, h.list["free"][i]) = f
  PROVE  i + 1 \in 1 .. Len(h.list["free"]) /\ h.list["free"][i + 1] = f
<1> DEFINE s == h.list["free"]
<1>0. "free" \in Lists
  BY DEF Lists
<1>1. s \in Seq(Nat) /\ Sorted(s) /\ Len(s) \in Nat
  BY <1>0, ListIs
<1>2. \A j \in 1 .. Len(s) : s[j] \in On(h, "free")
  BY <1>0, ListElem
<1>3. \A j \in 1 .. Len(s) : s[j] \in DOMAIN h.size
  BY <1>0, <1>2, PlacedIs
<1>4. PICK k \in 1 .. Len(s) : s[k] = f
  BY <1>0, OnIs
<1>5. i \in 1 .. Len(s) /\ EndIn(h.size, s[i]) = s[k]
  BY <1>4
<1>6. \A j \in 1 .. Len(s) : s[j] \in Nat
  BY <1>1
<1> HIDE DEF s
<1>7. s[i] < s[k]
  BY <1>3, <1>5, ElemIs
<1>8. i < k
  <2>1. SUFFICES ASSUME k <= i PROVE FALSE
    BY <1>4, <1>5
  <2>2. k < i => s[k] < s[i]
    BY <1>4, <1>5, <1>1 DEF Sorted
  <2>3. k = i \/ k < i
    BY <2>1, <1>4, <1>5
  <2> QED BY <2>2, <2>3, <1>4, <1>5, <1>6, <1>7
<1>9. i + 1 \in 1 .. Len(s)
  BY <1>1, <1>4, <1>5, <1>8
<1>10. i + 1 = k
  <2>1. SUFFICES ASSUME i + 1 < k PROVE FALSE
    BY <1>4, <1>5, <1>8
  <2>2. s[i + 1] < s[k]
    BY <2>1, <1>1, <1>4, <1>9 DEF Sorted
  <2>3. s[i] < s[i + 1]
    BY <1>1, <1>5, <1>9 DEF Sorted
  <2>4. EndIn(h.size, s[i]) <= s[i + 1]
    BY <2>3, <1>3, <1>5, <1>9 DEF SizesOK
  <2> QED BY <2>2, <2>4, <1>4, <1>5, <1>6, <1>9
<1> QED BY <1>4, <1>9, <1>10 DEF s

LEMMA MergeNextOK ==
  ASSUME NEW h, ListsOK(h), Placed(h, {}), SizesOK(h.size),
         h.it["free"] <= Len(h.list["free"]), NEW c, c = cur(h, "free"),
         ApartBut(h.size, On(h, "free"), c), NEW g, g = MergeNext(h, "free")
  PROVE  HeapOK(g, {}) /\ Same(h, g, "free") /\ g.it = h.it
         /\ cur(g, "free") = c /\ g.it["free"] <= Len(g.list["free"])
<1> DEFINE s == h.list["free"]
           i == h.it["free"] + 1
           f == s[i]
<1>0. "free" \in Lists
  BY DEF Lists
<1>1. /\ Len(s) \in Nat /\ h.it["free"] \in 1 .. Len(s) /\ i \in Nat /\ s \in Seq(Nat)
      /\ c = s[h.it["free"]]
  BY <1>0, ListIs DEF cur
<1>2. c \in On(h, "free") /\ c \in DOMAIN h.size
  BY <1>0, <1>1, ListElem, PlacedIs
<1>3. CASE i <= Len(s) /\ Adjacent(h, c, f)
  <2> DEFINE m == Merge(h, c, f)
  <2>1. g = [m EXCEPT !.list["free"] = RemoveAt(m.list["free"], i)]
    BY <1>3 DEF MergeNext
  <2>2. i \in 1 .. Len(s) /\ EndIn(h.size, c) = f
    BY <1>1, <1>3 DEF Adjacent, EndIn
  <2>3. f \in On(h, "free") /\ f \in DOMAIN h.size
    BY <1>0, <2>2, ListElem, PlacedIs
  <2>4. /\ ListsOK(m) /\ SizesOK(m.size) /\ m.list = h.list /\ m.it = h.it
        /\ Joined(h.size, c, f, m.size)
    BY <1>2, <2>2, <2>3, MergeIs
  <2> HIDE DEF m
  <2>5. /\ i \in 1 .. Len(m.list["free"]) /\ m.it["free"] <= Len(m.list["free"])
        /\ m.list["free"][i] = f
    BY <2>2, <2>4
  <2>6. /\ ListsOK(g) /\ g.it = m.it /\ g.size = m.size /\ Same(m, g, "free")
        /\ On(g, "free") = On(m, "free") \ {m.list["free"][i]}
        /\ Removes(m.list["free"], i, g.list["free"])
    BY <1>0, <2>1, <2>4, <2>5, DropIs
  <2>7. On(g, "free") = On(h, "free") \ {f} /\ Same(h, g, "free")
    BY <2>4, <2>5, <2>6 DEF Same, On
  <2>8. cur(g, "free") = c /\ g.it["free"] <= Len(g.list["free"])
    <3>1. Removes(s, i, g.list["free"]) /\ g.it["free"] = h.it["free"]
      BY <2>4, <2>6
    <3>2. h.it["free"] \in 1 .. i - 1 /\ h.it["free"] <= Len(s) - 1
      BY <1>1, <2>2
    <3> QED BY <3>1, <3>2, <1>1 DEF Removes, cur
  <2>9. Placed(g, {})
    <3>1. Placed([h EXCEPT !.list = g.list], {f})
      <4> DEFINE q == [h EXCEPT !.list = g.list]
      <4>1. q.list = g.list /\ q.size = h.size /\ q.it = h.it
        BY DEF ListsOK
      <4>2. Same(h, q, "free")
        BY <2>7, <2>4, <2>6, <4>1 DEF Same
      <4>3. On(q, "free") = On(h, "free") \ {f}
        BY <2>7, <4>1, EqualOn
      <4> HIDE DEF q
      <4>4. Placed(q, {f})
        BY <1>0, <2>3, <4>1, <4>2, <4>3, TakenPlaced
      <4> QED BY <4>4 DEF q
    <3> DEFINE q == [h EXCEPT !.list = g.list]
    <3>2. q.list = g.list /\ q.size = h.size
      BY DEF ListsOK
    <3> HIDE DEF q
    <3>3. Placed(q, {f})
      BY <3>1 DEF q
    <3>4. DOMAIN g.size = DOMAIN q.size \ {f} /\ g.list = q.list
      BY <2>4, <2>6, <3>2 DEF Joined
    <3> QED BY <3>3, <3>4, GonePlaced
  <2>10. Apart(g.size, On(g, "free"))
    <3>1. SUFFICES ASSUME NEW x \in On(g, "free"), NEW y \in On(g, "free")
                   PROVE  EndIn(g.size, x) # y
      BY DEF Apart
    <3>2. x \in On(h, "free") /\ y \in On(h, "free") /\ x # f
      BY <2>7
    <3>3. x \in DOMAIN g.size
      BY <1>0, <2>9, PlacedIs
    <3>4. CASE x = c
      <4>1. EndIn(g.size, x) = EndIn(h.size, f) /\ f # c
        BY <3>2, <3>4, <2>4, <2>6 DEF Joined
      <4>2. EndIn(h.size, f) # y
        BY <4>1, <3>2, <2>3 DEF ApartBut
      <4> QED BY <4>1, <4>2
    <3>5. CASE x # c
      <4>1. EndIn(g.size, x) = EndIn(h.size, x)
        BY <3>3, <3>5, <2>4, <2>6 DEF Joined
      <4>2. EndIn(h.size, x) # y
        BY <3>2, <3>5 DEF ApartBut
      <4> QED BY <4>1, <4>2
    <3> QED BY <3>4, <3>5
  <2> QED BY <2>4, <2>6, <2>7, <2>8, <2>9, <2>10 DEF HeapOK
<1>4. CASE ~(i <= Len(s) /\ Adjacent(h, c, f))
  <2>1. g = h
    BY <1>4 DEF MergeNext
  <2>2. Apart(h.size, On(h, "free"))
    <3>1. SUFFICES ASSUME NEW x \in On(h, "free"), NEW y \in On(h, "free"),
                          EndIn(h.size, x) = y
                   PROVE  FALSE
      BY DEF Apart
    <3>2. x = c
      BY <3>1 DEF ApartBut
    <3>3. EndIn(h.size, s[h.it["free"]]) = y
      BY <3>1, <3>2, <1>1
    <3>4. i \in 1 .. Len(s) /\ s[i] = y
      BY <3>3, <1>1, SuccessorIs
    <3>5. Adjacent(h, c, f)
      BY <3>1, <3>2, <3>4 DEF Adjacent, EndIn
    <3> QED BY <3>4, <3>5, <1>4
  <2> QED BY <2>1, <2>2, <1>1 DEF HeapOK, Same, cur
<1> QED BY <1>3, <1>4

LEMMA InsertedPlaced ==
  ASSUME NEW h, NEW e, Placed(h, {e}), NEW g, NEW l \in Lists, InsertedAt(h, g, l, e)
  PROVE  Placed(g, {})
BY PutPlaced DEF InsertedAt

(* The element that the iterator has found is the one e continues, if any. *)
LEMMA PredecessorIs ==
  ASSUME NEW h, NEW e \in Nat, HeapOK(h, {e}), OnElement(h),
         NEW m, m.list = h.list,
         Moved(h.list["free"], h.it["free"], e, m.it["free"]),
         NEW x \in On(h, "free"), EndIn(h.size, x) = e
  PROVE  ~AtEnd(m, "free") /\ cur(m, "free") = x
<1> DEFINE s == h.list["free"]
           k == m.it["free"]
<1>0. "free" \in Lists /\ ListsOK(h) /\ SizesOK(h.size) /\ Placed(h, {e})
  BY DEF Lists, HeapOK
<1>1. s \in Seq(Nat) /\ Sorted(s) /\ Len(s) \in Nat /\ h.it["free"] \in 1 .. Len(s) + 1
  BY <1>0, ListIs
<1>2. \A j \in 1 .. Len(s) : s[j] \in On(h, "free")
  BY <1>0, ListElem
<1>3. \A j \in 1 .. Len(s) : s[j] \in DOMAIN h.size /\ s[j] # e
  BY <1>0, <1>2, PlacedIs
<1>4. PICK j \in 1 .. Len(s) : s[j] = x
  BY <1>0, OnIs
<1>5. x < e /\ x \in Nat /\ x \in DOMAIN h.size
  BY <1>0, <1>3, <1>4, ElemIs
<1>6. Moved(s, h.it["free"], e, k)
  OBVIOUS
<1>7. s # <<>> /\ h.it["free"] <= Len(s)
  BY <1>1, <1>4 DEF OnElement
<1> HIDE DEF s, k
<1>8. k \in 1 .. Len(s)
  BY <1>1, <1>6, <1>7 DEF Moved
<1>9. j <= k
  <2>1. SUFFICES ASSUME k < j PROVE FALSE
    BY <1>4, <1>8
  <2>2. j \in k + 1 .. Len(s)
    BY <2>1, <1>1, <1>4, <1>8
  <2>3. s[j] > e
    BY <2>2, <1>6 DEF Moved
  <2> QED BY <2>3, <1>4, <1>5
<1>10. j = k
  <2>1. SUFFICES ASSUME j < k PROVE FALSE
    BY <1>4, <1>8, <1>9
  <2>2. k > 1 /\ k <= Len(s)
    BY <2>1, <1>4, <1>8
  <2>3. s[k] <= e
    BY <2>2, <1>6 DEF Moved
  <2>4. s[k] \in Nat /\ s[k] # e /\ s[k] \in DOMAIN h.size
    BY <1>1, <1>3, <1>8
  <2>5. x < s[k]
    BY <2>1, <1>1, <1>4, <1>8 DEF Sorted
  <2>6. e <= s[k]
    BY <2>4, <2>5, <1>0, <1>5 DEF SizesOK
  <2> QED BY <2>3, <2>4, <2>6
<1> QED BY <1>4, <1>8, <1>10 DEF s, k, AtEnd, cur

LEMMA MergeOK ==
  ASSUME NEW h, NEW e \in Nat, HeapOK(h, {e}), Ready(h, "free", e), OnElement(h),
         NEW g, g = merge(h, "free", e)
  PROVE  HeapOK(g, {}) /\ Same(h, g, "free") /\ Points(g, "free", e)
<1> DEFINE m == move(h, "free", e)
           d == cur(m, "free")
<1>0. /\ "free" \in Lists /\ ListsOK(h) /\ SizesOK(h.size) /\ Placed(h, {e})
      /\ Apart(h.size, On(h, "free"))
  BY DEF Lists, HeapOK
<1>1. e \in DOMAIN h.size /\ e \notin On(h, "free")
  BY <1>0, PlacedIs
<1>2. /\ ListsOK(m) /\ m.list = h.list /\ m.size = h.size /\ Same(h, m, "free")
      /\ Moved(h.list["free"], h.it["free"], e, m.it["free"])
  BY <1>0, MoveIs
<1>3. CASE ~AtEnd(m, "free") /\ Adjacent(m, d, e)
  <2> DEFINE j == Merge(m, d, e)
  <2>1. g = MergeNext(j, "free")
    BY <1>3 DEF merge
  <2> HIDE DEF m
  <2>2. m.it["free"] \in 1 .. Len(m.list["free"])
    BY <1>0, <1>2, <1>3, ListIs DEF AtEnd
  <2>3. d \in On(h, "free") /\ d \in DOMAIN h.size
    <3>1. d \in On(m, "free")
      BY <1>0, <1>2, <2>2, ListElem DEF cur
    <3> QED BY <3>1, <1>0, <1>2, EqualOn, PlacedIs
  <2>4. EndIn(m.size, d) = e
    BY <1>3 DEF Adjacent, EndIn
  <2> HIDE DEF d
  <2>5. /\ ListsOK(j) /\ SizesOK(j.size) /\ j.list = m.list /\ j.it = m.it
        /\ Joined(h.size, d, e, j.size)
    BY <1>0, <1>1, <1>2, <2>3, <2>4, MergeIs
  <2> HIDE DEF j
  <2>6. Placed(j, {})
    BY <1>0, <1>2, <2>5, GonePlaced DEF Joined
  <2>7. On(j, "free") = On(h, "free") /\ cur(j, "free") = d
    BY <1>2, <2>5 DEF On, cur, d
  <2>8. ApartBut(j.size, On(j, "free"), d)
    <3>1. SUFFICES ASSUME NEW x \in On(j, "free"), NEW y \in On(j, "free"), x # d
                   PROVE  EndIn(j.size, x) # y
      BY DEF ApartBut
    <3>2. x \in DOMAIN j.size
      BY <1>0, <2>6, PlacedIs
    <3>3. EndIn(j.size, x) = EndIn(h.size, x)
      BY <3>1, <3>2, <2>5 DEF Joined
    <3> QED BY <3>1, <3>3, <1>0, <2>7 DEF Apart
  <2>9. j.it["free"] <= Len(j.list["free"])
    BY <2>2, <2>5
  <2>10. /\ HeapOK(g, {}) /\ Same(j, g, "free")
         /\ cur(g, "free") = d /\ g.it["free"] <= Len(g.list["free"])
    BY <2>1, <2>5, <2>6, <2>7, <2>8, <2>9, MergeNextOK
  <2>11. Same(h, g, "free")
    BY <1>2, <2>5, <2>10 DEF Same
  <2>12. d < e /\ d \in Nat
    BY <1>0, <1>2, <2>3, <2>4, ElemIs
  <2> QED BY <2>10, <2>11, <2>12 DEF Points, cur
<1>4. CASE ~(~AtEnd(m, "free") /\ Adjacent(m, d, e))
  <2> DEFINE i == insertAt(m, "free", e)
             j == move(i, "free", e)
  <2>1. g = MergeNext(j, "free")
    BY <1>4 DEF merge
  <2>2. \A x \in On(h, "free") : EndIn(h.size, x) # e
    <3>1. SUFFICES ASSUME NEW x \in On(h, "free"), EndIn(h.size, x) = e PROVE FALSE
      OBVIOUS
    <3> HIDE DEF m
    <3>2. ~AtEnd(m, "free") /\ d = x
      BY <3>1, <1>2, PredecessorIs
    <3>3. Adjacent(m, d, e)
      BY <3>1, <3>2, <1>2 DEF Adjacent, EndIn
    <3> QED BY <3>2, <3>3, <1>4
  <2>3. Ready(m, "free", e)
    <3> HIDE DEF m
    <3>1. Len(h.list["free"]) \in Nat /\ m.it["free"] \in 1 .. Len(h.list["free"]) + 1
      BY <1>0, <1>2, ListIs
    <3> QED BY <3>1, <1>2 DEF Ready, Start, Moved
  <2> HIDE DEF m, d
  <2>4. On(m, "free") = On(h, "free")
    BY <1>2, EqualOn
  <2>5. InsertedAt(m, i, "free", e)
    BY <1>0, <1>1, <1>2, <2>3, <2>4, InsertAtOK
  <2> HIDE DEF i
  <2>6. InsertedAt(h, i, "free", e)
    BY <1>2, <2>4, <2>5 DEF InsertedAt, Same
  <2>7. Placed(i, {})
    BY <1>0, <2>6, InsertedPlaced
  <2>8. ListsOK(i) /\ Points(i, "free", e) /\ i.size = h.size /\ Same(h, i, "free")
        /\ On(i, "free") = On(h, "free") \cup {e}
    BY <2>6 DEF InsertedAt
  <2>9. Ready(i, "free", e)
    BY <2>8 DEF Ready, Start, Points
  <2>10. /\ ListsOK(j) /\ j.list = i.list /\ j.size = i.size /\ Same(i, j, "free")
         /\ Moved(i.list["free"], i.it["free"], e, j.it["free"])
    BY <1>0, <2>8, <2>9, MoveIs
  <2> HIDE DEF j
  <2>11. On(j, "free") = On(h, "free") \cup {e} /\ j.size = h.size /\ Same(h, j, "free")
    BY <2>8, <2>10, EqualOn DEF Same
  <2>12. j.it["free"] <= Len(j.list["free"]) /\ cur(j, "free") = e
    <3> DEFINE s == i.list["free"]
               k == j.it["free"]
    <3>1. /\ s \in Seq(Nat) /\ Sorted(s) /\ Len(s) \in Nat /\ i.it["free"] \in 1 .. Len(s) + 1
          /\ i.it["free"] <= Len(s) /\ s[i.it["free"]] <= e
      BY <1>0, <2>8, ListIs DEF Points
    <3>2. Moved(s, i.it["free"], e, k)
      BY <2>10
    <3>3. PICK n \in 1 .. Len(s) : s[n] = e
      BY <1>0, <2>8, OnIs
    <3>4. cur(j, "free") = s[k] /\ j.list["free"] = s
      BY <2>10 DEF cur
    <3> HIDE DEF s, k
    <3>5. k \in 1 .. Len(s) /\ s[k] <= e /\ s[k] \in Nat
      BY <3>1, <3>2 DEF Moved
    <3>6. n <= k
      <4>1. SUFFICES ASSUME k < n PROVE FALSE
        BY <3>3, <3>5
      <4>2. n \in k + 1 .. Len(s)
        BY <4>1, <3>1, <3>3, <3>5
      <4>3. s[n] > e
        BY <4>2, <3>2 DEF Moved
      <4> QED BY <4>3, <3>3
    <3>7. n < k => s[n] < s[k]
      BY <3>1, <3>3, <3>5 DEF Sorted
    <3>8. s[k] = e /\ k <= Len(s)
      BY <3>3, <3>5, <3>6, <3>7
    <3> QED BY <3>4, <3>8 DEF k
  <2>13. Placed(j, {})
    BY <2>7, <2>10, EqualOn DEF Placed
  <2>14. ApartBut(j.size, On(j, "free"), e)
    <3>1. SUFFICES ASSUME NEW x \in On(j, "free"), NEW y \in On(j, "free"), x # e
                   PROVE  EndIn(j.size, x) # y
      BY DEF ApartBut
    <3>2. x \in On(h, "free") /\ (y = e \/ y \in On(h, "free"))
      BY <3>1, <2>11
    <3> QED BY <3>2, <2>2, <2>11, <1>0 DEF Apart
  <2>15. SizesOK(j.size) /\ e = cur(j, "free")
    BY <1>0, <2>11, <2>12
  <2>16. /\ HeapOK(g, {}) /\ Same(j, g, "free")
         /\ cur(g, "free") = e /\ g.it["free"] <= Len(g.list["free"])
    BY <2>1, <2>10, <2>12, <2>13, <2>14, <2>15, MergeNextOK
  <2>17. Same(h, g, "free")
    BY <2>11, <2>16 DEF Same
  <2> QED BY <2>16, <2>17 DEF Points, cur
<1> QED BY <1>3, <1>4

-----------------------------------------------------------------------------
(* Whole steps on a heap.                                                   *)
LEMMA InsertedHeap ==
  ASSUME NEW h, NEW e, HeapOK(h, {e}), NEW g, NEW l \in Lists, InsertedAt(h, g, l, e),
         l # "free" \/ Apart(h.size, On(h, "free") \cup {e})
  PROVE  HeapOK(g, {})
<1>1. Placed(g, {})
  BY InsertedPlaced DEF HeapOK
<1>2. ListsOK(g) /\ SizesOK(g.size) /\ g.size = h.size
  BY DEF InsertedAt, HeapOK
<1>3. Apart(g.size, On(g, "free"))
  <2>1. CASE l = "free"
    BY <2>1, <1>2 DEF InsertedAt
  <2>2. CASE l # "free"
    <3>1. "free" \in Lists /\ Same(h, g, l)
      BY DEF Lists, InsertedAt
    <3>2. On(g, "free") = On(h, "free")
      BY <2>2, <3>1, SameOn
    <3> QED BY <3>2, <1>2 DEF HeapOK
  <2> QED BY <2>1, <2>2
<1> QED BY <1>1, <1>2, <1>3 DEF HeapOK

LEMMA DropOK ==
  ASSUME NEW h, HeapOK(h, {}), NEW l \in Lists, ~AtEnd(h, l),
         NEW e, e = cur(h, l), NEW d, d = drop(h, l)
  PROVE  /\ HeapOK(d, {e}) /\ d.it = h.it /\ d.size = h.size /\ Same(h, d, l)
         /\ On(d, l) = On(h, l) \ {e} /\ e \in On(h, l)
         /\ Removes(h.list[l], h.it[l], d.list[l])
         /\ e \in Nat /\ e \in DOMAIN h.size
<1>0. ListsOK(h) /\ Placed(h, {}) /\ SizesOK(h.size) /\ Apart(h.size, On(h, "free"))
  BY DEF HeapOK
<1>1. h.it[l] \in 1 .. Len(h.list[l]) /\ h.it[l] <= Len(h.list[l])
  BY <1>0, ListIs DEF AtEnd
<1>2. d = [h EXCEPT !.list[l] = RemoveAt(h.list[l], h.it[l])]
  BY DEF drop
<1>3. /\ ListsOK(d) /\ d.it = h.it /\ d.size = h.size /\ Same(h, d, l)
      /\ On(d, l) = On(h, l) \ {h.list[l][h.it[l]]}
      /\ Removes(h.list[l], h.it[l], d.list[l])
  BY <1>0, <1>1, <1>2, DropIs
<1>4. e = h.list[l][h.it[l]]
  BY DEF cur
<1>5. e \in On(h, l) /\ e \in Nat
  BY <1>0, <1>1, <1>4, ListElem
<1>6. Placed(d, {e})
  BY <1>0, <1>3, <1>4, <1>5, TakenPlaced
<1>7. On(d, "free") \subseteq On(h, "free")
  <2>1. "free" \in Lists
    BY DEF Lists
  <2>2. CASE l = "free"
    BY <2>2, <1>3
  <2>3. CASE l # "free"
    BY <2>1, <2>3, <1>3, SameOn
  <2> QED BY <2>2, <2>3
<1>8. Apart(d.size, On(d, "free"))
  BY <1>0, <1>3, <1>7 DEF Apart
<1>9. e \in DOMAIN h.size
  BY <1>0, <1>5, PlacedIs
<1> QED BY <1>0, <1>3, <1>4, <1>5, <1>6, <1>8, <1>9 DEF HeapOK

SweptLists == {"local", "new", "global", "other"}

(* What the sweep still has to look at is behind e.                         *)
LEMMA RestBehind ==
  ASSUME NEW h, HeapOK(h, {}), NEW l \in Lists, ~AtEnd(h, l),
         NEW e, e = cur(h, l), NEW d, d = drop(h, l), NEW x \in Rest(d, l)
  PROVE  x \in Nat /\ x > e /\ x \in Rest(h, l)
<1> DEFINE s == h.list[l]
           i == h.it[l]
           t == d.list[l]
<1>1. Removes(s, i, t) /\ d.it[l] = i /\ ListsOK(h) /\ e = s[i]
  <2>1. Removes(h.list[l], h.it[l], d.list[l]) /\ d.it = h.it
    BY DropOK
  <2> QED BY <2>1 DEF HeapOK, cur
<1>2. s \in Seq(Nat) /\ Sorted(s) /\ Len(s) \in Nat /\ i \in 1 .. Len(s)
  BY <1>1, ListIs DEF AtEnd
<1>3. PICK j \in i .. Len(t) : x = t[j]
  BY <1>1 DEF Rest
<1> HIDE DEF s, i, t
<1>4. j + 1 \in i .. Len(s) /\ x = s[j + 1] /\ i < j + 1 /\ j + 1 \in 1 .. Len(s)
  BY <1>1, <1>2, <1>3 DEF Removes
<1>5. s[i] < s[j + 1] /\ s[i] \in Nat /\ s[j + 1] \in Nat
  BY <1>2, <1>4 DEF Sorted
<1>6. x \in Rest(h, l)
  BY <1>4 DEF Rest, s, i
<1> QED BY <1>1, <1>4, <1>5, <1>6

LEMMA SweepOn ==
  ASSUME NEW h, HeapOK(h, {}), NEW l \in SweptLists, SweepOK(h, l), ~AtEnd(h, l),
         NEW e \in Nat, e = cur(h, l), NEW d, d = drop(h, l), NEW t \in Targets(l),
         NEW g, ListsOK(g), Same(d, g, t), Points(g, t, e)
  PROVE  SweepOK(g, l)
<1>1. l \in Lists /\ t \in Lists /\ t # l /\ l \notin Targets(l) /\ "free" \in Lists
      /\ "free" # l /\ Targets(l) \subseteq Lists
  BY DEF Lists, SweptLists, Targets
<1>2. Same(h, d, l)
  BY <1>1, DropOK
<1>3. Rest(g, l) = Rest(d, l)
  BY <1>1, SameOn
<1>4. OnElement(h)
  BY DEF SweepOK
<1>5. OnElement(g)
  <2>1. CASE t = "free"
    BY <2>1 DEF OnElement, Points
  <2>2. CASE t # "free"
    <3>1. d.list["free"] = h.list["free"] /\ d.it["free"] = h.it["free"]
      BY <1>1, <1>2, SameOn
    <3>2. g.list["free"] = d.list["free"] /\ g.it["free"] = d.it["free"]
      BY <1>1, <2>2, SameOn
    <3> QED BY <3>1, <3>2, <1>4 DEF OnElement
  <2> QED BY <2>1, <2>2
<1>6. ASSUME NEW u \in Targets(l), NEW x \in Rest(g, l) PROVE Ready(g, u, x)
  <2>1. x \in Nat /\ x > e /\ x \in Rest(h, l)
    BY <1>1, <1>3, RestBehind
  <2>2. CASE u = t
    <3>1. g.it[t] <= Len(g.list[t]) /\ g.list[t][g.it[t]] <= e
      BY DEF Points
    <3>2. /\ g.list[t] \in Seq(Nat) /\ Len(g.list[t]) \in Nat
          /\ g.it[t] \in 1 .. Len(g.list[t]) + 1
      BY <1>1, ListIs
    <3>3. g.it[t] \in 1 .. Len(g.list[t])
      BY <3>1, <3>2
    <3>4. g.list[t][g.it[t]] \in Nat
      BY <3>2, <3>3
    <3>5. g.list[t][g.it[t]] <= x
      BY <3>1, <3>4, <2>1
    <3> QED BY <3>1, <3>5, <2>2 DEF Ready, Start
  <2>3. CASE u # t
    <3>1. Ready(h, u, x)
      BY <2>1 DEF SweepOK
    <3>2. u \in Lists /\ u # l
      BY <1>1
    <3>3. d.list[u] = h.list[u] /\ d.it[u] = h.it[u]
      BY <1>1, <1>2, <3>2, SameOn
    <3>4. g.list[u] = d.list[u] /\ g.it[u] = d.it[u]
      BY <1>1, <2>3, <3>2, SameOn
    <3> QED BY <3>1, <3>3, <3>4 DEF Ready
  <2> QED BY <2>2, <2>3
<1> QED BY <1>5, <1>6 DEF SweepOK

(* The element that the sweep takes is ready for where it goes.             *)
LEMMA TakenReady ==
  ASSUME NEW h, HeapOK(h, {}), NEW l \in SweptLists, SweepOK(h, l), ~AtEnd(h, l),
         NEW e, e = cur(h, l), NEW d, d = drop(h, l), NEW t \in Targets(l)
  PROVE  Ready(d, t, e) /\ OnElement(d)
<1>1. l \in Lists /\ t \in Lists /\ t # l /\ "free" \in Lists /\ "free" # l
  BY DEF Lists, SweptLists, Targets
<1>2. Same(h, d, l) /\ ListsOK(h)
  BY <1>1, DropOK DEF HeapOK
<1>3. e \in Rest(h, l)
  <2>1. h.it[l] \in h.it[l] .. Len(h.list[l])
    BY <1>1, <1>2, ListIs DEF AtEnd
  <2> QED BY <2>1 DEF Rest, cur
<1>4. Ready(h, t, e) /\ OnElement(h)
  BY <1>3 DEF SweepOK
<1>5. d.list[t] = h.list[t] /\ d.it[t] = h.it[t]
  BY <1>1, <1>2, SameOn
<1>6. d.list["free"] = h.list["free"] /\ d.it["free"] = h.it["free"]
  BY <1>1, <1>2, SameOn
<1> QED BY <1>4, <1>5, <1>6 DEF Ready, OnElement

LEMMA CollectOK ==
  ASSUME NEW h, HeapOK(h, {}), NEW l \in SweptLists, SweepOK(h, l), ~AtEnd(h, l),
         NEW e, e = cur(h, l), NEW g, g = merge(drop(h, l), "free", e)
  PROVE  HeapOK(g, {}) /\ SweepOK(g, l) /\ NonFree(g) = NonFree(h) \ {e}
<1> DEFINE d == drop(h, l)
<1>1. l \in Lists /\ "free" \in Lists /\ "free" # l /\ "free" \in Targets(l)
  BY DEF Lists, SweptLists, Targets
<1>2. /\ HeapOK(d, {e}) /\ Same(h, d, l) /\ On(d, l) = On(h, l) \ {e} /\ e \in On(h, l)
      /\ e \in Nat /\ Placed(h, {})
  BY <1>1, DropOK DEF HeapOK
<1>3. Ready(d, "free", e) /\ OnElement(d)
  BY <1>1, TakenReady
<1>4. g = merge(d, "free", e)
  OBVIOUS
<1>d. d = drop(h, l)
  OBVIOUS
<1> HIDE DEF d
<1>5. HeapOK(g, {}) /\ Same(d, g, "free") /\ Points(g, "free", e)
  BY <1>2, <1>3, <1>4, MergeOK
<1>6. ListsOK(g)
  BY <1>5 DEF HeapOK
<1>7. SweepOK(g, l)
  BY <1>1, <1>2, <1>5, <1>6, <1>d, SweepOn
<1>8. NonFree(d) = NonFree(h) \ {e}
  BY <1>1, <1>2, NonFreeTaken
<1>9. NonFree(g) = NonFree(d)
  BY <1>5, NonFreeSame
<1> QED BY <1>5, <1>7, <1>8, <1>9

LEMMA MoveToOK ==
  ASSUME NEW h, HeapOK(h, {}), NEW l \in SweptLists, SweepOK(h, l), ~AtEnd(h, l),
         NEW t \in Targets(l), t # "free", NEW g, g = insertAt(drop(h, l), t, cur(h, l))
  PROVE  HeapOK(g, {}) /\ SweepOK(g, l) /\ NonFree(g) = NonFree(h)
<1> DEFINE d == drop(h, l)
           e == cur(h, l)
<1>1. l \in Lists /\ t \in Lists /\ "free" # l
  BY DEF Lists, SweptLists, Targets
<1>2. /\ HeapOK(d, {e}) /\ Same(h, d, l) /\ On(d, l) = On(h, l) \ {e} /\ e \in On(h, l)
      /\ e \in Nat /\ Placed(h, {})
  BY <1>1, DropOK DEF HeapOK
<1>3. Ready(d, t, e)
  BY TakenReady
<1>4. g = insertAt(d, t, e) /\ d = drop(h, l) /\ e = cur(h, l)
  OBVIOUS
<1> HIDE DEF d, e
<1>5. ListsOK(d) /\ Placed(d, {e})
  BY <1>2 DEF HeapOK
<1>6. e \notin On(d, t)
  BY <1>1, <1>5, PlacedIs
<1>7. InsertedAt(d, g, t, e)
  BY <1>1, <1>2, <1>3, <1>4, <1>5, <1>6, InsertAtOK
<1>8. HeapOK(g, {})
  BY <1>1, <1>2, <1>7, InsertedHeap
<1>9. ListsOK(g) /\ Same(d, g, t) /\ Points(g, t, e) /\ On(g, t) = On(d, t) \cup {e}
  BY <1>7 DEF InsertedAt
<1>10. SweepOK(g, l)
  BY <1>2, <1>4, <1>9, SweepOn
<1>11. NonFree(d) = NonFree(h) \ {e}
  BY <1>1, <1>2, NonFreeTaken
<1>12. NonFree(g) = NonFree(d) \cup {e}
  BY <1>1, <1>9, NonFreePut
<1>13. e \in NonFree(h)
  BY <1>1, <1>2 DEF NonFree
<1> QED BY <1>8, <1>10, <1>11, <1>12, <1>13

(* Iterators that move over a heap.                                         *)
LEMMA SameLists ==
  ASSUME NEW h, HeapOK(h, {}), NEW g, ListsOK(g), g.list = h.list, g.size = h.size
  PROVE  HeapOK(g, {}) /\ NonFree(g) = NonFree(h)
<1>1. \A l : On(g, l) = On(h, l)
  BY DEF On
<1> QED BY <1>1 DEF HeapOK, Placed, NonFree

LEMMA KeepOK ==
  ASSUME NEW h, HeapOK(h, {}), NEW l \in Lists, ~AtEnd(h, l), NEW g, g = next(h, l)
  PROVE  /\ HeapOK(g, {}) /\ NonFree(g) = NonFree(h)
         /\ l \in SweptLists /\ SweepOK(h, l) => SweepOK(g, l)
         /\ \A x \in Rest(h, l) : x = cur(h, l) \/ x \in Rest(g, l)
<1>1. ListsOK(h)
  BY DEF HeapOK
<1>2. /\ ListsOK(g) /\ g.list = h.list /\ g.size = h.size
      /\ g.it[l] = h.it[l] + 1 /\ Same(h, g, l)
  BY <1>1, NextIs
<1>3. HeapOK(g, {}) /\ NonFree(g) = NonFree(h)
  BY <1>2, SameLists
<1>4. h.it[l] \in Nat /\ Len(h.list[l]) \in Nat
  BY <1>1, ListIs
<1>5. ASSUME l \in SweptLists, SweepOK(h, l) PROVE SweepOK(g, l)
  <2>1. "free" \in Lists /\ "free" # l /\ Targets(l) \subseteq Lists /\ l \notin Targets(l)
    BY <1>5 DEF Lists, SweptLists, Targets
  <2>2. g.list["free"] = h.list["free"] /\ g.it["free"] = h.it["free"]
    BY <2>1, <1>2, SameOn
  <2>3. OnElement(g)
    BY <2>2, <1>5 DEF OnElement, SweepOK
  <2>4. Rest(g, l) \subseteq Rest(h, l)
    <3>1. h.it[l] + 1 .. Len(h.list[l]) \subseteq h.it[l] .. Len(h.list[l])
      BY <1>4
    <3> QED BY <3>1, <1>2 DEF Rest
  <2>5. ASSUME NEW u \in Targets(l), NEW x \in Rest(g, l) PROVE Ready(g, u, x)
    <3>1. Ready(h, u, x)
      BY <2>4, <2>5, <1>5 DEF SweepOK
    <3>2. u \in Lists /\ u # l
      BY <2>1
    <3>3. g.list[u] = h.list[u] /\ g.it[u] = h.it[u]
      BY <3>2, <1>2, SameOn
    <3> QED BY <3>1, <3>3 DEF Ready
  <2> QED BY <2>3, <2>5 DEF SweepOK
<1>6. ASSUME NEW x \in Rest(h, l), x # cur(h, l) PROVE x \in Rest(g, l)
  <2>1. PICK j \in h.it[l] .. Len(h.list[l]) : x = h.list[l][j]
    BY DEF Rest
  <2>2. j # h.it[l]
    BY <2>1, <1>6 DEF cur
  <2>3. j \in h.it[l] + 1 .. Len(h.list[l])
    BY <2>1, <2>2, <1>4
  <2> QED BY <2>1, <2>3, <1>2 DEF Rest
<1> QED BY <1>3, <1>5, <1>6

(* Iterator::use cuts an element, and AllocMB adds one.                     *)
LEMMA CutHeap ==
  ASSUME NEW h, HeapOK(h, {}), NEW e \in On(h, "free"), NEW s \in Nat,
         h.size[e] - s > MinSplit, NEW c, c = EndIn(h.size, e) - s - HeaderSize,
         NEW z, z = With([h.size EXCEPT ![e] = @ - s - HeaderSize], c, s),
         NEW g, g = [h EXCEPT !.size = z]
  PROVE  HeapOK(g, {c}) /\ c \in Nat /\ NonFree(g) = NonFree(h)
<1>0. /\ "free" \in Lists /\ ListsOK(h) /\ Placed(h, {}) /\ SizesOK(h.size)
      /\ Apart(h.size, On(h, "free"))
  BY DEF Lists, HeapOK
<1>1. e \in DOMAIN h.size
  BY <1>0, PlacedIs
<1>2. /\ SizesOK(z) /\ c \notin DOMAIN h.size /\ DOMAIN z = DOMAIN h.size \cup {c}
      /\ EndIn(z, e) = c /\ EndIn(z, c) = EndIn(h.size, e)
      /\ \A x \in DOMAIN h.size : x # e => EndIn(z, x) = EndIn(h.size, x)
  BY <1>0, <1>1, CutOK
<1>3. ListsOK(g) /\ g.list = h.list /\ g.it = h.it /\ g.size = z
  BY <1>0, SetSize
<1>4. Placed(g, {c})
  BY <1>0, <1>2, <1>3, NewPlaced
<1>5. \A l : On(g, l) = On(h, l)
  BY <1>3 DEF On
<1>6. Apart(g.size, On(g, "free"))
  <2>1. SUFFICES ASSUME NEW x \in On(h, "free"), NEW y \in On(h, "free")
                 PROVE  EndIn(z, x) # y
    BY <1>3, <1>5 DEF Apart
  <2>2. x \in DOMAIN h.size /\ y \in DOMAIN h.size
    BY <1>0, PlacedIs
  <2>3. CASE x = e
    BY <2>2, <2>3, <1>2
  <2>4. CASE x # e
    BY <2>2, <2>4, <1>0, <1>2 DEF Apart
  <2> QED BY <2>3, <2>4
<1>7. c \in Nat
  BY <1>2 DEF SizesOK
<1> QED BY <1>2, <1>3, <1>4, <1>5, <1>6, <1>7 DEF HeapOK, NonFree

LEMMA AddedHeap ==
  ASSUME NEW h, HeapOK(h, {}), NEW m \in MacroBlocks, m \notin DOMAIN h.size,
         NEW f, f = [h EXCEPT !.size = With(h.size, m, BlockSize)],
         NEW g, g = insert(f, "free", m)
  PROVE  /\ HeapOK(g, {}) /\ NonFree(g) = NonFree(h)
         /\ m \in Rest(g, "free") /\ g.size[m] = BlockSize
<1> DEFINE z == With(h.size, m, BlockSize)
<1>0. /\ "free" \in Lists /\ ListsOK(h) /\ Placed(h, {}) /\ SizesOK(h.size)
      /\ Apart(h.size, On(h, "free"))
  BY DEF Lists, HeapOK
<1>1. /\ SizesOK(z) /\ DOMAIN z = DOMAIN h.size \cup {m} /\ m \in Nat
      /\ z[m] = BlockSize
      /\ \A x \in DOMAIN h.size : /\ EndIn(z, x) = EndIn(h.size, x)
                                  /\ EndIn(z, x) # m /\ EndIn(z, m) # x
  BY <1>0, BlockOK
<1>2. f = [h EXCEPT !.size = z]
  OBVIOUS
<1> HIDE DEF z
<1>3. ListsOK(f) /\ f.list = h.list /\ f.it = h.it /\ f.size = z
  BY <1>0, <1>2, SetSize
<1>4. Placed(f, {m})
  BY <1>0, <1>1, <1>3, NewPlaced
<1>5. \A l : On(f, l) = On(h, l)
  BY <1>3 DEF On
<1>6. m < EndIn(z, m)
  BY <1>1, ElemIs
<1>7. Apart(f.size, On(f, "free") \cup {m})
  <2>1. SUFFICES ASSUME NEW x \in On(h, "free") \cup {m}, NEW y \in On(h, "free") \cup {m}
                 PROVE  EndIn(z, x) # y
    BY <1>3, <1>5 DEF Apart
  <2>2. \A w \in On(h, "free") : w \in DOMAIN h.size
    BY <1>0, PlacedIs
  <2>3. CASE x = m /\ y = m
    BY <2>3, <1>6, <1>1
  <2>4. CASE x = m /\ y \in On(h, "free")
    BY <2>2, <2>4, <1>1
  <2>5. CASE x \in On(h, "free") /\ y = m
    BY <2>2, <2>5, <1>1
  <2>6. CASE x \in On(h, "free") /\ y \in On(h, "free")
    BY <2>2, <2>6, <1>0, <1>1 DEF Apart
  <2> QED BY <2>3, <2>4, <2>5, <2>6
<1>8. HeapOK(f, {m})
  <2>1. Apart(f.size, On(f, "free"))
    BY <1>7 DEF Apart
  <2> QED BY <2>1, <1>1, <1>3, <1>4 DEF HeapOK
<1>9. m \notin On(f, "free")
  BY <1>0, <1>4, PlacedIs
<1>10. InsertedAt(f, g, "free", m)
  BY <1>0, <1>1, <1>3, <1>9, InsertOK
<1>11. HeapOK(g, {})
  BY <1>0, <1>7, <1>8, <1>10, InsertedHeap
<1>12. /\ ListsOK(g) /\ g.size = z /\ Same(f, g, "free")
       /\ On(g, "free") = On(f, "free") \cup {m} /\ Points(g, "free", m)
  BY <1>3, <1>10 DEF InsertedAt
<1>13. NonFree(g) = NonFree(h)
  <2>1. NonFree(g) = NonFree(f)
    BY <1>12, NonFreeSame
  <2> QED BY <2>1, <1>5 DEF NonFree
<1>14. m \in Rest(g, "free")
  <2> DEFINE s == g.list["free"]
             i == g.it["free"]
  <2>1. /\ s \in Seq(Nat) /\ Sorted(s) /\ Len(s) \in Nat /\ i \in 1 .. Len(s)
        /\ s[i] <= m
    BY <1>0, <1>12, ListIs DEF Points
  <2>2. PICK j \in 1 .. Len(s) : s[j] = m
    BY <1>0, <1>12, OnIs
  <2> HIDE DEF s, i
  <2>3. i <= j
    <3>1. SUFFICES ASSUME j < i PROVE FALSE
      BY <2>1, <2>2
    <3>2. s[j] < s[i] /\ s[i] \in Nat /\ s[j] \in Nat
      BY <3>1, <2>1, <2>2 DEF Sorted
    <3> QED BY <3>2, <2>1, <2>2
  <2>4. j \in i .. Len(s)
    BY <2>1, <2>2, <2>3
  <2> QED BY <2>2, <2>4 DEF Rest, s, i
<1> QED BY <1>1, <1>11, <1>12, <1>13, <1>14

-----------------------------------------------------------------------------
(* The steps of the worker.                                                 *)
LEMMA HeapType ==
  ASSUME NEW h, HeapOK(h, {})
  PROVE  /\ DOMAIN h.size \subseteq Nat /\ h.size \in [DOMAIN h.size -> Nat]
         /\ h.list \in [Lists -> Seq(DOMAIN h.size)] /\ h.it \in [Lists -> Nat]
<1>1. ListsOK(h) /\ Placed(h, {}) /\ SizesOK(h.size)
  BY DEF HeapOK
<1>2. ASSUME NEW l \in Lists PROVE h.list[l] \in Seq(DOMAIN h.size)
  <2>1. h.list[l] \in Seq(Nat)
    BY <1>1, ListIs
  <2>2. \A i \in 1 .. Len(h.list[l]) : h.list[l][i] \in On(h, l)
    BY <1>1, ListElem
  <2>3. \A i \in 1 .. Len(h.list[l]) : h.list[l][i] \in DOMAIN h.size
    BY <1>1, <2>2, PlacedIs
  <2> QED BY <2>1, <2>3
<1>3. h.list \in [Lists -> Seq(Nat)] /\ h.it \in [Lists -> Nat]
  BY <1>1 DEF ListsOK
<1> QED BY <1>1, <1>2, <1>3 DEF SizesOK

Kept ==
  /\ HeapOK(Heap, {}) /\ SizesOK(m_size)
  /\ Heap.list = list /\ Heap.it = it /\ Heap.size = m_size
  /\ kind \in [NonFree(Heap) -> Kinds]
  /\ WorkerTypeOK /\ WantOK /\ SweptOK

LEMMA KeptIs ==
  ASSUME IInv
  PROVE  Kept
<1>1. Heap.list = list /\ Heap.it = it /\ Heap.size = m_size
  BY DEF Heap
<1>2. HeapOK(Heap, {}) /\ TypeOK /\ WantOK /\ SweptOK
  BY DEF IInv
<1>3. Placed(Heap, {}) /\ SizesOK(m_size)
  BY <1>1, <1>2 DEF HeapOK
<1>4. Elems \ Range(list["free"]) = NonFree(Heap)
  BY <1>1, <1>3, NonFreeIs DEF Elems, On
<1> QED BY <1>1, <1>2, <1>3, <1>4 DEF Kept, TypeOK

LEMMA StepTo ==
  ASSUME NEW g, HeapOK(g, {}), SetHeap(g), kind' \in [NonFree(g) -> Kinds], WorkerTypeOK',
         WantOK', pc' = "sweep" => gc'.from # "none" /\ gc'.swept # "none" /\ SweepOK(g, gc'.swept)
  PROVE  IInv'
<1>1. list' = g.list /\ it' = g.it /\ m_size' = g.size
  BY DEF SetHeap
<1>2. Heap' = g
  <2>1. g = [list |-> g.list, it |-> g.it, size |-> g.size]
    BY DEF HeapOK, ListsOK
  <2> QED BY <2>1, <1>1 DEF Heap
<1>3. HeapOK(Heap, {})'
  BY <1>2
<1>4. HeapTypeOK'
  BY <1>1, HeapType DEF HeapTypeOK
<1>5. (Elems \ Range(list["free"]))' = NonFree(g)
  <2>1. Placed(g, {})
    BY DEF HeapOK
  <2> QED BY <2>1, <1>1, NonFreeIs DEF Elems, On
<1>6. TypeOK'
  BY <1>4, <1>5 DEF TypeOK
<1>7. SweptOK'
  BY <1>2 DEF SweptOK
<1> QED BY <1>3, <1>6, <1>7 DEF IInv

LEMMA HeapStays ==
  ASSUME NEW g, ListsOK(g), g.list = list, g.it = it, g.size = m_size,
         UNCHANGED <<m_size, list, it>>
  PROVE  SetHeap(g)
BY DEF SetHeap

(* A worker that needs no macroblock yet.                                   *)
LEMMA NoBlocks ==
  ASSUME Kept, pc # "alloc" \/ AtEnd(Heap, "free")
  PROVE  want.blocks = 0
<1>1. SUFFICES ASSUME pc = "alloc", AtEnd(Heap, "free"), Serves PROVE FALSE
  BY DEF Kept, WantOK
<1>2. "free" \in Lists /\ ListsOK(Heap)
  BY DEF Lists, Kept, HeapOK
<1>3. PICK i \in Heap.it["free"] .. Len(Heap.list["free"]) : TRUE
  BY <1>1 DEF Serves, Rest
<1>4. Heap.it["free"] \in Nat /\ Len(Heap.list["free"]) \in Nat
  BY <1>2, ListIs
<1> QED BY <1>1, <1>3, <1>4 DEF AtEnd

LEMMA WantStays ==
  ASSUME Kept, want.blocks = 0, want' = want
  PROVE  WantOK'
BY DEF Kept, WantOK

LEMMA DoAlloc ==
  ASSUME IInv, NEW s \in Sizes, NEW of \in {"term", "other"}, Alloc(s, of)
  PROVE  IInv'
<1>1. Kept
  BY KeptIs
<1>2. HeapOK(Heap, {}) /\ ListsOK(Heap) /\ Heap.list = list /\ Heap.it = it
      /\ Heap.size = m_size
  BY <1>1 DEF Kept, HeapOK
<1>3. SetHeap(Heap)
  BY <1>2, HeapStays DEF Alloc
<1>4. s \in Nat /\ s <= BlockSize
  BY ConstantsAre
<1>5. want' = [size |-> s, of |-> of, blocks |-> 0] /\ pc' = "alloc" /\ gc' = gc /\ kind' = kind
  BY DEF Alloc
<1>6. WantOK'
  BY <1>4, <1>5 DEF WantOK
<1>7. WorkerTypeOK'
  BY <1>1, <1>4, <1>5 DEF Kept, WorkerTypeOK
<1> QED BY <1>1, <1>2, <1>3, <1>5, <1>6, <1>7, StepTo DEF Kept

LEMMA DoSkip ==
  ASSUME IInv, Skip
  PROVE  IInv'
<1> DEFINE g == next(Heap, "free")
<1>1. Kept
  BY KeptIs
<1>2. /\ pc = "alloc" /\ ~AtEnd(Heap, "free") /\ m_size[cur(Heap, "free")] < want.size
      /\ SetHeap(g) /\ kind' = kind /\ pc' = pc /\ want' = want /\ gc' = gc
  BY DEF Skip, Looking, Candidate
<1>3. HeapOK(Heap, {}) /\ "free" \in Lists /\ Heap.size = m_size
  BY <1>1 DEF Kept, Lists
<1>4. /\ HeapOK(g, {}) /\ NonFree(g) = NonFree(Heap)
      /\ \A x \in Rest(Heap, "free") : x = cur(Heap, "free") \/ x \in Rest(g, "free")
  BY <1>2, <1>3, KeepOK
<1>5. ListsOK(Heap)
  BY <1>3 DEF HeapOK
<1>6. g.size = m_size
  BY <1>2, <1>3, <1>5, NextIs
<1> HIDE DEF g
<1>7. Serves => Serves'
  <2>1. SUFFICES ASSUME NEW x \in Rest(Heap, "free"), m_size[x] >= want.size PROVE Serves'
    BY DEF Serves
  <2>2. x = cur(Heap, "free") \/ x \in Rest(g, "free")
    BY <1>4
  <2>3. x # cur(Heap, "free")
    <3>1. x \in Elems
      <4>1. x \in On(Heap, "free")
        <5>1. PICK i \in Heap.it["free"] .. Len(Heap.list["free"]) : x = Heap.list["free"][i]
          BY DEF Rest
        <5>2. i \in 1 .. Len(Heap.list["free"])
          BY <5>1, <1>3, <1>5, ListIs
        <5> QED BY <5>1, <5>2, <1>3, <1>5, ListElem
      <4>2. Placed(Heap, {})
        BY <1>3 DEF HeapOK
      <4> QED BY <4>1, <4>2, <1>3, PlacedIs DEF Elems
    <3>2. m_size[x] \in Nat /\ want.size \in Nat
      BY <3>1, <1>1 DEF Kept, SizesOK, WorkerTypeOK, Elems
    <3> QED BY <3>2, <2>1, <1>2
  <2>4. Heap' = g
    <3>1. g = [list |-> g.list, it |-> g.it, size |-> g.size]
      BY <1>4 DEF HeapOK, ListsOK
    <3> QED BY <3>1, <1>2 DEF Heap, SetHeap
  <2>5. m_size' = m_size
    BY <1>2, <1>6 DEF SetHeap
  <2> QED BY <2>1, <2>2, <2>3, <2>4, <2>5, <1>2 DEF Serves
<1>8. WantOK'
  BY <1>1, <1>2, <1>7 DEF Kept, WantOK
<1>9. WorkerTypeOK'
  BY <1>1, <1>2 DEF Kept, WorkerTypeOK
<1> QED BY <1>1, <1>2, <1>4, <1>8, <1>9, StepTo DEF Kept

(* What Iterator::use returns is on no list.                                *)
LEMMA TakeIs ==
  ASSUME Kept, ~AtEnd(Heap, "free"), NEW s \in Nat, m_size[Candidate] >= s,
         NEW u, u = Take(Candidate, s)
  PROVE  /\ HeapOK(u.heap, {u.elem}) /\ u.elem \in Nat
         /\ NonFree(u.heap) = NonFree(Heap)
<1> DEFINE e == Candidate
<1>1. HeapOK(Heap, {}) /\ "free" \in Lists /\ Heap.size = m_size
  BY DEF Kept, Lists
<1>2. e = cur(Heap, "free")
  BY DEF Candidate
<1>3. e \in On(Heap, "free")
  BY <1>1, <1>2, DropOK
<1>4. CASE Splits(e, s)
  <2> DEFINE c == End(e) - s - HeaderSize
             z == With([m_size EXCEPT ![e] = @ - s - HeaderSize], c, s)
             g == [Heap EXCEPT !.size = z]
  <2>1. u.heap = g /\ u.elem = c
    BY <1>4 DEF Take, Cut
  <2>2. c = EndIn(Heap.size, e) - s - HeaderSize
    BY <1>1 DEF End, EndIn
  <2>3. Heap.size[e] - s > MinSplit
    BY <1>1, <1>4 DEF Splits
  <2>4. z = With([Heap.size EXCEPT ![e] = @ - s - HeaderSize], c, s) /\ g = [Heap EXCEPT !.size = z]
    BY <1>1
  <2> HIDE DEF c, z, g, e
  <2>5. HeapOK(g, {c}) /\ c \in Nat /\ NonFree(g) = NonFree(Heap)
    BY <1>1, <1>3, <2>2, <2>3, <2>4, CutHeap
  <2> QED BY <2>1, <2>5
<1>5. CASE ~Splits(e, s)
  <2> DEFINE g == drop(Heap, "free")
  <2>1. u.heap = g /\ u.elem = e
    BY <1>5 DEF Take
  <2>2. HeapOK(g, {e}) /\ Same(Heap, g, "free") /\ e \in Nat
    BY <1>1, <1>2, DropOK
  <2>3. NonFree(g) = NonFree(Heap)
    BY <2>2, NonFreeSame
  <2> QED BY <2>1, <2>2, <2>3
<1> QED BY <1>4, <1>5

LEMMA DoUse ==
  ASSUME IInv, Use
  PROVE  IInv'
<1> DEFINE u == Take(Candidate, want.size)
           is == IF want.of = "term" THEN [list |-> "new", kind |-> "unborn"]
                                     ELSE [list |-> "other", kind |-> "other"]
           g == insert(u.heap, is.list, u.elem)
<1>1. Kept
  BY KeptIs
<1>2. /\ ~AtEnd(Heap, "free") /\ m_size[Candidate] >= want.size
      /\ SetHeap(g) /\ kind' = With(kind, u.elem, is.kind) /\ pc' = "run" /\ want' = Nothing
      /\ gc' = gc
  BY DEF Use, Looking
<1>3. want.size \in Nat
  BY <1>1 DEF Kept, WorkerTypeOK
<1>4. HeapOK(u.heap, {u.elem}) /\ u.elem \in Nat /\ NonFree(u.heap) = NonFree(Heap)
  BY <1>1, <1>2, <1>3, TakeIs
<1>5. is.list \in Lists /\ is.list # "free" /\ is.kind \in Kinds
  BY DEF Lists, Kinds
<1> HIDE DEF u, is
<1>6. ListsOK(u.heap) /\ Placed(u.heap, {u.elem})
  BY <1>4 DEF HeapOK
<1>7. u.elem \notin On(u.heap, is.list)
  BY <1>5, <1>6, PlacedIs
<1>8. InsertedAt(u.heap, g, is.list, u.elem)
  BY <1>4, <1>5, <1>6, <1>7, InsertOK
<1> HIDE DEF g
<1>9. HeapOK(g, {})
  BY <1>4, <1>5, <1>8, InsertedHeap
<1>10. Same(u.heap, g, is.list) /\ On(g, is.list) = On(u.heap, is.list) \cup {u.elem}
  BY <1>8 DEF InsertedAt
<1>11. NonFree(g) = NonFree(Heap) \cup {u.elem}
  BY <1>4, <1>5, <1>10, NonFreePut
<1>12. kind' \in [NonFree(g) -> Kinds]
  BY <1>1, <1>2, <1>5, <1>11 DEF Kept, With
<1>13. WantOK' /\ WorkerTypeOK'
  BY <1>1, <1>2, ConstantsAre DEF Kept, WantOK, WorkerTypeOK, Nothing
<1> QED BY <1>2, <1>9, <1>12, <1>13, StepTo

LEMMA DoBirth ==
  ASSUME IInv, NEW e \in Elems, Born(e) \/ FreeOther(e)
  PROVE  IInv'
<1>1. Kept
  BY KeptIs
<1>2. HeapOK(Heap, {}) /\ ListsOK(Heap) /\ Heap.list = list /\ Heap.it = it
      /\ Heap.size = m_size
  BY <1>1 DEF Kept, HeapOK
<1>3. /\ UNCHANGED <<m_size, list, it>> /\ pc' = pc /\ want' = want /\ gc' = gc /\ pc = "run"
      /\ \E k \in {"local", "global", "freed"} : kind' = [kind EXCEPT ![e] = k]
  BY DEF Born, FreeOther
<1>4. SetHeap(Heap)
  BY <1>2, <1>3, HeapStays
<1>5. kind' \in [NonFree(Heap) -> Kinds]
  BY <1>1, <1>3 DEF Kept, Kinds
<1>6. want.blocks = 0
  BY <1>1, <1>3, NoBlocks
<1>7. WantOK'
  BY <1>1, <1>3, <1>6, WantStays
<1>8. WorkerTypeOK'
  BY <1>1, <1>3 DEF Kept, WorkerTypeOK
<1> QED BY <1>1, <1>2, <1>3, <1>4, <1>5, <1>7, <1>8, StepTo DEF Kept

-----------------------------------------------------------------------------
(* The collection.                                                          *)
LEMMA DoBegin ==
  ASSUME IInv, pc # "alloc" \/ AtEnd(Heap, "free"), NEW local \in BOOLEAN,
         NEW from \in {"run", "inspect", "alloc", "trigger"}, BeginGC(local, from)
  PROVE  IInv'
<1> DEFINE f == iterate(Heap, "local")
           g == iterate(f, "free")
<1>1. Kept
  BY KeptIs
<1>2. /\ gc' = [only_local |-> local, from |-> from, swept |-> "local", total_free |-> 0]
      /\ SetHeap(g) /\ pc' = "sweep" /\ kind' = kind /\ want' = want
  BY DEF BeginGC
<1>3. HeapOK(Heap, {}) /\ ListsOK(Heap) /\ "free" \in Lists /\ "local" \in Lists
  BY <1>1 DEF Kept, HeapOK, Lists
<1>4. ListsOK(f) /\ f.list = Heap.list /\ f.size = Heap.size
  BY <1>3, IterateIs
<1>f. g = iterate(f, "free")
  OBVIOUS
<1> HIDE DEF f, g
<1>5. ListsOK(g) /\ g.list = f.list /\ g.size = f.size /\ g.it["free"] = 1
  BY <1>3, <1>4, <1>f, IterateIs
<1>6. HeapOK(g, {}) /\ NonFree(g) = NonFree(Heap)
  BY <1>3, <1>4, <1>5, SameLists
<1>7. SweepOK(g, "local")
  <2>1. OnElement(g)
    <3>1. g.list["free"] \in Seq(Nat)
      BY <1>3, <1>5, ListIs
    <3> QED BY <3>1, <1>5 DEF OnElement
  <2>2. Targets("local") = {"free"}
    BY DEF Targets
  <2> QED BY <2>1, <2>2, <1>5 DEF SweepOK, Ready, Start
<1>8. want.blocks = 0
  BY <1>1, NoBlocks
<1>9. WantOK'
  BY <1>1, <1>2, <1>8, WantStays
<1>10. WorkerTypeOK'
  BY <1>1, <1>2 DEF Kept, WorkerTypeOK
<1> QED BY <1>1, <1>2, <1>6, <1>7, <1>9, <1>10, StepTo DEF Kept

LEMMA DoNothing ==
  ASSUME IInv, pc # "alloc" \/ AtEnd(Heap, "free"), pc' \in {"alloc_mb", "error"},
         UNCHANGED <<m_size, list, it, kind, want, gc>>
  PROVE  IInv'
<1>1. Kept
  BY KeptIs
<1>2. HeapOK(Heap, {}) /\ ListsOK(Heap) /\ Heap.list = list /\ Heap.it = it
      /\ Heap.size = m_size
  BY <1>1 DEF Kept, HeapOK
<1>3. SetHeap(Heap)
  BY <1>2, HeapStays
<1>4. want.blocks = 0
  BY <1>1, NoBlocks
<1>5. WantOK'
  BY <1>1, <1>4, WantStays
<1>6. WorkerTypeOK'
  BY <1>1 DEF Kept, WorkerTypeOK
<1> QED BY <1>1, <1>2, <1>3, <1>5, <1>6, StepTo DEF Kept

LEMMA DoAllocMB ==
  ASSUME IInv, AllocMB
  PROVE  IInv'
<1>1. Kept
  BY KeptIs
<1>2. PICK m \in MacroBlocks \ Elems : SetHeap(AddMB(m))
  BY DEF AllocMB
<1>3. /\ pc = "alloc_mb" /\ want' = [want EXCEPT !.blocks = @ + 1] /\ pc' = "alloc"
      /\ kind' = kind /\ gc' = gc
  BY DEF AllocMB
<1> DEFINE f == [Heap EXCEPT !.size = With(Heap.size, m, BlockSize)]
           g == insert(f, "free", m)
<1>4. HeapOK(Heap, {}) /\ Heap.size = m_size
  BY <1>1 DEF Kept
<1>5. SetHeap(g) /\ m \notin DOMAIN Heap.size
  BY <1>2, <1>4 DEF AddMB, Elems
<1>6. /\ HeapOK(g, {}) /\ NonFree(g) = NonFree(Heap)
      /\ m \in Rest(g, "free") /\ g.size[m] = BlockSize
  BY <1>2, <1>4, <1>5, AddedHeap
<1> HIDE DEF f, g
<1>7. want.blocks = 0
  BY <1>1, <1>3, NoBlocks
<1>8. want \in [size : Nat, of : {"term", "other"}, blocks : Nat] /\ want.size <= BlockSize
  BY <1>1 DEF Kept, WorkerTypeOK, WantOK
<1>9. /\ want'.blocks = 1 /\ want'.size = want.size
      /\ want' \in [size : Nat, of : {"term", "other"}, blocks : Nat]
  BY <1>3, <1>7, <1>8
<1>10. Heap' = g /\ m_size' = g.size
  <2>1. g = [list |-> g.list, it |-> g.it, size |-> g.size]
    BY <1>6 DEF HeapOK, ListsOK
  <2> QED BY <2>1, <1>5 DEF Heap, SetHeap
<1>11. Serves'
  <2>1. g.size[m] >= want.size
    BY <1>6, <1>8, ConstantsAre
  <2> QED BY <2>1, <1>6, <1>9, <1>10 DEF Serves
<1>12. WantOK'
  BY <1>3, <1>8, <1>9, <1>11 DEF WantOK
<1>13. WorkerTypeOK'
  BY <1>1, <1>3, <1>9 DEF Kept, WorkerTypeOK
<1> QED BY <1>1, <1>3, <1>5, <1>6, <1>12, <1>13, StepTo DEF Kept

(* A step of a sweep.                                                       *)
SweepStarts(l) ==
  /\ Kept /\ want.blocks = 0 /\ pc = "sweep" /\ gc.swept = l /\ gc.from # "none"
  /\ HeapOK(Heap, {}) /\ SweepOK(Heap, l) /\ ~AtEnd(Heap, l)

LEMMA SweepStartsIs ==
  ASSUME IInv, NEW l \in SweptLists, Sweeping(l)
  PROVE  SweepStarts(l)
<1>1. Kept
  BY KeptIs
<1>2. pc = "sweep" /\ gc.swept = l /\ ~AtEnd(Heap, l)
  BY DEF Sweeping
<1>3. want.blocks = 0
  BY <1>1, <1>2, NoBlocks
<1>4. gc.from # "none" /\ SweepOK(Heap, l) /\ HeapOK(Heap, {})
  BY <1>1, <1>2 DEF Kept, SweptOK
<1> QED BY <1>1, <1>2, <1>3, <1>4 DEF SweepStarts

LEMMA SweepTo ==
  ASSUME NEW l \in SweptLists, SweepStarts(l), NEW g, HeapOK(g, {}), SweepOK(g, l), SetHeap(g),
         kind' \in [NonFree(g) -> Kinds], pc' = pc, want' = want,
         gc'.from = gc.from, gc'.swept = gc.swept, WorkerTypeOK'
  PROVE  IInv'
<1>1. WantOK'
  BY WantStays DEF SweepStarts
<1>2. gc'.from # "none" /\ gc'.swept = l /\ gc'.swept # "none"
  BY DEF SweepStarts, SweptLists
<1> QED BY <1>1, <1>2, StepTo

LEMMA DoKeep ==
  ASSUME NEW l \in SweptLists, SweepStarts(l), Keep(l)
  PROVE  IInv'
<1> DEFINE g == next(Heap, l)
<1>1. l \in Lists /\ HeapOK(Heap, {}) /\ SweepOK(Heap, l) /\ ~AtEnd(Heap, l) /\ Kept
  BY DEF SweptLists, Lists, SweepStarts
<1>2. HeapOK(g, {}) /\ NonFree(g) = NonFree(Heap) /\ SweepOK(g, l)
  BY <1>1, KeepOK
<1> HIDE DEF g
<1>3. SetHeap(g) /\ kind' = kind /\ pc' = pc /\ want' = want /\ gc' = gc
  BY DEF Keep, g
<1>4. WorkerTypeOK' /\ kind' \in [NonFree(g) -> Kinds]
  BY <1>1, <1>2, <1>3 DEF Kept, WorkerTypeOK
<1> QED BY <1>2, <1>3, <1>4, SweepTo

LEMMA DoCollect ==
  ASSUME NEW l \in SweptLists, SweepStarts(l), Collect(l)
  PROVE  IInv'
<1> DEFINE e == cur(Heap, l)
           g == merge(drop(Heap, l), "free", e)
<1>1. /\ l \in Lists /\ HeapOK(Heap, {}) /\ SweepOK(Heap, l) /\ ~AtEnd(Heap, l) /\ Kept
      /\ Heap.size = m_size
  BY DEF SweptLists, Lists, SweepStarts, Kept
<1>2. HeapOK(g, {}) /\ SweepOK(g, l) /\ NonFree(g) = NonFree(Heap) \ {e}
  BY <1>1, CollectOK
<1>3. m_size[e] \in Nat
  <2>1. e \in DOMAIN Heap.size
    BY <1>1, DropOK
  <2> QED BY <2>1, <1>1 DEF Kept, SizesOK
<1>4. /\ SetHeap(g) /\ kind' = [x \in DOMAIN kind \ {e} |-> kind[x]]
      /\ gc' = [gc EXCEPT !.total_free = @ + m_size[e]] /\ pc' = pc /\ want' = want
  BY DEF Collect
<1> HIDE DEF g, e
<1>5. kind' \in [NonFree(g) -> Kinds]
  BY <1>1, <1>2, <1>4 DEF Kept
<1>6. WorkerTypeOK
  BY <1>1 DEF Kept
<1>7. WorkerTypeOK' /\ gc'.from = gc.from /\ gc'.swept = gc.swept
  BY <1>3, <1>4, <1>6 DEF WorkerTypeOK
<1> QED BY <1>2, <1>4, <1>5, <1>7, SweepTo

LEMMA DoMoveTo ==
  ASSUME NEW l \in SweptLists, SweepStarts(l), NEW to \in Targets(l), to # "free", MoveTo(l, to)
  PROVE  IInv'
<1> DEFINE g == insertAt(drop(Heap, l), to, cur(Heap, l))
<1>1. l \in Lists /\ HeapOK(Heap, {}) /\ SweepOK(Heap, l) /\ ~AtEnd(Heap, l) /\ Kept
  BY DEF SweptLists, Lists, SweepStarts
<1>2. HeapOK(g, {}) /\ NonFree(g) = NonFree(Heap) /\ SweepOK(g, l)
  BY <1>1, MoveToOK
<1>3. SetHeap(g) /\ kind' = kind /\ pc' = pc /\ want' = want /\ gc' = gc
  BY DEF MoveTo
<1> HIDE DEF g
<1>4. WorkerTypeOK' /\ kind' \in [NonFree(g) -> Kinds]
  BY <1>1, <1>2, <1>3 DEF Kept, WorkerTypeOK
<1> QED BY <1>2, <1>3, <1>4, SweepTo

LEMMA DoSweep ==
  ASSUME IInv, SweepLocal \/ SweepNew \/ SweepGlobal \/ SweepOther
  PROVE  IInv'
<1>1. CASE SweepLocal
  BY <1>1, SweepStartsIs, DoKeep, DoCollect DEF SweepLocal, SweptLists
<1>2. CASE SweepNew
  <2>1. SweepStarts("new")
    BY <1>2, SweepStartsIs DEF SweepNew, SweptLists
  <2>2. "local" \in Targets("new") /\ "global" \in Targets("new") /\ "new" \in SweptLists
    BY DEF Targets, SweptLists
  <2>3. Keep("new") \/ MoveTo("new", "global") \/ MoveTo("new", "local") \/ Collect("new")
    BY <1>2 DEF SweepNew
  <2> QED BY <2>1, <2>2, <2>3, DoKeep, DoCollect, DoMoveTo
<1>3. CASE SweepGlobal
  BY <1>3, SweepStartsIs, DoKeep, DoCollect DEF SweepGlobal, SweptLists
<1>4. CASE SweepOther
  BY <1>4, SweepStartsIs, DoKeep, DoCollect DEF SweepOther, SweptLists
<1> QED BY <1>1, <1>2, <1>3, <1>4

LEMMA DoSweptTo ==
  ASSUME IInv, NEW from \in SweptLists, NEW to \in SweptLists, NEW lists \in SUBSET Lists,
         "free" \in lists, Targets(to) \subseteq lists, SweptTo(from, to, lists)
  PROVE  IInv'
<1> DEFINE i == [l \in Lists |-> IF l \in lists THEN 1 ELSE it[l]]
           g == [list |-> list, it |-> i, size |-> m_size]
<1>1. Kept
  BY KeptIs
<1>2. /\ pc = "sweep" /\ gc.swept = from /\ gc' = [gc EXCEPT !.swept = to] /\ it' = i
      /\ m_size' = m_size /\ list' = list /\ kind' = kind /\ pc' = pc /\ want' = want
  BY DEF SweptTo, Swept
<1>3. /\ HeapOK(Heap, {}) /\ ListsOK(Heap) /\ Heap.list = list /\ Heap.it = it
      /\ Heap.size = m_size
  BY <1>1 DEF Kept, HeapOK
<1>4. /\ list \in [Lists -> Seq(Nat)] /\ it \in [Lists -> Nat]
      /\ \A l \in Lists : Sorted(list[l]) /\ it[l] \in 1 .. Len(list[l]) + 1
  BY <1>3 DEF ListsOK
<1>5. /\ i \in [Lists -> Nat] /\ \A l \in lists : i[l] = 1
      /\ \A l \in Lists : i[l] = 1 \/ i[l] = it[l]
  BY <1>4
<1>6. g.list = list /\ g.it = i /\ g.size = m_size
      /\ g = [list |-> g.list, it |-> g.it, size |-> g.size]
  OBVIOUS
<1> HIDE DEF i, g
<1>7. ListsOK(g)
  <2>1. ASSUME NEW l \in Lists PROVE Sorted(g.list[l]) /\ g.it[l] \in 1 .. Len(g.list[l]) + 1
    <3>1. Len(list[l]) \in Nat /\ Sorted(list[l]) /\ it[l] \in 1 .. Len(list[l]) + 1
      BY <1>4
    <3>2. i[l] \in 1 .. Len(list[l]) + 1
      BY <3>1, <1>5
    <3> QED BY <3>1, <3>2, <1>6
  <2> QED BY <2>1, <1>4, <1>5, <1>6 DEF ListsOK
<1>8. HeapOK(g, {}) /\ NonFree(g) = NonFree(Heap)
  BY <1>3, <1>6, <1>7, SameLists
<1>9. SweepOK(g, to)
  <2>1. OnElement(g)
    <3>1. g.list["free"] \in Seq(Nat) /\ g.it["free"] = 1
      BY <1>4, <1>5, <1>6
    <3> QED BY <3>1 DEF OnElement
  <2>2. \A t \in Targets(to) : g.it[t] = 1
    BY <1>5, <1>6
  <2> QED BY <2>1, <2>2 DEF SweepOK, Ready, Start
<1>10. SetHeap(g)
  BY <1>2, <1>6 DEF SetHeap
<1>11. want.blocks = 0
  BY <1>1, <1>2, NoBlocks
<1>12. WantOK'
  BY <1>1, <1>2, <1>11, WantStays
<1>13. WorkerTypeOK
  BY <1>1 DEF Kept
<1>14. to \in {"local", "new", "global", "other"} /\ to # "none"
  BY DEF SweptLists
<1>15. gc'.swept = to /\ gc'.from = gc.from /\ WorkerTypeOK'
  BY <1>2, <1>13, <1>14 DEF WorkerTypeOK
<1>16. gc.from # "none"
  BY <1>1, <1>2 DEF Kept, SweptOK
<1>17. kind' \in [NonFree(g) -> Kinds]
  BY <1>1, <1>2, <1>8 DEF Kept
<1> QED BY <1>8, <1>9, <1>10, <1>12, <1>14, <1>15, <1>16, <1>17, StepTo

LEMMA DoNextSweep ==
  ASSUME IInv, NextSweep
  PROVE  IInv'
<1>1. {"new", "local", "global", "free"} \in SUBSET Lists /\ {"global", "free"} \in SUBSET Lists
      /\ {"other", "free"} \in SUBSET Lists
  BY DEF Lists
<1>2. /\ Targets("new") \subseteq {"new", "local", "global", "free"}
      /\ Targets("global") \subseteq {"global", "free"}
      /\ Targets("other") \subseteq {"other", "free"}
  BY DEF Targets
<1>3. /\ "local" \in SweptLists /\ "new" \in SweptLists /\ "global" \in SweptLists
      /\ "other" \in SweptLists
  BY DEF SweptLists
<1>4. CASE SweptTo("local", "new", {"new", "local", "global", "free"})
  BY <1>1, <1>2, <1>3, <1>4, DoSweptTo
<1>5. CASE SweptTo("new", "global", {"global", "free"})
  BY <1>1, <1>2, <1>3, <1>5, DoSweptTo
<1>6. CASE SweptTo("new", "other", {"other", "free"})
  BY <1>1, <1>2, <1>3, <1>6, DoSweptTo
<1>7. CASE SweptTo("global", "other", {"other", "free"})
  BY <1>1, <1>2, <1>3, <1>7, DoSweptTo
<1> QED BY <1>4, <1>5, <1>6, <1>7 DEF NextSweep

LEMMA DoEndGC ==
  ASSUME IInv, EndGC
  PROVE  IInv'
<1> DEFINE g == IF AfterGC = "alloc" THEN iterate(Heap, "free") ELSE Heap
<1>1. Kept
  BY KeptIs
<1>2. /\ pc = "sweep" /\ gc.swept = "other" /\ pc' = AfterGC /\ SetHeap(g) /\ gc' = NoGC
      /\ kind' = kind /\ want' = want
  BY DEF EndGC, Swept
<1>3. HeapOK(Heap, {}) /\ ListsOK(Heap) /\ "free" \in Lists
  BY <1>1 DEF Kept, HeapOK, Lists
<1>4. HeapOK(g, {}) /\ NonFree(g) = NonFree(Heap)
  <2>1. CASE AfterGC = "alloc"
    <3>1. g = iterate(Heap, "free")
      BY <2>1
    <3>2. ListsOK(g) /\ g.list = Heap.list /\ g.size = Heap.size
      BY <1>3, <3>1, IterateIs
    <3> QED BY <1>3, <3>2, SameLists
  <2>2. CASE AfterGC # "alloc"
    BY <2>2, <1>3
  <2> QED BY <2>1, <2>2
<1> HIDE DEF g
<1>5. gc.from \in {"run", "inspect", "alloc", "trigger"}
  BY <1>1, <1>2 DEF Kept, SweptOK, WorkerTypeOK
<1>6. AfterGC \in {"run", "alloc", "alloc_local", "alloc_mb", "error"}
  BY <1>5 DEF AfterGC
<1>7. want.blocks = 0
  BY <1>1, <1>2, NoBlocks
<1>8. WantOK'
  BY <1>1, <1>2, <1>7, WantStays
<1>9. WorkerTypeOK' /\ pc' # "sweep"
  BY <1>1, <1>2, <1>6 DEF Kept, WorkerTypeOK, NoGC
<1>10. kind' \in [NonFree(g) -> Kinds]
  BY <1>1, <1>2, <1>4 DEF Kept
<1> QED BY <1>2, <1>4, <1>8, <1>9, <1>10, StepTo

-----------------------------------------------------------------------------
LEMMA InitOK ==
  ASSUME FreeListInit
  PROVE  IInv
<1>1. m_size = <<>> /\ DOMAIN m_size = {} /\ kind = <<>> /\ pc = "run" /\ want = Nothing
      /\ gc = NoGC
  BY DEF FreeListInit
<1>2. /\ Heap.list = [l \in Lists |-> <<>>] /\ Heap.it = [l \in Lists |-> 1]
      /\ Heap.size = m_size /\ Heap = [list |-> Heap.list, it |-> Heap.it, size |-> Heap.size]
  BY DEF FreeListInit, Heap
<1>3. ListsOK(Heap)
  <2>1. <<>> \in Seq(Nat) /\ Len(<<>>) = 0 /\ Sorted(<<>>)
    BY DEF Sorted
  <2> QED BY <2>1, <1>2 DEF ListsOK
<1>4. \A l \in Lists : On(Heap, l) = {}
  BY <1>2 DEF On, Range
<1>5. Placed(Heap, {})
  BY <1>1, <1>2, <1>4 DEF Placed
<1>6. SizesOK(Heap.size)
  <2>1. IsFiniteSet({})
    BY FS_EmptySet
  <2>2. m_size \in [DOMAIN m_size -> Nat]
    BY <1>1
  <2> QED BY <2>1, <2>2, <1>1, <1>2 DEF SizesOK
<1>7. Apart(Heap.size, On(Heap, "free"))
  BY <1>4 DEF Apart, Lists
<1>8. HeapOK(Heap, {})
  BY <1>3, <1>5, <1>6, <1>7 DEF HeapOK
<1>9. HeapTypeOK
  <2>1. Heap.list = list /\ Heap.it = it /\ Heap.size = m_size
    BY DEF Heap
  <2> QED BY <2>1, <1>8, HeapType DEF HeapTypeOK
<1>10. kind \in [Elems \ Range(list["free"]) -> Kinds]
  BY <1>1 DEF Elems
<1>11. WorkerTypeOK /\ WantOK /\ SweptOK
  BY <1>1, ConstantsAre DEF WorkerTypeOK, WantOK, SweptOK, Nothing, NoGC
<1> QED BY <1>8, <1>9, <1>10, <1>11 DEF IInv, TypeOK

LEMMA StepOK ==
  ASSUME IInv, [FreeListNext]_freeVars
  PROVE  IInv'
<1>1. ASSUME NEW s \in Sizes, NEW of \in {"term", "other"}, Alloc(s, of) PROVE IInv'
  BY <1>1, DoAlloc
<1>2. CASE Skip
  BY <1>2, DoSkip
<1>3. CASE Use
  BY <1>3, DoUse
<1>4. ASSUME NEW e \in Elems, Born(e) \/ FreeOther(e) PROVE IInv'
  BY <1>4, DoBirth
<1>5. CASE GCInBetween
  <2>1. PICK local \in BOOLEAN : BeginGC(local, "run")
    BY <1>5 DEF GCInBetween
  <2>2. pc # "alloc"
    BY <1>5 DEF GCInBetween
  <2> QED BY <2>1, <2>2, DoBegin
<1>6. CASE GCInspect
  <2>1. BeginGC(FALSE, "inspect") /\ AtEnd(Heap, "free")
    BY <1>6 DEF GCInspect, Exhausted
  <2> QED BY <2>1, DoBegin
<1>7. CASE GCLocal
  <2>1. BeginGC(TRUE, "alloc") /\ (pc # "alloc" \/ AtEnd(Heap, "free"))
    BY <1>7 DEF GCLocal, Exhausted
  <2> QED BY <2>1, DoBegin
<1>8. CASE NothingToCollect
  <2>1. /\ pc # "alloc" \/ AtEnd(Heap, "free")
        /\ pc' = "alloc_mb" /\ UNCHANGED <<m_size, list, it, kind, want, gc>>
    BY <1>8 DEF NothingToCollect, Exhausted
  <2> QED BY <2>1, DoNothing
<1>9. CASE AllocMB
  BY <1>9, DoAllocMB
<1>10. CASE AllocMBFails
  <2>1. BeginGC(FALSE, "trigger") /\ pc # "alloc"
    BY <1>10 DEF AllocMBFails
  <2> QED BY <2>1, DoBegin
<1>11. CASE SweepLocal \/ SweepNew \/ SweepGlobal \/ SweepOther
  BY <1>11, DoSweep
<1>12. CASE NextSweep
  BY <1>12, DoNextSweep
<1>13. CASE EndGC
  BY <1>13, DoEndGC
<1>14. CASE UNCHANGED freeVars
  BY <1>14 DEF freeVars, IInv, TypeOK, HeapTypeOK, WorkerTypeOK, WantOK, SweptOK, Serves, Heap, Elems
<1>15. CASE OutOfMemory
  BY <1>14, <1>15 DEF OutOfMemory
<1> QED BY <1>1, <1>2, <1>3, <1>4, <1>5, <1>6, <1>7, <1>8, <1>9, <1>10, <1>11, <1>12,
           <1>13, <1>14, <1>15 DEF FreeListNext

(* Every step of Alloc, of Free and of the collection keeps the heap.       *)
THEOREM Inductive == FreeListSpec => []IInv
<1>1. FreeListInit => IInv
  BY InitOK
<1>2. IInv /\ [FreeListNext]_freeVars => IInv'
  BY StepOK
<1> QED BY <1>1, <1>2, PTL DEF FreeListSpec

(* Sizes, lists and iterators are what they should be in every state, and   *)
(* exactly the elements that are not free hold something.                   *)
THEOREM TypeCorrect == FreeListSpec => []TypeOK
<1>1. IInv => TypeOK
  BY DEF IInv
<1> QED BY <1>1, Inductive, PTL

(* A list is not longer than there are elements.                            *)
LEMMA Fitting ==
  ASSUME NEW h, HeapOK(h, {}), NEW l \in Lists
  PROVE  /\ Cardinality(DOMAIN h.size) \in Nat
         /\ Len(h.list[l]) <= Cardinality(DOMAIN h.size)
<1> DEFINE s == h.list[l]
           D == DOMAIN h.size
<1>1. ListsOK(h) /\ Placed(h, {}) /\ IsFiniteSet(D)
  BY DEF HeapOK, SizesOK
<1>2. s \in Seq(Nat) /\ Sorted(s) /\ Len(s) \in Nat
  BY <1>1, ListIs
<1>3. \A i \in 1 .. Len(s) : s[i] \in On(h, l)
  BY <1>1, ListElem
<1>4. \A i \in 1 .. Len(s) : s[i] \in D
  BY <1>1, <1>3, PlacedIs
<1> DEFINE f == [i \in 1 .. Len(s) |-> s[i]]
<1> HIDE DEF s, D
<1>5. f \in Injection(1 .. Len(s), D)
  <2>1. f \in [1 .. Len(s) -> D]
    BY <1>4
  <2>2. \A i, j \in 1 .. Len(s) : i # j => f[i] # f[j]
    <3>1. SUFFICES ASSUME NEW i \in 1 .. Len(s), NEW j \in 1 .. Len(s), i # j
                   PROVE  s[i] # s[j]
      OBVIOUS
    <3>2. s[i] \in Nat /\ s[j] \in Nat /\ (i < j \/ j < i)
      BY <1>2, <3>1
    <3>3. (i < j => s[i] < s[j]) /\ (j < i => s[j] < s[i])
      BY <1>2 DEF Sorted
    <3> QED BY <3>2, <3>3
  <2> HIDE DEF f
  <2>3. \A i, j \in 1 .. Len(s) : f[i] = f[j] => i = j
    BY <2>2
  <2> QED BY <2>1, <2>3 DEF Injection, IsInjective
<1>6. Cardinality(1 .. Len(s)) <= Cardinality(D)
  BY <1>1, <1>5, FS_Injection
<1>7. Cardinality(1 .. Len(s)) = Len(s)
  <2>1. Cardinality(1 .. Len(s)) = IF 1 > Len(s) THEN 0 ELSE Len(s) - 1 + 1
    BY <1>2, FS_Interval
  <2> QED BY <2>1, <1>2
<1> QED BY <1>1, <1>6, <1>7, FS_CardinalityType DEF s, D

(* No memory is lost or given out twice: every element is at one place of   *)
(* one list, and the elements cover their macroblock without gap or overlap *)
(* (gc_marksweep.h:55-77, 123-204).                                         *)
THEOREM MemoryIsTiled == FreeListSpec => []Tiled
<1>1. ASSUME IInv PROVE Tiled
  <2>1. /\ HeapOK(Heap, {}) /\ ListsOK(Heap) /\ Placed(Heap, {}) /\ SizesOK(m_size)
        /\ Heap.list = list /\ Heap.size = m_size
    BY <1>1 DEF IInv, HeapOK, Heap
  <2>2. ASSUME NEW e \in Elems
        PROVE  Cardinality({p \in Lists \X (1 .. Cardinality(Elems)) :
                              p[2] <= Len(list[p[1]]) /\ list[p[1]][p[2]] = e}) = 1
    <3> DEFINE P == {p \in Lists \X (1 .. Cardinality(Elems)) :
                       p[2] <= Len(list[p[1]]) /\ list[p[1]][p[2]] = e}
    <3>1. PICK l \in Lists : e \in On(Heap, l)
      BY <2>1 DEF Placed, Elems
    <3>2. PICK i \in 1 .. Len(list[l]) : list[l][i] = e
      BY <2>1, <3>1, OnIs
    <3>3. \A k \in Lists : Len(list[k]) \in Nat /\ Len(list[k]) <= Cardinality(Elems)
      BY <2>1, Fitting, ListIs DEF Elems
    <3>4. Cardinality(Elems) \in Nat
      BY <2>1, <3>1, Fitting DEF Elems
    <3>5. <<l, i>> \in P
      BY <3>2, <3>3, <3>4
    <3>6. ASSUME NEW p \in P PROVE p = <<l, i>>
      <4>1. /\ p[1] \in Lists /\ p[2] \in 1 .. Len(list[p[1]]) /\ list[p[1]][p[2]] = e
            /\ p = <<p[1], p[2]>>
        BY <3>3, <3>4, <3>6
      <4>2. e \in On(Heap, p[1])
        BY <2>1, <4>1, ListElem
      <4>3. p[1] = l
        BY <2>1, <3>1, <4>1, <4>2, PlacedIs
      <4>4. Sorted(list[l]) /\ list[l] \in Seq(Nat)
        BY <2>1, ListIs
      <4> DEFINE j == p[2]
      <4>5. j \in 1 .. Len(list[l]) /\ list[l][j] = e
        BY <4>1, <4>3
      <4> HIDE DEF j
      <4>6. j = i
        <5>1. list[l][i] \in Nat /\ (i < j \/ j < i \/ i = j)
          BY <3>2, <4>4, <4>5
        <5>2. (i < j => list[l][i] < list[l][j]) /\ (j < i => list[l][j] < list[l][i])
          BY <3>2, <4>4, <4>5 DEF Sorted
        <5> QED BY <5>1, <5>2, <3>2, <4>5
      <4> QED BY <4>1, <4>3, <4>6 DEF j
    <3> HIDE DEF P
    <3>7. P = {<<l, i>>}
      BY <3>5, <3>6
    <3>8. Cardinality(P) = 1
      BY <3>7, FS_Singleton
    <3> QED BY <3>8 DEF P
  <2>3. ASSUME NEW l \in Lists PROVE Range(list[l]) \subseteq Elems
    BY <2>1 DEF Placed, On, Elems
  <2>4. ASSUME NEW e \in Elems
        PROVE  /\ m_size[e] >= 0
               /\ \/ End(e) \in Elems
                  \/ \E m \in MacroBlocks \cap Elems : End(e) = m + HeaderSize + BlockSize
               /\ \A d \in Elems : d < e => End(d) <= e
    <3>1. \A d \in Elems : End(d) = EndIn(m_size, d)
      BY DEF End, EndIn
    <3>2. m_size[e] \in Nat
      BY <2>1 DEF SizesOK, Elems
    <3>3. PICK m \in MacroBlocks : InBlock(m_size, e, m)
      BY <2>1 DEF SizesOK, Elems
    <3>4. \/ End(e) \in Elems
          \/ \E n \in MacroBlocks \cap Elems : End(e) = n + HeaderSize + BlockSize
      BY <3>1, <3>3 DEF InBlock, Elems, EndOf
    <3>5. \A d \in Elems : d < e => End(d) <= e
      BY <2>1, <3>1 DEF SizesOK, Elems
    <3> QED BY <3>2, <3>4, <3>5
  <2> QED BY <2>2, <2>3, <2>4 DEF Tiled
<1> QED BY <1>1, Inductive, PTL

(* The lists are sorted, and no two free elements are neighbours: what was  *)
(* given back has become one element, from whichever list it came           *)
(* (gc_marksweep.h:136-204, 234-247).                                       *)
THEOREM FreeMemoryCoalesces == FreeListSpec => []Coalesced
<1>1. ASSUME IInv PROVE Coalesced
  <2>1. /\ ListsOK(Heap) /\ Apart(m_size, On(Heap, "free")) /\ Heap.list = list
    BY <1>1 DEF IInv, HeapOK, Heap
  <2>2. ASSUME NEW l \in Lists, NEW i \in 2 .. Len(list[l]) PROVE list[l][i - 1] < list[l][i]
    <3>1. Sorted(list[l]) /\ Len(list[l]) \in Nat
      BY <2>1, ListIs
    <3>2. i - 1 \in 1 .. Len(list[l]) /\ i \in 1 .. Len(list[l]) /\ i - 1 < i
      BY <3>1
    <3> QED BY <3>1, <3>2 DEF Sorted
  <2>3. ASSUME NEW d \in Range(list["free"]), NEW e \in Range(list["free"])
        PROVE  End(d) # e
    BY <2>1 DEF Apart, On, End, EndIn
  <2> QED BY <2>2, <2>3 DEF Coalesced
<1> QED BY <1>1, Inductive, PTL

(* An allocation asks for one macroblock at most: what AllocMB inserts is   *)
(* never behind the iterator of Alloc (gc_marksweep.h:328-351, 498-513).    *)
THEOREM OneBlockServes == FreeListSpec => []OneMacroBlock
<1>1. IInv => OneMacroBlock
  BY DEF IInv, WantOK, OneMacroBlock
<1> QED BY <1>1, Inductive, PTL
=============================================================================
