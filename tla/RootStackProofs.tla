---------------------------- MODULE RootStackProofs ----------------------------
(* Proofs about the roots of a thread, for any set of addresses and any     *)
(* depth of calls.                                                          *)
EXTENDS RootStack, TLAPS, FiniteSetTheorems, WellFoundedInduction

Frame == [locals : Seq(Ptrs), temps : Seq(Ptrs), phase : Phases]

TypeOK ==
  /\ term_stack \in Ptrs
  /\ m_prev \in [Ptrs -> Ptrs \cup {NoPtr}]
  /\ frames \in Seq(Frame)
  /\ aliases \in SUBSET Ptrs

(* Only the current function returns or ends an expression, and the first   *)
(* one never returns.                                                       *)
FramesOK(fs) ==
  /\ fs # <<>>
  /\ \A d \in 1 .. Len(fs) : d # Len(fs) => fs[d].phase = "run"
  /\ fs[1].phase # "return" /\ fs[1].locals # <<>> /\ fs[1].locals[1] = StackEnd

(* Where frames fs keep a pointer: the function, locals (0) or temporaries  *)
(* (1), and the place among these; the order of construction if nothing is  *)
(* returned or declared in the middle of an expression.                     *)
Kept(fs, d, k) == IF k = 0 THEN fs[d].locals ELSE fs[d].temps
Slots(fs) ==
  {a \in (1 .. Len(fs)) \X {0, 1} \X Nat : a[3] \in 1 .. Len(Kept(fs, a[1], a[2]))}
At(fs, a) == Kept(fs, a[1], a[2])[a[3]]
Before(a, b) ==
  \/ a[1] < b[1]
  \/ a[1] = b[1] /\ a[2] < b[2]
  \/ a[1] = b[1] /\ a[2] = b[2] /\ a[3] < b[3]

(* A pointer p is constructed, or the one at n destroyed.                   *)
Adds(fs, gs, n, p) ==
  /\ fs \in Seq(Frame) /\ gs \in Seq(Frame)
  /\ Slots(gs) = Slots(fs) \cup {n} /\ n \notin Slots(fs)
  /\ At(gs, n) = p /\ \A a \in Slots(fs) : At(gs, a) = At(fs, a)
Drops(fs, gs, n) ==
  /\ fs \in Seq(Frame) /\ gs \in Seq(Frame) /\ n \in Slots(fs)
  /\ Slots(gs) = Slots(fs) \ {n} /\ \A a \in Slots(gs) : At(gs, a) = At(fs, a)
SameKept(fs, gs, d, k) ==
  /\ fs \in Seq(Frame) /\ gs \in Seq(Frame) /\ Len(gs) = Len(fs)
  /\ \A e \in 1 .. Len(fs), j \in {0, 1} :
       e # d \/ j # k => Kept(gs, e, j) = Kept(fs, e, j)
Alters(fs, gs, d, f) ==
  /\ fs \in Seq(Frame) /\ gs \in Seq(Frame) /\ Len(gs) = Len(fs)
  /\ gs[d] = f /\ \A e \in 1 .. Len(fs) : e # d => gs[e] = fs[e]
NewestSlot(fs, n) == \A b \in Slots(fs) : ~Before(n, b)

Distinct(fs) == \A a, b \in Slots(fs) : At(fs, a) = At(fs, b) => a = b

(* The list numbers its pointers from the oldest one on.                    *)
Linked(top, prev, pos) ==
  /\ top \in DOMAIN pos
  /\ \A p \in DOMAIN pos : pos[p] \in 1 .. pos[top]
  /\ \A p, q \in DOMAIN pos : pos[p] = pos[q] => p = q
  /\ \A p \in DOMAIN pos :
       IF pos[p] = 1 THEN prev[p] = NoPtr
       ELSE prev[p] \in DOMAIN pos /\ pos[prev[p]] = pos[p] - 1
  /\ \A p \in Ptrs \ DOMAIN pos : prev[p] = NoPtr

(* Only the fields of S are assigned.                                       *)
Assigns(prev, then, S) ==
  /\ prev \in [Ptrs -> Ptrs \cup {NoPtr}] /\ then \in [Ptrs -> Ptrs \cup {NoPtr}]
  /\ \A q \in Ptrs \ S : then[q] = prev[q]

(* Numberings that put the pointers of S in the same order.                 *)
Monotone(S, pos, new) == \A q, r \in S : pos[q] < pos[r] => new[q] < new[r]

(* The numbering after p became the newest pointer, or the one below top,   *)
(* or was unlinked.                                                        *)
PushNumbers(D, pos, new, p) ==
  /\ new \in [D \cup {p} -> Nat] /\ Monotone(D, pos, new)
  /\ \A q \in D : new[q] = pos[q] /\ new[q] < new[p]
SwapNumbers(D, pos, new, p, top) ==
  /\ new \in [D \cup {p} -> Nat] /\ Monotone(D, pos, new)
  /\ \A q \in D \ {top} : new[q] = pos[q] /\ new[q] < new[p]
  /\ new[p] < new[top]

PopNumbers(D, pos, new, p) ==
  /\ new \in [D \ {p} -> Nat] /\ Monotone(D \ {p}, pos, new)
  /\ \A q \in D \ {p} : pos[q] = 1 => new[q] = 1

(* The list is in the order of construction, but for the slots of X.        *)
Ordered(fs, pos, X) ==
  \A a, b \in Slots(fs) \ X :
    Before(a, b) /\ At(fs, a) \in DOMAIN pos /\ At(fs, b) \in DOMAIN pos
      => pos[At(fs, a)] < pos[At(fs, b)]

(* What survives the pointers that are about to be destroyed: the local     *)
(* just declared, or the result.                                            *)
Survivor(fs) ==
  LET d == Len(fs) IN
  IF fs[d].phase = "end" THEN <<d, 0, Len(fs[d].locals)>>
  ELSE <<d - 1, 1, Len(fs[d - 1].temps)>>

(* It may be the newest in the list, or the one below the last temporary.   *)
OnTop(fs, pos) ==
  LET s == At(fs, Survivor(fs))
      d == Len(fs)
  IN  /\ fs[d].phase \in {"end", "return"}
      /\ Survivor(fs) \in Slots(fs) /\ s \in DOMAIN pos
      /\ \A q \in DOMAIN pos \ {s} :
           pos[q] < pos[s] \/ (fs[d].temps # <<>> /\ q = fs[d].temps[Len(fs[d].temps)])

Shape(fs, pos) ==
  \/ Ordered(fs, pos, {})
  \/ OnTop(fs, pos) /\ Ordered(fs, pos, {Survivor(fs)})

Pointers(fs) == {At(fs, a) : a \in Slots(fs)}

AliasesOK(fs, al) ==
  /\ al \subseteq Pointers(fs) /\ StackEnd \notin al
  /\ \A a \in Slots(fs) : a[2] = 1 => At(fs, a) \notin al

ListOK(top, prev, fs, al) ==
  \E pos \in [Pointers(fs) \ al -> Nat] :
    Linked(top, prev, pos) /\ pos[StackEnd] = 1 /\ Shape(fs, pos)

IInv ==
  /\ TypeOK /\ FramesOK(frames) /\ Distinct(frames) /\ AliasesOK(frames, aliases)
  /\ ListOK(term_stack, m_prev, frames, aliases)
-----------------------------------------------------------------------------
(* A set of natural numbers has a least element.                            *)
LEMMA Least ==
  ASSUME NEW T, T \subseteq Nat, T # {}
  PROVE  \E m \in T : \A n \in T : m <= n
<1> DEFINE R == {ss \in Nat \X Nat : ss[1] < ss[2]}
<1>1. IsWellFoundedOn(R, Nat)
  BY NatLessThanWellFounded DEF OpToRel
<1> HIDE DEF R
<1>2. PICK m \in T : \A n \in T : <<n, m>> \notin R
  BY <1>1, WFMin
<1>3. \A n \in T : <<n, m>> \in R <=> n < m
  BY DEF R
<1>4. ASSUME NEW n \in T PROVE m <= n
  <2>1. n \in Nat /\ m \in Nat
    OBVIOUS
  <2>2. ~(n < m)
    BY <1>2, <1>3
  <2> QED BY <2>1, <2>2
<1> QED BY <1>4

LEMMA FreshIsFree == Free # {} => Fresh \in Free /\ Fresh \in Ptrs /\ Fresh \notin Live
<1> SUFFICES ASSUME Free # {} PROVE Fresh \in Free
  BY DEF Free
<1>1. Free \subseteq Nat
  BY PtrsAssumption DEF Free
<1>2. PICK m \in Free : \A n \in Free : m <= n
  BY <1>1, Least
<1> QED BY <1>2 DEF Fresh

-----------------------------------------------------------------------------
(* The list.                                                                *)

(* It has no gaps.                                                          *)
LEMMA NoGaps ==
  ASSUME NEW D, NEW pos \in [D -> Nat], NEW top, NEW prev, Linked(top, prev, pos)
  PROVE  \A k \in 1 .. pos[top] : \E p \in D : pos[p] = k
<1> DEFINE T == {n \in Nat : n < pos[top] /\ ~\E p \in D : pos[p] = pos[top] - n}
<1>0. top \in D /\ pos[top] \in Nat
  BY DEF Linked
<1>1. CASE T = {}
  <2>1. SUFFICES ASSUME NEW k \in 1 .. pos[top] PROVE \E p \in D : pos[p] = k
    OBVIOUS
  <2>2. pos[top] - k \in Nat /\ pos[top] - k < pos[top]
    BY <1>0
  <2>3. pos[top] - k \notin T
    BY <1>1
  <2>4. \E p \in D : pos[p] = pos[top] - (pos[top] - k)
    BY <2>2, <2>3
  <2> QED BY <2>4, <1>0
<1>2. CASE T # {}
  <2>1. T \subseteq Nat
    OBVIOUS
  <2>2. PICK m \in T : \A n \in T : m <= n
    BY <1>2, <2>1, Least
  <2>3. m # 0
    BY <1>0, <2>2
  <2>4. m - 1 \in Nat /\ m - 1 \notin T /\ m \in Nat /\ m < pos[top]
    BY <2>2, <2>3
  <2>5. PICK p \in D : pos[p] = pos[top] - (m - 1)
    BY <2>4, <1>0
  <2>6. pos[p] # 1
    BY <2>5, <2>4, <1>0
  <2>7. prev[p] \in D /\ pos[prev[p]] = pos[top] - m
    BY <2>5, <2>6, <2>4, <1>0 DEF Linked
  <2> QED BY <2>7, <2>2
<1> QED BY <1>1, <1>2

(* push_root                                                                *)
LEMMA PushLinked ==
  ASSUME NEW D, NEW pos \in [D -> Nat], NEW top, NEW prev,
         D \subseteq Ptrs, NEW p \in Ptrs \ D, Linked(top, prev, pos),
         NEW then, Assigns(prev, then, {p}), then[p] = top
  PROVE  \E new : Linked(p, then, new) /\ PushNumbers(D, pos, new, p)
<1> DEFINE new == [q \in D \cup {p} |-> IF q = p THEN pos[top] + 1 ELSE pos[q]]
<1>0. top \in D /\ pos[top] \in Nat
  BY DEF Linked, Assigns
<1>1. new \in [D \cup {p} -> Nat]
  BY <1>0
<1>2. \A q \in D : new[q] = pos[q] /\ new[q] < new[p]
  BY <1>0 DEF Linked
<1>3. Linked(p, then, new)
  BY <1>0 DEF Linked, Assigns
<1>4. Monotone(D, pos, new)
  BY <1>2 DEF Monotone
<1>5. PushNumbers(D, pos, new, p)
  BY <1>1, <1>2, <1>4 DEF PushNumbers
<1> QED BY <1>3, <1>5

(* swap_root                                                                *)
LEMMA SwapLinked ==
  ASSUME NEW D, NEW pos \in [D -> Nat], NEW top, NEW prev,
         D \subseteq Ptrs, NEW p \in Ptrs \ D, Linked(top, prev, pos), pos[top] # 1,
         NEW then, Assigns(prev, then, {p, top}), then[p] = prev[top], then[top] = p
  PROVE  \E new : Linked(top, then, new) /\ SwapNumbers(D, pos, new, p, top)
<1> DEFINE new == [q \in D \cup {p} |->
                     IF q = p THEN pos[top] ELSE IF q = top THEN pos[top] + 1 ELSE pos[q]]
<1>0. top \in D /\ pos[top] \in Nat /\ top # p /\ top \in Ptrs
  BY DEF Linked, Assigns
<1>1. new \in [D \cup {p} -> Nat]
  BY <1>0
<1>2. \A q \in D \ {top} : new[q] = pos[q] /\ new[q] < new[p]
  BY <1>0 DEF Linked
<1>3. new[p] < new[top]
  BY <1>0
<1>4. Linked(top, then, new)
  <2>1. top \in DOMAIN new /\ \A q \in DOMAIN new : new[q] \in 1 .. new[top]
    BY <1>0 DEF Linked
  <2>2. \A q, r \in DOMAIN new : new[q] = new[r] => q = r
    BY <1>0, <1>2, <1>3 DEF Linked
  <2>3. \A q \in Ptrs \ DOMAIN new : then[q] = NoPtr
    BY <1>0 DEF Linked, Assigns
  <2>4. ASSUME NEW q \in DOMAIN new
        PROVE  IF new[q] = 1 THEN then[q] = NoPtr
               ELSE then[q] \in DOMAIN new /\ new[then[q]] = new[q] - 1
    <3>1. CASE q = top
      BY <3>1, <1>0 DEF Linked
    <3>2. CASE q = p
      BY <3>2, <1>0 DEF Linked
    <3>3. CASE q # top /\ q # p
      <4>1. q \in D /\ then[q] = prev[q] /\ new[q] = pos[q]
        BY <3>3, <1>0 DEF Assigns
      <4>2. pos[q] # 1 => prev[q] # top
        BY <4>1, <1>0 DEF Linked
      <4> QED BY <4>1, <4>2, <1>0 DEF Linked
    <3> QED BY <3>1, <3>2, <3>3
  <2> QED BY <2>1, <2>2, <2>3, <2>4 DEF Linked
<1>5. Monotone(D, pos, new)
  <2>1. \A q \in D : pos[q] <= pos[top] /\ (pos[q] = pos[top] => q = top)
    BY <1>0 DEF Linked
  <2> QED BY <1>0, <1>2, <1>3, <2>1 DEF Monotone
<1>6. SwapNumbers(D, pos, new, p, top)
  BY <1>1, <1>2, <1>3, <1>5 DEF SwapNumbers
<1> QED BY <1>4, <1>6

(* pop_root: only the newest one and the one below it may go.               *)
LEMMA TopTwoAre ==
  ASSUME NEW D, NEW pos \in [D -> Nat], NEW top, NEW prev, Linked(top, prev, pos),
         NEW p \in D
  PROVE  /\ pos[p] = pos[top] <=> p = top
         /\ pos[top] # 1 => (pos[p] = pos[top] - 1 <=> p = prev[top])
BY DEF Linked

LEMMA PopLinked ==
  ASSUME NEW D, NEW pos \in [D -> Nat], NEW top, NEW prev,
         D \subseteq Ptrs, NEW p \in D, Linked(top, prev, pos),
         pos[p] # 1, pos[p] >= pos[top] - 1,
         NEW top2, NEW prev2, prev2[p] = NoPtr,
         \/ top = p /\ top2 = prev[p] /\ Assigns(prev, prev2, {p})
         \/ top # p /\ top2 = top /\ prev2[top] = prev[p] /\ Assigns(prev, prev2, {p, top})
  PROVE  \E new : Linked(top2, prev2, new) /\ PopNumbers(D, pos, new, p)
<1>0. top \in D /\ pos[top] \in Nat /\ top \in Ptrs /\ prev[p] \in D /\ prev[p] \in Ptrs
  BY DEF Linked
<1>1. CASE top = p /\ top2 = prev[p] /\ Assigns(prev, prev2, {p})
  <2> DEFINE new == [q \in D \ {p} |-> pos[q]]
  <2>0. prev[p] # p /\ pos[prev[p]] = pos[p] - 1 /\ pos[p] \in Nat
    BY <1>0 DEF Linked, Assigns
  <2>1. \A q \in D \ {p} : pos[q] \in 1 .. pos[prev[p]]
    BY <1>0, <1>1, <2>0 DEF Linked, Assigns
  <2>2. \A q \in D \ {p} : pos[q] # 1 => prev[q] # p
    BY <1>0, <1>1, <2>1, <2>0 DEF Linked, Assigns
  <2>3. Linked(top2, prev2, new)
    BY <1>0, <1>1, <2>0, <2>1, <2>2 DEF Linked, Assigns
  <2>4. PopNumbers(D, pos, new, p)
    BY DEF PopNumbers, Monotone
  <2> QED BY <2>3, <2>4
<1>2. CASE top # p /\ top2 = top /\ prev2[top] = prev[p] /\ Assigns(prev, prev2, {p, top})
  <2> DEFINE new == [q \in D \ {p} |-> IF q = top THEN pos[p] ELSE pos[q]]
  <2>0. pos[p] = pos[top] - 1 /\ prev[p] # top /\ prev[p] # p /\ pos[prev[p]] = pos[p] - 1
    BY <1>0, <1>2 DEF Linked, Assigns
  <2>1. \A q \in D \ {p} : q # top => pos[q] < pos[p]
    <3>1. SUFFICES ASSUME NEW q \in D \ {p}, q # top PROVE pos[q] < pos[p]
      OBVIOUS
    <3>2. pos[q] \in 1 .. pos[top] /\ pos[q] # pos[top] /\ pos[q] # pos[p]
      BY <1>0, <3>1 DEF Linked
    <3> QED BY <3>2, <1>0, <2>0
  <2>2. \A q \in D \ {p} : q # top /\ pos[q] # 1 => prev[q] # p /\ prev[q] # top
    BY <1>0, <1>2, <2>0, <2>1 DEF Linked, Assigns
  <2>3. new \in [D \ {p} -> Nat]
    BY <1>0
  <2>4. top \in DOMAIN new /\ \A q \in DOMAIN new : new[q] \in 1 .. new[top]
    BY <1>0, <1>2, <2>0, <2>1 DEF Linked, Assigns
  <2>5. \A q, r \in DOMAIN new : new[q] = new[r] => q = r
    BY <1>0, <1>2, <2>0, <2>1 DEF Linked, Assigns
  <2>6. \A q \in Ptrs \ DOMAIN new : prev2[q] = NoPtr
    BY <1>0, <1>2, <2>0 DEF Linked, Assigns
  <2>7. ASSUME NEW q \in DOMAIN new
        PROVE  IF new[q] = 1 THEN prev2[q] = NoPtr
               ELSE prev2[q] \in DOMAIN new /\ new[prev2[q]] = new[q] - 1
    <3>1. CASE q = top
      BY <3>1, <1>0, <1>2, <2>0 DEF Linked, Assigns
    <3>2. CASE q # top
      BY <3>2, <1>0, <1>2, <2>2 DEF Linked, Assigns
    <3> QED BY <3>1, <3>2
  <2>8. Linked(top2, prev2, new)
    BY <1>2, <2>4, <2>5, <2>6, <2>7 DEF Linked
  <2>9. \A q \in D \ {p} : pos[q] = 1 => new[q] = 1
    BY <1>0, <1>2, <2>0 DEF Linked, Assigns
  <2>10. \A q, r \in D \ {p} : pos[q] < pos[r] => new[q] < new[r]
    BY <1>0, <1>2, <2>0, <2>1 DEF Linked, Assigns
  <2>11. PopNumbers(D, pos, new, p)
    BY <2>3, <2>9, <2>10 DEF PopNumbers, Monotone
  <2> QED BY <2>8, <2>11
<1> QED BY <1>1, <1>2

-----------------------------------------------------------------------------
(* The slots.                                                               *)
LEMMA SlotIs ==
  ASSUME NEW fs \in Seq(Frame), NEW a \in Slots(fs)
  PROVE  /\ a = <<a[1], a[2], a[3]>>
         /\ a[1] \in 1 .. Len(fs) /\ a[2] \in {0, 1} /\ a[3] \in Nat \ {0}
         /\ Kept(fs, a[1], a[2]) \in Seq(Ptrs) /\ a[3] \in 1 .. Len(Kept(fs, a[1], a[2]))
         /\ At(fs, a) \in Ptrs
<1>1. a \in (1 .. Len(fs)) \X {0, 1} \X Nat /\ a[3] \in 1 .. Len(Kept(fs, a[1], a[2]))
  BY DEF Slots
<1>2. a = <<a[1], a[2], a[3]>> /\ a[1] \in 1 .. Len(fs) /\ a[2] \in {0, 1} /\ a[3] \in Nat
  BY <1>1
<1>3. fs[a[1]] \in Frame
  BY <1>2
<1>4. Kept(fs, a[1], a[2]) \in Seq(Ptrs)
  BY <1>2, <1>3 DEF Kept, Frame
<1>5. At(fs, a) \in Ptrs
  BY <1>1, <1>4 DEF At
<1>6. Len(Kept(fs, a[1], a[2])) \in Nat
  BY <1>4
<1> QED BY <1>1, <1>2, <1>4, <1>5, <1>6

LEMMA SlotHas ==
  ASSUME NEW fs \in Seq(Frame), NEW d \in 1 .. Len(fs), NEW k \in {0, 1},
         NEW i \in 1 .. Len(Kept(fs, d, k))
  PROVE  <<d, k, i>> \in Slots(fs) /\ At(fs, <<d, k, i>>) = Kept(fs, d, k)[i]
<1>1. fs[d] \in Frame
  OBVIOUS
<1>2. Kept(fs, d, k) \in Seq(Ptrs)
  BY <1>1 DEF Kept, Frame
<1>3. Len(Kept(fs, d, k)) \in Nat
  BY <1>2
<1> QED BY <1>3 DEF Slots, At

LEMMA BeforeTotal ==
  ASSUME NEW fs \in Seq(Frame), NEW a \in Slots(fs), NEW b \in Slots(fs), a # b
  PROVE  Before(a, b) \/ Before(b, a)
<1>1. a = <<a[1], a[2], a[3]>> /\ b = <<b[1], b[2], b[3]>>
  BY SlotIs
<1>2. a[1] # b[1] \/ a[2] # b[2] \/ a[3] # b[3]
  BY <1>1
<1>3. a[1] \in Nat /\ a[2] \in Nat /\ a[3] \in Nat /\ b[1] \in Nat /\ b[2] \in Nat /\ b[3] \in Nat
  <2>1. a[1] \in 1 .. Len(fs) /\ b[1] \in 1 .. Len(fs) /\ Len(fs) \in Nat
    BY SlotIs
  <2>2. a[2] \in {0, 1} /\ b[2] \in {0, 1} /\ a[3] \in Nat /\ b[3] \in Nat
    BY SlotIs
  <2> QED BY <2>1, <2>2
<1> QED BY <1>2, <1>3 DEF Before

(* A pointer is constructed.                                                *)
LEMMA AddSlot ==
  ASSUME NEW fs, NEW gs, NEW d \in 1 .. Len(fs), NEW k \in {0, 1}, SameKept(fs, gs, d, k), NEW p \in Ptrs,
         Kept(gs, d, k) = Append(Kept(fs, d, k), p),
         NEW n, n = <<d, k, Len(Kept(fs, d, k)) + 1>>
  PROVE  Adds(fs, gs, n, p)
<1> DEFINE l == Len(Kept(fs, d, k))
<1>0. /\ fs \in Seq(Frame) /\ gs \in Seq(Frame) /\ Len(gs) = Len(fs)
      /\ \A e \in 1 .. Len(fs), j \in {0, 1} :
           e # d \/ j # k => Kept(gs, e, j) = Kept(fs, e, j)
  BY DEF SameKept
<1>1. fs[d] \in Frame
  BY <1>0
<1>2. Kept(fs, d, k) \in Seq(Ptrs) /\ l \in Nat
  BY <1>1 DEF Kept, Frame
<1>3. /\ Len(Kept(gs, d, k)) = l + 1 /\ Kept(gs, d, k)[l + 1] = p
      /\ \A i \in 1 .. l : Kept(gs, d, k)[i] = Kept(fs, d, k)[i]
  BY <1>2
<1>4. n[1] = d /\ n[2] = k /\ n[3] = l + 1 /\ n \in (1 .. Len(fs)) \X {0, 1} \X Nat
  BY <1>2
<1>5. n \notin Slots(fs)
  BY <1>0, <1>4, <1>2 DEF Slots
<1>6. n \in Slots(gs) /\ At(gs, n) = p
  BY <1>0, <1>4, <1>3, <1>2 DEF Slots, At
<1>7. ASSUME NEW a \in Slots(fs) PROVE a \in Slots(gs) /\ At(gs, a) = At(fs, a)
  <2>1. /\ a \in (1 .. Len(fs)) \X {0, 1} \X Nat /\ a[3] \in 1 .. Len(Kept(fs, a[1], a[2]))
        /\ a[1] \in 1 .. Len(fs) /\ a[2] \in {0, 1}
    BY <1>0, <1>7 DEF Slots
  <2>2. CASE a[1] = d /\ a[2] = k
    BY <1>0, <2>1, <2>2, <1>3, <1>2 DEF Slots, At
  <2>3. CASE a[1] # d \/ a[2] # k
    BY <1>0, <2>1, <2>3 DEF Slots, At
  <2> QED BY <2>2, <2>3
<1>8. ASSUME NEW a \in Slots(gs) PROVE a \in Slots(fs) \/ a = n
  <2>1. /\ a \in (1 .. Len(fs)) \X {0, 1} \X Nat /\ a[3] \in 1 .. Len(Kept(gs, a[1], a[2]))
        /\ a[1] \in 1 .. Len(fs) /\ a[2] \in {0, 1} /\ a = <<a[1], a[2], a[3]>>
    BY <1>0, <1>8 DEF Slots
  <2>2. CASE a[1] = d /\ a[2] = k
    <3>1. a[3] \in 1 .. l + 1
      BY <1>0, <2>1, <2>2, <1>3
    <3>2. CASE a[3] = l + 1
      BY <1>0, <3>2, <2>1, <2>2
    <3>3. CASE a[3] # l + 1
      <4>1. a[3] \in 1 .. l
        BY <3>1, <3>3, <1>2
      <4> QED BY <1>0, <4>1, <2>1, <2>2 DEF Slots
    <3> QED BY <3>2, <3>3
  <2>3. CASE a[1] # d \/ a[2] # k
    BY <1>0, <2>1, <2>3 DEF Slots
  <2> QED BY <2>2, <2>3
<1> QED BY <1>0, <1>5, <1>6, <1>7, <1>8 DEF Adds

(* The newest of some pointers is destroyed.                                *)
LEMMA DropSlot ==
  ASSUME NEW fs, NEW gs, NEW d \in 1 .. Len(fs), NEW k \in {0, 1}, SameKept(fs, gs, d, k),
         Kept(fs, d, k) # <<>>, Kept(gs, d, k) = Front(Kept(fs, d, k)),
         NEW n, n = <<d, k, Len(Kept(fs, d, k))>>
  PROVE  Drops(fs, gs, n) /\ At(fs, n) = Last(Kept(fs, d, k))
<1> DEFINE l == Len(Kept(fs, d, k))
<1>0. /\ fs \in Seq(Frame) /\ gs \in Seq(Frame) /\ Len(gs) = Len(fs)
      /\ \A e \in 1 .. Len(fs), j \in {0, 1} :
           e # d \/ j # k => Kept(gs, e, j) = Kept(fs, e, j)
  BY DEF SameKept
<1>1. fs[d] \in Frame
  BY <1>0
<1>2. Kept(fs, d, k) \in Seq(Ptrs) /\ l \in Nat \ {0}
  BY <1>1 DEF Kept, Frame
<1>3. /\ Len(Kept(gs, d, k)) = l - 1
      /\ \A i \in 1 .. l - 1 : Kept(gs, d, k)[i] = Kept(fs, d, k)[i]
  BY <1>2 DEF Front
<1>4. n[1] = d /\ n[2] = k /\ n[3] = l /\ n \in (1 .. Len(fs)) \X {0, 1} \X Nat
  BY <1>2
<1>5. n \in Slots(fs) /\ At(fs, n) = Last(Kept(fs, d, k))
  BY <1>0, <1>4, <1>2 DEF Slots, At, Last
<1>6. n \notin Slots(gs)
  BY <1>0, <1>4, <1>3, <1>2 DEF Slots
<1>7. ASSUME NEW a \in Slots(gs) PROVE a \in Slots(fs) /\ At(gs, a) = At(fs, a)
  <2>1. /\ a \in (1 .. Len(fs)) \X {0, 1} \X Nat /\ a[3] \in 1 .. Len(Kept(gs, a[1], a[2]))
        /\ a[1] \in 1 .. Len(fs) /\ a[2] \in {0, 1}
    BY <1>0, <1>7 DEF Slots
  <2>2. CASE a[1] = d /\ a[2] = k
    <3>1. a[3] \in 1 .. l - 1
      BY <1>0, <2>1, <2>2, <1>3
    <3> QED BY <1>0, <3>1, <2>1, <2>2, <1>3, <1>2 DEF Slots, At
  <2>3. CASE a[1] # d \/ a[2] # k
    BY <1>0, <2>1, <2>3 DEF Slots, At
  <2> QED BY <2>2, <2>3
<1>8. ASSUME NEW a \in Slots(fs), a # n PROVE a \in Slots(gs)
  <2>1. /\ a \in (1 .. Len(fs)) \X {0, 1} \X Nat /\ a[3] \in 1 .. Len(Kept(fs, a[1], a[2]))
        /\ a[1] \in 1 .. Len(fs) /\ a[2] \in {0, 1} /\ a = <<a[1], a[2], a[3]>>
    BY <1>0, <1>8 DEF Slots
  <2>2. CASE a[1] = d /\ a[2] = k
    <3>1. a[3] \in 1 .. l /\ a[3] # l
      BY <1>0, <2>1, <2>2, <1>8
    <3>2. a[3] \in 1 .. l - 1
      BY <3>1, <1>2
    <3> QED BY <1>0, <3>2, <2>1, <2>2, <1>3 DEF Slots
  <2>3. CASE a[1] # d \/ a[2] # k
    BY <1>0, <2>1, <2>3 DEF Slots
  <2> QED BY <2>2, <2>3
<1> QED BY <1>0, <1>5, <1>6, <1>7, <1>8 DEF Drops

(* The list after a pointer was constructed, for any place in the list.     *)
LEMMA OrderedAdd ==
  ASSUME NEW fs, NEW gs, NEW n, NEW p, Adds(fs, gs, n, p), p \notin Pointers(fs),
         NEW D, NEW pos \in [D -> Nat], p \notin D, NEW new \in [D \cup {p} -> Nat],
         Ordered(fs, pos, {}), Monotone(D, pos, new)
  PROVE  /\ Ordered(gs, new, {n})
         /\ (NewestSlot(fs, n) /\ \A q \in D : new[q] < new[p]) => Ordered(gs, new, {})
<1>0. /\ fs \in Seq(Frame) /\ gs \in Seq(Frame)
      /\ Slots(gs) = Slots(fs) \cup {n} /\ n \notin Slots(fs)
      /\ At(gs, n) = p /\ \A a \in Slots(fs) : At(gs, a) = At(fs, a)
  BY DEF Adds
<1>1. ASSUME NEW a \in Slots(fs), NEW b \in Slots(fs), Before(a, b),
             At(gs, a) \in D \cup {p}, At(gs, b) \in D \cup {p}
      PROVE  new[At(gs, a)] < new[At(gs, b)]
  <2>1. At(gs, a) = At(fs, a) /\ At(gs, b) = At(fs, b)
    BY <1>0
  <2>2. At(fs, a) # p /\ At(fs, b) # p
    BY DEF Pointers
  <2>3. At(fs, a) \in D /\ At(fs, b) \in D
    BY <1>1, <2>1, <2>2
  <2>4. pos[At(fs, a)] < pos[At(fs, b)]
    BY <1>1, <2>3 DEF Ordered
  <2> QED BY <2>1, <2>3, <2>4 DEF Monotone
<1>2. Ordered(gs, new, {n})
  BY <1>0, <1>1 DEF Ordered
<1>3. ASSUME NewestSlot(fs, n), \A q \in D : new[q] < new[p]
      PROVE  Ordered(gs, new, {})
  <2>1. SUFFICES ASSUME NEW a \in Slots(gs), NEW b \in Slots(gs), Before(a, b),
                        At(gs, a) \in D \cup {p}, At(gs, b) \in D \cup {p}
                 PROVE  new[At(gs, a)] < new[At(gs, b)]
    BY DEF Ordered
  <2>2. CASE a = n /\ b = n
    <3>1. n[1] < n[1] \/ n[2] < n[2] \/ n[3] < n[3]
      BY <2>1, <2>2 DEF Before
    <3>2. n[1] \in Int /\ n[2] \in Int /\ n[3] \in Int
      BY <1>0, SlotIs
    <3> QED BY <3>1, <3>2
  <2>3. CASE a = n /\ b # n
    BY <1>0, <2>1, <2>3, <1>3 DEF NewestSlot
  <2>4. CASE a # n /\ b = n
    <3>1. At(gs, a) # p
      BY <1>0, <2>4 DEF Pointers
    <3> QED BY <1>0, <3>1, <2>1, <2>4, <1>3
  <2>5. CASE a # n /\ b # n
    BY <1>0, <2>1, <2>5, <1>1
  <2> QED BY <2>2, <2>3, <2>4, <2>5
<1> QED BY <1>2, <1>3

(* The list after a pointer was destroyed.                                  *)
LEMMA OrderedDrop ==
  ASSUME NEW fs, NEW gs, NEW n, Drops(fs, gs, n),
         NEW D, NEW pos \in [D -> Nat], NEW E \in SUBSET D, NEW new \in [E -> Nat],
         NEW X, Ordered(fs, pos, X), Monotone(E, pos, new)
  PROVE  Ordered(gs, new, X)
<1>1. SUFFICES ASSUME NEW a \in Slots(gs) \ X, NEW b \in Slots(gs) \ X, Before(a, b),
                      At(gs, a) \in E, At(gs, b) \in E
               PROVE  new[At(gs, a)] < new[At(gs, b)]
  BY DEF Ordered
<1>2. /\ a \in Slots(fs) \ X /\ b \in Slots(fs) \ X
      /\ At(gs, a) = At(fs, a) /\ At(gs, b) = At(fs, b)
  BY DEF Drops
<1>3. pos[At(fs, a)] < pos[At(fs, b)]
  BY <1>1, <1>2 DEF Ordered
<1> QED BY <1>1, <1>2, <1>3 DEF Monotone

(* Whoever was constructed last is the newest in the list, or there is only *)
(* the survivor above it.                                                   *)
LEMMA NewestIsTopTwo ==
  ASSUME NEW fs \in Seq(Frame), NEW D, D \subseteq Pointers(fs), NEW pos \in [D -> Nat],
         NEW top, NEW prev, Linked(top, prev, pos), Shape(fs, pos),
         NEW n \in Slots(fs), NewestSlot(fs, n), At(fs, n) \in D
  PROVE  /\ pos[At(fs, n)] >= pos[top] - 1
         /\ Ordered(fs, pos, {}) => At(fs, n) = top
<1> DEFINE p == At(fs, n)
<1>0. top \in D /\ pos[top] \in Nat /\ pos[p] \in Nat /\ \A q \in D : pos[q] \in 1 .. pos[top]
  BY DEF Linked
<1>1. ASSUME NEW X, Ordered(fs, pos, X), n \notin X, NEW b \in Slots(fs) \ X, At(fs, b) \in D,
             At(fs, b) # p
      PROVE  pos[At(fs, b)] < pos[p]
  <2>1. Before(b, n)
    BY <1>1, BeforeTotal DEF NewestSlot
  <2> QED BY <2>1, <1>1 DEF Ordered
<1>2. CASE Ordered(fs, pos, {})
  <2>1. PICK b \in Slots(fs) : At(fs, b) = top
    BY <1>0 DEF Pointers
  <2>2. top # p => pos[top] < pos[p]
    BY <1>2, <2>1, <1>1, <1>0
  <2>3. top = p
    BY <2>2, <1>0
  <2> QED BY <2>3, <1>0
<1>3. CASE OnTop(fs, pos) /\ Ordered(fs, pos, {Survivor(fs)})
  <2> DEFINE s == At(fs, Survivor(fs))
  <2>1. CASE n = Survivor(fs)
    <3>1. ASSUME NEW q \in D, pos[q] > pos[p]
          PROVE  q = fs[Len(fs)].temps[Len(fs[Len(fs)].temps)]
      BY <1>3, <2>1, <3>1, <1>0 DEF OnTop
    <3>2. SUFFICES ASSUME pos[p] < pos[top] - 1 PROVE FALSE
      BY <1>3, <1>0, <3>1, <1>2
    <3>3. pos[top] - 1 \in 1 .. pos[top]
      BY <3>2, <1>0
    <3>4. PICK r \in D : pos[r] = pos[top] - 1
      BY <3>3, NoGaps
    <3>5. pos[r] > pos[p] /\ pos[top] > pos[p] /\ r # top
      BY <3>2, <3>4, <1>0
    <3> QED BY <3>1, <3>5, <1>0
  <2>2. CASE n # Survivor(fs)
    <3>1. ASSUME NEW q \in D, q # p, q # s PROVE pos[q] < pos[p]
      <4>1. PICK b \in Slots(fs) : At(fs, b) = q
        BY DEF Pointers
      <4> QED BY <4>1, <3>1, <1>3, <2>2, <1>1
    <3>2. SUFFICES ASSUME pos[p] < pos[top] - 1 PROVE FALSE
      BY <1>3, <1>0, <1>2
    <3>3. pos[top] - 1 \in 1 .. pos[top]
      BY <3>2, <1>0
    <3>4. PICK r \in D : pos[r] = pos[top] - 1
      BY <3>3, NoGaps
    <3>5. r # p /\ top # p /\ r # top
      BY <3>2, <3>4, <1>0
    <3>6. CASE r # s
      BY <3>1, <3>5, <3>6, <3>4, <3>2, <1>0
    <3>7. CASE top # s
      BY <3>1, <3>5, <3>7, <3>2, <1>0
    <3> QED BY <3>5, <3>6, <3>7
  <2> QED BY <2>1, <2>2
<1> QED BY <1>2, <1>3 DEF Shape

-----------------------------------------------------------------------------
(* What is alive, before and after.                                         *)
LEMMA LiveIs == ASSUME frames \in Seq(Frame) PROVE Live = Pointers(frames)
<1>1. ASSUME NEW p \in Live PROVE p \in Pointers(frames)
  <2>1. PICK d \in DOMAIN frames : p \in Objects(frames[d])
    BY DEF Live
  <2>2. d \in 1 .. Len(frames) /\ frames[d] \in Frame
    BY <2>1
  <2>3. CASE p \in Range(frames[d].locals)
    <3>1. frames[d].locals \in Seq(Ptrs) /\ Kept(frames, d, 0) = frames[d].locals
      BY <2>2 DEF Frame, Kept
    <3>2. PICK i \in 1 .. Len(frames[d].locals) : p = frames[d].locals[i]
      BY <2>3, <3>1 DEF Range
    <3>3. <<d, 0, i>> \in Slots(frames) /\ At(frames, <<d, 0, i>>) = p
      BY <2>2, <3>1, <3>2, SlotHas
    <3> QED BY <3>3 DEF Pointers
  <2>4. CASE p \in Range(frames[d].temps)
    <3>1. frames[d].temps \in Seq(Ptrs) /\ Kept(frames, d, 1) = frames[d].temps
      BY <2>2 DEF Frame, Kept
    <3>2. PICK i \in 1 .. Len(frames[d].temps) : p = frames[d].temps[i]
      BY <2>4, <3>1 DEF Range
    <3>3. <<d, 1, i>> \in Slots(frames) /\ At(frames, <<d, 1, i>>) = p
      BY <2>2, <3>1, <3>2, SlotHas
    <3> QED BY <3>3 DEF Pointers
  <2> QED BY <2>1, <2>3, <2>4 DEF Objects
<1>2. ASSUME NEW a \in Slots(frames) PROVE At(frames, a) \in Live
  <2>1. /\ a[1] \in 1 .. Len(frames) /\ a[2] \in {0, 1}
        /\ a[3] \in 1 .. Len(Kept(frames, a[1], a[2]))
    BY SlotIs
  <2>2. frames[a[1]] \in Frame /\ a[1] \in DOMAIN frames
    BY <2>1
  <2>3. frames[a[1]].locals \in Seq(Ptrs) /\ frames[a[1]].temps \in Seq(Ptrs)
    BY <2>2 DEF Frame
  <2>4. At(frames, a) \in Objects(frames[a[1]])
    BY <2>1, <2>3 DEF At, Kept, Objects, Range
  <2> QED BY <2>2, <2>4 DEF Live
<1> QED BY <1>1, <1>2 DEF Pointers

LEMMA ConstructedIs ==
  ASSUME NEW fs, NEW gs, NEW n, NEW p, Adds(fs, gs, n, p), p \notin Pointers(fs),
         Distinct(fs), NEW al, AliasesOK(fs, al)
  PROVE  Pointers(gs) = Pointers(fs) \cup {p} /\ Distinct(gs) /\ AliasesOK(gs, al)
<1>1. Pointers(gs) = Pointers(fs) \cup {p}
  BY DEF Pointers, Adds
<1>2. Distinct(gs)
  BY DEF Distinct, Pointers, Adds
<1>3. p \notin al
  BY DEF AliasesOK
<1>4. AliasesOK(gs, al)
  BY <1>1, <1>3 DEF AliasesOK, Adds
<1> QED BY <1>1, <1>2, <1>4

LEMMA Constructed ==
  ASSUME NEW fs, NEW gs, NEW n, NEW p, Adds(fs, gs, n, p), p \notin Pointers(fs),
         FramesOK(fs), Distinct(fs), NEW al, AliasesOK(fs, al)
  PROVE  /\ Pointers(gs) = Pointers(fs) \cup {p} /\ Distinct(gs)
         /\ AliasesOK(gs, al) /\ Pointers(gs) \ al = (Pointers(fs) \ al) \cup {p}
         /\ n[2] = 0 /\ p # StackEnd =>
              AliasesOK(gs, al \cup {p}) /\ Pointers(gs) \ (al \cup {p}) = Pointers(fs) \ al
<1>1. Pointers(gs) = Pointers(fs) \cup {p}
  BY ConstructedIs
<1>2. Distinct(gs)
  BY ConstructedIs
<1>3. p \notin al
  BY DEF AliasesOK
<1>4. AliasesOK(gs, al)
  BY ConstructedIs
<1>5. Pointers(gs) \ al = (Pointers(fs) \ al) \cup {p}
  BY <1>1, <1>3
<1>6. ASSUME n[2] = 0, p # StackEnd
      PROVE  AliasesOK(gs, al \cup {p}) /\ Pointers(gs) \ (al \cup {p}) = Pointers(fs) \ al
  <2>1. ASSUME NEW a \in Slots(gs), a[2] = 1 PROVE At(gs, a) \notin al \cup {p}
    <3>1. a # n /\ a \in Slots(fs)
      BY <2>1, <1>6 DEF Adds
    <3>2. At(gs, a) = At(fs, a) /\ At(fs, a) \in Pointers(fs) /\ At(fs, a) \notin al
      BY <3>1, <2>1 DEF Pointers, AliasesOK, Adds
    <3> QED BY <3>2
  <2> QED BY <2>1, <1>1, <1>6 DEF AliasesOK
<1> QED BY <1>1, <1>2, <1>4, <1>5, <1>6

LEMMA Destroyed ==
  ASSUME NEW fs, NEW gs, NEW n, Drops(fs, gs, n),
         NEW p, p = At(fs, n), Distinct(fs), NEW al, AliasesOK(fs, al)
  PROVE  /\ Pointers(gs) = Pointers(fs) \ {p} /\ Distinct(gs)
         /\ AliasesOK(gs, al \ {p})
         /\ Pointers(gs) \ (al \ {p}) = (Pointers(fs) \ al) \ {p}
<1>1. Pointers(gs) = Pointers(fs) \ {p}
  BY DEF Pointers, Distinct, Drops
<1>2. Distinct(gs)
  BY DEF Distinct, Drops
<1>3. AliasesOK(gs, al \ {p})
  BY <1>1 DEF AliasesOK, Drops
<1> QED BY <1>1, <1>2, <1>3

(* The first local of the first function stays.                             *)
LEMMA StackEndIs ==
  ASSUME NEW fs \in Seq(Frame), FramesOK(fs), NEW al, AliasesOK(fs, al)
  PROVE  /\ <<1, 0, 1>> \in Slots(fs) /\ At(fs, <<1, 0, 1>>) = StackEnd
         /\ StackEnd \in Pointers(fs) \ al
<1>1. Len(fs) \in Nat \ {0}
  BY DEF FramesOK
<1>2. fs[1] \in Frame
  BY <1>1
<1>3. Kept(fs, 1, 0) \in Seq(Ptrs) /\ Kept(fs, 1, 0) # <<>> /\ Kept(fs, 1, 0)[1] = StackEnd
  BY <1>2 DEF FramesOK, Frame, Kept
<1>4. 1 \in 1 .. Len(Kept(fs, 1, 0))
  BY <1>3
<1>5. <<1, 0, 1>> \in Slots(fs) /\ At(fs, <<1, 0, 1>>) = StackEnd
  BY <1>1, <1>3, <1>4, SlotHas
<1> QED BY <1>5 DEF Pointers, AliasesOK

-----------------------------------------------------------------------------
(* The steps, by what they do to the list.                                  *)
LEMMA PtrsFresh ==
  ASSUME IInv, Free # {}
  PROVE  Fresh \in Ptrs /\ Fresh \notin Pointers(frames)
BY FreshIsFree, LiveIs DEF IInv, TypeOK

LEMMA Depth ==
  ASSUME NEW fs \in Seq(Frame), FramesOK(fs)
  PROVE  /\ Len(fs) \in Nat \ {0} /\ Len(fs) \in 1 .. Len(fs) /\ fs[Len(fs)] \in Frame
         /\ fs[Len(fs)].temps \in Seq(Ptrs) /\ fs[Len(fs)].locals \in Seq(Ptrs)
<1>1. Len(fs) \in Nat \ {0}
  BY DEF FramesOK
<1>2. fs[Len(fs)] \in Frame
  BY <1>1
<1> QED BY <1>1, <1>2 DEF Frame

LEMMA Pushes ==
  ASSUME IInv, Current.phase = "run", Free # {}, push_root(Fresh),
         NEW n, Adds(frames, frames', n, Fresh), FramesOK(frames'),
         \/ NewestSlot(frames, n)
         \/ n = Survivor(frames') /\ frames'[Len(frames')].phase \in {"end", "return"}
  PROVE  IInv'
<1> DEFINE D == Pointers(frames) \ aliases
<1>1. Fresh \in Ptrs /\ Fresh \notin Pointers(frames)
  BY PtrsFresh
<1>2. PICK pos \in [D -> Nat] :
        Linked(term_stack, m_prev, pos) /\ pos[StackEnd] = 1 /\ Shape(frames, pos)
  BY DEF IInv, ListOK
<1>3. Ordered(frames, pos, {})
  BY <1>2 DEF Shape, OnTop, Current, depth
<1>4. frames \in Seq(Frame) /\ m_prev \in [Ptrs -> Ptrs \cup {NoPtr}] /\ term_stack \in Ptrs
      /\ FramesOK(frames) /\ Distinct(frames) /\ AliasesOK(frames, aliases)
  BY DEF IInv, TypeOK
<1>5. D \subseteq Ptrs
  BY <1>4, SlotIs DEF Pointers
<1>6. /\ Distinct(frames') /\ AliasesOK(frames', aliases)
      /\ Pointers(frames') \ aliases = D \cup {Fresh}
      /\ Fresh \notin D /\ StackEnd \in D /\ D \subseteq Pointers(frames)
  <2>1. /\ Distinct(frames') /\ AliasesOK(frames', aliases)
        /\ Pointers(frames') \ aliases = D \cup {Fresh}
    BY <1>1, <1>4, Constructed
  <2>2. StackEnd \in D
    BY <1>4, StackEndIs
  <2> QED BY <2>1, <2>2, <1>1
<1> HIDE DEF D
<1>13. TypeOK'
  BY <1>1, <1>4 DEF IInv, TypeOK, push_root, Adds
<1>14. /\ term_stack' = Fresh /\ m_prev'[Fresh] = term_stack /\ aliases' = aliases
       /\ Assigns(m_prev, m_prev', {Fresh})
  BY <1>1, <1>4, <1>13 DEF push_root, TypeOK, Assigns
<1>15. PICK new : Linked(Fresh, m_prev', new) /\ PushNumbers(D, pos, new, Fresh)
  BY <1>1, <1>2, <1>5, <1>6, <1>14, PushLinked
<1>7. /\ Linked(Fresh, m_prev', new)
      /\ new \in [D \cup {Fresh} -> Nat] /\ Monotone(D, pos, new)
      /\ \A q \in D : new[q] = pos[q] /\ new[q] < new[Fresh]
  BY <1>15 DEF PushNumbers
<1>8. new[StackEnd] = 1
  BY <1>2, <1>6, <1>7
<1>9. /\ Ordered(frames', new, {n})
      /\ NewestSlot(frames, n) => Ordered(frames', new, {})
  <2>1. Ordered(frames', new, {n})
    BY <1>1, <1>3, <1>6, <1>7, OrderedAdd
  <2>2. ASSUME NewestSlot(frames, n) PROVE Ordered(frames', new, {})
    BY <1>1, <1>3, <1>6, <1>7, <2>2, OrderedAdd
  <2> QED BY <2>1, <2>2
<1>10. ASSUME n = Survivor(frames'), frames'[Len(frames')].phase \in {"end", "return"}
       PROVE  OnTop(frames', new)
  <2>1. n \in Slots(frames') /\ At(frames', n) = Fresh
    BY DEF Adds
  <2>2. DOMAIN new = D \cup {Fresh}
    BY <1>7
  <2> QED BY <1>7, <1>10, <2>1, <2>2 DEF OnTop
<1>11. Shape(frames', new)
  BY <1>9, <1>10 DEF Shape
<1>12. ListOK(term_stack', m_prev', frames', aliases')
  BY <1>6, <1>7, <1>8, <1>11, <1>14 DEF ListOK
<1> QED BY <1>6, <1>12, <1>13, <1>14 DEF IInv

LEMMA LastTempIs ==
  ASSUME NEW fs \in Seq(Frame), FramesOK(fs), fs[Len(fs)].temps # <<>>,
         NEW n, n = <<Len(fs), 1, Len(fs[Len(fs)].temps)>>
  PROVE  /\ n \in Slots(fs) /\ At(fs, n) = Last(fs[Len(fs)].temps)
         /\ NewestSlot(fs, n)
<1>1. Kept(fs, Len(fs), 1) = fs[Len(fs)].temps
  BY DEF Kept
<1>2. Len(fs[Len(fs)].temps) \in 1 .. Len(fs[Len(fs)].temps)
  BY Depth
<1>3. n \in Slots(fs) /\ At(fs, n) = Last(fs[Len(fs)].temps)
  BY <1>1, <1>2, SlotHas, Depth DEF Last
<1>4. ASSUME NEW b \in Slots(fs) PROVE ~Before(n, b)
  <2>1. /\ b[1] \in 1 .. Len(fs) /\ b[2] \in {0, 1} /\ b[3] \in Nat
        /\ b[3] \in 1 .. Len(Kept(fs, b[1], b[2]))
    BY SlotIs
  <2>2. n[1] = Len(fs) /\ n[2] = 1 /\ n[3] = Len(fs[Len(fs)].temps)
    OBVIOUS
  <2>3. Len(fs) \in Nat /\ Len(fs[Len(fs)].temps) \in Nat
    BY Depth
  <2> QED BY <2>1, <2>2, <2>3, <1>1 DEF Before
<1> QED BY <1>3, <1>4 DEF NewestSlot

LEMMA Swaps ==
  ASSUME IInv, Current.phase = "run", Current.temps # <<>>, Free # {},
         swap_root(LastTemp, Fresh),
         NEW n, Adds(frames, frames', n, Fresh), FramesOK(frames'),
         n = Survivor(frames'), frames'[Len(frames')].phase \in {"end", "return"},
         frames'[Len(frames')].temps = Current.temps
  PROVE  IInv'
<1> DEFINE D == Pointers(frames) \ aliases
           last == <<depth, 1, Len(Current.temps)>>
<1>1. Fresh \in Ptrs /\ Fresh \notin Pointers(frames)
  BY PtrsFresh
<1>2. PICK pos \in [D -> Nat] :
        Linked(term_stack, m_prev, pos) /\ pos[StackEnd] = 1 /\ Shape(frames, pos)
  BY DEF IInv, ListOK
<1>3. Ordered(frames, pos, {})
  BY <1>2 DEF Shape, OnTop, Current, depth
<1>4. /\ frames \in Seq(Frame) /\ m_prev \in [Ptrs -> Ptrs \cup {NoPtr}] /\ term_stack \in Ptrs
      /\ FramesOK(frames) /\ Distinct(frames) /\ AliasesOK(frames, aliases)
  BY DEF IInv, TypeOK
<1>5. D \subseteq Ptrs
  BY <1>4, SlotIs DEF Pointers
<1>6. /\ Distinct(frames') /\ AliasesOK(frames', aliases)
      /\ Pointers(frames') \ aliases = D \cup {Fresh}
      /\ Fresh \notin D /\ StackEnd \in D /\ D \subseteq Pointers(frames)
  <2>1. /\ Distinct(frames') /\ AliasesOK(frames', aliases)
        /\ Pointers(frames') \ aliases = D \cup {Fresh}
    BY <1>1, <1>4, Constructed
  <2>2. StackEnd \in D
    BY <1>4, StackEndIs
  <2> QED BY <2>1, <2>2, <1>1
<1> HIDE DEF D
<1>7. /\ last \in Slots(frames) /\ At(frames, last) = LastTemp
      /\ NewestSlot(frames, last)
  BY <1>4, LastTempIs DEF Current, depth, LastTemp
<1>8. LastTemp \in D
  BY <1>4, <1>7 DEF AliasesOK, Pointers, D
<1>9. LastTemp = term_stack
  BY <1>2, <1>3, <1>4, <1>6, <1>7, <1>8, NewestIsTopTwo
<1>10. StackEnd # LastTemp
  BY <1>4, <1>7, StackEndIs DEF IInv, Distinct
<1>11. pos[term_stack] # 1 /\ StackEnd \in D
  BY <1>2, <1>6, <1>9, <1>10 DEF Linked
<1>18. TypeOK'
  BY <1>1, <1>4, <1>9 DEF IInv, TypeOK, swap_root, Adds
<1>19. /\ term_stack' = term_stack /\ aliases' = aliases
       /\ m_prev'[Fresh] = m_prev[term_stack] /\ m_prev'[term_stack] = Fresh
       /\ Assigns(m_prev, m_prev', {Fresh, term_stack})
  BY <1>1, <1>4, <1>9, <1>6, <1>8, <1>18 DEF swap_root, TypeOK, Assigns
<1>14. PICK new : Linked(term_stack, m_prev', new) /\ SwapNumbers(D, pos, new, Fresh, term_stack)
  <2>1. Fresh \in Ptrs \ D
    BY <1>1, <1>6
  <2> QED BY <2>1, <1>2, <1>5, <1>11, <1>19, SwapLinked
<1>12. /\ Linked(term_stack, m_prev', new)
       /\ new \in [D \cup {Fresh} -> Nat] /\ Monotone(D, pos, new)
       /\ \A q \in D \ {term_stack} : new[q] = pos[q] /\ new[q] < new[Fresh]
       /\ new[Fresh] < new[term_stack]
  BY <1>14 DEF SwapNumbers
<1>13. new[StackEnd] = 1
  BY <1>2, <1>9, <1>10, <1>11, <1>12
<1>15. Ordered(frames', new, {n})
  BY <1>1, <1>3, <1>6, <1>12, OrderedAdd
<1>16. OnTop(frames', new)
  <2>1. n \in Slots(frames') /\ At(frames', n) = Fresh
    BY DEF Adds
  <2>2. DOMAIN new = D \cup {Fresh}
    BY <1>12
  <2>3. term_stack = Current.temps[Len(Current.temps)]
    BY <1>9 DEF LastTemp, Last
  <2> QED BY <1>12, <2>1, <2>2, <2>3 DEF OnTop
<1>17. ListOK(term_stack', m_prev', frames', aliases')
  BY <1>6, <1>12, <1>13, <1>15, <1>16, <1>19 DEF ListOK, Shape
<1> QED BY <1>6, <1>17, <1>18, <1>19 DEF IInv

(* An alias is constructed, which is not linked.                            *)
LEMMA Aliases ==
  ASSUME IInv, Current.phase = "run", Free # {}, UNCHANGED <<term_stack, m_prev>>,
         aliases' = aliases \cup {Fresh},
         NEW n, Adds(frames, frames', n, Fresh), n[2] = 0, FramesOK(frames')
  PROVE  IInv'
<1> DEFINE D == Pointers(frames) \ aliases
<1>1. Fresh \in Ptrs /\ Fresh \notin Pointers(frames)
  BY PtrsFresh
<1>2. PICK pos \in [D -> Nat] :
        Linked(term_stack, m_prev, pos) /\ pos[StackEnd] = 1 /\ Shape(frames, pos)
  BY DEF IInv, ListOK
<1>3. Ordered(frames, pos, {})
  BY <1>2 DEF Shape, OnTop, Current, depth
<1>4. TypeOK /\ FramesOK(frames) /\ Distinct(frames) /\ AliasesOK(frames, aliases)
  BY DEF IInv
<1>5. Fresh # StackEnd
  BY <1>1, <1>4, StackEndIs DEF TypeOK
<1>6. /\ Distinct(frames') /\ AliasesOK(frames', aliases')
      /\ Pointers(frames') \ aliases' = D
  BY <1>1, <1>4, <1>5, Constructed
<1>7. Ordered(frames', pos, {})
  <2>1. ASSUME NEW a \in Slots(frames'), At(frames', a) \in D
        PROVE  a \in Slots(frames) /\ At(frames', a) = At(frames, a)
    BY <1>1, <2>1 DEF Adds
  <2>2. DOMAIN pos = D
    BY <1>2
  <2> HIDE DEF D
  <2> QED BY <1>3, <2>1, <2>2 DEF Ordered
<1>8. ListOK(term_stack', m_prev', frames', aliases')
  BY <1>2, <1>6, <1>7 DEF ListOK, Shape
<1>9. TypeOK'
  BY <1>1, <1>4 DEF TypeOK, Adds
<1> QED BY <1>6, <1>8, <1>9 DEF IInv

(* The next pointer to go is destroyed.                                     *)
LEMMA Destroys ==
  ASSUME IInv, Current.phase \in {"end", "return"},
         NEW n, Drops(frames, frames', n), NewestSlot(frames, n), n # Survivor(frames),
         NEW p, p = At(frames, n), p # StackEnd, destroy(p),
         Current.temps # <<>> => p = LastTemp, FramesOK(frames'),
         Survivor(frames') = Survivor(frames),
         frames'[Len(frames')].phase = Current.phase
  PROVE  IInv'
<1> DEFINE D == Pointers(frames) \ aliases
<1>1. PICK pos \in [D -> Nat] :
        Linked(term_stack, m_prev, pos) /\ pos[StackEnd] = 1 /\ Shape(frames, pos)
  BY DEF IInv, ListOK
<1>2. /\ frames \in Seq(Frame) /\ m_prev \in [Ptrs -> Ptrs \cup {NoPtr}] /\ term_stack \in Ptrs
      /\ aliases \in SUBSET Ptrs /\ FramesOK(frames) /\ Distinct(frames)
      /\ AliasesOK(frames, aliases)
  BY DEF IInv, TypeOK
<1>3. D \subseteq Ptrs /\ D \subseteq Pointers(frames)
  BY <1>2, SlotIs DEF Pointers
<1>4. /\ Distinct(frames') /\ AliasesOK(frames', aliases')
      /\ Pointers(frames') \ aliases' = D \ {p}
  <2>1. aliases' = aliases \ {p}
    BY DEF destroy
  <2>2. /\ Distinct(frames') /\ AliasesOK(frames', aliases \ {p})
        /\ Pointers(frames') \ (aliases \ {p}) = (Pointers(frames) \ aliases) \ {p}
    <3>1. Distinct(frames) /\ AliasesOK(frames, aliases)
      BY <1>2
    <3>2. Drops(frames, frames', n) /\ p = At(frames, n)
      OBVIOUS
    <3> HIDE DEF D
    <3> QED BY ONLY <3>1, <3>2, Destroyed
  <2> QED BY <2>1, <2>2
<1>5. StackEnd \in D
  BY <1>2, StackEndIs
<1>6. p \in Ptrs /\ (p \in D \/ p \in aliases) /\ n \in Slots(frames)
  BY <1>2, SlotIs DEF Drops, Pointers
<1> HIDE DEF D
<1>7. ASSUME NEW new \in [D \ {p} -> Nat], Monotone(D \ {p}, pos, new)
      PROVE  Shape(frames', new)
  <2>0. D \ {p} \in SUBSET D
    OBVIOUS
  <2>1. ASSUME NEW X, Ordered(frames, pos, X) PROVE Ordered(frames', new, X)
    BY <2>0, <1>7, <2>1, OrderedDrop
  <2>2. ASSUME OnTop(frames, pos) PROVE OnTop(frames', new)
    <3> DEFINE s == At(frames, Survivor(frames))
    <3>1. /\ Survivor(frames) \in Slots(frames) /\ s \in D
          /\ \A q \in D \ {s} : pos[q] < pos[s] \/ q = p
      BY <1>1, <2>2 DEF OnTop, Current, depth, LastTemp, Last
    <3>2. Survivor(frames') \in Slots(frames') /\ At(frames', Survivor(frames')) = s
      BY <3>1 DEF Drops
    <3>3. s # p
      BY <3>1, <1>2, <1>6 DEF Distinct
    <3>4. \A q \in (D \ {p}) \ {s} : new[q] < new[s]
      BY <3>1, <3>3, <1>7 DEF Monotone
    <3> QED BY <3>1, <3>2, <3>3, <3>4 DEF OnTop
  <2> QED BY <1>1, <2>1, <2>2 DEF Shape
<1>8. CASE p \notin D
  <2>1. m_prev[p] = NoPtr
    BY <1>1, <1>6, <1>8 DEF Linked
  <2>2. UNCHANGED <<term_stack, m_prev>>
    BY <2>1 DEF destroy
  <2>3. pos \in [D \ {p} -> Nat] /\ Monotone(D \ {p}, pos, pos) /\ D \ {p} = D
    BY <1>1, <1>8 DEF Monotone
  <2>4. ListOK(term_stack', m_prev', frames', aliases')
    BY <1>1, <1>4, <1>7, <2>2, <2>3 DEF ListOK
  <2>5. TypeOK'
    BY <1>2, <2>2 DEF TypeOK, Drops, destroy
  <2> QED BY <1>4, <2>4, <2>5 DEF IInv
<1>9. CASE p \in D
  <2>1. pos[p] # 1
    BY <1>1, <1>5, <1>9 DEF Linked
  <2>2. m_prev[p] # NoPtr /\ m_prev[p] \in Ptrs
    BY <1>1, <1>3, <1>9, <2>1, PtrsAssumption DEF Linked
  <2>3. pop_root(p)
    BY <2>2 DEF destroy
  <2>4. pos[p] >= pos[term_stack] - 1
    BY <1>1, <1>2, <1>3, <1>6, <1>9, NewestIsTopTwo
  <2>5. /\ m_prev' \in [Ptrs -> Ptrs \cup {NoPtr}] /\ m_prev'[p] = NoPtr /\ term_stack' \in Ptrs
        /\ \/ term_stack = p /\ term_stack' = m_prev[p] /\ Assigns(m_prev, m_prev', {p})
           \/ /\ term_stack # p /\ term_stack' = term_stack
              /\ m_prev'[term_stack] = m_prev[p] /\ Assigns(m_prev, m_prev', {p, term_stack})
    <3>1. CASE term_stack = p
      BY <3>1, <1>2, <1>6, <2>2, <2>3 DEF pop_root, Assigns
    <3>2. CASE term_stack # p
      BY <3>2, <1>2, <1>6, <2>2, <2>3 DEF pop_root, Assigns
    <3> QED BY <3>1, <3>2
  <2>6. PICK new : Linked(term_stack', m_prev', new) /\ PopNumbers(D, pos, new, p)
    BY <1>1, <1>3, <1>9, <2>1, <2>4, <2>5, PopLinked
  <2>7. /\ new \in [D \ {p} -> Nat] /\ Monotone(D \ {p}, pos, new) /\ new[StackEnd] = 1
    BY <1>1, <1>5, <2>6 DEF PopNumbers
  <2>8. ListOK(term_stack', m_prev', frames', aliases')
    BY <1>4, <1>7, <2>6, <2>7 DEF ListOK
  <2>9. TypeOK'
    BY <1>2, <2>5 DEF TypeOK, Drops, destroy
  <2> QED BY <1>4, <2>8, <2>9 DEF IInv
<1> QED BY <1>8, <1>9

(* Nothing is constructed or destroyed.                                     *)
LEMMA Rests ==
  ASSUME IInv, UNCHANGED <<term_stack, m_prev, aliases>>,
         frames' \in Seq(Frame), FramesOK(frames'), Slots(frames') = Slots(frames),
         \A a \in Slots(frames) : At(frames', a) = At(frames, a),
         \/ Current.phase = "run"
         \/ NewestSlot(frames, Survivor(frames)) /\ Current.temps = <<>>
  PROVE  IInv'
<1> DEFINE D == Pointers(frames) \ aliases
<1>1. PICK pos \in [D -> Nat] :
        Linked(term_stack, m_prev, pos) /\ pos[StackEnd] = 1 /\ Shape(frames, pos)
  BY DEF IInv, ListOK
<1>2. TypeOK /\ FramesOK(frames) /\ Distinct(frames) /\ AliasesOK(frames, aliases)
  BY DEF IInv
<1>3. Ordered(frames, pos, {})
  <2>1. CASE Current.phase = "run"
    BY <2>1, <1>1 DEF Shape, OnTop, Current, depth
  <2>2. CASE OnTop(frames, pos) /\ NewestSlot(frames, Survivor(frames)) /\ Current.temps = <<>>
             /\ Ordered(frames, pos, {Survivor(frames)})
    <3> DEFINE n == Survivor(frames)
               s == At(frames, n)
    <3>1. n \in Slots(frames) /\ s \in D /\ \A q \in D \ {s} : pos[q] < pos[s]
      BY <2>2, <1>1 DEF OnTop, Current, depth
    <3>2. SUFFICES ASSUME NEW a \in Slots(frames), NEW b \in Slots(frames), Before(a, b),
                          At(frames, a) \in D, At(frames, b) \in D
                   PROVE  pos[At(frames, a)] < pos[At(frames, b)]
      BY <1>1 DEF Ordered
    <3>3. a # n
      BY <2>2, <3>2 DEF NewestSlot
    <3>4. CASE b = n
      <4>1. At(frames, a) # s
        BY <3>1, <3>3, <1>2 DEF Distinct
      <4> QED BY <3>1, <3>2, <3>4, <4>1
    <3>5. CASE b # n
      <4>1. Ordered(frames, pos, {n})
        BY <2>2
      <4> HIDE DEF n
      <4> QED BY <1>1, <3>2, <3>3, <3>5, <4>1 DEF Ordered
    <3> QED BY <3>4, <3>5
  <2> QED BY <1>1, <2>1, <2>2 DEF Shape
<1>4. Pointers(frames') = Pointers(frames) /\ Distinct(frames') /\ AliasesOK(frames', aliases)
  BY <1>2 DEF Pointers, Distinct, AliasesOK
<1>5. Ordered(frames', pos, {})
  BY <1>3 DEF Ordered
<1>6. ListOK(term_stack', m_prev', frames', aliases')
  BY <1>1, <1>4, <1>5 DEF ListOK, Shape
<1>7. TypeOK'
  BY <1>2 DEF TypeOK
<1> QED BY <1>4, <1>6, <1>7 DEF IInv

-----------------------------------------------------------------------------
(* The steps, by what they do to the frames.                                *)
LEMMA FrameIs ==
  ASSUME NEW fs \in Seq(Frame), NEW e \in 1 .. Len(fs)
  PROVE  /\ fs[e] \in Frame /\ fs[e].locals \in Seq(Ptrs) /\ fs[e].temps \in Seq(Ptrs)
         /\ fs[e].phase \in Phases /\ DOMAIN fs[e] = {"locals", "temps", "phase"}
         /\ Kept(fs, e, 0) = fs[e].locals /\ Kept(fs, e, 1) = fs[e].temps
<1>1. fs[e] \in Frame
  OBVIOUS
<1> QED BY <1>1 DEF Frame, Kept

LEMMA IInvIs ==
  ASSUME IInv
  PROVE  /\ frames \in Seq(Frame) /\ FramesOK(frames) /\ depth \in Nat \ {0}
         /\ depth \in 1 .. Len(frames) /\ Current \in Frame
         /\ Current.temps \in Seq(Ptrs) /\ Current.locals \in Seq(Ptrs)
         /\ Current.phase \in Phases /\ Current = frames[depth] /\ depth = Len(frames)
         /\ \A e \in 1 .. depth : e # depth => frames[e].phase = "run"
BY Depth, FrameIs DEF IInv, TypeOK, FramesOK, Current, depth

(* One function changes.                                                    *)
LEMMA Altered ==
  ASSUME NEW fs \in Seq(Frame), NEW d \in 1 .. Len(fs), NEW f \in Frame,
         NEW gs, gs = [fs EXCEPT ![d] = f]
  PROVE  Alters(fs, gs, d, f)
<1>1. gs \in Seq(Frame) /\ Len(gs) = Len(fs)
  OBVIOUS
<1> QED BY <1>1 DEF Alters

LEMMA AlteredOK ==
  ASSUME IInv, NEW f, Alters(frames, frames', depth, f),
         f.locals = Current.locals \/ depth # 1, f.phase # "return" \/ depth # 1
  PROVE  FramesOK(frames') /\ Len(frames') = depth /\ frames'[depth] = f
BY IInvIs DEF FramesOK, Alters, IInv

LEMMA AlteredSlots ==
  ASSUME IInv, NEW f, Alters(frames, frames', depth, f)
  PROVE  /\ f.locals = Current.locals => SameKept(frames, frames', depth, 1)
         /\ f.temps = Current.temps => SameKept(frames, frames', depth, 0)
         /\ Kept(frames', depth, 1) = f.temps /\ Kept(frames', depth, 0) = f.locals
         /\ Kept(frames, depth, 1) = Current.temps /\ Kept(frames, depth, 0) = Current.locals
BY IInvIs DEF SameKept, Kept, Alters

LEMMA AddsTemp ==
  ASSUME IInv, NEW f, Alters(frames, frames', depth, f), NEW p \in Ptrs,
         f.locals = Current.locals, f.temps = Append(Current.temps, p),
         NEW n, n = <<depth, 1, Len(Current.temps) + 1>>
  PROVE  Adds(frames, frames', n, p) /\ NewestSlot(frames, n)
<1>1. SameKept(frames, frames', depth, 1) /\ depth \in 1 .. Len(frames)
  BY AlteredSlots, IInvIs
<1>2. Kept(frames', depth, 1) = Append(Kept(frames, depth, 1), p)
  BY AlteredSlots
<1>3. n = <<depth, 1, Len(Kept(frames, depth, 1)) + 1>>
  BY AlteredSlots
<1>4. Adds(frames, frames', n, p)
  BY <1>1, <1>2, <1>3, AddSlot
<1>5. NewestSlot(frames, n)
  BY IInvIs, SlotIs, FrameIs DEF NewestSlot, Before
<1> QED BY <1>4, <1>5

LEMMA AddsLocal ==
  ASSUME IInv, NEW f, Alters(frames, frames', depth, f), NEW p \in Ptrs,
         f.temps = Current.temps, f.locals = Append(Current.locals, p),
         f.phase = "end", NEW n, n = <<depth, 0, Len(Current.locals) + 1>>
  PROVE  Adds(frames, frames', n, p) /\ n = Survivor(frames')
<1>1. SameKept(frames, frames', depth, 0) /\ depth \in 1 .. Len(frames)
  BY AlteredSlots, IInvIs
<1>2. Kept(frames', depth, 0) = Append(Kept(frames, depth, 0), p)
  BY AlteredSlots
<1>3. n = <<depth, 0, Len(Kept(frames, depth, 0)) + 1>>
  BY AlteredSlots
<1>4. Adds(frames, frames', n, p)
  BY <1>1, <1>2, <1>3, AddSlot
<1>5. Len(Append(Current.locals, p)) = Len(Current.locals) + 1
  BY IInvIs
<1>6. n = Survivor(frames')
  BY <1>5, IInvIs DEF Survivor, Alters
<1> QED BY <1>4, <1>6

LEMMA TempStep == ASSUME IInv, Temp PROVE IInv'
<1> DEFINE f == [frames[depth] EXCEPT !.temps = Append(Current.temps, Fresh)]
<1>1. Fresh \in Ptrs /\ Current.phase = "run" /\ Free # {} /\ push_root(Fresh)
  BY PtrsFresh DEF Temp, MayConstruct
<1>2. frames' = [frames EXCEPT ![depth].temps = Append(Current.temps, Fresh)]
  BY DEF Temp, Set
<1>3. f \in Frame
  <2>1. Append(Current.temps, Fresh) \in Seq(Ptrs)
    BY <1>1, IInvIs
  <2> QED BY <2>1, IInvIs DEF Frame
<1>4. Alters(frames, frames', depth, f)
  <2>1. frames' = [frames EXCEPT ![depth] = f]
    BY <1>2
  <2> HIDE DEF f
  <2> QED BY <1>3, <2>1, IInvIs, Altered
<1>5. /\ f.locals = Current.locals /\ f.temps = Append(Current.temps, Fresh)
      /\ f.phase = Current.phase
  BY IInvIs DEF Frame
<1> HIDE DEF f
<1>6. /\ Adds(frames, frames', <<depth, 1, Len(Current.temps) + 1>>, Fresh)
      /\ NewestSlot(frames, <<depth, 1, Len(Current.temps) + 1>>)
  BY <1>1, <1>4, <1>5, AddsTemp
<1>7. FramesOK(frames')
  BY <1>1, <1>4, <1>5, AlteredOK
<1> QED BY <1>1, <1>6, <1>7, Pushes

LEMMA LetStep ==
  ASSUME IInv, MayDeclare, Declare(Fresh),
         \/ push_root(Fresh)
         \/ Current.temps # <<>> /\ swap_root(LastTemp, Fresh)
         \/ UNCHANGED <<term_stack, m_prev>> /\ aliases' = aliases \cup {Fresh}
  PROVE  IInv'
<1> DEFINE f == [frames[depth] EXCEPT !.locals = Append(@, Fresh), !.phase = "end"]
           n == <<depth, 0, Len(Current.locals) + 1>>
<1>1. Fresh \in Ptrs /\ Current.phase = "run" /\ Free # {} /\ depth # 1
  BY PtrsFresh, IInvIs DEF MayDeclare, MayConstruct
<1>2. frames' = [frames EXCEPT ![depth] = f]
  BY DEF Declare, Current
<1>3. f \in Frame
  <2>1. Append(Current.locals, Fresh) \in Seq(Ptrs)
    BY <1>1, IInvIs
  <2> QED BY <2>1, IInvIs DEF Frame, Phases
<1>4. Alters(frames, frames', depth, f)
  <2> HIDE DEF f
  <2> QED BY <1>2, <1>3, IInvIs, Altered
<1>5. /\ f.temps = Current.temps /\ f.locals = Append(Current.locals, Fresh)
      /\ f.phase = "end"
  BY IInvIs DEF Frame
<1> HIDE DEF f
<1>6. Adds(frames, frames', n, Fresh) /\ n = Survivor(frames')
  BY <1>1, <1>4, <1>5, AddsLocal
<1>7. FramesOK(frames') /\ Len(frames') = depth /\ frames'[depth] = f
  BY <1>1, <1>4, <1>5, AlteredOK
<1>8. n[2] = 0
  OBVIOUS
<1> HIDE DEF n
<1>9. CASE push_root(Fresh)
  BY <1>1, <1>5, <1>6, <1>7, <1>9, Pushes
<1>10. CASE Current.temps # <<>> /\ swap_root(LastTemp, Fresh)
  BY <1>1, <1>5, <1>6, <1>7, <1>10, Swaps
<1>11. CASE UNCHANGED <<term_stack, m_prev>> /\ aliases' = aliases \cup {Fresh}
  BY <1>1, <1>6, <1>7, <1>8, <1>11, Aliases
<1> QED BY <1>9, <1>10, <1>11

LEMMA LetSteps == ASSUME IInv, Let \/ LetFromTemp \/ LetAlias PROVE IInv'
BY LetStep DEF Let, LetFromTemp, LetAlias

(* A function goes on to another phase.                                     *)
LEMMA PhaseStep ==
  ASSUME IInv, UNCHANGED <<term_stack, m_prev, aliases>>, NEW ph \in Phases,
         frames' = [frames EXCEPT ![depth].phase = ph], ph # "return" \/ depth # 1,
         \/ Current.phase = "run"
         \/ NewestSlot(frames, Survivor(frames)) /\ Current.temps = <<>>
  PROVE  IInv'
<1> DEFINE f == [frames[depth] EXCEPT !.phase = ph]
<1>1. f \in Frame
  BY IInvIs DEF Frame
<1>2. Alters(frames, frames', depth, f)
  <2>1. frames' = [frames EXCEPT ![depth] = f]
    OBVIOUS
  <2> HIDE DEF f
  <2> QED BY <1>1, <2>1, IInvIs, Altered
<1>3. f.temps = Current.temps /\ f.locals = Current.locals /\ f.phase = ph
  BY IInvIs DEF Frame
<1> HIDE DEF f
<1>4. FramesOK(frames')
  BY <1>2, <1>3, AlteredOK
<1>5. /\ frames' \in Seq(Frame) /\ Len(frames') = Len(frames)
      /\ \A e \in 1 .. Len(frames), k \in {0, 1} : Kept(frames', e, k) = Kept(frames, e, k)
  <2>1. frames' \in Seq(Frame) /\ Len(frames') = Len(frames)
    BY <1>2 DEF Alters
  <2>2. ASSUME NEW e \in 1 .. Len(frames), NEW k \in {0, 1}
        PROVE  Kept(frames', e, k) = Kept(frames, e, k)
    BY <1>2, <1>3, IInvIs DEF Alters, Kept
  <2> QED BY <2>1, <2>2
<1>6. Slots(frames') = Slots(frames) /\ \A a \in Slots(frames) : At(frames', a) = At(frames, a)
  BY <1>5 DEF Slots, At
<1> QED BY <1>4, <1>5, <1>6, Rests

LEMMA EndExpressionStep == ASSUME IInv, EndExpression PROVE IInv'
<1>1. frames' = [frames EXCEPT ![depth].phase = "end"]
  BY DEF EndExpression, Set
<1> QED BY <1>1, PhaseStep DEF EndExpression, Phases

LEMMA ReturnVoidStep == ASSUME IInv, ReturnVoid PROVE IInv'
<1>1. frames' = [frames EXCEPT ![depth].phase = "return"]
  BY DEF ReturnVoid, Set
<1> QED BY <1>1, PhaseStep, IInvIs DEF ReturnVoid, Phases

LEMMA LastLocalIs ==
  ASSUME NEW fs \in Seq(Frame), FramesOK(fs), fs[Len(fs)].temps = <<>>,
         NEW n, n = <<Len(fs), 0, Len(fs[Len(fs)].locals)>>
  PROVE  /\ NewestSlot(fs, n)
         /\ fs[Len(fs)].locals # <<>> => n \in Slots(fs) /\ At(fs, n) = Last(fs[Len(fs)].locals)
<1>1. Kept(fs, Len(fs), 1) = <<>> /\ Kept(fs, Len(fs), 0) = fs[Len(fs)].locals
  BY DEF Kept
<1>2. fs[Len(fs)].locals # <<>> => Len(fs[Len(fs)].locals) \in 1 .. Len(fs[Len(fs)].locals)
  BY Depth
<1>3. fs[Len(fs)].locals # <<>> => n \in Slots(fs) /\ At(fs, n) = Last(fs[Len(fs)].locals)
  BY <1>1, <1>2, SlotHas, Depth DEF Last
<1>4. ASSUME NEW b \in Slots(fs) PROVE ~Before(n, b)
  <2>1. /\ b[1] \in 1 .. Len(fs) /\ b[2] \in {0, 1} /\ b[3] \in Nat
        /\ b[3] \in 1 .. Len(Kept(fs, b[1], b[2]))
    BY SlotIs
  <2>2. n[1] = Len(fs) /\ n[2] = 0 /\ n[3] = Len(fs[Len(fs)].locals)
    OBVIOUS
  <2>3. Len(fs) \in Nat /\ Len(fs[Len(fs)].locals) \in Nat
    BY Depth
  <2>4. ~(b[1] = Len(fs) /\ b[2] = 1)
    BY <1>1, <2>1
  <2> QED BY <2>1, <2>2, <2>3, <2>4, <1>1 DEF Before
<1> QED BY <1>3, <1>4 DEF NewestSlot

LEMMA NextStatementStep == ASSUME IInv, NextStatement PROVE IInv'
<1>1. frames' = [frames EXCEPT ![depth].phase = "run"]
  BY DEF NextStatement, Set
<1>2. Survivor(frames) = <<depth, 0, Len(Current.locals)>>
  BY DEF Survivor, NextStatement, Current, depth
<1>3. NewestSlot(frames, Survivor(frames))
  BY <1>2, IInvIs, LastLocalIs DEF NextStatement, Current, depth
<1> QED BY <1>1, <1>3, PhaseStep DEF NextStatement, Phases

LEMMA CallStep == ASSUME IInv, Call PROVE IInv'
<1> DEFINE f == [locals |-> <<>>, temps |-> <<>>, phase |-> "run"]
<1>1. f \in Frame /\ f.locals = <<>> /\ f.temps = <<>> /\ f.phase = "run"
  BY DEF Frame, Phases
<1>2. frames' = Append(frames, f)
  BY DEF Call
<1> HIDE DEF f
<1>3. /\ frames' \in Seq(Frame) /\ Len(frames') = depth + 1 /\ frames'[depth + 1] = f
      /\ \A e \in 1 .. depth : frames'[e] = frames[e]
  BY <1>1, <1>2, IInvIs
<1>4. FramesOK(frames')
  <2>1. \A d \in 1 .. Len(frames') : d # Len(frames') => frames'[d].phase = "run"
    BY <1>3, IInvIs DEF Call
  <2>2. /\ 1 \in 1 .. depth /\ frames'[1] = frames[1]
        /\ frames[1].phase # "return" /\ frames[1].locals # <<>>
        /\ frames[1].locals[1] = StackEnd
    BY <1>3, IInvIs DEF FramesOK
  <2> QED BY <1>3, <2>1, <2>2, IInvIs DEF FramesOK
<1>5. ASSUME NEW e \in 1 .. depth + 1, NEW k \in {0, 1}
      PROVE  IF e = depth + 1 THEN Kept(frames', e, k) = <<>>
             ELSE e \in 1 .. depth /\ Kept(frames', e, k) = Kept(frames, e, k)
  BY <1>1, <1>3, IInvIs DEF Kept
<1>6. Slots(frames') = Slots(frames)
  <2>1. ASSUME NEW a \in Slots(frames') PROVE a \in Slots(frames)
    <3>1. /\ a \in (1 .. depth + 1) \X {0, 1} \X Nat /\ a[1] \in 1 .. depth + 1 /\ a[2] \in {0, 1}
          /\ a[3] \in 1 .. Len(Kept(frames', a[1], a[2])) /\ a = <<a[1], a[2], a[3]>>
      BY <1>3 DEF Slots
    <3>2. a[1] # depth + 1
      BY <3>1, <1>5
    <3> QED BY <3>1, <3>2, <1>5, IInvIs DEF Slots
  <2>2. ASSUME NEW a \in Slots(frames) PROVE a \in Slots(frames')
    <3>1. /\ a[1] \in 1 .. depth /\ a[2] \in {0, 1} /\ a[3] \in Nat
          /\ a[3] \in 1 .. Len(Kept(frames, a[1], a[2])) /\ a = <<a[1], a[2], a[3]>>
      BY SlotIs, IInvIs
    <3>2. a[1] \in 1 .. depth + 1 /\ a[1] # depth + 1
      BY <3>1, IInvIs
    <3> QED BY <3>1, <3>2, <1>3, <1>5 DEF Slots
  <2> QED BY <2>1, <2>2
<1>7. \A a \in Slots(frames) : At(frames', a) = At(frames, a)
  <2>1. SUFFICES ASSUME NEW a \in Slots(frames) PROVE At(frames', a) = At(frames, a)
    OBVIOUS
  <2>2. a[1] \in 1 .. depth /\ a[2] \in {0, 1} /\ depth \in Nat
    BY SlotIs, IInvIs
  <2>3. a[1] \in 1 .. depth + 1 /\ a[1] # depth + 1
    BY <2>2
  <2> QED BY <2>2, <2>3, <1>5 DEF At
<1> QED BY <1>3, <1>4, <1>6, <1>7, Rests DEF Call

LEMMA DestroyTempStep == ASSUME IInv, DestroyTemp PROVE IInv'
<1> DEFINE f == [frames[depth] EXCEPT !.temps = Front(Current.temps)]
           n == <<depth, 1, Len(Current.temps)>>
<1>1. /\ Current.phase \in {"end", "return"} /\ Current.temps # <<>> /\ destroy(LastTemp)
      /\ frames' = [frames EXCEPT ![depth].temps = Front(Current.temps)]
  BY DEF DestroyTemp, Set
<1>2. f \in Frame
  <2>1. Front(Current.temps) \in Seq(Ptrs)
    BY IInvIs DEF Front
  <2> QED BY <2>1, IInvIs DEF Frame
<1>3. Alters(frames, frames', depth, f)
  <2>1. frames' = [frames EXCEPT ![depth] = f]
    BY <1>1
  <2> HIDE DEF f
  <2> QED BY <1>2, <2>1, IInvIs, Altered
<1>4. /\ f.locals = Current.locals /\ f.temps = Front(Current.temps)
      /\ f.phase = Current.phase
  BY IInvIs DEF Frame
<1> HIDE DEF f
<1>5. depth = 1 => Current.phase # "return"
  BY IInvIs DEF FramesOK
<1>6. FramesOK(frames') /\ Len(frames') = depth /\ frames'[depth] = f
  BY <1>3, <1>4, <1>5, AlteredOK
<1>7. Drops(frames, frames', n) /\ At(frames, n) = LastTemp
  <2>1. /\ SameKept(frames, frames', depth, 1) /\ depth \in 1 .. Len(frames)
        /\ Kept(frames', depth, 1) = Front(Kept(frames, depth, 1))
        /\ Kept(frames, depth, 1) = Current.temps
    BY <1>3, <1>4, AlteredSlots, IInvIs
  <2>2. Kept(frames, depth, 1) # <<>> /\ n = <<depth, 1, Len(Kept(frames, depth, 1))>>
    BY <1>1, <2>1
  <2>3. Drops(frames, frames', n) /\ At(frames, n) = Last(Kept(frames, depth, 1))
    BY <2>1, <2>2, DropSlot
  <2> QED BY <2>1, <2>3 DEF LastTemp
<1>8. NewestSlot(frames, n)
  BY <1>1, LastTempIs, IInvIs
<1>9. Survivor(frames') = Survivor(frames) /\ n # Survivor(frames)
  <2>1. CASE Current.phase = "end"
    BY <2>1, <1>4, <1>6, IInvIs DEF Survivor
  <2>2. CASE Current.phase = "return"
    <3>1. depth - 1 \in 1 .. depth /\ depth - 1 # depth
      BY <1>5, <2>2, IInvIs
    <3>2. frames'[depth - 1] = frames[depth - 1]
      BY <3>1, <1>3, IInvIs DEF Alters
    <3> QED BY <2>2, <3>1, <3>2, <1>4, <1>6, IInvIs DEF Survivor
  <2> QED BY <1>1, <2>1, <2>2
<1>10. LastTemp # StackEnd
  <2>1. /\ <<1, 0, 1>> \in Slots(frames) /\ At(frames, <<1, 0, 1>>) = StackEnd
        /\ n \in Slots(frames) /\ n # <<1, 0, 1>>
    BY <1>7, StackEndIs DEF IInv, TypeOK, Drops
  <2> QED BY <2>1, <1>7 DEF IInv, Distinct
<1> HIDE DEF n
<1>11. frames'[Len(frames')].phase = Current.phase
  BY <1>4, <1>6
<1> QED BY <1>1, <1>6, <1>7, <1>8, <1>9, <1>10, <1>11, Destroys

LEMMA DestroyLocalStep == ASSUME IInv, DestroyLocal PROVE IInv'
<1> DEFINE f == [frames[depth] EXCEPT !.locals = Front(Current.locals)]
           n == <<depth, 0, Len(Current.locals)>>
           p == Last(Current.locals)
<1>1. /\ Current.phase = "return" /\ Current.temps = <<>> /\ Current.locals # <<>> /\ destroy(p)
      /\ frames' = [frames EXCEPT ![depth].locals = Front(Current.locals)]
  BY DEF DestroyLocal, Set
<1>2. f \in Frame
  <2>1. Front(Current.locals) \in Seq(Ptrs)
    BY IInvIs DEF Front
  <2> QED BY <2>1, IInvIs DEF Frame
<1>3. Alters(frames, frames', depth, f)
  <2>1. frames' = [frames EXCEPT ![depth] = f]
    BY <1>1
  <2> HIDE DEF f
  <2> QED BY <1>2, <2>1, IInvIs, Altered
<1>4. /\ f.temps = Current.temps /\ f.locals = Front(Current.locals)
      /\ f.phase = Current.phase
  BY IInvIs DEF Frame
<1> HIDE DEF f
<1>5. depth # 1
  BY <1>1, IInvIs DEF FramesOK
<1>6. FramesOK(frames') /\ Len(frames') = depth /\ frames'[depth] = f
  BY <1>3, <1>4, <1>5, AlteredOK
<1>7. Drops(frames, frames', n) /\ At(frames, n) = p
  <2>1. /\ SameKept(frames, frames', depth, 0) /\ depth \in 1 .. Len(frames)
        /\ Kept(frames', depth, 0) = Front(Kept(frames, depth, 0))
        /\ Kept(frames, depth, 0) = Current.locals
    BY <1>3, <1>4, AlteredSlots, IInvIs
  <2>2. Kept(frames, depth, 0) # <<>> /\ n = <<depth, 0, Len(Kept(frames, depth, 0))>>
    BY <1>1, <2>1
  <2>3. Drops(frames, frames', n) /\ At(frames, n) = Last(Kept(frames, depth, 0))
    BY <2>1, <2>2, DropSlot
  <2> QED BY <2>1, <2>3
<1>8. NewestSlot(frames, n)
  BY <1>1, LastLocalIs, IInvIs
<1>9. Survivor(frames') = Survivor(frames) /\ n # Survivor(frames)
  <2>1. depth - 1 \in 1 .. depth /\ depth - 1 # depth
    BY <1>5, IInvIs
  <2>2. frames'[depth - 1] = frames[depth - 1]
    BY <2>1, <1>3, IInvIs DEF Alters
  <2>3. Survivor(frames) = <<depth - 1, 1, Len(frames[depth - 1].temps)>>
    BY <1>1, IInvIs DEF Survivor
  <2>4. Survivor(frames') = <<depth - 1, 1, Len(frames'[depth - 1].temps)>>
    BY <1>1, <1>4, <1>6 DEF Survivor
  <2> QED BY <2>2, <2>3, <2>4
<1>10. p # StackEnd
  <2>1. /\ <<1, 0, 1>> \in Slots(frames) /\ At(frames, <<1, 0, 1>>) = StackEnd
        /\ n \in Slots(frames) /\ n # <<1, 0, 1>>
    BY <1>5, <1>7, StackEndIs DEF IInv, TypeOK, Drops
  <2> QED BY <2>1, <1>7 DEF IInv, Distinct
<1>11. frames'[Len(frames')].phase = Current.phase
  BY <1>4, <1>6
<1>12. Current.phase \in {"end", "return"} /\ Current.temps = <<>> /\ destroy(p)
  BY <1>1
<1> HIDE DEF n, p
<1> QED BY <1>6, <1>7, <1>8, <1>9, <1>10, <1>11, <1>12, Destroys

LEMMA ReturnedStep == ASSUME IInv, Returned PROVE IInv'
<1>1. /\ Current.phase = "return" /\ frames' = Front(frames)
      /\ Range(Current.locals) = {} /\ Range(Current.temps) = {}
      /\ UNCHANGED <<term_stack, m_prev, aliases>>
  BY DEF Returned, Objects
<1>2. Current.locals = <<>> /\ Current.temps = <<>>
  <2>1. ASSUME NEW s \in Seq(Ptrs), Range(s) = {} PROVE s = <<>>
    <3>1. Len(s) # 0 => s[1] \in Range(s)
      BY DEF Range
    <3> QED BY <2>1, <3>1
  <2> QED BY <2>1, <1>1, IInvIs
<1>3. depth # 1 /\ depth - 1 \in 1 .. depth /\ depth - 1 # depth
  BY <1>1, IInvIs DEF FramesOK
<1>4. /\ frames' \in Seq(Frame) /\ Len(frames') = depth - 1
      /\ \A e \in 1 .. depth - 1 : frames'[e] = frames[e]
  BY <1>1, <1>3, IInvIs DEF Front
<1>5. FramesOK(frames')
  <2>1. \A e \in 1 .. Len(frames') : frames'[e].phase = "run"
    BY <1>3, <1>4, IInvIs
  <2>2. 1 \in 1 .. depth - 1 /\ frames'[1] = frames[1] /\ frames' # <<>>
    BY <1>3, <1>4, IInvIs
  <2> QED BY <2>1, <2>2, <1>4, IInvIs DEF FramesOK
<1>6. ASSUME NEW e \in 1 .. depth, NEW k \in {0, 1}
      PROVE  IF e = depth THEN Kept(frames, e, k) = <<>>
             ELSE e \in 1 .. depth - 1 /\ Kept(frames', e, k) = Kept(frames, e, k)
  BY <1>2, <1>3, <1>4, IInvIs DEF Kept
<1>7. ASSUME NEW a \in Slots(frames)
      PROVE  a[1] \in 1 .. depth - 1 /\ a \in Slots(frames') /\ At(frames', a) = At(frames, a)
  <2>1. /\ a[1] \in 1 .. depth /\ a[2] \in {0, 1} /\ a[3] \in Nat
        /\ a[3] \in 1 .. Len(Kept(frames, a[1], a[2])) /\ a = <<a[1], a[2], a[3]>>
    BY SlotIs, IInvIs
  <2>2. a[1] # depth
    BY <2>1, <1>6
  <2> QED BY <2>1, <2>2, <1>4, <1>6 DEF Slots, At
<1>8. Slots(frames') = Slots(frames)
  <2>1. ASSUME NEW a \in Slots(frames') PROVE a \in Slots(frames)
    <3>1. /\ a[1] \in 1 .. depth - 1 /\ a[2] \in {0, 1} /\ a[3] \in Nat
          /\ a[3] \in 1 .. Len(Kept(frames', a[1], a[2])) /\ a = <<a[1], a[2], a[3]>>
      BY SlotIs, <1>4
    <3>2. a[1] \in 1 .. depth /\ a[1] # depth
      BY <3>1, IInvIs
    <3> QED BY <3>1, <3>2, <1>4, <1>6, IInvIs DEF Slots
  <2> QED BY <1>7, <2>1
<1>9. NewestSlot(frames, Survivor(frames))
  <2>1. Survivor(frames) = <<depth - 1, 1, Len(frames[depth - 1].temps)>>
    BY <1>1, IInvIs DEF Survivor
  <2>2. Kept(frames, depth - 1, 1) = frames[depth - 1].temps
    BY DEF Kept
  <2>3. Kept(frames, depth - 1, 1) \in Seq(Ptrs)
    BY <1>3, <2>2, IInvIs, FrameIs
  <2>4. ASSUME NEW b \in Slots(frames) PROVE ~Before(Survivor(frames), b)
    <3>1. /\ b[1] \in 1 .. depth - 1 /\ b[2] \in {0, 1} /\ b[3] \in Nat
          /\ b[3] \in 1 .. Len(Kept(frames, b[1], b[2]))
      BY SlotIs, <1>7, IInvIs
    <3> QED BY <2>1, <2>2, <2>3, <3>1, <1>3, IInvIs DEF Before
  <2> QED BY <2>4 DEF NewestSlot
<1> QED BY <1>1, <1>2, <1>4, <1>5, <1>7, <1>8, <1>9, Rests

(* The result becomes a temporary of the caller.                            *)
Hands(fs, gs, d, p, temps) ==
  /\ fs \in Seq(Frame) /\ gs \in Seq(Frame) /\ Len(fs) = d /\ Len(gs) = d
  /\ d \in 1 .. d /\ d - 1 \in 1 .. d /\ d - 1 # d
  /\ \A e \in 1 .. d : gs[e].locals = fs[e].locals /\ (e # d => gs[e].phase = fs[e].phase)
  /\ \A e \in 1 .. d : e # d /\ e # d - 1 => gs[e].temps = fs[e].temps
  /\ gs[d].phase = "return" /\ gs[d].temps = temps
  /\ gs[d - 1].temps = Append(fs[d - 1].temps, p)

LEMMA AlteredTwice ==
  ASSUME NEW fs \in Seq(Frame), NEW d \in 1 .. Len(fs), NEW e \in 1 .. Len(fs), d # e,
         NEW f \in Frame, NEW g \in Frame, NEW gs, gs = [fs EXCEPT ![d] = f, ![e] = g]
  PROVE  /\ gs \in Seq(Frame) /\ Len(gs) = Len(fs) /\ gs[d] = f /\ gs[e] = g
         /\ \A i \in 1 .. Len(fs) : i # d /\ i # e => gs[i] = fs[i]
OBVIOUS

LEMMA HandIs ==
  ASSUME IInv, depth > 1, NEW p \in Ptrs, NEW temps \in Seq(Ptrs), Hand(p, temps)
  PROVE  Hands(frames, frames', depth, p, temps) /\ FramesOK(frames')
<1> DEFINE f == [frames[depth] EXCEPT !.temps = temps, !.phase = "return"]
           g == [frames[depth - 1] EXCEPT !.temps = Append(@, p)]
<1>1. /\ depth \in 1 .. depth /\ depth - 1 \in 1 .. depth /\ depth - 1 # depth
      /\ frames[depth - 1] \in Frame /\ frames[depth] \in Frame
      /\ frames[depth - 1].temps \in Seq(Ptrs) /\ depth = Len(frames)
  BY IInvIs, FrameIs
<1>2. frames' = [frames EXCEPT ![depth - 1] = g, ![depth] = f]
  BY DEF Hand, Current
<1>3. /\ f \in Frame /\ f.temps = temps /\ f.phase = "return"
      /\ f.locals = frames[depth].locals
  BY <1>1 DEF Frame, Phases
<1>4. /\ g \in Frame /\ g.temps = Append(frames[depth - 1].temps, p)
      /\ g.phase = frames[depth - 1].phase /\ g.locals = frames[depth - 1].locals
  <2>1. Append(frames[depth - 1].temps, p) \in Seq(Ptrs)
    BY <1>1
  <2> QED BY <1>1, <2>1 DEF Frame
<1> HIDE DEF f, g
<1>5. /\ frames' \in Seq(Frame) /\ Len(frames') = depth
      /\ frames'[depth] = f /\ frames'[depth - 1] = g
      /\ \A e \in 1 .. depth : e # depth /\ e # depth - 1 => frames'[e] = frames[e]
  <2>1. depth - 1 \in 1 .. Len(frames) /\ depth \in 1 .. Len(frames) /\ depth - 1 # depth
    BY <1>1
  <2>2. frames \in Seq(Frame) /\ f \in Frame /\ g \in Frame
    BY <1>3, <1>4, IInvIs
  <2>3. /\ frames' \in Seq(Frame) /\ Len(frames') = Len(frames)
        /\ frames'[depth - 1] = g /\ frames'[depth] = f
        /\ \A i \in 1 .. Len(frames) : i # depth - 1 /\ i # depth => frames'[i] = frames[i]
    BY ONLY <1>2, <2>1, <2>2, AlteredTwice
  <2> QED BY <1>1, <2>3
<1>6. \A e \in 1 .. depth :
        /\ frames'[e].locals = frames[e].locals
        /\ e # depth => frames'[e].phase = frames[e].phase
        /\ e # depth /\ e # depth - 1 => frames'[e].temps = frames[e].temps
  BY <1>1, <1>3, <1>4, <1>5
<1>7. Hands(frames, frames', depth, p, temps)
  BY <1>1, <1>3, <1>4, <1>5, <1>6, IInvIs DEF Hands
<1>8. FramesOK(frames')
  <2>1. \A d \in 1 .. Len(frames') : d # Len(frames') => frames'[d].phase = "run"
    BY <1>5, <1>6, IInvIs
  <2>2. 1 \in 1 .. depth /\ 1 # depth
    BY <1>1, IInvIs
  <2>3. /\ frames'[1].phase # "return" /\ frames'[1].locals # <<>>
        /\ frames'[1].locals[1] = StackEnd
    BY <2>1, <2>2, <1>5, <1>6, IInvIs DEF FramesOK
  <2>4. frames' # <<>>
    BY <1>1, <1>5
  <2> QED BY <2>1, <2>3, <2>4 DEF FramesOK
<1> QED BY <1>7, <1>8

LEMMA HandsAdds ==
  ASSUME NEW fs, NEW gs, NEW d, NEW p \in Ptrs, Hands(fs, gs, d, p, fs[d].temps),
         NEW n, n = <<d - 1, 1, Len(fs[d - 1].temps) + 1>>
  PROVE  /\ Adds(fs, gs, n, p) /\ n = Survivor(gs)
         /\ gs[Len(gs)].phase = "return" /\ gs[Len(gs)].temps = fs[d].temps
<1>1. SameKept(fs, gs, d - 1, 1)
  <2>1. ASSUME NEW e \in 1 .. d, NEW j \in {0, 1}, e # d - 1 \/ j # 1
        PROVE  Kept(gs, e, j) = Kept(fs, e, j)
    BY <2>1 DEF Hands, Kept
  <2> QED BY <2>1 DEF Hands, SameKept
<1>2. Kept(fs, d - 1, 1) = fs[d - 1].temps /\ Kept(gs, d - 1, 1) = gs[d - 1].temps
  BY DEF Kept
<1>3. d - 1 \in 1 .. Len(fs) /\ Kept(gs, d - 1, 1) = Append(Kept(fs, d - 1, 1), p)
  BY <1>2 DEF Hands
<1>4. Adds(fs, gs, n, p)
  BY <1>1, <1>2, <1>3, AddSlot
<1>5. fs[d - 1].temps \in Seq(Ptrs)
  BY FrameIs DEF Hands
<1>6. Len(Append(fs[d - 1].temps, p)) = Len(fs[d - 1].temps) + 1
  BY <1>5
<1>7. Survivor(gs) = <<d - 1, 1, Len(gs[d - 1].temps)>>
  BY DEF Survivor, Hands
<1> QED BY <1>4, <1>6, <1>7 DEF Hands

LEMMA ReturnTermSteps == ASSUME IInv, ReturnTerm \/ ReturnTemp PROVE IInv'
<1> DEFINE n == <<depth - 1, 1, Len(frames[depth - 1].temps) + 1>>
<1>1. /\ depth > 1 /\ Current.phase = "run" /\ Free # {} /\ Hand(Fresh, Current.temps)
      /\ (push_root(Fresh) \/ (Current.temps # <<>> /\ swap_root(LastTemp, Fresh)))
  <2>1. CASE ReturnTerm
    BY <2>1 DEF ReturnTerm, MayConstruct
  <2>2. CASE ReturnTemp
    BY <2>2 DEF ReturnTemp, MayConstruct
  <2> QED BY <2>1, <2>2
<1>2. Fresh \in Ptrs
  BY <1>1, PtrsFresh
<1>3. Hands(frames, frames', depth, Fresh, frames[depth].temps) /\ FramesOK(frames')
  <2>1. Current.temps \in Seq(Ptrs) /\ Current.temps = frames[depth].temps
    BY IInvIs
  <2> QED BY <1>1, <1>2, <2>1, HandIs
<1>4. /\ Adds(frames, frames', n, Fresh) /\ n = Survivor(frames')
      /\ frames'[Len(frames')].phase = "return"
      /\ frames'[Len(frames')].temps = Current.temps
  <2>1. /\ Adds(frames, frames', n, Fresh) /\ n = Survivor(frames')
        /\ frames'[Len(frames')].phase = "return"
        /\ frames'[Len(frames')].temps = frames[depth].temps
    <3> HIDE DEF n
    <3>1. n = <<depth - 1, 1, Len(frames[depth - 1].temps) + 1>>
      BY DEF n
    <3> QED BY ONLY <1>2, <1>3, <3>1, HandsAdds
  <2> QED BY <2>1, IInvIs
<1>5. frames'[Len(frames')].phase \in {"end", "return"}
  BY <1>4
<1> HIDE DEF n
<1>6. CASE push_root(Fresh)
  BY <1>1, <1>3, <1>4, <1>5, <1>6, Pushes
<1>7. CASE Current.temps # <<>> /\ swap_root(LastTemp, Fresh)
  BY <1>1, <1>3, <1>4, <1>5, <1>7, Swaps
<1> QED BY <1>1, <1>6, <1>7

LEMMA ElidedSlots ==
  ASSUME IInv, depth > 1, Current.temps # <<>>, NEW p, p = LastTemp,
         Hands(frames, frames', depth, p, Front(Current.temps)),
         NEW n, n = <<depth, 1, Len(Current.temps)>>,
         NEW m, m = <<depth - 1, 1, Len(frames[depth - 1].temps) + 1>>
  PROVE  \E mid : /\ Drops(frames, mid, n) /\ Adds(mid, frames', m, p) /\ FramesOK(mid)
                  /\ At(frames, n) = p /\ m = Survivor(frames')
<1> DEFINE f == [frames[depth] EXCEPT !.temps = Front(Current.temps)]
           mid == [frames EXCEPT ![depth] = f]
<1>1. /\ depth \in 1 .. Len(frames) /\ depth - 1 \in 1 .. Len(frames) /\ depth - 1 # depth
      /\ frames \in Seq(Frame) /\ Front(Current.temps) \in Seq(Ptrs) /\ depth = Len(frames)
  BY IInvIs DEF Front
<1>2. /\ f \in Frame /\ f.temps = Front(Current.temps) /\ f.locals = frames[depth].locals
      /\ f.phase = frames[depth].phase
  BY <1>1, IInvIs DEF Frame
<1>3. Alters(frames, mid, depth, f)
  <2> HIDE DEF f
  <2> QED BY <1>1, <1>2, Altered
<1> HIDE DEF f, mid
<1>4. /\ mid \in Seq(Frame) /\ Len(mid) = Len(frames) /\ mid[depth] = f
      /\ \A e \in 1 .. Len(frames) : e # depth => mid[e] = frames[e]
  BY <1>3 DEF Alters
<1>5. SameKept(frames, mid, depth, 1)
  BY <1>1, <1>2, <1>4 DEF SameKept, Kept
<1>6. /\ Kept(frames, depth, 1) = Current.temps
      /\ Kept(mid, depth, 1) = Front(Kept(frames, depth, 1))
  BY <1>2, <1>4, IInvIs DEF Kept
<1>7. Drops(frames, mid, n) /\ At(frames, n) = p
  <2>1. Kept(frames, depth, 1) # <<>> /\ n = <<depth, 1, Len(Kept(frames, depth, 1))>>
    BY <1>6
  <2>2. Drops(frames, mid, n) /\ At(frames, n) = Last(Kept(frames, depth, 1))
    BY <1>1, <1>5, <1>6, <2>1, DropSlot
  <2> QED BY <2>2, <1>6 DEF LastTemp
<1>8. SameKept(mid, frames', depth - 1, 1)
  <2>1. ASSUME NEW e \in 1 .. depth, NEW j \in {0, 1}, e # depth - 1 \/ j # 1
        PROVE  Kept(frames', e, j) = Kept(mid, e, j)
    <3>1. CASE e = depth
      BY <3>1, <1>2, <1>4 DEF Hands, Kept
    <3>2. CASE e # depth
      BY <3>2, <2>1, <1>1, <1>4 DEF Hands, Kept
    <3> QED BY <3>1, <3>2
  <2> QED BY <1>1, <1>4, <2>1 DEF SameKept, Hands
<1>9. /\ Kept(mid, depth - 1, 1) = frames[depth - 1].temps
      /\ Kept(frames', depth - 1, 1) = Append(Kept(mid, depth - 1, 1), p)
  BY <1>1, <1>4 DEF Kept, Hands
<1>10. p \in Ptrs
  BY <1>1, <1>7, SlotIs DEF Drops
<1>11. Adds(mid, frames', m, p)
  <2>1. depth - 1 \in 1 .. Len(mid) /\ m = <<depth - 1, 1, Len(Kept(mid, depth - 1, 1)) + 1>>
    BY <1>1, <1>4, <1>9
  <2> QED BY <1>8, <1>9, <1>10, <2>1, AddSlot
<1>12. FramesOK(mid)
  BY <1>1, <1>2, <1>4, IInvIs DEF FramesOK
<1>13. m = Survivor(frames')
  <2>1. frames[depth - 1].temps \in Seq(Ptrs)
    BY <1>1, FrameIs
  <2>2. Len(Append(frames[depth - 1].temps, p)) = Len(frames[depth - 1].temps) + 1
    BY <2>1
  <2>3. Survivor(frames') = <<depth - 1, 1, Len(frames'[depth - 1].temps)>>
    BY DEF Survivor, Hands
  <2> QED BY <2>2, <2>3 DEF Hands
<1> QED BY <1>7, <1>11, <1>12, <1>13

LEMMA ReturnElidedStep == ASSUME IInv, ReturnElided PROVE IInv'
<1> DEFINE D == Pointers(frames) \ aliases
           p == LastTemp
           n == <<depth, 1, Len(Current.temps)>>
           m == <<depth - 1, 1, Len(frames[depth - 1].temps) + 1>>
<1>1. /\ depth > 1 /\ Current.phase = "run" /\ Current.temps # <<>>
      /\ Hand(p, Front(Current.temps)) /\ UNCHANGED <<term_stack, m_prev, aliases>>
  BY DEF ReturnElided
<1>2. n \in Slots(frames) /\ At(frames, n) = p /\ NewestSlot(frames, n)
  BY <1>1, LastTempIs, IInvIs DEF LastTemp
<1>3. p \in Ptrs /\ Front(Current.temps) \in Seq(Ptrs)
  BY <1>2, IInvIs, SlotIs DEF Front
<1>4. Hands(frames, frames', depth, p, Front(Current.temps)) /\ FramesOK(frames')
  <2> HIDE DEF p
  <2> QED BY <1>1, <1>3, HandIs
<1>5. PICK mid : /\ Drops(frames, mid, n) /\ Adds(mid, frames', m, p) /\ FramesOK(mid)
                 /\ m = Survivor(frames')
  BY <1>1, <1>4, ElidedSlots
<1>6. PICK pos \in [D -> Nat] :
        Linked(term_stack, m_prev, pos) /\ pos[StackEnd] = 1 /\ Shape(frames, pos)
  BY DEF IInv, ListOK
<1>7. Ordered(frames, pos, {})
  BY <1>1, <1>6 DEF Shape, OnTop, Current, depth
<1>8. TypeOK /\ FramesOK(frames) /\ Distinct(frames) /\ AliasesOK(frames, aliases)
  BY DEF IInv
<1>9. p \in D /\ p \in Pointers(frames) /\ p \notin aliases
  BY <1>2, <1>8 DEF Pointers, AliasesOK
<1>10. term_stack = p
  <2>1. frames \in Seq(Frame) /\ D \subseteq Pointers(frames)
    BY <1>8 DEF TypeOK
  <2> QED BY <1>2, <1>6, <1>7, <1>9, <2>1, NewestIsTopTwo
<1>11. /\ Pointers(mid) = Pointers(frames) \ {p} /\ Distinct(mid) /\ AliasesOK(mid, aliases)
  <2> HIDE DEF n, p
  <2>1. p = At(frames, n) /\ aliases = aliases \ {p}
    BY <1>2, <1>9
  <2>2. /\ Pointers(mid) = Pointers(frames) \ {p} /\ Distinct(mid)
        /\ AliasesOK(mid, aliases \ {p})
    <3>1. Drops(frames, mid, n) /\ p = At(frames, n)
      BY <1>5, <2>1
    <3>2. Distinct(frames) /\ AliasesOK(frames, aliases)
      BY <1>8
    <3> QED BY ONLY <3>1, <3>2, Destroyed
  <2> QED BY <2>1, <2>2
<1>12. /\ Pointers(frames') = Pointers(frames) /\ Distinct(frames')
       /\ AliasesOK(frames', aliases)
  <2> HIDE DEF n, p, m
  <2>1. p \notin Pointers(mid)
    BY <1>11
  <2>2. /\ Pointers(frames') = Pointers(mid) \cup {p} /\ Distinct(frames')
        /\ AliasesOK(frames', aliases)
    <3>1. Adds(mid, frames', m, p) /\ FramesOK(mid)
      BY <1>5
    <3>2. Distinct(mid) /\ AliasesOK(mid, aliases)
      BY <1>11
    <3> QED BY ONLY <2>1, <3>1, <3>2, ConstructedIs
  <2> QED BY <1>9, <1>11, <2>2
<1> HIDE DEF n, m, p, D
<1>13. DOMAIN pos = D
  BY <1>6
<1>14. Ordered(frames', pos, {m})
  <2>1. ASSUME NEW a \in Slots(frames') \ {m}
        PROVE  a \in Slots(frames) /\ At(frames', a) = At(frames, a)
    BY <1>5, <2>1 DEF Adds, Drops
  <2> QED BY <1>7, <2>1 DEF Ordered
<1>15. OnTop(frames', pos)
  <2>1. m \in Slots(frames') /\ At(frames', m) = p
    BY <1>5 DEF Adds
  <2>2. \A q \in D \ {p} : pos[q] < pos[p]
    BY <1>6, <1>10, <1>13 DEF Linked
  <2>3. frames'[Len(frames')].phase = "return"
    BY <1>4 DEF Hands
  <2> QED BY <1>5, <1>9, <1>13, <2>1, <2>2, <2>3 DEF OnTop, D
<1>16. ListOK(term_stack', m_prev', frames', aliases')
  <2>1. m = Survivor(frames')
    BY <1>5
  <2>2. Shape(frames', pos)
    BY <1>14, <1>15, <2>1 DEF Shape
  <2>3. pos \in [Pointers(frames') \ aliases' -> Nat]
    BY <1>1, <1>6, <1>12 DEF D
  <2> QED BY <1>1, <1>6, <2>2, <2>3 DEF ListOK
<1>17. TypeOK'
  BY <1>1, <1>4, <1>8 DEF TypeOK, Hands
<1> QED BY <1>1, <1>4, <1>12, <1>16, <1>17 DEF IInv

LEMMA InitIInv == RootStackInit => IInv
<1> SUFFICES ASSUME RootStackInit PROVE IInv
  OBVIOUS
<1> DEFINE f == [locals |-> <<StackEnd>>, temps |-> <<>>, phase |-> "run"]
           pos == [p \in {StackEnd} |-> 1]
<1>1. /\ frames = <<f>> /\ f \in Frame /\ term_stack = StackEnd
      /\ m_prev = [p \in Ptrs |-> NoPtr] /\ aliases = {}
  BY PtrsAssumption DEF RootStackInit, Frame, Phases
<1>2. TypeOK
  BY <1>1, PtrsAssumption DEF TypeOK
<1>3. FramesOK(frames)
  BY <1>1 DEF FramesOK
<1>4. Slots(frames) = {<<1, 0, 1>>}
  <2>1. /\ Kept(frames, 1, 0) = <<StackEnd>> /\ Kept(frames, 1, 1) = <<>>
        /\ Len(frames) = 1 /\ frames \in Seq(Frame)
    BY <1>1 DEF Kept
  <2>2. ASSUME NEW a \in Slots(frames) PROVE a = <<1, 0, 1>>
    <3>1. /\ a[1] \in 1 .. 1 /\ a[2] \in {0, 1} /\ a = <<a[1], a[2], a[3]>>
          /\ a[3] \in 1 .. Len(Kept(frames, a[1], a[2]))
      BY <2>1, SlotIs
    <3>2. a[1] = 1 /\ a[2] = 0
      BY <2>1, <3>1
    <3>3. a[3] = 1
      BY <2>1, <3>1, <3>2
    <3> QED BY <3>1, <3>2, <3>3
  <2>3. <<1, 0, 1>> \in Slots(frames)
    <3>1. 1 \in 1 .. Len(frames) /\ 1 \in 1 .. Len(Kept(frames, 1, 0))
      BY <2>1
    <3> QED BY <2>1, <3>1, SlotHas
  <2> QED BY <2>2, <2>3
<1>5. At(frames, <<1, 0, 1>>) = StackEnd
  BY <1>1 DEF At, Kept
<1>6. Pointers(frames) = {StackEnd} /\ Distinct(frames) /\ AliasesOK(frames, aliases)
  BY <1>1, <1>4, <1>5 DEF Pointers, Distinct, AliasesOK
<1>7. pos \in [Pointers(frames) \ aliases -> Nat] /\ pos[StackEnd] = 1
  BY <1>1, <1>6
<1>8. Linked(term_stack, m_prev, pos)
  <2>1. DOMAIN pos = {StackEnd} /\ pos[StackEnd] = 1
    OBVIOUS
  <2> HIDE DEF pos
  <2> QED BY <1>1, <2>1, PtrsAssumption DEF Linked
<1>9. Ordered(frames, pos, {})
  BY <1>4 DEF Ordered, Before
<1>10. ListOK(term_stack, m_prev, frames, aliases)
  BY <1>7, <1>8, <1>9 DEF ListOK, Shape
<1> QED BY <1>2, <1>3, <1>6, <1>10 DEF IInv

LEMMA NextIInv == IInv /\ [RootStackNext]_rootVars => IInv'
<1> SUFFICES ASSUME IInv, [RootStackNext]_rootVars PROVE IInv'
  OBVIOUS
<1>1. CASE UNCHANGED rootVars
  BY <1>1 DEF rootVars, IInv, TypeOK
<1> QED
  BY <1>1, TempStep, LetSteps, EndExpressionStep, DestroyTempStep, NextStatementStep,
     CallStep, ReturnTermSteps, ReturnElidedStep, ReturnVoidStep, DestroyLocalStep,
     ReturnedStep DEF RootStackNext

(* The order of construction and the order of the list agree, in every state. *)
THEOREM Inductive == RootStackSpec => []IInv
BY InitIInv, NextIInv, PTL DEF RootStackSpec

-----------------------------------------------------------------------------
(* What the collector reads.                                                *)

(* The walk is what its recursive definition says, if there is any.         *)
Step(w, n) ==
  IF n = 0 THEN term_stack ELSE IF w[n - 1] = NoPtr THEN NoPtr ELSE m_prev[w[n - 1]]
Walks(w) == w = [n \in 0 .. Length |-> Step(w, n)]

LEMMA WalkIs == ASSUME NEW w, Walks(w) PROVE Walks(Walk)
BY DEF Walks, Walk, Step

LEMMA WalksSame ==
  ASSUME Length \in Nat, NEW v, NEW w, Walks(v), Walks(w)
  PROVE  v = w
<1> DEFINE T == {n \in 0 .. Length : v[n] # w[n]}
<1>1. CASE T = {}
  BY <1>1 DEF Walks
<1>2. CASE T # {}
  <2>0. T \subseteq Nat
    OBVIOUS
  <2>1. PICK m \in T : \A n \in T : m <= n
    BY <1>2, <2>0, Least
  <2>2. m # 0
    BY <2>1 DEF Walks, Step
  <2>3. m - 1 \in 0 .. Length /\ v[m - 1] = w[m - 1]
    BY <2>1, <2>2
  <2>4. v[m] = Step(v, m) /\ w[m] = Step(w, m)
    BY <2>1 DEF Walks
  <2> QED BY <2>1, <2>2, <2>3, <2>4 DEF Step
<1> QED BY <1>1, <1>2

LEMMA LengthIs ==
  ASSUME NEW N \in Nat, NEW g \in [1 .. N -> Ptrs],
         \A j, k \in 1 .. N : g[j] = g[k] => j = k
  PROVE  Length \in Nat /\ N <= Length
<1>1. IsFiniteSet(Ptrs) /\ IsFiniteSet(1 .. N) /\ Cardinality(1 .. N) = N
  BY PtrsAssumption, FS_Interval
<1>2. g \in Injection(1 .. N, Ptrs)
  BY DEF Injection, IsInjective
<1>3. Cardinality(1 .. N) <= Cardinality(Ptrs)
  BY <1>1, <1>2, FS_Injection
<1> QED BY <1>1, <1>3, FS_CardinalityType DEF Length

(* The walk goes through the numbers of the list, downwards.                *)
LEMMA WalkLinked ==
  ASSUME NEW D, NEW pos \in [D -> Nat], D \subseteq Ptrs,
         Linked(term_stack, m_prev, pos)
  PROVE  Walk[Length] = NoPtr /\ Range(Walk) \ {NoPtr} = D
<1> DEFINE N == pos[term_stack]
           g == [k \in 1 .. N |-> CHOOSE p \in D : pos[p] = k]
           w == [n \in 0 .. Length |-> IF n < N THEN g[N - n] ELSE NoPtr]
<1>1. term_stack \in D /\ N \in Nat \ {0} /\ \A p \in D : pos[p] \in 1 .. N
  BY DEF Linked
<1>2. \A k \in 1 .. N : g[k] \in D /\ pos[g[k]] = k
  BY NoGaps
<1> HIDE DEF g
<1>3. \A p \in D : g[pos[p]] = p
  BY <1>1, <1>2 DEF Linked
<1>4. g \in [1 .. N -> Ptrs] /\ \A j, k \in 1 .. N : g[j] = g[k] => j = k
  <2>1. g = [k \in 1 .. N |-> g[k]]
    BY DEF g
  <2> QED BY <1>2, <2>1
<1> HIDE DEF N
<1>5. Length \in Nat /\ N <= Length
  BY <1>1, <1>4, LengthIs
<1>6. Walks(w)
  <2>1. SUFFICES ASSUME NEW n \in 0 .. Length PROVE w[n] = Step(w, n)
    BY DEF Walks
  <2>2. w[n] = IF n < N THEN g[N - n] ELSE NoPtr
    OBVIOUS
  <2>3. CASE n = 0
    BY <1>1, <1>3, <2>2, <2>3 DEF Step, N
  <2>4. CASE n # 0
    <3>1. n - 1 \in 0 .. Length /\ w[n - 1] = IF n - 1 < N THEN g[N - (n - 1)] ELSE NoPtr
      BY <2>4, <1>5
    <3>2. Step(w, n) = IF w[n - 1] = NoPtr THEN NoPtr ELSE m_prev[w[n - 1]]
      BY <2>4 DEF Step
    <3>3. CASE ~(n - 1 < N)
      BY <3>1, <3>2, <3>3, <2>2, <1>1, <1>5
    <3>4. CASE n - 1 < N
      <4> DEFINE k == N - (n - 1)
                 p == g[k]
      <4>1. k \in 1 .. N /\ k = N - n + 1
        BY <3>4, <2>4, <1>1, <1>5
      <4>2. p \in D /\ pos[p] = k /\ w[n - 1] = p /\ p # NoPtr
        BY <4>1, <1>2, <3>1, <3>4, PtrsAssumption
      <4>3. Step(w, n) = m_prev[p]
        BY <3>2, <4>2
      <4>4. CASE n = N
        <5>1. k = 1 /\ ~(n < N)
          BY <4>1, <4>4, <1>1
        <5>2. m_prev[p] = NoPtr
          BY <4>2, <5>1 DEF Linked
        <5> QED BY <4>3, <5>1, <5>2, <2>2
      <4>5. CASE n # N
        <5>1. n < N /\ k # 1 /\ k - 1 = N - n /\ N - n \in 1 .. N
          BY <3>4, <4>1, <4>5, <2>4, <1>1, <1>5
        <5>2. m_prev[p] \in D /\ pos[m_prev[p]] = k - 1
          BY <4>2, <5>1 DEF Linked
        <5>3. m_prev[p] = g[N - n]
          BY <5>1, <5>2, <1>3
        <5> QED BY <4>3, <5>1, <5>3, <2>2
      <4> QED BY <4>4, <4>5
    <3> QED BY <3>3, <3>4
  <2> QED BY <2>3, <2>4
<1>7. Walk = w
  BY <1>5, <1>6, WalkIs, WalksSame
<1>8. Walk[Length] = NoPtr
  BY <1>1, <1>5, <1>7
<1>9. ASSUME NEW p \in D PROVE p \in Range(w)
  <2>1. pos[p] \in 1 .. N /\ N - pos[p] \in 0 .. Length /\ N - pos[p] < N
        /\ N - (N - pos[p]) = pos[p]
    BY <1>1, <1>5
  <2>2. w[N - pos[p]] = g[pos[p]]
    BY <2>1
  <2>3. N - pos[p] \in DOMAIN w
    BY <2>1
  <2> QED BY <2>2, <2>3, <1>3 DEF Range
<1>10. ASSUME NEW p \in Range(w), p # NoPtr PROVE p \in D
  <2>1. PICK n \in 0 .. Length : p = w[n]
    BY DEF Range
  <2>2. n < N /\ p = g[N - n] /\ N - n \in 1 .. N
    BY <2>1, <1>10, <1>1, <1>5
  <2> QED BY <2>2, <1>2
<1>11. NoPtr \notin D
  BY PtrsAssumption
<1> QED BY <1>7, <1>8, <1>9, <1>10, <1>11

LEMMA ListIs ==
  ASSUME IInv
  PROVE  \E pos \in [Live \ aliases -> Nat] :
           /\ Linked(term_stack, m_prev, pos) /\ Shape(frames, pos)
           /\ Live \ aliases \subseteq Ptrs
<1>1. frames \in Seq(Frame) /\ Live = Pointers(frames)
  BY LiveIs DEF IInv, TypeOK
<1>2. Live \subseteq Ptrs
  BY <1>1, SlotIs DEF Pointers
<1> QED BY <1>1, <1>2 DEF IInv, ListOK

(* The variables have their types, for any number of pointers and calls.    *)
THEOREM TypeCorrect == RootStackSpec => []TypeOK
<1>1. IInv => TypeOK
  BY DEF IInv
<1> QED BY <1>1, Inductive, PTL

(* The collector that follows the list from term_stack (gc_marksweep.h:394) *)
(* meets every pointer that is alive and no other, and comes to its end,    *)
(* however the functions and expressions of the thread are nested           *)
(* (ptr.h:47-84).                                                           *)
THEOREM RootsAreTraced == RootStackSpec => []RootsTraced
<1>1. IInv => RootsTraced
  BY ListIs, WalkLinked DEF RootsTraced
<1> QED BY <1>1, Inductive, PTL

(* The assertion of pop (ptr.h:73-74): whatever is destroyed next is the    *)
(* newest of the list, or the one below it, or not in the list at all.      *)
THEOREM PopMeetsTopTwo == RootStackSpec => []TopTwo
<1>1. IInv => TopTwo
  <2>1. SUFFICES ASSUME IInv, NEW p \in Dying, m_prev[p] # NoPtr
                 PROVE  p = term_stack \/ p = m_prev[term_stack]
    BY DEF TopTwo
  <2> DEFINE D == Pointers(frames) \ aliases
  <2>2. PICK pos \in [D -> Nat] :
          Linked(term_stack, m_prev, pos) /\ pos[StackEnd] = 1 /\ Shape(frames, pos)
    BY <2>1 DEF IInv, ListOK
  <2>3. PICK n \in Slots(frames) : At(frames, n) = p /\ NewestSlot(frames, n)
    <3>1. CASE Current.temps # <<>>
      <4>1. p = LastTemp
        BY <3>1 DEF Dying
      <4> QED BY <2>1, <3>1, <4>1, LastTempIs, IInvIs DEF LastTemp
    <3>2. CASE Current.temps = <<>>
      <4>1. Current.locals # <<>> /\ p = Last(Current.locals)
        BY <3>2 DEF Dying
      <4> QED BY <2>1, <3>2, <4>1, LastLocalIs, IInvIs
    <3> QED BY <3>1, <3>2
  <2>4. frames \in Seq(Frame) /\ p \in Ptrs
    BY <2>1, <2>3, SlotIs DEF IInv, TypeOK
  <2>5. p \in D
    BY <2>1, <2>2, <2>4 DEF Linked
  <2>6. D \subseteq Pointers(frames)
    OBVIOUS
  <2> HIDE DEF D
  <2>7. pos[p] >= pos[term_stack] - 1
    BY <2>2, <2>3, <2>4, <2>5, <2>6, NewestIsTopTwo
  <2>8. pos[p] \in 1 .. pos[term_stack] /\ pos[term_stack] \in Nat
    BY <2>2, <2>5 DEF Linked
  <2>9. pos[p] # 1
    BY <2>1, <2>2, <2>5 DEF Linked
  <2> QED BY <2>2, <2>5, <2>7, <2>8, <2>9, TopTwoAre
<1> QED BY <1>1, Inductive, PTL
=============================================================================
