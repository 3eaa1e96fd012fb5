--------------------------- MODULE ChunkStackProofs ---------------------------
(* Proofs about the evaluation stack, for chunks of any size, any elements  *)
(* and any number of calls.                                                 *)
EXTENDS ChunkStack, TLAPS, WellFoundedInduction, SequenceTheorems

(* The chunks hold the elements below their height; what is behind the      *)
(* current one is empty.                                                    *)
ChunkLists == Seq([at : Addresses, m_stack : Seq(Elements)])
Stacks(c) == [i \in DOMAIN c |-> c[i].m_stack]
Distinct(c) == \A i, j \in 1 .. Len(c) : c[i].at = c[j].at => i = j
ChunksOK(c, m) ==
  /\ c \in ChunkLists
  /\ m \in 1 .. Len(c)
  /\ \A i \in 1 .. Len(c) : Len(c[i].m_stack) <= ChunkSize /\ (i > m => c[i].m_stack = <<>>)
  /\ Distinct(c)

(* What a call may find on top, and where it may be in its loop.            *)
Marks == {NULL} \cup (Addresses \X (1 .. ChunkSize))
Turns == Marks \cup Codes

(* p is the address of the j-th element of chunk i.                         *)
Place(c, p, i, j) ==
  i \in 1 .. Len(c) /\ j \in 1 .. Len(c[i].m_stack) /\ p = <<c[i].at, j>>
Marked(c, p) == p = NULL \/ \E i, j \in Nat : Place(c, p, i, j)

(* HeightOf, of any chunks                                                  *)
HeightIn(c, p) ==
  IF p \in Codes THEN 0
  ELSE LET i == CHOOSE j \in DOMAIN c : c[j].at = p[1]
       IN  Len(FlattenSeq([j \in 1 .. i - 1 |-> c[j].m_stack])) + p[2]

CallsOK(c, s) ==
  /\ \A k \in 1 .. Len(s) : Marked(c, s[k])
  /\ \A k, n \in 1 .. Len(s) : k < n => HeightIn(c, s[k]) <= HeightIn(c, s[n])
  /\ s # <<>> => s[1] = NULL
  /\ s = <<>> => FlattenSeq(Stacks(c)) = <<>>

(* What a call reduces is its own: above what it found, and not above what  *)
(* the call that it made has found.                                         *)
TurnsOK(c, s, u) ==
  /\ Len(u) = Len(s)
  /\ \A k \in 1 .. Len(u) : u[k] \in Codes \/ (Marked(c, u[k]) /\ HeightIn(c, s[k]) < HeightIn(c, u[k]))
  /\ \A k, n \in 1 .. Len(u) : k < n => u[k] \in Codes \/ HeightIn(c, u[k]) <= HeightIn(c, s[n])

TypeOK ==
  /\ chunks \in ChunkLists
  /\ \A i \in DOMAIN chunks : Len(chunks[i].m_stack) <= ChunkSize
  /\ m_chunk \in DOMAIN chunks
  /\ tops \in Seq(Marks) /\ turns \in Seq(Turns)
  /\ result \in Elements \cup {None} /\ copy \in Seq(Elements)

IInv == TypeOK /\ ChunksOK(chunks, m_chunk) /\ CallsOK(chunks, tops) /\ TurnsOK(chunks, tops, turns)
-----------------------------------------------------------------------------
(* A set of natural numbers has a least element.                            *)
LEMMA Least ==
  ASSUME NEW T, T \subseteq Nat, T # {}
  PROVE  \E m \in T : \A n \in T : m <= n
<1> DEFINE R == {ss \in Nat \X Nat : ss[1] < ss[2]}
<1>1. IsWellFoundedOn(R, Nat)
  BY NatLessThanWellFounded DEF OpToRel
<1> HIDE DEF R
<1>2. PICK m \in T : \A n \in T : <<n, m>> \notin R
  BY <1>1, WFMin
<1>3. \A n \in T : <<n, m>> \in R <=> n < m
  BY DEF R
<1>4. ASSUME NEW n \in T PROVE m <= n
  <2>1. n \in Nat /\ m \in Nat
    OBVIOUS
  <2>2. ~(n < m)
    BY <1>2, <1>3
  <2> QED BY <2>1, <2>2
<1> QED BY <1>4

(* FlattenSeq concatenates step by step: what it computes on the way.       *)
Concats(s, f) == [i \in 1 .. Len(s) |-> IF i = 1 THEN s[i] ELSE f[i - 1] \o s[i]]
Upto(s) == CHOOSE f : f = Concats(s, f)
Joined(s, n) == IF n = 0 THEN <<>> ELSE Upto(s)[n]

(* The first n steps can be taken.                                          *)
Steps(s, n, f) ==
  /\ f \in [1 .. n -> Seq(Elements)]
  /\ \A i \in 1 .. n : f[i] = IF i = 1 THEN s[i] ELSE f[i - 1] \o s[i]

LEMMA StepsExist ==
  ASSUME NEW s \in Seq(Seq(Elements)), NEW n \in 0 .. Len(s)
  PROVE  \E f : Steps(s, n, f)
<1> DEFINE T == {k \in 0 .. Len(s) : ~\E f : Steps(s, k, f)}
<1>1. SUFFICES ASSUME T # {} PROVE FALSE
  OBVIOUS
<1>2. PICK k \in T : \A j \in T : k <= j
  <2>1. T \subseteq Nat
    OBVIOUS
  <2> HIDE DEF T
  <2> QED BY <1>1, <2>1, Least
<1>3. k \in 0 .. Len(s) /\ Len(s) \in Nat /\ ~\E f : Steps(s, k, f)
  OBVIOUS
<1>4. k # 0
  <2>1. SUFFICES ASSUME k = 0 PROVE FALSE
    OBVIOUS
  <2>2. Steps(s, 0, [i \in 1 .. 0 |-> <<>>])
    BY DEF Steps
  <2> QED BY <1>3, <2>1, <2>2
<1>5. k - 1 \in 0 .. Len(s) /\ k - 1 \notin T
  <2>1. k - 1 \in 0 .. Len(s) /\ ~(k <= k - 1)
    BY <1>3, <1>4
  <2> HIDE DEF T
  <2> QED BY <2>1, <1>2
<1>6. PICK f : Steps(s, k - 1, f)
  BY <1>5
<1> DEFINE v == IF k = 1 THEN s[k] ELSE f[k - 1] \o s[k]
           g == [i \in 1 .. k |-> IF i = k THEN v ELSE f[i]]
<1> HIDE DEF T
<1>7. v \in Seq(Elements)
  <2>1. s[k] \in Seq(Elements)
    BY <1>3, <1>4
  <2>2. k # 1 => f[k - 1] \in Seq(Elements)
    BY <1>3, <1>4, <1>6 DEF Steps
  <2> QED BY <2>1, <2>2
<1>8. ASSUME NEW i \in 1 .. k, i # k PROVE g[i] = f[i] /\ f[i] \in Seq(Elements) /\ i \in 1 .. k - 1
  <2>1. i \in 1 .. k - 1
    BY <1>3, <1>8
  <2> QED BY <2>1, <1>6, <1>8 DEF Steps
<1>9. g \in [1 .. k -> Seq(Elements)]
  <2>1. ASSUME NEW i \in 1 .. k PROVE g[i] \in Seq(Elements)
    BY <1>7, <1>8
  <2> QED BY <2>1
<1>10. ASSUME NEW i \in 1 .. k PROVE g[i] = IF i = 1 THEN s[i] ELSE g[i - 1] \o s[i]
  <2>1. i # 1 => i - 1 \in 1 .. k /\ i - 1 # k
    BY <1>3
  <2>2. i # 1 => g[i - 1] = f[i - 1]
    BY <2>1, <1>8
  <2>3. CASE i = k
    <3>1. g[i] = v
      BY <2>3, <1>3, <1>4
    <3> QED BY <3>1, <2>2, <2>3
  <2>4. CASE i # k
    <3>1. g[i] = f[i] /\ i \in 1 .. k - 1
      BY <2>4, <1>8
    <3>2. f[i] = IF i = 1 THEN s[i] ELSE f[i - 1] \o s[i]
      BY <3>1, <1>6 DEF Steps
    <3> QED BY <3>1, <3>2, <2>2
  <2> QED BY <2>3, <2>4
<1> HIDE DEF g, v
<1>11. Steps(s, k, g)
  BY <1>9, <1>10 DEF Steps
<1> QED BY <1>3, <1>11

LEMMA UptoIs ==
  ASSUME NEW s \in Seq(Seq(Elements))
  PROVE  Steps(s, Len(s), Upto(s)) /\ (Len(s) # 0 => FlattenSeq(s) = Upto(s)[Len(s)])
<1>1. PICK f : Steps(s, Len(s), f)
  BY StepsExist
<1>2. f = Concats(s, f)
  BY <1>1 DEF Steps, Concats
<1>3. Upto(s) = Concats(s, Upto(s))
  BY <1>2 DEF Upto
<1>4. Len(s) # 0 => FlattenSeq(s) = Upto(s)[Len(s)]
  BY DEF Upto, Concats, FlattenSeq
<1> DEFINE g == Upto(s)
<1> HIDE DEF g
<1>5. g = Concats(s, g)
  BY <1>3 DEF g
<1>6. \A i \in 1 .. Len(s) : g[i] = IF i = 1 THEN s[i] ELSE g[i - 1] \o s[i]
  BY <1>5 DEF Concats
<1>7. DOMAIN g = 1 .. Len(s) /\ g = [i \in 1 .. Len(s) |-> g[i]]
  BY <1>5 DEF Concats
<1>8. \A i \in 1 .. Len(s) : g[i] \in Seq(Elements)
  <2> DEFINE T == {i \in 1 .. Len(s) : g[i] \notin Seq(Elements)}
  <2>1. SUFFICES ASSUME T # {} PROVE FALSE
    OBVIOUS
  <2>2. PICK k \in T : \A j \in T : k <= j
    <3>1. T \subseteq Nat
      OBVIOUS
    <3> HIDE DEF T
    <3> QED BY <2>1, <3>1, Least
  <2>3. k \in 1 .. Len(s) /\ g[k] \notin Seq(Elements) /\ s[k] \in Seq(Elements)
    OBVIOUS
  <2>4. k # 1
    BY <2>3, <1>6
  <2>5. k - 1 \in 1 .. Len(s) /\ ~(k <= k - 1)
    BY <2>3, <2>4
  <2>6. g[k - 1] \in Seq(Elements)
    BY <2>2, <2>5
  <2>7. g[k] = g[k - 1] \o s[k]
    BY <2>3, <2>4, <1>6
  <2>8. g[k - 1] \o s[k] \in Seq(Elements)
    BY ONLY <2>3, <2>6
  <2> QED BY <2>3, <2>7, <2>8
<1>9. Steps(s, Len(s), g)
  BY <1>6, <1>7, <1>8 DEF Steps
<1> QED BY <1>4, <1>9 DEF g

LEMMA ConcatEmpty ==
  ASSUME NEW x \in Seq(Elements)
  PROVE  <<>> \o x = x /\ x \o <<>> = x /\ <<>> \in Seq(Elements)
OBVIOUS

(* What Joined is, without its definition.                                  *)
LEMMA JoinedIs ==
  ASSUME NEW s \in Seq(Seq(Elements))
  PROVE  /\ Joined(s, 0) = <<>>
         /\ \A n \in 0 .. Len(s) : Joined(s, n) \in Seq(Elements)
         /\ \A n \in 1 .. Len(s) : Joined(s, n) = Joined(s, n - 1) \o s[n]
         /\ FlattenSeq(s) = Joined(s, Len(s))
<1> DEFINE g == Upto(s)
<1>1. Steps(s, Len(s), g) /\ (Len(s) # 0 => FlattenSeq(s) = g[Len(s)])
  BY UptoIs
<1>2. Joined(s, 0) = <<>> /\ \A n \in 1 .. Len(s) : Joined(s, n) = g[n]
  BY DEF Joined
<1> HIDE DEF g
<1>3. ASSUME NEW n \in 0 .. Len(s) PROVE Joined(s, n) \in Seq(Elements)
  <2>1. CASE n = 0
    <3>1. <<>> \in Seq(Elements)
      OBVIOUS
    <3> QED BY ONLY <3>1, <2>1, <1>2
  <2>2. CASE n # 0
    <3>1. n \in 1 .. Len(s)
      BY <2>2
    <3> QED BY <3>1, <1>1, <1>2 DEF Steps
  <2> QED BY <2>1, <2>2
<1>4. ASSUME NEW n \in 1 .. Len(s) PROVE Joined(s, n) = Joined(s, n - 1) \o s[n]
  <2>1. CASE n = 1
    <3>1. Joined(s, n) = s[n] /\ s[n] \in Seq(Elements)
      BY <2>1, <1>1, <1>2 DEF Steps
    <3>2. Joined(s, n - 1) = <<>>
      BY <2>1, <1>2
    <3>3. <<>> \o s[n] = s[n]
      BY <3>1, ConcatEmpty
    <3> QED BY <3>1, <3>2, <3>3
  <2>2. CASE n # 1
    <3>1. n - 1 \in 1 .. Len(s)
      BY <2>2
    <3>2. Joined(s, n) = g[n] /\ Joined(s, n - 1) = g[n - 1]
      BY <3>1, <1>2
    <3>3. g[n] = g[n - 1] \o s[n]
      BY <2>2, <1>1 DEF Steps
    <3> QED BY <3>2, <3>3
  <2> QED BY <2>1, <2>2
<1>5. FlattenSeq(s) = Joined(s, Len(s))
  <2>1. CASE Len(s) = 0
    <3>1. FlattenSeq(s) = s /\ s = <<>>
      BY <2>1 DEF FlattenSeq
    <3> QED BY <3>1, <2>1, <1>2
  <2>2. CASE Len(s) # 0
    <3>1. Len(s) \in 1 .. Len(s)
      BY <2>2
    <3> QED BY <3>1, <2>2, <1>1, <1>2
  <2> QED BY <2>1, <2>2
<1> QED BY <1>2, <1>3, <1>4, <1>5

(* The first n sequences are what counts.                                   *)
Agree(s, r, n) == n <= Len(s) /\ n <= Len(r) /\ \A i \in 1 .. n : s[i] = r[i]

LEMMA JoinedSame ==
  ASSUME NEW s \in Seq(Seq(Elements)), NEW r \in Seq(Seq(Elements)), NEW n \in Nat, Agree(s, r, n)
  PROVE  Joined(s, n) = Joined(r, n)
<1> DEFINE T == {k \in 0 .. n : Joined(s, k) # Joined(r, k)}
<1>1. SUFFICES ASSUME T # {} PROVE FALSE
  OBVIOUS
<1>2. PICK k \in T : \A j \in T : k <= j
  <2>1. T \subseteq Nat
    OBVIOUS
  <2> HIDE DEF T
  <2> QED BY <1>1, <2>1, Least
<1>3. k \in 0 .. n /\ Joined(s, k) # Joined(r, k)
  OBVIOUS
<1>4. k # 0
  BY <1>3, JoinedIs
<1>5. k - 1 \in 0 .. n /\ ~(k <= k - 1)
  BY <1>3, <1>4
<1>6. Joined(s, k - 1) = Joined(r, k - 1)
  BY <1>2, <1>5
<1>7. k \in 1 .. Len(s) /\ k \in 1 .. Len(r) /\ s[k] = r[k]
  BY <1>3, <1>4 DEF Agree
<1>8. Joined(s, k) = Joined(s, k - 1) \o s[k]
  BY <1>7, JoinedIs
<1>9. Joined(r, k) = Joined(r, k - 1) \o r[k]
  BY <1>7, JoinedIs
<1> QED BY <1>3, <1>6, <1>7, <1>8, <1>9

(* Empty sequences add nothing.                                             *)
LEMMA JoinedEmpty ==
  ASSUME NEW s \in Seq(Seq(Elements)), NEW t \in Nat, NEW n \in t .. Len(s),
         \A i \in t + 1 .. n : s[i] = <<>>
  PROVE  Joined(s, n) = Joined(s, t)
<1> DEFINE T == {k \in t .. n : Joined(s, k) # Joined(s, t)}
<1>1. SUFFICES ASSUME T # {} PROVE FALSE
  OBVIOUS
<1>2. PICK k \in T : \A j \in T : k <= j
  <2>1. T \subseteq Nat
    OBVIOUS
  <2> HIDE DEF T
  <2> QED BY <1>1, <2>1, Least
<1>3. k \in t .. n /\ Joined(s, k) # Joined(s, t)
  OBVIOUS
<1>4. k # t
  BY <1>3
<1>5. k - 1 \in t .. n /\ ~(k <= k - 1) /\ k \in t + 1 .. n /\ k \in 1 .. Len(s)
      /\ k - 1 \in 0 .. Len(s)
  BY <1>3, <1>4
<1>6. Joined(s, k - 1) = Joined(s, t)
  BY <1>2, <1>5
<1>7. s[k] = <<>>
  BY <1>5
<1>8. Joined(s, k) = Joined(s, k - 1) \o s[k]
  BY <1>5, JoinedIs
<1>9. Joined(s, k - 1) \in Seq(Elements)
  BY <1>5, JoinedIs
<1>10. Joined(s, k) = Joined(s, k - 1)
  BY <1>7, <1>8, <1>9
<1> QED BY <1>3, <1>6, <1>10

(* More sequences, more elements.                                           *)
LEMMA JoinedLonger ==
  ASSUME NEW s \in Seq(Seq(Elements)), NEW t \in 0 .. Len(s), NEW n \in t .. Len(s)
  PROVE  Len(Joined(s, t)) <= Len(Joined(s, n))
<1> DEFINE T == {k \in t .. n : ~(Len(Joined(s, t)) <= Len(Joined(s, k)))}
<1>1. SUFFICES ASSUME T # {} PROVE FALSE
  <2>1. n \in t .. n
    OBVIOUS
  <2>2. n \notin T => Len(Joined(s, t)) <= Len(Joined(s, n))
    BY <2>1
  <2> HIDE DEF T
  <2> QED BY <2>2
<1>2. PICK k \in T : \A j \in T : k <= j
  <2>1. T \subseteq Nat
    OBVIOUS
  <2> HIDE DEF T
  <2> QED BY <1>1, <2>1, Least
<1>3. k \in t .. n /\ ~(Len(Joined(s, t)) <= Len(Joined(s, k)))
  OBVIOUS
<1>4. k # t
  <2>1. Joined(s, t) \in Seq(Elements)
    BY JoinedIs
  <2> QED BY <1>3, <2>1
<1>5. k - 1 \in t .. n /\ ~(k <= k - 1) /\ k \in 1 .. Len(s) /\ k - 1 \in 0 .. Len(s)
  BY <1>3, <1>4
<1>6. Len(Joined(s, t)) <= Len(Joined(s, k - 1))
  BY <1>2, <1>5
<1>7. Joined(s, k) = Joined(s, k - 1) \o s[k]
  BY <1>5, JoinedIs
<1>8. Joined(s, k - 1) \in Seq(Elements) /\ s[k] \in Seq(Elements) /\ Joined(s, t) \in Seq(Elements)
  <2>1. t \in 0 .. Len(s)
    OBVIOUS
  <2>2. \A i \in 0 .. Len(s) : Joined(s, i) \in Seq(Elements)
    BY JoinedIs
  <2>3. s[k] \in Seq(Elements)
    BY <1>5
  <2> QED BY ONLY <2>1, <2>2, <2>3, <1>5
<1>9. Len(Joined(s, k)) = Len(Joined(s, k - 1)) + Len(s[k]) /\ Len(s[k]) \in Nat
  <2> DEFINE x == Joined(s, k)
             y == Joined(s, k - 1)
             z == s[k]
  <2>1. x = y \o z /\ y \in Seq(Elements) /\ z \in Seq(Elements)
    BY ONLY <1>7, <1>8
  <2> HIDE DEF x, y, z
  <2>2. Len(x) = Len(y) + Len(z) /\ Len(z) \in Nat
    BY ONLY <2>1
  <2> QED BY ONLY <2>2 DEF x, y, z
<1>10. Len(Joined(s, t)) \in Nat /\ Len(Joined(s, k - 1)) \in Nat
  BY ONLY <1>8
<1>11. \A a, b, d, l \in Nat : a <= b /\ l = b + d => a <= l
  OBVIOUS
<1>12. Len(Joined(s, k)) \in Nat
  <2>1. k \in 0 .. Len(s)
    BY <1>5
  <2>2. Joined(s, k) \in Seq(Elements)
    BY <2>1, JoinedIs
  <2> QED BY ONLY <2>2, LenProperties
<1> QED BY ONLY <1>3, <1>6, <1>9, <1>10, <1>11, <1>12, Zenon

(* The ends of a concatenation.                                             *)
LEMMA ConcatAppend ==
  ASSUME NEW x \in Seq(Elements), NEW y \in Seq(Elements), NEW e \in Elements
  PROVE  x \o Append(y, e) = Append(x \o y, e)
<1>1. x \o Append(y, e) \in Seq(Elements) /\ Append(x \o y, e) \in Seq(Elements)
  OBVIOUS
<1>2. Len(x \o Append(y, e)) = Len(x) + Len(y) + 1 /\ Len(Append(x \o y, e)) = Len(x) + Len(y) + 1
      /\ Len(x \o y) = Len(x) + Len(y)
  OBVIOUS
<1>3. ASSUME NEW i \in 1 .. Len(x) + Len(y) + 1
      PROVE  (x \o Append(y, e))[i] = Append(x \o y, e)[i]
  OBVIOUS
<1> QED BY <1>1, <1>2, <1>3, SeqEqual

LEMMA FrontOf ==
  ASSUME NEW S, NEW y \in Seq(S), y # <<>>
  PROVE  /\ Front(y) \in Seq(S) /\ Len(Front(y)) = Len(y) - 1
         /\ \A i \in 1 .. Len(y) - 1 : Front(y)[i] = y[i]
<1>1. Len(y) \in Nat \ {0}
  BY EmptySeq
<1> DEFINE n == Len(y) - 1
<1>2. n \in Nat /\ n \in Int /\ 1 \in Int
  BY <1>1
<1>8. (IF 1 <= n THEN n - 1 + 1 ELSE 0) = n /\ n - 1 + 1 = n
  <2> HIDE DEF n
  <2> QED BY ONLY <1>2
<1>3. \A i \in 1 .. n : y[i] \in S /\ 1 + i - 1 = i
  BY <1>1, ElementOfSeq
<1> HIDE DEF n
<1>4. SubSeq(y, 1, n) \in Seq(S) /\ Len(SubSeq(y, 1, n)) = IF 1 <= n THEN n - 1 + 1 ELSE 0
  BY <1>2, <1>3, SubSeqProperties
<1>5. \A i \in 1 .. n - 1 + 1 : SubSeq(y, 1, n)[i] = y[1 + i - 1]
  BY <1>2, <1>3, SubSeqProperties
<1>6. \A i \in 1 .. n : SubSeq(y, 1, n)[i] = y[i]
  BY <1>3, <1>5, <1>8
<1>7. Front(y) = SubSeq(y, 1, n)
  BY DEF Front, n
<1> QED BY <1>4, <1>6, <1>7, <1>8 DEF n

LEMMA ConcatFront ==
  ASSUME NEW x \in Seq(Elements), NEW y \in Seq(Elements), y # <<>>
  PROVE  /\ x \o Front(y) = SubSeq(x \o y, 1, Len(x \o y) - 1)
         /\ (x \o y)[Len(x \o y)] = Last(y)
         /\ Last(y) \in Elements
         /\ Front(y) \in Seq(Elements) /\ Len(Front(y)) = Len(y) - 1
<1>1. Len(y) \in Nat \ {0} /\ Len(x) \in Nat
  BY EmptySeq
<1>2. Front(y) \in Seq(Elements) /\ Len(Front(y)) = Len(y) - 1
      /\ \A i \in 1 .. Len(y) - 1 : Front(y)[i] = y[i]
  BY <1>1, FrontOf
<1>3. x \o y \in Seq(Elements) /\ Len(x \o y) = Len(x) + Len(y)
  OBVIOUS
<1> DEFINE f == SubSeq(x \o y, 1, Len(x \o y) - 1)
<1>4. f \in Seq(Elements) /\ Len(f) = Len(x) + Len(y) - 1
      /\ \A i \in 1 .. Len(x) + Len(y) - 1 : f[i] = (x \o y)[i]
  <2>1. x \o y # <<>>
    BY <1>1, <1>3, EmptySeq
  <2>2. f = Front(x \o y)
    BY DEF Front
  <2> HIDE DEF f
  <2>3. f \in Seq(Elements) /\ Len(f) = Len(x \o y) - 1
        /\ \A i \in 1 .. Len(x \o y) - 1 : f[i] = (x \o y)[i]
    BY <2>1, <2>2, <1>3, FrontOf
  <2> QED BY ONLY <2>3, <1>3
<1>5. x \o Front(y) \in Seq(Elements) /\ Len(x \o Front(y)) = Len(x) + Len(y) - 1
  <2>1. x \o Front(y) \in Seq(Elements) /\ Len(x \o Front(y)) = Len(x) + Len(Front(y))
    BY <1>2, ConcatProperties
  <2> QED BY <2>1, <1>1, <1>2
<1>6. ASSUME NEW i \in 1 .. Len(x) + Len(y) - 1 PROVE (x \o Front(y))[i] = f[i]
  <2>1. CASE i <= Len(x)
    BY <2>1, <1>1, <1>2, <1>4
  <2>2. CASE ~(i <= Len(x))
    <3>1. i - Len(x) \in 1 .. Len(y) - 1
      BY <2>2, <1>1
    <3>2. (x \o Front(y))[i] = Front(y)[i - Len(x)]
      BY <3>1, <2>2, <1>1, <1>2
    <3>3. (x \o y)[i] = y[i - Len(x)]
      BY <3>1, <2>2, <1>1
    <3> QED BY <3>1, <3>2, <3>3, <1>2, <1>4
  <2> QED BY <2>1, <2>2
<1> HIDE DEF f
<1>7. x \o Front(y) = f
  BY <1>4, <1>5, <1>6, SeqEqual
<1>8. (x \o y)[Len(x \o y)] = Last(y) /\ Last(y) \in Elements
  BY <1>1, <1>3 DEF Last
<1> QED BY <1>2, <1>7, <1>8 DEF f

LEMMA ConcatRight ==
  ASSUME NEW x \in Seq(Elements), NEW y \in Seq(Elements), NEW e \in Elements, NEW j \in 1 .. Len(y)
  PROVE  /\ Len(x) + j \in 1 .. Len(x \o y)
         /\ x \o [y EXCEPT ![j] = e] = [x \o y EXCEPT ![Len(x) + j] = e]
<1> DEFINE z == [y EXCEPT ![j] = e]
           w == x \o y
           f == [w EXCEPT ![Len(x) + j] = e]
<1>1. Len(x) \in Nat /\ Len(y) \in Nat /\ w \in Seq(Elements) /\ Len(w) = Len(x) + Len(y)
      /\ Len(x) + j \in 1 .. Len(w)
  OBVIOUS
<1>2. z \in Seq(Elements) /\ Len(z) = Len(y) /\ \A k \in 1 .. Len(y) : z[k] = IF k = j THEN e ELSE y[k]
  BY ExceptSeq
<1>3. \A k \in 1 .. Len(w) : w[k] = IF k <= Len(x) THEN x[k] ELSE y[k - Len(x)]
  BY ConcatProperties
<1> HIDE DEF z, w
<1>4. f \in Seq(Elements) /\ Len(f) = Len(w)
      /\ \A k \in 1 .. Len(w) : f[k] = IF k = Len(x) + j THEN e ELSE w[k]
  BY <1>1, ExceptSeq
<1>5. x \o z \in Seq(Elements) /\ Len(x \o z) = Len(w)
  <2>1. x \o z \in Seq(Elements) /\ Len(x \o z) = Len(x) + Len(z)
    BY <1>2, ConcatProperties
  <2> QED BY <2>1, <1>1, <1>2
<1> HIDE DEF f
<1>6. ASSUME NEW k \in 1 .. Len(w) PROVE (x \o z)[k] = f[k]
  <2>1. (x \o z)[k] = IF k <= Len(x) THEN x[k] ELSE z[k - Len(x)]
    BY <1>1, <1>2, ConcatProperties
  <2>2. CASE k <= Len(x)
    BY <2>1, <2>2, <1>1, <1>3, <1>4
  <2>3. CASE ~(k <= Len(x))
    <3>1. k - Len(x) \in 1 .. Len(y) /\ (k - Len(x) = j <=> k = Len(x) + j)
      BY <2>3, <1>1
    <3> QED BY <3>1, <2>1, <2>3, <1>2, <1>3, <1>4
  <2> QED BY <2>2, <2>3
<1>7. x \o z = f
  BY <1>4, <1>5, <1>6, SeqEqual
<1> QED BY <1>1, <1>7 DEF z, w, f

LEMMA ConcatLeft ==
  ASSUME NEW x \in Seq(Elements), NEW y \in Seq(Elements), NEW e \in Elements, NEW h \in 1 .. Len(x)
  PROVE  /\ h \in 1 .. Len(x \o y)
         /\ [x EXCEPT ![h] = e] \o y = [x \o y EXCEPT ![h] = e]
<1> DEFINE z == [x EXCEPT ![h] = e]
           w == x \o y
           f == [w EXCEPT ![h] = e]
<1>1. Len(x) \in Nat /\ Len(y) \in Nat /\ w \in Seq(Elements) /\ Len(w) = Len(x) + Len(y)
      /\ h \in 1 .. Len(w)
  OBVIOUS
<1>2. z \in Seq(Elements) /\ Len(z) = Len(x) /\ \A k \in 1 .. Len(x) : z[k] = IF k = h THEN e ELSE x[k]
  BY ExceptSeq
<1>3. \A k \in 1 .. Len(w) : w[k] = IF k <= Len(x) THEN x[k] ELSE y[k - Len(x)]
  BY ConcatProperties
<1> HIDE DEF z, w
<1>4. f \in Seq(Elements) /\ Len(f) = Len(w)
      /\ \A k \in 1 .. Len(w) : f[k] = IF k = h THEN e ELSE w[k]
  BY <1>1, ExceptSeq
<1>5. z \o y \in Seq(Elements) /\ Len(z \o y) = Len(w)
  <2>1. z \o y \in Seq(Elements) /\ Len(z \o y) = Len(z) + Len(y)
    BY <1>2, ConcatProperties
  <2> QED BY <2>1, <1>1, <1>2
<1> HIDE DEF f
<1>6. ASSUME NEW k \in 1 .. Len(w) PROVE (z \o y)[k] = f[k]
  <2>1. (z \o y)[k] = IF k <= Len(x) THEN z[k] ELSE y[k - Len(x)]
    BY <1>1, <1>2, ConcatProperties
  <2>2. CASE k <= Len(x)
    <3>1. k \in 1 .. Len(x)
      BY <2>2, <1>1
    <3> QED BY <3>1, <2>1, <2>2, <1>2, <1>3, <1>4
  <2>3. CASE ~(k <= Len(x))
    <3>1. k # h
      BY <2>3, <1>1
    <3> QED BY <3>1, <2>1, <2>3, <1>3, <1>4
  <2> QED BY <2>2, <2>3
<1>7. z \o y = f
  BY <1>4, <1>5, <1>6, SeqEqual
<1> QED BY <1>1, <1>7 DEF z, w, f

(* One element of the i-th sequence is written: so is it in what follows.   *)
WrittenAt(s, r, i, j, e) ==
  /\ Len(r) = Len(s) /\ i \in 1 .. Len(s) /\ j \in 1 .. Len(s[i])
  /\ \A k \in 1 .. Len(s) : r[k] = IF k = i THEN [s[i] EXCEPT ![j] = e] ELSE s[k]

JoinsWritten(s, r, i, h, e) ==
  /\ \A n \in 0 .. i - 1 : Joined(r, n) = Joined(s, n)
  /\ \A n \in i .. Len(s) : h \in 1 .. Len(Joined(s, n)) /\ Joined(r, n) = [Joined(s, n) EXCEPT ![h] = e]

LEMMA JoinedWritten ==
  ASSUME NEW s \in Seq(Seq(Elements)), NEW r \in Seq(Seq(Elements)), NEW e \in Elements,
         NEW i, NEW j, WrittenAt(s, r, i, j, e), NEW h, h = Len(Joined(s, i - 1)) + j
  PROVE  JoinsWritten(s, r, i, h, e)
<1> DEFINE Good(n) == h \in 1 .. Len(Joined(s, n)) /\ Joined(r, n) = [Joined(s, n) EXCEPT ![h] = e]
           T == {k \in i .. Len(s) : ~Good(k)}
<1>1. Len(s) \in Nat /\ Len(r) = Len(s) /\ i \in 1 .. Len(s) /\ i \in Nat /\ j \in 1 .. Len(s[i])
  BY DEF WrittenAt
<1>2. ASSUME NEW n \in 0 .. i - 1 PROVE Joined(r, n) = Joined(s, n)
  <2>1. n \in Nat /\ n <= Len(s) /\ n <= Len(r) /\ \A k \in 1 .. n : k \in 1 .. Len(s) /\ k # i
    BY <1>1
  <2>2. Agree(s, r, n)
    BY <2>1 DEF Agree, WrittenAt
  <2> QED BY <2>1, <2>2, JoinedSame
<1>3. \A n \in 1 .. Len(s) : /\ Joined(s, n) = Joined(s, n - 1) \o s[n]
                             /\ Joined(r, n) = Joined(r, n - 1) \o r[n]
                             /\ Joined(s, n - 1) \in Seq(Elements)
                             /\ s[n] \in Seq(Elements)
  <2>1. ASSUME NEW n \in 1 .. Len(s)
        PROVE  /\ n - 1 \in 0 .. Len(s) /\ n \in 1 .. Len(r) /\ s[n] \in Seq(Elements)
    BY <1>1
  <2> QED BY <2>1, JoinedIs
<1>4. Good(i)
  <2>1. i \in 1 .. Len(s) /\ i - 1 \in 0 .. i - 1
    BY <1>1
  <2> DEFINE x == Joined(s, i - 1)
             y == s[i]
  <2>2. x \in Seq(Elements) /\ y \in Seq(Elements) /\ Joined(s, i) = x \o y
    BY <2>1, <1>3
  <2>3. Joined(r, i) = x \o [y EXCEPT ![j] = e]
    BY <2>1, <1>2, <1>3 DEF WrittenAt
  <2>4. h = Len(x) + j /\ j \in 1 .. Len(y)
    BY <1>1
  <2> HIDE DEF x, y
  <2> QED BY <2>2, <2>3, <2>4, ConcatRight
<1>5. T = {}
  <2>1. SUFFICES ASSUME T # {} PROVE FALSE
    OBVIOUS
  <2>2. PICK k \in T : \A l \in T : k <= l
    <3>1. T \subseteq Nat
      BY <1>1
    <3> HIDE DEF T
    <3> QED BY <2>1, <3>1, Least
  <2>3. k \in i .. Len(s) /\ ~Good(k)
    OBVIOUS
  <2> HIDE DEF Good
  <2>4. k # i
    BY <2>3, <1>4
  <2>5. k - 1 \in i .. Len(s) /\ ~(k <= k - 1) /\ k \in 1 .. Len(s) /\ k # i
    BY <2>3, <2>4, <1>1
  <2>6. Good(k - 1)
    BY <2>2, <2>5
  <2> DEFINE x == Joined(s, k - 1)
             y == s[k]
  <2>7. x \in Seq(Elements) /\ y \in Seq(Elements) /\ Joined(s, k) = x \o y
        /\ Joined(r, k) = Joined(r, k - 1) \o y
    BY <2>5, <1>3 DEF WrittenAt
  <2>8. h \in 1 .. Len(x) /\ Joined(r, k - 1) = [x EXCEPT ![h] = e]
    BY <2>6 DEF Good
  <2> HIDE DEF x, y
  <2>9. h \in 1 .. Len(x \o y) /\ [x EXCEPT ![h] = e] \o y = [x \o y EXCEPT ![h] = e]
    BY <2>7, <2>8, ConcatLeft
  <2>10. Good(k)
    BY <2>7, <2>8, <2>9 DEF Good
  <2> QED BY <2>3, <2>10
<1>6. ASSUME NEW n \in i .. Len(s) PROVE Good(n)
  BY <1>5
<1> QED BY <1>2, <1>6 DEF JoinsWritten

-----------------------------------------------------------------------------
LEMMA StacksAre ==
  ASSUME NEW c \in ChunkLists
  PROVE  /\ Stacks(c) \in Seq(Seq(Elements)) /\ Len(Stacks(c)) = Len(c) /\ Len(c) \in Nat
         /\ \A i \in 1 .. Len(c) : /\ Stacks(c)[i] = c[i].m_stack
                                   /\ c[i].m_stack \in Seq(Elements)
                                   /\ Len(c[i].m_stack) \in Nat
<1>1. Len(c) \in Nat /\ DOMAIN c = 1 .. Len(c)
  BY DEF ChunkLists
<1>2. \A i \in 1 .. Len(c) : c[i] \in [at : Addresses, m_stack : Seq(Elements)]
  BY ElementOfSeq DEF ChunkLists
<1>3. \A i \in 1 .. Len(c) : c[i].m_stack \in Seq(Elements)
  BY <1>2
<1>4. \A i \in 1 .. Len(c) : Len(c[i].m_stack) \in Nat
  BY <1>3
<1>5. Stacks(c) = [i \in 1 .. Len(c) |-> c[i].m_stack]
  BY <1>1 DEF Stacks
<1>6. Stacks(c) \in Seq(Seq(Elements)) /\ Len(Stacks(c)) = Len(c)
  BY <1>1, <1>3, <1>5
<1> QED BY <1>1, <1>3, <1>4, <1>5, <1>6

(* The last chunk with an element; 0 when there is none.                    *)
TopIs(c, t) ==
  /\ t \in 0 .. Len(c)
  /\ t # 0 => c[t].m_stack # <<>>
  /\ \A i \in t + 1 .. Len(c) : c[i].m_stack = <<>>

(* The address of the top element.                                          *)
TopOf(c, t) == IF t = 0 THEN NULL ELSE <<c[t].at, Len(c[t].m_stack)>>

(* The elements are those of the chunks up to there.                        *)
LEMMA DupIs ==
  ASSUME NEW c \in ChunkLists, NEW t \in Nat, TopIs(c, t)
  PROVE  /\ FlattenSeq(Stacks(c)) = Joined(Stacks(c), t)
         /\ FlattenSeq(Stacks(c)) \in Seq(Elements)
         /\ t = 0 => FlattenSeq(Stacks(c)) = <<>>
         /\ t # 0 => /\ FlattenSeq(Stacks(c)) = Joined(Stacks(c), t - 1) \o c[t].m_stack
                     /\ Joined(Stacks(c), t - 1) \in Seq(Elements)
                     /\ FlattenSeq(Stacks(c)) # <<>>
<1> DEFINE s == Stacks(c)
<1>1. s \in Seq(Seq(Elements)) /\ Len(s) = Len(c) /\ Len(c) \in Nat
      /\ \A i \in 1 .. Len(c) : s[i] = c[i].m_stack /\ c[i].m_stack \in Seq(Elements)
  BY StacksAre
<1> HIDE DEF s
<1>2. t \in Nat /\ Len(s) \in t .. Len(s) /\ t \in 0 .. Len(s)
  BY <1>1 DEF TopIs
<1>3. \A i \in t + 1 .. Len(s) : s[i] = <<>>
  BY <1>1, <1>2 DEF TopIs
<1>4. FlattenSeq(s) = Joined(s, Len(s)) /\ Joined(s, 0) = <<>> /\ Joined(s, t) \in Seq(Elements)
  BY <1>1, <1>2, JoinedIs
<1>5. Joined(s, Len(s)) = Joined(s, t)
  BY <1>1, <1>2, <1>3, JoinedEmpty
<1>6. ASSUME t # 0
      PROVE  /\ Joined(s, t) = Joined(s, t - 1) \o c[t].m_stack
             /\ Joined(s, t - 1) \in Seq(Elements)
             /\ Joined(s, t) # <<>>
  <2>1. t \in 1 .. Len(s) /\ t - 1 \in 0 .. Len(s)
    BY <1>2, <1>6
  <2>2. Joined(s, t) = Joined(s, t - 1) \o s[t] /\ Joined(s, t - 1) \in Seq(Elements)
    BY <1>1, <2>1, JoinedIs
  <2>3. s[t] = c[t].m_stack /\ s[t] \in Seq(Elements) /\ s[t] # <<>>
    BY <1>1, <1>6, <2>1 DEF TopIs
  <2>4. Joined(s, t - 1) \o s[t] # <<>>
    BY <2>2, <2>3
  <2> QED BY <2>2, <2>3, <2>4
<1> QED BY <1>4, <1>5, <1>6 DEF s

(* The elements when the chunks before n stay and those behind n are empty. *)
LEMMA Replaced ==
  ASSUME NEW c \in ChunkLists, NEW d \in ChunkLists, NEW n \in 1 .. Len(d),
         Agree(Stacks(c), Stacks(d), n - 1),
         \A i \in n + 1 .. Len(d) : d[i].m_stack = <<>>
  PROVE  FlattenSeq(Stacks(d)) = Joined(Stacks(c), n - 1) \o d[n].m_stack
<1> DEFINE s == Stacks(c)
           r == Stacks(d)
<1>1. s \in Seq(Seq(Elements)) /\ r \in Seq(Seq(Elements)) /\ Len(r) = Len(d) /\ Len(d) \in Nat
      /\ \A i \in 1 .. Len(d) : r[i] = d[i].m_stack
  BY StacksAre
<1>2. Agree(s, r, n - 1)
  OBVIOUS
<1> HIDE DEF s, r
<1>3. n \in Nat /\ n - 1 \in Nat /\ Len(r) \in n .. Len(r) /\ n \in 1 .. Len(r)
  BY <1>1
<1>4. \A i \in n + 1 .. Len(r) : r[i] = <<>>
  BY <1>1, <1>3
<1>5. FlattenSeq(r) = Joined(r, Len(r)) /\ Joined(r, n) = Joined(r, n - 1) \o r[n]
  BY <1>1, <1>3, JoinedIs
<1>6. Joined(r, Len(r)) = Joined(r, n)
  BY <1>1, <1>3, <1>4, JoinedEmpty
<1>7. Joined(s, n - 1) = Joined(r, n - 1)
  BY <1>1, <1>2, <1>3, JoinedSame
<1>8. r[n] = d[n].m_stack
  BY <1>1, <1>3
<1> QED BY <1>5, <1>6, <1>7, <1>8 DEF s, r

(* The height of an address is that of its place.                           *)
LEMMA PlaceHeight ==
  ASSUME NEW c \in ChunkLists, NEW p, NEW i, NEW j, Place(c, p, i, j), Distinct(c)
  PROVE  /\ HeightIn(c, p) = Len(Joined(Stacks(c), i - 1)) + j /\ p \notin Codes /\ p # NULL
         /\ Len(Joined(Stacks(c), i - 1)) \in Nat /\ j \in Nat \ {0}
         /\ HeightIn(c, p) \in Nat
<1> DEFINE s == Stacks(c)
           r == [k \in 1 .. i - 1 |-> c[k].m_stack]
<1>1. s \in Seq(Seq(Elements)) /\ Len(s) = Len(c) /\ Len(c) \in Nat
      /\ \A k \in 1 .. Len(c) : s[k] = c[k].m_stack /\ c[k].m_stack \in Seq(Elements)
  BY StacksAre
<1>2. i \in 1 .. Len(c) /\ j \in Nat \ {0} /\ p = <<c[i].at, j>> /\ DOMAIN c = 1 .. Len(c)
  BY <1>1 DEF Place, ChunkLists
<1>3. p \notin Codes /\ p # NULL /\ p[1] = c[i].at /\ p[2] = j
  BY <1>2 DEF Codes, NULL, ToPop, Popped
<1>4. (CHOOSE k \in DOMAIN c : c[k].at = p[1]) = i
  BY <1>2, <1>3 DEF Distinct
<1>5. HeightIn(c, p) = Len(FlattenSeq(r)) + j
  BY <1>3, <1>4 DEF HeightIn
<1>6. r \in Seq(Seq(Elements)) /\ Len(r) = i - 1 /\ \A k \in 1 .. i - 1 : r[k] = s[k]
  <2>1. i - 1 \in Nat /\ \A k \in 1 .. i - 1 : k \in 1 .. Len(c)
    BY <1>1, <1>2
  <2>2. \A k \in 1 .. i - 1 : c[k].m_stack \in Seq(Elements) /\ s[k] = c[k].m_stack
    BY <2>1, <1>1
  <2> HIDE DEF s
  <2> QED BY ONLY <2>1, <2>2
<1> HIDE DEF s, r
<1>7. i - 1 \in Nat /\ i - 1 \in 0 .. Len(s)
  BY <1>1, <1>2
<1>8. Agree(s, r, i - 1)
  BY <1>1, <1>6, <1>7 DEF Agree
<1>9. Joined(s, i - 1) = Joined(r, i - 1)
  BY <1>1, <1>6, <1>7, <1>8, JoinedSame
<1>10. FlattenSeq(r) = Joined(r, i - 1)
  BY <1>6, JoinedIs
<1>11. Joined(s, i - 1) \in Seq(Elements)
  BY <1>1, <1>7, JoinedIs
<1>12. Len(Joined(s, i - 1)) \in Nat
  BY <1>11
<1>13. HeightIn(c, p) = Len(Joined(s, i - 1)) + j
  BY <1>5, <1>9, <1>10
<1> QED BY <1>2, <1>3, <1>12, <1>13 DEF s

(* An address is at most as high as the stack, and as high if it is the     *)
(* top: the comparison of FullReduce is one of heights.                     *)
LEMMA HeightBound ==
  ASSUME NEW c \in ChunkLists, Distinct(c), NEW t \in Nat, TopIs(c, t), NEW p, Marked(c, p)
  PROVE  /\ HeightIn(c, p) \in Nat
         /\ Len(FlattenSeq(Stacks(c))) \in Nat
         /\ HeightIn(c, p) <= Len(FlattenSeq(Stacks(c)))
         /\ HeightIn(c, p) = Len(FlattenSeq(Stacks(c))) <=> p = TopOf(c, t)
<1> DEFINE s == Stacks(c)
           h == Len(FlattenSeq(s))
<1>1. s \in Seq(Seq(Elements)) /\ Len(s) = Len(c) /\ Len(c) \in Nat
      /\ \A k \in 1 .. Len(c) : /\ s[k] = c[k].m_stack
                                /\ c[k].m_stack \in Seq(Elements)
                                /\ Len(c[k].m_stack) \in Nat
  BY StacksAre
<1>2. /\ FlattenSeq(s) \in Seq(Elements)
      /\ t = 0 => FlattenSeq(s) = <<>>
      /\ t # 0 => /\ FlattenSeq(s) = Joined(s, t - 1) \o c[t].m_stack
                  /\ Joined(s, t - 1) \in Seq(Elements)
                  /\ FlattenSeq(s) # <<>>
  BY DupIs
<1>3. h \in Nat /\ (t = 0 => h = 0) /\ (t # 0 => h # 0)
  BY <1>2, EmptySeq, LenProperties
<1>4. t # 0 => t \in 1 .. Len(c) /\ c[t].m_stack # <<>>
  BY <1>1 DEF TopIs
<1>5. t # 0 => Len(c[t].m_stack) \in Nat \ {0}
  BY <1>1, <1>4, EmptySeq
<1>6. ASSUME t # 0
      PROVE  h = Len(Joined(s, t - 1)) + Len(c[t].m_stack) /\ Len(Joined(s, t - 1)) \in Nat
  <2> DEFINE x == Joined(s, t - 1)
             y == c[t].m_stack
  <2>1. x \in Seq(Elements) /\ y \in Seq(Elements) /\ FlattenSeq(s) = x \o y
    BY <1>1, <1>2, <1>4, <1>6
  <2> HIDE DEF x, y, s
  <2>2. h = Len(x \o y)
    BY <2>1
  <2>3. Len(x \o y) = Len(x) + Len(y) /\ Len(x) \in Nat
    BY ONLY <2>1, ConcatProperties, LenProperties
  <2> QED BY ONLY <2>2, <2>3 DEF x, y
<1>7. t # 0 => TopOf(c, t) = <<c[t].at, Len(c[t].m_stack)>> /\ TopOf(c, t) # NULL
  BY <1>5 DEF TopOf, NULL
<1>8. t = 0 => TopOf(c, t) = NULL
  BY DEF TopOf
<1>9. CASE p = NULL
  <2>1. HeightIn(c, p) = 0
    BY <1>9 DEF HeightIn, Codes
  <2>2. h = 0 <=> p = TopOf(c, t)
    BY <1>3, <1>7, <1>8, <1>9
  <2> HIDE DEF h
  <2>3. HeightIn(c, p) \in Nat /\ HeightIn(c, p) <= h /\ (HeightIn(c, p) = h <=> p = TopOf(c, t))
    BY ONLY <2>1, <2>2, <1>3
  <2> QED BY <2>3, <1>3 DEF h
<1>10. CASE p # NULL
  <2>1. PICK i, j \in Nat : Place(c, p, i, j)
    BY <1>10 DEF Marked
  <2>2. HeightIn(c, p) = Len(Joined(s, i - 1)) + j /\ Len(Joined(s, i - 1)) \in Nat /\ j \in Nat \ {0}
    BY <2>1, PlaceHeight
  <2>3. i \in 1 .. Len(c) /\ j \in 1 .. Len(c[i].m_stack) /\ p = <<c[i].at, j>>
    BY <2>1 DEF Place
  <2>4. t \in 0 .. Len(c) /\ i <= t /\ t # 0
    <3>1. c[i].m_stack # <<>>
      BY <2>3
    <3> QED BY <3>1, <2>3, <1>1 DEF TopIs
  <2> HIDE DEF s
  <2>5. CASE i = t
    <3>1. HeightIn(c, p) = Len(Joined(s, t - 1)) + j /\ j \in 1 .. Len(c[t].m_stack)
      BY <2>2, <2>3, <2>5
    <3>2. j = Len(c[t].m_stack) <=> p = TopOf(c, t)
      BY <2>3, <2>4, <2>5, <1>7
    <3> HIDE DEF h
    <3> DEFINE a == Len(Joined(s, t - 1))
               l == Len(c[t].m_stack)
    <3>3. HeightIn(c, p) = a + j /\ j \in 1 .. l /\ h = a + l /\ a \in Nat /\ l \in Nat
          /\ (j = l <=> p = TopOf(c, t))
      BY <3>1, <3>2, <2>4, <1>5, <1>6
    <3> HIDE DEF a, l
    <3>4. HeightIn(c, p) \in Nat /\ HeightIn(c, p) <= h /\ (HeightIn(c, p) = h <=> p = TopOf(c, t))
      BY ONLY <3>3
    <3> QED BY <3>4, <1>3 DEF h, s
  <2>6. CASE i # t
    <3>1. i \in 1 .. Len(s) /\ t - 1 \in i .. Len(s) /\ i \in 0 .. Len(s) /\ i - 1 \in 0 .. Len(s)
      BY <2>3, <2>4, <2>6, <1>1
    <3>2. Len(Joined(s, i)) <= Len(Joined(s, t - 1))
      BY <3>1, <1>1, JoinedLonger
    <3>3. Joined(s, i) = Joined(s, i - 1) \o s[i] /\ Joined(s, i - 1) \in Seq(Elements)
          /\ Joined(s, i) \in Seq(Elements)
      BY <3>1, <1>1, JoinedIs
    <3>4. s[i] = c[i].m_stack /\ s[i] \in Seq(Elements)
      BY <2>3, <1>1
    <3> DEFINE x == Joined(s, i)
               y == Joined(s, i - 1)
               z == s[i]
    <3>5. x = y \o z /\ y \in Seq(Elements) /\ z \in Seq(Elements) /\ x \in Seq(Elements)
      BY <3>3, <3>4
    <3> HIDE DEF x, y, z
    <3>6. Len(x) = Len(y) + Len(z) /\ Len(x) \in Nat /\ Len(y) \in Nat /\ Len(z) \in Nat
      BY ONLY <3>5, LenProperties
    <3> DEFINE a == Len(Joined(s, t - 1))
               l == Len(c[t].m_stack)
    <3>7. Len(x) <= a /\ a \in Nat /\ l \in Nat \ {0} /\ h = a + l
      BY <3>2, <2>4, <1>5, <1>6 DEF x
    <3>8. HeightIn(c, p) = Len(y) + j /\ j \in 1 .. Len(z)
      BY <2>2, <2>3, <3>4 DEF y, z
    <3> HIDE DEF a, l, h
    <3>9. HeightIn(c, p) \in Nat /\ HeightIn(c, p) <= h /\ HeightIn(c, p) # h
      BY ONLY <3>6, <3>7, <3>8
    <3>10. p # TopOf(c, t)
      <4>1. c[i].at # c[t].at
        BY <2>3, <2>4, <2>6 DEF Distinct
      <4> QED BY <4>1, <2>3, <2>4, <1>7
    <3> QED BY <3>9, <3>10, <1>3 DEF h, s
  <2> QED BY <2>5, <2>6
<1> QED BY <1>9, <1>10

(* The chunks up to t keep their addresses, those before t their elements.  *)
Same(c, d, t) ==
  /\ t \in 0 .. Len(c) /\ t <= Len(d)
  /\ \A k \in 1 .. t : d[k].at = c[k].at /\ (k < t => d[k].m_stack = c[k].m_stack)

(* An address that keeps its place keeps its height.                        *)
LEMMA HeightKept ==
  ASSUME NEW c \in ChunkLists, Distinct(c), NEW d \in ChunkLists, Distinct(d),
         NEW t \in Nat, Same(c, d, t),
         NEW p, NEW i, NEW j, Place(c, p, i, j), i <= t, i = t => j <= Len(d[t].m_stack)
  PROVE  Place(d, p, i, j) /\ HeightIn(d, p) = HeightIn(c, p)
<1> DEFINE s == Stacks(c)
           r == Stacks(d)
<1>1. s \in Seq(Seq(Elements)) /\ Len(s) = Len(c) /\ Len(c) \in Nat
      /\ \A k \in 1 .. Len(c) : s[k] = c[k].m_stack
  BY StacksAre
<1>2. r \in Seq(Seq(Elements)) /\ Len(r) = Len(d) /\ Len(d) \in Nat
      /\ \A k \in 1 .. Len(d) : r[k] = d[k].m_stack /\ Len(d[k].m_stack) \in Nat
  BY StacksAre
<1>3. i \in 1 .. Len(c) /\ j \in 1 .. Len(c[i].m_stack) /\ p = <<c[i].at, j>>
  BY DEF Place
<1>4. t \in Nat /\ i \in 1 .. t /\ t <= Len(c) /\ t <= Len(d) /\ i - 1 \in Nat
  BY <1>1, <1>3 DEF Same
<1>5. Place(d, p, i, j)
  <2>1. d[i].at = c[i].at /\ (i < t => d[i].m_stack = c[i].m_stack)
    BY <1>4 DEF Same
  <2>2. i \in 1 .. Len(d)
    BY <1>2, <1>4
  <2>3. j \in 1 .. Len(d[i].m_stack)
    <3>1. CASE i = t
      BY <3>1, <1>2, <1>3, <2>2
    <3>2. CASE i # t
      BY <3>2, <1>3, <1>4, <2>1
    <3> QED BY <3>1, <3>2
  <2> QED BY <2>1, <2>2, <2>3, <1>3 DEF Place
<1>6. Agree(s, r, i - 1)
  <2>1. i - 1 <= Len(s) /\ i - 1 <= Len(r)
    BY <1>1, <1>2, <1>4
  <2>2. ASSUME NEW k \in 1 .. i - 1 PROVE s[k] = r[k]
    <3>1. k \in 1 .. t /\ k < t /\ k \in 1 .. Len(c) /\ k \in 1 .. Len(d)
      BY <1>1, <1>2, <1>4
    <3>2. d[k].m_stack = c[k].m_stack
      BY <3>1 DEF Same
    <3> QED BY <3>1, <3>2, <1>1, <1>2
  <2> HIDE DEF s, r
  <2> QED BY <2>1, <2>2 DEF Agree
<1>7. HeightIn(c, p) = Len(Joined(s, i - 1)) + j
  BY PlaceHeight
<1>8. HeightIn(d, p) = Len(Joined(r, i - 1)) + j
  BY <1>5, PlaceHeight
<1> HIDE DEF s, r
<1>9. Joined(s, i - 1) = Joined(r, i - 1)
  BY <1>1, <1>2, <1>4, <1>6, JoinedSame
<1> QED BY <1>5, <1>7, <1>8, <1>9

(* An address of a call stays what it is unless its element is popped.      *)
LEMMA MarkedKept ==
  ASSUME NEW c \in ChunkLists, Distinct(c), NEW d \in ChunkLists, Distinct(d),
         NEW t \in Nat, TopIs(c, t), Same(c, d, t), NEW p, Marked(c, p),
         t # 0 => Len(d[t].m_stack) >= Len(c[t].m_stack) - 1,
         t # 0 /\ p = TopOf(c, t) => Len(d[t].m_stack) >= Len(c[t].m_stack)
  PROVE  Marked(d, p) /\ HeightIn(d, p) = HeightIn(c, p)
<1>1. CASE p = NULL
  BY <1>1 DEF Marked, HeightIn, Codes
<1>2. CASE p # NULL
  <2>1. PICK i, j \in Nat : Place(c, p, i, j)
    BY <1>2 DEF Marked
  <2>2. i \in 1 .. Len(c) /\ j \in 1 .. Len(c[i].m_stack) /\ p = <<c[i].at, j>>
    BY <2>1 DEF Place
  <2>3. Len(c) \in Nat /\ \A k \in 1 .. Len(c) : Len(c[k].m_stack) \in Nat
    BY StacksAre
  <2>4. i <= t /\ t # 0 /\ t \in 1 .. Len(c)
    <3>1. c[i].m_stack # <<>>
      BY <2>2
    <3> QED BY <3>1, <2>2, <2>3 DEF TopIs
  <2>5. Len(d[t].m_stack) \in Nat
    <3>1. Len(d) \in Nat /\ \A k \in 1 .. Len(d) : Len(d[k].m_stack) \in Nat
      BY StacksAre
    <3>2. t \in 1 .. Len(d)
      BY <3>1, <2>3, <2>4 DEF Same
    <3> QED BY <3>1, <3>2
  <2>6. i = t => j <= Len(d[t].m_stack)
    <3>1. CASE p = TopOf(c, t)
      BY <3>1, <2>2, <2>3, <2>4, <2>5
    <3>2. CASE p # TopOf(c, t) /\ i = t
      <4>1. j # Len(c[t].m_stack)
        BY <3>2, <2>2, <2>4 DEF TopOf
      <4> QED BY <4>1, <3>2, <2>2, <2>3, <2>4, <2>5
    <3> QED BY <3>1, <3>2
  <2>7. Place(d, p, i, j) /\ HeightIn(d, p) = HeightIn(c, p)
    BY <2>1, <2>4, <2>6, HeightKept
  <2> QED BY <2>7, <2>1 DEF Marked
<1> QED BY <1>1, <1>2

-----------------------------------------------------------------------------
(* The addresses of the calls mean the same in d as in c.                   *)
SameMarks(c, d, s) ==
  \A k \in 1 .. Len(s) : Marked(d, s[k]) /\ HeightIn(d, s[k]) = HeightIn(c, s[k])

(* The elements, all of them.                                               *)
FullHeight(c) == Len(FlattenSeq(Stacks(c)))

(* A call has elements of its own when the top is not what it found.        *)
LEMMA LoopingIs ==
  ASSUME NEW c \in ChunkLists, Distinct(c), NEW t \in Nat, TopIs(c, t),
         NEW s \in Seq(Marks), s # <<>>, CallsOK(c, s)
  PROVE  /\ Len(s) \in 1 .. Len(s) /\ FullHeight(c) \in Nat
         /\ HeightIn(c, s[Len(s)]) \in Nat
         /\ TopOf(c, t) # s[Len(s)] <=> FullHeight(c) > HeightIn(c, s[Len(s)])
         /\ TopOf(c, t) = s[Len(s)] <=> FullHeight(c) = HeightIn(c, s[Len(s)])
<1>1. Len(s) \in 1 .. Len(s)
  <2>1. Len(s) \in Nat \ {0}
    BY EmptySeq
  <2> QED BY ONLY <2>1
<1>2. Marked(c, s[Len(s)])
  BY <1>1 DEF CallsOK
<1>3. /\ HeightIn(c, s[Len(s)]) \in Nat /\ FullHeight(c) \in Nat
      /\ HeightIn(c, s[Len(s)]) <= FullHeight(c)
      /\ HeightIn(c, s[Len(s)]) = FullHeight(c) <=> s[Len(s)] = TopOf(c, t)
  BY <1>2, HeightBound DEF FullHeight
<1> QED BY <1>1, <1>3

(* Every address means the same in d as in c.                               *)
AllKept(c, d) == \A p : Marked(c, p) => Marked(d, p) /\ HeightIn(d, p) = HeightIn(c, p)

(* Nothing is taken from below: pushes and cleanup.                         *)
LEMMA GrowKeeps ==
  ASSUME NEW c \in ChunkLists, Distinct(c), NEW d \in ChunkLists, Distinct(d),
         NEW t \in Nat, TopIs(c, t), Same(c, d, t),
         t # 0 => Len(d[t].m_stack) >= Len(c[t].m_stack)
  PROVE  AllKept(c, d)
<1>1. t # 0 => Len(d[t].m_stack) >= Len(c[t].m_stack) - 1
  <2>1. SUFFICES ASSUME t # 0 PROVE Len(d[t].m_stack) >= Len(c[t].m_stack) - 1
    OBVIOUS
  <2>2. t \in 1 .. Len(c) /\ t \in 1 .. Len(d)
    <3>1. Len(c) \in Nat /\ Len(d) \in Nat
      BY StacksAre
    <3> QED BY <2>1, <3>1 DEF Same
  <2>3. Len(d[t].m_stack) \in Nat /\ Len(c[t].m_stack) \in Nat
    BY <2>2, StacksAre
  <2> QED BY <2>1, <2>3
<1>2. ASSUME NEW p, Marked(c, p) PROVE Marked(d, p) /\ HeightIn(d, p) = HeightIn(c, p)
  BY <1>1, <1>2, MarkedKept
<1> QED BY <1>2 DEF AllKept

(* A pop takes the element of nobody but the last call.                     *)
LEMMA PopKeeps ==
  ASSUME NEW c \in ChunkLists, Distinct(c), NEW d \in ChunkLists, Distinct(d),
         NEW t \in Nat, TopIs(c, t), Same(c, d, t), t # 0,
         Len(d[t].m_stack) >= Len(c[t].m_stack) - 1,
         NEW p, Marked(c, p), HeightIn(c, p) < FullHeight(c)
  PROVE  Marked(d, p) /\ HeightIn(d, p) = HeightIn(c, p)
<1>1. p # TopOf(c, t)
  <2>1. SUFFICES ASSUME p = TopOf(c, t) PROVE FALSE
    OBVIOUS
  <2>2. HeightIn(c, p) = FullHeight(c) /\ FullHeight(c) \in Nat
    BY <2>1, HeightBound DEF FullHeight
  <2> QED BY <2>2
<1> QED BY <1>1, MarkedKept

(* The same calls are under way.                                            *)
LEMMA CallsStay ==
  ASSUME NEW c, NEW d, NEW s, CallsOK(c, s), SameMarks(c, d, s),
         s = <<>> => FlattenSeq(Stacks(d)) = <<>>
  PROVE  CallsOK(d, s)
BY DEF CallsOK, SameMarks

(* The top is a place.                                                      *)
LEMMA TopMarked ==
  ASSUME NEW c \in ChunkLists, NEW t \in Nat, TopIs(c, t)
  PROVE  Marked(c, TopOf(c, t))
<1> DEFINE q == TopOf(c, t)
<1>1. CASE t = 0
  BY <1>1 DEF TopOf, Marked
<1>2. CASE t # 0
  <2>1. t \in 1 .. Len(c) /\ c[t].m_stack # <<>>
    <3>1. Len(c) \in Nat
      BY StacksAre
    <3> QED BY <3>1, <1>2 DEF TopIs
  <2>2. c[t].m_stack \in Seq(Elements)
    BY <2>1, StacksAre
  <2>3. Len(c[t].m_stack) \in Nat \ {0}
    BY <2>1, <2>2, EmptySeq
  <2>4. Place(c, q, t, Len(c[t].m_stack))
    BY <2>1, <2>3, <1>2 DEF Place, TopOf
  <2> QED BY <2>3, <2>4 DEF Marked
<1> QED BY <1>1, <1>2

(* A call is entered, and the top is its own.                               *)
LEMMA CallEntered ==
  ASSUME NEW c \in ChunkLists, Distinct(c), NEW d \in ChunkLists, Distinct(d),
         NEW t \in Nat, TopIs(c, t), Same(c, d, t),
         t # 0 => Len(d[t].m_stack) >= Len(c[t].m_stack),
         NEW s \in Seq(Marks), CallsOK(c, s), TopOf(c, t) \in Marks
  PROVE  /\ CallsOK(d, Append(s, TopOf(c, t)))
         /\ HeightIn(d, TopOf(c, t)) = FullHeight(c)
<1> DEFINE q == TopOf(c, t)
           r == Append(s, q)
<1>1. SameMarks(c, d, s)
  BY GrowKeeps DEF AllKept, SameMarks, CallsOK
<1>2. Marked(c, q)
  BY TopMarked
<1>4. HeightIn(c, q) = FullHeight(c) /\ FullHeight(c) \in Nat
  BY <1>2, HeightBound DEF FullHeight
<1>5. Marked(d, q) /\ HeightIn(d, q) = HeightIn(c, q)
  <2>1. t # 0 => Len(d[t].m_stack) >= Len(c[t].m_stack) - 1
    <3>1. SUFFICES ASSUME t # 0 PROVE Len(d[t].m_stack) >= Len(c[t].m_stack) - 1
      OBVIOUS
    <3>2. t \in 1 .. Len(c) /\ t \in 1 .. Len(d)
      <4>1. Len(c) \in Nat /\ Len(d) \in Nat
        BY StacksAre
      <4> QED BY <3>1, <4>1 DEF Same
    <3>3. Len(d[t].m_stack) \in Nat /\ Len(c[t].m_stack) \in Nat
      BY <3>2, StacksAre
    <3> QED BY <3>1, <3>3
  <2> HIDE DEF q
  <2> QED BY <1>2, <2>1, MarkedKept
<1>6. Len(s) \in Nat /\ Len(r) = Len(s) + 1 /\ r[Len(s) + 1] = q /\ \A k \in 1 .. Len(s) : r[k] = s[k]
  BY AppendProperties
<1> HIDE DEF q, r
<1>7. ASSUME NEW k \in 1 .. Len(s)
      PROVE  Marked(d, s[k]) /\ HeightIn(d, s[k]) = HeightIn(c, s[k]) /\ HeightIn(c, s[k]) <= FullHeight(c)
  <2>1. Marked(d, s[k]) /\ HeightIn(d, s[k]) = HeightIn(c, s[k])
    BY <1>1 DEF SameMarks
  <2>2. Marked(c, s[k])
    BY DEF CallsOK
  <2>3. HeightIn(c, s[k]) <= FullHeight(c)
    BY <2>2, HeightBound DEF FullHeight
  <2> QED BY <2>1, <2>3
<1>8. ASSUME NEW k \in 1 .. Len(r) PROVE Marked(d, r[k])
  BY <1>5, <1>6, <1>7
<1>9. ASSUME NEW k \in 1 .. Len(r), NEW n \in 1 .. Len(r), k < n
      PROVE  HeightIn(d, r[k]) <= HeightIn(d, r[n])
  <2>1. k \in 1 .. Len(s) /\ r[k] = s[k]
    BY <1>6, <1>9
  <2>2. CASE n = Len(s) + 1
    <3>1. r[n] = q
      BY <2>2, <1>6
    <3> QED BY <2>1, <3>1, <1>4, <1>5, <1>7
  <2>3. CASE n # Len(s) + 1
    <3>1. n \in 1 .. Len(s) /\ r[n] = s[n]
      BY <2>3, <1>6
    <3>2. HeightIn(c, s[k]) <= HeightIn(c, s[n])
      BY <2>1, <3>1, <1>9 DEF CallsOK
    <3>3. HeightIn(d, s[k]) = HeightIn(c, s[k]) /\ HeightIn(d, s[n]) = HeightIn(c, s[n])
      BY <2>1, <3>1, <1>7
    <3> QED BY <2>1, <3>1, <3>2, <3>3
  <2> QED BY <2>2, <2>3
<1>10. r # <<>> /\ r[1] = NULL
  <2>1. CASE s = <<>>
    <3>1. FlattenSeq(Stacks(c)) = <<>>
      BY <2>1 DEF CallsOK
    <3>2. t = 0
      BY <3>1, DupIs
    <3>3. r = <<q>> /\ q = NULL
      BY <2>1, <3>2 DEF r, q, TopOf
    <3> QED BY <3>3
  <2>2. CASE s # <<>>
    <3>1. 1 \in 1 .. Len(s) /\ s[1] = NULL
      BY <2>2, EmptySeq DEF CallsOK
    <3> QED BY <3>1, <1>6
  <2> QED BY <2>1, <2>2
<1>11. CallsOK(d, r)
  BY <1>8, <1>9, <1>10 DEF CallsOK
<1> QED BY <1>4, <1>5, <1>11 DEF q, r

(* The last call returns.                                                   *)
LEMMA CallReturned ==
  ASSUME NEW c \in ChunkLists, Distinct(c), NEW t \in Nat, TopIs(c, t),
         NEW s \in Seq(Marks), CallsOK(c, s), s # <<>>, TopOf(c, t) = s[Len(s)]
  PROVE  CallsOK(c, Front(s))
<1>1. Len(s) \in Nat \ {0}
  BY EmptySeq
<1>2. Front(s) \in Seq(Marks) /\ Len(Front(s)) = Len(s) - 1
      /\ \A k \in 1 .. Len(s) - 1 : Front(s)[k] = s[k]
  BY <1>1, FrontOf
<1> DEFINE r == Front(s)
<1> HIDE DEF r
<1>3. Len(r) = Len(s) - 1 /\ \A k \in 1 .. Len(s) - 1 : r[k] = s[k] /\ k \in 1 .. Len(s)
  BY <1>1, <1>2 DEF r
<1>4. r # <<>> => r[1] = NULL
  <2>1. ASSUME r # <<>> PROVE 1 \in 1 .. Len(s) - 1 /\ s[1] = NULL
    <3>1. r \in Seq(Marks)
      BY <1>2 DEF r
    <3>2. Len(r) \in Nat \ {0}
      BY <2>1, <3>1, EmptySeq
    <3>3. 1 \in 1 .. Len(s) - 1
      BY <1>1, <1>3, <3>2
    <3> QED BY <3>3 DEF CallsOK
  <2> QED BY <2>1, <1>3
<1>5. r = <<>> => FlattenSeq(Stacks(c)) = <<>>
  <2>1. ASSUME r = <<>> PROVE FlattenSeq(Stacks(c)) = <<>>
    <3>1. Len(s) = 1
      BY <2>1, <1>1, <1>3
    <3>2. TopOf(c, t) = NULL
      BY <3>1 DEF CallsOK
    <3>3. NULL \in Marks /\ Marked(c, NULL) /\ HeightIn(c, NULL) = 0
      BY DEF Marks, Marked, HeightIn, Codes
    <3>4. Len(FlattenSeq(Stacks(c))) = 0
      BY <3>2, <3>3, HeightBound
    <3>5. FlattenSeq(Stacks(c)) \in Seq(Elements)
      BY DupIs
    <3> QED BY <3>4, <3>5, EmptySeq
  <2> QED BY <2>1
<1>6. ASSUME NEW k \in 1 .. Len(r) PROVE Marked(c, r[k])
  BY <1>3 DEF CallsOK
<1>7. ASSUME NEW k \in 1 .. Len(r), NEW n \in 1 .. Len(r), k < n
      PROVE  HeightIn(c, r[k]) <= HeightIn(c, r[n])
  <2>1. r[k] = s[k] /\ r[n] = s[n] /\ k \in 1 .. Len(s) /\ n \in 1 .. Len(s)
    BY <1>3
  <2> QED BY <2>1, <1>7 DEF CallsOK
<1> QED BY <1>4, <1>5, <1>6, <1>7 DEF CallsOK, r

-----------------------------------------------------------------------------
(* What the loops of push, pop, peek and top find.                          *)
LEMMA TopChunkIs ==
  ASSUME ChunksOK(chunks, m_chunk)
  PROVE  /\ TopIs(chunks, TopChunk) /\ TopChunk \in Nat /\ TopChunk <= m_chunk
         /\ top = TopOf(chunks, TopChunk)
<1> DEFINE M == {i \in 1 .. m_chunk : ~Empty(i)} \cup {0}
           T == {k \in 0 .. m_chunk : \A i \in k + 1 .. m_chunk : Empty(i)}
<1>1. Len(chunks) \in Nat /\ m_chunk \in 1 .. Len(chunks)
      /\ \A i \in 1 .. Len(chunks) : i > m_chunk => chunks[i].m_stack = <<>>
  <2>1. Len(chunks) \in Nat
    BY StacksAre DEF ChunksOK
  <2> QED BY <2>1 DEF ChunksOK
<1>2. PICK k \in T : \A j \in T : k <= j
  <2>1. T \subseteq Nat /\ m_chunk \in T
    BY <1>1
  <2> HIDE DEF T
  <2> QED BY <2>1, Least
<1>3. k \in 0 .. m_chunk /\ \A i \in k + 1 .. m_chunk : Empty(i)
  OBVIOUS
<1>4. k \in M
  <2>1. CASE k = 0
    BY <2>1
  <2>2. CASE k # 0
    <3>1. k - 1 \in 0 .. m_chunk /\ ~(k <= k - 1) /\ k \in 1 .. m_chunk
      BY <1>1, <1>3, <2>2
    <3>2. k - 1 \notin T
      <4> HIDE DEF T
      <4> QED BY <3>1, <1>2
    <3>3. ~Empty(k)
      <4>1. SUFFICES ASSUME Empty(k) PROVE k - 1 \in T
        BY <3>2
      <4>2. ASSUME NEW i \in k - 1 + 1 .. m_chunk PROVE Empty(i)
        <5>1. i = k \/ i \in k + 1 .. m_chunk
          BY <3>1, <1>1
        <5> QED BY <5>1, <4>1, <1>3
      <4> QED BY <4>2, <3>1
    <3> QED BY <3>1, <3>3
  <2> QED BY <2>1, <2>2
<1>5. ASSUME NEW y \in M PROVE y \in Nat /\ k >= y
  <2>1. y \in 0 .. m_chunk /\ (y # 0 => ~Empty(y))
    BY <1>1
  <2>2. y \notin k + 1 .. m_chunk
    <3>1. SUFFICES ASSUME y \in k + 1 .. m_chunk PROVE FALSE
      OBVIOUS
    <3>2. y # 0
      BY <3>1, <1>1, <1>3
    <3> QED BY <3>1, <3>2, <2>1, <1>3
  <2> QED BY <2>1, <2>2, <1>1, <1>3
<1> HIDE DEF M, T
<1>6. Max(M) = k
  <2>1. k \in M /\ k \in Nat /\ \A y \in M : y \in Nat /\ k >= y
    BY <1>3, <1>4, <1>5
  <2>2. \A x \in M : (\A y \in M : x >= y) => x = k
    BY <2>1
  <2> QED BY <2>1, <2>2 DEF Max
<1>7. TopChunk = k
  BY <1>6 DEF TopChunk, M
<1>8. TopIs(chunks, k)
  <2>1. k \in 0 .. Len(chunks)
    BY <1>1, <1>3
  <2>2. k # 0 => chunks[k].m_stack # <<>>
    BY <1>4 DEF M, Empty
  <2>3. ASSUME NEW i \in k + 1 .. Len(chunks) PROVE chunks[i].m_stack = <<>>
    <3>1. CASE i > m_chunk
      <4>1. i \in 1 .. Len(chunks)
        BY <1>1, <1>3
      <4> QED BY <4>1, <3>1, <1>1
    <3>2. CASE ~(i > m_chunk)
      <4>1. i \in k + 1 .. m_chunk
        BY <3>2, <1>1, <1>3
      <4> QED BY <4>1, <1>3 DEF Empty
    <3> QED BY <3>1, <3>2
  <2> QED BY <2>1, <2>2, <2>3 DEF TopIs
<1>9. top = TopOf(chunks, TopChunk)
  BY DEF top, TopOf
<1> QED BY <1>1, <1>3, <1>7, <1>8, <1>9

LEMMA PushChunkIs ==
  ASSUME ChunksOK(chunks, m_chunk)
  PROVE  /\ PushChunk \in m_chunk .. Len(chunks) + 1
         /\ PushChunk <= Len(chunks) => ~Full(PushChunk)
<1> DEFINE M == {i \in m_chunk .. Len(chunks) : ~Full(i)} \cup {Len(chunks) + 1}
<1>1. Len(chunks) \in Nat /\ m_chunk \in 1 .. Len(chunks)
  <2>1. Len(chunks) \in Nat
    BY StacksAre DEF ChunksOK
  <2> QED BY <2>1 DEF ChunksOK
<1>2. PICK k \in M : \A j \in M : k <= j
  <2>1. M \subseteq Nat /\ M # {}
    BY <1>1
  <2> HIDE DEF M
  <2> QED BY <2>1, Least
<1>3. \A x \in M : x \in m_chunk .. Len(chunks) + 1 /\ (x <= Len(chunks) => ~Full(x))
  BY <1>1
<1> HIDE DEF M
<1>4. Min(M) \in M
  BY <1>2 DEF Min
<1>5. PushChunk = Min(M)
  BY DEF PushChunk, M
<1> QED BY <1>3, <1>4, <1>5

-----------------------------------------------------------------------------
(* The elements of one chunk change.                                        *)
Edited(c, d, n, y) ==
  /\ n \in 1 .. Len(c) /\ Len(d) = Len(c)
  /\ \A i \in 1 .. Len(c) : d[i].at = c[i].at /\ (i # n => d[i].m_stack = c[i].m_stack)
  /\ d[n].m_stack = y

LEMMA ExceptIs ==
  ASSUME NEW c \in ChunkLists, NEW n \in 1 .. Len(c), NEW y \in Seq(Elements), NEW d,
         d = [c EXCEPT ![n].m_stack = y]
  PROVE  d \in ChunkLists /\ Edited(c, d, n, y)
<1> DEFINE R == [at : Addresses, m_stack : Seq(Elements)]
           x == [c[n] EXCEPT !.m_stack = y]
<1>1. c \in Seq(R)
  BY DEF ChunkLists
<1>2. c[n] \in R /\ \A i \in 1 .. Len(c) : c[i] \in R
  BY <1>1, ElementOfSeq
<1>3. x \in R /\ x.at = c[n].at /\ x.m_stack = y
  BY <1>2
<1>4. d = [c EXCEPT ![n] = x]
  OBVIOUS
<1> HIDE DEF R, x
<1>5. d \in Seq(R) /\ Len(d) = Len(c) /\ \A i \in 1 .. Len(c) : d[i] = IF i = n THEN x ELSE c[i]
  <2> DEFINE f == [c EXCEPT ![n] = x]
  <2>1. n \in 1 .. Len(c) /\ c \in Seq(R) /\ x \in R
    BY <1>1, <1>3
  <2>2. f \in Seq(R)
    BY ONLY <2>1, ExceptSeq
  <2>3. Len(f) = Len(c)
    BY ONLY <2>1, ExceptSeq
  <2>4. \A i \in 1 .. Len(c) : f[i] = IF i = n THEN x ELSE c[i]
    BY ONLY <2>1, ExceptSeq
  <2> HIDE DEF f
  <2>5. d = f
    BY <1>4 DEF f
  <2> QED BY ONLY <2>2, <2>3, <2>4, <2>5
<1> QED BY <1>3, <1>5 DEF Edited, ChunkLists, R

LEMMA EditedIs ==
  ASSUME NEW c \in ChunkLists, NEW m, ChunksOK(c, m), NEW t \in Nat, TopIs(c, t),
         NEW n \in 1 .. Len(c), t <= n,
         NEW y \in Seq(Elements), Len(y) <= ChunkSize,
         NEW d \in ChunkLists, Edited(c, d, n, y)
  PROVE  /\ FlattenSeq(Stacks(d)) = Joined(Stacks(c), n - 1) \o y
         /\ Same(c, d, t) /\ Len(d) = Len(c)
         /\ \A k \in n .. Len(d) : ChunksOK(d, k)
<1>1. Len(c) \in Nat /\ Len(d) = Len(c) /\ n \in 1 .. Len(c) /\ d[n].m_stack = y
  BY StacksAre DEF Edited
<1>2. Stacks(c) \in Seq(Seq(Elements)) /\ Len(Stacks(c)) = Len(c)
      /\ \A i \in 1 .. Len(c) : Stacks(c)[i] = c[i].m_stack
  BY StacksAre
<1>3. Stacks(d) \in Seq(Seq(Elements)) /\ Len(Stacks(d)) = Len(c)
      /\ \A i \in 1 .. Len(c) : Stacks(d)[i] = d[i].m_stack
  BY <1>1, StacksAre
<1>4. Agree(Stacks(c), Stacks(d), n - 1)
  <2>1. ASSUME NEW i \in 1 .. n - 1 PROVE Stacks(c)[i] = Stacks(d)[i]
    <3>1. i \in 1 .. Len(c) /\ i # n
      BY <1>1
    <3> QED BY <3>1, <1>2, <1>3 DEF Edited
  <2> QED BY <2>1, <1>1, <1>2, <1>3 DEF Agree
<1>5. ASSUME NEW i \in n + 1 .. Len(d) PROVE d[i].m_stack = <<>>
  <2>1. i \in 1 .. Len(c) /\ i # n /\ i \in t + 1 .. Len(c)
    BY <1>1
  <2> QED BY <2>1 DEF Edited, TopIs
<1>6. FlattenSeq(Stacks(d)) = Joined(Stacks(c), n - 1) \o y
  BY <1>1, <1>4, <1>5, Replaced
<1>7. Same(c, d, t)
  <2>1. t \in 0 .. Len(c) /\ t <= Len(d)
    BY <1>1
  <2>2. ASSUME NEW k \in 1 .. t PROVE d[k].at = c[k].at /\ (k < t => d[k].m_stack = c[k].m_stack)
    <3>1. k \in 1 .. Len(c) /\ (k < t => k # n)
      BY <1>1
    <3> QED BY <3>1 DEF Edited
  <2> QED BY <2>1, <2>2 DEF Same
<1>8. Distinct(d)
  <2>1. Distinct(c)
    BY DEF ChunksOK
  <2> QED BY <2>1, <1>1 DEF Distinct, Edited
<1>9. ASSUME NEW i \in 1 .. Len(d) PROVE Len(d[i].m_stack) <= ChunkSize
  BY <1>1 DEF Edited, ChunksOK
<1>10. ASSUME NEW k \in n .. Len(d) PROVE ChunksOK(d, k)
  <2>1. k \in 1 .. Len(d)
    BY <1>1
  <2>2. ASSUME NEW i \in 1 .. Len(d), i > k PROVE d[i].m_stack = <<>>
    <3>1. i \in n + 1 .. Len(d)
      BY <2>2, <1>1
    <3> QED BY <3>1, <1>5
  <2> QED BY <2>1, <2>2, <1>8, <1>9 DEF ChunksOK
<1> QED BY <1>1, <1>6, <1>7, <1>10

(* A chunk is added, with one element.                                      *)
Added(c, d, a, e) ==
  a \notin {c[i].at : i \in DOMAIN c} /\ d = Append(c, [at |-> a, m_stack |-> <<e>>])

LEMMA AddedIs ==
  ASSUME NEW c \in ChunkLists, NEW m, ChunksOK(c, m), NEW t \in Nat, TopIs(c, t),
         NEW a \in Addresses, NEW e \in Elements, NEW d, Added(c, d, a, e)
  PROVE  /\ d \in ChunkLists /\ Len(d) = Len(c) + 1 /\ ChunksOK(d, Len(c) + 1)
         /\ FlattenSeq(Stacks(d)) = Append(FlattenSeq(Stacks(c)), e)
         /\ Same(c, d, t) /\ (t # 0 => d[t].m_stack = c[t].m_stack)
<1> DEFINE R == [at : Addresses, m_stack : Seq(Elements)]
           x == [at |-> a, m_stack |-> <<e>>]
           n == Len(c) + 1
<1>1. Len(c) \in Nat /\ c \in Seq(R) /\ DOMAIN c = 1 .. Len(c) /\ n \in Nat
  BY StacksAre, LenProperties DEF ChunkLists
<1>2. x \in R /\ x.at = a /\ x.m_stack = <<e>>
  OBVIOUS
<1> HIDE DEF R, x
<1>3. d \in Seq(R) /\ Len(d) = n /\ d[n] = x /\ \A i \in 1 .. Len(c) : d[i] = c[i]
  BY <1>1, <1>2, AppendProperties DEF x, Added
<1>4. d \in ChunkLists
  BY <1>3 DEF ChunkLists, R
<1>5. Agree(Stacks(c), Stacks(d), n - 1)
  <2>1. Len(Stacks(c)) = Len(c) /\ Len(Stacks(d)) = n
        /\ (\A i \in 1 .. Len(c) : Stacks(c)[i] = c[i].m_stack)
        /\ \A i \in 1 .. n : Stacks(d)[i] = d[i].m_stack
    BY <1>3, <1>4, StacksAre
  <2>2. n - 1 <= Len(c) /\ n - 1 <= n /\ \A i \in 1 .. n - 1 : i \in 1 .. Len(c) /\ i \in 1 .. n
    BY <1>1
  <2> HIDE DEF n
  <2> QED BY <2>1, <2>2, <1>3 DEF Agree
<1>6. FlattenSeq(Stacks(d)) = Joined(Stacks(c), n - 1) \o <<e>>
  <2>1. n \in 1 .. Len(d) /\ \A i \in n + 1 .. Len(d) : d[i].m_stack = <<>>
    BY <1>1, <1>3
  <2>2. d[n].m_stack = <<e>>
    BY <1>2, <1>3
  <2> HIDE DEF n
  <2> QED BY <2>1, <2>2, <1>4, <1>5, Replaced
<1>7. Joined(Stacks(c), n - 1) = FlattenSeq(Stacks(c)) /\ FlattenSeq(Stacks(c)) \in Seq(Elements)
  <2>1. n - 1 = Len(c)
    BY <1>1
  <2>2. Stacks(c) \in Seq(Seq(Elements)) /\ Len(Stacks(c)) = Len(c)
    BY StacksAre
  <2>3. FlattenSeq(Stacks(c)) = Joined(Stacks(c), Len(Stacks(c)))
    BY <2>2, JoinedIs
  <2> QED BY <2>1, <2>2, <2>3, DupIs
<1>8. FlattenSeq(Stacks(d)) = Append(FlattenSeq(Stacks(c)), e)
  <2>1. Append(FlattenSeq(Stacks(c)), e) = FlattenSeq(Stacks(c)) \o <<e>>
    BY <1>7, AppendIsConcat
  <2> QED BY <2>1, <1>6, <1>7
<1>9. Same(c, d, t) /\ (t # 0 => d[t].m_stack = c[t].m_stack)
  <2>1. t \in 0 .. Len(c) /\ t <= Len(d) /\ \A k \in 1 .. t : k \in 1 .. Len(c)
    BY <1>1, <1>3 DEF TopIs
  <2> HIDE DEF n
  <2> QED BY <2>1, <1>3 DEF Same
<1>10. Distinct(d)
  <2>1. ASSUME NEW i \in 1 .. Len(d), NEW j \in 1 .. Len(d), d[i].at = d[j].at PROVE i = j
    <3>1. ASSUME NEW k \in 1 .. Len(c) PROVE d[k].at = c[k].at /\ d[k].at # d[n].at
      <4>1. c[k].at \in {c[l].at : l \in DOMAIN c}
        BY <1>1
      <4> HIDE DEF n
      <4> QED BY <4>1, <1>2, <1>3 DEF Added
    <3>2. (i \in 1 .. Len(c) \/ i = n) /\ (j \in 1 .. Len(c) \/ j = n)
      BY <1>1, <1>3
    <3> HIDE DEF n
    <3> QED BY <2>1, <3>1, <3>2 DEF ChunksOK, Distinct
  <2> QED BY <2>1 DEF Distinct
<1>11. ChunksOK(d, n)
  <2>1. ASSUME NEW i \in 1 .. Len(d) PROVE Len(d[i].m_stack) <= ChunkSize /\ ~(i > n)
    <3>1. (i \in 1 .. Len(c) \/ i = n) /\ ~(i > n)
      BY <1>1, <1>3
    <3>2. Len(<<e>>) <= ChunkSize
      BY ChunkAssumption
    <3> HIDE DEF n
    <3> QED BY <3>1, <3>2, <1>2, <1>3 DEF ChunksOK
  <2>2. n \in 1 .. Len(d)
    BY <1>1, <1>3
  <2> HIDE DEF n
  <2> QED BY <2>1, <2>2, <1>4, <1>10 DEF ChunksOK
<1> QED BY <1>3, <1>4, <1>8, <1>9, <1>11

(* Empty chunks at the end are freed.                                       *)
LEMMA CutIs ==
  ASSUME NEW c \in ChunkLists, NEW m, ChunksOK(c, m), NEW t \in Nat, TopIs(c, t), t <= m,
         NEW n \in m .. Len(c), NEW d, d = SubSeq(c, 1, n)
  PROVE  /\ d \in ChunkLists /\ ChunksOK(d, m)
         /\ FlattenSeq(Stacks(d)) = FlattenSeq(Stacks(c))
         /\ Same(c, d, t) /\ (t # 0 => d[t].m_stack = c[t].m_stack)
<1> DEFINE R == [at : Addresses, m_stack : Seq(Elements)]
<1>1. Len(c) \in Nat /\ c \in Seq(R) /\ m \in 1 .. Len(c) /\ n \in 1 .. Len(c)
  <2>1. Len(c) \in Nat /\ m \in 1 .. Len(c)
    BY StacksAre DEF ChunksOK
  <2> QED BY <2>1 DEF ChunkLists
<1> HIDE DEF R
<1>2. d \in Seq(R) /\ Len(d) = n /\ \A i \in 1 .. n : d[i] = c[i]
  <2>1. \A i \in 1 .. n : c[i] \in R /\ 1 + i - 1 = i
    BY <1>1, ElementOfSeq
  <2>2. n \in Int /\ 1 \in Int /\ n - 1 + 1 = n /\ 1 <= n
    BY <1>1
  <2>3. d \in Seq(R) /\ Len(d) = (IF 1 <= n THEN n - 1 + 1 ELSE 0)
        /\ \A i \in 1 .. n - 1 + 1 : d[i] = c[1 + i - 1]
    BY <2>1, <2>2, SubSeqProperties
  <2> QED BY <2>1, <2>2, <2>3
<1>3. d \in ChunkLists
  BY <1>2 DEF ChunkLists, R
<1>4. \A i \in 1 .. n : i \in 1 .. Len(c)
  BY <1>1
<1>5. t <= n /\ t \in 0 .. Len(c) /\ t \in 0 .. n /\ \A k \in 1 .. t : k \in 1 .. n
  BY <1>1
<1>6. TopIs(d, t) /\ Same(c, d, t) /\ (t # 0 => d[t].m_stack = c[t].m_stack)
  <2>1. t # 0 => t \in 1 .. n
    BY <1>5
  <2>2. \A i \in t + 1 .. n : i \in t + 1 .. Len(c) /\ i \in 1 .. n
    BY <1>1, <1>5
  <2> QED BY <2>1, <2>2, <1>2, <1>5 DEF TopIs, Same
<1>7. Joined(Stacks(c), t) = Joined(Stacks(d), t)
  <2>1. Stacks(c) \in Seq(Seq(Elements)) /\ Len(Stacks(c)) = Len(c)
        /\ \A i \in 1 .. Len(c) : Stacks(c)[i] = c[i].m_stack
    BY StacksAre
  <2>2. Stacks(d) \in Seq(Seq(Elements)) /\ Len(Stacks(d)) = n
        /\ \A i \in 1 .. n : Stacks(d)[i] = d[i].m_stack
    BY <1>2, <1>3, StacksAre
  <2>3. Agree(Stacks(c), Stacks(d), t)
    BY <2>1, <2>2, <1>2, <1>4, <1>5 DEF Agree
  <2> QED BY <2>1, <2>2, <2>3, JoinedSame
<1>8. FlattenSeq(Stacks(d)) = FlattenSeq(Stacks(c))
  BY <1>3, <1>6, <1>7, DupIs
<1>9. ChunksOK(d, m)
  <2>1. m \in 1 .. Len(d)
    BY <1>1, <1>2
  <2> QED BY <2>1, <1>2, <1>3, <1>4 DEF ChunksOK, Distinct
<1> QED BY <1>3, <1>6, <1>8, <1>9

-----------------------------------------------------------------------------
(* What the collector and FullReduce see of the stack.                      *)
LEMMA StackIs ==
  ASSUME IInv
  PROVE  /\ chunks \in ChunkLists /\ Distinct(chunks) /\ ChunksOK(chunks, m_chunk)
         /\ TopChunk \in Nat /\ TopIs(chunks, TopChunk) /\ TopChunk <= m_chunk
         /\ top = TopOf(chunks, TopChunk) /\ top \in Marks /\ (top = NULL <=> TopChunk = 0)
         /\ tops \in Seq(Marks) /\ CallsOK(chunks, tops)
         /\ turns \in Seq(Turns) /\ TurnsOK(chunks, tops, turns)
         /\ dup = FlattenSeq(Stacks(chunks)) /\ dup \in Seq(Elements) /\ FullHeight(chunks) = Len(dup)
<1>1. ChunksOK(chunks, m_chunk) /\ CallsOK(chunks, tops) /\ tops \in Seq(Marks)
      /\ turns \in Seq(Turns) /\ TurnsOK(chunks, tops, turns)
  BY DEF IInv, TypeOK
<1>2. chunks \in ChunkLists /\ Distinct(chunks)
  BY <1>1 DEF ChunksOK
<1>3. TopChunk \in Nat /\ TopIs(chunks, TopChunk) /\ TopChunk <= m_chunk /\ top = TopOf(chunks, TopChunk)
  BY <1>1, TopChunkIs
<1>4. dup = FlattenSeq(Stacks(chunks))
  BY DEF dup, Stacks
<1>5. dup \in Seq(Elements)
  BY <1>2, <1>3, <1>4, DupIs
<1>6. CASE TopChunk = 0
  <2>1. top = NULL
    BY <1>3, <1>6 DEF TopOf
  <2> QED BY <2>1, <1>1, <1>2, <1>3, <1>4, <1>5, <1>6 DEF Marks, FullHeight
<1>7. CASE TopChunk # 0
  <2> DEFINE t == TopChunk
  <2>1. t \in 1 .. Len(chunks) /\ chunks[t].m_stack # <<>>
    <3>1. Len(chunks) \in Nat
      BY <1>2, StacksAre
    <3> QED BY <3>1, <1>3, <1>7 DEF TopIs
  <2>2. chunks[t].m_stack \in Seq(Elements) /\ Len(chunks[t].m_stack) <= ChunkSize
    BY <2>1, <1>1, <1>2, StacksAre DEF ChunksOK
  <2>3. Len(chunks[t].m_stack) \in 1 .. ChunkSize
    <3>1. Len(chunks[t].m_stack) \in Nat \ {0}
      BY <2>1, <2>2, EmptySeq
    <3> QED BY <3>1, <2>2, ChunkAssumption
  <2>4. chunks[t].at \in Addresses
    <3>1. chunks[t] \in [at : Addresses, m_stack : Seq(Elements)]
      BY <2>1, <1>2, ElementOfSeq DEF ChunkLists
    <3> QED BY <3>1
  <2> HIDE DEF t
  <2>5. top = <<chunks[t].at, Len(chunks[t].m_stack)>>
    BY <1>3, <1>7 DEF TopOf, t
  <2>6. top \in Marks /\ top # NULL
    BY <2>3, <2>4, <2>5 DEF Marks, NULL
  <2> QED BY <2>6, <1>1, <1>2, <1>3, <1>4, <1>5, <1>7 DEF FullHeight
<1> QED BY <1>6, <1>7

LEMMA InvariantIs ==
  ASSUME ChunksOK(chunks', m_chunk'), CallsOK(chunks', tops'), tops' \in Seq(Marks),
         TurnsOK(chunks', tops', turns'), turns' \in Seq(Turns),
         result' \in Elements \cup {None}, copy' \in Seq(Elements)
  PROVE  IInv'
<1>1. chunks' \in ChunkLists /\ m_chunk' \in 1 .. Len(chunks')
      /\ \A i \in 1 .. Len(chunks') : Len(chunks'[i].m_stack) <= ChunkSize
  BY DEF ChunksOK
<1>2. DOMAIN chunks' = 1 .. Len(chunks')
  BY <1>1, LenProperties DEF ChunkLists
<1> QED BY <1>1, <1>2 DEF IInv, TypeOK

(* Below the top nothing changes.                                           *)
Grown(c, d, t) ==
  Same(c, d, t) /\ (t # 0 => Len(d[t].m_stack) >= Len(c[t].m_stack))

LEMMA PushStep ==
  ASSUME IInv, NEW e \in Elements, push(e)
  PROVE  /\ ChunksOK(chunks', m_chunk') /\ Grown(chunks, chunks', TopChunk)
         /\ dup' = Append(dup, e)
<1> DEFINE t == TopChunk
           n == PushChunk
<1>1. chunks \in ChunkLists /\ ChunksOK(chunks, m_chunk)
      /\ t \in Nat /\ TopIs(chunks, t) /\ t <= m_chunk
      /\ dup = FlattenSeq(Stacks(chunks))
  BY StackIs
<1>2. n \in m_chunk .. Len(chunks) + 1 /\ (n <= Len(chunks) => ~Full(n)) /\ m_chunk' = n
  BY <1>1, PushChunkIs DEF push
<1>3. dup' = FlattenSeq(Stacks(chunks'))
  BY DEF dup, Stacks
<1>4. Len(chunks) \in Nat /\ m_chunk \in 1 .. Len(chunks)
  BY <1>1, StacksAre DEF ChunksOK
<1>5. CASE n <= Len(chunks)
  <2> DEFINE y == Append(chunks[n].m_stack, e)
  <2>1. chunks' = [chunks EXCEPT ![n].m_stack = y]
    BY <1>5, <1>2, <1>4 DEF push
  <2>2. n \in 1 .. Len(chunks) /\ t <= n
    BY <1>1, <1>2, <1>4, <1>5
  <2> HIDE DEF n, t
  <2>3. chunks[n].m_stack \in Seq(Elements) /\ Len(chunks[n].m_stack) \in Nat
        /\ Len(chunks[n].m_stack) < ChunkSize
    <3>1. Len(chunks[n].m_stack) <= ChunkSize /\ Len(chunks[n].m_stack) # ChunkSize
      BY <1>1, <1>2, <1>5, <2>2 DEF ChunksOK, Full
    <3>2. chunks[n].m_stack \in Seq(Elements) /\ Len(chunks[n].m_stack) \in Nat
      BY <1>1, <2>2, StacksAre
    <3> QED BY <3>1, <3>2, ChunkAssumption
  <2>4. y \in Seq(Elements) /\ Len(y) = Len(chunks[n].m_stack) + 1
    BY <2>3, AppendProperties
  <2> HIDE DEF y
  <2>5. Len(y) <= ChunkSize
    BY <2>3, <2>4, ChunkAssumption
  <2>6. chunks' \in ChunkLists /\ Edited(chunks, chunks', n, y)
    BY <2>1, <2>2, <2>4, <1>1, ExceptIs
  <2>7. /\ FlattenSeq(Stacks(chunks')) = Joined(Stacks(chunks), n - 1) \o y
        /\ Same(chunks, chunks', t) /\ Len(chunks') = Len(chunks)
        /\ \A k \in n .. Len(chunks') : ChunksOK(chunks', k)
    BY <2>2, <2>4, <2>5, <2>6, <1>1, EditedIs
  <2>8. ChunksOK(chunks', m_chunk')
    <3>1. n \in n .. Len(chunks')
      BY <2>2, <2>7
    <3> QED BY <3>1, <2>7, <1>2 DEF n
  <2>9. Grown(chunks, chunks', t)
    <3>1. t # 0 => t \in 1 .. Len(chunks)
      BY <1>1, <1>4, <2>2
    <3>2. t # 0 => Len(chunks'[t].m_stack) >= Len(chunks[t].m_stack)
      <4>1. CASE t = n
        BY <4>1, <2>3, <2>4, <2>6 DEF Edited
      <4>2. CASE t # n /\ t # 0
        <5>1. chunks'[t].m_stack = chunks[t].m_stack /\ Len(chunks[t].m_stack) \in Nat
          BY <4>2, <3>1, <2>6, <1>1, StacksAre DEF Edited
        <5> QED BY <5>1
      <4> QED BY <4>1, <4>2
    <3> QED BY <3>2, <2>7 DEF Grown
  <2>10. dup = Joined(Stacks(chunks), n - 1) \o chunks[n].m_stack
         /\ Joined(Stacks(chunks), n - 1) \in Seq(Elements)
    <3>1. Stacks(chunks) \in Seq(Seq(Elements)) /\ Len(Stacks(chunks)) = Len(chunks)
          /\ \A i \in 1 .. Len(chunks) : Stacks(chunks)[i] = chunks[i].m_stack
      BY <1>1, StacksAre
    <3>2. n \in t .. Len(Stacks(chunks)) /\ n \in 1 .. Len(Stacks(chunks))
          /\ n - 1 \in 0 .. Len(Stacks(chunks))
      BY <3>1, <2>2, <1>1, <1>4
    <3>3. \A i \in t + 1 .. n : Stacks(chunks)[i] = <<>>
      <4>1. \A i \in t + 1 .. n : i \in t + 1 .. Len(chunks) /\ i \in 1 .. Len(chunks)
        BY <2>2, <1>1, <1>4
      <4> QED BY <4>1, <3>1, <1>1 DEF TopIs
    <3>4. Joined(Stacks(chunks), n) = Joined(Stacks(chunks), t)
      BY <3>1, <3>2, <3>3, <1>1, JoinedEmpty
    <3>5. dup = Joined(Stacks(chunks), t)
      BY <1>1, DupIs
    <3>6. Joined(Stacks(chunks), n) = Joined(Stacks(chunks), n - 1) \o Stacks(chunks)[n]
          /\ Joined(Stacks(chunks), n - 1) \in Seq(Elements)
      BY <3>1, <3>2, JoinedIs
    <3> QED BY <3>1, <3>4, <3>5, <3>6, <2>2
  <2>11. dup' = Append(dup, e)
    <3>1. Joined(Stacks(chunks), n - 1) \o y
          = Append(Joined(Stacks(chunks), n - 1) \o chunks[n].m_stack, e)
      BY <2>3, <2>10, ConcatAppend DEF y
    <3> QED BY <3>1, <2>7, <2>10, <1>3
  <2> QED BY <2>8, <2>9, <2>11 DEF t
<1>6. CASE ~(n <= Len(chunks))
  <2>1. n = Len(chunks) + 1
    BY <1>2, <1>4, <1>6
  <2>2. PICK a \in Addresses \ {chunks[i].at : i \in DOMAIN chunks} :
          chunks' = Append(chunks, [at |-> a, m_stack |-> <<e>>])
    BY <1>6 DEF push
  <2> HIDE DEF n, t
  <2>3. a \in Addresses /\ Added(chunks, chunks', a, e)
    BY <2>2 DEF Added
  <2>4. /\ ChunksOK(chunks', Len(chunks) + 1)
        /\ FlattenSeq(Stacks(chunks')) = Append(FlattenSeq(Stacks(chunks)), e)
        /\ Same(chunks, chunks', t) /\ (t # 0 => chunks'[t].m_stack = chunks[t].m_stack)
    BY <2>3, <1>1, AddedIs
  <2>5. t # 0 => Len(chunks[t].m_stack) \in Nat
    <3>1. t # 0 => t \in 1 .. Len(chunks)
      BY <1>1, <1>4
    <3> QED BY <3>1, <1>1, StacksAre
  <2>6. Grown(chunks, chunks', t)
    BY <2>4, <2>5 DEF Grown
  <2> QED BY <2>1, <2>4, <2>6, <1>1, <1>2, <1>3 DEF n, t
<1> QED BY <1>5, <1>6

(* The element on top.                                                      *)
LEMMA TopElement ==
  ASSUME IInv, top # NULL
  PROVE  LET t == TopChunk
             x == Joined(Stacks(chunks), t - 1)
             y == chunks[t].m_stack
         IN  /\ t \in 1 .. Len(chunks) /\ t \in Nat \ {0} /\ t <= m_chunk /\ m_chunk \in 1 .. Len(chunks)
             /\ x \in Seq(Elements) /\ y \in Seq(Elements) /\ y # <<>> /\ dup = x \o y
             /\ Len(y) <= ChunkSize /\ Len(y) \in Nat \ {0}
<1> DEFINE t == TopChunk
<1>1. chunks \in ChunkLists /\ ChunksOK(chunks, m_chunk) /\ t \in Nat /\ TopIs(chunks, t)
      /\ t <= m_chunk /\ t # 0 /\ dup = FlattenSeq(Stacks(chunks))
  BY StackIs
<1> HIDE DEF t
<1>2. Len(chunks) \in Nat /\ m_chunk \in 1 .. Len(chunks) /\ t \in 1 .. Len(chunks)
  BY <1>1, StacksAre DEF ChunksOK, TopIs
<1>3. chunks[t].m_stack \in Seq(Elements) /\ chunks[t].m_stack # <<>>
      /\ Len(chunks[t].m_stack) <= ChunkSize
  BY <1>1, <1>2, StacksAre DEF ChunksOK, TopIs
<1>4. Len(chunks[t].m_stack) \in Nat \ {0}
  BY <1>3, EmptySeq
<1>5. dup = Joined(Stacks(chunks), t - 1) \o chunks[t].m_stack
      /\ Joined(Stacks(chunks), t - 1) \in Seq(Elements)
  BY <1>1, DupIs
<1> QED BY <1>1, <1>2, <1>3, <1>4, <1>5 DEF t

LEMMA PopStep ==
  ASSUME IInv, pop, top # NULL
  PROVE  /\ ChunksOK(chunks', m_chunk') /\ TopChunk # 0
         /\ Same(chunks, chunks', TopChunk)
         /\ Len(chunks'[TopChunk].m_stack) >= Len(chunks[TopChunk].m_stack) - 1
         /\ dup' = SubSeq(dup, 1, Len(dup) - 1)
         /\ result' = dup[Len(dup)] /\ result' \in Elements
<1> DEFINE t == TopChunk
           x == Joined(Stacks(chunks), t - 1)
           y == chunks[t].m_stack
           z == Front(y)
<1>1. chunks \in ChunkLists /\ ChunksOK(chunks, m_chunk) /\ TopIs(chunks, t)
  BY StackIs
<1>2. /\ t \in 1 .. Len(chunks) /\ t \in Nat \ {0} /\ t <= m_chunk /\ m_chunk \in 1 .. Len(chunks)
      /\ x \in Seq(Elements) /\ y \in Seq(Elements) /\ y # <<>> /\ dup = x \o y
      /\ Len(y) <= ChunkSize /\ Len(y) \in Nat \ {0}
  BY TopElement
<1>3. chunks' = [chunks EXCEPT ![t].m_stack = z] /\ m_chunk' = t /\ result' = Last(y)
  BY DEF pop
<1>4. dup' = FlattenSeq(Stacks(chunks'))
  BY DEF dup, Stacks
<1>5. /\ x \o z = SubSeq(x \o y, 1, Len(x \o y) - 1)
      /\ (x \o y)[Len(x \o y)] = Last(y) /\ Last(y) \in Elements
      /\ z \in Seq(Elements) /\ Len(z) = Len(y) - 1
  <2> HIDE DEF x, y
  <2> QED BY <1>2, ConcatFront
<1> HIDE DEF t, x, y, z
<1>6. Len(z) <= ChunkSize /\ t <= t
  BY <1>2, <1>5, ChunkAssumption
<1>7. chunks' \in ChunkLists /\ Edited(chunks, chunks', t, z)
  BY <1>1, <1>2, <1>3, <1>5, ExceptIs
<1>8. /\ FlattenSeq(Stacks(chunks')) = x \o z
      /\ Same(chunks, chunks', t) /\ Len(chunks') = Len(chunks)
      /\ \A k \in t .. Len(chunks') : ChunksOK(chunks', k)
  BY <1>1, <1>2, <1>5, <1>6, <1>7, EditedIs DEF x
<1>9. ChunksOK(chunks', m_chunk')
  <2>1. t \in t .. Len(chunks')
    BY <1>2, <1>8
  <2> QED BY <2>1, <1>3, <1>8
<1>10. Len(chunks'[t].m_stack) >= Len(y) - 1
  <2>1. chunks'[t].m_stack = z
    BY <1>7 DEF Edited
  <2> QED BY <2>1, <1>2, <1>5
<1> QED BY <1>2, <1>3, <1>4, <1>5, <1>8, <1>9, <1>10 DEF t, y

(* An element is written through its address.                               *)
LEMMA WriteStep ==
  ASSUME IInv, NEW e \in Elements, NEW p, p \notin Codes, Marked(chunks, p), write(p, e)
  PROVE  /\ ChunksOK(chunks', m_chunk')
         /\ AllKept(chunks, chunks')
         /\ HeightIn(chunks, p) \in 1 .. Len(dup)
         /\ dup' = [dup EXCEPT ![HeightIn(chunks, p)] = e]
<1> DEFINE c == chunks
           d == chunks'
           s == Stacks(c)
           r == Stacks(d)
<1>1. c \in ChunkLists /\ ChunksOK(c, m_chunk) /\ Distinct(c) /\ dup = FlattenSeq(s)
  BY StackIs
<1>2. dup' = FlattenSeq(r)
  BY DEF dup, Stacks
<1>3. PICK i, j \in Nat : Place(c, p, i, j)
  BY DEF Marked, Codes
<1>4. i \in 1 .. Len(c) /\ j \in 1 .. Len(c[i].m_stack) /\ p[1] = c[i].at /\ p[2] = j
      /\ DOMAIN c = 1 .. Len(c) /\ Len(c) \in Nat
  BY <1>1, <1>3, StacksAre DEF Place, ChunkLists
<1>5. ChunkOf(p) = i
  BY <1>1, <1>4 DEF ChunkOf, Distinct
<1> DEFINE y == [c[i].m_stack EXCEPT ![j] = e]
<1>6. d = [c EXCEPT ![i].m_stack = y] /\ m_chunk' = m_chunk
  BY <1>4, <1>5 DEF write
<1>7. c[i].m_stack \in Seq(Elements) /\ y \in Seq(Elements) /\ Len(y) = Len(c[i].m_stack)
  <2>1. c[i].m_stack \in Seq(Elements)
    BY <1>1, <1>4, StacksAre
  <2> QED BY <2>1, <1>4, ExceptSeq
<1>8. s \in Seq(Seq(Elements)) /\ Len(s) = Len(c) /\ \A k \in 1 .. Len(c) : s[k] = c[k].m_stack
  BY <1>1, StacksAre
<1> HIDE DEF c, d, s, r, y
<1>9. d \in ChunkLists /\ Edited(c, d, i, y)
  BY <1>1, <1>4, <1>6, <1>7, ExceptIs
<1>10. /\ Len(d) = Len(c) /\ d[i].m_stack = y
       /\ \A k \in 1 .. Len(c) : d[k].at = c[k].at /\ (k # i => d[k].m_stack = c[k].m_stack)
       /\ \A k \in 1 .. Len(c) : Len(d[k].m_stack) = Len(c[k].m_stack)
  BY <1>7, <1>9 DEF Edited
<1>11. r \in Seq(Seq(Elements)) /\ Len(r) = Len(c) /\ \A k \in 1 .. Len(c) : r[k] = d[k].m_stack
  BY <1>9, <1>10, StacksAre DEF r
<1>12. WrittenAt(s, r, i, j, e)
  <2>1. i \in 1 .. Len(s) /\ j \in 1 .. Len(s[i]) /\ s[i] = c[i].m_stack /\ Len(r) = Len(s)
    BY <1>4, <1>8, <1>11
  <2>2. r[i] = [s[i] EXCEPT ![j] = e]
    BY <2>1, <1>4, <1>10, <1>11 DEF y
  <2>3. ASSUME NEW k \in 1 .. Len(s), k # i PROVE r[k] = s[k]
    BY <2>3, <1>8, <1>10, <1>11
  <2> QED BY <2>1, <2>2, <2>3 DEF WrittenAt
<1> DEFINE h == Len(Joined(s, i - 1)) + j
<1>13. /\ \A n \in 0 .. i - 1 : Joined(r, n) = Joined(s, n)
       /\ \A n \in i .. Len(s) : h \in 1 .. Len(Joined(s, n)) /\ Joined(r, n) = [Joined(s, n) EXCEPT ![h] = e]
  <2>1. h = Len(Joined(s, i - 1)) + j
    OBVIOUS
  <2> HIDE DEF h
  <2>2. JoinsWritten(s, r, i, h, e)
    BY <2>1, <1>8, <1>11, <1>12, JoinedWritten
  <2> QED BY <2>2 DEF JoinsWritten
<1>14. HeightIn(c, p) = h
  BY <1>1, <1>3, PlaceHeight DEF s
<1> HIDE DEF h
<1>15. HeightIn(c, p) \in 1 .. Len(dup) /\ dup' = [dup EXCEPT ![HeightIn(c, p)] = e]
  <2>1. Len(s) \in i .. Len(s) /\ FlattenSeq(s) = Joined(s, Len(s)) /\ FlattenSeq(r) = Joined(r, Len(s))
    <3>1. FlattenSeq(s) = Joined(s, Len(s))
      BY <1>8, JoinedIs
    <3>2. FlattenSeq(r) = Joined(r, Len(r))
      BY <1>11, JoinedIs
    <3>3. Len(s) \in i .. Len(s) /\ Len(r) = Len(s)
      BY <1>4, <1>8, <1>11
    <3> QED BY ONLY <3>1, <3>2, <3>3
  <2> QED BY <2>1, <1>1, <1>2, <1>13, <1>14
<1>16. Distinct(d)
  BY <1>1, <1>10 DEF Distinct
<1>17. ChunksOK(d, m_chunk)
  <2>1. ASSUME NEW k \in 1 .. Len(d)
        PROVE  Len(d[k].m_stack) <= ChunkSize /\ (k > m_chunk => d[k].m_stack = <<>>)
    <3>1. k \in 1 .. Len(c) /\ Len(c[k].m_stack) <= ChunkSize /\ (k > m_chunk => c[k].m_stack = <<>>)
      BY <1>1, <1>10 DEF ChunksOK
    <3>2. k > m_chunk => k # i
      <4>1. k > m_chunk /\ k = i => c[i].m_stack = <<>>
        BY <3>1
      <4> QED BY <4>1, <1>4
    <3> QED BY <3>1, <3>2, <1>10
  <2> QED BY <2>1, <1>1, <1>9, <1>10, <1>16 DEF ChunksOK
<1>18. ASSUME NEW k \in 0 .. Len(c) PROVE Len(Joined(r, k)) = Len(Joined(s, k))
  <2>1. CASE k \in 0 .. i - 1
    BY <2>1, <1>13
  <2>2. CASE k \notin 0 .. i - 1
    <3>1. k \in i .. Len(s) /\ k \in 0 .. Len(s)
      BY <2>2, <1>4, <1>8
    <3>2. Joined(s, k) \in Seq(Elements)
      BY <3>1, <1>8, JoinedIs
    <3> QED BY <3>1, <3>2, <1>13, ExceptSeq
  <2> QED BY <2>1, <2>2
<1>19. ASSUME NEW q, Marked(c, q) PROVE Marked(d, q) /\ HeightIn(d, q) = HeightIn(c, q)
  <2>1. CASE q = NULL
    BY <2>1 DEF Marked, HeightIn, Codes
  <2>2. CASE q # NULL
    <3>1. PICK k, l \in Nat : Place(c, q, k, l)
      BY <1>19, <2>2 DEF Marked
    <3>2. k \in 1 .. Len(c) /\ Place(d, q, k, l)
      BY <3>1, <1>10 DEF Place
    <3>3. HeightIn(c, q) = Len(Joined(s, k - 1)) + l
      BY <3>1, <1>1, PlaceHeight DEF s
    <3>4. HeightIn(d, q) = Len(Joined(r, k - 1)) + l
      BY <3>2, <1>9, <1>16, PlaceHeight DEF r
    <3>5. k - 1 \in 0 .. Len(c)
      BY <3>2, <1>4
    <3>6. Len(Joined(r, k - 1)) = Len(Joined(s, k - 1))
      BY <3>5, <1>18
    <3>7. Marked(d, q)
      BY <3>1, <3>2 DEF Marked
    <3> QED BY <3>3, <3>4, <3>6, <3>7
  <2> QED BY <2>1, <2>2
<1> QED BY <1>6, <1>15, <1>17, <1>19 DEF AllKept, c, d

LEMMA CleanupStep ==
  ASSUME IInv, cleanup
  PROVE  /\ ChunksOK(chunks', m_chunk') /\ Grown(chunks, chunks', TopChunk)
         /\ dup' = dup
<1> DEFINE t == TopChunk
           n == IF m_chunk < Len(chunks) /\ Full(m_chunk) THEN m_chunk + 1 ELSE m_chunk
<1>1. chunks \in ChunkLists /\ ChunksOK(chunks, m_chunk) /\ t \in Nat /\ TopIs(chunks, t)
      /\ t <= m_chunk /\ dup = FlattenSeq(Stacks(chunks))
  BY StackIs
<1>2. Len(chunks) \in Nat /\ m_chunk \in 1 .. Len(chunks)
  BY <1>1, StacksAre DEF ChunksOK
<1>3. n \in m_chunk .. Len(chunks)
  BY <1>2
<1>4. chunks' = SubSeq(chunks, 1, n) /\ m_chunk' = m_chunk
  BY DEF cleanup
<1>5. dup' = FlattenSeq(Stacks(chunks'))
  BY DEF dup, Stacks
<1> HIDE DEF t, n
<1>6. /\ ChunksOK(chunks', m_chunk)
      /\ FlattenSeq(Stacks(chunks')) = FlattenSeq(Stacks(chunks))
      /\ Same(chunks, chunks', t) /\ (t # 0 => chunks'[t].m_stack = chunks[t].m_stack)
  BY <1>1, <1>3, <1>4, CutIs
<1>7. t # 0 => Len(chunks[t].m_stack) \in Nat
  <2>1. t # 0 => t \in 1 .. Len(chunks)
    BY <1>1, <1>2
  <2> QED BY <2>1, <1>1, StacksAre
<1>8. Grown(chunks, chunks', t)
  BY <1>6, <1>7 DEF Grown
<1> QED BY <1>1, <1>4, <1>5, <1>6, <1>8 DEF t

-----------------------------------------------------------------------------
(* The marks of FrameStack: the heights of what the calls found; and those  *)
(* of what they reduce.                                                     *)
Heights(c, s) == [k \in DOMAIN s |-> HeightIn(c, s[k])]

LEMMA MarksAre ==
  /\ [i \in DOMAIN tops |-> HeightOf(tops[i])] = Heights(chunks, tops)
  /\ [i \in DOMAIN tops |-> HeightOf(tops[i])]' = Heights(chunks', tops')
  /\ [i \in DOMAIN turns |-> HeightOf(turns[i])] = Heights(chunks, turns)
  /\ [i \in DOMAIN turns |-> HeightOf(turns[i])]' = Heights(chunks', turns')
BY DEF HeightOf, HeightIn, ChunkOf, Heights

(* The addresses of s are places of c, and mean the same in d.              *)
Known(c, s) == \A k \in 1 .. Len(s) : s[k] \in Codes \/ Marked(c, s[k])
Means(c, d, p) == p \in Codes \/ (Marked(d, p) /\ HeightIn(d, p) = HeightIn(c, p))
Kept(c, d, s, n) == \A k \in 1 .. n : Means(c, d, s[k])

LEMMA MeansIs ==
  ASSUME NEW c, NEW d, NEW p, Means(c, d, p)
  PROVE  HeightIn(d, p) = HeightIn(c, p)
BY DEF Means, HeightIn

LEMMA KnownIs ==
  ASSUME NEW c, NEW s, NEW u, CallsOK(c, s), TurnsOK(c, s, u)
  PROVE  Known(c, s) /\ Known(c, u)
BY DEF CallsOK, TurnsOK, Known

LEMMA HeightsAre ==
  ASSUME NEW c \in ChunkLists, Distinct(c), NEW t \in Nat, TopIs(c, t),
         NEW s \in Seq(Turns), Known(c, s)
  PROVE  /\ Heights(c, s) \in Seq(Nat) /\ Len(Heights(c, s)) = Len(s) /\ Len(s) \in Nat
         /\ \A k \in 1 .. Len(s) : Heights(c, s)[k] = HeightIn(c, s[k])
<1>1. Len(s) \in Nat /\ DOMAIN s = 1 .. Len(s)
  BY LenProperties
<1>2. ASSUME NEW k \in 1 .. Len(s) PROVE HeightIn(c, s[k]) \in Nat
  <2>1. CASE s[k] \in Codes
    BY <2>1 DEF HeightIn
  <2>2. CASE Marked(c, s[k])
    BY <2>2, HeightBound
  <2> QED BY <2>1, <2>2 DEF Known
<1>3. Heights(c, s) = [k \in 1 .. Len(s) |-> HeightIn(c, s[k])]
  BY <1>1 DEF Heights
<1> QED BY <1>1, <1>2, <1>3

LEMMA HeightsStay ==
  ASSUME NEW c, NEW d, NEW s \in Seq(Turns), Kept(c, d, s, Len(s))
  PROVE  Heights(d, s) = Heights(c, s)
<1>1. DOMAIN s = 1 .. Len(s)
  BY LenProperties
<1>2. \A k \in 1 .. Len(s) : HeightIn(d, s[k]) = HeightIn(c, s[k])
  BY MeansIs DEF Kept
<1> QED BY <1>1, <1>2 DEF Heights

LEMMA HeightsReturned ==
  ASSUME NEW c \in ChunkLists, Distinct(c), NEW t \in Nat, TopIs(c, t),
         NEW s \in Seq(Turns), Known(c, s), s # <<>>
  PROVE  Heights(c, Front(s)) = SubSeq(Heights(c, s), 1, Len(Heights(c, s)) - 1)
<1>1. Heights(c, s) \in Seq(Nat) /\ Len(Heights(c, s)) = Len(s) /\ Len(s) \in Nat \ {0}
      /\ \A k \in 1 .. Len(s) : Heights(c, s)[k] = HeightIn(c, s[k])
  BY HeightsAre, EmptySeq
<1>2. Front(s) \in Seq(Turns) /\ Len(Front(s)) = Len(s) - 1
      /\ \A k \in 1 .. Len(s) - 1 : Front(s)[k] = s[k]
  BY FrontOf
<1>3. DOMAIN Front(s) = 1 .. Len(s) - 1
  BY <1>2, LenProperties
<1> DEFINE h == Heights(c, s)
<1>4. h # <<>> /\ Len(h) = Len(s)
  BY <1>1
<1>5. SubSeq(h, 1, Len(h) - 1) = Front(h)
  BY DEF Front
<1>6. Front(h) \in Seq(Nat) /\ Len(Front(h)) = Len(h) - 1
      /\ \A k \in 1 .. Len(h) - 1 : Front(h)[k] = h[k]
  BY <1>1, <1>4, FrontOf
<1>7. DOMAIN Front(h) = 1 .. Len(s) - 1
  BY <1>4, <1>6, LenProperties
<1>8. \A k \in 1 .. Len(s) - 1 : k \in 1 .. Len(s)
  BY <1>1
<1>9. Heights(c, Front(s)) = [k \in 1 .. Len(s) - 1 |-> HeightIn(c, s[k])]
  BY <1>2, <1>3 DEF Heights
<1>10. Front(h) = [k \in 1 .. Len(s) - 1 |-> Front(h)[k]]
  BY <1>6, <1>7
<1>11. \A k \in 1 .. Len(s) - 1 : Front(h)[k] = HeightIn(c, s[k])
  BY <1>1, <1>4, <1>6, <1>8
<1> QED BY <1>5, <1>9, <1>10, <1>11

HeightsAppend(c, d, s, q, v) == Heights(d, Append(s, q)) = Append(Heights(c, s), v)

LEMMA HeightsEntered ==
  ASSUME NEW c \in ChunkLists, Distinct(c), NEW d, NEW t \in Nat, TopIs(c, t),
         NEW s \in Seq(Turns), Known(c, s), Kept(c, d, s, Len(s)),
         NEW q \in Turns, NEW v \in Nat, HeightIn(d, q) = v
  PROVE  HeightsAppend(c, d, s, q, v)
<1> DEFINE r == Append(s, q)
           h == Heights(c, s)
           n == Len(s)
           g == Append(h, v)
<1>1. h \in Seq(Nat) /\ Len(h) = n /\ n \in Nat /\ \A k \in 1 .. n : h[k] = HeightIn(c, s[k])
  BY HeightsAre
<1>2. r \in Seq(Turns) /\ Len(r) = n + 1 /\ r[n + 1] = q /\ \A k \in 1 .. n : r[k] = s[k]
  BY AppendProperties
<1>3. DOMAIN r = 1 .. n + 1
  BY <1>2, LenProperties
<1> HIDE DEF h
<1>5. g \in Seq(Nat) /\ Len(g) = n + 1 /\ g[n + 1] = v /\ \A k \in 1 .. n : g[k] = h[k]
  BY <1>1, AppendProperties
<1> HIDE DEF r, g
<1>6. DOMAIN g = 1 .. n + 1
  BY <1>5, LenProperties
<1>7. ASSUME NEW k \in 1 .. n + 1 PROVE HeightIn(d, r[k]) = g[k]
  <2>1. CASE k = n + 1
    BY <2>1, <1>2, <1>5
  <2>2. CASE k # n + 1
    <3>1. k \in 1 .. n
      BY <2>2, <1>1
    <3>2. HeightIn(d, s[k]) = HeightIn(c, s[k])
      BY <3>1, MeansIs DEF Kept
    <3> QED BY <3>1, <3>2, <1>1, <1>2, <1>5
  <2> QED BY <2>1, <2>2
<1>8. Heights(d, r) = [k \in 1 .. n + 1 |-> HeightIn(d, r[k])]
  BY <1>3 DEF Heights
<1>9. g = [k \in 1 .. n + 1 |-> g[k]]
  BY <1>5, <1>6
<1>10. Heights(d, r) = g
  <2> HIDE DEF n
  <2> QED BY <1>7, <1>8, <1>9
<1> QED BY <1>10 DEF r, g, h, HeightsAppend

(* The last one is replaced.                                                *)
HeightsReplace(c, d, s, q, v) ==
  Heights(d, [s EXCEPT ![Len(s)] = q]) = [Heights(c, s) EXCEPT ![Len(Heights(c, s))] = v]

LEMMA HeightsTurned ==
  ASSUME NEW c \in ChunkLists, Distinct(c), NEW d, NEW t \in Nat, TopIs(c, t),
         NEW s \in Seq(Turns), s # <<>>, Known(c, s), Kept(c, d, s, Len(s) - 1),
         NEW q \in Turns, NEW v \in Nat, HeightIn(d, q) = v
  PROVE  HeightsReplace(c, d, s, q, v)
<1> DEFINE h == Heights(c, s)
           n == Len(s)
           r == [s EXCEPT ![n] = q]
           g == [h EXCEPT ![n] = v]
<1>1. h \in Seq(Nat) /\ Len(h) = n /\ n \in Nat \ {0} /\ \A k \in 1 .. n : h[k] = HeightIn(c, s[k])
  BY HeightsAre, EmptySeq
<1>2. r \in Seq(Turns) /\ Len(r) = n /\ \A k \in 1 .. n : r[k] = IF k = n THEN q ELSE s[k]
  <2>1. n \in 1 .. Len(s)
    BY <1>1
  <2> QED BY <2>1, ExceptSeq
<1> HIDE DEF h
<1>3. g \in Seq(Nat) /\ Len(g) = n /\ \A k \in 1 .. n : g[k] = IF k = n THEN v ELSE h[k]
  <2>1. n \in 1 .. Len(h)
    BY <1>1
  <2> QED BY <2>1, <1>1, ExceptSeq
<1> HIDE DEF r, g
<1>4. DOMAIN r = 1 .. n /\ DOMAIN g = 1 .. n
  BY <1>2, <1>3, LenProperties
<1>5. ASSUME NEW k \in 1 .. n PROVE HeightIn(d, r[k]) = g[k]
  <2>1. CASE k = n
    BY <2>1, <1>2, <1>3
  <2>2. CASE k # n
    <3>1. k \in 1 .. n - 1
      BY <2>2, <1>1
    <3>2. HeightIn(d, s[k]) = HeightIn(c, s[k])
      BY <3>1, MeansIs DEF Kept
    <3> QED BY <3>2, <2>2, <1>1, <1>2, <1>3
  <2> QED BY <2>1, <2>2
<1>6. Heights(d, r) = [k \in 1 .. n |-> HeightIn(d, r[k])]
  BY <1>4 DEF Heights
<1>7. g = [k \in 1 .. n |-> g[k]]
  BY <1>3, <1>4
<1>8. Heights(d, r) = g
  <2> HIDE DEF n
  <2> QED BY <1>5, <1>6, <1>7
<1>9. Len(h) = n
  BY <1>1
<1> QED BY <1>8, <1>9 DEF r, g, h, HeightsReplace

(* Inside of a call: its own elements, in both views.                       *)
LEMMA WorkingIs ==
  ASSUME IInv
  PROVE  /\ Looping => top # NULL /\ Heights(chunks, tops) # <<>>
                       /\ Len(dup) > Heights(chunks, tops)[Len(Heights(chunks, tops))]
         /\ tops # <<>> /\ top = Last(tops)
            => /\ Heights(chunks, tops) # <<>>
               /\ Len(dup) = Heights(chunks, tops)[Len(Heights(chunks, tops))]
         /\ tops # <<>>
            => /\ Heights(chunks, tops) # <<>>
               /\ Heights(chunks, tops)[Len(Heights(chunks, tops))] = HeightIn(chunks, tops[Len(tops)])
         /\ tops = <<>> => top = NULL /\ dup = <<>> /\ Heights(chunks, tops) = <<>>
<1> DEFINE t == TopChunk
           c == chunks
           h == Heights(chunks, tops)
<1>1. /\ c \in ChunkLists /\ Distinct(c)
      /\ t \in Nat /\ TopIs(c, t)
      /\ top = TopOf(c, t) /\ top \in Marks /\ (top = NULL <=> t = 0)
      /\ tops \in Seq(Marks) /\ CallsOK(c, tops) /\ TurnsOK(c, tops, turns)
      /\ dup = FlattenSeq(Stacks(c)) /\ dup \in Seq(Elements) /\ FullHeight(c) = Len(dup)
  BY StackIs
<1> HIDE DEF t
<1>2. /\ h \in Seq(Nat) /\ Len(h) = Len(tops) /\ Len(tops) \in Nat
      /\ \A k \in 1 .. Len(tops) : h[k] = HeightIn(c, tops[k])
  <2>1. Known(c, tops) /\ tops \in Seq(Turns)
    BY <1>1, KnownIs DEF Turns
  <2> QED BY <2>1, <1>1, HeightsAre
<1>3. ASSUME tops # <<>>
      PROVE  /\ h # <<>> /\ h[Len(h)] = HeightIn(c, tops[Len(tops)]) /\ h[Len(h)] \in Nat
             /\ Len(dup) \in Nat
             /\ top # tops[Len(tops)] <=> Len(dup) > h[Len(h)]
             /\ top = tops[Len(tops)] <=> Len(dup) = h[Len(h)]
  <2>1. /\ Len(tops) \in 1 .. Len(tops) /\ FullHeight(c) \in Nat
        /\ HeightIn(c, tops[Len(tops)]) \in Nat
        /\ TopOf(c, t) # tops[Len(tops)] <=> FullHeight(c) > HeightIn(c, tops[Len(tops)])
        /\ TopOf(c, t) = tops[Len(tops)] <=> FullHeight(c) = HeightIn(c, tops[Len(tops)])
    BY <1>1, <1>3, LoopingIs
  <2>2. h # <<>>
    BY <2>1, <1>2
  <2> HIDE DEF c, h
  <2> QED BY <2>1, <2>2, <1>1, <1>2
<1>4. ASSUME Looping PROVE top # NULL /\ h # <<>> /\ Len(dup) > h[Len(h)]
  <2>1. tops # <<>> /\ top # tops[Len(tops)]
    BY <1>4 DEF Looping, Last
  <2>2. h # <<>> /\ h[Len(h)] \in Nat /\ Len(dup) \in Nat /\ Len(dup) > h[Len(h)]
    BY <2>1, <1>3
  <2>3. top # NULL
    <3>1. SUFFICES ASSUME t = 0 PROVE FALSE
      BY <1>1
    <3>2. dup = <<>>
      BY <3>1, <1>1, DupIs
    <3>3. Len(dup) = 0
      BY <3>2
    <3> HIDE DEF h
    <3> QED BY ONLY <3>3, <2>2
  <2> QED BY <2>2, <2>3
<1>5. ASSUME tops # <<>>, top = Last(tops) PROVE h # <<>> /\ Len(dup) = h[Len(h)]
  BY <1>3, <1>5 DEF Last
<1>6. ASSUME tops = <<>> PROVE top = NULL /\ dup = <<>> /\ h = <<>>
  <2>1. dup = <<>>
    BY <1>1, <1>6 DEF CallsOK
  <2>2. t = 0
    BY <2>1, <1>1, DupIs
  <2>3. Len(h) = 0
    BY <1>2, <1>6
  <2> HIDE DEF h
  <2>4. h = <<>>
    BY <2>3, <1>2, EmptySeq
  <2> QED BY <2>1, <2>2, <2>4, <1>1
<1> QED BY <1>3, <1>4, <1>5, <1>6


-----------------------------------------------------------------------------
(* Where the calls are in their loops.                                      *)
LEMMA TurnsStay ==
  ASSUME NEW c, NEW d, NEW s, NEW u, TurnsOK(c, s, u), SameMarks(c, d, s), Kept(c, d, u, Len(u))
  PROVE  TurnsOK(d, s, u)
<1>1. Len(u) = Len(s)
  BY DEF TurnsOK
<1>2. ASSUME NEW k \in 1 .. Len(u)
      PROVE  u[k] \in Codes \/ (Marked(d, u[k]) /\ HeightIn(d, s[k]) < HeightIn(d, u[k]))
  BY <1>1 DEF TurnsOK, SameMarks, Kept, Means
<1>3. ASSUME NEW k \in 1 .. Len(u), NEW n \in 1 .. Len(u), k < n
      PROVE  u[k] \in Codes \/ HeightIn(d, u[k]) <= HeightIn(d, s[n])
  BY <1>1, <1>3 DEF TurnsOK, SameMarks, Kept, Means
<1> QED BY <1>1, <1>2, <1>3 DEF TurnsOK

LEMMA TurnsTurned ==
  ASSUME NEW c, NEW d, NEW s \in Seq(Marks), NEW u \in Seq(Turns), s # <<>>,
         TurnsOK(c, s, u), SameMarks(c, d, s), Kept(c, d, u, Len(u) - 1),
         NEW q \in Turns, q \in Codes \/ (Marked(d, q) /\ HeightIn(d, s[Len(s)]) < HeightIn(d, q))
  PROVE  [u EXCEPT ![Len(u)] = q] \in Seq(Turns) /\ TurnsOK(d, s, [u EXCEPT ![Len(u)] = q])
<1> DEFINE n == Len(u)
           r == [u EXCEPT ![n] = q]
<1>1. Len(s) = n /\ n \in Nat \ {0}
  BY EmptySeq DEF TurnsOK
<1>2. r \in Seq(Turns) /\ Len(r) = n /\ \A k \in 1 .. n : r[k] = IF k = n THEN q ELSE u[k]
  <2>1. n \in 1 .. Len(u)
    BY <1>1
  <2> QED BY <2>1, ExceptSeq
<1> HIDE DEF r
<1>3. ASSUME NEW k \in 1 .. n, k # n
      PROVE  /\ r[k] = u[k] /\ k \in 1 .. Len(s)
             /\ u[k] \in Codes \/ (Marked(d, u[k]) /\ HeightIn(d, u[k]) = HeightIn(c, u[k]))
  <2>1. k \in 1 .. n - 1
    BY <1>1, <1>3
  <2> QED BY <2>1, <1>1, <1>2, <1>3 DEF Kept, Means
<1>4. ASSUME NEW k \in 1 .. n
      PROVE  r[k] \in Codes \/ (Marked(d, r[k]) /\ HeightIn(d, s[k]) < HeightIn(d, r[k]))
  <2>1. CASE k = n
    BY <2>1, <1>1, <1>2
  <2>2. CASE k # n
    <3>1. u[k] \in Codes \/ HeightIn(c, s[k]) < HeightIn(c, u[k])
      BY DEF TurnsOK
    <3>2. HeightIn(d, s[k]) = HeightIn(c, s[k])
      BY <2>2, <1>3 DEF SameMarks
    <3> QED BY <3>1, <3>2, <2>2, <1>3
  <2> QED BY <2>1, <2>2
<1>5. ASSUME NEW k \in 1 .. n, NEW l \in 1 .. n, k < l
      PROVE  r[k] \in Codes \/ HeightIn(d, r[k]) <= HeightIn(d, s[l])
  <2>1. k # n /\ l \in 1 .. Len(s)
    BY <1>1, <1>5
  <2>2. u[k] \in Codes \/ HeightIn(c, u[k]) <= HeightIn(c, s[l])
    BY <1>5 DEF TurnsOK
  <2>3. HeightIn(d, s[l]) = HeightIn(c, s[l])
    BY <2>1 DEF SameMarks
  <2> QED BY <2>1, <2>2, <2>3, <1>3
<1> QED BY <1>1, <1>2, <1>4, <1>5 DEF TurnsOK, r

LEMMA TurnsEntered ==
  ASSUME NEW c \in ChunkLists, Distinct(c), NEW t \in Nat, TopIs(c, t), NEW d,
         NEW s \in Seq(Marks), NEW u \in Seq(Turns),
         TurnsOK(c, s, u), SameMarks(c, d, s), Kept(c, d, u, Len(u)),
         NEW q \in Marks, HeightIn(d, q) = FullHeight(c), NEW p \in Codes
  PROVE  Append(u, p) \in Seq(Turns) /\ TurnsOK(d, Append(s, q), Append(u, p))
<1> DEFINE n == Len(u)
           r == Append(s, q)
           v == Append(u, p)
<1>1. Len(s) = n /\ n \in Nat /\ p \in Turns
  BY LenProperties DEF TurnsOK, Turns
<1>2. Len(r) = n + 1 /\ r[n + 1] = q /\ \A k \in 1 .. n : r[k] = s[k]
  BY <1>1, AppendProperties
<1>3. v \in Seq(Turns) /\ Len(v) = n + 1 /\ v[n + 1] = p /\ \A k \in 1 .. n : v[k] = u[k]
  BY <1>1, AppendProperties
<1> HIDE DEF r, v
<1>4. ASSUME NEW k \in 1 .. n, u[k] \notin Codes
      PROVE  /\ Marked(d, u[k]) /\ HeightIn(d, u[k]) = HeightIn(c, u[k])
             /\ HeightIn(c, u[k]) <= FullHeight(c)
             /\ HeightIn(d, s[k]) < HeightIn(d, u[k])
  <2>1. Marked(c, u[k]) /\ HeightIn(c, s[k]) < HeightIn(c, u[k])
    BY <1>4 DEF TurnsOK
  <2>2. HeightIn(c, u[k]) <= FullHeight(c)
    BY <2>1, HeightBound DEF FullHeight
  <2>3. HeightIn(d, s[k]) = HeightIn(c, s[k])
    BY <1>1 DEF SameMarks
  <2>4. Marked(d, u[k]) /\ HeightIn(d, u[k]) = HeightIn(c, u[k])
    BY <1>4 DEF Kept, Means
  <2> QED BY <2>1, <2>2, <2>3, <2>4
<1>5. ASSUME NEW k \in 1 .. n + 1
      PROVE  v[k] \in Codes \/ (Marked(d, v[k]) /\ HeightIn(d, r[k]) < HeightIn(d, v[k]))
  <2>1. CASE k = n + 1
    BY <2>1, <1>3
  <2>2. CASE k # n + 1
    <3>1. k \in 1 .. n
      BY <2>2, <1>1
    <3> QED BY <3>1, <1>2, <1>3, <1>4
  <2> QED BY <2>1, <2>2
<1>6. ASSUME NEW k \in 1 .. n + 1, NEW l \in 1 .. n + 1, k < l
      PROVE  v[k] \in Codes \/ HeightIn(d, v[k]) <= HeightIn(d, r[l])
  <2>1. k \in 1 .. n /\ v[k] = u[k]
    BY <1>1, <1>3, <1>6
  <2>2. CASE l = n + 1
    BY <2>1, <2>2, <1>2, <1>4
  <2>3. CASE l # n + 1
    <3>1. l \in 1 .. n /\ r[l] = s[l]
      BY <2>3, <1>1, <1>2
    <3>2. u[k] \in Codes \/ HeightIn(c, u[k]) <= HeightIn(c, s[l])
      BY <2>1, <3>1, <1>6 DEF TurnsOK
    <3>3. HeightIn(d, s[l]) = HeightIn(c, s[l])
      BY <3>1, <1>1 DEF SameMarks
    <3> QED BY <2>1, <3>1, <3>2, <3>3, <1>4
  <2> QED BY <2>2, <2>3
<1> QED BY <1>2, <1>3, <1>5, <1>6 DEF TurnsOK, r, v

LEMMA TurnsReturned ==
  ASSUME NEW c, NEW s \in Seq(Marks), NEW u \in Seq(Turns), s # <<>>, TurnsOK(c, s, u)
  PROVE  u # <<>> /\ Front(u) \in Seq(Turns) /\ TurnsOK(c, Front(s), Front(u))
<1>1. Len(u) = Len(s) /\ Len(u) \in Nat \ {0} /\ u # <<>>
  BY EmptySeq DEF TurnsOK
<1>2. Len(Front(s)) = Len(s) - 1 /\ \A k \in 1 .. Len(s) - 1 : Front(s)[k] = s[k]
  BY FrontOf
<1>3. Front(u) \in Seq(Turns) /\ Len(Front(u)) = Len(u) - 1 /\ \A k \in 1 .. Len(u) - 1 : Front(u)[k] = u[k]
  BY <1>1, FrontOf
<1> DEFINE r == Front(s)
           v == Front(u)
<1> HIDE DEF r, v
<1>4. Len(r) = Len(v) /\ Len(v) = Len(u) - 1
      /\ \A k \in 1 .. Len(v) : k \in 1 .. Len(u) /\ r[k] = s[k] /\ v[k] = u[k]
  BY <1>1, <1>2, <1>3 DEF r, v
<1>5. TurnsOK(c, r, v)
  BY <1>4 DEF TurnsOK
<1> QED BY <1>1, <1>3, <1>5 DEF r, v

-----------------------------------------------------------------------------
(* What is known of the calls in a state.                                   *)
LEMMA CallsAre ==
  ASSUME IInv
  PROVE  /\ tops \in Seq(Turns) /\ Known(chunks, tops) /\ Known(chunks, turns)
         /\ Len(turns) = Len(tops) /\ Len(tops) \in Nat
         /\ tops # <<>> =>
              /\ turns # <<>> /\ Len(turns) \in Nat \ {0} /\ Len(turns) \in 1 .. Len(turns)
              /\ Last(turns) = turns[Len(turns)] /\ Last(turns) \in Turns
              /\ Heights(chunks, turns) # <<>>
              /\ Heights(chunks, turns)[Len(Heights(chunks, turns))] = HeightIn(chunks, Last(turns))
<1> DEFINE t == TopChunk
<1>1. /\ chunks \in ChunkLists /\ Distinct(chunks) /\ t \in Nat /\ TopIs(chunks, t)
      /\ tops \in Seq(Marks) /\ CallsOK(chunks, tops)
      /\ turns \in Seq(Turns) /\ TurnsOK(chunks, tops, turns)
  BY StackIs
<1> HIDE DEF t
<1>2. Known(chunks, tops) /\ Known(chunks, turns) /\ tops \in Seq(Turns)
  BY <1>1, KnownIs DEF Turns
<1>3. Len(turns) = Len(tops) /\ Len(tops) \in Nat
  BY <1>1 DEF TurnsOK
<1>4. /\ Heights(chunks, turns) \in Seq(Nat) /\ Len(Heights(chunks, turns)) = Len(turns)
      /\ \A k \in 1 .. Len(turns) : Heights(chunks, turns)[k] = HeightIn(chunks, turns[k])
  BY <1>1, <1>2, HeightsAre
<1>5. ASSUME tops # <<>>
      PROVE  /\ turns # <<>> /\ Len(turns) \in Nat \ {0} /\ Len(turns) \in 1 .. Len(turns)
             /\ Last(turns) = turns[Len(turns)] /\ Last(turns) \in Turns
             /\ Heights(chunks, turns) # <<>>
             /\ Heights(chunks, turns)[Len(Heights(chunks, turns))] = HeightIn(chunks, Last(turns))
  <2>1. Len(turns) \in Nat \ {0} /\ Len(turns) \in 1 .. Len(turns)
    <3>1. Len(tops) \in Nat \ {0}
      BY <1>1, <1>5, EmptySeq
    <3> QED BY <3>1, <1>3
  <2>2. turns # <<>> /\ Heights(chunks, turns) # <<>>
    BY <2>1, <1>4
  <2>3. Last(turns) = turns[Len(turns)] /\ Last(turns) \in Turns
    BY <2>1, <1>1, ElementOfSeq DEF Last
  <2> QED BY <2>1, <2>2, <2>3, <1>4
<1> QED BY <1>2, <1>3, <1>5

(* FullReduce has its hand on an element of its own.                        *)
LEMMA ReducingIs ==
  ASSUME IInv, Reducing
  PROVE  LET h == HeightIn(chunks, Last(turns))
             m == HeightIn(chunks, tops[Len(tops)])
         IN  /\ tops # <<>> /\ Marked(chunks, Last(turns)) /\ Last(turns) \notin Codes
             /\ h \in Nat /\ m \in Nat /\ m < h /\ h <= Len(dup) /\ Len(dup) \in Nat
             /\ h = Len(dup) <=> Last(turns) = top
             /\ Looping
<1> DEFINE t == TopChunk
           h == HeightIn(chunks, Last(turns))
           m == HeightIn(chunks, tops[Len(tops)])
<1>1. /\ chunks \in ChunkLists /\ Distinct(chunks) /\ t \in Nat /\ TopIs(chunks, t)
      /\ top = TopOf(chunks, t) /\ tops \in Seq(Marks) /\ CallsOK(chunks, tops)
      /\ TurnsOK(chunks, tops, turns) /\ FullHeight(chunks) = Len(dup)
  BY StackIs
<1> HIDE DEF t
<1>2. tops # <<>> /\ Last(turns) \notin Codes
  BY DEF Reducing
<1>3. Len(turns) = Len(tops) /\ Len(turns) \in 1 .. Len(turns) /\ Last(turns) = turns[Len(turns)]
  BY <1>2, CallsAre
<1>4. Marked(chunks, Last(turns)) /\ m < h
  BY <1>2, <1>3, <1>1 DEF TurnsOK
<1>5. Marked(chunks, tops[Len(tops)])
  BY <1>1, <1>3 DEF CallsOK
<1>6. h \in Nat /\ h <= Len(dup) /\ Len(dup) \in Nat /\ (h = Len(dup) <=> Last(turns) = top)
  BY <1>1, <1>4, HeightBound DEF FullHeight
<1>7. m \in Nat /\ (m = Len(dup) <=> tops[Len(tops)] = top)
  BY <1>1, <1>5, HeightBound DEF FullHeight
<1> HIDE DEF h, m
<1>8. m # Len(dup)
  BY <1>4, <1>6, <1>7
<1>9. Looping
  BY <1>2, <1>7, <1>8 DEF Looping, Last
<1> QED BY <1>2, <1>4, <1>6, <1>7, <1>9 DEF h, m

(* All addresses that the calls hold mean what they meant.                  *)
LEMMA AllKeptIs ==
  ASSUME IInv, AllKept(chunks, chunks')
  PROVE  SameMarks(chunks, chunks', tops) /\ \A n \in 0 .. Len(turns) : Kept(chunks, chunks', turns, n)
<1>1. CallsOK(chunks, tops) /\ TurnsOK(chunks, tops, turns) /\ Len(turns) \in Nat
  BY StackIs, CallsAre
<1>2. SameMarks(chunks, chunks', tops)
  BY <1>1 DEF AllKept, SameMarks, CallsOK
<1>3. ASSUME NEW k \in 1 .. Len(turns) PROVE Means(chunks, chunks', turns[k])
  BY <1>1 DEF AllKept, Means, TurnsOK
<1>4. ASSUME NEW n \in 0 .. Len(turns) PROVE Kept(chunks, chunks', turns, n)
  <2>1. \A k \in 1 .. n : k \in 1 .. Len(turns)
    BY <1>1
  <2> QED BY <2>1, <1>3 DEF Kept
<1> QED BY <1>2, <1>4

LEMMA GrownMarks ==
  ASSUME IInv, ChunksOK(chunks', m_chunk'), Grown(chunks, chunks', TopChunk)
  PROVE  AllKept(chunks, chunks')
<1> DEFINE t == TopChunk
<1>1. chunks \in ChunkLists /\ Distinct(chunks) /\ t \in Nat /\ TopIs(chunks, t)
  BY StackIs
<1>2. chunks' \in ChunkLists /\ Distinct(chunks')
  BY DEF ChunksOK
<1>3. Same(chunks, chunks', t)
      /\ (t # 0 => Len(chunks'[t].m_stack) >= Len(chunks[t].m_stack))
  BY DEF Grown
<1> HIDE DEF t
<1> QED BY <1>1, <1>2, <1>3, GrowKeeps

(* The calls do not change.                                                 *)
LEMMA CallsUnchanged ==
  ASSUME IInv, tops' = tops, SameMarks(chunks, chunks', tops), tops = <<>> => dup' = <<>>
  PROVE  /\ tops' \in Seq(Marks) /\ CallsOK(chunks', tops')
         /\ Heights(chunks', tops') = Heights(chunks, tops)
<1>1. tops \in Seq(Marks) /\ CallsOK(chunks, tops)
  BY StackIs
<1>2. dup' = FlattenSeq(Stacks(chunks'))
  BY DEF dup, Stacks
<1>3. CallsOK(chunks', tops)
  BY <1>1, <1>2, CallsStay
<1>4. tops \in Seq(Turns) /\ Kept(chunks, chunks', tops, Len(tops))
  BY CallsAre DEF SameMarks, Kept, Means
<1>5. Heights(chunks', tops) = Heights(chunks, tops)
  BY <1>4, HeightsStay
<1> QED BY <1>1, <1>3, <1>5

(* Nor does where they are in their loops.                                  *)
LEMMA TurnsUnchanged ==
  ASSUME IInv, tops' = tops, turns' = turns, SameMarks(chunks, chunks', tops),
         Kept(chunks, chunks', turns, Len(turns))
  PROVE  /\ turns' \in Seq(Turns) /\ TurnsOK(chunks', tops', turns')
         /\ Heights(chunks', turns') = Heights(chunks, turns)
<1>1. turns \in Seq(Turns) /\ TurnsOK(chunks, tops, turns)
  BY StackIs
<1>2. TurnsOK(chunks', tops, turns)
  BY <1>1, TurnsStay
<1>3. Heights(chunks', turns) = Heights(chunks, turns)
  BY <1>1, HeightsStay
<1> QED BY <1>1, <1>2, <1>3

(* The last call goes on in its loop.                                       *)
LEMMA TurnedIs ==
  ASSUME IInv, tops # <<>>, tops' = tops, SameMarks(chunks, chunks', tops),
         Kept(chunks, chunks', turns, Len(turns) - 1),
         NEW q \in Turns, turn(q), NEW v \in Nat, HeightIn(chunks', q) = v,
         q \in Codes \/ (Marked(chunks', q) /\ HeightIn(chunks', tops[Len(tops)]) < v)
  PROVE  /\ turns' \in Seq(Turns) /\ TurnsOK(chunks', tops', turns')
         /\ Heights(chunks', turns') = [Heights(chunks, turns) EXCEPT ![Len(Heights(chunks, turns))] = v]
<1> DEFINE t == TopChunk
<1>1. /\ chunks \in ChunkLists /\ Distinct(chunks) /\ t \in Nat /\ TopIs(chunks, t)
      /\ tops \in Seq(Marks) /\ turns \in Seq(Turns) /\ TurnsOK(chunks, tops, turns)
  BY StackIs
<1> HIDE DEF t
<1>2. Known(chunks, turns) /\ turns # <<>>
  BY CallsAre
<1>3. turns' = [turns EXCEPT ![Len(turns)] = q]
  BY DEF turn
<1>4. turns' \in Seq(Turns) /\ TurnsOK(chunks', tops, turns')
  BY <1>1, <1>3, TurnsTurned
<1>5. Heights(chunks', turns') = [Heights(chunks, turns) EXCEPT ![Len(Heights(chunks, turns))] = v]
  <2>1. HeightsReplace(chunks, chunks', turns, q, v)
    BY <1>1, <1>2, HeightsTurned
  <2> QED BY <2>1, <1>3 DEF HeightsReplace
<1> QED BY <1>4, <1>5

LEMMA CodesAre ==
  /\ NULL \in Turns /\ ToPop \in Turns /\ Popped \in Turns
  /\ NULL \in Codes /\ ToPop \in Codes /\ Popped \in Codes
  /\ \A c : HeightIn(c, NULL) = 0 /\ HeightIn(c, ToPop) = 0 /\ HeightIn(c, Popped) = 0
  /\ NULL \in Marks /\ 0 \in Nat
BY DEF Codes, Turns, Marks, HeightIn

-----------------------------------------------------------------------------
(* Every step keeps the invariant and is one of FrameStack's.               *)
LEMMA EnterIs ==
  ASSUME IInv, NEW e \in Elements, NEW p \in Codes, Enter(e, p)
  PROVE  IInv' /\ F!Enter(e)
<1> DEFINE t == TopChunk
<1>1. /\ chunks \in ChunkLists /\ Distinct(chunks) /\ t \in Nat /\ TopIs(chunks, t)
      /\ top = TopOf(chunks, t) /\ top \in Marks /\ tops \in Seq(Marks) /\ CallsOK(chunks, tops)
      /\ turns \in Seq(Turns) /\ TurnsOK(chunks, tops, turns)
      /\ FullHeight(chunks) = Len(dup) /\ dup \in Seq(Elements)
  BY StackIs
<1>2. ChunksOK(chunks', m_chunk') /\ Grown(chunks, chunks', t) /\ dup' = Append(dup, e)
  BY PushStep DEF Enter
<1>3. chunks' \in ChunkLists /\ Distinct(chunks')
  BY <1>2 DEF ChunksOK
<1>4. tops' = Append(tops, top) /\ turns' = Append(turns, p) /\ result' = result /\ copy' = copy
  BY DEF Enter
<1>5. AllKept(chunks, chunks')
  BY <1>2, GrownMarks
<1>6. SameMarks(chunks, chunks', tops) /\ Kept(chunks, chunks', turns, Len(turns)) /\ Len(turns) \in Nat
  <2>1. Len(turns) \in 0 .. Len(turns) /\ Len(turns) \in Nat
    BY CallsAre
  <2> QED BY <2>1, <1>5, AllKeptIs
<1> HIDE DEF t
<1>7. Same(chunks, chunks', t)
      /\ (t # 0 => Len(chunks'[t].m_stack) >= Len(chunks[t].m_stack))
  BY <1>2 DEF Grown
<1>8. CallsOK(chunks', Append(tops, top)) /\ HeightIn(chunks', top) = FullHeight(chunks)
  BY <1>1, <1>3, <1>7, CallEntered
<1>9. Append(turns, p) \in Seq(Turns) /\ TurnsOK(chunks', Append(tops, top), Append(turns, p))
  BY <1>1, <1>6, <1>8, TurnsEntered
<1>10. tops \in Seq(Turns) /\ Known(chunks, tops) /\ Known(chunks, turns)
       /\ Kept(chunks, chunks', tops, Len(tops)) /\ top \in Turns /\ p \in Turns
  BY <1>1, <1>6, CallsAre DEF SameMarks, Kept, Means, Turns
<1>11. Len(dup) \in Nat /\ HeightIn(chunks', p) = 0
  BY <1>1, LenProperties DEF HeightIn
<1>12. Heights(chunks', Append(tops, top)) = Append(Heights(chunks, tops), Len(dup))
  <2>1. HeightsAppend(chunks, chunks', tops, top, Len(dup))
    BY <1>1, <1>8, <1>10, <1>11, HeightsEntered
  <2> QED BY <2>1 DEF HeightsAppend
<1>13. Heights(chunks', Append(turns, p)) = Append(Heights(chunks, turns), 0)
  <2>1. HeightsAppend(chunks, chunks', turns, p, 0)
    BY <1>1, <1>6, <1>10, <1>11, HeightsEntered
  <2> QED BY <2>1 DEF HeightsAppend
<1>14. IInv'
  <2>1. tops' \in Seq(Marks)
    BY <1>1, <1>4, AppendProperties
  <2>2. result' \in Elements \cup {None} /\ copy' \in Seq(Elements)
    BY <1>4 DEF IInv, TypeOK
  <2> QED BY <2>1, <2>2, <1>2, <1>4, <1>8, <1>9, InvariantIs
<1>15. F!Enter(e)
  BY <1>2, <1>4, <1>12, <1>13, MarksAre DEF F!Enter
<1> QED BY <1>14, <1>15

LEMMA PushOnIs ==
  ASSUME IInv, NEW e \in Elements, PushOn(e)
  PROVE  IInv' /\ F!Push(e)
<1>1. ChunksOK(chunks', m_chunk') /\ Grown(chunks, chunks', TopChunk) /\ dup' = Append(dup, e)
  BY PushStep DEF PushOn
<1>2. tops' = tops /\ turns' = turns /\ result' = result /\ copy' = copy /\ tops # <<>>
  BY DEF PushOn, Reducing, Globalizing
<1>3. AllKept(chunks, chunks')
  BY <1>1, GrownMarks
<1>4. SameMarks(chunks, chunks', tops) /\ Kept(chunks, chunks', turns, Len(turns))
  <2>1. Len(turns) \in 0 .. Len(turns)
    BY CallsAre
  <2> QED BY <2>1, <1>3, AllKeptIs
<1>5. tops' \in Seq(Marks) /\ CallsOK(chunks', tops') /\ Heights(chunks', tops') = Heights(chunks, tops)
  BY <1>2, <1>4, CallsUnchanged
<1>6. turns' \in Seq(Turns) /\ TurnsOK(chunks', tops', turns')
      /\ Heights(chunks', turns') = Heights(chunks, turns)
  BY <1>2, <1>4, TurnsUnchanged
<1>7. IInv'
  <2>1. result' \in Elements \cup {None} /\ copy' \in Seq(Elements)
    BY <1>2 DEF IInv, TypeOK
  <2> QED BY <2>1, <1>1, <1>5, <1>6, InvariantIs
<1>8. Heights(chunks, tops) # <<>>
  BY <1>2, WorkingIs
<1>9. F!Push(e)
  BY <1>1, <1>2, <1>5, <1>6, <1>8, MarksAre DEF F!Push
<1> QED BY <1>7, <1>9

LEMMA TurnIs ==
  ASSUME IInv, Turn
  PROVE  IInv' /\ F!Turn
<1> DEFINE t == TopChunk
<1>1. /\ chunks \in ChunkLists /\ Distinct(chunks) /\ ChunksOK(chunks, m_chunk)
      /\ t \in Nat /\ TopIs(chunks, t) /\ top = TopOf(chunks, t) /\ top \in Marks
      /\ CallsOK(chunks, tops) /\ FullHeight(chunks) = Len(dup) /\ dup \in Seq(Elements)
  BY StackIs
<1> HIDE DEF t
<1>2. /\ Looping /\ tops # <<>> /\ Last(turns) = NULL /\ turn(top) /\ tops' = tops
      /\ chunks' = chunks /\ m_chunk' = m_chunk /\ result' = result /\ copy' = copy
  BY DEF Turn, Looping
<1>3. AllKept(chunks, chunks') /\ dup' = dup
  BY <1>2 DEF AllKept, dup
<1>4. SameMarks(chunks, chunks', tops) /\ Kept(chunks, chunks', turns, Len(turns) - 1)
  <2>1. Len(turns) - 1 \in 0 .. Len(turns)
    BY <1>2, CallsAre
  <2> QED BY <2>1, <1>3, AllKeptIs
<1>5. top # NULL /\ Heights(chunks, tops) # <<>>
      /\ Len(dup) > Heights(chunks, tops)[Len(Heights(chunks, tops))]
      /\ Heights(chunks, tops)[Len(Heights(chunks, tops))] = HeightIn(chunks, tops[Len(tops)])
  BY <1>2, WorkingIs
<1>6. Marked(chunks, top) /\ HeightIn(chunks, top) = Len(dup) /\ Len(dup) \in Nat /\ top \in Turns
  <2>1. Marked(chunks, top)
    BY <1>1, TopMarked
  <2> QED BY <2>1, <1>1, HeightBound, LenProperties DEF Turns, FullHeight
<1>7. HeightIn(chunks, tops[Len(tops)]) \in Nat
  <2>1. Marked(chunks, tops[Len(tops)])
    <3>1. Len(tops) \in 1 .. Len(tops)
      BY <1>2, CallsAre
    <3> QED BY <3>1, <1>1 DEF CallsOK
  <2> QED BY <2>1, <1>1, HeightBound
<1>8. HeightIn(chunks, tops[Len(tops)]) < Len(dup)
  BY <1>5, <1>6, <1>7
<1>9. tops' \in Seq(Marks) /\ CallsOK(chunks', tops') /\ Heights(chunks', tops') = Heights(chunks, tops)
  BY <1>2, <1>4, CallsUnchanged
<1>10. /\ turns' \in Seq(Turns) /\ TurnsOK(chunks', tops', turns')
       /\ Heights(chunks', turns') = [Heights(chunks, turns) EXCEPT ![Len(Heights(chunks, turns))] = Len(dup)]
  BY <1>2, <1>4, <1>6, <1>8, TurnedIs
<1>11. IInv'
  <2>1. result' \in Elements \cup {None} /\ copy' \in Seq(Elements) /\ ChunksOK(chunks', m_chunk')
    BY <1>1, <1>2 DEF IInv, TypeOK
  <2> QED BY <2>1, <1>9, <1>10, InvariantIs
<1>12. Heights(chunks, turns)[Len(Heights(chunks, turns))] = 0
  BY <1>2, CallsAre, CodesAre
<1>13. F!Turn
  BY <1>2, <1>3, <1>5, <1>9, <1>10, <1>12, MarksAre DEF F!Turn, F!Working, F!Top
<1> QED BY <1>11, <1>13

(* An element is written: all but it stays.                                 *)
LEMMA WriteIs ==
  ASSUME IInv, NEW e \in Elements, NEW p, p \notin Codes, Marked(chunks, p), write(p, e),
         tops # <<>>, tops' = tops, copy' = copy, result' = result
  PROVE  /\ ChunksOK(chunks', m_chunk') /\ result' \in Elements \cup {None} /\ copy' \in Seq(Elements)
         /\ SameMarks(chunks, chunks', tops)
         /\ Kept(chunks, chunks', turns, Len(turns)) /\ Kept(chunks, chunks', turns, Len(turns) - 1)
         /\ tops' \in Seq(Marks) /\ CallsOK(chunks', tops')
         /\ Heights(chunks', tops') = Heights(chunks, tops)
         /\ HeightIn(chunks, p) \in 1 .. Len(dup)
         /\ dup' = [dup EXCEPT ![HeightIn(chunks, p)] = e]
<1>1. /\ ChunksOK(chunks', m_chunk') /\ AllKept(chunks, chunks')
      /\ HeightIn(chunks, p) \in 1 .. Len(dup)
      /\ dup' = [dup EXCEPT ![HeightIn(chunks, p)] = e]
  BY WriteStep
<1>2. SameMarks(chunks, chunks', tops)
      /\ Kept(chunks, chunks', turns, Len(turns)) /\ Kept(chunks, chunks', turns, Len(turns) - 1)
  <2>1. Len(turns) \in 0 .. Len(turns) /\ Len(turns) - 1 \in 0 .. Len(turns)
    BY CallsAre
  <2> QED BY <2>1, <1>1, AllKeptIs
<1>3. tops' \in Seq(Marks) /\ CallsOK(chunks', tops') /\ Heights(chunks', tops') = Heights(chunks, tops)
  BY <1>2, CallsUnchanged
<1>4. result' \in Elements \cup {None} /\ copy' \in Seq(Elements)
  BY DEF IInv, TypeOK
<1> QED BY <1>1, <1>2, <1>3, <1>4

LEMMA ReducedIs ==
  ASSUME IInv, NEW e \in Elements, Reduced(e)
  PROVE  IInv' /\ F!Store(e)
<1> DEFINE h == HeightIn(chunks, Last(turns))
           m == HeightIn(chunks, tops[Len(tops)])
<1>1. /\ Reducing /\ write(Last(turns), e) /\ turn(NULL)
      /\ tops' = tops /\ result' = result /\ copy' = copy
  BY DEF Reduced
<1>2. /\ tops # <<>> /\ Marked(chunks, Last(turns)) /\ Last(turns) \notin Codes
      /\ h \in Nat /\ m \in Nat /\ m < h /\ h <= Len(dup) /\ Len(dup) \in Nat
  BY <1>1, ReducingIs
<1>3. /\ ChunksOK(chunks', m_chunk') /\ result' \in Elements \cup {None} /\ copy' \in Seq(Elements)
      /\ SameMarks(chunks, chunks', tops) /\ Kept(chunks, chunks', turns, Len(turns) - 1)
      /\ tops' \in Seq(Marks) /\ CallsOK(chunks', tops')
      /\ Heights(chunks', tops') = Heights(chunks, tops)
      /\ dup' = [dup EXCEPT ![h] = e]
  BY <1>1, <1>2, WriteIs
<1>4. /\ turns' \in Seq(Turns) /\ TurnsOK(chunks', tops', turns')
      /\ Heights(chunks', turns') = [Heights(chunks, turns) EXCEPT ![Len(Heights(chunks, turns))] = 0]
  BY <1>1, <1>2, <1>3, CodesAre, TurnedIs
<1>5. IInv'
  BY <1>3, <1>4, InvariantIs
<1>6. /\ Heights(chunks, tops) # <<>> /\ Heights(chunks, tops)[Len(Heights(chunks, tops))] = m
      /\ Heights(chunks, turns)[Len(Heights(chunks, turns))] = h
  BY <1>2, WorkingIs, CallsAre
<1> HIDE DEF h, m
<1>7. h \in m + 1 .. Len(dup)
  BY <1>2
<1>8. F!Store(e)
  BY <1>1, <1>3, <1>4, <1>6, <1>7, MarksAre DEF F!Store, F!Top
<1> QED BY <1>5, <1>8

LEMMA SetModeIs ==
  ASSUME IInv, NEW e \in Elements, SetMode(e)
  PROVE  IInv' /\ F!SetTop(e)
<1> DEFINE t == TopChunk
<1>1. /\ write(top, e) /\ top # NULL /\ tops # <<>>
      /\ tops' = tops /\ turns' = turns /\ result' = result /\ copy' = copy
  BY DEF SetMode, Reducing, Globalizing
<1>2. /\ chunks \in ChunkLists /\ Distinct(chunks) /\ ChunksOK(chunks, m_chunk)
      /\ t \in Nat /\ TopIs(chunks, t) /\ top = TopOf(chunks, t) /\ top \in Marks
      /\ FullHeight(chunks) = Len(dup) /\ dup \in Seq(Elements)
  BY StackIs
<1> HIDE DEF t
<1>3. Marked(chunks, top) /\ HeightIn(chunks, top) = Len(dup) /\ top \notin Codes
  <2>1. Marked(chunks, top)
    BY <1>2, TopMarked
  <2>2. top \notin Codes
    <3>1. PICK i, j \in Nat : Place(chunks, top, i, j)
      BY <2>1, <1>1 DEF Marked
    <3> QED BY <3>1, <1>2, PlaceHeight
  <2> QED BY <2>1, <2>2, <1>2, HeightBound DEF FullHeight
<1>4. /\ ChunksOK(chunks', m_chunk') /\ result' \in Elements \cup {None} /\ copy' \in Seq(Elements)
      /\ SameMarks(chunks, chunks', tops) /\ Kept(chunks, chunks', turns, Len(turns))
      /\ tops' \in Seq(Marks) /\ CallsOK(chunks', tops')
      /\ Heights(chunks', tops') = Heights(chunks, tops)
      /\ Len(dup) \in 1 .. Len(dup) /\ dup' = [dup EXCEPT ![Len(dup)] = e]
  BY <1>1, <1>3, WriteIs
<1>5. /\ turns' \in Seq(Turns) /\ TurnsOK(chunks', tops', turns')
      /\ Heights(chunks', turns') = Heights(chunks, turns)
  BY <1>1, <1>4, TurnsUnchanged
<1>6. IInv'
  BY <1>4, <1>5, InvariantIs
<1>7. Heights(chunks, tops) # <<>> /\ dup # <<>>
  BY <1>1, <1>4, WorkingIs
<1>8. F!SetTop(e)
  BY <1>1, <1>4, <1>5, <1>7, MarksAre DEF F!SetTop
<1> QED BY <1>6, <1>8

(* A call takes its own top element.                                        *)
LEMMA PoppedIs ==
  ASSUME IInv, Looping, pop, NEW q \in Codes, turn(q), tops' = tops, copy' = copy,
         Last(turns) \in Codes \/ Last(turns) = top
  PROVE  IInv' /\ F!Pop
<1> DEFINE t == TopChunk
<1>1. /\ chunks \in ChunkLists /\ Distinct(chunks) /\ t \in Nat /\ TopIs(chunks, t)
      /\ top = TopOf(chunks, t) /\ top \in Marks /\ tops \in Seq(Marks) /\ CallsOK(chunks, tops)
      /\ turns \in Seq(Turns) /\ TurnsOK(chunks, tops, turns)
      /\ FullHeight(chunks) = Len(dup) /\ dup \in Seq(Elements)
  BY StackIs
<1>2. /\ top # NULL /\ Heights(chunks, tops) # <<>> /\ tops # <<>>
      /\ Len(dup) > Heights(chunks, tops)[Len(Heights(chunks, tops))]
      /\ Heights(chunks, tops)[Len(Heights(chunks, tops))] = HeightIn(chunks, tops[Len(tops)])
  BY WorkingIs DEF Looping
<1>3. /\ ChunksOK(chunks', m_chunk') /\ t # 0 /\ Same(chunks, chunks', t)
      /\ Len(chunks'[t].m_stack) >= Len(chunks[t].m_stack) - 1
      /\ dup' = SubSeq(dup, 1, Len(dup) - 1)
      /\ result' = dup[Len(dup)] /\ result' \in Elements
  BY <1>2, PopStep
<1> HIDE DEF t
<1>4. chunks' \in ChunkLists /\ Distinct(chunks')
  BY <1>3 DEF ChunksOK
<1>5. /\ Len(turns) = Len(tops) /\ Len(tops) \in Nat \ {0} /\ Len(tops) \in 1 .. Len(tops)
      /\ Heights(chunks, turns) # <<>>
      /\ Heights(chunks, turns)[Len(Heights(chunks, turns))] = HeightIn(chunks, Last(turns))
  BY <1>2, CallsAre
<1>6. ASSUME NEW p, Marked(chunks, p), HeightIn(chunks, p) <= HeightIn(chunks, tops[Len(tops)])
      PROVE  Marked(chunks', p) /\ HeightIn(chunks', p) = HeightIn(chunks, p)
  <2>1. Marked(chunks, tops[Len(tops)])
    BY <1>1, <1>5 DEF CallsOK
  <2>2. HeightIn(chunks, p) \in Nat /\ HeightIn(chunks, tops[Len(tops)]) \in Nat /\ Len(dup) \in Nat
    BY <2>1, <1>1, <1>6, HeightBound, LenProperties
  <2>3. HeightIn(chunks, p) < FullHeight(chunks)
    BY <2>2, <1>1, <1>2, <1>6
  <2> QED BY <2>3, <1>1, <1>3, <1>4, <1>6, PopKeeps
<1>7. SameMarks(chunks, chunks', tops)
  <2>1. ASSUME NEW k \in 1 .. Len(tops)
        PROVE  Marked(chunks, tops[k]) /\ HeightIn(chunks, tops[k]) <= HeightIn(chunks, tops[Len(tops)])
    <3>1. Marked(chunks, tops[k])
      BY <1>1 DEF CallsOK
    <3>2. HeightIn(chunks, tops[k]) \in Nat
      BY <3>1, <1>1, HeightBound
    <3>3. k < Len(tops) \/ k = Len(tops)
      BY <1>5
    <3>4. HeightIn(chunks, tops[k]) <= HeightIn(chunks, tops[Len(tops)])
      BY <3>2, <3>3, <1>1, <1>5 DEF CallsOK
    <3> QED BY <3>1, <3>4
  <2> QED BY <2>1, <1>6 DEF SameMarks
<1>8. Kept(chunks, chunks', turns, Len(turns) - 1)
  <2>1. ASSUME NEW k \in 1 .. Len(turns) - 1, turns[k] \notin Codes
        PROVE  Marked(chunks, turns[k]) /\ HeightIn(chunks, turns[k]) <= HeightIn(chunks, tops[Len(tops)])
    <3>1. k \in 1 .. Len(turns) /\ Len(tops) \in 1 .. Len(turns) /\ k < Len(tops)
      BY <1>5
    <3> QED BY <2>1, <3>1, <1>1 DEF TurnsOK
  <2> QED BY <2>1, <1>6 DEF Kept, Means
<1>9. tops' \in Seq(Marks) /\ CallsOK(chunks', tops') /\ Heights(chunks', tops') = Heights(chunks, tops)
  BY <1>2, <1>7, CallsUnchanged
<1>10. /\ turns' \in Seq(Turns) /\ TurnsOK(chunks', tops', turns')
       /\ Heights(chunks', turns') = [Heights(chunks, turns) EXCEPT ![Len(Heights(chunks, turns))] = 0]
  <2>1. q \in Turns /\ HeightIn(chunks', q) = 0
    BY DEF Turns, HeightIn
  <2> QED BY <2>1, <1>2, <1>7, <1>8, TurnedIs
<1>11. IInv'
  <2>1. result' \in Elements \cup {None} /\ copy' \in Seq(Elements)
    BY <1>3 DEF IInv, TypeOK
  <2> QED BY <2>1, <1>3, <1>9, <1>10, InvariantIs
<1>12. HeightIn(chunks, Last(turns)) \in {0, Len(dup)}
  <2>1. CASE Last(turns) \in Codes
    BY <2>1 DEF HeightIn
  <2>2. CASE Last(turns) = top
    <3>1. Marked(chunks, top)
      BY <1>1, TopMarked
    <3> QED BY <2>2, <3>1, <1>1, HeightBound DEF FullHeight
  <2> QED BY <2>1, <2>2
<1>13. F!Pop
  BY <1>2, <1>3, <1>5, <1>9, <1>10, <1>12, MarksAre DEF F!Pop, F!Working, F!Top
<1> QED BY <1>11, <1>13

LEMMA EvaluatedIs ==
  ASSUME IInv, Evaluated
  PROVE  IInv' /\ F!Pop
<1>1. Reducing /\ top = Last(turns) /\ pop /\ turn(NULL) /\ tops' = tops /\ copy' = copy
  BY DEF Evaluated
<1>2. Looping
  BY <1>1, ReducingIs
<1> QED BY <1>1, <1>2, CodesAre, PoppedIs

LEMMA PopTermIs ==
  ASSUME IInv, PopTerm
  PROVE  IInv' /\ F!Pop
<1>1. Looping /\ Last(turns) = ToPop /\ pop /\ turn(Popped) /\ tops' = tops /\ copy' = copy
  BY DEF PopTerm
<1> QED BY <1>1, CodesAre, PoppedIs

LEMMA PopMarkedIs ==
  ASSUME IInv, PopMarked
  PROVE  IInv' /\ F!PopNothing
<1>1. tops' = tops /\ turns' = turns /\ copy' = copy /\ pop /\ tops = <<>>
  BY DEF PopMarked
<1>2. top = NULL /\ dup = <<>> /\ Heights(chunks, tops) = <<>>
  BY <1>1, WorkingIs
<1>3. result' = None /\ chunks' = chunks /\ m_chunk' = m_chunk
  BY <1>1, <1>2 DEF pop
<1>4. dup' = dup
  BY <1>3 DEF dup
<1>5. IInv'
  <2>1. result' \in Elements \cup {None} /\ copy' \in Seq(Elements)
    BY <1>1, <1>3 DEF IInv, TypeOK
  <2> QED BY <2>1, <1>1, <1>3, StackIs, InvariantIs
<1>6. Heights(chunks', tops') = Heights(chunks, tops) /\ Heights(chunks', turns') = Heights(chunks, turns)
  BY <1>1, <1>3
<1>7. F!PopNothing
  BY <1>1, <1>2, <1>3, <1>4, <1>6, MarksAre DEF F!PopNothing
<1> QED BY <1>5, <1>7

LEMMA GlobalizedIs ==
  ASSUME IInv, Globalized
  PROVE  IInv' /\ UNCHANGED F!vars
<1>1. /\ tops # <<>> /\ Last(turns) = Popped /\ turn(ToPop) /\ tops' = tops
      /\ chunks' = chunks /\ m_chunk' = m_chunk /\ result' = result /\ copy' = copy
  BY DEF Globalized, Globalizing
<1>2. AllKept(chunks, chunks') /\ dup' = dup
  BY <1>1 DEF AllKept, dup
<1>3. SameMarks(chunks, chunks', tops) /\ Kept(chunks, chunks', turns, Len(turns) - 1)
  <2>1. Len(turns) - 1 \in 0 .. Len(turns)
    BY <1>1, CallsAre
  <2> QED BY <2>1, <1>2, AllKeptIs
<1>4. tops' \in Seq(Marks) /\ CallsOK(chunks', tops') /\ Heights(chunks', tops') = Heights(chunks, tops)
  BY <1>1, <1>3, CallsUnchanged
<1> DEFINE g == Heights(chunks, turns)
<1>5. /\ turns' \in Seq(Turns) /\ TurnsOK(chunks', tops', turns')
      /\ Heights(chunks', turns') = [g EXCEPT ![Len(g)] = 0]
  BY <1>1, <1>3, CodesAre, TurnedIs
<1>6. Heights(chunks', turns') = g
  <2>1. g[Len(g)] = 0
    BY <1>1, CallsAre, CodesAre
  <2>2. g = [k \in DOMAIN g |-> g[k]]
    BY DEF Heights
  <2> HIDE DEF g
  <2>3. [g EXCEPT ![Len(g)] = 0] = g
    BY <2>1, <2>2
  <2> QED BY <2>3, <1>5
<1>7. IInv'
  <2>1. result' \in Elements \cup {None} /\ copy' \in Seq(Elements) /\ ChunksOK(chunks', m_chunk')
    BY <1>1 DEF IInv, TypeOK
  <2> QED BY <2>1, <1>4, <1>5, InvariantIs
<1>8. UNCHANGED F!vars
  BY <1>1, <1>2, <1>4, <1>6, MarksAre DEF F!vars
<1> QED BY <1>7, <1>8

LEMMA ReturnsIs ==
  ASSUME IInv, Returns
  PROVE  IInv' /\ F!Return
<1> DEFINE t == TopChunk
<1>1. /\ chunks \in ChunkLists /\ Distinct(chunks) /\ ChunksOK(chunks, m_chunk)
      /\ t \in Nat /\ TopIs(chunks, t)
      /\ top = TopOf(chunks, t) /\ tops \in Seq(Marks) /\ CallsOK(chunks, tops)
      /\ turns \in Seq(Turns) /\ TurnsOK(chunks, tops, turns)
  BY StackIs
<1> HIDE DEF t
<1>2. /\ tops # <<>> /\ top = Last(tops) /\ top = tops[Len(tops)] /\ tops' = Front(tops)
      /\ Last(turns) \in {NULL, ToPop} /\ turns' = Front(turns)
      /\ chunks' = chunks /\ m_chunk' = m_chunk /\ result' = result /\ copy' = copy
  BY DEF Returns, Last
<1>3. CallsOK(chunks, Front(tops))
  BY <1>1, <1>2, CallReturned
<1>4. Front(tops) \in Seq(Marks)
  BY <1>1, <1>2, FrontOf
<1>5. turns # <<>> /\ Front(turns) \in Seq(Turns) /\ TurnsOK(chunks, Front(tops), Front(turns))
  BY <1>1, <1>2, TurnsReturned
<1>6. IInv'
  <2>1. result' \in Elements \cup {None} /\ copy' \in Seq(Elements)
    BY <1>2 DEF IInv, TypeOK
  <2> QED BY <2>1, <1>1, <1>2, <1>3, <1>4, <1>5, InvariantIs
<1>7. tops \in Seq(Turns) /\ Known(chunks, tops) /\ Known(chunks, turns)
  BY CallsAre
<1>8. Heights(chunks, Front(tops)) = SubSeq(Heights(chunks, tops), 1, Len(Heights(chunks, tops)) - 1)
  BY <1>1, <1>2, <1>7, HeightsReturned
<1>9. Heights(chunks, Front(turns)) = SubSeq(Heights(chunks, turns), 1, Len(Heights(chunks, turns)) - 1)
  BY <1>1, <1>5, <1>7, HeightsReturned
<1>10. Heights(chunks, tops) # <<>> /\ Len(dup) = Heights(chunks, tops)[Len(Heights(chunks, tops))]
  BY <1>2, WorkingIs
<1>11. Heights(chunks, turns)[Len(Heights(chunks, turns))] = 0
  BY <1>2, CallsAre, CodesAre
<1>12. dup' = dup
  BY <1>2 DEF dup
<1>13. F!Return
  BY <1>2, <1>8, <1>9, <1>10, <1>11, <1>12, MarksAre DEF F!Return, F!Top
<1> QED BY <1>6, <1>13

LEMMA CleanupIs ==
  ASSUME IInv, Cleanup
  PROVE  IInv' /\ UNCHANGED F!vars
<1>1. cleanup /\ tops' = tops /\ turns' = turns /\ result' = result /\ copy' = copy
  BY DEF Cleanup
<1>2. ChunksOK(chunks', m_chunk') /\ Grown(chunks, chunks', TopChunk) /\ dup' = dup
  BY <1>1, CleanupStep
<1>3. SameMarks(chunks, chunks', tops) /\ Kept(chunks, chunks', turns, Len(turns))
  <2>1. Len(turns) \in 0 .. Len(turns)
    BY CallsAre
  <2> QED BY <2>1, <1>2, GrownMarks, AllKeptIs
<1>4. tops = <<>> => dup' = <<>>
  BY <1>2, WorkingIs
<1>5. tops' \in Seq(Marks) /\ CallsOK(chunks', tops') /\ Heights(chunks', tops') = Heights(chunks, tops)
  BY <1>1, <1>3, <1>4, CallsUnchanged
<1>6. turns' \in Seq(Turns) /\ TurnsOK(chunks', tops', turns')
      /\ Heights(chunks', turns') = Heights(chunks, turns)
  BY <1>1, <1>3, TurnsUnchanged
<1>7. IInv'
  <2>1. result' \in Elements \cup {None} /\ copy' \in Seq(Elements)
    BY <1>1 DEF IInv, TypeOK
  <2> QED BY <2>1, <1>2, <1>5, <1>6, InvariantIs
<1>8. UNCHANGED F!vars
  BY <1>1, <1>2, <1>5, <1>6, MarksAre DEF F!vars
<1> QED BY <1>7, <1>8

LEMMA MarkEvalStackIs ==
  ASSUME IInv, MarkEvalStack
  PROVE  IInv' /\ F!Scan
<1>1. /\ copy' = dup /\ chunks' = chunks /\ m_chunk' = m_chunk
      /\ tops' = tops /\ turns' = turns /\ result' = result
  BY DEF MarkEvalStack
<1>2. dup \in Seq(Elements) /\ result' \in Elements \cup {None}
  BY <1>1, StackIs DEF IInv, TypeOK
<1>3. IInv'
  BY <1>1, <1>2, StackIs, InvariantIs
<1>4. dup' = dup
  BY <1>1 DEF dup
<1>5. Heights(chunks', tops') = Heights(chunks, tops) /\ Heights(chunks', turns') = Heights(chunks, turns)
  BY <1>1
<1>6. F!Scan
  BY <1>1, <1>4, <1>5, MarksAre DEF F!Scan
<1> QED BY <1>3, <1>6

LEMMA StepIs ==
  ASSUME IInv, [ChunkStackNext]_stackVars
  PROVE  IInv' /\ [F!Next]_F!vars
<1>1. ASSUME NEW e \in Elements, FullReduce(e) PROVE IInv' /\ F!Next
  BY <1>1, CodesAre, EnterIs DEF FullReduce, F!Next
<1>2. ASSUME NEW e \in Elements, Globalize(e) PROVE IInv' /\ F!Next
  BY <1>2, CodesAre, EnterIs DEF Globalize, F!Next
<1>3. ASSUME NEW e \in Elements, Reduced(e) PROVE IInv' /\ F!Next
  BY <1>3, ReducedIs DEF F!Next
<1>4. ASSUME NEW e \in Elements, SetMode(e) PROVE IInv' /\ F!Next
  BY <1>4, SetModeIs DEF F!Next
<1>5. ASSUME NEW e \in Elements, PushOn(e) PROVE IInv' /\ F!Next
  BY <1>5, PushOnIs DEF F!Next
<1>6. CASE Turn
  BY <1>6, TurnIs DEF F!Next
<1>7. CASE Evaluated
  BY <1>7, EvaluatedIs DEF F!Next
<1>8. CASE PopTerm
  BY <1>8, PopTermIs DEF F!Next
<1>9. CASE Globalized
  BY <1>9, GlobalizedIs
<1>10. CASE Returns
  BY <1>10, ReturnsIs DEF F!Next
<1>11. CASE PopMarked
  BY <1>11, PopMarkedIs DEF F!Next
<1>12. CASE Cleanup
  BY <1>12, CleanupIs
<1>13. CASE MarkEvalStack
  BY <1>13, MarkEvalStackIs DEF F!Next
<1>14. CASE UNCHANGED stackVars
  <2>1. /\ chunks' = chunks /\ m_chunk' = m_chunk /\ tops' = tops /\ turns' = turns
        /\ result' = result /\ copy' = copy
    BY <1>14 DEF stackVars
  <2>2. IInv'
    <3>1. result' \in Elements \cup {None} /\ copy' \in Seq(Elements)
      BY <2>1 DEF IInv, TypeOK
    <3> QED BY <3>1, <2>1, StackIs, InvariantIs
  <2>3. dup' = dup /\ Heights(chunks', tops') = Heights(chunks, tops)
        /\ Heights(chunks', turns') = Heights(chunks, turns)
    BY <2>1 DEF dup
  <2>4. UNCHANGED F!vars
    BY <2>1, <2>3, MarksAre DEF F!vars
  <2> QED BY <2>2, <2>4
<1> QED BY <1>1, <1>2, <1>3, <1>4, <1>5, <1>6, <1>7, <1>8, <1>9, <1>10, <1>11, <1>12, <1>13, <1>14
        DEF ChunkStackNext

LEMMA InitIs ==
  ASSUME ChunkStackInit
  PROVE  IInv /\ F!Init
<1>1. PICK a \in Addresses : chunks = <<[at |-> a, m_stack |-> <<>>]>>
  BY DEF ChunkStackInit
<1>2. m_chunk = 1 /\ tops = <<>> /\ turns = <<>> /\ result = None /\ copy = <<>>
  BY DEF ChunkStackInit
<1>3. /\ chunks \in ChunkLists /\ Len(chunks) = 1 /\ DOMAIN chunks = 1 .. 1
      /\ chunks[1].m_stack = <<>> /\ Len(<<>>) = 0
  BY <1>1 DEF ChunkLists
<1>4. ChunksOK(chunks, m_chunk)
  BY <1>2, <1>3, ChunkAssumption DEF ChunksOK, Distinct
<1>5. TopIs(chunks, 0)
  BY <1>3 DEF TopIs
<1>6. FlattenSeq(Stacks(chunks)) = <<>>
  BY <1>3, <1>5, DupIs
<1>7. CallsOK(chunks, tops)
  BY <1>2, <1>6 DEF CallsOK
<1>13. TurnsOK(chunks, tops, turns)
  BY <1>2 DEF TurnsOK
<1>8. TypeOK
  <2>1. \A i \in DOMAIN chunks : Len(chunks[i].m_stack) <= ChunkSize
    BY <1>3, ChunkAssumption
  <2>2. tops \in Seq(Marks) /\ turns \in Seq(Turns) /\ copy \in Seq(Elements) /\ m_chunk \in DOMAIN chunks
    BY <1>2, <1>3
  <2> QED BY <2>1, <2>2, <1>2, <1>3 DEF TypeOK
<1>9. dup = <<>>
  BY <1>6 DEF dup, Stacks
<1>10. IInv
  BY <1>4, <1>7, <1>8, <1>13 DEF IInv
<1>11. Heights(chunks, tops) = <<>> /\ Heights(chunks, turns) = <<>>
  BY <1>2, <1>10, WorkingIs
<1>12. F!Init
  BY <1>2, <1>9, <1>11, MarksAre DEF F!Init
<1> QED BY <1>10, <1>12

(* What stack.h and its users rely on: chunks behind the current one are    *)
(* empty, no two chunks share an address, and the addresses that the calls  *)
(* hold are places of elements: what a call found is not above what the     *)
(* next one found, and what it reduces is of its own part (stack.h:63-110,  *)
(* term.h:134, 141, 223).                                                   *)
THEOREM Inductive == ChunkStackSpec => []IInv
<1>1. ChunkStackInit => IInv
  BY InitIs
<1>2. IInv /\ [ChunkStackNext]_stackVars => IInv'
  BY StepIs
<1> QED BY <1>1, <1>2, PTL DEF ChunkStackSpec

(* Types, and no chunk ever holds more elements than it has room for, with  *)
(* m_chunk one of the chunks, also after cleanup (stack.h:63-76, 206-220).  *)
THEOREM TypeCorrect == ChunkStackSpec => []TypeOK
<1>1. IInv => TypeOK
  BY DEF IInv
<1> QED BY <1>1, Inductive, PTL

(* The list of chunks is one stack, and the address of its top tells every  *)
(* call when its own elements are used up: the loops of FullReduce and      *)
(* Globalize end exactly when the stack is as high as it was found, and the *)
(* address that FullReduce saved before Reduce is still that of the element *)
(* in which it stores the result, whatever was pushed on, moved to other    *)
(* chunks, popped and cleaned up in between (stack.h:63-110, 206-220,       *)
(* term.h:134-195, 221-238).                                                *)
THEOREM StackIsOneSequence == ChunkStackSpec => IsFrameStack
<1>1. ChunkStackInit => F!Init
  BY InitIs
<1>2. IInv /\ [ChunkStackNext]_stackVars => [F!Next]_F!vars
  BY StepIs
<1> QED BY <1>1, <1>2, Inductive, PTL DEF ChunkStackSpec, IsFrameStack, F!Spec
=============================================================================
