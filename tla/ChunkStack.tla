------------------------------ MODULE ChunkStack ------------------------------
(***************************************************************************)
(* The evaluation stack (stack.h): a list of chunks of fixed size, and the *)
(* way Term::FullReduce and Term::Globalize use it.  A call remembers the  *)
(* stack by the address of its top element and has finished when that      *)
(* address is the top again (term.h:134, 141, 223, 229).  FullReduce also  *)
(* keeps the address of the element that it reduces, and stores the result *)
(* through it when Reduce returns, whatever Reduce put on top              *)
(* (term.h:173).  The collector scans the stack and frees chunks that are  *)
(* not in use while such calls are under way.                              *)
(*                                                                         *)
(* The links m_prev and m_next are the order of the sequence `chunks'.  A  *)
(* chunk has an address; a freed one may be allocated again, anywhere.     *)
(***************************************************************************)
EXTENDS Integers, Sequences, FiniteSetsExt, SequencesExt

CONSTANTS Elements,     \* what is stacked
          None,         \* T(), returned by a pop of the empty stack
          ChunkSize,    \* Config::stack_chunk_size
          Addresses,    \* where malloc may place a chunk
          MaxHeight,    \* bound: elements on the stack
          MaxCalls      \* bound: nested calls

ASSUME ChunkAssumption == ChunkSize \in Nat \ {0}

VARIABLES chunks,   \* the list of chunks, each an address and its elements
          m_chunk,  \* the current one
          tops,     \* stack_top of every active call: NULL, or a chunk and a place in it
          turns,    \* where every active call is in its loop, see below
          result,   \* of the last pop
          copy      \* what the collector saw at its last scan

stackVars == <<chunks, m_chunk, tops, turns, result, copy>>

NULL == <<0, 0>>

(* A turn of FullReduce is NULL until the loop reads `top' (term.h:141),   *)
(* and then that address.  One of Globalize is ToPop at the loop's test    *)
(* and Popped while the term that it popped is globalized.                 *)
ToPop == <<1, 0>>
Popped == <<2, 0>>
Codes == {NULL, ToPop, Popped}

ChunkStackInit ==
  /\ \E a \in Addresses : chunks = <<[at |-> a, m_stack |-> <<>>]>>
  /\ m_chunk = 1
  /\ tops = <<>> /\ turns = <<>> /\ result = None /\ copy = <<>>

-----------------------------------------------------------------------------
Full(i) == Len(chunks[i].m_stack) = ChunkSize
Empty(i) == chunks[i].m_stack = <<>>

(* Chunk::push goes on to the next chunk while this one is full.  The      *)
(* index behind the list stands for a new chunk.                           *)
PushChunk == Min({i \in m_chunk .. Len(chunks) : ~Full(i)} \cup {Len(chunks) + 1})

(* Chunk::pop, peek and top go back to the previous chunk while this       *)
(* one is empty; 0 when there is none.                                     *)
TopChunk == Max({i \in 1 .. m_chunk : ~Empty(i)} \cup {0})

top == IF TopChunk = 0 THEN NULL
       ELSE <<chunks[TopChunk].at, Len(chunks[TopChunk].m_stack)>>

push_KeepsChunk(e) ==
  \/ /\ PushChunk <= Len(chunks)
     /\ chunks' = [chunks EXCEPT ![PushChunk].m_stack = Append(@, e)]
     /\ m_chunk' = m_chunk
  \/ /\ PushChunk > Len(chunks)
     /\ \E a \in Addresses \ {chunks[i].at : i \in DOMAIN chunks} :
          chunks' = Append(chunks, [at |-> a, m_stack |-> <<e>>])
     /\ m_chunk' = m_chunk

push(e) ==
  /\ \/ /\ PushChunk <= Len(chunks)
        /\ chunks' = [chunks EXCEPT ![PushChunk].m_stack = Append(@, e)]
     \/ /\ PushChunk > Len(chunks)
        /\ \E a \in Addresses \ {chunks[i].at : i \in DOMAIN chunks} :
             chunks' = Append(chunks, [at |-> a, m_stack |-> <<e>>])
  /\ m_chunk' = PushChunk

pop ==
  \/ /\ top # NULL
     /\ chunks' = [chunks EXCEPT ![TopChunk].m_stack = Front(@)]
     /\ m_chunk' = TopChunk
     /\ result' = Last(chunks[TopChunk].m_stack)
  \/ top = NULL /\ result' = None /\ UNCHANGED <<chunks, m_chunk>>

(* The chunk in which p is an address.                                     *)
ChunkOf(p) == CHOOSE i \in DOMAIN chunks : chunks[i].at = p[1]

write(p, e) ==
  /\ chunks' = [chunks EXCEPT ![ChunkOf(p)].m_stack = [@ EXCEPT ![p[2]] = e]]
  /\ UNCHANGED m_chunk

(* Chunks behind the current one are freed, but for the first of them when *)
(* the current one is full.                                                *)
cleanup ==
  LET keep == IF m_chunk < Len(chunks) /\ Full(m_chunk) THEN m_chunk + 1 ELSE m_chunk
  IN  chunks' = SubSeq(chunks, 1, keep) /\ UNCHANGED m_chunk

(* All elements, from the first chunk to the last.                         *)
dup == FlattenSeq([i \in DOMAIN chunks |-> chunks[i].m_stack])

-----------------------------------------------------------------------------
(* The calls.  The loop of one goes on while the top is not the address    *)
(* that was found at the start.                                            *)
Height == Len(dup)
Looping == tops # <<>> /\ top # Last(tops)
Reducing == tops # <<>> /\ Last(turns) \notin Codes
Globalizing == tops # <<>> /\ Last(turns) = Popped

turn(p) == turns' = [turns EXCEPT ![Len(turns)] = p]

(* A term is pushed by a new call, whose loop starts at p.                 *)
Enter(e, p) ==
  /\ Len(tops) < MaxCalls /\ Height < MaxHeight
  /\ tops' = Append(tops, top) /\ turns' = Append(turns, p)
  /\ push(e)
  /\ UNCHANGED <<result, copy>>

FullReduce(e) == (tops = <<>> \/ Reducing) /\ Enter(e, NULL)

(* Application::Globalize makes a global copy, whose construction may      *)
(* globalize again (term.h:242, 600, 829).                                 *)
Globalize(e) == (Reducing \/ Globalizing) /\ top # NULL /\ Enter(e, ToPop)

Turn ==
  /\ Looping /\ Last(turns) = NULL
  /\ turn(top)
  /\ UNCHANGED <<chunks, m_chunk, tops, result, copy>>

Reduced(e) ==
  /\ Reducing
  /\ write(Last(turns), e) /\ turn(NULL)
  /\ UNCHANGED <<tops, result, copy>>

(* A lazy function, or an interrupt, sets the mode of the element on top.  *)
SetMode(e) ==
  /\ Reducing \/ Globalizing
  /\ top # NULL
  /\ write(top, e)
  /\ UNCHANGED <<tops, turns, result, copy>>

PushOn(e) ==
  /\ Reducing \/ Globalizing
  /\ Height < MaxHeight
  /\ push(e) /\ UNCHANGED <<tops, turns, result, copy>>

Evaluated == Reducing /\ top = Last(turns) /\ pop /\ turn(NULL) /\ UNCHANGED <<tops, copy>>

PopTerm ==
  /\ Looping /\ Last(turns) = ToPop
  /\ pop /\ turn(Popped) /\ UNCHANGED <<tops, copy>>

Globalized ==
  /\ Globalizing
  /\ turn(ToPop) /\ UNCHANGED <<chunks, m_chunk, tops, result, copy>>

Returns ==
  /\ tops # <<>> /\ top = Last(tops) /\ Last(turns) \in {NULL, ToPop}
  /\ tops' = Front(tops) /\ turns' = Front(turns)
  /\ UNCHANGED <<chunks, m_chunk, result, copy>>

(* Nobody but the collector pops its empty stack (gc_marksweep.h:407).     *)
PopMarked == tops = <<>> /\ pop /\ UNCHANGED <<tops, turns, copy>>

(* AllocMB found no memory; DoGC marks what is under evaluation.           *)
Cleanup == cleanup /\ UNCHANGED <<tops, turns, result, copy>>
MarkEvalStack == copy' = dup /\ UNCHANGED <<chunks, m_chunk, tops, turns, result>>

ChunkStackNext ==
  \/ \E e \in Elements : FullReduce(e) \/ Globalize(e) \/ Reduced(e) \/ SetMode(e) \/ PushOn(e)
  \/ Turn \/ Evaluated \/ PopTerm \/ Globalized \/ Returns \/ PopMarked \/ Cleanup \/ MarkEvalStack

ChunkStackSpec == ChunkStackInit /\ [][ChunkStackNext]_stackVars

-----------------------------------------------------------------------------
(* How many elements there were when p was the top.                        *)
HeightOf(p) ==
  IF p \in Codes THEN 0
  ELSE Len(FlattenSeq([j \in 1 .. ChunkOf(p) - 1 |-> chunks[j].m_stack])) + p[2]

F == INSTANCE FrameStack WITH
       stack <- dup,
       marks <- [i \in DOMAIN tops |-> HeightOf(tops[i])],
       turns <- [i \in DOMAIN turns |-> HeightOf(turns[i])]

(* The chunks are one sequence, and the addresses identify heights: a call *)
(* of FullReduce or Globalize never pops an element of another, stores its *)
(* results in the elements that it reduced and returns with the stack as   *)
(* high as it found it, although elements move to other chunks and chunks  *)
(* are freed in between (stack.h:63-110, 206-220, term.h:134-195,          *)
(* 221-238).                                                               *)
IsFrameStack == F!Spec
=============================================================================
