------------------------------ MODULE RootStack ------------------------------
(***************************************************************************)
(* The roots of one thread (ptr.h): every local pointer to a term is       *)
(* linked, through its field m_prev, into a list that starts at            *)
(* term_stack and that the collector follows.  The list is no stack: a     *)
(* pointer may be linked below the newest one, and a pointer is unlinked   *)
(* only when it is the newest or the one below it.  It works because of    *)
(* the order in which C++ constructs and destroys: temporaries at the end  *)
(* of their expression, locals at the end of their function, in reverse;   *)
(* what a function returns is constructed first and outlives all of them.  *)
(*                                                                         *)
(* The constructors are told apart by what they do to the list:            *)
(*   push   T_tptr(T* ), T_ptr(T* ), T_ref(T& ), copies of a T_ref or      *)
(*          T_ptr to another class;                                        *)
(*   swap   from a temporary: the new pointer is linked below it;          *)
(*   alias  T_ref(const T_ref& ): not linked.                              *)
(***************************************************************************)
EXTENDS Integers, FiniteSets, Sequences, SequencesExt

CONSTANTS Ptrs,      \* addresses of pointers on the C++ stack, a set of naturals
          StackEnd,  \* the first pointer of the thread, lives as long as it
          NoPtr,     \* NULL
          MaxFrames  \* bound: nested function calls

ASSUME PtrsAssumption ==
  IsFiniteSet(Ptrs) /\ Ptrs \subseteq Nat /\ StackEnd \in Ptrs /\ NoPtr \notin Ptrs

VARIABLES term_stack,  \* the newest linked pointer
          m_prev,      \* the pointer below it
          frames,      \* per function call its locals and temporaries, oldest first
          aliases      \* which of them were made by `alias'

rootVars == <<term_stack, m_prev, frames, aliases>>

RootStackInit ==
  /\ term_stack = StackEnd
  /\ m_prev = [p \in Ptrs |-> NoPtr]
  /\ frames = <<[locals |-> <<StackEnd>>, temps |-> <<>>, phase |-> "run"]>>
  /\ aliases = {}

Phases == {"run",      \* it may construct more
           "end",      \* the temporaries of an expression are destroyed
           "return"}   \* the result exists: all of its pointers are destroyed

Objects(f) == Range(f.locals) \cup Range(f.temps)
Live == UNION {Objects(frames[d]) : d \in DOMAIN frames}

depth == Len(frames)
Current == frames[depth]
Set(d, field, s) == [frames EXCEPT ![d][field] = s]

(* An address for a new pointer.                                           *)
Free == Ptrs \ Live
Fresh == CHOOSE p \in Free : \A q \in Free : p <= q

-----------------------------------------------------------------------------
(* T_stackable.                                                            *)
push_root(p) ==
  /\ term_stack' = p
  /\ m_prev' = [m_prev EXCEPT ![p] = term_stack]
  /\ UNCHANGED aliases

swap_root_Unlinked(r, p) ==
  /\ m_prev' = [m_prev EXCEPT ![p] = m_prev[r]]
  /\ UNCHANGED <<term_stack, aliases>>

(* p is linked below r.                                                    *)
swap_root(r, p) ==
  /\ m_prev' = [m_prev EXCEPT ![p] = m_prev[r], ![r] = p]
  /\ UNCHANGED <<term_stack, aliases>>

pop_root_TopOnly(p) ==
  /\ term_stack' = m_prev[term_stack]
  /\ m_prev' = [m_prev EXCEPT ![p] = NoPtr]

(* The newest one is unlinked, or else p is taken to be below it.          *)
pop_root(p) ==
  \/ /\ term_stack = p
     /\ term_stack' = m_prev[p]
     /\ m_prev' = [m_prev EXCEPT ![p] = NoPtr]
  \/ /\ term_stack # p
     /\ m_prev' = [m_prev EXCEPT ![term_stack] = m_prev[p], ![p] = NoPtr]
     /\ UNCHANGED term_stack

(* ~T_stackable: whoever has none below it is not unlinked.                *)
destroy(p) ==
  /\ \/ m_prev[p] # NoPtr /\ pop_root(p)
     \/ m_prev[p] = NoPtr /\ UNCHANGED <<term_stack, m_prev>>
  /\ aliases' = aliases \ {p}

-----------------------------------------------------------------------------
(* The program.                                                            *)
MayConstruct == Current.phase = "run" /\ Free # {}

(* The result of the expression so far.                                    *)
LastTemp == Last(Current.temps)

(* A temporary is made.  No expression of the library makes one from       *)
(* another temporary of the same expression.                               *)
Temp ==
  /\ MayConstruct
  /\ push_root(Fresh)
  /\ frames' = Set(depth, "temps", Append(Current.temps, Fresh))

(* A local is declared; the temporaries of its initializer are destroyed   *)
(* thereafter.                                                             *)
Declare(p) ==
  frames' = [frames EXCEPT ![depth] = [Current EXCEPT !.locals = Append(@, p),
                                                !.phase = "end"]]

(* The first function of a thread declares no more than StackEnd.          *)
MayDeclare == MayConstruct /\ depth > 1

Let == MayDeclare /\ push_root(Fresh) /\ Declare(Fresh)

LetFromTemp ==
  /\ MayDeclare /\ Current.temps # <<>>
  /\ swap_root(LastTemp, Fresh) /\ Declare(Fresh)

LetAlias ==
  /\ MayDeclare /\ Current.locals # <<>> /\ Current.temps = <<>>
  /\ Declare(Fresh)
  /\ aliases' = aliases \cup {Fresh}
  /\ UNCHANGED <<term_stack, m_prev>>

(* The end of an expression statement.                                     *)
EndExpression ==
  /\ Current.phase = "run" /\ Current.temps # <<>>
  /\ frames' = Set(depth, "phase", "end")
  /\ UNCHANGED <<term_stack, m_prev, aliases>>

DestroyTemp ==
  /\ Current.phase \in {"end", "return"} /\ Current.temps # <<>>
  /\ destroy(LastTemp)
  /\ frames' = Set(depth, "temps", Front(Current.temps))

NextStatement ==
  /\ Current.phase = "end" /\ Current.temps = <<>>
  /\ frames' = Set(depth, "phase", "run")
  /\ UNCHANGED <<term_stack, m_prev, aliases>>

Call ==
  /\ Current.phase = "run" /\ depth < MaxFrames
  /\ frames' = Append(frames, [locals |-> <<>>, temps |-> <<>>, phase |-> "run"])
  /\ UNCHANGED <<term_stack, m_prev, aliases>>

(* What is returned is a temporary of the caller's expression.             *)
Hand(p, temps) ==
  frames' = [frames EXCEPT ![depth - 1].temps = Append(@, p),
                           ![depth] = [Current EXCEPT !.temps = temps,
                                                !.phase = "return"]]

(* return x, for a local or any term;                                      *)
ReturnTerm ==
  /\ depth > 1 /\ MayConstruct
  /\ push_root(Fresh) /\ Hand(Fresh, Current.temps)

(* return of a temporary, which is copied                                  *)
ReturnTemp ==
  /\ depth > 1 /\ MayConstruct /\ Current.temps # <<>>
  /\ swap_root(LastTemp, Fresh) /\ Hand(Fresh, Current.temps)

(* or was constructed in the place of the result in the first place.       *)
ReturnElided ==
  /\ depth > 1 /\ Current.phase = "run" /\ Current.temps # <<>>
  /\ Hand(LastTemp, Front(Current.temps))
  /\ UNCHANGED <<term_stack, m_prev, aliases>>

(* A function that returns no term.                                        *)
ReturnVoid ==
  /\ depth > 1 /\ Current.phase = "run"
  /\ frames' = Set(depth, "phase", "return")
  /\ UNCHANGED <<term_stack, m_prev, aliases>>

DestroyLocal ==
  /\ Current.phase = "return" /\ Current.temps = <<>> /\ Current.locals # <<>>
  /\ destroy(Last(Current.locals))
  /\ frames' = Set(depth, "locals", Front(Current.locals))

Returned ==
  /\ Current.phase = "return" /\ Objects(Current) = {}
  /\ frames' = Front(frames)
  /\ UNCHANGED <<term_stack, m_prev, aliases>>

RootStackNext ==
  \/ Temp \/ Let \/ LetFromTemp \/ LetAlias
  \/ EndExpression \/ DestroyTemp \/ NextStatement
  \/ Call \/ ReturnTerm \/ ReturnTemp \/ ReturnElided
  \/ ReturnVoid \/ DestroyLocal \/ Returned

RootStackSpec == RootStackInit /\ [][RootStackNext]_rootVars

-----------------------------------------------------------------------------
(* The list as the collector walks it (gc_marksweep.h:394).                *)
Length == Cardinality(Ptrs)
Walk ==
  LET at[n \in 0 .. Length] ==
        IF n = 0 THEN term_stack
        ELSE IF at[n - 1] = NoPtr THEN NoPtr ELSE m_prev[at[n - 1]]
  IN  at

(* The collector finds every pointer that is alive, and none that is not:  *)
(* the list ends, and it holds the pointers between their construction and *)
(* their destruction, whatever the nesting of functions and expressions    *)
(* (ptr.h:47-84).                                                          *)
RootsTraced ==
  /\ Walk[Length] = NoPtr
  /\ Range(Walk) \ {NoPtr} = Live \ aliases

(* Whose turn it is to be destroyed.                                       *)
Dying ==
  IF Current.phase \in {"end", "return"} /\ Current.temps # <<>> THEN {LastTemp}
  ELSE IF Current.phase = "return" /\ Current.locals # <<>> THEN {Last(Current.locals)}
  ELSE {}

(* The assertion of pop (ptr.h:73-74): a pointer that has to be unlinked   *)
(* is the newest one or the one below it.                                  *)
TopTwo ==
  \A p \in Dying : m_prev[p] # NoPtr => p = term_stack \/ p = m_prev[term_stack]
=============================================================================
