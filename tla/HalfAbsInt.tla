----------------------------- MODULE HalfAbsInt -----------------------------
(***************************************************************************)
(* The engine of the abstract interpretations, HalfAbsInt::solve()         *)
(* (include/otawa/dfa/hai/HalfAbsInt.h), with its two ways of handling a   *)
(* loop: DefaultFixPoint, and FirstUnrollingFixPoint, which keeps the      *)
(* first iteration apart.  The abstract states are a parameter.  A turn of *)
(* the main loop is two steps, the input and the output of a block, as in  *)
(* the code.  Partial analyses (HAI_BYPASS_..., HAI_DONT_ENTER) are out.   *)
(***************************************************************************)
EXTENDS Integers, Sequences
LOCAL INSTANCE SequencesExt
LOCAL INSTANCE FiniteSetsExt

CONSTANTS Blocks,      \* basic blocks, of all CFGs
          NoBlock,     \* the null BasicBlock *
          Bottom,      \* the problem: bottom()
          First,       \* entry()
          Lub(_, _),
          Update(_, _, _),  \* update(): what the code is, a block, a state
          EnterLoop(_),     \* enterContext() and leaveContext(), CTX_LOOP:
          LeaveLoop(_),     \* nothing is done for CTX_FUNC
          Equal(_, _),
          Live(_),          \* the assertions of the domain: not bottom,
          MayLeave(_),      \* a level to leave,
          MayCompare(_, _)  \* the levels of the second in the first

VARIABLES prog,      \* the CFGs, with what LOOP_INFO_FEATURE says of them
          code,      \* what the problem knows of each block
          unrolling, \* PSEUDO_UNROLLING: the fix point handler
          phase,     \* the step to do, or how it ended
          mainEntry, \* mainEntry
          work,      \* workList, the top at the end
          callStack, \* callStack, as CALL edges
          current,   \* current
          next_edge,      \* next_edge, or <<>>
          in,        \* in
          fixpoint,  \* fixpoint
          mark,      \* STATE of edges and entries: a function on those that
                     \* have one
          first,     \* blocks with FIRST_ITER, true by default
          fixed,     \* headers with FIXED
          fpstate,   \* FIXPOINT_STATE of the headers that have one
          results    \* results of the listener

-----------------------------------------------------------------------------
(* prog is a record of Loops.Program.                                       *)
Headers     == DOMAIN prog.loops
Dominated(e) == e[2] \in prog.dom[e[1]]
Entering(b) == {e \in prog.ins[b] : ~Dominated(e)}
Returning(b) == {e \in prog.ins[b] : Dominated(e)}
Calls(b)    == prog.calls[b]
AllCalls(b) == {Calls(b)[i] : i \in 1 .. Len(Calls(b))}

Marked(S)     == S \subseteq DOMAIN mark
Unmark(m, S)  == [e \in DOMAIN m \ S |-> m[e]]
Mark(m, e, x) == [f \in DOMAIN m \cup {e} |->
                     IF f # e THEN m[f]
                     ELSE Lub(IF e \in DOMAIN m THEN m[e] ELSE Bottom, x)]
(* The states are joined in the order of the edges in the lists of the     *)
(* block, which matters where their depths differ; CHOOSE is any order.    *)
Union(S)      == LET U[T \in SUBSET (S \cap DOMAIN mark)] ==
                         IF T = {} THEN Bottom
                         ELSE LET e == CHOOSE e \in T : TRUE IN Lub(U[T \ {e}], mark[e])
                 IN  U[S \cap DOMAIN mark]

(* Faulty form of the next definition, for the runs that must notice it.   *)
EdgeDone_marked(m, e) == e \in DOMAIN m \/ (Dominated(e) /\ e[2] \in first)

(* isEdgeDone: the state is there, and if the edge leaves a loop the fix   *)
(* point of this one is reached; or it is a back edge of a loop to begin.  *)
EdgeDone(m, e) == \/ e \in DOMAIN m /\ (prog.exitOf[e] = NoBlock \/ prog.exitOf[e] \in fixed)
                  \/ Dominated(e) /\ e[2] \in first

(* tryAddToWorkList, on a list.                                            *)
Ready(m, b)    == \A e \in prog.ins[b] : EdgeDone(m, e)
TryAdd(w, m, b) == IF Ready(m, b) THEN Append(w, b) ELSE w

(* One turn of the loop of addSuccessors: the edge is marked, then its      *)
(* target tried.                                                           *)
Added(acc, e, x) == LET new == Mark(acc.mark, e, x)
                    IN  [mark |-> new, work |-> TryAdd(acc.work, new, e[2])]

AddSuccessors(m, x) ==
    LET edges == prog.out[current]
        S[i \in 0 .. Len(edges)] == IF i = 0 THEN [mark |-> m, work |-> work]
                                    ELSE Added(S[i - 1], edges[i], x)
    IN  S[Len(edges)]

(* Faulty form of the next definition, for the runs that must notice it.   *)
ActivateExits_stay ==
    [mark  |-> mark,
     work  |-> FoldLeft(LAMBDA w, e : TryAdd(w, mark, e[2]), work, prog.exits[current])]

(* For an edge of EXIT_LIST: the target is tried until it was added once,  *)
(* then the context is left, on the mark of the edge.                      *)
Activated(acc, e) ==
    LET try == e[2] \notin acc.added /\ Ready(acc.mark, e[2])
    IN  [mark  |-> [acc.mark EXCEPT ![e] = LeaveLoop(@)],
         work  |-> IF try THEN Append(acc.work, e[2]) ELSE acc.work,
         added |-> IF try THEN acc.added \cup {e[2]} ELSE acc.added]

ActivateExits ==
    LET edges == prog.exits[current]
        S[i \in 0 .. Len(edges)] == IF i = 0 THEN [mark |-> mark, work |-> work, added |-> {}]
                                    ELSE Activated(S[i - 1], edges[i])
    IN  S[Len(edges)]

-----------------------------------------------------------------------------
(* solve(), for the static marks that other runs left.                     *)
HaiInit(programs, codes) ==
    /\ prog \in programs
    /\ code \in codes
    /\ unrolling \in BOOLEAN
    /\ phase = "turn"
    /\ mainEntry = TRUE
    /\ work = <<prog.main>>
    /\ callStack = <<>>
    /\ current = prog.main
    /\ next_edge = <<>>
    /\ in = Bottom
    /\ fixpoint = FALSE
    /\ mark = <<>>
    /\ first = Blocks
    /\ fixed \in {{}, Headers}
    /\ fpstate = <<>>
    /\ results = [b \in Blocks |-> Bottom]

Turn == phase = "turn" /\ work # <<>>
Top  == work[Len(work)]

(* detectCalls: the first CALL edge without a state.                       *)
ToCall(b) == {i \in 1 .. Len(Calls(b)) : Calls(b)[i] \notin DOMAIN mark}
NextCall(b) == IF ToCall(b) = {} THEN <<>>
               ELSE Calls(b)[CHOOSE i \in ToCall(b) : \A j \in ToCall(b) : i <= j]

(* pop(), what all inputs have in common; ok: the assertions of the input. *)
Pop(b, ok) == /\ phase' = IF ok THEN "output" ELSE "failed"
              /\ work' = SubSeq(work, 1, Len(work) - 1)
              /\ current' = b
              /\ next_edge' = NextCall(b)
              /\ mainEntry' = FALSE
              /\ UNCHANGED <<prog, code, unrolling, callStack, results>>

MainInput == /\ Turn /\ mainEntry
             /\ Pop(Top, TRUE)
             /\ in' = First
             /\ fixpoint' = FALSE
             /\ UNCHANGED <<mark, first, fixed, fpstate>>

CalledInput ==
    /\ Turn /\ ~mainEntry /\ Top \in prog.entries
    /\ Pop(Top, Marked({<<Top>>}))
    /\ in' = Union({<<Top>>})
    /\ mark' = Unmark(mark, {<<Top>>})
    /\ fixpoint' = FALSE
    /\ UNCHANGED <<first, fixed, fpstate>>

Returned(b) == Calls(b) # <<>> /\ NextCall(b) = <<>>

ReturnedInput ==
    /\ Turn /\ ~mainEntry /\ Top \notin prog.entries /\ Returned(Top)
    /\ Pop(Top, TRUE)
    /\ in' = Union(AllCalls(Top))
    /\ mark' = Unmark(mark, AllCalls(Top) \cup prog.ins[Top])
    /\ fixpoint' = FALSE
    /\ UNCHANGED <<first, fixed, fpstate>>

Plain(b) == ~mainEntry /\ b \notin prog.entries /\ ~Returned(b)

(* DefaultFixPoint::fixPoint: entryEdgeUnion, which enters the loop, and   *)
(* backEdgeUnion but for the first iteration.                              *)
Iteration(b) == IF b \in first THEN EnterLoop(Union(Entering(b)))
                ELSE Lub(EnterLoop(Union(Entering(b))), Union(Returning(b)))

(* FirstUnrollingFixPoint::fixPoint: the entries for the first iteration,  *)
(* what comes back for the second, and this again with what comes later.   *)
Unrolled(b, s) == CASE s.iter = 0 -> EnterLoop(Union(Entering(b)))
                    [] s.iter = 1 -> Union(Returning(b))
                    [] OTHER      -> Lub(Union(Returning(b)), s.second)

(* newState() at the first iteration.                                      *)
StateOf(b) == IF b \in first THEN [header |-> Bottom, second |-> Bottom, iter |-> 0]
              ELSE fpstate[b]

(* Faulty form of the next definition, for the runs that must notice it.   *)
Stable_never(b, s, x) == FALSE

Stable(b, s, x) == IF unrolling THEN s.iter > 1 /\ Equal(x, s.header)
                   ELSE b \notin first /\ Equal(x, s.header)

(* The assertions of the unions, of enterContext() and of equals().        *)
HeaderOK(b) ==
    LET s == StateOf(b)
        entering == ~unrolling \/ s.iter = 0
    IN  /\ entering => Marked(Entering(b)) /\ Live(Union(Entering(b)))
        /\ b \notin first => Marked(Returning(b))
        /\ ~unrolling /\ b \notin first => MayCompare(Iteration(b), s.header)
        /\ unrolling /\ s.iter > 1 => MayCompare(Unrolled(b, s), s.header)

(* Faulty form of the next definition, for the runs that must notice it.   *)
UsedUp_back(b, reached) == Returning(b)

(* The states of the back edges are used up; those of the entries too when *)
(* the fix point is reached.                                               *)
UsedUp(b, reached) == IF reached THEN prog.ins[b] ELSE Returning(b)

(* All that is kept about the loop is forgotten when the fix point is      *)
(* reached.                                                                *)
HeaderUpdate(b, s, x, reached) ==
    /\ in' = x
    /\ fixpoint' = reached
    /\ fixed' = IF reached THEN fixed \cup {b} ELSE fixed \ {b}
    /\ first' = IF reached THEN first \cup {b} ELSE first \ {b}
    /\ mark' = Unmark(mark, UsedUp(b, reached))
    /\ fpstate' = IF reached THEN [h \in DOMAIN fpstate \ {b} |-> fpstate[h]]
                  ELSE [h \in DOMAIN fpstate \cup {b} |->
                           IF h # b THEN fpstate[h]
                           ELSE [header |-> x,
                                 second |-> IF s.iter = 1 THEN x ELSE s.second,
                                 iter   |-> IF unrolling /\ s.iter < 2 THEN s.iter + 1
                                            ELSE s.iter]]

HeaderInput ==
    /\ Turn /\ Plain(Top) /\ Top \in Headers
    /\ Pop(Top, HeaderOK(Top))
    /\ LET s == StateOf(Top)
           x == IF unrolling THEN Unrolled(Top, s) ELSE Iteration(Top)
       IN  HeaderUpdate(Top, s, x, Stable(Top, s, x))

(* The states of the edges are kept for the next visit when the block has  *)
(* something to call.                                                      *)
BlockInput ==
    /\ Turn /\ Plain(Top) /\ Top \notin Headers
    /\ Pop(Top, Marked(prog.ins[Top]))
    /\ in' = Union(prog.ins[Top])
    /\ mark' = IF NextCall(Top) = <<>> THEN Unmark(mark, prog.ins[Top]) ELSE mark
    /\ fixpoint' = FALSE
    /\ UNCHANGED <<first, fixed, fpstate>>

-----------------------------------------------------------------------------
(* What all outputs have in common; ok: the assertions of the domain.      *)
EndTurn(ok) == /\ phase = "output"
               /\ phase' = IF ok THEN "turn" ELSE "failed"
               /\ UNCHANGED <<prog, code, unrolling, mainEntry, current, next_edge,
                              in, fixpoint, first, fixed, fpstate>>

LoopDone == fixpoint
ExitDone == ~fixpoint /\ current \in prog.ends /\ callStack # <<>>
CallDone == ~fixpoint /\ ~ExitDone /\ next_edge # <<>>
BackDone == ~fixpoint /\ ~ExitDone /\ next_edge = <<>> /\ Calls(current) # <<>>
BodyDone == ~fixpoint /\ ~ExitDone /\ next_edge = <<>> /\ Calls(current) = <<>>

ExitsOK == \A i \in 1 .. Len(prog.exits[current]) :
               LET e == prog.exits[current][i]
               IN  Marked({e}) /\ MayLeave(mark[e])

(* The fix point of a loop is reached: what follows it may begin.          *)
LeaveOutput == /\ LoopDone /\ EndTurn(ExitsOK)
               /\ mark' = ActivateExits.mark
               /\ work' = ActivateExits.work
               /\ UNCHANGED <<callStack, results>>

(* Exit of a called CFG: the state goes on the CALL edge, and the caller   *)
(* is visited again.                                                       *)
ExitOutput == /\ ExitDone /\ EndTurn(Live(in))
              /\ LET e == callStack[Len(callStack)]
                 IN  /\ mark' = Mark(mark, e, Update(code, current, in))
                     /\ work' = Append(work, e[1])
              /\ callStack' = SubSeq(callStack, 1, Len(callStack) - 1)
              /\ UNCHANGED results

(* The first visit to a block with calls marks the entries of all of them. *)
MarkCalled(x) ==
    FoldSet(LAMBDA e, m : Mark(m, <<e[2]>>, x), mark, AllCalls(current))

CallOutput == /\ CallDone /\ EndTurn(Live(in))
              /\ mark' = IF AllCalls(current) \cap DOMAIN mark # {} THEN mark
                         ELSE MarkCalled(Update(code, current, in))
              /\ callStack' = Append(callStack, next_edge)
              /\ work' = Append(work, next_edge[2])
              /\ UNCHANGED results

(* The last visit: the block was updated at the first one.                 *)
BackOutput == /\ BackDone /\ EndTurn(Live(in))
              /\ mark' = AddSuccessors(mark, in).mark
              /\ work' = AddSuccessors(mark, in).work
              /\ UNCHANGED <<callStack, results>>

(* blockInterpreted: the results are the union of the inputs.              *)
BodyOutput == /\ BodyDone /\ EndTurn(Live(in))
              /\ LET new == AddSuccessors(mark, Update(code, current, in))
                 IN  mark' = new.mark /\ work' = new.work
              /\ results' = [results EXCEPT ![current] = Lub(@, in)]
              /\ UNCHANGED callStack

Finish == /\ phase = "turn" /\ work = <<>>
          /\ phase' = "done"
          /\ UNCHANGED <<prog, code, unrolling, mainEntry, work, callStack,
                         current, next_edge, in, fixpoint, mark, first, fixed,
                         fpstate, results>>

Solve == \/ MainInput \/ CalledInput \/ ReturnedInput
         \/ HeaderInput \/ BlockInput
         \/ LeaveOutput \/ ExitOutput \/ CallOutput
         \/ BackOutput \/ BodyOutput
         \/ Finish

-----------------------------------------------------------------------------
(* The states the engine reads are there and may be used as it uses them:  *)
(* an edge in front of a block, all the back edges of a loop when it is    *)
(* taken again, a level to leave at an exit.                               *)
AssertionsHold == phase # "failed"

(* A block that follows a loop is not scheduled while an iteration of the  *)
(* loop is in progress, whatever FIXED and the states were left by other   *)
(* iterations of the loops around it.                                      *)
ExitsWait == \A i \in 1 .. Len(work) : \A e \in prog.ins[work[i]] :
                 \A h \in Headers :
                     e[1] \in prog.loops[h] /\ e[2] \notin prog.loops[h] => h \in first

(* At the end every block was interpreted, but those with calls and the    *)
(* exits of the called CFGs, and nothing is left on the static properties  *)
(* that the run for the next cache set would take for its own.             *)
ReadyForNext ==
    phase = "done" =>
        /\ \A b \in prog.blocks : \/ Calls(b) # <<>>
                                   \/ b \in prog.ends \ {prog.end}
                                   \/ Live(results[b])
        /\ DOMAIN mark = {} /\ DOMAIN fpstate = {}
        /\ first = Blocks
=============================================================================
