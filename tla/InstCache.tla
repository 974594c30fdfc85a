------------------------------ MODULE InstCache ------------------------------
(***************************************************************************)
(* The analysis of one set of the instruction cache over the graph of the  *)
(* program: ACSBuilder runs MUSTPERS with the engine of HalfAbsInt, and    *)
(* CAT2Builder gives a category to the l-blocks.  Then the program is run, *)
(* on the real LRU set, along any of its paths, to see whether its misses  *)
(* are those the categories and the constraints of the ILP system allow.   *)
(***************************************************************************)
EXTENDS CacheDomains, FiniteSets
LOCAL INSTANCE SequencesExt
LOCAL INSTANCE FiniteSetsExt

CONSTANTS BasicBlocks,   \* basic blocks, of all CFGs
          NoBlock,       \* the null BasicBlock *
          Programs,      \* programs to analyse: records of Loops.Program
          Codes(_),      \* for each: the l-blocks, in this set, of each block
          FmLevels,      \* values of FIRSTMISS_LEVEL
          MaxEntries,    \* bound of a run: times a loop is entered
          Before         \* what the set may hold when the program starts

VARIABLES prog, code, unrolling, phase, mainEntry, work, callStack, current,
          next_edge, in, fixpoint, mark, first, fixed, fpstate, results,
          level,     \* firstmiss_level
          pos,       \* block that is executed next
          returns,   \* blocks with the calls in progress
          line,      \* the real cache set
          entered,   \* the variables of the ILP system that the run gives a
          misses     \* value to: entries of a loop; misses of the first
                     \* l-block of a block, where a constraint bounds them

-----------------------------------------------------------------------------
(* MUSTPERS::Domain; the bottom of PERS is a flag, that of MUST neutral.   *)
ACS == [must : MustDomain, pers : PersDomain, bottom : BOOLEAN]

AcsBottom == [must |-> MustBottom, pers |-> PersEntry, bottom |-> TRUE]
AcsEntry  == [must |-> MustEntry, pers |-> PersEntry, bottom |-> FALSE]

AcsLub(x, y) == IF y.bottom THEN x
                ELSE IF x.bottom THEN y
                ELSE [must   |-> MustLub(x.must, y.must),
                      pers   |-> PersLub(x.pers, y.pers),
                      bottom |-> FALSE]

(* LAST_LBLOCK and LBLOCK_ISFIRST, l-blocks being in the order of their    *)
(* addresses.                                                              *)
LastOf(c, b)  == c[b][Len(c[b])]
FirstOf(c, b) == c[b][1]

(* MUSTPERS::update.                                                       *)
AcsUpdate(c, b, x) ==
    IF c[b] = <<>> THEN x
    ELSE [x EXCEPT !.pers = PersInject(@, x.must, LastOf(c, b)),
                   !.must = MustInject(@, LastOf(c, b))]

AcsEnter(x) == [x EXCEPT !.pers = PersEnter(@)]
AcsLeave(x) == [x EXCEPT !.pers = PersLeave(@)]

Depth(x)      == Len(x.pers.data)
AcsLive(x)    == ~x.bottom
AcsMayLeave(x) == ~x.bottom /\ Depth(x) > 0
AcsMayCompare(x, y) == ~x.bottom /\ ~y.bottom /\ Depth(x) >= Depth(y)
AcsEqual(x, y) == /\ AcsMayCompare(x, y)
                  /\ x.must = y.must /\ x.pers.whole = y.pers.whole
                  /\ \A k \in 1 .. Depth(y) : x.pers.data[k] = y.pers.data[k]

INSTANCE HalfAbsInt WITH
    Blocks <- BasicBlocks, Bottom <- AcsBottom, First <- AcsEntry,
    Lub <- AcsLub, Update <- AcsUpdate, Equal <- AcsEqual,
    EnterLoop <- AcsEnter, LeaveLoop <- AcsLeave,
    Live <- AcsLive, MayLeave <- AcsMayLeave, MayCompare <- AcsMayCompare

runvars == <<level, pos, returns, line, entered, misses>>
analysis == <<prog, code, unrolling, phase, mainEntry, work, callStack, current,
              next_edge, in, fixpoint, mark, first, fixed, fpstate, results>>
vars == <<analysis, runvars>>

-----------------------------------------------------------------------------
(* CAT2Builder::processLBlockSet, without MAY, for the first l-block of a  *)
(* block.                                                                  *)
Must(b) == results[b].must
Pers(b) == results[b].pers.data

AlwaysHit(b) == Must(b)[FirstOf(code, b)] # Absent

Persistent(b, k) == IsPersistent(Pers(b)[k], FirstOf(code, b))

(* How many levels, from the innermost, the l-block is persistent at.      *)
Streak(b) ==
    LET n == Len(Pers(b))
        S == {k \in 0 .. n : \A j \in n - k + 1 .. n : Persistent(b, j)}
    IN  CHOOSE k \in S : \A j \in S : j <= k

Own(b) == IF b \in Headers THEN b ELSE prog.enclosing[b]

(* Some levels up; the loop around all others.                             *)
Climb(h, n) == LET C[i \in 0 .. n] == IF i = 0 THEN h
                                      ELSE IF C[i - 1] = NoBlock THEN NoBlock
                                      ELSE prog.enclosing[C[i - 1]]
               IN  C[n]
Outermost(h) == Climb(h, CHOOSE i \in 0 .. Cardinality(Headers) :
                             Climb(h, i) # NoBlock /\ Climb(h, i + 1) = NoBlock)

FirstMiss(b) ==
    /\ ~AlwaysHit(b)
    /\ Len(Pers(b)) > 0
    /\ CASE level = "inner" -> Persistent(b, Len(Pers(b)))
         [] level = "outer" -> Persistent(b, 1)
         [] level = "multi" -> Streak(b) > 0

(* Faulty form of the next definition, for the runs that must notice it.   *)
CategoryHeader_up(b) == Outermost(Own(b))

(* CATEGORY_HEADER.                                                        *)
CategoryHeader(b) == CASE level = "inner" -> Own(b)
                       [] level = "outer" -> Outermost(Own(b))
                       [] level = "multi" -> Climb(Own(b), Streak(b) - 1)

-----------------------------------------------------------------------------
(* LINKED_BLOCKS: the first-miss l-blocks with the same cache block and the *)
(* same header.                                                            *)
Linked(b) == {c \in prog.blocks :
                 /\ code[c] # <<>> /\ FirstMiss(c)
                 /\ FirstOf(code, c) = FirstOf(code, b)
                 /\ CategoryHeader(c) = CategoryHeader(b)}

Total(m, S) == LET T[U \in SUBSET S] == IF U = {} THEN 0
                                        ELSE LET b == CHOOSE b \in U : TRUE
                                             IN  T[U \ {b}] + m[b]
               IN  T[S]

MissesOf(S) == Total(misses, S)

(* CAT2OnlyConstraintBuilder on a first-miss l-block.  The constraint of a *)
(* group is built at its last l-block, from MISS_VARs: that of the last is *)
(* set afterwards, and a null variable stands for the constant 1.          *)
LinkedConstraint(b) ==
    IF Cardinality(Linked(b)) = 1 THEN misses[b] <= entered[CategoryHeader(b)]
    ELSE b = Max(Linked(b)) =>
             MissesOf(Linked(b) \ {b}) + 1 <= entered[CategoryHeader(b)]

-----------------------------------------------------------------------------
Init == /\ HaiInit(Programs, Codes(prog))
        /\ level = "none"
        /\ pos = prog.main
        /\ returns = <<>>
        /\ line \in Before
        /\ entered = [b \in BasicBlocks |-> 0]
        /\ misses = [b \in BasicBlocks |-> 0]

Analyse == Solve /\ UNCHANGED runvars

(* The builders read their configuration, and the program is run.          *)
StartRun == /\ phase = "done"
            /\ phase' = "run"
            /\ level' \in FmLevels
            /\ UNCHANGED <<prog, code, unrolling, mainEntry, work, callStack,
                           current, next_edge, in, fixpoint, mark, first, fixed,
                           fpstate, results, pos, returns, line, entered, misses>>

(* The l-block of interest misses, and its misses are bounded.             *)
Counted == /\ code[pos] # <<>>
           /\ ~Holds(line, FirstOf(code, pos))
           /\ AlwaysHit(pos) \/ FirstMiss(pos)

(* All l-blocks of the block are fetched; the first has the category.      *)
LineAfter(l, tags) == LET L[i \in 0 .. Len(tags)] == IF i = 0 THEN l
                                                     ELSE LRUAccess(tags[i], L[i - 1])
                      IN  L[Len(tags)]

Executed ==
    /\ line' = LineAfter(line, code[pos])
    /\ misses' = IF Counted THEN [misses EXCEPT ![pos] = @ + 1] ELSE misses
    /\ UNCHANGED <<analysis, level>>

(* Along an edge, which may enter a loop.                                  *)
Enters(e) == e[2] \in Headers /\ ~Dominated(e)

Follow(b, stack) ==
    \E i \in 1 .. Len(prog.out[b]) :
        LET e == prog.out[b][i]
        IN  /\ Enters(e) => entered[e[2]] < MaxEntries
            /\ pos' = e[2]
            /\ returns' = stack
            /\ entered' = IF Enters(e) THEN [entered EXCEPT ![e[2]] = @ + 1] ELSE entered

Run == /\ phase = "run" /\ Calls(pos) = <<>> /\ pos \notin prog.ends
       /\ Executed
       /\ Follow(pos, returns)

Call == /\ phase = "run"
        /\ \E e \in AllCalls(pos) : /\ pos' = e[2]
                                    /\ returns' = Append(returns, pos)
        /\ UNCHANGED entered
        /\ Executed

Return == /\ phase = "run" /\ pos \in prog.ends /\ returns # <<>>
          /\ Executed
          /\ Follow(Last(returns), Front(returns))

Next == Analyse \/ StartRun \/ Run \/ Call \/ Return

(* The analysis runs to its end; how far the program goes is its affair.   *)
Spec == Init /\ [][Next]_vars /\ WF_vars(Analyse)

-----------------------------------------------------------------------------
(* The stack of levels has one item per loop around the block, those       *)
(* around the calls in progress included.                                  *)
LoopsAround(b) == Cardinality({h \in Headers : b \in prog.loops[h]})
CalledIn == LET C[i \in 0 .. Len(callStack)] ==
                    IF i = 0 THEN 0 ELSE C[i - 1] + LoopsAround(callStack[i][1])
            IN  C[Len(callStack)]

LevelsMatch == phase = "output" => Depth(in) = LoopsAround(current) + CalledIn

(* The first l-block of the block about to be executed.                    *)
Fetched == phase = "run" /\ code[pos] # <<>>

(* ALWAYS_HIT: the accesses to the l-block always hit.                     *)
HitSound == Fetched /\ AlwaysHit(pos) => Holds(line, FirstOf(code, pos))

(* FIRST_MISS: the misses of the l-blocks that are in the same cache block *)
(* and have the same header are at most as many as the entries of its      *)
(* loop: what CAT2OnlyConstraintBuilder says its constraints ask.          *)
FirstMissSound ==
    phase = "run" =>
        \A b \in prog.blocks :
            code[b] # <<>> /\ FirstMiss(b) =>
                /\ CategoryHeader(b) # NoBlock
                /\ MissesOf(Linked(b)) <= entered[CategoryHeader(b)]

(* The constraints that are built when LinkedBlocksDetector was run are    *)
(* satisfied by the misses of the run.                                     *)
LinkedConstraintsHold ==
    phase = "run" /\ pos = prog.end =>
        \A b \in prog.blocks :
            code[b] # <<>> /\ FirstMiss(b) => LinkedConstraint(b)

(* The engine comes to the end of its work list.                           *)
AnalysisEnds == <>(phase # "turn" /\ phase # "output")
=============================================================================
