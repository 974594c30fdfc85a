------------------------------ MODULE Reducible ------------------------------
(***************************************************************************)
(* The programs that the theorems about the engine are about, as records   *)
(* of Loops!Program: one CFG without calls, reducible, whose loops are     *)
(* those that LOOP_INFO_FEATURE promises.                                  *)
(***************************************************************************)
EXTENDS InstCache

Edges(p)      == UNION {p.ins[b] : b \in p.blocks}
Back(p, e)    == e[2] \in p.dom[e[1]]
Around(p, b)  == {h \in DOMAIN p.loops : b \in p.loops[h]}
Leaving(p, e) == Around(p, e[1]) \ Around(p, e[2])

BackTo(p, h)  == {e \in p.ins[h] : Back(p, e)}
OutOf(p, b)   == {e \in Edges(p) : e[1] = b}
ExitsOf(p, h) == {e \in Edges(p) : p.exitOf[e] = h}

Items(s) == {s[i] : i \in 1 .. Len(s)}
Once(s)  == \A i, j \in 1 .. Len(s) : s[i] = s[j] => i = j

(* s is a list of the items of T, each once, which are of X.               *)
ListOf(s, X, T) == s \in Seq(X) /\ Once(s) /\ Items(s) = T

(* One CFG, whose blocks are all reached, and that calls nothing.          *)
OneGraph(p) ==
    /\ IsFiniteSet(p.blocks)
    /\ p.blocks \subseteq BasicBlocks
    /\ p.main \in p.blocks
    /\ p.entries = {p.main}
    /\ \A b \in p.blocks : p.calls[b] = <<>>
    /\ \A b \in p.blocks : p.ins[b] = {e \in Edges(p) : e[2] = b}
    /\ Edges(p) \subseteq p.blocks \X p.blocks
    /\ \A b \in p.blocks : /\ p.out[b] \in Seq(Edges(p))
                           /\ Items(p.out[b]) = {e \in Edges(p) : e[1] = b}
                           /\ Once(p.out[b])
    /\ p.ins[p.main] = {}
    /\ \A b \in p.blocks \ {p.main} : \E e \in p.ins[b] : ~ Back(p, e)

(* It is reducible: without its back edges, it has no cycle.               *)
NoCycle(p) ==
    \A S \in SUBSET p.blocks : S # {} =>
        \E v \in S : \A e \in p.ins[v] : e[1] \in S => Back(p, e)

(* Its loops, as LOOP_INFO_FEATURE gives them.                             *)
LoopsOK(p) ==
    /\ DOMAIN p.loops \subseteq p.blocks
    /\ NoBlock \notin DOMAIN p.loops
    /\ Around(p, p.main) = {}
    /\ \A h \in DOMAIN p.loops : /\ h \in p.loops[h]
                                 /\ p.loops[h] \subseteq p.blocks
                                 /\ \E e \in p.ins[h] : Back(p, e)
    /\ \A e \in Edges(p) :
          Back(p, e) <=> e[2] \in DOMAIN p.loops /\ e[1] \in p.loops[e[2]]
    /\ \A e \in Edges(p) : Around(p, e[2]) \ {e[2]} \subseteq Around(p, e[1])
    /\ \A h \in DOMAIN p.loops : \A T \in SUBSET p.loops[h] :
          (/\ \A e \in p.ins[h] : Back(p, e) => e[1] \in T
           /\ \A e \in Edges(p) : e[2] \in T \ {h} => e[1] \in T)
          => p.loops[h] \ {h} \subseteq T
    /\ \A b \in p.blocks : \A h, k \in Around(p, b) :
          h \in Around(p, k) \/ k \in Around(p, h)
    /\ \A h \in DOMAIN p.loops : \A k \in Around(p, h) :
          p.loops[h] \subseteq p.loops[k] /\ (h \in Around(p, k) => h = k)

(* LOOP_EXIT_EDGE and EXIT_LIST.                                           *)
ExitsRight(p) ==
    /\ \A e \in Edges(p) :
          IF Leaving(p, e) = {} THEN p.exitOf[e] = NoBlock
          ELSE /\ p.exitOf[e] \in Leaving(p, e)
               /\ \A h \in Leaving(p, e) : p.exitOf[e] \in Around(p, h)
    /\ \A h \in DOMAIN p.loops :
          /\ p.exits[h] \in Seq(Edges(p))
          /\ Items(p.exits[h]) = {e \in Edges(p) : p.exitOf[e] = h}
          /\ Once(p.exits[h])

Structured(p) == OneGraph(p) /\ NoCycle(p) /\ LoopsOK(p) /\ ExitsRight(p)

(* An edge leaves one loop at most; those that leave more have one level   *)
(* only taken off their state.                                             *)
OneLevel(p) == \A e \in Edges(p) : Cardinality(Leaving(p, e)) <= 1

(* ENCLOSING_LOOP_HEADER: the innermost loop around, a header's own loop    *)
(* not being one.                                                          *)
EnclosingRight(p) ==
    \A b \in p.blocks :
        LET S == Around(p, b) \ {b}
        IN  IF S = {} THEN p.enclosing[b] = NoBlock
            ELSE p.enclosing[b] \in S /\ S \subseteq Around(p, p.enclosing[b])

(* For each block, the cache blocks of its l-blocks.                       *)
ListsOfBlocks == [BasicBlocks -> Seq(Blocks)]

(* One at most: of several, `update' would inject the last only.           *)
OnePerBlock == {c \in ListsOfBlocks : \A b \in BasicBlocks : Len(c[b]) <= 1}
=============================================================================
