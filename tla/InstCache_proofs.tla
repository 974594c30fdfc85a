-------------------------- MODULE InstCache_proofs --------------------------
(***************************************************************************)
(* The engine of HalfAbsInt on one program without calls, of any size,     *)
(* whose graph is reducible: what it schedules; the abstract states it     *)
(* gives to the edges and the levels these have; that its fix point covers *)
(* every execution, so that an access said to be ALWAYS_HIT hits.          *)
(***************************************************************************)
EXTENDS Reducible, CacheSet_proofs, FiniteSetTheorems, SequenceTheorems

-----------------------------------------------------------------------------
(* The control of the engine: D, the blocks processed in the iterations in *)
(* progress; G, the headers of these; M, the edges that have a state; F,   *)
(* FIXED; P, the block whose output is to be done.                         *)
OpenTo(D, G, v) == v \notin D \/ v \in G
LeadsOn(p, D, G, e) == e[2] \notin D \/ (Back(p, e) /\ e[2] \in G)

Control(p, D, G, M, F, P) ==
    /\ D \subseteq p.blocks /\ G \subseteq DOMAIN p.loops /\ M \subseteq Edges(p)
    /\ P \subseteq D
    /\ \A e \in M : OpenTo(D, G, e[2])
    /\ \A e \in M : e[1] \in D \ P \/ Leaving(p, e) \cap G # {}
    /\ \A e \in Edges(p) : e[1] \in D \ P /\ OpenTo(D, G, e[2]) => e \in M
    /\ \A e \in Edges(p) : ~ Back(p, e) /\ e[2] \in D
                              => e[1] \in D /\ Leaving(p, e) \cap G = {}
    /\ G \subseteq D /\ \A h \in G : Around(p, h) \subseteq G
    /\ \A h \in (DOMAIN p.loops \cap D) \ G : p.loops[h] \subseteq D
    /\ \A b \in D : Around(p, b) \subseteq D
    /\ \A h \in DOMAIN p.loops \cap D : h \in F <=> h \notin G
    /\ \A e \in Edges(p) : e[1] \in P => LeadsOn(p, D, G, e)

Done(p, G, M, F, e) ==
    \/ e \in M /\ (p.exitOf[e] = NoBlock \/ p.exitOf[e] \in F)
    \/ Back(p, e) /\ e[2] \notin G

ToDo(p, D, G, M, F) ==
    {v \in p.blocks : OpenTo(D, G, v) /\ \A e \in p.ins[v] : Done(p, G, M, F, e)}

(* The block v is taken: its output is to be done, and nothing else        *)
(* becomes ready.                                                          *)
Takes(p, v, D, G, M, F, D2, G2, M2, F2) ==
    /\ Control(p, D2, G2, M2, F2, {v})
    /\ ToDo(p, D2, G2, M2, F2) = ToDo(p, D, G, M, F) \ {v}

(* The loop of h is finished: only what its exits lead to becomes ready.   *)
Finishes(p, h, X, D, G, M, F, G2, M2, F2) ==
    /\ Control(p, D, G2, M2, F2, {})
    /\ ToDo(p, D, G2, M2, F2) \ {e[2] : e \in X} = ToDo(p, D, G, M, F) \ {h}
    /\ X \subseteq M2
    /\ \A e \in X : LeadsOn(p, D, G2, e) /\ h \in Leaving(p, e)

(* The edges of O get a state: what this makes ready was not.              *)
Marks(p, O, D, G, M, F, M2) ==
    /\ Control(p, D, G, M2, F, {})
    /\ ToDo(p, D, G, M2, F) = ToDo(p, D, G, M, F)
                              \cup {v \in {e[2] : e \in O} :
                                       \A e \in p.ins[v] : Done(p, G, M2, F, e)}
    /\ \A e \in O : e[2] \notin ToDo(p, D, G, M, F)

(* An edge to a block that is ready has a state and leaves no loop that is *)
(* in progress, or it is a back edge of a loop to begin.                   *)
LEMMA ReadyEdges ==
    ASSUME NEW p, Structured(p), NEW D, NEW G, NEW M, NEW F, NEW P,
           Control(p, D, G, M, F, P), NEW v \in ToDo(p, D, G, M, F),
           NEW e \in p.ins[v]
    PROVE  /\ Leaving(p, e) \cap G = {}
           /\ ~ Back(p, e) \/ v \in G => e \in M /\ e[1] \in D \ P
           /\ Back(p, e) /\ v \notin G => e \notin M /\ e[1] \notin D
<1>1. v \in p.blocks /\ OpenTo(D, G, v) /\ Done(p, G, M, F, e)
  BY DEF ToDo
<1>2. e \in Edges(p) /\ e[2] = v
  BY <1>1 DEF Structured, OneGraph
<1>3. CASE ~ Back(p, e) \/ v \in G
  <2>1. e \in M /\ (p.exitOf[e] = NoBlock \/ p.exitOf[e] \in F)
    BY <1>1, <1>2, <1>3 DEF Done
  <2>2. Leaving(p, e) \cap G = {}
    <3> SUFFICES ASSUME NEW k \in Leaving(p, e) \cap G
                 PROVE  FALSE
      OBVIOUS
    <3> DEFINE x == p.exitOf[e]
    <3>1. x \in Leaving(p, e) /\ x \in Around(p, k)
      BY <1>2 DEF Structured, ExitsRight
    <3>2. x \in DOMAIN p.loops /\ x # NoBlock
      BY <3>1 DEF Leaving, Around, Structured, LoopsOK
    <3>3. x \in G /\ x \in D
      BY <3>1 DEF Control
    <3> QED
      BY <2>1, <3>2, <3>3 DEF Control
  <2>3. e[1] \in D \ P
    BY <2>1, <2>2 DEF Control
  <2> QED
    BY <1>3, <2>1, <2>2, <2>3
<1>4. CASE Back(p, e) /\ v \notin G
  <2>1. v \notin D /\ v \in DOMAIN p.loops /\ e[1] \in p.loops[v] /\ e[1] \in p.blocks
    BY <1>1, <1>2, <1>4 DEF OpenTo, Structured, LoopsOK, OneGraph
  <2>2. v \in Around(p, e[1])
    BY <2>1 DEF Around
  <2>3. e[1] \notin D
    BY <2>1, <2>2 DEF Control
  <2>4. Leaving(p, e) \cap G = {}
    <3> SUFFICES ASSUME NEW k \in Leaving(p, e) \cap G
                 PROVE  FALSE
      OBVIOUS
    <3>1. k \in Around(p, e[1]) /\ k \notin Around(p, v)
      BY <1>2 DEF Leaving
    <3>2. v \in Around(p, k)
      BY <2>1, <2>2, <3>1 DEF Structured, LoopsOK
    <3> QED
      BY <1>4, <3>2 DEF Control
  <2> QED
    BY <1>4, <2>3, <2>4 DEF Control
<1> QED
  BY <1>3, <1>4
\* Facts on the edges of a program, used all along.
LEMMA EdgeFacts ==
    ASSUME NEW p, Structured(p), NEW e \in Edges(p)
    PROVE  /\ e[1] \in p.blocks /\ e[2] \in p.blocks
           /\ e \in p.ins[e[2]]
           /\ e[2] # p.main
           /\ \A b \in p.blocks : e \in p.ins[b] => e[2] = b
           /\ Back(p, e) <=> e[2] \in Around(p, e[1])
           /\ Back(p, e) => Back(p, e) /\ e[2] \in DOMAIN p.loops
           /\ \A h \in Around(p, e[2]) : h = e[2] \/ h \in Around(p, e[1])
<1>1. e \in p.blocks \X p.blocks
  BY DEF Structured, OneGraph
<1>2. e[1] \in p.blocks /\ e[2] \in p.blocks
  BY <1>1
<1>3. e \in p.ins[e[2]] /\ \A b \in p.blocks : e \in p.ins[b] => e[2] = b
  BY <1>2 DEF Structured, OneGraph
<1>4. e[2] # p.main
  BY <1>3 DEF Structured, OneGraph
<1>5. Back(p, e) <=> e[2] \in Around(p, e[1])
  BY DEF Structured, LoopsOK, Around
<1>6. \A h \in Around(p, e[2]) : h = e[2] \/ h \in Around(p, e[1])
  BY DEF Structured, LoopsOK
<1> QED
  BY <1>2, <1>3, <1>4, <1>5, <1>6 DEF Around

\* What the blocks of a structured program have.
LEMMA BlockFacts ==
    ASSUME NEW p, Structured(p), NEW b \in p.blocks
    PROVE  /\ \A e \in p.ins[b] : e \in Edges(p) /\ e[2] = b
           /\ b # p.main => \E e \in p.ins[b] : ~ Back(p, e)
           /\ b = p.main => p.ins[b] = {} /\ Around(p, b) = {}
           /\ Around(p, b) \subseteq DOMAIN p.loops
           /\ b \in DOMAIN p.loops => b \in Around(p, b) /\ \E e \in p.ins[b] : Back(p, e)
           /\ \A h, k \in Around(p, b) : h \in Around(p, k) \/ k \in Around(p, h)
           /\ \A h \in DOMAIN p.loops : h \in Around(p, b) <=> b \in p.loops[h]
           /\ \A h \in Around(p, b) : Around(p, h) \subseteq Around(p, b)
           /\ \A h \in Around(p, b) : b \in Around(p, h) => h = b
           /\ \A e \in p.ins[b] : e[1] = b => Back(p, e)
<1>1. \A e \in p.ins[b] : e \in Edges(p) /\ e[2] = b
  BY DEF Structured, OneGraph
<1>2. b # p.main => \E e \in p.ins[b] : ~ Back(p, e)
  BY DEF Structured, OneGraph
<1>3. b \in DOMAIN p.loops => b \in Around(p, b) /\ \E e \in p.ins[b] : Back(p, e)
  BY DEF Structured, LoopsOK, Around
<1>4. \A h, k \in Around(p, b) : h \in Around(p, k) \/ k \in Around(p, h)
  BY DEF Structured, LoopsOK
<1>5. b = p.main => p.ins[b] = {} /\ Around(p, b) = {}
  BY DEF Structured, OneGraph, LoopsOK
<1>6. \A h \in Around(p, b) : Around(p, h) \subseteq Around(p, b)
  BY DEF Structured, LoopsOK, Around
<1>7. \A h \in Around(p, b) : b \in Around(p, h) => h = b
  BY DEF Structured, LoopsOK, Around
<1>8. \A e \in p.ins[b] : e[1] = b => Back(p, e)
  <2>1. {b} \in SUBSET p.blocks /\ {b} # {}
    OBVIOUS
  <2>2. \E v \in {b} : \A e \in p.ins[v] : e[1] \in {b} => Back(p, e)
    BY <2>1, Zenon DEF Structured, NoCycle
  <2> QED
    BY <2>2
<1> QED
  BY <1>1, <1>2, <1>3, <1>4, <1>5, <1>6, <1>7, <1>8 DEF Around

-----------------------------------------------------------------------------
\* The input of a block that is no header.
LEMMA VisitControl ==
    ASSUME NEW p, Structured(p), NEW D, NEW G, NEW M, NEW F,
           Control(p, D, G, M, F, {}), p.main \in D,
           NEW v \in ToDo(p, D, G, M, F), v \notin DOMAIN p.loops
    PROVE  Takes(p, v, D, G, M, F, D \cup {v}, G, M \ p.ins[v], F)
<1> DEFINE D2 == D \cup {v}
           M2 == M \ p.ins[v]
<1>1. v \in p.blocks /\ v \notin G /\ v \notin D /\ v # p.main
  BY DEF ToDo, OpenTo, Control
<1>2. \A e \in p.ins[v] : /\ e \in Edges(p) /\ e[2] = v /\ ~ Back(p, e)
                          /\ e \in M /\ e[1] \in D /\ Leaving(p, e) \cap G = {}
  BY <1>1, BlockFacts, EdgeFacts, ReadyEdges
<1>3. \A e \in Edges(p) : e[2] = v <=> e \in p.ins[v]
  BY <1>1, EdgeFacts
<1>4. D2 \subseteq p.blocks /\ M2 \subseteq Edges(p) /\ {v} \subseteq D2
  BY <1>1 DEF Control
<1>5. \A e \in M2 : OpenTo(D2, G, e[2])
  BY <1>3, <1>4 DEF Control, OpenTo
<1>6. \A e \in M2 : e[1] \in D2 \ {v} \/ Leaving(p, e) \cap G # {}
  BY <1>1 DEF Control
<1>7. \A e \in Edges(p) : e[1] \in D2 \ {v} /\ OpenTo(D2, G, e[2]) => e \in M2
  BY <1>1, <1>2 DEF Control, OpenTo
<1>8. \A e \in Edges(p) : ~ Back(p, e) /\ e[2] \in D2
                             => e[1] \in D2 /\ Leaving(p, e) \cap G = {}
  BY <1>2, <1>3 DEF Control
<1>9. Around(p, v) \subseteq D2
  <2>1. PICK e \in p.ins[v] : ~ Back(p, e)
    BY <1>1, BlockFacts
  <2>2. e \in Edges(p) /\ e[2] = v
    BY <1>2
  <2>3. \A h \in Around(p, v) : h = v \/ h \in Around(p, e[1])
    BY <2>2, EdgeFacts
  <2>4. v \notin Around(p, v)
    BY DEF Around
  <2> QED
    BY <1>2, <2>3, <2>4 DEF Control
<1>10. ASSUME NEW e \in Edges(p), e[1] = v
       PROVE  LeadsOn(p, D2, G, e)
  <2> SUFFICES ASSUME e[2] \in D2, ~ (Back(p, e) /\ e[2] \in G)
               PROVE  FALSE
    BY DEF LeadsOn
  <2>1. e[2] # v
    BY <1>2, <1>3, <1>10, BlockFacts, <1>1
  <2>2. e[2] \in D
    BY <2>1
  <2>3. CASE ~ Back(p, e)
    BY <1>1, <1>10, <2>2, <2>3 DEF Control
  <2>4. CASE Back(p, e)
    <3>1. e[2] \in Around(p, v) /\ e[2] \in DOMAIN p.loops
      BY <1>10, <2>4, EdgeFacts
    <3>2. v \in p.loops[e[2]] /\ e[2] \notin G
      BY <2>4, <3>1 DEF Around
    <3> QED
      BY <1>1, <2>2, <3>1, <3>2 DEF Control
  <2> QED
    BY <2>3, <2>4
<1>11. Control(p, D2, G, M2, F, {v})
  <2>1. /\ \A b \in D2 : Around(p, b) \subseteq D2
        /\ G \subseteq D2 /\ \A h \in G : Around(p, h) \subseteq G
        /\ \A h \in (DOMAIN p.loops \cap D2) \ G : p.loops[h] \subseteq D2
        /\ \A h \in DOMAIN p.loops \cap D2 : h \in F <=> h \notin G
        /\ G \subseteq DOMAIN p.loops
    BY <1>9 DEF Control
  <2> HIDE DEF D2, M2
  <2> QED
    BY <1>4, <1>5, <1>6, <1>7, <1>8, <1>10, <2>1 DEF Control
<1>12. ToDo(p, D2, G, M2, F) = ToDo(p, D, G, M, F) \ {v}
  <2>1. ASSUME NEW u \in p.blocks, u # v
        PROVE  u \in ToDo(p, D2, G, M2, F) <=> u \in ToDo(p, D, G, M, F)
    <3>1. \A e \in p.ins[u] : e \notin p.ins[v]
      BY <1>2, <2>1, BlockFacts
    <3> QED
      BY <2>1, <3>1 DEF ToDo, Done, OpenTo
  <2>2. v \notin ToDo(p, D2, G, M2, F)
    BY <1>1 DEF ToDo, OpenTo
  <2> QED
    BY <2>1, <2>2 DEF ToDo
<1>13. Takes(p, v, D, G, M, F, D2, G, M2, F)
  BY <1>11, <1>12, Zenon DEF Takes
<1> QED
  BY <1>1, <1>2, <1>13, BlockFacts

\* The input of the entry.
LEMMA MainControl ==
    ASSUME NEW p, Structured(p), NEW F
    PROVE  /\ Control(p, {}, {}, {}, F, {})
           /\ ToDo(p, {}, {}, {}, F) = {p.main}
           /\ Control(p, {p.main}, {}, {}, F, {p.main})
           /\ ToDo(p, {p.main}, {}, {}, F) = {}
<1>1. p.main \in p.blocks /\ p.ins[p.main] = {} /\ Around(p, p.main) = {}
  BY DEF Structured, OneGraph, LoopsOK
<1>2. p.main \notin DOMAIN p.loops
  BY <1>1 DEF Structured, LoopsOK
<1>3. \A e \in Edges(p) : e[2] # p.main
  BY EdgeFacts
<1>4. Control(p, {}, {}, {}, F, {})
  BY DEF Control
<1>5. Control(p, {p.main}, {}, {}, F, {p.main})
  BY <1>1, <1>2, <1>3 DEF Control, OpenTo, LeadsOn
<1>6. ASSUME NEW D, NEW v \in ToDo(p, D, {}, {}, F)
      PROVE  v = p.main /\ v \notin D
  <2>1. v \in p.blocks /\ v \notin D /\ \A e \in p.ins[v] : Back(p, e)
    BY <1>6 DEF ToDo, Done, OpenTo
  <2> QED
    BY <2>1, BlockFacts
<1>7. p.main \in ToDo(p, {}, {}, {}, F)
  BY <1>1 DEF ToDo, OpenTo
<1> QED
  BY <1>4, <1>5, <1>6, <1>7

\* The first input of a header.
LEMMA EnterControl ==
    ASSUME NEW p, Structured(p), NEW D, NEW G, NEW M, NEW F,
           Control(p, D, G, M, F, {}), p.main \in D,
           NEW h \in ToDo(p, D, G, M, F), h \in DOMAIN p.loops, h \notin G,
           NEW R, R = BackTo(p, h)
    PROVE  Takes(p, h, D, G, M, F, D \cup {h}, G \cup {h}, M \ R, F \ {h})
<1> USE DEF BackTo
<1> DEFINE D2 == D \cup {h}
           G2 == G \cup {h}
           F2 == F \ {h}
<1>1. h \in p.blocks /\ h \notin D /\ h # p.main
  BY DEF ToDo, OpenTo
<1>2. \A e \in p.ins[h] : /\ e \in Edges(p) /\ e[2] = h
                          /\ Leaving(p, e) \cap G = {}
                          /\ ~ Back(p, e) => e \in M /\ e[1] \in D
                          /\ Back(p, e) => e \notin M
  BY <1>1, BlockFacts, ReadyEdges
<1>3. M \ R = M
  BY <1>2
<1>4. PICK d \in p.ins[h] : ~ Back(p, d)
  BY <1>1, BlockFacts
<1>5. \A e \in Edges(p) : e[2] = h <=> e \in p.ins[h]
  BY <1>1, EdgeFacts
<1>6. ASSUME NEW e \in Edges(p), h \in Around(p, e[1])
      PROVE  e[1] \notin D
  BY <1>1, <1>6 DEF Control
<1>7. Around(p, h) \subseteq G2
  <2> SUFFICES ASSUME NEW k \in Around(p, h), k # h, k \notin G
               PROVE  FALSE
    OBVIOUS
  <2>1. k \in Around(p, d[1]) /\ d[1] \in D
    BY <1>2, <1>4, EdgeFacts
  <2>2. k \in D /\ k \in DOMAIN p.loops /\ h \in p.loops[k]
    BY <2>1 DEF Control, Around
  <2> QED
    BY <1>1, <2>2 DEF Control
<1>8. ASSUME NEW e \in Edges(p), ~ Back(p, e), e[2] \in D2
      PROVE  e[1] \in D2 /\ Leaving(p, e) \cap G2 = {}
  <2>1. CASE e[2] = h
    <3>1. e \in p.ins[h] /\ e[1] \in D /\ Leaving(p, e) \cap G = {}
      BY <1>2, <1>5, <1>8, <2>1
    <3>2. h \notin Leaving(p, e)
      BY <1>1, <2>1, BlockFacts DEF Leaving
    <3> QED
      BY <3>1, <3>2
  <2>2. CASE e[2] # h
    <3>1. e[1] \in D /\ Leaving(p, e) \cap G = {}
      BY <1>8, <2>2 DEF Control
    <3>2. h \notin Leaving(p, e)
      BY <1>6, <3>1 DEF Leaving
    <3> QED
      BY <3>1, <3>2
  <2> QED
    BY <2>1, <2>2
<1>9. ASSUME NEW e \in Edges(p), e[1] = h
      PROVE  LeadsOn(p, D2, G2, e)
  <2> SUFFICES ASSUME e[2] \in D2, ~ (Back(p, e) /\ e[2] \in G2)
               PROVE  FALSE
    BY DEF LeadsOn
  <2>1. CASE ~ Back(p, e)
    BY <1>1, <1>2, <1>5, <1>9, <2>1, BlockFacts DEF Control
  <2>2. CASE Back(p, e)
    BY <1>7, <1>9, <2>2, EdgeFacts
  <2> QED
    BY <2>1, <2>2
<1>10. Control(p, D2, G2, M, F2, {h})
  <2>1. D2 \subseteq p.blocks /\ G2 \subseteq DOMAIN p.loops /\ M \subseteq Edges(p)
    BY <1>1 DEF Control
  <2>2. \A e \in M : OpenTo(D2, G2, e[2])
    BY DEF Control, OpenTo
  <2>3. \A e \in M : e[1] \in D2 \ {h} \/ Leaving(p, e) \cap G2 # {}
    BY <1>1 DEF Control
  <2>4. \A e \in Edges(p) : e[1] \in D2 \ {h} /\ OpenTo(D2, G2, e[2]) => e \in M
    BY <1>1 DEF Control, OpenTo
  <2>5. G2 \subseteq D2 /\ \A k \in G2 : Around(p, k) \subseteq G2
    BY <1>7 DEF Control
  <2>6. \A b \in D2 : Around(p, b) \subseteq D2
    BY <1>7, <2>5 DEF Control
  <2>7. /\ \A k \in (DOMAIN p.loops \cap D2) \ G2 : p.loops[k] \subseteq D2
        /\ \A k \in DOMAIN p.loops \cap D2 : k \in F2 <=> k \notin G2
    BY DEF Control
  <2> HIDE DEF D2, G2, F2
  <2>8. {h} \subseteq D2
    BY DEF D2
  <2> QED
    BY <1>8, <1>9, <2>1, <2>2, <2>3, <2>4, <2>5, <2>6, <2>7, <2>8 DEF Control
<1>11. ToDo(p, D2, G2, M, F2) = ToDo(p, D, G, M, F) \ {h}
  <2>1. ASSUME NEW e \in M
        PROVE  p.exitOf[e] # h
    <3> SUFFICES ASSUME p.exitOf[e] = h
                 PROVE  FALSE
      OBVIOUS
    <3>1. e \in Edges(p) /\ h # NoBlock
      BY DEF Control, Structured, LoopsOK
    <3>2. h \in Leaving(p, e) /\ \A k \in Leaving(p, e) : h \in Around(p, k)
      BY <3>1 DEF Structured, ExitsRight
    <3>3. h \in Around(p, e[1])
      BY <3>2 DEF Leaving
    <3>4. PICK k \in Leaving(p, e) : k \in G
      BY <1>6, <3>1, <3>3 DEF Control
    <3> QED
      BY <3>2, <3>4 DEF Control
  <2>2. ASSUME NEW u \in p.blocks, u # h
        PROVE  u \in ToDo(p, D2, G2, M, F2) <=> u \in ToDo(p, D, G, M, F)
    <3>1. \A e \in p.ins[u] : e[2] = u
      BY BlockFacts
    <3> QED
      BY <2>1, <2>2, <3>1 DEF ToDo, Done, OpenTo
  <2>3. h \notin ToDo(p, D2, G2, M, F2)
    <3>1. PICK e \in p.ins[h] : Back(p, e)
      BY <1>1, BlockFacts
    <3>2. ~ Done(p, G2, M, F2, e)
      BY <1>2, <3>1 DEF Done
    <3> QED
      BY <3>1, <3>2 DEF ToDo
  <2> QED
    BY <2>2, <2>3 DEF ToDo
<1>12. Takes(p, h, D, G, M, F, D2, G2, M \ R, F2)
  BY <1>3, <1>10, <1>11 DEF Takes
<1> QED
  BY <1>1, <1>2, <1>3, <1>4, <1>12

\* When a header in progress is ready, its loop is processed and the loops
\* inside are finished.
LEMMA LoopProcessed ==
    ASSUME NEW p, Structured(p), NEW D, NEW G, NEW M, NEW F,
           Control(p, D, G, M, F, {}),
           NEW h \in ToDo(p, D, G, M, F) \cap G
    PROVE  /\ p.loops[h] \subseteq D
           /\ \A k \in G : h \in Around(p, k) => k = h
<1> DEFINE L == p.loops[h]
           T == {b \in L : /\ b \in D
                           /\ \A k \in Around(p, b) : h \in Around(p, k) /\ k # h => k \notin G}
<1>1. h \in DOMAIN p.loops /\ h \in p.blocks /\ h \in D /\ L \subseteq p.blocks /\ h \in L
  BY DEF Control, Structured, LoopsOK
<1>2. ASSUME NEW e \in p.ins[h], Back(p, e)
      PROVE  e[1] \in T
  <2>1. e \in Edges(p) /\ e[2] = h /\ e[1] \in D /\ Leaving(p, e) \cap G = {}
    BY <1>1, <1>2, BlockFacts, ReadyEdges
  <2>2. e[1] \in L
    BY <1>2, <2>1 DEF Structured, LoopsOK
  <2>3. ASSUME NEW k \in Around(p, e[1]), h \in Around(p, k), k # h
        PROVE  k \notin G
    <3>1. k \notin Around(p, h)
      BY <1>1, <2>3, BlockFacts
    <3> QED
      BY <2>1, <3>1 DEF Leaving
  <2> QED
    BY <2>1, <2>2, <2>3
<1>3. ASSUME NEW e \in Edges(p), e[2] \in T \ {h}
      PROVE  e[1] \in T
  <2> DEFINE c == e[1]
             b == e[2]
  <2>1. /\ b \in L /\ b \in D /\ b # h /\ b \in p.blocks /\ c \in p.blocks
        /\ \A k \in Around(p, b) : h \in Around(p, k) /\ k # h => k \notin G
    BY <1>3, EdgeFacts
  <2>2. h \in Around(p, b) /\ h \in Around(p, c)
    BY <1>1, <2>1, EdgeFacts DEF Around
  <2>3. c \in L
    BY <2>2 DEF Around
  <2>4. CASE ~ Back(p, e)
    <3>1. c \in D /\ Leaving(p, e) \cap G = {}
      BY <2>1, <2>4 DEF Control
    <3>2. \A k \in Around(p, c) : h \in Around(p, k) /\ k # h => k \notin G
      BY <2>1, <3>1 DEF Leaving
    <3> QED
      BY <2>3, <3>1, <3>2
  <2>5. CASE Back(p, e)
    <3>1. b \in DOMAIN p.loops /\ b \in Around(p, c) /\ b \in Around(p, b)
      BY <2>1, <2>5, EdgeFacts, BlockFacts
    <3>2. b \notin G
      BY <2>1, <2>2, <3>1
    <3>3. c \in D
      BY <2>1, <3>1, <3>2 DEF Control, Around
    <3>4. ASSUME NEW k \in Around(p, c), h \in Around(p, k), k # h, k \in G
          PROVE  FALSE
      <4>1. k \in Around(p, b) \/ b \in Around(p, k)
        BY <2>1, <3>1, BlockFacts
      <4>2. k \notin Around(p, b)
        BY <2>1, <3>4
      <4> QED
        BY <3>2, <3>4, <4>1, <4>2 DEF Control
    <3> QED
      BY <2>3, <3>3, <3>4
  <2> QED
    BY <2>4, <2>5
<1>4. L \ {h} \subseteq T
  <2>1. T \in SUBSET L
    OBVIOUS
  <2> HIDE DEF T
  <2> QED
    BY <1>1, <1>2, <1>3, <2>1 DEF Structured, LoopsOK
<1>5. L \subseteq D
  BY <1>1, <1>4
<1>6. ASSUME NEW k \in G, h \in Around(p, k), k # h
      PROVE  FALSE
  <2>1. k \in L /\ k \in DOMAIN p.loops
    BY <1>6 DEF Around, Control
  <2>2. k \in T /\ k \in Around(p, k)
    BY <1>4, <1>6, <2>1, BlockFacts, <1>1
  <2> QED
    BY <1>6, <2>2
<1> QED
  BY <1>5, <1>6

\* The input of a header that begins another iteration.
LEMMA AgainControl ==
    ASSUME NEW p, Structured(p), NEW D, NEW G, NEW M, NEW F,
           Control(p, D, G, M, F, {}),
           NEW h \in ToDo(p, D, G, M, F) \cap G,
           NEW R, R = BackTo(p, h),
           NEW D2, D2 = (D \ p.loops[h]) \cup {h}
    PROVE  Takes(p, h, D, G, M, F, D2, G, M \ R, F \ {h})
<1> USE DEF BackTo
<1> DEFINE L == p.loops[h]
           M2 == M \ R
<1>1. h \in DOMAIN p.loops /\ h \in p.blocks /\ h \in D /\ L \subseteq p.blocks /\ h \in L
  BY DEF Control, Structured, LoopsOK
<1>2. L \subseteq D /\ \A k \in G : h \in Around(p, k) => k = h
  BY LoopProcessed
<1>3. \A e \in p.ins[h] : /\ e \in Edges(p) /\ e[2] = h /\ e \in M /\ e[1] \in D
  BY <1>1, BlockFacts, ReadyEdges
<1>4. F \ {h} = F
  BY <1>1 DEF Control
<1>5. R # {}
  BY <1>1, BlockFacts
<1>6. \A b : h \in Around(p, b) <=> b \in L
  BY <1>1 DEF Around
<1>7. \A e \in Edges(p) : e[2] = h <=> e \in p.ins[h]
  BY <1>1, EdgeFacts
<1>8. D2 \subseteq D /\ D2 \subseteq p.blocks /\ {h} \subseteq D2
  BY <1>1 DEF Control
<1>9. G \subseteq D2
  BY <1>2, <1>6 DEF Control
<1>10. \A e \in Edges(p) : /\ e[2] = h /\ e[1] \in L => e \in R
                           /\ e[2] \in L /\ e[2] # h => e[1] \in L
                           /\ e \in R => e[2] = h /\ e[1] \in L
  BY <1>1, <1>6, <1>7, EdgeFacts
<1>11. \A e \in M2 : OpenTo(D2, G, e[2])
  BY <1>8 DEF Control, OpenTo
<1>12. ASSUME NEW e \in M2
       PROVE  e[1] \in D2 \ {h} \/ Leaving(p, e) \cap G # {}
  <2> SUFFICES ASSUME Leaving(p, e) \cap G = {}, e[1] \in L
               PROVE  FALSE
    BY <1>1, <1>8 DEF Control
  <2>1. e \in Edges(p) /\ e \notin R /\ OpenTo(D, G, e[2])
    BY DEF Control
  <2>2. e[2] \in L
    BY <1>1, <1>6 DEF Leaving
  <2>3. e[2] # h /\ e[2] \in D
    BY <1>2, <1>10, <2>1, <2>2
  <2> QED
    BY <1>2, <1>6, <2>1, <2>2, <2>3 DEF OpenTo
<1>13. ASSUME NEW e \in Edges(p), e[1] \in D2 \ {h}, OpenTo(D2, G, e[2])
       PROVE  e \in M2
  <2>1. e[1] \in D /\ e[1] \notin L /\ e \notin R
    BY <1>8, <1>10, <1>13
  <2>2. e[2] \notin L \/ e[2] = h
    BY <1>10, <2>1
  <2>3. OpenTo(D, G, e[2])
    BY <1>13, <2>2 DEF OpenTo
  <2> QED
    BY <2>1, <2>3 DEF Control
<1>14. ASSUME NEW e \in Edges(p), ~ Back(p, e), e[2] \in D2
       PROVE  e[1] \in D2 /\ Leaving(p, e) \cap G = {}
  <2>1. e[1] \in D /\ Leaving(p, e) \cap G = {}
    BY <1>8, <1>14 DEF Control
  <2>2. e[1] \notin L
    <3> SUFFICES ASSUME e[1] \in L
                 PROVE  FALSE
      OBVIOUS
    <3>1. e[2] # h
      BY <1>1, <1>6, <1>14, EdgeFacts
    <3>2. e[2] \notin L
      BY <1>14, <3>1
    <3> QED
      BY <1>6, <2>1, <3>2 DEF Leaving
  <2> QED
    BY <2>1, <2>2
<1>15. ASSUME NEW k \in (DOMAIN p.loops \cap D2) \ G
       PROVE  p.loops[k] \subseteq D2
  <2>1. p.loops[k] \subseteq D /\ k \in D /\ k \notin L /\ k \in p.blocks
    BY <1>8, <1>15 DEF Control
  <2> SUFFICES ASSUME NEW b \in p.loops[k], b \in L
               PROVE  FALSE
    BY <2>1
  <2>2. k \in Around(p, b) /\ h \in Around(p, b) /\ b \in p.blocks
    BY <1>1, <1>6 DEF Around
  <2>3. k \in Around(p, h) \/ h \in Around(p, k)
    BY <2>2, BlockFacts
  <2> QED
    BY <1>6, <1>15, <2>1, <2>3 DEF Control
<1>16. ASSUME NEW b \in D2
       PROVE  Around(p, b) \subseteq D2
  <2>1. CASE b = h
    BY <1>9, <2>1 DEF Control
  <2>2. CASE b # h
    <3>1. b \in D /\ b \notin L /\ Around(p, b) \subseteq D /\ b \in p.blocks
      BY <1>8, <2>2 DEF Control
    <3> SUFFICES ASSUME NEW k \in Around(p, b), k \in L
                 PROVE  k = h
      BY <3>1
    <3>2. h \in Around(p, k)
      BY <1>6
    <3>3. h \in Around(p, b)
      BY <3>1, <3>2, BlockFacts
    <3> QED
      BY <1>6, <3>1, <3>3
  <2> QED
    BY <2>1, <2>2
<1>17. ASSUME NEW e \in Edges(p), e[1] = h
       PROVE  LeadsOn(p, D2, G, e)
  <2> SUFFICES ASSUME e[2] \in D2, ~ (Back(p, e) /\ e[2] \in G)
               PROVE  FALSE
    BY DEF LeadsOn
  <2>0. e[2] # h
    BY <1>1, <1>17, EdgeFacts, BlockFacts DEF Control, ToDo
  <2>1. e[2] \notin L /\ e[2] \in D
    BY <1>8, <2>0
  <2>2. CASE ~ Back(p, e)
    <3>1. h \in Leaving(p, e)
      BY <1>1, <1>6, <1>17, <2>1 DEF Leaving
    <3> QED
      BY <2>1, <2>2, <3>1 DEF Control
  <2>3. CASE Back(p, e)
    BY <1>17, <2>3, EdgeFacts DEF Control
  <2> QED
    BY <2>2, <2>3
<1>18. Control(p, D2, G, M2, F, {h})
  <2>1. /\ \A k \in DOMAIN p.loops \cap D2 : k \in F <=> k \notin G
        /\ \A k \in G : Around(p, k) \subseteq G
        /\ G \subseteq DOMAIN p.loops /\ M2 \subseteq Edges(p)
    BY <1>8 DEF Control
  <2> HIDE DEF M2
  <2> QED
    BY <1>8, <1>9, <1>11, <1>12, <1>13, <1>14, <1>15, <1>16, <1>17, <2>1 DEF Control
<1>19. ToDo(p, D2, G, M2, F) = ToDo(p, D, G, M, F) \ {h}
  <2>1. ASSUME NEW u \in p.blocks, u # h
        PROVE  u \in ToDo(p, D2, G, M2, F) <=> u \in ToDo(p, D, G, M, F)
    <3>1. \A e \in p.ins[u] : e[2] = u /\ e \notin R /\ e \in Edges(p)
      BY <1>3, <2>1, BlockFacts
    <3>2. \A e \in p.ins[u] : Done(p, G, M2, F, e) <=> Done(p, G, M, F, e)
      BY <3>1 DEF Done
    <3>3. OpenTo(D, G, u) => OpenTo(D2, G, u)
      BY <1>8 DEF OpenTo
    <3>4. ASSUME u \in ToDo(p, D2, G, M2, F), u \in L
          PROVE  OpenTo(D, G, u)
      <4>1. u # p.main
        BY <1>1, <1>6, <3>4, BlockFacts
      <4>2. PICK e \in p.ins[u] : ~ Back(p, e)
        BY <4>1, BlockFacts
      <4>3. e \in M
        BY <3>4, <4>2 DEF ToDo, Done
      <4> QED
        BY <3>1, <4>3 DEF Control
    <3>5. u \notin L => (OpenTo(D2, G, u) <=> OpenTo(D, G, u))
      BY <2>1 DEF OpenTo
    <3> QED
      BY <2>1, <3>2, <3>3, <3>4, <3>5 DEF ToDo
  <2>2. h \notin ToDo(p, D2, G, M2, F)
    <3>1. PICK e \in p.ins[h] : Back(p, e)
      BY <1>1, BlockFacts
    <3>2. ~ Done(p, G, M2, F, e)
      BY <1>3, <3>1 DEF Done
    <3> QED
      BY <3>1, <3>2 DEF ToDo
  <2> QED
    BY <2>1, <2>2 DEF ToDo
<1>20. Takes(p, h, D, G, M, F, D2, G, M2, F)
  BY <1>18, <1>19, Zenon DEF Takes
<1> QED
  BY <1>3, <1>4, <1>5, <1>20

\* The input of a header whose fix point is reached.
LEMMA FixControl ==
    ASSUME NEW p, Structured(p), NEW D, NEW G, NEW M, NEW F,
           Control(p, D, G, M, F, {}),
           NEW h \in ToDo(p, D, G, M, F) \cap G,
           NEW X, X = ExitsOf(p, h)
    PROVE  Finishes(p, h, X, D, G, M, F, G \ {h}, M \ p.ins[h], F \cup {h})
<1> USE DEF ExitsOf
<1> DEFINE L == p.loops[h]
           M2 == M \ p.ins[h]
           G2 == G \ {h}
           F2 == F \cup {h}
<1>1. h \in DOMAIN p.loops /\ h \in p.blocks /\ h \in D /\ L \subseteq p.blocks /\ h \in L
  BY DEF Control, Structured, LoopsOK
<1>2. L \subseteq D /\ \A k \in G : h \in Around(p, k) => k = h
  BY LoopProcessed
<1>3. \A e \in p.ins[h] : /\ e \in Edges(p) /\ e[2] = h /\ e \in M /\ e[1] \in D
  BY <1>1, BlockFacts, ReadyEdges
<1>4. \A e \in Edges(p) : e[2] = h <=> e \in p.ins[h]
  BY <1>1, EdgeFacts
<1>5. ASSUME NEW e \in Edges(p), e[1] \in D, OpenTo(D, G2, e[2])
      PROVE  e \in M2
  <2>1. e \in M
    BY <1>5 DEF Control, OpenTo
  <2>2. e[2] # h
    BY <1>1, <1>5 DEF OpenTo
  <2> QED
    BY <1>4, <2>1, <2>2
<1>6. ASSUME NEW e \in M2
      PROVE  e[1] \in D \/ Leaving(p, e) \cap G2 # {}
  <2>1. e[1] \in D \/ Leaving(p, e) \cap G # {}
    BY DEF Control
  <2>2. h \in Leaving(p, e) => e[1] \in D
    BY <1>2 DEF Leaving, Around
  <2> QED
    BY <2>1, <2>2
<1>7. Control(p, D, G2, M2, F2, {})
  <2>1. D \subseteq p.blocks /\ G2 \subseteq DOMAIN p.loops /\ M2 \subseteq Edges(p)
    BY DEF Control
  <2>2. \A e \in M2 : OpenTo(D, G2, e[2])
    BY <1>4, <2>1 DEF Control, OpenTo
  <2>3. \A e \in Edges(p) : ~ Back(p, e) /\ e[2] \in D
                               => e[1] \in D /\ Leaving(p, e) \cap G2 = {}
    BY DEF Control
  <2>4. G2 \subseteq D /\ \A k \in G2 : Around(p, k) \subseteq G2
    BY <1>2 DEF Control
  <2>5. \A k \in (DOMAIN p.loops \cap D) \ G2 : p.loops[k] \subseteq D
    BY <1>2 DEF Control
  <2>6. /\ \A b \in D : Around(p, b) \subseteq D
        /\ \A k \in DOMAIN p.loops \cap D : k \in F2 <=> k \notin G2
    BY DEF Control
  <2> HIDE DEF G2, M2, F2
  <2> QED
    BY <1>5, <1>6, <2>1, <2>2, <2>3, <2>4, <2>5, <2>6 DEF Control
<1>8. ASSUME NEW e \in X
      PROVE  /\ LeadsOn(p, D, G2, e) /\ h \in Leaving(p, e)
             /\ e \in M2 /\ e \in Edges(p) /\ (Back(p, e) => e[2] \in G)
  <2>1. e \in Edges(p) /\ h # NoBlock
    BY <1>1 DEF Structured, LoopsOK
  <2>2. h \in Leaving(p, e)
    BY <2>1 DEF Structured, ExitsRight
  <2>3. h \in Around(p, e[1]) /\ h \notin Around(p, e[2]) /\ e[1] \in L
    BY <2>2 DEF Leaving, Around
  <2>4. ASSUME Back(p, e)
        PROVE  e[2] \in G /\ e[2] # h
    <3>1. e[2] \in Around(p, e[1]) /\ e[1] \in p.blocks /\ e[2] \in p.blocks
      BY <2>1, <2>4, EdgeFacts
    <3>2. e[2] \in Around(p, h)
      BY <2>3, <3>1, BlockFacts
    <3> QED
      BY <1>1, <2>3, <3>2, BlockFacts DEF Control
  <2>5. ~ Back(p, e) => e[2] \notin D
    BY <2>1, <2>2 DEF Control
  <2>6. LeadsOn(p, D, G2, e) /\ OpenTo(D, G2, e[2])
    BY <2>4, <2>5 DEF OpenTo, LeadsOn
  <2>7. e \in M2
    BY <1>2, <1>5, <2>1, <2>3, <2>6
  <2> QED
    BY <2>1, <2>2, <2>4, <2>6, <2>7
<1>9. ToDo(p, D, G2, M2, F2) \ {e[2] : e \in X} = ToDo(p, D, G, M, F) \ {h}
  <2>1. ASSUME NEW u \in p.blocks, u # h, u \notin {e[2] : e \in X}
        PROVE  u \in ToDo(p, D, G2, M2, F2) <=> u \in ToDo(p, D, G, M, F)
    <3>1. \A e \in p.ins[u] : /\ e[2] = u /\ e \notin p.ins[h] /\ e \in Edges(p)
                              /\ p.exitOf[e] # h
      BY <1>3, <2>1, BlockFacts
    <3> QED
      BY <2>1, <3>1 DEF ToDo, Done, OpenTo
  <2>2. ASSUME NEW e \in X
        PROVE  e[2] \notin ToDo(p, D, G, M, F)
    <3>1. ~ Done(p, G, M, F, e)
      <4>1. h \notin F /\ h # NoBlock /\ p.exitOf[e] = h
        BY <1>1 DEF Control, Structured, LoopsOK
      <4> QED
        BY <1>8, <4>1 DEF Done
    <3>2. e \in p.ins[e[2]] /\ e[2] \in p.blocks
      BY <1>8, EdgeFacts
    <3> QED
      BY <3>1, <3>2 DEF ToDo
  <2>3. h \notin ToDo(p, D, G2, M2, F2)
    BY <1>1 DEF ToDo, OpenTo
  <2> QED
    BY <2>1, <2>2, <2>3 DEF ToDo
<1>10. Finishes(p, h, X, D, G, M, F, G2, M2, F2)
  <2>1. X \subseteq M2
    BY <1>8
  <2> QED
    BY <1>7, <1>8, <1>9, <2>1, Zenon DEF Finishes
<1> QED
  BY <1>10

\* The output of a block: its edges get a state, and what this makes ready
\* was not.
LEMMA OutputControl ==
    ASSUME NEW p, Structured(p), NEW D, NEW G, NEW M, NEW F, NEW b,
           Control(p, D, G, M, F, {b}),
           NEW O, O = OutOf(p, b)
    PROVE  Marks(p, O, D, G, M, F, M \cup O)
<1> USE DEF OutOf
<1> DEFINE M2 == M \cup O
<1>1. b \in D /\ b \in p.blocks /\ \A e \in O : OpenTo(D, G, e[2])
  BY DEF Control, LeadsOn, OpenTo
<1>2. ASSUME NEW e \in O, e[2] \in ToDo(p, D, G, M, F)
      PROVE  FALSE
  <2>1. e \in p.ins[e[2]] /\ e[1] = b
    BY EdgeFacts
  <2>2. ~ (~ Back(p, e) \/ e[2] \in G)
    BY <1>2, <2>1, ReadyEdges
  <2> QED
    BY <1>1, <1>2, <2>1, <2>2, ReadyEdges
<1>3. Control(p, D, G, M2, F, {})
  <2>1. /\ M2 \subseteq Edges(p)
        /\ \A e \in M2 : OpenTo(D, G, e[2])
        /\ \A e \in M2 : e[1] \in D \/ Leaving(p, e) \cap G # {}
        /\ \A e \in Edges(p) : e[1] \in D /\ OpenTo(D, G, e[2]) => e \in M2
    BY <1>1 DEF Control
  <2> HIDE DEF M2
  <2> QED
    BY <2>1 DEF Control
<1>4. ASSUME NEW u \in p.blocks, u \notin {e[2] : e \in O}
      PROVE  u \in ToDo(p, D, G, M2, F) <=> u \in ToDo(p, D, G, M, F)
  <2>1. \A e \in p.ins[u] : e \in Edges(p) /\ e[2] = u /\ e \notin O
    BY <1>4, BlockFacts
  <2> QED
    BY <2>1 DEF ToDo, Done
<1>5. \A e \in O : e[2] \in p.blocks
  BY EdgeFacts
<1>6. \A u : /\ u \in ToDo(p, D, G, M2, F) => u \in p.blocks
             /\ u \in ToDo(p, D, G, M, F) => u \in p.blocks
  BY DEF ToDo
<1>7. \A u \in {e[2] : e \in O} :
          u \in ToDo(p, D, G, M2, F) <=> \A e \in p.ins[u] : Done(p, G, M2, F, e)
  BY <1>1, <1>5 DEF ToDo
<1> HIDE DEF M2
<1>8. \A e \in O : e[2] \notin ToDo(p, D, G, M, F)
  BY <1>2
<1>9. ToDo(p, D, G, M2, F) = ToDo(p, D, G, M, F)
                   \cup {v \in {e[2] : e \in O} :
                            \A e \in p.ins[v] : Done(p, G, M2, F, e)}
  BY <1>2, <1>4, <1>5, <1>6, <1>7
<1> QED
  BY <1>3, <1>8, <1>9, Zenon DEF Marks, M2

\* When no block is ready, all are processed and no loop is in progress.
LEMMA EndControl ==
    ASSUME NEW p, Structured(p), NEW D, NEW G, NEW M, NEW F,
           Control(p, D, G, M, F, {}), p.main \in D,
           ToDo(p, D, G, M, F) = {}
    PROVE  D = p.blocks /\ G = {} /\ M = {}
<1>1. ASSUME NEW S \in SUBSET (p.blocks \ D), S # {},
             \A v \in S : \A e \in p.ins[v] :
                 ~ Back(p, e) => /\ e[1] \in D \cup S
                                 /\ Leaving(p, e) \cap G = {}
      PROVE  FALSE
  <2>1. PICK v \in S : \A e \in p.ins[v] : e[1] \in S => Back(p, e)
    <3>1. S \in SUBSET p.blocks
      OBVIOUS
    <3> QED
      BY <1>1, <3>1, Zenon DEF Structured, NoCycle
  <2>2. v \in p.blocks /\ v \notin D /\ v \notin G
    BY DEF Control
  <2>3. ASSUME NEW e \in p.ins[v], ~ Back(p, e)
        PROVE  e \in M /\ (p.exitOf[e] = NoBlock \/ p.exitOf[e] \in F)
    <3>1. e \in Edges(p) /\ e[2] = v /\ e[1] \in D /\ Leaving(p, e) \cap G = {}
      BY <1>1, <2>1, <2>2, <2>3, BlockFacts
    <3>2. e \in M
      BY <2>2, <3>1 DEF Control, OpenTo
    <3>3. Leaving(p, e) # {} => /\ p.exitOf[e] \in Leaving(p, e)
                                /\ p.exitOf[e] \in D \cap DOMAIN p.loops
      BY <3>1 DEF Structured, ExitsRight, Control, Leaving, Around
    <3>4. Leaving(p, e) = {} => p.exitOf[e] = NoBlock
      BY <3>1 DEF Structured, ExitsRight
    <3> QED
      BY <3>1, <3>2, <3>3, <3>4 DEF Control
  <2>4. \A e \in p.ins[v] : e[2] = v
    BY <2>2, BlockFacts
  <2>5. v \in ToDo(p, D, G, M, F)
    BY <2>2, <2>3, <2>4 DEF ToDo, OpenTo, Done
  <2> QED
    BY <2>5
<1>2. G = {}
  <2> SUFFICES ASSUME G # {}
               PROVE  FALSE
    OBVIOUS
  <2> DEFINE N == {Cardinality(p.loops[k]) : k \in G}
  <2>1. \A k \in G : IsFiniteSet(p.loops[k]) /\ Cardinality(p.loops[k]) \in Nat
    <3>1. \A k \in G : p.loops[k] \subseteq p.blocks
      BY DEF Control, Structured, LoopsOK
    <3>2. IsFiniteSet(p.blocks)
      BY DEF Structured, OneGraph
    <3>3. \A k \in G : IsFiniteSet(p.loops[k])
      BY <3>1, <3>2, FS_Subset
    <3> QED
      BY <3>3, FS_CardinalityType
  <2>2. PICK n \in N : \A m \in N : n <= m
    <3>1. N \in SUBSET Nat /\ N # {}
      BY <2>1
    <3> HIDE DEF N
    <3> QED
      BY <3>1, LeastElement
  <2>3. PICK h \in G : Cardinality(p.loops[h]) = n
    OBVIOUS
  <2> DEFINE L == p.loops[h]
  <2>4. h \in D /\ h \in DOMAIN p.loops /\ h \in p.blocks /\ L \subseteq p.blocks /\ h \in L
    BY DEF Control, Structured, LoopsOK
  <2>5. ASSUME NEW k \in G, h \in Around(p, k)
        PROVE  k = h
    <3>1. k \in DOMAIN p.loops /\ k \in p.blocks
      BY DEF Control, Structured, LoopsOK
    <3>2. p.loops[k] \subseteq L
      BY <2>5, <3>1 DEF Structured, LoopsOK
    <3>3. Cardinality(p.loops[k]) <= Cardinality(L)
      BY <2>1, <3>2, FS_Subset
    <3>4. Cardinality(L) <= Cardinality(p.loops[k])
      BY <2>2, <2>3
    <3>5. Cardinality(p.loops[k]) = Cardinality(L)
      BY <2>1, <3>3, <3>4
    <3>6. p.loops[k] = L
      BY <2>1, <3>2, <3>5, FS_Subset
    <3>7. k \in Around(p, h)
      BY <2>4, <3>1, <3>6 DEF Around
    <3> QED
      BY <2>5, <3>1, <3>7, BlockFacts
  <2>6. L \subseteq D
    <3> DEFINE S == L \ D
    <3> SUFFICES ASSUME S # {}
                 PROVE  FALSE
      OBVIOUS
    <3>1. S \in SUBSET (p.blocks \ D)
      BY <2>4
    <3>2. ASSUME NEW v \in S, NEW e \in p.ins[v], ~ Back(p, e)
          PROVE  e[1] \in D \cup S /\ Leaving(p, e) \cap G = {}
      <4>1. e \in Edges(p) /\ e[2] = v /\ h \in Around(p, v) /\ v # h /\ v \in p.blocks
        BY <2>4, <3>2, BlockFacts DEF Around
      <4>2. h \in Around(p, e[1]) /\ e[1] \in L /\ e[1] \in p.blocks
        BY <4>1, EdgeFacts DEF Around
      <4>3. ASSUME NEW k \in Leaving(p, e), k \in G
            PROVE  FALSE
        <5>1. k \in Around(p, e[1]) /\ k \notin Around(p, v)
          BY <4>1 DEF Leaving
        <5>2. h \in Around(p, k) \/ k \in Around(p, h)
          BY <4>2, <5>1, BlockFacts
        <5>3. h \in Around(p, k)
          BY <4>1, <5>1, <5>2, BlockFacts
        <5> QED
          BY <2>5, <4>1, <4>3, <5>1, <5>3
      <4> QED
        BY <4>2, <4>3
    <3> HIDE DEF S
    <3> QED
      BY <1>1, <3>1, <3>2
  <2>7. ASSUME NEW e \in p.ins[h]
        PROVE  Done(p, G, M, F, e)
    <3>1. e \in Edges(p) /\ e[2] = h
      BY <2>4, BlockFacts
    <3>2. e[1] \in D /\ Leaving(p, e) \cap G = {}
      <4>1. CASE ~ Back(p, e)
        BY <2>4, <3>1, <4>1 DEF Control
      <4>2. CASE Back(p, e)
        <5>1. h \in Around(p, e[1]) /\ e[1] \in L /\ e[1] \in p.blocks
          BY <3>1, <4>2, EdgeFacts DEF Around
        <5>2. ASSUME NEW k \in Leaving(p, e), k \in G
              PROVE  FALSE
          <6>1. k \in Around(p, e[1]) /\ k \notin Around(p, h)
            BY <3>1 DEF Leaving
          <6>2. h \in Around(p, k)
            BY <5>1, <6>1, BlockFacts
          <6> QED
            BY <2>4, <2>5, <5>2, <6>1, <6>2, BlockFacts
        <5> QED
          BY <2>6, <5>1, <5>2
      <4> QED
        BY <4>1, <4>2
    <3>3. e \in M
      BY <3>1, <3>2 DEF Control, OpenTo
    <3>4. Leaving(p, e) # {} => /\ p.exitOf[e] \in Leaving(p, e)
                                /\ p.exitOf[e] \in D \cap DOMAIN p.loops
      BY <3>1, <3>2 DEF Structured, ExitsRight, Control, Leaving, Around
    <3>5. Leaving(p, e) = {} => p.exitOf[e] = NoBlock
      BY <3>1 DEF Structured, ExitsRight
    <3> QED
      BY <3>2, <3>3, <3>4, <3>5 DEF Control, Done
  <2>8. h \in ToDo(p, D, G, M, F)
    BY <2>4, <2>7 DEF ToDo, OpenTo
  <2> QED
    BY <2>8
<1>3. D = p.blocks
  <2> DEFINE S == p.blocks \ D
  <2>1. ASSUME S # {}
        PROVE  FALSE
    <3>1. \A v \in S : \A e \in p.ins[v] : e[1] \in D \cup S
      BY BlockFacts, EdgeFacts
    <3> HIDE DEF S
    <3>2. S \in SUBSET (p.blocks \ D)
      BY DEF S
    <3> QED
      BY <1>1, <1>2, <2>1, <3>1, <3>2
  <2> QED
    BY <2>1 DEF Control
<1>4. M = {}
  <2> SUFFICES ASSUME NEW e \in M
               PROVE  FALSE
    OBVIOUS
  <2>1. e \in Edges(p) /\ OpenTo(D, G, e[2])
    BY DEF Control
  <2> QED
    BY <1>2, <1>3, <2>1, EdgeFacts DEF OpenTo
<1> QED
  BY <1>2, <1>3, <1>4

-----------------------------------------------------------------------------
\* Induction over the naturals, said of the set of those that satisfy it.
LEMMA AllNaturals ==
    ASSUME NEW T \in SUBSET Nat, 0 \in T, \A n \in T : n + 1 \in T
    PROVE  T = Nat
<1> SUFFICES ASSUME Nat \ T # {}
             PROVE  FALSE
  OBVIOUS
<1>1. PICK x \in Nat \ T : \A y \in Nat \ T : x <= y
  <2>1. Nat \ T \in SUBSET Nat
    OBVIOUS
  <2> QED
    BY <2>1, LeastElement
<1>2. x - 1 \in Nat /\ ~ (x <= x - 1) /\ (x - 1) + 1 = x
  BY <1>1
<1>3. x - 1 \in T
  BY <1>1, <1>2
<1> QED
  BY <1>1, <1>2, <1>3

\* A list with one more item, and without its last one.
LEMMA AppendItems ==
    ASSUME NEW X, NEW s \in Seq(X), NEW v \in X
    PROVE  /\ Append(s, v) \in Seq(X)
           /\ Items(Append(s, v)) = Items(s) \cup {v}
           /\ Once(s) /\ v \notin Items(s) => Once(Append(s, v))
<1> DEFINE t == Append(s, v)
<1>1. /\ t \in Seq(X) /\ Len(t) = Len(s) + 1 /\ Len(s) \in Nat
      /\ \A i \in 1 .. Len(s) : t[i] = s[i]
      /\ t[Len(s) + 1] = v
  OBVIOUS
<1> HIDE DEF t
<1>2. Items(t) = Items(s) \cup {v}
  BY <1>1 DEF Items
<1>3. ASSUME Once(s), v \notin Items(s)
      PROVE  Once(t)
  BY <1>1, <1>3 DEF Items, Once
<1> QED
  BY <1>1, <1>2, <1>3 DEF t

\* A list without its last item.
LEMMA PopItems ==
    ASSUME NEW X, NEW s \in Seq(X), s # <<>>, Once(s),
           NEW t, t = SubSeq(s, 1, Len(s) - 1)
    PROVE  /\ s[Len(s)] \in X /\ s[Len(s)] \in Items(s)
           /\ ListOf(t, X, Items(s) \ {s[Len(s)]})
<1>1. /\ Len(s) \in Nat /\ Len(s) # 0 /\ Len(s) \in 1 .. Len(s)
  OBVIOUS
<1>2. /\ t \in Seq(X) /\ Len(t) = Len(s) - 1
      /\ \A i \in 1 .. Len(s) - 1 : t[i] = s[i]
  <2>0. ASSUME NEW n \in Nat, n # 0
        PROVE  /\ 1 \in 1 .. n + 1 /\ n - 1 \in 0 .. n
               /\ \A i \in 1 .. n - 1 : 1 + i - 1 = i
               /\ 1 <= n - 1 => (n - 1) - 1 + 1 = n - 1
               /\ ~ (1 <= n - 1) => n - 1 = 0
    BY <2>0
  <2>1. /\ 1 \in 1 .. Len(s) + 1 /\ Len(s) - 1 \in 0 .. Len(s)
        /\ \A i \in 1 .. Len(s) - 1 : 1 + i - 1 = i
        /\ 1 <= Len(s) - 1 => (Len(s) - 1) - 1 + 1 = Len(s) - 1
        /\ ~ (1 <= Len(s) - 1) => Len(s) - 1 = 0
    BY <1>1, <2>0
  <2>2. \A i \in 1 .. Len(s) - 1 : s[i] \in X
    BY <1>1
  <2> QED
    BY <2>1, <2>2, SubSeqProperties
<1>3. Once(t)
  BY <1>1, <1>2 DEF Once
<1>4. Items(t) = Items(s) \ {s[Len(s)]}
  <2>1. \A i \in 1 .. Len(s) : s[i] = s[Len(s)] => i = Len(s)
    BY <1>1 DEF Once
  <2>2. \A i \in 1 .. Len(s) : i \in 1 .. Len(t) \/ i = Len(s)
    BY <1>1, <1>2
  <2>3. \A i \in 1 .. Len(t) : i \in 1 .. Len(s) /\ i # Len(s) /\ t[i] = s[i]
    BY <1>1, <1>2
  <2> QED
    BY <2>1, <2>2, <2>3 DEF Items
<1>5. s[Len(s)] \in X
  BY <1>1
<1>6. s[Len(s)] \in Items(s)
  BY <1>1 DEF Items
<1>7. ListOf(t, X, Items(s) \ {s[Len(s)]})
  BY <1>2, <1>3, <1>4, Zenon DEF ListOf
<1> QED
  BY <1>5, <1>6, <1>7

-----------------------------------------------------------------------------
(* The loops in progress, and what the engine looks at.                    *)
Going == Headers \ first

\* isEdgeDone and tryAddToWorkList depend on which edges have a state.
LEMMA ReadyIsDone ==
    ASSUME Structured(prog), NEW m, NEW v \in prog.blocks
    PROVE  Ready(m, v) <=> \A e \in prog.ins[v] : Done(prog, Going, DOMAIN m, fixed, e)
<1>1. ASSUME NEW e \in prog.ins[v]
      PROVE  EdgeDone(m, e) <=> Done(prog, Going, DOMAIN m, fixed, e)
  <2>1. e \in Edges(prog)
    BY BlockFacts
  <2>2. Dominated(e) => e[2] \in Headers
    BY <2>1, EdgeFacts DEF Dominated, Back, Headers
  <2> QED
    BY <2>2 DEF EdgeDone, Done, Dominated, Back, Going
<1> QED
  BY <1>1 DEF Ready

(* S is what addSuccessors went through.                                   *)
TurnsOf(S, edges, m, x) ==
    /\ S[0] = [mark |-> m, work |-> work]
    /\ AddSuccessors(m, x) = S[Len(edges)]
    /\ \A i \in 0 .. Len(edges) - 1 : S[i + 1] = Added(S[i], edges[i + 1], x)

\* addSuccessors is the repetition of its turns.
LEMMA AddSuccessorsTurns ==
    ASSUME NEW K, NEW edges \in Seq(K), edges = prog.out[current], NEW m, NEW x
    PROVE  \E S : TurnsOf(S, edges, m, x)
<1> DEFINE N == Len(edges)
           s0 == [mark |-> m, work |-> work]
           F(n, S) == [i \in 0 .. n |-> IF i = 0 THEN s0 ELSE Added(S[i - 1], edges[i], x)]
           S0 == CHOOSE S : S = F(N, S)
<1>1. AddSuccessors(m, x) = S0[N]
  BY DEF AddSuccessors
<1>2. N \in Nat
  OBVIOUS
<1> HIDE DEF s0
<1>3. \E S : S = F(N, S)
  <2> DEFINE T == {n \in Nat : \E S : S = F(n, S)}
  <2>1. 0 \in T
    <3> DEFINE S == [i \in 0 .. 0 |-> s0]
    <3>1. S = F(0, S)
      OBVIOUS
    <3> QED
      BY <3>1
  <2>2. ASSUME NEW n \in T
        PROVE  n + 1 \in T
    <3>1. PICK S : S = F(n, S)
      BY <2>2
    <3> DEFINE last == Added(S[n], edges[n + 1], x)
               U == [i \in 0 .. n + 1 |-> IF i \in 0 .. n THEN S[i] ELSE last]
    <3> HIDE DEF last
    <3>2. ASSUME NEW i \in 0 .. n + 1
          PROVE  U[i] = F(n + 1, U)[i]
      <4>1. CASE i = 0
        BY <3>1, <4>1
      <4>2. CASE i \in 1 .. n
        <5>1. i \in 0 .. n /\ i - 1 \in 0 .. n /\ i - 1 \in 0 .. n + 1 /\ i # 0
          BY <4>2
        <5>2. U[i] = S[i] /\ U[i - 1] = S[i - 1]
          BY <5>1
        <5>3. S[i] = Added(S[i - 1], edges[i], x)
          BY <3>1, <5>1
        <5> HIDE DEF U
        <5>4. F(n + 1, U)[i] = Added(U[i - 1], edges[i], x)
          BY <5>1
        <5> QED
          BY <5>2, <5>3, <5>4
      <4>3. CASE i = n + 1
        <5>1. i \notin 0 .. n /\ i - 1 = n /\ n \in 0 .. n /\ n \in 0 .. n + 1 /\ i # 0
          BY <4>3
        <5>2. U[n] = S[n]
          BY <5>1
        <5>3. U[i] = last
          BY <5>1
        <5> HIDE DEF U
        <5>4. F(n + 1, U)[i] = Added(U[i - 1], edges[i], x)
          BY <5>1
        <5> QED
          BY <4>3, <5>1, <5>2, <5>3, <5>4 DEF last
      <4> QED
        BY <4>1, <4>2, <4>3
    <3>3. U = F(n + 1, U)
      BY <3>2
    <3>4. \E V : V = F(n + 1, V)
      <4> HIDE DEF U, F
      <4> QED
        BY <3>3
    <3> HIDE DEF F
    <3> QED
      BY <3>4
  <2>3. T = Nat
    <3> HIDE DEF T
    <3>1. T \in SUBSET Nat
      BY DEF T
    <3> QED
      BY <2>1, <2>2, <3>1, AllNaturals
  <2> QED
    BY <1>2, <2>3
<1>4. S0 = F(N, S0)
  BY <1>3
<1> HIDE DEF S0
<1>5. S0[0] = s0
  BY <1>2, <1>4
<1>6. ASSUME NEW i \in 0 .. N - 1
      PROVE  S0[i + 1] = Added(S0[i], edges[i + 1], x)
  <2>1. i + 1 \in 0 .. N /\ i + 1 # 0 /\ (i + 1) - 1 = i
    BY <1>2
  <2> QED
    BY <1>4, <2>1
<1> QED
  BY <1>1, <1>5, <1>6 DEF s0, TurnsOf

(* What addSuccessors does to the states and to the list T.                *)
SuccessorsAdded(O, T, m, x, new) ==
    /\ DOMAIN new.mark = DOMAIN m \cup O
    /\ \A e \in O : new.mark[e] = AcsLub(IF e \in DOMAIN m THEN m[e] ELSE AcsBottom, x)
    /\ \A e \in DOMAIN m \ O : new.mark[e] = m[e]
    /\ ListOf(new.work, prog.blocks,
              T \cup {v \in {e[2] : e \in O} :
                         \A e \in prog.ins[v] : Done(prog, Going, DOMAIN m \cup O, fixed, e)})

\* What addSuccessors does: all the edges out of the block get the state, and
\* the targets that this makes ready are added, once each.
LEMMA AddSuccessorsFacts ==
    ASSUME Structured(prog), current \in prog.blocks,
           NEW T, ListOf(work, prog.blocks, T),
           NEW m, NEW x,
           NEW O, O = OutOf(prog, current),
           \A e \in O : e[2] \notin T,
           NEW new, new = AddSuccessors(m, x)
    PROVE  SuccessorsAdded(O, T, m, x, new)
<1> USE DEF OutOf
<1> DEFINE out == prog.out[current]
           N == Len(out)
           Upto(i) == {out[j] : j \in 1 .. i}
           Ripe == {e \in O : \A d \in prog.ins[e[2]] :
                                 Done(prog, Going, DOMAIN m \cup O, fixed, d)}
           Val(e) == AcsLub(IF e \in DOMAIN m THEN m[e] ELSE AcsBottom, x)
<1>0. work \in Seq(prog.blocks) /\ Once(work) /\ Items(work) = T
  BY DEF ListOf
<1>1. out \in Seq(Edges(prog)) /\ Items(out) = O /\ Once(out) /\ N \in Nat
  BY DEF Structured, OneGraph
<1>2. PICK S : /\ S[0] = [mark |-> m, work |-> work]
               /\ AddSuccessors(m, x) = S[N]
               /\ \A i \in 0 .. N - 1 : S[i + 1] = Added(S[i], out[i + 1], x)
  <2> DEFINE K == Edges(prog)
  <2> HIDE DEF K, OutOf, Upto, Ripe, Val
  <2>1. out \in Seq(K)
    BY <1>1 DEF K
  <2>2. PICK edges \in Seq(K) : edges = prog.out[current]
    BY <2>1
  <2>3. \E S : TurnsOf(S, edges, m, x)
    BY <2>2, AddSuccessorsTurns, Zenon
  <2> QED
    BY <2>2, <2>3 DEF TurnsOf
<1> DEFINE I(i) == /\ DOMAIN S[i].mark = DOMAIN m \cup Upto(i)
                   /\ \A e \in Upto(i) : S[i].mark[e] = Val(e)
                   /\ \A e \in DOMAIN m \ Upto(i) : S[i].mark[e] = m[e]
                   /\ S[i].work \in Seq(prog.blocks) /\ Once(S[i].work)
                   /\ Items(S[i].work) = Items(work) \cup {e[2] : e \in Upto(i) \cap Ripe}
<1>3. I(0)
  <2>1. Upto(0) = {}
    OBVIOUS
  <2>2. S[0].mark = m /\ S[0].work = work
    BY <1>2
  <2> HIDE DEF Upto, Ripe
  <2>3. {e[2] : e \in Upto(0) \cap Ripe} = {}
    BY <2>1
  <2> QED
    BY <1>0, <2>1, <2>2, <2>3
<1>4. \A j \in 1 .. N : out[j] \in O
  BY <1>1 DEF Items
<1>5. \A e \in O : /\ e \in Edges(prog) /\ e[1] = current /\ e[2] \in prog.blocks
                   /\ e = <<current, e[2]>>
  BY DEF Structured, OneGraph
<1> HIDE DEF Val
<1>6. ASSUME NEW i \in 0 .. N - 1, I(i)
      PROVE  I(i + 1)
  <2> DEFINE e == out[i + 1]
             acc == S[i]
             nm == Mark(acc.mark, e, x)
  <2>1. i \in Nat /\ i + 1 \in 1 .. N /\ 1 .. i + 1 = (1 .. i) \cup {i + 1}
    BY <1>1
  <2>2. e \in O /\ e \notin Upto(i)
    <3>1. \A j \in 1 .. i : j \in 1 .. N /\ j # i + 1
      BY <1>1
    <3> QED
      BY <1>1, <1>4, <2>1, <3>1 DEF Once
  <2>3. Upto(i + 1) = Upto(i) \cup {e}
    BY <2>1
  <2>4. Upto(i) \subseteq O
    <3>1. \A j \in 1 .. i : j \in 1 .. N
      BY <1>1
    <3> QED
      BY <1>4, <3>1
  <2>5. S[i + 1] = [mark |-> nm, work |-> TryAdd(acc.work, nm, e[2])]
    BY <1>2 DEF Added
  <2> HIDE DEF Upto, e, acc, N, out
  <2>6. /\ DOMAIN nm = DOMAIN m \cup Upto(i + 1)
        /\ \A f \in Upto(i + 1) : nm[f] = Val(f)
        /\ \A f \in DOMAIN m \ Upto(i + 1) : nm[f] = m[f]
    <3>1. /\ DOMAIN acc.mark = DOMAIN m \cup Upto(i)
          /\ \A f \in Upto(i) : acc.mark[f] = Val(f)
          /\ \A f \in DOMAIN m \ Upto(i) : acc.mark[f] = m[f]
      BY <1>6 DEF acc
    <3>2. DOMAIN nm = DOMAIN acc.mark \cup {e}
      BY DEF Mark
    <3>3. \A f \in DOMAIN acc.mark \cup {e} :
              nm[f] = IF f # e THEN acc.mark[f]
                      ELSE AcsLub(IF e \in DOMAIN acc.mark THEN acc.mark[e] ELSE AcsBottom, x)
      BY DEF Mark
    <3> HIDE DEF nm
    <3>4. nm[e] = Val(e)
      BY <2>2, <3>1, <3>3 DEF Val
    <3> QED
      BY <2>3, <2>2, <3>1, <3>2, <3>3, <3>4
  <2> HIDE DEF nm
  <2>7. Ready(nm, e[2]) <=> e \in Ripe
    <3>1. e[2] \in prog.blocks
      BY <1>5, <2>2
    <3>2. Ready(nm, e[2]) <=> \A d \in prog.ins[e[2]] : Done(prog, Going, DOMAIN nm, fixed, d)
      BY <3>1, ReadyIsDone
    <3>3. ASSUME NEW d \in prog.ins[e[2]]
          PROVE  d \in DOMAIN nm <=> d \in DOMAIN m \cup O
      <4>1. d \in Edges(prog) /\ d[2] = e[2]
        BY <3>1, BlockFacts
      <4>2. d \in O => d = e
        BY <1>5, <2>2, <4>1
      <4> QED
        BY <2>2, <2>3, <2>4, <2>6, <4>2
    <3> QED
      BY <2>2, <3>2, <3>3 DEF Done
  <2>8. e[2] \in prog.blocks /\ e[2] \notin Items(acc.work)
    <3>1. e[2] \in prog.blocks /\ e[2] \notin Items(work)
      BY <1>0, <1>5, <2>2
    <3>2. ASSUME NEW d \in Upto(i), d[2] = e[2]
          PROVE  FALSE
      BY <1>5, <2>2, <2>4, <3>2
    <3> QED
      BY <1>6, <3>1, <3>2 DEF acc
  <2> HIDE DEF Ripe
  <2>9. /\ TryAdd(acc.work, nm, e[2]) \in Seq(prog.blocks)
        /\ Once(TryAdd(acc.work, nm, e[2]))
        /\ Items(TryAdd(acc.work, nm, e[2])) = Items(work) \cup {d[2] : d \in Upto(i + 1) \cap Ripe}
    <3>1. /\ acc.work \in Seq(prog.blocks) /\ Once(acc.work)
          /\ Items(acc.work) = Items(work) \cup {d[2] : d \in Upto(i) \cap Ripe}
      BY <1>6 DEF acc
    <3>2. CASE e \in Ripe
      <4>1. TryAdd(acc.work, nm, e[2]) = Append(acc.work, e[2])
        BY <2>7, <3>2 DEF TryAdd
      <4>2. /\ Append(acc.work, e[2]) \in Seq(prog.blocks)
            /\ Items(Append(acc.work, e[2])) = Items(acc.work) \cup {e[2]}
            /\ Once(Append(acc.work, e[2]))
        <5>1. PICK w, v : w = acc.work /\ v = e[2]
          OBVIOUS
        <5>2. w \in Seq(prog.blocks) /\ Once(w) /\ v \in prog.blocks /\ v \notin Items(w)
          BY <2>8, <3>1, <5>1
        <5>3. /\ Append(w, v) \in Seq(prog.blocks)
              /\ Items(Append(w, v)) = Items(w) \cup {v}
              /\ Once(Append(w, v))
          BY <5>2, AppendItems, Zenon
        <5> QED
          BY <5>1, <5>3
      <4>3. {d[2] : d \in Upto(i + 1) \cap Ripe} = {d[2] : d \in Upto(i) \cap Ripe} \cup {e[2]}
        BY <2>3, <3>2
      <4> QED
        BY <3>1, <4>1, <4>2, <4>3
    <3>3. CASE e \notin Ripe
      <4>1. TryAdd(acc.work, nm, e[2]) = acc.work
        BY <2>7, <3>3 DEF TryAdd
      <4>2. Upto(i + 1) \cap Ripe = Upto(i) \cap Ripe
        BY <2>3, <3>3
      <4> QED
        BY <3>1, <4>1, <4>2
    <3> QED
      BY <3>2, <3>3
  <2> QED
    BY <2>5, <2>6, <2>9
<1> DEFINE Y == {i \in Nat : i <= N => I(i)}
<1>7. Y = Nat
  <2>1. 0 \in Y
    BY <1>3
  <2>2. ASSUME NEW n \in Y
        PROVE  n + 1 \in Y
    <3> HIDE DEF I
    <3> SUFFICES ASSUME n + 1 <= N
                 PROVE  I(n + 1)
      OBVIOUS
    <3>1. n \in 0 .. N - 1 /\ n <= N
      BY <1>1
    <3>2. I(n)
      BY <3>1
    <3> QED
      BY <1>6, <3>1, <3>2
  <2>3. Y \in SUBSET Nat
    OBVIOUS
  <2> HIDE DEF Y
  <2> QED
    BY <2>1, <2>2, <2>3, AllNaturals
<1>8. I(N)
  <2> HIDE DEF I
  <2> QED
    BY <1>1, <1>7
<1>9. Upto(N) = O
  BY <1>1 DEF Items
<1>10. {e[2] : e \in O \cap Ripe} =
          {v \in {e[2] : e \in O} :
              \A e \in prog.ins[v] : Done(prog, Going, DOMAIN m \cup O, fixed, e)}
  OBVIOUS
<1> HIDE DEF Upto, Ripe
<1>11. ListOf(new.work, prog.blocks,
              T \cup {v \in {e[2] : e \in O} :
                         \A e \in prog.ins[v] : Done(prog, Going, DOMAIN m \cup O, fixed, e)})
  BY <1>0, <1>2, <1>8, <1>9, <1>10 DEF ListOf
<1> QED
  BY <1>2, <1>8, <1>9, <1>11 DEF Val, SuccessorsAdded
\* The loop over EXIT_LIST is the repetition of its turns.
LEMMA ActivateExitsTurns ==
    ASSUME NEW K, NEW edges \in Seq(K), edges = prog.exits[current]
    PROVE  \E S : /\ S[0] = [mark |-> mark, work |-> work, added |-> {}]
                  /\ ActivateExits = S[Len(edges)]
                  /\ \A i \in 0 .. Len(edges) - 1 : S[i + 1] = Activated(S[i], edges[i + 1])
<1> DEFINE N == Len(edges)
           s0 == [mark |-> mark, work |-> work, added |-> {}]
           F(n, S) == [i \in 0 .. n |-> IF i = 0 THEN s0 ELSE Activated(S[i - 1], edges[i])]
           S0 == CHOOSE S : S = F(N, S)
<1>1. ActivateExits = S0[N]
  BY DEF ActivateExits
<1>2. N \in Nat
  OBVIOUS
<1> HIDE DEF s0
<1>3. \E S : S = F(N, S)
  <2> DEFINE T == {n \in Nat : \E S : S = F(n, S)}
  <2>1. 0 \in T
    <3> DEFINE S == [i \in 0 .. 0 |-> s0]
    <3>1. S = F(0, S)
      OBVIOUS
    <3> QED
      BY <3>1
  <2>2. ASSUME NEW n \in T
        PROVE  n + 1 \in T
    <3>1. PICK S : S = F(n, S)
      BY <2>2
    <3> DEFINE last == Activated(S[n], edges[n + 1])
               U == [i \in 0 .. n + 1 |-> IF i \in 0 .. n THEN S[i] ELSE last]
    <3> HIDE DEF last
    <3>2. ASSUME NEW i \in 0 .. n + 1
          PROVE  U[i] = F(n + 1, U)[i]
      <4>1. CASE i = 0
        BY <3>1, <4>1
      <4>2. CASE i \in 1 .. n
        <5>1. i \in 0 .. n /\ i - 1 \in 0 .. n /\ i - 1 \in 0 .. n + 1 /\ i # 0
          BY <4>2
        <5>2. U[i] = S[i] /\ U[i - 1] = S[i - 1]
          BY <5>1
        <5>3. S[i] = Activated(S[i - 1], edges[i])
          BY <3>1, <5>1
        <5> HIDE DEF U
        <5>4. F(n + 1, U)[i] = Activated(U[i - 1], edges[i])
          BY <5>1
        <5> QED
          BY <5>2, <5>3, <5>4
      <4>3. CASE i = n + 1
        <5>1. i \notin 0 .. n /\ i - 1 = n /\ n \in 0 .. n /\ n \in 0 .. n + 1 /\ i # 0
          BY <4>3
        <5>2. U[n] = S[n]
          BY <5>1
        <5>3. U[i] = last
          BY <5>1
        <5> HIDE DEF U
        <5>4. F(n + 1, U)[i] = Activated(U[i - 1], edges[i])
          BY <5>1
        <5> QED
          BY <4>3, <5>1, <5>2, <5>3, <5>4 DEF last
      <4> QED
        BY <4>1, <4>2, <4>3
    <3>3. U = F(n + 1, U)
      BY <3>2
    <3>4. \E V : V = F(n + 1, V)
      <4> HIDE DEF U, F
      <4> QED
        BY <3>3
    <3> HIDE DEF F
    <3> QED
      BY <3>4
  <2>3. T = Nat
    <3> HIDE DEF T
    <3>1. T \in SUBSET Nat
      BY DEF T
    <3> QED
      BY <2>1, <2>2, <3>1, AllNaturals
  <2> QED
    BY <1>2, <2>3
<1>4. S0 = F(N, S0)
  BY <1>3
<1> HIDE DEF S0
<1>5. S0[0] = s0
  BY <1>2, <1>4
<1>6. ASSUME NEW i \in 0 .. N - 1
      PROVE  S0[i + 1] = Activated(S0[i], edges[i + 1])
  <2>1. i + 1 \in 0 .. N /\ i + 1 # 0 /\ (i + 1) - 1 = i
    BY <1>2
  <2> QED
    BY <1>4, <2>1
<1> QED
  BY <1>1, <1>5, <1>6 DEF s0

(* What is done to the states and to the list T at the fix point of a loop. *)
ExitsActivated(X, T, new) ==
    /\ DOMAIN new.mark = DOMAIN mark
    /\ \A e \in X : new.mark[e] = AcsLeave(mark[e])
    /\ \A e \in DOMAIN mark \ X : new.mark[e] = mark[e]
    /\ ListOf(new.work, prog.blocks,
              T \cup {v \in {e[2] : e \in X} :
                         \A e \in prog.ins[v] : Done(prog, Going, DOMAIN mark, fixed, e)})

\* What is done at the fix point of a loop: the states of its exit edges
\* leave it, and the targets that are ready are added, once each.
LEMMA ActivateExitsFacts ==
    ASSUME Structured(prog), current \in Headers,
           NEW T, ListOf(work, prog.blocks, T),
           NEW X, X = ExitsOf(prog, current),
           X \subseteq DOMAIN mark,
           \A e \in X : e[2] \notin T,
           NEW new, new = ActivateExits
    PROVE  ExitsActivated(X, T, new)
<1> USE DEF ExitsOf
<1> DEFINE exits == prog.exits[current]
           N == Len(exits)
           Upto(i) == {exits[j] : j \in 1 .. i}
           Ripe == {e \in X : \A d \in prog.ins[e[2]] :
                                 Done(prog, Going, DOMAIN mark, fixed, d)}
<1>0. work \in Seq(prog.blocks) /\ Once(work) /\ Items(work) = T
  BY DEF ListOf
<1>1. exits \in Seq(Edges(prog)) /\ Items(exits) = X /\ Once(exits) /\ N \in Nat
  BY DEF Structured, ExitsRight, Headers
<1>2. PICK S : /\ S[0] = [mark |-> mark, work |-> work, added |-> {}]
               /\ ActivateExits = S[N]
               /\ \A i \in 0 .. N - 1 : S[i + 1] = Activated(S[i], exits[i + 1])
  <2> DEFINE K == Edges(prog)
  <2> HIDE DEF K
  <2>1. exits \in Seq(K)
    BY <1>1 DEF K
  <2> QED
    BY <2>1, ActivateExitsTurns
<1> DEFINE I(i) == /\ DOMAIN S[i].mark = DOMAIN mark
                   /\ \A e \in Upto(i) : S[i].mark[e] = AcsLeave(mark[e])
                   /\ \A e \in DOMAIN mark \ Upto(i) : S[i].mark[e] = mark[e]
                   /\ S[i].added = {e[2] : e \in Upto(i) \cap Ripe}
                   /\ S[i].work \in Seq(prog.blocks) /\ Once(S[i].work)
                   /\ Items(S[i].work) = Items(work) \cup {e[2] : e \in Upto(i) \cap Ripe}
<1>3. I(0)
  <2>1. Upto(0) = {}
    OBVIOUS
  <2>2. S[0].mark = mark /\ S[0].work = work /\ S[0].added = {}
    BY <1>2
  <2> HIDE DEF Upto, Ripe
  <2>3. {e[2] : e \in Upto(0) \cap Ripe} = {}
    BY <2>1
  <2> QED
    BY <1>0, <2>1, <2>2, <2>3
<1>4. \A j \in 1 .. N : exits[j] \in X
  BY <1>1 DEF Items
<1>5. \A e \in X : e \in Edges(prog) /\ e[2] \in prog.blocks
  BY EdgeFacts
<1>6. ASSUME NEW i \in 0 .. N - 1, I(i)
      PROVE  I(i + 1)
  <2> DEFINE e == exits[i + 1]
             acc == S[i]
             try == e[2] \notin acc.added /\ Ready(acc.mark, e[2])
             nm == [acc.mark EXCEPT ![e] = AcsLeave(@)]
             nw == IF try THEN Append(acc.work, e[2]) ELSE acc.work
             na == IF try THEN acc.added \cup {e[2]} ELSE acc.added
  <2>1. i \in Nat /\ i + 1 \in 1 .. N /\ 1 .. i + 1 = (1 .. i) \cup {i + 1}
    BY <1>1
  <2>2. e \in X /\ e \notin Upto(i)
    <3>1. \A j \in 1 .. i : j \in 1 .. N /\ j # i + 1
      BY <1>1
    <3> QED
      BY <1>1, <1>4, <2>1, <3>1 DEF Once
  <2>3. Upto(i + 1) = Upto(i) \cup {e}
    BY <2>1
  <2>5. S[i + 1] = [mark |-> nm, work |-> nw, added |-> na]
    BY <1>2 DEF Activated
  <2> HIDE DEF Upto, e, acc, N, exits
  <2>6. /\ DOMAIN nm = DOMAIN mark
        /\ \A f \in Upto(i + 1) : nm[f] = AcsLeave(mark[f])
        /\ \A f \in DOMAIN mark \ Upto(i + 1) : nm[f] = mark[f]
    <3>1. /\ DOMAIN acc.mark = DOMAIN mark
          /\ \A f \in Upto(i) : acc.mark[f] = AcsLeave(mark[f])
          /\ \A f \in DOMAIN mark \ Upto(i) : acc.mark[f] = mark[f]
      BY <1>6 DEF acc
    <3>2. DOMAIN nm = DOMAIN acc.mark
      OBVIOUS
    <3>3. \A f \in DOMAIN acc.mark : nm[f] = IF f # e THEN acc.mark[f] ELSE AcsLeave(acc.mark[e])
      OBVIOUS
    <3>4. e \in DOMAIN mark /\ acc.mark[e] = mark[e]
      BY <2>2, <3>1
    <3>5. Upto(i) \subseteq DOMAIN mark
      <4>1. \A j \in 1 .. i : j \in 1 .. N
        BY <1>1 DEF N
      <4> QED
        BY <1>4, <4>1 DEF Upto
    <3> HIDE DEF nm
    <3> QED
      BY <2>3, <2>2, <3>1, <3>2, <3>3, <3>4, <3>5
  <2> HIDE DEF nm
  <2>7. Ready(acc.mark, e[2]) <=> e \in Ripe
    <3>1. e[2] \in prog.blocks
      BY <1>5, <2>2
    <3>2. Ready(acc.mark, e[2])
             <=> \A d \in prog.ins[e[2]] : Done(prog, Going, DOMAIN acc.mark, fixed, d)
      BY <3>1, ReadyIsDone
    <3>3. DOMAIN acc.mark = DOMAIN mark
      BY <1>6 DEF acc
    <3> QED
      BY <2>2, <3>2, <3>3
  <2>8. e[2] \in prog.blocks /\ (e[2] \in Items(acc.work) <=> e[2] \in acc.added)
    <3>1. e[2] \in prog.blocks /\ e[2] \notin Items(work)
      BY <1>0, <1>5, <2>2
    <3> QED
      BY <1>6, <3>1 DEF acc
  <2>9. ASSUME NEW Q, Q = {d[2] : d \in Upto(i) \cap Ripe},
               NEW Q2, Q2 = {d[2] : d \in Upto(i + 1) \cap Ripe}
        PROVE  nw \in Seq(prog.blocks) /\ Once(nw) /\ Items(nw) = Items(work) \cup Q2 /\ na = Q2
    <3>1. /\ acc.work \in Seq(prog.blocks) /\ Once(acc.work)
          /\ Items(acc.work) = Items(work) \cup Q /\ acc.added = Q
      BY <1>6, <2>9 DEF acc
    <3> HIDE DEF Ripe
    <3>2. Q2 = IF e \in Ripe THEN Q \cup {e[2]} ELSE Q
      BY <2>3, <2>9
    <3>3. CASE try
      <4>1. /\ Append(acc.work, e[2]) \in Seq(prog.blocks)
            /\ Items(Append(acc.work, e[2])) = Items(acc.work) \cup {e[2]}
            /\ Once(Append(acc.work, e[2]))
        <5>1. /\ acc.work \in Seq(prog.blocks) /\ Once(acc.work)
              /\ e[2] \in prog.blocks /\ e[2] \notin Items(acc.work)
          BY <2>8, <3>1, <3>3
        <5>2. \A w \in Seq(prog.blocks), v \in prog.blocks :
                 /\ Append(w, v) \in Seq(prog.blocks)
                 /\ Items(Append(w, v)) = Items(w) \cup {v}
                 /\ Once(w) /\ v \notin Items(w) => Once(Append(w, v))
          BY AppendItems
        <5> QED
          BY <5>1, <5>2
      <4> QED
        BY <2>7, <3>1, <3>2, <3>3, <4>1
    <3>4. CASE ~ try
      BY <2>7, <3>1, <3>2, <3>4
    <3> QED
      BY <3>3, <3>4
  <2> HIDE DEF nw, na, Ripe
  <2>10. /\ nw \in Seq(prog.blocks) /\ Once(nw)
         /\ Items(nw) = Items(work) \cup {d[2] : d \in Upto(i + 1) \cap Ripe}
         /\ na = {d[2] : d \in Upto(i + 1) \cap Ripe}
    BY <2>9
  <2> QED
    BY <2>5, <2>6, <2>10
<1> DEFINE Y == {i \in Nat : i <= N => I(i)}
<1>7. Y = Nat
  <2>1. 0 \in Y
    BY <1>3
  <2>2. ASSUME NEW n \in Y
        PROVE  n + 1 \in Y
    <3> HIDE DEF I
    <3> SUFFICES ASSUME n + 1 <= N
                 PROVE  I(n + 1)
      OBVIOUS
    <3>1. n \in 0 .. N - 1 /\ n <= N
      BY <1>1
    <3>2. I(n)
      BY <3>1
    <3> QED
      BY <1>6, <3>1, <3>2
  <2>3. Y \in SUBSET Nat
    OBVIOUS
  <2> HIDE DEF Y
  <2> QED
    BY <2>1, <2>2, <2>3, AllNaturals
<1>8. I(N)
  <2> HIDE DEF I
  <2> QED
    BY <1>1, <1>7
<1>9. Upto(N) = X
  BY <1>1 DEF Items
<1>10. {e[2] : e \in X \cap Ripe} =
          {v \in {e[2] : e \in X} :
              \A e \in prog.ins[v] : Done(prog, Going, DOMAIN mark, fixed, e)}
  OBVIOUS
<1> HIDE DEF Upto, Ripe
<1>11. ListOf(new.work, prog.blocks,
              T \cup {v \in {e[2] : e \in X} :
                         \A e \in prog.ins[v] : Done(prog, Going, DOMAIN mark, fixed, e)})
  BY <1>0, <1>2, <1>8, <1>9, <1>10 DEF ListOf
<1> QED
  BY <1>2, <1>8, <1>9, <1>11 DEF ExitsActivated

-----------------------------------------------------------------------------
(* The invariant of the scheduling: D, the blocks processed in the         *)
(* iterations in progress; P, the block whose output is to be done; X, the *)
(* targets of the exit edges that are to be tried.                         *)
Exits(h)   == ExitsOf(prog, h)
Targets(S) == {e[2] : e \in S}

Scheduled(D, P, X) ==
    /\ Control(prog, D, Going, DOMAIN mark, fixed, P)
    /\ ListOf(work, prog.blocks, ToDo(prog, D, Going, DOMAIN mark, fixed) \ X)

InTurn(D, P, X) ==
    /\ phase \in {"turn", "output", "done", "run", "failed"}
    /\ phase \in {"turn", "done", "run"} => P = {} /\ X = {}
    /\ phase \in {"done", "run"} => work = <<>>
    /\ phase = "output" =>
          /\ current \in D
          /\ fixpoint => /\ current \in Headers \ Going
                         /\ P = {} /\ X = Targets(Exits(current))
                         /\ Exits(current) \subseteq DOMAIN mark
                         /\ \A e \in Exits(current) : LeadsOn(prog, D, Going, e)
          /\ ~ fixpoint => /\ P = {current} /\ X = {}
                           /\ Around(prog, current) \subseteq Going
    /\ mainEntry => /\ phase = "turn" /\ D = {} /\ DOMAIN mark = {} /\ Going = {}
    /\ ~ mainEntry => prog.main \in D

Kept ==
    /\ callStack = <<>>
    /\ next_edge = <<>>
    /\ first \subseteq BasicBlocks /\ BasicBlocks \ first \subseteq Headers
    /\ DOMAIN fpstate = Going
    /\ DOMAIN results = BasicBlocks

Interpreted(D, P) == phase # "failed" => \A b \in D \ P : AcsLive(results[b])

ScheduleInv ==
    /\ Structured(prog) /\ Kept
    /\ \E D, P, X : Scheduled(D, P, X) /\ InTurn(D, P, X) /\ Interpreted(D, P)

(* The block at the top of the list `todo', and w, the list without it.    *)
TopOf(todo, w, P, X) ==
    /\ P = {} /\ X = {}
    /\ Top \in todo /\ Top \in prog.blocks
    /\ ListOf(w, prog.blocks, todo \ {Top})
    /\ NextCall(Top) = <<>> /\ ~ Returned(Top)
    /\ ~ mainEntry => Top \notin prog.entries
    /\ mainEntry => Top = prog.main /\ ListOf(w, prog.blocks, {})

\* What is known of the block at the top of the list when a turn begins.
LEMMA TopFacts ==
    ASSUME Structured(prog), Kept, NEW D, NEW P, NEW X,
           Scheduled(D, P, X), InTurn(D, P, X), Turn,
           NEW w, w = SubSeq(work, 1, Len(work) - 1),
           NEW todo, todo = ToDo(prog, D, Going, DOMAIN mark, fixed)
    PROVE  TopOf(todo, w, P, X)
<1>1. P = {} /\ X = {}
  BY DEF InTurn, Turn
<1>2. work \in Seq(prog.blocks) /\ work # <<>> /\ Once(work) /\ Items(work) = todo
  BY <1>1 DEF Scheduled, ListOf, Turn
<1>3. /\ Top \in prog.blocks /\ Top \in todo
      /\ ListOf(w, prog.blocks, todo \ {Top})
  <2> DEFINE B == prog.blocks
  <2> HIDE DEF B
  <2>1. work \in Seq(B)
    BY <1>2 DEF B
  <2>2. /\ work[Len(work)] \in B /\ work[Len(work)] \in Items(work)
        /\ ListOf(w, B, Items(work) \ {work[Len(work)]})
    BY <1>2, <2>1, PopItems, Zenon
  <2> QED
    BY <1>2, <2>2 DEF Top, B
<1>4. prog.calls[Top] = <<>>
  BY <1>3 DEF Structured, OneGraph
<1>5. NextCall(Top) = <<>> /\ ~ Returned(Top)
  <2>1. ToCall(Top) = {}
    BY <1>4 DEF ToCall, Calls
  <2> QED
    BY <1>4, <2>1 DEF NextCall, Returned, Calls
<1>6. ASSUME ~ mainEntry, Top \in prog.entries
      PROVE  FALSE
  <2>1. Top = prog.main /\ Top \in D
    BY <1>6 DEF InTurn, Structured, OneGraph
  <2>2. Top \in Going /\ Top \in Headers
    BY <1>3, <2>1 DEF ToDo, OpenTo, Going
  <2> QED
    BY <1>3, <2>1, <2>2, BlockFacts DEF Headers
<1>7. mainEntry => Top = prog.main /\ ListOf(w, prog.blocks, {})
  <2> SUFFICES ASSUME mainEntry
               PROVE  Top = prog.main /\ ListOf(w, prog.blocks, {})
    OBVIOUS
  <2>1. D = {} /\ Going = {} /\ DOMAIN mark = {}
    BY DEF InTurn
  <2>2. ToDo(prog, {}, {}, {}, fixed) = {prog.main}
    BY MainControl
  <2>3. todo = {prog.main} /\ Top = prog.main
    BY <1>3, <2>1, <2>2
  <2>4. todo \ {Top} = {}
    BY <2>3
  <2> QED
    BY <1>3, <2>3, <2>4
<1> QED
  BY <1>1, <1>3, <1>5, <1>6, <1>7, Zenon DEF TopOf

\* The inputs keep the order of the schedule.
LEMMA MainStep ==
    ASSUME Structured(prog), Kept, NEW D, NEW P, NEW X,
           Scheduled(D, P, X), InTurn(D, P, X), Interpreted(D, P), MainInput
    PROVE  ScheduleInv'
<1>a. PICK w : w = SubSeq(work, 1, Len(work) - 1)
  OBVIOUS
<1>b. PICK todo : todo = ToDo(prog, D, Going, DOMAIN mark, fixed)
  OBVIOUS
<1>1. /\ P = {} /\ X = {} /\ Top \in prog.blocks
      /\ ListOf(w, prog.blocks, {}) /\ NextCall(Top) = <<>> /\ Top = prog.main
  <2>1. Turn /\ mainEntry
    BY DEF MainInput
  <2>2. TopOf(todo, w, P, X)
    BY <1>a, <1>b, <2>1, TopFacts, Zenon
  <2> QED
    BY <2>1, <2>2 DEF TopOf
<1>2. /\ phase' = "output" /\ work' = w /\ current' = Top /\ next_edge' = <<>>
      /\ mainEntry' = FALSE /\ fixpoint' = FALSE
      /\ UNCHANGED <<prog, callStack, results, mark, first, fixed, fpstate>>
  BY <1>1, <1>a DEF MainInput, Pop
<1>3. D = {} /\ Going = {} /\ DOMAIN mark = {}
  BY DEF InTurn, MainInput
<1>4. Going' = {}
  BY <1>2, <1>3 DEF Going, Headers
<1>5. Scheduled({prog.main}, {prog.main}, {})'
  <2>1. /\ Control(prog, {prog.main}, {}, {}, fixed, {prog.main})
        /\ ToDo(prog, {prog.main}, {}, {}, fixed) = {}
    BY MainControl
  <2>2. {} \ {} = {}
    OBVIOUS
  <2> QED
    BY <1>1, <1>2, <1>3, <1>4, <2>1, <2>2 DEF Scheduled
<1>6. InTurn({prog.main}, {prog.main}, {})'
  <2>1. Around(prog, prog.main) = {}
    BY <1>1, BlockFacts
  <2> QED
    BY <1>1, <1>2, <2>1 DEF InTurn
<1>7. Kept'
  BY <1>2, <1>3, <1>4 DEF Kept, Headers
<1>8. Interpreted({prog.main}, {prog.main})'
  BY DEF Interpreted
<1>9. PICK d : d = {prog.main}
  OBVIOUS
<1>10. Scheduled(d, d, {})' /\ InTurn(d, d, {})' /\ Interpreted(d, d)'
  BY <1>2, <1>5, <1>6, <1>8, <1>9 DEF Scheduled, InTurn, Interpreted
<1> QED
  BY <1>2, <1>7, <1>10 DEF ScheduleInv

\* The loops around a block whose output is to be done are in progress.
LEMMA PendingInLoops ==
    ASSUME NEW p, Structured(p), NEW D, NEW G, NEW M, NEW F,
           Control(p, D, G, M, F, {}), NEW v \in p.blocks, v \notin D,
           Around(p, v) \subseteq D \cup {v}, v \notin DOMAIN p.loops
    PROVE  Around(p, v) \subseteq G
<1> SUFFICES ASSUME NEW h \in Around(p, v), h \notin G
             PROVE  FALSE
  OBVIOUS
<1>1. h \in DOMAIN p.loops /\ v \in p.loops[h] /\ h # v
  BY DEF Around
<1> QED
  BY <1>1 DEF Control

\* The turn of a block that is no header.
LEMMA BlockStep ==
    ASSUME Structured(prog), Kept, NEW D, NEW P, NEW X,
           Scheduled(D, P, X), InTurn(D, P, X), Interpreted(D, P), BlockInput
    PROVE  ScheduleInv'
<1>a. PICK w : w = SubSeq(work, 1, Len(work) - 1)
  OBVIOUS
<1>b. PICK todo : todo = ToDo(prog, D, Going, DOMAIN mark, fixed)
  OBVIOUS
<1>1. /\ P = {} /\ X = {} /\ Top \in prog.blocks /\ Top \in todo
      /\ ListOf(w, prog.blocks, todo \ {Top}) /\ NextCall(Top) = <<>>
  <2>1. Turn
    BY DEF BlockInput
  <2>2. TopOf(todo, w, P, X)
    BY <1>a, <1>b, <2>1, TopFacts, Zenon
  <2> QED
    BY <2>1, <2>2 DEF TopOf
<1>2. /\ ~ mainEntry /\ phase = "turn" /\ Top \notin Headers
      /\ phase' \in {"output", "failed"} /\ work' = w /\ current' = Top /\ next_edge' = <<>>
      /\ mainEntry' = FALSE /\ fixpoint' = FALSE
      /\ DOMAIN mark' = DOMAIN mark \ prog.ins[Top]
      /\ UNCHANGED <<prog, callStack, results, first, fixed, fpstate>>
  BY <1>1, <1>a DEF BlockInput, Pop, Unmark, Plain, Turn
<1>3. PICK v : v = Top
  OBVIOUS
<1>4. PICK D2 : D2 = D \cup {v}
  OBVIOUS
<1>5. /\ Control(prog, D, Going, DOMAIN mark, fixed, {})
      /\ prog.main \in D /\ v \notin DOMAIN prog.loops
      /\ v \in ToDo(prog, D, Going, DOMAIN mark, fixed)
  BY <1>b, <1>1, <1>2, <1>3 DEF Scheduled, InTurn, Headers
<1>6. /\ Control(prog, D2, Going, DOMAIN mark \ prog.ins[v], fixed, {v})
      /\ ToDo(prog, D2, Going, DOMAIN mark \ prog.ins[v], fixed) = todo \ {v}
  <2>1. PICK M : M = DOMAIN mark
    OBVIOUS
  <2>2. PICK G : G = Going
    OBVIOUS
  <2>3. Takes(prog, v, D, G, M, fixed, D \cup {v}, G, M \ prog.ins[v], fixed)
    <3>1. /\ Control(prog, D, G, M, fixed, {})
          /\ prog.main \in D /\ v \notin DOMAIN prog.loops
          /\ v \in ToDo(prog, D, G, M, fixed)
      BY <1>5, <2>1, <2>2
    <3> QED
      BY <3>1, VisitControl, Zenon
  <2> QED
    BY <1>b, <1>4, <2>1, <2>2, <2>3 DEF Takes
<1>7. Going' = Going
  BY <1>2 DEF Going, Headers
<1>8. Scheduled(D2, {v}, {})'
  BY <1>1, <1>2, <1>3, <1>6, <1>7 DEF Scheduled
<1>9. Around(prog, v) \subseteq Going
  <2>1. v \notin D
    BY <1>5 DEF ToDo, OpenTo, Control
  <2>2. Around(prog, v) \subseteq D2
    BY <1>4, <1>6 DEF Control
  <2> QED
    BY <1>1, <1>3, <1>4, <1>5, <2>1, <2>2, PendingInLoops
<1>10. InTurn(D2, {v}, {})'
  BY <1>2, <1>3, <1>4, <1>5, <1>7, <1>9 DEF InTurn
<1>11. Kept'
  BY <1>2, <1>7 DEF Kept, Headers
<1>12. Interpreted(D2, {v})'
  BY <1>1, <1>2, <1>4 DEF Interpreted
<1>13. ScheduleInv' <=> (/\ Structured(prog)' /\ Kept'
                         /\ \E d, p, x : Scheduled(d, p, x)' /\ InTurn(d, p, x)' /\ Interpreted(d, p)')
  BY DEF ScheduleInv
<1> QED
  BY <1>2, <1>8, <1>10, <1>11, <1>12, <1>13

\* A header: the fix point is reached, or an iteration begins.
LEMMA HeaderStep ==
    ASSUME Structured(prog), Kept, NEW D, NEW P, NEW X,
           Scheduled(D, P, X), InTurn(D, P, X), Interpreted(D, P), HeaderInput
    PROVE  ScheduleInv'
<1>a. PICK w : w = SubSeq(work, 1, Len(work) - 1)
  OBVIOUS
<1>b. PICK todo : todo = ToDo(prog, D, Going, DOMAIN mark, fixed)
  OBVIOUS
<1>c. PICK G : G = Going
  OBVIOUS
<1>d. PICK M : M = DOMAIN mark
  OBVIOUS
<1>e. PICK h : h = Top
  OBVIOUS
<1>f. PICK R : R = BackTo(prog, h)
  OBVIOUS
<1>1. /\ P = {} /\ X = {} /\ h \in prog.blocks /\ h \in todo
      /\ ListOf(w, prog.blocks, todo \ {h}) /\ NextCall(Top) = <<>>
  <2>1. Turn
    BY DEF HeaderInput
  <2>2. TopOf(todo, w, P, X)
    BY <1>a, <1>b, <2>1, TopFacts, Zenon
  <2> QED
    BY <1>e, <2>1, <2>2 DEF TopOf
<1>2. PICK reached \in BOOLEAN :
        /\ reached <=> Stable(h, StateOf(h), IF unrolling THEN Unrolled(h, StateOf(h)) ELSE Iteration(h))
        /\ ~ mainEntry /\ phase = "turn" /\ h \in Headers
        /\ phase' \in {"output", "failed"} /\ work' = w /\ current' = h /\ next_edge' = <<>>
        /\ mainEntry' = FALSE /\ fixpoint' = reached
        /\ fixed' = IF reached THEN fixed \cup {h} ELSE fixed \ {h}
        /\ first' = IF reached THEN first \cup {h} ELSE first \ {h}
        /\ mark' = Unmark(mark, UsedUp(h, reached))
        /\ DOMAIN fpstate' = IF reached THEN DOMAIN fpstate \ {h} ELSE DOMAIN fpstate \cup {h}
        /\ UNCHANGED <<prog, callStack, results>>
  <2> DEFINE s == StateOf(h)
             x == IF unrolling THEN Unrolled(h, s) ELSE Iteration(h)
  <2> HIDE DEF x, s
  <2>1. /\ HeaderUpdate(h, s, x, Stable(h, s, x)) /\ Pop(h, HeaderOK(h))
        /\ Turn /\ Plain(h) /\ h \in Headers
    BY <1>e DEF HeaderInput, s, x
  <2>2. Stable(h, s, x) \in BOOLEAN
    BY DEF Stable
  <2>3. PICK reached \in BOOLEAN : reached <=> Stable(h, s, x)
    BY <2>2
  <2>4. Stable(h, s, x) = reached
    BY <2>2, <2>3
  <2>5. /\ phase' \in {"output", "failed"} /\ work' = w /\ current' = h /\ next_edge' = <<>>
        /\ mainEntry' = FALSE /\ UNCHANGED <<prog, callStack, results>>
        /\ ~ mainEntry /\ phase = "turn"
    BY <1>1, <1>a, <1>e, <2>1 DEF Pop, Turn, Plain
  <2>6. /\ fixpoint' = reached
        /\ fixed' = IF reached THEN fixed \cup {h} ELSE fixed \ {h}
        /\ first' = IF reached THEN first \cup {h} ELSE first \ {h}
        /\ mark' = Unmark(mark, UsedUp(h, reached))
        /\ DOMAIN fpstate' = IF reached THEN DOMAIN fpstate \ {h} ELSE DOMAIN fpstate \cup {h}
    BY <2>1, <2>4 DEF HeaderUpdate
  <2> QED
    BY <2>1, <2>3, <2>5, <2>6 DEF s, x
<1>3. DOMAIN mark' = IF reached THEN M \ prog.ins[h] ELSE M \ R
  <2>1. UsedUp(h, reached) = IF reached THEN prog.ins[h] ELSE R
    BY <1>f DEF UsedUp, Returning, Dominated, Back, BackTo
  <2> QED
    BY <1>2, <1>d, <2>1 DEF Unmark
<1>4. Going' = IF reached THEN G \ {h} ELSE G \cup {h}
  BY <1>2, <1>c DEF Going, Headers
<1>5. reached => h \in G
  BY <1>2, <1>c DEF Stable, StateOf, Going
<1>6. /\ Control(prog, D, G, M, fixed, {})
      /\ prog.main \in D /\ h \in DOMAIN prog.loops
      /\ h \in ToDo(prog, D, G, M, fixed) /\ todo = ToDo(prog, D, G, M, fixed)
  BY <1>1, <1>2, <1>b, <1>c, <1>d DEF Scheduled, InTurn, Headers
<1>g. /\ Control(prog, D, G, M, fixed, {}) /\ prog.main \in D
      /\ h \in DOMAIN prog.loops /\ h \in ToDo(prog, D, G, M, fixed)
  BY <1>6
<1>7. Kept'
  <2>1. first' \subseteq BasicBlocks /\ BasicBlocks \ first' \subseteq Headers /\ Headers' = Headers
    <3>1. prog.blocks \subseteq BasicBlocks
      BY DEF Structured, OneGraph
    <3> QED
      BY <1>1, <1>2, <3>1 DEF Kept, Headers
  <2> QED
    BY <1>2, <1>c, <1>4, <2>1 DEF Kept
<1>8. ScheduleInv' <=> (/\ Structured(prog)' /\ Kept'
                        /\ \E d, p, x : Scheduled(d, p, x)' /\ InTurn(d, p, x)' /\ Interpreted(d, p)')
  BY DEF ScheduleInv
<1>9. CASE reached
  <2>1. PICK E : E = Exits(h)
    OBVIOUS
  <2>2. PICK T : T = {e[2] : e \in E}
    OBVIOUS
  <2>3. E = ExitsOf(prog, h) /\ h \in ToDo(prog, D, G, M, fixed) \cap G
    BY <1>5, <1>6, <1>9, <2>1 DEF Exits
  <2>4. Finishes(prog, h, E, D, G, M, fixed, G \ {h}, M \ prog.ins[h], fixed \cup {h})
    BY <1>g, <2>3, FixControl, Zenon
  <2>5. PICK T2 : T2 = ToDo(prog, D, G \ {h}, M \ prog.ins[h], fixed \cup {h})
    OBVIOUS
  <2>6. /\ Control(prog, D, G \ {h}, M \ prog.ins[h], fixed \cup {h}, {})
        /\ T2 \ T = todo \ {h}
        /\ E \subseteq M \ prog.ins[h]
        /\ \A e \in E : LeadsOn(prog, D, G \ {h}, e)
    BY <1>6, <2>2, <2>4, <2>5 DEF Finishes
  <2>7. Scheduled(D, {}, T)'
    <3>1. ListOf(w, prog.blocks, T2 \ T)
      BY <1>1, <2>6
    <3> QED
      BY <1>2, <1>3, <1>4, <1>9, <2>5, <2>6, <3>1 DEF Scheduled
  <2>8. Exits(h)' = E
    BY <1>2, <2>1 DEF Exits
  <2>9. InTurn(D, {}, T)'
    <3>1. h \in D
      BY <1>5, <1>6, <1>9 DEF Control
    <3>2. h \in Headers' \ Going'
      BY <1>2, <1>4, <1>9 DEF Headers
    <3> QED
      BY <1>2, <1>3, <1>4, <1>6, <1>9, <2>2, <2>6, <2>8, <3>1, <3>2 DEF InTurn, Targets
  <2>10. Interpreted(D, {})'
    BY <1>1, <1>2 DEF Interpreted
  <2> QED
    BY <1>2, <1>7, <1>8, <2>7, <2>9, <2>10
<1>10. ASSUME ~ reached
       PROVE  \E D2 : /\ Takes(prog, h, D, G, M, fixed, D2, G \cup {h}, M \ R, fixed \ {h})
                      /\ D2 \subseteq D \cup {h}
                      /\ prog.main \in D2
  <2>1. CASE h \in G
    <3>1. PICK D2 : D2 = (D \ prog.loops[h]) \cup {h}
      OBVIOUS
    <3>2. h \in ToDo(prog, D, G, M, fixed) \cap G
      BY <1>6, <2>1
    <3>3. Takes(prog, h, D, G, M, fixed, D2, G, M \ R, fixed \ {h})
      BY <1>g, <1>f, <3>1, <3>2, AgainControl, Zenon
    <3>4. G \cup {h} = G
      BY <2>1
    <3>5. prog.main \in D2
      <4>1. prog.main \in prog.blocks
        BY DEF Structured, OneGraph
      <4>2. prog.main \notin prog.loops[h]
        BY <1>6, <4>1, BlockFacts
      <4> QED
        BY <1>6, <3>1, <4>2
    <3> QED
      BY <3>1, <3>3, <3>4, <3>5
  <2>2. CASE h \notin G
    <3>1. Takes(prog, h, D, G, M, fixed, D \cup {h}, G \cup {h}, M \ R, fixed \ {h})
      BY <1>g, <1>f, <2>2, EnterControl, Zenon
    <3> QED
      BY <1>6, <3>1
  <2> QED
    BY <2>1, <2>2
<1>11. CASE ~ reached
  <2>1. PICK D2 : /\ Takes(prog, h, D, G, M, fixed, D2, G \cup {h}, M \ R, fixed \ {h})
                  /\ D2 \subseteq D \cup {h}
                  /\ prog.main \in D2
    BY <1>10, <1>11
  <2>2. PICK T2 : T2 = ToDo(prog, D2, G \cup {h}, M \ R, fixed \ {h})
    OBVIOUS
  <2>3. /\ Control(prog, D2, G \cup {h}, M \ R, fixed \ {h}, {h})
        /\ T2 = todo \ {h}
    BY <1>6, <2>1, <2>2 DEF Takes
  <2>4. Scheduled(D2, {h}, {})'
    <3>1. ListOf(w, prog.blocks, T2 \ {})
      <4>1. T2 \ {} = todo \ {h}
        BY <2>3
      <4> QED
        BY <1>1, <4>1
    <3> QED
      BY <1>2, <1>3, <1>4, <1>11, <2>2, <2>3, <3>1 DEF Scheduled
  <2>5. InTurn(D2, {h}, {})'
    <3>1. h \in D2 /\ Around(prog, h) \subseteq G \cup {h}
      BY <2>3 DEF Control
    <3> QED
      BY <1>2, <1>4, <1>11, <2>1, <3>1 DEF InTurn
  <2>6. Interpreted(D2, {h})'
    BY <1>1, <1>2, <2>1 DEF Interpreted
  <2> QED
    BY <1>2, <1>7, <1>8, <2>4, <2>5, <2>6
<1> QED
  BY <1>9, <1>11

\* The outputs: after the fix point of a loop, and after the body of a block.
LEMMA LeaveStep ==
    ASSUME Structured(prog), Kept, NEW D, NEW P, NEW X,
           Scheduled(D, P, X), InTurn(D, P, X), Interpreted(D, P), LeaveOutput
    PROVE  ScheduleInv'
<1>b. PICK todo : todo = ToDo(prog, D, Going, DOMAIN mark, fixed)
  OBVIOUS
<1>c. PICK E : E = ExitsOf(prog, current)
  OBVIOUS
<1>d. PICK T : T = todo \ X
  OBVIOUS
<1>e. PICK new : new = ActivateExits
  OBVIOUS
<1>1. /\ phase = "output" /\ fixpoint /\ phase' \in {"turn", "failed"}
      /\ work' = new.work /\ mark' = new.mark
      /\ UNCHANGED <<prog, mainEntry, next_edge, first, fixed, fpstate, callStack, results>>
  BY <1>e DEF LeaveOutput, LoopDone, EndTurn
<1>2. /\ P = {} /\ X = {e[2] : e \in E} /\ E \subseteq DOMAIN mark /\ current \in Headers
      /\ \A e \in E : OpenTo(D, Going, e[2])
      /\ ~ mainEntry /\ prog.main \in D
  BY <1>1, <1>c DEF InTurn, Exits, Targets, LeadsOn, OpenTo
<1>3. ListOf(work, prog.blocks, T)
  BY <1>b, <1>d DEF Scheduled
<1>4. \A e \in E : e[2] \notin T
  BY <1>2, <1>d
<1>5. ExitsActivated(E, T, new)
  <2>1. E \subseteq DOMAIN mark /\ current \in Headers
    BY <1>2
  <2> QED
    BY <2>1, <1>3, <1>4, <1>c, <1>e, ActivateExitsFacts, Zenon
<1>6. Going' = Going /\ DOMAIN mark' = DOMAIN mark /\ Headers' = Headers
  BY <1>1, <1>5 DEF Going, Headers, ExitsActivated
<1>7. T \cup {v \in {e[2] : e \in E} :
                 \A e \in prog.ins[v] : Done(prog, Going, DOMAIN mark, fixed, e)} = todo \ {}
  <2>1. \A e \in E : e[2] \in prog.blocks
    BY <1>c, EdgeFacts DEF ExitsOf
  <2>2. \A v \in {e[2] : e \in E} :
            v \in todo <=> \A e \in prog.ins[v] : Done(prog, Going, DOMAIN mark, fixed, e)
    BY <1>2, <1>b, <2>1 DEF ToDo
  <2> QED
    BY <1>2, <1>d, <2>2
<1>8. ListOf(new.work, prog.blocks, todo \ {})
  BY <1>5, <1>7 DEF ExitsActivated
<1>9. Scheduled(D, {}, {})'
  BY <1>1, <1>2, <1>6, <1>8, <1>b DEF Scheduled
<1>10. InTurn(D, {}, {})'
  BY <1>1, <1>2 DEF InTurn
<1>11. Kept'
  BY <1>1, <1>6 DEF Kept
<1>12. Interpreted(D, {})'
  BY <1>1, <1>2 DEF Interpreted
<1>13. ScheduleInv' <=> (/\ Structured(prog)' /\ Kept'
                         /\ \E d, p, x : Scheduled(d, p, x)' /\ InTurn(d, p, x)' /\ Interpreted(d, p)')
  BY DEF ScheduleInv
<1> QED
  BY <1>1, <1>9, <1>10, <1>11, <1>12, <1>13

\* The end of the turn of a body.
LEMMA BodyStep ==
    ASSUME Structured(prog), Kept, NEW D, NEW P, NEW X,
           Scheduled(D, P, X), InTurn(D, P, X), Interpreted(D, P), BodyOutput
    PROVE  ScheduleInv'
<1>a. PICK G : G = Going
  OBVIOUS
<1>b. PICK M : M = DOMAIN mark
  OBVIOUS
<1>c. PICK O : O = OutOf(prog, current)
  OBVIOUS
<1>d. PICK T : T = ToDo(prog, D, G, M, fixed)
  OBVIOUS
<1>e. PICK x : x = AcsUpdate(code, current, in)
  OBVIOUS
<1>f. PICK new : new = AddSuccessors(mark, x)
  OBVIOUS
<1>1. /\ phase = "output" /\ ~ fixpoint /\ phase' \in {"turn", "failed"}
      /\ phase' = "turn" => AcsLive(in)
      /\ work' = new.work /\ mark' = new.mark
      /\ results' = [results EXCEPT ![current] = AcsLub(@, in)]
      /\ UNCHANGED <<prog, mainEntry, next_edge, first, fixed, fpstate, callStack>>
  BY <1>e, <1>f DEF BodyOutput, BodyDone, EndTurn
<1>2. /\ P = {current} /\ X = {} /\ current \in D /\ ~ mainEntry /\ prog.main \in D
  BY <1>1 DEF InTurn
<1>3. Control(prog, D, G, M, fixed, {current}) /\ current \in prog.blocks
  BY <1>2, <1>a, <1>b DEF Scheduled, Control
<1>4. ListOf(work, prog.blocks, T)
  <2>1. T = T \ {}
    OBVIOUS
  <2> QED
    BY <1>2, <1>a, <1>b, <1>d, <2>1 DEF Scheduled
<1>5. Marks(prog, O, D, G, M, fixed, M \cup O)
  BY <1>3, <1>c, OutputControl, Zenon
<1>6. PICK T2 : T2 = ToDo(prog, D, G, M \cup O, fixed)
  OBVIOUS
<1>7. /\ Control(prog, D, G, M \cup O, fixed, {})
      /\ T2 = T \cup {v \in {e[2] : e \in O} :
                        \A e \in prog.ins[v] : Done(prog, Going, M \cup O, fixed, e)}
      /\ \A e \in O : e[2] \notin T
  <2>1. \A e \in O : e[2] \notin T
    BY <1>5, <1>d, Zenon DEF Marks
  <2>2. Control(prog, D, G, M \cup O, fixed, {})
    BY <1>5 DEF Marks
  <2>3. T2 = T \cup {v \in {e[2] : e \in O} :
                       \A e \in prog.ins[v] : Done(prog, G, M \cup O, fixed, e)}
    BY <1>5, <1>6, <1>d, Zenon DEF Marks
  <2> QED
    BY <1>a, <2>1, <2>2, <2>3
<1>8. SuccessorsAdded(O, T, mark, x, new)
  <2>1. \A e \in O : e[2] \notin T
    BY <1>7
  <2>2. current \in prog.blocks
    BY <1>3
  <2> QED
    BY <2>1, <2>2, <1>4, <1>c, <1>f, AddSuccessorsFacts, Zenon
<1>9. /\ DOMAIN new.mark = M \cup O
      /\ ListOf(new.work, prog.blocks, T2)
  BY <1>7, <1>8, <1>b DEF SuccessorsAdded
<1>10. Going' = G /\ Headers' = Headers
  BY <1>1, <1>a DEF Going, Headers
<1>11. Scheduled(D, {}, {})'
  <2>1. ListOf(new.work, prog.blocks, T2 \ {})
    <3>1. T2 \ {} = T2
      OBVIOUS
    <3> QED
      BY <1>9, <3>1
  <2> QED
    BY <1>1, <1>6, <1>7, <1>9, <1>10, <2>1 DEF Scheduled
<1>12. InTurn(D, {}, {})'
  BY <1>1, <1>2 DEF InTurn
<1>13. Kept'
  BY <1>1, <1>10, <1>a DEF Kept
<1>14. Interpreted(D, {})'
  <2> SUFFICES ASSUME phase' # "failed", NEW b \in D
               PROVE  AcsLive(results[b])'
    BY DEF Interpreted
  <2>1. AcsLive(in)
    BY <1>1
  <2>2. D \subseteq BasicBlocks
    BY <1>3 DEF Control, Structured, OneGraph
  <2>3. CASE b = current
    <3>1. results'[b] = AcsLub(results[b], in)
      BY <1>1, <2>2, <2>3 DEF Kept
    <3> QED
      BY <2>1, <3>1 DEF AcsLub, AcsLive
  <2>4. CASE b # current
    <3>1. results'[b] = results[b]
      BY <1>1, <2>2, <2>4 DEF Kept
    <3> QED
      BY <1>1, <1>2, <2>4, <3>1 DEF Interpreted, AcsLive
  <2> QED
    BY <2>3, <2>4
<1>15. ScheduleInv' <=> (/\ Structured(prog)' /\ Kept'
                         /\ \E d, p, y : Scheduled(d, p, y)' /\ InTurn(d, p, y)' /\ Interpreted(d, p)')
  BY DEF ScheduleInv
<1> QED
  BY <1>1, <1>11, <1>12, <1>13, <1>14, <1>15

\* The work list is the list of the entry when the analysis begins.
LEMMA ScheduleInit ==
    ASSUME \A p \in Programs : Structured(p), Init
    PROVE  ScheduleInv
<1>1. Structured(prog)
  BY DEF Init, HaiInit
<1>2. /\ phase = "turn" /\ mainEntry /\ work = <<prog.main>> /\ callStack = <<>>
      /\ next_edge = <<>> /\ fixpoint = FALSE /\ mark = <<>> /\ first = BasicBlocks
      /\ fpstate = <<>> /\ results = [b \in BasicBlocks |-> AcsBottom]
  BY DEF Init, HaiInit
<1>3. Going = {} /\ DOMAIN mark = {} /\ DOMAIN fpstate = {}
  <2>1. Headers \subseteq BasicBlocks
    BY <1>1 DEF Structured, OneGraph, LoopsOK, Headers
  <2> QED
    BY <1>2, <2>1 DEF Going
<1>4. ListOf(work, prog.blocks, {prog.main} \ {})
  <2>1. prog.main \in prog.blocks
    BY <1>1 DEF Structured, OneGraph
  <2>2. Len(work) = 1 /\ work[1] = prog.main /\ work \in Seq(prog.blocks)
    <3>1. ASSUME NEW B, NEW b \in B
          PROVE  Len(<<b>>) = 1 /\ <<b>>[1] = b /\ <<b>> \in Seq(B)
      OBVIOUS
    <3> QED
      BY <1>2, <2>1, <3>1
  <2>3. 1 .. Len(work) = {1}
    BY <2>2
  <2> QED
    BY <2>2, <2>3 DEF ListOf, Items, Once
<1>5. Scheduled({}, {}, {})
  <2>1. Control(prog, {}, {}, {}, fixed, {}) /\ ToDo(prog, {}, {}, {}, fixed) = {prog.main}
    BY <1>1, MainControl
  <2> QED
    BY <1>3, <1>4, <2>1 DEF Scheduled
<1>6. InTurn({}, {}, {})
  BY <1>2, <1>3 DEF InTurn
<1>7. Kept
  BY <1>2, <1>3 DEF Kept
<1>8. Interpreted({}, {})
  BY DEF Interpreted
<1> QED
  BY <1>1, <1>5, <1>6, <1>7, <1>8 DEF ScheduleInv

\* What is not part of a turn changes nothing of the schedule.
LEMMA ScheduleStays ==
    ASSUME ScheduleInv,
           UNCHANGED <<prog, mainEntry, work, callStack, current, next_edge, fixpoint,
                       mark, first, fixed, fpstate, results>>,
           \/ phase' = phase
           \/ phase = "turn" /\ work = <<>> /\ phase' = "done"
           \/ phase = "done" /\ phase' = "run"
    PROVE  ScheduleInv'
<1>1. PICK D, P, X : Scheduled(D, P, X) /\ InTurn(D, P, X) /\ Interpreted(D, P)
  BY DEF ScheduleInv
<1>2. Going' = Going /\ Headers' = Headers /\ Exits(current)' = Exits(current)
  BY DEF Going, Headers, Exits
<1>3. Scheduled(D, P, X)'
  BY <1>1, <1>2 DEF Scheduled
<1>4. Kept'
  BY <1>2 DEF Kept, ScheduleInv
<1>5. Interpreted(D, P)'
  BY <1>1 DEF Interpreted, InTurn
<1>6. mainEntry /\ phase = "turn" => work # <<>>
  <2> SUFFICES ASSUME mainEntry, phase = "turn", work = <<>>
               PROVE  FALSE
    OBVIOUS
  <2>1. D = {} /\ Going = {} /\ DOMAIN mark = {} /\ X = {}
    BY <1>1 DEF InTurn
  <2>2. ToDo(prog, {}, {}, {}, fixed) = {prog.main}
    BY MainControl DEF ScheduleInv
  <2>3. Items(work) = {prog.main}
    BY <1>1, <2>1, <2>2 DEF Scheduled, ListOf
  <2> QED
    BY <2>3 DEF Items
<1>7. InTurn(D, P, X)'
  BY <1>1, <1>2, <1>6 DEF InTurn
<1>8. Structured(prog)'
  BY DEF ScheduleInv
<1>9. ScheduleInv' <=> (/\ Structured(prog)' /\ Kept'
                        /\ \E d, p, y : Scheduled(d, p, y)' /\ InTurn(d, p, y)' /\ Interpreted(d, p)')
  BY DEF ScheduleInv
<1> QED
  BY <1>3, <1>4, <1>5, <1>7, <1>8, <1>9

\* Nothing is called, in a program without calls.
LEMMA NoCallSteps ==
    ASSUME ScheduleInv
    PROVE  /\ ~ CalledInput /\ ~ ReturnedInput
           /\ ~ ExitOutput /\ ~ CallOutput /\ ~ BackOutput
<1>1. PICK D, P, X : Scheduled(D, P, X) /\ InTurn(D, P, X)
  BY DEF ScheduleInv
<1>2. Structured(prog) /\ Kept
  BY DEF ScheduleInv
<1>3. ASSUME CalledInput \/ ReturnedInput
      PROVE  FALSE
  <2>a. PICK w : w = SubSeq(work, 1, Len(work) - 1)
    OBVIOUS
  <2>b. PICK todo : todo = ToDo(prog, D, Going, DOMAIN mark, fixed)
    OBVIOUS
  <2>1. Turn /\ ~ mainEntry /\ (Top \in prog.entries \/ Returned(Top))
    BY <1>3 DEF CalledInput, ReturnedInput
  <2>2. TopOf(todo, w, P, X)
    BY <1>1, <1>2, <2>a, <2>b, <2>1, TopFacts, Zenon
  <2> QED
    BY <2>1, <2>2 DEF TopOf
<1>4. ~ ExitOutput /\ ~ CallOutput
  BY <1>2 DEF ExitOutput, ExitDone, CallOutput, CallDone, Kept
<1>5. ASSUME BackOutput
      PROVE  FALSE
  <2>1. phase = "output" /\ Calls(current) # <<>>
    BY <1>5 DEF BackOutput, BackDone, EndTurn
  <2>2. current \in prog.blocks
    BY <1>1, <2>1 DEF InTurn, Scheduled, Control
  <2> QED
    BY <1>2, <2>1, <2>2 DEF Structured, OneGraph, Calls
<1> QED
  BY <1>3, <1>4, <1>5

\* Every step keeps the schedule.
LEMMA ScheduleNext ==
    ASSUME ScheduleInv, [Next]_vars
    PROVE  ScheduleInv'
<1>1. PICK D, P, X : Scheduled(D, P, X) /\ InTurn(D, P, X) /\ Interpreted(D, P)
  BY DEF ScheduleInv
<1>2. Structured(prog) /\ Kept
  BY DEF ScheduleInv
<1>3. CASE MainInput
  BY <1>1, <1>2, <1>3, MainStep, Zenon
<1>4. CASE HeaderInput
  BY <1>1, <1>2, <1>4, HeaderStep, Zenon
<1>5. CASE BlockInput
  BY <1>1, <1>2, <1>5, BlockStep, Zenon
<1>6. CASE LeaveOutput
  BY <1>1, <1>2, <1>6, LeaveStep, Zenon
<1>7. CASE BodyOutput
  BY <1>1, <1>2, <1>7, BodyStep, Zenon
<1>8. CASE Finish
  BY <1>8, ScheduleStays DEF Finish
<1>9. CASE StartRun
  BY <1>9, ScheduleStays DEF StartRun
<1>10. CASE Run \/ Call \/ Return
  <2>1. UNCHANGED analysis
    BY <1>10 DEF Run, Call, Return, Executed
  <2> QED
    BY <2>1, ScheduleStays DEF analysis
<1>11. CASE UNCHANGED vars
  BY <1>11, ScheduleStays DEF vars, analysis
<1> QED
  BY <1>3, <1>4, <1>5, <1>6, <1>7, <1>8, <1>9, <1>10, <1>11, NoCallSteps
     DEF Next, Analyse, Solve

\* The invariant on every program of the kind.
LEMMA ScheduleInvariant ==
    ASSUME \A p \in Programs : Structured(p)
    PROVE  Spec => []ScheduleInv
<1>1. Init => ScheduleInv
  BY ScheduleInit
<1>2. ScheduleInv /\ [Next]_vars => ScheduleInv'
  BY ScheduleNext
<1> QED
  BY <1>1, <1>2, PTL DEF Spec

\* A block that follows a loop is not on the work list while the loop is in
\* progress (isEdgeDone).
THEOREM LoopsFirst ==
    ASSUME \A p \in Programs : Structured(p)
    PROVE  Spec => []ExitsWait
<1>1. ScheduleInv => ExitsWait
  <2> SUFFICES ASSUME ScheduleInv, NEW i \in 1 .. Len(work), NEW e \in prog.ins[work[i]],
                      NEW h \in Headers, e[1] \in prog.loops[h], e[2] \notin prog.loops[h]
               PROVE  h \in first
    BY DEF ExitsWait
  <2>1. PICK D, P, X : Scheduled(D, P, X)
    BY DEF ScheduleInv
  <2>2. PICK v : v = work[i]
    OBVIOUS
  <2>3. PICK G : G = Going
    OBVIOUS
  <2>4. PICK M : M = DOMAIN mark
    OBVIOUS
  <2>5. v \in Items(work)
    BY <2>2 DEF Items
  <2>6. v \in ToDo(prog, D, G, M, fixed) /\ Control(prog, D, G, M, fixed, P) /\ e \in prog.ins[v]
    BY <2>1, <2>2, <2>3, <2>4, <2>5 DEF Scheduled, ListOf
  <2>7. Structured(prog)
    BY DEF ScheduleInv
  <2>8. Leaving(prog, e) \cap G = {}
    BY <2>6, <2>7, ReadyEdges
  <2>9. h \in Leaving(prog, e)
    BY DEF Leaving, Around, Headers
  <2> QED
    BY <2>3, <2>8, <2>9 DEF Going
<1>2. Spec => []ScheduleInv
  BY ScheduleInvariant
<1> QED
  BY <1>1, <1>2, PTL

(* The end of an analysis.                                                 *)
NothingLeft == /\ \A b \in prog.blocks : AcsLive(results[b])
               /\ DOMAIN mark = {} /\ Going = {}

\* When the work list is empty, all blocks are processed.
LEMMA AtTheEnd ==
    ASSUME ScheduleInv, phase \in {"done", "run"}
    PROVE  NothingLeft
<1>1. PICK D, P, X : Scheduled(D, P, X) /\ InTurn(D, P, X) /\ Interpreted(D, P)
  BY DEF ScheduleInv
<1>2. Structured(prog)
  BY DEF ScheduleInv
<1>3. PICK G : G = Going
  OBVIOUS
<1>4. PICK M : M = DOMAIN mark
  OBVIOUS
<1>5. work = <<>> /\ P = {} /\ X = {} /\ prog.main \in D
  BY <1>1 DEF InTurn
<1>6. ToDo(prog, D, G, M, fixed) = {} /\ Control(prog, D, G, M, fixed, {})
  <2>1. Items(work) = {}
    BY <1>5 DEF Items
  <2>2. Items(work) = ToDo(prog, D, G, M, fixed) \ {}
    BY <1>1, <1>3, <1>4, <1>5 DEF Scheduled, ListOf
  <2> QED
    BY <1>1, <1>3, <1>4, <1>5, <2>1, <2>2 DEF Scheduled
<1>7. D = prog.blocks /\ G = {} /\ M = {}
  BY <1>2, <1>5, <1>6, EndControl
<1>8. \A b \in prog.blocks : AcsLive(results[b])
  BY <1>1, <1>5, <1>7 DEF Interpreted
<1> QED
  BY <1>3, <1>4, <1>7, <1>8 DEF NothingLeft

\* When the work list is empty every block was interpreted, and nothing is
\* left on the graph for the analysis of the next cache set.
THEOREM AllInterpreted ==
    ASSUME \A p \in Programs : Structured(p)
    PROVE  Spec => []ReadyForNext
<1>1. ScheduleInv => ReadyForNext
  <2> SUFFICES ASSUME ScheduleInv, phase = "done"
               PROVE  /\ \A b \in prog.blocks : AcsLive(results[b])
                      /\ DOMAIN mark = {} /\ DOMAIN fpstate = {}
                      /\ first = BasicBlocks
    BY DEF ReadyForNext
  <2>1. NothingLeft
    BY AtTheEnd
  <2> QED
    BY <2>1 DEF NothingLeft, Going, ScheduleInv, Kept
<1>2. Spec => []ScheduleInv
  BY ScheduleInvariant
<1> QED
  BY <1>1, <1>2, PTL

-----------------------------------------------------------------------------
(* The abstract states.                                                    *)
Proper(x) == x \in [must : MustDomain, pers : PersDomain, bottom : {FALSE}]

\* What the operations of the domain do to the number of levels.
LEMMA ProperDepth ==
    ASSUME NEW x, Proper(x)
    PROVE  /\ Depth(x) \in Nat /\ AcsLive(x)
           /\ AcsMayLeave(x) <=> Depth(x) > 0
           /\ x.must \in MustDomain /\ x.pers \in PersDomain /\ ~ x.bottom
<1>1. x.must \in MustDomain /\ x.pers \in PersDomain /\ x.bottom = FALSE
  BY DEF Proper
<1>2. Depth(x) \in Nat
  <2>1. x.pers.data \in Seq(Item)
    BY <1>1 DEF PersDomain
  <2> QED
    BY <2>1 DEF Depth
<1> QED
  BY <1>1, <1>2 DEF AcsLive, AcsMayLeave

\* A state with other levels.
LEMMA OtherLevels ==
    ASSUME NEW x, Proper(x), NEW p \in PersDomain, NEW y, y = [x EXCEPT !.pers = p]
    PROVE  Proper(y) /\ y.pers = p
<1>1. ASSUME NEW S, NEW T, NEW B, NEW z \in [must : S, pers : T, bottom : B], NEW q \in T
      PROVE  /\ [z EXCEPT !.pers = q] \in [must : S, pers : T, bottom : B]
             /\ [z EXCEPT !.pers = q].pers = q
  OBVIOUS
<1> QED
  BY <1>1, Zenon DEF Proper

\* The state of the entry of the program.
LEMMA ProperEntry == Proper(AcsEntry) /\ Depth(AcsEntry) = 0
<1>1. PersEntry \in PersDomain /\ Len(PersEntry.data) = 0
  BY ItemTypes DEF PersEntry, PersDomain
<1> QED
  BY <1>1, MustTypes DEF Proper, AcsEntry, Depth

\* The union of two states has the levels of the left one.
LEMMA ProperLub ==
    ASSUME NEW x, NEW y, Proper(x), Proper(y)
    PROVE  /\ Proper(AcsLub(x, y))
           /\ Depth(AcsLub(x, y)) = Depth(x)
<1>1. /\ x.must \in MustDomain /\ x.pers \in PersDomain /\ ~ x.bottom
      /\ y.must \in MustDomain /\ y.pers \in PersDomain /\ ~ y.bottom
  BY ProperDepth
<1>2. AcsLub(x, y) = [must |-> MustLub(x.must, y.must), pers |-> PersLub(x.pers, y.pers),
                      bottom |-> FALSE]
  BY <1>1 DEF AcsLub
<1>3. PICK d : d = PersLub(x.pers, y.pers)
  OBVIOUS
<1>4. d \in PersDomain /\ Len(d.data) = Len(x.pers.data)
  BY <1>1, <1>3, PersLubType
<1>5. MustLub(x.must, y.must) \in MustDomain
  BY <1>1, MustTypes
<1> QED
  BY <1>2, <1>3, <1>4, <1>5 DEF Proper, Depth

\* A join covers both states.
LEMMA LubCovers ==
    ASSUME NEW x, NEW y, Proper(x), Proper(y), NEW z, z = AcsLub(x, y)
    PROVE  /\ Covers(z.must, x.must) /\ Covers(z.must, y.must)
           /\ \A m \in MustDomain : Covers(x.must, m) \/ Covers(y.must, m) => Covers(z.must, m)
<1>1. /\ x.must \in MustDomain /\ ~ x.bottom /\ y.must \in MustDomain /\ ~ y.bottom
      /\ z.must \in MustDomain
  BY ProperDepth, ProperLub
<1>2. z.must = MustLub(x.must, y.must)
  BY <1>1 DEF AcsLub
<1>3. Covers(z.must, x.must) /\ Covers(z.must, y.must)
  BY <1>1, <1>2, CoversFacts
<1> QED
  BY <1>1, <1>3, CoversFacts

(* The levels of y cover those of x.                                       *)
LevelsCover(y, x) == \A j \in 1 .. Depth(y) : ItemCovers(y.pers.data[j], x.pers.data[j])

\* A level of a state.
LEMMA LevelItems ==
    ASSUME NEW x, Proper(x), NEW j \in 1 .. Depth(x)
    PROVE  x.pers.data[j] \in Item
<1>1. x.pers.data \in Seq(Item)
  BY ProperDepth DEF PersDomain
<1> QED
  BY <1>1, ElementOfSeq DEF Depth

\* To cover level by level is an order.
LEMMA LevelsFacts ==
    ASSUME NEW x, NEW y, NEW z, Proper(x), Proper(y), Proper(z),
           Depth(x) = Depth(y), Depth(y) = Depth(z)
    PROVE  /\ LevelsCover(x, x)
           /\ LevelsCover(z, y) /\ LevelsCover(y, x) => LevelsCover(z, x)
<1>1. \A j \in 1 .. Depth(x) : /\ x.pers.data[j] \in Item /\ y.pers.data[j] \in Item
                                /\ z.pers.data[j] \in Item
  BY LevelItems
<1> QED
  BY <1>1, ItemCoversFacts DEF LevelsCover

\* So does a join, of states with as many levels.
LEMMA LubLevels ==
    ASSUME NEW x, NEW y, Proper(x), Proper(y), Depth(x) = Depth(y), NEW z, z = AcsLub(x, y)
    PROVE  Proper(z) /\ Depth(z) = Depth(x) /\ LevelsCover(z, x) /\ LevelsCover(z, y)
<1>1. PICK n : n = Depth(x)
  OBVIOUS
<1>2. n \in Nat /\ Depth(y) = n
  BY <1>1, ProperDepth
<1>3. Proper(z) /\ Depth(z) = n
  BY <1>1, <1>2, ProperLub
<1>4. z.pers = PersLub(x.pers, y.pers)
  BY ProperDepth DEF AcsLub
<1>5. ASSUME NEW j \in 1 .. n
      PROVE  z.pers.data[j] = ItemLub(x.pers.data[j], y.pers.data[j])
  <2>1. Len(x.pers.data) = n /\ Len(y.pers.data) = n
    BY <1>1, <1>2 DEF Depth
  <2>2. ~ j <= n - n /\ j - (n - n) = j
    BY <1>2
  <2> QED
    BY <1>4, <2>1, <2>2 DEF PersLub
<1>6. \A j \in 1 .. n : x.pers.data[j] \in Item /\ y.pers.data[j] \in Item
  BY <1>1, <1>2, LevelItems
<1> QED
  BY <1>1, <1>3, <1>5, <1>6, ItemCoversFacts DEF LevelsCover

\* The bottom is neutral in a union.
LEMMA BottomLub ==
    ASSUME NEW x, Proper(x)
    PROVE  AcsLub(AcsBottom, x) = x /\ AcsLub(x, AcsBottom) = x
BY ProperDepth DEF AcsLub, AcsBottom

\* The update keeps the levels.
LEMMA ProperUpdate ==
    ASSUME NEW c \in ListsOfBlocks, NEW b \in BasicBlocks, NEW x, Proper(x)
    PROVE  /\ Proper(AcsUpdate(c, b, x))
           /\ Depth(AcsUpdate(c, b, x)) = Depth(x)
<1>1. x.must \in MustDomain /\ x.pers \in PersDomain
  BY ProperDepth
<1>2. CASE c[b] = <<>>
  BY <1>2 DEF AcsUpdate
<1>3. CASE c[b] # <<>>
  <2>1. LastOf(c, b) \in Blocks
    <3>1. c[b] \in Seq(Blocks)
      BY DEF ListsOfBlocks
    <3> QED
      BY <1>3, <3>1 DEF LastOf
  <2>2. AcsUpdate(c, b, x) = [must   |-> MustInject(x.must, LastOf(c, b)),
                              pers   |-> PersInject(x.pers, x.must, LastOf(c, b)),
                              bottom |-> FALSE]
    BY <1>3 DEF AcsUpdate, Proper
  <2> QED
    BY <1>1, <2>1, <2>2, MustTypes, PersInjectType DEF Proper, Depth
<1> QED
  BY <1>2, <1>3

\* To enter a loop adds one level.
LEMMA ProperEnter ==
    ASSUME NEW x, Proper(x)
    PROVE  Proper(AcsEnter(x)) /\ Depth(AcsEnter(x)) = Depth(x) + 1
<1>1. x.pers \in PersDomain
  BY ProperDepth
<1>2. /\ PersEnter(x.pers) \in PersDomain
      /\ Len(PersEnter(x.pers).data) = Len(x.pers.data) + 1
  BY <1>1, PersEnterLeaveTypes
<1>3. Proper(AcsEnter(x)) /\ AcsEnter(x).pers = PersEnter(x.pers)
  BY <1>2, OtherLevels, Zenon DEF AcsEnter
<1> QED
  BY <1>2, <1>3 DEF Depth

\* To leave a loop takes one level off.
LEMMA ProperLeave ==
    ASSUME NEW x, Proper(x), Depth(x) > 0
    PROVE  Proper(AcsLeave(x)) /\ Depth(AcsLeave(x)) = Depth(x) - 1
<1>1. x.pers \in PersDomain
  BY ProperDepth
<1>2. /\ PersLeave(x.pers) \in PersDomain
      /\ Len(PersLeave(x.pers).data) = Len(x.pers.data) - 1
  BY <1>1, PersEnterLeaveTypes DEF Depth
<1>3. Proper(AcsLeave(x)) /\ AcsLeave(x).pers = PersLeave(x.pers)
  BY <1>2, OtherLevels, Zenon DEF AcsLeave
<1> QED
  BY <1>2, <1>3 DEF Depth

-----------------------------------------------------------------------------
(* U is what Union() computes on the way to the union over Z.              *)
LastEdge(T) == CHOOSE e \in T : TRUE
UnionsOf(U, Z) ==
    /\ U[{}] = AcsBottom
    /\ \A T \in SUBSET Z : T # {} => /\ LastEdge(T) \in T
                                     /\ U[T] = AcsLub(U[T \ {LastEdge(T)}], mark[LastEdge(T)])

\* Sets get smaller.
LEMMA SmallerSet ==
    ASSUME NEW T, IsFiniteSet(T), NEW e \in T
    PROVE  /\ IsFiniteSet(T \ {e})
           /\ Cardinality(T) \in Nat /\ Cardinality(T \ {e}) \in Nat
           /\ Cardinality(T \ {e}) = Cardinality(T) - 1
<1>1. Cardinality(T \ {e}) = Cardinality(T) - 1 /\ IsFiniteSet(T \ {e})
  BY FS_RemoveElement
<1> QED
  BY <1>1, FS_CardinalityType

\* The union of the states of edges is the repetition of its turns.
LEMMA UnionTurns ==
    ASSUME NEW S, NEW Z, Z = S \cap DOMAIN mark, IsFiniteSet(Z)
    PROVE  \E U : Union(S) = U[Z] /\ UnionsOf(U, Z)
<1> DEFINE pick(T) == CHOOSE e \in T : TRUE
           Body(U, T) == IF T = {} THEN AcsBottom
                         ELSE AcsLub(U[T \ {pick(T)}], mark[pick(T)])
           Small(n) == {T \in SUBSET Z : Cardinality(T) <= n}
           F(X, U) == [T \in X |-> Body(U, T)]
           U0 == CHOOSE U : U = F(SUBSET Z, U)
<1>1. Union(S) = U0[Z]
  BY DEF Union
<1>2. \A T \in SUBSET Z : IsFiniteSet(T) /\ Cardinality(T) \in Nat /\ Cardinality(T) <= Cardinality(Z)
  BY FS_Subset, FS_CardinalityType
<1>3. \E U : U = F(SUBSET Z, U)
  <2> DEFINE N == {n \in Nat : \E U : U = F(Small(n), U)}
  <2>1. 0 \in N
    <3> DEFINE U == [T \in Small(0) |-> AcsBottom]
    <3>1. \A T \in Small(0) : T = {}
      BY <1>2, FS_EmptySet
    <3>2. U = F(Small(0), U)
      BY <3>1
    <3> QED
      BY <3>2
  <2>2. ASSUME NEW n \in N
        PROVE  n + 1 \in N
    <3>1. PICK U : U = F(Small(n), U)
      BY <2>2
    <3> DEFINE V == [T \in Small(n + 1) |-> IF T \in Small(n) THEN U[T] ELSE Body(U, T)]
    <3>2. ASSUME NEW T \in Small(n + 1)
          PROVE  V[T] = Body(V, T)
      <4>1. V[T] = Body(U, T)
        BY <3>1
      <4>2. CASE T = {}
        BY <4>1, <4>2
      <4>3. CASE T # {}
        <5> DEFINE e == pick(T)
        <5>1. e \in T
          BY <4>3
        <5> HIDE DEF e
        <5>2. T \in SUBSET Z /\ Cardinality(T) <= n + 1 /\ n \in Nat /\ T \ {e} \in SUBSET Z
          OBVIOUS
        <5>3. Cardinality(T \ {e}) <= n
          BY <1>2, <5>1, <5>2, SmallerSet
        <5>4. T \ {e} \in Small(n) /\ T \ {e} \in Small(n + 1)
          BY <1>2, <5>2, <5>3
        <5>5. V[T \ {e}] = U[T \ {e}]
          BY <5>4
        <5> HIDE DEF V
        <5> QED
          BY <4>1, <5>5 DEF e
      <4> QED
        BY <4>2, <4>3
    <3>3. V = F(Small(n + 1), V)
      <4>1. V = [T \in Small(n + 1) |-> V[T]]
        OBVIOUS
      <4> HIDE DEF V, Small, Body
      <4> QED
        BY <3>2, <4>1
    <3>4. \E W : W = F(Small(n + 1), W)
      <4> HIDE DEF V, F
      <4> QED
        BY <3>3
    <3> HIDE DEF F, Small
    <3> QED
      BY <3>4
  <2>3. N = Nat
    <3> HIDE DEF N
    <3>1. N \in SUBSET Nat
      BY DEF N
    <3> QED
      BY <2>1, <2>2, <3>1, AllNaturals
  <2>4. Cardinality(Z) \in Nat
    BY <1>2
  <2>5. \E U : U = F(Small(Cardinality(Z)), U)
    <3> HIDE DEF F, Small
    <3> QED
      BY <2>3, <2>4
  <2>6. Small(Cardinality(Z)) = SUBSET Z
    BY <1>2
  <2> HIDE DEF F, Small
  <2> QED
    BY <2>5, <2>6
<1>4. U0 = F(SUBSET Z, U0)
  <2> HIDE DEF F
  <2> QED
    BY <1>3
<1> HIDE DEF U0
<1>5. \A T \in SUBSET Z : U0[T] = Body(U0, T)
  BY <1>4
<1>6. UnionsOf(U0, Z)
  <2>1. U0[{}] = AcsBottom
    BY <1>5
  <2>2. ASSUME NEW T \in SUBSET Z, T # {}
        PROVE  /\ LastEdge(T) \in T
               /\ U0[T] = AcsLub(U0[T \ {LastEdge(T)}], mark[LastEdge(T)])
    <3>1. pick(T) \in T
      BY <2>2
    <3>2. U0[T] = AcsLub(U0[T \ {pick(T)}], mark[pick(T)])
      BY <1>5, <2>2
    <3> QED
      BY <3>1, <3>2 DEF LastEdge
  <2> QED
    BY <2>1, <2>2 DEF UnionsOf
<1> QED
  BY <1>1, <1>6

\* The same, of the states before a step and after it.
LEMMA UnionNow ==
    \A S, Z : Z = S \cap DOMAIN mark /\ IsFiniteSet(Z)
        => \E U : Union(S) = U[Z] /\ UnionsOf(U, Z)
BY UnionTurns
LEMMA UnionNext ==
    (\A S, Z : Z = S \cap DOMAIN mark /\ IsFiniteSet(Z)
        => \E U : Union(S) = U[Z] /\ UnionsOf(U, Z))'
BY UnionNow, PTL

\* A step that keeps the states of edges keeps their union.
LEMMA SameUnion ==
    ASSUME NEW S, IsFiniteSet(S), S \subseteq DOMAIN mark, S \subseteq DOMAIN mark',
           \A e \in S : mark'[e] = mark[e]
    PROVE  Union(S)' = Union(S)
<1>1. S = S \cap DOMAIN mark /\ S = S \cap DOMAIN mark'
  OBVIOUS
<1>2. PICK U : Union(S) = U[S] /\ UnionsOf(U, S)
  BY <1>1, UnionNow
<1>3. PICK V : Union(S)' = V[S] /\ UnionsOf(V, S)'
  BY <1>1, UnionNext
<1> DEFINE N == {n \in Nat : \A T \in SUBSET S : Cardinality(T) <= n => U[T] = V[T]}
<1>4. U[{}] = V[{}]
  BY <1>2, <1>3 DEF UnionsOf
<1>5. \A T \in SUBSET S : IsFiniteSet(T) /\ Cardinality(T) \in Nat
  BY FS_Subset, FS_CardinalityType
<1>6. 0 \in N
  <2>1. ASSUME NEW T \in SUBSET S, Cardinality(T) <= 0
        PROVE  T = {}
    BY <1>5, <2>1, FS_EmptySet
  <2> QED
    BY <1>4, <2>1
<1>7. ASSUME NEW n \in N
      PROVE  n + 1 \in N
  <2> SUFFICES ASSUME NEW T \in SUBSET S, Cardinality(T) <= n + 1
               PROVE  U[T] = V[T]
    OBVIOUS
  <2> SUFFICES ASSUME T # {}
               PROVE  U[T] = V[T]
    BY <1>4
  <2>1. PICK e : e = LastEdge(T)
    OBVIOUS
  <2>2. /\ e \in T /\ U[T] = AcsLub(U[T \ {e}], mark[e])
        /\ V[T] = AcsLub(V[T \ {e}], mark'[e])
    BY <1>2, <1>3, <2>1 DEF UnionsOf
  <2>3. Cardinality(T \ {e}) <= n
    BY <1>5, <2>2, SmallerSet
  <2>4. U[T \ {e}] = V[T \ {e}]
    BY <2>3
  <2> QED
    BY <2>2, <2>4
<1>8. N = Nat
  <2> HIDE DEF N
  <2>1. N \in SUBSET Nat
    BY DEF N
  <2> QED
    BY <1>6, <1>7, <2>1, AllNaturals
<1>9. Cardinality(S) \in N /\ Cardinality(S) <= Cardinality(S)
  BY <1>5, <1>8
<1> QED
  BY <1>2, <1>3, <1>9

(* x is the union of the states of the edges of Z: its levels, its MUST and *)
(* its PERS.                                                               *)
UnionOver(Z, x) ==
    /\ Proper(x)
    /\ \E e \in Z : Depth(x) = Depth(mark[e])
    /\ \A e \in Z : Covers(x.must, mark[e].must)
    /\ (\A e, f \in Z : Depth(mark[e]) = Depth(mark[f])) => \A e \in Z : LevelsCover(x, mark[e])

\* The union has the depth of one of the states, and covers them.
LEMMA UnionFacts ==
    ASSUME NEW S, NEW Z, Z = S \cap DOMAIN mark, IsFiniteSet(Z), Z # {},
           \A e \in Z : Proper(mark[e])
    PROVE  UnionOver(Z, Union(S))
<1>1. PICK U : Union(S) = U[Z] /\ UnionsOf(U, Z)
  BY UnionTurns
<1> DEFINE N == {n \in Nat : \A T \in SUBSET Z : T # {} /\ Cardinality(T) <= n => UnionOver(T, U[T])}
<1>2. \A T \in SUBSET Z : IsFiniteSet(T) /\ Cardinality(T) \in Nat
  BY FS_Subset, FS_CardinalityType
<1>3. 0 \in N
  <2>1. ASSUME NEW T \in SUBSET Z, T # {}, Cardinality(T) <= 0
        PROVE  FALSE
    BY <1>2, <2>1, FS_EmptySet
  <2> QED
    BY <2>1
<1>4. ASSUME NEW n \in N
      PROVE  n + 1 \in N
  <2> SUFFICES ASSUME NEW T \in SUBSET Z, T # {}, Cardinality(T) <= n + 1
               PROVE  UnionOver(T, U[T])
    OBVIOUS
  <2>1. PICK e \in T : U[T] = AcsLub(U[T \ {e}], mark[e])
    BY <1>1 DEF UnionsOf
  <2>2. Proper(mark[e]) /\ Depth(mark[e]) \in Nat
    BY <2>1, ProperDepth
  <2>3. CASE T = {e}
    <3>1. T \ {e} = {}
      BY <2>3
    <3>2. U[T] = mark[e]
      BY <1>1, <2>1, <2>2, <3>1, BottomLub DEF UnionsOf
    <3>3. Covers(mark[e].must, mark[e].must)
      BY <2>2, ProperDepth, CoversFacts
    <3>4. LevelsCover(mark[e], mark[e])
      BY <2>2, LevelsFacts
    <3> QED
      BY <2>2, <2>3, <3>2, <3>3, <3>4 DEF UnionOver
  <2>4. CASE T # {e}
    <3> DEFINE R == T \ {e}
    <3>1. R # {} /\ R \in SUBSET Z /\ T = R \cup {e}
      BY <2>1, <2>4
    <3>2. Cardinality(R) <= n
      BY <1>2, <2>1, SmallerSet
    <3> HIDE DEF R
    <3>3. UnionOver(R, U[R])
      BY <3>1, <3>2
    <3>4. Proper(U[R]) /\ Depth(U[R]) \in Nat
      BY <3>3, ProperDepth DEF UnionOver
    <3>5. U[T] = AcsLub(U[R], mark[e])
      BY <2>1 DEF R
    <3>6. Proper(U[T]) /\ Depth(U[T]) = Depth(U[R])
      BY <2>2, <3>4, <3>5, ProperLub
    <3>7. \E f \in R \cup {e} : Depth(U[T]) = Depth(mark[f])
      BY <3>3, <3>6 DEF UnionOver
    <3>8. \A f \in R \cup {e} : Covers(U[T].must, mark[f].must)
      <4>1. \A f \in R : mark[f].must \in MustDomain /\ Covers(U[R].must, mark[f].must)
        BY <3>1, <3>3, ProperDepth DEF UnionOver
      <4> QED
        BY <2>2, <3>4, <3>5, <4>1, LubCovers
    <3>9. ASSUME \A d, f \in R \cup {e} : Depth(mark[d]) = Depth(mark[f])
           PROVE  \A f \in R \cup {e} : LevelsCover(U[T], mark[f])
      <4>1. /\ \A f \in R : LevelsCover(U[R], mark[f]) /\ Depth(U[R]) = Depth(mark[f])
            /\ Depth(U[R]) = Depth(mark[e])
        BY <3>3, <3>9 DEF UnionOver
      <4>2. /\ Depth(U[T]) = Depth(U[R]) /\ LevelsCover(U[T], U[R])
            /\ LevelsCover(U[T], mark[e])
        BY <2>2, <3>4, <3>5, <4>1, LubLevels
      <4>3. \A f \in R : Proper(mark[f])
        BY <3>1
      <4> QED
        BY <3>4, <3>6, <4>1, <4>2, <4>3, LevelsFacts
    <3> QED
      BY <3>1, <3>6, <3>7, <3>8, <3>9 DEF UnionOver
  <2> QED
    BY <2>3, <2>4
<1>5. N = Nat
  <2> HIDE DEF N
  <2>1. N \in SUBSET Nat
    BY DEF N
  <2> QED
    BY <1>3, <1>4, <2>1, AllNaturals
<1>6. Cardinality(Z) \in N /\ Cardinality(Z) <= Cardinality(Z)
  BY <1>2, <1>5
<1> QED
  BY <1>1, <1>6

-----------------------------------------------------------------------------
(* The number of levels a state must have, counted from the loops C, at    *)
(* which there are n; an edge that an exit list has still to leave has one *)
(* level more than its mark will have.                                     *)
Weight(p, U, e) == IF p.exitOf[e] \in DOMAIN p.loops \ U THEN 1 ELSE 0
Above(p, b, C)  == Cardinality(Around(p, b) \ C)

EdgeDeep(p, U, e, d, C, n) ==
    C \subseteq Around(p, e[1]) /\ C \subseteq Around(p, e[2])
        => d + Weight(p, U, e) >= n + Above(p, e[1], C)
BlockDeep(p, b, d, C, n) == C \subseteq Around(p, b) => d >= n + Above(p, b, C)

EdgeFlat(p, U, e, d) == d + Weight(p, U, e) <= Above(p, e[1], {})
BlockFlat(p, b, d)   == d <= Above(p, b, {})

\* The loops around the ends of an edge, with those around what is not in C.
LEMMA AroundEdge ==
    ASSUME NEW p, Structured(p), NEW e \in Edges(p), NEW C, C \subseteq Around(p, e[2])
    PROVE  /\ Above(p, e[1], C) \in Nat /\ Above(p, e[2], C) \in Nat
           /\ IsFiniteSet(Leaving(p, e)) /\ Cardinality(Leaving(p, e)) \in Nat
           /\ Back(p, e) \/ e[2] \notin DOMAIN p.loops =>
                 /\ Around(p, e[2]) \subseteq Around(p, e[1])
                 /\ Above(p, e[1], C) = Above(p, e[2], C) + Cardinality(Leaving(p, e))
           /\ ~ Back(p, e) /\ e[2] \in DOMAIN p.loops /\ e[2] \notin C =>
                 /\ C \subseteq Around(p, e[1])
                 /\ Above(p, e[1], C) + 1 = Above(p, e[2], C) + Cardinality(Leaving(p, e))
<1> DEFINE X == Around(p, e[1])
           Y == Around(p, e[2])
           L == Leaving(p, e)
           v == e[2]
<1>1. \A b : Around(p, b) \subseteq p.blocks
  BY DEF Around, Structured, LoopsOK
<1>2. IsFiniteSet(p.blocks)
  BY DEF Structured, OneGraph
<1>3. /\ IsFiniteSet(X) /\ IsFiniteSet(Y) /\ IsFiniteSet(L)
      /\ IsFiniteSet(X \ C) /\ IsFiniteSet(Y \ C)
  <2>1. X \in SUBSET p.blocks /\ Y \in SUBSET p.blocks /\ L \in SUBSET p.blocks
        /\ X \ C \in SUBSET p.blocks /\ Y \ C \in SUBSET p.blocks
    BY <1>1 DEF Leaving
  <2> QED
    BY <1>2, <2>1, FS_Subset
<1>4. Above(p, e[1], C) \in Nat /\ Above(p, e[2], C) \in Nat /\ Cardinality(L) \in Nat
  BY <1>3, FS_CardinalityType DEF Above
<1>5. L = X \ Y /\ L \cap C = {}
  BY DEF Leaving
<1>6. /\ \A h \in Y : h = v \/ h \in X
      /\ Back(p, e) <=> v \in X
      /\ v \in DOMAIN p.loops => v \in Y
      /\ v \in Y => v \in DOMAIN p.loops
  <2>1. e[2] \in p.blocks /\ (Back(p, e) <=> e[2] \in Around(p, e[1]))
        /\ \A h \in Around(p, e[2]) : h = e[2] \/ h \in Around(p, e[1])
    BY EdgeFacts
  <2>2. /\ Around(p, e[2]) \subseteq DOMAIN p.loops
        /\ e[2] \in DOMAIN p.loops => e[2] \in Around(p, e[2])
    BY <2>1, BlockFacts
  <2> QED
    BY <2>1, <2>2
<1>7. ASSUME Back(p, e) \/ v \notin DOMAIN p.loops
      PROVE  /\ Y \subseteq X
             /\ Above(p, e[1], C) = Above(p, v, C) + Cardinality(L)
  <2>1. Y \subseteq X
    BY <1>6, <1>7
  <2>2. X \ C = (Y \ C) \cup L /\ (Y \ C) \cap L = {}
    BY <1>5, <2>1
  <2>3. Cardinality((Y \ C) \cup L) = Cardinality(Y \ C) + Cardinality(L) - Cardinality((Y \ C) \cap L)
    BY <1>3, FS_Union
  <2>4. Cardinality((Y \ C) \cap L) = 0
    BY <2>2, FS_EmptySet
  <2>5. Cardinality(X \ C) = Cardinality((Y \ C) \cup L)
    BY <2>2
  <2>6. Above(p, e[1], C) = Cardinality(X \ C) /\ Above(p, v, C) = Cardinality(Y \ C)
    BY DEF Above
  <2> HIDE DEF X, Y, L, v
  <2>7. Above(p, e[1], C) = Above(p, v, C) + Cardinality(L)
    BY <1>4, <2>3, <2>4, <2>5, <2>6
  <2> QED
    BY <2>1, <2>7
<1>8. ASSUME ~ Back(p, e), v \in DOMAIN p.loops, v \notin C
      PROVE  /\ C \subseteq X
             /\ Above(p, e[1], C) + 1 = Above(p, v, C) + Cardinality(L)
  <2> DEFINE Z == (Y \ C) \ {v}
  <2>1. C \subseteq X /\ v \in Y \ C /\ v \notin X
    BY <1>6, <1>8
  <2>2. X \ C = Z \cup L /\ Z \cap L = {}
    BY <1>5, <1>6, <2>1
  <2>3. IsFiniteSet(Z) /\ Cardinality(Z) \in Nat /\ Cardinality(Z) = Cardinality(Y \ C) - 1
    BY <1>3, <2>1, SmallerSet
  <2>4. Cardinality(Z \cup L) = Cardinality(Z) + Cardinality(L) - Cardinality(Z \cap L)
    BY <1>3, <2>3, FS_Union
  <2>5. Cardinality(Z \cap L) = 0
    BY <2>2, FS_EmptySet
  <2>6. Cardinality(X \ C) = Cardinality(Z \cup L)
    BY <2>2
  <2>7. Above(p, e[1], C) = Cardinality(X \ C) /\ Above(p, v, C) = Cardinality(Y \ C)
    BY DEF Above
  <2> HIDE DEF X, Y, L, Z
  <2>8. Above(p, e[1], C) + 1 = Above(p, v, C) + Cardinality(L)
    BY <1>4, <2>3, <2>4, <2>5, <2>6, <2>7
  <2> QED
    BY <2>1, <2>8
<1> QED
  BY <1>3, <1>4, <1>7, <1>8

\* What arrives on an edge, from the loops that it leaves, has a level for
\* each loop around its target, but for the one that it enters.
LEMMA ArriveDeep ==
    ASSUME NEW p, Structured(p), NEW e \in Edges(p), NEW U,
           NEW C, C \subseteq Around(p, e[2]), NEW n \in Nat, NEW d \in Nat,
           EdgeDeep(p, U, e, d, C, n)
    PROVE  /\ Back(p, e) \/ e[2] \notin DOMAIN p.loops => d >= n + Above(p, e[2], C)
           /\ ~ Back(p, e) /\ e[2] \in DOMAIN p.loops /\ e[2] \notin C
                 => d + 1 >= n + Above(p, e[2], C)
<1>1. Weight(p, U, e) \in {0, 1} /\ Weight(p, U, e) <= Cardinality(Leaving(p, e))
  <2>1. Cardinality(Leaving(p, e)) \in Nat /\ IsFiniteSet(Leaving(p, e))
    BY AroundEdge
  <2>2. ASSUME p.exitOf[e] \in DOMAIN p.loops
        PROVE  Cardinality(Leaving(p, e)) # 0
    <3>1. Leaving(p, e) # {}
      BY <2>2 DEF Structured, ExitsRight, LoopsOK
    <3> QED
      BY <2>1, <3>1, FS_EmptySet
  <2> QED
    BY <2>1, <2>2 DEF Weight
<1>2. /\ Above(p, e[1], C) \in Nat /\ Above(p, e[2], C) \in Nat
      /\ Cardinality(Leaving(p, e)) \in Nat
  BY AroundEdge
<1>3. ASSUME Back(p, e) \/ e[2] \notin DOMAIN p.loops
      PROVE  d >= n + Above(p, e[2], C)
  <2>1. /\ Around(p, e[2]) \subseteq Around(p, e[1])
        /\ Above(p, e[1], C) = Above(p, e[2], C) + Cardinality(Leaving(p, e))
    BY <1>3, AroundEdge
  <2>2. d + Weight(p, U, e) >= n + Above(p, e[1], C)
    BY <2>1 DEF EdgeDeep
  <2> QED
    BY <1>1, <1>2, <2>1, <2>2
<1>4. ASSUME ~ Back(p, e), e[2] \in DOMAIN p.loops, e[2] \notin C
      PROVE  d + 1 >= n + Above(p, e[2], C)
  <2>1. /\ C \subseteq Around(p, e[1])
        /\ Above(p, e[1], C) + 1 = Above(p, e[2], C) + Cardinality(Leaving(p, e))
    BY <1>4, AroundEdge
  <2>2. d + Weight(p, U, e) >= n + Above(p, e[1], C)
    BY <2>1 DEF EdgeDeep
  <2> QED
    BY <1>1, <1>2, <2>1, <2>2
<1> QED
  BY <1>3, <1>4

\* Where edges leave one loop at most, it has no more.
LEMMA ArriveFlat ==
    ASSUME NEW p, Structured(p), OneLevel(p), NEW e \in Edges(p), NEW U,
           Leaving(p, e) \cap U = {}, NEW d \in Nat, EdgeFlat(p, U, e, d)
    PROVE  /\ Back(p, e) \/ e[2] \notin DOMAIN p.loops => BlockFlat(p, e[2], d)
           /\ ~ Back(p, e) /\ e[2] \in DOMAIN p.loops => BlockFlat(p, e[2], d + 1)
<1>1. /\ Above(p, e[1], {}) \in Nat /\ Above(p, e[2], {}) \in Nat
      /\ Cardinality(Leaving(p, e)) \in Nat /\ IsFiniteSet(Leaving(p, e))
      /\ Back(p, e) \/ e[2] \notin DOMAIN p.loops =>
            Above(p, e[1], {}) = Above(p, e[2], {}) + Cardinality(Leaving(p, e))
      /\ ~ Back(p, e) /\ e[2] \in DOMAIN p.loops =>
            Above(p, e[1], {}) + 1 = Above(p, e[2], {}) + Cardinality(Leaving(p, e))
  BY AroundEdge
<1>2. Weight(p, U, e) \in {0, 1} /\ Weight(p, U, e) >= Cardinality(Leaving(p, e))
  <2>1. CASE Leaving(p, e) = {}
    <3>1. Cardinality(Leaving(p, e)) = 0
      BY <2>1, FS_EmptySet
    <3> QED
      BY <3>1 DEF Weight
  <2>2. CASE Leaving(p, e) # {}
    <3>1. p.exitOf[e] \in Leaving(p, e)
      BY <2>2 DEF Structured, ExitsRight
    <3>2. p.exitOf[e] \in DOMAIN p.loops \ U
      BY <3>1 DEF Leaving, Around
    <3>3. Weight(p, U, e) = 1
      BY <3>2 DEF Weight
    <3> QED
      BY <1>1, <3>3 DEF OneLevel
  <2> QED
    BY <2>1, <2>2
<1>3. d + Weight(p, U, e) <= Above(p, e[1], {})
  BY DEF EdgeFlat
<1> QED
  BY <1>1, <1>2, <1>3 DEF BlockFlat

-----------------------------------------------------------------------------
(* The headers whose exit lists are still to be dealt with.                *)
InUse == IF phase = "output" /\ fixpoint THEN Going \cup {current} ELSE Going

HeaderDepth(h) == Depth(fpstate[h].header)

(* Counted from the loops C, where there are n, all states have the levels *)
(* they must have.                                                         *)
Deep(C, n) ==
    /\ \A e \in DOMAIN mark : EdgeDeep(prog, InUse, e, Depth(mark[e]), C, n)
    /\ phase = "output" => BlockDeep(prog, current, Depth(in), C, n)
    /\ \A h \in Going : BlockDeep(prog, h, HeaderDepth(h), C, n)

Base(C, n) == \/ C = {} /\ n = 0
              \/ \E h \in Going : C = Around(prog, h) /\ n = HeaderDepth(h)

Flat ==
    /\ \A e \in DOMAIN mark : EdgeFlat(prog, InUse, e, Depth(mark[e]))
    /\ phase = "output" => BlockFlat(prog, current, Depth(in))

(* What is kept about the loop of h, as s, between two iterations.         *)
HeaderState(h, s) ==
    /\ Proper(s.header)
    /\ unrolling => s.iter = 1 \/ (s.iter = 2 /\ Proper(s.second))
    /\ ~ unrolling => /\ s.iter = 0 /\ Entering(h) \subseteq DOMAIN mark
                      /\ Depth(Union(Entering(h))) + 1 = Depth(s.header)

(* The invariant of the abstract states.                                   *)
ValueInv ==
    /\ phase # "failed"
    /\ code \in ListsOfBlocks
    /\ \A e \in DOMAIN mark : Proper(mark[e])
    /\ phase = "output" => Proper(in)
    /\ \A h \in Going : HeaderState(h, fpstate[h])
    /\ Deep({}, 0)
    /\ \A h \in Going : Deep(Around(prog, h), HeaderDepth(h))
    /\ OneLevel(prog) => Flat

\* What Base and Deep say together.
LEMMA BaseDeep ==
    ASSUME ValueInv, NEW C, NEW n, Base(C, n)
    PROVE  n \in Nat /\ Deep(C, n)
<1>1. CASE C = {} /\ n = 0
  BY <1>1 DEF ValueInv
<1>2. CASE \E h \in Going : C = Around(prog, h) /\ n = HeaderDepth(h)
  <2>1. PICK h \in Going : C = Around(prog, h) /\ n = HeaderDepth(h)
    BY <1>2
  <2>2. HeaderState(h, fpstate[h])
    BY DEF ValueInv
  <2>3. HeaderDepth(h) \in Nat
    BY <2>2, ProperDepth DEF HeaderState, HeaderDepth
  <2>4. Deep(Around(prog, h), HeaderDepth(h))
    BY DEF ValueInv
  <2> QED
    BY <2>1, <2>3, <2>4
<1> QED
  BY <1>1, <1>2 DEF Base

(* x has the levels of a state at b, but for k of them.                    *)
Arrives(b, k, x) ==
    /\ Proper(x) /\ Depth(x) \in Nat
    /\ \A C, n : Base(C, n) /\ C \subseteq Around(prog, b) /\ (k = 1 => b \notin C)
                    => Depth(x) + k >= n + Above(prog, b, C)
    /\ OneLevel(prog) => BlockFlat(prog, b, Depth(x) + k)

(* k = 1 for edges that enter the loop of b.                               *)
Crossing(S, b, k) ==
    \/ k = 0 /\ \A e \in S : Back(prog, e) \/ b \notin Headers
    \/ k = 1 /\ b \in Headers /\ \A e \in S : ~ Back(prog, e)

\* What UnionFacts says of the edges of a program.
LEMMA UnionOfEdges ==
    ASSUME Structured(prog), NEW S, S \subseteq Edges(prog), S # {}, S \subseteq DOMAIN mark,
           \A e \in S : Proper(mark[e]), NEW x, x = Union(S)
    PROVE  UnionOver(S, x)
<1>1. IsFiniteSet(S)
  <2>1. IsFiniteSet(prog.blocks \X prog.blocks)
    BY FS_Product DEF Structured, OneGraph
  <2>2. S \in SUBSET (prog.blocks \X prog.blocks)
    BY DEF Structured, OneGraph
  <2> QED
    BY <2>1, <2>2, FS_Subset
<1>2. S = S \cap DOMAIN mark
  OBVIOUS
<1> QED
  BY <1>1, <1>2, UnionFacts

\* The union of the states of edges to b has the levels that are due at b.
LEMMA UnionArrives ==
    ASSUME Structured(prog), ValueInv, phase = "turn",
           NEW b \in prog.blocks, NEW S, S \subseteq prog.ins[b], S # {},
           S \subseteq DOMAIN mark, \A e \in S : Leaving(prog, e) \cap Going = {},
           NEW k, Crossing(S, b, k), NEW x, x = Union(S)
    PROVE  Arrives(b, k, x)
<1>1. \A e \in S : e \in Edges(prog) /\ e[2] = b /\ Proper(mark[e]) /\ Depth(mark[e]) \in Nat
  BY BlockFacts, ProperDepth DEF ValueInv
<1>2. UnionOver(S, x)
  BY <1>1, UnionOfEdges
<1>3. Proper(x) /\ Depth(x) \in Nat
  BY <1>2, ProperDepth DEF UnionOver
<1>4. PICK e \in S : Depth(x) = Depth(mark[e])
  BY <1>2 DEF UnionOver
<1>5. InUse = Going /\ k \in {0, 1}
  BY DEF InUse, Crossing
<1>6. ASSUME NEW C, NEW n, Base(C, n), C \subseteq Around(prog, b), k = 1 => b \notin C
      PROVE  Depth(x) + k >= n + Above(prog, b, C)
  <2>1. n \in Nat /\ EdgeDeep(prog, Going, e, Depth(x), C, n)
    BY <1>4, <1>5, <1>6, BaseDeep DEF Deep
  <2>2. /\ Back(prog, e) \/ e[2] \notin DOMAIN prog.loops => Depth(x) >= n + Above(prog, e[2], C)
        /\ ~ Back(prog, e) /\ e[2] \in DOMAIN prog.loops /\ e[2] \notin C
              => Depth(x) + 1 >= n + Above(prog, e[2], C)
    BY <1>1, <1>3, <1>6, <2>1, ArriveDeep
  <2>3. CASE k = 0
    BY <1>1, <1>3, <2>2, <2>3 DEF Crossing, Headers
  <2>4. CASE k = 1
    BY <1>1, <1>6, <2>2, <2>4 DEF Crossing, Headers
  <2> QED
    BY <1>5, <2>3, <2>4
<1>7. ASSUME OneLevel(prog)
      PROVE  BlockFlat(prog, b, Depth(x) + k)
  <2>1. EdgeFlat(prog, Going, e, Depth(x)) /\ Leaving(prog, e) \cap Going = {}
    BY <1>4, <1>5, <1>7 DEF ValueInv, Flat
  <2>2. /\ Back(prog, e) \/ e[2] \notin DOMAIN prog.loops => BlockFlat(prog, e[2], Depth(x))
        /\ ~ Back(prog, e) /\ e[2] \in DOMAIN prog.loops => BlockFlat(prog, e[2], Depth(x) + 1)
    BY <1>1, <1>3, <1>7, <2>1, ArriveFlat
  <2>3. Depth(x) + 0 = Depth(x)
    BY <1>3
  <2> QED
    BY <1>1, <2>2, <2>3 DEF Crossing, Headers
<1> QED
  BY <1>2, <1>3, <1>6, <1>7 DEF Arrives, UnionOver

-----------------------------------------------------------------------------
(* x is right for the next state of the loop of h, which had s.            *)
NextHeader(h, s, x) ==
    [header |-> x,
     second |-> IF s.iter = 1 THEN x ELSE s.second,
     iter   |-> IF unrolling /\ s.iter < 2 THEN s.iter + 1 ELSE s.iter]

HeaderRight(h, s, x) ==
    /\ HeaderOK(h)
    /\ Arrives(h, 0, x)
    /\ HeaderState(h, NextHeader(h, s, x))

\* The states of the edges to a block that is ready.
LEMMA ReadyStates ==
    ASSUME Structured(prog), NEW D, NEW M, M = DOMAIN mark, NEW G, G = Going,
           Control(prog, D, G, M, fixed, {}), NEW b \in ToDo(prog, D, G, M, fixed)
    PROVE  /\ b \in prog.blocks
           /\ \A e \in prog.ins[b] : e \in Edges(prog) /\ e[2] = b /\ Leaving(prog, e) \cap Going = {}
           /\ Entering(b) \subseteq DOMAIN mark
           /\ b \in Going => Returning(b) \subseteq DOMAIN mark
           /\ b \notin Headers => prog.ins[b] = Entering(b)
           /\ b # prog.main => Entering(b) # {}
           /\ b \in Headers => Returning(b) # {}
           /\ Crossing(Returning(b), b, 0)
           /\ b \in Headers => Crossing(Entering(b), b, 1)
           /\ b \notin Headers => Crossing(prog.ins[b], b, 0)
<1>1. b \in prog.blocks
  BY DEF ToDo
<1>2. \A e \in prog.ins[b] : e \in Edges(prog) /\ e[2] = b
  BY <1>1, BlockFacts
<1>3. \A e \in prog.ins[b] : /\ Leaving(prog, e) \cap G = {}
                             /\ ~ Back(prog, e) \/ b \in G => e \in M
  BY ReadyEdges
<1>4. \A e : Dominated(e) <=> Back(prog, e)
  BY DEF Dominated, Back
<1>5. b \notin Headers => \A e \in prog.ins[b] : ~ Back(prog, e)
  BY <1>2, EdgeFacts DEF Headers
<1>6. b # prog.main => \E e \in prog.ins[b] : ~ Back(prog, e)
  BY <1>1, BlockFacts
<1>7. b \in Headers => \E e \in prog.ins[b] : Back(prog, e)
  BY <1>1, BlockFacts DEF Headers
<1> QED
  BY <1>1, <1>2, <1>3, <1>4, <1>5, <1>6, <1>7 DEF Entering, Returning, Crossing

\* The first iteration: what enters the loop, one level deeper.
LEMMA FirstIteration ==
    ASSUME Structured(prog), ValueInv, phase = "turn",
           NEW D, NEW M, M = DOMAIN mark, NEW G, G = Going,
           Control(prog, D, G, M, fixed, {}), NEW h \in ToDo(prog, D, G, M, fixed),
           h \in Headers, h \in first,
           NEW s, s = StateOf(h),
           NEW x, x = IF unrolling THEN Unrolled(h, s) ELSE Iteration(h)
    PROVE  HeaderRight(h, s, x) /\ Stable(h, s, x) = FALSE
<1>1. /\ s = [header |-> AcsBottom, second |-> AcsBottom, iter |-> 0]
      /\ x = AcsEnter(Union(Entering(h)))
  BY DEF StateOf, Unrolled, Iteration
<1>2. s.iter = 0
  BY <1>1
<1>3. h # prog.main
  BY BlockFacts, ReadyStates DEF Structured, OneGraph, Headers
<1>4. PICK u : u = Union(Entering(h))
  OBVIOUS
<1>5. Arrives(h, 1, u)
  <2>1. /\ h \in prog.blocks /\ Entering(h) # {} /\ Entering(h) \subseteq DOMAIN mark
        /\ Crossing(Entering(h), h, 1)
        /\ \A e \in prog.ins[h] : Leaving(prog, e) \cap Going = {}
    BY <1>3, ReadyStates
  <2>2. Entering(h) \subseteq prog.ins[h]
    BY DEF Entering
  <2>3. \A e \in Entering(h) : Leaving(prog, e) \cap Going = {}
    BY <2>1, <2>2
  <2> QED
    BY <1>4, <2>1, <2>2, <2>3, UnionArrives
<1>6. Proper(x) /\ Depth(x) = Depth(u) + 1 /\ Depth(x) \in Nat /\ Depth(u) \in Nat /\ AcsLive(u)
  BY <1>1, <1>4, <1>5, ProperEnter, ProperDepth DEF Arrives
<1>7. ASSUME NEW C, NEW n, Base(C, n), C \subseteq Around(prog, h)
      PROVE  Depth(x) + 0 >= n + Above(prog, h, C)
  <2>1. h \notin C
    <3>1. ASSUME NEW k \in G, h \in Around(prog, k)
          PROVE  FALSE
      BY <3>1 DEF Control, Going
    <3>2. h \in Around(prog, h)
      BY BlockFacts, ReadyStates DEF Headers
    <3> QED
      BY <1>7, <3>1, <3>2 DEF Base
  <2>2. Depth(u) + 1 >= n + Above(prog, h, C)
    BY <1>5, <1>7, <2>1 DEF Arrives
  <2> QED
    BY <1>6, <2>2
<1>8. Arrives(h, 0, x)
  <2>1. OneLevel(prog) => BlockFlat(prog, h, Depth(x) + 0)
    BY <1>5, <1>6 DEF Arrives
  <2>2. \A C, n : Base(C, n) /\ C \subseteq Around(prog, h) /\ (0 = 1 => h \notin C)
                    => Depth(x) + 0 >= n + Above(prog, h, C)
    BY <1>7
  <2> QED
    BY <1>6, <2>1, <2>2 DEF Arrives
<1>9. HeaderOK(h)
  <2>1. Marked(Entering(h)) /\ AcsLive(Union(Entering(h)))
    BY <1>4, <1>6, ReadyStates DEF Marked
  <2>2. StateOf(h).iter = 0
    BY <1>2
  <2> QED
    BY <2>1, <2>2 DEF HeaderOK
<1>10. HeaderState(h, NextHeader(h, s, x))
  <2>1. PICK r : r = NextHeader(h, s, x)
    OBVIOUS
  <2>2. r.header = x /\ r.iter = IF unrolling THEN 1 ELSE 0
    BY <1>2, <2>1 DEF NextHeader
  <2>3. Entering(h) \subseteq DOMAIN mark /\ Depth(Union(Entering(h))) + 1 = Depth(x)
    BY <1>4, <1>6, ReadyStates
  <2> QED
    BY <1>6, <2>1, <2>2, <2>3 DEF HeaderState
<1>11. Stable(h, s, x) = FALSE
  BY <1>2 DEF Stable
<1> QED
  BY <1>8, <1>9, <1>10, <1>11 DEF HeaderRight

\* The loops around a block are counted by a natural number.
LEMMA AboveType ==
    ASSUME NEW p, Structured(p), NEW b, NEW C
    PROVE  Above(p, b, C) \in Nat
<1>1. Around(p, b) \ C \in SUBSET p.blocks
  BY DEF Around, Structured, LoopsOK
<1>2. IsFiniteSet(Around(p, b) \ C)
  BY <1>1, FS_Subset DEF Structured, OneGraph
<1> QED
  BY <1>2, FS_CardinalityType DEF Above

\* A header's state has the levels that are due at its block.
LEMMA HeaderArrives ==
    ASSUME Structured(prog), ValueInv, NEW h \in Going, NEW d \in Nat, d >= HeaderDepth(h)
    PROVE  \A C, n : Base(C, n) /\ C \subseteq Around(prog, h) => d >= n + Above(prog, h, C)
<1> SUFFICES ASSUME NEW C, NEW n, Base(C, n), C \subseteq Around(prog, h)
             PROVE  d >= n + Above(prog, h, C)
  OBVIOUS
<1>1. n \in Nat /\ Deep(C, n)
  BY BaseDeep
<1>2. HeaderDepth(h) >= n + Above(prog, h, C)
  BY <1>1 DEF Deep, BlockDeep
<1>3. HeaderDepth(h) \in Nat
  BY ProperDepth DEF ValueInv, HeaderState, HeaderDepth
<1>4. Above(prog, h, C) \in Nat
  BY AboveType
<1> QED
  BY <1>1, <1>2, <1>3, <1>4

\* Two states of a block together have the levels of the left one.
LEMMA LubArrives ==
    ASSUME NEW b, NEW x, NEW y, Arrives(b, 0, x), Proper(y), NEW z, z = AcsLub(x, y)
    PROVE  Arrives(b, 0, z) /\ Depth(z) = Depth(x)
<1>1. Proper(z) /\ Depth(z) = Depth(x)
  BY ProperLub DEF Arrives
<1> QED
  BY <1>1 DEF Arrives

\* Another iteration: what comes back, with what entered or with what came
\* back first.
LEMMA AgainIteration ==
    ASSUME Structured(prog), ValueInv, phase = "turn",
           NEW D, NEW M, M = DOMAIN mark, NEW G, G = Going,
           Control(prog, D, G, M, fixed, {}), NEW h \in ToDo(prog, D, G, M, fixed),
           h \in Going,
           NEW s, s = StateOf(h),
           NEW x, x = IF unrolling THEN Unrolled(h, s) ELSE Iteration(h)
    PROVE  HeaderRight(h, s, x)
<1>1. s = fpstate[h] /\ HeaderState(h, s) /\ h \in Headers /\ h \notin first
  BY DEF StateOf, Going, ValueInv
<1>2. /\ h \in prog.blocks /\ Entering(h) # {} /\ Entering(h) \subseteq DOMAIN mark
      /\ Returning(h) # {} /\ Returning(h) \subseteq DOMAIN mark
      /\ Crossing(Entering(h), h, 1) /\ Crossing(Returning(h), h, 0)
      /\ \A e \in prog.ins[h] : Leaving(prog, e) \cap Going = {}
  <2>1. h # prog.main
    BY <1>1, BlockFacts, ReadyStates DEF Structured, OneGraph, Headers
  <2> QED
    BY <1>1, <2>1, ReadyStates
<1>3. /\ Entering(h) \subseteq prog.ins[h] /\ Returning(h) \subseteq prog.ins[h]
      /\ \A e \in Entering(h) : Leaving(prog, e) \cap Going = {}
      /\ \A e \in Returning(h) : Leaving(prog, e) \cap Going = {}
  BY <1>2 DEF Entering, Returning
<1>4. PICK u : u = Union(Entering(h))
  OBVIOUS
<1>5. PICK y : y = Union(Returning(h))
  OBVIOUS
<1>6. Arrives(h, 1, u) /\ Proper(u) /\ Depth(u) \in Nat
  <2>1. Arrives(h, 1, u)
    BY <1>2, <1>3, <1>4, UnionArrives
  <2> QED
    BY <2>1 DEF Arrives
<1>7. Arrives(h, 0, y)
  BY <1>2, <1>3, <1>5, UnionArrives
<1>8. HeaderDepth(h) \in Nat /\ HeaderDepth(h) = Depth(s.header) /\ AcsLive(s.header)
  BY <1>1, ProperDepth DEF HeaderState, HeaderDepth
<1>9. ASSUME NEW z, Arrives(h, 0, z)
      PROVE  Depth(z) >= Depth(s.header) /\ Proper(z) /\ Depth(z) \in Nat /\ AcsMayCompare(z, s.header)
  <2>1. Base(Around(prog, h), HeaderDepth(h))
    BY DEF Base
  <2>2. Depth(z) + 0 >= HeaderDepth(h) + Above(prog, h, Around(prog, h))
    BY <1>9, <2>1 DEF Arrives
  <2>3. Above(prog, h, Around(prog, h)) \in Nat /\ Proper(z) /\ Depth(z) \in Nat /\ AcsLive(z)
    BY <1>9, AboveType, ProperDepth DEF Arrives
  <2>4. Depth(z) >= Depth(s.header)
    BY <1>8, <2>2, <2>3
  <2> QED
    BY <1>8, <2>3, <2>4 DEF AcsMayCompare, AcsLive
<1>10. CASE ~ unrolling
  <2>1. PICK w : w = AcsEnter(u)
    OBVIOUS
  <2>2. Proper(w) /\ Depth(w) = Depth(u) + 1 /\ Depth(w) \in Nat /\ Depth(w) = HeaderDepth(h)
    <3>1. Proper(w) /\ Depth(w) = Depth(u) + 1
      BY <1>6, <2>1, ProperEnter
    <3>2. Depth(u) + 1 = HeaderDepth(h)
      BY <1>1, <1>4, <1>8, <1>10 DEF HeaderState
    <3> QED
      BY <1>6, <3>1, <3>2
  <2>3. x = AcsLub(w, y)
    BY <1>1, <1>4, <1>5, <1>10, <2>1 DEF Iteration
  <2>4. Arrives(h, 0, w)
    <3>1. \A C, n : Base(C, n) /\ C \subseteq Around(prog, h) => Depth(w) >= n + Above(prog, h, C)
      BY <2>2, HeaderArrives
    <3>2. OneLevel(prog) => BlockFlat(prog, h, Depth(w))
      BY <1>6, <2>2 DEF Arrives
    <3>3. Depth(w) + 0 = Depth(w)
      BY <2>2
    <3>4. \A C, n : Base(C, n) /\ C \subseteq Around(prog, h) /\ (0 = 1 => h \notin C)
                        => Depth(w) + 0 >= n + Above(prog, h, C)
      BY <3>1, <3>3
    <3>5. OneLevel(prog) => BlockFlat(prog, h, Depth(w) + 0)
      BY <3>2, <3>3
    <3> QED
      BY <2>2, <3>4, <3>5 DEF Arrives
  <2>5. Arrives(h, 0, x) /\ Depth(x) = Depth(w)
    <3>1. Proper(y)
      BY <1>7 DEF Arrives
    <3> QED
      BY <2>3, <2>4, <3>1, LubArrives
  <2>6. HeaderOK(h)
    <3>1. Marked(Entering(h)) /\ AcsLive(Union(Entering(h))) /\ Marked(Returning(h))
      BY <1>2, <1>4, <1>6, ProperDepth DEF Marked
    <3>2. AcsMayCompare(Iteration(h), StateOf(h).header)
      BY <1>9, <1>10, <2>5
    <3> QED
      BY <1>10, <3>1, <3>2 DEF HeaderOK
  <2>7. HeaderState(h, NextHeader(h, s, x))
    <3>1. PICK r : r = NextHeader(h, s, x)
      OBVIOUS
    <3>2. r.header = x /\ r.iter = 0
      BY <1>1, <1>10, <3>1 DEF NextHeader, HeaderState
    <3>3. Entering(h) \subseteq DOMAIN mark /\ Depth(Union(Entering(h))) + 1 = Depth(x)
      BY <1>2, <1>4, <2>2, <2>5
    <3> QED
      BY <1>9, <1>10, <2>5, <3>1, <3>2, <3>3 DEF HeaderState
  <2> QED
    BY <2>5, <2>6, <2>7 DEF HeaderRight
<1>11. CASE unrolling /\ s.iter = 1
  <2>1. x = y
    BY <1>5, <1>11 DEF Unrolled
  <2>2. HeaderOK(h)
    <3>1. Marked(Returning(h)) /\ StateOf(h).iter = 1
      BY <1>2, <1>11 DEF Marked
    <3> QED
      BY <1>11, <3>1 DEF HeaderOK
  <2>3. HeaderState(h, NextHeader(h, s, x))
    <3>1. PICK r : r = NextHeader(h, s, x)
      OBVIOUS
    <3>2. r.header = x /\ r.iter = 2 /\ r.second = x
      BY <1>11, <3>1 DEF NextHeader
    <3>3. Proper(x)
      BY <1>7, <2>1 DEF Arrives
    <3> QED
      BY <1>11, <3>1, <3>2, <3>3 DEF HeaderState
  <2> QED
    BY <1>7, <2>1, <2>2, <2>3 DEF HeaderRight
<1>12. CASE unrolling /\ s.iter = 2
  <2>1. x = AcsLub(y, s.second)
    BY <1>5, <1>12 DEF Unrolled
  <2>2. Proper(s.second)
    BY <1>1, <1>12 DEF HeaderState
  <2>3. Arrives(h, 0, x)
    BY <1>7, <2>1, <2>2, LubArrives
  <2>4. HeaderOK(h)
    <3>1. Marked(Returning(h)) /\ StateOf(h).iter = 2
      BY <1>2, <1>12 DEF Marked
    <3>2. AcsMayCompare(Unrolled(h, StateOf(h)), StateOf(h).header)
      BY <1>9, <1>12, <2>3
    <3> QED
      BY <1>12, <3>1, <3>2 DEF HeaderOK
  <2>5. HeaderState(h, NextHeader(h, s, x))
    <3>1. PICK r : r = NextHeader(h, s, x)
      OBVIOUS
    <3>2. r.header = x /\ r.iter = 2 /\ r.second = s.second
      BY <1>12, <3>1 DEF NextHeader
    <3>3. Proper(x)
      BY <1>9, <2>3
    <3> QED
      BY <1>12, <2>2, <3>1, <3>2, <3>3 DEF HeaderState
  <2> QED
    BY <2>3, <2>4, <2>5 DEF HeaderRight
<1> QED
  BY <1>1, <1>10, <1>11, <1>12 DEF HeaderState

-----------------------------------------------------------------------------
\* An input keeps some of the states, and adds that of the block.
LEMMA InputDeep ==
    ASSUME prog' = prog, DOMAIN mark' \subseteq DOMAIN mark,
           \A e \in DOMAIN mark' : /\ mark'[e] = mark[e]
                                   /\ Weight(prog, InUse', e) = Weight(prog, InUse, e),
           NEW C, NEW n, Deep(C, n), BlockDeep(prog, current', Depth(in'), C, n),
           \A h \in Going' : \/ h \in Going /\ fpstate'[h] = fpstate[h]
                             \/ BlockDeep(prog, h, Depth(fpstate'[h].header), C, n)
    PROVE  Deep(C, n)'
BY DEF Deep, HeaderDepth, EdgeDeep

\* The depths of an input, when no edge leaves two loops.
LEMMA InputFlat ==
    ASSUME prog' = prog, DOMAIN mark' \subseteq DOMAIN mark,
           \A e \in DOMAIN mark' : /\ mark'[e] = mark[e]
                                   /\ Weight(prog, InUse', e) = Weight(prog, InUse, e),
           Flat, BlockFlat(prog, current', Depth(in'))
    PROVE  Flat'
BY DEF Flat, EdgeFlat

\* The edges that enter a loop are finitely many.
LEMMA EnteringFinite ==
    ASSUME Structured(prog), NEW h, h \in prog.blocks
    PROVE  IsFiniteSet(Entering(h))
<1>1. IsFiniteSet(prog.blocks \X prog.blocks)
  BY FS_Product DEF Structured, OneGraph
<1>2. Entering(h) \in SUBSET (prog.blocks \X prog.blocks)
  BY BlockFacts DEF Entering, Structured, OneGraph
<1> QED
  BY <1>1, <1>2, FS_Subset

\* What is kept about a loop stays right while the states of the edges that
\* enter it are there.
LEMMA StateStays ==
    ASSUME Structured(prog), UNCHANGED <<prog, unrolling>>, NEW h, h \in prog.blocks, NEW s,
           HeaderState(h, s),
           \A e \in Entering(h) : e \in DOMAIN mark => e \in DOMAIN mark' /\ mark'[e] = mark[e],
           NEW t, t = fpstate'[h], t = s
    PROVE  HeaderState(h, fpstate[h])'
<1>1. PICK S : S = Entering(h)
  OBVIOUS
<1>2. Entering(h)' = S
  BY <1>1 DEF Entering, Dominated
<1>3. IsFiniteSet(S)
  BY <1>1, EnteringFinite
<1>4. ASSUME ~ unrolling
      PROVE  S \subseteq DOMAIN mark' /\ Union(S)' = Union(S)
  <2>1. S \subseteq DOMAIN mark
    BY <1>1, <1>4 DEF HeaderState
  <2>2. S \subseteq DOMAIN mark' /\ \A e \in S : mark'[e] = mark[e]
    BY <1>1, <2>1
  <2> QED
    BY <1>3, <2>1, <2>2, SameUnion
<1>5. ~ unrolling => Depth(Union(S)) + 1 = Depth(s.header) /\ s.iter = 0
  BY <1>1 DEF HeaderState
<1>6. /\ Proper(s.header)
      /\ unrolling => s.iter = 1 \/ (s.iter = 2 /\ Proper(s.second))
  BY DEF HeaderState
<1>7. Union(Entering(h))' = Union(S)'
  BY <1>2
<1> QED
  BY <1>2, <1>4, <1>5, <1>6, <1>7 DEF HeaderState

\* The parts of the next ValueInv.
LEMMA ValueParts ==
    ASSUME phase' # "failed", code' \in ListsOfBlocks,
           \A e \in DOMAIN mark' : Proper(mark'[e]),
           phase' = "output" => Proper(in'),
           \A h \in Going' : HeaderState(h, fpstate[h])',
           Deep({}, 0)',
           \A h \in Going' : Deep(Around(prog, h), HeaderDepth(h))',
           OneLevel(prog') => Flat'
    PROVE  ValueInv'
BY DEF ValueInv

\* The turn of the entry keeps the states.
LEMMA MainValue ==
    ASSUME Structured(prog), Kept, NEW D, NEW P, NEW X,
           Scheduled(D, P, X), InTurn(D, P, X), ValueInv, MainInput
    PROVE  ValueInv'
<1>a. PICK w : w = SubSeq(work, 1, Len(work) - 1)
  OBVIOUS
<1>b. PICK todo : todo = ToDo(prog, D, Going, DOMAIN mark, fixed)
  OBVIOUS
<1>1. Top = prog.main
  <2>1. Turn /\ mainEntry
    BY DEF MainInput
  <2>2. TopOf(todo, w, P, X)
    BY <1>a, <1>b, <2>1, TopFacts, Zenon
  <2> QED
    BY <2>1, <2>2 DEF TopOf
<1>2. /\ phase' = "output" /\ current' = prog.main /\ in' = AcsEntry
      /\ UNCHANGED <<prog, code, unrolling, mark, first, fixed, fpstate>>
  BY <1>1 DEF MainInput, Pop
<1>3. DOMAIN mark' = {} /\ Going' = {}
  BY <1>2 DEF InTurn, MainInput, Going, Headers
<1>4. Proper(AcsEntry) /\ Depth(AcsEntry) = 0 /\ Above(prog, prog.main, {}) = 0
  <2>1. Around(prog, prog.main) \ {} = {}
    BY DEF Structured, LoopsOK
  <2> QED
    BY <2>1, ProperEntry, FS_EmptySet DEF Above
<1>5. Deep({}, 0)'
  BY <1>2, <1>3, <1>4 DEF Deep, BlockDeep
<1>6. Flat'
  BY <1>2, <1>3, <1>4 DEF Flat, BlockFlat
<1>7. code' \in ListsOfBlocks
  BY <1>2 DEF ValueInv
<1> QED
  BY <1>2, <1>3, <1>4, <1>5, <1>6, <1>7, ValueParts

\* The turn of a block that is no header keeps the states.
LEMMA BlockValue ==
    ASSUME Structured(prog), Kept, NEW D, NEW P, NEW X,
           Scheduled(D, P, X), InTurn(D, P, X), ValueInv, BlockInput
    PROVE  ValueInv'
<1>a. PICK w : w = SubSeq(work, 1, Len(work) - 1)
  OBVIOUS
<1>b. PICK todo : todo = ToDo(prog, D, Going, DOMAIN mark, fixed)
  OBVIOUS
<1>c. PICK b : b = Top
  OBVIOUS
<1>d. PICK x : x = Union(prog.ins[b])
  OBVIOUS
<1>1. /\ P = {} /\ b \in todo /\ NextCall(b) = <<>> /\ (~ mainEntry => b \notin prog.entries)
      /\ ~ mainEntry
  <2>1. Turn /\ ~ mainEntry
    BY DEF BlockInput, Plain
  <2>2. TopOf(todo, w, P, X)
    BY <1>a, <1>b, <2>1, TopFacts, Zenon
  <2> QED
    BY <1>c, <2>1, <2>2 DEF TopOf
<1>2. PICK M : M = DOMAIN mark
  OBVIOUS
<1>3. PICK G : G = Going
  OBVIOUS
<1>4. Control(prog, D, G, M, fixed, {}) /\ b \in ToDo(prog, D, G, M, fixed)
  BY <1>b, <1>1, <1>2, <1>3 DEF Scheduled
<1>5. /\ b \notin Headers /\ b # prog.main /\ phase = "turn"
      /\ b \in prog.blocks
  <2>1. b \notin Headers /\ phase = "turn"
    BY <1>c DEF BlockInput, Turn
  <2>2. b # prog.main
    BY <1>1 DEF Structured, OneGraph
  <2> QED
    BY <2>1, <2>2, <1>4 DEF ToDo
<1>6. /\ prog.ins[b] \subseteq DOMAIN mark /\ prog.ins[b] # {} /\ Crossing(prog.ins[b], b, 0)
      /\ \A e \in prog.ins[b] : e[2] = b /\ Leaving(prog, e) \cap Going = {}
  <2>1. /\ prog.ins[b] = Entering(b) /\ Entering(b) \subseteq DOMAIN mark /\ Entering(b) # {}
        /\ Crossing(prog.ins[b], b, 0)
        /\ \A e \in prog.ins[b] : e[2] = b /\ Leaving(prog, e) \cap Going = {}
    BY <1>2, <1>3, <1>4, <1>5, ReadyStates
  <2> QED
    BY <2>1
<1>7. Arrives(b, 0, x)
  BY <1>d, <1>5, <1>6, UnionArrives
<1>8. /\ phase' = "output" /\ current' = b /\ in' = x /\ fixpoint' = FALSE
      /\ mark' = Unmark(mark, prog.ins[b])
      /\ UNCHANGED <<prog, code, unrolling, first, fixed, fpstate>>
  BY <1>c, <1>d, <1>1, <1>6 DEF BlockInput, Pop, Marked
<1>9. /\ DOMAIN mark' = DOMAIN mark \ prog.ins[b]
      /\ \A e \in DOMAIN mark' : mark'[e] = mark[e]
  BY <1>8 DEF Unmark
<1>10. Going' = Going /\ InUse' = InUse
  <2>1. Going' = Going
    BY <1>8 DEF Going, Headers
  <2> QED
    BY <1>5, <1>8, <2>1 DEF InUse
<1>11. ASSUME NEW C, NEW n, Base(C, n)
       PROVE  Deep(C, n)'
  <2>1. Deep(C, n)
    BY <1>11, BaseDeep
  <2>2. BlockDeep(prog, current', Depth(in'), C, n)
    <3> SUFFICES ASSUME C \subseteq Around(prog, b)
                 PROVE  Depth(x) >= n + Above(prog, b, C)
      BY <1>8 DEF BlockDeep
    <3>1. Depth(x) + 0 >= n + Above(prog, b, C) /\ Depth(x) \in Nat
      BY <1>7, <1>11 DEF Arrives
    <3> QED
      BY <3>1
  <2> QED
    BY <1>8, <1>9, <1>10, <2>1, <2>2, InputDeep
<1>12. ASSUME NEW h \in Going'
       PROVE  HeaderState(h, fpstate[h])'
  <2>1. HeaderState(h, fpstate[h])
    BY <1>10 DEF ValueInv
  <2>2. h \in prog.blocks /\ h # b
    BY <1>5, <1>10 DEF Going, Headers, Structured, LoopsOK
  <2>3. \A e \in Entering(h) : e \in DOMAIN mark => e \in DOMAIN mark' /\ mark'[e] = mark[e]
    <3>1. \A e \in Entering(h) : e[2] = h
      BY <2>2, BlockFacts DEF Entering
    <3> QED
      BY <1>6, <1>9, <2>2, <3>1
  <2> QED
    BY <1>8, <2>1, <2>2, <2>3, StateStays
<1>13. ASSUME OneLevel(prog)
       PROVE  Flat'
  <2>1. BlockFlat(prog, b, Depth(x) + 0) /\ Depth(x) + 0 = Depth(x)
    BY <1>7, <1>13 DEF Arrives
  <2>2. Flat
    BY <1>13 DEF ValueInv
  <2> QED
    BY <1>8, <1>9, <1>10, <2>1, <2>2, InputFlat
<1>14. Deep({}, 0)'
  BY <1>11 DEF Base
<1>15. ASSUME NEW h \in Going'
       PROVE  Deep(Around(prog, h), HeaderDepth(h))'
  <2>1. Around(prog', h) = Around(prog, h) /\ HeaderDepth(h)' = HeaderDepth(h)
    BY <1>8 DEF HeaderDepth
  <2>2. PICK C : C = Around(prog, h)
    OBVIOUS
  <2>3. PICK n : n = HeaderDepth(h)
    OBVIOUS
  <2>4. Deep(C, n)'
    BY <1>10, <1>11, <2>2, <2>3 DEF Base
  <2> QED
    BY <2>1, <2>2, <2>3, <2>4 DEF Deep
<1>16. /\ \A e \in DOMAIN mark' : Proper(mark'[e])
       /\ Proper(in') /\ code' \in ListsOfBlocks
  BY <1>7, <1>8, <1>9 DEF ValueInv, Arrives
<1> QED
  BY <1>8, <1>12, <1>13, <1>14, <1>15, <1>16, ValueParts

-----------------------------------------------------------------------------
(* An iteration of the loop of h begins: nothing in it is processed.       *)
Begins(p, h, R, D, G, M, F, D2) ==
    /\ Takes(p, h, D, G, M, F, D2, G \cup {h}, M \ R, F \ {h})
    /\ D2 \subseteq D \cup {h} /\ p.loops[h] \cap D2 = {h}
    /\ p.main \in D2

\* The input of a header, unless its fix point is reached.
LEMMA HeaderBegins ==
    ASSUME NEW p, Structured(p), NEW D, NEW G, NEW M, NEW F,
           Control(p, D, G, M, F, {}), p.main \in D,
           NEW h \in ToDo(p, D, G, M, F), h \in DOMAIN p.loops,
           NEW R, R = BackTo(p, h)
    PROVE  \E D2 : Begins(p, h, R, D, G, M, F, D2)
<1>1. h \in p.blocks /\ p.main \in p.blocks /\ h \in p.loops[h]
  BY DEF Structured, OneGraph, LoopsOK
<1>2. CASE h \in G
  <2>1. PICK D2 : D2 = (D \ p.loops[h]) \cup {h}
    OBVIOUS
  <2>2. h \in ToDo(p, D, G, M, F) \cap G
    BY <1>2
  <2>3. Takes(p, h, D, G, M, F, D2, G, M \ R, F \ {h})
    BY <2>1, <2>2, AgainControl, Zenon
  <2>4. G \cup {h} = G
    BY <1>2
  <2>5. p.main \notin p.loops[h]
    BY <1>1, BlockFacts
  <2>6. D2 \subseteq D \cup {h} /\ p.loops[h] \cap D2 = {h} /\ p.main \in D2
    BY <1>1, <2>1, <2>5
  <2> QED
    BY <2>3, <2>4, <2>6 DEF Begins
<1>3. CASE h \notin G
  <2>1. PICK D2 : D2 = D \cup {h}
    OBVIOUS
  <2>2. Takes(p, h, D, G, M, F, D \cup {h}, G \cup {h}, M \ R, F \ {h})
    BY <1>3, EnterControl, Zenon
  <2>3. ASSUME NEW b \in p.loops[h] \cap D
        PROVE  FALSE
    <3>1. h \in Around(p, b)
      BY DEF Around
    <3>2. h \in D
      BY <3>1 DEF Control
    <3> QED
      BY <1>3, <3>2 DEF ToDo, OpenTo
  <2>4. D2 \subseteq D \cup {h} /\ p.loops[h] \cap D2 = {h} /\ p.main \in D2
    BY <1>1, <2>1, <2>3
  <2> QED
    BY <2>1, <2>2, <2>4 DEF Begins
<1> QED
  BY <1>2, <1>3

\* No edge of the loop has a state when an iteration of it begins.
LEMMA NoneInside ==
    ASSUME NEW p, Structured(p), NEW D, NEW G, NEW M, NEW F, NEW h \in G,
           Control(p, D, G, M, F, {h}), p.loops[h] \cap D = {h}
    PROVE  /\ \A e \in M : ~ (h \in Around(p, e[1]) /\ h \in Around(p, e[2]))
           /\ \A k \in G : h \in Around(p, k) => k = h
<1>1. \A b : h \in Around(p, b) <=> b \in p.loops[h]
  BY DEF Control, Around
<1>2. \A k \in G : h \in Around(p, k) => k = h
  BY <1>1 DEF Control
<1>3. ASSUME NEW e \in M, h \in Around(p, e[1]), h \in Around(p, e[2])
      PROVE  FALSE
  <2>1. e[1] \notin D \ {h} /\ e \in Edges(p)
    BY <1>1, <1>3 DEF Control
  <2>2. PICK k \in Leaving(p, e) : k \in G
    BY <2>1 DEF Control
  <2>3. k \in Around(p, e[1]) /\ k \notin Around(p, e[2]) /\ e[1] \in p.blocks /\ e[2] \in p.blocks
    BY <2>1, <2>2, EdgeFacts DEF Leaving
  <2>4. CASE h \in Around(p, k)
    BY <1>2, <1>3, <2>2, <2>3, <2>4
  <2>5. CASE k \in Around(p, h)
    BY <1>3, <2>3, <2>5, BlockFacts
  <2> QED
    BY <1>3, <2>3, <2>4, <2>5, BlockFacts
<1> QED
  BY <1>2, <1>3

\* No exit of a loop to begin has a state.
LEMMA NoExitYet ==
    ASSUME NEW p, Structured(p), NEW D, NEW G, NEW M, NEW F,
           Control(p, D, G, M, F, {}), NEW h \in ToDo(p, D, G, M, F),
           h \in DOMAIN p.loops, h \notin G, NEW e \in M
    PROVE  p.exitOf[e] # h
<1> SUFFICES ASSUME p.exitOf[e] = h
             PROVE  FALSE
  OBVIOUS
<1>1. e \in Edges(p) /\ h # NoBlock /\ h \notin D
  BY DEF Control, Structured, LoopsOK, ToDo, OpenTo
<1>2. h \in Leaving(p, e) /\ \A k \in Leaving(p, e) : h \in Around(p, k)
  BY <1>1 DEF Structured, ExitsRight
<1>3. e[1] \notin D
  BY <1>1, <1>2 DEF Control, Leaving
<1>4. PICK k \in Leaving(p, e) : k \in G
  BY <1>3 DEF Control
<1> QED
  BY <1>2, <1>4 DEF Control

\* What the input of a header does.
HeaderTurned(h, s, x, reached) ==
    /\ phase = "turn" /\ h \in Headers
    /\ phase' = "output" /\ current' = h /\ in' = x /\ fixpoint' = reached
    /\ first' = IF reached THEN first \cup {h} ELSE first \ {h}
    /\ DOMAIN mark' = DOMAIN mark \ (IF reached THEN prog.ins[h] ELSE Returning(h))
    /\ \A e \in DOMAIN mark' : mark'[e] = mark[e]
    /\ \A k \in DOMAIN fpstate \ {h} : fpstate'[k] = fpstate[k]
    /\ ~ reached => fpstate'[h] = NextHeader(h, s, x)
    /\ UNCHANGED <<prog, code, unrolling>>

\* The parts of the turn of a header.
LEMMA HeaderTurn ==
    ASSUME HeaderInput, NEW h, h = Top, HeaderOK(h),
           NEW s, s = StateOf(h),
           NEW x, x = IF unrolling THEN Unrolled(h, s) ELSE Iteration(h),
           NEW reached, reached = Stable(h, s, x)
    PROVE  HeaderTurned(h, s, x, reached)
<1>1. /\ Turn /\ h \in Headers /\ Pop(h, HeaderOK(h))
      /\ HeaderUpdate(h, s, x, reached)
  BY DEF HeaderInput
<1>2. /\ phase = "turn" /\ phase' = "output" /\ current' = h
      /\ UNCHANGED <<prog, code, unrolling>>
  BY <1>1 DEF Pop, Turn
<1>3. /\ in' = x /\ fixpoint' = reached
      /\ first' = IF reached THEN first \cup {h} ELSE first \ {h}
      /\ mark' = Unmark(mark, UsedUp(h, reached))
  BY <1>1 DEF HeaderUpdate
<1>4. /\ DOMAIN mark' = DOMAIN mark \ (IF reached THEN prog.ins[h] ELSE Returning(h))
      /\ \A e \in DOMAIN mark' : mark'[e] = mark[e]
  BY <1>3 DEF Unmark, UsedUp
<1>5. /\ \A k \in DOMAIN fpstate \ {h} : fpstate'[k] = fpstate[k]
      /\ ~ reached => fpstate'[h] = NextHeader(h, s, x)
  <2>1. reached => fpstate' = [k \in DOMAIN fpstate \ {h} |-> fpstate[k]]
    BY <1>1 DEF HeaderUpdate
  <2>2. ~ reached => fpstate' = [k \in DOMAIN fpstate \cup {h} |->
                                    IF k # h THEN fpstate[k] ELSE NextHeader(h, s, x)]
    BY <1>1 DEF HeaderUpdate, NextHeader
  <2> QED
    BY <2>1, <2>2
<1> QED
  BY <1>1, <1>2, <1>3, <1>4, <1>5 DEF HeaderTurned

\* The turn of a header keeps the states.
LEMMA HeaderValue ==
    ASSUME Structured(prog), Kept, NEW D, NEW P, NEW X,
           Scheduled(D, P, X), InTurn(D, P, X), ValueInv, HeaderInput
    PROVE  ValueInv'
<1>a. PICK w : w = SubSeq(work, 1, Len(work) - 1)
  OBVIOUS
<1>b. PICK todo : todo = ToDo(prog, D, Going, DOMAIN mark, fixed)
  OBVIOUS
<1>c. PICK h : h = Top
  OBVIOUS
<1>d. PICK G : G = Going
  OBVIOUS
<1>e. PICK M : M = DOMAIN mark
  OBVIOUS
<1>f. PICK s : s = StateOf(h)
  OBVIOUS
<1>g. PICK x : x = IF unrolling THEN Unrolled(h, s) ELSE Iteration(h)
  OBVIOUS
<1>h. PICK reached : reached = Stable(h, s, x)
  OBVIOUS
<1>i. PICK R : R = BackTo(prog, h)
  OBVIOUS
<1>1. /\ P = {} /\ h \in todo
  <2>1. Turn
    BY DEF HeaderInput
  <2>2. TopOf(todo, w, P, X)
    BY <1>a, <1>b, <2>1, TopFacts, Zenon
  <2> QED
    BY <1>c, <2>1, <2>2 DEF TopOf
<1>2. /\ Control(prog, D, G, M, fixed, {}) /\ h \in ToDo(prog, D, G, M, fixed)
      /\ h \in Headers /\ phase = "turn" /\ h \in prog.blocks
  <2>1. Control(prog, D, G, M, fixed, {}) /\ h \in ToDo(prog, D, G, M, fixed)
    BY <1>b, <1>d, <1>e, <1>1 DEF Scheduled
  <2> QED
    BY <1>c, <2>1 DEF HeaderInput, Turn, ToDo
<1>3. HeaderRight(h, s, x) /\ (h \notin G => reached = FALSE)
  <2>1. CASE h \in G
    BY <1>2, <1>d, <1>e, <1>f, <1>g, <2>1, AgainIteration
  <2>2. CASE h \notin G
    <3>1. h \in first
      BY <1>2, <1>d, <2>2 DEF Going
    <3> QED
      BY <1>2, <1>d, <1>e, <1>f, <1>g, <1>h, <2>2, <3>1, FirstIteration
  <2> QED
    BY <2>1, <2>2
<1>4. /\ phase' = "output" /\ current' = h /\ in' = x /\ fixpoint' = reached
      /\ first' = IF reached THEN first \cup {h} ELSE first \ {h}
      /\ DOMAIN mark' = M \ (IF reached THEN prog.ins[h] ELSE R)
      /\ \A e \in DOMAIN mark' : mark'[e] = mark[e]
      /\ \A k \in G \ {h} : fpstate'[k] = fpstate[k]
      /\ ~ reached => fpstate'[h] = NextHeader(h, s, x)
      /\ UNCHANGED <<prog, code, unrolling>>
  <2>1. HeaderOK(h)
    BY <1>3 DEF HeaderRight
  <2>2. R = Returning(h)
    BY <1>i DEF BackTo, Returning, Dominated, Back
  <2>3. DOMAIN fpstate = G
    BY <1>d DEF Kept
  <2>4. HeaderTurned(h, s, x, reached)
    BY <1>c, <1>f, <1>g, <1>h, <2>1, HeaderTurn, Zenon
  <2> QED
    BY <1>e, <2>2, <2>3, <2>4 DEF HeaderTurned
<1>5. reached \in BOOLEAN
  BY <1>h DEF Stable
<1>6. Going' = IF reached THEN G \ {h} ELSE G \cup {h}
  BY <1>2, <1>4, <1>d DEF Going, Headers
<1>7. InUse = G /\ InUse' = IF reached THEN (G \ {h}) \cup {h} ELSE G \cup {h}
  BY <1>2, <1>4, <1>6, <1>d DEF InUse
<1>8. \A e \in DOMAIN mark' : Weight(prog, InUse', e) = Weight(prog, InUse, e)
  <2>1. CASE h \in G
    <3>1. InUse' = InUse
      BY <1>5, <1>7, <2>1
    <3> QED
      BY <3>1
  <2>2. CASE h \notin G
    <3>1. \A e \in M : prog.exitOf[e] # h
      BY <1>2, <2>2, NoExitYet DEF Headers
    <3>2. InUse = G /\ InUse' = G \cup {h} /\ DOMAIN mark' \subseteq M
      BY <1>3, <1>4, <1>7, <2>2
    <3> QED
      BY <3>1, <3>2 DEF Weight
  <2> QED
    BY <2>1, <2>2
<1>9. Proper(x) /\ Depth(x) \in Nat
  BY <1>3 DEF HeaderRight, Arrives
<1>10. \A C, n : Base(C, n) => BlockDeep(prog, h, Depth(x), C, n)
  <2> SUFFICES ASSUME NEW C, NEW n, Base(C, n), C \subseteq Around(prog, h)
               PROVE  Depth(x) >= n + Above(prog, h, C)
    BY DEF BlockDeep
  <2>1. Depth(x) + 0 >= n + Above(prog, h, C)
    BY <1>3 DEF HeaderRight, Arrives
  <2> QED
    BY <1>9, <2>1
<1>11. OneLevel(prog) => Flat'
  <2> SUFFICES ASSUME OneLevel(prog)
               PROVE  Flat'
    OBVIOUS
  <2>1. BlockFlat(prog, h, Depth(x) + 0) /\ Depth(x) + 0 = Depth(x)
    BY <1>3, <1>9 DEF HeaderRight, Arrives
  <2>2. Flat
    BY DEF ValueInv
  <2>3. DOMAIN mark' \subseteq DOMAIN mark
    BY <1>4, <1>e
  <2> QED
    BY <1>4, <1>8, <2>1, <2>2, <2>3, InputFlat
<1>12. ~ reached => Depth(fpstate'[h].header) = Depth(x)
  BY <1>4 DEF NextHeader
<1>13. ASSUME NEW C, NEW n, Base(C, n)
       PROVE  Deep(C, n)'
  <2>1. Deep(C, n)
    BY <1>13, BaseDeep
  <2>2. BlockDeep(prog, h, Depth(x), C, n)
    BY <1>10, <1>13
  <2>3. \A k \in Going' : \/ k \in Going /\ fpstate'[k] = fpstate[k]
                          \/ BlockDeep(prog, k, Depth(fpstate'[k].header), C, n)
    BY <1>4, <1>5, <1>6, <1>12, <1>d, <2>2
  <2>4. DOMAIN mark' \subseteq DOMAIN mark
    BY <1>4, <1>e
  <2> QED
    BY <1>4, <1>8, <2>1, <2>2, <2>3, <2>4, InputDeep
<1>14. ASSUME ~ reached, NEW C, C = Around(prog, h), NEW n, n = Depth(x)
       PROVE  Deep(C, n)'
  <2>1. PICK D2 : Begins(prog, h, R, D, G, M, fixed, D2)
    <3>1. prog.main \in D /\ h \in DOMAIN prog.loops
      BY <1>2 DEF InTurn, HeaderInput, Plain, Headers
    <3> QED
      BY <1>2, <1>i, <3>1, HeaderBegins, Zenon
  <2>2. Control(prog, D2, G \cup {h}, M \ R, fixed \ {h}, {h}) /\ prog.loops[h] \cap D2 = {h}
    BY <2>1 DEF Begins, Takes
  <2>3. /\ \A e \in M \ R : ~ (h \in Around(prog, e[1]) /\ h \in Around(prog, e[2]))
        /\ \A k \in G \cup {h} : h \in Around(prog, k) => k = h
    BY <2>2, NoneInside
  <2>4. h \in C
    BY <1>2, <1>14, BlockFacts DEF Headers
  <2>5. \A e \in DOMAIN mark' : ~ (C \subseteq Around(prog, e[1]) /\ C \subseteq Around(prog, e[2]))
    BY <1>4, <1>14, <2>3, <2>4
  <2>6. BlockDeep(prog, h, Depth(x), C, n)
    <3>1. C \ C = {} /\ Above(prog, h, C) = 0
      BY <1>14, FS_EmptySet DEF Above
    <3> QED
      BY <1>9, <1>14, <3>1 DEF BlockDeep
  <2>7. \A k \in Going' : BlockDeep(prog, k, Depth(fpstate'[k].header), C, n)
    <3>1. \A k \in Going' : C \subseteq Around(prog, k) => k = h
      BY <1>6, <1>14, <2>3, <2>4
    <3> QED
      BY <1>12, <1>14, <2>6, <3>1 DEF BlockDeep
  <2> QED
    BY <1>4, <2>5, <2>6, <2>7 DEF Deep, EdgeDeep, HeaderDepth
<1>15. ASSUME NEW k \in Going'
       PROVE  Deep(Around(prog, k), HeaderDepth(k))'
  <2>1. Around(prog', k) = Around(prog, k) /\ HeaderDepth(k)' = Depth(fpstate'[k].header)
    BY <1>4 DEF HeaderDepth
  <2>2. PICK C : C = Around(prog, k)
    OBVIOUS
  <2>3. PICK n : n = Depth(fpstate'[k].header)
    OBVIOUS
  <2>4. Deep(C, n)'
    <3>1. CASE k \in G \ {h}
      <4>1. n = HeaderDepth(k)
        BY <1>4, <2>3, <3>1 DEF HeaderDepth
      <4> QED
        BY <1>13, <1>d, <2>2, <3>1, <4>1 DEF Base
    <3>2. CASE k = h
      <4>1. ~ reached
        BY <1>5, <1>6, <3>2
      <4> QED
        BY <1>12, <1>14, <2>2, <2>3, <3>2, <4>1
    <3> QED
      BY <1>5, <1>6, <3>1, <3>2
  <2> QED
    BY <2>1, <2>2, <2>3, <2>4 DEF Deep
<1>16. ASSUME NEW k \in Going'
       PROVE  HeaderState(k, fpstate[k])'
  <2>1. PICK r : r = fpstate'[k]
    OBVIOUS
  <2>2. HeaderState(k, r)
    <3>1. CASE k \in G \ {h}
      BY <1>4, <1>d, <2>1, <3>1 DEF ValueInv
    <3>2. CASE k = h
      BY <1>3, <1>4, <1>5, <1>6, <2>1, <3>2 DEF HeaderRight
    <3> QED
      BY <1>5, <1>6, <3>1, <3>2
  <2>3. k \in prog.blocks
    BY <1>2, <1>5, <1>6, <1>d DEF Going, Headers, Structured, LoopsOK
  <2>4. \A e \in Entering(k) : e \in DOMAIN mark => e \in DOMAIN mark' /\ mark'[e] = mark[e]
    <3>1. CASE k = h
      <4>1. ~ reached
        BY <1>5, <1>6, <3>1
      <4>2. \A e \in Entering(h) : e \notin R
        BY <1>i DEF Entering, BackTo, Dominated, Back
      <4> QED
        BY <1>4, <1>e, <3>1, <4>1, <4>2
    <3>2. CASE k # h
      <4>1. \A e \in Entering(k) : e \notin prog.ins[h] /\ e \notin R
        BY <1>2, <1>i, <2>3, <3>2, BlockFacts DEF Entering, BackTo
      <4> QED
        BY <1>4, <1>e, <4>1
    <3> QED
      BY <3>1, <3>2
  <2> QED
    BY <1>4, <2>1, <2>2, <2>3, <2>4, StateStays
<1>17. Deep({}, 0)'
  BY <1>13 DEF Base
<1>18. /\ \A e \in DOMAIN mark' : Proper(mark'[e])
       /\ Proper(in') /\ code' \in ListsOfBlocks
  BY <1>4, <1>9, <1>e DEF ValueInv
<1> QED
  BY <1>4, <1>11, <1>15, <1>16, <1>17, <1>18, ValueParts

-----------------------------------------------------------------------------
\* An output gives states to the edges of S; none of them enters a loop in
\* progress.
LEMMA OutputValue ==
    ASSUME Structured(prog), ValueInv, phase = "output", phase' = "turn",
           UNCHANGED <<prog, code, unrolling, first, fpstate>>,
           NEW D, Going \subseteq D, NEW S, S \subseteq Edges(prog),
           \A e \in S : LeadsOn(prog, D, Going, e),
           DOMAIN mark' = DOMAIN mark \cup S,
           \A e \in DOMAIN mark \ S : /\ mark'[e] = mark[e]
                                      /\ Weight(prog, Going, e) = Weight(prog, InUse, e),
           \A e \in S : /\ Proper(mark'[e])
                        /\ \A C, n : Base(C, n) => EdgeDeep(prog, Going, e, Depth(mark'[e]), C, n)
                        /\ OneLevel(prog) => EdgeFlat(prog, Going, e, Depth(mark'[e]))
    PROVE  ValueInv'
<1>1. Going' = Going /\ InUse' = Going
  <2>1. Going' = Going
    BY DEF Going, Headers
  <2> QED
    BY <2>1 DEF InUse
<1>2. \A e \in DOMAIN mark' : e \in S \/ e \in DOMAIN mark \ S
  OBVIOUS
<1>3. ASSUME NEW C, NEW n, Base(C, n)
      PROVE  Deep(C, n)'
  <2>1. Deep(C, n)
    BY <1>3, BaseDeep
  <2>2. \A e \in DOMAIN mark' : EdgeDeep(prog, Going, e, Depth(mark'[e]), C, n)
    <3>1. \A e \in DOMAIN mark \ S : EdgeDeep(prog, Going, e, Depth(mark'[e]), C, n)
      BY <2>1 DEF Deep, EdgeDeep
    <3> QED
      BY <1>2, <1>3, <3>1
  <2>3. \A h \in Going : BlockDeep(prog, h, HeaderDepth(h)', C, n)
    BY <2>1 DEF Deep, HeaderDepth
  <2> QED
    BY <1>1, <2>2, <2>3 DEF Deep
<1>4. ASSUME NEW h \in Going'
      PROVE  HeaderState(h, fpstate[h])'
  <2>1. HeaderState(h, fpstate[h])
    BY <1>1 DEF ValueInv
  <2>2. h \in prog.blocks
    BY <1>1 DEF Going, Headers, Structured, LoopsOK
  <2>3. \A e \in Entering(h) : e \notin S
    <3>1. \A e \in Entering(h) : e[2] = h /\ ~ Back(prog, e)
      BY <2>2, BlockFacts DEF Entering, Dominated, Back
    <3> QED
      BY <1>1, <3>1 DEF LeadsOn
  <2>4. \A e \in Entering(h) : e \in DOMAIN mark => e \in DOMAIN mark' /\ mark'[e] = mark[e]
    BY <2>3
  <2> QED
    BY <2>1, <2>2, <2>4, StateStays
<1>5. ASSUME OneLevel(prog)
      PROVE  Flat'
  <2>1. \A e \in DOMAIN mark \ S : EdgeFlat(prog, Going, e, Depth(mark'[e]))
    BY <1>5 DEF ValueInv, Flat, EdgeFlat
  <2>2. \A e \in DOMAIN mark' : EdgeFlat(prog, Going, e, Depth(mark'[e]))
    BY <1>2, <1>5, <2>1
  <2> QED
    BY <1>1, <2>2 DEF Flat
<1>6. Deep({}, 0)'
  BY <1>3 DEF Base
<1>7. ASSUME NEW h \in Going'
      PROVE  Deep(Around(prog, h), HeaderDepth(h))'
  <2>1. Around(prog', h) = Around(prog, h) /\ HeaderDepth(h)' = HeaderDepth(h)
    BY DEF HeaderDepth
  <2>2. PICK C : C = Around(prog, h)
    OBVIOUS
  <2>3. PICK n : n = HeaderDepth(h)
    OBVIOUS
  <2>4. Deep(C, n)'
    BY <1>1, <1>3, <2>2, <2>3 DEF Base
  <2> QED
    BY <2>1, <2>2, <2>3, <2>4 DEF Deep
<1>8. \A e \in DOMAIN mark' : Proper(mark'[e])
  BY <1>2 DEF ValueInv
<1>9. code' \in ListsOfBlocks
  BY DEF ValueInv
<1> QED
  BY <1>4, <1>5, <1>6, <1>7, <1>8, <1>9, ValueParts

\* The exits of a loop whose fix point is reached have a level to leave.
LEMMA LeaveValue ==
    ASSUME Structured(prog), Kept, NEW D, NEW P, NEW X,
           Scheduled(D, P, X), InTurn(D, P, X), ValueInv, LeaveOutput
    PROVE  ValueInv'
<1>a. PICK h : h = current
  OBVIOUS
<1>b. PICK todo : todo = ToDo(prog, D, Going, DOMAIN mark, fixed)
  OBVIOUS
<1>c. PICK E : E = ExitsOf(prog, current)
  OBVIOUS
<1>d. PICK T : T = todo \ X
  OBVIOUS
<1>e. PICK new : new = ActivateExits
  OBVIOUS
<1>1. /\ phase = "output" /\ fixpoint /\ phase' = IF ExitsOK THEN "turn" ELSE "failed"
      /\ mark' = new.mark
      /\ UNCHANGED <<prog, code, unrolling, first, fpstate>>
  BY <1>e DEF LeaveOutput, LoopDone, EndTurn
<1>2. /\ X = {e[2] : e \in E} /\ E \subseteq DOMAIN mark /\ current \in Headers \ Going
      /\ \A e \in E : LeadsOn(prog, D, Going, e)
  BY <1>1, <1>c DEF InTurn, Exits, Targets
<1>3. ListOf(work, prog.blocks, T)
  BY <1>b, <1>d DEF Scheduled
<1>4. ExitsActivated(E, T, new)
  <2>1. E \subseteq DOMAIN mark /\ current \in Headers
    BY <1>2
  <2>2. \A e \in E : e[2] \notin T
    BY <1>2, <1>d
  <2> QED
    BY <2>1, <2>2, <1>3, <1>c, <1>e, ActivateExitsFacts, Zenon
<1>5. /\ DOMAIN mark' = DOMAIN mark
      /\ \A e \in E : mark'[e] = AcsLeave(mark[e])
      /\ \A e \in DOMAIN mark \ E : mark'[e] = mark[e]
  BY <1>1, <1>4 DEF ExitsActivated
<1>6. InUse = Going \cup {h} /\ h \in DOMAIN prog.loops \ Going /\ h # NoBlock
  BY <1>1, <1>2, <1>a DEF InUse, Headers, Structured, LoopsOK
<1>7. \A e \in E : e \in Edges(prog) /\ prog.exitOf[e] = h
  BY <1>a, <1>c DEF ExitsOf
<1>8. ASSUME NEW e \in E
      PROVE  Weight(prog, InUse, e) = 0 /\ Weight(prog, Going, e) = 1
  BY <1>6, <1>7, <1>8 DEF Weight
<1>9. ASSUME NEW e \in E
      PROVE  Depth(mark[e]) \in Nat /\ Depth(mark[e]) > 0 /\ Proper(mark[e])
  <2>1. Proper(mark[e]) /\ Depth(mark[e]) \in Nat
    BY <1>2, <1>9, ProperDepth DEF ValueInv
  <2>2. Depth(mark[e]) + 0 >= 0 + Above(prog, e[1], {})
    BY <1>2, <1>8, <1>9 DEF ValueInv, Deep, EdgeDeep
  <2>3. h \in Around(prog, e[1])
    BY <1>6, <1>7, <1>9 DEF Structured, ExitsRight, Leaving
  <2>4. Above(prog, e[1], {}) \in Nat /\ Above(prog, e[1], {}) # 0
    <3>1. Above(prog, e[1], {}) \in Nat
      BY AboveType
    <3>2. Around(prog, e[1]) \ {} \in SUBSET prog.blocks
      BY DEF Around, Structured, LoopsOK
    <3>3. IsFiniteSet(Around(prog, e[1]) \ {})
      BY <3>2, FS_Subset DEF Structured, OneGraph
    <3>4. Around(prog, e[1]) \ {} # {}
      BY <2>3
    <3> QED
      BY <3>1, <3>3, <3>4, FS_EmptySet DEF Above
  <2> QED
    BY <2>1, <2>2, <2>4
<1>10. phase' = "turn"
  <2>1. ASSUME NEW i \in 1 .. Len(prog.exits[current])
        PROVE  Marked({prog.exits[current][i]}) /\ AcsMayLeave(mark[prog.exits[current][i]])
    <3>1. prog.exits[current][i] \in E
      <4>1. Items(prog.exits[current]) = E
        BY <1>2, <1>c DEF Structured, ExitsRight, ExitsOf, Headers
      <4> QED
        BY <4>1 DEF Items
    <3>2. PICK e \in E : e = prog.exits[current][i]
      BY <3>1
    <3>3. Marked({e}) /\ AcsMayLeave(mark[e])
      BY <1>2, <1>9, ProperDepth DEF Marked
    <3> QED
      BY <3>2, <3>3
  <2>2. ExitsOK
    BY <2>1 DEF ExitsOK
  <2> QED
    BY <1>1, <2>2
<1>11. ASSUME NEW e \in E
       PROVE  /\ Proper(mark'[e])
              /\ \A C, n : Base(C, n) => EdgeDeep(prog, Going, e, Depth(mark'[e]), C, n)
              /\ OneLevel(prog) => EdgeFlat(prog, Going, e, Depth(mark'[e]))
  <2>1. Proper(mark'[e]) /\ Depth(mark'[e]) = Depth(mark[e]) - 1
    BY <1>5, <1>9, ProperLeave
  <2>2. Depth(mark'[e]) + Weight(prog, Going, e) = Depth(mark[e]) + Weight(prog, InUse, e)
    BY <1>8, <1>9, <2>1
  <2>3. ASSUME NEW C, NEW n, Base(C, n)
        PROVE  EdgeDeep(prog, Going, e, Depth(mark'[e]), C, n)
    <3>1. EdgeDeep(prog, InUse, e, Depth(mark[e]), C, n)
      BY <1>2, <2>3, BaseDeep DEF Deep
    <3> QED
      BY <2>2, <3>1 DEF EdgeDeep
  <2>4. OneLevel(prog) => EdgeFlat(prog, Going, e, Depth(mark'[e]))
    BY <1>2, <2>2 DEF ValueInv, Flat, EdgeFlat
  <2> QED
    BY <2>1, <2>3, <2>4
<1>12. \A e \in DOMAIN mark \ E : Weight(prog, Going, e) = Weight(prog, InUse, e)
  <2>1. ASSUME NEW e \in DOMAIN mark \ E
        PROVE  prog.exitOf[e] # h
    <3>1. e \in Edges(prog)
      BY DEF Scheduled, Control
    <3> QED
      BY <1>a, <1>c, <3>1 DEF ExitsOf
  <2> QED
    BY <1>6, <2>1 DEF Weight
<1>13. Going \subseteq D /\ E \subseteq Edges(prog) /\ DOMAIN mark' = DOMAIN mark \cup E
  BY <1>2, <1>5, <1>7 DEF Scheduled, Control
<1> QED
  BY <1>1, <1>2, <1>5, <1>10, <1>11, <1>12, <1>13, OutputValue

\* The end of the turn of a body keeps the states.
LEMMA BodyValue ==
    ASSUME Structured(prog), Kept, NEW D, NEW P, NEW X,
           Scheduled(D, P, X), InTurn(D, P, X), ValueInv, BodyOutput
    PROVE  ValueInv'
<1>a. PICK G : G = Going
  OBVIOUS
<1>b. PICK M : M = DOMAIN mark
  OBVIOUS
<1>c. PICK O : O = OutOf(prog, current)
  OBVIOUS
<1>d. PICK T : T = ToDo(prog, D, G, M, fixed)
  OBVIOUS
<1>e. PICK x : x = AcsUpdate(code, current, in)
  OBVIOUS
<1>f. PICK new : new = AddSuccessors(mark, x)
  OBVIOUS
<1>1. /\ phase = "output" /\ ~ fixpoint /\ phase' = IF AcsLive(in) THEN "turn" ELSE "failed"
      /\ mark' = new.mark
      /\ UNCHANGED <<prog, code, unrolling, first, fpstate>>
  BY <1>e, <1>f DEF BodyOutput, BodyDone, EndTurn
<1>2. P = {current} /\ X = {} /\ Around(prog, current) \subseteq Going
  BY <1>1 DEF InTurn
<1>3. Control(prog, D, G, M, fixed, {current}) /\ current \in prog.blocks
  BY <1>2, <1>a, <1>b DEF Scheduled, Control
<1>4. SuccessorsAdded(O, T, mark, x, new)
  <2>1. ListOf(work, prog.blocks, T)
    <3>1. T = T \ {}
      OBVIOUS
    <3> QED
      BY <1>2, <1>a, <1>b, <1>d, <3>1 DEF Scheduled
  <2>2. Marks(prog, O, D, G, M, fixed, M \cup O)
    BY <1>3, <1>c, OutputControl, Zenon
  <2>3. \A e \in O : e[2] \notin T
    BY <2>2, <1>d, Zenon DEF Marks
  <2>4. current \in prog.blocks
    BY <1>3
  <2> QED
    BY <2>1, <2>3, <2>4, <1>c, <1>f, AddSuccessorsFacts, Zenon
<1>5. /\ DOMAIN mark' = DOMAIN mark \cup O
      /\ \A e \in O : mark'[e] = AcsLub(IF e \in DOMAIN mark THEN mark[e] ELSE AcsBottom, x)
      /\ \A e \in DOMAIN mark \ O : mark'[e] = mark[e]
  BY <1>1, <1>4 DEF SuccessorsAdded
<1>6. Proper(in) /\ Depth(in) \in Nat /\ AcsLive(in)
  BY <1>1, ProperDepth DEF ValueInv
<1>7. Proper(x) /\ Depth(x) = Depth(in)
  <2>1. current \in BasicBlocks /\ code \in ListsOfBlocks
    BY <1>3 DEF Structured, OneGraph, ValueInv
  <2> QED
    BY <1>6, <1>e, <2>1, ProperUpdate
<1>8. InUse = Going /\ O \subseteq Edges(prog) /\ \A e \in O : e[1] = current
  BY <1>1, <1>c DEF InUse, OutOf
<1>9. ASSUME NEW e \in O
      PROVE  Weight(prog, Going, e) = 0
  <2>1. prog.exitOf[e] \notin DOMAIN prog.loops \ Going
    <3>1. CASE Leaving(prog, e) = {}
      BY <1>8, <1>9, <3>1 DEF Structured, ExitsRight, LoopsOK
    <3>2. CASE Leaving(prog, e) # {}
      <4>1. prog.exitOf[e] \in Leaving(prog, e)
        BY <1>8, <1>9, <3>2 DEF Structured, ExitsRight
      <4> QED
        BY <1>2, <1>8, <1>9, <4>1 DEF Leaving
    <3> QED
      BY <3>1, <3>2
  <2> QED
    BY <2>1 DEF Weight
<1>10. ASSUME NEW e \in O
       PROVE  /\ Proper(mark'[e]) /\ Depth(mark'[e]) \in Nat
              /\ \/ Depth(mark'[e]) = Depth(in)
                 \/ e \in DOMAIN mark /\ Depth(mark'[e]) = Depth(mark[e])
  <2>1. CASE e \in DOMAIN mark
    <3>1. mark'[e] = AcsLub(mark[e], x) /\ Proper(mark[e]) /\ Depth(mark[e]) \in Nat
      BY <1>5, <1>10, <2>1, ProperDepth DEF ValueInv
    <3>2. Proper(mark'[e]) /\ Depth(mark'[e]) = Depth(mark[e])
      BY <1>7, <3>1, ProperLub
    <3> QED
      BY <2>1, <3>1, <3>2
  <2>2. CASE e \notin DOMAIN mark
    <3>1. mark'[e] = x
      BY <1>5, <1>7, <1>10, <2>2, BottomLub
    <3> QED
      BY <1>6, <1>7, <3>1
  <2> QED
    BY <2>1, <2>2
<1>11. ASSUME NEW e \in O
       PROVE  /\ \A C, n : Base(C, n) => EdgeDeep(prog, Going, e, Depth(mark'[e]), C, n)
              /\ OneLevel(prog) => EdgeFlat(prog, Going, e, Depth(mark'[e]))
  <2>1. ASSUME NEW C, NEW n, Base(C, n)
        PROVE  EdgeDeep(prog, Going, e, Depth(mark'[e]), C, n)
    <3> SUFFICES ASSUME C \subseteq Around(prog, e[1]), C \subseteq Around(prog, e[2])
                 PROVE  Depth(mark'[e]) + 0 >= n + Above(prog, e[1], C)
      BY <1>9, <1>11 DEF EdgeDeep
    <3>1. n \in Nat /\ Deep(C, n)
      BY <2>1, BaseDeep
    <3>2. Depth(in) >= n + Above(prog, e[1], C)
      BY <1>1, <1>8, <1>11, <3>1 DEF Deep, BlockDeep
    <3>3. e \in DOMAIN mark => Depth(mark[e]) + 0 >= n + Above(prog, e[1], C)
      BY <1>8, <1>9, <1>11, <3>1 DEF Deep, EdgeDeep
    <3>4. Above(prog, e[1], C) \in Nat
      BY AboveType
    <3> QED
      BY <1>6, <1>10, <1>11, <3>1, <3>2, <3>3, <3>4
  <2>2. ASSUME OneLevel(prog)
        PROVE  EdgeFlat(prog, Going, e, Depth(mark'[e]))
    <3>1. /\ Depth(in) <= Above(prog, e[1], {})
          /\ e \in DOMAIN mark => Depth(mark[e]) + 0 <= Above(prog, e[1], {})
      BY <1>1, <1>8, <1>9, <1>11, <2>2 DEF ValueInv, Flat, BlockFlat, EdgeFlat
    <3>2. Above(prog, e[1], {}) \in Nat
      BY AboveType
    <3>3. Depth(mark'[e]) + 0 <= Above(prog, e[1], {})
      BY <1>6, <1>10, <1>11, <3>1, <3>2
    <3> QED
      BY <1>9, <1>11, <3>3 DEF EdgeFlat
  <2> QED
    BY <2>1, <2>2
<1>12. Going \subseteq D /\ \A e \in O : LeadsOn(prog, D, Going, e)
  BY <1>3, <1>8, <1>a DEF Control
<1> QED
  BY <1>1, <1>5, <1>6, <1>8, <1>10, <1>11, <1>12, OutputValue

-----------------------------------------------------------------------------
\* The states are right at the beginning.
LEMMA ValueInit ==
    ASSUME \A p \in Programs : Structured(p),
           \A p \in Programs : Codes(p) \subseteq ListsOfBlocks, Init
    PROVE  ValueInv
<1>1. /\ prog \in Programs /\ code \in Codes(prog) /\ phase = "turn" /\ mark = <<>>
      /\ first = BasicBlocks
  BY DEF Init, HaiInit
<1>2. DOMAIN mark = {}
  BY <1>1
<1>3. Going = {}
  BY <1>1 DEF Structured, OneGraph, LoopsOK, Headers, Going
<1>4. Deep({}, 0) /\ Flat
  BY <1>1, <1>2, <1>3 DEF Deep, Flat
<1>5. phase # "failed" /\ phase # "output" /\ code \in ListsOfBlocks
  BY <1>1
<1> QED
  BY <1>2, <1>3, <1>4, <1>5 DEF ValueInv

\* What is not part of a turn changes no state of the analysis.
LEMMA ValueStays ==
    ASSUME ValueInv,
           UNCHANGED <<prog, code, unrolling, current, in, fixpoint, mark, first, fpstate>>,
           phase' = phase \/ (phase # "output" /\ phase' \in {"done", "run"})
    PROVE  ValueInv'
<1>1. Going' = Going /\ InUse' = InUse
  <2>1. Going' = Going
    BY DEF Going, Headers
  <2> QED
    BY <2>1 DEF InUse
<1>2. \A C, n : Deep(C, n) => Deep(C, n)'
  BY <1>1 DEF Deep, HeaderDepth
<1>3. Flat => Flat'
  BY <1>1 DEF Flat
<1>4. ASSUME NEW h \in Going'
      PROVE  HeaderState(h, fpstate[h])' /\ Deep(Around(prog, h), HeaderDepth(h))'
  <2>1. HeaderState(h, fpstate[h]) /\ Deep(Around(prog, h), HeaderDepth(h))
    BY <1>1 DEF ValueInv
  <2>2. Entering(h)' = Entering(h)
    BY DEF Entering, Dominated
  <2>3. HeaderState(h, fpstate[h])'
    <3>1. Union(Entering(h))' = Union(Entering(h))
      BY <2>2 DEF Union
    <3> QED
      BY <2>1, <2>2, <3>1 DEF HeaderState
  <2>4. Around(prog', h) = Around(prog, h) /\ HeaderDepth(h)' = HeaderDepth(h)
    BY DEF HeaderDepth
  <2>5. PICK C : C = Around(prog, h)
    OBVIOUS
  <2>6. PICK n : n = HeaderDepth(h)
    OBVIOUS
  <2>7. Deep(C, n)'
    BY <1>2, <2>1, <2>5, <2>6
  <2>8. Deep(Around(prog, h), HeaderDepth(h))'
    BY <2>4, <2>5, <2>6, <2>7 DEF Deep
  <2> QED
    BY <2>3, <2>8
<1>5. Deep({}, 0)'
  BY <1>2 DEF ValueInv
<1>6. /\ phase' # "failed" /\ code' \in ListsOfBlocks
      /\ \A e \in DOMAIN mark' : Proper(mark'[e])
      /\ phase' = "output" => Proper(in')
  BY DEF ValueInv
<1>7. OneLevel(prog') => Flat'
  BY <1>3 DEF ValueInv
<1> QED
  BY <1>4, <1>5, <1>6, <1>7, ValueParts

\* Every step keeps the states right.
LEMMA ValueNext ==
    ASSUME ScheduleInv, ValueInv, [Next]_vars
    PROVE  ValueInv'
<1>1. PICK D, P, X : Scheduled(D, P, X) /\ InTurn(D, P, X)
  BY DEF ScheduleInv
<1>2. Structured(prog) /\ Kept
  BY DEF ScheduleInv
<1>3. CASE MainInput
  BY <1>1, <1>2, <1>3, MainValue, Zenon
<1>4. CASE HeaderInput
  BY <1>1, <1>2, <1>4, HeaderValue, Zenon
<1>5. CASE BlockInput
  BY <1>1, <1>2, <1>5, BlockValue, Zenon
<1>6. CASE LeaveOutput
  BY <1>1, <1>2, <1>6, LeaveValue, Zenon
<1>7. CASE BodyOutput
  BY <1>1, <1>2, <1>7, BodyValue, Zenon
<1>8. CASE Finish
  BY <1>8, ValueStays DEF Finish
<1>9. CASE StartRun
  BY <1>9, ValueStays DEF StartRun
<1>10. CASE Run \/ Call \/ Return
  <2>1. UNCHANGED analysis
    BY <1>10 DEF Run, Call, Return, Executed
  <2> QED
    BY <2>1, ValueStays DEF analysis
<1>11. CASE UNCHANGED vars
  BY <1>11, ValueStays DEF vars, analysis
<1> QED
  BY <1>3, <1>4, <1>5, <1>6, <1>7, <1>8, <1>9, <1>10, <1>11, NoCallSteps
     DEF Next, Analyse, Solve

\* Both invariants on every program of the kind.
LEMMA ValueInvariant ==
    ASSUME \A p \in Programs : Structured(p),
           \A p \in Programs : Codes(p) \subseteq ListsOfBlocks
    PROVE  Spec => [](ScheduleInv /\ ValueInv)
<1>1. Init => ScheduleInv /\ ValueInv
  BY ScheduleInit, ValueInit
<1>2. (ScheduleInv /\ ValueInv) /\ [Next]_vars => (ScheduleInv /\ ValueInv)'
  BY ScheduleNext, ValueNext
<1> QED
  BY <1>1, <1>2, PTL DEF Spec

\* No assertion of the engine or of the domain fails: the states the engine
\* reads are there and are not bottom, and there is a level to leave at the
\* exits of a loop (HalfAbsInt, FirstUnrollingFixPoint, MUSTPERS).  Programs
\* with edges that leave several loops at once are included: states of any
\* depths are joined there, and the join is as deep as its left operand.  That
\* the engine ends is not claimed; with such edges it need not.
THEOREM AssertionsNeverFail ==
    ASSUME \A p \in Programs : Structured(p),
           \A p \in Programs : Codes(p) \subseteq ListsOfBlocks
    PROVE  Spec => []AssertionsHold
<1>1. ValueInv => AssertionsHold
  BY DEF ValueInv, AssertionsHold
<1>2. Spec => [](ScheduleInv /\ ValueInv)
  BY ValueInvariant
<1> QED
  BY <1>1, <1>2, PTL

\* The state of PERS at a block has one level per loop around it, where no
\* edge leaves two loops at once (enterContext, leaveContext).
THEOREM LevelsAreRight ==
    ASSUME \A p \in Programs : Structured(p) /\ OneLevel(p),
           \A p \in Programs : Codes(p) \subseteq ListsOfBlocks
    PROVE  Spec => []LevelsMatch
<1>1. Init => OneLevel(prog)
  BY DEF Init, HaiInit
<1>2. OneLevel(prog) /\ [Next]_vars => OneLevel(prog)'
  <2>1. [Next]_vars => prog' = prog
    BY DEF Next, Analyse, Solve, StartRun, Run, Call, Return, Executed, vars, analysis, Pop,
           EndTurn, MainInput, CalledInput, ReturnedInput, HeaderInput, BlockInput,
           LeaveOutput, ExitOutput, CallOutput, BackOutput, BodyOutput, Finish
  <2> QED
    BY <2>1
<1>3. ScheduleInv /\ ValueInv /\ OneLevel(prog) => LevelsMatch
  <2> SUFFICES ASSUME ScheduleInv, ValueInv, OneLevel(prog), phase = "output"
               PROVE  Depth(in) = LoopsAround(current) + CalledIn
    BY DEF LevelsMatch
  <2>1. Proper(in) /\ Depth(in) \in Nat /\ Structured(prog)
    BY ProperDepth DEF ValueInv, ScheduleInv
  <2>2. Above(prog, current, {}) \in Nat
    BY <2>1, AboveType
  <2>3. Depth(in) >= 0 + Above(prog, current, {})
    BY DEF ValueInv, Deep, BlockDeep
  <2>4. Depth(in) <= Above(prog, current, {})
    BY DEF ValueInv, Flat, BlockFlat
  <2>5. LoopsAround(current) = Above(prog, current, {})
    <3>1. {h \in Headers : current \in prog.loops[h]} = Around(prog, current) \ {}
      BY DEF Headers, Around
    <3> QED
      BY <3>1 DEF LoopsAround, Above
  <2>6. CalledIn = 0
    <3> DEFINE F(C) == [i \in 0 .. 0 |-> IF i = 0 THEN 0
                                         ELSE C[i - 1] + LoopsAround(callStack[i][1])]
    <3>1. callStack = <<>> /\ Len(callStack) = 0
      BY DEF ScheduleInv, Kept
    <3>2. \E C : C = F(C)
      <4>1. [i \in 0 .. 0 |-> 0] = F([i \in 0 .. 0 |-> 0])
        OBVIOUS
      <4> QED
        BY <4>1
    <3>3. PICK C : C = CHOOSE C0 : C0 = F(C0)
      OBVIOUS
    <3>4. C = F(C)
      BY <3>2, <3>3
    <3>5. C[0] = 0
      BY <3>4
    <3>6. CalledIn = C[0]
      BY <3>1, <3>3 DEF CalledIn
    <3> QED
      BY <3>5, <3>6
  <2> QED
    BY <2>1, <2>2, <2>3, <2>4, <2>5, <2>6
<1>4. Spec => [](ScheduleInv /\ ValueInv)
  BY ValueInvariant
<1> QED
  BY <1>1, <1>2, <1>3, <1>4, PTL DEF Spec

-----------------------------------------------------------------------------
(* The states that blocks were interpreted with, as MUST: I[b] for b.      *)
(* What one of them becomes along an edge is covered by one at the target, *)
(* or by the state of the edge, which waits for the target to be taken.    *)
MustUpdate(c, b, x) == IF c[b] = <<>> THEN x ELSE MustInject(x, LastOf(c, b))

Waiting(e, z) == /\ e \in DOMAIN mark /\ Covers(mark[e].must, z)
                 /\ e[2] \notin Going \/ Back(prog, e)

Passed(I, e, z) == (\E y \in I[e[2]] : Covers(y, z)) \/ Waiting(e, z)

(* The input whose output is to be done.                                   *)
Pending(b, x) == phase = "output" /\ ~ fixpoint /\ b = current /\ x = in.must

Interprets(I, b, x) ==
    /\ \A e \in OutOf(prog, b) : Passed(I, e, MustUpdate(code, b, x))
    /\ Proper(results[b]) /\ Covers(results[b].must, x)

CoverInv(I) ==
    /\ I \in [prog.blocks -> SUBSET MustDomain]
    /\ \A b \in prog.blocks : results[b] = AcsBottom \/ Proper(results[b])
    /\ ~ mainEntry => MustEntry \in I[prog.main]
    /\ phase = "output" /\ ~ fixpoint => in.must \in I[current]
    /\ \A h \in Going : fpstate[h].header.must \in I[h]
    /\ \A b \in prog.blocks : \A x \in I[b] : Pending(b, x) \/ Interprets(I, b, x)

\* The parts of the next CoverInv.
LEMMA CoverParts ==
    ASSUME NEW I,
           prog' = prog, I \in [prog.blocks -> SUBSET MustDomain],
           \A b \in prog.blocks : results'[b] = AcsBottom \/ Proper(results'[b]),
           ~ mainEntry' => MustEntry \in I[prog.main],
           phase' = "output" /\ ~ fixpoint' => in'.must \in I[current'],
           \A h \in Going' : fpstate'[h].header.must \in I[h],
           \A b \in prog.blocks : \A x \in I[b] : Pending(b, x)' \/ Interprets(I, b, x)'
    PROVE  CoverInv(I)'
BY DEF CoverInv

\* What the operations of the domain do to MUST.
LEMMA MustParts ==
    ASSUME NEW x, Proper(x)
    PROVE  /\ AcsEnter(x).must = x.must /\ AcsLeave(x).must = x.must
           /\ \A c \in ListsOfBlocks, b \in BasicBlocks :
                 /\ AcsUpdate(c, b, x).must = MustUpdate(c, b, x.must)
                 /\ MustUpdate(c, b, x.must) \in MustDomain
<1>1. ASSUME NEW S, NEW T, NEW B, NEW z \in [must : S, pers : T, bottom : B], NEW q
      PROVE  [z EXCEPT !.pers = q].must = z.must
  OBVIOUS
<1>2. AcsEnter(x).must = x.must /\ AcsLeave(x).must = x.must
  BY <1>1, Zenon DEF Proper, AcsEnter, AcsLeave
<1>3. ASSUME NEW c \in ListsOfBlocks, NEW b \in BasicBlocks
      PROVE  /\ AcsUpdate(c, b, x).must = MustUpdate(c, b, x.must)
             /\ MustUpdate(c, b, x.must) \in MustDomain
  <2>1. AcsUpdate(c, b, x).must = MustUpdate(c, b, x.must)
    BY DEF AcsUpdate, MustUpdate, Proper
  <2>2. AcsUpdate(c, b, x).must \in MustDomain
    BY ProperUpdate, ProperDepth
  <2> QED
    BY <2>1, <2>2
<1> QED
  BY <1>2, <1>3

\* An input: the block v is taken, with a state that covers what it takes.
LEMMA InputCover ==
    ASSUME Structured(prog), ValueInv, NEW I, CoverInv(I),
           phase = "turn", phase' = "output", ~ mainEntry',
           UNCHANGED <<prog, code, results>>,
           NEW v \in prog.blocks, current' = v, Proper(in'),
           mainEntry => v = prog.main /\ in'.must = MustEntry,
           fixpoint' => in'.must \in I[v],
           \A e \in DOMAIN mark' : mark'[e] = mark[e],
           \A e \in DOMAIN mark : e[2] \notin Going \/ Back(prog, e) =>
               \/ e \in DOMAIN mark' /\ (e[2] \notin Going' \/ Back(prog, e))
               \/ e[2] = v /\ Covers(in'.must, mark[e].must),
           \A h \in Going' : \/ h \in Going /\ fpstate'[h] = fpstate[h]
                             \/ h = v /\ fpstate'[h].header.must = in'.must
    PROVE  \E J : CoverInv(J)'
<1>a. PICK m : m = in'.must
  OBVIOUS
<1>b. PICK J : J = [b \in prog.blocks |-> IF b = v THEN I[b] \cup {m} ELSE I[b]]
  OBVIOUS
<1>1. I \in [prog.blocks -> SUBSET MustDomain] /\ m \in MustDomain
  BY <1>a, ProperDepth DEF CoverInv
<1>2. /\ J \in [prog.blocks -> SUBSET MustDomain]
      /\ \A b \in prog.blocks : I[b] \subseteq J[b]
      /\ m \in J[v] /\ \A b \in prog.blocks : \A x \in J[b] : x \in I[b] \/ (b = v /\ x = m)
  BY <1>1, <1>b
<1>3. prog.main \in prog.blocks /\ Going' \subseteq prog.blocks
  BY DEF Structured, OneGraph, LoopsOK, Going, Headers
<1>4. ASSUME NEW b \in prog.blocks, NEW x \in I[b]
      PROVE  Interprets(J, b, x)'
  <2>1. Interprets(I, b, x)
    BY <1>4 DEF CoverInv, Pending
  <2>2. ASSUME NEW e \in OutOf(prog, b)
        PROVE  Passed(J, e, MustUpdate(code, b, x))'
    <3>1. PICK z : z = MustUpdate(code, b, x)
      OBVIOUS
    <3>2. z \in MustDomain
      <4>1. x \in MustDomain /\ b \in BasicBlocks /\ code \in ListsOfBlocks
        BY <1>1, <1>4 DEF Structured, OneGraph, ValueInv
      <4>2. code[b] # <<>> => LastOf(code, b) \in Blocks
        BY <4>1 DEF ListsOfBlocks, LastOf
      <4> QED
        BY <3>1, <4>1, <4>2, MustTypes DEF MustUpdate
    <3>3. e \in Edges(prog) /\ e[2] \in prog.blocks
      BY EdgeFacts DEF OutOf
    <3>4. Passed(I, e, z)
      BY <2>1, <3>1 DEF Interprets
    <3>5. (\E y \in J[e[2]] : Covers(y, z)) \/ Waiting(e, z)'
      <4>1. CASE \E y \in I[e[2]] : Covers(y, z)
        BY <1>2, <3>3, <4>1
      <4>2. CASE Waiting(e, z)
        <5>1. CASE e \in DOMAIN mark' /\ (e[2] \notin Going' \/ Back(prog, e))
          BY <4>2, <5>1 DEF Waiting
        <5>2. CASE e[2] = v /\ Covers(in'.must, mark[e].must)
          <6>1. mark[e].must \in MustDomain /\ Covers(mark[e].must, z)
            BY <4>2, ProperDepth DEF Waiting, ValueInv
          <6>2. Covers(m, z)
            BY <1>1, <1>a, <3>2, <5>2, <6>1, CoversFacts
          <6> QED
            BY <1>2, <5>2, <6>2
        <5> QED
          BY <4>2, <5>1, <5>2 DEF Waiting
      <4> QED
        BY <3>4, <4>1, <4>2 DEF Passed
    <3>6. MustUpdate(code, b, x)' = z
      BY <3>1 DEF MustUpdate, LastOf
    <3> QED
      BY <3>5, <3>6 DEF Passed
  <2> QED
    BY <2>1, <2>2 DEF Interprets
<1>5. ASSUME NEW b \in prog.blocks, NEW x \in J[b]
      PROVE  Pending(b, x)' \/ Interprets(J, b, x)'
  <2>1. CASE x \in I[b]
    BY <1>4, <2>1
  <2>2. CASE x \notin I[b]
    <3>1. b = v /\ x = m
      BY <1>2, <2>2
    <3>2. fixpoint' => x \in I[b]
      BY <1>a, <3>1
    <3> QED
      BY <1>a, <2>2, <3>1, <3>2 DEF Pending
  <2> QED
    BY <2>1, <2>2
<1>6. ASSUME NEW h \in Going'
      PROVE  fpstate'[h].header.must \in J[h]
  <2>1. CASE h \in Going /\ fpstate'[h] = fpstate[h]
    BY <1>2, <1>3, <2>1 DEF CoverInv
  <2>2. CASE h = v /\ fpstate'[h].header.must = in'.must
    BY <1>2, <1>a, <2>2
  <2> QED
    BY <2>1, <2>2
<1>7. MustEntry \in J[prog.main]
  <2>1. CASE mainEntry
    BY <1>2, <1>a, <2>1
  <2>2. CASE ~ mainEntry
    BY <1>2, <1>3, <2>2 DEF CoverInv
  <2> QED
    BY <2>1, <2>2
<1>8. in'.must \in J[current']
  BY <1>2, <1>a
<1>9. \A b \in prog.blocks : results'[b] = AcsBottom \/ Proper(results'[b])
  BY DEF CoverInv
<1>10. CoverInv(J)'
  BY <1>2, <1>5, <1>6, <1>7, <1>8, <1>9, CoverParts
<1> QED
  BY <1>10

-----------------------------------------------------------------------------
\* The next state of a header covers those of the edges it takes.
LEMMA HeaderCovers ==
    ASSUME Structured(prog), ValueInv, phase = "turn",
           NEW D, NEW M, M = DOMAIN mark, NEW G, G = Going,
           Control(prog, D, G, M, fixed, {}), NEW h \in ToDo(prog, D, G, M, fixed),
           h \in Headers, NEW s, s = StateOf(h),
           NEW x, x = IF unrolling THEN Unrolled(h, s) ELSE Iteration(h),
           NEW e \in M, e[2] = h, h \notin G \/ Back(prog, e)
    PROVE  Covers(x.must, mark[e].must)
<1>1. /\ h \in prog.blocks /\ Entering(h) # {} /\ Entering(h) \subseteq M
      /\ Returning(h) # {} /\ (h \in G => Returning(h) \subseteq M)
      /\ Entering(h) \subseteq Edges(prog) /\ Returning(h) \subseteq Edges(prog)
  <2>1. h # prog.main
    BY BlockFacts, ReadyStates DEF Structured, OneGraph, Headers
  <2>2. \A d \in prog.ins[h] : d \in Edges(prog)
    BY ReadyStates
  <2>3. Entering(h) \subseteq prog.ins[h] /\ Returning(h) \subseteq prog.ins[h]
    BY DEF Entering, Returning
  <2>4. /\ h \in prog.blocks /\ Entering(h) # {} /\ Entering(h) \subseteq M
        /\ Returning(h) # {} /\ (h \in G => Returning(h) \subseteq M)
    BY <2>1, ReadyStates
  <2> QED
    BY <2>2, <2>3, <2>4
<1>2. e \in Edges(prog) /\ e \in prog.ins[h]
  <2>1. e \in Edges(prog)
    BY DEF Control
  <2> QED
    BY <2>1, EdgeFacts
<1>3. PICK u : u = Union(Entering(h))
  OBVIOUS
<1>4. PICK y : y = Union(Returning(h))
  OBVIOUS
<1>5. UnionOver(Entering(h), u)
  BY <1>1, <1>3, UnionOfEdges DEF ValueInv
<1>6. Proper(u) /\ Proper(AcsEnter(u)) /\ AcsEnter(u).must = u.must
  <2>1. Proper(u)
    BY <1>5 DEF UnionOver
  <2> QED
    BY <2>1, ProperEnter, MustParts
<1>7. Proper(mark[e]) /\ mark[e].must \in MustDomain
  BY ProperDepth DEF ValueInv
<1>8. CASE h \notin G
  <2>1. ~ Back(prog, e)
    BY <1>2, <1>8, ReadyEdges
  <2>2. e \in Entering(h)
    BY <1>2, <2>1 DEF Entering, Dominated, Back
  <2>3. h \in first
    BY <1>8 DEF Going
  <2>4. x = AcsEnter(u)
    BY <1>3, <2>3 DEF StateOf, Unrolled, Iteration
  <2> QED
    BY <1>5, <1>6, <2>2, <2>4 DEF UnionOver
<1>9. CASE h \in G
  <2>1. Back(prog, e) /\ e \in Returning(h)
    BY <1>2, <1>9 DEF Returning, Dominated, Back
  <2>2. UnionOver(Returning(h), y)
    BY <1>1, <1>4, <1>9, UnionOfEdges DEF ValueInv
  <2>3. Proper(y) /\ Covers(y.must, mark[e].must)
    BY <2>1, <2>2 DEF UnionOver
  <2>4. s = fpstate[h] /\ HeaderState(h, s) /\ h \notin first
    BY <1>9 DEF StateOf, Going, ValueInv
  <2>5. CASE ~ unrolling
    <3>1. x = AcsLub(AcsEnter(u), y)
      BY <1>3, <1>4, <2>4, <2>5 DEF Iteration
    <3> QED
      BY <1>6, <1>7, <2>3, <3>1, LubCovers
  <2>6. CASE unrolling /\ s.iter = 1
    <3>1. x = y
      BY <1>4, <2>6 DEF Unrolled
    <3> QED
      BY <2>3, <3>1
  <2>7. CASE unrolling /\ s.iter = 2
    <3>1. x = AcsLub(y, s.second) /\ Proper(s.second)
      BY <1>4, <2>4, <2>7 DEF Unrolled, HeaderState
    <3> QED
      BY <1>7, <2>3, <3>1, LubCovers
  <2> QED
    BY <2>4, <2>5, <2>6, <2>7 DEF HeaderState
<1> QED
  BY <1>8, <1>9

\* The inputs.
LEMMA MainCover ==
    ASSUME Structured(prog), Kept, NEW D, NEW P, NEW X,
           Scheduled(D, P, X), InTurn(D, P, X), ValueInv, ValueInv', MainInput,
           NEW I, CoverInv(I)
    PROVE  \E J : CoverInv(J)'
<1>a. PICK w : w = SubSeq(work, 1, Len(work) - 1)
  OBVIOUS
<1>b. PICK todo : todo = ToDo(prog, D, Going, DOMAIN mark, fixed)
  OBVIOUS
<1>1. Top = prog.main
  <2>1. Turn /\ mainEntry
    BY DEF MainInput
  <2>2. TopOf(todo, w, P, X)
    BY <1>a, <1>b, <2>1, TopFacts, Zenon
  <2> QED
    BY <2>1, <2>2 DEF TopOf
<1>2. /\ phase' = "output" /\ current' = prog.main /\ in' = AcsEntry /\ ~ mainEntry'
      /\ ~ fixpoint' /\ phase = "turn"
      /\ UNCHANGED <<prog, code, results, mark, first, fpstate>>
  BY <1>1 DEF MainInput, Pop, Turn
<1>3. DOMAIN mark = {} /\ Going' = {}
  BY <1>2 DEF InTurn, MainInput, Going, Headers
<1>4. PICK v : v = prog.main
  OBVIOUS
<1>5. v \in prog.blocks /\ Proper(in') /\ in'.must = MustEntry
  BY <1>2, <1>4, ProperEntry DEF Structured, OneGraph, AcsEntry
<1>6. current' = v /\ \A e \in DOMAIN mark' : mark'[e] = mark[e]
  BY <1>2, <1>4
<1> QED
  BY <1>2, <1>3, <1>4, <1>5, <1>6, InputCover

\* A block that is no header takes states that cover what comes to it.
LEMMA BlockCover ==
    ASSUME Structured(prog), Kept, NEW D, NEW P, NEW X,
           Scheduled(D, P, X), InTurn(D, P, X), ValueInv, ValueInv', BlockInput,
           NEW I, CoverInv(I)
    PROVE  \E J : CoverInv(J)'
<1>a. PICK w : w = SubSeq(work, 1, Len(work) - 1)
  OBVIOUS
<1>b. PICK todo : todo = ToDo(prog, D, Going, DOMAIN mark, fixed)
  OBVIOUS
<1>c. PICK b : b = Top
  OBVIOUS
<1>d. PICK x : x = Union(prog.ins[b])
  OBVIOUS
<1>1. /\ P = {} /\ b \in todo /\ NextCall(b) = <<>> /\ (~ mainEntry => b \notin prog.entries)
      /\ ~ mainEntry
  <2>1. Turn /\ ~ mainEntry
    BY DEF BlockInput, Plain
  <2>2. TopOf(todo, w, P, X)
    BY <1>a, <1>b, <2>1, TopFacts, Zenon
  <2> QED
    BY <1>c, <2>1, <2>2 DEF TopOf
<1>2. PICK M : M = DOMAIN mark
  OBVIOUS
<1>3. PICK G : G = Going
  OBVIOUS
<1>4. Control(prog, D, G, M, fixed, {}) /\ b \in ToDo(prog, D, G, M, fixed)
  BY <1>b, <1>1, <1>2, <1>3 DEF Scheduled
<1>5. /\ b \notin Headers /\ b # prog.main /\ phase = "turn"
      /\ b \in prog.blocks
  <2>1. b \notin Headers /\ phase = "turn"
    BY <1>c DEF BlockInput, Turn
  <2>2. b # prog.main
    BY <1>1 DEF Structured, OneGraph
  <2> QED
    BY <2>1, <2>2, <1>4 DEF ToDo
<1>6. prog.ins[b] \subseteq M /\ prog.ins[b] # {} /\ prog.ins[b] \subseteq Edges(prog)
  <2>1. /\ prog.ins[b] = Entering(b) /\ Entering(b) \subseteq DOMAIN mark /\ Entering(b) # {}
        /\ \A e \in prog.ins[b] : e \in Edges(prog)
    BY <1>2, <1>3, <1>4, <1>5, ReadyStates
  <2> QED
    BY <1>2, <2>1
<1>7. UnionOver(prog.ins[b], x)
  BY <1>d, <1>2, <1>6, UnionOfEdges DEF ValueInv
<1>8. /\ phase' = "output" /\ current' = b /\ in' = x /\ ~ fixpoint'
      /\ mark' = Unmark(mark, prog.ins[b]) /\ ~ mainEntry'
      /\ UNCHANGED <<prog, code, results, first, fpstate>>
  BY <1>c, <1>d, <1>1, <1>2, <1>6 DEF BlockInput, Pop, Marked
<1>9. /\ DOMAIN mark' = M \ prog.ins[b]
      /\ \A e \in DOMAIN mark' : mark'[e] = mark[e]
  BY <1>2, <1>8 DEF Unmark
<1>10. Going' = Going
  BY <1>8 DEF Going, Headers
<1>11. ASSUME NEW e \in M, e[2] \notin Going \/ Back(prog, e)
       PROVE  \/ e \in DOMAIN mark' /\ (e[2] \notin Going' \/ Back(prog, e))
              \/ e[2] = b /\ Covers(in'.must, mark[e].must)
  <2>1. CASE e \in prog.ins[b]
    BY <1>5, <1>7, <1>8, <2>1, BlockFacts DEF UnionOver
  <2>2. CASE e \notin prog.ins[b]
    BY <1>9, <1>10, <1>11, <2>2
  <2> QED
    BY <2>1, <2>2
<1>12. \A h \in Going' : h \in Going /\ fpstate'[h] = fpstate[h]
  BY <1>8, <1>10
<1>13. Proper(in')
  BY <1>7, <1>8 DEF UnionOver
<1> QED
  BY <1>1, <1>2, <1>5, <1>8, <1>9, <1>11, <1>12, <1>13, InputCover

\* A header takes states that cover what comes to it.
LEMMA HeaderCover ==
    ASSUME Structured(prog), Kept, NEW D, NEW P, NEW X,
           Scheduled(D, P, X), InTurn(D, P, X), ValueInv, ValueInv', HeaderInput,
           NEW I, CoverInv(I)
    PROVE  \E J : CoverInv(J)'
<1>a. PICK w : w = SubSeq(work, 1, Len(work) - 1)
  OBVIOUS
<1>b. PICK todo : todo = ToDo(prog, D, Going, DOMAIN mark, fixed)
  OBVIOUS
<1>c. PICK h : h = Top
  OBVIOUS
<1>d. PICK G : G = Going
  OBVIOUS
<1>e. PICK M : M = DOMAIN mark
  OBVIOUS
<1>f. PICK s : s = StateOf(h)
  OBVIOUS
<1>g. PICK x : x = IF unrolling THEN Unrolled(h, s) ELSE Iteration(h)
  OBVIOUS
<1>h. PICK reached : reached = Stable(h, s, x)
  OBVIOUS
<1>i. PICK R : R = Returning(h)
  OBVIOUS
<1>1. P = {} /\ h \in todo /\ ~ mainEntry
  <2>1. Turn /\ ~ mainEntry
    BY DEF HeaderInput, Plain
  <2>2. TopOf(todo, w, P, X)
    BY <1>a, <1>b, <2>1, TopFacts, Zenon
  <2> QED
    BY <1>c, <2>1, <2>2 DEF TopOf
<1>2. /\ Control(prog, D, G, M, fixed, {}) /\ h \in ToDo(prog, D, G, M, fixed)
      /\ h \in Headers /\ phase = "turn" /\ h \in prog.blocks
  <2>1. Control(prog, D, G, M, fixed, {}) /\ h \in ToDo(prog, D, G, M, fixed)
    BY <1>b, <1>d, <1>e, <1>1 DEF Scheduled
  <2> QED
    BY <1>c, <2>1 DEF HeaderInput, Turn, ToDo
<1>3. HeaderRight(h, s, x) /\ (h \notin G => reached = FALSE)
  <2>1. CASE h \in G
    BY <1>2, <1>d, <1>e, <1>f, <1>g, <2>1, AgainIteration
  <2>2. CASE h \notin G
    <3>1. h \in first
      BY <1>2, <1>d, <2>2 DEF Going
    <3> QED
      BY <1>2, <1>d, <1>e, <1>f, <1>g, <1>h, <2>2, <3>1, FirstIteration
  <2> QED
    BY <2>1, <2>2
<1>4. /\ phase' = "output" /\ current' = h /\ in' = x /\ fixpoint' = reached
      /\ first' = IF reached THEN first \cup {h} ELSE first \ {h}
      /\ DOMAIN mark' = M \ (IF reached THEN prog.ins[h] ELSE R)
      /\ \A e \in DOMAIN mark' : mark'[e] = mark[e]
      /\ \A k \in G \ {h} : fpstate'[k] = fpstate[k]
      /\ ~ reached => fpstate'[h] = NextHeader(h, s, x)
      /\ UNCHANGED <<prog, code, unrolling>>
  <2>1. HeaderOK(h)
    BY <1>3 DEF HeaderRight
  <2>2. DOMAIN fpstate = G
    BY <1>d DEF Kept
  <2>3. HeaderTurned(h, s, x, reached)
    BY <1>c, <1>f, <1>g, <1>h, <2>1, HeaderTurn, Zenon
  <2> QED
    BY <1>e, <1>i, <2>2, <2>3 DEF HeaderTurned
<1>5. reached \in BOOLEAN /\ ~ mainEntry' /\ results' = results
  <2>1. reached \in BOOLEAN
    BY <1>h DEF Stable
  <2> QED
    BY <2>1 DEF HeaderInput, Pop
<1>6. Going' = IF reached THEN G \ {h} ELSE G \cup {h}
  BY <1>2, <1>4, <1>d DEF Going, Headers
<1>7. ASSUME NEW e \in M, e[2] \notin Going \/ Back(prog, e)
      PROVE  \/ e \in DOMAIN mark' /\ (e[2] \notin Going' \/ Back(prog, e))
             \/ e[2] = h /\ Covers(in'.must, mark[e].must)
  <2>1. CASE e[2] = h
    <3>1. h \notin G \/ Back(prog, e)
      BY <1>7, <1>d, <2>1
    <3>2. Covers(x.must, mark[e].must)
      BY <1>2, <1>d, <1>e, <1>f, <1>g, <2>1, <3>1, HeaderCovers
    <3> QED
      BY <1>4, <2>1, <3>2
  <2>2. CASE e[2] # h
    <3>1. e \notin prog.ins[h] /\ e \notin R
      BY <1>2, <1>i, <2>2, BlockFacts DEF Returning
    <3>2. e \in DOMAIN mark'
      BY <1>4, <3>1
    <3>3. e[2] \notin Going => e[2] \notin Going'
      BY <1>5, <1>6, <1>d, <2>2
    <3> QED
      BY <1>7, <3>2, <3>3
  <2> QED
    BY <2>1, <2>2
<1>8. reached => x.must \in I[h]
  <2> SUFFICES ASSUME reached
               PROVE  x.must \in I[h]
    OBVIOUS
  <2>1. h \in G
    BY <1>3
  <2>2. AcsEqual(x, s.header)
    BY <1>h, <1>5 DEF Stable
  <2>3. s = fpstate[h]
    BY <1>d, <1>f, <2>1 DEF StateOf, Going
  <2>4. fpstate[h].header.must \in I[h]
    BY <1>d, <2>1 DEF CoverInv
  <2> QED
    BY <2>2, <2>3, <2>4 DEF AcsEqual
<1>9. ASSUME NEW k \in Going'
      PROVE  \/ k \in Going /\ fpstate'[k] = fpstate[k]
             \/ k = h /\ fpstate'[k].header.must = in'.must
  <2>1. CASE k = h
    <3>1. ~ reached
      BY <1>5, <1>6, <2>1
    <3>2. fpstate'[h].header = x
      BY <1>4, <3>1 DEF NextHeader
    <3> QED
      BY <1>4, <2>1, <3>2
  <2>2. CASE k # h
    BY <1>4, <1>5, <1>6, <1>d, <2>2
  <2> QED
    BY <2>1, <2>2
<1>10. Proper(in')
  BY <1>4 DEF ValueInv
<1>11. fixpoint' => in'.must \in I[h]
  BY <1>4, <1>8
<1> QED
  BY <1>1, <1>2, <1>4, <1>5, <1>7, <1>9, <1>10, <1>11, <1>e, InputCover

\* The outputs.
LEMMA UpdateType ==
    ASSUME NEW c \in ListsOfBlocks, NEW b \in BasicBlocks, NEW x \in MustDomain
    PROVE  MustUpdate(c, b, x) \in MustDomain
<1>1. c[b] \in Seq(Blocks)
  BY DEF ListsOfBlocks
<1>2. c[b] # <<>> => LastOf(c, b) \in Blocks
  BY <1>1 DEF LastOf
<1> QED
  BY <1>2, MustTypes DEF MustUpdate

\* States only grow, and the pending input is dealt with.
LEMMA OutputCover ==
    ASSUME Structured(prog), ValueInv, ValueInv', NEW I, CoverInv(I),
           phase = "output", phase' = "turn",
           UNCHANGED <<prog, code, mainEntry, first, fpstate>>,
           \A e \in DOMAIN mark : e \in DOMAIN mark' /\ Covers(mark'[e].must, mark[e].must),
           \A b \in prog.blocks : /\ results'[b] = AcsBottom \/ Proper(results'[b])
                                  /\ Proper(results[b]) =>
                                        /\ Proper(results'[b])
                                        /\ Covers(results'[b].must, results[b].must),
           NEW c, c = current, NEW m, m = in.must, ~ fixpoint => Interprets(I, c, m)'
    PROVE  CoverInv(I)'
<1>1. I \in [prog.blocks -> SUBSET MustDomain]
  BY DEF CoverInv
<1>2. Going' = Going
  BY DEF Going, Headers
<1>3. ASSUME NEW b \in prog.blocks, NEW x \in I[b], Interprets(I, b, x)
      PROVE  Interprets(I, b, x)'
  <2>1. x \in MustDomain /\ b \in BasicBlocks /\ code \in ListsOfBlocks
    BY <1>1 DEF Structured, OneGraph, ValueInv
  <2>2. PICK z : z = MustUpdate(code, b, x)
    OBVIOUS
  <2>3. z \in MustDomain
    BY <2>1, <2>2, UpdateType
  <2>4. ASSUME NEW e \in OutOf(prog, b)
        PROVE  Passed(I, e, z)'
    <3>1. Passed(I, e, z)
      BY <1>3, <2>2 DEF Interprets
    <3>2. ASSUME Waiting(e, z)
          PROVE  Waiting(e, z)'
      <4>1. /\ e \in DOMAIN mark /\ Covers(mark[e].must, z)
            /\ e[2] \notin Going \/ Back(prog, e)
        BY <3>2 DEF Waiting
      <4>2. e \in DOMAIN mark' /\ Covers(mark'[e].must, mark[e].must)
        BY <4>1
      <4>3. mark[e].must \in MustDomain /\ mark'[e].must \in MustDomain
        BY <4>1, <4>2, ProperDepth DEF ValueInv
      <4>4. Covers(mark'[e].must, z)
        BY <2>3, <4>1, <4>2, <4>3, CoversFacts
      <4> QED
        BY <1>2, <4>1, <4>2, <4>4 DEF Waiting
    <3> QED
      BY <3>1, <3>2 DEF Passed
  <2>5. MustUpdate(code, b, x)' = z
    BY <2>2 DEF MustUpdate, LastOf
  <2>6. Proper(results'[b]) /\ Covers(results'[b].must, x)
    <3>1. Proper(results[b]) /\ Covers(results[b].must, x)
      BY <1>3 DEF Interprets
    <3>2. Proper(results'[b]) /\ Covers(results'[b].must, results[b].must)
      BY <3>1
    <3>3. results[b].must \in MustDomain /\ results'[b].must \in MustDomain
      BY <3>1, <3>2, ProperDepth
    <3> QED
      BY <2>1, <3>1, <3>2, <3>3, CoversFacts
  <2> QED
    BY <2>4, <2>5, <2>6 DEF Interprets
<1>4. ASSUME NEW b \in prog.blocks, NEW x \in I[b]
      PROVE  Pending(b, x)' \/ Interprets(I, b, x)'
  <2>1. CASE Pending(b, x)
    BY <2>1 DEF Pending
  <2>2. CASE Interprets(I, b, x)
    BY <1>3, <2>2
  <2> QED
    BY <2>1, <2>2 DEF CoverInv
<1>5. \A h \in Going' : fpstate'[h].header.must \in I[h]
  BY <1>2 DEF CoverInv
<1>6. ~ mainEntry' => MustEntry \in I[prog.main]
  BY DEF CoverInv
<1>7. \A b \in prog.blocks : results'[b] = AcsBottom \/ Proper(results'[b])
  OBVIOUS
<1> QED
  BY <1>1, <1>4, <1>5, <1>6, <1>7, CoverParts

\* A loop that is left passes on what its blocks were taken with.
LEMMA LeaveCover ==
    ASSUME Structured(prog), Kept, NEW D, NEW P, NEW X,
           Scheduled(D, P, X), InTurn(D, P, X), ValueInv, ValueInv', LeaveOutput,
           NEW I, CoverInv(I)
    PROVE  CoverInv(I)'
<1>b. PICK todo : todo = ToDo(prog, D, Going, DOMAIN mark, fixed)
  OBVIOUS
<1>c. PICK E : E = ExitsOf(prog, current)
  OBVIOUS
<1>d. PICK T : T = todo \ X
  OBVIOUS
<1>e. PICK new : new = ActivateExits
  OBVIOUS
<1>1. /\ phase = "output" /\ fixpoint /\ phase' = IF ExitsOK THEN "turn" ELSE "failed"
      /\ mark' = new.mark
      /\ UNCHANGED <<prog, code, mainEntry, first, fpstate, results>>
  BY <1>e DEF LeaveOutput, LoopDone, EndTurn
<1>2. /\ X = {e[2] : e \in E} /\ E \subseteq DOMAIN mark /\ current \in Headers \ Going
  BY <1>1, <1>c DEF InTurn, Exits, Targets
<1>3. ListOf(work, prog.blocks, T)
  BY <1>b, <1>d DEF Scheduled
<1>4. ExitsActivated(E, T, new)
  <2>1. E \subseteq DOMAIN mark /\ current \in Headers
    BY <1>2
  <2>2. \A e \in E : e[2] \notin T
    BY <1>2, <1>d
  <2> QED
    BY <2>1, <2>2, <1>3, <1>c, <1>e, ActivateExitsFacts, Zenon
<1>5. /\ DOMAIN mark' = DOMAIN mark
      /\ \A e \in E : mark'[e] = AcsLeave(mark[e])
      /\ \A e \in DOMAIN mark \ E : mark'[e] = mark[e]
  BY <1>1, <1>4 DEF ExitsActivated
<1>6. ASSUME NEW e \in DOMAIN mark
      PROVE  e \in DOMAIN mark' /\ Covers(mark'[e].must, mark[e].must)
  <2>1. Proper(mark[e]) /\ mark[e].must \in MustDomain
    BY ProperDepth DEF ValueInv
  <2>2. AcsLeave(mark[e]).must = mark[e].must
    BY <2>1, MustParts
  <2>3. mark'[e].must = mark[e].must
    BY <1>5, <2>2
  <2> QED
    BY <1>5, <2>1, <2>3, CoversFacts
<1>7. ASSUME NEW b \in prog.blocks
      PROVE  /\ results'[b] = AcsBottom \/ Proper(results'[b])
             /\ Proper(results[b]) => /\ Proper(results'[b])
                                      /\ Covers(results'[b].must, results[b].must)
  <2>1. results[b] = AcsBottom \/ Proper(results[b])
    BY DEF CoverInv
  <2> QED
    BY <1>1, <2>1, ProperDepth, CoversFacts
<1>8. phase' = "turn"
  BY <1>1 DEF ValueInv
<1>9. PICK c : c = current
  OBVIOUS
<1>10. PICK m : m = in.must
  OBVIOUS
<1> QED
  BY <1>1, <1>6, <1>7, <1>8, <1>9, <1>10, OutputCover

\* A block passes on what it makes of what it was taken with.
LEMMA BodyCover ==
    ASSUME Structured(prog), Kept, NEW D, NEW P, NEW X,
           Scheduled(D, P, X), InTurn(D, P, X), ValueInv, ValueInv', BodyOutput,
           NEW I, CoverInv(I)
    PROVE  CoverInv(I)'
<1>a. PICK G : G = Going
  OBVIOUS
<1>b. PICK M : M = DOMAIN mark
  OBVIOUS
<1>c. PICK O : O = OutOf(prog, current)
  OBVIOUS
<1>d. PICK T : T = ToDo(prog, D, G, M, fixed)
  OBVIOUS
<1>e. PICK x : x = AcsUpdate(code, current, in)
  OBVIOUS
<1>f. PICK new : new = AddSuccessors(mark, x)
  OBVIOUS
<1>g. PICK c : c = current
  OBVIOUS
<1>h. PICK m : m = in.must
  OBVIOUS
<1>1. /\ phase = "output" /\ ~ fixpoint /\ phase' = IF AcsLive(in) THEN "turn" ELSE "failed"
      /\ mark' = new.mark /\ results' = [results EXCEPT ![c] = AcsLub(@, in)]
      /\ UNCHANGED <<prog, code, mainEntry, first, fpstate>>
  BY <1>e, <1>f, <1>g DEF BodyOutput, BodyDone, EndTurn
<1>2. P = {current} /\ X = {} /\ Around(prog, current) \subseteq Going
  BY <1>1 DEF InTurn
<1>3. Control(prog, D, G, M, fixed, {current}) /\ current \in prog.blocks
  BY <1>2, <1>a, <1>b DEF Scheduled, Control
<1>4. SuccessorsAdded(O, T, mark, x, new)
  <2>1. ListOf(work, prog.blocks, T)
    <3>1. T = T \ {}
      OBVIOUS
    <3> QED
      BY <1>2, <1>a, <1>b, <1>d, <3>1 DEF Scheduled
  <2>2. Marks(prog, O, D, G, M, fixed, M \cup O)
    BY <1>3, <1>c, OutputControl, Zenon
  <2>3. \A e \in O : e[2] \notin T
    BY <2>2, <1>d, Zenon DEF Marks
  <2>4. current \in prog.blocks
    BY <1>3
  <2> QED
    BY <2>1, <2>3, <2>4, <1>c, <1>f, AddSuccessorsFacts, Zenon
<1>5. /\ DOMAIN mark' = DOMAIN mark \cup O
      /\ \A e \in O : mark'[e] = AcsLub(IF e \in DOMAIN mark THEN mark[e] ELSE AcsBottom, x)
      /\ \A e \in DOMAIN mark \ O : mark'[e] = mark[e]
  BY <1>1, <1>4 DEF SuccessorsAdded
<1>6. Proper(in) /\ m \in MustDomain
  BY <1>1, <1>h, ProperDepth DEF ValueInv
<1>7. c \in BasicBlocks /\ code \in ListsOfBlocks /\ c \in prog.blocks
  BY <1>3, <1>g DEF Structured, OneGraph, ValueInv
<1>8. Proper(x) /\ x.must = MustUpdate(code, c, m) /\ x.must \in MustDomain
  BY <1>6, <1>7, <1>e, <1>g, <1>h, ProperUpdate, MustParts
<1>9. ASSUME NEW e \in O
      PROVE  /\ Covers(mark'[e].must, x.must)
             /\ e \in DOMAIN mark => Covers(mark'[e].must, mark[e].must)
  <2>1. CASE e \in DOMAIN mark
    <3>1. mark'[e] = AcsLub(mark[e], x) /\ Proper(mark[e])
      BY <1>5, <2>1 DEF ValueInv
    <3> QED
      BY <1>8, <3>1, LubCovers
  <2>2. CASE e \notin DOMAIN mark
    <3>1. mark'[e] = x
      BY <1>5, <1>8, <2>2, BottomLub
    <3> QED
      BY <1>8, <2>2, <3>1, CoversFacts
  <2> QED
    BY <2>1, <2>2
<1>10. ASSUME NEW e \in DOMAIN mark
       PROVE  e \in DOMAIN mark' /\ Covers(mark'[e].must, mark[e].must)
  <2>1. CASE e \in O
    BY <1>5, <1>9, <2>1
  <2>2. CASE e \notin O
    <3>1. mark'[e] = mark[e] /\ mark[e].must \in MustDomain
      BY <1>5, <2>2, ProperDepth DEF ValueInv
    <3> QED
      BY <1>5, <3>1, CoversFacts
  <2> QED
    BY <2>1, <2>2
<1>11. /\ Proper(results'[c]) /\ Covers(results'[c].must, m)
       /\ Proper(results[c]) => Covers(results'[c].must, results[c].must)
  <2>1. results'[c] = AcsLub(results[c], in)
    BY <1>1, <1>7 DEF Kept, Structured, OneGraph
  <2>2. results[c] = AcsBottom \/ Proper(results[c])
    BY <1>7 DEF CoverInv
  <2>3. CASE Proper(results[c])
    BY <1>6, <1>h, <2>1, <2>3, ProperLub, LubCovers
  <2>4. CASE results[c] = AcsBottom
    <3>1. results'[c] = in
      BY <1>6, <2>1, <2>4, BottomLub
    <3>2. ~ Proper(results[c])
      BY <2>4, ProperDepth DEF AcsBottom
    <3> QED
      BY <1>6, <1>h, <3>1, <3>2, CoversFacts
  <2> QED
    BY <2>2, <2>3, <2>4
<1>12. ASSUME NEW b \in prog.blocks
       PROVE  /\ results'[b] = AcsBottom \/ Proper(results'[b])
              /\ Proper(results[b]) => /\ Proper(results'[b])
                                       /\ Covers(results'[b].must, results[b].must)
  <2>1. CASE b = c
    BY <1>11, <2>1
  <2>2. CASE b # c
    <3>1. results'[b] = results[b]
      BY <1>1, <2>2 DEF Kept, Structured, OneGraph
    <3>2. results[b] = AcsBottom \/ Proper(results[b])
      BY DEF CoverInv
    <3> QED
      BY <3>1, <3>2, ProperDepth, CoversFacts
  <2> QED
    BY <2>1, <2>2
<1>13. Interprets(I, c, m)'
  <2>1. ASSUME NEW e \in O
        PROVE  Waiting(e, x.must)'
    <3>1. LeadsOn(prog, D, G, e) /\ G \subseteq D
      BY <1>3, <1>c DEF Control, OutOf
    <3>2. e[2] \notin Going' \/ Back(prog, e)
      BY <1>1, <1>a, <3>1 DEF LeadsOn, Going, Headers
    <3> QED
      BY <1>1, <1>5, <1>9, <3>2 DEF Waiting
  <2>2. OutOf(prog, c)' = O /\ MustUpdate(code, c, m)' = x.must
    BY <1>1, <1>8, <1>c, <1>g DEF MustUpdate, LastOf
  <2> QED
    BY <1>11, <2>1, <2>2 DEF Interprets, Passed
<1>14. phase' = "turn"
  BY <1>1 DEF ValueInv
<1> QED
  BY <1>1, <1>10, <1>12, <1>13, <1>14, <1>g, <1>h, OutputCover

\* The steps of the analysis.
LEMMA CoverStays ==
    ASSUME NEW I, CoverInv(I),
           UNCHANGED <<prog, code, mainEntry, current, in, fixpoint, mark, first, fpstate, results>>,
           phase' = phase \/ (phase # "output" /\ phase' \in {"done", "run"})
    PROVE  CoverInv(I)'
<1>1. Going' = Going
  BY DEF Going, Headers
<1>2. ASSUME NEW b, NEW x, Interprets(I, b, x)
      PROVE  Interprets(I, b, x)'
  <2>1. PICK z : z = MustUpdate(code, b, x)
    OBVIOUS
  <2>2. z = MustUpdate(code, b, x)'
    BY <2>1 DEF MustUpdate, LastOf
  <2>3. \A e : Passed(I, e, z) => Passed(I, e, z)'
    BY <1>1 DEF Passed, Waiting
  <2> QED
    BY <1>2, <2>1, <2>2, <2>3 DEF Interprets
<1>3. ASSUME NEW b \in prog.blocks, NEW x \in I[b]
      PROVE  Pending(b, x)' \/ Interprets(I, b, x)'
  BY <1>2 DEF CoverInv, Pending
<1>4. \A h \in Going' : fpstate'[h].header.must \in I[h]
  BY <1>1 DEF CoverInv
<1>5. /\ I \in [prog.blocks -> SUBSET MustDomain]
      /\ \A b \in prog.blocks : results'[b] = AcsBottom \/ Proper(results'[b])
      /\ ~ mainEntry' => MustEntry \in I[prog.main]
      /\ phase' = "output" /\ ~ fixpoint' => in'.must \in I[current']
  BY DEF CoverInv
<1> QED
  BY <1>3, <1>4, <1>5, CoverParts

\* Every step keeps what was interpreted; nothing is added in a run.
LEMMA CoverNext ==
    ASSUME ScheduleInv, ValueInv, NEW I, CoverInv(I), [Next]_vars
    PROVE  /\ \E J : CoverInv(J)'
           /\ phase = "run" => CoverInv(I)'
<1>1. PICK D, P, X : Scheduled(D, P, X) /\ InTurn(D, P, X)
  BY DEF ScheduleInv
<1>2. Structured(prog) /\ Kept
  BY DEF ScheduleInv
<1>3. ValueInv'
  BY ValueNext
<1>4. CASE MainInput
  BY <1>1, <1>2, <1>3, <1>4, MainCover, Zenon DEF MainInput, Turn
<1>5. CASE HeaderInput
  BY <1>1, <1>2, <1>3, <1>5, HeaderCover, Zenon DEF HeaderInput, Turn
<1>6. CASE BlockInput
  BY <1>1, <1>2, <1>3, <1>6, BlockCover, Zenon DEF BlockInput, Turn
<1>7. CASE LeaveOutput
  BY <1>1, <1>2, <1>3, <1>7, LeaveCover, Zenon
<1>8. CASE BodyOutput
  BY <1>1, <1>2, <1>3, <1>8, BodyCover, Zenon
<1>9. CASE Finish
  BY <1>9, CoverStays DEF Finish
<1>10. CASE StartRun
  BY <1>10, CoverStays DEF StartRun
<1>11. CASE Run \/ Call \/ Return
  <2>1. UNCHANGED analysis
    BY <1>11 DEF Run, Call, Return, Executed
  <2> QED
    BY <2>1, CoverStays DEF analysis
<1>12. CASE UNCHANGED vars
  BY <1>12, CoverStays DEF vars, analysis
<1> QED
  BY <1>4, <1>5, <1>6, <1>7, <1>8, <1>9, <1>10, <1>11, <1>12, NoCallSteps
     DEF Next, Analyse, Solve

-----------------------------------------------------------------------------
(* The run of the program: a state that the block to be executed was       *)
(* interpreted with bounds the ages in the real set.                       *)
RunSound(I) ==
    /\ code \in OnePerBlock
    /\ pos \in prog.blocks /\ returns = <<>> /\ line \in Lines
    /\ phase # "run" => pos = prog.main
    /\ phase = "run" => \E x \in I[pos] : Bounds(x, line)

HitInv == ScheduleInv /\ ValueInv /\ \E I : CoverInv(I) /\ RunSound(I)

\* Zero access in a block, or one.
LEMMA OneLine ==
    ASSUME NEW c \in OnePerBlock, NEW b \in BasicBlocks, NEW l
    PROVE  /\ c[b] = <<>> => LineAfter(l, c[b]) = l
           /\ c[b] # <<>> => /\ FirstOf(c, b) \in Blocks /\ LastOf(c, b) = FirstOf(c, b)
                             /\ LineAfter(l, c[b]) = LRUAccess(FirstOf(c, b), l)
<1>1. PICK s : s = c[b]
  OBVIOUS
<1>2. s \in Seq(Blocks) /\ Len(s) \in Nat /\ Len(s) <= 1
  <2>1. c \in ListsOfBlocks /\ Len(c[b]) <= 1
    BY DEF OnePerBlock
  <2> QED
    BY <1>1, <2>1 DEF ListsOfBlocks
<1>3. ASSUME s = <<>>
      PROVE  LineAfter(l, s) = l
  <2> DEFINE F(L) == [i \in 0 .. 0 |-> IF i = 0 THEN l ELSE LRUAccess(s[i], L[i - 1])]
             L0 == CHOOSE L : L = F(L)
  <2>a. Len(s) = 0
    BY <1>3
  <2>1. LineAfter(l, s) = L0[0]
    BY <2>a DEF LineAfter
  <2>2. \E L : L = F(L)
    <3> DEFINE L1 == [i \in 0 .. 0 |-> l]
    <3>1. L1 = F(L1)
      OBVIOUS
    <3> QED
      BY <3>1
  <2>3. L0 = F(L0)
    BY <2>2
  <2> HIDE DEF L0
  <2> QED
    BY <2>1, <2>3
<1>4. ASSUME s # <<>>
      PROVE  Len(s) = 1 /\ s[1] \in Blocks /\ LineAfter(l, s) = LRUAccess(s[1], l)
  <2>1. Len(s) = 1
    <3>1. Len(s) # 0
      BY <1>2, <1>4, EmptySeq
    <3>2. PICK n : n = Len(s)
      OBVIOUS
    <3>3. n \in Nat /\ n <= 1 /\ n # 0
      BY <1>2, <3>1, <3>2
    <3>4. n = 1
      BY <3>3
    <3> QED
      BY <3>2, <3>4
  <2>2. s[1] \in Blocks
    BY <1>2, <2>1, ElementOfSeq
  <2> DEFINE F(L) == [i \in 0 .. 1 |-> IF i = 0 THEN l ELSE LRUAccess(s[i], L[i - 1])]
             L0 == CHOOSE L : L = F(L)
  <2>3. LineAfter(l, s) = L0[1]
    BY <2>1 DEF LineAfter
  <2>4. \E L : L = F(L)
    <3> DEFINE L1 == [i \in 0 .. 1 |-> IF i = 0 THEN l ELSE LRUAccess(s[1], l)]
    <3>1. L1[0] = l /\ L1[1] = LRUAccess(s[1], l)
      OBVIOUS
    <3>2. F(L1)[0] = l /\ F(L1)[1] = LRUAccess(s[1], L1[0])
      OBVIOUS
    <3>3. L1 = F(L1)
      <4>1. \A i \in 0 .. 1 : L1[i] = F(L1)[i]
        BY <3>1, <3>2
      <4> QED
        BY <4>1
    <3> QED
      BY <3>3
  <2>5. L0 = F(L0)
    BY <2>4
  <2> HIDE DEF L0
  <2>6. L0[0] = l
    BY <2>5
  <2>7. L0[1] = LRUAccess(s[1], L0[0])
    BY <2>5
  <2> QED
    BY <2>1, <2>2, <2>3, <2>6, <2>7
<1> QED
  BY <1>1, <1>3, <1>4 DEF FirstOf, LastOf

\* What the block makes of a state bounds the ages after its accesses.
LEMMA OneAccess ==
    ASSUME Blocks \subseteq Tags, NEW c \in OnePerBlock, NEW b \in BasicBlocks,
           NEW l \in Lines, NEW x \in MustDomain, Bounds(x, l)
    PROVE  /\ LineAfter(l, c[b]) \in Lines
           /\ Bounds(MustUpdate(c, b, x), LineAfter(l, c[b]))
<1>1. CASE c[b] = <<>>
  BY <1>1, OneLine DEF MustUpdate
<1>2. CASE c[b] # <<>>
  <2>1. PICK id : id = FirstOf(c, b)
    OBVIOUS
  <2>2. id \in Blocks /\ id \in Tags /\ LastOf(c, b) = id /\ LineAfter(l, c[b]) = LRUAccess(id, l)
    BY <1>2, <2>1, OneLine
  <2>3. MustUpdate(c, b, x) = MustInject(x, id)
    BY <1>2, <2>2 DEF MustUpdate
  <2>4. LRUAccess(id, l) \in Lines
    BY <2>2, AccessFront
  <2>5. Bounds(MustInject(x, id), LRUAccess(id, l))
    BY <2>2, InjectBounds
  <2> QED
    BY <2>2, <2>3, <2>4, <2>5
<1> QED
  BY <1>1, <1>2

\* A block is executed and an edge followed: what the block makes of the
\* state that bounds the real set is covered at the next block.
LEMMA RunStep ==
    ASSUME Blocks \subseteq Tags, ScheduleInv, ValueInv, NEW I, CoverInv(I), RunSound(I), Run
    PROVE  RunSound(I)'
<1>1. /\ phase = "run" /\ UNCHANGED analysis /\ line' = LineAfter(line, code[pos])
      /\ Follow(pos, returns)
  BY DEF Run, Executed
<1>2. PICK e : /\ e \in OutOf(prog, pos) /\ pos' = e[2] /\ returns' = <<>>
  <2>1. PICK i \in 1 .. Len(prog.out[pos]) : pos' = prog.out[pos][i][2] /\ returns' = returns
    BY <1>1 DEF Follow
  <2>2. PICK e : e = prog.out[pos][i]
    OBVIOUS
  <2>3. e \in Items(prog.out[pos])
    BY <2>2 DEF Items
  <2>4. e \in OutOf(prog, pos)
    BY <2>3 DEF ScheduleInv, Structured, OneGraph, RunSound, OutOf
  <2> QED
    BY <2>1, <2>2, <2>4 DEF RunSound
<1>3. PICK x \in I[pos] : Bounds(x, line)
  BY <1>1 DEF RunSound
<1>4. /\ pos \in prog.blocks /\ pos \in BasicBlocks /\ e[2] \in prog.blocks
      /\ code \in OnePerBlock /\ code \in ListsOfBlocks /\ line \in Lines
      /\ x \in MustDomain /\ I[e[2]] \in SUBSET MustDomain
  <2>1. pos \in prog.blocks /\ code \in OnePerBlock /\ line \in Lines /\ Structured(prog)
    BY DEF RunSound, ScheduleInv
  <2>2. e[2] \in prog.blocks
    BY <1>2, <2>1, EdgeFacts DEF OutOf
  <2>3. I \in [prog.blocks -> SUBSET MustDomain]
    BY DEF CoverInv
  <2> QED
    BY <1>3, <2>1, <2>2, <2>3 DEF Structured, OneGraph, ValueInv
<1>5. PICK z : z = MustUpdate(code, pos, x)
  OBVIOUS
<1>6. PICK l : l = line'
  OBVIOUS
<1>7. l \in Lines /\ Bounds(z, l) /\ z \in MustDomain
  <2>1. /\ LineAfter(line, code[pos]) \in Lines
        /\ Bounds(MustUpdate(code, pos, x), LineAfter(line, code[pos]))
    BY <1>3, <1>4, OneAccess
  <2>2. z \in MustDomain
    BY <1>4, <1>5, UpdateType
  <2> QED
    BY <1>1, <1>5, <1>6, <2>1, <2>2
<1>8. PICK y \in I[e[2]] : Covers(y, z)
  <2>1. Interprets(I, pos, x)
    BY <1>1, <1>3, <1>4 DEF CoverInv, Pending
  <2>2. Passed(I, e, z)
    BY <1>2, <1>5, <2>1 DEF Interprets
  <2>3. DOMAIN mark = {}
    BY <1>1, AtTheEnd DEF NothingLeft
  <2> QED
    BY <2>2, <2>3 DEF Passed, Waiting
<1>9. Bounds(y, l)
  BY <1>4, <1>7, <1>8, CoversBounds
<1> QED
  BY <1>1, <1>2, <1>4, <1>6, <1>7, <1>8, <1>9 DEF RunSound, analysis

\* Every step keeps the bounds.
LEMMA HitNext ==
    ASSUME Blocks \subseteq Tags, HitInv, [Next]_vars
    PROVE  HitInv'
<1>1. PICK I : CoverInv(I) /\ RunSound(I)
  BY DEF HitInv
<1>2. ScheduleInv /\ ValueInv /\ ScheduleInv' /\ ValueInv'
  BY ScheduleNext, ValueNext DEF HitInv
<1>3. PICK J : CoverInv(J)' /\ (phase = "run" => J = I)
  BY <1>1, <1>2, CoverNext
<1>4. RunSound(J)'
  <2>1. CASE Run
    <3>1. RunSound(I)' /\ J = I
      BY <1>1, <1>2, <1>3, <2>1, RunStep DEF Run
    <3> QED
      BY <3>1
  <2>2. CASE Call \/ Return
    <3>1. phase = "run" /\ pos \in prog.blocks /\ returns = <<>>
      BY <1>1, <2>2 DEF Call, Return, RunSound
    <3>2. AllCalls(pos) = {}
      BY <1>2, <3>1 DEF ScheduleInv, Structured, OneGraph, AllCalls, Calls
    <3> QED
      BY <2>2, <3>1, <3>2 DEF Call, Return
  <2>3. CASE StartRun
    <3>1. /\ phase = "done" /\ phase' = "run" /\ UNCHANGED <<prog, code, mainEntry, pos, returns, line>>
      BY <2>3 DEF StartRun
    <3>2. ~ mainEntry
      BY <1>2, <3>1 DEF ScheduleInv, InTurn
    <3>3. MustEntry \in J[prog.main]
      BY <1>3, <3>1, <3>2 DEF CoverInv
    <3>4. Bounds(MustEntry, line)
      BY DEF Bounds, MustEntry
    <3> QED
      BY <1>1, <3>1, <3>3, <3>4 DEF RunSound
  <2>4. CASE Analyse
    <3>1. /\ phase # "run" /\ phase' # "run" /\ UNCHANGED <<prog, code>>
          /\ UNCHANGED runvars
      <4>1. Solve /\ UNCHANGED runvars
        BY <2>4 DEF Analyse
      <4> QED
        BY <4>1 DEF Solve, Pop, EndTurn, Turn, MainInput, CalledInput, ReturnedInput, HeaderInput,
               BlockInput, LeaveOutput, ExitOutput, CallOutput, BackOutput, BodyOutput, Finish
    <3> QED
      BY <1>1, <3>1 DEF RunSound, runvars
  <2>5. CASE UNCHANGED vars
    <3>1. UNCHANGED <<prog, code, phase, pos, returns, line>>
      BY <2>5 DEF vars, analysis, runvars
    <3>2. phase = "run" => J = I
      BY <1>3
    <3> QED
      BY <1>1, <3>1, <3>2 DEF RunSound
  <2> QED
    BY <2>1, <2>2, <2>3, <2>4, <2>5 DEF Next
<1> QED
  BY <1>2, <1>3, <1>4 DEF HitInv

\* The bounds hold at the beginning.
LEMMA HitInit ==
    ASSUME \A p \in Programs : Structured(p), \A p \in Programs : Codes(p) \subseteq OnePerBlock,
           Before \subseteq Lines, Init
    PROVE  HitInv
<1>1. ScheduleInv /\ ValueInv
  <2>1. \A p \in Programs : Codes(p) \subseteq ListsOfBlocks
    BY DEF OnePerBlock
  <2> QED
    BY <2>1, ScheduleInit, ValueInit
<1>2. /\ prog \in Programs /\ code \in Codes(prog) /\ phase = "turn" /\ mainEntry = TRUE
      /\ first = BasicBlocks /\ results = [b \in BasicBlocks |-> AcsBottom]
      /\ pos = prog.main /\ returns = <<>> /\ line \in Before
  BY DEF Init, HaiInit
<1>3. PICK I : I = [b \in prog.blocks |-> {}]
  OBVIOUS
<1>4. Going = {} /\ prog.main \in prog.blocks /\ prog.blocks \subseteq BasicBlocks
  BY <1>1, <1>2 DEF ScheduleInv, Structured, OneGraph, LoopsOK, Going, Headers
<1>5. CoverInv(I)
  BY <1>2, <1>3, <1>4 DEF CoverInv
<1>6. RunSound(I)
  BY <1>2, <1>4 DEF RunSound
<1> QED
  BY <1>1, <1>5, <1>6 DEF HitInv

\* An access that CAT2Builder says to be ALWAYS_HIT hits, on every execution
\* and whatever the set held before the program.
THEOREM HitsAreSound ==
    ASSUME \A p \in Programs : Structured(p), \A p \in Programs : Codes(p) \subseteq OnePerBlock,
           Before \subseteq Lines, Blocks \subseteq Tags
    PROVE  Spec => []HitSound
<1>1. Init => HitInv
  BY HitInit
<1>2. HitInv /\ [Next]_vars => HitInv'
  BY HitNext
<1>3. HitInv => HitSound
  <2> SUFFICES ASSUME HitInv, phase = "run", code[pos] # <<>>,
                      NEW t, t = FirstOf(code, pos), results[pos].must[t] # Absent
               PROVE  Holds(line, t)
    BY DEF HitSound, Fetched, AlwaysHit, Must
  <2>1. PICK I : CoverInv(I) /\ RunSound(I)
    BY DEF HitInv
  <2>2. PICK x \in I[pos] : Bounds(x, line)
    BY <2>1 DEF RunSound
  <2>3. pos \in prog.blocks /\ pos \in BasicBlocks /\ x \in MustDomain
    <3>1. pos \in prog.blocks /\ I \in [prog.blocks -> SUBSET MustDomain]
      BY <2>1 DEF RunSound, CoverInv
    <3> QED
      BY <3>1 DEF HitInv, ScheduleInv, Structured, OneGraph
  <2>4. t \in Blocks
    <3>1. code[pos] \in Seq(Blocks)
      BY <2>3 DEF HitInv, ValueInv, ListsOfBlocks
    <3>2. Len(code[pos]) \in Nat \ {0}
      BY <3>1, EmptySeq
    <3>3. 1 \in 1 .. Len(code[pos])
      BY <3>2
    <3> QED
      BY <3>1, <3>3, ElementOfSeq DEF FirstOf
  <2>5. Covers(results[pos].must, x)
    BY <2>1, <2>2, <2>3 DEF CoverInv, Pending, Interprets
  <2>6. x[t] # Absent /\ x[t] \in Ways
    <3>1. x[t] # Absent
      BY <2>4, <2>5 DEF Covers
    <3> QED
      BY <2>3, <2>4, <3>1, AAssumption DEF MustDomain, Absent, Ways
  <2>7. Within(line, t, x[t])
    BY <2>2, <2>4, <2>6 DEF Bounds
  <2> QED
    BY <2>6, <2>7, AAssumption DEF Within, Holds, Ways
<1> QED
  BY <1>1, <1>2, <1>3, PTL DEF Spec

-----------------------------------------------------------------------------
(* A state seen at one of its levels, whose MUST some line agrees with.    *)
Bounded(m) == \E l \in Lines : Bounds(m, l)
Views == [must : {m \in MustDomain : Bounded(m)}, item : Item]

View(x, n) == [must |-> x.must, item |-> x.pers.data[n]]
ViewCovers(w, v) == Covers(w.must, v.must) /\ ItemCovers(w.item, v.item)

ViewUpdate(c, b, v) ==
    IF c[b] = <<>> THEN v
    ELSE [must |-> MustInject(v.must, LastOf(c, b)),
          item |-> ItemInject(v.item, v.must, LastOf(c, b))]

\* To cover is an order of the views.
LEMMA ViewFacts ==
    /\ \A x : Proper(x) /\ Bounded(x.must) => \A n \in 1 .. Depth(x) : View(x, n) \in Views
    /\ \A v \in Views : v.must \in MustDomain /\ v.item \in Item /\ Bounded(v.must)
    /\ \A v \in Views : ViewCovers(v, v)
    /\ \A u, v, w \in Views : ViewCovers(w, v) /\ ViewCovers(v, u) => ViewCovers(w, u)
<1>1. ASSUME NEW x, Proper(x), Bounded(x.must), NEW n \in 1 .. Depth(x)
      PROVE  View(x, n) \in Views
  BY <1>1, LevelItems, ProperDepth DEF View, Views
<1>2. \A v \in Views : v.must \in MustDomain /\ v.item \in Item /\ Bounded(v.must)
  BY DEF Views
<1>3. \A v \in Views : ViewCovers(v, v)
  BY <1>2, CoversFacts, ItemCoversFacts DEF ViewCovers
<1>4. \A u, v, w \in Views : ViewCovers(w, v) /\ ViewCovers(v, u) => ViewCovers(w, u)
  BY <1>2, CoversFacts, ItemCoversFacts DEF ViewCovers
<1> QED
  BY <1>1, <1>2, <1>3, <1>4

\* The l-block that is injected is one of the set.
LEMMA LastIsBlock ==
    ASSUME NEW c \in ListsOfBlocks, NEW b \in BasicBlocks, c[b] # <<>>
    PROVE  LastOf(c, b) \in Blocks
<1>1. c[b] \in Seq(Blocks)
  BY DEF ListsOfBlocks
<1> QED
  BY <1>1 DEF LastOf

\* The update of a view is a view, and keeps what covers it.
LEMMA ViewUpdateFacts ==
    ASSUME Blocks \subseteq Tags, NEW c \in ListsOfBlocks, NEW b \in BasicBlocks, NEW v \in Views
    PROVE  /\ ViewUpdate(c, b, v) \in Views
           /\ \A w \in Views : ViewCovers(w, v) => ViewCovers(ViewUpdate(c, b, w), ViewUpdate(c, b, v))
<1>1. CASE c[b] = <<>>
  BY <1>1 DEF ViewUpdate
<1>2. CASE c[b] # <<>>
  <2>1. PICK id : id = LastOf(c, b)
    OBVIOUS
  <2>2. id \in Blocks /\ id \in Tags
    BY <1>2, <2>1, LastIsBlock
  <2>3. \A w : ViewUpdate(c, b, w) = [must |-> MustInject(w.must, id),
                                      item |-> ItemInject(w.item, w.must, id)]
    BY <1>2, <2>1 DEF ViewUpdate
  <2>4. ViewUpdate(c, b, v) \in Views
    <3>1. v.must \in MustDomain /\ v.item \in Item /\ Bounded(v.must)
      BY ViewFacts
    <3>2. PICK l \in Lines : Bounds(v.must, l)
      BY <3>1 DEF Bounded
    <3>3. LRUAccess(id, l) \in Lines
      BY <2>2, AccessFront
    <3>4. Bounds(MustInject(v.must, id), LRUAccess(id, l))
      BY <2>2, <3>1, <3>2, InjectBounds
    <3>5. MustInject(v.must, id) \in MustDomain /\ ItemInject(v.item, v.must, id) \in Item
      BY <2>2, <3>1, MustTypes, ItemTypes
    <3> QED
      BY <2>3, <3>3, <3>4, <3>5 DEF Views, Bounded
  <2>5. ASSUME NEW w \in Views, ViewCovers(w, v)
        PROVE  ViewCovers(ViewUpdate(c, b, w), ViewUpdate(c, b, v))
    <3>1. /\ v.must \in MustDomain /\ v.item \in Item /\ w.must \in MustDomain /\ w.item \in Item
          /\ Covers(w.must, v.must) /\ ItemCovers(w.item, v.item)
      BY <2>5, ViewFacts DEF ViewCovers
    <3>2. /\ Covers(MustInject(w.must, id), MustInject(v.must, id))
          /\ ItemCovers(ItemInject(w.item, w.must, id), ItemInject(v.item, v.must, id))
      BY <2>2, <3>1, InjectMonotonic
    <3> QED
      BY <2>3, <3>2 DEF ViewCovers
  <2> QED
    BY <2>4, <2>5
<1> QED
  BY <1>1, <1>2

\* What the operations of the domain do to one level.
LEMMA ViewParts ==
    ASSUME NEW x, Proper(x), NEW n \in 1 .. Depth(x)
    PROVE  /\ View(AcsEnter(x), n) = View(x, n)
           /\ n < Depth(x) => View(AcsLeave(x), n) = View(x, n)
           /\ \A c \in ListsOfBlocks, b \in BasicBlocks :
                 View(AcsUpdate(c, b, x), n) = ViewUpdate(c, b, View(x, n))
<1>1. /\ x.pers \in PersDomain /\ x.pers.data \in Seq(Item) /\ Depth(x) = Len(x.pers.data)
      /\ Depth(x) \in Nat
  BY ProperDepth DEF PersDomain, Depth
<1>2. AcsEnter(x).must = x.must /\ AcsLeave(x).must = x.must
  BY MustParts
<1>3. View(AcsEnter(x), n) = View(x, n)
  <2>1. PersEnter(x.pers) \in PersDomain
    BY <1>1, PersEnterLeaveTypes
  <2>2. AcsEnter(x).pers = PersEnter(x.pers)
    BY <2>1, OtherLevels, Zenon DEF AcsEnter
  <2>3. AcsEnter(x).pers.data[n] = x.pers.data[n]
    BY <1>1, <2>2 DEF PersEnter
  <2> QED
    BY <1>2, <2>3 DEF View
<1>4. ASSUME n < Depth(x)
      PROVE  View(AcsLeave(x), n) = View(x, n)
  <2>0. Len(x.pers.data) > 0
    BY <1>1, <1>4
  <2>1. PersLeave(x.pers) \in PersDomain
    BY <1>1, <2>0, PersEnterLeaveTypes
  <2>2. AcsLeave(x).pers = PersLeave(x.pers)
    BY <2>1, OtherLevels, Zenon DEF AcsLeave
  <2>3. AcsLeave(x).pers.data[n] = x.pers.data[n]
    BY <1>1, <1>4, <2>2 DEF PersLeave
  <2> QED
    BY <1>2, <2>3 DEF View
<1>5. ASSUME NEW c \in ListsOfBlocks, NEW b \in BasicBlocks
      PROVE  View(AcsUpdate(c, b, x), n) = ViewUpdate(c, b, View(x, n))
  <2>1. CASE c[b] = <<>>
    BY <2>1 DEF AcsUpdate, ViewUpdate
  <2>2. CASE c[b] # <<>>
    <3>1. AcsUpdate(c, b, x) = [must   |-> MustInject(x.must, LastOf(c, b)),
                                pers   |-> PersInject(x.pers, x.must, LastOf(c, b)),
                                bottom |-> FALSE]
      BY <2>2 DEF AcsUpdate, Proper
    <3>2. PersInject(x.pers, x.must, LastOf(c, b)).data[n] = ItemInject(x.pers.data[n], x.must, LastOf(c, b))
      BY <1>1 DEF PersInject
    <3> QED
      BY <2>2, <3>1, <3>2 DEF ViewUpdate, View
  <2> QED
    BY <2>1, <2>2
<1> QED
  BY <1>3, <1>4, <1>5

\* Joins of states with as many levels.
LEMMA ViewLub ==
    ASSUME NEW x, NEW y, Proper(x), Proper(y), Depth(x) = Depth(y),
           Bounded(x.must) \/ Bounded(y.must), NEW z, z = AcsLub(x, y)
    PROVE  /\ Proper(z) /\ Depth(z) = Depth(x) /\ Bounded(z.must)
           /\ \A n \in 1 .. Depth(x) : /\ ViewCovers(View(z, n), View(x, n))
                                       /\ ViewCovers(View(z, n), View(y, n))
<1>1. Proper(z) /\ Depth(z) = Depth(x) /\ LevelsCover(z, x) /\ LevelsCover(z, y)
  BY LubLevels
<1>2. Covers(z.must, x.must) /\ Covers(z.must, y.must)
  BY LubCovers
<1>3. Bounded(z.must)
  BY <1>1, <1>2, ProperDepth, CoversBounds DEF Bounded
<1> QED
  BY <1>1, <1>2, <1>3 DEF ViewCovers, View, LevelsCover

-----------------------------------------------------------------------------
(* Where edges leave one loop at most, the levels are known exactly.       *)
Rank(h) == Above(prog, h, {})

\* The depth of the state of an edge, exactly.
LEMMA MarkExact ==
    ASSUME Structured(prog), OneLevel(prog), ValueInv, NEW e \in DOMAIN mark
    PROVE  Depth(mark[e]) + Weight(prog, InUse, e) = Above(prog, e[1], {})
<1>1. Depth(mark[e]) \in Nat /\ Above(prog, e[1], {}) \in Nat /\ Weight(prog, InUse, e) \in {0, 1}
  BY ProperDepth, AboveType DEF ValueInv, Weight
<1>2. Depth(mark[e]) + Weight(prog, InUse, e) <= Above(prog, e[1], {})
  BY DEF ValueInv, Flat, EdgeFlat
<1>3. Depth(mark[e]) + Weight(prog, InUse, e) >= 0 + Above(prog, e[1], {})
  BY DEF ValueInv, Deep, EdgeDeep
<1> QED
  BY <1>1, <1>2, <1>3

\* The depth of the state of the turn, exactly.
LEMMA InExact ==
    ASSUME Structured(prog), OneLevel(prog), ValueInv, phase = "output"
    PROVE  Proper(in) /\ Depth(in) = Above(prog, current, {})
<1>1. Proper(in) /\ Depth(in) \in Nat /\ Above(prog, current, {}) \in Nat
  BY ProperDepth, AboveType DEF ValueInv
<1>2. Depth(in) <= Above(prog, current, {}) /\ Depth(in) >= 0 + Above(prog, current, {})
  BY DEF ValueInv, Flat, BlockFlat, Deep, BlockDeep
<1> QED
  BY <1>1, <1>2

\* The states of the edges to a block that cross as many loops are as deep.
LEMMA EdgesExact ==
    ASSUME Structured(prog), OneLevel(prog), ValueInv, phase = "turn",
           NEW b \in prog.blocks, NEW S, S \subseteq prog.ins[b], S \subseteq DOMAIN mark,
           NEW k, Crossing(S, b, k), NEW e \in S, Leaving(prog, e) \cap Going = {}
    PROVE  Proper(mark[e]) /\ Depth(mark[e]) + k = Above(prog, b, {})
<1>1. e \in Edges(prog) /\ e[2] = b /\ Proper(mark[e]) /\ Depth(mark[e]) \in Nat
  BY BlockFacts, ProperDepth DEF ValueInv
<1>2. PICK d : d = Depth(mark[e])
  OBVIOUS
<1>3. InUse = Going
  BY DEF InUse
<1>4. EdgeDeep(prog, Going, e, d, {}, 0) /\ EdgeFlat(prog, Going, e, d)
  BY <1>2, <1>3 DEF ValueInv, Deep, Flat
<1>5. /\ Back(prog, e) \/ b \notin Headers => d >= 0 + Above(prog, b, {})
      /\ ~ Back(prog, e) /\ b \in Headers => d + 1 >= 0 + Above(prog, b, {})
  BY <1>1, <1>2, <1>4, ArriveDeep DEF Headers
<1>6. /\ Back(prog, e) \/ b \notin Headers => BlockFlat(prog, b, d)
      /\ ~ Back(prog, e) /\ b \in Headers => BlockFlat(prog, b, d + 1)
  BY <1>1, <1>2, <1>4, ArriveFlat DEF Headers
<1>7. Above(prog, b, {}) \in Nat
  BY AboveType
<1>8. CASE k = 0
  BY <1>1, <1>2, <1>5, <1>6, <1>7, <1>8 DEF Crossing, BlockFlat
<1>9. CASE k = 1
  BY <1>1, <1>2, <1>5, <1>6, <1>7, <1>9 DEF Crossing, BlockFlat
<1> QED
  BY <1>8, <1>9 DEF Crossing

\* Their union covers each of them at each level.
LEMMA UnionExact ==
    ASSUME Structured(prog), OneLevel(prog), ValueInv, phase = "turn",
           NEW b \in prog.blocks, NEW S, S \subseteq prog.ins[b], S \subseteq DOMAIN mark, S # {},
           \A e \in S : Leaving(prog, e) \cap Going = {} /\ Bounded(mark[e].must),
           NEW k, Crossing(S, b, k), NEW x, x = Union(S)
    PROVE  /\ Proper(x) /\ Depth(x) + k = Above(prog, b, {}) /\ Bounded(x.must)
           /\ \A e \in S : /\ Depth(mark[e]) = Depth(x)
                           /\ \A n \in 1 .. Depth(x) : ViewCovers(View(x, n), View(mark[e], n))
<1>1. \A e \in S : e \in Edges(prog) /\ Proper(mark[e]) /\ Depth(mark[e]) \in Nat
  BY BlockFacts, ProperDepth DEF ValueInv
<1>2. UnionOver(S, x)
  BY <1>1, UnionOfEdges
<1>3. \A e \in S : Depth(mark[e]) + k = Above(prog, b, {})
  BY EdgesExact
<1>4. k \in {0, 1} /\ Above(prog, b, {}) \in Nat
  BY AboveType DEF Crossing
<1>5. \A e, f \in S : Depth(mark[e]) = Depth(mark[f])
  BY <1>1, <1>3, <1>4
<1>6. Proper(x) /\ \A e \in S : Depth(mark[e]) = Depth(x)
  BY <1>2, <1>5 DEF UnionOver
<1>7. Depth(x) + k = Above(prog, b, {})
  BY <1>3, <1>6
<1>8. \A e \in S : LevelsCover(x, mark[e]) /\ Covers(x.must, mark[e].must)
  BY <1>2, <1>5 DEF UnionOver
<1>9. Bounded(x.must)
  BY <1>1, <1>6, <1>8, ProperDepth, CoversBounds DEF Bounded
<1> QED
  BY <1>6, <1>7, <1>8, <1>9 DEF ViewCovers, View, LevelsCover

(* What is kept about a loop has the levels of its header.                 *)
ExactHeader(h, s) ==
    /\ Depth(s.header) = Rank(h) /\ Bounded(s.header.must)
    /\ unrolling /\ s.iter = 2 => Depth(s.second) = Rank(h) /\ Bounded(s.second.must)

Exact ==
    /\ \A e \in DOMAIN mark : Bounded(mark[e].must)
    /\ phase = "output" => Bounded(in.must)
    /\ \A h \in Going : ExactHeader(h, fpstate[h])
    /\ \A b \in prog.blocks : \/ results[b] = AcsBottom
                              \/ /\ Proper(results[b]) /\ Bounded(results[b].must)
                                 /\ Depth(results[b]) = Above(prog, b, {})

\* The next state of a header has its levels, and covers at each of them the
\* states that it takes.
LEMMA HeaderExact ==
    ASSUME Structured(prog), OneLevel(prog), ValueInv, Exact, phase = "turn",
           NEW D, NEW M, M = DOMAIN mark, NEW G, G = Going,
           Control(prog, D, G, M, fixed, {}), NEW h \in ToDo(prog, D, G, M, fixed),
           h \in Headers, NEW s, s = StateOf(h),
           NEW x, x = IF unrolling THEN Unrolled(h, s) ELSE Iteration(h)
    PROVE  /\ Proper(x) /\ Depth(x) = Rank(h) /\ Bounded(x.must)
           /\ \A e \in M : e[2] = h /\ (h \notin G \/ Back(prog, e)) =>
                 \A n \in 1 .. Depth(mark[e]) : ViewCovers(View(x, n), View(mark[e], n))
<1>1. /\ h \in prog.blocks /\ Entering(h) # {} /\ Entering(h) \subseteq M
      /\ Returning(h) # {} /\ (h \in G => Returning(h) \subseteq M)
      /\ \A e \in prog.ins[h] : e \in Edges(prog) /\ e[2] = h /\ Leaving(prog, e) \cap Going = {}
      /\ Crossing(Returning(h), h, 0) /\ Crossing(Entering(h), h, 1)
  <2>1. h # prog.main
    BY BlockFacts, ReadyStates DEF Structured, OneGraph, Headers
  <2> QED
    BY <2>1, ReadyStates
<1>2. Entering(h) \subseteq prog.ins[h] /\ Returning(h) \subseteq prog.ins[h]
  BY DEF Entering, Returning
<1>3. PICK u : u = Union(Entering(h))
  OBVIOUS
<1>4. PICK y : y = Union(Returning(h))
  OBVIOUS
<1>5. PICK w : w = AcsEnter(u)
  OBVIOUS
<1>6. \A e \in M : Bounded(mark[e].must)
  BY DEF Exact
<1>7. /\ Proper(u) /\ Depth(u) + 1 = Rank(h) /\ Bounded(u.must)
      /\ \A e \in Entering(h) : /\ Depth(mark[e]) = Depth(u)
                                /\ \A n \in 1 .. Depth(u) : ViewCovers(View(u, n), View(mark[e], n))
  <2>1. \A e \in Entering(h) : Leaving(prog, e) \cap Going = {} /\ Bounded(mark[e].must)
    BY <1>1, <1>2, <1>6
  <2> QED
    BY <1>1, <1>2, <1>3, <2>1, UnionExact DEF Rank
<1>8. /\ Proper(w) /\ Depth(w) = Rank(h) /\ Bounded(w.must)
      /\ \A e \in Entering(h) : /\ Depth(mark[e]) = Depth(u)
                                /\ \A n \in 1 .. Depth(u) : ViewCovers(View(w, n), View(mark[e], n))
  <2>1. Proper(w) /\ Depth(w) = Depth(u) + 1 /\ w.must = u.must
    BY <1>5, <1>7, ProperEnter, MustParts
  <2>2. \A n \in 1 .. Depth(u) : View(w, n) = View(u, n)
    BY <1>5, <1>7, ViewParts
  <2> QED
    BY <1>7, <2>1, <2>2
<1>9. Rank(h) \in Nat /\ Depth(u) \in Nat /\ Depth(u) < Rank(h)
  <2>1. Rank(h) \in Nat /\ Depth(u) \in Nat
    BY <1>7, AboveType, ProperDepth DEF Rank
  <2> QED
    BY <1>7, <2>1
<1>10. h \in G => /\ Proper(y) /\ Depth(y) = Rank(h) /\ Bounded(y.must)
                  /\ \A e \in Returning(h) :
                        /\ Depth(mark[e]) = Depth(y)
                        /\ \A n \in 1 .. Depth(y) : ViewCovers(View(y, n), View(mark[e], n))
  <2> SUFFICES ASSUME h \in G
               PROVE  /\ Proper(y) /\ Depth(y) = Rank(h) /\ Bounded(y.must)
                      /\ \A e \in Returning(h) :
                            /\ Depth(mark[e]) = Depth(y)
                            /\ \A n \in 1 .. Depth(y) : ViewCovers(View(y, n), View(mark[e], n))
    OBVIOUS
  <2>1. \A e \in Returning(h) : Leaving(prog, e) \cap Going = {} /\ Bounded(mark[e].must)
    BY <1>1, <1>2, <1>6
  <2>2. /\ Proper(y) /\ Depth(y) + 0 = Above(prog, h, {}) /\ Bounded(y.must)
        /\ \A e \in Returning(h) :
              /\ Depth(mark[e]) = Depth(y)
              /\ \A n \in 1 .. Depth(y) : ViewCovers(View(y, n), View(mark[e], n))
    BY <1>1, <1>2, <1>4, <2>1, UnionExact
  <2>3. Depth(y) \in Nat
    BY <2>2, ProperDepth
  <2> QED
    BY <2>2, <2>3 DEF Rank
<1>11. \A e \in M : e[2] = h => e \in Entering(h) \cup Returning(h)
                              /\ (e \in Returning(h) <=> Back(prog, e))
  <2>1. \A e \in M : e \in Edges(prog)
    BY DEF Control
  <2> QED
    BY <2>1, EdgeFacts DEF Entering, Returning, Dominated, Back
<1>12. CASE h \notin G
  <2>1. h \in first
    BY <1>12 DEF Going
  <2>2. x = w
    BY <1>3, <1>5, <2>1 DEF StateOf, Unrolled, Iteration
  <2>3. ASSUME NEW e \in M, e[2] = h
        PROVE  e \in Entering(h)
    <3>1. e \in prog.ins[h] /\ (Back(prog, e) => e \notin M)
      BY <1>1, <1>2, <1>11, <1>12, <2>3, ReadyEdges
    <3> QED
      BY <1>11, <2>3, <3>1
  <2> QED
    BY <1>8, <2>2, <2>3
<1>13. CASE h \in G
  <2>1. s = fpstate[h] /\ HeaderState(h, s) /\ ExactHeader(h, s) /\ h \notin first
    BY <1>13 DEF StateOf, Going, ValueInv, Exact
  <2>2. ASSUME NEW e \in M, e[2] = h /\ (h \notin G \/ Back(prog, e))
        PROVE  e \in Returning(h)
    BY <1>11, <1>13, <2>2
  <2>3. ASSUME NEW z, NEW r, z = AcsLub(r, y) \/ z = AcsLub(y, r), Proper(r), Depth(r) = Rank(h)
        PROVE  /\ Proper(z) /\ Depth(z) = Rank(h) /\ Bounded(z.must)
               /\ \A e \in Returning(h) : \A n \in 1 .. Depth(mark[e]) :
                     ViewCovers(View(z, n), View(mark[e], n))
    <3>1. /\ Proper(z) /\ Depth(z) = Rank(h) /\ Bounded(z.must)
          /\ \A n \in 1 .. Rank(h) : ViewCovers(View(z, n), View(y, n))
      BY <1>10, <1>13, <2>3, ViewLub
    <3>2. ASSUME NEW e \in Returning(h), NEW n \in 1 .. Depth(mark[e])
          PROVE  ViewCovers(View(z, n), View(mark[e], n))
      <4>1. Depth(mark[e]) = Rank(h) /\ Proper(mark[e]) /\ Bounded(mark[e].must)
        BY <1>1, <1>6, <1>10, <1>13 DEF ValueInv
      <4>2. n \in 1 .. Rank(h)
        BY <4>1
      <4>3. View(z, n) \in Views /\ View(y, n) \in Views /\ View(mark[e], n) \in Views
        BY <1>10, <1>13, <3>1, <4>1, <4>2, ViewFacts
      <4>4. ViewCovers(View(z, n), View(y, n)) /\ ViewCovers(View(y, n), View(mark[e], n))
        BY <1>10, <1>13, <3>1, <4>2
      <4> QED
        BY <4>3, <4>4, ViewFacts
    <3> QED
      BY <3>1, <3>2
  <2>4. CASE ~ unrolling
    <3>1. x = AcsLub(w, y)
      BY <1>3, <1>4, <1>5, <2>1, <2>4 DEF Iteration
    <3> QED
      BY <1>8, <2>2, <2>3, <3>1
  <2>5. CASE unrolling /\ s.iter = 1
    <3>1. x = y
      BY <1>4, <2>5 DEF Unrolled
    <3> QED
      BY <1>10, <1>13, <2>2, <3>1
  <2>6. CASE unrolling /\ s.iter = 2
    <3>1. x = AcsLub(y, s.second) /\ Proper(s.second) /\ Depth(s.second) = Rank(h)
      BY <1>4, <2>1, <2>6 DEF Unrolled, HeaderState, ExactHeader
    <3> QED
      BY <2>2, <2>3, <3>1
  <2> QED
    BY <2>1, <2>4, <2>5, <2>6 DEF HeaderState
<1> QED
  BY <1>12, <1>13

-----------------------------------------------------------------------------
(* What the steps of the engine do, as the proofs about levels use it.     *)
BlockTaken(D, b, x) ==
    /\ Control(prog, D, Going, DOMAIN mark, fixed, {})
    /\ b \in ToDo(prog, D, Going, DOMAIN mark, fixed) /\ b \in prog.blocks /\ b \notin Headers
    /\ prog.ins[b] \subseteq DOMAIN mark /\ prog.ins[b] # {} /\ Crossing(prog.ins[b], b, 0)
    /\ \A e \in prog.ins[b] : e[2] = b /\ Leaving(prog, e) \cap Going = {}
    /\ x = Union(prog.ins[b])
    /\ phase = "turn" /\ phase' = "output" /\ current' = b /\ in' = x /\ ~ fixpoint'
    /\ ~ mainEntry /\ ~ mainEntry'
    /\ DOMAIN mark' = DOMAIN mark \ prog.ins[b]
    /\ \A e \in DOMAIN mark' : mark'[e] = mark[e]
    /\ UNCHANGED <<prog, code, unrolling, results, first, fpstate>>

HeaderTaken(D, h, s, x, reached) ==
    /\ Control(prog, D, Going, DOMAIN mark, fixed, {})
    /\ h \in ToDo(prog, D, Going, DOMAIN mark, fixed) /\ h \in prog.blocks /\ h \in Headers
    /\ s = StateOf(h) /\ x = (IF unrolling THEN Unrolled(h, s) ELSE Iteration(h))
    /\ reached = Stable(h, s, x) /\ reached \in BOOLEAN /\ (h \notin Going => ~ reached)
    /\ HeaderRight(h, s, x) /\ HeaderTurned(h, s, x, reached)
    /\ Going' = IF reached THEN Going \ {h} ELSE Going \cup {h}
    /\ ~ mainEntry /\ ~ mainEntry' /\ results' = results /\ DOMAIN fpstate = Going
    /\ prog.main \in D

BodyFinished(D, c, O, x) ==
    /\ Control(prog, D, Going, DOMAIN mark, fixed, {c})
    /\ c = current /\ c \in prog.blocks /\ O = OutOf(prog, c) /\ Around(prog, c) \subseteq Going
    /\ phase = "output" /\ ~ fixpoint /\ phase' = "turn"
    /\ Proper(in) /\ x = AcsUpdate(code, c, in) /\ Proper(x)
    /\ DOMAIN mark' = DOMAIN mark \cup O
    /\ \A e \in O : mark'[e] = IF e \in DOMAIN mark THEN AcsLub(mark[e], x) ELSE x
    /\ \A e \in DOMAIN mark \ O : mark'[e] = mark[e]
    /\ results'[c] = AcsLub(results[c], in)
    /\ \A b \in prog.blocks \ {c} : results'[b] = results[b]
    /\ UNCHANGED <<prog, code, unrolling, mainEntry, first, fpstate>>

LoopLeft(E) ==
    /\ phase = "output" /\ fixpoint /\ phase' = "turn"
    /\ current \in Headers \ Going /\ E = ExitsOf(prog, current) /\ E \subseteq DOMAIN mark
    /\ DOMAIN mark' = DOMAIN mark
    /\ \A e \in E : mark'[e] = AcsLeave(mark[e])
    /\ \A e \in DOMAIN mark \ E : mark'[e] = mark[e]
    /\ UNCHANGED <<prog, code, unrolling, mainEntry, first, fpstate, results>>

\* The parts of the turn of a block that is no header.
LEMMA BlockTake ==
    ASSUME Structured(prog), Kept, NEW D, NEW P, NEW X,
           Scheduled(D, P, X), InTurn(D, P, X), BlockInput
    PROVE  \E b, x : BlockTaken(D, b, x)
<1>a. PICK w : w = SubSeq(work, 1, Len(work) - 1)
  OBVIOUS
<1>b. PICK todo : todo = ToDo(prog, D, Going, DOMAIN mark, fixed)
  OBVIOUS
<1>c. PICK b : b = Top
  OBVIOUS
<1>d. PICK x : x = Union(prog.ins[b])
  OBVIOUS
<1>1. /\ P = {} /\ b \in todo /\ NextCall(b) = <<>> /\ (~ mainEntry => b \notin prog.entries)
      /\ ~ mainEntry
  <2>1. Turn /\ ~ mainEntry
    BY DEF BlockInput, Plain
  <2>2. TopOf(todo, w, P, X)
    BY <1>a, <1>b, <2>1, TopFacts, Zenon
  <2> QED
    BY <1>c, <2>1, <2>2 DEF TopOf
<1>2. PICK M : M = DOMAIN mark
  OBVIOUS
<1>3. PICK G : G = Going
  OBVIOUS
<1>4. Control(prog, D, G, M, fixed, {}) /\ b \in ToDo(prog, D, G, M, fixed)
  BY <1>b, <1>1, <1>2, <1>3 DEF Scheduled
<1>5. /\ b \notin Headers /\ b # prog.main /\ phase = "turn"
      /\ b \in prog.blocks
  <2>1. b \notin Headers /\ phase = "turn"
    BY <1>c DEF BlockInput, Turn
  <2>2. b # prog.main
    BY <1>1 DEF Structured, OneGraph
  <2> QED
    BY <2>1, <2>2, <1>4 DEF ToDo
<1>6. /\ prog.ins[b] \subseteq M /\ prog.ins[b] # {} /\ Crossing(prog.ins[b], b, 0)
      /\ \A e \in prog.ins[b] : e[2] = b /\ Leaving(prog, e) \cap Going = {}
  <2>1. /\ prog.ins[b] = Entering(b) /\ Entering(b) \subseteq DOMAIN mark /\ Entering(b) # {}
        /\ \A e \in prog.ins[b] : e[2] = b /\ Leaving(prog, e) \cap Going = {}
        /\ Crossing(prog.ins[b], b, 0)
    BY <1>2, <1>3, <1>4, <1>5, ReadyStates
  <2> QED
    BY <1>2, <2>1
<1>7. /\ phase' = "output" /\ current' = b /\ in' = x /\ ~ fixpoint'
      /\ mark' = Unmark(mark, prog.ins[b]) /\ ~ mainEntry'
      /\ UNCHANGED <<prog, code, unrolling, results, first, fpstate>>
  BY <1>c, <1>d, <1>1, <1>2, <1>6 DEF BlockInput, Pop, Marked
<1>8. /\ DOMAIN mark' = DOMAIN mark \ prog.ins[b]
      /\ \A e \in DOMAIN mark' : mark'[e] = mark[e]
  BY <1>7 DEF Unmark
<1>9. BlockTaken(D, b, x)
  BY <1>d, <1>1, <1>2, <1>3, <1>4, <1>5, <1>6, <1>7, <1>8 DEF BlockTaken
<1> QED
  BY <1>9

\* The parts of the turn of a header, with what its state covers.
LEMMA HeaderTake ==
    ASSUME Structured(prog), Kept, NEW D, NEW P, NEW X,
           Scheduled(D, P, X), InTurn(D, P, X), ValueInv, HeaderInput
    PROVE  \E h, s, x, reached : HeaderTaken(D, h, s, x, reached)
<1>a. PICK w : w = SubSeq(work, 1, Len(work) - 1)
  OBVIOUS
<1>b. PICK todo : todo = ToDo(prog, D, Going, DOMAIN mark, fixed)
  OBVIOUS
<1>c. PICK h : h = Top
  OBVIOUS
<1>d. PICK G : G = Going
  OBVIOUS
<1>e. PICK M : M = DOMAIN mark
  OBVIOUS
<1>f. PICK s : s = StateOf(h)
  OBVIOUS
<1>g. PICK x : x = IF unrolling THEN Unrolled(h, s) ELSE Iteration(h)
  OBVIOUS
<1>h. PICK reached : reached = Stable(h, s, x)
  OBVIOUS
<1>1. P = {} /\ h \in todo /\ ~ mainEntry
  <2>1. Turn /\ ~ mainEntry
    BY DEF HeaderInput, Plain
  <2>2. TopOf(todo, w, P, X)
    BY <1>a, <1>b, <2>1, TopFacts, Zenon
  <2> QED
    BY <1>c, <2>1, <2>2 DEF TopOf
<1>2. /\ Control(prog, D, G, M, fixed, {}) /\ h \in ToDo(prog, D, G, M, fixed)
      /\ h \in Headers /\ phase = "turn" /\ h \in prog.blocks
  <2>1. Control(prog, D, G, M, fixed, {}) /\ h \in ToDo(prog, D, G, M, fixed)
    BY <1>b, <1>d, <1>e, <1>1 DEF Scheduled
  <2> QED
    BY <1>c, <2>1 DEF HeaderInput, Turn, ToDo
<1>3. HeaderRight(h, s, x) /\ (h \notin G => reached = FALSE)
  <2>1. CASE h \in G
    BY <1>2, <1>d, <1>e, <1>f, <1>g, <2>1, AgainIteration
  <2>2. CASE h \notin G
    <3>1. h \in first
      BY <1>2, <1>d, <2>2 DEF Going
    <3> QED
      BY <1>2, <1>d, <1>e, <1>f, <1>g, <1>h, <2>2, <3>1, FirstIteration
  <2> QED
    BY <2>1, <2>2
<1>4. HeaderTurned(h, s, x, reached) /\ DOMAIN fpstate = G
  <2>1. HeaderOK(h)
    BY <1>3 DEF HeaderRight
  <2> QED
    BY <1>c, <1>d, <1>f, <1>g, <1>h, <2>1, HeaderTurn, Zenon DEF Kept
<1>5. reached \in BOOLEAN /\ ~ mainEntry' /\ results' = results /\ prog.main \in D
  <2>1. reached \in BOOLEAN
    BY <1>h DEF Stable
  <2> QED
    BY <1>1, <2>1 DEF HeaderInput, Pop, InTurn
<1>6. Going' = IF reached THEN G \ {h} ELSE G \cup {h}
  BY <1>2, <1>4, <1>d DEF Going, Headers, HeaderTurned
<1>7. HeaderTaken(D, h, s, x, reached)
  BY <1>d, <1>e, <1>f, <1>g, <1>h, <1>1, <1>2, <1>3, <1>4, <1>5, <1>6 DEF HeaderTaken
<1> QED
  BY <1>7

\* The parts of the end of a loop.
LEMMA LeaveFinish ==
    ASSUME Structured(prog), NEW D, NEW P, NEW X,
           Scheduled(D, P, X), InTurn(D, P, X), ValueInv', LeaveOutput
    PROVE  \E E : LoopLeft(E)
<1>b. PICK todo : todo = ToDo(prog, D, Going, DOMAIN mark, fixed)
  OBVIOUS
<1>c. PICK E : E = ExitsOf(prog, current)
  OBVIOUS
<1>d. PICK T : T = todo \ X
  OBVIOUS
<1>e. PICK new : new = ActivateExits
  OBVIOUS
<1>1. /\ phase = "output" /\ fixpoint /\ phase' = IF ExitsOK THEN "turn" ELSE "failed"
      /\ mark' = new.mark
      /\ UNCHANGED <<prog, code, unrolling, mainEntry, first, fpstate, results>>
  BY <1>e DEF LeaveOutput, LoopDone, EndTurn
<1>2. /\ X = {e[2] : e \in E} /\ E \subseteq DOMAIN mark /\ current \in Headers \ Going
  BY <1>1, <1>c DEF InTurn, Exits, Targets
<1>3. ListOf(work, prog.blocks, T)
  BY <1>b, <1>d DEF Scheduled
<1>4. ExitsActivated(E, T, new)
  <2>1. E \subseteq DOMAIN mark /\ current \in Headers
    BY <1>2
  <2>2. \A e \in E : e[2] \notin T
    BY <1>2, <1>d
  <2> QED
    BY <2>1, <2>2, <1>3, <1>c, <1>e, ActivateExitsFacts, Zenon
<1>5. /\ DOMAIN mark' = DOMAIN mark
      /\ \A e \in E : mark'[e] = AcsLeave(mark[e])
      /\ \A e \in DOMAIN mark \ E : mark'[e] = mark[e]
  BY <1>1, <1>4 DEF ExitsActivated
<1>6. phase' = "turn"
  BY <1>1 DEF ValueInv
<1>7. LoopLeft(E)
  BY <1>c, <1>1, <1>2, <1>5, <1>6 DEF LoopLeft
<1> QED
  BY <1>7

\* The parts of the end of the turn of a body.
LEMMA BodyFinish ==
    ASSUME Structured(prog), Kept, NEW D, NEW P, NEW X,
           Scheduled(D, P, X), InTurn(D, P, X), ValueInv, ValueInv', BodyOutput
    PROVE  \E c, O, x : BodyFinished(D, c, O, x)
<1>a. PICK G : G = Going
  OBVIOUS
<1>b. PICK M : M = DOMAIN mark
  OBVIOUS
<1>c. PICK O : O = OutOf(prog, current)
  OBVIOUS
<1>d. PICK T : T = ToDo(prog, D, G, M, fixed)
  OBVIOUS
<1>e. PICK x : x = AcsUpdate(code, current, in)
  OBVIOUS
<1>f. PICK new : new = AddSuccessors(mark, x)
  OBVIOUS
<1>g. PICK c : c = current
  OBVIOUS
<1>1. /\ phase = "output" /\ ~ fixpoint /\ phase' = IF AcsLive(in) THEN "turn" ELSE "failed"
      /\ mark' = new.mark /\ results' = [results EXCEPT ![c] = AcsLub(@, in)]
      /\ UNCHANGED <<prog, code, unrolling, mainEntry, first, fpstate>>
  BY <1>e, <1>f, <1>g DEF BodyOutput, BodyDone, EndTurn
<1>2. P = {current} /\ X = {} /\ Around(prog, current) \subseteq Going
  BY <1>1 DEF InTurn
<1>3. Control(prog, D, G, M, fixed, {current}) /\ current \in prog.blocks
  BY <1>2, <1>a, <1>b DEF Scheduled, Control
<1>4. SuccessorsAdded(O, T, mark, x, new)
  <2>1. ListOf(work, prog.blocks, T)
    <3>1. T = T \ {}
      OBVIOUS
    <3> QED
      BY <1>2, <1>a, <1>b, <1>d, <3>1 DEF Scheduled
  <2>2. Marks(prog, O, D, G, M, fixed, M \cup O)
    BY <1>3, <1>c, OutputControl, Zenon
  <2>3. \A e \in O : e[2] \notin T
    BY <2>2, <1>d, Zenon DEF Marks
  <2>4. current \in prog.blocks
    BY <1>3
  <2> QED
    BY <2>1, <2>3, <2>4, <1>c, <1>f, AddSuccessorsFacts, Zenon
<1>5. /\ DOMAIN mark' = DOMAIN mark \cup O
      /\ \A e \in O : mark'[e] = AcsLub(IF e \in DOMAIN mark THEN mark[e] ELSE AcsBottom, x)
      /\ \A e \in DOMAIN mark \ O : mark'[e] = mark[e]
  BY <1>1, <1>4 DEF SuccessorsAdded
<1>6. Proper(in) /\ phase' = "turn"
  BY <1>1 DEF ValueInv
<1>7. Proper(x)
  BY <1>3, <1>6, <1>e, ProperUpdate DEF Structured, OneGraph, ValueInv
<1>8. \A e \in O : mark'[e] = IF e \in DOMAIN mark THEN AcsLub(mark[e], x) ELSE x
  BY <1>5, <1>7, BottomLub
<1>9. /\ results'[c] = AcsLub(results[c], in)
      /\ \A b \in prog.blocks \ {c} : results'[b] = results[b]
  BY <1>1, <1>3, <1>g DEF Kept, Structured, OneGraph
<1>10. BodyFinished(D, c, O, x)
  BY <1>a, <1>b, <1>c, <1>e, <1>g, <1>1, <1>2, <1>3, <1>5, <1>6, <1>7, <1>8, <1>9 DEF BodyFinished
<1> QED
  BY <1>10

\* The update agrees with some line if the state does.
LEMMA UpdateBounded ==
    ASSUME Blocks \subseteq Tags, NEW c \in ListsOfBlocks, NEW b \in BasicBlocks,
           NEW m \in MustDomain, Bounded(m)
    PROVE  Bounded(MustUpdate(c, b, m))
<1>1. PICK v : v = [must |-> m, item |-> ItemEmpty]
  OBVIOUS
<1>2. v \in Views /\ v.must = m
  BY <1>1, ItemTypes DEF Views
<1>3. ViewUpdate(c, b, v) \in Views
  BY <1>2, ViewUpdateFacts
<1>4. ViewUpdate(c, b, v).must = MustUpdate(c, b, m)
  BY <1>2 DEF ViewUpdate, MustUpdate
<1> QED
  BY <1>3, <1>4, ViewFacts

\* So does the state of the entry, and of a loop entered.
LEMMA EntryBounded ==
    ASSUME Blocks \subseteq Tags
    PROVE  Bounded(MustEntry)
<1>1. 0 \in Tags
  BY SizeAssumption DEF Blocks
<1>2. [i \in Ways |-> 0] \in Lines
  BY <1>1 DEF Lines
<1> QED
  BY <1>2 DEF Bounded, Bounds, MustEntry

\* The steps keep the levels exact.
LEMMA ExactMain ==
    ASSUME Blocks \subseteq Tags, NEW D, NEW P, NEW X, InTurn(D, P, X), Exact, MainInput
    PROVE  Exact'
<1>1. /\ in' = AcsEntry /\ mark' = mark /\ first' = first /\ fpstate' = fpstate
      /\ UNCHANGED <<prog, unrolling, results>>
  BY DEF MainInput, Pop
<1>2. Going' = Going
  BY <1>1 DEF Going, Headers
<1>3. Bounded(in'.must)
  BY <1>1, EntryBounded DEF AcsEntry
<1> QED
  BY <1>1, <1>2, <1>3, Zenon DEF Exact, ExactHeader, Rank

\* The turn of a block that is no header keeps the depths exact.
LEMMA ExactBlock ==
    ASSUME Structured(prog), OneLevel(prog), ValueInv, Exact, NEW D, NEW b, NEW x,
           BlockTaken(D, b, x)
    PROVE  /\ Exact' /\ Proper(x) /\ Depth(x) = Above(prog, b, {}) /\ Bounded(x.must)
           /\ \A e \in prog.ins[b] : \A n \in 1 .. Depth(mark[e]) : ViewCovers(View(x, n), View(mark[e], n))
<1>1. /\ Proper(x) /\ Depth(x) + 0 = Above(prog, b, {}) /\ Bounded(x.must)
      /\ \A e \in prog.ins[b] : /\ Depth(mark[e]) = Depth(x)
                                /\ \A n \in 1 .. Depth(x) : ViewCovers(View(x, n), View(mark[e], n))
  <2>1. \A e \in prog.ins[b] : Leaving(prog, e) \cap Going = {} /\ Bounded(mark[e].must)
    BY DEF BlockTaken, Exact
  <2> QED
    BY <2>1, UnionExact DEF BlockTaken
<1>2. Depth(x) \in Nat
  BY <1>1, ProperDepth
<1>3. /\ in' = x /\ DOMAIN mark' \subseteq DOMAIN mark /\ first' = first /\ fpstate' = fpstate
      /\ prog' = prog /\ unrolling' = unrolling /\ results' = results
      /\ \A e \in DOMAIN mark' : mark'[e] = mark[e]
  BY DEF BlockTaken
<1>4. Going' = Going
  BY <1>3 DEF Going, Headers
<1>5. Exact'
  <2>1. \A e \in DOMAIN mark' : Bounded(mark'[e].must)
    BY <1>3 DEF Exact
  <2>2. \A h \in Going' : ExactHeader(h, fpstate[h])'
    BY <1>3, <1>4 DEF Exact, ExactHeader, Rank
  <2> QED
    BY <1>1, <1>3, <2>1, <2>2, Zenon DEF Exact
<1> QED
  BY <1>1, <1>2, <1>5

\* So does the turn of a header.
LEMMA ExactHead ==
    ASSUME Structured(prog), OneLevel(prog), ValueInv, Exact, NEW D, NEW h, NEW s, NEW x, NEW reached,
           HeaderTaken(D, h, s, x, reached)
    PROVE  /\ Exact' /\ Proper(x) /\ Depth(x) = Rank(h) /\ Bounded(x.must)
           /\ \A e \in DOMAIN mark : e[2] = h /\ (h \notin Going \/ Back(prog, e)) =>
                 \A n \in 1 .. Depth(mark[e]) : ViewCovers(View(x, n), View(mark[e], n))
           /\ reached => /\ h \in Going
                         /\ \A n \in 1 .. Rank(h) : View(x, n) = View(fpstate[h].header, n)
<1>1. /\ Proper(x) /\ Depth(x) = Rank(h) /\ Bounded(x.must)
      /\ \A e \in DOMAIN mark : e[2] = h /\ (h \notin Going \/ Back(prog, e)) =>
            \A n \in 1 .. Depth(mark[e]) : ViewCovers(View(x, n), View(mark[e], n))
  <2>1. phase = "turn"
    BY DEF HeaderTaken, HeaderTurned
  <2> QED
    BY <2>1, HeaderExact DEF HeaderTaken
<1>2. ASSUME reached
      PROVE  h \in Going /\ \A n \in 1 .. Rank(h) : View(x, n) = View(fpstate[h].header, n)
  <2>1. h \in Going
    BY <1>2 DEF HeaderTaken
  <2>2. s = fpstate[h] /\ Stable(h, s, x)
    BY <1>2, <2>1 DEF HeaderTaken, StateOf, Going
  <2>3. AcsEqual(x, s.header)
    BY <2>2 DEF Stable
  <2>4. Depth(s.header) = Rank(h)
    BY <2>1, <2>2 DEF Exact, ExactHeader
  <2> QED
    BY <2>1, <2>2, <2>3, <2>4 DEF AcsEqual, View
<1>3. /\ in' = x /\ DOMAIN mark' \subseteq DOMAIN mark /\ UNCHANGED <<prog, unrolling, results>>
      /\ \A e \in DOMAIN mark' : mark'[e] = mark[e]
      /\ \A k \in DOMAIN fpstate \ {h} : fpstate'[k] = fpstate[k]
      /\ ~ reached => fpstate'[h] = NextHeader(h, s, x)
      /\ DOMAIN fpstate = Going
      /\ reached \in BOOLEAN /\ Going' = IF reached THEN Going \ {h} ELSE Going \cup {h}
  BY DEF HeaderTaken, HeaderTurned
<1>4. ASSUME NEW k \in Going', k # h
      PROVE  ExactHeader(k, fpstate[k])'
  <2>1. k \in Going /\ fpstate'[k] = fpstate[k]
    BY <1>3, <1>4
  <2> QED
    BY <1>3, <2>1 DEF Exact, ExactHeader, Rank
<1>5. ASSUME h \in Going'
      PROVE  ExactHeader(h, fpstate[h])'
  <2>1. ~ reached /\ fpstate'[h] = NextHeader(h, s, x)
    BY <1>3, <1>5
  <2>2. PICK t : t = NextHeader(h, s, x)
    OBVIOUS
  <2>3. t.header = x
    BY <2>2 DEF NextHeader
  <2>4. ASSUME unrolling, t.iter = 2
        PROVE  Depth(t.second) = Rank(h) /\ Bounded(t.second.must)
    <3>1. CASE s.iter = 1
      BY <1>1, <2>2, <3>1 DEF NextHeader
    <3>2. CASE s.iter # 1
      <4>1. s.iter = 2 /\ h \in Going /\ s = fpstate[h]
        <5>1. CASE h \in Going
          <6>1. s = fpstate[h] /\ HeaderState(h, s)
            BY <5>1 DEF HeaderTaken, StateOf, Going, ValueInv
          <6> QED
            BY <2>4, <3>2, <5>1, <6>1 DEF HeaderState
        <5>2. CASE h \notin Going
          <6>1. s.iter = 0
            BY <5>2 DEF HeaderTaken, StateOf, Going
          <6>2. t.iter = 1
            BY <2>2, <2>4, <6>1 DEF NextHeader
          <6> QED
            BY <2>4, <6>2
        <5> QED
          BY <5>1, <5>2
      <4>2. t.second = s.second
        BY <2>2, <3>2 DEF NextHeader
      <4> QED
        BY <2>4, <4>1, <4>2 DEF Exact, ExactHeader
    <3> QED
      BY <3>1, <3>2
  <2> QED
    BY <1>1, <1>3, <2>1, <2>2, <2>3, <2>4 DEF ExactHeader, Rank
<1>6. Exact'
  <2>1. \A e \in DOMAIN mark' : Bounded(mark'[e].must)
    BY <1>3 DEF Exact
  <2>2. \A k \in Going' : ExactHeader(k, fpstate[k])'
    BY <1>4, <1>5
  <2> QED
    BY <1>1, <1>3, <2>1, <2>2, Zenon DEF Exact
<1> QED
  BY <1>1, <1>2, <1>6

\* So does the end of a loop.
LEMMA ExactLeave ==
    ASSUME ValueInv, Exact, NEW E, LoopLeft(E)
    PROVE  Exact'
<1>1. /\ DOMAIN mark' = DOMAIN mark /\ phase' = "turn"
      /\ UNCHANGED <<prog, unrolling, first, fpstate, results>>
  BY DEF LoopLeft
<1>2. Going' = Going
  BY <1>1 DEF Going, Headers
<1>3. ASSUME NEW e \in DOMAIN mark'
      PROVE  Bounded(mark'[e].must)
  <2>1. Proper(mark[e]) /\ Bounded(mark[e].must)
    BY <1>1, <1>3 DEF ValueInv, Exact
  <2>2. mark'[e].must = mark[e].must
    <3>1. CASE e \in E
      BY <2>1, <3>1, MustParts DEF LoopLeft
    <3>2. CASE e \notin E
      BY <1>1, <1>3, <3>2 DEF LoopLeft
    <3> QED
      BY <3>1, <3>2
  <2> QED
    BY <2>1, <2>2
<1>4. \A h \in Going' : ExactHeader(h, fpstate[h])'
  BY <1>1, <1>2 DEF Exact, ExactHeader, Rank
<1> QED
  BY <1>1, <1>3, <1>4, Zenon DEF Exact

\* What the output of a block gives to its edges and to its result covers what
\* they had, and the state of the block.
BodyGives(c, O, x) ==
    /\ Depth(x) = Depth(in) /\ Depth(in) = Above(prog, c, {})
    /\ Bounded(in.must) /\ Bounded(x.must)
    /\ \A e \in O : /\ Proper(mark'[e]) /\ Depth(mark'[e]) = Depth(in) /\ Bounded(mark'[e].must)
                    /\ \A n \in 1 .. Depth(in) : ViewCovers(View(mark'[e], n), View(x, n))
    /\ \A e \in O \cap DOMAIN mark :
          /\ Depth(mark[e]) = Depth(in)
          /\ \A n \in 1 .. Depth(in) : ViewCovers(View(mark'[e], n), View(mark[e], n))
    /\ Proper(results'[c]) /\ Depth(results'[c]) = Depth(in) /\ Bounded(results'[c].must)
    /\ \A n \in 1 .. Depth(in) : ViewCovers(View(results'[c], n), View(in, n))
    /\ results[c] # AcsBottom =>
          \A n \in 1 .. Depth(in) : ViewCovers(View(results'[c], n), View(results[c], n))

\* The states that the end of a body gives are exact.
LEMMA BodyExact ==
    ASSUME Blocks \subseteq Tags, Structured(prog), OneLevel(prog), ValueInv, Exact,
           NEW D, NEW c, NEW O, NEW x, BodyFinished(D, c, O, x)
    PROVE  BodyGives(c, O, x)
<1>1. /\ c = current /\ c \in prog.blocks /\ O = OutOf(prog, c) /\ Around(prog, c) \subseteq Going
      /\ phase = "output" /\ ~ fixpoint /\ Proper(in) /\ x = AcsUpdate(code, c, in) /\ Proper(x)
      /\ \A e \in O : mark'[e] = IF e \in DOMAIN mark THEN AcsLub(mark[e], x) ELSE x
      /\ results'[c] = AcsLub(results[c], in)
  BY DEF BodyFinished
<1>2. c \in BasicBlocks /\ code \in ListsOfBlocks
  BY <1>1 DEF Structured, OneGraph, ValueInv
<1>3. Depth(in) = Above(prog, c, {}) /\ Bounded(in.must)
  BY <1>1, InExact DEF Exact
<1>4. Depth(x) = Depth(in) /\ Depth(in) \in Nat
  BY <1>1, <1>2, ProperUpdate, ProperDepth
<1>5. Bounded(x.must)
  <2>1. x.must = MustUpdate(code, c, in.must) /\ in.must \in MustDomain
    BY <1>1, <1>2, MustParts, ProperDepth
  <2> QED
    BY <1>2, <1>3, <2>1, UpdateBounded
<1>6. ASSUME NEW e \in O, e \in DOMAIN mark
      PROVE  Proper(mark[e]) /\ Depth(mark[e]) = Depth(in)
  <2>1. InUse = Going /\ e \in Edges(prog) /\ e[1] = c
    BY <1>1, <1>6 DEF InUse, OutOf
  <2>2. prog.exitOf[e] \notin DOMAIN prog.loops \ Going
    <3>1. CASE Leaving(prog, e) = {}
      BY <2>1, <3>1 DEF Structured, ExitsRight, LoopsOK
    <3>2. CASE Leaving(prog, e) # {}
      <4>1. prog.exitOf[e] \in Leaving(prog, e)
        BY <2>1, <3>2 DEF Structured, ExitsRight
      <4> QED
        BY <1>1, <2>1, <4>1 DEF Leaving
    <3> QED
      BY <3>1, <3>2
  <2>3. Weight(prog, InUse, e) = 0
    BY <2>1, <2>2 DEF Weight
  <2>4. Proper(mark[e]) /\ Depth(mark[e]) \in Nat
    BY <1>6, ProperDepth DEF ValueInv
  <2>5. Depth(mark[e]) + Weight(prog, InUse, e) = Above(prog, e[1], {})
    BY <1>6, MarkExact
  <2> QED
    BY <1>3, <2>1, <2>3, <2>4, <2>5
<1>7. ASSUME NEW e \in O
      PROVE  /\ Proper(mark'[e]) /\ Depth(mark'[e]) = Depth(in) /\ Bounded(mark'[e].must)
             /\ \A n \in 1 .. Depth(in) :
                   /\ ViewCovers(View(mark'[e], n), View(x, n))
                   /\ e \in DOMAIN mark => ViewCovers(View(mark'[e], n), View(mark[e], n))
  <2>1. CASE e \in DOMAIN mark
    <3>1. PICK z : z = mark'[e]
      OBVIOUS
    <3>2. z = AcsLub(mark[e], x) /\ Proper(mark[e]) /\ Depth(mark[e]) = Depth(x)
      BY <1>1, <1>4, <1>6, <1>7, <2>1, <3>1
    <3>3. /\ Proper(z) /\ Depth(z) = Depth(mark[e]) /\ Bounded(z.must)
          /\ \A n \in 1 .. Depth(mark[e]) : /\ ViewCovers(View(z, n), View(mark[e], n))
                                            /\ ViewCovers(View(z, n), View(x, n))
      BY <1>1, <1>5, <3>2, ViewLub
    <3> QED
      BY <1>4, <3>1, <3>2, <3>3
  <2>2. CASE e \notin DOMAIN mark
    <3>1. mark'[e] = x
      BY <1>1, <1>7, <2>2
    <3>2. \A n \in 1 .. Depth(in) : ViewCovers(View(x, n), View(x, n))
      BY <1>1, <1>4, <1>5, ViewFacts
    <3> QED
      BY <1>1, <1>4, <1>5, <2>2, <3>1, <3>2
  <2> QED
    BY <2>1, <2>2
<1>8. /\ Proper(results'[c]) /\ Depth(results'[c]) = Depth(in) /\ Bounded(results'[c].must)
      /\ \A n \in 1 .. Depth(in) : ViewCovers(View(results'[c], n), View(in, n))
      /\ results[c] # AcsBottom =>
            \A n \in 1 .. Depth(in) : ViewCovers(View(results'[c], n), View(results[c], n))
  <2>1. CASE results[c] = AcsBottom
    <3>1. results'[c] = in
      BY <1>1, <2>1, BottomLub
    <3>2. \A n \in 1 .. Depth(in) : ViewCovers(View(in, n), View(in, n))
      BY <1>1, <1>3, ViewFacts
    <3> QED
      BY <1>1, <1>3, <2>1, <3>1, <3>2
  <2>2. CASE results[c] # AcsBottom
    <3>1. PICK z : z = results'[c]
      OBVIOUS
    <3>2. z = AcsLub(results[c], in) /\ Proper(results[c]) /\ Depth(results[c]) = Depth(in)
      BY <1>1, <1>3, <2>2, <3>1 DEF Exact
    <3>3. /\ Proper(z) /\ Depth(z) = Depth(results[c]) /\ Bounded(z.must)
          /\ \A n \in 1 .. Depth(results[c]) : /\ ViewCovers(View(z, n), View(results[c], n))
                                               /\ ViewCovers(View(z, n), View(in, n))
      BY <1>1, <1>3, <3>2, ViewLub
    <3> QED
      BY <3>1, <3>2, <3>3
  <2> QED
    BY <2>1, <2>2
<1> QED
  BY <1>3, <1>4, <1>5, <1>6, <1>7, <1>8 DEF BodyGives

\* The end of the turn of a body keeps the depths exact.
LEMMA ExactBody ==
    ASSUME Blocks \subseteq Tags, Structured(prog), OneLevel(prog), ValueInv, Exact,
           NEW D, NEW c, NEW O, NEW x, BodyFinished(D, c, O, x)
    PROVE  Exact'
<1>1. BodyGives(c, O, x)
  BY BodyExact
<1>2. /\ phase' = "turn" /\ DOMAIN mark' = DOMAIN mark \cup O
      /\ \A e \in DOMAIN mark \ O : mark'[e] = mark[e]
      /\ \A b \in prog.blocks \ {c} : results'[b] = results[b]
      /\ UNCHANGED <<prog, unrolling, first, fpstate>>
  BY DEF BodyFinished
<1>3. Going' = Going
  BY <1>2 DEF Going, Headers
<1>4. \A e \in DOMAIN mark' : Bounded(mark'[e].must)
  BY <1>1, <1>2 DEF Exact, BodyGives
<1>5. \A h \in Going' : ExactHeader(h, fpstate[h])'
  BY <1>2, <1>3 DEF Exact, ExactHeader, Rank
<1>6. ASSUME NEW b \in prog.blocks
      PROVE  \/ results'[b] = AcsBottom
             \/ /\ Proper(results'[b]) /\ Bounded(results'[b].must)
                /\ Depth(results'[b]) = Above(prog, b, {})
  <2>1. CASE b = c
    BY <1>1, <2>1 DEF BodyGives
  <2>2. CASE b # c
    BY <1>2, <1>6, <2>2 DEF Exact
  <2> QED
    BY <2>1, <2>2
<1> QED
  BY <1>2, <1>4, <1>5, <1>6, Zenon DEF Exact

\* What changes no state keeps the depths exact.
LEMMA ExactStays ==
    ASSUME Exact,
           UNCHANGED <<prog, unrolling, current, in, mark, first, fpstate, results>>,
           phase' = phase \/ (phase # "output" /\ phase' \in {"done", "run"})
    PROVE  Exact'
<1>1. Going' = Going
  BY DEF Going, Headers
<1>2. \A h \in Going' : ExactHeader(h, fpstate[h])'
  BY <1>1 DEF Exact, ExactHeader, Rank
<1>3. phase' = "output" => phase = "output"
  OBVIOUS
<1> QED
  BY <1>1, <1>2, <1>3, Zenon DEF Exact

\* The depths are exact at the beginning.
LEMMA ExactInit ==
    ASSUME \A p \in Programs : Structured(p), Init
    PROVE  Exact
<1>1. /\ prog \in Programs /\ mark = <<>> /\ phase = "turn" /\ first = BasicBlocks
      /\ results = [b \in BasicBlocks |-> AcsBottom]
  BY DEF Init, HaiInit
<1>2. prog.blocks \subseteq BasicBlocks /\ Headers \subseteq prog.blocks
  BY <1>1 DEF Structured, OneGraph, LoopsOK, Headers
<1>3. DOMAIN mark = {} /\ Going = {}
  BY <1>1, <1>2 DEF Going
<1> QED
  BY <1>1, <1>2, <1>3 DEF Exact

-----------------------------------------------------------------------------
\* The levels of a loop are among those of the blocks in it.
LEMMA RankFacts ==
    ASSUME Structured(prog), NEW b \in prog.blocks, NEW h \in Around(prog, b)
    PROVE  /\ Rank(h) \in Nat /\ Rank(h) >= 1 /\ Rank(h) <= Above(prog, b, {})
           /\ \A k \in Around(prog, b) : k \notin Around(prog, h) => Rank(h) + 1 <= Above(prog, b, {})
<1>1. IsFiniteSet(DOMAIN prog.loops)
  BY FS_Subset DEF Structured, OneGraph, LoopsOK
<1>2. /\ IsFiniteSet(Around(prog, b)) /\ IsFiniteSet(Around(prog, h))
      /\ Around(prog, h) \subseteq Around(prog, b) /\ h \in Around(prog, h)
  <2>1. h \in DOMAIN prog.loops /\ h \in prog.blocks
    BY DEF Around, Structured, LoopsOK
  <2>2. Around(prog, b) \subseteq DOMAIN prog.loops /\ Around(prog, h) \subseteq DOMAIN prog.loops
    BY DEF Around
  <2> QED
    BY <1>1, <2>1, <2>2, BlockFacts, FS_Subset
<1>3. /\ Above(prog, b, {}) = Cardinality(Around(prog, b)) /\ Rank(h) = Cardinality(Around(prog, h))
  <2>1. \A S : S \ {} = S
    OBVIOUS
  <2> QED
    BY <2>1, Zenon DEF Above, Rank
<1>4. /\ Cardinality(Around(prog, b)) \in Nat /\ Cardinality(Around(prog, h)) \in Nat
      /\ Cardinality(Around(prog, h)) <= Cardinality(Around(prog, b))
  BY <1>2, FS_Subset, FS_CardinalityType
<1>5. Cardinality(Around(prog, h)) >= 1
  <2>1. Cardinality(Around(prog, h)) # 0
    BY <1>2, FS_EmptySet
  <2> QED
    BY <1>4, <2>1
<1>6. ASSUME NEW k \in Around(prog, b), k \notin Around(prog, h)
      PROVE  Cardinality(Around(prog, h)) + 1 <= Cardinality(Around(prog, b))
  <2>1. PICK S : S = Around(prog, b) \ {k}
    OBVIOUS
  <2>2. IsFiniteSet(S) /\ Cardinality(S) = Cardinality(Around(prog, b)) - 1
    BY <1>2, <1>6, <2>1, FS_RemoveElement
  <2>3. Around(prog, h) \subseteq S
    BY <1>2, <1>6, <2>1
  <2>4. Cardinality(Around(prog, h)) <= Cardinality(S)
    BY <2>2, <2>3, FS_Subset
  <2> QED
    BY <1>4, <2>2, <2>4
<1> QED
  BY <1>3, <1>4, <1>5, <1>6

\* The state of an edge inside a loop has the level of the loop.
LEMMA LevelOnEdge ==
    ASSUME Structured(prog), OneLevel(prog), ValueInv, NEW e \in DOMAIN mark, e \in Edges(prog),
           NEW h \in Around(prog, e[1]), h \in Around(prog, e[2])
    PROVE  Rank(h) \in 1 .. Depth(mark[e])
<1>1. /\ Depth(mark[e]) \in Nat /\ Above(prog, e[1], {}) \in Nat
      /\ Depth(mark[e]) + Weight(prog, InUse, e) = Above(prog, e[1], {})
  BY ProperDepth, AboveType, MarkExact DEF ValueInv
<1>2. e[1] \in prog.blocks /\ e[2] \in prog.blocks
  BY EdgeFacts
<1>3. Rank(h) \in Nat /\ Rank(h) >= 1 /\ Rank(h) <= Above(prog, e[1], {})
  BY <1>2, RankFacts
<1>4. CASE prog.exitOf[e] \in DOMAIN prog.loops \ InUse
  <2>1. Weight(prog, InUse, e) = 1
    BY <1>4 DEF Weight
  <2>2. prog.exitOf[e] \in Leaving(prog, e)
    BY <1>4 DEF Structured, ExitsRight, LoopsOK
  <2>3. prog.exitOf[e] \in Around(prog, e[1]) /\ prog.exitOf[e] \notin Around(prog, h)
    BY <1>2, <2>2, BlockFacts DEF Leaving
  <2>4. Rank(h) + 1 <= Above(prog, e[1], {})
    BY <1>2, <2>3, RankFacts
  <2> QED
    BY <1>1, <1>3, <2>1, <2>4
<1>5. CASE prog.exitOf[e] \notin DOMAIN prog.loops \ InUse
  <2>1. Weight(prog, InUse, e) = 0
    BY <1>5 DEF Weight
  <2> QED
    BY <1>1, <1>3, <2>1
<1> QED
  BY <1>4, <1>5

(* One level: the views that the blocks of the loop of h were interpreted  *)
(* with, at the level of the loop, F[b] for b, since the header was taken. *)
Loop(h) == prog.loops[h]
Waits(e, n, z) == /\ e \in DOMAIN mark /\ ViewCovers(View(mark[e], n), z)
                  /\ e[2] \notin Going \/ Back(prog, e)
Goes(F, e, n, z) == (\E y \in F[e[2]] : ViewCovers(y, z)) \/ Waits(e, n, z)
Due(b, n, v) == phase = "output" /\ ~ fixpoint /\ b = current /\ v = View(in, n)
Seen(h, F, n, b, v) ==
    /\ \A e \in OutOf(prog, b) : e[2] \in Loop(h) => Goes(F, e, n, ViewUpdate(code, b, v))
    /\ results[b] # AcsBottom /\ ViewCovers(View(results[b], n), v)
Begun(F, h) == (\A v, w \in F[h] : v = w) /\ (results[h] # AcsBottom => F[h] # {})
LevelInv(h, F) ==
    /\ F \in [Loop(h) -> SUBSET Views]
    /\ Begun(F, h)
    /\ \A k \in Going : k \in Loop(h) => View(fpstate[k].header, Rank(h)) \in F[k]
    /\ phase = "output" /\ ~ fixpoint /\ current \in Loop(h) => View(in, Rank(h)) \in F[current]
    /\ \A b \in Loop(h) : \A v \in F[b] : Due(b, Rank(h), v) \/ Seen(h, F, Rank(h), b, v)

\* The parts of the next LevelInv.
LEMMA LevelParts ==
    ASSUME NEW h, NEW F, prog' = prog, F \in [Loop(h) -> SUBSET Views],
           Begun(F, h)',
           \A k \in Going' : k \in Loop(h) => View(fpstate'[k].header, Rank(h)) \in F[k],
           phase' = "output" /\ ~ fixpoint' /\ current' \in Loop(h) => View(in', Rank(h)) \in F[current'],
           \A b \in Loop(h) : \A v \in F[b] : Due(b, Rank(h), v)' \/ Seen(h, F, Rank(h), b, v)'
    PROVE  LevelInv(h, F)'
<1>1. Rank(h)' = Rank(h) /\ Loop(h)' = Loop(h)
  BY DEF Rank, Loop
<1> QED
  BY <1>1 DEF LevelInv

\* The edges of a loop.
LEMMA LoopEdges ==
    ASSUME Structured(prog), NEW h \in Headers
    PROVE  /\ Loop(h) \subseteq prog.blocks /\ h \in Loop(h)
           /\ \A b \in prog.blocks : b \in Loop(h) <=> h \in Around(prog, b)
           /\ \A b \in Loop(h) : \A e \in OutOf(prog, b) :
                 /\ e \in Edges(prog) /\ e[1] = b /\ e[2] \in prog.blocks
                 /\ e[2] = h => Back(prog, e)
           /\ \A k \in Headers : k \in Loop(h) => Loop(k) \subseteq Loop(h)
<1>1. Loop(h) \subseteq prog.blocks /\ h \in Loop(h)
  BY DEF Loop, Headers, Structured, LoopsOK
<1>2. \A b \in prog.blocks : b \in Loop(h) <=> h \in Around(prog, b)
  BY DEF Loop, Headers, Around
<1>3. ASSUME NEW b \in Loop(h), NEW e \in OutOf(prog, b)
      PROVE  /\ e \in Edges(prog) /\ e[1] = b /\ e[2] \in prog.blocks
             /\ e[2] = h => Back(prog, e)
  BY <1>1, <1>2, <1>3, EdgeFacts DEF OutOf
<1>4. ASSUME NEW k \in Headers, k \in Loop(h)
      PROVE  Loop(k) \subseteq Loop(h)
  <2>1. k \in prog.blocks /\ h \in Around(prog, k)
    BY <1>1, <1>2, <1>4
  <2> QED
    BY <2>1, <1>4 DEF Loop, Headers, Structured, LoopsOK
<1> QED
  BY <1>1, <1>2, <1>3, <1>4

\* The update of a view is a view.
LEMMA NextView ==
    ASSUME Blocks \subseteq Tags, Structured(prog), ValueInv, NEW h \in Headers,
           NEW F \in [Loop(h) -> SUBSET Views], NEW b \in Loop(h), NEW v \in F[b]
    PROVE  v \in Views /\ ViewUpdate(code, b, v) \in Views
<1>1. v \in Views
  OBVIOUS
<1>2. b \in BasicBlocks /\ code \in ListsOfBlocks
  BY LoopEdges DEF Structured, OneGraph, ValueInv
<1> QED
  BY <1>1, <1>2, ViewUpdateFacts

\* An input: the block v is taken, with a state that covers what it takes.
LEMMA InputLevel ==
    ASSUME Blocks \subseteq Tags, Structured(prog), OneLevel(prog), ValueInv, Exact,
           NEW h \in Headers, NEW F, LevelInv(h, F),
           phase = "turn", phase' = "output", UNCHANGED <<prog, code, results>>,
           NEW v \in prog.blocks, current' = v,
           NEW m, m = View(in', Rank(h)),
           v \in Loop(h) => m \in Views,
           v = h => fixpoint',
           fixpoint' /\ v \in Loop(h) => m \in F[v],
           \A e \in DOMAIN mark' : mark'[e] = mark[e],
           \A e \in DOMAIN mark : e[1] \in Loop(h) /\ e[2] \in Loop(h)
                                  /\ (e[2] \notin Going \/ Back(prog, e)) =>
               \/ e \in DOMAIN mark' /\ (e[2] \notin Going' \/ Back(prog, e))
               \/ e[2] = v /\ ViewCovers(m, View(mark[e], Rank(h))),
           \A k \in Going' : \/ k \in Going /\ fpstate'[k] = fpstate[k]
                             \/ k = v /\ View(fpstate'[k].header, Rank(h)) = m
    PROVE  \E J : LevelInv(h, J)'
<1>n. PICK n : n = Rank(h)
  OBVIOUS
<1>b. PICK J : J = [b \in Loop(h) |-> IF b = v THEN F[b] \cup {m} ELSE F[b]]
  OBVIOUS
<1>1. F \in [Loop(h) -> SUBSET Views]
  BY DEF LevelInv
<1>2. /\ J \in [Loop(h) -> SUBSET Views]
      /\ \A b \in Loop(h) : F[b] \subseteq J[b]
      /\ v \in Loop(h) => m \in J[v]
      /\ \A b \in Loop(h) : \A x \in J[b] : x \in F[b] \/ (b = v /\ x = m)
  <2>1. \A b \in Loop(h) : J[b] = IF b = v THEN F[b] \cup {m} ELSE F[b]
    BY <1>b
  <2>2. ASSUME NEW b \in Loop(h)
        PROVE  J[b] \in SUBSET Views
    <3>1. F[b] \in SUBSET Views
      BY <1>1
    <3>2. CASE b = v
      <4>1. m \in Views /\ J[b] = F[b] \cup {m}
        BY <2>1, <3>2
      <4> QED
        BY <3>1, <4>1
    <3>3. CASE b # v
      <4>1. J[b] = F[b]
        BY <2>1, <3>3
      <4> QED
        BY <3>1, <4>1
    <3> QED
      BY <3>2, <3>3
  <2> QED
    BY <1>b, <2>1, <2>2
<1>3. ASSUME NEW b \in Loop(h), NEW x \in F[b]
      PROVE  Seen(h, J, n, b, x)'
  <2>1. Seen(h, F, n, b, x)
    BY <1>3, <1>n DEF LevelInv, Due
  <2>2. ASSUME NEW e \in OutOf(prog, b), e[2] \in Loop(h)
        PROVE  Goes(J, e, n, ViewUpdate(code, b, x))'
    <3>1. PICK z : z = ViewUpdate(code, b, x)
      OBVIOUS
    <3>2. z \in Views
      BY <1>1, <1>3, <3>1, NextView
    <3>3. e \in Edges(prog) /\ e[1] = b
      BY <1>3, LoopEdges
    <3>4. Goes(F, e, n, z)
      BY <2>1, <2>2, <3>1 DEF Seen
    <3>5. (\E y \in J[e[2]] : ViewCovers(y, z)) \/ Waits(e, n, z)'
      <4>1. CASE \E y \in F[e[2]] : ViewCovers(y, z)
        BY <1>2, <2>2, <4>1
      <4>2. CASE Waits(e, n, z)
        <5>1. CASE e \in DOMAIN mark' /\ (e[2] \notin Going' \/ Back(prog, e))
          BY <4>2, <5>1 DEF Waits, View
        <5>2. CASE e[2] = v /\ ViewCovers(m, View(mark[e], Rank(h)))
          <6>1. e \in DOMAIN mark /\ ViewCovers(View(mark[e], n), z)
            BY <4>2 DEF Waits
          <6>2. View(mark[e], n) \in Views
            <7>1. h \in Around(prog, e[1]) /\ h \in Around(prog, e[2])
              BY <1>3, <2>2, <3>3, LoopEdges
            <7>2. n \in 1 .. Depth(mark[e])
              BY <1>n, <3>3, <6>1, <7>1, LevelOnEdge
            <7> QED
              BY <6>1, <7>2, ViewFacts DEF ValueInv, Exact
          <6>3. ViewCovers(m, z)
            BY <1>n, <2>2, <3>2, <5>2, <6>1, <6>2, ViewFacts
          <6> QED
            BY <1>2, <2>2, <5>2, <6>3
        <5> QED
          BY <1>n, <1>3, <2>2, <3>3, <4>2, <5>1, <5>2 DEF Waits
      <4> QED
        BY <3>4, <4>1, <4>2 DEF Goes
    <3>6. ViewUpdate(code, b, x)' = z
      BY <3>1 DEF ViewUpdate, LastOf
    <3> QED
      BY <3>5, <3>6 DEF Goes
  <2>3. Loop(h)' = Loop(h) /\ OutOf(prog, b)' = OutOf(prog, b)
    BY DEF Loop, OutOf, Edges
  <2> QED
    BY <2>1, <2>2, <2>3 DEF Seen, View
<1>4. ASSUME NEW b \in Loop(h), NEW x \in J[b]
      PROVE  Due(b, Rank(h), x)' \/ Seen(h, J, Rank(h), b, x)'
  <2>0. Rank(h)' = n
    BY <1>n DEF Rank
  <2>1. CASE x \in F[b]
    BY <1>3, <2>0, <2>1
  <2>2. CASE x \notin F[b]
    <3>1. b = v /\ x = m
      BY <1>2, <1>4, <2>2
    <3>2. ~ fixpoint'
      BY <1>4, <2>2, <3>1
    <3> QED
      BY <1>n, <2>0, <3>1, <3>2 DEF Due, View
  <2> QED
    BY <2>1, <2>2
<1>5. ASSUME NEW k \in Going', k \in Loop(h)
      PROVE  View(fpstate'[k].header, Rank(h)) \in J[k]
  <2>1. CASE k \in Going /\ fpstate'[k] = fpstate[k]
    BY <1>2, <1>5, <2>1 DEF LevelInv
  <2>2. CASE k = v /\ View(fpstate'[k].header, Rank(h)) = m
    BY <1>2, <1>5, <2>2
  <2> QED
    BY <1>5, <2>1, <2>2
<1>6. J[h] = F[h]
  <2>1. h \in Loop(h)
    BY LoopEdges
  <2> QED
    BY <1>b, <2>1
<1>7. Begun(J, h)'
  BY <1>6 DEF Begun, LevelInv
<1>8. LevelInv(h, J)'
  BY <1>2, <1>4, <1>5, <1>7, LevelParts
<1> QED
  BY <1>8

\* An iteration of a loop begins: what was seen in it is forgotten.
LEMMA BeginLevel ==
    ASSUME Blocks \subseteq Tags, Structured(prog), OneLevel(prog), ValueInv, Exact,
           NEW D, NEW h, NEW s, NEW x, HeaderTaken(D, h, s, x, FALSE)
    PROVE  \E J : LevelInv(h, J)'
<1>a. PICK m : m = View(x, Rank(h))
  OBVIOUS
<1>b. PICK J : J = [b \in Loop(h) |-> IF b = h THEN {m} ELSE {}]
  OBVIOUS
<1>1. /\ h \in Headers /\ h \in Loop(h) /\ Loop(h) \subseteq prog.blocks
      /\ phase' = "output" /\ ~ fixpoint' /\ current' = h /\ in' = x
      /\ prog' = prog /\ Going' = Going \cup {h} /\ fpstate'[h].header = x
  <2>1. h \in Headers /\ fpstate'[h] = NextHeader(h, s, x)
    BY DEF HeaderTaken, HeaderTurned
  <2>2. h \in Loop(h) /\ Loop(h) \subseteq prog.blocks
    BY <2>1, LoopEdges
  <2>3. NextHeader(h, s, x).header = x
    BY DEF NextHeader
  <2> QED
    BY <2>1, <2>2, <2>3 DEF HeaderTaken, HeaderTurned
<1>2. m \in Views
  <2>1. Proper(x) /\ Depth(x) = Rank(h) /\ Bounded(x.must)
    BY ExactHead
  <2>2. Rank(h) \in 1 .. Depth(x)
    <3>1. h \in prog.blocks /\ h \in Around(prog, h)
      BY <1>1, LoopEdges
    <3>2. Rank(h) \in Nat /\ Rank(h) >= 1
      BY <3>1, RankFacts
    <3> QED
      BY <2>1, <3>2
  <2> QED
    BY <1>a, <2>1, <2>2, ViewFacts
<1>3. /\ J \in [Loop(h) -> SUBSET Views] /\ J[h] = {m}
      /\ \A b \in Loop(h) : \A v \in J[b] : b = h /\ v = m
  BY <1>1, <1>2, <1>b
<1>4. \A k \in Going' : k \in Loop(h) => k = h
  <2>1. PICK M : M = DOMAIN mark
    OBVIOUS
  <2>2. PICK R : R = BackTo(prog, h)
    OBVIOUS
  <2>3. /\ Control(prog, D, Going, M, fixed, {}) /\ prog.main \in D
        /\ h \in ToDo(prog, D, Going, M, fixed) /\ h \in DOMAIN prog.loops
    BY <2>1 DEF HeaderTaken, Headers
  <2>4. PICK D2 : Begins(prog, h, R, D, Going, M, fixed, D2)
    BY <2>2, <2>3, HeaderBegins
  <2>5. Control(prog, D2, Going \cup {h}, M \ R, fixed \ {h}, {h}) /\ prog.loops[h] \cap D2 = {h}
    BY <2>4 DEF Begins, Takes
  <2>6. \A k \in Going \cup {h} : h \in Around(prog, k) => k = h
    BY <2>5, NoneInside
  <2>7. \A k \in Going' : k \in Loop(h) => h \in Around(prog, k)
    BY <1>1, LoopEdges
  <2> QED
    BY <1>1, <2>6, <2>7
<1>5. Begun(J, h)'
  BY <1>3 DEF Begun
<1>6. \A k \in Going' : k \in Loop(h) => View(fpstate'[k].header, Rank(h)) \in J[k]
  BY <1>1, <1>3, <1>4, <1>a
<1>7. View(in', Rank(h)) \in J[current']
  BY <1>1, <1>3, <1>a
<1>8. \A b \in Loop(h) : \A v \in J[b] : Due(b, Rank(h), v)'
  <2>1. Due(h, Rank(h), m)'
    BY <1>1, <1>a DEF Due, View, Rank
  <2> QED
    BY <1>3, <2>1 DEF Due, View, Rank
<1>9. LevelInv(h, J)'
  BY <1>1, <1>3, <1>5, <1>6, <1>7, <1>8, LevelParts
<1> QED
  BY <1>9

\* The turn of a header, but for the first one of the loop itself.
LEMMA HeadLevel ==
    ASSUME Blocks \subseteq Tags, Structured(prog), OneLevel(prog), ValueInv, Exact,
           NEW D, NEW h, NEW s, NEW x, NEW reached, HeaderTaken(D, h, s, x, reached),
           NEW g \in Headers, NEW F, LevelInv(g, F), g # h \/ reached
    PROVE  \E J : LevelInv(g, J)'
<1>a. PICK m : m = View(x, Rank(g))
  OBVIOUS
<1>1. /\ h \in Headers /\ h \in prog.blocks /\ phase = "turn"
      /\ phase' = "output" /\ current' = h /\ in' = x /\ fixpoint' = reached
      /\ UNCHANGED <<prog, code, results>>
      /\ DOMAIN mark' = DOMAIN mark \ (IF reached THEN prog.ins[h] ELSE Returning(h))
      /\ \A e \in DOMAIN mark' : mark'[e] = mark[e]
      /\ DOMAIN mark \subseteq Edges(prog)
      /\ Going' = IF reached THEN Going \ {h} ELSE Going \cup {h}
  BY DEF HeaderTaken, HeaderTurned, Control
<1>2. /\ Proper(x) /\ Depth(x) = Rank(h) /\ Bounded(x.must)
      /\ \A e \in DOMAIN mark : e[2] = h /\ (h \notin Going \/ Back(prog, e)) =>
            \A n \in 1 .. Depth(mark[e]) : ViewCovers(View(x, n), View(mark[e], n))
      /\ reached => /\ h \in Going
                    /\ \A n \in 1 .. Rank(h) : View(x, n) = View(fpstate[h].header, n)
  BY ExactHead
<1>3. h \in Loop(g) => Rank(g) \in 1 .. Rank(h)
  <2> SUFFICES ASSUME h \in Loop(g)
               PROVE  Rank(g) \in 1 .. Rank(h)
    OBVIOUS
  <2>1. g \in Around(prog, h)
    BY <1>1, LoopEdges
  <2>2. Rank(g) \in Nat /\ Rank(g) >= 1 /\ Rank(g) <= Rank(h) /\ Rank(h) \in Nat
    BY <1>1, <2>1, RankFacts, AboveType DEF Rank
  <2> QED
    BY <2>2
<1>4. h \in Loop(g) => m \in Views
  BY <1>2, <1>3, <1>a, ViewFacts
<1>5. fixpoint' /\ h \in Loop(g) => m \in F[h]
  <2> SUFFICES ASSUME reached, h \in Loop(g)
               PROVE  m \in F[h]
    BY <1>1
  <2>1. h \in Going /\ View(x, Rank(g)) = View(fpstate[h].header, Rank(g))
    BY <1>2, <1>3
  <2> QED
    BY <1>a, <2>1 DEF LevelInv
<1>6. ASSUME NEW e \in DOMAIN mark, e[1] \in Loop(g), e[2] \in Loop(g),
             e[2] \notin Going \/ Back(prog, e)
      PROVE  \/ e \in DOMAIN mark' /\ (e[2] \notin Going' \/ Back(prog, e))
             \/ e[2] = h /\ ViewCovers(m, View(mark[e], Rank(g)))
  <2>1. CASE e[2] = h
    <3>1. g \in Around(prog, e[1]) /\ g \in Around(prog, e[2])
      <4>1. e[1] \in prog.blocks /\ e[2] \in prog.blocks
        BY <1>1, <1>6, EdgeFacts
      <4> QED
        BY <1>6, <4>1, LoopEdges
    <3>2. Rank(g) \in 1 .. Depth(mark[e])
      BY <1>1, <1>6, <3>1, LevelOnEdge
    <3> QED
      BY <1>2, <1>6, <1>a, <2>1, <3>2
  <2>2. CASE e[2] # h
    <3>1. e \notin prog.ins[h] /\ e \notin Returning(h)
      BY <1>1, <2>2, BlockFacts DEF Returning
    <3> QED
      BY <1>1, <1>6, <2>2, <3>1
  <2> QED
    BY <2>1, <2>2
<1>7. ASSUME NEW k \in Going'
      PROVE  \/ k \in Going /\ fpstate'[k] = fpstate[k]
             \/ k = h /\ View(fpstate'[k].header, Rank(g)) = m
  <2>1. CASE k = h
    <3>1. fpstate'[h] = NextHeader(h, s, x)
      BY <1>1, <1>7, <2>1 DEF HeaderTaken, HeaderTurned
    <3>2. fpstate'[h].header = x
      BY <3>1 DEF NextHeader
    <3> QED
      BY <1>a, <2>1, <3>2
  <2>2. CASE k # h
    BY <1>1, <1>7, <2>2 DEF HeaderTaken, HeaderTurned
  <2> QED
    BY <2>1, <2>2
<1>8. m = View(in', Rank(g)) /\ (h = g => fixpoint')
  BY <1>1, <1>a
<1> QED
  BY <1>1, <1>4, <1>5, <1>6, <1>7, <1>8, InputLevel

\* The turn of a block that is no header.
LEMMA BlockLevel ==
    ASSUME Blocks \subseteq Tags, Structured(prog), OneLevel(prog), ValueInv, Exact,
           NEW D, NEW b, NEW x, BlockTaken(D, b, x),
           NEW g \in Headers, NEW F, LevelInv(g, F)
    PROVE  \E J : LevelInv(g, J)'
<1>a. PICK m : m = View(x, Rank(g))
  OBVIOUS
<1>1. /\ b \notin Headers /\ b \in prog.blocks /\ phase = "turn" /\ b # g
      /\ phase' = "output" /\ current' = b /\ in' = x /\ ~ fixpoint'
      /\ UNCHANGED <<prog, code, results>>
      /\ DOMAIN mark' = DOMAIN mark \ prog.ins[b]
      /\ \A e \in DOMAIN mark' : mark'[e] = mark[e]
      /\ DOMAIN mark \subseteq Edges(prog)
      /\ first' = first /\ fpstate' = fpstate
  BY DEF BlockTaken, Control
<1>2. Going' = Going
  BY <1>1 DEF Going, Headers
<1>3. /\ Proper(x) /\ Depth(x) = Above(prog, b, {}) /\ Bounded(x.must)
      /\ \A e \in prog.ins[b] : \A n \in 1 .. Depth(mark[e]) : ViewCovers(View(x, n), View(mark[e], n))
  BY ExactBlock
<1>4. b \in Loop(g) => m \in Views
  <2> SUFFICES ASSUME b \in Loop(g)
               PROVE  m \in Views
    OBVIOUS
  <2>1. g \in Around(prog, b)
    BY <1>1, LoopEdges
  <2>2. Rank(g) \in Nat /\ Rank(g) >= 1 /\ Rank(g) <= Above(prog, b, {}) /\ Depth(x) \in Nat
    BY <1>1, <1>3, <2>1, RankFacts, ProperDepth
  <2> QED
    BY <1>3, <1>a, <2>2, ViewFacts
<1>6. ASSUME NEW e \in DOMAIN mark, e[1] \in Loop(g), e[2] \in Loop(g),
             e[2] \notin Going \/ Back(prog, e)
      PROVE  \/ e \in DOMAIN mark' /\ (e[2] \notin Going' \/ Back(prog, e))
             \/ e[2] = b /\ ViewCovers(m, View(mark[e], Rank(g)))
  <2>1. CASE e \in prog.ins[b]
    <3>1. g \in Around(prog, e[1]) /\ g \in Around(prog, e[2])
      <4>1. e[1] \in prog.blocks /\ e[2] \in prog.blocks
        BY <1>1, <1>6, EdgeFacts
      <4> QED
        BY <1>6, <4>1, LoopEdges
    <3>2. Rank(g) \in 1 .. Depth(mark[e])
      BY <1>1, <1>6, <3>1, LevelOnEdge
    <3>3. e[2] = b
      BY <1>1, <2>1, BlockFacts
    <3> QED
      BY <1>3, <1>a, <2>1, <3>2, <3>3
  <2>2. CASE e \notin prog.ins[b]
    BY <1>1, <1>2, <1>6, <2>2
  <2> QED
    BY <2>1, <2>2
<1>7. \A k \in Going' : k \in Going /\ fpstate'[k] = fpstate[k]
  BY <1>1, <1>2
<1>8. m = View(in', Rank(g))
  BY <1>1, <1>a
<1> QED
  BY <1>1, <1>4, <1>6, <1>7, <1>8, InputLevel

\* The turn of the entry, which is in no loop.
LEMMA MainLevel ==
    ASSUME Blocks \subseteq Tags, Structured(prog), OneLevel(prog), ValueInv, Exact,
           NEW D, NEW P, NEW X, InTurn(D, P, X), MainInput, Kept, Scheduled(D, P, X),
           NEW g \in Headers, NEW F, LevelInv(g, F)
    PROVE  \E J : LevelInv(g, J)'
<1>a. PICK m : m = View(in', Rank(g))
  OBVIOUS
<1>1. /\ phase = "turn" /\ phase' = "output" /\ ~ fixpoint' /\ DOMAIN mark = {}
      /\ mark' = mark /\ first' = first /\ fpstate' = fpstate /\ current' = Top
      /\ UNCHANGED <<prog, code, results>>
  BY DEF MainInput, Pop, Turn, InTurn
<1>2. Going' = Going /\ DOMAIN mark' = {}
  BY <1>1 DEF Going, Headers
<1>3. current' = prog.main
  <2>1. PICK w : w = SubSeq(work, 1, Len(work) - 1)
    OBVIOUS
  <2>2. PICK todo : todo = ToDo(prog, D, Going, DOMAIN mark, fixed)
    OBVIOUS
  <2>3. mainEntry /\ Turn
    BY DEF MainInput
  <2>4. TopOf(todo, w, P, X)
    BY <2>1, <2>2, <2>3, TopFacts
  <2> QED
    BY <1>1, <2>3, <2>4 DEF TopOf
<1>4. prog.main \in prog.blocks /\ prog.main \notin Loop(g) /\ prog.main # g
  <2>1. prog.main \in prog.blocks /\ Around(prog, prog.main) = {}
    BY DEF Structured, OneGraph, LoopsOK
  <2>2. prog.main \notin Loop(g) /\ g \in Loop(g)
    BY <2>1, LoopEdges
  <2> QED
    BY <2>1, <2>2
<1>5. \A k \in Going' : k \in Going /\ fpstate'[k] = fpstate[k]
  BY <1>1, <1>2
<1> QED
  BY <1>1, <1>2, <1>3, <1>4, <1>5, <1>a, InputLevel

\* States only grow, and the state of the block that was due is dealt with.
LEMMA OutputLevel ==
    ASSUME Blocks \subseteq Tags, Structured(prog), OneLevel(prog), ValueInv, ValueInv', Exact, Exact',
           NEW h \in Headers, NEW F, LevelInv(h, F), NEW n, n = Rank(h),
           phase' = "turn", UNCHANGED <<prog, code, first, fpstate>>,
           \A e \in DOMAIN mark : e[1] \in Loop(h) /\ e[2] \in Loop(h) =>
               /\ e \in DOMAIN mark' /\ n \in 1 .. Depth(mark'[e])
               /\ ViewCovers(View(mark'[e], n), View(mark[e], n)),
           \A b \in Loop(h) : results[b] # AcsBottom =>
               /\ results'[b] # AcsBottom
               /\ ViewCovers(View(results'[b], n), View(results[b], n)),
           results'[h] # AcsBottom => results[h] # AcsBottom \/ F[h] # {},
           NEW c, c = current,
           \A v : Due(c, n, v) /\ c \in Loop(h) => Seen(h, F, n, c, v)'
    PROVE  LevelInv(h, F)'
<1>1. F \in [Loop(h) -> SUBSET Views]
  BY DEF LevelInv
<1>2. Going' = Going
  BY DEF Going, Headers
<1>3. ASSUME NEW b \in Loop(h), NEW x \in F[b], Seen(h, F, n, b, x)
      PROVE  Seen(h, F, n, b, x)'
  <2>1. ASSUME NEW e \in OutOf(prog, b), e[2] \in Loop(h)
        PROVE  Goes(F, e, n, ViewUpdate(code, b, x))'
    <3>1. PICK z : z = ViewUpdate(code, b, x)
      OBVIOUS
    <3>2. z \in Views
      BY <1>1, <1>3, <3>1, NextView
    <3>3. e \in Edges(prog) /\ e[1] = b /\ b \in prog.blocks /\ e[2] \in prog.blocks
      BY <1>3, LoopEdges
    <3>4. Goes(F, e, n, z)
      BY <1>3, <2>1, <3>1 DEF Seen
    <3>5. ASSUME Waits(e, n, z)
          PROVE  Waits(e, n, z)'
      <4>1. /\ e \in DOMAIN mark /\ ViewCovers(View(mark[e], n), z)
            /\ e[2] \notin Going \/ Back(prog, e)
        BY <3>5 DEF Waits
      <4>2. /\ e \in DOMAIN mark' /\ n \in 1 .. Depth(mark'[e])
            /\ ViewCovers(View(mark'[e], n), View(mark[e], n))
        BY <1>3, <2>1, <3>3, <4>1
      <4>3. View(mark[e], n) \in Views
        <5>1. n \in 1 .. Depth(mark[e])
          BY <1>3, <2>1, <3>3, <4>1, LoopEdges, LevelOnEdge
        <5> QED
          BY <4>1, <5>1, ViewFacts DEF ValueInv, Exact
      <4>4. View(mark'[e], n) \in Views
        <5>1. Proper(mark'[e]) /\ Bounded(mark'[e].must)
          BY <4>2 DEF ValueInv, Exact
        <5> QED
          BY <4>2, <5>1, ViewFacts
      <4>5. ViewCovers(View(mark'[e], n), z)
        BY <3>2, <4>1, <4>2, <4>3, <4>4, ViewFacts
      <4> QED
        BY <1>2, <4>1, <4>2, <4>5 DEF Waits, View
    <3>6. ViewUpdate(code, b, x)' = z
      BY <3>1 DEF ViewUpdate, LastOf
    <3> QED
      BY <3>4, <3>5, <3>6 DEF Goes
  <2>2. results'[b] # AcsBottom /\ ViewCovers(View(results'[b], n), x)
    <3>1. results[b] # AcsBottom /\ ViewCovers(View(results[b], n), x)
      BY <1>3 DEF Seen
    <3>2. results'[b] # AcsBottom /\ ViewCovers(View(results'[b], n), View(results[b], n))
      BY <1>3, <3>1
    <3>3. b \in prog.blocks /\ n \in 1 .. Above(prog, b, {})
      <4>1. b \in prog.blocks /\ h \in Around(prog, b)
        BY <1>3, LoopEdges
      <4>2. n \in Nat /\ n >= 1 /\ n <= Above(prog, b, {}) /\ Above(prog, b, {}) \in Nat
        BY <4>1, RankFacts, AboveType
      <4> QED
        BY <4>1, <4>2
    <3>4. View(results[b], n) \in Views
      BY <3>1, <3>3, ViewFacts DEF Exact
    <3>5. View(results'[b], n) \in Views
      <4>1. Proper(results'[b]) /\ Bounded(results'[b].must) /\ Depth(results'[b]) = Above(prog, b, {})
        BY <3>2, <3>3 DEF Exact
      <4> QED
        BY <3>3, <4>1, ViewFacts
    <3>6. x \in Views
      BY <1>1, <1>3
    <3> QED
      BY <3>1, <3>2, <3>4, <3>5, <3>6, ViewFacts
  <2>3. Loop(h)' = Loop(h) /\ OutOf(prog, b)' = OutOf(prog, b)
    BY DEF Loop, OutOf, Edges
  <2> QED
    BY <2>1, <2>2, <2>3 DEF Seen, View
<1>4. ASSUME NEW b \in Loop(h), NEW x \in F[b]
      PROVE  Due(b, Rank(h), x)' \/ Seen(h, F, Rank(h), b, x)'
  <2>1. Rank(h)' = n
    BY DEF Rank
  <2>2. Due(b, n, x) \/ Seen(h, F, n, b, x)
    BY <1>4 DEF LevelInv
  <2>3. Seen(h, F, n, b, x)'
    <3>1. CASE Due(b, n, x)
      <4>1. b = c
        BY <3>1 DEF Due
      <4> QED
        BY <1>4, <3>1, <4>1
    <3>2. CASE Seen(h, F, n, b, x)
      BY <1>3, <1>4, <3>2
    <3> QED
      BY <2>2, <3>1, <3>2
  <2> QED
    BY <2>1, <2>3
<1>5. \A k \in Going' : k \in Loop(h) => View(fpstate'[k].header, Rank(h)) \in F[k]
  BY <1>2 DEF LevelInv
<1>6. Begun(F, h)'
  BY DEF Begun, LevelInv
<1> QED
  BY <1>1, <1>4, <1>5, <1>6, LevelParts

\* The end of a loop.
LEMMA LeaveLevel ==
    ASSUME Blocks \subseteq Tags, Structured(prog), OneLevel(prog), ValueInv, ValueInv', Exact, Exact',
           NEW E, LoopLeft(E), DOMAIN mark \subseteq Edges(prog),
           NEW h \in Headers, NEW F, LevelInv(h, F)
    PROVE  LevelInv(h, F)'
<1>a. PICK n : n = Rank(h)
  OBVIOUS
<1>1. /\ phase = "output" /\ fixpoint /\ phase' = "turn"
      /\ current \in Headers \ Going /\ E = ExitsOf(prog, current)
      /\ DOMAIN mark' = DOMAIN mark
      /\ \A e \in E : mark'[e] = AcsLeave(mark[e])
      /\ \A e \in DOMAIN mark \ E : mark'[e] = mark[e]
      /\ UNCHANGED <<prog, code, first, fpstate, results>>
  BY DEF LoopLeft
<1>2. ASSUME NEW e \in DOMAIN mark, e[1] \in Loop(h), e[2] \in Loop(h)
      PROVE  /\ e \in DOMAIN mark' /\ n \in 1 .. Depth(mark'[e])
             /\ ViewCovers(View(mark'[e], n), View(mark[e], n))
  <2>1. /\ e \in Edges(prog) /\ Proper(mark[e]) /\ Bounded(mark[e].must) /\ Depth(mark[e]) \in Nat
        /\ e[1] \in prog.blocks /\ e[2] \in prog.blocks
    BY <1>2, EdgeFacts, ProperDepth DEF ValueInv, Exact
  <2>2. h \in Around(prog, e[1]) /\ h \in Around(prog, e[2])
    BY <1>2, <2>1, LoopEdges
  <2>3. n \in 1 .. Depth(mark[e])
    BY <1>a, <1>2, <2>1, <2>2, LevelOnEdge
  <2>4. View(mark[e], n) \in Views /\ ViewCovers(View(mark[e], n), View(mark[e], n))
    BY <2>1, <2>3, ViewFacts
  <2>5. CASE e \notin E
    BY <1>1, <1>2, <2>3, <2>4, <2>5
  <2>6. CASE e \in E
    <3>1. prog.exitOf[e] = current
      BY <1>1, <2>6 DEF ExitsOf
    <3>2. current \in Around(prog, e[1]) /\ current \notin Around(prog, h)
      <4>1. prog.exitOf[e] \in Leaving(prog, e)
        BY <1>1, <2>1, <3>1 DEF Headers, Structured, ExitsRight, LoopsOK
      <4> QED
        BY <2>1, <2>2, <3>1, <4>1, BlockFacts DEF Leaving
    <3>3. Weight(prog, InUse, e) = 0
      BY <1>1, <3>1 DEF Weight, InUse
    <3>4. n + 1 <= Depth(mark[e])
      <4>1. Rank(h) + 1 <= Above(prog, e[1], {})
        BY <2>1, <2>2, <3>2, RankFacts
      <4>2. Depth(mark[e]) + Weight(prog, InUse, e) = Above(prog, e[1], {})
        BY <1>2, MarkExact
      <4> QED
        BY <1>a, <2>1, <3>3, <4>1, <4>2
    <3>5. n \in Nat /\ n < Depth(mark[e]) /\ Depth(mark[e]) > 0
      BY <2>1, <2>3, <3>4
    <3>6. View(AcsLeave(mark[e]), n) = View(mark[e], n)
      BY <2>1, <2>3, <3>5, ViewParts
    <3>7. Depth(AcsLeave(mark[e])) = Depth(mark[e]) - 1
      BY <2>1, <3>5, ProperLeave
    <3>8. mark'[e] = AcsLeave(mark[e])
      BY <1>1, <2>6
    <3>9. n \in 1 .. Depth(mark[e]) - 1
      BY <2>1, <2>3, <3>4
    <3> QED
      BY <1>1, <1>2, <2>4, <3>6, <3>7, <3>8, <3>9
  <2> QED
    BY <2>5, <2>6
<1>3. ASSUME NEW b \in Loop(h), results[b] # AcsBottom
      PROVE  ViewCovers(View(results'[b], n), View(results[b], n))
  <2>1. b \in prog.blocks /\ h \in Around(prog, b)
    BY <1>3, LoopEdges
  <2>2. n \in Nat /\ n >= 1 /\ n <= Above(prog, b, {}) /\ Above(prog, b, {}) \in Nat
    BY <1>a, <2>1, RankFacts, AboveType
  <2>3. View(results[b], n) \in Views
    BY <1>3, <2>1, <2>2, ViewFacts DEF Exact
  <2> QED
    BY <1>1, <2>3, ViewFacts
<1>b. PICK c : c = current
  OBVIOUS
<1>4. \A v : ~ Due(c, n, v)
  BY <1>1 DEF Due
<1> QED
  BY <1>1, <1>2, <1>3, <1>4, <1>a, <1>b, OutputLevel

\* The end of the turn of a body.
LEMMA BodyLevel ==
    ASSUME Blocks \subseteq Tags, Structured(prog), OneLevel(prog), ValueInv, ValueInv', Exact, Exact',
           NEW D, NEW c, NEW O, NEW x, BodyFinished(D, c, O, x),
           NEW h \in Headers, NEW F, LevelInv(h, F)
    PROVE  LevelInv(h, F)'
<1>a. PICK n : n = Rank(h)
  OBVIOUS
<1>1. /\ Control(prog, D, Going, DOMAIN mark, fixed, {c})
      /\ c = current /\ c \in prog.blocks /\ O = OutOf(prog, c)
      /\ phase = "output" /\ ~ fixpoint /\ phase' = "turn"
      /\ Proper(in) /\ x = AcsUpdate(code, c, in)
      /\ DOMAIN mark' = DOMAIN mark \cup O
      /\ \A e \in DOMAIN mark \ O : mark'[e] = mark[e]
      /\ \A b \in prog.blocks \ {c} : results'[b] = results[b]
      /\ UNCHANGED <<prog, code, first, fpstate>>
  BY DEF BodyFinished
<1>2. BodyGives(c, O, x)
  BY BodyExact
<1>3. DOMAIN mark \subseteq Edges(prog) /\ \A e \in O : e[2] \notin Going \/ Back(prog, e)
  BY <1>1 DEF Control, LeadsOn, OutOf
<1>4. ASSUME NEW e \in DOMAIN mark, e[1] \in Loop(h), e[2] \in Loop(h)
      PROVE  /\ e \in DOMAIN mark' /\ n \in 1 .. Depth(mark'[e])
             /\ ViewCovers(View(mark'[e], n), View(mark[e], n))
  <2>1. /\ e \in Edges(prog) /\ Proper(mark[e]) /\ Bounded(mark[e].must)
        /\ e[1] \in prog.blocks /\ e[2] \in prog.blocks
    BY <1>3, <1>4, EdgeFacts DEF ValueInv, Exact
  <2>2. n \in 1 .. Depth(mark[e])
    BY <1>a, <1>4, <2>1, LoopEdges, LevelOnEdge
  <2>3. View(mark[e], n) \in Views /\ ViewCovers(View(mark[e], n), View(mark[e], n))
    BY <2>1, <2>2, ViewFacts
  <2>4. CASE e \notin O
    BY <1>1, <1>4, <2>2, <2>3, <2>4
  <2>5. CASE e \in O
    <3>1. Depth(mark[e]) = Depth(in) /\ Depth(mark'[e]) = Depth(in)
      BY <1>2, <1>4, <2>5 DEF BodyGives
    <3>2. n \in 1 .. Depth(in)
      BY <2>2, <3>1
    <3> QED
      BY <1>1, <1>2, <1>4, <2>5, <3>1, <3>2 DEF BodyGives
  <2> QED
    BY <2>4, <2>5
<1>5. ASSUME NEW b \in Loop(h)
      PROVE  b \in prog.blocks /\ n \in 1 .. Above(prog, b, {})
  <2>1. b \in prog.blocks /\ h \in Around(prog, b)
    BY <1>5, LoopEdges
  <2>2. n \in Nat /\ n >= 1 /\ n <= Above(prog, b, {}) /\ Above(prog, b, {}) \in Nat
    BY <1>a, <2>1, RankFacts, AboveType
  <2> QED
    BY <2>1, <2>2
<1>6. results'[c] # AcsBottom /\ Depth(in) = Above(prog, c, {})
  <2>1. Proper(results'[c]) /\ Depth(in) = Above(prog, c, {})
    BY <1>2 DEF BodyGives
  <2>2. results'[c].bottom = FALSE
    BY <2>1 DEF Proper
  <2>3. AcsBottom.bottom = TRUE
    BY DEF AcsBottom
  <2> QED
    BY <2>1, <2>2, <2>3
<1>7. ASSUME NEW b \in Loop(h), results[b] # AcsBottom
      PROVE  /\ results'[b] # AcsBottom
             /\ ViewCovers(View(results'[b], n), View(results[b], n))
  <2>1. CASE b = c
    <3>1. n \in 1 .. Depth(in)
      BY <1>5, <1>6, <1>7, <2>1
    <3> QED
      BY <1>2, <1>6, <1>7, <2>1, <3>1 DEF BodyGives
  <2>2. CASE b # c
    <3>1. results'[b] = results[b]
      BY <1>1, <1>5, <1>7, <2>2
    <3>2. View(results[b], n) \in Views
      BY <1>5, <1>7, ViewFacts DEF Exact
    <3> QED
      BY <1>7, <3>1, <3>2, ViewFacts
  <2> QED
    BY <2>1, <2>2
<1>8. ASSUME results'[h] # AcsBottom
      PROVE  results[h] # AcsBottom \/ F[h] # {}
  <2>1. h \in Loop(h) /\ h \in prog.blocks
    BY LoopEdges
  <2>2. CASE h = c
    BY <1>1, <2>1, <2>2 DEF LevelInv
  <2>3. CASE h # c
    BY <1>1, <1>8, <2>1, <2>3
  <2> QED
    BY <2>2, <2>3
<1>9. ASSUME NEW v, Due(c, n, v), c \in Loop(h)
      PROVE  Seen(h, F, n, c, v)'
  <2>1. v = View(in, n) /\ n \in 1 .. Depth(in)
    BY <1>5, <1>6, <1>9 DEF Due
  <2>2. ViewUpdate(code, c, v) = View(x, n)
    <3>1. code \in ListsOfBlocks /\ c \in BasicBlocks
      BY <1>1 DEF Structured, OneGraph, ValueInv
    <3> QED
      BY <1>1, <2>1, <3>1, ViewParts
  <2>3. ViewUpdate(code, c, v)' = View(x, n)
    BY <1>1, <2>2 DEF ViewUpdate, LastOf
  <2>4. \A e \in O : Waits(e, n, View(x, n))'
    <3>1. \A e \in O : e \in DOMAIN mark' /\ ViewCovers(View(mark'[e], n), View(x, n))
      BY <1>1, <1>2, <2>1 DEF BodyGives
    <3>2. Going' = Going
      BY <1>1 DEF Going, Headers
    <3> QED
      BY <1>1, <1>3, <3>1, <3>2 DEF Waits, View
  <2>5. OutOf(prog, c)' = O
    BY <1>1 DEF OutOf, Edges
  <2>6. ViewCovers(View(results'[c], n), v)
    BY <1>2, <2>1 DEF BodyGives
  <2> QED
    BY <1>6, <2>3, <2>4, <2>5, <2>6 DEF Seen, Goes, View
<1> QED
  BY <1>1, <1>4, <1>7, <1>8, <1>9, <1>a, OutputLevel

\* A step that changes no state.
LEMMA LevelStays ==
    ASSUME NEW h, NEW F, LevelInv(h, F),
           UNCHANGED <<prog, code, current, in, fixpoint, mark, first, fpstate, results>>,
           phase' = phase \/ (phase # "output" /\ phase' \in {"done", "run"})
    PROVE  LevelInv(h, F)'
<1>1. Going' = Going /\ Rank(h)' = Rank(h) /\ Loop(h)' = Loop(h)
  BY DEF Going, Headers, Rank, Loop
<1>2. ASSUME NEW n, NEW b, NEW x, Seen(h, F, n, b, x)
      PROVE  Seen(h, F, n, b, x)'
  <2>1. PICK z : z = ViewUpdate(code, b, x)
    OBVIOUS
  <2>2. z = ViewUpdate(code, b, x)'
    BY <2>1 DEF ViewUpdate, LastOf
  <2>3. \A e : Goes(F, e, n, z) => Goes(F, e, n, z)'
    BY <1>1 DEF Goes, Waits, View
  <2>4. OutOf(prog, b)' = OutOf(prog, b)
    BY DEF OutOf, Edges
  <2> QED
    BY <1>1, <1>2, <2>1, <2>2, <2>3, <2>4 DEF Seen, View
<1>3. ASSUME NEW b \in Loop(h), NEW x \in F[b]
      PROVE  Due(b, Rank(h), x)' \/ Seen(h, F, Rank(h), b, x)'
  <2>1. PICK n : n = Rank(h)
    OBVIOUS
  <2>2. Due(b, n, x) \/ Seen(h, F, n, b, x)
    BY <1>3, <2>1 DEF LevelInv
  <2>3. Due(b, n, x) => Due(b, n, x)'
    BY <1>3 DEF Due, View
  <2>4. Due(b, n, x)' \/ Seen(h, F, n, b, x)'
    BY <1>2, <2>2, <2>3
  <2> QED
    BY <1>1, <2>1, <2>4
<1>4. /\ \A k \in Going' : k \in Loop(h) => View(fpstate'[k].header, Rank(h)) \in F[k]
      /\ phase' = "output" /\ ~ fixpoint' /\ current' \in Loop(h) => View(in', Rank(h)) \in F[current']
  BY <1>1 DEF LevelInv
<1>5. F \in [Loop(h) -> SUBSET Views] /\ Begun(F, h)'
  BY DEF LevelInv, Begun
<1> QED
  BY <1>3, <1>4, <1>5, LevelParts

(* All the levels.                                                         *)
Levels == OneLevel(prog) /\ Exact /\ \A h \in Headers : \E F : LevelInv(h, F)

\* A step that changes no state, for all the levels.
LEMMA LevelsStay ==
    ASSUME Levels,
           UNCHANGED <<prog, code, unrolling, current, in, fixpoint, mark, first, fpstate, results>>,
           phase' = phase \/ (phase # "output" /\ phase' \in {"done", "run"})
    PROVE  Levels'
<1>1. Exact' /\ OneLevel(prog') /\ Headers' = Headers
  BY ExactStays DEF Levels, Headers
<1>2. ASSUME NEW h \in Headers'
      PROVE  \E F : LevelInv(h, F)'
  <2>1. PICK F : LevelInv(h, F)
    BY <1>1, <1>2 DEF Levels
  <2>2. LevelInv(h, F)'
    BY <2>1, LevelStays
  <2> QED
    BY <2>2
<1> QED
  BY <1>1, <1>2 DEF Levels

\* Every step keeps what is known of the levels.
LEMMA LevelsNext ==
    ASSUME Blocks \subseteq Tags, ScheduleInv, ValueInv, Levels, [Next]_vars
    PROVE  Levels'
<1>1. PICK D, P, X : Scheduled(D, P, X) /\ InTurn(D, P, X)
  BY DEF ScheduleInv
<1>2. Structured(prog) /\ Kept /\ OneLevel(prog) /\ Exact /\ \A h \in Headers : \E F : LevelInv(h, F)
  BY DEF ScheduleInv, Levels
<1>3. ValueInv'
  BY ValueNext
<1>4. CASE MainInput
  <2>1. prog' = prog /\ Headers' = Headers
    BY <1>4 DEF MainInput, Pop, Headers
  <2>2. Exact'
    BY <1>1, <1>2, <1>4, ExactMain
  <2>3. \A h \in Headers : \E F : LevelInv(h, F)'
    BY <1>1, <1>2, <1>4, MainLevel
  <2> QED
    BY <1>2, <2>1, <2>2, <2>3 DEF Levels
<1>5. CASE HeaderInput
  <2>1. PICK h, s, x, reached : HeaderTaken(D, h, s, x, reached)
    BY <1>1, <1>2, <1>5, HeaderTake
  <2>2. prog' = prog /\ Headers' = Headers /\ reached \in BOOLEAN
    BY <2>1 DEF HeaderTaken, HeaderTurned, Headers
  <2>3. Exact'
    BY <1>2, <2>1, ExactHead
  <2>4. ASSUME NEW g \in Headers
        PROVE  \E F : LevelInv(g, F)'
    <3>1. PICK F : LevelInv(g, F)
      BY <1>2, <2>4
    <3>2. CASE g # h \/ reached
      BY <1>2, <2>1, <2>4, <3>1, <3>2, HeadLevel
    <3>3. CASE g = h /\ ~ reached
      <4>1. reached = FALSE
        BY <2>2, <3>3
      <4>2. HeaderTaken(D, h, s, x, FALSE)
        BY <2>1, <4>1
      <4>3. \E F1 : LevelInv(h, F1)'
        BY <1>2, <4>2, BeginLevel
      <4> QED
        BY <3>3, <4>3
    <3> QED
      BY <3>2, <3>3
  <2> QED
    BY <1>2, <2>2, <2>3, <2>4 DEF Levels
<1>6. CASE BlockInput
  <2>1. PICK b, x : BlockTaken(D, b, x)
    BY <1>1, <1>2, <1>6, BlockTake
  <2>2. prog' = prog /\ Headers' = Headers
    BY <2>1 DEF BlockTaken, Headers
  <2>3. Exact'
    BY <1>2, <2>1, ExactBlock
  <2>4. \A h \in Headers : \E F : LevelInv(h, F)'
    BY <1>2, <2>1, BlockLevel
  <2> QED
    BY <1>2, <2>2, <2>3, <2>4 DEF Levels
<1>7. CASE LeaveOutput
  <2>1. PICK E : LoopLeft(E)
    BY <1>1, <1>2, <1>3, <1>7, LeaveFinish
  <2>2. prog' = prog /\ Headers' = Headers
    BY <2>1 DEF LoopLeft, Headers
  <2>3. Exact'
    BY <1>2, <2>1, ExactLeave
  <2>4. DOMAIN mark \subseteq Edges(prog)
    BY <1>1 DEF Scheduled, Control
  <2>5. \A h \in Headers : \A F : LevelInv(h, F) => LevelInv(h, F)'
    BY <1>2, <1>3, <2>1, <2>3, <2>4, LeaveLevel
  <2>6. \A h \in Headers : \E F : LevelInv(h, F)'
    BY <1>2, <2>5
  <2> QED
    BY <1>2, <2>2, <2>3, <2>6 DEF Levels
<1>8. CASE BodyOutput
  <2>1. PICK c, O, x : BodyFinished(D, c, O, x)
    BY <1>1, <1>2, <1>3, <1>8, BodyFinish
  <2>2. prog' = prog /\ Headers' = Headers
    BY <2>1 DEF BodyFinished, Headers
  <2>3. Exact'
    BY <1>2, <2>1, ExactBody
  <2>5. \A h \in Headers : \A F : LevelInv(h, F) => LevelInv(h, F)'
    BY <1>2, <1>3, <2>1, <2>3, BodyLevel
  <2>6. \A h \in Headers : \E F : LevelInv(h, F)'
    BY <1>2, <2>5
  <2> QED
    BY <1>2, <2>2, <2>3, <2>6 DEF Levels
<1>9. CASE Finish
  BY <1>9, LevelsStay DEF Finish
<1>10. CASE StartRun
  BY <1>10, LevelsStay DEF StartRun
<1>11. CASE Run \/ Call \/ Return
  <2>1. UNCHANGED analysis
    BY <1>11 DEF Run, Call, Return, Executed
  <2> QED
    BY <2>1, LevelsStay DEF analysis
<1>12. CASE UNCHANGED vars
  BY <1>12, LevelsStay DEF vars, analysis
<1> QED
  BY <1>4, <1>5, <1>6, <1>7, <1>8, <1>9, <1>10, <1>11, <1>12, NoCallSteps
     DEF Next, Analyse, Solve

\* It is known at the beginning.
LEMMA LevelsInit ==
    ASSUME \A p \in Programs : Structured(p) /\ OneLevel(p), Init
    PROVE  Levels
<1>1. /\ prog \in Programs /\ phase = "turn" /\ first = BasicBlocks
      /\ results = [b \in BasicBlocks |-> AcsBottom]
  BY DEF Init, HaiInit
<1>2. Exact /\ Structured(prog) /\ OneLevel(prog)
  BY <1>1, ExactInit
<1>3. ASSUME NEW h \in Headers
      PROVE  \E F : LevelInv(h, F)
  <2>1. PICK F : F = [b \in Loop(h) |-> {}]
    OBVIOUS
  <2>2. Loop(h) \subseteq BasicBlocks /\ h \in Loop(h)
    BY <1>2, <1>3, LoopEdges DEF Structured, OneGraph
  <2>3. Going = {}
    BY <1>1, <1>2 DEF Going, Headers, Structured, OneGraph, LoopsOK
  <2>4. LevelInv(h, F)
    BY <1>1, <2>1, <2>2, <2>3 DEF LevelInv, Begun
  <2> QED
    BY <2>4
<1> QED
  BY <1>2, <1>3 DEF Levels

-----------------------------------------------------------------------------
(* At the end, in the loop of h at its level: m, the view of the header,   *)
(* and F, those of the blocks, which cover what follows from them.         *)
Follows(F, h, b, v) ==
    \A e \in OutOf(prog, b) : e[2] \in Loop(h) =>
        \E y \in F[e[2]] : ViewCovers(y, ViewUpdate(code, b, v))
Settled(h, F, m) ==
    /\ F \in [Loop(h) -> SUBSET Views] /\ m \in Views /\ F[h] = {m}
    /\ \A b \in Loop(h) : \A v \in F[b] : /\ Follows(F, h, b, v)
                                          /\ ViewCovers(View(results[b], Rank(h)), v)

\* Every loop is settled when the program is run.
LEMMA LevelSettled ==
    ASSUME ScheduleInv, Levels, phase = "run", NEW h \in Headers
    PROVE  \E F, m : Settled(h, F, m)
<1>1. PICK F : LevelInv(h, F)
  BY DEF Levels
<1>2. NothingLeft /\ Structured(prog)
  BY AtTheEnd DEF ScheduleInv
<1>3. h \in Loop(h) /\ h \in prog.blocks
  BY <1>2, LoopEdges
<1>4. results[h] # AcsBottom
  <2>1. AcsLive(results[h])
    BY <1>2, <1>3 DEF NothingLeft
  <2> QED
    BY <2>1 DEF AcsLive, AcsBottom
<1>5. F \in [Loop(h) -> SUBSET Views] /\ F[h] # {} /\ \A v, w \in F[h] : v = w
  BY <1>1, <1>4 DEF LevelInv, Begun
<1>6. PICK m : m \in F[h]
  BY <1>5
<1>7. F[h] = {m} /\ m \in Views
  BY <1>3, <1>5, <1>6
<1>8. ASSUME NEW b \in Loop(h), NEW v \in F[b]
      PROVE  Follows(F, h, b, v) /\ ViewCovers(View(results[b], Rank(h)), v)
  <2>1. Seen(h, F, Rank(h), b, v)
    BY <1>1, <1>8 DEF LevelInv, Due
  <2>2. \A e, z : ~ Waits(e, Rank(h), z)
    BY <1>2 DEF NothingLeft, Waits
  <2> QED
    BY <2>1, <2>2 DEF Seen, Goes, Follows
<1>9. Settled(h, F, m)
  BY <1>5, <1>7, <1>8 DEF Settled
<1> QED
  BY <1>9

\* From the header an edge goes on in the loop.
LEMMA LoopGoesOn ==
    ASSUME Structured(prog), NEW h \in Headers
    PROVE  \E e \in OutOf(prog, h) : e[2] \in Loop(h)
<1>1. h \in prog.blocks /\ h \in Loop(h) /\ Loop(h) \subseteq prog.blocks
  BY LoopEdges
<1>2. PICK f \in prog.ins[h] : Back(prog, f)
  BY DEF Headers, Structured, LoopsOK
<1>3. f \in Edges(prog) /\ f[2] = h /\ f[1] \in Loop(h)
  <2>1. f \in Edges(prog) /\ f[2] = h
    BY <1>1, BlockFacts
  <2>2. h \in Around(prog, f[1])
    BY <1>2, <2>1, EdgeFacts
  <2> QED
    BY <2>1, <2>2 DEF Around, Loop
<1>4. CASE f[1] = h
  BY <1>1, <1>3, <1>4 DEF OutOf
<1>5. CASE f[1] # h
  <2>1. PICK S : S = Loop(h) \ {h}
    OBVIOUS
  <2>2. S \in SUBSET prog.blocks /\ S # {}
    BY <1>1, <1>3, <1>5, <2>1
  <2>3. PICK v \in S : \A e \in prog.ins[v] : e[1] \in S => Back(prog, e)
    BY <2>2 DEF Structured, NoCycle
  <2>4. v \in prog.blocks /\ v \in Loop(h) /\ v # h
    BY <2>1, <2>2
  <2>5. h \in Around(prog, v)
    BY <2>4, LoopEdges
  <2>6. v # prog.main
    BY <2>4, <2>5, BlockFacts
  <2>7. PICK e \in prog.ins[v] : ~ Back(prog, e)
    BY <2>4, <2>6, BlockFacts
  <2>8. e \in Edges(prog) /\ e[2] = v /\ e[1] \in prog.blocks
    BY <2>4, BlockFacts, EdgeFacts
  <2>9. h \in Around(prog, e[1])
    BY <2>4, <2>5, <2>8, EdgeFacts
  <2>10. e[1] \in Loop(h)
    BY <2>8, <2>9, LoopEdges
  <2>11. e[1] = h
    BY <2>1, <2>3, <2>7, <2>10
  <2> QED
    BY <2>4, <2>8, <2>11 DEF OutOf
<1> QED
  BY <1>4, <1>5

(* v is covered at b.                                                      *)
Reaches(F, b, v) == v \in Views /\ \E w \in F[b] : ViewCovers(w, v)

\* What a covered view becomes is covered along each edge of the loop.
LEMMA ReachStep ==
    ASSUME Blocks \subseteq Tags, Structured(prog), ValueInv,
           NEW h \in Headers, NEW F, NEW m, Settled(h, F, m),
           NEW b \in Loop(h), NEW v, Reaches(F, b, v)
    PROVE  /\ ViewUpdate(code, b, v) \in Views
           /\ \A e \in OutOf(prog, b) : e[2] \in Loop(h) => Reaches(F, e[2], ViewUpdate(code, b, v))
<1>1. PICK w \in F[b] : ViewCovers(w, v)
  BY DEF Reaches
<1>2. F \in [Loop(h) -> SUBSET Views] /\ Follows(F, h, b, w) /\ v \in Views
  BY DEF Settled, Reaches
<1>3. w \in Views /\ b \in BasicBlocks /\ code \in ListsOfBlocks
  BY <1>1, <1>2, LoopEdges DEF Structured, OneGraph, ValueInv
<1>4. PICK u : u = ViewUpdate(code, b, v)
  OBVIOUS
<1>5. PICK z : z = ViewUpdate(code, b, w)
  OBVIOUS
<1>6. u \in Views /\ z \in Views /\ ViewCovers(z, u)
  BY <1>1, <1>2, <1>3, <1>4, <1>5, ViewUpdateFacts
<1>7. ASSUME NEW e \in OutOf(prog, b), e[2] \in Loop(h)
      PROVE  Reaches(F, e[2], u)
  <2>1. PICK y \in F[e[2]] : ViewCovers(y, z)
    BY <1>2, <1>5, <1>7 DEF Follows
  <2>2. y \in Views
    BY <1>2, <1>7, <2>1
  <2>3. ViewCovers(y, u)
    BY <1>6, <2>1, <2>2, ViewFacts
  <2> QED
    BY <1>6, <2>1, <2>3 DEF Reaches
<1> QED
  BY <1>4, <1>6, <1>7

\* What is kept by the blocks of a loop comes back to its header.
LEMMA LoopReturns ==
    ASSUME Blocks \subseteq Tags, Structured(prog), ValueInv,
           NEW h \in Headers, NEW F, NEW m, Settled(h, F, m),
           NEW Q, \A b \in Loop(h) : \A v \in Q : Reaches(F, b, v) => ViewUpdate(code, b, v) \in Q,
           NEW c \in Loop(h), NEW x, Reaches(F, c, x), ViewUpdate(code, c, x) \in Q
    PROVE  \E w \in Q : w \in Views /\ ViewCovers(m, w)
<1>1. PICK T : T = {b \in Loop(h) : \A v : Reaches(F, b, v) /\ ViewUpdate(code, b, v) \in Q
                                              => \E w \in Q : w \in Views /\ ViewCovers(m, w)}
  OBVIOUS
<1>2. F[h] = {m} /\ h \in Loop(h) /\ h \in prog.blocks /\ Loop(h) \subseteq prog.blocks
  BY LoopEdges DEF Settled
<1>3. ASSUME NEW b \in Loop(h), NEW e \in OutOf(prog, b), e[2] = h \/ e[2] \in T
      PROVE  b \in T
  <2> SUFFICES ASSUME NEW v, Reaches(F, b, v), ViewUpdate(code, b, v) \in Q
               PROVE  \E w \in Q : w \in Views /\ ViewCovers(m, w)
    BY <1>1, <1>3
  <2>1. PICK u : u = ViewUpdate(code, b, v)
    OBVIOUS
  <2>2. e[2] \in Loop(h)
    BY <1>1, <1>2, <1>3
  <2>3. Reaches(F, e[2], u) /\ u \in Q /\ u \in Views
    BY <1>3, <2>1, <2>2, ReachStep
  <2>4. CASE e[2] = h
    <3>1. \E w \in F[h] : ViewCovers(w, u)
      BY <2>3, <2>4 DEF Reaches
    <3> QED
      BY <1>2, <2>3, <3>1
  <2>5. CASE e[2] \in T
    <3>1. ViewUpdate(code, e[2], u) \in Q
      BY <2>2, <2>3
    <3> QED
      BY <1>1, <2>3, <2>5, <3>1
  <2> QED
    BY <1>3, <2>4, <2>5
<1>4. ASSUME NEW e \in prog.ins[h], Back(prog, e)
      PROVE  e[1] \in T
  <2>1. e \in Edges(prog) /\ e[2] = h /\ e[1] \in prog.blocks
    BY <1>2, BlockFacts, EdgeFacts
  <2>2. h \in Around(prog, e[1])
    BY <1>4, <2>1, EdgeFacts
  <2>3. e[1] \in Loop(h)
    BY <2>1, <2>2, LoopEdges
  <2>4. e \in OutOf(prog, e[1])
    BY <2>1 DEF OutOf
  <2> QED
    BY <1>3, <2>1, <2>3, <2>4
<1>5. ASSUME NEW e \in Edges(prog), e[2] \in T \ {h}
      PROVE  e[1] \in T
  <2>1. e[1] \in prog.blocks /\ e[2] \in prog.blocks /\ e[2] \in Loop(h)
    BY <1>1, <1>5, EdgeFacts
  <2>2. h \in Around(prog, e[2])
    BY <2>1, LoopEdges
  <2>3. h \in Around(prog, e[1])
    BY <1>5, <2>2, EdgeFacts
  <2>4. e[1] \in Loop(h) /\ e \in OutOf(prog, e[1])
    BY <2>1, <2>3, LoopEdges DEF OutOf
  <2> QED
    BY <1>3, <1>5, <2>4
<1>6. Loop(h) \ {h} \subseteq T
  <2>1. T \in SUBSET Loop(h)
    BY <1>1
  <2> QED
    BY <1>4, <1>5, <2>1 DEF Loop, Headers, Structured, LoopsOK
<1>7. h \in T
  <2>1. PICK e \in OutOf(prog, h) : e[2] \in Loop(h)
    BY LoopGoesOn
  <2>2. e[2] = h \/ e[2] \in T
    BY <1>6, <2>1
  <2> QED
    BY <1>2, <1>3, <2>2
<1>8. c \in T
  BY <1>6, <1>7
<1> QED
  BY <1>1, <1>8

\* All the blocks of the loop were interpreted.
LEMMA LoopSeen ==
    ASSUME Structured(prog), NEW h \in Headers, NEW F, NEW m, Settled(h, F, m),
           NEW b \in Loop(h)
    PROVE  F[b] # {}
<1> SUFFICES ASSUME F[b] = {}
             PROVE  FALSE
  OBVIOUS
<1>1. h \in Loop(h) /\ Loop(h) \subseteq prog.blocks
  BY LoopEdges
<1>2. PICK S : S = {c \in Loop(h) : F[c] = {}}
  OBVIOUS
<1>3. S \in SUBSET prog.blocks /\ S # {} /\ h \notin S
  BY <1>1, <1>2 DEF Settled
<1>4. PICK v \in S : \A e \in prog.ins[v] : e[1] \in S => Back(prog, e)
  BY <1>3 DEF Structured, NoCycle
<1>5. v \in prog.blocks /\ v \in Loop(h) /\ v # h /\ F[v] = {}
  BY <1>2, <1>3, <1>4
<1>6. h \in Around(prog, v)
  BY <1>5, LoopEdges
<1>7. v # prog.main
  BY <1>5, <1>6, BlockFacts
<1>8. PICK e \in prog.ins[v] : ~ Back(prog, e)
  BY <1>5, <1>7, BlockFacts
<1>9. e \in Edges(prog) /\ e[2] = v /\ e[1] \in prog.blocks
  BY <1>5, BlockFacts, EdgeFacts
<1>10. h \in Around(prog, e[1])
  BY <1>5, <1>6, <1>9, EdgeFacts
<1>11. e[1] \in Loop(h) /\ e \in OutOf(prog, e[1])
  BY <1>9, <1>10, LoopEdges DEF OutOf
<1>12. F[e[1]] # {}
  BY <1>2, <1>4, <1>8, <1>11
<1>13. PICK w \in F[e[1]] : TRUE
  BY <1>12
<1>14. \E y \in F[e[2]] : ViewCovers(y, ViewUpdate(code, e[1], w))
  BY <1>5, <1>9, <1>11, <1>13 DEF Settled, Follows
<1> QED
  BY <1>5, <1>9, <1>14

\* What was accessed stays so; what is accessed has age 0.
LEMMA InjectKeeps ==
    ASSUME NEW x \in Item, NEW m, NEW id \in Blocks
    PROVE  /\ ItemInject(x, m, id)[id] = 0
           /\ \A b \in Blocks : x[b] # Absent => ItemInject(x, m, id)[b] # Absent
<1>1. ASSUME NEW b \in Blocks, x[b] # Absent
      PROVE  ItemInject(x, m, id)[b] # Absent
  <2>1. x[b] \in Int /\ x[b] >= 0 /\ x[b] + 1 # -1 /\ 0 # -1
    <3>1. x[b] \in Absent .. A
      BY DEF Item
    <3> QED
      BY <1>1, <3>1, AAssumption DEF Absent
  <2> QED
    BY <1>1, <2>1 DEF ItemInject, Absent
<1>2. ItemInject(x, m, id)[id] = 0
  BY DEF ItemInject
<1> QED
  BY <1>1, <1>2

\* The same of the update of a view.
LEMMA UpdateKeeps ==
    ASSUME NEW c \in ListsOfBlocks, NEW b \in BasicBlocks, NEW v \in Views
    PROVE  /\ \A t \in Blocks : v.item[t] # Absent => ViewUpdate(c, b, v).item[t] # Absent
           /\ c[b] # <<>> => ViewUpdate(c, b, v).item[LastOf(c, b)] = 0
<1>1. v.item \in Item
  BY ViewFacts
<1>2. CASE c[b] = <<>>
  BY <1>2 DEF ViewUpdate
<1>3. CASE c[b] # <<>>
  <2>1. PICK id : id = LastOf(c, b)
    OBVIOUS
  <2>2. id \in Blocks
    BY <1>3, <2>1, LastIsBlock
  <2>3. ViewUpdate(c, b, v).item = ItemInject(v.item, v.must, id)
    BY <1>3, <2>1 DEF ViewUpdate
  <2> QED
    BY <1>1, <2>1, <2>2, <2>3, InjectKeeps
<1> QED
  BY <1>2, <1>3

\* The header has seen every block that its loop accesses.
LEMMA LoopIds ==
    ASSUME Blocks \subseteq Tags, Structured(prog), ValueInv,
           NEW h \in Headers, NEW F, NEW m, Settled(h, F, m),
           NEW b \in Loop(h), code[b] # <<>>
    PROVE  LastOf(code, b) \in Blocks /\ m.item[LastOf(code, b)] # Absent
<1>1. PICK id : id = LastOf(code, b)
  OBVIOUS
<1>2. code \in ListsOfBlocks /\ Loop(h) \subseteq BasicBlocks
  BY LoopEdges DEF ValueInv, Structured, OneGraph
<1>3. id \in Blocks
  BY <1>1, <1>2, LastIsBlock
<1>4. PICK Q : Q = {v \in Views : v.item[id] # Absent}
  OBVIOUS
<1>5. ASSUME NEW c \in Loop(h), NEW v \in Q, Reaches(F, c, v)
      PROVE  ViewUpdate(code, c, v) \in Q
  <2>1. v \in Views /\ v.item[id] # Absent /\ c \in BasicBlocks
    BY <1>2, <1>4
  <2>2. ViewUpdate(code, c, v).item[id] # Absent
    BY <1>2, <1>3, <2>1, UpdateKeeps
  <2>3. ViewUpdate(code, c, v) \in Views
    BY <1>5, ReachStep
  <2> QED
    BY <1>4, <2>2, <2>3
<1>6. PICK x \in F[b] : TRUE
  BY LoopSeen
<1>7. x \in Views /\ Reaches(F, b, x)
  <2>1. x \in Views
    BY <1>6 DEF Settled
  <2> QED
    BY <1>6, <2>1, ViewFacts DEF Reaches
<1>8. ViewUpdate(code, b, x) \in Q
  <2>1. ViewUpdate(code, b, x).item[id] = 0
    BY <1>1, <1>2, <1>7, UpdateKeeps
  <2>2. ViewUpdate(code, b, x) \in Views
    BY <1>7, ReachStep
  <2>3. 0 # Absent
    BY DEF Absent
  <2> QED
    BY <1>4, <2>1, <2>2, <2>3
<1>9. PICK w \in Q : w \in Views /\ ViewCovers(m, w)
  BY <1>5, <1>7, <1>8, LoopReturns
<1>10. m.item[id] # Absent
  <2>1. w.item[id] # Absent /\ w.item \in Item /\ m.item \in Item
    BY <1>4, <1>9, ViewFacts DEF Settled
  <2>2. w.item[id] <= m.item[id]
    BY <1>3, <1>9 DEF ViewCovers, ItemCovers
  <2>3. w.item[id] \in Absent .. A /\ m.item[id] \in Absent .. A
    BY <1>3, <2>1 DEF Item
  <2> QED
    BY <2>1, <2>2, <2>3, AAssumption DEF Absent
<1> QED
  BY <1>1, <1>3, <1>10

(* What was seen at m was seen at v.                                       *)
SeenIn(m, v) == \A t \in Blocks : m.item[t] # Absent => v.item[t] # Absent

\* A block that may be missed makes room at the header for one more.
LEMMA LoopFits ==
    ASSUME Blocks \subseteq Tags, Structured(prog), ValueInv,
           NEW h \in Headers, NEW F, NEW m, Settled(h, F, m),
           NEW b \in Loop(h), code[b] # <<>>, NEW v, Reaches(F, b, v), SeenIn(m, v),
           v.must[LastOf(code, b)] = Absent,
           NEW j \in 0 .. A - 1, Fits(v.item, j)
    PROVE  Fits(m.item, j + 1)
<1>2. code \in ListsOfBlocks /\ Loop(h) \subseteq BasicBlocks /\ m \in Views /\ v \in Views
  BY LoopEdges DEF ValueInv, Structured, OneGraph, Settled, Reaches
<1>3. j \in 0 .. A /\ j + 1 \in 0 .. A /\ j < A
  BY AAssumption
<1>4. PICK Q : Q = {w \in Views : SeenIn(m, w) /\ Fits(w.item, j + 1)}
  OBVIOUS
<1>5. ASSUME NEW c \in Loop(h), NEW w \in Q, Reaches(F, c, w)
      PROVE  ViewUpdate(code, c, w) \in Q
  <2>1. w \in Views /\ SeenIn(m, w) /\ Fits(w.item, j + 1) /\ c \in BasicBlocks
    BY <1>2, <1>4
  <2>2. PICK u : u = ViewUpdate(code, c, w)
    OBVIOUS
  <2>3. u \in Views
    BY <1>5, <2>2, ReachStep
  <2>4. SeenIn(m, u)
    BY <1>2, <2>1, <2>2, UpdateKeeps DEF SeenIn
  <2>5. Fits(u.item, j + 1)
    <3>1. CASE code[c] = <<>>
      BY <2>1, <2>2, <3>1 DEF ViewUpdate
    <3>2. CASE code[c] # <<>>
      <4>1. PICK id : id = LastOf(code, c)
        OBVIOUS
      <4>2. id \in Blocks /\ w.item[id] # Absent
        BY <2>1, <3>2, <4>1, LoopIds DEF SeenIn
      <4>3. u.item = ItemInject(w.item, w.must, id)
        BY <2>2, <3>2, <4>1 DEF ViewUpdate
      <4>4. w.item \in Item /\ w.must \in MustDomain
        BY <2>1, ViewFacts
      <4> QED
        BY <1>3, <2>1, <4>2, <4>3, <4>4, FitsInject
    <3> QED
      BY <3>1, <3>2
  <2> QED
    BY <1>4, <2>2, <2>3, <2>4, <2>5
<1>6. ViewUpdate(code, b, v) \in Q
  <2>1. PICK id : id = LastOf(code, b)
    OBVIOUS
  <2>2. id \in Blocks
    BY <2>1, LoopIds
  <2>3. PICK u : u = ViewUpdate(code, b, v)
    OBVIOUS
  <2>4. u.item = ItemInject(v.item, v.must, id)
    BY <2>1, <2>3 DEF ViewUpdate
  <2>5. v.item \in Item /\ v.must \in MustDomain
    BY <1>2, ViewFacts
  <2>6. Fits(u.item, j + 1)
    BY <1>3, <2>1, <2>2, <2>4, <2>5, FitsInject
  <2>7. SeenIn(m, u)
    BY <1>2, <2>3, UpdateKeeps DEF SeenIn
  <2>8. u \in Views
    BY <2>3, ReachStep
  <2> QED
    BY <1>4, <2>3, <2>6, <2>7, <2>8
<1>7. PICK w \in Q : w \in Views /\ ViewCovers(m, w)
  BY <1>5, <1>6, LoopReturns
<1>8. SeenIn(m, w) /\ Fits(w.item, j + 1) /\ w.item \in Item /\ m.item \in Item
  BY <1>2, <1>4, <1>7, ViewFacts
<1>9. ItemCovers(m.item, w.item)
  BY <1>7 DEF ViewCovers
<1> QED
  BY <1>3, <1>8, <1>9, FitsOlder DEF SeenIn

-----------------------------------------------------------------------------
(* v follows the run from the header of a loop on, as m, that the header    *)
(* ended with, tells: what m leaves room for, v does.                      *)
Shadow(F, m, b, v) ==
    Reaches(F, b, v) /\ SeenIn(m, v) /\ \A j \in 0 .. A : Fits(m.item, j) => Fits(v.item, j)

\* The header starts it.
LEMMA ShadowStart ==
    ASSUME NEW h \in Headers, NEW F, NEW m, Settled(h, F, m)
    PROVE  Shadow(F, m, h, m)
BY ViewFacts DEF Settled, Shadow, Reaches, SeenIn

\* It goes along each edge of the loop.
LEMMA ShadowStep ==
    ASSUME Blocks \subseteq Tags, Structured(prog), ValueInv,
           NEW h \in Headers, NEW F, NEW m, Settled(h, F, m),
           NEW b \in Loop(h), NEW v, Shadow(F, m, b, v),
           NEW e \in OutOf(prog, b), e[2] \in Loop(h)
    PROVE  Shadow(F, m, e[2], ViewUpdate(code, b, v))
<1>1. PICK u : u = ViewUpdate(code, b, v)
  OBVIOUS
<1>2. v \in Views /\ Reaches(F, b, v) /\ SeenIn(m, v)
  BY DEF Shadow, Reaches
<1>3. code \in ListsOfBlocks /\ b \in BasicBlocks
  BY LoopEdges DEF ValueInv, Structured, OneGraph
<1>4. Reaches(F, e[2], u)
  BY <1>1, <1>2, ReachStep
<1>5. SeenIn(m, u)
  BY <1>1, <1>2, <1>3, UpdateKeeps DEF SeenIn
<1>6. ASSUME NEW j \in 0 .. A, Fits(v.item, j)
      PROVE  Fits(u.item, j)
  <2>1. CASE code[b] = <<>>
    BY <1>1, <1>6, <2>1 DEF ViewUpdate
  <2>2. CASE code[b] # <<>>
    <3>1. PICK id : id = LastOf(code, b)
      OBVIOUS
    <3>2. id \in Blocks /\ v.item[id] # Absent
      BY <1>2, <2>2, <3>1, LoopIds DEF SeenIn
    <3>3. u.item = ItemInject(v.item, v.must, id)
      BY <1>1, <2>2, <3>1 DEF ViewUpdate
    <3>4. v.item \in Item /\ v.must \in MustDomain
      BY <1>2, ViewFacts
    <3> QED
      BY <1>6, <3>2, <3>3, <3>4, FitsInject
  <2> QED
    BY <2>1, <2>2
<1>7. \A j \in 0 .. A : Fits(m.item, j) => Fits(u.item, j)
  BY <1>6 DEF Shadow
<1> QED
  BY <1>1, <1>4, <1>5, <1>7 DEF Shadow

\* Where a block may be missed, v leaves room for all the ways.
LEMMA ShadowFull ==
    ASSUME Blocks \subseteq Tags, Structured(prog), ValueInv,
           NEW h \in Headers, NEW F, NEW m, Settled(h, F, m),
           NEW b \in Loop(h), NEW v, Shadow(F, m, b, v), code[b] # <<>>,
           v.must[LastOf(code, b)] = Absent
    PROVE  Fits(v.item, A)
<1>1. PICK T : T = {j \in Nat : j <= A => Fits(v.item, j)}
  OBVIOUS
<1>2. 0 \in T
  <2>1. 0 .. 0 - 1 = {}
    OBVIOUS
  <2> QED
    BY <1>1, <2>1 DEF Fits
<1>3. ASSUME NEW n \in T
      PROVE  n + 1 \in T
  <2>1. n \in Nat /\ (n <= A => Fits(v.item, n))
    BY <1>1
  <2>2. CASE n + 1 <= A
    <3>1. n \in 0 .. A - 1 /\ n + 1 \in 0 .. A /\ Fits(v.item, n)
      BY <2>1, <2>2, AAssumption
    <3>2. Reaches(F, b, v) /\ SeenIn(m, v)
      BY DEF Shadow
    <3>3. Fits(m.item, n + 1)
      BY <3>1, <3>2, LoopFits
    <3>4. Fits(v.item, n + 1)
      BY <3>1, <3>3 DEF Shadow
    <3> QED
      BY <1>1, <2>1, <3>4
  <2>3. CASE ~ (n + 1 <= A)
    BY <1>1, <2>1, <2>3
  <2> QED
    BY <2>2, <2>3
<1>4. T = Nat
  <2>1. T \in SUBSET Nat
    BY <1>1
  <2> QED
    BY <1>2, <1>3, <2>1, AllNaturals
<1>5. A \in T /\ A <= A
  BY <1>4, AAssumption
<1> QED
  BY <1>1, <1>5

(* R and H are what was accessed since the header was entered, to which    *)
(* the line l and the ages of v are true.                                  *)
Trace(v, R, H, l) == /\ History(R, H) /\ Recent(R, H, l)
                     /\ PersOrder(R, H, v.item) /\ MustOrder(R, H, v.must)

\* Nothing was accessed at the header.
LEMMA TraceStart ==
    ASSUME NEW v, NEW l
    PROVE  Trace(v, [t \in Blocks |-> {}], {}, l)
BY DEF Trace, History, Recent, PersOrder, MustOrder

\* A block with one access, or none, is executed.
LEMMA TraceStep ==
    ASSUME Blocks \subseteq Tags, NEW c \in OnePerBlock, NEW b \in BasicBlocks,
           NEW v \in Views, NEW l \in Lines, NEW R, NEW H, Trace(v, R, H, l)
    PROVE  \E Q : Trace(ViewUpdate(c, b, v), Q,
                        IF c[b] = <<>> THEN H ELSE H \cup {FirstOf(c, b)}, LineAfter(l, c[b]))
<1>1. CASE c[b] = <<>>
  BY <1>1, OneLine DEF ViewUpdate
<1>2. CASE c[b] # <<>>
  <2>1. PICK id : id = FirstOf(c, b)
    OBVIOUS
  <2>2. id \in Blocks /\ LastOf(c, b) = id /\ LineAfter(l, c[b]) = LRUAccess(id, l)
    BY <1>2, <2>1, OneLine
  <2>3. PICK u : u = ViewUpdate(c, b, v)
    OBVIOUS
  <2>4. u = [must |-> MustInject(v.must, id), item |-> ItemInject(v.item, v.must, id)]
    BY <1>2, <2>2, <2>3 DEF ViewUpdate
  <2>5. v.item \in Item /\ v.must \in MustDomain
    BY ViewFacts
  <2>6. History(R, H) /\ Recent(R, H, l) /\ PersOrder(R, H, v.item) /\ MustOrder(R, H, v.must)
    BY DEF Trace
  <2>7. PICK Q : Q = After(R, id)
    OBVIOUS
  <2>8. History(Q, H \cup {id}) /\ Recent(Q, H \cup {id}, LRUAccess(id, l))
    BY <2>2, <2>6, <2>7, HistoryAfter, RecentAfter
  <2>9. PersOrder(Q, H \cup {id}, u.item) /\ MustOrder(Q, H \cup {id}, u.must)
    BY <2>2, <2>4, <2>5, <2>6, <2>7, OrderAfter
  <2>10. Trace(u, Q, H \cup {id}, LRUAccess(id, l))
    BY <2>8, <2>9 DEF Trace
  <2> QED
    BY <1>2, <2>1, <2>2, <2>3, <2>10
<1> QED
  BY <1>1, <1>2

\* A block that is missed again in the loop is not persistent in it.
LEMMA MissedTwice ==
    ASSUME Blocks \subseteq Tags, Structured(prog), ValueInv, Exact,
           NEW h \in Headers, NEW F, NEW m, Settled(h, F, m),
           NEW b \in Loop(h), NEW v, Shadow(F, m, b, v),
           code \in OnePerBlock, code[b] # <<>>, NEW t, t = FirstOf(code, b),
           NEW l, NEW R, NEW H, Trace(v, R, H, l), t \in H, ~ Holds(l, t),
           results[b] # AcsBottom
    PROVE  results[b].pers.data[Rank(h)][t] = A
<1>1. b \in prog.blocks /\ b \in BasicBlocks /\ h \in Around(prog, b)
  BY LoopEdges DEF Structured, OneGraph
<1>2. t \in Blocks /\ t = LastOf(code, b)
  BY <1>1, OneLine
<1>3. v \in Views /\ Reaches(F, b, v)
  BY DEF Shadow, Reaches
<1>4. v.item \in Item /\ v.must \in MustDomain /\ Bounded(v.must)
  BY <1>3, ViewFacts
<1>5. PICK k : Bounds(v.must, k)
  BY <1>4 DEF Bounded
<1>6. v.must[t] = Absent /\ (Fits(v.item, A) => v.item[t] = A)
  <2>1. History(R, H) /\ Recent(R, H, l) /\ PersOrder(R, H, v.item) /\ MustOrder(R, H, v.must)
    BY DEF Trace
  <2> QED
    BY <1>4, <1>5, <2>1, SecondMiss
<1>7. v.item[t] = A
  BY <1>2, <1>6, ShadowFull
<1>8. PICK w \in F[b] : ViewCovers(w, v)
  BY <1>3 DEF Reaches
<1>9. PICK x : x = View(results[b], Rank(h))
  OBVIOUS
<1>10. w \in Views /\ ViewCovers(x, w)
  BY <1>8, <1>9 DEF Settled
<1>11. x \in Views
  <2>1. /\ Proper(results[b]) /\ Bounded(results[b].must)
        /\ Depth(results[b]) = Above(prog, b, {})
    BY <1>1 DEF Exact
  <2>2. Rank(h) \in 1 .. Depth(results[b])
    <3>1. Rank(h) \in Nat /\ Rank(h) >= 1 /\ Rank(h) <= Above(prog, b, {})
      BY <1>1, RankFacts
    <3>2. Depth(results[b]) \in Nat
      BY <2>1, ProperDepth
    <3> QED
      BY <2>1, <3>1, <3>2
  <2> QED
    BY <1>9, <2>1, <2>2, ViewFacts
<1>12. ViewCovers(x, v)
  BY <1>3, <1>8, <1>10, <1>11, ViewFacts
<1>13. v.item[t] <= x.item[t]
  BY <1>2, <1>12 DEF ViewCovers, ItemCovers
<1>14. x.item[t] \in Absent .. A
  BY <1>2, <1>11, ViewFacts DEF Item
<1>15. x.item[t] = A
  BY <1>7, <1>13, <1>14, AAssumption DEF Absent
<1> QED
  BY <1>9, <1>15 DEF View

-----------------------------------------------------------------------------
\* Induction over the subsets of a finite set: G is all of them.
LEMMA AllSubsets ==
    ASSUME NEW Z, IsFiniteSet(Z), NEW G, {} \in G,
           \A T \in SUBSET Z : T # {} /\ (\A x \in T : T \ {x} \in G) => T \in G
    PROVE  \A T \in SUBSET Z : T \in G
<1>1. PICK N : N = {n \in Nat : \A T \in SUBSET Z : Cardinality(T) <= n => T \in G}
  OBVIOUS
<1>2. \A T \in SUBSET Z : IsFiniteSet(T) /\ Cardinality(T) \in Nat
  BY FS_Subset, FS_CardinalityType
<1>3. 0 \in N
  <2>1. ASSUME NEW T \in SUBSET Z, Cardinality(T) <= 0
        PROVE  T \in G
    <3>1. T = {}
      BY <1>2, <2>1, FS_EmptySet
    <3> QED
      BY <3>1
  <2> QED
    BY <1>1, <2>1
<1>4. ASSUME NEW n \in N
      PROVE  n + 1 \in N
  <2>1. n \in Nat /\ \A T \in SUBSET Z : Cardinality(T) <= n => T \in G
    BY <1>1
  <2>2. ASSUME NEW T \in SUBSET Z, Cardinality(T) <= n + 1
        PROVE  T \in G
    <3>1. CASE T = {}
      BY <3>1
    <3>2. CASE T # {}
      <4>1. ASSUME NEW x \in T
            PROVE  T \ {x} \in G
        <5>1. Cardinality(T \ {x}) = Cardinality(T) - 1 /\ Cardinality(T) \in Nat
          BY <1>2, SmallerSet
        <5>2. Cardinality(T \ {x}) <= n
          BY <2>1, <2>2, <5>1
        <5> QED
          BY <2>1, <5>2
      <4> QED
        BY <3>2, <4>1
    <3> QED
      BY <3>1, <3>2
  <2> QED
    BY <1>1, <2>1, <2>2
<1>5. N = Nat
  <2>1. N \in SUBSET Nat
    BY <1>1
  <2> QED
    BY <1>3, <1>4, <2>1, AllNaturals
<1>6. ASSUME NEW T \in SUBSET Z
      PROVE  T \in G
  <2>1. Cardinality(T) \in N /\ Cardinality(T) <= Cardinality(T)
    BY <1>2, <1>5
  <2> QED
    BY <1>1, <2>1
<1> QED
  BY <1>6

(* The sums of m, over the sets of blocks in Z.                            *)
SumsOf(M, Z, m) ==
    /\ M[{}] = 0
    /\ \A T \in SUBSET Z : T # {} => \E b \in T : M[T] = M[T \ {b}] + m[b]

\* Whichever block is taken off.
LEMMA SumsAny ==
    ASSUME NEW Z, IsFiniteSet(Z), NEW m, \A b \in Z : m[b] \in Nat, NEW M, SumsOf(M, Z, m)
    PROVE  \A T \in SUBSET Z : M[T] \in Nat /\ \A x \in T : M[T] = M[T \ {x}] + m[x]
<1>1. PICK G : G = {T \in SUBSET Z : /\ \A U \in SUBSET T : M[U] \in Nat
                                      /\ \A x \in T : M[T] = M[T \ {x}] + m[x]}
  OBVIOUS
<1>2. {} \in G
  <2>1. M[{}] = 0
    BY DEF SumsOf
  <2>2. \A U \in SUBSET {} : M[U] \in Nat
    BY <2>1
  <2>3. {} \in SUBSET Z /\ \A x \in {} : M[{}] = M[{} \ {x}] + m[x]
    OBVIOUS
  <2> QED
    BY <1>1, <2>2, <2>3
<1>3. ASSUME NEW T \in SUBSET Z, T # {}, \A x \in T : T \ {x} \in G
      PROVE  T \in G
  <2>1. PICK b \in T : M[T] = M[T \ {b}] + m[b]
    BY <1>3 DEF SumsOf
  <2>2. M[T \ {b}] \in Nat /\ m[b] \in Nat
    BY <1>1, <1>3
  <2>3. ASSUME NEW x \in T, x # b
        PROVE  M[T] = M[T \ {x}] + m[x]
    <3>1. PICK R : R = (T \ {b}) \ {x}
      OBVIOUS
    <3>2. R = (T \ {x}) \ {b} /\ R \in SUBSET (T \ {b})
      BY <3>1
    <3>3. M[T \ {b}] = M[R] + m[x]
      BY <1>1, <1>3, <2>3, <3>1
    <3>4. M[T \ {x}] = M[R] + m[b]
      BY <1>1, <1>3, <2>3, <3>2
    <3>5. M[R] \in Nat /\ m[x] \in Nat
      BY <1>1, <1>3, <3>2
    <3> QED
      BY <2>1, <2>2, <3>3, <3>4, <3>5
  <2>4. M[T] \in Nat
    BY <2>1, <2>2
  <2>5. ASSUME NEW U \in SUBSET T
        PROVE  M[U] \in Nat
    <3>1. CASE U = T
      BY <2>4, <3>1
    <3>2. CASE U # T
      <4>1. PICK x \in T : U \in SUBSET (T \ {x})
        BY <3>2
      <4> QED
        BY <1>1, <1>3, <4>1
    <3> QED
      BY <3>1, <3>2
  <2> QED
    BY <1>1, <2>1, <2>3, <2>5
<1>4. \A T \in SUBSET Z : T \in G
  BY <1>2, <1>3, AllSubsets
<1>5. ASSUME NEW T \in SUBSET Z
      PROVE  M[T] \in Nat /\ \A x \in T : M[T] = M[T \ {x}] + m[x]
  <2>1. T \in SUBSET T /\ T \in G
    BY <1>4
  <2> QED
    BY <1>1, <2>1
<1> QED
  BY <1>5

\* Two sums of the same are the same.
LEMMA SumsAgree ==
    ASSUME NEW Z, IsFiniteSet(Z), NEW m, NEW M, SumsOf(M, Z, m), \A b \in Z : m[b] \in Nat,
           NEW Y, IsFiniteSet(Y), NEW n, NEW N, SumsOf(N, Y, n), \A b \in Y : n[b] \in Nat,
           Z \subseteq Y, \A b \in Z : m[b] = n[b]
    PROVE  M[Z] = N[Z]
<1>1. PICK G : G = {T \in SUBSET Z : M[T] = N[T]}
  OBVIOUS
<1>2. {} \in G
  BY <1>1 DEF SumsOf
<1>3. ASSUME NEW T \in SUBSET Z, T # {}, \A x \in T : T \ {x} \in G
      PROVE  T \in G
  <2>1. PICK x \in T : TRUE
    BY <1>3
  <2>2. M[T] = M[T \ {x}] + m[x]
    BY <2>1, SumsAny
  <2>3. N[T] = N[T \ {x}] + n[x]
    <3>1. T \in SUBSET Y
      OBVIOUS
    <3> QED
      BY <2>1, <3>1, SumsAny
  <2>4. M[T \ {x}] = N[T \ {x}] /\ m[x] = n[x]
    BY <1>1, <1>3, <2>1
  <2> QED
    BY <1>1, <2>2, <2>3, <2>4
<1>4. \A T \in SUBSET Z : T \in G
  BY <1>2, <1>3, AllSubsets
<1>5. Z \in G
  BY <1>4
<1> QED
  BY <1>1, <1>5

\* The total of the blocks of a set is their sum.
LEMMA TotalSums ==
    ASSUME NEW Z, IsFiniteSet(Z), NEW m
    PROVE  \E M : Total(m, Z) = M[Z] /\ SumsOf(M, Z, m)
<1> DEFINE pick(T) == CHOOSE b \in T : TRUE
           Body(U, T) == IF T = {} THEN 0 ELSE U[T \ {pick(T)}] + m[pick(T)]
           Small(n) == {T \in SUBSET Z : Cardinality(T) <= n}
           F(X, U) == [T \in X |-> Body(U, T)]
           U0 == CHOOSE U : U = F(SUBSET Z, U)
<1>1. Total(m, Z) = U0[Z]
  BY DEF Total
<1>2. \A T \in SUBSET Z : IsFiniteSet(T) /\ Cardinality(T) \in Nat /\ Cardinality(T) <= Cardinality(Z)
  BY FS_Subset, FS_CardinalityType
<1>3. \E U : U = F(SUBSET Z, U)
  <2> DEFINE N == {n \in Nat : \E U : U = F(Small(n), U)}
  <2>1. 0 \in N
    <3> DEFINE U == [T \in Small(0) |-> 0]
    <3>1. \A T \in Small(0) : T = {}
      BY <1>2, FS_EmptySet
    <3>2. U = F(Small(0), U)
      BY <3>1
    <3> QED
      BY <3>2
  <2>2. ASSUME NEW n \in N
        PROVE  n + 1 \in N
    <3>1. PICK U : U = F(Small(n), U)
      BY <2>2
    <3> DEFINE V == [T \in Small(n + 1) |-> IF T \in Small(n) THEN U[T] ELSE Body(U, T)]
    <3>2. ASSUME NEW T \in Small(n + 1)
          PROVE  V[T] = Body(V, T)
      <4>1. V[T] = Body(U, T)
        BY <3>1
      <4>2. CASE T = {}
        BY <4>1, <4>2
      <4>3. CASE T # {}
        <5> DEFINE e == pick(T)
        <5>1. e \in T
          BY <4>3
        <5> HIDE DEF e
        <5>2. T \in SUBSET Z /\ Cardinality(T) <= n + 1 /\ n \in Nat /\ T \ {e} \in SUBSET Z
          OBVIOUS
        <5>3. Cardinality(T \ {e}) <= n
          BY <1>2, <5>1, <5>2, SmallerSet
        <5>4. T \ {e} \in Small(n) /\ T \ {e} \in Small(n + 1)
          BY <1>2, <5>2, <5>3
        <5>5. V[T \ {e}] = U[T \ {e}]
          BY <5>4
        <5> HIDE DEF V
        <5> QED
          BY <4>1, <5>5 DEF e
      <4> QED
        BY <4>2, <4>3
    <3>3. V = F(Small(n + 1), V)
      <4>1. V = [T \in Small(n + 1) |-> V[T]]
        OBVIOUS
      <4> HIDE DEF V, Small, Body
      <4> QED
        BY <3>2, <4>1
    <3>4. \E W : W = F(Small(n + 1), W)
      <4> HIDE DEF V, F
      <4> QED
        BY <3>3
    <3> HIDE DEF F, Small
    <3> QED
      BY <3>4
  <2>3. N = Nat
    <3> HIDE DEF N
    <3>1. N \in SUBSET Nat
      BY DEF N
    <3> QED
      BY <2>1, <2>2, <3>1, AllNaturals
  <2>4. Cardinality(Z) \in Nat
    BY <1>2
  <2>5. \E U : U = F(Small(Cardinality(Z)), U)
    <3> HIDE DEF F, Small
    <3> QED
      BY <2>3, <2>4
  <2>6. Small(Cardinality(Z)) = SUBSET Z
    BY <1>2
  <2> HIDE DEF F, Small
  <2> QED
    BY <2>5, <2>6
<1>4. U0 = F(SUBSET Z, U0)
  <2> HIDE DEF F
  <2> QED
    BY <1>3
<1> HIDE DEF U0
<1>5. \A T \in SUBSET Z : U0[T] = Body(U0, T)
  BY <1>4
<1>6. SumsOf(U0, Z, m)
  <2>1. U0[{}] = 0
    BY <1>5
  <2>2. ASSUME NEW T \in SUBSET Z, T # {}
        PROVE  \E b \in T : U0[T] = U0[T \ {b}] + m[b]
    <3>1. pick(T) \in T
      BY <2>2
    <3>2. U0[T] = U0[T \ {pick(T)}] + m[pick(T)]
      BY <1>5, <2>2
    <3> QED
      BY <3>1, <3>2
  <2> QED
    BY <2>1, <2>2 DEF SumsOf
<1> QED
  BY <1>1, <1>6

\* Sums: of naturals; with one block more; of a part; and with one more.
LEMMA TotalFacts ==
    ASSUME NEW Z, IsFiniteSet(Z), NEW m, \A b \in Z : m[b] \in Nat
    PROVE  /\ Total(m, Z) \in Nat
           /\ \A x \in Z : Total(m, Z) = Total(m, Z \ {x}) + m[x]
           /\ (\A b \in Z : m[b] = 0) => Total(m, Z) = 0
           /\ \A T \in SUBSET Z : Total(m, T) \in Nat /\ Total(m, T) <= Total(m, Z)
<1>1. PICK M : Total(m, Z) = M[Z] /\ SumsOf(M, Z, m)
  BY TotalSums
<1>2. \A T \in SUBSET Z : M[T] \in Nat /\ \A x \in T : M[T] = M[T \ {x}] + m[x]
  BY <1>1, SumsAny
<1>3. ASSUME NEW T \in SUBSET Z
      PROVE  Total(m, T) = M[T]
  <2>1. IsFiniteSet(T)
    BY FS_Subset
  <2>2. PICK N : Total(m, T) = N[T] /\ SumsOf(N, T, m)
    BY <2>1, TotalSums
  <2>3. \A b \in T : m[b] \in Nat /\ m[b] = m[b]
    OBVIOUS
  <2>4. N[T] = M[T]
    BY <1>1, <2>1, <2>2, <2>3, SumsAgree
  <2> QED
    BY <2>2, <2>4
<1>4. ASSUME NEW x \in Z
      PROVE  Total(m, Z) = Total(m, Z \ {x}) + m[x]
  <2>1. Z \in SUBSET Z /\ Z \ {x} \in SUBSET Z
    OBVIOUS
  <2> QED
    BY <1>2, <1>3, <1>4, <2>1
<1>5. ASSUME \A b \in Z : m[b] = 0
      PROVE  M[Z] = 0
  <2>1. PICK G : G = {T \in SUBSET Z : M[T] = 0}
    OBVIOUS
  <2>2. {} \in G
    BY <1>1, <2>1 DEF SumsOf
  <2>3. ASSUME NEW T \in SUBSET Z, T # {}, \A x \in T : T \ {x} \in G
        PROVE  T \in G
    <3>1. PICK x \in T : TRUE
      BY <2>3
    <3>2. M[T] = M[T \ {x}] + m[x] /\ M[T \ {x}] = 0 /\ m[x] = 0
      BY <1>2, <1>5, <2>1, <2>3, <3>1
    <3> QED
      BY <2>1, <3>2
  <2>a. \A T \in SUBSET Z : T \in G
    BY <2>2, <2>3, AllSubsets
  <2>4. Z \in G
    BY <2>a
  <2> QED
    BY <2>1, <2>4
<1>6. ASSUME NEW T \in SUBSET Z
      PROVE  M[T] <= M[Z]
  <2>1. PICK G : G = {Y \in SUBSET Z : \A U \in SUBSET Y : M[U] <= M[Y]}
    OBVIOUS
  <2>2. {} \in G
    <3>1. \A U \in SUBSET {} : U = {}
      OBVIOUS
    <3>2. M[{}] \in Nat /\ M[{}] <= M[{}]
      BY <1>2
    <3> QED
      BY <2>1, <3>1, <3>2
  <2>3. ASSUME NEW Y \in SUBSET Z, Y # {}, \A x \in Y : Y \ {x} \in G
        PROVE  Y \in G
    <3>1. ASSUME NEW U \in SUBSET Y
          PROVE  M[U] <= M[Y]
      <4>1. CASE U = Y
        BY <1>2, <4>1
      <4>2. CASE U # Y
        <5>1. PICK x \in Y : U \in SUBSET (Y \ {x})
          BY <4>2
        <5>2. M[U] <= M[Y \ {x}]
          BY <2>1, <2>3, <5>1
        <5>3. /\ M[Y] = M[Y \ {x}] + m[x] /\ m[x] \in Nat
              /\ M[Y \ {x}] \in Nat /\ M[U] \in Nat /\ M[Y] \in Nat
          BY <1>2, <5>1
        <5> QED
          BY <5>2, <5>3
      <4> QED
        BY <4>1, <4>2
    <3> QED
      BY <2>1, <3>1
  <2>a. \A Y \in SUBSET Z : Y \in G
    BY <2>2, <2>3, AllSubsets
  <2>4. Z \in G
    BY <2>a
  <2> QED
    BY <2>1, <2>4
<1>7. Total(m, Z) \in Nat
  BY <1>1, <1>2
<1>8. \A T \in SUBSET Z : Total(m, T) \in Nat /\ Total(m, T) <= Total(m, Z)
  BY <1>1, <1>2, <1>3, <1>6
<1> QED
  BY <1>1, <1>4, <1>5, <1>7, <1>8

\* One more at p.
OneMore(Z, m, n, p) == \A b \in Z : n[b] = IF b = p THEN m[b] + 1 ELSE m[b]

\* Which gives one more to the total.
LEMMA TotalMore ==
    ASSUME NEW Z, IsFiniteSet(Z), NEW m, NEW n, NEW p, \A b \in Z : m[b] \in Nat,
           OneMore(Z, m, n, p)
    PROVE  Total(n, Z) = IF p \in Z THEN Total(m, Z) + 1 ELSE Total(m, Z)
<1>1. \A b \in Z : n[b] \in Nat
  BY DEF OneMore
<1>2. ASSUME NEW Y, IsFiniteSet(Y), Y \subseteq Z, p \notin Y
      PROVE  Total(n, Y) = Total(m, Y)
  <2>1. \A b \in Y : m[b] \in Nat /\ n[b] \in Nat /\ m[b] = n[b]
    BY <1>1, <1>2 DEF OneMore
  <2>2. PICK M : Total(m, Y) = M[Y] /\ SumsOf(M, Y, m)
    BY <1>2, TotalSums
  <2>3. PICK N : Total(n, Y) = N[Y] /\ SumsOf(N, Y, n)
    BY <1>2, TotalSums
  <2>4. M[Y] = N[Y]
    BY <1>2, <2>1, <2>2, <2>3, SumsAgree
  <2> QED
    BY <2>2, <2>3, <2>4
<1>3. CASE p \notin Z
  BY <1>2, <1>3
<1>4. CASE p \in Z
  <2>1. IsFiniteSet(Z \ {p})
    BY FS_Subset
  <2>2. Total(n, Z \ {p}) = Total(m, Z \ {p})
    BY <1>2, <2>1
  <2>3. Total(n, Z) = Total(n, Z \ {p}) + n[p]
    BY <1>1, <1>4, TotalFacts
  <2>4. Total(m, Z) = Total(m, Z \ {p}) + m[p]
    BY <1>4, TotalFacts
  <2>5. Total(m, Z \ {p}) \in Nat /\ m[p] \in Nat /\ n[p] = m[p] + 1
    <3>1. Z \ {p} \in SUBSET Z
      OBVIOUS
    <3> QED
      BY <1>4, <3>1, TotalFacts DEF OneMore
  <2> QED
    BY <1>4, <2>2, <2>3, <2>4, <2>5
<1> QED
  BY <1>3, <1>4

-----------------------------------------------------------------------------
(* The blocks of the loop of h whose access, to t, is persistent there.    *)
Group(h, t) == {c \in prog.blocks : /\ c \in Loop(h) /\ code[c] # <<>> /\ FirstOf(code, c) = t
                                    /\ IsPersistent(results[c].pers.data[Rank(h)], t)}

(* A run in the loop of h, at p with the line l, ms and en being its misses *)
(* and its entries: of a cache block that was not accessed since the loop  *)
(* was entered, this entry has no miss yet.                                *)
Counting(h, p, l, ms, en) ==
    \E F, m, v, R, H :
        /\ Settled(h, F, m) /\ Shadow(F, m, p, v) /\ Trace(v, R, H, l)
        /\ \A t \in Blocks \ H : Total(ms, Group(h, t)) + 1 <= en[h]

Counts(p, l, ms, en) ==
    \A h \in Headers : /\ \A t \in Blocks : Total(ms, Group(h, t)) <= en[h]
                       /\ p \in Loop(h) => Counting(h, p, l, ms, en)

\* A group is a finite set of blocks.
LEMMA GroupFacts ==
    ASSUME Structured(prog), NEW h, NEW t
    PROVE  /\ IsFiniteSet(Group(h, t)) /\ Group(h, t) \subseteq prog.blocks
           /\ Group(h, t) \subseteq BasicBlocks
           /\ \A b \in Group(h, t) : b \in Loop(h) /\ FirstOf(code, b) = t
<1>1. Group(h, t) \subseteq prog.blocks /\ \A b \in Group(h, t) : b \in Loop(h) /\ FirstOf(code, b) = t
  BY DEF Group
<1>2. IsFiniteSet(prog.blocks) /\ prog.blocks \subseteq BasicBlocks
  BY DEF Structured, OneGraph
<1> QED
  BY <1>1, <1>2, FS_Subset

\* One more miss, or none.
WithMiss(ms, p, missed) == IF missed THEN [ms EXCEPT ![p] = @ + 1] ELSE ms

\* The misses of a group, after one more miss, or none, at p.
LEMMA GroupMisses ==
    ASSUME Structured(prog), NEW ms \in [BasicBlocks -> Nat], NEW p \in BasicBlocks,
           NEW missed \in BOOLEAN, NEW ns, ns = WithMiss(ms, p, missed),
           NEW h, NEW t
    PROVE  /\ Total(ms, Group(h, t)) \in Nat
           /\ Total(ns, Group(h, t)) = IF missed /\ p \in Group(h, t) THEN Total(ms, Group(h, t)) + 1
                                       ELSE Total(ms, Group(h, t))
<1>1. PICK G : G = Group(h, t)
  OBVIOUS
<1>2. IsFiniteSet(G) /\ G \subseteq BasicBlocks /\ \A b \in G : ms[b] \in Nat
  BY <1>1, GroupFacts
<1>3. Total(ms, G) \in Nat
  BY <1>2, TotalFacts
<1>4. CASE missed
  <2>1. OneMore(G, ms, ns, p)
    BY <1>2, <1>4 DEF OneMore, WithMiss
  <2>2. Total(ns, G) = IF p \in G THEN Total(ms, G) + 1 ELSE Total(ms, G)
    BY <1>2, <2>1, TotalMore
  <2> QED
    BY <1>1, <1>3, <1>4, <2>2
<1>5. CASE ~ missed
  BY <1>1, <1>3, <1>5 DEF WithMiss
<1> QED
  BY <1>4, <1>5

\* The block p is executed, and the edge e followed.
LEMMA CountStep ==
    ASSUME Blocks \subseteq Tags, ScheduleInv, ValueInv, Levels, phase = "run", code \in OnePerBlock,
           NEW p \in prog.blocks, NEW l \in Lines,
           NEW ms \in [BasicBlocks -> Nat], NEW en \in [BasicBlocks -> Nat], Counts(p, l, ms, en),
           NEW missed \in BOOLEAN, missed => code[p] # <<>> /\ ~ Holds(l, FirstOf(code, p)),
           NEW e \in OutOf(prog, p),
           NEW k, k = LineAfter(l, code[p]),
           NEW ns, ns = WithMiss(ms, p, missed),
           NEW fn, fn = IF Enters(e) THEN [en EXCEPT ![e[2]] = @ + 1] ELSE en
    PROVE  Counts(e[2], k, ns, fn)
<1>1. Structured(prog) /\ Exact /\ prog.blocks \subseteq BasicBlocks /\ p \in BasicBlocks
  BY DEF ScheduleInv, Levels, Structured, OneGraph
<1>2. /\ e \in Edges(prog) /\ e[1] = p /\ e[2] \in prog.blocks
      /\ \A h \in Headers : e[2] \in Loop(h) => h = e[2] \/ p \in Loop(h)
  <2>1. e \in Edges(prog) /\ e[1] = p
    BY DEF OutOf
  <2>2. e[2] \in prog.blocks
    BY <1>1, <2>1, EdgeFacts
  <2>3. ASSUME NEW h \in Headers, e[2] \in Loop(h)
        PROVE  h = e[2] \/ p \in Loop(h)
    <3>1. h \in Around(prog, e[2])
      BY <1>1, <2>2, <2>3, LoopEdges
    <3>2. h = e[2] \/ h \in Around(prog, e[1])
      BY <1>1, <2>1, <3>1, EdgeFacts
    <3> QED
      BY <1>1, <2>1, <3>2, LoopEdges
  <2> QED
    BY <2>1, <2>2, <2>3
<1>3. \A h \in Headers : h = e[2] => (Enters(e) <=> p \notin Loop(h))
  <2>1. ASSUME NEW h \in Headers, h = e[2]
        PROVE  Enters(e) <=> p \notin Loop(h)
    <3>1. Back(prog, e) <=> h \in Around(prog, p)
      BY <1>1, <1>2, <2>1, EdgeFacts
    <3>2. h \in Around(prog, p) <=> p \in Loop(h)
      BY <1>1, LoopEdges
    <3>3. Enters(e) <=> ~ Back(prog, e)
      BY <2>1 DEF Enters, Dominated, Back
    <3> QED
      BY <3>1, <3>2, <3>3
  <2> QED
    BY <2>1
<1>4. \A h \in Headers : /\ en[h] \in Nat /\ fn[h] \in Nat
                         /\ fn[h] = IF h = e[2] /\ p \notin Loop(h) THEN en[h] + 1 ELSE en[h]
  <2>1. ASSUME NEW h \in Headers
        PROVE  /\ en[h] \in Nat /\ fn[h] \in Nat
               /\ fn[h] = IF h = e[2] /\ p \notin Loop(h) THEN en[h] + 1 ELSE en[h]
    <3>1. h \in BasicBlocks /\ en[h] \in Nat
      BY <1>1, LoopEdges
    <3>2. fn[h] = IF Enters(e) /\ h = e[2] THEN en[h] + 1 ELSE en[h]
      BY <3>1
    <3> QED
      BY <1>3, <3>1, <3>2
  <2> QED
    BY <2>1
<1>5. \A h, t : /\ Total(ms, Group(h, t)) \in Nat
                /\ Total(ns, Group(h, t)) = IF missed /\ p \in Group(h, t)
                                            THEN Total(ms, Group(h, t)) + 1
                                            ELSE Total(ms, Group(h, t))
  <2>1. ASSUME NEW h, NEW t
        PROVE  /\ Total(ms, Group(h, t)) \in Nat
               /\ Total(ns, Group(h, t)) = IF missed /\ p \in Group(h, t)
                                           THEN Total(ms, Group(h, t)) + 1
                                           ELSE Total(ms, Group(h, t))
    BY <1>1, GroupMisses
  <2> QED
    BY <2>1
<1>6. \A h, t : p \in Group(h, t) => p \in Loop(h) /\ FirstOf(code, p) = t
  BY <1>1, GroupFacts
<1>7. ASSUME NEW h \in Headers, p \in Loop(h)
      PROVE  /\ \A t \in Blocks : Total(ns, Group(h, t)) <= fn[h]
             /\ e[2] \in Loop(h) => Counting(h, e[2], k, ns, fn)
  <2>1. /\ \A t \in Blocks : Total(ms, Group(h, t)) <= en[h]
        /\ Counting(h, p, l, ms, en)
    BY <1>7 DEF Counts
  <2>2. PICK F, m, v, R, H : /\ Settled(h, F, m) /\ Shadow(F, m, p, v) /\ Trace(v, R, H, l)
                             /\ \A t \in Blocks \ H : Total(ms, Group(h, t)) + 1 <= en[h]
    BY <2>1 DEF Counting
  <2>3. fn[h] = en[h] /\ en[h] \in Nat
    BY <1>4, <1>7
  <2>4. ASSUME missed, NEW t, p \in Group(h, t)
        PROVE  t \in Blocks \ H
    <3>1. /\ code[p] # <<>> /\ FirstOf(code, p) = t /\ ~ Holds(l, t)
          /\ IsPersistent(results[p].pers.data[Rank(h)], t)
      BY <2>4 DEF Group
    <3>2. t \in Blocks
      BY <1>1, <3>1, OneLine
    <3>3. results[p].pers.data[Rank(h)][t] # A
      BY <3>1 DEF IsPersistent
    <3>4. results[p] # AcsBottom
      <4>1. AcsLive(results[p])
        BY AtTheEnd DEF NothingLeft
      <4> QED
        BY <4>1 DEF AcsLive, AcsBottom
    <3>5. t \notin H
      BY <1>1, <1>7, <2>2, <3>1, <3>3, <3>4, MissedTwice
    <3> QED
      BY <3>2, <3>5
  <2>5. ASSUME NEW t \in Blocks
        PROVE  Total(ns, Group(h, t)) <= fn[h]
    <3>1. CASE missed /\ p \in Group(h, t)
      <4>1. Total(ms, Group(h, t)) + 1 <= en[h]
        BY <2>2, <2>4, <3>1
      <4>2. Total(ns, Group(h, t)) = Total(ms, Group(h, t)) + 1
        BY <1>5, <3>1
      <4> QED
        BY <2>3, <4>1, <4>2
    <3>2. CASE ~ (missed /\ p \in Group(h, t))
      <4>1. Total(ns, Group(h, t)) = Total(ms, Group(h, t))
        BY <1>5, <3>2
      <4> QED
        BY <2>1, <2>3, <4>1
    <3> QED
      BY <3>1, <3>2
  <2>6. ASSUME e[2] \in Loop(h)
        PROVE  Counting(h, e[2], k, ns, fn)
    <3>1. PICK K : K = IF code[p] = <<>> THEN H ELSE H \cup {FirstOf(code, p)}
      OBVIOUS
    <3>2. PICK u : u = ViewUpdate(code, p, v)
      OBVIOUS
    <3>3. v \in Views
      BY <2>2 DEF Shadow, Reaches
    <3>4. PICK Q : Trace(u, Q, K, k)
      BY <1>1, <2>2, <3>1, <3>2, <3>3, TraceStep
    <3>5. Shadow(F, m, e[2], u)
      BY <1>1, <1>7, <2>2, <2>6, <3>2, ShadowStep
    <3>6. ASSUME NEW t \in Blocks \ K
          PROVE  Total(ns, Group(h, t)) + 1 <= fn[h]
      <4>1. t \in Blocks \ H
        BY <3>1, <3>6
      <4>2. Total(ms, Group(h, t)) + 1 <= en[h]
        BY <2>2, <4>1
      <4>3. ~ (missed /\ p \in Group(h, t))
        BY <1>6, <3>1, <3>6
      <4>4. Total(ns, Group(h, t)) = Total(ms, Group(h, t))
        BY <1>5, <4>3
      <4> QED
        BY <2>3, <4>2, <4>4
    <3> QED
      BY <2>2, <3>4, <3>5, <3>6 DEF Counting
  <2> QED
    BY <2>5, <2>6
<1>8. ASSUME NEW h \in Headers, p \notin Loop(h)
      PROVE  /\ \A t \in Blocks : Total(ns, Group(h, t)) <= fn[h]
             /\ e[2] \in Loop(h) => Counting(h, e[2], k, ns, fn)
  <2>1. \A t \in Blocks : Total(ms, Group(h, t)) <= en[h]
    BY DEF Counts
  <2>2. \A t : Total(ns, Group(h, t)) = Total(ms, Group(h, t))
    BY <1>5, <1>6, <1>8
  <2>3. en[h] \in Nat /\ fn[h] \in Nat /\ en[h] <= fn[h] /\ (h = e[2] => fn[h] = en[h] + 1)
    <3>1. en[h] \in Nat /\ fn[h] = IF h = e[2] THEN en[h] + 1 ELSE en[h]
      BY <1>4, <1>8
    <3> QED
      BY <3>1
  <2>4. ASSUME NEW t \in Blocks
        PROVE  Total(ns, Group(h, t)) <= fn[h]
    <3>1. Total(ms, Group(h, t)) \in Nat /\ Total(ms, Group(h, t)) <= en[h]
      BY <1>5, <2>1
    <3>2. Total(ns, Group(h, t)) = Total(ms, Group(h, t))
      BY <2>2
    <3> QED
      BY <2>3, <3>1, <3>2
  <2>5. ASSUME e[2] \in Loop(h)
        PROVE  Counting(h, e[2], k, ns, fn)
    <3>1. h = e[2] /\ fn[h] = en[h] + 1
      BY <1>2, <1>8, <2>3, <2>5
    <3>2. PICK F, m : Settled(h, F, m)
      BY LevelSettled
    <3>3. Shadow(F, m, e[2], m)
      BY <3>1, <3>2, ShadowStart
    <3>4. Trace(m, [t \in Blocks |-> {}], {}, k)
      BY TraceStart
    <3>5. ASSUME NEW t \in Blocks \ {}
          PROVE  Total(ns, Group(h, t)) + 1 <= fn[h]
      <4>1. Total(ms, Group(h, t)) \in Nat /\ Total(ms, Group(h, t)) <= en[h]
        BY <1>5, <2>1
      <4>2. Total(ns, Group(h, t)) = Total(ms, Group(h, t))
        BY <2>2
      <4> QED
        BY <2>3, <3>1, <4>1, <4>2
    <3> QED
      BY <3>2, <3>3, <3>4, <3>5 DEF Counting
  <2> QED
    BY <2>4, <2>5
<1> QED
  BY <1>7, <1>8 DEF Counts

\* The counts are about the results, which a run does not change.
LEMMA CountsStay ==
    ASSUME UNCHANGED <<prog, code, results>>,
           NEW p, NEW l, NEW ms, NEW en, Counts(p, l, ms, en)
    PROVE  Counts(p, l, ms, en)'
<1>1. Headers' = Headers /\ \A h : Loop(h)' = Loop(h) /\ Rank(h)' = Rank(h)
  BY DEF Headers, Loop, Rank
<1>2. ASSUME NEW h, NEW t
      PROVE  Group(h, t)' = Group(h, t)
  BY <1>1 DEF Group, FirstOf
<1>3. ASSUME NEW h, NEW F, NEW m, Settled(h, F, m)
      PROVE  Settled(h, F, m)'
  <2>1. ASSUME NEW b, NEW v, Follows(F, h, b, v)
        PROVE  Follows(F, h, b, v)'
    <3>1. OutOf(prog, b)' = OutOf(prog, b)
      BY DEF OutOf, Edges
    <3>2. ViewUpdate(code, b, v)' = ViewUpdate(code, b, v)
      BY DEF ViewUpdate, LastOf
    <3> QED
      BY <1>1, <2>1, <3>1, <3>2 DEF Follows
  <2>2. \A b, n : View(results[b], n)' = View(results[b], n)
    BY DEF View
  <2> QED
    BY <1>1, <1>3, <2>1, <2>2 DEF Settled
<1>4. ASSUME NEW h, Counting(h, p, l, ms, en)
      PROVE  Counting(h, p, l, ms, en)'
  <2>1. PICK F, m, v, R, H : /\ Settled(h, F, m) /\ Shadow(F, m, p, v) /\ Trace(v, R, H, l)
                             /\ \A t \in Blocks \ H : Total(ms, Group(h, t)) + 1 <= en[h]
    BY <1>4 DEF Counting
  <2>2. \A t \in Blocks \ H : Total(ms, Group(h, t)') + 1 <= en[h]
    BY <1>2, <2>1
  <2> QED
    BY <1>3, <2>1, <2>2 DEF Counting
<1>5. ASSUME NEW h \in Headers
      PROVE  /\ \A t \in Blocks : Total(ms, Group(h, t)') <= en[h]
             /\ p \in Loop(h) => Counting(h, p, l, ms, en)'
  BY <1>2, <1>4, <1>5 DEF Counts
<1> QED
  BY <1>1, <1>5 DEF Counts

(* The counters of the run.                                                *)
RunCounts ==
    /\ entered \in [BasicBlocks -> Nat] /\ misses \in [BasicBlocks -> Nat]
    /\ phase # "run" => \A b \in BasicBlocks : entered[b] = 0 /\ misses[b] = 0
    /\ phase = "run" => \A p, l, ms, en : p = pos /\ l = line /\ ms = misses /\ en = entered
                                              => Counts(p, l, ms, en)

MissInv == HitInv /\ Levels /\ RunCounts

\* Before the program is run there are no misses.
LEMMA CountStart ==
    ASSUME ScheduleInv, NEW l, NEW ms, NEW en, \A b \in BasicBlocks : en[b] = 0 /\ ms[b] = 0
    PROVE  Counts(prog.main, l, ms, en)
<1>1. Structured(prog) /\ prog.main \in prog.blocks
  BY DEF ScheduleInv, Structured, OneGraph
<1>2. ASSUME NEW h \in Headers, NEW t \in Blocks
      PROVE  Total(ms, Group(h, t)) <= en[h]
  <2>1. PICK G : G = Group(h, t)
    OBVIOUS
  <2>2. IsFiniteSet(G) /\ \A b \in G : ms[b] \in Nat /\ ms[b] = 0
    BY <1>1, <2>1, GroupFacts
  <2>3. Total(ms, G) = 0
    BY <2>2, TotalFacts
  <2>4. en[h] = 0
    BY <1>1, LoopEdges DEF Structured, OneGraph
  <2> QED
    BY <2>1, <2>3, <2>4
<1>3. ASSUME NEW h \in Headers
      PROVE  prog.main \notin Loop(h)
  BY <1>1, BlockFacts, LoopEdges
<1> QED
  BY <1>2, <1>3 DEF Counts

\* A step of the run keeps the counts.
LEMMA CountRun ==
    ASSUME Blocks \subseteq Tags, MissInv, Run
    PROVE  RunCounts'
<1>1. /\ phase = "run" /\ phase' = "run" /\ UNCHANGED <<prog, code, results>>
      /\ line' = LineAfter(line, code[pos])
      /\ misses' = IF Counted THEN [misses EXCEPT ![pos] = @ + 1] ELSE misses
      /\ Follow(pos, returns)
  BY DEF Run, Executed, analysis
<1>2. /\ ScheduleInv /\ ValueInv /\ Levels /\ code \in OnePerBlock
      /\ pos \in prog.blocks /\ line \in Lines /\ Structured(prog)
  BY DEF MissInv, HitInv, RunSound, ScheduleInv
<1>3. PICK e : /\ e \in OutOf(prog, pos) /\ pos' = e[2]
               /\ entered' = IF Enters(e) THEN [entered EXCEPT ![e[2]] = @ + 1] ELSE entered
  <2>1. PICK i \in 1 .. Len(prog.out[pos]) :
          /\ pos' = prog.out[pos][i][2]
          /\ entered' = IF Enters(prog.out[pos][i])
                        THEN [entered EXCEPT ![prog.out[pos][i][2]] = @ + 1] ELSE entered
    BY <1>1 DEF Follow
  <2>2. PICK e : e = prog.out[pos][i]
    OBVIOUS
  <2>3. e \in Items(prog.out[pos])
    BY <2>2 DEF Items
  <2>4. e \in OutOf(prog, pos)
    BY <1>2, <2>3 DEF Structured, OneGraph, OutOf
  <2> QED
    BY <2>1, <2>2, <2>4
<1>4. PICK p, l, ms, en : p = pos /\ l = line /\ ms = misses /\ en = entered
  OBVIOUS
<1>5. /\ ms \in [BasicBlocks -> Nat] /\ en \in [BasicBlocks -> Nat]
      /\ Counts(p, l, ms, en)
  BY <1>1, <1>4 DEF MissInv, RunCounts
<1>6. PICK missed \in BOOLEAN : missed <=> Counted
  OBVIOUS
<1>7. missed => code[p] # <<>> /\ ~ Holds(l, FirstOf(code, p))
  BY <1>4, <1>6 DEF Counted
<1>8. PICK q, k, ns, fn : q = pos' /\ k = line' /\ ns = misses' /\ fn = entered'
  OBVIOUS
<1>9. /\ q = e[2] /\ k = LineAfter(l, code[p]) /\ ns = WithMiss(ms, p, missed)
      /\ fn = IF Enters(e) THEN [en EXCEPT ![e[2]] = @ + 1] ELSE en
  <2>1. q = e[2] /\ k = LineAfter(l, code[p])
    BY <1>1, <1>3, <1>4, <1>8
  <2>2. ns = WithMiss(ms, p, missed)
    BY <1>1, <1>4, <1>6, <1>8 DEF WithMiss
  <2>3. fn = IF Enters(e) THEN [en EXCEPT ![e[2]] = @ + 1] ELSE en
    BY <1>3, <1>4, <1>8
  <2> QED
    BY <2>1, <2>2, <2>3
<1>10. p \in prog.blocks /\ l \in Lines /\ e \in OutOf(prog, p)
  BY <1>2, <1>3, <1>4
<1>11. Counts(e[2], k, ns, fn)
  BY <1>1, <1>2, <1>5, <1>7, <1>9, <1>10, CountStep
<1>12. Counts(q, k, ns, fn)'
  BY <1>1, <1>9, <1>11, CountsStay
<1>13. ns \in [BasicBlocks -> Nat] /\ fn \in [BasicBlocks -> Nat]
  <2>1. p \in BasicBlocks /\ e[2] \in BasicBlocks
    BY <1>2, <1>10, EdgeFacts DEF OutOf, Structured, OneGraph
  <2> QED
    BY <1>5, <1>9, <2>1 DEF WithMiss
<1> QED
  BY <1>1, <1>8, <1>12, <1>13 DEF RunCounts

\* Every step keeps what is known of the misses.
LEMMA MissNext ==
    ASSUME Blocks \subseteq Tags, MissInv, [Next]_vars
    PROVE  MissInv'
<1>1. HitInv' /\ Levels' /\ ScheduleInv
  BY HitNext, LevelsNext DEF MissInv, HitInv
<1>2. RunCounts'
  <2>1. CASE Run
    BY <2>1, CountRun
  <2>2. CASE Call \/ Return
    <3>1. phase = "run" /\ pos \in prog.blocks /\ returns = <<>>
      BY <2>2 DEF Call, Return, RunSound, MissInv, HitInv
    <3>2. AllCalls(pos) = {}
      BY <1>1, <3>1 DEF ScheduleInv, Structured, OneGraph, AllCalls, Calls
    <3> QED
      BY <2>2, <3>1, <3>2 DEF Call, Return
  <2>3. CASE StartRun
    <3>1. /\ phase = "done" /\ phase' = "run" /\ UNCHANGED <<prog, code, results>>
          /\ UNCHANGED <<pos, line, misses, entered>>
      BY <2>3 DEF StartRun
    <3>2. pos = prog.main
      BY <3>1 DEF MissInv, HitInv, RunSound
    <3>3. /\ entered \in [BasicBlocks -> Nat] /\ misses \in [BasicBlocks -> Nat]
          /\ \A b \in BasicBlocks : entered[b] = 0 /\ misses[b] = 0
      BY <3>1 DEF MissInv, RunCounts
    <3>4. PICK p, l, ms, en : p = pos /\ l = line /\ ms = misses /\ en = entered
      OBVIOUS
    <3>5. Counts(p, l, ms, en)
      BY <1>1, <3>2, <3>3, <3>4, CountStart
    <3>6. Counts(p, l, ms, en)'
      BY <3>1, <3>5, CountsStay
    <3> QED
      BY <3>1, <3>3, <3>4, <3>6 DEF RunCounts
  <2>4. CASE Analyse
    <3>1. /\ phase # "run" /\ phase' # "run" /\ UNCHANGED runvars
      <4>1. Solve /\ UNCHANGED runvars
        BY <2>4 DEF Analyse
      <4> QED
        BY <4>1 DEF Solve, Pop, EndTurn, Turn, MainInput, CalledInput, ReturnedInput, HeaderInput,
               BlockInput, LeaveOutput, ExitOutput, CallOutput, BackOutput, BodyOutput, Finish
    <3> QED
      BY <3>1 DEF MissInv, RunCounts, runvars
  <2>5. CASE UNCHANGED vars
    <3>1. UNCHANGED <<prog, code, results, phase, pos, line, misses, entered>>
      BY <2>5 DEF vars, analysis, runvars
    <3>2. RunCounts
      BY DEF MissInv
    <3>3. CASE phase = "run"
      <4>1. PICK p, l, ms, en : p = pos /\ l = line /\ ms = misses /\ en = entered
        OBVIOUS
      <4>2. Counts(p, l, ms, en)
        BY <3>2, <3>3, <4>1 DEF RunCounts
      <4>3. Counts(p, l, ms, en)'
        BY <3>1, <4>2, CountsStay
      <4> QED
        BY <3>1, <3>2, <3>3, <4>1, <4>3 DEF RunCounts
    <3>4. CASE phase # "run"
      BY <3>1, <3>2, <3>4 DEF RunCounts
    <3> QED
      BY <3>3, <3>4
  <2> QED
    BY <2>1, <2>2, <2>3, <2>4, <2>5 DEF Next
<1> QED
  BY <1>1, <1>2 DEF MissInv

\* It is known at the beginning.
LEMMA MissInit ==
    ASSUME \A p \in Programs : Structured(p) /\ OneLevel(p),
           \A p \in Programs : Codes(p) \subseteq OnePerBlock,
           Before \subseteq Lines, Init
    PROVE  MissInv
<1>1. HitInv /\ Levels
  BY HitInit, LevelsInit
<1>2. RunCounts
  BY DEF Init, HaiInit, RunCounts
<1> QED
  BY <1>1, <1>2 DEF MissInv

-----------------------------------------------------------------------------
\* The number of loops around a block, and the rank of a header.
LEMMA RankCount ==
    ASSUME Structured(prog), NEW b \in prog.blocks
    PROVE  /\ IsFiniteSet(Around(prog, b)) /\ Cardinality(Around(prog, b)) \in Nat
           /\ Above(prog, b, {}) = Cardinality(Around(prog, b))
           /\ \A h : Rank(h) = Cardinality(Around(prog, h))
           /\ Cardinality(Around(prog, b)) <= Cardinality(Headers)
           /\ IsFiniteSet(Headers) /\ Cardinality(Headers) \in Nat
<1>1. IsFiniteSet(Headers) /\ Around(prog, b) \subseteq Headers
  BY FS_Subset DEF Structured, OneGraph, LoopsOK, Headers, Around
<1>2. \A S : S \ {} = S
  OBVIOUS
<1>3. Above(prog, b, {}) = Cardinality(Around(prog, b))
  BY <1>2, Zenon DEF Above
<1>4. \A h : Rank(h) = Cardinality(Around(prog, h))
  BY <1>2, Zenon DEF Above, Rank
<1> QED
  BY <1>1, <1>3, <1>4, FS_Subset, FS_CardinalityType

\* One level up.
LEMMA EnclosingUp ==
    ASSUME Structured(prog), EnclosingRight(prog), NEW g \in Headers
    PROVE  /\ Rank(g) \in Nat /\ Rank(g) >= 1
           /\ Rank(g) = 1 => prog.enclosing[g] = NoBlock
           /\ Rank(g) > 1 => /\ prog.enclosing[g] \in Headers
                             /\ prog.enclosing[g] \in Around(prog, g)
                             /\ Rank(prog.enclosing[g]) = Rank(g) - 1
<1>1. g \in prog.blocks /\ g \in Around(prog, g)
  BY BlockFacts DEF Structured, LoopsOK, Headers
<1>2. PICK S : S = Around(prog, g) \ {g}
  OBVIOUS
<1>3. /\ IsFiniteSet(Around(prog, g)) /\ Rank(g) = Cardinality(Around(prog, g))
      /\ Rank(g) \in Nat
  BY <1>1, RankCount
<1>4. IsFiniteSet(S) /\ Cardinality(S) = Rank(g) - 1 /\ Cardinality(S) \in Nat
  BY <1>1, <1>2, <1>3, SmallerSet
<1>5. Rank(g) >= 1
  BY <1>3, <1>4
<1>6. ASSUME Rank(g) = 1
      PROVE  prog.enclosing[g] = NoBlock
  <2>1. S = {}
    BY <1>4, <1>6, FS_EmptySet
  <2> QED
    BY <1>1, <1>2, <2>1 DEF EnclosingRight
<1>7. ASSUME Rank(g) > 1
      PROVE  /\ prog.enclosing[g] \in Headers
             /\ prog.enclosing[g] \in Around(prog, g)
             /\ Rank(prog.enclosing[g]) = Rank(g) - 1
  <2>1. S # {}
    <3>1. Cardinality(S) # 0
      BY <1>3, <1>4, <1>7
    <3> QED
      BY <3>1, FS_EmptySet
  <2>2. PICK k : k = prog.enclosing[g]
    OBVIOUS
  <2>3. k \in S /\ S \subseteq Around(prog, k)
    BY <1>1, <1>2, <2>1, <2>2 DEF EnclosingRight
  <2>4. k \in Around(prog, g) /\ k # g /\ k \in Headers
    BY <1>1, <1>2, <2>3, BlockFacts DEF Headers
  <2>5. Around(prog, k) \subseteq Around(prog, g) /\ g \notin Around(prog, k)
    BY <1>1, <2>4, BlockFacts
  <2>6. Around(prog, k) = S
    BY <1>2, <2>3, <2>5
  <2>7. Rank(k) = Cardinality(S)
    BY <1>1, <2>6, RankCount
  <2> QED
    BY <1>4, <2>2, <2>4, <2>7
<1> QED
  BY <1>3, <1>5, <1>6, <1>7

\* The innermost loop around a block.
LEMMA OwnLoop ==
    ASSUME Structured(prog), EnclosingRight(prog), NEW b \in prog.blocks,
           NEW N, N = Cardinality(Around(prog, b))
    PROVE  /\ N = 0 => Own(b) = NoBlock
           /\ N > 0 => Own(b) \in Headers /\ Own(b) \in Around(prog, b) /\ Rank(Own(b)) = N
<1>1. /\ IsFiniteSet(Around(prog, b)) /\ N \in Nat /\ \A h : Rank(h) = Cardinality(Around(prog, h))
      /\ Around(prog, b) \subseteq Headers
  BY RankCount, BlockFacts DEF Headers
<1>2. CASE b \in Headers
  <2>1. Own(b) = b /\ b \in Around(prog, b)
    BY <1>2, BlockFacts DEF Own, Headers
  <2>2. N # 0
    BY <1>1, <2>1, FS_EmptySet
  <2> QED
    BY <1>1, <1>2, <2>1, <2>2
<1>3. CASE b \notin Headers
  <2>1. Own(b) = prog.enclosing[b] /\ Around(prog, b) \ {b} = Around(prog, b)
    BY <1>1, <1>3 DEF Own
  <2>2. ASSUME N = 0
        PROVE  Own(b) = NoBlock
    <3>1. Around(prog, b) = {}
      BY <1>1, <2>2, FS_EmptySet
    <3> QED
      BY <2>1, <3>1 DEF EnclosingRight
  <2>3. ASSUME N > 0
        PROVE  Own(b) \in Headers /\ Own(b) \in Around(prog, b) /\ Rank(Own(b)) = N
    <3>1. Around(prog, b) # {}
      <4>1. N # 0
        BY <1>1, <2>3
      <4> QED
        BY <4>1, FS_EmptySet
    <3>2. PICK k : k = Own(b)
      OBVIOUS
    <3>3. k \in Around(prog, b) /\ Around(prog, b) \subseteq Around(prog, k)
      BY <2>1, <3>1, <3>2 DEF EnclosingRight
    <3>4. Around(prog, k) = Around(prog, b)
      BY <3>3, BlockFacts
    <3> QED
      BY <1>1, <3>2, <3>3, <3>4
  <2> QED
    BY <2>2, <2>3
<1> QED
  BY <1>2, <1>3

\* Some levels up.
LEMMA ClimbUp ==
    ASSUME Structured(prog), EnclosingRight(prog), NEW b \in prog.blocks,
           NEW N, N = Cardinality(Around(prog, b)), NEW n \in Nat
    PROVE  /\ n < N => /\ Climb(Own(b), n) \in Headers /\ Climb(Own(b), n) \in Around(prog, b)
                       /\ Rank(Climb(Own(b), n)) = N - n
           /\ n >= N => Climb(Own(b), n) = NoBlock
<1> DEFINE Up(g) == IF g = NoBlock THEN NoBlock ELSE prog.enclosing[g]
           F(k, C) == [i \in 0 .. k |-> IF i = 0 THEN Own(b) ELSE Up(C[i - 1])]
           C0 == CHOOSE C : C = F(n, C)
<1>1. Climb(Own(b), n) = C0[n]
  BY DEF Climb
<1>2. \E C : C = F(n, C)
  <2> DEFINE T == {k \in Nat : \E C : C = F(k, C)}
  <2>1. 0 \in T
    <3> DEFINE C == [i \in 0 .. 0 |-> Own(b)]
    <3>1. C = F(0, C)
      OBVIOUS
    <3> QED
      BY <3>1
  <2>2. ASSUME NEW k \in T
        PROVE  k + 1 \in T
    <3>1. PICK C : C = F(k, C)
      BY <2>2
    <3> DEFINE E == [i \in 0 .. k + 1 |-> IF i = k + 1 THEN Up(C[k]) ELSE C[i]]
    <3>2. k \in Nat
      BY <2>2
    <3>3. ASSUME NEW i \in 0 .. k + 1
          PROVE  E[i] = IF i = 0 THEN Own(b) ELSE Up(E[i - 1])
      <4>1. CASE i = k + 1
        <5>1. i # 0 /\ i - 1 = k /\ k \in 0 .. k + 1 /\ k # k + 1
          BY <3>2, <4>1
        <5>2. E[k] = C[k] /\ E[i] = Up(C[k])
          BY <4>1, <5>1
        <5> HIDE DEF E, Up
        <5> QED
          BY <5>1, <5>2
      <4>2. CASE i # k + 1 /\ i # 0
        <5>1. i \in 0 .. k /\ i - 1 \in 0 .. k + 1 /\ i - 1 # k + 1
          BY <3>2, <4>2
        <5>2. E[i] = C[i] /\ E[i - 1] = C[i - 1]
          BY <4>2, <5>1
        <5>3. C[i] = Up(C[i - 1])
          <6> HIDE DEF Up
          <6> QED
            BY <3>1, <4>2, <5>1
        <5> HIDE DEF E, Up
        <5> QED
          BY <4>2, <5>2, <5>3
      <4>3. CASE i # k + 1 /\ i = 0
        <5>1. 0 \in 0 .. k
          BY <3>2
        <5>2. C[0] = Own(b)
          <6> HIDE DEF Up
          <6> QED
            BY <3>1, <5>1
        <5> QED
          BY <4>3, <5>2
      <4> QED
        BY <4>1, <4>2, <4>3
    <3>4. E = F(k + 1, E)
      <4>1. E = [i \in 0 .. k + 1 |-> E[i]]
        OBVIOUS
      <4> HIDE DEF E, Up
      <4> QED
        BY <3>3, <4>1
    <3>5. \E C1 : C1 = F(k + 1, C1)
      <4> HIDE DEF E, F
      <4> QED
        BY <3>4
    <3> HIDE DEF F
    <3> QED
      BY <3>2, <3>5
  <2>3. T = Nat
    <3> HIDE DEF T
    <3>1. T \in SUBSET Nat
      BY DEF T
    <3> QED
      BY <2>1, <2>2, <3>1, AllNaturals
  <2> HIDE DEF F
  <2> QED
    BY <2>3
<1>3. C0 = F(n, C0)
  <2> HIDE DEF F
  <2> QED
    BY <1>2
<1> HIDE DEF C0
<1>4. /\ C0[0] = Own(b)
      /\ \A i \in 0 .. n : i # 0 => C0[i] = Up(C0[i - 1])
  <2>1. 0 \in 0 .. n
    OBVIOUS
  <2> HIDE DEF Up
  <2> QED
    BY <1>3, <2>1
<1>5. N \in Nat /\ NoBlock \notin Headers
  BY RankCount DEF Structured, LoopsOK, Headers
<1> DEFINE At(g, i) == /\ i < N => g \in Headers /\ g \in Around(prog, b) /\ Rank(g) = N - i
                       /\ i >= N => g = NoBlock
           T == {i \in Nat : i <= n => At(C0[i], i)}
<1>6. 0 \in T
  <2>1. At(Own(b), 0)
    <3>1. CASE N = 0
      <4>1. Own(b) = NoBlock
        BY <3>1, OwnLoop
      <4>2. ~ (0 < N)
        BY <3>1
      <4> QED
        BY <4>1, <4>2
    <3>2. CASE N # 0
      <4>1. N > 0 /\ N - 0 = N /\ ~ (0 >= N)
        BY <1>5, <3>2
      <4> QED
        BY <4>1, OwnLoop
    <3> QED
      BY <3>1, <3>2
  <2> HIDE DEF At
  <2> QED
    BY <1>4, <2>1
<1>7. ASSUME NEW i \in T
      PROVE  i + 1 \in T
  <2>1. i \in Nat /\ (i <= n => At(C0[i], i))
    BY <1>7
  <2>2. ASSUME i + 1 <= n
        PROVE  At(C0[i + 1], i + 1)
    <3>1. /\ i <= n /\ i + 1 \in 0 .. n /\ i + 1 # 0 /\ (i + 1) - 1 = i
      BY <2>1, <2>2
    <3>2. PICK g : g = C0[i]
      OBVIOUS
    <3>3. C0[i + 1] = Up(g) /\ At(g, i)
      <4> HIDE DEF Up, At
      <4> QED
        BY <1>4, <2>1, <3>1, <3>2
    <3>4. At(Up(g), i + 1)
      <4>1. CASE i >= N
        <5>1. g = NoBlock /\ i + 1 >= N /\ ~ (i + 1 < N)
          BY <1>5, <2>1, <3>3, <4>1
        <5> QED
          BY <5>1
      <4>2. CASE i < N /\ i + 1 >= N
        <5>1. N - i = 1 /\ ~ (i + 1 < N)
          BY <1>5, <2>1, <4>2
        <5>2. g \in Headers /\ Rank(g) = 1
          BY <3>3, <4>2, <5>1
        <5>3. prog.enclosing[g] = NoBlock
          BY <5>2, EnclosingUp
        <5> QED
          BY <5>1, <5>3
      <4>3. CASE i + 1 < N
        <5>1. i < N /\ N - i > 1 /\ (N - i) - 1 = N - (i + 1) /\ ~ (i + 1 >= N)
          BY <1>5, <2>1, <4>3
        <5>2. g \in Headers /\ g \in Around(prog, b) /\ Rank(g) = N - i
          BY <3>3, <5>1
        <5>3. PICK k : k = prog.enclosing[g]
          OBVIOUS
        <5>4. k \in Headers /\ k \in Around(prog, g) /\ Rank(k) = N - (i + 1)
          BY <5>1, <5>2, <5>3, EnclosingUp
        <5>5. k \in Around(prog, b)
          BY <5>2, <5>4, BlockFacts
        <5>6. Up(g) = k
          BY <1>5, <5>2, <5>3
        <5> QED
          BY <5>1, <5>4, <5>5, <5>6
      <4> QED
        BY <1>5, <2>1, <4>1, <4>2, <4>3
    <3> QED
      BY <3>3, <3>4
  <2> QED
    BY <2>1, <2>2
<1>8. T = Nat
  <2> HIDE DEF T
  <2>1. T \in SUBSET Nat
    BY DEF T
  <2> QED
    BY <1>6, <1>7, <2>1, AllNaturals
<1>9. At(C0[n], n)
  <2>1. n \in T /\ n <= n
    BY <1>8
  <2> HIDE DEF At
  <2> QED
    BY <2>1
<1> QED
  BY <1>1, <1>9

\* The outermost loop.
LEMMA OutermostUp ==
    ASSUME Structured(prog), EnclosingRight(prog), NEW b \in prog.blocks,
           NEW N, N = Cardinality(Around(prog, b)), N > 0
    PROVE  /\ Outermost(Own(b)) \in Headers /\ Outermost(Own(b)) \in Around(prog, b)
           /\ Rank(Outermost(Own(b))) = 1
<1>1. N \in Nat /\ NoBlock \notin Headers /\ N <= Cardinality(Headers) /\ Cardinality(Headers) \in Nat
  BY RankCount DEF Structured, LoopsOK, Headers
<1>2. PICK X : X = 0 .. Cardinality(Headers)
  OBVIOUS
<1>3. PICK i : i = CHOOSE j \in X : Climb(Own(b), j) # NoBlock /\ Climb(Own(b), j + 1) = NoBlock
  OBVIOUS
<1>4. PICK k : k = N - 1
  OBVIOUS
<1>5. k \in Nat /\ k \in X /\ k < N /\ k + 1 \in Nat /\ k + 1 >= N
  BY <1>1, <1>2, <1>4
<1>6. Climb(Own(b), k) # NoBlock /\ Climb(Own(b), k + 1) = NoBlock
  <2>1. Climb(Own(b), k) \in Headers
    BY <1>5, ClimbUp
  <2>2. Climb(Own(b), k + 1) = NoBlock
    BY <1>5, ClimbUp
  <2> QED
    BY <1>1, <2>1, <2>2
<1>7. i \in X /\ Climb(Own(b), i) # NoBlock /\ Climb(Own(b), i + 1) = NoBlock
  BY <1>3, <1>5, <1>6
<1>8. i \in Nat /\ i + 1 \in Nat
  BY <1>1, <1>2, <1>7
<1>9. i < N /\ N - i = 1
  <2>1. ~ (i >= N)
    BY <1>7, <1>8, ClimbUp
  <2>2. ~ (i + 1 < N)
    <3>1. ASSUME i + 1 < N
          PROVE  FALSE
      <4>1. Climb(Own(b), i + 1) \in Headers
        BY <1>8, <3>1, ClimbUp
      <4> QED
        BY <1>1, <1>7, <4>1
    <3> QED
      BY <3>1
  <2> QED
    BY <1>1, <1>8, <2>1, <2>2
<1>10. Outermost(Own(b)) = Climb(Own(b), i)
  BY <1>2, <1>3 DEF Outermost
<1>11. /\ Climb(Own(b), i) \in Headers /\ Climb(Own(b), i) \in Around(prog, b)
       /\ Rank(Climb(Own(b), i)) = N - i
  BY <1>8, <1>9, ClimbUp
<1> QED
  BY <1>9, <1>10, <1>11

\* The levels, from the innermost, at which an l-block is persistent.
LEMMA StreakUp ==
    ASSUME NEW b, NEW n \in Nat, n = Len(Pers(b)), Streak(b) > 0
    PROVE  /\ Streak(b) \in 1 .. n
           /\ Persistent(b, n - Streak(b) + 1)
<1>1. PICK S : S = {k \in 0 .. n : \A j \in n - k + 1 .. n : Persistent(b, j)}
  OBVIOUS
<1>2. PICK s : s = CHOOSE k \in S : \A j \in S : j <= k
  OBVIOUS
<1>3. Streak(b) = s
  BY <1>1, <1>2 DEF Streak
<1>4. \E k \in S : \A j \in S : j <= k
  <2>1. PICK T : T = {i \in Nat : i <= n /\ n - i \in S}
    OBVIOUS
  <2>2. 0 \in S
    <3>1. \A j : j \notin n - 0 + 1 .. n
      OBVIOUS
    <3>2. 0 \in 0 .. n
      OBVIOUS
    <3> QED
      BY <1>1, <3>1, <3>2
  <2>3. n \in T
    <3>1. n - n = 0 /\ n <= n
      OBVIOUS
    <3> QED
      BY <2>1, <2>2, <3>1
  <2>4. PICK i \in T : \A j \in T : i <= j
    <3>1. T \in SUBSET Nat /\ T # {}
      BY <2>1, <2>3
    <3> QED
      BY <3>1, LeastElement
  <2>5. ASSUME NEW j \in S
        PROVE  j <= n - i
    <3>1. j \in 0 .. n
      BY <1>1
    <3>2. n - j \in Nat /\ n - j <= n /\ n - (n - j) = j
      BY <3>1
    <3>3. n - j \in T
      BY <2>1, <3>2
    <3>4. i <= n - j /\ i \in Nat
      BY <2>1, <2>4, <3>3
    <3> QED
      BY <3>1, <3>4
  <2>6. n - i \in S
    BY <2>1, <2>4
  <2> QED
    BY <2>5, <2>6
<1>5. s \in S
  BY <1>2, <1>4
<1>6. s \in 0 .. n /\ s > 0 /\ \A j \in n - s + 1 .. n : Persistent(b, j)
  BY <1>1, <1>3, <1>5
<1>7. s \in 1 .. n /\ n - s + 1 \in n - s + 1 .. n
  BY <1>6
<1> QED
  BY <1>3, <1>6, <1>7

\* The header of a first miss is around its block, which is persistent there.
LEMMA MissHeader ==
    ASSUME Structured(prog), EnclosingRight(prog), Exact, level \in {"inner", "outer", "multi"},
           NEW b \in prog.blocks, results[b] # AcsBottom, FirstMiss(b)
    PROVE  /\ CategoryHeader(b) \in Headers /\ CategoryHeader(b) \in Around(prog, b)
           /\ IsPersistent(results[b].pers.data[Rank(CategoryHeader(b))], FirstOf(code, b))
<1>1. PICK n : n = Cardinality(Around(prog, b))
  OBVIOUS
<1>2. n \in Nat /\ Len(Pers(b)) = n
  <2>1. Depth(results[b]) = Above(prog, b, {})
    BY DEF Exact
  <2> QED
    BY <1>1, <2>1, RankCount DEF Depth, Pers
<1>3. n > 0 /\ \A k : Persistent(b, k) <=> IsPersistent(results[b].pers.data[k], FirstOf(code, b))
  BY <1>2 DEF FirstMiss, Persistent, Pers
<1>4. CASE level = "inner"
  <2>1. CategoryHeader(b) = Own(b) /\ Persistent(b, n)
    BY <1>2, <1>4 DEF CategoryHeader, FirstMiss
  <2>2. Own(b) \in Headers /\ Own(b) \in Around(prog, b) /\ Rank(Own(b)) = n
    BY <1>1, <1>3, OwnLoop
  <2> QED
    BY <1>3, <2>1, <2>2
<1>5. CASE level = "outer"
  <2>1. CategoryHeader(b) = Outermost(Own(b)) /\ Persistent(b, 1)
    BY <1>5 DEF CategoryHeader, FirstMiss
  <2>2. /\ Outermost(Own(b)) \in Headers /\ Outermost(Own(b)) \in Around(prog, b)
        /\ Rank(Outermost(Own(b))) = 1
    BY <1>1, <1>3, OutermostUp
  <2> QED
    BY <1>3, <2>1, <2>2
<1>6. CASE level = "multi"
  <2>1. CategoryHeader(b) = Climb(Own(b), Streak(b) - 1) /\ Streak(b) > 0
    BY <1>6 DEF CategoryHeader, FirstMiss
  <2>2. PICK s : s = Streak(b)
    OBVIOUS
  <2>3. s \in 1 .. n /\ Persistent(b, n - s + 1)
    BY <1>2, <2>1, <2>2, StreakUp
  <2>4. s - 1 \in Nat /\ s - 1 < n /\ n - (s - 1) = n - s + 1
    BY <1>2, <2>3
  <2>5. /\ Climb(Own(b), s - 1) \in Headers /\ Climb(Own(b), s - 1) \in Around(prog, b)
        /\ Rank(Climb(Own(b), s - 1)) = n - (s - 1)
    BY <1>1, <2>4, ClimbUp
  <2> QED
    BY <1>3, <2>1, <2>2, <2>3, <2>4, <2>5
<1> QED
  BY <1>4, <1>5, <1>6

(* The configuration of the builders, and the loops that they look up.     *)
Configured == /\ EnclosingRight(prog)
              /\ phase = "run" => level \in FmLevels

\* The configuration does not change in a run.
LEMMA ConfiguredNext ==
    ASSUME Configured, [Next]_vars
    PROVE  Configured'
<1>1. CASE Analyse
  <2>1. phase' # "run" /\ prog' = prog
    <3>1. Solve
      BY <1>1 DEF Analyse
    <3> QED
      BY <3>1 DEF Solve, Pop, EndTurn, Turn, MainInput, CalledInput, ReturnedInput, HeaderInput,
             BlockInput, LeaveOutput, ExitOutput, CallOutput, BackOutput, BodyOutput, Finish
  <2>2. EnclosingRight(prog)'
    BY <2>1 DEF Configured, EnclosingRight, Around
  <2> QED
    BY <2>1, <2>2 DEF Configured
<1>2. CASE StartRun
  <2>1. level' \in FmLevels /\ prog' = prog
    BY <1>2 DEF StartRun
  <2>2. EnclosingRight(prog)'
    BY <2>1 DEF Configured, EnclosingRight, Around
  <2> QED
    BY <2>1, <2>2 DEF Configured
<1>3. CASE Run \/ Call \/ Return \/ UNCHANGED vars
  <2>1. phase' = phase /\ level' = level /\ prog' = prog
    BY <1>3 DEF Run, Call, Return, Executed, analysis, vars, runvars
  <2>2. EnclosingRight(prog)'
    BY <2>1 DEF Configured, EnclosingRight, Around
  <2> QED
    BY <2>1, <2>2 DEF Configured
<1> QED
  BY <1>1, <1>2, <1>3 DEF Next

\* The first misses of a header are in the group of its loop.
LEMMA LinkedGroup ==
    ASSUME MissInv, Configured, FmLevels \subseteq {"inner", "outer", "multi"}, phase = "run",
           NEW b \in prog.blocks, code[b] # <<>>, FirstMiss(b)
    PROVE  /\ CategoryHeader(b) \in Headers
           /\ FirstOf(code, b) \in Blocks
           /\ Linked(b) \subseteq Group(CategoryHeader(b), FirstOf(code, b))
<1>1. /\ Structured(prog) /\ EnclosingRight(prog) /\ Exact /\ ScheduleInv
      /\ level \in {"inner", "outer", "multi"} /\ code \in OnePerBlock
  BY DEF MissInv, HitInv, RunSound, Levels, Configured, ScheduleInv
<1>2. ASSUME NEW c \in prog.blocks, FirstMiss(c)
      PROVE  /\ CategoryHeader(c) \in Headers /\ CategoryHeader(c) \in Around(prog, c)
             /\ IsPersistent(results[c].pers.data[Rank(CategoryHeader(c))], FirstOf(code, c))
  <2>1. results[c] # AcsBottom
    <3>1. AcsLive(results[c])
      BY <1>1, AtTheEnd DEF NothingLeft
    <3> QED
      BY <3>1 DEF AcsLive, AcsBottom
  <2> QED
    BY <1>1, <1>2, <2>1, MissHeader
<1>3. ASSUME NEW c \in Linked(b)
      PROVE  c \in Group(CategoryHeader(b), FirstOf(code, b))
  <2>1. /\ c \in prog.blocks /\ code[c] # <<>> /\ FirstMiss(c)
        /\ FirstOf(code, c) = FirstOf(code, b) /\ CategoryHeader(c) = CategoryHeader(b)
    BY <1>3 DEF Linked
  <2>2. /\ CategoryHeader(b) \in Headers /\ CategoryHeader(b) \in Around(prog, c)
        /\ IsPersistent(results[c].pers.data[Rank(CategoryHeader(b))], FirstOf(code, b))
    BY <1>2, <2>1
  <2>3. c \in Loop(CategoryHeader(b))
    BY <1>1, <2>1, <2>2, LoopEdges
  <2> QED
    BY <2>1, <2>2, <2>3 DEF Group
<1>4. FirstOf(code, b) \in Blocks
  BY <1>1, OneLine DEF Structured, OneGraph
<1> QED
  BY <1>2, <1>3, <1>4

\* A loop is entered once at least for each miss of the accesses to a cache
\* block that CAT2Builder says to be FIRST_MISS in it, at whatever level:
\* what CAT2OnlyConstraintBuilder says its constraints ask of the run.
THEOREM FirstMissesAreSound ==
    ASSUME \A p \in Programs : Structured(p) /\ OneLevel(p) /\ EnclosingRight(p),
           \A p \in Programs : Codes(p) \subseteq OnePerBlock,
           Before \subseteq Lines, Blocks \subseteq Tags,
           FmLevels \subseteq {"inner", "outer", "multi"}
    PROVE  Spec => []FirstMissSound
<1>1. Init => MissInv /\ Configured
  <2> SUFFICES ASSUME Init PROVE MissInv /\ Configured
    OBVIOUS
  <2>1. MissInv
    BY MissInit
  <2>2. prog \in Programs /\ phase = "turn"
    BY DEF Init, HaiInit
  <2> QED
    BY <2>1, <2>2 DEF Configured
<1>2. (MissInv /\ Configured) /\ [Next]_vars => (MissInv /\ Configured)'
  <2> SUFFICES ASSUME MissInv, Configured, [Next]_vars PROVE (MissInv /\ Configured)'
    OBVIOUS
  <2>1. MissInv'
    BY MissNext
  <2>2. Configured'
    BY ConfiguredNext
  <2> QED
    BY <2>1, <2>2
<1>3. MissInv /\ Configured => FirstMissSound
  <2> SUFFICES ASSUME MissInv, Configured, phase = "run",
                      NEW b \in prog.blocks, code[b] # <<>>, FirstMiss(b)
               PROVE  /\ CategoryHeader(b) # NoBlock
                      /\ MissesOf(Linked(b)) <= entered[CategoryHeader(b)]
    BY DEF FirstMissSound
  <2>1. PICK h, t : h = CategoryHeader(b) /\ t = FirstOf(code, b)
    OBVIOUS
  <2>2. h \in Headers /\ t \in Blocks /\ Linked(b) \subseteq Group(h, t)
    BY <2>1, LinkedGroup
  <2>3. Structured(prog) /\ h # NoBlock /\ h \in BasicBlocks
    <3>1. Structured(prog)
      BY DEF MissInv, HitInv, ScheduleInv
    <3> QED
      BY <2>2, <3>1, LoopEdges DEF Structured, LoopsOK, OneGraph, Headers
  <2>4. /\ misses \in [BasicBlocks -> Nat] /\ entered[h] \in Nat
        /\ Counts(pos, line, misses, entered)
    BY <2>3 DEF MissInv, RunCounts
  <2>5. PICK G : G = Group(h, t)
    OBVIOUS
  <2>6. IsFiniteSet(G) /\ \A c \in G : misses[c] \in Nat
    BY <2>3, <2>4, <2>5, GroupFacts
  <2>7. /\ Total(misses, G) \in Nat /\ Total(misses, Linked(b)) \in Nat
        /\ Total(misses, Linked(b)) <= Total(misses, G)
    <3>1. Linked(b) \in SUBSET G
      BY <2>2, <2>5
    <3> QED
      BY <2>6, <3>1, TotalFacts
  <2>8. Total(misses, G) <= entered[h]
    BY <2>2, <2>4, <2>5 DEF Counts
  <2>9. Total(misses, Linked(b)) <= entered[h]
    BY <2>4, <2>7, <2>8
  <2> QED
    BY <2>1, <2>3, <2>9 DEF MissesOf
<1> QED
  BY <1>1, <1>2, <1>3, PTL DEF Spec
=============================================================================
