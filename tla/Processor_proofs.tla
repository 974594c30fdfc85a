-------------------------- MODULE Processor_proofs --------------------------
(***************************************************************************)
(* Proofs about Processor, for any features, any processors that declare   *)
(* them, any default processors and any history of requests, that satisfy  *)
(* the two assumptions of Processor; then about CFGLifetime, for those     *)
(* among them that share the control-flow graph.                           *)
(***************************************************************************)
EXTENDS CFGLifetime, SequenceTheorems, FiniteSetTheorems, WellFoundedInduction,
        TLAPS

-----------------------------------------------------------------------------

\* The workspace between two steps: what goes is still there, and what is there
\* has all it was computed from.
Bases ==
    /\ doomed \subseteq provided
    /\ \A f \in Features :
            needs[f] \subseteq provided /\ (needs[f] # {} => f \in provided)

\* What a run can rely on at each of its phases.  After its work, either it has
\* nothing to take away and all it required is there, or all that it required
\* is among what it has still to take away.
Sound(c) ==
    /\ c.required \subseteq ToSet(Declared(c.proc, {"require"}))
    /\ c.at \in {"work", "provide"} => doomed = {} /\ c.required \subseteq provided
    /\ c.at = "after" =>
            \/ c.required \subseteq ToSet(c.todo)
            \/ doomed = {} /\ c.todo = <<>> /\ c.required \subseteq provided
    /\ c.at = "provide" =>
            ToSet(Declared(c.proc, {"provide"})) \subseteq provided \union ToSet(c.todo)

\* Only the run on top is past its requirements, and only a run that takes
\* features away has an invalidation in progress.
Runs ==
    /\ \A k \in 1..Len(calls) : Sound(calls[k])
    /\ \A k \in 1..Len(calls) : k < Len(calls) => calls[k].at = "require"
    /\ doomed # {} /\ ~Idle => Top.at \in {"before", "after"}

\* The first run is for what the tool asked; with no run in progress, a feature
\* only goes because the tool takes it away or deletes the workspace.
Serves ==
    /\ ~Idle =>
        /\ ~closing /\ thrown = "none"
        /\ asked \subseteq ToSet(Declared(calls[1].proc, {"provide"}))
    /\ Idle /\ doomed # {} => closing \/ asked = {}
    /\ RequestsDeliver

IInv == TypeOK /\ Bases /\ Runs /\ Serves

-----------------------------------------------------------------------------

\* A set of naturals that is not empty has a least member.
LEMMA LeastNatural ==
    ASSUME NEW T \in SUBSET Nat, T # {}
    PROVE  \E x \in T : \A y \in T : x <= y
<1> DEFINE R == {ss \in Nat \X Nat : ss[1] < ss[2]}
<1>1. IsWellFoundedOn(R, Nat)
  BY NatLessThanWellFounded, Zenon DEF OpToRel
<1>2. PICK x \in T : \A y \in T : ~ (<<y, x>> \in R)
  BY <1>1, WFMin, Zenon
<1>3. \A y \in T : ~ (y < x)
  BY <1>2
<1> QED
  BY <1>3

\* Induction over the naturals, said of the set of those that satisfy it.
LEMMA AllNaturals ==
    ASSUME NEW T \in SUBSET Nat, 0 \in T, \A n \in T : n + 1 \in T
    PROVE  T = Nat
<1> SUFFICES ASSUME Nat \ T # {}
             PROVE  FALSE
  OBVIOUS
<1>1. PICK x \in Nat \ T : \A y \in Nat \ T : x <= y
  <2>1. Nat \ T \in SUBSET Nat
    OBVIOUS
  <2> QED
    BY <2>1, LeastNatural
<1>2. x - 1 \in Nat /\ ~ (x <= x - 1) /\ (x - 1) + 1 = x
  BY <1>1
<1>3. x - 1 \in T
  BY <1>1, <1>2
<1> QED
  BY <1>1, <1>2, <1>3

-----------------------------------------------------------------------------

\* A loop over a list with a condition goes through the members of the list
\* that satisfy it: none is lost and none comes from elsewhere.
LEMMA KeptFacts ==
    ASSUME NEW K, NEW list \in Seq(K), NEW wanted
    PROVE  /\ Kept(list, wanted) \in Seq(K \cap wanted)
           /\ ToSet(Kept(list, wanted)) = ToSet(list) \cap wanted
<1> DEFINE N == Len(list)
           F(m, S) == [i \in 0..m |->
                         IF i = 0 THEN <<>>
                         ELSE IF list[i] \in wanted THEN Append(S[i - 1], list[i])
                         ELSE S[i - 1]]
           S0 == CHOOSE S : S = F(N, S)
<1>1. Kept(list, wanted) = S0[N]
  BY DEF Kept
<1>2. N \in Nat
  OBVIOUS
<1>3. \E S : S = F(N, S)
  <2> DEFINE T == {m \in Nat : \E S : S = F(m, S)}
  <2>1. 0 \in T
    <3> DEFINE S == [i \in 0..0 |-> <<>>]
    <3>1. S = F(0, S)
      OBVIOUS
    <3> QED
      BY <3>1
  <2>2. ASSUME NEW m \in T
        PROVE  m + 1 \in T
    <3>1. PICK S : S = F(m, S)
      BY <2>2
    <3> DEFINE U == [i \in 0..m + 1 |->
                        IF i \in 0..m THEN S[i]
                        ELSE IF list[i] \in wanted THEN Append(S[m], list[i])
                        ELSE S[m]]
    <3>2. ASSUME NEW i \in 0..m + 1
          PROVE  U[i] = F(m + 1, U)[i]
      <4>1. CASE i = 0
        BY <3>1, <4>1
      <4>2. CASE i \in 1..m
        <5>1. i \in 0..m /\ i - 1 \in 0..m /\ i - 1 \in 0..m + 1 /\ i # 0
          BY <4>2
        <5>2. U[i] = S[i] /\ U[i - 1] = S[i - 1]
          BY <5>1
        <5>3. S[i] = IF list[i] \in wanted THEN Append(S[i - 1], list[i])
                     ELSE S[i - 1]
          BY <3>1, <5>1
        <5> HIDE DEF U
        <5>4. F(m + 1, U)[i] = IF list[i] \in wanted THEN Append(U[i - 1], list[i])
                               ELSE U[i - 1]
          BY <5>1
        <5> QED
          BY <5>2, <5>3, <5>4
      <4>3. CASE i = m + 1
        <5>1. i \notin 0..m /\ i - 1 = m /\ m \in 0..m /\ m \in 0..m + 1 /\ i # 0
          BY <4>3
        <5>2. U[m] = S[m]
          BY <5>1
        <5>3. U[i] = IF list[i] \in wanted THEN Append(S[m], list[i]) ELSE S[m]
          BY <5>1
        <5> HIDE DEF U
        <5>4. F(m + 1, U)[i] = IF list[i] \in wanted THEN Append(U[i - 1], list[i])
                               ELSE U[i - 1]
          BY <5>1
        <5> QED
          BY <5>1, <5>2, <5>3, <5>4
      <4> QED
        BY <4>1, <4>2, <4>3
    <3>3. U = F(m + 1, U)
      BY <3>2
    <3>4. \E V : V = F(m + 1, V)
      <4> HIDE DEF U, F
      <4> QED
        BY <3>3
    <3> HIDE DEF F
    <3> QED
      BY <3>4
  <2>3. T = Nat
    <3> HIDE DEF T
    <3>1. T \in SUBSET Nat
      BY DEF T
    <3> QED
      BY <2>1, <2>2, <3>1, AllNaturals
  <2> QED
    BY <1>2, <2>3
<1>4. S0 = F(N, S0)
  BY <1>3
<1> HIDE DEF S0
<1>5. /\ S0[0] = <<>>
      /\ \A i \in 0..N : i + 1 <= N =>
             S0[i + 1] = IF list[i + 1] \in wanted THEN Append(S0[i], list[i + 1])
                         ELSE S0[i]
  <2> HIDE DEF N
  <2>1. S0[0] = <<>>
    BY <1>2, <1>4
  <2>2. ASSUME NEW i \in 0..N, i + 1 <= N
        PROVE  S0[i + 1] = IF list[i + 1] \in wanted
                           THEN Append(S0[i], list[i + 1]) ELSE S0[i]
    <3>1. i + 1 \in 0..N /\ i + 1 # 0 /\ (i + 1) - 1 = i
      BY <1>2, <2>2
    <3> QED
      BY <1>4, <3>1
  <2> QED
    BY <2>1, <2>2
<1> DEFINE T == {n \in Nat : n <= N =>
                     /\ S0[n] \in Seq(K \cap wanted)
                     /\ ToSet(S0[n]) = {list[i] : i \in 1..n} \cap wanted}
<1>6. 0 \in T
  <2>1. ToSet(<<>>) = {} /\ <<>> \in Seq(K \cap wanted) /\ 1..0 = {}
    BY DEF ToSet
  <2> QED
    BY <1>5, <2>1
<1>7. ASSUME NEW n \in T
      PROVE  n + 1 \in T
  <2> SUFFICES ASSUME n + 1 <= N
               PROVE  /\ S0[n + 1] \in Seq(K \cap wanted)
                      /\ ToSet(S0[n + 1]) = {list[i] : i \in 1..n + 1} \cap wanted
    OBVIOUS
  <2>1. /\ n \in 0..N /\ n + 1 \in 1..N
        /\ S0[n] \in Seq(K \cap wanted)
        /\ ToSet(S0[n]) = {list[i] : i \in 1..n} \cap wanted
    BY <1>2
  <2>2. {list[i] : i \in 1..n + 1} = {list[i] : i \in 1..n} \cup {list[n + 1]}
    <3>1. 1..n + 1 = 1..n \cup {n + 1}
      BY <2>1
    <3> QED
      BY <3>1
  <2>3. CASE list[n + 1] \in wanted
    <3> DEFINE a == S0[n]
               e == list[n + 1]
    <3>1. e \in K \cap wanted
      BY <2>1, <2>3
    <3>2. S0[n + 1] = Append(a, e)
      BY <1>5, <2>1, <2>3
    <3> HIDE DEF a, e
    <3>3. a \in Seq(K \cap wanted)
      BY <2>1 DEF a
    <3>4. /\ Append(a, e) \in Seq(K \cap wanted) /\ Len(Append(a, e)) = Len(a) + 1
          /\ Append(a, e)[Len(a) + 1] = e
          /\ \A i \in 1..Len(a) : Append(a, e)[i] = a[i]
          /\ Len(a) \in Nat
      BY <3>1, <3>3
    <3>5. ToSet(Append(a, e)) = ToSet(a) \cup {e}
      <4> DEFINE w == Append(a, e)
      <4>1. DOMAIN w = 1..Len(a) + 1 /\ DOMAIN a = 1..Len(a)
        BY <3>3, <3>4
      <4> HIDE DEF w
      <4> QED
        BY <3>4, <4>1 DEF ToSet, w
    <3> QED
      BY <2>1, <2>2, <2>3, <3>2, <3>4, <3>5 DEF a, e
  <2>4. CASE list[n + 1] \notin wanted
    BY <1>5, <2>1, <2>2, <2>4
  <2> QED
    BY <2>3, <2>4
<1>8. T = Nat
  <2>1. T \in SUBSET Nat
    OBVIOUS
  <2> HIDE DEF T
  <2> QED
    BY <1>6, <1>7, <2>1, AllNaturals
<1>9. S0[N] \in Seq(K \cap wanted) /\ ToSet(S0[N]) = {list[i] : i \in 1..N} \cap wanted
  <2>1. N \in T /\ N <= N
    <3> HIDE DEF T, N
    <3> QED
      BY <1>2, <1>8
  <2> QED
    BY <2>1
<1>10. ToSet(list) = {list[i] : i \in 1..N}
  BY DEF ToSet
<1> QED
  BY <1>1, <1>9, <1>10

\* The features of a declaration are features.
LEMMA DeclaredFacts ==
    ASSUME NEW p \in Processors, NEW kinds
    PROVE  /\ Declared(p, kinds) \in Seq(Features)
           /\ ToSet(Declared(p, kinds)) =
                  {u.feature : u \in ToSet(Usages[p]) \cap [kind : kinds, feature : Features]}
<1> DEFINE W == [kind : kinds, feature : Features]
           chosen == Kept(Usages[p], W)
<1>1. /\ chosen \in Seq(ToSet(Usages[p]) \cap W)
      /\ ToSet(chosen) = ToSet(Usages[p]) \cap W
  <2>1. Usages[p] \in Seq(ToSet(Usages[p]))
    BY UsageAssumption
  <2> HIDE DEF W
  <2> QED
    BY <2>1, KeptFacts
<1>2. Declared(p, kinds) = [i \in 1..Len(chosen) |-> chosen[i].feature]
  BY DEF Declared
<1>3. \A u \in W : u.feature \in Features
  OBVIOUS
<1> HIDE DEF chosen, W
<1>4. Len(chosen) \in Nat /\ DOMAIN chosen = 1..Len(chosen)
  BY <1>1
<1>5. \A i \in 1..Len(chosen) : chosen[i] \in W
  BY <1>1
<1>6. Declared(p, kinds) \in Seq(Features)
  BY <1>2, <1>3, <1>4, <1>5
<1>7. ToSet(Declared(p, kinds)) = {chosen[i].feature : i \in 1..Len(chosen)}
  BY <1>2 DEF ToSet
<1>8. ToSet(chosen) = {chosen[i] : i \in 1..Len(chosen)}
  BY <1>4 DEF ToSet
<1> QED
  BY <1>1, <1>6, <1>7, <1>8 DEF W

\* What a processor requires, it uses.
LEMMA RequiredUsed ==
    ASSUME NEW p \in Processors
    PROVE  ToSet(Declared(p, {"require"})) \subseteq {f \in Features : Uses(p, f)}
<1>1. \A u : u \in [kind : {"require"}, feature : Features] =>
                 u \in [kind : {"require", "use"}, feature : Features]
  OBVIOUS
<1>2. ToSet(Declared(p, {"require"})) \subseteq ToSet(Declared(p, {"require", "use"}))
  BY <1>1, DeclaredFacts
<1>3. ToSet(Declared(p, {"require"})) \subseteq Features
  BY DeclaredFacts DEF ToSet
<1> QED
  BY <1>2, <1>3 DEF Uses

\* What a processor invalidates, in one of the two phases.
LEMMA InvalidatedFacts ==
    ASSUME NEW p \in Processors, NEW used \in BOOLEAN
    PROVE  /\ Invalidated(p, used) \in Seq(Features)
           /\ ToSet(Invalidated(p, used)) =
                  {f \in ToSet(Declared(p, {"invalidate"})) : Uses(p, f) = used}
<1> DEFINE list == Declared(p, {"invalidate"})
           W == {f \in Features : Uses(p, f) = used}
<1>1. list \in Seq(Features)
  BY DeclaredFacts
<1>2. Invalidated(p, used) = Kept(list, W)
  BY DEF Invalidated
<1>3. ToSet(list) \subseteq Features
  BY <1>1 DEF ToSet
<1> HIDE DEF list
<1>4. /\ Kept(list, W) \in Seq(Features \cap W)
      /\ ToSet(Kept(list, W)) = ToSet(list) \cap W
  BY <1>1, KeptFacts
<1>5. Features \cap W = W /\ W \subseteq Features
  OBVIOUS
<1>6. Kept(list, W) \in Seq(Features)
  <2> HIDE DEF W
  <2> QED
    BY <1>4, <1>5
<1> QED
  BY <1>2, <1>3, <1>4, <1>6 DEF list

-----------------------------------------------------------------------------

\* A run of process().
Call == [proc : Processors, todo : Seq(Features),
         at : {"before", "require", "work", "after", "provide"},
         required : SUBSET Features]

LEMMA BeginFacts ==
    ASSUME NEW p \in Processors
    PROVE  /\ Begin(p) \in Call
           /\ Begin(p).proc = p /\ Begin(p).at = "before"
           /\ Begin(p).required = ToSet(Declared(p, {"require"}))
<1>1. ToSet(Declared(p, {"require"})) \subseteq Features
  BY DeclaredFacts DEF ToSet
<1>2. Invalidated(p, FALSE) \in Seq(Features)
  BY InvalidatedFacts
<1> QED
  BY <1>1, <1>2 DEF Begin, Call

LEMMA TopFacts ==
    ASSUME TypeOK, ~Idle
    PROVE  /\ Len(calls) \in Nat \ {0} /\ Len(calls) \in 1..Len(calls)
           /\ DOMAIN calls = 1..Len(calls)
           /\ \A k \in 1..Len(calls) : calls[k] \in Call
           /\ Top \in Call /\ Top = calls[Len(calls)]
<1>1. calls \in Seq(Call)
  BY DEF TypeOK, Call
<1>2. calls # <<>>
  BY DEF Idle
<1>3. Len(calls) \in Nat \ {0} /\ DOMAIN calls = 1..Len(calls)
  BY <1>1, <1>2, EmptySeq
<1>4. \A k \in 1..Len(calls) : calls[k] \in Call
  BY <1>1
<1> QED
  BY <1>3, <1>4 DEF Top

\* The run on top goes on.
LEMMA BecomesFacts ==
    ASSUME TypeOK, ~Idle, NEW c \in Call, Becomes(c)
    PROVE  /\ calls' \in Seq(Call) /\ Len(calls') = Len(calls)
           /\ ~Idle' /\ Top' = c
           /\ calls'[Len(calls)] = c
           /\ \A k \in 1..Len(calls) : k # Len(calls) => calls'[k] = calls[k]
<1>1. calls \in Seq(Call)
  BY DEF TypeOK, Call
<1>2. /\ Len(calls) \in Nat \ {0} /\ DOMAIN calls = 1..Len(calls)
      /\ Len(calls) \in 1..Len(calls)
  BY TopFacts
<1>3. calls' = [calls EXCEPT ![Len(calls)] = c]
  BY DEF Becomes
<1>4. calls' \in Seq(Call) /\ Len(calls') = Len(calls)
  BY <1>1, <1>2, <1>3
<1>5. calls'[Len(calls)] = c
  BY <1>2, <1>3
<1>6. \A k \in 1..Len(calls) : k # Len(calls) => calls'[k] = calls[k]
  BY <1>2, <1>3
<1>7. calls' # <<>>
  BY <1>2, <1>4, EmptySeq
<1> QED
  BY <1>4, <1>5, <1>6, <1>7 DEF Idle, Top

\* A run returns.
LEMMA ReturnFacts ==
    ASSUME TypeOK, ~Idle, Return
    PROVE  /\ calls' \in Seq(Call) /\ Len(calls') = Len(calls) - 1
           /\ \A k \in 1..Len(calls) - 1 : calls'[k] = calls[k]
           /\ Idle' <=> Len(calls) = 1
<1>1. calls \in Seq(Call)
  BY DEF TypeOK, Call
<1>2. Len(calls) \in Nat \ {0}
  BY TopFacts
<1>3. calls' = SubSeq(calls, 1, Len(calls) - 1)
  BY DEF Return
<1>4. /\ calls' \in Seq(Call) /\ Len(calls') = Len(calls) - 1
      /\ \A k \in 1..Len(calls) - 1 : calls'[k] = calls[k]
  <2> DEFINE n == Len(calls) - 1
  <2>1. n \in Nat /\ n - 1 + 1 = n /\ \A k \in 1..n : 1 + k - 1 = k
    BY <1>2
  <2>2. \A k \in 1..n : calls[k] \in Call
    BY <1>1, <1>2
  <2> HIDE DEF n
  <2>3. /\ SubSeq(calls, 1, n) \in Seq(Call)
        /\ Len(SubSeq(calls, 1, n)) = IF 1 <= n THEN n - 1 + 1 ELSE 0
        /\ \A k \in 1..n - 1 + 1 : SubSeq(calls, 1, n)[k] = calls[1 + k - 1]
    BY <2>1, <2>2, SubSeqProperties
  <2> QED
    BY <1>3, <2>1, <2>3 DEF n
<1>5. calls' = <<>> <=> Len(calls') = 0
  BY <1>4, EmptySeq
<1> QED
  BY <1>2, <1>4, <1>5 DEF Idle

\* A missing feature has its processor run, on top of the run that requires it.
LEMMA NestFacts ==
    ASSUME TypeOK, ~Idle, Top.todo # <<>>, NEW c \in Call,
           calls' = Append([calls EXCEPT ![Len(calls)].todo = Tail(@)], c)
    PROVE  /\ calls' \in Seq(Call) /\ Len(calls') = Len(calls) + 1
           /\ ~Idle' /\ Top' = c
           /\ calls'[Len(calls) + 1] = c
           /\ calls'[Len(calls)] = [Top EXCEPT !.todo = Tail(@)]
           /\ \A k \in 1..Len(calls) : k # Len(calls) => calls'[k] = calls[k]
<1> DEFINE rest == [calls EXCEPT ![Len(calls)].todo = Tail(@)]
           t == [Top EXCEPT !.todo = Tail(@)]
<1>1. calls \in Seq(Call)
  BY DEF TypeOK, Call
<1>2. /\ Len(calls) \in Nat \ {0} /\ DOMAIN calls = 1..Len(calls)
      /\ Len(calls) \in 1..Len(calls) /\ Top \in Call /\ Top = calls[Len(calls)]
  BY TopFacts
<1>3. t \in Call
  <2>1. Top.todo \in Seq(Features) /\ Tail(Top.todo) \in Seq(Features)
    BY <1>2 DEF Call
  <2> QED
    BY <1>2, <2>1 DEF Call
<1>4. rest = [calls EXCEPT ![Len(calls)] = t]
  BY <1>2
<1> HIDE DEF rest, t
<1>5. /\ rest \in Seq(Call) /\ Len(rest) = Len(calls)
      /\ rest[Len(calls)] = t
      /\ \A k \in 1..Len(calls) : k # Len(calls) => rest[k] = calls[k]
  BY <1>1, <1>2, <1>3, <1>4
<1>6. calls' = Append(rest, c)
  BY DEF rest
<1>7. /\ calls' \in Seq(Call) /\ Len(calls') = Len(calls) + 1
      /\ calls'[Len(calls) + 1] = c
      /\ \A k \in 1..Len(calls) : calls'[k] = rest[k]
  <2> DEFINE w == Append(rest, c)
  <2> HIDE DEF Call
  <2>1. rest \in Seq(Call)
    BY <1>5
  <2>2. /\ w \in Seq(Call) /\ Len(w) = Len(rest) + 1 /\ w[Len(rest) + 1] = c
        /\ \A k \in 1..Len(rest) : w[k] = rest[k]
    BY <2>1, AppendProperties
  <2>3. calls' = w
    BY <1>6
  <2> HIDE DEF w
  <2> QED
    BY <1>5, <2>2, <2>3
<1>8. calls' # <<>>
  BY <1>5, <1>6, AppendProperties
<1> QED
  BY <1>2, <1>5, <1>7, <1>8 DEF Idle, Top, t

\* The next feature of the list of the run on top.
LEMMA TodoFacts ==
    ASSUME TypeOK, ~Idle, Top.todo # <<>>
    PROVE  /\ Head(Top.todo) \in Features /\ Tail(Top.todo) \in Seq(Features)
           /\ ToSet(Top.todo) = {Head(Top.todo)} \union ToSet(Tail(Top.todo))
<1> DEFINE s == Top.todo
<1>1. s \in Seq(Features)
  BY TopFacts DEF Call
<1> HIDE DEF s
<1>2. SUFFICES ASSUME s # <<>>
               PROVE  /\ Head(s) \in Features /\ Tail(s) \in Seq(Features)
                      /\ ToSet(s) = {Head(s)} \union ToSet(Tail(s))
  BY DEF s
<1>3. /\ Head(s) \in Features /\ Tail(s) \in Seq(Features)
      /\ Len(s) \in Nat \ {0} /\ Head(s) = s[1] /\ Len(Tail(s)) = Len(s) - 1
      /\ \A i \in 1..Len(s) - 1 : Tail(s)[i] = s[i + 1]
  BY <1>1, <1>2, EmptySeq, HeadTailProperties
<1>4. DOMAIN s = 1..Len(s) /\ DOMAIN Tail(s) = 1..Len(s) - 1
  BY <1>1, <1>3
<1>5. \A i \in 1..Len(s) : i = 1 \/ (i - 1 \in 1..Len(s) - 1 /\ (i - 1) + 1 = i)
  BY <1>3
<1>6. \A i \in 1..Len(s) - 1 : i + 1 \in 1..Len(s)
  BY <1>3
<1>7. 1 \in 1..Len(s)
  BY <1>3
<1>8. ASSUME NEW x
      PROVE  x \in ToSet(s) <=> x \in {Head(s)} \union ToSet(Tail(s))
  <2>1. x \in ToSet(s) <=> \E i \in 1..Len(s) : x = s[i]
    BY <1>4 DEF ToSet
  <2>2. x \in ToSet(Tail(s)) <=> \E i \in 1..Len(s) - 1 : x = s[i + 1]
    BY <1>3, <1>4 DEF ToSet
  <2>3. ASSUME NEW i \in 1..Len(s), x = s[i]
        PROVE  x = s[1] \/ \E j \in 1..Len(s) - 1 : x = s[j + 1]
    BY <1>5, <2>3
  <2> QED
    BY <1>3, <1>6, <1>7, <2>1, <2>2, <2>3
<1> QED
  BY <1>3, <1>8

\* The run on top enters a phase.
LEMMA EnterFacts ==
    ASSUME TypeOK, ~Idle, NEW phase \in {"before", "require", "work", "after", "provide"},
           NEW list \in Seq(Features), Enter(phase, list)
    PROVE  /\ calls' \in Seq(Call) /\ Len(calls') = Len(calls)
           /\ ~Idle' /\ Top' \in Call /\ calls'[Len(calls)] = Top'
           /\ Top'.proc = Top.proc /\ Top'.required = Top.required
           /\ Top'.at = phase /\ Top'.todo = list
           /\ \A k \in 1..Len(calls) : k # Len(calls) => calls'[k] = calls[k]
<1> DEFINE c == [Top EXCEPT !.at = phase, !.todo = list]
<1>1. /\ c \in Call /\ c.proc = Top.proc /\ c.required = Top.required
      /\ c.at = phase /\ c.todo = list
  BY TopFacts DEF Call
<1>2. Becomes(c)
  BY DEF Enter
<1> HIDE DEF c
<1> QED
  BY <1>1, <1>2, BecomesFacts

\* The run on top is done with a feature, which it may have lost.
LEMMA StepFacts ==
    ASSUME TypeOK, ~Idle, Top.todo # <<>>, NEW left \in SUBSET Features,
           Becomes([Top EXCEPT !.todo = Tail(@), !.required = left])
    PROVE  /\ calls' \in Seq(Call) /\ Len(calls') = Len(calls)
           /\ ~Idle' /\ Top' \in Call /\ calls'[Len(calls)] = Top'
           /\ Top'.proc = Top.proc /\ Top'.required = left
           /\ Top'.at = Top.at /\ Top'.todo = Tail(Top.todo)
           /\ \A k \in 1..Len(calls) : k # Len(calls) => calls'[k] = calls[k]
<1> DEFINE c == [Top EXCEPT !.todo = Tail(@), !.required = left]
<1>1. /\ c \in Call /\ c.proc = Top.proc /\ c.required = left
      /\ c.at = Top.at /\ c.todo = Tail(Top.todo)
  BY TopFacts, TodoFacts DEF Call
<1>2. Becomes(c)
  OBVIOUS
<1> HIDE DEF c
<1> QED
  BY <1>1, <1>2, BecomesFacts

LEMMA SkipFacts ==
    ASSUME TypeOK, ~Idle, Top.todo # <<>>, Step
    PROVE  /\ calls' \in Seq(Call) /\ Len(calls') = Len(calls)
           /\ ~Idle' /\ Top' \in Call /\ calls'[Len(calls)] = Top'
           /\ Top'.proc = Top.proc /\ Top'.required = Top.required
           /\ Top'.at = Top.at /\ Top'.todo = Tail(Top.todo)
           /\ \A k \in 1..Len(calls) : k # Len(calls) => calls'[k] = calls[k]
<1>1. Top.required \in SUBSET Features
  BY TopFacts DEF Call
<1>2. [Top EXCEPT !.todo = Tail(@)]
          = [Top EXCEPT !.todo = Tail(@), !.required = Top.required]
  BY TopFacts DEF Call
<1>3. Becomes([Top EXCEPT !.todo = Tail(@), !.required = Top.required])
  BY <1>2 DEF Step
<1> QED
  BY <1>1, <1>3, StepFacts

\* A first run.
LEMMA FirstFacts ==
    ASSUME NEW p \in Processors, calls' = <<Begin(p)>>
    PROVE  /\ calls' \in Seq(Call) /\ Len(calls') = 1 /\ ~Idle'
           /\ Top' = Begin(p) /\ calls'[1] = Begin(p)
<1>1. Begin(p) \in Call
  BY BeginFacts
<1> DEFINE c == Begin(p)
<1> HIDE DEF c
<1>2. /\ <<c>> \in Seq(Call) /\ Len(<<c>>) = 1 /\ <<c>>[1] = c /\ <<c>> # <<>>
  BY <1>1 DEF c
<1> QED
  BY <1>2 DEF c, Idle, Top

\* A run that takes features away is done with one.
LEMMA InvalidateFacts ==
    ASSUME TypeOK, InvalidateNext
    PROVE  /\ ~Idle /\ Top.at \in {"before", "after"} /\ Top.todo # <<>>
           /\ doomed = {} /\ UNCHANGED <<provided, needs, cancelled, thrown, tool>>
           /\ doomed' = IF Head(Top.todo) \in provided THEN {Head(Top.todo)} ELSE {}
           /\ calls' \in Seq(Call) /\ Len(calls') = Len(calls)
           /\ ~Idle' /\ Top' \in Call /\ calls'[Len(calls)] = Top'
           /\ Top'.proc = Top.proc
           /\ Top'.required = Top.required \ {Head(Top.todo)}
           /\ Top'.at = Top.at /\ Top'.todo = Tail(Top.todo)
           /\ \A k \in 1..Len(calls) : k # Len(calls) => calls'[k] = calls[k]
<1>1. /\ ~Idle /\ Top.at \in {"before", "after"} /\ Top.todo # <<>>
      /\ doomed = {} /\ UNCHANGED <<provided, needs, cancelled, thrown, tool>>
      /\ doomed' = IF Head(Top.todo) \in provided THEN {Head(Top.todo)} ELSE {}
      /\ Becomes([Top EXCEPT !.todo = Tail(@), !.required = @ \ {Head(Top.todo)}])
  BY DEF InvalidateNext, Ready
<1> DEFINE left == Top.required \ {Head(Top.todo)}
<1>2. left \in SUBSET Features
  BY <1>1, TopFacts DEF Call
<1>3. [Top EXCEPT !.todo = Tail(@), !.required = @ \ {Head(Top.todo)}]
          = [Top EXCEPT !.todo = Tail(@), !.required = left]
  BY <1>1, TopFacts DEF Call
<1>4. Becomes([Top EXCEPT !.todo = Tail(@), !.required = left])
  BY <1>1, <1>3
<1> HIDE DEF left
<1>5. /\ calls' \in Seq(Call) /\ Len(calls') = Len(calls)
      /\ ~Idle' /\ Top' \in Call /\ calls'[Len(calls)] = Top'
      /\ Top'.proc = Top.proc /\ Top'.required = left
      /\ Top'.at = Top.at /\ Top'.todo = Tail(Top.todo)
      /\ \A k \in 1..Len(calls) : k # Len(calls) => calls'[k] = calls[k]
  BY <1>1, <1>2, <1>4, StepFacts
<1> QED
  BY <1>1, <1>5 DEF left

LEMMA TypeInit == Init => TypeOK
<1> SUFFICES ASSUME Init
             PROVE  TypeOK
  OBVIOUS
<1>1. <<>> \in Seq(Call)
  OBVIOUS
<1>2. calls \in Seq(Call)
  BY <1>1 DEF Init
<1>3. requests \in 0..MaxRequests
  BY UsageAssumption DEF Init
<1> QED
  BY <1>2, <1>3 DEF Init, TypeOK, Call

\* The default processor of a feature that has one.
LEMMA DefaultFacts ==
    ASSUME NEW f \in Features, Default[f] # NoProcessor
    PROVE  Default[f] \in Processors
BY UsageAssumption

\* A tool asks something.
LEMMA AskType ==
    ASSUME TypeOK, NEW wanted \in SUBSET Features, Ask(wanted)
    PROVE  /\ asked' \in SUBSET Features /\ requests' \in 0..MaxRequests
           /\ thrown' \in {"none", "unavailable", "circular", "failed"}
           /\ cancelled' \in BOOLEAN /\ closing' \in BOOLEAN
<1>1. requests \in 0..MaxRequests /\ requests < MaxRequests /\ MaxRequests \in Nat
  BY UsageAssumption DEF Ask, TypeOK
<1>2. requests + 1 \in 0..MaxRequests
  BY <1>1
<1> QED
  BY <1>2 DEF Ask, TypeOK

LEMMA TypeStep ==
    ASSUME TypeOK, [Next]_vars
    PROVE  TypeOK'
<1>1. calls \in Seq(Call) /\ <<>> \in Seq(Call)
  BY DEF TypeOK, Call
<1>2. ASSUME NEW p \in Started, Process(p)
      PROVE  TypeOK'
  <2>1. p \in Processors /\ ToSet(Declared(p, {"provide"})) \in SUBSET Features
    BY UsageAssumption, DeclaredFacts DEF ToSet
  <2>2. calls' \in Seq(Call)
    BY <1>2, <2>1, FirstFacts DEF Process
  <2> QED
    BY <1>2, <2>1, <2>2, AskType DEF Process, TypeOK, Call, workspace
<1>3. ASSUME NEW f \in Asked, Require(f)
      PROVE  TypeOK'
  <2>1. f \in Features /\ {f} \in SUBSET Features /\ Default[f] \in Processors
    BY <1>3, UsageAssumption, DefaultFacts DEF Require
  <2>2. calls' \in Seq(Call)
    BY <1>3, <2>1, FirstFacts DEF Require
  <2> QED
    BY <1>3, <2>1, <2>2, AskType DEF Require, TypeOK, Call, workspace
<1>4. ASSUME NEW f \in Withdrawn, Withdraw(f)
      PROVE  TypeOK'
  <2>1. f \in Features
    BY UsageAssumption
  <2> QED
    BY <1>4, <2>1, AskType DEF Withdraw, TypeOK
<1>5. CASE Cancel
  BY <1>5 DEF Cancel, TypeOK, workspace, tool
<1>6. CASE Close
  BY <1>6 DEF Close, TypeOK, workspace
<1>7. CASE InvalidateNext
  <2>1. doomed' \in SUBSET Features /\ calls' \in Seq(Call)
    BY <1>7, InvalidateFacts, TodoFacts
  <2> QED
    BY <1>7, <2>1, InvalidateFacts DEF TypeOK, Call, tool
<1>8. ASSUME NEW g \in Features, Drop(g)
      PROVE  TypeOK'
  BY <1>8 DEF Drop, TypeOK, tool
<1>9. ASSUME NEW g \in Features, CloseOne(g)
      PROVE  TypeOK'
  BY <1>9 DEF CloseOne, TypeOK, tool
<1>10. CASE Spread
  BY <1>10 DEF Spread, Reached, TypeOK, tool
<1>11. ASSUME NEW phase \in {"before", "require", "work", "after", "provide"},
              NEW list \in Seq(Features), ~Idle, Enter(phase, list),
              UNCHANGED <<workspace, cancelled, thrown, tool>>
       PROVE  TypeOK'
  <2>1. calls' \in Seq(Call)
    BY <1>11, EnterFacts
  <2> QED
    BY <1>11, <2>1 DEF TypeOK, Call, workspace, tool
<1>12. ~Idle => Top \in Call /\ Top.proc \in Processors
  BY TopFacts DEF Call
<1>13. CASE StartRequiring
  BY <1>11, <1>12, <1>13, DeclaredFacts DEF StartRequiring, Ready
<1>14. ASSUME NEW what \in {"unavailable", "circular", "failed"}, Throw(what),
              UNCHANGED <<workspace, cancelled, tool>>
       PROVE  TypeOK'
  BY <1>1, <1>14 DEF Throw, TypeOK, Call, workspace, tool
<1>15. CASE RequireNext
  <2> DEFINE f == Head(Top.todo)
  <2>1. ~Idle /\ Top.todo # <<>> /\ UNCHANGED <<workspace, cancelled, tool>>
    BY <1>15 DEF RequireNext, Ready
  <2>2. f \in Features
    BY <2>1, TodoFacts
  <2>3. CASE f \in provided
    <3>1. Step /\ UNCHANGED thrown
      BY <1>15, <2>3, <2>1, TopFacts DEF RequireNext, Step, Becomes
    <3>2. calls' \in Seq(Call)
      BY <2>1, <3>1, SkipFacts
    <3> QED
      BY <2>1, <3>1, <3>2 DEF TypeOK, Call, workspace, tool
  <2>4. CASE f \notin provided /\ Default[f] = NoProcessor
    BY <1>14, <1>15, <2>1, <2>4 DEF RequireNext
  <2>5. CASE f \notin provided /\ Default[f] # NoProcessor
    <3>1. /\ calls' = Append([calls EXCEPT ![Len(calls)].todo = Tail(@)],
                             Begin(Default[f]))
          /\ UNCHANGED thrown
      BY <1>15, <2>5 DEF RequireNext
    <3>2. Begin(Default[f]) \in Call
      BY <2>2, <2>5, DefaultFacts, BeginFacts
    <3>3. calls' \in Seq(Call)
      BY <2>1, <3>1, <3>2, NestFacts
    <3> QED
      BY <2>1, <3>1, <3>3 DEF TypeOK, Call, workspace, tool
  <2> QED
    BY <2>3, <2>4, <2>5
<1>16. ASSUME ~Idle, Return, UNCHANGED <<workspace, cancelled, thrown, tool>>
       PROVE  TypeOK'
  <2>1. calls' \in Seq(Call)
    BY <1>16, ReturnFacts
  <2> QED
    BY <1>16, <2>1 DEF TypeOK, Call, workspace, tool
<1>17. CASE GiveUp
  BY <1>16, <1>17 DEF GiveUp, Ready
<1>18. CASE Check
  <2>1. ~Idle /\ UNCHANGED <<workspace, cancelled, tool>> /\ <<>> \in Seq(Features)
    BY <1>18 DEF Check, Ready
  <2>2. (Enter("work", <<>>) /\ UNCHANGED thrown) \/ Throw("circular")
    BY <1>18 DEF Check
  <2> QED
    BY <1>11, <1>14, <2>1, <2>2
<1>19. CASE Work
  BY <1>11, <1>12, <1>19, InvalidatedFacts DEF Work, Ready
<1>20. CASE Fail
  BY <1>14, <1>20 DEF Fail
<1>21. CASE CleanUp
  BY <1>11, <1>12, <1>21, DeclaredFacts DEF CleanUp, Ready
<1>22. CASE ProvideNext
  <2>1. ~Idle /\ Top.todo # <<>> /\ Step /\ UNCHANGED <<doomed, cancelled, thrown, tool>>
    BY <1>22 DEF ProvideNext, Ready
  <2>2. calls' \in Seq(Call) /\ Head(Top.todo) \in Features
    BY <2>1, SkipFacts, TodoFacts
  <2>3. Top.required \in SUBSET Features
    BY <2>1, TopFacts DEF Call
  <2>4. provided' \in SUBSET Features /\ needs' \in [Features -> SUBSET Features]
    BY <1>22, <2>2, <2>3 DEF ProvideNext, TypeOK
  <2> QED
    BY <2>1, <2>2, <2>4 DEF TypeOK, Call, tool
<1>23. CASE Finish
  BY <1>16, <1>23 DEF Finish, Ready
<1>24. CASE UNCHANGED vars
  BY <1>24 DEF vars, workspace, tool, TypeOK
<1>25. CASE Run
  BY <1>7, <1>8, <1>9, <1>10, <1>13, <1>15, <1>17, <1>18, <1>19, <1>20, <1>21,
     <1>22, <1>23, <1>25 DEF Run
<1> QED
  BY <1>2, <1>3, <1>4, <1>5, <1>6, <1>24, <1>25 DEF Next

\* The calls in progress, and what the workspace records, keep their types.
THEOREM TypeCorrect == Spec => []TypeOK
<1>1. TypeOK /\ [Next]_vars => TypeOK'
  BY TypeStep
<1> QED
  BY TypeInit, <1>1, PTL DEF Spec

-----------------------------------------------------------------------------

\* The recorded features, after any step.
LEMMA BasesStep ==
    ASSUME TypeOK, Bases, Runs, [Next]_vars
    PROVE  Bases'
<1>1. ASSUME UNCHANGED <<provided, needs>>, doomed' \subseteq provided
      PROVE  Bases'
  BY <1>1 DEF Bases
<1>2. CASE UNCHANGED workspace
  BY <1>1, <1>2 DEF Bases, workspace
<1>3. ASSUME NEW f \in Withdrawn, Withdraw(f)
      PROVE  Bases'
  BY <1>1, <1>3 DEF Withdraw
<1>4. ASSUME NEW f \in Features, CloseOne(f)
      PROVE  Bases'
  BY <1>1, <1>4 DEF CloseOne
<1>5. CASE InvalidateNext
  BY <1>1, <1>5, InvalidateFacts
<1>6. CASE Spread
  BY <1>1, <1>6 DEF Spread, Reached, Bases
<1>7. ASSUME NEW g \in Features, Drop(g)
      PROVE  Bases'
  <2>1. /\ provided' = provided \ {g} /\ needs' = [needs EXCEPT ![g] = {}]
        /\ doomed' = doomed \ {g} /\ \A h \in provided : g \notin needs[h]
    BY <1>7 DEF Drop
  <2>2. ASSUME NEW f \in Features
        PROVE  needs'[f] \subseteq provided' /\ (needs'[f] # {} => f \in provided')
    <3>1. CASE f = g
      BY <2>1, <3>1 DEF TypeOK
    <3>2. CASE f # g
      <4>1. needs'[f] = needs[f] /\ needs[f] \subseteq provided
        BY <2>1, <3>2 DEF TypeOK, Bases
      <4>2. needs[f] # {} => f \in provided /\ g \notin needs[f]
        BY <2>1 DEF Bases
      <4> QED
        BY <2>1, <3>2, <4>1, <4>2
    <3> QED
      BY <3>1, <3>2
  <2> QED
    BY <2>1, <2>2 DEF Bases
<1>8. CASE ProvideNext
  <2> DEFINE f == Head(Top.todo)
  <2>1. /\ ~Idle /\ Top.at = "provide" /\ Top.todo # <<>> /\ doomed' = doomed
        /\ provided' = provided \union {f}
        /\ needs' = IF f \in provided THEN needs ELSE [needs EXCEPT ![f] = Top.required]
    BY <1>8 DEF ProvideNext, Ready
  <2>2. Top.required \subseteq provided
    BY <2>1, TopFacts DEF Runs, Sound
  <2>3. f \in Features
    BY <2>1, TodoFacts
  <2> HIDE DEF f
  <2> QED
    BY <2>1, <2>2, <2>3 DEF Bases, TypeOK
<1>9. CASE Run
  BY <1>2, <1>4, <1>5, <1>6, <1>7, <1>8, <1>9 DEF Run, StartRequiring, RequireNext,
     GiveUp, Check, Work, Fail, CleanUp, Finish
<1> QED
  BY <1>2, <1>3, <1>9 DEF Next, Process, Require, Cancel, Close, vars

-----------------------------------------------------------------------------

\* A run that has not passed its requirements relies on nothing of the
\* workspace.
LEMMA EarlySound ==
    ASSUME NEW c, c.at \in {"before", "require"}
    PROVE  Sound(c) <=> c.required \subseteq ToSet(Declared(c.proc, {"require"}))
BY DEF Sound

LEMMA RunsTop ==
    ASSUME TypeOK, Runs, ~Idle, ~Idle', Len(calls') = Len(calls),
           calls'[Len(calls)] = Top',
           \A k \in 1..Len(calls) : k # Len(calls) => calls'[k] = calls[k],
           Sound(Top)', doomed' # {} => Top'.at \in {"before", "after"}
    PROVE  Runs'
<1>1. Len(calls) \in Nat \ {0}
  BY TopFacts
<1>2. ASSUME NEW k \in 1..Len(calls), k # Len(calls)
      PROVE  Sound(calls[k])' /\ calls'[k].at = "require"
  <2>1. calls[k].at = "require" /\ Sound(calls[k]) /\ calls'[k] = calls[k]
    BY <1>1, <1>2 DEF Runs
  <2> QED
    BY <2>1 DEF Sound
<1>3. Sound(calls[Len(calls)])'
  BY DEF Sound
<1>4. ASSUME NEW k \in 1..Len(calls)
      PROVE  Sound(calls[k])'
  BY <1>2, <1>3
<1> QED
  BY <1>1, <1>2, <1>4 DEF Runs

\* A run enters a phase and the workspace is as it was.
LEMMA RunsEnter ==
    ASSUME TypeOK, Runs, ~Idle, doomed = {}, UNCHANGED workspace,
           NEW phase \in {"before", "require", "work", "after", "provide"},
           NEW list \in Seq(Features), Enter(phase, list),
           phase \in {"work", "provide"} => Top.required \subseteq provided,
           phase = "after" => \/ Top.required \subseteq ToSet(list)
                              \/ list = <<>> /\ Top.required \subseteq provided,
           phase = "provide" =>
                ToSet(Declared(Top.proc, {"provide"})) \subseteq ToSet(list)
    PROVE  Runs'
<1>1. Sound(Top)
  BY TopFacts DEF Runs
<1>2. /\ Len(calls') = Len(calls) /\ ~Idle' /\ calls'[Len(calls)] = Top'
      /\ Top'.proc = Top.proc /\ Top'.required = Top.required
      /\ Top'.at = phase /\ Top'.todo = list
      /\ \A k \in 1..Len(calls) : k # Len(calls) => calls'[k] = calls[k]
  BY EnterFacts
<1>3. doomed' = {} /\ provided' = provided
  BY DEF workspace
<1>4. Sound(Top)'
  BY <1>1, <1>2, <1>3 DEF Sound
<1> QED
  BY <1>2, <1>3, <1>4, RunsTop

\* A run returns, to one that was going through its requirements.
LEMMA RunsReturn ==
    ASSUME TypeOK, Runs, ~Idle, doomed = {}, UNCHANGED workspace, Return
    PROVE  Runs'
<1>1. /\ calls' \in Seq(Call) /\ Len(calls') = Len(calls) - 1
      /\ \A k \in 1..Len(calls) - 1 : calls'[k] = calls[k]
  BY ReturnFacts
<1>2. Len(calls) \in Nat \ {0}
  BY TopFacts
<1>3. ASSUME NEW k \in 1..Len(calls) - 1
      PROVE  Sound(calls[k])' /\ calls'[k].at = "require"
  <2>1. k \in 1..Len(calls) /\ k < Len(calls)
    BY <1>2
  <2>2. calls[k].at = "require" /\ Sound(calls[k]) /\ calls'[k] = calls[k]
    BY <1>1, <2>1 DEF Runs
  <2> QED
    BY <2>2 DEF Sound
<1>4. doomed' = {}
  BY DEF workspace
<1> QED
  BY <1>1, <1>3, <1>4 DEF Runs

\* A tool has a processor run.
LEMMA RunsFirst ==
    ASSUME NEW p \in Processors, calls' = <<Begin(p)>>, doomed' = {}
    PROVE  Runs'
<1>1. Len(calls') = 1 /\ calls'[1] = Begin(p)
  BY FirstFacts
<1>2. Sound(calls[1])'
  BY <1>1, BeginFacts DEF Sound
<1> QED
  BY <1>1, <1>2 DEF Runs

\* The invalidation in progress goes on, in a run that takes features away.
LEMMA RunsSpread ==
    ASSUME TypeOK, Runs, doomed # {}, UNCHANGED calls
    PROVE  Runs'
<1>1. CASE Idle
  <2>1. Len(calls') = 0 /\ Idle'
    BY <1>1, EmptySeq DEF Idle
  <2> QED
    BY <2>1 DEF Runs
<1>2. CASE ~Idle
  <2>1. ~Idle' /\ Top' = Top /\ Top = calls[Len(calls)]
    BY <1>2 DEF Idle, Top
  <2>2. Top.at \in {"before", "after"} /\ Sound(Top)
    BY <1>2, TopFacts DEF Runs
  <2>3. Sound(Top)'
    BY <2>1, <2>2 DEF Sound
  <2> QED
    BY <1>2, <2>1, <2>2, <2>3, RunsTop
<1> QED
  BY <1>1, <1>2

LEMMA RunsStep ==
    ASSUME TypeOK, Bases, Runs, Serves, [Next]_vars
    PROVE  Runs'
<1>1. ~Idle => /\ Top \in Call /\ Top.proc \in Processors /\ Sound(Top)
               /\ Len(calls) \in 1..Len(calls) /\ Top = calls[Len(calls)]
  BY TopFacts DEF Call, Runs
<1>2. CASE UNCHANGED <<workspace, calls>>
  <2>1. \A k \in 1..Len(calls) : Sound(calls[k])'
    BY <1>2 DEF Runs, workspace, Sound
  <2> QED
    BY <1>2, <2>1 DEF Runs, workspace, Idle, Top
<1>3. ASSUME NEW p \in Started, Process(p)
      PROVE  Runs'
  BY <1>3, UsageAssumption, RunsFirst DEF Process, Ask, workspace
<1>4. ASSUME NEW f \in Asked, Require(f)
      PROVE  Runs'
  BY <1>4, UsageAssumption, DefaultFacts, RunsFirst DEF Require, Ask, workspace
<1>5. ASSUME Idle, UNCHANGED calls
      PROVE  Runs'
  <2>1. Len(calls') = 0 /\ Idle'
    BY <1>5, EmptySeq DEF Idle
  <2> QED
    BY <2>1 DEF Runs
<1>6. ASSUME NEW f \in Withdrawn, Withdraw(f)
      PROVE  Runs'
  BY <1>5, <1>6 DEF Withdraw, Ask
<1>7. ASSUME NEW f \in Features, CloseOne(f)
      PROVE  Runs'
  BY <1>5, <1>7 DEF CloseOne, Serves
<1>8. CASE InvalidateNext
  <2> DEFINE f == Head(Top.todo)
  <2>1. /\ ~Idle /\ Top.at \in {"before", "after"} /\ Top.todo # <<>>
        /\ doomed = {} /\ provided' = provided
        /\ Len(calls') = Len(calls) /\ ~Idle' /\ calls'[Len(calls)] = Top'
        /\ Top'.proc = Top.proc /\ Top'.required = Top.required \ {f}
        /\ Top'.at = Top.at /\ Top'.todo = Tail(Top.todo)
        /\ \A k \in 1..Len(calls) : k # Len(calls) => calls'[k] = calls[k]
    BY <1>8, InvalidateFacts
  <2>2. ToSet(Top.todo) = {f} \union ToSet(Tail(Top.todo))
    BY <2>1, TodoFacts
  <2> HIDE DEF f
  <2>3. Sound(Top)'
    BY <1>1, <2>1, <2>2 DEF Sound
  <2> QED
    BY <2>1, <2>3, RunsTop
<1>9. CASE Spread
  <2>1. doomed # {}
    BY <1>9 DEF Spread, Reached
  <2> QED
    BY <1>9, <2>1, RunsSpread DEF Spread
<1>10. ASSUME NEW g \in Features, Drop(g)
       PROVE  Runs'
  <2>1. doomed # {} /\ UNCHANGED calls
    BY <1>10 DEF Drop
  <2> QED
    BY <2>1, RunsSpread
<1>11. CASE StartRequiring
  BY <1>1, <1>11, DeclaredFacts, RunsEnter DEF StartRequiring, Ready
<1>12. ASSUME NEW what, Throw(what)
       PROVE  Runs'
  <2>1. Len(calls') = 0 /\ Idle'
    BY <1>12, EmptySeq DEF Throw, Idle
  <2> QED
    BY <2>1 DEF Runs
<1>13. CASE RequireNext
  <2> DEFINE f == Head(Top.todo)
  <2>1. /\ ~Idle /\ Top.at = "require" /\ Top.todo # <<>>
        /\ doomed = {} /\ doomed' = {} /\ provided' = provided
    BY <1>13 DEF RequireNext, Ready, workspace
  <2>2. f \in Features
    BY <2>1, TodoFacts
  <2>3. CASE f \in provided
    <3>1. Step
      BY <1>13, <2>3, <2>1, TopFacts DEF RequireNext, Step, Becomes
    <3>2. /\ Len(calls') = Len(calls) /\ ~Idle' /\ calls'[Len(calls)] = Top'
          /\ Top'.proc = Top.proc /\ Top'.required = Top.required
          /\ Top'.at = Top.at
          /\ \A k \in 1..Len(calls) : k # Len(calls) => calls'[k] = calls[k]
      BY <2>1, <3>1, SkipFacts
    <3>3. Sound(Top)'
      BY <1>1, <2>1, <3>2 DEF Sound
    <3> QED
      BY <2>1, <3>2, <3>3, RunsTop
  <2>4. CASE f \notin provided /\ Default[f] = NoProcessor
    BY <1>12, <1>13, <2>4 DEF RequireNext
  <2>5. CASE f \notin provided /\ Default[f] # NoProcessor
    <3> DEFINE c == Begin(Default[f])
               n == Len(calls)
    <3>1. calls' = Append([calls EXCEPT ![Len(calls)].todo = Tail(@)], c)
      BY <1>13, <2>5 DEF RequireNext
    <3>2. /\ c \in Call /\ c.at = "before"
          /\ c.required = ToSet(Declared(c.proc, {"require"}))
      BY <2>2, <2>5, DefaultFacts, BeginFacts
    <3> HIDE DEF c
    <3>3. /\ Len(calls') = Len(calls) + 1
          /\ calls'[Len(calls) + 1] = c
          /\ calls'[Len(calls)] = [Top EXCEPT !.todo = Tail(@)]
          /\ \A k \in 1..Len(calls) : k # Len(calls) => calls'[k] = calls[k]
      BY <2>1, <3>1, <3>2, NestFacts
    <3>4. n \in Nat \ {0}
      BY <2>1, TopFacts
    <3>5. ASSUME NEW k \in 1..n
          PROVE  /\ calls'[k].at = "require" /\ calls'[k].proc = calls[k].proc
                 /\ calls'[k].required = calls[k].required /\ Sound(calls[k])
      BY <1>1, <2>1, <3>3, <3>4, <3>5 DEF Runs, Call
    <3>6. ASSUME NEW k \in 1..n
          PROVE  Sound(calls[k])' /\ calls'[k].at = "require"
      BY <3>5 DEF Sound
    <3>7. ASSUME NEW k \in {n + 1}
          PROVE  Sound(calls[k])'
      BY <3>2, <3>3 DEF Sound
    <3> HIDE DEF n
    <3>8. Len(calls') = n + 1
      BY <3>3 DEF n
    <3>9. \A k \in 1..n + 1 : k \in 1..n \/ k \in {n + 1}
      BY <3>4
    <3>10. \A k \in 1..n + 1 : k < n + 1 => k \in 1..n
      BY <3>4
    <3>11. \A k \in 1..n + 1 : Sound(calls[k])'
      BY <3>6, <3>7, <3>9
    <3> QED
      BY <2>1, <3>6, <3>8, <3>10, <3>11 DEF Runs
  <2> QED
    BY <2>3, <2>4, <2>5
<1>14. CASE GiveUp
  BY <1>14, RunsReturn DEF GiveUp, Ready
<1>15. CASE Check
  <2>1. /\ ~Idle /\ doomed = {} /\ UNCHANGED workspace /\ <<>> \in Seq(Features)
    BY <1>15 DEF Check, Ready
  <2>2. CASE \A f \in Features : Uses(Top.proc, f) => f \in provided
    <3>1. Top.required \subseteq provided
      BY <1>1, <2>1, <2>2, RequiredUsed DEF Sound
    <3>2. Enter("work", <<>>)
      BY <1>15, <2>2 DEF Check
    <3> QED
      BY <2>1, <3>1, <3>2, RunsEnter
  <2>3. CASE ~ \A f \in Features : Uses(Top.proc, f) => f \in provided
    BY <1>12, <1>15, <2>3 DEF Check
  <2> QED
    BY <2>2, <2>3
<1>16. CASE Work
  <2> DEFINE p == Top.proc
             list == Invalidated(p, TRUE)
  <2>1. /\ ~Idle /\ doomed = {} /\ UNCHANGED workspace
        /\ Enter("after", list) /\ Top.at = "work"
    BY <1>16 DEF Work, Ready
  <2>2. p \in Processors /\ list \in Seq(Features)
    BY <1>1, <2>1, InvalidatedFacts
  <2>3. Top.required \subseteq provided /\ Top.required \subseteq ToSet(Declared(p, {"require"}))
    BY <1>1, <2>1 DEF Sound
  <2>4. list # <<>> => Top.required \subseteq ToSet(list)
    <3>1. ToSet(list) = {f \in ToSet(Declared(p, {"invalidate"})) : Uses(p, f) = TRUE}
      BY <2>2, InvalidatedFacts
    <3>2. list # <<>> => ToSet(Declared(p, {"require"}))
                             \subseteq ToSet(Declared(p, {"invalidate"}))
      BY <2>2, DeclarationAssumption
    <3>3. \A f \in ToSet(Declared(p, {"require"})) : Uses(p, f) = TRUE
      BY <2>2, RequiredUsed DEF Uses
    <3> HIDE DEF list, p
    <3> QED
      BY <2>3, <3>1, <3>2, <3>3
  <2> HIDE DEF list, p
  <2> QED
    BY <2>1, <2>2, <2>3, <2>4, RunsEnter
<1>17. CASE Fail
  BY <1>12, <1>17 DEF Fail
<1>18. CASE CleanUp
  <2>1. /\ ~Idle /\ doomed = {} /\ UNCHANGED workspace /\ Top.at = "after"
        /\ Top.todo = <<>> /\ Enter("provide", Declared(Top.proc, {"provide"}))
    BY <1>18 DEF CleanUp, Ready
  <2>2. ToSet(<<>>) = {}
    BY DEF ToSet
  <2>3. Top.required \subseteq provided
    BY <1>1, <2>1, <2>2 DEF Sound
  <2> QED
    BY <1>1, <2>1, <2>3, DeclaredFacts, RunsEnter
<1>19. CASE ProvideNext
  <2> DEFINE f == Head(Top.todo)
  <2>1. /\ ~Idle /\ Top.at = "provide" /\ Top.todo # <<>> /\ doomed = {}
        /\ Step /\ provided' = provided \union {f} /\ doomed' = {}
    BY <1>19 DEF ProvideNext, Ready
  <2>2. /\ Len(calls') = Len(calls) /\ ~Idle' /\ calls'[Len(calls)] = Top'
        /\ Top'.proc = Top.proc /\ Top'.required = Top.required
        /\ Top'.at = Top.at /\ Top'.todo = Tail(Top.todo)
        /\ \A k \in 1..Len(calls) : k # Len(calls) => calls'[k] = calls[k]
    BY <2>1, SkipFacts
  <2>3. ToSet(Top.todo) = {f} \union ToSet(Tail(Top.todo))
    BY <2>1, TodoFacts
  <2> HIDE DEF f
  <2>4. Sound(Top)'
    BY <1>1, <2>1, <2>2, <2>3 DEF Sound
  <2> QED
    BY <2>1, <2>2, <2>4, RunsTop
<1>20. CASE Finish
  BY <1>20, RunsReturn DEF Finish, Ready
<1>21. CASE Run
  BY <1>7, <1>8, <1>9, <1>10, <1>11, <1>13, <1>14, <1>15, <1>16, <1>17, <1>18,
     <1>19, <1>20, <1>21 DEF Run
<1> QED
  BY <1>2, <1>3, <1>4, <1>6, <1>21 DEF Next, Cancel, Close, vars

-----------------------------------------------------------------------------

\* A run goes on, for the same request.
LEMMA ServesOn ==
    ASSUME Serves, ~Idle, ~Idle', UNCHANGED <<asked, closing>>, thrown' = "none",
           calls'[1].proc = calls[1].proc
    PROVE  Serves'
BY DEF Serves, RequestsDeliver

\* A run that takes the place of the one on top is of the same processor.
LEMMA SameFirst ==
    ASSUME TypeOK, ~Idle,
           \/ calls'[Len(calls)].proc = Top.proc
           \/ Len(calls) # 1,
           \A k \in 1..Len(calls) : k # Len(calls) => calls'[k] = calls[k]
    PROVE  calls'[1].proc = calls[1].proc
<1>1. Len(calls) \in Nat \ {0} /\ Top = calls[Len(calls)]
  BY TopFacts
<1>2. 1 \in 1..Len(calls)
  BY <1>1
<1> QED
  BY <1>1, <1>2

LEMMA ServesEnter ==
    ASSUME TypeOK, Serves, ~Idle, UNCHANGED <<thrown, tool>>,
           NEW phase \in {"before", "require", "work", "after", "provide"},
           NEW list \in Seq(Features), Enter(phase, list)
    PROVE  Serves'
<1>1. /\ ~Idle' /\ calls'[Len(calls)].proc = Top.proc
      /\ \A k \in 1..Len(calls) : k # Len(calls) => calls'[k] = calls[k]
  BY EnterFacts
<1>2. calls'[1].proc = calls[1].proc
  BY <1>1, SameFirst
<1>3. thrown = "none"
  BY DEF Serves
<1> QED
  BY <1>1, <1>2, <1>3, ServesOn DEF tool

\* An exception leaves no run and no invalidation.
LEMMA ServesThrow ==
    ASSUME NEW what \in {"unavailable", "circular", "failed"}, Throw(what),
           doomed' = {}
    PROVE  Serves'
BY DEF Throw, Serves, Idle, RequestsDeliver

\* A nested run returns, or the first one does with what was asked, or the
\* computation was cancelled.
LEMMA ServesReturn ==
    ASSUME TypeOK, Serves, ~Idle, doomed = {}, UNCHANGED <<workspace, thrown, tool>>,
           Return, Len(calls) = 1 => cancelled' \/ asked \subseteq provided
    PROVE  Serves'
<1>1. /\ \A k \in 1..Len(calls) - 1 : calls'[k] = calls[k]
      /\ Idle' <=> Len(calls) = 1
  BY ReturnFacts
<1>2. Len(calls) \in Nat \ {0}
  BY TopFacts
<1>3. CASE Len(calls) = 1
  BY <1>1, <1>3 DEF Serves, RequestsDeliver, workspace, tool
<1>4. CASE Len(calls) # 1
  <2> DEFINE n == Len(calls)
  <2>1. 1 \in 1..n - 1
    <3>1. n \in Nat \ {0} /\ n # 1
      BY <1>2, <1>4
    <3> HIDE DEF n
    <3> QED
      BY <3>1
  <2> QED
    BY <1>1, <1>4, <2>1, ServesOn DEF Serves, tool
<1> QED
  BY <1>3, <1>4

LEMMA ServesStep ==
    ASSUME TypeOK, Runs, Serves, [Next]_vars
    PROVE  Serves'
<1>1. ~Idle => /\ Top \in Call /\ Top.proc \in Processors /\ Sound(Top)
               /\ Len(calls) \in 1..Len(calls) /\ Top = calls[Len(calls)]
  BY TopFacts DEF Call, Runs
<1>2. CASE UNCHANGED vars
  BY <1>2 DEF vars, workspace, tool, Serves, RequestsDeliver, Idle
<1>3. ASSUME NEW p \in Started, Process(p)
      PROVE  Serves'
  <2>1. ~Idle' /\ calls'[1] = Begin(p) /\ Begin(p).proc = p
    BY <1>3, UsageAssumption, FirstFacts, BeginFacts DEF Process
  <2>2. /\ asked' = ToSet(Declared(p, {"provide"}))
        /\ ~closing' /\ thrown' = "none"
    BY <1>3 DEF Process, Ask
  <2> QED
    BY <2>1, <2>2 DEF Serves, RequestsDeliver
<1>4. ASSUME NEW f \in Asked, Require(f)
      PROVE  Serves'
  <2>1. f \in Features /\ Default[f] \in Processors /\ Default[f] # NoProcessor
    BY <1>4, UsageAssumption, DefaultFacts DEF Require
  <2>2. /\ ~Idle' /\ calls'[1] = Begin(Default[f])
        /\ Begin(Default[f]).proc = Default[f]
    BY <1>4, <2>1, FirstFacts, BeginFacts DEF Require
  <2>3. asked' = {f} /\ ~closing' /\ thrown' = "none"
    BY <1>4 DEF Require, Ask
  <2>4. f \in ToSet(Declared(Default[f], {"provide"}))
    BY <2>1, DeclarationAssumption
  <2> QED
    BY <2>2, <2>3, <2>4 DEF Serves, RequestsDeliver
<1>5. ASSUME NEW f \in Withdrawn, Withdraw(f)
      PROVE  Serves'
  BY <1>5 DEF Withdraw, Ask, Serves, Idle, RequestsDeliver
<1>6. CASE Cancel
  BY <1>6 DEF Cancel, Serves, Idle, RequestsDeliver, tool
<1>7. ASSUME Idle, UNCHANGED calls, closing'
      PROVE  Serves'
  BY <1>7 DEF Serves, Idle, RequestsDeliver
<1>8. CASE Close
  BY <1>7, <1>8 DEF Close
<1>9. ASSUME NEW f \in Features, CloseOne(f)
      PROVE  Serves'
  BY <1>7, <1>9 DEF CloseOne, Serves, tool
<1>10. CASE InvalidateNext
  <2>1. /\ ~Idle /\ UNCHANGED <<thrown, tool>>
        /\ ~Idle' /\ calls'[Len(calls)].proc = Top.proc
        /\ \A k \in 1..Len(calls) : k # Len(calls) => calls'[k] = calls[k]
    BY <1>10, InvalidateFacts
  <2>2. calls'[1].proc = calls[1].proc
    BY <2>1, SameFirst
  <2>3. thrown = "none"
    BY <2>1 DEF Serves
  <2> QED
    BY <2>1, <2>2, <2>3, ServesOn DEF tool
<1>11. ASSUME doomed # {}, UNCHANGED <<calls, thrown, tool>>
       PROVE  Serves'
  <2>1. CASE Idle
    BY <1>11, <2>1 DEF Serves, Idle, RequestsDeliver, tool
  <2>2. CASE ~Idle
    BY <1>11, <2>2, ServesOn DEF Serves, Idle, tool
  <2> QED
    BY <2>1, <2>2
<1>12. CASE Spread
  <2>1. doomed # {} /\ UNCHANGED <<calls, thrown, tool>>
    BY <1>12 DEF Spread, Reached
  <2> QED
    BY <2>1, <1>11
<1>13. ASSUME NEW g \in Features, Drop(g)
       PROVE  Serves'
  <2>1. doomed # {} /\ UNCHANGED <<calls, thrown, tool>>
    BY <1>13 DEF Drop
  <2> QED
    BY <2>1, <1>11
<1>14. CASE StartRequiring
  BY <1>1, <1>14, DeclaredFacts, ServesEnter DEF StartRequiring, Ready
<1>15. CASE RequireNext
  <2> DEFINE f == Head(Top.todo)
  <2>1. /\ ~Idle /\ Top.todo # <<>> /\ doomed' = {} /\ UNCHANGED tool
        /\ thrown = "none"
    BY <1>15 DEF RequireNext, Ready, workspace, Serves
  <2>2. f \in Features
    BY <2>1, TodoFacts
  <2>3. CASE f \in provided
    <3>1. Step /\ UNCHANGED thrown
      BY <1>15, <2>3, <2>1, TopFacts DEF RequireNext, Step, Becomes
    <3>2. /\ ~Idle' /\ calls'[Len(calls)].proc = Top.proc
          /\ \A k \in 1..Len(calls) : k # Len(calls) => calls'[k] = calls[k]
      BY <2>1, <3>1, SkipFacts
    <3>3. calls'[1].proc = calls[1].proc
      BY <2>1, <3>2, SameFirst
    <3> QED
      BY <2>1, <3>1, <3>2, <3>3, ServesOn DEF tool
  <2>4. CASE f \notin provided /\ Default[f] = NoProcessor
    <3>1. Throw("unavailable")
      BY <1>15, <2>4 DEF RequireNext
    <3> QED
      BY <2>1, <3>1, ServesThrow
  <2>5. CASE f \notin provided /\ Default[f] # NoProcessor
    <3>1. /\ calls' = Append([calls EXCEPT ![Len(calls)].todo = Tail(@)],
                             Begin(Default[f]))
          /\ UNCHANGED thrown
      BY <1>15, <2>5 DEF RequireNext
    <3>2. Begin(Default[f]) \in Call
      BY <2>2, <2>5, DefaultFacts, BeginFacts
    <3>3. /\ ~Idle' /\ calls'[Len(calls)] = [Top EXCEPT !.todo = Tail(@)]
          /\ \A k \in 1..Len(calls) : k # Len(calls) => calls'[k] = calls[k]
      BY <2>1, <3>1, <3>2, NestFacts
    <3>4. calls'[Len(calls)].proc = Top.proc
      BY <1>1, <2>1, <3>3 DEF Call
    <3>5. calls'[1].proc = calls[1].proc
      BY <2>1, <3>3, <3>4, SameFirst
    <3> QED
      BY <2>1, <3>1, <3>3, <3>5, ServesOn DEF tool
  <2> QED
    BY <2>3, <2>4, <2>5
<1>16. CASE GiveUp
  BY <1>16, ServesReturn DEF GiveUp, Ready
<1>17. CASE Check
  <2>1. /\ ~Idle /\ doomed' = {} /\ UNCHANGED tool /\ <<>> \in Seq(Features)
    BY <1>17 DEF Check, Ready, workspace
  <2>2. (Enter("work", <<>>) /\ UNCHANGED thrown) \/ Throw("circular")
    BY <1>17 DEF Check
  <2> QED
    BY <2>1, <2>2, ServesEnter, ServesThrow
<1>18. CASE Work
  BY <1>1, <1>18, InvalidatedFacts, ServesEnter DEF Work, Ready
<1>19. CASE Fail
  BY <1>19, ServesThrow DEF Fail, Ready, workspace
<1>20. CASE CleanUp
  BY <1>1, <1>20, DeclaredFacts, ServesEnter DEF CleanUp, Ready
<1>21. CASE ProvideNext
  <2>1. ~Idle /\ Top.todo # <<>> /\ Step /\ UNCHANGED <<thrown, tool>>
    BY <1>21 DEF ProvideNext, Ready
  <2>2. /\ ~Idle' /\ calls'[Len(calls)].proc = Top.proc
        /\ \A k \in 1..Len(calls) : k # Len(calls) => calls'[k] = calls[k]
    BY <2>1, SkipFacts
  <2>3. calls'[1].proc = calls[1].proc /\ thrown = "none"
    BY <2>1, <2>2, SameFirst DEF Serves
  <2> QED
    BY <2>1, <2>2, <2>3, ServesOn DEF tool
<1>22. CASE Finish
  <2>1. /\ ~Idle /\ doomed = {} /\ Top.at = "provide" /\ Top.todo = <<>> /\ Return
        /\ UNCHANGED <<workspace, cancelled, thrown, tool>>
    BY <1>22 DEF Finish, Ready
  <2>2. ToSet(Declared(Top.proc, {"provide"})) \subseteq provided
    <3>1. ToSet(<<>>) = {}
      BY DEF ToSet
    <3> QED
      BY <1>1, <2>1, <3>1 DEF Sound
  <2>3. Len(calls) = 1 => asked \subseteq provided
    BY <1>1, <2>1, <2>2 DEF Serves
  <2> QED
    BY <2>1, <2>3, ServesReturn
<1>23. CASE Run
  BY <1>9, <1>10, <1>12, <1>13, <1>14, <1>15, <1>16, <1>17, <1>18, <1>19, <1>20,
     <1>21, <1>22, <1>23 DEF Run
<1> QED
  BY <1>2, <1>3, <1>4, <1>5, <1>6, <1>8, <1>23 DEF Next

-----------------------------------------------------------------------------

LEMMA InitialState == Init => IInv
<1> SUFFICES ASSUME Init
             PROVE  IInv
  OBVIOUS
<1>1. Len(calls) = 0 /\ Idle /\ doomed = {}
  BY EmptySeq DEF Init, Idle
<1>2. Bases
  BY DEF Init, Bases
<1>3. Runs
  BY <1>1 DEF Runs
<1>4. Serves
  BY <1>1 DEF Init, Serves, RequestsDeliver
<1> QED
  BY <1>2, <1>3, <1>4, TypeInit DEF IInv

\* The invariant that the properties of process() rest on.
THEOREM Invariance == Spec => []IInv
<1>1. Init => IInv
  BY InitialState
<1>2. IInv /\ [Next]_vars => IInv'
  BY TypeStep, BasesStep, RunsStep, ServesStep DEF IInv
<1> QED
  BY <1>1, <1>2, PTL DEF Spec

\* Whatever processors declare, WorkSpace::provide() finds its assertions true:
\* a run that used something up kept nothing of what it required.
THEOREM ProvideAssertions == Spec => []RequiredHold
<1>1. IInv => RequiredHold
  <2> SUFFICES ASSUME IInv, Ready("provide"), Head(Top.todo) \notin provided
               PROVE  Head(Top.todo) \notin Top.required /\ Top.required \subseteq provided
    BY DEF RequiredHold
  <2>1. Sound(Top) /\ Top.at = "provide"
    BY TopFacts DEF IInv, Runs, Ready
  <2> QED
    BY <2>1 DEF Sound
<1> QED
  BY Invariance, <1>1, PTL

\* A request that was neither cancelled nor ended by an exception leaves what
\* it is for on the workspace.
THEOREM RequestsAreServed == Spec => []RequestsDeliver
<1>1. IInv => RequestsDeliver
  BY DEF IInv, Serves
<1> QED
  BY Invariance, <1>1, PTL

-----------------------------------------------------------------------------

\* What goes with the features of a set: the least set that holds them and
\* all that was computed from its members.
Least(S, req) ==
    {g \in Features :
        \A T \in SUBSET Features : S \subseteq T /\ Holding(T, req) => g \in T}

LEMMA LeastFacts ==
    ASSUME NEW S \in SUBSET Features, NEW req
    PROVE  /\ S \subseteq Least(S, req) /\ Least(S, req) \subseteq Features
           /\ Holding(Least(S, req), req)
           /\ \A T \in SUBSET Features :
                  S \subseteq T /\ Holding(T, req) => Least(S, req) \subseteq T
<1>1. S \subseteq Least(S, req) /\ Least(S, req) \subseteq Features
  BY DEF Least
<1>2. ASSUME NEW T \in SUBSET Features, S \subseteq T, Holding(T, req)
      PROVE  Least(S, req) \subseteq T
  BY <1>2 DEF Least
<1>3. ASSUME NEW h \in Features, req[h] \cap Least(S, req) # {}
      PROVE  h \in Least(S, req)
  <2>1. ASSUME NEW T \in SUBSET Features, S \subseteq T, Holding(T, req)
        PROVE  h \in T
    <3>1. req[h] \cap T # {}
      BY <1>2, <1>3, <2>1
    <3> QED
      BY <2>1, <3>1 DEF Holding
  <2> QED
    BY <2>1 DEF Least
<1> QED
  BY <1>1, <1>2, <1>3 DEF Holding

\* One round of the search for what goes with a set does not change what does.
LEMMA LeastGrown ==
    ASSUME NEW S \in SUBSET Features, NEW req,
           NEW more \in SUBSET Features,
           \A g \in more : req[g] \cap S # {}
    PROVE  Least(S \union more, req) = Least(S, req)
<1>1. ASSUME NEW T \in SUBSET Features, Holding(T, req)
      PROVE  S \subseteq T <=> S \union more \subseteq T
  BY <1>1 DEF Holding
<1> QED
  BY <1>1 DEF Least

\* A member goes for a reason: it was to go, or something it was computed from
\* goes.
LEMMA LeastReason ==
    ASSUME NEW S \in SUBSET Features, NEW req, NEW g \in Least(S, req), g \notin S
    PROVE  req[g] \cap Least(S, req) # {}
<1> DEFINE L == Least(S, req)
<1>1. SUFFICES ASSUME req[g] \cap L = {}
               PROVE  FALSE
  OBVIOUS
<1>2. S \subseteq L \ {g} /\ L \ {g} \in SUBSET Features
  BY LeastFacts
<1>3. Holding(L \ {g}, req)
  <2>1. Holding(L, req)
    BY LeastFacts
  <2> HIDE DEF L
  <2> QED
    BY <1>1, <2>1 DEF Holding
<1>4. L \subseteq L \ {g}
  BY <1>2, <1>3, LeastFacts
<1> QED
  BY <1>4

\* The search, from any set, finds what goes with it.
LEMMA GoingIsLeast == TypeOK => Going = Least(doomed, needs)
<1> SUFFICES ASSUME TypeOK
             PROVE  Going = Least(doomed, needs)
  OBVIOUS
<1> DEFINE More(S) == {g \in Features \ S : needs[g] \cap S # {}}
           F(G) == [S \in SUBSET Features |->
                        IF More(S) = {} THEN S ELSE G[S \union More(S)]]
           G0 == CHOOSE G : G = F(G)
<1>1. Going = G0[doomed]
  BY DEF Going
<1>2. ASSUME NEW S \in SUBSET Features
      PROVE  /\ S \union More(S) \in SUBSET Features
             /\ More(S) = {} => Least(S, needs) = S
             /\ Least(S \union More(S), needs) = Least(S, needs)
  <2>1. More(S) = {} => Holding(S, needs)
    BY DEF Holding
  <2>2. More(S) = {} => Least(S, needs) \subseteq S /\ S \subseteq Least(S, needs)
    BY <2>1, LeastFacts
  <2>3. More(S) \in SUBSET Features /\ \A g \in More(S) : needs[g] \cap S # {}
    OBVIOUS
  <2> HIDE DEF More
  <2>4. Least(S \union More(S), needs) = Least(S, needs)
    BY <2>3, LeastGrown
  <2> QED
    BY <2>2, <2>3, <2>4
<1>3. \E G : G = F(G)
  <2> DEFINE G == [S \in SUBSET Features |-> Least(S, needs)]
  <2> HIDE DEF More
  <2>1. ASSUME NEW S \in SUBSET Features
        PROVE  Least(S, needs) = IF More(S) = {} THEN S ELSE G[S \union More(S)]
    BY <1>2
  <2>2. G = F(G)
    BY <2>1
  <2> HIDE DEF G, F
  <2> QED
    BY <2>2
<1>4. G0 = F(G0)
  BY <1>3
<1> HIDE DEF G0
<1>5. ASSUME NEW S \in SUBSET Features
      PROVE  G0[S] = IF More(S) = {} THEN S ELSE G0[S \union More(S)]
  <2> HIDE DEF More
  <2> QED
    BY <1>4
<1>6. \A S \in SUBSET Features :
            IsFiniteSet(Features \ S) /\ Cardinality(Features \ S) \in Nat
  BY UsageAssumption, FS_Difference, FS_CardinalityType
<1> DEFINE Bad == {n \in Nat : \E S \in SUBSET Features :
                        n = Cardinality(Features \ S) /\ G0[S] # Least(S, needs)}
<1>7. Bad = {}
  <2> SUFFICES ASSUME Bad # {}
               PROVE  FALSE
    OBVIOUS
  <2>1. PICK n \in Bad : \A m \in Bad : n <= m
    <3>1. Bad \in SUBSET Nat
      OBVIOUS
    <3> HIDE DEF Bad
    <3> QED
      BY <3>1, LeastNatural
  <2>2. PICK S \in SUBSET Features :
            n = Cardinality(Features \ S) /\ G0[S] # Least(S, needs)
    OBVIOUS
  <2>3. CASE More(S) = {}
    BY <1>2, <1>5, <2>2, <2>3
  <2>4. CASE More(S) # {}
    <3> DEFINE U == S \union More(S)
               m == Cardinality(Features \ U)
    <3>1. U \in SUBSET Features /\ G0[S] = G0[U] /\ Least(U, needs) = Least(S, needs)
      BY <1>2, <1>5, <2>4
    <3>2. /\ Features \ U \subseteq Features \ S /\ Features \ U # Features \ S
      BY <2>4
    <3> HIDE DEF U, More
    <3>3. m < n /\ m \in Nat /\ n \in Nat
      <4>1. m \in Nat /\ n \in Nat /\ IsFiniteSet(Features \ S)
        BY <1>6, <2>2, <3>1
      <4>2. m <= n /\ m # n
        BY <2>2, <3>2, <4>1, FS_Subset
      <4> QED
        BY <4>1, <4>2
    <3>4. m \in Bad
      BY <2>2, <3>1, <3>3
    <3> HIDE DEF m, Bad
    <3>5. n <= m
      BY <2>1, <3>4
    <3> QED
      BY <3>3, <3>5
  <2> QED
    BY <2>3, <2>4
<1>8. G0[doomed] = Least(doomed, needs)
  <2>1. doomed \in SUBSET Features
    BY DEF TypeOK
  <2> QED
    BY <1>6, <1>7, <2>1
<1> QED
  BY <1>1, <1>8

\* Nothing goes when nothing is to.
LEMMA NothingGoes ==
    ASSUME NEW req \in [Features -> SUBSET Features]
    PROVE  Least({}, req) = {}
<1>1. Holding({}, req) /\ {} \in SUBSET Features
  BY DEF Holding
<1> QED
  BY <1>1, LeastFacts

\* An invalidation that goes on reaches nothing but what goes with it.
LEMMA SpreadKeeps ==
    ASSUME TypeOK, Spread
    PROVE  Least(doomed', needs') = Least(doomed, needs)
<1>1. /\ doomed' = doomed \union Reached /\ needs' = needs
      /\ doomed \in SUBSET Features
      /\ Reached \in SUBSET Features /\ \A g \in Reached : needs[g] \cap doomed # {}
  BY DEF Spread, Reached, TypeOK
<1> HIDE DEF Reached
<1> QED
  BY <1>1, LeastGrown

\* A node that is deleted goes out of what goes, and nothing else does.
LEMMA DropKeeps ==
    ASSUME TypeOK, Bases, NEW g \in Features, Drop(g)
    PROVE  Least(doomed', needs') = Least(doomed, needs) \ {g}
<1> DEFINE L == Least(doomed, needs)
           M == Least(doomed \ {g}, [needs EXCEPT ![g] = {}])
<1>1. /\ g \in doomed /\ doomed \in SUBSET Features
      /\ needs \in [Features -> SUBSET Features]
      /\ \A h \in Features : g \notin needs[h]
  BY DEF Drop, TypeOK, Bases
<1> DEFINE req == [needs EXCEPT ![g] = {}]
<1>2. /\ req[g] = {} /\ \A h \in Features : h # g => req[h] = needs[h]
  BY <1>1
<1> HIDE DEF req
<1>3. doomed \subseteq L /\ L \subseteq Features /\ Holding(L, needs)
  BY <1>1, LeastFacts
<1>4. M \subseteq L \ {g}
  <2>1. Holding(L \ {g}, req)
    <3> HIDE DEF L
    <3> QED
      BY <1>2, <1>3 DEF Holding
  <2>2. doomed \ {g} \subseteq L \ {g} /\ L \ {g} \in SUBSET Features
        /\ doomed \ {g} \in SUBSET Features
    BY <1>1, <1>3
  <2> QED
    BY <2>1, <2>2, LeastFacts DEF req
<1>5. L \ {g} \subseteq M
  <2>1. /\ doomed \ {g} \subseteq M /\ M \subseteq Features /\ Holding(M, req)
    BY <1>1, LeastFacts DEF req
  <2> DEFINE T == M \union {g}
  <2>2. Holding(T, needs)
    <3> HIDE DEF M
    <3> QED
      BY <1>1, <1>2, <2>1 DEF Holding
  <2>3. doomed \subseteq T /\ T \in SUBSET Features
    BY <2>1
  <2>4. L \subseteq T
    <3> HIDE DEF T
    <3> QED
      BY <1>1, <2>2, <2>3, LeastFacts
  <2> QED
    BY <2>4
<1>6. doomed' = doomed \ {g} /\ needs' = [needs EXCEPT ![g] = {}]
  BY DEF Drop
<1>7. L \ {g} = M
  BY <1>4, <1>5
<1> QED
  BY <1>6, <1>7

\* Runs of process(), nested in any way, change the features that a tool sees
\* only as the abstract specification allows: one feature provided, with
\* features that are provided, or one feature taken away with all that was
\* computed from it and nothing else, in one step.
THEOREM ImplementsFeatures == Spec => KeepsPromise
<1> DEFINE seen == provided \ Going
           base == [f \in Features |-> IF f \in Going THEN {} ELSE needs[f]]
<1>1. TypeOK => Going = Least(doomed, needs)
  BY GoingIsLeast
<1>2. (TypeOK => Going = Least(doomed, needs))'
  BY <1>1, PTL
<1>3. Init => Promise!Init
  <2> SUFFICES ASSUME Init
               PROVE  Promise!Init
    OBVIOUS
  <2>1. TypeOK
    BY TypeInit
  <2>2. Going = {}
    BY <1>1, <2>1, NothingGoes DEF Init
  <2> QED
    BY <2>2 DEF Init, Promise!Init
<1>4. ASSUME IInv, IInv', [Next]_vars
      PROVE  [Promise!Next]_<<seen, base>>
  <2>1. /\ Going = Least(doomed, needs) /\ Going' = Least(doomed', needs')
        /\ needs \in [Features -> SUBSET Features] /\ provided \in SUBSET Features
        /\ needs' \in [Features -> SUBSET Features]
    BY <1>1, <1>2, <1>4 DEF IInv, TypeOK
  <2> USE <1>4
  <2>2. ASSUME Going' = Going, UNCHANGED <<provided, needs>>
        PROVE  UNCHANGED <<seen, base>>
    BY <2>2
  <2>3. CASE UNCHANGED workspace
    BY <2>1, <2>2, <2>3 DEF workspace
  <2>4. ASSUME NEW f \in Features, f \in provided, doomed = {}, doomed' = {f},
               UNCHANGED <<provided, needs>>
        PROVE  Promise!Invalidate(f)
    <3> DEFINE K == Least({f}, needs)
               gone == seen \ seen'
    <3>1. Going = {} /\ Going' = K
      BY <2>1, <2>4, NothingGoes
    <3>2. base = needs
      BY <2>1, <3>1
    <3>3. Holding(provided, needs)
      BY DEF Holding, IInv, Bases
    <3>4. f \in K /\ K \subseteq provided /\ Holding(K, needs)
      BY <2>1, <2>4, <3>3, LeastFacts
    <3>5. \A g \in K : g = f \/ needs[g] \cap K # {}
      BY LeastReason
    <3> HIDE DEF K
    <3>6. seen' \subseteq seen /\ gone = K
      BY <2>4, <3>1, <3>4
    <3>7. base' = [g \in Features |-> IF g \in K THEN {} ELSE needs[g]]
      BY <2>4, <3>1
    <3>8. /\ f \in gone /\ Holding(gone, base)
          /\ \A g \in gone : g = f \/ base[g] \cap gone # {}
          /\ base' = [g \in Features |-> IF g \in gone THEN {} ELSE base[g]]
      <4> HIDE DEF gone, base
      <4> QED
        BY <3>2, <3>4, <3>5, <3>6, <3>7
    <3> QED
      BY <3>6, <3>8, Zenon DEF Promise!Invalidate, Promise!Holding, Holding
  <2>5. ASSUME NEW f \in Withdrawn, Withdraw(f)
        PROVE  Promise!Next
    <3>1. f \in Features /\ Promise!Invalidate(f)
      BY <2>4, <2>5, UsageAssumption DEF Withdraw, Ask
    <3> QED
      BY <3>1 DEF Promise!Next
  <2>6. ASSUME NEW f \in Features, CloseOne(f)
        PROVE  Promise!Next
    <3>1. Promise!Invalidate(f)
      BY <2>4, <2>6 DEF CloseOne
    <3> QED
      BY <3>1 DEF Promise!Next
  <2>7. CASE InvalidateNext
    <3>1. PICK f \in Features : f = Head(Top.todo)
      BY <2>7, InvalidateFacts, TodoFacts DEF IInv
    <3>2. /\ doomed = {} /\ UNCHANGED <<provided, needs>>
          /\ doomed' = IF f \in provided THEN {f} ELSE {}
      BY <2>7, <3>1, InvalidateFacts DEF IInv
    <3>3. CASE f \in provided
      <4>1. Promise!Invalidate(f)
        BY <2>4, <3>2, <3>3
      <4> QED
        BY <4>1 DEF Promise!Next
    <3>4. CASE f \notin provided
      BY <2>3, <3>2, <3>4 DEF workspace
    <3> QED
      BY <3>3, <3>4
  <2>8. CASE Spread
    <3>1. Going' = Going
      BY <2>1, <2>8, SpreadKeeps DEF IInv
    <3> QED
      BY <2>2, <2>8, <3>1 DEF Spread
  <2>9. ASSUME NEW g \in Features, Drop(g)
        PROVE  UNCHANGED <<seen, base>>
    <3>1. Going' = Going \ {g}
      BY <2>1, <2>9, DropKeeps DEF IInv
    <3>2. /\ g \in Going /\ provided' = provided \ {g}
          /\ needs' = [needs EXCEPT ![g] = {}]
      BY <2>1, <2>9, LeastFacts DEF Drop, IInv, TypeOK
    <3>3. seen' = seen
      BY <3>1, <3>2
    <3>4. ASSUME NEW f \in Features
          PROVE  base'[f] = base[f]
      <4>1. CASE f = g
        BY <2>1, <3>1, <3>2, <4>1
      <4>2. CASE f # g
        BY <2>1, <3>1, <3>2, <4>2
      <4> QED
        BY <4>1, <4>2
    <3>5. base' = base
      BY <3>4
    <3> QED
      BY <3>3, <3>5
  <2>10. CASE ProvideNext
    <3>1. ~Idle /\ Top.at = "provide" /\ Top.todo # <<>> /\ doomed = {} /\ doomed' = {}
      BY <2>10 DEF ProvideNext, Ready
    <3>2. PICK f \in Features : f = Head(Top.todo)
      BY <3>1, TodoFacts DEF IInv
    <3>3. PICK req \in SUBSET provided : req = Top.required
      BY <3>1, TopFacts DEF IInv, Runs, Sound
    <3>4. /\ provided' = provided \union {f}
          /\ needs' = IF f \in provided THEN needs ELSE [needs EXCEPT ![f] = req]
      BY <2>10, <3>2, <3>3 DEF ProvideNext
    <3>5. Going = {} /\ Going' = {}
      BY <2>1, <3>1, NothingGoes
    <3>6. CASE f \in provided
      <4>1. provided' = provided /\ needs' = needs
        BY <3>4, <3>6
      <4> QED
        BY <2>2, <3>5, <4>1
    <3>7. CASE f \notin provided
      <4>1. seen = provided /\ base = needs /\ seen' = provided' /\ base' = needs'
        BY <2>1, <3>5
      <4>2. Promise!Provide(f, req) /\ req \in SUBSET seen
        BY <3>4, <3>7, <4>1 DEF Promise!Provide
      <4> QED
        BY <4>2 DEF Promise!Next
    <3> QED
      BY <3>6, <3>7
  <2>11. CASE Run
    BY <2>3, <2>6, <2>7, <2>8, <2>2, <2>9, <2>10, <2>11 DEF Run, StartRequiring,
       RequireNext, GiveUp, Check, Work, Fail, CleanUp, Finish
  <2> QED
    BY <2>3, <2>5, <2>11 DEF Next, Process, Require, Cancel, Close, vars
<1> QED
  BY <1>3, <1>4, Invariance, PTL DEF Spec, KeepsPromise, Promise!Spec

-----------------------------------------------------------------------------

\* What a run goes through to have it provided, how many of it are behind it,
\* and the last of these.
Wants(c)   == Declared(c.proc, {"require", "use"})
Count(c)   == Len(Wants(c)) - Len(c.todo)
Current(c) == Wants(c)[Count(c)]
Taken(c)   == ToSet(Declared(c.proc, {"invalidate"}))

\* The list of a run, at each of its phases, comes from its declarations, and
\* what it takes away leaves what it required.
Follows(c) ==
    /\ c.at = "require" =>
            /\ Len(c.todo) <= Len(Wants(c))
            /\ \A m \in 1..Len(c.todo) : c.todo[m] = Wants(c)[Count(c) + m]
    /\ c.at \in {"before", "after"} => ToSet(c.todo) \subseteq Taken(c)
    /\ c.at = "after" => c.required \cap Taken(c) \subseteq ToSet(c.todo)
    /\ c.at = "provide" =>
            /\ c.required \cap Taken(c) = {}
            /\ ToSet(c.todo) \subseteq ToSet(Declared(c.proc, {"provide"}))

\* A run waits for the default processor of a feature, which takes away none of
\* those that it had provided before.
Waits(undone, c) ==
    /\ Count(c) >= 1
    /\ doomed \subseteq undone[Current(c)]
    /\ \A i \in 1..Count(c) - 1 : Wants(c)[i] \in provided

\* What each feature rests on was declared; the runs follow their lists; and
\* unless it is cancelled, a run has what it went through.
Turn(undone) ==
    /\ \A f \in Features : needs[f] \subseteq Rests(f)
    /\ \A k \in 1..Len(calls) : Follows(calls[k])
    /\ \A k \in 1..Len(calls) : k < Len(calls) =>
            Waits(undone, calls[k]) /\ Default[Current(calls[k])] = calls[k + 1].proc
    /\ \A j, k \in 1..Len(calls) : j < k /\ k < Len(calls) =>
            undone[Current(calls[k])] \subseteq undone[Current(calls[j])]
    /\ ~Idle /\ Top.at = "require" =>
            cancelled \/ \A i \in 1..Count(Top) : Wants(Top)[i] \in provided
    /\ NotCircular

LEMMA WantsFacts ==
    ASSUME NEW c \in Call
    PROVE  /\ Wants(c) \in Seq(Features) /\ Len(Wants(c)) \in Nat
           /\ Len(c.todo) \in Nat /\ Count(c) \in Int
           /\ \A i \in 1..Len(Wants(c)) :
                  Wants(c)[i] \in Features /\ Uses(c.proc, Wants(c)[i])
           /\ \A f : Uses(c.proc, f) <=> \E i \in 1..Len(Wants(c)) : Wants(c)[i] = f
<1>1. c.proc \in Processors /\ c.todo \in Seq(Features)
  BY DEF Call
<1>2. Wants(c) \in Seq(Features)
  BY <1>1, DeclaredFacts DEF Wants
<1>3. DOMAIN Wants(c) = 1..Len(Wants(c))
  BY <1>2
<1>4. \A f : Uses(c.proc, f) <=> \E i \in 1..Len(Wants(c)) : Wants(c)[i] = f
  BY <1>3 DEF Uses, Wants, ToSet
<1>5. Len(Wants(c)) \in Nat /\ Len(c.todo) \in Nat
  BY <1>1, <1>2
<1>6. \A i \in 1..Len(Wants(c)) : Wants(c)[i] \in Features
  BY <1>2
<1> QED
  BY <1>2, <1>4, <1>5, <1>6 DEF Count

\* The features that the waiting runs wait for, and what the run on top may
\* take away.
LEMMA WaitingFacts ==
    ASSUME NEW undone, InOrder(undone), TypeOK, Runs, Turn(undone), ~Idle,
           NEW k \in 1..Len(calls), k < Len(calls)
    PROVE  /\ Count(calls[k]) \in 1..Len(Wants(calls[k]))
           /\ Current(calls[k]) \in Features
           /\ Taken(Top) \subseteq undone[Current(calls[k])]
           /\ \A g \in Features : Uses(Top.proc, g) =>
                    undone[g] \subseteq undone[Current(calls[k])]
<1>1. /\ Len(calls) \in Nat \ {0} /\ Top = calls[Len(calls)] /\ Top \in Call
      /\ \A m \in 1..Len(calls) : calls[m] \in Call
  BY TopFacts
<1>2. ASSUME NEW m \in 1..Len(calls), m < Len(calls)
      PROVE  /\ Count(calls[m]) \in 1..Len(Wants(calls[m]))
             /\ Current(calls[m]) \in Features
  <2>1. /\ calls[m] \in Call /\ Count(calls[m]) >= 1
    BY <1>1, <1>2 DEF Turn, Waits
  <2>2. /\ Len(Wants(calls[m])) \in Nat /\ Len(calls[m].todo) \in Nat
        /\ \A i \in 1..Len(Wants(calls[m])) : Wants(calls[m])[i] \in Features
    BY <2>1, WantsFacts
  <2>3. Count(calls[m]) \in 1..Len(Wants(calls[m]))
    <3> DEFINE a == Len(Wants(calls[m]))
               b == Len(calls[m].todo)
    <3>1. a \in Nat /\ b \in Nat /\ a - b >= 1 /\ Count(calls[m]) = a - b
      BY <2>1, <2>2 DEF Count
    <3> HIDE DEF a, b
    <3>2. a - b \in 1..a
      BY <3>1
    <3> QED
      BY <3>1, <3>2 DEF a
  <2> QED
    BY <2>2, <2>3 DEF Current
<1> DEFINE n == Len(calls) - 1
<1>3. n \in 1..Len(calls) /\ n < Len(calls) /\ n + 1 = Len(calls) /\ (k < n \/ k = n)
  BY <1>1
<1> HIDE DEF n
<1>4. Default[Current(calls[n])] = Top.proc /\ Top.proc # NoProcessor
  BY <1>1, <1>3, UsageAssumption DEF Turn, Call
<1>5. Current(calls[n]) \in Features
  BY <1>2, <1>3
<1>6. /\ Taken(Top) \subseteq undone[Current(calls[n])]
      /\ \A g \in Features : Uses(Top.proc, g) =>
                undone[g] \subseteq undone[Current(calls[n])]
  BY <1>4, <1>5 DEF InOrder, Taken
<1>7. undone[Current(calls[n])] \subseteq undone[Current(calls[k])]
  BY <1>3 DEF Turn
<1> QED
  BY <1>2, <1>6, <1>7

\* The run on top goes on, with the others as they were.
LEMMA TurnTop ==
    ASSUME NEW undone, TypeOK, Turn(undone), ~Idle, ~Idle',
           Len(calls') = Len(calls), calls'[Len(calls)] = Top',
           \A k \in 1..Len(calls) : k # Len(calls) => calls'[k] = calls[k],
           Top'.proc = Top.proc, Follows(Top'), thrown' # "circular",
           \A f \in Features : needs'[f] \subseteq Rests(f),
           \A k \in 1..Len(calls) : k < Len(calls) =>
                /\ doomed' \subseteq undone[Current(calls[k])]
                /\ \A i \in 1..Count(calls[k]) - 1 : Wants(calls[k])[i] \in provided',
           Top'.at = "require" =>
                cancelled' \/ \A i \in 1..Count(Top') : Wants(Top')[i] \in provided'
    PROVE  Turn(undone)'
<1>1. Len(calls) \in Nat \ {0} /\ Top = calls[Len(calls)]
  BY TopFacts
<1>2. \A k \in 1..Len(calls) : Follows(calls'[k])
  BY <1>1 DEF Turn
<1>3. ASSUME NEW k \in 1..Len(calls), k < Len(calls)
      PROVE  Waits(undone, calls[k])' /\ Default[Current(calls'[k])] = calls'[k + 1].proc
  <2>1. calls'[k] = calls[k] /\ k + 1 \in 1..Len(calls)
    BY <1>1, <1>3
  <2>2. calls'[k + 1].proc = calls[k + 1].proc
    BY <1>1, <2>1
  <2>3. Waits(undone, calls[k]) /\ Default[Current(calls[k])] = calls[k + 1].proc
    BY <1>3 DEF Turn
  <2>4. Waits(undone, calls[k])'
    BY <1>3, <2>1, <2>3 DEF Waits
  <2> QED
    BY <2>1, <2>2, <2>3, <2>4
<1>4. ASSUME NEW j \in 1..Len(calls), NEW k \in 1..Len(calls), j < k, k < Len(calls)
      PROVE  undone[Current(calls'[k])] \subseteq undone[Current(calls'[j])]
  <2>1. j # Len(calls) /\ k # Len(calls)
    BY <1>1, <1>4
  <2> QED
    BY <1>4, <2>1 DEF Turn
<1> QED
  BY <1>2, <1>3, <1>4 DEF Turn, NotCircular

\* What has to hold of the waiting runs still does, when no more is to go and
\* nothing has gone.
LEMMA TurnKept ==
    ASSUME NEW undone, Turn(undone), doomed' = {}, provided \subseteq provided'
    PROVE  \A k \in 1..Len(calls) : k < Len(calls) =>
                /\ doomed' \subseteq undone[Current(calls[k])]
                /\ \A i \in 1..Count(calls[k]) - 1 : Wants(calls[k])[i] \in provided'
BY DEF Turn, Waits

\* The run on top enters a phase, and the workspace is as it was.
LEMMA TurnEnter ==
    ASSUME NEW undone, TypeOK, Turn(undone), ~Idle, doomed = {},
           UNCHANGED <<workspace, cancelled, thrown>>,
           NEW phase \in {"before", "require", "work", "after", "provide"},
           NEW list \in Seq(Features), Enter(phase, list),
           phase = "require" => list = Wants(Top),
           phase \in {"before", "after"} => ToSet(list) \subseteq Taken(Top),
           phase = "after" => Top.required \cap Taken(Top) \subseteq ToSet(list),
           phase = "provide" => /\ Top.required \cap Taken(Top) = {}
                                /\ ToSet(list) \subseteq ToSet(Declared(Top.proc, {"provide"}))
    PROVE  Turn(undone)'
<1>1. /\ Len(calls') = Len(calls) /\ ~Idle' /\ calls'[Len(calls)] = Top' /\ Top' \in Call
      /\ Top'.proc = Top.proc /\ Top'.required = Top.required
      /\ Top'.at = phase /\ Top'.todo = list
      /\ \A k \in 1..Len(calls) : k # Len(calls) => calls'[k] = calls[k]
  BY EnterFacts
<1>2. /\ doomed' = {} /\ provided' = provided /\ thrown' # "circular"
      /\ \A f \in Features : needs'[f] \subseteq Rests(f)
  BY DEF workspace, Turn, NotCircular
<1>3. Taken(Top') = Taken(Top) /\ Wants(Top') = Wants(Top)
  BY <1>1 DEF Taken, Wants
<1>4. ASSUME phase = "require"
      PROVE  Count(Top') = 0 /\ Follows(Top')
  <2>1. Len(Wants(Top)) \in Nat
    BY TopFacts, WantsFacts
  <2>2. Count(Top') = 0 /\ Len(Top'.todo) = Len(Wants(Top'))
    BY <1>1, <1>3, <1>4, <2>1 DEF Count
  <2>3. \A m \in 1..Len(Wants(Top)) : 0 + m = m
    BY <2>1
  <2> QED
    BY <1>1, <1>3, <1>4, <2>1, <2>2, <2>3 DEF Follows
<1>5. ASSUME phase # "require"
      PROVE  Follows(Top')
  BY <1>1, <1>3, <1>5 DEF Follows
<1>6. Follows(Top')
  BY <1>4, <1>5
<1>7. Top'.at = "require" =>
          cancelled' \/ \A i \in 1..Count(Top') : Wants(Top')[i] \in provided'
  BY <1>1, <1>4
<1>8. \A k \in 1..Len(calls) : k < Len(calls) =>
                /\ doomed' \subseteq undone[Current(calls[k])]
                /\ \A i \in 1..Count(calls[k]) - 1 : Wants(calls[k])[i] \in provided'
  BY <1>2, TurnKept
<1> QED
  BY <1>1, <1>2, <1>6, <1>7, <1>8, TurnTop

\* A run returns, to one that has now what it waited for unless the computation
\* was cancelled.
LEMMA TurnReturn ==
    ASSUME NEW undone, InOrder(undone), TypeOK, Runs, Turn(undone), ~Idle, doomed = {},
           UNCHANGED <<workspace, cancelled, thrown>>, Return,
           cancelled \/ ToSet(Declared(Top.proc, {"provide"})) \subseteq provided
    PROVE  Turn(undone)'
<1>1. /\ Len(calls') = Len(calls) - 1
      /\ \A k \in 1..Len(calls) - 1 : calls'[k] = calls[k]
      /\ Idle' <=> Len(calls) = 1
  BY ReturnFacts
<1>2. /\ Len(calls) \in Nat \ {0} /\ Top = calls[Len(calls)] /\ Top \in Call
      /\ \A m \in 1..Len(calls) : calls[m] \in Call
  BY TopFacts
<1>3. /\ doomed' = {} /\ provided' = provided /\ NotCircular'
      /\ \A f \in Features : needs'[f] \subseteq Rests(f)
  BY DEF workspace, Turn, NotCircular
<1> DEFINE n == Len(calls) - 1
<1>4. \A k \in 1..n : k \in 1..Len(calls) /\ k < Len(calls) /\ (k < n => k + 1 \in 1..n)
  BY <1>2
<1> HIDE DEF n
<1>5. /\ Len(calls') = n /\ \A k \in 1..n : calls'[k] = calls[k]
  BY <1>1 DEF n
<1>6. \A k \in 1..n : Follows(calls'[k])
  BY <1>4, <1>5 DEF Turn
<1>7. ASSUME NEW k \in 1..n, k < n
      PROVE  Waits(undone, calls[k])' /\ Default[Current(calls'[k])] = calls'[k + 1].proc
  <2>1. Waits(undone, calls[k]) /\ Default[Current(calls[k])] = calls[k + 1].proc
    BY <1>4, <1>7 DEF Turn
  <2>2. calls'[k] = calls[k] /\ calls'[k + 1] = calls[k + 1]
    BY <1>4, <1>5, <1>7
  <2>3. Waits(undone, calls[k])'
    BY <1>3, <2>1, <2>2 DEF Waits
  <2> QED
    BY <2>1, <2>2, <2>3
<1>8. \A j, k \in 1..n : j < k /\ k < n =>
            undone[Current(calls'[k])] \subseteq undone[Current(calls'[j])]
  BY <1>4, <1>5 DEF Turn
<1>9. ASSUME ~Idle', ~cancelled', NEW i \in 1..Count(Top')
      PROVE  Wants(Top')[i] \in provided'
  <2>1. Len(calls) # 1
    BY <1>1, <1>9
  <2>2. n \in 1..Len(calls) /\ n < Len(calls) /\ n + 1 = Len(calls) /\ n \in 1..n
    <3> DEFINE m == Len(calls)
    <3>1. m \in Nat \ {0} /\ m # 1 /\ n = m - 1
      BY <1>2, <2>1 DEF n
    <3> HIDE DEF m
    <3>2. n \in 1..m /\ n < m /\ n + 1 = m /\ n \in 1..n
      BY <3>1
    <3> QED
      BY <3>2 DEF m
  <2> DEFINE c == calls[n]
  <2>3. Top' = c
    BY <1>5, <2>2 DEF Top
  <2> HIDE DEF c
  <2>4. /\ Waits(undone, c) /\ Default[Current(c)] = Top.proc
        /\ Current(c) \in Features /\ Count(c) \in 1..Len(Wants(c))
    BY <1>2, <2>2, WaitingFacts DEF Turn, c
  <2>5. Current(c) \in ToSet(Declared(Top.proc, {"provide"}))
    BY <1>2, <2>4, UsageAssumption, DeclarationAssumption DEF Call
  <2>6. Current(c) \in provided
    BY <1>9, <2>5
  <2>7. i \in 1..Count(c) - 1 \/ i = Count(c)
    BY <1>9, <2>3, <2>4
  <2> QED
    BY <1>3, <2>3, <2>4, <2>6, <2>7 DEF Waits, Current
<1> QED
  BY <1>3, <1>5, <1>6, <1>7, <1>8, <1>9 DEF Turn

\* Nothing is left to be said of the runs when none is in progress.
LEMMA TurnIdle ==
    ASSUME NEW undone, Idle', thrown' # "circular",
           \A f \in Features : needs'[f] \subseteq Rests(f)
    PROVE  Turn(undone)'
<1>1. Len(calls') = 0
  BY EmptySeq DEF Idle
<1> QED
  BY <1>1 DEF Turn, NotCircular, Idle

\* A request starts a run.
LEMMA TurnFirst ==
    ASSUME NEW undone, NEW p \in Processors, Turn(undone),
           calls' = <<Begin(p)>>, thrown' = "none", needs' = needs
    PROVE  Turn(undone)'
<1>1. Len(calls') = 1 /\ ~Idle' /\ Top' = Begin(p) /\ calls'[1] = Begin(p)
  BY FirstFacts
<1>2. Begin(p).at = "before" /\ Begin(p).proc = p
  BY BeginFacts
<1>3. ToSet(Begin(p).todo) \subseteq Taken(Begin(p))
  BY <1>2, InvalidatedFacts DEF Begin, Taken
<1>4. Follows(Begin(p))
  BY <1>2, <1>3 DEF Follows
<1>5. \A k \in 1..1 : k = 1 /\ ~(k < 1)
  OBVIOUS
<1>6. \A f \in Features : needs'[f] \subseteq Rests(f)
  BY DEF Turn
<1> QED
  BY <1>1, <1>2, <1>4, <1>5, <1>6 DEF Turn, NotCircular

\* Nothing moves but that the computation may be cancelled.
LEMMA TurnStill ==
    ASSUME NEW undone, Turn(undone), UNCHANGED <<workspace, calls, thrown>>,
           cancelled => cancelled'
    PROVE  Turn(undone)'
BY DEF Turn, Waits, NotCircular, workspace, Idle, Top

\* A run takes away the next feature of its list: nothing that a run below it
\* went through.
LEMMA TurnInvalidate ==
    ASSUME NEW undone, InOrder(undone), TypeOK, Runs, Turn(undone), InvalidateNext
    PROVE  Turn(undone)'
<1>1. /\ ~Idle /\ Top.at \in {"before", "after"} /\ Top.todo # <<>>
      /\ doomed = {} /\ provided' = provided /\ needs' = needs /\ thrown' = thrown
      /\ doomed' \subseteq {Head(Top.todo)}
      /\ Len(calls') = Len(calls) /\ ~Idle' /\ calls'[Len(calls)] = Top'
      /\ Top'.proc = Top.proc /\ Top'.required = Top.required \ {Head(Top.todo)}
      /\ Top'.at = Top.at /\ Top'.todo = Tail(Top.todo)
      /\ \A k \in 1..Len(calls) : k # Len(calls) => calls'[k] = calls[k]
  BY InvalidateFacts
<1>2. ToSet(Top.todo) = {Head(Top.todo)} \union ToSet(Tail(Top.todo))
  BY <1>1, TodoFacts
<1>3. Follows(Top)
  BY <1>1, TopFacts DEF Turn
<1>4. Head(Top.todo) \in Taken(Top)
  BY <1>1, <1>2, <1>3 DEF Follows
<1>5. Taken(Top') = Taken(Top)
  BY <1>1 DEF Taken
<1>6. Follows(Top')
  BY <1>1, <1>2, <1>3, <1>5 DEF Follows
<1>7. ASSUME NEW k \in 1..Len(calls), k < Len(calls)
      PROVE  /\ doomed' \subseteq undone[Current(calls[k])]
             /\ \A i \in 1..Count(calls[k]) - 1 : Wants(calls[k])[i] \in provided'
  <2>1. Taken(Top) \subseteq undone[Current(calls[k])]
    BY <1>1, <1>7, WaitingFacts
  <2> QED
    BY <1>1, <1>4, <1>7, <2>1 DEF Turn, Waits
<1>8. thrown' # "circular" /\ \A f \in Features : needs'[f] \subseteq Rests(f)
  BY <1>1 DEF Turn, NotCircular
<1> QED
  BY <1>1, <1>6, <1>7, <1>8, TurnTop

\* An invalidation goes on, or is done with a feature: what the runs below the
\* one on top wait for may undo all that it goes through.
LEMMA TurnSpread ==
    ASSUME NEW undone, InOrder(undone), TypeOK, Bases, Runs, Turn(undone), Spread
    PROVE  Turn(undone)'
<1>1. /\ doomed # {} /\ doomed' = doomed \union Reached
      /\ UNCHANGED <<provided, needs, calls, cancelled, thrown>>
  BY DEF Spread, Reached
<1>2. thrown' # "circular" /\ \A f \in Features : needs'[f] \subseteq Rests(f)
  BY <1>1 DEF Turn, NotCircular
<1>3. CASE Idle
  BY <1>1, <1>2, <1>3, TurnIdle DEF Idle
<1>4. CASE ~Idle
  <2>1. /\ Len(calls') = Len(calls) /\ ~Idle' /\ calls'[Len(calls)] = Top' /\ Top' = Top
        /\ Top.at \in {"before", "after"} /\ Follows(Top)
    BY <1>1, <1>4, TopFacts DEF Idle, Top, Runs, Turn
  <2>2. ASSUME NEW k \in 1..Len(calls), k < Len(calls)
        PROVE  /\ doomed' \subseteq undone[Current(calls[k])]
               /\ \A i \in 1..Count(calls[k]) - 1 : Wants(calls[k])[i] \in provided'
    <3> DEFINE f == Current(calls[k])
    <3>1. f \in Features
      BY <1>4, <2>2, WaitingFacts
    <3>2. doomed \subseteq undone[f]
          /\ \A i \in 1..Count(calls[k]) - 1 : Wants(calls[k])[i] \in provided
      BY <2>2 DEF Turn, Waits
    <3> HIDE DEF f
    <3>3. \A g \in Features : Rests(g) \cap undone[f] # {} => g \in undone[f]
      BY <3>1 DEF InOrder
    <3>4. \A g \in Reached : g \in Features /\ needs[g] \cap doomed # {}
      BY DEF Reached, TypeOK
    <3>5. \A g \in Reached : Rests(g) \cap undone[f] # {}
      BY <3>2, <3>4 DEF Turn
    <3>6. Reached \subseteq undone[f]
      BY <3>3, <3>4, <3>5
    <3> QED
      BY <1>1, <3>2, <3>6 DEF f
  <2> QED
    BY <1>1, <1>2, <1>4, <2>1, <2>2, TurnTop
<1> QED
  BY <1>3, <1>4

LEMMA TurnDrop ==
    ASSUME NEW undone, InOrder(undone), TypeOK, Bases, Runs, Turn(undone),
           NEW g \in Features, Drop(g)
    PROVE  Turn(undone)'
<1>1. /\ g \in doomed /\ doomed' = doomed \ {g} /\ provided' = provided \ {g}
      /\ needs' = [needs EXCEPT ![g] = {}]
      /\ UNCHANGED <<calls, cancelled, thrown>>
  BY DEF Drop
<1>2. thrown' # "circular" /\ \A f \in Features : needs'[f] \subseteq Rests(f)
  BY <1>1 DEF Turn, NotCircular, TypeOK
<1>3. CASE Idle
  BY <1>1, <1>2, <1>3, TurnIdle DEF Idle
<1>4. CASE ~Idle
  <2>1. /\ Len(calls') = Len(calls) /\ ~Idle' /\ calls'[Len(calls)] = Top' /\ Top' = Top
        /\ Top.at \in {"before", "after"} /\ Follows(Top)
    BY <1>1, <1>4, TopFacts DEF Idle, Top, Runs, Turn
  <2>2. ASSUME NEW k \in 1..Len(calls), k < Len(calls)
        PROVE  /\ doomed' \subseteq undone[Current(calls[k])]
               /\ \A i \in 1..Count(calls[k]) - 1 : Wants(calls[k])[i] \in provided'
    <3> DEFINE w == Wants(calls[k])
               n == Count(calls[k])
    <3>1. calls[k].proc \in Processors /\ n \in 1..Len(w) /\ Len(w) \in Nat
      BY <1>4, <2>2, TopFacts, WantsFacts, WaitingFacts DEF Call
    <3>2. /\ doomed \subseteq undone[w[n]]
          /\ \A i \in 1..n - 1 : w[i] \in provided
      BY <2>2 DEF Turn, Waits, Current
    <3>3. \A i, j \in 1..Len(w) : i < j => w[i] \notin undone[w[j]]
      BY <3>1 DEF InOrder, Wants
    <3> HIDE DEF w, n
    <3>4. \A i \in 1..n - 1 : i \in 1..Len(w) /\ i < n
      BY <3>1
    <3>5. \A i \in 1..n - 1 : w[i] # g
      BY <1>1, <3>1, <3>2, <3>3, <3>4
    <3>6. doomed' \subseteq undone[w[n]] /\ \A i \in 1..n - 1 : w[i] \in provided'
      BY <1>1, <3>2, <3>5
    <3> QED
      BY <3>6 DEF w, n, Current
  <2> QED
    BY <1>1, <1>2, <1>4, <2>1, <2>2, TurnTop
<1> QED
  BY <1>3, <1>4

\* A run is done with the next feature that it requires.
LEMMA WantsNext ==
    ASSUME NEW c \in Call, NEW d \in Call, c.at = "require", Follows(c),
           c.todo # <<>>, d.proc = c.proc, d.at = c.at, d.todo = Tail(c.todo)
    PROVE  /\ Wants(d) = Wants(c) /\ Follows(d)
           /\ Count(c) \in Nat /\ Count(d) = Count(c) + 1
           /\ Count(d) \in 1..Len(Wants(d)) /\ Current(d) = Head(c.todo)
<1> DEFINE w == Wants(c)
           s == c.todo
           t == Tail(s)
<1>1. Wants(d) = w
  BY DEF Wants
<1>2. /\ s \in Seq(Features) /\ Len(w) \in Nat /\ Len(s) <= Len(w)
      /\ \A m \in 1..Len(s) : s[m] = w[Len(w) - Len(s) + m]
  BY WantsFacts DEF Follows, Count, Call
<1>3. s # <<>> /\ d.todo = t /\ d.at = "require" /\ Count(c) = Len(w) - Len(s)
      /\ Count(d) = Len(w) - Len(t)
  BY <1>1 DEF Count
<1> HIDE DEF w, s
<1>4. /\ Len(s) \in Nat \ {0} /\ Head(s) = s[1] /\ Len(t) = Len(s) - 1
      /\ \A i \in 1..Len(s) - 1 : t[i] = s[i + 1]
  BY <1>2, <1>3, EmptySeq, HeadTailProperties
<1> HIDE DEF t
<1> DEFINE a == Len(w)
           b == Len(s)
<1>5. a \in Nat /\ b \in Nat \ {0} /\ b <= a /\ Len(t) = b - 1
      /\ \A m \in 1..b : s[m] = w[a - b + m]
      /\ \A i \in 1..b - 1 : t[i] = s[i + 1]
  BY <1>2, <1>4
<1>6. Count(c) = a - b /\ Count(d) = a - (b - 1)
  BY <1>3, <1>5
<1> HIDE DEF a, b
<1>7. a - b \in Nat /\ a - (b - 1) = (a - b) + 1 /\ a - (b - 1) \in 1..a /\ b - 1 <= a
  BY <1>5
<1>8. ASSUME NEW m \in 1..b - 1
      PROVE  t[m] = w[a - (b - 1) + m]
  <2>1. m + 1 \in 1..b /\ a - b + (m + 1) = a - (b - 1) + m
    BY <1>5
  <2> QED
    BY <1>5, <2>1
<1>9. s[1] = w[a - (b - 1)]
  <2>1. 1 \in 1..b /\ a - b + 1 = a - (b - 1)
    BY <1>5
  <2> QED
    BY <1>5, <2>1
<1>10. Follows(d)
  <2>1. Len(Wants(d)) = a /\ Len(d.todo) = b - 1
    BY <1>1, <1>3, <1>5 DEF a
  <2>2. \A m \in 1..b - 1 : d.todo[m] = Wants(d)[Count(d) + m]
    BY <1>1, <1>3, <1>6, <1>8
  <2> QED
    BY <1>3, <1>7, <2>1, <2>2 DEF Follows
<1> QED
  BY <1>1, <1>4, <1>6, <1>7, <1>9, <1>10 DEF a, w, s, Current

\* A run goes on with its requirements, and has its processor run the one that
\* is missing.
LEMMA TurnNest ==
    ASSUME NEW undone, InOrder(undone), TypeOK, Runs, Turn(undone),
           ~Idle, Top.at = "require", Top.todo # <<>>, doomed = {}, ~cancelled,
           NEW f \in Features, f = Head(Top.todo), Default[f] # NoProcessor,
           calls' = Append([calls EXCEPT ![Len(calls)].todo = Tail(@)], Begin(Default[f])),
           UNCHANGED <<workspace, cancelled, thrown>>
    PROVE  Turn(undone)'
<1> DEFINE c == Begin(Default[f])
           d == [Top EXCEPT !.todo = Tail(@)]
           n == Len(calls)
<1>1. /\ n \in Nat \ {0} /\ n \in 1..n /\ Top = calls[n] /\ Top \in Call
      /\ \A k \in 1..n : calls[k] \in Call
  BY TopFacts
<1>2. /\ c \in Call /\ c.at = "before" /\ c.proc = Default[f]
  BY DefaultFacts, BeginFacts
<1>3. Follows(c)
  <2>1. ToSet(c.todo) \subseteq Taken(c)
    BY <1>2, DefaultFacts, InvalidatedFacts DEF Begin, Taken
  <2> HIDE DEF c
  <2> QED
    BY <1>2, <2>1 DEF Follows
<1>4. /\ d \in Call /\ d.proc = Top.proc /\ d.at = Top.at /\ d.todo = Tail(Top.todo)
  <2>1. Top.todo \in Seq(Features) /\ Tail(Top.todo) \in Seq(Features)
    BY <1>1, TodoFacts DEF Call
  <2> QED
    BY <1>1, <2>1 DEF Call
<1>5. /\ Len(calls') = n + 1 /\ ~Idle' /\ Top' = c /\ calls'[n + 1] = c /\ calls'[n] = d
      /\ \A k \in 1..n : k # n => calls'[k] = calls[k]
  BY <1>2, NestFacts
<1> HIDE DEF c, d
<1>6. Follows(Top) /\ \A i \in 1..Count(Top) : Wants(Top)[i] \in provided
  BY <1>1 DEF Turn
<1>7. /\ Wants(d) = Wants(Top) /\ Follows(d)
      /\ Count(Top) \in Nat /\ Count(d) = Count(Top) + 1
      /\ Count(d) \in 1..Len(Wants(d)) /\ Current(d) = f
  BY <1>1, <1>4, <1>6, WantsNext
<1>8. doomed' = {} /\ provided' = provided /\ needs' = needs /\ thrown' = thrown
  BY DEF workspace
<1>9. \A k \in 1..n : k # n => k < n /\ k + 1 \in 1..n
  BY <1>1
<1>10. Uses(Top.proc, f)
  <2>1. Count(d) \in 1..Len(Wants(Top)) /\ f = Wants(Top)[Count(d)]
    BY <1>7 DEF Current
  <2> QED
    BY <1>1, <2>1, WantsFacts
<1>11. /\ \A k \in 1..n : k < n => Waits(undone, calls[k])
                                   /\ Default[Current(calls[k])] = calls[k + 1].proc
       /\ \A j, k \in 1..n : j < k /\ k < n =>
                undone[Current(calls[k])] \subseteq undone[Current(calls[j])]
       /\ \A k \in 1..n : Follows(calls[k])
       /\ \A g \in Features : needs[g] \subseteq Rests(g)
       /\ thrown # "circular"
  BY DEF Turn, NotCircular
<1>12. ASSUME NEW k \in 1..n, k < n
       PROVE  undone[f] \subseteq undone[Current(calls[k])]
  BY <1>10, <1>12, WaitingFacts
<1> HIDE DEF n
<1>13. ASSUME NEW k \in 1..n, k # n
       PROVE  Waits(undone, calls[k])' /\ Default[Current(calls'[k])] = calls'[k + 1].proc
  <2>1. k < n /\ k + 1 \in 1..n /\ calls'[k] = calls[k]
    BY <1>5, <1>9, <1>13
  <2>2. calls'[k + 1].proc = calls[k + 1].proc
    BY <1>1, <1>4, <1>5, <2>1
  <2>3. Waits(undone, calls[k]) /\ Default[Current(calls[k])] = calls[k + 1].proc
    BY <1>11, <2>1
  <2>4. Waits(undone, calls[k])'
    BY <1>8, <2>1, <2>3 DEF Waits
  <2> QED
    BY <2>1, <2>2, <2>3, <2>4
<1>14. ASSUME NEW k \in {n}
       PROVE  Waits(undone, calls[k])' /\ Default[Current(calls'[k])] = calls'[k + 1].proc
  <2>1. calls'[k] = d /\ calls'[k + 1] = c
    BY <1>5
  <2>2. Count(d) >= 1 /\ \A i \in 1..Count(d) - 1 : Wants(d)[i] \in provided
    BY <1>6, <1>7
  <2>3. Waits(undone, calls[k])'
    BY <1>8, <2>1, <2>2 DEF Waits
  <2> QED
    BY <1>2, <1>7, <2>1, <2>3
<1>15. ASSUME NEW k \in 1..n + 1
       PROVE  Follows(calls'[k])
  <2>1. (k \in 1..n /\ k # n) \/ k = n \/ k = n + 1
    BY <1>1
  <2> QED
    BY <1>3, <1>5, <1>7, <1>11, <2>1
<1>16. ASSUME NEW j \in 1..n + 1, NEW k \in 1..n + 1, j < k, k < n + 1
       PROVE  undone[Current(calls'[k])] \subseteq undone[Current(calls'[j])]
  <2>1. j \in 1..n /\ j < n /\ j # n /\ k \in 1..n /\ (k = n \/ (k # n /\ k < n))
    BY <1>1, <1>16
  <2>2. calls'[j] = calls[j]
    BY <1>5, <2>1
  <2>3. CASE k = n
    <3>1. Current(calls'[k]) = f
      BY <1>5, <1>7, <2>3
    <3> QED
      BY <1>12, <2>1, <2>2, <3>1
  <2>4. CASE k # n
    BY <1>5, <1>11, <1>16, <2>1, <2>2, <2>4
  <2> QED
    BY <2>3, <2>4
<1>17. \A k \in 1..n + 1 : k < n + 1 => (k \in 1..n /\ k # n) \/ k \in {n}
  BY <1>1
<1>18. \A k \in 1..n + 1 : k < n + 1 =>
            Waits(undone, calls[k])' /\ Default[Current(calls'[k])] = calls'[k + 1].proc
  BY <1>13, <1>14, <1>17
<1> QED
  <2> DEFINE m == n + 1
  <2>1. Len(calls') = m /\ Top'.at # "require" /\ NotCircular'
    BY <1>2, <1>5, <1>8, <1>11 DEF NotCircular
  <2>2. /\ \A k \in 1..m : Follows(calls'[k])
        /\ \A k \in 1..m : k < m =>
                Waits(undone, calls[k])' /\ Default[Current(calls'[k])] = calls'[k + 1].proc
        /\ \A j, k \in 1..m : j < k /\ k < m =>
                undone[Current(calls'[k])] \subseteq undone[Current(calls'[j])]
    BY <1>15, <1>16, <1>18
  <2> HIDE DEF m
  <2>3. \A g \in Features : needs'[g] \subseteq Rests(g)
    BY <1>8, <1>11
  <2> QED
    BY <2>1, <2>2, <2>3 DEF Turn

LEMMA TurnRequire ==
    ASSUME NEW undone, InOrder(undone), TypeOK, Runs, Turn(undone), RequireNext
    PROVE  Turn(undone)'
<1>1. /\ ~Idle /\ Top.at = "require" /\ Top.todo # <<>> /\ doomed = {} /\ ~cancelled
      /\ UNCHANGED <<workspace, cancelled>>
  BY DEF RequireNext, Ready
<1>2. PICK f \in Features : f = Head(Top.todo)
  BY <1>1, TodoFacts
<1>3. /\ doomed' = {} /\ provided' = provided /\ ~cancelled'
      /\ \A g \in Features : needs'[g] \subseteq Rests(g)
  BY <1>1 DEF workspace, Turn
<1>4. CASE f \in provided
  <2>1. Step /\ thrown' = thrown
    BY <1>1, <1>2, <1>4, TopFacts DEF RequireNext, Step, Becomes
  <2>2. /\ Len(calls') = Len(calls) /\ ~Idle' /\ calls'[Len(calls)] = Top' /\ Top' \in Call
        /\ Top'.proc = Top.proc /\ Top'.at = Top.at /\ Top'.todo = Tail(Top.todo)
        /\ \A k \in 1..Len(calls) : k # Len(calls) => calls'[k] = calls[k]
    BY <1>1, <2>1, SkipFacts
  <2>3. Top \in Call /\ Follows(Top) /\ \A i \in 1..Count(Top) : Wants(Top)[i] \in provided
    BY <1>1, TopFacts DEF Turn
  <2>4. PICK d \in Call : d = Top'
    BY <2>2
  <2>5. /\ Wants(d) = Wants(Top) /\ Follows(d)
        /\ Count(Top) \in Nat /\ Count(d) = Count(Top) + 1 /\ Current(d) = f
    BY <1>1, <1>2, <2>2, <2>3, <2>4, WantsNext
  <2>6. ASSUME NEW i \in 1..Count(d)
        PROVE  Wants(d)[i] \in provided
    <3>1. i \in 1..Count(Top) \/ i = Count(d)
      BY <2>5
    <3> QED
      BY <1>4, <2>3, <2>5, <3>1 DEF Current
  <2>7. \A k \in 1..Len(calls) : k < Len(calls) =>
                /\ doomed' \subseteq undone[Current(calls[k])]
                /\ \A i \in 1..Count(calls[k]) - 1 : Wants(calls[k])[i] \in provided'
    BY <1>3, TurnKept
  <2>8. thrown' # "circular"
    BY <2>1 DEF Turn, NotCircular
  <2>9. /\ Follows(Top')
        /\ \A i \in 1..Count(Top') : Wants(Top')[i] \in provided'
    BY <1>3, <2>4, <2>5, <2>6
  <2> QED
    BY <1>1, <1>3, <2>2, <2>7, <2>8, <2>9, TurnTop
<1>5. CASE f \notin provided /\ Default[f] = NoProcessor
  <2>1. Idle' /\ thrown' # "circular"
    BY <1>2, <1>5 DEF RequireNext, Throw, Idle
  <2> QED
    BY <1>3, <2>1, TurnIdle
<1>6. CASE f \notin provided /\ Default[f] # NoProcessor
  <2>1. /\ calls' = Append([calls EXCEPT ![Len(calls)].todo = Tail(@)], Begin(Default[f]))
        /\ thrown' = thrown
    BY <1>2, <1>6 DEF RequireNext
  <2> QED
    BY <1>1, <1>2, <1>6, <2>1, TurnNest
<1> QED
  BY <1>4, <1>5, <1>6

\* When a run that was not cancelled has gone through its requirements, they
\* are all provided.
LEMMA TurnCheck ==
    ASSUME NEW undone, TypeOK, Turn(undone), Check
    PROVE  Turn(undone)'
<1>1. /\ ~Idle /\ doomed = {} /\ Top.at = "require" /\ Top.todo = <<>> /\ ~cancelled
      /\ UNCHANGED <<workspace, cancelled>>
  BY DEF Check, Ready
<1>2. Top \in Call /\ Len(Top.todo) = 0
  BY <1>1, TopFacts, EmptySeq
<1>3. \A i \in 1..Count(Top) : Wants(Top)[i] \in provided
  BY <1>1 DEF Turn
<1>4. Count(Top) = Len(Wants(Top))
  BY <1>2, WantsFacts DEF Count
<1>5. \A f \in Features : Uses(Top.proc, f) => f \in provided
  BY <1>2, <1>3, <1>4, WantsFacts
<1>6. Enter("work", <<>>) /\ thrown' = thrown
  BY <1>5 DEF Check
<1>7. <<>> \in Seq(Features)
  OBVIOUS
<1> QED
  BY <1>1, <1>6, <1>7, TurnEnter

\* What a processor provides rests on what it declares and did not take away.
LEMMA TurnProvide ==
    ASSUME NEW undone, TypeOK, Runs, Turn(undone), ProvideNext
    PROVE  Turn(undone)'
<1>1. /\ ~Idle /\ Top.at = "provide" /\ Top.todo # <<>> /\ doomed = {} /\ doomed' = {}
      /\ Step /\ UNCHANGED <<cancelled, thrown>>
  BY DEF ProvideNext, Ready
<1>2. PICK f \in Features : f = Head(Top.todo)
  BY <1>1, TodoFacts
<1>3. /\ Len(calls') = Len(calls) /\ ~Idle' /\ calls'[Len(calls)] = Top' /\ Top' \in Call
      /\ Top'.proc = Top.proc /\ Top'.required = Top.required
      /\ Top'.at = Top.at /\ Top'.todo = Tail(Top.todo)
      /\ \A k \in 1..Len(calls) : k # Len(calls) => calls'[k] = calls[k]
  BY <1>1, SkipFacts
<1>4. /\ Top \in Call /\ Follows(Top) /\ Sound(Top) /\ Top.proc \in Processors
  BY <1>1, TopFacts DEF Turn, Runs, Call
<1>5. ToSet(Top.todo) = {f} \union ToSet(Tail(Top.todo))
  BY <1>1, <1>2, TodoFacts
<1>6. /\ Top.required \subseteq ToSet(Declared(Top.proc, {"require"}))
      /\ Top.required \cap Taken(Top) = {}
      /\ f \in ToSet(Declared(Top.proc, {"provide"}))
      /\ ToSet(Tail(Top.todo)) \subseteq ToSet(Declared(Top.proc, {"provide"}))
  BY <1>1, <1>4, <1>5 DEF Sound, Follows
<1>7. Top.required \subseteq Rests(f)
  <2> DEFINE p == Top.proc
             kept == ToSet(Declared(p, {"require"})) \ ToSet(Declared(p, {"invalidate"}))
  <2>1. Top.required \subseteq kept
    BY <1>6 DEF Taken
  <2>2. p \in Processors /\ f \in ToSet(Declared(p, {"provide"}))
    BY <1>4, <1>6
  <2>3. kept \subseteq Rests(f)
    <3> HIDE DEF p
    <3> QED
      BY <2>2 DEF Rests
  <2> QED
    BY <2>1, <2>3
<1>8. /\ provided \subseteq provided'
      /\ needs' = IF f \in provided THEN needs ELSE [needs EXCEPT ![f] = Top.required]
  BY <1>2 DEF ProvideNext
<1>9. \A g \in Features : needs'[g] \subseteq Rests(g)
  <2>1. needs \in [Features -> SUBSET Features] /\ \A g \in Features : needs[g] \subseteq Rests(g)
    BY DEF TypeOK, Turn
  <2> QED
    BY <1>7, <1>8, <2>1
<1>10. Follows(Top')
  <2>1. Taken(Top') = Taken(Top)
    BY <1>3 DEF Taken
  <2> QED
    BY <1>1, <1>3, <1>6, <2>1 DEF Follows
<1>11. \A k \in 1..Len(calls) : k < Len(calls) =>
                /\ doomed' \subseteq undone[Current(calls[k])]
                /\ \A i \in 1..Count(calls[k]) - 1 : Wants(calls[k])[i] \in provided'
  BY <1>1, <1>8, TurnKept
<1>12. thrown' # "circular" /\ Top'.at # "require"
  BY <1>1, <1>3 DEF Turn, NotCircular
<1> QED
  BY <1>1, <1>3, <1>9, <1>10, <1>11, <1>12, TurnTop

LEMMA TurnStep ==
    ASSUME NEW undone, InOrder(undone), TypeOK, Bases, Runs, Serves, Turn(undone),
           [Next]_vars
    PROVE  Turn(undone)'
<1>1. \A f \in Features : needs[f] \subseteq Rests(f)
  BY DEF Turn
<1>2. ~Idle => /\ Top \in Call /\ Top.proc \in Processors /\ Follows(Top) /\ Sound(Top)
  BY TopFacts DEF Call, Turn, Runs
<1>3. CASE UNCHANGED vars
  BY <1>3, TurnStill DEF vars
<1>4. ASSUME NEW p \in Started, Process(p)
      PROVE  Turn(undone)'
  BY <1>4, UsageAssumption, TurnFirst DEF Process, Ask, workspace
<1>5. ASSUME NEW f \in Asked, Require(f)
      PROVE  Turn(undone)'
  <2>1. Default[f] \in Processors
    BY <1>5, UsageAssumption, DefaultFacts DEF Require
  <2> QED
    BY <1>5, <2>1, TurnFirst DEF Require, Ask, workspace
<1>6. ASSUME NEW f \in Withdrawn, Withdraw(f)
      PROVE  Turn(undone)'
  BY <1>1, <1>6, TurnIdle DEF Withdraw, Ask, Idle
<1>7. CASE Cancel
  BY <1>7, TurnStill DEF Cancel
<1>8. CASE Close
  BY <1>8, TurnStill DEF Close
<1>9. ASSUME NEW f \in Features, CloseOne(f)
      PROVE  Turn(undone)'
  <2>1. Idle /\ needs' = needs /\ calls' = calls /\ thrown' = thrown
    BY <1>9 DEF CloseOne, Serves
  <2> QED
    BY <1>1, <2>1, TurnIdle DEF Idle, Turn, NotCircular
<1>10. CASE StartRequiring
  <2> DEFINE list == Declared(Top.proc, {"require", "use"})
  <2>1. /\ ~Idle /\ doomed = {} /\ UNCHANGED <<workspace, cancelled, thrown>>
        /\ Enter("require", list)
    BY <1>10 DEF StartRequiring, Ready
  <2>2. list \in Seq(Features) /\ list = Wants(Top)
    BY <1>2, <2>1, DeclaredFacts DEF Wants
  <2> HIDE DEF list
  <2> QED
    BY <2>1, <2>2, TurnEnter
<1>11. CASE GiveUp
  BY <1>11, TurnReturn DEF GiveUp, Ready
<1>12. CASE Work
  <2> DEFINE list == Invalidated(Top.proc, TRUE)
  <2>1. /\ ~Idle /\ doomed = {} /\ UNCHANGED <<workspace, cancelled, thrown>>
        /\ Enter("after", list)
    BY <1>12 DEF Work, Ready
  <2>2. /\ list \in Seq(Features)
        /\ ToSet(list) = {f \in Taken(Top) : Uses(Top.proc, f) = TRUE}
    BY <1>2, <2>1, InvalidatedFacts DEF Taken
  <2>3. \A f \in Top.required : Uses(Top.proc, f) = TRUE
    BY <1>2, <2>1, RequiredUsed DEF Sound, Uses
  <2> HIDE DEF list
  <2>4. Top.required \cap Taken(Top) \subseteq ToSet(list) /\ ToSet(list) \subseteq Taken(Top)
    BY <2>2, <2>3
  <2> QED
    BY <2>1, <2>2, <2>4, TurnEnter
<1>13. CASE Fail
  BY <1>1, <1>13, TurnIdle DEF Fail, Throw, Idle, workspace
<1>14. CASE CleanUp
  <2> DEFINE list == Declared(Top.proc, {"provide"})
  <2>1. /\ ~Idle /\ doomed = {} /\ UNCHANGED <<workspace, cancelled, thrown>>
        /\ Top.at = "after" /\ Top.todo = <<>> /\ Enter("provide", list)
    BY <1>14 DEF CleanUp, Ready
  <2>2. list \in Seq(Features)
    BY <1>2, <2>1, DeclaredFacts
  <2>3. ToSet(<<>>) = {}
    BY DEF ToSet
  <2>4. Top.required \cap Taken(Top) = {}
    BY <1>2, <2>1, <2>3 DEF Follows
  <2>5. ToSet(list) \subseteq ToSet(Declared(Top.proc, {"provide"}))
    OBVIOUS
  <2> HIDE DEF list
  <2> QED
    BY <2>1, <2>2, <2>4, <2>5, TurnEnter
<1>15. CASE Finish
  <2>1. /\ ~Idle /\ doomed = {} /\ Top.at = "provide" /\ Top.todo = <<>> /\ Return
        /\ UNCHANGED <<workspace, cancelled, thrown>>
    BY <1>15 DEF Finish, Ready
  <2>2. ToSet(<<>>) = {}
    BY DEF ToSet
  <2>3. ToSet(Declared(Top.proc, {"provide"})) \subseteq provided
    BY <1>2, <2>1, <2>2 DEF Sound
  <2> QED
    BY <2>1, <2>3, TurnReturn
<1>16. ASSUME NEW g \in Features, Drop(g)
       PROVE  Turn(undone)'
  BY <1>16, TurnDrop
<1>17. CASE Run
  BY <1>9, <1>10, <1>11, <1>12, <1>13, <1>14, <1>15, <1>16, <1>17, TurnInvalidate,
     TurnSpread, TurnRequire, TurnCheck, TurnProvide DEF Run
<1> QED
  BY <1>3, <1>4, <1>5, <1>6, <1>7, <1>8, <1>17 DEF Next

\* When the declarations of the processors are in an order that works, and no
\* matter which features are provided, taken away or cancelled, process() never
\* finds that a later requirement undid an earlier one.
THEOREM NeverCircular ==
    ASSUME NEW undone, InOrder(undone)
    PROVE  Spec => []NotCircular
<1>1. Init => Turn(undone)
  <2> SUFFICES ASSUME Init
               PROVE  Turn(undone)
    OBVIOUS
  <2>1. Len(calls) = 0 /\ Idle
    BY EmptySeq DEF Init, Idle
  <2>2. thrown # "circular" /\ \A f \in Features : needs[f] = {}
    BY DEF Init
  <2> QED
    BY <2>1, <2>2 DEF Turn, NotCircular
<1>2. IInv /\ Turn(undone) /\ [Next]_vars => Turn(undone)'
  BY TurnStep DEF IInv
<1>3. Turn(undone) => NotCircular
  BY DEF Turn
<1> QED
  BY <1>1, <1>2, <1>3, Invariance, PTL DEF Spec

-----------------------------------------------------------------------------
(* The control-flow graph that processors share, for any processors that   *)
(* declare what SharesGraph says, any defaults and any history of requests. *)

\* What a run has still to do, and when the two processors that make the graph
\* run: only while what they make is missing.
Fits(P, c) ==
    /\ c.proc \in P
    /\ c.at = "before" => c.todo = <<>>
    /\ c.at = "require" => \A f \in ToSet(c.todo) : Uses(c.proc, f)
    /\ c.at = "work" => \A f \in Features : Uses(c.proc, f) => f \in provided
    /\ c.at = "after" => ToSet(c.todo) \subseteq Takes(c.proc)
    /\ c.at = "provide" => ToSet(c.todo) \subseteq Gives(c.proc)
    /\ c.proc \notin Builders => c.required = Requires(c.proc)
    /\ c.proc \in Builders =>
        /\ c.required \subseteq {"COLLECTED_CFG"}
        /\ c.at = "after" => c.required \subseteq ToSet(c.todo)
        /\ c.at = "provide" => c.required = {}
    /\ c.proc = "CFGBuilder" => c.at = "provide" \/ "CFG_INFO" \notin provided
    /\ c.proc = "CFGCollector" => c.at = "provide" \/ "COLLECTED_CFG" \notin provided

\* CFGBuilder runs no other processor, and CFGCollector only runs that one.
Stack(P) ==
    /\ \A k \in 1..Len(calls) : Fits(P, calls[k])
    /\ \A k \in 1..Len(calls) : k < Len(calls) =>
        /\ calls[k].proc # "CFGBuilder"
        /\ calls[k].proc = "CFGCollector" =>
                k + 1 = Len(calls) /\ Top.proc = "CFGBuilder"

-----------------------------------------------------------------------------

\* What the processors declare, as SharesGraph says it.
LEMMA SharedFacts ==
    ASSUME NEW P, SharesGraph(P), NEW p \in P
    PROVE  /\ p \in Processors /\ p \notin {"LoopReductor", "SubCFGBuilder"}
           /\ \A f \in Features : Uses(p, f) => Default[f] \in P \union {NoProcessor}
           /\ "CFG_INFO" \in Gives(p) => p = "CFGBuilder"
           /\ "COLLECTED_CFG" \in Gives(p) <=> p \in Builders \union {"CFGCollector"}
           /\ "VIRTUALIZED_CFG" \in Gives(p) <=> p = "Virtualizer"
           /\ p = "Dominance" => {"DOMINANCE"} \cap Features \subseteq Gives(p)
           /\ p = "ClpAnalysis" => {"CLP"} \cap Features \subseteq Gives(p)
           /\ Analyses \cap Gives(p) # {} => p \notin Builders
           /\ \A f \in Gives(p) : Default[f] \in Transformers => Default[f] = p
           /\ p \notin Builders => Takes(p) = {}
           /\ p \in Builders => Takes(p) = {"COLLECTED_CFG"} /\ Uses(p, "COLLECTED_CFG")
           /\ p = "CFGBuilder" => Gives(p) = {"CFG_INFO"} /\ \A f \in Features : ~Uses(p, f)
           /\ p = "CFGCollector" =>
                    /\ Gives(p) = {"COLLECTED_CFG"} /\ "CFG_INFO" \in Requires(p)
                    /\ \A f \in Features : Uses(p, f) => f = "CFG_INFO"
           /\ p \notin Builders \union {"CFGBuilder", "CFGCollector"} =>
                    Requires(p) \cap (OnGraph(P) \union {"COLLECTED_CFG"}) # {}
<1>1. p \in Processors /\ p \notin {"LoopReductor", "SubCFGBuilder"}
  BY DEF SharesGraph
<1>2. \A f \in Features : Uses(p, f) => Default[f] \in P \union {NoProcessor}
  BY DEF SharesGraph
<1>3. p = "CFGBuilder" \/ p = "CFGCollector" => p \notin Builders
  BY DEF Builders, Transformers
<1>4. /\ "CFG_INFO" \in Gives(p) <=> p = "CFGBuilder"
      /\ "COLLECTED_CFG" \in Gives(p) <=> p \in Builders \union {"CFGCollector"}
      /\ "VIRTUALIZED_CFG" \in Gives(p) <=> p = "Virtualizer"
      /\ Analyses \cap Gives(p) # {} => p \notin Builders
      /\ \A f \in Gives(p) : Default[f] \in Transformers => Default[f] = p
      /\ Takes(p) = IF p \in Builders THEN {"COLLECTED_CFG"} ELSE {}
      /\ CASE p = "CFGBuilder" ->
                  Gives(p) = {"CFG_INFO"} /\ \A f \in Features : ~Uses(p, f)
           [] p = "CFGCollector" ->
                  /\ Gives(p) = {"COLLECTED_CFG"}
                  /\ "CFG_INFO" \in Requires(p)
                  /\ \A f \in Features : Uses(p, f) => f = "CFG_INFO"
           [] p \in Builders -> Uses(p, "COLLECTED_CFG")
           [] OTHER -> Requires(p) \cap (OnGraph(P) \union {"COLLECTED_CFG"}) # {}
      /\ p = "Dominance" => {"DOMINANCE"} \cap Features \subseteq Gives(p)
      /\ p = "ClpAnalysis" => {"CLP"} \cap Features \subseteq Gives(p)
  BY DEF SharesGraph
<1>5. CASE p = "CFGBuilder"
  BY <1>1, <1>2, <1>3, <1>4, <1>5
<1>6. CASE p = "CFGCollector"
  BY <1>1, <1>2, <1>3, <1>4, <1>6
<1>7. CASE p \notin {"CFGBuilder", "CFGCollector"}
  <2>1. p \in Builders => Uses(p, "COLLECTED_CFG")
    BY <1>4, <1>7
  <2>2. p \notin Builders => Requires(p) \cap (OnGraph(P) \union {"COLLECTED_CFG"}) # {}
    BY <1>4, <1>7
  <2> QED
    BY <1>1, <1>2, <1>4, <1>7, <2>1, <2>2
<1> QED
  BY <1>5, <1>6, <1>7

\* What a processor requires, gives and takes away are features.
LEMMA FeatureSets ==
    ASSUME NEW p \in Processors
    PROVE  /\ Requires(p) \subseteq Features /\ Gives(p) \subseteq Features
           /\ Takes(p) \subseteq Features
           /\ \A f \in Requires(p) : Uses(p, f)
           /\ \A f \in ToSet(Declared(p, {"require", "use"})) : f \in Features /\ Uses(p, f)
<1>1. \A kinds : ToSet(Declared(p, kinds)) \subseteq Features
  BY DeclaredFacts DEF ToSet
<1>2. \A f \in Requires(p) : Uses(p, f)
  BY RequiredUsed DEF Requires
<1> QED
  BY <1>1, <1>2 DEF Requires, Gives, Takes, Uses

\* Who is the default processor of a feature gives it.
LEMMA DefaultGives ==
    ASSUME NEW f \in Features, Default[f] # NoProcessor
    PROVE  Default[f] \in Processors /\ f \in Gives(Default[f])
BY DefaultFacts, DeclarationAssumption DEF Gives

\* A processor of the chain starts with nothing to invalidate, and a builder
\* requires at most the graph it replaces.
LEMMA StartFits ==
    ASSUME NEW P, SharesGraph(P), NEW p \in P,
           p = "CFGBuilder" => "CFG_INFO" \notin provided,
           p = "CFGCollector" => "COLLECTED_CFG" \notin provided
    PROVE  /\ Fits(P, Begin(p))
           /\ p \in Builders =>
                /\ ToSet(Invalidated(p, TRUE)) = {"COLLECTED_CFG"}
                /\ Requires(p) \subseteq {"COLLECTED_CFG"}
<1>1. /\ p \in Processors
      /\ p \notin Builders => Takes(p) = {}
      /\ p \in Builders => Takes(p) = {"COLLECTED_CFG"} /\ Uses(p, "COLLECTED_CFG")
  BY SharedFacts
<1>2. \A used \in BOOLEAN : /\ Invalidated(p, used) \in Seq(Features)
                            /\ ToSet(Invalidated(p, used)) = {f \in Takes(p) : Uses(p, f) = used}
  BY <1>1, InvalidatedFacts DEF Takes
<1>3. ToSet(Invalidated(p, FALSE)) = {}
  <2>1. \A f \in Takes(p) : Uses(p, f)
    BY <1>1
  <2>2. \A f : Uses(p, f) \in BOOLEAN
    BY DEF Uses
  <2> QED
    BY <1>2, <2>1, <2>2
<1>4. Invalidated(p, FALSE) = <<>>
  <2> DEFINE s == Invalidated(p, FALSE)
  <2>1. s \in Seq(Features) /\ ToSet(s) = {}
    BY <1>2, <1>3
  <2> HIDE DEF s
  <2>2. Len(s) \in Nat /\ DOMAIN s = 1..Len(s)
    BY <2>1
  <2>3. 1 \notin 1..Len(s)
    BY <2>1, <2>2 DEF ToSet
  <2>4. Len(s) = 0
    BY <2>2, <2>3
  <2>5. s = <<>>
    BY <2>1, <2>4, EmptySeq
  <2> QED
    BY <2>5 DEF s
<1>5. p \in Builders => /\ ToSet(Invalidated(p, TRUE)) = {"COLLECTED_CFG"}
                        /\ Requires(p) \subseteq {"COLLECTED_CFG"}
  <2> SUFFICES ASSUME p \in Builders
               PROVE  /\ ToSet(Invalidated(p, TRUE)) = {"COLLECTED_CFG"}
                      /\ Requires(p) \subseteq {"COLLECTED_CFG"}
    OBVIOUS
  <2>1. Uses(p, "COLLECTED_CFG") = TRUE
    BY <1>1 DEF Uses
  <2>2. ToSet(Invalidated(p, TRUE)) = {"COLLECTED_CFG"}
    BY <1>1, <1>2, <2>1
  <2>3. Invalidated(p, TRUE) # <<>>
    <3>1. ToSet(<<>>) = {}
      BY DEF ToSet
    <3> QED
      BY <2>2, <3>1
  <2>4. Requires(p) \subseteq Takes(p)
    BY <1>1, <2>3, DeclarationAssumption DEF Requires, Takes
  <2> QED
    BY <1>1, <2>2, <2>4
<1>6. /\ Begin(p).proc = p /\ Begin(p).at = "before"
      /\ Begin(p).required = Requires(p) /\ Begin(p).todo = <<>>
  BY <1>1, <1>4, BeginFacts DEF Begin, Requires
<1>7. Fits(P, Begin(p))
  <2> DEFINE c == Begin(p)
  <2> HIDE DEF c
  <2>1. c.proc = p /\ c.at = "before" /\ c.required = Requires(p) /\ c.todo = <<>>
    BY <1>6 DEF c
  <2>2. Fits(P, c)
    BY <1>5, <2>1 DEF Fits
  <2> QED
    BY <2>2 DEF c
<1> QED
  BY <1>5, <1>7

\* Only the run on top changes, and the workspace does not grow.
LEMMA StackTop ==
    ASSUME NEW P, TypeOK, Runs, Stack(P), ~Idle, ~Idle', Len(calls') = Len(calls),
           calls'[Len(calls)] = Top', Top'.proc = Top.proc,
           \A k \in 1..Len(calls) : k # Len(calls) => calls'[k] = calls[k],
           provided' \subseteq provided, Fits(P, Top)'
    PROVE  Stack(P)'
<1>1. Len(calls) \in Nat \ {0}
  BY TopFacts
<1>2. ASSUME NEW k \in 1..Len(calls), k # Len(calls)
      PROVE  /\ Fits(P, calls[k])'
             /\ calls'[k].proc # "CFGBuilder"
             /\ calls'[k].proc = "CFGCollector" =>
                    k + 1 = Len(calls') /\ Top'.proc = "CFGBuilder"
  <2>1. /\ calls[k].at = "require" /\ Fits(P, calls[k]) /\ calls'[k] = calls[k]
        /\ calls[k].proc # "CFGBuilder"
        /\ calls[k].proc = "CFGCollector" =>
                k + 1 = Len(calls) /\ Top.proc = "CFGBuilder"
    BY <1>1, <1>2 DEF Runs, Stack
  <2> QED
    BY <2>1 DEF Fits
<1>3. Fits(P, calls[Len(calls)])'
  BY DEF Fits
<1>4. \A k \in 1..Len(calls) : Fits(P, calls[k])'
  BY <1>2, <1>3
<1> QED
  BY <1>1, <1>2, <1>4 DEF Stack

\* A run enters a phase and the workspace is as it was.
LEMMA StackEnter ==
    ASSUME NEW P, TypeOK, Runs, Stack(P), ~Idle, UNCHANGED workspace,
           NEW phase \in {"require", "work", "after", "provide"},
           NEW list \in Seq(Features), Enter(phase, list),
           phase = "require" => \A f \in ToSet(list) : Uses(Top.proc, f),
           phase = "work" => \A f \in Features : Uses(Top.proc, f) => f \in provided,
           phase = "after" => /\ ToSet(list) \subseteq Takes(Top.proc)
                              /\ Top.proc \in Builders => Top.required \subseteq ToSet(list),
           phase = "provide" =>
                /\ ToSet(list) \subseteq Gives(Top.proc)
                /\ Top.proc \in Builders => Top.required = {},
           Top.at # "provide"
    PROVE  Stack(P)'
<1>1. /\ Len(calls') = Len(calls) /\ ~Idle' /\ calls'[Len(calls)] = Top'
      /\ Top'.proc = Top.proc /\ Top'.required = Top.required
      /\ Top'.at = phase /\ Top'.todo = list
      /\ \A k \in 1..Len(calls) : k # Len(calls) => calls'[k] = calls[k]
  BY EnterFacts
<1>2. Fits(P, Top)
  BY TopFacts DEF Stack
<1>3. provided' = provided
  BY DEF workspace
<1>4. Fits(P, Top)'
  BY <1>1, <1>2, <1>3 DEF Fits
<1> QED
  BY <1>1, <1>3, <1>4, StackTop

\* A run returns, to one that was going through its requirements.
LEMMA StackReturn ==
    ASSUME NEW P, SharesGraph(P), TypeOK, Runs, Stack(P), ~Idle, UNCHANGED workspace, Return
    PROVE  Stack(P)'
<1>1. /\ calls' \in Seq(Call) /\ Len(calls') = Len(calls) - 1
      /\ \A k \in 1..Len(calls) - 1 : calls'[k] = calls[k]
  BY ReturnFacts
<1>2. Len(calls) \in Nat \ {0}
  BY TopFacts
<1>3. ASSUME NEW k \in 1..Len(calls) - 1
      PROVE  Fits(P, calls[k])' /\ calls'[k].proc # "CFGBuilder"
  <2>1. k \in 1..Len(calls) /\ k < Len(calls)
    BY <1>2
  <2>2. /\ calls[k].at = "require" /\ Fits(P, calls[k]) /\ calls'[k] = calls[k]
        /\ calls[k].proc # "CFGBuilder"
    BY <1>1, <2>1 DEF Runs, Stack
  <2> QED
    BY <2>2 DEF Fits, workspace
<1>4. ASSUME NEW k \in 1..Len(calls) - 1, k < Len(calls) - 1
      PROVE  calls'[k].proc # "CFGCollector"
  <2>1. /\ k \in 1..Len(calls) /\ k < Len(calls) /\ k + 1 # Len(calls)
        /\ calls'[k] = calls[k]
    BY <1>1, <1>2, <1>4
  <2> QED
    BY <2>1 DEF Stack
<1> QED
  BY <1>1, <1>3, <1>4 DEF Stack

\* A first run, of a processor that may run.
LEMMA StackFirst ==
    ASSUME NEW P, SharesGraph(P), NEW p \in P, calls' = <<Begin(p)>>, UNCHANGED workspace,
           p = "CFGBuilder" => "CFG_INFO" \notin provided,
           p = "CFGCollector" => "COLLECTED_CFG" \notin provided
    PROVE  Stack(P)'
<1>1. p \in Processors
  BY SharedFacts
<1>2. Len(calls') = 1 /\ calls'[1] = Begin(p)
  BY <1>1, FirstFacts
<1>3. Fits(P, Begin(p))
  BY StartFits
<1>4. Fits(P, calls[1])'
  BY <1>2, <1>3 DEF Fits, workspace
<1> QED
  BY <1>2, <1>4 DEF Stack

\* Which run a missing feature causes.
LEMMA NewRun ==
    ASSUME NEW P, SharesGraph(P), NEW f \in Features, f \notin provided,
           Default[f] \in P
    PROVE  /\ Default[f] = "CFGBuilder" => "CFG_INFO" \notin provided
           /\ Default[f] = "CFGCollector" => "COLLECTED_CFG" \notin provided
<1>1. Default[f] \in Processors
  BY SharedFacts
<1>2. f \in Gives(Default[f])
  BY <1>1, UsageAssumption, DefaultGives
<1> QED
  BY <1>2, SharedFacts

\* A run has a processor run for a feature that is missing.
LEMMA StackNest ==
    ASSUME NEW P, SharesGraph(P), TypeOK, Runs, Stack(P), ~Idle, Top.at = "require",
           Top.todo # <<>>, Head(Top.todo) \notin provided,
           Default[Head(Top.todo)] # NoProcessor, UNCHANGED workspace,
           calls' = Append([calls EXCEPT ![Len(calls)].todo = Tail(@)],
                           Begin(Default[Head(Top.todo)]))
    PROVE  Stack(P)'
<1>0. PICK f, n : f = Head(Top.todo) /\ n = Len(calls)
  OBVIOUS
<1> DEFINE d == Default[f]
           c == Begin(d)
<1>1. n \in Nat \ {0} /\ Fits(P, Top) /\ Top \in Call /\ Top = calls[n]
  BY <1>0, TopFacts DEF Stack
<1>2. /\ f \in Features
      /\ ToSet(Top.todo) = {f} \union ToSet(Tail(Top.todo))
  BY <1>0, TodoFacts
<1>3. Top.proc \in P /\ Uses(Top.proc, f)
  BY <1>1, <1>2 DEF Fits
<1>4. d \in P
  <2>1. d \in P \union {NoProcessor}
    BY <1>2, <1>3, SharedFacts
  <2> QED
    BY <1>0, <2>1
<1>5. /\ d = "CFGBuilder" => "CFG_INFO" \notin provided
      /\ d = "CFGCollector" => "COLLECTED_CFG" \notin provided
  BY <1>0, <1>2, <1>4, NewRun
<1>6. d \in Processors /\ c \in Call /\ c.proc = d
  BY <1>4, SharedFacts, BeginFacts
<1>7. Fits(P, c)
  BY <1>4, <1>5, StartFits
<1>8. calls' = Append([calls EXCEPT ![Len(calls)].todo = Tail(@)], c)
  BY <1>0
<1> HIDE DEF c
<1>9. /\ Len(calls') = n + 1 /\ ~Idle' /\ Top' = c
      /\ calls'[n + 1] = c
      /\ calls'[n] = [Top EXCEPT !.todo = Tail(@)]
      /\ \A k \in 1..n : k # n => calls'[k] = calls[k]
  BY <1>0, <1>6, <1>8, NestFacts
<1>10. Top.proc # "CFGBuilder"
  BY <1>2, <1>3, SharedFacts
<1>11. Top.proc = "CFGCollector" => d = "CFGBuilder"
  <2> SUFFICES ASSUME Top.proc = "CFGCollector"
               PROVE  d = "CFGBuilder"
    OBVIOUS
  <2>1. f = "CFG_INFO"
    BY <1>2, <1>3, SharedFacts
  <2>2. f \in Gives(d)
    BY <1>0, <1>2, DefaultGives
  <2> HIDE DEF d
  <2> QED
    BY <1>4, <2>1, <2>2, SharedFacts
<1>12. provided' = provided
  BY DEF workspace
<1>13. Fits(P, calls[n])'
  <2> DEFINE t == [Top EXCEPT !.todo = Tail(@)]
  <2>1. /\ t.proc = Top.proc /\ t.at = Top.at /\ t.required = Top.required
        /\ t.todo = Tail(Top.todo)
    BY <1>1 DEF Call
  <2> HIDE DEF t
  <2>2. Fits(P, t)
    BY <1>1, <1>2, <2>1 DEF Fits
  <2>3. calls'[n] = t
    BY <1>9 DEF t
  <2>4. Fits(P, calls[n])' = Fits(P, t)
    BY <1>12, <2>3 DEF Fits
  <2> QED
    BY <2>2, <2>4
<1>14. ASSUME NEW k \in 1..n - 1
       PROVE  /\ Fits(P, calls[k])' /\ calls'[k].proc # "CFGBuilder"
              /\ calls'[k].proc # "CFGCollector"
  <2>1. k \in 1..n /\ k < n /\ calls'[k] = calls[k]
    BY <1>1, <1>9
  <2>2. Fits(P, calls[k]) /\ calls[k].proc # "CFGBuilder" /\ calls[k].proc # "CFGCollector"
    BY <1>0, <1>10, <2>1 DEF Stack
  <2> QED
    BY <1>12, <2>1, <2>2 DEF Fits
<1>15. Fits(P, c)'
  BY <1>7, <1>12 DEF Fits
<1>16. calls'[n].proc = Top.proc
  BY <1>1, <1>9 DEF Call
<1>17. \A k \in 1..n + 1 : k \in 1..n - 1 \/ k = n \/ k = n + 1
  BY <1>1
<1>18. ASSUME NEW k \in {n + 1}
       PROVE  Fits(P, calls[k])'
  BY <1>9, <1>15 DEF Fits
<1>19. ASSUME NEW k \in {n}
       PROVE  Fits(P, calls[k])'
  BY <1>13
<1>20. \A k \in 1..n + 1 : Fits(P, calls[k])'
  BY <1>14, <1>17, <1>18, <1>19
<1>21. Len(calls') = n + 1 /\ Top'.proc = d
  BY <1>6, <1>9
<1>22. ASSUME NEW k \in 1..n + 1, k < n + 1
       PROVE  /\ calls'[k].proc # "CFGBuilder"
              /\ calls'[k].proc = "CFGCollector" =>
                     k + 1 = n + 1 /\ Top'.proc = "CFGBuilder"
  <2>1. CASE k = n
    BY <1>1, <1>10, <1>11, <1>16, <1>21, <2>1
  <2>2. CASE k \in 1..n - 1
    BY <1>14, <2>2
  <2>3. k \in 1..n - 1 \/ k = n
    BY <1>1, <1>22
  <2> QED
    BY <2>1, <2>2, <2>3
<1> HIDE DEF d
<1> QED
  BY <1>20, <1>21, <1>22 DEF Stack

LEMMA StackStep ==
    ASSUME NEW P, SharesGraph(P), IInv, Stack(P), [Next]_vars
    PROVE  Stack(P)'
<1>1. TypeOK /\ Runs /\ Serves
  BY DEF IInv
<1>2. ~Idle => /\ Top \in Call /\ Top.proc \in P /\ Fits(P, Top) /\ Top.proc \in Processors
               /\ Len(calls) \in 1..Len(calls) /\ Top = calls[Len(calls)]
  <2> SUFFICES ASSUME ~Idle
               PROVE  Fits(P, Top)
    BY <1>1, TopFacts, SharedFacts DEF Fits, Call
  <2> QED
    BY <1>1, TopFacts DEF Stack
<1>3. ASSUME UNCHANGED <<workspace, calls>>
      PROVE  Stack(P)'
  BY <1>3 DEF Stack, Fits, workspace, Top
<1>4. ASSUME Idle'
      PROVE  Stack(P)'
  <2>1. Len(calls') = 0
    BY <1>4, EmptySeq DEF Idle
  <2> QED
    BY <2>1 DEF Stack
<1>5. ASSUME NEW p \in Started, Process(p)
      PROVE  Stack(P)'
  <2>1. p \in P /\ p \notin {"CFGBuilder", "CFGCollector"}
    BY DEF SharesGraph
  <2> QED
    BY <1>5, <2>1, StackFirst DEF Process
<1>6. ASSUME NEW f \in Asked, Require(f)
      PROVE  Stack(P)'
  <2>1. f \in Features /\ Default[f] \in P \union {NoProcessor}
    BY UsageAssumption DEF SharesGraph
  <2>2. f \notin provided /\ Default[f] # NoProcessor
        /\ calls' = <<Begin(Default[f])>> /\ UNCHANGED workspace
    BY <1>6 DEF Require
  <2> QED
    BY <2>1, <2>2, NewRun, StackFirst
<1>7. ASSUME NEW f \in Features, Withdraw(f) \/ CloseOne(f)
      PROVE  Stack(P)'
  <2>1. Idle /\ UNCHANGED calls
    BY <1>1, <1>7 DEF Withdraw, Ask, CloseOne, Serves
  <2> QED
    BY <1>4, <2>1 DEF Idle
<1>8. CASE InvalidateNext
  <2> DEFINE f == Head(Top.todo)
  <2>1. /\ ~Idle /\ Top.at \in {"before", "after"} /\ Top.todo # <<>>
        /\ provided' = provided
        /\ Len(calls') = Len(calls) /\ ~Idle' /\ calls'[Len(calls)] = Top'
        /\ Top'.proc = Top.proc /\ Top'.required = Top.required \ {f}
        /\ Top'.at = Top.at /\ Top'.todo = Tail(Top.todo)
        /\ \A k \in 1..Len(calls) : k # Len(calls) => calls'[k] = calls[k]
    BY <1>1, <1>8, InvalidateFacts
  <2>2. ToSet(Top.todo) = {f} \union ToSet(Tail(Top.todo))
    BY <1>1, <2>1, TodoFacts
  <2>3. Top.at = "after" /\ Top.proc \in Builders
    <3>1. Top.at = "after" /\ f \in Takes(Top.proc)
      BY <1>2, <2>1, <2>2 DEF Fits
    <3> QED
      BY <1>2, <2>1, <3>1, SharedFacts
  <2>4. Top.proc \notin {"CFGBuilder", "CFGCollector"}
    BY <2>3 DEF Builders, Transformers
  <2> HIDE DEF f
  <2>5. Fits(P, Top)'
    BY <1>2, <2>1, <2>2, <2>3, <2>4 DEF Fits
  <2> QED
    BY <1>1, <2>1, <2>5, StackTop
<1>9. CASE Spread
  <2>1. UNCHANGED <<provided, calls>>
    BY <1>9 DEF Spread
  <2> QED
    BY <2>1 DEF Stack, Fits, Top
<1>10. ASSUME NEW g \in Features, Drop(g)
       PROVE  Stack(P)'
  <2>1. doomed # {} /\ UNCHANGED calls /\ provided' \subseteq provided
    BY <1>10 DEF Drop
  <2>2. CASE Idle
    BY <1>4, <2>1, <2>2 DEF Idle
  <2>3. CASE ~Idle
    <3>1. ~Idle' /\ Top' = Top /\ Top.at \in {"before", "after"}
      BY <1>1, <2>1, <2>3 DEF Idle, Top, Runs
    <3>2. Fits(P, Top)'
      BY <1>2, <2>1, <2>3, <3>1 DEF Fits
    <3> QED
      BY <1>1, <1>2, <2>1, <2>3, <3>1, <3>2, StackTop
  <2> QED
    BY <2>2, <2>3
<1>11. CASE StartRequiring
  <2>1. /\ ~Idle /\ Top.at = "before" /\ UNCHANGED workspace
        /\ Enter("require", Declared(Top.proc, {"require", "use"}))
    BY <1>11 DEF StartRequiring, Ready
  <2>2. Declared(Top.proc, {"require", "use"}) \in Seq(Features)
    BY <1>2, <2>1, DeclaredFacts
  <2>3. \A f \in ToSet(Declared(Top.proc, {"require", "use"})) : Uses(Top.proc, f)
    BY DEF Uses
  <2> QED
    BY <1>1, <2>1, <2>2, <2>3, StackEnter
<1>12. ASSUME NEW what, Throw(what)
       PROVE  Stack(P)'
  BY <1>4, <1>12 DEF Throw, Idle
<1>13. CASE RequireNext
  <2> DEFINE f == Head(Top.todo)
  <2>1. /\ ~Idle /\ Top.at = "require" /\ Top.todo # <<>> /\ UNCHANGED workspace
    BY <1>13 DEF RequireNext, Ready
  <2>2. CASE f \in provided
    <3>1. Step
      BY <1>13, <2>2, <2>1, <1>1, TopFacts DEF RequireNext, Step, Becomes
    <3>2. /\ Len(calls') = Len(calls) /\ ~Idle' /\ calls'[Len(calls)] = Top'
          /\ Top'.proc = Top.proc /\ Top'.required = Top.required
          /\ Top'.at = Top.at /\ Top'.todo = Tail(Top.todo)
          /\ \A k \in 1..Len(calls) : k # Len(calls) => calls'[k] = calls[k]
      BY <1>1, <2>1, <3>1, SkipFacts
    <3>3. ToSet(Top.todo) = {f} \union ToSet(Tail(Top.todo)) /\ provided' = provided
      BY <1>1, <2>1, TodoFacts DEF workspace
    <3> HIDE DEF f
    <3>4. Fits(P, Top)'
      BY <1>2, <2>1, <3>2, <3>3 DEF Fits
    <3> QED
      BY <1>1, <2>1, <3>2, <3>3, <3>4, StackTop
  <2>3. CASE f \notin provided /\ Default[f] = NoProcessor
    BY <1>12, <1>13, <2>3 DEF RequireNext
  <2>4. CASE f \notin provided /\ Default[f] # NoProcessor
    <3>1. calls' = Append([calls EXCEPT ![Len(calls)].todo = Tail(@)], Begin(Default[f]))
      BY <1>13, <2>4 DEF RequireNext
    <3> QED
      BY <1>1, <2>1, <2>4, <3>1, StackNest
  <2> QED
    BY <2>2, <2>3, <2>4
<1>14. CASE GiveUp
  BY <1>1, <1>14, StackReturn DEF GiveUp, Ready
<1>15. CASE Check
  <2>1. ~Idle /\ Top.at = "require" /\ UNCHANGED workspace /\ <<>> \in Seq(Features)
    BY <1>15 DEF Check, Ready
  <2>2. CASE \A f \in Features : Uses(Top.proc, f) => f \in provided
    <3>1. Enter("work", <<>>)
      BY <1>15, <2>2 DEF Check
    <3> QED
      BY <1>1, <2>1, <2>2, <3>1, StackEnter
  <2>3. CASE ~ \A f \in Features : Uses(Top.proc, f) => f \in provided
    BY <1>12, <1>15, <2>3 DEF Check
  <2> QED
    BY <2>2, <2>3
<1>16. CASE Work
  <2> DEFINE p == Top.proc
             list == Invalidated(p, TRUE)
  <2>1. /\ ~Idle /\ UNCHANGED workspace /\ Enter("after", list) /\ Top.at = "work"
    BY <1>16 DEF Work, Ready
  <2>2. p \in P /\ list \in Seq(Features) /\ ToSet(list) \subseteq Takes(p)
    BY <1>2, <2>1, InvalidatedFacts DEF Takes
  <2>3. p \in Builders => Top.required \subseteq ToSet(list)
    <3> SUFFICES ASSUME p \in Builders
                 PROVE  Top.required \subseteq ToSet(list)
      OBVIOUS
    <3>1. p # "CFGBuilder" /\ p # "CFGCollector"
      BY DEF Builders, Transformers
    <3>2. ToSet(list) = {"COLLECTED_CFG"}
      BY <2>2, <3>1, StartFits
    <3> QED
      BY <1>2, <2>1, <3>2 DEF Fits
  <2> HIDE DEF list, p
  <2> QED
    BY <1>1, <2>1, <2>2, <2>3, StackEnter DEF p
<1>17. CASE Fail
  BY <1>12, <1>17 DEF Fail
<1>18. CASE CleanUp
  <2>1. /\ ~Idle /\ UNCHANGED workspace /\ Top.at = "after"
        /\ Top.todo = <<>> /\ Enter("provide", Declared(Top.proc, {"provide"}))
    BY <1>18 DEF CleanUp, Ready
  <2>2. ToSet(<<>>) = {}
    BY DEF ToSet
  <2>3. Top.proc \in Builders => Top.required = {}
    BY <1>2, <2>1, <2>2 DEF Fits
  <2>4. Declared(Top.proc, {"provide"}) \in Seq(Features)
    BY <1>2, <2>1, DeclaredFacts
  <2> QED
    BY <1>1, <2>1, <2>3, <2>4, StackEnter DEF Gives
<1>19. CASE Finish
  BY <1>1, <1>19, StackReturn DEF Finish, Ready
<1>20. CASE ProvideNext
  <2> DEFINE f == Head(Top.todo)
  <2>1. /\ ~Idle /\ Top.at = "provide" /\ Top.todo # <<>> /\ Step
        /\ provided' = provided \union {f}
    BY <1>20 DEF ProvideNext, Ready
  <2>2. /\ Len(calls') = Len(calls) /\ ~Idle' /\ calls'[Len(calls)] = Top'
        /\ Top'.proc = Top.proc /\ Top'.required = Top.required
        /\ Top'.at = Top.at /\ Top'.todo = Tail(Top.todo)
        /\ \A k \in 1..Len(calls) : k # Len(calls) => calls'[k] = calls[k]
    BY <1>1, <2>1, SkipFacts
  <2>3. ToSet(Top.todo) = {f} \union ToSet(Tail(Top.todo))
    BY <1>1, <2>1, TodoFacts
  <2> HIDE DEF f
  <2>4. Fits(P, Top)'
    BY <1>2, <2>1, <2>2, <2>3 DEF Fits
  <2>5. f \in Gives(Top.proc)
    BY <1>2, <2>1, <2>3 DEF Fits
  <2>6. f = "COLLECTED_CFG" => Top.proc \in Builders \union {"CFGCollector"}
    BY <1>2, <2>1, <2>5, SharedFacts
  <2>7. f = "COLLECTED_CFG" => Top.proc # "CFGBuilder"
    BY <2>6 DEF Builders, Transformers
  <2>8. ASSUME NEW k \in 1..Len(calls), k # Len(calls)
        PROVE  /\ Fits(P, calls[k])' /\ calls'[k].proc # "CFGBuilder"
               /\ calls'[k].proc = "CFGCollector" =>
                      k + 1 = Len(calls') /\ Top'.proc = "CFGBuilder"
    <3>1. Len(calls) \in Nat /\ k < Len(calls)
      <4>1. Len(calls) \in Nat
        BY <1>1, <2>1, TopFacts
      <4> QED
        BY <2>8, <4>1
    <3>2. /\ calls[k].at = "require" /\ Fits(P, calls[k]) /\ calls'[k] = calls[k]
          /\ calls[k].proc # "CFGBuilder"
          /\ calls[k].proc = "CFGCollector" =>
                    k + 1 = Len(calls) /\ Top.proc = "CFGBuilder"
      BY <1>1, <2>2, <2>8, <3>1 DEF Runs, Stack
    <3> QED
      BY <2>1, <2>2, <2>7, <3>2 DEF Fits
  <2>9. ASSUME NEW k \in {Len(calls)}
        PROVE  Fits(P, calls[k])'
    BY <2>2, <2>4 DEF Fits
  <2>10. \A k \in 1..Len(calls') : Fits(P, calls[k])'
    BY <2>2, <2>8, <2>9
  <2> QED
    BY <2>2, <2>8, <2>10 DEF Stack
<1>21. CASE Run
  BY <1>7, <1>8, <1>9, <1>10, <1>11, <1>13, <1>14, <1>15, <1>16, <1>17, <1>18,
     <1>19, <1>20, <1>21 DEF Run
<1>22. \A f \in Withdrawn : f \in Features
  BY UsageAssumption
<1> QED
  BY <1>3, <1>5, <1>6, <1>7, <1>21, <1>22 DEF Next, Cancel, Close, vars, workspace

-----------------------------------------------------------------------------

\* What is in memory, whatever is done to it.
Memory == [involved : [id : Nat, cfg : Nat], entry : Nat, original : Nat, built : Nat,
           made : Seq(SUBSET Processors), cfgs : SUBSET Nat, count : Nat,
           collections : SUBSET [id : Nat, cfg : Nat],
           fault : {"none", "assertion", "freed", "twice"}]

LEMMA NewCFGFacts ==
    ASSUME NEW m \in Memory, NEW done \in SUBSET Processors
    PROVE  LET new == NewCFG(m, done)
               c == Len(m.made) + 1
           IN  /\ new \in Memory /\ Len(new.made) = c
               /\ new.made[c] = done /\ \A b \in 1..c - 1 : new.made[b] = m.made[b]
               /\ new.cfgs = m.cfgs \union {c} /\ new.built = c
               /\ new.involved = m.involved /\ new.entry = m.entry
               /\ new.original = m.original /\ new.count = m.count
               /\ new.collections = m.collections /\ new.fault = m.fault
<1> DEFINE made == m.made
           more == Append(made, done)
           c == Len(made) + 1
<1>1. made \in Seq(SUBSET Processors)
  BY DEF Memory
<1> HIDE DEF made
<1>2. /\ more \in Seq(SUBSET Processors) /\ Len(more) = c
      /\ more[c] = done /\ c \in Nat /\ \A b \in 1..c - 1 : more[b] = made[b]
  BY <1>1, AppendProperties
<1>3. NewCFG(m, done) = [m EXCEPT !.made = more, !.cfgs = @ \union {c}, !.built = c]
  BY DEF NewCFG, made
<1> HIDE DEF more, c
<1> DEFINE new == NewCFG(m, done)
<1>4. /\ new \in Memory /\ new.made = more
      /\ new.cfgs = m.cfgs \union {c} /\ new.built = c
      /\ new.involved = m.involved /\ new.entry = m.entry
      /\ new.original = m.original /\ new.count = m.count
      /\ new.collections = m.collections /\ new.fault = m.fault
  <2> DEFINE cfgs == m.cfgs \union {c}
  <2>1. cfgs \in SUBSET Nat
    BY <1>2 DEF Memory
  <2>2. new = [m EXCEPT !.made = more, !.cfgs = cfgs, !.built = c]
    BY <1>3
  <2> HIDE DEF cfgs, new
  <2>3. new \in Memory
    BY <1>2, <2>1, <2>2 DEF Memory
  <2>4. /\ new.made = more /\ new.cfgs = cfgs /\ new.built = c
        /\ new.involved = m.involved /\ new.entry = m.entry
        /\ new.original = m.original /\ new.count = m.count
        /\ new.collections = m.collections /\ new.fault = m.fault
    BY <2>2 DEF Memory
  <2> QED
    BY <2>3, <2>4 DEF cfgs
<1> HIDE DEF new
<1> QED
  BY <1>2, <1>4 DEF new, c, made

LEMMA NewCollectionFacts ==
    ASSUME NEW m \in Memory, NEW c \in Nat
    PROVE  LET new == NewCollection(m, c)
               coll == [id |-> m.count + 1, cfg |-> c]
           IN  /\ new \in Memory /\ new.count = m.count + 1
               /\ coll \in [id : Nat, cfg : Nat] /\ coll.cfg = c
               /\ coll # Null /\ coll.id = m.count + 1
               /\ new.involved = coll /\ new.collections = m.collections \union {coll}
               /\ new.entry = m.entry /\ new.made = m.made
               /\ new.original = m.original /\ new.built = m.built
               /\ new.cfgs = m.cfgs /\ new.fault = m.fault
<1> DEFINE coll == [id |-> m.count + 1, cfg |-> c]
<1>1. m.count \in Nat
  BY DEF Memory
<1>2. /\ coll \in [id : Nat, cfg : Nat] /\ coll.cfg = c /\ coll.id = m.count + 1
      /\ coll # Null
  BY <1>1 DEF Null
<1>3. NewCollection(m, c) = [m EXCEPT !.count = @ + 1, !.collections = @ \union {coll},
                                      !.involved = coll]
  BY DEF NewCollection
<1> HIDE DEF coll
<1> DEFINE new == NewCollection(m, c)
<1>4. /\ new \in Memory /\ new.count = m.count + 1
      /\ new.involved = coll /\ new.collections = m.collections \union {coll}
      /\ new.entry = m.entry /\ new.made = m.made
      /\ new.original = m.original /\ new.built = m.built
      /\ new.cfgs = m.cfgs /\ new.fault = m.fault
  <2> DEFINE more == m.collections \union {coll}
             count == m.count + 1
  <2>1. more \in SUBSET [id : Nat, cfg : Nat] /\ count \in Nat
    BY <1>1, <1>2 DEF Memory
  <2>2. new = [m EXCEPT !.count = count, !.collections = more, !.involved = coll]
    BY <1>3
  <2> HIDE DEF more, count, new
  <2>3. new \in Memory
    BY <1>2, <2>1, <2>2 DEF Memory
  <2>4. /\ new.count = count /\ new.involved = coll /\ new.collections = more
        /\ new.entry = m.entry /\ new.made = m.made
        /\ new.original = m.original /\ new.built = m.built
        /\ new.cfgs = m.cfgs /\ new.fault = m.fault
    BY <2>2 DEF Memory
  <2> QED
    BY <2>3, <2>4 DEF more, count
<1> HIDE DEF new
<1> QED
  BY <1>2, <1>4 DEF new, coll

\* The cleaners of a list are run one after the other.
LEMMA CleanedFacts ==
    ASSUME NEW K, NEW m, NEW list \in Seq(K)
    PROVE  \E S : /\ S[0] = m /\ Cleaned(m, list) = S[Len(list)]
                  /\ \A i \in 0..Len(list) - 1 : S[i + 1] = Clean(S[i], list[i + 1])
<1> DEFINE N == Len(list)
           F(n, S) == [i \in 0..n |-> IF i = 0 THEN m ELSE Clean(S[i - 1], list[i])]
           S0 == CHOOSE S : S = F(N, S)
<1>1. Cleaned(m, list) = S0[N]
  BY DEF Cleaned
<1>2. N \in Nat
  OBVIOUS
<1>3. \E S : S = F(N, S)
  <2> DEFINE T == {n \in Nat : \E S : S = F(n, S)}
  <2>1. 0 \in T
    <3> DEFINE S == [i \in 0..0 |-> m]
    <3>1. S = F(0, S)
      OBVIOUS
    <3> QED
      BY <3>1
  <2>2. ASSUME NEW n \in T
        PROVE  n + 1 \in T
    <3>1. PICK S : S = F(n, S)
      BY <2>2
    <3> DEFINE last == Clean(S[n], list[n + 1])
               U == [i \in 0..n + 1 |-> IF i \in 0..n THEN S[i] ELSE last]
    <3> HIDE DEF last
    <3>2. ASSUME NEW i \in 0..n + 1
          PROVE  U[i] = F(n + 1, U)[i]
      <4>1. CASE i = 0
        BY <3>1, <4>1
      <4>2. CASE i \in 1..n
        <5>1. i \in 0..n /\ i - 1 \in 0..n /\ i - 1 \in 0..n + 1 /\ i # 0
          BY <4>2
        <5>2. U[i] = S[i] /\ U[i - 1] = S[i - 1]
          BY <5>1
        <5>3. S[i] = Clean(S[i - 1], list[i])
          BY <3>1, <5>1
        <5> HIDE DEF U
        <5>4. F(n + 1, U)[i] = Clean(U[i - 1], list[i])
          BY <5>1
        <5> QED
          BY <5>2, <5>3, <5>4
      <4>3. CASE i = n + 1
        <5>1. i \notin 0..n /\ i - 1 = n /\ n \in 0..n /\ n \in 0..n + 1 /\ i # 0
          BY <4>3
        <5>2. U[n] = S[n]
          BY <5>1
        <5>3. U[i] = last
          BY <5>1
        <5> HIDE DEF U
        <5>4. F(n + 1, U)[i] = Clean(U[i - 1], list[i])
          BY <5>1
        <5> QED
          BY <4>3, <5>1, <5>2, <5>3, <5>4 DEF last
      <4> QED
        BY <4>1, <4>2, <4>3
    <3>3. U = F(n + 1, U)
      BY <3>2
    <3>4. \E V : V = F(n + 1, V)
      <4> HIDE DEF U, F
      <4> QED
        BY <3>3
    <3> HIDE DEF F
    <3> QED
      BY <3>4
  <2>3. T = Nat
    <3> HIDE DEF T
    <3>1. T \in SUBSET Nat
      BY DEF T
    <3> QED
      BY <2>1, <2>2, <3>1, AllNaturals
  <2> QED
    BY <1>2, <2>3
<1>4. S0 = F(N, S0)
  BY <1>3
<1> HIDE DEF S0
<1>5. S0[0] = m
  BY <1>2, <1>4
<1>6. ASSUME NEW i \in 0..N - 1
      PROVE  S0[i + 1] = Clean(S0[i], list[i + 1])
  <2>1. i + 1 \in 0..N /\ i + 1 # 0 /\ (i + 1) - 1 = i
    BY <1>2
  <2> QED
    BY <1>4, <2>1
<1> QED
  BY <1>1, <1>5, <1>6

\* What every cleaner of a list keeps, the list keeps.
LEMMA CleanedStays ==
    ASSUME NEW K, NEW S, NEW m \in S, NEW list \in Seq(K),
           \A x \in S, c \in K : Clean(x, c) \in S
    PROVE  Cleaned(m, list) \in S
<1>1. PICK U : /\ U[0] = m /\ Cleaned(m, list) = U[Len(list)]
               /\ \A i \in 0..Len(list) - 1 : U[i + 1] = Clean(U[i], list[i + 1])
  BY CleanedFacts
<1> DEFINE N == Len(list)
           T == {n \in Nat : n <= N => U[n] \in S}
<1>2. N \in Nat
  OBVIOUS
<1>3. 0 \in T
  BY <1>1
<1>4. ASSUME NEW n \in T
      PROVE  n + 1 \in T
  <2> SUFFICES ASSUME n + 1 <= N
               PROVE  U[n + 1] \in S
    OBVIOUS
  <2>1. n \in 0..N - 1 /\ n <= N /\ n + 1 \in 1..N
    BY <1>2
  <2>2. U[n] \in S /\ list[n + 1] \in K
    BY <2>1
  <2> QED
    BY <1>1, <2>1, <2>2
<1>5. T = Nat
  <2>1. T \in SUBSET Nat
    OBVIOUS
  <2> HIDE DEF T
  <2> QED
    BY <1>3, <1>4, <2>1, AllNaturals
<1>6. N \in T /\ N <= N
  <2> HIDE DEF T, N
  <2> QED
    BY <1>2, <1>5
<1> QED
  BY <1>1, <1>6

\* A list of one cleaner, and of none.
LEMMA CleanedOne ==
    ASSUME NEW m
    PROVE  Cleaned(m, <<>>) = m /\ \A c : Cleaned(m, <<c>>) = Clean(m, c)
<1>1. Cleaned(m, <<>>) = m
  <2> DEFINE list == <<>>
             K == {m}
  <2>1. list \in Seq(K)
    OBVIOUS
  <2>3. Len(list) = 0
    OBVIOUS
  <2> HIDE DEF list, K
  <2>2. PICK U : /\ U[0] = m /\ Cleaned(m, list) = U[Len(list)]
                 /\ \A i \in 0..Len(list) - 1 : U[i + 1] = Clean(U[i], list[i + 1])
    BY <2>1, CleanedFacts
  <2> QED
    BY <2>2, <2>3 DEF list
<1>2. ASSUME NEW c
      PROVE  Cleaned(m, <<c>>) = Clean(m, c)
  <2> DEFINE list == <<c>>
  <2>1. list \in Seq({c}) /\ Len(list) = 1 /\ list[1] = c
    OBVIOUS
  <2> HIDE DEF list
  <2>2. PICK U : /\ U[0] = m /\ Cleaned(m, list) = U[Len(list)]
                 /\ \A i \in 0..Len(list) - 1 : U[i + 1] = Clean(U[i], list[i + 1])
    BY <2>1, CleanedFacts
  <2>3. 0 \in 0..Len(list) - 1 /\ 0 + 1 = 1
    BY <2>1
  <2>4. U[1] = Clean(m, c)
    BY <2>1, <2>2, <2>3
  <2> QED
    BY <2>1, <2>2, <2>4 DEF list
<1> QED
  BY <1>1, <1>2

-----------------------------------------------------------------------------

\* What the features of the graph are recorded to rest on, and that only the
\* end of the workspace takes the first two away.
Rooted(P) ==
    /\ needs["CFG_INFO"] = {} /\ needs["VIRTUALIZED_CFG"] = {}
    /\ closing \/ {"CFG_INFO", "VIRTUALIZED_CFG"} \cap doomed = {}
    /\ \A f \in Analyses \cap provided :
        /\ needs[f] \cap (OnGraph(P) \union {"COLLECTED_CFG"}) # {}
        /\ f \in OnGraph(P) => "COLLECTED_CFG" \in needs[f]

\* What is allocated: all that was, but the first CFG once it was freed.
Owned ==
    /\ memory \in Memory
    /\ memory.involved \in Collections \union {Null}
    /\ {memory.entry, memory.original, memory.built} \subseteq CFGs \union {0}
    /\ memory.cfgs \subseteq CFGs /\ memory.collections \subseteq Collections
    /\ memory.fault = "none"
    /\ CFGs \ {memory.original} \subseteq memory.cfgs
    /\ \/ memory.original = 0 \/ memory.original \in memory.cfgs
       \/ closing /\ "CFG_INFO" \notin provided
    /\ "CFG_INFO" \in provided => memory.original # 0

\* Every transformation that the workspace says was done was done to a CFG.
Done(c) == \A f \in provided : Default[f] \in Transformers =>
               Default[f] \in History(memory, c)

\* A processor that makes the collection is past its work.
Busy ==
    /\ ~Idle /\ Top.at \in {"after", "provide"}
    /\ Top.proc \in Builders \union {"CFGCollector"}

\* The graph that is provided, and the one that the next collection is made of.
Graph ==
    /\ "COLLECTED_CFG" \in provided =>
        /\ memory.involved \in memory.collections
        /\ memory.involved.cfg = memory.original => "CFG_INFO" \in needs["COLLECTED_CFG"]
        /\ Done(memory.involved.cfg)
        /\ memory.entry = memory.involved.cfg \/ Busy \/ (closing /\ memory.entry = 0)
    /\ about \in [Features -> CFGs \union {0}]
    /\ \A f \in Analyses \cap provided : about[f] = memory.involved.cfg
    /\ ~closing /\ memory.entry = 0 => memory.involved = Null
    /\ ~closing /\ ~Busy /\ "COLLECTED_CFG" \notin provided => Done(memory.entry)

\* A new graph is made, and takes the place of the old one.
Made ==
    /\ memory.involved \in memory.collections
    /\ memory.entry = memory.involved.cfg
    /\ Done(memory.entry)

\* Where a processor that makes a part of the graph has got to.
Stage ==
    /\ ~Idle /\ Top.proc = "CFGBuilder" /\ Top.at \in {"after", "provide"} =>
            memory.original # 0
    /\ ~Idle /\ Top.proc \in Builders /\ Top.at = "after" =>
            /\ "COLLECTED_CFG" \in provided =>
                    "COLLECTED_CFG" \in ToSet(Top.todo) \union doomed
            /\ memory.built \in CFGs \ {memory.original} /\ memory.entry # 0
            /\ Done(memory.built) /\ Top.proc \in History(memory, memory.built)
    /\ ~Idle /\ Top.proc \in Builders /\ Top.at = "provide" =>
            /\ Made /\ memory.entry # memory.original
            /\ Top.proc \in History(memory, memory.entry)
    /\ ~Idle /\ Top.proc = "CFGCollector" /\ Top.at \in {"after", "provide"} => Made
    /\ ~Idle /\ Top.at = "provide" =>
            /\ Top.proc = "CFGBuilder" => cleaners["CFG_INFO"] = <<>>
            /\ Top.proc \in Builders \union {"CFGCollector"} =>
                    cleaners["COLLECTED_CFG"] = <<>>

\* The cleaners that can be on a feature.
Lists(f) ==
    CASE f = "CFG_INFO" -> {<<>>, Cleaner("free_cfg", memory.original)}
      [] f = "COLLECTED_CFG" -> {<<>>, Cleaner("free_collection", memory.involved),
                                 Cleaner("free_involved", 0)}
      [] f = "VIRTUALIZED_CFG" -> Seq({[do |-> "remove_entry", on |-> 0]})
      [] f = "DOMINANCE" -> Seq({[do |-> "visit_involved", on |-> 0]})
      [] f = "CLP" -> Seq({[do |-> "visit_cfg", on |-> memory.involved.cfg]})
      [] OTHER -> {<<>>}

Hooks ==
    /\ cleaners = [f \in Features |-> cleaners[f]]
    /\ \A f \in Features : cleaners[f] \in Lists(f) /\ (cleaners[f] # <<>> => f \in provided)

LInv(P) == IInv /\ Stack(P) /\ Rooted(P) /\ Owned /\ Graph /\ Stage /\ Hooks

-----------------------------------------------------------------------------

\* The run that provides a feature, and the feature.
LEMMA ProvideFacts ==
    ASSUME NEW P, SharesGraph(P), IInv, Stack(P), ProvideNext
    PROVE  /\ ~Idle /\ Top.at = "provide" /\ Top.todo # <<>> /\ doomed = {}
           /\ Head(Top.todo) \in Features /\ Head(Top.todo) \in Gives(Top.proc)
           /\ Top.proc \in P /\ Fits(P, Top) /\ ~closing
           /\ provided' = provided \union {Head(Top.todo)}
           /\ needs' = IF Head(Top.todo) \in provided THEN needs
                       ELSE [needs EXCEPT ![Head(Top.todo)] = Top.required]
           /\ UNCHANGED <<doomed, closing>>
           /\ ~Idle' /\ Top'.proc = Top.proc /\ Top'.at = Top.at
<1>1. TypeOK /\ Serves
  BY DEF IInv
<1>2. /\ ~Idle /\ Top.at = "provide" /\ Top.todo # <<>> /\ Step /\ doomed = {}
      /\ provided' = provided \union {Head(Top.todo)}
      /\ needs' = IF Head(Top.todo) \in provided THEN needs
                  ELSE [needs EXCEPT ![Head(Top.todo)] = Top.required]
      /\ UNCHANGED <<doomed, closing>>
  BY DEF ProvideNext, Ready, tool
<1>3. Fits(P, Top)
  BY <1>1, <1>2, TopFacts DEF Stack
<1>4. Head(Top.todo) \in Features /\ Head(Top.todo) \in ToSet(Top.todo)
  BY <1>1, <1>2, TodoFacts
<1>5. Head(Top.todo) \in Gives(Top.proc) /\ Top.proc \in P
  BY <1>2, <1>3, <1>4 DEF Fits
<1>6. ~closing
  BY <1>1, <1>2 DEF Serves
<1>7. ~Idle' /\ Top'.proc = Top.proc /\ Top'.at = Top.at
  BY <1>1, <1>2, SkipFacts
<1> QED
  BY <1>2, <1>3, <1>4, <1>5, <1>6, <1>7

LEMMA RootedStep ==
    ASSUME NEW P, SharesGraph(P), IInv, Stack(P), Rooted(P), [Next]_vars
    PROVE  Rooted(P)'
<1>1. TypeOK /\ Bases /\ Runs /\ Serves
  BY DEF IInv
<1>2. ASSUME UNCHANGED <<provided, needs, doomed>>, closing => closing'
      PROVE  Rooted(P)'
  BY <1>2 DEF Rooted
<1>3. ASSUME NEW f \in Features, f \notin {"CFG_INFO", "VIRTUALIZED_CFG"} \/ closing,
             doomed' \subseteq {f}, UNCHANGED <<provided, needs, closing>>
      PROVE  Rooted(P)'
  BY <1>3 DEF Rooted
<1>4. ASSUME NEW f \in Withdrawn, Withdraw(f)
      PROVE  Rooted(P)'
  <2>1. f \in Features /\ f \notin {"CFG_INFO", "VIRTUALIZED_CFG"}
    BY UsageAssumption DEF SharesGraph
  <2> QED
    BY <1>3, <1>4, <2>1 DEF Withdraw, Ask
<1>5. ASSUME NEW f \in Features, CloseOne(f)
      PROVE  Rooted(P)'
  BY <1>3, <1>5 DEF CloseOne, tool
<1>6. CASE InvalidateNext
  <2>1. /\ ~Idle /\ Top.at \in {"before", "after"} /\ Top.todo # <<>>
        /\ UNCHANGED <<provided, needs, closing>> /\ doomed' \subseteq {Head(Top.todo)}
    BY <1>1, <1>6, InvalidateFacts DEF tool
  <2>2. Fits(P, Top)
    BY <1>1, <2>1, TopFacts DEF Stack
  <2>3. Head(Top.todo) \in Features /\ Head(Top.todo) \in ToSet(Top.todo)
    BY <1>1, <2>1, TodoFacts
  <2>4. Top.proc \in P /\ Head(Top.todo) \in Takes(Top.proc)
    BY <2>1, <2>2, <2>3 DEF Fits
  <2>5. Head(Top.todo) = "COLLECTED_CFG"
    BY <2>4, SharedFacts
  <2> QED
    BY <1>3, <2>1, <2>3, <2>5
<1>7. CASE Spread
  <2>1. doomed' = doomed \union Reached /\ UNCHANGED <<provided, needs, closing>>
    BY <1>7 DEF Spread, tool
  <2>2. {"CFG_INFO", "VIRTUALIZED_CFG"} \cap Reached = {}
    BY DEF Rooted, Reached
  <2> QED
    BY <2>1, <2>2 DEF Rooted
<1>8. ASSUME NEW g \in Features, Drop(g)
      PROVE  Rooted(P)'
  <2>1. /\ provided' = provided \ {g} /\ needs' = [needs EXCEPT ![g] = {}]
        /\ doomed' = doomed \ {g} /\ closing' = closing
    BY <1>8 DEF Drop, tool
  <2>2. needs \in [Features -> SUBSET Features]
    BY <1>1 DEF TypeOK
  <2>3. \A f : f # g => needs'[f] = needs[f]
    BY <2>1, <2>2
  <2>4. needs'[g] = {}
    BY <2>1, <2>2
  <2> QED
    BY <2>1, <2>3, <2>4 DEF Rooted
<1>9. CASE ProvideNext
  <2> DEFINE f == Head(Top.todo)
             p == Top.proc
  <2>1. /\ f \in Features /\ f \in Gives(p) /\ p \in P /\ Fits(P, Top)
        /\ Top.at = "provide"
        /\ provided' = provided \union {f}
        /\ needs' = IF f \in provided THEN needs ELSE [needs EXCEPT ![f] = Top.required]
        /\ UNCHANGED <<doomed, closing>>
    BY <1>9, ProvideFacts
  <2>2. needs \in [Features -> SUBSET Features]
    BY <1>1 DEF TypeOK
  <2> HIDE DEF f, p
  <2>3. /\ \A g : g # f => needs'[g] = needs[g]
        /\ needs'[f] = IF f \in provided THEN needs[f] ELSE Top.required
    BY <2>1, <2>2
  <2>4. f \in {"CFG_INFO", "VIRTUALIZED_CFG"} => Top.required = {}
    <3>1. CASE f = "CFG_INFO"
      <4>1. p = "CFGBuilder"
        BY <2>1, <3>1, SharedFacts
      <4>2. p \in Processors /\ \A h \in Features : ~Uses(p, h)
        BY <2>1, <4>1, SharedFacts
      <4>3. Requires(p) = {}
        BY <4>2, FeatureSets
      <4> QED
        BY <2>1, <4>1, <4>3 DEF Fits, Builders, Transformers, p
    <3>2. CASE f = "VIRTUALIZED_CFG"
      <4>1. p = "Virtualizer"
        BY <2>1, <3>2, SharedFacts
      <4> QED
        BY <2>1, <4>1 DEF Fits, Builders, Transformers, p
    <3> QED
      BY <3>1, <3>2
  <2>5. f \in Analyses =>
            /\ Top.required \cap (OnGraph(P) \union {"COLLECTED_CFG"}) # {}
            /\ f \in OnGraph(P) => "COLLECTED_CFG" \in Top.required
    <3> SUFFICES ASSUME f \in Analyses
                 PROVE  /\ Top.required \cap (OnGraph(P) \union {"COLLECTED_CFG"}) # {}
                        /\ f \in OnGraph(P) => "COLLECTED_CFG" \in Top.required
      OBVIOUS
    <3>1. p \notin Builders
      BY <2>1, SharedFacts
    <3>2. f \notin {"CFG_INFO", "COLLECTED_CFG"}
      BY DEF Analyses
    <3>3. p \notin {"CFGBuilder", "CFGCollector"}
      BY <2>1, <3>2, SharedFacts
    <3>4. Top.required = Requires(p)
      BY <2>1, <3>1 DEF Fits, p
    <3>5. Requires(p) \cap (OnGraph(P) \union {"COLLECTED_CFG"}) # {}
      BY <2>1, <3>1, <3>3, SharedFacts
    <3>6. f \in OnGraph(P) => "COLLECTED_CFG" \in Requires(p)
      BY <2>1 DEF OnGraph
    <3> QED
      BY <3>4, <3>5, <3>6
  <2> QED
    BY <2>1, <2>3, <2>4, <2>5 DEF Rooted
<1>10. CASE Run
  BY <1>2, <1>5, <1>6, <1>7, <1>8, <1>9, <1>10 DEF Run, StartRequiring, RequireNext,
     GiveUp, Check, Work, Fail, CleanUp, Finish, workspace, tool
<1> QED
  BY <1>2, <1>4, <1>10 DEF Next, Process, Require, Ask, Cancel, Close, vars, workspace, tool

\* Results rest on the collection, and the collection on what it was made of.
LEMMA NoResults ==
    ASSUME NEW P, Bases, TypeOK, Rooted(P)
    PROVE  /\ "COLLECTED_CFG" \notin provided => Analyses \cap provided = {}
           /\ (\A h \in provided : "COLLECTED_CFG" \notin needs[h]) =>
                    Analyses \cap provided = {}
<1>1. ASSUME NEW f \in Analyses \cap provided
      PROVE  \E h \in Analyses \cap provided : "COLLECTED_CFG" \in needs[h]
  <2>1. f \in Features /\ needs[f] \subseteq provided
    BY DEF TypeOK, Bases
  <2>2. needs[f] \cap (OnGraph(P) \union {"COLLECTED_CFG"}) # {}
    BY DEF Rooted
  <2>3. CASE "COLLECTED_CFG" \in needs[f]
    BY <2>3
  <2>4. ASSUME NEW h \in needs[f] \cap OnGraph(P)
        PROVE  h \in Analyses \cap provided /\ "COLLECTED_CFG" \in needs[h]
    <3>1. h \in Analyses \cap provided
      BY <2>1 DEF OnGraph
    <3> QED
      BY <3>1 DEF Rooted
  <2> QED
    BY <2>2, <2>3, <2>4
<1>2. ASSUME NEW h \in Analyses \cap provided, "COLLECTED_CFG" \in needs[h]
      PROVE  "COLLECTED_CFG" \in provided
  BY <1>2 DEF Bases, TypeOK
<1>3. "COLLECTED_CFG" \notin provided => Analyses \cap provided = {}
  BY <1>1, <1>2
<1>4. ASSUME \A h \in provided : "COLLECTED_CFG" \notin needs[h]
      PROVE  Analyses \cap provided = {}
  BY <1>1, <1>4
<1> QED
  BY <1>3, <1>4

-----------------------------------------------------------------------------

\* Until the workspace is deleted, all that was allocated is.
LEMMA AllThere ==
    ASSUME Owned, ~closing
    PROVE  CFGs \subseteq memory.cfgs /\ (memory.original = 0 \/ memory.original \in memory.cfgs)
<1>1. CFGs \subseteq Nat \ {0}
  BY DEF CFGs
<1> QED
  BY <1>1 DEF Owned

\* The collection that is provided is read without a fault.
LEMMA Reading ==
    ASSUME TypeOK, Bases, Owned, Graph, "COLLECTED_CFG" \in Features,
           "COLLECTED_CFG" \in provided
    PROVE  /\ memory.involved \in Collections /\ memory.involved \in memory.collections
           /\ memory.involved # Null
           /\ memory.involved.cfg \in CFGs /\ memory.involved.cfg \in memory.cfgs
           /\ memory.involved.cfg \in Nat \ {0}
           /\ ReadInvolved(memory) = memory
<1>1. CFGs \subseteq Nat \ {0}
  BY DEF CFGs
<1>2. memory.involved \in memory.collections /\ memory.involved \in Collections
  BY DEF Graph, Owned
<1>3. memory.involved.cfg \in CFGs
  BY <1>2 DEF Collections
<1>4. memory.involved # Null
  BY <1>1, <1>3 DEF Null
<1>5. memory.involved.cfg \in memory.cfgs
  <2>1. CASE memory.involved.cfg = memory.original
    <3>1. "CFG_INFO" \in provided
      BY <2>1 DEF Graph, Bases
    <3> QED
      BY <2>1, <3>1 DEF Owned
  <2>2. CASE memory.involved.cfg # memory.original
    BY <1>3, <2>2 DEF Owned
  <2> QED
    BY <2>1, <2>2
<1> QED
  BY <1>1, <1>2, <1>3, <1>4, <1>5 DEF ReadInvolved

\* A step that neither changes the graph nor what is provided.
LEMMA QuietStep ==
    ASSUME Owned, Graph, Hooks, UNCHANGED <<provided, needs, lifetime>>,
           closing => closing', Busy' <=> Busy
    PROVE  Owned' /\ Graph' /\ Hooks'
<1>1. UNCHANGED <<provided, needs, memory, cleaners, about>>
  BY DEF lifetime
<1>2. Owned'
  BY <1>1 DEF Owned, CFGs, Collections
<1>3. Hooks'
  BY <1>1 DEF Hooks, Lists
<1>4. \A c : Done(c)' <=> Done(c)
  BY <1>1 DEF Done, History
<1>5. Graph'
  BY <1>1, <1>4 DEF Graph, CFGs
<1> QED
  BY <1>2, <1>3, <1>5

\* A run that is not past its work.
LEMMA EarlyStage ==
    ASSUME Idle' \/ Top'.at \in {"before", "require", "work"}
    PROVE  Stage' /\ ~Busy'
BY DEF Stage, Busy

\* The run on top returns, to one that goes through its requirements.
LEMMA ReturnTop ==
    ASSUME TypeOK, Runs, ~Idle, Return
    PROVE  Idle' \/ Top'.at = "require"
<1>1. /\ calls' \in Seq(Call) /\ Len(calls') = Len(calls) - 1
      /\ \A k \in 1..Len(calls) - 1 : calls'[k] = calls[k]
      /\ Idle' <=> Len(calls) = 1
  BY ReturnFacts
<1>2. Len(calls) \in Nat \ {0}
  BY TopFacts
<1>3. ASSUME NEW n \in {Len(calls) - 1}, Len(calls) # 1
      PROVE  calls'[n].at = "require" /\ Top' = calls'[n]
  <2>1. n \in 1..Len(calls) - 1 /\ n \in 1..Len(calls) /\ n < Len(calls)
    BY <1>2, <1>3
  <2>2. calls[n].at = "require" /\ calls'[n] = calls[n]
    BY <1>1, <2>1 DEF Runs
  <2> QED
    BY <1>1, <2>1, <2>2 DEF Top
<1> QED
  BY <1>1, <1>3

\* The invalidation that a run does after its work leaves it where it is.
LEMMA QuietStage ==
    ASSUME TypeOK, Stage, ~Idle, ~Idle', UNCHANGED <<provided, lifetime>>,
           Top'.proc = Top.proc, Top'.at = Top.at,
           ToSet(Top.todo) \union doomed \subseteq (ToSet(Top.todo) \union doomed)'
                \union (Features \ provided)
    PROVE  Stage' /\ (Busy' <=> Busy)
<1>1. UNCHANGED <<provided, memory, cleaners, about>>
  BY DEF lifetime
<1>2. \A c : Done(c)' <=> Done(c)
  BY <1>1 DEF Done, History
<1>3. Made' <=> Made
  BY <1>1, <1>2 DEF Made
<1>4. Stage'
  BY <1>1, <1>2, <1>3 DEF Stage, CFGs, History
<1> QED
  BY <1>4 DEF Busy

\* The steps of process() and of a tool that leave the graph alone.
LEMMA QuietSteps ==
    ASSUME NEW P, SharesGraph(P), LInv(P), UNCHANGED lifetime,
           \/ \E p \in Started : Process(p)
           \/ \E f \in Asked : Require(f)
           \/ \E f \in Withdrawn : Withdraw(f)
           \/ Cancel \/ Close
           \/ InvalidateNext \/ StartRequiring \/ RequireNext \/ GiveUp \/ Check
           \/ Spread
           \/ \E f \in Features : CloseOne(f)
           \/ UNCHANGED vars
    PROVE  Owned' /\ Graph' /\ Stage' /\ Hooks'
<1>1. /\ TypeOK /\ Bases /\ Runs /\ Serves /\ Stack(P)
      /\ Owned /\ Graph /\ Stage /\ Hooks
  BY DEF LInv, IInv
<1>2. ASSUME UNCHANGED <<provided, needs>>, closing => closing', Stage', Busy' <=> Busy
      PROVE  Owned' /\ Graph' /\ Stage' /\ Hooks'
  BY <1>1, <1>2, QuietStep
<1>3. ASSUME UNCHANGED <<provided, needs>>, closing => closing',
             Idle \/ Top.at \in {"before", "require", "work"},
             Idle' \/ Top'.at \in {"before", "require", "work"}
      PROVE  Owned' /\ Graph' /\ Stage' /\ Hooks'
  BY <1>2, <1>3, EarlyStage DEF Busy
<1>4. ASSUME UNCHANGED <<provided, needs, calls>>, closing => closing', doomed \subseteq doomed'
      PROVE  Owned' /\ Graph' /\ Stage' /\ Hooks'
  <2>1. (Idle' <=> Idle) /\ Top' = Top
    BY <1>4 DEF Idle, Top
  <2>2. CASE Idle
    BY <1>3, <1>4, <2>1, <2>2
  <2>3. CASE ~Idle
    <3>1. Stage' /\ (Busy' <=> Busy)
      BY <1>1, <1>4, <2>1, <2>3, QuietStage
    <3> QED
      BY <1>2, <1>4, <3>1
  <2> QED
    BY <2>2, <2>3
<1>5. ASSUME NEW p \in Started, Process(p)
      PROVE  Owned' /\ Graph' /\ Stage' /\ Hooks'
  <2>1. /\ Idle /\ UNCHANGED <<provided, needs, closing>> /\ calls' = <<Begin(p)>>
    BY <1>5 DEF Process, Ask, workspace
  <2>2. p \in Processors /\ ~Idle' /\ Top' = Begin(p) /\ Begin(p).at = "before"
    BY <2>1, UsageAssumption, FirstFacts, BeginFacts
  <2> QED
    BY <1>3, <2>1, <2>2
<1>6. ASSUME NEW f \in Asked, Require(f)
      PROVE  Owned' /\ Graph' /\ Stage' /\ Hooks'
  <2>1. /\ Idle /\ UNCHANGED <<provided, needs, closing>> /\ calls' = <<Begin(Default[f])>>
        /\ Default[f] \in Processors
    BY <1>6, UsageAssumption, DefaultFacts DEF Require, Ask, workspace
  <2>2. ~Idle' /\ Top' = Begin(Default[f]) /\ Begin(Default[f]).at = "before"
    BY <2>1, FirstFacts, BeginFacts
  <2> QED
    BY <1>3, <2>1, <2>2
<1>7. ASSUME NEW f, Withdraw(f) \/ CloseOne(f)
      PROVE  Owned' /\ Graph' /\ Stage' /\ Hooks'
  BY <1>4, <1>7 DEF Withdraw, Ask, CloseOne, tool
<1>8. CASE Cancel \/ Close \/ UNCHANGED vars
  BY <1>4, <1>8 DEF Cancel, Close, vars, workspace, tool
<1>9. CASE Spread
  BY <1>4, <1>9 DEF Spread, tool
<1>10. CASE InvalidateNext
  <2>1. /\ ~Idle /\ Top.at \in {"before", "after"} /\ Top.todo # <<>> /\ doomed = {}
        /\ UNCHANGED <<provided, needs, closing>> /\ ~Idle'
        /\ doomed' = IF Head(Top.todo) \in provided THEN {Head(Top.todo)} ELSE {}
        /\ Top'.proc = Top.proc /\ Top'.at = Top.at /\ Top'.todo = Tail(Top.todo)
    BY <1>1, <1>10, InvalidateFacts DEF tool
  <2>2. ToSet(Top.todo) = {Head(Top.todo)} \union ToSet(Top'.todo) /\ Head(Top.todo) \in Features
    BY <1>1, <2>1, TodoFacts
  <2>3. Stage' /\ (Busy' <=> Busy)
    BY <1>1, <2>1, <2>2, QuietStage
  <2> QED
    BY <1>2, <2>1, <2>3
<1>11. CASE StartRequiring
  <2>1. /\ ~Idle /\ Top.at = "before" /\ UNCHANGED <<provided, needs, closing>>
        /\ Enter("require", Declared(Top.proc, {"require", "use"}))
    BY <1>11 DEF StartRequiring, Ready, workspace, tool
  <2>2. Declared(Top.proc, {"require", "use"}) \in Seq(Features)
    BY <1>1, <2>1, TopFacts, DeclaredFacts DEF Call
  <2>3. Top'.at = "require"
    BY <1>1, <2>1, <2>2, EnterFacts
  <2> QED
    BY <1>3, <2>1, <2>3
<1>12. CASE RequireNext
  <2> DEFINE f == Head(Top.todo)
  <2>1. /\ ~Idle /\ Top.at = "require" /\ Top.todo # <<>>
        /\ UNCHANGED <<provided, needs, closing>>
    BY <1>12 DEF RequireNext, Ready, workspace, tool
  <2>2. CASE f \in provided
    <3>1. Step
      BY <1>12, <2>2, <2>1, <1>1, TopFacts DEF RequireNext, Step, Becomes
    <3>2. Top'.at = "require"
      BY <1>1, <2>1, <3>1, SkipFacts
    <3> QED
      BY <1>3, <2>1, <3>2
  <2>3. CASE f \notin provided /\ Default[f] = NoProcessor
    <3>1. Idle'
      BY <1>12, <2>3 DEF RequireNext, Throw, Idle
    <3> QED
      BY <1>3, <2>1, <3>1
  <2>4. CASE f \notin provided /\ Default[f] # NoProcessor
    <3>1. calls' = Append([calls EXCEPT ![Len(calls)].todo = Tail(@)], Begin(Default[f]))
      BY <1>12, <2>4 DEF RequireNext
    <3>2. Begin(Default[f]) \in Call /\ Begin(Default[f]).at = "before"
      BY <1>1, <2>1, <2>4, TodoFacts, DefaultFacts, BeginFacts
    <3>3. Top' = Begin(Default[f])
      BY <1>1, <2>1, <3>1, <3>2, NestFacts
    <3> QED
      BY <1>3, <2>1, <3>2, <3>3
  <2> QED
    BY <2>2, <2>3, <2>4
<1>13. CASE GiveUp
  <2>1. /\ ~Idle /\ Top.at = "require" /\ Return /\ UNCHANGED <<provided, needs, closing>>
    BY <1>13 DEF GiveUp, Ready, workspace, tool
  <2> QED
    BY <1>1, <1>3, <2>1, ReturnTop
<1>14. CASE Check
  <2>1. /\ ~Idle /\ Top.at = "require" /\ UNCHANGED <<provided, needs, closing>>
        /\ Enter("work", <<>>) \/ Throw("circular")
    BY <1>14 DEF Check, Ready, workspace, tool
  <2>2. CASE Enter("work", <<>>)
    <3>1. <<>> \in Seq(Features)
      OBVIOUS
    <3>2. Top'.at = "work"
      BY <1>1, <2>1, <2>2, <3>1, EnterFacts
    <3> QED
      BY <1>3, <2>1, <3>2
  <2>3. CASE Throw("circular")
    <3>1. Idle'
      BY <2>3 DEF Throw, Idle
    <3> QED
      BY <1>3, <2>1, <3>1
  <2> QED
    BY <2>1, <2>2, <2>3
<1> QED
  BY <1>5, <1>6, <1>7, <1>8, <1>9, <1>10, <1>11, <1>12, <1>13, <1>14

-----------------------------------------------------------------------------

\* New CFGs are added at the end: what was done to the others is not lost.
LEMMA DoneKept ==
    ASSUME provided' = provided, \A b \in CFGs : memory'.made[b] = memory.made[b]
    PROVE  \A c \in CFGs \union {0} :
                (Done(c)' <=> Done(c)) /\ History(memory', c) = History(memory, c)
BY DEF Done, History

\* The run on top works.
LEMMA WorkFacts ==
    ASSUME NEW P, SharesGraph(P), LInv(P), Work
    PROVE  /\ ~Idle /\ Top.at = "work" /\ doomed = {} /\ ~closing /\ ~Busy
           /\ Top.proc \in P /\ Fits(P, Top)
           /\ \A f \in Features : Uses(Top.proc, f) => f \in provided
           /\ UNCHANGED <<provided, needs, doomed, closing>>
           /\ ~Idle' /\ Top'.proc = Top.proc /\ Top'.at = "after"
           /\ Top'.todo = Invalidated(Top.proc, TRUE)
<1>1. TypeOK /\ Serves /\ Stack(P)
  BY DEF LInv, IInv
<1>2. /\ ~Idle /\ Top.at = "work" /\ doomed = {}
      /\ UNCHANGED <<provided, needs, doomed, closing>>
      /\ Enter("after", Invalidated(Top.proc, TRUE))
  BY DEF Work, Ready, workspace, tool
<1>3. Fits(P, Top) /\ Top \in Call /\ ~closing
  BY <1>1, <1>2, TopFacts DEF Stack, Serves
<1>4. Top.proc \in P /\ \A f \in Features : Uses(Top.proc, f) => f \in provided
  BY <1>2, <1>3 DEF Fits
<1>5. Invalidated(Top.proc, TRUE) \in Seq(Features)
  BY <1>3, InvalidatedFacts DEF Call
<1>6. ~Idle' /\ Top'.proc = Top.proc /\ Top'.at = "after"
      /\ Top'.todo = Invalidated(Top.proc, TRUE)
  BY <1>1, <1>2, <1>5, EnterFacts
<1> QED
  BY <1>2, <1>3, <1>4, <1>6 DEF Busy

LEMMA WorkCFGBuilder ==
    ASSUME NEW P, SharesGraph(P), LInv(P), Working, Top.proc = "CFGBuilder"
    PROVE  Owned' /\ Graph' /\ Stage' /\ Hooks'
<1>1. /\ TypeOK /\ Bases /\ Owned /\ Graph /\ Hooks /\ Rooted(P)
      /\ "CFG_INFO" \in Features /\ "COLLECTED_CFG" \in Features
  BY DEF LInv, IInv, SharesGraph
<1>2. /\ ~Idle /\ Top.at = "work" /\ ~closing /\ ~Busy /\ Fits(P, Top)
      /\ UNCHANGED <<provided, needs, doomed, closing>>
      /\ ~Idle' /\ Top'.proc = "CFGBuilder" /\ Top'.at = "after"
  BY WorkFacts DEF Working
<1>3. "CFG_INFO" \notin provided
  BY <1>2 DEF Fits
<1> DEFINE new == NewCFG(memory, {})
<1>4. PICK c : c = Len(memory.made) + 1
  OBVIOUS
<1>5. memory \in Memory /\ memory.made \in Seq(SUBSET Processors)
  BY <1>1 DEF Owned, Memory
<1>6. c \in Nat \ {0} /\ c \notin CFGs /\ CFGs \subseteq Nat \ {0} /\ 1..c - 1 = CFGs
      /\ 1..c = CFGs \union {c}
  BY <1>4, <1>5 DEF CFGs
<1>7. /\ new \in Memory /\ Len(new.made) = c
      /\ \A b \in CFGs : new.made[b] = memory.made[b]
      /\ new.cfgs = memory.cfgs \union {c} /\ new.built = c
      /\ new.involved = memory.involved /\ new.entry = memory.entry
      /\ new.count = memory.count
      /\ new.collections = memory.collections /\ new.fault = memory.fault
  BY <1>4, <1>5, <1>6, NewCFGFacts
<1>8. memory' = [new EXCEPT !.original = c] /\ UNCHANGED <<cleaners, about>>
  BY <1>4 DEF Working, WorkOf
<1> HIDE DEF new
<1>9. /\ memory' \in Memory /\ Len(memory'.made) = c
      /\ \A b \in CFGs : memory'.made[b] = memory.made[b]
      /\ memory'.cfgs = memory.cfgs \union {c} /\ memory'.built = c
      /\ memory'.involved = memory.involved /\ memory'.entry = memory.entry
      /\ memory'.count = memory.count /\ memory'.original = c
      /\ memory'.collections = memory.collections /\ memory'.fault = memory.fault
  BY <1>6, <1>7, <1>8 DEF Memory
<1>10. CFGs' = CFGs \union {c} /\ Collections \subseteq Collections'
  BY <1>6, <1>9 DEF CFGs, Collections
<1>11. Owned'
  <2>1. CFGs \subseteq memory.cfgs
    BY <1>1, <1>2, AllThere
  <2> QED
    BY <1>1, <1>3, <1>2, <1>9, <1>10, <2>1 DEF Owned
<1>12. \A b \in CFGs \union {0} : Done(b)' <=> Done(b)
  BY <1>2, <1>9, DoneKept
<1>13. Graph'
  <2>1. "COLLECTED_CFG" \in provided => memory.involved.cfg \in CFGs
    BY <1>1, Reading
  <2>2. memory.entry \in CFGs \union {0}
    BY <1>1 DEF Owned
  <2>3. "COLLECTED_CFG" \in provided => Done(memory.involved.cfg)'
    BY <1>1, <1>9, <1>12, <2>1 DEF Graph, Done, History
  <2>4. "COLLECTED_CFG" \notin provided => Done(memory.entry)'
    BY <1>1, <1>2, <1>9, <1>12, <2>2 DEF Graph, Done, History
  <2>5. \A f \in Features : about[f] \in CFGs'\union {0}
    BY <1>1, <1>10 DEF Graph
  <2>6. about' \in [Features -> CFGs' \union {0}]
    BY <1>1, <1>8, <2>5 DEF Graph
  <2> QED
    BY <1>1, <1>2, <1>6, <1>8, <1>9, <2>1, <2>3, <2>4, <2>6 DEF Graph
<1>14. Stage'
  BY <1>2, <1>6, <1>9 DEF Stage, Builders, Transformers
<1>15. Hooks'
  <2>1. cleaners["CFG_INFO"] = <<>>
    BY <1>1, <1>3 DEF Hooks
  <2> QED
    BY <1>1, <1>2, <1>8, <1>9, <2>1 DEF Hooks, Lists
<1> QED
  BY <1>11, <1>13, <1>14, <1>15

LEMMA WorkCFGCollector ==
    ASSUME NEW P, SharesGraph(P), LInv(P), Working, Top.proc = "CFGCollector"
    PROVE  Owned' /\ Graph' /\ Stage' /\ Hooks'
<1>1. /\ TypeOK /\ Bases /\ Owned /\ Graph /\ Hooks /\ Rooted(P)
      /\ "CFG_INFO" \in Features /\ "COLLECTED_CFG" \in Features
  BY DEF LInv, IInv, SharesGraph
<1>2. /\ ~Idle /\ Top.at = "work" /\ ~closing /\ ~Busy /\ Fits(P, Top) /\ Top.proc \in P
      /\ \A f \in Features : Uses(Top.proc, f) => f \in provided
      /\ UNCHANGED <<provided, needs, doomed, closing>>
      /\ ~Idle' /\ Top'.proc = "CFGCollector" /\ Top'.at = "after"
  BY WorkFacts DEF Working
<1>3. "COLLECTED_CFG" \notin provided /\ Analyses \cap provided = {}
  BY <1>1, <1>2, NoResults DEF Fits
<1>4. "CFG_INFO" \in provided
  <2>1. "CFG_INFO" \in Requires(Top.proc) /\ Top.proc \in Processors
    BY <1>2, SharedFacts
  <2> QED
    BY <1>1, <1>2, <2>1, FeatureSets
<1>5. memory \in Memory /\ CFGs \subseteq memory.cfgs /\ CFGs \subseteq Nat \ {0}
  BY <1>1, <1>2, AllThere DEF Owned, CFGs
<1>6. PICK e : e = IF memory.entry # 0 THEN memory.entry ELSE memory.original
  OBVIOUS
<1>7. e \in CFGs
  <2>1. memory.original # 0 /\ {memory.original, memory.entry} \subseteq CFGs \union {0}
    BY <1>1, <1>4 DEF Owned
  <2> QED
    BY <1>6, <2>1
<1> DEFINE new == NewCollection(memory, e)
<1>8. PICK coll : coll = [id |-> memory.count + 1, cfg |-> e]
  OBVIOUS
<1>9. /\ new \in Memory /\ new.count = memory.count + 1
      /\ coll \in [id : Nat, cfg : Nat] /\ coll.cfg = e /\ coll.id = memory.count + 1
      /\ new.involved = coll /\ new.collections = memory.collections \union {coll}
      /\ new.made = memory.made
      /\ new.original = memory.original /\ new.built = memory.built
      /\ new.cfgs = memory.cfgs /\ new.fault = memory.fault
  BY <1>5, <1>7, <1>8, NewCollectionFacts
<1>10. memory' = [new EXCEPT !.entry = e] /\ UNCHANGED <<cleaners, about>>
  <2>1. e \in memory.cfgs
    BY <1>5, <1>7
  <2> QED
    BY <1>6, <2>1 DEF Working, WorkOf, Collect
<1> HIDE DEF new
<1>11. /\ memory' \in Memory /\ memory'.made = memory.made
       /\ memory'.cfgs = memory.cfgs /\ memory'.built = memory.built
       /\ memory'.involved = coll /\ memory'.entry = e
       /\ memory'.count = memory.count + 1 /\ memory'.original = memory.original
       /\ memory'.collections = memory.collections \union {coll}
       /\ memory'.fault = memory.fault
  BY <1>5, <1>7, <1>9, <1>10 DEF Memory
<1>12. CFGs' = CFGs /\ Collections \subseteq Collections' /\ coll \in Collections'
  <2>1. CFGs' = CFGs
    BY <1>11 DEF CFGs
  <2>2. memory.count \in Nat
    BY <1>5 DEF Memory
  <2>3. 1..memory.count \subseteq 1..memory'.count /\ memory.count + 1 \in 1..memory'.count
    BY <1>11, <2>2
  <2> HIDE DEF CFGs
  <2> QED
    BY <1>7, <1>8, <2>1, <2>3 DEF Collections
<1>13. Owned'
  BY <1>1, <1>2, <1>7, <1>11, <1>12 DEF Owned
<1>14. Done(e)'
  <2>1. Done(memory.entry)
    BY <1>1, <1>2, <1>3 DEF Graph
  <2>2. Done(e)
    BY <1>6, <2>1 DEF Done, History
  <2>3. \A b \in CFGs \union {0} : Done(b)' <=> Done(b)
    BY <1>2, <1>11, DoneKept
  <2> QED
    BY <1>7, <2>2, <2>3
<1>15. Busy'
  BY <1>2 DEF Busy
<1>16. Graph'
  BY <1>1, <1>2, <1>3, <1>5, <1>7, <1>10, <1>11, <1>12, <1>15 DEF Graph
<1>17. Made'
  <2>1. Done(memory.entry)'
    BY <1>11, <1>14 DEF Done
  <2> QED
    BY <1>9, <1>11, <2>1 DEF Made
<1>18. Stage'
  BY <1>2, <1>17 DEF Stage, Builders, Transformers
<1>19. Hooks'
  <2>1. \A f \in Features : f \in Analyses \union {"COLLECTED_CFG"} => cleaners[f] = <<>>
    BY <1>1, <1>3 DEF Hooks
  <2>2. ASSUME NEW f \in Features
        PROVE  cleaners[f] \in Lists(f)'
    <3>1. cleaners[f] \in Lists(f)
      BY <1>1 DEF Hooks
    <3>2. CASE f \in {"COLLECTED_CFG", "CLP"}
      <4>1. cleaners[f] = <<>>
        BY <2>1, <3>2 DEF Analyses
      <4> QED
        BY <3>2, <4>1 DEF Lists
    <3>3. CASE f \notin {"COLLECTED_CFG", "CLP"}
      BY <1>11, <3>1, <3>3 DEF Lists
    <3> QED
      BY <3>2, <3>3
  <2> QED
    BY <1>1, <1>2, <1>10, <2>2 DEF Hooks
<1> QED
  BY <1>13, <1>16, <1>18, <1>19

LEMMA WorkBuilder ==
    ASSUME NEW P, SharesGraph(P), LInv(P), Working, Top.proc \in Builders
    PROVE  Owned' /\ Graph' /\ Stage' /\ Hooks'
<1>1. /\ TypeOK /\ Bases /\ Owned /\ Graph /\ Hooks /\ Rooted(P)
      /\ "CFG_INFO" \in Features /\ "COLLECTED_CFG" \in Features
  BY DEF LInv, IInv, SharesGraph
<1>2. PICK p : p = Top.proc
  OBVIOUS
<1>3. p \in Builders /\ p \in {"Virtualizer", "LoopUnroller", "DelayedBuilder"}
  BY <1>2 DEF Builders, Transformers
<1>4. /\ ~Idle /\ Top.at = "work" /\ ~closing /\ ~Busy /\ p \in P
      /\ \A f \in Features : Uses(p, f) => f \in provided
      /\ UNCHANGED <<provided, needs, doomed, closing>>
      /\ ~Idle' /\ Top'.proc = p /\ Top'.at = "after"
      /\ Top'.todo = Invalidated(p, TRUE)
  BY <1>2, WorkFacts DEF Working
<1>5. "COLLECTED_CFG" \in provided /\ p \in Processors
  BY <1>1, <1>3, <1>4, SharedFacts
<1>6. "COLLECTED_CFG" \in ToSet(Top'.todo)
  BY <1>3, <1>4, StartFits
<1>7. PICK old : old = memory.involved.cfg
  OBVIOUS
<1>8. /\ ReadInvolved(memory) = memory /\ old \in CFGs /\ old # 0
      /\ memory.involved \in memory.collections
  BY <1>1, <1>5, <1>7, Reading
<1>9. memory.entry = old /\ Done(old)
  BY <1>1, <1>4, <1>5, <1>7 DEF Graph
<1>10. PICK c : c = Len(memory.made) + 1
  OBVIOUS
<1>11. /\ memory \in Memory /\ memory.made \in Seq(SUBSET Processors)
       /\ CFGs \subseteq memory.cfgs
  BY <1>1, <1>4, AllThere DEF Owned, Memory
<1>12. c \in Nat \ {0} /\ c \notin CFGs /\ CFGs \subseteq Nat \ {0} /\ 1..c - 1 = CFGs
       /\ 1..c = CFGs \union {c}
  BY <1>10, <1>11 DEF CFGs
<1>13. PICK done : done = History(memory, old) \union {p}
  OBVIOUS
<1>14. done \in SUBSET Processors
  <2>1. memory.made[old] \in SUBSET Processors
    BY <1>8, <1>11 DEF CFGs
  <2> QED
    BY <1>5, <1>8, <1>13, <2>1 DEF History
<1> DEFINE new == NewCFG(memory, done)
<1>15. /\ new \in Memory /\ Len(new.made) = c /\ new.made[c] = done
       /\ \A b \in CFGs : new.made[b] = memory.made[b]
       /\ new.cfgs = memory.cfgs \union {c} /\ new.built = c
       /\ new.involved = memory.involved /\ new.entry = memory.entry
       /\ new.original = memory.original /\ new.count = memory.count
       /\ new.collections = memory.collections /\ new.fault = memory.fault
  BY <1>10, <1>11, <1>12, <1>14, NewCFGFacts
<1>16. Rebuild(p, memory) = new
  BY <1>7, <1>8, <1>13 DEF Rebuild
<1>17. /\ memory' = new \/ memory' = [new EXCEPT !.entry = new.built]
       /\ UNCHANGED <<cleaners, about>>
  <2>1. CASE p \in {"Virtualizer", "DelayedBuilder"}
    BY <1>2, <1>16, <2>1 DEF Working, WorkOf
  <2>2. CASE p = "LoopUnroller"
    BY <1>2, <1>16, <2>2 DEF Working, WorkOf, Unroll, MoveEntry
  <2> QED
    BY <1>3, <2>1, <2>2
<1> HIDE DEF new
<1>18. /\ memory' \in Memory /\ Len(memory'.made) = c /\ memory'.made[c] = done
       /\ \A b \in CFGs : memory'.made[b] = memory.made[b]
       /\ memory'.cfgs = memory.cfgs \union {c} /\ memory'.built = c
       /\ memory'.involved = memory.involved /\ memory'.entry \in {memory.entry, c}
       /\ memory'.count = memory.count /\ memory'.original = memory.original
       /\ memory'.collections = memory.collections /\ memory'.fault = memory.fault
  <2>1. CASE memory' = new
    BY <1>15, <2>1
  <2>2. CASE memory' = [new EXCEPT !.entry = new.built]
    BY <1>12, <1>15, <2>2 DEF Memory
  <2> QED
    BY <1>17, <2>1, <2>2
<1>19. CFGs' = CFGs \union {c} /\ Collections \subseteq Collections'
  BY <1>12, <1>18 DEF CFGs, Collections
<1>20. memory.original \in CFGs \union {0}
  BY <1>1 DEF Owned
<1>21. Owned'
  BY <1>1, <1>4, <1>11, <1>18, <1>19, <1>20 DEF Owned
<1>22. \A b \in CFGs \union {0} :
            (Done(b)' <=> Done(b)) /\ History(memory', b) = History(memory, b)
  BY <1>4, <1>18, DoneKept
<1>23. Done(c)' /\ p \in History(memory', c)
  <2>1. History(memory', c) = History(memory, old) \union {p}
    BY <1>12, <1>13, <1>18 DEF History
  <2> QED
    BY <1>4, <1>9, <2>1 DEF Done
<1>24. Busy'
  BY <1>3, <1>4 DEF Busy
<1>25. memory'.entry # 0
  BY <1>8, <1>9, <1>12, <1>18
<1>26. Graph'
  <2>1. Done(memory.involved.cfg)'
    BY <1>7, <1>8, <1>9, <1>18, <1>22 DEF Done
  <2>2. about' \in [Features -> CFGs' \union {0}]
    <3>1. \A f \in Features : about[f] \in CFGs' \union {0}
      BY <1>1, <1>19 DEF Graph
    <3> QED
      BY <1>1, <1>17, <3>1 DEF Graph
  <2> QED
    BY <1>1, <1>4, <1>5, <1>17, <1>18, <1>24, <1>25, <2>1, <2>2 DEF Graph
<1>27. Stage'
  <2>1. Done(memory.built)' /\ p \in History(memory', memory'.built)
    BY <1>18, <1>23 DEF Done
  <2>2. c \in CFGs' \ {memory.original}
    BY <1>12, <1>19, <1>20
  <2>3. p # "CFGBuilder" /\ p # "CFGCollector"
    BY <1>3
  <2> QED
    BY <1>4, <1>6, <1>18, <1>25, <2>1, <2>2, <2>3 DEF Stage
<1>28. Hooks'
  BY <1>1, <1>4, <1>17, <1>18 DEF Hooks, Lists
<1> QED
  BY <1>21, <1>26, <1>27, <1>28

\* A processor that requires results on the graph finds the graph.
LEMMA ReaderFinds ==
    ASSUME NEW P, SharesGraph(P), TypeOK, Bases, Rooted(P), NEW p \in P,
           p \notin Builders \union {"CFGBuilder", "CFGCollector"},
           Requires(p) \subseteq provided
    PROVE  "COLLECTED_CFG" \in provided
<1>1. Requires(p) \cap (OnGraph(P) \union {"COLLECTED_CFG"}) # {}
  BY SharedFacts
<1>2. ASSUME NEW f \in Requires(p) \cap OnGraph(P)
      PROVE  "COLLECTED_CFG" \in provided
  <2>1. f \in Analyses \cap provided
    BY DEF OnGraph
  <2> QED
    BY <2>1, NoResults
<1> QED
  BY <1>1, <1>2

LEMMA WorkReader ==
    ASSUME NEW P, SharesGraph(P), LInv(P), Working,
           Top.proc \notin Builders \union {"CFGBuilder", "CFGCollector"}
    PROVE  Owned' /\ Graph' /\ Stage' /\ Hooks'
<1>1. /\ TypeOK /\ Bases /\ Owned /\ Graph /\ Hooks /\ Rooted(P)
      /\ "CFG_INFO" \in Features /\ "COLLECTED_CFG" \in Features
  BY DEF LInv, IInv, SharesGraph
<1>2. /\ ~Idle /\ Top.at = "work" /\ ~closing /\ ~Busy /\ Top.proc \in P
      /\ \A f \in Features : Uses(Top.proc, f) => f \in provided
      /\ UNCHANGED <<provided, needs, doomed, closing>>
      /\ ~Idle' /\ Top'.proc = Top.proc /\ Top'.at = "after"
  BY WorkFacts DEF Working
<1>3. Top.proc \in Processors /\ Top.proc \notin {"LoopReductor", "SubCFGBuilder"}
  BY <1>2, SharedFacts
<1>4. Requires(Top.proc) \subseteq provided
  BY <1>2, <1>3, FeatureSets
<1>5. "COLLECTED_CFG" \in provided
  BY <1>1, <1>2, <1>4, ReaderFinds
<1>6. ReadInvolved(memory) = memory
  BY <1>1, <1>5, Reading
<1>7. UNCHANGED lifetime
  <2>1. Top.proc \notin {"CFGBuilder", "CFGCollector", "Virtualizer", "DelayedBuilder",
                         "LoopUnroller", "LoopReductor", "SubCFGBuilder"}
    BY <1>3 DEF Builders, Transformers
  <2>2. WorkOf(Top.proc, memory) = ReadInvolved(memory)
    BY <2>1 DEF WorkOf
  <2> QED
    BY <1>6, <2>2 DEF Working, lifetime
<1>8. Stage' /\ ~Busy'
  BY <1>2 DEF Stage, Busy
<1> QED
  BY <1>1, <1>2, <1>7, <1>8, QuietStep

LEMMA WorkingStep ==
    ASSUME NEW P, SharesGraph(P), LInv(P), Working
    PROVE  Owned' /\ Graph' /\ Stage' /\ Hooks'
BY WorkCFGBuilder, WorkCFGCollector, WorkBuilder, WorkReader

-----------------------------------------------------------------------------

\* The run on top cleans up after its work.
LEMMA CleanUpFacts ==
    ASSUME NEW P, SharesGraph(P), LInv(P), CleanUp
    PROVE  /\ ~Idle /\ Top.at = "after" /\ ToSet(Top.todo) = {} /\ doomed = {} /\ ~closing
           /\ Top.proc \in P /\ Fits(P, Top)
           /\ UNCHANGED <<provided, needs, doomed, closing>>
           /\ ~Idle' /\ Top'.proc = Top.proc /\ Top'.at = "provide"
<1>1. TypeOK /\ Serves /\ Stack(P)
  BY DEF LInv, IInv
<1>2. /\ ~Idle /\ Top.at = "after" /\ Top.todo = <<>> /\ doomed = {}
      /\ UNCHANGED <<provided, needs, doomed, closing>>
      /\ Enter("provide", Declared(Top.proc, {"provide"}))
  BY DEF CleanUp, Ready, workspace, tool
<1>3. Fits(P, Top) /\ Top \in Call /\ ~closing
  BY <1>1, <1>2, TopFacts DEF Stack, Serves
<1>4. Declared(Top.proc, {"provide"}) \in Seq(Features)
  BY <1>3, DeclaredFacts DEF Call
<1>5. ~Idle' /\ Top'.proc = Top.proc /\ Top'.at = "provide"
  BY <1>1, <1>2, <1>4, EnterFacts
<1>6. ToSet(<<>>) = {}
  BY DEF ToSet
<1> QED
  BY <1>2, <1>3, <1>5, <1>6 DEF Fits

LEMMA CleaningUpBuilder ==
    ASSUME NEW P, SharesGraph(P), LInv(P), CleaningUp, Top.proc \in Builders
    PROVE  Owned' /\ Graph' /\ Stage' /\ Hooks'
<1>1. /\ TypeOK /\ Bases /\ Owned /\ Graph /\ Stage /\ Hooks /\ Rooted(P)
      /\ "CFG_INFO" \in Features /\ "COLLECTED_CFG" \in Features
  BY DEF LInv, IInv, SharesGraph
<1>2. PICK p, c : p = Top.proc /\ c = memory.built
  OBVIOUS
<1>3. p \in Builders /\ p \in {"Virtualizer", "LoopUnroller", "DelayedBuilder"}
  BY <1>2 DEF Builders, Transformers
<1>4. /\ ~Idle /\ Top.at = "after" /\ ToSet(Top.todo) = {} /\ doomed = {} /\ ~closing
      /\ UNCHANGED <<provided, needs, doomed, closing>>
      /\ ~Idle' /\ Top'.proc = p /\ Top'.at = "provide"
  BY <1>2, CleanUpFacts DEF CleaningUp
<1>5. "COLLECTED_CFG" \notin provided
  BY <1>1, <1>2, <1>3, <1>4 DEF Stage
<1>6. Analyses \cap provided = {}
  BY <1>1, <1>5, NoResults
<1>7. c \in CFGs \ {memory.original} /\ Done(c) /\ p \in History(memory, c)
  BY <1>1, <1>2, <1>3, <1>4 DEF Stage
<1>8. memory \in Memory /\ CFGs \subseteq memory.cfgs /\ CFGs \subseteq Nat \ {0}
  BY <1>1, <1>4, AllThere DEF Owned, CFGs
<1> DEFINE new == NewCollection(memory, c)
<1>9. PICK coll : coll = [id |-> memory.count + 1, cfg |-> c]
  OBVIOUS
<1>10. /\ new \in Memory /\ new.count = memory.count + 1
       /\ coll \in [id : Nat, cfg : Nat] /\ coll.cfg = c /\ coll.id = memory.count + 1
       /\ new.involved = coll /\ new.collections = memory.collections \union {coll}
       /\ new.made = memory.made
       /\ new.original = memory.original /\ new.built = memory.built
       /\ new.cfgs = memory.cfgs /\ new.fault = memory.fault
  BY <1>7, <1>8, <1>9, NewCollectionFacts
<1>11. memory' = [new EXCEPT !.entry = c] /\ UNCHANGED <<cleaners, about>>
  BY <1>2, <1>3 DEF CleaningUp, CleanUpOf
<1> HIDE DEF new
<1>12. /\ memory' \in Memory /\ memory'.made = memory.made
       /\ memory'.cfgs = memory.cfgs /\ memory'.built = memory.built
       /\ memory'.involved = coll /\ memory'.entry = c
       /\ memory'.count = memory.count + 1 /\ memory'.original = memory.original
       /\ memory'.collections = memory.collections \union {coll}
       /\ memory'.fault = memory.fault
  BY <1>7, <1>8, <1>10, <1>11 DEF Memory
<1>13. CFGs' = CFGs /\ Collections \subseteq Collections' /\ coll \in Collections'
  <2>1. CFGs' = CFGs
    BY <1>12 DEF CFGs
  <2>2. memory.count \in Nat
    BY <1>8 DEF Memory
  <2>3. 1..memory.count \subseteq 1..memory'.count /\ memory.count + 1 \in 1..memory'.count
    BY <1>12, <2>2
  <2> HIDE DEF CFGs
  <2> QED
    BY <1>7, <1>9, <2>1, <2>3 DEF Collections
<1>14. Owned'
  BY <1>1, <1>4, <1>7, <1>12, <1>13 DEF Owned
<1>15. \A b \in CFGs \union {0} :
            (Done(b)' <=> Done(b)) /\ History(memory', b) = History(memory, b)
  BY <1>4, <1>12, DoneKept
<1>16. Busy'
  BY <1>3, <1>4 DEF Busy
<1>17. Graph'
  BY <1>1, <1>4, <1>5, <1>6, <1>7, <1>8, <1>11, <1>12, <1>13, <1>16 DEF Graph
<1>18. Made' /\ memory'.entry # memory'.original /\ p \in History(memory', memory'.entry)
  <2>1. Done(memory.entry)'
    BY <1>7, <1>12, <1>15 DEF Done
  <2> QED
    BY <1>7, <1>10, <1>12, <1>15, <2>1 DEF Made
<1>19. cleaners["COLLECTED_CFG"] = <<>>
  BY <1>1, <1>5 DEF Hooks
<1>20. Stage'
  BY <1>3, <1>4, <1>11, <1>18, <1>19 DEF Stage
<1>21. Hooks'
  <2>1. \A f \in Features : f \in Analyses \union {"COLLECTED_CFG"} => cleaners[f] = <<>>
    BY <1>1, <1>5, <1>6 DEF Hooks
  <2>2. ASSUME NEW f \in Features
        PROVE  cleaners[f] \in Lists(f)'
    <3>1. cleaners[f] \in Lists(f)
      BY <1>1 DEF Hooks
    <3>2. CASE f \in {"COLLECTED_CFG", "CLP"}
      <4>1. cleaners[f] = <<>>
        BY <2>1, <3>2 DEF Analyses
      <4> QED
        BY <3>2, <4>1 DEF Lists
    <3>3. CASE f \notin {"COLLECTED_CFG", "CLP"}
      BY <1>12, <3>1, <3>3 DEF Lists
    <3> QED
      BY <3>2, <3>3
  <2> QED
    BY <1>1, <1>4, <1>11, <2>2 DEF Hooks
<1> QED
  BY <1>14, <1>17, <1>20, <1>21

LEMMA CleaningUpStep ==
    ASSUME NEW P, SharesGraph(P), LInv(P), CleaningUp
    PROVE  Owned' /\ Graph' /\ Stage' /\ Hooks'
<1>1. CASE Top.proc \in Builders
  BY <1>1, CleaningUpBuilder
<1>2. CASE Top.proc \notin Builders
  <2>1. /\ TypeOK /\ Bases /\ Owned /\ Graph /\ Stage /\ Hooks /\ Rooted(P)
        /\ "CFG_INFO" \in Features /\ "COLLECTED_CFG" \in Features
    BY DEF LInv, IInv, SharesGraph
  <2>2. /\ ~Idle /\ Top.at = "after" /\ ~closing /\ Top.proc \in P /\ Fits(P, Top)
        /\ UNCHANGED <<provided, needs, doomed, closing>>
        /\ ~Idle' /\ Top'.proc = Top.proc /\ Top'.at = "provide"
    BY CleanUpFacts DEF CleaningUp
  <2>3. Top.proc \notin {"Virtualizer", "LoopUnroller", "DelayedBuilder", "SubCFGBuilder"}
    BY <1>2, <2>2, SharedFacts DEF Builders, Transformers
  <2>4. Top.proc = "CFGCollector" => CleanUpOf(Top.proc, memory) = memory
    <3> SUFFICES ASSUME Top.proc = "CFGCollector"
                 PROVE  CleanUpOf("CFGCollector", memory) = memory
      OBVIOUS
    <3>1. memory.involved \in memory.collections
      BY <2>1, <2>2 DEF Stage, Made
    <3>2. memory.involved.cfg \in memory.cfgs
      <4>1. memory.involved.cfg \in CFGs
        BY <2>1, <3>1 DEF Owned, Collections
      <4> QED
        BY <2>1, <2>2, <4>1, AllThere
    <3> QED
      BY <3>1, <3>2 DEF CleanUpOf, ReadInvolved
  <2>5. UNCHANGED lifetime
    <3>1. Top.proc # "CFGCollector" => CleanUpOf(Top.proc, memory) = memory
      BY <2>3 DEF CleanUpOf
    <3> QED
      BY <2>4, <3>1 DEF CleaningUp, lifetime
  <2>6. Busy' <=> Busy
    BY <2>2 DEF Busy
  <2>7. Owned' /\ Graph' /\ Hooks'
    BY <2>1, <2>2, <2>5, <2>6, QuietStep
  <2>8. /\ Top.proc = "CFGBuilder" => cleaners["CFG_INFO"] = <<>>
        /\ Top.proc = "CFGCollector" => cleaners["COLLECTED_CFG"] = <<>>
    BY <2>1, <2>2 DEF Hooks, Fits
  <2>9. Top.proc = "CFGCollector" => Made'
    <3>1. Top.proc = "CFGCollector" => Made
      BY <2>1, <2>2 DEF Stage
    <3> QED
      BY <2>2, <2>5, <3>1 DEF Made, Done, History, lifetime
  <2>10. Stage'
    BY <1>2, <2>1, <2>2, <2>5, <2>8, <2>9 DEF Stage, lifetime
  <2> QED
    BY <2>7, <2>10
<1> QED
  BY <1>1, <1>2

LEMMA FailingStep ==
    ASSUME NEW P, SharesGraph(P), LInv(P), Failing
    PROVE  Owned' /\ Graph' /\ Stage' /\ Hooks'
<1>1. Owned /\ Graph /\ Hooks /\ Serves
  BY DEF LInv, IInv
<1>2. /\ ~Idle /\ Top.at = "work" /\ Idle' /\ UNCHANGED <<provided, needs, closing>>
  BY DEF Failing, Fail, Ready, Throw, Idle, workspace, tool
<1>3. ~closing
  BY <1>1, <1>2 DEF Serves
<1>4. UNCHANGED lifetime
  <2>1. CASE Top.proc = "CFGCollector"
    <3>1. memory.entry = 0
      BY <2>1 DEF Failing
    <3>2. memory.involved = Null
      BY <1>1, <1>3, <3>1 DEF Graph
    <3> QED
      BY <2>1, <3>2 DEF Failing, CleanUpOf, lifetime
  <2>2. CASE Top.proc # "CFGCollector"
    BY <2>2 DEF Failing, lifetime
  <2> QED
    BY <2>1, <2>2
<1>5. Stage' /\ ~Busy' /\ ~Busy
  BY <1>2, EarlyStage DEF Busy
<1> QED
  BY <1>1, <1>2, <1>4, <1>5, QuietStep

-----------------------------------------------------------------------------

\* One more feature is provided: if it is a transformation, it was done.
LEMMA DoneGrows ==
    ASSUME NEW P, SharesGraph(P), NEW p \in P, NEW f \in Gives(p), NEW c \in Nat,
           Done(c), p \in Builders => p \in History(memory, c),
           provided' = provided \union {f}, UNCHANGED memory
    PROVE  Done(c)'
<1>1. Default[f] \in Transformers => p \in Builders /\ Default[f] = p
  BY SharedFacts DEF Builders
<1> QED
  BY <1>1 DEF Done, History

LEMMA ProvidingStep ==
    ASSUME NEW P, SharesGraph(P), LInv(P), Providing
    PROVE  Owned' /\ Graph' /\ Stage' /\ Hooks'
<1>1. /\ TypeOK /\ Bases /\ Owned /\ Graph /\ Stage /\ Hooks /\ Rooted(P) /\ IInv /\ Stack(P)
      /\ "CFG_INFO" \in Features /\ "COLLECTED_CFG" \in Features
  BY DEF LInv, IInv, SharesGraph
<1>2. PICK p, f : p = Top.proc /\ f = Head(Top.todo)
  OBVIOUS
<1>3. /\ ~Idle /\ Top.at = "provide" /\ doomed = {} /\ ~closing
      /\ f \in Features /\ f \in Gives(p) /\ p \in P /\ Fits(P, Top)
      /\ provided' = provided \union {f}
      /\ needs' = IF f \in provided THEN needs ELSE [needs EXCEPT ![f] = Top.required]
      /\ UNCHANGED <<doomed, closing>>
      /\ ~Idle' /\ Top'.proc = p /\ Top'.at = "provide"
  BY <1>1, <1>2, ProvideFacts DEF Providing
<1>4. /\ UNCHANGED <<memory, cleaners>>
      /\ about' = [about EXCEPT ![f] = IF p \in Transformers THEN memory.built
                                       ELSE memory.involved.cfg]
  BY <1>2 DEF Providing
<1>5. p \in Transformers <=> p \in Builders
  BY <1>3, SharedFacts DEF Builders
<1>6. Busy' <=> Busy
  BY <1>2, <1>3 DEF Busy
<1>7. p \in Builders \union {"CFGCollector"} <=> Busy
  BY <1>2, <1>3 DEF Busy
<1>8. p \in Builders => /\ Made /\ memory.entry # memory.original
                        /\ p \in History(memory, memory.entry)
  BY <1>1, <1>2, <1>3 DEF Stage
<1>9. p = "CFGCollector" => Made
  BY <1>1, <1>2, <1>3 DEF Stage
<1>10. memory.involved.cfg \in Nat /\ memory.entry \in Nat
  BY <1>1 DEF Owned, Memory
<1>11. Owned'
  <2>1. f = "CFG_INFO" => memory.original # 0
    BY <1>1, <1>2, <1>3, SharedFacts DEF Stage
  <2>2. memory.original = 0 \/ memory.original \in memory.cfgs
    BY <1>1, <1>3, AllThere
  <2> QED
    BY <1>1, <1>3, <1>4, <2>1, <2>2 DEF Owned, CFGs, Collections
<1>12. Made => Made'
  <2>1. ASSUME Made
        PROVE  Done(memory.entry)'
    <3>1. Done(memory.entry)
      BY <2>1 DEF Made
    <3>2. PICK c \in Nat : c = memory.entry
      BY <1>10
    <3>3. Done(c)'
      BY <1>3, <1>4, <1>8, <3>1, <3>2, DoneGrows
    <3> QED
      BY <1>4, <3>2, <3>3 DEF Done
  <2> QED
    BY <1>4, <2>1 DEF Made
<1>13. Graph'
  <2>1. ASSUME "COLLECTED_CFG" \in provided'
        PROVE  /\ memory.involved \in memory.collections
               /\ memory.involved.cfg = memory.original => "CFG_INFO" \in needs'["COLLECTED_CFG"]
               /\ Done(memory.involved.cfg)'
               /\ memory.entry = memory.involved.cfg \/ Busy'
    <3>1. CASE "COLLECTED_CFG" \in provided
      <4>1. needs'["COLLECTED_CFG"] = needs["COLLECTED_CFG"]
        BY <1>1, <1>3, <3>1 DEF TypeOK
      <4>2. Done(memory.involved.cfg)
        BY <1>1, <3>1 DEF Graph
      <4>3. p \in Builders => p \in History(memory, memory.involved.cfg)
        BY <1>8 DEF Made
      <4>4. PICK c \in Nat : c = memory.involved.cfg
        BY <1>10
      <4>5. Done(c)'
        BY <1>3, <1>4, <4>2, <4>3, <4>4, DoneGrows
      <4>6. Done(memory.involved.cfg)'
        BY <1>4, <4>4, <4>5 DEF Done
      <4> QED
        BY <1>1, <1>3, <1>6, <3>1, <4>1, <4>6 DEF Graph
    <3>2. CASE "COLLECTED_CFG" \notin provided
      <4>1. f = "COLLECTED_CFG"
        BY <1>3, <2>1, <3>2
      <4>2. p \in Builders \union {"CFGCollector"}
        BY <1>3, <4>1, SharedFacts
      <4>3. Made /\ Made'
        BY <1>8, <1>9, <1>12, <4>2
      <4>4. needs'["COLLECTED_CFG"] = Top.required
        BY <1>1, <1>3, <3>2, <4>1 DEF TypeOK
      <4>5. memory.involved.cfg = memory.original => "CFG_INFO" \in Top.required
        <5> SUFFICES ASSUME memory.involved.cfg = memory.original
                     PROVE  "CFG_INFO" \in Top.required
          OBVIOUS
        <5>1. p = "CFGCollector" /\ p \notin Builders
          BY <1>8, <4>2, <4>3 DEF Made
        <5>2. Top.required = Requires(p)
          BY <1>2, <1>3, <5>1 DEF Fits
        <5> QED
          BY <1>3, <5>1, <5>2, SharedFacts
      <4>6. Done(memory.involved.cfg)'
        BY <1>4, <4>3 DEF Made, Done
      <4> QED
        BY <1>6, <1>7, <4>2, <4>3, <4>4, <4>5, <4>6 DEF Made
    <3> QED
      BY <3>1, <3>2
  <2>2. about' \in [Features -> CFGs' \union {0}]
    <3>1. {memory.built, memory.involved.cfg} \subseteq CFGs \union {0}
      BY <1>1 DEF Owned, Collections, Null
    <3> QED
      BY <1>1, <1>3, <1>4, <3>1 DEF Graph, CFGs
  <2>3. ASSUME NEW g \in Analyses \cap provided'
        PROVE  about'[g] = memory.involved.cfg
    <3>1. about \in [Features -> CFGs \union {0}]
      BY <1>1 DEF Graph
    <3>2. CASE g = f
      <4>1. p \notin Transformers
        BY <1>3, <1>5, <3>2, SharedFacts
      <4> QED
        BY <1>3, <1>4, <3>1, <3>2, <4>1
    <3>3. CASE g # f
      BY <1>1, <1>3, <1>4, <3>1, <3>3 DEF Graph
    <3> QED
      BY <3>2, <3>3
  <2>4. ASSUME ~Busy', "COLLECTED_CFG" \notin provided'
        PROVE  Done(memory.entry)'
    <3>1. Done(memory.entry) /\ p \notin Builders
      BY <1>1, <1>3, <1>6, <1>7, <2>4 DEF Graph
    <3>2. PICK c \in Nat : c = memory.entry
      BY <1>10
    <3>3. Done(c)'
      BY <1>3, <1>4, <3>1, <3>2, DoneGrows
    <3> QED
      BY <1>4, <3>2, <3>3 DEF Done
  <2>5. memory.entry = 0 => memory.involved = Null
    BY <1>1, <1>3 DEF Graph
  <2> QED
    BY <1>3, <1>4, <2>1, <2>2, <2>3, <2>4, <2>5 DEF Graph
<1>14. Stage'
  <2>1. p = "CFGBuilder" => memory.original # 0
    BY <1>1, <1>2, <1>3 DEF Stage
  <2>2. /\ p = "CFGBuilder" => cleaners["CFG_INFO"] = <<>>
        /\ p \in Builders \union {"CFGCollector"} => cleaners["COLLECTED_CFG"] = <<>>
    BY <1>1, <1>2, <1>3 DEF Stage
  <2>3. p \in Builders => p \in History(memory, memory.entry)'
    BY <1>4, <1>8
  <2> QED
    BY <1>3, <1>4, <1>8, <1>9, <1>12, <2>1, <2>2, <2>3 DEF Stage
<1>15. Hooks'
  BY <1>1, <1>3, <1>4 DEF Hooks, Lists
<1> QED
  BY <1>11, <1>13, <1>14, <1>15

-----------------------------------------------------------------------------

\* A cleaner put before the others on a feature.
LEMMA HookFacts ==
    ASSUME NEW K, NEW c \in K, NEW list \in Seq(K)
    PROVE  <<c>> \o list \in Seq(K) /\ <<c>> \o <<>> = <<c>> /\ <<>> \o list = list
<1>1. <<c>> \in Seq(K)
  OBVIOUS
<1>2. <<c>> \o list \in Seq(K)
  BY <1>1
<1>3. <<c>> \o <<>> = <<c>> /\ <<>> \o list = list
  BY <1>1
<1> QED
  BY <1>2, <1>3

LEMMA FinishingStep ==
    ASSUME NEW P, SharesGraph(P), LInv(P), Finishing
    PROVE  Owned' /\ Graph' /\ Stage' /\ Hooks'
<1>1. /\ TypeOK /\ Bases /\ Runs /\ Serves /\ Owned /\ Graph /\ Stage /\ Hooks
      /\ Rooted(P) /\ Stack(P)
      /\ {"CFG_INFO", "COLLECTED_CFG", "VIRTUALIZED_CFG"} \subseteq Features
  BY DEF LInv, IInv, SharesGraph
<1>2. PICK p : p = Top.proc
  OBVIOUS
<1>3. /\ ~Idle /\ Top.at = "provide" /\ Top.todo = <<>> /\ Return
      /\ UNCHANGED <<provided, needs, doomed, closing, memory, about>>
  BY DEF Finishing, Finish, Ready, workspace, tool
<1>4. p \in P /\ Gives(p) \subseteq provided /\ ~closing
  <2>1. Fits(P, Top) /\ Sound(Top)
    BY <1>1, <1>3, TopFacts DEF Stack, Runs
  <2>2. ToSet(<<>>) = {}
    BY DEF ToSet
  <2> QED
    BY <1>1, <1>2, <1>3, <2>1, <2>2 DEF Fits, Sound, Gives, Serves
<1>5. Stage' /\ ~Busy'
  BY <1>1, <1>3, ReturnTop, EarlyStage
<1>6. Owned'
  BY <1>1, <1>3 DEF Owned, CFGs, Collections
<1>7. Graph'
  <2>1. Busy => Made
    BY <1>1, <1>3 DEF Busy, Stage
  <2>2. \A c : Done(c)' <=> Done(c)
    BY <1>3 DEF Done, History
  <2>3. "COLLECTED_CFG" \in provided =>
            memory.entry = memory.involved.cfg \/ (closing /\ memory.entry = 0)
    BY <1>1, <2>1 DEF Graph, Made
  <2>4. ~closing /\ "COLLECTED_CFG" \notin provided => Done(memory.entry)
    BY <1>1, <2>1 DEF Graph, Made
  <2> QED
    BY <1>1, <1>3, <2>2, <2>3, <2>4 DEF Graph, CFGs
<1>8. Hooks'
  <2> DEFINE new == CleanersOf(p, memory)
             now(f) == IF f \in DOMAIN new THEN new[f] \o cleaners[f] ELSE cleaners[f]
  <2>1. cleaners' = [f \in Features |-> now(f)]
    BY <1>2 DEF Finishing
  <2>2. ASSUME NEW f \in Features
        PROVE  now(f) \in Lists(f) /\ (now(f) # <<>> => f \in provided)
    <3>1. cleaners[f] \in Lists(f) /\ (cleaners[f] # <<>> => f \in provided)
      BY <1>1 DEF Hooks
    <3>2. CASE p = "CFGBuilder"
      <4>1. new = [CFG_INFO |-> Cleaner("free_cfg", memory.original)]
        BY <3>2 DEF CleanersOf
      <4>2. CASE f = "CFG_INFO"
        <5>1. cleaners[f] = <<>>
          BY <1>1, <1>2, <1>3, <3>2, <4>2 DEF Stage
        <5>2. now(f) = Cleaner("free_cfg", memory.original)
          BY <4>1, <4>2, <5>1, HookFacts DEF Cleaner
        <5>3. f \in provided
          BY <1>4, <3>2, <4>2, SharedFacts
        <5> QED
          BY <4>2, <5>2, <5>3 DEF Lists
      <4>3. CASE f # "CFG_INFO"
        BY <3>1, <4>1, <4>3
      <4> QED
        BY <4>2, <4>3
    <3>3. CASE p \in {"CFGCollector", "DelayedBuilder", "Virtualizer"} /\ f = "COLLECTED_CFG"
      <4>1. cleaners[f] = <<>>
        BY <1>1, <1>2, <1>3, <3>3 DEF Stage, Builders, Transformers
      <4>2. f \in provided
        BY <1>4, <3>3, SharedFacts DEF Builders, Transformers
      <4>3. \/ /\ f \in DOMAIN new /\ new[f] = Cleaner("free_collection", memory.involved)
            \/ f \in DOMAIN new /\ new[f] = Cleaner("free_involved", 0)
        BY <3>3 DEF CleanersOf
      <4>4. now(f) \in {Cleaner("free_collection", memory.involved), Cleaner("free_involved", 0)}
        <5>1. f \in DOMAIN new /\ now(f) = new[f] \o <<>>
          BY <4>1, <4>3
        <5>2. PICK c : new[f] = <<c>>
          BY <4>3 DEF Cleaner
        <5>3. c \in {c} /\ <<>> \in Seq({c})
          OBVIOUS
        <5>4. <<c>> \o <<>> = <<c>>
          BY <5>3, HookFacts
        <5> HIDE DEF now, new
        <5>5. now(f) = new[f]
          BY <5>1, <5>2, <5>4
        <5> QED
          BY <4>3, <5>5
      <4> HIDE DEF now
      <4> QED
        BY <3>3, <4>2, <4>4 DEF Lists
    <3>4. CASE p \in {"CFGCollector", "DelayedBuilder"} /\ f # "COLLECTED_CFG"
      <4>1. f \notin DOMAIN new
        BY <3>4 DEF CleanersOf
      <4> QED
        BY <3>1, <4>1
    <3>5. CASE p = "Virtualizer" /\ f # "COLLECTED_CFG"
      <4>1. new = [COLLECTED_CFG |-> Cleaner("free_involved", 0),
                   VIRTUALIZED_CFG |-> Cleaner("remove_entry", 0)]
        BY <3>5 DEF CleanersOf
      <4>2. CASE f = "VIRTUALIZED_CFG"
        <5>1. cleaners[f] \in Seq({[do |-> "remove_entry", on |-> 0]})
          BY <3>1, <4>2 DEF Lists
        <5>2. now(f) = <<[do |-> "remove_entry", on |-> 0]>> \o cleaners[f]
          BY <4>1, <4>2 DEF Cleaner
        <5>3. now(f) \in Seq({[do |-> "remove_entry", on |-> 0]})
          BY <5>1, <5>2, HookFacts
        <5>4. f \in provided
          BY <1>4, <3>5, <4>2, SharedFacts
        <5> HIDE DEF now
        <5> QED
          BY <4>2, <5>3, <5>4 DEF Lists
      <4>3. CASE f # "VIRTUALIZED_CFG"
        BY <3>1, <3>5, <4>1, <4>3
      <4> QED
        BY <4>2, <4>3
    <3>6. CASE p = "Dominance"
      <4>1. new = [DOMINANCE |-> Cleaner("visit_involved", 0)]
        BY <3>6 DEF CleanersOf
      <4>2. CASE f = "DOMINANCE"
        <5>1. cleaners[f] \in Seq({[do |-> "visit_involved", on |-> 0]})
          BY <3>1, <4>2 DEF Lists
        <5>2. now(f) = <<[do |-> "visit_involved", on |-> 0]>> \o cleaners[f]
          BY <4>1, <4>2 DEF Cleaner
        <5>3. now(f) \in Seq({[do |-> "visit_involved", on |-> 0]})
          BY <5>1, <5>2, HookFacts
        <5>4. f \in provided
          BY <1>4, <3>6, <4>2, SharedFacts
        <5> HIDE DEF now
        <5> QED
          BY <4>2, <5>3, <5>4 DEF Lists
      <4>3. CASE f # "DOMINANCE"
        BY <3>1, <4>1, <4>3
      <4> QED
        BY <4>2, <4>3
    <3>7. CASE p = "ClpAnalysis"
      <4>1. new = [CLP |-> Cleaner("visit_cfg", memory.involved.cfg)]
        BY <3>7 DEF CleanersOf
      <4>2. CASE f = "CLP"
        <5> DEFINE c == [do |-> "visit_cfg", on |-> memory.involved.cfg]
        <5>1. cleaners[f] \in Seq({c})
          BY <3>1, <4>2 DEF Lists
        <5>2. now(f) = <<c>> \o cleaners[f]
          BY <4>1, <4>2 DEF Cleaner
        <5>3. now(f) \in Seq({c})
          BY <5>1, <5>2, HookFacts
        <5>4. f \in provided
          BY <1>4, <3>7, <4>2, SharedFacts
        <5> HIDE DEF now
        <5> QED
          BY <4>2, <5>3, <5>4 DEF Lists
      <4>3. CASE f # "CLP"
        BY <3>1, <4>1, <4>3
      <4> QED
        BY <4>2, <4>3
    <3>8. CASE p \notin {"CFGBuilder", "CFGCollector", "DelayedBuilder", "Virtualizer",
                         "Dominance", "ClpAnalysis"}
      <4>1. p # "SubCFGBuilder"
        BY <1>4, SharedFacts
      <4>2. new = [none |-> <<>>]
        BY <3>8, <4>1 DEF CleanersOf
      <4>3. CASE f = "none"
        <5>1. cleaners[f] = <<>>
          BY <3>1, <4>3 DEF Lists
        <5>2. now(f) = <<>>
          BY <4>2, <4>3, <5>1
        <5> QED
          BY <3>1, <5>1, <5>2
      <4>4. CASE f # "none"
        BY <3>1, <4>2, <4>4
      <4> QED
        BY <4>3, <4>4
    <3> QED
      BY <3>2, <3>3, <3>4, <3>5, <3>6, <3>7, <3>8
  <2> HIDE DEF now
  <2>3. \A f \in Features : Lists(f)' = Lists(f)
    BY <1>3 DEF Lists
  <2> QED
    BY <1>3, <2>1, <2>2, <2>3 DEF Hooks
<1> QED
  BY <1>5, <1>6, <1>7, <1>8

-----------------------------------------------------------------------------

\* What each cleaner does.
LEMMA CleanFacts ==
    ASSUME NEW m, NEW c
    PROVE  /\ c.do = "free_cfg" => Clean(m, c) = Free(m, c.on)
           /\ c.do = "free_collection" => Clean(m, c) = FreeCollection(m, c.on)
           /\ c.do = "free_involved" => Clean(m, c) =
                [IF m.involved = Null THEN m ELSE FreeCollection(m, m.involved)
                    EXCEPT !.involved = Null]
           /\ c.do = "remove_entry" => Clean(m, c) = [m EXCEPT !.entry = 0]
           /\ c.do = "visit_involved" => Clean(m, c) = ReadInvolved(m)
           /\ c.do = "visit_cfg" =>
                Clean(m, c) = IF c.on \in m.cfgs THEN m ELSE Blame(m, "freed")
BY DEF Clean

\* The deletion of a node frees what its feature stands for, and no more.
LEMMA Dropped ==
    ASSUME NEW P, SharesGraph(P), LInv(P), NEW g \in Features, Dropping(g)
    PROVE  /\ memory' \in Memory /\ memory'.fault = "none"
           /\ memory'.made = memory.made /\ memory'.built = memory.built
           /\ memory'.original = memory.original /\ memory'.count = memory.count
           /\ \/ memory'.cfgs = memory.cfgs
              \/ /\ g = "CFG_INFO" /\ closing
                 /\ memory'.cfgs = memory.cfgs \ {memory.original}
           /\ memory'.entry = memory.entry \/ (closing /\ memory'.entry = 0)
           /\ \/ /\ memory'.involved = memory.involved
                 /\ memory'.collections = memory.collections
              \/ /\ g = "COLLECTED_CFG" /\ memory'.involved \in {memory.involved, Null}
                 /\ memory'.collections \subseteq memory.collections
<1> DEFINE m == memory
           list == cleaners[g]
<1>1. /\ TypeOK /\ Bases /\ Rooted(P) /\ Owned /\ Graph /\ Hooks
      /\ "COLLECTED_CFG" \in Features
  BY DEF LInv, IInv, SharesGraph
<1>2. /\ g \in doomed /\ g \in provided /\ memory' = Cleaned(memory, list)
      /\ list \in Lists(g)
  BY <1>1 DEF Dropping, Drop, Bases, Hooks
<1>3. g \in {"CFG_INFO", "VIRTUALIZED_CFG"} => closing
  BY <1>1, <1>2 DEF Rooted
<1>4. memory \in Memory /\ memory.fault = "none"
  BY <1>1 DEF Owned
<1>5. CASE memory' = memory
  BY <1>4, <1>5
<1>6. CASE list = <<>>
  BY <1>2, <1>5, <1>6, CleanedOne
<1> HIDE DEF list
<1>7. CASE g = "CFG_INFO"
  <2> SUFFICES ASSUME list # <<>>
               PROVE  memory' = [m EXCEPT !.cfgs = @ \ {m.original}]
    <3>1. CASE memory' = [m EXCEPT !.cfgs = @ \ {m.original}]
      <4> DEFINE cfgs == m.cfgs \ {m.original}
      <4>1. cfgs \in SUBSET Nat
        BY <1>4 DEF Memory
      <4>2. memory' = [memory EXCEPT !.cfgs = cfgs]
        BY <3>1
      <4> HIDE DEF cfgs
      <4>3. memory' \in Memory
        BY <1>4, <4>1, <4>2 DEF Memory
      <4>4. /\ memory'.fault = memory.fault
            /\ memory'.made = memory.made /\ memory'.built = memory.built
            /\ memory'.original = memory.original /\ memory'.count = memory.count
            /\ memory'.cfgs = cfgs /\ memory'.entry = memory.entry
            /\ memory'.involved = memory.involved
            /\ memory'.collections = memory.collections
        BY <1>4, <4>2 DEF Memory
      <4> QED
        BY <1>3, <1>4, <1>7, <4>3, <4>4 DEF cfgs
    <3> QED
      BY <1>6, <3>1
  <2> DEFINE c == [do |-> "free_cfg", on |-> m.original]
  <2>1. list = <<c>>
    BY <1>2, <1>7 DEF Lists, Cleaner
  <2>2. memory' = Free(m, m.original)
    <3>1. c.do = "free_cfg" /\ c.on = m.original
      OBVIOUS
    <3> HIDE DEF c
    <3>2. memory' = Clean(m, c)
      BY <1>2, <2>1, CleanedOne
    <3> QED
      BY <3>1, <3>2, CleanFacts
  <2>3. m.original \in m.cfgs
    BY <1>1, <1>2, <1>7 DEF Owned
  <2> QED
    BY <2>2, <2>3 DEF Free
<1>8. CASE g = "COLLECTED_CFG"
  <2> DEFINE coll == m.involved
  <2>1. coll \in m.collections /\ coll # Null
    BY <1>1, <1>2, <1>8, Reading
  <2>2. CASE list = Cleaner("free_collection", coll)
    <3> DEFINE c == [do |-> "free_collection", on |-> coll]
    <3>1. list = <<c>>
      BY <2>2 DEF Cleaner
    <3>2. memory' = FreeCollection(m, coll)
      <4>1. c.do = "free_collection" /\ c.on = coll
        OBVIOUS
      <4> HIDE DEF c
      <4>2. memory' = Clean(m, c)
        BY <1>2, <3>1, CleanedOne
      <4> QED
        BY <4>1, <4>2, CleanFacts
    <3> DEFINE rest == m.collections \ {coll}
    <3>3. memory' = [memory EXCEPT !.collections = rest]
      BY <2>1, <3>2 DEF FreeCollection
    <3>4. rest \in SUBSET [id : Nat, cfg : Nat] /\ rest \subseteq m.collections
      BY <1>4 DEF Memory
    <3> HIDE DEF rest
    <3>5. memory' \in Memory
      BY <1>4, <3>3, <3>4 DEF Memory
    <3>6. /\ memory'.fault = memory.fault
          /\ memory'.made = memory.made /\ memory'.built = memory.built
          /\ memory'.original = memory.original /\ memory'.count = memory.count
          /\ memory'.cfgs = memory.cfgs /\ memory'.entry = memory.entry
          /\ memory'.involved = memory.involved
          /\ memory'.collections = rest
      BY <1>4, <3>3 DEF Memory
    <3> QED
      BY <1>4, <1>8, <3>4, <3>5, <3>6
  <2>3. CASE list = Cleaner("free_involved", 0)
    <3> DEFINE c == [do |-> "free_involved", on |-> 0]
    <3>1. list = <<c>>
      BY <2>3 DEF Cleaner
    <3>2. memory' = [FreeCollection(m, coll) EXCEPT !.involved = Null]
      <4>1. c.do = "free_involved"
        OBVIOUS
      <4> HIDE DEF c
      <4>2. memory' = Clean(m, c)
        BY <1>2, <3>1, CleanedOne
      <4>3. Clean(m, c) = [IF coll = Null THEN m ELSE FreeCollection(m, coll)
                              EXCEPT !.involved = Null]
        BY <4>1, CleanFacts
      <4> QED
        BY <2>1, <4>2, <4>3
    <3> DEFINE rest == m.collections \ {coll}
    <3>3. memory' = [memory EXCEPT !.collections = rest, !.involved = Null]
      BY <2>1, <3>2 DEF FreeCollection
    <3>4. /\ rest \in SUBSET [id : Nat, cfg : Nat] /\ rest \subseteq m.collections
          /\ Null \in [id : Nat, cfg : Nat]
      BY <1>4 DEF Memory, Null
    <3> HIDE DEF rest
    <3>5. memory' \in Memory
      BY <1>4, <3>3, <3>4 DEF Memory
    <3>6. /\ memory'.fault = memory.fault
          /\ memory'.made = memory.made /\ memory'.built = memory.built
          /\ memory'.original = memory.original /\ memory'.count = memory.count
          /\ memory'.cfgs = memory.cfgs /\ memory'.entry = memory.entry
          /\ memory'.involved = Null
          /\ memory'.collections = rest
      BY <1>4, <3>3 DEF Memory
    <3> QED
      BY <1>4, <1>8, <3>4, <3>5, <3>6
  <2> QED
    BY <1>2, <1>6, <1>8, <2>2, <2>3 DEF Lists
<1>9. CASE g = "VIRTUALIZED_CFG"
  <2> DEFINE out == [m EXCEPT !.entry = 0]
             c == [do |-> "remove_entry", on |-> 0]
  <2>1. list \in Seq({c})
    BY <1>2, <1>9 DEF Lists
  <2>2. c.do = "remove_entry"
    OBVIOUS
  <2>3. /\ out \in Memory /\ out.fault = memory.fault
        /\ out.made = memory.made /\ out.built = memory.built
        /\ out.original = memory.original /\ out.count = memory.count
        /\ out.cfgs = memory.cfgs /\ out.entry = 0
        /\ out.involved = memory.involved
        /\ out.collections = memory.collections
    BY <1>4 DEF Memory
  <2>4. [out EXCEPT !.entry = 0] = out
    BY <1>4 DEF Memory
  <2>5. \A x \in {m, out} : Clean(x, c) = out
    BY <2>2, <2>4, CleanFacts
  <2> HIDE DEF c, out
  <2>6. \A x \in {m, out}, d \in {c} : Clean(x, d) \in {m, out}
    BY <2>5
  <2>7. memory' \in {m, out}
    BY <1>2, <2>1, <2>6, CleanedStays
  <2> QED
    BY <1>3, <1>4, <1>5, <1>9, <2>3, <2>7
<1>10. CASE g \in {"DOMINANCE", "CLP"}
  <2>1. "COLLECTED_CFG" \in provided
    BY <1>1, <1>2, <1>10, NoResults DEF Analyses
  <2>2. ReadInvolved(m) = m /\ m.involved.cfg \in m.cfgs
    BY <1>1, <2>1, Reading
  <2>3. ASSUME NEW c, list \in Seq({c}), Clean(m, c) = m
        PROVE  memory' = m
    <3> DEFINE S == {m}
               K == {c}
    <3>1. m \in S /\ list \in Seq(K) /\ \A x \in S, d \in K : Clean(x, d) \in S
      BY <2>3
    <3> HIDE DEF S, K
    <3>2. Cleaned(m, list) \in S
      BY <3>1, CleanedStays
    <3> QED
      BY <1>2, <3>2 DEF S
  <2>4. CASE g = "DOMINANCE"
    <3> DEFINE c == [do |-> "visit_involved", on |-> 0]
    <3>1. list \in Seq({c})
      BY <1>2, <2>4 DEF Lists
    <3>2. Clean(m, c) = m
      BY <2>2, CleanFacts
    <3> QED
      BY <1>5, <2>3, <3>1, <3>2
  <2>5. CASE g = "CLP"
    <3> DEFINE c == [do |-> "visit_cfg", on |-> m.involved.cfg]
    <3>1. list \in Seq({c})
      BY <1>2, <2>5 DEF Lists
    <3>2. Clean(m, c) = m
      BY <2>2, CleanFacts
    <3> QED
      BY <1>5, <2>3, <3>1, <3>2
  <2> QED
    BY <1>10, <2>4, <2>5
<1>11. CASE g \notin {"CFG_INFO", "COLLECTED_CFG", "VIRTUALIZED_CFG", "DOMINANCE", "CLP"}
  <2>1. list = <<>>
    BY <1>2, <1>11 DEF Lists
  <2> QED
    BY <1>6, <2>1
<1> QED
  BY <1>7, <1>8, <1>9, <1>10, <1>11

LEMMA DroppingStep ==
    ASSUME NEW P, SharesGraph(P), LInv(P), NEW g \in Features, Dropping(g)
    PROVE  Owned' /\ Graph' /\ Stage' /\ Hooks'
<1>1. /\ TypeOK /\ Bases /\ Runs /\ Serves /\ Rooted(P) /\ Stack(P)
      /\ Owned /\ Graph /\ Stage /\ Hooks
      /\ {"CFG_INFO", "COLLECTED_CFG", "VIRTUALIZED_CFG"} \subseteq Features
  BY DEF LInv, IInv, SharesGraph
<1>2. /\ g \in doomed /\ g \in provided /\ \A h \in provided : g \notin needs[h]
      /\ provided' = provided \ {g} /\ doomed' = doomed \ {g}
      /\ needs' = [needs EXCEPT ![g] = {}]
      /\ UNCHANGED <<calls, closing>>
      /\ cleaners' = [cleaners EXCEPT ![g] = <<>>] /\ about' = [about EXCEPT ![g] = 0]
  BY <1>1 DEF Dropping, Drop, Bases, tool
<1>3. /\ memory' \in Memory /\ memory'.fault = "none"
      /\ memory'.made = memory.made /\ memory'.built = memory.built
      /\ memory'.original = memory.original /\ memory'.count = memory.count
      /\ \/ memory'.cfgs = memory.cfgs
         \/ /\ g = "CFG_INFO" /\ closing
            /\ memory'.cfgs = memory.cfgs \ {memory.original}
      /\ memory'.entry = memory.entry \/ (closing /\ memory'.entry = 0)
      /\ \/ /\ memory'.involved = memory.involved
            /\ memory'.collections = memory.collections
         \/ /\ g = "COLLECTED_CFG" /\ memory'.involved \in {memory.involved, Null}
            /\ memory'.collections \subseteq memory.collections
  BY Dropped
<1>4. g = "COLLECTED_CFG" => Analyses \cap provided = {}
  BY <1>1, <1>2, NoResults
<1>5. ~Idle => ~closing /\ Top.at \in {"before", "after"}
  BY <1>1, <1>2 DEF Runs, Serves
<1>6. (Idle' <=> Idle) /\ Top' = Top /\ (Busy' <=> Busy)
  BY <1>2 DEF Idle, Top, Busy
<1>7. CFGs' = CFGs /\ Collections' = Collections
  BY <1>3 DEF CFGs, Collections
<1>8. \A c : (Done(c) => Done(c)') /\ History(memory', c) = History(memory, c)
  BY <1>2, <1>3 DEF Done, History
<1>9. Owned'
  <2>1. /\ memory'.involved \in Collections \union {Null}
        /\ {memory'.entry, memory'.original, memory'.built} \subseteq CFGs \union {0}
        /\ memory'.cfgs \subseteq CFGs /\ memory'.collections \subseteq Collections
    BY <1>1, <1>3 DEF Owned
  <2>2. /\ CFGs \ {memory.original} \subseteq memory'.cfgs
        /\ \/ memory.original = 0 \/ memory.original \in memory'.cfgs
           \/ closing' /\ "CFG_INFO" \notin provided'
        /\ "CFG_INFO" \in provided' => memory.original # 0
    BY <1>1, <1>2, <1>3 DEF Owned
  <2> QED
    BY <1>3, <1>7, <2>1, <2>2 DEF Owned
<1>10. Graph'
  <2>1. ASSUME "COLLECTED_CFG" \in provided'
        PROVE  /\ memory'.involved \in memory'.collections
               /\ memory'.involved.cfg = memory'.original =>
                        "CFG_INFO" \in needs'["COLLECTED_CFG"]
               /\ Done(memory.involved.cfg)' /\ memory'.involved = memory.involved
               /\ \/ memory'.entry = memory'.involved.cfg \/ Busy'
                  \/ closing' /\ memory'.entry = 0
    <3>1. "COLLECTED_CFG" \in provided /\ g # "COLLECTED_CFG"
      BY <1>2, <2>1
    <3>2. needs'["COLLECTED_CFG"] = needs["COLLECTED_CFG"]
      BY <1>1, <1>2, <3>1 DEF TypeOK
    <3>3. memory'.involved = memory.involved /\ memory'.collections = memory.collections
      BY <1>3, <3>1
    <3>4. Done(memory.involved.cfg)
      BY <1>1, <3>1 DEF Graph
    <3> QED
      BY <1>1, <1>2, <1>3, <1>6, <1>8, <3>1, <3>2, <3>3, <3>4 DEF Graph
  <2>2. about' \in [Features -> CFGs \union {0}]
    BY <1>1, <1>2 DEF Graph
  <2>3. ASSUME NEW f \in Analyses \cap provided'
        PROVE  about'[f] = memory'.involved.cfg
    <3>1. f \in Analyses \cap provided /\ f # g /\ g # "COLLECTED_CFG"
      BY <1>2, <1>4
    <3>2. about'[f] = about[f]
      BY <1>1, <1>2, <3>1 DEF Graph
    <3>3. memory'.involved = memory.involved
      BY <1>3, <3>1
    <3> QED
      BY <1>1, <3>1, <3>2, <3>3 DEF Graph
  <2>4. ~closing' /\ memory'.entry = 0 => memory'.involved = Null
    BY <1>1, <1>2, <1>3 DEF Graph
  <2>5. ASSUME ~closing', ~Busy', "COLLECTED_CFG" \notin provided'
        PROVE  Done(memory.entry)' /\ memory'.entry = memory.entry
    <3>1. ~closing /\ ~Busy /\ memory'.entry = memory.entry
      BY <1>2, <1>3, <1>6, <2>5
    <3>2. CASE "COLLECTED_CFG" \notin provided
      <4>1. Done(memory.entry)
        BY <1>1, <3>1, <3>2 DEF Graph
      <4> QED
        BY <1>8, <3>1, <4>1
    <3>3. CASE "COLLECTED_CFG" \in provided
      <4>1. memory.entry = memory.involved.cfg /\ Done(memory.involved.cfg)
        BY <1>1, <3>1, <3>3 DEF Graph
      <4> QED
        BY <1>8, <3>1, <4>1
    <3> QED
      BY <3>2, <3>3
  <2> QED
    BY <1>7, <2>1, <2>2, <2>3, <2>4, <2>5 DEF Graph
<1>11. Stage'
  <2>1. CASE Idle
    BY <1>6, <2>1, EarlyStage
  <2>2. CASE ~Idle /\ Top.at = "before"
    BY <1>6, <2>2, EarlyStage
  <2>3. CASE ~Idle /\ Top.at = "after"
    <3>1. ~closing /\ memory'.entry = memory.entry
      BY <1>3, <1>5, <2>3
    <3>2. Top.proc = "CFGBuilder" => memory'.original # 0
      BY <1>1, <1>3, <2>3 DEF Stage
    <3>3. ASSUME Top.proc \in Builders
          PROVE  /\ "COLLECTED_CFG" \in provided' =>
                        "COLLECTED_CFG" \in ToSet(Top.todo) \union doomed'
                 /\ memory'.built \in CFGs' \ {memory'.original} /\ memory'.entry # 0
                 /\ Done(memory.built)' /\ Top.proc \in History(memory', memory'.built)
      BY <1>1, <1>2, <1>3, <1>7, <1>8, <2>3, <3>1, <3>3 DEF Stage
    <3>4. ASSUME Top.proc = "CFGCollector"
          PROVE  Made'
      <4>1. Made
        BY <1>1, <2>3, <3>4 DEF Stage
      <4>2. Fits(P, Top)
        BY <1>1, <2>3, TopFacts DEF Stack
      <4>3. g # "COLLECTED_CFG"
        BY <1>2, <2>3, <3>4, <4>2 DEF Fits
      <4>4. memory'.involved = memory.involved /\ memory'.collections = memory.collections
        BY <1>3, <4>3
      <4> QED
        BY <1>8, <3>1, <4>1, <4>4 DEF Made
    <3> QED
      BY <1>3, <1>6, <2>3, <3>2, <3>3, <3>4 DEF Stage
  <2> QED
    BY <1>5, <2>1, <2>2, <2>3
<1>12. Hooks'
  <2>1. ASSUME NEW f \in Features
        PROVE  cleaners'[f] \in Lists(f)' /\ (cleaners'[f] # <<>> => f \in provided')
    <3>1. CASE f = g
      <4>1. cleaners'[f] = <<>>
        BY <1>1, <1>2, <3>1 DEF Hooks
      <4>2. <<>> \in Lists(f)'
        BY DEF Lists
      <4> QED
        BY <4>1, <4>2
    <3>2. CASE f # g
      <4>1. /\ cleaners'[f] = cleaners[f] /\ cleaners[f] \in Lists(f)
            /\ (cleaners[f] # <<>> => f \in provided)
        BY <1>1, <1>2, <3>2 DEF Hooks
      <4>2. CASE g # "COLLECTED_CFG"
        <5>1. Lists(f)' = Lists(f)
          BY <1>3, <4>2 DEF Lists
        <5> QED
          BY <1>2, <3>2, <4>1, <5>1
      <4>3. CASE g = "COLLECTED_CFG" /\ f = "CLP"
        <5>1. cleaners[f] = <<>>
          BY <1>4, <4>1, <4>3 DEF Analyses
        <5>2. <<>> \in Lists(f)'
          BY DEF Lists
        <5> QED
          BY <4>1, <5>1, <5>2
      <4>4. CASE g = "COLLECTED_CFG" /\ f # "CLP"
        <5>1. Lists(f)' = Lists(f)
          BY <1>3, <3>2, <4>4 DEF Lists
        <5> QED
          BY <1>2, <3>2, <4>1, <5>1
      <4> QED
        BY <4>2, <4>3, <4>4
    <3> QED
      BY <3>1, <3>2
  <2>2. cleaners' = [f \in Features |-> cleaners'[f]]
    BY <1>1, <1>2 DEF Hooks
  <2> QED
    BY <2>1, <2>2 DEF Hooks
<1> QED
  BY <1>9, <1>10, <1>11, <1>12

-----------------------------------------------------------------------------

\* Each step of the graph's life is one of process() or of a tool.
LEMMA LifetimeSteps == [LifetimeNext]_<<vars, lifetime>> => [Next]_vars
BY DEF LifetimeNext, Asking, Proceeding, Working, Failing, CleaningUp, Providing,
   Finishing, Dropping, Next, Run

LEMMA LifetimeInitial ==
    ASSUME NEW P, SharesGraph(P), LifetimeInit
    PROVE  LInv(P)
<1>1. IInv
  BY InitialState DEF LifetimeInit
<1>2. /\ provided = {} /\ doomed = {} /\ Idle /\ Len(calls) = 0 /\ ~closing
      /\ needs = [f \in Features |-> {}]
  BY EmptySeq DEF LifetimeInit, Init, Idle
<1>3. Stack(P)
  BY <1>2 DEF Stack
<1>4. Rooted(P)
  BY <1>2 DEF Rooted, SharesGraph
<1>5. /\ memory.involved = Null /\ memory.entry = 0 /\ memory.original = 0
      /\ memory.built = 0 /\ memory.made = <<>> /\ memory.cfgs = {} /\ memory.count = 0
      /\ memory.collections = {} /\ memory.fault = "none" /\ memory \in Memory
  <2>1. Null \in [id : Nat, cfg : Nat] /\ <<>> \in Seq(SUBSET Processors)
    BY DEF Null
  <2> QED
    BY <2>1 DEF LifetimeInit, Memory
<1>6. CFGs = {}
  BY <1>5, EmptySeq DEF CFGs
<1>7. Owned
  BY <1>2, <1>5, <1>6 DEF Owned
<1>8. Graph
  BY <1>2, <1>5, <1>6 DEF Graph, Done, LifetimeInit
<1>9. Stage
  BY <1>2 DEF Stage
<1>10. Hooks
  <2>1. \A f : <<>> \in Lists(f)
    BY DEF Lists
  <2> QED
    BY <2>1 DEF Hooks, LifetimeInit
<1> QED
  BY <1>1, <1>3, <1>4, <1>7, <1>8, <1>9, <1>10 DEF LInv

LEMMA LifetimeStep ==
    ASSUME NEW P, SharesGraph(P), LInv(P), [LifetimeNext]_<<vars, lifetime>>
    PROVE  LInv(P)'
<1>1. /\ TypeOK /\ Bases /\ Runs /\ Serves /\ IInv /\ Stack(P) /\ Rooted(P)
      /\ [Next]_vars
  BY LifetimeSteps DEF LInv, IInv
<1>2. TypeOK' /\ Bases' /\ Runs' /\ Serves'
  BY <1>1, TypeStep, BasesStep, RunsStep, ServesStep
<1>3. Stack(P)' /\ Rooted(P)'
  BY <1>1, StackStep, RootedStep
<1>4. Owned' /\ Graph' /\ Stage' /\ Hooks'
  <2>1. CASE Working
    BY <2>1, WorkingStep
  <2>2. CASE Failing
    BY <2>2, FailingStep
  <2>3. CASE CleaningUp
    BY <2>3, CleaningUpStep
  <2>4. CASE Providing
    BY <2>4, ProvidingStep
  <2>5. CASE Finishing
    BY <2>5, FinishingStep
  <2>6. ASSUME NEW g \in Features, Dropping(g)
        PROVE  Owned' /\ Graph' /\ Stage' /\ Hooks'
    BY <2>6, DroppingStep
  <2>7. CASE /\ \/ InvalidateNext \/ StartRequiring \/ RequireNext \/ GiveUp \/ Check
                \/ Spread
                \/ \E f \in Features : CloseOne(f)
             /\ UNCHANGED lifetime
    BY <2>7, QuietSteps
  <2>8. CASE Asking
    BY <2>8, QuietSteps DEF Asking
  <2>9. CASE UNCHANGED <<vars, lifetime>>
    BY <2>9, QuietSteps
  <2> QED
    BY <2>1, <2>2, <2>3, <2>4, <2>5, <2>6, <2>7, <2>8, <2>9 DEF LifetimeNext, Proceeding
<1> QED
  BY <1>2, <1>3, <1>4 DEF LInv, IInv

\* Processors that share the graph as they declare it keep, whatever a tool
\* asks, the invariant on what is allocated, on where each run has got to and
\* on the cleaners that are left.
THEOREM GraphInvariance ==
    ASSUME NEW P, SharesGraph(P)
    PROVE  LifetimeSpec => []LInv(P)
<1>1. LifetimeInit => LInv(P)
  BY LifetimeInitial
<1>2. LInv(P) /\ [LifetimeNext]_<<vars, lifetime>> => LInv(P)'
  BY LifetimeStep
<1> QED
  BY <1>1, <1>2, PTL DEF LifetimeSpec

\* The two properties, the CFGs, the collections and the cleaners keep their
\* types, and a cleaner is only on a feature that is provided.
THEOREM LifetimeTypes ==
    ASSUME NEW P, SharesGraph(P)
    PROVE  LifetimeSpec => []LifetimeTypeOK
<1>1. LInv(P) => LifetimeTypeOK
  BY DEF LInv, IInv, LifetimeTypeOK, Owned, Graph, Hooks, Memory
<1>2. LifetimeSpec => []LInv(P)
  BY GraphInvariance
<1> QED
  BY <1>1, <1>2, PTL

\* No processor or cleaner that goes through the graph finds that there is none.
THEOREM GraphIsThere ==
    ASSUME NEW P, SharesGraph(P)
    PROVE  LifetimeSpec => []AssertionsHold
<1>1. LInv(P) => AssertionsHold
  BY DEF LInv, Owned, AssertionsHold
<1>2. LifetimeSpec => []LInv(P)
  BY GraphInvariance
<1> QED
  BY <1>1, <1>2, PTL

\* Nothing that a cleaner freed is gone through afterwards, in whatever order
\* the features of the graph go.
THEOREM FreedIsNotRead ==
    ASSUME NEW P, SharesGraph(P)
    PROVE  LifetimeSpec => []NothingFreedRead
<1>1. LInv(P) => NothingFreedRead
  BY DEF LInv, Owned, NothingFreedRead
<1>2. LifetimeSpec => []LInv(P)
  BY GraphInvariance
<1> QED
  BY <1>1, <1>2, PTL

\* No two cleaners free the same CFG or the same collection.
THEOREM FreedAtMostOnce ==
    ASSUME NEW P, SharesGraph(P)
    PROVE  LifetimeSpec => []FreedOnce
<1>1. LInv(P) => FreedOnce
  BY DEF LInv, Owned, FreedOnce
<1>2. LifetimeSpec => []LInv(P)
  BY GraphInvariance
<1> QED
  BY <1>1, <1>2, PTL

\* What the workspace provides on the graph was found on the graph it provides.
THEOREM ResultsAreCurrent ==
    ASSUME NEW P, SharesGraph(P)
    PROVE  LifetimeSpec => []ResultsCurrent
<1>1. LInv(P) => ResultsCurrent
  BY DEF LInv, Graph, ResultsCurrent
<1>2. LifetimeSpec => []LInv(P)
  BY GraphInvariance
<1> QED
  BY <1>1, <1>2, PTL

\* A transformation that the workspace provides was done on the graph it
\* provides, even when others replaced that graph since.
THEOREM TransformsAreKept ==
    ASSUME NEW P, SharesGraph(P)
    PROVE  LifetimeSpec => []TransformsKept
<1>1. LInv(P) => TransformsKept
  BY DEF LInv, Graph, Done, TransformsKept, Settled
<1>2. LifetimeSpec => []LInv(P)
  BY GraphInvariance
<1> QED
  BY <1>1, <1>2, PTL

\* The entry is the first CFG of the collection in use, and this is allocated,
\* whenever a processor is about to read them.
THEOREM EntryIsCollected ==
    ASSUME NEW P, SharesGraph(P)
    PROVE  LifetimeSpec => []EntryCollected
<1>1. LInv(P) => EntryCollected
  <2> SUFFICES ASSUME LInv(P), Settled
               PROVE  /\ memory.involved \in memory.collections
                      /\ memory.entry \in {0, memory.involved.cfg}
    BY DEF EntryCollected
  <2>1. ~Busy /\ "COLLECTED_CFG" \in provided
    BY DEF Settled, Busy, Ready
  <2> QED
    BY <2>1 DEF LInv, Graph
<1>2. LifetimeSpec => []LInv(P)
  BY GraphInvariance
<1> QED
  BY <1>1, <1>2, PTL
=============================================================================
