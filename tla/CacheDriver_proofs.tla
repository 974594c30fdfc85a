-------------------------- MODULE CacheDriver_proofs --------------------------
(***************************************************************************)
(* Proofs about CacheDriver, for any number of ways, sets and tags, for    *)
(* both policies and whatever the array of tags holds at first.  The ways  *)
(* that hold a tag after an access are mapped, each to another, to ways    *)
(* that held it before, unless the access has just loaded the tag: then    *)
(* the loop of access() had gone through all ways without finding it.      *)
(*                                                                         *)
(* Unless the policy is FIFO, the front of a set is the list of its latest *)
(* tags: an access moves a tag to the front of both, from the same place   *)
(* if the list has it, and otherwise from behind what the list has.        *)
(***************************************************************************)
EXTENDS CacheDriver, CacheSet_proofs, FiniteSetTheorems

WaysOf(line, tag) == {i \in Ways : line[i] = tag}

\* The number of copies is a number.
LEMMA CopiesType ==
    ASSUME NEW line, NEW tag
    PROVE  IsFiniteSet(WaysOf(line, tag)) /\ Copies(line, tag) \in Nat
<1>1. IsFiniteSet(Ways)
  BY AAssumption, FS_Interval DEF Ways
<1>2. WaysOf(line, tag) \in SUBSET Ways
  BY DEF WaysOf
<1>3. IsFiniteSet(WaysOf(line, tag))
  BY <1>1, <1>2, FS_Subset
<1> QED
  BY <1>3, FS_CardinalityType DEF Copies, WaysOf

\* Where each copy comes from a copy of its own, there are no more of them.
LEMMA CopiesFrom ==
    ASSUME NEW old, NEW new, NEW tag,
           NEW from \in Injection(WaysOf(new, tag), WaysOf(old, tag))
    PROVE  Copies(new, tag) <= Copies(old, tag)
<1>1. Cardinality(WaysOf(new, tag)) <= Cardinality(WaysOf(old, tag))
  BY CopiesType, FS_Injection
<1> QED
  BY <1>1 DEF Copies, WaysOf

\* A tag that is only in one way has at most one copy.
LEMMA CopiesOfOne ==
    ASSUME NEW line, NEW tag, NEW k, \A i \in Ways : line[i] = tag => i = k
    PROVE  Copies(line, tag) <= 1
<1>1. WaysOf(line, tag) \in SUBSET {k}
  BY DEF WaysOf
<1>2. IsFiniteSet({k}) /\ Cardinality({k}) = 1
  BY FS_Singleton
<1>3. Cardinality(WaysOf(line, tag)) <= 1
  BY <1>1, <1>2, FS_Subset
<1> QED
  BY <1>3 DEF Copies, WaysOf

\* LRUCacheDriver::touch() only moves tags.
LEMMA TouchCopies ==
    ASSUME NEW line \in Lines, NEW p \in Ways, NEW tag
    PROVE  Copies(LRUTouch(p, line), tag) <= Copies(line, tag)
<1> DEFINE new == LRUTouch(p, line)
           from == [i \in WaysOf(new, tag) |->
                       IF i = 0 THEN p ELSE IF i <= p THEN i - 1 ELSE i]
<1>1. \A i \in Ways : new[i] = line[IF i = 0 THEN p ELSE IF i <= p THEN i - 1 ELSE i]
  BY AAssumption DEF LRUTouch, Ways
<1>2. \A i \in Ways : (IF i = 0 THEN p ELSE IF i <= p THEN i - 1 ELSE i) \in Ways
  BY AAssumption DEF Ways
<1> HIDE DEF new
<1>3. from \in [WaysOf(new, tag) -> WaysOf(line, tag)]
  BY <1>1, <1>2 DEF WaysOf
<1>4. \A i, j \in WaysOf(new, tag) : from[i] = from[j] => i = j
  BY AAssumption DEF WaysOf, Ways
<1>5. from \in Injection(WaysOf(new, tag), WaysOf(line, tag))
  BY <1>3, <1>4 DEF Injection, IsInjective
<1> QED
  BY <1>5, CopiesFrom DEF new

\* LRUCacheDriver::replace() moves the tags and loses the last.
LEMMA ReplaceCopies ==
    ASSUME NEW line \in Lines, NEW loaded, ~ Holds(line, loaded), NEW tag
    PROVE  LET new == LRUReplace(loaded, line)
           IN  Copies(new, tag) > 1 => Copies(new, tag) <= Copies(line, tag)
<1> DEFINE new == LRUReplace(loaded, line)
           from == [i \in WaysOf(new, tag) |-> i - 1]
<1>1. \A i \in Ways : new[i] = IF i = 0 THEN loaded ELSE line[i - 1]
  BY DEF LRUReplace
<1>2. \A i \in Ways : i # 0 => i - 1 \in Ways
  BY AAssumption DEF Ways
<1> HIDE DEF new
<1>3. CASE tag = loaded
  <2>1. \A i \in Ways : new[i] = tag => i = 0
    BY <1>1, <1>2, <1>3 DEF Holds
  <2>2. Copies(new, tag) <= 1 /\ Copies(new, tag) \in Nat
    BY <2>1, CopiesOfOne, CopiesType
  <2> QED
    BY <2>2 DEF new
<1>4. CASE tag # loaded
  <2>1. from \in [WaysOf(new, tag) -> WaysOf(line, tag)]
    BY <1>1, <1>2, <1>4 DEF WaysOf
  <2>2. \A i, j \in WaysOf(new, tag) : from[i] = from[j] => i = j
    BY AAssumption DEF WaysOf, Ways
  <2>3. from \in Injection(WaysOf(new, tag), WaysOf(line, tag))
    BY <2>1, <2>2 DEF Injection, IsInjective
  <2> QED
    BY <2>3, CopiesFrom DEF new
<1> QED
  BY <1>3, <1>4

\* FIFOCacheDriver::replace() overwrites one way, whichever it is.
LEMMA LoadCopies ==
    ASSUME NEW line \in Lines, NEW loaded, ~ Holds(line, loaded), NEW k, NEW tag
    PROVE  LET new == [line EXCEPT ![k] = loaded]
           IN  Copies(new, tag) > 1 => Copies(new, tag) <= Copies(line, tag)
<1> DEFINE new == [line EXCEPT ![k] = loaded]
           from == [i \in WaysOf(new, tag) |-> i]
<1>1. \A i \in Ways : new[i] = IF i = k THEN loaded ELSE line[i]
  BY DEF Lines
<1> HIDE DEF new
<1>2. CASE tag = loaded
  <2>1. \A i \in Ways : new[i] = tag => i = k
    BY <1>1, <1>2 DEF Holds
  <2>2. Copies(new, tag) <= 1 /\ Copies(new, tag) \in Nat
    BY <2>1, CopiesOfOne, CopiesType
  <2> QED
    BY <2>2 DEF new
<1>3. CASE tag # loaded
  <2>1. from \in [WaysOf(new, tag) -> WaysOf(line, tag)]
    BY <1>1, <1>3 DEF WaysOf
  <2>2. from \in Injection(WaysOf(new, tag), WaysOf(line, tag))
    BY <2>1 DEF Injection, IsInjective
  <2> QED
    BY <2>2, CopiesFrom DEF new
<1> QED
  BY <1>2, <1>3

-----------------------------------------------------------------------------
(* The sets hold tags.                                                     *)
LinesType == lines \in [Used -> Lines]

\* What one access does to a set.
LEMMA AccessCopies ==
    ASSUME LinesType, NEW s \in Used, NEW loaded \in Tags,
           Hit(s, loaded) \/ MissLRU(s, loaded) \/ MissFIFO(s, loaded)
    PROVE  /\ LinesType'
           /\ \A r \in Used, tag \in Tags :
                  Copies(lines'[r], tag) > 1 =>
                      Copies(lines'[r], tag) <= Copies(lines[r], tag)
<1>1. lines[s] \in Lines
  BY DEF LinesType
<1>2. PICK new \in Lines :
          /\ lines' = [lines EXCEPT ![s] = new]
          /\ \A tag \in Tags : Copies(new, tag) > 1 =>
                                   Copies(new, tag) <= Copies(lines[s], tag)
  <2>1. CASE Hit(s, loaded)
    <3> DEFINE touched == LRUTouch(Lookup(lines[s], loaded), lines[s])
    <3>1. Holds(lines[s], loaded)
      BY <2>1 DEF Hit
    <3>2. Lookup(lines[s], loaded) \in Ways
      BY <3>1, LookupFirst
    <3>3. touched \in Lines
      BY <1>1, <3>1, AccessFront DEF LRUAccess
    <3>4. \A tag \in Tags : Copies(touched, tag) <= Copies(lines[s], tag)
      BY <1>1, <3>2, TouchCopies
    <3>5. \A tag \in Tags : Copies(lines[s], tag) <= Copies(lines[s], tag)
      BY CopiesType
    <3>6. lines' = [lines EXCEPT ![s] = IF Driver = "LRU" THEN touched ELSE lines[s]]
      BY <2>1 DEF Hit, LinesType
    <3> HIDE DEF touched
    <3> QED
      BY <1>1, <3>3, <3>4, <3>5, <3>6
  <2>2. CASE MissLRU(s, loaded)
    <3> DEFINE new == LRUReplace(loaded, lines[s])
    <3>1. ~ Holds(lines[s], loaded)
      BY <2>2 DEF MissLRU
    <3>2. new \in Lines
      BY <1>1, <3>1, AccessFront DEF LRUAccess
    <3>3. \A tag \in Tags : Copies(new, tag) > 1 =>
                                Copies(new, tag) <= Copies(lines[s], tag)
      BY <1>1, <3>1, ReplaceCopies
    <3>4. lines' = [lines EXCEPT ![s] = new]
      BY <2>2 DEF MissLRU, LinesType
    <3> HIDE DEF new
    <3> QED
      BY <3>2, <3>3, <3>4
  <2>3. CASE MissFIFO(s, loaded)
    <3> DEFINE new == [lines[s] EXCEPT ![Slot(s)] = loaded]
    <3>1. ~ Holds(lines[s], loaded)
      BY <2>3 DEF MissFIFO
    <3>2. new \in Lines
      BY <1>1 DEF Lines
    <3>3. \A tag \in Tags : Copies(new, tag) > 1 =>
                                Copies(new, tag) <= Copies(lines[s], tag)
      BY <1>1, <3>1, LoadCopies
    <3>4. lines' = [lines EXCEPT ![s] = new]
      BY <2>3 DEF MissFIFO, LinesType
    <3> HIDE DEF new
    <3> QED
      BY <3>2, <3>3, <3>4
  <2> QED
    BY <2>1, <2>2, <2>3
<1>3. LinesType'
  BY <1>2 DEF LinesType
<1>4. ASSUME NEW r \in Used, NEW tag \in Tags, Copies(lines'[r], tag) > 1
      PROVE  Copies(lines'[r], tag) <= Copies(lines[r], tag)
  <2>1. CASE r = s
    BY <1>2, <1>4, <2>1 DEF LinesType
  <2>2. CASE r # s
    <3>1. lines'[r] = lines[r]
      BY <1>2, <2>2 DEF LinesType
    <3> QED
      BY <3>1, CopiesType
  <2> QED
    BY <2>1, <2>2
<1> QED
  BY <1>3, <1>4

\* No access() makes a set hold a tag twice that it did not hold twice,
\* though the array it starts with may hold anything.
THEOREM NoAccessDuplicates == Spec => NoNewCopy
<1>1. Init => LinesType
  BY DEF Init, LinesType
<1>2. LinesType /\ [Next]_vars => LinesType'
  BY AccessCopies DEF Next, vars, LinesType
<1>3. LinesType /\ [Next]_vars =>
          [\A s \in Used, tag \in Tags :
              Copies(lines'[s], tag) > 1 =>
                  Copies(lines'[s], tag) <= Copies(lines[s], tag)]_vars
  BY AccessCopies DEF Next
<1> QED
  BY <1>1, <1>2, <1>3, PTL DEF Spec, NoNewCopy

-----------------------------------------------------------------------------
(* No tag is twice in a list, which has at most as many as there are ways. *)
Recents == {r \in Seq(Tags) : /\ Len(r) <= A
                              /\ \A i, j \in 1 .. Len(r) : r[i] = r[j] => i = j}

(* The front of the line is the list.                                      *)
InFront(r, line) == \A i \in 1 .. Len(r) : line[i - 1] = r[i]

\* What the latest tags are after an access to a tag that is in the list...
LEMMA LatestOld ==
    ASSUME NEW r \in Recents, NEW k \in 1 .. Len(r)
    PROVE  LET new == Latest(r[k], r)
           IN  /\ new \in Seq(Tags) /\ Len(new) = Len(r)
               /\ \A i \in 1 .. Len(r) : new[i] = IF i = 1 THEN r[k]
                                                  ELSE IF i <= k THEN r[i - 1] ELSE r[i]
<1> DEFINE tag == r[k]
           a == SubSeq(r, 1, k - 1)
           c == SubSeq(r, k + 1, Len(r))
           w == a \o c
           all == <<tag>> \o w
<1>1. r \in Seq(Tags) /\ Len(r) \in Nat /\ Len(r) <= A /\ A \in Nat
  BY AAssumption DEF Recents
<1>2. Without(tag, r) = w
  <2>1. ~ \A i \in 1 .. Len(r) : r[i] # tag
    OBVIOUS
  <2>2. (CHOOSE i \in 1 .. Len(r) : r[i] = tag) = k
    BY DEF Recents
  <2> QED
    BY <2>1, <2>2 DEF Without
<1>3. tag \in Tags
  BY <1>1
<1>4. /\ a \in Seq(Tags) /\ Len(a) = k - 1
      /\ \A i \in 1 .. k - 1 : a[i] = r[i]
  BY <1>1
<1>5. /\ c \in Seq(Tags) /\ Len(c) = Len(r) - k
      /\ \A i \in 1 .. Len(r) - k : c[i] = r[k + i]
  BY <1>1
<1> HIDE DEF a, c, tag
<1>6. /\ w \in Seq(Tags) /\ Len(w) = Len(r) - 1
      /\ \A i \in 1 .. Len(r) - 1 : w[i] = IF i < k THEN r[i] ELSE r[i + 1]
  <2>1. w \in Seq(Tags) /\ Len(w) = Len(r) - 1
    <3>1. a \in Seq(Tags) /\ c \in Seq(Tags)
      BY <1>4, <1>5
    <3>2. w \in Seq(Tags) /\ Len(w) = Len(a) + Len(c)
      BY <3>1
    <3> HIDE DEF w
    <3> QED
      BY <1>1, <1>4, <1>5, <3>2
  <2>2. ASSUME NEW i \in 1 .. Len(r) - 1
        PROVE  w[i] = IF i < k THEN r[i] ELSE r[i + 1]
    <3>1. CASE i < k
      BY <1>1, <1>4, <1>5, <3>1
    <3>2. CASE ~ (i < k)
      <4>1. w[i] = c[i - (k - 1)]
        BY <1>1, <1>4, <1>5, <3>2
      <4>2. i - (k - 1) \in 1 .. Len(r) - k /\ k + (i - (k - 1)) = i + 1
        BY <1>1, <3>2
      <4> QED
        BY <1>5, <3>2, <4>1, <4>2
    <3> QED
      BY <3>1, <3>2
  <2> QED
    BY <2>1, <2>2
<1> HIDE DEF w
<1>7. /\ all \in Seq(Tags) /\ Len(all) = Len(r)
      /\ all[1] = tag /\ \A i \in 2 .. Len(r) : all[i] = w[i - 1]
  BY <1>1, <1>3, <1>6
<1>8. Latest(tag, r) = SubSeq(all, 1, IF Len(all) < A THEN Len(all) ELSE A)
  BY <1>2 DEF Latest
<1> HIDE DEF all
<1>9. /\ Latest(tag, r) \in Seq(Tags) /\ Len(Latest(tag, r)) = Len(r)
      /\ \A i \in 1 .. Len(r) : Latest(tag, r)[i] = all[i]
  <2>1. (IF Len(all) < A THEN Len(all) ELSE A) = Len(all)
    BY <1>1, <1>7
  <2> QED
    BY <1>1, <1>7, <1>8, <2>1
<1>10. ASSUME NEW i \in 1 .. Len(r)
       PROVE  all[i] = IF i = 1 THEN tag ELSE IF i <= k THEN r[i - 1] ELSE r[i]
  <2>1. CASE i = 1
    BY <1>7, <2>1
  <2>2. CASE i # 1
    <3>1. i \in 2 .. Len(r) /\ i - 1 \in 1 .. Len(r) - 1 /\ (i - 1) + 1 = i
      BY <1>1, <2>2
    <3>2. all[i] = IF i - 1 < k THEN r[i - 1] ELSE r[i]
      BY <1>6, <1>7, <3>1
    <3> QED
      BY <1>1, <2>2, <3>1, <3>2
  <2> QED
    BY <2>1, <2>2
<1> QED
  BY <1>9, <1>10 DEF tag

\* ... and to one that is not.
LEMMA LatestNew ==
    ASSUME NEW r \in Recents, NEW tag \in Tags, \A i \in 1 .. Len(r) : r[i] # tag
    PROVE  LET new == Latest(tag, r)
           IN  /\ new \in Seq(Tags)
               /\ Len(new) = IF Len(r) < A THEN Len(r) + 1 ELSE A
               /\ \A i \in 1 .. Len(new) : new[i] = IF i = 1 THEN tag ELSE r[i - 1]
<1> DEFINE all == <<tag>> \o r
<1>1. r \in Seq(Tags) /\ Len(r) \in Nat /\ Len(r) <= A /\ A \in Nat \ {0}
  BY AAssumption DEF Recents
<1>2. /\ all \in Seq(Tags) /\ Len(all) = Len(r) + 1
      /\ all[1] = tag /\ \A i \in 2 .. Len(r) + 1 : all[i] = r[i - 1]
  BY <1>1
<1>3. Latest(tag, r) = SubSeq(all, 1, IF Len(all) < A THEN Len(all) ELSE A)
  BY DEF Latest, Without
<1> HIDE DEF all
<1> DEFINE n == IF Len(r) < A THEN Len(r) + 1 ELSE A
<1>4. (IF Len(all) < A THEN Len(all) ELSE A) = n
  BY <1>1, <1>2
<1>5. n \in 1 .. Len(r) + 1
  BY <1>1
<1> HIDE DEF n
<1>6. /\ Latest(tag, r) \in Seq(Tags) /\ Len(Latest(tag, r)) = n
      /\ \A i \in 1 .. n : Latest(tag, r)[i] = all[i]
  BY <1>1, <1>2, <1>3, <1>4, <1>5
<1>7. ASSUME NEW i \in 1 .. n
      PROVE  all[i] = IF i = 1 THEN tag ELSE r[i - 1]
  <2>1. i # 1 => i \in 2 .. Len(r) + 1
    BY <1>1, <1>5
  <2> QED
    BY <1>2, <2>1
<1> QED
  BY <1>6, <1>7 DEF n

\* The list stays without duplicates, and short.
LEMMA LatestType ==
    ASSUME NEW r \in Recents, NEW tag \in Tags
    PROVE  Latest(tag, r) \in Recents
<1>1. Len(r) \in Nat /\ Len(r) <= A /\ A \in Nat \ {0}
      /\ \A i, j \in 1 .. Len(r) : r[i] = r[j] => i = j
  BY AAssumption DEF Recents
<1>2. CASE \E k \in 1 .. Len(r) : r[k] = tag
  <2>1. PICK k \in 1 .. Len(r) : r[k] = tag
    BY <1>2
  <2> DEFINE new == Latest(tag, r)
             from(i) == IF i = 1 THEN k ELSE IF i <= k THEN i - 1 ELSE i
  <2>2. /\ new \in Seq(Tags) /\ Len(new) = Len(r)
        /\ \A i \in 1 .. Len(r) : new[i] = IF i = 1 THEN r[k]
                                           ELSE IF i <= k THEN r[i - 1] ELSE r[i]
    BY <2>1, LatestOld
  <2> HIDE DEF new
  <2>3. \A i \in 1 .. Len(r) : from(i) \in 1 .. Len(r) /\ new[i] = r[from(i)]
    BY <1>1, <2>2
  <2>4. ASSUME NEW i \in 1 .. Len(r), NEW j \in 1 .. Len(r), new[i] = new[j]
        PROVE  i = j
    <3>1. from(i) = from(j)
      BY <1>1, <2>3, <2>4
    <3> QED
      BY <1>1, <3>1
  <2> QED
    BY <1>1, <2>2, <2>4 DEF Recents, new
<1>3. CASE ~ \E k \in 1 .. Len(r) : r[k] = tag
  <2> DEFINE new == Latest(tag, r)
  <2>1. /\ new \in Seq(Tags)
        /\ Len(new) = IF Len(r) < A THEN Len(r) + 1 ELSE A
        /\ \A i \in 1 .. Len(new) : new[i] = IF i = 1 THEN tag ELSE r[i - 1]
    BY <1>3, LatestNew
  <2> HIDE DEF new
  <2>2. Len(new) \in Nat /\ Len(new) <= A /\ Len(new) <= Len(r) + 1
    BY <1>1, <2>1
  <2>3. \A i \in 1 .. Len(new) : i # 1 => i - 1 \in 1 .. Len(r)
    BY <1>1, <2>2
  <2>4. ASSUME NEW i \in 1 .. Len(new), NEW j \in 1 .. Len(new), new[i] = new[j]
        PROVE  i = j
    <3>1. CASE i = 1 \/ j = 1
      BY <1>3, <2>1, <2>3, <2>4, <3>1
    <3>2. CASE i # 1 /\ j # 1
      <4>1. i - 1 = j - 1
        BY <1>1, <2>1, <2>3, <2>4, <3>2
      <4> QED
        BY <2>2, <4>1
    <3> QED
      BY <3>1, <3>2
  <2> QED
    BY <2>1, <2>2, <2>4 DEF Recents, new
<1> QED
  BY <1>2, <1>3

\* An access of the LRU driver leaves the latest tags in front of the line.
LEMMA AccessInFront ==
    ASSUME NEW line \in Lines, NEW tag \in Tags, NEW r \in Recents, InFront(r, line)
    PROVE  InFront(Latest(tag, r), LRUAccess(tag, line))
<1> DEFINE new == LRUAccess(tag, line)
<1>1. Len(r) \in Nat /\ Len(r) <= A /\ A \in Nat \ {0}
      /\ \A i, j \in 1 .. Len(r) : r[i] = r[j] => i = j
  BY AAssumption DEF Recents
<1>2. CASE \E k \in 1 .. Len(r) : r[k] = tag
  <2>1. PICK k \in 1 .. Len(r) : r[k] = tag
    BY <1>2
  <2>2. k - 1 \in Ways /\ line[k - 1] = tag
    BY <1>1, <2>1 DEF InFront, Ways
  <2>3. Holds(line, tag)
    BY <2>2 DEF Holds
  <2>4. Lookup(line, tag) = k - 1
    <3> DEFINE p == Lookup(line, tag)
    <3>1. p \in Ways /\ line[p] = tag /\ \A j \in Ways : j < p => line[j] # tag
      BY <2>3, LookupFirst DEF FirstAt
    <3> HIDE DEF p
    <3>2. ~ (k - 1 < p)
      BY <2>2, <3>1
    <3>3. ~ (p < k - 1)
      <4> SUFFICES ASSUME p < k - 1
                   PROVE  FALSE
        OBVIOUS
      <4>1. p + 1 \in 1 .. Len(r) /\ (p + 1) - 1 = p /\ p + 1 # k
        BY <1>1, <3>1 DEF Ways
      <4>2. r[p + 1] = tag
        BY <3>1, <4>1 DEF InFront
      <4> QED
        BY <1>1, <2>1, <4>1, <4>2
    <3> QED
      BY <1>1, <3>1, <3>2, <3>3 DEF Ways, p
  <2>5. \A i \in Ways : new[i] = IF i = 0 THEN line[k - 1]
                                 ELSE IF i <= k - 1 THEN line[i - 1] ELSE line[i]
    BY <2>3, <2>4 DEF LRUAccess, LRUTouch
  <2>6. /\ Len(Latest(tag, r)) = Len(r)
        /\ \A i \in 1 .. Len(r) : Latest(tag, r)[i] =
               IF i = 1 THEN r[k] ELSE IF i <= k THEN r[i - 1] ELSE r[i]
    BY <2>1, LatestOld
  <2> HIDE DEF new
  <2>7. ASSUME NEW i \in 1 .. Len(r)
        PROVE  new[i - 1] = Latest(tag, r)[i]
    <3>1. i - 1 \in Ways /\ (i = 1 <=> i - 1 = 0) /\ (i <= k <=> i - 1 <= k - 1)
      BY <1>1 DEF Ways
    <3>2. i # 1 => i - 1 \in 1 .. Len(r) /\ line[(i - 1) - 1] = r[i - 1]
      BY <1>1 DEF InFront
    <3>3. line[i - 1] = r[i] /\ line[k - 1] = r[k]
      BY <2>1 DEF InFront
    <3> QED
      BY <2>5, <2>6, <3>1, <3>2, <3>3
  <2> QED
    BY <2>6, <2>7 DEF InFront, new
<1>3. CASE ~ \E k \in 1 .. Len(r) : r[k] = tag
  <2>1. /\ Len(Latest(tag, r)) = IF Len(r) < A THEN Len(r) + 1 ELSE A
        /\ \A i \in 1 .. Len(Latest(tag, r)) :
               Latest(tag, r)[i] = IF i = 1 THEN tag ELSE r[i - 1]
    BY <1>3, LatestNew
  <2>2. /\ new[0] = tag
        /\ \A i \in 1 .. Len(r) : i \in Ways => new[i] = line[i - 1]
    <3>1. new[0] = tag
      BY AccessFront
    <3>2. CASE Holds(line, tag)
      <4> DEFINE p == Lookup(line, tag)
      <4>1. p \in Ways /\ line[p] = tag
        BY <3>2, LookupFirst DEF FirstAt
      <4>2. \A i \in Ways : new[i] = IF i = 0 THEN line[p]
                                     ELSE IF i <= p THEN line[i - 1] ELSE line[i]
        BY <3>2 DEF LRUAccess, LRUTouch
      <4> HIDE DEF p, new
      <4>3. p >= Len(r)
        <5> SUFFICES ASSUME p < Len(r)
                     PROVE  FALSE
          BY <1>1, <4>1 DEF Ways
        <5>1. p + 1 \in 1 .. Len(r) /\ (p + 1) - 1 = p
          BY <1>1, <4>1 DEF Ways
        <5> QED
          BY <1>3, <4>1, <5>1 DEF InFront
      <4> QED
        BY <1>1, <3>1, <4>1, <4>2, <4>3 DEF Ways
    <3>3. CASE ~ Holds(line, tag)
      BY <1>1, <3>1, <3>3 DEF LRUAccess, LRUReplace, Ways
    <3> QED
      BY <3>2, <3>3
  <2> HIDE DEF new
  <2>3. ASSUME NEW i \in 1 .. Len(Latest(tag, r))
        PROVE  new[i - 1] = Latest(tag, r)[i]
    <3>1. CASE i = 1
      BY <1>1, <2>1, <2>2, <3>1
    <3>2. CASE i # 1
      <4>1. i - 1 \in 1 .. Len(r) /\ i - 1 \in Ways
        BY <1>1, <2>1, <3>2 DEF Ways
      <4> QED
        BY <2>1, <2>2, <3>2, <4>1 DEF InFront
    <3> QED
      BY <3>1, <3>2
  <2> QED
    BY <2>3 DEF InFront, new
<1> QED
  BY <1>2, <1>3

-----------------------------------------------------------------------------
(* Unless the policy is FIFO, the front of each set is what was used last. *)
RecencyInv == /\ LinesType
              /\ policy \in Policies
              /\ Driver # "FIFO" => /\ recent \in [Used -> Recents]
                                    /\ \A s \in Used : InFront(recent[s], lines[s])

LEMMA RecencyInitHolds == Init => RecencyInv
<1> SUFFICES ASSUME Init
             PROVE  RecencyInv
  OBVIOUS
<1>1. <<>> \in Recents
  BY AAssumption DEF Recents
<1> QED
  BY <1>1 DEF Init, RecencyInv, LinesType, InFront

\* An access of a driver that is not FIFO, as one of LRU: a set of one way
\* is the same for both.
LEMMA AccessIsLRU ==
    ASSUME RecencyInv, Driver # "FIFO", NEW s \in Used, NEW tag \in Tags,
           Hit(s, tag) \/ MissLRU(s, tag)
    PROVE  /\ lines' = [lines EXCEPT ![s] = LRUAccess(tag, lines[s])]
           /\ recent' = [recent EXCEPT ![s] = Latest(tag, recent[s])]
           /\ hit' <=> Holds(lines[s], tag)
           /\ policy' = policy
<1>1. lines \in [Used -> Lines] /\ recent \in [Used -> Recents]
  BY DEF RecencyInv, LinesType
<1>2. CASE MissLRU(s, tag)
  <2>1. ~ Holds(lines[s], tag)
    BY <1>2 DEF MissLRU
  <2> QED
    BY <1>1, <1>2, <2>1 DEF MissLRU, LRUAccess
<1>3. CASE Hit(s, tag)
  <2>1. Holds(lines[s], tag)
    BY <1>3 DEF Hit
  <2>2. lines' = [lines EXCEPT ![s] = LRUAccess(tag, lines[s])]
    <3>1. CASE Driver = "LRU"
      BY <1>1, <1>3, <2>1, <3>1 DEF Hit, LRUAccess
    <3>2. CASE Driver # "LRU"
      <4>1. lines' = lines
        BY <1>1, <1>3, <3>2 DEF Hit
      <4>2. LRUAccess(tag, lines[s]) = lines[s]
        <5>1. A = 1
          BY <3>2, PoliciesAssumption DEF Driver, RecencyInv
        <5>2. lines[s] \in Lines /\ Ways = {0}
          BY <1>1, <5>1 DEF Ways
        <5>3. Lookup(lines[s], tag) = 0
          BY <2>1, <5>2, LookupFirst
        <5>4. LRUTouch(0, lines[s]) = [k \in Ways |-> lines[s][k]]
          BY <5>2 DEF LRUTouch
        <5> QED
          BY <2>1, <5>2, <5>3, <5>4 DEF LRUAccess, Lines
      <4> QED
        BY <1>1, <4>1, <4>2
    <3> QED
      BY <3>1, <3>2
  <2> QED
    BY <1>1, <1>3, <2>1, <2>2 DEF Hit
<1> QED
  BY <1>2, <1>3

LEMMA RecencyNextHolds == RecencyInv /\ [Next]_vars => RecencyInv'
<1> SUFFICES ASSUME RecencyInv, [Next]_vars
             PROVE  RecencyInv'
  OBVIOUS
<1>1. CASE UNCHANGED vars
  BY <1>1 DEF RecencyInv, LinesType, Driver, vars
<1>2. ASSUME NEW s \in Used, NEW tag \in Tags,
             Hit(s, tag) \/ MissLRU(s, tag) \/ MissFIFO(s, tag)
      PROVE  RecencyInv'
  <2>1. LinesType' /\ policy' = policy /\ Driver' = Driver
    <3>1. LinesType'
      BY <1>2, AccessCopies DEF RecencyInv
    <3>2. policy' = policy
      BY <1>2 DEF Hit, MissLRU, MissFIFO
    <3> QED
      BY <3>1, <3>2 DEF Driver
  <2>2. CASE Driver = "FIFO"
    BY <2>1, <2>2 DEF RecencyInv
  <2>3. CASE Driver # "FIFO"
    <3>1. Hit(s, tag) \/ MissLRU(s, tag)
      BY <1>2, <2>3 DEF MissFIFO
    <3>2. /\ lines' = [lines EXCEPT ![s] = LRUAccess(tag, lines[s])]
          /\ recent' = [recent EXCEPT ![s] = Latest(tag, recent[s])]
      BY <2>3, <3>1, AccessIsLRU
    <3>3. /\ lines \in [Used -> Lines] /\ recent \in [Used -> Recents]
          /\ \A r \in Used : InFront(recent[r], lines[r])
      BY <2>3 DEF RecencyInv, LinesType
    <3>4. Latest(tag, recent[s]) \in Recents
      BY <3>3, LatestType
    <3>5. recent' \in [Used -> Recents]
      BY <3>2, <3>3, <3>4
    <3>6. InFront(Latest(tag, recent[s]), LRUAccess(tag, lines[s]))
      BY <3>3, AccessInFront
    <3>7. ASSUME NEW r \in Used
          PROVE  InFront(recent'[r], lines'[r])
      <4>1. CASE r = s
        BY <3>2, <3>3, <3>6, <4>1
      <4>2. CASE r # s
        <5>1. recent'[r] = recent[r] /\ lines'[r] = lines[r]
          BY <3>2, <3>3, <4>2
        <5> QED
          BY <3>3, <5>1
      <4> QED
        BY <4>1, <4>2
    <3> QED
      BY <2>1, <3>5, <3>7 DEF RecencyInv
  <2> QED
    BY <2>2, <2>3
<1> QED
  BY <1>1, <1>2 DEF Next

\* Every access of the LRU and direct mapped drivers leaves what was used last
\* in front (LRUCacheDriver::touch and replace, AbstractCacheDriver::access).
THEOREM RecencyInvariant == Spec => []RecencyInv
  BY RecencyInitHolds, RecencyNextHolds, PTL DEF Spec

\* The ways of a set are its tags in the order of their last accesses, from
\* any state of the array: what the analyses take the cache to do
\* (LRUCacheDriver::touch and replace, DirectMappedCacheDriver).
THEOREM FrontIsRecent == Spec => []LRURecency
<1>1. RecencyInv => LRURecency
  BY DEF RecencyInv, LRURecency, InFront
<1> QED
  BY RecencyInvariant, <1>1, PTL

\* access() answers HIT for what was used lately, and for nothing else once
\* the set was filled (AbstractCacheDriver::access).
THEOREM HitsAreRecent == Spec => HitIffRecent
<1>1. ASSUME RecencyInv, NEW s \in Used, NEW tag \in Tags,
             Driver # "FIFO", Hit(s, tag) \/ MissLRU(s, tag)
      PROVE  LET r == {recent[s][i] : i \in 1 .. Len(recent[s])}
             IN  /\ tag \in r => hit'
                 /\ (hit' /\ Len(recent[s]) = A) => tag \in r
  <2>1. hit' <=> Holds(lines[s], tag)
    BY <1>1, AccessIsLRU
  <2>2. recent[s] \in Recents /\ InFront(recent[s], lines[s])
    BY <1>1 DEF RecencyInv
  <2>3. ASSUME NEW i \in 1 .. Len(recent[s]), recent[s][i] = tag
        PROVE  Holds(lines[s], tag)
    <3>1. i - 1 \in Ways
      BY <2>2, AAssumption DEF Recents, Ways
    <3> QED
      BY <2>2, <2>3, <3>1 DEF InFront, Holds
  <2>4. ASSUME Holds(lines[s], tag), Len(recent[s]) = A
        PROVE  \E i \in 1 .. Len(recent[s]) : recent[s][i] = tag
    <3>1. PICK k \in Ways : lines[s][k] = tag
      BY <2>4 DEF Holds
    <3>2. k + 1 \in 1 .. Len(recent[s]) /\ (k + 1) - 1 = k
      BY <2>4, AAssumption DEF Ways
    <3> QED
      BY <2>2, <3>1, <3>2 DEF InFront
  <2> QED
    BY <2>1, <2>3, <2>4
<1>2. RecencyInv /\ [Next]_vars =>
          [\A s \in Used, tag \in Tags :
              Driver # "FIFO" /\ (Hit(s, tag) \/ MissLRU(s, tag)) =>
                 LET r == {recent[s][i] : i \in 1 .. Len(recent[s])}
                 IN  /\ tag \in r => hit'
                     /\ (hit' /\ Len(recent[s]) = A) => tag \in r]_vars
  BY <1>1
<1> QED
  BY RecencyInvariant, <1>2, PTL DEF Spec, HitIffRecent
=============================================================================
