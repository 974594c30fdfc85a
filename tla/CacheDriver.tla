---------------------------- MODULE CacheDriver ----------------------------
(***************************************************************************)
(* The cache simulators of otawa::sim (sim_AbstractCacheDriver.cpp): one   *)
(* array of tags for the whole cache, cut into Rows sets of A ways, and a  *)
(* replacement policy chosen by AbstractCacheDriver::lookup().  access()   *)
(* is the only operation; its caller gives an address, which the cache     *)
(* maps to a set and a tag.                                                *)
(***************************************************************************)
EXTENDS CacheSet, Sequences, FiniteSets

CONSTANTS Rows,     \* number of sets, hard::Cache::rowCount()
          Used,     \* the sets that the simulated program maps to
          Policies  \* the policies that caches are described with

ASSUME RowsAssumption   == Rows \in Nat \ {0}
ASSUME PoliciesAssumption == Policies \subseteq {"LRU", "FIFO"}

Sets == 0 .. (Rows - 1)

ASSUME UsedAssumption == Used \subseteq Sets

VARIABLES policy,    \* replacementPolicy() of the cache
          lines,     \* the tags of each set
          counters,  \* FIFOCacheDriver::counters, one per set
          hit,       \* what the last access() returned
          recent     \* history: per set, the last distinct tags accessed (LRU)
                     \* or loaded (FIFO), latest first, at most A of them

vars == <<policy, lines, counters, hit, recent>>

-----------------------------------------------------------------------------
(* lookup(): one way means direct mapped, whatever the policy says.        *)
Driver == IF A = 1 THEN "DirectMapped" ELSE policy

(* The constructor of FIFOCacheDriver clears the counters; no constructor  *)
(* gives `lines' a value: the array of `new tag_t[...]' holds anything.    *)
Init == /\ policy \in Policies
        /\ lines \in [Used -> Lines]
        /\ counters = [s \in Sets |-> 0]
        /\ hit = FALSE
        /\ recent = [s \in Used |-> <<>>]

-----------------------------------------------------------------------------
(* History only: tag becomes the latest of the at most A tags kept.        *)
Without(tag, seq) ==
    IF \A i \in 1 .. Len(seq) : seq[i] # tag THEN seq
    ELSE LET k == CHOOSE i \in 1 .. Len(seq) : seq[i] = tag
         IN  SubSeq(seq, 1, k - 1) \o SubSeq(seq, k + 1, Len(seq))
Latest(tag, seq) == LET all == <<tag>> \o Without(tag, seq)
                    IN  SubSeq(all, 1, IF Len(all) < A THEN Len(all) ELSE A)

Hit(s, tag) ==
    /\ Holds(lines[s], tag)
    /\ lines' = [lines EXCEPT ![s] = IF Driver = "LRU"
                                     THEN LRUTouch(Lookup(@, tag), @) ELSE @]
    /\ recent' = [recent EXCEPT ![s] = IF Driver = "FIFO"
                                       THEN @ ELSE Latest(tag, @)]
    /\ hit' = TRUE
    /\ UNCHANGED <<policy, counters>>

(* access() hands replace() the number of ways where the number of the set *)
(* is expected: the counter that FIFO uses and advances is counters[A],    *)
(* the same one for every set (and past the array if A >= Rows).           *)
ReplaceNum(s) == A

Slot(s) == CASE Driver = "FIFO" -> counters[ReplaceNum(s)]
             [] OTHER           -> 0

MissLRU(s, tag) ==
    /\ Driver \in {"LRU", "DirectMapped"}
    /\ ~ Holds(lines[s], tag)
    /\ lines' = [lines EXCEPT ![s] = LRUReplace(tag, @)]
    /\ UNCHANGED <<policy, counters>>
    /\ recent' = [recent EXCEPT ![s] = Latest(tag, @)]
    /\ hit' = FALSE

MissFIFO(s, tag) ==
    /\ Driver = "FIFO"
    /\ ~ Holds(lines[s], tag)
    /\ lines' = [lines EXCEPT ![s][Slot(s)] = tag]
    /\ counters' = [counters EXCEPT ![ReplaceNum(s)] = (@ + 1) % A]
    /\ UNCHANGED policy
    /\ recent' = [recent EXCEPT ![s] = Latest(tag, @)]
    /\ hit' = FALSE

Next == \E s \in Used, tag \in Tags :
            Hit(s, tag) \/ MissLRU(s, tag) \/ MissFIFO(s, tag)

Spec == Init /\ [][Next]_vars

-----------------------------------------------------------------------------
(* The front of each set is its most recently used tags, latest first,     *)
(* whatever the uninitialised ways held: what the MUST and MAY analyses    *)
(* take LRU to be.                                                         *)
LRURecency == Driver # "FIFO" =>
                  \A s \in Used : \A i \in 1 .. Len(recent[s]) :
                      lines[s][i - 1] = recent[s][i]

(* access() answers HIT for a tag among the A most recently used ones of   *)
(* its set, and for no other once A tags have been used there.             *)
HitIffRecent ==
    [][\A s \in Used, tag \in Tags :
          Driver # "FIFO" /\ (Hit(s, tag) \/ MissLRU(s, tag)) =>
             LET r == {recent[s][i] : i \in 1 .. Len(recent[s])}
             IN  /\ tag \in r => hit'
                 /\ (hit' /\ Len(recent[s]) = A) => tag \in r]_vars

(* No access makes a set hold a tag twice: replace() is only reached when  *)
(* the whole set was searched.                                             *)
Copies(line, tag) == Cardinality({i \in Ways : line[i] = tag})
NoNewCopy ==
    [][\A s \in Used, tag \in Tags :
          Copies(lines'[s], tag) > 1 =>
              Copies(lines'[s], tag) <= Copies(lines[s], tag)]_vars

(* "a cache driver implementing a FIFO policy", replace() being given the  *)
(* "number of the affected set" (sim_AbstractCacheDriver.cpp:52 and 173):  *)
(* the last tags that a set loaded, at most A, are all still in it.        *)
FIFOKeepsLatest == \A s \in Used : \A i \in 1 .. Len(recent[s]) :
                       Holds(lines[s], recent[s][i])
=============================================================================
