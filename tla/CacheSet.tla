------------------------------ MODULE CacheSet ------------------------------
(***************************************************************************)
(* One set of a set-associative cache, as the cache drivers of             *)
(* otawa::sim keep it: `line', an array of A tags, position 0 first        *)
(* (sim_AbstractCacheDriver.cpp).  Under LRU the position of a tag is its  *)
(* age: 0 is the most recently used tag, A - 1 the next victim.            *)
(***************************************************************************)
EXTENDS Integers

CONSTANTS A,     \* associativity of the cache, hard::Cache::wayCount()
          Tags   \* the tags that an address may map to

ASSUME AAssumption == A \in Nat \ {0}

Ways  == 0 .. (A - 1)
Lines == [Ways -> Tags]

-----------------------------------------------------------------------------
(* Faulty form of the next definition, for the runs that must notice it.   *)
Holds_butlast(line, tag) == \E i \in Ways \ {A - 1} : line[i] = tag

Holds(line, tag) == \E i \in Ways : line[i] = tag

(* A way of position n at most holds the tag.                              *)
Within(line, tag, n) == \E i \in 0 .. n : line[i] = tag

(* The loop of access() stops at the first way that holds the tag.         *)
FirstAt(line, tag, i) == line[i] = tag /\ \A j \in Ways : j < i => line[j] # tag
Lookup(line, tag)     == CHOOSE i \in Ways : FirstAt(line, tag, i)

(* Faulty form of the next definition, for the runs that must notice it.   *)
LRUTouch_last(index, line) ==
    [k \in Ways |-> IF k = 0 THEN line[index]
                    ELSE IF k < index THEN line[k - 1] ELSE line[k]]
LRUTouch_none(index, line) == line

LRUTouch(index, line) ==
    [k \in Ways |-> IF k = 0 THEN line[index]
                    ELSE IF k <= index THEN line[k - 1] ELSE line[k]]

LRUReplace(tag, line) == [k \in Ways |-> IF k = 0 THEN tag ELSE line[k - 1]]

LRUAccess(tag, line) == IF Holds(line, tag)
                        THEN LRUTouch(Lookup(line, tag), line)
                        ELSE LRUReplace(tag, line)
=============================================================================
