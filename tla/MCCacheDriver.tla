--------------------------- MODULE MCCacheDriver ---------------------------
(* Instances of CacheDriver for TLC.                                       *)
EXTENDS CacheDriver

CONSTANTS t1, t2, t3, t4

ThreeTags == {t1, t2, t3}
FourTags  == {t1, t2, t3, t4}
TwoSets   == {0, 1}
=============================================================================
