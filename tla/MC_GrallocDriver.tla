------------------------- MODULE MC_GrallocDriver -------------------------
(* Instantiates GrallocDriver for TLC: two threads, both of which also    *)
(* lock and unlock, two handle addresses, three kernel objects of which   *)
(* one comes from another process, two GEM ids (so ids are reused),       *)
(* counts up to 2.                                                         *)
EXTENDS GrallocDriver

CONSTANTS t1, t2, h1, h2, o1, o2, o3, g1, g2

MCThreads == {t1, t2}
MCHnds    == {h1, h2}
MCObjs    == {o1, o2, o3}
MCGemIds  == {g1, g2}
MCForeign == {o1}
=============================================================================
