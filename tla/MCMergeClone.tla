---------------------------- MODULE MCMergeClone ----------------------------
EXTENDS MergeClone, TLC
CONSTANTS t1, t2, t3, o, g1, g2
MCGraphOf == (t1 :> g1) @@ (t2 :> g1) @@ (t3 :> g1)
MCClashes == {{t1, t2}, {t3, o}, {t1, o}}
=============================================================================
