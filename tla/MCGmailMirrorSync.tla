-------------------------- MODULE MCGmailMirrorSync --------------------------
(* GmailMirrorSync on small instances: values for the constants a .cfg       *)
(* cannot write down.                                                        *)
EXTENDS GmailMirrorSync, TLC

CONSTANTS t1, t2, p1, p2

MCTokens == [pos : 0..MaxHistory, rest : SUBSET Threads]
MCNoToken == [pos |-> 0, rest |-> {}]
MCRetryDelay == [n \in 0..RetryCap |-> 1]
MCSymmetry == Permutations({t1, t2}) \cup Permutations({p1, p2})
=============================================================================
