---------------------------- MODULE MCGmailTriage ----------------------------
(* GmailTriage on small instances: values for the constants a .cfg cannot    *)
(* write down.                                                               *)
EXTENDS GmailTriage, TLC

CONSTANTS t1, t2

\* Delays 1, 1, ...: min(max, base * 2^n) with max = base.
MCRetryDelay == [n \in 0..RetryCap |-> 1]

MCThreadSymmetry == Permutations({t1, t2})
=============================================================================
