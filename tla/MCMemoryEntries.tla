---------------------------- MODULE MCMemoryEntries ----------------------------
(* A text for each verdict: plain, with PII and suspicious, blank, and one *)
(* the guard rejects.                                                      *)
EXTENDS MemoryEntries, TLC

CONSTANTS plain, secret, blank, hostile

MCPatterns ==
  [t \in Texts |-> [high |-> IF t = hostile THEN 1 ELSE 0,
                    low  |-> IF t = secret THEN 1 ELSE 0]]

Symmetry == Permutations(Sessions)
=================================================================================
