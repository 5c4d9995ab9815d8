----------------------------- MODULE MCDeposits -----------------------------
(***************************************************************************)
(* Instances of Deposits for TLC: two transfers, from two wallets, whose    *)
(* hashes may or may not share a lock key.                                  *)
(***************************************************************************)
EXTENDS Deposits, TLC

CONSTANTS h1, h2, wa, wb

\* h1 comes from wallet wa, every other transfer from wb.
MCSender == [h \in Hashes |-> IF h = h1 THEN wa ELSE wb]

\* One lock key per transfer, and one for all generated references.
OwnKey == [h \in Hashes \cup {None} |-> h]

\* Two hashes with the same first digits.
SharedKey == [h \in Hashes \cup {None} |-> IF h = None THEN 0 ELSE 1]

Symmetry == Permutations(Users) \cup Permutations(Handlers)
=============================================================================
