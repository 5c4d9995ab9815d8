--------------------------- MODULE MCWithdrawals ---------------------------
(***************************************************************************)
(* Instances of Withdrawals for TLC.                                        *)
(***************************************************************************)
EXTENDS Withdrawals, TLC

Symmetry ==
    Permutations(Users) \cup Permutations(Withdrawals)
        \cup Permutations(Requests) \cup Permutations(Operators)
=============================================================================
