------------------------------ MODULE MCMining ------------------------------
(***************************************************************************)
(* Instances of Mining for TLC.  Amounts are in ten-thousandths of a POL.   *)
(***************************************************************************)
EXTENDS Mining, Folds

CONSTANTS ua, ub

Hash == [Users -> {0, 10, 20}]

\* rewardBase by shares of the round's work.
TotalWork(work) == MapThenFoldSet(LAMBDA x, y : x + y, 0, LAMBDA u : work[u],
                                  LAMBDA S : CHOOSE u \in S : TRUE, Users)

MCSplits ==
    {[u \in Users |-> (100 * work[u]) \div TotalWork(work)] :
        work \in {w \in Hash : TotalWork(w) > 0}}

\* A deposit.
MCMoves == {100}

\* ua brought ub in.
MCReferrer == [u \in Users |-> IF u = ub THEN ua ELSE None]
=============================================================================
