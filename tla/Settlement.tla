----------------------------- MODULE Settlement -----------------------------
(***************************************************************************)
(* What a withdrawal promises its user, apart from how it is carried out:   *)
(* the amount is taken from a balance that covers it, one withdrawal at a   *)
(* time, and each is then either paid out or given back, once.              *)
(***************************************************************************)
EXTENDS Integers

CONSTANTS Users, Withdrawals, Amounts, InitialBalance, None

VARIABLES
    funds,    \* what each user can spend
    phase,    \* of each withdrawal
    holder,   \* who asked for it
    sum       \* for how much

Init ==
    /\ funds = [u \in Users |-> InitialBalance]
    /\ phase = [w \in Withdrawals |-> "none"]
    /\ holder = [w \in Withdrawals |-> None]
    /\ sum = [w \in Withdrawals |-> 0]

Hold(w, u, a) ==
    /\ phase[w] = "none"
    /\ ~ \E v \in Withdrawals : holder[v] = u /\ phase[v] = "held"
    /\ funds[u] >= a
    /\ funds' = [funds EXCEPT ![u] = @ - a]
    /\ phase' = [phase EXCEPT ![w] = "held"]
    /\ holder' = [holder EXCEPT ![w] = u]
    /\ sum' = [sum EXCEPT ![w] = a]

Pay(w) ==
    /\ phase[w] = "held"
    /\ phase' = [phase EXCEPT ![w] = "paid"]
    /\ UNCHANGED <<funds, holder, sum>>

Return(w) ==
    /\ phase[w] = "held"
    /\ phase' = [phase EXCEPT ![w] = "returned"]
    /\ funds' = [funds EXCEPT ![holder[w]] = @ + sum[w]]
    /\ UNCHANGED <<holder, sum>>

Next ==
    \E w \in Withdrawals :
        \/ \E u \in Users, a \in Amounts : Hold(w, u, a)
        \/ Pay(w)
        \/ Return(w)

Spec == Init /\ [][Next]_<<funds, phase, holder, sum>>
=============================================================================
