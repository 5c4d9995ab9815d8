------------------------------ MODULE Requests ------------------------------
(***************************************************************************)
(* What the modules of the HTTP and socket handlers share.  Every handler   *)
(* is asynchronous: it reads, awaits and writes, and between two of its     *)
(* awaits the handlers of other requests may run.                           *)
(***************************************************************************)
EXTENDS Integers, FiniteSets

CONSTANTS
    Calls,      \* requests in flight at once
    MayFail,    \* whether a statement may throw
    None

ASSUME RequestsAssumption ==
    /\ IsFiniteSet(Calls) /\ Calls # {} /\ None \notin Calls
    /\ MayFail \in BOOLEAN

\* The rows of f in T, numbered: f[t] of them for each t.
Numbered(f, T) == UNION {{t} \X (1 .. f[t]) : t \in T}
=============================================================================
