--------------------------- MODULE IdempotentLog ---------------------------
(***************************************************************************)
(* What the event store promises, with no table, transaction or connection  *)
(* in it: each matter has a log; an append is applied once, whole, at the   *)
(* end of one log; and only what was applied is told.                       *)
(***************************************************************************)
EXTENDS Sequences

CONSTANTS
    Matters, AppendIds,
    Batches    \* the events, in order, that one append may bring

VARIABLES
    log,       \* the events of each matter
    applied,   \* the appends that took effect
    told       \* the appends whose caller knows that they did

Init ==
    /\ log = [m \in Matters |-> << >>]
    /\ applied = [m \in Matters |-> {}]
    /\ told = {}

Held(m) == {log[m][v] : v \in DOMAIN log[m]}

Apply(m, a, es) ==
    /\ a \notin applied[m]
    /\ Held(m) \cap {es[i] : i \in DOMAIN es} = {}
    /\ log' = [log EXCEPT ![m] = @ \o es]
    /\ applied' = [applied EXCEPT ![m] = @ \cup {a}]

Tell(m, a) ==
    /\ a \in applied'[m]
    /\ told' = told \cup {<<m, a>>}

Next == \E m \in Matters, a \in AppendIds :
    \/ /\ \E es \in Batches : Apply(m, a, es)
       /\ Tell(m, a) \/ UNCHANGED told
    \/ /\ Tell(m, a)
       /\ UNCHANGED <<log, applied>>

Spec == Init /\ [][Next]_<<log, applied, told>>
=============================================================================
