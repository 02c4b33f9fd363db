----------------------------- MODULE KeptInputs -----------------------------
(***************************************************************************)
(* What the list of kept inputs promises of each of them, with no list, no  *)
(* handler, bridge, queue or session in it.  An input begins as kept, under *)
(* a number of its own.  It is edited only while it is kept; it is sent as  *)
(* it reads then, and reads so if it comes back or runs; it runs once, and  *)
(* what ran stays so.  What is kept or sent can be given up, and what was   *)
(* given up is never kept, sent or run again.                               *)
(***************************************************************************)
EXTENDS Naturals

VARIABLES
    next,     \* the next number
    life      \* number of an input not given up -> [at, text, runs]

Begins(y) == y.at = "kept" /\ y.runs = 0

Edited(x, y)    == x.at = "kept" /\ y.at = "kept" /\ y.runs = x.runs
Sent(x, y)      == x.at = "kept" /\ y = [x EXCEPT !.at = "sent"]
TakenBack(x, y) == x.at = "sent" /\ y = [x EXCEPT !.at = "kept"]
Run(x, y)       ==
    x.at = "sent" /\ y = [at |-> "ran", text |-> x.text, runs |-> x.runs + 1]

Moves(x, y) == Edited(x, y) \/ Sent(x, y) \/ TakenBack(x, y) \/ Run(x, y)

Init == next = 1 /\ DOMAIN life = {}

Next ==
    /\ next' \in {next, next + 1}
    /\ \A i \in DOMAIN life' :
          \/ /\ i \in DOMAIN life
             /\ life'[i] = life[i] \/ Moves(life[i], life'[i])
          \/ /\ i \notin DOMAIN life
             /\ i = next /\ next' = next + 1
             /\ Begins(life'[i])
    /\ \A i \in DOMAIN life \ DOMAIN life' : life[i].at # "ran"

Spec == Init /\ [][Next]_<<next, life>>
=============================================================================
