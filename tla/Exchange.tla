------------------------------ MODULE Exchange ------------------------------
(***************************************************************************)
(* What the bridge promises of each request, with no pipe, frame, process   *)
(* or upload in it.  A handler says its response part by part; the reader    *)
(* hears the parts in turn, never one that was not said.  He is told once    *)
(* how it came out: that he has all of it, when it had ended and he had      *)
(* heard it all; that he has all of a response without a body, of which      *)
(* nothing is said afterwards; or that it failed, with part of it lost.      *)
(***************************************************************************)
EXTENDS Naturals

VARIABLE exchange     \* request -> [handler, said, heard, verdict]

Fresh == [handler |-> "speaks", said |-> 0, heard |-> 0, verdict |-> "none"]

Says(x, y)   == x.handler = "speaks" /\ x.verdict # "head" /\ y = [x EXCEPT !.said = @ + 1]
Ends(x, y)   == x.handler = "speaks" /\ y = [x EXCEPT !.handler = "ended"]
Hears(x, y)  == x.verdict = "none" /\ x.heard < x.said /\ y = [x EXCEPT !.heard = @ + 1]
Whole(x, y)  ==
    /\ x.verdict = "none" /\ x.handler = "ended" /\ x.heard = x.said
    /\ y = [x EXCEPT !.verdict = "whole"]
Bare(x, y)   == x.verdict = "none" /\ x.said = 0 /\ y = [x EXCEPT !.verdict = "head"]
Breaks(x, y) ==
    /\ x.verdict = "none"
    /\ y.verdict = "failed" /\ y.heard <= x.heard
    /\ y.said = x.said /\ y.handler = x.handler

Moves(x, y) ==
    Says(x, y) \/ Ends(x, y) \/ Hears(x, y) \/ Whole(x, y) \/ Bare(x, y) \/ Breaks(x, y)

Init == \A r \in DOMAIN exchange : exchange[r] = Fresh

\* The loss of the Host breaks every exchange in one step.
Next ==
    /\ DOMAIN exchange' = DOMAIN exchange
    /\ \A r \in DOMAIN exchange :
          exchange'[r] = exchange[r] \/ Moves(exchange[r], exchange'[r])

Spec == Init /\ [][Next]_exchange
=============================================================================
