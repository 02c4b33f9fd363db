---------------------------- MODULE ApprovalGate ----------------------------
(***************************************************************************)
(* What the matter promises about human decisions, with no stage, log or    *)
(* identity in it: a subject is worked on only while an approval of it      *)
(* stands, and approvals neither come nor go while work is under way.       *)
(***************************************************************************)
CONSTANT Subjects

VARIABLES
    standing,   \* the subjects with an approval that nobody has withdrawn
    working     \* the subjects under work

Init == standing = {} /\ working = {}

Grant ==
    /\ working = {}
    /\ \E s \in Subjects : standing' = standing \cup {s}
    /\ UNCHANGED working

Withdraw ==
    /\ working = {}
    /\ \E s \in standing : standing' = standing \ {s}
    /\ UNCHANGED working

Begin ==
    /\ working = {}
    /\ working' \in SUBSET standing
    /\ UNCHANGED standing

End ==
    /\ working' = {}
    /\ UNCHANGED standing

Next == Grant \/ Withdraw \/ Begin \/ End

Spec == Init /\ [][Next]_<<standing, working>>
=============================================================================
