---------------------- MODULE ProfileActivationProofs ----------------------
(***************************************************************************)
(* The activation for every set of releases and generations, any number of  *)
(* displaced copies, kills and failures.                                    *)
(***************************************************************************)
EXTENDS ProfileActivation, TLAPS

LEMMA TreeFacts ==
    /\ NoTree \in Tree
    /\ \A t \in Tree : Shrunk(t) \subseteq Tree
    /\ \A r \in Releases : Whole(r) \in Tree /\ Whole(r) # NoTree
  <1>1. NoTree \in Tree
    BY DEF Tree
  <1>2. ASSUME NEW t \in Tree
        PROVE  Shrunk(t) \subseteq Tree
    <2>1. CASE t = NoTree
      BY <2>1, <1>1 DEF Shrunk, NoTree
    <2>2. CASE t \in [of : Releases, is : {"whole", "torn", "husk"}]
      <3>1. \A s \in {"torn", "husk"} : [t EXCEPT !.is = s] \in Tree
        BY <2>2 DEF Tree
      <3>2. QED
        BY <3>1, <2>2, <1>1 DEF Shrunk
    <2>3. QED
      BY <2>1, <2>2 DEF Tree
  <1>3. \A r \in Releases : Whole(r) \in Tree /\ Whole(r) # NoTree
    BY NoneIsNoValue DEF Whole, Tree, NoTree
  <1>4. QED
    BY <1>1, <1>2, <1>3

LEMMA HomeFacts ==
    ASSUME TypeOK
    PROVE  /\ Home \in Gens
           /\ pointer # None => PointedGen \in Gens
           /\ None \notin Gens /\ None \notin Slots /\ None \notin Releases
           /\ HeldTree \in Tree
           /\ (\E s \in Slots : ~Present(displaced[s])) => FreshName \in Slots
  BY ReleasesHaveGens, NoneIsNoValue, TreeFacts
     DEF TypeOK, Home, PointedGen, GenOrNone, HeldTree, FreshName

THEOREM TypeStep == TypeOK /\ [Next]_vars => TypeOK'
  <1> SUFFICES ASSUME TypeOK, [Next]_vars
               PROVE  TypeOK'
    OBVIOUS
  <1> USE BoundsAreNat DEF Goes, NoFault, Fault, Forgets, Refuses, disk, locals, Phases
  <1>1. CASE UNCHANGED vars
    BY <1>1 DEF TypeOK, vars
  <1>2. CASE Start \/ Quit \/ Kill \/ ReadFails \/ \E r \in Releases : Replace(r)
    BY <1>2 DEF TypeOK, Start, Quit, Kill, ReadFails, Replace
  <1>3. CASE RestoreDisplaced
    BY <1>3, TreeFacts DEF TypeOK, RestoreDisplaced, Matches
  <1>4. CASE \E s \in Slots : SweepDisplaced(s)
    BY <1>4, TreeFacts DEF TypeOK, SweepDisplaced
  <1>5. CASE \E g \in Gens : Remove(g)
    BY <1>5, TreeFacts DEF TypeOK, Remove
  <1>6. CASE SweepDone \/ Classify
    BY <1>6 DEF TypeOK, SweepDone, Classify, HasReceipt
  <1>7. CASE Adopt
    BY <1>7, HomeFacts DEF TypeOK, Adopt
  <1>8. CASE Collect
    BY <1>8 DEF TypeOK, Collect, Stale
  <1>9. CASE Admit \/ InstallTemplate \/ StageTemplate
    BY <1>9 DEF TypeOK, Admit, InstallTemplate, StageTemplate
  <1>10. CASE Displace
    BY <1>10, HomeFacts, TreeFacts DEF TypeOK, Displace
  <1>11. CASE Swap \/ Commit \/ Confirm
    BY <1>11, TreeFacts DEF TypeOK, Swap, Commit, Confirm
  <1>12. CASE DropDisplaced \/ Finish
    BY <1>12, HomeFacts, TreeFacts DEF TypeOK, DropDisplaced, Finish
  <1>13. CASE StagingFails \/ ActivationFails
    BY <1>13 DEF TypeOK, StagingFails, ActivationFails
  <1>14. CASE UndoSwap \/ UndoDisplace \/ UndoFails
    BY <1>14, HomeFacts, TreeFacts DEF TypeOK, UndoSwap, UndoDisplace, UndoFails
  <1>15. QED
    BY <1>1, <1>2, <1>3, <1>4, <1>5, <1>6, <1>7, <1>8, <1>9, <1>10, <1>11,
       <1>12, <1>13, <1>14 DEF Next, Reconcile, Install, Undo

\* The state stays in its types: of every phase of the start and of what it
\* leaves on the disk.
THEOREM TypeCorrect == Spec => []TypeOK
  <1>1. Init => TypeOK
    BY TreeFacts, BoundsAreNat DEF Init, TypeOK, Phases
  <1>2. QED
    BY <1>1, TypeStep, PTL DEF Spec

(* ------------------------- the inductive invariant ---------------------- *)

Early == {"off", "up", "refused", "reconcile", "sweep", "classify", "adopt",
          "collect", "admit", "install"}
AtRest == {"off", "up", "refused", "reconcile"}
InPlace == {"sweep", "classify", "adopt", "collect", "admit", "install", "stage", "staged"}
Upgrading == {"stage", "staged", "displaced", "swapped", "undo", "undone"}
Swapping == {"displaced", "swapped", "undo", "undone"}

\* A start begins without what the one before has known.
Fresh == pc \in Early => existing = None /\ held = None

\* The new tree stays in place until the start is over, and with the pointer
\* it is the active one.
NewTreeStands ==
    /\ pc \in {"swapped", "committed", "clean"} => generations[Home] = Whole(release)
    /\ pc \in {"up", "committed", "clean"} => pointer = release
    /\ pc = "up" => PointedTree = Whole(release)

\* Nothing removes the directory the pointer names.
ActiveIsNotDoomed ==
    (wound = "none" /\ pc \in {"adopt", "collect", "admit"}) => PointedGen \notin doomed

\* Between the starts the pointed tree is in place, or its place is empty and
\* a displaced copy fills it.
Restorable ==
    \/ PointedTree = Whole(pointer)
    \/ ~Present(PointedTree) /\ \E s \in Slots : displaced[s] = Whole(pointer)

\* Where the pointed tree is, step by step.
Tracked == (wound = "none") =>
    /\ pc \in Upgrading => existing = pointer
    /\ pc \in {"displaced", "undone"} => ~Present(generations[Home])
    /\ pc = "displaced" => SameId
    /\ pointer # None =>
          /\ pc \in AtRest => Restorable
          /\ pc \in InPlace => PointedTree = Whole(pointer)
          /\ pc \in Swapping => IF SameId THEN HeldTree = Whole(pointer)
                                          ELSE PointedTree = Whole(pointer)

Inv == TypeOK /\ Fresh /\ NewTreeStands /\ ActiveIsNotDoomed /\ Tracked

LEMMA InvInit == Init => Inv
  <1>1. ASSUME Init
        PROVE  TypeOK
    BY <1>1, TreeFacts, BoundsAreNat DEF Init, TypeOK, Phases
  <1>2. QED
    BY <1>1 DEF Init, Inv, Fresh, NewTreeStands, ActiveIsNotDoomed, Tracked,
                Upgrading, InPlace, Swapping

LEMMA InvStep == Inv /\ [Next]_vars => Inv'
  <1> SUFFICES ASSUME Inv, [Next]_vars
               PROVE  Inv'
    OBVIOUS
  <1>0. TypeOK /\ TypeOK'
    BY TypeStep DEF Inv
  <1> DEFINE Rest == Fresh /\ NewTreeStands /\ ActiveIsNotDoomed /\ Tracked
  <1>f. Rest
    BY DEF Inv
  <1> SUFFICES Rest'
    BY <1>0 DEF Inv
  <1> USE DEF Goes, NoFault, Fault, Forgets, Refuses, disk, locals, Rest, Fresh,
              NewTreeStands, ActiveIsNotDoomed, Tracked, Restorable, Early, AtRest,
              InPlace, Upgrading, Swapping, SameId, PointedTree, PointedGen,
              GenOrNone, HeldTree, Home
  <1>1. CASE UNCHANGED vars
    BY <1>1, <1>f DEF vars
  <1>2. CASE Start \/ Quit \/ \E r \in Releases : Replace(r)
    BY <1>2, <1>f DEF Start, Quit, Replace
  <1>3. CASE Kill
    <2>1. CASE pc \in AtRest \cup InPlace
      BY <1>3, <2>1, <1>f, <1>0, HomeFacts, TreeFacts DEF Kill, InTheWindow, TypeOK, Phases, NoTree, Whole, Present
    <2>2. CASE pc = "displaced"
      BY <1>3, <2>2, <1>f, <1>0, HomeFacts, TreeFacts DEF Kill, InTheWindow, TypeOK, Phases, NoTree, Whole, Present
    <2>3. CASE pc \in {"swapped", "undo"}
      BY <1>3, <2>3, <1>f, <1>0, HomeFacts, TreeFacts DEF Kill, InTheWindow, TypeOK, Phases, NoTree, Whole, Present
    <2>4. CASE pc = "undone"
      BY <1>3, <2>4, <1>f, <1>0, HomeFacts, TreeFacts DEF Kill, InTheWindow, TypeOK, Phases, NoTree, Whole, Present
    <2>5. CASE pc \in {"committed", "clean"}
      BY <1>3, <2>5, <1>f, <1>0, HomeFacts, TreeFacts DEF Kill, InTheWindow, TypeOK, Phases, NoTree, Whole, Present
    <2>6. QED
      BY <1>0, <1>3, <2>1, <2>2, <2>3, <2>4, <2>5 DEF TypeOK, Phases
  <1>4. CASE ReadFails
    BY <1>4, <1>f DEF ReadFails
  <1>5. CASE RestoreDisplaced
    BY <1>5, <1>f, <1>0, HomeFacts, TreeFacts
       DEF RestoreDisplaced, Matches, PointedIsMissing, TypeOK, HasReceipt, Whole, Present
  <1>6. CASE \E s \in Slots : SweepDisplaced(s)
    BY <1>6, <1>f DEF SweepDisplaced
  <1>7. CASE SweepDone
    BY <1>7, <1>f DEF SweepDone
  <1>8. CASE \E g \in Gens : Remove(g)
    BY <1>8, <1>f, <1>0, HomeFacts DEF Remove, TypeOK
  <1>9. CASE Classify
    BY <1>9, <1>f, <1>0, HomeFacts DEF Classify, TypeOK, HasReceipt, Whole
  <1>10. CASE Adopt
    BY <1>10, <1>f, <1>0, HomeFacts DEF Adopt, TypeOK, IsCandidate, Verified
  <1>11. CASE Collect
    BY <1>11, <1>f, <1>0, HomeFacts DEF Collect, TypeOK, Stale
  <1>12. CASE Admit
    BY <1>12, <1>f, <1>0 DEF Admit
  <1>13. CASE InstallTemplate
    BY <1>13, <1>f, <1>0 DEF InstallTemplate, PointedIsSound
  <1>14. CASE StageTemplate
    BY <1>14, <1>f, <1>0 DEF StageTemplate
  <1>15. CASE Displace
    BY <1>15, <1>f, <1>0, HomeFacts DEF Displace, TypeOK, Present
  <1>16. CASE Swap
    BY <1>16, <1>f, <1>0, HomeFacts DEF Swap, TypeOK
  <1>17. CASE Commit
    BY <1>17, <1>f, <1>0, HomeFacts DEF Commit, TypeOK
  <1>18. CASE Confirm
    BY <1>18, <1>f, <1>0 DEF Confirm
  <1>19. CASE DropDisplaced
    BY <1>19, <1>f, <1>0 DEF DropDisplaced
  <1>20. CASE Finish
    BY <1>20, <1>f, <1>0, HomeFacts DEF Finish, TypeOK
  <1>21. CASE StagingFails
    <2>1. CASE pc \in {"stage", "staged"}
      BY <1>21, <2>1, <1>f, <1>0, HomeFacts, TreeFacts DEF StagingFails, TypeOK, NoTree, Whole, Present
    <2>2. CASE pc = "displaced"
      BY <1>21, <2>2, <1>f, <1>0, HomeFacts, TreeFacts DEF StagingFails, TypeOK, NoTree, Whole, Present
    <2>3. QED
      BY <1>21, <2>1, <2>2 DEF StagingFails
  <1>22. CASE ActivationFails
    BY <1>22, <1>f, <1>0, HomeFacts DEF ActivationFails, TypeOK
  <1>23. CASE UndoSwap
    BY <1>23, <1>f, <1>0, HomeFacts DEF UndoSwap, TypeOK
  <1>24. CASE UndoDisplace
    BY <1>24, <1>f, <1>0, HomeFacts, TreeFacts DEF UndoDisplace, TypeOK
  <1>25. CASE UndoFails
    <2>1. CASE pc = "undo"
      BY <1>25, <2>1, <1>f, <1>0, HomeFacts, TreeFacts DEF UndoFails, InTheWindow, TypeOK, NoTree, Whole, Present
    <2>2. CASE pc = "undone"
      BY <1>25, <2>2, <1>f, <1>0, HomeFacts, TreeFacts DEF UndoFails, InTheWindow, TypeOK, NoTree, Whole, Present
    <2>3. QED
      BY <1>25, <2>1, <2>2 DEF UndoFails
  <1>26. QED
    BY <1>1, <1>2, <1>3, <1>4, <1>5, <1>6, <1>7, <1>8, <1>9, <1>10, <1>11, <1>12,
       <1>13, <1>14, <1>15, <1>16, <1>17, <1>18, <1>19, <1>20, <1>21, <1>22,
       <1>23, <1>24, <1>25 DEF Next, Reconcile, Install, Undo

LEMMA InvHolds == Spec => []Inv
  BY InvInit, InvStep, PTL DEF Spec

\* Kills and failures at any step lose the active tree in two ways only, both
\* of them upgrades: killed between the rename of the new tree of the same
\* generation and the pointer, or undone although the pointer was written.
THEOREM ActivationLostInTwoWaysOnly == Spec => []LostInTwoWaysOnly
  <1>1. Inv => LostInTwoWaysOnly
    <2> SUFFICES ASSUME Inv, pointer # None, wound = "none"
                 PROVE  ActiveTreeStands
      BY DEF LostInTwoWaysOnly, Inv, TypeOK
    <2>1. CASE pc \in AtRest \cup InPlace
      BY <2>1 DEF Inv, Tracked, Restorable, ActiveTreeStands
    <2>2. CASE pc \in Swapping
      BY <2>2, HomeFacts DEF Inv, Tracked, ActiveTreeStands, HeldTree, TypeOK, NoTree, Whole
    <2>3. CASE pc \in {"committed", "clean"}
      BY <2>3 DEF Inv, NewTreeStands, ActiveTreeStands, PointedTree, PointedGen,
                  GenOrNone, Home
    <2>4. QED
      BY <2>1, <2>2, <2>3 DEF Inv, TypeOK, Phases, AtRest, InPlace, Swapping
  <1>2. QED
    BY <1>1, InvHolds, PTL

\* Whatever a start had to repair, it ends with the Host on the verified tree
\* of the template of the installed application.
THEOREM HostRunsVerifiedTemplate == Spec => []HostRunsTheTemplate
  <1>1. Inv => HostRunsTheTemplate
    BY DEF Inv, NewTreeStands, HostRunsTheTemplate
  <1>2. QED
    BY <1>1, InvHolds, PTL
\* The pointer moves in one direction only, to the template of the installed
\* application, and at that moment its tree stands whole where the pointer leads.
PointerIsEarned ==
    pointer' # pointer => pointer' = release /\ PointedTree' = Whole(release)

LEMMA PointerMoves ==
    ASSUME Inv, [Next]_vars
    PROVE  PointerIsEarned
  <1> USE DEF PointerIsEarned, Goes, disk, locals
  <1>0. release # None
    BY HomeFacts DEF Inv, TypeOK
  <1>1. CASE Commit
    BY <1>0, <1>1 DEF Commit, Inv, NewTreeStands, PointedTree, PointedGen, GenOrNone, Home
  <1>2. CASE Adopt
    BY <1>0, <1>2 DEF Adopt, Refuses, Verified, PointedTree, PointedGen, GenOrNone, Home
  <1>3. CASE Start \/ Quit \/ Kill \/ ReadFails \/ UNCHANGED vars \/ \E r \in Releases : Replace(r)
    BY <1>3 DEF Start, Quit, Kill, ReadFails, Replace, vars
  <1>4. CASE \/ RestoreDisplaced \/ SweepDone \/ Classify \/ Collect \/ Admit
             \/ \E s \in Slots : SweepDisplaced(s)
             \/ \E g \in Gens : Remove(g)
    BY <1>4 DEF RestoreDisplaced, SweepDone, Classify, Collect, Admit, SweepDisplaced, Remove
  <1>5. CASE InstallTemplate \/ StageTemplate \/ Displace \/ Swap \/ Confirm \/ DropDisplaced \/ Finish
    BY <1>5 DEF InstallTemplate, StageTemplate, Displace, Swap, Confirm, DropDisplaced, Finish
  <1>6. CASE Undo
    BY <1>6 DEF Undo, StagingFails, ActivationFails, UndoSwap, UndoDisplace, UndoFails
  <1>7. QED
    BY <1>1, <1>2, <1>3, <1>4, <1>5, <1>6 DEF Next, Reconcile, Install

\* No kill, failure, reconciliation or roll-back moves the pointer to a profile that
\* is not there whole, or back to an earlier one.
THEOREM PointerOnlyToWhole == Spec => [][PointerIsEarned]_vars
  <1>1. Inv /\ [Next]_vars => [PointerIsEarned]_vars
    BY PointerMoves
  <1>2. QED
    BY <1>1, InvInit, InvStep, PTL DEF Spec
=============================================================================
