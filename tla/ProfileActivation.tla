------------------------- MODULE ProfileActivation -------------------------
(***************************************************************************)
(* The profile the packaged application runs its Host from: a pointer file  *)
(* names the active generation, a directory of executable files under a     *)
(* receipt.  Each start reconciles what an interrupted start has left       *)
(* behind, admits the data root, and installs the signed template of the    *)
(* application if the active profile is not that template.                  *)
(*                                                                          *)
(* A rename is atomic, and so is the pointer (temporary file, fsync,        *)
(* rename).  The removal of a directory is not: files go one by one.  The   *)
(* process may be killed between any two steps, which skips every catch and *)
(* finally, and a file operation may fail, which does not.                  *)
(***************************************************************************)
EXTENDS Naturals, FiniteSets

CONSTANTS
    Releases,     \* signed templates: what generation and receipt digest name
    Gens,         \* generation ids, which name the directories
    GenOf,        \* the generation id in the receipt of a release
    Slots,        \* bound: displaced copies in the staging directory
    MaxKills,     \* bound: kills of the process
    MaxFaults,    \* bound: file operations that fail
    None

ASSUME ReleasesHaveGens == GenOf \in [Releases -> Gens]
ASSUME NoneIsNoValue == None \notin Releases \cup Gens \cup Slots
ASSUME BoundsAreNat == MaxKills \in Nat /\ MaxFaults \in Nat

VARIABLES
    pointer,      \* the release profile-current.json names, or None
    generations,  \* what stands in the directory of a generation
    displaced,    \* what stands in the displaced-* directories of staging
    scratch,      \* staging holds a transaction, or the root a pointer temp file
    release,      \* the template inside the application that is installed
    pc,           \* the step the start is at; "off", "up" and "refused" outside
    existing,     \* local of the start: the profile that was active before
    held,         \* local of the start: its displaced directory
    viable,       \* local of the start: the directories with a receipt
    doomed,       \* local of the start: the directories it is removing
    kills, faults,
    wound         \* history: how an activation may have been lost

disk   == <<pointer, generations, displaced, scratch>>
locals == <<existing, held, viable, doomed>>
vars   == <<disk, release, pc, locals, kills, faults, wound>>

NoTree == [of |-> None, is |-> "gone"]

\* torn: files are missing under a receipt.  husk: the receipt is gone.
Tree == [of : Releases, is : {"whole", "torn", "husk"}] \cup {NoTree}
Whole_Bug(r) == [of |-> r, is |-> "copied"]
Whole(r) == [of |-> r, is |-> "whole"]

Present(t) == t # NoTree
HasReceipt(t) == t.is \in {"whole", "torn"}

\* A recursive removal, one file after the other.
Shrunk(t) == {[t EXCEPT !.is = s] : s \in
                 CASE t.is = "whole" -> {"torn", "husk"}
                   [] t.is = "torn"  -> {"husk"}
                   [] OTHER          -> {}}
             \cup (IF t.is = "husk" THEN {NoTree} ELSE {})

Phases == {"off", "up", "refused", "reconcile", "sweep", "classify", "adopt",
           "collect", "admit", "install", "stage", "staged", "displaced",
           "swapped", "committed", "clean", "undo", "undone"}

TypeOK ==
    /\ pointer \in Releases \cup {None}
    /\ generations \in [Gens -> Tree]
    /\ displaced \in [Slots -> Tree]
    /\ scratch \in {"none", "left"}
    /\ release \in Releases
    /\ pc \in Phases
    /\ existing \in Releases \cup {None}
    /\ held \in Slots \cup {None}
    /\ viable \subseteq Gens /\ doomed \subseteq Gens
    /\ kills \in 0 .. MaxKills /\ faults \in 0 .. MaxFaults
    /\ wound \in {"none", "killed", "undone"}

Init ==
    /\ pointer = None
    /\ generations = [g \in Gens |-> NoTree]
    /\ displaced = [s \in Slots |-> NoTree]
    /\ scratch = "none"
    /\ release \in Releases
    /\ pc = "off"
    /\ existing = None /\ held = None /\ viable = {} /\ doomed = {}
    /\ kills = 0 /\ faults = 0 /\ wound = "none"

Home == GenOf[release]
GenOrNone(r) == IF r = None THEN None ELSE GenOf[r]
PointedGen == GenOrNone(pointer)
PointedTree == IF pointer = None THEN NoTree ELSE generations[PointedGen]
HeldTree == IF held = None THEN NoTree ELSE displaced[held]
SameId == GenOrNone(existing) = Home

Goes(p) == pc' = p /\ UNCHANGED <<release, kills, wound>>
NoFault == UNCHANGED faults
Fault == faults < MaxFaults /\ faults' = faults + 1
Forgets == existing' = None /\ held' = None /\ viable' = {} /\ doomed' = {}
Refuses == Goes("refused") /\ Forgets

(* ------------------------------ the start ------------------------------- *)

\* Another build of the application is put in place while it does not run.
Replace(r) ==
    /\ pc = "off" /\ r # release
    /\ release' = r
    /\ UNCHANGED <<disk, pc, locals, kills, faults, wound>>

Start == pc = "off" /\ Goes("reconcile") /\ NoFault /\ UNCHANGED <<disk, locals>>

Quit == pc \in {"up", "refused"} /\ Goes("off") /\ NoFault /\ UNCHANGED <<disk, locals>>

\* Only a killed process leaves a directory at a half-removed stage for good.
InTheWindow == pc \in {"swapped", "undo"} /\ SameId /\ pointer = existing

Kill ==
    /\ pc \notin {"off", "refused"} /\ kills < MaxKills
    /\ kills' = kills + 1
    /\ pc' = "off" /\ Forgets
    /\ wound' = IF InTheWindow /\ wound = "none" THEN "killed" ELSE wound
    /\ scratch' \in (IF pc = "adopt" THEN {scratch, "left"} ELSE {scratch})
    /\ UNCHANGED <<pointer, generations, displaced, release, faults>>

\* A file that cannot be read or renamed ends the start.
ReadFails ==
    /\ pc \in {"reconcile", "adopt", "install"}
    /\ Fault /\ Refuses /\ UNCHANGED disk

(* --------------------------- the reconciliation ------------------------- *)

Matches_Bug == {s \in Slots : HasReceipt(displaced[s]) /\ displaced[s].of = release}
Matches == {s \in Slots : HasReceipt(displaced[s]) /\ displaced[s].of = pointer}

PointedIsMissing == pointer # None /\ ~Present(PointedTree)

\* Commit action 1: the displaced copy of a missing active generation returns.
RestoreDisplaced ==
    /\ pc = "reconcile" /\ NoFault
    /\ \/ /\ ~PointedIsMissing
          /\ Goes("sweep") /\ UNCHANGED <<disk, locals>>
       \/ \E s \in Matches :
             /\ PointedIsMissing /\ Matches = {s}
             /\ generations' = [generations EXCEPT ![GenOf[pointer]] = displaced[s]]
             /\ displaced' = [displaced EXCEPT ![s] = NoTree]
             /\ Goes("sweep") /\ UNCHANGED <<pointer, scratch, locals>>
       \/ /\ PointedIsMissing /\ \A s \in Slots : Matches # {s}
          /\ Refuses /\ UNCHANGED disk

\* The staging area is scratch; what cannot be removed stays.
SweepDisplaced(s) ==
    /\ pc = "sweep"
    /\ \E t \in Shrunk(displaced[s]) : displaced' = [displaced EXCEPT ![s] = t]
    /\ Goes("sweep") /\ NoFault
    /\ UNCHANGED <<pointer, generations, scratch, locals>>

SweepDone ==
    /\ pc = "sweep"
    /\ \/ NoFault /\ scratch' = "none" /\ \A s \in Slots : ~Present(displaced[s])
       \/ Fault /\ scratch' \in {"none", scratch}
    /\ Goes("classify") /\ UNCHANGED <<pointer, generations, displaced, locals>>

\* Removal of the directories marked, again file by file and at best effort.
Remove(g) ==
    /\ pc \in {"adopt", "collect", "admit"} /\ g \in doomed
    /\ \/ /\ \E t \in Shrunk(generations[g]) : generations' = [generations EXCEPT ![g] = t]
          /\ NoFault /\ UNCHANGED doomed
       \/ /\ IF Present(generations[g]) THEN Fault ELSE NoFault
          /\ doomed' = doomed \ {g} /\ UNCHANGED generations
    /\ Goes(pc) /\ UNCHANGED <<pointer, displaced, scratch, existing, held, viable>>

Classify ==
    /\ pc = "classify"
    /\ viable' = {g \in Gens : HasReceipt(generations[g])}
    /\ doomed' = {g \in Gens : Present(generations[g])} \ viable'
    /\ Goes("adopt") /\ NoFault /\ UNCHANGED <<disk, existing, held>>

IsCandidate ==
    /\ Home \in viable
    /\ Home # PointedGen
    /\ generations[Home].of = release

\* The checks of the installation, in place.
Verified_Bug(g) == HasReceipt(generations[g])
Verified(g) == generations[g] = Whole(release)

\* Commit action 2: the killed roll-forward is completed.  The pointer is
\* written before it is read back.
Adopt ==
    /\ pc = "adopt" /\ doomed = {} /\ UNCHANGED <<generations, displaced>>
    /\ \/ /\ IsCandidate /\ Verified(Home)
          /\ pointer' = release
          /\ \/ NoFault /\ Goes("collect") /\ UNCHANGED <<scratch, locals>>
             \/ Fault /\ Refuses /\ UNCHANGED scratch
       \/ /\ IsCandidate /\ Verified(Home)
          /\ Fault /\ Refuses /\ scratch' \in {scratch, "left"} /\ UNCHANGED pointer
       \/ /\ IsCandidate /\ ~Verified(Home)
          /\ doomed' = {Home}
          /\ NoFault /\ Goes("collect") /\ UNCHANGED <<pointer, scratch, existing, held, viable>>
       \/ /\ ~IsCandidate
          /\ NoFault /\ Goes("collect") /\ UNCHANGED <<pointer, scratch, locals>>

\* Of the generations that are not active the newest is kept to roll back to.
\* Their age is not modelled: any may be the newest, and on a tie all stay.
Stale == {g \in viable : Present(generations[g]) /\ g # PointedGen}

Collect ==
    /\ pc = "collect" /\ doomed = {}
    /\ \/ /\ pointer = None
          /\ doomed' = {g \in viable : Present(generations[g])}
       \/ /\ pointer # None /\ Cardinality(Stale) > 1
          /\ \E kept \in Stale : doomed' \in {Stale \ {kept}, {}}
       \/ /\ pointer # None /\ Cardinality(Stale) <= 1
          /\ doomed' = {}
    /\ Goes("admit") /\ NoFault /\ UNCHANGED <<disk, existing, held, viable>>

Pristine ==
    /\ scratch = "none"
    /\ \A g \in Gens : ~Present(generations[g])
    /\ \A s \in Slots : ~Present(displaced[s])

\* A root without a pointer must hold nothing of Sage.
Admit ==
    /\ pc = "admit" /\ doomed = {} /\ NoFault /\ UNCHANGED disk
    /\ \/ /\ pointer # None \/ Pristine
          /\ Goes("install") /\ UNCHANGED locals
       \/ pointer = None /\ ~Pristine /\ Refuses

(* ---------------------------- the installation -------------------------- *)

\* The active profile is read and verified before anything is compared.
PointedIsSound == PointedTree = Whole(pointer)
HomeIsTaken == Present(generations[Home])

InstallTemplate_Bug ==
    /\ pc = "install" /\ NoFault /\ UNCHANGED disk
    /\ \/ pointer = None /\ Goes("stage") /\ UNCHANGED locals
       \/ pointer # None /\ PointedIsSound /\ Goes("up") /\ Forgets
       \/ pointer # None /\ ~PointedIsSound /\ Refuses

InstallTemplate ==
    /\ pc = "install" /\ NoFault /\ UNCHANGED disk
    /\ \/ /\ pointer = release /\ PointedIsSound
          /\ Goes("up") /\ Forgets
       \/ /\ pointer # None /\ pointer # release /\ PointedIsSound
          /\ PointedGen = Home \/ ~HomeIsTaken
          /\ existing' = pointer
          /\ Goes("stage") /\ UNCHANGED <<held, viable, doomed>>
       \/ /\ pointer = None /\ ~HomeIsTaken
          /\ Goes("stage") /\ UNCHANGED locals
       \/ /\ pointer # None /\ ~PointedIsSound
          /\ Refuses
       \/ /\ pointer = None \/ PointedIsSound
          /\ PointedGen # Home /\ HomeIsTaken
          /\ Refuses

\* The template is copied into the transaction and verified there.
StageTemplate ==
    /\ pc = "stage" /\ Goes("staged") /\ NoFault
    /\ scratch' = "left"
    /\ UNCHANGED <<pointer, generations, displaced, locals>>

\* The directory is named by a random id.
FreshName == CHOOSE s \in Slots : ~Present(displaced[s])

Displace ==
    /\ pc = "staged" /\ SameId /\ NoFault
    /\ \E s \in Slots : ~Present(displaced[s])
    /\ held' = FreshName
    /\ displaced' = [displaced EXCEPT ![FreshName] = generations[Home]]
    /\ generations' = [generations EXCEPT ![Home] = NoTree]
    /\ Goes("displaced") /\ UNCHANGED <<pointer, scratch, existing, viable, doomed>>

Swap ==
    /\ pc = (IF SameId THEN "displaced" ELSE "staged") /\ NoFault
    /\ generations' = [generations EXCEPT ![Home] = Whole(release)]
    /\ Goes("swapped") /\ UNCHANGED <<pointer, displaced, scratch, locals>>

Commit ==
    /\ pc = "swapped" /\ NoFault
    /\ pointer' = release
    /\ Goes("committed") /\ UNCHANGED <<generations, displaced, scratch, locals>>

Confirm ==
    /\ pc = "committed" /\ NoFault /\ PointedIsSound
    /\ Goes("clean") /\ UNCHANGED <<disk, locals>>

DropDisplaced ==
    /\ pc = "clean" /\ NoFault
    /\ \E t \in Shrunk(HeldTree) : displaced' = [displaced EXCEPT ![held] = t]
    /\ Goes("clean") /\ UNCHANGED <<pointer, generations, scratch, locals>>

\* The profile stands when the transaction directory cannot be removed; the
\* start does not.
Finish ==
    /\ pc = "clean" /\ ~Present(HeldTree)
    /\ Forgets /\ UNCHANGED <<pointer, generations, displaced>>
    /\ \/ NoFault /\ scratch' = "none" /\ Goes("up")
       \/ Fault /\ UNCHANGED scratch /\ Goes("refused")

\* Before the new tree is in place a failure leaves what is there; the
\* `finally` removes the transaction.
StagingFails ==
    /\ pc \in {"stage", "staged", "displaced"}
    /\ Fault /\ Refuses
    /\ scratch' = "none" /\ UNCHANGED <<pointer, generations, displaced>>

\* After it, a first installation leaves the tree for the next start to adopt,
\* and an upgrade takes it out again, the pointer written or not.
ActivationFails ==
    /\ pc \in {"swapped", "committed", "clean"} /\ Fault
    /\ pc = "clean" => Present(HeldTree)
    /\ UNCHANGED <<pointer, generations, displaced, release, kills>>
    /\ \/ /\ existing = None
          /\ Refuses /\ scratch' = "none"
       \/ /\ existing # None
          /\ pc' = "undo"
          /\ wound' = IF pointer = release /\ wound = "none" THEN "undone" ELSE wound
          /\ UNCHANGED <<scratch, locals>>

UndoSwap ==
    /\ pc = "undo" /\ NoFault
    /\ \/ /\ \E t \in Shrunk(generations[Home]) : generations' = [generations EXCEPT ![Home] = t]
          /\ Goes("undo")
       \/ /\ ~Present(generations[Home])
          /\ Goes("undone") /\ UNCHANGED generations
    /\ UNCHANGED <<pointer, displaced, scratch, locals>>

UndoDisplace ==
    /\ pc = "undone" /\ NoFault
    /\ IF held # None
       THEN /\ generations' = [generations EXCEPT ![Home] = HeldTree]
            /\ displaced' = [displaced EXCEPT ![held] = NoTree]
       ELSE UNCHANGED <<generations, displaced>>
    /\ Refuses /\ scratch' = "none" /\ UNCHANGED pointer

\* What goes wrong while undoing is swallowed: the displaced copy stays.
UndoFails ==
    /\ pc \in {"undo", "undone"} /\ Fault
    /\ pc' = "refused" /\ Forgets
    /\ wound' = IF InTheWindow /\ wound = "none" THEN "killed" ELSE wound
    /\ scratch' = "none" /\ UNCHANGED <<pointer, generations, displaced, release, kills>>

Reconcile ==
    \/ RestoreDisplaced \/ SweepDone \/ Classify \/ Adopt \/ Collect
    \/ \E s \in Slots : SweepDisplaced(s)
    \/ \E g \in Gens : Remove(g)

Install ==
    \/ InstallTemplate \/ StageTemplate \/ Displace \/ Swap \/ Commit
    \/ Confirm \/ DropDisplaced \/ Finish

Undo == StagingFails \/ ActivationFails \/ UndoSwap \/ UndoDisplace \/ UndoFails

Next ==
    \/ \E r \in Releases : Replace(r)
    \/ Start \/ Quit \/ Kill \/ ReadFails
    \/ Reconcile \/ Admit \/ Install \/ Undo

\* A start goes on by itself; who is refused starts again.
Fairness ==
    /\ WF_vars(Start) /\ WF_vars(pc = "refused" /\ Quit)
    /\ WF_vars(Reconcile \/ Admit \/ Install \/ UndoSwap \/ UndoDisplace)

Spec == Init /\ [][Next]_vars
FairSpec == Spec /\ Fairness

(* ------------------------------ properties ------------------------------ *)

\* A file-by-file copy of the active profile is there: in place, or displaced.
ActiveTreeStands ==
    \/ PointedTree = Whole(pointer)
    \/ \E s \in Slots : displaced[s] = Whole(pointer)

\* The tree the pointer names is never lost, but in two ways: the process dies
\* between the second rename of a same-generation upgrade and its pointer, or
\* the upgrade is undone although its pointer has been written.
LostInTwoWaysOnly ==
    (pointer # None /\ ~ActiveTreeStands) => wound # "none"

\* The Host is started from the verified tree of the template in the
\* application, whatever the start has had to repair.
HostRunsTheTemplate ==
    pc = "up" => pointer = release /\ PointedTree = Whole(release)

\* What no start can settle by itself: two displaced copies of the active
\* generation, or its rebuild under the id of a generation kept to roll back to.
Ambiguous == PointedIsMissing /\ Cardinality(Matches) > 1
NamesakeInTheWay ==
    /\ PointedGen # Home
    /\ Present(generations[Home]) /\ generations[Home].of # release

\* However often starts are killed or fail, the application comes up again.
StartsConverge ==
    []<>(pc = "up" \/ wound # "none" \/ Ambiguous \/ NamesakeInTheWay)
=============================================================================
