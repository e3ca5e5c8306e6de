--------------------------- MODULE LivePinProofs ---------------------------
(***************************************************************************)
(* The runtime that runs is the pinned one, for every repository, every    *)
(* set of modules, and whatever is done to the checkout meanwhile, except  *)
(* for the modules that are changed in a way their mtime does not show.    *)
(***************************************************************************)
EXTENDS LivePin, TLAPS

\* Until it is checked, a module whose file was not written since the stamp, and
\* not changed unseen, is loaded from what the file holds.
UnwrittenIsLoaded ==
  \A m \in LoadedModules \ (written \cup unseen \cup checked) : loaded[m] = disk[m]

\* All modules are loaded before a revision is pinned.
LoadedInOrder ==
  at \in {"pinning", "protocol", "status", "sources"} => LoadedModules = Modules

\* Sources are checked after the revision is pinned, all of them before the run.
CheckedInOrder ==
  /\ checked # {} => at \in {"sources", "recheck", "running", "refused"}
  /\ at \in {"recheck", "running"} => checked = Modules

PinInv == PinTypeOK /\ UnwrittenIsLoaded /\ LoadedInOrder /\ CheckedInOrder /\ ChecksDoNotAge

USE ModulesAssumption, BlobAssumption, ReplaceableAssumption, NoneAssumption
USE DEF LoadedModules

LEMMA InitPin == Init => PinInv
  BY DEF Init, PinInv, PinTypeOK, UnwrittenIsLoaded, LoadedInOrder, CheckedInOrder,
         ChecksDoNotAge, Files, Places

\* Whoever works in the checkout changes files and HEAD, and leaves a later mtime
\* or a change that is known to be unseen.
LEMMA SomebodyPin == PinInv /\ Somebody => PinInv'
<1> SUFFICES ASSUME PinInv, Somebody PROVE PinInv'
  OBVIOUS
<1> USE DEF PinInv, PinTypeOK
<1>1. UNCHANGED <<loaded, at, pinned, checked>>
  BY DEF Somebody, Checkout, MoveHead, Edit, Replace
<1>2. CASE UNCHANGED <<disk, written, unseen>> /\ head' \in Revisions
  BY <1>1, <1>2 DEF UnwrittenIsLoaded, LoadedInOrder, CheckedInOrder, ChecksDoNotAge
<1>3. CASE \E new \in [Files -> Contents \cup {Absent}] : Rewrite(new) /\ head' \in Revisions
  <2> PICK new \in [Files -> Contents \cup {Absent}] : Rewrite(new) /\ head' \in Revisions
    BY <1>3
  <2>1. /\ disk' = new /\ written' \subseteq Files /\ written \subseteq written'
        /\ unseen' \subseteq Modules /\ unseen \subseteq unseen'
    BY DEF Rewrite
  <2>2. PinTypeOK'
    BY <1>1, <2>1
  <2>3. ASSUME NEW m \in Modules, loaded[m] # None, m \notin written' \cup unseen'
        PROVE  new[m] = disk[m]
    BY <2>3 DEF Rewrite, Files
  <2>4. UnwrittenIsLoaded'
    BY <1>1, <2>1, <2>3 DEF UnwrittenIsLoaded
  <2> QED
    BY <1>1, <2>1, <2>2, <2>4 DEF LoadedInOrder, CheckedInOrder, ChecksDoNotAge
<1>4. ASSUME NEW rev \in Revisions, Checkout(rev)
      PROVE \E new \in [Files -> Contents \cup {Absent}] : Rewrite(new) /\ head' \in Revisions
  BY <1>4 DEF Checkout
<1>5. ASSUME NEW f \in Files, NEW content \in Contents, Edit(f, content)
      PROVE \E new \in [Files -> Contents \cup {Absent}] : Rewrite(new) /\ head' \in Revisions
  <2>1. [disk EXCEPT ![f] = content] \in [Files -> Contents \cup {Absent}]
    OBVIOUS
  <2> QED
    BY <1>5, <2>1 DEF Edit
<1>6. ASSUME NEW rev \in Revisions, MoveHead(rev) PROVE UNCHANGED <<disk, written, unseen>> /\ head' \in Revisions
  BY <1>6 DEF MoveHead
<1>7. ASSUME NEW f \in Replaceable, NEW content \in Contents, Replace(f, content) PROVE PinInv'
  <2>1. /\ f \in Files /\ disk' = [disk EXCEPT ![f] = content] /\ written' = written \ {f}
        /\ unseen' = unseen \cup (({f} \cap LoadedModules) \ checked) /\ head' = head
    BY <1>7 DEF Replace
  <2>2. PinTypeOK'
    BY <1>1, <2>1
  <2>3. ASSUME NEW m \in LoadedModules, m \notin written' \cup unseen' \cup checked
        PROVE  m \in Files /\ m # f /\ m \notin written \cup unseen
    BY <2>1, <2>3 DEF Files
  <2>4. UnwrittenIsLoaded'
    BY <1>1, <2>1, <2>3 DEF UnwrittenIsLoaded
  <2> QED
    BY <1>1, <2>1, <2>2, <2>4 DEF LoadedInOrder, CheckedInOrder, ChecksDoNotAge
<1> QED
  BY <1>2, <1>3, <1>4, <1>5, <1>6, <1>7 DEF Somebody

\* The program's steps: only an import, the pin and a check of a source disturb the parts.
LEMMA ProgramPin == PinInv /\ Program => PinInv'
<1> SUFFICES ASSUME PinInv, Program PROVE PinInv'
  OBVIOUS
<1> USE DEF PinInv, PinTypeOK, Places, Proceed, Refuse, repository
<1>0. UNCHANGED <<head, disk, written, unseen>>
  BY DEF Program
<1>1. CASE LoadPackage \/ LoadMain
  BY <1>0, <1>1 DEF LoadPackage, LoadMain, Load, Files, UnwrittenIsLoaded, LoadedInOrder, CheckedInOrder, ChecksDoNotAge
<1>2. CASE Stamp
  BY <1>0, <1>2 DEF Stamp, UnwrittenIsLoaded, LoadedInOrder, CheckedInOrder, ChecksDoNotAge
<1>3. ASSUME NEW m \in Modules, Import(m) PROVE PinInv'
  <2>1. PinTypeOK' /\ checked = {}
    BY <1>0, <1>3 DEF Import, Files, CheckedInOrder
  <2> QED
    BY <1>0, <1>3, <2>1 DEF Import, UnwrittenIsLoaded, LoadedInOrder, CheckedInOrder, ChecksDoNotAge
<1>4. CASE Imported
  BY <1>0, <1>4 DEF Imported, UnwrittenIsLoaded, LoadedInOrder, CheckedInOrder, ChecksDoNotAge
<1>5. CASE Pin
  BY <1>0, <1>5 DEF Pin, UnwrittenIsLoaded, LoadedInOrder, CheckedInOrder, ChecksDoNotAge
<1>6. CASE CheckProtocol \/ GitStatus
  BY <1>0, <1>6 DEF CheckProtocol, GitStatus, UnwrittenIsLoaded, LoadedInOrder, CheckedInOrder,
                    ChecksDoNotAge
<1>7. CASE SourcesChecked \/ Recheck
  BY <1>0, <1>7 DEF SourcesChecked, Recheck, UnwrittenIsLoaded, LoadedInOrder, CheckedInOrder,
                    ChecksDoNotAge
<1>8. CASE ImportFails \/ ProtocolRefused \/ TreeRefused \/ SourceRefused \/ HeadMoved
  BY <1>0, <1>8 DEF ImportFails, ProtocolRefused, TreeRefused, SourceRefused, HeadMoved,
                    UnwrittenIsLoaded, LoadedInOrder, CheckedInOrder, ChecksDoNotAge
<1>9. ASSUME NEW m \in Modules, CheckSource(m) PROVE PinInv'
  <2>1. m \notin unseen => loaded[m] = Blob[pinned][m]
    BY <1>9 DEF CheckSource, SourceIsPinned, Committed, UnwrittenIsLoaded, LoadedInOrder
  <2>2. ChecksDoNotAge'
    BY <1>0, <1>9, <2>1 DEF CheckSource, ChecksDoNotAge
  <2> QED
    BY <1>0, <1>9, <2>2 DEF CheckSource, UnwrittenIsLoaded, LoadedInOrder, CheckedInOrder
<1> QED
  BY <1>1, <1>2, <1>3, <1>4, <1>5, <1>6, <1>7, <1>8, <1>9 DEF Program

LEMMA StutterPin == PinInv /\ UNCHANGED vars => PinInv'
  BY DEF PinInv, PinTypeOK, vars, UnwrittenIsLoaded, LoadedInOrder, CheckedInOrder, ChecksDoNotAge

\* The recorded revision is that of every module that runs, __main__ and the
\* package among them, except those that were changed unseen.
THEOREM RuntimeIsPinnedHolds == Spec => []RuntimeIsPinned
<1>1. PinInv => RuntimeIsPinned
  BY DEF PinInv, CheckedInOrder, ChecksDoNotAge, RuntimeIsPinned
<1>2. PinInv /\ [Next]_vars => PinInv'
  BY SomebodyPin, ProgramPin, StutterPin DEF Next
<1> QED
  BY <1>1, <1>2, InitPin, PTL DEF Spec

\* A check that passed stays true of the loaded code, whatever happens to the file.
THEOREM ChecksDoNotAgeHolds == Spec => []ChecksDoNotAge
<1>1. PinInv => ChecksDoNotAge
  BY DEF PinInv
<1>2. PinInv /\ [Next]_vars => PinInv'
  BY SomebodyPin, ProgramPin, StutterPin DEF Next
<1> QED
  BY <1>1, <1>2, InitPin, PTL DEF Spec

\* Every variable keeps its type.
THEOREM PinTypeCorrect == Spec => []PinTypeOK
<1>1. PinInv => PinTypeOK
  BY DEF PinInv
<1>2. PinInv /\ [Next]_vars => PinInv'
  BY SomebodyPin, ProgramPin, StutterPin DEF Next
<1> QED
  BY <1>1, <1>2, InitPin, PTL DEF Spec
=============================================================================
