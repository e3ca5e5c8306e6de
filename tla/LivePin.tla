------------------------------- MODULE LivePin -------------------------------
(***************************************************************************)
(* The checks of main in evals/live.py, made one after the other on a      *)
(* checkout that somebody may be changing: commits, resets, checkouts and  *)
(* edits happen between any two of them.  The code that runs was loaded    *)
(* before the first check.                                                 *)
(*                                                                         *)
(* A file's bytes are its content; its mtime matters only as whether it is *)
(* at or after IMPORTED_NS.  `python -m evals.live` imports the package    *)
(* evals and then runs evals.live: both are read before that time is       *)
(* taken, every other module after it.                                     *)
(***************************************************************************)
EXTENDS Naturals, FiniteSets

CONSTANTS
  Modules,     \* the loaded agenticdef and evals modules
  Package,     \* the package evals, its __init__.py
  Main,        \* the module run as __main__, evals.live
  Contents,    \* what a file may hold
  Revisions,   \* the commits of the repository
  Blob,        \* Blob[r][f]: the content of file f at revision r, or Absent
  Replaceable, \* the files that somebody may replace by one with an older mtime
  Absent, None

Protocol == "protocol"
Files == Modules \cup {Protocol}

ASSUME ModulesAssumption ==
  {Package, Main} \subseteq Modules /\ Package # Main /\ Protocol \notin Modules
ASSUME ReplaceableAssumption == Replaceable \subseteq Files
ASSUME BlobAssumption == Blob \in [Revisions -> [Files -> Contents \cup {Absent}]]
ASSUME NoneAssumption == None \notin Contents \cup Revisions /\ Absent \notin Contents

VARIABLES
  head, disk,      \* the repository: HEAD and the working tree
  written,         \* the files whose mtime is at or after IMPORTED_NS
  loaded,          \* what the interpreter has loaded of each module, or None
  at,              \* where the program is
  pinned,          \* the revision that is recorded
  checked,         \* the modules whose source was found to be the pinned one
  unseen           \* history: the modules changed between their load and their
                   \* check by a write that their mtime does not show

repository == <<head, disk>>
vars == <<head, disk, written, loaded, at, pinned, checked, unseen>>

Places == {"starting", "package", "stamping", "importing", "pinning", "protocol", "status",
           "sources", "recheck", "running", "refused"}

TreeMatches(rev) == \A f \in Files : disk[f] = Blob[rev][f]

\* The program starts in a checkout of some revision, edited or not.
Init ==
  /\ head \in Revisions
  /\ disk \in [Files -> Contents \cup {Absent}]
  /\ written = {}
  /\ loaded = [m \in Modules |-> None]
  /\ at = "starting" /\ pinned = None /\ checked = {} /\ unseen = {}

-----------------------------------------------------------------------------
(* Somebody else works in the checkout.                                    *)

Stamped == at \notin {"starting", "package", "stamping"}

LoadedModules == {m \in Modules : loaded[m] # None}

\* The usual write leaves the present time as the mtime.
Rewrite(new) ==
  LET changed == {f \in Files : new[f] # disk[f]} IN
  /\ disk' = new
  /\ written' = IF Stamped THEN written \cup changed ELSE written
  /\ unseen' = IF Stamped THEN unseen ELSE unseen \cup (changed \cap LoadedModules)

\* git checkout writes the files that differ from the target.
Checkout(rev) ==
  /\ head' = rev
  /\ Rewrite(Blob[rev])
  /\ UNCHANGED <<loaded, at, pinned, checked>>

Edit(f, content) ==
  /\ Rewrite([disk EXCEPT ![f] = content])
  /\ UNCHANGED <<head, loaded, at, pinned, checked>>

\* mv or cp -p of a file that was written before the run, over another one.  The
\* clock of a file system may also lag a tick behind IMPORTED_NS.
Replace(f, content) ==
  /\ disk' = [disk EXCEPT ![f] = content]
  /\ written' = written \ {f}
  /\ unseen' = unseen \cup (({f} \cap LoadedModules) \ checked)
  /\ UNCHANGED <<head, loaded, at, pinned, checked>>

\* A commit of the tree as it is, or a soft reset: HEAD moves, no file does.
MoveHead(rev) ==
  /\ head' = rev
  /\ UNCHANGED <<disk, written, loaded, at, pinned, checked, unseen>>

Somebody ==
  /\ at \notin {"running", "refused"}
  /\ \/ \E rev \in Revisions : Checkout(rev) \/ MoveHead(rev)
     \/ \E f \in Files, content \in Contents : Edit(f, content)
     \/ \E f \in Replaceable, content \in Contents : Replace(f, content)

-----------------------------------------------------------------------------
(* The program.                                                            *)

Proceed(from, to) == at = from /\ at' = to
Refuse(from) == at = from /\ at' = "refused" /\ UNCHANGED <<loaded, pinned, checked>>

\* What the interpreter reads before the first statement of evals.live.
Load(m) ==
  /\ disk[m] # Absent
  /\ loaded' = [loaded EXCEPT ![m] = disk[m]]
  /\ UNCHANGED <<pinned, checked>>

LoadPackage == Proceed("starting", "package") /\ Load(Package)
LoadMain == Proceed("package", "stamping") /\ Load(Main)

Stamp == Proceed("stamping", "importing") /\ UNCHANGED <<loaded, pinned, checked>>

Import(m) ==
  /\ at = "importing" /\ loaded[m] = None
  /\ disk[m] # Absent
  /\ loaded' = [loaded EXCEPT ![m] = disk[m]]
  /\ UNCHANGED <<at, pinned, checked>>

ImportFails == Refuse("importing") /\ \E m \in Modules : loaded[m] = None /\ disk[m] = Absent

Imported ==
  /\ \A m \in Modules : loaded[m] # None
  /\ Proceed("importing", "pinning")
  /\ UNCHANGED <<loaded, pinned, checked>>

Pin ==
  /\ Proceed("pinning", "protocol")
  /\ pinned' = head
  /\ UNCHANGED <<loaded, checked>>

\* Mutant: the file is compared with whatever HEAD is by now.
CommittedAtHead(f) == Blob[head][f] # Absent /\ disk[f] = Blob[head][f]

\* _committed: the file has a blob at the pinned revision, and equals it.
Committed(f) == Blob[pinned][f] # Absent /\ disk[f] = Blob[pinned][f]

CheckProtocol ==
  /\ Proceed("protocol", "status")
  /\ Committed(Protocol)
  /\ UNCHANGED <<loaded, pinned, checked>>

ProtocolRefused == Refuse("protocol") /\ ~Committed(Protocol)

GitStatus ==
  /\ Proceed("status", "sources")
  /\ TreeMatches(head)
  /\ UNCHANGED <<loaded, pinned, checked>>

TreeRefused == Refuse("status") /\ ~TreeMatches(head)

\* Mutant: when the file was written is not looked at.
SourceIsPinnedAnyTime(m) == Committed(m)

SourceIsPinned(m) == Committed(m) /\ m \notin written

CheckSource(m) ==
  /\ at = "sources" /\ m \notin checked
  /\ SourceIsPinned(m)
  /\ checked' = checked \cup {m}
  /\ UNCHANGED <<at, loaded, pinned>>

SourceRefused == Refuse("sources") /\ \E m \in Modules \ checked : ~SourceIsPinned(m)

SourcesChecked ==
  /\ checked = Modules
  /\ Proceed("sources", "recheck")
  /\ UNCHANGED <<loaded, pinned, checked>>

Recheck == head = pinned /\ Proceed("recheck", "running") /\ UNCHANGED <<loaded, pinned, checked>>
HeadMoved == Refuse("recheck") /\ head # pinned

Program ==
  /\ \/ LoadPackage \/ LoadMain \/ Stamp \/ \E m \in Modules : Import(m) \/ CheckSource(m)
     \/ ImportFails \/ Imported \/ Pin \/ CheckProtocol \/ ProtocolRefused
     \/ GitStatus \/ TreeRefused \/ SourceRefused \/ SourcesChecked
     \/ Recheck \/ HeadMoved
  /\ UNCHANGED <<repository, written, unseen>>

Next == Program \/ Somebody

Spec == Init /\ [][Next]_vars

-----------------------------------------------------------------------------
PinTypeOK ==
  /\ head \in Revisions /\ disk \in [Files -> Contents \cup {Absent}]
  /\ written \subseteq Files /\ checked \subseteq Modules /\ unseen \subseteq Modules
  /\ loaded \in [Modules -> Contents \cup {None}]
  /\ at \in Places
  /\ pinned \in Revisions \cup {None}

\* A module whose file is now the one at the pinned revision, and was not
\* changed since it was loaded by a write that its mtime does not show, is
\* loaded from that revision, as often as the checkout moved meanwhile
\* (check_runtime_sources): the runtime that runs is the one that is recorded.
RuntimeIsPinned ==
  at = "running" => \A m \in Modules \ unseen : loaded[m] = Blob[pinned][m]

\* A check of such a module that has passed stays true of the loaded code,
\* however its file is changed a moment later (check_runtime_sources, the loop
\* over the modules).
ChecksDoNotAge == \A m \in checked \ unseen : loaded[m] = Blob[pinned][m]

\* evals/SPEC.md, EV-LIVE-03: "so code loaded before a later commit or checkout
\* cannot pass as the new revision", which it says "including evals.live itself
\* when run as __main__".
MainIsPinned == at = "running" => loaded[Main] = Blob[pinned][Main]
=============================================================================
