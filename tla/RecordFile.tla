----------------------------- MODULE RecordFile -----------------------------
(***************************************************************************)
(* JsonRepository at the level of its files, for one key: the claim        *)
(* directory, record.json in it, and the temporary file of each write,     *)
(* which is filled, synchronised, renamed over record.json and made        *)
(* durable by a synchronisation of the directory.  Any of these steps may  *)
(* fail, a process may be killed between two of them, and a power loss     *)
(* takes whatever was not synchronised: nothing ever synchronises the      *)
(* directory that holds the claim directories.                             *)
(*                                                                         *)
(* Readers and the other processes run freely between the steps.  A record *)
(* is the number of writes that led to it; the last one is terminal.       *)
(***************************************************************************)
EXTENDS Integers, FiniteSets

CONSTANTS
  Processes,    \* processes that submit the key, each once
  Readers,      \* processes that only read it
  LastRecord,   \* the number of the terminal record
  MaxLosses,    \* bound: power losses
  None,         \* no file
  Unclaimed, Empty   \* a key without a claim, a claim without a record

Written == [owner : Processes, n : 1 .. LastRecord]
Inodes  == [record : Written, whole : BOOLEAN, safe : BOOLEAN]

ASSUME RecordFileAssumption ==
  /\ LastRecord \in Nat \ {0} /\ MaxLosses \in Nat
  /\ None \notin Written \cup Inodes
  /\ Unclaimed # Empty /\ {Unclaimed, Empty} \cap Written = {}

VARIABLES
  claim,     \* whether the claim directory exists
  rooted,    \* whether its entry is known to be on the disk
  file,      \* what record.json holds, or None
  durable,   \* what record.json may hold after a power loss
  temp,      \* temp[p]: the temporary file of p, or None
  pc,        \* pc[p]: where p is
  reader,    \* reader[r]: whether r is between exists() and the read
  seen,      \* seen[r]: what r was last given
  owners,    \* history: the processes whose mkdir succeeded
  acked,     \* history: the record of the last write that returned, or None
  losses,    \* power losses so far
  lost       \* history: how many of them took the claim directory

files == <<claim, rooted, file, durable, temp>>
readers == <<reader, seen>>
history == <<owners, acked, losses, lost>>
fileVars == <<files, pc, readers, history>>

\* An inode: the record it is to hold, whether all of it is written, and
\* whether that is synchronised.
Inode(record, whole, safe) == [record |-> record, whole |-> whole, safe |-> safe]
Record(p, n) == [owner |-> p, n |-> n]

FileInit ==
  /\ claim = FALSE /\ rooted = FALSE /\ file = None /\ durable = {None}
  /\ temp = [p \in Processes |-> None]
  /\ pc = [p \in Processes |-> "idle"]
  /\ reader = [r \in Readers |-> FALSE]
  /\ seen = [r \in Readers |-> [kind |-> "nothing"]]
  /\ owners = {} /\ acked = None /\ losses = 0 /\ lost = 0

Goto(p, next) == pc' = [pc EXCEPT ![p] = next]

-----------------------------------------------------------------------------
(* create_investigation, and the writes of the one whose mkdir succeeds.   *)

\* Mutant: a directory that is there already is taken over.
ClaimAnyway(p) ==
  /\ pc[p] = "idle"
  /\ claim' = TRUE /\ owners' = owners \cup {p}
  /\ Goto(p, "claimed")
  /\ UNCHANGED <<rooted, file, durable, temp, readers, acked, losses, lost>>

Claim(p) ==
  /\ pc[p] = "idle"
  /\ IF claim THEN Goto(p, "ended") /\ UNCHANGED <<claim, owners>>
     ELSE claim' = TRUE /\ owners' = owners \cup {p} /\ Goto(p, "claimed")
  /\ UNCHANGED <<rooted, file, durable, temp, readers, acked, losses, lost>>

OpenTemp(p, record) ==
  /\ temp' = [temp EXCEPT ![p] = Inode(record, FALSE, FALSE)]
  /\ Goto(p, "opened")
  /\ UNCHANGED <<claim, rooted, file, durable, readers, history>>

BeginFirst(p) == pc[p] = "claimed" /\ OpenTemp(p, Record(p, 1))

\* The first write holds the metadata; every later one reads the record,
\* refuses a terminal or missing one, and adds to what it read.
BeginNext(p) ==
  /\ pc[p] = "owner"
  /\ file # None /\ file.record.n < LastRecord
  /\ OpenTemp(p, Record(p, file.record.n + 1))

Change(p, from, to) ==
  /\ pc[p] = from /\ Goto(p, to)
  /\ UNCHANGED <<claim, rooted, file, durable, readers, history>>

Fill(p) == Change(p, "opened", "filled") /\ temp' = [temp EXCEPT ![p].whole = TRUE]

\* Mutant: the file is renamed without having been synchronised.
SyncNothing(p) == Change(p, "filled", "synced") /\ UNCHANGED temp

SyncFile(p) == Change(p, "filled", "synced") /\ temp' = [temp EXCEPT ![p].safe = TRUE]

Replace(p) ==
  /\ pc[p] = "synced"
  /\ file' = temp[p] /\ durable' = durable \cup {temp[p]}
  /\ temp' = [temp EXCEPT ![p] = None]
  /\ Goto(p, "replaced")
  /\ UNCHANGED <<claim, rooted, readers, history>>

Returned(p) ==
  /\ pc[p] = "replaced" /\ Goto(p, "owner")
  /\ acked' = file.record
  /\ UNCHANGED <<claim, rooted, file, temp, readers, owners, losses, lost>>

\* Mutant: the directory is not synchronised after the rename.
ReturnAtOnce(p) == Returned(p) /\ UNCHANGED durable

SyncDirectory(p) == Returned(p) /\ durable' = {file}

Writing == {"opened", "filled", "synced", "replaced"}

\* Mutant: a failed first write gives the claim up again.
FailAndRelease(p) ==
  /\ pc[p] \in Writing \cup {"claimed"}
  /\ temp' = [temp EXCEPT ![p] = None]
  /\ claim' = (file # None)
  /\ Goto(p, "ended")
  /\ UNCHANGED <<rooted, file, durable, readers, history>>

\* Any step of a write may raise: the temporary file is removed, and the
\* PersistenceError ends the investigation that wrote.
Fail(p) ==
  /\ pc[p] \in Writing \cup {"claimed"}
  /\ temp' = [temp EXCEPT ![p] = None]
  /\ Goto(p, "ended")
  /\ UNCHANGED <<claim, rooted, file, durable, readers, history>>

\* The unlink in the finally clause may raise too, and leave the file: an
\* OSError, which ends the investigation as well.
FailToRemove(p) ==
  /\ pc[p] \in Writing \ {"replaced"}
  /\ Goto(p, "escaped")
  /\ UNCHANGED <<files, readers, history>>

Kill(p) ==
  /\ pc[p] \in Writing \cup {"claimed", "owner"}
  /\ Goto(p, "killed")
  /\ UNCHANGED <<files, readers, history>>

-----------------------------------------------------------------------------
(* get_by_idempotency_key: exists() first, then the read.                  *)

See(r, what) == seen' = [seen EXCEPT ![r] = what]

Exists(r) ==
  /\ ~reader[r]
  /\ IF claim THEN reader' = [reader EXCEPT ![r] = TRUE] /\ UNCHANGED seen
              ELSE See(r, [kind |-> "none"]) /\ UNCHANGED reader
  /\ UNCHANGED <<files, pc, history>>

Read(r) ==
  /\ reader[r] /\ reader' = [reader EXCEPT ![r] = FALSE]
  /\ See(r, IF file = None THEN [kind |-> "running"]
            ELSE IF ~file.whole THEN [kind |-> "unreadable"]
            ELSE [kind |-> "record", record |-> file.record])
  /\ UNCHANGED <<files, pc, history>>

-----------------------------------------------------------------------------
(* Everything in memory is lost, and every process with it.  An inode that  *)
(* was not synchronised may come back cut short.                           *)

AfterLoss(inode) ==
  IF inode = None THEN {None}
  ELSE {[inode EXCEPT !.safe = TRUE]}
       \cup (IF inode.safe THEN {} ELSE {[inode EXCEPT !.whole = FALSE, !.safe = TRUE]})

PowerLoss ==
  /\ losses < MaxLosses /\ losses' = losses + 1
  /\ pc' = [p \in Processes |-> IF pc[p] \in {"idle", "ended"} THEN pc[p] ELSE "killed"]
  /\ reader' = [r \in Readers |-> FALSE]
  /\ \/ /\ claim
        /\ claim' = TRUE /\ rooted' = TRUE
        /\ \E inode \in durable : file' \in AfterLoss(inode)
        /\ durable' = {file'}
        /\ \E kept \in SUBSET Processes :
             temp' = [p \in Processes |-> IF p \in kept THEN temp[p] ELSE None]
        /\ UNCHANGED <<acked, lost>>
     \/ /\ ~rooted
        /\ claim' = FALSE /\ file' = None /\ durable' = {None} /\ acked' = None
        /\ temp' = [p \in Processes |-> None]
        /\ lost' = lost + (IF claim THEN 1 ELSE 0)
        /\ UNCHANGED rooted
  /\ seen' = [r \in Readers |-> [kind |-> "nothing"]]
  /\ UNCHANGED owners

Step(p) ==
  \/ Claim(p) \/ BeginFirst(p) \/ BeginNext(p) \/ Fill(p) \/ SyncFile(p)
  \/ Replace(p) \/ SyncDirectory(p) \/ Fail(p) \/ FailToRemove(p) \/ Kill(p)

FileNext ==
  \/ \E p \in Processes : Step(p)
  \/ \E r \in Readers : Exists(r) \/ Read(r)
  \/ PowerLoss

FileSpec == FileInit /\ [][FileNext]_fileVars

-----------------------------------------------------------------------------
\* Files hold what was put there, a temporary file is in use or left behind by
\* a process that ended while it had one, and record.json stands in a claim.
FileTypeOK ==
  /\ claim \in BOOLEAN /\ rooted \in BOOLEAN /\ (rooted => claim)
  /\ file # None => claim /\ file.record.n \in 1 .. LastRecord
  /\ file \in durable
  /\ seen \in [Readers -> [kind : {"nothing", "none", "running", "unreadable"}]
                 \cup [kind : {"record"}, record : Written]]
  /\ losses \in 0 .. MaxLosses /\ lost \in 0 .. losses

\* A record is seen whole or not at all, by readers between any two steps of a
\* write and by whoever comes back after a crash or a power loss (_write).
NeverTorn ==
  /\ file # None => file.whole
  /\ \A r \in Readers : seen[r].kind # "unreadable"

\* A write that returned is not lost again unless the whole claim is: whatever
\* a power loss leaves in record.json follows or is the acknowledged record
\* (the synchronisation of the directory in _write).
AcknowledgedIsDurable ==
  acked # None =>
    \A inode \in durable :
      inode # None /\ inode.record.owner = acked.owner /\ inode.record.n >= acked.n

\* A claim is never taken over: a killed owner keeps the key blocked, and a
\* second process investigates only after a power loss took the directory of
\* the first (create_investigation).
CrashedClaimStaysBlocked == Cardinality(owners) <= 1 + lost

\* Temporary files are left behind only by a process that was killed or whose
\* unlink failed, never by one that was told of the failed write.
LeftoversAreExplained ==
  \A p \in Processes :
    temp[p] # None => pc[p] \in {"opened", "filled", "synced", "escaped", "killed"}

Rank(view) ==
  CASE view.kind = "nothing" -> -2 [] view.kind = "none" -> -1
    [] view.kind = "record" -> view.record.n [] OTHER -> 0

\* While the host is up no reader is ever given less than it was given before:
\* a key that was claimed is not unclaimed again, and a record never goes back.
ReadsNeverGoBack ==
  [][losses' = losses => \A r \in Readers :
       Rank(seen[r]) <= Rank(seen'[r])]_fileVars

Store == INSTANCE DurableStore WITH
  Owners <- Processes,
  value <- IF ~claim THEN Unclaimed ELSE IF file = None THEN Empty ELSE file.record,
  acknowledged <- IF acked = None THEN 0 ELSE acked.n

\* The files implement the store of whole records: every step is a claim, a
\* record that follows the last, an acknowledgement, a power loss, or nothing.
ImplementsStore == Store!StoreSpec
=============================================================================
