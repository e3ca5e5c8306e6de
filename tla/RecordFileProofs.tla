-------------------------- MODULE RecordFileProofs --------------------------
(***************************************************************************)
(* Proofs about the files of a record, for every number of processes and   *)
(* readers, every length of a record and every number of power losses.     *)
(***************************************************************************)
EXTENDS RecordFile, FiniteSetTheorems, TLAPS

PCs == {"idle", "claimed", "opened", "filled", "synced", "replaced", "owner",
        "ended", "escaped", "killed"}

\* A process that holds the claim and may still write.
Active == {"claimed", "opened", "filled", "synced", "replaced", "owner"}

Views == [kind : {"nothing", "none", "running", "unreadable"}]
           \cup [kind : {"record"}, record : Written]

FileTypes ==
  /\ claim \in BOOLEAN /\ rooted \in BOOLEAN
  /\ file \in Inodes \cup {None}
  /\ durable \subseteq Inodes \cup {None}
  /\ temp \in [Processes -> Inodes \cup {None}]
  /\ pc \in [Processes -> PCs]
  /\ acked \in Written \cup {None}

\* An unclaimed key has no files.
NothingUnclaimed ==
  /\ rooted => claim
  /\ ~claim => file = None /\ durable = {None} /\ acked = None

\* What a power loss may leave is whole, and lies between the acknowledged record and
\* the current one.
DurableInv ==
  /\ file \in durable
  /\ \A i \in durable :
       /\ i # None => /\ i.whole /\ i.safe /\ file # None
                      /\ i.record.owner = file.record.owner
                      /\ i.record.n <= file.record.n
       /\ acked # None => /\ i # None
                          /\ i.record.owner = acked.owner
                          /\ i.record.n >= acked.n

Reached(i) == IF i = None THEN 0 ELSE i.record.n

\* What the process p has reached in its write.
Progress(p) ==
  /\ pc[p] \in Active => claim /\ (file # None => file.record.owner = p)
  /\ pc[p] = "claimed" => file = None
  /\ pc[p] \in {"replaced", "owner"} => file # None
  /\ pc[p] \in Active \ {"replaced"} => durable = {file}
  /\ pc[p] \in {"opened", "filled", "synced"} =>
       temp[p] # None /\ temp[p].record = Record(p, Reached(file) + 1)
  /\ pc[p] \in {"filled", "synced"} => temp[p].whole
  /\ pc[p] = "synced" => temp[p].safe
  /\ temp[p] # None => pc[p] \in {"opened", "filled", "synced", "escaped", "killed"}

OneWriter ==
  /\ \A p \in Processes : Progress(p)
  /\ \A p, q \in Processes : pc[p] \in Active /\ pc[q] \in Active => p = q

FileInv == FileTypes /\ NothingUnclaimed /\ DurableInv /\ OneWriter

-----------------------------------------------------------------------------
LEMMA FileInvInit == FileInit => FileInv
BY RecordFileAssumption
DEF FileInit, FileInv, FileTypes, NothingUnclaimed, DurableInv, OneWriter, Progress, PCs,
    Active

\* A step that changes only the place of one process, to a place from which it does not
\* write, and may drop its temporary file.
LEMMA LeavingKeepsInv ==
  ASSUME FileInv, NEW p \in Processes, NEW to \in {"ended", "escaped", "killed"},
         pc' = [pc EXCEPT ![p] = to],
         \/ temp' = [temp EXCEPT ![p] = None]
         \/ temp' = temp /\ (to # "ended" \/ temp[p] = None),
         UNCHANGED <<claim, rooted, file, durable, acked>>
  PROVE  FileInv'
<1>1. FileTypes'  BY DEF FileInv, FileTypes, PCs
<1>2. NothingUnclaimed' /\ DurableInv'  BY DEF FileInv, NothingUnclaimed, DurableInv
<1>3. \A q \in Processes : pc'[q] \in Active => q # p /\ pc'[q] = pc[q]
  BY DEF FileInv, FileTypes, Active
<1>4. ASSUME NEW q \in Processes PROVE Progress(q)'
  <2>1. CASE q = p  BY <2>1 DEF FileInv, FileTypes, OneWriter, Progress, Active
  <2>2. CASE q # p
    <3>1. pc'[q] = pc[q] /\ temp'[q] = temp[q]  BY <2>2 DEF FileInv, FileTypes
    <3> QED  BY <3>1 DEF FileInv, OneWriter, Progress, Reached
  <2> QED  BY <2>1, <2>2
<1> QED  BY <1>1, <1>2, <1>3, <1>4 DEF FileInv, OneWriter

\* A step of the one process that holds the claim, which leaves the others alone.
LEMMA WriterKeepsInv ==
  ASSUME FileInv, NEW p \in Processes, pc[p] \in Active,
         FileTypes', NothingUnclaimed', DurableInv', Progress(p)',
         \A q \in Processes \ {p} : pc'[q] = pc[q] /\ temp'[q] = temp[q]
  PROVE  FileInv'
<1>1. \A q \in Processes \ {p} : pc[q] \notin Active  BY DEF FileInv, OneWriter
<1>2. ASSUME NEW q \in Processes \ {p} PROVE Progress(q)'
  BY <1>1, <1>2 DEF FileInv, OneWriter, Progress, Active
<1> QED  BY <1>1, <1>2 DEF FileInv, OneWriter

LEMMA ClaimKeepsInv ==
  ASSUME FileInv, NEW p \in Processes, Claim(p)
  PROVE  FileInv'
<1>1. CASE claim
  <2>1. temp[p] = None  BY DEF FileInv, OneWriter, Progress, Claim
  <2> QED  BY <1>1, <2>1, LeavingKeepsInv DEF Claim, Goto
<1>2. CASE ~claim
  <2>1. claim' = TRUE /\ pc' = [pc EXCEPT ![p] = "claimed"] /\ temp' = temp
        /\ UNCHANGED <<rooted, file, durable, acked>>
    BY <1>2 DEF Claim, Goto
  <2>2. \A q \in Processes : pc[q] \notin Active
    BY <1>2 DEF FileInv, OneWriter, Progress
  <2>3. FileTypes'  BY <2>1 DEF FileInv, FileTypes, PCs
  <2>4. NothingUnclaimed' /\ DurableInv'  BY <2>1 DEF FileInv, NothingUnclaimed, DurableInv
  <2>5. pc[p] = "idle"  BY DEF Claim
  <2>6. file = None /\ durable = {None}  BY <1>2 DEF FileInv, NothingUnclaimed
  <2>7. ASSUME NEW q \in Processes PROVE Progress(q)'
    <3>1. CASE q = p
      BY <2>1, <2>5, <2>6, <3>1 DEF FileInv, FileTypes, OneWriter, Progress, Active
    <3>2. CASE q # p
      <4>1. pc'[q] = pc[q]  BY <2>1, <3>2 DEF FileInv, FileTypes
      <4> QED  BY <2>1, <2>2, <4>1 DEF FileInv, OneWriter, Progress, Active
    <3> QED  BY <3>1, <3>2
  <2>8. \A q \in Processes : pc'[q] \in Active => q = p
    BY <2>1, <2>2 DEF FileInv, FileTypes
  <2> QED  BY <2>3, <2>4, <2>7, <2>8 DEF FileInv, OneWriter
<1> QED  BY <1>1, <1>2

LEMMA OpenKeepsInv ==
  ASSUME FileInv, NEW p \in Processes, BeginFirst(p) \/ BeginNext(p)
  PROVE  FileInv'
<1>1. PICK record : /\ OpenTemp(p, record) /\ record = Record(p, Reached(file) + 1)
                    /\ record \in Written
  <2>1. CASE BeginFirst(p)
    <3>1. file = None  BY <2>1 DEF FileInv, OneWriter, Progress, BeginFirst
    <3> QED  BY <2>1, <3>1, RecordFileAssumption DEF BeginFirst, Reached, Record, Written
  <2>2. CASE BeginNext(p)
    <3>1. file \in Inodes  BY <2>2 DEF FileInv, FileTypes, BeginNext
    <3>2. file.record.n + 1 \in 1 .. LastRecord
      BY <2>2, <3>1, RecordFileAssumption DEF BeginNext, Inodes, Written
    <3> QED  BY <2>2, <3>2 DEF BeginNext, Reached, Record, Written
  <2> QED  BY <2>1, <2>2
<1>2. pc[p] \in {"claimed", "owner"}  BY DEF BeginFirst, BeginNext
<1>3. /\ temp' = [temp EXCEPT ![p] = Inode(record, FALSE, FALSE)]
      /\ pc' = [pc EXCEPT ![p] = "opened"]
      /\ UNCHANGED <<claim, rooted, file, durable, acked>>
  BY <1>1 DEF OpenTemp, Goto, history
<1>4. Inode(record, FALSE, FALSE) \in Inodes  BY <1>1 DEF Inode, Inodes
<1>5. FileTypes'  BY <1>3, <1>4 DEF FileInv, FileTypes, PCs
<1>6. NothingUnclaimed' /\ DurableInv'  BY <1>3 DEF FileInv, NothingUnclaimed, DurableInv
<1>7. Progress(p)'
  <2>1. temp'[p] = Inode(record, FALSE, FALSE) /\ pc'[p] = "opened"
    BY <1>3 DEF FileInv, FileTypes
  <2>2. temp'[p] # None  BY <1>4, <2>1, RecordFileAssumption
  <2>3. temp'[p].record = Record(p, Reached(file') + 1)  BY <1>1, <1>3, <2>1 DEF Inode
  <2> QED
    BY <1>2, <1>3, <2>1, <2>2, <2>3 DEF FileInv, OneWriter, Progress, Active
<1>8. \A q \in Processes \ {p} : pc'[q] = pc[q] /\ temp'[q] = temp[q]
  BY <1>3 DEF FileInv, FileTypes
<1> QED  BY <1>2, <1>5, <1>6, <1>7, <1>8, WriterKeepsInv DEF Active

LEMMA FillKeepsInv ==
  ASSUME FileInv, NEW p \in Processes, Fill(p) \/ SyncFile(p)
  PROVE  FileInv'
<1>1. pc[p] \in {"opened", "filled"} /\ temp[p] \in Inodes
  BY DEF FileInv, FileTypes, OneWriter, Progress, Fill, SyncFile, Change
<1>2. UNCHANGED <<claim, rooted, file, durable, acked>>
  BY DEF Fill, SyncFile, Change, history
<1>3. PICK to \in {"filled", "synced"}, inode \in Inodes :
        /\ pc' = [pc EXCEPT ![p] = to] /\ temp' = [temp EXCEPT ![p] = inode]
        /\ inode.record = temp[p].record /\ inode.whole /\ (to = "synced" => inode.safe)
  <2>1. CASE Fill(p)
    <3> DEFINE inode == [temp[p] EXCEPT !.whole = TRUE]
    <3>1. inode \in Inodes /\ inode.record = temp[p].record /\ inode.whole
      BY <1>1 DEF Inodes
    <3>2. pc' = [pc EXCEPT ![p] = "filled"] /\ temp' = [temp EXCEPT ![p] = inode]
      BY <2>1 DEF Fill, Change, Goto
    <3> QED  BY <3>1, <3>2
  <2>2. CASE SyncFile(p)
    <3> DEFINE inode == [temp[p] EXCEPT !.safe = TRUE]
    <3>1. temp[p].whole
      BY <2>2 DEF SyncFile, Change, FileInv, OneWriter, Progress
    <3>2. inode \in Inodes /\ inode.record = temp[p].record /\ inode.whole /\ inode.safe
      BY <1>1, <3>1 DEF Inodes
    <3>3. pc' = [pc EXCEPT ![p] = "synced"] /\ temp' = [temp EXCEPT ![p] = inode]
      BY <2>2 DEF SyncFile, Change, Goto
    <3> QED  BY <3>2, <3>3
  <2> QED  BY <2>1, <2>2
<1>4. FileTypes'  BY <1>2, <1>3 DEF FileInv, FileTypes, PCs
<1>5. NothingUnclaimed' /\ DurableInv'  BY <1>2 DEF FileInv, NothingUnclaimed, DurableInv
<1>6. Progress(p)'
  <2>1. temp'[p] = inode /\ pc'[p] = to  BY <1>3 DEF FileInv, FileTypes
  <2>2. temp'[p] # None  BY <2>1, RecordFileAssumption
  <2>3. temp'[p].record = Record(p, Reached(file') + 1)
    BY <1>1, <1>2, <1>3, <2>1 DEF FileInv, OneWriter, Progress, Reached
  <2> QED
    BY <1>1, <1>2, <1>3, <2>1, <2>2, <2>3 DEF FileInv, OneWriter, Progress, Active
<1>7. \A q \in Processes \ {p} : pc'[q] = pc[q] /\ temp'[q] = temp[q]
  BY <1>3 DEF FileInv, FileTypes
<1> QED  BY <1>1, <1>4, <1>5, <1>6, <1>7, WriterKeepsInv DEF Active

\* The file that is renamed holds the record that follows the current one.
LEMMA ReplaceKeepsInv ==
  ASSUME FileInv, NEW p \in Processes, Replace(p)
  PROVE  FileInv' /\ file' \in Inodes /\ file'.record = Record(p, Reached(file) + 1)
<1>1. pc[p] = "synced" /\ claim /\ durable = {file} /\ temp[p] \in Inodes
      /\ temp[p].record = Record(p, Reached(file) + 1) /\ temp[p].whole /\ temp[p].safe
      /\ (file # None => file.record.owner = p)
  BY DEF Replace, FileInv, FileTypes, OneWriter, Progress, Active
<1>2. /\ file' = temp[p] /\ durable' = {file, temp[p]}
      /\ temp' = [temp EXCEPT ![p] = None] /\ pc' = [pc EXCEPT ![p] = "replaced"]
      /\ UNCHANGED <<claim, rooted, acked>>
  BY <1>1 DEF Replace, Goto, history
<1>3. FileTypes'  BY <1>1, <1>2 DEF FileInv, FileTypes, PCs
<1>4. NothingUnclaimed'  BY <1>1, <1>2 DEF FileInv, NothingUnclaimed
<1>5. file' # None /\ file'.record.owner = p /\ file'.record.n = Reached(file) + 1
  BY <1>1, <1>2, RecordFileAssumption DEF Record
<1>6. Reached(file) \in Nat
  BY RecordFileAssumption DEF FileInv, FileTypes, Reached, Inodes, Written
<1>7. DurableInv'
  <2>1. file # None => /\ file.whole /\ file.safe /\ file.record.owner = p
                       /\ file.record.n = Reached(file)
    BY <1>1 DEF FileInv, DurableInv, Reached
  <2>2. ASSUME acked # None
        PROVE  /\ file # None /\ file.record.owner = acked.owner /\ file.record.n >= acked.n
               /\ acked.n \in Nat
    BY <1>1, <2>2, RecordFileAssumption DEF FileInv, FileTypes, DurableInv, Written
  <2>3. \A i \in durable' : i # None => /\ i.whole /\ i.safe /\ file' # None
                                        /\ i.record.owner = file'.record.owner
                                        /\ i.record.n <= file'.record.n
    <3>1. ASSUME NEW i \in durable', i # None
          PROVE  i.whole /\ i.safe /\ i.record.owner = p /\ i.record.n <= Reached(file) + 1
      <4>1. CASE i = file  BY <1>6, <2>1, <3>1, <4>1
      <4>2. CASE i = temp[p]  BY <1>1, <1>2, <1>5, <1>6, <4>2
      <4> QED  BY <1>2, <4>1, <4>2
    <3> QED  BY <1>5, <3>1
  <2>4. ASSUME NEW i \in durable', acked' # None
        PROVE  i # None /\ i.record.owner = acked'.owner /\ i.record.n >= acked'.n
    <3>1. CASE i = file  BY <1>2, <2>2, <2>4, <3>1
    <3>2. CASE i = temp[p]
      <4>1. Reached(file) >= acked.n /\ acked.owner = p /\ acked.n \in Nat
        BY <1>1, <1>2, <2>2, <2>4 DEF Reached
      <4> QED  BY <1>2, <1>5, <1>6, <3>2, <4>1
    <3> QED  BY <1>2, <3>1, <3>2
  <2> QED  BY <1>2, <2>3, <2>4 DEF DurableInv
<1>8. Progress(p)'
  <2>1. temp'[p] = None /\ pc'[p] = "replaced"  BY <1>2 DEF FileInv, FileTypes
  <2> QED  BY <1>1, <1>2, <1>5, <2>1 DEF Progress, Active
<1>9. \A q \in Processes \ {p} : pc'[q] = pc[q] /\ temp'[q] = temp[q]
  BY <1>2 DEF FileInv, FileTypes
<1> QED  BY <1>1, <1>2, <1>3, <1>4, <1>7, <1>8, <1>9, WriterKeepsInv DEF Active

LEMMA SyncDirectoryKeepsInv ==
  ASSUME FileInv, NEW p \in Processes, SyncDirectory(p)
  PROVE  FileInv'
<1>1. pc[p] = "replaced" /\ claim /\ file \in Inodes /\ file # None /\ file.record.owner = p
      /\ temp[p] = None
  BY DEF SyncDirectory, Returned, FileInv, FileTypes, OneWriter, Progress, Active
<1>2. /\ durable' = {file} /\ acked' = file.record /\ pc' = [pc EXCEPT ![p] = "owner"]
      /\ UNCHANGED <<claim, rooted, file, temp>>
  BY DEF SyncDirectory, Returned, Goto
<1>3. file.record \in Written /\ file.record.n \in Int  BY <1>1 DEF Inodes, Written
<1>4. FileTypes'  BY <1>1, <1>2, <1>3 DEF FileInv, FileTypes, PCs
<1>5. NothingUnclaimed'  BY <1>1, <1>2 DEF FileInv, NothingUnclaimed
<1>6. DurableInv'  BY <1>1, <1>2, <1>3 DEF FileInv, DurableInv
<1>7. Progress(p)'
  <2>1. pc'[p] = "owner"  BY <1>2 DEF FileInv, FileTypes
  <2> QED  BY <1>1, <1>2, <2>1 DEF Progress, Active
<1>8. \A q \in Processes \ {p} : pc'[q] = pc[q] /\ temp'[q] = temp[q]
  BY <1>2 DEF FileInv, FileTypes
<1> QED  BY <1>1, <1>4, <1>5, <1>6, <1>7, <1>8, WriterKeepsInv DEF Active

\* Every inode a power loss may leave is whole and safe, and stays as it is.
LEMMA LossKeepsInode ==
  ASSUME FileInv, NEW inode \in durable
  PROVE  AfterLoss(inode) = {inode}
<1>1. CASE inode = None  BY <1>1 DEF AfterLoss
<1>2. CASE inode # None
  <2>1. inode \in Inodes /\ inode.safe  BY <1>2 DEF FileInv, FileTypes, DurableInv
  <2>2. [inode EXCEPT !.safe = TRUE] = inode  BY <2>1 DEF Inodes
  <2> QED  BY <1>2, <2>1, <2>2 DEF AfterLoss
<1> QED  BY <1>1, <1>2

LEMMA PowerLossKeepsInv ==
  ASSUME FileInv, PowerLoss
  PROVE  FileInv'
<1>1. pc' = [p \in Processes |-> IF pc[p] \in {"idle", "ended"} THEN pc[p] ELSE "killed"]
  BY DEF PowerLoss
<1>2. \A p \in Processes : pc'[p] \notin Active  BY <1>1 DEF Active
<1>3. \A p \in Processes : pc'[p] = "killed" \/ pc[p] \in {"idle", "ended"}  BY <1>1
<1>4. pc' \in [Processes -> PCs]  BY <1>1 DEF PCs
<1>5. ASSUME NEW p \in Processes, temp'[p] = None \/ temp'[p] = temp[p] PROVE Progress(p)'
  <2>1. temp'[p] # None => pc'[p] = "killed"
    BY <1>3, <1>5 DEF FileInv, OneWriter, Progress
  <2>2. pc'[p] \notin Active  BY <1>2
  <2> QED  BY <2>1, <2>2 DEF Progress, Active
<1>6. CASE claim /\ claim' = TRUE /\ rooted' = TRUE
           /\ (\E inode \in durable : file' \in AfterLoss(inode)) /\ durable' = {file'}
           /\ (\E kept \in SUBSET Processes :
                 temp' = [p \in Processes |-> IF p \in kept THEN temp[p] ELSE None])
           /\ UNCHANGED acked
  <2>1. file' \in durable  BY <1>6, LossKeepsInode
  <2>2. temp' \in [Processes -> Inodes \cup {None}]
        /\ \A p \in Processes : temp'[p] = None \/ temp'[p] = temp[p]
    BY <1>6 DEF FileInv, FileTypes
  <2>3. FileTypes'  BY <1>4, <1>6, <2>1, <2>2 DEF FileInv, FileTypes
  <2>4. NothingUnclaimed'  BY <1>6 DEF NothingUnclaimed
  <2>5. file' # None => file'.record.n \in Int
    BY <2>3 DEF FileTypes, Inodes, Written
  <2>6. DurableInv'  BY <1>6, <2>1, <2>5 DEF FileInv, DurableInv
  <2> QED  BY <1>2, <1>5, <2>2, <2>3, <2>4, <2>6 DEF FileInv, OneWriter
<1>7. CASE claim' = FALSE /\ file' = None /\ durable' = {None} /\ acked' = None
           /\ temp' = [p \in Processes |-> None] /\ ~rooted /\ UNCHANGED rooted
  <2>1. FileTypes'  BY <1>4, <1>7 DEF FileInv, FileTypes
  <2>2. NothingUnclaimed' /\ DurableInv'  BY <1>7 DEF NothingUnclaimed, DurableInv
  <2> QED  BY <1>2, <1>5, <1>7, <2>1, <2>2 DEF FileInv, OneWriter
<1> QED  BY <1>6, <1>7 DEF PowerLoss

LEMMA FileInvStep == FileInv /\ [FileNext]_fileVars => FileInv'
<1> SUFFICES ASSUME FileInv, [FileNext]_fileVars PROVE FileInv'
  OBVIOUS
<1>1. ASSUME UNCHANGED <<files, pc, history>> PROVE FileInv'
  BY <1>1 DEF files, history, FileInv, FileTypes, NothingUnclaimed, DurableInv, OneWriter,
     Progress, Reached
<1>2. CASE UNCHANGED fileVars  BY <1>1, <1>2 DEF fileVars
<1>3. ASSUME NEW r \in Readers, Exists(r) \/ Read(r) PROVE FileInv'
  BY <1>1, <1>3 DEF Exists, Read
<1>4. CASE PowerLoss  BY <1>4, PowerLossKeepsInv
<1>5. ASSUME NEW p \in Processes, Step(p) PROVE FileInv'
  <2>1. ASSUME Fail(p) PROVE FileInv'
    <3>1. pc' = [pc EXCEPT ![p] = "ended"] /\ temp' = [temp EXCEPT ![p] = None]
          /\ UNCHANGED <<claim, rooted, file, durable, acked>>
      BY <2>1 DEF Fail, Goto, history
    <3> QED  BY <3>1, LeavingKeepsInv
  <2>2. ASSUME FailToRemove(p) \/ Kill(p) PROVE FileInv'
    <3>1. \E to \in {"escaped", "killed"} : pc' = [pc EXCEPT ![p] = to]
      BY <2>2 DEF FailToRemove, Kill, Goto
    <3>2. UNCHANGED <<claim, rooted, file, durable, temp, acked>>
      BY <2>2 DEF FailToRemove, Kill, files, history
    <3> QED  BY <3>1, <3>2, LeavingKeepsInv
  <2> QED
    BY <1>5, <2>1, <2>2, ClaimKeepsInv, OpenKeepsInv, FillKeepsInv, ReplaceKeepsInv,
       SyncDirectoryKeepsInv DEF Step
<1> QED  BY <1>2, <1>3, <1>4, <1>5 DEF FileNext

LEMMA FileInvariant == FileSpec => []FileInv
BY FileInvInit, FileInvStep, PTL DEF FileSpec

-----------------------------------------------------------------------------
(* What the readers have seen.                                             *)

ReaderInv ==
  /\ reader \in [Readers -> BOOLEAN] /\ seen \in [Readers -> Views]
  /\ \A r \in Readers :
       /\ seen[r].kind # "unreadable"
       /\ reader[r] \/ seen[r].kind \in {"running", "record"} => claim
       /\ seen[r].kind = "record" => file # None /\ seen[r].record.n <= file.record.n

LEMMA ReaderInvInit == FileInit => ReaderInv
BY DEF FileInit, ReaderInv, Views

\* Until the power is lost a claim stays, and record.json only moves on.
LEMMA FilesMoveOn ==
  ASSUME FileInv, [FileNext]_fileVars, ~PowerLoss
  PROVE  /\ claim => claim'
         /\ file # None => file' # None /\ file'.record.n >= file.record.n
<1>1. \/ UNCHANGED <<claim, file>>
      \/ claim' = TRUE /\ UNCHANGED file
      \/ \E p \in Processes : Replace(p)
  BY DEF FileNext, Step, fileVars, files, history, readers, Claim, BeginFirst, BeginNext, OpenTemp, Fill,
     SyncFile, Change, SyncDirectory, Returned, Fail, FailToRemove, Kill, Exists, Read
<1>2. file # None => file.record.n \in Nat
  BY RecordFileAssumption DEF FileInv, FileTypes, Inodes, Written
<1>3. CASE UNCHANGED file  BY <1>1, <1>2, <1>3 DEF Replace
<1>4. ASSUME NEW p \in Processes, Replace(p)
      PROVE  claim' = claim /\ file' # None
             /\ (file # None => file'.record.n >= file.record.n)
  <2>1a. file' \in Inodes /\ file'.record = Record(p, Reached(file) + 1)
    BY <1>4, ReplaceKeepsInv
  <2>1. file' \in Inodes /\ file'.record.n = Reached(file) + 1
    BY <2>1a DEF Record
  <2>2. claim' = claim /\ file' # None  BY <1>4, <2>1, RecordFileAssumption DEF Replace
  <2> QED  BY <1>2, <2>1, <2>2 DEF Reached
<1> QED  BY <1>1, <1>2, <1>3, <1>4

\* A step that leaves the readers alone.
LEMMA SeenStillHolds ==
  ASSUME FileInv, ReaderInv, [FileNext]_fileVars, ~PowerLoss, UNCHANGED readers
  PROVE  ReaderInv'
<1>1. FileInv'  BY FileInvStep
<1>2. ASSUME NEW r \in Readers, seen[r].kind = "record"
      PROVE  seen[r].record.n \in Int /\ file.record.n \in Int /\ file'.record.n \in Int
  <2>1. file \in Inodes /\ file' \in Inodes /\ seen[r] \in Views
    BY <1>1, <1>2, FilesMoveOn DEF FileInv, FileTypes, ReaderInv
  <2>2. seen[r].record \in Written  BY <1>2, <2>1 DEF Views
  <2> QED  BY <2>1, <2>2 DEF Inodes, Written
<1> QED  BY <1>2, FilesMoveOn DEF ReaderInv, readers

LEMMA ReaderInvStep == FileInv /\ ReaderInv /\ [FileNext]_fileVars => ReaderInv'
<1> SUFFICES ASSUME FileInv, ReaderInv, [FileNext]_fileVars PROVE ReaderInv'
  OBVIOUS
<1>1. CASE PowerLoss  BY <1>1 DEF PowerLoss, ReaderInv, Views
<1>2. CASE ~PowerLoss
  <2>1. CASE UNCHANGED readers  BY <1>2, <2>1, SeenStillHolds
  <2>2. ASSUME NEW r \in Readers, Exists(r) PROVE ReaderInv'
    <3>1. CASE claim
      <4>1. /\ reader' = [reader EXCEPT ![r] = TRUE]
            /\ UNCHANGED <<seen, claim, file>>
        BY <2>2, <3>1 DEF Exists, files
      <4> QED  BY <3>1, <4>1 DEF ReaderInv
    <3>2. CASE ~claim
      <4> DEFINE view == [kind |-> "none"]
      <4>1. /\ seen' = [seen EXCEPT ![r] = view] /\ view \in Views
            /\ UNCHANGED <<reader, claim, file>>
        BY <2>2, <3>2 DEF Exists, See, files, Views
      <4>2. ~reader[r]  BY <2>2 DEF Exists
      <4> QED  BY <4>1, <4>2 DEF ReaderInv
    <3> QED  BY <3>1, <3>2
  <2>3. ASSUME NEW r \in Readers, Read(r) PROVE ReaderInv'
    <3> DEFINE view == IF file = None THEN [kind |-> "running"]
                       ELSE [kind |-> "record", record |-> file.record]
    <3>1. claim /\ (file # None => file \in Inodes /\ file.whole)
      BY <2>3 DEF Read, ReaderInv, FileInv, FileTypes, DurableInv
    <3>2. view \in Views /\ seen' = [seen EXCEPT ![r] = view]
          /\ reader' = [reader EXCEPT ![r] = FALSE] /\ UNCHANGED <<claim, file>>
      BY <2>3, <3>1 DEF Read, See, Views, Inodes, files
    <3>3. /\ view.kind # "unreadable"
          /\ view.kind = "record" => file # None /\ view.record.n <= file.record.n
      BY <3>1 DEF Inodes, Written
    <3> QED  BY <3>1, <3>2, <3>3 DEF ReaderInv
  <2> QED
    BY <1>2, <2>1, <2>2, <2>3
    DEF FileNext, Step, fileVars, readers, Claim, BeginFirst, BeginNext, OpenTemp, Fill,
        SyncFile, Change, Replace, SyncDirectory, Returned, Fail, FailToRemove, Kill
<1> QED  BY <1>1, <1>2

LEMMA ReaderInvariant == FileSpec => []ReaderInv
BY ReaderInvInit, ReaderInvStep, FileInvariant, PTL DEF FileSpec

-----------------------------------------------------------------------------
(* Owners and power losses.                                                *)

LossInv ==
  /\ losses \in 0 .. MaxLosses /\ lost \in 0 .. losses
  /\ IsFiniteSet(owners)
  /\ Cardinality(owners) <= (IF claim THEN 1 ELSE 0) + lost

LEMMA LossInvInit == FileInit => LossInv
BY RecordFileAssumption, FS_EmptySet DEF FileInit, LossInv

LEMMA LossInvStep == FileInv /\ LossInv /\ [FileNext]_fileVars => LossInv'
<1> SUFFICES ASSUME FileInv, LossInv, [FileNext]_fileVars PROVE LossInv'
  OBVIOUS
<1>1. losses \in Nat /\ lost \in Nat /\ IsFiniteSet(owners) /\ Cardinality(owners) \in Nat
  BY RecordFileAssumption, FS_CardinalityType DEF LossInv
<1>2. CASE UNCHANGED <<claim, owners, losses, lost>>  BY <1>2 DEF LossInv
<1>3. ASSUME NEW p \in Processes, Claim(p), ~claim PROVE LossInv'
  <2>1. claim' /\ owners' = owners \cup {p} /\ UNCHANGED <<losses, lost>>
    BY <1>3 DEF Claim
  <2>2. IsFiniteSet(owners') /\ Cardinality(owners') <= Cardinality(owners) + 1
    BY <1>1, <2>1, FS_AddElement
  <2>3. Cardinality(owners') \in Nat  BY <2>2, FS_CardinalityType
  <2> QED  BY <1>1, <1>3, <2>1, <2>2, <2>3 DEF LossInv
<1>4. CASE PowerLoss
  <2>1. losses' = losses + 1 /\ losses < MaxLosses /\ owners' = owners  BY <1>4 DEF PowerLoss
  <2>2. \/ claim /\ claim' /\ lost' = lost
        \/ ~claim' /\ lost' = lost + (IF claim THEN 1 ELSE 0)
    BY <1>4 DEF PowerLoss
  <2> QED  BY <1>1, <2>1, <2>2, RecordFileAssumption DEF LossInv
<1>5. \/ UNCHANGED <<claim, owners, losses, lost>>
      \/ \E p \in Processes : Claim(p) /\ ~claim
      \/ PowerLoss
  BY DEF FileNext, Step, fileVars, files, readers, history, Claim, BeginFirst, BeginNext,
     OpenTemp, Fill, SyncFile, Change, Replace, SyncDirectory, Returned, Fail, FailToRemove,
     Kill, Exists, Read
<1> QED  BY <1>2, <1>3, <1>4, <1>5

LEMMA LossInvariant == FileSpec => []LossInv
BY LossInvInit, LossInvStep, FileInvariant, PTL DEF FileSpec

-----------------------------------------------------------------------------
(* The theorems.                                                           *)

\* A record is seen whole or not at all, by every reader and after every crash.
THEOREM NeverTornHolds == FileSpec => []NeverTorn
<1>1. FileInv /\ ReaderInv => NeverTorn
  BY DEF FileInv, DurableInv, ReaderInv, NeverTorn
<1> QED  BY <1>1, FileInvariant, ReaderInvariant, PTL

\* A write that returned survives every crash that leaves the claim.
THEOREM AcknowledgedHolds == FileSpec => []AcknowledgedIsDurable
<1>1. FileInv => AcknowledgedIsDurable  BY DEF FileInv, DurableInv, AcknowledgedIsDurable
<1> QED  BY <1>1, FileInvariant, PTL

\* Temporary files are left only by a process that was killed or could not remove its own.
THEOREM LeftoversHold == FileSpec => []LeftoversAreExplained
<1>1. FileInv => LeftoversAreExplained
  BY DEF FileInv, OneWriter, Progress, LeftoversAreExplained
<1> QED  BY <1>1, FileInvariant, PTL

\* While the host is up, no reader is given less than it was given before.
THEOREM ReadsNeverGoBackHolds == FileSpec => ReadsNeverGoBack
<1>1. ASSUME FileInv, ReaderInv, LossInv, [FileNext]_fileVars
      PROVE  [losses' = losses => \A r \in Readers : Rank(seen[r]) <= Rank(seen'[r])]_fileVars
  <2> SUFFICES ASSUME losses' = losses, NEW r \in Readers
               PROVE  Rank(seen[r]) <= Rank(seen'[r])
    OBVIOUS
  <2>1. seen[r] \in Views /\ (seen[r].kind = "record" => seen[r].record.n \in Nat \ {0})
    BY <1>1, RecordFileAssumption DEF ReaderInv, Views, Written
  <2>2. Rank(seen[r]) \in Int  BY <2>1 DEF Rank, Views
  <2>3. CASE seen'[r] = seen[r]  BY <2>2, <2>3
  <2>4. CASE Exists(r) /\ ~claim
    <3>1. seen[r].kind \in {"nothing", "none"}  BY <1>1, <2>1, <2>4 DEF ReaderInv, Views
    <3>2. seen'[r] = [kind |-> "none"]  BY <1>1, <2>4 DEF Exists, See, ReaderInv
    <3> QED  BY <3>1, <3>2 DEF Rank
  <2>5. CASE Read(r)
    <3>1. file # None => file \in Inodes /\ file.whole /\ file.record.n \in Nat \ {0}
      BY <1>1, RecordFileAssumption DEF FileInv, FileTypes, DurableInv, Inodes, Written
    <3>2. seen'[r] = IF file = None THEN [kind |-> "running"]
                     ELSE [kind |-> "record", record |-> file.record]
      BY <1>1, <2>5, <3>1 DEF Read, See, ReaderInv
    <3>3. seen[r].kind # "unreadable"
          /\ (seen[r].kind = "record" => file # None /\ seen[r].record.n <= file.record.n)
      BY <1>1 DEF ReaderInv
    <3>4. CASE file = None
      <4>1. Rank(seen'[r]) = 0  BY <3>2, <3>4 DEF Rank
      <4>2. Rank(seen[r]) <= 0  BY <2>1, <3>3, <3>4 DEF Rank, Views
      <4> QED  BY <4>1, <4>2
    <3>5. CASE file # None
      <4>1. Rank(seen'[r]) = file.record.n  BY <3>2, <3>5 DEF Rank
      <4>2. Rank(seen[r]) <= file.record.n  BY <2>1, <3>1, <3>3, <3>5 DEF Rank, Views
      <4> QED  BY <4>1, <4>2
    <3> QED  BY <3>4, <3>5
  <2>6. ~PowerLoss
    <3>1. losses \in Int  BY <1>1 DEF LossInv
    <3> QED  BY <3>1 DEF PowerLoss
  <2>7. seen'[r] = seen[r] \/ (Exists(r) /\ ~claim) \/ Read(r)
    BY <1>1, <2>6
    DEF FileNext, Step, fileVars, readers, Claim, BeginFirst, BeginNext, OpenTemp, Fill,
        SyncFile, Change, Replace, SyncDirectory, Returned, Fail, FailToRemove, Kill,
        Exists, Read, See, ReaderInv
  <2> QED  BY <2>3, <2>4, <2>5, <2>7
<1> QED
  BY <1>1, FileInvariant, ReaderInvariant, LossInvariant, PTL DEF FileSpec, ReadsNeverGoBack

\* A key is investigated a second time only after a power loss took the claim of the first.
THEOREM ClaimStaysHolds == FileSpec => []CrashedClaimStaysBlocked
<1>1. LossInv => CrashedClaimStaysBlocked
  <2> SUFFICES ASSUME LossInv PROVE Cardinality(owners) <= 1 + lost
    BY DEF CrashedClaimStaysBlocked
  <2>1. Cardinality(owners) \in Nat /\ lost \in Nat
    BY RecordFileAssumption, FS_CardinalityType DEF LossInv
  <2> QED  BY <2>1 DEF LossInv
<1> QED  BY <1>1, LossInvariant, PTL

\* Every variable keeps its type.
THEOREM FileTypeCorrect == FileSpec => []FileTypeOK
<1>1. FileInv /\ ReaderInv /\ LossInv => FileTypeOK
  <2> SUFFICES ASSUME FileInv, ReaderInv, LossInv PROVE FileTypeOK
    OBVIOUS
  <2>1. file # None => claim /\ file.record.n \in 1 .. LastRecord
    BY DEF FileInv, FileTypes, NothingUnclaimed, Inodes, Written
  <2> QED
    BY <2>1
    DEF FileInv, FileTypes, NothingUnclaimed, DurableInv, ReaderInv, LossInv, Views, FileTypeOK
<1> QED  BY <1>1, FileInvariant, ReaderInvariant, LossInvariant, PTL

-----------------------------------------------------------------------------
(* The files implement the store.                                          *)

Value == IF ~claim THEN Unclaimed ELSE IF file = None THEN Empty ELSE file.record
Acked == IF acked = None THEN 0 ELSE acked.n

\* What the store holds is a record exactly if there is a file, and its number is the file's.
ValueFacts ==
  /\ Value = Unclaimed <=> ~claim
  /\ Value \in Written <=> file # None
  /\ file # None => Value = file.record
  /\ Store!Number(Value) = Reached(file)
  /\ Reached(file) \in Nat

LEMMA ValueOfFiles == FileInv => ValueFacts
<1> SUFFICES ASSUME FileInv PROVE ValueFacts
  OBVIOUS
<1>1. file # None => claim /\ file \in Inodes /\ file.record \in Written
  BY DEF FileInv, FileTypes, NothingUnclaimed, Inodes
<1>2. Unclaimed \notin Written /\ Empty \notin Written /\ Unclaimed # Empty
  BY RecordFileAssumption
<1>3. Value = Unclaimed <=> ~claim  BY <1>1, <1>2 DEF Value
<1>4. Value \in Written <=> file # None  BY <1>1, <1>2 DEF Value
<1>5. file # None => Value = file.record  BY <1>1 DEF Value
<1>6. Store!Number(Value) = Reached(file)
  BY <1>4, <1>5 DEF Store!Number, Store!Records, Written, Reached
<1>7. Reached(file) \in Nat  BY <1>1 DEF Reached, Written
<1> QED  BY <1>3, <1>4, <1>5, <1>6, <1>7 DEF ValueFacts

StoreStep == Store!ClaimKey \/ Store!Put \/ Store!Acknowledge \/ Store!LosePower

LEMMA StoreVarsAre == Store!storeVars = <<Value, Acked>>
BY DEF Store!storeVars, Value, Acked

LEMMA ReplacePuts ==
  ASSUME FileInv, NEW p \in Processes, Replace(p)
  PROVE  Store!Put
<1>1. FileInv' /\ file' \in Inodes /\ file'.record = Record(p, Reached(file) + 1)
  BY ReplaceKeepsInv
<1> USE DEF ValueFacts
<1>0. ValueFacts /\ ValueFacts'
  <2>1. FileInv'  BY <1>1
  <2> QED  BY <2>1, ValueOfFiles, PTL
<1>2. claim /\ (file # None => file.record.owner = p)
  BY DEF Replace, FileInv, OneWriter, Progress, Active
<1>3. file' # None  BY <1>1, RecordFileAssumption
<1>4. Value' \in Written /\ Value' = file'.record  BY <1>0, <1>3
<1>5. Value'.n = Store!Number(Value) + 1 /\ Value'.owner = p
  BY <1>0, <1>1, <1>4 DEF Record
<1>6. Value # Unclaimed /\ (Value # Empty => Value.owner = p)
  BY <1>0, <1>2 DEF Value
<1>7. Acked' = Acked  BY DEF Replace, history, Acked
<1> QED
  BY <1>4, <1>5, <1>6, <1>7 DEF Store!Put, Store!Records, Written, Value, Acked

LEMMA SyncAcknowledges ==
  ASSUME FileInv, NEW p \in Processes, SyncDirectory(p)
  PROVE  Store!Acknowledge
<1>1. file # None /\ file.record \in Written
  BY DEF SyncDirectory, Returned, FileInv, FileTypes, OneWriter, Progress, Inodes
<1>2. acked' = file.record /\ UNCHANGED <<claim, file>>
  BY DEF SyncDirectory, Returned
<1>3. Acked' = Reached(file)  BY <1>1, <1>2, RecordFileAssumption DEF Acked, Reached
<1>4. Value' = Value  BY <1>2 DEF Value
<1> QED  BY <1>3, <1>4, ValueOfFiles DEF ValueFacts, Store!Acknowledge, Value, Acked

LEMMA LossLoses ==
  ASSUME FileInv, PowerLoss
  PROVE  Store!LosePower \/ UNCHANGED Store!storeVars
<1> USE DEF ValueFacts
<1>0. FileInv'  BY PowerLossKeepsInv
<1>1. ValueFacts /\ ValueFacts'  BY <1>0, ValueOfFiles, PTL
<1>2. CASE ~claim'
  <2>1. Value' = Unclaimed  BY <1>2 DEF Value
  <2>2. Acked' = 0  BY <1>0, <1>2 DEF FileInv, NothingUnclaimed, Acked
  <2> QED  BY <2>1, <2>2 DEF Store!LosePower, Value, Acked
<1>3. CASE claim'
  <2>1. claim /\ file' \in durable /\ acked' = acked
    BY <1>3, LossKeepsInode DEF PowerLoss
  <2>2. Value # Unclaimed  BY <1>1, <2>1
  <2>3. Value' \in Written \cup {Empty}
    BY <1>0, <1>3 DEF Value, FileInv, FileTypes, Inodes
  <2>4. Store!Number(Value') = Reached(file') /\ Reached(file') \in Nat
    BY <1>1 DEF Store!Number, Store!Records
  <2>5. Reached(file') <= Reached(file)
    BY <1>1, <2>1 DEF FileInv, DurableInv, Reached
  <2>6. acked # None => acked \in Written /\ file' # None /\ file'.record.n >= acked.n
    BY <2>1 DEF FileInv, FileTypes, DurableInv
  <2>7. Acked \in Nat /\ Acked <= Reached(file')
    BY <2>4, <2>6, RecordFileAssumption DEF Written, Acked, Reached
  <2>8. Value' \in Written => Value'.owner = Value.owner
    <3> SUFFICES ASSUME Value' \in Written PROVE Value'.owner = Value.owner
      OBVIOUS
    <3>1. file' # None /\ Value' = file'.record  BY <1>1
    <3>2. file # None /\ file'.record.owner = file.record.owner
      BY <2>1, <3>1 DEF FileInv, DurableInv
    <3> QED  BY <1>1, <3>1, <3>2
  <2>9. Acked' = Acked  BY <2>1 DEF Acked
  <2>10. Store!Number(Value') \in Acked .. Store!Number(Value)
    BY <1>1, <2>4, <2>5, <2>7
  <2> QED
    BY <2>2, <2>3, <2>8, <2>9, <2>10 DEF Store!LosePower, Store!Records, Written, Value, Acked
<1> QED  BY <1>2, <1>3

LEMMA StoreStepHolds ==
  ASSUME FileInv, [FileNext]_fileVars
  PROVE  StoreStep \/ UNCHANGED Store!storeVars
<1>1. CASE UNCHANGED <<claim, file, acked>>  BY <1>1 DEF Store!storeVars
<1>2. ASSUME NEW p \in Processes, Claim(p), ~claim PROVE Store!ClaimKey
  <2>1. Value = Unclaimed /\ file = None  BY <1>2 DEF Value, FileInv, NothingUnclaimed
  <2>2. Value' = Empty /\ Acked' = Acked  BY <1>2, <2>1 DEF Claim, Value, Acked
  <2> QED  BY <2>1, <2>2 DEF Store!ClaimKey, Value, Acked
<1>3. \/ UNCHANGED <<claim, file, acked>>
      \/ \E p \in Processes : Claim(p) /\ ~claim
      \/ \E p \in Processes : Replace(p) \/ SyncDirectory(p)
      \/ PowerLoss
  BY DEF FileNext, Step, fileVars, files, readers, history, Claim, BeginFirst, BeginNext,
     OpenTemp, Fill, SyncFile, Change, Fail, FailToRemove, Kill, Exists, Read
<1> QED  BY <1>1, <1>2, <1>3, ReplacePuts, SyncAcknowledges, LossLoses DEF StoreStep

\* The files of a key implement the store of whole, acknowledged records.
THEOREM FilesImplementStore == FileSpec => ImplementsStore
<1>1. FileInit => Store!StoreInit  BY DEF FileInit, Store!StoreInit
<1>2. FileInv /\ [FileNext]_fileVars =>
        [Store!ClaimKey \/ Store!Put \/ Store!Acknowledge \/ Store!LosePower]_(Store!storeVars)
  BY StoreStepHolds DEF StoreStep
<1> QED
  BY <1>1, <1>2, FileInvariant, PTL DEF FileSpec, ImplementsStore, Store!StoreSpec
=============================================================================
