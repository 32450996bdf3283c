---------------------------- MODULE RecordsProofs ----------------------------
(***************************************************************************)
(* The records are safe for any number of processes, values and files, on  *)
(* both platforms, whatever crashes and power failures come between two    *)
(* file operations.                                                        *)
(***************************************************************************)
EXTENDS Records, TLAPS, FiniteSetTheorems

Writing == {"write", "sync", "displace", "publish", "validate"}

(* Which stages a record's kind leads through, and that what a process     *)
(* writes is a whole record.                                               *)
StageInv ==
    \A p \in Procs :
        /\ kind = "receipt" => proc[p].at \notin {"displace", "discard", "sweep", "done"}
        /\ kind # "receipt" => proc[p].at \notin {"directory", "lookup", "compare"}
        /\ proc[p].at \notin {"idle", "discard", "sweep", "done"} => proc[p].want \in Values
        /\ proc[p].says # "none" => proc[p].at = "idle"
        /\ kind = "receipt" /\ proc[p].says = "ok" => proc[p].want \in Values

(* A file that is being written is open in one process, and in no other.   *)
HandleInv ==
    \A p \in Procs :
        /\ proc[p].at \in Writing => pinned[p] \in Inodes
        /\ proc[p].at \notin Writing \cup {"compare"} => pinned[p] = Absent
        /\ \A q \in Procs : pinned[p] = pinned[q] /\ pinned[p] \in Inodes => p = q

(* How far the file is that a process has open. *)
FileInv ==
    \A p \in Procs :
        /\ proc[p].at = "write" =>
              file[pinned[p]].data = Torn /\ ~file[pinned[p]].synced
        /\ proc[p].at \in {"sync", "displace", "publish", "validate"} =>
              file[pinned[p]].data = proc[p].want
        /\ proc[p].at \in {"displace", "publish", "validate"} => file[pinned[p]].synced

(* What the disk may be behind in. *)
DiskInv ==
    /\ \A n \in Names : tree[n] = Foreign => disk[n] = Foreign
    /\ kind = "receipt" => disk["final"] \in {Absent, tree["final"]}

TypeInv ==
    /\ StorageTypeOK
    /\ kind \in Kinds
    /\ proc \in [Procs -> Process]
    /\ crossed \in BOOLEAN

RecordInv ==
    /\ TypeInv
    /\ StageInv
    /\ HandleInv
    /\ FileInv
    /\ DiskInv
    /\ VisibleIsWhole
    /\ HandlesExclude
    /\ AcknowledgedStays

-----------------------------------------------------------------------------
(* What is no file's number. *)
LEMMA Entries ==
    /\ Absent \notin Inodes /\ Foreign \notin Inodes /\ Folder \notin Inodes
    /\ Absent # Foreign /\ Folder # Absent /\ Folder # Foreign
    /\ Torn \notin Values
<1>1. ASSUME NEW x, NEW y
      PROVE  Cardinality({x, y}) # 3
  <2>1. IsFiniteSet({x}) /\ Cardinality({x}) = 1
    BY FS_Singleton
  <2>2. Cardinality({x} \cup {y}) \in {1, 2}
    BY <2>1, FS_AddElement
  <2>3. {x, y} = {x} \cup {y}
    OBVIOUS
  <2>4. QED
    BY <2>2, <2>3
<1>2. Absent # Foreign /\ Folder # Absent /\ Folder # Foreign
  <2>1. /\ Absent = Foreign => {Absent, Foreign, Folder} = {Absent, Folder}
        /\ Folder = Absent => {Absent, Foreign, Folder} = {Absent, Foreign}
        /\ Folder = Foreign => {Absent, Foreign, Folder} = {Absent, Foreign}
    OBVIOUS
  <2>2. QED
    BY <1>1, <2>1, StorageAssumption
<1>3. QED
  BY <1>2, StorageAssumption DEF Inodes

(* A new file is one that nothing refers to. *)
LEMMA FreshIsUnused ==
    ASSUME NEW i \in Inodes, Unused(i)
    PROVE  Fresh \in Inodes /\ Unused(Fresh)
BY DEF Fresh

(* A file that something refers to after the step is kept by it. *)
LEMMA Kept ==
    ASSUME NEW files \in [Inodes -> File], Keep(files)
    PROVE  /\ file' \in [Inodes -> File]
           /\ \A n \in Names : tree'[n] \in Inodes => file'[tree'[n]] = files[tree'[n]]
           /\ \A n \in Names : disk'[n] \in Inodes => file'[disk'[n]] = files[disk'[n]]
           /\ \A p \in Procs : pinned'[p] \in Inodes => file'[pinned'[p]] = files[pinned'[p]]
<1>1. Blank \in File
  BY DEF Blank, File
<1>2. QED
  BY <1>1 DEF Keep, Unused

-----------------------------------------------------------------------------
(* The steps of one process, by what they touch.  Nothing but the process. *)
LEMMA ProcessMoves ==
    ASSUME RecordInv, NEW p \in Procs, NEW r \in Process,
           proc' = [proc EXCEPT ![p] = r],
           UNCHANGED <<storageVars, kind, crossed>>,
           StageInv', HandleInv', FileInv',
           r.says # "ok",
           r.at \in {"write", "sync", "displace", "publish"} =>
              proc[p].at \in {"write", "sync", "displace", "publish"}
    PROVE  RecordInv'
<1>1. VisibleIsWhole'
  BY DEF RecordInv, TypeInv, VisibleIsWhole, WholeAt, storageVars
<1>2. HandlesExclude'
  BY DEF RecordInv, TypeInv, HandlesExclude, storageVars
<1>3. AcknowledgedStays'
  BY DEF RecordInv, TypeInv, AcknowledgedStays, IsFile, Contents, storageVars
<1>4. QED
  BY <1>1, <1>2, <1>3 DEF RecordInv, TypeInv, StorageTypeOK, DiskInv, storageVars

LEMMA Begins ==
    ASSUME RecordInv, NEW p \in Procs,
           \/ \E v \in Values : \/ WriteTransferMetadata(p, v)
                                \/ WriteChunkState(p, v)
                                \/ WriteCompletionReceipt(p, v)
           \/ RemoveTransferMetadata(p)
           \/ RemoveChunkState(p)
    PROVE  RecordInv'
<1>1. PICK stage \in {"stale", "directory", "discard"}, v \in Values \cup {Torn} :
        /\ Begin(p, stage, v)
        /\ stage = "directory" => kind = "receipt"
        /\ stage = "discard" => kind # "receipt"
        /\ stage # "discard" => v \in Values
  BY DEF WriteTransferMetadata, WriteChunkState, WriteCompletionReceipt,
         RemoveTransferMetadata, RemoveChunkState
<1> DEFINE r == [at |-> stage, want |-> v, says |-> "none"]
<1>2. r \in Process /\ proc' = [proc EXCEPT ![p] = r]
      /\ UNCHANGED <<storageVars, kind, crossed>> /\ proc[p].at = "idle"
  BY <1>1 DEF Begin, Process, Stage, Outcome
<1>3. StageInv'
  BY <1>1, <1>2 DEF RecordInv, TypeInv, StageInv
<1>4. HandleInv' /\ FileInv'
  BY <1>2 DEF RecordInv, TypeInv, HandleInv, FileInv, Writing, storageVars
<1>5. QED
  BY <1>2, <1>3, <1>4, ProcessMoves

LEMMA Proceeds ==
    ASSUME RecordInv, NEW p \in Procs, NEW stage \in Stage, Proceed(p, stage),
           \/ proc[p].at \in {"directory", "lookup"} /\ stage \in {"lookup", "compare", "stale"}
           \/ proc[p].at = "publish" /\ kind = "receipt" /\ stage = "compare"
    PROVE  RecordInv'
<1> DEFINE r == [proc[p] EXCEPT !.at = stage]
<1>1. r \in Process /\ proc' = [proc EXCEPT ![p] = r]
      /\ UNCHANGED <<storageVars, kind, crossed>>
  BY DEF RecordInv, TypeInv, Proceed, Go, Process
<1>2. StageInv' /\ HandleInv' /\ FileInv'
  BY <1>1 DEF RecordInv, TypeInv, StageInv, HandleInv, FileInv, Writing, storageVars, Process
<1>3. r.says # "ok"
  BY DEF RecordInv, TypeInv, StageInv, Process
<1>4. QED
  BY <1>1, <1>2, <1>3, ProcessMoves DEF Process

(* The process lets go of its file, if it has one.                         *)
LEMMA LetsGo ==
    ASSUME RecordInv, NEW p \in Procs, NEW r \in Process,
           proc' = [proc EXCEPT ![p] = r],
           pinned' = [pinned EXCEPT ![p] = Absent],
           UNCHANGED <<platform, tree, disk, kind, crossed>>, Keep(file),
           r.at = "idle",
           kind = "receipt" /\ r.says = "ok" =>
              r.want \in Values /\ IsFile("final") /\ Contents("final") = r.want
    PROVE  RecordInv'
<1> USE Entries
<1>1. TypeInv /\ TypeInv'
  BY Kept DEF RecordInv, TypeInv, StorageTypeOK
<1>2. StageInv'
  BY DEF RecordInv, TypeInv, StageInv
<1>3. HandleInv'
  BY DEF RecordInv, TypeInv, HandleInv, Writing, StorageTypeOK
<1>4. FileInv'
  BY <1>1, Kept DEF RecordInv, TypeInv, StorageTypeOK, HandleInv, FileInv, Writing
<1>5. DiskInv'
  BY DEF RecordInv, TypeInv, DiskInv
<1>6. VisibleIsWhole'
  BY <1>1, Kept DEF RecordInv, TypeInv, StorageTypeOK, VisibleIsWhole, WholeAt, Names
<1>7. HandlesExclude'
  BY <1>1 DEF RecordInv, TypeInv, HandlesExclude, StorageTypeOK
<1>8. AcknowledgedStays'
  BY <1>1, Kept DEF RecordInv, TypeInv, StorageTypeOK, AcknowledgedStays, IsFile, Contents, Names
<1>9. QED
  BY <1>1, <1>2, <1>3, <1>4, <1>5, <1>6, <1>7, <1>8 DEF RecordInv, TypeInv

LEMMA Returns ==
    ASSUME RecordInv, NEW p \in Procs, NEW outcome \in Outcome, Return(p, outcome),
           outcome = "ok" =>
              \/ kind # "receipt"
              \/ /\ proc[p].at # "idle" /\ IsFile("final")
                 /\ Contents("final") = proc[p].want
    PROVE  RecordInv'
<1> DEFINE r == [at |-> "idle", says |-> outcome,
                 want |-> IF outcome = "ok" THEN proc[p].want ELSE Torn]
<1>1. r \in Process
  BY DEF RecordInv, TypeInv, Process, Stage
<1>2. kind = "receipt" /\ outcome = "ok" => proc[p].want \in Values
  BY DEF RecordInv, TypeInv, StageInv
<1>3. QED
  BY <1>1, <1>2, LetsGo DEF Return

LEMMA Crashes ==
    ASSUME RecordInv, NEW p \in Procs, Crash(p)
    PROVE  RecordInv'
<1>1. Idle \in Process /\ Idle.at = "idle" /\ Idle.says # "ok"
  BY DEF Idle, Process, Stage, Outcome
<1>2. QED
  BY <1>1, LetsGo DEF Crash

(* An entry that is no file of somebody else's goes.                       *)
LEMMA Removes ==
    ASSUME RecordInv, NEW p \in Procs, NEW name \in {"final", "temporary"},
           NEW stage \in Stage, Remove(p, name, stage), CanRemove(p, name),
           kind = "receipt" => name = "temporary",
           \/ proc[p].at = "stale" /\ stage = "create"
           \/ proc[p].at = "displace" /\ stage = "publish" /\ name = "final"
           \/ proc[p].at = "discard" /\ stage = "sweep"
           \/ proc[p].at = "sweep" /\ stage = "done"
    PROVE  RecordInv'
<1> USE Entries
<1>1. TypeInv /\ TypeInv'
  <2>1. TypeInv
    BY DEF RecordInv
  <2>2. file' \in [Inodes -> File] /\ UNCHANGED <<platform, disk, pinned, kind, crossed>>
    BY <2>1, Kept DEF TypeInv, StorageTypeOK, Remove, Removed
  <2>3. tree' \in [Names -> Entry]
    BY <2>1 DEF TypeInv, StorageTypeOK, Remove, Removed, At, Entry
  <2>4. proc' \in [Procs -> Process]
    BY <2>1 DEF TypeInv, Remove, Go, Process
  <2>5. QED
    BY <2>1, <2>2, <2>3, <2>4 DEF TypeInv, StorageTypeOK
<1>2. StageInv'
  BY <1>1 DEF RecordInv, TypeInv, StageInv, Remove, Go, Process
<1>3. HandleInv'
  BY <1>1 DEF RecordInv, TypeInv, HandleInv, Writing, Remove, Go, Process
<1>4. FileInv'
  BY <1>1, Kept DEF RecordInv, TypeInv, StorageTypeOK, HandleInv, FileInv, Writing,
                    Remove, Go, Process
<1>5. DiskInv'
  BY <1>1 DEF RecordInv, TypeInv, DiskInv, Remove, Removed, At, CanRemove, CanOpen, IsFile,
              StorageTypeOK, Names
<1>6. VisibleIsWhole'
  BY <1>1, Kept DEF RecordInv, TypeInv, StorageTypeOK, VisibleIsWhole, WholeAt, Names,
                    Remove, Removed, At
<1>7. HandlesExclude'
  BY <1>1 DEF RecordInv, TypeInv, HandlesExclude, HandleInv, StorageTypeOK, Names, Writing,
              Remove, Removed, At, Go, CanRemove, CanOpen, Held, IsFile, Process
<1>8. AcknowledgedStays'
  BY <1>1, Kept DEF RecordInv, TypeInv, StorageTypeOK, StageInv, AcknowledgedStays, IsFile,
                    Contents, Names, Remove, Removed, At, Go, Process
<1>9. QED
  BY <1>1, <1>2, <1>3, <1>4, <1>5, <1>6, <1>7, <1>8 DEF RecordInv, TypeInv

(* The first directory that is missing is one of the two. *)
LEMMA FirstMissingIsFolder ==
    ASSUME MissingFolders # {}
    PROVE  FirstMissing \in {"internal", "receipts"}
<1> DEFINE n == CHOOSE n \in MissingFolders : \A m \in MissingFolders : n <= m
<1>1. MissingFolders \subseteq {1, 2}
  BY DEF MissingFolders, Folders
<1>2. \/ 1 \in MissingFolders
      \/ 1 \notin MissingFolders /\ 2 \in MissingFolders
  BY <1>1
<1>3. \/ \A m \in MissingFolders : 1 <= m
      \/ 1 \notin MissingFolders
  BY <1>1
<1>4. \/ \A m \in MissingFolders : 2 <= m
      \/ 1 \in MissingFolders
  BY <1>1
<1>5. n \in MissingFolders
  BY <1>2, <1>3, <1>4
<1>6. FirstMissing = Folders[n]
  BY DEF FirstMissing
<1> HIDE DEF n
<1>7. QED
  BY <1>1, <1>5, <1>6 DEF Folders

LEMMA MakesDirectory ==
    ASSUME RecordInv, NEW p \in Procs, EnsureDirectory(p)
    PROVE  RecordInv'
<1> USE Entries
<1>1. CASE MissingFolders = {}
  BY <1>1, Proceeds DEF EnsureDirectory, Stage
<1>2. CASE MissingFolders # {} /\ tree[FirstMissing] = Foreign
  BY <1>2, Returns DEF EnsureDirectory, Outcome
<1>3. CASE MissingFolders # {} /\ tree[FirstMissing] # Foreign
  <2>1. FirstMissing \in {"internal", "receipts"}
    BY <1>3, FirstMissingIsFolder
  <2>2. /\ tree' = [tree EXCEPT ![FirstMissing] = Folder]
        /\ UNCHANGED <<platform, disk, file, pinned, kind, proc, crossed>>
    BY <1>3 DEF EnsureDirectory, At
  <2>3. /\ TypeInv' /\ DiskInv'
        /\ tree'["final"] = tree["final"] /\ tree'["temporary"] = tree["temporary"]
    BY <2>1, <2>2 DEF RecordInv, TypeInv, StorageTypeOK, Names, Entry, DiskInv
  <2>4. StageInv' /\ HandleInv' /\ FileInv'
    BY <2>2 DEF RecordInv, StageInv, HandleInv, FileInv
  <2>5. VisibleIsWhole' /\ HandlesExclude' /\ AcknowledgedStays'
    BY <2>2, <2>3 DEF RecordInv, VisibleIsWhole, WholeAt, HandlesExclude, AcknowledgedStays,
                      IsFile, Contents
  <2>6. QED
    BY <2>3, <2>4, <2>5 DEF RecordInv
<1>4. QED
  BY <1>1, <1>2, <1>3

(* The new file is nobody's yet: no entry and no handle is for it.         *)
LEMMA Creates ==
    ASSUME RecordInv, NEW p \in Procs, CreateTemporary(p)
    PROVE  RecordInv'
<1> USE Entries
<1>1. CASE ~CanCreate("temporary")
  BY <1>1, Returns DEF CreateTemporary, Outcome
<1>2. CASE CanCreate("temporary")
  <2> DEFINE files == [file EXCEPT ![Fresh] = Blank]
  <2>1. Fresh \in Inodes /\ Unused(Fresh) /\ tree["temporary"] = Absent
    BY <1>2, FreshIsUnused DEF CanCreate
  <2>2. /\ proc[p].at = "create"
        /\ proc' = [proc EXCEPT ![p].at = "write"]
        /\ tree' = [tree EXCEPT !["temporary"] = Fresh]
        /\ pinned' = [pinned EXCEPT ![p] = Fresh]
        /\ UNCHANGED <<platform, disk, kind, crossed>>
        /\ Keep(files)
    BY <1>2 DEF CreateTemporary, CreateNew, Go, At
  <2>3. files \in [Inodes -> File] /\ files[Fresh] = Blank
        /\ \A i \in Inodes : i # Fresh => files[i] = file[i]
    BY <2>1 DEF RecordInv, TypeInv, StorageTypeOK, Blank, File
  <2> HIDE DEF files
  <2>4. TypeInv /\ TypeInv'
    <3>1. TypeInv
      BY DEF RecordInv
    <3>2. file' \in [Inodes -> File]
      BY <2>2, <2>3, Kept
    <3>3. tree' \in [Names -> Entry] /\ pinned' \in [Procs -> Inodes \cup {Absent}]
      BY <2>1, <2>2, <3>1 DEF TypeInv, StorageTypeOK, Entry
    <3>4. proc' \in [Procs -> Process]
      BY <2>2, <3>1 DEF TypeInv, Process, Stage
    <3>5. QED
      BY <2>2, <3>1, <3>2, <3>3, <3>4 DEF TypeInv, StorageTypeOK
  <2>5. StageInv' /\ DiskInv'
    BY <2>2, <2>4 DEF RecordInv, TypeInv, StorageTypeOK, StageInv, DiskInv, Process, Names
  <2>fresh. file'[Fresh] = Blank
    <3>1. file'[pinned'[p]] = files[pinned'[p]] /\ pinned'[p] = Fresh
      BY <2>1, <2>2, <2>3, Kept DEF RecordInv, TypeInv, StorageTypeOK
    <3>2. QED
      BY <2>3, <3>1
  <2>others. \A q \in Procs \ {p} : pinned[q] # Fresh /\ pinned'[q] = pinned[q]
    BY <2>1, <2>2 DEF RecordInv, TypeInv, StorageTypeOK, Unused
  <2>theirs. \A q \in Procs \ {p} : pinned[q] \in Inodes => file'[pinned[q]] = file[pinned[q]]
    BY <2>2, <2>3, <2>others, Kept
  <2>final. tree'["final"] = tree["final"]
    BY <2>2 DEF RecordInv, TypeInv, StorageTypeOK, Names
  <2>named. \A n \in Names :
              /\ tree[n] \in Inodes => file'[tree[n]] = file[tree[n]]
              /\ disk[n] \in Inodes => file'[disk[n]] = file[disk[n]]
    <3>1. \A n \in Names : n # "temporary" => tree'[n] = tree[n]
      BY <2>2 DEF RecordInv, TypeInv, StorageTypeOK
    <3>2. \A n \in Names : tree[n] # Fresh /\ disk[n] # Fresh
      BY <2>1 DEF Unused
    <3>3. QED
      BY <2>1, <2>2, <2>3, <3>1, <3>2, Kept
  <2>6. HandleInv'
    BY <2>1, <2>2, <2>4 DEF RecordInv, TypeInv, StorageTypeOK, HandleInv, Writing, Unused, Process
  <2>7. FileInv'
    BY <2>1, <2>2, <2>4, <2>fresh, <2>others, <2>theirs
       DEF RecordInv, TypeInv, StorageTypeOK, HandleInv, FileInv, Writing, Process, Blank
  <2>8. VisibleIsWhole'
    <3>1. /\ tree["final"] \in Inodes => file'[tree["final"]] = file[tree["final"]]
          /\ disk["final"] \in Inodes => file'[disk["final"]] = file[disk["final"]]
      <4>1. "final" \in Names
        BY DEF Names
      <4>2. QED
        BY <2>named, <4>1
    <3>2. crossed' = crossed /\ disk' = disk /\ (crossed \/ (WholeAt(tree) /\ WholeAt(disk)))
      BY <2>2 DEF RecordInv, VisibleIsWhole
    <3>3. QED
      BY <2>final, <3>1, <3>2 DEF VisibleIsWhole, WholeAt
  <2>9. HandlesExclude'
    BY <2>1, <2>2, <2>4
       DEF RecordInv, TypeInv, StorageTypeOK, HandlesExclude, HandleInv, Writing, Names, Process
  <2>10. AcknowledgedStays'
    <3>1. ASSUME NEW q \in Procs, (kind = "receipt" /\ proc[q].says = "ok")'
          PROVE  (IsFile("final") /\ Contents("final") = proc[q].want)'
      <4>1. kind = "receipt" /\ proc[q].says = "ok" /\ proc'[q].want = proc[q].want
        BY <2>2, <3>1 DEF RecordInv, TypeInv, Process
      <4>2. tree["final"] \in Inodes /\ file[tree["final"]].data = proc[q].want
        BY <4>1 DEF RecordInv, AcknowledgedStays, IsFile, Contents
      <4>3. file'[tree["final"]] = file[tree["final"]]
        <5>1. "final" \in Names
          BY DEF Names
        <5>2. QED
          BY <2>named, <4>2, <5>1
      <4>4. QED
        BY <2>final, <4>1, <4>2, <4>3 DEF IsFile, Contents
    <3>2. QED
      BY <3>1 DEF AcknowledgedStays
  <2>11. QED
    BY <2>4, <2>5, <2>6, <2>7, <2>8, <2>9, <2>10 DEF RecordInv
<1>3. QED
  BY <1>1, <1>2

(* Only an unfinished file is written, and only by the one that has it.    *)
LEMMA Fills ==
    ASSUME RecordInv, NEW p \in Procs, WriteAll(p) \/ SyncAll(p)
    PROVE  RecordInv'
<1> USE Entries
<1> DEFINE i == pinned[p]
           files == IF proc[p].at = "write" THEN [file EXCEPT ![i].data = proc[p].want]
                    ELSE [file EXCEPT ![i].synced = TRUE]
           stage == IF proc[p].at = "write" THEN "sync"
                    ELSE IF kind = "receipt" THEN "publish" ELSE "displace"
<1>1. /\ proc[p].at \in {"write", "sync"} /\ proc[p].want \in Values /\ i \in Inodes
      /\ proc[p].at = "write" => file[i].data = Torn /\ ~file[i].synced
      /\ proc[p].at = "sync" => file[i].data = proc[p].want
  BY DEF WriteAll, SyncAll, RecordInv, StageInv, HandleInv, FileInv, Writing
<1>2. /\ proc' = [proc EXCEPT ![p].at = stage]
      /\ UNCHANGED <<platform, tree, disk, pinned, kind, crossed>>
      /\ Keep(files)
  BY DEF WriteAll, SyncAll, Go
<1>3. /\ files \in [Inodes -> File]
      /\ files[i].data = proc[p].want
      /\ proc[p].at = "sync" => files[i].synced
      /\ \A k \in Inodes : k # i => files[k] = file[k]
  BY <1>1 DEF RecordInv, TypeInv, StorageTypeOK, File
<1>4. stage \in {"sync", "publish", "displace"} /\ (stage = "sync" <=> proc[p].at = "write")
      /\ (kind = "receipt" => stage # "displace")
  BY <1>1
<1> HIDE DEF files, stage
<1>5. TypeInv /\ TypeInv'
  BY <1>2, <1>3, <1>4, Kept DEF RecordInv, TypeInv, StorageTypeOK, Process, Stage
<1>6. /\ file'[i].data = proc[p].want
      /\ proc[p].at = "sync" => file'[i].synced
      /\ \A q \in Procs \ {p} : pinned[q] \in Inodes => file'[pinned[q]] = file[pinned[q]]
      /\ \A n \in Names : /\ tree[n] \in Inodes /\ tree[n] # i => file'[tree[n]] = file[tree[n]]
                          /\ disk[n] \in Inodes /\ disk[n] # i => file'[disk[n]] = file[disk[n]]
  BY <1>1, <1>2, <1>3, Kept DEF RecordInv, HandleInv
<1>7. StageInv' /\ DiskInv'
  BY <1>1, <1>2, <1>4, <1>5 DEF RecordInv, TypeInv, StageInv, DiskInv, Process
<1>8. HandleInv'
  BY <1>1, <1>2, <1>4, <1>5 DEF RecordInv, TypeInv, HandleInv, Writing, Process
<1>9. FileInv'
  <2>1. /\ proc'[p].at = stage /\ proc'[p].want = proc[p].want
        /\ \A q \in Procs \ {p} : proc'[q] = proc[q]
    BY <1>2 DEF RecordInv, TypeInv, Process
  <2>2. \A q \in Procs \ {p} : proc[q].at \in Writing => pinned[q] \in Inodes
    BY DEF RecordInv, HandleInv
  <2>3. QED
    BY <1>1, <1>2, <1>4, <1>6, <2>1, <2>2 DEF RecordInv, FileInv, Writing
<1>10. VisibleIsWhole'
  BY <1>1, <1>2, <1>5, <1>6
     DEF RecordInv, TypeInv, StorageTypeOK, VisibleIsWhole, WholeAt, Names
<1>11. HandlesExclude'
  BY <1>1, <1>2, <1>4, <1>5 DEF RecordInv, TypeInv, HandlesExclude, Process
<1>12. AcknowledgedStays'
  BY <1>1, <1>2, <1>5, <1>6
     DEF RecordInv, TypeInv, StorageTypeOK, StageInv, AcknowledgedStays, IsFile, Contents,
         Names, Process
<1>13. QED
  BY <1>5, <1>7, <1>8, <1>9, <1>10, <1>11, <1>12 DEF RecordInv

(* The name goes to the file the process has open, or to a stranger's that *)
(* has taken its temporary name; then the two have crossed.                *)
LEMMA Renames ==
    ASSUME RecordInv, NEW p \in Procs, Rename(p), proc[p].at = "publish",
           CanRename(p, "temporary", "final"),
           kind = "receipt" => tree["final"] = Absent
    PROVE  RecordInv'
<1> USE Entries
<1> DEFINE i == tree["temporary"]
<1>1. /\ i \in Inodes /\ Source(p, "temporary") = i
      /\ platform = "windows" => i = pinned[p]
  BY DEF CanRename, Source
<1>2. /\ proc' = [proc EXCEPT ![p].at = "validate"]
      /\ tree' = [tree EXCEPT !["final"] = i, !["temporary"] = Absent]
      /\ crossed' = (crossed \/ i # pinned[p])
      /\ UNCHANGED <<platform, disk, pinned, kind>>
      /\ Keep(file)
  BY <1>1 DEF Rename, Go, Renamed
<1>3. /\ tree'["final"] = i /\ tree'["temporary"] = Absent
      /\ \A n \in Names \ {"final", "temporary"} : tree'[n] = tree[n]
  BY <1>2 DEF RecordInv, TypeInv, StorageTypeOK, Names
<1> HIDE DEF i
<1>4. TypeInv /\ TypeInv'
  BY <1>1, <1>2, Kept DEF RecordInv, TypeInv, StorageTypeOK, Process, Stage, Names, Entry
<1>5. StageInv'
  BY <1>2, <1>4 DEF RecordInv, TypeInv, StageInv, Process
<1>6. HandleInv'
  BY <1>2, <1>4 DEF RecordInv, TypeInv, HandleInv, Writing, Process
<1>7. FileInv'
  BY <1>2, <1>4, Kept
     DEF RecordInv, TypeInv, StorageTypeOK, HandleInv, FileInv, Writing, Process
<1>8. DiskInv'
  <2>1. tree["final"] \in {Absent} \cup Inodes
    BY DEF CanRename
  <2>2. QED
    BY <1>1, <1>2, <1>3, <2>1 DEF RecordInv, DiskInv
<1>9. VisibleIsWhole'
  <2>1. ASSUME ~crossed'
        PROVE  /\ file[i].synced /\ file[i].data \in Values
               /\ disk["final"] \in Inodes =>
                     file[disk["final"]].synced /\ file[disk["final"]].data \in Values
    BY <1>2, <2>1 DEF RecordInv, FileInv, StageInv, VisibleIsWhole, WholeAt
  <2>2. /\ file'[i] = file[i]
        /\ disk["final"] \in Inodes => file'[disk["final"]] = file[disk["final"]]
    BY <1>1, <1>2, <1>3, <1>4, Kept DEF TypeInv, StorageTypeOK, Names
  <2>3. QED
    BY <1>2, <1>3, <2>1, <2>2 DEF VisibleIsWhole, WholeAt
<1>10. HandlesExclude'
  <2>1. ASSUME platform = "windows", NEW q \in Procs \ {p},
               proc[q].at \in {"write", "sync", "displace", "publish"}
        PROVE  FALSE
    <3>1. tree["temporary"] = pinned[q] /\ pinned[q] \in Inodes
      BY <2>1 DEF RecordInv, HandlesExclude, HandleInv, Writing
    <3>2. QED
      BY <1>1, <2>1, <3>1 DEF RecordInv, HandleInv, i
  <2>2. platform = "windows" => ~crossed'
    BY <1>1, <1>2 DEF RecordInv, HandlesExclude
  <2>3. proc'[p].at = "validate" /\ \A q \in Procs \ {p} : proc'[q] = proc[q]
    BY <1>2, <1>4 DEF TypeInv, Process
  <2>4. QED
    BY <1>2, <2>1, <2>2, <2>3 DEF HandlesExclude
<1>11. AcknowledgedStays'
  <2>1. kind = "receipt" => \A q \in Procs : proc[q].says # "ok"
    BY DEF RecordInv, AcknowledgedStays, IsFile
  <2>2. \A q \in Procs : proc'[q].says = proc[q].says
    BY <1>2, <1>4 DEF TypeInv, Process
  <2>3. QED
    BY <1>2, <2>1, <2>2 DEF AcknowledgedStays
<1>12. QED
  BY <1>4, <1>5, <1>6, <1>7, <1>8, <1>9, <1>10, <1>11 DEF RecordInv

(* Every step of a process. *)
LEMMA ProcessSteps ==
    ASSUME RecordInv, NEW p \in Procs, Step(p)
    PROVE  RecordInv'
<1> USE DEF Stage, Outcome
<1>1. CASE LookUp(p)
  BY <1>1, Proceeds DEF LookUp
<1>2. CASE Compare(p)
  BY <1>2, Returns, Entries DEF Compare, CanOpen
<1>3. CASE RemoveStale(p)
  BY <1>3, Removes, Returns DEF RemoveStale
<1>4. CASE Displace(p)
  BY <1>4, Removes, Returns DEF Displace, RecordInv, StageInv
<1>5. CASE PromoteRename(p)
  BY <1>5, Renames, Returns DEF PromoteRename
<1>6. CASE PublishCompletionReceipt(p)
  <2>1. ASSUME CanRenameNew(p, "temporary"), ~Exists("final")
        PROVE  CanRename(p, "temporary", "final") /\ tree["final"] = Absent
    BY <2>1, Entries DEF CanRename, CanRenameNew, Exists, Held, IsFile
  <2>2. QED
    BY <1>6, <2>1, Renames, Returns, Proceeds DEF PublishCompletionReceipt
<1>7. CASE ValidatePromotion(p)
  <2>1. Published(p, "final") => IsFile("final") /\ Contents("final") = proc[p].want
    BY <1>7 DEF ValidatePromotion, Published, IsFile, Contents, RecordInv, HandleInv,
                FileInv, Writing
  <2>2. QED
    BY <1>7, <2>1, Returns DEF ValidatePromotion
<1>8. CASE Discard(p)
  BY <1>8, Removes, Returns DEF Discard, RecordInv, StageInv
<1>9. CASE Sweep(p)
  BY <1>9, Removes, Returns DEF Sweep, RecordInv, StageInv
<1>10. CASE Done(p)
  BY <1>10, Returns DEF Done, RecordInv, StageInv
<1>11. CASE Fails(p)
  BY <1>11, Returns DEF Fails
<1>12. QED
  BY <1>1, <1>2, <1>3, <1>4, <1>5, <1>6, <1>7, <1>8, <1>9, <1>10, <1>11,
     Begins, MakesDirectory, Creates, Fills, Crashes DEF Step

-----------------------------------------------------------------------------
LEMMA WritesBack ==
    ASSUME RecordInv, WriteBack, UNCHANGED <<kind, proc, crossed>>
    PROVE  RecordInv'
<1> USE Entries
<1>1. TypeInv /\ TypeInv'
  BY Kept DEF RecordInv, TypeInv, StorageTypeOK, WriteBack
<1>2. StageInv' /\ HandleInv' /\ DiskInv' /\ HandlesExclude'
  BY DEF RecordInv, StageInv, HandleInv, DiskInv, HandlesExclude, WriteBack
<1>3. FileInv'
  BY <1>1, Kept DEF RecordInv, TypeInv, StorageTypeOK, HandleInv, FileInv, Writing, WriteBack
<1>4. VisibleIsWhole' /\ AcknowledgedStays'
  BY <1>1, Kept DEF RecordInv, TypeInv, StorageTypeOK, VisibleIsWhole, WholeAt,
                    AcknowledgedStays, IsFile, Contents, Names, WriteBack
<1>5. QED
  BY <1>1, <1>2, <1>3, <1>4 DEF RecordInv

(* What was synced survives, and nobody is left to rely on the rest.       *)
LEMMA PowerFails ==
    ASSUME RecordInv, PowerFailure
    PROVE  RecordInv'
<1> USE Entries
<1>1. PICK lost \in SUBSET {i \in Inodes : ~file[i].synced} :
         Keep([i \in Inodes |-> IF i \in lost THEN Blank ELSE file[i]])
  BY DEF PowerFailure, PowerLost
<1> DEFINE files == [i \in Inodes |-> IF i \in lost THEN Blank ELSE file[i]]
<1>2. /\ files \in [Inodes -> File]
      /\ \A i \in Inodes : file[i].synced => files[i] = file[i]
  BY DEF RecordInv, TypeInv, StorageTypeOK, Blank, File
<1> HIDE DEF files
<1>3. /\ tree' = disk /\ UNCHANGED <<platform, disk, kind, crossed>>
      /\ pinned' = [p \in Procs |-> Absent] /\ proc' = [p \in Procs |-> Idle]
      /\ Keep(files)
  BY <1>1 DEF PowerFailure, PowerLost, files
<1>4. Idle \in Process /\ Idle.at = "idle" /\ Idle.says = "none"
  BY DEF Idle, Process, Stage, Outcome
<1>5. TypeInv /\ TypeInv'
  BY <1>2, <1>3, <1>4, Kept DEF RecordInv, TypeInv, StorageTypeOK
<1>6. StageInv' /\ HandleInv' /\ FileInv' /\ AcknowledgedStays'
  BY <1>3, <1>4 DEF StageInv, HandleInv, FileInv, AcknowledgedStays, Writing
<1>7. DiskInv' /\ HandlesExclude'
  BY <1>3, <1>4 DEF RecordInv, DiskInv, HandlesExclude
<1>8. VisibleIsWhole'
  BY <1>2, <1>3, <1>5, Kept DEF RecordInv, TypeInv, StorageTypeOK, VisibleIsWhole, WholeAt, Names
<1>9. QED
  BY <1>5, <1>6, <1>7, <1>8 DEF RecordInv

LEMMA Starts == Init => RecordInv
<1> SUFFICES ASSUME Init PROVE RecordInv
  OBVIOUS
<1> USE Entries
<1>1. Idle \in Process /\ Idle.at = "idle" /\ Idle.says = "none"
  BY DEF Idle, Process, Stage, Outcome
<1>2. TypeInv
  <2>1. tree \in [Names -> Entry]
    <3>1. PICK internal \in {Absent, Foreign, Folder}, receipts \in {Absent, Foreign, Folder},
               final \in {Absent, Foreign, 1}, temporary \in {Absent, Foreign, 2} :
             tree = [internal |-> internal, receipts |-> receipts,
                     final |-> final, temporary |-> temporary]
      BY DEF Init
    <3>2. {internal, receipts, final, temporary} \subseteq Entry
      BY StorageAssumption DEF Entry, Inodes
    <3>3. QED
      BY <3>1, <3>2 DEF Names
  <2>2. file \in [Inodes -> File]
    BY DEF Init, File, Blank
  <2>3. disk = tree /\ platform \in Platforms /\ kind \in Kinds /\ crossed = FALSE
        /\ pinned = [p \in Procs |-> Absent] /\ proc = [p \in Procs |-> Idle]
    BY DEF Init
  <2>4. QED
    BY <1>1, <2>1, <2>2, <2>3 DEF TypeInv, StorageTypeOK
<1>3. StageInv /\ HandleInv /\ FileInv /\ AcknowledgedStays
  BY <1>1 DEF Init, StageInv, HandleInv, FileInv, AcknowledgedStays, Writing
<1>4. DiskInv /\ HandlesExclude
  BY <1>1 DEF Init, DiskInv, HandlesExclude
<1>5. VisibleIsWhole
  BY DEF Init, VisibleIsWhole, WholeAt
<1>6. QED
  BY <1>2, <1>3, <1>4, <1>5 DEF RecordInv

LEMMA Steps == RecordInv /\ [Next]_vars => RecordInv'
<1> SUFFICES ASSUME RecordInv, [Next]_vars PROVE RecordInv'
  OBVIOUS
<1>1. kind \in Kinds
  BY DEF RecordInv, TypeInv
<1>2. ASSUME NEW p \in Writers[kind], Step(p) PROVE RecordInv'
  BY <1>1, <1>2, ProcessSteps, RecordsAssumption
<1>3. CASE UNCHANGED vars
  BY <1>3 DEF vars, storageVars, RecordInv, TypeInv, StorageTypeOK, StageInv, HandleInv,
              FileInv, DiskInv, VisibleIsWhole, WholeAt, HandlesExclude, AcknowledgedStays,
              IsFile, Contents
<1>4. QED
  BY <1>2, <1>3, WritesBack, PowerFails DEF Next

(* The whole invariant, in every reachable state. *)
THEOREM RecordInvHolds == Spec => []RecordInv
BY Starts, Steps, PTL DEF Spec

(* Types, and who holds a handle. *)
THEOREM RecordTypes == Spec => []TypeOK
<1>1. RecordInv => TypeOK
  BY DEF RecordInv, TypeInv, HandleInv, TypeOK, Writing
<1>2. QED
  BY <1>1, RecordInvHolds, PTL

(* No half-written record is under its final name, nor would one be after  *)
(* a power failure, unless two writers of one record have crossed.         *)
THEOREM WholeRecords == Spec => []VisibleIsWhole
<1>1. RecordInv => VisibleIsWhole
  BY DEF RecordInv
<1>2. QED
  BY <1>1, RecordInvHolds, PTL

(* On Windows two writers never cross: a temporary file stays its writer's. *)
THEOREM WindowsHandlesExclude == Spec => []HandlesExclude
<1>1. RecordInv => HandlesExclude
  BY DEF RecordInv
<1>2. QED
  BY <1>1, RecordInvHolds, PTL

(* A receipt that was acknowledged is the one everybody reads. *)
THEOREM AcknowledgedReceipts == Spec => []AcknowledgedStays
<1>1. RecordInv => AcknowledgedStays
  BY DEF RecordInv
<1>2. QED
  BY <1>1, RecordInvHolds, PTL

-----------------------------------------------------------------------------
(* What a step of a process can do to the entries. *)
MakesFolder ==
    /\ FirstMissing \in {"internal", "receipts"} /\ tree[FirstMissing] # Foreign
    /\ tree' = At(FirstMissing, Folder)

MakesTemporary == tree["temporary"] = Absent /\ Fresh \in Inodes /\ tree' = At("temporary", Fresh)

ClearsTemporary == tree["temporary"] # Foreign /\ tree' = Removed("temporary")

ClearsFinal(p) ==
    /\ kind # "receipt" /\ tree["final"] # Foreign /\ tree' = Removed("final")
    /\ \/ proc[p].at = "discard"
       \/ /\ proc[p].at = "displace"
          /\ file[pinned[p]] = [data |-> proc[p].want, synced |-> TRUE]

Publishes ==
    /\ tree["final"] # Foreign /\ tree["temporary"] \in Inodes
    /\ kind = "receipt" => tree["final"] = Absent
    /\ tree' = [tree EXCEPT !["final"] = tree["temporary"], !["temporary"] = Absent]

LEMMA EntrySteps ==
    ASSUME RecordInv, NEW p \in Procs, Step(p)
    PROVE  \/ UNCHANGED tree
           \/ MakesFolder
           \/ MakesTemporary
           \/ ClearsTemporary
           \/ ClearsFinal(p)
           \/ Publishes
<1> USE Entries
<1>1. ASSUME NEW stage, Proceed(p, stage) PROVE UNCHANGED tree
  BY <1>1 DEF Proceed, storageVars
<1>2. ASSUME NEW outcome, Return(p, outcome) PROVE UNCHANGED tree
  BY <1>2 DEF Return
<1>3. ASSUME NEW name \in {"final", "temporary"}, CanRemove(p, name)
      PROVE  tree[name] # Foreign
  BY <1>3 DEF CanRemove, CanOpen, IsFile
<1>4. CASE \/ \E v \in Values : \/ WriteTransferMetadata(p, v)
                                \/ WriteChunkState(p, v)
                                \/ WriteCompletionReceipt(p, v)
           \/ RemoveTransferMetadata(p)
           \/ RemoveChunkState(p)
  BY <1>4 DEF WriteTransferMetadata, WriteChunkState, WriteCompletionReceipt,
              RemoveTransferMetadata, RemoveChunkState, Begin, storageVars
<1>5. CASE LookUp(p) \/ Compare(p) \/ ValidatePromotion(p) \/ Done(p) \/ Fails(p)
  BY <1>1, <1>2, <1>5 DEF LookUp, Compare, ValidatePromotion, Done, Fails
<1>6. CASE EnsureDirectory(p)
  BY <1>1, <1>2, <1>6, FirstMissingIsFolder DEF EnsureDirectory, MakesFolder
<1>7. CASE RemoveStale(p) \/ Sweep(p)
  BY <1>2, <1>3, <1>7 DEF RemoveStale, Sweep, Remove, ClearsTemporary
<1>8. CASE CreateTemporary(p)
  BY <1>2, <1>8, FreshIsUnused DEF CreateTemporary, CanCreate, CreateNew, MakesTemporary
<1>9. CASE WriteAll(p) \/ SyncAll(p) \/ Crash(p)
  BY <1>9 DEF WriteAll, SyncAll, Crash
<1>10. CASE Displace(p)
  <2>1. proc[p].at = "displace" /\ kind # "receipt"
    BY <1>10 DEF Displace, RecordInv, StageInv
  <2>2. file[pinned[p]] = [data |-> proc[p].want, synced |-> TRUE]
    <3>1. file[pinned[p]] \in File /\ file[pinned[p]].data = proc[p].want
          /\ file[pinned[p]].synced
      BY <2>1 DEF RecordInv, TypeInv, StorageTypeOK, HandleInv, FileInv, Writing
    <3>2. QED
      BY <3>1 DEF File
  <2>3. QED
    BY <1>2, <1>3, <1>10, <2>1, <2>2 DEF Displace, Remove, ClearsFinal
<1>11. CASE Discard(p)
  BY <1>2, <1>3, <1>11 DEF Discard, Remove, ClearsFinal, RecordInv, StageInv
<1>12. CASE PromoteRename(p) \/ PublishCompletionReceipt(p)
  <2>1. ASSUME Rename(p), Source(p, "temporary") \in Inodes, tree["final"] # Foreign,
               kind = "receipt" => tree["final"] = Absent
        PROVE  Publishes
    <3>1. Source(p, "temporary") = tree["temporary"]
      BY <2>1 DEF Source
    <3>2. QED
      BY <2>1, <3>1 DEF Publishes, Rename, Renamed
  <2>2. QED
    BY <1>1, <1>2, <1>12, <2>1 DEF PromoteRename, PublishCompletionReceipt, CanRename,
                                    CanRenameNew, Exists
<1>13. QED
  BY <1>4, <1>5, <1>6, <1>7, <1>8, <1>9, <1>10, <1>11, <1>12 DEF Step

(* What that means for the names. *)
LEMMA EntriesMove ==
    ASSUME RecordInv, NEW p \in Procs, Step(p)
    PROVE  /\ \A n \in Names : tree[n] = Foreign => tree'[n] = Foreign
           /\ kind = "receipt" /\ IsFile("final") => tree'["final"] = tree["final"]
           /\ IsFile("final") /\ tree'["final"] = Absent => ClearsFinal(p)
<1> USE Entries
<1>1. tree \in [Names -> Entry] /\ Names = {"internal", "receipts", "final", "temporary"}
  BY DEF RecordInv, TypeInv, StorageTypeOK, Names
<1>2. CASE UNCHANGED tree
  BY <1>2 DEF IsFile
<1>3. CASE MakesFolder
  BY <1>1, <1>3 DEF MakesFolder, At, IsFile
<1>4. CASE MakesTemporary
  BY <1>1, <1>4 DEF MakesTemporary, At, IsFile
<1>5. CASE ClearsTemporary
  BY <1>1, <1>5 DEF ClearsTemporary, Removed, At, IsFile
<1>6. CASE ClearsFinal(p)
  <2>1. tree' = [tree EXCEPT !["final"] = Absent] /\ tree["final"] # Foreign /\ kind # "receipt"
    BY <1>6 DEF ClearsFinal, Removed, At
  <2>2. QED
    BY <1>1, <1>6, <2>1
<1>7. CASE Publishes
  BY <1>1, <1>7 DEF Publishes, IsFile
<1>8. QED
  BY <1>2, <1>3, <1>4, <1>5, <1>6, <1>7, EntrySteps

(* What every step does to them. *)
LEMMA EntriesStep ==
    ASSUME RecordInv, Next
    PROVE  \/ tree' = tree
           \/ tree' = disk
           \/ \E p \in Procs : Step(p)
<1>1. Writers[kind] \subseteq Procs
  BY RecordsAssumption DEF RecordInv, TypeInv
<1>2. QED
  BY <1>1 DEF Next, WriteBack, PowerFailure, PowerLost

(* A published receipt stays under its name. *)
THEOREM ReceiptsAreWrittenOnce == Spec => ReceiptWrittenOnce
<1>1. ASSUME RecordInv, Next, kind = "receipt", IsFile("final")
      PROVE  \/ tree'["final"] = tree["final"]
             \/ disk["final"] = Absent /\ tree' = disk
  <2>1. disk["final"] \in {Absent, tree["final"]}
    BY <1>1 DEF RecordInv, DiskInv
  <2>2. QED
    BY <1>1, <2>1, EntriesStep, EntriesMove
<1>2. RecordInv /\ [Next]_vars =>
        [kind = "receipt" /\ IsFile("final") =>
            \/ tree'["final"] = tree["final"]
            \/ disk["final"] = Absent /\ tree' = disk]_vars
  BY <1>1
<1>3. QED
  BY <1>2, RecordInvHolds, PTL DEF Spec, ReceiptWrittenOnce

(* The old record goes only for a new one, or when it is to go. *)
THEOREM OldRecordsAreKept == Spec => OldKeptForNew
<1> DEFINE Reason == \/ tree' = disk
                     \/ \E p \in Procs : proc[p].at = "discard"
                     \/ \E p \in Procs : /\ proc[p].at = "displace"
                                          /\ file[pinned[p]] = [data |-> proc[p].want, synced |-> TRUE]
<1>1. ASSUME RecordInv, Next, IsFile("final"), tree'["final"] = Absent
      PROVE  Reason
  <2>1. tree' # tree
    BY <1>1, Entries DEF IsFile
  <2>2. QED
    BY <1>1, <2>1, EntriesStep, EntriesMove DEF ClearsFinal
<1>2. RecordInv /\ [Next]_vars => [IsFile("final") /\ tree'["final"] = Absent => Reason]_vars
  BY <1>1
<1>3. QED
  BY <1>2, RecordInvHolds, PTL DEF Spec, OldKeptForNew

(* What is not a regular file stays. *)
THEOREM ForeignEntriesAreKept == Spec => ForeignKept
<1>1. ASSUME RecordInv, Next, NEW n \in Names, tree[n] = Foreign
      PROVE  tree'[n] = Foreign
  <2>1. disk[n] = Foreign
    BY <1>1 DEF RecordInv, DiskInv
  <2>2. QED
    BY <1>1, <2>1, EntriesStep, EntriesMove
<1>2. RecordInv /\ [Next]_vars => [\A n \in Names : tree[n] = Foreign => tree'[n] = Foreign]_vars
  BY <1>1
<1>3. QED
  BY <1>2, RecordInvHolds, PTL DEF Spec, ForeignKept
=============================================================================
