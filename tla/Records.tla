------------------------------ MODULE Records ------------------------------
(***************************************************************************)
(* The three records a receiver keeps beside its files, and how each is    *)
(* written, read and removed: transfer metadata (src/transfer_metadata.rs),*)
(* the chunk state (src/chunk_state.rs) and the completion receipt         *)
(* (src/completion_receipt.rs).  A behaviour follows one record; "kind"    *)
(* says which.  A step is one file operation, so that a process can die,   *)
(* the machine can lose power or another process can act between any two. *)
(***************************************************************************)
EXTENDS Storage

CONSTANT Writers  \* the processes that use a record: [kinds -> SUBSET Procs]

Kinds == DOMAIN Writers

ASSUME RecordsAssumption ==
    /\ Kinds \subseteq {"metadata", "chunks", "receipt"}
    /\ \A k \in Kinds : Writers[k] \subseteq Procs

VARIABLES
    kind,     \* which record this behaviour is about
    proc,     \* where each process is, what it writes, what came of it
    crossed   \* a process published the file another one was writing

vars == <<storageVars, kind, proc, crossed>>

Stage == { "idle", "directory", "lookup", "compare", "stale", "create", "write",
           "sync", "displace", "publish", "validate", "discard", "sweep", "done" }

Outcome == {"none", "ok", "failed", "conflict"}

Process == [at : Stage, want : Values \cup {Torn}, says : Outcome]
Idle == [at |-> "idle", want |-> Torn, says |-> "none"]

(* Types, and a handle that is held from the file's creation to the return. *)
TypeOK ==
    /\ StorageTypeOK
    /\ kind \in Kinds
    /\ proc \in [Procs -> Process]
    /\ crossed \in BOOLEAN
    /\ \A p \in Procs :
          /\ proc[p].at \in {"write", "sync", "displace", "publish", "validate"} =>
                pinned[p] \in Inodes
          /\ proc[p].at \in {"idle", "stale", "create", "discard"} => pinned[p] = Absent

(* A record may be there, whole; a temporary file may be left of a crash;  *)
(* and the user may have put something else at any of the names.           *)
Init ==
    /\ platform \in Platforms
    /\ kind \in Kinds
    /\ \E internal, receipts \in {Absent, Foreign, Folder},
          final \in {Absent, Foreign, 1}, temporary \in {Absent, Foreign, 2} :
          /\ kind # "receipt" => internal = Folder /\ receipts = Absent
          /\ internal # Folder => receipts = Absent
          /\ kind = "receipt" /\ receipts # Folder => final = Absent /\ temporary = Absent
          /\ tree = [internal |-> internal, receipts |-> receipts,
                     final |-> final, temporary |-> temporary]
    /\ disk = tree
    /\ \E old \in Values :
          file = [i \in Inodes |-> IF i = tree.final THEN [data |-> old, synced |-> TRUE] ELSE Blank]
    /\ pinned = [p \in Procs |-> Absent]
    /\ proc = [p \in Procs |-> Idle]
    /\ crossed = FALSE

-----------------------------------------------------------------------------
Go(p, stage) == proc' = [proc EXCEPT ![p].at = stage]

ReturnHolding(p, outcome) ==
    /\ proc' = [proc EXCEPT ![p] = [at |-> "idle", says |-> outcome, want |-> Torn]]
    /\ UNCHANGED <<storageVars, kind, crossed>>

(* The function returns, and drops its handle.  What an "ok" was about is  *)
(* remembered for the properties.                                          *)
Return(p, outcome) ==
    /\ proc' = [proc EXCEPT ![p] = [at |-> "idle", says |-> outcome,
                    want |-> IF outcome = "ok" THEN proc[p].want ELSE Torn]]
    /\ pinned' = [pinned EXCEPT ![p] = Absent]
    /\ UNCHANGED <<platform, tree, disk, kind, crossed>>
    /\ Keep(file)

(* The step succeeds and changes no file. *)
Proceed(p, stage) == Go(p, stage) /\ UNCHANGED <<storageVars, kind, crossed>>

(* Any operation may fail: the error is returned, what is there stays. *)
Fails(p) == proc[p].at # "idle" /\ Return(p, "failed")

Begin(p, stage, v) ==
    /\ proc[p].at = "idle"
    /\ proc' = [proc EXCEPT ![p] = [at |-> stage, want |-> v, says |-> "none"]]
    /\ UNCHANGED <<storageVars, kind, crossed>>

(* The three writers; the receipt's directories may not be there yet. *)
WriteTransferMetadata(p, v) == kind = "metadata" /\ Begin(p, "stale", v)
WriteChunkState(p, v) == kind = "chunks" /\ Begin(p, "stale", v)
WriteCompletionReceipt(p, v) == kind = "receipt" /\ Begin(p, "directory", v)

EnsureDirectory(p) ==
    /\ proc[p].at = "directory"
    /\ IF MissingFolders = {} THEN Proceed(p, "lookup")
       ELSE IF tree[FirstMissing] = Foreign THEN Return(p, "failed")
       ELSE /\ tree' = At(FirstMissing, Folder)
            /\ UNCHANGED <<platform, disk, file, pinned, kind, proc, crossed>>

(* A receipt that is there already is compared with the new one. *)
LookUp(p) ==
    /\ proc[p].at = "lookup"
    /\ Proceed(p, IF Exists("final") THEN "compare" ELSE "stale")

Compare(p) ==
    /\ proc[p].at = "compare"
    /\ Return(p, IF ~CanOpen(p, "final") \/ Contents("final") = Torn THEN "failed"
                 ELSE IF Contents("final") = proc[p].want THEN "ok" ELSE "conflict")

Remove(p, name, stage) ==
    /\ Go(p, stage)
    /\ tree' = Removed(name)
    /\ UNCHANGED <<platform, disk, pinned, kind, crossed>>
    /\ Keep(file)

RemoveBoth(p) ==
    /\ proc[p].at = "stale"
    /\ IF CanRemove(p, "temporary") /\ CanRemove(p, "final")
       THEN /\ Go(p, "create")
            /\ tree' = [tree EXCEPT !["final"] = Absent, !["temporary"] = Absent]
            /\ UNCHANGED <<platform, disk, pinned, kind, crossed>>
            /\ Keep(file)
       ELSE Return(p, "failed")

(* The temporary file a crash left is removed. *)
RemoveStale(p) ==
    /\ proc[p].at = "stale"
    /\ IF CanRemove(p, "temporary") THEN Remove(p, "temporary", "create") ELSE Return(p, "failed")

CreateTemporary(p) ==
    /\ proc[p].at = "create"
    /\ IF CanCreate("temporary")
       THEN /\ CreateNew(p, "temporary")
            /\ Go(p, "write")
            /\ UNCHANGED <<kind, crossed>>
       ELSE Return(p, "failed")

(* write_all and flush: until they are done the file does not decode *)
WriteAll(p) ==
    /\ proc[p].at = "write"
    /\ Go(p, "sync")
    /\ UNCHANGED <<platform, tree, disk, pinned, kind, crossed>>
    /\ Keep([file EXCEPT ![pinned[p]].data = proc[p].want])

FlushOnly(p) ==
    /\ proc[p].at = "sync"
    /\ Proceed(p, IF kind = "receipt" THEN "publish" ELSE "displace")

SyncAll(p) ==
    /\ proc[p].at = "sync"
    /\ Go(p, IF kind = "receipt" THEN "publish" ELSE "displace")
    /\ UNCHANGED <<platform, tree, disk, pinned, kind, crossed>>
    /\ Keep([file EXCEPT ![pinned[p]].synced = TRUE])

(* The old record goes before the new one comes. *)
Displace(p) ==
    /\ proc[p].at = "displace"
    /\ IF CanRemove(p, "final") THEN Remove(p, "final", "publish") ELSE Return(p, "failed")

Rename(p) ==
    /\ Go(p, "validate")
    /\ tree' = Renamed(p, "temporary", "final")
    /\ crossed' = (crossed \/ tree.temporary # pinned[p])
    /\ UNCHANGED <<platform, disk, pinned, kind>>
    /\ Keep(file)

PromoteRename(p) ==
    /\ proc[p].at = "publish" /\ kind # "receipt"
    /\ IF CanRename(p, "temporary", "final") THEN Rename(p) ELSE Return(p, "failed")

PublishReplacing(p) ==
    /\ proc[p].at = "publish" /\ kind = "receipt"
    /\ IF CanRename(p, "temporary", "final") THEN Rename(p) ELSE Return(p, "failed")

(* A receipt that another process published meanwhile is not replaced. *)
PublishCompletionReceipt(p) ==
    /\ proc[p].at = "publish" /\ kind = "receipt"
    /\ IF ~CanRenameNew(p, "temporary") THEN Return(p, "failed")
       ELSE IF Exists("final") THEN Proceed(p, "compare")
       ELSE Rename(p)

ValidatePromotion(p) ==
    /\ proc[p].at = "validate"
    /\ Return(p, IF Published(p, "final") THEN "ok" ELSE "failed")

(* Metadata and chunk state are removed when a transfer is over, the       *)
(* record first, its temporary file after it.                              *)
RemoveTransferMetadata(p) == kind = "metadata" /\ Begin(p, "discard", Torn)
RemoveChunkState(p) == kind = "chunks" /\ Begin(p, "discard", Torn)

Discard(p) ==
    /\ proc[p].at = "discard"
    /\ IF CanRemove(p, "final") THEN Remove(p, "final", "sweep") ELSE Return(p, "failed")

Sweep(p) ==
    /\ proc[p].at = "sweep"
    /\ IF CanRemove(p, "temporary") THEN Remove(p, "temporary", "done") ELSE Return(p, "failed")

Done(p) == proc[p].at = "done" /\ Return(p, "ok")

(* The process is killed and started again. *)
Crash(p) ==
    /\ proc[p].at # "idle"
    /\ proc' = [proc EXCEPT ![p] = Idle]
    /\ pinned' = [pinned EXCEPT ![p] = Absent]
    /\ UNCHANGED <<platform, tree, disk, kind, crossed>>
    /\ Keep(file)

PowerFailure == PowerLost /\ proc' = [p \in Procs |-> Idle] /\ UNCHANGED <<kind, crossed>>

Step(p) ==
    \/ \E v \in Values : \/ WriteTransferMetadata(p, v)
                         \/ WriteChunkState(p, v)
                         \/ WriteCompletionReceipt(p, v)
    \/ RemoveTransferMetadata(p)
    \/ RemoveChunkState(p)
    \/ EnsureDirectory(p)
    \/ LookUp(p)
    \/ Compare(p)
    \/ RemoveStale(p)
    \/ CreateTemporary(p)
    \/ WriteAll(p)
    \/ SyncAll(p)
    \/ Displace(p)
    \/ PromoteRename(p)
    \/ PublishCompletionReceipt(p)
    \/ ValidatePromotion(p)
    \/ Discard(p)
    \/ Sweep(p)
    \/ Done(p)
    \/ Fails(p)
    \/ Crash(p)

Next ==
    \/ \E p \in Writers[kind] : Step(p)
    \/ WriteBack /\ UNCHANGED <<kind, proc, crossed>>
    \/ PowerFailure

Spec == Init /\ [][Next]_vars

-----------------------------------------------------------------------------
(* A record is never seen half written, and would not be after a power     *)
(* failure either: what the final name refers to, now or on the disk, was  *)
(* written to its end and synced before it got that name.  The one way out *)
(* is on Linux: a process whose temporary file was removed by a second     *)
(* writer of the same record publishes the second one's unfinished file,   *)
(* and learns it when it validates the publication.                        *)
WholeAt(entries) ==
    entries["final"] \in Inodes =>
        file[entries["final"]].synced /\ file[entries["final"]].data \in Values
VisibleIsWhole == crossed \/ (WholeAt(tree) /\ WholeAt(disk))

(* On Windows nobody can: the temporary file stays its writer's.           *)
HandlesExclude ==
    platform = "windows" =>
        /\ ~crossed
        /\ \A p \in Procs : proc[p].at \in {"write", "sync", "displace", "publish"} =>
                tree["temporary"] = pinned[p]

(* A receipt that was acknowledged is the receipt everybody reads: until   *)
(* the power fails, whoever else writes one, a process that was told "ok"  *)
(* finds its own record under the final name.                              *)
AcknowledgedStays ==
    \A p \in Procs : kind = "receipt" /\ proc[p].says = "ok" =>
        IsFile("final") /\ Contents("final") = proc[p].want

(* A published receipt is never replaced or removed; only a power failure  *)
(* that strikes before its directory was written back makes it vanish.     *)
ReceiptWrittenOnce ==
    [][kind = "receipt" /\ IsFile("final") =>
          \/ tree'["final"] = tree["final"]
          \/ disk["final"] = Absent /\ tree' = disk]_vars

(* The old record goes only for a new one that is whole and synced, or     *)
(* because its removal was asked for.                                      *)
OldKeptForNew ==
    [][IsFile("final") /\ tree'["final"] = Absent =>
          \/ tree' = disk
          \/ \E p \in Procs : proc[p].at = "discard"
          \/ \E p \in Procs : /\ proc[p].at = "displace"
                               /\ file[pinned[p]] = [data |-> proc[p].want, synced |-> TRUE]]_vars

(* What is not a regular file is neither removed, replaced nor written.    *)
ForeignKept == [][\A n \in Names : tree[n] = Foreign => tree'[n] = Foreign]_vars
=============================================================================
