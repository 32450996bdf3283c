------------------------------ MODULE Storage ------------------------------
(***************************************************************************)
(* The receiver's file operations, src/receiver_storage.rs, and what they  *)
(* ask of the operating system.  Every path is walked from open directory  *)
(* handles and no link is followed; a file that is to be published stays   *)
(* open ("pinned") until its publication has been validated.               *)
(*                                                                         *)
(* An operation is an operator that returns the new tree, or says whether  *)
(* it fails.  Removal checks the entry and unlinks it in two system calls; *)
(* entries that are not regular files do not come and go here, so that the *)
(* result is that of the second call alone.                                *)
(*                                                                         *)
(* Two platforms differ.  On Linux a name can be unlinked or replaced      *)
(* while another process has the file open.  On Windows the handle of a    *)
(* pinned file shares neither reading, by those who deny deletion, nor     *)
(* deletion, and the rename is of the handle, not of a name.               *)
(***************************************************************************)
EXTENDS Integers, FiniteSets, Sequences

CONSTANTS
    Platforms,  \* a subset of {"linux", "windows"}
    Procs,      \* receiving processes that share a destination
    Values,     \* what a record can say
    Torn,       \* the bytes of a record that was not written to its end
    Absent,     \* no entry
    Foreign,    \* an entry that is not what is expected: a link, a special file
    Folder,     \* a directory
    MaxFiles    \* files there is room for: a record, a temporary file, more

ASSUME StorageAssumption ==
    /\ Platforms \subseteq {"linux", "windows"}
    /\ Torn \notin Values
    /\ MaxFiles \in Nat /\ MaxFiles >= 2
    /\ {Absent, Foreign, Folder} \cap (1 .. MaxFiles) = {}
    /\ Cardinality({Absent, Foreign, Folder}) = 3

(* .warpfile and .warpfile/receipts, the record and its temporary file *)
Folders == << "internal", "receipts" >>
Names == {"internal", "receipts", "final", "temporary"}
Inodes == 1 .. MaxFiles
Entry == Inodes \cup {Absent, Foreign, Folder}

VARIABLES
    platform,  \* never changes
    tree,      \* the entries as the processes see them
    disk,      \* the entries as a power failure would leave them
    file,      \* the contents of every inode, and whether they are synced
    pinned     \* the file each process has open for publication, or Absent

storageVars == <<platform, tree, disk, file, pinned>>

File == [data : Values \cup {Torn}, synced : BOOLEAN]

StorageTypeOK ==
    /\ platform \in Platforms
    /\ tree \in [Names -> Entry]
    /\ disk \in [Names -> Entry]
    /\ file \in [Inodes -> File]
    /\ pinned \in [Procs -> Inodes \cup {Absent}]

IsFile(name) == tree[name] \in Inodes
At(name, entry) == [tree EXCEPT ![name] = entry]

(* A file no name and no process refers to is freed. *)
Blank == [data |-> Torn, synced |-> FALSE]
Unused(i) ==
    /\ \A n \in Names : i # tree[n] /\ i # disk[n]
    /\ \A p \in Procs : i # pinned[p]
Keep(files) == file' = [i \in Inodes |-> IF Unused(i)' THEN Blank ELSE files[i]]

ShareDelete(p, name) == FALSE

(* Somebody else's handle, on Windows, keeps p from opening the file. *)
Held(p, name) ==
    platform = "windows" /\ \E q \in Procs \ {p} : pinned[q] = tree[name] /\ IsFile(name)

-----------------------------------------------------------------------------
(* directory(path, create = true): the first entry of the chain that is    *)
(* not a directory is made one, or stands in the way.                      *)
MissingFolders == {n \in DOMAIN Folders : tree[Folders[n]] # Folder}
FirstMissing ==
    Folders[CHOOSE n \in MissingFolders : \A m \in MissingFolders : n <= m]

(* exists: an entry of any kind counts, links too *)
Exists(name) == tree[name] # Absent

(* open_regular: links are not followed, anything but a file is refused *)
CanOpen(p, name) == IsFile(name) /\ ~Held(p, name)
Contents(name) == file[tree[name]].data

(* open_regular with create_new: the new file, empty and pinned; it needs  *)
(* room for one more.                                                      *)
CanCreate(name) == tree[name] = Absent /\ \E i \in Inodes : Unused(i)
Fresh == CHOOSE i \in Inodes : Unused(i)
CreateNew(p, name) ==
    /\ tree' = At(name, Fresh)
    /\ pinned' = [pinned EXCEPT ![p] = Fresh]
    /\ UNCHANGED <<platform, disk>>
    /\ Keep([file EXCEPT ![Fresh] = Blank])

RemoveAnything(p, name) == TRUE

(* remove_file, and the remove_if_exists wrapped around it *)
CanRemove(p, name) == tree[name] = Absent \/ CanOpen(p, name)
Removed(name) == At(name, Absent)

(* linux::rename, or rename_handle on Windows: the entry that moves *)
Source(p, from) ==
    IF platform = "windows" /\ tree[from] # pinned[p] THEN Absent ELSE tree[from]
Renamed(p, from, to) == [tree EXCEPT ![to] = Source(p, from), ![from] = Absent]

CanRename(p, from, to) ==
    /\ Source(p, from) \in Inodes
    /\ tree[to] \in {Absent} \cup Inodes
    /\ ~Held(p, to)

(* rename_no_replace *)
CanRenameNew(p, from) == Source(p, from) \in Inodes

NotValidated(p, name) == TRUE

(* validate_promotion: the published entry is the file that was pinned *)
Published(p, name) == tree[name] = pinned[p]

-----------------------------------------------------------------------------
(* A directory is written back whenever the kernel pleases. *)
WriteBack ==
    /\ disk' = tree
    /\ UNCHANGED <<platform, tree, pinned>>
    /\ Keep(file)

(* The machine stops: entries go back to what was written, and a file that *)
(* was not synced may have lost part of its contents.                      *)
PowerLost ==
    /\ tree' = disk
    /\ pinned' = [p \in Procs |-> Absent]
    /\ UNCHANGED <<platform, disk>>
    /\ \E lost \in SUBSET {i \in Inodes : ~file[i].synced} :
          Keep([i \in Inodes |-> IF i \in lost THEN Blank ELSE file[i]])
=============================================================================
