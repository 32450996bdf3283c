---------------------------- MODULE MCInventory ----------------------------
(* Instances of Inventory for TLC.  A byte has 25 values, a u16 is one     *)
(* byte, a u32 and a u64 are two; no payload has more than 31.             *)
EXTENDS Inventory

(* A Transfer ID, a digest, and names: one byte, the longest, one more *)
Id == << 19 >>
Hash == [n \in 1 .. HashLength |-> 14]
Filenames == { <<5>>, [n \in 1 .. MaxShort |-> 5], [n \in 1 .. MaxShort + 1 |-> 5] }
Pieces == { <<5, 3>>, [n \in 1 .. MaxData - LongLength |-> 3], [n \in 1 .. MaxData |-> 3] }

Message(type, bodies) == [type : {type}, body : bodies]

(* Every payload, with values at and beyond its limits. *)
Common ==
    Message("HELLO", {<<2>>, <<3>>})
    \cup Message("ACCEPT", {<<>>})
    \cup Message("REJECT", [code : RejectCodes, message : {<<>>, <<5, 3>>}])
    \cup Message("ANNOUNCE", [name : Filenames, port : {0, 1}])

Only(version) ==
    IF version = 2
    THEN Message("OFFER", [id : {Id}, filename : Filenames, size : {0, MaxLong}])
         \cup Message("RESUME", [offset : {19}, hash : {Hash}])
         \cup Message("DATA", Pieces \cup {[n \in 1 .. MaxData + 1 |-> 3]})
         \cup Message("CHUNK_START", [index : {18}, hash : {Hash}])
    ELSE Message("OFFER", [id : {Id}, filename : Filenames, size : {1}, chunkSize : {0, MaxLong}])
         \cup Message("RESUME", [count : {19}])
         \cup Message("CHUNK_START", [index : {18}, hash : {Hash}])
         \cup Message("DATA", [offset : {18}, bytes : {<<>>} \cup Pieces])

(* Each of them, and a digest behind it. *)
MCMessages ==
    [v \in {2, 3} |-> {<< m, [type |-> "COMPLETE", body |-> Hash] >> : m \in Common \cup Only(v)}]

MCHashes == {Hash}

(* No chunk, one, three and more, full and not, and the largest sizes *)
MCFileSizes == {0, 6, MaxLong}
MCChunkSizes == {1, 2, MaxLong}

MCVersions == {<<2, 2>>, <<3, 3>>, <<2, 3>>, <<3, 2>>}
=============================================================================
