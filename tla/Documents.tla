----------------------------- MODULE Documents -----------------------------
(***************************************************************************)
(* The documents the receiver keeps beside its files, as text and as what  *)
(* is read of it again: transfer metadata (src/transfer_metadata.rs), the  *)
(* completion receipt (src/completion_receipt.rs) and the digests of a     *)
(* chunk state (src/chunk_state.rs).                                       *)
(*                                                                         *)
(* A document is Junk, which is no JSON object, or has its fields; a field *)
(* that is missing or of another kind is Junk.  A hexadecimal text is a    *)
(* sequence of characters: its digits, below HexRadix, the letters among   *)
(* them in upper case, HexRadix further on, and others.                    *)
(***************************************************************************)
EXTENDS Payloads

CONSTANTS
    HexRadix,     \* 16
    FirstLetter,  \* the first digit that is a letter
    Junk

ASSUME DocumentsAssumption ==
    /\ HexRadix * HexRadix = Radix
    /\ FirstLetter \in 0 .. HexRadix

FormatVersion == 1

(* encode_hex: two digits a byte *)
Hex(bytes) ==
    FlattenSeq([n \in DOMAIN bytes |-> << bytes[n] \div HexRadix, bytes[n] % HexRadix >>])

(* decode_hex_digit: either case *)
IsHexDigit(c) == c < HexRadix \/ c - HexRadix \in FirstLetter .. HexRadix - 1

(* parse_hex of so many bytes *)
ParseHex(text, length) ==
    {[n \in 1 .. length |-> (t[2 * n - 1] % HexRadix) * HexRadix + (t[2 * n] % HexRadix)] :
        t \in {u \in {text} \ {Junk} : Len(u) = 2 * length /\ \A n \in DOMAIN u : IsHexDigit(u[n])}}

(* Each of the three documents has its own. *)
ParseTransferId(text) == ParseHex(text, IdLength)
ParseChunkHash(text) == ParseHex(text, HashLength)
EncodeChunkHash(hash) == Hex(hash)

-----------------------------------------------------------------------------
EncodeTransferMetadata(job) ==
    [format |-> FormatVersion, id |-> Hex(job.id), filename |-> job.filename,
     size |-> job.size, state |-> "partial"]

(* What the two documents share *)
IsJob(d) ==
    /\ d # Junk
    /\ d.format = FormatVersion
    /\ d.filename \notin {Junk, <<>>} /\ d.size # Junk

DecodeTransferMetadata(d) ==
    {[id |-> id, filename |-> d.filename, size |-> d.size] :
        id \in UNION {ParseTransferId(e.id) : e \in {f \in {d} : IsJob(f) /\ f.state = "partial"}}}

EncodeCompletionReceipt(job, hash) ==
    [format |-> FormatVersion, id |-> Hex(job.id), filename |-> job.filename,
     size |-> job.size, hash |-> Hex(hash)]

DecodeCompletionReceipt(d) ==
    UNION {{[id |-> id, filename |-> e.filename, size |-> e.size, hash |-> hash] :
               id \in ParseHex(e.id, IdLength), hash \in ParseHex(e.hash, HashLength)} :
           e \in {f \in {d} : IsJob(f)}}

ReadAnyReceipt(d, id) == DecodeCompletionReceipt(d)

(* read_completion_receipt: the receipt that bears an ID must be about it. *)
ReadCompletionReceipt(d, id) == {r \in DecodeCompletionReceipt(d) : r.id = id}
=============================================================================
