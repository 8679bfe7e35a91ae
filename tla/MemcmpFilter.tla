------------------------------ MODULE MemcmpFilter ---------------------------
(****************************************************************************)
(* The Memcmp account filter of src/rpc_client/filter.rs.  A procedure      *)
(* builds a filter or receives one as JSON, may verify it, convert it to    *)
(* raw bytes and send it on with get_program_accounts, and the receiver     *)
(* deserializes and applies it.  The bytes to compare with are kept raw or  *)
(* as base58 or base64 text, and the limit on their size is checked on the  *)
(* text first.                                                              *)
(****************************************************************************)
EXTENDS Integers, FiniteSets, Sequences

CONSTANTS
  Payloads,         \* byte sequences a filter is made of
  Offsets,
  AccountData       \* byte sequences that accounts hold

ASSUME MemcmpFilterAssumption ==
  /\ Payloads \subseteq Seq(0..255)
  /\ AccountData \subseteq Seq(0..255)
  /\ Offsets \subseteq Nat

VARIABLES
  filter,           \* the Memcmp as it is now
  origin            \* history: the Memcmp as it was built or received

vars == <<filter, origin>>

Encodings == {"base58", "base64", "bytes"}

\* A text, by the alphabet it was written in: it decodes in that one only ("none"
\* is text that decodes in neither, one character per byte).  The raw bytes of
\* MemcmpEncodedBytes::Bytes are written in "bytes".
Texts == [alphabet : Encodings \cup {"none"}, bytes : Payloads]

\* MemcmpEncodedBytes and Memcmp.
Memcmp == [offset : Offsets, encoding : Encodings, text : Texts]

Strings == {text \in Texts : text.alphabet # "bytes"}

WellFormed(m) == m.encoding = "bytes" <=> m.text.alphabet = "bytes"

TypeOK ==
  /\ filter \in Memcmp /\ WellFormed(filter)
  /\ origin \in Memcmp /\ WellFormed(origin)

------------------------------------------------------------------------------
(* Encodings (bs58 and base64).                                             *)

LeadingZeros(bytes) ==
  Cardinality({i \in 1..Len(bytes) : \A j \in 1..i : bytes[j] = 0})

\* Each leading zero is one digit; k bytes more are at most k * log(256) / log(58)
\* digits, rounded up (and exactly that many when the first of them is 255).
Base58Length(bytes) ==
  LET zeros == LeadingZeros(bytes) IN
  zeros + ((Len(bytes) - zeros) * 136566 + 99999) \div 100000

\* Four characters for three bytes, padded.
Base64Length(bytes) == 4 * ((Len(bytes) + 2) \div 3)

TextLength(text) ==
  CASE text.alphabet = "base58" -> Base58Length(text.bytes)
    [] text.alphabet = "base64" -> Base64Length(text.bytes)
    [] OTHER -> Len(text.bytes)

------------------------------------------------------------------------------
(* Operations of Memcmp and RpcFilterType.                                  *)

MAX_DATA_SIZE == 128
MAX_DATA_BASE58_SIZE == 175
MAX_DATA_BASE64_SIZE == 172

MaxTextSize(encoding) ==
  CASE encoding = "base58" -> MAX_DATA_BASE58_SIZE
    [] encoding = "base64" -> MAX_DATA_BASE64_SIZE
    [] OTHER -> MAX_DATA_SIZE

\* Memcmp::bytes: the set of the bytes of Some(bytes), empty for None.
bytes(m) == IF m.text.alphabet = m.encoding THEN {m.text.bytes} ELSE {}

\* Not the code: decoded bytes are not measured again.
verify_Once(m) ==
  IF TextLength(m.text) > MaxTextSize(m.encoding) THEN "DataTooLarge"
  ELSE IF bytes(m) = {} THEN "DecodeError" ELSE "Ok"

\* RpcFilterType::verify: the text is measured, decoded and measured again.
verify(m) ==
  IF TextLength(m.text) > MaxTextSize(m.encoding) THEN "DataTooLarge"
  ELSE IF bytes(m) = {} THEN "DecodeError"
  ELSE IF \E b \in bytes(m) : Len(b) > MAX_DATA_SIZE THEN "DataTooLarge"
  ELSE "Ok"

\* Memcmp::bytes_match, with the slice it takes only after both checks.
bytes_match(m, data) ==
  \E b \in bytes(m) :
    /\ m.offset <= Len(data)
    /\ Len(data) - m.offset >= Len(b)
    /\ SubSeq(data, m.offset + 1, m.offset + Len(b)) = b

\* Not the code: the filter is built anew, without its offset.
convert_to_raw_bytes_NoOffset(m) ==
  IF bytes(m) = {} \/ 0 \notin Offsets THEN m
  ELSE [m EXCEPT !.encoding = "bytes", !.text.alphabet = "bytes", !.offset = 0]

\* Memcmp::convert_to_raw_bytes; on an error the filter stays as it is.
convert_to_raw_bytes(m) ==
  IF bytes(m) = {} THEN m
  ELSE [m EXCEPT !.encoding = "bytes", !.text.alphabet = "bytes"]

------------------------------------------------------------------------------
(* JSON: the offset, a string or an array of bytes, and a label or none.    *)

Labels == Encodings \cup {"null", "binary"}

Documents == [offset : Offsets, bytes : Texts, encoding : Labels]

\* Not the code: the label is left out, base58 being the default.
serialize_NoLabel(m) == [offset |-> m.offset, bytes |-> m.text, encoding |-> "null"]

serialize(m) == [offset |-> m.offset, bytes |-> m.text, encoding |-> m.encoding]

\* Deserialize for Memcmp and MemcmpEncodedBytes: the set of the filter it yields,
\* empty for a label that does not exist.  An array is raw bytes whatever the label
\* says; a string labelled "bytes", or not at all, is base58.
deserialize(json) ==
  LET encoding ==
        IF json.bytes.alphabet = "bytes" THEN "bytes"
        ELSE IF json.encoding \in {"bytes", "null"} THEN "base58"
        ELSE json.encoding
  IN
  IF json.encoding = "binary" THEN {}
  ELSE {[offset |-> json.offset, encoding |-> encoding, text |-> json.bytes]}

------------------------------------------------------------------------------

\* Memcmp::new, new_raw_bytes and new_base58_encoded, or a received document.
Init ==
  /\ filter \in {m \in Memcmp : WellFormed(m)} \cup UNION {deserialize(json) : json \in Documents}
  /\ origin = filter

Convert ==
  /\ filter' = convert_to_raw_bytes(filter)
  /\ UNCHANGED origin

\* Sent with a request and deserialized by its receiver.
Transmit ==
  /\ filter' \in deserialize(serialize(filter))
  /\ UNCHANGED origin

Next == Convert \/ Transmit

Spec == Init /\ [][Next]_vars

------------------------------------------------------------------------------
(* Properties.                                                              *)

\* A filter is accepted exactly if it decodes to at most MAX_DATA_SIZE bytes: the
\* limits on the text never refuse bytes that fit, and the one on the bytes is
\* checked also for text that is shorter than they are (filter.rs:11-13, 30-52).
VerifyMeasuresBytes ==
  verify(filter) = "Ok" <=> \E b \in bytes(filter) : Len(b) <= MAX_DATA_SIZE

\* The verdict stands whatever becomes of the filter: one that was verified is
\* still accepted after it was converted or transmitted, and none becomes
\* acceptable on the way (filter.rs:116-131, 181-196).
VerdictStands == verify(filter) = verify(origin)

\* Converted or transmitted, a filter selects the same accounts.
SelectsSameAccounts ==
  \A data \in AccountData : bytes_match(filter, data) <=> bytes_match(origin, data)

\* It selects those that hold its bytes at its offset, and no account when the
\* offset is outside of the data, also with no bytes to compare.
MatchIsOccurrence ==
  \A data \in AccountData :
    bytes_match(filter, data) <=>
      \E b \in bytes(filter) :
        /\ filter.offset \in 0..Len(data)
        /\ \A i \in 1..Len(b) :
             filter.offset + i \in 1..Len(data) /\ data[filter.offset + i] = b[i]
==============================================================================
