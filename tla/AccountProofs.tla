---------------------------- MODULE AccountProofs ----------------------------
(****************************************************************************)
(* Proofs about the accounts that a procedure reads. MemcmpFilter, for all  *)
(* payloads, offsets and account data: the three size limits fit each       *)
(* other, and a filter keeps its verdict and its accounts through           *)
(* conversions and transmissions. AccountReads, for any accounts, any       *)
(* commitment and any length of the chain: an account that is reported      *)
(* absent was absent or could not be decoded, and reads at the client's     *)
(* commitment never go back in time.                                        *)
(****************************************************************************)
EXTENDS MemcmpFilter, AccountReads, FiniteSetTheorems, SequenceTheorems, TLAPS

------------------------------------------------------------------------------
(* Filters.                                                                 *)

\* What Convert and Transmit preserve: the offset and the decoded bytes, and a
\* filter that does not decode stays as it is.
SameContent ==
  /\ filter.offset = origin.offset
  /\ bytes(filter) = bytes(origin)
  /\ bytes(filter) = {} => filter = origin

IInv == TypeOK /\ SameContent

------------------------------------------------------------------------------
(* The limits.                                                              *)

\* There are no more leading zeros than bytes.
LEMMA LeadingZerosBound ==
  ASSUME NEW b \in Seq(0..255)
  PROVE  LeadingZeros(b) \in 0..Len(b)
<1> DEFINE Z == {i \in 1..Len(b) : \A j \in 1..i : b[j] = 0}
<1>1. Len(b) \in Nat
  OBVIOUS
<1>2. IsFiniteSet(1..Len(b)) /\ Cardinality(1..Len(b)) = Len(b)
  BY <1>1, FS_Interval
<1>3. Z \subseteq 1..Len(b)
  OBVIOUS
<1>4. IsFiniteSet(Z) /\ Cardinality(Z) <= Len(b)
  BY <1>2, <1>3, FS_Subset
<1>5. Cardinality(Z) \in Nat
  BY <1>4, FS_CardinalityType
<1> QED
  BY <1>1, <1>4, <1>5 DEF LeadingZeros

\* Bytes within MAX_DATA_SIZE fit the limit of their base58 text.
LEMMA Base58Fits ==
  ASSUME NEW b \in Seq(0..255), Len(b) <= MAX_DATA_SIZE
  PROVE  Base58Length(b) <= MAX_DATA_BASE58_SIZE
<1> DEFINE zeros == LeadingZeros(b)
<1>1. Len(b) \in Nat /\ Len(b) <= 128
  BY DEF MAX_DATA_SIZE
<1>2. zeros \in 0..Len(b)
  BY LeadingZerosBound
<1>3. \A n, z \in Nat : n <= 128 /\ z <= n => z + ((n - z) * 136566 + 99999) \div 100000 <= 175
  OBVIOUS
<1> QED
  BY <1>1, <1>2, <1>3 DEF Base58Length, MAX_DATA_BASE58_SIZE

\* Bytes within MAX_DATA_SIZE fit the limit of their base64 text.
LEMMA Base64Fits ==
  ASSUME NEW b \in Seq(0..255), Len(b) <= MAX_DATA_SIZE
  PROVE  Base64Length(b) <= MAX_DATA_BASE64_SIZE
<1>1. Len(b) \in Nat /\ Len(b) <= 128
  BY DEF MAX_DATA_SIZE
<1>2. \A n \in Nat : n <= 128 => 4 * ((n + 2) \div 3) <= 172
  OBVIOUS
<1> QED
  BY <1>1, <1>2 DEF Base64Length, MAX_DATA_BASE64_SIZE

\* The verdict on a filter that decodes depends on its bytes only.
LEMMA VerdictOfBytes ==
  ASSUME NEW m \in Memcmp, WellFormed(m), m.text.alphabet = m.encoding
  PROVE  verify(m) = IF Len(m.text.bytes) <= MAX_DATA_SIZE THEN "Ok" ELSE "DataTooLarge"
<1> DEFINE b == m.text.bytes
<1>1. b \in Seq(0..255) /\ Len(b) \in Nat /\ bytes(m) = {b}
  BY MemcmpFilterAssumption DEF Memcmp, Texts, bytes
<1>2. m.encoding \in {"base58", "base64", "bytes"}
  BY DEF Memcmp, Encodings
<1>3. Len(b) <= MAX_DATA_SIZE => ~(TextLength(m.text) > MaxTextSize(m.encoding))
  <2> SUFFICES ASSUME Len(b) <= MAX_DATA_SIZE
               PROVE  TextLength(m.text) <= MaxTextSize(m.encoding)
                      /\ TextLength(m.text) \in Int
    BY DEF MaxTextSize, MAX_DATA_SIZE, MAX_DATA_BASE58_SIZE, MAX_DATA_BASE64_SIZE
  <2>1. CASE m.encoding = "base58"
    <3>1. LeadingZeros(b) \in 0..Len(b)
      BY <1>1, LeadingZerosBound
    <3>2. Base58Length(b) \in Int
      BY <1>1, <3>1 DEF Base58Length
    <3> QED
      BY <1>1, <2>1, <3>2, Base58Fits DEF TextLength, MaxTextSize
  <2>2. CASE m.encoding = "base64"
    <3>1. Base64Length(b) \in Int
      BY <1>1 DEF Base64Length
    <3> QED
      BY <1>1, <2>2, <3>1, Base64Fits DEF TextLength, MaxTextSize
  <2>3. CASE m.encoding = "bytes"
    BY <1>1, <2>3 DEF TextLength, MaxTextSize
  <2> QED
    BY <1>2, <2>1, <2>2, <2>3
<1>4. CASE Len(b) <= MAX_DATA_SIZE
  <2>1. bytes(m) # {} /\ ~\E c \in bytes(m) : Len(c) > MAX_DATA_SIZE
    BY <1>1, <1>4 DEF MAX_DATA_SIZE
  <2> QED
    BY <1>3, <1>4, <2>1 DEF verify
<1>5. CASE ~(Len(b) <= MAX_DATA_SIZE)
  <2>1. \E c \in bytes(m) : Len(c) > MAX_DATA_SIZE
    BY <1>1, <1>5 DEF MAX_DATA_SIZE
  <2> QED
    BY <1>1, <1>5, <2>1 DEF verify
<1> QED
  BY <1>4, <1>5

\* A filter that does not decode is never accepted.
LEMMA VerdictOfNothing ==
  ASSUME NEW m, bytes(m) = {}
  PROVE  verify(m) \in {"DataTooLarge", "DecodeError"}
BY DEF verify

------------------------------------------------------------------------------
(* The invariant.                                                           *)

LEMMA InitInv == Init => IInv
<1> SUFFICES ASSUME Init PROVE IInv
  OBVIOUS
<1>1. \A json \in Documents : \A m \in deserialize(json) : m \in Memcmp /\ WellFormed(m)
  <2> SUFFICES ASSUME NEW json \in Documents, NEW m \in deserialize(json)
               PROVE  m \in Memcmp /\ WellFormed(m)
    OBVIOUS
  <2> DEFINE e == IF json.bytes.alphabet = "bytes" THEN "bytes"
                  ELSE IF json.encoding \in {"bytes", "null"} THEN "base58"
                  ELSE json.encoding
  <2>1. json.encoding # "binary"
        /\ m = [offset |-> json.offset, encoding |-> e, text |-> json.bytes]
    BY DEF deserialize
  <2>2. json.offset \in Offsets /\ json.bytes \in Texts /\ json.encoding \in Labels
    BY DEF Documents
  <2>3. json.encoding \in {"base58", "base64", "bytes", "null"}
    BY <2>1, <2>2 DEF Labels, Encodings
  <2>4. e \in Encodings /\ (e = "bytes" <=> json.bytes.alphabet = "bytes")
    <3>1. CASE json.bytes.alphabet = "bytes"
      BY <3>1 DEF Encodings
    <3>2. CASE json.bytes.alphabet # "bytes" /\ json.encoding \in {"bytes", "null"}
      BY <3>2 DEF Encodings
    <3>3. CASE json.bytes.alphabet # "bytes" /\ json.encoding \in {"base58", "base64"}
      BY <3>3 DEF Encodings
    <3> QED
      BY <2>3, <3>1, <3>2, <3>3
  <2> QED
    BY <2>1, <2>2, <2>4 DEF Memcmp, WellFormed
<1>2. filter \in Memcmp /\ WellFormed(filter)
  BY <1>1 DEF Init
<1> QED
  BY <1>2 DEF Init, IInv, TypeOK, SameContent

\* Sending a filter and receiving it yields the same filter.
LEMMA RoundTrip ==
  ASSUME NEW m \in Memcmp, WellFormed(m)
  PROVE  deserialize(serialize(m)) = {m}
<1> DEFINE json == serialize(m)
<1>1. /\ m.encoding \in {"base58", "base64", "bytes"}
      /\ m = [offset |-> m.offset, encoding |-> m.encoding, text |-> m.text]
  BY DEF Memcmp, Encodings
<1>2. json.offset = m.offset /\ json.bytes = m.text /\ json.encoding = m.encoding
  BY DEF serialize
<1>3. CASE m.encoding = "bytes"
  BY <1>1, <1>2, <1>3 DEF deserialize, WellFormed
<1>4. CASE m.encoding \in {"base58", "base64"}
  BY <1>1, <1>2, <1>4 DEF deserialize, WellFormed
<1> QED
  BY <1>1, <1>3, <1>4

\* Converting keeps the type and the content.
LEMMA ConvertKeeps ==
  ASSUME NEW m \in Memcmp, WellFormed(m)
  PROVE  LET n == convert_to_raw_bytes(m) IN
         /\ n \in Memcmp /\ WellFormed(n)
         /\ n.offset = m.offset /\ bytes(n) = bytes(m)
         /\ bytes(m) = {} => n = m
<1>1. CASE bytes(m) = {}
  BY <1>1 DEF convert_to_raw_bytes
<1>2. CASE bytes(m) # {}
  <2>1. m.text.alphabet = m.encoding /\ bytes(m) = {m.text.bytes}
    BY <1>2 DEF bytes
  <2>2. convert_to_raw_bytes(m) = [offset |-> m.offset, encoding |-> "bytes",
                                   text |-> [alphabet |-> "bytes", bytes |-> m.text.bytes]]
    BY <1>2 DEF convert_to_raw_bytes, Memcmp, Texts
  <2> QED
    BY <1>2, <2>1, <2>2 DEF Memcmp, Texts, Encodings, WellFormed, bytes
<1> QED
  BY <1>1, <1>2

LEMMA NextInv == IInv /\ [Next]_vars => IInv'
<1> SUFFICES ASSUME IInv, [Next]_vars PROVE IInv'
  OBVIOUS
<1> USE DEF IInv, TypeOK, SameContent
<1>1. CASE Convert
  BY <1>1, ConvertKeeps DEF Convert, WellFormed, bytes
<1>2. CASE Transmit
  <2>1. filter' = filter /\ origin' = origin
    BY <1>2, RoundTrip DEF Transmit
  <2> QED
    BY <2>1 DEF WellFormed, bytes
<1>3. CASE UNCHANGED vars
  BY <1>3 DEF vars, WellFormed, bytes
<1> QED
  BY <1>1, <1>2, <1>3 DEF Next

LEMMA Invariance == Spec => []IInv
BY InitInv, NextInv, PTL DEF Spec

------------------------------------------------------------------------------
(* The theorems.                                                            *)

\* Every filter stays a well-formed Memcmp (filter.rs:137-143).
THEOREM TypeCorrect == Spec => []TypeOK
<1>1. IInv => TypeOK
  BY DEF IInv
<1> QED
  BY <1>1, Invariance, PTL

\* A filter is accepted exactly if it decodes to at most 128 bytes: 175 and 172
\* characters are enough for any 128 bytes (filter.rs:11-13, 24-62).
THEOREM VerifiedBySize == Spec => []VerifyMeasuresBytes
<1>1. IInv => VerifyMeasuresBytes
  <2> SUFFICES ASSUME IInv PROVE VerifyMeasuresBytes
    OBVIOUS
  <2>1. filter \in Memcmp /\ WellFormed(filter)
    BY DEF IInv, TypeOK
  <2>2. CASE filter.text.alphabet = filter.encoding
    BY <2>1, <2>2, VerdictOfBytes DEF VerifyMeasuresBytes, bytes
  <2>3. CASE filter.text.alphabet # filter.encoding
    BY <2>3, VerdictOfNothing DEF VerifyMeasuresBytes, bytes
  <2> QED
    BY <2>2, <2>3
<1> QED
  BY <1>1, Invariance, PTL

\* No conversion or transmission changes the verdict (filter.rs:116-131, 181-196).
THEOREM VerdictIsStable == Spec => []VerdictStands
<1>1. IInv => VerdictStands
  <2> SUFFICES ASSUME IInv PROVE VerdictStands
    OBVIOUS
  <2>1. /\ filter \in Memcmp /\ WellFormed(filter) /\ origin \in Memcmp /\ WellFormed(origin)
        /\ SameContent
    BY DEF IInv, TypeOK
  <2>2. CASE bytes(filter) = {}
    BY <2>1, <2>2 DEF SameContent, VerdictStands
  <2>3. CASE bytes(filter) # {}
    <3>1. /\ filter.text.alphabet = filter.encoding /\ origin.text.alphabet = origin.encoding
          /\ filter.text.bytes = origin.text.bytes
      BY <2>1, <2>3 DEF SameContent, bytes
    <3> QED
      BY <2>1, <3>1, VerdictOfBytes DEF VerdictStands
  <2> QED
    BY <2>2, <2>3
<1> QED
  BY <1>1, Invariance, PTL

\* Nor does it change the accounts that are selected (filter.rs:198-211).
THEOREM AccountsAreStable == Spec => []SelectsSameAccounts
<1>1. IInv => SelectsSameAccounts
  BY DEF IInv, SameContent, SelectsSameAccounts, bytes_match
<1> QED
  BY <1>1, Invariance, PTL

\* What a slice of the data holds, when it lies within it.
LEMMA Slice ==
  ASSUME NEW data \in Seq(0..255), NEW o \in Nat, NEW n \in Nat, o + n <= Len(data)
  PROVE  /\ SubSeq(data, o + 1, o + n) \in Seq(0..255)
         /\ Len(SubSeq(data, o + 1, o + n)) = n
         /\ \A i \in 1..n : SubSeq(data, o + 1, o + n)[i] = data[o + i]
<1> SUFFICES ASSUME NEW first \in Int, NEW final \in Int, first = o + 1, final = o + n
             PROVE  /\ SubSeq(data, first, final) \in Seq(0..255)
                    /\ Len(SubSeq(data, first, final)) = n
                    /\ \A i \in 1..n : SubSeq(data, first, final)[i] = data[o + i]
  OBVIOUS
<1>1. ASSUME NEW i \in first..final PROVE data[i] \in 0..255
  <2>1. i \in 1..Len(data)
    OBVIOUS
  <2> QED
    BY <2>1, ElementOfSeq
<1>2. /\ SubSeq(data, first, final) \in Seq(0..255)
      /\ Len(SubSeq(data, first, final)) = IF first <= final THEN final - first + 1 ELSE 0
      /\ \A i \in 1..(final - first + 1) : SubSeq(data, first, final)[i] = data[first + i - 1]
  BY <1>1, SubSeqProperties
<1>3. final - first + 1 = n /\ (first <= final <=> n # 0)
  OBVIOUS
<1>4. \A i \in 1..n : first + i - 1 = o + i
  OBVIOUS
<1> QED
  BY <1>2, <1>3, <1>4

\* bytes_match looks for the bytes at the offset, and nowhere outside of the data
\* (filter.rs:198-211).
THEOREM MatchIsExact == Spec => []MatchIsOccurrence
<1>1. IInv => MatchIsOccurrence
  <2> SUFFICES ASSUME IInv, NEW data \in AccountData, NEW b \in bytes(filter)
               PROVE  (/\ filter.offset <= Len(data)
                       /\ Len(data) - filter.offset >= Len(b)
                       /\ SubSeq(data, filter.offset + 1, filter.offset + Len(b)) = b)
                      <=> (/\ filter.offset \in 0..Len(data)
                           /\ \A i \in 1..Len(b) :
                                /\ filter.offset + i \in 1..Len(data)
                                /\ data[filter.offset + i] = b[i])
    BY DEF MatchIsOccurrence, bytes_match
  <2> DEFINE o == filter.offset
             part == SubSeq(data, o + 1, o + Len(b))
  <2>1. data \in Seq(0..255) /\ b \in Seq(0..255) /\ o \in Nat
    BY MemcmpFilterAssumption DEF IInv, TypeOK, Memcmp, Texts, bytes
  <2>2. Len(data) \in Nat /\ Len(b) \in Nat
    BY <2>1
  <2>3. CASE o + Len(b) <= Len(data)
    <3>3. /\ part \in Seq(0..255) /\ Len(part) = Len(b)
          /\ \A i \in 1..Len(b) : part[i] = data[o + i]
      <4> HIDE DEF o
      <4>1. \A n \in Nat : o + n <= Len(data) =>
              /\ SubSeq(data, o + 1, o + n) \in Seq(0..255)
              /\ Len(SubSeq(data, o + 1, o + n)) = n
              /\ \A i \in 1..n : SubSeq(data, o + 1, o + n)[i] = data[o + i]
        BY <2>1, Slice
      <4> DEFINE n == Len(b)
      <4>2. n \in Nat /\ o + n <= Len(data)
        BY <2>2, <2>3
      <4> HIDE DEF n
      <4>3. /\ SubSeq(data, o + 1, o + n) \in Seq(0..255)
            /\ Len(SubSeq(data, o + 1, o + n)) = n
            /\ \A i \in 1..n : SubSeq(data, o + 1, o + n)[i] = data[o + i]
        BY <4>1, <4>2
      <4> QED
        BY <4>3, Zenon DEF n
    <3>4. ASSUME NEW i \in 1..Len(b)
          PROVE  part[i] = data[o + i] /\ o + i \in 1..Len(data)
      <4>2. part[i] = data[o + i]
        BY <3>3
      <4>3. o + i \in 1..Len(data)
        BY <2>1, <2>2, <2>3
      <4> QED
        BY <4>2, <4>3
    <3>5. o <= Len(data) /\ Len(data) - o >= Len(b) /\ o \in 0..Len(data)
      BY <2>1, <2>2, <2>3
    <3> HIDE DEF part
    <3>6. part = b <=> \A i \in 1..Len(b) : part[i] = b[i]
      BY <2>1, <3>3, SeqEqual
    <3>7. part = b <=> \A i \in 1..Len(b) : o + i \in 1..Len(data) /\ data[o + i] = b[i]
      BY <3>4, <3>6
    <3> QED
      BY <3>5, <3>7 DEF part
  <2>4. CASE ~(o + Len(b) <= Len(data))
    <3>1. ~(Len(data) - o >= Len(b))
      BY <2>1, <2>2, <2>4
    <3>2. CASE Len(b) = 0
      <4>1. o \notin 0..Len(data)
        BY <2>1, <2>2, <2>4, <3>2
      <4> QED
        BY <3>1, <4>1
    <3>3. CASE Len(b) # 0
      <4>1. Len(b) \in 1..Len(b) /\ o + Len(b) \notin 1..Len(data)
        BY <2>1, <2>2, <2>4, <3>3
      <4> QED
        BY <3>1, <4>1
    <3> QED
      BY <3>2, <3>3
  <2> QED
    BY <2>3, <2>4
<1> QED
  BY <1>1, Invariance, PTL

------------------------------------------------------------------------------
(* Reads.                                                                   *)

\* At "processed", a fork may have taken back what was read.
NoFork == ~(Commitment = "processed" /\ reorgs > 0)

\* No method that follows the client has read a block that is newer than the newest of
\* the client's commitment is now.
SeenInv == NoFork => seen <= Frontier(Commitment)

ReadInv == ReadTypeOK /\ tip <= MaxHeight /\ SeenInv /\ AbsentUnlessUndecodable

\* What may stand for an account in an answer: itself, or None where it is not there
\* or does not decode.
Explained(value, account, encoding, unreadable) ==
  \/ value = account
  \/ /\ value = "None"
     /\ account = "missing" \/ unreadable \/ (encoding = "jsonParsed" /\ account \in Parsed)

\* What a method returns for accounts reports absent what is absent or does not decode.
Honest(method, encoding, r, accounts, undecodable) ==
  /\ r.kind \in Kinds
  /\ r.kind = "Ok" =>
       /\ \A k \in DOMAIN r.value :
            Explained(r.value[k], accounts[k], encoding, k \in undecodable)
       /\ method = "get_program_accounts" =>
            DOMAIN r.value = {k \in Keys : accounts[k] \in Parsed}

------------------------------------------------------------------------------
(* What the methods return.                                                 *)

\* send gives "Ok" or one of its error kinds.
LEMMA SendReturns ==
  ASSUME NEW reply
  PROVE  send(reply) \in {"Ok"} \cup SendError
BY DEF send, SendError

\* An error reports nothing absent.
LEMMA FailedHonest ==
  ASSUME NEW kind \in Kinds \ {"Ok"}, NEW method, NEW encoding, NEW accounts, NEW undecodable
  PROVE  Honest(method, encoding, Failed(kind), accounts, undecodable)
BY DEF Honest, Failed, Result

\* send::<Value> fails with an error of send.
LEMMA ErrorsOfValue ==
  ASSUME NEW reply
  PROVE  ValueError(reply) \in Kinds \ {"Ok"}
BY DEF ValueError, Kinds, SendError

\* decode() gives the account, or None for a reason.
LEMMA DecodedExplained ==
  ASSUME NEW account, NEW encoding, NEW key, NEW undecodable
  PROVE  Explained(Decoded(account, encoding, key \notin undecodable),
                   account, encoding, key \in undecodable)
BY DEF Decoded, Explained

\* Of one account: an error, or what decode() made of it.
LEMMA AccountHonest ==
  ASSUME NEW reply, NEW key \in Keys, NEW accounts, NEW encoding, NEW undecodable,
         NEW method, method # "get_program_accounts",
         NEW r \in get_account_with_config(reply, key, accounts[key], encoding, key \notin undecodable)
  PROVE  Honest(method, encoding, r, accounts, undecodable)
<1>1. {"AccountNotFound", "SerdeJson"} \subseteq Kinds \ {"Ok"}
  BY DEF Kinds, SendError
<1>2. CASE r = Failed("AccountNotFound") \/ r = Failed("SerdeJson")
  BY <1>1, <1>2, FailedHonest
<1>3. CASE r = Result("Ok", [k \in {key} |-> Decoded(accounts[key], encoding, key \notin undecodable)])
  <2>1. Explained(Decoded(accounts[key], encoding, key \notin undecodable),
                  accounts[key], encoding, key \in undecodable)
    BY DecodedExplained
  <2> QED
    BY <1>3, <2>1 DEF Honest, Result, Kinds
<1> QED
  BY <1>2, <1>3 DEF get_account_with_config

\* get_account: what there is not is an error.
LEMMA OneAccountHonest ==
  ASSUME NEW reply, NEW key \in Keys, NEW accounts, NEW undecodable,
         NEW r \in get_account(
           get_account_with_config(reply, key, accounts[key], "binary", key \notin undecodable), key)
  PROVE  Honest("get_account", "binary", r, accounts, undecodable)
<1>1. "AccountNotFound" \in Kinds \ {"Ok"}
  BY DEF Kinds
<1>2. CASE r = Failed("AccountNotFound")
  BY <1>1, <1>2, FailedHonest
<1>3. CASE r \in get_account_with_config(reply, key, accounts[key], "binary", key \notin undecodable)
  BY <1>3, AccountHonest
<1> QED
  BY <1>2, <1>3 DEF get_account

\* Of several accounts: an error, or what decode() made of each of them.
LEMMA MultipleHonest ==
  ASSUME NEW reply, NEW accounts, NEW encoding, NEW undecodable,
         NEW r \in get_multiple_accounts(reply, accounts, encoding, undecodable)
  PROVE  Honest("get_multiple_accounts", encoding, r, accounts, undecodable)
<1>1. "SerdeJson" \in Kinds \ {"Ok"}
  BY DEF Kinds, SendError
<1>2. CASE r = Failed(ValueError(reply)) \/ r = Failed("SerdeJson")
  BY <1>1, <1>2, FailedHonest, ErrorsOfValue
<1>3. CASE r = Result("Ok", [k \in Keys |-> Decoded(accounts[k], encoding, k \notin undecodable)])
  <2>1. \A k \in Keys : Explained(Decoded(accounts[k], encoding, k \notin undecodable),
                                 accounts[k], encoding, k \in undecodable)
    BY DecodedExplained
  <2> QED
    BY <1>3, <2>1 DEF Honest, Result, Kinds
<1> QED
  BY <1>2, <1>3 DEF get_multiple_accounts

\* Of a program: an error, or all accounts of it.
LEMMA ProgramHonest ==
  ASSUME NEW reply, NEW accounts, NEW encoding, NEW undecodable,
         NEW r \in get_program_accounts(reply, accounts, encoding, undecodable)
  PROVE  Honest("get_program_accounts", encoding, r, accounts, undecodable)
<1> DEFINE listed == {k \in Keys : accounts[k] \in Parsed}
<1>1. "ParseError" \in Kinds \ {"Ok"} /\ (send(reply) # "Ok" => send(reply) \in Kinds \ {"Ok"})
  BY SendReturns DEF Kinds
<1>2. CASE r = Failed("ParseError") \/ (send(reply) # "Ok" /\ r = Failed(send(reply)))
  BY <1>1, <1>2, FailedHonest
<1>3. CASE r = Result("Ok", [k \in listed |-> accounts[k]])
  BY <1>3 DEF Honest, Explained, Result, Kinds
<1> QED
  BY <1>2, <1>3 DEF get_program_accounts, parse_keyed_accounts

\* Of one token account: an error, or the account.
LEMMA TokenHonest ==
  ASSUME NEW reply, NEW key \in Keys, NEW accounts, NEW undecodable,
         NEW r \in get_token_account(reply, key, accounts[key])
  PROVE  Honest("get_token_account", "jsonParsed", r, accounts, undecodable)
<1>1. {"AccountNotFound", "NotTokenAccount", "SerdeJson"} \subseteq Kinds \ {"Ok"}
  BY DEF Kinds, SendError
<1>2. CASE \E kind \in {"AccountNotFound", "NotTokenAccount", "SerdeJson"} : r = Failed(kind)
  BY <1>1, <1>2, FailedHonest
<1>3. CASE r = Result("Ok", [k \in {key} |-> accounts[key]])
  BY <1>3 DEF Honest, Explained, Result, Kinds
<1> QED
  BY <1>2, <1>3 DEF get_token_account

\* Of a wallet: an error, or token accounts as they are.
LEMMA TokensHonest ==
  ASSUME NEW reply, NEW accounts, NEW undecodable, NEW wallet,
         NEW method, method # "get_program_accounts",
         NEW r \in get_token_accounts(method, reply, accounts, wallet)
  PROVE  Honest(method, "jsonParsed", r, accounts, undecodable)
<1> DEFINE listed == {k \in Keys : accounts[k] = "token" /\ wallet = RequestBy(method)}
<1>1. send(reply) # "Ok" => send(reply) \in Kinds \ {"Ok"}
  BY SendReturns DEF Kinds
<1>2. CASE send(reply) # "Ok" /\ r = Failed(send(reply))
  BY <1>1, <1>2, FailedHonest
<1>3. CASE r = Result("Ok", [k \in listed |-> accounts[k]])
  BY <1>3 DEF Honest, Explained, Result, Kinds
<1> QED
  BY <1>2, <1>3 DEF get_token_accounts

------------------------------------------------------------------------------
(* The ledger.                                                              *)

\* The newest block of a commitment is on the fork.
LEMMA FrontierOnFork ==
  ASSUME LedgerTypeOK, NEW c \in Commitments
  PROVE  Frontier(c) \in 0..tip
BY DEF LedgerTypeOK, Frontier, Commitments

\* The ledger keeps its type and its bound, and the newest block of a commitment
\* becomes no older unless a fork is abandoned.
LEMMA LedgerMoves ==
  ASSUME LedgerTypeOK, tip <= MaxHeight, LedgerNext
  PROVE  /\ LedgerTypeOK' /\ tip' <= MaxHeight /\ tip' <= tip + 1 /\ reorgs <= reorgs'
         /\ \A c \in Commitments :
              ~(c = "processed" /\ reorgs' > 0) => Frontier(c) <= Frontier(c)'
<1> USE LedgerAssumption DEF LedgerAssumption, LedgerTypeOK, Frontier, Commitments
<1>1. CASE NewBlock
  BY <1>1 DEF NewBlock
<1>2. CASE Confirm
  BY <1>2 DEF Confirm
<1>3. CASE Finalize
  BY <1>3 DEF Finalize
<1>4. CASE Reorg
  <2>1. landed' \in 0..tip'
    BY <1>4 DEF Reorg
  <2> QED
    BY <1>4, <2>1 DEF Reorg
<1> QED
  BY <1>1, <1>2, <1>3, <1>4 DEF LedgerNext

------------------------------------------------------------------------------
(* The invariant.                                                           *)

\* Nothing was read at first.
LEMMA ReadInitInv == ReadInit => ReadInv
<1> SUFFICES ASSUME ReadInit PROVE ReadInv
    OBVIOUS
<1> USE LedgerAssumption DEF LedgerAssumption, ReadInit, InitLedger
<1>1. LedgerTypeOK
  <2>1. txOk \in BOOLEAN /\ submitted \in BOOLEAN /\ durable \in BOOLEAN
    OBVIOUS
  <2> QED
    BY <2>1 DEF LedgerTypeOK
<1>2. content \in [0..tip -> [Keys -> Contents]]
  BY DEF Contents
<1>3. ReadTypeOK
  BY <1>1, <1>2 DEF ReadTypeOK
<1>4. SeenInv /\ tip <= MaxHeight
  BY <1>1, AccountReadsAssumption DEF AccountReadsAssumption, SeenInv, Frontier
<1>5. AbsentUnlessUndecodable
  BY DEF AbsentUnlessUndecodable, NoCall, Failed, Result
<1> QED
  BY <1>3, <1>4, <1>5 DEF ReadInv

\* The ledger moves between two calls.
LEMMA ClusterReads ==
  ASSUME ReadInv, Cluster
  PROVE  ReadInv'
<1> USE DEF ReadInv, ReadTypeOK
<1>0. LedgerTypeOK /\ LedgerNext /\ last = NoCall /\ UNCHANGED <<last, seen>>
  BY DEF Cluster
<1>1. /\ LedgerTypeOK' /\ tip' <= MaxHeight /\ tip' <= tip + 1
      /\ tip \in Nat /\ tip' \in Nat /\ reorgs \in Nat /\ reorgs' \in Nat /\ reorgs <= reorgs'
      /\ Frontier(Commitment) \in Nat /\ Frontier(Commitment)' \in Nat
      /\ NoFork' => Frontier(Commitment) <= Frontier(Commitment)'
  <2>1. LedgerTypeOK'
    BY <1>0, LedgerMoves
  <2>2. Frontier(Commitment) \in Nat /\ Frontier(Commitment)' \in Nat
    BY <1>0, <2>1, AccountReadsAssumption
    DEF AccountReadsAssumption, Commitments, Frontier, LedgerTypeOK
  <2>3. NoFork' => Frontier(Commitment) <= Frontier(Commitment)'
    BY <1>0, LedgerMoves, AccountReadsAssumption DEF AccountReadsAssumption, NoFork
  <2> QED
    BY <1>0, <2>1, <2>2, <2>3, LedgerMoves DEF LedgerTypeOK
<1>2. content' \in [0..tip' -> [Keys -> Contents]]
  <2>1. CASE tip' <= tip /\ content' = [h \in 0..tip' |-> content[h]]
    BY <1>1, <2>1
  <2>2. ASSUME tip' > tip, NEW k \in Keys, NEW c \in Contents,
               content' = [h \in 0..tip' |->
                 IF h <= tip THEN content[h] ELSE [content[tip] EXCEPT ![k] = c]]
        PROVE  content' \in [0..tip' -> [Keys -> Contents]]
    <3>1. [content[tip] EXCEPT ![k] = c] \in [Keys -> Contents]
      <4>1. content[tip] \in [Keys -> Contents]
        BY <1>1
      <4> QED
        BY <4>1
    <3>2. \A h \in 0..tip' : h <= tip => content[h] \in [Keys -> Contents]
      BY <1>1
    <3> QED
      BY <2>2, <3>1, <3>2
  <2> QED
    BY <2>1, <2>2 DEF Cluster
<1>3. ReadTypeOK'
  BY <1>0, <1>1, <1>2
<1>4. SeenInv'
  BY <1>0, <1>1 DEF SeenInv, NoFork
<1>5. AbsentUnlessUndecodable'
  BY <1>0 DEF AbsentUnlessUndecodable
<1> QED
  BY <1>1, <1>3, <1>4, <1>5

\* A method that follows the client reads the newest block of the client's commitment.
LEMMA FollowsAsked ==
  ASSUME NEW method, NEW option, FollowsClient(method, option)
  PROVE  Asked(method, option) = Commitment
BY DEF FollowsClient, Asked

\* What a step must not do: read, for the client, an older block than before.
Forward ==
  (FollowsClient(last'.method, last'.option) /\ ~(Commitment = "processed" /\ reorgs > 0))
    => last'.height >= seen

\* One call, whichever the method.
LEMMA CallReads ==
  ASSUME ReadInv,
         NEW method \in Methods, NEW option \in Options, NEW encoding \in {"binary", "jsonParsed"},
         NEW height, height = Frontier(Asked(method, option)),
         NEW undecodable \in SUBSET Keys,
         NEW r, Honest(method, encoding, r, content[height], undecodable),
         last' = [method |-> method, option |-> option, encoding |-> encoding,
                  height |-> height, result |-> r,
                  accounts |-> content[height], undecodable |-> undecodable],
         seen' = IF FollowsClient(method, option) /\ height > seen THEN height ELSE seen,
         UNCHANGED <<ledgerVars, content>>
  PROVE  ReadInv' /\ Forward
<1> USE DEF ReadInv, ReadTypeOK
<1>0. UNCHANGED <<tip, conf, root, landed, txOk, submitted, durable, reorgs>>
  BY DEF ledgerVars
<1>1. LedgerTypeOK /\ LedgerTypeOK'
  BY <1>0 DEF LedgerTypeOK
<1>2. Asked(method, option) \in Commitments
  BY AccountReadsAssumption DEF AccountReadsAssumption, Asked, Options, Default, Commitments
<1>3. height \in 0..tip /\ height \in 0..MaxHeight
  <2>1. height \in 0..tip
    BY <1>1, <1>2, FrontierOnFork
  <2> QED
    BY <1>1, <2>1, LedgerAssumption DEF LedgerAssumption, LedgerTypeOK
<1>4. content[height] \in [Keys -> Contents] /\ r.kind \in Kinds
  BY <1>3 DEF Honest
<1>5. ReadTypeOK'
  BY <1>0, <1>1, <1>3, <1>4
<1>6. NoFork /\ FollowsClient(method, option) => height >= seen
  <2>1. FollowsClient(method, option) => height = Frontier(Commitment)
    BY FollowsAsked
  <2> QED
    BY <2>1, <1>3 DEF SeenInv
<1>7. SeenInv'
  <2>1. Frontier(Commitment)' = Frontier(Commitment) /\ (NoFork' <=> NoFork)
    BY <1>0 DEF Frontier, NoFork
  <2>2. FollowsClient(method, option) => height = Frontier(Commitment)
    BY FollowsAsked
  <2>3. height \in Nat
    BY <1>3
  <2> QED
    BY <2>1, <2>2, <2>3 DEF SeenInv
<1>8. AbsentUnlessUndecodable'
  BY DEF AbsentUnlessUndecodable, Honest, Explained
<1>9. Forward
  BY <1>6 DEF Forward, NoFork
<1> QED
  BY <1>0, <1>5, <1>7, <1>8, <1>9

\* The methods that have results name each of them once.
LEMMA MethodNames ==
  /\ Scalar \subseteq Methods /\ "get_program_accounts" \notin Scalar
  /\ {"get_account", "get_account_with_commitment", "get_account_with_config",
      "get_multiple_accounts", "get_program_accounts", "get_token_account",
      "get_token_accounts_by_owner", "get_token_accounts_by_delegate"} \subseteq Methods
BY DEF Methods, Scalar, OwnCommitment, OpenCommitment, SlotReads, SupplyReads, EpochReads,
   BalanceReads, CountReads, MintReads, HashReads, FixedReads, BlockReads, HistoryReads,
   ConfigOrDefault, ConfigOnly

\* What a call leaves behind.
CallEnds(method, option, encoding, r, undecodable) ==
  LET height == Frontier(Asked(method, option)) IN
  /\ last' = [method |-> method, option |-> option, encoding |-> encoding,
              height |-> height, result |-> r,
              accounts |-> content[height], undecodable |-> undecodable]
  /\ seen' = IF FollowsClient(method, option) /\ height > seen THEN height ELSE seen
  /\ UNCHANGED <<ledgerVars, content>>

\* Whichever method is called, it reads where it should and explains what is absent.
LEMMA ClientReads ==
  ASSUME ReadInv, Client
  PROVE  ReadInv' /\ Forward
<1> DEFINE read(method, option) == content[Frontier(Asked(method, option))]
<1>1. ASSUME NEW method \in Methods, NEW option \in Options,
             NEW encoding \in {"binary", "jsonParsed"}, NEW r, NEW undecodable \in SUBSET Keys,
             CallEnds(method, option, encoding, r, undecodable),
             Honest(method, encoding, r, read(method, option), undecodable)
      PROVE  ReadInv' /\ Forward
  BY <1>1, CallReads DEF CallEnds
<1>2. CASE ReadScalar
  <2>1. PICK method \in Scalar, option \in Options, undecodable \in SUBSET Keys :
          CallEnds(method, option, "binary", Result("Ok", <<>>), undecodable)
    BY <1>2 DEF ReadScalar, Call, CallEnds
  <2>2. method \in Methods /\ method # "get_program_accounts"
    BY MethodNames
  <2>3. Honest(method, "binary", Result("Ok", <<>>), read(method, option), undecodable)
    BY <2>2 DEF Honest, Result, Kinds
  <2> QED
    BY <1>1, <2>1, <2>2, <2>3
<1>3. CASE GetAccount
  <2>1. PICK key \in Keys, reply \in HostReply, option \in Options :
          \E undecodable \in SUBSET Keys :
            \/ \E r \in get_account(get_account_with_config(reply, key,
                   read("get_account", option)[key], "binary", key \notin undecodable), key) :
                 CallEnds("get_account", option, "binary", r, undecodable)
            \/ \E r \in get_account_with_config(reply, key,
                   read("get_account_with_commitment", option)[key], "binary", key \notin undecodable) :
                 CallEnds("get_account_with_commitment", option, "binary", r, undecodable)
    BY <1>3 DEF GetAccount, Call, CallEnds, OwnEncoding
  <2>2. ASSUME NEW undecodable \in SUBSET Keys,
               NEW r \in get_account(get_account_with_config(reply, key,
                 read("get_account", option)[key], "binary", key \notin undecodable), key),
               CallEnds("get_account", option, "binary", r, undecodable)
        PROVE  ReadInv' /\ Forward
    <3>1. Honest("get_account", "binary", r, read("get_account", option), undecodable)
      BY <2>2, OneAccountHonest
    <3>2. "get_account" \in Methods
      BY MethodNames
    <3> QED
      BY <1>1, <2>2, <3>1, <3>2
  <2>3. ASSUME NEW undecodable \in SUBSET Keys,
               NEW r \in get_account_with_config(reply, key,
                 read("get_account_with_commitment", option)[key], "binary", key \notin undecodable),
               CallEnds("get_account_with_commitment", option, "binary", r, undecodable)
        PROVE  ReadInv' /\ Forward
    BY <1>1, <2>3, MethodNames, AccountHonest
  <2> QED
    BY <2>1, <2>2, <2>3
<1>4. CASE GetAccountWithConfig
  <2>1. PICK key \in Keys, reply \in HostReply, option \in Options,
             encoding \in {"binary", "jsonParsed"}, undecodable \in SUBSET Keys :
          \E r \in get_account_with_config(reply, key,
                  read("get_account_with_config", option)[key], encoding, key \notin undecodable) :
            CallEnds("get_account_with_config", option, encoding, r, undecodable)
    BY <1>4 DEF GetAccountWithConfig, Call, CallEnds
  <2> QED
    BY <1>1, <2>1, MethodNames, AccountHonest
<1>5. CASE GetMultipleAccounts
  <2>1. PICK reply \in HostReply, option \in Options,
             encoding \in {"binary", "jsonParsed"}, undecodable \in SUBSET Keys :
          \E r \in get_multiple_accounts(reply,
                  read("get_multiple_accounts", option), encoding, undecodable) :
            CallEnds("get_multiple_accounts", option, encoding, r, undecodable)
    BY <1>5 DEF GetMultipleAccounts, Call, CallEnds
  <2> QED
    BY <1>1, <2>1, MethodNames, MultipleHonest
<1>6. CASE GetProgramAccounts
  <2>1. PICK reply \in HostReply, option \in Options,
             encoding \in {"binary", "jsonParsed"}, undecodable \in SUBSET Keys :
          \E r \in get_program_accounts(reply,
                  read("get_program_accounts", option), encoding, undecodable) :
            CallEnds("get_program_accounts", option, encoding, r, undecodable)
    BY <1>6 DEF GetProgramAccounts, Call, CallEnds
  <2> QED
    BY <1>1, <2>1, MethodNames, ProgramHonest
<1>7. CASE GetTokenAccount
  <2>1. PICK key \in Keys, reply \in HostReply, option \in Options, undecodable \in SUBSET Keys :
          \E r \in get_token_account(reply, key, read("get_token_account", option)[key]) :
            CallEnds("get_token_account", option, "jsonParsed", r, undecodable)
    BY <1>7 DEF GetTokenAccount, Call, CallEnds
  <2> QED
    BY <1>1, <2>1, MethodNames, TokenHonest
<1>8. CASE GetTokenAccounts
  <2>1. PICK reply \in HostReply, option \in Options, undecodable \in SUBSET Keys,
             by \in {<<"get_token_accounts_by_owner", "owner">>,
                    <<"get_token_accounts_by_delegate", "delegate">>} :
          \E r \in get_token_accounts(by[1], reply, read(by[1], option), by[2]) :
            CallEnds(by[1], option, "jsonParsed", r, undecodable)
    BY <1>8 DEF GetTokenAccounts, Call, CallEnds
  <2>2. by[1] \in Methods /\ by[1] # "get_program_accounts"
    BY MethodNames
  <2> QED
    BY <1>1, <2>1, <2>2, TokensHonest
<1> QED
  BY <1>2, <1>3, <1>4, <1>5, <1>6, <1>7, <1>8 DEF Client

\* Every step keeps the invariant and reads no older block than before.
LEMMA ReadStep ==
  ASSUME ReadInv, [ReadNext]_readVars
  PROVE  ReadInv' /\ [Forward]_<<last>>
<1>1. CASE Cluster
  BY <1>1, ClusterReads DEF Cluster
<1>2. CASE Client
  BY <1>2, ClientReads
<1>3. CASE Continue \/ UNCHANGED readVars
  <2>1. /\ UNCHANGED <<ledgerVars, content, seen>> /\ last' \in {last, NoCall}
        /\ last' = last \/ last' = NoCall
    BY <1>3 DEF Continue, readVars
  <2>2. UNCHANGED <<tip, conf, root, landed, txOk, submitted, durable, reorgs, content, seen>>
    BY <2>1 DEF ledgerVars
  <2>3. ReadTypeOK' /\ tip' <= MaxHeight /\ SeenInv'
    BY <2>1, <2>2 DEF ReadInv, ReadTypeOK, LedgerTypeOK, SeenInv, NoFork, Frontier
  <2>4. AbsentUnlessUndecodable'
    BY <2>1 DEF ReadInv, AbsentUnlessUndecodable, NoCall, Failed, Result
  <2>5. last' = NoCall => Forward
    <3>1. "none" \notin Methods
      BY DEF Methods, Scalar, OwnCommitment, OpenCommitment, SlotReads, SupplyReads, EpochReads,
         BalanceReads, CountReads, MintReads, HashReads, FixedReads, BlockReads, HistoryReads,
         ConfigOrDefault, ConfigOnly
    <3> QED
      BY <3>1 DEF Forward, FollowsClient, NoCall
  <2> QED
    BY <2>1, <2>3, <2>4, <2>5 DEF ReadInv
<1> QED
  BY <1>1, <1>2, <1>3 DEF ReadNext

\* The invariant holds in every reachable state.
THEOREM ReadInvariance == ReadSpec => []ReadInv
BY ReadInitInv, ReadStep, PTL DEF ReadSpec

------------------------------------------------------------------------------
(* The theorems.                                                            *)

\* Every variable keeps its type: a call ends with a result that its method can return.
THEOREM ReadTypeCorrect == ReadSpec => []ReadTypeOK
<1>1. ReadInv => ReadTypeOK
  BY DEF ReadInv
<1> QED
  BY <1>1, ReadInvariance, PTL

\* An account that an answer reports absent was absent or its entry could not be
\* decoded, for any set of accounts, any ledger and any entries a node sends
\* (client.rs:831, 893, 900, 1615-1638).
THEOREM AbsenceIsExplained == ReadSpec => []AbsentUnlessUndecodable
<1>1. ReadInv => AbsentUnlessUndecodable
  BY DEF ReadInv
<1> QED
  BY <1>1, ReadInvariance, PTL

\* The methods that follow the client's commitment never read an older block than one
\* of them has read before (client.rs:82, 342-449, 782-950).
THEOREM ReadsGoForward == ReadSpec => ReadsNeverGoBack
<1>1. ReadInv /\ [ReadNext]_readVars => [Forward]_<<last>>
  BY ReadStep
<1> QED
  BY <1>1, ReadInvariance, PTL DEF ReadSpec, ReadsNeverGoBack, Forward
==============================================================================
