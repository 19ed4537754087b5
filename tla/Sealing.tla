------------------------------- MODULE Sealing -------------------------------
(***************************************************************************)
(* keyring.py and responses/ingest/sealing.py: what leaves the server      *)
(* sealed, the call ids of its function calls and the payloads of its      *)
(* reasoning and compaction items, and what opens again when a client      *)
(* sends it back under a keyring that has been rotated since.              *)
(*                                                                         *)
(* A keyring is the sequence of its roots, the active one first.  What a   *)
(* cipher (external, AES-SIV and XChaCha20) returns holds the key it was   *)
(* made with: another key opens nothing.  An id is the sequence of its     *)
(* characters, each its code point, below 2048.                            *)
(***************************************************************************)
EXTENDS Integers, Sequences, SequencesExt

Derived(root, purpose)    == <<root, purpose>>
Active(ring, purpose)     == Derived(ring[1], purpose)
Candidates(ring, purpose) == {Derived(ring[i], purpose) : i \in DOMAIN ring}

-----------------------------------------------------------------------------
(* Packing symbols of 6 or 7 bits into bytes, behind a byte that counts    *)
(* the bits left over (_pack_fixed_width, _unpack_fixed_width).            *)
Packed(values, bits) ==
  LET Put(s, v) ==
        LET all   == s.rest * 2^bits + v
            count == s.count + bits
        IN  IF count < 8 THEN [s EXCEPT !.rest = all, !.count = count]
            ELSE [bytes |-> Append(s.bytes, all \div 2^(count - 8)),
                  rest |-> all % 2^(count - 8), count |-> count - 8]
      s == FoldLeft(Put, [bytes |-> <<>>, rest |-> 0, count |-> 0], values)
      unused == (8 - s.count) % 8
  IN  <<unused>> \o s.bytes \o IF s.count = 0 THEN <<>> ELSE <<s.rest * 2^unused>>

Unreadable == <<>>
Number(bits) == FoldLeft(LAMBDA n, b: 2 * n + b, 0, bits)
Unpacked(bytes, bits) ==
  LET all   == FlattenSeq([i \in 1 .. Len(bytes) - 1 |->
                             [b \in 1 .. 8 |-> (bytes[i + 1] \div 2^(8 - b)) % 2]])
      total == Len(all) - bytes[1]
  IN  IF \/ Len(bytes) < 2
         \/ bytes[1] > 7
         \/ total <= 0 \/ total % bits # 0 THEN Unreadable
      ELSE [k \in 1 .. total \div bits |-> Number(SubSeq(all, (k - 1) * bits + 1, k * bits))]

-----------------------------------------------------------------------------
(* The codecs of an upstream id, the narrowest that holds it first.        *)
Alphabet == [k \in 1 .. 26 |-> 64 + k] \o [k \in 1 .. 26 |-> 96 + k]
              \o [k \in 1 .. 10 |-> 47 + k] \o <<45, 95>>
Utf8Bytes(c) == IF c < 128 THEN <<c>> ELSE <<192 + c \div 64, 128 + (c % 64)>>

Codec(id) == CASE \A i \in DOMAIN id : Contains(Alphabet, id[i]) -> 2
               [] ~\A i \in DOMAIN id : Contains(Alphabet, id[i]) ->
                    IF \A i \in DOMAIN id : id[i] < 128 THEN 1 ELSE 0
Encoded(id) ==
  CASE Codec(id) = 2 ->
         Packed([i \in DOMAIN id |-> SelectInSeq(Alphabet, LAMBDA c: c = id[i]) - 1], 6)
    [] Codec(id) = 1 -> Packed(id, 7)
    [] Codec(id) = 0 -> FlattenSeq([i \in DOMAIN id |-> Utf8Bytes(id[i])])

FromUtf8(bytes) ==
  LET Take(s, b) == CASE b < 128 /\ s.lead = 0 -> [s EXCEPT !.id = Append(@, b)]
                      [] b >= 192 /\ s.lead = 0 -> [s EXCEPT !.lead = b]
                      [] b \in 128 .. 191 /\ s.lead # 0 ->
                           [s EXCEPT !.id = Append(@, (s.lead - 192) * 64 + b - 128), !.lead = 0]
                      [] OTHER -> [s EXCEPT !.lead = 256]
      s == FoldLeft(Take, [id |-> <<>>, lead |-> 0], bytes)
  IN  IF s.lead = 0 THEN s.id ELSE Unreadable
Letters(symbols) == [i \in DOMAIN symbols |-> Alphabet[symbols[i] + 1]]
DecodedId(codec, bytes) ==
  CASE codec = 2 -> Letters(Unpacked(bytes, 6))
    [] codec = 1 -> Unpacked(bytes, 7)
    [] codec = 0 -> FromUtf8(bytes)
    [] OTHER     -> Unreadable

-----------------------------------------------------------------------------
(* Call ids.  threads maps the configured threads to their codes.  What    *)
(* does not open is a client's own id.                                     *)
CallId(thread, id) == [thread |-> thread, id |-> id]
Foreign == CallId("none", Unreadable)
Purpose == "responses.ingest.call_id"

PlaintextByte(call, threads) ==
  LET code == threads[call.thread]
  IN  <<2 * 16 + Codec(call.id), 0, code % 256>> \o Encoded(call.id)
Plaintext(call, threads) ==
  LET code == threads[call.thread]
  IN  <<2 * 16 + Codec(call.id), code \div 256, code % 256>> \o Encoded(call.id)

Sealable(call, threads) ==
  call.id # <<>> /\ call.thread \in DOMAIN threads /\ threads[call.thread] \in 0 .. 65535
SealCallId(call, ring, threads) ==
  [prefix |-> "call_", key |-> Active(ring, Purpose), bytes |-> Plaintext(call, threads)]

Coded(code, threads)  == {t \in DOMAIN threads : threads[t] = code}
CallOf(thread, id) ==
  IF thread = {} \/ id = Unreadable THEN Foreign ELSE CallId(CHOOSE t \in thread : TRUE, id)
Unpack(bytes, threads) ==
  IF Len(bytes) < 4 \/ bytes[1] \div 16 # 2 \/ (bytes[1] \div 4) % 4 # 0 THEN Foreign
  ELSE CallOf(Coded(bytes[2] * 256 + bytes[3], threads),
              DecodedId(bytes[1] % 4, SubSeq(bytes, 4, Len(bytes))))
OpenCallId(text, ring, threads) ==
  IF text.prefix = "call_" /\ text.bytes # <<>> /\ text.key \in Candidates(ring, Purpose)
  THEN Unpack(text.bytes, threads) ELSE Foreign

-----------------------------------------------------------------------------
(* Payloads: an envelope with a version and a type.                        *)
Versions == [reasoning |-> 9, compaction |-> 7]
Label(type) == "responses.ingest." \o type

SealPayload(type, payload, ring) ==
  [key |-> Active(ring, Label(type)),
   envelope |-> [version |-> Versions[type], type |-> type, payload |-> payload]]
Opens(type, text, ring) ==
  /\ text.key \in Candidates(ring, Label(type))
  /\ text.envelope.version = Versions[type] /\ text.envelope.type = type
=============================================================================
