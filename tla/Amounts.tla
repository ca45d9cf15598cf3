------------------------------- MODULE Amounts -------------------------------
(***************************************************************************)
(* Amounts on the wire (videre-sdk, value_flow.rs; echo-venue; videre-test, *)
(* uint.rs, header.rs, reference.rs): a guest venue writes them into its    *)
(* headers with the SDK's encoder, a native venue with one of its own, the  *)
(* kit's goldens compare them as bytes, and whoever reads them decodes.     *)
(* They agree only because a number has a single encoding.                  *)
(*                                                                          *)
(* Words are scaled down: a byte is a digit below Base, the EVM word has    *)
(* Word bytes (32) and the native u64 has Half (8).                         *)
(***************************************************************************)
EXTENDS Integers, Sequences, FiniteSets

CONSTANTS Base, Word, Half, Reject, MaxPublished

ASSUME AmountConstants ==
  /\ {Base, Word, Half, MaxPublished} \subseteq Nat
  /\ Base > 1 /\ Half < Word /\ 0 < Half

VARIABLES
  received,    (* the bytes of some amount, from anywhere                   *)
  uintVectors, (* UintVectors: encodings, and what a decoder makes of each  *)
  goldens      (* HeaderGoldens: bodies, and the header derived from each   *)

amountVars == <<received, uintVectors, goldens>>

(* What a digit weighs with k more behind it; the values that fit           *)
Power[k \in Nat] == IF k = 0 THEN 1 ELSE Base * Power[k - 1]

Octets == 0 .. Base - 1
Native == 0 .. Power[Half] - 1
Uint   == 0 .. Power[Word] - 1

-----------------------------------------------------------------------------
(* The two encoders and the decoder *)

(* to_be_bytes *)
BigEndian(n, len) == [i \in 1 .. len |-> (n \div Power[len - i]) % Base]

(* from_be_slice: what has been read, byte by byte *)
FromBigEndian(s) ==
  LET read[i \in 0 .. Len(s)] == IF i = 0 THEN 0 ELSE read[i - 1] * Base + s[i]
  IN  read[Len(s)]

(* encode_uint: the shortest word that holds the value *)
EncodeUint(n) ==
  LET len == CHOOSE k \in 0 .. Word :
               n < Power[k] /\ \A j \in 0 .. k - 1 : n >= Power[j]
  IN  BigEndian(n, len)

(* minimal_be, the echo venue's: a u64's bytes from the first one that is set *)
MinimalBe(n) ==
  LET word  == BigEndian(n, Half)
      first == CHOOSE i \in 1 .. Half : word[i] # 0 /\ \A j \in 1 .. i - 1 : word[j] = 0
  IN  IF \A i \in 1 .. Half : word[i] = 0 THEN << >> ELSE SubSeq(word, first, Half)

(* Variant: padding is read through. *)
DecodePadded(s) == IF Len(s) > Word THEN Reject ELSE FromBigEndian(s)

(* decode_uint: the length is looked at before the leading byte *)
DecodeUint(s) ==
  CASE Len(s) > Word                   -> Reject
    [] s # << >> /\ s[1] = 0           -> Reject
    [] OTHER                           -> FromBigEndian(s)

-----------------------------------------------------------------------------
(* Headers and the kit's two files *)

Zero == [asset |-> "native", amount |-> << >>]

(* An adapter writes amounts with one of the two *)
Encoded(encoder, n) == IF encoder = "sdk" THEN EncodeUint(n) ELSE MinimalBe(n)

(* The echo venue's header: what a body weighs, for nothing *)
EchoHeader(encoder, body) ==
  [gives |-> [asset |-> "native", amount |-> Encoded(encoder, body.amount)], wants |-> Zero]

(* The kit's reference venue: version 2 wants as much of a token in return *)
ReferenceHeader(encoder, body) ==
  [ gives |-> [asset |-> "native", amount |-> Encoded(encoder, body.amount)],
    wants |-> IF body.version = 1 THEN Zero
              ELSE [asset |-> "erc20", amount |-> Encoded(encoder, body.amount)] ]

DeriveHeader(encoder, venue, body) ==
  IF venue = "echo" THEN EchoHeader(encoder, body) ELSE ReferenceHeader(encoder, body)

(* HeaderGoldens::check and UintVectors::check: an empty file never passes *)
HeadersConform(encoder) ==
  /\ goldens # {}
  /\ \A g \in goldens : DeriveHeader(encoder, g.venue, g.body) = g.header

DecoderConforms ==
  /\ uintVectors # {}
  /\ \A v \in uintVectors : DecodeUint(v.bytes) = v.expect

-----------------------------------------------------------------------------
AmountInit == received = << >> /\ uintVectors = {} /\ goldens = {}

(* One more byte of an amount, at most one past the word *)
ReadByte(b) ==
  /\ Len(received) <= Word
  /\ received' = Append(received, b)
  /\ UNCHANGED <<uintVectors, goldens>>

(* A vector of the published file: an encoding with its value, the same      *)
(* encoding padded with a zero, or one longer than the word                  *)
PublishVector(n) ==
  /\ Cardinality(uintVectors) < MaxPublished
  /\ \E v \in { [bytes |-> EncodeUint(n), expect |-> n],
                [bytes |-> <<0>> \o EncodeUint(n), expect |-> Reject],
                [bytes |-> <<1>> \o BigEndian(n, Word), expect |-> Reject] } :
       uintVectors' = uintVectors \cup {v}
  /\ UNCHANGED <<received, goldens>>

(* HeaderGoldens::record: the echo venue has its own encoder *)
RecordGolden(venue, body) ==
  /\ Cardinality(goldens) < MaxPublished
  /\ LET own == IF venue = "echo" THEN "echo" ELSE "sdk"
     IN  goldens' = goldens \cup
           {[venue |-> venue, body |-> body, header |-> DeriveHeader(own, venue, body)]}
  /\ UNCHANGED <<received, uintVectors>>

AmountNext ==
  \/ \E b \in Octets : ReadByte(b)
  \/ \E n \in Uint : PublishVector(n)
  \/ \E venue \in {"echo", "reference"}, version \in {1, 2}, n \in Native :
       RecordGolden(venue, [version |-> version, amount |-> n])

AmountSpec == AmountInit /\ [][AmountNext]_amountVars

-----------------------------------------------------------------------------
(* Properties *)

(* A header that derives the right amounts conforms, whichever of the two    *)
(* encoders wrote the golden and whichever the adapter under test has; every *)
(* amount a golden publishes reads back as the amount of its body; the SDK's *)
(* decoder passes the published vectors; and bytes it accepts are the bytes  *)
(* it would have written, so two amounts are equal exactly if their bytes    *)
(* are (value_flow.rs 28, 38-46, 69-76; echo-venue lib.rs 182-189; header.rs *)
(* 208-243; uint.rs 101-125, 146-171).                                       *)
AmountsAgree ==
  /\ goldens # {} => HeadersConform("sdk") /\ HeadersConform("echo")
  /\ \A g \in goldens : DecodeUint(g.header.gives.amount) = g.body.amount
  /\ uintVectors # {} => DecoderConforms
  /\ DecodeUint(received) # Reject =>
       /\ DecodeUint(received) \in Uint
       /\ EncodeUint(DecodeUint(received)) = received

=============================================================================
