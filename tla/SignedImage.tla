----------------------------- MODULE SignedImage -----------------------------
(***************************************************************************)
(* sign_image_with_aws_kms byte by byte: imgtool makes an image signed     *)
(* with a temporary key, then the hash of the key and the signature are    *)
(* exchanged for those of the key in the HSM.  The widths of a TLV (type,  *)
(* length, info header) are the real ones; hashes, signatures, header and  *)
(* trailer are shorter, and an image is below 256 bytes.                   *)
(***************************************************************************)
EXTENDS Naturals, Sequences, FiniteSetsExt

CONSTANTS HeaderSize,  \* imgtool.header_size, from 2
          SlotSize,    \* imgtool.slot_size
          TrailerSize, \* _trailer_size, from 6: four erased bytes, flag, magic
          SigLen,      \* the longest DER signature, which --pad-sig pads to
          Wide         \* keys on another curve than P-256

FF(n) == [i \in 1..n |-> 255]
U16(n) == <<n % 256, n \div 256>>
U16At(b, p) == b[p] + 256 * b[p + 1]
IsFF(b, p) == SubSeq(b, p, p + 3) = FF(4)
Overwrite(b, p, s) ==
  [i \in 1..Len(b) |-> IF i \in p..p + Len(s) - 1 THEN s[i - p + 1] ELSE b[i]]

KEYHASH == 1
SHA256 == 16
SHA384 == 17
ECDSASIG == 34
NoType == 65535    \* erased bytes in place of a type
InfoMagic == <<7, 105>>

TempKey == 0    \* generate_local_key_pair

(* Stand-ins of the cryptography: a digest that tells the images at hand   *)
(* apart, the hash of key k, and the signature of length n by k of d, with *)
(* its length in the second byte as in DER.                                *)
Digest(b) ==
  LET sum[i \in 0..Len(b)] == IF i = 0 THEN 0 ELSE sum[i - 1] + i * b[i] IN
  <<sum[Len(b)] % 251, Len(b)>>
KeyHash(k) == <<k, 200>>
Signature(k, d, n) == <<48, n - 2>> \o [i \in 1..n - 2 |-> 64 + 8 * k + (d[1] % 8)]

-----------------------------------------------------------------------------
(* imgtool                                                                 *)

Tlv(kind, data) == U16(kind) \o U16(Len(data)) \o data

TlvArea(tlvs) == InfoMagic \o U16(4 + Len(tlvs)) \o tlvs

(* The image header: magic and size of the image                           *)
AddHeader(payload) == Overwrite(payload, 1, <<61, Len(payload) - HeaderSize>>)

PadSig(sig) == sig \o [i \in 1..SigLen - Len(sig) |-> 0]

Payload(input, padHeader) == IF padHeader THEN FF(HeaderSize) \o input ELSE input

(* check_header                                                            *)
HeaderFree(input, padHeader) == padHeader \/ \A i \in 1..HeaderSize : input[i] = 0

(* The image of payload with the temporary key, of the curve of key k      *)
Create(payload, k, sig) ==
  LET b == AddHeader(payload) IN
  b \o TlvArea(Tlv(IF k \in Wide THEN SHA384 ELSE SHA256, Digest(b))
               \o Tlv(KEYHASH, KeyHash(TempKey)) \o Tlv(ECDSASIG, PadSig(sig)))

(* check_trailer                                                           *)
FitsSlot(b) == Len(b) + TrailerSize <= SlotSize

PadTo(b) == b \o FF(SlotSize - Len(b) - 2) \o <<1, 119>>

(* imgtool sign: the image with the temporary key, <<>> when it fails      *)
ImgtoolSign(input, o, k, m) ==
  LET payload == Payload(input, o.padHeader)
      image == Create(payload, k, Signature(TempKey, Digest(AddHeader(payload)), m)) IN
  IF ~HeaderFree(input, o.padHeader) \/ ~FitsSlot(image) THEN <<>>
  ELSE IF o.pad THEN PadTo(image) ELSE image

-----------------------------------------------------------------------------
(* What the tool makes of it                                               *)

TlvStart(b) == HeaderSize + b[2] + 1
Size(b, p) == 4 + U16At(b, p + 2)   \* of the entry at p

(* The entries the scan for the three TLVs comes by                        *)
Entries(b) ==
  LET from[p \in Nat] == IF p > Len(b) - 4 \/ IsFF(b, p) THEN {}
                         ELSE {p} \cup from[p + Size(b, p)] IN
  from[TlvStart(b) + 4]

EntryOf(b, kind) ==
  LET found == {p \in Entries(b) : U16At(b, p) = kind} IN IF found = {} THEN 0 ELSE Max(found)

Data(b, p) == SubSeq(b, p + 4, p + Size(b, p) - 1)

SetKeyHash(b, k) == Overwrite(b, EntryOf(b, KEYHASH) + 4, KeyHash(k))

(* Where the entries from p on end; 0 when fewer than four bytes are left, *)
(* which struct.unpack does not take                                       *)
EndOfTlvs(b, start) ==
  LET from[p \in Nat] == IF p > Len(b) THEN p
                         ELSE IF p + 3 > Len(b) THEN 0
                         ELSE IF IsFF(b, p) THEN p ELSE from[p + Size(b, p)] IN
  from[start]

(* The same loop before the exchange stops there without an error.         *)
RealEnd(b, start) ==
  LET from[p \in Nat] == IF p + 3 > Len(b) \/ U16At(b, p) = NoType THEN p
                         ELSE from[p + Size(b, p)] IN
  from[start]

(* Mutation: no padding for the bytes the new signature is shorter.        *)
Rebuild_NoPadding(b, p, sig) ==
  SubSeq(b, 1, p - 1) \o Tlv(ECDSASIG, sig) \o SubSeq(b, p + Size(b, p), Len(b))

Rebuild(b, p, sig) ==
  LET next == p + Size(b, p)
      end == RealEnd(b, next) IN
  SubSeq(b, 1, p - 1) \o Tlv(ECDSASIG, sig) \o SubSeq(b, next, end - 1)
    \o FF(Len(Data(b, p)) - Len(sig)) \o SubSeq(b, end, Len(b))

(* The sum of the entries, without the info header imgtool counts; an      *)
(* empty sequence is an error.                                             *)
SetTotal(b) ==
  LET start == TlvStart(b)
      end == EndOfTlvs(b, start + 4) IN
  IF end = 0 THEN <<>> ELSE Overwrite(b, start, InfoMagic \o U16(end - (start + 4)))

SetSignature(b, sig) ==
  LET p == EntryOf(b, ECDSASIG) IN
  IF Len(Data(b, p)) = Len(sig) THEN Overwrite(b, p + 4, sig)
  ELSE SetTotal(Rebuild(b, p, sig))

(* The file written for the key k, <<>> when an error comes first.  The    *)
(* temporary signature has length m, and that of the HSM, after S has been *)
(* brought below half the order, length n.                                 *)
SignImage(input, o, k, m, n) ==
  LET image == ImgtoolSign(input, o, k, m)
      sha == EntryOf(image, SHA256)
      signed == SetSignature(SetKeyHash(image, k), Signature(k, Data(image, sha), n)) IN
  IF image # <<>> /\ sha # 0 /\ Len(signed) <= SlotSize THEN signed ELSE <<>>

-----------------------------------------------------------------------------
(* The entries Image.verify of imgtool comes by; 0 is among them when      *)
(* fewer than four bytes are left of the last                              *)
Verified(b, start, end) ==
  LET from[p \in Nat] == IF p >= end THEN {} ELSE IF p + 3 > Len(b) THEN {0}
                         ELSE {p} \cup from[p + Size(b, p)] IN
  from[start]

(* Image.verify of imgtool, and the hash of the key                        *)
Accepted(b, k) ==
  LET start == TlvStart(b)
      d == Digest(SubSeq(b, 1, start - 1))
      entries == Verified(b, start + 4, start + U16At(b, start + 2))
      Of(kind) == {Data(b, p) : p \in {q \in entries : U16At(b, q) = kind}} IN
  /\ b[1] = 61 /\ SubSeq(b, start, start + 1) = InfoMagic /\ 0 \notin entries
  /\ Of(SHA256) = {d} /\ Of(KEYHASH) = {KeyHash(k)}
  /\ \E s \in Of(ECDSASIG) : SubSeq(s, 1, s[2] + 2) = Signature(k, d, s[2] + 2)
==============================================================================
