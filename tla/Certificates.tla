----------------------------- MODULE Certificates -----------------------------
(***************************************************************************)
(* The key certificate and the code certificate of the first-stage boot    *)
(* loader (FSBL): SKMTWrapper makes them, CertificateValidator checks them *)
(* and the FSBL is to accept them.  A key is its own public key, a CRC and *)
(* a signature carry what they are of; magic numbers and the other fields  *)
(* that are the same in every certificate are left out.                    *)
(***************************************************************************)
EXTENDS Naturals, Sequences

CONSTANT RawLen  \* 64: the length of a raw signature R||S

Hash(key) == <<"sha256", key>>   \* of Qx||Qy, extract_raw_public_key_qxqy

Signature(key, data) == [by |-> key, of |-> data]
NoSignature == [by |-> "nobody", of |-> <<>>]

(* A signature of n bytes in DER is made a raw one, unless it is so short  *)
(* that it is taken for a raw one.                                         *)
RawSignature(key, data, n) == IF n > RawLen THEN Signature(key, data) ELSE NoSignature

KeyCertificate(root, bl, n) ==
  [root |-> root, keyhash |-> Hash(bl),
   signature |-> RawSignature(root, <<root, Hash(bl)>>, n)]

(* padded: the image as CertifiedImage gives it                            *)
CodeCertificate(bl, padded, keyhash, n) ==
  [bl |-> bl, size |-> Len(padded), crc |-> padded, signer |-> keyhash,
   signature |-> RawSignature(bl, <<bl, Len(padded), padded, keyhash, padded>>, n)]

(* validate_certificates_complete                                          *)
VerifyChain(kc, cc) == kc.keyhash = cc.signer
VerifyKeyCert(kc, rootPem) == kc.signature = Signature(rootPem, <<kc.root, kc.keyhash>>)
VerifyCodeCert(cc, blPem, image) ==
  cc.signature = Signature(blPem, <<cc.bl, cc.size, cc.crc, cc.signer, image>>)
VerifyCrc(cc, image) == cc.crc = image

(* The image is checked as it was read, not as it was padded for the       *)
(* certificate.                                                            *)
Validate(kc, cc, rootPem, blPem, image) ==
  /\ VerifyChain(kc, cc) /\ VerifyKeyCert(kc, rootPem)
  /\ VerifyCodeCert(cc, blPem, image) /\ VerifyCrc(cc, image)

(* What the FSBL checks, with the root key of the RKEY and the flash: each *)
(* certificate is signed by the key in it, the root key is the installed   *)
(* one, the hash of the bootloader's key is the one the root key signed,   *)
(* and the image in the flash is the one that was signed.                  *)
FsblAccepts(kc, cc, root, flash) ==
  /\ kc.root = root /\ VerifyKeyCert(kc, kc.root)
  /\ Hash(cc.bl) = kc.keyhash /\ VerifyChain(kc, cc)
  /\ VerifyCodeCert(cc, cc.bl, flash)
==============================================================================
