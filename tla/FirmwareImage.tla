----------------------------- MODULE FirmwareImage -----------------------------
(***************************************************************************)
(* The bytes of the firmware from application.bin to the board, one        *)
(* command after the other: sign-app, make-combined-srec, gen-fsbl-certs,  *)
(* and the two SREC steps of program-device.  Which folder a command takes *)
(* its files from is FirmwareFlow's matter, and what the board answers     *)
(* DeviceProvisioning's.                                                   *)
(***************************************************************************)
EXTENDS SignedImage, SrecFiles, TLC

CONSTANT RawLen   \* of Certificates
Cert == INSTANCE Certificates

CONSTANTS Input,      \* application.bin: byte sequences
          Key,        \* customer keys in the HSM
          SigLengths, \* lengths of DER signatures
          Bootloader, \* bootloader.srec: files
          AppOffset,  \* firmware.app_offset: addresses
          KeyAddr     \* firmware.mcuboot_pubkey_addr

KeyDer(k) == <<k, 201, 202>>
KeyArea == KeyAddr..KeyAddr + 2

(* The two OEM keys: export of their public keys to oem_root_public.pem    *)
(* and oem_bl_public.pem                                                   *)
Root == "OEM_ROOT"
Bl == "OEM_BL"
NoCerts == <<>>

ASSUME FirmwareImageAssumption ==
  /\ Key \subseteq Nat \ {TempKey} /\ Wide \subseteq Key
  /\ HeaderSize \in Nat /\ SlotSize \in Nat /\ TrailerSize \in Nat /\ SigLen \in Nat
  /\ HeaderSize >= 2 /\ TrailerSize >= 6 /\ SigLen >= 4 /\ SigLengths \subseteq 4..SigLen
  /\ \A input \in Input : input \in Seq(Nat) /\ Len(input) >= HeaderSize
  /\ AppOffset \subseteq Nat /\ KeyAddr \in Nat /\ KeyArea \subseteq Code
  /\ \A f \in Bootloader : f \in Seq(Record) /\ \E i \in DOMAIN f : f[i].addr = CodeBase

VARIABLES
  stage,    \* the command to come, "done", "failed"
  key,      \* the customer key
  image,    \* <application>.bin.signed
  offset,   \* the application's address
  boot,     \* bootloader.srec
  withkey,  \* bootloader_with_aws_key.srec, <<>> when there is none
  combined, \* combined.srec
  certs,    \* the key and the code certificate, NoCerts before
  board     \* its flash and its option-setting memory, and whether the flash
            \* was erased before, which a rejected Initialize leaves undone

ImageVars == <<stage, key, image, offset, boot, withkey, combined, certs, board>>

Garbage == 254  \* what is left of a phrase written twice without an erase

ImageInit ==
  /\ stage = "sign" /\ key = TempKey /\ offset \in AppOffset
  /\ image = <<>> /\ boot = <<>> /\ withkey = <<>> /\ combined = <<>> /\ certs = NoCerts
  /\ \E old \in {9, 255} :
       board = [flash |-> [a \in Code |-> old],
                options |-> [a \in Options |-> 255], erased |-> old = 255]

SignApp ==
  /\ stage = "sign"
  /\ \E input \in Input, padHeader, pad \in BOOLEAN, k \in Key, m, n \in SigLengths :
       /\ image' = SignImage(input, [padHeader |-> padHeader, pad |-> pad], k, m, n)
       /\ key' = k
  /\ stage' = IF image' = <<>> THEN "failed" ELSE "combine"
  /\ UNCHANGED <<offset, boot, withkey, combined, certs, board>>

MakeCombined ==
  /\ stage = "combine"
  /\ \E f \in Bootloader, inject \in BOOLEAN :
       /\ boot' = f
       /\ withkey' = IF inject THEN InjectKey(f, KeyDer(key), KeyAddr) ELSE <<>>
  /\ LET f == IF withkey' = <<>> THEN boot' ELSE withkey'
         application == <<[addr |-> offset, data |-> image]>> IN
     IF Agree(f, application)
     THEN combined' = Combine(f, image, offset) /\ stage' = "certify"
     ELSE combined' = <<>> /\ stage' = "failed"
  /\ UNCHANGED <<key, image, offset, certs, board>>

(* With no combined file given and no key written into the bootloader, the *)
(* bootloader of the configuration is taken.  The certificates are written *)
(* before they are checked.                                                *)
GenFsblCerts ==
  /\ stage = "certify"
  /\ \E source \in IF withkey # <<>> THEN {withkey} ELSE {combined, boot}, m, n \in SigLengths :
       LET read == ParseSrec(source)
           kc == Cert!KeyCertificate(Root, Bl, m)
           cc == Cert!CodeCertificate(Bl, CertifiedImage(read), Cert!Hash(Bl), n) IN
       /\ certs' = [key |-> kc, code |-> cc]
       /\ stage' = IF Cert!Validate(kc, cc, Root, Bl, read) THEN "program" ELSE "failed"
  /\ UNCHANGED <<key, image, offset, boot, withkey, combined, board>>

-----------------------------------------------------------------------------
EraseFlash(flash, span) == [a \in Code |-> IF a \in span THEN 255 ELSE flash[a]]

WriteBlock(flash, b) ==
  LET w == Phrases(b)
      blank(a) == \A c \in AlignDown(a, Phrase)..AlignDown(a, Phrase) + Phrase - 1 : flash[c] = 255 IN
  [a \in Code |-> IF a \notin Span(w) THEN flash[a]
                  ELSE IF blank(a) THEN ByteOf(w, a) ELSE Garbage]

Written(flash, blocks) ==
  LET written[i \in 0..Len(blocks)] ==
        IF i = 0 THEN flash ELSE WriteBlock(written[i - 1], blocks[i]) IN
  written[Len(blocks)]

ProgramSrec ==
  /\ stage = "program"
  /\ LET blocks == CodeBlocks(combined)
         merged == Merge(blocks) IN
     IF InRange(blocks) /\ \A i \in DOMAIN merged : merged[i].data # <<>>
     THEN /\ board' = [board EXCEPT !.flash = Written(EraseFlash(@, EraseSpan(merged)), merged)]
          /\ stage' = "options"
     ELSE stage' = "failed" /\ UNCHANGED board
  /\ UNCHANGED <<key, image, offset, boot, withkey, combined, certs>>

WriteOptionRecord(options, r) ==
  [a \in DOMAIN options \cup Span(r) |-> IF a \in Span(r) THEN ByteOf(r, a) ELSE options[a]]

OptionsWritten(options, records) ==
  LET written[i \in 0..Len(records)] ==
        IF i = 0 THEN options ELSE WriteOptionRecord(written[i - 1], records[i]) IN
  written[Len(records)]

ProgramOptions ==
  /\ stage = "options"
  /\ board' = [board EXCEPT !.options = OptionsWritten(@, OptionRecords(combined))]
  /\ stage' = "done"
  /\ UNCHANGED <<key, image, offset, boot, withkey, combined, certs>>

ImageNext == SignApp \/ MakeCombined \/ GenFsblCerts \/ ProgramSrec \/ ProgramOptions

ImageSpec == ImageInit /\ [][ImageNext]_ImageVars

-----------------------------------------------------------------------------
(* Every variable has its type: an image fits its slot, a certificate is   *)
(* about whole units, a file consists of records with at least a byte, and *)
(* nothing is written outside flash and options.                           *)
ImageTypeOK ==
  /\ stage \in {"sign", "combine", "certify", "program", "options", "done", "failed"}
  /\ key \in Key \cup {TempKey} /\ offset \in AppOffset
  /\ image \in Seq(Nat) /\ Len(image) <= SlotSize
  /\ certs # NoCerts =>
       certs.code.crc \in Seq(Nat) /\ Len(certs.code.crc) % CrcUnit = 0
  /\ boot \in Seq(Record) /\ withkey \in Seq(Record) /\ combined \in Seq(Record)
  /\ board \in [flash : [Code -> Nat], options : [Options -> Nat], erased : BOOLEAN]

(* A signed image, whatever the lengths of the two signatures, is one that *)
(* imgtool's own verification accepts for the customer's key, with the     *)
(* trailer at the end of the slot when it was asked for.                   *)
SignedIsAccepted ==
  image # <<>> =>
    /\ Accepted(image, key)
    /\ SubSeq(image, Len(image) - 1, Len(image)) = <<1, 119>> => Len(image) = SlotSize

(* The blocks of a file stay in order in the secure alias.                 *)
Orderly(blocks) == \A i \in 2..Len(blocks) : Ends(blocks[i - 1]) <= blocks[i].addr

(* A used flash is erased under the file but for a sector that has only    *)
(* its very last byte.                                                     *)
AllErased(blocks) == board.erased \/ (Max(Covered(blocks)) % Sector) # 0

(* After a success the code flash has each byte of the combined file at    *)
(* its place, and erased bytes elsewhere in the span of the file.          *)
FlashIsFile ==
  LET blocks == CodeBlocks(combined)
      present == Covered(blocks) IN
  (stage \in {"options", "done"} /\ Orderly(blocks) /\ AllErased(blocks)) =>
    \A a \in Code :
      (\E p \in present : p <= a) /\ (\E p \in present : a <= p) =>
        board.flash[a] = IF a \in present THEN ByteAt(blocks, a) ELSE 255

(* No two records of a file have a byte for the same address.              *)
Disjoint(file) ==
  \A i, j \in DOMAIN file : i # j => Span(file[i]) \cap Span(file[j]) = {}

(* The option-setting memory has the bytes the file has for it, although   *)
(* each record is padded over what follows.                                *)
OptionsAreFile ==
  (stage = "done" /\ Disjoint(combined)) =>
    \A a \in Covered(combined) \cap Options : board.options[a] = ByteAt(combined, a)

(* Files the tool can handle: an application that starts in the code flash *)
(* on a CRC unit; in the bootloader nothing above it, no two bytes for one *)
(* address, and all bytes of the key area, else there is only a warning    *)
FitFiles ==
  /\ offset \in Code \cup Alias /\ Remap(offset) % CrcUnit = 0
  /\ \A a \in Covered(boot) \cap (Code \cup Alias) : Remap(a) < Remap(offset) /\ a \notin Alias
  /\ Disjoint(boot) /\ KeyArea \subseteq Covered(boot)

(* After a success the board boots: its FSBL accepts the certificates with *)
(* what is in the flash, whichever file gen-fsbl-certs took the image      *)
(* from; and when the customer's key was written into the bootloader, it   *)
(* is there and the application is one the bootloader accepts with it.     *)
BoardBoots ==
  LET at(a, n) == [i \in 1..n |-> board.flash[a + i - 1]] IN
  (stage = "done" /\ FitFiles /\ AllErased(CodeBlocks(combined))) =>
    /\ Cert!FsblAccepts(certs.key, certs.code, Root, at(CodeBase, certs.code.size))
    /\ withkey # <<>> =>
         /\ at(KeyAddr, 3) = KeyDer(key)
         /\ Accepted(at(Remap(offset), Len(image)), key)
==============================================================================
