------------------------------ MODULE SrecFiles ------------------------------
(***************************************************************************)
(* SREC files on their way from the build to the board: writing the        *)
(* customer's key into a bootloader, the image a code certificate is       *)
(* about, and the blocks the programmer makes of a file.                   *)
(* A file is a sequence of data records; addresses and sizes are scaled    *)
(* down, in the proportions of the real ones.                              *)
(***************************************************************************)
EXTENDS Integers, Sequences, FiniteSetsExt, SequencesExt

CONSTANTS Phrase,    \* FLASH_BLOCK_SIZE, what one command writes
          Sector,    \* ERASE_SECTOR_SIZE
          CrcUnit,   \* 16: images and option records are padded to it
          MinImage,  \* 64: the shortest image of a certificate
          Code,      \* addresses of the code flash, from its secure alias
          AliasBase, \* first address of its non-secure alias
          CodeOptions, DataOptions   \* the two option-setting memories

Interval(S) == S \subseteq Nat /\ \E lo, hi \in S : S = lo..hi

CodeBase == Min(Code)
Alias == {a - CodeBase + AliasBase : a \in Code}
Options == CodeOptions \cup DataOptions

Record == [addr : Nat, data : Seq(Nat) \ {<<>>}]

ASSUME SrecAssumption ==
  /\ {Phrase, Sector, CrcUnit, MinImage} \subseteq Nat \ {0} /\ Sector % Phrase = 0
  /\ Phrase % CrcUnit = 0
  /\ Interval(Code) /\ CodeBase % Sector = 0 /\ (Max(Code) + 1) % Sector = 0
  /\ AliasBase \in Nat /\ Max(Code) < AliasBase
  /\ Interval(CodeOptions) /\ Interval(DataOptions) /\ CodeOptions \cap DataOptions = {}

Erased(n) == [i \in 1..n |-> 255]
Ends(r) == r.addr + Len(r.data)   \* the address behind a block
Span(r) == r.addr..Ends(r) - 1

(* list.sort(key=address), which is stable: a record goes behind the last  *)
(* one that does not start after it.                                       *)
Insert(s, r) ==
  LET n == Max({0} \cup {i \in DOMAIN s : s[i].addr <= r.addr}) IN
  SubSeq(s, 1, n) \o <<r>> \o SubSeq(s, n + 1, Len(s))

Sort(file) ==
  LET sorted[i \in 0..Len(file)] ==
        IF i = 0 THEN <<>> ELSE Insert(sorted[i - 1], file[i]) IN
  sorted[Len(file)]

(* The records of a file that start in A                                   *)
IfIn(r, A) == IF r.addr \in A THEN <<r>> ELSE <<>>

StartingIn(file, A) ==
  LET taken[i \in 0..Len(file)] ==
        IF i = 0 THEN <<>>
        ELSE taken[i - 1] \o IfIn(file[i], A) IN
  taken[Len(file)]

(* What a file says of address a: the last record that has it wins.        *)
Holders(file, a) == {i \in DOMAIN file : a \in Span(file[i])}
ByteOf(r, a) == r.data[a - r.addr + 1]
ByteAt(file, a) == ByteOf(file[Max(Holders(file, a))], a)
Covered(file) == UNION {Span(file[i]) : i \in DOMAIN file}

AlignDown(a, size) == a - (a % size)
AlignUp(a, size) == AlignDown(a + size - 1, size)
PadUp(data, size) == data \o Erased(AlignUp(Len(data), size) - Len(data))

-----------------------------------------------------------------------------
(* The key is written over bytes that records of the file have; what is    *)
(* missing of it is only a warning.                                        *)
InjectKey(file, key, at) ==
  [i \in DOMAIN file |->
    [addr |-> file[i].addr,
     data |-> [j \in DOMAIN file[i].data |->
                 LET k == file[i].addr + j - at IN
                 IF k \in DOMAIN key THEN key[k] ELSE file[i].data[j]]]]

(* srec_cat refuses files that disagree about a byte.                      *)
Agree(f, g) == Covered(f) \cap Covered(g) = {}

(* bin_to_srec and combine_srec_files                                      *)
Combine(file, image, offset) == Append(file, [addr |-> offset, data |-> image])

(* Mutation: the hole of a file has the value of memory that was cleared.  *)
ParseSrec_ZeroFilled(file) ==
  LET present == Covered(file) \cap Code
      first == Min(present) IN
  PadUp([i \in 1..Max(present) - first + 1 |->
           IF first + i - 1 \in present THEN ByteAt(file, first + i - 1) ELSE 0], CrcUnit)

(* The image from the first to the last byte in the code flash; records    *)
(* that start elsewhere are left out.                                      *)
ParseSrec(file) ==
  LET code == StartingIn(file, Code)
      present == Covered(code) \cap Code
      first == Min(present) IN
  PadUp([i \in 1..Max(present) - first + 1 |->
           IF first + i - 1 \in present THEN ByteAt(code, first + i - 1) ELSE 255], CrcUnit)

(* What the code certificate says of the image: its length and CRC, which  *)
(* stands for its bytes.                                                   *)
CertifiedImage(image) ==
  PadUp(IF Len(image) < MinImage THEN image \o Erased(MinImage - Len(image)) ELSE image, CrcUnit)

-----------------------------------------------------------------------------
(* RA8SRECProgrammer                                                       *)

Remap(a) == IF a \in Alias THEN a - AliasBase + CodeBase ELSE a

(* Sorted, and only then moved to the secure alias                         *)
CodeBlocks(file) ==
  LET mine == StartingIn(Sort(file), Code \cup Alias) IN
  [i \in DOMAIN mine |-> [mine[i] EXCEPT !.addr = Remap(@)]]

InRange(blocks) == \A i \in DOMAIN blocks : Span(blocks[i]) \subseteq Code

(* A block that starts before the end of the last is laid over it, up to   *)
(* where that ended; Python counts negative indices from the end, and      *)
(* before the first there is an IndexError, the empty block.               *)
Overlay(cur, b) ==
  LET old == Len(cur.data)
      len == Max({old, Ends(b) - cur.addr})
      at(i) == LET j == i - cur.addr IN (IF j < 0 THEN j + len ELSE j) + 1
      written(x) == {i \in b.addr..Min({Ends(cur), Ends(b)}) - 1 : at(i) = x}
      data == cur.data \o Erased(len - old) IN
  [cur EXCEPT !.data =
     IF at(b.addr) < 1 THEN <<>>
     ELSE [x \in 1..len |->
             IF written(x) = {} THEN data[x] ELSE b.data[Max(written(x)) - b.addr + 1]]]

(* Mutation: any gap keeps two blocks apart.                               *)
HasFullPhrase_AnyGap(first, last) == first <= last

HasFullPhrase(first, last) == AlignUp(first, Phrase) + Phrase - 1 <= last

MergeNext(done, b) ==
  LET cur == Last(done) IN
  IF done = <<>> THEN <<b>>
  ELSE IF cur.data = <<>> THEN done
  ELSE IF b.addr < Ends(cur) THEN Append(Front(done), Overlay(cur, b))
  ELSE IF HasFullPhrase(Ends(cur), b.addr - 1) THEN Append(done, b)
  ELSE Append(Front(done), [cur EXCEPT !.data = @ \o Erased(b.addr - Ends(cur)) \o b.data])

(* _merge_contiguous_blocks                                                *)
Merge(blocks) ==
  LET merged[i \in 0..Len(blocks)] ==
        IF i = 0 THEN <<>> ELSE MergeNext(merged[i - 1], blocks[i]) IN
  merged[Len(blocks)]

(* The addresses erased for some blocks: the last one is rounded up, not   *)
(* the address behind it, so a sector with only this one byte is left.     *)
EraseSpan(blocks) ==
  IF blocks = <<>> THEN {}
  ELSE AlignDown(Min({blocks[i].addr : i \in DOMAIN blocks}), Sector)
         ..AlignUp(Max({Ends(blocks[i]) - 1 : i \in DOMAIN blocks}), Sector) - 1

(* _write_block_in_phrases_aligned: the block with erased bytes around it  *)
Phrases(b) ==
  LET start == AlignDown(b.addr, Phrase) IN
  [addr |-> start, data |-> PadUp(Erased(b.addr - start) \o b.data, Phrase)]

(* What is written of record r into the option range R                     *)
OptionRecord_Uncut(r, R) ==
  LET s == Max({r.addr, Min(R)}) IN
  [addr |-> s,
   data |-> PadUp(SubSeq(r.data, s - r.addr + 1, Min({Ends(r), Max(R) + 1}) - r.addr), CrcUnit)]

OptionRecord(r, R) ==
  LET w == OptionRecord_Uncut(r, R) IN
  [w EXCEPT !.data = SubSeq(@, 1, Min({Len(@), Max(R) + 1 - w.addr}))]

OptionPiece(r, R) == IF Span(r) \cap R = {} THEN <<>> ELSE <<OptionRecord(r, R)>>

(* The pieces of the records, in the order of the file                     *)
Collected(file) ==
  LET out[i \in 0..Len(file)] ==
        IF i = 0 THEN <<>>
        ELSE out[i - 1] \o OptionPiece(file[i], CodeOptions) \o OptionPiece(file[i], DataOptions) IN
  out[Len(file)]

(* Mutation: the records are written as they stand in the file.            *)
OptionRecords_FileOrder(file) == Collected(file)

(* _collect_osm_srec_records                                               *)
OptionRecords(file) == Sort(Collected(file))
==============================================================================
