----------------------------- MODULE FotaLibrary ------------------------------
(***************************************************************************)
(* The FOTA library (subsys/lib/zigbee_fota): what it does with a block of *)
(* an upgrade file, with the DFU targets and with the state it stores for  *)
(* the next boot.  Its operators map the library's state, a record         *)
(*   ota_ctx   its context,                                                *)
(*   dfu       what the DFU multi image library holds,                     *)
(*   saved     the resume state in the settings,                           *)
(*   loaded    resume_state_loaded,                                        *)
(* to the next.  Lengths are in units of a few bytes.                      *)
(*                                                                         *)
(* A byte is <<version, position>>: the file it comes from and its place   *)
(* there.  Every file has a header, whose optional part may be empty,      *)
(* sub-elements the library does not know, and last the upgrade image.     *)
(***************************************************************************)
EXTENDS Naturals, Sequences

CONSTANTS
  Current,         \* version that runs
  Versions,        \* versions the server may offer
  MandatoryLen,    \* MANDATORY_HEADER_LEN
  HeaderLen,       \* header_length of the files
  SubLen,          \* SUBELEMENT_HEADER_SIZE
  Skipped,         \* lengths of the unknown sub-elements, in order
  ImageEnds,       \* ends of the images within the upgrade image
  Align,           \* ZIGBEE_FOTA_STREAM_WRITE_ALIGN
  None             \* no version, no state

ASSUME FileAssumption ==
  /\ Current \in Nat /\ Versions \subseteq Nat \ {0} /\ Versions # {} /\ None \notin Nat
  /\ MandatoryLen \in Nat \ {0} /\ HeaderLen \in Nat /\ HeaderLen >= MandatoryLen
  /\ SubLen \in Nat \ {0} /\ Align \in Nat \ {0}
  /\ Skipped \in Seq(Nat)
  /\ ImageEnds \subseteq Nat \ {0} /\ \E e \in ImageEnds : \A f \in ImageEnds : f <= e

(* The file: where its sub-elements start, and their tags and lengths.     *)
BinSize == CHOOSE e \in ImageEnds : \A f \in ImageEnds : f <= e
ElementLen(i) == IF i <= Len(Skipped) THEN Skipped[i] ELSE BinSize
ElementStart[i \in 1 .. Len(Skipped) + 1] ==
  IF i = 1 THEN HeaderLen ELSE ElementStart[i - 1] + SubLen + ElementLen(i - 1)
BinStart == ElementStart[Len(Skipped) + 1] + SubLen
TotalSize == BinStart + BinSize

Image(v) == [i \in 1 .. BinSize |-> <<v, BinStart + i - 1>>]
Smaller(a, b) == IF a < b THEN a ELSE b

-----------------------------------------------------------------------------
(* The context and what is derived from it.                                *)

ResetContext ==
  [ota_header_fill_level |-> 0, ota_subelement_fill_level |-> 0, ota_image_processed |-> 0,
   mandatory_header_finished |-> FALSE, process_optional_header |-> FALSE,
   process_subelement_header |-> FALSE, process_bin_image |-> FALSE,
   ota_header_size |-> 0, total_size |-> 0, bin_size |-> 0, target_file_version |-> None,
   stream_carry_offset |-> 0, stream_carry |-> <<>>]

ota_file_offset_twice(lib) ==
  LET c == lib.ota_ctx IN
  c.ota_header_fill_level + c.ota_subelement_fill_level + c.ota_image_processed
    + Len(lib.dfu.data) + Len(c.stream_carry)
ota_file_offset(lib) ==
  LET c == lib.ota_ctx IN
  c.ota_header_fill_level + c.ota_subelement_fill_level + c.ota_image_processed
    + (IF c.process_bin_image THEN Len(lib.dfu.data) + Len(c.stream_carry) ELSE 0)

(* The DFU libraries, external: bytes written beyond the next are refused, *)
(* bytes written before are passed over; an image whose last byte arrives  *)
(* is closed (dfu_multi_target_done_0); a reset drops everything but       *)
(* images_to_download, which is the library's own.                         *)
ResetDfu(dfu) == [dfu EXCEPT !.data = <<>>, !.ready = FALSE]
init_default(dfu) == [dfu EXCEPT !.ready = TRUE, !.images_to_download = ImageEnds]
CanWrite(dfu, offset) == dfu.ready /\ offset <= Len(dfu.data)
Written(dfu, offset, bytes) ==
  LET data == dfu.data \o SubSeq(bytes, Len(dfu.data) - offset + 1, Len(bytes))
  IN  [dfu EXCEPT !.data = data,
                  !.images_to_download = {e \in @ : ~ (Len(dfu.data) < e /\ e <= Len(data))}]

ota_dfu_cancel(lib) ==
  [lib EXCEPT !.ota_ctx = ResetContext, !.dfu = ResetDfu(@), !.saved = None, !.loaded = FALSE]

-----------------------------------------------------------------------------
(* The resume state.                                                       *)

ota_resume_can_save(c, downloading) ==
  /\ c.target_file_version # None /\ c.total_size > 0 /\ downloading
  /\ c.mandatory_header_finished /\ c.process_bin_image
ResumeState_early(c) ==
  [target_file_version |-> c.target_file_version, target_file_size |-> c.total_size,
   ota_header_size |-> c.ota_header_size, ota_image_processed |-> c.ota_image_processed - SubLen,
   bin_size |-> c.bin_size]
ResumeState(c) ==
  [target_file_version |-> c.target_file_version, target_file_size |-> c.total_size,
   ota_header_size |-> c.ota_header_size, ota_image_processed |-> c.ota_image_processed,
   bin_size |-> c.bin_size]
ota_resume_save(lib, downloading, fault) ==
  IF ota_resume_can_save(lib.ota_ctx, downloading) /\ fault # "save"
  THEN [lib EXCEPT !.saved = ResumeState(lib.ota_ctx)] ELSE lib

restore_ota_context(s) ==
  [ResetContext EXCEPT
     !.ota_header_size = s.ota_header_size, !.ota_header_fill_level = s.ota_header_size,
     !.ota_image_processed = s.ota_image_processed, !.bin_size = s.bin_size,
     !.total_size = s.target_file_size, !.target_file_version = s.target_file_version,
     !.mandatory_header_finished = TRUE, !.process_bin_image = TRUE]

(* zigbee_fota_init after a boot: the DFU targets kept the first bytes     *)
(* they were given.  The download continues if there is a resume state and *)
(* the targets can be initialised.                                         *)
Booted(lib, kept) ==
  [ota_ctx |-> ResetContext, loaded |-> FALSE, saved |-> lib.saved,
   dfu |-> [data |-> SubSeq(lib.dfu.data, 1, kept), ready |-> FALSE, images_to_download |-> {}]]
ota_resume_load(lib, dfu_ok) ==
  LET restored == [lib EXCEPT !.ota_ctx = restore_ota_context(lib.saved)]
      started == [restored EXCEPT !.dfu = init_default(lib.dfu)]
  IN  IF lib.saved = None THEN lib
      ELSE IF ~ dfu_ok THEN [restored EXCEPT !.saved = None]
      ELSE IF ota_file_offset(started) > started.ota_ctx.total_size
             THEN [started EXCEPT !.saved = None]
      ELSE [started EXCEPT !.loaded = TRUE]

-----------------------------------------------------------------------------
(* A block.  While it is processed the library's state has three fields    *)
(* more: consumed, how many of its bytes were; copied, by the last         *)
(* routine; and ok, the status the routine returned.  fault names the call *)
(* that fails, if any: of the DFU libraries or of the settings.            *)

Bytes(block, from, to) == [i \in 1 .. to - from |-> <<block.version, block.offset + from + i - 1>>]
Left(s, block) == block.len - s.consumed
Consume(s, n) == [s EXCEPT !.consumed = @ + n, !.copied = n]

ota_process_mandatory_header(s, block) ==
  LET c == s.ota_ctx
      n == Smaller(MandatoryLen - c.ota_header_fill_level, Left(s, block))
      d == [c EXCEPT !.ota_header_fill_level = @ + n]
  IN  Consume([s EXCEPT !.ota_ctx =
        IF d.ota_header_fill_level < MandatoryLen THEN d
        ELSE [d EXCEPT !.mandatory_header_finished = TRUE,
                       !.ota_header_size = HeaderLen, !.total_size = TotalSize,
                       !.process_optional_header = HeaderLen > MandatoryLen,
                       !.process_subelement_header = HeaderLen = MandatoryLen]], n)

ota_process_optional_header(s, block) ==
  LET c == s.ota_ctx
      n == Smaller(c.ota_header_size - c.ota_header_fill_level, Left(s, block))
      d == [c EXCEPT !.ota_header_fill_level = @ + n]
  IN  Consume([s EXCEPT !.ota_ctx =
        IF d.ota_header_fill_level < d.ota_header_size THEN d
        ELSE [d EXCEPT !.process_optional_header = FALSE, !.process_subelement_header = TRUE]], n)

(* A complete sub-element header is that of the sub-element which starts   *)
(* SubLen before the byte the library stands at.                           *)
HeaderAt(position) == {i \in DOMAIN ElementStart : ElementStart[i] = position - SubLen}
ota_process_subelement_header(s, block, downloading, fault) ==
  LET c == s.ota_ctx
      n == Smaller(SubLen - c.ota_subelement_fill_level, Left(s, block))
      t == Consume([s EXCEPT !.ota_ctx.ota_subelement_fill_level = @ + n], n)
      u == [t EXCEPT !.ota_ctx.ota_image_processed = @ + SubLen,
                     !.ota_ctx.ota_subelement_fill_level = 0]
      element == HeaderAt(block.offset + t.consumed)
      image == [u EXCEPT !.ota_ctx.bin_size = BinSize,
                         !.ota_ctx.process_subelement_header = FALSE,
                         !.ota_ctx.process_bin_image = TRUE]
  IN  IF t.ota_ctx.ota_subelement_fill_level < SubLen THEN t
      ELSE IF element = {Len(Skipped) + 1}
        THEN IF fault = "init" THEN [image EXCEPT !.ok = FALSE]
             ELSE ota_resume_save([image EXCEPT !.dfu = init_default(@)], downloading, fault)
      ELSE LET len == IF element = {} THEN 0 ELSE ElementLen(CHOOSE i \in element : TRUE) IN
        [u EXCEPT !.ota_ctx.ota_image_processed = @ + len,
                  !.consumed = @ + Smaller(Left(t, block), len),
                  !.copied = @ + Smaller(Left(t, block), len)]

(* Without synchronous streams the bytes are written as they come.  With   *)
(* them only multiples of Align are, until the last: the others are        *)
(* carried over to the next block.                                         *)
Refused(s) == LET t == ota_dfu_cancel(s) IN [t EXCEPT !.copied = 0, !.ok = FALSE]
Write(s, offset, bytes, fault) ==
  IF fault = "write" \/ ~ CanWrite(s.dfu, offset) THEN Refused(s)
  ELSE [s EXCEPT !.dfu = Written(s.dfu, offset, bytes)]

WriteCarry(s, offset, bytes, final, fault) ==
  LET c == s.ota_ctx
      n == Smaller(Len(bytes), Align - Len(c.stream_carry))
      carry == c.stream_carry \o SubSeq(bytes, 1, n)
      filled == [s EXCEPT !.ota_ctx.stream_carry = carry, !.copied = n]
      written == Write(filled, c.stream_carry_offset, carry, fault)
  IN  IF c.stream_carry = <<>> THEN [s EXCEPT !.copied = 0]
      ELSE IF offset # c.stream_carry_offset + Len(c.stream_carry) THEN Refused(s)
      ELSE IF Len(carry) < Align /\ ~ final THEN filled
      ELSE [written EXCEPT !.ota_ctx.stream_carry = <<>>]
WriteAligned(s, offset, bytes, final, fault) ==
  LET from == s.copied
      n == Len(bytes) - from
      now == IF final THEN n ELSE n - (n % Align)
      written == IF now = 0 THEN s
                 ELSE Write(s, offset + from, SubSeq(bytes, from + 1, from + now), fault)
  IN  IF n = 0 \/ ~ written.ok THEN written
      ELSE [written EXCEPT
              !.copied = Len(bytes),
              !.ota_ctx.stream_carry_offset = IF now < n THEN offset + from + now ELSE @,
              !.ota_ctx.stream_carry =
                 IF now < n THEN SubSeq(bytes, from + now + 1, Len(bytes)) ELSE @]

FirmwareWritten(s, reached) ==
  LET t == [s EXCEPT !.consumed = @ + s.copied]
  IN  IF s.ok /\ s.ota_ctx.bin_size = reached
      THEN [t EXCEPT !.ota_ctx.process_bin_image = FALSE,
                     !.ota_ctx.ota_subelement_fill_level = 0,
                     !.ota_ctx.process_subelement_header = TRUE,
                     !.ota_ctx.ota_image_processed = @ + s.ota_ctx.bin_size]
      ELSE t
ota_process_firmware(s, block, synchronous, fault) ==
  LET offset == block.offset + s.consumed
                  - (s.ota_ctx.ota_header_fill_level + s.ota_ctx.ota_image_processed)
      bytes == Bytes(block, s.consumed, block.len)
      final == offset + Len(bytes) >= s.ota_ctx.bin_size
      carried == WriteCarry([s EXCEPT !.ok = TRUE], offset, bytes, final, fault)
      written == IF synchronous
                 THEN IF carried.ok THEN WriteAligned(carried, offset, bytes, final, fault) ELSE carried
                 ELSE Write([s EXCEPT !.ok = TRUE, !.copied = Len(bytes)], offset, bytes, fault)
  IN  FirmwareWritten(written, offset + Len(bytes))

(* One turn of the loop.  The status of the second routine replaces that   *)
(* of the first, and so does the number of bytes it copied.                *)
ParseOnce(s, block, downloading, synchronous, fault) ==
  LET t == IF s.ota_ctx.process_subelement_header
           THEN ota_process_subelement_header([s EXCEPT !.copied = 0], block, downloading, fault)
           ELSE [s EXCEPT !.copied = 0]
  IN  IF t.ota_ctx.process_bin_image THEN ota_process_firmware(t, block, synchronous, fault) ELSE t

Parse(s, block, downloading, synchronous, fault) ==
  LET turn[n \in 0 .. block.len] ==
        IF n = 0 THEN s
        ELSE LET t == turn[n - 1] IN
             IF Left(t, block) = 0 \/ (n > 1 /\ (t.copied = 0 \/ ~ t.ok)) THEN t
             ELSE ParseOnce(t, block, downloading, synchronous, fault)
  IN  turn[block.len]

ParseHeaders(s, block) ==
  LET t == IF s.ota_ctx.mandatory_header_finished THEN s ELSE ota_process_mandatory_header(s, block)
  IN  IF t.ota_ctx.process_optional_header THEN ota_process_optional_header(t, block) ELSE t

FullImage(c) == c.total_size = c.ota_header_fill_level + c.ota_image_processed
Finished(s) ==
  IF FullImage(s.ota_ctx)
  THEN [s EXCEPT !.ota_ctx.mandatory_header_finished = FALSE,
                 !.ota_ctx.process_optional_header = FALSE,
                 !.ota_ctx.process_subelement_header = FALSE,
                 !.ota_ctx.process_bin_image = FALSE]
  ELSE s

StartParsing(lib) ==
  [ota_ctx |-> lib.ota_ctx, dfu |-> lib.dfu, saved |-> lib.saved, loaded |-> lib.loaded,
   consumed |-> 0, copied |-> 0, ok |-> TRUE]
LibraryOf(s) == [ota_ctx |-> s.ota_ctx, dfu |-> s.dfu, saved |-> s.saved, loaded |-> s.loaded]
Result(s) == [lib |-> LibraryOf(s), ok |-> s.ok, consumed |-> s.consumed]

(* [lib, ok, consumed]; a block beyond the next byte is refused at once.   *)
ota_process_chunk(lib, block, downloading, synchronous, fault) ==
  IF block.offset > ota_file_offset(lib) THEN [lib |-> lib, ok |-> FALSE, consumed |-> 0]
  ELSE Result(Finished(Parse(ParseHeaders(StartParsing(lib), block), block, downloading,
                             synchronous, fault)))

-----------------------------------------------------------------------------
(* zigbee_fota_zcl_cb outside of a block.                                  *)

Start(lib, v) ==
  LET cancelled == ota_dfu_cancel(lib) IN [cancelled EXCEPT !.ota_ctx.target_file_version = v]

(* CHECK: the download is over, whatever the DFU libraries say of it.      *)
Checked(lib) == [lib EXCEPT !.saved = None, !.loaded = FALSE, !.dfu.ready = FALSE]
CanVerify(lib) == lib.dfu.ready /\ Len(lib.dfu.data) = BinSize

(* FINISH                                                                  *)
MissingImages_ignored(lib) == {}
MissingImages(lib) == lib.dfu.images_to_download
CanSchedule(lib) == MissingImages(lib) = {}
===============================================================================
