--------------------------- MODULE OtaUpgradeProofs ---------------------------
(***************************************************************************)
(* Proofs about OtaUpgrade for any layout of the file, any versions, block *)
(* length, stream alignment and bounds.                                    *)
(*                                                                         *)
(* The inductive invariant UpgradeInv says where the parser of the library *)
(* is (Place: in the mandatory header, in the optional one, in the header  *)
(* of a sub-element, in the image or at its end, each with the fill levels *)
(* it implies), that what it wrote and carries are bytes of one version in *)
(* their order (OfVersion), that the client asks for the byte the parser   *)
(* stands at (Downloading), and that images_to_download tells which images *)
(* are not whole (Missing).  None of the checked properties is inductive   *)
(* without it: which bytes a block adds to the targets depends on where    *)
(* the parser is, and where it is on the fill levels of all earlier        *)
(* blocks.                                                                 *)
(*                                                                         *)
(* The file comes first, then the parser: the header, the targets, the     *)
(* firmware, the sub-elements, each routine by what it leaves; the turns   *)
(* of its loop, by induction; a block.  Then the client: its routines, and *)
(* one lemma for each step that SystemKnown is kept.                       *)
(*                                                                         *)
(* ElementStart and Parse are recursive functions.  Induction over numbers *)
(* is obtained from the well-foundedness of their order, for sets instead  *)
(* of predicates: the set of the numbers for which something holds.        *)
(***************************************************************************)
EXTENDS OtaUpgrade, WellFoundedInduction, NaturalsInduction, TLAPS

(* The order of the numbers has no infinite descent.                       *)
LEMMA LessThan == IsWellFoundedOn({ss \in Nat \X Nat : ss[1] < ss[2]}, Nat)
BY NatLessThanWellFounded DEF OpToRel

(* Induction, for a set of numbers.                                        *)
LEMMA Induction ==
  ASSUME NEW S, 0 \in S, \A n \in Nat : n \in S => n + 1 \in S
  PROVE  \A n \in Nat : n \in S
<1> DEFINE T == {n \in Nat : n \notin S}
<1> SUFFICES ASSUME T # {}
             PROVE  FALSE
  OBVIOUS
<1>1. T \subseteq Nat
  OBVIOUS
<1> HIDE DEF T
<1>2. PICK x \in T : \A y \in T : ~ (<<y, x>> \in {ss \in Nat \X Nat : ss[1] < ss[2]})
  BY <1>1, LessThan, WFMin
<1>3. x \in Nat /\ x \notin S
  BY DEF T
<1>4. x # 0 /\ x - 1 \in Nat /\ (x - 1) + 1 = x
  BY <1>3
<1>5. x - 1 \notin S
  BY <1>3, <1>4
<1>6. x - 1 \in T
  BY <1>4, <1>5 DEF T
<1>7. <<x - 1, x>> \in {ss \in Nat \X Nat : ss[1] < ss[2]}
  BY <1>3, <1>4
<1> QED
  BY <1>2, <1>6, <1>7

-------------------------------------------------------------------------------
(* The file.                                                               *)

(* The image is as long as the end of its last part.                       *)
LEMMA BinSizeIs == BinSize \in ImageEnds /\ BinSize \in Nat \ {0} /\ \A e \in ImageEnds : e <= BinSize
BY FileAssumption DEF BinSize

(* The sub-elements in front of the image have a length.                   *)
LEMMA ElementLenIs == \A i \in Nat \ {0} : ElementLen(i) \in Nat
BY FileAssumption, BinSizeIs DEF ElementLen

(* g holds where the first m sub-elements of the file start.               *)
Starts(g, m) ==
  g = [i \in 1 .. m |-> IF i = 1 THEN HeaderLen ELSE g[i - 1] + SubLen + ElementLen(i - 1)]

(* There is such a function for any number of sub-elements: the recursion  *)
(* of ElementStart is sound.                                               *)
LEMMA StartsExist == \A m \in Nat : \E g : Starts(g, m)
<1> DEFINE S == {m \in Nat : \E g : Starts(g, m)}
<1>1. 0 \in S
  <2>1. Starts(<<>>, 0)
    BY DEF Starts
  <2> QED
    BY <2>1
<1>2. ASSUME NEW m \in Nat, m \in S
      PROVE  m + 1 \in S
  <2>1. PICK g : Starts(g, m)
    BY <1>2
  <2> DEFINE h == [i \in 1 .. m + 1 |->
                     IF i = 1 THEN HeaderLen
                     ELSE g[i - 1] + SubLen + ElementLen(i - 1)]
  <2>2. \A i \in 1 .. m : h[i] = g[i]
    <3> SUFFICES ASSUME NEW i \in 1 .. m
                 PROVE  h[i] = g[i]
      OBVIOUS
    <3>1. g[i] = IF i = 1 THEN HeaderLen ELSE g[i - 1] + SubLen + ElementLen(i - 1)
      BY <2>1 DEF Starts
    <3> QED
      BY <3>1
  <2>3. \A i \in 1 .. m + 1 : i # 1 => i - 1 \in 1 .. m
    OBVIOUS
  <2>4. Starts(h, m + 1)
    BY <2>2, <2>3 DEF Starts
  <2> HIDE DEF h
  <2> QED
    BY <2>4
<1> HIDE DEF S
<1>3. \A m \in Nat : m \in S
  BY <1>1, <1>2, Induction
<1> QED
  BY <1>3 DEF S

(* ElementStart is it for those of the file.                               *)
LEMMA ElementStartIs == Starts(ElementStart, Len(Skipped) + 1)
<1>1. Len(Skipped) + 1 \in Nat
  BY FileAssumption
<1>2. \E g : Starts(g, Len(Skipped) + 1)
  BY <1>1, StartsExist
<1> QED
  BY <1>2 DEF ElementStart, Starts

(* The header comes first, each sub-element right behind the one before    *)
(* it.                                                                     *)
LEMMA ElementsAre ==
  /\ Len(Skipped) \in Nat /\ DOMAIN ElementStart = 1 .. Len(Skipped) + 1
  /\ ElementStart[1] = HeaderLen
  /\ \A i \in 1 .. Len(Skipped) : ElementStart[i + 1] = ElementStart[i] + SubLen + ElementLen(i)
<1>1. Len(Skipped) \in Nat
  BY FileAssumption
<1>2. DOMAIN ElementStart = 1 .. Len(Skipped) + 1
      /\ \A i \in 1 .. Len(Skipped) + 1 :
           ElementStart[i] = IF i = 1 THEN HeaderLen
                             ELSE ElementStart[i - 1] + SubLen + ElementLen(i - 1)
  BY ElementStartIs DEF Starts
<1>3. ASSUME NEW i \in 1 .. Len(Skipped)
      PROVE  ElementStart[i + 1] = ElementStart[i] + SubLen + ElementLen(i)
  <2>1. i + 1 \in 1 .. Len(Skipped) + 1 /\ i + 1 # 1 /\ (i + 1) - 1 = i
    BY <1>1
  <2> QED
    BY <1>2, <2>1
<1>4. 1 \in 1 .. Len(Skipped) + 1
  BY <1>1
<1> QED
  BY <1>1, <1>2, <1>3, <1>4

(* All of them start at an offset.                                         *)
LEMMA ElementIsNat == \A j \in DOMAIN ElementStart : ElementStart[j] \in Nat
<1> DEFINE S == {m \in Nat : m + 1 \in DOMAIN ElementStart => ElementStart[m + 1] \in Nat}
<1>0. /\ Len(Skipped) \in Nat /\ HeaderLen \in Nat /\ SubLen \in Nat
      /\ DOMAIN ElementStart = 1 .. Len(Skipped) + 1
      /\ ElementStart[1] = HeaderLen
      /\ \A i \in 1 .. Len(Skipped) : ElementStart[i + 1] = ElementStart[i] + SubLen + ElementLen(i)
  BY ElementsAre, FileAssumption
<1>1. 0 \in S
  BY <1>0
<1>2. ASSUME NEW m \in Nat, m \in S
      PROVE  m + 1 \in S
  <2> SUFFICES ASSUME (m + 1) + 1 \in DOMAIN ElementStart
               PROVE  ElementStart[(m + 1) + 1] \in Nat
    OBVIOUS
  <2>1. m + 1 \in 1 .. Len(Skipped) /\ m + 1 \in DOMAIN ElementStart
    BY <1>0
  <2>2. ElementStart[m + 1] \in Nat
    BY <1>2, <2>1
  <2>3. ElementLen(m + 1) \in Nat
    BY ElementLenIs
  <2> QED
    BY <1>0, <2>1, <2>2, <2>3
<1> HIDE DEF S
<1>3. \A m \in Nat : m \in S
  BY <1>1, <1>2, Induction
<1>4. ASSUME NEW j \in DOMAIN ElementStart
      PROVE  ElementStart[j] \in Nat
  <2>1. j - 1 \in Nat /\ (j - 1) + 1 = j
    BY <1>0
  <2>2. j - 1 \in S
    BY <1>3, <2>1
  <2> QED
    BY <2>1, <2>2 DEF S
<1> QED
  BY <1>4

(* Every sub-element starts behind those before it.                        *)
LEMMA ElementsFollow ==
  \A j \in DOMAIN ElementStart :
     /\ ElementStart[j] \in Nat /\ ElementStart[j] >= HeaderLen
     /\ \A i \in 1 .. j - 1 : ElementStart[i] + SubLen <= ElementStart[j]
<1> DEFINE Good(j) == /\ ElementStart[j] \in Nat /\ ElementStart[j] >= HeaderLen
                      /\ \A i \in 1 .. j - 1 : ElementStart[i] + SubLen <= ElementStart[j]
           S == {m \in Nat : m + 1 \in DOMAIN ElementStart => Good(m + 1)}
<1>0. /\ Len(Skipped) \in Nat /\ HeaderLen \in Nat /\ SubLen \in Nat
      /\ DOMAIN ElementStart = 1 .. Len(Skipped) + 1
      /\ ElementStart[1] = HeaderLen
      /\ \A i \in 1 .. Len(Skipped) : ElementStart[i + 1] = ElementStart[i] + SubLen + ElementLen(i)
  BY ElementsAre, FileAssumption
<1>1. 0 \in S
  <2>1. Good(1)
    BY <1>0
  <2> QED
    BY <2>1
<1>2. ASSUME NEW m \in Nat, m \in S
      PROVE  m + 1 \in S
  <2> SUFFICES ASSUME (m + 1) + 1 \in DOMAIN ElementStart
               PROVE  Good((m + 1) + 1)
    OBVIOUS
  <2>1. m + 1 \in 1 .. Len(Skipped) /\ m + 1 \in DOMAIN ElementStart
    BY <1>0
  <2>2. Good(m + 1)
    BY <1>2, <2>1
  <2>3. ElementLen(m + 1) \in Nat
    BY ElementLenIs
  <2>4. ElementStart[(m + 1) + 1] = ElementStart[m + 1] + SubLen + ElementLen(m + 1)
    BY <1>0, <2>1
  <2>5. ElementStart[(m + 1) + 1] \in Nat /\ ElementStart[(m + 1) + 1] >= ElementStart[m + 1] + SubLen
    BY <1>0, <2>2, <2>3, <2>4
  <2>6. ASSUME NEW i \in 1 .. ((m + 1) + 1) - 1
        PROVE  ElementStart[i] + SubLen <= ElementStart[(m + 1) + 1]
    <3>1. CASE i = m + 1
      BY <2>5, <3>1
    <3>2. CASE i # m + 1
      <4>1. i \in 1 .. (m + 1) - 1 /\ i \in 1 .. Len(Skipped) + 1
        BY <1>0, <2>1, <3>2
      <4>2. ElementStart[i] + SubLen <= ElementStart[m + 1]
        BY <2>2, <4>1
      <4>3. ElementStart[i] \in Nat
        BY <1>0, <4>1, <4>2, ElementIsNat
      <4> QED
        BY <1>0, <2>2, <2>5, <4>2, <4>3
    <3> QED
      BY <3>1, <3>2
  <2> QED
    BY <1>0, <2>2, <2>5, <2>6
<1> HIDE DEF S
<1>3. \A m \in Nat : m \in S
  BY <1>1, <1>2, Induction
<1>4. ASSUME NEW j \in DOMAIN ElementStart
      PROVE  Good(j)
  <2>1. j - 1 \in Nat /\ (j - 1) + 1 = j
    BY <1>0
  <2>2. j - 1 \in S
    BY <1>3, <2>1
  <2> QED
    BY <2>1, <2>2 DEF S
<1> QED
  BY <1>4

(* The layout of the file: header, sub-elements, and the image to its end; *)
(* no two sub-elements start at the same offset.                           *)
LEMMA FileIs ==
  /\ BinStart \in Nat /\ BinStart > HeaderLen /\ TotalSize \in Nat /\ TotalSize = BinStart + BinSize
  /\ BinSize \in Nat \ {0} /\ HeaderLen \in Nat \ {0}
  /\ Len(Skipped) + 1 \in DOMAIN ElementStart
  /\ ElementStart[Len(Skipped) + 1] + SubLen = BinStart
  /\ \A i \in DOMAIN ElementStart :
        /\ ElementStart[i] \in Nat /\ HeaderLen <= ElementStart[i]
        /\ ElementStart[i] + SubLen <= BinStart
  /\ \A i, j \in DOMAIN ElementStart : ElementStart[i] = ElementStart[j] => i = j
<1>0. /\ Len(Skipped) \in Nat /\ HeaderLen \in Nat \ {0} /\ SubLen \in Nat \ {0}
      /\ DOMAIN ElementStart = 1 .. Len(Skipped) + 1
  BY ElementsAre, FileAssumption
<1>1. BinSize \in Nat \ {0}
  BY BinSizeIs
<1>2. \A j \in DOMAIN ElementStart :
         /\ ElementStart[j] \in Nat /\ ElementStart[j] >= HeaderLen
         /\ \A i \in 1 .. j - 1 : ElementStart[i] + SubLen <= ElementStart[j]
  BY ElementsFollow
<1>3. Len(Skipped) + 1 \in DOMAIN ElementStart /\ BinStart = ElementStart[Len(Skipped) + 1] + SubLen
  BY <1>0 DEF BinStart
<1>4. BinStart \in Nat /\ BinStart > HeaderLen
  BY <1>0, <1>2, <1>3
<1>5. ASSUME NEW i \in DOMAIN ElementStart
      PROVE  ElementStart[i] + SubLen <= BinStart
  <2>1. CASE i = Len(Skipped) + 1
    BY <1>2, <1>3, <2>1, <1>0
  <2>2. CASE i # Len(Skipped) + 1
    <3>1. i \in 1 .. (Len(Skipped) + 1) - 1
      BY <1>0, <2>2
    <3>2. ElementStart[i] + SubLen <= ElementStart[Len(Skipped) + 1]
      BY <1>2, <1>3, <3>1
    <3> QED
      BY <1>0, <1>2, <1>3, <3>2
  <2> QED
    BY <2>1, <2>2
<1>6. ASSUME NEW i \in DOMAIN ElementStart, NEW j \in DOMAIN ElementStart,
             ElementStart[i] = ElementStart[j]
      PROVE  i = j
  <2>1. i \in Nat /\ j \in Nat /\ i >= 1 /\ j >= 1
    BY <1>0
  <2>2. CASE i < j
    <3>1. i \in 1 .. j - 1
      BY <2>1, <2>2
    <3> QED
      BY <1>0, <1>2, <1>6, <3>1
  <2>3. CASE j < i
    <3>1. j \in 1 .. i - 1
      BY <2>1, <2>3
    <3> QED
      BY <1>0, <1>2, <1>6, <3>1
  <2> QED
    BY <2>1, <2>2, <2>3
<1>7. TotalSize = BinStart + BinSize
  BY DEF TotalSize
<1> QED
  BY <1>0, <1>1, <1>2, <1>3, <1>4, <1>5, <1>6, <1>7

(* A turn of the loop of Parse, and all of them as a function g of how     *)
(* many were taken: the n-th turn leaves the parser as it is when the      *)
(* block is used up, or when the turn before it copied nothing or failed.  *)
Turn(t, n, block, downloading, sync, fault) ==
  IF Left(t, block) = 0 \/ (n > 1 /\ (t.copied = 0 \/ ~ t.ok)) THEN t
  ELSE ParseOnce(t, block, downloading, sync, fault)
Turns(g, m, s, block, downloading, sync, fault) ==
  g = [n \in 0 .. m |-> IF n = 0 THEN s ELSE Turn(g[n - 1], n, block, downloading, sync, fault)]

(* Any number of turns can be taken: the recursion of Parse is sound.      *)
LEMMA TurnsExist ==
  ASSUME NEW s, NEW block, NEW downloading, NEW sync, NEW fault
  PROVE  \A m \in Nat : \E g : Turns(g, m, s, block, downloading, sync, fault)
<1> DEFINE S == {m \in Nat : \E g : Turns(g, m, s, block, downloading, sync, fault)}
<1>1. 0 \in S
  <2>1. Turns([n \in 0 .. 0 |-> s], 0, s, block, downloading, sync, fault)
    BY DEF Turns
  <2> QED
    BY <2>1
<1>2. ASSUME NEW m \in Nat, m \in S
      PROVE  m + 1 \in S
  <2>1. PICK g : Turns(g, m, s, block, downloading, sync, fault)
    BY <1>2
  <2> DEFINE h == [n \in 0 .. m + 1 |->
                     IF n = 0 THEN s ELSE Turn(g[n - 1], n, block, downloading, sync, fault)]
  <2>2. \A n \in 0 .. m : h[n] = g[n]
    <3> SUFFICES ASSUME NEW n \in 0 .. m
                 PROVE  h[n] = g[n]
      OBVIOUS
    <3>1. g[n] = IF n = 0 THEN s ELSE Turn(g[n - 1], n, block, downloading, sync, fault)
      BY <2>1 DEF Turns
    <3> QED
      BY <3>1
  <2>3. \A n \in 0 .. m + 1 : n # 0 => n - 1 \in 0 .. m
    OBVIOUS
  <2>4. Turns(h, m + 1, s, block, downloading, sync, fault)
    BY <2>2, <2>3 DEF Turns
  <2> HIDE DEF h
  <2> QED
    BY <2>4
<1> HIDE DEF S
<1>3. \A m \in Nat : m \in S
  BY <1>1, <1>2, Induction
<1> QED
  BY <1>3 DEF S

(* Parse is where the last turn of the loop leads.                         *)
LEMMA ParseIs ==
  ASSUME NEW s, NEW block, NEW downloading, NEW sync, NEW fault, block.len \in Nat
  PROVE  \E g : /\ Turns(g, block.len, s, block, downloading, sync, fault)
                /\ Parse(s, block, downloading, sync, fault) = g[block.len]
<1> DEFINE turn[n \in 0 .. block.len] ==
             IF n = 0 THEN s
             ELSE LET t == turn[n - 1] IN
                  IF Left(t, block) = 0 \/ (n > 1 /\ (t.copied = 0 \/ ~ t.ok)) THEN t
                  ELSE ParseOnce(t, block, downloading, sync, fault)
<1>1. Parse(s, block, downloading, sync, fault) = turn[block.len]
  BY DEF Parse
<1>2. \E g : Turns(g, block.len, s, block, downloading, sync, fault)
  BY TurnsExist
<1>3. Turns(turn, block.len, s, block, downloading, sync, fault)
  BY <1>2 DEF Turns, Turn
<1> QED
  BY <1>1, <1>3

(* The records of the library.  A byte of a file is its version and its    *)
(* offset; the other definitions are the values the fields of ota_ctx, of  *)
(* the DFU targets, of the resume state and of the library have.           *)
FileByte == Versions \X Nat
IsContext(c) ==
  /\ DOMAIN c = DOMAIN ResetContext
  /\ c.ota_header_fill_level \in Nat /\ c.ota_subelement_fill_level \in Nat
  /\ c.ota_image_processed \in Nat /\ c.ota_header_size \in Nat
  /\ c.total_size \in Nat /\ c.bin_size \in Nat
  /\ c.target_file_version \in Versions \cup {None}
  /\ c.stream_carry_offset \in Nat /\ c.stream_carry \in Seq(FileByte)
IsDfu(d) ==
  /\ DOMAIN d = {"data", "ready", "images_to_download"}
  /\ d.data \in Seq(FileByte) /\ d.images_to_download \subseteq ImageEnds
  /\ d.ready = TRUE \/ d.ready = FALSE
IsResumeState(s) ==
  /\ DOMAIN s = {"target_file_version", "target_file_size", "ota_header_size",
                 "ota_image_processed", "bin_size"}
  /\ s.target_file_version \in Versions /\ s.target_file_size = TotalSize
  /\ s.ota_header_size = HeaderLen /\ HeaderLen + s.ota_image_processed = BinStart
  /\ s.bin_size = BinSize /\ s.ota_image_processed \in Nat
IsLibrary(l) ==
  /\ IsContext(l.ota_ctx) /\ IsDfu(l.dfu)
  /\ l.saved # None => IsResumeState(l.saved)
  /\ l.loaded = TRUE \/ l.loaded = FALSE

(* Where the parser is.  No byte has reached the targets before the image. *)
InMandatory(c) ==
  /\ c.mandatory_header_finished = FALSE /\ c.process_optional_header = FALSE
  /\ c.process_subelement_header = FALSE /\ c.process_bin_image = FALSE
  /\ c.ota_header_fill_level < MandatoryLen
  /\ c.ota_subelement_fill_level = 0 /\ c.ota_image_processed = 0
  /\ c.stream_carry = <<>>
InOptional(c) ==
  /\ c.mandatory_header_finished = TRUE /\ c.process_optional_header = TRUE
  /\ c.process_subelement_header = FALSE /\ c.process_bin_image = FALSE
  /\ c.ota_header_size = HeaderLen /\ c.total_size = TotalSize
  /\ c.ota_header_fill_level < HeaderLen
  /\ c.ota_subelement_fill_level = 0 /\ c.ota_image_processed = 0
  /\ c.stream_carry = <<>>
InHeader(c) ==
  /\ c.mandatory_header_finished = TRUE /\ c.process_optional_header = FALSE
  /\ c.process_subelement_header = TRUE /\ c.process_bin_image = FALSE
  /\ c.ota_header_size = HeaderLen /\ c.total_size = TotalSize
  /\ c.ota_header_fill_level = HeaderLen
  /\ c.ota_subelement_fill_level < SubLen
  /\ \E i \in DOMAIN ElementStart : HeaderLen + c.ota_image_processed = ElementStart[i]
  /\ c.stream_carry = <<>>
InImage(c, len) ==
  /\ c.mandatory_header_finished = TRUE /\ c.process_optional_header = FALSE
  /\ c.process_subelement_header = FALSE /\ c.process_bin_image = TRUE
  /\ c.ota_header_size = HeaderLen /\ c.total_size = TotalSize /\ c.bin_size = BinSize
  /\ c.ota_header_fill_level = HeaderLen
  /\ c.ota_subelement_fill_level = 0
  /\ HeaderLen + c.ota_image_processed = BinStart
  /\ Len(c.stream_carry) < Align
  /\ len + Len(c.stream_carry) < BinSize
  /\ c.stream_carry = <<>> \/ c.stream_carry_offset = len
AtEnd(c, len) ==
  /\ c.process_optional_header = FALSE /\ c.process_bin_image = FALSE
  /\ c.mandatory_header_finished = c.process_subelement_header
  /\ c.total_size = TotalSize
  /\ c.ota_header_fill_level = HeaderLen
  /\ c.ota_subelement_fill_level = 0
  /\ HeaderLen + c.ota_image_processed = TotalSize
  /\ len = BinSize
  /\ c.stream_carry = <<>>
Place(c, len) ==
  InMandatory(c) \/ InOptional(c) \/ InHeader(c) \/ InImage(c, len) \/ AtEnd(c, len)

(* q holds the bytes of version v from position on.                        *)
From(q, v, position) == \A i \in 1 .. Len(q) : q[i] = <<v, position + i - 1>>

(* All bytes of the library are of version v, as is the file it expects    *)
(* and the resume state it saved.                                          *)
OfVersion(l, v) ==
  /\ From(l.dfu.data, v, BinStart)
  /\ From(l.ota_ctx.stream_carry, v, BinStart + l.ota_ctx.stream_carry_offset)
  /\ l.ota_ctx.target_file_version \in {v, None}
  /\ l.saved # None => l.saved.target_file_version = v

(* The images that are not whole yet are among those to download.          *)
Missing(dfu) == {e \in ImageEnds : e > Len(dfu.data)} \subseteq dfu.images_to_download

(* The library between two blocks.                                         *)
LibraryOK(l) ==
  /\ DOMAIN l = {"ota_ctx", "dfu", "saved", "loaded"} /\ IsLibrary(l)
  /\ Place(l.ota_ctx, Len(l.dfu.data))
  /\ Len(l.dfu.data) <= BinSize
  /\ l.loaded = TRUE => /\ l.ota_ctx.target_file_version # None
                        /\ l.ota_ctx.total_size = TotalSize
  /\ l.loaded = TRUE \/ l.dfu.ready = TRUE => Missing(l.dfu)

(* The requests the network may hold.                                      *)
Requests ==
  {[name |-> "query"]} \cup {Request(v, o) : v \in Versions \cup {None}, o \in 0 .. TotalSize}
    \cup {[name |-> "end", version |-> v] : v \in Versions}

(* While the client downloads, the offset it asks for is the one the       *)
(* library stands at, unless the library was aborted behind its back, and  *)
(* no byte is in the targets before the image began.                       *)
Downloading(s) ==
  s.cli.image_status = "DOWNLOADING" =>
    /\ s.cli.file_offset \in 0 .. TotalSize - 1
    /\ \/ s.cli.file_offset = ota_file_offset(s.lib)
       \/ s.lib.ota_ctx.target_file_version = None /\ ota_file_offset(s.lib) = 0
    /\ s.lib.ota_ctx.process_bin_image = FALSE => s.lib.dfu.data = <<>>
    /\ s.cli.ota_dfv # None => s.cli.download_file_size = TotalSize

(* Client and library are busy with one version.                           *)
OneVersion(s) ==
  \E v \in Versions : OfVersion(s.lib, v) /\ s.cli.ota_dfv \in {v, None}

(* What may be scheduled is a whole image: the targets are empty, or the   *)
(* images not yet whole are known to be missing, or the client will not    *)
(* schedule any.                                                           *)
Schedulable(s) ==
  \/ s.lib.dfu.data = <<>>
  \/ Missing(s.lib.dfu)
  \/ s.cli.ota_dfv = None /\ s.cli.finish_alarms = 0

-------------------------------------------------------------------------------
(* The parser *)

(* The library in the middle of a block: what it consumed of the block,    *)
(* what its last routine copied, and whether all went well.                *)
IsParser(p) ==
  /\ DOMAIN p = {"ota_ctx", "dfu", "saved", "loaded", "consumed", "copied", "ok"}
  /\ IsLibrary(p)
  /\ p.consumed \in Nat /\ p.copied \in Nat /\ (p.ok = TRUE \/ p.ok = FALSE)

(* What holds of the library at any moment of the parsing, for the version *)
(* v of the blocks.                                                        *)
Consistent(p, v) ==
  /\ OfVersion(p, v)
  /\ Len(p.dfu.data) <= BinSize
  /\ p.loaded = TRUE => /\ p.ota_ctx.target_file_version # None
                        /\ p.ota_ctx.total_size = TotalSize
  /\ p.loaded = TRUE \/ p.dfu.ready = TRUE \/ p.dfu.data # <<>> => Missing(p.dfu)

(* Bytes reach the targets only in the image or at its end.                *)
Fresh(p) ==
  p.dfu.data = <<>> \/ p.ota_ctx.process_bin_image = TRUE
    \/ AtEnd(p.ota_ctx, Len(p.dfu.data))

(* The context, and the library, after ota_dfu_cancel.                     *)
IsReset(c) ==
  /\ c.ota_header_fill_level = 0 /\ c.ota_subelement_fill_level = 0
  /\ c.ota_image_processed = 0 /\ c.total_size = 0
  /\ c.mandatory_header_finished = FALSE /\ c.process_optional_header = FALSE
  /\ c.process_subelement_header = FALSE /\ c.process_bin_image = FALSE
  /\ c.target_file_version = None /\ c.stream_carry = <<>>
WasRefused(p) ==
  /\ IsReset(p.ota_ctx) /\ p.dfu.data = <<>> /\ p.dfu.ready = FALSE
  /\ p.saved = None /\ p.loaded = FALSE

(* A routine that only moves on in the headers.                            *)
Moves(p, t) ==
  /\ t.dfu = p.dfu /\ t.saved = p.saved /\ t.loaded = p.loaded /\ t.ok = p.ok
  /\ t.ota_ctx.target_file_version = p.ota_ctx.target_file_version
  /\ t.ota_ctx.stream_carry = p.ota_ctx.stream_carry
  /\ t.ota_ctx.stream_carry_offset = p.ota_ctx.stream_carry_offset
  /\ t.ota_ctx.total_size = p.ota_ctx.total_size \/ t.ota_ctx.total_size = TotalSize

(* The fields of ota_ctx.                                                  *)
LEMMA ContextFields ==
  /\ "ota_header_fill_level" \in DOMAIN ResetContext
  /\ "ota_subelement_fill_level" \in DOMAIN ResetContext
  /\ "ota_image_processed" \in DOMAIN ResetContext
  /\ "mandatory_header_finished" \in DOMAIN ResetContext
  /\ "process_optional_header" \in DOMAIN ResetContext
  /\ "process_subelement_header" \in DOMAIN ResetContext
  /\ "process_bin_image" \in DOMAIN ResetContext
  /\ "ota_header_size" \in DOMAIN ResetContext
  /\ "total_size" \in DOMAIN ResetContext
  /\ "bin_size" \in DOMAIN ResetContext
  /\ "target_file_version" \in DOMAIN ResetContext
  /\ "stream_carry_offset" \in DOMAIN ResetContext
  /\ "stream_carry" \in DOMAIN ResetContext
BY DEF ResetContext

(* d differs from c in the fields of F only.                               *)
Same(d, c, F) == \A f \in DOMAIN ResetContext : f \in F \/ d[f] = c[f]

(* The offset behind what was read of the headers, or of the image.        *)
LEMMA OffsetIs ==
  ASSUME NEW l, NEW c, l.ota_ctx = c, IsContext(c), Len(l.dfu.data) \in Nat
  PROVE  /\ c.process_bin_image = FALSE =>
              ota_file_offset(l) = c.ota_header_fill_level + c.ota_subelement_fill_level
                                     + c.ota_image_processed
         /\ c.process_bin_image = TRUE =>
              ota_file_offset(l) = c.ota_header_fill_level + c.ota_subelement_fill_level
                                     + c.ota_image_processed
                                     + (Len(l.dfu.data) + Len(c.stream_carry))
         /\ Len(c.stream_carry) \in Nat /\ ota_file_offset(l) \in Nat
<1>1. /\ c.ota_header_fill_level \in Nat /\ c.ota_subelement_fill_level \in Nat
      /\ c.ota_image_processed \in Nat /\ Len(c.stream_carry) \in Nat
  BY DEF IsContext
<1> DEFINE more == IF c.process_bin_image THEN Len(l.dfu.data) + Len(c.stream_carry) ELSE 0
<1>2. ota_file_offset(l) = c.ota_header_fill_level + c.ota_subelement_fill_level
                             + c.ota_image_processed + more
  BY DEF ota_file_offset
<1>3. c.process_bin_image = FALSE => more = 0
  OBVIOUS
<1>4. c.process_bin_image = TRUE => more = Len(l.dfu.data) + Len(c.stream_carry)
  OBVIOUS
<1>7. more \in Nat
  <2>1. more = Len(l.dfu.data) + Len(c.stream_carry) \/ more = 0
    OBVIOUS
  <2> DEFINE a == Len(l.dfu.data)
             b == Len(c.stream_carry)
  <2>2. a \in Nat /\ b \in Nat /\ (more = a + b \/ more = 0)
    BY <1>1, <2>1
  <2> HIDE DEF a, b, more
  <2> QED
    BY ONLY <2>2
<1> HIDE DEF more
<1>5. ASSUME c.process_bin_image = FALSE
      PROVE  ota_file_offset(l) = c.ota_header_fill_level + c.ota_subelement_fill_level
                                    + c.ota_image_processed
  BY <1>1, <1>2, <1>3, <1>5
<1>6. ASSUME c.process_bin_image = TRUE
      PROVE  ota_file_offset(l) = c.ota_header_fill_level + c.ota_subelement_fill_level
                                    + c.ota_image_processed
                                    + (Len(l.dfu.data) + Len(c.stream_carry))
  BY <1>1, <1>2, <1>4, <1>6
<1>8. ota_file_offset(l) \in Nat
  BY <1>1, <1>2, <1>7
<1> QED
  BY <1>1, <1>5, <1>6, <1>8

(* A parser's state with another context.                                  *)
Moved(p, c, m, n) == [p EXCEPT !.ota_ctx = c, !.consumed = m, !.copied = n]
LEMMA MovedIs ==
  ASSUME NEW p, IsParser(p), NEW c, IsContext(c), NEW m \in Nat, NEW n \in Nat
  PROVE  /\ IsParser(Moved(p, c, m, n))
         /\ Moved(p, c, m, n).ota_ctx = c /\ Moved(p, c, m, n).consumed = m
         /\ Moved(p, c, m, n).copied = n
         /\ Moved(p, c, m, n).dfu = p.dfu /\ Moved(p, c, m, n).saved = p.saved
         /\ Moved(p, c, m, n).loaded = p.loaded /\ Moved(p, c, m, n).ok = p.ok
BY DEF IsParser, IsLibrary, Moved

-------------------------------------------------------------------------------
(* The header of the file *)

(* The contexts the header routines leave: more of the header read, the    *)
(* mandatory header read, the optional header read.                        *)
LEMMA FillLevel ==
  ASSUME NEW c, IsContext(c), NEW n \in Nat
  PROVE  LET d == [c EXCEPT !.ota_header_fill_level = @ + n] IN
         /\ IsContext(d) /\ d.ota_header_fill_level = c.ota_header_fill_level + n
         /\ Same(d, c, {"ota_header_fill_level"})
BY ContextFields DEF IsContext, Same

MandatoryDone(c, m, n, x, y) ==
  [c EXCEPT !.mandatory_header_finished = TRUE, !.ota_header_size = m, !.total_size = n,
            !.process_optional_header = x, !.process_subelement_header = y]
LEMMA MandatoryRead ==
  ASSUME NEW c, IsContext(c), NEW m \in Nat, NEW n \in Nat, NEW x, NEW y
  PROVE  LET d == MandatoryDone(c, m, n, x, y)
         IN  /\ IsContext(d)
             /\ d.mandatory_header_finished = TRUE
             /\ d.ota_header_size = m /\ d.total_size = n
             /\ d.process_optional_header = x /\ d.process_subelement_header = y
             /\ Same(d, c, {"mandatory_header_finished", "ota_header_size", "total_size",
                            "process_optional_header", "process_subelement_header"})
BY ContextFields DEF IsContext, Same, MandatoryDone

LEMMA OptionalRead ==
  ASSUME NEW c, IsContext(c)
  PROVE  LET d == [c EXCEPT !.process_optional_header = FALSE, !.process_subelement_header = TRUE]
         IN  /\ IsContext(d)
             /\ d.process_optional_header = FALSE /\ d.process_subelement_header = TRUE
             /\ Same(d, c, {"process_optional_header", "process_subelement_header"})
BY ContextFields DEF IsContext, Same

(* Behind the header there is the first sub-element.                       *)
LEMMA FirstElement ==
  ASSUME NEW c, c.mandatory_header_finished = TRUE, c.process_optional_header = FALSE,
         c.process_subelement_header = TRUE, c.process_bin_image = FALSE,
         c.ota_header_size = HeaderLen, c.total_size = TotalSize,
         c.ota_header_fill_level = HeaderLen, c.ota_subelement_fill_level = 0,
         c.ota_image_processed = 0, c.stream_carry = <<>>
  PROVE  InHeader(c)
<1>1. 1 \in DOMAIN ElementStart /\ HeaderLen + 0 = ElementStart[1] /\ 0 < SubLen
  BY ElementsAre, FileAssumption
<1> QED
  BY <1>1 DEF InHeader

(* ota_process_mandatory_header takes what the block holds of the header   *)
(* and leaves the library in the mandatory header, if the block ends       *)
(* there, or behind it.                                                    *)
LEMMA MandatoryHeader ==
  ASSUME NEW p, IsParser(p), NEW block, block.len \in Nat, p.consumed <= block.len,
         InMandatory(p.ota_ctx)
  PROVE  LET t == ota_process_mandatory_header(p, block)
             n == t.consumed - p.consumed
         IN  /\ IsParser(t) /\ Moves(p, t)
             /\ n \in Nat /\ t.consumed <= block.len
             /\ p.consumed < block.len => n > 0
             /\ ota_file_offset(t) = ota_file_offset(p) + n
             /\ \/ t.consumed = block.len /\ InMandatory(t.ota_ctx)
                \/ InOptional(t.ota_ctx)
                \/ InHeader(t.ota_ctx)
<1> DEFINE c == p.ota_ctx
           n == Smaller(MandatoryLen - c.ota_header_fill_level, Left(p, block))
           fill == c.ota_header_fill_level + n
           d == [c EXCEPT !.ota_header_fill_level = @ + n]
           opt == HeaderLen > MandatoryLen
           sub == HeaderLen = MandatoryLen
           e == MandatoryDone(d, HeaderLen, TotalSize, opt, sub)
           x == IF fill < MandatoryLen THEN d ELSE e
           m == p.consumed + n
           t == ota_process_mandatory_header(p, block)
<1>0. /\ IsContext(c) /\ p.consumed \in Nat /\ MandatoryLen \in Nat \ {0}
      /\ HeaderLen \in Nat /\ HeaderLen >= MandatoryLen /\ TotalSize \in Nat
  BY FileAssumption, FileIs DEF IsParser, IsLibrary
<1>1. /\ n \in Nat /\ p.consumed + n <= block.len
      /\ p.consumed < block.len => n > 0
      /\ fill < MandatoryLen => p.consumed + n = block.len
      /\ fill <= MandatoryLen /\ fill \in Nat
  <2>1. c.ota_header_fill_level \in Nat /\ c.ota_header_fill_level < MandatoryLen
    BY <1>0 DEF InMandatory, IsContext
  <2> QED
    BY <1>0, <2>1 DEF Smaller, Left
<1> HIDE DEF n
<1>2. /\ IsContext(d) /\ d.ota_header_fill_level = fill
      /\ Same(d, c, {"ota_header_fill_level"})
  BY <1>0, <1>1, FillLevel
<1>3. t = Moved(p, x, m, n)
  BY <1>2 DEF Moved, MandatoryDone, ota_process_mandatory_header, Consume, n, IsParser
<1> HIDE DEF d, opt, sub
<1>4. /\ IsContext(e)
      /\ e.mandatory_header_finished = TRUE
      /\ e.ota_header_size = HeaderLen /\ e.total_size = TotalSize
      /\ e.process_optional_header = opt /\ e.process_subelement_header = sub
      /\ Same(e, d, {"mandatory_header_finished", "ota_header_size", "total_size",
                     "process_optional_header", "process_subelement_header"})
  <2>1. IsContext(d) /\ HeaderLen \in Nat /\ TotalSize \in Nat
    BY ONLY <1>0, <1>2
  <2> QED
    BY ONLY <2>1, MandatoryRead
<1> HIDE DEF e, fill
<1>5. /\ IsContext(x) /\ x.ota_header_fill_level = fill
      /\ x.target_file_version = c.target_file_version
      /\ x.stream_carry = c.stream_carry /\ x.stream_carry_offset = c.stream_carry_offset
      /\ x.ota_subelement_fill_level = 0 /\ x.ota_image_processed = 0
      /\ x.process_bin_image = FALSE /\ x.stream_carry = <<>>
      /\ x.total_size = c.total_size \/ x.total_size = TotalSize
  BY <1>2, <1>4, ContextFields DEF Same, InMandatory
<1>6. \/ p.consumed + n = block.len /\ InMandatory(x)
      \/ InOptional(x)
      \/ InHeader(x)
  <2>1. CASE fill < MandatoryLen
    <3>1. InMandatory(d)
      BY <1>2, <2>1, ContextFields DEF Same, InMandatory
    <3> QED
      BY <1>1, <2>1, <3>1
  <2>2. CASE ~ (fill < MandatoryLen) /\ HeaderLen > MandatoryLen
    <3>1. opt = TRUE /\ sub = FALSE
      BY <1>0, <2>2 DEF opt, sub
    <3>2. InOptional(e)
      BY <1>0, <1>1, <1>4, <1>5, <2>2, <3>1 DEF InOptional
    <3> QED
      BY <2>2, <3>2
  <2>3. CASE ~ (fill < MandatoryLen) /\ ~ (HeaderLen > MandatoryLen)
    <3>1. opt = FALSE /\ sub = TRUE
      BY <1>0, <2>3 DEF opt, sub
    <3>2. x = e /\ fill = HeaderLen
      BY <1>0, <1>1, <2>3
    <3>3. InHeader(e)
      BY <1>4, <1>5, <3>1, <3>2, FirstElement
    <3> QED
      BY <3>2, <3>3
  <2> QED
    BY <2>1, <2>2, <2>3
<1>9. m \in Nat /\ m - p.consumed = n /\ m = p.consumed + n
  BY <1>0, <1>1
<1> HIDE DEF t, x, m
<1>7. /\ IsParser(t) /\ t.ota_ctx = x /\ t.consumed = m
      /\ t.dfu = p.dfu /\ t.saved = p.saved /\ t.loaded = p.loaded /\ t.ok = p.ok
  <2>1. IsContext(x) /\ m \in Nat /\ n \in Nat /\ t = Moved(p, x, m, n)
    BY <1>1, <1>3, <1>5, <1>9
  <2> QED
    BY ONLY <2>1, IsParser(p), MovedIs
<1>8. ota_file_offset(t) = ota_file_offset(p) + n
  <2>1. Len(t.dfu.data) \in Nat /\ Len(p.dfu.data) \in Nat
    BY <1>7 DEF IsParser, IsLibrary, IsDfu
  <2>2. ota_file_offset(t) = x.ota_header_fill_level + x.ota_subelement_fill_level
                               + x.ota_image_processed
    BY <1>5, <1>7, <2>1, OffsetIs
  <2>3. ota_file_offset(p) = c.ota_header_fill_level + c.ota_subelement_fill_level
                               + c.ota_image_processed
    BY <1>0, <2>1, OffsetIs DEF InMandatory
  <2>4. c.ota_subelement_fill_level = 0 /\ c.ota_image_processed = 0
        /\ c.ota_header_fill_level \in Nat
    BY <1>0 DEF InMandatory, IsContext
  <2> QED
    BY <1>1, <1>5, <2>2, <2>3, <2>4 DEF fill
<1> QED
  BY <1>0, <1>1, <1>5, <1>6, <1>7, <1>8, <1>9 DEF Moves, t

(* ota_process_optional_header does the same with the rest of the header.  *)
LEMMA OptionalHeader ==
  ASSUME NEW p, IsParser(p), NEW block, block.len \in Nat, p.consumed <= block.len,
         InOptional(p.ota_ctx)
  PROVE  LET t == ota_process_optional_header(p, block)
             n == t.consumed - p.consumed
         IN  /\ IsParser(t) /\ Moves(p, t)
             /\ n \in Nat /\ t.consumed <= block.len
             /\ p.consumed < block.len => n > 0
             /\ ota_file_offset(t) = ota_file_offset(p) + n
             /\ \/ t.consumed = block.len /\ InOptional(t.ota_ctx)
                \/ InHeader(t.ota_ctx)
<1> DEFINE c == p.ota_ctx
           n == Smaller(c.ota_header_size - c.ota_header_fill_level, Left(p, block))
           fill == c.ota_header_fill_level + n
           d == [c EXCEPT !.ota_header_fill_level = @ + n]
           e == [d EXCEPT !.process_optional_header = FALSE, !.process_subelement_header = TRUE]
           x == IF fill < HeaderLen THEN d ELSE e
           m == p.consumed + n
           t == ota_process_optional_header(p, block)
<1>0. /\ IsContext(c) /\ p.consumed \in Nat /\ HeaderLen \in Nat
  BY FileAssumption DEF IsParser, IsLibrary
<1>1. /\ n \in Nat /\ p.consumed + n <= block.len
      /\ p.consumed < block.len => n > 0
      /\ fill < HeaderLen => p.consumed + n = block.len
      /\ fill <= HeaderLen /\ fill \in Nat
  <2>1. c.ota_header_fill_level \in Nat /\ c.ota_header_fill_level < HeaderLen
        /\ c.ota_header_size = HeaderLen
    BY <1>0 DEF InOptional, IsContext
  <2> QED
    BY <1>0, <2>1 DEF Smaller, Left
<1>2. c.ota_header_size = HeaderLen
  BY DEF InOptional
<1> HIDE DEF n
<1>3. /\ IsContext(d) /\ d.ota_header_fill_level = fill
      /\ Same(d, c, {"ota_header_fill_level"})
  BY <1>0, <1>1, FillLevel
<1>4. d.ota_header_size = HeaderLen
  BY <1>2, <1>3, ContextFields DEF Same
<1>5. t = Moved(p, x, m, n)
  BY <1>3, <1>4 DEF Moved, ota_process_optional_header, Consume, n, IsParser
<1> HIDE DEF d
<1>6. /\ IsContext(e)
      /\ e.process_optional_header = FALSE /\ e.process_subelement_header = TRUE
      /\ Same(e, d, {"process_optional_header", "process_subelement_header"})
  BY <1>3, OptionalRead
<1> HIDE DEF e, fill
<1>7. /\ IsContext(x) /\ x.ota_header_fill_level = fill
      /\ x.target_file_version = c.target_file_version
      /\ x.stream_carry = c.stream_carry /\ x.stream_carry_offset = c.stream_carry_offset
      /\ x.ota_subelement_fill_level = 0 /\ x.ota_image_processed = 0
      /\ x.process_bin_image = FALSE /\ x.stream_carry = <<>>
      /\ x.total_size = c.total_size
  BY <1>3, <1>6, ContextFields DEF Same, InOptional
<1>8. \/ p.consumed + n = block.len /\ InOptional(x)
      \/ InHeader(x)
  <2>1. CASE fill < HeaderLen
    <3>1. InOptional(d)
      BY <1>3, <2>1, ContextFields DEF Same, InOptional
    <3> QED
      BY <1>1, <2>1, <3>1
  <2>2. CASE ~ (fill < HeaderLen)
    <3>1. x = e /\ fill = HeaderLen
      BY <1>0, <1>1, <2>2
    <3>2. /\ e.mandatory_header_finished = TRUE /\ e.ota_header_size = HeaderLen
          /\ e.total_size = TotalSize
      BY <1>3, <1>6, ContextFields DEF Same, InOptional
    <3>3. InHeader(e)
      BY <1>6, <1>7, <3>1, <3>2, FirstElement
    <3> QED
      BY <3>1, <3>3
  <2> QED
    BY <2>1, <2>2
<1>9. m \in Nat /\ m - p.consumed = n /\ m = p.consumed + n
  BY <1>0, <1>1
<1> HIDE DEF t, x, m
<1>10. /\ IsParser(t) /\ t.ota_ctx = x /\ t.consumed = m
       /\ t.dfu = p.dfu /\ t.saved = p.saved /\ t.loaded = p.loaded /\ t.ok = p.ok
  <2>1. IsContext(x) /\ m \in Nat /\ n \in Nat /\ t = Moved(p, x, m, n)
    BY <1>1, <1>5, <1>7, <1>9
  <2> QED
    BY ONLY <2>1, IsParser(p), MovedIs
<1>11. ota_file_offset(t) = ota_file_offset(p) + n
  <2>1. Len(t.dfu.data) \in Nat /\ Len(p.dfu.data) \in Nat
    BY <1>10 DEF IsParser, IsLibrary, IsDfu
  <2>2. ota_file_offset(t) = x.ota_header_fill_level + x.ota_subelement_fill_level
                               + x.ota_image_processed
    BY <1>7, <1>10, <2>1, OffsetIs
  <2>3. ota_file_offset(p) = c.ota_header_fill_level + c.ota_subelement_fill_level
                               + c.ota_image_processed
    BY <1>0, <2>1, OffsetIs DEF InOptional
  <2>4. c.ota_subelement_fill_level = 0 /\ c.ota_image_processed = 0
        /\ c.ota_header_fill_level \in Nat
    BY <1>0 DEF InOptional, IsContext
  <2> QED
    BY <1>1, <1>7, <2>2, <2>3, <2>4 DEF fill
<1> QED
  BY <1>0, <1>1, <1>7, <1>8, <1>9, <1>10, <1>11 DEF Moves, t

(* Whatever part of the header the block holds is read; behind it, at the  *)
(* image or at the end nothing is.                                         *)
LEMMA Headers ==
  ASSUME NEW p, IsParser(p), NEW block, block.len \in Nat, p.consumed = 0,
         InMandatory(p.ota_ctx) \/ InOptional(p.ota_ctx) \/ InHeader(p.ota_ctx)
           \/ InImage(p.ota_ctx, Len(p.dfu.data))
  PROVE  LET t == ParseHeaders(p, block)
         IN  /\ IsParser(t) /\ Moves(p, t)
             /\ t.consumed <= block.len
             /\ ota_file_offset(t) = ota_file_offset(p) + t.consumed
             /\ \/ t.consumed = block.len /\ (InMandatory(t.ota_ctx) \/ InOptional(t.ota_ctx))
                \/ InHeader(t.ota_ctx)
                \/ t = p /\ InImage(p.ota_ctx, Len(p.dfu.data))
<1> DEFINE q == ota_process_mandatory_header(p, block)
           h == IF p.ota_ctx.mandatory_header_finished THEN p ELSE q
           t == ParseHeaders(p, block)
<1>0. /\ p.consumed \in Nat /\ p.consumed <= block.len /\ ota_file_offset(p) \in Nat
      /\ ota_file_offset(p) + 0 = ota_file_offset(p)
  <2>1. IsContext(p.ota_ctx) /\ Len(p.dfu.data) \in Nat /\ p.consumed \in Nat
    BY DEF IsParser, IsLibrary, IsDfu
  <2>2. ota_file_offset(p) \in Nat
    BY ONLY <2>1, OffsetIs
  <2> QED
    BY <2>1, <2>2
<1>1. CASE InMandatory(p.ota_ctx)
  <2>1. h = q
    BY <1>1 DEF InMandatory
  <2>2. /\ IsParser(q) /\ Moves(p, q)
        /\ q.consumed - p.consumed \in Nat /\ q.consumed <= block.len
        /\ ota_file_offset(q) = ota_file_offset(p) + (q.consumed - p.consumed)
        /\ \/ q.consumed = block.len /\ InMandatory(q.ota_ctx)
           \/ InOptional(q.ota_ctx)
           \/ InHeader(q.ota_ctx)
    BY <1>0, <1>1, MandatoryHeader
  <2>3. q.consumed \in Nat /\ q.consumed - p.consumed = q.consumed
    BY <2>2 DEF IsParser
  <2>4. ota_file_offset(q) = ota_file_offset(p) + q.consumed
    BY <2>2, <2>3
  <2>5. CASE InOptional(q.ota_ctx)
    <3> DEFINE o == ota_process_optional_header(q, block)
    <3>1. t = o
      BY <2>1, <2>5 DEF ParseHeaders, InOptional
    <3>2. /\ IsParser(o) /\ Moves(q, o)
          /\ o.consumed - q.consumed \in Nat /\ o.consumed <= block.len
          /\ ota_file_offset(o) = ota_file_offset(q) + (o.consumed - q.consumed)
          /\ \/ o.consumed = block.len /\ InOptional(o.ota_ctx)
             \/ InHeader(o.ota_ctx)
      BY <2>2, <2>5, OptionalHeader
    <3>3. o.consumed \in Nat
      BY <3>2 DEF IsParser
    <3>4. ota_file_offset(o) = ota_file_offset(p) + o.consumed
      BY <1>0, <2>3, <2>4, <3>2, <3>3
    <3>5. Moves(p, o)
      BY <2>2, <3>2 DEF Moves
    <3> QED
      BY <3>1, <3>2, <3>4, <3>5
  <2>6. CASE ~ InOptional(q.ota_ctx)
    <3>1. t = q
      BY <2>1, <2>2, <2>6 DEF ParseHeaders, InMandatory, InHeader
    <3> QED
      BY <2>2, <2>4, <2>6, <3>1
  <2> QED
    BY <2>5, <2>6
<1>2. CASE InOptional(p.ota_ctx)
  <2> DEFINE o == ota_process_optional_header(p, block)
  <2>1. t = o
    BY <1>2 DEF ParseHeaders, InOptional
  <2>2. /\ IsParser(o) /\ Moves(p, o)
        /\ o.consumed - p.consumed \in Nat /\ o.consumed <= block.len
        /\ ota_file_offset(o) = ota_file_offset(p) + (o.consumed - p.consumed)
        /\ \/ o.consumed = block.len /\ InOptional(o.ota_ctx)
           \/ InHeader(o.ota_ctx)
    BY <1>0, <1>2, OptionalHeader
  <2>3. o.consumed \in Nat /\ o.consumed - p.consumed = o.consumed
    BY <2>2 DEF IsParser
  <2> QED
    BY <2>1, <2>2, <2>3
<1>3. CASE InHeader(p.ota_ctx) \/ InImage(p.ota_ctx, Len(p.dfu.data))
  <2>1. t = p
    BY <1>3 DEF ParseHeaders, InHeader, InImage
  <2> HIDE DEF t
  <2>2. t.consumed = 0 /\ t.consumed <= block.len
        /\ ota_file_offset(t) = ota_file_offset(p) + t.consumed
    BY <1>0, <2>1
  <2>3. Moves(p, t) /\ IsParser(t)
    BY <2>1 DEF Moves
  <2>4. InHeader(t.ota_ctx) \/ (t = p /\ InImage(p.ota_ctx, Len(p.dfu.data)))
    BY <1>3, <2>1
  <2> QED
    BY ONLY <2>2, <2>3, <2>4 DEF t
<1> QED
  BY <1>1, <1>2, <1>3

-------------------------------------------------------------------------------
(* The DFU targets *)

(* Sequences of bytes of a file: the empty one, one behind the other, a    *)
(* part, and those of a block.                                             *)
LEMMA FromNothing == ASSUME NEW v, NEW n PROVE From(<<>>, v, n)
BY DEF From

LEMMA FromConcat ==
  ASSUME NEW q \in Seq(FileByte), NEW r \in Seq(FileByte), NEW v, NEW n \in Nat,
         From(q, v, n), From(r, v, n + Len(q))
  PROVE  /\ q \o r \in Seq(FileByte) /\ Len(q \o r) = Len(q) + Len(r)
         /\ From(q \o r, v, n)
<1>1. q \o r \in Seq(FileByte) /\ Len(q \o r) = Len(q) + Len(r) /\ Len(q) \in Nat /\ Len(r) \in Nat
  OBVIOUS
<1>2. ASSUME NEW i \in 1 .. Len(q \o r)
      PROVE  (q \o r)[i] = <<v, n + i - 1>>
  <2>1. CASE i <= Len(q)
    <3>1. (q \o r)[i] = q[i] /\ i \in 1 .. Len(q)
      BY <1>1, <2>1
    <3> QED
      BY <3>1 DEF From
  <2>2. CASE i > Len(q)
    <3>1. (q \o r)[i] = r[i - Len(q)] /\ i - Len(q) \in 1 .. Len(r)
      BY <1>1, <2>2
    <3>2. r[i - Len(q)] = <<v, n + Len(q) + (i - Len(q)) - 1>>
      BY <3>1 DEF From
    <3>3. n + Len(q) + (i - Len(q)) - 1 = n + i - 1
      BY <1>1
    <3> QED
      BY <3>1, <3>2, <3>3
  <2> QED
    BY <1>1, <2>1, <2>2
<1> QED
  BY <1>1, <1>2 DEF From

LEMMA FromSub ==
  ASSUME NEW q \in Seq(FileByte), NEW v, NEW n \in Nat, From(q, v, n),
         NEW k \in Nat, NEW m \in Nat, k <= m, m <= Len(q)
  PROVE  /\ SubSeq(q, k + 1, m) \in Seq(FileByte) /\ Len(SubSeq(q, k + 1, m)) = m - k
         /\ From(SubSeq(q, k + 1, m), v, n + k)
<1>1. Len(SubSeq(q, k + 1, m)) = m - k /\ SubSeq(q, k + 1, m) \in Seq(FileByte) /\ Len(q) \in Nat
  OBVIOUS
<1>2. ASSUME NEW i \in 1 .. m - k
      PROVE  SubSeq(q, k + 1, m)[i] = <<v, n + k + i - 1>>
  <2>1. SubSeq(q, k + 1, m)[i] = q[k + i] /\ k + i \in 1 .. Len(q)
    BY <1>1
  <2>2. q[k + i] = <<v, n + (k + i) - 1>>
    BY <2>1 DEF From
  <2>3. n + (k + i) - 1 = n + k + i - 1
    OBVIOUS
  <2> QED
    BY <2>1, <2>2, <2>3
<1> QED
  BY <1>1, <1>2 DEF From

LEMMA BytesAre ==
  ASSUME NEW block, block.version \in Versions, block.offset \in Nat, NEW from \in Nat, NEW to \in Nat,
         from <= to
  PROVE  /\ Bytes(block, from, to) \in Seq(FileByte) /\ Len(Bytes(block, from, to)) = to - from
         /\ From(Bytes(block, from, to), block.version, block.offset + from)
<1> DEFINE q == Bytes(block, from, to)
           o == block.offset
<1>1. \A i \in 1 .. to - from : o + from + i - 1 \in Nat
  OBVIOUS
<1>2. q = [i \in 1 .. to - from |-> <<block.version, o + from + i - 1>>] /\ to - from \in Nat
  BY DEF Bytes
<1>3. q \in Seq(FileByte) /\ Len(q) = to - from
  BY <1>1, <1>2 DEF FileByte
<1> QED
  BY <1>2, <1>3 DEF From

(* Bytes written behind those before: all images they do not complete are  *)
(* still among those to download.                                          *)
LEMMA WrittenIs ==
  ASSUME NEW dfu, IsDfu(dfu), dfu.ready = TRUE, Missing(dfu), NEW v, From(dfu.data, v, BinStart),
         NEW bytes \in Seq(FileByte), NEW offset, offset = Len(dfu.data),
         From(bytes, v, BinStart + offset)
  PROVE  LET d == Written(dfu, offset, bytes) IN
         /\ IsDfu(d) /\ d.ready = TRUE /\ Missing(d)
         /\ d.data = dfu.data \o bytes /\ Len(d.data) = offset + Len(bytes)
         /\ From(d.data, v, BinStart)
<1> DEFINE q == dfu.data
           rest == SubSeq(bytes, Len(q) - offset + 1, Len(bytes))
           r == q \o bytes
           left == {e \in dfu.images_to_download : ~ (Len(q) < e /\ e <= Len(r))}
           d == Written(dfu, offset, bytes)
<1>1. q \in Seq(FileByte) /\ BinStart \in Nat /\ offset = Len(q) /\ Len(q) \in Nat
  BY FileIs DEF IsDfu
<1>2. rest = bytes
  BY <1>1
<1>3. r \in Seq(FileByte) /\ Len(r) = offset + Len(bytes) /\ From(r, v, BinStart)
  BY <1>1, FromConcat
<1>4. d = [dfu EXCEPT !.data = r, !.images_to_download = left]
  BY <1>2 DEF Written, IsDfu
<1>5. left \subseteq ImageEnds
  BY DEF IsDfu
<1>6. {e \in ImageEnds : e > Len(r)} \subseteq left
  <2>1. ASSUME NEW e \in ImageEnds, e > Len(r)
        PROVE  e \in left
    <3>1. e > Len(q)
      <4>1. e \in Nat /\ Len(bytes) \in Nat
        BY FileAssumption
      <4> QED
        BY <1>1, <1>3, <2>1, <4>1
    <3>2. e \in dfu.images_to_download
      BY <3>1 DEF Missing
    <3>3. ~ (e <= Len(r))
      BY <1>1, <1>3, <2>1, FileAssumption
    <3> QED
      BY <3>2, <3>3
  <2> QED
    BY <2>1
<1> HIDE DEF r, left, d, q
<1>7. d.data = r /\ d.images_to_download = left /\ d.ready = TRUE /\ IsDfu(d)
  BY <1>3, <1>4, <1>5 DEF IsDfu
<1> QED
  BY <1>3, <1>6, <1>7 DEF Missing, r, d, q

-------------------------------------------------------------------------------
(* A refusal *)

(* The context ota_dfu_cancel leaves, and the library it leaves.           *)
LEMMA ResetIs == IsContext(ResetContext) /\ IsReset(ResetContext)
BY DEF ResetContext, IsContext, IsReset

LEMMA CancelIs ==
  ASSUME NEW l, {"ota_ctx", "dfu", "saved", "loaded"} \subseteq DOMAIN l, IsDfu(l.dfu)
  PROVE  LET t == ota_dfu_cancel(l) IN
         /\ DOMAIN t = DOMAIN l
         /\ t.ota_ctx = ResetContext /\ t.saved = None /\ t.loaded = FALSE
         /\ IsDfu(t.dfu) /\ t.dfu.data = <<>> /\ t.dfu.ready = FALSE
         /\ \A f \in DOMAIN l \ {"ota_ctx", "dfu", "saved", "loaded"} : t[f] = l[f]
<1> DEFINE d == ResetDfu(l.dfu)
           t == ota_dfu_cancel(l)
<1>1. IsDfu(d) /\ d.data = <<>> /\ d.ready = FALSE
  BY DEF ResetDfu, IsDfu
<1>2. t = [l EXCEPT !.ota_ctx = ResetContext, !.dfu = d, !.saved = None, !.loaded = FALSE]
  BY DEF ota_dfu_cancel
<1> HIDE DEF d, t
<1> QED
  BY <1>1, <1>2 DEF t

(* A block that is refused cancels the download and reports the failure.   *)
Refusal(p, t) ==
  /\ IsParser(t) /\ WasRefused(t)
  /\ t.ok = FALSE /\ t.copied = 0 /\ t.consumed = p.consumed

LEMMA RefusedIs ==
  ASSUME NEW p, IsParser(p)
  PROVE  Refusal(p, Refused(p))
<1> DEFINE s == ota_dfu_cancel(p)
           t == Refused(p)
<1>1. IsDfu(p.dfu) /\ DOMAIN p = {"ota_ctx", "dfu", "saved", "loaded", "consumed", "copied", "ok"}
      /\ p.consumed \in Nat
  BY DEF IsParser, IsLibrary
<1>2. /\ DOMAIN s = {"ota_ctx", "dfu", "saved", "loaded", "consumed", "copied", "ok"}
      /\ s.ota_ctx = ResetContext /\ s.saved = None /\ s.loaded = FALSE
      /\ IsDfu(s.dfu) /\ s.dfu.data = <<>> /\ s.dfu.ready = FALSE
      /\ s.consumed = p.consumed
  <2>1. /\ DOMAIN s = DOMAIN p
        /\ s.ota_ctx = ResetContext /\ s.saved = None /\ s.loaded = FALSE
        /\ IsDfu(s.dfu) /\ s.dfu.data = <<>> /\ s.dfu.ready = FALSE
        /\ \A f \in DOMAIN p \ {"ota_ctx", "dfu", "saved", "loaded"} : s[f] = p[f]
    <3>1. {"ota_ctx", "dfu", "saved", "loaded"} \subseteq DOMAIN p
      BY <1>1
    <3> QED
      BY ONLY <1>1, <3>1, CancelIs
  <2>2. s.consumed = p.consumed
    BY ONLY <1>1, <2>1
  <2> QED
    BY ONLY <1>1, <2>1, <2>2
<1>3. t = [s EXCEPT !.copied = 0, !.ok = FALSE]
  BY DEF Refused
<1> HIDE DEF s, t
<1>4. /\ DOMAIN t = {"ota_ctx", "dfu", "saved", "loaded", "consumed", "copied", "ok"}
      /\ t.ota_ctx = ResetContext /\ t.saved = None /\ t.loaded = FALSE
      /\ IsDfu(t.dfu) /\ t.dfu.data = <<>> /\ t.dfu.ready = FALSE
      /\ t.consumed = p.consumed /\ t.ok = FALSE /\ t.copied = 0
  BY <1>2, <1>3
<1>5. Refusal(p, t)
  BY <1>1, <1>4, ResetIs DEF Refusal, IsParser, IsLibrary, WasRefused
<1> QED
  BY <1>5 DEF t


-------------------------------------------------------------------------------
(* The firmware *)

(* Once there are targets, the images not whole yet are known to be        *)
(* missing.                                                                *)
MissingKnown(p) ==
  p.loaded = TRUE \/ p.dfu.ready = TRUE \/ p.dfu.data # <<>> => Missing(p.dfu)

(* What the targets hold and what is carried to the next block.            *)
DataLen(p) == Len(p.dfu.data)
CarryLen(p) == Len(p.ota_ctx.stream_carry)

(* The bytes of the image up to reached are in the targets or carried.     *)
Streams(p, v, reached) ==
  /\ IsParser(p) /\ p.ok = TRUE
  /\ From(p.dfu.data, v, BinStart)
  /\ From(p.ota_ctx.stream_carry, v, BinStart + p.ota_ctx.stream_carry_offset)
  /\ p.ota_ctx.stream_carry # <<>> => p.ota_ctx.stream_carry_offset = DataLen(p)
  /\ CarryLen(p) < Align
  /\ reached = DataLen(p) + CarryLen(p)
  /\ MissingKnown(p)

(* These are lengths.                                                      *)
LEMMA LengthsAre ==
  ASSUME NEW p, IsParser(p)
  PROVE  /\ DataLen(p) \in Nat /\ CarryLen(p) \in Nat
         /\ p.ota_ctx.stream_carry \in Seq(FileByte) /\ p.ota_ctx.stream_carry_offset \in Nat
         /\ p.ota_ctx.stream_carry = <<>> <=> CarryLen(p) = 0
<1>1. p.ota_ctx.stream_carry \in Seq(FileByte) /\ p.dfu.data \in Seq(FileByte)
      /\ p.ota_ctx.stream_carry_offset \in Nat
  BY DEF IsParser, IsLibrary, IsContext, IsDfu
<1> QED
  BY <1>1 DEF DataLen, CarryLen

(* The sizes the image is cut into.                                        *)
LEMMA SizesAre ==
  /\ BinSize \in Nat \ {0} /\ BinStart \in Nat /\ TotalSize = BinStart + BinSize
  /\ Align \in Nat \ {0} /\ HeaderLen \in Nat /\ HeaderLen < BinStart
BY FileIs, FileAssumption

(* What writing leaves alone.                                              *)
Kept(p, t) ==
  /\ t.consumed = p.consumed /\ t.saved = p.saved /\ t.loaded = p.loaded
  /\ Same(t.ota_ctx, p.ota_ctx, {"stream_carry", "stream_carry_offset"})

(* The parser's states the stream routines build: with other targets, with *)
(* a carry filled up, emptied, or begun.                                   *)
WithDfu(p, d) == [p EXCEPT !.dfu = d]
LEMMA WithDfuIs ==
  ASSUME NEW p, IsParser(p), NEW d, IsDfu(d)
  PROVE  /\ IsParser(WithDfu(p, d)) /\ WithDfu(p, d).dfu = d
         /\ WithDfu(p, d).ota_ctx = p.ota_ctx /\ WithDfu(p, d).saved = p.saved
         /\ WithDfu(p, d).loaded = p.loaded /\ WithDfu(p, d).consumed = p.consumed
         /\ WithDfu(p, d).copied = p.copied /\ WithDfu(p, d).ok = p.ok
BY DEF IsParser, IsLibrary, WithDfu

Refilled(p, carry, n) == [p EXCEPT !.ota_ctx.stream_carry = carry, !.copied = n]
LEMMA RefilledIs ==
  ASSUME NEW p, IsParser(p), NEW carry \in Seq(FileByte), NEW n \in Nat
  PROVE  LET t == Refilled(p, carry, n) IN
         /\ IsParser(t) /\ t.ota_ctx.stream_carry = carry /\ t.copied = n
         /\ t.dfu = p.dfu /\ t.saved = p.saved /\ t.loaded = p.loaded
         /\ t.consumed = p.consumed /\ t.ok = p.ok
         /\ Same(t.ota_ctx, p.ota_ctx, {"stream_carry"})
<1> DEFINE c == p.ota_ctx
           d == [c EXCEPT !.stream_carry = carry]
           t == Refilled(p, carry, n)
<1>1. IsContext(c)
  BY DEF IsParser, IsLibrary
<1>2. IsContext(d) /\ d.stream_carry = carry /\ Same(d, c, {"stream_carry"})
  BY <1>1, ContextFields DEF IsContext, Same
<1>3. t = [p EXCEPT !.ota_ctx = d, !.copied = n]
  BY DEF Refilled, IsParser
<1> HIDE DEF c, d, t
<1> QED
  BY <1>2, <1>3 DEF IsParser, IsLibrary, c, t

Emptied(p) == [p EXCEPT !.ota_ctx.stream_carry = <<>>]
LEMMA EmptiedIs ==
  ASSUME NEW p, IsParser(p)
  PROVE  LET t == Emptied(p) IN
         /\ IsParser(t) /\ t.ota_ctx.stream_carry = <<>> /\ t.copied = p.copied
         /\ t.dfu = p.dfu /\ t.saved = p.saved /\ t.loaded = p.loaded
         /\ t.consumed = p.consumed /\ t.ok = p.ok
         /\ Same(t.ota_ctx, p.ota_ctx, {"stream_carry"})
         /\ IsReset(p.ota_ctx) => IsReset(t.ota_ctx)
<1> DEFINE c == p.ota_ctx
           d == [c EXCEPT !.stream_carry = <<>>]
           t == Emptied(p)
<1>1. IsContext(c)
  BY DEF IsParser, IsLibrary
<1>2. IsContext(d) /\ d.stream_carry = <<>> /\ Same(d, c, {"stream_carry"})
  BY <1>1, ContextFields DEF IsContext, Same
<1>3. IsReset(c) => IsReset(d)
  BY <1>2, ContextFields DEF IsReset, Same
<1>4. t = [p EXCEPT !.ota_ctx = d]
  BY DEF Emptied, IsParser
<1> HIDE DEF c, d, t
<1> QED
  BY <1>2, <1>3, <1>4 DEF IsParser, IsLibrary, c, t

Carried(p, n, offset, carry) ==
  [p EXCEPT !.copied = n, !.ota_ctx.stream_carry_offset = offset, !.ota_ctx.stream_carry = carry]
LEMMA CarriedIs ==
  ASSUME NEW p, IsParser(p), NEW carry \in Seq(FileByte), NEW n \in Nat, NEW offset \in Nat
  PROVE  LET t == Carried(p, n, offset, carry) IN
         /\ IsParser(t) /\ t.copied = n
         /\ t.ota_ctx.stream_carry = carry /\ t.ota_ctx.stream_carry_offset = offset
         /\ t.dfu = p.dfu /\ t.saved = p.saved /\ t.loaded = p.loaded
         /\ t.consumed = p.consumed /\ t.ok = p.ok
         /\ Same(t.ota_ctx, p.ota_ctx, {"stream_carry", "stream_carry_offset"})
<1> DEFINE c == p.ota_ctx
           d == [c EXCEPT !.stream_carry_offset = offset, !.stream_carry = carry]
           t == Carried(p, n, offset, carry)
<1>1. IsContext(c)
  BY DEF IsParser, IsLibrary
<1>2. IsContext(d) /\ d.stream_carry = carry /\ d.stream_carry_offset = offset
      /\ Same(d, c, {"stream_carry", "stream_carry_offset"})
  BY <1>1, ContextFields DEF IsContext, Same
<1>3. t = [p EXCEPT !.copied = n, !.ota_ctx = d]
  BY DEF Carried, IsParser
<1> HIDE DEF c, d, t
<1> QED
  BY <1>2, <1>3 DEF IsParser, IsLibrary, c, t

(* Bytes written behind those before, or a refusal.                        *)
LEMMA WriteIs ==
  ASSUME NEW p, IsParser(p), NEW v, From(p.dfu.data, v, BinStart), MissingKnown(p),
         NEW bytes \in Seq(FileByte), NEW offset, offset = DataLen(p),
         From(bytes, v, BinStart + offset), NEW fault
  PROVE  LET t == Write(p, offset, bytes, fault) IN
         \/ Refusal(p, t)
         \/ /\ IsParser(t) /\ t.ota_ctx = p.ota_ctx /\ t.ok = p.ok /\ t.copied = p.copied
            /\ t.consumed = p.consumed /\ t.saved = p.saved /\ t.loaded = p.loaded
            /\ DataLen(t) = offset + Len(bytes) /\ From(t.dfu.data, v, BinStart)
            /\ Missing(t.dfu)
<1> DEFINE t == Write(p, offset, bytes, fault)
           d == Written(p.dfu, offset, bytes)
<1>1. CASE fault = "write" \/ ~ CanWrite(p.dfu, offset)
  BY <1>1, RefusedIs DEF Write
<1>2. CASE ~ (fault = "write" \/ ~ CanWrite(p.dfu, offset))
  <2>1. IsDfu(p.dfu) /\ p.dfu.ready = TRUE
    BY <1>2 DEF CanWrite, IsParser, IsLibrary, IsDfu
  <2>2. Missing(p.dfu)
    BY <2>1 DEF MissingKnown
  <2>3. /\ IsDfu(d) /\ d.ready = TRUE /\ Missing(d)
        /\ Len(d.data) = offset + Len(bytes)
        /\ From(d.data, v, BinStart)
    BY <2>1, <2>2, WrittenIs DEF DataLen
  <2>4. t = WithDfu(p, d)
    BY <1>2 DEF Write, WithDfu
  <2> HIDE DEF t, d
  <2>5. /\ IsParser(t) /\ t.dfu = d /\ t.ota_ctx = p.ota_ctx /\ t.ok = p.ok /\ t.copied = p.copied
        /\ t.consumed = p.consumed /\ t.saved = p.saved /\ t.loaded = p.loaded
    BY <2>3, <2>4, WithDfuIs
  <2>6. /\ DataLen(t) = offset + Len(bytes) /\ From(t.dfu.data, v, BinStart)
        /\ Missing(t.dfu)
    BY <2>3, <2>5 DEF DataLen
  <2> QED
    BY <2>5, <2>6 DEF t
<1> QED
  BY <1>1, <1>2

(* Refused with nothing carried, it is refused.                            *)
LEMMA RefusalEmptied ==
  ASSUME NEW p, NEW t, Refusal(p, t)
  PROVE  Refusal(p, Emptied(t))
<1>1. IsParser(t)
  BY DEF Refusal
<1> DEFINE u == Emptied(t)
<1>2. /\ IsParser(u) /\ u.copied = t.copied
      /\ u.dfu = t.dfu /\ u.saved = t.saved /\ u.loaded = t.loaded
      /\ u.consumed = t.consumed /\ u.ok = t.ok
      /\ IsReset(t.ota_ctx) => IsReset(u.ota_ctx)
  BY <1>1, EmptiedIs
<1> HIDE DEF u
<1>3. Refusal(p, u)
  BY <1>2 DEF Refusal, WasRefused
<1> QED
  BY <1>3 DEF u

(* The bytes carried, with those that fill them up.                        *)
CarryResult(p, t, v, offset, len) ==
  \/ Refusal(p, t)
  \/ /\ Streams(t, v, offset + t.copied) /\ Kept(p, t) /\ t.copied \in 0 .. len
     /\ t.ota_ctx.stream_carry = <<>> \/ (t.copied = len /\ offset + len < BinSize)

(* A block that ends the image.                                            *)
IsFinal(offset, len) == offset + len >= BinSize

(* WriteCarry fills the carried bytes up to the alignment and writes them  *)
(* behind those in the targets, or carries all of the block if that is not *)
(* enough.                                                                 *)
LEMMA CarryIs ==
  ASSUME NEW p, NEW v, NEW offset, Streams(p, v, offset),
         NEW bytes \in Seq(FileByte), From(bytes, v, BinStart + offset),
         NEW len, len = Len(bytes), NEW fault
  PROVE  CarryResult(p, WriteCarry(p, offset, bytes, IsFinal(offset, len), fault), v, offset, len)
<1> DEFINE final == IsFinal(offset, len)
           c == p.ota_ctx
           q == c.stream_carry
           at == c.stream_carry_offset
           k == DataLen(p)
           l == CarryLen(p)
           n == Smaller(len, Align - l)
           part == SubSeq(bytes, 1, n)
           carry == q \o part
           filled == Refilled(p, carry, n)
           written == Write(filled, at, carry, fault)
           t == WriteCarry(p, offset, bytes, final, fault)
<1>0. /\ IsParser(p) /\ p.ok = TRUE /\ From(p.dfu.data, v, BinStart) /\ MissingKnown(p)
      /\ From(q, v, BinStart + at)
  BY DEF Streams
<1>5. q # <<>> => at = k
  BY DEF Streams
<1>1. /\ k \in Nat /\ l \in Nat /\ at \in Nat /\ len \in Nat /\ offset = k + l /\ l < Align
      /\ offset \in Nat
  <2>1. k \in Nat /\ l \in Nat /\ at \in Nat
    BY <1>0, LengthsAre
  <2>2. offset = k + l /\ l < Align
    BY DEF Streams
  <2> HIDE DEF k, l
  <2> QED
    BY <2>1, <2>2
<1>2. q \in Seq(FileByte) /\ l = Len(q) /\ (q = <<>> <=> l = 0)
  BY <1>0, LengthsAre DEF CarryLen
<1> HIDE DEF k, l, at, q
<1>3. CASE q = <<>>
  <2> DEFINE u == [p EXCEPT !.copied = 0]
  <2>1. t = u
    BY <1>3 DEF WriteCarry, q
  <2>2. /\ IsParser(u) /\ u.ota_ctx = p.ota_ctx /\ u.dfu = p.dfu /\ u.ok = p.ok /\ u.saved = p.saved
        /\ u.loaded = p.loaded /\ u.consumed = p.consumed /\ u.copied = 0
    BY <1>0 DEF IsParser, IsLibrary
  <2> HIDE DEF u
  <2>3. offset + 0 = offset /\ 0 \in 0 .. len
    BY <1>1
  <2>4. Streams(u, v, offset)
    BY <2>2 DEF Streams, MissingKnown, DataLen, CarryLen
  <2>5. Kept(p, u)
    BY <2>2 DEF Kept, Same
  <2>6. CarryResult(p, u, v, offset, len)
    BY <1>3, <2>2, <2>3, <2>4, <2>5 DEF CarryResult, q
  <2> HIDE DEF t
  <2> QED
    BY <2>1, <2>6 DEF t
<1>4. CASE q # <<>>
  <2>1. at = k /\ offset = at + l
    BY ONLY <1>1, <1>4, <1>5
  <2>2. n \in Nat /\ n <= len /\ n <= Align - l /\ (n = len \/ n = Align - l)
    BY ONLY <1>1, SizesAre DEF Smaller, n
  <2> HIDE DEF n
  <2>3. part \in Seq(FileByte) /\ Len(part) = n /\ From(part, v, (BinStart + at) + l)
    <3> DEFINE o == BinStart + offset
    <3>1. o \in Nat /\ o + 0 = (BinStart + at) + l /\ n - 0 = n
      BY <1>1, <2>1, <2>2, SizesAre
    <3>2. From(bytes, v, o)
      OBVIOUS
    <3> HIDE DEF o
    <3>3. n <= Len(bytes) /\ 0 <= n /\ bytes \in Seq(FileByte) /\ 0 \in Nat
      BY <1>1, <2>2
    <3>4. /\ SubSeq(bytes, 0 + 1, n) \in Seq(FileByte) /\ Len(SubSeq(bytes, 0 + 1, n)) = n - 0
          /\ From(SubSeq(bytes, 0 + 1, n), v, o + 0)
      BY ONLY <2>2, <3>1, <3>2, <3>3, FromSub
    <3> QED
      BY ONLY <3>1, <3>4 DEF part, o
  <2> HIDE DEF part
  <2>4. carry \in Seq(FileByte) /\ Len(carry) = l + n /\ From(carry, v, BinStart + at)
    <3> DEFINE o == BinStart + at
    <3>1. o \in Nat /\ From(q, v, o) /\ From(part, v, o + Len(q))
      <4>1. o \in Nat
        BY ONLY <1>1, SizesAre DEF o
      <4> QED
        BY <1>0, <1>2, <2>3, <4>1
    <3> HIDE DEF o
    <3>2. /\ q \o part \in Seq(FileByte) /\ Len(q \o part) = Len(q) + Len(part)
          /\ From(q \o part, v, o)
      BY <1>2, <2>3, <3>1, FromConcat
    <3> QED
      BY <1>2, <2>3, <3>2 DEF o
  <2>5. t = IF Len(carry) < Align /\ ~ final THEN filled ELSE Emptied(written)
    BY <1>2, <1>4, <2>1 DEF WriteCarry, Refilled, Emptied, n, part, at, q, l, CarryLen
  <2> HIDE DEF carry
  <2>6. /\ IsParser(filled) /\ filled.ota_ctx.stream_carry = carry /\ filled.copied = n
        /\ filled.dfu = p.dfu /\ filled.saved = p.saved /\ filled.loaded = p.loaded
        /\ filled.consumed = p.consumed /\ filled.ok = TRUE
        /\ Same(filled.ota_ctx, c, {"stream_carry"})
    <3>1. IsParser(p) /\ p.ok = TRUE /\ carry \in Seq(FileByte) /\ n \in Nat
      BY <1>0, <2>2, <2>4
    <3> HIDE DEF n, carry
    <3>2. /\ IsParser(filled) /\ filled.ota_ctx.stream_carry = carry /\ filled.copied = n
          /\ filled.dfu = p.dfu /\ filled.saved = p.saved /\ filled.loaded = p.loaded
          /\ filled.consumed = p.consumed /\ filled.ok = p.ok
          /\ Same(filled.ota_ctx, p.ota_ctx, {"stream_carry"})
      BY ONLY <3>1, RefilledIs DEF filled
    <3> QED
      BY <3>1, <3>2
  <2> HIDE DEF filled
  <2>7. filled.ota_ctx.stream_carry_offset = at
    BY <2>6, ContextFields DEF Same, at
  <2>8. DataLen(filled) = k /\ CarryLen(filled) = l + n /\ MissingKnown(filled)
    BY <1>0, <2>4, <2>6 DEF k, DataLen, CarryLen, MissingKnown
  <2>9. CASE Len(carry) < Align /\ ~ final
    <3>1. n = len /\ offset + len < BinSize /\ offset + n = k + (l + n)
      BY <1>1, <2>2, <2>4, <2>9, SizesAre DEF IsFinal
    <3>2. l + n < Align
      BY <2>4, <2>9
    <3>3. Streams(filled, v, offset + n)
      BY <1>0, <2>1, <2>4, <2>6, <2>7, <2>8, <3>1, <3>2 DEF Streams
    <3>4. Kept(p, filled)
      BY <2>6 DEF Kept, Same
    <3>5. n \in 0 .. len
      BY <1>1, <2>2
    <3>6. CarryResult(p, filled, v, offset, len)
      BY <2>6, <3>1, <3>3, <3>4, <3>5 DEF CarryResult
    <3>7. t = filled
      BY <2>5, <2>9
    <3> HIDE DEF t
    <3> QED
      BY <3>6, <3>7 DEF t
  <2>10. CASE ~ (Len(carry) < Align /\ ~ final)
    <3>1. \/ Refusal(filled, written)
          \/ /\ IsParser(written) /\ written.ota_ctx = filled.ota_ctx /\ written.ok = filled.ok
             /\ written.copied = filled.copied
             /\ written.consumed = filled.consumed /\ written.saved = filled.saved
             /\ written.loaded = filled.loaded
             /\ DataLen(written) = at + Len(carry)
             /\ From(written.dfu.data, v, BinStart)
             /\ Missing(written.dfu)
      <4>1. From(filled.dfu.data, v, BinStart) /\ at = DataLen(filled)
        BY <1>0, <2>1, <2>6, <2>8
      <4> QED
        BY <2>4, <2>6, <2>8, <4>1, WriteIs
    <3> DEFINE u == Emptied(written)
    <3>2. t = u
      BY <2>5, <2>10
    <3> HIDE DEF written, t
    <3>3. CASE Refusal(filled, written)
      <4>1. Refusal(filled, u)
        BY <3>3, RefusalEmptied
      <4>2. Refusal(p, u)
        BY <2>6, <4>1 DEF Refusal
      <4> QED
        BY <3>2, <4>2 DEF t, CarryResult
    <3>4. CASE ~ Refusal(filled, written)
      <4>1. /\ IsParser(u) /\ u.ota_ctx.stream_carry = <<>> /\ u.copied = n
            /\ u.dfu = written.dfu /\ u.saved = p.saved /\ u.loaded = p.loaded
            /\ u.consumed = p.consumed /\ u.ok = TRUE
            /\ Same(u.ota_ctx, written.ota_ctx, {"stream_carry"})
        BY <2>6, <3>1, <3>4, EmptiedIs
      <4> HIDE DEF u
      <4>2. DataLen(u) = at + (l + n) /\ From(u.dfu.data, v, BinStart) /\ Missing(u.dfu)
        BY <2>4, <3>1, <3>4, <4>1 DEF DataLen
      <4>3. CarryLen(u) = 0 /\ u.ota_ctx.stream_carry = <<>>
        BY <4>1, LengthsAre
      <4>4. offset + n = (at + (l + n)) + 0 /\ n \in 0 .. len
        BY <1>1, <2>1, <2>2
      <4>5. Streams(u, v, offset + n)
        <5>1. From(u.ota_ctx.stream_carry, v, BinStart + u.ota_ctx.stream_carry_offset)
          BY <4>1, FromNothing
        <5>2. CarryLen(u) < Align
          BY <4>3, SizesAre
        <5>3. MissingKnown(u)
          BY <4>2 DEF MissingKnown
        <5> QED
          BY <4>1, <4>2, <4>3, <4>4, <5>1, <5>2, <5>3 DEF Streams
      <4>6. Kept(p, u)
        BY <2>6, <3>1, <3>4, <4>1 DEF Kept, Same
      <4>7. CarryResult(p, u, v, offset, len)
        BY <4>1, <4>4, <4>5, <4>6 DEF CarryResult
      <4> QED
        BY <3>2, <4>7 DEF t
    <3> QED
      BY <3>3, <3>4
  <2> QED
    BY <2>9, <2>10
<1> QED
  BY <1>3, <1>4

(* The remainder of a division.                                            *)
LEMMA ModIs ==
  ASSUME NEW n \in Nat, NEW a \in Nat \ {0}
  PROVE  n % a \in 0 .. a - 1 /\ n % a <= n /\ (n < a => n % a = n)
<1>1. n % a \in 0 .. a - 1
  OBVIOUS
<1>2. n < a => n % a = n
  OBVIOUS
<1> QED
  BY <1>1, <1>2

(* The bytes behind those carried.                                         *)
AlignedResult(p, t, v, offset, len) ==
  \/ Refusal(p, t)
  \/ /\ Streams(t, v, offset + len) /\ Kept(p, t) /\ t.copied = len
     /\ IsFinal(offset, len) => t.ota_ctx.stream_carry = <<>>

(* WriteAligned writes the aligned part of what is left of the block and   *)
(* carries the rest, or all of it if the image ends.                       *)
LEMMA AlignedIs ==
  ASSUME NEW p, NEW v, NEW offset \in Nat, NEW len, NEW bytes \in Seq(FileByte), len = Len(bytes),
         From(bytes, v, BinStart + offset), p.copied \in 0 .. len,
         Streams(p, v, offset + p.copied),
         p.ota_ctx.stream_carry = <<>> \/ (p.copied = len /\ offset + len < BinSize), NEW fault
  PROVE  AlignedResult(p, WriteAligned(p, offset, bytes, IsFinal(offset, len), fault), v, offset, len)
<1> DEFINE from == p.copied
           n == len - from
           now == IF IsFinal(offset, len) THEN n ELSE n - (n % Align)
           part == SubSeq(bytes, from + 1, from + now)
           rest == SubSeq(bytes, from + now + 1, len)
           at == offset + from
           w == IF now = 0 THEN p ELSE Write(p, at, part, fault)
           t == WriteAligned(p, offset, bytes, IsFinal(offset, len), fault)
<1>0. /\ IsParser(p) /\ p.ok = TRUE /\ From(p.dfu.data, v, BinStart) /\ MissingKnown(p)
  BY DEF Streams
<1>1. from \in Nat /\ len \in Nat /\ n \in Nat /\ from + n = len /\ at \in Nat
      /\ (n = 0 => from = len /\ offset + from = offset + len)
  OBVIOUS
<1>2. t = IF n = 0 \/ ~ w.ok THEN w
          ELSE Carried(w, len, IF now < n THEN at + now ELSE w.ota_ctx.stream_carry_offset,
                       IF now < n THEN rest ELSE w.ota_ctx.stream_carry)
  BY DEF WriteAligned, Carried
<1> HIDE DEF t
<1>3. now \in 0 .. n /\ n - now < Align /\ (IsFinal(offset, len) => now = n) /\ now \in Nat
  <2>1. n % Align \in 0 .. Align - 1 /\ n % Align <= n
    BY ONLY <1>1, SizesAre, ModIs
  <2> DEFINE m == n % Align
  <2>2. m \in Nat /\ m < Align /\ m <= n /\ now = IF IsFinal(offset, len) THEN n ELSE n - m
    BY <2>1, SizesAre
  <2> HIDE DEF m, n, now
  <2> QED
    BY ONLY <1>1, <2>2, SizesAre
<1>4. CASE n = 0
  <2>1. now = 0
    BY <1>3, <1>4
  <2>2. t = p
    BY <1>2, <1>4, <2>1
  <2>3. Streams(p, v, offset + len)
    BY <1>1, <1>4
  <2>4. IsFinal(offset, len) => p.ota_ctx.stream_carry = <<>>
    BY <1>1, SizesAre DEF IsFinal
  <2>5. AlignedResult(p, p, v, offset, len)
    BY <1>1, <1>4, <2>3, <2>4 DEF AlignedResult, Kept, Same
  <2> QED
    BY <2>2, <2>5 DEF t
<1>5. CASE n # 0
  <2>1. p.ota_ctx.stream_carry = <<>>
    BY <1>1, <1>5
  <2>2. DataLen(p) = at
    <3>1. CarryLen(p) = 0 /\ DataLen(p) \in Nat /\ at = DataLen(p) + CarryLen(p)
      BY <1>0, <2>1, LengthsAre DEF Streams
    <3> QED
      BY <3>1
  <2> HIDE DEF now, n, from, at
  <2>3. /\ part \in Seq(FileByte) /\ Len(part) = now /\ From(part, v, BinStart + at)
        /\ rest \in Seq(FileByte) /\ Len(rest) = n - now /\ From(rest, v, BinStart + (at + now))
    <3> DEFINE o == BinStart + offset
    <3>1. /\ from + now \in Nat /\ from <= from + now /\ from + now <= len /\ (from + now) - from = now
          /\ len - (from + now) = n - now /\ at = offset + from /\ o \in Nat
          /\ o + from = BinStart + at /\ o + (from + now) = BinStart + (at + now)
      BY ONLY <1>1, <1>3, SizesAre, offset \in Nat DEF at, o
    <3>2. From(bytes, v, o) /\ bytes \in Seq(FileByte) /\ len <= Len(bytes) /\ len <= len
          /\ from \in Nat /\ len \in Nat /\ from + now <= Len(bytes)
      BY <1>1, <3>1
    <3> HIDE DEF o
    <3>3. /\ SubSeq(bytes, from + 1, from + now) \in Seq(FileByte)
          /\ Len(SubSeq(bytes, from + 1, from + now)) = (from + now) - from
          /\ From(SubSeq(bytes, from + 1, from + now), v, o + from)
      BY ONLY <3>1, <3>2, FromSub
    <3>4. /\ SubSeq(bytes, from + now + 1, len) \in Seq(FileByte)
          /\ Len(SubSeq(bytes, from + now + 1, len)) = len - (from + now)
          /\ From(SubSeq(bytes, from + now + 1, len), v, o + (from + now))
      BY ONLY <3>1, <3>2, FromSub
    <3> QED
      BY ONLY <3>1, <3>3, <3>4 DEF part, rest
  <2> HIDE DEF part, rest
  <2>4. \/ Refusal(p, w)
        \/ /\ IsParser(w) /\ w.ota_ctx = p.ota_ctx /\ w.ok = p.ok
           /\ w.consumed = p.consumed /\ w.saved = p.saved /\ w.loaded = p.loaded
           /\ DataLen(w) = at + now /\ From(w.dfu.data, v, BinStart) /\ MissingKnown(w)
    <3>1. CASE now = 0
      <4>1. w = p /\ at + now = at
        BY <1>1, <3>1
      <4> QED
        BY <1>0, <2>2, <4>1
    <3>2. CASE now # 0
      <4> DEFINE x == Write(p, at, part, fault)
      <4>1. w = x
        BY <3>2
      <4>2. \/ Refusal(p, x)
            \/ /\ IsParser(x) /\ x.ota_ctx = p.ota_ctx /\ x.ok = p.ok
               /\ x.consumed = p.consumed /\ x.saved = p.saved /\ x.loaded = p.loaded
               /\ DataLen(x) = at + Len(part) /\ From(x.dfu.data, v, BinStart) /\ Missing(x.dfu)
        BY <1>0, <2>2, <2>3, WriteIs
      <4> HIDE DEF x, w
      <4> QED
        BY <2>3, <4>1, <4>2 DEF MissingKnown
    <3> QED
      BY <3>1, <3>2
  <2> HIDE DEF w
  <2>5. CASE Refusal(p, w)
    <3>1. t = w
      BY <1>2, <2>5 DEF Refusal
    <3> QED
      BY <2>5, <3>1 DEF t, AlignedResult
  <2>6. CASE ~ Refusal(p, w)
    <3> DEFINE o == IF now < n THEN at + now ELSE w.ota_ctx.stream_carry_offset
               carry == IF now < n THEN rest ELSE w.ota_ctx.stream_carry
               u == Carried(w, len, o, carry)
    <3>1. w.ok = TRUE
      BY <1>0, <2>4, <2>6
    <3>2. t = u
      BY <1>2, <1>5, <3>1
    <3>3. /\ w.ota_ctx.stream_carry = <<>> /\ w.ota_ctx.stream_carry_offset \in Nat
          /\ w.ota_ctx.stream_carry \in Seq(FileByte) /\ at + now \in Nat
      BY <1>1, <1>3, <2>1, <2>4, <2>6, LengthsAre
    <3>4. /\ o \in Nat /\ carry \in Seq(FileByte)
          /\ carry # <<>> => o = at + now
      BY <2>3, <3>3
    <3>5. Len(carry) = n - now
      <4>1. CASE now < n
        BY <2>3, <4>1
      <4>2. CASE ~ (now < n)
        <5>1. carry = <<>> /\ n - now = 0
          BY <1>1, <1>3, <3>3, <4>2
        <5> QED
          BY <5>1
      <4> QED
        BY <4>1, <4>2
    <3>6. From(carry, v, BinStart + o)
      <4>1. CASE now < n
        BY <2>3, <4>1
      <4>2. CASE ~ (now < n)
        BY <3>3, <4>2, FromNothing
      <4> QED
        BY <4>1, <4>2
    <3>7. IsFinal(offset, len) => carry = <<>>
      BY <1>1, <1>3, <3>3
    <3> HIDE DEF o, carry
    <3>8. /\ IsParser(u) /\ u.copied = len
          /\ u.ota_ctx.stream_carry = carry /\ u.ota_ctx.stream_carry_offset = o
          /\ u.dfu = w.dfu /\ u.saved = w.saved /\ u.loaded = w.loaded
          /\ u.consumed = w.consumed /\ u.ok = w.ok
          /\ Same(u.ota_ctx, w.ota_ctx, {"stream_carry", "stream_carry_offset"})
      <4>1. IsParser(w)
        BY ONLY <2>4, <2>6
      <4>2. carry \in Seq(FileByte) /\ o \in Nat /\ len \in Nat
        BY ONLY <1>1, <3>4
      <4> QED
        BY ONLY <4>1, <4>2, CarriedIs DEF u
    <3> HIDE DEF u
    <3>9. DataLen(u) = at + now /\ CarryLen(u) = n - now /\ MissingKnown(u)
      BY <2>4, <2>6, <3>5, <3>8 DEF DataLen, CarryLen, MissingKnown
    <3>10. offset + len = (at + now) + (n - now)
      BY ONLY <1>1, <1>3, offset \in Nat DEF at
    <3>11. Streams(u, v, offset + len)
      <4>5. From(u.dfu.data, v, BinStart)
        BY ONLY <2>4, <2>6, <3>8
      <4>1. From(u.ota_ctx.stream_carry, v, BinStart + u.ota_ctx.stream_carry_offset)
        BY ONLY <3>6, <3>8
      <4>2. u.ota_ctx.stream_carry # <<>> => u.ota_ctx.stream_carry_offset = DataLen(u)
        BY <3>4, <3>8, <3>9
      <4>3. CarryLen(u) < Align /\ offset + len = DataLen(u) + CarryLen(u)
        BY <1>3, <3>9, <3>10
      <4>4. IsParser(u) /\ u.ok = TRUE
        BY <3>1, <3>8
      <4> QED
        BY <3>9, <4>1, <4>2, <4>3, <4>4, <4>5 DEF Streams
    <3>12. Kept(p, u)
      BY <2>4, <2>6, <3>8 DEF Kept
    <3>13. AlignedResult(p, u, v, offset, len)
      BY <3>7, <3>8, <3>11, <3>12 DEF AlignedResult
    <3> QED
      BY <3>2, <3>13 DEF t
  <2> QED
    BY <2>5, <2>6
<1> QED
  BY <1>4, <1>5

(* The parser before a write.                                              *)
Ready(p, n) == [p EXCEPT !.ok = TRUE, !.copied = n]
LEMMA ReadyIs ==
  ASSUME NEW p, IsParser(p), NEW n \in Nat
  PROVE  /\ IsParser(Ready(p, n)) /\ Ready(p, n).ok = TRUE /\ Ready(p, n).copied = n
         /\ Ready(p, n).ota_ctx = p.ota_ctx /\ Ready(p, n).dfu = p.dfu
         /\ Ready(p, n).saved = p.saved /\ Ready(p, n).loaded = p.loaded
         /\ Ready(p, n).consumed = p.consumed
BY DEF IsParser, IsLibrary, Ready

(* A stream without alignment takes the whole block.                       *)
LEMMA UnalignedIs ==
  ASSUME NEW p, NEW v, NEW offset \in Nat, Streams(p, v, offset),
         NEW bytes \in Seq(FileByte), From(bytes, v, BinStart + offset),
         NEW len, len = Len(bytes), p.copied = len, NEW fault
  PROVE  AlignedResult(p, Write(p, offset, bytes, fault), v, offset, len)
<1> DEFINE w == Write(p, offset, bytes, fault)
<1>0. /\ IsParser(p) /\ p.ok = TRUE /\ From(p.dfu.data, v, BinStart) /\ MissingKnown(p)
      /\ CarryLen(p) < Align
      /\ From(p.ota_ctx.stream_carry, v, BinStart + p.ota_ctx.stream_carry_offset)
  BY DEF Streams
<1>1. /\ DataLen(p) \in Nat /\ CarryLen(p) \in Nat /\ offset = DataLen(p) + CarryLen(p)
      /\ (p.ota_ctx.stream_carry = <<>> <=> CarryLen(p) = 0) /\ len \in Nat
  BY <1>0, LengthsAre DEF Streams
<1>2. CASE CarryLen(p) # 0
  <2>1. ~ (offset <= DataLen(p))
    BY ONLY <1>1, <1>2
  <2>2. w = Refused(p)
    BY ONLY <2>1 DEF w, Write, CanWrite, DataLen
  <2> HIDE DEF w
  <2>3. Refusal(p, w)
    BY ONLY <1>0, <2>2, RefusedIs
  <2> QED
    BY ONLY <2>3 DEF AlignedResult, w
<1>3. CASE CarryLen(p) = 0
  <2>1. offset = DataLen(p) /\ p.ota_ctx.stream_carry = <<>>
    BY ONLY <1>1, <1>3
  <2>2. \/ Refusal(p, w)
        \/ /\ IsParser(w) /\ w.ota_ctx = p.ota_ctx /\ w.ok = p.ok /\ w.copied = p.copied
           /\ w.consumed = p.consumed /\ w.saved = p.saved /\ w.loaded = p.loaded
           /\ DataLen(w) = offset + Len(bytes) /\ From(w.dfu.data, v, BinStart)
           /\ Missing(w.dfu)
    BY <1>0, <2>1, WriteIs
  <2> HIDE DEF w
  <2>3. CASE ~ Refusal(p, w)
    <3>1. CarryLen(w) = 0 /\ w.ota_ctx.stream_carry = <<>>
      BY ONLY <1>3, <2>1, <2>2, <2>3 DEF CarryLen
    <3>2. offset + len = DataLen(w) + CarryLen(w)
      BY ONLY <1>1, <2>2, <2>3, <3>1, len = Len(bytes), offset \in Nat
    <3>3. From(w.ota_ctx.stream_carry, v, BinStart + w.ota_ctx.stream_carry_offset)
      BY ONLY <3>1, FromNothing
    <3>4. IsParser(w) /\ w.ok = TRUE /\ From(w.dfu.data, v, BinStart)
      BY ONLY <1>0, <2>2, <2>3
    <3>5. MissingKnown(w)
      BY ONLY <2>2, <2>3 DEF MissingKnown
    <3>6. CarryLen(w) < Align
      BY ONLY <3>1, SizesAre
    <3>7. Streams(w, v, offset + len)
      BY ONLY <3>1, <3>2, <3>3, <3>4, <3>5, <3>6 DEF Streams
    <3>8. Kept(p, w) /\ w.copied = len
      BY ONLY <2>2, <2>3, p.copied = len DEF Kept, Same
    <3>9. AlignedResult(p, w, v, offset, len)
      BY ONLY <3>1, <3>7, <3>8 DEF AlignedResult
    <3> QED
      BY <3>9 DEF w
  <2> QED
    BY <2>3 DEF AlignedResult, w
<1> QED
  BY <1>2, <1>3

(* Two writes leave alone what each leaves alone.                          *)
LEMMA KeptTwice ==
  ASSUME NEW p, NEW q, NEW t, Kept(p, q), Kept(q, t)
  PROVE  Kept(p, t)
<1>1. \A f \in DOMAIN ResetContext :
         f \in {"stream_carry", "stream_carry_offset"} \/ t.ota_ctx[f] = p.ota_ctx[f]
  BY DEF Kept, Same
<1>2. t.consumed = p.consumed /\ t.saved = p.saved /\ t.loaded = p.loaded
  BY DEF Kept
<1> QED
  BY <1>1, <1>2 DEF Kept, Same

(* The count of copied bytes is no part of the stream.                     *)
LEMMA ReadyStreams ==
  ASSUME NEW p, NEW v, NEW n \in Nat, NEW offset, Streams(Ready(p, 0), v, offset), IsParser(p)
  PROVE  Streams(Ready(p, n), v, offset)
<1> DEFINE q == Ready(p, 0)
           t == Ready(p, n)
<1>1. /\ IsParser(t) /\ t.ok = TRUE
      /\ t.ota_ctx = p.ota_ctx /\ t.dfu = p.dfu
      /\ t.saved = p.saved /\ t.loaded = p.loaded
  BY ReadyIs
<1>2. q.ota_ctx = p.ota_ctx /\ q.dfu = p.dfu /\ q.saved = p.saved /\ q.loaded = p.loaded
  BY ReadyIs
<1> HIDE DEF q, t
<1>3. Streams(q, v, offset)
  BY DEF q
<1>4. Streams(t, v, offset)
  BY ONLY <1>1, <1>2, <1>3 DEF Streams, MissingKnown, DataLen, CarryLen
<1> QED
  BY <1>4 DEF t

(* The routines for the two kinds of streams together.                     *)
StreamWritten(p, offset, bytes, final, sync, fault) ==
  LET carried == WriteCarry([p EXCEPT !.ok = TRUE], offset, bytes, final, fault)
  IN  IF sync
      THEN IF carried.ok THEN WriteAligned(carried, offset, bytes, final, fault) ELSE carried
      ELSE Write([p EXCEPT !.ok = TRUE, !.copied = Len(bytes)], offset, bytes, fault)

(* Whether the stream is synchronous or not, all bytes of the block are in *)
(* the targets or carried afterwards, unless the block is refused.         *)
LEMMA StreamWrittenIs ==
  ASSUME NEW p, IsParser(p), NEW v, NEW offset \in Nat, Streams(Ready(p, 0), v, offset),
         NEW bytes \in Seq(FileByte), From(bytes, v, BinStart + offset),
         NEW len, len = Len(bytes), NEW sync, NEW fault
  PROVE  AlignedResult(Ready(p, 0), StreamWritten(p, offset, bytes, IsFinal(offset, len), sync, fault),
                       v, offset, len)
<1> DEFINE final == IsFinal(offset, len)
           q == Ready(p, p.copied)
           r == Ready(p, len)
           s == Ready(p, 0)
           carried == WriteCarry(q, offset, bytes, final, fault)
           w == StreamWritten(p, offset, bytes, final, sync, fault)
<1>1. len \in Nat /\ p.copied \in Nat /\ 0 \in Nat
  BY DEF IsParser
<1>2. q = [p EXCEPT !.ok = TRUE] /\ r = [p EXCEPT !.ok = TRUE, !.copied = Len(bytes)]
  BY DEF Ready, IsParser
<1>3. w = IF sync
          THEN IF carried.ok THEN WriteAligned(carried, offset, bytes, final, fault) ELSE carried
          ELSE Write(r, offset, bytes, fault)
  BY <1>2 DEF StreamWritten
<1>4. Streams(q, v, offset) /\ Streams(r, v, offset)
  BY <1>1, ReadyStreams
<1>5. /\ q.ota_ctx = p.ota_ctx /\ q.consumed = p.consumed /\ q.saved = p.saved /\ q.loaded = p.loaded
      /\ r.ota_ctx = p.ota_ctx /\ r.consumed = p.consumed /\ r.saved = p.saved /\ r.loaded = p.loaded
      /\ s.ota_ctx = p.ota_ctx /\ s.consumed = p.consumed /\ s.saved = p.saved /\ s.loaded = p.loaded
      /\ r.copied = len
  BY <1>1, ReadyIs
<1> HIDE DEF w, q, r, s
<1>6. Kept(s, q) /\ Kept(s, r)
  BY ONLY <1>5 DEF Kept, Same
<1>7. CASE sync /\ carried.ok
  <2>1. CarryResult(q, carried, v, offset, len)
    BY <1>4, CarryIs
  <2> DEFINE a == WriteAligned(carried, offset, bytes, final, fault)
  <2>2. w = a
    BY <1>3, <1>7
  <2> HIDE DEF carried
  <2>3. CASE Refusal(q, carried)
    BY <1>7, <2>3 DEF Refusal
  <2>4. CASE ~ Refusal(q, carried)
    <3>1. /\ Streams(carried, v, offset + carried.copied) /\ Kept(q, carried)
          /\ carried.copied \in 0 .. len
          /\ carried.ota_ctx.stream_carry = <<>> \/ (carried.copied = len /\ offset + len < BinSize)
      BY ONLY <2>1, <2>4 DEF CarryResult
    <3>2. AlignedResult(carried, a, v, offset, len)
      BY <3>1, AlignedIs
    <3> HIDE DEF a
    <3>3. Kept(s, carried)
      BY ONLY <1>6, <3>1, KeptTwice
    <3>4. CASE Refusal(carried, a)
      <4>1. Refusal(s, a)
        BY ONLY <3>3, <3>4 DEF Refusal, Kept
      <4> QED
        BY <2>2, <4>1 DEF AlignedResult, s, w
    <3>5. CASE ~ Refusal(carried, a)
      <4>1. Kept(carried, a)
        BY ONLY <3>2, <3>5 DEF AlignedResult
      <4>2. Kept(s, a)
        BY ONLY <3>3, <4>1, KeptTwice
      <4>3. AlignedResult(s, a, v, offset, len)
        BY ONLY <3>2, <3>5, <4>2 DEF AlignedResult
      <4> QED
        BY <2>2, <4>3 DEF s, w
    <3> QED
      BY <3>4, <3>5
  <2> QED
    BY <2>3, <2>4
<1>8. CASE sync /\ ~ carried.ok
  <2>1. CarryResult(q, carried, v, offset, len)
    BY <1>4, CarryIs
  <2>2. w = carried
    BY <1>3, <1>8
  <2> HIDE DEF carried
  <2>3. Refusal(q, carried)
    BY <1>8, <2>1 DEF CarryResult, Streams
  <2>4. Refusal(s, carried)
    BY ONLY <1>5, <2>3 DEF Refusal
  <2> QED
    BY <2>2, <2>4 DEF AlignedResult, s, w
<1>9. CASE ~ sync
  <2> DEFINE a == Write(r, offset, bytes, fault)
  <2>1. AlignedResult(r, a, v, offset, len)
    BY <1>4, <1>5, UnalignedIs
  <2>2. w = a
    BY <1>3, <1>9
  <2> HIDE DEF a
  <2>3. AlignedResult(s, a, v, offset, len)
    <3>1. CASE Refusal(r, a)
      BY ONLY <1>5, <3>1 DEF Refusal, AlignedResult
    <3>2. CASE ~ Refusal(r, a)
      <4>1. Kept(r, a)
        BY ONLY <2>1, <3>2 DEF AlignedResult
      <4>2. Kept(s, a)
        BY ONLY <1>6, <4>1, KeptTwice
      <4> QED
        BY ONLY <2>1, <3>2, <4>2 DEF AlignedResult
    <3> QED
      BY <3>1, <3>2
  <2> QED
    BY <2>2, <2>3 DEF s, w
<1> QED
  BY <1>7, <1>8, <1>9

(* More of the block was consumed.                                         *)
Took(p, n) == [p EXCEPT !.consumed = @ + n]
LEMMA TookIs ==
  ASSUME NEW p, IsParser(p), NEW n \in Nat
  PROVE  LET t == Took(p, n) IN
         /\ IsParser(t) /\ t.consumed = p.consumed + n
         /\ t.ota_ctx = p.ota_ctx /\ t.dfu = p.dfu /\ t.saved = p.saved /\ t.loaded = p.loaded
         /\ t.ok = p.ok /\ t.copied = p.copied
BY DEF IsParser, IsLibrary, Took

(* The end of the image: a sub-element header would follow.                *)
Ended(p, n) ==
  [p EXCEPT !.ota_ctx.process_bin_image = FALSE,
            !.ota_ctx.ota_subelement_fill_level = 0,
            !.ota_ctx.process_subelement_header = TRUE,
            !.ota_ctx.ota_image_processed = @ + n]
LEMMA EndedIs ==
  ASSUME NEW p, IsParser(p), NEW n \in Nat
  PROVE  LET t == Ended(p, n)
             d == t.ota_ctx
             c == p.ota_ctx
         IN  /\ IsParser(t)
             /\ d.process_bin_image = FALSE /\ d.ota_subelement_fill_level = 0
             /\ d.process_subelement_header = TRUE
             /\ d.ota_image_processed = c.ota_image_processed + n
             /\ Same(d, c, {"process_bin_image", "ota_subelement_fill_level",
                            "process_subelement_header", "ota_image_processed"})
             /\ t.consumed = p.consumed /\ t.dfu = p.dfu
             /\ t.saved = p.saved /\ t.loaded = p.loaded /\ t.ok = p.ok
<1> DEFINE c == p.ota_ctx
           m == c.ota_image_processed + n
           d == [c EXCEPT !.process_bin_image = FALSE,
                          !.ota_subelement_fill_level = 0,
                          !.process_subelement_header = TRUE,
                          !.ota_image_processed = m]
           t == Ended(p, n)
<1>1. IsContext(c) /\ m \in Nat
  <2>1. IsContext(c)
    BY DEF IsParser, IsLibrary
  <2> QED
    BY <2>1 DEF IsContext
<1>3. t = [p EXCEPT !.ota_ctx = d]
  BY DEF Ended, IsParser
<1> HIDE DEF m
<1>2. /\ IsContext(d)
      /\ d.process_bin_image = FALSE /\ d.ota_subelement_fill_level = 0
      /\ d.process_subelement_header = TRUE
      /\ d.ota_image_processed = m
      /\ Same(d, c, {"process_bin_image", "ota_subelement_fill_level",
                     "process_subelement_header", "ota_image_processed"})
  BY <1>1, ContextFields DEF IsContext, Same
<1> HIDE DEF c, d, t
<1>4. /\ IsParser(t) /\ t.ota_ctx = d /\ t.consumed = p.consumed /\ t.dfu = p.dfu
      /\ t.saved = p.saved /\ t.loaded = p.loaded /\ t.ok = p.ok
  BY <1>2, <1>3 DEF IsParser, IsLibrary
<1> QED
  BY <1>2, <1>4 DEF c, t, m

(* A block that lies in the image, from where the library stands.          *)
FirmwareResult(p, t, block) ==
  \/ IsParser(t) /\ t.ok = FALSE /\ t.consumed = p.consumed
  \/ /\ IsParser(t) /\ t.ok = TRUE /\ t.consumed = block.len
     /\ Consistent(t, block.version)
     /\ ota_file_offset(t) = block.offset + block.len
     /\ InImage(t.ota_ctx, DataLen(t)) \/ AtEnd(t.ota_ctx, DataLen(t))

(* What is in the targets and carried after the block.                     *)
FirmwareEnded(p, t, v, reached, len) ==
  /\ IsParser(t) /\ t.ok = TRUE /\ t.consumed = p.consumed + len
  /\ Consistent(t, v)
  /\ ota_file_offset(t) = BinStart + reached
  /\ InImage(t.ota_ctx, DataLen(t)) \/ AtEnd(t.ota_ctx, DataLen(t))

(* After a write the library is in the image, or at its end if the block   *)
(* ended it.                                                               *)
LEMMA FirmwareEnd ==
  ASSUME NEW p, NEW w, NEW v, NEW offset \in Nat, NEW len \in Nat,
         IsParser(p), InImage(p.ota_ctx, DataLen(p)), Consistent(p, v),
         Streams(w, v, offset + len), Kept(p, w), w.copied = len,
         IsFinal(offset, len) => w.ota_ctx.stream_carry = <<>>,
         offset + len <= BinSize
  PROVE  FirmwareEnded(p, FirmwareWritten(w, offset + len), v, offset + len, len)
<1> DEFINE u == Took(w, len)
           e == Ended(u, BinSize)
           t == FirmwareWritten(w, offset + len)
           c == p.ota_ctx
           d == w.ota_ctx
           reached == offset + len
<1>1. /\ IsParser(w) /\ w.ok = TRUE /\ w.consumed = p.consumed /\ p.consumed \in Nat
      /\ w.saved = p.saved /\ w.loaded = p.loaded
      /\ Same(d, c, {"stream_carry", "stream_carry_offset"})
      /\ w.dfu = w.dfu /\ d = w.ota_ctx
  BY DEF Streams, Kept, IsParser
<1>2. /\ d.mandatory_header_finished = TRUE /\ d.process_optional_header = FALSE
      /\ d.process_subelement_header = FALSE /\ d.process_bin_image = TRUE
      /\ d.ota_header_size = HeaderLen /\ d.total_size = TotalSize /\ d.bin_size = BinSize
      /\ d.ota_header_fill_level = HeaderLen
      /\ d.ota_subelement_fill_level = 0
      /\ d.ota_image_processed = c.ota_image_processed
      /\ d.target_file_version = c.target_file_version
      /\ HeaderLen + c.ota_image_processed = BinStart
      /\ c.total_size = TotalSize
  BY <1>1, ContextFields DEF InImage, Same
<1>3. c.ota_image_processed \in Nat
  BY DEF IsParser, IsLibrary, IsContext
<1>4. t = IF BinSize = reached THEN e ELSE u
  BY <1>1, <1>2 DEF FirmwareWritten, Took, Ended, IsParser
<1>5. /\ IsParser(u) /\ u.consumed = p.consumed + len /\ u.ota_ctx = d /\ u.dfu = w.dfu
      /\ u.saved = p.saved /\ u.loaded = p.loaded /\ u.ok = TRUE
  <2>1. /\ IsParser(u) /\ u.consumed = w.consumed + len
        /\ u.ota_ctx = w.ota_ctx /\ u.dfu = w.dfu /\ u.saved = w.saved /\ u.loaded = w.loaded
        /\ u.ok = w.ok /\ u.copied = w.copied
    BY ONLY <1>1, len \in Nat, TookIs
  <2> HIDE DEF u
  <2> QED
    BY ONLY <1>1, <2>1
<1> HIDE DEF t, u
<1>6. /\ DataLen(w) \in Nat /\ CarryLen(w) \in Nat /\ reached = DataLen(w) + CarryLen(w)
      /\ (d.stream_carry = <<>> <=> CarryLen(w) = 0) /\ CarryLen(w) < Align
      /\ From(w.dfu.data, v, BinStart)
      /\ From(d.stream_carry, v, BinStart + d.stream_carry_offset)
      /\ d.stream_carry # <<>> => d.stream_carry_offset = DataLen(w)
  BY <1>1, LengthsAre DEF Streams
<1>13. DataLen(w) <= BinSize
  BY <1>6, SizesAre
<1>7. MissingKnown(w)
  BY DEF Streams
<1>8. Consistent(u, v)
  <2>1. OfVersion(u, v)
    BY <1>2, <1>5, <1>6 DEF OfVersion, Consistent
  <2>2. Len(u.dfu.data) <= BinSize
    BY ONLY <1>5, <1>13 DEF DataLen
  <2>3. u.loaded = TRUE => u.ota_ctx.target_file_version # None /\ u.ota_ctx.total_size = TotalSize
    BY <1>2, <1>5 DEF Consistent
  <2>4. u.loaded = TRUE \/ u.dfu.ready = TRUE \/ u.dfu.data # <<>> => Missing(u.dfu)
    BY ONLY <1>1, <1>5, <1>7 DEF MissingKnown
  <2> QED
    BY ONLY <2>1, <2>2, <2>3, <2>4 DEF Consistent
<1>9. CASE BinSize # reached
  <2>1. t = u
    BY <1>4, <1>9
  <2>2. reached < BinSize /\ reached = DataLen(u) + CarryLen(u) /\ CarryLen(u) < Align
    <3>1. DataLen(u) = DataLen(w) /\ CarryLen(u) = CarryLen(w)
      BY ONLY <1>5 DEF DataLen, CarryLen
    <3>2. reached \in Nat /\ reached <= BinSize
      OBVIOUS
    <3> HIDE DEF reached
    <3> QED
      BY ONLY <1>6, <1>9, <3>1, <3>2, SizesAre
  <2>3. InImage(u.ota_ctx, DataLen(u))
    BY <1>2, <1>5, <1>6, <2>2 DEF InImage, DataLen, CarryLen
  <2>4. ota_file_offset(u) = BinStart + reached
    <3>1. IsContext(d) /\ Len(u.dfu.data) \in Nat
      BY <1>1, <1>5 DEF IsParser, IsLibrary, IsDfu
    <3>2. ota_file_offset(u) = d.ota_header_fill_level + d.ota_subelement_fill_level
                                 + d.ota_image_processed + (Len(u.dfu.data) + Len(d.stream_carry))
      <4>1. u.ota_ctx = d /\ d.process_bin_image = TRUE
        BY ONLY <1>2, <1>5
      <4> QED
        BY ONLY <3>1, <4>1, OffsetIs
    <3>3. Len(u.dfu.data) + Len(d.stream_carry) = reached
      BY ONLY <1>5, <2>2 DEF DataLen, CarryLen
    <3>4. ota_file_offset(u) = HeaderLen + 0 + c.ota_image_processed + reached
      BY ONLY <1>2, <3>2, <3>3
    <3>5. reached \in Nat
      OBVIOUS
    <3> HIDE DEF reached
    <3> QED
      BY ONLY <1>2, <1>3, <3>4, <3>5, SizesAre
  <2> QED
    BY <1>5, <1>8, <2>1, <2>3, <2>4 DEF t, FirmwareEnded
<1>10. CASE BinSize = reached
  <2>1. t = e
    BY <1>4, <1>10
  <2>2. IsFinal(offset, len)
    BY <1>10, SizesAre DEF IsFinal
  <2>3. d.stream_carry = <<>> /\ DataLen(w) = BinSize
    BY <1>6, <1>10, <2>2
  <2>4. /\ IsParser(e)
        /\ e.ota_ctx.process_bin_image = FALSE /\ e.ota_ctx.ota_subelement_fill_level = 0
        /\ e.ota_ctx.process_subelement_header = TRUE
        /\ e.ota_ctx.ota_image_processed = c.ota_image_processed + BinSize
        /\ Same(e.ota_ctx, d, {"process_bin_image", "ota_subelement_fill_level",
                               "process_subelement_header", "ota_image_processed"})
        /\ e.consumed = p.consumed + len /\ e.dfu = w.dfu
        /\ e.saved = p.saved /\ e.loaded = p.loaded /\ e.ok = TRUE
    <3>1. /\ IsParser(e)
          /\ e.ota_ctx.process_bin_image = FALSE /\ e.ota_ctx.ota_subelement_fill_level = 0
          /\ e.ota_ctx.process_subelement_header = TRUE
          /\ e.ota_ctx.ota_image_processed = u.ota_ctx.ota_image_processed + BinSize
          /\ Same(e.ota_ctx, u.ota_ctx, {"process_bin_image", "ota_subelement_fill_level",
                                         "process_subelement_header", "ota_image_processed"})
          /\ e.consumed = u.consumed /\ e.dfu = u.dfu
          /\ e.saved = u.saved /\ e.loaded = u.loaded /\ e.ok = u.ok
      BY ONLY <1>5, EndedIs, SizesAre
    <3> HIDE DEF e
    <3> QED
      BY ONLY <1>2, <1>5, <3>1
  <2> HIDE DEF e
  <2>5. /\ e.ota_ctx.mandatory_header_finished = TRUE /\ e.ota_ctx.process_optional_header = FALSE
        /\ e.ota_ctx.total_size = TotalSize /\ e.ota_ctx.ota_header_fill_level = HeaderLen
        /\ e.ota_ctx.stream_carry = <<>> /\ e.ota_ctx.target_file_version = c.target_file_version
    BY <1>2, <2>3, <2>4, ContextFields DEF Same
  <2>6. HeaderLen + (c.ota_image_processed + BinSize) = TotalSize
    <3> DEFINE x == c.ota_image_processed
    <3>1. x \in Nat /\ HeaderLen + x = BinStart
      BY ONLY <1>2, <1>3, SizesAre
    <3>2. HeaderLen + (x + BinSize) = TotalSize
      <4> HIDE DEF x
      <4> QED
        BY ONLY <3>1, SizesAre
    <3> QED
      BY <3>2
  <2>7. DataLen(e) = BinSize
    BY <2>3, <2>4 DEF DataLen
  <2>8. AtEnd(e.ota_ctx, DataLen(e))
    BY <2>4, <2>5, <2>6, <2>7 DEF AtEnd
  <2>9. Consistent(e, v)
    <3>1. OfVersion(e, v)
      BY <1>5, <1>6, <1>8, <2>4, <2>5, FromNothing DEF OfVersion, Consistent
    <3>2. Len(e.dfu.data) <= BinSize
      BY <2>7, SizesAre DEF DataLen
    <3>3. e.loaded = TRUE => e.ota_ctx.target_file_version # None /\ e.ota_ctx.total_size = TotalSize
      BY <2>4, <2>5 DEF Consistent
    <3>4. e.loaded = TRUE \/ e.dfu.ready = TRUE \/ e.dfu.data # <<>> => Missing(e.dfu)
      BY ONLY <1>1, <2>4, <1>7 DEF MissingKnown
    <3> QED
      BY ONLY <3>1, <3>2, <3>3, <3>4 DEF Consistent
  <2>10. ota_file_offset(e) = BinStart + reached
    <3>1. IsContext(e.ota_ctx) /\ Len(e.dfu.data) \in Nat
      BY <2>4 DEF IsParser, IsLibrary, IsDfu
    <3>2. ota_file_offset(e) = e.ota_ctx.ota_header_fill_level + e.ota_ctx.ota_subelement_fill_level
                                 + e.ota_ctx.ota_image_processed
      BY <2>4, <3>1, OffsetIs
    <3>3. ota_file_offset(e) = HeaderLen + 0 + (c.ota_image_processed + BinSize)
      BY ONLY <2>4, <2>5, <3>2
    <3> QED
      BY <1>3, <1>10, <2>6, <3>3, SizesAre
  <2> QED
    BY <2>1, <2>4, <2>8, <2>9, <2>10 DEF t, FirmwareEnded
<1> QED
  BY <1>9, <1>10

(* Where the library is in the image.                                      *)
LEMMA ImageOffset ==
  ASSUME NEW p, IsParser(p), InImage(p.ota_ctx, DataLen(p))
  PROVE  /\ ota_file_offset(p) = BinStart + (DataLen(p) + CarryLen(p))
         /\ p.ota_ctx.ota_header_fill_level + p.ota_ctx.ota_image_processed = BinStart
         /\ p.ota_ctx.bin_size = BinSize
<1> DEFINE c == p.ota_ctx
           k == DataLen(p) + CarryLen(p)
<1>1. IsContext(c) /\ Len(p.dfu.data) \in Nat
  BY DEF IsParser, IsLibrary, IsDfu
<1>2. /\ c.process_bin_image = TRUE /\ c.ota_header_fill_level = HeaderLen
      /\ c.ota_subelement_fill_level = 0 /\ HeaderLen + c.ota_image_processed = BinStart
      /\ c.bin_size = BinSize
  BY DEF InImage
<1>3. ota_file_offset(p) = c.ota_header_fill_level + c.ota_subelement_fill_level
                             + c.ota_image_processed + (Len(p.dfu.data) + Len(c.stream_carry))
  BY ONLY <1>1, <1>2, OffsetIs
<1>4. ota_file_offset(p) = HeaderLen + 0 + c.ota_image_processed + k
  BY ONLY <1>2, <1>3 DEF k, DataLen, CarryLen
<1>5. c.ota_image_processed \in Nat
  BY <1>1 DEF IsContext
<1>6. DataLen(p) \in Nat /\ CarryLen(p) \in Nat
  BY LengthsAre
<1>7. k \in Nat
  BY ONLY <1>6 DEF k
<1> HIDE DEF k
<1>8. ota_file_offset(p) = BinStart + k
  BY ONLY <1>2, <1>4, <1>5, <1>7, SizesAre
<1> QED
  BY <1>2, <1>8 DEF k

(* ota_process_firmware writes a block from where the library stands: it   *)
(* is refused, or it is all in the targets or carried.                     *)
LEMMA FirmwareIs ==
  ASSUME NEW p, IsParser(p), InImage(p.ota_ctx, DataLen(p)),
         NEW block, block.version \in Versions, block.offset \in Nat, block.len \in Nat,
         Consistent(p, block.version), p.consumed <= block.len,
         block.offset + block.len <= TotalSize,
         block.offset + p.consumed = ota_file_offset(p), NEW sync, NEW fault
  PROVE  FirmwareResult(p, ota_process_firmware(p, block, sync, fault), block)
<1> DEFINE v == block.version
           offset == block.offset + p.consumed
                       - (p.ota_ctx.ota_header_fill_level + p.ota_ctx.ota_image_processed)
           bytes == Bytes(block, p.consumed, block.len)
           len == Len(bytes)
           s == Ready(p, 0)
           w == StreamWritten(p, offset, bytes, IsFinal(offset, len), sync, fault)
           t == ota_process_firmware(p, block, sync, fault)
<1>1. DataLen(p) \in Nat /\ CarryLen(p) \in Nat /\ p.consumed \in Nat
  BY LengthsAre DEF IsParser
<1>2. /\ ota_file_offset(p) = BinStart + (DataLen(p) + CarryLen(p))
      /\ p.ota_ctx.ota_header_fill_level + p.ota_ctx.ota_image_processed = BinStart
      /\ p.ota_ctx.bin_size = BinSize
  BY ImageOffset
<1>3. /\ offset = DataLen(p) + CarryLen(p) /\ offset \in Nat
      /\ block.offset + p.consumed = BinStart + offset
  <2>1. offset = block.offset + p.consumed - BinStart
    BY ONLY <1>2
  <2> HIDE DEF offset
  <2>2. block.offset + p.consumed = BinStart + (DataLen(p) + CarryLen(p))
    BY <1>2
  <2> QED
    BY ONLY <1>1, <2>1, <2>2, SizesAre, block.offset \in Nat
<1>4. /\ bytes \in Seq(FileByte) /\ len = block.len - p.consumed
      /\ From(bytes, v, block.offset + p.consumed)
  BY <1>1, BytesAre
<1>5. len \in Nat /\ p.consumed + len = block.len
  BY <1>1, <1>4
<1>6. t = FirmwareWritten(w, offset + len)
  BY <1>2 DEF ota_process_firmware, StreamWritten, IsFinal
<1> HIDE DEF offset, bytes, len, t
<1>7. From(bytes, v, BinStart + offset)
  BY ONLY <1>3, <1>4
<1>8. offset + len <= BinSize /\ BinStart + (offset + len) = block.offset + block.len
  BY ONLY <1>1, <1>3, <1>5, SizesAre, block.offset \in Nat, block.len \in Nat,
          block.offset + block.len <= TotalSize
<1>9. Streams(s, v, offset)
  <2>1. /\ IsParser(s) /\ s.ok = TRUE /\ s.ota_ctx = p.ota_ctx /\ s.dfu = p.dfu
        /\ s.loaded = p.loaded
    BY ReadyIs
  <2> HIDE DEF s
  <2>2. From(p.dfu.data, v, BinStart)
        /\ From(p.ota_ctx.stream_carry, v, BinStart + p.ota_ctx.stream_carry_offset)
        /\ MissingKnown(p)
    BY DEF Consistent, OfVersion, MissingKnown
  <2>3. /\ p.ota_ctx.stream_carry # <<>> => p.ota_ctx.stream_carry_offset = DataLen(p)
        /\ CarryLen(p) < Align
    BY DEF InImage, CarryLen
  <2>4. DataLen(s) = DataLen(p) /\ CarryLen(s) = CarryLen(p)
    BY ONLY <2>1 DEF DataLen, CarryLen
  <2>5. MissingKnown(s)
    BY ONLY <2>1, <2>2 DEF MissingKnown
  <2> QED
    BY ONLY <1>3, <2>1, <2>2, <2>3, <2>4, <2>5 DEF Streams
<1>10. AlignedResult(s, w, v, offset, len)
  <2>1. w = StreamWritten(p, offset, bytes, IsFinal(offset, len), sync, fault)
    OBVIOUS
  <2>2. IsParser(p) /\ offset \in Nat /\ Streams(Ready(p, 0), v, offset) /\ bytes \in Seq(FileByte)
        /\ From(bytes, v, BinStart + offset) /\ len = Len(bytes)
    BY <1>3, <1>4, <1>7, <1>9 DEF len
  <2> QED
    BY ONLY <2>2, StreamWrittenIs
<1>11. s.consumed = p.consumed /\ s.ota_ctx = p.ota_ctx /\ s.saved = p.saved /\ s.loaded = p.loaded
  BY ReadyIs
<1> HIDE DEF s, w
<1>12. CASE Refusal(s, w)
  <2>1. t = Took(w, w.copied)
    BY <1>6, <1>12 DEF FirmwareWritten, Refusal, Took
  <2>2. IsParser(w) /\ w.copied = 0 /\ w.ok = FALSE /\ w.consumed = p.consumed /\ 0 \in Nat
    BY <1>11, <1>12 DEF Refusal
  <2>3. t = Took(w, 0)
    BY ONLY <2>1, <2>2
  <2>4. IsParser(t) /\ t.ok = FALSE /\ t.consumed = w.consumed + 0
    BY ONLY <2>2, <2>3, TookIs
  <2>5. t.consumed = p.consumed
    BY <1>1, <2>2, <2>4
  <2> QED
    BY <2>4, <2>5 DEF FirmwareResult, t
<1>13. CASE ~ Refusal(s, w)
  <2>1. /\ Streams(w, v, offset + len) /\ Kept(s, w) /\ w.copied = len
        /\ IsFinal(offset, len) => w.ota_ctx.stream_carry = <<>>
    BY ONLY <1>10, <1>13 DEF AlignedResult
  <2>2. Kept(p, w)
    BY ONLY <1>11, <2>1 DEF Kept
  <2> DEFINE u == FirmwareWritten(w, offset + len)
  <2>3. FirmwareEnded(p, u, v, offset + len, len)
    <3>1. IsParser(p) /\ InImage(p.ota_ctx, DataLen(p)) /\ Consistent(p, v)
      OBVIOUS
    <3>2. offset \in Nat /\ len \in Nat /\ offset + len <= BinSize
      BY ONLY <1>3, <1>5, <1>8
    <3> QED
      BY ONLY <2>1, <2>2, <3>1, <3>2, FirmwareEnd
  <2>4. t = u
    BY <1>6
  <2> HIDE DEF u
  <2>5. FirmwareResult(p, t, block)
    BY ONLY <1>5, <1>8, <2>3, <2>4 DEF FirmwareResult, FirmwareEnded
  <2> QED
    BY <2>5 DEF t
<1> QED
  BY <1>12, <1>13

-------------------------------------------------------------------------------
(* The headers of the sub-elements.                                        *)

(* A header behind which the block stands is that of one sub-element.      *)
LEMMA HeaderAtIs ==
  ASSUME NEW i \in DOMAIN ElementStart, NEW position, position = ElementStart[i] + SubLen
  PROVE  HeaderAt(position) = {i}
<1>1. position - SubLen = ElementStart[i]
  <2>1. ElementStart[i] \in Nat /\ SubLen \in Nat
    BY FileIs, FileAssumption
  <2> DEFINE e == ElementStart[i]
  <2> HIDE DEF e
  <2> QED
    BY <2>1 DEF e
<1>2. \A j \in DOMAIN ElementStart : ElementStart[i] = ElementStart[j] => i = j
  BY FileIs
<1> QED
  BY ONLY <1>1, <1>2, i \in DOMAIN ElementStart DEF HeaderAt

(* The contexts of the library: a part of the header was read; it was read *)
(* to its end, and its sub-element is passed over, or is the image.        *)
PartRead(c, n) == [c EXCEPT !.ota_subelement_fill_level = @ + n]
HeaderRead(c, n) == [c EXCEPT !.ota_subelement_fill_level = 0, !.ota_image_processed = @ + n]
ImageNext(c) ==
  [c EXCEPT !.ota_subelement_fill_level = 0, !.ota_image_processed = @ + SubLen,
            !.bin_size = BinSize, !.process_subelement_header = FALSE, !.process_bin_image = TRUE]

LEMMA PartReadIs ==
  ASSUME NEW c, IsContext(c), NEW n \in Nat
  PROVE  LET d == PartRead(c, n) IN
         /\ IsContext(d) /\ d.ota_subelement_fill_level = c.ota_subelement_fill_level + n
         /\ Same(d, c, {"ota_subelement_fill_level"})
<1> DEFINE m == c.ota_subelement_fill_level + n
           d == [c EXCEPT !.ota_subelement_fill_level = m]
<1>1. m \in Nat
  BY DEF IsContext
<1>2. PartRead(c, n) = d
  BY DEF PartRead
<1> HIDE DEF m
<1>3. IsContext(d) /\ d.ota_subelement_fill_level = m /\ Same(d, c, {"ota_subelement_fill_level"})
  BY <1>1, ContextFields DEF IsContext, Same
<1> QED
  BY <1>2, <1>3 DEF m

LEMMA HeaderReadIs ==
  ASSUME NEW c, IsContext(c), NEW n \in Nat
  PROVE  LET d == HeaderRead(c, n) IN
         /\ IsContext(d) /\ d.ota_subelement_fill_level = 0
         /\ d.ota_image_processed = c.ota_image_processed + n
         /\ Same(d, c, {"ota_subelement_fill_level", "ota_image_processed"})
<1> DEFINE m == c.ota_image_processed + n
           d == [c EXCEPT !.ota_subelement_fill_level = 0, !.ota_image_processed = m]
<1>1. m \in Nat
  BY DEF IsContext
<1>2. HeaderRead(c, n) = d
  BY DEF HeaderRead
<1> HIDE DEF m
<1>3. IsContext(d) /\ d.ota_subelement_fill_level = 0 /\ d.ota_image_processed = m
      /\ Same(d, c, {"ota_subelement_fill_level", "ota_image_processed"})
  BY <1>1, ContextFields DEF IsContext, Same
<1> QED
  BY <1>2, <1>3 DEF m

LEMMA ImageNextIs ==
  ASSUME NEW c, IsContext(c)
  PROVE  LET d == ImageNext(c) IN
         /\ IsContext(d) /\ d.ota_subelement_fill_level = 0
         /\ d.ota_image_processed = c.ota_image_processed + SubLen
         /\ d.bin_size = BinSize /\ d.process_subelement_header = FALSE
         /\ d.process_bin_image = TRUE
         /\ Same(d, c, {"ota_subelement_fill_level", "ota_image_processed", "bin_size",
                        "process_subelement_header", "process_bin_image"})
<1> DEFINE m == c.ota_image_processed + SubLen
           d == [c EXCEPT !.ota_subelement_fill_level = 0, !.ota_image_processed = m,
                          !.bin_size = BinSize, !.process_subelement_header = FALSE,
                          !.process_bin_image = TRUE]
<1>1. m \in Nat /\ BinSize \in Nat
  BY SizesAre, FileAssumption DEF IsContext
<1>2. ImageNext(c) = d
  BY DEF ImageNext
<1> HIDE DEF m
<1>3. /\ IsContext(d) /\ d.ota_subelement_fill_level = 0 /\ d.ota_image_processed = m
      /\ d.bin_size = BinSize /\ d.process_subelement_header = FALSE
      /\ d.process_bin_image = TRUE
      /\ Same(d, c, {"ota_subelement_fill_level", "ota_image_processed", "bin_size",
                     "process_subelement_header", "process_bin_image"})
  BY <1>1, ContextFields DEF IsContext, Same
<1> QED
  BY <1>2, <1>3 DEF m

(* What the parser does with the header of the sub-element i.              *)
Failing(p) == [p EXCEPT !.ok = FALSE]
LEMMA FailingIs ==
  ASSUME NEW p, IsParser(p)
  PROVE  /\ IsParser(Failing(p)) /\ Failing(p).ok = FALSE
         /\ Failing(p).ota_ctx = p.ota_ctx /\ Failing(p).dfu = p.dfu
         /\ Failing(p).saved = p.saved /\ Failing(p).loaded = p.loaded
         /\ Failing(p).consumed = p.consumed
BY DEF IsParser, IsLibrary, Failing

(* How much of the header the block holds, and the parser when the image   *)
(* begins.                                                                 *)
PartLeft(p, block) == Smaller(SubLen - p.ota_ctx.ota_subelement_fill_level, Left(p, block))
BeginImage(p, n, downloading, fault) ==
  LET image == Moved(p, ImageNext(p.ota_ctx), p.consumed + n, n)
  IN  IF fault = "init" THEN Failing(image)
      ELSE ota_resume_save(WithDfu(image, init_default(p.dfu)), downloading, fault)

(* ota_process_subelement_header by what it finds: the header goes on in   *)
(* the next block, or it is that of a sub-element passed over, or that of  *)
(* the image.                                                              *)
LEMMA HeaderCases ==
  ASSUME NEW p, IsParser(p), NEW block, NEW downloading, NEW fault, NEW i,
         PartLeft(p, block) \in Nat, HeaderAt(block.offset + (p.consumed + PartLeft(p, block))) = {i}
  PROVE  LET t == ota_process_subelement_header(p, block, downloading, fault)
             c == p.ota_ctx
             n == PartLeft(p, block)
             m == p.consumed + n
             k == Smaller(block.len - m, ElementLen(i))
             image == Moved(p, ImageNext(c), m, n)
         IN  /\ c.ota_subelement_fill_level + n < SubLen => t = Moved(p, PartRead(c, n), m, n)
             /\ ~ (c.ota_subelement_fill_level + n < SubLen) /\ i # Len(Skipped) + 1 =>
                  t = Moved(p, HeaderRead(c, SubLen + ElementLen(i)), m + k, n + k)
             /\ ~ (c.ota_subelement_fill_level + n < SubLen) /\ i = Len(Skipped) + 1 =>
                  t = BeginImage(p, n, downloading, fault)
<1> DEFINE c == p.ota_ctx
           n == PartLeft(p, block)
           m == p.consumed + n
           k == Smaller(block.len - m, ElementLen(i))
           t == ota_process_subelement_header(p, block, downloading, fault)
           t1 == Consume([p EXCEPT !.ota_ctx.ota_subelement_fill_level = @ + n], n)
           u1 == [t1 EXCEPT !.ota_ctx.ota_image_processed = @ + SubLen,
                            !.ota_ctx.ota_subelement_fill_level = 0]
           image == [u1 EXCEPT !.ota_ctx.bin_size = BinSize,
                               !.ota_ctx.process_subelement_header = FALSE,
                               !.ota_ctx.process_bin_image = TRUE]
           element == HeaderAt(block.offset + t1.consumed)
           len == IF element = {} THEN 0 ELSE ElementLen(CHOOSE j \in element : TRUE)
           left == Smaller(Left(t1, block), len)
           next == [u1 EXCEPT !.ota_ctx.ota_image_processed = @ + len,
                              !.consumed = @ + left, !.copied = @ + left]
<1>0. /\ DOMAIN p = {"ota_ctx", "dfu", "saved", "loaded", "consumed", "copied", "ok"}
      /\ DOMAIN c = DOMAIN ResetContext /\ c.ota_image_processed \in Nat
  BY DEF IsParser, IsLibrary, IsContext
<1>1. t = IF t1.ota_ctx.ota_subelement_fill_level < SubLen THEN t1
          ELSE IF element = {Len(Skipped) + 1}
          THEN IF fault = "init" THEN [image EXCEPT !.ok = FALSE]
               ELSE ota_resume_save([image EXCEPT !.dfu = init_default(@)], downloading, fault)
          ELSE next
  BY DEF ota_process_subelement_header, PartLeft
<1>2. t1 = Moved(p, PartRead(c, n), m, n)
  BY <1>0 DEF Consume, Moved, PartRead
<1> HIDE DEF t, n, m
<1>3. t1.ota_ctx = PartRead(c, n) /\ t1.consumed = m /\ t1.copied = n /\ t1.dfu = p.dfu
      /\ t1.ota_ctx.ota_subelement_fill_level = c.ota_subelement_fill_level + n
      /\ DOMAIN t1 = DOMAIN p
  <2> HIDE DEF t1
  <2> QED
    BY <1>0, <1>2, ContextFields DEF Moved, PartRead
<1>4. element = {i}
  <2> HIDE DEF t1
  <2>1. t1.consumed = m
    BY <1>3
  <2>2. element = HeaderAt(block.offset + m)
    BY <2>1
  <2> HIDE DEF element
  <2> QED
    BY <2>2 DEF m, n
<1> HIDE DEF t1, element
<1>5. u1 = Moved(p, HeaderRead(c, SubLen), m, n)
  <2> DEFINE q == PartRead(c, n)
             r == [q EXCEPT !.ota_image_processed = @ + SubLen, !.ota_subelement_fill_level = 0]
  <2>1. u1 = [t1 EXCEPT !.ota_ctx = r]
    BY <1>0, <1>3
  <2>2. r = HeaderRead(c, SubLen)
    BY <1>0, ContextFields DEF PartRead, HeaderRead
  <2> HIDE DEF u1, q, r
  <2>3. [t1 EXCEPT !.ota_ctx = r] = Moved(p, r, m, n)
    BY ONLY <1>0, <1>2 DEF Moved
  <2> QED
    BY ONLY <2>1, <2>2, <2>3
<1> HIDE DEF u1
<1> DEFINE h == HeaderRead(c, SubLen)
<1>6. /\ DOMAIN u1 = DOMAIN p /\ u1.ota_ctx = h /\ u1.dfu = p.dfu
      /\ u1.consumed = m /\ u1.copied = n /\ DOMAIN h = DOMAIN ResetContext
      /\ h.ota_image_processed = c.ota_image_processed + SubLen
  BY <1>0, <1>5, ContextFields DEF Moved, HeaderRead
<1>7. image = Moved(p, ImageNext(c), m, n) /\ image.dfu = p.dfu /\ "dfu" \in DOMAIN image
  <2>1. [h EXCEPT !.bin_size = BinSize, !.process_subelement_header = FALSE,
                  !.process_bin_image = TRUE] = ImageNext(c)
    BY <1>0, ContextFields DEF HeaderRead, ImageNext
  <2> HIDE DEF h
  <2>2. image = [u1 EXCEPT !.ota_ctx = [h EXCEPT !.bin_size = BinSize,
                                                 !.process_subelement_header = FALSE,
                                                 !.process_bin_image = TRUE]]
    BY <1>0, <1>6, ContextFields
  <2>3. image = [u1 EXCEPT !.ota_ctx = ImageNext(c)]
    BY ONLY <2>1, <2>2
  <2>4. image = Moved(p, ImageNext(c), m, n)
    <3> HIDE DEF image
    <3> QED
      BY ONLY <1>0, <1>5, <2>3 DEF Moved
  <2> HIDE DEF image
  <2> QED
    BY ONLY <1>0, <2>4 DEF Moved
<1>8. [image EXCEPT !.ok = FALSE] = Failing(image)
      /\ [image EXCEPT !.dfu = init_default(@)] = WithDfu(image, init_default(p.dfu))
  <2> HIDE DEF image
  <2> QED
    BY <1>7 DEF Failing, WithDfu
<1>9. ASSUME i # Len(Skipped) + 1
      PROVE  next = Moved(p, HeaderRead(c, SubLen + ElementLen(i)), m + k, n + k)
  <2>1. i \in DOMAIN ElementStart
    BY <1>4 DEF HeaderAt, element
  <2>2. ElementLen(i) \in Nat /\ SubLen \in Nat
    BY <2>1, ElementsAre, ElementLenIs, FileAssumption
  <2>3. len = ElementLen(i)
    BY <1>4
  <2>4. left = k
    BY <1>3, <2>3 DEF Left
  <2> DEFINE e == ElementLen(i)
             a == c.ota_image_processed + SubLen
             b == c.ota_image_processed + (SubLen + e)
             x == [h EXCEPT !.ota_image_processed = b]
  <2>5. a + e = b
    <3>1. e \in Nat
      BY <2>2
    <3> HIDE DEF e
    <3> QED
      BY ONLY <1>0, <2>2, <3>1 DEF a, b
  <2> HIDE DEF left, k, len, e
  <2>6. x = HeaderRead(c, SubLen + e)
    BY <1>0, ContextFields DEF HeaderRead, b
  <2> HIDE DEF b, h
  <2>7. next = [u1 EXCEPT !.ota_ctx.ota_image_processed = @ + e, !.consumed = @ + k, !.copied = @ + k]
    BY <2>3, <2>4 DEF e
  <2> HIDE DEF next
  <2>8. u1.ota_ctx.ota_image_processed + e = b
    BY ONLY <1>6, <2>5 DEF a
  <2>9. next = [u1 EXCEPT !.ota_ctx = x, !.consumed = m + k, !.copied = n + k]
    BY ONLY <1>0, <1>6, <2>7, <2>8, ContextFields DEF x
  <2> HIDE DEF x
  <2>10. next = Moved(p, x, m + k, n + k)
    BY ONLY <1>0, <1>5, <2>9 DEF Moved
  <2> QED
    BY ONLY <2>6, <2>10 DEF e
<1> HIDE DEF image, next, k
<1>10. element = {Len(Skipped) + 1} <=> i = Len(Skipped) + 1
  BY <1>4
<1> QED
  BY <1>1, <1>2, <1>3, <1>7, <1>8, <1>9, <1>10 DEF t, n, m, k, c, BeginImage

(* Where the library stands in a header.                                   *)
HeaderOffset(c) == HeaderLen + c.ota_image_processed + c.ota_subelement_fill_level

LEMMA OffsetInHeader ==
  ASSUME NEW p, IsParser(p), InHeader(p.ota_ctx)
  PROVE  ota_file_offset(p) = HeaderOffset(p.ota_ctx) /\ HeaderOffset(p.ota_ctx) \in Nat
<1> DEFINE c == p.ota_ctx
<1>1. IsContext(c) /\ Len(p.dfu.data) \in Nat
  BY DEF IsParser, IsLibrary, IsDfu
<1>2. c.process_bin_image = FALSE /\ c.ota_header_fill_level = HeaderLen
  BY DEF InHeader
<1>3. ota_file_offset(p) = c.ota_header_fill_level + c.ota_subelement_fill_level
                             + c.ota_image_processed
  BY ONLY <1>1, <1>2, OffsetIs
<1>4. c.ota_subelement_fill_level \in Nat /\ c.ota_image_processed \in Nat /\ HeaderLen \in Nat
  BY <1>1, SizesAre DEF IsContext
<1> QED
  BY ONLY <1>2, <1>3, <1>4 DEF HeaderOffset

(* What is read is part of the block and of the header.                    *)
LEMMA ReadIs ==
  ASSUME NEW p, IsParser(p), InHeader(p.ota_ctx), NEW block, block.len \in Nat,
         p.consumed < block.len
  PROVE  LET n == PartLeft(p, block)
             fill == p.ota_ctx.ota_subelement_fill_level + n
         IN  /\ n \in Nat /\ n > 0 /\ p.consumed + n \in Nat /\ p.consumed + n <= block.len
             /\ fill <= SubLen /\ fill \in Nat
             /\ fill < SubLen => p.consumed + n = block.len
<1> DEFINE f == p.ota_ctx.ota_subelement_fill_level
<1>1. p.consumed \in Nat /\ f \in Nat /\ f < SubLen /\ SubLen \in Nat
  BY FileAssumption DEF IsParser, IsLibrary, IsContext, InHeader
<1>2. PartLeft(p, block) = Smaller(SubLen - f, block.len - p.consumed)
  BY DEF PartLeft, Left
<1> DEFINE n == PartLeft(p, block)
           len == block.len
           m == p.consumed
<1>3. len \in Nat /\ m \in Nat /\ m < len
  BY <1>1
<1> HIDE DEF f, len, m, n
<1>4. n = Smaller(SubLen - f, len - m)
  BY <1>2 DEF f, len, m, n
<1>5. /\ n \in Nat /\ n > 0 /\ m + n \in Nat /\ m + n <= len
      /\ f + n <= SubLen /\ f + n \in Nat
      /\ f + n < SubLen => m + n = len
  BY ONLY <1>1, <1>3, <1>4 DEF Smaller
<1> QED
  BY <1>5 DEF f, n, len, m

(* The library after a turn for the header of a sub-element.               *)
HeaderResult(p, t, block) ==
  /\ IsParser(t) /\ t.consumed <= block.len /\ p.consumed < t.consumed
  /\ Consistent(t, block.version) /\ t.dfu.data = <<>>
  /\ \/ InHeader(t.ota_ctx) /\ t.ok = TRUE
     \/ InImage(t.ota_ctx, 0)
  /\ \/ t.consumed = block.len /\ InHeader(t.ota_ctx)
     \/ block.offset + t.consumed = ota_file_offset(t)

(* What stays consistent if only the place in the headers changes.         *)
LEMMA StaysConsistent ==
  ASSUME NEW p, NEW t, NEW v, Consistent(p, v), t.dfu = p.dfu, t.saved = p.saved, t.loaded = p.loaded,
         t.ota_ctx.target_file_version = p.ota_ctx.target_file_version,
         t.ota_ctx.total_size = p.ota_ctx.total_size,
         t.ota_ctx.stream_carry = p.ota_ctx.stream_carry,
         t.ota_ctx.stream_carry_offset = p.ota_ctx.stream_carry_offset
  PROVE  Consistent(t, v)
<1>1. OfVersion(t, v)
  BY DEF Consistent, OfVersion
<1>2. Len(t.dfu.data) <= BinSize
  BY DEF Consistent
<1>3. t.loaded = TRUE => t.ota_ctx.target_file_version # None /\ t.ota_ctx.total_size = TotalSize
  BY DEF Consistent
<1>4. t.loaded = TRUE \/ t.dfu.ready = TRUE \/ t.dfu.data # <<>> => Missing(t.dfu)
  BY DEF Consistent
<1> QED
  BY ONLY <1>1, <1>2, <1>3, <1>4 DEF Consistent

(* The header continues in the next block.                                 *)
LEMMA HeaderContinues ==
  ASSUME NEW p, IsParser(p), InHeader(p.ota_ctx), p.ok = TRUE, p.dfu.data = <<>>,
         NEW block, block.len \in Nat, p.consumed < block.len,
         Consistent(p, block.version),
         p.ota_ctx.ota_subelement_fill_level + PartLeft(p, block) < SubLen
  PROVE  HeaderResult(p, Moved(p, PartRead(p.ota_ctx, PartLeft(p, block)),
                               p.consumed + PartLeft(p, block), PartLeft(p, block)), block)
<1> DEFINE n == PartLeft(p, block)
           m == p.consumed + n
           c == p.ota_ctx
           d == PartRead(c, n)
           t == Moved(p, d, m, n)
<1>1. n \in Nat /\ n > 0 /\ m \in Nat /\ m = block.len /\ p.consumed < m
  BY ReadIs
<1>2. c.ota_subelement_fill_level + n < SubLen
  OBVIOUS
<1> HIDE DEF n, m
<1>3. IsContext(c)
  BY DEF IsParser, IsLibrary
<1>4. IsContext(d) /\ d.ota_subelement_fill_level = c.ota_subelement_fill_level + n
      /\ Same(d, c, {"ota_subelement_fill_level"})
  BY <1>1, <1>3, PartReadIs
<1> HIDE DEF d
<1>5. InHeader(d)
  BY <1>2, <1>4, ContextFields DEF InHeader, Same
<1>6. /\ IsParser(t) /\ t.ota_ctx = d /\ t.consumed = m /\ t.dfu = p.dfu /\ t.saved = p.saved
      /\ t.loaded = p.loaded /\ t.ok = p.ok
  BY ONLY <1>1, <1>4, IsParser(p), MovedIs DEF t
<1> HIDE DEF t
<1>7. Consistent(t, block.version)
  <2>1. /\ t.ota_ctx.target_file_version = p.ota_ctx.target_file_version
        /\ t.ota_ctx.total_size = p.ota_ctx.total_size
        /\ t.ota_ctx.stream_carry = p.ota_ctx.stream_carry
        /\ t.ota_ctx.stream_carry_offset = p.ota_ctx.stream_carry_offset
    BY <1>4, <1>6, ContextFields DEF Same
  <2> QED
    BY <1>6, <2>1, StaysConsistent
<1>8. t.consumed <= block.len
  BY <1>1, <1>6
<1>9. HeaderResult(p, t, block)
  BY <1>1, <1>5, <1>6, <1>7, <1>8 DEF HeaderResult
<1> QED
  BY <1>9 DEF t, d, m, n

(* A sub-element the library does not know is passed over.                 *)
LEMMA ElementSkipped ==
  ASSUME NEW p, IsParser(p), InHeader(p.ota_ctx), p.ok = TRUE, p.dfu.data = <<>>,
         NEW block, block.len \in Nat, block.offset \in Nat, p.consumed < block.len,
         Consistent(p, block.version),
         block.offset + p.consumed = ota_file_offset(p),
         ~ (p.ota_ctx.ota_subelement_fill_level + PartLeft(p, block) < SubLen),
         NEW i \in DOMAIN ElementStart, i # Len(Skipped) + 1,
         HeaderLen + p.ota_ctx.ota_image_processed = ElementStart[i]
  PROVE  LET n == PartLeft(p, block)
             m == p.consumed + n
             k == Smaller(block.len - m, ElementLen(i))
         IN  HeaderResult(p, Moved(p, HeaderRead(p.ota_ctx, SubLen + ElementLen(i)), m + k, n + k),
                          block)
<1> DEFINE n == PartLeft(p, block)
           m == p.consumed + n
           e == ElementLen(i)
           k == Smaller(block.len - m, e)
           c == p.ota_ctx
           f == c.ota_subelement_fill_level
           d == HeaderRead(c, SubLen + e)
           t == Moved(p, d, m + k, n + k)
           len == block.len
<1>0. p.consumed \in Nat /\ f \in Nat /\ c.ota_image_processed \in Nat /\ IsContext(c)
  BY DEF IsParser, IsLibrary, IsContext
<1>1. n \in Nat /\ n > 0 /\ m \in Nat /\ m <= len /\ f + n = SubLen
  <2>1. /\ n \in Nat /\ n > 0 /\ m \in Nat /\ m <= len
        /\ f + n <= SubLen /\ f + n \in Nat
    BY ReadIs
  <2> HIDE DEF n, m, f
  <2> QED
    BY <2>1, FileAssumption DEF f, n
<1>2. /\ i \in 1 .. Len(Skipped) /\ e \in Nat /\ SubLen \in Nat \ {0}
      /\ i + 1 \in DOMAIN ElementStart /\ ElementStart[i + 1] = ElementStart[i] + SubLen + e
      /\ ElementStart[i] \in Nat
  <2>1. Len(Skipped) \in Nat /\ DOMAIN ElementStart = 1 .. Len(Skipped) + 1
        /\ \A j \in 1 .. Len(Skipped) : ElementStart[j + 1] = ElementStart[j] + SubLen + ElementLen(j)
    BY ElementsAre
  <2>2. i \in 1 .. Len(Skipped) /\ i + 1 \in DOMAIN ElementStart
    BY ONLY <2>1, i \in DOMAIN ElementStart, i # Len(Skipped) + 1
  <2>3. ElementLen(i) \in Nat
    BY <2>2, ElementLenIs
  <2>4. ElementStart[i] \in Nat
    BY FileIs
  <2> QED
    BY <2>1, <2>2, <2>3, <2>4, FileAssumption
<1>3. k \in Nat /\ m + k <= len /\ (m + k < len => k = e)
  <2> HIDE DEF m, e, len
  <2>1. len \in Nat /\ m \in Nat /\ m <= len /\ e \in Nat
    BY <1>1, <1>2 DEF len
  <2>2. k = Smaller(len - m, e)
    BY DEF k, len
  <2> HIDE DEF k
  <2> QED
    BY ONLY <2>1, <2>2 DEF Smaller
<1>4. block.offset + p.consumed = HeaderLen + c.ota_image_processed + f
  BY OffsetInHeader DEF HeaderOffset
<1> HIDE DEF k, m, n, e, f
<1>5. SubLen + e \in Nat /\ m + k \in Nat /\ n + k \in Nat
  BY ONLY <1>1, <1>2, <1>3
<1>6. IsContext(d) /\ d.ota_subelement_fill_level = 0
      /\ d.ota_image_processed = c.ota_image_processed + (SubLen + e)
      /\ Same(d, c, {"ota_subelement_fill_level", "ota_image_processed"})
  BY ONLY <1>0, <1>5, HeaderReadIs DEF d
<1> HIDE DEF d
<1>7. InHeader(d)
  <2>1. HeaderLen + (c.ota_image_processed + (SubLen + e)) = ElementStart[i + 1]
    <3> DEFINE x == c.ota_image_processed
               y == ElementStart[i]
               z == ElementStart[i + 1]
    <3>1. x \in Nat /\ y \in Nat /\ z = y + SubLen + e /\ HeaderLen + x = y /\ HeaderLen \in Nat
      BY <1>0, <1>2, SizesAre
    <3> HIDE DEF x, y, z
    <3>2. HeaderLen + (x + (SubLen + e)) = z
      BY ONLY <1>2, <3>1
    <3> QED
      BY ONLY <3>2 DEF x, z
  <2>2. \E j \in DOMAIN ElementStart : HeaderLen + d.ota_image_processed = ElementStart[j]
    BY <1>2, <1>6, <2>1
  <2>3. 0 < SubLen
    BY <1>2
  <2> QED
    BY <1>6, <2>2, <2>3, ContextFields DEF InHeader, Same
<1>8. /\ IsParser(t) /\ t.ota_ctx = d /\ t.consumed = m + k /\ t.dfu = p.dfu /\ t.saved = p.saved
      /\ t.loaded = p.loaded /\ t.ok = p.ok
  <2> DEFINE a == m + k
             b == n + k
  <2>1. a \in Nat /\ b \in Nat /\ IsContext(d) /\ t = Moved(p, d, a, b)
    BY ONLY <1>5, <1>6 DEF t
  <2> HIDE DEF a, b, t
  <2>2. /\ IsParser(t) /\ t.ota_ctx = d /\ t.consumed = a /\ t.dfu = p.dfu /\ t.saved = p.saved
        /\ t.loaded = p.loaded /\ t.ok = p.ok
    BY ONLY <2>1, IsParser(p), MovedIs
  <2> QED
    BY ONLY <2>2 DEF a
<1> HIDE DEF t
<1>9. Consistent(t, block.version)
  <2>1. /\ t.ota_ctx.target_file_version = p.ota_ctx.target_file_version
        /\ t.ota_ctx.total_size = p.ota_ctx.total_size
        /\ t.ota_ctx.stream_carry = p.ota_ctx.stream_carry
        /\ t.ota_ctx.stream_carry_offset = p.ota_ctx.stream_carry_offset
    BY <1>6, <1>8, ContextFields DEF Same
  <2> QED
    BY <1>8, <2>1, StaysConsistent
<1>10. t.consumed <= block.len /\ p.consumed < t.consumed
  <2>1. m = p.consumed + n
    BY DEF m
  <2> QED
    BY <1>0, <1>1, <1>3, <1>8, <2>1 DEF len
<1>11. t.consumed = block.len \/ block.offset + t.consumed = ota_file_offset(t)
  <2>1. CASE m + k = len
    BY <1>8, <2>1 DEF len
  <2>2. CASE m + k # len
    <3>1. k = e
      BY ONLY <1>1, <1>3, <1>5, <2>2, block.len \in Nat DEF len
    <3>2. ota_file_offset(t) = HeaderLen + (c.ota_image_processed + (SubLen + e)) + 0
      BY <1>6, <1>7, <1>8, OffsetInHeader DEF HeaderOffset
    <3>3. t.consumed = (p.consumed + n) + e
      BY <1>8, <3>1 DEF m
    <3> DEFINE x == c.ota_image_processed
               o == block.offset
               q == p.consumed
    <3>4. /\ x \in Nat /\ o + q = HeaderLen + x + f /\ HeaderLen \in Nat
          /\ f \in Nat /\ f + n = SubLen /\ n \in Nat /\ q \in Nat /\ e \in Nat /\ o \in Nat
      BY <1>0, <1>1, <1>2, <1>4, SizesAre DEF f
    <3> HIDE DEF x, o, q
    <3> DEFINE y == x + (SubLen + e)
    <3>6. o + ((q + n) + e) = (o + q) + (n + e)
      BY ONLY <3>4
    <3>8. y = x + ((f + n) + e) /\ y \in Nat
      BY ONLY <3>4
    <3> HIDE DEF y
    <3>9. (o + q) + (n + e) = (HeaderLen + x + f) + (n + e)
      BY ONLY <3>4
    <3>10. (HeaderLen + x + f) + (n + e) = HeaderLen + y + 0
      BY ONLY <3>4, <3>8
    <3>7. o + ((q + n) + e) = HeaderLen + (x + (SubLen + e)) + 0
      BY ONLY <3>6, <3>9, <3>10 DEF y
    <3> QED
      BY ONLY <3>2, <3>3, <3>7 DEF x, o, q
  <2> QED
    BY <2>1, <2>2
<1>12. HeaderResult(p, t, block)
  BY <1>7, <1>8, <1>9, <1>10, <1>11 DEF HeaderResult
<1> QED
  BY <1>12 DEF t, d, k, m, n, e

(* init_default opens the targets and knows that every image is missing.   *)
LEMMA InitDefaultIs ==
  ASSUME NEW d, IsDfu(d)
  PROVE  /\ IsDfu(init_default(d)) /\ init_default(d).data = d.data
         /\ init_default(d).ready = TRUE /\ Missing(init_default(d))
<1> DEFINE e == init_default(d)
<1>1. DOMAIN e = DOMAIN d /\ e.data = d.data /\ e.ready = TRUE /\ e.images_to_download = ImageEnds
  BY DEF IsDfu, init_default
<1> HIDE DEF e
<1> QED
  BY <1>1 DEF IsDfu, Missing, e

(* The parser with a resume state saved.                                   *)
WithSaved(p, s) == [p EXCEPT !.saved = s]
LEMMA WithSavedIs ==
  ASSUME NEW p, IsParser(p), NEW s, IsResumeState(s)
  PROVE  LET t == WithSaved(p, s) IN
         /\ IsParser(t) /\ t.saved = s /\ t.ota_ctx = p.ota_ctx /\ t.dfu = p.dfu
         /\ t.loaded = p.loaded /\ t.consumed = p.consumed /\ t.ok = p.ok
BY DEF IsParser, IsLibrary, WithSaved

(* The resume state that is saved in the image.                            *)
LEMMA ResumeStateIs ==
  ASSUME NEW c, IsContext(c), c.target_file_version # None, c.total_size = TotalSize,
         c.ota_header_size = HeaderLen, HeaderLen + c.ota_image_processed = BinStart,
         c.bin_size = BinSize
  PROVE  IsResumeState(ResumeState(c)) /\ ResumeState(c).target_file_version = c.target_file_version
<1> DEFINE s == ResumeState(c)
<1>1. /\ DOMAIN s = {"target_file_version", "target_file_size", "ota_header_size",
                     "ota_image_processed", "bin_size"}
      /\ s.target_file_version = c.target_file_version /\ s.target_file_size = c.total_size
      /\ s.ota_header_size = c.ota_header_size /\ s.ota_image_processed = c.ota_image_processed
      /\ s.bin_size = c.bin_size
  BY DEF ResumeState
<1> HIDE DEF s
<1>2. c.target_file_version \in Versions /\ c.ota_image_processed \in Nat
  BY DEF IsContext
<1> QED
  BY <1>1, <1>2 DEF IsResumeState, s

(* The resume state that is saved, if it can be, is that of the download.  *)
LEMMA ResumeSaved ==
  ASSUME NEW p, IsParser(p), InImage(p.ota_ctx, 0), NEW v, Consistent(p, v), NEW downloading,
         NEW fault
  PROVE  LET t == ota_resume_save(p, downloading, fault) IN
         /\ IsParser(t) /\ Consistent(t, v) /\ t.ota_ctx = p.ota_ctx /\ t.dfu = p.dfu
         /\ t.loaded = p.loaded /\ t.consumed = p.consumed /\ t.ok = p.ok
<1> DEFINE c == p.ota_ctx
           s == ResumeState(c)
           u == WithSaved(p, s)
           t == ota_resume_save(p, downloading, fault)
<1>1. CASE ~ (ota_resume_can_save(c, downloading) /\ fault # "save")
  <2>1. t = p
    BY <1>1 DEF ota_resume_save
  <2> QED
    BY <2>1
<1>2. CASE ota_resume_can_save(c, downloading) /\ fault # "save"
  <2>1. t = u
    BY <1>2 DEF ota_resume_save, WithSaved
  <2>2. /\ IsContext(c) /\ c.target_file_version # None /\ c.total_size = TotalSize
        /\ c.ota_header_size = HeaderLen /\ HeaderLen + c.ota_image_processed = BinStart
        /\ c.bin_size = BinSize
    BY <1>2 DEF ota_resume_can_save, InImage, IsParser, IsLibrary
  <2>3. IsResumeState(s) /\ s.target_file_version = c.target_file_version
    BY <2>2, ResumeStateIs
  <2> HIDE DEF s
  <2>4. /\ IsParser(u) /\ u.saved = s /\ u.ota_ctx = p.ota_ctx /\ u.dfu = p.dfu
        /\ u.loaded = p.loaded /\ u.consumed = p.consumed /\ u.ok = p.ok
    BY <2>3, WithSavedIs
  <2> HIDE DEF u, t
  <2>5. s.target_file_version = v
    BY <2>2, <2>3 DEF Consistent, OfVersion
  <2>6. Consistent(u, v)
    <3>1. OfVersion(u, v)
      BY <2>4, <2>5 DEF Consistent, OfVersion
    <3>2. Len(u.dfu.data) <= BinSize
      BY <2>4 DEF Consistent
    <3>3. u.loaded = TRUE => u.ota_ctx.target_file_version # None /\ u.ota_ctx.total_size = TotalSize
      BY <2>4 DEF Consistent
    <3>4. u.loaded = TRUE \/ u.dfu.ready = TRUE \/ u.dfu.data # <<>> => Missing(u.dfu)
      BY <2>4 DEF Consistent
    <3> QED
      BY ONLY <3>1, <3>2, <3>3, <3>4 DEF Consistent
  <2> QED
    BY <2>1, <2>4, <2>6 DEF t
<1> QED
  BY <1>1, <1>2

(* The sub-element is the image: the targets are initialised, or cannot    *)
(* be, and the resume state is saved.                                      *)
LEMMA ImageBegins ==
  ASSUME NEW p, IsParser(p), InHeader(p.ota_ctx), p.ok = TRUE, p.dfu.data = <<>>,
         NEW block, block.len \in Nat, block.offset \in Nat, p.consumed < block.len,
         Consistent(p, block.version),
         block.offset + p.consumed = ota_file_offset(p),
         ~ (p.ota_ctx.ota_subelement_fill_level + PartLeft(p, block) < SubLen),
         HeaderLen + p.ota_ctx.ota_image_processed = ElementStart[Len(Skipped) + 1],
         NEW downloading, NEW fault
  PROVE  LET n == PartLeft(p, block)
             image == Moved(p, ImageNext(p.ota_ctx), p.consumed + n, n)
             t == IF fault = "init" THEN Failing(image)
                  ELSE ota_resume_save(WithDfu(image, init_default(p.dfu)), downloading, fault)
         IN  HeaderResult(p, t, block)
<1> DEFINE n == PartLeft(p, block)
           m == p.consumed + n
           c == p.ota_ctx
           f == c.ota_subelement_fill_level
           v == block.version
           d == ImageNext(c)
           image == Moved(p, d, m, n)
           x == WithDfu(image, init_default(p.dfu))
<1>0. p.consumed \in Nat /\ f \in Nat /\ c.ota_image_processed \in Nat /\ IsContext(c) /\ IsDfu(p.dfu)
  BY DEF IsParser, IsLibrary, IsContext
<1>1. n \in Nat /\ n > 0 /\ m \in Nat /\ m <= block.len /\ f + n = SubLen /\ p.consumed < m
  <2>1. /\ n \in Nat /\ n > 0 /\ m \in Nat /\ m <= block.len
        /\ f + n <= SubLen /\ f + n \in Nat
    BY ReadIs
  <2>2. ~ (f + n < SubLen)
    OBVIOUS
  <2> HIDE DEF n, f
  <2>3. f + n = SubLen
    BY ONLY <2>1, <2>2, FileAssumption
  <2>4. p.consumed < p.consumed + n
    BY ONLY <1>0, <2>1
  <2> QED
    BY <2>1, <2>3, <2>4
<1>2. HeaderLen + (c.ota_image_processed + SubLen) = BinStart
  <2>1. ElementStart[Len(Skipped) + 1] + SubLen = BinStart
    BY DEF BinStart
  <2> DEFINE y == c.ota_image_processed
             z == ElementStart[Len(Skipped) + 1]
  <2>2. y \in Nat /\ z \in Nat /\ HeaderLen + y = z /\ z + SubLen = BinStart
    BY <1>0, <2>1, FileIs
  <2> HIDE DEF y, z
  <2>3. HeaderLen + (y + SubLen) = BinStart
    BY ONLY <2>2, FileAssumption, SizesAre
  <2> QED
    BY ONLY <2>3 DEF y
<1>3. block.offset + p.consumed = HeaderLen + c.ota_image_processed + f
  BY OffsetInHeader DEF HeaderOffset
<1>4. block.offset + m = BinStart
  <2> DEFINE y == c.ota_image_processed
             o == block.offset
             q == p.consumed
  <2>1. /\ y \in Nat /\ o \in Nat /\ q \in Nat /\ f \in Nat /\ n \in Nat /\ HeaderLen \in Nat
        /\ o + q = HeaderLen + y + f /\ HeaderLen + (y + (f + n)) = BinStart /\ m = q + n
    BY <1>0, <1>1, <1>2, <1>3, SizesAre
  <2> HIDE DEF y, o, q, f, n, m
  <2>2. o + m = (o + q) + n
    BY ONLY <2>1
  <2>3. (HeaderLen + y + f) + n = HeaderLen + (y + (f + n))
    BY ONLY <2>1
  <2>4. o + m = BinStart
    BY ONLY <2>1, <2>2, <2>3
  <2> QED
    BY ONLY <2>4 DEF o
<1> HIDE DEF n, m, f
<1>5. /\ IsContext(d) /\ d.ota_subelement_fill_level = 0
      /\ d.ota_image_processed = c.ota_image_processed + SubLen
      /\ d.bin_size = BinSize /\ d.process_subelement_header = FALSE
      /\ d.process_bin_image = TRUE
      /\ Same(d, c, {"ota_subelement_fill_level", "ota_image_processed", "bin_size",
                     "process_subelement_header", "process_bin_image"})
  BY ONLY <1>0, ImageNextIs DEF d
<1> HIDE DEF d
<1>6. d.stream_carry = <<>> /\ d.target_file_version = c.target_file_version
      /\ d.total_size = c.total_size /\ d.stream_carry_offset = c.stream_carry_offset
  BY <1>5, ContextFields DEF InHeader, Same
<1>7. InImage(d, 0)
  <2>1. Len(d.stream_carry) = 0
    BY <1>6
  <2>2. 0 < Align /\ 0 + 0 < BinSize
    BY SizesAre
  <2>3. Len(d.stream_carry) < Align /\ 0 + Len(d.stream_carry) < BinSize
    BY ONLY <2>1, <2>2
  <2>4. /\ d.mandatory_header_finished = TRUE /\ d.process_optional_header = FALSE
        /\ d.ota_header_size = HeaderLen /\ d.total_size = TotalSize
        /\ d.ota_header_fill_level = HeaderLen
    BY <1>5, ContextFields DEF InHeader, Same
  <2>5. HeaderLen + d.ota_image_processed = BinStart
    BY <1>2, <1>5
  <2> QED
    BY ONLY <1>5, <1>6, <2>3, <2>4, <2>5 DEF InImage
<1>8. /\ IsParser(image) /\ image.ota_ctx = d /\ image.consumed = m /\ image.dfu = p.dfu
      /\ image.saved = p.saved /\ image.loaded = p.loaded /\ image.ok = p.ok
  BY ONLY <1>1, <1>5, IsParser(p), MovedIs DEF image
<1> HIDE DEF image
<1>9. Consistent(image, v)
  <2>1. /\ image.ota_ctx.target_file_version = p.ota_ctx.target_file_version
        /\ image.ota_ctx.total_size = p.ota_ctx.total_size
        /\ image.ota_ctx.stream_carry = p.ota_ctx.stream_carry
        /\ image.ota_ctx.stream_carry_offset = p.ota_ctx.stream_carry_offset
    BY <1>6, <1>8 DEF InHeader
  <2>2. Consistent(p, v)
    OBVIOUS
  <2> QED
    BY ONLY <1>8, <2>1, <2>2, StaysConsistent
<1>10. ASSUME NEW t, IsParser(t), t.ota_ctx = d, t.consumed = m, Consistent(t, v),
              t.dfu.data = <<>>
       PROVE  HeaderResult(p, t, block)
  <2>1. ota_file_offset(t) = BinStart + (DataLen(t) + CarryLen(t))
    <3>1. DataLen(t) = 0
      BY <1>10 DEF DataLen
    <3>2. InImage(t.ota_ctx, DataLen(t))
      BY ONLY <1>7, <1>10, <3>1
    <3> QED
      BY ONLY <1>10, <3>2, ImageOffset
  <2>2. DataLen(t) = 0 /\ CarryLen(t) = 0
    BY ONLY <1>6, <1>10 DEF DataLen, CarryLen
  <2>3. block.offset + t.consumed = ota_file_offset(t)
    BY ONLY <1>4, <1>10, <2>1, <2>2, SizesAre
  <2>4. InImage(t.ota_ctx, 0)
    BY ONLY <1>7, <1>10
  <2> QED
    BY ONLY <1>1, <1>10, <2>3, <2>4 DEF HeaderResult, v
<1>11. CASE fault = "init"
  <2>1. /\ IsParser(Failing(image))
        /\ Failing(image).ota_ctx = image.ota_ctx /\ Failing(image).dfu = image.dfu
        /\ Failing(image).saved = image.saved /\ Failing(image).loaded = image.loaded
        /\ Failing(image).consumed = image.consumed
    BY ONLY <1>8, FailingIs
  <2> DEFINE t == Failing(image)
  <2> HIDE DEF t
  <2>2. Consistent(t, v)
    BY ONLY <1>9, <2>1, StaysConsistent DEF t
  <2>3. HeaderResult(p, t, block)
    BY <1>8, <1>10, <2>1, <2>2 DEF t
  <2> QED
    BY <1>11, <2>3 DEF t, image, d, m, n
<1>12. CASE fault # "init"
  <2> DEFINE e == init_default(p.dfu)
             t == ota_resume_save(x, downloading, fault)
  <2>1. IsDfu(e) /\ e.data = p.dfu.data /\ Missing(e)
    BY ONLY <1>0, InitDefaultIs
  <2> HIDE DEF e
  <2>2. x = WithDfu(image, e)
    BY DEF e
  <2> HIDE DEF x
  <2>3. /\ IsParser(x) /\ x.dfu = e /\ x.ota_ctx = d /\ x.saved = p.saved
        /\ x.loaded = p.loaded /\ x.consumed = m
    BY ONLY <1>8, <2>1, <2>2, WithDfuIs
  <2>4. Consistent(x, v)
    <3>1. OfVersion(x, v)
      BY <1>8, <1>9, <2>1, <2>3 DEF Consistent, OfVersion
    <3>2. Len(x.dfu.data) <= BinSize
      BY <2>1, <2>3 DEF Consistent
    <3>3. x.loaded = TRUE => x.ota_ctx.target_file_version # None /\ x.ota_ctx.total_size = TotalSize
      BY <1>8, <1>9, <2>3 DEF Consistent
    <3>4. Missing(x.dfu)
      BY <2>1, <2>3
    <3> QED
      BY ONLY <3>1, <3>2, <3>3, <3>4 DEF Consistent
  <2>5. /\ IsParser(t) /\ Consistent(t, v) /\ t.ota_ctx = x.ota_ctx /\ t.dfu = x.dfu
        /\ t.loaded = x.loaded /\ t.consumed = x.consumed
    <3>1. InImage(x.ota_ctx, 0)
      BY ONLY <1>7, <2>3
    <3> QED
      BY ONLY <2>3, <2>4, <3>1, ResumeSaved
  <2>6. t.dfu.data = <<>>
    BY <2>1, <2>3, <2>5
  <2> HIDE DEF t
  <2>7. HeaderResult(p, t, block)
    BY <1>10, <2>3, <2>5, <2>6
  <2> QED
    BY <1>12, <2>7 DEF t, x, image, d, m, n
<1> QED
  BY <1>11, <1>12

(* A header the block does not complete, wherever the block ends.          *)
LEMMA HeaderPart ==
  ASSUME NEW p, IsParser(p), NEW block, NEW downloading, NEW fault,
         PartLeft(p, block) \in Nat, p.ota_ctx.ota_subelement_fill_level + PartLeft(p, block) < SubLen
  PROVE  ota_process_subelement_header(p, block, downloading, fault)
           = Moved(p, PartRead(p.ota_ctx, PartLeft(p, block)),
                   p.consumed + PartLeft(p, block), PartLeft(p, block))
<1> DEFINE c == p.ota_ctx
           n == PartLeft(p, block)
           t == ota_process_subelement_header(p, block, downloading, fault)
           t1 == Consume([p EXCEPT !.ota_ctx.ota_subelement_fill_level = @ + n], n)
<1>0. /\ DOMAIN p = {"ota_ctx", "dfu", "saved", "loaded", "consumed", "copied", "ok"}
      /\ DOMAIN c = DOMAIN ResetContext
  BY DEF IsParser, IsLibrary, IsContext
<1>1. t1.ota_ctx.ota_subelement_fill_level < SubLen => t = t1
  BY DEF ota_process_subelement_header, PartLeft
<1>2. t1 = Moved(p, PartRead(c, n), p.consumed + n, n)
  BY <1>0 DEF Consume, Moved, PartRead
<1> HIDE DEF t, n, t1
<1>3. t1.ota_ctx.ota_subelement_fill_level = c.ota_subelement_fill_level + n
  BY <1>0, <1>2, ContextFields DEF Moved, PartRead
<1> QED
  BY <1>1, <1>2, <1>3 DEF t, n

(* ota_process_subelement_header, in each of its three cases.              *)
LEMMA SubelementHeaderIs ==
  ASSUME NEW p, IsParser(p), InHeader(p.ota_ctx), p.ok = TRUE, p.dfu.data = <<>>,
         NEW block, block.len \in Nat, block.offset \in Nat, p.consumed < block.len,
         Consistent(p, block.version),
         block.offset + p.consumed = ota_file_offset(p),
         NEW downloading, NEW fault
  PROVE  HeaderResult(p, ota_process_subelement_header(p, block, downloading, fault), block)
<1> DEFINE n == PartLeft(p, block)
           c == p.ota_ctx
           f == c.ota_subelement_fill_level
           t == ota_process_subelement_header(p, block, downloading, fault)
<1>1. n \in Nat /\ f + n <= SubLen /\ f + n \in Nat
  BY ReadIs
<1>2. CASE f + n < SubLen
  <2>1. t = Moved(p, PartRead(c, n), p.consumed + n, n)
    BY <1>1, <1>2, HeaderPart
  <2> HIDE DEF t
  <2> QED
    BY <1>2, <2>1, HeaderContinues DEF t
<1>3. CASE ~ (f + n < SubLen)
  <2>1. PICK i \in DOMAIN ElementStart : HeaderLen + c.ota_image_processed = ElementStart[i]
    BY DEF InHeader
  <2>2. block.offset + p.consumed = HeaderLen + c.ota_image_processed + f
    BY OffsetInHeader DEF HeaderOffset
  <2>3. block.offset + (p.consumed + n) = ElementStart[i] + SubLen
    <3> DEFINE y == c.ota_image_processed
               o == block.offset
               q == p.consumed
               z == ElementStart[i]
    <3>1. /\ y \in Nat /\ o \in Nat /\ q \in Nat /\ f \in Nat /\ n \in Nat /\ HeaderLen \in Nat
          /\ o + q = HeaderLen + y + f /\ HeaderLen + y = z /\ f + n = SubLen
      <4>1. f \in Nat /\ y \in Nat /\ q \in Nat /\ SubLen \in Nat
        BY FileAssumption DEF IsParser, IsLibrary, IsContext
      <4> HIDE DEF f, n
      <4>2. f + n = SubLen
        BY ONLY <1>1, <1>3, <4>1
      <4> QED
        BY <1>1, <2>1, <2>2, <4>1, <4>2, SizesAre DEF f
    <3> HIDE DEF y, o, q, f, n, z
    <3>2. o + (q + n) = (o + q) + n
      BY ONLY <3>1
    <3>3. (HeaderLen + y + f) + n = (HeaderLen + y) + (f + n)
      BY ONLY <3>1
    <3>4. o + (q + n) = z + SubLen
      BY ONLY <3>1, <3>2, <3>3
    <3> QED
      BY ONLY <3>4 DEF o, q, z
  <2>4. HeaderAt(block.offset + (p.consumed + n)) = {i}
    BY ONLY <2>1, <2>3, HeaderAtIs
  <2>5. CASE i # Len(Skipped) + 1
    <3> DEFINE m == p.consumed + n
               k == Smaller(block.len - m, ElementLen(i))
               u == Moved(p, HeaderRead(c, SubLen + ElementLen(i)), m + k, n + k)
    <3>1. t = u
      BY <1>1, <1>3, <2>4, <2>5, HeaderCases
    <3> HIDE DEF t
    <3>2. HeaderResult(p, u, block)
      BY <1>3, <2>1, <2>5, ElementSkipped
    <3> QED
      BY <3>1, <3>2 DEF t
  <2>6. CASE i = Len(Skipped) + 1
    <3> DEFINE image == Moved(p, ImageNext(c), p.consumed + n, n)
               u == IF fault = "init" THEN Failing(image)
                    ELSE ota_resume_save(WithDfu(image, init_default(p.dfu)), downloading, fault)
    <3>1. t = u
      <4>1. n \in Nat
        BY <1>1
      <4>2. t = BeginImage(p, n, downloading, fault)
        BY <1>3, <2>4, <2>6, <4>1, HeaderCases
      <4> QED
        BY ONLY <4>2 DEF BeginImage, image, u, c
    <3> HIDE DEF t
    <3>2. HeaderResult(p, u, block)
      BY <1>3, <2>1, <2>6, ImageBegins
    <3> QED
      BY <3>1, <3>2 DEF t
  <2> QED
    BY <2>5, <2>6
<1> QED
  BY <1>2, <1>3

-------------------------------------------------------------------------------
(* The turns of the loop.                                                  *)

(* A block is a part of the file.  Steady is what the parser keeps from    *)
(* turn to turn as long as nothing fails: it is where the block stands.    *)
BlockOK(block) ==
  /\ block.version \in Versions /\ block.offset \in Nat /\ block.len \in Nat
  /\ block.offset + block.len <= TotalSize

Steady(p, block) ==
  /\ Consistent(p, block.version)
  /\ Place(p.ota_ctx, DataLen(p)) /\ Fresh(p)
  /\ p.consumed < block.len =>
       /\ InHeader(p.ota_ctx) \/ InImage(p.ota_ctx, DataLen(p))
       /\ block.offset + p.consumed = ota_file_offset(p)
ParserOK(p, block) ==
  /\ IsParser(p) /\ p.consumed <= block.len
  /\ p.ok = TRUE => Steady(p, block)

(* Each turn starts with nothing copied.                                   *)
Uncopied(p) == [p EXCEPT !.copied = 0]
LEMMA UncopiedIs ==
  ASSUME NEW p, IsParser(p)
  PROVE  LET t == Uncopied(p) IN
         /\ IsParser(t) /\ t.ota_ctx = p.ota_ctx /\ t.dfu = p.dfu /\ t.saved = p.saved
         /\ t.loaded = p.loaded /\ t.consumed = p.consumed /\ t.ok = p.ok
BY DEF IsParser, IsLibrary, Uncopied

(* The offset depends on the context and the targets alone.                *)
LEMMA SameOffset ==
  ASSUME NEW p, NEW t, t.ota_ctx = p.ota_ctx, t.dfu = p.dfu
  PROVE  ota_file_offset(t) = ota_file_offset(p)
BY DEF ota_file_offset

(* A turn in the image uses up the block.                                  *)
LEMMA FirmwareOK ==
  ASSUME NEW p, NEW t, NEW block, BlockOK(block), FirmwareResult(p, t, block),
         p.consumed <= block.len
  PROVE  ParserOK(t, block) /\ (t.ok = TRUE => t.consumed = block.len)
         /\ (t.ok = TRUE \/ t.consumed = p.consumed)
<1>1. CASE IsParser(t) /\ t.ok = FALSE /\ t.consumed = p.consumed
  BY <1>1 DEF ParserOK
<1>2. CASE /\ IsParser(t) /\ t.ok = TRUE /\ t.consumed = block.len
           /\ Consistent(t, block.version)
           /\ ota_file_offset(t) = block.offset + block.len
           /\ InImage(t.ota_ctx, DataLen(t)) \/ AtEnd(t.ota_ctx, DataLen(t))
  <2>1. Place(t.ota_ctx, DataLen(t)) /\ Fresh(t)
    BY <1>2 DEF Place, Fresh, InImage, DataLen
  <2>2. block.len <= block.len /\ ~ (block.len < block.len)
    BY DEF BlockOK
  <2> QED
    BY <1>2, <2>1, <2>2 DEF ParserOK, Steady
<1> QED
  BY <1>1, <1>2 DEF FirmwareResult

(* A turn keeps the parser in step with the block, and makes progress      *)
(* unless it fails.                                                        *)
LEMMA ParseOnceIs ==
  ASSUME NEW p, NEW block, BlockOK(block), ParserOK(p, block), p.ok = TRUE, p.consumed < block.len,
         NEW downloading, NEW sync, NEW fault
  PROVE  LET t == ParseOnce(p, block, downloading, sync, fault)
         IN  ParserOK(t, block) /\ (t.ok = TRUE => p.consumed < t.consumed)
<1> DEFINE q == Uncopied(p)
           h == ota_process_subelement_header(q, block, downloading, fault)
           s == IF p.ota_ctx.process_subelement_header THEN h ELSE q
           w == ota_process_firmware(s, block, sync, fault)
           t == ParseOnce(p, block, downloading, sync, fault)
           v == block.version
<1>0. /\ IsParser(p) /\ p.consumed <= block.len /\ Consistent(p, v) /\ Fresh(p)
      /\ InHeader(p.ota_ctx) \/ InImage(p.ota_ctx, DataLen(p))
      /\ block.offset + p.consumed = ota_file_offset(p)
      /\ p.consumed \in Nat
  BY DEF ParserOK, Steady, IsParser
<1>1. t = IF s.ota_ctx.process_bin_image THEN w ELSE s
  BY DEF ParseOnce, Uncopied
<1>2. /\ IsParser(q) /\ q.ota_ctx = p.ota_ctx /\ q.dfu = p.dfu /\ q.saved = p.saved
      /\ q.loaded = p.loaded /\ q.consumed = p.consumed /\ q.ok = TRUE
  BY <1>0, UncopiedIs
<1> HIDE DEF q
<1>3. Consistent(q, v)
  BY <1>0, <1>2, StaysConsistent
<1>4. block.offset + q.consumed = ota_file_offset(q)
  BY <1>0, <1>2, SameOffset
<1>5. CASE InHeader(p.ota_ctx)
  <2>1. q.dfu.data = <<>>
    <3>1. ~ AtEnd(p.ota_ctx, Len(p.dfu.data))
      <4>1. PICK i \in DOMAIN ElementStart : HeaderLen + p.ota_ctx.ota_image_processed = ElementStart[i]
        BY <1>5 DEF InHeader
      <4>2. ElementStart[i] \in Nat /\ ElementStart[i] + SubLen <= BinStart
        BY FileIs
      <4> DEFINE z == ElementStart[i]
      <4>3. z \in Nat /\ z + SubLen <= BinStart /\ HeaderLen + p.ota_ctx.ota_image_processed = z
        BY <4>1, <4>2
      <4> HIDE DEF z
      <4>4. z # TotalSize
        BY ONLY <4>3, SizesAre, FileAssumption
      <4> QED
        BY ONLY <4>3, <4>4 DEF AtEnd
    <3>2. p.dfu.data = <<>>
      BY <1>0, <1>5, <3>1 DEF Fresh, InHeader
    <3> QED
      BY <1>2, <3>2
  <2>2. s = h
    BY <1>5 DEF InHeader
  <2>3. HeaderResult(q, h, block)
    <3>1. InHeader(q.ota_ctx) /\ q.consumed < block.len
      BY <1>2, <1>5
    <3>2. block.len \in Nat /\ block.offset \in Nat
      BY DEF BlockOK
    <3> QED
      BY ONLY <1>2, <1>3, <1>4, <2>1, <3>1, <3>2, SubelementHeaderIs
  <2> HIDE DEF s, h, t, w
  <2>4. /\ IsParser(s) /\ s.consumed <= block.len /\ p.consumed < s.consumed
        /\ Consistent(s, v) /\ s.dfu.data = <<>>
        /\ \/ InHeader(s.ota_ctx) /\ s.ok = TRUE
           \/ InImage(s.ota_ctx, 0)
        /\ \/ s.consumed = block.len /\ InHeader(s.ota_ctx)
           \/ block.offset + s.consumed = ota_file_offset(s)
    BY <1>2, <2>2, <2>3 DEF HeaderResult
  <2>5. DataLen(s) = 0
    BY <2>4 DEF DataLen
  <2>6. CASE InHeader(s.ota_ctx)
    <3>1. t = s
      BY <1>1, <2>6 DEF InHeader
    <3>2. Place(s.ota_ctx, DataLen(s)) /\ Fresh(s)
      BY <2>4, <2>6 DEF Place, Fresh
    <3>3. s.consumed < block.len => block.offset + s.consumed = ota_file_offset(s)
      BY <2>4 DEF BlockOK
    <3>4. ParserOK(s, block)
      BY <2>4, <2>6, <3>2, <3>3 DEF ParserOK, Steady
    <3> QED
      BY <2>4, <3>1, <3>4 DEF t
  <2>7. CASE ~ InHeader(s.ota_ctx)
    <3>1. InImage(s.ota_ctx, DataLen(s)) /\ block.offset + s.consumed = ota_file_offset(s)
      BY <2>4, <2>5, <2>7
    <3>2. t = w
      BY <1>1, <3>1 DEF InImage
    <3>3. FirmwareResult(s, w, block)
      <4>1. block.version \in Versions /\ block.offset \in Nat /\ block.len \in Nat
            /\ block.offset + block.len <= TotalSize
        BY DEF BlockOK
      <4> QED
        BY ONLY <2>4, <3>1, <4>1, FirmwareIs DEF w
    <3>4. /\ ParserOK(w, block)
          /\ w.ok = TRUE => w.consumed = block.len
          /\ w.ok = TRUE \/ w.consumed = s.consumed
      BY <2>4, <3>3, FirmwareOK
    <3> QED
      BY <3>2, <3>4 DEF t
  <2> QED
    BY <2>6, <2>7
<1>6. CASE InImage(p.ota_ctx, DataLen(p))
  <2>1. s = q
    BY <1>6 DEF InImage
  <2>2. DataLen(q) = DataLen(p)
    BY <1>2 DEF DataLen
  <2>3. InImage(q.ota_ctx, DataLen(q)) /\ q.consumed <= block.len
    BY <1>0, <1>2, <1>6, <2>2
  <2>4. t = w
    BY <1>1, <2>1, <2>3 DEF InImage
  <2>5. FirmwareResult(q, w, block)
    <3>1. block.version \in Versions /\ block.offset \in Nat /\ block.len \in Nat
          /\ block.offset + block.len <= TotalSize
      BY DEF BlockOK
    <3>2. w = ota_process_firmware(q, block, sync, fault)
      BY <2>1
    <3> HIDE DEF w
    <3> QED
      BY ONLY <1>2, <1>3, <1>4, <2>3, <3>1, <3>2, FirmwareIs
  <2> HIDE DEF w, t
  <2>6. /\ ParserOK(w, block)
        /\ w.ok = TRUE => w.consumed = block.len
    BY <2>3, <2>5, FirmwareOK
  <2> QED
    BY <2>4, <2>6 DEF t
<1> QED
  BY <1>0, <1>5, <1>6

(* The same of a turn that may not be taken any more.                      *)
TurnResult(p, t, n, block) ==
  /\ ParserOK(t, block)
  /\ t.ok = TRUE => (t.consumed = block.len \/ p.consumed < t.consumed \/ (n > 1 /\ t = p))

LEMMA TurnIs ==
  ASSUME NEW p, NEW block, BlockOK(block), ParserOK(p, block), NEW n \in Nat \ {0},
         n = 1 => p.ok = TRUE, NEW downloading, NEW sync, NEW fault
  PROVE  TurnResult(p, Turn(p, n, block, downloading, sync, fault), n, block)
<1> DEFINE t == Turn(p, n, block, downloading, sync, fault)
           u == ParseOnce(p, block, downloading, sync, fault)
<1>0. p.consumed \in Nat /\ block.len \in Nat /\ p.consumed <= block.len /\ (p.ok = TRUE \/ p.ok = FALSE)
  BY DEF ParserOK, IsParser, BlockOK
<1>1. CASE Left(p, block) = 0
  <2>1. t = p
    BY <1>1 DEF Turn
  <2>2. p.consumed = block.len
    BY ONLY <1>0, <1>1 DEF Left
  <2> QED
    BY <2>1, <2>2 DEF TurnResult
<1>2. CASE Left(p, block) # 0 /\ n > 1 /\ (p.copied = 0 \/ ~ p.ok)
  <2>1. t = p
    BY <1>2 DEF Turn
  <2> QED
    BY <1>2, <2>1 DEF TurnResult
<1>3. CASE Left(p, block) # 0 /\ ~ (n > 1 /\ (p.copied = 0 \/ ~ p.ok))
  <2>1. t = u
    BY <1>3 DEF Turn
  <2>2. p.consumed < block.len
    BY ONLY <1>0, <1>3 DEF Left
  <2>3. p.ok = TRUE
    <3>1. n = 1 \/ n > 1
      OBVIOUS
    <3> QED
      BY <1>0, <1>3, <3>1
  <2>4. /\ ParserOK(u, block)
        /\ u.ok = TRUE => p.consumed < u.consumed
    BY <2>2, <2>3, ParseOnceIs
  <2> HIDE DEF u, t
  <2> QED
    BY <2>1, <2>4 DEF t, TurnResult
<1> QED
  BY <1>1, <1>2, <1>3

(* By induction over its turns, the loop ends with the library in step     *)
(* with the block, and with a part of the block consumed unless it failed. *)
LEMMA ParsedIs ==
  ASSUME NEW s, NEW block, BlockOK(block), block.len > 0, ParserOK(s, block), s.ok = TRUE,
         NEW downloading, NEW sync, NEW fault
  PROVE  LET t == Parse(s, block, downloading, sync, fault) IN
         /\ ParserOK(t, block)
         /\ t.ok = TRUE => 0 < t.consumed
<1> DEFINE len == block.len
<1>0. len \in Nat /\ len > 0
  BY DEF BlockOK
<1>1. PICK g : /\ Turns(g, len, s, block, downloading, sync, fault)
               /\ Parse(s, block, downloading, sync, fault) = g[len]
  BY <1>0, ParseIs
<1> HIDE DEF len
<1>2. g[0] = s /\ \A n \in 1 .. len : g[n] = Turn(g[n - 1], n, block, downloading, sync, fault)
  <2>1. \A n \in 0 .. len : g[n] = IF n = 0 THEN s
                                   ELSE Turn(g[n - 1], n, block, downloading, sync, fault)
    BY <1>1 DEF Turns
  <2>2. 0 \in 0 .. len /\ \A n \in 1 .. len : n \in 0 .. len /\ n # 0
    BY <1>0
  <2> QED
    BY <2>1, <2>2
<1> DEFINE Good(n) == /\ ParserOK(g[n], block)
                      /\ n > 0 /\ g[n].ok = TRUE => 0 < g[n].consumed
           S == {n \in Nat : n <= len => Good(n)}
<1>3. Good(0)
  BY <1>2
<1>4. ASSUME NEW n \in Nat, n + 1 <= len, Good(n)
      PROVE  Good(n + 1)
  <2> DEFINE m == n + 1
             p == g[n]
             t == g[m]
  <2>1. m \in 1 .. len /\ m - 1 = n /\ m \in Nat \ {0} /\ (m = 1 => n = 0) /\ (m > 1 => n > 0)
    BY <1>0, <1>4
  <2>2. ParserOK(p, block) /\ (n > 0 /\ p.ok = TRUE => 0 < p.consumed)
    BY <1>4
  <2> HIDE DEF m
  <2>3. t = Turn(p, m, block, downloading, sync, fault)
    BY <1>2, <2>1
  <2>4. m = 1 => p.ok = TRUE
    BY <1>2, <2>1
  <2> HIDE DEF p, t
  <2>5. TurnResult(p, t, m, block)
    BY ONLY <2>1, <2>2, <2>3, <2>4, BlockOK(block), TurnIs
  <2>6. /\ ParserOK(t, block)
        /\ t.ok = TRUE => (t.consumed = block.len \/ p.consumed < t.consumed \/ (m > 1 /\ t = p))
    BY <2>5 DEF TurnResult
  <2>7. t.ok = TRUE => 0 < t.consumed
    <3> SUFFICES ASSUME t.ok = TRUE
                 PROVE  0 < t.consumed
      OBVIOUS
    <3>1. p.consumed \in Nat /\ t.consumed \in Nat
      BY <2>2, <2>6 DEF ParserOK, IsParser
    <3>3. CASE t.consumed = block.len
      BY <1>0, <3>3 DEF len
    <3>4. CASE p.consumed < t.consumed
      BY ONLY <3>1, <3>4
    <3>5. CASE m > 1 /\ t = p
      BY <2>1, <2>2, <3>5
    <3> QED
      BY <2>6, <3>3, <3>4, <3>5
  <2> QED
    BY <2>6, <2>7 DEF t, m
<1> HIDE DEF Good
<1>7. 0 \in S
  BY <1>3
<1>8. ASSUME NEW n \in Nat, n \in S
      PROVE  n + 1 \in S
  <2>1. n + 1 <= len => n <= len
    BY <1>0
  <2>2. n + 1 <= len => Good(n + 1)
    BY <1>4, <1>8, <2>1
  <2> QED
    BY <2>2
<1> HIDE DEF S
<1>5. \A n \in Nat : n \in S
  BY <1>7, <1>8, Induction
<1>6. Good(len)
  <2>1. len \in S /\ len <= len
    BY <1>0, <1>5
  <2> QED
    BY <2>1 DEF S
<1> QED
  BY <1>0, <1>1, <1>6 DEF Good

-------------------------------------------------------------------------------
(* The end of the file.                                                    *)

(* The byte the library needs next is one of the file, until its end.      *)
LEMMA PlaceOffset ==
  ASSUME NEW p, IsContext(p.ota_ctx), IsDfu(p.dfu), Place(p.ota_ctx, DataLen(p))
  PROVE  /\ ota_file_offset(p) \in 0 .. TotalSize
         /\ AtEnd(p.ota_ctx, DataLen(p)) \/ ota_file_offset(p) < TotalSize
         /\ AtEnd(p.ota_ctx, DataLen(p)) => ota_file_offset(p) = TotalSize
<1> DEFINE c == p.ota_ctx
           a == c.ota_header_fill_level
           b == c.ota_subelement_fill_level
           e == c.ota_image_processed
           o == ota_file_offset(p)
<1>0. a \in Nat /\ b \in Nat /\ e \in Nat /\ Len(p.dfu.data) \in Nat /\ Len(c.stream_carry) \in Nat
  BY DEF IsContext, IsDfu
<1>1. c.process_bin_image = FALSE => o = a + b + e
  BY <1>0, OffsetIs
<1>8. MandatoryLen \in Nat /\ MandatoryLen <= HeaderLen /\ SubLen \in Nat
  BY FileAssumption
<1>2. CASE InMandatory(c)
  <2>1. o = a + b + e /\ b = 0 /\ e = 0 /\ a < MandatoryLen
    BY <1>1, <1>2 DEF InMandatory
  <2> HIDE DEF a, b, e, o
  <2>2. o \in 0 .. TotalSize /\ o < TotalSize
    BY ONLY <1>0, <1>8, <2>1, SizesAre
  <2>3. ~ AtEnd(c, DataLen(p))
    <3>1. a < HeaderLen
      BY ONLY <1>0, <1>8, <2>1, SizesAre
    <3> QED
      BY ONLY <1>0, <3>1, SizesAre DEF AtEnd, a
  <2> QED
    BY <2>2, <2>3 DEF o
<1>3. CASE InOptional(c)
  <2>1. o = a + b + e /\ b = 0 /\ e = 0 /\ a < HeaderLen
    BY <1>1, <1>3 DEF InOptional
  <2> HIDE DEF a, b, e, o
  <2>2. o \in 0 .. TotalSize /\ o < TotalSize
    BY ONLY <1>0, <2>1, SizesAre
  <2>3. ~ AtEnd(c, DataLen(p))
    BY ONLY <1>0, <2>1, SizesAre DEF AtEnd, a
  <2> QED
    BY <2>2, <2>3 DEF o
<1>4. CASE InHeader(c)
  <2>1. o = a + b + e /\ a = HeaderLen /\ b < SubLen
    BY <1>1, <1>4 DEF InHeader
  <2>2. PICK i \in DOMAIN ElementStart : HeaderLen + e = ElementStart[i]
    BY <1>4 DEF InHeader
  <2> DEFINE z == ElementStart[i]
  <2>3. z \in Nat /\ z + SubLen <= BinStart /\ HeaderLen + e = z
    BY <2>2, FileIs
  <2> HIDE DEF z, a, b, e, o
  <2>4. o = z + b
    BY ONLY <1>0, <2>1, <2>3, SizesAre
  <2>5. o \in 0 .. TotalSize /\ o < TotalSize /\ z < TotalSize
    BY ONLY <1>0, <1>8, <2>1, <2>3, <2>4, SizesAre
  <2>6. ~ AtEnd(c, DataLen(p))
    <3>1. HeaderLen + e # TotalSize
      BY ONLY <2>3, <2>5, SizesAre
    <3> QED
      BY ONLY <3>1 DEF AtEnd, e
  <2> QED
    BY <2>5, <2>6 DEF o
<1>5. CASE InImage(c, DataLen(p))
  <2> DEFINE x == Len(p.dfu.data)
             y == Len(c.stream_carry)
             k == x + y
  <2>1. o = a + b + e + k /\ a = HeaderLen /\ b = 0 /\ HeaderLen + e = BinStart /\ k < BinSize
    <3>1. c.process_bin_image = TRUE /\ IsContext(c)
      BY <1>5 DEF InImage
    <3>2. o = a + b + e + k
      BY ONLY <1>0, <3>1, OffsetIs
    <3> QED
      BY <1>5, <3>2 DEF InImage, DataLen
  <2>2. k \in Nat
    <3>1. x \in Nat /\ y \in Nat
      BY <1>0
    <3> HIDE DEF x, y
    <3> QED
      BY ONLY <3>1 DEF k
  <2> HIDE DEF a, b, e, o, k
  <2>3. o = BinStart + k
    BY ONLY <1>0, <2>1, <2>2, SizesAre
  <2>4. o \in 0 .. TotalSize /\ o < TotalSize
    BY ONLY <2>1, <2>2, <2>3, SizesAre
  <2>5. ~ AtEnd(c, DataLen(p))
    BY <1>5 DEF AtEnd, InImage
  <2> QED
    BY <2>4, <2>5 DEF o
<1>6. CASE AtEnd(c, DataLen(p))
  <2>1. o = a + b + e /\ a = HeaderLen /\ b = 0 /\ HeaderLen + e = TotalSize
    BY <1>1, <1>6 DEF AtEnd
  <2> HIDE DEF a, b, e, o
  <2>2. o = TotalSize /\ o \in 0 .. TotalSize
    BY ONLY <1>0, <2>1, SizesAre
  <2> QED
    BY <1>6, <2>2 DEF o
<1> QED
  BY <1>2, <1>3, <1>4, <1>5, <1>6 DEF Place

(* The parser with all its phases over.                                    *)
Closed(p) ==
  [p EXCEPT !.ota_ctx.mandatory_header_finished = FALSE,
            !.ota_ctx.process_optional_header = FALSE,
            !.ota_ctx.process_subelement_header = FALSE,
            !.ota_ctx.process_bin_image = FALSE]
LEMMA ClosedIs ==
  ASSUME NEW p, IsParser(p)
  PROVE  LET t == Closed(p)
             d == t.ota_ctx
         IN  /\ IsParser(t)
             /\ d.mandatory_header_finished = FALSE /\ d.process_optional_header = FALSE
             /\ d.process_subelement_header = FALSE /\ d.process_bin_image = FALSE
             /\ Same(d, p.ota_ctx, {"mandatory_header_finished", "process_optional_header",
                                    "process_subelement_header", "process_bin_image"})
             /\ t.dfu = p.dfu /\ t.saved = p.saved /\ t.loaded = p.loaded
             /\ t.consumed = p.consumed /\ t.ok = p.ok
<1> DEFINE c == p.ota_ctx
           d == [c EXCEPT !.mandatory_header_finished = FALSE,
                          !.process_optional_header = FALSE,
                          !.process_subelement_header = FALSE,
                          !.process_bin_image = FALSE]
           t == Closed(p)
<1>1. IsContext(c)
  BY DEF IsParser, IsLibrary
<1>2. /\ IsContext(d)
      /\ d.mandatory_header_finished = FALSE /\ d.process_optional_header = FALSE
      /\ d.process_subelement_header = FALSE /\ d.process_bin_image = FALSE
      /\ Same(d, c, {"mandatory_header_finished", "process_optional_header",
                     "process_subelement_header", "process_bin_image"})
  BY <1>1, ContextFields DEF IsContext, Same
<1>3. t = [p EXCEPT !.ota_ctx = d]
  BY DEF Closed, IsParser
<1> HIDE DEF c, d, t
<1>4. /\ IsParser(t) /\ t.ota_ctx = d /\ t.consumed = p.consumed /\ t.dfu = p.dfu
      /\ t.saved = p.saved /\ t.loaded = p.loaded /\ t.ok = p.ok
  BY <1>2, <1>3 DEF IsParser, IsLibrary
<1> QED
  BY <1>2, <1>4 DEF c, t

(* At the end of the file, and nowhere else behind its header, the parser  *)
(* is closed.                                                              *)
LEMMA FinishedIs ==
  ASSUME NEW p, NEW v, IsParser(p), Place(p.ota_ctx, DataLen(p)), Fresh(p), Consistent(p, v)
  PROVE  LET t == Finished(p) IN
         /\ IsParser(t) /\ Place(t.ota_ctx, DataLen(t)) /\ Fresh(t) /\ Consistent(t, v)
         /\ t.consumed = p.consumed /\ t.ok = p.ok
<1> DEFINE c == p.ota_ctx
           u == Closed(p)
           d == u.ota_ctx
           t == Finished(p)
<1>0. IsContext(c) /\ c.ota_header_fill_level \in Nat /\ c.ota_image_processed \in Nat
  BY DEF IsParser, IsLibrary, IsContext
<1>1. CASE ~ FullImage(c)
  <2>1. t = p
    BY <1>1 DEF Finished
  <2> QED
    BY <2>1
<1>2. CASE FullImage(c)
  <2>1. t = u
    BY <1>2 DEF Finished, Closed
  <2>2. /\ IsParser(u)
        /\ d.mandatory_header_finished = FALSE /\ d.process_optional_header = FALSE
        /\ d.process_subelement_header = FALSE /\ d.process_bin_image = FALSE
        /\ Same(d, c, {"mandatory_header_finished", "process_optional_header",
                       "process_subelement_header", "process_bin_image"})
        /\ u.dfu = p.dfu /\ u.saved = p.saved /\ u.loaded = p.loaded
        /\ u.consumed = p.consumed /\ u.ok = p.ok
    BY ClosedIs
  <2> HIDE DEF u, t
  <2>3. c.total_size = c.ota_header_fill_level + c.ota_image_processed
    BY <1>2 DEF FullImage
  <2>4. DataLen(u) = DataLen(p)
    BY <2>2 DEF DataLen
  <2>5. InMandatory(c) \/ AtEnd(c, DataLen(p))
    <3> DEFINE a == c.ota_header_fill_level
               e == c.ota_image_processed
    <3>1. CASE InOptional(c)
      <4>1. c.total_size = TotalSize /\ a < HeaderLen /\ e = 0 /\ a \in Nat
        BY <1>0, <3>1 DEF InOptional
      <4>2. TotalSize = a + 0
        BY ONLY <2>3, <4>1
      <4> HIDE DEF a
      <4> QED
        BY ONLY <4>1, <4>2, SizesAre
    <3>2. CASE InHeader(c)
      <4>1. PICK i \in DOMAIN ElementStart : HeaderLen + e = ElementStart[i]
        BY <3>2 DEF InHeader
      <4> DEFINE z == ElementStart[i]
      <4>2. z \in Nat /\ z + SubLen <= BinStart /\ HeaderLen + e = z
        BY <4>1, FileIs
      <4>3. c.total_size = TotalSize /\ a = HeaderLen
        BY <3>2 DEF InHeader
      <4> HIDE DEF z
      <4>4. TotalSize = z
        BY ONLY <2>3, <4>2, <4>3
      <4> QED
        BY ONLY <4>2, <4>4, SizesAre, FileAssumption
    <3>3. CASE InImage(c, DataLen(p))
      <4>1. c.total_size = TotalSize /\ a = HeaderLen /\ HeaderLen + e = BinStart
        BY <3>3 DEF InImage
      <4>2. TotalSize = BinStart
        BY ONLY <2>3, <4>1
      <4> QED
        BY ONLY <4>2, SizesAre
    <3> QED
      BY <3>1, <3>2, <3>3 DEF Place
  <2>6. Place(d, DataLen(u)) /\ Fresh(u)
    <3>1. CASE InMandatory(c)
      <4>1. InMandatory(d)
        BY <2>2, <3>1, ContextFields DEF InMandatory, Same
      <4>2. p.dfu.data = <<>>
        <5>1. ~ AtEnd(c, Len(p.dfu.data))
          <6>1. c.ota_header_fill_level < HeaderLen
            BY <1>0, <3>1, FileAssumption DEF InMandatory
          <6> QED
            BY ONLY <1>0, <6>1, SizesAre DEF AtEnd
        <5> QED
          BY <3>1, <5>1 DEF Fresh, InMandatory
      <4> QED
        BY <2>2, <4>1, <4>2 DEF Place, Fresh
    <3>2. CASE AtEnd(c, DataLen(p))
      <4>1. AtEnd(d, DataLen(p))
        BY <2>2, <3>2, ContextFields DEF AtEnd, Same
      <4> QED
        BY <2>2, <2>4, <4>1 DEF Place, Fresh, DataLen
    <3> QED
      BY <2>5, <3>1, <3>2
  <2>7. Consistent(u, v)
    <3>1. /\ d.target_file_version = p.ota_ctx.target_file_version
          /\ d.total_size = p.ota_ctx.total_size
          /\ d.stream_carry = p.ota_ctx.stream_carry
          /\ d.stream_carry_offset = p.ota_ctx.stream_carry_offset
      BY <2>2, ContextFields DEF Same
    <3> QED
      BY ONLY <2>2, <3>1, Consistent(p, v), StaysConsistent
  <2> QED
    BY <2>1, <2>2, <2>6, <2>7 DEF t
<1> QED
  BY <1>1, <1>2

-------------------------------------------------------------------------------
(* A block, as the client hands it over.                                   *)

(* The parser that starts on a block.                                      *)
LEMMA StartParsingIs ==
  ASSUME NEW l, IsLibrary(l)
  PROVE  LET p == StartParsing(l) IN
         /\ IsParser(p) /\ p.ota_ctx = l.ota_ctx /\ p.dfu = l.dfu /\ p.saved = l.saved
         /\ p.loaded = l.loaded /\ p.consumed = 0 /\ p.ok = TRUE
BY DEF StartParsing, IsParser, IsLibrary

(* The library while a file is downloaded.                                 *)
Receiving(l, v) ==
  /\ LibraryOK(l) /\ OfVersion(l, v)
  /\ l.dfu.data = <<>> \/ Missing(l.dfu)
  /\ Fresh(l)

(* The header is no obstacle: what the block holds of it is read.          *)
LEMMA HeadersOK ==
  ASSUME NEW l, NEW block, BlockOK(block), Receiving(l, block.version),
         ~ AtEnd(l.ota_ctx, DataLen(l)), block.offset = ota_file_offset(l)
  PROVE  ParserOK(ParseHeaders(StartParsing(l), block), block)
         /\ ParseHeaders(StartParsing(l), block).ok = TRUE
<1> DEFINE p == StartParsing(l)
           t == ParseHeaders(p, block)
           v == block.version
<1>0. block.len \in Nat /\ block.offset \in Nat
  BY DEF BlockOK
<1>1. /\ IsParser(p) /\ p.ota_ctx = l.ota_ctx /\ p.dfu = l.dfu /\ p.saved = l.saved
      /\ p.loaded = l.loaded /\ p.consumed = 0 /\ p.ok = TRUE
  BY StartParsingIs DEF Receiving, LibraryOK
<1> HIDE DEF p
<1>2. \/ InMandatory(p.ota_ctx) \/ InOptional(p.ota_ctx) \/ InHeader(p.ota_ctx)
      \/ InImage(p.ota_ctx, Len(p.dfu.data))
  BY <1>1 DEF Receiving, LibraryOK, Place, DataLen
<1>3. /\ IsParser(t) /\ Moves(p, t)
      /\ t.consumed <= block.len
      /\ ota_file_offset(t) = ota_file_offset(p) + t.consumed
      /\ \/ t.consumed = block.len /\ (InMandatory(t.ota_ctx) \/ InOptional(t.ota_ctx))
         \/ InHeader(t.ota_ctx)
         \/ t = p /\ InImage(p.ota_ctx, Len(p.dfu.data))
  BY ONLY <1>0, <1>1, <1>2, Headers
<1> HIDE DEF t
<1>4. ota_file_offset(p) = block.offset
  BY <1>1, SameOffset
<1>5. Consistent(t, v)
  <2>1. OfVersion(t, v)
    BY <1>1, <1>3 DEF Receiving, OfVersion, Moves
  <2>2. Len(t.dfu.data) <= BinSize
    BY <1>1, <1>3 DEF Receiving, LibraryOK, Moves
  <2>3. t.loaded = TRUE => t.ota_ctx.target_file_version # None /\ t.ota_ctx.total_size = TotalSize
    BY <1>1, <1>3 DEF Receiving, LibraryOK, Moves
  <2>4. t.loaded = TRUE \/ t.dfu.ready = TRUE \/ t.dfu.data # <<>> => Missing(t.dfu)
    BY <1>1, <1>3 DEF Receiving, LibraryOK, Moves
  <2> QED
    BY ONLY <2>1, <2>2, <2>3, <2>4 DEF Consistent
<1>6. t.ok = TRUE
  BY <1>1, <1>3 DEF Moves
<1>7. Place(t.ota_ctx, DataLen(t))
  BY <1>2, <1>3 DEF Place, DataLen
<1>8. Fresh(t)
  <2>1. CASE t = p
    BY <1>1, <2>1 DEF Receiving, Fresh
  <2>2. CASE t # p
    <3>1. CASE p.ota_ctx.process_bin_image = TRUE
      <4>1. t = p
        <5>1. /\ p.ota_ctx.mandatory_header_finished = TRUE /\ p.ota_ctx.process_optional_header = FALSE
          BY <1>2, <3>1 DEF InMandatory, InOptional, InHeader, InImage
        <5> QED
          BY <5>1 DEF t, ParseHeaders
      <4> QED
        BY <2>2, <4>1
    <3>2. CASE p.ota_ctx.process_bin_image # TRUE
      <4>1. p.dfu.data = <<>>
        BY <1>1, <3>2 DEF Receiving, Fresh, DataLen
      <4> QED
        BY <1>3, <4>1 DEF Fresh, Moves
    <3> QED
      BY <3>1, <3>2
  <2> QED
    BY <2>1, <2>2
<1>9. t.consumed < block.len =>
        /\ InHeader(t.ota_ctx) \/ InImage(t.ota_ctx, DataLen(t))
        /\ block.offset + t.consumed = ota_file_offset(t)
  <2> SUFFICES ASSUME t.consumed < block.len
               PROVE  /\ InHeader(t.ota_ctx) \/ InImage(t.ota_ctx, DataLen(t))
                      /\ block.offset + t.consumed = ota_file_offset(t)
    OBVIOUS
  <2>1. block.offset + t.consumed = ota_file_offset(t)
    BY <1>3, <1>4
  <2>2. t.consumed # block.len
    BY <1>0
  <2>3. CASE InHeader(t.ota_ctx)
    BY <2>1, <2>3
  <2>4. CASE t = p /\ InImage(p.ota_ctx, Len(p.dfu.data))
    BY <2>1, <2>4 DEF DataLen
  <2> QED
    BY <1>3, <2>2, <2>3, <2>4
<1>10. Steady(t, block)
  BY ONLY <1>5, <1>7, <1>8, <1>9 DEF Steady, v
<1>11. ParserOK(t, block)
  BY ONLY <1>3, <1>10 DEF ParserOK
<1> QED
  BY <1>6, <1>11 DEF t, p

(* What becomes of a block from the byte on the library stands at: unless  *)
(* it is refused, all that was true of the library is true again.          *)
LEMMA ChunkIs ==
  ASSUME NEW l, NEW block, BlockOK(block), block.len > 0, Receiving(l, block.version),
         ~ AtEnd(l.ota_ctx, DataLen(l)), block.offset = ota_file_offset(l),
         NEW downloading, NEW sync, NEW fault
  PROVE  LET r == ota_process_chunk(l, block, downloading, sync, fault) IN
         /\ DOMAIN r.lib = {"ota_ctx", "dfu", "saved", "loaded"} /\ IsLibrary(r.lib)
         /\ r.ok = TRUE \/ r.ok = FALSE
         /\ r.ok = TRUE => Receiving(r.lib, block.version) /\ 0 < r.consumed
<1> DEFINE s == ParseHeaders(StartParsing(l), block)
           p == Parse(s, block, downloading, sync, fault)
           t == Finished(p)
           u == LibraryOf(t)
           r == ota_process_chunk(l, block, downloading, sync, fault)
           v == block.version
<1>1. ParserOK(s, block) /\ s.ok = TRUE
  BY HeadersOK
<1>2. r = [lib |-> u, ok |-> t.ok, consumed |-> t.consumed]
  <2>1. ~ (block.offset > ota_file_offset(l))
    BY DEF BlockOK
  <2> QED
    BY <2>1 DEF ota_process_chunk, Result
<1> HIDE DEF r, s
<1>3. /\ ParserOK(p, block)
      /\ p.ok = TRUE => 0 < p.consumed
  BY ONLY <1>1, BlockOK(block), block.len > 0, ParsedIs
<1> HIDE DEF p
<1>4. /\ u.ota_ctx = t.ota_ctx /\ u.dfu = t.dfu /\ u.saved = t.saved /\ u.loaded = t.loaded
      /\ DOMAIN u = {"ota_ctx", "dfu", "saved", "loaded"}
  BY DEF LibraryOf
<1>5. IsParser(t) /\ t.ok = p.ok /\ t.consumed = p.consumed
  <2>1. IsParser(p)
    BY <1>3 DEF ParserOK
  <2>2. CASE FullImage(p.ota_ctx)
    <3>1. t = Closed(p)
      BY <2>2 DEF Finished, Closed
    <3> HIDE DEF t
    <3>2. IsParser(t) /\ t.ok = p.ok /\ t.consumed = p.consumed
      BY ONLY <2>1, <3>1, ClosedIs
    <3> QED
      BY <3>2 DEF t
  <2>3. CASE ~ FullImage(p.ota_ctx)
    BY <2>1, <2>3 DEF Finished
  <2> QED
    BY <2>2, <2>3
<1>6. ASSUME p.ok = TRUE
      PROVE  Place(t.ota_ctx, DataLen(t)) /\ Fresh(t) /\ Consistent(t, v)
  <2>1. IsParser(p) /\ Place(p.ota_ctx, DataLen(p)) /\ Fresh(p) /\ Consistent(p, v)
    BY <1>3, <1>6 DEF ParserOK, Steady
  <2> QED
    BY ONLY <2>1, FinishedIs
<1> HIDE DEF t, u
<1>7. IsLibrary(u)
  BY <1>4, <1>5 DEF IsParser, IsLibrary
<1>8. ASSUME p.ok = TRUE
      PROVE  Receiving(u, v)
  <2>1. Place(t.ota_ctx, DataLen(t)) /\ Fresh(t) /\ Consistent(t, v)
    BY <1>6, <1>8
  <2>2. OfVersion(u, v)
    BY <1>4, <2>1 DEF Consistent, OfVersion
  <2>3. Place(u.ota_ctx, Len(u.dfu.data)) /\ Len(u.dfu.data) <= BinSize /\ Fresh(u)
    BY <1>4, <2>1 DEF Consistent, Fresh, DataLen
  <2>4. u.loaded = TRUE => u.ota_ctx.target_file_version # None /\ u.ota_ctx.total_size = TotalSize
    BY <1>4, <2>1 DEF Consistent
  <2>5. u.loaded = TRUE \/ u.dfu.ready = TRUE \/ u.dfu.data # <<>> => Missing(u.dfu)
    BY <1>4, <2>1 DEF Consistent
  <2>6. LibraryOK(u)
    BY ONLY <1>4, <1>7, <2>3, <2>4, <2>5 DEF LibraryOK
  <2> QED
    BY ONLY <2>2, <2>3, <2>5, <2>6 DEF Receiving
<1>9. p.ok = TRUE \/ p.ok = FALSE
  BY <1>3 DEF ParserOK, IsParser
<1>10. r.lib = u /\ r.ok = p.ok /\ r.consumed = p.consumed
  BY <1>2, <1>5
<1>11. r.ok = TRUE => Receiving(r.lib, v) /\ 0 < r.consumed
  BY <1>3, <1>8, <1>10
<1>12. DOMAIN r.lib = {"ota_ctx", "dfu", "saved", "loaded"} /\ IsLibrary(r.lib)
       /\ (r.ok = TRUE \/ r.ok = FALSE)
  BY <1>4, <1>7, <1>9, <1>10
<1> QED
  BY ONLY <1>11, <1>12 DEF r, v

-------------------------------------------------------------------------------
(* The client.                                                             *)

(* The fields of the client's record, the answers it may store, and what   *)
(* is known of it, of its numbers and of the system.                       *)
ClientFields ==
  {"image_status", "file_offset", "ota_dfv", "download_file_size", "img_block_req_sent",
   "pending_img_block_resp", "resend_retries", "resend", "ota_restart_after_rejoin",
   "payload_2_version", "block_req_cbs", "end_res_timeouts", "finish_alarms"}
IsAnswerOf(a) ==
  \/ /\ a \in [status : {"SUCCESS"}, block : Block]
     /\ a.block.len = Smaller(BlockLen, TotalSize - a.block.offset)
  \/ a \in [status : {"WAIT_FOR_DATA", "ABORT"}, block : {None}]

IsRecord(c) == DOMAIN c = ClientFields /\ c = [f \in DOMAIN c |-> c[f]]

(* The client but for the two fields an abort clears whatever they are.    *)
IsClient(c) ==
  /\ IsRecord(c)
  /\ c.image_status \in Status
  /\ c.ota_dfv \in Versions \cup {None} /\ c.download_file_size \in {0, TotalSize}
  /\ c.img_block_req_sent = TRUE \/ c.img_block_req_sent = FALSE
  /\ c.pending_img_block_resp = None \/ IsAnswerOf(c.pending_img_block_resp)
  /\ c.resend = TRUE \/ c.resend = FALSE
  /\ c.ota_restart_after_rejoin = TRUE \/ c.ota_restart_after_rejoin = FALSE
  /\ c.payload_2_version \in Versions \cup {None}
  /\ c.block_req_cbs \in Nat /\ c.end_res_timeouts \in Nat /\ c.finish_alarms \in Nat
Numbers(c) ==
  /\ c.file_offset \in 0 .. TotalSize \cup {None}
  /\ c.resend_retries \in 0 .. MaxResendRetries
Shape(s) ==
  /\ DOMAIN s = {"cli", "lib", "net"} /\ IsClient(s.cli) /\ s.net \subseteq Requests

(* A resume state is saved only as long as bytes are missing.              *)
LibraryKnown(l) == LibraryOK(l) /\ (l.saved # None => Len(l.dfu.data) < BinSize)
SystemKnown(s) ==
  /\ Shape(s) /\ Numbers(s.cli) /\ LibraryKnown(s.lib)
  /\ Downloading(s) /\ OneVersion(s) /\ Schedulable(s)

(* d differs from c in the fields of F only.                               *)
SameClient(d, c, F) == \A f \in ClientFields : f \in F \/ d[f] = c[f]

(* The fields by name.                                                     *)
LEMMA ClientHas ==
  /\ "image_status" \in ClientFields /\ "file_offset" \in ClientFields
  /\ "ota_dfv" \in ClientFields /\ "download_file_size" \in ClientFields
  /\ "img_block_req_sent" \in ClientFields /\ "pending_img_block_resp" \in ClientFields
  /\ "resend_retries" \in ClientFields /\ "resend" \in ClientFields
  /\ "ota_restart_after_rejoin" \in ClientFields /\ "payload_2_version" \in ClientFields
  /\ "block_req_cbs" \in ClientFields /\ "end_res_timeouts" \in ClientFields
  /\ "finish_alarms" \in ClientFields
BY DEF ClientFields

(* What the bookkeeping of requests and alarms leaves alone.               *)
SameDownload(t, s) ==
  /\ t.lib = s.lib
  /\ t.cli.image_status = s.cli.image_status /\ t.cli.file_offset = s.cli.file_offset
  /\ t.cli.ota_dfv = s.cli.ota_dfv /\ t.cli.download_file_size = s.cli.download_file_size
  /\ t.cli.finish_alarms = s.cli.finish_alarms

(* What drives a download on: a request the stack is not done with, or the *)
(* resend alarm.  In t it is driven, and the wait for the end response     *)
(* will time out; or t carries on what s was at.                           *)
IsDownloading(s) == s.cli.image_status = "DOWNLOADING"
IsDownloaded(s) == s.cli.image_status = "DOWNLOADED"
Due(s) == s.cli.block_req_cbs > 0 \/ s.cli.resend = TRUE
Driven(t) ==
  /\ IsDownloading(t) => t.cli.ota_dfv # None /\ Due(t)
  /\ IsDownloaded(t) => t.cli.end_res_timeouts > 0
DownloadKept(t, s) ==
  /\ t.cli.image_status = s.cli.image_status /\ t.cli.ota_dfv = s.cli.ota_dfv
  /\ t.lib.loaded = TRUE => s.lib.loaded = TRUE
  /\ Due(s) => Due(t)
Carries(t, s) ==
  /\ IsDownloading(t) => (t.cli.ota_dfv # None /\ Due(t)) \/ DownloadKept(t, s)
  /\ IsDownloaded(t) =>
       \/ t.cli.end_res_timeouts > 0
       \/ IsDownloaded(s) /\ t.cli.end_res_timeouts = s.cli.end_res_timeouts

LEMMA DrivenCarries ==
  ASSUME NEW t, Driven(t), NEW s
  PROVE  Carries(t, s)
BY DEF Driven, Carries

LEMMA SameCarries ==
  ASSUME NEW s, NEW t, SameDownload(t, s), Due(s) => Due(t),
         t.cli.end_res_timeouts = s.cli.end_res_timeouts
  PROVE  Carries(t, s)
<1>1. DownloadKept(t, s)
  BY DEF SameDownload, DownloadKept
<1>2. IsDownloaded(t) => IsDownloaded(s)
  BY DEF SameDownload, IsDownloaded
<1> QED
  BY <1>1, <1>2 DEF Carries

LEMMA CarriesOn ==
  ASSUME NEW s, NEW t, NEW u, Carries(t, s), Carries(u, t)
  PROVE  Carries(u, s)
<1>1. ASSUME IsDownloading(u), DownloadKept(u, t)
      PROVE  (u.cli.ota_dfv # None /\ Due(u)) \/ DownloadKept(u, s)
  <2>1. IsDownloading(t)
    BY <1>1 DEF DownloadKept, IsDownloading
  <2>2. (t.cli.ota_dfv # None /\ Due(t)) \/ DownloadKept(t, s)
    BY <2>1 DEF Carries
  <2> QED
    BY <1>1, <2>2 DEF DownloadKept
<1>2. IsDownloading(u) => (u.cli.ota_dfv # None /\ Due(u)) \/ DownloadKept(u, s)
  BY <1>1 DEF Carries
<1>3. IsDownloaded(u) =>
        \/ u.cli.end_res_timeouts > 0
        \/ IsDownloaded(s) /\ u.cli.end_res_timeouts = s.cli.end_res_timeouts
  BY DEF Carries
<1> QED
  BY <1>2, <1>3 DEF Carries

(* The bookkeeping disturbs nothing.                                       *)
LEMMA Bookkeeping ==
  ASSUME NEW s, SystemKnown(s), NEW t, Shape(t), Numbers(t.cli), SameDownload(t, s)
  PROVE  SystemKnown(t)
<1>1. LibraryKnown(t.lib)
  BY DEF SystemKnown, SameDownload
<1>2. Downloading(t)
  BY DEF SystemKnown, SameDownload, Downloading
<1>3. OneVersion(t)
  BY DEF SystemKnown, SameDownload, OneVersion
<1>4. Schedulable(t)
  BY DEF SystemKnown, SameDownload, Schedulable
<1> QED
  BY <1>1, <1>2, <1>3, <1>4 DEF SystemKnown

(* The resend buffer is given up.                                          *)
LEMMA CancelResendIs ==
  ASSUME NEW s, Shape(s)
  PROVE  LET t == cancel_resend_buffer(s) IN
         /\ Shape(t) /\ SameDownload(t, s) /\ t.net = s.net /\ t.cli.resend_retries = 0
         /\ SameClient(t.cli, s.cli, {"resend", "resend_retries"})
<1> DEFINE c == s.cli
           d == [c EXCEPT !.resend = FALSE, !.resend_retries = 0]
           t == cancel_resend_buffer(s)
<1>1. IsClient(c) /\ DOMAIN s = {"cli", "lib", "net"}
  BY DEF Shape
<1>2. t = [s EXCEPT !.cli = d]
  BY <1>1 DEF cancel_resend_buffer
<1>3. IsRecord(d) /\ d.resend = FALSE /\ d.resend_retries = 0
      /\ SameClient(d, c, {"resend", "resend_retries"})
  BY <1>1, ClientHas DEF IsClient, SameClient, IsRecord
<1> HIDE DEF d, t
<1>4. t.cli = d /\ t.lib = s.lib /\ t.net = s.net /\ DOMAIN t = DOMAIN s
  BY <1>1, <1>2
<1>5. IsClient(d)
  BY <1>1, <1>3, ClientHas DEF IsClient, SameClient
<1>6. Shape(t)
  BY <1>1, <1>4, <1>5 DEF Shape
<1>7. SameDownload(t, s)
  BY <1>3, <1>4, ClientHas DEF SameDownload, SameClient
<1> QED
  BY <1>3, <1>4, <1>6, <1>7 DEF t

(* The client's record c in the place of the one s has.                    *)
WithClient(s, c) == [s EXCEPT !.cli = c]
LEMMA WithClientIs ==
  ASSUME NEW s, Shape(s), NEW c, IsClient(c)
  PROVE  LET t == WithClient(s, c) IN
         Shape(t) /\ t.cli = c /\ t.lib = s.lib /\ t.net = s.net
BY DEF WithClient, Shape

(* The same, with other requests, or another library.                      *)
WithNet(s, c, n) == [s EXCEPT !.net = n, !.cli = c]
LEMMA WithNetIs ==
  ASSUME NEW s, Shape(s), NEW c, IsClient(c), NEW n, n \subseteq Requests
  PROVE  LET t == WithNet(s, c, n) IN
         Shape(t) /\ t.cli = c /\ t.lib = s.lib /\ t.net = n
BY DEF WithNet, Shape

WithLib(s, c, l) == [s EXCEPT !.cli = c, !.lib = l]
LEMMA WithLibIs ==
  ASSUME NEW s, Shape(s), NEW c, IsClient(c), NEW l
  PROVE  LET t == WithLib(s, c, l) IN
         Shape(t) /\ t.cli = c /\ t.lib = l /\ t.net = s.net
BY DEF WithLib, Shape

(* The resend buffer is scheduled, the next block requested, the next      *)
(* block asked for.                                                        *)
LEMMA ScheduleResendIs ==
  ASSUME NEW s, Shape(s)
  PROVE  LET t == schedule_resend_buffer(s) IN
         /\ Shape(t) /\ SameDownload(t, s) /\ t.net = s.net /\ t.cli.resend_retries = 0
         /\ t.cli.resend = TRUE
<1> DEFINE c == s.cli
           d == [c EXCEPT !.resend = TRUE, !.resend_retries = 0]
           t == schedule_resend_buffer(s)
<1>1. IsClient(c) /\ DOMAIN s = {"cli", "lib", "net"}
  BY DEF Shape
<1>2. t = WithClient(s, d)
  BY <1>1 DEF schedule_resend_buffer, WithClient
<1>3. IsRecord(d) /\ d.resend = TRUE /\ d.resend_retries = 0
      /\ SameClient(d, c, {"resend", "resend_retries"})
  BY <1>1, ClientHas DEF IsClient, SameClient, IsRecord
<1> HIDE DEF d, t
<1>4. IsClient(d)
  BY <1>1, <1>3, ClientHas DEF IsClient, SameClient
<1>5. Shape(t) /\ t.cli = d /\ t.lib = s.lib /\ t.net = s.net
  BY <1>2, <1>4, WithClientIs
<1>6. SameDownload(t, s)
  BY <1>3, <1>5, ClientHas DEF SameDownload, SameClient
<1> QED
  BY <1>3, <1>5, <1>6 DEF t

LEMMA SendBlockIs ==
  ASSUME NEW s, Shape(s), NEW version \in Versions \cup {None}, s.cli.file_offset \in 0 .. TotalSize
  PROVE  LET t == SendBlockRequest(s, version) IN
         /\ Shape(t) /\ SameDownload(t, s) /\ t.cli.resend_retries = s.cli.resend_retries
         /\ t.cli.block_req_cbs > 0 /\ t.cli.end_res_timeouts = s.cli.end_res_timeouts
<1> DEFINE c == s.cli
           d == [c EXCEPT !.img_block_req_sent = TRUE, !.block_req_cbs = @ + 1]
           n == s.net \cup {Request(version, c.file_offset)}
           t == SendBlockRequest(s, version)
<1>1. IsClient(c) /\ DOMAIN s = {"cli", "lib", "net"} /\ s.net \subseteq Requests
  BY DEF Shape
<1>2. t = WithNet(s, d, n)
  BY <1>1 DEF SendBlockRequest, WithNet
<1>3. n \subseteq Requests
  BY <1>1 DEF Requests
<1>4. IsRecord(d) /\ d.img_block_req_sent = TRUE /\ d.block_req_cbs = c.block_req_cbs + 1
      /\ SameClient(d, c, {"img_block_req_sent", "block_req_cbs"})
  BY <1>1, ClientHas DEF IsClient, SameClient, IsRecord
<1> HIDE DEF d, t, n
<1>5. IsClient(d)
  BY <1>1, <1>4, ClientHas DEF IsClient, SameClient
<1>6. Shape(t) /\ t.cli = d /\ t.lib = s.lib
  BY <1>2, <1>3, <1>5, WithNetIs
<1>7. SameDownload(t, s) /\ t.cli.resend_retries = s.cli.resend_retries
  BY <1>4, <1>6, ClientHas DEF SameDownload, SameClient
<1>8. t.cli.end_res_timeouts = s.cli.end_res_timeouts /\ t.cli.block_req_cbs = c.block_req_cbs + 1
  BY <1>4, <1>6, ClientHas DEF SameClient
<1>9. c.block_req_cbs \in Nat
  BY <1>1 DEF IsClient
<1>10. t.cli.block_req_cbs > 0
  BY ONLY <1>8, <1>9
<1> QED
  BY <1>6, <1>7, <1>8, <1>10 DEF t

LEMMA GetNextIs ==
  ASSUME NEW s, Shape(s), s.cli.file_offset \in 0 .. TotalSize
  PROVE  LET t == get_next_image_block(s) IN
         /\ Shape(t) /\ SameDownload(t, s) /\ t.cli.resend_retries = 0
         /\ t.cli.block_req_cbs > 0 /\ t.cli.end_res_timeouts = s.cli.end_res_timeouts
<1> DEFINE version == s.cli.ota_dfv
           u == SendBlockRequest(s, version)
           c == u.cli
           d == [c EXCEPT !.payload_2_version = version]
           w == WithClient(u, d)
           t == get_next_image_block(s)
<1>1. version \in Versions \cup {None}
  BY DEF Shape, IsClient
<1>2. /\ Shape(u) /\ SameDownload(u, s)
      /\ u.cli.block_req_cbs > 0 /\ u.cli.end_res_timeouts = s.cli.end_res_timeouts
  BY <1>1, SendBlockIs
<1>3. t = cancel_resend_buffer(w)
  <2>1. DOMAIN u = {"cli", "lib", "net"}
    BY <1>2 DEF Shape
  <2> HIDE DEF u
  <2>2. [u EXCEPT !.cli.payload_2_version = version] = w
    BY <2>1 DEF WithClient
  <2> QED
    BY <2>2 DEF get_next_image_block, send_block_request, u
<1> HIDE DEF u
<1>4. IsClient(c)
  BY <1>2 DEF Shape
<1>5. IsRecord(d) /\ d.payload_2_version = version
      /\ SameClient(d, c, {"payload_2_version"})
  BY <1>4, ClientHas DEF IsClient, SameClient, IsRecord
<1> HIDE DEF d, w, t
<1>6. IsClient(d)
  BY <1>1, <1>4, <1>5, ClientHas DEF IsClient, SameClient
<1>7. Shape(w) /\ w.cli = d /\ w.lib = u.lib
  BY <1>2, <1>6, WithClientIs DEF w
<1>8. SameDownload(w, u)
  BY <1>5, <1>7, ClientHas DEF SameDownload, SameClient
<1>9. /\ Shape(t) /\ SameDownload(t, w) /\ t.cli.resend_retries = 0
      /\ SameClient(t.cli, w.cli, {"resend", "resend_retries"})
  BY <1>3, <1>7, CancelResendIs
<1>10. SameDownload(t, s)
  BY <1>2, <1>8, <1>9 DEF SameDownload
<1>11. /\ t.cli.block_req_cbs = u.cli.block_req_cbs
       /\ t.cli.end_res_timeouts = u.cli.end_res_timeouts
  BY <1>5, <1>7, <1>9, ClientHas DEF SameClient
<1> QED
  BY <1>2, <1>9, <1>10, <1>11 DEF t

(* What an abort leaves of the client.                                     *)
IsAborted(t, s) ==
  /\ t.cli.image_status = "NORMAL" /\ t.cli.file_offset = None /\ t.cli.ota_dfv = None
  /\ t.cli.resend_retries = 0
  /\ t.cli.download_file_size = s.cli.download_file_size
  /\ t.cli.finish_alarms = s.cli.finish_alarms
Cancelled(l) ==
  /\ DOMAIN l = {"ota_ctx", "dfu", "saved", "loaded"} /\ IsDfu(l.dfu)
  /\ l.ota_ctx = ResetContext /\ l.saved = None /\ l.loaded = FALSE
  /\ l.dfu.data = <<>> /\ l.dfu.ready = FALSE

(* A cancelled library fits any version.                                   *)
LEMMA CancelledIs ==
  ASSUME NEW l, Cancelled(l)
  PROVE  /\ LibraryKnown(l) /\ \A v \in Versions : OfVersion(l, v)
         /\ ota_file_offset(l) = 0 /\ l.ota_ctx.target_file_version = None
         /\ l.ota_ctx.process_bin_image = FALSE
<1> DEFINE c == l.ota_ctx
<1>1. IsContext(c) /\ IsReset(c)
  BY ResetIs DEF Cancelled
<1>2. IsLibrary(l)
  BY <1>1 DEF Cancelled, IsLibrary
<1>3. Len(l.dfu.data) = 0
  BY DEF Cancelled
<1>4. InMandatory(c)
  BY <1>1, FileAssumption DEF IsReset, InMandatory
<1>5. LibraryOK(l)
  BY <1>2, <1>3, <1>4, SizesAre DEF LibraryOK, Cancelled, Place
<1>6. LibraryKnown(l)
  BY <1>5 DEF LibraryKnown, Cancelled
<1>7. \A v \in Versions : OfVersion(l, v)
  BY <1>1, FromNothing DEF OfVersion, Cancelled, IsReset
<1>8. ota_file_offset(l) = 0
  BY <1>1 DEF ota_file_offset, IsReset
<1> QED
  BY <1>1, <1>6, <1>7, <1>8 DEF IsReset

(* zcl_ota_abort cancels the library unless no update is going on.         *)
LEMMA AbortIs ==
  ASSUME NEW s, Shape(s), DOMAIN s.lib = {"ota_ctx", "dfu", "saved", "loaded"}, IsDfu(s.lib.dfu)
  PROVE  LET t == zcl_ota_abort(s) IN
         /\ Shape(t) /\ IsAborted(t, s)
         /\ IF s.cli.image_status = "NORMAL" THEN t.lib = s.lib ELSE Cancelled(t.lib)
<1> DEFINE u == cancel_resend_buffer(s)
           c == u.cli
           d == [c EXCEPT !.image_status = "NORMAL", !.file_offset = None, !.ota_dfv = None,
                          !.img_block_req_sent = FALSE, !.pending_img_block_resp = None]
           l == ota_dfu_cancel(s.lib)
           t == zcl_ota_abort(s)
<1>1. Shape(u) /\ SameDownload(u, s) /\ u.cli.resend_retries = 0
  BY CancelResendIs
<1>2. DOMAIN u = {"cli", "lib", "net"} /\ IsClient(c)
  BY <1>1 DEF Shape
<1> HIDE DEF u
<1>3. /\ IsRecord(d) /\ d.image_status = "NORMAL" /\ d.file_offset = None
      /\ d.ota_dfv = None /\ d.img_block_req_sent = FALSE /\ d.pending_img_block_resp = None
      /\ SameClient(d, c, {"image_status", "file_offset", "ota_dfv", "img_block_req_sent",
                           "pending_img_block_resp"})
  BY <1>2, ClientHas DEF IsClient, SameClient, IsRecord
<1>4. Cancelled(l)
  <2>1. /\ DOMAIN l = DOMAIN s.lib
        /\ l.ota_ctx = ResetContext /\ l.saved = None /\ l.loaded = FALSE
        /\ IsDfu(l.dfu) /\ l.dfu.data = <<>> /\ l.dfu.ready = FALSE
    BY CancelIs
  <2> QED
    BY <2>1 DEF Cancelled
<1>5. t = IF s.cli.image_status = "NORMAL" THEN WithClient(u, d) ELSE WithLib(u, d, l)
  <2>1. [u EXCEPT !.cli.image_status = "NORMAL", !.cli.file_offset = None, !.cli.ota_dfv = None,
                  !.cli.img_block_req_sent = FALSE, !.cli.pending_img_block_resp = None]
          = WithClient(u, d)
    BY <1>2 DEF WithClient
  <2>2. t = IF s.cli.image_status = "NORMAL" THEN WithClient(u, d)
            ELSE [WithClient(u, d) EXCEPT !.lib = ota_dfu_cancel(@)]
    BY <2>1 DEF zcl_ota_abort, u
  <2>3. u.lib = s.lib
    BY <1>1 DEF SameDownload
  <2> HIDE DEF d
  <2>4. [WithClient(u, d) EXCEPT !.lib = ota_dfu_cancel(@)] = WithLib(u, d, l)
    BY <1>2, <2>3 DEF WithClient, WithLib
  <2> HIDE DEF t, l
  <2> QED
    BY <2>2, <2>4
<1> HIDE DEF d, t, l
<1>6. IsClient(d)
  BY <1>2, <1>3, ClientHas DEF IsClient, SameClient, Status
<1>7. /\ Shape(t) /\ t.cli = d
      /\ IF s.cli.image_status = "NORMAL" THEN t.lib = u.lib ELSE t.lib = l
  BY <1>1, <1>5, <1>6, WithClientIs, WithLibIs
<1>8. IsAborted(t, s)
  BY <1>1, <1>3, <1>7, ClientHas DEF IsAborted, SameDownload, SameClient
<1> QED
  BY <1>1, <1>4, <1>7, <1>8 DEF SameDownload, t

(* An abort gives back a system in order whatever the download was, except *)
(* that outside of a download the library must be in order already.        *)
Orderly(s) == LibraryKnown(s.lib) /\ OneVersion(s) /\ Schedulable(s)
LEMMA AbortOK ==
  ASSUME NEW s, Shape(s), DOMAIN s.lib = {"ota_ctx", "dfu", "saved", "loaded"}, IsDfu(s.lib.dfu),
         s.cli.image_status # "NORMAL" \/ Orderly(s)
  PROVE  SystemKnown(zcl_ota_abort(s))
<1> DEFINE t == zcl_ota_abort(s)
<1>1. /\ Shape(t) /\ IsAborted(t, s)
      /\ IF s.cli.image_status = "NORMAL" THEN t.lib = s.lib ELSE Cancelled(t.lib)
  BY AbortIs
<1> HIDE DEF t
<1>2. Numbers(t.cli) /\ Downloading(t)
  BY <1>1, ClientAssumption DEF IsAborted, Numbers, Downloading
<1>3. CASE s.cli.image_status = "NORMAL"
  <2>1. Orderly(s) /\ t.lib = s.lib
    BY <1>1, <1>3
  <2>2. OneVersion(t)
    BY <1>1, <2>1 DEF Orderly, OneVersion, IsAborted
  <2>3. Schedulable(t)
    BY <1>1, <2>1 DEF Orderly, Schedulable, IsAborted
  <2> QED
    BY <1>1, <1>2, <2>1, <2>2, <2>3 DEF SystemKnown, Orderly, t
<1>4. CASE s.cli.image_status # "NORMAL"
  <2>1. Cancelled(t.lib)
    BY <1>1, <1>4
  <2>2. LibraryKnown(t.lib) /\ \A v \in Versions : OfVersion(t.lib, v)
    BY <2>1, CancelledIs
  <2>3. OneVersion(t)
    BY <1>1, <2>2, FileAssumption DEF OneVersion, IsAborted
  <2>4. Schedulable(t)
    BY <2>1 DEF Schedulable, Cancelled
  <2> QED
    BY <1>1, <1>2, <2>2, <2>3, <2>4 DEF SystemKnown, t
<1> QED
  BY <1>3, <1>4

(* What the routines of the client need of a system in order.              *)
LEMMA KnownShape ==
  ASSUME NEW s, SystemKnown(s)
  PROVE  /\ Shape(s) /\ DOMAIN s.lib = {"ota_ctx", "dfu", "saved", "loaded"} /\ IsDfu(s.lib.dfu)
         /\ IsClient(s.cli) /\ Orderly(s)
BY DEF SystemKnown, Shape, LibraryKnown, LibraryOK, IsLibrary, Orderly

(* One more wait for the end response.                                     *)
LEMMA TimeoutOK ==
  ASSUME NEW s, SystemKnown(s)
  PROVE  LET t == [s EXCEPT !.cli.end_res_timeouts = @ + 1] IN
         SystemKnown(t) /\ (~ IsDownloading(s) => Driven(t))
<1> DEFINE c == s.cli
           d == [c EXCEPT !.end_res_timeouts = @ + 1]
           t == WithClient(s, d)
<1>1. Shape(s) /\ IsClient(c)
  BY KnownShape
<1>2. IsRecord(d) /\ d.end_res_timeouts = c.end_res_timeouts + 1
      /\ SameClient(d, c, {"end_res_timeouts"})
  BY <1>1, ClientHas DEF IsClient, SameClient, IsRecord
<1>3. [s EXCEPT !.cli.end_res_timeouts = @ + 1] = t
  BY <1>1 DEF Shape, WithClient
<1> HIDE DEF d, t
<1>4. IsClient(d)
  BY <1>1, <1>2, ClientHas DEF IsClient, SameClient
<1>5. Shape(t) /\ t.cli = d /\ t.lib = s.lib
  BY <1>1, <1>4, WithClientIs DEF t
<1>6. SameDownload(t, s) /\ Numbers(t.cli)
  BY <1>2, <1>5, ClientHas DEF SameDownload, SameClient, Numbers, SystemKnown
<1>7. SystemKnown(t)
  BY ONLY <1>5, <1>6, SystemKnown(s), Bookkeeping
<1>8. c.end_res_timeouts \in Nat
  BY <1>1 DEF IsClient
<1>9. t.cli.end_res_timeouts > 0
  BY <1>2, <1>5, <1>8
<1>10. ~ IsDownloading(s) => Driven(t)
  BY <1>6, <1>9 DEF SameDownload, IsDownloading, Driven
<1> QED
  BY <1>3, <1>7, <1>10

(* upgrade_end asks for the end response, or aborts a download that        *)
(* failed.                                                                 *)
LEMMA UpgradeEndOK ==
  ASSUME NEW s, Shape(s), DOMAIN s.lib = {"ota_ctx", "dfu", "saved", "loaded"}, IsDfu(s.lib.dfu),
         s.cli.image_status # "NORMAL", NEW ok, NEW version,
         ok => SystemKnown(s) /\ version \in Versions
  PROVE  LET t == upgrade_end(s, ok, version) IN
         SystemKnown(t) /\ (IsDownloaded(s) \/ ~ ok => Driven(t))
<1> DEFINE n == s.net \cup {[name |-> "end", version |-> version]}
           t == IF ok THEN [s EXCEPT !.net = n] ELSE zcl_ota_abort(s)
<1>1. ASSUME ok
      PROVE  SystemKnown(t) /\ (IsDownloaded(s) => ~ IsDownloading(t))
  <2>1. SystemKnown(s) /\ version \in Versions /\ n \subseteq Requests /\ IsClient(s.cli)
    BY <1>1 DEF Requests, Shape
  <2>2. t = WithNet(s, s.cli, n)
    BY <1>1 DEF WithNet, Shape
  <2> HIDE DEF t, n
  <2>3. Shape(t) /\ t.cli = s.cli /\ t.lib = s.lib
    BY <2>1, <2>2, WithNetIs
  <2>4. SameDownload(t, s) /\ Numbers(t.cli)
    BY <2>1, <2>3 DEF SameDownload, SystemKnown
  <2>5. SystemKnown(t)
    BY ONLY <2>1, <2>3, <2>4, Bookkeeping
  <2>6. IsDownloaded(s) => ~ IsDownloading(t)
    BY <2>3 DEF IsDownloaded, IsDownloading
  <2> QED
    BY <2>5, <2>6
<1>2. ASSUME ~ ok
      PROVE  SystemKnown(t) /\ ~ IsDownloading(t)
  <2>1. t = zcl_ota_abort(s)
    BY <1>2
  <2>2. SystemKnown(zcl_ota_abort(s))
    BY AbortOK
  <2>3. IsAborted(zcl_ota_abort(s), s)
    BY AbortIs
  <2>4. ~ IsDownloading(zcl_ota_abort(s))
    BY <2>3 DEF IsAborted, IsDownloading
  <2> HIDE DEF t
  <2> QED
    BY <2>1, <2>2, <2>4
<1>3. SystemKnown(t) /\ (IsDownloaded(s) \/ ~ ok => ~ IsDownloading(t))
  BY <1>1, <1>2
<1>4. upgrade_end(s, ok, version) = [t EXCEPT !.cli.end_res_timeouts = @ + 1]
  BY DEF upgrade_end
<1> HIDE DEF t
<1> QED
  BY <1>3, <1>4, TimeoutOK

-------------------------------------------------------------------------------
(* The blocks.                                                             *)

(* All bytes are there: the download is checked, and the end response      *)
(* asked for.                                                              *)
LEMMA CheckedIs ==
  ASSUME NEW l, LibraryOK(l), NEW v, OfVersion(l, v)
  PROVE  LET u == Checked(l) IN
         /\ LibraryKnown(u) /\ OfVersion(u, v)
         /\ u.dfu.data = l.dfu.data /\ u.dfu.images_to_download = l.dfu.images_to_download
<1> DEFINE d == [l.dfu EXCEPT !.ready = FALSE]
           u == Checked(l)
<1>1. IsDfu(l.dfu) /\ DOMAIN l = {"ota_ctx", "dfu", "saved", "loaded"}
  BY DEF LibraryOK, IsLibrary
<1>2. u = [l EXCEPT !.saved = None, !.loaded = FALSE, !.dfu = d]
  BY <1>1 DEF Checked
<1>3. IsDfu(d) /\ d.data = l.dfu.data /\ d.images_to_download = l.dfu.images_to_download
      /\ d.ready = FALSE
  BY <1>1 DEF IsDfu
<1> HIDE DEF d, u
<1>4. u.saved = None /\ u.loaded = FALSE /\ u.dfu = d /\ u.ota_ctx = l.ota_ctx /\ DOMAIN u = DOMAIN l
  BY <1>1, <1>2
<1>5. LibraryOK(u)
  BY <1>3, <1>4 DEF LibraryOK, IsLibrary
<1>6. OfVersion(u, v)
  BY <1>3, <1>4 DEF OfVersion
<1> QED
  BY <1>3, <1>4, <1>5, <1>6 DEF LibraryKnown, u

(* process_downloaded_image checks the library and ends the download.      *)
LEMMA DownloadedOK ==
  ASSUME NEW s, Shape(s), s.cli.file_offset \in 0 .. TotalSize, s.cli.ota_dfv \in Versions,
         Receiving(s.lib, s.cli.ota_dfv)
  PROVE  SystemKnown(process_downloaded_image(s)) /\ Driven(process_downloaded_image(s))
<1> DEFINE version == s.cli.ota_dfv
           u == cancel_resend_buffer(s)
           c == u.cli
           d == [c EXCEPT !.image_status = "DOWNLOADED"]
           l == Checked(s.lib)
           t == WithLib(u, d, l)
<1>1. Shape(u) /\ SameDownload(u, s) /\ u.cli.resend_retries = 0
  BY CancelResendIs
<1>2. LibraryOK(s.lib) /\ OfVersion(s.lib, version) /\ (s.lib.dfu.data = <<>> \/ Missing(s.lib.dfu))
  BY DEF Receiving
<1>3. /\ LibraryKnown(l) /\ OfVersion(l, version)
      /\ l.dfu.data = s.lib.dfu.data /\ l.dfu.images_to_download = s.lib.dfu.images_to_download
  BY <1>2, CheckedIs
<1>4. DOMAIN u = {"cli", "lib", "net"} /\ IsClient(c)
  BY <1>1 DEF Shape
<1>5. process_downloaded_image(s) = upgrade_end(t, CanVerify(s.lib), version)
  <2>1. u.lib = s.lib
    BY <1>1 DEF SameDownload
  <2>2. process_downloaded_image(s)
          = upgrade_end([u EXCEPT !.cli.image_status = "DOWNLOADED", !.lib = Checked(@)],
                        CanVerify(s.lib), version)
    BY DEF process_downloaded_image
  <2> HIDE DEF u
  <2>3. [u EXCEPT !.cli.image_status = "DOWNLOADED", !.lib = Checked(@)] = t
    BY <1>4, <2>1 DEF WithLib
  <2> QED
    BY <2>2, <2>3
<1> HIDE DEF u
<1>6. IsRecord(d) /\ d.image_status = "DOWNLOADED" /\ SameClient(d, c, {"image_status"})
  BY <1>4, ClientHas DEF IsClient, SameClient, IsRecord
<1> HIDE DEF d, l, t
<1>7. IsClient(d)
  BY <1>4, <1>6, ClientHas DEF IsClient, SameClient, Status
<1>8. Shape(t) /\ t.cli = d /\ t.lib = l
  BY <1>1, <1>7, WithLibIs DEF t
<1>9. /\ d.file_offset = s.cli.file_offset /\ d.ota_dfv = version /\ d.resend_retries = 0
  BY <1>1, <1>6, ClientHas DEF SameClient, SameDownload
<1>10. Numbers(t.cli)
  BY <1>8, <1>9, ClientAssumption DEF Numbers
<1>11. Downloading(t)
  BY <1>6, <1>8 DEF Downloading
<1>12. OneVersion(t)
  BY <1>3, <1>8, <1>9 DEF OneVersion
<1>13. Schedulable(t)
  BY <1>2, <1>3, <1>8 DEF Schedulable, Missing
<1>14. SystemKnown(t)
  BY <1>3, <1>8, <1>10, <1>11, <1>12, <1>13 DEF SystemKnown
<1>15. /\ DOMAIN t.lib = {"ota_ctx", "dfu", "saved", "loaded"} /\ IsDfu(t.lib.dfu)
       /\ t.cli.image_status # "NORMAL"
  BY <1>6, <1>8, <1>14, KnownShape
<1>16. /\ SystemKnown(upgrade_end(t, CanVerify(s.lib), version))
       /\ IsDownloaded(t) => Driven(upgrade_end(t, CanVerify(s.lib), version))
  BY <1>8, <1>14, <1>15, UpgradeEndOK
<1>17. IsDownloaded(t)
  BY <1>6, <1>8 DEF IsDownloaded
<1> QED
  BY <1>5, <1>16, <1>17

(* The library took a block: the next is asked for, or there is none.      *)
LEMMA NextBlockOK ==
  ASSUME NEW s, Shape(s), s.cli.image_status = "DOWNLOADING", s.cli.ota_dfv \in Versions,
         s.cli.download_file_size = TotalSize,
         Receiving(s.lib, s.cli.ota_dfv), s.cli.file_offset = ota_file_offset(s.lib)
  PROVE  SystemKnown(NextBlock(s, TRUE)) /\ Driven(NextBlock(s, TRUE))
<1> DEFINE t == get_next_image_block(s)
           l == s.lib
           c == l.ota_ctx
<1>1. IsContext(c) /\ IsDfu(l.dfu) /\ Place(c, DataLen(l)) /\ LibraryOK(l) /\ Fresh(l)
  BY DEF Receiving, LibraryOK, IsLibrary, DataLen
<1>2. /\ ota_file_offset(l) \in 0 .. TotalSize
      /\ AtEnd(c, DataLen(l)) \/ ota_file_offset(l) < TotalSize
      /\ AtEnd(c, DataLen(l)) => ota_file_offset(l) = TotalSize
  BY ONLY <1>1, PlaceOffset
<1>3. TotalSize \in Nat
  BY FileIs
<1>4. CASE ota_file_offset(l) < TotalSize
  <2>1. NextBlock(s, TRUE) = t
    BY <1>2, <1>3, <1>4 DEF NextBlock
  <2>2. Shape(t) /\ SameDownload(t, s) /\ t.cli.resend_retries = 0 /\ t.cli.block_req_cbs > 0
    BY <1>2, GetNextIs
  <2> HIDE DEF t
  <2>3. ~ AtEnd(c, DataLen(l))
    BY <1>2, <1>3, <1>4
  <2>4. c.process_bin_image = FALSE => l.dfu.data = <<>>
    BY <1>1, <2>3 DEF Fresh, DataLen
  <2>5. Len(l.dfu.data) < BinSize
    <3>1. CASE l.dfu.data = <<>>
      BY <3>1, SizesAre
    <3>2. CASE l.dfu.data # <<>>
      <4>1. c.process_bin_image = TRUE
        BY <1>1, <2>3, <3>2 DEF Fresh, DataLen
      <4>2. InImage(c, DataLen(l))
        BY <1>1, <2>3, <4>1 DEF Place, InMandatory, InOptional, InHeader
      <4> DEFINE a == DataLen(l)
                 b == Len(c.stream_carry)
      <4>3. a = Len(l.dfu.data)
        BY DEF DataLen
      <4>4. a \in Nat
        BY <1>1, <4>3 DEF IsDfu
      <4>5. b \in Nat
        BY <1>1 DEF IsContext
      <4> HIDE DEF a
      <4>6. a + b < BinSize
        BY ONLY InImage(c, a), <4>2 DEF InImage, a
      <4> HIDE DEF b
      <4> QED
        BY ONLY <4>3, <4>4, <4>5, <4>6, SizesAre
    <3> QED
      BY <3>1, <3>2
  <2>6. LibraryKnown(t.lib)
    BY <1>1, <2>2, <2>5 DEF LibraryKnown, SameDownload
  <2>7. Downloading(t)
    <3>1. t.cli.file_offset \in 0 .. TotalSize - 1
      BY <1>2, <1>3, <1>4, <2>2 DEF SameDownload
    <3> QED
      BY <2>2, <2>4, <3>1 DEF Downloading, SameDownload
  <2>8. OneVersion(t)
    BY <2>2 DEF OneVersion, Receiving, SameDownload
  <2>9. Schedulable(t)
    BY <2>2 DEF Schedulable, Receiving, SameDownload
  <2>10. Numbers(t.cli)
    BY <1>2, <2>2, ClientAssumption DEF Numbers, SameDownload
  <2>11. SystemKnown(t)
    BY <2>2, <2>6, <2>7, <2>8, <2>9, <2>10 DEF SystemKnown
  <2>12. Driven(t)
    BY <2>2, FileAssumption DEF Driven, Due, SameDownload, IsDownloading, IsDownloaded
  <2> QED
    BY <2>1, <2>11, <2>12
<1>5. CASE ota_file_offset(l) = TotalSize
  <2>1. NextBlock(s, TRUE) = process_downloaded_image(s)
    BY <1>3, <1>5 DEF NextBlock
  <2>2. SystemKnown(process_downloaded_image(s)) /\ Driven(process_downloaded_image(s))
    BY <1>2, DownloadedOK
  <2> QED
    BY <2>1, <2>2
<1> QED
  BY <1>2, <1>3, <1>4, <1>5

(* What the client and the library are like when an expected block comes.  *)
LEMMA ReadyForBlock ==
  ASSUME NEW s, SystemKnown(s), s.cli.image_status = "DOWNLOADING", NEW v \in Versions,
         s.cli.ota_dfv = v, s.cli.file_offset = ota_file_offset(s.lib)
  PROVE  /\ Receiving(s.lib, v) /\ ~ AtEnd(s.lib.ota_ctx, DataLen(s.lib))
         /\ s.cli.download_file_size = TotalSize
<1> DEFINE l == s.lib
<1>1. v # None
  BY FileAssumption
<1>2. LibraryOK(l) /\ OfVersion(l, v)
  BY <1>1 DEF SystemKnown, LibraryKnown, OneVersion
<1>3. l.dfu.data = <<>> \/ Missing(l.dfu)
  BY <1>1 DEF SystemKnown, Schedulable
<1>4. /\ s.cli.download_file_size = TotalSize
      /\ l.ota_ctx.process_bin_image = FALSE => l.dfu.data = <<>>
  BY <1>1 DEF SystemKnown, Downloading
<1>5. l.ota_ctx.process_bin_image = TRUE \/ l.ota_ctx.process_bin_image = FALSE
  BY <1>2 DEF LibraryOK, Place, InMandatory, InOptional, InHeader, InImage, AtEnd
<1>6. Fresh(l)
  BY <1>4, <1>5 DEF Fresh
<1>7. ~ AtEnd(l.ota_ctx, DataLen(l))
  <2> SUFFICES ASSUME AtEnd(l.ota_ctx, DataLen(l))
               PROVE  FALSE
    OBVIOUS
  <2>1. l.ota_ctx.process_bin_image = FALSE /\ DataLen(l) = BinSize
    BY DEF AtEnd
  <2>2. Len(l.dfu.data) = 0
    BY <1>4, <2>1
  <2> QED
    BY <2>1, <2>2, SizesAre DEF DataLen
<1> QED
  BY <1>2, <1>3, <1>4, <1>6, <1>7 DEF Receiving

(* A block an answer carries, and that it is a part of the file.           *)
IsBlockOf(block) == block \in Block /\ block.len = Smaller(BlockLen, TotalSize - block.offset)

LEMMA BlockIs ==
  ASSUME NEW block, IsBlockOf(block), NEW o, block.offset = o, o \in 0 .. TotalSize - 1
  PROVE  BlockOK(block) /\ block.len > 0
<1> DEFINE n == block.len
           rest == TotalSize - o
<1>1. block.version \in Versions /\ o \in Nat /\ n \in Nat /\ TotalSize \in Nat /\ o < TotalSize
  BY FileIs DEF IsBlockOf, Block
<1>2. n = Smaller(BlockLen, rest) /\ rest \in Nat \ {0} /\ BlockLen \in Nat \ {0}
  BY <1>1, ClientAssumption DEF IsBlockOf
<1> HIDE DEF n
<1>3. n <= rest /\ n > 0
  BY <1>2 DEF Smaller
<1>4. o + n <= TotalSize
  BY <1>1, <1>3
<1> QED
  BY <1>1, <1>3, <1>4 DEF BlockOK, n

(* What a block that was taken leads to.                                   *)
TakenBlock(s, block, r) ==
  [cancel_resend_buffer(s) EXCEPT !.lib = r.lib, !.cli.file_offset = OffsetAfter(r, block)]
LEMMA TakenBlockIs ==
  ASSUME NEW s, Shape(s), NEW block, NEW r
  PROVE  LET t == TakenBlock(s, block, r) IN
         /\ Shape(t) /\ t.lib = r.lib /\ t.cli.file_offset = OffsetAfter(r, block)
         /\ t.cli.image_status = s.cli.image_status /\ t.cli.ota_dfv = s.cli.ota_dfv
         /\ t.cli.download_file_size = s.cli.download_file_size
         /\ t.cli.finish_alarms = s.cli.finish_alarms
<1> DEFINE u == cancel_resend_buffer(s)
           c == u.cli
           x == OffsetAfter(r, block)
           l == r.lib
           d == [c EXCEPT !.file_offset = x]
           t == TakenBlock(s, block, r)
<1>1. Shape(u) /\ SameDownload(u, s)
  BY CancelResendIs
<1> HIDE DEF u, x, l
<1>2. DOMAIN u = {"cli", "lib", "net"} /\ IsClient(c)
  BY <1>1 DEF Shape
<1>3. t = WithLib(u, d, l)
  BY <1>2 DEF TakenBlock, WithLib, u, x, l
<1>4. IsRecord(d) /\ d.file_offset = x /\ SameClient(d, c, {"file_offset"})
  BY <1>2, ClientHas DEF IsClient, SameClient, IsRecord
<1> HIDE DEF d, t
<1>5. IsClient(d)
  BY <1>2, <1>4, ClientHas DEF IsClient, SameClient
<1>6. Shape(t) /\ t.cli = d /\ t.lib = l
  BY <1>1, <1>3, <1>5, WithLibIs
<1> QED
  BY <1>1, <1>4, <1>6, ClientHas DEF SameDownload, SameClient, t, x, l

(* A block the library took, or failed on: in the second case the client   *)
(* aborts.                                                                 *)
LEMMA TakenOK ==
  ASSUME NEW s, Shape(s), s.cli.image_status = "DOWNLOADING", s.cli.ota_dfv \in Versions,
         s.cli.download_file_size = TotalSize, NEW block, NEW r,
         DOMAIN r.lib = {"ota_ctx", "dfu", "saved", "loaded"}, IsLibrary(r.lib),
         r.ok = TRUE \/ r.ok = FALSE,
         r.ok = TRUE => Receiving(r.lib, s.cli.ota_dfv) /\ 0 < r.consumed
  PROVE  SystemKnown(BlockTaken(s, block, r)) /\ Driven(BlockTaken(s, block, r))
<1> DEFINE t == TakenBlock(s, block, r)
<1>1. /\ Shape(t) /\ t.lib = r.lib /\ t.cli.file_offset = OffsetAfter(r, block)
      /\ t.cli.image_status = s.cli.image_status /\ t.cli.ota_dfv = s.cli.ota_dfv
      /\ t.cli.download_file_size = s.cli.download_file_size
  BY TakenBlockIs
<1>2. BlockTaken(s, block, r)
        = IF r.ok THEN NextBlock(t, TRUE) ELSE upgrade_end(t, FALSE, s.cli.ota_dfv)
  BY DEF BlockTaken, TakenBlock
<1> HIDE DEF t
<1>3. CASE r.ok = TRUE
  <2>1. OffsetAfter(r, block) = ota_file_offset(r.lib)
    BY <1>3 DEF OffsetAfter
  <2>2. SystemKnown(NextBlock(t, TRUE)) /\ Driven(NextBlock(t, TRUE))
    BY <1>1, <1>3, <2>1, NextBlockOK
  <2> QED
    BY <1>2, <1>3, <2>2
<1>4. CASE r.ok = FALSE
  <2>1. IsDfu(t.lib.dfu) /\ DOMAIN t.lib = {"ota_ctx", "dfu", "saved", "loaded"}
    BY <1>1 DEF IsLibrary
  <2>2. /\ SystemKnown(upgrade_end(t, FALSE, s.cli.ota_dfv))
        /\ Driven(upgrade_end(t, FALSE, s.cli.ota_dfv))
    BY <1>1, <2>1, UpgradeEndOK
  <2> QED
    BY <1>2, <1>4, <2>2
<1> QED
  BY <1>3, <1>4

(* A block at the offset and of the version asked for.                     *)
LEMMA ExpectedOK ==
  ASSUME NEW s, SystemKnown(s), s.cli.image_status = "DOWNLOADING", NEW block, IsBlockOf(block),
         block.version = s.cli.ota_dfv, block.offset = s.cli.file_offset, NEW fault
  PROVE  SystemKnown(ExpectedBlock(s, block, fault)) /\ Driven(ExpectedBlock(s, block, fault))
<1> DEFINE v == block.version
           o == block.offset
           r == ota_process_chunk(s.lib, block, IsDownloading(s), synchronous, fault)
<1>1. Shape(s) /\ DOMAIN s.lib = {"ota_ctx", "dfu", "saved", "loaded"}
  BY KnownShape
<1>2. v \in Versions /\ s.cli.ota_dfv = v
  BY DEF IsBlockOf, Block
<1>3. /\ o \in 0 .. TotalSize - 1
      /\ o = ota_file_offset(s.lib) \/ ota_file_offset(s.lib) = 0
      /\ s.cli.ota_dfv # None => s.cli.download_file_size = TotalSize
  BY DEF SystemKnown, Downloading
<1>4. s.cli.download_file_size = TotalSize
  BY <1>2, <1>3, FileAssumption
<1>5. IsLibrary(s.lib)
  BY DEF SystemKnown, LibraryKnown, LibraryOK
<1>6. ExpectedBlock(s, block, fault) = BlockTaken(s, block, r)
  BY DEF ExpectedBlock, IsDownloading
<1>7. /\ DOMAIN r.lib = {"ota_ctx", "dfu", "saved", "loaded"} /\ IsLibrary(r.lib)
      /\ r.ok = TRUE \/ r.ok = FALSE
      /\ r.ok = TRUE => Receiving(r.lib, v) /\ 0 < r.consumed
  <2>1. CASE o = ota_file_offset(s.lib)
    <3>1. BlockOK(block) /\ block.len > 0
      BY <1>3, BlockIs
    <3>2. Receiving(s.lib, v) /\ ~ AtEnd(s.lib.ota_ctx, DataLen(s.lib))
      BY <1>2, <2>1, ReadyForBlock
    <3> QED
      BY ONLY <3>1, <3>2, <2>1, ChunkIs
  <2>2. CASE o # ota_file_offset(s.lib)
    <3>1. o > ota_file_offset(s.lib)
      BY <1>3, <2>2, FileIs
    <3>2. r = [lib |-> s.lib, ok |-> FALSE, consumed |-> 0]
      BY <3>1 DEF ota_process_chunk
    <3> HIDE DEF r
    <3> QED
      BY <1>1, <1>5, <3>2
  <2> QED
    BY <2>1, <2>2
<1> HIDE DEF r
<1>8. SystemKnown(BlockTaken(s, block, r)) /\ Driven(BlockTaken(s, block, r))
  BY <1>1, <1>2, <1>4, <1>7, TakenOK
<1> QED
  BY <1>6, <1>8

(* A block that was not expected is passed over, or asked for again.       *)
LEMMA UnexpectedOK ==
  ASSUME NEW s, SystemKnown(s), s.cli.image_status = "DOWNLOADING", s.cli.ota_dfv \in Versions
  PROVE  SystemKnown(UnexpectedBlock(s)) /\ Carries(UnexpectedBlock(s), s)
<1> DEFINE c == s.cli
           d == [c EXCEPT !.ota_restart_after_rejoin = FALSE]
           u == WithClient(s, d)
           t == get_next_image_block(u)
<1>1. Shape(s) /\ IsClient(c)
  BY KnownShape
<1>2. IsRecord(d) /\ d.ota_restart_after_rejoin = FALSE
      /\ SameClient(d, c, {"ota_restart_after_rejoin"})
  BY <1>1, ClientHas DEF IsClient, SameClient, IsRecord
<1>3. [s EXCEPT !.cli.ota_restart_after_rejoin = FALSE] = u
  BY <1>1 DEF Shape, WithClient
<1> HIDE DEF d, u
<1>4. IsClient(d)
  BY <1>1, <1>2, ClientHas DEF IsClient, SameClient
<1>5. Shape(u) /\ u.cli = d /\ u.lib = s.lib
  BY <1>1, <1>4, WithClientIs DEF u
<1>6. SameDownload(u, s) /\ Numbers(u.cli)
  BY <1>2, <1>5, ClientHas DEF SameDownload, SameClient, Numbers, SystemKnown
<1>7. SystemKnown(u)
  BY ONLY <1>5, <1>6, SystemKnown(s), Bookkeeping
<1>8. c.file_offset \in 0 .. TotalSize - 1 /\ c.download_file_size = TotalSize
  BY FileAssumption DEF SystemKnown, Downloading
<1>9. u.cli.file_offset \in 0 .. TotalSize /\ u.cli.download_file_size > u.cli.file_offset
  BY <1>6, <1>8, FileIs DEF SameDownload
<1>10. /\ Shape(t) /\ SameDownload(t, u) /\ t.cli.resend_retries = 0
       /\ t.cli.block_req_cbs > 0 /\ t.cli.end_res_timeouts = u.cli.end_res_timeouts
  BY <1>5, <1>9, GetNextIs
<1> HIDE DEF t
<1>11. Numbers(t.cli)
  BY <1>9, <1>10, ClientAssumption DEF Numbers, SameDownload
<1>12. SystemKnown(t)
  BY ONLY <1>7, <1>10, <1>11, Bookkeeping
<1>13. UnexpectedBlock(s) = NextBlock(u, c.ota_restart_after_rejoin)
  BY <1>3 DEF UnexpectedBlock
<1>14. NextBlock(u, c.ota_restart_after_rejoin) \in {t, u}
  BY <1>9 DEF NextBlock, t
<1>15. Carries(u, s)
  <2>1. (Due(s) => Due(u)) /\ u.cli.end_res_timeouts = s.cli.end_res_timeouts
    BY <1>2, <1>5, ClientHas DEF SameClient, Due
  <2> QED
    BY ONLY <1>6, <2>1, SameCarries
<1>16. Carries(t, s)
  <2>1. Due(t)
    BY <1>10 DEF Due
  <2>2. Carries(t, u)
    BY ONLY <1>10, <2>1, SameCarries
  <2> QED
    BY ONLY <1>15, <2>2, CarriesOn
<1> QED
  BY <1>7, <1>12, <1>13, <1>14, <1>15, <1>16

(* image_block_resp_handler on any answer, expected or not.                *)
LEMMA HandlerOK ==
  ASSUME NEW s, SystemKnown(s), NEW answer, IsAnswerOf(answer), NEW fault
  PROVE  LET t == image_block_resp_handler(s, answer, fault) IN
         SystemKnown(t) /\ Carries(t, s)
<1> DEFINE t == image_block_resp_handler(s, answer, fault)
<1>1. /\ Shape(s) /\ DOMAIN s.lib = {"ota_ctx", "dfu", "saved", "loaded"} /\ IsDfu(s.lib.dfu)
      /\ IsClient(s.cli) /\ Orderly(s)
  BY KnownShape
<1>2. CASE s.cli.image_status # "DOWNLOADING"
  <2>1. t = s
    BY <1>2 DEF image_block_resp_handler
  <2>2. Carries(s, s)
    BY SameCarries DEF SameDownload
  <2> QED
    BY <2>1, <2>2
<1>3. CASE s.cli.image_status = "DOWNLOADING" /\ answer.status = "WAIT_FOR_DATA"
  <2> DEFINE u == SendBlockRequest(s, s.cli.ota_dfv)
             w == cancel_resend_buffer(u)
  <2>1. t = w
    BY <1>3 DEF image_block_resp_handler, send_block_request
  <2>2. s.cli.file_offset \in 0 .. TotalSize /\ s.cli.ota_dfv \in Versions \cup {None}
    BY <1>1, <1>3, FileIs DEF SystemKnown, Downloading, IsClient
  <2>3. /\ Shape(u) /\ SameDownload(u, s)
        /\ u.cli.block_req_cbs > 0 /\ u.cli.end_res_timeouts = s.cli.end_res_timeouts
    BY <1>1, <2>2, SendBlockIs
  <2> HIDE DEF u
  <2>4. /\ Shape(w) /\ SameDownload(w, u) /\ w.cli.resend_retries = 0
        /\ SameClient(w.cli, u.cli, {"resend", "resend_retries"})
    BY <2>3, CancelResendIs
  <2> HIDE DEF w
  <2>5. SameDownload(w, s)
    BY <2>3, <2>4 DEF SameDownload
  <2>6. Numbers(w.cli)
    BY <2>2, <2>4, <2>5, ClientAssumption DEF Numbers, SameDownload
  <2>7. SystemKnown(w)
    BY ONLY <2>4, <2>5, <2>6, SystemKnown(s), Bookkeeping
  <2>8. Due(w) /\ w.cli.end_res_timeouts = s.cli.end_res_timeouts
    BY <2>3, <2>4, ClientHas DEF SameClient, Due
  <2>9. Carries(w, s)
    BY ONLY <2>5, <2>8, SameCarries
  <2> QED
    BY <2>1, <2>7, <2>9
<1>4. CASE s.cli.image_status = "DOWNLOADING" /\ answer.status = "ABORT"
  <2>1. t = zcl_ota_abort(s)
    BY <1>4 DEF image_block_resp_handler
  <2>2. SystemKnown(zcl_ota_abort(s))
    BY <1>1, AbortOK
  <2>3. IsAborted(zcl_ota_abort(s), s)
    BY <1>1, AbortIs
  <2>4. Carries(zcl_ota_abort(s), s)
    BY <2>3 DEF IsAborted, Carries, IsDownloading, IsDownloaded
  <2> QED
    BY <2>1, <2>2, <2>4
<1>5. CASE s.cli.image_status = "DOWNLOADING" /\ answer.status = "SUCCESS"
  <2> DEFINE block == answer.block
  <2>1. IsBlockOf(block)
    BY <1>5 DEF IsAnswerOf, IsBlockOf
  <2>2. t = IF block.version # s.cli.ota_dfv THEN s
            ELSE IF block.offset = s.cli.file_offset THEN ExpectedBlock(s, block, fault)
            ELSE UnexpectedBlock(s)
    BY <1>5 DEF image_block_resp_handler
  <2> HIDE DEF block, t
  <2>3. CASE block.version # s.cli.ota_dfv
    <3>1. Carries(s, s)
      BY SameCarries DEF SameDownload
    <3> QED
      BY <2>2, <2>3, <3>1 DEF t
  <2>4. CASE block.version = s.cli.ota_dfv /\ block.offset = s.cli.file_offset
    <3>1. SystemKnown(ExpectedBlock(s, block, fault)) /\ Driven(ExpectedBlock(s, block, fault))
      BY <1>5, <2>1, <2>4, ExpectedOK
    <3>2. Carries(ExpectedBlock(s, block, fault), s)
      BY <3>1, DrivenCarries
    <3> QED
      BY <2>2, <2>4, <3>1, <3>2 DEF t
  <2>5. CASE block.version = s.cli.ota_dfv /\ block.offset # s.cli.file_offset
    <3>1. block.version \in Versions
      BY <2>1 DEF IsBlockOf, Block
    <3>2. SystemKnown(UnexpectedBlock(s)) /\ Carries(UnexpectedBlock(s), s)
      BY <1>5, <2>5, <3>1, UnexpectedOK
    <3> QED
      BY <2>2, <2>5, <3>2 DEF t
  <2> QED
    BY <2>3, <2>4, <2>5
<1>6. answer.status \in {"SUCCESS", "WAIT_FOR_DATA", "ABORT"}
  BY DEF IsAnswerOf
<1> QED
  BY <1>2, <1>3, <1>4, <1>5, <1>6

(* The next state is the system s.                                         *)
LEMMA BecomesOK ==
  ASSUME NEW s, SystemKnown(s), Becomes(s)
  PROVE  SystemKnown(System)'
<1> DEFINE t == [cli |-> s.cli, lib |-> s.lib, net |-> s.net]
<1>1. Shape(t) /\ Numbers(t.cli) /\ SameDownload(t, s)
  BY DEF SystemKnown, Shape, SameDownload
<1>2. SystemKnown(t)
  BY ONLY <1>1, SystemKnown(s), Bookkeeping
<1>3. cli' = s.cli /\ lib' = s.lib /\ net' = s.net
  BY DEF Becomes
<1>4. System' = t
  BY <1>3 DEF System
<1> QED
  BY <1>2, <1>4

LEMMA BecomesCarries ==
  ASSUME NEW s, Becomes(s), Carries(s, System)
  PROVE  Carries(System', System)
<1> DEFINE t == [cli |-> s.cli, lib |-> s.lib, net |-> s.net]
<1>1. System' = t
  BY DEF Becomes, System
<1>2. t.cli = s.cli /\ t.lib = s.lib
  OBVIOUS
<1> HIDE DEF t
<1>3. SameDownload(t, s) /\ (Due(s) => Due(t))
  BY <1>2 DEF SameDownload, Due
<1>4. Carries(t, s)
  BY <1>2, <1>3, SameCarries
<1> QED
  BY <1>1, <1>4, CarriesOn

(* The requests and the library are what they were, or fewer requests are. *)
LEMMA FewerRequests ==
  ASSUME NEW s, SystemKnown(s), NEW n, n \subseteq Requests
  PROVE  LET t == [s EXCEPT !.net = n] IN SystemKnown(t) /\ Carries(t, s)
<1> DEFINE t == WithNet(s, s.cli, n)
<1>1. Shape(s) /\ IsClient(s.cli)
  BY KnownShape
<1>2. [s EXCEPT !.net = n] = t
  BY <1>1 DEF Shape, WithNet
<1>3. Shape(t) /\ t.cli = s.cli /\ t.lib = s.lib
  BY <1>1, WithNetIs
<1> HIDE DEF t
<1>4. SameDownload(t, s) /\ Numbers(t.cli)
  BY <1>3 DEF SameDownload, SystemKnown
<1>5. SystemKnown(t)
  BY ONLY <1>3, <1>4, SystemKnown(s), Bookkeeping
<1>6. Carries(t, s)
  BY <1>3, <1>4, SameCarries DEF Due
<1> QED
  BY <1>2, <1>5, <1>6

(* The parts of the system, the answers that take a request off the        *)
(* network, and the answers there are to a request for a block.            *)
LEMMA SystemIs == System.cli = cli /\ System.lib = lib /\ System.net = net
BY DEF System

LEMMA AnsweredIs ==
  ASSUME SystemKnown(System), NEW r, NEW duplicate
  PROVE  LET t == [System EXCEPT !.net = Answered(r, duplicate)] IN
         SystemKnown(t) /\ Carries(t, System)
<1>1. net \subseteq Requests
  BY KnownShape, SystemIs DEF Shape
<1>2. Answered(r, duplicate) \subseteq Requests
  BY <1>1 DEF Answered
<1> QED
  BY <1>2, FewerRequests

LEMMA BlockRequestIs ==
  ASSUME NEW r \in Requests, r.name = "block", NEW answer \in Answers(r)
  PROVE  IsAnswerOf(answer)
<1>1. PICK v \in Versions \cup {None}, o \in 0 .. TotalSize : r = Request(v, o)
  BY DEF Requests
<1>2. r.version = v /\ r.offset = o
  BY <1>1 DEF Request
<1>3. CASE answer.status = "SUCCESS"
  <2>1. answer = [status |-> "SUCCESS", block |-> BlockAt(r)] /\ v \in Versions
    BY <1>2, <1>3 DEF Answers
  <2> DEFINE n == Smaller(BlockLen, TotalSize - o)
             b == [version |-> v, offset |-> o, len |-> n]
  <2>2. BlockAt(r) = b
    BY <1>2 DEF BlockAt
  <2>3. n \in 0 .. BlockLen
    <3>1. BlockLen \in Nat /\ TotalSize \in Nat /\ TotalSize - o \in Nat
      BY ClientAssumption, FileIs
    <3> QED
      BY <3>1 DEF Smaller
  <2> HIDE DEF n
  <2>4. b \in Block
    BY <2>1, <2>3 DEF Block
  <2>5. b.len = Smaller(BlockLen, TotalSize - b.offset)
    BY DEF n
  <2> HIDE DEF b
  <2>6. answer = [status |-> "SUCCESS", block |-> b]
    BY <2>1, <2>2
  <2> QED
    BY <2>4, <2>5, <2>6 DEF IsAnswerOf
<1>4. CASE answer.status # "SUCCESS"
  <2>1. PICK st \in {"WAIT_FOR_DATA", "ABORT"} : answer = [status |-> st, block |-> None]
    BY <1>4 DEF Answers
  <2> QED
    BY <2>1 DEF IsAnswerOf
<1> QED
  BY <1>3, <1>4

-------------------------------------------------------------------------------
(* The steps.                                                              *)

(* QueryNextImage, and the loss of a request.                              *)
LEMMA QueryOK ==
  ASSUME SystemKnown(System), QueryNextImage
  PROVE  SystemKnown(System)' /\ Carries(System', System)
<1> DEFINE n == net \cup {[name |-> "query"]}
           t == [System EXCEPT !.net = n]
<1>1. net \subseteq Requests
  BY KnownShape, SystemIs DEF Shape
<1>2. n \subseteq Requests
  BY <1>1 DEF Requests
<1>3. SystemKnown(t) /\ Carries(t, System)
  BY <1>2, FewerRequests
<1>4. cli' = cli /\ lib' = lib /\ net' = n
  BY DEF QueryNextImage
<1>5. System' = t
  BY <1>4 DEF System
<1> HIDE DEF t
<1> QED
  BY <1>3, <1>5

LEMMA LoseOK ==
  ASSUME SystemKnown(System), NEW r, Lose(r)
  PROVE  SystemKnown(System)' /\ Carries(System', System)
<1> DEFINE n == net \ {r}
           t == [System EXCEPT !.net = n]
<1>1. net \subseteq Requests
  BY KnownShape, SystemIs DEF Shape
<1>2. n \subseteq Requests
  BY <1>1
<1>3. SystemKnown(t) /\ Carries(t, System)
  BY <1>2, FewerRequests
<1>4. cli' = cli /\ lib' = lib /\ net' = n
  BY DEF Lose
<1>5. System' = t
  BY <1>4 DEF System
<1> HIDE DEF t
<1> QED
  BY <1>3, <1>5

(* A download begins: the library is reset, or goes on with what it        *)
(* loaded.                                                                 *)
LEMMA StartIs ==
  ASSUME NEW l, DOMAIN l = {"ota_ctx", "dfu", "saved", "loaded"}, IsDfu(l.dfu), NEW v \in Versions
  PROVE  LET t == Start(l, v) IN
         /\ LibraryKnown(t) /\ OfVersion(t, v)
         /\ ota_file_offset(t) = 0 /\ t.dfu.data = <<>>
<1> DEFINE u == ota_dfu_cancel(l)
           c == [ResetContext EXCEPT !.target_file_version = v]
           t == Start(l, v)
<1>1. /\ DOMAIN u = {"ota_ctx", "dfu", "saved", "loaded"}
      /\ u.ota_ctx = ResetContext /\ u.saved = None /\ u.loaded = FALSE
      /\ IsDfu(u.dfu) /\ u.dfu.data = <<>> /\ u.dfu.ready = FALSE
  BY CancelIs
<1>2. t = [u EXCEPT !.ota_ctx = c]
  BY <1>1 DEF Start
<1>3. IsContext(c) /\ c.target_file_version = v /\ Same(c, ResetContext, {"target_file_version"})
  BY ResetIs, ContextFields DEF IsContext, Same
<1> HIDE DEF u, c, t
<1>4. t.ota_ctx = c /\ t.saved = None /\ t.loaded = FALSE /\ t.dfu = u.dfu /\ DOMAIN t = DOMAIN u
  BY <1>1, <1>2
<1>5. InMandatory(c) /\ c.stream_carry = <<>>
  BY <1>3, ResetIs, ContextFields, FileAssumption DEF Same, IsReset, InMandatory
<1>6. IsLibrary(t)
  BY <1>1, <1>3, <1>4 DEF IsLibrary
<1>7. Len(t.dfu.data) = 0
  BY <1>1, <1>4
<1>8. LibraryOK(t)
  BY <1>1, <1>4, <1>5, <1>6, <1>7, SizesAre DEF LibraryOK, Place
<1>9. OfVersion(t, v)
  BY <1>1, <1>3, <1>4, <1>5, FromNothing DEF OfVersion
<1>10. ota_file_offset(t) = 0
  <2>1. /\ c.ota_header_fill_level = 0 /\ c.ota_subelement_fill_level = 0
        /\ c.ota_image_processed = 0 /\ c.process_bin_image = FALSE
    BY <1>3, ResetIs, ContextFields DEF IsReset, Same
  <2>2. Len(t.dfu.data) \in Nat
    BY <1>7
  <2>3. IsContext(c) /\ t.ota_ctx = c
    BY <1>3, <1>4
  <2>4. ota_file_offset(t) = c.ota_header_fill_level + c.ota_subelement_fill_level
                               + c.ota_image_processed
    BY ONLY <2>1, <2>2, <2>3, OffsetIs
  <2> QED
    BY ONLY <2>1, <2>4
<1> QED
  BY <1>1, <1>4, <1>8, <1>9, <1>10 DEF LibraryKnown, t

(* query_next_image_resp begins a download of the version offered.         *)
LEMMA QueryRespOK ==
  ASSUME SystemKnown(System), NEW version \in Versions, NEW duplicate \in BOOLEAN,
         query_next_image_resp(version, duplicate)
  PROVE  SystemKnown(System)' /\ Carries(System', System)
<1> DEFINE r == [name |-> "query"]
           s == [System EXCEPT !.net = Answered(r, duplicate)]
           c == s.cli
           d == [c EXCEPT !.file_offset = 0, !.ota_dfv = version, !.download_file_size = TotalSize,
                          !.image_status = "DOWNLOADING", !.payload_2_version = version]
           l == Start(s.lib, version)
           u == WithLib(s, d, l)
           w == SendBlockRequest(u, u.cli.ota_dfv)
           t == schedule_resend_buffer(w)
<1>1. SystemKnown(s) /\ Carries(s, System)
  BY AnsweredIs
<1>2. Becomes(IF Accepts(version) THEN t ELSE s)
  <2>1. DOMAIN s = {"cli", "lib", "net"}
    BY <1>1 DEF SystemKnown, Shape
  <2> HIDE DEF s
  <2>2. [s EXCEPT !.lib = Start(@, version),
                  !.cli.file_offset = 0, !.cli.ota_dfv = version,
                  !.cli.download_file_size = TotalSize,
                  !.cli.image_status = "DOWNLOADING",
                  !.cli.payload_2_version = version] = u
    BY <2>1 DEF WithLib
  <2> HIDE DEF u
  <2>3. Becomes(IF Accepts(version)
                THEN schedule_resend_buffer(send_block_request(
                       [s EXCEPT !.lib = Start(@, version),
                          !.cli.file_offset = 0, !.cli.ota_dfv = version,
                          !.cli.download_file_size = TotalSize,
                          !.cli.image_status = "DOWNLOADING",
                          !.cli.payload_2_version = version]))
                ELSE s)
    BY DEF query_next_image_resp, s
  <2> QED
    BY <2>2, <2>3 DEF send_block_request
<1> HIDE DEF s
<1>3. /\ Shape(s) /\ IsClient(c) /\ DOMAIN s.lib = {"ota_ctx", "dfu", "saved", "loaded"}
      /\ IsDfu(s.lib.dfu)
  BY <1>1, KnownShape
<1>4. /\ LibraryKnown(l) /\ OfVersion(l, version) /\ ota_file_offset(l) = 0 /\ l.dfu.data = <<>>
  BY <1>3, StartIs
<1>5. /\ IsRecord(d) /\ d.file_offset = 0 /\ d.ota_dfv = version
      /\ d.download_file_size = TotalSize /\ d.image_status = "DOWNLOADING"
      /\ d.payload_2_version = version
      /\ SameClient(d, c, {"file_offset", "ota_dfv", "download_file_size", "image_status",
                           "payload_2_version"})
  BY <1>3, ClientHas DEF IsClient, SameClient, IsRecord
<1> HIDE DEF d, l
<1>6. IsClient(d)
  BY <1>3, <1>5, ClientHas DEF IsClient, SameClient, Status
<1>7. Shape(u) /\ u.cli = d /\ u.lib = l
  BY <1>3, <1>6, WithLibIs
<1> HIDE DEF u
<1>8. TotalSize \in Nat \ {0} /\ 0 \in 0 .. TotalSize /\ 0 \in 0 .. TotalSize - 1
  BY FileIs
<1>9. Shape(w) /\ SameDownload(w, u)
  BY <1>5, <1>7, <1>8, SendBlockIs
<1> HIDE DEF w
<1>10. Shape(t) /\ SameDownload(t, w) /\ t.cli.resend_retries = 0 /\ t.cli.resend = TRUE
  BY <1>9, ScheduleResendIs
<1> HIDE DEF t
<1>11. SameDownload(t, u)
  BY <1>9, <1>10 DEF SameDownload
<1>12. Numbers(t.cli)
  BY <1>5, <1>7, <1>8, <1>10, <1>11, ClientAssumption DEF Numbers, SameDownload
<1>13. Downloading(t)
  BY <1>4, <1>5, <1>7, <1>8, <1>11 DEF Downloading, SameDownload
<1>14. OneVersion(t)
  BY <1>4, <1>5, <1>7, <1>11 DEF OneVersion, SameDownload
<1>15. Schedulable(t)
  BY <1>4, <1>7, <1>11 DEF Schedulable, SameDownload
<1>16. SystemKnown(t)
  BY <1>4, <1>7, <1>10, <1>11, <1>12, <1>13, <1>14, <1>15 DEF SystemKnown, SameDownload
<1>17. Driven(t)
  BY <1>5, <1>7, <1>10, <1>11, FileAssumption
     DEF Driven, Due, SameDownload, IsDownloading, IsDownloaded
<1>18. Carries(t, System)
  BY <1>17, DrivenCarries
<1> QED
  BY <1>1, <1>2, <1>16, <1>18, BecomesOK, BecomesCarries

(* image_block_resp handles the answer, or stores it until the request was *)
(* sent.                                                                   *)
LEMMA BlockRespOK ==
  ASSUME SystemKnown(System), NEW r \in net, r.name = "block", NEW duplicate \in BOOLEAN,
         NEW fault, NEW answer \in Answers(r), image_block_resp(r, answer, duplicate, fault)
  PROVE  SystemKnown(System)' /\ Carries(System', System)
<1> DEFINE s == [System EXCEPT !.net = Answered(r, duplicate)]
           t == image_block_resp_handler(s, answer, fault)
           c == s.cli
           d == [c EXCEPT !.pending_img_block_resp = answer]
           u == WithClient(s, d)
<1>1. SystemKnown(s) /\ Carries(s, System)
  BY AnsweredIs
<1>2. IsAnswerOf(answer)
  <2>1. r \in Requests
    BY KnownShape, SystemIs DEF Shape
  <2> QED
    BY <2>1, BlockRequestIs
<1>3. Becomes(t) \/ Becomes(u) \/ Becomes(s)
  <2>1. DOMAIN s = {"cli", "lib", "net"}
    BY <1>1 DEF SystemKnown, Shape
  <2>2. Becomes(IF ~ cli.img_block_req_sent THEN t
                ELSE IF cli.pending_img_block_resp = None
                  THEN [s EXCEPT !.cli.pending_img_block_resp = answer]
                ELSE s)
    BY DEF image_block_resp
  <2> HIDE DEF s, t
  <2>3. [s EXCEPT !.cli.pending_img_block_resp = answer] = u
    BY <2>1 DEF WithClient
  <2> HIDE DEF u
  <2> QED
    BY <2>2, <2>3
<1> HIDE DEF s
<1>4. SystemKnown(t) /\ Carries(t, s)
  BY <1>1, <1>2, HandlerOK
<1>5. SystemKnown(u) /\ Carries(u, s)
  <2>1. Shape(s) /\ IsClient(c)
    BY <1>1, KnownShape
  <2>2. IsRecord(d) /\ d.pending_img_block_resp = answer
        /\ SameClient(d, c, {"pending_img_block_resp"})
    BY <2>1, ClientHas DEF IsClient, SameClient, IsRecord
  <2> HIDE DEF d, u
  <2>3. IsClient(d)
    BY <1>2, <2>1, <2>2, ClientHas DEF IsClient, SameClient
  <2>4. Shape(u) /\ u.cli = d /\ u.lib = s.lib
    BY <2>1, <2>3, WithClientIs DEF u
  <2>5. SameDownload(u, s) /\ Numbers(u.cli)
    BY <1>1, <2>2, <2>4, ClientHas DEF SameDownload, SameClient, Numbers, SystemKnown
  <2>6. SystemKnown(u)
    BY ONLY <1>1, <2>4, <2>5, Bookkeeping
  <2>7. (Due(s) => Due(u)) /\ u.cli.end_res_timeouts = s.cli.end_res_timeouts
    BY <2>2, <2>4, ClientHas DEF SameClient, Due
  <2>8. Carries(u, s)
    BY ONLY <2>5, <2>7, SameCarries
  <2> QED
    BY <2>6, <2>8
<1> HIDE DEF t, u
<1>6. Carries(t, System) /\ Carries(u, System)
  BY ONLY <1>1, <1>4, <1>5, CarriesOn
<1> QED
  BY <1>1, <1>3, <1>4, <1>5, <1>6, BecomesOK, BecomesCarries

(* A request was sent; the answer that was stored is handled now.          *)
LEMMA SentOK ==
  ASSUME NEW s, SystemKnown(s), s.cli.block_req_cbs > 0
  PROVE  SystemKnown(RequestSent(s)) /\ Carries(RequestSent(s), s)
<1> DEFINE c == s.cli
           d == [c EXCEPT !.block_req_cbs = @ - 1, !.img_block_req_sent = FALSE, !.resend = TRUE]
           t == WithClient(s, d)
<1>1. Shape(s) /\ IsClient(c)
  BY KnownShape
<1>2. IsRecord(d) /\ d.block_req_cbs = c.block_req_cbs - 1
      /\ d.img_block_req_sent = FALSE /\ d.resend = TRUE
      /\ SameClient(d, c, {"block_req_cbs", "img_block_req_sent", "resend"})
  BY <1>1, ClientHas DEF IsClient, SameClient, IsRecord
<1>3. RequestSent(s) = t
  BY <1>1 DEF Shape, WithClient, RequestSent
<1> HIDE DEF d, t
<1>4. d.block_req_cbs \in Nat
  <2>1. c.block_req_cbs \in Nat
    BY <1>1 DEF IsClient
  <2> QED
    BY <1>2, <2>1
<1>5. IsClient(d)
  BY <1>1, <1>2, <1>4, ClientHas DEF IsClient, SameClient
<1>6. Shape(t) /\ t.cli = d /\ t.lib = s.lib
  BY <1>1, <1>5, WithClientIs DEF t
<1>7. SameDownload(t, s) /\ Numbers(t.cli)
  BY <1>2, <1>6, ClientHas DEF SameDownload, SameClient, Numbers, SystemKnown
<1>8. SystemKnown(t)
  BY ONLY <1>6, <1>7, SystemKnown(s), Bookkeeping
<1>9. Due(t) /\ t.cli.end_res_timeouts = s.cli.end_res_timeouts
  BY <1>2, <1>6, ClientHas DEF SameClient, Due
<1>10. Carries(t, s)
  BY ONLY <1>7, <1>9, SameCarries
<1> QED
  BY <1>3, <1>8, <1>10

LEMMA NonePendingOK ==
  ASSUME NEW s, SystemKnown(s)
  PROVE  LET t == [s EXCEPT !.cli.pending_img_block_resp = None] IN
         SystemKnown(t) /\ Carries(t, s)
<1> DEFINE c == s.cli
           d == [c EXCEPT !.pending_img_block_resp = None]
           t == WithClient(s, d)
<1>1. Shape(s) /\ IsClient(c)
  BY KnownShape
<1>2. IsRecord(d) /\ d.pending_img_block_resp = None
      /\ SameClient(d, c, {"pending_img_block_resp"})
  BY <1>1, ClientHas DEF IsClient, SameClient, IsRecord
<1>3. [s EXCEPT !.cli.pending_img_block_resp = None] = t
  BY <1>1 DEF Shape, WithClient
<1> HIDE DEF d, t
<1>4. IsClient(d)
  BY <1>1, <1>2, ClientHas DEF IsClient, SameClient
<1>5. Shape(t) /\ t.cli = d /\ t.lib = s.lib
  BY <1>1, <1>4, WithClientIs DEF t
<1>6. SameDownload(t, s) /\ Numbers(t.cli)
  BY <1>2, <1>5, ClientHas DEF SameDownload, SameClient, Numbers, SystemKnown
<1>7. SystemKnown(t)
  BY ONLY <1>5, <1>6, SystemKnown(s), Bookkeeping
<1>8. (Due(s) => Due(t)) /\ t.cli.end_res_timeouts = s.cli.end_res_timeouts
  BY <1>2, <1>5, ClientHas DEF SameClient, Due
<1>9. Carries(t, s)
  BY ONLY <1>6, <1>8, SameCarries
<1> QED
  BY <1>3, <1>7, <1>9

(* block_req_cb, with a stored answer or without one.                      *)
LEMMA BlockReqCbOK ==
  ASSUME SystemKnown(System), NEW fault, block_req_cb(fault)
  PROVE  SystemKnown(System)' /\ Carries(System', System)
<1> DEFINE answer == cli.pending_img_block_resp
           s == RequestSent(System)
           t == IF answer = None THEN s ELSE image_block_resp_handler(s, answer, fault)
           u == [t EXCEPT !.cli.pending_img_block_resp = None]
<1>1. cli.block_req_cbs > 0 /\ Becomes(u)
  BY DEF block_req_cb
<1>2. SystemKnown(s) /\ Carries(s, System)
  BY <1>1, SystemIs, SentOK
<1>3. answer = None \/ IsAnswerOf(answer)
  BY KnownShape, SystemIs DEF IsClient
<1> HIDE DEF s, answer
<1>4. SystemKnown(t) /\ Carries(t, System)
  <2>1. CASE answer = None
    BY <1>2, <2>1
  <2>2. CASE answer # None
    <3> DEFINE h == image_block_resp_handler(s, answer, fault)
    <3>1. SystemKnown(h) /\ Carries(h, s)
      BY <1>2, <1>3, <2>2, HandlerOK
    <3>2. t = h
      BY <2>2
    <3> HIDE DEF h, t
    <3>3. Carries(h, System)
      BY ONLY <1>2, <3>1, CarriesOn
    <3> QED
      BY <3>1, <3>2, <3>3
  <2> QED
    BY <2>1, <2>2
<1> HIDE DEF t
<1>5. SystemKnown(u) /\ Carries(u, t)
  BY <1>4, NonePendingOK
<1> HIDE DEF u
<1>6. Carries(u, System)
  BY ONLY <1>4, <1>5, CarriesOn
<1> QED
  BY <1>1, <1>5, <1>6, BecomesOK, BecomesCarries

(* resend_buffer asks for the block again, or gives up.                    *)
LEMMA ResendOK ==
  ASSUME SystemKnown(System), resend_buffer
  PROVE  SystemKnown(System)' /\ Carries(System', System)
<1> DEFINE retries == cli.resend_retries + 1
           s == [System EXCEPT !.cli.resend = FALSE, !.cli.ota_restart_after_rejoin = FALSE]
           d == [cli EXCEPT !.resend = FALSE, !.ota_restart_after_rejoin = FALSE]
           e == [d EXCEPT !.resend_retries = retries]
           t == WithClient(s, e)
           u == SendBlockRequest(t, cli.payload_2_version)
           w == upgrade_end(t, FALSE, cli.payload_2_version)
<1>1. Shape(System) /\ IsClient(cli) /\ DOMAIN System = {"cli", "lib", "net"}
  BY KnownShape, SystemIs DEF Shape
<1>2. s = WithClient(System, d)
  BY SystemIs DEF WithClient, System
<1>3. Becomes(IF cli.image_status # "DOWNLOADING" THEN s
              ELSE IF retries < MaxResendRetries THEN u ELSE w)
  <2>1. [s EXCEPT !.cli.resend_retries = retries] = t
    BY DEF WithClient, System
  <2> HIDE DEF t, s
  <2> QED
    BY <2>1 DEF resend_buffer, s
<1> HIDE DEF s
<1>4. IsRecord(d) /\ d.resend = FALSE /\ d.ota_restart_after_rejoin = FALSE
      /\ SameClient(d, cli, {"resend", "ota_restart_after_rejoin"})
  BY <1>1, ClientHas DEF IsClient, SameClient, IsRecord
<1>5. IsRecord(e) /\ e.resend_retries = retries /\ SameClient(e, d, {"resend_retries"})
  BY <1>4, ClientHas DEF SameClient, IsRecord
<1> HIDE DEF d, e, t
<1>6. IsClient(d)
  BY <1>1, <1>4, ClientHas DEF IsClient, SameClient
<1>7. IsClient(e)
  BY <1>5, <1>6, ClientHas DEF IsClient, SameClient
<1>8. Shape(s) /\ s.cli = d /\ s.lib = lib
  BY <1>1, <1>2, <1>6, SystemIs, WithClientIs
<1>9. Shape(t) /\ t.cli = e /\ t.lib = lib
  BY <1>7, <1>8, WithClientIs DEF t
<1>10. SystemKnown(s)
  <2>1. SameDownload(s, System)
    BY <1>4, <1>8, SystemIs, ClientHas DEF SameDownload, SameClient
  <2>2. Numbers(s.cli)
    BY <1>4, <1>8, SystemIs, ClientHas DEF SameClient, Numbers, SystemKnown
  <2> QED
    BY ONLY <1>8, <2>1, <2>2, SystemKnown(System), Bookkeeping
<1>11. SameDownload(t, System)
  BY <1>4, <1>5, <1>9, SystemIs, ClientHas DEF SameDownload, SameClient
<1>12. cli.resend_retries \in Nat /\ MaxResendRetries \in Nat
  BY SystemIs, ClientAssumption DEF SystemKnown, Numbers
<1>13. ASSUME cli.image_status = "DOWNLOADING", retries < MaxResendRetries
       PROVE  SystemKnown(u) /\ Carries(u, System)
  <2>1. t.cli.file_offset \in 0 .. TotalSize
    BY <1>11, <1>13, SystemIs, FileIs DEF SameDownload, SystemKnown, Downloading
  <2>2. cli.payload_2_version \in Versions \cup {None}
    BY <1>1 DEF IsClient
  <2>3. /\ Shape(u) /\ SameDownload(u, t) /\ u.cli.resend_retries = t.cli.resend_retries
        /\ u.cli.block_req_cbs > 0 /\ u.cli.end_res_timeouts = t.cli.end_res_timeouts
    BY <1>9, <2>1, <2>2, SendBlockIs
  <2> HIDE DEF u
  <2>4. SameDownload(u, System)
    BY <1>11, <2>3 DEF SameDownload
  <2>5. u.cli.resend_retries \in 0 .. MaxResendRetries
    BY <1>5, <1>9, <1>12, <1>13, <2>3
  <2>6. Numbers(u.cli)
    BY <2>1, <2>3, <2>5 DEF Numbers, SameDownload
  <2>7. SystemKnown(u)
    BY ONLY <2>3, <2>4, <2>6, SystemKnown(System), Bookkeeping
  <2>8. Due(u) /\ u.cli.end_res_timeouts = cli.end_res_timeouts
    BY <1>4, <1>5, <1>9, <2>3, ClientHas DEF SameClient, Due
  <2>9. Carries(u, System)
    BY <2>4, <2>8, SystemIs, SameCarries
  <2> QED
    BY <2>7, <2>9
<1>14. ASSUME cli.image_status = "DOWNLOADING"
       PROVE  SystemKnown(w) /\ Carries(w, System)
  <2>1. DOMAIN lib = {"ota_ctx", "dfu", "saved", "loaded"} /\ IsDfu(lib.dfu)
    BY KnownShape, SystemIs
  <2>2. t.cli.image_status # "NORMAL"
    BY <1>11, <1>14, SystemIs DEF SameDownload
  <2>3. SystemKnown(w) /\ Driven(w)
    BY <1>9, <2>1, <2>2, UpgradeEndOK
  <2> HIDE DEF w
  <2> QED
    BY <2>3, DrivenCarries
<1> HIDE DEF u, w
<1>15. cli.image_status # "DOWNLOADING" => Carries(s, System)
  <2>1. s.cli.image_status = cli.image_status /\ s.cli.end_res_timeouts = cli.end_res_timeouts
    BY <1>4, <1>8, ClientHas DEF SameClient
  <2> QED
    BY <2>1, SystemIs DEF Carries, IsDownloading, IsDownloaded
<1> DEFINE z == IF cli.image_status # "DOWNLOADING" THEN s
                ELSE IF retries < MaxResendRetries THEN u ELSE w
<1>16. SystemKnown(z) /\ Carries(z, System)
  BY <1>10, <1>13, <1>14, <1>15
<1>17. Becomes(z)
  BY <1>3
<1> HIDE DEF z
<1> QED
  BY <1>16, <1>17, BecomesOK, BecomesCarries

(* A wait for the end response that is over, by an answer or without one.  *)
Waited(s, n) == [s EXCEPT !.cli.end_res_timeouts = n]
LEMMA WaitedOK ==
  ASSUME NEW s, SystemKnown(s), NEW n \in Nat
  PROVE  SystemKnown(Waited(s, n))
<1> DEFINE c == s.cli
           d == [c EXCEPT !.end_res_timeouts = n]
           t == WithClient(s, d)
<1>1. Shape(s) /\ IsClient(c)
  BY KnownShape
<1>2. IsRecord(d) /\ d.end_res_timeouts = n
      /\ SameClient(d, c, {"end_res_timeouts"})
  BY <1>1, ClientHas DEF IsClient, SameClient, IsRecord
<1>3. Waited(s, n) = t
  BY <1>1 DEF Shape, WithClient, Waited
<1> HIDE DEF d, t
<1>4. IsClient(d)
  BY <1>1, <1>2, ClientHas DEF IsClient, SameClient
<1>5. Shape(t) /\ t.cli = d /\ t.lib = s.lib
  BY <1>1, <1>4, WithClientIs DEF t
<1>6. SameDownload(t, s) /\ Numbers(t.cli)
  BY <1>2, <1>5, ClientHas DEF SameDownload, SameClient, Numbers, SystemKnown
<1>7. SystemKnown(t)
  BY ONLY <1>5, <1>6, SystemKnown(s), Bookkeeping
<1> QED
  BY <1>3, <1>7

(* The client waits to upgrade, or counts down.                            *)
Answering(c, status, n) == [c EXCEPT !.image_status = status, !.finish_alarms = @ + n]
LEMMA AnsweringOK ==
  ASSUME NEW s, SystemKnown(s), s.cli.ota_dfv # None, NEW n \in {0, 1},
         NEW status \in {"WAITING_UPGRADE", "COUNT_DOWN"}
  PROVE  SystemKnown(WithClient(s, Answering(s.cli, status, n)))
<1> DEFINE c == s.cli
           d == Answering(c, status, n)
           t == WithClient(s, d)
<1>1. Shape(s) /\ IsClient(c) /\ LibraryKnown(s.lib)
  BY KnownShape DEF Orderly
<1>2. IsRecord(d) /\ d.image_status = status /\ d.finish_alarms = c.finish_alarms + n
      /\ SameClient(d, c, {"image_status", "finish_alarms"})
  BY <1>1, ClientHas DEF IsClient, SameClient, Answering, IsRecord
<1> HIDE DEF d, t
<1>3. d.finish_alarms \in Nat
  <2>1. c.finish_alarms \in Nat
    BY <1>1 DEF IsClient
  <2> QED
    BY <1>2, <2>1
<1>4. IsClient(d)
  BY <1>1, <1>2, <1>3, ClientHas DEF IsClient, SameClient, Status
<1>5. Shape(t) /\ t.cli = d /\ t.lib = s.lib
  BY <1>1, <1>4, WithClientIs DEF t
<1>6. Numbers(t.cli)
  BY <1>2, <1>5, ClientHas DEF SameClient, Numbers, SystemKnown
<1>7. Downloading(t)
  BY <1>2, <1>5 DEF Downloading
<1>8. OneVersion(t)
  BY <1>2, <1>5, ClientHas DEF OneVersion, SystemKnown, SameClient
<1>9. Schedulable(t)
  BY <1>5 DEF Schedulable, SystemKnown
<1> QED
  BY <1>1, <1>5, <1>6, <1>7, <1>8, <1>9 DEF SystemKnown, t, d

(* upgrade_end_resp, for the version downloaded or another one, later or   *)
(* at a time that is coming or past.                                       *)
LEMMA EndRespOK ==
  ASSUME SystemKnown(System), NEW version \in Versions, NEW time \in Times,
         NEW duplicate \in BOOLEAN, upgrade_end_resp(version, time, duplicate)
  PROVE  /\ SystemKnown(System)'
         /\ Carries(System', System) \/ (misled' = TRUE /\ DownloadKept(System', System))
<1> DEFINE refused == version # cli.ota_dfv \/ time = "past"
           r == [name |-> "end", version |-> version]
           n == IF cli.end_res_timeouts = 0 THEN 0 ELSE cli.end_res_timeouts - 1
           a == [System EXCEPT !.net = Answered(r, duplicate)]
           s == Waited(a, n)
           t == WithClient(s, Answering(s.cli, "WAITING_UPGRADE", 0))
           u == WithClient(s, Answering(s.cli, "COUNT_DOWN", 1))
<1>1. SystemKnown(a) /\ a.cli = cli
  BY AnsweredIs, SystemIs DEF System
<1>2. n \in Nat
  <2>1. cli.end_res_timeouts \in Nat
    BY KnownShape, SystemIs DEF IsClient
  <2> QED
    BY <2>1
<1>3. SystemKnown(s) /\ s.cli.ota_dfv = cli.ota_dfv
  <2>1. SystemKnown(s)
    BY <1>1, <1>2, WaitedOK
  <2>2. DOMAIN a = {"cli", "lib", "net"} /\ IsClient(a.cli)
    BY <1>1, KnownShape DEF Shape
  <2>3. s.cli.ota_dfv = a.cli.ota_dfv
    <3> HIDE DEF a, n
    <3>1. s.cli = [a.cli EXCEPT !.end_res_timeouts = n]
      BY <2>2 DEF Waited
    <3> HIDE DEF s
    <3> QED
      BY <2>2, <3>1, ClientHas DEF IsClient
  <2> QED
    BY <1>1, <2>1, <2>3
<1>4. Becomes(IF refused THEN s ELSE IF time = "later" THEN t ELSE u)
  <2>1. [System EXCEPT !.net = Answered(r, duplicate),
           !.cli.end_res_timeouts = IF @ = 0 THEN 0 ELSE @ - 1] = s
    BY DEF Waited, System
  <2>2. DOMAIN s = {"cli", "lib", "net"} /\ IsClient(s.cli)
    BY <1>3, KnownShape DEF Shape
  <2>3. Becomes(IF refused THEN s
                ELSE IF time = "later" THEN [s EXCEPT !.cli.image_status = "WAITING_UPGRADE"]
                ELSE [s EXCEPT !.cli.image_status = "COUNT_DOWN", !.cli.finish_alarms = @ + 1])
    BY <2>1 DEF upgrade_end_resp
  <2> HIDE DEF s
  <2>4. s.cli.finish_alarms + 0 = s.cli.finish_alarms /\ "finish_alarms" \in DOMAIN s.cli
    BY <2>2, ClientHas DEF IsClient, IsRecord
  <2> DEFINE c == s.cli
             d == [c EXCEPT !.image_status = "WAITING_UPGRADE"]
             e == Answering(c, "WAITING_UPGRADE", 0)
  <2>5. d = e
    BY <2>4 DEF Answering
  <2>6. [s EXCEPT !.cli.image_status = "WAITING_UPGRADE"] = t
    BY <2>2, <2>5 DEF WithClient
  <2>7. [s EXCEPT !.cli.image_status = "COUNT_DOWN", !.cli.finish_alarms = @ + 1] = u
    BY <2>2 DEF WithClient, Answering
  <2> HIDE DEF t, u
  <2> QED
    BY <2>3, <2>6, <2>7
<1> HIDE DEF s
<1>5. ASSUME version = cli.ota_dfv
      PROVE  SystemKnown(t) /\ SystemKnown(u)
  <2>1. s.cli.ota_dfv # None
    BY <1>3, <1>5, FileAssumption
  <2> QED
    BY <1>3, <2>1, AnsweringOK
<1>6. SameClient(s.cli, cli, {"end_res_timeouts"}) /\ s.lib = lib
  <2>1. IsClient(a.cli) /\ DOMAIN a = {"cli", "lib", "net"} /\ a.lib = lib
    BY <1>1, KnownShape DEF Shape, System
  <2> HIDE DEF a, n
  <2>2. s.cli = [a.cli EXCEPT !.end_res_timeouts = n] /\ s.lib = a.lib
    BY <2>1 DEF Waited, s
  <2> QED
    BY <1>1, <2>1, <2>2, ClientHas DEF IsClient, IsRecord, SameClient
<1>7. DownloadKept(s, System)
  BY <1>6, SystemIs, ClientHas DEF SameClient, DownloadKept, Due
<1>8. Carries(t, System) /\ Carries(u, System)
  <2>1. IsClient(s.cli) /\ DOMAIN s = {"cli", "lib", "net"}
    BY <1>3, KnownShape DEF Shape
  <2>2. t.cli = Answering(s.cli, "WAITING_UPGRADE", 0) /\ u.cli = Answering(s.cli, "COUNT_DOWN", 1)
    BY <2>1 DEF WithClient
  <2> HIDE DEF t, u
  <2>3. t.cli.image_status = "WAITING_UPGRADE" /\ u.cli.image_status = "COUNT_DOWN"
    BY <2>1, <2>2, ClientHas DEF Answering, IsClient, IsRecord
  <2> QED
    BY <2>3 DEF Carries, IsDownloading, IsDownloaded
<1> HIDE DEF t, u
<1>9. SystemKnown(IF refused THEN s ELSE IF time = "later" THEN t ELSE u)
  BY <1>3, <1>5
<1>10. CASE ~ refused
  <2>1. Becomes(t) \/ Becomes(u)
    BY <1>4, <1>10
  <2>2. Carries(System', System)
    BY ONLY <1>8, <2>1, BecomesCarries
  <2> QED
    BY <1>4, <1>9, <2>2, BecomesOK
<1>11. CASE refused
  <2>1. misled' = TRUE
    BY <1>11 DEF upgrade_end_resp
  <2>2. cli' = s.cli /\ lib' = s.lib
    BY <1>4, <1>11 DEF Becomes
  <2>3. DownloadKept(System', System)
    BY <1>7, <2>2 DEF DownloadKept, Due, System
  <2> QED
    BY <1>4, <1>9, <2>1, <2>3, BecomesOK
<1> QED
  BY <1>10, <1>11

(* An abort is harmless in a system that is in order.                      *)
LEMMA AbortsOK ==
  ASSUME NEW s, SystemKnown(s)
  PROVE  SystemKnown(zcl_ota_abort(s)) /\ Driven(zcl_ota_abort(s))
<1>1. /\ Shape(s) /\ DOMAIN s.lib = {"ota_ctx", "dfu", "saved", "loaded"} /\ IsDfu(s.lib.dfu)
      /\ Orderly(s)
  BY KnownShape
<1>2. IsAborted(zcl_ota_abort(s), s)
  BY <1>1, AbortIs
<1>3. Driven(zcl_ota_abort(s))
  BY <1>2 DEF IsAborted, Driven, IsDownloading, IsDownloaded
<1> QED
  BY <1>1, <1>3, AbortOK

(* The steps that abort: no end response came, or a default response.      *)
LEMMA TimeoutStepOK ==
  ASSUME SystemKnown(System), end_res_timeout
  PROVE  SystemKnown(System)' /\ Carries(System', System)
<1> DEFINE n == cli.end_res_timeouts - 1
           s == Waited(System, n)
           t == zcl_ota_abort(s)
<1>1. cli.end_res_timeouts \in Nat
  BY KnownShape, SystemIs DEF IsClient
<1>2. n \in Nat
  BY <1>1 DEF end_res_timeout
<1>3. SystemKnown(s)
  BY <1>2, WaitedOK
<1>4. Becomes(t)
  <2>1. [System EXCEPT !.cli.end_res_timeouts = @ - 1] = s
    BY DEF Waited, System
  <2> HIDE DEF s
  <2> QED
    BY <2>1 DEF end_res_timeout
<1> HIDE DEF s
<1>5. SystemKnown(t) /\ Driven(t)
  BY <1>3, AbortsOK
<1> HIDE DEF t
<1> QED
  BY <1>4, <1>5, BecomesOK, DrivenCarries, BecomesCarries

LEMMA DefaultRespOK ==
  ASSUME SystemKnown(System), default_resp_abort
  PROVE  SystemKnown(System)' /\ Carries(System', System)
<1>1. SystemKnown(zcl_ota_abort(System)) /\ Driven(zcl_ota_abort(System))
  BY AbortsOK
<1>2. Becomes(zcl_ota_abort(System))
  BY DEF default_resp_abort
<1> QED
  BY <1>1, <1>2, BecomesOK, DrivenCarries, BecomesCarries

(* The library after ota_dfu_cancel.                                       *)
LEMMA LibraryCancelled ==
  ASSUME NEW l, DOMAIN l = {"ota_ctx", "dfu", "saved", "loaded"}, IsDfu(l.dfu)
  PROVE  Cancelled(ota_dfu_cancel(l))
<1> DEFINE t == ota_dfu_cancel(l)
<1>1. /\ DOMAIN t = DOMAIN l
      /\ t.ota_ctx = ResetContext /\ t.saved = None /\ t.loaded = FALSE
      /\ IsDfu(t.dfu) /\ t.dfu.data = <<>> /\ t.dfu.ready = FALSE
  BY CancelIs
<1> HIDE DEF t
<1> QED
  BY <1>1 DEF Cancelled, t

(* The application has only the library abort.                             *)
LEMMA FotaAbortOK ==
  ASSUME SystemKnown(System), zigbee_fota_abort
  PROVE  SystemKnown(System)' /\ Carries(System', System)
<1> DEFINE l == ota_dfu_cancel(lib)
           t == [cli |-> cli, lib |-> l, net |-> net]
<1>1. Shape(System) /\ IsClient(cli) /\ Cancelled(l)
  BY KnownShape, SystemIs, LibraryCancelled
<1>2. Becomes(t)
  <2>1. [System EXCEPT !.lib = ota_dfu_cancel(@)] = t
    BY DEF System
  <2> HIDE DEF t
  <2> QED
    BY <2>1 DEF zigbee_fota_abort
<1> HIDE DEF l
<1>3. Shape(t) /\ t.cli = cli /\ t.lib = l
  BY <1>1, SystemIs DEF Shape
<1> HIDE DEF t
<1>4. /\ LibraryKnown(l) /\ \A v \in Versions : OfVersion(l, v)
      /\ ota_file_offset(l) = 0 /\ l.ota_ctx.target_file_version = None
  BY <1>1, CancelledIs
<1>5. Numbers(t.cli)
  BY <1>3, SystemIs DEF SystemKnown
<1>6. Downloading(t)
  BY <1>1, <1>3, <1>4, SystemIs DEF Downloading, SystemKnown, Cancelled
<1>7. OneVersion(t)
  BY <1>3, <1>4, SystemIs DEF OneVersion, SystemKnown
<1>8. Schedulable(t)
  BY <1>1, <1>3 DEF Schedulable, Cancelled
<1>9. SystemKnown(t)
  BY <1>3, <1>4, <1>5, <1>6, <1>7, <1>8 DEF SystemKnown
<1>10. Carries(t, System)
  BY <1>1, <1>3, SystemIs DEF Carries, DownloadKept, Due, IsDownloaded, Cancelled
<1> QED
  BY <1>2, <1>9, <1>10, BecomesOK, BecomesCarries

(* The count-down is over.                                                 *)
Finishing(c) == [c EXCEPT !.finish_alarms = @ - 1, !.image_status = "NORMAL"]
LEMMA FinishOK ==
  ASSUME SystemKnown(System), finish_upgrade
  PROVE  SystemKnown(System)' /\ Carries(System', System)
<1> DEFINE d == Finishing(cli)
           l == IF CanSchedule(lib) THEN lib ELSE ota_dfu_cancel(lib)
           t == WithLib(System, d, l)
<1>1. /\ Shape(System) /\ IsClient(cli) /\ DOMAIN lib = {"ota_ctx", "dfu", "saved", "loaded"}
      /\ IsDfu(lib.dfu)
  BY KnownShape, SystemIs
<1>2. Becomes(t)
  BY DEF finish_upgrade, System, WithLib, Finishing
<1>3. IsRecord(d) /\ d.image_status = "NORMAL" /\ d.finish_alarms = cli.finish_alarms - 1
      /\ SameClient(d, cli, {"image_status", "finish_alarms"})
  BY <1>1, ClientHas DEF IsClient, SameClient, Finishing, IsRecord
<1>4. l = lib \/ Cancelled(l)
  BY <1>1, LibraryCancelled
<1> HIDE DEF d, l, t
<1>5. cli.finish_alarms \in Nat /\ cli.finish_alarms > 0
  BY <1>1 DEF IsClient, finish_upgrade
<1>6. d.finish_alarms \in Nat
  BY <1>3, <1>5
<1>7. IsClient(d)
  BY <1>1, <1>3, <1>6, ClientHas DEF IsClient, SameClient, Status
<1>8. Shape(t) /\ t.cli = d /\ t.lib = l
  BY <1>1, <1>7, WithLibIs DEF t
<1>9. Numbers(t.cli)
  BY <1>3, <1>8, SystemIs, ClientHas DEF SameClient, Numbers, SystemKnown
<1>10. Downloading(t)
  BY <1>3, <1>8 DEF Downloading
<1>11. PICK v \in Versions : OfVersion(lib, v) /\ cli.ota_dfv \in {v, None}
  BY SystemIs DEF SystemKnown, OneVersion
<1>12. LibraryKnown(l) /\ OfVersion(l, v)
  <2>1. CASE l = lib
    BY <1>11, <2>1, SystemIs DEF SystemKnown
  <2>2. CASE Cancelled(l)
    BY <2>2, CancelledIs
  <2> QED
    BY <1>4, <2>1, <2>2
<1>13. OneVersion(t)
  BY <1>3, <1>8, <1>11, <1>12, ClientHas DEF OneVersion, SameClient
<1>14. Schedulable(t)
  <2>1. CASE l = lib
    <3>1. lib.dfu.data = <<>> \/ Missing(lib.dfu)
      BY <1>5, SystemIs DEF SystemKnown, Schedulable
    <3> QED
      BY <1>8, <2>1, <3>1 DEF Schedulable
  <2>2. CASE Cancelled(l)
    BY <1>8, <2>2 DEF Schedulable, Cancelled
  <2> QED
    BY <1>4, <2>1, <2>2
<1>15. SystemKnown(t)
  BY <1>8, <1>9, <1>10, <1>12, <1>13, <1>14 DEF SystemKnown
<1>16. Carries(t, System)
  BY <1>3, <1>8 DEF Carries, IsDownloading, IsDownloaded
<1> QED
  BY <1>2, <1>15, <1>16, BecomesOK, BecomesCarries

(* What is scheduled is a whole image, or nothing.                         *)
LEMMA FinishSchedules ==
  ASSUME SystemKnown(System), finish_upgrade, NoPartIsScheduled
  PROVE  NoPartIsScheduled'
<1> DEFINE q == lib.dfu.data
<1>1. CASE ~ CanSchedule(lib)
  <2>1. scheduled' = scheduled
    BY <1>1 DEF finish_upgrade
  <2> QED
    BY <2>1 DEF NoPartIsScheduled
<1>2. CASE CanSchedule(lib) /\ q = <<>>
  <2>1. scheduled' = q
    BY <1>2 DEF finish_upgrade
  <2> QED
    BY <1>2, <2>1 DEF NoPartIsScheduled
<1>3. CASE CanSchedule(lib) /\ q # <<>>
  <2>1. scheduled' = q
    BY <1>3 DEF finish_upgrade
  <2>2. IsClient(cli) /\ IsDfu(lib.dfu)
    BY KnownShape, SystemIs
  <2>3. cli.finish_alarms \in Nat /\ cli.finish_alarms > 0
    BY <2>2 DEF IsClient, finish_upgrade
  <2>4. Missing(lib.dfu) /\ lib.dfu.images_to_download = {}
    BY <1>3, <2>3, SystemIs DEF SystemKnown, Schedulable, CanSchedule, MissingImages
  <2>5. PICK v \in Versions : OfVersion(lib, v)
    BY SystemIs DEF SystemKnown, OneVersion
  <2>6. q \in Seq(FileByte) /\ Len(q) <= BinSize /\ Len(q) \in Nat
    BY <2>2, SystemIs DEF SystemKnown, LibraryKnown, LibraryOK, IsDfu
  <2>7. ~ (BinSize > Len(q))
    BY <2>4, BinSizeIs DEF Missing
  <2>8. Len(q) = BinSize
    BY <2>6, <2>7, SizesAre
  <2>9. \A i \in 1 .. BinSize : q[i] = <<v, BinStart + i - 1>>
    BY <2>5, <2>8 DEF OfVersion, From
  <2>10. q = [i \in 1 .. BinSize |-> <<v, BinStart + i - 1>>]
    <3>1. q = [i \in 1 .. BinSize |-> q[i]]
      BY <2>6, <2>8
    <3> QED
      BY <2>9, <3>1
  <2>11. q = Image(v)
    BY <2>10 DEF Image
  <2> QED
    BY <2>1, <2>5, <2>11 DEF NoPartIsScheduled
<1> QED
  BY <1>1, <1>2, <1>3

(* A download is not one that was restored and not yet gone on with.       *)
Continued(s) == IsDownloading(s) => s.cli.ota_dfv # None \/ s.lib.loaded # TRUE

(* The device is on a network: the client learns what was restored.        *)
Restoring(c, size, v) == [c EXCEPT !.download_file_size = size, !.ota_dfv = v]
Restarting(c, v) == [c EXCEPT !.ota_restart_after_rejoin = TRUE, !.payload_2_version = v]
LEMMA SignalOK ==
  ASSUME SystemKnown(System), zigbee_fota_signal_handler
  PROVE  /\ SystemKnown(System)' /\ Carries(System', System)
         /\ Continued(System')
<1> DEFINE v == lib.ota_ctx.target_file_version
           size == lib.ota_ctx.total_size
           d == Restoring(cli, size, v)
           e == Restarting(d, v)
           s == WithClient(System, d)
           u == WithClient(s, e)
           t == schedule_resend_buffer(u)
<1>1. Shape(System) /\ IsClient(cli) /\ IsRecord(cli)
  BY KnownShape, SystemIs DEF IsClient, IsRecord
<1>2. Becomes(IF ~ lib.loaded THEN System ELSE IF cli.image_status # "DOWNLOADING" THEN s ELSE t)
  <2> DEFINE a == [System EXCEPT !.cli.download_file_size = lib.ota_ctx.total_size,
                                 !.cli.ota_dfv = lib.ota_ctx.target_file_version]
             b == [a EXCEPT !.cli.ota_restart_after_rejoin = TRUE,
                            !.cli.payload_2_version = a.cli.ota_dfv]
  <2>1. Becomes(IF ~ lib.loaded THEN System
                ELSE IF cli.image_status # "DOWNLOADING" THEN a
                ELSE schedule_resend_buffer(b))
    BY DEF zigbee_fota_signal_handler
  <2>2. a = s
    BY DEF Restoring, WithClient, System
  <2>3. a.cli.ota_dfv = v
    BY <1>1, ClientHas DEF System, IsRecord
  <2>4. b = u
    <3>1. b = [s EXCEPT !.cli.ota_restart_after_rejoin = TRUE, !.cli.payload_2_version = v]
      BY <2>2, <2>3
    <3>2. s.cli = d /\ DOMAIN s = {"cli", "lib", "net"}
      BY DEF WithClient, System
    <3> HIDE DEF s, b, d
    <3> QED
      BY <3>1, <3>2 DEF Restarting, WithClient
  <2> HIDE DEF a, b
  <2> QED
    BY <2>1, <2>2, <2>4
<1>3. CASE lib.loaded # TRUE
  <2>1. lib.loaded = FALSE
    BY <1>3, SystemIs DEF SystemKnown, LibraryKnown, LibraryOK, IsLibrary
  <2>2. Becomes(System)
    BY <1>2, <2>1
  <2>3. Carries(System, System)
    BY SameCarries DEF SameDownload
  <2>4. Continued(System')
    BY <2>1, <2>2, SystemIs DEF Becomes, System, Continued
  <2> QED
    BY <2>2, <2>3, <2>4, BecomesOK, BecomesCarries
<1>4. CASE lib.loaded = TRUE
  <2>1. LibraryKnown(lib) /\ LibraryOK(lib)
    BY SystemIs DEF SystemKnown, LibraryKnown
  <2>2. v \in Versions /\ v # None /\ size = TotalSize /\ Missing(lib.dfu)
    BY <1>4, <2>1 DEF LibraryOK, IsLibrary, IsContext
  <2>3. OfVersion(lib, v)
    BY <2>2, SystemIs DEF SystemKnown, OneVersion, OfVersion
  <2>4. IsRecord(d) /\ d.download_file_size = size /\ d.ota_dfv = v
        /\ SameClient(d, cli, {"download_file_size", "ota_dfv"})
    BY <1>1, ClientHas DEF SameClient, Restoring, IsRecord
  <2> HIDE DEF v, size, s, d
  <2>5. IsClient(d)
    BY <1>1, <2>2, <2>4, ClientHas DEF IsClient, SameClient
  <2>6. Shape(s) /\ s.cli = d /\ s.lib = lib
    BY <1>1, <2>5, WithClientIs, SystemIs DEF s
  <2>7. Numbers(s.cli)
    BY <2>4, <2>6, SystemIs, ClientHas DEF SameClient, Numbers, SystemKnown
  <2>8. d.image_status = cli.image_status /\ d.file_offset = cli.file_offset
    BY <2>4, ClientHas DEF SameClient
  <2>9. Downloading(s)
    BY <2>2, <2>4, <2>6, <2>8, SystemIs DEF Downloading, SystemKnown
  <2>10. OneVersion(s)
    BY <2>2, <2>3, <2>4, <2>6 DEF OneVersion
  <2>11. Schedulable(s)
    BY <2>2, <2>6 DEF Schedulable
  <2>12. SystemKnown(s)
    BY <2>1, <2>6, <2>7, <2>9, <2>10, <2>11 DEF SystemKnown
  <2>13. IsRecord(e) /\ e.ota_restart_after_rejoin = TRUE /\ e.payload_2_version = v
         /\ SameClient(e, d, {"ota_restart_after_rejoin", "payload_2_version"})
    BY <2>4, ClientHas DEF SameClient, Restarting, IsRecord
  <2> HIDE DEF e, u, t
  <2>14. IsClient(e)
    BY <2>2, <2>5, <2>13, ClientHas DEF IsClient, SameClient
  <2>15. Shape(u) /\ u.cli = e /\ u.lib = lib
    BY <2>6, <2>14, WithClientIs DEF u
  <2>16. SameDownload(u, s)
    BY <2>6, <2>13, <2>15, ClientHas DEF SameDownload, SameClient
  <2>17. Shape(t) /\ SameDownload(t, u) /\ t.cli.resend_retries = 0 /\ t.cli.resend = TRUE
    BY <2>15, ScheduleResendIs DEF t
  <2>18. SameDownload(t, s)
    BY <2>16, <2>17 DEF SameDownload
  <2>19. Numbers(t.cli)
    BY <2>7, <2>17, <2>18, ClientAssumption DEF Numbers, SameDownload
  <2>20. SystemKnown(t)
    BY ONLY <2>12, <2>17, <2>18, <2>19, Bookkeeping
  <2>21. Becomes(IF cli.image_status # "DOWNLOADING" THEN s ELSE t)
    BY <1>2, <1>4
  <2>22. s.cli.ota_dfv # None /\ t.cli.ota_dfv # None
    BY <2>2, <2>4, <2>6, <2>18 DEF SameDownload
  <2>23. CASE cli.image_status # "DOWNLOADING"
    <3>1. s.cli.end_res_timeouts = cli.end_res_timeouts
      BY <2>4, <2>6, ClientHas DEF SameClient
    <3>2. Carries(s, System)
      BY <2>6, <2>8, <2>23, <3>1, SystemIs DEF Carries, IsDownloading, IsDownloaded
    <3>3. Becomes(s)
      BY <2>21, <2>23
    <3>4. Continued(System')
      BY <2>22, <3>3 DEF Becomes, System, Continued
    <3> QED
      BY <2>12, <3>2, <3>3, <3>4, BecomesOK, BecomesCarries
  <2>24. CASE cli.image_status = "DOWNLOADING"
    <3>1. t.cli.image_status = "DOWNLOADING"
      BY <2>6, <2>8, <2>18, <2>24 DEF SameDownload
    <3>2. Driven(t)
      BY <2>17, <2>22, <3>1 DEF Driven, Due, IsDownloaded
    <3>3. Becomes(t)
      BY <2>21, <2>24
    <3>4. Continued(System')
      BY <2>22, <3>3 DEF Becomes, System, Continued
    <3> QED
      BY <2>20, <3>2, <3>3, <3>4, BecomesOK, DrivenCarries, BecomesCarries
  <2> QED
    BY <2>23, <2>24
<1> QED
  BY <1>3, <1>4

-------------------------------------------------------------------------------
(* A reset of the device.                                                  *)

(* A context restored from a resume state is in the image, behind the      *)
(* bytes that were kept.                                                   *)
LEMMA RestoredIs ==
  ASSUME NEW s, IsResumeState(s), NEW n \in Nat, n < BinSize
  PROVE  LET c == restore_ota_context(s) IN
         /\ IsContext(c) /\ InImage(c, n) /\ c.process_bin_image = TRUE
         /\ c.stream_carry = <<>> /\ c.target_file_version = s.target_file_version
         /\ c.total_size = TotalSize
<1> DEFINE c == restore_ota_context(s)
<1>1. /\ s.target_file_version \in Versions /\ s.target_file_size = TotalSize
      /\ s.ota_header_size = HeaderLen /\ HeaderLen + s.ota_image_processed = BinStart
      /\ s.bin_size = BinSize /\ s.ota_image_processed \in Nat
  BY DEF IsResumeState
<1>2. /\ c.ota_header_size = HeaderLen /\ c.ota_header_fill_level = HeaderLen
      /\ c.ota_image_processed = s.ota_image_processed /\ c.bin_size = BinSize
      /\ c.total_size = TotalSize /\ c.target_file_version = s.target_file_version
      /\ c.mandatory_header_finished = TRUE /\ c.process_bin_image = TRUE
      /\ Same(c, ResetContext, {"ota_header_size", "ota_header_fill_level",
                  "ota_image_processed", "bin_size", "total_size", "target_file_version",
                  "mandatory_header_finished", "process_bin_image"})
      /\ DOMAIN c = DOMAIN ResetContext
  BY <1>1, ContextFields DEF restore_ota_context, Same
<1> HIDE DEF c
<1>3. /\ c.process_optional_header = FALSE /\ c.process_subelement_header = FALSE
      /\ c.ota_subelement_fill_level = 0 /\ c.stream_carry = <<>> /\ c.stream_carry_offset \in Nat
  BY <1>2, ContextFields, ResetIs DEF Same, IsReset, IsContext
<1>4. IsContext(c)
  BY <1>1, <1>2, <1>3, FileIs DEF IsContext
<1>5. Len(c.stream_carry) = 0
  BY <1>3
<1>6. 0 < Align /\ n + 0 < BinSize
  BY SizesAre
<1>7. InImage(c, n)
  BY <1>1, <1>2, <1>3, <1>5, <1>6 DEF InImage
<1> QED
  BY <1>2, <1>3, <1>4, <1>7 DEF c

(* The library after a boot: at the start, or in the image a resume state  *)
(* tells of.                                                               *)
AfterBoot(t, l, kept) ==
  /\ DOMAIN t = {"ota_ctx", "dfu", "saved", "loaded"} /\ IsDfu(t.dfu)
  /\ t.dfu.data = SubSeq(l.dfu.data, 1, kept)
  /\ t.loaded = TRUE \/ t.loaded = FALSE
  /\ \/ t.ota_ctx = ResetContext /\ t.saved = None
     \/ /\ l.saved # None /\ t.ota_ctx = restore_ota_context(l.saved)
        /\ t.saved = l.saved \/ t.saved = None
  /\ t.loaded = TRUE => t.ota_ctx = restore_ota_context(l.saved) /\ l.saved # None
  /\ t.loaded = TRUE \/ t.dfu.ready = TRUE => t.dfu.images_to_download = ImageEnds

(* ota_resume_load after a boot that kept some of the bytes.               *)
LEMMA BootIs ==
  ASSUME NEW l, IsDfu(l.dfu), NEW kept \in 0 .. Len(l.dfu.data), NEW dfu_ok
  PROVE  AfterBoot(ota_resume_load(Booted(l, kept), dfu_ok), l, kept)
<1> DEFINE q == SubSeq(l.dfu.data, 1, kept)
           d == [data |-> q, ready |-> FALSE, images_to_download |-> {}]
           b == Booted(l, kept)
           c == restore_ota_context(l.saved)
           e == init_default(d)
           r == [b EXCEPT !.ota_ctx = c]
           u == [r EXCEPT !.dfu = e]
           t == ota_resume_load(b, dfu_ok)
<1>1. q \in Seq(FileByte)
  BY DEF IsDfu
<1>2. IsDfu(d) /\ d.data = q /\ d.ready = FALSE
  BY <1>1 DEF IsDfu
<1>3. IsDfu(e) /\ e.data = q /\ e.ready = TRUE /\ e.images_to_download = ImageEnds
  BY <1>1 DEF IsDfu, init_default
<1>4. /\ DOMAIN b = {"ota_ctx", "dfu", "saved", "loaded"}
      /\ b.ota_ctx = ResetContext /\ b.loaded = FALSE /\ b.saved = l.saved /\ b.dfu = d
  BY DEF Booted
<1> HIDE DEF d
<1>5. t = IF b.saved = None THEN b
          ELSE IF ~ dfu_ok THEN [r EXCEPT !.saved = None]
          ELSE IF ota_file_offset(u) > u.ota_ctx.total_size THEN [u EXCEPT !.saved = None]
          ELSE [u EXCEPT !.loaded = TRUE]
  BY <1>4 DEF ota_resume_load
<1> HIDE DEF b, c, e, q
<1>6. /\ DOMAIN r = {"ota_ctx", "dfu", "saved", "loaded"}
      /\ r.ota_ctx = c /\ r.loaded = FALSE /\ r.saved = l.saved /\ r.dfu = d
  BY <1>4
<1> HIDE DEF r
<1>7. /\ DOMAIN u = {"ota_ctx", "dfu", "saved", "loaded"}
      /\ u.ota_ctx = c /\ u.loaded = FALSE /\ u.saved = l.saved /\ u.dfu = e
  BY <1>6
<1> HIDE DEF t, u
<1>8. /\ DOMAIN t = {"ota_ctx", "dfu", "saved", "loaded"}
      /\ \/ /\ t.ota_ctx = ResetContext /\ t.loaded = FALSE /\ t.saved = None /\ t.dfu = d
         \/ /\ l.saved # None /\ t.ota_ctx = c /\ t.loaded = FALSE /\ t.saved = None
            /\ t.dfu = d \/ t.dfu = e
         \/ /\ l.saved # None /\ t.ota_ctx = c /\ t.loaded = TRUE /\ t.saved = l.saved
            /\ t.dfu = e
  <2>1. CASE t = b /\ l.saved = None
    BY <1>4, <2>1
  <2>2. CASE t = [r EXCEPT !.saved = None] /\ l.saved # None
    BY <1>6, <2>2
  <2>3. CASE t = [u EXCEPT !.saved = None] /\ l.saved # None
    BY <1>7, <2>3
  <2>4. CASE t = [u EXCEPT !.loaded = TRUE] /\ l.saved # None
    BY <1>7, <2>4
  <2> QED
    BY <1>4, <1>5, <2>1, <2>2, <2>3, <2>4
<1>9. AfterBoot(t, l, kept)
  BY <1>2, <1>3, <1>8 DEF AfterBoot, q, c
<1> QED
  BY <1>9 DEF t, b

(* Whatever it loads, the library is in order.                             *)
LEMMA LoadedIs ==
  ASSUME NEW l, LibraryKnown(l), NEW v \in Versions, OfVersion(l, v),
         NEW kept \in 0 .. Len(l.dfu.data), NEW t, AfterBoot(t, l, kept)
  PROVE  /\ LibraryKnown(t) /\ OfVersion(t, v)
         /\ t.loaded = TRUE => InImage(t.ota_ctx, DataLen(t))
<1> DEFINE q == l.dfu.data
           p == t.dfu.data
           c == t.ota_ctx
<1>1. /\ q \in Seq(FileByte) /\ Len(q) \in Nat /\ Len(q) <= BinSize
      /\ l.saved # None => IsResumeState(l.saved) /\ Len(q) < BinSize
  BY DEF LibraryKnown, LibraryOK, IsLibrary, IsDfu
<1>2. p = SubSeq(q, 1, kept) /\ kept \in Nat /\ kept <= Len(q) /\ BinStart \in Nat
  BY <1>1, FileIs DEF AfterBoot
<1>3. Len(p) = kept /\ From(p, v, BinStart)
  <2>1. From(q, v, BinStart)
    BY DEF OfVersion
  <2>2. 0 \in Nat /\ 0 <= kept
    BY <1>2
  <2>3. Len(SubSeq(q, 0 + 1, kept)) = kept - 0 /\ From(SubSeq(q, 0 + 1, kept), v, BinStart + 0)
    BY ONLY <1>1, <1>2, <2>1, <2>2, FromSub
  <2> HIDE DEF p, q
  <2> QED
    BY <1>2, <2>3
<1> HIDE DEF q, p
<1>4. CASE c = ResetContext /\ t.saved = None
  <2>1. IsContext(c) /\ InMandatory(c)
    <3>1. IsContext(c) /\ IsReset(c)
      BY ONLY <1>4, ResetIs
    <3>2. 0 < MandatoryLen
      BY FileAssumption
    <3> QED
      BY ONLY <3>1, <3>2 DEF IsReset, InMandatory
  <2>2. t.loaded = TRUE => l.saved # None /\ c = restore_ota_context(l.saved)
    BY DEF AfterBoot
  <2>3. t.loaded = FALSE
    <3> SUFFICES ASSUME t.loaded = TRUE
                 PROVE  FALSE
      BY DEF AfterBoot
    <3>1. IsResumeState(l.saved) /\ c = restore_ota_context(l.saved) /\ Len(q) < BinSize
      BY <1>1, <2>2
    <3>2. c.process_bin_image = TRUE
      BY <1>1, <3>1, RestoredIs
    <3> QED
      BY <2>1, <3>2 DEF InMandatory
  <2>4. IsLibrary(t)
    BY <1>4, <2>1, <2>3 DEF IsLibrary, AfterBoot
  <2>5. Len(t.dfu.data) <= BinSize /\ Len(t.dfu.data) = kept
    BY <1>1, <1>2, <1>3, SizesAre DEF p
  <2>6. t.dfu.ready = TRUE => Missing(t.dfu)
    BY DEF AfterBoot, Missing
  <2>7. LibraryOK(t)
    BY <2>1, <2>3, <2>4, <2>5, <2>6 DEF LibraryOK, Place, AfterBoot
  <2>8. OfVersion(t, v)
    BY <1>3, <1>4, ResetIs, FromNothing DEF OfVersion, p, IsReset
  <2> QED
    BY <1>4, <2>3, <2>7, <2>8 DEF LibraryKnown
<1>5. CASE /\ l.saved # None /\ c = restore_ota_context(l.saved)
           /\ t.saved = l.saved \/ t.saved = None
  <2>1. IsResumeState(l.saved) /\ kept < BinSize
    BY <1>1, <1>2, <1>5, SizesAre
  <2>2. /\ IsContext(c) /\ InImage(c, kept) /\ c.process_bin_image = TRUE
        /\ c.stream_carry = <<>> /\ c.target_file_version = l.saved.target_file_version
        /\ c.total_size = TotalSize
    BY <1>2, <1>5, <2>1, RestoredIs
  <2>3. l.saved.target_file_version = v /\ v # None
    BY <1>5, FileAssumption DEF OfVersion
  <2> HIDE DEF c
  <2>4. IsLibrary(t)
    BY <1>5, <2>1, <2>2 DEF IsLibrary, AfterBoot, c
  <2>5. Len(t.dfu.data) = kept /\ kept <= BinSize
    BY <1>2, <1>3, <2>1, SizesAre DEF p
  <2>6. t.loaded = TRUE \/ t.dfu.ready = TRUE => Missing(t.dfu)
    BY DEF AfterBoot, Missing
  <2>7. LibraryOK(t)
    BY <2>2, <2>3, <2>4, <2>5, <2>6 DEF LibraryOK, Place, AfterBoot, c
  <2>8. OfVersion(t, v)
    BY <1>3, <1>5, <2>2, <2>3, FromNothing DEF OfVersion, p, c
  <2>9. InImage(t.ota_ctx, DataLen(t))
    BY <2>2, <2>5 DEF DataLen, c
  <2>10. Len(t.dfu.data) < BinSize
    BY <2>1, <2>5
  <2> QED
    BY <2>7, <2>8, <2>9, <2>10 DEF LibraryKnown
<1> QED
  BY <1>4, <1>5 DEF AfterBoot

(* The client after a reset.                                               *)
LEMMA PoweredOnIs ==
  /\ IsClient(PoweredOn) /\ PoweredOn.image_status = "NORMAL" /\ PoweredOn.ota_dfv = None
  /\ PoweredOn.finish_alarms = 0 /\ PoweredOn.file_offset = None /\ PoweredOn.resend_retries = 0
<1>1. IsRecord(PoweredOn)
  BY DEF PoweredOn, IsRecord, ClientFields
<1> QED
  BY <1>1 DEF PoweredOn, IsClient, Status

(* A reset at any moment, with any part of the unfinished write lost.      *)
LEMMA PowerLossOK ==
  ASSUME SystemKnown(System), NEW kept \in 0 .. Len(lib.dfu.data), NEW dfu_ok,
         PowerLoss(kept, dfu_ok)
  PROVE  SystemKnown(System)' /\ joined' # TRUE /\ cli.ota_dfv' = None /\ ~ IsDownloaded(System')
<1> DEFINE l == ota_resume_load(Booted(lib, kept), dfu_ok)
           o == ota_file_offset(l)
           c == IF ~ l.loaded THEN PoweredOn
                ELSE [PoweredOn EXCEPT !.image_status = "DOWNLOADING", !.file_offset = o]
           t == [cli |-> c, lib |-> l, net |-> net]
<1>1. lib' = l /\ cli' = c /\ net' = net /\ joined' = FALSE
  BY DEF PowerLoss
<1>2. System' = t
  BY <1>1 DEF System
<1>3. PICK v \in Versions : OfVersion(lib, v)
  BY SystemIs DEF SystemKnown, OneVersion
<1>4. LibraryKnown(lib) /\ IsDfu(lib.dfu) /\ net \subseteq Requests
  BY KnownShape, SystemIs DEF Orderly, Shape
<1>5. AfterBoot(l, lib, kept)
  BY <1>4, BootIs
<1> HIDE DEF l, c
<1>6. /\ LibraryKnown(l) /\ OfVersion(l, v)
      /\ l.loaded = TRUE => InImage(l.ota_ctx, DataLen(l))
  BY <1>3, <1>4, <1>5, LoadedIs
<1>7. l.loaded = TRUE \/ l.loaded = FALSE
  BY <1>5 DEF AfterBoot
<1>8. CASE l.loaded = FALSE
  <2>1. c = PoweredOn
    BY <1>8 DEF c
  <2>2. /\ IsClient(c) /\ c.image_status = "NORMAL" /\ c.ota_dfv = None
        /\ c.finish_alarms = 0 /\ c.file_offset = None /\ c.resend_retries = 0
    BY <2>1, PoweredOnIs
  <2>3. Shape(t) /\ Numbers(t.cli)
    BY <1>4, <2>2, ClientAssumption DEF Shape, Numbers
  <2>4. Downloading(t) /\ OneVersion(t) /\ Schedulable(t)
    BY <1>6, <2>2 DEF Downloading, OneVersion, Schedulable
  <2> QED
    BY <1>1, <1>2, <1>6, <2>2, <2>3, <2>4 DEF SystemKnown, IsDownloaded
<1>9. CASE l.loaded = TRUE
  <2>1. IsContext(l.ota_ctx) /\ IsDfu(l.dfu)
    BY <1>6 DEF LibraryKnown, LibraryOK, IsLibrary
  <2>2. InImage(l.ota_ctx, DataLen(l))
    BY <1>6, <1>9
  <2>3. l.ota_ctx.process_bin_image = TRUE
    BY <2>2 DEF InImage
  <2>4. o \in 0 .. TotalSize /\ o < TotalSize
    <3>1. Place(l.ota_ctx, DataLen(l)) /\ ~ AtEnd(l.ota_ctx, DataLen(l))
      BY <2>2, <2>3 DEF Place, AtEnd
    <3> QED
      BY ONLY <2>1, <3>1, PlaceOffset
  <2>5. c = [PoweredOn EXCEPT !.image_status = "DOWNLOADING", !.file_offset = o]
    BY <1>9 DEF c
  <2> HIDE DEF o
  <2>6. IsRecord(c) /\ c.image_status = "DOWNLOADING" /\ c.file_offset = o
        /\ SameClient(c, PoweredOn, {"image_status", "file_offset"})
    BY <2>5, PoweredOnIs, ClientHas DEF IsClient, SameClient, IsRecord
  <2>7. IsClient(c)
    BY <2>6, PoweredOnIs, ClientHas DEF IsClient, SameClient, Status
  <2>8. c.ota_dfv = None /\ c.finish_alarms = 0 /\ c.resend_retries = 0
    BY <2>6, PoweredOnIs, ClientHas DEF SameClient
  <2>9. Shape(t) /\ Numbers(t.cli)
    BY <1>4, <2>4, <2>6, <2>7, <2>8, ClientAssumption DEF Shape, Numbers
  <2>10. Downloading(t)
    <3>1. o \in 0 .. TotalSize - 1
      BY <2>4, FileIs
    <3> QED
      BY <2>3, <2>6, <2>8, <3>1 DEF Downloading, o
  <2>11. OneVersion(t) /\ Schedulable(t)
    BY <1>6, <2>8 DEF OneVersion, Schedulable
  <2> QED
    BY <1>1, <1>2, <1>6, <2>6, <2>8, <2>9, <2>10, <2>11 DEF SystemKnown, IsDownloaded
<1> QED
  BY <1>7, <1>8, <1>9

-------------------------------------------------------------------------------
(* The theorems.                                                           *)

(* The numbers and flags of the model.                                     *)
FlagsOK ==
  /\ synchronous \in BOOLEAN /\ joined \in BOOLEAN /\ misled \in BOOLEAN
  /\ queries \in 0 .. MaxQueries /\ troubles \in 0 .. MaxTroubles

(* The inductive invariant.                                                *)
UpgradeInv ==
  /\ FlagsOK /\ SystemKnown(System) /\ NoPartIsScheduled

(* It holds when the device is started for the first time,                 *)
LEMMA InvInitially == Init => UpgradeInv
<1> SUFFICES ASSUME Init
             PROVE  UpgradeInv
  OBVIOUS
<1> DEFINE d == [data |-> <<>>, ready |-> FALSE, images_to_download |-> {}]
<1>1. IsDfu(d) /\ d.data = <<>> /\ d.ready = FALSE
  BY DEF IsDfu
<1>2. Cancelled(lib)
  <2>1. lib = [ota_ctx |-> ResetContext, saved |-> None, loaded |-> FALSE, dfu |-> d]
    BY DEF Init
  <2> HIDE DEF d
  <2> QED
    BY <1>1, <2>1 DEF Cancelled
<1>3. LibraryKnown(lib) /\ \A v \in Versions : OfVersion(lib, v)
  BY <1>2, CancelledIs
<1>4. cli = PoweredOn /\ net = {}
  BY DEF Init
<1>5. Shape(System) /\ Numbers(System.cli)
  BY <1>4, PoweredOnIs, SystemIs, ClientAssumption DEF Shape, Numbers, System
<1>6. Downloading(System) /\ Schedulable(System)
  BY <1>2, <1>4, PoweredOnIs, SystemIs DEF Downloading, Schedulable, Cancelled
<1>7. OneVersion(System)
  BY <1>3, <1>4, PoweredOnIs, SystemIs, FileAssumption DEF OneVersion
<1>8. SystemKnown(System)
  BY <1>3, <1>5, <1>6, <1>7, SystemIs DEF SystemKnown
<1>9. FlagsOK
  <2>1. 0 \in 0 .. MaxQueries /\ 0 \in 0 .. MaxTroubles
    BY ClientAssumption
  <2> QED
    BY <2>1 DEF Init, FlagsOK
<1>10. NoPartIsScheduled
  BY DEF Init, NoPartIsScheduled
<1> QED
  BY <1>8, <1>9, <1>10 DEF UpgradeInv

(* no step of the client, the library or the network disturbs the system,  *)
LEMMA SystemStays ==
  ASSUME SystemKnown(System), Next
  PROVE  SystemKnown(System)'
<1>1. CASE QueryNextImage
  BY <1>1, QueryOK
<1>2. CASE \E version \in Versions, duplicate \in BOOLEAN : query_next_image_resp(version, duplicate)
  BY <1>2, QueryRespOK
<1>3. CASE \E r \in {q \in net : q.name = "block"}, duplicate \in BOOLEAN, fault \in Faults :
             \E answer \in Answers(r) : image_block_resp(r, answer, duplicate, fault)
  <2>1. PICK r \in {q \in net : q.name = "block"}, duplicate \in BOOLEAN, fault \in Faults :
               \E answer \in Answers(r) : image_block_resp(r, answer, duplicate, fault)
    BY <1>3
  <2>2. PICK answer \in Answers(r) : image_block_resp(r, answer, duplicate, fault)
    BY <2>1
  <2> QED
    BY <2>2, BlockRespOK
<1>4. CASE \E fault \in Faults : block_req_cb(fault)
  BY <1>4, BlockReqCbOK
<1>5. CASE resend_buffer
  BY <1>5, ResendOK
<1>6. CASE \E version \in Versions, time \in Times, duplicate \in BOOLEAN :
             upgrade_end_resp(version, time, duplicate)
  BY <1>6, EndRespOK
<1>7. CASE end_res_timeout
  BY <1>7, TimeoutStepOK
<1>8. CASE finish_upgrade
  BY <1>8, FinishOK
<1>9. CASE default_resp_abort
  BY <1>9, DefaultRespOK
<1>10. CASE zigbee_fota_abort
  BY <1>10, FotaAbortOK
<1>11. CASE zigbee_fota_signal_handler
  BY <1>11, SignalOK
<1>12. CASE \E r \in net : Lose(r)
  BY <1>12, LoseOK
<1>13. CASE \E kept \in 0 .. Len(lib.dfu.data), dfu_ok \in BOOLEAN : PowerLoss(kept, dfu_ok)
  BY <1>13, PowerLossOK
<1> QED
  BY <1>1, <1>2, <1>3, <1>4, <1>5, <1>6, <1>7, <1>8, <1>9, <1>10, <1>11, <1>12, <1>13 DEF Next

(* troubles stays within its bound,                                        *)
LEMMA TroubledIs ==
  ASSUME NEW t, Troubled(t), troubles \in 0 .. MaxTroubles
  PROVE  troubles' \in 0 .. MaxTroubles
BY ClientAssumption DEF Troubled

LEMMA FlagsStay ==
  ASSUME FlagsOK, Next
  PROVE  FlagsOK'
<1>0. MaxQueries \in Nat /\ MaxTroubles \in Nat
  BY ClientAssumption
<1>1. CASE QueryNextImage
  BY <1>0, <1>1 DEF QueryNextImage, FlagsOK
<1>2. CASE \E version \in Versions, duplicate \in BOOLEAN : query_next_image_resp(version, duplicate)
  BY <1>2, TroubledIs DEF query_next_image_resp, FlagsOK
<1>3. CASE \E r \in {q \in net : q.name = "block"}, duplicate \in BOOLEAN, fault \in Faults :
             \E answer \in Answers(r) : image_block_resp(r, answer, duplicate, fault)
  <2>1. PICK r \in {q \in net : q.name = "block"}, duplicate \in BOOLEAN, fault \in Faults :
               \E answer \in Answers(r) : image_block_resp(r, answer, duplicate, fault)
    BY <1>3
  <2>2. PICK answer \in Answers(r) : image_block_resp(r, answer, duplicate, fault)
    BY <2>1
  <2> QED
    BY <2>2, TroubledIs DEF image_block_resp, FlagsOK
<1>4. CASE \E fault \in Faults : block_req_cb(fault)
  BY <1>4, TroubledIs DEF block_req_cb, FlagsOK
<1>5. CASE resend_buffer
  BY <1>5 DEF resend_buffer, FlagsOK
<1>6. CASE \E version \in Versions, time \in Times, duplicate \in BOOLEAN :
             upgrade_end_resp(version, time, duplicate)
  BY <1>6, TroubledIs DEF upgrade_end_resp, FlagsOK
<1>7. CASE end_res_timeout
  BY <1>7 DEF end_res_timeout, FlagsOK
<1>8. CASE finish_upgrade
  BY <1>8 DEF finish_upgrade, FlagsOK
<1>9. CASE default_resp_abort
  BY <1>9, TroubledIs DEF default_resp_abort, FlagsOK
<1>10. CASE zigbee_fota_abort
  BY <1>10, TroubledIs DEF zigbee_fota_abort, FlagsOK
<1>11. CASE zigbee_fota_signal_handler
  BY <1>11, TroubledIs DEF zigbee_fota_signal_handler, FlagsOK
<1>12. CASE \E r \in net : Lose(r)
  BY <1>12, TroubledIs DEF Lose, FlagsOK
<1>13. CASE \E kept \in 0 .. Len(lib.dfu.data), dfu_ok \in BOOLEAN : PowerLoss(kept, dfu_ok)
  BY <1>13, TroubledIs DEF PowerLoss, FlagsOK
<1> QED
  BY <1>1, <1>2, <1>3, <1>4, <1>5, <1>6, <1>7, <1>8, <1>9, <1>10, <1>11, <1>12, <1>13 DEF Next

(* Only finish_upgrade schedules.                                          *)
LEMMA OtherStepsSchedule ==
  ASSUME Next, ~ finish_upgrade
  PROVE  scheduled' = scheduled
<1>1. CASE \/ QueryNextImage
           \/ \E version \in Versions, duplicate \in BOOLEAN :
                query_next_image_resp(version, duplicate)
           \/ \E r \in {q \in net : q.name = "block"}, duplicate \in BOOLEAN, fault \in Faults :
                \E answer \in Answers(r) : image_block_resp(r, answer, duplicate, fault)
  <2>1. CASE QueryNextImage
    BY <2>1 DEF QueryNextImage
  <2>2. CASE \E version \in Versions, duplicate \in BOOLEAN :
               query_next_image_resp(version, duplicate)
    BY <2>2 DEF query_next_image_resp
  <2>3. CASE \E r \in {q \in net : q.name = "block"}, duplicate \in BOOLEAN, fault \in Faults :
               \E answer \in Answers(r) : image_block_resp(r, answer, duplicate, fault)
    BY <2>3 DEF image_block_resp
  <2> QED
    BY ONLY <1>1, <2>1, <2>2, <2>3
<1>2. CASE \/ \E fault \in Faults : block_req_cb(fault)
           \/ resend_buffer
           \/ \E version \in Versions, time \in Times, duplicate \in BOOLEAN :
                upgrade_end_resp(version, time, duplicate)
           \/ end_res_timeout
  BY <1>2 DEF block_req_cb, resend_buffer, upgrade_end_resp, end_res_timeout
<1>3. CASE default_resp_abort \/ zigbee_fota_abort \/ zigbee_fota_signal_handler
  BY <1>3 DEF default_resp_abort, zigbee_fota_abort, zigbee_fota_signal_handler
<1>4. CASE \/ \E r \in net : Lose(r)
           \/ \E kept \in 0 .. Len(lib.dfu.data), dfu_ok \in BOOLEAN : PowerLoss(kept, dfu_ok)
  BY <1>4 DEF Lose, PowerLoss
<1> QED
  BY <1>1, <1>2, <1>3, <1>4 DEF Next

(* so every step keeps it.                                                 *)
LEMMA InvStays ==
  ASSUME UpgradeInv, [Next]_vars
  PROVE  UpgradeInv'
<1>1. CASE Next
  <2>1. SystemKnown(System)' /\ FlagsOK'
    BY <1>1, SystemStays, FlagsStay DEF UpgradeInv
  <2>2. NoPartIsScheduled'
    <3>1. CASE finish_upgrade
      BY <3>1, FinishSchedules DEF UpgradeInv
    <3>2. CASE ~ finish_upgrade
      <4>1. scheduled' = scheduled
        BY <1>1, <3>2, OtherStepsSchedule
      <4> QED
        BY <4>1 DEF UpgradeInv, NoPartIsScheduled
    <3> QED
      BY <3>1, <3>2
  <2> QED
    BY <2>1, <2>2 DEF UpgradeInv
<1>2. CASE UNCHANGED vars
  <2>1. System' = System
    BY <1>2 DEF vars, System
  <2>2. SystemKnown(System)'
    BY <2>1 DEF UpgradeInv
  <2> QED
    BY <1>2, <2>2 DEF UpgradeInv, vars, FlagsOK, NoPartIsScheduled
<1> QED
  BY <1>1, <1>2

(* The invariant the other theorems follow from: after every block, lost,  *)
(* doubled or late answer, abort and reset, the client, the parser of the  *)
(* library, the DFU targets and the resume state agree on the version, on  *)
(* the layout of the file and on the offset of the next byte.              *)
THEOREM Inductive == Spec => []UpgradeInv
<1> QED
  BY InvInitially, InvStays, PTL DEF Spec

-------------------------------------------------------------------------------
(* What TypeOK asks for, besides.                                          *)
LEMMA CarryIsShort ==
  ASSUME NEW c, NEW n, Place(c, n)
  PROVE  Len(c.stream_carry) < Align
<1>1. CASE c.stream_carry = <<>>
  BY <1>1, SizesAre
<1>2. CASE c.stream_carry # <<>>
  BY <1>2 DEF Place, InMandatory, InOptional, InHeader, InImage, AtEnd
<1> QED
  BY <1>1, <1>2

LEMMA AnswerIs ==
  ASSUME NEW a, IsAnswerOf(a)
  PROVE  a \in [status : {"SUCCESS"}, block : Block]
                \cup [status : {"WAIT_FOR_DATA", "ABORT"}, block : {None}]
BY DEF IsAnswerOf

LEMMA ClientIs ==
  ASSUME NEW c, IsClient(c), Numbers(c)
  PROVE  c \in Client
<1>1. c.pending_img_block_resp \in
        [status : {"SUCCESS"}, block : Block]
          \cup [status : {"WAIT_FOR_DATA", "ABORT"}, block : {None}] \cup {None}
  BY AnswerIs DEF IsClient
<1>2. /\ c.img_block_req_sent \in BOOLEAN /\ c.resend \in BOOLEAN
      /\ c.ota_restart_after_rejoin \in BOOLEAN
  BY DEF IsClient
<1>3. c = [image_status |-> c.image_status, file_offset |-> c.file_offset,
           ota_dfv |-> c.ota_dfv, download_file_size |-> c.download_file_size,
           img_block_req_sent |-> c.img_block_req_sent,
           pending_img_block_resp |-> c.pending_img_block_resp,
           resend_retries |-> c.resend_retries, resend |-> c.resend,
           ota_restart_after_rejoin |-> c.ota_restart_after_rejoin,
           payload_2_version |-> c.payload_2_version,
           block_req_cbs |-> c.block_req_cbs, end_res_timeouts |-> c.end_res_timeouts,
           finish_alarms |-> c.finish_alarms]
  BY DEF IsClient, IsRecord, ClientFields
<1>4. /\ c.image_status \in Status /\ c.file_offset \in 0 .. TotalSize \cup {None}
      /\ c.ota_dfv \in Versions \cup {None} /\ c.download_file_size \in {0, TotalSize}
      /\ c.resend_retries \in 0 .. MaxResendRetries
      /\ c.payload_2_version \in Versions \cup {None}
      /\ c.block_req_cbs \in Nat /\ c.end_res_timeouts \in Nat /\ c.finish_alarms \in Nat
  BY DEF IsClient, Numbers
<1> QED
  BY ONLY <1>1, <1>2, <1>3, <1>4 DEF Client

(* The variables have the values the C types and the code allow: the       *)
(* library's offset is one of the file, and fewer bytes are carried than   *)
(* the alignment of the stream, whatever the layout of the file and the    *)
(* block length.                                                           *)
THEOREM TypeCorrect == Spec => []TypeOK
<1>1. UpgradeInv => TypeOK
  <2> SUFFICES ASSUME UpgradeInv
               PROVE  TypeOK
    OBVIOUS
  <2>1. FlagsOK /\ SystemKnown(System)
    BY DEF UpgradeInv
  <2>2. LibraryOK(lib) /\ net \subseteq Requests
    BY <2>1, SystemIs DEF SystemKnown, Shape, LibraryKnown
  <2>3. lib.saved # None => lib.saved.target_file_version \in Versions
    BY <2>2 DEF LibraryOK, IsLibrary, IsResumeState
  <2>4. ota_file_offset(lib) \in 0 .. TotalSize /\ Len(lib.ota_ctx.stream_carry) < Align
    <3>1. IsContext(lib.ota_ctx) /\ IsDfu(lib.dfu) /\ Place(lib.ota_ctx, DataLen(lib))
      BY <2>2 DEF LibraryOK, IsLibrary, DataLen
    <3> QED
      BY ONLY <3>1, PlaceOffset, CarryIsShort
  <2>5. cli \in Client
    BY <2>1, SystemIs, ClientIs DEF SystemKnown, Shape
  <2> QED
    BY ONLY <2>1, <2>2, <2>3, <2>4, <2>5 DEF TypeOK, FlagsOK, Requests
<1> QED
  BY <1>1, Inductive, PTL

(* What ota_process_chunk and the stream routines wrote into the DFU       *)
(* targets is a beginning of the image of one version: no byte is lost,    *)
(* doubled, shifted or of another file, also after a resumed download.     *)
THEOREM Contiguous == Spec => []TargetIsFile
<1>1. UpgradeInv => TargetIsFile
  <2> SUFFICES ASSUME UpgradeInv
               PROVE  TargetIsFile
    OBVIOUS
  <2> DEFINE data == lib.dfu.data
  <2>1. data \in Seq(FileByte) /\ Len(data) <= BinSize /\ Len(data) \in Nat
    BY SystemIs DEF UpgradeInv, SystemKnown, LibraryKnown, LibraryOK, IsLibrary, IsDfu
  <2>2. PICK v \in Versions : From(data, v, BinStart)
    BY SystemIs DEF UpgradeInv, SystemKnown, OneVersion, OfVersion
  <2>3. ASSUME NEW i \in 1 .. Len(data)
        PROVE  data[i] = Image(v)[i]
    <3>1. i \in 1 .. BinSize
      BY <2>1, SizesAre
    <3>2. data[i] = <<v, BinStart + i - 1>>
      BY <2>2 DEF From
    <3> QED
      BY <3>1, <3>2 DEF Image
  <2> QED
    BY <2>1, <2>3 DEF TargetIsFile
<1> QED
  BY <1>1, Inductive, PTL

(* While a file is downloaded the offset the client requests is the offset *)
(* the library's parser stands at, unless zigbee_fota_abort reset the      *)
(* library alone.                                                          *)
THEOREM SameOffsets == Spec => []OffsetsAgree
<1>1. UpgradeInv => OffsetsAgree
  BY SystemIs DEF UpgradeInv, SystemKnown, Downloading, OffsetsAgree
<1> QED
  BY <1>1, Inductive, PTL

(* finish_upgrade schedules an image for the boot loader only if all of    *)
(* its bytes are in the targets.                                           *)
THEOREM WholeImages == Spec => []NoPartIsScheduled
<1>1. UpgradeInv => NoPartIsScheduled
  BY DEF UpgradeInv
<1> QED
  BY <1>1, Inductive, PTL

-------------------------------------------------------------------------------
(* What drives an upgrade on.                                              *)

(* On a network a download knows its version, unless the application       *)
(* aborted the library's half before, and is driven then; the end response *)
(* is waited for with a timeout, unless one for another file took it.      *)
DriveInv ==
  /\ joined = TRUE => Continued(System)
  /\ IsDownloading(System) /\ cli.ota_dfv # None => Due(System)
  /\ IsDownloaded(System) => misled = TRUE \/ cli.end_res_timeouts > 0

(* A step that drives the download, or carries it on, keeps this,          *)
Followed == Carries(System', System) \/ (misled' = TRUE /\ DownloadKept(System', System))
FlagsFollow ==
  /\ misled = TRUE => misled' = TRUE
  /\ joined' = TRUE => joined = TRUE \/ Continued(System')
LEMMA DriveKept ==
  ASSUME DriveInv, Followed, FlagsFollow
  PROVE  DriveInv'
<1>0. /\ Carries(System', System) \/ (misled' = TRUE /\ DownloadKept(System', System))
      /\ misled = TRUE => misled' = TRUE
      /\ joined' = TRUE => joined = TRUE \/ Continued(System')
  BY DEF Followed, FlagsFollow
<1>1. ASSUME IsDownloading(System')
      PROVE  (System'.cli.ota_dfv # None /\ Due(System')) \/ DownloadKept(System', System)
  BY <1>0, <1>1 DEF Carries
<1>2. joined' = TRUE => Continued(System')
  <2> SUFFICES ASSUME joined = TRUE, IsDownloading(System'), DownloadKept(System', System)
               PROVE  System'.cli.ota_dfv # None \/ System'.lib.loaded # TRUE
    BY <1>0, <1>1 DEF Continued
  <2>1. Continued(System) /\ IsDownloading(System)
    BY DEF DriveInv, DownloadKept, IsDownloading
  <2> QED
    BY <2>1 DEF Continued, DownloadKept
<1>3. IsDownloading(System') /\ System'.cli.ota_dfv # None => Due(System')
  <2> SUFFICES ASSUME IsDownloading(System'), System'.cli.ota_dfv # None,
                      DownloadKept(System', System)
               PROVE  Due(System')
    BY <1>1
  <2>1. IsDownloading(System) /\ cli.ota_dfv # None
    BY SystemIs DEF DownloadKept, IsDownloading
  <2> QED
    BY <2>1 DEF DriveInv, DownloadKept
<1>4. IsDownloaded(System') => misled' = TRUE \/ System'.cli.end_res_timeouts > 0
  <2> SUFFICES ASSUME IsDownloaded(System'), Carries(System', System),
                      ~ (System'.cli.end_res_timeouts > 0)
               PROVE  misled' = TRUE
    BY <1>0
  <2>1. IsDownloaded(System) /\ System'.cli.end_res_timeouts = cli.end_res_timeouts
    BY SystemIs DEF Carries
  <2> QED
    BY <1>0, <2>1 DEF DriveInv
<1>5. System'.cli = cli'
  BY DEF System
<1> QED
  BY <1>2, <1>3, <1>4, <1>5 DEF DriveInv

(* in particular one that leaves the flags as they are or sets misled;     *)
FlagsKept == (misled = TRUE => misled' = TRUE) /\ (joined' = TRUE => joined = TRUE)
LEMMA DriveCarried ==
  ASSUME DriveInv, FlagsKept, Carries(System', System)
  PROVE  DriveInv'
<1>1. Followed
  BY DEF Followed
<1>2. FlagsFollow
  BY DEF FlagsFollow, FlagsKept
<1> QED
  BY <1>1, <1>2, DriveKept

(* every step is one, but for a reset, after which nothing is to be driven *)
(* until the device is on a network.                                       *)
LEMMA DriveStays ==
  ASSUME SystemKnown(System), DriveInv, Next
  PROVE  DriveInv'
<1>1. CASE QueryNextImage
  <2>1. FlagsKept
    BY <1>1 DEF QueryNextImage, FlagsKept
  <2>2. Carries(System', System)
    BY <1>1, QueryOK
  <2> QED
    BY <2>1, <2>2, DriveCarried
<1>2. CASE \E version \in Versions, duplicate \in BOOLEAN : query_next_image_resp(version, duplicate)
  <2>1. FlagsKept
    BY <1>2 DEF query_next_image_resp, FlagsKept
  <2>2. Carries(System', System)
    BY <1>2, QueryRespOK
  <2> QED
    BY <2>1, <2>2, DriveCarried
<1>3. CASE \E r \in {q \in net : q.name = "block"}, duplicate \in BOOLEAN, fault \in Faults :
             \E answer \in Answers(r) : image_block_resp(r, answer, duplicate, fault)
  <2>1. PICK r \in {q \in net : q.name = "block"}, duplicate \in BOOLEAN, fault \in Faults :
               \E answer \in Answers(r) : image_block_resp(r, answer, duplicate, fault)
    BY <1>3
  <2>2. PICK answer \in Answers(r) : image_block_resp(r, answer, duplicate, fault)
    BY <2>1
  <2>3. FlagsKept
    BY <2>2 DEF image_block_resp, FlagsKept
  <2>4. Carries(System', System)
    BY <2>2, BlockRespOK
  <2> QED
    BY <2>3, <2>4, DriveCarried
<1>4. CASE \E fault \in Faults : block_req_cb(fault)
  <2>1. FlagsKept
    BY <1>4 DEF block_req_cb, FlagsKept
  <2>2. Carries(System', System)
    BY <1>4, BlockReqCbOK
  <2> QED
    BY <2>1, <2>2, DriveCarried
<1>5. CASE resend_buffer
  <2>1. FlagsKept
    BY <1>5 DEF resend_buffer, FlagsKept
  <2>2. Carries(System', System)
    BY <1>5, ResendOK
  <2> QED
    BY <2>1, <2>2, DriveCarried
<1>6. CASE \E version \in Versions, time \in Times, duplicate \in BOOLEAN :
             upgrade_end_resp(version, time, duplicate)
  <2>1. PICK version \in Versions, time \in Times, duplicate \in BOOLEAN :
               upgrade_end_resp(version, time, duplicate)
    BY <1>6
  <2>2. FlagsKept
    BY <2>1 DEF upgrade_end_resp, FlagsKept
  <2>3. FlagsFollow
    BY <2>2 DEF FlagsFollow, FlagsKept
  <2>4. Followed
    BY <2>1, EndRespOK DEF Followed
  <2> QED
    BY <2>3, <2>4, DriveKept
<1>7. CASE end_res_timeout
  <2>1. FlagsKept
    BY <1>7 DEF end_res_timeout, FlagsKept
  <2>2. Carries(System', System)
    BY <1>7, TimeoutStepOK
  <2> QED
    BY <2>1, <2>2, DriveCarried
<1>8. CASE finish_upgrade
  <2>1. FlagsKept
    BY <1>8 DEF finish_upgrade, FlagsKept
  <2>2. Carries(System', System)
    BY <1>8, FinishOK
  <2> QED
    BY <2>1, <2>2, DriveCarried
<1>9. CASE default_resp_abort
  <2>1. FlagsKept
    BY <1>9 DEF default_resp_abort, FlagsKept
  <2>2. Carries(System', System)
    BY <1>9, DefaultRespOK
  <2> QED
    BY <2>1, <2>2, DriveCarried
<1>10. CASE zigbee_fota_abort
  <2>1. FlagsKept
    BY <1>10 DEF zigbee_fota_abort, FlagsKept
  <2>2. Carries(System', System)
    BY <1>10, FotaAbortOK
  <2> QED
    BY <2>1, <2>2, DriveCarried
<1>11. CASE zigbee_fota_signal_handler
  <2>1. misled = TRUE => misled' = TRUE
    BY <1>11 DEF zigbee_fota_signal_handler
  <2>2. Carries(System', System) /\ Continued(System')
    BY <1>11, SignalOK
  <2>3. Followed /\ FlagsFollow
    BY <2>1, <2>2 DEF Followed, FlagsFollow
  <2> QED
    BY <2>3, DriveKept
<1>12. CASE \E r \in net : Lose(r)
  <2>1. FlagsKept
    BY <1>12 DEF Lose, FlagsKept
  <2>2. Carries(System', System)
    BY <1>12, LoseOK
  <2> QED
    BY <2>1, <2>2, DriveCarried
<1>13. CASE \E kept \in 0 .. Len(lib.dfu.data), dfu_ok \in BOOLEAN : PowerLoss(kept, dfu_ok)
  <2>1. joined' # TRUE /\ cli.ota_dfv' = None /\ ~ IsDownloaded(System')
    BY <1>13, PowerLossOK
  <2> QED
    BY <2>1 DEF DriveInv
<1> QED
  BY <1>1, <1>2, <1>3, <1>4, <1>5, <1>6, <1>7, <1>8, <1>9, <1>10, <1>11, <1>12, <1>13 DEF Next

(* No download rests: while one goes on there is a request or an alarm to  *)
(* come (zb_zcl_ota_upgrade: image block handler, callback and resend),    *)
(* and the wait for the end response has its timeout, whatever is lost,    *)
(* doubled, late, refused or interrupted by a reset.  This is the safety   *)
(* on which UpgradeEnds rests: the scheduler need only call what is due.   *)
THEOREM AlwaysDriven == Spec => []DownloadIsDriven
<1>1. Init => DriveInv
  <2> SUFFICES ASSUME Init
               PROVE  DriveInv
    OBVIOUS
  <2>1. joined = FALSE /\ cli.image_status = "NORMAL"
    BY PoweredOnIs DEF Init
  <2> QED
    BY <2>1, SystemIs DEF DriveInv, IsDownloading, IsDownloaded
<1>2. UpgradeInv /\ DriveInv /\ [Next]_vars => DriveInv'
  <2> SUFFICES ASSUME UpgradeInv, DriveInv, [Next]_vars
               PROVE  DriveInv'
    OBVIOUS
  <2>1. CASE Next
    BY <2>1, DriveStays DEF UpgradeInv
  <2>2. CASE UNCHANGED vars
    <3>1. System' = System /\ joined' = joined /\ misled' = misled /\ cli' = cli
      BY <2>2 DEF vars, System
    <3> QED
      BY <3>1 DEF DriveInv
  <2> QED
    BY <2>1, <2>2
<1>3. UpgradeInv /\ DriveInv => DownloadIsDriven
  <2> SUFFICES ASSUME UpgradeInv, DriveInv
               PROVE  DownloadIsDriven
    OBVIOUS
  <2>1. IsClient(cli) /\ (lib.loaded = TRUE \/ lib.loaded = FALSE)
    BY KnownShape, SystemIs
       DEF UpgradeInv, SystemKnown, LibraryKnown, LibraryOK, IsLibrary
  <2>2. (joined = TRUE \/ joined = FALSE) /\ (misled = TRUE \/ misled = FALSE)
    BY DEF UpgradeInv, FlagsOK
  <2>3. ASSUME joined, cli.image_status = "DOWNLOADING", cli.ota_dfv # None \/ lib.loaded
        PROVE  cli.block_req_cbs > 0 \/ cli.resend
    <3>1. Continued(System) /\ IsDownloading(System)
      BY <2>2, <2>3, SystemIs DEF DriveInv, IsDownloading
    <3>2. cli.ota_dfv # None
      BY <2>1, <2>3, <3>1, SystemIs DEF Continued
    <3>3. cli.block_req_cbs > 0 \/ cli.resend = TRUE
      BY <3>1, <3>2, SystemIs DEF DriveInv, Due
    <3> QED
      BY <3>3
  <2>4. ASSUME cli.image_status = "DOWNLOADED", ~ misled
        PROVE  cli.end_res_timeouts > 0
    BY <2>2, <2>4, SystemIs DEF DriveInv, IsDownloaded
  <2> QED
    BY <2>3, <2>4 DEF DownloadIsDriven
<1> QED
  BY <1>1, <1>2, <1>3, Inductive, PTL DEF Spec
===============================================================================
