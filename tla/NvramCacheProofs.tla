--------------------------- MODULE NvramCacheProofs ---------------------------
(***************************************************************************)
(* Proofs about NvramCache for any flash, cache and ranges.                *)
(*                                                                         *)
(* The lemma the others rest on is FlashWrite: whatever the alignment and  *)
(* wherever the flash fails, nvram_flash_write leaves what a plain write   *)
(* of the first bytes would leave.  The second half shows step by step     *)
(* that the driver implements PageStore: CommitImplements for what every   *)
(* call does with the cache, then one lemma per action.                    *)
(***************************************************************************)
EXTENDS NvramCache, SequenceLemmas

Byte == Written \cup {Erased}
Flash == [Address -> Byte]

(* The first k bytes of data written at off.                               *)
Prefix(f, off, data, k) == flash_area_write(f, off, SubSeq(data, 1, k))

LEMMA Remainder == \A n \in Nat : n % Block \in 0 .. Block - 1 /\ n % Block <= n
BY SizeAssumption

LEMMA PrefixAt ==
  ASSUME NEW f \in Flash, NEW off \in Nat, NEW data \in Seq(Written), NEW k \in 0 .. Len(data)
  PROVE  Prefix(f, off, data, k)
           = [a \in Address |-> IF a \in off .. off + k - 1 THEN data[a - off + 1] ELSE f[a]]
<1>1. /\ Len(SubSeq(data, 1, k)) = k
      /\ \A i \in 1 .. k : SubSeq(data, 1, k)[i] = data[i]
  BY SubSeqProperties
<1>2. Address \subseteq Int
  BY SizeAssumption DEF Address
<1>3. \A a \in Address : a \in off .. off + k - 1 => a - off + 1 \in 1 .. k
  BY <1>2
<1> QED
  BY <1>1, <1>3 DEF Prefix, flash_area_write

LEMMA PrefixIsFlash ==
  ASSUME NEW f \in Flash, NEW off \in Nat, NEW data \in Seq(Written), NEW k \in 0 .. Len(data)
  PROVE  Prefix(f, off, data, k) \in Flash
<1>1. \A a \in Address : a \in off .. off + k - 1 => a - off + 1 \in 1 .. Len(data)
  BY SizeAssumption DEF Address
<1>2. \A i \in 1 .. Len(data) : data[i] \in Byte
  BY DEF Byte
<1>3. \A a \in Address : f[a] \in Byte
  BY DEF Flash
<1> QED
  BY <1>1, <1>2, <1>3, PrefixAt DEF Flash

(* Two writes, the second where the first ended.                           *)
LEMMA PrefixContinues ==
  ASSUME NEW f \in Flash, NEW off \in Nat, NEW data \in Seq(Written),
         NEW k \in 0 .. Len(data), NEW m \in k .. Len(data)
  PROVE  flash_area_write(Prefix(f, off, data, k), off + k, SubSeq(data, k + 1, m))
           = Prefix(f, off, data, m)
<1> DEFINE rest == SubSeq(data, k + 1, m)
           first == Prefix(f, off, data, k)
<1>1. Len(rest) = m - k /\ \A i \in 1 .. m - k : rest[i] = data[k + i]
  BY SubSeqProperties
<1>2. Address \subseteq Int
  BY SizeAssumption DEF Address
<1>3. first = [a \in Address |-> IF a \in off .. off + k - 1 THEN data[a - off + 1] ELSE f[a]]
  BY PrefixAt
<1>4. flash_area_write(first, off + k, rest)
        = [a \in Address |-> IF a \in off + k .. off + m - 1 THEN rest[a - (off + k) + 1]
                             ELSE first[a]]
  <2>1. (off + k) + Len(rest) - 1 = off + m - 1
    BY <1>1
  <2> HIDE DEF rest, first
  <2> QED
    BY <2>1, Zenon DEF flash_area_write
<1>5. ASSUME NEW a \in Address, a \in off + k .. off + m - 1
      PROVE  rest[a - (off + k) + 1] = data[a - off + 1]
  <2>1. a - (off + k) + 1 \in 1 .. m - k /\ k + (a - (off + k) + 1) = a - off + 1
    BY <1>2, <1>5
  <2> QED
    BY <1>1, <2>1
<1>6. Prefix(f, off, data, m)
        = [a \in Address |-> IF a \in off .. off + m - 1 THEN data[a - off + 1] ELSE f[a]]
  BY PrefixAt
<1>7. \A a \in Address :
        (IF a \in off + k .. off + m - 1 THEN rest[a - (off + k) + 1] ELSE first[a])
          = (IF a \in off .. off + m - 1 THEN data[a - off + 1] ELSE f[a])
  BY <1>2, <1>3, <1>5
<1> QED
  BY <1>4, <1>6, <1>7

(* A patched block is a write of its new bytes.                            *)
LEMMA PatchIsWrite ==
  ASSUME NEW f \in Flash, NEW start \in Nat, NEW block_off \in Nat, NEW data \in Seq(Written),
         block_off + Len(data) <= Block
  PROVE  PatchBlock(f, start, block_off, data) = flash_area_write(f, start + block_off, data)
<1> DEFINE block ==
      [i \in 1 .. Block |-> IF i - block_off \in DOMAIN data THEN data[i - block_off]
                            ELSE flash_area_read(f, start, Block)[i]]
<1>1. Len(block) = Block
  BY SizeAssumption
<1>2. DOMAIN data = 1 .. Len(data) /\ Len(data) \in Nat /\ Block \in Nat
  BY SizeAssumption
<1>3. Address \subseteq Int
  BY SizeAssumption DEF Address
<1>4. ASSUME NEW a \in Address
      PROVE  (IF a \in start .. start + Block - 1 THEN block[a - start + 1] ELSE f[a])
               = (IF a \in start + block_off .. start + block_off + Len(data) - 1
                  THEN data[a - (start + block_off) + 1] ELSE f[a])
  <2>1. CASE a \in start .. start + Block - 1
    <3>1. a - start + 1 \in 1 .. Block /\ start + (a - start + 1) - 1 = a
      BY <1>2, <1>3, <2>1
    <3>2. flash_area_read(f, start, Block)[a - start + 1] = f[a]
      BY <3>1 DEF flash_area_read
    <3>3. block[a - start + 1] = IF a - start + 1 - block_off \in DOMAIN data
                                 THEN data[a - start + 1 - block_off] ELSE f[a]
      BY <3>1, <3>2
    <3>4. a - start + 1 - block_off = a - (start + block_off) + 1
      BY <1>3
    <3>5. a - start + 1 - block_off \in DOMAIN data
            <=> a \in start + block_off .. start + block_off + Len(data) - 1
      BY <1>2, <1>3
    <3> QED
      BY <2>1, <3>3, <3>4, <3>5
  <2>2. CASE a \notin start .. start + Block - 1
    BY <1>2, <1>3, <2>2
  <2> QED
    BY <2>1, <2>2
<1> QED
  BY <1>1, <1>4 DEF PatchBlock, flash_area_write

(* Head, middle and tail make up the write.                                *)
LEMMA Parts ==
  ASSUME NEW off \in Nat, NEW len \in Nat
  PROVE  /\ off % Block \in Nat /\ off % Block <= off
         /\ HeadLen(off, len) \in 0 .. len /\ (off % Block) + HeadLen(off, len) <= Block
         /\ MiddleLen(off, len) \in 0 .. len - HeadLen(off, len)
         /\ len - (HeadLen(off, len) + MiddleLen(off, len)) \in 0 .. Block
<1>1. off % Block \in 0 .. Block - 1 /\ off % Block <= off
  BY Remainder
<1>2. HeadLen(off, len) \in 0 .. len /\ (off % Block) + HeadLen(off, len) <= Block
  BY <1>1, SizeAssumption DEF HeadLen
<1> DEFINE rest == len - HeadLen(off, len)
<1>3. rest \in Nat
  BY <1>2
<1>4. rest % Block \in 0 .. Block - 1 /\ rest % Block <= rest
  BY <1>3, Remainder
<1>5. MiddleLen(off, len) = rest - (rest % Block)
  BY DEF MiddleLen
<1> HIDE DEF rest
<1>6. MiddleLen(off, len) \in 0 .. rest /\ rest - MiddleLen(off, len) \in 0 .. Block
  BY <1>3, <1>4, <1>5, SizeAssumption
<1> QED
  BY <1>1, <1>2, <1>6 DEF rest

LEMMA HeadIsPrefix ==
  ASSUME NEW f \in Flash, NEW off \in Nat, NEW data \in Seq(Written)
  PROVE  WriteHead(f, off, data) = Prefix(f, off, data, HeadLen(off, Len(data)))
<1> DEFINE n == HeadLen(off, Len(data))
<1>0. Len(data) \in Nat
  OBVIOUS
<1>1. n \in 0 .. Len(data) /\ off % Block \in Nat /\ off % Block <= off /\ (off % Block) + n <= Block
  BY <1>0, Parts
<1>2. CASE n = 0
  <2>1. \A a \in Address : a \notin off .. off + 0 - 1
    OBVIOUS
  <2>2. Prefix(f, off, data, 0) = [a \in Address |-> f[a]]
    BY <2>1, PrefixAt
  <2> QED
    BY <1>2, <2>2 DEF WriteHead, Flash
<1>3. CASE n # 0
  <2>1. SubSeq(data, 1, n) \in Seq(Written) /\ Len(SubSeq(data, 1, n)) = n
    BY <1>1, SubSeqProperties
  <2>2. off - (off % Block) \in Nat /\ off - (off % Block) + (off % Block) = off
    BY <1>1
  <2>3. WriteHead(f, off, data)
          = PatchBlock(f, off - (off % Block), off % Block, SubSeq(data, 1, n))
    BY <1>3 DEF WriteHead
  <2> QED
    <3> HIDE DEF n
    <3>1. (off % Block) + Len(SubSeq(data, 1, n)) <= Block
      BY <1>1, <2>1
    <3>2. PatchBlock(f, off - (off % Block), off % Block, SubSeq(data, 1, n))
            = flash_area_write(f, off - (off % Block) + (off % Block), SubSeq(data, 1, n))
      BY <1>1, <2>1, <2>2, <3>1, PatchIsWrite
    <3> QED
      BY <2>2, <2>3, <3>2 DEF Prefix, n
<1> QED
  BY <1>2, <1>3

LEMMA MiddleIsPrefix ==
  ASSUME NEW f \in Flash, NEW off \in Nat, NEW data \in Seq(Written),
         NEW len \in 0 .. MiddleLen(off, Len(data))
  PROVE  WriteMiddle(f, off, data, len) = Prefix(f, off, data, HeadLen(off, Len(data)) + len)
<1> DEFINE n == HeadLen(off, Len(data))
           middle == MiddleLen(off, Len(data))
<1>0. Len(data) \in Nat
  OBVIOUS
<1>1. n \in 0 .. Len(data) /\ middle \in 0 .. Len(data) - n
  BY <1>0, Parts
<1>2. n + len \in n .. Len(data)
  <2> len \in 0 .. middle
    OBVIOUS
  <2> HIDE DEF n, middle
  <2> QED
    BY <1>0, <1>1
<1> QED
  BY <1>1, <1>2, HeadIsPrefix, PrefixContinues DEF WriteMiddle

LEMMA TailIsPrefix ==
  ASSUME NEW f \in Flash, NEW off \in Nat, NEW data \in Seq(Written)
  PROVE  WriteTail(f, off, data) = Prefix(f, off, data, Len(data))
<1> DEFINE head == HeadLen(off, Len(data))
           len == MiddleLen(off, Len(data))
           n == head + len
           before == Prefix(f, off, data, n)
           rest == SubSeq(data, n + 1, Len(data))
<1>0. Len(data) \in Nat
  OBVIOUS
<1>1. len \in 0 .. len /\ n \in 0 .. Len(data) /\ Len(data) - n \in 0 .. Block
  <2>1. /\ head \in 0 .. Len(data) /\ len \in 0 .. Len(data) - head
        /\ Len(data) - (head + len) \in 0 .. Block
    BY <1>0, Parts
  <2> HIDE DEF head, len
  <2> QED
    BY <1>0, <2>1
<1>2. WriteMiddle(f, off, data, len) = before
  BY <1>1, MiddleIsPrefix
<1>3. before \in Flash
  BY <1>1, PrefixIsFlash
<1>4. rest \in Seq(Written) /\ Len(rest) = Len(data) - n
  BY <1>1, SubSeqProperties
<1>5. PatchBlock(before, off + n, 0, rest) = flash_area_write(before, off + n, rest)
  <2> HIDE DEF n, before, rest
  <2>1. off + n \in Nat /\ 0 \in Nat /\ 0 + Len(rest) <= Block /\ off + n + 0 = off + n
    BY <1>0, <1>1, <1>4
  <2>2. PatchBlock(before, off + n, 0, rest) = flash_area_write(before, off + n + 0, rest)
    BY <1>3, <1>4, <2>1, PatchIsWrite
  <2> QED
    BY <2>1, <2>2
<1>6. flash_area_write(before, off + n, rest) = Prefix(f, off, data, Len(data))
  BY <1>1, PrefixContinues
<1> QED
  BY <1>2, <1>5, <1>6 DEF WriteTail

(* However nvram_flash_write ends, the flash holds what a plain write of   *)
(* the bytes it counts would have left, and it counts them all unless it   *)
(* reports an error.                                                       *)
THEOREM FlashWrite ==
  ASSUME NEW f \in Flash, NEW off \in Nat, NEW data \in Seq(Written),
         NEW r \in nvram_flash_write(f, off, data)
  PROVE  /\ r.done \in 0 .. Len(data)
         /\ r.err \in BOOLEAN
         /\ ~ r.err => r.done = Len(data)
         /\ r.flash = Prefix(f, off, data, r.done)
         /\ r.flash \in Flash
<1> DEFINE head == HeadLen(off, Len(data))
           middle == MiddleLen(off, Len(data))
<1>1. head \in 0 .. Len(data) /\ middle \in 0 .. Len(data) - head
  BY Parts
<1>2. CASE r = [flash |-> WriteTail(f, off, data), done |-> Len(data), err |-> FALSE]
  BY <1>2, TailIsPrefix, PrefixIsFlash
<1>3. CASE r = [flash |-> f, done |-> 0, err |-> TRUE]
  <2>1. \A a \in Address : a \notin off .. off + 0 - 1
    OBVIOUS
  <2>2. Prefix(f, off, data, 0) = [a \in Address |-> f[a]]
    BY <2>1, PrefixAt
  <2> QED
    BY <1>3, <2>2 DEF Flash
<1>4. ASSUME NEW n \in 0 .. middle, head + n < Len(data),
             r = [flash |-> WriteMiddle(f, off, data, n), done |-> head + n, err |-> TRUE]
      PROVE  /\ r.done \in 0 .. Len(data) /\ r.err = TRUE
             /\ r.flash = Prefix(f, off, data, r.done) /\ r.flash \in Flash
  <2>1. head + n \in 0 .. Len(data)
    BY <1>1, <1>4
  <2>2. r.flash = Prefix(f, off, data, head + n)
    BY <1>4, MiddleIsPrefix
  <2> QED
    BY <1>4, <2>1, <2>2, PrefixIsFlash
<1> QED
  BY <1>2, <1>3, <1>4 DEF nvram_flash_write

-------------------------------------------------------------------------------
(* Types, and the place of the cached range.                               *)

Base == get_page_base_offset(write_cache.page) + write_cache.pos

LEMMA PageBase == \A page \in Page : page \in Nat /\ get_page_base_offset(page) \in Nat
BY SizeAssumption DEF Page, get_page_base_offset

LEMMA EmptyPrefix ==
  ASSUME NEW f \in Flash, NEW off \in Nat, NEW data \in Seq(Written)
  PROVE  Prefix(f, off, data, 0) = f
<1>1. \A a \in Address : a \notin off .. off + 0 - 1
  OBVIOUS
<1>2. Prefix(f, off, data, 0) = [a \in Address |-> f[a]]
  BY <1>1, PrefixAt
<1> QED
  BY <1>2 DEF Flash

(* A commit is a write of the first bytes of the cache.                    *)
LEMMA Commit ==
  ASSUME TypeOK, NEW commit \in write_cache_commit
  PROVE  /\ commit.done \in 0 .. Len(write_cache.data)
         /\ commit.err \in BOOLEAN
         /\ ~ commit.err => commit.done = Len(write_cache.data)
         /\ commit.flash = Prefix(flash, Base, write_cache.data, commit.done)
         /\ commit.flash \in Flash
<1>1. write_cache.page \in Page /\ write_cache.pos \in Nat /\ write_cache.data \in Seq(Written)
  BY DEF TypeOK
<1>2. Base \in Nat
  BY <1>1, PageBase DEF Base
<1>3. flash \in Flash
  BY DEF TypeOK, Flash, Byte
<1>4. CASE write_cache.data = <<>>
  <2>1. commit.done = 0 /\ commit.err = FALSE /\ commit.flash = flash
    BY <1>4 DEF write_cache_commit
  <2>2. Len(write_cache.data) = 0
    BY <1>4
  <2>3. Prefix(flash, Base, write_cache.data, 0) = flash
    BY <1>1, <1>2, <1>3, EmptyPrefix
  <2>4. commit.err \in BOOLEAN
    BY <2>1, Zenon
  <2>5. commit.done \in 0 .. Len(write_cache.data) /\ commit.done = Len(write_cache.data)
    BY <2>1, <2>2
  <2>6. commit.flash = Prefix(flash, Base, write_cache.data, commit.done) /\ commit.flash \in Flash
    BY <1>3, <2>1, <2>3
  <2> QED
    BY <2>4, <2>5, <2>6
<1>5. CASE write_cache.data # <<>>
  <2>1. commit \in nvram_flash_write(flash, Base, write_cache.data)
    BY <1>5 DEF write_cache_commit, Base
  <2> QED
    BY <1>1, <1>2, <1>3, <2>1, FlashWrite
<1> QED
  BY <1>4, <1>5

(* What commits and writes make of the cache keeps its type.               *)
LEMMA CacheAfterCommit ==
  ASSUME TypeOK, CacheStaysInPage, NEW commit \in write_cache_commit
  PROVE  /\ CachedAfter(commit) \in [page : Page, pos : Nat, data : Seq(Written)]
         /\ Len(CachedAfter(commit).data) <= CacheLen
         /\ CachedAfter(commit).pos + Len(CachedAfter(commit).data) <= PageLen
         /\ CachedAfter(commit).page = write_cache.page
         /\ StoredAfter(commit) \in 0 .. Len(CachedAfter(commit).data)
<1>1. commit.done \in 0 .. Len(write_cache.data)
  BY Commit
<1>2. /\ write_cache \in [page : Page, pos : Nat, data : Seq(Written)]
      /\ write_cache.pos \in Nat /\ stored \in 0 .. Len(write_cache.data)
      /\ Len(write_cache.data) <= CacheLen
      /\ write_cache.pos + Len(write_cache.data) <= PageLen
  BY DEF TypeOK, CacheStaysInPage
<1>3. CASE commit.err
  BY <1>1, <1>2, <1>3 DEF CachedAfter, StoredAfter, Larger
<1>4. CASE ~ commit.err
  <2>1. CachedAfter(commit) = [write_cache EXCEPT !.data = <<>>] /\ StoredAfter(commit) = 0
    BY <1>4 DEF CachedAfter, StoredAfter
  <2> DEFINE Cache == [page : Page, pos : Nat, data : Seq(Written)]
  <2>2. /\ CachedAfter(commit) \in Cache /\ CachedAfter(commit).data = <<>>
        /\ CachedAfter(commit).pos = write_cache.pos /\ CachedAfter(commit).page = write_cache.page
    <3>1. <<>> \in Seq(Written)
      BY EmptySeq
    <3>2. \A c \in Cache, d \in Seq(Written) :
            LET e == [c EXCEPT !.data = d] IN
            e \in Cache /\ e.data = d /\ e.pos = c.pos /\ e.page = c.page
      OBVIOUS
    <3> QED
      BY <1>2, <2>1, <3>1, <3>2
  <2>3. Len(<<>>) = 0 /\ CacheLen \in Nat
    BY SizeAssumption
  <2>4. write_cache.pos + 0 <= PageLen
    BY <1>2, SizeAssumption
  <2> QED
    BY <1>2, <2>1, <2>2, <2>3, <2>4
<1> QED
  BY <1>3, <1>4

LEMMA ValidRange ==
  ASSUME NEW r \in Ranges, Valid(r[1], r[2], r[3])
  PROVE  /\ r[1] \in Page /\ r[2] \in Nat /\ r[3] \in Nat \ {0} /\ r[2] + r[3] <= PageLen
         /\ get_page_base_offset(r[1]) + r[2] \in Nat
<1>1. r[1] \in Nat /\ r[2] \in Nat /\ r[3] \in Nat
  BY RangeAssumption
<1>2. r[1] \in Page
  BY <1>1, SizeAssumption DEF Valid, Page
<1> QED
  BY <1>1, <1>2, PageBase DEF Valid

LEMMA FilledIsWritten ==
  ASSUME TypeOK, writes < MaxWrites, NEW len \in Nat
  PROVE  /\ Filled(len) \in Seq(Written) /\ Len(Filled(len)) = len
         /\ writes + 1 \in Written /\ writes + 1 \in 0 .. MaxWrites
         /\ \A i \in 1 .. len : Filled(len)[i] = writes + 1
<1>1. writes + 1 \in Written /\ writes + 1 \in 0 .. MaxWrites
  BY BoundAssumption DEF TypeOK, Written
<1>2. Filled(len) \in Seq(Written)
  BY <1>1, IsASeq DEF Filled
<1>3. Len(Filled(len)) = len
  BY <1>2 DEF Filled
<1> QED
  BY <1>1, <1>2, <1>3 DEF Filled

(* The bytes the history counts as stored are in the flash, where they     *)
(* belong; a page whose erasing failed excepted.                           *)
StoredIsThere ==
  write_cache.page \notin unreliable =>
    \A i \in 1 .. stored : flash[Base + i - 1] = write_cache.data[i]

CacheInv == TypeOK /\ CacheStaysInPage /\ StoredIsThere

LEMMA Pagewise ==
  ASSUME NEW page \in Page, NEW x \in 0 .. PageLen - 1
  PROVE  /\ get_page_base_offset(page) + x \in Address
         /\ (get_page_base_offset(page) + x) \div PageLen = page
<1>1. page \in Nat /\ page <= Pages - 1 /\ PageLen \in Nat \ {0} /\ Pages \in Nat \ {0}
  BY SizeAssumption DEF Page
<1>2. page * PageLen + x \in Nat /\ page * PageLen + PageLen <= Pages * PageLen
  BY <1>1
<1>3. (page * PageLen + x) \div PageLen = page
  BY <1>1
<1>4. page * PageLen + x <= Pages * PageLen - 1 /\ Pages * PageLen \in Nat
  BY <1>1, <1>2
<1> QED
  BY <1>2, <1>3, <1>4 DEF get_page_base_offset, Address

LEMMA CommitStores ==
  ASSUME CacheInv, write_cache.page \notin unreliable, NEW commit \in write_cache_commit
  PROVE  \A i \in 1 .. StoredAfter(commit) : commit.flash[Base + i - 1] = write_cache.data[i]
<1> DEFINE data == write_cache.data
<1>1. /\ commit.done \in 0 .. Len(data)
      /\ commit.flash = Prefix(flash, Base, data, commit.done)
  BY Commit DEF CacheInv
<1>2. /\ write_cache.page \in Page /\ write_cache.pos \in Nat /\ data \in Seq(Written)
      /\ flash \in Flash /\ stored \in 0 .. Len(data) /\ Len(data) \in Nat
      /\ write_cache.pos + Len(data) <= PageLen
  BY DEF CacheInv, TypeOK, CacheStaysInPage, Flash, Byte
<1>3. Base \in Nat
  BY <1>2, PageBase DEF Base
<1>4. commit.flash = [a \in Address |-> IF a \in Base .. Base + commit.done - 1
                                        THEN data[a - Base + 1] ELSE flash[a]]
  <2> DEFINE n == commit.done
  <2>1. flash \in Flash /\ Base \in Nat /\ data \in Seq(Written) /\ n \in 0 .. Len(data)
    BY <1>1, <1>2, <1>3
  <2> HIDE DEF data, n
  <2>2. Prefix(flash, Base, data, n)
          = [a \in Address |-> IF a \in Base .. Base + n - 1
                               THEN data[a - Base + 1] ELSE flash[a]]
    BY <2>1, PrefixAt
  <2> QED
    BY <1>1, <2>2 DEF n
<1>5. \A i \in 1 .. Len(data) : Base + i - 1 \in Address
  <2> TAKE i \in 1 .. Len(data)
  <2>1. write_cache.pos + i - 1 \in 0 .. PageLen - 1
    BY <1>2, SizeAssumption
  <2>2. get_page_base_offset(write_cache.page) + (write_cache.pos + i - 1) \in Address
    BY <1>2, <2>1, Pagewise
  <2>3. get_page_base_offset(write_cache.page) \in Nat
    BY <1>2, PageBase
  <2>4. Base + i - 1 = get_page_base_offset(write_cache.page) + (write_cache.pos + i - 1)
    BY <1>2, <2>3 DEF Base
  <2> QED
    BY <2>2, <2>4
<1>6. \A i \in 1 .. stored : flash[Base + i - 1] = data[i]
  BY DEF CacheInv, StoredIsThere
<1>7. StoredAfter(commit) \in 0 .. Len(data)
      /\ \A i \in 1 .. StoredAfter(commit) : i \in 1 .. commit.done \/ i \in 1 .. stored
  <2>1. StoredAfter(commit) \in {0, stored, commit.done}
    BY DEF StoredAfter, Larger
  <2> QED
    BY <1>1, <1>2, <2>1
<1>8. ASSUME NEW i \in 1 .. Len(data), i \in 1 .. commit.done \/ i \in 1 .. stored
      PROVE  commit.flash[Base + i - 1] = data[i]
  <2>1. Base + i - 1 \in Address
    BY <1>5
  <2>2. CASE i \in 1 .. commit.done
    <3>1. Base + i - 1 \in Base .. Base + commit.done - 1 /\ (Base + i - 1) - Base + 1 = i
      BY <1>1, <1>2, <1>3, <2>2
    <3> QED
      BY <1>4, <2>1, <3>1
  <2>3. CASE i \notin 1 .. commit.done
    <3>1. Base + i - 1 \notin Base .. Base + commit.done - 1
      BY <1>1, <1>2, <1>3, <2>3
    <3> QED
      BY <1>4, <1>6, <1>8, <2>1, <2>3, <3>1
  <2> QED
    BY <2>2, <2>3
<1>9. \A i \in 1 .. StoredAfter(commit) : i \in 1 .. Len(data)
  BY <1>2, <1>7
<1> QED
  BY <1>7, <1>8, <1>9

(* One lemma per operation: it keeps the invariant.                        *)
Cache == [page : Page, pos : Nat, data : Seq(Written)]

LEMMA CacheInvFrom ==
  ASSUME flash' \in Flash, write_cache' \in Cache,
         Len(write_cache'.data) <= CacheLen,
         write_cache'.pos + Len(write_cache'.data) <= PageLen,
         writes' \in 0 .. MaxWrites, erases' \in 0 .. MaxErases,
         faults' \in 0 .. MaxFaults, losses' \in 0 .. MaxLosses,
         stored' \in 0 .. Len(write_cache'.data), unreliable' \subseteq Page
  PROVE  TypeOK' /\ CacheStaysInPage'
BY DEF TypeOK, CacheStaysInPage, Flash, Byte, Cache

LEMMA NothingStored == stored' = 0 => StoredIsThere'
BY DEF StoredIsThere

LEMMA FaultCounts ==
  ASSUME TypeOK, NEW failed, Fault(failed)
  PROVE  faults' \in 0 .. MaxFaults
BY BoundAssumption DEF Fault, TypeOK

LEMMA WriteContinuesInv ==
  ASSUME CacheInv, NEW r \in Ranges, WriteContinues(r[1], r[2], r[3])
  PROVE  CacheInv'
<1> DEFINE new == Filled(r[3])
           old == write_cache.data
<1>1. /\ r[1] \in Page /\ r[2] \in Nat /\ r[3] \in Nat \ {0} /\ r[2] + r[3] <= PageLen
  BY ValidRange DEF WriteContinues
<1>2. new \in Seq(Written) /\ Len(new) = r[3] /\ writes + 1 \in 0 .. MaxWrites
  BY <1>1, FilledIsWritten DEF WriteContinues, CacheInv
<1>3. /\ write_cache.page \in Page /\ write_cache.pos \in Nat /\ old \in Seq(Written)
      /\ stored \in 0 .. Len(old) /\ Len(old) \in Nat
  BY DEF CacheInv, TypeOK
<1>4. /\ r[2] = write_cache.pos + Len(old) /\ Len(old) + r[3] <= CacheLen
      /\ write_cache' = [write_cache EXCEPT !.data = old \o new]
      /\ flash' = flash /\ stored' = stored /\ unreliable' = unreliable
      /\ writes' = writes + 1 /\ erases' = erases /\ faults' = faults /\ losses' = losses
  BY DEF WriteContinues, write_cache_continues
<1> HIDE DEF new, old
<1>5. /\ old \o new \in Seq(Written) /\ Len(old \o new) = Len(old) + r[3]
      /\ \A i \in 1 .. Len(old) : (old \o new)[i] = old[i]
  <2>1. old \in Seq(Written) /\ new \in Seq(Written)
    BY <1>2, <1>3
  <2>2. /\ old \o new \in Seq(Written) /\ Len(old \o new) = Len(old) + Len(new)
        /\ \A i \in 1 .. Len(old) + Len(new) :
              (old \o new)[i] = IF i <= Len(old) THEN old[i] ELSE new[i - Len(old)]
    BY <2>1, ConcatProperties
  <2>3. Len(old) \in Nat /\ Len(new) \in Nat
    BY <2>1
  <2> QED
    BY <1>2, <2>2, <2>3
<1>6. /\ write_cache' \in Cache /\ write_cache'.data = old \o new
      /\ write_cache'.pos = write_cache.pos /\ write_cache'.page = write_cache.page
  BY <1>4, <1>5 DEF CacheInv, TypeOK, Cache
<1>7. TypeOK' /\ CacheStaysInPage'
  <2>1. flash' \in Flash /\ unreliable' \subseteq Page /\ erases' \in 0 .. MaxErases
        /\ faults' \in 0 .. MaxFaults /\ losses' \in 0 .. MaxLosses /\ writes' \in 0 .. MaxWrites
    BY <1>2, <1>4 DEF CacheInv, TypeOK, Flash, Byte
  <2>2. Len(write_cache'.data) <= CacheLen
    BY <1>4, <1>5, <1>6
  <2>3. write_cache'.pos + Len(write_cache'.data) <= PageLen
    BY <1>1, <1>3, <1>4, <1>5, <1>6
  <2>4. stored' \in 0 .. Len(write_cache'.data)
    BY <1>1, <1>3, <1>4, <1>5, <1>6
  <2> QED
    BY <1>6, <2>1, <2>2, <2>3, <2>4, CacheInvFrom
<1>8. StoredIsThere'
  <2>1. Base' = Base /\ write_cache'.page = write_cache.page
    BY <1>6 DEF Base
  <2>2. \A i \in 1 .. stored : write_cache'.data[i] = write_cache.data[i]
    BY <1>3, <1>5, <1>6 DEF old
  <2>3. write_cache.page \notin unreliable =>
          \A i \in 1 .. stored : flash[Base + i - 1] = write_cache.data[i]
    BY DEF CacheInv, StoredIsThere
  <2>4. flash' = flash /\ stored' = stored /\ unreliable' = unreliable
    BY <1>4
  <2>5. ASSUME write_cache'.page \notin unreliable', NEW i \in 1 .. stored'
        PROVE  flash'[Base' + i - 1] = write_cache'.data[i]
    <3>1. i \in 1 .. stored /\ write_cache.page \notin unreliable
      BY <2>1, <2>4, <2>5
    <3>2. flash[Base + i - 1] = write_cache.data[i] /\ write_cache'.data[i] = write_cache.data[i]
      BY <2>2, <2>3, <3>1
    <3> QED
      BY <2>1, <2>4, <3>2
  <2> QED
    BY <2>5 DEF StoredIsThere
<1> QED
  BY <1>7, <1>8 DEF CacheInv

LEMMA WriteRestartsInv ==
  ASSUME CacheInv, NEW r \in Ranges, WriteRestarts(r[1], r[2], r[3])
  PROVE  CacheInv'
<1> DEFINE new == Filled(r[3])
<1>1. /\ r[1] \in Page /\ r[2] \in Nat /\ r[3] \in Nat \ {0} /\ r[2] + r[3] <= PageLen
  BY ValidRange DEF WriteRestarts
<1>2. new \in Seq(Written) /\ Len(new) = r[3] /\ writes + 1 \in 0 .. MaxWrites
  BY <1>1, FilledIsWritten DEF WriteRestarts, CacheInv
<1>3. PICK commit \in write_cache_commit : flash' = commit.flash
  BY DEF WriteRestarts
<1>4. flash' \in Flash
  BY <1>3, Commit DEF CacheInv
<1>5. /\ write_cache' = [page |-> r[1], pos |-> r[2], data |-> new]
      /\ r[3] <= CacheLen /\ stored' = 0 /\ unreliable' = unreliable
      /\ writes' = writes + 1 /\ erases' = erases /\ faults' = faults /\ losses' = losses
  BY DEF WriteRestarts
<1>6. TypeOK' /\ CacheStaysInPage'
  <2>1. unreliable' \subseteq Page /\ erases' \in 0 .. MaxErases
        /\ faults' \in 0 .. MaxFaults /\ losses' \in 0 .. MaxLosses /\ writes' \in 0 .. MaxWrites
    BY <1>2, <1>5 DEF CacheInv, TypeOK
  <2>2. write_cache' \in Cache
    BY <1>1, <1>2, <1>5 DEF Cache
  <2>3. Len(write_cache'.data) <= CacheLen /\ stored' \in 0 .. Len(write_cache'.data)
        /\ write_cache'.pos + Len(write_cache'.data) <= PageLen
    BY <1>1, <1>2, <1>5
  <2> QED
    BY <1>4, <2>1, <2>2, <2>3, CacheInvFrom
<1> QED
  BY <1>5, <1>6, NothingStored DEF CacheInv

LEMMA WriteDirectlyInv ==
  ASSUME CacheInv, NEW r \in Ranges, WriteDirectly(r[1], r[2], r[3])
  PROVE  CacheInv'
<1> DEFINE new == Filled(r[3])
           off == get_page_base_offset(r[1]) + r[2]
<1>1. r[3] \in Nat /\ off \in Nat
  BY ValidRange DEF WriteDirectly
<1>2. new \in Seq(Written) /\ writes + 1 \in 0 .. MaxWrites
  BY <1>1, FilledIsWritten DEF WriteDirectly, CacheInv
<1>3. PICK commit \in write_cache_commit :
        /\ ~ commit.err
        /\ \E write \in nvram_flash_write(commit.flash, off, new) :
              flash' = write.flash /\ Fault(write.err)
        /\ write_cache' = CachedAfter(commit) /\ stored' = StoredAfter(commit)
  BY DEF WriteDirectly
<1>4. PICK write \in nvram_flash_write(commit.flash, off, new) :
        flash' = write.flash /\ Fault(write.err)
  BY <1>3
<1>5. commit.flash \in Flash
  BY Commit DEF CacheInv
<1>6. flash' \in Flash
  BY <1>1, <1>2, <1>4, <1>5, FlashWrite
<1>7. unreliable' = unreliable /\ writes' = writes + 1 /\ erases' = erases /\ losses' = losses
  BY DEF WriteDirectly
<1>8. stored' = 0
  BY <1>3 DEF StoredAfter
<1>9. TypeOK' /\ CacheStaysInPage'
  <2>1. unreliable' \subseteq Page /\ erases' \in 0 .. MaxErases
        /\ losses' \in 0 .. MaxLosses /\ writes' \in 0 .. MaxWrites
    BY <1>2, <1>7 DEF CacheInv, TypeOK
  <2>2. faults' \in 0 .. MaxFaults
    BY <1>4, FaultCounts DEF CacheInv
  <2>3. /\ write_cache' \in Cache /\ Len(write_cache'.data) <= CacheLen
        /\ write_cache'.pos + Len(write_cache'.data) <= PageLen
        /\ stored' \in 0 .. Len(write_cache'.data)
    BY <1>3, CacheAfterCommit DEF CacheInv, Cache
  <2> QED
    BY <1>6, <2>1, <2>2, <2>3, CacheInvFrom
<1> QED
  BY <1>8, <1>9, NothingStored DEF CacheInv

(* What only commits, with or without an error.                            *)
LEMMA CommitInv ==
  ASSUME CacheInv, NEW commit \in write_cache_commit,
         flash' = commit.flash, write_cache' = CachedAfter(commit),
         stored' = StoredAfter(commit), unreliable' = unreliable, writes' = writes,
         erases' = erases, losses' = losses, faults' \in 0 .. MaxFaults
  PROVE  CacheInv'
<1>1. commit.flash \in Flash
  BY Commit DEF CacheInv
<1>2. /\ write_cache' \in Cache /\ Len(write_cache'.data) <= CacheLen
      /\ write_cache'.pos + Len(write_cache'.data) <= PageLen
      /\ stored' \in 0 .. Len(write_cache'.data)
  BY CacheAfterCommit DEF CacheInv, Cache
<1>3. unreliable' \subseteq Page /\ erases' \in 0 .. MaxErases
      /\ losses' \in 0 .. MaxLosses /\ writes' \in 0 .. MaxWrites
  BY DEF CacheInv, TypeOK
<1>4. TypeOK' /\ CacheStaysInPage'
  BY <1>1, <1>2, <1>3, CacheInvFrom
<1>5. CASE ~ commit.err
  BY <1>4, <1>5, NothingStored DEF StoredAfter, CacheInv
<1>6. CASE commit.err
  <2>1. write_cache' = write_cache
    BY <1>6 DEF CachedAfter
  <2>2. Base' = Base
    BY <2>1 DEF Base
  <2>3. ASSUME write_cache.page \notin unreliable, NEW i \in 1 .. stored'
        PROVE  flash'[Base' + i - 1] = write_cache'.data[i]
    BY <2>1, <2>2, <2>3, CommitStores
  <2>4. StoredIsThere'
    BY <2>1, <2>3 DEF StoredIsThere
  <2> QED
    BY <1>4, <2>4 DEF CacheInv
<1> QED
  BY <1>5, <1>6

LEMMA WriteNotTakenInv ==
  ASSUME CacheInv, NEW r \in Ranges, WriteNotTaken(r[1], r[2], r[3])
  PROVE  CacheInv'
<1>1. PICK commit \in write_cache_commit :
        commit.err /\ Fault(TRUE) /\ flash' = commit.flash /\ stored' = StoredAfter(commit)
  BY DEF WriteNotTaken
<1>2. write_cache' = CachedAfter(commit)
  BY <1>1 DEF WriteNotTaken, CachedAfter
<1>3. faults' \in 0 .. MaxFaults
  BY <1>1, FaultCounts DEF CacheInv
<1>4. unreliable' = unreliable /\ writes' = writes /\ erases' = erases /\ losses' = losses
  BY DEF WriteNotTaken
<1> QED
  BY <1>1, <1>2, <1>3, <1>4, CommitInv

LEMMA ReadInv ==
  ASSUME CacheInv, NEW r \in Ranges, Read(r[1], r[2], r[3])
  PROVE  CacheInv'
<1>1. PICK commit \in write_cache_commit, failed \in BOOLEAN :
        /\ Fault(commit.err \/ failed) /\ flash' = commit.flash
        /\ write_cache' = CachedAfter(commit) /\ stored' = StoredAfter(commit)
  BY DEF Read
<1>2. faults' \in 0 .. MaxFaults
  BY <1>1, FaultCounts DEF CacheInv
<1>3. unreliable' = unreliable /\ writes' = writes /\ erases' = erases /\ losses' = losses
  BY DEF Read
<1> QED
  BY <1>1, <1>2, <1>3, CommitInv

LEMMA FlushInv ==
  ASSUME CacheInv, NEW failed \in BOOLEAN, Flush(failed)
  PROVE  CacheInv'
<1>1. PICK commit \in write_cache_commit :
        /\ Fault(failed) /\ flash' = commit.flash
        /\ write_cache' = CachedAfter(commit) /\ stored' = StoredAfter(commit)
  BY DEF Flush
<1>2. faults' \in 0 .. MaxFaults
  BY <1>1, FaultCounts DEF CacheInv
<1>3. unreliable' = unreliable /\ writes' = writes /\ erases' = erases /\ losses' = losses
  BY DEF Flush
<1> QED
  BY <1>1, <1>2, <1>3, CommitInv

LEMMA PowerLossInv ==
  ASSUME CacheInv, PowerLoss
  PROVE  CacheInv'
<1>1. /\ write_cache' = [page |-> 0, pos |-> 0, data |-> <<>>] /\ stored' = 0
      /\ losses < MaxLosses /\ losses' = losses + 1
      /\ flash' = flash /\ writes' = writes /\ erases' = erases /\ faults' = faults
      /\ unreliable' = unreliable
  BY DEF PowerLoss
<1>2. write_cache' \in Cache
  BY <1>1, SizeAssumption, EmptySeq DEF Cache, Page
<1>3. Len(write_cache'.data) = 0 /\ write_cache'.pos = 0
  BY <1>1
<1>4. /\ Len(write_cache'.data) <= CacheLen
      /\ write_cache'.pos + Len(write_cache'.data) <= PageLen
      /\ stored' \in 0 .. Len(write_cache'.data)
  BY <1>1, <1>3, SizeAssumption
<1>5. /\ flash' \in Flash /\ unreliable' \subseteq Page /\ erases' \in 0 .. MaxErases
      /\ faults' \in 0 .. MaxFaults /\ losses' \in 0 .. MaxLosses /\ writes' \in 0 .. MaxWrites
  BY <1>1, BoundAssumption DEF CacheInv, TypeOK, Flash, Byte
<1>6. TypeOK' /\ CacheStaysInPage'
  BY <1>2, <1>4, <1>5, CacheInvFrom
<1> QED
  BY <1>1, <1>6, NothingStored DEF CacheInv

(* An erasing touches its own page only.                                   *)
LEMMA ErasedAt ==
  ASSUME NEW f \in Flash, NEW page \in Page, NEW len \in 0 .. PageLen
  PROVE  /\ flash_area_erase(f, page, len) \in Flash
         /\ \A a \in Address : a \div PageLen # page => flash_area_erase(f, page, len)[a] = f[a]
<1>1. get_page_base_offset(page) \in Nat /\ PageLen \in Nat \ {0}
  BY PageBase, SizeAssumption
<1>2. \A a \in Address :
        /\ flash_area_erase(f, page, len)[a] \in Byte
        /\ a \notin get_page_base_offset(page) .. get_page_base_offset(page) + len - 1 =>
             flash_area_erase(f, page, len)[a] = f[a]
  BY DEF flash_area_erase, Flash, Byte
<1>3. ASSUME NEW a \in Address,
             a \in get_page_base_offset(page) .. get_page_base_offset(page) + len - 1
      PROVE  a \div PageLen = page
  <2> DEFINE x == a - get_page_base_offset(page)
  <2>1. x \in 0 .. PageLen - 1 /\ a = get_page_base_offset(page) + x
    BY <1>1, <1>3
  <2> HIDE DEF x
  <2> QED
    BY <2>1, Pagewise
<1>4. flash_area_erase(f, page, len) \in Flash
  BY <1>2 DEF flash_area_erase, Flash
<1> QED
  BY <1>2, <1>3, <1>4

LEMMA EraseInv ==
  ASSUME CacheInv, NEW page \in Page, Erase(page)
  PROVE  CacheInv'
<1>1. PICK commit \in write_cache_commit, len \in {n \in 0 .. PageLen : n % Block = 0} :
        /\ faults' = faults + (IF commit.err THEN 1 ELSE 0) + (IF len < PageLen THEN 1 ELSE 0)
        /\ faults' <= MaxFaults
        /\ flash' = flash_area_erase(commit.flash, page, len)
        /\ write_cache' = CachedAfter(commit)
        /\ stored' = StoredAfter(commit)
        /\ \/ unreliable' = unreliable \cup {page}
           \/ unreliable' = unreliable \ {page} /\ ~ commit.err
  <2>1. PICK commit \in write_cache_commit, len \in {n \in 0 .. PageLen : n % Block = 0} :
          LET failed == len < PageLen IN
          /\ (faults' = faults + (IF commit.err THEN 1 ELSE 0) + (IF failed THEN 1 ELSE 0))
          /\ faults' <= MaxFaults
          /\ flash' = flash_area_erase(commit.flash, page, len)
          /\ write_cache' = CachedAfter(commit)
          /\ stored' = StoredAfter(commit)
          /\ IF commit.err \/ failed
               THEN unreliable' = unreliable \cup {page}
               ELSE unreliable' = unreliable \ {page}
    BY Zenon DEF Erase
  <2> WITNESS commit \in write_cache_commit, len \in {n \in 0 .. PageLen : n % Block = 0}
  <2> QED
    BY <2>1
<1>2. len \in 0 .. PageLen
  OBVIOUS
<1>3. commit.flash \in Flash
  BY Commit DEF CacheInv
<1>4. /\ flash' \in Flash
      /\ \A a \in Address : a \div PageLen # page => flash'[a] = commit.flash[a]
  BY <1>1, <1>2, <1>3, ErasedAt
<1>5. /\ write_cache' \in Cache /\ Len(write_cache'.data) <= CacheLen
      /\ write_cache'.pos + Len(write_cache'.data) <= PageLen
      /\ write_cache'.page = write_cache.page
      /\ StoredAfter(commit) \in 0 .. Len(write_cache'.data)
  BY <1>1, CacheAfterCommit DEF CacheInv, Cache
<1>6. TypeOK' /\ CacheStaysInPage'
  <2>1. unreliable' \subseteq Page /\ erases' \in 0 .. MaxErases
        /\ losses' \in 0 .. MaxLosses /\ writes' \in 0 .. MaxWrites
    <3>1. erases < MaxErases /\ erases' = erases + 1 /\ UNCHANGED <<writes, losses>>
      BY Zenon DEF Erase
    <3> QED
      BY <1>1, <3>1, BoundAssumption DEF CacheInv, TypeOK
  <2>2. faults' \in 0 .. MaxFaults
    BY <1>1, BoundAssumption DEF CacheInv, TypeOK
  <2>3. stored' \in 0 .. Len(write_cache'.data)
    BY <1>1, <1>5
  <2> QED
    BY <1>4, <1>5, <2>1, <2>2, <2>3, CacheInvFrom
<1>7. CASE stored' = 0
  BY <1>6, <1>7, NothingStored DEF CacheInv
<1>8. CASE stored' # 0
  <2>1. unreliable' = unreliable \cup {page} /\ stored' = StoredAfter(commit) /\ commit.err
    BY <1>1, <1>8 DEF StoredAfter
  <2>2. write_cache' = write_cache
    BY <1>1, <2>1 DEF CachedAfter
  <2>3. Base' = Base
    BY <2>2 DEF Base
  <2>4. ASSUME write_cache.page \notin unreliable', NEW i \in 1 .. stored'
        PROVE  flash'[Base + i - 1] = write_cache.data[i]
    <3>0. write_cache.page \notin unreliable /\ write_cache.page # page
      BY <2>1, <2>4
    <3>1. commit.flash[Base + i - 1] = write_cache.data[i]
      BY <2>1, <3>0, CommitStores
    <3>2. Base + i - 1 \in Address /\ (Base + i - 1) \div PageLen = write_cache.page
      <4> DEFINE x == write_cache.pos + i - 1
      <4>1. /\ write_cache.page \in Page /\ write_cache.pos \in Nat
            /\ get_page_base_offset(write_cache.page) \in Nat
        BY PageBase DEF CacheInv, TypeOK
      <4>2. /\ x \in 0 .. PageLen - 1
            /\ Base + i - 1 = get_page_base_offset(write_cache.page) + x
        <5>1. i \in 1 .. Len(write_cache'.data) /\ Len(write_cache'.data) \in Nat
          BY <1>5, <2>1 DEF Cache
        <5> QED
          BY <1>5, <2>2, <4>1, <5>1, SizeAssumption DEF Base
      <4> HIDE DEF x
      <4> QED
        BY <4>1, <4>2, Pagewise
    <3> QED
      BY <1>4, <3>0, <3>1, <3>2
  <2>5. StoredIsThere'
    BY <2>1, <2>2, <2>3, <2>4 DEF StoredIsThere
  <2> QED
    BY <1>6, <2>5 DEF CacheInv
<1> QED
  BY <1>7, <1>8

LEMMA StutterInv == CacheInv /\ UNCHANGED vars => CacheInv'
BY DEF CacheInv, TypeOK, CacheStaysInPage, StoredIsThere, Base, vars, counters, history

LEMMA StepInv == CacheInv /\ [Next]_vars => CacheInv'
<1> SUFFICES ASSUME CacheInv, Next
             PROVE  CacheInv'
  BY StutterInv
<1>1. ASSUME NEW r \in Ranges,
             \/ WriteContinues(r[1], r[2], r[3])
             \/ WriteRestarts(r[1], r[2], r[3])
             \/ WriteDirectly(r[1], r[2], r[3])
             \/ WriteNotTaken(r[1], r[2], r[3])
             \/ Read(r[1], r[2], r[3])
      PROVE  CacheInv'
  BY <1>1, WriteContinuesInv, WriteRestartsInv, WriteDirectlyInv, WriteNotTakenInv, ReadInv
<1>2. ASSUME NEW page \in Page, Erase(page)
      PROVE  CacheInv'
  BY <1>2, EraseInv
<1>3. ASSUME NEW failed \in BOOLEAN, Flush(failed)
      PROVE  CacheInv'
  BY <1>3, FlushInv
<1>4. CASE PowerLoss
  BY <1>4, PowerLossInv
<1> QED
  BY <1>1, <1>2, <1>3, <1>4 DEF Next

LEMMA InitInv == Init => CacheInv
<1> SUFFICES ASSUME Init
             PROVE  CacheInv
  OBVIOUS
<1>1. /\ flash = [a \in Address |-> Erased] /\ stored = 0 /\ unreliable = {}
      /\ write_cache = [page |-> 0, pos |-> 0, data |-> <<>>]
      /\ writes = 0 /\ erases = 0 /\ faults = 0 /\ losses = 0
  BY DEF Init
<1>2. write_cache \in Cache
  BY <1>1, SizeAssumption, EmptySeq DEF Cache, Page
<1>3. Len(write_cache.data) = 0 /\ write_cache.pos = 0
  BY <1>1
<1>4. TypeOK
  BY <1>1, <1>2, <1>3, SizeAssumption, BoundAssumption DEF TypeOK, Cache
<1> QED
  BY <1>1, <1>3, <1>4, SizeAssumption DEF CacheInv, CacheStaysInPage, StoredIsThere

(* The invariant: types, the cached range in its page, and the bytes       *)
(* counted as stored where they belong.                                    *)
THEOREM Invariant == Spec => []CacheInv
<1>1. Init => CacheInv
  BY InitInv
<1>2. CacheInv /\ [Next]_vars => CacheInv'
  BY StepInv
<1> QED
  BY <1>1, <1>2, PTL DEF Spec

(* TypeOK holds for every size of flash, cache and block.                  *)
THEOREM TypeCorrect == Spec => []TypeOK
<1>1. CacheInv => TypeOK
  BY DEF CacheInv
<1> QED
  BY <1>1, Invariant, PTL

(* No sequence of writes, commits, failures and erasings lets the cached   *)
(* range reach beyond its page (write_cache_continues and the checks of    *)
(* zb_osif_nvram_write).                                                   *)
THEOREM StaysInPage == Spec => []CacheStaysInPage
<1>1. CacheInv => CacheStaysInPage
  BY DEF CacheInv
<1> QED
  BY <1>1, Invariant, PTL
-------------------------------------------------------------------------------
(* The cached flash implements the store of pages.  A run of bytes stands  *)
(* for what a write, or the cache, has for the flash.                      *)

QByte == [at : Nat, val : Written]
Placed(a, v) == [at |-> a, val |-> v]
Run(off, data) == [i \in 1 .. Len(data) |-> Placed(off + i - 1, data[i])]

LEMMA RunIs ==
  ASSUME NEW off \in Nat, NEW data \in Seq(Written)
  PROVE  /\ Run(off, data) \in Seq(QByte)
         /\ Len(Run(off, data)) = Len(data)
         /\ DOMAIN Run(off, data) = 1 .. Len(data)
         /\ \A i \in 1 .. Len(data) : Run(off, data)[i] = Placed(off + i - 1, data[i])
<1>1. \A i \in 1 .. Len(data) : Placed(off + i - 1, data[i]) \in QByte
  BY DEF Placed, QByte
<1>2. Len(data) \in Nat
  OBVIOUS
<1> QED
  BY <1>1, <1>2, IsASeq DEF Run

(* The last byte of q at an address is the one that counts.                *)
LEMMA AfterAt ==
  ASSUME NEW s, NEW q, NEW a \in Address, Store!PageOf(a) \notin unreliable,
         NEW i \in DOMAIN q, DOMAIN q = 1 .. Len(q), Len(q) \in Nat, q[i].at = a,
         \A j \in i + 1 .. Len(q) : q[j].at # a
  PROVE  Store!After(s, q)[a] = q[i].val
<1>1. ASSUME NEW n \in DOMAIN q, q[n].at = a, \A j \in n + 1 .. Len(q) : q[j].at # a
      PROVE  n = i
  BY <1>1
<1>2. Store!LastAt(q, a) = i
  BY <1>1 DEF Store!LastAt
<1>3. a \in Store!Address
  BY DEF Store!Address, Address
<1> QED
  BY <1>2, <1>3 DEF Store!After

LEMMA AfterElse ==
  ASSUME NEW s, NEW q, NEW a \in Address,
         Store!PageOf(a) \in unreliable \/ \A i \in DOMAIN q : q[i].at # a
  PROVE  Store!After(s, q)[a] = s[a]
BY DEF Store!After, Store!Address, Address

(* Two runs of the same bytes.                                             *)
LEMMA RunEqual ==
  ASSUME NEW r \in Seq(QByte), NEW off \in Nat, NEW data \in Seq(Written), Len(r) = Len(data),
         \A i \in 1 .. Len(data) : r[i] = Placed(off + i - 1, data[i])
  PROVE  r = Run(off, data)
<1> DEFINE q == Run(off, data)
<1>1. q \in Seq(QByte) /\ Len(q) = Len(data)
      /\ \A i \in 1 .. Len(data) : q[i] = Placed(off + i - 1, data[i])
  BY RunIs
<1> HIDE DEF q
<1>2. r = q
  BY <1>1, SeqEqual
<1> QED
  BY <1>2 DEF q

LEMMA SubRun ==
  ASSUME NEW off \in Nat, NEW data \in Seq(Written), NEW k \in 0 .. Len(data)
  PROVE  /\ SubSeq(Run(off, data), 1, k) = Run(off, SubSeq(data, 1, k))
         /\ SubSeq(Run(off, data), k + 1, Len(data)) = Run(off + k, SubSeq(data, k + 1, Len(data)))
         /\ SubSeq(data, 1, k) \in Seq(Written) /\ Len(SubSeq(data, 1, k)) = k
         /\ SubSeq(data, k + 1, Len(data)) \in Seq(Written)
         /\ Len(SubSeq(data, k + 1, Len(data))) = Len(data) - k
<1> DEFINE q == Run(off, data)
           first == SubSeq(data, 1, k)
           rest == SubSeq(data, k + 1, Len(data))
           qfirst == SubSeq(q, 1, k)
           qrest == SubSeq(q, k + 1, Len(data))
<1>1. q \in Seq(QByte) /\ Len(q) = Len(data)
      /\ \A i \in 1 .. Len(data) : q[i] = Placed(off + i - 1, data[i])
  BY RunIs
<1>2. Len(data) \in Nat /\ \A i \in 1 .. Len(data) : data[i] \in Written
  OBVIOUS
<1> HIDE DEF q
<1>3. \A i \in 1 .. Len(data) : q[i] \in QByte
  BY <1>1
<1>4. /\ first \in Seq(Written) /\ Len(first) = k
      /\ \A i \in 1 .. k : first[i] = data[i]
  BY <1>2, SubSeqProperties
<1>5. /\ rest \in Seq(Written) /\ Len(rest) = Len(data) - k
      /\ \A i \in 1 .. Len(data) - k : rest[i] = data[k + i]
  BY <1>2, SubSeqProperties
<1>6. /\ qfirst \in Seq(QByte) /\ Len(qfirst) = k
      /\ \A i \in 1 .. k : qfirst[i] = q[i]
  BY <1>2, <1>3, SubSeqProperties
<1>7. /\ qrest \in Seq(QByte) /\ Len(qrest) = Len(data) - k
      /\ \A i \in 1 .. Len(data) - k : qrest[i] = q[k + i]
  BY <1>2, <1>3, SubSeqProperties
<1> HIDE DEF first, rest, qfirst, qrest
<1>8. qfirst = Run(off, first)
  <2>1. \A i \in 1 .. Len(first) : qfirst[i] = Placed(off + i - 1, first[i])
    <3> SUFFICES ASSUME NEW i \in 1 .. Len(first)
                 PROVE  qfirst[i] = Placed(off + i - 1, first[i])
      OBVIOUS
    <3>1. i \in 1 .. k /\ i \in 1 .. Len(data)
      BY <1>2, <1>4
    <3> QED
      BY <1>1, <1>4, <1>6, <3>1
  <2>2. qfirst \in Seq(QByte) /\ first \in Seq(Written) /\ Len(qfirst) = Len(first)
    BY <1>4, <1>6
  <2> QED
    BY <2>1, <2>2, RunEqual
<1>9. qrest = Run(off + k, rest)
  <2>1. \A i \in 1 .. Len(rest) : qrest[i] = Placed((off + k) + i - 1, rest[i])
    <3> SUFFICES ASSUME NEW i \in 1 .. Len(rest)
                 PROVE  qrest[i] = Placed((off + k) + i - 1, rest[i])
      OBVIOUS
    <3>1. k + i \in 1 .. Len(data) /\ off + (k + i) - 1 = (off + k) + i - 1
      BY <1>2, <1>5
    <3>2. q[k + i] = Placed(off + (k + i) - 1, data[k + i])
      BY <1>1, <3>1
    <3>3. i \in 1 .. Len(data) - k
      BY <1>5
    <3> QED
      BY <1>5, <1>7, <3>1, <3>2, <3>3
  <2>2. off + k \in Nat
    BY <1>2
  <2>3. qrest \in Seq(QByte) /\ rest \in Seq(Written) /\ Len(qrest) = Len(rest)
    BY <1>5, <1>7
  <2> QED
    BY <2>1, <2>2, <2>3, RunEqual
<1> QED
  BY <1>4, <1>5, <1>8, <1>9 DEF q, first, rest, qfirst, qrest

LEMMA RunConcat ==
  ASSUME NEW off \in Nat, NEW d \in Seq(Written), NEW e \in Seq(Written)
  PROVE  Run(off, d) \o Run(off + Len(d), e) = Run(off, d \o e)
<1> DEFINE q == Run(off, d)
           r == Run(off + Len(d), e)
           de == d \o e
<1>0. Len(d) \in Nat /\ Len(e) \in Nat /\ off + Len(d) \in Nat
  OBVIOUS
<1>1. q \in Seq(QByte) /\ Len(q) = Len(d)
      /\ \A i \in 1 .. Len(d) : q[i] = Placed(off + i - 1, d[i])
  BY RunIs
<1>2. r \in Seq(QByte) /\ Len(r) = Len(e)
      /\ \A i \in 1 .. Len(e) : r[i] = Placed((off + Len(d)) + i - 1, e[i])
  BY <1>0, RunIs
<1> HIDE DEF q, r
<1>3. /\ q \o r \in Seq(QByte) /\ Len(q \o r) = Len(d) + Len(e)
      /\ \A i \in 1 .. Len(d) + Len(e) : (q \o r)[i] = IF i <= Len(d) THEN q[i] ELSE r[i - Len(d)]
  <2>1. q \in Seq(QByte) /\ r \in Seq(QByte)
    BY <1>1, <1>2
  <2>2. /\ q \o r \in Seq(QByte) /\ Len(q \o r) = Len(q) + Len(r)
        /\ \A i \in 1 .. Len(q) + Len(r) : (q \o r)[i] = IF i <= Len(q) THEN q[i] ELSE r[i - Len(q)]
    BY <2>1, ConcatProperties
  <2>3. Len(q) = Len(d) /\ Len(r) = Len(e)
    BY <1>1, <1>2
  <2> QED
    BY <2>2, <2>3
<1>4. /\ de \in Seq(Written) /\ Len(de) = Len(d) + Len(e)
      /\ \A i \in 1 .. Len(d) + Len(e) : de[i] = IF i <= Len(d) THEN d[i] ELSE e[i - Len(d)]
  BY ConcatProperties
<1> HIDE DEF de
<1>5. ASSUME NEW i \in 1 .. Len(de)
      PROVE  (q \o r)[i] = Placed(off + i - 1, de[i])
  <2>1. CASE i <= Len(d)
    <3>1. i \in 1 .. Len(d) /\ i \in 1 .. Len(d) + Len(e)
      BY <1>0, <1>4, <2>1
    <3> QED
      BY <1>1, <1>3, <1>4, <2>1, <3>1
  <2>2. CASE ~ (i <= Len(d))
    <3>1. i - Len(d) \in 1 .. Len(e) /\ i \in 1 .. Len(d) + Len(e)
          /\ (off + Len(d)) + (i - Len(d)) - 1 = off + i - 1
      BY <1>0, <1>4, <2>2
    <3>2. (q \o r)[i] = r[i - Len(d)] /\ de[i] = e[i - Len(d)]
      BY <1>3, <1>4, <2>2, <3>1
    <3> QED
      BY <1>2, <3>1, <3>2
  <2> QED
    BY <2>1, <2>2
<1>6. q \o r = Run(off, de)
  BY <1>3, <1>4, <1>5, RunEqual
<1> QED
  BY <1>6 DEF q, r, de

Masked(f) == [a \in Address |-> IF Reliable(a) THEN f[a] ELSE "unreliable"]
In(a, off, len) == a \in off .. off + len - 1

LEMMA AfterIs ==
  ASSUME NEW s, NEW q
  PROVE  Store!After(s, q) = [a \in Address |-> Store!After(s, q)[a]]
BY DEF Store!After, Store!Address, Address

LEMMA RunAt ==
  ASSUME NEW off \in Nat, NEW data \in Seq(Written), NEW a \in Address
  PROVE  /\ In(a, off, Len(data)) =>
              a - off + 1 \in 1 .. Len(data)
              /\ Run(off, data)[a - off + 1] = Placed(a, data[a - off + 1])
         /\ \A i \in 1 .. Len(data) : Run(off, data)[i].at = a => i = a - off + 1 /\ In(a, off, Len(data))
<1>1. a \in Int /\ Len(data) \in Nat
  BY SizeAssumption DEF Address
<1>2. \A i \in 1 .. Len(data) : Run(off, data)[i] = Placed(off + i - 1, data[i])
  BY RunIs
<1>3. ASSUME In(a, off, Len(data))
      PROVE  a - off + 1 \in 1 .. Len(data)
             /\ Run(off, data)[a - off + 1] = Placed(a, data[a - off + 1])
  <2>1. a - off + 1 \in 1 .. Len(data) /\ off + (a - off + 1) - 1 = a
    BY <1>1, <1>3 DEF In
  <2> QED
    BY <1>2, <2>1
<1>4. ASSUME NEW i \in 1 .. Len(data), Run(off, data)[i].at = a
      PROVE  i = a - off + 1 /\ In(a, off, Len(data))
  <2>1. Run(off, data)[i] = Placed(off + i - 1, data[i])
    BY <1>2
  <2>2. Placed(off + i - 1, data[i]).at = off + i - 1
    BY DEF Placed
  <2>3. off + i - 1 = a
    BY <1>4, <2>1, <2>2
  <2> QED
    BY <1>1, <2>3 DEF In
<1> QED
  BY <1>3, <1>4

(* The bytes of a run that somebody may rely on.                           *)
LEMMA AfterRun ==
  ASSUME NEW s, NEW off \in Nat, NEW data \in Seq(Written), NEW a \in Address
  PROVE  Store!After(s, Run(off, data))[a]
           = IF Reliable(a) /\ In(a, off, Len(data)) THEN data[a - off + 1] ELSE s[a]
<1> DEFINE q == Run(off, data)
           n == a - off + 1
<1>1. DOMAIN q = 1 .. Len(q) /\ Len(q) \in Nat /\ Len(q) = Len(data)
  BY RunIs
<1>2. Store!PageOf(a) \notin unreliable <=> Reliable(a)
  BY DEF Store!PageOf, Reliable
<1>3. CASE Reliable(a) /\ In(a, off, Len(data))
  <2>1. n \in DOMAIN q /\ q[n] = Placed(a, data[n])
    BY <1>1, <1>3, RunAt
  <2>2. q[n].at = a /\ q[n].val = data[n]
    BY <2>1 DEF Placed
  <2>3. \A j \in n + 1 .. Len(q) : q[j].at # a
    <3> SUFFICES ASSUME NEW j \in n + 1 .. Len(q), q[j].at = a
                 PROVE  FALSE
      OBVIOUS
    <3>1. n \in Nat /\ n >= 1
      BY <1>1, <2>1
    <3>2. j \in 1 .. Len(data) /\ j # n
      BY <1>1, <3>1
    <3>3. \A i \in 1 .. Len(data) :
            Run(off, data)[i].at = a => i = a - off + 1 /\ In(a, off, Len(data))
      BY RunAt
    <3> QED
      BY <3>2, <3>3
  <2> HIDE DEF q, n
  <2>4. Store!After(s, q)[a] = q[n].val
    BY <1>1, <1>2, <1>3, <2>1, <2>2, <2>3, AfterAt
  <2> QED
    BY <1>3, <2>2, <2>4 DEF q, n
<1>4. CASE ~ (Reliable(a) /\ In(a, off, Len(data)))
  <2>1. Store!PageOf(a) \in unreliable \/ \A i \in DOMAIN q : q[i].at # a
    BY <1>1, <1>2, <1>4, RunAt
  <2> QED
    BY <1>4, <2>1, AfterElse
<1> QED
  BY <1>3, <1>4

LEMMA AfterTwoRuns ==
  ASSUME NEW s, NEW off \in Nat, NEW data \in Seq(Written), NEW off2 \in Nat,
         NEW data2 \in Seq(Written), NEW a \in Address
  PROVE  Store!After(s, Run(off, data) \o Run(off2, data2))[a]
           = IF Reliable(a) /\ In(a, off2, Len(data2)) THEN data2[a - off2 + 1]
             ELSE Store!After(s, Run(off, data))[a]
<1> DEFINE q == Run(off, data)
           r == Run(off2, data2)
           b == q \o r
           k == Len(data)
           m == Len(data2)
<1>1. q \in Seq(QByte) /\ Len(q) = k /\ r \in Seq(QByte) /\ Len(r) = m
      /\ k \in Nat /\ m \in Nat
  BY RunIs
<1>2. Store!PageOf(a) \notin unreliable <=> Reliable(a)
  BY DEF Store!PageOf, Reliable
<1>3. /\ In(a, off, k) => a - off + 1 \in 1 .. k /\ q[a - off + 1] = Placed(a, data[a - off + 1])
      /\ \A i \in 1 .. k : q[i].at = a => i = a - off + 1 /\ In(a, off, k)
      /\ In(a, off2, m) => a - off2 + 1 \in 1 .. m /\ r[a - off2 + 1] = Placed(a, data2[a - off2 + 1])
      /\ \A i \in 1 .. m : r[i].at = a => i = a - off2 + 1 /\ In(a, off2, m)
  BY RunAt
<1>4. Store!After(s, q)[a] = IF Reliable(a) /\ In(a, off, k) THEN data[a - off + 1] ELSE s[a]
  BY AfterRun
<1> HIDE DEF q, r, k, m
<1>5. /\ b \in Seq(QByte) /\ Len(b) = k + m /\ DOMAIN b = 1 .. k + m
      /\ \A i \in 1 .. k + m : b[i] = IF i <= k THEN q[i] ELSE r[i - k]
  <2>1. b \in Seq(QByte) /\ Len(b) = Len(q) + Len(r)
        /\ \A i \in 1 .. Len(q) + Len(r) : b[i] = IF i <= Len(q) THEN q[i] ELSE r[i - Len(q)]
    BY <1>1, ConcatProperties
  <2> HIDE DEF b
  <2> QED
    BY <1>1, <2>1
<1> HIDE DEF b
<1>0. DOMAIN b = 1 .. Len(b) /\ Len(b) \in Nat /\ DOMAIN b = 1 .. k + m
  BY <1>1, <1>5
<1>6. \A i \in 1 .. k + m : b[i].at = a =>
         \/ i <= k /\ i = a - off + 1 /\ In(a, off, k)
         \/ i > k /\ i - k = a - off2 + 1 /\ In(a, off2, m)
  <2> SUFFICES ASSUME NEW i \in 1 .. k + m, b[i].at = a
               PROVE  \/ i <= k /\ i = a - off + 1 /\ In(a, off, k)
                      \/ i > k /\ i - k = a - off2 + 1 /\ In(a, off2, m)
    OBVIOUS
  <2>1. CASE i <= k
    <3>1. i \in 1 .. k /\ b[i] = q[i]
      BY <1>1, <1>5, <2>1
    <3> QED
      BY <1>3, <2>1, <3>1
  <2>2. CASE i > k
    <3>1. i - k \in 1 .. m /\ ~ (i <= k)
      BY <1>1, <2>2
    <3>2. b[i] = r[i - k]
      BY <1>5, <3>1
    <3> QED
      BY <1>3, <2>2, <3>1, <3>2
  <2> QED
    BY <1>1, <2>1, <2>2
<1>7. a \in Int
  BY SizeAssumption DEF Address
<1>8. CASE Reliable(a) /\ In(a, off2, m)
  <2> DEFINE n == k + (a - off2 + 1)
  <2>1. a - off2 + 1 \in 1 .. m /\ r[a - off2 + 1] = Placed(a, data2[a - off2 + 1])
    BY <1>3, <1>8
  <2>2. n \in 1 .. k + m /\ ~ (n <= k) /\ n - k = a - off2 + 1
    BY <1>1, <1>7, <2>1
  <2> HIDE DEF n
  <2>3. b[n] = Placed(a, data2[a - off2 + 1])
    BY <1>5, <2>1, <2>2
  <2>4. b[n].at = a /\ b[n].val = data2[a - off2 + 1]
    BY <2>3 DEF Placed
  <2>5. \A j \in n + 1 .. Len(b) : b[j].at # a
    <3> SUFFICES ASSUME NEW j \in n + 1 .. Len(b), b[j].at = a
                 PROVE  FALSE
      OBVIOUS
    <3>1. j \in 1 .. k + m /\ j > k /\ j - k # n - k
      BY <1>1, <1>5, <2>2
    <3> QED
      BY <1>1, <1>6, <2>2, <3>1
  <2>6. Store!After(s, b)[a] = b[n].val
    <3>1. n \in DOMAIN b /\ Store!PageOf(a) \notin unreliable
      BY <1>0, <1>2, <1>8, <2>2
    <3>2. DOMAIN b = 1 .. Len(b) /\ Len(b) \in Nat
      BY <1>0
    <3> QED
      BY <3>1, <3>2,  <2>4, <2>5, AfterAt
  <2> QED
    BY <1>8, <2>4, <2>6 DEF b, q, r, m
<1>9. CASE Reliable(a) /\ ~ In(a, off2, m) /\ In(a, off, k)
  <2> DEFINE n == a - off + 1
  <2>1. n \in 1 .. k /\ q[n] = Placed(a, data[n])
    BY <1>3, <1>9
  <2> HIDE DEF n
  <2>2. n \in 1 .. k + m /\ b[n] = Placed(a, data[n])
    BY <1>1, <1>5, <2>1
  <2>3. b[n].at = a /\ b[n].val = data[n]
    BY <2>2 DEF Placed
  <2>4. \A j \in n + 1 .. Len(b) : b[j].at # a
    <3> SUFFICES ASSUME NEW j \in n + 1 .. Len(b), b[j].at = a
                 PROVE  FALSE
      OBVIOUS
    <3>1. j \in 1 .. k + m /\ j # n
      BY <1>1, <1>5, <2>1
    <3> QED
      BY <1>6, <1>9, <3>1 DEF n
  <2>5. Store!After(s, b)[a] = b[n].val
    <3>1. n \in DOMAIN b /\ Store!PageOf(a) \notin unreliable
      BY <1>0, <1>2, <1>9, <2>2
    <3>2. DOMAIN b = 1 .. Len(b) /\ Len(b) \in Nat
      BY <1>0
    <3> QED
      BY <3>1, <3>2,  <2>3, <2>4, AfterAt
  <2> QED
    BY <1>4, <1>9, <2>3, <2>5 DEF b, q, r, m, n
<1>10. CASE ~ Reliable(a) \/ (~ In(a, off2, m) /\ ~ In(a, off, k))
  <2>1. Store!PageOf(a) \in unreliable \/ \A i \in DOMAIN b : b[i].at # a
    BY <1>2, <1>5, <1>6, <1>10
  <2>2. Store!After(s, b)[a] = s[a]
    BY <2>1, AfterElse
  <2>3. Store!After(s, q)[a] = s[a]
    BY <1>4, <1>10
  <2> QED
    BY <1>10, <2>2, <2>3 DEF b, q, r, m
<1> QED
  BY <1>8, <1>9, <1>10 DEF m

(* A plain write is a write to the store of its bytes.                     *)
LEMMA MaskedWrite ==
  ASSUME NEW f \in Flash, NEW off \in Nat, NEW data \in Seq(Written), NEW k \in 0 .. Len(data)
  PROVE  Masked(Prefix(f, off, data, k)) = Store!After(Masked(f), Run(off, SubSeq(data, 1, k)))
<1> DEFINE d == SubSeq(data, 1, k)
           g == Prefix(f, off, data, k)
           h == Store!After(Masked(f), Run(off, d))
<1>1. d \in Seq(Written) /\ Len(d) = k /\ \A i \in 1 .. k : d[i] = data[i]
  BY SubSeqProperties
<1>2. g = [a \in Address |-> IF a \in off .. off + k - 1 THEN data[a - off + 1] ELSE f[a]]
  BY PrefixAt
<1> HIDE DEF d, g
<1>3. ASSUME NEW a \in Address
      PROVE  Masked(g)[a] = h[a]
  <2>1. h[a] = IF Reliable(a) /\ In(a, off, Len(d)) THEN d[a - off + 1] ELSE Masked(f)[a]
    BY <1>1, AfterRun
  <2>2. Masked(f)[a] = (IF Reliable(a) THEN f[a] ELSE "unreliable")
        /\ Masked(g)[a] = (IF Reliable(a) THEN g[a] ELSE "unreliable")
    BY DEF Masked
  <2>3. In(a, off, k) => a - off + 1 \in 1 .. k
    BY SizeAssumption DEF Address, In
  <2> HIDE DEF h
  <2> QED
    BY <1>1, <1>2, <2>1, <2>2, <2>3 DEF In
<1>4. h = [a \in Address |-> h[a]]
  BY AfterIs
<1>5. Masked(g) = [a \in Address |-> Masked(g)[a]]
  BY DEF Masked
<1> HIDE DEF h
<1>6. Masked(g) = h
  BY <1>3, <1>4, <1>5
<1> QED
  BY <1>6 DEF g, h, d

Offset(c) == get_page_base_offset(c.page) + c.pos
Waiting(c, s) == Run(Offset(c) + s, SubSeq(c.data, s + 1, Len(c.data)))

LEMMA WaitingIs ==
  ASSUME NEW c \in Cache, NEW s \in 0 .. Len(c.data)
  PROVE  /\ Offset(c) \in Nat /\ c.data \in Seq(Written) /\ Len(c.data) \in Nat
         /\ SubSeq(c.data, s + 1, Len(c.data)) \in Seq(Written)
         /\ Len(SubSeq(c.data, s + 1, Len(c.data))) = Len(c.data) - s
         /\ Waiting(c, s) \in Seq(QByte) /\ Len(Waiting(c, s)) = Len(c.data) - s
         /\ Waiting(c, s)
              = [i \in 1 .. Len(c.data) - s |->
                   [at |-> get_page_base_offset(c.page) + c.pos + s + i - 1,
                    val |-> c.data[s + i]]]
<1> DEFINE d == SubSeq(c.data, s + 1, Len(c.data))
<1>1. c.page \in Page /\ c.pos \in Nat /\ c.data \in Seq(Written) /\ Len(c.data) \in Nat
  BY DEF Cache
<1>2. Offset(c) \in Nat
  BY <1>1, PageBase DEF Offset
<1>3. \A i \in s + 1 .. Len(c.data) : c.data[i] \in Written
  BY <1>1
<1>4. /\ d \in Seq(Written) /\ Len(d) = Len(c.data) - s
      /\ \A i \in 1 .. Len(c.data) - s : d[i] = c.data[s + i]
  BY <1>1, <1>3, SubSeqProperties
<1> HIDE DEF d
<1>5. Offset(c) + s \in Nat
  BY <1>2
<1>6. Run(Offset(c) + s, d) \in Seq(QByte) /\ Len(Run(Offset(c) + s, d)) = Len(c.data) - s
  BY <1>4, <1>5, RunIs
<1>7. Run(Offset(c) + s, d)
        = [i \in 1 .. Len(c.data) - s |->
             [at |-> get_page_base_offset(c.page) + c.pos + s + i - 1, val |-> c.data[s + i]]]
  BY <1>4 DEF Run, Placed, Offset
<1> QED
  BY <1>1, <1>2, <1>4, <1>6, <1>7 DEF Waiting, d

LEMMA Mapped ==
  ASSUME CacheInv
  PROVE  /\ write_cache \in Cache /\ stored \in 0 .. Len(write_cache.data)
         /\ waiting = Waiting(write_cache, stored)
         /\ waiting \in Seq(QByte) /\ Len(waiting) = Len(write_cache.data) - stored
         /\ durable = Masked(flash) /\ flash \in Flash
<1>1. write_cache \in Cache /\ stored \in 0 .. Len(write_cache.data) /\ flash \in Flash
  BY DEF CacheInv, TypeOK, Cache, Flash, Byte
<1>2. waiting = Waiting(write_cache, stored)
  BY <1>1, WaitingIs DEF waiting
<1>3. durable = Masked(flash)
  BY DEF durable, Masked
<1> QED
  BY <1>1, <1>2, <1>3, WaitingIs

(* A commit brings the first bytes that wait to the store, all of them     *)
(* unless it reports an error.                                             *)
Committed(commit) ==
  (IF commit.err THEN StoredAfter(commit) ELSE Len(write_cache.data)) - stored

LEMMA CommitImplements ==
  ASSUME CacheInv, NEW commit \in write_cache_commit
  PROVE  LET k == Committed(commit) IN
         /\ k \in 0 .. Len(waiting)
         /\ ~ commit.err => k = Len(waiting)
         /\ Masked(commit.flash) = Store!After(durable, SubSeq(waiting, 1, k))
         /\ Waiting(CachedAfter(commit), StoredAfter(commit))
              = SubSeq(waiting, k + 1, Len(waiting))
<1> DEFINE data == write_cache.data
           k == Committed(commit)
           s == stored
           n == stored + k
           rest == SubSeq(data, s + 1, Len(data))
           moved == SubSeq(rest, 1, k)
<1>1. /\ write_cache \in Cache /\ s \in 0 .. Len(data) /\ waiting = Waiting(write_cache, s)
      /\ waiting \in Seq(QByte) /\ Len(waiting) = Len(data) - s
      /\ durable = Masked(flash) /\ flash \in Flash
  BY Mapped
<1>2. /\ Offset(write_cache) \in Nat /\ data \in Seq(Written) /\ Len(data) \in Nat
      /\ rest \in Seq(Written) /\ Len(rest) = Len(data) - s
  BY <1>1, WaitingIs
<1>3. /\ commit.done \in 0 .. Len(data) /\ commit.err \in BOOLEAN
      /\ ~ commit.err => commit.done = Len(data)
      /\ commit.flash = Prefix(flash, Base, data, commit.done)
  BY Commit DEF CacheInv
<1>4. /\ k \in 0 .. Len(data) - s /\ (~ commit.err => k = Len(data) - s)
      /\ n \in s .. Len(data) /\ n \in commit.done .. Len(data)
      /\ n = s \/ n = commit.done
      /\ commit.err => StoredAfter(commit) = n
      /\ ~ commit.err => n = Len(data)
  <2>1. /\ s \in 0 .. Len(data) /\ Len(data) \in Nat /\ commit.done \in 0 .. Len(data)
        /\ commit.err \in BOOLEAN /\ (~ commit.err => commit.done = Len(data))
    BY <1>1, <1>2, <1>3
  <2>2. k = (IF commit.err THEN StoredAfter(commit) ELSE Len(data)) - s
    BY DEF Committed
  <2>3. commit.err => StoredAfter(commit) = IF s < commit.done THEN commit.done ELSE s
    BY DEF StoredAfter, Larger
  <2> HIDE DEF data, k
  <2>4. CASE commit.err
    <3>1. /\ StoredAfter(commit) \in s .. Len(data) /\ StoredAfter(commit) \in commit.done .. Len(data)
          /\ StoredAfter(commit) \in {s, commit.done}
      <4>0. s \in Nat /\ commit.done \in Nat /\ s <= Len(data) /\ commit.done <= Len(data)
        BY ONLY <2>1
      <4>1. CASE s < commit.done
        <5>1. StoredAfter(commit) = commit.done
          BY ONLY <2>3, <2>4, <4>1
        <5> QED
          BY ONLY <2>1, <4>0, <4>1, <5>1
      <4>2. CASE ~ (s < commit.done)
        <5>1. StoredAfter(commit) = s
          BY ONLY <2>3, <2>4, <4>2
        <5> QED
          BY ONLY <2>1, <4>0, <4>2, <5>1
      <4> QED
        BY ONLY <4>1, <4>2
    <3>2. /\ StoredAfter(commit) \in Nat /\ s \in Nat /\ k = StoredAfter(commit) - s
          /\ s <= StoredAfter(commit) /\ StoredAfter(commit) <= Len(data)
      BY ONLY <2>1, <2>2, <2>4, <3>1
    <3>3. n = StoredAfter(commit)
      BY ONLY <3>2
    <3>4. k \in 0 .. Len(data) - s
      BY ONLY <2>1, <3>2
    <3> HIDE DEF n
    <3> QED
      BY ONLY <2>4, <3>1, <3>3, <3>4
  <2>5. CASE ~ commit.err
    BY ONLY <2>1, <2>2, <2>5
  <2> QED
    BY <2>4, <2>5
<1> HIDE DEF k
<1>5. Masked(commit.flash) = Store!After(durable, Run(Offset(write_cache) + s, moved))
  <2> DEFINE B == Offset(write_cache)
             done == commit.done
             h == Store!After(durable, Run(B + s, moved))
  <2>1. /\ moved \in Seq(Written) /\ Len(moved) = k
        /\ \A i \in 1 .. k : moved[i] = data[s + i]
    <3>1. /\ moved \in Seq(Written) /\ Len(moved) = k /\ \A i \in 1 .. k : moved[i] = rest[i]
      <4> HIDE DEF rest
      <4>1. \A i \in 1 .. k : rest[i] \in Written
        BY <1>2, <1>4
      <4> QED
        BY <1>4, <4>1, SubSeqProperties
    <3>2. \A i \in 1 .. Len(data) - s : rest[i] = data[s + i]
      <4>1. \A i \in s + 1 .. Len(data) : data[i] \in Written
        BY <1>1, <1>2
      <4> QED
        BY <1>1, <1>2, <4>1, SubSeqProperties
    <3>3. \A i \in 1 .. k : i \in 1 .. Len(data) - s
      BY <1>1, <1>2, <1>4
    <3> HIDE DEF rest, moved
    <3> QED
      BY <3>1, <3>2, <3>3
  <2> HIDE DEF moved
  <2>2. B \in Nat /\ Base = B
    BY <1>2 DEF Base, Offset
  <2>3. commit.flash = [a \in Address |-> IF a \in B .. B + done - 1
                                          THEN data[a - B + 1] ELSE flash[a]]
    <3> HIDE DEF B, data
    <3>1. done \in 0 .. Len(data)
      BY <1>3
    <3> HIDE DEF done
    <3>2. Prefix(flash, B, data, done)
            = [a \in Address |-> IF a \in B .. B + done - 1 THEN data[a - B + 1] ELSE flash[a]]
      BY <1>1, <1>2, <2>2, <3>1, PrefixAt
    <3> QED
      BY <1>3, <2>2, <3>2 DEF done
  <2>4. ASSUME NEW i \in 1 .. s, Reliable(B + i - 1)
        PROVE  flash[B + i - 1] = data[i]
    <3>1. /\ write_cache.page \in Page /\ write_cache.pos \in Nat
          /\ write_cache.pos + Len(data) <= PageLen
      BY <1>1 DEF Cache, CacheInv, CacheStaysInPage
    <3>2. write_cache.pos + i - 1 \in 0 .. PageLen - 1
      BY <1>1, <1>2, <3>1, SizeAssumption
    <3>3. get_page_base_offset(write_cache.page) \in Nat
      BY <3>1, PageBase
    <3>4. (get_page_base_offset(write_cache.page) + (write_cache.pos + i - 1)) \div PageLen
            = write_cache.page
      BY <3>1, <3>2, Pagewise
    <3>5. B + i - 1 = get_page_base_offset(write_cache.page) + (write_cache.pos + i - 1)
      BY <3>1, <3>3 DEF Offset
    <3>6. write_cache.page \notin unreliable
      BY <2>4, <3>4, <3>5 DEF Reliable
    <3> QED
      BY <2>2, <3>6 DEF CacheInv, StoredIsThere
  <2> HIDE DEF B
  <2>5. ASSUME NEW a \in Address
        PROVE  Masked(commit.flash)[a] = h[a]
    <3>0. a \in Int
      BY SizeAssumption DEF Address
    <3>1. h[a] = IF Reliable(a) /\ In(a, B + s, Len(moved)) THEN moved[a - (B + s) + 1]
                 ELSE durable[a]
      <4>1. B + s \in Nat
        BY <1>1, <2>2
      <4> QED
        BY <2>1, <4>1, AfterRun
    <3>2. Masked(commit.flash)[a] = (IF Reliable(a) THEN commit.flash[a] ELSE "unreliable")
          /\ durable[a] = (IF Reliable(a) THEN flash[a] ELSE "unreliable")
      BY <1>1 DEF Masked
    <3> HIDE DEF h
    <3>3. CASE Reliable(a) /\ In(a, B + s, k)
      <4>1. a - (B + s) + 1 \in 1 .. k /\ s + (a - (B + s) + 1) = a - B + 1
            /\ a - B + 1 \in s + 1 .. n
        BY <1>1, <1>2, <1>4, <2>2, <3>0, <3>3 DEF In
      <4>2. h[a] = data[a - B + 1]
        BY <2>1, <3>1, <3>3, <4>1
      <4>3. n = done /\ a \in B .. B + done - 1
        BY <1>1, <1>3, <1>4, <2>2, <3>0, <4>1
      <4> QED
        BY <2>3, <3>2, <3>3, <4>2, <4>3
    <3>4. CASE Reliable(a) /\ ~ In(a, B + s, k)
      <4>1. h[a] = flash[a]
        BY <2>1, <3>1, <3>2, <3>4
      <4>2. CASE a \in B .. B + done - 1
        <5>1. a - B + 1 \in 1 .. s /\ B + (a - B + 1) - 1 = a
          BY <1>1, <1>3, <1>4, <2>2, <3>0, <3>4, <4>2 DEF In
        <5>2. flash[a] = data[a - B + 1]
          BY <2>4, <3>4, <5>1
        <5> QED
          BY <2>3, <3>2, <3>4, <4>1, <4>2, <5>2
      <4>3. CASE a \notin B .. B + done - 1
        BY <2>3, <3>2, <3>4, <4>1, <4>3
      <4> QED
        BY <4>2, <4>3
    <3>5. CASE ~ Reliable(a)
      BY <3>1, <3>2, <3>5
    <3> QED
      BY <3>3, <3>4, <3>5
  <2>6. h = [a \in Address |-> h[a]]
    BY AfterIs
  <2>7. Masked(commit.flash) = [a \in Address |-> Masked(commit.flash)[a]]
    BY DEF Masked
  <2> HIDE DEF h
  <2>8. Masked(commit.flash) = h
    BY <2>5, <2>6, <2>7
  <2> QED
    BY <2>8 DEF h, B
<1>6. SubSeq(waiting, 1, k) = Run(Offset(write_cache) + s, moved)
  <2> HIDE DEF rest
  <2>1. Offset(write_cache) + s \in Nat /\ k \in 0 .. Len(rest)
    BY <1>1, <1>2, <1>4
  <2>2. SubSeq(Run(Offset(write_cache) + s, rest), 1, k)
          = Run(Offset(write_cache) + s, SubSeq(rest, 1, k))
    BY <1>2, <2>1, SubRun
  <2> QED
    BY <1>1, <2>2 DEF Waiting, rest
<1>7. CASE commit.err
  <2>1. CachedAfter(commit) = write_cache /\ StoredAfter(commit) = n
    BY <1>4, <1>7 DEF CachedAfter
  <2>2. Waiting(write_cache, n) = SubSeq(waiting, k + 1, Len(waiting))
    <3> DEFINE B == Offset(write_cache)
    <3>0. B \in Nat /\ B + s \in Nat /\ k \in 0 .. Len(rest)
      BY <1>1, <1>2, <1>4
    <3>1. SubSeq(Run(B + s, rest), k + 1, Len(rest)) = Run((B + s) + k, SubSeq(rest, k + 1, Len(rest)))
      <4>1. rest \in Seq(Written)
        BY <1>2
      <4> HIDE DEF B, rest, k, s
      <4> QED
        BY ONLY <3>0, <4>1, SubRun
    <3>2. SubSeq(rest, k + 1, Len(rest)) = SubSeq(data, n + 1, Len(data))
      <4> DEFINE u == SubSeq(rest, k + 1, Len(rest))
                 v == SubSeq(data, n + 1, Len(data))
      <4>1. \A i \in 1 .. Len(data) - s : rest[i] = data[s + i]
        <5>1. \A i \in s + 1 .. Len(data) : data[i] \in Written
          BY <1>1, <1>2
        <5> QED
          BY <1>1, <1>2, <5>1, SubSeqProperties
      <4> HIDE DEF rest
      <4>2. /\ u \in Seq(Written) /\ Len(u) = Len(rest) - k
            /\ \A i \in 1 .. Len(rest) - k : u[i] = rest[k + i]
        <5>1. \A i \in k + 1 .. Len(rest) : rest[i] \in Written
          BY <1>2, <3>0
        <5> QED
          BY <1>2, <3>0, <5>1, SubSeqProperties
      <4>3. /\ v \in Seq(Written) /\ Len(v) = Len(data) - n
            /\ \A i \in 1 .. Len(data) - n : v[i] = data[n + i]
        <5>1. \A i \in n + 1 .. Len(data) : data[i] \in Written
          BY <1>1, <1>2, <1>4
        <5>2. n \in 0 .. Len(data)
          BY <1>1, <1>4
        <5> HIDE DEF n
        <5> QED
          BY <1>2, <5>1, <5>2, SubSeqProperties
      <4> HIDE DEF u, v, data
      <4>4. Len(u) = Len(v)
        BY <1>1, <1>2, <1>4, <4>2, <4>3
      <4>5. ASSUME NEW i \in 1 .. Len(u)
            PROVE  u[i] = v[i]
        <5>1. /\ i \in 1 .. Len(rest) - k /\ i \in 1 .. Len(data) - n
              /\ k + i \in 1 .. Len(data) - s /\ s + (k + i) = n + i
          BY <1>1, <1>2, <1>4, <4>2, <4>3, <4>4
        <5> QED
          BY <4>1, <4>2, <4>3, <5>1
      <4>6. u = v
        BY <4>2, <4>3, <4>4, <4>5, SeqEqual
      <4> QED
        BY <4>6 DEF u, v, data
    <3>3. (B + s) + k = B + n
      BY <1>1, <1>4, <3>0
    <3>4. Len(waiting) = Len(rest)
      BY <1>1, <1>2
    <3> HIDE DEF B
    <3> QED
      BY <1>1, <3>1, <3>2, <3>3, <3>4 DEF Waiting, B
  <2> QED
    BY <1>1, <1>4, <1>5, <1>6, <1>7, <2>1, <2>2 DEF k
<1>8. CASE ~ commit.err
  <2>1. CachedAfter(commit) = [write_cache EXCEPT !.data = <<>>] /\ StoredAfter(commit) = 0
    BY <1>8 DEF CachedAfter, StoredAfter
  <2>2. CachedAfter(commit).data = <<>>
    BY <1>1, <2>1 DEF Cache
  <2>3. Waiting(CachedAfter(commit), StoredAfter(commit)) = <<>>
    <3>1. \A off : Run(off, SubSeq(<<>>, 0 + 1, Len(<<>>))) = <<>>
      <4>1. SubSeq(<<>>, 0 + 1, Len(<<>>)) = <<>>
        BY SubSeqEmpty
      <4> QED
        BY <4>1 DEF Run
    <3> QED
      BY <2>1, <2>2, <3>1 DEF Waiting
  <2>4. k = Len(waiting) /\ SubSeq(waiting, k + 1, Len(waiting)) = <<>>
    BY <1>1, <1>4, <1>8, SubSeqEmpty
  <2> QED
    BY <1>1, <1>4, <1>5, <1>6, <1>8, <2>3, <2>4 DEF k
<1> QED
  BY <1>3, <1>7, <1>8

(* What a step that keeps the invariant leaves.                            *)
LEMMA Leaves ==
  ASSUME CacheInv', unreliable' = unreliable
  PROVE  durable' = Masked(flash') /\ waiting' = Waiting(write_cache', stored')
<1>1. write_cache' \in Cache /\ stored' \in 0 .. Len(write_cache'.data)
  BY DEF CacheInv, TypeOK, Cache
<1>2. waiting' = Waiting(write_cache', stored')
  BY <1>1, WaitingIs DEF waiting
<1>3. durable' = Masked(flash')
  BY DEF durable, Masked, Reliable
<1> QED
  BY <1>2, <1>3

LEMMA CommitsOnly ==
  ASSUME CacheInv, CacheInv', NEW commit \in write_cache_commit, unreliable' = unreliable,
         flash' = commit.flash, write_cache' = CachedAfter(commit), stored' = StoredAfter(commit)
  PROVE  Store!Store(waiting)
<1> DEFINE k == Committed(commit)
<1>1. /\ k \in 0 .. Len(waiting)
      /\ Masked(commit.flash) = Store!After(durable, SubSeq(waiting, 1, k))
      /\ Waiting(CachedAfter(commit), StoredAfter(commit)) = SubSeq(waiting, k + 1, Len(waiting))
  BY CommitImplements
<1>2. durable' = Masked(flash') /\ waiting' = Waiting(write_cache', stored')
  BY Leaves
<1> HIDE DEF k
<1>3. waiting' = SubSeq(waiting, k + 1, Len(waiting))
      /\ durable' = Store!After(durable, SubSeq(waiting, 1, k))
  BY <1>1, <1>2
<1> QED
  BY <1>1, <1>3 DEF Store!Store

LEMMA InRange ==
  ASSUME NEW r \in Ranges, Valid(r[1], r[2], r[3])
  PROVE  r \in Store!InPage
<1>1. r[1] \in Page /\ r[2] + r[3] <= PageLen
  BY ValidRange
<1> QED
  BY <1>1 DEF Store!InPage, Store!Page, Page

LEMMA FlushImplements ==
  ASSUME CacheInv, CacheInv', NEW failed \in BOOLEAN, Flush(failed)
  PROVE  Store!Next
<1>1. PICK commit \in write_cache_commit :
        /\ flash' = commit.flash
        /\ write_cache' = CachedAfter(commit) /\ stored' = StoredAfter(commit)
  BY DEF Flush
<1>2. unreliable' = unreliable /\ last' = <<"flush">>
  BY DEF Flush
<1>3. Store!Store(waiting)
  BY <1>1, <1>2, CommitsOnly
<1> QED
  BY <1>2, <1>3 DEF Store!Next, Store!Flush

LEMMA PowerLossImplements ==
  ASSUME CacheInv, CacheInv', PowerLoss
  PROVE  Store!Next
<1>1. /\ write_cache' = [page |-> 0, pos |-> 0, data |-> <<>>] /\ stored' = 0
      /\ flash' = flash /\ unreliable' = unreliable /\ last' = <<"start">>
  BY DEF PowerLoss
<1>2. durable' = durable
  BY <1>1 DEF durable, Reliable
<1>3. waiting' = <<>>
  BY <1>1 DEF waiting
<1> QED
  BY <1>1, <1>2, <1>3 DEF Store!Next, Store!PowerLoss

LEMMA ReadImplements ==
  ASSUME CacheInv, CacheInv', NEW r \in Ranges, Read(r[1], r[2], r[3])
  PROVE  Store!Next
<1> DEFINE page == r[1]
           pos == r[2]
           len == r[3]
           off == get_page_base_offset(page) + pos
<1>1. PICK commit \in write_cache_commit, failed \in BOOLEAN :
        /\ flash' = commit.flash
        /\ write_cache' = CachedAfter(commit) /\ stored' = StoredAfter(commit)
        /\ last' = IF commit.err \/ failed THEN <<"read", page, pos, <<>>, "error">>
                   ELSE <<"read", page, pos,
                          IF page \in unreliable THEN [i \in 1 .. len |-> "unreliable"]
                          ELSE flash_area_read(commit.flash, off, len), "ok">>
  BY DEF Read
<1>2. unreliable' = unreliable /\ Valid(page, pos, len)
  BY DEF Read
<1>3. Store!Store(waiting) /\ r \in Store!InPage
  BY <1>1, <1>2, CommitsOnly, InRange
<1>4. CASE commit.err \/ failed
  <2>1. Store!ReadFails(page, pos, len)
    BY <1>1, <1>2, <1>3, <1>4 DEF Store!ReadFails
  <2> QED
    BY <1>3, <2>1 DEF Store!Next
<1>5. CASE ~ (commit.err \/ failed)
  <2> DEFINE shown == Store!After(durable, waiting)
             answer == IF page \in unreliable THEN [i \in 1 .. len |-> "unreliable"]
                       ELSE flash_area_read(commit.flash, off, len)
  <2>1. Masked(commit.flash) = shown
    <3> DEFINE k == Committed(commit)
    <3>1. k = Len(waiting) /\ Masked(commit.flash) = Store!After(durable, SubSeq(waiting, 1, k))
      BY <1>5, CommitImplements
    <3>2. SubSeq(waiting, 1, Len(waiting)) = waiting
      BY Mapped, Whole
    <3> QED
      BY <3>1, <3>2
  <2> HIDE DEF shown
  <2>2. /\ page \in Page /\ pos \in Nat /\ len \in Nat /\ pos + len <= PageLen
        /\ get_page_base_offset(page) \in Nat
    BY <1>2, ValidRange, PageBase
  <2>3. ASSUME NEW i \in 1 .. len
        PROVE  /\ Store!AddressOf(page, pos) + i - 1 = off + i - 1
               /\ shown[off + i - 1] = IF page \in unreliable THEN "unreliable"
                                       ELSE commit.flash[off + i - 1]
    <3> DEFINE x == pos + i - 1
    <3>1. x \in 0 .. PageLen - 1 /\ off + i - 1 = get_page_base_offset(page) + x
      BY <2>2, SizeAssumption
    <3> HIDE DEF x
    <3>2. off + i - 1 \in Address /\ (off + i - 1) \div PageLen = page
      BY <2>2, <3>1, Pagewise
    <3>3. Store!AddressOf(page, pos) = off
      BY DEF Store!AddressOf, get_page_base_offset
    <3> HIDE DEF off
    <3> QED
      BY <2>1, <3>2, <3>3 DEF Masked, Reliable
  <2>4. [i \in 1 .. len |-> shown[Store!AddressOf(page, pos) + i - 1]] = answer
    <3> HIDE DEF off
    <3> QED BY <2>3 DEF flash_area_read
  <2>5. last' = <<"read", page, pos, answer, "ok">>
    BY <1>1, <1>5
  <2> HIDE DEF answer
  <2>6. Store!Read(page, pos, len)
    BY <1>2, <1>3, <2>4, <2>5 DEF Store!Read, shown
  <2> QED
    BY <1>3, <2>6 DEF Store!Next
<1> QED
  BY <1>4, <1>5

(* What a write gives to the store.                                        *)
LEMMA BytesAre ==
  ASSUME NEW page, NEW pos, NEW data
  PROVE  Store!Bytes(page, pos, data) = Run(get_page_base_offset(page) + pos, data)
BY DEF Store!Bytes, Store!AddressOf, get_page_base_offset, Run, Placed

LEMMA WrittenBytes ==
  ASSUME TypeOK, NEW r \in Ranges, Valid(r[1], r[2], r[3]), writes < MaxWrites
  PROVE  /\ Filled(r[3]) = Store!Filled(writes + 1, r[3]) /\ writes + 1 \in Written
         /\ Filled(r[3]) \in Seq(Written) /\ Len(Filled(r[3])) = r[3]
         /\ get_page_base_offset(r[1]) + r[2] \in Nat
         /\ r \in Store!InPage
<1>1. r[3] \in Nat /\ get_page_base_offset(r[1]) + r[2] \in Nat
  BY ValidRange
<1>2. /\ writes + 1 \in Written
      /\ Filled(r[3]) \in Seq(Written) /\ Len(Filled(r[3])) = r[3]
  BY <1>1, FilledIsWritten
<1> QED
  BY <1>1, <1>2, InRange DEF Filled, Store!Filled

LEMMA NotTakenImplements ==
  ASSUME CacheInv, CacheInv', NEW r \in Ranges, WriteNotTaken(r[1], r[2], r[3])
  PROVE  Store!Next
<1> DEFINE data == Filled(r[3])
<1>1. PICK commit \in write_cache_commit :
        commit.err /\ flash' = commit.flash /\ stored' = StoredAfter(commit)
  BY DEF WriteNotTaken
<1>2. /\ write_cache' = CachedAfter(commit) /\ unreliable' = unreliable
      /\ last' = <<"write", r[1], r[2], data, "error">>
      /\ Valid(r[1], r[2], r[3]) /\ writes < MaxWrites
  BY <1>1 DEF WriteNotTaken, CachedAfter
<1>3. Store!Store(waiting)
  BY <1>1, <1>2, CommitsOnly
<1>4. /\ data = Store!Filled(writes + 1, r[3]) /\ writes + 1 \in Written /\ r \in Store!InPage
      /\ data \in Seq(Written)
  BY <1>2, WrittenBytes DEF CacheInv
<1> HIDE DEF data
<1>5. waiting \o Store!Bytes(r[1], r[2], SubSeq(data, 1, 0)) = waiting
  <2>1. SubSeq(data, 1, 0) = <<>>
    BY SubSeqEmpty
  <2>2. Store!Bytes(r[1], r[2], <<>>) = <<>>
    BY DEF Store!Bytes
  <2>3. waiting \in Seq(QByte)
    BY Mapped
  <2> QED
    BY <2>1, <2>2, <2>3, ConcatEmptySeq
<1>6. 0 \in 0 .. Len(data)
  BY <1>4
<1>7. Store!WriteFails(r[1], r[2], data)
  BY <1>2, <1>3, <1>5, <1>6 DEF Store!WriteFails
<1> QED
  BY <1>4, <1>7 DEF Store!Next

LEMMA ContinuesImplements ==
  ASSUME CacheInv, CacheInv', NEW r \in Ranges, WriteContinues(r[1], r[2], r[3])
  PROVE  Store!Next
<1> DEFINE new == Filled(r[3])
           old == write_cache.data
           off == get_page_base_offset(r[1]) + r[2]
           bytes == Run(off, new)
           rest == SubSeq(old, stored + 1, Len(old))
           B == Offset(write_cache)
<1>1. /\ new = Store!Filled(writes + 1, r[3]) /\ writes + 1 \in Written /\ r \in Store!InPage
      /\ new \in Seq(Written) /\ off \in Nat
  BY WrittenBytes DEF WriteContinues, CacheInv
<1>2. /\ write_cache.page = r[1] /\ r[2] = write_cache.pos + Len(old)
      /\ write_cache' = [write_cache EXCEPT !.data = old \o new]
      /\ flash' = flash /\ stored' = stored /\ unreliable' = unreliable
      /\ last' = <<"write", r[1], r[2], new, "ok">>
  BY DEF WriteContinues, write_cache_continues
<1>3. /\ write_cache \in Cache /\ stored \in 0 .. Len(old) /\ waiting = Waiting(write_cache, stored)
      /\ waiting \in Seq(QByte) /\ durable = Masked(flash)
  BY Mapped
<1>4. /\ B \in Nat /\ old \in Seq(Written) /\ Len(old) \in Nat
      /\ rest \in Seq(Written) /\ Len(rest) = Len(old) - stored
  BY <1>3, WaitingIs
<1>5. bytes \in Seq(QByte)
  BY <1>1, RunIs
<1> HIDE DEF new, old, bytes
<1>6. write_cache'.data = old \o new /\ Offset(write_cache') = B
  BY <1>2, <1>3 DEF Cache, Offset
<1>7. /\ old \o new \in Seq(Written) /\ Len(old \o new) = Len(old) + Len(new)
      /\ SubSeq(old \o new, stored + 1, Len(old \o new)) = rest \o new
  <2> DEFINE u == SubSeq(old \o new, stored + 1, Len(old \o new))
             v == rest \o new
             w == old \o new
  <2>1. /\ w \in Seq(Written) /\ Len(w) = Len(old) + Len(new) /\ Len(new) \in Nat
        /\ \A i \in 1 .. Len(old) + Len(new) : w[i] = IF i <= Len(old) THEN old[i] ELSE new[i - Len(old)]
    BY <1>1, <1>4, ConcatProperties
  <2>2. \A i \in 1 .. Len(old) - stored : rest[i] = old[stored + i]
    <3>1. \A i \in stored + 1 .. Len(old) : old[i] \in Written
      BY <1>3, <1>4
    <3> QED
      BY <1>3, <1>4, <3>1, SubSeqProperties
  <2> HIDE DEF rest
  <2>3. /\ v \in Seq(Written) /\ Len(v) = Len(rest) + Len(new)
        /\ \A i \in 1 .. Len(rest) + Len(new) : v[i] = IF i <= Len(rest) THEN rest[i] ELSE new[i - Len(rest)]
    BY <1>1, <1>4, ConcatProperties
  <2> HIDE DEF w
  <2>4. /\ SubSeq(w, stored + 1, Len(w)) \in Seq(Written)
        /\ Len(SubSeq(w, stored + 1, Len(w))) = Len(w) - stored
        /\ \A i \in 1 .. Len(w) - stored : SubSeq(w, stored + 1, Len(w))[i] = w[stored + i]
    <3>1. \A i \in stored + 1 .. Len(w) : w[i] \in Written
      BY <1>3, <1>4, <2>1
    <3>2. stored \in Nat /\ stored <= Len(w) /\ Len(w) \in Nat
      BY <1>3, <1>4, <2>1
    <3> QED
      BY <3>1, <3>2, SubSeqProperties
  <2>5. u = SubSeq(w, stored + 1, Len(w))
    BY DEF w
  <2> HIDE DEF u, v
  <2>6. Len(u) = Len(v)
    BY <1>3, <1>4, <2>1, <2>3, <2>4, <2>5
  <2>7. ASSUME NEW i \in 1 .. Len(u)
        PROVE  u[i] = v[i]
    <3>1. /\ i \in 1 .. Len(w) - stored /\ stored + i \in 1 .. Len(old) + Len(new)
          /\ i \in 1 .. Len(rest) + Len(new)
      BY <1>3, <1>4, <2>1, <2>3, <2>4, <2>5, <2>6
    <3>2. u[i] = w[stored + i]
      BY <2>4, <2>5, <3>1
    <3>3. CASE i <= Len(rest)
      <4>1. stored + i <= Len(old) /\ i \in 1 .. Len(old) - stored
        BY <1>3, <1>4, <3>1, <3>3
      <4> QED
        BY <2>1, <2>2, <2>3, <3>1, <3>2, <3>3, <4>1
    <3>4. CASE ~ (i <= Len(rest))
      <4>1. ~ (stored + i <= Len(old)) /\ (stored + i) - Len(old) = i - Len(rest)
        BY <1>3, <1>4, <3>1, <3>4
      <4> QED
        BY <2>1, <2>3, <3>1, <3>2, <3>4, <4>1
    <3> QED
      BY <3>3, <3>4
  <2>8. u = v
    <3>1. u \in Seq(Written)
      BY <2>4, <2>5
    <3> QED
      BY <2>3, <2>6, <2>7, <3>1, SeqEqual
  <2> QED
    BY <2>1, <2>8 DEF u, v, w
<1>8. waiting' = waiting \o bytes
  <2>1. waiting' = Waiting(write_cache', stored')
    BY <1>2, Leaves
  <2>2. Waiting(write_cache', stored') = Run(B + stored, rest \o new)
    BY <1>2, <1>6, <1>7 DEF Waiting
  <2>3. waiting = Run(B + stored, rest)
    BY <1>3 DEF Waiting, old
  <2>4. (B + stored) + Len(rest) = off
    <3>1. off = get_page_base_offset(write_cache.page) + (write_cache.pos + Len(old))
      BY <1>2
    <3>2. write_cache.page \in Page /\ write_cache.pos \in Nat
          /\ get_page_base_offset(write_cache.page) \in Nat
      BY <1>3, PageBase DEF Cache
    <3>3. B = get_page_base_offset(write_cache.page) + write_cache.pos
      BY DEF Offset
    <3>4. Len(rest) = Len(old) - stored /\ stored \in Nat /\ Len(old) \in Nat
      BY <1>3, <1>4
    <3> HIDE DEF off, rest, B, old
    <3> QED
      BY ONLY <3>1, <3>2, <3>3, <3>4
  <2>5. B + stored \in Nat
    BY <1>3, <1>4
  <2> HIDE DEF rest, B, off
  <2>6. Run(B + stored, rest) \o Run((B + stored) + Len(rest), new) = Run(B + stored, rest \o new)
    BY <1>1, <1>4, <2>5, RunConcat
  <2> QED
    BY <2>1, <2>2, <2>3, <2>4, <2>6 DEF bytes
<1>9. Store!Store(waiting \o bytes)
  <2> DEFINE q == waiting \o bytes
  <2>1. /\ q \in Seq(QByte) /\ SubSeq(q, 1, Len(q)) = q /\ SubSeq(q, 1, 0) = <<>>
    <3>1. q \in Seq(QByte)
      BY <1>3, <1>5, ConcatProperties
    <3> HIDE DEF q
    <3> QED
      BY <3>1, Whole
  <2>2. durable' = durable
    BY <1>2 DEF durable, Reliable
  <2>3. Store!After(durable, <<>>) = durable
    BY <1>3 DEF Store!After, Store!Address, Address, Masked
  <2> HIDE DEF q
  <2>4. 0 \in 0 .. Len(q) /\ 0 + 1 = 1
    BY <2>1
  <2>5. waiting' = SubSeq(q, 0 + 1, Len(q)) /\ durable' = Store!After(durable, SubSeq(q, 1, 0))
    BY <1>8, <2>1, <2>2, <2>3, <2>4 DEF q
  <2> QED
    BY <2>4, <2>5 DEF Store!Store, q
<1>10. Store!Bytes(r[1], r[2], new) = bytes
  BY BytesAre DEF bytes
<1>11. Store!Write(r[1], r[2], new)
  BY <1>2, <1>9, <1>10 DEF Store!Write
<1> QED
  BY <1>1, <1>11 DEF Store!Next

LEMMA RestartsImplements ==
  ASSUME CacheInv, CacheInv', NEW r \in Ranges, WriteRestarts(r[1], r[2], r[3])
  PROVE  Store!Next
<1> DEFINE new == Filled(r[3])
           off == get_page_base_offset(r[1]) + r[2]
           bytes == Run(off, new)
<1>1. /\ new = Store!Filled(writes + 1, r[3]) /\ writes + 1 \in Written /\ r \in Store!InPage
      /\ new \in Seq(Written) /\ off \in Nat
  BY WrittenBytes DEF WriteRestarts, CacheInv
<1>2. /\ write_cache' = [page |-> r[1], pos |-> r[2], data |-> new] /\ stored' = 0
      /\ unreliable' = unreliable /\ last' = <<"write", r[1], r[2], new, "ok">>
  BY DEF WriteRestarts
<1>3. PICK commit \in write_cache_commit : ~ commit.err /\ flash' = commit.flash
  BY DEF WriteRestarts
<1>4. waiting \in Seq(QByte)
  BY Mapped
<1>5. Masked(commit.flash) = Store!After(durable, waiting)
  <2>1. SubSeq(waiting, 1, Len(waiting)) = waiting
    BY <1>4, Whole
  <2> QED
    BY <1>3, <2>1, CommitImplements
<1>6. durable' = Store!After(durable, waiting) /\ waiting' = Waiting(write_cache', stored')
  BY <1>2, <1>3, <1>5, Leaves
<1>7. bytes \in Seq(QByte)
  BY <1>1, RunIs
<1>8. waiting' = bytes
  <2>1. SubSeq(new, 0 + 1, Len(new)) = new
    <3> HIDE DEF new
    <3> QED BY <1>1, Whole
  <2>2. off + 0 = off
    <3> HIDE DEF off
    <3> QED BY <1>1
  <2>3. Offset(write_cache') = off /\ write_cache'.data = new
    BY <1>2 DEF Offset
  <2> HIDE DEF off, new
  <2> QED
    BY <1>2, <1>6, <2>1, <2>2, <2>3 DEF Waiting, bytes
<1> HIDE DEF new, bytes
<1>9. Store!Store(waiting \o bytes)
  <2> DEFINE q == waiting \o bytes
  <2>1. /\ q \in Seq(QByte) /\ Len(q) = Len(waiting) + Len(bytes)
        /\ SubSeq(q, Len(waiting) + 1, Len(q)) = bytes /\ SubSeq(q, 1, Len(waiting)) = waiting
    BY <1>4, <1>7, CutConcat
  <2>2. Len(waiting) \in Nat /\ Len(bytes) \in Nat
    BY <1>4, <1>7
  <2> HIDE DEF q
  <2>3. Len(waiting) \in 0 .. Len(q)
    BY <2>1, <2>2
  <2>4. /\ waiting' = SubSeq(q, Len(waiting) + 1, Len(q))
        /\ durable' = Store!After(durable, SubSeq(q, 1, Len(waiting)))
    BY <1>6, <1>8, <2>1
  <2> QED
    BY <2>3, <2>4 DEF Store!Store, q
<1>10. Store!Bytes(r[1], r[2], new) = bytes
  BY BytesAre DEF bytes
<1>11. Store!Write(r[1], r[2], new)
  BY <1>2, <1>9, <1>10 DEF Store!Write
<1> QED
  BY <1>1, <1>11 DEF Store!Next

LEMMA DirectlyImplements ==
  ASSUME CacheInv, CacheInv', NEW r \in Ranges, WriteDirectly(r[1], r[2], r[3])
  PROVE  Store!Next
<1> DEFINE new == Filled(r[3])
           off == get_page_base_offset(r[1]) + r[2]
<1>1. /\ new = Store!Filled(writes + 1, r[3]) /\ writes + 1 \in Written /\ r \in Store!InPage
      /\ new \in Seq(Written) /\ off \in Nat
  BY WrittenBytes DEF WriteDirectly, CacheInv
<1>3. unreliable' = unreliable
  BY DEF WriteDirectly
<1>0. PICK commit \in write_cache_commit :
        /\ ~ commit.err
        /\ \E write \in nvram_flash_write(commit.flash, off, new) :
              /\ flash' = write.flash
              /\ last' = <<"write", r[1], r[2], new, IF write.err THEN "error" ELSE "ok">>
        /\ write_cache' = CachedAfter(commit) /\ stored' = StoredAfter(commit)
  BY DEF WriteDirectly
<1>2. PICK write \in nvram_flash_write(commit.flash, off, new) :
        /\ flash' = write.flash
        /\ last' = <<"write", r[1], r[2], new, IF write.err THEN "error" ELSE "ok">>
  BY <1>0
<1>4. waiting \in Seq(QByte) /\ durable = Masked(flash) /\ flash \in Flash
  BY Mapped
<1>5. /\ Masked(commit.flash) = Store!After(durable, waiting)
      /\ Waiting(CachedAfter(commit), StoredAfter(commit)) = <<>>
  <2>1. SubSeq(waiting, 1, Len(waiting)) = waiting
    BY <1>4, Whole
  <2>2. SubSeq(waiting, Len(waiting) + 1, Len(waiting)) = <<>>
    BY <1>4, Whole
  <2> QED
    BY <1>0, <2>1, <2>2, CommitImplements
<1>6. commit.flash \in Flash
  BY Commit DEF CacheInv
<1> DEFINE k == write.done
           part == SubSeq(new, 1, k)
           bytes == Run(off, part)
<1>7. /\ k \in 0 .. Len(new) /\ (~ write.err => k = Len(new))
      /\ write.flash = Prefix(commit.flash, off, new, k)
  <2>1. new \in Seq(Written) /\ off \in Nat
    BY <1>1
  <2> HIDE DEF new, off
  <2> QED
    BY ONLY <1>2, <1>6, <2>1, FlashWrite
<1> HIDE DEF new, off, k
<1>8. part \in Seq(Written) /\ Masked(write.flash) = Store!After(Masked(commit.flash), bytes)
  <2>1. Masked(Prefix(commit.flash, off, new, k))
          = Store!After(Masked(commit.flash), Run(off, SubSeq(new, 1, k)))
    BY <1>1, <1>6, <1>7, MaskedWrite
  <2>2. SubSeq(new, 1, k) \in Seq(Written)
    BY <1>1, <1>7, SubRun
  <2> QED
    BY <1>7, <2>1, <2>2
<1> HIDE DEF part
<1>9. durable' = Masked(write.flash) /\ waiting' = <<>>
  <2>1. durable' = Masked(flash') /\ waiting' = Waiting(write_cache', stored')
    BY <1>3, Leaves
  <2> QED
    BY <1>0, <1>2, <1>5, <2>1
<1>10. durable' = Store!After(durable, waiting \o bytes)
  <2> DEFINE c == write_cache
             d == SubSeq(c.data, stored + 1, Len(c.data))
             B == Offset(c) + stored
             g == Store!After(Masked(commit.flash), bytes)
             h == Store!After(durable, waiting \o bytes)
  <2>1. waiting = Run(B, d) /\ B \in Nat /\ d \in Seq(Written)
    <3>1. c \in Cache /\ stored \in 0 .. Len(c.data) /\ waiting = Waiting(c, stored)
      BY Mapped
    <3>2. Offset(c) \in Nat /\ d \in Seq(Written)
      BY <3>1, WaitingIs
    <3> HIDE DEF d
    <3> QED
      BY <3>1, <3>2 DEF Waiting, d
  <2> HIDE DEF B, d
  <2>2. ASSUME NEW a \in Address
        PROVE  g[a] = h[a]
    <3>1. h[a] = IF Reliable(a) /\ In(a, off, Len(part)) THEN part[a - off + 1]
                 ELSE Store!After(durable, waiting)[a]
      BY <1>1, <1>8, <2>1, AfterTwoRuns
    <3>2. g[a] = IF Reliable(a) /\ In(a, off, Len(part)) THEN part[a - off + 1]
                 ELSE Masked(commit.flash)[a]
      BY <1>1, <1>8, AfterRun
    <3> QED
      BY <1>5, <3>1, <3>2
  <2>3. g = [a \in Address |-> g[a]] /\ h = [a \in Address |-> h[a]]
    BY AfterIs
  <2> HIDE DEF g, h
  <2>4. g = h
    BY <2>2, <2>3
  <2> QED
    BY <1>8, <1>9, <2>4 DEF g, h
<1>11. bytes \in Seq(QByte)
  BY <1>1, <1>8, RunIs
<1>12. Store!Bytes(r[1], r[2], part) = bytes
  BY BytesAre DEF off
<1> HIDE DEF bytes
<1>13. Store!Store(waiting \o bytes)
  <2> DEFINE q == waiting \o bytes
  <2>1. q \in Seq(QByte) /\ SubSeq(q, 1, Len(q)) = q /\ SubSeq(q, Len(q) + 1, Len(q)) = <<>>
    <3>1. q \in Seq(QByte)
      BY <1>4, <1>11, ConcatProperties
    <3> HIDE DEF q
    <3> QED
      BY <3>1, Whole
  <2> HIDE DEF q
  <2>2. Len(q) \in 0 .. Len(q)
    BY <2>1
  <2>3. waiting' = SubSeq(q, Len(q) + 1, Len(q)) /\ durable' = Store!After(durable, SubSeq(q, 1, Len(q)))
    BY <1>9, <1>10, <2>1 DEF q
  <2> QED
    BY <2>2, <2>3 DEF Store!Store, q
<1>14. CASE write.err
  <2>1. Store!WriteFails(r[1], r[2], new)
    BY <1>2, <1>3, <1>7, <1>12, <1>13, <1>14 DEF Store!WriteFails, part
  <2> QED
    BY <1>1, <2>1 DEF Store!Next
<1>15. CASE ~ write.err
  <2>1. part = new
    <3>1. SubSeq(new, 1, Len(new)) = new
      BY <1>1, Whole
    <3> QED
      BY <1>7, <1>15, <3>1 DEF part
  <2>2. Store!Write(r[1], r[2], new)
    BY <1>2, <1>3, <1>12, <1>13, <1>15, <2>1 DEF Store!Write
  <2> QED
    BY <1>1, <2>2 DEF Store!Next
<1> QED
  BY <1>14, <1>15

(* Which bytes an erasing of a page concerns.                              *)
LEMMA PageBytes ==
  ASSUME NEW page \in Page, NEW a \in Address
  PROVE  a \div PageLen = page
           => a \in get_page_base_offset(page) .. get_page_base_offset(page) + PageLen - 1
<1>1. page \in Nat /\ a \in Nat /\ PageLen \in Nat \ {0}
  BY SizeAssumption DEF Page, Address
<1>2. a = PageLen * (a \div PageLen) + (a % PageLen) /\ a % PageLen \in 0 .. PageLen - 1
  BY <1>1
<1>3. ASSUME a \div PageLen = page
      PROVE  a \in page * PageLen .. page * PageLen + PageLen - 1
  <2> DEFINE base == page * PageLen
             rest == a % PageLen
  <2>1. a = base + rest
    BY <1>1, <1>2, <1>3
  <2>2. base \in Nat /\ rest \in 0 .. PageLen - 1
    BY <1>1, <1>2
  <2> HIDE DEF base, rest
  <2>3. a \in base .. base + PageLen - 1
    BY <1>1, <2>1, <2>2
  <2> QED
    BY <2>3 DEF base
<1> QED
  BY <1>3 DEF get_page_base_offset

LEMMA EraseImplements ==
  ASSUME CacheInv, CacheInv', NEW page \in Page, Erase(page)
  PROVE  Store!Next
<1>1. PICK commit \in write_cache_commit, len \in {n \in 0 .. PageLen : n % Block = 0} :
        /\ flash' = flash_area_erase(commit.flash, page, len)
        /\ write_cache' = CachedAfter(commit)
        /\ stored' = StoredAfter(commit)
        /\ IF commit.err \/ len < PageLen
             THEN unreliable' = unreliable \cup {page} /\ last' = <<"erase", page, "error">>
             ELSE unreliable' = unreliable \ {page} /\ last' = <<"erase", page, "ok">>
  BY Zenon DEF Erase
<1>2. len \in 0 .. PageLen /\ page \in Store!Page
  BY DEF Store!Page, Page
<1>3. commit.flash \in Flash
  BY Commit DEF CacheInv
<1>4. \A a \in Address : a \div PageLen # page => flash'[a] = commit.flash[a]
  BY <1>1, <1>2, <1>3, ErasedAt
<1> DEFINE k == Committed(commit)
<1>5. /\ k \in 0 .. Len(waiting) /\ (~ commit.err => k = Len(waiting))
      /\ Masked(commit.flash) = Store!After(durable, SubSeq(waiting, 1, k))
      /\ Waiting(CachedAfter(commit), StoredAfter(commit)) = SubSeq(waiting, k + 1, Len(waiting))
  BY CommitImplements
<1>6. waiting \in Seq(QByte)
  BY Mapped
<1>7. waiting' = SubSeq(waiting, k + 1, Len(waiting))
  <2>1. write_cache' \in Cache /\ stored' \in 0 .. Len(write_cache'.data)
    BY DEF CacheInv, TypeOK, Cache
  <2>2. waiting' = Waiting(write_cache', stored')
    BY <2>1, WaitingIs DEF waiting
  <2> QED
    BY <1>1, <1>5, <2>2
<1> HIDE DEF k
<1>8. ASSUME NEW a \in Address, a \div PageLen # page
      PROVE  durable'[a] = Masked(commit.flash)[a]
  <2>1. a \div PageLen \in unreliable' <=> a \div PageLen \in unreliable
    BY <1>1, <1>8
  <2>2. durable'[a] = IF a \div PageLen \notin unreliable' THEN flash'[a] ELSE "unreliable"
    BY DEF durable, Reliable
  <2>3. Masked(commit.flash)[a]
          = IF a \div PageLen \notin unreliable THEN commit.flash[a] ELSE "unreliable"
    BY DEF Masked, Reliable
  <2> QED
    BY <1>4, <1>8, <2>1, <2>2, <2>3
<1>9. CASE commit.err \/ len < PageLen
  <2>1. unreliable' = unreliable \cup {page} /\ last' = <<"erase", page, "error">>
    BY <1>1, <1>9
  <2>2. ASSUME NEW a \in Address
        PROVE  durable'[a] = IF Store!PageOf(a) = page THEN Store!Unreliable
                             ELSE Store!After(durable, SubSeq(waiting, 1, k))[a]
    <3>1. durable'[a] = IF a \div PageLen \notin unreliable' THEN flash'[a] ELSE "unreliable"
      BY DEF durable, Reliable
    <3> QED
      BY <1>5, <1>8, <2>1, <3>1 DEF Store!PageOf, Store!Unreliable
  <2>3. durable' = [a \in Store!Address |->
                      IF Store!PageOf(a) = page THEN Store!Unreliable
                      ELSE Store!After(durable, SubSeq(waiting, 1, k))[a]]
    <3>1. Store!Address = Address
      BY DEF Store!Address, Address
    <3>2. durable' = [a \in Address |-> durable'[a]]
      BY DEF durable
    <3> QED
      BY <2>2, <3>1, <3>2, Zenon
  <2>4. Store!EraseFails(page)
    BY <1>5, <1>7, <2>1, <2>3 DEF Store!EraseFails
  <2> QED
    BY <1>2, <2>4 DEF Store!Next
<1>10. CASE ~ (commit.err \/ len < PageLen)
  <2>1. unreliable' = unreliable \ {page} /\ last' = <<"erase", page, "ok">>
        /\ len = PageLen /\ k = Len(waiting)
    BY <1>1, <1>2, <1>5, <1>10, SizeAssumption
  <2>2. SubSeq(waiting, 1, k) = waiting /\ waiting' = <<>>
    BY <1>6, <1>7, <2>1, Whole
  <2>3. ASSUME NEW a \in Address
        PROVE  durable'[a] = IF Store!PageOf(a) = page THEN Store!Erased
                             ELSE Store!After(durable, waiting)[a]
    <3>1. durable'[a] = IF a \div PageLen \notin unreliable' THEN flash'[a] ELSE "unreliable"
      BY DEF durable, Reliable
    <3>2. CASE a \div PageLen = page
      <4>1. a \in get_page_base_offset(page) .. get_page_base_offset(page) + len - 1
        BY <2>1, <3>2, PageBytes
      <4>2. flash'[a] = Erased
        BY <1>1, <4>1 DEF flash_area_erase
      <4> QED
        BY <2>1, <3>1, <3>2, <4>2 DEF Store!PageOf, Store!Erased, Erased
    <3>3. CASE a \div PageLen # page
      BY <1>5, <1>8, <2>2, <3>3 DEF Store!PageOf
    <3> QED
      BY <3>2, <3>3
  <2>4. durable' = [a \in Store!Address |->
                      IF Store!PageOf(a) = page THEN Store!Erased
                      ELSE Store!After(durable, waiting)[a]]
    <3>1. Store!Address = Address
      BY DEF Store!Address, Address
    <3>2. durable' = [a \in Address |-> durable'[a]]
      BY DEF durable
    <3> QED
      BY <2>3, <3>1, <3>2, Zenon
  <2>5. Store!Erase(page)
    BY <2>1, <2>2, <2>4 DEF Store!Erase
  <2> QED
    BY <1>2, <2>5 DEF Store!Next
<1> QED
  BY <1>9, <1>10

LEMMA InitImplements == Init => Store!Init
<1> SUFFICES ASSUME Init
             PROVE  Store!Init
  OBVIOUS
<1>1. /\ flash = [a \in Address |-> Erased] /\ stored = 0 /\ unreliable = {}
      /\ write_cache = [page |-> 0, pos |-> 0, data |-> <<>>] /\ last = <<"start">>
  BY DEF Init
<1>2. durable = [a \in Store!Address |-> Store!Erased]
  BY <1>1 DEF durable, Reliable, Store!Address, Address, Store!Erased, Erased
<1>3. waiting = <<>>
  BY <1>1 DEF waiting
<1> QED
  BY <1>1, <1>2, <1>3 DEF Store!Init

LEMMA StepImplements == CacheInv /\ CacheInv' /\ [Next]_vars => [Store!Next]_(Store!vars)
<1> SUFFICES ASSUME CacheInv, CacheInv', [Next]_vars
             PROVE  [Store!Next]_(Store!vars)
  OBVIOUS
<1>1. ASSUME NEW r \in Ranges, WriteContinues(r[1], r[2], r[3])
      PROVE  Store!Next
  BY <1>1, ContinuesImplements
<1>2. ASSUME NEW r \in Ranges, WriteRestarts(r[1], r[2], r[3])
      PROVE  Store!Next
  BY <1>2, RestartsImplements
<1>3. ASSUME NEW r \in Ranges, WriteDirectly(r[1], r[2], r[3])
      PROVE  Store!Next
  BY <1>3, DirectlyImplements
<1>4. ASSUME NEW r \in Ranges, WriteNotTaken(r[1], r[2], r[3])
      PROVE  Store!Next
  BY <1>4, NotTakenImplements
<1>5. ASSUME NEW r \in Ranges, Read(r[1], r[2], r[3])
      PROVE  Store!Next
  BY <1>5, ReadImplements
<1>6. ASSUME NEW page \in Page, Erase(page)
      PROVE  Store!Next
  BY <1>6, EraseImplements
<1>7. ASSUME NEW failed \in BOOLEAN, Flush(failed)
      PROVE  Store!Next
  BY <1>7, FlushImplements
<1>8. CASE PowerLoss
  BY <1>8, PowerLossImplements
<1>9. CASE UNCHANGED vars
  <2>1. durable' = durable /\ waiting' = waiting /\ unreliable' = unreliable /\ last' = last
    BY <1>9 DEF vars, counters, history, durable, Reliable, waiting
  <2> QED
    BY <2>1 DEF Store!vars
<1> QED
  BY <1>1, <1>2, <1>3, <1>4, <1>5, <1>6, <1>7, <1>8, <1>9 DEF Next

(* The NVRAM keeps the promise of the store of pages: whatever the order   *)
(* of writes, reads, erasings, flushes, failures of the flash and losses   *)
(* of power, accepted bytes reach the flash in order, a reader sees all of *)
(* them, and only a loss of power, a failed erasing or an error that was   *)
(* reported for them leaves any of them out.                               *)
THEOREM Implements == Spec => ImplementsPageStore
<1>1. Init => Store!Init
  BY InitImplements
<1>2. CacheInv /\ CacheInv' /\ [Next]_vars => [Store!Next]_(Store!vars)
  BY StepImplements
<1>3. Spec => []CacheInv
  BY Invariant
<1> QED
  BY <1>1, <1>2, <1>3, PTL DEF Spec, ImplementsPageStore, Store!Spec
===============================================================================
