------------------------------ MODULE NvramCache ------------------------------
(***************************************************************************)
(* The NVRAM of the OSIF (subsys/osif/zb_nrf_nvram.c): a flash area whose  *)
(* writes are gathered in a cache as long as each continues the last, and  *)
(* are aligned to the blocks of the flash when they are committed.         *)
(*                                                                         *)
(* Everything runs in the ZBOSS thread; what cuts in is the flash, whose   *)
(* operations may fail after any block, and the loss of power.  Power lost *)
(* in the middle of an operation leaves what the failure of that operation *)
(* at the same block leaves, so a failure followed by PowerLoss stands for *)
(* it.                                                                     *)
(*                                                                         *)
(* A byte is the number of the write it comes from.                        *)
(***************************************************************************)
EXTENDS Naturals, Sequences

CONSTANTS
  Pages,      \* CONFIG_ZIGBEE_NVRAM_PAGE_COUNT
  PageLen,    \* ZBOSS_NVRAM_PAGE_SIZE
  CacheLen,   \* CONFIG_ZIGBEE_NVRAM_WRITE_CACHE_SIZE, 0: no cache
  Block,      \* write block of the flash
  MinLen,     \* shortest write: 4, for `len >> 2` must not be 0
  Ranges,     \* the ranges <<page, pos, len>> ZBOSS reads and writes
  MaxWrites,  \* bound: writes
  MaxErases,  \* bound: erasings
  MaxFaults,  \* bound: flash operations that fail
  MaxLosses   \* bound: losses of power

ASSUME SizeAssumption ==
  /\ Pages \in Nat \ {0} /\ PageLen \in Nat \ {0} /\ Block \in Nat \ {0}
  /\ PageLen % Block = 0
  /\ CacheLen \in 0 .. PageLen
  /\ MinLen \in Nat \ {0}
ASSUME RangeAssumption == Ranges \subseteq Nat \X Nat \X Nat
ASSUME BoundAssumption ==
  MaxWrites \in Nat /\ MaxErases \in Nat /\ MaxFaults \in Nat /\ MaxLosses \in Nat

VARIABLES
  flash,        \* the flash area
  write_cache,  \* page, pos and data of the write cache; its len is Len(data)
  writes, erases, faults, losses,  \* counters
  stored,       \* history: how many of the cached bytes the flash holds already
  unreliable,   \* history: pages whose last erasing was reported as failed
  last          \* history: the last call and its answer

history == <<stored, unreliable, last>>
counters == <<writes, erases, faults, losses>>
vars == <<flash, write_cache, counters, history>>

Page == 0 .. Pages - 1
Address == 0 .. Pages * PageLen - 1
Erased == 0
Written == 1 .. MaxWrites
Larger(a, b) == IF a < b THEN b ELSE a

TypeOK ==
  /\ flash \in [Address -> Written \cup {Erased}]
  /\ write_cache \in [page : Page, pos : Nat, data : Seq(Written)]
  /\ Len(write_cache.data) <= CacheLen
  /\ writes \in 0 .. MaxWrites /\ erases \in 0 .. MaxErases
  /\ faults \in 0 .. MaxFaults /\ losses \in 0 .. MaxLosses
  /\ stored \in 0 .. Len(write_cache.data)
  /\ unreliable \subseteq Page

Init ==
  /\ flash = [a \in Address |-> Erased]
  /\ write_cache = [page |-> 0, pos |-> 0, data |-> <<>>]
  /\ writes = 0 /\ erases = 0 /\ faults = 0 /\ losses = 0
  /\ stored = 0 /\ unreliable = {} /\ last = <<"start">>

-----------------------------------------------------------------------------
(* The flash driver, and writes of any alignment on top of it.             *)

get_page_base_offset(page) == page * PageLen

flash_area_read(f, off, len) == [i \in 1 .. len |-> f[off + i - 1]]
flash_area_write(f, off, data) ==
  [a \in Address |-> IF a \in off .. off + Len(data) - 1 THEN data[a - off + 1] ELSE f[a]]

(* The block at start, read back and patched with data from block_off on,  *)
(* is written as a whole.                                                  *)
PatchBlock(f, start, block_off, data) ==
  flash_area_write(f, start,
    [i \in 1 .. Block |->
       IF i - block_off \in DOMAIN data THEN data[i - block_off]
       ELSE flash_area_read(f, start, Block)[i]])

(* nvram_flash_write patches the block in which an unaligned write starts, *)
(* writes the aligned middle at once and patches the last block.  How far  *)
(* it comes: [flash, done, err] where done is the number of bytes written. *)
HeadLen(off, len) ==
  IF off % Block = 0 THEN 0
  ELSE IF len < Block - (off % Block) THEN len ELSE Block - (off % Block)
MiddleLen(off, len) == (len - HeadLen(off, len)) - ((len - HeadLen(off, len)) % Block)

WriteHead(f, off, data) ==
  LET n == HeadLen(off, Len(data)) IN
  IF n = 0 THEN f
  ELSE PatchBlock(f, off - (off % Block), off % Block, SubSeq(data, 1, n))
WriteMiddle(f, off, data, len) ==
  LET n == HeadLen(off, Len(data))
  IN  flash_area_write(WriteHead(f, off, data), off + n, SubSeq(data, n + 1, n + len))
WriteTail(f, off, data) ==
  LET n == HeadLen(off, Len(data)) + MiddleLen(off, Len(data))
      before == WriteMiddle(f, off, data, MiddleLen(off, Len(data)))
  IN  IF n = Len(data) THEN before
      ELSE PatchBlock(before, off + n, 0, SubSeq(data, n + 1, Len(data)))

(* The driver fails before the head, within the middle after any of its    *)
(* blocks, or before the tail.                                             *)
nvram_flash_write(f, off, data) ==
  LET head == HeadLen(off, Len(data))
      middle == MiddleLen(off, Len(data))
  IN  {[flash |-> WriteTail(f, off, data), done |-> Len(data), err |-> FALSE]}
      \cup {[flash |-> f, done |-> 0, err |-> TRUE]}
      \cup {[flash |-> WriteMiddle(f, off, data, n), done |-> head + n, err |-> TRUE] :
              n \in {m \in 0 .. middle : m % Block = 0 /\ head + m < Len(data)}}

-----------------------------------------------------------------------------
(* The write cache.                                                        *)

write_cache_commit ==
  IF write_cache.data = <<>> THEN {[flash |-> flash, done |-> 0, err |-> FALSE]}
  ELSE nvram_flash_write(flash, get_page_base_offset(write_cache.page) + write_cache.pos,
                         write_cache.data)

CachedAfter_forgotten(commit) == [write_cache EXCEPT !.data = <<>>]

(* What a commit leaves of the cache: nothing, or after an error all of it *)
(* for the next attempt.                                                   *)
CachedAfter(commit) ==
  IF commit.err THEN write_cache ELSE [write_cache EXCEPT !.data = <<>>]
StoredAfter(commit) == IF commit.err THEN Larger(stored, commit.done) ELSE 0

write_cache_continues_unbounded(page, pos, len) ==
  /\ write_cache.data # <<>>
  /\ write_cache.page = page
  /\ pos = write_cache.pos + Len(write_cache.data)
write_cache_continues(page, pos, len) ==
  /\ write_cache.data # <<>>
  /\ write_cache.page = page
  /\ pos = write_cache.pos + Len(write_cache.data)
  /\ Len(write_cache.data) + len <= CacheLen

Fault(failed) ==
  IF failed THEN faults < MaxFaults /\ faults' = faults + 1 ELSE UNCHANGED faults

Valid(page, pos, len) == page < Pages /\ pos + len <= PageLen /\ len > 0
Filled(len) == [i \in 1 .. len |-> writes + 1]

-----------------------------------------------------------------------------
(* The calls of ZBOSS.  A call whose arguments are refused, or with        *)
(* nothing to write, changes nothing and is no step.                       *)

(* zb_osif_nvram_write: the write continues the cache.                     *)
WriteContinues(page, pos, len) ==
  /\ Valid(page, pos, len) /\ len >= MinLen /\ writes < MaxWrites
  /\ write_cache_continues(page, pos, len)
  /\ write_cache' = [write_cache EXCEPT !.data = @ \o Filled(len)]
  /\ writes' = writes + 1
  /\ last' = <<"write", page, pos, Filled(len), "ok">>
  /\ UNCHANGED <<flash, erases, faults, losses, stored, unreliable>>

(* It does not, so the cache is committed first and filled anew.           *)
WriteRestarts(page, pos, len) ==
  /\ Valid(page, pos, len) /\ len >= MinLen /\ writes < MaxWrites
  /\ ~ write_cache_continues(page, pos, len) /\ len <= CacheLen
  /\ \E commit \in write_cache_commit :
        /\ ~ commit.err
        /\ flash' = commit.flash
  /\ write_cache' = [page |-> page, pos |-> pos, data |-> Filled(len)]
  /\ stored' = 0
  /\ writes' = writes + 1
  /\ last' = <<"write", page, pos, Filled(len), "ok">>
  /\ UNCHANGED <<erases, faults, losses, unreliable>>

(* It is too long for the cache, or there is none.                         *)
WriteDirectly(page, pos, len) ==
  /\ Valid(page, pos, len) /\ len >= MinLen /\ writes < MaxWrites
  /\ len > CacheLen
  /\ \E commit \in write_cache_commit :
        /\ ~ commit.err
        /\ \E write \in nvram_flash_write(commit.flash, get_page_base_offset(page) + pos,
                                          Filled(len)) :
              /\ flash' = write.flash
              /\ Fault(write.err)
              /\ last' = <<"write", page, pos, Filled(len), IF write.err THEN "error" ELSE "ok">>
        /\ write_cache' = CachedAfter(commit)
        /\ stored' = StoredAfter(commit)
  /\ writes' = writes + 1
  /\ UNCHANGED <<erases, losses, unreliable>>

(* The commit it needs fails: the write is not taken.                      *)
WriteNotTaken(page, pos, len) ==
  /\ Valid(page, pos, len) /\ len >= MinLen /\ writes < MaxWrites
  /\ ~ write_cache_continues(page, pos, len)
  /\ \E commit \in write_cache_commit :
        /\ commit.err /\ Fault(TRUE)
        /\ flash' = commit.flash
        /\ stored' = StoredAfter(commit)
  /\ last' = <<"write", page, pos, Filled(len), "error">>
  /\ UNCHANGED <<write_cache, writes, erases, losses, unreliable>>

(* zb_osif_nvram_read commits the cache and reads the flash.               *)
Read(page, pos, len) ==
  /\ Valid(page, pos, len)
  /\ \E commit \in write_cache_commit, failed \in BOOLEAN :
        /\ Fault(commit.err \/ failed)
        /\ ~ (commit.err /\ failed)
        /\ flash' = commit.flash
        /\ write_cache' = CachedAfter(commit)
        /\ stored' = StoredAfter(commit)
        /\ last' = IF commit.err \/ failed THEN <<"read", page, pos, <<>>, "error">>
                   ELSE <<"read", page, pos,
                          IF page \in unreliable THEN [i \in 1 .. len |-> "unreliable"]
                          ELSE flash_area_read(commit.flash,
                                               get_page_base_offset(page) + pos, len),
                          "ok">>
  /\ UNCHANGED <<writes, erases, losses, unreliable>>

(* zb_osif_nvram_erase_async erases the page whether or not the commit     *)
(* succeeded.  An erasing that fails may have erased a part of the page.   *)
flash_area_erase(f, page, len) ==
  [a \in Address |-> IF a \in get_page_base_offset(page) .. get_page_base_offset(page) + len - 1
                     THEN Erased ELSE f[a]]
Erase(page) ==
  /\ erases < MaxErases
  /\ erases' = erases + 1
  /\ \E commit \in write_cache_commit, len \in {n \in 0 .. PageLen : n % Block = 0} :
        LET failed == len < PageLen IN
        /\ (faults' = faults + (IF commit.err THEN 1 ELSE 0) + (IF failed THEN 1 ELSE 0))
        /\ faults' <= MaxFaults
        /\ flash' = flash_area_erase(commit.flash, page, len)
        /\ write_cache' = CachedAfter(commit)
        /\ stored' = StoredAfter(commit)
        /\ IF commit.err \/ failed
             THEN /\ unreliable' = unreliable \cup {page}
                  /\ last' = <<"erase", page, "error">>
             ELSE /\ unreliable' = unreliable \ {page}
                  /\ last' = <<"erase", page, "ok">>
  /\ UNCHANGED <<writes, losses>>

(* zb_osif_nvram_flush and zb_osif_nvram_wait_for_last_op: nobody is told  *)
(* of an error.                                                            *)
Flush(failed) ==
  /\ \E commit \in write_cache_commit :
        /\ commit.err = failed /\ Fault(failed)
        /\ flash' = commit.flash
        /\ write_cache' = CachedAfter(commit)
        /\ stored' = StoredAfter(commit)
  /\ last' = <<"flush">>
  /\ UNCHANGED <<writes, erases, losses, unreliable>>

PowerLoss ==
  /\ losses < MaxLosses
  /\ losses' = losses + 1
  /\ write_cache' = [page |-> 0, pos |-> 0, data |-> <<>>]
  /\ stored' = 0
  /\ last' = <<"start">>
  /\ UNCHANGED <<flash, writes, erases, faults, unreliable>>

Next ==
  \/ \E r \in Ranges :
        \/ WriteContinues(r[1], r[2], r[3])
        \/ WriteRestarts(r[1], r[2], r[3])
        \/ WriteDirectly(r[1], r[2], r[3])
        \/ WriteNotTaken(r[1], r[2], r[3])
        \/ Read(r[1], r[2], r[3])
  \/ \E page \in Page : Erase(page)
  \/ \E failed \in BOOLEAN : Flush(failed)
  \/ PowerLoss

Spec == Init /\ [][Next]_vars

-----------------------------------------------------------------------------
(* The cached range lies within its page, so that a commit does not write  *)
(* into the next one, whichever writes were gathered.                      *)
CacheStaysInPage ==
  write_cache.pos + Len(write_cache.data) <= PageLen

(* The driver implements the store: accepted bytes reach the flash in      *)
(* order, none is lost by a failure nobody was told of, none by one that   *)
(* was reported, neighbours in a patched block keep their value, and after *)
(* a failed erasing only that page is in doubt.                            *)
Reliable(a) == a \div PageLen \notin unreliable
durable == [a \in Address |-> IF Reliable(a) THEN flash[a] ELSE "unreliable"]
waiting == [i \in 1 .. Len(write_cache.data) - stored |->
              [at |-> get_page_base_offset(write_cache.page) + write_cache.pos + stored + i - 1,
               val |-> write_cache.data[stored + i]]]
Store == INSTANCE PageStore WITH Value <- Written, store <- durable, queue <- waiting
ImplementsPageStore == Store!Spec
===============================================================================
