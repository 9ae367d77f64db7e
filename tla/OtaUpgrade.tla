------------------------------ MODULE OtaUpgrade ------------------------------
(***************************************************************************)
(* An upgrade over Zigbee: the OTA client of the stack                     *)
(* (lib/zboss/src/zcl/zcl_ota_upgrade_commands.c) with the FOTA library    *)
(* (FotaLibrary), a server it talks to over a network that loses and       *)
(* duplicates frames, and resets of the device at any moment.              *)
(*                                                                         *)
(* The client's functions map the system, a record of its variables cli,   *)
(* the library lib and the requests net the server has not answered, to    *)
(* the next; each frame, alarm and callback is one step, for all run in    *)
(* the ZBOSS thread.  Time is not modelled: alarms expire in any order.    *)
(* An answer is chosen when it arrives.                                    *)
(***************************************************************************)
EXTENDS FotaLibrary

CONSTANTS
  BlockLen,        \* max_data_size
  MaxResendRetries,\* ZCL_OTA_MAX_RESEND_RETRIES
  MaxQueries,      \* bound: Query Next Image requests
  MaxTroubles      \* bound: frames lost, duplicated or answered with an abort,
                   \* failing calls, resets, calls of zigbee_fota_abort and
                   \* rejoins, together

ASSUME ClientAssumption ==
  /\ BlockLen \in Nat \ {0} /\ MaxResendRetries \in Nat \ {0}
  /\ MaxQueries \in Nat /\ MaxTroubles \in Nat

VARIABLES
  synchronous,     \* CONFIG_DFU_TARGET_STREAM_SYNCHRONOUS
  cli,             \* the client: its attributes, its variables and its alarms
  lib,             \* the library, see FotaLibrary
  net,             \* requests of the client
  joined,          \* the device has told its application that it is on a network
  scheduled,       \* history: what the update last scheduled consists of
  misled,          \* history: an end response was received and refused
  queries, troubles

vars == <<synchronous, cli, lib, net, joined, scheduled, misled, queries, troubles>>

Status == {"NORMAL", "DOWNLOADING", "DOWNLOADED", "WAITING_UPGRADE", "COUNT_DOWN"}
Block == [version : Versions, offset : 0 .. TotalSize, len : 0 .. BlockLen]

(* Fields of cli: the attributes image_status and file_offset;             *)
(* block_req_cbs, resend, end_res_timeouts and finish_alarms are what the  *)
(* scheduler still has to call.                                            *)
PoweredOn ==
  [image_status |-> "NORMAL", file_offset |-> None, ota_dfv |-> None,
   download_file_size |-> 0, img_block_req_sent |-> FALSE, pending_img_block_resp |-> None,
   resend_retries |-> 0, resend |-> FALSE, ota_restart_after_rejoin |-> FALSE,
   payload_2_version |-> None,
   block_req_cbs |-> 0, end_res_timeouts |-> 0, finish_alarms |-> 0]

Init ==
  /\ synchronous \in BOOLEAN
  /\ cli = PoweredOn
  /\ lib = [ota_ctx |-> ResetContext, saved |-> None, loaded |-> FALSE,
            dfu |-> [data |-> <<>>, ready |-> FALSE, images_to_download |-> {}]]
  /\ net = {}
  /\ joined = FALSE
  /\ scheduled = None /\ misled = FALSE
  /\ queries = 0 /\ troubles = 0

System == [cli |-> cli, lib |-> lib, net |-> net]
Becomes(s) == \E next \in {s} : cli' = next.cli /\ lib' = next.lib /\ net' = next.net

Request(version, offset) == [name |-> "block", version |-> version, offset |-> offset]

-------------------------------------------------------------------------------
(* The client's functions.                                                 *)

cancel_resend_buffer(s) == [s EXCEPT !.cli.resend = FALSE, !.cli.resend_retries = 0]
schedule_resend_buffer(s) == [s EXCEPT !.cli.resend = TRUE, !.cli.resend_retries = 0]

SendBlockRequest(s, version) ==
  [s EXCEPT !.net = @ \cup {Request(version, s.cli.file_offset)},
            !.cli.img_block_req_sent = TRUE, !.cli.block_req_cbs = @ + 1]
send_block_request(s) == SendBlockRequest(s, s.cli.ota_dfv)

get_next_image_block(s) ==
  cancel_resend_buffer([send_block_request(s) EXCEPT !.cli.payload_2_version = s.cli.ota_dfv])

(* The library hears of it only if there was something to abort.           *)
zcl_ota_abort(s) ==
  LET t == [cancel_resend_buffer(s) EXCEPT
              !.cli.image_status = "NORMAL", !.cli.file_offset = None, !.cli.ota_dfv = None,
              !.cli.img_block_req_sent = FALSE, !.cli.pending_img_block_resp = None]
  IN  IF s.cli.image_status = "NORMAL" THEN t ELSE [t EXCEPT !.lib = ota_dfu_cancel(@)]

(* Only a request with status SUCCESS is answered with an end response.    *)
upgrade_end(s, ok, version) ==
  LET t == IF ok THEN [s EXCEPT !.net = @ \cup {[name |-> "end", version |-> version]}]
           ELSE zcl_ota_abort(s)
  IN  [t EXCEPT !.cli.end_res_timeouts = @ + 1]

process_downloaded_image(s) ==
  LET t == [cancel_resend_buffer(s) EXCEPT !.cli.image_status = "DOWNLOADED",
                                           !.lib = Checked(@)]
  IN  upgrade_end(t, CanVerify(s.lib), s.cli.ota_dfv)

(* What follows a block the library took, or one that was not expected.    *)
NextBlock(s, get_next_block) ==
  IF s.cli.download_file_size > s.cli.file_offset
  THEN IF get_next_block THEN get_next_image_block(s) ELSE s
  ELSE process_downloaded_image(s)

(* The library moves file_offset itself, unless it took nothing.           *)
OffsetAfter_block(r, block) == block.offset + block.len
OffsetAfter(r, block) ==
  IF r.consumed > 0 THEN ota_file_offset(r.lib) ELSE block.offset + block.len

BlockTaken(s, block, r) ==
  LET t == [cancel_resend_buffer(s) EXCEPT !.lib = r.lib, !.cli.file_offset = OffsetAfter(r, block)]
  IN  IF r.ok THEN NextBlock(t, TRUE) ELSE upgrade_end(t, FALSE, s.cli.ota_dfv)
ExpectedBlock(s, block, fault) ==
  BlockTaken(s, block, ota_process_chunk(s.lib, block, s.cli.image_status = "DOWNLOADING",
                                         synchronous, fault))

UnexpectedBlock_disarmed(s) ==
  NextBlock(cancel_resend_buffer([s EXCEPT !.cli.ota_restart_after_rejoin = FALSE]),
            s.cli.ota_restart_after_rejoin)
UnexpectedBlock(s) ==
  NextBlock([s EXCEPT !.cli.ota_restart_after_rejoin = FALSE], s.cli.ota_restart_after_rejoin)

(* An answer: a block, or that the server makes the client wait, or that   *)
(* it aborts.                                                              *)
image_block_resp_handler(s, answer, fault) ==
  IF s.cli.image_status # "DOWNLOADING" THEN s
  ELSE CASE answer.status = "WAIT_FOR_DATA" -> cancel_resend_buffer(send_block_request(s))
         [] answer.status = "ABORT" -> zcl_ota_abort(s)
         [] answer.status = "SUCCESS" ->
              IF answer.block.version # s.cli.ota_dfv THEN s
              ELSE IF answer.block.offset = s.cli.file_offset
                THEN ExpectedBlock(s, answer.block, fault)
              ELSE UnexpectedBlock(s)

-------------------------------------------------------------------------------
(* The server and the network.                                             *)

Troubled(t) == (t => troubles < MaxTroubles) /\ troubles' = IF t THEN troubles + 1 ELSE troubles

(* The request r is answered.  A duplicate leaves it to be answered again. *)
Answered(r, duplicate) == IF duplicate THEN net ELSE net \ {r}

BlockAt(r) ==
  [version |-> r.version, offset |-> r.offset, len |-> Smaller(BlockLen, TotalSize - r.offset)]
Answers(r) ==
  {[status |-> "SUCCESS", block |-> BlockAt(r)] : v \in Versions \cap {r.version}}
    \cup {[status |-> st, block |-> None] : st \in {"WAIT_FOR_DATA", "ABORT"}}

Lose(r) ==
  /\ r \in net /\ Troubled(TRUE)
  /\ net' = net \ {r}
  /\ UNCHANGED <<synchronous, cli, lib, joined, scheduled, misled, queries>>

-------------------------------------------------------------------------------
(* The actions.                                                            *)

(* The query timer expires or the server announces an image.               *)
QueryNextImage ==
  /\ joined /\ cli.image_status = "NORMAL" /\ queries < MaxQueries
  /\ net' = net \cup {[name |-> "query"]}
  /\ queries' = queries + 1
  /\ UNCHANGED <<synchronous, cli, lib, joined, scheduled, misled, troubles>>

(* The library refuses an image while it is busy with another, and one     *)
(* that is not newer.                                                      *)
Accepts(version) == cli.image_status = "NORMAL" /\ version > Current
query_next_image_resp(version, duplicate) ==
  LET r == [name |-> "query"]
      answered == [System EXCEPT !.net = Answered(r, duplicate)]
      started == [answered EXCEPT !.lib = Start(@, version),
                    !.cli.file_offset = 0, !.cli.ota_dfv = version,
                    !.cli.download_file_size = TotalSize,
                    !.cli.image_status = "DOWNLOADING",
                    !.cli.payload_2_version = version]
  IN
  /\ r \in net /\ Troubled(duplicate)
  /\ Becomes(IF Accepts(version) THEN schedule_resend_buffer(send_block_request(started))
             ELSE answered)
  /\ UNCHANGED <<synchronous, joined, scheduled, misled, queries>>

(* A block response that comes before the callback of the request waits    *)
(* for it; a second one is dropped.                                        *)
image_block_resp(r, answer, duplicate, fault) ==
  LET s == [System EXCEPT !.net = Answered(r, duplicate)]
  IN
  /\ r \in net
  /\ Troubled(duplicate \/ answer.status = "ABORT" \/ fault # "none")
  /\ Becomes(IF ~ cli.img_block_req_sent THEN image_block_resp_handler(s, answer, fault)
             ELSE IF cli.pending_img_block_resp = None
               THEN [s EXCEPT !.cli.pending_img_block_resp = answer]
             ELSE s)
  /\ UNCHANGED <<synchronous, joined, scheduled, misled, queries>>

RequestSent(s) ==
  [s EXCEPT !.cli.block_req_cbs = @ - 1, !.cli.img_block_req_sent = FALSE, !.cli.resend = TRUE]
block_req_cb(fault) ==
  LET answer == cli.pending_img_block_resp
      s == RequestSent(System)
      t == IF answer = None THEN s ELSE image_block_resp_handler(s, answer, fault)
  IN
  /\ cli.block_req_cbs > 0
  /\ Troubled(fault # "none")
  /\ Becomes([t EXCEPT !.cli.pending_img_block_resp = None])
  /\ UNCHANGED <<synchronous, joined, scheduled, misled, queries>>

resend_buffer ==
  LET s == [System EXCEPT !.cli.resend = FALSE, !.cli.ota_restart_after_rejoin = FALSE]
      retries == cli.resend_retries + 1
      t == [s EXCEPT !.cli.resend_retries = retries]
  IN
  /\ cli.resend
  /\ Becomes(IF cli.image_status # "DOWNLOADING" THEN s
             ELSE IF retries < MaxResendRetries THEN SendBlockRequest(t, cli.payload_2_version)
             ELSE upgrade_end(t, FALSE, cli.payload_2_version))
  /\ UNCHANGED <<synchronous, joined, scheduled, misled, queries, troubles>>

(* The end response: upgrade later (no time), or at a time.  Whatever it   *)
(* says it stops the timeout; only then one for another file or with a     *)
(* time that is past is refused.                                           *)
Times == {"later", "coming", "past"}
upgrade_end_resp(version, time, duplicate) ==
  LET r == [name |-> "end", version |-> version]
      s == [System EXCEPT !.net = Answered(r, duplicate),
              !.cli.end_res_timeouts = IF @ = 0 THEN 0 ELSE @ - 1]
      refused == version # cli.ota_dfv \/ time = "past"
  IN
  /\ r \in net /\ Troubled(duplicate)
  /\ Becomes(IF refused THEN s
             ELSE IF time = "later" THEN [s EXCEPT !.cli.image_status = "WAITING_UPGRADE"]
             ELSE [s EXCEPT !.cli.image_status = "COUNT_DOWN", !.cli.finish_alarms = @ + 1])
  /\ misled' = (misled \/ refused)
  /\ UNCHANGED <<synchronous, joined, scheduled, queries>>

end_res_timeout ==
  /\ cli.end_res_timeouts > 0
  /\ Becomes(zcl_ota_abort([System EXCEPT !.cli.end_res_timeouts = @ - 1]))
  /\ UNCHANGED <<synchronous, joined, scheduled, misled, queries, troubles>>

(* The update is scheduled if no image is missing, else the library aborts *)
(* it; dfu_multi_image_done(false) closes what is closed already.          *)
finish_upgrade ==
  /\ cli.finish_alarms > 0
  /\ Becomes([System EXCEPT !.cli.finish_alarms = @ - 1, !.cli.image_status = "NORMAL",
                            !.lib = IF CanSchedule(@) THEN @ ELSE ota_dfu_cancel(@)])
  /\ scheduled' = IF CanSchedule(lib) THEN lib.dfu.data ELSE scheduled
  /\ UNCHANGED <<synchronous, joined, misled, queries, troubles>>

(* The server answers anything with an abort.                              *)
default_resp_abort ==
  /\ net # {} /\ Troubled(TRUE)
  /\ Becomes(zcl_ota_abort(System))
  /\ UNCHANGED <<synchronous, joined, scheduled, misled, queries>>

zigbee_fota_abort ==
  /\ Troubled(TRUE)
  /\ Becomes([System EXCEPT !.lib = ota_dfu_cancel(@)])
  /\ UNCHANGED <<synchronous, joined, scheduled, misled, queries>>

(* DEVICE_REBOOT or STEERING succeeded: a download that was restored after *)
(* a reset goes on by a resend.                                            *)
zigbee_fota_signal_handler ==
  LET restored == [System EXCEPT !.cli.download_file_size = lib.ota_ctx.total_size,
                                 !.cli.ota_dfv = lib.ota_ctx.target_file_version]
      restarted == [restored EXCEPT !.cli.ota_restart_after_rejoin = TRUE,
                                    !.cli.payload_2_version = restored.cli.ota_dfv]
  IN
  /\ Troubled(joined)
  /\ Becomes(IF ~ lib.loaded THEN System
             ELSE IF cli.image_status # "DOWNLOADING" THEN restored
             ELSE schedule_resend_buffer(restarted))
  /\ joined' = TRUE
  /\ UNCHANGED <<synchronous, scheduled, misled, queries>>

(* A reset: the targets keep the bytes up to the last save of their        *)
(* progress.  zigbee_fota_init follows.                                    *)
PowerLoss(kept, dfu_ok) ==
  LET loaded == ota_resume_load(Booted(lib, kept), dfu_ok) IN
  /\ Troubled(TRUE)
  /\ lib' = loaded
  /\ cli' = IF ~ loaded.loaded THEN PoweredOn
            ELSE [PoweredOn EXCEPT !.image_status = "DOWNLOADING",
                                   !.file_offset = ota_file_offset(loaded)]
  /\ joined' = FALSE
  /\ UNCHANGED <<synchronous, net, scheduled, misled, queries>>

Faults == {"none", "init", "write", "save"}
Next ==
  \/ QueryNextImage
  \/ \E version \in Versions, duplicate \in BOOLEAN : query_next_image_resp(version, duplicate)
  \/ \E r \in {q \in net : q.name = "block"}, duplicate \in BOOLEAN, fault \in Faults :
       \E answer \in Answers(r) : image_block_resp(r, answer, duplicate, fault)
  \/ \E fault \in Faults : block_req_cb(fault)
  \/ resend_buffer
  \/ \E version \in Versions, time \in Times, duplicate \in BOOLEAN :
       upgrade_end_resp(version, time, duplicate)
  \/ end_res_timeout
  \/ finish_upgrade
  \/ default_resp_abort
  \/ zigbee_fota_abort
  \/ zigbee_fota_signal_handler
  \/ \E r \in net : Lose(r)
  \/ \E kept \in 0 .. Len(lib.dfu.data), dfu_ok \in BOOLEAN : PowerLoss(kept, dfu_ok)

Spec == Init /\ [][Next]_vars

(* ZBOSS ends every transmission and calls every alarm; a server and a     *)
(* network owe the client nothing.  Each line is the weak fairness of one  *)
(* action, with its guard written out: the guard is false again and again, *)
(* or the action happens again and again.                                  *)
Fairness ==
  /\ []<>(cli.block_req_cbs = 0) \/ []<><<block_req_cb("none")>>_vars
  /\ []<>(~ cli.resend) \/ []<><<resend_buffer>>_vars
  /\ []<>(cli.end_res_timeouts = 0) \/ []<><<end_res_timeout>>_vars
  /\ []<>(cli.finish_alarms = 0) \/ []<><<finish_upgrade>>_vars
FairSpec == Spec /\ Fairness

-------------------------------------------------------------------------------
Client ==
  [image_status : Status, file_offset : 0 .. TotalSize \cup {None},
   ota_dfv : Versions \cup {None}, download_file_size : {0, TotalSize},
   img_block_req_sent : BOOLEAN,
   pending_img_block_resp :
     [status : {"SUCCESS"}, block : Block]
       \cup [status : {"WAIT_FOR_DATA", "ABORT"}, block : {None}] \cup {None},
   resend_retries : 0 .. MaxResendRetries, resend : BOOLEAN,
   ota_restart_after_rejoin : BOOLEAN, payload_2_version : Versions \cup {None},
   block_req_cbs : Nat, end_res_timeouts : Nat, finish_alarms : Nat]

(* The client's variables are of their types; the library's parser stays   *)
(* within the file (ota_process_chunk).                                    *)
TypeOK ==
  /\ synchronous \in BOOLEAN /\ joined \in BOOLEAN /\ misled \in BOOLEAN
  /\ cli \in Client
  /\ net \subseteq {[name |-> "query"]} \cup {Request(v, o) : v \in Versions \cup {None}, o \in 0 .. TotalSize}
                     \cup {[name |-> "end", version |-> v] : v \in Versions}
  /\ lib.saved # None => lib.saved.target_file_version \in Versions
  /\ ota_file_offset(lib) \in 0 .. TotalSize
  /\ Len(lib.ota_ctx.stream_carry) < Align
  /\ queries \in 0 .. MaxQueries /\ troubles \in 0 .. MaxTroubles

(* Whatever is lost, duplicated, refused or interrupted by a reset, the    *)
(* bytes in the DFU targets are the first of one version's image: none is  *)
(* skipped, repeated or of another file (ota_process_firmware and the      *)
(* resume state).                                                          *)
TargetIsFile ==
  LET data == lib.dfu.data IN
  /\ Len(data) <= BinSize
  /\ \E v \in Versions : \A i \in 1 .. Len(data) : data[i] = Image(v)[i]

(* The client asks for the byte the library needs next: the attribute the  *)
(* stack requests blocks by and the library's own place in the file agree, *)
(* also after a skipped sub-element and after a reset, unless the          *)
(* application has aborted the library's half.                             *)
OffsetsAgree ==
  cli.image_status = "DOWNLOADING" /\ lib.ota_ctx.target_file_version # None =>
    cli.file_offset = ota_file_offset(lib)

(* An update is never scheduled from a part of an image, whatever became   *)
(* of the download since the end response was asked for.  (Aborted in the  *)
(* count-down it is scheduled still, from the targets' empty buffers.)     *)
NoPartIsScheduled ==
  scheduled = None \/ scheduled = <<>> \/ \E v \in Versions : scheduled = Image(v)

(* Something is always due that moves an upgrade on or ends it: while a    *)
(* download goes on, a request the stack is not done with or the resend    *)
(* alarm (it is cancelled and armed in six places); while the end response *)
(* is awaited, its timeout, unless a response that was refused stopped it. *)
DownloadIsDriven ==
  /\ joined /\ cli.image_status = "DOWNLOADING" /\ (cli.ota_dfv # None \/ lib.loaded)
       => cli.block_req_cbs > 0 \/ cli.resend
  /\ cli.image_status = "DOWNLOADED" /\ ~ misled => cli.end_res_timeouts > 0

(* The server makes the client wait (WAIT_FOR_DATA).                       *)
Postponed ==
  \E r \in {q \in net : q.name = "block"}, duplicate \in BOOLEAN :
    image_block_resp(r, [status |-> "WAIT_FOR_DATA", block |-> None], duplicate, "none")

===============================================================================
