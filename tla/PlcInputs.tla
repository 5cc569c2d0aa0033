------------------------------ MODULE PlcInputs ------------------------------
(***************************************************************************)
(* The input half of the process image (src/main/plc_io.cpp) and the       *)
(* remote I/O packets that feed it (src/main/udp_server.c).                *)
(*                                                                         *)
(* plc_scan_task samples the pins each millisecond, debounces them into    *)
(* the process image, and lets a fresh remote image overwrite them.  Then, *)
(* in a second critical section, it fetches the image of the UDP tags and  *)
(* writes it to the tag table.  udp_server_task publishes each accepted    *)
(* packet into two double buffers: a version 2 packet carries tag values   *)
(* and inputs and is published tags first, a version 1 packet inputs only. *)
(*                                                                         *)
(* A packet is its number in order of reception.  Time is the number of    *)
(* packets that are by now older than PLC_UDP_IO_STALE_US.                 *)
(***************************************************************************)
EXTENDS Naturals, Sequences

CONSTANTS
  Inputs,         \* the digital inputs
  DebounceTicks,  \* PLC_DEBOUNCE_TICKS
  MaxPackets      \* bound: packets received

ASSUME InputsAssumption ==
  /\ DebounceTicks \in Nat \ {0}
  /\ MaxPackets \in Nat

VARIABLES
  input,          \* g_io: candidate, stable count and debounced value per input
  remote,         \* the double buffer of input images and its statistics
  tags,           \* the double buffer of tag images and its statistics
  tagBank,        \* packet whose values the UDP_* tags hold
  io,             \* program counter of plc_scan_task
  sample,         \* its locals: raw,
  now,            \*   now_us,
  toWrite,        \*   active_img of the tag write, if it is to be written
  udp,            \* program counter of udp_server_task
  packet,         \* the packet it handles
  received,       \* packets received so far
  stale,          \* of these, the number that are too old by now
  latest,         \* history: input image published last since the last reset
  samples         \* history: the last DebounceTicks samples of each input

ioVars   == <<io, sample, now, toWrite>>
udpVars  == <<udp, packet, received>>

vars == <<input, remote, tags, tagBank, ioVars, udpVars, stale, latest, samples>>

Levels == [Inputs -> BOOLEAN]

\* PlcUdpInputImage and PlcUdpTagImage.  Sequence number 0: no image.
Image   == [seq : 0 .. MaxPackets, version : {1, 2}, di : Levels]
NoImage == [seq |-> 0, version |-> 1, di |-> [i \in Inputs |-> FALSE]]

\* A double buffer with its publish index, the generation it has published,
\* which is also its publish count, the generation consumed, the image copied
\* out last, and the counts of images consumed and missed.  "first" is a
\* history field: the generation consumed first.
EmptyBuffer ==
  [slot |-> [k \in {0, 1} |-> NoImage], index |-> 0, published |-> 0,
   consumed |-> 0, active |-> NoImage, consumes |-> 0, missed |-> 0, first |-> 0]

Init ==
  /\ input = [i \in Inputs |-> [candidate |-> FALSE, stable |-> 0, debounced |-> FALSE]]
  /\ remote = EmptyBuffer
  /\ tags = EmptyBuffer
  /\ tagBank = 0
  /\ io = "waiting"
  /\ sample = [i \in Inputs |-> FALSE]
  /\ now = 0
  /\ toWrite = 0
  /\ udp = "waiting"
  /\ packet = [image |-> NoImage, reset |-> FALSE]
  /\ received = 0
  /\ stale = 0
  /\ latest = NoImage
  /\ samples = [i \in Inputs |-> << >>]

-----------------------------------------------------------------------------
(***************************************************************************)
(* The double buffers                                                      *)
(***************************************************************************)
Publish(buffer, image) ==
  [buffer EXCEPT !.slot[1 - buffer.index] = image,
                 !.index = 1 - buffer.index,
                 !.published = @ + 1]

\* An off-by-one in the count of missed images.
FetchCountsOneMore(buffer) ==
  IF buffer.published = buffer.consumed THEN buffer
  ELSE [buffer EXCEPT
         !.active = buffer.slot[buffer.index],
         !.missed = @ + (IF buffer.consumed # 0
                         THEN buffer.published - buffer.consumed ELSE 0),
         !.consumed = buffer.published,
         !.consumes = @ + 1,
         !.first = IF @ = 0 THEN buffer.published ELSE @]

\* Copy the newest image out if there is a new one.  Images missed before the
\* first one is consumed are not counted.
Fetch(buffer) ==
  IF buffer.published = buffer.consumed THEN buffer
  ELSE [buffer EXCEPT
         !.active = buffer.slot[buffer.index],
         !.missed = @ + (IF buffer.consumed # 0
                         THEN buffer.published - buffer.consumed - 1 ELSE 0),
         !.consumed = buffer.published,
         !.consumes = @ + 1,
         !.first = IF @ = 0 THEN buffer.published ELSE @]

-----------------------------------------------------------------------------
(***************************************************************************)
(* plc_scan_task: plc_io_tick_1ms                                          *)
(***************************************************************************)

\* gpio_get_level of every input, then esp_timer_get_time.
IoSample ==
  /\ io = "waiting"
  /\ io' = "sampled"
  /\ sample' \in Levels
  /\ now' = stale
  /\ UNCHANGED <<input, remote, tags, tagBank, toWrite, udpVars, stale, latest,
                 samples>>

\* A stable count that is not limited.
DebouncedUnlimited(in, level) ==
  IF level # in.candidate
  THEN [in EXCEPT !.candidate = level, !.stable = 1]
  ELSE [in EXCEPT !.stable = @ + 1,
                  !.debounced = IF in.stable + 1 >= DebounceTicks THEN level ELSE @]

Debounced(in, level) ==
  IF level # in.candidate
  THEN [in EXCEPT !.candidate = level, !.stable = 1]
  ELSE LET count == IF in.stable < DebounceTicks THEN in.stable + 1 ELSE in.stable
       IN  [in EXCEPT !.stable = count,
                      !.debounced = IF count >= DebounceTicks THEN level ELSE @]

\* A remote image that leaves the debounce candidate alone.
OverwrittenKeepsCandidate(in, level) ==
  [in EXCEPT !.stable = DebounceTicks, !.debounced = level]

Overwritten(in, level) ==
  [in EXCEPT !.candidate = level, !.stable = DebounceTicks, !.debounced = level]

\* The critical section of g_io_lock: debounce, then mirror the remote image
\* if it is not too old.
IoProcess ==
  /\ io = "sampled"
  /\ io' = "processed"
  /\ remote' = Fetch(remote)
  /\ input' = [i \in Inputs |->
       LET physical == Debounced(input[i], sample[i])
       IN  IF remote'.active.seq > now
           THEN Overwritten(physical, remote'.active.di[i]) ELSE physical]
  /\ samples' = [i \in Inputs |->
       LET all == Append(samples[i], sample[i])
       IN  IF Len(all) > DebounceTicks THEN Tail(all) ELSE all]
  /\ UNCHANGED <<tags, tagBank, sample, now, toWrite, udpVars, stale, latest>>

\* plc_io_consume_udp_tag_image_scan: only a new image that is not too old is
\* written.
IoFetchTags ==
  /\ io = "processed"
  /\ io' = "fetched"
  /\ tags' = Fetch(tags)
  /\ toWrite' = IF tags.published # tags.consumed /\ tags'.active.seq > now
                THEN tags'.active.seq ELSE 0
  /\ UNCHANGED <<input, remote, tagBank, sample, now, udpVars, stale, latest,
                 samples>>

\* plc_tags_write_udp_cached_values, under the tag mutex; the locals of this
\* tick end with it.
IoWriteTags ==
  /\ io = "fetched"
  /\ io' = "waiting"
  /\ tagBank' = IF toWrite # 0 THEN toWrite ELSE tagBank
  /\ toWrite' = 0
  /\ sample' = [i \in Inputs |-> FALSE]
  /\ UNCHANGED <<input, remote, tags, now, udpVars, stale, latest, samples>>

-----------------------------------------------------------------------------
(***************************************************************************)
(* udp_server_task: validate_and_publish_udp_io.  Packets that fail the    *)
(* checks change nothing.                                                  *)
(***************************************************************************)
UdpReceive ==
  /\ udp = "waiting"
  /\ received < MaxPackets
  /\ received' = received + 1
  /\ \E version \in {1, 2}, reset \in BOOLEAN, di \in Levels :
       /\ packet' = [image |-> [seq |-> received', version |-> version, di |-> di],
                     reset |-> reset]
       /\ udp' = IF reset THEN "resetting"
                 ELSE IF version = 2 THEN "publishingTags" ELSE "publishingInputs"
  /\ UNCHANGED <<input, remote, tags, tagBank, ioVars, stale, latest, samples>>

\* A reset that forgets the consumed generation.
UdpResetKeepsConsumed ==
  /\ udp = "resetting"
  /\ udp' = IF packet.image.version = 2 THEN "publishingTags" ELSE "publishingInputs"
  /\ remote' = [EmptyBuffer EXCEPT !.consumed = remote.consumed]
  /\ tags' = [EmptyBuffer EXCEPT !.consumed = tags.consumed]
  /\ latest' = NoImage
  /\ UNCHANGED <<input, tagBank, ioVars, packet, received, stale, samples>>

\* The request flag RESET_STATS: plc_io_clear_udp_io_stats empties the
\* statistics and the buffers.
UdpReset ==
  /\ udp = "resetting"
  /\ udp' = IF packet.image.version = 2 THEN "publishingTags" ELSE "publishingInputs"
  /\ remote' = EmptyBuffer
  /\ tags' = EmptyBuffer
  /\ latest' = NoImage
  /\ UNCHANGED <<input, tagBank, ioVars, packet, received, stale, samples>>

\* Tags published after the inputs of the same packet.
UdpPublishTagsLate ==
  /\ udp = "publishingTags"
  /\ \/ /\ latest # packet.image
        /\ remote' = Publish(remote, packet.image)
        /\ latest' = packet.image
        /\ UNCHANGED <<udp, tags>>
     \/ /\ latest = packet.image
        /\ tags' = Publish(tags, packet.image)
        /\ udp' = "waiting"
        /\ UNCHANGED <<remote, latest>>
  /\ UNCHANGED <<input, tagBank, ioVars, packet, received, stale, samples>>

\* plc_io_publish_udp_tag_image ...
UdpPublishTags ==
  /\ udp = "publishingTags"
  /\ udp' = "publishingInputs"
  /\ tags' = Publish(tags, packet.image)
  /\ UNCHANGED <<input, remote, tagBank, ioVars, packet, received, stale,
                 latest, samples>>

\* ... and plc_io_publish_udp_input_image.
UdpPublishInputs ==
  /\ udp = "publishingInputs"
  /\ udp' = "waiting"
  /\ remote' = Publish(remote, packet.image)
  /\ latest' = packet.image
  /\ UNCHANGED <<input, tags, tagBank, ioVars, packet, received, stale, samples>>

\* Time passes: the oldest packet that was not too old becomes so.
PacketAges ==
  /\ stale < received
  /\ stale' = stale + 1
  /\ UNCHANGED <<input, remote, tags, tagBank, ioVars, udpVars, latest, samples>>

-----------------------------------------------------------------------------
IoStep  == IoSample \/ IoProcess \/ IoFetchTags \/ IoWriteTags
UdpStep == UdpReceive \/ UdpReset \/ UdpPublishTags \/ UdpPublishInputs

Next == IoStep \/ UdpStep \/ PacketAges

Spec == Init /\ [][Next]_vars

-----------------------------------------------------------------------------
(***************************************************************************)
(* Properties.  The definitions above whose comment describes a fault ("An *)
(* off-by-one ...") are faulty variants of the definition that follows     *)
(* them and are not used by the model.                                     *)
(***************************************************************************)
InputState == [candidate : BOOLEAN, stable : 0 .. DebounceTicks, debounced : BOOLEAN]

Buffer ==
  [slot : [{0, 1} -> Image], index : {0, 1}, published : Nat, consumed : Nat,
   active : Image, consumes : Nat, missed : Nat, first : Nat]

\* The type invariant.
TypeOK ==
  /\ input \in [Inputs -> InputState]
  /\ remote \in Buffer
  /\ tags \in Buffer
  /\ tagBank \in 0 .. MaxPackets
  /\ io \in {"waiting", "sampled", "processed", "fetched"}
  /\ sample \in Levels
  /\ now \in 0 .. MaxPackets
  /\ toWrite \in 0 .. MaxPackets
  /\ udp \in {"waiting", "resetting", "publishingTags", "publishingInputs"}
  /\ packet \in [image : Image, reset : BOOLEAN]
  /\ received \in 0 .. MaxPackets
  /\ stale \in 0 .. received
  /\ latest \in Image
  /\ samples \in [Inputs -> Seq(BOOLEAN)]

\* The loss statistics (missed_update_count, tag_missed_update_count): from the
\* first image consumed since a reset on, every published image is either
\* consumed or counted as missed, exactly once, or still to be looked at.
Accounted(buffer) ==
  buffer.consumed # 0 =>
    buffer.consumes + buffer.missed + buffer.first = buffer.consumed + 1

LossAccounted == Accounted(remote) /\ Accounted(tags)

\* Debouncing (PLC_DEBOUNCE_TICKS): a tick without a fresh remote image changes
\* an input only to a level that the last DebounceTicks samples agree on, also
\* when remote images have come and gone in between.
RemoteFresh == latest.seq > now

DebounceHolds ==
  [][io = "sampled" /\ io' = "processed" /\ ~RemoteFresh =>
       \A i \in Inputs :
         input'[i].debounced # input[i].debounced =>
           samples'[i] = [k \in 1 .. DebounceTicks |-> input'[i].debounced]]_vars

\* What plc_io.hpp says of the tick: it consumes the latest complete image and
\* mirrors it into the process image, whatever was published, missed or reset
\* between two ticks.
LatestImageWins ==
  [][io = "sampled" /\ io' = "processed" /\ RemoteFresh =>
       \A i \in Inputs : input'[i].debounced = latest.di[i]]_vars

\* Inputs never run ahead of the tags of their packet: at the end of a tick
\* whose inputs come from a version 2 packet, the UDP tags hold the values of
\* that packet or of a later one, although the two images are published and
\* fetched in critical sections of their own.
TagsNotBehindInputs ==
  io = "waiting" /\ remote.active.version = 2 /\ remote.active.seq > now =>
    tagBank >= remote.active.seq

=============================================================================
