--------------------------- MODULE PlcInputsProofs ---------------------------
(***************************************************************************)
(* Proofs about PlcInputs, for every set of inputs, every number of        *)
(* debounce ticks and every number of packets.                             *)
(***************************************************************************)
EXTENDS PlcInputs, SequenceTheorems, TLAPS

\* The image a double buffer shows to the next fetch.
Newest(buffer) == buffer.slot[buffer.index]

\* A double buffer by itself: nothing is consumed that was not published, and
\* without news the image copied out is the newest one.
Sound(buffer) ==
  /\ buffer.consumed <= buffer.published
  /\ buffer.consumed = buffer.published => buffer.active = Newest(buffer)
  /\ buffer.consumed = 0 =>
       buffer.first = 0 /\ buffer.consumes = 0 /\ buffer.missed = 0
  /\ buffer.consumed # 0 => buffer.first # 0

\* The newest input image is the one published last.
LatestIsNewest == latest = Newest(remote)

\* The newest tag image is not older than an input image of version 2, because
\* the tags of a packet are published first and a reset empties both.
TagsPublishedFirst ==
  /\ latest.version = 2 => Newest(tags).seq >= latest.seq
  /\ remote.active.version = 2 => Newest(tags).seq >= remote.active.seq
  /\ Newest(tags).seq <= received
  /\ tags.active.seq <= Newest(tags).seq
  /\ packet.image.seq <= received
  /\ udp = "publishingTags" =>
       packet.image.seq > Newest(tags).seq
  /\ udp # "waiting" => packet.image.seq # 0
  /\ udp = "publishingInputs" /\ packet.image.version = 2 =>
       Newest(tags).seq >= packet.image.seq

\* Between two ticks the tag image copied out is not older than the inputs ...
TagsFetched ==
  io # "processed" /\ remote.active.version = 2 =>
    tags.active.seq >= remote.active.seq

\* ... and it has been written, or will be at the end of this tick, unless it
\* was too old.
TagsWritten ==
  /\ tags.active.seq > now =>
       \/ tagBank >= tags.active.seq
       \/ io = "fetched" /\ toWrite = tags.active.seq
  /\ io = "fetched" /\ toWrite # 0 => tags.active.seq <= toWrite
  /\ now <= stale

IInv ==
  /\ TypeOK
  /\ Sound(remote) /\ Sound(tags)
  /\ LossAccounted
  /\ LatestIsNewest /\ TagsPublishedFirst /\ TagsFetched /\ TagsWritten

-----------------------------------------------------------------------------
\* The operators on double buffers.
LEMMA EmptyType == EmptyBuffer \in Buffer /\ Sound(EmptyBuffer)
BY InputsAssumption
DEF EmptyBuffer, Buffer, NoImage, Image, Levels, Sound, Newest

LEMMA PublishKeeps ==
  ASSUME NEW buffer \in Buffer, NEW image \in Image, Sound(buffer)
  PROVE  /\ Publish(buffer, image) \in Buffer
         /\ Sound(Publish(buffer, image))
         /\ Newest(Publish(buffer, image)) = image
         /\ Publish(buffer, image).active = buffer.active
         /\ Accounted(buffer) => Accounted(Publish(buffer, image))
<1> DEFINE after == Publish(buffer, image)
<1>1. /\ buffer.slot \in [{0, 1} -> Image] /\ 1 - buffer.index \in {0, 1}
      /\ buffer.published \in Nat /\ buffer.consumed \in Nat
  BY DEF Buffer
<1>2. /\ after.slot = [buffer.slot EXCEPT ![1 - buffer.index] = image]
      /\ after.index = 1 - buffer.index
      /\ after.published = buffer.published + 1
      /\ after.consumed = buffer.consumed
      /\ after.active = buffer.active /\ after.consumes = buffer.consumes
      /\ after.missed = buffer.missed /\ after.first = buffer.first
  BY DEF Publish, Buffer
<1>3. after \in Buffer
  <2>1. after.slot \in [{0, 1} -> Image] /\ after.published \in Nat
    BY <1>1, <1>2
  <2>2. after = [buffer EXCEPT !.slot = after.slot, !.index = after.index,
                               !.published = after.published]
    BY <1>2 DEF Publish, Buffer
  <2>3. QED
    BY <1>1, <1>2, <2>1, <2>2 DEF Buffer
<1>4. Newest(after) = image
  BY <1>1, <1>2 DEF Newest
<1>5. Sound(after)
  BY <1>1, <1>2 DEF Sound
<1>6. Accounted(buffer) => Accounted(after)
  BY <1>2 DEF Accounted
<1>7. QED
  BY <1>2, <1>3, <1>4, <1>5, <1>6

LEMMA FetchKeeps ==
  ASSUME NEW buffer \in Buffer, Sound(buffer), Accounted(buffer)
  PROVE  /\ Fetch(buffer) \in Buffer
         /\ Sound(Fetch(buffer))
         /\ Newest(Fetch(buffer)) = Newest(buffer)
         /\ Fetch(buffer).active = Newest(buffer)
         /\ Accounted(Fetch(buffer))
<1>1. CASE buffer.published = buffer.consumed
  BY <1>1 DEF Fetch, Sound
<1>2. CASE buffer.published # buffer.consumed
  <2> DEFINE after == Fetch(buffer)
             lost == IF buffer.consumed # 0
                     THEN buffer.published - buffer.consumed - 1 ELSE 0
  <2>1. /\ buffer.published \in Nat /\ buffer.consumed \in Nat
        /\ buffer.missed \in Nat /\ buffer.consumes \in Nat /\ buffer.first \in Nat
        /\ buffer.consumed < buffer.published
    BY <1>2 DEF Buffer, Sound
  <2>2. lost \in Nat
    BY <2>1
  <2>3. /\ after.slot = buffer.slot /\ after.index = buffer.index
        /\ after.active = Newest(buffer)
        /\ after.published = buffer.published
        /\ after.consumed = buffer.published
        /\ after.missed = buffer.missed + lost
        /\ after.consumes = buffer.consumes + 1
        /\ after.first = IF buffer.first = 0 THEN buffer.published ELSE buffer.first
    BY <1>2 DEF Fetch, Buffer, Newest
  <2> HIDE DEF lost
  <2>4. after.missed \in Nat /\ after.consumes \in Nat /\ after.first \in Nat
    BY <2>1, <2>2, <2>3
  <2>5. Newest(buffer) \in Image
    BY DEF Newest, Buffer
  <2>6. after \in Buffer
    BY <1>2, <2>3, <2>4, <2>5 DEF Fetch, Buffer, Newest
  <2>7. Newest(after) = Newest(buffer)
    BY <2>3 DEF Newest
  <2>8. Sound(after)
    BY <2>1, <2>3, <2>7 DEF Sound
  <2>9. Accounted(after)
    <3>1. CASE buffer.consumed = 0
      BY <2>1, <2>3, <3>1 DEF Sound, Accounted, lost
    <3>2. CASE buffer.consumed # 0
      BY <2>1, <2>3, <3>2 DEF Sound, Accounted, lost
    <3>3. QED
      BY <3>1, <3>2
  <2>10. QED
    BY <2>3, <2>6, <2>7, <2>8, <2>9
<1>3. QED
  BY <1>1, <1>2

-----------------------------------------------------------------------------
LEMMA InitInvariant == Init => IInv
<1> SUFFICES ASSUME Init PROVE IInv
  OBVIOUS
<1>1. NoImage \in Image
  BY InputsAssumption DEF NoImage, Image, Levels
<1>2. TypeOK
  <2>1. << >> \in Seq(BOOLEAN)
    OBVIOUS
  <2>2. packet \in [image : Image, reset : BOOLEAN] /\ latest \in Image
    BY <1>1 DEF Init
  <2>3. input \in [Inputs -> InputState] /\ sample \in Levels
    BY InputsAssumption DEF Init, InputState, Levels
  <2>4. samples \in [Inputs -> Seq(BOOLEAN)]
    BY <2>1 DEF Init
  <2>5. remote \in Buffer /\ tags \in Buffer
    BY EmptyType DEF Init
  <2>6. QED
    BY <2>2, <2>3, <2>4, <2>5, InputsAssumption DEF Init, TypeOK
<1>3. Sound(remote) /\ Sound(tags)
  BY EmptyType DEF Init
<1>4. Newest(EmptyBuffer) = NoImage /\ EmptyBuffer.active = NoImage
  BY DEF EmptyBuffer, Newest
<1>5. LossAccounted
  BY DEF Init, LossAccounted, Accounted, EmptyBuffer
<1>6. /\ LatestIsNewest /\ TagsPublishedFirst /\ TagsFetched /\ TagsWritten
  BY <1>4 DEF Init, LatestIsNewest, TagsPublishedFirst, TagsFetched, TagsWritten,
              NoImage
<1>7. QED
  BY <1>2, <1>3, <1>5, <1>6 DEF IInv

\* The types of the fields used below.
LEMMA FieldTypes ==
  ASSUME TypeOK
  PROVE  /\ remote.active \in Image /\ tags.active \in Image
         /\ Newest(remote) \in Image /\ Newest(tags) \in Image
         /\ packet.image \in Image /\ packet.reset \in BOOLEAN
         /\ remote.published \in Nat /\ tags.published \in Nat
BY DEF TypeOK, Buffer, Newest

\* What the debounce step and the overwriting leave is an input state.
LEMMA DebounceType ==
  ASSUME NEW in \in InputState, NEW level \in BOOLEAN, NEW bit \in BOOLEAN
  PROVE  /\ Debounced(in, level) \in InputState
         /\ Overwritten(Debounced(in, level), bit) \in InputState
<1>1. /\ in.stable \in 0 .. DebounceTicks /\ in.candidate \in BOOLEAN
      /\ in.debounced \in BOOLEAN
  BY DEF InputState
<1>2. Debounced(in, level) \in InputState
  <2>1. CASE level # in.candidate
    <3>1. 1 \in 0 .. DebounceTicks
      BY InputsAssumption
    <3>2. QED
      BY <2>1, <3>1 DEF Debounced, InputState
  <2>2. CASE level = in.candidate
    <3> DEFINE count == IF in.stable < DebounceTicks THEN in.stable + 1 ELSE in.stable
               value == IF count >= DebounceTicks THEN level ELSE in.debounced
    <3>1. count \in 0 .. DebounceTicks
      BY <1>1, InputsAssumption
    <3>2. value \in BOOLEAN
      BY <1>1
    <3>3. Debounced(in, level) = [in EXCEPT !.stable = count, !.debounced = value]
      BY <2>2 DEF Debounced, InputState
    <3> HIDE DEF count, value
    <3>4. QED
      BY <3>1, <3>2, <3>3 DEF InputState
  <2>3. QED
    BY <2>1, <2>2
<1>3. DebounceTicks \in 0 .. DebounceTicks
  BY InputsAssumption
<1>4. Overwritten(Debounced(in, level), bit) \in InputState
  BY <1>2, <1>3 DEF Overwritten, InputState
<1>5. QED
  BY <1>2, <1>4

LEMMA SampleStep == ASSUME IInv, IoSample PROVE IInv'
<1>1. TypeOK'
  <2>1. now' \in 0 .. MaxPackets
    BY InputsAssumption DEF IInv, TypeOK, IoSample
  <2>2. QED
    BY <2>1 DEF IInv, TypeOK, IoSample, udpVars
<1>2. /\ (Sound(remote) /\ Sound(tags) /\ LossAccounted)'
      /\ LatestIsNewest' /\ TagsPublishedFirst' /\ TagsFetched'
  BY DEF IInv, IoSample, udpVars, Sound, LossAccounted, Accounted, Newest,
         LatestIsNewest, TagsPublishedFirst, TagsFetched
<1>3. TagsWritten'
  BY FieldTypes DEF IInv, TypeOK, IoSample, udpVars, TagsWritten, Image
<1>4. QED
  BY <1>1, <1>2, <1>3 DEF IInv

LEMMA ProcessStep == ASSUME IInv, IoProcess PROVE IInv'
<1>1. /\ remote' = Fetch(remote) /\ remote' \in Buffer /\ Sound(remote)'
      /\ Newest(remote)' = Newest(remote) /\ remote'.active = Newest(remote)
      /\ Accounted(remote)'
  BY FetchKeeps DEF IInv, TypeOK, IoProcess, LossAccounted, Sound, Newest, Accounted
<1>2. TypeOK'
  <2>1. \A i \in Inputs : input'[i] \in InputState
    <3> SUFFICES ASSUME NEW i \in Inputs PROVE input'[i] \in InputState
      OBVIOUS
    <3>1. /\ input[i] \in InputState /\ sample[i] \in BOOLEAN
          /\ remote'.active.di[i] \in BOOLEAN
      BY <1>1, FieldTypes DEF IInv, TypeOK, Levels, Image
    <3>2. QED
      BY <3>1, DebounceType DEF IoProcess
  <2>2. input' \in [Inputs -> InputState]
    BY <2>1 DEF IoProcess
  <2>3. samples' \in [Inputs -> Seq(BOOLEAN)]
    <3>1. ASSUME NEW i \in Inputs PROVE samples'[i] \in Seq(BOOLEAN)
      <4> DEFINE all == Append(samples[i], sample[i])
      <4>1. all \in Seq(BOOLEAN) /\ all # << >>
        <5>1. samples[i] \in Seq(BOOLEAN) /\ sample[i] \in BOOLEAN
          BY DEF IInv, TypeOK, Levels
        <5>2. QED
          BY <5>1, AppendProperties
      <4>2. Tail(all) \in Seq(BOOLEAN)
        BY <4>1
      <4>3. QED
        BY <4>1, <4>2 DEF IoProcess
    <3>2. QED
      BY <3>1 DEF IoProcess
  <2>4. QED
    BY <1>1, <2>2, <2>3 DEF IInv, TypeOK, IoProcess, udpVars
<1>3. Sound(tags)' /\ LossAccounted' /\ LatestIsNewest'
  BY <1>1 DEF IInv, IoProcess, Sound, LossAccounted, Accounted, LatestIsNewest, Newest
<1>4. TagsPublishedFirst'
  BY <1>1 DEF IInv, IoProcess, udpVars, TagsPublishedFirst, LatestIsNewest, Newest
<1>5. TagsFetched' /\ TagsWritten'
  BY DEF IInv, IoProcess, TagsFetched, TagsWritten
<1>6. QED
  BY <1>1, <1>2, <1>3, <1>4, <1>5 DEF IInv

LEMMA FetchTagsStep == ASSUME IInv, IoFetchTags PROVE IInv'
<1>1. /\ tags' = Fetch(tags) /\ tags' \in Buffer /\ Sound(tags)'
      /\ Newest(tags)' = Newest(tags) /\ tags'.active = Newest(tags)
      /\ Accounted(tags)'
  BY FetchKeeps DEF IInv, TypeOK, IoFetchTags, LossAccounted, Sound, Newest, Accounted
<1>2. tags'.active.seq \in 0 .. MaxPackets /\ now \in 0 .. MaxPackets
  BY <1>1, FieldTypes DEF IInv, TypeOK, Image
<1>3. TypeOK'
  BY <1>1, <1>2, InputsAssumption DEF IInv, TypeOK, IoFetchTags, udpVars
<1>4. Sound(remote)' /\ LossAccounted' /\ LatestIsNewest'
  BY <1>1 DEF IInv, IoFetchTags, Sound, LossAccounted, Accounted, LatestIsNewest, Newest
<1>5. TagsPublishedFirst'
  BY <1>1, <1>2 DEF IInv, IoFetchTags, udpVars, TagsPublishedFirst, Newest
<1>6. TagsFetched'
  BY <1>1 DEF IInv, IoFetchTags, TagsFetched, TagsPublishedFirst
<1>7. TagsWritten'
  <2>1. CASE tags.published = tags.consumed
    <3>1. tags' = tags /\ toWrite' = 0
      BY <1>1, <2>1 DEF IoFetchTags, Fetch
    <3>2. QED
      BY <3>1 DEF IInv, IoFetchTags, TagsWritten
  <2>2. CASE tags.published # tags.consumed
    BY <1>2, <2>2 DEF IInv, IoFetchTags, TagsWritten
  <2>3. QED
    BY <2>1, <2>2
<1>8. QED
  BY <1>1, <1>3, <1>4, <1>5, <1>6, <1>7 DEF IInv

LEMMA WriteTagsStep == ASSUME IInv, IoWriteTags PROVE IInv'
<1>1. TypeOK'
  BY InputsAssumption DEF IInv, TypeOK, IoWriteTags, udpVars, Levels
<1>2. /\ (Sound(remote) /\ Sound(tags) /\ LossAccounted)'
      /\ LatestIsNewest' /\ TagsPublishedFirst' /\ TagsFetched'
  BY DEF IInv, IoWriteTags, udpVars, Sound, LossAccounted, Accounted, Newest,
         LatestIsNewest, TagsPublishedFirst, TagsFetched
<1>3. TagsWritten'
  BY FieldTypes DEF IInv, TypeOK, IoWriteTags, TagsWritten, Image
<1>4. QED
  BY <1>1, <1>2, <1>3 DEF IInv

LEMMA ReceiveStep == ASSUME IInv, UdpReceive PROVE IInv'
<1>1. received' \in 0 .. MaxPackets /\ received' = received + 1
  BY InputsAssumption DEF IInv, TypeOK, UdpReceive
<1>2. /\ packet' \in [image : Image, reset : BOOLEAN] /\ packet'.image.seq = received'
      /\ udp' \in {"resetting", "publishingTags", "publishingInputs"}
      /\ udp' = "publishingInputs" => packet'.image.version = 1
  BY <1>1 DEF UdpReceive, Image
<1>3. TypeOK'
  BY <1>1, <1>2 DEF IInv, TypeOK, UdpReceive, ioVars
<1>4. /\ (Sound(remote) /\ Sound(tags) /\ LossAccounted)'
      /\ LatestIsNewest' /\ TagsFetched' /\ TagsWritten'
  BY DEF IInv, UdpReceive, ioVars, Sound, LossAccounted, Accounted, Newest,
         LatestIsNewest, TagsFetched, TagsWritten
<1>5. TagsPublishedFirst'
  <2>1. Newest(tags)' = Newest(tags) /\ Newest(tags).seq \in Nat /\ received \in Nat
    BY FieldTypes DEF IInv, UdpReceive, Newest, Image, TypeOK
  <2>2. Newest(tags).seq < received' /\ received' # 0
    BY <1>1, <2>1 DEF IInv, TagsPublishedFirst
  <2>3. QED
    BY <1>1, <1>2, <2>1, <2>2 DEF IInv, UdpReceive, TagsPublishedFirst
<1>6. QED
  BY <1>3, <1>4, <1>5 DEF IInv

LEMMA ResetStep == ASSUME IInv, UdpReset PROVE IInv'
<1>1. /\ Newest(remote)' = NoImage /\ Newest(tags)' = NoImage
      /\ remote'.active = NoImage /\ tags'.active = NoImage
  BY DEF UdpReset, EmptyBuffer, Newest
<1>2. /\ remote' \in Buffer /\ tags' \in Buffer /\ Sound(remote)' /\ Sound(tags)'
      /\ NoImage \in Image
  BY EmptyType, <1>1 DEF UdpReset, Buffer, Sound, Newest
<1>3. TypeOK'
  BY <1>2 DEF IInv, TypeOK, UdpReset, ioVars
<1>4. LossAccounted'
  BY DEF UdpReset, LossAccounted, Accounted, EmptyBuffer
<1>5. LatestIsNewest' /\ TagsFetched'
  BY <1>1 DEF UdpReset, LatestIsNewest, TagsFetched, NoImage
<1>6. TagsPublishedFirst'
  <2>1. packet.image.seq \in Nat /\ received \in Nat /\ packet.image.seq # 0
    BY FieldTypes DEF IInv, TypeOK, Image, TagsPublishedFirst, UdpReset
  <2>2. QED
    BY <1>1, <2>1 DEF IInv, UdpReset, TagsPublishedFirst, NoImage
<1>7. TagsWritten'
  BY <1>1 DEF IInv, TypeOK, UdpReset, ioVars, TagsWritten, NoImage
<1>8. QED
  BY <1>2, <1>3, <1>4, <1>5, <1>6, <1>7 DEF IInv

LEMMA PublishTagsStep == ASSUME IInv, UdpPublishTags PROVE IInv'
<1>1. /\ tags' \in Buffer /\ Sound(tags)' /\ Newest(tags)' = packet.image
      /\ tags'.active = tags.active /\ Accounted(tags)'
  BY PublishKeeps, FieldTypes
  DEF IInv, TypeOK, UdpPublishTags, LossAccounted, Sound, Newest, Accounted
<1>2. TypeOK'
  BY <1>1 DEF IInv, TypeOK, UdpPublishTags, ioVars
<1>3. /\ Sound(remote)' /\ LossAccounted' /\ LatestIsNewest' /\ TagsFetched'
      /\ TagsWritten'
  BY <1>1 DEF IInv, UdpPublishTags, ioVars, Sound, LossAccounted, Accounted,
              LatestIsNewest, Newest, TagsFetched, TagsWritten
<1>4. TagsPublishedFirst'
  <2>1. /\ packet.image.seq \in Nat /\ received \in Nat /\ Newest(tags).seq \in Nat
        /\ latest.seq \in Nat /\ remote.active.seq \in Nat /\ tags.active.seq \in Nat
    BY FieldTypes DEF IInv, TypeOK, Image
  <2>2. QED
    BY <1>1, <2>1 DEF IInv, UdpPublishTags, TagsPublishedFirst
<1>5. QED
  BY <1>1, <1>2, <1>3, <1>4 DEF IInv

LEMMA PublishInputsStep == ASSUME IInv, UdpPublishInputs PROVE IInv'
<1>1. /\ remote' \in Buffer /\ Sound(remote)' /\ Newest(remote)' = packet.image
      /\ remote'.active = remote.active /\ Accounted(remote)'
  BY PublishKeeps, FieldTypes
  DEF IInv, TypeOK, UdpPublishInputs, LossAccounted, Sound, Newest, Accounted
<1>2. TypeOK'
  BY <1>1, FieldTypes DEF IInv, TypeOK, UdpPublishInputs, ioVars
<1>3. /\ Sound(tags)' /\ LossAccounted' /\ LatestIsNewest' /\ TagsFetched'
      /\ TagsWritten'
  BY <1>1 DEF IInv, UdpPublishInputs, ioVars, Sound, LossAccounted, Accounted,
              LatestIsNewest, Newest, TagsFetched, TagsWritten
<1>4. TagsPublishedFirst'
  BY <1>1 DEF IInv, UdpPublishInputs, TagsPublishedFirst, Newest
<1>5. QED
  BY <1>1, <1>2, <1>3, <1>4 DEF IInv

LEMMA AgeStep == ASSUME IInv, PacketAges PROVE IInv'
<1>1. TypeOK'
  BY DEF IInv, TypeOK, PacketAges, ioVars, udpVars
<1>2. /\ (Sound(remote) /\ Sound(tags) /\ LossAccounted)'
      /\ LatestIsNewest' /\ TagsPublishedFirst' /\ TagsFetched'
  BY DEF IInv, PacketAges, ioVars, udpVars, Sound, LossAccounted, Accounted,
         Newest, LatestIsNewest, TagsPublishedFirst, TagsFetched
<1>3. TagsWritten'
  BY DEF IInv, TypeOK, PacketAges, ioVars, TagsWritten
<1>4. QED
  BY <1>1, <1>2, <1>3 DEF IInv

LEMMA StutterStep == ASSUME IInv, UNCHANGED vars PROVE IInv'
BY DEF vars, ioVars, udpVars, IInv, TypeOK, Sound, LossAccounted, Accounted,
       Newest, LatestIsNewest, TagsPublishedFirst, TagsFetched, TagsWritten

LEMMA Inductive == Spec => []IInv
<1>1. IInv /\ [Next]_vars => IInv'
  BY SampleStep, ProcessStep, FetchTagsStep, WriteTagsStep, ReceiveStep,
     ResetStep, PublishTagsStep, PublishInputsStep, AgeStep, StutterStep
  DEF Next, IoStep, UdpStep
<1>2. QED
  BY InitInvariant, <1>1, PTL DEF Spec

-----------------------------------------------------------------------------
\* Type correctness of the input image and the double buffers of plc_io.cpp.
THEOREM TypeCorrect == Spec => []TypeOK
<1>1. IInv => TypeOK
  BY DEF IInv
<1>2. QED
  BY <1>1, Inductive, PTL

\* The consume and missed counters of plc_io_get_udp_io_stats add up.
THEOREM LossIsAccounted == Spec => []LossAccounted
<1>1. IInv => LossAccounted
  BY DEF IInv
<1>2. QED
  BY <1>1, Inductive, PTL

\* validate_and_publish_udp_io publishes tags before inputs and the tick fetches
\* inputs before tags, so the process image is never ahead of the UDP tags.
THEOREM TagsKeepUp == Spec => []TagsNotBehindInputs
<1>1. IInv => TagsNotBehindInputs
  <2> SUFFICES ASSUME IInv, io = "waiting", remote.active.version = 2,
                      remote.active.seq > now
               PROVE  tagBank >= remote.active.seq
    BY DEF TagsNotBehindInputs
  <2>1. /\ remote.active.seq \in Nat /\ tags.active.seq \in Nat
        /\ now \in Nat /\ tagBank \in Nat
    BY FieldTypes DEF IInv, TypeOK, Image
  <2>2. tags.active.seq >= remote.active.seq
    BY DEF IInv, TagsFetched
  <2>3. tags.active.seq > now
    BY <2>1, <2>2
  <2>4. tagBank >= tags.active.seq
    BY <2>3 DEF IInv, TagsWritten
  <2>5. QED
    BY <2>1, <2>2, <2>4
<1>2. QED
  BY <1>1, Inductive, PTL

\* plc_io_tick_1ms mirrors the newest published image, if it is fresh, however
\* many images were published or buffers reset since the previous tick.
THEOREM LatestIsMirrored == Spec => LatestImageWins
<1>1. IInv /\ [Next]_vars =>
        [io = "sampled" /\ io' = "processed" /\ RemoteFresh =>
           \A i \in Inputs : input'[i].debounced = latest.di[i]]_vars
  <2> SUFFICES ASSUME IInv, Next, io = "sampled", io' = "processed", RemoteFresh,
                      NEW i \in Inputs
               PROVE  input'[i].debounced = latest.di[i]
    OBVIOUS
  <2>1. IoProcess
    BY DEF Next, IoStep, UdpStep, IoSample, IoFetchTags, IoWriteTags, UdpReceive,
           UdpReset, UdpPublishTags, UdpPublishInputs, PacketAges, ioVars
  <2>2. remote'.active = latest
    BY <2>1, FetchKeeps DEF IInv, TypeOK, IoProcess, LossAccounted, LatestIsNewest
  <2>3. input'[i] = Overwritten(Debounced(input[i], sample[i]), latest.di[i])
    BY <2>1, <2>2 DEF IoProcess, RemoteFresh
  <2>4. Debounced(input[i], sample[i]) \in InputState
    BY DebounceType DEF IInv, TypeOK, Levels
  <2>5. QED
    BY <2>3, <2>4 DEF Overwritten, InputState
<1>2. QED
  BY <1>1, Inductive, PTL DEF Spec, LatestImageWins

-----------------------------------------------------------------------------
(***************************************************************************)
(* Debouncing.  While the candidate differs from the debounced level, the  *)
(* last samples, as many as the stable count says, are the candidate.      *)
(***************************************************************************)
Window(s, x) ==
  LET all == Append(s, x) IN IF Len(all) > DebounceTicks THEN Tail(all) ELSE all

EndsWith(s, count, level) ==
  /\ Len(s) >= count
  /\ \A k \in 1 .. count : s[Len(s) - k + 1] = level

CandidateSeen ==
  \A i \in Inputs :
    /\ Len(samples[i]) <= DebounceTicks
    /\ input[i].candidate # input[i].debounced =>
         /\ input[i].stable >= 1
         /\ EndsWith(samples[i], input[i].stable, input[i].candidate)

\* A window keeps what the samples end with and adds the new one.
LEMMA WindowEnd ==
  ASSUME NEW s \in Seq(BOOLEAN), NEW x \in BOOLEAN, Len(s) <= DebounceTicks
  PROVE  /\ Window(s, x) \in Seq(BOOLEAN)
         /\ Len(Window(s, x)) = IF Len(s) < DebounceTicks THEN Len(s) + 1 ELSE DebounceTicks
         /\ \A k \in 1 .. Len(Window(s, x)) :
              Window(s, x)[Len(Window(s, x)) - k + 1] = Append(s, x)[Len(s) - k + 2]
<1> DEFINE all == Append(s, x)
<1>1. /\ all \in Seq(BOOLEAN) /\ all # << >> /\ Len(all) = Len(s) + 1
      /\ Len(s) \in Nat /\ DebounceTicks \in Nat \ {0}
  BY AppendProperties, InputsAssumption
<1> HIDE DEF all
<1>2. CASE Len(all) > DebounceTicks
  <2>1. Window(s, x) = Tail(all) /\ Len(s) = DebounceTicks
    BY <1>1, <1>2 DEF Window, all
  <2>2. /\ Tail(all) \in Seq(BOOLEAN) /\ Len(Tail(all)) = Len(s)
        /\ \A j \in 1 .. Len(s) : Tail(all)[j] = all[j + 1]
    BY <1>1, HeadTailProperties
  <2>3. ASSUME NEW k \in 1 .. Len(s)
        PROVE  Tail(all)[Len(s) - k + 1] = all[Len(s) - k + 2]
    <3>1. Len(s) - k + 1 \in 1 .. Len(s) /\ (Len(s) - k + 1) + 1 = Len(s) - k + 2
      BY <1>1
    <3>2. QED
      BY <2>2, <3>1
  <2>4. QED
    BY <2>1, <2>2, <2>3 DEF all
<1>3. CASE ~(Len(all) > DebounceTicks)
  <2>1. Window(s, x) = all /\ Len(s) < DebounceTicks
    BY <1>1, <1>3 DEF Window, all
  <2>2. ASSUME NEW k \in 1 .. Len(all)
        PROVE  Len(all) - k + 1 = Len(s) - k + 2
    BY <1>1
  <2>3. QED
    BY <1>1, <2>1, <2>2 DEF all
<1>4. QED
  BY <1>2, <1>3

\* One more sample of the same level makes the run one longer.
LEMMA WindowRun ==
  ASSUME NEW s \in Seq(BOOLEAN), NEW x \in BOOLEAN, Len(s) <= DebounceTicks,
         NEW count \in 0 .. DebounceTicks - 1, EndsWith(s, count, x)
  PROVE  EndsWith(Window(s, x), count + 1, x)
<1> DEFINE w == Window(s, x)
<1>1. /\ w \in Seq(BOOLEAN) /\ Len(s) \in Nat /\ DebounceTicks \in Nat \ {0}
      /\ Len(w) = IF Len(s) < DebounceTicks THEN Len(s) + 1 ELSE DebounceTicks
      /\ \A k \in 1 .. Len(w) : w[Len(w) - k + 1] = Append(s, x)[Len(s) - k + 2]
  <2>1. /\ Len(s) \in Nat /\ DebounceTicks \in Nat \ {0}
    BY InputsAssumption
  <2>2. /\ w \in Seq(BOOLEAN)
        /\ Len(w) = IF Len(s) < DebounceTicks THEN Len(s) + 1 ELSE DebounceTicks
        /\ \A k \in 1 .. Len(w) : w[Len(w) - k + 1] = Append(s, x)[Len(s) - k + 2]
    BY WindowEnd, Zenon
  <2>3. QED
    BY <2>1, <2>2
<1> HIDE DEF w
<1>2. Len(w) >= count + 1
  BY <1>1 DEF EndsWith
<1>3. ASSUME NEW k \in 1 .. count + 1 PROVE w[Len(w) - k + 1] = x
  <2>1. w[Len(w) - k + 1] = Append(s, x)[Len(s) - k + 2]
    <3>1. Len(w) \in Nat
      BY <1>1
    <3>2. k \in 1 .. Len(w)
      BY <1>2, <3>1
    <3>3. QED
      BY <1>1, <3>2
  <2>2. CASE k = 1
    <3>1. Len(s) - k + 2 = Len(s) + 1
      BY <1>1, <2>2
    <3>2. QED
      BY <2>1, <3>1, AppendProperties
  <2>3. CASE k # 1
    <3>1. /\ k - 1 \in 1 .. count /\ Len(s) - k + 2 \in 1 .. Len(s)
          /\ Len(s) - (k - 1) + 1 = Len(s) - k + 2
      BY <1>1, <2>3 DEF EndsWith
    <3>2. s[Len(s) - k + 2] = x
      BY <3>1 DEF EndsWith
    <3>3. QED
      BY <2>1, <3>1, <3>2, AppendProperties
  <2>4. QED
    BY <2>2, <2>3
<1>4. QED
  BY <1>2, <1>3 DEF EndsWith, w

\* What one tick does to one input: the run of candidates is kept, and a change
\* of the level comes with a full window of it.
LEMMA DebounceRun ==
  ASSUME NEW in \in InputState, NEW x \in BOOLEAN, NEW s \in Seq(BOOLEAN),
         Len(s) <= DebounceTicks,
         in.candidate # in.debounced =>
           in.stable >= 1 /\ EndsWith(s, in.stable, in.candidate)
  PROVE  LET out == Debounced(in, x) IN
         /\ out.candidate # out.debounced =>
              out.stable >= 1 /\ EndsWith(Window(s, x), out.stable, out.candidate)
         /\ out.debounced # in.debounced =>
              EndsWith(Window(s, x), DebounceTicks, out.debounced)
<1> DEFINE out == Debounced(in, x)
<1>1. /\ in.stable \in 0 .. DebounceTicks /\ in.candidate \in BOOLEAN
      /\ in.debounced \in BOOLEAN /\ DebounceTicks \in Nat \ {0}
  BY InputsAssumption DEF InputState
<1>2. CASE x # in.candidate
  <2>1. out.candidate = x /\ out.stable = 1 /\ out.debounced = in.debounced
    BY <1>2 DEF Debounced, InputState
  <2>2. EndsWith(s, 0, x)
    BY DEF EndsWith
  <2>3. EndsWith(Window(s, x), 1, x)
    <3>1. 0 \in 0 .. DebounceTicks - 1 /\ 0 + 1 = 1
      BY <1>1
    <3>2. QED
      BY <2>2, <3>1, WindowRun
  <2>4. QED
    BY <2>1, <2>3
<1>3. CASE x = in.candidate
  <2> DEFINE count == IF in.stable < DebounceTicks THEN in.stable + 1 ELSE in.stable
  <2>1. /\ out.candidate = x /\ out.stable = count
        /\ out.debounced = IF count >= DebounceTicks THEN x ELSE in.debounced
    BY <1>3 DEF Debounced, InputState
  <2>2. CASE in.debounced = x
    BY <2>1, <2>2
  <2>3. CASE in.debounced # x /\ in.stable < DebounceTicks
    <3>1. EndsWith(Window(s, x), in.stable + 1, x)
      BY <1>1, <1>3, <2>3, WindowRun
    <3>2. count = in.stable + 1 /\ count >= 1 /\ count <= DebounceTicks
      BY <1>1, <2>3
    <3>3. count >= DebounceTicks => count = DebounceTicks
      BY <1>1, <3>2
    <3>4. QED
      BY <2>1, <3>1, <3>2, <3>3
  <2>4. CASE in.debounced # x /\ ~(in.stable < DebounceTicks)
    <3>1. in.stable = DebounceTicks
      BY <1>1, <2>4
    <3>2. EndsWith(s, DebounceTicks - 1, x)
      BY <1>1, <1>3, <2>4, <3>1 DEF EndsWith
    <3>3. DebounceTicks - 1 \in 0 .. DebounceTicks - 1
          /\ (DebounceTicks - 1) + 1 = DebounceTicks
      BY <1>1
    <3>4. EndsWith(Window(s, x), DebounceTicks, x)
      BY <3>2, <3>3, WindowRun
    <3>5. QED
      BY <1>1, <2>1, <3>1, <3>4
  <2>5. QED
    BY <2>2, <2>3, <2>4
<1>4. QED
  BY <1>2, <1>3

-----------------------------------------------------------------------------
LEMMA CandidateInit == Init => CandidateSeen
<1> SUFFICES ASSUME Init, NEW i \in Inputs
             PROVE  /\ Len(samples[i]) <= DebounceTicks
                    /\ input[i].candidate = input[i].debounced
  BY Zenon DEF CandidateSeen
<1>1. samples[i] = << >> /\ Len(<< >>) = 0 /\ 0 <= DebounceTicks
  BY EmptySeq, InputsAssumption DEF Init
<1>2. input[i] = [candidate |-> FALSE, stable |-> 0, debounced |-> FALSE]
  BY DEF Init
<1>3. QED
  BY <1>1, <1>2

LEMMA CandidateProcess ==
  ASSUME IInv, CandidateSeen, IoProcess
  PROVE  /\ CandidateSeen'
         /\ \A i \in Inputs : ~RemoteFresh =>
              (input'[i].debounced # input[i].debounced =>
                 /\ samples'[i] \in Seq(BOOLEAN) /\ Len(samples'[i]) <= DebounceTicks
                 /\ EndsWith(samples'[i], DebounceTicks, input'[i].debounced))
<1> SUFFICES ASSUME NEW i \in Inputs
             PROVE  /\ Len(samples'[i]) <= DebounceTicks
                    /\ input'[i].candidate # input'[i].debounced =>
                         /\ input'[i].stable >= 1
                         /\ EndsWith(samples'[i], input'[i].stable, input'[i].candidate)
                    /\ ~RemoteFresh =>
                         (input'[i].debounced # input[i].debounced =>
                            /\ samples'[i] \in Seq(BOOLEAN)
                            /\ Len(samples'[i]) <= DebounceTicks
                            /\ EndsWith(samples'[i], DebounceTicks, input'[i].debounced))
  BY DEF CandidateSeen
<1> DEFINE in  == input[i]
           out == Debounced(in, sample[i])
           w   == Window(samples[i], sample[i])
<1>1. /\ in \in InputState /\ sample[i] \in BOOLEAN /\ samples[i] \in Seq(BOOLEAN)
  BY DEF IInv, TypeOK, Levels
<1>2. /\ Len(samples[i]) <= DebounceTicks
      /\ in.candidate # in.debounced =>
           in.stable >= 1 /\ EndsWith(samples[i], in.stable, in.candidate)
  BY DEF CandidateSeen
<1>3. samples'[i] = w
  BY DEF IoProcess, Window
<1>4. w \in Seq(BOOLEAN) /\ Len(w) <= DebounceTicks
  <2>1. /\ w \in Seq(BOOLEAN)
        /\ Len(w) = IF Len(samples[i]) < DebounceTicks
                    THEN Len(samples[i]) + 1 ELSE DebounceTicks
    BY <1>1, <1>2, WindowEnd, Zenon
  <2>2. Len(samples[i]) \in Nat /\ DebounceTicks \in Nat
    BY <1>1, InputsAssumption
  <2>3. QED
    BY <2>1, <2>2
<1>5. /\ out.candidate # out.debounced =>
           out.stable >= 1 /\ EndsWith(w, out.stable, out.candidate)
      /\ out.debounced # in.debounced => EndsWith(w, DebounceTicks, out.debounced)
  BY <1>1, <1>2, DebounceRun, Zenon
<1>6. out \in InputState
  BY <1>1, DebounceType
<1>7. /\ remote'.active = latest
      /\ input'[i] = IF remote'.active.seq > now
                     THEN Overwritten(out, remote'.active.di[i]) ELSE out
  BY FetchKeeps DEF IInv, TypeOK, IoProcess, LossAccounted, LatestIsNewest
<1> HIDE DEF in, out, w
<1>8. CASE remote'.active.seq > now
  <2>1. input'[i] = Overwritten(out, remote'.active.di[i])
    BY <1>7, <1>8
  <2>2. input'[i].candidate = input'[i].debounced
    BY <1>6, <2>1 DEF Overwritten, InputState
  <2>3. RemoteFresh
    BY <1>7, <1>8 DEF RemoteFresh
  <2>4. QED
    BY <1>3, <1>4, <2>2, <2>3
<1>9. CASE ~(remote'.active.seq > now)
  <2>1. input'[i] = out
    BY <1>7, <1>9
  <2>2. QED
    BY <1>3, <1>4, <1>5, <2>1 DEF in
<1>10. QED
  BY <1>8, <1>9

LEMMA CandidateInductive == Spec => []CandidateSeen
<1>1. IInv /\ CandidateSeen /\ [Next]_vars => CandidateSeen'
  <2> SUFFICES ASSUME IInv, CandidateSeen, [Next]_vars PROVE CandidateSeen'
    OBVIOUS
  <2>1. CASE IoProcess
    BY <2>1, CandidateProcess
  <2>2. CASE UNCHANGED <<input, samples>>
    BY <2>2 DEF CandidateSeen
  <2>3. QED
    BY <2>1, <2>2
    DEF Next, IoStep, UdpStep, IoSample, IoFetchTags, IoWriteTags, UdpReceive,
        UdpReset, UdpPublishTags, UdpPublishInputs, PacketAges, vars
<1>2. QED
  BY <1>1, CandidateInit, Inductive, PTL DEF Spec

\* A tick without a fresh remote image changes an input only to a level that
\* the last PLC_DEBOUNCE_TICKS samples agree on: the stable count of
\* plc_io_tick_1ms never claims more samples than were taken, although remote
\* images set it as they come and go.
THEOREM DebounceIsHonest == Spec => DebounceHolds
<1>1. IInv /\ CandidateSeen /\ [Next]_vars =>
        [io = "sampled" /\ io' = "processed" /\ ~RemoteFresh =>
           \A i \in Inputs :
             input'[i].debounced # input[i].debounced =>
               samples'[i] = [k \in 1 .. DebounceTicks |-> input'[i].debounced]]_vars
  <2> SUFFICES ASSUME IInv, CandidateSeen, Next, io = "sampled", io' = "processed",
                      ~RemoteFresh, NEW i \in Inputs,
                      input'[i].debounced # input[i].debounced
               PROVE  samples'[i] = [k \in 1 .. DebounceTicks |-> input'[i].debounced]
    OBVIOUS
  <2> DEFINE s == samples'[i]
             level == input'[i].debounced
  <2>1. IoProcess
    BY DEF Next, IoStep, UdpStep, IoSample, IoFetchTags, IoWriteTags, UdpReceive,
           UdpReset, UdpPublishTags, UdpPublishInputs, PacketAges, ioVars
  <2>2. /\ s \in Seq(BOOLEAN) /\ Len(s) <= DebounceTicks
        /\ EndsWith(s, DebounceTicks, level)
    BY <2>1, CandidateProcess
  <2> HIDE DEF s, level
  <2>3. Len(s) = DebounceTicks /\ DebounceTicks \in Nat
    BY <2>2, InputsAssumption DEF EndsWith
  <2>4. ASSUME NEW k \in 1 .. DebounceTicks PROVE s[k] = level
    <3>1. /\ DebounceTicks - k + 1 \in 1 .. DebounceTicks
          /\ Len(s) - (DebounceTicks - k + 1) + 1 = k
      BY <2>3
    <3>2. QED
      BY <2>2, <3>1 DEF EndsWith
  <2>5. s = [k \in 1 .. DebounceTicks |-> s[k]]
    BY <2>2, <2>3
  <2>6. QED
    BY <2>4, <2>5 DEF s, level
<1>2. QED
  BY <1>1, Inductive, CandidateInductive, PTL DEF Spec, DebounceHolds

=============================================================================
