------------------------------- MODULE Audio --------------------------------
(***************************************************************************)
(* Audio data and the settings of a capture stream: PwgAudioFormat,        *)
(* PwgAudioBlock, and the arithmetic and settings of pwg-stream.c that     *)
(* Stream abstracts.  A peak is a natural number; a size is in bytes.      *)
(***************************************************************************)
EXTENDS Nullable

CONSTANT MaxUint  \* G_MAXUINT

-----------------------------------------------------------------------------
\* PwgAudioFormat, PwgAudioBlock

AudioFormat(sampleFormat, rate, channels, bytesPerSample) ==
  IF sampleFormat = NULL THEN NULL
  ELSE [sampleFormat |-> sampleFormat, rate |-> rate, channels |-> channels,
        bytesPerSample |-> bytesPerSample]

\* Fault: the product wraps.
BytesPerFrameWrapped(f) == (f.bytesPerSample * f.channels) % (MaxUint + 1)

\* 0 when it does not fit.
BytesPerFrame(f) ==
  IF f.channels # 0 /\ f.bytesPerSample > MaxUint \div f.channels THEN 0
  ELSE f.bytesPerSample * f.channels

FormatProperties(f) == f @@ [bytesPerFrame |-> BytesPerFrame(f)]

AudioBlock(format, data, frames, sequence, peak) ==
  IF format = NULL \/ data = NULL THEN NULL
  ELSE [format |-> format, data |-> data, frames |-> frames,
        sequence |-> sequence, peak |-> peak]

-----------------------------------------------------------------------------
\* pwg_stream_on_process()

\* Ticks per second of a clock whose tick is num/denom seconds, 0 when that
\* is not an integer.
GraphRate(num, denom) ==
  IF num # 0 /\ denom % num = 0 THEN denom \div num ELSE 0

\* The chunk lies within its buffer.
ChunkFits(chunk, maxsize) ==
  chunk.offset <= maxsize /\ chunk.size <= maxsize - chunk.offset

F32Bytes == 4

\* The largest of absolute values: MAX(peak, fabs(sample)), from 0.
Peak(samples) ==
  LET peak[i \in 0..Len(samples)] ==
        IF i = 0 THEN 0
        ELSE Max({peak[i - 1], IF samples[i] < 0 THEN -samples[i] ELSE samples[i]})
  IN  peak[Len(samples)]

\* pwg_stream_handle_f32_audio() of size bytes, after skipping some samples.
HandleF32(size, samples, skip, channels) ==
  LET n == size \div F32Bytes
  IN  IF size < F32Bytes \/ channels = 0 \/ n \div channels = 0 THEN NULL
      ELSE [peak |-> Peak(SubSeq(samples, skip + 1, skip + n)), bytes |-> n * F32Bytes,
            frames |-> n \div channels]

\* One buffer of the stream: NULL when nothing is queued.
ProcessBuffer(buffer, format) ==
  IF \/ buffer.chunk = NULL
     \/ format.format # "F32" \/ format.channels = 0
     \/ ~ChunkFits(buffer.chunk, buffer.maxsize)
  THEN NULL
  ELSE HandleF32(buffer.chunk.size, buffer.samples,
                 buffer.chunk.offset \div F32Bytes, format.channels)

-----------------------------------------------------------------------------
\* The settings of a stream and of a core

SampleFormatName(format) == IF format = "F32" THEN "F32" ELSE "unknown"
SampleFormatBytes(format) == IF format = "F32" THEN F32Bytes ELSE 0
SampleFormatFromName(name) == IF name = "F32" THEN "F32" ELSE NULL

ValidRequest(name, rate, channels) ==
  SampleFormatFromName(name) # NULL /\ rate # 0 /\ channels \in {1, 2}

ChannelPositions(channels) ==
  CASE channels = 1 -> <<"MONO">> [] channels = 2 -> <<"FL", "FR">> [] OTHER -> <<>>

StreamDefaults ==
  [sampleFormat |-> "F32", rate |-> 48000, channels |-> 2, properties |-> <<>>]

SetRequestedFormat(s, running, name, rate, channels) ==
  IF running \/ ~ValidRequest(name, rate, channels) THEN s
  ELSE [s EXCEPT !.sampleFormat = SampleFormatName(SampleFormatFromName(name)),
                 !.rate = rate, !.channels = channels]

\* A hash table of keys and values; a NULL value removes the key.
WithProperty(table, key, value) ==
  [k \in (IF value = NULL THEN DOMAIN table \ {key} ELSE DOMAIN table \cup {key}) |->
     IF k = key THEN value ELSE table[k]]
StreamSetProperty(s, running, key, value) ==
  IF key \in {NULL, ""} \/ running THEN s
  ELSE [s EXCEPT !.properties = WithProperty(@, key, value)]
CoreSetProperty(table, connected, key, value) ==
  IF key \in {NULL, ""} \/ connected THEN table ELSE WithProperty(table, key, value)

\* The properties of a new stream: its own, then the target and the capture
\* of a sink, then those the application set, which override them.
StreamProperties(s, target, monitor) ==
  s.properties
    @@ (IF monitor THEN [k \in {"stream.capture.sink"} |-> "true"] ELSE <<>>)
    @@ (IF target \in {NULL, ""} THEN <<>> ELSE [k \in {"target.object"} |-> target])
    @@ [k \in {"media.type", "media.category", "media.role", "media.name"} |->
          CASE k = "media.type" -> "Audio"
            [] k = "media.category" -> IF monitor THEN "Monitor" ELSE "Capture"
            [] k = "media.role" -> IF monitor THEN "DSP" ELSE "Music"
            [] OTHER -> IF monitor THEN "Pwg monitor stream" ELSE "Pwg audio stream"]

\* What pwg_stream_start() offers to the server: NULL when it refuses.
Offer(s) ==
  IF ~ValidRequest(s.sampleFormat, s.rate, s.channels) THEN NULL
  ELSE [format |-> SampleFormatFromName(s.sampleFormat), rate |-> s.rate,
        channels |-> s.channels, position |-> ChannelPositions(s.channels)]
=============================================================================
