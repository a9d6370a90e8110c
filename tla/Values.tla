------------------------------- MODULE Values -------------------------------
(***************************************************************************)
(* The pure parts of the library - params and routes, globals and their    *)
(* views, default node names, audio arithmetic and settings - evaluated on *)
(* inputs and held against what each of them promises.                     *)
(*                                                                         *)
(* A state is a call and, once it has been evaluated, its result.          *)
(***************************************************************************)
EXTENDS Routes, Globals, Audio, DefaultNodes

CONSTANTS
  Inputs,  \* the calls tried, as records with a field kind
  Memory,  \* what may lie after the body of a pod
  Pending  \* no result yet

VARIABLES input, output

\* Setter calls, one after another, on the defaults.
Set(s, c) ==
  IF c.set = "format" THEN SetRequestedFormat(s, c.running, c.name, c.rate, c.channels)
  ELSE StreamSetProperty(s, c.running, c.key, c.value)
Applied(calls) == FoldLeft(Set, StreamDefaults, calls)

\* The same calls on a core, which has the property setter only.
CoreApplied(calls) ==
  FoldLeft(LAMBDA t, c : CoreSetProperty(t, c.running, c.key, c.value), <<>>,
           SelectSeq(calls, LAMBDA c : c.set = "property"))

\* The block made of one buffer and handed to the application.
Block(buffer, format) ==
  LET queued == ProcessBuffer(buffer, format)
  IN  IF queued = NULL THEN NULL
      ELSE AudioBlock(AudioFormat(SampleFormatName(format.format), 48000, format.channels,
                                  SampleFormatBytes(format.format)),
                      queued.bytes, queued.frames, 0, queued.peak)

Look(globals, by, value) ==
  CASE by = "id" -> LookupGlobal(globals, value)
    [] by = "serial" -> LookupBySerial(globals, value)
    [] by = "interface" -> DupByInterface(globals, value)
    [] by = "class" -> DupByMediaClass(globals, value)
    [] OTHER -> DupByProperty(globals, by, value)

Result(i) ==
  CASE i.kind = "controls" -> NewPropsControls(i.controls)
    [] i.kind = "volume" -> NewPropsVolume(i.volume)
    [] i.kind = "mute" -> NewPropsMute(i.mute)
    [] i.kind = "param" -> ParamProperties(i.param)
    [] i.kind = "route" -> RouteProperties(RouteInfo(i.param))
    [] i.kind = "flags" -> ParamInfoProperties(ParamInfo("Props", i.flags))
    [] i.kind = "global" ->
         [name |-> DupName(i.global), description |-> DupDescription(i.global),
          views |-> <<NodeInfo(i.global), DeviceInfo(i.global), ClientInfo(i.global),
                      PortInfo(i.global), LinkInfo(i.global)>>]
    [] i.kind = "lookup" -> Look(i.globals, i.by, i.value)
    [] i.kind = "default" -> 
         <<DefaultSink(i.entries), DefaultSource(i.entries),
           ConfiguredSink(i.entries), ConfiguredSource(i.entries)>>
    [] i.kind = "format" -> FormatProperties(AudioFormat(i.name, i.rate, i.channels, i.bytes))
    [] i.kind = "buffer" -> Block(i.buffer, i.format)
    [] i.kind = "rate" -> GraphRate(i.num, i.denom)
    [] i.kind = "settings" ->
         [offer |-> Offer(Applied(i.calls)), core |-> CoreApplied(i.calls),
          stream |-> StreamProperties(Applied(i.calls), "sink", i.monitor)]

VInit == input \in Inputs /\ output = Pending

\* The param of an input, with a after its body.
Placed(a) == [input.param EXCEPT !.bytes = [after |-> a] @@ @]
Call(a) ==
  IF input.kind \in {"param", "route"} THEN [input EXCEPT !.param = Placed(a)] ELSE input

Evaluate ==
  /\ output = Pending
  /\ \E a \in Memory : output' = Result(Call(a))
  /\ UNCHANGED input

VSpec == VInit /\ [][Evaluate]_<<input, output>>

Of(kind) == output # Pending /\ input.kind = kind

-----------------------------------------------------------------------------
\* Params

RoundUp(n) == CHOOSE m \in n..(n + 7) : m % 8 = 0

\* The bytes a props pod of these controls takes: the headers, then each
\* name with its terminator and each float, padded to 8.
ControlsSize(controls) ==
  32 + FoldLeft(LAMBDA n, c : n + RoundUp(9 + c.name) + 16, 0, controls)

\* pwg_param_new_props_*() build a whole pod or nothing: they refuse an
\* unnamed control, a value that no float holds, and what does not fit in
\* the buffer - at its exact size - and what they return reads back as a
\* Props object with what was asked, in order.
BuiltPods ==
  /\ Of("controls") =>
       LET asked == input.controls
           usable == \A i \in DOMAIN asked :
                       asked[i].name > 0 /\ InRange(asked[i].value, -MaxFloat, MaxFloat)
       IN  /\ output = NULL <=> ~(usable /\ ControlsSize(asked) <= ControlSize)
           /\ output # NULL =>
                /\ output.bytes.len = ControlsSize(asked) /\ output.bytes.len % 8 = 0
                /\ Pod(output).props = <<<<"params", asked>>>>
  /\ Of("volume") =>
       (output = NULL <=> ~InRange(input.volume, 0, MaxFloat))
  /\ \A kind \in {"controls", "volume", "mute"} : (Of(kind) /\ output # NULL) =>
       /\ Pod(output) # NULL /\ output.bytes.len <= ControlSize
       /\ ObjectType(output) = "Props" /\ ObjectId(output) = output.id
       /\ CountProperties(Pod(output)) = 1

\* What the object header takes, or the value of a scalar.
Needs(pod) ==
  CASE pod.type \in {"Object", "Long", "Double", "Rectangle", "Fraction"} -> 8
    [] pod.type \in {"Bool", "Id", "Int", "Float"} -> 4
    [] OTHER -> 0
Parsed(p) == <<ParseFormat(p), DupAudioFormat(p), PodType(p), Summary(p).kind>>

\* Of a pod cut off by the end of its bytes every view is the empty one.  Of
\* a whole pod nothing that is parsed - format, audio format, route -
\* depends on the memory after its body, and no view does if the body is as
\* long as its type asks; type and id of a shorter object and the value of a
\* shorter scalar are not covered: the getters read past its end.  A route
\* is read from Route and EnumRoute params only, has the default for what is
\* absent, and its info has pairs of strings only, at most as many as
\* announced.
ReadsWholePods ==
  /\ (Of("param") /\ input.param.bytes.pod # NULL) =>
       LET pod == input.param.bytes.pod
           cut == input.param.bytes.len < Header + pod.size
       IN  /\ cut =>
                /\ output.podType = Zero /\ output.objectType = Zero /\ output.objectId = Zero
                /\ output.summary = [kind |-> "invalid"]
           /\ \A a \in Memory :
                /\ cut => ParseFormat(Placed(a)) = NULL /\ DupAudioFormat(Placed(a)) = NULL
                /\ \A b \in Memory : Parsed(Placed(a)) = Parsed(Placed(b))
                /\ Needs(pod) <= pod.size =>
                     ParamProperties(Placed(a)) = [output EXCEPT !.bytes = Placed(a).bytes]
                /\ DupAudioFormat(Placed(a)) # NULL =>
                     BytesPerFrame(DupAudioFormat(Placed(a))) \in
                       {0, SampleBytes(pod.raw.format) * pod.raw.channels}
  /\ Of("route") =>
       LET p == input.param
           pod == p.bytes.pod
           whole == p.bytes.len >= Header + pod.size
       IN  /\ output # NULL <=> (p.id \in {"Route", "EnumRoute"} /\ whole
                                   /\ 8 <= pod.size /\ pod.objectType = "ParamRoute")
           /\ output # NULL =>
                /\ \A f \in DOMAIN RouteDefaults \ DOMAIN pod.fields :
                     output[f] \in {-1, Invalid, NULL}
                /\ \A f \in DOMAIN pod.fields : output[f] = pod.fields[f]
                /\ pod.info # NULL =>
                     /\ output.info # <<>> => Len(output.info) <= pod.info.count
                     /\ IsPrefix(FlattenSeq(output.info), pod.info.items)
                     /\ \A i \in DOMAIN output.info : NULL \notin Range(output.info[i])
  /\ Of("flags") =>
       input.flags % 8 = (IF output.serial THEN 1 ELSE 0)
                           + (IF output.readable THEN 2 ELSE 0)
                           + (IF output.writable THEN 4 ELSE 0)

-----------------------------------------------------------------------------
\* Names

\* Nothing before i in keys has a value that is not empty.
FirstSet(g, keys, i) ==
  /\ DupProperty(g, keys[i]) \notin {NULL, ""}
  /\ \A j \in 1..(i - 1) : DupProperty(g, keys[j]) \in {NULL, ""}
BestValue(g, keys, value) ==
  IF value = NULL THEN \A i \in DOMAIN keys : DupProperty(g, keys[i]) \in {NULL, ""}
  ELSE \E i \in DOMAIN keys : FirstSet(g, keys, i) /\ value = DupProperty(g, keys[i])

\* A name is never empty and is that of the most specific key; a global has
\* at most one view; a lookup finds the first of the globals that the list
\* of matches holds; a default node has the name of the first member
\* so called, and never an empty one.
NamesResolve ==
  /\ Of("global") =>
       /\ BestValue(input.global, NameKeys, output.name)
       /\ BestValue(input.global, DescriptionKeys, output.description)
       /\ Cardinality({i \in DOMAIN output.views : output.views[i] # NULL}) <= 1
       /\ output.views[4] # NULL =>
            BestValue(input.global, <<"port.alias">> \o DescriptionKeys,
                      output.views[4].description)
  /\ Of("lookup") =>
       LET gs == input.globals
           wanted(g) == CASE input.by = "id" -> g.id = input.value
                          [] input.by = "serial" -> DupObjectSerial(g) = input.value
                          [] input.by = "interface" -> g.interface = input.value
                          [] OTHER -> DupMediaClass(g) = input.value
           first == {i \in DOMAIN gs : wanted(gs[i]) /\ \A j \in 1..(i - 1) : ~wanted(gs[j])}
       IN  IF input.by \in {"id", "serial"}
           THEN IF output = NULL THEN first = {} ELSE \E i \in first : output = gs[i]
           ELSE /\ Range(output) = {gs[i] : i \in {k \in DOMAIN gs : wanted(gs[k])}}
                /\ Len(output) = Cardinality({k \in DOMAIN gs : wanted(gs[k])})
  /\ Of("default") => \A k \in 2..4 : output[k] = NULL
  /\ (Of("default") /\ output[1] # NULL) =>
       LET v == input.entries["default.audio.sink"].value
       IN  /\ output[1] # ""
           /\ v.object # NULL =>
                \E i \in 1..(Len(v.object) \div 2) :
                  /\ v.object[2 * i - 1] = "name" /\ v.object[2 * i] = output[1]
                  /\ \A j \in 1..(i - 1) : v.object[2 * j - 1] \notin {"name", "bad"}

-----------------------------------------------------------------------------
\* Audio

Samples(b) == {i \in DOMAIN b.samples :
                 /\ (i - 1) * F32Bytes >= b.chunk.offset
                 /\ i * F32Bytes <= b.chunk.offset + b.chunk.size}

\* A block holds whole samples of its chunk, all of them, and its frames are
\* those that are whole; its peak is that of one of them and of no other
\* data; bytes-per-frame, graph-rate and the format offered at start are
\* what was asked, or 0 and nothing where that cannot be expressed.
AudioIsExact ==
  /\ (Of("buffer") /\ output # NULL) =>
       LET frame == BytesPerFrame(output.format)
           absolute(i) == Max({input.buffer.samples[i], -input.buffer.samples[i]})
       IN  /\ input.buffer.chunk.offset + output.data <= input.buffer.maxsize
           /\ output.frames > 0
           /\ output.frames * frame <= output.data
           /\ output.data < (output.frames + 1) * frame
           /\ output.peak = Max({absolute(i) : i \in Samples(input.buffer)})
  /\ Of("format") =>
       /\ output.bytesPerFrame \in 0..MaxUint
       /\ (output.bytesPerFrame = 0) =
            (input.channels = 0 \/ input.bytes = 0 \/ input.bytes * input.channels > MaxUint)
       /\ output.bytesPerFrame # 0 => output.bytesPerFrame = input.bytes * input.channels
  /\ Of("rate") =>
       IF output = 0 THEN input.num = 0 \/ input.denom = 0 \/ input.denom % input.num # 0
       ELSE output * input.num = input.denom
  /\ Of("settings") =>
       LET calls == input.calls
           took(i) == ~calls[i].running
           offer == output.offer
           last(i) == \A j \in (i + 1)..Len(calls) : calls[j].set = "format" \/ ~took(j)
       IN  /\ offer # NULL /\ Len(offer.position) = offer.channels
           /\ \/ offer.rate = 48000 /\ offer.channels = 2
              \/ \E i \in DOMAIN calls :
                   /\ took(i) /\ calls[i].set = "format"
                   /\ offer.rate = calls[i].rate /\ offer.channels = calls[i].channels
           /\ \A i \in DOMAIN calls :
                (took(i) /\ last(i) /\ calls[i].set = "property" /\ calls[i].key # "") =>
                  LET k == calls[i].key
                  IN  IF calls[i].value = NULL THEN k \notin DOMAIN output.core
                      ELSE output.core[k] = calls[i].value /\ output.stream[k] = calls[i].value
           /\ "stream.capture.sink" \in DOMAIN output.stream =>
                input.monitor \/ "stream.capture.sink" \in DOMAIN output.core
=============================================================================
