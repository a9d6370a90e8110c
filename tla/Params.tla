------------------------------- MODULE Params -------------------------------
(***************************************************************************)
(* PwgParam and PwgParamInfo: copied SPA pods, read and built              *)
(* (pwg-param.c, pwg-param-info.c).                                        *)
(*                                                                         *)
(* A pod is a record of its type, its body size and what the readers look  *)
(* at; the bytes of a param are their length, the pod at their start and   *)
(* what the memory has after its body, whatever that is.                   *)
(* A name is its length where it is only measured.  A number is finite     *)
(* with a value, or not finite.                                            *)
(***************************************************************************)
EXTENDS Nullable

CONSTANTS
  SimpleSize,   \* PWG_PARAM_SIMPLE_PROPS_BUFFER_SIZE
  ControlSize,  \* PWG_PARAM_CONTROL_PROPS_BUFFER_SIZE
  MaxFloat,     \* G_MAXFLOAT
  ShortNames    \* spa_debug_type_find_short_name(): the types that have a name

Zero == "0"     \* the id that no type has
Header == 8       \* sizeof(struct spa_pod)
ObjectHeader == 8 \* sizeof(struct spa_pod_object_body)

NoBytes == [len |-> 0, pod |-> NULL]
NewParam(seq, id, index, next, bytes) ==
  [seq |-> seq, id |-> id, index |-> index, next |-> next, bytes |-> bytes]

ShortName(type) == IF type \in ShortNames THEN type ELSE NULL

-----------------------------------------------------------------------------
\* Reading

\* Fault: takes a pod whose body was cut off.
PodUnbounded(p) == IF p.bytes.len < Header THEN NULL ELSE p.bytes.pod

\* The pod, if the bytes hold all of it.
Pod(p) ==
  IF p.bytes.len < Header \/ Header + p.bytes.pod.size > p.bytes.len
  THEN NULL ELSE p.bytes.pod

IsObject(pod) == pod # NULL /\ pod.type = "Object"

\* spa_pod_is_object(), which the parsers of SPA ask and the getters do not
HoldsObject(pod) == IsObject(pod) /\ ObjectHeader <= pod.size

\* A read of the first n bytes of the body, its size unchecked: of a body
\* that is shorter it finds what the memory has there.
Peek(p, field, n) ==
  IF n <= Pod(p).size THEN Pod(p)[field] ELSE p.bytes.after[field]

PodType(p) == IF Pod(p) = NULL THEN Zero ELSE Pod(p).type
ObjectType(p) ==
  IF IsObject(Pod(p)) THEN Peek(p, "objectType", 4) ELSE Zero
ObjectId(p) ==
  IF IsObject(Pod(p)) THEN Peek(p, "objectId", ObjectHeader) ELSE Zero

PodTypeName(p) == ShortName(PodType(p))
ObjectTypeName(p) == ShortName(ObjectType(p))

\* Ids have names in the table of their object type.
ObjectIdName(p) ==
  IF ObjectTypeName(p) = NULL THEN NULL ELSE ShortName(ObjectId(p))

\* Media type and subtype of a Format object, or NULL.
ParseFormat(p) ==
  LET pod == Pod(p)
  IN  IF ObjectType(p) = "Format" /\ HoldsObject(pod) /\ pod.media # NULL
      THEN pod.media ELSE NULL

MediaType(p) == IF ParseFormat(p) = NULL THEN Zero ELSE ParseFormat(p).type
MediaTypeName(p) == IF ParseFormat(p) = NULL THEN NULL ELSE ShortName(MediaType(p))
MediaSubtype(p) == IF ParseFormat(p) = NULL THEN Zero ELSE ParseFormat(p).subtype
MediaSubtypeName(p) ==
  IF ParseFormat(p) = NULL THEN NULL ELSE ShortName(MediaSubtype(p))

\* Width of one sample, interleaved or planar, of either byte order.
SampleBytes(format) ==
  CASE format \in {"U8", "S8", "ULAW", "ALAW", "U8P", "S8P"} -> 1
    [] format \in {"S16_LE", "S16_BE", "U16_LE", "U16_BE", "S16P"} -> 2
    [] format \in {"S24_LE", "S24_BE", "U24_LE", "U24_BE", "S24P"} -> 3
    [] format \in {"S24_32_LE", "S24_32_BE", "U24_32_LE", "U24_32_BE",
                   "S32_LE", "S32_BE", "U32_LE", "U32_BE",
                   "F32_LE", "F32_BE", "S24_32P", "S32P", "F32P"} -> 4
    [] format \in {"F64_LE", "F64_BE", "F64P"} -> 8
    [] OTHER -> 0

\* The raw audio format of a Format param, as a PwgAudioFormat.
DupAudioFormat(p) ==
  IF \/ ParseFormat(p) # [type |-> "audio", subtype |-> "raw"]
     \/ Pod(p).raw = NULL
  THEN NULL
  ELSE LET raw == Pod(p).raw
       IN  [sampleFormat |-> IF ShortName(raw.format) = NULL
                             THEN "unknown" ELSE ShortName(raw.format),
            rate |-> raw.rate, channels |-> raw.channels,
            bytesPerSample |-> SampleBytes(raw.format)]

\* The properties that are inside the body.
CountProperties(pod) == IF HoldsObject(pod) THEN Len(pod.props) ELSE 0

\* The pods whose value the summary can show, and the bytes it reads for it:
\* of a string, those there are.
Width ==
  [t \in {"Bool", "Id", "Int", "Float"} |-> 4]
    @@ [t \in {"Long", "Double", "Rectangle", "Fraction"} |-> 8]
    @@ [t \in {"String"} |-> 0]
BasicValue(p) ==
  CASE Pod(p) = NULL -> "invalid"
    [] PodType(p) \in DOMAIN Width -> Peek(p, "value", Width[PodType(p)])
    [] OTHER -> NULL

\* What the summary shows, without its wording.
Summary(p) ==
  LET pod == Pod(p)
  IN  CASE pod = NULL -> [kind |-> "invalid"]
        [] IsObject(pod) ->
             [kind |-> "object", type |-> ObjectType(p), typeName |-> ObjectTypeName(p),
              id |-> ObjectId(p), idName |-> ObjectIdName(p),
              properties |-> CountProperties(pod)]
        [] pod # NULL /\ ~IsObject(pod) /\ BasicValue(p) # NULL ->
             [kind |-> "value", type |-> PodTypeName(p), value |-> BasicValue(p)]
        [] OTHER -> [kind |-> "size", type |-> pod.type, bytes |-> pod.size]

ParamProperties(p) ==
  [seq |-> p.seq, id |-> p.id, name |-> ShortName(p.id), index |-> p.index,
   next |-> p.next, podType |-> PodType(p), podTypeName |-> PodTypeName(p),
   objectType |-> ObjectType(p), objectTypeName |-> ObjectTypeName(p),
   objectId |-> ObjectId(p), objectIdName |-> ObjectIdName(p),
   bytes |-> p.bytes, summary |-> Summary(p)]

-----------------------------------------------------------------------------
\* Building, in a buffer of fixed size: how far it got, and whether all fitted

Builder(size) == [offset |-> 0, size |-> size, fits |-> TRUE]
Raw(b, n) ==
  [b EXCEPT !.offset = @ + n, !.fits = @ /\ b.offset + n <= b.size]

Pad(b) == Raw(b, IF b.offset % Header = 0 THEN 0 ELSE Header - (b.offset % Header))

Primitive(b, size) == Pad(Raw(b, Header + size))
PushObject(b) == Raw(b, Header + ObjectHeader)
PushStruct(b) == Raw(b, Header)
Property(b) == Raw(b, 8)          \* key and flags
AddFloat(b) == Primitive(b, 4)
AddString(b, len) == Primitive(b, len + 1)

\* Body size of the frame begun at an offset: the padding after it belongs
\* to its parent.
BodySize(b, start) == b.offset - start - Header
PopFrame(b) == Pad(b)

PropsPod(size, props) ==
  [type |-> "Object", size |-> size, objectType |-> "Props", objectId |-> "Props",
   media |-> NULL, raw |-> NULL, props |-> props]
PropsParam(b, props) ==
  IF ~PopFrame(b).fits THEN NULL
  ELSE NewParam(0, "Props", 0, 0,
         [len |-> Header + BodySize(b, 0), pod |-> PropsPod(BodySize(b, 0), props)])

InRange(x, low, high) == x.finite /\ low <= x.value /\ x.value <= high

NewProps(hasVolume, volume, hasMute, mute) ==
  LET opened == PushObject(Builder(SimpleSize))
      b1 == IF hasVolume THEN AddFloat(Property(opened)) ELSE opened
      b2 == IF hasMute THEN Primitive(Property(b1), 4) ELSE b1
  IN  PropsParam(b2, (IF hasVolume THEN <<<<"volume", volume.value>>>> ELSE <<>>)
                       \o (IF hasMute THEN <<<<"mute", mute>>>> ELSE <<>>))

NewPropsVolume(volume) ==
  IF InRange(volume, 0, MaxFloat) THEN NewProps(TRUE, volume, FALSE, FALSE) ELSE NULL
NewPropsMute(mute) == NewProps(FALSE, 0, TRUE, mute)

\* Fault: an unusable control is left out, and the rest built.
SkipBadControls(controls) ==
  LET good == SelectSeq(controls, LAMBDA c :
                c.name > 0 /\ InRange(c.value, -MaxFloat, MaxFloat))
      built[i \in 0..Len(good)] ==
        IF i = 0 THEN PushStruct(Property(PushObject(Builder(ControlSize))))
        ELSE AddFloat(AddString(built[i - 1], good[i].name))
  IN  PropsParam(PopFrame(built[Len(good)]), <<<<"params", good>>>>)

\* A struct of names and values under the property params; all or nothing.
NewPropsControls(controls) ==
  LET built[i \in 0..Len(controls)] ==
        IF i = 0 THEN PushStruct(Property(PushObject(Builder(ControlSize))))
        ELSE AddFloat(AddString(built[i - 1], controls[i].name))
      usable(c) == c.name > 0 /\ InRange(c.value, -MaxFloat, MaxFloat)
  IN  IF \E i \in DOMAIN controls : ~usable(controls[i]) THEN NULL
      ELSE PropsParam(PopFrame(built[Len(controls)]), <<<<"params", controls>>>>)

-----------------------------------------------------------------------------
\* PwgParamInfo: an id and the flags of spa_param_info

Bit(flags, b) == (flags \div b) % 2 = 1
ParamInfo(id, flags) == [id |-> id, flags |-> flags]
ParamInfoSerial(info) == Bit(info.flags, 1)
ParamInfoReadable(info) == Bit(info.flags, 2)
ParamInfoWritable(info) == Bit(info.flags, 4)
ParamInfoProperties(info) ==
  [id |-> info.id, name |-> ShortName(info.id), flags |-> info.flags,
   readable |-> ParamInfoReadable(info), writable |-> ParamInfoWritable(info),
   serial |-> ParamInfoSerial(info)]
=============================================================================
