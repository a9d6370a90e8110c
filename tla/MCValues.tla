------------------------------ MODULE MCValues ------------------------------
(***************************************************************************)
(* Inputs for Values: every boundary the code tests, from both sides.      *)
(***************************************************************************)
EXTENDS Values

UpTo(S, n) == UNION {[1..k -> S] : k \in 0..n}
Finite(v) == [finite |-> TRUE, value |-> v]
Infinite == [finite |-> FALSE]

\* Controls of 32 (but for the last name) and 40 bytes: ControlSize holds three of the first kind.
Controls ==
  {[name |-> n, value |-> v] : n \in {0, 1, 7, 8},
     v \in {Finite(0), Finite(-MaxFloat), Finite(MaxFloat + 1), Infinite}}
Numbers == {Finite(v) : v \in {-1, 0, 1, MaxFloat, MaxFloat + 1}} \cup {Infinite}

Builds ==
  {[kind |-> "controls", controls |-> c] : c \in UpTo(Controls, 3)}
    \cup {[kind |-> "volume", volume |-> v] : v \in Numbers}
    \cup {[kind |-> "mute", mute |-> b] : b \in BOOLEAN}

Plain(type, size) ==
  [type |-> type, size |-> size, value |-> "v", objectType |-> Zero, objectId |-> Zero,
   media |-> NULL, raw |-> NULL, props |-> <<>>]
Object(size, type, id, media, raw) ==
  [type |-> "Object", size |-> size, objectType |-> type, objectId |-> id,
   media |-> media, raw |-> raw, props |-> <<"a", "b">>]
Media == {NULL} \cup {[type |-> t, subtype |-> s] : t \in {"audio", "video"}, s \in {"raw", "dsp"}}
Raws == {NULL} \cup {[format |-> f, rate |-> 48000, channels |-> c] :
                       f \in {"S16_LE", "S24_BE", "F32_LE", "F64P", "odd"}, c \in {0, 2, 4}}
Pods ==
  {Plain(t, s) : t \in {"Int", "Long", "String", "Choice"}, s \in {0, 4, 7, 8}}
    \cup {Object(s, t, "Format", [type |-> "audio", subtype |-> "raw"], NULL) :
             s \in {0, 4, 7, 8}, t \in {"Format", "Props"}}
    \cup {Object(16, t, "Format", m, r) : t \in {"Format", "Props"}, m \in Media, r \in Raws}
Cuts(pod) == {0, Header - 1, Header, Header + pod.size - 1, Header + pod.size}
Params0 ==
  {NewParam(0, "Format", 0, 0, NoBytes)}
    \cup UNION {{NewParam(0, "Format", 0, 0, [len |-> n, pod |-> p]) : n \in Cuts(p)} : p \in Pods}

Info == {NULL, [type |-> "Int", count |-> NULL, items |-> <<>>]}
          \cup {[type |-> "Struct", count |-> n, items |-> s] :
                  n \in {NULL} \cup -1..3, s \in UpTo({"k", "v", NULL}, 4)}
Fields ==
  {[f \in D |-> IF f \in IntFields THEN 7 ELSE "input"] :
     D \in SUBSET {"index", "profile", "direction", "name"}}
MCMemory ==
  {[value |-> "stray", objectType |-> t, objectId |-> "stray"] : t \in {"Format", "ParamRoute"}}

RoutePod(size, type, fields, info) ==
  [type |-> "Object", size |-> size, objectType |-> type, fields |-> fields, info |-> info]
Routes0 ==
  {NewParam(0, id, 0, 0, [len |-> n, pod |-> RoutePod(32, t, f, NULL)]) :
     id \in {"Route", "EnumRoute", "Profile"}, n \in {39, 40},
     t \in {"ParamRoute", "Props"}, f \in Fields}
    \cup {NewParam(0, "Route", 0, 0, [len |-> 40, pod |-> RoutePod(32, "ParamRoute", <<>>, i)]) :
            i \in Info}
    \cup {NewParam(0, "Route", 0, 0, [len |-> Header + s, pod |-> RoutePod(s, "ParamRoute", <<>>, NULL)]) :
            s \in {0, 4, 7, 8}}

Keys == {"node.name", "node.description", "port.alias", "application.name"}
Dicts == UNION {[S -> {"", "x", "y"}] : S \in SUBSET Keys}
Pairs(d) == [i \in 1..Cardinality(DOMAIN d) |->
               LET k == SetToSeq(DOMAIN d)[i] IN <<k, d[k]>>]
OneGlobal ==
  {NewGlobal(1, 0, type, 3, Pairs(d)) : type \in {"Node", "Port", "Core"}, d \in Dicts}
    \cup {NewGlobal(1, 0, "Link", 3, NULL),
          NewGlobal(1, 0, "Device", 3, <<<<"node.name", "x">>, <<"node.name", "y">>>>)}
Listed == {NewGlobal(id, 0, "Node", 3, d) : id \in {"1", "2"},
             d \in {NULL, <<<<"object.serial", "s">>, <<"media.class", "Audio">>>>,
                    <<<<"object.serial", "t">>, <<"object.serial", "s">>>>}}

Tokens == UpTo({"name", "other", "bad", "", "n"}, 4)
Entries ==
  {[type |-> t, value |-> v] : t \in {"Spa:JSON", "Spa:String"},
     v \in {NULL, [text |-> "", object |-> NULL], [text |-> "plain", object |-> NULL]}
            \cup {[text |-> "{}", object |-> o] : o \in Tokens}}

Chunks == {NULL} \cup {[offset |-> o, size |-> s] : o \in {0, 4, 8, MaxUint - 3}, s \in {0, 3, 4, 8, 10, 12}}
Buffers ==
  {[chunk |-> c, maxsize |-> 16, samples |-> <<v, -2, 1, w>>] :
     c \in Chunks, v \in {0, 3}, w \in {-5, 0}}
Calls == {[set |-> "property", running |-> r, key |-> k, value |-> v] :
            r \in BOOLEAN, k \in {"", "media.role", "stream.capture.sink"}, v \in {NULL, "v"}}
          \cup
         {[set |-> "format", running |-> r, name |-> n, rate |-> rate, channels |-> c] :
            r \in BOOLEAN, n \in {"", "S16", "F32"}, rate \in {0, 44100}, c \in {0, 1, 3}}

MCInputs ==
  Builds
    \cup {[kind |-> "param", param |-> p] : p \in Params0}
    \cup {[kind |-> "route", param |-> p] : p \in Routes0}
    \cup {[kind |-> "flags", flags |-> f] : f \in 0..15}
    \cup {[kind |-> "global", global |-> g] : g \in OneGlobal}
    \cup {[kind |-> "lookup", globals |-> gs, by |-> b[1], value |-> b[2]] : gs \in UpTo(Listed, 2),
            b \in {<<"id", "2">>, <<"serial", "s">>, <<"interface", "Node">>, <<"class", "Audio">>}}
    \cup {[kind |-> "default", entries |-> [k \in {"default.audio.sink"} |-> e]] : e \in Entries}
    \cup {[kind |-> "format", name |-> "F32", rate |-> 1, channels |-> c, bytes |-> b] :
            c \in 0..MaxUint, b \in 0..MaxUint}
    \cup {[kind |-> "buffer", buffer |-> b, format |-> [format |-> f, channels |-> c]] :
            b \in Buffers, f \in {"F32", "S16"}, c \in 0..3}
    \cup {[kind |-> "rate", num |-> n, denom |-> d] : n \in 0..5, d \in 0..12}
    \cup {[kind |-> "settings", calls |-> s, monitor |-> m] :
            s \in UpTo(Calls, 2), m \in BOOLEAN}
=============================================================================
