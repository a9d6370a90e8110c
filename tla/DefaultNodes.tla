---------------------------- MODULE DefaultNodes ----------------------------
(***************************************************************************)
(* The names of the default nodes, read from the values a PwgMetadata has  *)
(* cached (pwg-metadata.c; the cache itself is Metadata's).                *)
(*                                                                         *)
(* A cached entry is [type, value].  A value is [text, object]: object is  *)
(* NULL, or what spa-json finds in the text: a sequence of tokens, keys    *)
(* and values by turns, "bad" where one cannot be parsed.                  *)
(***************************************************************************)
EXTENDS Nullable

IsJsonType(type) == type \in {"Spa:String:JSON", "Spa:JSON"}
LooksLikeObject(value) == value.object # NULL

\* pwg_metadata_dup_name_from_json(): the members from token i on.
NameFromJson(value) ==
  IF value.object = NULL THEN NULL
  ELSE LET t == value.object
           from[i \in 1..(Len(t) + 2)] ==
             IF i + 1 > Len(t) \/ t[i] = "bad" THEN NULL
             ELSE IF t[i] # "name" THEN from[i + 2]
             ELSE IF t[i + 1] \in {"bad", ""} THEN NULL ELSE t[i + 1]
       IN  from[1]

EntryNodeName(entry) ==
  IF entry = NULL \/ entry.value = NULL \/ entry.value.text = "" THEN NULL
  ELSE IF IsJsonType(entry.type) \/ LooksLikeObject(entry.value)
       THEN NameFromJson(entry.value)
       ELSE entry.value.text

\* The entries of subject 0, by key.
DefaultNodeName(entries, key) ==
  EntryNodeName(IF key \in DOMAIN entries THEN entries[key] ELSE NULL)
DefaultSink(entries) == DefaultNodeName(entries, "default.audio.sink")
DefaultSource(entries) == DefaultNodeName(entries, "default.audio.source")
ConfiguredSink(entries) == DefaultNodeName(entries, "default.configured.audio.sink")
ConfiguredSource(entries) == DefaultNodeName(entries, "default.configured.audio.source")
=============================================================================
