------------------------------ MODULE Metadata ------------------------------
(***************************************************************************)
(* PwgMetadata (pwg-metadata.c): it watches a registry for the metadata    *)
(* object of its name, binds it from the main context, and keeps a copy of *)
(* the properties that object announces.                                   *)
(*                                                                         *)
(* A proxy is the number of the request that created it, 0 is NULL, and    *)
(* its listener hook comes and goes with it.  An entry is a subject and a  *)
(* key; a value is the server's revision that wrote it.                    *)
(***************************************************************************)
EXTENDS Wrapper

CONSTANTS
  Ids,       \* ids the server gives to globals, and uses again
  MaxSerial, \* bound: metadata objects the server ever creates
  Names,     \* names of metadata objects
  Name,      \* self->name
  Subjects,  \* subjects of properties
  Keys,      \* keys of properties
  MaxRev,    \* bound: changes of properties
  Overlap    \* two objects of the wanted name may exist at the same time

ASSUME MetadataAssumption ==
  /\ Ids \subseteq Nat
  /\ MaxSerial \in Nat
  /\ Name \in Names
  /\ 0 \in Subjects     \* the core, and the subject of NoChange
  /\ MaxRev \in Nat
  /\ Overlap \in BOOLEAN

VARIABLES
  running,      \* self->running
  bound,        \* self->bound
  registry,     \* self->registry
  metadata,     \* self->metadata
  metadata_id,  \* self->metadata_id
  generation,   \* self->generation
  entries,      \* self->entries, each with its object and the proxy that told of it
  alive,        \* proxies of this wrapper alive on the connection
  server,       \* metadata objects that exist on the server
  serial,       \* serial of the last of them
  rev,          \* revision of the last change
  subs          \* what the server serves: a registry (o = 0) or an object

wrapperVars == <<running, bound, registry, metadata, metadata_id, generation,
                 entries, alive>>
serverVars == <<server, serial, rev, subs>>
vars == <<coreVars, wrapperVars, serverVars>>

NULL == 0
All == "all"      \* the NULL key: every key of the subject
None == 0         \* the NULL value: the key is removed
Object == [id : Ids, serial : Nat, name : Names,
           props : SUBSET [subject : Subjects, key : Keys, value : Nat]]
Entry == [subject : Subjects, key : Keys, value : Nat \ {None}, of : Nat, via : Nat]
Change == [subject : Subjects, key : Keys \cup {All}, value : Nat]

NoChange == [subject |-> 0, key |-> All, value |-> None]

Rests == {"start", "unbind", "halt", "clear", "reset", "unbound"}
Frames == CoreFrames \cup Rests \cup {"msync"}

\* Fault: there is never a second roundtrip.
MarkOnce(second) == [second |-> FALSE, session |-> registry, was |-> metadata,
                     asof |-> rev, have |-> server]

\* History of a sync(): the session, the object bound when it was called,
\* those that then existed and their revision, and whether it may need a second roundtrip.
Mark(second) == [second |-> second, session |-> registry, was |-> metadata,
                 asof |-> rev, have |-> server]

\* The reset on disconnect has something to undo and has not run.
Owed == ~connected /\ (registry # NULL \/ metadata # NULL)

MInit ==
  /\ Init
  /\ running = FALSE /\ bound = FALSE
  /\ registry = NULL /\ metadata = NULL /\ metadata_id = 0
  /\ generation = 0
  /\ entries = {} /\ alive = {}
  /\ server = {} /\ serial = 0 /\ rev = 0 /\ subs = {}

-----------------------------------------------------------------------------
(* pwg_metadata_start() and pwg_metadata_sync().                           *)

\* Under the loop lock: the registry and its listener, a new generation.
Open(below) ==
  /\ Sends(<<[kind |-> "registry", n |-> lastReq + 1, id |-> 0, c |-> NoChange]>>)
  /\ registry' = lastReq + 1
  /\ alive' = alive \cup {lastReq + 1}
  /\ generation' = generation + 1
  /\ running' = TRUE
  /\ Emit(below)
  /\ UNCHANGED <<bound, metadata, metadata_id, entries>>

\* A failed start fails the sync() that called it.
Failed(st) == IF st # <<>> /\ Head(st).op = "msync" THEN Tail(st) ELSE st

\* pw_core_get_registry() returned NULL, or the core is not connected.
OpenFails(below) ==
  /\ registry' = IF connected THEN NULL ELSE registry
  /\ stack' = Failed(below)
  /\ UNCHANGED <<lastReq, toServer, running, bound, metadata, metadata_id,
                 generation, entries, alive>>

StartOn(below) ==
  IF connected
    THEN /\ Open(below) \/ OpenFails(below)
         /\ UNCHANGED <<connected, connects, link, wire>>
    ELSE ConnectFor(Rest("start"), Owed, below) /\ UNCHANGED wrapperVars

Start ==
  /\ Calls("start", FALSE, Rests)
  /\ ~running
  /\ StartOn(stack)
  /\ UNCHANGED <<mainq, inLoop, serverVars>>

StartResume ==
  /\ TopIs("start")
  /\ (connected /\ Open(Tail(stack))) \/ OpenFails(Tail(stack))
  /\ UNCHANGED <<connected, connects, link, wire, mainq, inLoop, serverVars>>

\* sync() starts if it has to; was_bound is looked at after that.
Sync ==
  /\ Calls("sync", running, Rests)
  /\ IF running
       THEN Roundtrip(Mark(~bound), Owed, stack) /\ UNCHANGED wrapperVars
       ELSE StartOn(<<Rest("msync")>> \o stack)
  /\ UNCHANGED <<mainq, inLoop, serverVars>>

SyncStarted ==
  /\ TopIs("msync")
  /\ Roundtrip(Mark(~bound), Owed, Tail(stack))
  /\ UNCHANGED <<mainq, inLoop, wrapperVars, serverVars>>

\* The end of a roundtrip: a second one if the first has bound the object.
SyncDrainEnd ==
  /\ TopIs("drain") /\ Head(stack).mdone
  /\ LET m == Head(stack).mark
     IN  IF m.second /\ bound
           THEN Roundtrip([m EXCEPT !.second = FALSE], Owed, Tail(stack))
           ELSE Pop /\ UNCHANGED <<connected, connects, link, toServer, wire, lastReq>>
  /\ UNCHANGED <<mainq, inLoop, wrapperVars, serverVars>>

-----------------------------------------------------------------------------
(* pwg_metadata_stop(), and pwg_metadata_reset() on a disconnected core.   *)

\* Fault: the proxy that was bound is forgotten, not destroyed.
DestroyNothing(p) == UNCHANGED <<alive, subs>>

\* Proxies are destroyed under the loop lock, while there is a loop.
Destroy(p) ==
  IF connected
    THEN alive' = alive \ {p} /\ subs' = {s \in subs : s.p # p}
    ELSE UNCHANGED <<alive, subs>>

\* pwg_metadata_destroy_bound_proxy(): the entries go last, after the
\* handlers of notify::bound.
DestroyBoundProxy(below) ==
  /\ Destroy(metadata)
  /\ metadata' = NULL
  /\ metadata_id' = 0
  /\ bound' = FALSE
  /\ IF bound
       THEN Emit(<<Rest("unbind")>> \o below) /\ UNCHANGED entries
       ELSE stack' = below /\ entries' = {}

ClearEntries ==
  /\ TopIs("unbind") \/ TopIs("clear")
  /\ entries' = {}
  /\ Pop
  /\ UNCHANGED <<connected, connects, link, toServer, wire, lastReq, mainq, inLoop,
                 running, bound, registry, metadata, metadata_id, generation,
                 alive, serverVars>>

Stop ==
  /\ MayCall("stop", 3)
  /\ running \/ registry # NULL \/ metadata # NULL
  /\ DestroyBoundProxy(<<Rest("halt")>> \o stack)
  /\ UNCHANGED <<connected, connects, link, toServer, wire, lastReq, mainq, inLoop,
                 running, registry, generation, server, serial, rev>>

\* running FALSE and its notify; the entries again, after its handlers.
NotRunning(below) ==
  /\ running' = FALSE
  /\ IF running
       THEN Emit(<<Rest("clear")>> \o below) /\ UNCHANGED entries
       ELSE stack' = below /\ entries' = {}

\* The second half of stop().
Halt ==
  /\ TopIs("halt")
  /\ Destroy(registry)
  /\ registry' = NULL
  /\ generation' = generation + 1
  /\ NotRunning(Tail(stack))
  /\ UNCHANGED <<connected, connects, link, toServer, wire, lastReq, mainq, inLoop,
                 bound, metadata, metadata_id, server, serial, rev>>

\* pwg_core_disconnect() destroys every proxy; the handler that the wrapper
\* connected when it was constructed runs before those of the application.
DisconnectCore ==
  /\ DisconnectFor(Rest("reset"))
  /\ alive' = {}
  /\ subs' = {}
  /\ UNCHANGED <<running, bound, registry, metadata, metadata_id, generation,
                 entries, server, serial, rev>>

Restart == RestartFor(Rest("reset"), Owed)

Reset ==
  /\ TopIs("reset")
  /\ registry' = NULL
  /\ metadata' = NULL
  /\ metadata_id' = 0
  /\ generation' = generation + 1
  /\ bound' = FALSE
  /\ LET rest == <<Rest("unbound")>> \o Tail(stack)
     IN  IF bound THEN Emit(rest) ELSE stack' = rest
  /\ UNCHANGED <<connected, connects, link, toServer, wire, lastReq, mainq, inLoop,
                 running, entries, alive, serverVars>>

\* The rest of the reset, after the handlers of notify::bound.
Unbound ==
  /\ TopIs("unbound")
  /\ NotRunning(Tail(stack))
  /\ UNCHANGED <<connected, connects, link, toServer, wire, lastReq, mainq, inLoop,
                 bound, registry, metadata, metadata_id, generation, alive, serverVars>>

-----------------------------------------------------------------------------
(* From the loop thread to the main context.                               *)

Event(m) ==
  [kind |-> m.kind, gen |-> generation, id |-> m.id, c |-> m.c, of |-> m.of, via |-> m.to]

\* pwg_metadata_on_global(): only a metadata object of the wanted name;
\* pwg_metadata_on_global_remove(): any id; pwg_metadata_on_property().
OnMessage ==
  /\ Reads({"global", "gone", "property"})
  /\ LET m == Head(wire)
         wanted == m.to \in alive /\ (m.kind = "global" => m.name = Name)
     IN  mainq' = IF wanted THEN Append(mainq, Event(m)) ELSE mainq
  /\ UNCHANGED <<connected, connects, link, toServer, lastReq, stack, inLoop,
                 wrapperVars, serverVars>>

\* Fault: the generation of the event is not compared.
CurrentWhileRunning(e) == running

Current(e) == running /\ e.gen = generation

Drop == UNCHANGED <<stack, lastReq, toServer, wrapperVars, subs>>

\* Fault: the id of the object is not remembered.
BindForgetsId(id) ==
  \/ /\ ~bound /\ metadata = NULL /\ connected /\ registry # NULL
     /\ Sends(<<[kind |-> "object", n |-> lastReq + 1, id |-> id, c |-> NoChange]>>)
     /\ metadata' = lastReq + 1
     /\ alive' = alive \cup {lastReq + 1}
     /\ bound' = TRUE
     /\ Emit(stack)
     /\ UNCHANGED <<running, registry, metadata_id, generation, entries, subs>>
  \/ Drop

\* pwg_metadata_bind(), and its failures, which leave everything as it was.
Bind(id) ==
  \/ /\ ~bound /\ metadata = NULL /\ connected /\ registry # NULL
     /\ Sends(<<[kind |-> "object", n |-> lastReq + 1, id |-> id, c |-> NoChange]>>)
     /\ metadata' = lastReq + 1
     /\ metadata_id' = id
     /\ alive' = alive \cup {lastReq + 1}
     /\ bound' = TRUE
     /\ Emit(stack)
     /\ UNCHANGED <<running, registry, generation, entries, subs>>
  \/ Drop

DispatchFound ==
  /\ Takes({"global"})
  /\ IF Current(Head(mainq)) THEN Bind(Head(mainq).id) ELSE Drop
  /\ UNCHANGED <<connected, connects, link, wire, inLoop, server, serial, rev>>

DispatchRemoved ==
  /\ Takes({"gone"})
  /\ IF Current(Head(mainq)) /\ metadata_id = Head(mainq).id
       THEN /\ DestroyBoundProxy(stack)
            /\ UNCHANGED <<lastReq, toServer, running, registry, generation>>
       ELSE Drop
  /\ UNCHANGED <<connected, connects, link, wire, inLoop, server, serial, rev>>

\* What a change leaves of a set of properties.
Without(S, c) ==
  {x \in S : x.subject # c.subject \/ c.key \notin {x.key, All}}

\* Fault: a removed key is cached with its NULL value.
CachedNull(e) ==
  Without(entries, e.c) \cup
    (IF e.c.key = All THEN {}
     ELSE {[subject |-> e.c.subject, key |-> e.c.key, value |-> e.c.value,
            of |-> e.of, via |-> e.via]})

\* Fault: only a key that is cached already is updated.
CachedKnown(e) ==
  Without(entries, e.c) \cup
    {[x EXCEPT !.value = e.c.value] : x \in entries \ Without(entries, e.c)}

\* pwg_metadata_cache_change(), pwg_metadata_clear_subject()
Cached(e) ==
  Without(entries, e.c) \cup
    (IF e.c.key = All \/ e.c.value = None THEN {}
     ELSE {[subject |-> e.c.subject, key |-> e.c.key, value |-> e.c.value,
            of |-> e.of, via |-> e.via]})

\* The cache first, then the signal "changed".
DispatchChanged ==
  /\ Takes({"property"})
  /\ IF Current(Head(mainq))
       THEN /\ entries' = Cached(Head(mainq))
            /\ Emit(stack)
            /\ UNCHANGED <<lastReq, toServer, running, bound, registry, metadata,
                           metadata_id, generation, alive, subs>>
       ELSE Drop
  /\ UNCHANGED <<connected, connects, link, wire, inLoop, server, serial, rev>>

-----------------------------------------------------------------------------
(* pwg_metadata_set() and pwg_metadata_clear().                            *)

Writable == metadata # NULL /\ connected

SetValue(c) ==
  /\ MayCall("set", 0)
  /\ Writable
  /\ Sends(<<[kind |-> "set", n |-> metadata, id |-> 0, c |-> c]>>)
  /\ UNCHANGED <<connected, connects, link, wire, mainq, stack, inLoop,
                 wrapperVars, serverVars>>

\* The cache is emptied without waiting for the server to say so.
ClearAll ==
  /\ MayCall("clear", 0)
  /\ Writable
  /\ Sends(<<[kind |-> "wipe", n |-> metadata, id |-> 0, c |-> NoChange]>>)
  /\ entries' = {}
  /\ UNCHANGED <<connected, connects, link, wire, mainq, stack, inLoop,
                 running, bound, registry, metadata, metadata_id, generation,
                 alive, serverVars>>

-----------------------------------------------------------------------------
(* The server.                                                             *)

Tell(kind, p, o, c) ==
  [kind |-> kind, to |-> p, id |-> o.id, name |-> o.name, of |-> o.serial, c |-> c]

\* The same message to every proxy of a set, in an order of the server's.
Broadcast(kind, ps, o, c) ==
  IF link
    THEN \E s \in Orders(ps) :
           wire' = wire \o [i \in DOMAIN s |-> Tell(kind, s[i], o, c)]
    ELSE UNCHANGED wire

Serving(o) == {s.p : s \in {t \in subs : t.o = o}}

ServeRegistry ==
  /\ Serves({"registry"})
  /\ LET p == Head(toServer).n
     IN  IF p \in alive
           THEN /\ subs' = subs \cup {[p |-> p, o |-> 0]}
                /\ \E s \in Orders(server) :
                     wire' = wire \o [i \in DOMAIN s |->
                               Tell("global", p, s[i], NoChange)]
           ELSE UNCHANGED <<subs, wire>>
  /\ UNCHANGED <<connected, connects, link, lastReq, mainq, stack, inLoop,
                 wrapperVars, server, serial, rev>>

\* The object that has the id by now, if any; its properties are announced.
ServeObject ==
  /\ Serves({"object"})
  /\ LET r == Head(toServer)
         found == {o \in server : o.id = r.id}
     IN  IF r.n \in alive /\ found # {}
           THEN \E o \in found :
                  /\ subs' = subs \cup {[p |-> r.n, o |-> o.serial]}
                  /\ \E s \in Orders(o.props) :
                       wire' = wire \o [i \in DOMAIN s |->
                                 Tell("property", r.n, o, s[i])]
           ELSE UNCHANGED <<subs, wire>>
  /\ UNCHANGED <<connected, connects, link, lastReq, mainq, stack, inLoop,
                 wrapperVars, server, serial, rev>>

\* A change of an object, announced to all that serve from it.
Changes(o, c) ==
  /\ server' = (server \ {o}) \cup
       {[o EXCEPT !.props = Without(@, c) \cup
           (IF c.key = All \/ c.value = None THEN {}
            ELSE {[subject |-> c.subject, key |-> c.key, value |-> c.value]})]}
  /\ Broadcast("property", Serving(o.serial), o, c)

\* A request of this wrapper: a value written is the next revision.
ServeSet ==
  /\ Serves({"set"})
  /\ \/ \E o \in server :
          /\ Head(toServer).n \in Serving(o.serial)
          /\ rev < MaxRev
          /\ rev' = rev + 1
          /\ LET c == Head(toServer).c
             IN  Changes(o, [c EXCEPT !.value = IF @ = None THEN None ELSE rev + 1])
     \/ /\ rev >= MaxRev \/ \A o \in server : Head(toServer).n \notin Serving(o.serial)
        /\ UNCHANGED <<server, rev, wire>>
  /\ UNCHANGED <<connected, connects, link, lastReq, mainq, stack, inLoop,
                 wrapperVars, serial, subs>>

\* Every subject is cleared, one announcement for each.
ServeWipe ==
  /\ Serves({"wipe"})
  /\ \/ \E o \in server :
          /\ Head(toServer).n \in Serving(o.serial)
          /\ server' = (server \ {o}) \cup {[o EXCEPT !.props = {}]}
          /\ \E s \in Orders({x.subject : x \in o.props}) :
               wire' = wire \o [i \in DOMAIN s |->
                 Tell("property", Head(toServer).n, o,
                      [NoChange EXCEPT !.subject = s[i]])]
     \/ /\ \A o \in server : Head(toServer).n \notin Serving(o.serial)
        /\ UNCHANGED <<server, wire>>
  /\ UNCHANGED <<connected, connects, link, lastReq, mainq, stack, inLoop,
                 wrapperVars, serial, rev, subs>>

\* Another client writes a property.
ServerWrites(o, subject, key) ==
  /\ rev < MaxRev
  /\ rev' = rev + 1
  /\ Changes(o, [subject |-> subject, key |-> key, value |-> rev + 1])
  /\ UNCHANGED <<connected, connects, link, toServer, lastReq, mainq, stack, inLoop,
                 wrapperVars, serial, subs>>

ServerAdd(id, name) ==
  /\ serial < MaxSerial
  /\ \A o \in server : o.id # id /\ (Overlap \/ o.name # name)
  /\ serial' = serial + 1
  /\ LET o == [id |-> id, serial |-> serial + 1, name |-> name, props |-> {}]
     IN  server' = server \cup {o} /\ Broadcast("global", Serving(0), o, NoChange)
  /\ UNCHANGED <<connected, connects, link, toServer, lastReq, mainq, stack, inLoop,
                 wrapperVars, rev, subs>>

ServerRemove(o) ==
  /\ server' = server \ {o}
  /\ subs' = {s \in subs : s.o # o.serial}
  /\ Broadcast("gone", Serving(0), o, NoChange)
  /\ UNCHANGED <<connected, connects, link, toServer, lastReq, mainq, stack, inLoop,
                 wrapperVars, serial, rev>>

-----------------------------------------------------------------------------
\* A step of Core leaves the wrapper alone.
Keep(step) == step /\ UNCHANGED <<wrapperVars, serverVars>>

MMainStep ==
  \/ Keep(SyncResume(Head(stack).mark))
  \/ Keep(SyncWake) \/ Keep(SyncTimeout) \/ Keep(HandlerReturn)
  \/ ~Owed /\ Keep(NotifyReturn)
  \/ Keep(Restart)
  \/ StartResume \/ SyncStarted \/ SyncDrainEnd
  \/ ClearEntries \/ Halt \/ Reset \/ Unbound

Dispatch ==
  Keep(DispatchToken) \/ DispatchFound \/ DispatchRemoved \/ DispatchChanged

MServerStep ==
  Keep(ServeSync) \/ ServeRegistry \/ ServeObject \/ ServeSet \/ ServeWipe

MLoopStep == Keep(LoopStep) \/ OnMessage

\* The calls are made from the main loop: all that may happen without one
\* may happen in one that has not come to dispatch anything yet.
MCall ==
  /\ inLoop
  /\ \/ Start \/ Sync \/ Stop \/ DisconnectCore
     \/ MayConnect(Owed) /\ Keep(Connect)
     \/ \E s \in Subjects, k \in Keys, v \in {None, 1} :
          SetValue([subject |-> s, key |-> k, value |-> v])
     \/ ClearAll

MNext ==
  \/ MCall
  \/ MMainStep \/ Dispatch \/ MServerStep \/ MLoopStep
  \/ Keep(EnterLoop)
  \/ \E id \in Ids, name \in Names : ServerAdd(id, name)
  \/ \E o \in server : ServerRemove(o)
  \/ \E o \in server, s \in Subjects, k \in Keys : ServerWrites(o, s, k)

MSpec == MInit /\ [][MNext]_vars

\* The threads and the server do not all stop while one of them can go on.
\* That is enough: each of these steps uses up a message, an event or a frame
\* that some call of the application has brought about.
MFairness == WF_vars(MMainStep \/ Dispatch \/ MServerStep \/ MLoopStep)

MFairSpec == MSpec /\ MFairness

-----------------------------------------------------------------------------
(* Properties.                                                             *)

Requests ==
  [kind : {"sync"}, n : Nat] \cup
  [kind : {"registry", "object", "set", "wipe"}, n : Nat, id : Nat, c : Change]
Messages ==
  CoreMessages \cup [kind : {"global", "gone", "property"}, to : Nat, id : Ids,
                     name : Names, of : Nat, c : Change]
Sources ==
  CoreSources \cup [kind : {"global", "gone", "property"}, gen : Nat, id : Ids,
                    c : Change, of : Nat, via : Nat]
Marks == {NoMark} \cup [second : BOOLEAN, session : Nat, was : Nat, asof : Nat,
                        have : SUBSET Object]

\* Types; every value in the cache is one that was set.
MTypeOK ==
  /\ CoreTypeOK(Requests, Messages, Sources, Frames, Marks)
  /\ running \in BOOLEAN /\ bound \in BOOLEAN
  /\ registry \in Nat /\ metadata \in Nat /\ metadata_id \in Nat
  /\ generation \in Nat
  /\ entries \subseteq Entry
  /\ alive \subseteq Nat
  /\ server \subseteq Object
  /\ serial \in Nat /\ rev \in Nat
  /\ subs \subseteq [p : Nat, o : Nat]

\* What the bound proxy told, among what is cached.
Told == {x \in entries : x.via = metadata}

\* Between calls a wrapper that does not run shows nothing, one that runs
\* shows only what its own session told, and of what the bound proxy told
\* all is of the object that it is bound to: after a removal, a rebind, a
\* restart or the use of an id by another object.
CacheOfBound ==
  ~HasRest(Rests) =>
    /\ ~running => ~bound /\ registry = NULL /\ metadata = NULL /\ entries = {}
    /\ running => \A x \in entries : x.via > registry
    /\ \A x \in Told, o \in server :
         metadata \in Serving(o.serial) => x.of = o.serial

\* While bound, a value that the proxy told of an object that has gone is
\* about to go too.
GoneIsForgotten ==
  LET removal(m) == m.kind = "gone" /\ m.id = metadata_id
  IN  ~HasRest(Rests) /\ bound /\ link =>
        \A x \in Told :
          \/ \E o \in server : o.serial = x.of
          \/ \E i \in DOMAIN wire : removal(wire[i])
          \/ \E i \in DOMAIN mainq : removal(mainq[i])

\* That all that is cached is what the bound proxy told does not hold: the
\* properties that a destroyed proxy announced carry the generation of the
\* session that goes on (pwg-metadata.c:395).  Its successor is shown with
\* them, and they stay if pw_registry_bind() fails and nothing is bound.
ToldByBound == ~HasRest(Rests) => entries = Told

\* "Stops metadata discovery and clears the current local cache"
\* (pwg-metadata.h:81): between calls, a wrapper that does not run is bound to
\* nothing and shows nothing.  Not so when a handler of notify::bound inside
\* stop() calls sync(), which dispatches a global while running is still TRUE.
StopClears == ~HasRest(Rests) /\ ~running => ~bound /\ entries = {}

\* No proxy is forgotten, and none is used that has been destroyed.
ProxiesOwned ==
  /\ alive \subseteq {registry, metadata}
  /\ connected => {registry, metadata} \ {NULL} \subseteq alive

\* sync() is about to return TRUE, within the session in which it was called.
Synced(f) == f.mdone /\ ~(f.mark.second /\ bound) /\ running /\ f.mark.session = registry

Shown(S) == {[subject |-> x.subject, key |-> x.key, value |-> x.value] : x \in S}
\* Of object o, known as h when the revision was asof, the cache S shows what
\* was and still is set, and nothing that had been removed or replaced.
UpToDate(S, h, o, asof) ==
  /\ h.props \cap o.props \subseteq Shown(S)
  /\ \A x \in Shown(S) : x.value <= asof => x \in h.props

\* "performs the PipeWire roundtrips needed to make the discovered metadata
\* object and its queued values visible" (pwg-metadata.h:63): when sync()
\* returns TRUE, the cache has what the bound object had at the call.
SyncShowsValues ==
  \A i \in DOMAIN stack : Synced(stack[i]) =>
    \A h \in stack[i].mark.have, o \in server :
      h.serial = o.serial /\ o.id = metadata_id =>
        UpToDate(entries, h, o, stack[i].mark.asof)

\* The same where the code can promise it: of the object bound at the call,
\* or bound by a sync() that was called when none was; and of what the bound
\* proxy told.
SyncedCache ==
  \A i \in DOMAIN stack :
    Synced(stack[i]) /\ stack[i].mark.was \in {NULL, metadata} =>
      \A h \in stack[i].mark.have, o \in server :
        h.serial = o.serial /\ o.id = metadata_id =>
          UpToDate(Told, h, o, stack[i].mark.asof)

\* A wrapper that stays bound under a running main loop ends up showing the
\* properties of the object it is bound to.
CacheConverges ==
  <>[](bound /\ inLoop) =>
    <>[](\A o \in server : metadata \in Serving(o.serial) => Shown(Told) = o.props)
=============================================================================
