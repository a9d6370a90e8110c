------------------------------ MODULE Registry ------------------------------
(***************************************************************************)
(* PwgRegistry (pwg-registry.c) on the connection of Core: discovery of    *)
(* the server's globals by the loop thread, carried to the main context    *)
(* as events, applied there to the list of globals.                        *)
(*                                                                         *)
(* A registry proxy is named by the number of the request that bound it;   *)
(* 0 is NULL.  A global is its id, which the server reuses, and a serial,  *)
(* which it does not.  The listener hook is added and removed together     *)
(* with the proxy, so "in bound" stands for both.                          *)
(***************************************************************************)
EXTENDS Core, FiniteSets

CONSTANTS
  Ids,             \* ids the server gives to globals
  MaxSerial,       \* bound: globals the server ever creates
  MaxGen,          \* bound: generations that stop() begins
  DefaultContext,  \* main_context is the process-wide default context
  Reentry,         \* whether an application handler of notify::connected
                   \* disconnects the core, and then connects it again
  Interrupts       \* handlers start a session while a start or stop of this
                   \* registry is suspended below them

ASSUME RegistryAssumption ==
  /\ MaxSerial \in Nat /\ MaxGen \in Nat
  /\ DefaultContext \in BOOLEAN
  /\ Reentry \subseteq {"disconnect", "reconnect"}
  /\ Interrupts \in BOOLEAN

VARIABLES
  registry,      \* self->registry
  running,       \* self->running
  generation,    \* self->generation
  globals,       \* self->globals, each entry with the proxy that announced it
  bound,         \* proxies of this registry alive on the connection
  server,        \* globals that exist on the server
  serial,        \* serial of the last global created
  subs,          \* proxies the server announces changes to
  emitter        \* thread that emitted the last signal

regVars == <<registry, running, generation, globals, bound>>
serverVars == <<server, serial, subs>>
vars == <<coreVars, regVars, serverVars, emitter>>

NULL == 0

Global == [id : Ids, serial : Nat]
Entry == [id : Ids, serial : Nat, from : Nat]

Marks == [session : Nat, have : SUBSET Global, upto : Nat]

RegistryFrames == CoreFrames \cup {"start", "rsync", "reset", "clear"}
RegistryRequests == CoreRequests \cup [kind : {"bind"}, n : Nat]
RegistryMessages ==
  CoreMessages \cup [kind : {"add", "remove"}, to : Nat, g : Global]
RegistrySources ==
  CoreSources \cup [kind : {"add", "remove"}, gen : Nat, from : Nat, g : Global]

\* A handler of the signal just emitted runs next, if one is connected.
Handlers == {<<>>} \cup (IF Len(stack) < MaxDepth THEN {<<App>>} ELSE {})
Emit(rest) == \E h \in Handlers : stack' = h \o rest

\* The reset on disconnect has something to undo and has not run.  Within an
\* emission of notify::connected that is so when a handler has disconnected:
\* the handler of the registry runs when the emission starts over.
Owed == ~connected /\ (running \/ registry # NULL)
MayConnect == Emitting /\ Owed => "reconnect" \in Reentry

RInit ==
  /\ Init
  /\ registry = NULL
  /\ running = FALSE
  /\ generation = 0
  /\ globals = {}
  /\ bound = {}
  /\ server = {}
  /\ serial = 0
  /\ subs = {}
  /\ emitter = "none"

-----------------------------------------------------------------------------
(* pwg_registry_start()                                                    *)

\* Under the loop lock: create the proxy, hook the listener, open a new
\* generation.  Then notify::running.  running is not looked at again.
Bind(below) ==
  /\ lastReq < MaxReq
  /\ lastReq' = lastReq + 1
  /\ toServer' = Append(toServer, [kind |-> "bind", n |-> lastReq + 1])
  /\ registry' = lastReq + 1
  /\ bound' = bound \cup {lastReq + 1}
  /\ generation' = generation + 1
  /\ running' = TRUE
  /\ Emit(below)
  /\ UNCHANGED globals

\* A failed start returns FALSE, and so does the sync() that called it.
Failed(st) ==
  stack' = IF st # <<>> /\ Head(st).op = "rsync" THEN Tail(st) ELSE st

\* Fault: an error value instead of NULL is kept as the proxy.
BindFailsUnchecked(below) ==
  /\ registry' = -1
  /\ Failed(below)
  /\ UNCHANGED <<lastReq, toServer, running, generation, globals, bound>>

\* pw_core_get_registry() returned NULL.
BindFails(below) ==
  /\ registry' = NULL
  /\ Failed(below)
  /\ UNCHANGED <<lastReq, toServer, running, generation, globals, bound>>

\* Connect first if needed; the handlers of notify::connected run in between.
StartOn(st) ==
  \/ /\ connected
     /\ Bind(st) \/ BindFails(st)
     /\ UNCHANGED <<connected, connects, link, wire>>
  \/ /\ MayConnect /\ Connected
     /\ stack' = Notified(<<Suspension("start", FALSE, FALSE)>> \o st)
     /\ UNCHANGED <<lastReq, regVars>>

Suspended ==
  \E i \in DOMAIN stack : stack[i].op \in {"start", "reset", "clear"}

Start ==
  /\ MayCall("start", 1)
  /\ Interrupts \/ ~Suspended
  /\ ~running
  /\ StartOn(stack)
  /\ UNCHANGED <<mainq, inLoop, serverVars, emitter>>

StartResume ==
  /\ TopIs("start")
  /\ IF connected
       THEN Bind(Tail(stack)) \/ BindFails(Tail(stack))
       ELSE Failed(Tail(stack)) /\ UNCHANGED <<lastReq, toServer, regVars>>
  /\ UNCHANGED <<connected, connects, link, wire, mainq, inLoop, serverVars, emitter>>

-----------------------------------------------------------------------------
(* pwg_registry_sync(): start if needed, then the core roundtrip that also *)
(* drains the main context.                                                *)

\* History: the session and the server's globals at the time of the call.
Mark == [session |-> registry, have |-> server, upto |-> serial]

SyncOn(timed, st) ==
  \/ /\ connected
     /\ SendSync(TRUE, timed, Mark, st) \/ SendFails(st)
     /\ UNCHANGED <<connected, connects, link, wire>>
  \/ /\ MayConnect /\ Connected
     /\ stack' = Notified(<<Suspension("sync", TRUE, timed)>> \o st)
     /\ UNCHANGED lastReq
  \/ /\ ~connected
     /\ SendFails(st)
     /\ UNCHANGED <<connected, connects, link, wire>>

Sync(timed) ==
  /\ MayCall("sync", 2)
  /\ Interrupts \/ ~Suspended
  /\ IF running
       THEN SyncOn(timed, stack) /\ UNCHANGED regVars
       ELSE StartOn(<<Suspension("rsync", TRUE, timed)>> \o stack)
  /\ UNCHANGED <<mainq, inLoop, serverVars, emitter>>

RsyncResume ==
  /\ TopIs("rsync")
  /\ SyncOn(Head(stack).timed, Tail(stack))
  /\ UNCHANGED <<mainq, inLoop, regVars, serverVars, emitter>>

-----------------------------------------------------------------------------
(* pwg_registry_stop(), and pwg_registry_reset() on a disconnected core.   *)

Clear == Suspension("clear", FALSE, FALSE)
OnConnectedNotify == Suspension("reset", FALSE, FALSE)

\* Fault: the list is not emptied.
EndSessionKeepList(below) ==
  /\ generation' = generation + 1
  /\ running' = FALSE
  /\ Emit(below)
  /\ UNCHANGED globals

\* generation++; running FALSE and its notify; then the list is emptied,
\* after the handlers of notify::running have run.
EndSession(below) ==
  /\ generation' = generation + 1
  /\ running' = FALSE
  /\ IF running
       THEN Emit(<<Clear>> \o below) /\ UNCHANGED globals
       ELSE stack' = below /\ globals' = {}

ClearRest ==
  /\ TopIs("clear")
  /\ globals' = {}
  /\ Pop
  /\ UNCHANGED <<connected, connects, link, toServer, wire, lastReq, mainq, inLoop,
                 registry, running, generation, bound, serverVars, emitter>>

\* Fault: the proxy is forgotten but not destroyed.
StopLeak ==
  /\ MayCall("stop", 1)
  /\ generation < MaxGen
  /\ running \/ registry # NULL
  /\ registry' = NULL
  /\ EndSession(stack)
  /\ UNCHANGED <<connected, connects, link, toServer, wire, lastReq, mainq, inLoop,
                 bound, serverVars, emitter>>

\* The proxy is only destroyed while the loop exists.
Stop ==
  /\ MayCall("stop", 1)
  /\ generation < MaxGen
  /\ running \/ registry # NULL
  /\ IF connected
       THEN registry' = NULL /\ bound' = bound \ {registry} /\ subs' = subs \ {registry}
       ELSE UNCHANGED <<registry, bound, subs>>
  /\ EndSession(stack)
  /\ UNCHANGED <<connected, connects, link, toServer, wire, lastReq, mainq, inLoop,
                 server, serial, emitter>>

\* pwg_core_disconnect() destroys every proxy, then emits notify::connected:
\* the registry's handler, connected when it was constructed, runs before
\* those of the application.  Within such an emission none runs yet.
DisconnectCore ==
  /\ MayCall("disconnect", IF Emitting THEN 0 ELSE 2)
  /\ Emitting => "disconnect" \in Reentry
  /\ Disconnected
  /\ bound' = {}
  /\ subs' = {}
  /\ stack' = IF Emitting THEN stack ELSE <<OnConnectedNotify, Notify>> \o stack
  /\ UNCHANGED <<lastReq, mainq, inLoop, registry, running, generation, globals,
                 server, serial, emitter>>

\* The emission in which the core was disconnected starts over: the handler
\* of the registry first.  That is no step when it has nothing to undo.
Restart ==
  /\ TopIs("notify") /\ Owed
  /\ Push(<<OnConnectedNotify>>)
  /\ UNCHANGED <<connected, connects, link, toServer, wire, lastReq, mainq, inLoop,
                 regVars, serverVars, emitter>>

\* pwg_registry_on_core_connected_notify(), pwg_registry_reset()
Reset ==
  /\ TopIs("reset")
  /\ IF connected
       THEN Pop /\ UNCHANGED regVars
       ELSE registry' = NULL /\ EndSession(Tail(stack)) /\ UNCHANGED bound
  /\ UNCHANGED <<connected, connects, link, toServer, wire, lastReq, mainq, inLoop,
                 serverVars, emitter>>

-----------------------------------------------------------------------------
(* Events: from the loop thread to the list of globals.                    *)

\* Fault: the generation of the event is not compared.
ApplyAnyGeneration(e, th) ==
  LET same == {x \in globals : x.id = e.g.id}
      new == [id |-> e.g.id, serial |-> e.g.serial, from |-> e.from]
      kept == globals \ same
  IN  IF running /\ (e.kind = "add" \/ same # {})
        THEN /\ globals' = IF e.kind = "add" THEN kept \cup {new} ELSE kept
             /\ emitter' = th
             /\ Emit(stack)
        ELSE UNCHANGED <<globals, emitter, stack>>

\* Fault: a removed global stays in the list.
ApplyAddsOnly(e, th) ==
  LET new == [id |-> e.g.id, serial |-> e.g.serial, from |-> e.from]
  IN  IF running /\ e.gen = generation /\ e.kind = "add"
        THEN /\ globals' = {x \in globals : x.id # e.g.id} \cup {new}
             /\ emitter' = th
             /\ Emit(stack)
        ELSE UNCHANGED <<globals, emitter, stack>>

\* pwg_registry_dispatch_event() on thread th, which emits with what is
\* under the handler's frame.  Only a main thread handler may call back in.
ApplyEvent(e, th) ==
  LET same == {x \in globals : x.id = e.g.id}
      new == [id |-> e.g.id, serial |-> e.g.serial, from |-> e.from]
      kept == globals \ same
      effective == /\ running /\ e.gen = generation
                   /\ e.kind = "add" \/ same # {}
  IN  IF effective
        THEN /\ globals' = IF e.kind = "add" THEN kept \cup {new} ELSE kept
             /\ emitter' = th
             /\ IF th = "main" THEN Emit(stack) ELSE UNCHANGED stack
        ELSE UNCHANGED <<globals, emitter, stack>>

DispatchEvent ==
  /\ Iterating
  /\ mainq # <<>>
  /\ Head(mainq).kind \in {"add", "remove"}
  /\ mainq' = Tail(mainq)
  /\ ApplyEvent(Head(mainq), "main")
  /\ UNCHANGED <<connected, connects, link, toServer, wire, lastReq, inLoop,
                 registry, running, generation, bound, serverVars>>

\* The main thread owns the context: in g_main_loop_run(), or below a source
\* that a drain is dispatching.  Between two iterations a drain releases it.
Owned ==
  inLoop \/ \E i \in DOMAIN stack : i > 1 /\ stack[i].op = "drain"

\* g_main_context_invoke_full() queues an idle source, but calls at once
\* when the caller's own default context is this one and nobody owns it.
Invoke(e) ==
  \/ /\ ~DefaultContext \/ Owned \/ TopIs("drain")
     /\ mainq' = Append(mainq, e)
     /\ UNCHANGED <<globals, emitter, stack>>
  \/ /\ DefaultContext /\ ~Owned
     /\ ApplyEvent(e, "loop")
     /\ UNCHANGED mainq

\* pwg_registry_on_global(), pwg_registry_on_global_remove() and
\* pwg_registry_queue_event(); a destroyed proxy gets nothing.
OnGlobal(m) ==
  IF m.to \in bound
    THEN Invoke([kind |-> m.kind, gen |-> generation, from |-> m.to, g |-> m.g])
    ELSE UNCHANGED <<mainq, globals, emitter, stack>>

RegistryLoopStep ==
  /\ connected /\ wire # <<>>
  /\ Head(wire).kind \in {"add", "remove"}
  /\ wire' = Tail(wire)
  /\ OnGlobal(Head(wire))
  /\ UNCHANGED <<connected, connects, link, toServer, lastReq, inLoop,
                 registry, running, generation, bound, serverVars>>

-----------------------------------------------------------------------------
(* The server.                                                             *)

\* The order in which a set is announced is the server's.
Orders(S) ==
  {s \in [1..Cardinality(S) -> S] : \A x \in S : \E i \in DOMAIN s : s[i] = x}

Announce(kind, g, p) == [kind |-> kind, to |-> p, g |-> g]

\* A new proxy is told of everything that exists.
ServerBind ==
  /\ link /\ toServer # <<>>
  /\ Head(toServer).kind = "bind"
  /\ toServer' = Tail(toServer)
  /\ LET p == Head(toServer).n
     IN  IF p \in bound
           THEN /\ subs' = subs \cup {p}
                /\ \E s \in Orders(server) :
                     wire' = wire \o [i \in DOMAIN s |-> Announce("add", s[i], p)]
           ELSE UNCHANGED <<subs, wire>>
  /\ UNCHANGED <<connected, connects, link, lastReq, mainq, stack, inLoop,
                 regVars, server, serial, emitter>>

\* A change is announced to every proxy the server knows.
Broadcast(kind, g) ==
  IF link
    THEN \E s \in Orders(subs) :
           wire' = wire \o [i \in DOMAIN s |-> Announce(kind, g, s[i])]
    ELSE UNCHANGED wire

ServerAdd(id) ==
  /\ serial < MaxSerial
  /\ \A g \in server : g.id # id
  /\ serial' = serial + 1
  /\ LET g == [id |-> id, serial |-> serial + 1]
     IN  server' = server \cup {g} /\ Broadcast("add", g)
  /\ UNCHANGED <<connected, connects, link, toServer, lastReq, mainq, stack, inLoop,
                 regVars, subs, emitter>>

ServerRemove(g) ==
  /\ server' = server \ {g}
  /\ Broadcast("remove", g)
  /\ UNCHANGED <<connected, connects, link, toServer, lastReq, mainq, stack, inLoop,
                 regVars, serial, subs, emitter>>

-----------------------------------------------------------------------------
\* A step of Core leaves the registry alone.
Keep(step) == step /\ UNCHANGED <<regVars, serverVars, emitter>>

RMainStep ==
  \/ Keep(SyncResume(Mark))
  \/ Keep(SyncWake)
  \/ Keep(SyncTimeout)
  \/ Keep(DrainEnd)
  \/ Keep(HandlerReturn)
  \/ ~Owed /\ Keep(NotifyReturn)
  \/ Restart
  \/ StartResume
  \/ RsyncResume
  \/ ClearRest
  \/ Reset

\* Dispatch of a source of the main context.
Dispatch == Keep(DispatchToken) \/ DispatchEvent

RServerStep == Keep(ServerStep) \/ ServerBind

RLoopStep == Keep(LoopStep) \/ RegistryLoopStep

RNext ==
  \/ MayConnect /\ Keep(Connect)
  \/ DisconnectCore
  \/ Start
  \/ \E timed \in BOOLEAN : Sync(timed)
  \/ Stop
  \/ RMainStep
  \/ Dispatch
  \/ RServerStep
  \/ RLoopStep
  \/ Keep(LinkBreaks)
  \/ Keep(AppSource)
  \/ Keep(ToggleLoop)
  \/ \E id \in Ids : ServerAdd(id)
  \/ \E g \in server : ServerRemove(g)

RSpec == RInit /\ [][RNext]_vars

\* As in Core, and: the server and the loop thread serve the registry too,
\* and an iteration of the main context dispatches queued events.
RFairness ==
  /\ WF_vars(RMainStep)
  /\ SF_vars(Dispatch)
  /\ WF_vars(RServerStep)
  /\ WF_vars(RLoopStep)

RFairSpec == RSpec /\ RFairness

-----------------------------------------------------------------------------
(* Properties.                                                             *)

\* Types.
RTypeOK ==
  /\ CoreTypeOK(RegistryRequests, RegistryMessages, RegistrySources,
                RegistryFrames, Marks \cup {NoMark})
  /\ registry \in Nat
  /\ running \in BOOLEAN
  /\ generation \in Nat
  /\ globals \subseteq Entry
  /\ bound \subseteq Nat
  /\ server \subseteq Global
  /\ IsFiniteSet(server)
  /\ serial \in Nat
  /\ subs \subseteq Nat
  /\ IsFiniteSet(subs)
  /\ emitter \in {"none", "main", "loop"}

\* The list only ever shows the running session: no announcement that an
\* earlier session left in the main context is applied to this one, and a
\* registry that is not running shows nothing once stop() or the reset on
\* disconnect has finished.
SessionIsolation ==
  /\ running => \A x \in globals : x.from = registry
  /\ ~running => globals = {} \/ \E i \in DOMAIN stack : stack[i].op = "clear"

\* No session's proxy outlives it: what the connection still holds for this
\* registry is the proxy it will destroy, and that one still exists.
ProxyIsOwned ==
  /\ bound \subseteq {registry}
  /\ connected /\ registry # NULL => registry \in bound

\* "dispatches registry updates queued before the matching roundtrip
\* completion" (pwg-registry.h:63-67): when sync() returns TRUE within one
\* session, the list has every global of the time of the call that still
\* exists, and none that had gone by then.
SyncedView ==
  \A i \in DOMAIN stack : stack[i].mdone =>
    LET s == stack[i].mark
    IN  running /\ s.session = registry =>
          /\ \A g \in s.have \cap server :
               \E x \in globals : x.serial = g.serial
          /\ \A x \in globals :
               x.serial <= s.upto => \E g \in s.have : g.serial = x.serial

\* "Emitted from the object's construction thread-default main context"
\* (pwg-registry.c:416,439): only the thread iterating it runs handlers.
EmittedOnMain == emitter # "loop"

\* A registry left running under a running main loop ends up showing what
\* the server has.
Converges ==
  <>[](running /\ inLoop /\ link) =>
    <>[]({x.serial : x \in globals} = {g.serial : g \in server})

-----------------------------------------------------------------------------
(* Why SessionIsolation holds when handlers do not begin a session under a *)
(* start or stop of this registry: together these are inductive.           *)

HasOp(st, op) == \E i \in DOMAIN st : st[i].op = op
Single(st, op) ==
  \A i, j \in DOMAIN st : st[i].op = op /\ st[j].op = op => i = j

\* No queued event is of a later generation, and one of this generation is
\* from this proxy.
EventsOfSession ==
  \A i \in DOMAIN mainq : mainq[i].kind # "token" =>
    /\ mainq[i].gen <= generation
    /\ running /\ mainq[i].gen = generation => mainq[i].from = registry

\* Only the running session's proxy can still announce anything.
ProxyOfSession ==
  /\ bound \subseteq {registry}
  /\ ~running \/ ~connected => bound = {}

\* A suspended start is the only one and will bind over an empty list.
StartIsFresh ==
  /\ Single(stack, "start")
  /\ HasOp(stack, "start") => ~running /\ globals = {}

\* A list still to be cleared is of no session, and none is about to begin.
ClearIsIdle == HasOp(stack, "clear") => ~running /\ ~HasOp(stack, "start")

SessionInv ==
  /\ SessionIsolation /\ EventsOfSession /\ ProxyOfSession
  /\ StartIsFresh /\ ClearIsIdle

\* And behind ProxyIsOwned: a connection that has gone leaves the session
\* only while notify::connected is being emitted, which ends with no such
\* session.
ResetInEmission == Owed => Emitting

-----------------------------------------------------------------------------
(* Discovery, the abstract registry, as seen through this one.             *)

Established == running /\ registry \in subs

\* What a queue tells of the server: entry n of the function is the sequence
\* of announcements at those of its first n positions that are in ours.
Told(queue, ours) ==
  LET upto[n \in 0..Len(queue)] ==
        IF n = 0 THEN <<>>
        ELSE IF n \in ours
          THEN Append(upto[n - 1], [kind |-> queue[n].kind, g |-> queue[n].g])
          ELSE upto[n - 1]
  IN  upto

Announces(x) == x.kind \in {"add", "remove"}

\* Where this session's announcements are on their way: events queued in the
\* main context, and messages that the loop thread has not read.
Current == {i \in DOMAIN mainq : Announces(mainq[i]) /\ mainq[i].gen = generation}
Mine == {i \in DOMAIN wire : Announces(wire[i]) /\ wire[i].to = registry}

\* The events come first: they left the wire earlier.
InTransit ==
  Told(mainq, Current)[Len(mainq)] \o Told(wire, Mine)[Len(wire)]

View == {[id |-> x.id, serial |-> x.serial] : x \in globals}

Abstract == INSTANCE Discovery WITH
  Serials <- 1..MaxSerial,
  open <- Established,
  live <- Established /\ link,
  view <- View,
  pending <- IF Established THEN InTransit ELSE <<>>

\* Every step of the registry is a step of Discovery or none: announcements
\* reach the list in order, once, and within their session.
ImplementsDiscovery == Abstract!Spec
=============================================================================
