------------------------------- MODULE Proxy --------------------------------
(***************************************************************************)
(* What PwgNode, PwgDevice and PwgLink have in common (pwg-node.c, and the *)
(* parts of pwg-device.c and pwg-link.c that repeat it): a session opens a *)
(* registry to hear of the removal of its object and binds that object;    *)
(* the object's state and parameters are copied from the main context.     *)
(*                                                                         *)
(* A call, or the dispatch of an event, that emits signals is a list of    *)
(* steps.  The handlers of a step run before the next one: what is left of *)
(* the list is the "rest" frame below them, with the event it came from.   *)
(* Steps without a handler between them are one action: they change what   *)
(* only the main thread looks at.                                          *)
(***************************************************************************)
EXTENDS Wrapper

CONSTANTS
  NItems,    \* how many parameters there are
  Nums,      \* bound: how many of them are asked for
  MaxRev,    \* bound: revisions of the object on the server
  Masks,     \* what a revision may change
  Globals    \* ids of the globals that exist at first

ASSUME ProxyAssumption ==
  /\ NItems \in Nat /\ MaxRev \in Nat
  /\ Nums \subseteq 1..NItems
  /\ Masks \subseteq SUBSET {"state", "params"}
  /\ Globals \subseteq {1, 2}

VARIABLES
  view,        \* what the getters show, each value with the proxy that told it
  registry,    \* self->registry: the request that created it, 0 is NULL
  object,      \* self->node, self->device or self->link
  generation,  \* self->generation
  alive,       \* proxies of this wrapper alive on the connection
  late,        \* history: proxies of infos that a stop interrupted
  exists,      \* ids of the globals that exist on the server
  server,      \* the object on the server
  rev,         \* revision of its last change
  subs         \* proxies that the server serves

sessionVars == <<registry, object, generation, alive>>
wrapperVars == <<view, sessionVars, late>>
serverVars == <<exists, server, rev, subs>>
vars == <<coreVars, wrapperVars, serverVars>>

NULL == 0
Nothing == [value |-> NULL, via |-> NULL]
Own == 1       \* self->node_id, the id of self->global
Other == 2     \* the id of another global
Unasked == 0   \* the seq of a parameter that no enumeration asked for
Untold == [state |-> NULL, error |-> NULL, infos |-> NULL]
NoEvent == [kind |-> "none", gen |-> 0, of |-> NULL, server |-> Untold,
            seq |-> Unasked, index |-> 0]

\* The fields that the properties of the GObject read.
NoView == [running |-> FALSE, bound |-> FALSE, state |-> Nothing, error |-> Nothing,
           infos |-> Nothing, params |-> <<>>]
running == view.running
bound == view.bound

\* History of an enum_params_sync(): what it asked for, of which proxy.
Mark(seq, num) == [seq |-> seq, num |-> num, session |-> object]

\* The reset on disconnect has something to undo and has not run.
Owed == ~connected /\ (registry # NULL \/ object # NULL)

PInit ==
  /\ Init
  /\ view = NoView
  /\ registry = NULL /\ object = NULL /\ generation = 0
  /\ alive = {} /\ late = {}
  /\ exists = Globals
  /\ server = [state |-> 1, error |-> NULL, infos |-> 1]
  /\ rev = 1 /\ subs = {}

-----------------------------------------------------------------------------
(* Lists of steps.                                                         *)

Todo(steps, e) == Frame("rest", 0, TRUE, TRUE, [steps |-> steps, e |-> e])
Resting == \E i \in DOMAIN stack : stack[i].op = "rest"
On(step) == TopIs("rest") /\ Head(stack).mark.steps[1] = step
NextSteps == Tail(Head(stack).mark.steps)
Origin == Head(stack).mark.e

\* The stack once these steps are left to do for event e.
Left(steps, e, below) ==
  IF steps = <<>> THEN below ELSE <<Todo(steps, e)>> \o below

\* A value is replaced when it differs.
Updated(field, value, of) ==
  IF field.value = value THEN field
  ELSE IF value = NULL THEN Nothing ELSE [value |-> value, via |-> of]

\* update_state(), update_param_infos(), and what stop() and reset() clear.
Apply(step, v, e) ==
  CASE step = "unbind"  -> [v EXCEPT !.bound = FALSE]
    [] step = "halt"    -> [v EXCEPT !.running = FALSE]
    [] step = "nostate" -> [v EXCEPT !.state = Nothing]
    [] step = "noerror" -> [v EXCEPT !.error = Nothing]
    [] step = "lists"   -> [v EXCEPT !.infos = Nothing, !.params = <<>>]
    [] step = "state"   -> [v EXCEPT !.state = Updated(@, e.server.state, e.of)]
    [] step = "error"   -> [v EXCEPT !.error = Updated(@, e.server.error, e.of)]
    [] step = "infos"   -> [v EXCEPT !.infos = [value |-> e.server.infos, via |-> e.of]]
    [] step = "append"  -> [v EXCEPT !.params =
                              Append(@, [seq |-> e.seq, index |-> e.index, via |-> e.of])]

\* The lists are emptied without a notify; handlers of the items-changed of
\* a list are not modelled.
Notifies(step, v, e) ==
  \/ step \in {"infos", "append"}
  \/ step # "lists" /\ Apply(step, v, e) # v

\* The steps, up to one whose notify finds a handler connected.
Perform(steps, e, below) ==
  LET after[i \in 0..Len(steps)] ==
        IF i = 0 THEN view ELSE Apply(steps[i], after[i - 1], e)
      handled == {i \in DOMAIN steps :
                    Len(below) < MaxDepth - 1 /\ Notifies(steps[i], after[i - 1], e)}
  IN  \/ /\ view' = after[Len(steps)]
         /\ stack' = below
      \/ \E i \in handled :
           /\ view' = after[i]
           /\ stack' = <<App>> \o Left(SubSeq(steps, i + 1, Len(steps)), e, below)

-----------------------------------------------------------------------------
(* Starting, enumerating and synchronising.                                *)

Request(kind, n, num) == [kind |-> kind, n |-> n, p |-> object, num |-> num]

\* Under the loop lock: the registry, then the object, each with a listener.
\* One handler stands for those of notify::running and notify::bound.
Open(todo, below) ==
  /\ Sends(<<Request("registry", lastReq + 1, 0), Request("object", lastReq + 2, 0)>>)
  /\ registry' = lastReq + 1
  /\ object' = lastReq + 2
  /\ alive' = alive \cup {lastReq + 1, lastReq + 2}
  /\ generation' = generation + 1
  /\ view' = [view EXCEPT !.running = TRUE, !.bound = TRUE]
  /\ Emit(Left(todo, NoEvent, below))
  /\ UNCHANGED <<connected, connects, link, wire, late>>

\* The core is not connected, or has given no registry or no proxy: what
\* was created is destroyed, and the call that needed the start fails too.
OpenFails(below) ==
  /\ registry' = IF connected THEN NULL ELSE registry
  /\ object' = IF connected THEN NULL ELSE object
  /\ stack' = below
  /\ UNCHANGED <<connected, connects, link, toServer, wire, lastReq, view,
                 generation, alive, late>>

StartThen(todo) ==
  \/ connected /\ (Open(todo, stack) \/ OpenFails(stack))
  \/ /\ ~connected
     /\ ConnectFor(Todo(<<"open">> \o todo, NoEvent), Owed, stack)
     /\ UNCHANGED wrapperVars

Start ==
  /\ Calls("start", FALSE, {"rest"})
  /\ ~running
  /\ StartThen(<<>>)
  /\ UNCHANGED <<mainq, inLoop, serverVars>>

Opening ==
  /\ On("open")
  /\ \/ connected /\ Open(NextSteps, Tail(stack))
     \/ OpenFails(Tail(stack))
  /\ UNCHANGED <<mainq, inLoop, serverVars>>

Sync ==
  /\ Calls("sync", running, {"rest"})
  /\ \/ running /\ Roundtrip(NoMark, Owed, stack) /\ UNCHANGED wrapperVars
     \/ ~running /\ StartThen(<<"roundtrip">>)
  /\ UNCHANGED <<mainq, inLoop, serverVars>>

Synchronising ==
  /\ On("roundtrip")
  /\ Roundtrip(NoMark, Owed, Tail(stack))
  /\ UNCHANGED <<mainq, inLoop, wrapperVars, serverVars>>

Reachable == object # NULL /\ bound /\ connected

\* enum_params(): the list is emptied before the request is sent, which can
\* fail; the number of the request is the seq that its answers carry.
Enumerate(num) ==
  /\ MayCall("enum", 0)
  /\ Reachable
  /\ view' = [view EXCEPT !.params = <<>>]
  /\ Sends(<<Request("enum", lastReq + 1, num)>>) \/ UNCHANGED <<lastReq, toServer>>
  /\ UNCHANGED <<connected, connects, link, wire, mainq, stack, inLoop,
                 sessionVars, late, serverVars>>

\* Fault: the -1 of a failed enum_params() is taken for a seq.
EnumRoundtripUnchecked(num, below) ==
  /\ Reachable
  /\ view' = [view EXCEPT !.params = <<>>]
  /\ SendSync(TRUE, TRUE, Mark(-1, num), below)
  /\ UNCHANGED <<connected, connects, link, wire, sessionVars, late>>

\* enum_params() and then sync(), over the connection as it is now.
EnumRoundtrip(num, below) ==
  /\ \/ /\ Reachable
        /\ view' = [view EXCEPT !.params = <<>>]
        /\ Sends(<<Request("enum", lastReq + 1, num),
                   [kind |-> "sync", n |-> lastReq + 2]>>)
        /\ stack' = <<Frame("wait", lastReq + 2, TRUE, TRUE, Mark(lastReq + 1, num))>>
                      \o below
     \/ /\ view' = IF Reachable THEN [view EXCEPT !.params = <<>>] ELSE view
        /\ SendFails(below)
  /\ UNCHANGED <<connected, connects, link, wire, sessionVars, late>>

EnumSync(num) ==
  /\ Calls("enum_sync", running, {"rest"})
  /\ \/ running /\ EnumRoundtrip(num, stack)
     \/ ~running /\ StartThen(<<"enum">>)
  /\ UNCHANGED <<mainq, inLoop, serverVars>>

\* The call resumes after its start; that it asks for everything is enough.
Enumerating ==
  /\ On("enum")
  /\ EnumRoundtrip(NItems, Tail(stack))
  /\ UNCHANGED <<mainq, inLoop, serverVars>>

\* Fault: whatever has been collected is the result.
ParamsOfAnySeq(seq) == view.params

\* dup_params_for_seq(), the result of enum_params_sync().
ParamsForSeq(seq) == SelectSeq(view.params, LAMBDA x : x.seq = seq)

\* subscribe_params(), set_param(): a request that the object answers with
\* parameters, those subscribed to or the one that was set.
Ask ==
  /\ MayCall("ask", 0)
  /\ Reachable
  /\ Sends(<<Request("ask", lastReq + 1, 1)>>)
  /\ UNCHANGED <<connected, connects, link, wire, mainq, stack, inLoop,
                 wrapperVars, serverVars>>

-----------------------------------------------------------------------------
(* Stopping, and the reset on a disconnected core.                         *)

\* The new generation comes first, without the loop lock.
EndSession(epilogue, e) ==
  /\ generation' = generation + 1
  /\ stack' = <<Todo(<<"destroy">> \o epilogue, e)>> \o stack
  /\ UNCHANGED <<view, registry, object, alive, late>>

Stop(epilogue) ==
  /\ MayCall("stop", 1)
  /\ running \/ registry # NULL \/ object # NULL
  /\ EndSession(epilogue, NoEvent)
  /\ UNCHANGED <<connected, connects, link, toServer, wire, lastReq, mainq, inLoop,
                 serverVars>>

\* Fault: the registry is forgotten, not destroyed.
DestroyObjectOnly ==
  /\ On("destroy")
  /\ IF connected
       THEN alive' = alive \ {object} /\ subs' = subs \ {object}
       ELSE UNCHANGED <<alive, subs>>
  /\ registry' = NULL
  /\ object' = NULL
  /\ Perform(NextSteps, Origin, Tail(stack))
  /\ UNCHANGED <<connected, connects, link, toServer, wire, lastReq, mainq, inLoop,
                 generation, late, exists, server, rev>>

\* destroy_pipewire_objects(), under the loop lock, and the rest of stop().
Destroy ==
  /\ On("destroy")
  /\ IF connected
       THEN alive' = alive \ {registry, object} /\ subs' = subs \ {registry, object}
       ELSE UNCHANGED <<alive, subs>>
  /\ registry' = NULL
  /\ object' = NULL
  /\ Perform(NextSteps, Origin, Tail(stack))
  /\ UNCHANGED <<connected, connects, link, toServer, wire, lastReq, mainq, inLoop,
                 generation, late, exists, server, rev>>

\* pwg_core_disconnect() destroys every proxy; the handler that the wrapper
\* connected when it was constructed runs before those of the application.
DisconnectCore(epilogue) ==
  /\ DisconnectFor(Todo(<<"reset">> \o epilogue, NoEvent))
  /\ alive' = {}
  /\ subs' = {}
  /\ UNCHANGED <<view, registry, object, generation, late, exists, server, rev>>

Restart(epilogue) ==
  /\ RestartFor(Todo(<<"reset">> \o epilogue, NoEvent), Owed)
  /\ UNCHANGED <<wrapperVars, serverVars>>

Reset ==
  /\ On("reset")
  /\ registry' = NULL
  /\ object' = NULL
  /\ generation' = generation + 1
  /\ Perform(NextSteps, Origin, Tail(stack))
  /\ UNCHANGED <<connected, connects, link, toServer, wire, lastReq, mainq, inLoop,
                 alive, late, serverVars>>

\* The steps that a handler has interrupted go on, whatever it did: neither
\* the generation nor running is looked at again.
Resume ==
  /\ TopIs("rest")
  /\ ~\E step \in {"open", "roundtrip", "enum", "destroy", "reset"} : On(step)
  /\ Perform(Head(stack).mark.steps, Origin, Tail(stack))
  /\ late' = IF Origin.kind = "info" /\ Origin.of # object THEN late \cup {Origin.of}
                                                          ELSE late
  /\ UNCHANGED <<connected, connects, link, toServer, wire, lastReq, mainq, inLoop,
                 sessionVars, serverVars>>

-----------------------------------------------------------------------------
(* From the loop thread to the main context.                               *)

\* Fault: the generation is not compared.
CurrentWhileRunning(e) == running

Current(e) == running /\ e.gen = generation

\* The loop thread queues the message, if the wrapper wants it.
OnMessage(wanted) ==
  /\ Reads({"info", "param", "gone"})
  /\ LET m == Head(wire)
     IN  mainq' = IF m.to \in alive /\ wanted
                    THEN Append(mainq, [kind |-> m.kind, gen |-> generation, m |-> m])
                    ELSE mainq
  /\ UNCHANGED <<connected, connects, link, toServer, lastReq, stack, inLoop,
                 wrapperVars, serverVars>>

\* dispatch_event(): an info is the steps of its parts, a parameter is
\* appended and emitted, the removal of the object stops the wrapper.
Dispatch(parts, epilogue) ==
  /\ Takes({"info", "param", "gone"})
  /\ LET q == Head(mainq)
         m == q.m
         e == [kind |-> q.kind, gen |-> q.gen, of |-> m.to, server |-> m.server,
               seq |-> m.seq, index |-> m.index]
     IN  \/ /\ ~Current(q)
            /\ UNCHANGED <<stack, wrapperVars>>
         \/ /\ Current(q) /\ q.kind # "gone"
            /\ Perform(IF q.kind = "info" THEN parts ELSE <<"append">>, e, stack)
            /\ UNCHANGED <<sessionVars, late>>
         \/ /\ Current(q) /\ q.kind = "gone"
            /\ EndSession(epilogue, e)
  /\ UNCHANGED <<connected, connects, link, toServer, wire, lastReq, inLoop, serverVars>>

-----------------------------------------------------------------------------
(* The server.                                                             *)

Tell(kind, p) ==
  [kind |-> kind, to |-> p, id |-> Own, mask |-> {}, server |-> Untold,
   seq |-> Unasked, index |-> 0]

Announces(messages) == wire' = wire \o messages

Info(p, mask, of) == [Tell("info", p) EXCEPT !.mask = mask, !.server = of]

\* A bind of an object that has gone is not served.
ServeBind ==
  /\ Serves({"registry", "object"})
  /\ LET p == Head(toServer).n
         isObject == Head(toServer).kind = "object"
     IN  IF p \in alive /\ (isObject => Own \in exists)
           THEN /\ subs' = subs \cup {p}
                /\ Announces(IF isObject
                               THEN <<Info(p, {"state", "params"}, server)>>
                               ELSE <<>>)
           ELSE UNCHANGED <<subs, wire>>
  /\ UNCHANGED <<connected, connects, link, lastReq, mainq, stack, inLoop,
                 wrapperVars, exists, server, rev>>

\* The first num parameters: those of an enumeration carry the seq of the
\* request, the others one of no request.
ServeParams ==
  /\ Serves({"enum", "ask"})
  /\ LET r == Head(toServer)
         seq == IF r.kind = "enum" THEN r.n ELSE Unasked
     IN  IF r.p \in subs /\ Own \in exists
           THEN Announces([i \in 1..r.num |->
                             [Tell("param", r.p) EXCEPT !.seq = seq, !.index = i]])
           ELSE UNCHANGED wire
  /\ UNCHANGED <<connected, connects, link, lastReq, mainq, stack, inLoop,
                 wrapperVars, serverVars>>

\* The object changes what the mask says, or nothing the wrapper is told
\* of; every other revision of its state is a failure, with a message.
ServerChanges(mask) ==
  /\ Own \in exists /\ object \in subs
  /\ rev < MaxRev
  /\ rev' = rev + 1
  /\ server' =
       [state |-> IF "state" \in mask THEN rev + 1 ELSE server.state,
        error |-> IF "state" \notin mask THEN server.error
                  ELSE IF rev % 2 = 1 THEN rev + 1 ELSE NULL,
        infos |-> IF "params" \in mask THEN rev + 1 ELSE server.infos]
  /\ Announces(<<Info(object, mask, server')>>)
  /\ UNCHANGED <<connected, connects, link, toServer, lastReq, mainq, stack, inLoop,
                 wrapperVars, exists, subs>>

ServerRemove(id) ==
  /\ id \in exists
  /\ exists' = exists \ {id}
  /\ IF registry \in subs
       THEN Announces(<<[Tell("gone", registry) EXCEPT !.id = id]>>)
       ELSE UNCHANGED wire
  /\ UNCHANGED <<connected, connects, link, toServer, lastReq, mainq, stack, inLoop,
                 wrapperVars, server, rev, subs>>

-----------------------------------------------------------------------------
\* A step of Core leaves the wrapper alone.
Keep(step) == step /\ UNCHANGED <<wrapperVars, serverVars>>

PMainStep ==
  \/ Keep(SyncResume(Head(stack).mark))
  \/ Keep(SyncWake) \/ Keep(SyncTimeout) \/ Keep(DrainEnd) \/ Keep(HandlerReturn)
  \/ ~Owed /\ Keep(NotifyReturn)

ConnectCore == MayConnect(Owed) /\ Keep(Connect)

PServerStep == Keep(ServeSync) \/ ServeBind \/ ServeParams

World ==
  Keep(EnterLoop) \/ \E id \in {Own, Other} : ServerRemove(id)
=============================================================================
