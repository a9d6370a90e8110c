------------------------------ MODULE Objects -------------------------------
(***************************************************************************)
(* One wrapper of any of the three classes on a core's connection: what    *)
(* PwgNode, PwgDevice and PwgLink all promise.                             *)
(***************************************************************************)
EXTENDS Node, Device, Link

CONSTANTS
  Classes,   \* the classes that are checked
  Changing   \* bound: those whose object changes once it is bound

ASSUME ClassesAssumption ==
  Changing \subseteq Classes /\ Classes \subseteq {"node", "device", "link"}

VARIABLE class     \* the class of the wrapper, chosen once

objectVars == <<class, vars>>

OInit == PInit /\ class \in Classes

Is(c, step) == class = c /\ step /\ UNCHANGED class

\* The calls are made from the main loop: all that may happen without one
\* may happen in one that has not come to dispatch anything yet.
ClassCall ==
  /\ inLoop
  /\ Is("node", NodeCall) \/ Is("device", DeviceCall) \/ Is("link", LinkCall)

OMainStep ==
  \/ PMainStep /\ UNCHANGED class
  \/ Is("node", NodeContinue) \/ Is("device", DeviceContinue) \/ Is("link", LinkContinue)

ODispatch ==
  \/ Keep(DispatchToken) /\ UNCHANGED class
  \/ Is("node", NodeDispatch) \/ Is("device", DeviceDispatch) \/ Is("link", LinkDispatch)

OLoopStep ==
  \/ Keep(LoopStep) /\ UNCHANGED class
  \/ Is("node", NodeOnMessage) \/ Is("device", DeviceOnMessage)
  \/ Is("link", LinkOnMessage)

OServerStep == PServerStep /\ UNCHANGED class

OWorld ==
  /\ World \/ (class \in Changing /\ \E mask \in Masks : ServerChanges(mask))
  /\ UNCHANGED class

ONext ==
  \/ ClassCall \/ OMainStep \/ ODispatch
  \/ OLoopStep \/ OServerStep \/ OWorld

OSpec == OInit /\ [][ONext]_objectVars

\* The threads and the server do not all stop while one of them can go on.
\* That is enough: each of these steps uses up a message, an event or a frame
\* that some call of the application has brought about.
OFairness == WF_objectVars(OMainStep \/ ODispatch \/ OServerStep \/ OLoopStep)

OFairSpec == OSpec /\ OFairness

-----------------------------------------------------------------------------
(* Properties.                                                             *)

Value == [state : Nat, error : Nat, infos : Nat]
Event == [kind : {"none", "info", "param", "gone"}, gen : Nat, of : Nat, server : Value,
          seq : Nat, index : Nat]
Message ==
  [kind : {"info", "param", "gone"}, to : Nat, id : {Own, Other},
   mask : SUBSET {"state", "params"}, server : Value, seq : Nat, index : Nat]
Steps == {"open", "roundtrip", "enum", "destroy", "reset", "unbind", "halt", "nostate",
          "noerror", "lists", "state", "error", "infos"}
Marks ==
  {NoMark} \cup [seq : Nat, num : Nat, session : Nat] \cup
  [steps : Seq(Steps) \ {<<>>}, e : Event]
Requests ==
  CoreRequests \cup [kind : {"registry", "object", "enum", "ask"},
                     n : Nat, p : Nat, num : Nat]
Sources ==
  CoreSources \cup [kind : {"info", "param", "gone"}, gen : Nat, m : Message]
Field == [value : Nat, via : Nat]

\* Types; what is shown was told by a proxy, and a list is not left to do
\* with no step in it.
OTypeOK ==
  /\ CoreTypeOK(Requests, CoreMessages \cup Message, Sources, CoreFrames \cup {"rest"}, Marks)
  /\ class \in Classes
  /\ view \in [running : BOOLEAN, bound : BOOLEAN, state : Field, error : Field,
              infos : Field, params : Seq([seq : Nat, index : Nat, via : Nat])]
  /\ registry \in Nat /\ object \in Nat /\ generation \in Nat
  /\ alive \subseteq Nat /\ late \subseteq Nat
  /\ exists \subseteq {Own, Other} /\ server \in Value /\ rev \in Nat
  /\ subs \subseteq Nat

\* Between calls everything shown was told by the object bound in this
\* session, or was left by an info that the end of its session interrupted;
\* after a stop, a reset or a restart nothing else is left.
SessionIsolation ==
  ~Resting =>
    /\ bound = running /\ (object # NULL) = running
    /\ \A f \in {view.state, view.error, view.infos} : f # Nothing => f.via \in {object} \cup late
    /\ \A i \in DOMAIN view.params : view.params[i].via = object

\* No proxy is forgotten, and none is used that has been destroyed.
ProxiesOwned ==
  /\ alive \subseteq {registry, object}
  /\ connected => {registry, object} \ {NULL} \subseteq alive

Result(seq) == IF class = "device" THEN DeviceParamsForSeq(seq) ELSE ParamsForSeq(seq)

\* enum_params_sync() that returns within its session has every parameter it
\* asked for, in order, and none of another enumeration or subscription,
\* although earlier answers are still being collected in the same list.
EnumComplete ==
  \A i \in DOMAIN stack :
    LET f == stack[i]
    IN  f.mdone /\ f.mark # NoMark /\ object = f.mark.session /\ object \in subs =>
          [k \in DOMAIN Result(f.mark.seq) |-> Result(f.mark.seq)[k].index]
            = [k \in 1..f.mark.num |-> k]

\* What the class shows of its object.
Tracked ==
  [state |-> IF class = "device" THEN NULL ELSE server.state,
   error |-> IF class = "device" THEN NULL ELSE server.error,
   infos |-> IF class = "link" THEN NULL ELSE server.infos]

\* A wrapper that stays bound under a running main loop ends up showing its
\* object as it is, and that object exists: a removal ends the session.
ShownConverges ==
  <>[](bound /\ inLoop /\ link) =>
    <>[](object \in subs =>
           Own \in exists /\ Tracked = [state |-> view.state.value, error |-> view.error.value,
                                        infos |-> view.infos.value])
=============================================================================
