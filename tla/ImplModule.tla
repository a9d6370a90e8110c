----------------------------- MODULE ImplModule -----------------------------
(***************************************************************************)
(* Implementation modules loaded into a core's context, and the context's  *)
(* life: pwg-impl-module.c and the part of pwg-core.c that Core leaves out *)
(* (its pointers thread_loop and context).  Messages are left out here.    *)
(*                                                                         *)
(* A context is the number of the connect() that made it, 0 is NULL.  It   *)
(* frees the modules left in it when it is destroyed, and every free runs  *)
(* handlers of notify::loaded in the middle of pwg_core_disconnect().      *)
(***************************************************************************)
EXTENDS Naturals, Sequences

CONSTANTS
  MaxConnect,    \* bound: connections made
  MaxLoad,       \* bound: modules loaded
  MaxDepth,      \* bound: nested calls
  HandlerCalls,  \* what handlers call
  Reentrant,     \* whether they call it inside pw_context_destroy() too
  Races          \* whether a module unloads itself between two locks of a call

ASSUME ModuleAssumption ==
  /\ MaxConnect \in Nat /\ MaxLoad \in Nat /\ MaxDepth \in Nat
  /\ Reentrant \in BOOLEAN /\ Races \in BOOLEAN

VARIABLES
  connected, loop, context,  \* PwgCore: connected, thread_loop, context
  made,      \* connections made so far
  modules,   \* per module loaded so far: the context it is in, 0 when freed
  contexts,  \* the contexts that exist
  handles,   \* the PwgImplModule objects: module (0 is NULL), loaded, listening
  stack,     \* the frames of the application's thread
  misused    \* history: freed memory was used

vars == <<connected, loop, context, made, modules, contexts, handles, stack, misused>>
core == <<connected, loop, context, made>>

App == [op |-> "app"]
Opens == {"connect", "load", "disconnect"}
Destroying == \E i \in DOMAIN stack : stack[i].op = "destroy"

\* The application may call op: at the top, or from a handler.
MayCall(op) ==
  /\ Len(stack) + 2 <= MaxDepth
  /\ \/ stack = <<>>
     \/ stack # <<>> /\ Head(stack) = App /\ op \in HandlerCalls
  /\ (op \in Opens /\ ~Reentrant) => ~Destroying

\* A handler of the signal just emitted runs next, if one is connected.
Emit(rest) ==
  \E h \in {<<>>} \cup (IF Len(rest) < MaxDepth THEN {<<App>>} ELSE {}) :
    stack' = h \o rest

MInit ==
  /\ connected = FALSE /\ loop = 0 /\ context = 0 /\ made = 0
  /\ modules = <<>> /\ contexts = {} /\ handles = <<>>
  /\ stack = <<>> /\ misused = FALSE

Live == {m \in DOMAIN modules : modules[m] # 0}
In(c) == {m \in Live : modules[m] = c}

-----------------------------------------------------------------------------
\* The connection

\* pwg_core_connect() overwrites whatever its pointers hold.
Open(rest) ==
  /\ made < MaxConnect
  /\ made' = made + 1
  /\ loop' = made + 1 /\ context' = made + 1
  /\ contexts' = contexts \cup {made + 1}
  /\ connected' = TRUE
  /\ Emit(rest)
  /\ UNCHANGED <<modules, handles, misused>>

\* Fault: connects again over the connection it has.
ConnectAgain == MayCall("connect") /\ Open(stack)

Connect == MayCall("connect") /\ ~connected /\ Open(stack)

\* It fails before it has a loop, or undoes what it made: an empty context.
OpenFails ==
  /\ loop' = 0 /\ context' \in {context, 0}
  /\ UNCHANGED <<connected, made, modules, contexts, handles, stack, misused>>

ConnectFails == MayCall("connect") /\ ~connected /\ OpenFails

\* pwg_core_disconnect(): down to the call of pw_context_destroy().
DisconnectTo(flag) ==
  /\ MayCall("disconnect")
  /\ connected' = flag
  /\ IF context # 0
     THEN /\ stack' = <<[op |-> "destroy", context |-> context, was |-> connected]>> \o stack
          /\ misused' = (misused \/ context \notin contexts)
          /\ UNCHANGED loop
     ELSE /\ loop' = 0
          /\ IF connected THEN Emit(stack) ELSE UNCHANGED stack
          /\ UNCHANGED misused
  /\ UNCHANGED <<context, made, modules, contexts, handles>>

\* Fault: leaves connected as it was.
DisconnectQuietly == DisconnectTo(connected)

Disconnect == DisconnectTo(FALSE)

\* Fault: on_free() clears loaded but keeps the pointer.
FreedKeepsPointer(m) ==
  [i \in DOMAIN handles |->
     IF handles[i].module = m /\ handles[i].listening
     THEN [module |-> m, loaded |-> FALSE, listening |-> FALSE] ELSE handles[i]]

\* Fault: nobody listens to the module's free event.
FreedUnheard(m) == handles

\* What the handles of a freed module become: pwg_impl_module_on_free().
Freed(m) ==
  [i \in DOMAIN handles |->
     IF handles[i].module = m /\ handles[i].listening
     THEN [module |-> 0, loaded |-> FALSE, listening |-> FALSE]
     ELSE handles[i]]

FreeModule(m) ==
  /\ modules' = [modules EXCEPT ![m] = 0]
  /\ handles' = Freed(m)

\* pw_context_destroy() frees the oldest of the modules left.
FreeNext ==
  /\ stack # <<>> /\ Head(stack).op = "destroy"
  /\ Head(stack).context \in contexts
  /\ In(Head(stack).context) # {}
  /\ \E m \in In(Head(stack).context) :
         /\ \A n \in In(Head(stack).context) : m <= n
         /\ FreeModule(m)
         /\ IF \E i \in DOMAIN handles : handles[i].module = m /\ handles[i].loaded
            THEN Emit(stack) ELSE UNCHANGED stack
  /\ UNCHANGED <<core, contexts, misused>>

\* Fault: the pointer to the destroyed context is kept.
DisconnectKeepsContext ==
  /\ stack # <<>> /\ Head(stack).op = "destroy"
  /\ In(Head(stack).context) = {}
  /\ contexts' = contexts \ {Head(stack).context}
  /\ loop' = 0
  /\ IF Head(stack).was THEN Emit(Tail(stack)) ELSE stack' = Tail(stack)
  /\ UNCHANGED <<connected, context, made, modules, handles, misused>>

\* The rest of pwg_core_disconnect(), with the pointers as they are now.
DisconnectEnd ==
  /\ stack # <<>> /\ Head(stack).op = "destroy"
  /\ In(Head(stack).context) = {}
  /\ misused' = (misused \/ Head(stack).context \notin contexts)
  /\ contexts' = contexts \ {Head(stack).context}
  /\ context' = 0 /\ loop' = 0
  /\ IF Head(stack).was THEN Emit(Tail(stack)) ELSE stack' = Tail(stack)
  /\ UNCHANGED <<connected, made, modules, handles>>

-----------------------------------------------------------------------------
\* Modules

\* pwg_core_load_module() connects first, if need be.
Load ==
  /\ MayCall("load") /\ Len(modules) < MaxLoad
  /\ IF connected
     THEN /\ stack' = <<[op |-> "load"]>> \o stack
          /\ UNCHANGED <<core, modules, contexts, handles, misused>>
     ELSE Open(<<[op |-> "load"]>> \o stack)

LoadFails == MayCall("load") /\ ~connected /\ OpenFails

\* Under the lock.  The handle comes after it (see NewHandle).
LoadModule ==
  /\ stack # <<>> /\ Head(stack).op = "load"
  /\ IF loop = 0 \/ context = 0 \/ Len(modules) = MaxLoad
     THEN /\ stack' = Tail(stack)
          /\ UNCHANGED modules
     ELSE \/ /\ modules' = Append(modules, context)
             /\ stack' = <<[op |-> "handle", module |-> Len(modules) + 1]>> \o Tail(stack)
          \/ /\ stack' = Tail(stack)
             /\ UNCHANGED modules
  /\ UNCHANGED <<core, contexts, handles, misused>>

\* _pwg_impl_module_new() adds its listener without the lock.
NewHandle ==
  /\ stack # <<>> /\ Head(stack).op = "handle"
  /\ LET m == Head(stack).module
     IN  /\ handles' = Append(handles, [module |-> m, loaded |-> TRUE, listening |-> TRUE])
         /\ misused' = (misused \/ m \notin Live)
  /\ stack' = Tail(stack)
  /\ UNCHANGED <<core, modules, contexts>>

\* pwg_impl_module_unload(), up to the lock; dispose calls it too.
Unload(i) ==
  /\ MayCall("unload")
  /\ handles[i].module # 0
  /\ handles' = [handles EXCEPT ![i] = [module |-> 0, loaded |-> FALSE, listening |-> FALSE]]
  /\ stack' = <<[op |-> "unload", module |-> handles[i].module, was |-> handles[i].loaded]>> \o stack
  /\ UNCHANGED <<core, modules, contexts, misused>>

\* Fault: the module is forgotten, not destroyed.
UnloadForgets ==
  /\ stack # <<>> /\ Head(stack).op = "unload"
  /\ IF Head(stack).was THEN Emit(Tail(stack)) ELSE stack' = Tail(stack)
  /\ UNCHANGED <<core, modules, contexts, handles, misused>>

\* Under the lock: pw_impl_module_destroy(); then notify::loaded.
UnloadModule ==
  /\ stack # <<>> /\ Head(stack).op = "unload"
  /\ modules' = [modules EXCEPT ![Head(stack).module] = 0]
  /\ misused' = (misused \/ Head(stack).module \notin Live)
  /\ IF Head(stack).was THEN Emit(Tail(stack)) ELSE stack' = Tail(stack)
  /\ UNCHANGED <<core, contexts, handles>>

\* A module unloads itself, on the loop thread: notify::loaded is emitted
\* there (what its handlers call is not followed).
SelfUnload(m) ==
  /\ connected /\ modules[m] = context /\ context # 0
  /\ Races \/ ~\E i \in DOMAIN stack : /\ stack[i].op \in {"handle", "unload"}
                                        /\ stack[i].module = m
  /\ FreeModule(m)
  /\ UNCHANGED <<core, contexts, stack, misused>>

Return ==
  /\ stack # <<>> /\ Head(stack) = App
  /\ stack' = Tail(stack)
  /\ UNCHANGED <<core, modules, contexts, handles, misused>>

MNext ==
  \/ Connect \/ ConnectFails \/ Disconnect \/ FreeNext \/ DisconnectEnd
  \/ Load \/ LoadFails \/ LoadModule \/ NewHandle
  \/ \E i \in DOMAIN handles : Unload(i)
  \/ UnloadModule
  \/ \E m \in Live : SelfUnload(m)
  \/ Return

MSpec == MInit /\ [][MNext]_vars

-----------------------------------------------------------------------------
\* Types: what the pointers, the handles and the frames may hold; the
\* pointers to the loop and to the context are those of one connect().
MTypeOK ==
  /\ connected \in BOOLEAN /\ misused \in BOOLEAN
  /\ made \in 0..MaxConnect /\ context \in 0..made /\ loop = context
  /\ contexts \subseteq 1..made
  /\ modules \in Seq(0..made) /\ Len(modules) <= MaxLoad
  /\ handles \in Seq([module : 0..Len(modules), loaded : BOOLEAN, listening : BOOLEAN])
  /\ Len(stack) <= MaxDepth
  /\ \A i \in DOMAIN stack : stack[i].op \in {"app", "load", "handle", "unload", "destroy"}

\* A handle that says "loaded" (pwg-impl-module.h) has a module that exists,
\* at every moment, also while a disconnect is freeing the modules.
LoadedIsLive ==
  \A i \in DOMAIN handles : handles[i].loaded => handles[i].module \in Live

\* No context and no module is destroyed twice or used once freed, whatever
\* handlers of notify::loaded unload while a disconnect frees the modules.
NoMisuse == ~misused

\* pwg_core_get_connected() tells of "an active PipeWire connection"
\* (pwg-core.h:92): once every call has returned, a connected core has the
\* thread loop and the context of its connection.
ConnectedHasContext ==
  (stack = <<>> /\ connected) => (loop # 0 /\ context \in contexts)

\* Once every call has returned, no context is left that the core does not
\* hold, and no loaded module that no handle can unload.
NothingLost ==
  stack = <<>> =>
    /\ contexts \subseteq {context}
    /\ Live = {handles[i].module : i \in DOMAIN handles} \ {0}
=============================================================================
