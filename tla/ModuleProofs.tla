---------------------------- MODULE ModuleProofs ----------------------------
(***************************************************************************)
(* No module handle dangles, and no context or module is used once freed:  *)
(* proof, for any number of connections, modules and nested calls and any  *)
(* handlers, except handlers that open or close the connection while its   *)
(* context is being destroyed (Reentrant), and modules that free           *)
(* themselves between two locks of one call (Races).                       *)
(***************************************************************************)
EXTENDS ImplModule, Integers, TLAPS

-----------------------------------------------------------------------------
(* The inductive invariant.                                                *)

FrameType ==
  [op : {"app", "load"}] \cup [op : {"handle"}, module : Nat]
    \cup [op : {"unload"}, module : Nat, was : BOOLEAN]
    \cup [op : {"destroy"}, context : Nat, was : BOOLEAN]

HandleType == [module : Nat, loaded : BOOLEAN, listening : BOOLEAN]

ModuleOps == {"handle", "unload"}

\* The frames of a call that is between two locks: only the innermost.
Quiet(st) == \A i \in DOMAIN st : st[i].op \notin ModuleOps

\* The module that the innermost call is about.
Pending(st) ==
  IF st # <<>> /\ Head(st).op \in ModuleOps THEN {Head(st).module} ELSE {}

Held(hs) == {hs[i].module : i \in DOMAIN hs} \ {0}

\* Suspended disconnects: one at most, of this context.
Destroys(st) == \E i \in DOMAIN st : st[i].op = "destroy"
OneDestroy(st, c) ==
  \A i \in DOMAIN st : st[i].op = "destroy" =>
    /\ st[i].context = c
    /\ \A j \in DOMAIN st : st[j].op = "destroy" => i = j

Typed ==
  /\ connected \in BOOLEAN /\ misused \in BOOLEAN
  /\ made \in 0..MaxConnect /\ context \in 0..made /\ loop = context
  /\ modules \in Seq(0..made) /\ Len(modules) <= MaxLoad
  /\ handles \in Seq(HandleType)
  /\ stack \in Seq(FrameType) /\ Len(stack) <= MaxDepth

\* Every live module is held by one handle, or is between two locks.
Accounted ==
  /\ Live = Held(handles) \cup Pending(stack)
  /\ Held(handles) \cap Pending(stack) = {}

HandlesWhole ==
  \A i \in DOMAIN handles :
    /\ handles[i].loaded <=> handles[i].module # 0
    /\ handles[i].listening <=> handles[i].module # 0
    /\ \A j \in DOMAIN handles :
         handles[i].module = handles[j].module /\ i # j => handles[i].module = 0

OneContext ==
  /\ contexts = {context} \ {0}
  /\ \A m \in Live : modules[m] = context
  /\ connected => context # 0 /\ ~Destroys(stack)
  /\ context # 0 => connected \/ Destroys(stack)
  /\ Destroys(stack) => context # 0

StackWhole ==
  /\ stack # <<>> => Quiet(Tail(stack))
  /\ OneDestroy(stack, context)

ModuleInv ==
  Typed /\ Accounted /\ HandlesWhole /\ OneContext /\ StackWhole /\ ~misused

-----------------------------------------------------------------------------
(* Stacks.                                                                 *)

LEMMA PushFrame ==
  ASSUME NEW st \in Seq(FrameType), NEW f \in FrameType
  PROVE  /\ <<f>> \o st \in Seq(FrameType)
         /\ Len(<<f>> \o st) = Len(st) + 1
         /\ <<f>> \o st # <<>>
         /\ Head(<<f>> \o st) = f
         /\ Tail(<<f>> \o st) = st
         /\ Quiet(st) <=> Quiet(Tail(<<f>> \o st))
         /\ Destroys(<<f>> \o st) <=> f.op = "destroy" \/ Destroys(st)
         /\ \A c : OneDestroy(st, c) /\ (f.op = "destroy" => f.context = c /\ ~Destroys(st))
                   => OneDestroy(<<f>> \o st, c)
<1> DEFINE s == <<f>> \o st
<1>1. s \in Seq(FrameType) /\ Len(s) = Len(st) + 1 /\ s[1] = f /\ s # <<>>
  OBVIOUS
<1>2. \A i \in DOMAIN st : i + 1 \in DOMAIN s /\ s[i + 1] = st[i]
  OBVIOUS
<1>3. \A i \in DOMAIN s : i = 1 \/ (i - 1 \in DOMAIN st /\ s[i] = st[i - 1])
  OBVIOUS
<1>4. Head(s) = f /\ Tail(s) = st
  OBVIOUS
<1> HIDE DEF s
<1>5. 1 \in DOMAIN s /\ DOMAIN s \subseteq Int
  BY <1>1
<1>6. Destroys(s) <=> f.op = "destroy" \/ Destroys(st)
  BY <1>1, <1>2, <1>3, <1>5 DEF Destroys
<1>7. ASSUME NEW c, OneDestroy(st, c),
             f.op = "destroy" => f.context = c /\ ~Destroys(st)
      PROVE  OneDestroy(s, c)
  <2> SUFFICES ASSUME NEW i \in DOMAIN s, s[i].op = "destroy"
               PROVE  /\ s[i].context = c
                      /\ \A j \in DOMAIN s : s[j].op = "destroy" => i = j
    BY DEF OneDestroy
  <2>1. CASE f.op = "destroy"
    <3>1. \A j \in DOMAIN s : s[j].op = "destroy" => j = 1
      BY <1>3, <1>7, <2>1 DEF Destroys
    <3> QED
      BY <1>1, <1>7, <2>1, <3>1
  <2>2. CASE f.op # "destroy"
    <3>1. \A j \in DOMAIN s : s[j].op = "destroy" =>
             j \in Int /\ j - 1 \in DOMAIN st /\ s[j] = st[j - 1]
      BY <1>1, <1>3, <1>5, <2>2
    <3>2. i - 1 \in DOMAIN st /\ st[i - 1].op = "destroy" /\ s[i].context = c
      BY <1>7, <3>1 DEF OneDestroy
    <3>3. ASSUME NEW j \in DOMAIN s, s[j].op = "destroy"
          PROVE  i = j
      <4>1. j - 1 \in DOMAIN st /\ st[j - 1].op = "destroy"
        BY <3>1, <3>3
      <4>2. i - 1 = j - 1
        BY <1>7, <3>2, <4>1 DEF OneDestroy
      <4> QED
        BY <1>5, <4>2
    <3> QED
      BY <3>2, <3>3
  <2> QED
    BY <2>1, <2>2
<1> QED
  BY <1>1, <1>4, <1>6, <1>7 DEF s

LEMMA PopFrame ==
  ASSUME NEW st \in Seq(FrameType), st # <<>>
  PROVE  /\ Tail(st) \in Seq(FrameType)
         /\ Head(st) \in FrameType
         /\ Len(Tail(st)) = Len(st) - 1
         /\ Tail(st) # <<>> /\ Quiet(Tail(st)) => Quiet(Tail(Tail(st)))
         /\ Quiet(Tail(st)) => Pending(Tail(st)) = {}
         /\ Destroys(st) <=> Head(st).op = "destroy" \/ Destroys(Tail(st))
         /\ \A c : OneDestroy(st, c) =>
              /\ OneDestroy(Tail(st), c)
              /\ Head(st).op = "destroy" => Head(st).context = c /\ ~Destroys(Tail(st))
<1> DEFINE t == Tail(st)
<1>1. t \in Seq(FrameType) /\ Len(t) = Len(st) - 1 /\ Head(st) \in FrameType
  OBVIOUS
<1>2. \A i \in DOMAIN t : i + 1 \in DOMAIN st /\ t[i] = st[i + 1] /\ i \in Nat /\ i + 1 # 1
  OBVIOUS
<1>3. \A i \in DOMAIN st : (st[i] = Head(st) /\ i = 1) \/ (i - 1 \in DOMAIN t /\ st[i] = t[i - 1])
  OBVIOUS
<1>4. 1 \in DOMAIN st /\ st[1] = Head(st)
  OBVIOUS
<1>5. ASSUME t # <<>>, Quiet(t)
      PROVE  Quiet(Tail(t))
  <2>1. \A i \in DOMAIN Tail(t) : i + 1 \in DOMAIN t /\ Tail(t)[i] = t[i + 1]
    BY <1>1, <1>5
  <2> QED
    BY <1>5, <2>1 DEF Quiet
<1>6. ASSUME Quiet(t)
      PROVE  Pending(t) = {}
  <2>1. t # <<>> => 1 \in DOMAIN t /\ t[1] = Head(t)
    BY <1>1
  <2> QED
    BY <1>6, <2>1 DEF Quiet, Pending
<1> HIDE DEF t
<1>7. Destroys(st) <=> Head(st).op = "destroy" \/ Destroys(t)
  BY <1>2, <1>3, <1>4 DEF Destroys
<1>8. ASSUME NEW c, OneDestroy(st, c)
      PROVE  /\ OneDestroy(t, c)
             /\ Head(st).op = "destroy" => Head(st).context = c /\ ~Destroys(t)
  <2>1. ASSUME NEW i \in DOMAIN t, NEW j \in DOMAIN t,
               t[i].op = "destroy", t[j].op = "destroy"
        PROVE  t[i].context = c /\ i = j
    <3>1. st[i + 1].context = c /\ i + 1 = j + 1
      BY <1>2, <1>8, <2>1 DEF OneDestroy
    <3> QED
      BY <1>2, <3>1
  <2>2. ASSUME Head(st).op = "destroy", NEW i \in DOMAIN t, t[i].op = "destroy"
        PROVE  FALSE
    <3>1. i + 1 = 1
      BY <1>2, <1>4, <1>8, <2>2 DEF OneDestroy
    <3> QED
      BY <1>2, <3>1
  <2>3. Head(st).op = "destroy" => Head(st).context = c
    BY <1>4, <1>8 DEF OneDestroy
  <2> QED
    BY <2>1, <2>2, <2>3 DEF OneDestroy, Destroys
<1> QED
  BY <1>1, <1>5, <1>6, <1>7, <1>8 DEF t

\* A stack whose innermost frame is of no module call.
LEMMA QuietTop ==
  ASSUME NEW st \in Seq(FrameType), st # <<>> => Quiet(Tail(st)), Pending(st) = {}
  PROVE  Quiet(st)
<1>1. \A i \in DOMAIN st : (i = 1 /\ st # <<>> /\ st[i] = Head(st))
                             \/ (i - 1 \in DOMAIN Tail(st) /\ st[i] = Tail(st)[i - 1] /\ st # <<>>)
  OBVIOUS
<1> QED
  BY <1>1 DEF Quiet, Pending

LEMMA QuietPending ==
  ASSUME NEW st \in Seq(FrameType), Quiet(st)
  PROVE  /\ Pending(st) = {}
         /\ st # <<>> => Quiet(Tail(st))
<1>1. st # <<>> => 1 \in DOMAIN st /\ st[1] = Head(st)
  OBVIOUS
<1>2. st # <<>> => \A i \in DOMAIN Tail(st) : i + 1 \in DOMAIN st /\ Tail(st)[i] = st[i + 1]
  OBVIOUS
<1> QED
  BY <1>1, <1>2 DEF Quiet, Pending

\* A signal adds an application's handler at most.
LEMMA EmitFrame ==
  ASSUME NEW rest \in Seq(FrameType), Len(rest) <= MaxDepth, Quiet(rest), Emit(rest),
         NEW c, OneDestroy(rest, c)
  PROVE  /\ stack' \in Seq(FrameType) /\ Len(stack') <= MaxDepth
         /\ Pending(stack') = {}
         /\ stack' # <<>> => Quiet(Tail(stack'))
         /\ OneDestroy(stack', c)
         /\ Destroys(stack') <=> Destroys(rest)
<1>1. CASE stack' = <<>> \o rest
  <2>1. stack' = rest
    BY <1>1
  <2> QED
    BY <2>1, QuietPending
<1>2. CASE stack' = <<App>> \o rest /\ Len(rest) < MaxDepth
  <2>1. App \in FrameType /\ App.op = "app"
    BY DEF App, FrameType
  <2>2. stack' \in Seq(FrameType) /\ Len(stack') = Len(rest) + 1 /\ Head(stack') = App
        /\ Tail(stack') = rest
    BY <1>2, <2>1, PushFrame
  <2>3. (Destroys(stack') <=> Destroys(rest)) /\ OneDestroy(stack', c)
    BY <1>2, <2>1, PushFrame
  <2>4. Pending(stack') = {}
    BY <2>1, <2>2 DEF Pending, ModuleOps
  <2>5. Len(stack') <= MaxDepth
    BY <1>2, <2>2, ModuleAssumption
  <2> QED
    BY <2>2, <2>3, <2>4, <2>5
<1> QED
  BY <1>1, <1>2 DEF Emit

-----------------------------------------------------------------------------
(* Modules and handles.                                                    *)

\* A freed module leaves every set it was in.
LEMMA Freeing ==
  ASSUME Typed, HandlesWhole, NEW m \in Live, FreeModule(m)
  PROVE  /\ modules' \in Seq(0..made) /\ Len(modules') = Len(modules)
         /\ handles' \in Seq(HandleType)
         /\ HandlesWhole'
         /\ Live' = Live \ {m}
         /\ Held(handles)' = Held(handles) \ {m}
         /\ \A n \in Live' : modules'[n] = modules[n]
<1>1. m \in DOMAIN modules /\ m # 0 /\ m \in Nat
  BY DEF Live, Typed
<1>2. modules' \in Seq(0..made) /\ Len(modules') = Len(modules)
  BY <1>1 DEF FreeModule, Typed
<1>3. \A n \in DOMAIN modules : modules'[n] = IF n = m THEN 0 ELSE modules[n]
  BY <1>1 DEF FreeModule, Typed
<1>4. Live' = Live \ {m} /\ \A n \in Live' : modules'[n] = modules[n]
  BY <1>1, <1>2, <1>3 DEF Live, Typed, FreeModule
<1>5. DOMAIN handles' = DOMAIN handles
      /\ \A i \in DOMAIN handles :
           handles'[i] = IF handles[i].module = m
                           THEN [module |-> 0, loaded |-> FALSE, listening |-> FALSE]
                           ELSE handles[i]
  BY <1>1 DEF FreeModule, Freed, HandlesWhole, Typed
<1>6. handles' \in Seq(HandleType)
  <2>0. [module |-> 0, loaded |-> FALSE, listening |-> FALSE] \in HandleType
    BY DEF HandleType
  <2>1. \A i \in 1..Len(handles) : handles'[i] \in HandleType
    <3>1. \A i \in 1..Len(handles) : i \in DOMAIN handles /\ handles[i] \in HandleType
      BY DEF Typed
    <3> QED
      BY <1>5, <2>0, <3>1
  <2>2. handles' = [i \in 1..Len(handles) |-> handles'[i]]
    BY <1>5 DEF Typed, FreeModule, Freed
  <2> QED
    BY <2>1, <2>2 DEF Typed
<1>7. HandlesWhole'
  <2> SUFFICES ASSUME NEW i \in DOMAIN handles'
               PROVE  /\ (handles'[i].loaded <=> handles'[i].module # 0)
                      /\ (handles'[i].listening <=> handles'[i].module # 0)
                      /\ \A j \in DOMAIN handles' :
                           handles'[i].module = handles'[j].module /\ i # j
                             => handles'[i].module = 0
    BY DEF HandlesWhole
  <2>1. \A j \in DOMAIN handles :
          handles'[j].module = IF handles[j].module = m THEN 0 ELSE handles[j].module
    BY <1>5
  <2>2. (handles'[i].loaded <=> handles'[i].module # 0)
        /\ (handles'[i].listening <=> handles'[i].module # 0)
    BY <1>5 DEF HandlesWhole
  <2>3. \A j \in DOMAIN handles :
          handles[i].module = handles[j].module /\ i # j => handles[i].module = 0
    BY <1>5 DEF HandlesWhole
  <2>4. ASSUME NEW j \in DOMAIN handles', handles'[i].module = handles'[j].module, i # j
        PROVE  handles'[i].module = 0
    <3>1. i \in DOMAIN handles /\ j \in DOMAIN handles
      BY <1>5
    <3>2. CASE handles[i].module = m
      BY <2>1, <3>1, <3>2
    <3>3. CASE handles[i].module # m /\ handles[j].module = m
      BY <2>1, <2>4, <3>1, <3>3
    <3>4. CASE handles[i].module # m /\ handles[j].module # m
      BY <2>1, <2>3, <2>4, <3>1, <3>4
    <3> QED
      BY <3>2, <3>3, <3>4
  <2> QED
    BY <2>2, <2>4
<1>8. Held(handles)' = Held(handles) \ {m}
  BY <1>1, <1>5 DEF Held
<1> QED
  BY <1>2, <1>4, <1>6, <1>7, <1>8

-----------------------------------------------------------------------------
(* One lemma for each action.                                              *)

\* Where the application calls, no call is between two locks.
LEMMA Calling ==
  ASSUME ModuleInv, NEW op, MayCall(op)
  PROVE  /\ Len(stack) + 2 <= MaxDepth
         /\ Pending(stack) = {} /\ Quiet(stack)
         /\ Live = Held(handles)
<1>1. Len(stack) + 2 <= MaxDepth /\ Pending(stack) = {}
  BY DEF MayCall, Pending, App, ModuleOps
<1>2. Quiet(stack)
  BY <1>1, QuietTop DEF ModuleInv, Typed, StackWhole
<1> QED
  BY <1>1, <1>2 DEF ModuleInv, Accounted

LEMMA Opening ==
  ASSUME ModuleInv, ~connected, ~Destroys(stack), Pending(stack) = {},
         NEW rest \in Seq(FrameType), Len(rest) <= MaxDepth, Quiet(rest),
         ~Destroys(rest), Open(rest)
  PROVE  ModuleInv'
<1>1. context = 0 /\ contexts = {} /\ Live = {} /\ made \in Nat
  <2>1. context = 0
    BY DEF ModuleInv, OneContext
  <2>2. contexts = {}
    BY <2>1 DEF ModuleInv, OneContext
  <2>3. Live = {}
    BY <2>1 DEF ModuleInv, OneContext, Live
  <2> QED
    BY <2>1, <2>2, <2>3, ModuleAssumption DEF ModuleInv, Typed
<1>2. /\ made' = made + 1 /\ loop' = made + 1 /\ context' = made + 1 /\ connected' = TRUE
      /\ contexts' = {made + 1} /\ made < MaxConnect
      /\ modules' = modules /\ handles' = handles /\ misused' = misused
  BY <1>1 DEF Open
<1>3. OneDestroy(rest, context')
  BY DEF OneDestroy, Destroys
<1>4. /\ stack' \in Seq(FrameType) /\ Len(stack') <= MaxDepth /\ Pending(stack') = {}
      /\ stack' # <<>> => Quiet(Tail(stack'))
      /\ OneDestroy(stack', context') /\ ~Destroys(stack')
  BY <1>3, EmitFrame DEF Open
<1>5. Live' = {}
  BY <1>1, <1>2 DEF Live
<1>6. Typed'
  <2>1. 0..made \subseteq 0..made'
    BY <1>1, <1>2
  <2>2. modules' \in Seq(0..made')
    BY <1>2, <2>1 DEF ModuleInv, Typed
  <2> QED
    BY <1>1, <1>2, <1>4, <2>2, ModuleAssumption DEF ModuleInv, Typed
<1>7. Accounted'
  BY <1>1, <1>2, <1>4, <1>5 DEF ModuleInv, Accounted
<1>8. HandlesWhole'
  BY <1>2 DEF ModuleInv, HandlesWhole
<1>9. OneContext'
  BY <1>1, <1>2, <1>4, <1>5 DEF OneContext
<1>10. StackWhole'
  BY <1>4 DEF StackWhole
<1> QED
  BY <1>2, <1>6, <1>7, <1>8, <1>9, <1>10 DEF ModuleInv

\* pwg_core_connect(), also as the first half of pwg_core_load_module().
LEMMA ConnectInv ==
  ASSUME ModuleInv, ~Reentrant, Connect \/ (Load /\ ~connected)
  PROVE  ModuleInv'
<1>1. /\ Len(stack) + 2 <= MaxDepth /\ Quiet(stack) /\ Pending(stack) = {}
      /\ ~connected /\ ~Destroys(stack)
  BY Calling DEF Connect, Load, MayCall, Opens, Destroying, Destroys
<1>2. stack \in Seq(FrameType) /\ Len(stack) <= MaxDepth
  BY DEF ModuleInv, Typed
<1>3. CASE Connect
  BY <1>1, <1>2, <1>3, Opening DEF Connect
<1>4. CASE Load /\ ~connected
  <2> DEFINE f == [op |-> "load"]
  <2>1. f \in FrameType /\ f.op = "load"
    BY DEF FrameType
  <2>2. /\ <<f>> \o stack \in Seq(FrameType) /\ Len(<<f>> \o stack) = Len(stack) + 1
        /\ Head(<<f>> \o stack) = f /\ Tail(<<f>> \o stack) = stack
        /\ ~Destroys(<<f>> \o stack)
    BY <1>1, <1>2, <2>1, PushFrame
  <2>3. Quiet(<<f>> \o stack)
    <3>1. Pending(<<f>> \o stack) = {}
      BY <2>1, <2>2 DEF Pending, ModuleOps
    <3> QED
      BY <1>1, <2>2, <3>1, QuietTop
  <2>4. Len(<<f>> \o stack) <= MaxDepth
    BY <1>1, <1>2, <2>2, ModuleAssumption
  <2> QED
    BY <1>1, <1>4, <2>2, <2>3, <2>4, Opening DEF Load
<1> QED
  BY <1>3, <1>4

\* What no action below changes.
LEMMA Same ==
  ASSUME ModuleInv,
         modules' = modules, handles' = handles
  PROVE  /\ Live' = Live /\ Held(handles)' = Held(handles)
         /\ HandlesWhole'
BY DEF ModuleInv, Live, Held, HandlesWhole

\* A connect that fails leaves a core that is not connected as it was.
LEMMA OpenFailsInv ==
  ASSUME ModuleInv, ~Reentrant, ConnectFails \/ LoadFails
  PROVE  ModuleInv'
<1>1. ~connected /\ ~Destroys(stack) /\ OpenFails
  BY DEF ConnectFails, LoadFails, MayCall, Opens, Destroying, Destroys
<1>2. context = 0
  BY <1>1 DEF ModuleInv, OneContext
<1>3. UNCHANGED vars
  BY <1>1, <1>2 DEF OpenFails, vars, ModuleInv, Typed
<1> QED
  BY <1>3 DEF vars, ModuleInv, Typed, Accounted, Live, Held, HandlesWhole, OneContext, StackWhole

\* pwg_core_load_module() of a connected core.
LEMMA LoadInv ==
  ASSUME ModuleInv, Load, connected
  PROVE  ModuleInv'
<1> DEFINE f == [op |-> "load"]
<1>1. /\ Len(stack) + 2 <= MaxDepth /\ Quiet(stack) /\ Pending(stack) = {}
      /\ stack \in Seq(FrameType)
  BY Calling DEF Load, ModuleInv, Typed
<1>2. f \in FrameType /\ f.op = "load"
  BY DEF FrameType
<1>3. /\ stack' = <<f>> \o stack
      /\ UNCHANGED <<connected, loop, context, made, modules, contexts, handles, misused>>
  BY DEF Load, core
<1>4. /\ stack' \in Seq(FrameType) /\ Len(stack') = Len(stack) + 1
      /\ Head(stack') = f /\ Tail(stack') = stack
      /\ Destroys(stack') <=> Destroys(stack)
      /\ OneDestroy(stack', context)
  BY <1>1, <1>2, <1>3, PushFrame DEF ModuleInv, StackWhole
<1>5. Pending(stack') = {}
  BY <1>2, <1>4 DEF Pending, ModuleOps
<1>6. Typed'
  BY <1>1, <1>3, <1>4, ModuleAssumption DEF ModuleInv, Typed
<1>7. Live' = Live /\ Held(handles)' = Held(handles) /\ HandlesWhole'
  BY <1>3, Same
<1>8. Accounted'
  BY <1>1, <1>3, <1>5, <1>7 DEF ModuleInv, Accounted
<1>9. OneContext'
  BY <1>3, <1>4, <1>7 DEF ModuleInv, OneContext
<1>10. StackWhole'
  BY <1>1, <1>3, <1>4 DEF ModuleInv, StackWhole
<1> QED
  BY <1>3, <1>6, <1>7, <1>8, <1>9, <1>10 DEF ModuleInv

LEMMA DisconnectInv ==
  ASSUME ModuleInv, ~Reentrant, Disconnect
  PROVE  ModuleInv'
<1>1. /\ Len(stack) + 2 <= MaxDepth /\ Quiet(stack) /\ Pending(stack) = {}
      /\ stack \in Seq(FrameType) /\ ~Destroys(stack)
  BY Calling DEF Disconnect, DisconnectTo, MayCall, Opens, Destroying, Destroys, ModuleInv, Typed
<1>2. UNCHANGED <<context, made, modules, contexts, handles>> /\ connected' = FALSE
  BY DEF Disconnect, DisconnectTo
<1>3. Live' = Live /\ Held(handles)' = Held(handles) /\ HandlesWhole'
  BY <1>2, Same
<1>4. CASE context # 0
  <2> DEFINE f == [op |-> "destroy", context |-> context, was |-> connected]
  <2>1. f \in FrameType /\ f.op = "destroy" /\ f.context = context
    BY ModuleAssumption DEF FrameType, ModuleInv, Typed
  <2>2. stack' = <<f>> \o stack /\ loop' = loop /\ misused' = (misused \/ context \notin contexts)
    BY <1>4 DEF Disconnect, DisconnectTo
  <2>3. /\ stack' \in Seq(FrameType) /\ Len(stack') = Len(stack) + 1
        /\ Head(stack') = f /\ Tail(stack') = stack
        /\ Destroys(stack')
        /\ OneDestroy(stack', context)
    BY <1>1, <2>1, <2>2, PushFrame DEF ModuleInv, StackWhole
  <2>4. misused' = FALSE
    BY <1>4, <2>2 DEF ModuleInv, OneContext
  <2>5. Pending(stack') = {}
    BY <2>1, <2>3 DEF Pending, ModuleOps
  <2>6. Typed'
    <3>1. Len(stack) + 1 <= MaxDepth
      BY <1>1, ModuleAssumption
    <3> HIDE DEF f
    <3> QED
      BY <1>2, <2>2, <2>3, <2>4, <3>1 DEF ModuleInv, Typed
  <2>7. Accounted'
    BY <1>1, <1>2, <1>3, <2>5 DEF ModuleInv, Accounted
  <2>8. OneContext'
    BY <1>2, <1>3, <1>4, <2>3 DEF ModuleInv, OneContext
  <2>9. StackWhole'
    BY <1>1, <1>2, <2>3 DEF StackWhole
  <2> QED
    BY <1>3, <2>4, <2>6, <2>7, <2>8, <2>9 DEF ModuleInv
<1>5. CASE context = 0
  <2>1. ~connected
    BY <1>5 DEF ModuleInv, OneContext
  <2>2. connected' = connected
    BY <1>2, <2>1 DEF ModuleInv, Typed
  <2>3. loop' = loop /\ stack' = stack /\ misused' = misused
    BY <1>5, <2>1 DEF Disconnect, DisconnectTo, ModuleInv, Typed
  <2> QED
    BY <1>2, <2>2, <2>3
       DEF ModuleInv, Typed, Accounted, Live, Held, HandlesWhole, OneContext, StackWhole
<1> QED
  BY <1>4, <1>5

\* The stack once its innermost frame is done and a signal may follow.
LEMMA PopEmit ==
  ASSUME ModuleInv, stack # <<>>, Emit(Tail(stack)) \/ stack' = Tail(stack)
  PROVE  /\ stack' \in Seq(FrameType) /\ Len(stack') <= MaxDepth
         /\ Pending(stack') = {}
         /\ stack' # <<>> => Quiet(Tail(stack'))
         /\ \A c : OneDestroy(Tail(stack), c) => OneDestroy(stack', c)
         /\ Destroys(stack') <=> Destroys(Tail(stack))
<1>1. /\ Tail(stack) \in Seq(FrameType) /\ Len(Tail(stack)) <= MaxDepth
      /\ Quiet(Tail(stack))
  BY PopFrame, ModuleAssumption DEF ModuleInv, Typed, StackWhole
<1>2. CASE stack' = Tail(stack)
  BY <1>1, <1>2, QuietPending
<1>3. CASE Emit(Tail(stack))
  <2>1. OneDestroy(Tail(stack), context)
    BY PopFrame DEF ModuleInv, Typed, StackWhole
  <2>2. \A c : OneDestroy(Tail(stack), c) => OneDestroy(stack', c)
    BY <1>1, <1>3, EmitFrame
  <2> QED
    BY <1>1, <1>3, <2>1, <2>2, EmitFrame
<1> QED
  BY <1>2, <1>3

LEMMA FreeNextInv ==
  ASSUME ModuleInv, FreeNext
  PROVE  ModuleInv'
<1>1. PICK m \in In(Head(stack).context) :
        /\ FreeModule(m)
        /\ Emit(stack) \/ stack' = stack
  BY DEF FreeNext
<1>2. m \in Live /\ UNCHANGED <<connected, loop, context, made, contexts, misused>>
      /\ stack # <<>> /\ Head(stack).op = "destroy"
  BY <1>1 DEF In, FreeNext, core
<1>3. /\ modules' \in Seq(0..made) /\ Len(modules') = Len(modules)
      /\ handles' \in Seq(HandleType) /\ HandlesWhole'
      /\ Live' = Live \ {m} /\ Held(handles)' = Held(handles) \ {m}
      /\ \A n \in Live' : modules'[n] = modules[n]
  BY <1>1, <1>2, Freeing DEF ModuleInv
<1>4. stack \in Seq(FrameType) /\ Len(stack) <= MaxDepth /\ Pending(stack) = {}
  BY <1>2 DEF ModuleInv, Typed, Pending, ModuleOps
<1>5. Quiet(stack)
  BY <1>4, QuietTop DEF ModuleInv, StackWhole
<1>6. /\ stack' \in Seq(FrameType) /\ Len(stack') <= MaxDepth
      /\ Pending(stack') = {}
      /\ stack' # <<>> => Quiet(Tail(stack'))
      /\ OneDestroy(stack', context)
      /\ Destroys(stack') <=> Destroys(stack)
  <2>1. OneDestroy(stack, context)
    BY DEF ModuleInv, StackWhole
  <2> QED
    BY <1>1, <1>4, <1>5, <2>1, EmitFrame, QuietPending
<1>7. Typed'
  BY <1>2, <1>3, <1>6 DEF ModuleInv, Typed
<1>8. Accounted'
  BY <1>2, <1>3, <1>4, <1>6 DEF ModuleInv, Accounted
<1>9. OneContext'
  BY <1>2, <1>3, <1>6 DEF ModuleInv, OneContext
<1>10. StackWhole'
  BY <1>2, <1>6 DEF StackWhole
<1> QED
  BY <1>2, <1>3, <1>7, <1>8, <1>9, <1>10 DEF ModuleInv

LEMMA DisconnectEndInv ==
  ASSUME ModuleInv, DisconnectEnd
  PROVE  ModuleInv'
<1>1. stack # <<>> /\ Head(stack).op = "destroy" /\ stack \in Seq(FrameType)
  BY DEF DisconnectEnd, ModuleInv, Typed
<1>2. Head(stack).context = context /\ ~Destroys(Tail(stack)) /\ Destroys(stack)
  BY <1>1, PopFrame DEF ModuleInv, StackWhole
<1>3. context # 0 /\ contexts = {context} /\ ~connected
  BY <1>2 DEF ModuleInv, OneContext
<1>4. Live = {} /\ Pending(stack) = {}
  <2>1. In(context) = {}
    BY <1>2 DEF DisconnectEnd
  <2>2. \A m \in Live : m \in In(context)
    BY DEF ModuleInv, OneContext, In
  <2>3. Pending(stack) = {}
    BY <1>1 DEF Pending, ModuleOps
  <2> QED
    BY <2>1, <2>2, <2>3
<1>5. /\ contexts' = {} /\ context' = 0 /\ loop' = 0 /\ misused' = FALSE
      /\ UNCHANGED <<connected, made, modules, handles>>
  <2>1. misused' = FALSE
    BY <1>2, <1>3 DEF DisconnectEnd, ModuleInv
  <2> QED
    BY <1>2, <1>3, <2>1 DEF DisconnectEnd
<1>6. /\ stack' \in Seq(FrameType) /\ Len(stack') <= MaxDepth
      /\ Pending(stack') = {}
      /\ stack' # <<>> => Quiet(Tail(stack'))
      /\ ~Destroys(stack')
  BY <1>1, <1>2, PopEmit DEF DisconnectEnd
<1>7. OneDestroy(stack', context')
  BY <1>6 DEF OneDestroy, Destroys
<1>8. Live' = Live /\ Held(handles)' = Held(handles) /\ HandlesWhole'
  BY <1>5, Same
<1>9. Typed'
  <2>1. made \in 0..MaxConnect /\ made \in Nat
    BY ModuleAssumption DEF ModuleInv, Typed
  <2>2. context' \in 0..made' /\ loop' = context'
    BY <1>5, <2>1
  <2> QED
    BY <1>5, <1>6, <2>1, <2>2 DEF ModuleInv, Typed
<1>10. Accounted'
  BY <1>4, <1>6, <1>8 DEF ModuleInv, Accounted
<1>11. OneContext'
  BY <1>3, <1>4, <1>5, <1>6, <1>8 DEF OneContext
<1>12. StackWhole'
  BY <1>6, <1>7 DEF StackWhole
<1> QED
  BY <1>5, <1>8, <1>9, <1>10, <1>11, <1>12 DEF ModuleInv

LEMMA LoadModuleInv ==
  ASSUME ModuleInv, LoadModule
  PROVE  ModuleInv'
<1>1. stack # <<>> /\ Head(stack).op = "load" /\ stack \in Seq(FrameType)
      /\ Pending(stack) = {} /\ Live = Held(handles)
      /\ UNCHANGED <<connected, loop, context, made, contexts, handles, misused>>
  BY DEF LoadModule, ModuleInv, Typed, Pending, ModuleOps, Accounted, core
<1>2. /\ OneDestroy(Tail(stack), context) /\ (Destroys(stack) <=> Destroys(Tail(stack)))
      /\ Tail(stack) \in Seq(FrameType) /\ Len(Tail(stack)) = Len(stack) - 1
      /\ Quiet(Tail(stack))
  BY <1>1, PopFrame DEF ModuleInv, StackWhole
<1>3. CASE stack' = Tail(stack) /\ UNCHANGED modules
  <2>1. /\ stack' \in Seq(FrameType) /\ Len(stack') <= MaxDepth
        /\ Pending(stack') = {}
        /\ stack' # <<>> => Quiet(Tail(stack'))
        /\ OneDestroy(stack', context) /\ (Destroys(stack') <=> Destroys(stack))
    BY <1>1, <1>2, <1>3, PopEmit
  <2>2. Live' = Live /\ Held(handles)' = Held(handles) /\ HandlesWhole'
    BY <1>1, <1>3, Same
  <2> QED
    BY <1>1, <1>3, <2>1, <2>2 DEF ModuleInv, Typed, Accounted, OneContext, StackWhole
<1>4. CASE /\ modules' = Append(modules, context)
           /\ stack' = <<[op |-> "handle", module |-> Len(modules) + 1]>> \o Tail(stack)
           /\ context # 0 /\ Len(modules) # MaxLoad
  <2> DEFINE n == Len(modules) + 1
             f == [op |-> "handle", module |-> n]
  <2>1. /\ modules \in Seq(0..made) /\ n \in Nat /\ n # 0 /\ n <= MaxLoad
        /\ context \in 0..made
    BY <1>4, ModuleAssumption DEF ModuleInv, Typed
  <2>2. /\ modules' \in Seq(0..made) /\ Len(modules') = n
        /\ modules'[n] = context /\ n \in DOMAIN modules'
        /\ \A i \in DOMAIN modules : i \in DOMAIN modules' /\ i # n /\ modules'[i] = modules[i]
        /\ \A i \in DOMAIN modules' : i = n \/ i \in DOMAIN modules
    BY <1>4, <2>1
  <2>3. Live' = Live \cup {n} /\ n \notin Live /\ \A m \in Live' : modules'[m] = context
    BY <1>4, <2>2 DEF Live, ModuleInv, OneContext
  <2>4. f \in FrameType /\ f.op = "handle" /\ f.module = n
    BY <2>1 DEF FrameType
  <2>5. /\ stack' \in Seq(FrameType) /\ Len(stack') = Len(stack)
        /\ Head(stack') = f /\ Tail(stack') = Tail(stack) /\ stack' # <<>>
        /\ OneDestroy(stack', context) /\ (Destroys(stack') <=> Destroys(stack))
    <3>1. Tail(stack) \in Seq(FrameType) /\ f.op # "destroy" /\ stack' = <<f>> \o Tail(stack)
      BY <1>2, <1>4, <2>4
    <3> HIDE DEF f
    <3>2. /\ stack' \in Seq(FrameType) /\ Len(stack') = Len(Tail(stack)) + 1
          /\ Head(stack') = f /\ Tail(stack') = Tail(stack) /\ stack' # <<>>
          /\ OneDestroy(stack', context) /\ (Destroys(stack') <=> Destroys(Tail(stack)))
      BY <1>2, <2>4, <3>1, PushFrame
    <3>3. Len(stack) \in Nat
      BY <1>1
    <3> QED
      BY <1>2, <3>2, <3>3
  <2>6. Pending(stack') = {n}
    BY <2>4, <2>5 DEF Pending, ModuleOps
  <2>7. Held(handles)' = Held(handles) /\ HandlesWhole'
    BY <1>1 DEF Held, HandlesWhole, ModuleInv
  <2>8. Typed'
    BY <1>1, <2>1, <2>2, <2>5 DEF ModuleInv, Typed
  <2>9. Accounted'
    BY <1>1, <2>3, <2>6, <2>7 DEF Accounted
  <2>10. OneContext'
    BY <1>1, <2>3, <2>5 DEF ModuleInv, OneContext
  <2>11. StackWhole'
    BY <1>1, <1>2, <2>5 DEF StackWhole
  <2> QED
    BY <1>1, <2>7, <2>8, <2>9, <2>10, <2>11 DEF ModuleInv
<1> QED
  BY <1>3, <1>4 DEF LoadModule

LEMMA NewHandleInv ==
  ASSUME ModuleInv, NewHandle
  PROVE  ModuleInv'
<1> DEFINE m == Head(stack).module
           h == [module |-> m, loaded |-> TRUE, listening |-> TRUE]
<1>1. /\ stack # <<>> /\ Head(stack).op = "handle" /\ stack \in Seq(FrameType)
      /\ Pending(stack) = {m}
      /\ UNCHANGED <<connected, loop, context, made, modules, contexts>>
      /\ handles' = Append(handles, h) /\ stack' = Tail(stack)
      /\ misused' = (misused \/ m \notin Live)
  BY DEF NewHandle, ModuleInv, Typed, Pending, ModuleOps, core
<1>2. m \in Live /\ m \notin Held(handles) /\ Live = Held(handles) \cup {m}
  BY <1>1 DEF ModuleInv, Accounted
<1>3. m \in Nat /\ m # 0
  BY <1>2 DEF Live, ModuleInv, Typed
<1>4. misused' = FALSE
  BY <1>1, <1>2 DEF ModuleInv
<1>5. /\ stack' \in Seq(FrameType) /\ Len(stack') <= MaxDepth
      /\ Pending(stack') = {}
      /\ stack' # <<>> => Quiet(Tail(stack'))
      /\ OneDestroy(stack', context) /\ (Destroys(stack') <=> Destroys(stack))
  <2>1. OneDestroy(Tail(stack), context) /\ (Destroys(stack) <=> Destroys(Tail(stack)))
    BY <1>1, PopFrame DEF ModuleInv, StackWhole
  <2> QED
    BY <1>1, <2>1, PopEmit
<1>6. handles \in Seq(HandleType) /\ h \in HandleType
  BY <1>3 DEF ModuleInv, Typed, HandleType
<1>7. h.module = m /\ h.loaded /\ h.listening
  OBVIOUS
<1> HIDE DEF m, h
<1>8. /\ handles' \in Seq(HandleType)
      /\ DOMAIN handles' = DOMAIN handles \cup {Len(handles) + 1}
      /\ \A i \in DOMAIN handles : handles'[i] = handles[i] /\ i # Len(handles) + 1
      /\ handles'[Len(handles) + 1] = h
  BY <1>1, <1>6
<1>9. Live' = Live
  BY <1>1 DEF Live
<1>10. Held(handles)' = Held(handles) \cup {m}
  BY <1>3, <1>7, <1>8 DEF Held
<1>11. HandlesWhole'
  <2>1. \A i \in DOMAIN handles : handles[i].module # m
    BY <1>2, <1>3 DEF Held
  <2>2. ASSUME NEW i \in DOMAIN handles'
        PROVE  /\ handles'[i].loaded <=> handles'[i].module # 0
               /\ handles'[i].listening <=> handles'[i].module # 0
    BY <1>3, <1>7, <1>8 DEF ModuleInv, HandlesWhole
  <2>3. ASSUME NEW i \in DOMAIN handles', NEW j \in DOMAIN handles',
               handles'[i].module = handles'[j].module, i # j
        PROVE  handles'[i].module = 0
    <3>1. i \in DOMAIN handles /\ j \in DOMAIN handles
      BY <1>7, <1>8, <2>1, <2>3
    <3> QED
      BY <1>8, <2>3, <3>1 DEF ModuleInv, HandlesWhole
  <2> QED
    BY <2>2, <2>3 DEF HandlesWhole
<1>12. Typed'
  BY <1>1, <1>4, <1>5, <1>8 DEF ModuleInv, Typed
<1>13. Accounted'
  BY <1>2, <1>5, <1>9, <1>10 DEF Accounted
<1>14. OneContext'
  BY <1>1, <1>5, <1>9 DEF ModuleInv, OneContext
<1>15. StackWhole'
  BY <1>1, <1>5 DEF StackWhole
<1> QED
  BY <1>4, <1>11, <1>12, <1>13, <1>14, <1>15 DEF ModuleInv

\* The first half of pwg_impl_module_unload().
LEMMA UnloadInv ==
  ASSUME ModuleInv, NEW i \in DOMAIN handles, Unload(i)
  PROVE  ModuleInv'
<1> DEFINE m == handles[i].module
           none == [module |-> 0, loaded |-> FALSE, listening |-> FALSE]
           f == [op |-> "unload", module |-> m, was |-> handles[i].loaded]
<1>1. /\ Len(stack) + 2 <= MaxDepth /\ Quiet(stack) /\ Pending(stack) = {}
      /\ Live = Held(handles) /\ stack \in Seq(FrameType)
  BY Calling DEF Unload, ModuleInv, Typed
<1>2. /\ m # 0 /\ stack' = <<f>> \o stack
      /\ handles' = [handles EXCEPT ![i] = none]
      /\ UNCHANGED <<connected, loop, context, made, modules, contexts, misused>>
  BY DEF Unload, core
<1>3. handles \in Seq(HandleType) /\ handles[i] \in HandleType /\ none \in HandleType
  <2>1. handles \in Seq(HandleType)
    BY DEF ModuleInv, Typed
  <2>2. handles[i] \in HandleType
    BY <2>1
  <2>3. none \in HandleType
    BY DEF HandleType
  <2> QED
    BY <2>1, <2>2, <2>3
<1>4. f \in FrameType /\ f.op = "unload" /\ f.module = m
  BY <1>3 DEF FrameType, HandleType
<1>5. none.module = 0 /\ ~none.loaded /\ ~none.listening
  OBVIOUS
<1> HIDE DEF f, none
<1>6. /\ handles' \in Seq(HandleType) /\ DOMAIN handles' = DOMAIN handles
      /\ \A j \in DOMAIN handles : handles'[j] = IF j = i THEN none ELSE handles[j]
  BY <1>2, <1>3
<1>7. /\ stack' \in Seq(FrameType) /\ Len(stack') = Len(stack) + 1 /\ stack' # <<>>
      /\ Head(stack') = f /\ Tail(stack') = stack
      /\ (Destroys(stack') <=> Destroys(stack)) /\ OneDestroy(stack', context)
  BY <1>1, <1>2, <1>4, PushFrame DEF ModuleInv, StackWhole
<1>8. Pending(stack') = {m}
  BY <1>4, <1>7 DEF Pending, ModuleOps
<1>9. \A j \in DOMAIN handles : handles[j].module = m => j = i
  BY <1>2 DEF ModuleInv, HandlesWhole
<1>10. m \in Held(handles) /\ Held(handles)' = Held(handles) \ {m}
  BY <1>2, <1>5, <1>6, <1>9 DEF Held
<1>11. HandlesWhole'
  <2>1. ASSUME NEW j \in DOMAIN handles'
        PROVE  /\ handles'[j].loaded <=> handles'[j].module # 0
               /\ handles'[j].listening <=> handles'[j].module # 0
    BY <1>5, <1>6 DEF ModuleInv, HandlesWhole
  <2>2. ASSUME NEW j \in DOMAIN handles', NEW k \in DOMAIN handles',
               handles'[j].module = handles'[k].module, j # k
        PROVE  handles'[j].module = 0
    BY <1>5, <1>6, <2>2 DEF ModuleInv, HandlesWhole
  <2> QED
    BY <2>1, <2>2 DEF HandlesWhole
<1>12. Typed'
  <2>1. Len(stack') <= MaxDepth
    BY <1>1, <1>7, ModuleAssumption
  <2> QED
    BY <1>2, <1>6, <1>7, <2>1 DEF ModuleInv, Typed
<1>13. Live' = Live
  BY <1>2 DEF Live
<1>14. Accounted'
  BY <1>1, <1>8, <1>10, <1>13 DEF Accounted
<1>15. OneContext'
  BY <1>2, <1>7, <1>13 DEF ModuleInv, OneContext
<1>16. StackWhole'
  BY <1>1, <1>2, <1>7 DEF StackWhole
<1> QED
  BY <1>2, <1>11, <1>12, <1>14, <1>15, <1>16 DEF ModuleInv

\* Its second half.
LEMMA UnloadModuleInv ==
  ASSUME ModuleInv, UnloadModule
  PROVE  ModuleInv'
<1> DEFINE m == Head(stack).module
<1>1. /\ stack # <<>> /\ Head(stack).op = "unload" /\ stack \in Seq(FrameType)
      /\ Pending(stack) = {m}
      /\ UNCHANGED <<connected, loop, context, made, contexts, handles>>
      /\ modules' = [modules EXCEPT ![m] = 0]
      /\ misused' = (misused \/ m \notin Live)
      /\ Emit(Tail(stack)) \/ stack' = Tail(stack)
  BY DEF UnloadModule, ModuleInv, Typed, Pending, ModuleOps, core
<1>2. m \in Live /\ m \notin Held(handles) /\ Live = Held(handles) \cup {m}
  BY <1>1 DEF ModuleInv, Accounted
<1>3. misused' = FALSE
  BY <1>1, <1>2 DEF ModuleInv
<1>4. /\ modules' \in Seq(0..made) /\ Len(modules') = Len(modules)
      /\ Live' = Live \ {m} /\ \A n \in Live' : modules'[n] = modules[n]
  <2>1. m \in DOMAIN modules /\ modules \in Seq(0..made) /\ 0 \in 0..made
    BY <1>2, ModuleAssumption DEF Live, ModuleInv, Typed
  <2> HIDE DEF m
  <2>2. /\ modules' \in Seq(0..made) /\ Len(modules') = Len(modules)
        /\ DOMAIN modules' = DOMAIN modules
        /\ \A n \in DOMAIN modules : modules'[n] = IF n = m THEN 0 ELSE modules[n]
    BY <1>1, <2>1
  <2> QED
    BY <2>2 DEF Live
<1>5. /\ stack' \in Seq(FrameType) /\ Len(stack') <= MaxDepth
      /\ Pending(stack') = {}
      /\ stack' # <<>> => Quiet(Tail(stack'))
      /\ OneDestroy(stack', context) /\ (Destroys(stack') <=> Destroys(stack))
  <2>1. OneDestroy(Tail(stack), context) /\ (Destroys(stack) <=> Destroys(Tail(stack)))
    BY <1>1, PopFrame DEF ModuleInv, StackWhole
  <2> QED
    BY <1>1, <2>1, PopEmit
<1>6. Held(handles)' = Held(handles) /\ HandlesWhole'
  BY <1>1 DEF Held, HandlesWhole, ModuleInv
<1>7. Typed'
  BY <1>1, <1>3, <1>4, <1>5 DEF ModuleInv, Typed
<1>8. Accounted'
  BY <1>2, <1>4, <1>5, <1>6 DEF Accounted
<1>9. OneContext'
  BY <1>1, <1>4, <1>5 DEF ModuleInv, OneContext
<1>10. StackWhole'
  BY <1>1, <1>5 DEF StackWhole
<1> QED
  BY <1>3, <1>6, <1>7, <1>8, <1>9, <1>10 DEF ModuleInv

\* A module that frees itself, but not one that a call is about.
LEMMA SelfUnloadInv ==
  ASSUME ModuleInv, ~Races, NEW m \in Live, SelfUnload(m)
  PROVE  ModuleInv'
<1>1. FreeModule(m) /\ UNCHANGED <<connected, loop, context, made, contexts, stack, misused>>
  BY DEF SelfUnload, core
<1>2. m \notin Pending(stack)
  <2>1. stack # <<>> => 1 \in DOMAIN stack /\ Head(stack) = stack[1]
    BY DEF ModuleInv, Typed
  <2> QED
    BY <2>1 DEF SelfUnload, Pending, ModuleOps
<1>3. /\ modules' \in Seq(0..made) /\ Len(modules') = Len(modules)
      /\ handles' \in Seq(HandleType) /\ HandlesWhole'
      /\ Live' = Live \ {m} /\ Held(handles)' = Held(handles) \ {m}
      /\ \A n \in Live' : modules'[n] = modules[n]
  BY <1>1, Freeing DEF ModuleInv
<1>4. Typed'
  BY <1>1, <1>3 DEF ModuleInv, Typed
<1>5. Accounted'
  BY <1>1, <1>2, <1>3 DEF ModuleInv, Accounted
<1>6. OneContext'
  BY <1>1, <1>3 DEF ModuleInv, OneContext
<1>7. StackWhole'
  BY <1>1 DEF ModuleInv, StackWhole
<1> QED
  BY <1>1, <1>3, <1>4, <1>5, <1>6, <1>7 DEF ModuleInv

LEMMA ReturnInv ==
  ASSUME ModuleInv, Return
  PROVE  ModuleInv'
<1>1. /\ stack # <<>> /\ Head(stack).op = "app" /\ stack \in Seq(FrameType)
      /\ UNCHANGED <<connected, loop, context, made, contexts, modules, handles, misused>>
      /\ stack' = Tail(stack) /\ Pending(stack) = {}
  BY DEF Return, App, ModuleInv, Typed, Pending, ModuleOps, core
<1>2. /\ stack' \in Seq(FrameType) /\ Len(stack') <= MaxDepth
      /\ Pending(stack') = {}
      /\ stack' # <<>> => Quiet(Tail(stack'))
      /\ OneDestroy(stack', context) /\ (Destroys(stack') <=> Destroys(stack))
  <2>1. OneDestroy(Tail(stack), context) /\ (Destroys(stack) <=> Destroys(Tail(stack)))
    BY <1>1, PopFrame DEF ModuleInv, StackWhole
  <2> QED
    BY <1>1, <2>1, PopEmit
<1>3. Live' = Live /\ Held(handles)' = Held(handles) /\ HandlesWhole'
  BY <1>1, Same
<1> QED
  BY <1>1, <1>2, <1>3 DEF ModuleInv, Typed, Accounted, OneContext, StackWhole

-----------------------------------------------------------------------------
(* The theorems.                                                           *)

LEMMA ModuleInvStart == MInit => ModuleInv
<1> SUFFICES ASSUME MInit
             PROVE  ModuleInv
  OBVIOUS
<1>1. Typed
  <2>1. modules = <<>> /\ handles = <<>> /\ stack = <<>>
    BY DEF MInit
  <2>2. modules \in Seq(0..made) /\ Len(modules) = 0
    BY <2>1
  <2>3. handles \in Seq(HandleType)
    BY <2>1
  <2>4. stack \in Seq(FrameType) /\ Len(stack) = 0
    BY <2>1
  <2>5. connected \in BOOLEAN /\ misused \in BOOLEAN
    BY DEF MInit
  <2>6. made = 0 /\ context = 0 /\ loop = 0
    BY DEF MInit
  <2>7. MaxLoad \in Nat /\ MaxDepth \in Nat /\ MaxConnect \in Nat
    BY ModuleAssumption
  <2> QED
    BY <2>2, <2>3, <2>4, <2>5, <2>6, <2>7 DEF Typed
<1>2. Live = {} /\ Held(handles) = {} /\ Pending(stack) = {}
  BY DEF MInit, Live, Held, Pending
<1>3. ~Destroys(stack) /\ OneDestroy(stack, context)
  BY DEF MInit, Destroys, OneDestroy
<1> QED
  BY <1>1, <1>2, <1>3 DEF MInit, ModuleInv, Accounted, HandlesWhole, OneContext, StackWhole

LEMMA ModuleInvStep ==
  ASSUME ModuleInv, ~Reentrant, ~Races, [MNext]_vars
  PROVE  ModuleInv'
<1>1. CASE Connect
  BY <1>1, ConnectInv
<1>2. CASE ConnectFails \/ LoadFails
  BY <1>2, OpenFailsInv
<1>3. CASE Disconnect
  BY <1>3, DisconnectInv
<1>4. CASE FreeNext
  BY <1>4, FreeNextInv
<1>5. CASE DisconnectEnd
  BY <1>5, DisconnectEndInv
<1>6. CASE Load
  BY <1>6, ConnectInv, LoadInv
<1>7. CASE LoadModule
  BY <1>7, LoadModuleInv
<1>8. CASE NewHandle
  BY <1>8, NewHandleInv
<1>9. CASE \E i \in DOMAIN handles : Unload(i)
  BY <1>9, UnloadInv
<1>10. CASE UnloadModule
  BY <1>10, UnloadModuleInv
<1>11. CASE \E m \in Live : SelfUnload(m)
  BY <1>11, SelfUnloadInv
<1>12. CASE Return
  BY <1>12, ReturnInv
<1>13. CASE UNCHANGED vars
  BY <1>13 DEF vars, ModuleInv, Typed, Accounted, Live, Held, HandlesWhole, OneContext, StackWhole
<1> QED
  BY <1>1, <1>2, <1>3, <1>4, <1>5, <1>6, <1>7, <1>8, <1>9, <1>10, <1>11, <1>12, <1>13 DEF MNext

\* Every reachable state satisfies the inductive invariant.
THEOREM ModuleInvariant ==
  ASSUME ~Reentrant, ~Races
  PROVE  MSpec => []ModuleInv
<1>1. ModuleInv /\ [MNext]_vars => ModuleInv'
  BY ModuleInvStep
<1> QED
  BY <1>1, ModuleInvStart, PTL DEF MSpec

\* The pointers, the handles and the frames of every reachable state: the
\* pointers to the loop and to the context are those of one connect().
THEOREM ModuleTypes ==
  ASSUME ~Reentrant, ~Races
  PROVE  MSpec => []MTypeOK
<1>1. ASSUME ModuleInv
      PROVE  MTypeOK
  <2>1. contexts \subseteq 1..made
    BY <1>1 DEF ModuleInv, Typed, OneContext
  <2>2. handles \in Seq(HandleType) /\ modules \in Seq(0..made)
    BY <1>1 DEF ModuleInv, Typed
  <2>3. \A i \in DOMAIN handles :
          handles[i] \in HandleType /\ handles[i].module \in 0..Len(modules)
    <3> SUFFICES ASSUME NEW i \in DOMAIN handles
                 PROVE  handles[i] \in HandleType /\ handles[i].module \in 0..Len(modules)
      OBVIOUS
    <3>1. handles[i] \in HandleType
      BY <2>2
    <3>2. handles[i].module = 0 \/ handles[i].module \in DOMAIN modules
      BY <1>1 DEF ModuleInv, Accounted, Held, Live
    <3> QED
      BY <2>2, <3>1, <3>2
  <2>4. handles \in Seq([module : 0..Len(modules), loaded : BOOLEAN, listening : BOOLEAN])
    <3> DEFINE H == [module : 0..Len(modules), loaded : BOOLEAN, listening : BOOLEAN]
    <3>1. \A i \in DOMAIN handles : handles[i] \in H
      BY <2>3 DEF HandleType
    <3> HIDE DEF H
    <3>2. handles \in Seq(H)
      BY <2>2, <3>1
    <3> QED
      BY <3>2 DEF H
  <2>5. \A i \in DOMAIN stack : stack[i].op \in {"app", "load", "handle", "unload", "destroy"}
    <3>1. \A i \in DOMAIN stack : stack[i] \in FrameType
      BY <1>1 DEF ModuleInv, Typed
    <3> QED
      BY <3>1 DEF FrameType
  <2> QED
    BY <1>1, <2>1, <2>2, <2>4, <2>5 DEF ModuleInv, Typed, MTypeOK
<1>2. ModuleInv => MTypeOK
  BY <1>1
<1> QED
  BY <1>2, ModuleInvariant, PTL

\* At every moment a handle that says "loaded" has a module that exists
\* (pwg_impl_module_on_free() and pwg_impl_module_unload()).
THEOREM LoadedModulesLive ==
  ASSUME ~Reentrant, ~Races
  PROVE  MSpec => []LoadedIsLive
<1>1. ModuleInv => LoadedIsLive
  BY DEF ModuleInv, HandlesWhole, Accounted, Held, LoadedIsLive
<1> QED
  BY <1>1, ModuleInvariant, PTL

\* No context and no module is destroyed twice or used once freed.
THEOREM NothingMisused ==
  ASSUME ~Reentrant, ~Races
  PROVE  MSpec => []NoMisuse
<1>1. ModuleInv => NoMisuse
  BY DEF ModuleInv, NoMisuse
<1> QED
  BY <1>1, ModuleInvariant, PTL

\* Between calls a connected core has the context of its connection, which
\* pwg_core_disconnect() takes away with connected.
THEOREM ConnectedCoreHasContext ==
  ASSUME ~Reentrant, ~Races
  PROVE  MSpec => []ConnectedHasContext
<1>1. ModuleInv => ConnectedHasContext
  BY DEF ModuleInv, Typed, OneContext, ConnectedHasContext
<1> QED
  BY <1>1, ModuleInvariant, PTL

\* Between calls every context is the core's, and every module has a handle
\* that can unload it.
THEOREM NothingIsLost ==
  ASSUME ~Reentrant, ~Races
  PROVE  MSpec => []NothingLost
<1>1. ASSUME ModuleInv, stack = <<>>
      PROVE  contexts \subseteq {context} /\ Live = {handles[i].module : i \in DOMAIN handles} \ {0}
  <2>1. Pending(stack) = {}
    BY <1>1 DEF Pending
  <2> QED
    BY <1>1, <2>1 DEF ModuleInv, Accounted, Held, OneContext
<1>2. ModuleInv => NothingLost
  BY <1>1 DEF NothingLost
<1> QED
  BY <1>2, ModuleInvariant, PTL
=============================================================================
