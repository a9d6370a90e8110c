--------------------------- MODULE RegistryProofs ---------------------------
(***************************************************************************)
(* Proofs about Registry, for any bounds, ids, handlers and contexts: the  *)
(* types; that the list is of one session, except where handlers begin a   *)
(* session while a start or a stop of the same registry is suspended below *)
(* them; and that no proxy outlives its session.                           *)
(***************************************************************************)
EXTENDS Registry, FiniteSetTheorems, SequenceTheorems, TLAPS

USE BoundsAssumption, RegistryAssumption

RFrame == FrameType(RegistryFrames, Marks \cup {NoMark})

-----------------------------------------------------------------------------
(* Frames and the stack.                                                   *)

\* A frame of a known kind about which nothing is remembered is well typed.
LEMMA SuspensionType ==
  ASSUME NEW op \in RegistryFrames, NEW ctx \in BOOLEAN, NEW timed \in BOOLEAN
  PROVE  Suspension(op, ctx, timed) \in RFrame
BY DEF Suspension, Frame, RFrame, FrameType

\* The frame of a handler is one of them.
LEMMA AppType == App \in RFrame
BY SuspensionType DEF App, RegistryFrames, CoreFrames

LEMMA NotifyType == Notify \in RFrame
BY SuspensionType DEF Notify, RegistryFrames, CoreFrames

\* A notify of "connected" puts at most its frame on a well-typed stack.
LEMMA NotifiedType ==
  ASSUME NEW rest \in Seq(RFrame), stack' = Notified(rest)
  PROVE  /\ stack' \in Seq(RFrame)
         /\ stack' = rest \/ stack' = <<Notify>> \o rest
         /\ ~Emitting => stack' = <<Notify>> \o rest
         /\ Emitting => stack' = rest
<1>1. <<Notify>> \o rest \in Seq(RFrame)
  BY NotifyType
<1> QED
  BY <1>1 DEF Notified

\* Emitting a signal puts at most a handler's frame on a well-typed stack.
LEMMA EmitType ==
  ASSUME NEW rest \in Seq(RFrame), Emit(rest)
  PROVE  stack' \in Seq(RFrame)
<1>1. PICK h \in Handlers : stack' = h \o rest
  BY DEF Emit
<1>2. h = <<>> \/ h = <<App>>
  BY <1>1 DEF Handlers
<1>3. <<>> \in Seq(RFrame) /\ <<App>> \in Seq(RFrame)
  BY AppType
<1>4. h \in Seq(RFrame)
  BY <1>2, <1>3
<1> QED
  BY <1>1, <1>4

\* Suspending a call puts its frame under a handler's.
LEMMA SuspendedType ==
  ASSUME NEW rest \in Seq(RFrame), NEW op \in RegistryFrames,
         NEW ctx \in BOOLEAN, NEW timed \in BOOLEAN,
         Emit(<<Suspension(op, ctx, timed)>> \o rest)
  PROVE  stack' \in Seq(RFrame)
<1> DEFINE f == Suspension(op, ctx, timed)
<1>1. f \in RFrame
  BY SuspensionType
<1> HIDE DEF f
<1>2. <<f>> \o rest \in Seq(RFrame)
  BY <1>1
<1> USE DEF f
<1> QED
  BY <1>2, EmitType

LEMMA ConnectingType ==
  ASSUME NEW rest \in Seq(RFrame), NEW op \in RegistryFrames,
         NEW ctx \in BOOLEAN, NEW timed \in BOOLEAN,
         stack' = Notified(<<Suspension(op, ctx, timed)>> \o rest)
  PROVE  stack' \in Seq(RFrame)
<1> DEFINE f == Suspension(op, ctx, timed)
<1>1. f \in RFrame
  BY SuspensionType
<1> HIDE DEF f
<1>2. <<f>> \o rest \in Seq(RFrame)
  BY <1>1
<1> USE DEF f
<1> QED
  BY <1>2, NotifiedType

\* The frames under the innermost one.
LEMMA TailType ==
  ASSUME RTypeOK, NEW op, TopIs(op)
  PROVE  /\ stack \in Seq(RFrame)
         /\ Tail(stack) \in Seq(RFrame)
         /\ Head(stack) \in RFrame
         /\ Head(stack).op = op
         /\ Head(stack).ctx \in BOOLEAN
         /\ Head(stack).timed \in BOOLEAN
<1>1. stack \in Seq(RFrame) /\ stack # <<>> /\ Head(stack).op = op
  BY DEF RTypeOK, CoreTypeOK, TopIs, RFrame
<1>2. Tail(stack) \in Seq(RFrame) /\ Head(stack) \in RFrame
  BY <1>1
<1> QED
  BY <1>1, <1>2 DEF RFrame, FrameType

-----------------------------------------------------------------------------
(* Type correctness, one lemma per action.                                 *)

\* A step that leaves the registry and the server alone keeps their types.
LEMMA KeepType ==
  ASSUME RTypeOK, UNCHANGED <<regVars, serverVars, emitter>>,
         CoreTypeOK(RegistryRequests, RegistryMessages, RegistrySources,
                    RegistryFrames, Marks \cup {NoMark})'
  PROVE  RTypeOK'
BY DEF RTypeOK, regVars, serverVars

\* Popping the innermost frame.
LEMMA PopType ==
  ASSUME RTypeOK, NEW op, TopIs(op), Pop,
         UNCHANGED <<connected, connects, link, toServer, wire, lastReq, mainq, inLoop>>
  PROVE  CoreTypeOK(RegistryRequests, RegistryMessages, RegistrySources,
                    RegistryFrames, Marks \cup {NoMark})'
<1>1. Tail(stack) \in Seq(RFrame)
  BY TailType
<1> QED
  BY <1>1 DEF RTypeOK, CoreTypeOK, Pop, RFrame

\* The wait of a sync: a new frame, and a new request on the socket.
LEMMA SendSyncType ==
  ASSUME RTypeOK, NEW ctx \in BOOLEAN, NEW timed \in BOOLEAN, NEW below \in Seq(RFrame),
         SendSync(ctx, timed, Mark, below)
  PROVE  /\ lastReq' \in Nat
         /\ toServer' \in Seq(RegistryRequests)
         /\ stack' \in Seq(RFrame)
<1>1. lastReq' \in Nat /\ lastReq + 1 \in Nat
  BY DEF RTypeOK, CoreTypeOK, SendSync
<1>2. SyncRequest \in RegistryRequests
  BY <1>1 DEF SyncRequest, RegistryRequests, CoreRequests
<1>3. toServer' \in Seq(RegistryRequests)
  BY <1>2 DEF RTypeOK, CoreTypeOK, SendSync
<1>4. Mark \in Marks
  BY DEF RTypeOK, Mark, Marks
<1>5. Frame("wait", lastReq + 1, ctx, timed, Mark) \in RFrame
  BY <1>1, <1>4 DEF Frame, RFrame, FrameType, RegistryFrames, CoreFrames
<1>6. stack' \in Seq(RFrame)
  BY <1>5 DEF SendSync
<1> QED
  BY <1>1, <1>3, <1>6

\* The resumption of a sync that had to connect first.
LEMMA SyncResumeType ==
  ASSUME RTypeOK, Keep(SyncResume(Mark))
  PROVE  RTypeOK'
<1>1. TopIs("sync")
  BY DEF Keep, SyncResume
<1>2. CASE SendSync(Head(stack).ctx, Head(stack).timed, Mark, Tail(stack))
  <2>1. /\ lastReq' \in Nat
        /\ toServer' \in Seq(RegistryRequests)
        /\ stack' \in Seq(RFrame)
    BY <1>1, <1>2, TailType, SendSyncType
  <2> QED
    BY <2>1, KeepType DEF Keep, SyncResume, RTypeOK, CoreTypeOK, RFrame
<1>3. CASE SendFails(Tail(stack))
  <2>1. Tail(stack) \in Seq(RFrame)
    BY <1>1, TailType
  <2> QED
    BY <1>3, <2>1, KeepType DEF Keep, SyncResume, SendFails, RTypeOK, CoreTypeOK, RFrame
<1> QED
  BY <1>2, <1>3 DEF Keep, SyncResume

\* Steps that only pop: the end of a drain, of a timed wait, of a handler.
LEMMA DrainEndType ==
  ASSUME RTypeOK,
         Keep(DrainEnd) \/ Keep(SyncTimeout) \/ Keep(HandlerReturn) \/ Keep(NotifyReturn)
  PROVE  RTypeOK'
<1>1. CASE Keep(DrainEnd)
  BY <1>1, PopType, KeepType DEF Keep, DrainEnd
<1>2. CASE Keep(SyncTimeout)
  BY <1>2, PopType, KeepType DEF Keep, SyncTimeout
<1>3. CASE Keep(HandlerReturn)
  BY <1>3, PopType, KeepType DEF Keep, HandlerReturn
<1>4. CASE Keep(NotifyReturn)
  BY <1>4, PopType, KeepType DEF Keep, NotifyReturn
<1> QED
  BY <1>1, <1>2, <1>3, <1>4

\* The innermost frame, altered in one field, keeps its type.
LEMMA SetTopType ==
  ASSUME RTypeOK, NEW op, TopIs(op), NEW f \in RFrame, SetTop(f)
  PROVE  stack' \in Seq(RFrame)
BY TailType DEF SetTop

\* The end of the wait loop.
LEMMA SyncWakeType ==
  ASSUME RTypeOK, Keep(SyncWake)
  PROVE  RTypeOK'
<1>1. TopIs("wait")
  BY DEF Keep, SyncWake
<1>2. CASE Pop
  BY <1>1, <1>2, PopType, KeepType DEF Keep, SyncWake
<1>3. CASE SetTop([Head(stack) EXCEPT !.op = "drain"])
  <2>1. [Head(stack) EXCEPT !.op = "drain"] \in RFrame
    BY <1>1, TailType DEF RFrame, FrameType, RegistryFrames, CoreFrames
  <2>2. stack' \in Seq(RFrame)
    BY <1>1, <1>3, <2>1, SetTopType
  <2> QED
    BY <2>2, KeepType DEF Keep, SyncWake, RTypeOK, CoreTypeOK, RFrame
<1> QED
  BY <1>2, <1>3 DEF Keep, SyncWake

\* The loop thread's core messages.
LEMMA LoopStepType ==
  ASSUME RTypeOK, Keep(LoopStep)
  PROVE  RTypeOK'
<1> DEFINE m == Head(wire)
<1>1. /\ wire \in Seq(RegistryMessages) /\ wire # <<>>
      /\ m \in RegistryMessages /\ wire' \in Seq(RegistryMessages)
  BY DEF Keep, LoopStep, RTypeOK, CoreTypeOK
<1>2. ASSUME m.kind \in {"done", "error"}
      PROVE  m.n \in Nat
  BY <1>1, <1>2 DEF RegistryMessages, CoreMessages
<1>3. CASE m.kind = "done" /\ OnDone(m.n)
  <2>1. Token(m.n) \in RegistrySources
    BY <1>2, <1>3 DEF Token, RegistrySources, CoreSources
  <2>2. mainq' \in Seq(RegistrySources)
    <3>1. mainq' = Append(mainq, Token(m.n)) \/ mainq' = mainq
      BY <1>3 DEF OnDone
    <3>2. mainq \in Seq(RegistrySources)
      BY DEF RTypeOK, CoreTypeOK
    <3> QED
      BY <2>1, <3>1, <3>2
  <2>3. CASE Waiting(m.n)
    <3>1. [Head(stack) EXCEPT !.done = TRUE] \in RFrame
      BY <2>3, TailType DEF Waiting, RFrame, FrameType
    <3>2. stack' \in Seq(RFrame)
      BY <1>3, <2>3, <3>1, SetTopType DEF OnDone, Waiting
    <3> QED
      BY <1>1, <2>2, <3>2, KeepType DEF Keep, LoopStep, RTypeOK, CoreTypeOK, RFrame
  <2>4. CASE ~Waiting(m.n)
    BY <1>1, <1>3, <2>2, <2>4, KeepType DEF Keep, LoopStep, OnDone, RTypeOK, CoreTypeOK
  <2> QED
    BY <2>3, <2>4
<1>4. CASE m.kind = "error" /\ OnError(m.n)
  <2>1. CASE Waiting(m.n)
    <3>1. [Head(stack) EXCEPT !.err = TRUE] \in RFrame
      BY <2>1, TailType DEF Waiting, RFrame, FrameType
    <3>2. stack' \in Seq(RFrame)
      BY <1>4, <2>1, <3>1, SetTopType DEF OnError, Waiting
    <3> QED
      BY <1>1, <1>4, <3>2, KeepType DEF Keep, LoopStep, OnError, RTypeOK, CoreTypeOK, RFrame
  <2>2. CASE ~Waiting(m.n)
    BY <1>1, <1>4, <2>2, KeepType DEF Keep, LoopStep, OnError, RTypeOK, CoreTypeOK
  <2> QED
    BY <2>1, <2>2
<1> QED
  BY <1>3, <1>4 DEF Keep, LoopStep

\* A token marks the frame of its call.
LEMMA DispatchTokenType ==
  ASSUME RTypeOK, Keep(DispatchToken)
  PROVE  RTypeOK'
<1> DEFINE n == Head(mainq).n
<1>1. mainq' \in Seq(RegistrySources)
  BY DEF Keep, DispatchToken, RTypeOK, CoreTypeOK
<1>2. stack \in Seq(RFrame)
  BY DEF RTypeOK, CoreTypeOK, RFrame
<1>3. CASE OnStack(n)
  <2>1. FrameOf(n) \in DOMAIN stack
    BY <1>3 DEF OnStack, FrameOf
  <2>2. stack[FrameOf(n)] \in RFrame
    BY <1>2, <2>1
  <2>3. [stack[FrameOf(n)] EXCEPT !.mdone = TRUE] \in RFrame
    BY <2>2 DEF RFrame, FrameType
  <2>4. stack' = [stack EXCEPT ![FrameOf(n)] = [stack[FrameOf(n)] EXCEPT !.mdone = TRUE]]
    BY <1>3 DEF Keep, DispatchToken, MarkDrained
  <2>5. stack' \in Seq(RFrame)
    BY <1>2, <2>1, <2>3, <2>4
  <2> QED
    BY <1>1, <2>5, KeepType DEF Keep, DispatchToken, RTypeOK, CoreTypeOK, RFrame
<1>4. CASE ~OnStack(n)
  BY <1>1, <1>4, KeepType DEF Keep, DispatchToken, MarkDrained, RTypeOK, CoreTypeOK
<1> QED
  BY <1>3, <1>4

\* Connecting, an application source, entering and leaving the main loop.
LEMMA ApplicationType ==
  ASSUME RTypeOK, Keep(Connect) \/ Keep(AppSource) \/ Keep(ToggleLoop)
  PROVE  RTypeOK'
<1>1. stack \in Seq(RFrame) /\ <<App>> \o stack \in Seq(RFrame)
  BY AppType DEF RTypeOK, CoreTypeOK, RFrame
<1>2. CASE Keep(Connect)
  <2>1. stack' \in Seq(RFrame)
    BY <1>1, <1>2, NotifiedType DEF Keep, Connect
  <2> QED
    BY <1>2, <2>1, KeepType DEF Keep, Connect, Connected, RTypeOK, CoreTypeOK, RFrame
<1>3. CASE Keep(AppSource)
  BY <1>1, <1>3, KeepType DEF Keep, AppSource, Push, RTypeOK, CoreTypeOK, RFrame
<1>4. CASE Keep(ToggleLoop)
  BY <1>4, KeepType DEF Keep, ToggleLoop, RTypeOK, CoreTypeOK
<1> QED
  BY <1>2, <1>3, <1>4

\* The server answers a core request, or is lost.
LEMMA ServerStepType ==
  ASSUME RTypeOK, Keep(ServerStep) \/ Keep(LinkBreaks)
  PROVE  RTypeOK'
<1> DEFINE r == Head(toServer)
<1>1. wire \in Seq(RegistryMessages) /\ toServer \in Seq(RegistryRequests)
  BY DEF RTypeOK, CoreTypeOK
<1>2. CASE Keep(ServerStep)
  <2>1. toServer' \in Seq(RegistryRequests) /\ r \in RegistryRequests
    BY <1>1, <1>2 DEF Keep, ServerStep
  <2>2. r.n \in Nat
    BY <2>1 DEF RegistryRequests, CoreRequests
  <2>3. /\ [kind |-> "done", n |-> r.n] \in RegistryMessages
        /\ [kind |-> "error", n |-> r.n] \in RegistryMessages
    BY <2>2 DEF RegistryMessages, CoreMessages
  <2>4. \/ wire' = Append(wire, [kind |-> "done", n |-> r.n])
        \/ wire' = Append(wire, [kind |-> "error", n |-> r.n])
        \/ wire' = wire
    BY <1>2 DEF Keep, ServerStep
  <2>5. \A x \in RegistryMessages : Append(wire, x) \in Seq(RegistryMessages)
    BY <1>1
  <2>6. wire' \in Seq(RegistryMessages)
    BY <1>1, <2>3, <2>4, <2>5
  <2> QED
    BY <1>2, <2>1, <2>6, KeepType DEF Keep, ServerStep, RTypeOK, CoreTypeOK
<1>3. CASE Keep(LinkBreaks)
  <2>1. [kind |-> "error", n |-> 0] \in RegistryMessages
    BY DEF RegistryMessages, CoreMessages
  <2>2. wire' \in Seq(RegistryMessages)
    BY <1>1, <1>3, <2>1 DEF Keep, LinkBreaks
  <2>3. toServer' \in Seq(RegistryRequests)
    BY <1>3 DEF Keep, LinkBreaks
  <2> QED
    BY <1>3, <2>2, <2>3, KeepType DEF Keep, LinkBreaks, RTypeOK, CoreTypeOK
<1> QED
  BY <1>2, <1>3

\* Binding a proxy, or failing to.
LEMMA BindType ==
  ASSUME RTypeOK, NEW below \in Seq(RFrame), Bind(below) \/ BindFails(below)
  PROVE  /\ lastReq' \in Nat
         /\ toServer' \in Seq(RegistryRequests)
         /\ stack' \in Seq(RFrame)
         /\ registry' \in Nat
         /\ running' \in BOOLEAN
         /\ generation' \in Nat
         /\ globals' \subseteq Entry
         /\ bound' \subseteq Nat
<1>1. CASE Bind(below)
  <2>1. lastReq + 1 \in Nat
    BY DEF RTypeOK, CoreTypeOK
  <2>2. [kind |-> "bind", n |-> lastReq + 1] \in RegistryRequests
    BY <2>1 DEF RegistryRequests
  <2>3. toServer' \in Seq(RegistryRequests)
    BY <1>1, <2>2 DEF Bind, RTypeOK, CoreTypeOK
  <2>4. stack' \in Seq(RFrame)
    BY <1>1, EmitType DEF Bind
  <2>5. /\ registry' = lastReq + 1
        /\ running' = TRUE
        /\ generation' = generation + 1
        /\ globals' = globals
        /\ bound' = bound \cup {lastReq + 1}
        /\ lastReq' = lastReq + 1
    BY <1>1 DEF Bind
  <2>6. registry' \in Nat /\ lastReq' \in Nat /\ generation' \in Nat
    BY <2>1, <2>5 DEF RTypeOK
  <2>7. bound' \subseteq Nat /\ globals' \subseteq Entry
    BY <2>1, <2>5 DEF RTypeOK
  <2> QED
    BY <2>3, <2>4, <2>5, <2>6, <2>7
<1>2. CASE BindFails(below)
  <2>1. stack' \in Seq(RFrame)
    BY <1>2 DEF BindFails, Failed
  <2> QED
    BY <1>2, <2>1 DEF BindFails, RTypeOK, CoreTypeOK, NULL
<1> QED
  BY <1>1, <1>2

\* The start of a session on top of a stack, connecting first if needed.
LEMMA StartOnType ==
  ASSUME RTypeOK, NEW st \in Seq(RFrame), StartOn(st),
         UNCHANGED <<mainq, inLoop, serverVars, emitter>>
  PROVE  RTypeOK'
<1>1. CASE /\ connected
           /\ Bind(st) \/ BindFails(st)
           /\ UNCHANGED <<connected, connects, link, wire>>
  BY <1>1, BindType DEF RTypeOK, CoreTypeOK, RFrame, serverVars
<1>2. CASE /\ Connected
           /\ stack' = Notified(<<Suspension("start", FALSE, FALSE)>> \o st)
           /\ UNCHANGED <<lastReq, regVars>>
  <2>1. stack' \in Seq(RFrame)
    BY <1>2, ConnectingType DEF RegistryFrames
  <2> QED
    BY <1>2, <2>1 DEF Connected, RTypeOK, CoreTypeOK, RFrame, regVars, serverVars
<1> QED
  BY <1>1, <1>2 DEF StartOn

\* A start that goes on after the handlers of notify::connected, or fails.
LEMMA StartResumeType ==
  ASSUME RTypeOK, Start \/ StartResume
  PROVE  RTypeOK'
<1>1. CASE Start
  <2>1. stack \in Seq(RFrame)
    BY DEF RTypeOK, CoreTypeOK, RFrame
  <2> QED
    BY <1>1, <2>1, StartOnType DEF Start
<1>2. CASE StartResume
  <2>1. Tail(stack) \in Seq(RFrame)
    BY <1>2, TailType DEF StartResume
  <2>2. CASE Bind(Tail(stack)) \/ BindFails(Tail(stack))
    BY <1>2, <2>1, <2>2, BindType DEF StartResume, RTypeOK, CoreTypeOK, RFrame, serverVars
  <2>3. CASE Failed(Tail(stack)) /\ UNCHANGED <<lastReq, toServer, regVars>>
    <3>1. stack' \in Seq(RFrame)
      BY <2>1, <2>3 DEF Failed
    <3> QED
      BY <1>2, <2>3, <3>1 DEF StartResume, RTypeOK, CoreTypeOK, RFrame, serverVars, regVars
  <2> QED
    BY <1>2, <2>2, <2>3 DEF StartResume
<1> QED
  BY <1>1, <1>2

\* The core roundtrip of a sync of the registry.
LEMMA SyncOnType ==
  ASSUME RTypeOK, NEW timed \in BOOLEAN, NEW st \in Seq(RFrame), SyncOn(timed, st),
         UNCHANGED <<mainq, inLoop, regVars, serverVars, emitter>>
  PROVE  RTypeOK'
<1>1. CASE /\ connected
           /\ SendSync(TRUE, timed, Mark, st)
           /\ UNCHANGED <<connected, connects, link, wire>>
  <2>1. /\ lastReq' \in Nat
        /\ toServer' \in Seq(RegistryRequests)
        /\ stack' \in Seq(RFrame)
    BY <1>1, SendSyncType
  <2> QED
    BY <1>1, <2>1 DEF RTypeOK, CoreTypeOK, RFrame, regVars, serverVars
<1>2. CASE /\ Connected
           /\ stack' = Notified(<<Suspension("sync", TRUE, timed)>> \o st)
           /\ UNCHANGED lastReq
  <2>1. stack' \in Seq(RFrame)
    BY <1>2, ConnectingType DEF RegistryFrames, CoreFrames
  <2> QED
    BY <1>2, <2>1 DEF Connected, RTypeOK, CoreTypeOK, RFrame, regVars, serverVars
<1>3. CASE SendFails(st) /\ UNCHANGED <<connected, connects, link, wire>>
  BY <1>3 DEF SendFails, RTypeOK, CoreTypeOK, RFrame, regVars, serverVars
<1> QED
  BY <1>1, <1>2, <1>3 DEF SyncOn

\* A sync of the registry, and its resumption after the start it began with.
LEMMA SyncType ==
  ASSUME RTypeOK, (\E timed \in BOOLEAN : Sync(timed)) \/ RsyncResume
  PROVE  RTypeOK'
<1>1. stack \in Seq(RFrame)
  BY DEF RTypeOK, CoreTypeOK, RFrame
<1>2. ASSUME NEW timed \in BOOLEAN, Sync(timed)
      PROVE  RTypeOK'
  <2>1. CASE running
    BY <1>1, <1>2, <2>1, SyncOnType DEF Sync
  <2>2. CASE ~running
    <3> DEFINE f == Suspension("rsync", TRUE, timed)
    <3>1. f \in RFrame
      BY SuspensionType DEF RegistryFrames
    <3> HIDE DEF f
    <3>2. <<f>> \o stack \in Seq(RFrame)
      BY <1>1, <3>1
    <3> USE DEF f
    <3> QED
      BY <1>2, <2>2, <3>2, StartOnType DEF Sync
  <2> QED
    BY <2>1, <2>2
<1>3. CASE RsyncResume
  BY <1>3, TailType, SyncOnType DEF RsyncResume
<1> QED
  BY <1>2, <1>3

\* The end of a session: generation, running, and the list now or later.
LEMMA EndSessionType ==
  ASSUME RTypeOK, NEW below \in Seq(RFrame), EndSession(below)
  PROVE  /\ stack' \in Seq(RFrame)
         /\ generation' \in Nat
         /\ running' \in BOOLEAN
         /\ globals' \subseteq Entry
<1>1. generation' = generation + 1 /\ running' = FALSE
  BY DEF EndSession
<1>2. generation' \in Nat
  BY <1>1 DEF RTypeOK
<1>3. CASE running
  <2>1. Emit(<<Suspension("clear", FALSE, FALSE)>> \o below) /\ globals' = globals
    BY <1>3 DEF EndSession, Clear
  <2>2. stack' \in Seq(RFrame)
    BY <2>1, SuspendedType DEF RegistryFrames
  <2>3. globals' \subseteq Entry
    BY <2>1 DEF RTypeOK
  <2> QED
    BY <1>1, <1>2, <2>2, <2>3
<1>4. CASE ~running
  <2>1. stack' = below /\ globals' = {}
    BY <1>4 DEF EndSession
  <2> QED
    BY <1>1, <1>2, <2>1
<1> QED
  BY <1>3, <1>4

\* stop(), the reset, and the clearing that both leave for last.
LEMMA StopType ==
  ASSUME RTypeOK, Stop \/ Reset \/ ClearRest
  PROVE  RTypeOK'
<1>0. stack \in Seq(RFrame)
  BY DEF RTypeOK, CoreTypeOK, RFrame
<1>1. CASE Stop
  <2>1. /\ stack' \in Seq(RFrame)
        /\ generation' \in Nat
        /\ running' \in BOOLEAN
        /\ globals' \subseteq Entry
    BY <1>0, <1>1, EndSessionType DEF Stop
  <2>2. \/ registry' = NULL /\ bound' = bound \ {registry} /\ subs' = subs \ {registry}
        \/ registry' = registry /\ bound' = bound /\ subs' = subs
    BY <1>1 DEF Stop
  <2>3. registry' \in Nat
    BY <2>2 DEF RTypeOK, NULL
  <2>4. bound' \subseteq Nat /\ subs' \subseteq Nat
    BY <2>2 DEF RTypeOK
  <2>5. IsFiniteSet(subs')
    BY <2>2, FS_RemoveElement DEF RTypeOK
  <2> QED
    BY <1>1, <2>1, <2>3, <2>4, <2>5 DEF Stop, RTypeOK, CoreTypeOK, RFrame
<1>2. CASE Reset
  <2>1. Tail(stack) \in Seq(RFrame)
    BY <1>2, TailType DEF Reset
  <2>2. CASE connected
    BY <1>2, <2>1, <2>2 DEF Reset, Pop, RTypeOK, CoreTypeOK, RFrame, regVars, serverVars
  <2>3. CASE ~connected
    <3>1. /\ stack' \in Seq(RFrame)
          /\ generation' \in Nat
          /\ running' \in BOOLEAN
          /\ globals' \subseteq Entry
      BY <1>2, <2>1, <2>3, EndSessionType DEF Reset
    <3>2. registry' \in Nat /\ bound' = bound
      BY <1>2, <2>3 DEF Reset, NULL
    <3>3. bound' \subseteq Nat
      BY <3>2 DEF RTypeOK
    <3> QED
      BY <1>2, <3>1, <3>2, <3>3 DEF Reset, RTypeOK, CoreTypeOK, RFrame, serverVars
  <2> QED
    BY <2>2, <2>3
<1>3. CASE ClearRest
  <2>1. Tail(stack) \in Seq(RFrame)
    BY <1>3, TailType DEF ClearRest
  <2> QED
    BY <1>3, <2>1 DEF ClearRest, Pop, RTypeOK, CoreTypeOK, RFrame, serverVars
<1> QED
  BY <1>1, <1>2, <1>3

\* disconnect() suspends itself in the handlers of notify::connected, and
\* an emission in which it was called starts over.
LEMMA DisconnectType ==
  ASSUME RTypeOK, DisconnectCore
  PROVE  RTypeOK'
<1>1. OnConnectedNotify \in RFrame
  BY SuspensionType DEF OnConnectedNotify, RegistryFrames
<1>2. stack \in Seq(RFrame)
  BY DEF RTypeOK, CoreTypeOK, RFrame
<1>3. <<OnConnectedNotify, Notify>> \o stack \in Seq(RFrame)
  BY <1>1, <1>2, NotifyType
<1>4. stack' \in Seq(RFrame)
  BY <1>2, <1>3 DEF DisconnectCore
<1>5. /\ connected' = FALSE /\ link' = FALSE /\ toServer' = <<>> /\ wire' = <<>>
      /\ connects' = connects /\ bound' = {} /\ subs' = {}
  BY DEF DisconnectCore, Disconnected
<1>6. bound' \subseteq Nat /\ subs' \subseteq Nat /\ IsFiniteSet(subs')
  BY <1>5, FS_EmptySet
<1>7. toServer' \in Seq(RegistryRequests) /\ wire' \in Seq(RegistryMessages)
  BY <1>5
<1>8. UNCHANGED <<lastReq, mainq, inLoop>>
  BY DEF DisconnectCore
<1>9. CoreTypeOK(RegistryRequests, RegistryMessages, RegistrySources,
                 RegistryFrames, Marks \cup {NoMark})'
  BY <1>4, <1>5, <1>7, <1>8 DEF RTypeOK, CoreTypeOK, RFrame
<1>10. UNCHANGED <<registry, running, generation, globals, server, serial, emitter>>
  BY DEF DisconnectCore
<1> QED
  BY <1>6, <1>9, <1>10 DEF RTypeOK

LEMMA RestartType ==
  ASSUME RTypeOK, Restart
  PROVE  RTypeOK'
<1>1. OnConnectedNotify \in RFrame
  BY SuspensionType DEF OnConnectedNotify, RegistryFrames
<1>2. stack \in Seq(RFrame)
  BY DEF RTypeOK, CoreTypeOK, RFrame
<1>3. <<OnConnectedNotify>> \o stack \in Seq(RFrame)
  BY <1>1, <1>2
<1>4. stack' \in Seq(RFrame)
  BY <1>3 DEF Restart, Push
<1> QED
  BY <1>4, KeepType DEF Restart, RTypeOK, CoreTypeOK, RFrame

\* Applying an event to the list, on either thread.
LEMMA ApplyEventType ==
  ASSUME RTypeOK, NEW e \in RegistrySources, e.kind \in {"add", "remove"},
         NEW th \in {"main", "loop"}, ApplyEvent(e, th)
  PROVE  /\ stack' \in Seq(RFrame)
         /\ globals' \subseteq Entry
         /\ emitter' \in {"none", "main", "loop"}
<1> DEFINE new == [id |-> e.g.id, serial |-> e.g.serial, from |-> e.from]
<1>1. e \in [kind : {"add", "remove"}, gen : Nat, from : Nat, g : Global]
  BY DEF RegistrySources, CoreSources
<1>2. new \in Entry
  BY <1>1 DEF Entry, Global
<1>3. stack \in Seq(RFrame) /\ globals \subseteq Entry /\ emitter \in {"none", "main", "loop"}
  BY DEF RTypeOK, CoreTypeOK, RFrame
<1> HIDE DEF new
<1>4. stack' = stack \/ Emit(stack)
  BY DEF ApplyEvent
<1>5. stack' \in Seq(RFrame)
  BY <1>3, <1>4, EmitType
<1>6. \/ globals' = globals
      \/ globals' = (globals \ {x \in globals : x.id = e.g.id}) \cup {new}
      \/ globals' = globals \ {x \in globals : x.id = e.g.id}
  BY DEF ApplyEvent, new
<1>7. globals' \subseteq Entry
  BY <1>2, <1>3, <1>6
<1>8. emitter' = emitter \/ emitter' = th
  BY DEF ApplyEvent
<1> QED
  BY <1>3, <1>5, <1>7, <1>8

\* The main context dispatches an event.
LEMMA DispatchEventType ==
  ASSUME RTypeOK, DispatchEvent
  PROVE  RTypeOK'
<1>1. /\ mainq' \in Seq(RegistrySources)
      /\ Head(mainq) \in RegistrySources
      /\ Head(mainq).kind \in {"add", "remove"}
  BY DEF DispatchEvent, RTypeOK, CoreTypeOK
<1>2. ApplyEvent(Head(mainq), "main")
  BY DEF DispatchEvent
<1>3. /\ stack' \in Seq(RFrame)
      /\ globals' \subseteq Entry
      /\ emitter' \in {"none", "main", "loop"}
  BY <1>1, <1>2, ApplyEventType
<1> QED
  BY <1>1, <1>3 DEF DispatchEvent, RTypeOK, CoreTypeOK, RFrame, serverVars

\* The loop thread turns a message into an event, or applies it itself.
LEMMA RegistryLoopStepType ==
  ASSUME RTypeOK, RegistryLoopStep
  PROVE  RTypeOK'
<1> DEFINE m == Head(wire)
           e == [kind |-> m.kind, gen |-> generation, from |-> m.to, g |-> m.g]
<1>1. /\ wire' \in Seq(RegistryMessages)
      /\ m \in RegistryMessages
      /\ m.kind \in {"add", "remove"}
  BY DEF RegistryLoopStep, RTypeOK, CoreTypeOK
<1>2. m \in [kind : {"add", "remove"}, to : Nat, g : Global]
  BY <1>1 DEF RegistryMessages, CoreMessages
<1>3. generation \in Nat
  BY DEF RTypeOK
<1>4. e \in RegistrySources /\ e.kind \in {"add", "remove"}
  BY <1>2, <1>3 DEF RegistrySources
<1>5. \/ mainq' = Append(mainq, e) /\ UNCHANGED <<globals, emitter, stack>>
      \/ ApplyEvent(e, "loop") /\ UNCHANGED mainq
      \/ UNCHANGED <<mainq, globals, emitter, stack>>
  BY DEF RegistryLoopStep, OnGlobal, Invoke
<1> HIDE DEF e
<1>6. \A x \in RegistrySources : Append(mainq, x) \in Seq(RegistrySources)
  BY DEF RTypeOK, CoreTypeOK
<1>7. /\ mainq' \in Seq(RegistrySources)
      /\ stack' \in Seq(RFrame)
      /\ globals' \subseteq Entry
      /\ emitter' \in {"none", "main", "loop"}
  <2>1. CASE mainq' = Append(mainq, e) /\ UNCHANGED <<globals, emitter, stack>>
    BY <1>4, <1>6, <2>1 DEF RTypeOK, CoreTypeOK, RFrame
  <2>2. CASE ApplyEvent(e, "loop") /\ UNCHANGED mainq
    BY <1>4, <2>2, ApplyEventType DEF RTypeOK, CoreTypeOK
  <2>3. CASE UNCHANGED <<mainq, globals, emitter, stack>>
    BY <2>3 DEF RTypeOK, CoreTypeOK, RFrame
  <2> QED
    BY <1>5, <2>1, <2>2, <2>3
<1> QED
  BY <1>1, <1>7 DEF RegistryLoopStep, RTypeOK, CoreTypeOK, RFrame, serverVars

-----------------------------------------------------------------------------
(* The server's steps.                                                     *)

\* The server binds a proxy.
LEMMA ServerBindType ==
  ASSUME RTypeOK, ServerBind
  PROVE  RTypeOK'
<1> DEFINE p == Head(toServer).n
<1>1. /\ toServer' \in Seq(RegistryRequests)
      /\ Head(toServer) \in RegistryRequests
      /\ wire \in Seq(RegistryMessages)
  BY DEF ServerBind, RTypeOK, CoreTypeOK
<1>2. p \in Nat
  BY <1>1 DEF RegistryRequests, CoreRequests
<1>3. CASE p \in bound
  <2>1. PICK s \in Orders(server) :
          wire' = wire \o [i \in DOMAIN s |-> Announce("add", s[i], p)]
    BY <1>3 DEF ServerBind
  <2>2. \A g \in server : Announce("add", g, p) \in RegistryMessages
    BY <1>2 DEF RTypeOK, Announce, RegistryMessages
  <2>3. IsFiniteSet(server)
    BY DEF RTypeOK
  <2>4. Cardinality(server) \in Nat
    BY <2>3, FS_CardinalityType
  <2>5. DOMAIN s = 1..Cardinality(server) /\ \A i \in DOMAIN s : s[i] \in server
    BY DEF Orders
  <2>6. \A i \in DOMAIN s : Announce("add", s[i], p) \in RegistryMessages
    BY <2>2, <2>5
  <2>7. [i \in DOMAIN s |-> Announce("add", s[i], p)] \in Seq(RegistryMessages)
    BY <2>4, <2>5, <2>6
  <2>8. wire' \in Seq(RegistryMessages)
    BY <1>1, <2>1, <2>7
  <2>9. subs' = subs \cup {p}
    BY <1>3 DEF ServerBind
  <2>10. subs' \subseteq Nat
    BY <1>2, <2>9 DEF RTypeOK
  <2>11. IsFiniteSet(subs')
    BY <2>9, FS_AddElement DEF RTypeOK
  <2> QED
    BY <1>1, <2>8, <2>10, <2>11 DEF ServerBind, RTypeOK, CoreTypeOK, RFrame, regVars
<1>4. CASE p \notin bound
  BY <1>1, <1>4 DEF ServerBind, RTypeOK, CoreTypeOK, regVars
<1> QED
  BY <1>3, <1>4

\* A change of the server announced to every proxy, or to none.
LEMMA BroadcastType ==
  ASSUME RTypeOK, NEW kind \in {"add", "remove"}, NEW g \in Global, Broadcast(kind, g)
  PROVE  wire' \in Seq(RegistryMessages)
<1>1. wire \in Seq(RegistryMessages) /\ subs \subseteq Nat /\ IsFiniteSet(subs)
  BY DEF RTypeOK, CoreTypeOK
<1>2. CASE link
  <2>1. PICK s \in Orders(subs) :
          wire' = wire \o [i \in DOMAIN s |-> Announce(kind, g, s[i])]
    BY <1>2 DEF Broadcast
  <2>2. \A p \in subs : Announce(kind, g, p) \in RegistryMessages
    BY <1>1 DEF Announce, RegistryMessages
  <2>3. Cardinality(subs) \in Nat
    BY <1>1, FS_CardinalityType
  <2>4. DOMAIN s = 1..Cardinality(subs) /\ \A i \in DOMAIN s : s[i] \in subs
    BY DEF Orders
  <2>5. \A i \in DOMAIN s : Announce(kind, g, s[i]) \in RegistryMessages
    BY <2>2, <2>4
  <2>6. [i \in DOMAIN s |-> Announce(kind, g, s[i])] \in Seq(RegistryMessages)
    BY <2>3, <2>4, <2>5
  <2> QED
    BY <1>1, <2>1, <2>6
<1>3. CASE ~link
  BY <1>1, <1>3 DEF Broadcast
<1> QED
  BY <1>2, <1>3

\* Globals come and go on the server.
LEMMA ServerChangeType ==
  ASSUME RTypeOK,
         (\E id \in Ids : ServerAdd(id)) \/ (\E g \in server : ServerRemove(g))
  PROVE  RTypeOK'
<1>1. ASSUME NEW id \in Ids, ServerAdd(id)
      PROVE  RTypeOK'
  <2> DEFINE g == [id |-> id, serial |-> serial + 1]
  <2>1. serial + 1 \in Nat
    BY DEF RTypeOK
  <2>2. g \in Global
    BY <2>1 DEF Global
  <2>3. server' = server \cup {g} /\ Broadcast("add", g) /\ serial' = serial + 1
    BY <1>1 DEF ServerAdd
  <2> HIDE DEF g
  <2>4. wire' \in Seq(RegistryMessages)
    BY <2>2, <2>3, BroadcastType
  <2>5. server' \subseteq Global
    BY <2>2, <2>3 DEF RTypeOK
  <2>6. IsFiniteSet(server')
    BY <2>3, FS_AddElement DEF RTypeOK
  <2> QED
    BY <1>1, <2>1, <2>3, <2>4, <2>5, <2>6 DEF ServerAdd, RTypeOK, CoreTypeOK, regVars
<1>2. ASSUME NEW g \in server, ServerRemove(g)
      PROVE  RTypeOK'
  <2>1. g \in Global
    BY DEF RTypeOK
  <2>2. server' = server \ {g} /\ Broadcast("remove", g)
    BY <1>2 DEF ServerRemove
  <2>3. wire' \in Seq(RegistryMessages)
    BY <2>1, <2>2, BroadcastType
  <2>4. server' \subseteq Global
    BY <2>2 DEF RTypeOK
  <2>5. IsFiniteSet(server')
    BY <2>2, FS_RemoveElement DEF RTypeOK
  <2> QED
    BY <1>2, <2>3, <2>4, <2>5 DEF ServerRemove, RTypeOK, CoreTypeOK, regVars
<1> QED
  BY <1>1, <1>2

\* Every step of the registry keeps every variable in its type.
LEMMA RTypeStep ==
  ASSUME RTypeOK, RNext
  PROVE  RTypeOK'
<1>1. CASE Keep(Connect) \/ Keep(AppSource) \/ Keep(ToggleLoop)
  BY <1>1, ApplicationType
<1>2. CASE DisconnectCore
  BY <1>2, DisconnectType
<1>3. CASE Start \/ StartResume
  BY <1>3, StartResumeType
<1>4. CASE (\E timed \in BOOLEAN : Sync(timed)) \/ RsyncResume
  BY <1>4, SyncType
<1>5. CASE Stop \/ Reset \/ ClearRest
  BY <1>5, StopType
<1>6. CASE Keep(SyncResume(Mark))
  BY <1>6, SyncResumeType
<1>7. CASE Keep(SyncWake)
  BY <1>7, SyncWakeType
<1>8. CASE \/ Keep(DrainEnd) \/ Keep(SyncTimeout) \/ Keep(HandlerReturn)
           \/ Keep(NotifyReturn)
  BY <1>8, DrainEndType
<1>9. CASE Keep(DispatchToken)
  BY <1>9, DispatchTokenType
<1>10. CASE DispatchEvent
  BY <1>10, DispatchEventType
<1>11. CASE Keep(ServerStep) \/ Keep(LinkBreaks)
  BY <1>11, ServerStepType
<1>12. CASE ServerBind
  BY <1>12, ServerBindType
<1>13. CASE Keep(LoopStep)
  BY <1>13, LoopStepType
<1>14. CASE RegistryLoopStep
  BY <1>14, RegistryLoopStepType
<1>15. CASE (\E id \in Ids : ServerAdd(id)) \/ (\E g \in server : ServerRemove(g))
  BY <1>15, ServerChangeType
<1>16. CASE Restart
  BY <1>16, RestartType
<1> QED
  BY <1>1, <1>2, <1>3, <1>4, <1>5, <1>6, <1>7, <1>8, <1>9, <1>10, <1>11, <1>12,
     <1>13, <1>14, <1>15, <1>16
  DEF RNext, RMainStep, Dispatch, RServerStep, RLoopStep

\* Every variable has its type in every reachable state: frames stay well
\* formed however the handlers of signals nest their calls, and the proxy,
\* the list and the subscriptions hold what the code stores in them.
THEOREM RTypeCorrect == RSpec => []RTypeOK
<1>1. RInit => RTypeOK
  <2> SUFFICES ASSUME RInit PROVE RTypeOK
    OBVIOUS
  <2>1. /\ connected \in BOOLEAN /\ connects \in Nat /\ link \in BOOLEAN
        /\ lastReq \in Nat /\ inLoop \in BOOLEAN
    BY DEF RInit, Init
  <2>2. /\ toServer = <<>> /\ wire = <<>> /\ mainq = <<>> /\ stack = <<>>
    BY DEF RInit, Init
  <2>3. CoreTypeOK(RegistryRequests, RegistryMessages, RegistrySources,
                   RegistryFrames, Marks \cup {NoMark})
    BY <2>1, <2>2 DEF CoreTypeOK
  <2> QED
    BY <2>3, FS_EmptySet DEF RInit, RTypeOK, NULL
<1>2. RTypeOK /\ [RNext]_vars => RTypeOK'
  <2>1. CASE RTypeOK /\ RNext
    BY <2>1, RTypeStep
  <2>2. CASE RTypeOK /\ UNCHANGED vars
    BY <2>2 DEF RTypeOK, CoreTypeOK, vars, coreVars, regVars, serverVars
  <2> QED
    BY <2>1, <2>2
<1> QED
  BY <1>1, <1>2, PTL DEF RSpec


-----------------------------------------------------------------------------
(* Which calls are suspended on a stack.                                   *)

\* A pushed frame, and the frames already there.
LEMMA PushOps ==
  ASSUME NEW st \in Seq(RFrame), NEW f \in RFrame, NEW op
  PROVE  /\ HasOp(<<f>> \o st, op) <=> f.op = op \/ HasOp(st, op)
         /\ Single(st, op) /\ (f.op # op \/ ~HasOp(st, op)) => Single(<<f>> \o st, op)
<1> DEFINE s == <<f>> \o st
<1>1. s \in Seq(RFrame) /\ Len(s) = Len(st) + 1 /\ s[1] = f
  OBVIOUS
<1>2. \A i \in DOMAIN st : i + 1 \in DOMAIN s /\ s[i + 1] = st[i]
  OBVIOUS
<1>3. \A i \in DOMAIN s : i = 1 \/ (i - 1 \in DOMAIN st /\ s[i] = st[i - 1])
  OBVIOUS
<1> HIDE DEF s
<1>4. 1 \in DOMAIN s
  BY <1>1
<1>5. HasOp(s, op) <=> f.op = op \/ HasOp(st, op)
  BY <1>1, <1>2, <1>3, <1>4 DEF HasOp
<1>6. ASSUME Single(st, op), f.op # op \/ ~HasOp(st, op)
      PROVE  Single(s, op)
  <2> SUFFICES ASSUME NEW i \in DOMAIN s, NEW j \in DOMAIN s,
                      s[i].op = op, s[j].op = op
               PROVE  i = j
    BY DEF Single
  <2>1. CASE i = 1 /\ j = 1
    BY <2>1
  <2>2. CASE i # 1 /\ j # 1
    <3>1. i - 1 \in DOMAIN st /\ j - 1 \in DOMAIN st /\ st[i - 1].op = op /\ st[j - 1].op = op
      BY <1>3, <2>2
    <3>2. i - 1 = j - 1
      BY <1>6, <3>1 DEF Single
    <3>3. i \in Int /\ j \in Int
      BY <1>1
    <3> QED
      BY <3>2, <3>3
  <2>3. CASE i = 1 /\ j # 1
    BY <1>1, <1>3, <1>6, <2>3 DEF HasOp
  <2>4. CASE i # 1 /\ j = 1
    BY <1>1, <1>3, <1>6, <2>4 DEF HasOp
  <2> QED
    BY <2>1, <2>2, <2>3, <2>4
<1> QED
  BY <1>5, <1>6 DEF s

\* The innermost frame, and the frames under it.
LEMMA PopOps ==
  ASSUME NEW st \in Seq(RFrame), st # <<>>, NEW op
  PROVE  /\ HasOp(st, op) <=> Head(st).op = op \/ HasOp(Tail(st), op)
         /\ Single(st, op) => /\ Single(Tail(st), op)
                              /\ Head(st).op = op => ~HasOp(Tail(st), op)
<1> DEFINE t == Tail(st)
<1>1. /\ t \in Seq(RFrame) /\ Len(st) = Len(t) + 1 /\ Head(st) = st[1]
      /\ Len(t) \in Nat /\ DOMAIN t = 1..Len(t) /\ DOMAIN st = 1..Len(st)
  OBVIOUS
<1>2. \A i \in DOMAIN t : t[i] = st[i + 1]
  OBVIOUS
<1> HIDE DEF t
<1>3. \A i \in DOMAIN t : i + 1 \in DOMAIN st /\ i + 1 # 1
  BY <1>1
<1>4. \A i \in DOMAIN st : i = 1 \/ (i - 1 \in DOMAIN t /\ st[i] = t[i - 1])
  <2> TAKE i \in DOMAIN st
  <2>1. i \in Int /\ 1 <= i /\ i <= Len(t) + 1
    BY <1>1
  <2>2. i # 1 => i - 1 \in DOMAIN t /\ (i - 1) + 1 = i
    BY <1>1, <2>1
  <2> QED
    BY <1>2, <2>2
<1>5. 1 \in DOMAIN st
  BY <1>1
<1>6. HasOp(st, op) <=> Head(st).op = op \/ HasOp(t, op)
  BY <1>1, <1>2, <1>3, <1>4, <1>5 DEF HasOp
<1>7. ASSUME Single(st, op)
      PROVE  Single(t, op) /\ (Head(st).op = op => ~HasOp(t, op))
  <2>1. ASSUME NEW i \in DOMAIN t, NEW j \in DOMAIN t, t[i].op = op, t[j].op = op
        PROVE  i = j
    <3>1. i + 1 = j + 1
      BY <1>2, <1>3, <1>7, <2>1 DEF Single
    <3>2. i \in Int /\ j \in Int
      BY <1>1
    <3> QED
      BY <3>1, <3>2
  <2>2. ASSUME Head(st).op = op, NEW i \in DOMAIN t, t[i].op = op
        PROVE  FALSE
    BY <1>1, <1>2, <1>3, <1>5, <1>7, <2>2 DEF Single
  <2> QED
    BY <2>1, <2>2 DEF Single, HasOp
<1> QED
  BY <1>6, <1>7 DEF t

\* Frames of handlers suspend nothing of a registry.
LEMMA EmitOps ==
  ASSUME NEW rest \in Seq(RFrame), Emit(rest), NEW op \in {"start", "clear", "reset"}
  PROVE  /\ HasOp(stack', op) <=> HasOp(rest, op)
         /\ Single(rest, op) => Single(stack', op)
<1>1. PICK h \in Handlers : stack' = h \o rest
  BY DEF Emit
<1>2. CASE h = <<>>
  <2>1. stack' = rest
    BY <1>1, <1>2
  <2> QED
    BY <2>1
<1>3. CASE h = <<App>>
  <2>1. App.op # op
    BY DEF App, Suspension, Frame
  <2>2. stack' = <<App>> \o rest
    BY <1>1, <1>3
  <2> QED
    BY <2>1, <2>2, AppType, PushOps
<1> QED
  BY <1>1, <1>2, <1>3 DEF Handlers

\* Nor does the frame of an emission of notify::connected.
LEMMA NotifiedOps ==
  ASSUME NEW rest \in Seq(RFrame), stack' = Notified(rest),
         NEW op \in {"start", "clear", "reset"}
  PROVE  /\ HasOp(stack', op) <=> HasOp(rest, op)
         /\ Single(rest, op) => Single(stack', op)
<1>1. stack' = rest \/ stack' = <<Notify>> \o rest
  BY NotifiedType
<1>2. Notify.op # op
  BY DEF Notify, Suspension, Frame
<1>3. CASE stack' = rest
  BY <1>3
<1>4. CASE stack' = <<Notify>> \o rest
  BY <1>2, <1>4, NotifyType, PushOps
<1> QED
  BY <1>1, <1>3, <1>4

\* What a step that neither begins nor ends a call of the registry leaves.
SameOps(before, after) ==
  \A op \in {"start", "clear"} :
    /\ HasOp(after, op) <=> HasOp(before, op)
    /\ Single(before, op) => Single(after, op)

-----------------------------------------------------------------------------
(* Steps that leave the session alone.                                     *)

\* The invariant survives a step that changes neither the session nor its
\* suspended calls, adds no event of its own and revives no proxy.
LEMMA QuietStep ==
  ASSUME SessionInv,
         UNCHANGED <<registry, running, generation, globals>>,
         SameOps(stack, stack'),
         bound' = bound \/ bound' = {},
         connected' \/ connected' = connected \/ bound' = {},
         \A i \in DOMAIN mainq' : mainq'[i].kind # "token" =>
           \E j \in DOMAIN mainq : mainq[j] = mainq'[i]
  PROVE  SessionInv'
<1>1. SessionIsolation'
  BY DEF SessionInv, SessionIsolation, SameOps, HasOp
<1>2. EventsOfSession'
  BY DEF SessionInv, EventsOfSession
<1>3. ProxyOfSession'
  BY DEF SessionInv, ProxyOfSession
<1>4. StartIsFresh'
  BY DEF SessionInv, StartIsFresh, SameOps
<1>5. ClearIsIdle'
  BY DEF SessionInv, ClearIsIdle, SameOps
<1> QED
  BY <1>1, <1>2, <1>3, <1>4, <1>5 DEF SessionInv

\* A stack that does not change.
LEMMA SameStack ==
  ASSUME stack' = stack
  PROVE  SameOps(stack, stack')
BY DEF SameOps

\* A frame of another kind pushed.
LEMMA PushQuiet ==
  ASSUME NEW st \in Seq(RFrame), NEW f \in RFrame, f.op \notin {"start", "clear"}
  PROVE  SameOps(st, <<f>> \o st)
BY PushOps DEF SameOps

\* A frame of another kind popped.
LEMMA PopQuiet ==
  ASSUME NEW st \in Seq(RFrame), st # <<>>, Head(st).op \notin {"start", "clear"}
  PROVE  SameOps(st, Tail(st))
BY PopOps DEF SameOps

\* One after the other.
LEMMA OpsTransitive ==
  ASSUME NEW a, NEW b, NEW c, SameOps(a, b), SameOps(b, c)
  PROVE  SameOps(a, c)
BY DEF SameOps

\* The innermost frame replaced by another, neither being of those kinds.
LEMMA ReplaceQuiet ==
  ASSUME NEW st \in Seq(RFrame), st # <<>>, Head(st).op \notin {"start", "clear"},
         NEW f \in RFrame, f.op \notin {"start", "clear"}
  PROVE  SameOps(st, <<f>> \o Tail(st))
<1>1. Tail(st) \in Seq(RFrame)
  OBVIOUS
<1>2. SameOps(st, Tail(st))
  BY PopQuiet
<1>3. SameOps(Tail(st), <<f>> \o Tail(st))
  BY <1>1, PushQuiet
<1> QED
  BY <1>2, <1>3, OpsTransitive

\* A handler begins on the same calls.
LEMMA EmitQuiet ==
  ASSUME NEW rest \in Seq(RFrame), Emit(rest)
  PROVE  SameOps(rest, stack')
BY EmitOps DEF SameOps

LEMMA NotifiedQuiet ==
  ASSUME NEW rest \in Seq(RFrame), stack' = Notified(rest)
  PROVE  SameOps(rest, stack')
BY NotifiedOps DEF SameOps

-----------------------------------------------------------------------------
(* The steps of Core.                                                      *)

\* Sources that stay attached, or are dispatched, or are tokens.
LEMMA QueueTail ==
  ASSUME RTypeOK, mainq # <<>>, mainq' = Tail(mainq)
  PROVE  \A i \in DOMAIN mainq' : mainq'[i].kind # "token" =>
           \E j \in DOMAIN mainq : mainq[j] = mainq'[i]
<1>1. mainq \in Seq(RegistrySources)
  BY DEF RTypeOK, CoreTypeOK
<1>2. \A i \in DOMAIN mainq' : i + 1 \in DOMAIN mainq /\ mainq[i + 1] = mainq'[i]
  BY <1>1
<1> QED
  BY <1>2

\* A source attached last.
LEMMA QueueAppend ==
  ASSUME RTypeOK, NEW e \in RegistrySources, mainq' = Append(mainq, e)
  PROVE  \A i \in DOMAIN mainq' :
           mainq'[i] = e \/ \E j \in DOMAIN mainq : mainq[j] = mainq'[i]
<1>1. mainq \in Seq(RegistrySources)
  BY DEF RTypeOK, CoreTypeOK
<1>2. \A i \in DOMAIN mainq' : mainq'[i] = e \/ (i \in DOMAIN mainq /\ mainq[i] = mainq'[i])
  BY <1>1
<1> QED
  BY <1>2

\* Steps of the server and of the application's main loop.
LEMMA ElsewhereSession ==
  ASSUME SessionInv,
         UNCHANGED <<registry, running, generation, globals, bound, connected, mainq, stack>>
  PROVE  SessionInv'
BY SameStack, QuietStep

\* A handler or a call of the application begins.
LEMMA PushSession ==
  ASSUME RTypeOK, SessionInv, Keep(Connect) \/ Keep(AppSource)
  PROVE  SessionInv'
<1>1. /\ UNCHANGED <<registry, running, generation, globals, bound, mainq>>
      /\ connected' \/ connected' = connected
      /\ stack' = <<App>> \o stack \/ stack' = Notified(stack)
  BY DEF Keep, Connect, Connected, AppSource, Push, regVars
<1>2. SameOps(stack, stack')
  <2>1. App.op \notin {"start", "clear"}
    BY DEF App, Suspension, Frame
  <2>2. stack \in Seq(RFrame)
    BY DEF RTypeOK, CoreTypeOK, RFrame
  <2> QED
    BY <1>1, <2>1, <2>2, AppType, PushQuiet, NotifiedQuiet
<1> QED
  BY <1>1, <1>2, QuietStep

\* A call of the core returns, or a handler does.
LEMMA PopSession ==
  ASSUME RTypeOK, SessionInv, NEW op \in {"app", "notify", "wait", "drain", "sync", "reset"},
         TopIs(op), Pop,
         UNCHANGED <<registry, running, generation, globals, bound, connected, mainq>>
  PROVE  SessionInv'
<1>1. stack \in Seq(RFrame) /\ stack # <<>> /\ Head(stack).op \notin {"start", "clear"}
  BY TailType DEF TopIs
<1>2. SameOps(stack, stack')
  BY <1>1, PopQuiet DEF Pop
<1> QED
  BY <1>2, QuietStep

\* The frame of the innermost call of the core is updated.
LEMMA SetTopSession ==
  ASSUME RTypeOK, SessionInv, NEW op \in {"wait", "sync"}, TopIs(op),
         NEW f \in RFrame, f.op \notin {"start", "clear"}, SetTop(f),
         UNCHANGED <<registry, running, generation, globals, bound, connected>>,
         \A i \in DOMAIN mainq' : mainq'[i].kind # "token" =>
           \E j \in DOMAIN mainq : mainq[j] = mainq'[i]
  PROVE  SessionInv'
<1>1. stack \in Seq(RFrame) /\ stack # <<>> /\ Head(stack).op \notin {"start", "clear"}
  BY TailType DEF TopIs
<1>2. SameOps(stack, stack')
  BY <1>1, ReplaceQuiet DEF SetTop
<1> QED
  BY <1>2, QuietStep

\* The wait of a sync begins, and the wait of a sync ends.
LEMMA SyncSession ==
  ASSUME RTypeOK, SessionInv, Keep(SyncResume(Mark)) \/ Keep(SyncWake)
  PROVE  SessionInv'
<1>0. UNCHANGED <<registry, running, generation, globals, bound, connected, mainq>>
  BY DEF Keep, SyncResume, SyncWake, regVars
<1>1. CASE Keep(SyncResume(Mark))
  <2>1. TopIs("sync")
    BY <1>1 DEF Keep, SyncResume
  <2>2. CASE SendSync(Head(stack).ctx, Head(stack).timed, Mark, Tail(stack))
    <3> DEFINE f == Frame("wait", lastReq + 1, Head(stack).ctx, Head(stack).timed, Mark)
    <3>1. lastReq + 1 \in Nat /\ Mark \in Marks
      BY DEF RTypeOK, CoreTypeOK, Mark, Marks
    <3>2. Head(stack).ctx \in BOOLEAN /\ Head(stack).timed \in BOOLEAN
      BY <2>1, TailType
    <3>3. f \in RFrame /\ f.op = "wait"
      BY <3>1, <3>2 DEF Frame, RFrame, FrameType, RegistryFrames, CoreFrames
    <3>4. SetTop(f)
      BY <2>2 DEF SendSync, SetTop
    <3> HIDE DEF f
    <3> QED
      BY <1>0, <2>1, <3>3, <3>4, SetTopSession
  <2>3. CASE SendFails(Tail(stack))
    BY <1>0, <2>1, <2>3, PopSession DEF SendFails, Pop
  <2> QED
    BY <1>1, <2>2, <2>3 DEF Keep, SyncResume
<1>2. CASE Keep(SyncWake)
  <2>1. TopIs("wait")
    BY <1>2 DEF Keep, SyncWake
  <2>2. CASE Pop
    BY <1>0, <2>1, <2>2, PopSession
  <2>3. CASE SetTop([Head(stack) EXCEPT !.op = "drain"])
    <3>1. /\ [Head(stack) EXCEPT !.op = "drain"] \in RFrame
          /\ [Head(stack) EXCEPT !.op = "drain"].op = "drain"
      BY <2>1, TailType DEF RFrame, FrameType, RegistryFrames, CoreFrames
    <3> QED
      BY <1>0, <2>1, <2>3, <3>1, SetTopSession
  <2> QED
    BY <1>2, <2>2, <2>3 DEF Keep, SyncWake
<1> QED
  BY <1>1, <1>2

\* The answer to a sync: a mark in its frame, a token in the main context.
LEMMA LoopSession ==
  ASSUME RTypeOK, SessionInv, Keep(LoopStep)
  PROVE  SessionInv'
<1> DEFINE m == Head(wire)
<1>1. UNCHANGED <<registry, running, generation, globals, bound, connected>>
  BY DEF Keep, LoopStep, regVars
<1>2. m \in RegistryMessages
  BY DEF Keep, LoopStep, RTypeOK, CoreTypeOK
<1>3. CASE m.kind = "done" /\ OnDone(m.n)
  <2>1. Token(m.n) \in RegistrySources /\ Token(m.n).kind = "token"
    BY <1>2, <1>3 DEF RegistryMessages, CoreMessages, Token, RegistrySources, CoreSources
  <2>2. mainq' = mainq \/ mainq' = Append(mainq, Token(m.n))
    BY <1>3 DEF OnDone
  <2>3. \A i \in DOMAIN mainq' : mainq'[i].kind # "token" =>
          \E j \in DOMAIN mainq : mainq[j] = mainq'[i]
    BY <2>1, <2>2, QueueAppend
  <2>4. CASE Waiting(m.n)
    <3>1. /\ TopIs("wait") /\ Head(stack).op = "wait"
          /\ [Head(stack) EXCEPT !.done = TRUE] \in RFrame
          /\ [Head(stack) EXCEPT !.done = TRUE].op = "wait"
      BY <2>4, TailType DEF Waiting, TopIs, RFrame, FrameType
    <3>2. SetTop([Head(stack) EXCEPT !.done = TRUE])
      BY <1>3, <2>4 DEF OnDone
    <3> QED
      BY <1>1, <2>3, <3>1, <3>2, SetTopSession
  <2>5. CASE ~Waiting(m.n)
    BY <1>1, <1>3, <2>5, ElsewhereSession DEF OnDone
  <2> QED
    BY <2>4, <2>5
<1>4. CASE m.kind = "error" /\ OnError(m.n)
  <2>1. mainq' = mainq
    BY <1>4 DEF OnError
  <2>2. CASE Waiting(m.n)
    <3>1. /\ TopIs("wait") /\ Head(stack).op = "wait"
          /\ [Head(stack) EXCEPT !.err = TRUE] \in RFrame
          /\ [Head(stack) EXCEPT !.err = TRUE].op = "wait"
      BY <2>2, TailType DEF Waiting, TopIs, RFrame, FrameType
    <3>2. SetTop([Head(stack) EXCEPT !.err = TRUE])
      BY <1>4, <2>2 DEF OnError
    <3> QED
      BY <1>1, <2>1, <3>1, <3>2, SetTopSession
  <2>3. CASE ~Waiting(m.n)
    BY <1>1, <1>4, <2>1, <2>3, ElsewhereSession DEF OnError
  <2> QED
    BY <2>2, <2>3
<1> QED
  BY <1>3, <1>4 DEF Keep, LoopStep

\* The token's mark alters no frame's kind.
LEMMA MarkedOps ==
  ASSUME stack \in Seq(RFrame), NEW n, MarkDrained(n)
  PROVE  DOMAIN stack' = DOMAIN stack /\ \A i \in DOMAIN stack : stack'[i].op = stack[i].op
<1>1. CASE OnStack(n)
  <2> DEFINE k == FrameOf(n)
  <2>1. k \in DOMAIN stack
    BY <1>1 DEF OnStack, FrameOf
  <2>2. stack' = [stack EXCEPT ![k].mdone = TRUE]
    BY <1>1 DEF MarkDrained
  <2> HIDE DEF k
  <2>3. stack[k] \in RFrame
    BY <2>1
  <2>4. [stack[k] EXCEPT !.mdone = TRUE].op = stack[k].op
    BY <2>3 DEF RFrame, FrameType
  <2> QED
    BY <2>1, <2>2, <2>4
<1>2. CASE ~OnStack(n)
  BY <1>2 DEF MarkDrained
<1> QED
  BY <1>1, <1>2

\* A token marks a frame, whatever calls are suspended above it.
LEMMA TokenSession ==
  ASSUME RTypeOK, SessionInv, Keep(DispatchToken)
  PROVE  SessionInv'
<1> DEFINE n == Head(mainq).n
<1>1. /\ UNCHANGED <<registry, running, generation, globals, bound, connected>>
      /\ mainq # <<>> /\ mainq' = Tail(mainq)
  BY DEF Keep, DispatchToken, regVars
<1>2. stack \in Seq(RFrame)
  BY DEF RTypeOK, CoreTypeOK, RFrame
<1>3. DOMAIN stack' = DOMAIN stack /\ \A i \in DOMAIN stack : stack'[i].op = stack[i].op
  BY <1>2, MarkedOps DEF Keep, DispatchToken
<1>4. SameOps(stack, stack')
  BY <1>3 DEF SameOps, HasOp, Single
<1> QED
  BY <1>1, <1>4, QueueTail, QuietStep

-----------------------------------------------------------------------------
(* Sessions begin.                                                         *)

\* A session opens over an empty list, in a generation of which no event is
\* queued, with no other proxy alive and no other start suspended.
LEMMA BindSession ==
  ASSUME RTypeOK, SessionInv, ~running, globals = {}, connected,
         NEW below \in Seq(RFrame), ~HasOp(below, "start"), ~HasOp(below, "clear"),
         Bind(below), UNCHANGED <<mainq, connected>>
  PROVE  SessionInv'
<1>1. /\ running' = TRUE /\ globals' = {} /\ generation' = generation + 1
      /\ registry' = lastReq + 1 /\ bound' = bound \cup {lastReq + 1}
      /\ Emit(below)
  BY DEF Bind
<1>2. SessionIsolation'
  BY <1>1 DEF SessionIsolation
<1>3. EventsOfSession'
  <2>1. \A i \in DOMAIN mainq : mainq[i].kind # "token" =>
          mainq[i].gen \in Nat /\ mainq[i].gen <= generation
    <3>1. mainq \in Seq(RegistrySources)
      BY DEF RTypeOK, CoreTypeOK
    <3>2. \A i \in DOMAIN mainq : mainq[i] \in RegistrySources
      BY <3>1
    <3>3. \A x \in RegistrySources : x.kind # "token" => x.gen \in Nat
      BY DEF RegistrySources, CoreSources
    <3> QED
      BY <3>2, <3>3 DEF SessionInv, EventsOfSession
  <2>2. generation \in Nat
    BY DEF RTypeOK
  <2> QED
    BY <1>1, <2>1, <2>2 DEF EventsOfSession
<1>4. ProxyOfSession'
  BY <1>1 DEF SessionInv, ProxyOfSession
<1>5. StartIsFresh' /\ ClearIsIdle'
  <2>1. ~HasOp(stack', "start") /\ ~HasOp(stack', "clear")
    BY <1>1, EmitOps
  <2> QED
    BY <2>1 DEF StartIsFresh, ClearIsIdle, HasOp, Single
<1> QED
  BY <1>2, <1>3, <1>4, <1>5 DEF SessionInv

\* No session, and none begins: whatever became of the proxy.
LEMMA IdleSession ==
  ASSUME SessionInv, ~running, globals = {}, connected' \/ connected' = connected,
         UNCHANGED <<running, generation, globals, bound, mainq>>,
         Single(stack', "start"), ~HasOp(stack', "clear")
  PROVE  SessionInv'
<1>1. bound = {}
  BY DEF SessionInv, ProxyOfSession
<1>2. SessionIsolation'
  BY DEF SessionIsolation
<1>3. EventsOfSession'
  BY DEF SessionInv, EventsOfSession
<1>4. ProxyOfSession'
  BY <1>1 DEF ProxyOfSession
<1>5. StartIsFresh' /\ ClearIsIdle'
  BY DEF StartIsFresh, ClearIsIdle
<1> QED
  BY <1>2, <1>3, <1>4, <1>5 DEF SessionInv

\* What a failed start leaves on the stack.
LEMMA FailedOps ==
  ASSUME NEW st \in Seq(RFrame), Failed(st), Single(st, "start"), ~HasOp(st, "clear")
  PROVE  Single(stack', "start") /\ ~HasOp(stack', "clear")
<1>1. CASE st # <<>> /\ Head(st).op = "rsync"
  BY <1>1, PopOps DEF Failed
<1>2. CASE ~(st # <<>> /\ Head(st).op = "rsync")
  BY <1>2 DEF Failed
<1> QED
  BY <1>1, <1>2

\* A start called when no start or stop is suspended.
LEMMA StartOnSession ==
  ASSUME RTypeOK, SessionInv, ~running, globals = {},
         NEW st \in Seq(RFrame), ~HasOp(st, "start"), ~HasOp(st, "clear"),
         StartOn(st), UNCHANGED mainq
  PROVE  SessionInv'
<1>0. Single(st, "start")
  BY DEF Single, HasOp
<1>1. CASE connected /\ Bind(st) /\ UNCHANGED connected
  BY <1>1, BindSession
<1>2. CASE connected /\ BindFails(st) /\ UNCHANGED connected
  <2>1. /\ UNCHANGED <<running, generation, globals, bound>>
        /\ Single(stack', "start") /\ ~HasOp(stack', "clear")
    BY <1>0, <1>2, FailedOps DEF BindFails
  <2> QED
    BY <1>2, <2>1, IdleSession
<1>3. CASE /\ Connected
           /\ stack' = Notified(<<Suspension("start", FALSE, FALSE)>> \o st)
           /\ UNCHANGED regVars
  <2> DEFINE f == Suspension("start", FALSE, FALSE)
  <2>1. f \in RFrame /\ f.op = "start"
    BY SuspensionType DEF RegistryFrames, Suspension, Frame
  <2>2. stack' = Notified(<<f>> \o st)
    BY <1>3
  <2> HIDE DEF f
  <2>3. <<f>> \o st \in Seq(RFrame)
    BY <2>1
  <2>4. Single(<<f>> \o st, "start") /\ ~HasOp(<<f>> \o st, "clear")
    BY <1>0, <2>1, PushOps
  <2>5. Single(stack', "start") /\ ~HasOp(stack', "clear")
    BY <2>2, <2>3, <2>4, NotifiedOps
  <2>6. connected' /\ UNCHANGED <<running, generation, globals, bound>>
    BY <1>3 DEF Connected, regVars
  <2> QED
    BY <2>5, <2>6, IdleSession
<1> QED
  BY <1>1, <1>2, <1>3 DEF StartOn

\* No handler has got in between: the list of the last session is cleared.
LEMMA NotSuspended ==
  ASSUME SessionInv, ~Suspended, ~running
  PROVE  globals = {} /\ ~HasOp(stack, "start") /\ ~HasOp(stack, "clear")
BY DEF SessionInv, SessionIsolation, Suspended, HasOp

\* start(), and its continuation after the handlers of notify::connected.
LEMMA StartSession ==
  ASSUME ~Interrupts, RTypeOK, SessionInv, Start \/ StartResume
  PROVE  SessionInv'
<1>0. stack \in Seq(RFrame)
  BY DEF RTypeOK, CoreTypeOK, RFrame
<1>1. CASE Start
  <2>1. ~Suspended /\ ~running /\ StartOn(stack) /\ UNCHANGED mainq
    BY <1>1 DEF Start
  <2> QED
    BY <1>0, <2>1, NotSuspended, StartOnSession
<1>2. CASE StartResume
  <2>1. TopIs("start") /\ UNCHANGED <<connected, mainq>>
    BY <1>2 DEF StartResume
  <2>2. stack # <<>> /\ Head(stack).op = "start" /\ Tail(stack) \in Seq(RFrame)
    BY <2>1, TailType DEF TopIs
  <2>3. /\ HasOp(stack, "start") /\ ~HasOp(Tail(stack), "start")
        /\ Single(Tail(stack), "start") /\ ~HasOp(Tail(stack), "clear")
    BY <1>0, <2>2, PopOps DEF SessionInv, StartIsFresh, ClearIsIdle
  <2>4. ~running /\ globals = {}
    BY <2>3 DEF SessionInv, StartIsFresh
  <2>5. CASE connected /\ Bind(Tail(stack))
    BY <2>1, <2>2, <2>3, <2>4, <2>5, BindSession
  <2>6. CASE connected /\ BindFails(Tail(stack))
    <3>1. /\ UNCHANGED <<running, generation, globals, bound>>
          /\ Single(stack', "start") /\ ~HasOp(stack', "clear")
      BY <2>2, <2>3, <2>6, FailedOps DEF BindFails
    <3> QED
      BY <2>1, <2>4, <3>1, IdleSession
  <2>7. CASE Failed(Tail(stack)) /\ UNCHANGED regVars
    <3>1. /\ UNCHANGED <<running, generation, globals, bound>>
          /\ Single(stack', "start") /\ ~HasOp(stack', "clear")
      BY <2>2, <2>3, <2>7, FailedOps DEF regVars
    <3> QED
      BY <2>1, <2>4, <3>1, IdleSession
  <2> QED
    BY <1>2, <2>5, <2>6, <2>7 DEF StartResume
<1> QED
  BY <1>1, <1>2

\* The roundtrip of sync() concerns no session.
LEMMA SyncOnSession ==
  ASSUME RTypeOK, SessionInv, NEW timed \in BOOLEAN, NEW st \in Seq(RFrame),
         SameOps(stack, st), SyncOn(timed, st), UNCHANGED <<mainq, regVars>>
  PROVE  SessionInv'
<1>1. UNCHANGED <<registry, running, generation, globals, bound>>
  BY DEF regVars
<1>2. CASE SendSync(TRUE, timed, Mark, st) /\ UNCHANGED connected
  <2> DEFINE f == Frame("wait", lastReq + 1, TRUE, timed, Mark)
  <2>1. lastReq + 1 \in Nat /\ Mark \in Marks
    BY DEF RTypeOK, CoreTypeOK, Mark, Marks
  <2>2. f \in RFrame /\ f.op = "wait"
    BY <2>1 DEF Frame, RFrame, FrameType, RegistryFrames, CoreFrames
  <2>3. stack' = <<f>> \o st
    BY <1>2 DEF SendSync
  <2> HIDE DEF f
  <2>4. SameOps(stack, stack')
    BY <2>2, <2>3, PushQuiet, OpsTransitive
  <2> QED
    BY <1>1, <1>2, <2>4, QuietStep
<1>3. CASE SendFails(st) /\ UNCHANGED connected
  <2>1. SameOps(stack, stack')
    BY <1>3 DEF SendFails
  <2> QED
    BY <1>1, <1>3, <2>1, QuietStep
<1>4. CASE Connected /\ stack' = Notified(<<Suspension("sync", TRUE, timed)>> \o st)
  <2> DEFINE f == Suspension("sync", TRUE, timed)
  <2>1. f \in RFrame /\ f.op = "sync"
    BY SuspensionType DEF RegistryFrames, CoreFrames, Suspension, Frame
  <2>2. stack' = Notified(<<f>> \o st) /\ connected'
    BY <1>4 DEF Connected
  <2> HIDE DEF f
  <2>3. <<f>> \o st \in Seq(RFrame)
    BY <2>1
  <2>4. SameOps(stack, <<f>> \o st)
    BY <2>1, PushQuiet, OpsTransitive
  <2>5. SameOps(stack, stack')
    BY <2>2, <2>3, <2>4, NotifiedQuiet, OpsTransitive
  <2> QED
    BY <1>1, <2>2, <2>5, QuietStep
<1> QED
  BY <1>2, <1>3, <1>4 DEF SyncOn

\* sync(), with the start it may need.
LEMMA RegistrySyncSession ==
  ASSUME ~Interrupts, RTypeOK, SessionInv,
         (\E timed \in BOOLEAN : Sync(timed)) \/ RsyncResume
  PROVE  SessionInv'
<1>0. stack \in Seq(RFrame)
  BY DEF RTypeOK, CoreTypeOK, RFrame
<1>1. ASSUME NEW timed \in BOOLEAN, Sync(timed)
      PROVE  SessionInv'
  <2>1. CASE running
    <3>1. SyncOn(timed, stack) /\ UNCHANGED <<mainq, regVars>>
      BY <1>1, <2>1 DEF Sync
    <3>2. SameOps(stack, stack)
      BY DEF SameOps
    <3> QED
      BY <1>0, <3>1, <3>2, SyncOnSession
  <2>2. CASE ~running
    <3> DEFINE f == Suspension("rsync", TRUE, timed)
    <3>1. f \in RFrame /\ f.op = "rsync"
      BY SuspensionType DEF RegistryFrames, Suspension, Frame
    <3>2. ~Suspended /\ StartOn(<<f>> \o stack) /\ UNCHANGED mainq
      BY <1>1, <2>2 DEF Sync
    <3> HIDE DEF f
    <3>3. globals = {} /\ ~HasOp(stack, "start") /\ ~HasOp(stack, "clear")
      BY <2>2, <3>2, NotSuspended
    <3>4. /\ <<f>> \o stack \in Seq(RFrame)
          /\ ~HasOp(<<f>> \o stack, "start") /\ ~HasOp(<<f>> \o stack, "clear")
      BY <1>0, <3>1, <3>3, PushOps
    <3> QED
      BY <2>2, <3>2, <3>3, <3>4, StartOnSession
  <2> QED
    BY <2>1, <2>2
<1>2. CASE RsyncResume
  <2>1. /\ TopIs("rsync") /\ SyncOn(Head(stack).timed, Tail(stack))
        /\ UNCHANGED <<mainq, regVars>>
    BY <1>2 DEF RsyncResume
  <2>2. /\ stack # <<>> /\ Head(stack).op = "rsync" /\ Tail(stack) \in Seq(RFrame)
        /\ Head(stack).timed \in BOOLEAN
    BY <2>1, TailType DEF TopIs
  <2>3. SameOps(stack, Tail(stack))
    BY <1>0, <2>2, PopQuiet
  <2> QED
    BY <2>1, <2>2, <2>3, SyncOnSession
<1> QED
  BY <1>1, <1>2

-----------------------------------------------------------------------------
(* Sessions end.                                                           *)

\* The generation moves on, no proxy is left, and the list is cleared now or
\* by a "clear" on the stack.
LEMMA EndSessionSession ==
  ASSUME RTypeOK, SessionInv, NEW below \in Seq(RFrame), Single(below, "start"),
         HasOp(below, "start") => HasOp(stack, "start"),
         HasOp(below, "clear") => HasOp(stack, "clear"),
         EndSession(below), bound' = {}, UNCHANGED mainq
  PROVE  SessionInv'
<1>1. generation' = generation + 1 /\ running' = FALSE
  BY DEF EndSession
<1>2. EventsOfSession'
  <2>1. mainq \in Seq(RegistrySources) /\ generation \in Nat
    BY DEF RTypeOK, CoreTypeOK
  <2>2. \A i \in DOMAIN mainq : mainq[i] \in RegistrySources
    BY <2>1
  <2>3. \A x \in RegistrySources : x.kind # "token" => x.gen \in Nat
    BY DEF RegistrySources, CoreSources
  <2>4. \A i \in DOMAIN mainq : mainq[i].kind # "token" =>
          mainq[i].gen \in Nat /\ mainq[i].gen <= generation
    BY <2>2, <2>3 DEF SessionInv, EventsOfSession
  <2> QED
    BY <1>1, <2>1, <2>4 DEF EventsOfSession
<1>3. ProxyOfSession'
  BY DEF ProxyOfSession
<1>4. CASE running
  <2> DEFINE f == Clear
  <2>1. f \in RFrame /\ f.op = "clear"
    BY SuspensionType DEF RegistryFrames, Clear, Suspension, Frame
  <2>2. Emit(<<f>> \o below)
    BY <1>4 DEF EndSession
  <2> HIDE DEF f
  <2>3. <<f>> \o below \in Seq(RFrame)
    BY <2>1
  <2>4. HasOp(<<f>> \o below, "clear") /\ ~HasOp(<<f>> \o below, "start")
    BY <1>4, <2>1, PushOps DEF SessionInv, StartIsFresh
  <2>5. HasOp(stack', "clear") /\ ~HasOp(stack', "start")
    BY <2>2, <2>3, <2>4, EmitOps
  <2>6. SessionIsolation'
    BY <1>1, <2>5 DEF SessionIsolation, HasOp
  <2>7. StartIsFresh' /\ ClearIsIdle'
    BY <1>1, <2>5 DEF StartIsFresh, ClearIsIdle, HasOp, Single
  <2> QED
    BY <1>2, <1>3, <2>6, <2>7 DEF SessionInv
<1>5. CASE ~running
  <2>1. stack' = below /\ globals' = {}
    BY <1>5 DEF EndSession
  <2> QED
    BY <1>1, <1>2, <1>3, <2>1
    DEF SessionInv, SessionIsolation, StartIsFresh, ClearIsIdle
<1> QED
  BY <1>4, <1>5

\* stop(), the reset of a disconnected core, and the clearing of the list.
LEMMA StopSession ==
  ASSUME RTypeOK, SessionInv, Stop \/ Reset \/ ClearRest
  PROVE  SessionInv'
<1>0. stack \in Seq(RFrame) /\ Single(stack, "start")
  BY DEF RTypeOK, CoreTypeOK, RFrame, SessionInv, StartIsFresh
<1>1. CASE Stop
  <2>1. EndSession(stack) /\ UNCHANGED mainq
    BY <1>1 DEF Stop
  <2>2. bound' = {}
    <3>1. CASE connected
      BY <1>1, <3>1 DEF Stop, SessionInv, ProxyOfSession
    <3>2. CASE ~connected
      BY <1>1, <3>2 DEF Stop, SessionInv, ProxyOfSession
    <3> QED
      BY <3>1, <3>2
  <2> QED
    BY <1>0, <2>1, <2>2, EndSessionSession
<1>2. CASE Reset
  <2>1. TopIs("reset") /\ UNCHANGED <<connected, mainq>>
    BY <1>2 DEF Reset
  <2>2. stack # <<>> /\ Tail(stack) \in Seq(RFrame)
    BY <2>1, TailType DEF TopIs
  <2>3. CASE connected
    BY <1>2, <2>1, <2>3, PopSession DEF Reset, regVars
  <2>4. CASE ~connected
    <3>1. EndSession(Tail(stack)) /\ bound' = bound
      BY <1>2, <2>4 DEF Reset
    <3>2. bound' = {}
      BY <2>4, <3>1 DEF SessionInv, ProxyOfSession
    <3>3. /\ Single(Tail(stack), "start")
          /\ HasOp(Tail(stack), "start") => HasOp(stack, "start")
          /\ HasOp(Tail(stack), "clear") => HasOp(stack, "clear")
      BY <1>0, <2>2, PopOps
    <3> QED
      BY <2>1, <2>2, <3>1, <3>2, <3>3, EndSessionSession
  <2> QED
    BY <2>3, <2>4
<1>3. CASE ClearRest
  <2>1. /\ TopIs("clear") /\ stack' = Tail(stack) /\ globals' = {}
        /\ UNCHANGED <<registry, running, generation, bound, connected, mainq>>
    BY <1>3 DEF ClearRest, Pop
  <2>2. stack # <<>>
    BY <2>1 DEF TopIs
  <2>3. /\ Single(stack', "start")
        /\ HasOp(stack', "start") => HasOp(stack, "start")
        /\ HasOp(stack', "clear") => HasOp(stack, "clear")
    BY <1>0, <2>1, <2>2, PopOps
  <2>4. SessionIsolation'
    BY <2>1 DEF SessionIsolation
  <2>5. EventsOfSession'
    BY <2>1 DEF SessionInv, EventsOfSession
  <2>6. ProxyOfSession'
    BY <2>1 DEF SessionInv, ProxyOfSession
  <2>7. StartIsFresh' /\ ClearIsIdle'
    BY <2>1, <2>3 DEF SessionInv, StartIsFresh, ClearIsIdle
  <2> QED
    BY <2>4, <2>5, <2>6, <2>7 DEF SessionInv
<1> QED
  BY <1>1, <1>2, <1>3

\* disconnect() destroys the proxy before anything of the registry runs; so
\* does the emission that starts over after it begin with a reset only.
LEMMA DisconnectSession ==
  ASSUME RTypeOK, SessionInv, DisconnectCore \/ Restart
  PROVE  SessionInv'
<1> DEFINE own == OnConnectedNotify
<1>1. /\ own \in RFrame /\ own.op \notin {"start", "clear"}
      /\ Notify \in RFrame /\ Notify.op \notin {"start", "clear"}
  BY SuspensionType, NotifyType
  DEF RegistryFrames, OnConnectedNotify, Notify, Suspension, Frame
<1>2. stack \in Seq(RFrame)
  BY DEF RTypeOK, CoreTypeOK, RFrame
<1>3. \/ stack' = stack
      \/ stack' = <<own, Notify>> \o stack
      \/ stack' = <<own>> \o stack
  BY DEF DisconnectCore, Restart, Push
<1> HIDE DEF own
<1>4. /\ <<own, Notify>> \o stack = <<own>> \o (<<Notify>> \o stack)
      /\ <<Notify>> \o stack \in Seq(RFrame)
  BY <1>1, <1>2
<1>5. SameOps(stack, <<own>> \o stack) /\ SameOps(stack, <<Notify>> \o stack)
  BY <1>1, <1>2, PushQuiet
<1>6. SameOps(<<Notify>> \o stack, <<own>> \o (<<Notify>> \o stack))
  BY <1>1, <1>4, PushQuiet
<1>7. SameOps(stack, <<own>> \o (<<Notify>> \o stack))
  BY <1>5, <1>6, OpsTransitive
<1>8. SameOps(stack, stack')
  <2>1. CASE stack' = stack
    BY <2>1, SameStack
  <2>2. CASE stack' = <<own, Notify>> \o stack
    BY <1>4, <1>7, <2>2
  <2>3. CASE stack' = <<own>> \o stack
    BY <1>5, <2>3
  <2> QED
    BY <1>3, <2>1, <2>2, <2>3
<1>9. /\ bound' = {} \/ (bound' = bound /\ connected' = connected)
      /\ UNCHANGED <<registry, running, generation, globals, mainq>>
  BY DEF DisconnectCore, Restart, regVars
<1> QED
  BY <1>8, <1>9, QuietStep

-----------------------------------------------------------------------------
(* Events.                                                                 *)

\* An event that is of the session's proxy whenever it is of the session's
\* generation is applied, on either thread, within the session.
LEMMA ApplySession ==
  ASSUME RTypeOK, SessionInv, NEW e, NEW th \in {"main", "loop"},
         running /\ e.gen = generation => e.from = registry,
         ApplyEvent(e, th),
         UNCHANGED <<registry, running, generation, bound, connected>>,
         \A i \in DOMAIN mainq' : mainq'[i].kind # "token" =>
           \E j \in DOMAIN mainq : mainq[j] = mainq'[i]
  PROVE  SessionInv'
<1>1. CASE UNCHANGED <<globals, stack>>
  BY <1>1, SameStack, QuietStep
<1>2. CASE /\ running /\ e.gen = generation
           /\ stack' = stack \/ Emit(stack)
           /\ \A x \in globals' : x \in globals \/ x.from = e.from
  <2>1. stack \in Seq(RFrame)
    BY DEF RTypeOK, CoreTypeOK, RFrame
  <2>2. ~HasOp(stack, "start") /\ ~HasOp(stack, "clear")
    BY <1>2 DEF SessionInv, StartIsFresh, ClearIsIdle
  <2>3. ~HasOp(stack', "start") /\ ~HasOp(stack', "clear")
    BY <1>2, <2>1, <2>2, EmitOps
  <2>4. SessionIsolation'
    BY <1>2 DEF SessionInv, SessionIsolation
  <2>5. EventsOfSession'
    BY DEF SessionInv, EventsOfSession
  <2>6. ProxyOfSession'
    BY DEF SessionInv, ProxyOfSession
  <2>7. StartIsFresh' /\ ClearIsIdle'
    BY <2>3 DEF StartIsFresh, ClearIsIdle, HasOp, Single
  <2> QED
    BY <2>4, <2>5, <2>6, <2>7 DEF SessionInv
<1> QED
  BY <1>1, <1>2 DEF ApplyEvent

\* The main context dispatches the oldest event.
LEMMA DispatchSession ==
  ASSUME RTypeOK, SessionInv, DispatchEvent
  PROVE  SessionInv'
<1>1. /\ mainq # <<>> /\ mainq' = Tail(mainq) /\ Head(mainq).kind # "token"
      /\ ApplyEvent(Head(mainq), "main")
      /\ UNCHANGED <<registry, running, generation, bound, connected>>
  BY DEF DispatchEvent
<1>2. mainq \in Seq(RegistrySources)
  BY DEF RTypeOK, CoreTypeOK
<1>3. 1 \in DOMAIN mainq /\ Head(mainq) = mainq[1]
  BY <1>1, <1>2
<1>4. running /\ Head(mainq).gen = generation => Head(mainq).from = registry
  BY <1>1, <1>3 DEF SessionInv, EventsOfSession
<1> QED
  BY <1>1, <1>4, QueueTail, ApplySession

\* The loop thread stamps what the proxy announces with the generation.
LEMMA RegistryLoopSession ==
  ASSUME RTypeOK, SessionInv, RegistryLoopStep
  PROVE  SessionInv'
<1> DEFINE m == Head(wire)
           e == [kind |-> m.kind, gen |-> generation, from |-> m.to, g |-> m.g]
<1>1. UNCHANGED <<registry, running, generation, bound, connected>>
  BY DEF RegistryLoopStep
<1>2. CASE UNCHANGED <<mainq, globals, stack>>
  BY <1>1, <1>2, ElsewhereSession
<1>3. CASE m.to \in bound /\ mainq' = Append(mainq, e) /\ UNCHANGED <<globals, stack>>
  <2>1. e.from = registry
    BY <1>3 DEF SessionInv, ProxyOfSession
  <2>2. e \in RegistrySources
    <3>1. m \in RegistryMessages /\ m.kind \in {"add", "remove"} /\ generation \in Nat
      BY DEF RegistryLoopStep, RTypeOK, CoreTypeOK
    <3>2. m \in [kind : {"add", "remove"}, to : Nat, g : Global]
      BY <3>1 DEF RegistryMessages, CoreMessages
    <3> QED
      BY <3>1, <3>2 DEF RegistrySources
  <2>3. e.gen = generation /\ generation \in Nat
    BY DEF RTypeOK
  <2> HIDE DEF e
  <2>4. \A i \in DOMAIN mainq' :
          mainq'[i] = e \/ \E j \in DOMAIN mainq : mainq[j] = mainq'[i]
    BY <1>3, <2>2, QueueAppend
  <2>5. EventsOfSession'
    BY <1>1, <2>1, <2>3, <2>4 DEF SessionInv, EventsOfSession
  <2>6. SessionIsolation' /\ ProxyOfSession' /\ StartIsFresh' /\ ClearIsIdle'
    BY <1>1, <1>3
    DEF SessionInv, SessionIsolation, ProxyOfSession, StartIsFresh, ClearIsIdle
  <2> QED
    BY <2>5, <2>6 DEF SessionInv
<1>4. CASE m.to \in bound /\ ApplyEvent(e, "loop") /\ UNCHANGED mainq
  <2>1. e.from = registry
    BY <1>4 DEF SessionInv, ProxyOfSession
  <2> HIDE DEF e
  <2> QED
    BY <1>1, <1>4, <2>1, ApplySession
<1> QED
  BY <1>2, <1>3, <1>4 DEF RegistryLoopStep, OnGlobal, Invoke

-----------------------------------------------------------------------------
(* The theorem.                                                            *)

\* Every step keeps the invariant.
LEMMA SessionStep ==
  ASSUME ~Interrupts, RTypeOK, SessionInv, RNext
  PROVE  SessionInv'
<1>1. CASE Keep(Connect) \/ Keep(AppSource)
  BY <1>1, PushSession
<1>2. CASE DisconnectCore \/ Restart
  BY <1>2, DisconnectSession
<1>3. CASE Start \/ StartResume
  BY <1>3, StartSession
<1>4. CASE (\E timed \in BOOLEAN : Sync(timed)) \/ RsyncResume
  BY <1>4, RegistrySyncSession
<1>5. CASE Stop \/ Reset \/ ClearRest
  BY <1>5, StopSession
<1>6. CASE Keep(SyncResume(Mark)) \/ Keep(SyncWake)
  BY <1>6, SyncSession
<1>7. CASE Keep(SyncTimeout)
  BY <1>7, PopSession DEF Keep, SyncTimeout, regVars
<1>8. CASE Keep(DrainEnd)
  BY <1>8, PopSession DEF Keep, DrainEnd, regVars
<1>9. CASE Keep(HandlerReturn) \/ Keep(NotifyReturn)
  BY <1>9, PopSession DEF Keep, HandlerReturn, NotifyReturn, regVars
<1>10. CASE Keep(DispatchToken)
  BY <1>10, TokenSession
<1>11. CASE DispatchEvent
  BY <1>11, DispatchSession
<1>12. CASE Keep(LoopStep)
  BY <1>12, LoopSession
<1>13. CASE RegistryLoopStep
  BY <1>13, RegistryLoopSession
<1>14. CASE Keep(ServerStep) \/ Keep(LinkBreaks) \/ Keep(ToggleLoop)
  BY <1>14, ElsewhereSession DEF Keep, ServerStep, LinkBreaks, ToggleLoop, regVars
<1>15. CASE ServerBind
  BY <1>15, ElsewhereSession DEF ServerBind, regVars
<1>16. CASE \E id \in Ids : ServerAdd(id)
  BY <1>16, ElsewhereSession DEF ServerAdd, regVars
<1>17. CASE \E g \in server : ServerRemove(g)
  BY <1>17, ElsewhereSession DEF ServerRemove, regVars
<1> QED
  BY <1>1, <1>2, <1>3, <1>4, <1>5, <1>6, <1>7, <1>8, <1>9, <1>10, <1>11, <1>12,
     <1>13, <1>14, <1>15, <1>16, <1>17
  DEF RNext, RMainStep, Dispatch, RServerStep, RLoopStep

LEMMA SessionInvariant ==
  ASSUME ~Interrupts
  PROVE  RSpec => []SessionInv
<1>1. RInit => SessionInv
  <2> SUFFICES ASSUME RInit PROVE SessionInv
    OBVIOUS
  <2>1. globals = {} /\ bound = {} /\ running = FALSE /\ mainq = <<>> /\ stack = <<>>
    BY DEF RInit, Init
  <2> QED
    BY <2>1 DEF SessionInv, SessionIsolation, EventsOfSession, ProxyOfSession,
                StartIsFresh, ClearIsIdle, Single, HasOp
<1>2. RTypeOK /\ SessionInv /\ [RNext]_vars => SessionInv'
  <2>1. CASE RTypeOK /\ SessionInv /\ RNext
    BY <2>1, SessionStep
  <2>2. CASE SessionInv /\ UNCHANGED vars
    BY <2>2, ElsewhereSession DEF vars, coreVars, regVars
  <2> QED
    BY <2>1, <2>2
<1> QED
  BY <1>1, <1>2, RTypeCorrect, PTL DEF RSpec

\* Provided handlers begin no session of this registry while one of its own
\* starts or stops is suspended below them, the list only ever shows the
\* running session: generation and proxy together keep every announcement
\* of an earlier one out, on either thread, across stops, disconnects and
\* reconnects, and although a handler of notify::connected that disconnects
\* and connects again keeps the registry from resetting.
THEOREM SessionsAreIsolated ==
  ASSUME ~Interrupts
  PROVE  RSpec => []SessionIsolation
<1>1. SessionInv => SessionIsolation
  BY DEF SessionInv
<1> QED
  BY <1>1, SessionInvariant, PTL

-----------------------------------------------------------------------------
(* The proxy of a session, when no handler of notify::connected connects   *)
(* the core again.                                                         *)

\* A registry that takes itself for bound is.
ProxyIsAlive == connected /\ registry # NULL => registry \in bound

OwnerInv == ResetInEmission /\ ProxyIsAlive

\* What is left of a lost connection is found by no connect.
LEMMA ConnectIsFresh ==
  ASSUME "reconnect" \notin Reentry, OwnerInv, MayConnect, Connected
  PROVE  ~running /\ registry = NULL
BY DEF OwnerInv, ResetInEmission, MayConnect, Connected, Owed

\* An emission of notify::connected goes on.
StillEmitting == Emitting => Emitting'

\* One more frame on a stack, and one less.
LEMMA EmittingOps ==
  ASSUME NEW st \in Seq(RFrame), NEW f \in RFrame
  PROVE  /\ HasOp(st, "notify") => HasOp(<<f>> \o st, "notify")
         /\ st # <<>> /\ Head(st).op # "notify" /\ HasOp(st, "notify") =>
              HasOp(Tail(st), "notify")
         /\ st # <<>> /\ Head(st).op # "notify" /\ HasOp(st, "notify") =>
              HasOp(<<f>> \o Tail(st), "notify")
<1>1. HasOp(st, "notify") => HasOp(<<f>> \o st, "notify")
  BY PushOps
<1>2. ASSUME st # <<>>, Head(st).op # "notify", HasOp(st, "notify")
      PROVE  HasOp(Tail(st), "notify") /\ HasOp(<<f>> \o Tail(st), "notify")
  <2>1. HasOp(Tail(st), "notify") /\ Tail(st) \in Seq(RFrame)
    BY <1>2, PopOps
  <2> QED
    BY <2>1, PushOps
<1> QED
  BY <1>1, <1>2

\* A handler of another signal does not end it.
LEMMA EmitEmitting ==
  ASSUME NEW rest \in Seq(RFrame), Emit(rest), HasOp(rest, "notify")
  PROVE  HasOp(stack', "notify")
<1>1. PICK h \in Handlers : stack' = h \o rest
  BY DEF Emit
<1>2. h = <<>> \/ h = <<App>>
  BY DEF Handlers
<1>3. stack' = rest \/ stack' = <<App>> \o rest
  <2>1. <<>> \o rest = rest
    OBVIOUS
  <2> QED
    BY <1>1, <1>2, <2>1
<1> QED
  BY <1>3, AppType, EmittingOps

\* A session that the step neither begins nor ends, on the same connection.
LEMMA QuietOwner ==
  ASSUME OwnerInv, StillEmitting, UNCHANGED <<registry, running, bound, connected>>
  PROVE  OwnerInv'
BY DEF OwnerInv, ResetInEmission, ProxyIsAlive, StillEmitting, Owed

\* A core that is connected owes no reset.
LEMMA ConnectedOwner ==
  ASSUME connected', registry' # NULL => registry' \in bound'
  PROVE  OwnerInv'
BY DEF OwnerInv, ResetInEmission, ProxyIsAlive, Owed

\* Nor does a registry that has been reset.
LEMMA ResetOwner ==
  ASSUME ~running', registry' = NULL
  PROVE  OwnerInv'
BY DEF OwnerInv, ResetInEmission, ProxyIsAlive, Owed

\* The start of a session on top of a stack, or what it leaves.
LEMMA StartOnOwner ==
  ASSUME "reconnect" \notin Reentry, RTypeOK, OwnerInv, NEW st, StartOn(st)
  PROVE  OwnerInv'
<1>1. CASE connected /\ (Bind(st) \/ BindFails(st)) /\ UNCHANGED connected
  BY <1>1, ConnectedOwner DEF Bind, BindFails
<1>2. CASE MayConnect /\ Connected /\ UNCHANGED regVars
  <2>1. connected' /\ registry' = NULL
    BY <1>2, ConnectIsFresh DEF Connected, regVars
  <2> QED
    BY <2>1, ConnectedOwner
<1> QED
  BY <1>1, <1>2 DEF StartOn

LEMMA StartOwner ==
  ASSUME "reconnect" \notin Reentry, RTypeOK, OwnerInv, Start \/ StartResume
  PROVE  OwnerInv'
<1>1. CASE Start
  BY <1>1, StartOnOwner DEF Start
<1>2. CASE StartResume
  <2>1. CASE connected
    BY <1>2, <2>1, ConnectedOwner DEF StartResume, Bind, BindFails
  <2>2. CASE ~connected
    <3>1. stack \in Seq(RFrame) /\ stack # <<>> /\ Head(stack).op = "start"
      BY <1>2, TailType DEF StartResume, TopIs
    <3>2. /\ Failed(Tail(stack)) /\ UNCHANGED <<registry, running, bound, connected>>
      BY <1>2, <2>2 DEF StartResume, regVars
    <3>3. Tail(stack) \in Seq(RFrame) /\ App \in RFrame
      BY <3>1, AppType
    <3>4. HasOp(stack, "notify") => HasOp(Tail(stack), "notify")
      BY <3>1, <3>3, EmittingOps
    <3>5. HasOp(stack, "notify") => HasOp(stack', "notify")
      BY <3>2, <3>3, <3>4, EmittingOps DEF Failed
    <3> QED
      BY <3>2, <3>5, QuietOwner DEF StillEmitting, Emitting, HasOp
  <2> QED
    BY <2>1, <2>2
<1> QED
  BY <1>1, <1>2

\* The roundtrip of sync(), above a call that may have ended.
LEMMA SyncOnOwner ==
  ASSUME "reconnect" \notin Reentry, RTypeOK, OwnerInv, NEW timed \in BOOLEAN,
         NEW st \in Seq(RFrame), HasOp(stack, "notify") => HasOp(st, "notify"),
         SyncOn(timed, st), UNCHANGED regVars
  PROVE  OwnerInv'
<1>0. UNCHANGED <<registry, running, bound>>
  BY DEF regVars
<1>1. CASE connected /\ UNCHANGED connected
  BY <1>0, <1>1, ConnectedOwner DEF OwnerInv, ProxyIsAlive
<1>2. CASE MayConnect /\ Connected
  <2>1. connected' /\ registry' = NULL
    BY <1>0, <1>2, ConnectIsFresh DEF Connected
  <2> QED
    BY <2>1, ConnectedOwner
<1>3. CASE SendFails(st) /\ UNCHANGED connected
  <2>1. StillEmitting
    BY <1>3 DEF SendFails, StillEmitting, Emitting, HasOp
  <2> QED
    BY <1>0, <1>3, <2>1, QuietOwner
<1> QED
  BY <1>1, <1>2, <1>3 DEF SyncOn

LEMMA SyncOwner ==
  ASSUME "reconnect" \notin Reentry, RTypeOK, OwnerInv,
         (\E timed \in BOOLEAN : Sync(timed)) \/ RsyncResume
  PROVE  OwnerInv'
<1>0. stack \in Seq(RFrame) /\ App \in RFrame
  BY AppType DEF RTypeOK, CoreTypeOK, RFrame
<1>1. ASSUME NEW timed \in BOOLEAN, Sync(timed)
      PROVE  OwnerInv'
  <2>1. CASE running
    BY <1>0, <1>1, <2>1, SyncOnOwner DEF Sync
  <2>2. CASE ~running
    BY <1>1, <2>2, StartOnOwner DEF Sync
  <2> QED
    BY <2>1, <2>2
<1>2. CASE RsyncResume
  <2>1. stack # <<>> /\ Head(stack).op = "rsync" /\ Tail(stack) \in Seq(RFrame)
    BY <1>2, TailType DEF RsyncResume, TopIs
  <2>2. HasOp(stack, "notify") => HasOp(Tail(stack), "notify")
    BY <1>0, <2>1, EmittingOps
  <2>3. Head(stack).timed \in BOOLEAN
    BY <1>2, TailType DEF RsyncResume
  <2> QED
    BY <1>2, <2>1, <2>2, <2>3, SyncOnOwner DEF RsyncResume
<1> QED
  BY <1>1, <1>2

\* The end of a session: stop() destroys the proxy while there is one, and
\* the reset forgets the one that went with the connection.
LEMMA EndOwner ==
  ASSUME RTypeOK, OwnerInv, Stop \/ Reset \/ ClearRest
  PROVE  OwnerInv'
<1>0. stack \in Seq(RFrame) /\ App \in RFrame
  BY AppType DEF RTypeOK, CoreTypeOK, RFrame
<1>1. ASSUME NEW below \in Seq(RFrame), EndSession(below), HasOp(below, "notify")
      PROVE  HasOp(stack', "notify")
  <2>1. Clear \in RFrame
    BY SuspensionType DEF RegistryFrames, Clear
  <2>2. <<Clear>> \o below \in Seq(RFrame) /\ HasOp(<<Clear>> \o below, "notify")
    BY <1>1, <2>1, EmittingOps
  <2> QED
    BY <1>1, <2>2, EmitEmitting DEF EndSession
<1>2. CASE Stop /\ connected
  BY <1>2, ResetOwner DEF Stop, EndSession
<1>3. CASE Stop /\ ~connected
  <2>1. /\ EndSession(stack) /\ ~running' /\ ~connected'
        /\ (running \/ registry # NULL) /\ registry' = registry
    BY <1>3 DEF Stop, EndSession
  <2>2. Emitting
    BY <1>3, <2>1 DEF OwnerInv, ResetInEmission, Owed
  <2>3. Emitting'
    BY <1>0, <1>1, <2>1, <2>2 DEF Emitting, HasOp
  <2> QED
    BY <2>1, <2>3 DEF OwnerInv, ResetInEmission, ProxyIsAlive
<1>4. CASE Reset
  <2>1. stack # <<>> /\ Head(stack).op = "reset" /\ Tail(stack) \in Seq(RFrame)
    BY <1>4, TailType DEF Reset, TopIs
  <2>2. CASE connected
    BY <1>4, <2>2, ConnectedOwner DEF Reset, regVars, OwnerInv, ProxyIsAlive
  <2>3. CASE ~connected
    BY <1>4, <2>3, ResetOwner DEF Reset, EndSession
  <2> QED
    BY <2>2, <2>3
<1>5. CASE ClearRest
  <2>1. stack # <<>> /\ Head(stack).op = "clear" /\ stack' = Tail(stack)
    BY <1>5 DEF ClearRest, TopIs, Pop
  <2>2. StillEmitting
    BY <1>0, <2>1, EmittingOps DEF StillEmitting, Emitting, HasOp
  <2> QED
    BY <1>5, <2>2, QuietOwner DEF ClearRest
<1> QED
  BY <1>2, <1>3, <1>4, <1>5

\* disconnect() is told to the handlers of notify::connected, now or when the
\* emission it was called in starts over.
LEMMA DisconnectOwner ==
  ASSUME RTypeOK, OwnerInv, DisconnectCore \/ Restart
  PROVE  OwnerInv'
<1>0. stack \in Seq(RFrame) /\ Notify \in RFrame /\ OnConnectedNotify \in RFrame
  BY NotifyType, SuspensionType
  DEF RTypeOK, CoreTypeOK, RFrame, OnConnectedNotify, RegistryFrames
<1>1. CASE DisconnectCore
  <2>1. ~connected'
    BY <1>1 DEF DisconnectCore, Disconnected
  <2>2. CASE Emitting
    BY <1>1, <2>1, <2>2 DEF DisconnectCore, OwnerInv, ResetInEmission, ProxyIsAlive, Emitting
  <2>3. CASE ~Emitting
    <3>1. stack' = <<OnConnectedNotify, Notify>> \o stack
      BY <1>1, <2>3 DEF DisconnectCore
    <3>2. 2 \in DOMAIN stack' /\ stack'[2] = Notify
      BY <1>0, <3>1
    <3>3. Notify.op = "notify"
      BY DEF Notify, Suspension, Frame
    <3>4. Emitting'
      BY <3>2, <3>3 DEF Emitting
    <3> QED
      BY <2>1, <3>4 DEF OwnerInv, ResetInEmission, ProxyIsAlive
  <2> QED
    BY <2>2, <2>3
<1>2. CASE Restart
  <2>1. stack' = <<OnConnectedNotify>> \o stack
    BY <1>2 DEF Restart, Push
  <2>2. StillEmitting
    BY <1>0, <2>1, EmittingOps DEF StillEmitting, Emitting, HasOp
  <2> QED
    BY <1>2, <2>2, QuietOwner DEF Restart, regVars
<1> QED
  BY <1>1, <1>2

\* The steps of Core: an emission ends when no reset is owed.
LEMMA CoreOwner ==
  ASSUME "reconnect" \notin Reentry, RTypeOK, OwnerInv,
         \/ MayConnect /\ Keep(Connect)
         \/ ~Owed /\ Keep(NotifyReturn)
         \/ Keep(AppSource) \/ Keep(SyncResume(Mark)) \/ Keep(SyncWake)
         \/ Keep(SyncTimeout) \/ Keep(DrainEnd) \/ Keep(HandlerReturn)
         \/ Keep(DispatchToken) \/ Keep(LoopStep)
  PROVE  OwnerInv'
<1>0. stack \in Seq(RFrame) /\ App \in RFrame
  BY AppType DEF RTypeOK, CoreTypeOK, RFrame
<1>1. UNCHANGED <<registry, running, bound>>
  BY DEF Keep, regVars
<1>2. CASE MayConnect /\ Keep(Connect)
  <2>1. Connected
    BY <1>2 DEF Keep, Connect
  <2>2. connected' /\ registry' = NULL
    BY <1>1, <1>2, <2>1, ConnectIsFresh DEF Connected
  <2> QED
    BY <2>2, ConnectedOwner
<1>3. CASE ~Owed /\ Keep(NotifyReturn)
  <2>1. connected' = connected /\ ~Owed'
    BY <1>1, <1>3 DEF Keep, NotifyReturn, Owed
  <2> QED
    BY <1>1, <2>1 DEF OwnerInv, ResetInEmission, ProxyIsAlive
<1>4. CASE Keep(LoopStep)
  BY <1>1, <1>4, ConnectedOwner DEF Keep, LoopStep, OwnerInv, ProxyIsAlive
<1>5. CASE Keep(DispatchToken)
  <2>1. MarkDrained(Head(mainq).n)
    BY <1>5 DEF Keep, DispatchToken
  <2>2. DOMAIN stack' = DOMAIN stack /\ \A i \in DOMAIN stack : stack'[i].op = stack[i].op
    BY <1>0, <2>1, MarkedOps
  <2>3. StillEmitting
    BY <2>2 DEF StillEmitting, Emitting
  <2> QED
    BY <1>1, <1>5, <2>3, QuietOwner DEF Keep, DispatchToken
<1>6. CASE Keep(AppSource)
  <2>1. StillEmitting
    BY <1>0, <1>6, EmittingOps DEF Keep, AppSource, Push, StillEmitting, Emitting, HasOp
  <2> QED
    BY <1>1, <1>6, <2>1, QuietOwner DEF Keep, AppSource
<1>7. CASE \/ Keep(SyncResume(Mark)) \/ Keep(SyncWake)
           \/ Keep(SyncTimeout) \/ Keep(DrainEnd) \/ Keep(HandlerReturn)
  <2>1. PICK op \in {"sync", "wait", "drain", "app"} : TopIs(op)
    BY <1>7 DEF Keep, SyncResume, SyncWake, SyncTimeout, DrainEnd, HandlerReturn
  <2>2. stack # <<>> /\ Head(stack).op # "notify"
    BY <2>1 DEF TopIs
  <2>3. stack' = Tail(stack) \/ \E f \in RFrame : stack' = <<f>> \o Tail(stack)
    <3>1. CASE Keep(SyncTimeout) \/ Keep(DrainEnd) \/ Keep(HandlerReturn)
      BY <3>1 DEF Keep, SyncTimeout, DrainEnd, HandlerReturn, Pop
    <3>2. CASE Keep(SyncWake)
      <4>1. [Head(stack) EXCEPT !.op = "drain"] \in RFrame
        BY <2>1, TailType DEF RFrame, FrameType, RegistryFrames, CoreFrames
      <4> QED
        BY <3>2, <4>1 DEF Keep, SyncWake, Pop, SetTop
    <3>3. CASE Keep(SyncResume(Mark))
      <4> DEFINE f == Frame("wait", lastReq + 1, Head(stack).ctx, Head(stack).timed, Mark)
      <4>1. lastReq + 1 \in Nat /\ Mark \in Marks
        BY DEF RTypeOK, CoreTypeOK, Mark, Marks
      <4>2. Head(stack).ctx \in BOOLEAN /\ Head(stack).timed \in BOOLEAN
        BY <2>1, TailType
      <4>3. f \in RFrame
        BY <4>1, <4>2 DEF Frame, RFrame, FrameType, RegistryFrames, CoreFrames
      <4>4. stack' = Tail(stack) \/ stack' = <<f>> \o Tail(stack)
        BY <3>3 DEF Keep, SyncResume, SendSync, SendFails
      <4> HIDE DEF f
      <4> QED
        BY <4>3, <4>4
    <3> QED
      BY <1>7, <3>1, <3>2, <3>3
  <2>4. StillEmitting
    <3>1. HasOp(stack, "notify") => HasOp(stack', "notify")
      BY <1>0, <2>2, <2>3, EmittingOps
    <3> QED
      BY <3>1 DEF StillEmitting, Emitting, HasOp
  <2>5. connected' = connected
    BY <1>7 DEF Keep, SyncResume, SyncWake, SyncTimeout, DrainEnd, HandlerReturn
  <2> QED
    BY <1>1, <2>4, <2>5, QuietOwner
<1> QED
  BY <1>2, <1>3, <1>4, <1>5, <1>6, <1>7

\* Events change no proxy.
LEMMA EventOwner ==
  ASSUME RTypeOK, OwnerInv, DispatchEvent \/ RegistryLoopStep
  PROVE  OwnerInv'
<1>0. stack \in Seq(RFrame)
  BY DEF RTypeOK, CoreTypeOK, RFrame
<1>1. UNCHANGED <<registry, running, bound, connected>>
  BY DEF DispatchEvent, RegistryLoopStep
<1>2. stack' = stack \/ Emit(stack)
  BY DEF DispatchEvent, RegistryLoopStep, OnGlobal, Invoke, ApplyEvent
<1>3. StillEmitting
  BY <1>0, <1>2, EmitEmitting DEF StillEmitting, Emitting, HasOp
<1> QED
  BY <1>1, <1>3, QuietOwner

\* Neither do the server and the main loop.
LEMMA ElsewhereOwner ==
  ASSUME OwnerInv, UNCHANGED <<registry, running, bound, connected, stack>>
  PROVE  OwnerInv'
BY QuietOwner DEF StillEmitting, Emitting

LEMMA OwnerStep ==
  ASSUME "reconnect" \notin Reentry, RTypeOK, OwnerInv, RNext
  PROVE  OwnerInv'
<1>1. CASE \/ MayConnect /\ Keep(Connect)
           \/ ~Owed /\ Keep(NotifyReturn)
           \/ Keep(AppSource) \/ Keep(SyncResume(Mark)) \/ Keep(SyncWake)
           \/ Keep(SyncTimeout) \/ Keep(DrainEnd) \/ Keep(HandlerReturn)
           \/ Keep(DispatchToken) \/ Keep(LoopStep)
  BY <1>1, CoreOwner
<1>2. CASE DisconnectCore \/ Restart
  BY <1>2, DisconnectOwner
<1>3. CASE Start \/ StartResume
  BY <1>3, StartOwner
<1>4. CASE (\E timed \in BOOLEAN : Sync(timed)) \/ RsyncResume
  BY <1>4, SyncOwner
<1>5. CASE Stop \/ Reset \/ ClearRest
  BY <1>5, EndOwner
<1>6. CASE DispatchEvent \/ RegistryLoopStep
  BY <1>6, EventOwner
<1>7. CASE Keep(ServerStep) \/ Keep(LinkBreaks) \/ Keep(ToggleLoop)
  BY <1>7, ElsewhereOwner DEF Keep, ServerStep, LinkBreaks, ToggleLoop, regVars
<1>8. CASE ServerBind
  BY <1>8, ElsewhereOwner DEF ServerBind, regVars
<1>9. CASE \E id \in Ids : ServerAdd(id)
  BY <1>9, ElsewhereOwner DEF ServerAdd, regVars
<1>10. CASE \E g \in server : ServerRemove(g)
  BY <1>10, ElsewhereOwner DEF ServerRemove, regVars
<1> QED
  BY <1>1, <1>2, <1>3, <1>4, <1>5, <1>6, <1>7, <1>8, <1>9, <1>10
  DEF RNext, RMainStep, Dispatch, RServerStep, RLoopStep

LEMMA OwnerInvariant ==
  ASSUME "reconnect" \notin Reentry
  PROVE  RSpec => []OwnerInv
<1>1. RInit => OwnerInv
  BY DEF RInit, Init, OwnerInv, ResetInEmission, ProxyIsAlive, Owed
<1>2. RTypeOK /\ OwnerInv /\ [RNext]_vars => OwnerInv'
  <2>1. CASE RTypeOK /\ OwnerInv /\ RNext
    BY <2>1, OwnerStep
  <2>2. CASE OwnerInv /\ UNCHANGED vars
    BY <2>2, ElsewhereOwner DEF vars, coreVars, regVars
  <2> QED
    BY <2>1, <2>2
<1> QED
  BY <1>1, <1>2, RTypeCorrect, PTL DEF RSpec

\* Provided no handler of notify::connected connects the core again after a
\* disconnect that the registry has not been told of, and handlers begin no
\* session under one of its suspended calls, no proxy outlives its session,
\* and the proxy that stop() destroys exists.
THEOREM ProxiesAreOwned ==
  ASSUME "reconnect" \notin Reentry, ~Interrupts
  PROVE  RSpec => []ProxyIsOwned
<1>1. SessionInv /\ OwnerInv => ProxyIsOwned
  BY DEF SessionInv, ProxyOfSession, OwnerInv, ProxyIsAlive, ProxyIsOwned
<1> QED
  BY <1>1, SessionInvariant, OwnerInvariant, PTL
=============================================================================
