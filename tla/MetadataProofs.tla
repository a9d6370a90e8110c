--------------------------- MODULE MetadataProofs ---------------------------
(***************************************************************************)
(* Proofs about PwgMetadata: its types, and that it owns its proxies, for  *)
(* any bounds, any server and any calls of the handlers; and, for handlers *)
(* that do not call sync(), whose values the cache has.                    *)
(***************************************************************************)
EXTENDS Metadata, CoreProofs

MFrame == FrameType(Frames, Marks)

RoundtripMark == [second : BOOLEAN, session : Nat, was : Nat, asof : Nat,
                  have : SUBSET Object]

\* The calls suspended with one of these left to do.
FramesOf(ops) == {f \in MFrame : f.op \in ops}
Holds(st, op) == Has(st, FramesOf({op}))

\* A roundtrip that nothing is remembered about: only Core has those.
BadWaits ==
  {f \in MFrame : f.op \in {"sync", "wait", "drain"} /\ f.mark \notin RoundtripMark}

\* The stacks of the main thread: no session is under way or about to end
\* below a start() that has still to open its own, and nothing is above the
\* wrapper's own handler of notify::connected.
Fits(st) ==
  /\ st \in Seq(MFrame)
  /\ Nested(st, FramesOf({"start"}), FramesOf(Rests), FramesOf({"reset"}))
  /\ ~Has(st, BadWaits)

-----------------------------------------------------------------------------
(* Frames.                                                                 *)

LEMMA MCovers == Covers(Requests, Messages, Sources, Frames, Marks)
BY DEF Covers, Requests, Messages, Sources, Frames, Marks, CoreFrames, CoreMessages, CoreSources

LEMMA FrameKinds ==
  /\ App \in MFrame /\ App.op = "app"
  /\ Notify \in MFrame /\ Notify.op = "notify"
  /\ \A op \in Rests \cup {"msync"} : Rest(op) \in MFrame /\ Rest(op).op = op
  /\ \A mark \in RoundtripMark : \A n \in Nat : \A ctx, timed \in BOOLEAN :
       \A op \in {"wait", "sync"} :
         /\ Frame(op, n, ctx, timed, mark) \in MFrame
         /\ Frame(op, n, ctx, timed, mark).op = op
         /\ Frame(op, n, ctx, timed, mark).mark = mark
         /\ Frame(op, n, ctx, timed, mark) \notin BadWaits
BY DEF App, Notify, BadWaits, Rest, Suspension, Frame, MFrame, FrameType, Frames, CoreFrames, Rests, Marks,
       RoundtripMark

LEMMA FramesClosed ==
  /\ \A ops : "drain" \notin ops /\ "wait" \notin ops => Closed(FramesOf(ops), MFrame)
  /\ Closed(BadWaits, MFrame)
BY DEF Closed, FramesOf, BadWaits, SameCall

LEMMA PushFits ==
  ASSUME NEW st, Fits(st), ~Holds(st, "reset"), NEW f \in MFrame, f \notin BadWaits,
         f.op = "start" => \A o \in Rests : ~Holds(st, o)
  PROVE  /\ Fits(<<f>> \o st)
         /\ \A o : Holds(<<f>> \o st, o) <=> f.op = o \/ Holds(st, o)
<1>1. f \in FramesOf({"start"}) => ~Has(st, FramesOf(Rests))
  <2> SUFFICES ASSUME f.op = "start", Has(st, FramesOf(Rests))
               PROVE  FALSE
    BY DEF FramesOf
  <2>1. PICK i \in DOMAIN st : st[i] \in FramesOf(Rests)
    BY DEF Has
  <2>2. st[i].op \in Rests /\ st[i] \in FramesOf({st[i].op})
    BY <2>1 DEF FramesOf
  <2> QED
    BY <2>2 DEF Holds, Has
<1>2. /\ <<f>> \o st \in Seq(MFrame)
      /\ Nested(<<f>> \o st, FramesOf({"start"}), FramesOf(Rests), FramesOf({"reset"}))
      /\ \A X : Has(<<f>> \o st, X) <=> f \in X \/ Has(st, X)
  BY <1>1, NestedPushed DEF Fits, Holds
<1>3. \A o : f \in FramesOf({o}) <=> f.op = o
  BY DEF FramesOf
<1> QED
  BY <1>2, <1>3 DEF Fits, Holds

\* A call that is suspended.
LEMMA RestFits ==
  ASSUME NEW st, Fits(st), ~Holds(st, "reset"), NEW op \in Rests \cup {"msync"},
         op = "start" => \A o \in Rests : ~Holds(st, o)
  PROVE  /\ Fits(<<Rest(op)>> \o st)
         /\ \A o : Holds(<<Rest(op)>> \o st, o) <=> o = op \/ Holds(st, o)
<1>1. Rest(op) \in MFrame /\ Rest(op).op = op
  BY FrameKinds
<1>2. Rest(op) \notin BadWaits
  BY <1>1 DEF BadWaits, Rests
<1> QED
  BY <1>1, <1>2, PushFits

\* A handler.
LEMMA EmitFits ==
  ASSUME NEW st, Fits(st), ~Holds(st, "reset"), Emit(st)
  PROVE  /\ Fits(stack')
         /\ \A o \in Rests : Holds(stack', o) => Holds(st, o)
         /\ Holds(st, "notify") => Holds(stack', "notify")
<1>1. stack' = st \/ stack' = <<App>> \o st
  BY EmitCases DEF Fits
<1>2. CASE stack' = st
  BY <1>2
<1>3. CASE stack' = <<App>> \o st
  <2>1. App \in MFrame /\ App.op = "app" /\ App \notin BadWaits
    BY FrameKinds DEF BadWaits
  <2>2. Fits(<<App>> \o st) /\ \A o : Holds(<<App>> \o st, o) <=> App.op = o \/ Holds(st, o)
    BY <2>1, PushFits
  <2> QED
    BY <1>3, <2>1, <2>2 DEF Rests
<1> QED
  BY <1>1, <1>2, <1>3

LEMMA PopFits ==
  ASSUME NEW st, Fits(st), st # <<>>
  PROVE  /\ Fits(Tail(st)) /\ ~Holds(Tail(st), "reset")
         /\ Head(st) \in MFrame /\ Head(st) \notin BadWaits
         /\ \A o : Holds(st, o) <=> Head(st).op = o \/ Holds(Tail(st), o)
         /\ Head(st).op = "start" => \A o \in Rests : ~Holds(Tail(st), o)
<1> DEFINE S == FramesOf({"start"})
           R == FramesOf(Rests)
           Z == FramesOf({"reset"})
<1>1. /\ Tail(st) \in Seq(MFrame) /\ Head(st) \in MFrame
      /\ Nested(Tail(st), S, R, Z) /\ ~Has(Tail(st), Z)
      /\ Head(st) \in S => ~Has(Tail(st), R)
      /\ \A X : Has(st, X) <=> Head(st) \in X \/ Has(Tail(st), X)
  <2>1. Nested(st, S, R, Z) /\ st \in Seq(MFrame)
    BY DEF Fits
  <2> HIDE DEF S, R, Z
  <2>2. Tail(st) \in Seq(MFrame) /\ Head(st) \in MFrame
    BY <2>1
  <2>3. Nested(Tail(st), S, R, Z) /\ ~Has(Tail(st), Z) /\ (Head(st) \in S => ~Has(Tail(st), R))
    BY <2>1, NestedPopped
  <2>4. ASSUME NEW X
        PROVE  Has(st, X) <=> Head(st) \in X \/ Has(Tail(st), X)
    BY <2>1, HasPopped
  <2> QED
    BY <2>2, <2>3, <2>4
<1>2. \A o : Head(st) \in FramesOf({o}) <=> Head(st).op = o
  BY <1>1 DEF FramesOf
<1>3. \A o \in Rests : Holds(Tail(st), o) => Has(Tail(st), FramesOf(Rests))
  BY DEF Holds, Has, FramesOf
<1> QED
  BY <1>1, <1>2, <1>3 DEF Fits, Holds

LEMMA EmittingHeld ==
  ASSUME stack \in Seq(MFrame)
  PROVE  Emitting <=> Holds(stack, "notify")
<1>1. \A i \in DOMAIN stack : stack[i] \in MFrame
  OBVIOUS
<1> QED
  BY <1>1 DEF Emitting, Holds, Has, FramesOf

\* A notify of "connected", where it is not being emitted already.
LEMMA NotifiedFits ==
  ASSUME NEW st, Fits(st), ~Holds(st, "reset"), stack' = Notified(st)
  PROVE  /\ Fits(stack')
         /\ \A o : o # "notify" => (Holds(stack', o) <=> Holds(st, o))
         /\ Holds(st, "notify") => Holds(stack', "notify")
         /\ ~Emitting => Holds(stack', "notify")
<1>1. Notify \in MFrame /\ Notify.op = "notify" /\ Notify \notin BadWaits
  BY FrameKinds DEF BadWaits
<1>2. /\ ~Emitting => stack' = <<Notify>> \o st
      /\ Emitting => stack' = st
  BY DEF Notified
<1>3. Fits(<<Notify>> \o st) /\ \A o : Holds(<<Notify>> \o st, o) <=> Notify.op = o \/ Holds(st, o)
  BY <1>1, PushFits
<1> QED
  BY <1>1, <1>2, <1>3

\* Nothing is above a reset.
LEMMA NoReset ==
  ASSUME Fits(stack), ~TopIs("reset")
  PROVE  ~Holds(stack, "reset")
<1>1. CASE stack = <<>>
  BY <1>1 DEF Holds, Has
<1>2. CASE stack # <<>>
  BY <1>2, PopFits DEF TopIs
<1> QED
  BY <1>1, <1>2

\* What Calls and HasRest look for.
LEMMA RestsHeld ==
  ASSUME Fits(stack)
  PROVE  HasRest(Rests) <=> \E o \in Rests : Holds(stack, o)
<1>1. \A i \in DOMAIN stack : stack[i] \in MFrame
  BY DEF Fits
<1> QED
  BY <1>1 DEF HasRest, Holds, Has, FramesOf

LEMMA WaitFits ==
  ASSUME NEW st, Fits(st), ~Holds(st, "reset"), NEW mark \in RoundtripMark,
         NEW ctx \in BOOLEAN, NEW timed \in BOOLEAN, SendSync(ctx, timed, mark, st),
         lastReq \in Nat
  PROVE  /\ Fits(stack') /\ lastReq' \in Nat /\ lastReq' >= lastReq
         /\ \A o \in Rests : Holds(stack', o) => Holds(st, o)
         /\ Holds(st, "notify") => Holds(stack', "notify")
<1> DEFINE f == Frame("wait", lastReq + 1, ctx, timed, mark)
<1>1. stack' = <<f>> \o st /\ lastReq' = lastReq + 1
  BY DEF SendSync
<1>2. f \in MFrame /\ f.op = "wait" /\ f \notin BadWaits
  <2>1. lastReq + 1 \in Nat
    OBVIOUS
  <2> QED
    BY <2>1, FrameKinds
<1> HIDE DEF f
<1>3. Fits(<<f>> \o st) /\ \A o : Holds(<<f>> \o st, o) <=> f.op = o \/ Holds(st, o)
  BY <1>2, PushFits
<1> QED
  BY <1>1, <1>2, <1>3 DEF Rests

\* A call that connects.
LEMMA ConnectForFits ==
  ASSUME NEW st, Fits(st), ~Holds(st, "reset"), NEW f \in MFrame, f \notin BadWaits,
         f.op # "reset", f.op = "start" => \A o \in Rests : ~Holds(st, o), NEW owed,
         ConnectFor(f, owed, st)
  PROVE  /\ Fits(stack')
         /\ \A o \in Rests : Holds(stack', o) => f.op = o \/ Holds(st, o)
         /\ Holds(st, "notify") => Holds(stack', "notify")
<1> DEFINE fs == <<f>> \o st
<1>1. Fits(fs) /\ \A o : Holds(fs, o) <=> f.op = o \/ Holds(st, o)
  BY PushFits
<1>2. stack' = Notified(fs)
  BY DEF ConnectFor
<1> HIDE DEF fs
<1>3. ~Holds(fs, "reset")
  BY <1>1
<1>4. /\ Fits(stack')
      /\ Holds(fs, "notify") => Holds(stack', "notify")
      /\ \A o : o # "notify" => (Holds(stack', o) <=> Holds(fs, o))
  BY <1>1, <1>2, <1>3, NotifiedFits
<1> QED
  BY <1>1, <1>4 DEF Rests

\* The wait of a roundtrip, or what is left of it while the core connects.
LEMMA RoundtripFits ==
  ASSUME NEW st, Fits(st), ~Holds(st, "reset"), NEW mark \in RoundtripMark, NEW owed,
         Roundtrip(mark, owed, st), lastReq \in Nat
  PROVE  /\ Fits(stack') /\ lastReq' \in Nat /\ lastReq' >= lastReq
         /\ \A o \in Rests : Holds(stack', o) => Holds(st, o)
         /\ Holds(st, "notify") => Holds(stack', "notify")
<1>1. CASE SendFails(st)
  BY <1>1 DEF SendFails
<1>2. CASE SendSync(TRUE, TRUE, mark, st)
  <2>1. TRUE \in BOOLEAN
    OBVIOUS
  <2> QED
    BY <1>2, <2>1, WaitFits
<1>3. CASE ConnectFor(Frame("sync", 0, TRUE, TRUE, mark), owed, st)
  <2> DEFINE f == Frame("sync", 0, TRUE, TRUE, mark)
  <2>1. f \in MFrame /\ f.op = "sync" /\ f \notin BadWaits
    <3>1. /\ \A n \in Nat : \A ctx, timed \in BOOLEAN : \A op \in {"wait", "sync"} :
              /\ Frame(op, n, ctx, timed, mark) \in MFrame
              /\ Frame(op, n, ctx, timed, mark).op = op
              /\ Frame(op, n, ctx, timed, mark) \notin BadWaits
      BY FrameKinds
    <3>2. 0 \in Nat /\ TRUE \in BOOLEAN /\ "sync" \in {"wait", "sync"}
      OBVIOUS
    <3> QED
      BY <3>1, <3>2, Zenon
  <2>2. lastReq' = lastReq /\ ConnectFor(f, owed, st)
    BY <1>3 DEF ConnectFor
  <2>3. lastReq' \in Nat /\ lastReq' >= lastReq
    BY <2>2
  <2> HIDE DEF f
  <2>4. f.op # "reset" /\ f.op # "start" /\ f.op \notin Rests
    BY <2>1 DEF Rests
  <2>5. /\ Fits(stack')
        /\ \A o \in Rests : Holds(stack', o) => f.op = o \/ Holds(st, o)
        /\ Holds(st, "notify") => Holds(stack', "notify")
    BY <2>1, <2>2, <2>4, ConnectForFits
  <2> QED
    BY <2>3, <2>4, <2>5
<1> QED
  BY <1>1, <1>2, <1>3 DEF Roundtrip

\* The steps of Core: the frame of an emission only goes with it.
LEMMA CoreStepFits ==
  ASSUME CoreTypeOK(Requests, Messages, Sources, Frames, Marks), Fits(stack), CoreStep
  PROVE  /\ Fits(stack')
         /\ \A o \in Rests : Holds(stack', o) => Holds(stack, o)
         /\ Holds(stack, "notify") => TopIs("notify") \/ Holds(stack', "notify")
<1> DEFINE S == FramesOf({"start"})
           R == FramesOf(Rests)
           Z == FramesOf({"reset"})
<1>1. Closed(S, MFrame) /\ Closed(R, MFrame) /\ Closed(Z, MFrame) /\ Closed(BadWaits, MFrame)
  BY FramesClosed DEF Rests
<1>2. \A o \in Rests : Closed(FramesOf({o}), MFrame)
  BY FramesClosed DEF Rests
<1>3. Nested(stack, S, R, Z) /\ ~Has(stack, BadWaits)
  BY DEF Fits
<1> HIDE DEF S, R, Z
<1>4. /\ Nested(stack', S, R, Z)
      /\ \A X : Closed(X, MFrame) /\ Has(stack', X) => Has(stack, X)
  BY <1>1, <1>3, MCovers, CoreStepNested DEF MFrame
<1>5. stack' \in Seq(MFrame)
  BY MCovers, SyncWakeTypes, ReturnTypes, DispatchTokenTypes, LoopStepTypes
     DEF CoreStep, CoreTypeOK, MFrame
<1>6. Holds(stack, "notify") => TopIs("notify") \/ Holds(stack', "notify")
  <2>1. \/ stack' = stack
        \/ stack # <<>> /\ stack' = Tail(stack)
        \/ \E k \in DOMAIN stack, f \in MFrame :
             SameCall(stack[k], f) /\ stack' = [stack EXCEPT ![k] = f]
    BY MCovers, CoreStepFrames DEF MFrame
  <2>2. stack \in Seq(MFrame)
    BY DEF Fits
  <2>3. CASE stack # <<>> /\ stack' = Tail(stack)
    <3>1. Holds(stack, "notify") <=> Head(stack) \in FramesOf({"notify"}) \/ Holds(stack', "notify")
      BY <2>2, <2>3, HasPopped DEF Holds
    <3> QED
      BY <2>3, <3>1 DEF TopIs, FramesOf
  <2>4. ASSUME NEW k \in DOMAIN stack, NEW f \in MFrame, SameCall(stack[k], f),
               stack' = [stack EXCEPT ![k] = f], Holds(stack, "notify")
        PROVE  Holds(stack', "notify")
    <3>1. PICK i \in DOMAIN stack : stack[i] \in MFrame /\ stack[i].op = "notify"
      BY <2>4 DEF Holds, Has, FramesOf
    <3>2. stack'[i] \in MFrame /\ stack'[i].op = "notify" /\ i \in DOMAIN stack'
      BY <2>2, <2>4, <3>1 DEF SameCall
    <3> QED
      BY <3>2 DEF Holds, Has, FramesOf
  <2> QED
    BY <2>1, <2>3, <2>4
<1> QED
  BY <1>1, <1>2, <1>3, <1>4, <1>5, <1>6 DEF Fits, Holds, S, R, Z

-----------------------------------------------------------------------------
(* The inductive invariant.                                                *)

ConnectionOK ==
  /\ connected \in BOOLEAN /\ connects \in Nat /\ link \in BOOLEAN /\ inLoop \in BOOLEAN
  /\ toServer \in Seq(Requests) /\ wire \in Seq(Messages) /\ lastReq \in Nat
  /\ mainq \in Seq(Sources)

WrapperOK ==
  /\ running \in BOOLEAN /\ bound \in BOOLEAN
  /\ registry \in Nat /\ metadata \in Nat /\ metadata_id \in Nat
  /\ generation \in Nat
  /\ entries \subseteq Entry
  /\ alive \subseteq Nat

\* What the server tells in an order of its own is finite.
ServerOK ==
  /\ server \subseteq Object /\ serial \in Nat /\ rev \in Nat
  /\ subs \subseteq [p : Nat, o : Nat]
  /\ IsFiniteSet(server) /\ IsFiniteSet(subs)
  /\ \A x \in server : IsFiniteSet(x.props)

\* A session ends with its registry, a disconnect with every proxy.  While
\* notify::connected is being emitted the wrapper may still hold the numbers
\* of proxies that are gone; the emission only ends once they are forgotten,
\* unless one of its handlers has connected again meanwhile.
Owner ==
  /\ Holds(stack, "reset") => ~connected
  /\ Holds(stack, "start") => ~running
  /\ Holds(stack, "unbound") => registry = NULL
  /\ ~running => registry = NULL
  /\ "reconnect" \notin Reentry =>
       /\ connected => {registry, metadata} \ {NULL} \subseteq alive
       /\ Owed => Holds(stack, "notify")
  /\ alive \subseteq {registry, metadata} \ {NULL}
  /\ ~connected => alive = {}
  /\ registry = metadata => registry = NULL
  /\ registry <= lastReq /\ metadata <= lastReq

MInv == ConnectionOK /\ WrapperOK /\ ServerOK /\ Fits(stack) /\ Owner

LEMMA MInvCore == MInv => CoreTypeOK(Requests, Messages, Sources, Frames, Marks)
BY DEF MInv, ConnectionOK, CoreTypeOK, Fits, MFrame

LEMMA MInvTypes == MInv => MTypeOK
BY MInvCore DEF MInv, WrapperOK, ServerOK, MTypeOK

\* A step that leaves the wrapper's own fields alone.
LEMMA OwnerKept ==
  ASSUME Owner, UNCHANGED <<connected, wrapperVars>>, lastReq \in Nat, WrapperOK,
         lastReq' \in Nat, lastReq' >= lastReq,
         stack' = stack \/ ~Holds(stack, "reset"),
         \A o \in Rests : Holds(stack', o) => Holds(stack, o),
         Owed /\ Holds(stack, "notify") => Holds(stack', "notify")
  PROVE  Owner'
BY DEF Owner, Owed, wrapperVars, WrapperOK, Rests, Holds

LEMMA KeptOK ==
  /\ WrapperOK /\ UNCHANGED wrapperVars => WrapperOK'
  /\ ServerOK /\ UNCHANGED serverVars => ServerOK'
BY DEF WrapperOK, wrapperVars, ServerOK, serverVars

\* The requests that a step of the wrapper may send.
LEMMA RequestTypes ==
  /\ NoChange \in Change
  /\ \A n \in Nat, id \in Nat, c \in Change, kind \in {"registry", "object", "set", "wipe"} :
       [kind |-> kind, n |-> n, id |-> id, c |-> c] \in Requests
BY MetadataAssumption DEF NoChange, Change, Requests, None

LEMMA SendsOne ==
  ASSUME NEW r \in Requests, Sends(<<r>>), lastReq \in Nat, toServer \in Seq(Requests)
  PROVE  toServer' \in Seq(Requests) /\ lastReq' = lastReq + 1 /\ lastReq' \in Nat
<1>1. Len(<<r>>) = 1
  OBVIOUS
<1>2. toServer \o <<r>> \in Seq(Requests)
  OBVIOUS
<1> QED
  BY <1>1, <1>2 DEF Sends

-----------------------------------------------------------------------------
(* The steps of Core.                                                      *)

LEMMA CoreStepKeeps ==
  ASSUME MInv, CoreStep, TopIs("notify") => ~Owed, UNCHANGED <<wrapperVars, serverVars>>
  PROVE  MInv'
<1>1. CoreTypeOK(Requests, Messages, Sources, Frames, Marks)
  BY MInvCore
<1>2. CoreTypeOK(Requests, Messages, Sources, Frames, Marks)'
  BY <1>1, MCovers, SyncWakeTypes, ReturnTypes, DispatchTokenTypes, LoopStepTypes DEF CoreStep
<1>3. ConnectionOK'
  BY <1>2 DEF CoreTypeOK, ConnectionOK
<1>4. WrapperOK' /\ ServerOK'
  BY KeptOK DEF MInv
<1>5. /\ Fits(stack')
      /\ \A o \in Rests : Holds(stack', o) => Holds(stack, o)
      /\ Owed /\ Holds(stack, "notify") => Holds(stack', "notify")
  BY <1>1, CoreStepFits DEF MInv
<1>6. UNCHANGED <<connected, lastReq>>
  BY DEF CoreStep, SyncWake, SyncTimeout, DrainEnd, HandlerReturn, NotifyReturn, DispatchToken,
         LoopStep
<1>7. ~Holds(stack, "reset")
  <2>1. ~(TopIs("reset") /\ ~connected)
    BY DEF CoreStep, SyncWake, SyncTimeout, DrainEnd, HandlerReturn, NotifyReturn, DispatchToken,
           LoopStep, TopIs, Iterating
  <2> QED
    BY <2>1, NoReset DEF MInv, Owner
<1>8. Owner'
  BY <1>5, <1>6, <1>7, OwnerKept DEF MInv, ConnectionOK
<1> QED
  BY <1>3, <1>4, <1>5, <1>8 DEF MInv, Fits

LEMMA ServeSyncKeeps ==
  ASSUME MInv, ServeSync \/ EnterLoop, UNCHANGED <<wrapperVars, serverVars>>
  PROVE  MInv'
<1>1. CoreTypeOK(Requests, Messages, Sources, Frames, Marks)
  BY MInvCore
<1>2. CoreTypeOK(Requests, Messages, Sources, Frames, Marks)'
  BY <1>1, MCovers, ServeSyncTypes, EnterLoopTypes
<1>3. ConnectionOK'
  BY <1>2 DEF CoreTypeOK, ConnectionOK
<1>4. WrapperOK' /\ ServerOK'
  BY KeptOK DEF MInv
<1>5. UNCHANGED <<connected, lastReq, stack>>
  BY DEF ServeSync, EnterLoop
<1>6. Owner'
  BY <1>5, OwnerKept DEF MInv, ConnectionOK
<1> QED
  BY <1>3, <1>4, <1>5, <1>6 DEF MInv, Fits

-----------------------------------------------------------------------------
(* Starting a session.                                                     *)

LEMMA OpenKeeps ==
  ASSUME MInv, ~running, connected, NEW below, Fits(below),
         \A o \in Rests : ~Holds(below, o), Open(below),
         UNCHANGED <<connected, connects, link, wire, mainq, inLoop, serverVars>>
  PROVE  MInv'
<1> DEFINE r == [kind |-> "registry", n |-> lastReq + 1, id |-> 0, c |-> NoChange]
<1>1. /\ lastReq \in Nat /\ toServer \in Seq(Requests) /\ Sends(<<r>>)
      /\ registry' = lastReq + 1 /\ alive' = alive \cup {lastReq + 1}
      /\ generation' = generation + 1 /\ running' = TRUE /\ Emit(below)
      /\ UNCHANGED <<bound, metadata, metadata_id, entries>>
  BY DEF Open, MInv, ConnectionOK
<1>2. r \in Requests
  <2>1. lastReq + 1 \in Nat /\ 0 \in Nat
    BY <1>1
  <2> QED
    BY <2>1, RequestTypes
<1> HIDE DEF r
<1>3. toServer' \in Seq(Requests) /\ lastReq' = lastReq + 1 /\ lastReq' \in Nat
  BY <1>1, <1>2, SendsOne
<1>4. Fits(stack') /\ \A o \in Rests : ~Holds(stack', o)
  BY <1>1, EmitFits DEF Rests
<1>5. ConnectionOK'
  BY <1>3 DEF MInv, ConnectionOK
<1>6. WrapperOK'
  BY <1>1 DEF MInv, WrapperOK
<1>7. ServerOK'
  BY KeptOK DEF MInv
<1>8. Owner'
  <2>1. /\ registry = NULL /\ registry' # NULL /\ metadata' = metadata
        /\ registry' = lastReq + 1 /\ metadata \in Nat /\ metadata <= lastReq
        /\ alive' = alive \cup {registry'} /\ connected'
        /\ "reconnect" \notin Reentry => {registry, metadata} \ {NULL} \subseteq alive
        /\ alive \subseteq {registry, metadata} \ {NULL}
    BY <1>1 DEF MInv, Owner, WrapperOK, NULL
  <2>2. registry' # metadata' /\ registry' <= lastReq' /\ metadata' <= lastReq'
    BY <1>1, <1>3, <2>1
  <2>3. /\ "reconnect" \notin Reentry => {registry', metadata'} \ {NULL} \subseteq alive'
        /\ alive' \subseteq {registry', metadata'} \ {NULL}
    BY <2>1
  <2>4. /\ ~Holds(stack', "start") /\ ~Holds(stack', "unbound") /\ ~Holds(stack', "reset")
        /\ running'
    BY <1>1, <1>4 DEF Rests
  <2> QED
    BY <2>1, <2>2, <2>3, <2>4 DEF Owner, Owed, Holds
<1> QED
  BY <1>4, <1>5, <1>6, <1>7, <1>8 DEF MInv, Fits

\* A sync() that fails with its start.
LEMMA FailedFits ==
  ASSUME NEW st, Fits(st)
  PROVE  /\ Fits(Failed(st))
         /\ \A o : Holds(Failed(st), o) => Holds(st, o)
         /\ Holds(st, "notify") => Holds(Failed(st), "notify")
<1>1. CASE st # <<>> /\ Head(st).op = "msync"
  BY <1>1, PopFits DEF Failed
<1>2. CASE ~(st # <<>> /\ Head(st).op = "msync")
  BY <1>2 DEF Failed
<1> QED
  BY <1>1, <1>2

LEMMA OpenFailsKeeps ==
  ASSUME MInv, ~running, NEW below, Fits(below), ~Holds(stack, "reset"),
         \A o \in Rests : Holds(below, o) => Holds(stack, o),
         Holds(stack, "notify") => Holds(below, "notify"), OpenFails(below),
         UNCHANGED <<connected, connects, link, wire, mainq, inLoop, serverVars>>
  PROVE  MInv'
<1>1. /\ stack' = Failed(below) /\ registry = NULL
      /\ UNCHANGED <<lastReq, toServer, wrapperVars>>
  BY DEF OpenFails, MInv, Owner, wrapperVars
<1>2. /\ Fits(stack')
      /\ \A o \in Rests : Holds(stack', o) => Holds(stack, o)
      /\ Holds(stack, "notify") => Holds(stack', "notify")
  BY <1>1, FailedFits
<1>3. ConnectionOK'
  BY <1>1 DEF MInv, ConnectionOK
<1>4. WrapperOK' /\ ServerOK'
  BY <1>1, KeptOK DEF MInv
<1>5. Owner'
  BY <1>1, <1>2, OwnerKept DEF MInv, ConnectionOK
<1> QED
  BY <1>2, <1>3, <1>4, <1>5 DEF MInv, Fits

\* A connection made while no reset is owed, or under a handler that may
\* connect again.
LEMMA ConnectedKeeps ==
  ASSUME MInv, MayConnect(Owed), Connected, ~Holds(stack, "reset"), Fits(stack'),
         \A o \in {"reset", "unbound"} : Holds(stack', o) => Holds(stack, o),
         Holds(stack', "start") => ~running,
         UNCHANGED <<lastReq, mainq, inLoop, wrapperVars, serverVars>>
  PROVE  MInv'
<1>1. /\ connected' /\ connects' = connects + 1 /\ link' /\ toServer' = <<>> /\ wire' = <<>>
      /\ connected' \in BOOLEAN /\ link' \in BOOLEAN /\ ~connected
  BY DEF Connected
<1>2. ConnectionOK'
  BY <1>1 DEF MInv, ConnectionOK
<1>3. WrapperOK' /\ ServerOK'
  BY KeptOK DEF MInv
<1>4. Owner'
  <2>1. "reconnect" \notin Reentry => ~Owed
    <3>1. Emitting <=> Holds(stack, "notify")
      BY EmittingHeld DEF MInv, Fits
    <3> QED
      BY <3>1 DEF MayConnect, MInv, Owner
  <2>2. "reconnect" \notin Reentry => registry = NULL /\ metadata = NULL
    BY <1>1, <2>1 DEF Owed
  <2>3. ~Holds(stack', "reset") /\ (Holds(stack', "unbound") => Holds(stack, "unbound"))
    OBVIOUS
  <2>4. UNCHANGED <<running, registry, metadata, alive, lastReq>>
    BY DEF wrapperVars
  <2> QED
    BY <1>1, <2>2, <2>3, <2>4 DEF MInv, Owner, Owed, Holds
<1> QED
  BY <1>2, <1>3, <1>4 DEF MInv, Fits

LEMMA ConnectKeeps ==
  ASSUME MInv, MayConnect(Owed), Connect, UNCHANGED <<wrapperVars, serverVars>>
  PROVE  MInv'
<1>1. /\ Connected /\ stack' = Notified(stack) /\ ~TopIs("reset")
      /\ UNCHANGED <<lastReq, mainq, inLoop>>
  BY DEF Connect, MayCall, TopIs
<1>2. ~Holds(stack, "reset")
  BY <1>1, NoReset DEF MInv
<1>3. /\ Fits(stack')
      /\ \A o : o # "notify" => (Holds(stack', o) <=> Holds(stack, o))
  BY <1>1, <1>2, NotifiedFits DEF MInv
<1>4. Holds(stack', "start") => ~running
  BY <1>3 DEF MInv, Owner
<1> QED
  BY <1>1, <1>2, <1>3, <1>4, ConnectedKeeps

LEMMA StartOnKeeps ==
  ASSUME MInv, ~running, \A o \in Rests : ~Holds(stack, o), NEW below, Fits(below),
         \A o \in Rests : ~Holds(below, o),
         Holds(stack, "notify") => Holds(below, "notify"), StartOn(below),
         UNCHANGED <<mainq, inLoop, serverVars>>
  PROVE  MInv'
<1>1. ~Holds(stack, "reset") /\ ~Holds(below, "reset") /\ "start" \in Rests
  BY DEF Rests
<1>2. CASE connected
  <2>1. /\ UNCHANGED <<connected, connects, link, wire>>
        /\ Open(below) \/ OpenFails(below)
    BY <1>2 DEF StartOn
  <2> QED
    BY <1>1, <1>2, <2>1, OpenKeeps, OpenFailsKeeps
<1>3. CASE ~connected
  <2>1. ConnectFor(Rest("start"), Owed, below) /\ UNCHANGED wrapperVars
    BY <1>3 DEF StartOn
  <2>2. Rest("start") \in MFrame /\ Rest("start").op = "start" /\ Rest("start") \notin BadWaits
    BY FrameKinds DEF Rests, BadWaits
  <2>3. Fits(stack') /\ \A o \in Rests : Holds(stack', o) => o = "start"
    BY <1>1, <2>1, <2>2, ConnectForFits
  <2>4. Connected /\ MayConnect(Owed) /\ UNCHANGED lastReq
    BY <2>1 DEF ConnectFor
  <2>5. ~Holds(stack', "reset") /\ ~Holds(stack', "unbound")
    BY <2>3 DEF Rests
  <2> QED
    BY <1>1, <2>1, <2>3, <2>4, <2>5, ConnectedKeeps
<1> QED
  BY <1>2, <1>3

LEMMA StartKeeps == MInv /\ Start => MInv'
<1> SUFFICES ASSUME MInv, Start
             PROVE  MInv'
  OBVIOUS
<1>1. \A o \in Rests : ~Holds(stack, o)
  BY RestsHeld DEF Start, Calls, MInv
<1>2. ~running /\ StartOn(stack) /\ UNCHANGED <<mainq, inLoop, serverVars>>
  BY DEF Start
<1> QED
  BY <1>1, <1>2, StartOnKeeps DEF MInv

LEMMA StartResumeKeeps == MInv /\ StartResume => MInv'
<1> SUFFICES ASSUME MInv, StartResume
             PROVE  MInv'
  OBVIOUS
<1>1. /\ stack # <<>> /\ Head(stack).op = "start"
      /\ UNCHANGED <<connected, connects, link, wire, mainq, inLoop, serverVars>>
      /\ (connected /\ Open(Tail(stack))) \/ OpenFails(Tail(stack))
  BY DEF StartResume, TopIs
<1>2. /\ Fits(Tail(stack)) /\ \A o \in Rests : ~Holds(Tail(stack), o)
      /\ Holds(stack, "start")
      /\ Holds(stack, "notify") => Holds(Tail(stack), "notify")
  BY <1>1, PopFits DEF MInv
<1>3. ~running
  BY <1>2 DEF MInv, Owner
<1>4. ~Holds(stack, "reset")
  BY <1>1, NoReset DEF MInv, TopIs
<1>5. CASE connected /\ Open(Tail(stack))
  BY <1>1, <1>2, <1>3, <1>5, OpenKeeps
<1>6. CASE OpenFails(Tail(stack))
  BY <1>1, <1>2, <1>3, <1>4, <1>6, OpenFailsKeeps
<1> QED
  BY <1>1, <1>5, <1>6

\* A roundtrip in place of the innermost frame, or above it.
LEMMA RoundtripKeeps ==
  ASSUME MInv, NEW mark \in RoundtripMark, NEW below, Fits(below), ~Holds(below, "reset"),
         ~Holds(stack, "reset"), \A o \in Rests : Holds(below, o) => Holds(stack, o),
         Holds(stack, "notify") => Holds(below, "notify"),
         Roundtrip(mark, Owed, below), UNCHANGED <<mainq, inLoop, wrapperVars, serverVars>>
  PROVE  MInv'
<1>1. CoreTypeOK(Requests, Messages, Sources, Frames, Marks)
  BY MInvCore
<1>2. mark \in Marks /\ below \in Seq(FrameType(Frames, Marks)) /\ lastReq \in Nat
  BY DEF Marks, RoundtripMark, Fits, MFrame, MInv, ConnectionOK
<1>3. CoreTypeOK(Requests, Messages, Sources, Frames, Marks)'
  <2>1. "sync" \in Frames
    BY DEF Frames, CoreFrames
  <2> QED
    BY <1>1, <1>2, <2>1, MCovers, RoundtripTypes
<1>4. ConnectionOK'
  BY <1>3 DEF CoreTypeOK, ConnectionOK
<1>5. WrapperOK' /\ ServerOK'
  BY KeptOK DEF MInv
<1>6. /\ Fits(stack') /\ lastReq' \in Nat /\ lastReq' >= lastReq
      /\ \A o \in Rests : Holds(stack', o) => Holds(below, o)
      /\ Holds(below, "notify") => Holds(stack', "notify")
  BY <1>2, RoundtripFits
<1>7. CASE UNCHANGED connected
  <2>1. Owner'
    BY <1>2, <1>6, <1>7, OwnerKept DEF MInv
  <2> QED
    BY <1>4, <1>5, <1>6, <2>1 DEF MInv, Fits
<1>8. CASE ConnectFor(Frame("sync", 0, TRUE, TRUE, mark), Owed, below)
  <2>1. Connected /\ MayConnect(Owed) /\ UNCHANGED lastReq
    BY <1>8 DEF ConnectFor
  <2>2. /\ \A o \in {"reset", "unbound"} : Holds(stack', o) => Holds(stack, o)
        /\ Holds(stack', "start") => Holds(stack, "start")
    BY <1>6 DEF Rests
  <2>3. Holds(stack', "start") => ~running
    BY <2>2 DEF MInv, Owner
  <2> QED
    BY <1>6, <2>1, <2>2, <2>3, ConnectedKeeps
<1> QED
  BY <1>7, <1>8 DEF Roundtrip

\* A call that resumes once the core has connected.
LEMMA SyncResumeKeeps ==
  ASSUME MInv, SyncResume(Head(stack).mark), UNCHANGED <<wrapperVars, serverVars>>
  PROVE  MInv'
<1> DEFINE f == Head(stack)
           below == Tail(stack)
<1>1. /\ stack # <<>> /\ f.op = "sync" /\ ~TopIs("reset")
      /\ UNCHANGED <<connected, connects, link, wire, mainq, inLoop>>
      /\ SendSync(f.ctx, f.timed, f.mark, below) \/ SendFails(below)
  BY DEF SyncResume, TopIs
<1>2. /\ Fits(below) /\ ~Holds(below, "reset") /\ f \in MFrame /\ f \notin BadWaits
      /\ \A o : Holds(stack, o) <=> f.op = o \/ Holds(below, o)
  BY <1>1, PopFits DEF MInv
<1>3. ~Holds(stack, "reset")
  BY <1>1, NoReset DEF MInv
<1>4. /\ f.mark \in RoundtripMark /\ f.mark \in Marks /\ f.ctx \in BOOLEAN
      /\ f.timed \in BOOLEAN /\ lastReq \in Nat
  BY <1>1, <1>2 DEF BadWaits, MFrame, FrameType, MInv, ConnectionOK
<1>5. CoreTypeOK(Requests, Messages, Sources, Frames, Marks)'
  BY <1>4, MInvCore, MCovers, SyncResumeTypes
<1>6. ConnectionOK'
  BY <1>5 DEF CoreTypeOK, ConnectionOK
<1>7. WrapperOK' /\ ServerOK'
  BY KeptOK DEF MInv
<1> HIDE DEF f, below
<1>8. /\ Fits(stack') /\ lastReq' \in Nat /\ lastReq' >= lastReq
      /\ \A o \in Rests : Holds(stack', o) => Holds(below, o)
      /\ Holds(below, "notify") => Holds(stack', "notify")
  <2>1. CASE SendFails(below)
    BY <1>2, <1>4, <2>1 DEF SendFails
  <2>2. CASE SendSync(f.ctx, f.timed, f.mark, below)
    BY <1>2, <1>4, <2>2, WaitFits
  <2> QED
    BY <1>1, <2>1, <2>2
<1>9. Owner'
  <2>1. /\ \A o \in Rests : Holds(stack', o) => Holds(stack, o)
        /\ Holds(stack, "notify") => Holds(stack', "notify")
    BY <1>1, <1>2, <1>8
  <2> QED
    BY <1>1, <1>3, <1>4, <1>8, <2>1, OwnerKept DEF MInv
<1> QED
  BY <1>6, <1>7, <1>8, <1>9 DEF MInv, Fits

LEMMA MarkTypes ==
  ASSUME MInv, NEW second \in BOOLEAN
  PROVE  Mark(second) \in RoundtripMark
BY DEF Mark, RoundtripMark, MInv, WrapperOK, ServerOK

LEMMA SyncKeeps == MInv /\ Sync => MInv'
<1> SUFFICES ASSUME MInv, Sync
             PROVE  MInv'
  OBVIOUS
<1>1. UNCHANGED <<mainq, inLoop, serverVars>> /\ ~TopIs("reset")
  BY DEF Sync, Calls, MayCall, TopIs
<1>2. ~Holds(stack, "reset") /\ Fits(stack)
  BY <1>1, NoReset DEF MInv
<1>3. CASE running
  <2>1. Roundtrip(Mark(~bound), Owed, stack) /\ UNCHANGED wrapperVars
    BY <1>3 DEF Sync
  <2>2. Mark(~bound) \in RoundtripMark
    BY MarkTypes
  <2> QED
    BY <1>1, <1>2, <2>1, <2>2, RoundtripKeeps
<1>4. CASE ~running
  <2> DEFINE below == <<Rest("msync")>> \o stack
  <2>1. StartOn(below) /\ \A o \in Rests : ~Holds(stack, o)
    BY <1>4, RestsHeld DEF Sync, Calls, MInv
  <2>2. Fits(below) /\ \A o : Holds(below, o) <=> o = "msync" \/ Holds(stack, o)
    BY <1>2, RestFits DEF Rests
  <2> HIDE DEF below
  <2>3. /\ \A o \in Rests : ~Holds(below, o)
        /\ Holds(stack, "notify") => Holds(below, "notify")
    BY <2>1, <2>2 DEF Rests
  <2> QED
    BY <1>1, <1>4, <2>1, <2>2, <2>3, StartOnKeeps
<1> QED
  BY <1>3, <1>4

LEMMA SyncStartedKeeps == MInv /\ SyncStarted => MInv'
<1> SUFFICES ASSUME MInv, SyncStarted
             PROVE  MInv'
  OBVIOUS
<1>1. /\ stack # <<>> /\ Head(stack).op = "msync" /\ ~TopIs("reset")
      /\ Roundtrip(Mark(~bound), Owed, Tail(stack))
      /\ UNCHANGED <<mainq, inLoop, wrapperVars, serverVars>>
  BY DEF SyncStarted, TopIs
<1>2. ~Holds(stack, "reset")
  BY <1>1, NoReset DEF MInv
<1>3. /\ Fits(Tail(stack)) /\ ~Holds(Tail(stack), "reset")
      /\ \A o \in Rests : Holds(Tail(stack), o) => Holds(stack, o)
      /\ Holds(stack, "notify") => Holds(Tail(stack), "notify")
  BY <1>1, PopFits DEF MInv
<1>4. Mark(~bound) \in RoundtripMark
  BY MarkTypes
<1> QED
  BY <1>1, <1>2, <1>3, <1>4, RoundtripKeeps

LEMMA SyncDrainEndKeeps == MInv /\ SyncDrainEnd => MInv'
<1> SUFFICES ASSUME MInv, SyncDrainEnd
             PROVE  MInv'
  OBVIOUS
<1> DEFINE m == Head(stack).mark
           again == [m EXCEPT !.second = FALSE]
<1>1. /\ stack # <<>> /\ Head(stack).op = "drain" /\ ~TopIs("reset")
      /\ UNCHANGED <<mainq, inLoop, wrapperVars, serverVars>>
  BY DEF SyncDrainEnd, TopIs
<1>2. ~Holds(stack, "reset")
  BY <1>1, NoReset DEF MInv
<1>3. /\ Fits(Tail(stack)) /\ ~Holds(Tail(stack), "reset")
      /\ Head(stack) \in MFrame /\ Head(stack) \notin BadWaits
      /\ \A o \in Rests : Holds(Tail(stack), o) => Holds(stack, o)
      /\ Holds(stack, "notify") => Holds(Tail(stack), "notify")
  BY <1>1, PopFits DEF MInv
<1>4. m \in RoundtripMark
  BY <1>1, <1>3 DEF BadWaits
<1>5. again \in RoundtripMark
  BY <1>4 DEF RoundtripMark
<1>6. CASE Roundtrip(again, Owed, Tail(stack))
  <2> HIDE DEF again
  <2> QED
    BY <1>1, <1>2, <1>3, <1>5, <1>6, RoundtripKeeps
<1>7. CASE DrainEnd
  BY <1>1, <1>7, CoreStepKeeps DEF CoreStep, TopIs
<1> QED
  BY <1>6, <1>7 DEF SyncDrainEnd, DrainEnd

-----------------------------------------------------------------------------
(* Ending a session.                                                       *)

\* Proxies that are destroyed; what the server serves stays finite.
LEMMA DestroyKeeps ==
  ASSUME MInv, NEW p, Destroy(p), UNCHANGED <<server, serial, rev>>
  PROVE  ServerOK' /\ alive' \subseteq Nat
<1>1. subs' \subseteq subs /\ alive' \subseteq alive
  BY DEF Destroy
<1>2. IsFiniteSet(subs')
  BY <1>1, FS_Subset DEF MInv, ServerOK
<1> QED
  BY <1>1, <1>2 DEF MInv, ServerOK, WrapperOK

LEMMA DestroyBoundKeeps ==
  ASSUME MInv, ~Holds(stack, "reset"), NEW below, Fits(below), ~Holds(below, "reset"),
         \A o \in {"start", "unbound"} : Holds(below, o) => Holds(stack, o),
         Holds(stack, "notify") => Holds(below, "notify"), DestroyBoundProxy(below), mainq' \in Seq(Sources),
         UNCHANGED <<connected, connects, link, toServer, wire, lastReq, inLoop,
                     running, registry, generation, server, serial, rev>>
  PROVE  MInv'
<1>1. /\ Destroy(metadata) /\ metadata' = NULL /\ metadata_id' = 0 /\ bound' = FALSE
      /\ entries' \subseteq entries
  BY DEF DestroyBoundProxy
<1>2. /\ Fits(stack')
      /\ \A o \in {"start", "unbound", "reset"} : Holds(stack', o) => Holds(below, o)
      /\ Holds(below, "notify") => Holds(stack', "notify")
  <2>1. CASE ~bound
    BY <2>1 DEF DestroyBoundProxy
  <2>2. CASE bound
    <3> DEFINE rest == <<Rest("unbind")>> \o below
    <3>1. Emit(rest)
      BY <2>2 DEF DestroyBoundProxy
    <3>2. Fits(rest) /\ \A o : Holds(rest, o) <=> o = "unbind" \/ Holds(below, o)
      BY RestFits DEF Rests
    <3> HIDE DEF rest
    <3>3. /\ Fits(stack')
          /\ \A o \in Rests : Holds(stack', o) => Holds(rest, o)
          /\ Holds(rest, "notify") => Holds(stack', "notify")
      BY <3>1, <3>2, EmitFits
    <3> QED
      BY <3>2, <3>3 DEF Rests
  <2> QED
    BY <2>1, <2>2
<1>3. ConnectionOK'
  BY DEF MInv, ConnectionOK
<1>4. ServerOK' /\ alive' \subseteq Nat
  BY <1>1, DestroyKeeps
<1>5. WrapperOK'
  BY <1>1, <1>4 DEF MInv, WrapperOK, NULL
<1>6. Owner'
  <2>1. /\ \A o \in {"start", "unbound"} : Holds(stack', o) => Holds(stack, o)
        /\ ~Holds(stack', "reset")
    BY <1>2
  <2>2. /\ "reconnect" \notin Reentry /\ connected =>
             {registry, metadata'} \ {NULL} \subseteq alive'
        /\ alive' \subseteq {registry, metadata'} \ {NULL}
        /\ ~connected => alive' = {}
    BY <1>1 DEF Destroy, MInv, Owner
  <2>3. NULL <= lastReq
    BY DEF MInv, ConnectionOK, NULL
  <2>4. "reconnect" \notin Reentry /\ Owed' => Holds(stack', "notify")
    BY <1>1, <1>2 DEF MInv, Owner, Owed
  <2> QED
    BY <1>1, <2>1, <2>2, <2>3, <2>4 DEF MInv, Owner, Holds
<1> QED
  BY <1>2, <1>3, <1>4, <1>5, <1>6 DEF MInv, Fits

LEMMA StopKeeps == MInv /\ Stop => MInv'
<1> SUFFICES ASSUME MInv, Stop
             PROVE  MInv'
  OBVIOUS
<1> DEFINE below == <<Rest("halt")>> \o stack
<1>1. /\ ~TopIs("reset") /\ DestroyBoundProxy(below)
      /\ UNCHANGED <<connected, connects, link, toServer, wire, lastReq, mainq, inLoop,
                     running, registry, generation, server, serial, rev>>
  BY DEF Stop, MayCall, TopIs
<1>2. Fits(stack) /\ ~Holds(stack, "reset")
  BY <1>1, NoReset DEF MInv
<1>3. Fits(below) /\ \A o : Holds(below, o) <=> o = "halt" \/ Holds(stack, o)
  BY <1>2, RestFits DEF Rests
<1>4. mainq' \in Seq(Sources)
  BY <1>1 DEF MInv, ConnectionOK
<1> HIDE DEF below
<1>5. /\ ~Holds(below, "reset")
      /\ \A o \in {"start", "unbound"} : Holds(below, o) => Holds(stack, o)
      /\ Holds(stack, "notify") => Holds(below, "notify")
  BY <1>2, <1>3
<1> QED
  BY <1>1, <1>2, <1>3, <1>4, <1>5, DestroyBoundKeeps

LEMMA NotRunningFits ==
  ASSUME NEW below, Fits(below), ~Holds(below, "reset"), NotRunning(below)
  PROVE  /\ Fits(stack') /\ running' = FALSE /\ entries' \subseteq entries
         /\ \A o \in Rests : Holds(stack', o) => o = "clear" \/ Holds(below, o)
         /\ Holds(below, "notify") => Holds(stack', "notify")
<1>1. running' = FALSE /\ entries' \subseteq entries
  BY DEF NotRunning
<1>2. CASE ~running
  BY <1>1, <1>2 DEF NotRunning
<1>3. CASE running
  <2> DEFINE rest == <<Rest("clear")>> \o below
  <2>1. Emit(rest)
    BY <1>3 DEF NotRunning
  <2>2. Fits(rest) /\ \A o : Holds(rest, o) <=> o = "clear" \/ Holds(below, o)
    BY RestFits DEF Rests
  <2> HIDE DEF rest
  <2>3. /\ Fits(stack')
        /\ \A o \in Rests : Holds(stack', o) => Holds(rest, o)
        /\ Holds(rest, "notify") => Holds(stack', "notify")
    BY <2>1, <2>2, EmitFits DEF Rests
  <2> QED
    BY <1>1, <2>2, <2>3
<1> QED
  BY <1>2, <1>3

LEMMA HaltKeeps == MInv /\ Halt => MInv'
<1> SUFFICES ASSUME MInv, Halt
             PROVE  MInv'
  OBVIOUS
<1>1. /\ stack # <<>> /\ Head(stack).op = "halt" /\ ~TopIs("reset")
      /\ Destroy(registry) /\ registry' = NULL
      /\ generation' = generation + 1 /\ NotRunning(Tail(stack))
      /\ UNCHANGED <<connected, connects, link, toServer, wire, lastReq, mainq, inLoop,
                     bound, metadata, metadata_id, server, serial, rev>>
  BY DEF Halt, TopIs
<1>2. ~Holds(stack, "reset")
  BY <1>1, NoReset DEF MInv
<1>3. /\ Fits(Tail(stack)) /\ ~Holds(Tail(stack), "reset")
      /\ Holds(stack, "notify") => Holds(Tail(stack), "notify")
  BY <1>1, PopFits DEF MInv
<1>4. /\ Fits(stack') /\ running' = FALSE /\ entries' \subseteq entries
      /\ \A o \in Rests : Holds(stack', o) => o = "clear" \/ Holds(Tail(stack), o)
      /\ Holds(Tail(stack), "notify") => Holds(stack', "notify")
  BY <1>1, <1>3, NotRunningFits
<1>5. ConnectionOK'
  BY <1>1 DEF MInv, ConnectionOK
<1>6. ServerOK' /\ alive' \subseteq Nat
  BY <1>1, DestroyKeeps
<1>7. WrapperOK'
  <2>1. registry' \in Nat /\ generation' \in Nat /\ entries' \subseteq Entry
    BY <1>1, <1>4 DEF MInv, WrapperOK, NULL
  <2>2. running' \in BOOLEAN /\ UNCHANGED <<bound, metadata, metadata_id>>
    BY <1>1, <1>4
  <2> QED
    BY <1>6, <2>1, <2>2 DEF MInv, WrapperOK
<1>8. Owner'
  <2>1. ~Holds(stack', "reset")
    BY <1>3, <1>4 DEF Rests
  <2>2. /\ "reconnect" \notin Reentry /\ connected =>
             {NULL, metadata} \ {NULL} \subseteq alive'
        /\ alive' \subseteq {NULL, metadata} \ {NULL}
        /\ ~connected => alive' = {}
    BY <1>1 DEF Destroy, MInv, Owner
  <2>3. NULL <= lastReq
    BY DEF MInv, ConnectionOK, NULL
  <2>4. "reconnect" \notin Reentry /\ Owed' => Holds(stack', "notify")
    BY <1>1, <1>3, <1>4 DEF MInv, Owner, Owed
  <2> QED
    BY <1>1, <1>2, <1>4, <2>1, <2>2, <2>3, <2>4 DEF MInv, Owner, Holds
<1> QED
  BY <1>4, <1>5, <1>6, <1>7, <1>8 DEF MInv, Fits

LEMMA UnboundKeeps == MInv /\ Unbound => MInv'
<1> SUFFICES ASSUME MInv, Unbound
             PROVE  MInv'
  OBVIOUS
<1>1. /\ stack # <<>> /\ Head(stack).op = "unbound" /\ ~TopIs("reset")
      /\ NotRunning(Tail(stack))
      /\ UNCHANGED <<connected, connects, link, toServer, wire, lastReq, mainq, inLoop,
                     bound, registry, metadata, metadata_id, generation, alive, serverVars>>
  BY DEF Unbound, TopIs
<1>2. ~Holds(stack, "reset")
  BY <1>1, NoReset DEF MInv
<1>3. /\ Fits(Tail(stack)) /\ ~Holds(Tail(stack), "reset") /\ Holds(stack, "unbound")
      /\ Holds(stack, "notify") => Holds(Tail(stack), "notify")
  BY <1>1, PopFits DEF MInv
<1>4. /\ Fits(stack') /\ running' = FALSE /\ entries' \subseteq entries
      /\ \A o \in Rests : Holds(stack', o) => o = "clear" \/ Holds(Tail(stack), o)
      /\ Holds(Tail(stack), "notify") => Holds(stack', "notify")
  BY <1>1, <1>3, NotRunningFits
<1>5. ConnectionOK'
  BY <1>1 DEF MInv, ConnectionOK
<1>6. ServerOK'
  BY <1>1, KeptOK DEF MInv
<1>7. WrapperOK'
  BY <1>1, <1>4 DEF MInv, WrapperOK
<1>8. Owner'
  <2>1. ~Holds(stack', "reset") /\ registry = NULL
    BY <1>3, <1>4 DEF Rests, MInv, Owner
  <2>2. "reconnect" \notin Reentry /\ Owed' => Holds(stack', "notify")
    BY <1>1, <1>3, <1>4 DEF MInv, Owner, Owed
  <2> QED
    BY <1>1, <1>2, <1>4, <2>1, <2>2 DEF MInv, Owner, Holds
<1> QED
  BY <1>4, <1>5, <1>6, <1>7, <1>8 DEF MInv, Fits

LEMMA ResetKeeps == MInv /\ Reset => MInv'
<1> SUFFICES ASSUME MInv, Reset
             PROVE  MInv'
  OBVIOUS
<1> DEFINE rest == <<Rest("unbound")>> \o Tail(stack)
<1>1. /\ stack # <<>> /\ Head(stack).op = "reset"
      /\ registry' = NULL /\ metadata' = NULL /\ metadata_id' = 0
      /\ generation' = generation + 1 /\ bound' = FALSE
      /\ Emit(rest) \/ stack' = rest
      /\ UNCHANGED <<connected, connects, link, toServer, wire, lastReq, mainq, inLoop,
                     running, entries, alive, serverVars>>
  BY DEF Reset, TopIs
<1>2. /\ Fits(Tail(stack)) /\ ~Holds(Tail(stack), "reset") /\ Holds(stack, "reset")
      /\ Holds(Tail(stack), "start") => Holds(stack, "start")
  BY <1>1, PopFits DEF MInv
<1>3. Fits(rest) /\ \A o : Holds(rest, o) <=> o = "unbound" \/ Holds(Tail(stack), o)
  BY <1>2, RestFits DEF Rests
<1> HIDE DEF rest
<1>4. /\ Fits(stack') /\ ~Holds(stack', "reset")
      /\ Holds(stack', "start") => Holds(stack, "start")
  <2>1. CASE stack' = rest
    BY <1>2, <1>3, <2>1
  <2>2. CASE Emit(rest)
    BY <1>2, <1>3, <2>2, EmitFits DEF Rests
  <2> QED
    BY <1>1, <2>1, <2>2
<1>5. ConnectionOK'
  BY <1>1 DEF MInv, ConnectionOK
<1>6. ServerOK'
  BY <1>1, KeptOK DEF MInv
<1>7. WrapperOK'
  <2>1. /\ registry' \in Nat /\ metadata' \in Nat /\ metadata_id' \in Nat
        /\ generation' \in Nat
    BY <1>1 DEF MInv, WrapperOK, NULL
  <2>2. bound' \in BOOLEAN /\ UNCHANGED <<running, entries, alive>>
    BY <1>1
  <2> QED
    BY <2>1, <2>2 DEF MInv, WrapperOK
<1>8. Owner'
  <2>1. ~connected /\ alive = {}
    BY <1>2 DEF MInv, Owner
  <2>2. NULL <= lastReq
    BY DEF MInv, ConnectionOK, NULL
  <2> QED
    BY <1>1, <1>4, <2>1, <2>2 DEF MInv, Owner, Owed, Holds
<1> QED
  BY <1>4, <1>5, <1>6, <1>7, <1>8 DEF MInv, Fits

\* The frames of a disconnect: in an emission, none.
LEMMA DisconnectFits ==
  ASSUME MInv, DisconnectCore
  PROVE  /\ Fits(stack') /\ Holds(stack', "notify")
         /\ Emitting => stack' = stack
         /\ ~Emitting => stack' = <<Rest("reset")>> \o (<<Notify>> \o stack)
         /\ \A o : Holds(stack', o) => o = "notify" \/ o = "reset" \/ Holds(stack, o)
<1> DEFINE r == Rest("reset")
<1>1. ~TopIs("reset") /\ stack' = IF Emitting THEN stack ELSE <<r, Notify>> \o stack
  BY DEF DisconnectCore, DisconnectFor, MayCall, TopIs
<1>2. Fits(stack) /\ ~Holds(stack, "reset") /\ stack \in Seq(MFrame)
  BY <1>1, NoReset DEF MInv, Fits
<1>3. CASE Emitting
  BY <1>1, <1>2, <1>3, EmittingHeld
<1>4. CASE ~Emitting
  <2>1. r \in MFrame /\ Notify \in MFrame /\ Notify.op = "notify" /\ Notify \notin BadWaits
    BY FrameKinds DEF Rests, BadWaits
  <2> DEFINE st == <<Notify>> \o stack
  <2>2. Fits(st) /\ \A o : Holds(st, o) <=> Notify.op = o \/ Holds(stack, o)
    BY <1>2, <2>1, PushFits
  <2>3. ~Holds(st, "reset")
    BY <1>2, <2>1, <2>2
  <2> HIDE DEF r
  <2>4. stack' = <<r>> \o st
    BY <1>1, <1>2, <1>4, <2>1, TwoPushed
  <2> HIDE DEF st
  <2>5. /\ Fits(<<Rest("reset")>> \o st)
        /\ \A o : Holds(<<Rest("reset")>> \o st, o) <=> o = "reset" \/ Holds(st, o)
    <3>1. "reset" \in Rests \cup {"msync"}
      BY DEF Rests
    <3> QED
      BY <2>2, <2>3, <3>1, RestFits
  <2> QED
    BY <1>4, <2>1, <2>2, <2>4, <2>5 DEF r, st
<1> QED
  BY <1>3, <1>4

LEMMA DisconnectCoreKeeps == MInv /\ DisconnectCore => MInv'
<1> SUFFICES ASSUME MInv, DisconnectCore
             PROVE  MInv'
  OBVIOUS
<1>1. /\ connected /\ connected' = FALSE /\ link' = FALSE
      /\ toServer' = <<>> /\ wire' = <<>> /\ connects' = connects
      /\ alive' = {} /\ subs' = {}
      /\ UNCHANGED <<lastReq, mainq, inLoop, running, bound, registry, metadata,
                     metadata_id, generation, entries, server, serial, rev>>
  BY DEF DisconnectCore, DisconnectFor, Disconnected
<1>2. /\ Fits(stack') /\ Holds(stack', "notify")
      /\ \A o \in {"start", "unbound"} : Holds(stack', o) => Holds(stack, o)
  BY DisconnectFits
<1>3. ConnectionOK'
  <2>1. toServer' \in Seq(Requests) /\ wire' \in Seq(Messages)
    BY <1>1
  <2>2. connected' \in BOOLEAN /\ link' \in BOOLEAN
    BY <1>1
  <2> QED
    BY <1>1, <2>1, <2>2 DEF MInv, ConnectionOK
<1>4. ServerOK'
  BY <1>1, FS_EmptySet DEF MInv, ServerOK
<1>5. WrapperOK'
  BY <1>1 DEF MInv, WrapperOK
<1>6. Owner'
  BY <1>1, <1>2 DEF MInv, Owner, Holds
<1> QED
  BY <1>2, <1>3, <1>4, <1>5, <1>6 DEF MInv, Fits

LEMMA RestartKeeps ==
  ASSUME MInv, Restart, UNCHANGED <<wrapperVars, serverVars>>
  PROVE  MInv'
<1> DEFINE st == <<Rest("reset")>> \o stack
<1>1. /\ ~TopIs("reset") /\ stack' = st /\ ~connected
      /\ UNCHANGED <<connected, connects, link, toServer, wire, lastReq, mainq, inLoop>>
  BY DEF Restart, RestartFor, TopIs, Push, Owed
<1>2. Fits(stack) /\ ~Holds(stack, "reset")
  BY <1>1, NoReset DEF MInv
<1>3. Fits(st) /\ \A o : Holds(st, o) <=> o = "reset" \/ Holds(stack, o)
  BY <1>2, RestFits DEF Rests
<1> HIDE DEF st
<1>4. ConnectionOK'
  BY <1>1 DEF MInv, ConnectionOK
<1>5. WrapperOK' /\ ServerOK'
  BY KeptOK DEF MInv
<1>6. Owner'
  <2>1. \A o \in {"start", "unbound", "notify"} : Holds(stack', o) <=> Holds(stack, o)
    BY <1>1, <1>3
  <2>2. UNCHANGED <<connected, running, registry, metadata, alive, lastReq>>
    BY <1>1 DEF wrapperVars
  <2> QED
    BY <1>1, <2>1, <2>2 DEF MInv, Owner, Owed, Holds
<1> QED
  BY <1>1, <1>3, <1>4, <1>5, <1>6 DEF MInv, Fits

LEMMA ClearEntriesKeeps == MInv /\ ClearEntries => MInv'
<1> SUFFICES ASSUME MInv, ClearEntries
             PROVE  MInv'
  OBVIOUS
<1>1. /\ stack # <<>> /\ Head(stack).op \in {"unbind", "clear"} /\ ~TopIs("reset")
      /\ stack' = Tail(stack) /\ entries' = {}
      /\ UNCHANGED <<connected, connects, link, toServer, wire, lastReq, mainq, inLoop,
                     running, bound, registry, metadata, metadata_id, generation,
                     alive, serverVars>>
  BY DEF ClearEntries, TopIs, Pop
<1>2. ~Holds(stack, "reset")
  BY <1>1, NoReset DEF MInv
<1>3. /\ Fits(stack')
      /\ \A o : Holds(stack', o) => Holds(stack, o)
      /\ Holds(stack, "notify") => Holds(stack', "notify")
  BY <1>1, PopFits DEF MInv
<1>4. ConnectionOK' /\ WrapperOK'
  BY <1>1 DEF MInv, ConnectionOK, WrapperOK
<1>5. ServerOK'
  BY <1>1, KeptOK DEF MInv
<1>6. Owner'
  BY <1>1, <1>2, <1>3 DEF MInv, Owner, Owed, Holds
<1> QED
  BY <1>3, <1>4, <1>5, <1>6 DEF MInv, Fits

-----------------------------------------------------------------------------
(* Events, from the loop thread to the main context.                       *)

LEMMA EventTypes ==
  ASSUME MInv, NEW m \in Messages, m.kind \in {"global", "gone", "property"}
  PROVE  /\ Event(m) \in Sources
         /\ m.id \in Ids /\ m.c \in Change /\ m.of \in Nat /\ m.to \in Nat
<1>1. m.id \in Ids /\ m.c \in Change /\ m.of \in Nat /\ m.to \in Nat
  BY DEF Messages, CoreMessages
<1>2. generation \in Nat
  BY DEF MInv, WrapperOK
<1> QED
  BY <1>1, <1>2 DEF Event, Sources

LEMMA OnMessageKeeps == MInv /\ OnMessage => MInv'
<1> SUFFICES ASSUME MInv, OnMessage
             PROVE  MInv'
  OBVIOUS
<1> DEFINE m == Head(wire)
<1>1. /\ wire \in Seq(Messages) /\ wire # <<>> /\ wire' = Tail(wire)
      /\ m.kind \in {"global", "gone", "property"}
      /\ mainq' = mainq \/ mainq' = Append(mainq, Event(m))
      /\ mainq \in Seq(Sources)
      /\ UNCHANGED <<connected, connects, link, toServer, lastReq, stack, inLoop,
                     wrapperVars, serverVars>>
  BY DEF OnMessage, Reads, MInv, ConnectionOK
<1>2. m \in Messages /\ wire' \in Seq(Messages)
  BY <1>1
<1>3. Event(m) \in Sources
  BY <1>1, <1>2, EventTypes
<1> HIDE DEF m
<1>4. mainq' \in Seq(Sources)
  BY <1>1, <1>3
<1>5. ConnectionOK'
  BY <1>1, <1>2, <1>4 DEF MInv, ConnectionOK
<1>6. WrapperOK' /\ ServerOK'
  BY <1>1, KeptOK DEF MInv
<1>7. Owner'
  BY <1>1, OwnerKept DEF MInv, ConnectionOK
<1> QED
  BY <1>1, <1>5, <1>6, <1>7 DEF MInv, Fits

\* The oldest source of the main context, which only an iteration takes.
LEMMA TakesTypes ==
  ASSUME MInv, NEW kinds, kinds \subseteq {"global", "gone", "property"}, Takes(kinds)
  PROVE  /\ mainq' \in Seq(Sources) /\ ~Holds(stack, "reset")
         /\ Head(mainq).id \in Nat /\ Head(mainq).c \in Change
         /\ Head(mainq).of \in Nat /\ Head(mainq).via \in Nat
<1>1. /\ mainq \in Seq(Sources) /\ mainq # <<>> /\ mainq' = Tail(mainq)
      /\ Head(mainq).kind \in {"global", "gone", "property"} /\ ~TopIs("reset")
  BY DEF Takes, MInv, ConnectionOK, Iterating, TopIs
<1>2. mainq' \in Seq(Sources) /\ Head(mainq) \in Sources
  BY <1>1
<1>3. ~Holds(stack, "reset")
  BY <1>1, NoReset DEF MInv
<1>4. /\ Head(mainq).id \in Ids /\ Head(mainq).c \in Change
      /\ Head(mainq).of \in Nat /\ Head(mainq).via \in Nat
  BY <1>1, <1>2 DEF Sources, CoreSources
<1> QED
  BY <1>2, <1>3, <1>4, MetadataAssumption

\* An event that is dropped.
LEMMA DropKeeps ==
  ASSUME MInv, Drop, mainq' \in Seq(Sources),
         UNCHANGED <<connected, connects, link, wire, inLoop, server, serial, rev>>
  PROVE  MInv'
<1>1. UNCHANGED <<stack, lastReq, toServer, wrapperVars, serverVars>>
  BY DEF Drop, serverVars
<1>2. ConnectionOK'
  BY <1>1 DEF MInv, ConnectionOK
<1>3. WrapperOK' /\ ServerOK'
  BY <1>1, KeptOK DEF MInv
<1>4. Owner'
  BY <1>1, OwnerKept DEF MInv, ConnectionOK
<1> QED
  BY <1>1, <1>2, <1>3, <1>4 DEF MInv, Fits

LEMMA BindKeeps ==
  ASSUME MInv, ~Holds(stack, "reset"), NEW id \in Nat, Bind(id), mainq' \in Seq(Sources),
         UNCHANGED <<connected, connects, link, wire, inLoop, server, serial, rev>>
  PROVE  MInv'
<1> DEFINE r == [kind |-> "object", n |-> lastReq + 1, id |-> id, c |-> NoChange]
<1>1. CASE Drop
  BY <1>1, DropKeeps
<1>2. CASE ~Drop
  <2>1. /\ lastReq \in Nat /\ toServer \in Seq(Requests) /\ Sends(<<r>>)
        /\ metadata = NULL /\ connected /\ registry # NULL
        /\ metadata' = lastReq + 1 /\ metadata_id' = id
        /\ alive' = alive \cup {lastReq + 1} /\ bound' = TRUE /\ Emit(stack)
        /\ UNCHANGED <<running, registry, generation, entries, subs>>
    BY <1>2 DEF Bind, MInv, ConnectionOK
  <2>2. r \in Requests
    <3>1. lastReq + 1 \in Nat
      BY <2>1
    <3> QED
      BY <3>1, RequestTypes
  <2> HIDE DEF r
  <2>3. toServer' \in Seq(Requests) /\ lastReq' = lastReq + 1 /\ lastReq' \in Nat
    BY <2>1, <2>2, SendsOne
  <2>4. Fits(stack') /\ \A o \in Rests : Holds(stack', o) => Holds(stack, o)
    BY <2>1, EmitFits DEF MInv
  <2>5. ConnectionOK'
    BY <2>3 DEF MInv, ConnectionOK
  <2>6. WrapperOK'
    <3>1. metadata' \in Nat /\ metadata_id' \in Nat /\ alive' \subseteq Nat
      BY <2>1 DEF MInv, WrapperOK
    <3>2. bound' \in BOOLEAN
      BY <2>1
    <3> QED
      BY <2>1, <3>1, <3>2 DEF MInv, WrapperOK
  <2>7. ServerOK'
    BY <2>1 DEF MInv, ServerOK
  <2>8. Owner'
    <3>1. /\ metadata' = lastReq + 1 /\ registry \in Nat /\ registry <= lastReq
          /\ "reconnect" \notin Reentry => {registry, metadata} \ {NULL} \subseteq alive
          /\ alive \subseteq {registry, metadata} \ {NULL} /\ registry # NULL
      BY <2>1 DEF MInv, Owner, WrapperOK
    <3>2. registry # metadata' /\ metadata' # NULL /\ registry <= lastReq'
          /\ metadata' <= lastReq'
      BY <2>1, <2>3, <3>1 DEF NULL
    <3>3. /\ "reconnect" \notin Reentry => {registry, metadata'} \ {NULL} \subseteq alive'
          /\ alive' \subseteq {registry, metadata'} \ {NULL}
      BY <2>1, <3>1, <3>2
    <3>4. /\ \A o \in {"start", "unbound"} : Holds(stack', o) => Holds(stack, o)
          /\ ~Holds(stack', "reset") /\ connected'
      BY <2>1, <2>4 DEF Rests
    <3> QED
      BY <2>1, <3>2, <3>3, <3>4 DEF MInv, Owner, Owed, Holds
  <2> QED
    BY <2>4, <2>5, <2>6, <2>7, <2>8 DEF MInv, Fits
<1> QED
  BY <1>1, <1>2

LEMMA DispatchFoundKeeps == MInv /\ DispatchFound => MInv'
<1> SUFFICES ASSUME MInv, DispatchFound
             PROVE  MInv'
  OBVIOUS
<1>1. /\ mainq' \in Seq(Sources) /\ ~Holds(stack, "reset") /\ Head(mainq).id \in Nat
      /\ UNCHANGED <<connected, connects, link, wire, inLoop, server, serial, rev>>
  BY TakesTypes DEF DispatchFound
<1> QED
  BY <1>1, BindKeeps, DropKeeps DEF DispatchFound

LEMMA DispatchRemovedKeeps == MInv /\ DispatchRemoved => MInv'
<1> SUFFICES ASSUME MInv, DispatchRemoved
             PROVE  MInv'
  OBVIOUS
<1>1. /\ mainq' \in Seq(Sources) /\ ~Holds(stack, "reset") /\ Fits(stack)
      /\ UNCHANGED <<connected, connects, link, wire, inLoop, server, serial, rev>>
  BY TakesTypes DEF DispatchRemoved, MInv
<1>2. CASE Drop
  BY <1>1, <1>2, DropKeeps
<1>3. CASE /\ DestroyBoundProxy(stack)
           /\ UNCHANGED <<lastReq, toServer, running, registry, generation>>
  BY <1>1, <1>3, DestroyBoundKeeps
<1> QED
  BY <1>2, <1>3 DEF DispatchRemoved

LEMMA DispatchChangedKeeps == MInv /\ DispatchChanged => MInv'
<1> SUFFICES ASSUME MInv, DispatchChanged
             PROVE  MInv'
  OBVIOUS
<1> DEFINE e == Head(mainq)
<1>1. /\ mainq' \in Seq(Sources) /\ ~Holds(stack, "reset") /\ Fits(stack)
      /\ e.c \in Change /\ e.of \in Nat /\ e.via \in Nat
      /\ UNCHANGED <<connected, connects, link, wire, inLoop, server, serial, rev>>
  BY TakesTypes DEF DispatchChanged, MInv
<1>2. CASE Drop
  BY <1>1, <1>2, DropKeeps
<1>3. CASE ~Drop
  <2>1. /\ entries' = Cached(e) /\ Emit(stack)
        /\ UNCHANGED <<lastReq, toServer, running, bound, registry, metadata,
                       metadata_id, generation, alive, subs>>
    BY <1>3 DEF DispatchChanged
  <2>2. /\ Fits(stack')
        /\ \A o \in Rests : Holds(stack', o) => Holds(stack, o)
        /\ Holds(stack, "notify") => Holds(stack', "notify")
    BY <1>1, <2>1, EmitFits
  <2>3. Cached(e) \subseteq Entry
    <3>1. Without(entries, e.c) \subseteq Entry
      BY DEF Without, MInv, WrapperOK
    <3>2. ASSUME e.c.key # All, e.c.value # None
          PROVE  [subject |-> e.c.subject, key |-> e.c.key, value |-> e.c.value,
                  of |-> e.of, via |-> e.via] \in Entry
      BY <1>1, <3>2 DEF Change, Entry
    <3> HIDE DEF e
    <3> QED
      BY <3>1, <3>2 DEF Cached
  <2>4. ConnectionOK'
    BY <1>1, <2>1 DEF MInv, ConnectionOK
  <2>5. WrapperOK'
    BY <2>1, <2>3 DEF MInv, WrapperOK
  <2>6. ServerOK'
    BY <1>1, <2>1 DEF MInv, ServerOK
  <2>7. Owner'
    <3>1. /\ \A o \in {"start", "unbound"} : Holds(stack', o) => Holds(stack, o)
          /\ ~Holds(stack', "reset")
      BY <1>1, <2>2 DEF Rests
    <3> QED
      BY <1>1, <2>1, <2>2, <3>1 DEF MInv, Owner, Owed, Holds
  <2> QED
    BY <2>2, <2>4, <2>5, <2>6, <2>7 DEF MInv, Fits
<1> QED
  BY <1>2, <1>3

-----------------------------------------------------------------------------
(* Writing.                                                                *)

\* A request of the bound proxy, that at most empties the cache.
LEMMA WriteKeeps ==
  ASSUME MInv, NEW kind \in {"set", "wipe"}, NEW c \in Change,
         Sends(<<[kind |-> kind, n |-> metadata, id |-> 0, c |-> c]>>),
         entries' \subseteq entries,
         UNCHANGED <<connected, connects, link, wire, mainq, stack, inLoop, running, bound,
                     registry, metadata, metadata_id, generation, alive, serverVars>>
  PROVE  MInv'
<1> DEFINE r == [kind |-> kind, n |-> metadata, id |-> 0, c |-> c]
<1>1. /\ lastReq \in Nat /\ toServer \in Seq(Requests) /\ Sends(<<r>>) /\ metadata \in Nat
      /\ 0 \in Nat
  BY DEF MInv, ConnectionOK, WrapperOK
<1>2. r \in Requests
  BY <1>1, RequestTypes
<1> HIDE DEF r
<1>3. toServer' \in Seq(Requests) /\ lastReq' = lastReq + 1 /\ lastReq' \in Nat
  BY <1>1, <1>2, SendsOne
<1>4. ConnectionOK'
  BY <1>3 DEF MInv, ConnectionOK
<1>5. WrapperOK'
  BY DEF MInv, WrapperOK
<1>6. ServerOK'
  BY KeptOK DEF MInv
<1>7. Owner'
  <2>1. registry <= lastReq' /\ metadata <= lastReq'
    BY <1>1, <1>3 DEF MInv, Owner, WrapperOK
  <2> QED
    BY <2>1 DEF MInv, Owner, Owed, Holds
<1> QED
  BY <1>4, <1>5, <1>6, <1>7 DEF MInv, Fits

LEMMA SetValueKeeps ==
  ASSUME MInv, NEW c \in Change, SetValue(c)
  PROVE  MInv'
<1>1. /\ Sends(<<[kind |-> "set", n |-> metadata, id |-> 0, c |-> c]>>)
      /\ UNCHANGED <<connected, connects, link, wire, mainq, stack, inLoop, wrapperVars,
                     serverVars>>
  BY DEF SetValue
<1> QED
  BY <1>1, WriteKeeps DEF wrapperVars

LEMMA ClearAllKeeps == MInv /\ ClearAll => MInv'
<1> SUFFICES ASSUME MInv, ClearAll
             PROVE  MInv'
  OBVIOUS
<1>1. /\ Sends(<<[kind |-> "wipe", n |-> metadata, id |-> 0, c |-> NoChange]>>)
      /\ entries' = {}
      /\ UNCHANGED <<connected, connects, link, wire, mainq, stack, inLoop, running, bound,
                     registry, metadata, metadata_id, generation, alive, serverVars>>
  BY DEF ClearAll
<1> QED
  BY <1>1, RequestTypes, WriteKeeps

-----------------------------------------------------------------------------
(* The server.                                                             *)

\* Nothing that the server does touches the wrapper.
LEMMA ServerKeeps ==
  ASSUME MInv, toServer' \in Seq(Requests), wire' \in Seq(Messages), ServerOK',
         UNCHANGED <<connected, connects, link, lastReq, mainq, stack, inLoop, wrapperVars>>
  PROVE  MInv'
<1>1. ConnectionOK'
  BY DEF MInv, ConnectionOK
<1>2. WrapperOK'
  BY KeptOK DEF MInv
<1>3. Owner'
  BY OwnerKept DEF MInv, ConnectionOK
<1> QED
  BY <1>1, <1>2, <1>3 DEF MInv, Fits

LEMMA TellTypes ==
  ASSUME NEW kind \in {"global", "gone", "property"}, NEW n \in Nat, NEW o \in Object,
         NEW c \in Change
  PROVE  Tell(kind, n, o, c) \in Messages
BY DEF Tell, Messages, Object

LEMMA ServesTypes ==
  ASSUME MInv, NEW kinds, kinds \subseteq {"registry", "object", "set", "wipe"}, Serves(kinds)
  PROVE  /\ toServer' \in Seq(Requests)
         /\ Head(toServer).n \in Nat /\ Head(toServer).c \in Change
<1>1. /\ toServer \in Seq(Requests) /\ toServer # <<>> /\ toServer' = Tail(toServer)
      /\ Head(toServer).kind \in {"registry", "object", "set", "wipe"}
  BY DEF Serves, MInv, ConnectionOK
<1>2. toServer' \in Seq(Requests) /\ Head(toServer) \in Requests
  BY <1>1
<1>3. Head(toServer).n \in Nat /\ Head(toServer).c \in Change
  BY <1>1, <1>2 DEF Requests
<1> QED
  BY <1>2, <1>3

LEMMA BroadcastTypes ==
  ASSUME MInv, NEW kind \in {"global", "gone", "property"}, NEW of \in Nat,
         NEW o \in Object, NEW c \in Change, Broadcast(kind, Serving(of), o, c)
  PROVE  wire' \in Seq(Messages)
<1> DEFINE A == Serving(of)
<1>1. wire \in Seq(Messages) /\ A \subseteq Nat
  BY DEF MInv, ConnectionOK, ServerOK, Serving
<1>2. IsFiniteSet(A)
  <2>1. IsFiniteSet({t \in subs : t.o = of})
    BY FS_Subset DEF MInv, ServerOK
  <2> DEFINE B == {t \in subs : t.o = of}
             f == [t \in B |-> t.p]
  <2>2. DOMAIN f = B /\ A = {f[t] : t \in B}
    BY DEF Serving
  <2> HIDE DEF f, A
  <2> QED
    BY <2>1, <2>2, FiniteFields
<1> HIDE DEF A
<1>3. CASE link
  <2>1. PICK s \in Orders(A) : wire' = wire \o [i \in DOMAIN s |-> Tell(kind, s[i], o, c)]
    BY <1>3 DEF Broadcast, A
  <2> DEFINE g == [i \in DOMAIN s |-> Tell(kind, s[i], o, c)]
  <2>2. \A i \in DOMAIN s : s[i] \in A => g[i] \in Messages
    BY <1>1, TellTypes
  <2>3. g = [i \in DOMAIN s |-> g[i]]
    OBVIOUS
  <2> HIDE DEF g
  <2>4. g \in Seq(Messages)
    BY <1>2, <2>2, <2>3, OrderTypes
  <2>5. wire' = wire \o g
    BY <2>1 DEF g
  <2> QED
    BY <1>1, <2>4, <2>5
<1>4. CASE ~link
  BY <1>1, <1>4 DEF Broadcast
<1> QED
  BY <1>3, <1>4

LEMMA ServeRegistryKeeps == MInv /\ ServeRegistry => MInv'
<1> SUFFICES ASSUME MInv, ServeRegistry
             PROVE  MInv'
  OBVIOUS
<1> DEFINE n == Head(toServer).n
<1>1. /\ toServer' \in Seq(Requests) /\ n \in Nat
      /\ UNCHANGED <<connected, connects, link, lastReq, mainq, stack, inLoop,
                     wrapperVars, server, serial, rev>>
  BY ServesTypes DEF ServeRegistry
<1>2. wire \in Seq(Messages) /\ server \subseteq Object /\ IsFiniteSet(server)
  BY DEF MInv, ConnectionOK, ServerOK
<1>3. CASE UNCHANGED <<subs, wire>>
  BY <1>1, <1>2, <1>3, KeptOK, ServerKeeps DEF MInv, serverVars
<1>4. CASE ~UNCHANGED <<subs, wire>>
  <2>1. PICK s \in Orders(server) :
          wire' = wire \o [i \in DOMAIN s |-> Tell("global", n, s[i], NoChange)]
    BY <1>4 DEF ServeRegistry
  <2>2. subs' = subs \cup {[p |-> n, o |-> 0]}
    BY <1>4 DEF ServeRegistry
  <2> DEFINE g == [i \in DOMAIN s |-> Tell("global", n, s[i], NoChange)]
  <2> HIDE DEF n
  <2>3. \A i \in DOMAIN s : s[i] \in server => g[i] \in Messages
    BY <1>1, <1>2, TellTypes, RequestTypes
  <2>4. g = [i \in DOMAIN s |-> g[i]] /\ wire' = wire \o g
    BY <2>1
  <2> HIDE DEF g
  <2>5. g \in Seq(Messages)
    BY <1>2, <2>3, <2>4, OrderTypes
  <2>6. wire' \in Seq(Messages)
    BY <1>2, <2>4, <2>5
  <2>7. ServerOK'
    <3>1. IsFiniteSet(subs')
      BY <2>2, FS_AddElement DEF MInv, ServerOK
    <3>2. subs' \subseteq [p : Nat, o : Nat]
      BY <1>1, <2>2 DEF MInv, ServerOK
    <3> QED
      BY <1>1, <3>1, <3>2 DEF MInv, ServerOK
  <2> QED
    BY <1>1, <2>6, <2>7, ServerKeeps
<1> QED
  BY <1>3, <1>4

LEMMA ServeObjectKeeps == MInv /\ ServeObject => MInv'
<1> SUFFICES ASSUME MInv, ServeObject
             PROVE  MInv'
  OBVIOUS
<1> DEFINE n == Head(toServer).n
<1>1. /\ toServer' \in Seq(Requests) /\ n \in Nat
      /\ UNCHANGED <<connected, connects, link, lastReq, mainq, stack, inLoop,
                     wrapperVars, server, serial, rev>>
  BY ServesTypes DEF ServeObject
<1>2. wire \in Seq(Messages) /\ server \subseteq Object
  BY DEF MInv, ConnectionOK, ServerOK
<1>3. CASE UNCHANGED <<subs, wire>>
  BY <1>1, <1>2, <1>3, KeptOK, ServerKeeps DEF MInv, serverVars
<1>4. CASE ~UNCHANGED <<subs, wire>>
  <2>1. PICK o \in server :
          /\ subs' = subs \cup {[p |-> n, o |-> o.serial]}
          /\ \E s \in Orders(o.props) :
               wire' = wire \o [i \in DOMAIN s |-> Tell("property", n, o, s[i])]
    BY <1>4 DEF ServeObject
  <2>2. /\ o \in Object /\ o.serial \in Nat /\ IsFiniteSet(o.props)
        /\ o.props \subseteq [subject : Subjects, key : Keys, value : Nat]
    BY <1>2 DEF Object, MInv, ServerOK
  <2>3. PICK s \in Orders(o.props) :
          wire' = wire \o [i \in DOMAIN s |-> Tell("property", n, o, s[i])]
    BY <2>1
  <2> DEFINE g == [i \in DOMAIN s |-> Tell("property", n, o, s[i])]
  <2> HIDE DEF n
  <2>4. \A i \in DOMAIN s : s[i] \in o.props => g[i] \in Messages
    <3>1. \A x \in o.props : x \in Change
      BY <2>2 DEF Change
    <3> QED
      BY <1>1, <2>2, <3>1, TellTypes
  <2>5. g = [i \in DOMAIN s |-> g[i]] /\ wire' = wire \o g
    BY <2>3
  <2> HIDE DEF g
  <2>6. g \in Seq(Messages)
    BY <2>2, <2>4, <2>5, OrderTypes
  <2>7. wire' \in Seq(Messages)
    BY <1>2, <2>5, <2>6
  <2>8. ServerOK'
    <3>1. IsFiniteSet(subs')
      BY <2>1, FS_AddElement DEF MInv, ServerOK
    <3>2. subs' \subseteq [p : Nat, o : Nat]
      BY <1>1, <2>1, <2>2 DEF MInv, ServerOK
    <3> QED
      BY <1>1, <3>1, <3>2 DEF MInv, ServerOK
  <2> QED
    BY <1>1, <2>7, <2>8, ServerKeeps
<1> QED
  BY <1>3, <1>4

\* An object with other properties.
LEMMA ReplacedOK ==
  ASSUME MInv, NEW o \in server, NEW props, IsFiniteSet(props),
         props \subseteq [subject : Subjects, key : Keys, value : Nat],
         server' = (server \ {o}) \cup {[o EXCEPT !.props = props]},
         rev' \in Nat, UNCHANGED <<serial, subs>>
  PROVE  ServerOK'
<1> DEFINE q == [o EXCEPT !.props = props]
<1>1. server \subseteq Object /\ IsFiniteSet(server) /\ \A x \in server : IsFiniteSet(x.props)
  BY DEF MInv, ServerOK
<1>2. q \in Object /\ q.props = props
  BY <1>1 DEF Object
<1> HIDE DEF q
<1>3. server' = (server \ {o}) \cup {q}
  BY DEF q
<1>4. IsFiniteSet(server \ {o})
  BY <1>1, FS_Subset
<1>5. IsFiniteSet(server')
  <2>1. IsFiniteSet((server \ {o}) \cup {q})
    BY <1>4, FS_AddElement
  <2> QED
    BY <1>3, <2>1
<1> QED
  BY <1>1, <1>2, <1>3, <1>5 DEF MInv, ServerOK

\* A change, by this wrapper or by another client.
LEMMA ChangesKeep ==
  ASSUME MInv, NEW o \in server, NEW c \in Change, Changes(o, c), rev' \in Nat,
         toServer' \in Seq(Requests),
         UNCHANGED <<connected, connects, link, lastReq, mainq, stack, inLoop, wrapperVars,
                     serial, subs>>
  PROVE  MInv'
<1> DEFINE new == IF c.key = All \/ c.value = None THEN {}
                  ELSE {[subject |-> c.subject, key |-> c.key, value |-> c.value]}
           props == Without(o.props, c) \cup new
<1>1. /\ server' = (server \ {o}) \cup {[o EXCEPT !.props = props]}
      /\ Broadcast("property", Serving(o.serial), o, c)
  BY DEF Changes
<1>2. /\ o \in Object /\ o.serial \in Nat /\ IsFiniteSet(o.props)
      /\ o.props \subseteq [subject : Subjects, key : Keys, value : Nat]
  BY DEF Object, MInv, ServerOK
<1>3. new \subseteq [subject : Subjects, key : Keys, value : Nat]
  BY DEF Change
<1>4. IsFiniteSet(new)
  BY FS_EmptySet, FS_Singleton
<1>5. Without(o.props, c) \subseteq o.props
  BY DEF Without
<1> HIDE DEF new
<1>6. IsFiniteSet(props)
  BY <1>2, <1>4, <1>5, FS_Subset, FS_Union
<1>7. props \subseteq [subject : Subjects, key : Keys, value : Nat]
  BY <1>2, <1>3, <1>5
<1> HIDE DEF props
<1>8. ServerOK'
  BY <1>1, <1>6, <1>7, ReplacedOK
<1>9. wire' \in Seq(Messages)
  BY <1>1, <1>2, BroadcastTypes
<1> QED
  BY <1>8, <1>9, ServerKeeps

LEMMA ServeSetKeeps == MInv /\ ServeSet => MInv'
<1> SUFFICES ASSUME MInv, ServeSet
             PROVE  MInv'
  OBVIOUS
<1> DEFINE c == Head(toServer).c
           d == [c EXCEPT !.value = IF @ = None THEN None ELSE rev + 1]
<1>1. /\ toServer' \in Seq(Requests) /\ c \in Change
      /\ UNCHANGED <<connected, connects, link, lastReq, mainq, stack, inLoop,
                     wrapperVars, serial, subs>>
  BY ServesTypes DEF ServeSet
<1>2. wire \in Seq(Messages) /\ rev \in Nat
  BY DEF MInv, ConnectionOK, ServerOK
<1>3. CASE UNCHANGED <<server, rev, wire>>
  BY <1>1, <1>2, <1>3, KeptOK, ServerKeeps DEF MInv, serverVars
<1>4. CASE \E o \in server : rev' = rev + 1 /\ Changes(o, d)
  <2>1. d \in Change
    BY <1>1, <1>2 DEF Change, None
  <2> HIDE DEF d
  <2> QED
    BY <1>1, <1>2, <1>4, <2>1, ChangesKeep
<1> QED
  BY <1>3, <1>4 DEF ServeSet

LEMMA ServeWipeKeeps == MInv /\ ServeWipe => MInv'
<1> SUFFICES ASSUME MInv, ServeWipe
             PROVE  MInv'
  OBVIOUS
<1> DEFINE n == Head(toServer).n
<1>1. /\ toServer' \in Seq(Requests) /\ n \in Nat
      /\ UNCHANGED <<connected, connects, link, lastReq, mainq, stack, inLoop,
                     wrapperVars, serial, rev, subs>>
  BY ServesTypes DEF ServeWipe
<1>2. wire \in Seq(Messages) /\ rev \in Nat
  BY DEF MInv, ConnectionOK, ServerOK
<1>3. CASE UNCHANGED <<server, wire>>
  BY <1>1, <1>2, <1>3, KeptOK, ServerKeeps DEF MInv, serverVars
<1>4. CASE ~UNCHANGED <<server, wire>>
  <2>1. PICK o \in server :
          /\ server' = (server \ {o}) \cup {[o EXCEPT !.props = {}]}
          /\ \E s \in Orders({x.subject : x \in o.props}) :
               wire' = wire \o [i \in DOMAIN s |->
                 Tell("property", n, o, [NoChange EXCEPT !.subject = s[i]])]
    BY <1>4 DEF ServeWipe
  <2> DEFINE A == {x.subject : x \in o.props}
  <2>2. /\ o \in Object /\ IsFiniteSet(o.props)
        /\ o.props \subseteq [subject : Subjects, key : Keys, value : Nat]
    BY DEF Object, MInv, ServerOK
  <2>3. A \subseteq Subjects
    BY <2>2
  <2>4. IsFiniteSet(A)
    <3> DEFINE f == [x \in o.props |-> x.subject]
    <3>1. DOMAIN f = o.props /\ A = {f[x] : x \in o.props}
      OBVIOUS
    <3> HIDE DEF f, A
    <3> QED
      BY <2>2, <3>1, FiniteFields
  <2>5. \A x \in A : [NoChange EXCEPT !.subject = x] \in Change
    BY <2>3 DEF NoChange, Change, None
  <2> HIDE DEF A
  <2>6. PICK s \in Orders(A) :
          wire' = wire \o [i \in DOMAIN s |->
            Tell("property", n, o, [NoChange EXCEPT !.subject = s[i]])]
    BY <2>1 DEF A
  <2> DEFINE g == [i \in DOMAIN s |->
                     Tell("property", n, o, [NoChange EXCEPT !.subject = s[i]])]
  <2> HIDE DEF n
  <2>7. \A i \in DOMAIN s : s[i] \in A => g[i] \in Messages
    BY <1>1, <2>2, <2>5, TellTypes
  <2>8. g = [i \in DOMAIN s |-> g[i]] /\ wire' = wire \o g
    BY <2>6
  <2> HIDE DEF g
  <2>9. g \in Seq(Messages)
    BY <2>4, <2>7, <2>8, OrderTypes
  <2>10. wire' \in Seq(Messages)
    BY <1>2, <2>8, <2>9
  <2>11. ServerOK'
    BY <1>1, <1>2, <2>1, FS_EmptySet, ReplacedOK
  <2> QED
    BY <1>1, <2>10, <2>11, ServerKeeps
<1> QED
  BY <1>3, <1>4

LEMMA ServerWritesKeeps ==
  ASSUME MInv, NEW o \in server, NEW subject \in Subjects, NEW key \in Keys,
         ServerWrites(o, subject, key)
  PROVE  MInv'
<1> DEFINE c == [subject |-> subject, key |-> key, value |-> rev + 1]
<1>1. rev \in Nat /\ toServer \in Seq(Requests)
  BY DEF MInv, ServerOK, ConnectionOK
<1>2. c \in Change
  BY <1>1 DEF Change
<1>3. /\ rev' = rev + 1 /\ Changes(o, c)
      /\ UNCHANGED <<connected, connects, link, toServer, lastReq, mainq, stack, inLoop,
                     wrapperVars, serial, subs>>
  BY DEF ServerWrites
<1> HIDE DEF c
<1> QED
  BY <1>1, <1>2, <1>3, ChangesKeep

LEMMA ServerAddKeeps ==
  ASSUME MInv, NEW id \in Ids, NEW name \in Names, ServerAdd(id, name)
  PROVE  MInv'
<1> DEFINE o == [id |-> id, serial |-> serial + 1, name |-> name, props |-> {}]
<1>1. /\ serial' = serial + 1 /\ server' = server \cup {o}
      /\ Broadcast("global", Serving(0), o, NoChange)
      /\ UNCHANGED <<connected, connects, link, toServer, lastReq, mainq, stack, inLoop,
                     wrapperVars, rev, subs>>
  BY DEF ServerAdd
<1>2. serial \in Nat /\ toServer \in Seq(Requests) /\ server \subseteq Object
      /\ IsFiniteSet(server) /\ 0 \in Nat
  BY DEF MInv, ServerOK, ConnectionOK
<1>3. o \in Object /\ o.props = {}
  BY <1>2 DEF Object
<1> HIDE DEF o
<1>4. wire' \in Seq(Messages)
  BY <1>1, <1>2, <1>3, RequestTypes, BroadcastTypes
<1>5. ServerOK'
  <2>1. IsFiniteSet(server') /\ \A x \in server' : IsFiniteSet(x.props)
    BY <1>1, <1>2, <1>3, FS_AddElement, FS_EmptySet DEF MInv, ServerOK
  <2>2. server' \subseteq Object /\ serial' \in Nat
    BY <1>1, <1>2, <1>3
  <2> QED
    BY <1>1, <2>1, <2>2 DEF MInv, ServerOK
<1>6. toServer' \in Seq(Requests)
  BY <1>1, <1>2
<1> QED
  BY <1>1, <1>4, <1>5, <1>6, ServerKeeps

LEMMA ServerRemoveKeeps ==
  ASSUME MInv, NEW o \in server, ServerRemove(o)
  PROVE  MInv'
<1>1. /\ server' = server \ {o} /\ subs' = {s \in subs : s.o # o.serial}
      /\ Broadcast("gone", Serving(0), o, NoChange)
      /\ UNCHANGED <<connected, connects, link, toServer, lastReq, mainq, stack, inLoop,
                     wrapperVars, serial, rev>>
  BY DEF ServerRemove
<1>2. o \in Object /\ toServer \in Seq(Requests) /\ 0 \in Nat
  BY DEF MInv, ServerOK, ConnectionOK
<1>3. wire' \in Seq(Messages)
  BY <1>1, <1>2, RequestTypes, BroadcastTypes
<1>4. ServerOK'
  <2>1. IsFiniteSet(server') /\ IsFiniteSet(subs')
    BY <1>1, FS_Subset DEF MInv, ServerOK
  <2> QED
    BY <1>1, <2>1 DEF MInv, ServerOK
<1>5. toServer' \in Seq(Requests)
  BY <1>1, <1>2
<1> QED
  BY <1>1, <1>3, <1>4, <1>5, ServerKeeps

-----------------------------------------------------------------------------
(* The theorems.                                                           *)

LEMMA MInitInv == MInit => MInv
<1> SUFFICES ASSUME MInit
             PROVE  MInv
  OBVIOUS
<1>1. /\ toServer \in Seq(Requests) /\ wire \in Seq(Messages)
      /\ mainq \in Seq(Sources) /\ stack \in Seq(MFrame) /\ stack = <<>>
  BY DEF MInit, Init
<1>2. ConnectionOK
  BY <1>1 DEF MInit, Init, ConnectionOK
<1>3. WrapperOK /\ ServerOK
  BY FS_EmptySet DEF MInit, WrapperOK, ServerOK, NULL
<1>4. Fits(stack)
  BY <1>1 DEF Fits, Nested, Has
<1>5. Owner
  BY <1>1 DEF MInit, Init, Owner, Owed, Holds, Has, NULL
<1> QED
  BY <1>2, <1>3, <1>4, <1>5 DEF MInv

LEMMA MNextInv == MInv /\ [MNext]_vars => MInv'
<1> SUFFICES ASSUME MInv, [MNext]_vars
             PROVE  MInv'
  OBVIOUS
<1>1. CASE Start \/ Sync \/ Stop \/ DisconnectCore \/ ClearAll
  BY <1>1, StartKeeps, SyncKeeps, StopKeeps, DisconnectCoreKeeps, ClearAllKeeps
<1>2. ASSUME NEW s \in Subjects, NEW k \in Keys, NEW v \in {None, 1},
             SetValue([subject |-> s, key |-> k, value |-> v])
      PROVE  MInv'
  <2> DEFINE c == [subject |-> s, key |-> k, value |-> v]
  <2>1. c \in Change
    BY DEF Change, None
  <2>2. SetValue(c)
    BY <1>2
  <2> HIDE DEF c
  <2> QED
    BY <2>1, <2>2, SetValueKeeps
<1>3. CASE \/ Keep(SyncWake) \/ Keep(SyncTimeout) \/ Keep(HandlerReturn)
           \/ (~Owed /\ Keep(NotifyReturn)) \/ Keep(DispatchToken) \/ Keep(LoopStep)
  <2>1. CASE Keep(SyncWake) \/ Keep(SyncTimeout) \/ Keep(HandlerReturn) \/ Keep(DispatchToken)
    <3>1. CoreStep /\ UNCHANGED <<wrapperVars, serverVars>>
      BY <2>1 DEF Keep, CoreStep
    <3>2. ~TopIs("notify")
      BY <2>1 DEF Keep, SyncWake, SyncTimeout, HandlerReturn, DispatchToken, Iterating, TopIs
    <3> QED
      BY <3>1, <3>2, CoreStepKeeps
  <2>2. CASE ~Owed /\ Keep(NotifyReturn)
    BY <2>2, CoreStepKeeps DEF Keep, CoreStep
  <2>3. CASE Keep(LoopStep)
    <3>1. connected
      BY <2>3 DEF Keep, LoopStep
    <3>2. CoreStep /\ UNCHANGED <<wrapperVars, serverVars>> /\ ~Owed
      BY <2>3, <3>1 DEF Keep, CoreStep, Owed
    <3> QED
      BY <3>2, CoreStepKeeps
  <2> QED
    BY <1>3, <2>1, <2>2, <2>3
<1>4. CASE Keep(ServeSync) \/ Keep(EnterLoop) \/ Keep(SyncResume(Head(stack).mark))
           \/ Keep(Restart) \/ (MayConnect(Owed) /\ Keep(Connect))
  BY <1>4, ServeSyncKeeps, SyncResumeKeeps, RestartKeeps, ConnectKeeps DEF Keep
<1>5. CASE \/ StartResume \/ SyncStarted \/ SyncDrainEnd \/ ClearEntries \/ Halt
           \/ Reset \/ Unbound
  BY <1>5, StartResumeKeeps, SyncStartedKeeps, SyncDrainEndKeeps, ClearEntriesKeeps,
     HaltKeeps, ResetKeeps, UnboundKeeps
<1>6. CASE DispatchFound \/ DispatchRemoved \/ DispatchChanged \/ OnMessage
  BY <1>6, DispatchFoundKeeps, DispatchRemovedKeeps, DispatchChangedKeeps, OnMessageKeeps
<1>7. CASE ServeRegistry \/ ServeObject \/ ServeSet \/ ServeWipe
  BY <1>7, ServeRegistryKeeps, ServeObjectKeeps, ServeSetKeeps, ServeWipeKeeps
<1>8. ASSUME NEW id \in Ids, NEW name \in Names, ServerAdd(id, name)
      PROVE  MInv'
  BY <1>8, ServerAddKeeps
<1>9. ASSUME NEW o \in server, ServerRemove(o)
      PROVE  MInv'
  BY <1>9, ServerRemoveKeeps
<1>10. ASSUME NEW o \in server, NEW s \in Subjects, NEW k \in Keys, ServerWrites(o, s, k)
       PROVE  MInv'
  BY <1>10, ServerWritesKeeps
<1>11. CASE UNCHANGED vars
  <2>1. UNCHANGED <<connected, connects, link, toServer, wire, lastReq, mainq, stack, inLoop,
                    wrapperVars, serverVars>>
    BY <1>11 DEF vars, coreVars
  <2>2. ServerOK' /\ toServer' \in Seq(Requests) /\ wire' \in Seq(Messages)
    BY <2>1, KeptOK DEF MInv, ConnectionOK
  <2> QED
    BY <2>1, <2>2, ServerKeeps
<1> QED
  BY <1>1, <1>2, <1>3, <1>4, <1>5, <1>6, <1>7, <1>8, <1>9, <1>10, <1>11
     DEF MNext, MCall, MMainStep, Dispatch, MServerStep, MLoopStep

LEMMA MetadataInvariant == MSpec => []MInv
BY MInitInv, MNextInv, PTL DEF MSpec

\* Every step keeps the types; a value in the cache is one that was set.
THEOREM MetadataTypes == MSpec => []MTypeOK
BY MetadataInvariant, MInvTypes, PTL

\* Whatever calls the handlers make that Calls leaves to them, and whenever
\* the core disconnects, unless a handler of notify::connected connects it
\* again at once: a proxy that is alive is one that the wrapper still knows,
\* and will destroy; and while connected the wrapper knows none that is gone.
THEOREM MetadataOwnsItsProxies ==
  ASSUME "reconnect" \notin Reentry
  PROVE  MSpec => []ProxiesOwned
<1>1. MInv => ProxiesOwned
  BY DEF MInv, Owner, ProxiesOwned
<1> QED
  BY <1>1, MetadataInvariant, PTL

-----------------------------------------------------------------------------
(* Sessions, where handlers do not sync().                                 *)

\* The rests of a sync(), and those of a session that is ending.
Blocking == {"sync", "wait", "drain", "msync"}
Ending == {"unbind", "halt", "unbound", "clear"}

\* A sync() is the outermost call: nothing that is suspended ends a session
\* while it iterates the main context.
Sits(st) == Fits(st) /\ Nested(st, FramesOf(Blocking), MFrame, {})

\* A handler that syncs inside stop() breaks this: it iterates the main context
\* between the "unbind" and the "halt" of the session that ends, and a global
\* that is queued there binds once more (StopClears).
\* A wrapper is bound within a session only, one that does not run is about
\* to forget its entries, and one that runs has its registry, unless a reset
\* has taken it.
Session ==
  /\ Sits(stack)
  /\ bound <=> metadata # NULL
  /\ bound => running /\ \A op \in Ending : ~Holds(stack, op)
  /\ ~running /\ entries # {} => Holds(stack, "clear")
  /\ connected <=> link
  /\ running => registry # NULL \/ Holds(stack, "unbound")

LEMMA PushSits ==
  ASSUME NEW st, Sits(st), ~Holds(st, "reset"), NEW f \in MFrame, f \notin BadWaits,
         f.op = "start" => \A o \in Rests : ~Holds(st, o),
         f.op \in Blocking => st = <<>>
  PROVE  /\ Sits(<<f>> \o st)
         /\ \A o : Holds(<<f>> \o st, o) <=> f.op = o \/ Holds(st, o)
<1>1. Fits(st)
  BY DEF Sits
<1>2. Fits(<<f>> \o st) /\ \A o : Holds(<<f>> \o st, o) <=> f.op = o \/ Holds(st, o)
  BY <1>1, PushFits
<1>3. f \in FramesOf(Blocking) => ~Has(st, MFrame)
  BY DEF FramesOf, Has
<1>4. Nested(<<f>> \o st, FramesOf(Blocking), MFrame, {})
  <2>1. ~Has(st, {}) /\ st \in Seq(MFrame) /\ Nested(st, FramesOf(Blocking), MFrame, {})
    BY <1>1 DEF Has, Sits, Fits
  <2> QED
    BY <1>3, <2>1, NestedPushed
<1> QED
  BY <1>2, <1>4 DEF Sits

LEMMA RestSits ==
  ASSUME NEW st, Sits(st), ~Holds(st, "reset"), NEW op \in Rests \cup {"msync"},
         op = "start" => \A o \in Rests : ~Holds(st, o), op = "msync" => st = <<>>
  PROVE  /\ Sits(<<Rest(op)>> \o st)
         /\ \A o : Holds(<<Rest(op)>> \o st, o) <=> o = op \/ Holds(st, o)
<1>1. Rest(op) \in MFrame /\ Rest(op).op = op
  BY FrameKinds
<1>2. Rest(op) \notin BadWaits
  BY <1>1 DEF BadWaits, Rests
<1>3. Rest(op).op \in Blocking => st = <<>>
  BY <1>1 DEF Blocking, Rests
<1> QED
  BY <1>1, <1>2, <1>3, PushSits

LEMMA EmitSits ==
  ASSUME NEW st, Sits(st), ~Holds(st, "reset"), Emit(st)
  PROVE  /\ Sits(stack')
         /\ \A o \in Rests : Holds(stack', o) <=> Holds(st, o)
<1>1. stack' = st \/ stack' = <<App>> \o st
  BY EmitCases DEF Sits, Fits
<1>2. CASE stack' = st
  BY <1>2
<1>3. CASE stack' = <<App>> \o st
  <2>1. App \in MFrame /\ App.op = "app" /\ App \notin BadWaits /\ App.op \notin Blocking
    BY FrameKinds DEF BadWaits, Blocking
  <2>2. Sits(<<App>> \o st) /\ \A o : Holds(<<App>> \o st, o) <=> App.op = o \/ Holds(st, o)
    BY <2>1, PushSits
  <2> QED
    BY <1>3, <2>1, <2>2 DEF Rests
<1> QED
  BY <1>1, <1>2, <1>3

LEMMA PopSits ==
  ASSUME NEW st, Sits(st), st # <<>>
  PROVE  /\ Sits(Tail(st)) /\ ~Holds(Tail(st), "reset")
         /\ Head(st) \in MFrame /\ Head(st) \notin BadWaits
         /\ \A o : Holds(st, o) <=> Head(st).op = o \/ Holds(Tail(st), o)
         /\ Head(st).op = "start" => \A o \in Rests : ~Holds(Tail(st), o)
         /\ Head(st).op \in Blocking => Tail(st) = <<>>
<1> DEFINE S == FramesOf(Blocking)
<1>1. Fits(st) /\ st \in Seq(MFrame) /\ Nested(st, S, MFrame, {})
  BY DEF Sits, Fits
<1>2. /\ Fits(Tail(st)) /\ ~Holds(Tail(st), "reset")
      /\ Head(st) \in MFrame /\ Head(st) \notin BadWaits
      /\ \A o : Holds(st, o) <=> Head(st).op = o \/ Holds(Tail(st), o)
      /\ Head(st).op = "start" => \A o \in Rests : ~Holds(Tail(st), o)
  BY <1>1, PopFits
<1>3. /\ Nested(Tail(st), S, MFrame, {}) /\ Tail(st) \in Seq(MFrame)
      /\ Head(st) \in S => ~Has(Tail(st), MFrame)
  <2> HIDE DEF S
  <2> QED
    BY <1>1, NestedPopped
<1>4. Head(st).op \in Blocking => Tail(st) = <<>>
  <2>1. Tail(st) # <<>> => Has(Tail(st), MFrame)
    <3> DEFINE t == Tail(st)
    <3>1. t \in Seq(MFrame)
      BY <1>3
    <3> HIDE DEF t
    <3>2. t # <<>> => 1 \in DOMAIN t /\ t[1] \in MFrame
      BY <3>1
    <3> QED
      BY <3>2 DEF Has, t
  <2> QED
    BY <1>2, <1>3, <2>1 DEF FramesOf
<1> QED
  BY <1>2, <1>3, <1>4 DEF Sits

LEMMA EmptySits == Sits(<<>>) /\ \A o : ~Holds(<<>>, o)
BY DEF Sits, Fits, Nested, Has, Holds

\* While the main context is iterated, nothing is left to do but the sync().
LEMMA IteratingHolds ==
  ASSUME Sits(stack), Iterating
  PROVE  \A o \in Rests : ~Holds(stack, o)
<1>1. CASE stack = <<>>
  BY <1>1, EmptySits
<1>2. CASE stack # <<>>
  <2>1. Head(stack).op = "drain"
    BY <1>2 DEF Iterating, TopIs
  <2>2. Tail(stack) = <<>> /\ \A o : Holds(stack, o) <=> Head(stack).op = o \/ Holds(Tail(stack), o)
    BY <1>2, <2>1, PopSits DEF Blocking
  <2> QED
    BY <2>1, <2>2, EmptySits DEF Rests
<1> QED
  BY <1>1, <1>2

\* A notify of "connected".
LEMMA NotifiedSits ==
  ASSUME NEW st, Sits(st), ~Holds(st, "reset"), stack' = Notified(st)
  PROVE  Sits(stack') /\ \A o \in Rests : Holds(stack', o) <=> Holds(st, o)
<1>1. Notify \in MFrame /\ Notify.op = "notify" /\ Notify \notin BadWaits
  BY FrameKinds DEF BadWaits
<1>2. /\ Sits(<<Notify>> \o st)
      /\ \A o : Holds(<<Notify>> \o st, o) <=> Notify.op = o \/ Holds(st, o)
  BY <1>1, PushSits DEF Blocking
<1>3. stack' = st \/ stack' = <<Notify>> \o st
  BY DEF Notified
<1> QED
  BY <1>1, <1>2, <1>3 DEF Rests

\* What is left of a call while the core connects.
LEMMA ConnectForSits ==
  ASSUME NEW st, Sits(st), ~Holds(st, "reset"), NEW f \in MFrame, f \notin BadWaits,
         f.op # "reset", f.op = "start" => \A o \in Rests : ~Holds(st, o),
         f.op \in Blocking => st = <<>>, NEW owed, ConnectFor(f, owed, st)
  PROVE  Sits(stack') /\ \A o \in Rests : Holds(stack', o) <=> f.op = o \/ Holds(st, o)
<1> DEFINE fs == <<f>> \o st
<1>1. Sits(fs) /\ \A o : Holds(fs, o) <=> f.op = o \/ Holds(st, o)
  BY PushSits
<1>2. stack' = Notified(fs)
  BY DEF ConnectFor
<1> HIDE DEF fs
<1>3. ~Holds(fs, "reset")
  BY <1>1
<1>4. Sits(stack') /\ \A o \in Rests : Holds(stack', o) <=> Holds(fs, o)
  BY <1>1, <1>2, <1>3, NotifiedSits
<1> QED
  BY <1>1, <1>4

\* The frame of a roundtrip, and nothing below it.
LEMMA BlockingSits ==
  ASSUME NEW f \in MFrame, f.op \in {"sync", "wait"}, f \notin BadWaits
  PROVE  Sits(<<f>> \o <<>>) /\ \A o \in Rests : ~Holds(<<f>> \o <<>>, o)
<1>1. /\ Sits(<<f>> \o <<>>)
      /\ \A o : Holds(<<f>> \o <<>>, o) <=> f.op = o \/ Holds(<<>>, o)
  BY EmptySits, PushSits
<1> QED
  BY <1>1, EmptySits DEF Rests

LEMMA WaitSits ==
  ASSUME NEW mark \in RoundtripMark, NEW ctx \in BOOLEAN, NEW timed \in BOOLEAN,
         SendSync(ctx, timed, mark, <<>>), lastReq \in Nat
  PROVE  Sits(stack') /\ \A o \in Rests : ~Holds(stack', o)
<1> DEFINE f == Frame("wait", lastReq + 1, ctx, timed, mark)
<1>1. stack' = <<f>> \o <<>>
  BY DEF SendSync
<1>2. f \in MFrame /\ f.op = "wait" /\ f \notin BadWaits
  <2>1. lastReq + 1 \in Nat
    OBVIOUS
  <2> QED
    BY <2>1, FrameKinds
<1> HIDE DEF f
<1> QED
  BY <1>1, <1>2, BlockingSits

LEMMA RoundtripSits ==
  ASSUME NEW mark \in RoundtripMark, NEW owed, Roundtrip(mark, owed, <<>>), lastReq \in Nat
  PROVE  Sits(stack') /\ \A o \in Rests : ~Holds(stack', o)
<1>1. CASE SendFails(<<>>)
  BY <1>1, EmptySits DEF SendFails
<1>2. CASE SendSync(TRUE, TRUE, mark, <<>>)
  <2>1. TRUE \in BOOLEAN
    OBVIOUS
  <2> QED
    BY <1>2, <2>1, WaitSits
<1>3. CASE ConnectFor(Frame("sync", 0, TRUE, TRUE, mark), owed, <<>>)
  <2> DEFINE f == Frame("sync", 0, TRUE, TRUE, mark)
  <2>1. f \in MFrame /\ f.op = "sync" /\ f \notin BadWaits
    <3>1. \A n \in Nat : \A ctx, timed \in BOOLEAN : \A op \in {"wait", "sync"} :
             /\ Frame(op, n, ctx, timed, mark) \in MFrame
             /\ Frame(op, n, ctx, timed, mark).op = op
             /\ Frame(op, n, ctx, timed, mark) \notin BadWaits
      BY FrameKinds
    <3>2. 0 \in Nat /\ TRUE \in BOOLEAN /\ "sync" \in {"wait", "sync"}
      OBVIOUS
    <3> QED
      BY <3>1, <3>2, Zenon
  <2>2. stack' = Notified(<<f>> \o <<>>)
    BY <1>3 DEF ConnectFor
  <2> HIDE DEF f
  <2>3. Sits(<<f>> \o <<>>) /\ \A o \in Rests : ~Holds(<<f>> \o <<>>, o)
    BY <2>1, BlockingSits
  <2>4. "reset" \in Rests
    BY DEF Rests
  <2> QED
    BY <2>2, <2>3, <2>4, NotifiedSits
<1> QED
  BY <1>1, <1>2, <1>3 DEF Roundtrip

LEMMA CoreStepSits ==
  ASSUME CoreTypeOK(Requests, Messages, Sources, Frames, Marks), Sits(stack), CoreStep
  PROVE  /\ Sits(stack')
         /\ \A o \in Rests : Holds(stack', o) <=> Holds(stack, o)
<1>1. /\ Fits(stack') /\ \A o \in Rests : Holds(stack', o) => Holds(stack, o)
      /\ stack \in Seq(MFrame) /\ Nested(stack, FramesOf(Blocking), MFrame, {})
  BY CoreStepFits DEF Sits, Fits
<1>2. Nested(stack', FramesOf(Blocking), MFrame, {})
  <2>1. Closed(FramesOf(Blocking), MFrame) /\ Closed(MFrame, MFrame) /\ Closed({}, MFrame)
    BY DEF Closed, FramesOf, Blocking, SameCall
  <2> QED
    BY <1>1, <2>1, MCovers, CoreStepNested DEF MFrame
<1>3. ASSUME NEW o \in Rests, Holds(stack, o)
      PROVE  Holds(stack', o)
  <2>1. PICK i \in DOMAIN stack : stack[i] \in MFrame /\ stack[i].op = o
    BY <1>3 DEF Holds, Has, FramesOf
  <2>2. o \notin {"wait", "drain", "app", "notify"}
    BY DEF Rests
  <2>3. CASE /\ stack # <<>> /\ stack' = Tail(stack)
             /\ Head(stack).op \in {"wait", "drain", "app", "notify"}
    <3>1. Has(stack, FramesOf({o})) <=> Head(stack) \in FramesOf({o}) \/ Has(Tail(stack), FramesOf({o}))
      BY <1>1, <2>3, HasPopped
    <3> QED
      BY <1>3, <2>2, <2>3, <3>1 DEF Holds, FramesOf
  <2>4. CASE \E k \in DOMAIN stack, f \in MFrame :
               SameCall(stack[k], f) /\ stack' = [stack EXCEPT ![k] = f]
    <3>1. PICK k \in DOMAIN stack, f \in MFrame :
            SameCall(stack[k], f) /\ stack' = [stack EXCEPT ![k] = f]
      BY <2>4
    <3>2. stack'[i] \in MFrame /\ stack'[i].op = o /\ i \in DOMAIN stack'
      BY <1>1, <2>1, <2>2, <3>1 DEF SameCall
    <3> QED
      BY <3>2 DEF Holds, Has, FramesOf
  <2>5. \/ stack' = stack
        \/ /\ stack # <<>> /\ stack' = Tail(stack)
           /\ Head(stack).op \in {"wait", "drain", "app", "notify"}
        \/ \E k \in DOMAIN stack, f \in MFrame :
             SameCall(stack[k], f) /\ stack' = [stack EXCEPT ![k] = f]
    BY MCovers, CoreStepFrames DEF MFrame
  <2> QED
    BY <1>3, <2>3, <2>4, <2>5
<1> QED
  BY <1>1, <1>2, <1>3 DEF Sits

\* A step that leaves the fields of the wrapper alone.
LEMMA SessionKept ==
  ASSUME Session, Sits(stack'), \A o \in Ending : Holds(stack', o) <=> Holds(stack, o),
         UNCHANGED <<connected, link, wrapperVars>>
  PROVE  Session'
BY DEF Session, wrapperVars, Sits, Fits, Holds, Ending

LEMMA CoreStepSession ==
  ASSUME MInv, Session, CoreStep, UNCHANGED wrapperVars
  PROVE  Session'
<1>1. Sits(stack') /\ \A o \in Rests : Holds(stack', o) <=> Holds(stack, o)
  BY MInvCore, CoreStepSits DEF Session
<1>2. UNCHANGED <<connected, link>>
  BY DEF CoreStep, SyncWake, SyncTimeout, DrainEnd, HandlerReturn, NotifyReturn, DispatchToken,
         LoopStep
<1> QED
  BY <1>1, <1>2, SessionKept DEF Ending, Rests

LEMMA SameSession ==
  ASSUME Session, UNCHANGED <<connected, link, stack, wrapperVars>>
  PROVE  Session'
BY SessionKept DEF Session

\* What is known when a session may begin.
LEMMA NoSession ==
  ASSUME MInv, Session, ~running, ~Holds(stack, "clear")
  PROVE  ~bound /\ metadata = NULL /\ registry = NULL /\ entries = {}
BY DEF Session, MInv, Owner

\* A connection.
LEMMA ConnectedSession ==
  ASSUME Session, Connected, Sits(stack'), UNCHANGED wrapperVars,
         \A o \in Ending : Holds(stack, o) => Holds(stack', o),
         bound => \A o \in Ending : ~Holds(stack', o)
  PROVE  Session'
<1>1. connected' /\ link' /\ UNCHANGED <<running, bound, registry, metadata, entries>>
  BY DEF Connected, wrapperVars
<1> QED
  BY <1>1 DEF Session, Sits, Fits, Holds, Ending

LEMMA ConnectSession ==
  ASSUME MInv, Session, Connect, UNCHANGED wrapperVars
  PROVE  Session'
<1>1. Connected /\ stack' = Notified(stack) /\ ~TopIs("reset")
  BY DEF Connect, MayCall, TopIs
<1>2. ~Holds(stack, "reset") /\ Sits(stack)
  BY <1>1, NoReset DEF MInv, Session
<1>3. Sits(stack') /\ \A o \in Rests : Holds(stack', o) <=> Holds(stack, o)
  BY <1>1, <1>2, NotifiedSits
<1> QED
  BY <1>1, <1>3, ConnectedSession DEF Session, Ending, Rests

LEMMA OpenSession ==
  ASSUME MInv, Session, ~running, connected, ~Holds(stack, "clear"), NEW below, Sits(below),
         \A o \in Rests : ~Holds(below, o), Open(below), UNCHANGED <<connected, link>>
  PROVE  Session'
<1>1. /\ registry' = lastReq + 1 /\ running' = TRUE /\ Emit(below) /\ lastReq \in Nat
      /\ UNCHANGED <<bound, metadata, metadata_id, entries>>
  BY DEF Open, MInv, ConnectionOK
<1>2. Sits(stack')
  BY <1>1, EmitSits DEF Rests
<1>3. ~bound /\ metadata = NULL /\ registry' # NULL
  BY <1>1, NoSession DEF NULL
<1> QED
  BY <1>1, <1>2, <1>3 DEF Session, Sits, Fits

LEMMA OpenFailsSession ==
  ASSUME MInv, Session, ~running, ~Holds(stack, "clear"), NEW below, Sits(below),
         OpenFails(below), UNCHANGED <<connected, link>>
  PROVE  Session'
<1>1. /\ stack' = Failed(below) /\ UNCHANGED <<running, bound, metadata, entries>>
  BY DEF OpenFails
<1>2. Sits(stack')
  <2>1. CASE below # <<>> /\ Head(below).op = "msync"
    BY <1>1, <2>1, PopSits DEF Failed
  <2> QED
    BY <1>1, <2>1 DEF Failed
<1>3. ~bound /\ metadata = NULL /\ entries = {}
  BY NoSession
<1> QED
  BY <1>1, <1>2, <1>3 DEF Session, Sits, Fits

LEMMA StartOnSession ==
  ASSUME MInv, Session, ~running, \A o \in Rests : ~Holds(stack, o), NEW below, Sits(below),
         \A o \in Rests : ~Holds(below, o), StartOn(below)
  PROVE  Session'
<1>1. ~Holds(stack, "clear") /\ ~Holds(below, "reset") /\ "start" \in Rests
  BY DEF Rests
<1>2. CASE connected
  <2>1. /\ UNCHANGED <<connected, connects, link, wire>>
        /\ Open(below) \/ OpenFails(below)
    BY <1>2 DEF StartOn
  <2> QED
    BY <1>1, <1>2, <2>1, OpenSession, OpenFailsSession
<1>3. CASE ~connected
  <2> DEFINE f == Rest("start")
  <2>1. ConnectFor(f, Owed, below) /\ UNCHANGED wrapperVars
    BY <1>3 DEF StartOn
  <2>2. f \in MFrame /\ f.op = "start" /\ f \notin BadWaits
    BY FrameKinds DEF Rests, BadWaits
  <2> HIDE DEF f
  <2>3. Sits(stack')
    BY <1>1, <2>1, <2>2, ConnectForSits DEF Blocking
  <2>4. Connected
    BY <2>1 DEF ConnectFor
  <2>5. ~bound
    BY <1>1, NoSession
  <2> QED
    BY <2>1, <2>3, <2>4, <2>5, ConnectedSession DEF Ending, Rests
<1> QED
  BY <1>2, <1>3

LEMMA StartSession ==
  ASSUME MInv, Session, Start
  PROVE  Session'
<1>1. \A o \in Rests : ~Holds(stack, o)
  BY RestsHeld DEF Start, Calls, MInv
<1> QED
  BY <1>1, StartOnSession DEF Start, Session

LEMMA StartResumeSession ==
  ASSUME MInv, Session, StartResume
  PROVE  Session'
<1>1. /\ stack # <<>> /\ Head(stack).op = "start" /\ Sits(stack)
      /\ UNCHANGED <<connected, link>>
      /\ (connected /\ Open(Tail(stack))) \/ OpenFails(Tail(stack))
  BY DEF StartResume, TopIs, Session
<1>2. /\ Sits(Tail(stack)) /\ \A o \in Rests : ~Holds(Tail(stack), o)
      /\ Holds(stack, "start") /\ ~Holds(stack, "clear")
  BY <1>1, PopSits DEF Rests
<1>3. ~running
  BY <1>2 DEF MInv, Owner
<1> QED
  BY <1>1, <1>2, <1>3, OpenSession, OpenFailsSession

\* The sync() that is the outermost call.
LEMMA RoundtripSession ==
  ASSUME MInv, Session, \A o \in Ending : ~Holds(stack, o), NEW mark \in RoundtripMark,
         NEW owed, Roundtrip(mark, owed, <<>>), UNCHANGED wrapperVars
  PROVE  Session'
<1>1. Sits(stack') /\ \A o \in Rests : ~Holds(stack', o)
  BY RoundtripSits DEF MInv, ConnectionOK
<1>2. UNCHANGED <<connected, link>> \/ Connected
  BY DEF Roundtrip, ConnectFor
<1> QED
  BY <1>1, <1>2, SessionKept, ConnectedSession DEF Ending, Rests

\* Nothing ends a session below a sync().
LEMMA BlockingHolds ==
  ASSUME Sits(stack), stack # <<>>, Head(stack).op \in Blocking
  PROVE  Tail(stack) = <<>> /\ \A o \in Rests : ~Holds(stack, o)
<1>1. Tail(stack) = <<>> /\ \A o : Holds(stack, o) <=> Head(stack).op = o \/ Holds(Tail(stack), o)
  BY PopSits
<1> QED
  BY <1>1, EmptySits DEF Rests, Blocking

\* A call that resumes once the core has connected.
LEMMA SyncResumeSession ==
  ASSUME MInv, Session, SyncResume(Head(stack).mark), UNCHANGED wrapperVars
  PROVE  Session'
<1> DEFINE f == Head(stack)
<1>1. /\ stack # <<>> /\ f.op = "sync" /\ Sits(stack) /\ UNCHANGED <<connected, link>>
      /\ SendSync(f.ctx, f.timed, f.mark, Tail(stack)) \/ SendFails(Tail(stack))
  BY DEF SyncResume, TopIs, Session
<1>2. Tail(stack) = <<>> /\ \A o \in Rests : ~Holds(stack, o)
  BY <1>1, BlockingHolds DEF Blocking
<1>3. f \in MFrame /\ f \notin BadWaits
  BY <1>1, PopSits
<1>4. /\ f.mark \in RoundtripMark /\ f.ctx \in BOOLEAN /\ f.timed \in BOOLEAN
      /\ lastReq \in Nat
  BY <1>1, <1>3 DEF BadWaits, MFrame, FrameType, MInv, ConnectionOK
<1> HIDE DEF f
<1>5. Sits(stack') /\ \A o \in Rests : ~Holds(stack', o)
  <2>1. CASE SendFails(Tail(stack))
    BY <1>2, <2>1, EmptySits DEF SendFails
  <2>2. CASE SendSync(f.ctx, f.timed, f.mark, Tail(stack))
    BY <1>2, <1>4, <2>2, WaitSits
  <2> QED
    BY <1>1, <2>1, <2>2
<1> QED
  BY <1>1, <1>2, <1>5, SessionKept DEF Ending, Rests

LEMMA SyncSession ==
  ASSUME "sync" \notin HandlerCalls, MInv, Session, Sync
  PROVE  Session'
<1>1. stack = <<>> /\ \A o : ~Holds(stack, o)
  BY EmptySits DEF Sync, Calls, MayCall
<1>2. CASE running
  <2>1. Roundtrip(Mark(~bound), Owed, <<>>) /\ UNCHANGED wrapperVars
    BY <1>1, <1>2 DEF Sync
  <2>2. Mark(~bound) \in RoundtripMark
    BY MarkTypes
  <2> QED
    BY <1>1, <2>1, <2>2, RoundtripSession
<1>3. CASE ~running
  <2> DEFINE below == <<Rest("msync")>> \o stack
  <2>1. StartOn(below)
    BY <1>3 DEF Sync
  <2>2. Sits(below) /\ \A o : Holds(below, o) <=> o = "msync" \/ Holds(stack, o)
    BY <1>1, RestSits DEF Session, Rests
  <2> HIDE DEF below
  <2>3. \A o \in Rests : ~Holds(below, o)
    BY <1>1, <2>2 DEF Rests
  <2> QED
    BY <1>1, <1>3, <2>1, <2>2, <2>3, StartOnSession
<1> QED
  BY <1>2, <1>3

LEMMA SyncStartedSession ==
  ASSUME MInv, Session, SyncStarted
  PROVE  Session'
<1>1. /\ stack # <<>> /\ Head(stack).op = "msync" /\ Sits(stack)
      /\ Roundtrip(Mark(~bound), Owed, Tail(stack)) /\ UNCHANGED wrapperVars
  BY DEF SyncStarted, TopIs, Session
<1>2. Tail(stack) = <<>> /\ \A o \in Rests : ~Holds(stack, o)
  BY <1>1, BlockingHolds DEF Blocking
<1>3. Mark(~bound) \in RoundtripMark
  BY MarkTypes
<1> QED
  BY <1>1, <1>2, <1>3, RoundtripSession DEF Ending, Rests

LEMMA SyncDrainEndSession ==
  ASSUME MInv, Session, SyncDrainEnd
  PROVE  Session'
<1> DEFINE m == Head(stack).mark
           again == [m EXCEPT !.second = FALSE]
<1>1. /\ stack # <<>> /\ Head(stack).op = "drain" /\ Sits(stack) /\ UNCHANGED wrapperVars
  BY DEF SyncDrainEnd, TopIs, Session
<1>2. Tail(stack) = <<>> /\ \A o \in Rests : ~Holds(stack, o)
  BY <1>1, BlockingHolds DEF Blocking
<1>3. CASE Roundtrip(again, Owed, Tail(stack))
  <2>1. Head(stack) \in MFrame /\ Head(stack) \notin BadWaits
    BY <1>1, PopSits
  <2>2. m \in RoundtripMark
    BY <1>1, <2>1 DEF BadWaits
  <2>3. again \in RoundtripMark
    BY <2>2 DEF RoundtripMark
  <2> HIDE DEF again
  <2> QED
    BY <1>1, <1>2, <1>3, <2>3, RoundtripSession DEF Ending, Rests
<1>4. CASE DrainEnd
  BY <1>1, <1>4, CoreStepSession DEF CoreStep
<1> QED
  BY <1>1, <1>3, <1>4 DEF SyncDrainEnd, DrainEnd

\* The object goes, and with it all that a session has of it.
LEMMA DestroyBoundSession ==
  ASSUME MInv, Session, NEW below, Sits(below), ~Holds(below, "reset"),
         \A o \in {"clear", "unbound"} : Holds(stack, o) => Holds(below, o),
         DestroyBoundProxy(below),
         UNCHANGED <<connected, link, running, registry>>
  PROVE  Session'
<1>1. metadata' = NULL /\ bound' = FALSE /\ entries' \subseteq entries
  BY DEF DestroyBoundProxy
<1>2. Sits(stack') /\ \A o \in {"clear", "unbound"} : Holds(below, o) => Holds(stack', o)
  <2>1. CASE ~bound
    BY <2>1 DEF DestroyBoundProxy
  <2>2. CASE bound
    <3> DEFINE rest == <<Rest("unbind")>> \o below
    <3>1. Emit(rest)
      BY <2>2 DEF DestroyBoundProxy
    <3>2. Sits(rest) /\ \A o : Holds(rest, o) <=> o = "unbind" \/ Holds(below, o)
      BY RestSits DEF Rests
    <3> HIDE DEF rest
    <3>3. Sits(stack') /\ \A o \in Rests : Holds(stack', o) <=> Holds(rest, o)
      BY <3>1, <3>2, EmitSits
    <3> QED
      BY <3>2, <3>3 DEF Rests
  <2> QED
    BY <2>1, <2>2
<1> QED
  BY <1>1, <1>2 DEF Session, Sits, Fits, Holds

LEMMA StopSession ==
  ASSUME MInv, Session, Stop
  PROVE  Session'
<1> DEFINE below == <<Rest("halt")>> \o stack
<1>1. /\ ~TopIs("reset") /\ DestroyBoundProxy(below)
      /\ UNCHANGED <<connected, link, running, registry>>
  BY DEF Stop, MayCall, TopIs
<1>2. Sits(stack) /\ ~Holds(stack, "reset")
  BY <1>1, NoReset DEF MInv, Session
<1>3. Sits(below) /\ \A o : Holds(below, o) <=> o = "halt" \/ Holds(stack, o)
  BY <1>2, RestSits DEF Rests
<1> HIDE DEF below
<1> QED
  BY <1>1, <1>2, <1>3, DestroyBoundSession

LEMMA NotRunningSits ==
  ASSUME NEW below, Sits(below), ~Holds(below, "reset"), NotRunning(below)
  PROVE  /\ Sits(stack') /\ running' = FALSE /\ entries' \subseteq entries
         /\ entries' # {} => Holds(stack', "clear")
<1>1. running' = FALSE /\ entries' \subseteq entries
  BY DEF NotRunning
<1>2. CASE ~running
  BY <1>1, <1>2 DEF NotRunning
<1>3. CASE running
  <2> DEFINE rest == <<Rest("clear")>> \o below
  <2>1. Emit(rest)
    BY <1>3 DEF NotRunning
  <2>2. Sits(rest) /\ \A o : Holds(rest, o) <=> o = "clear" \/ Holds(below, o)
    BY RestSits DEF Rests
  <2> HIDE DEF rest
  <2>3. Sits(stack') /\ \A o \in Rests : Holds(stack', o) <=> Holds(rest, o)
    BY <2>1, <2>2, EmitSits DEF Rests
  <2> QED
    BY <1>1, <2>2, <2>3 DEF Rests
<1> QED
  BY <1>2, <1>3

\* The two places where a session ends.
LEMMA HaltSession ==
  ASSUME MInv, Session, Halt \/ Unbound
  PROVE  Session'
<1>1. /\ stack # <<>> /\ Head(stack).op \in {"halt", "unbound"} /\ Sits(stack)
      /\ NotRunning(Tail(stack)) /\ UNCHANGED <<connected, link, bound, metadata>>
  BY DEF Halt, Unbound, TopIs, Session
<1>2. /\ Sits(Tail(stack)) /\ ~Holds(Tail(stack), "reset")
      /\ Holds(stack, Head(stack).op)
  BY <1>1, PopSits
<1>3. /\ Sits(stack') /\ running' = FALSE /\ (entries' # {} => Holds(stack', "clear"))
  BY <1>1, <1>2, NotRunningSits
<1>4. ~bound
  BY <1>1, <1>2 DEF Session, Ending
<1> QED
  BY <1>1, <1>3, <1>4 DEF Session, Sits, Fits, Holds

LEMMA ResetSession ==
  ASSUME MInv, Session, Reset
  PROVE  Session'
<1> DEFINE rest == <<Rest("unbound")>> \o Tail(stack)
<1>1. /\ stack # <<>> /\ Head(stack).op = "reset" /\ Sits(stack)
      /\ metadata' = NULL /\ bound' = FALSE /\ (Emit(rest) \/ stack' = rest)
      /\ UNCHANGED <<connected, link, running, entries>>
  BY DEF Reset, TopIs, Session
<1>2. /\ Sits(Tail(stack)) /\ ~Holds(Tail(stack), "reset") /\ Holds(stack, "reset")
      /\ Holds(stack, "clear") => Holds(Tail(stack), "clear")
  BY <1>1, PopSits
<1>3. Sits(rest) /\ \A o : Holds(rest, o) <=> o = "unbound" \/ Holds(Tail(stack), o)
  BY <1>2, RestSits DEF Rests
<1> HIDE DEF rest
<1>4. /\ Sits(stack') /\ Holds(stack', "unbound")
      /\ Holds(stack, "clear") => Holds(stack', "clear")
  BY <1>1, <1>2, <1>3, EmitSits DEF Rests
<1> QED
  BY <1>1, <1>4 DEF Session, Sits, Fits, Holds

\* The wrapper's handler of notify::connected.
LEMMA ResetSits ==
  ASSUME NEW st, Sits(st), ~Holds(st, "reset")
  PROVE  /\ Sits(<<Rest("reset")>> \o st)
         /\ \A o \in Ending : Holds(<<Rest("reset")>> \o st, o) <=> Holds(st, o)
BY RestSits DEF Rests, Ending

LEMMA DisconnectSession ==
  ASSUME MInv, Session, DisconnectCore
  PROVE  Session'
<1>1. /\ ~TopIs("reset") /\ connected' = FALSE /\ link' = FALSE
      /\ UNCHANGED <<running, bound, registry, metadata, entries>>
  BY DEF DisconnectCore, DisconnectFor, MayCall, TopIs, Disconnected
<1>2. Sits(stack) /\ ~Holds(stack, "reset")
  BY <1>1, NoReset DEF MInv, Session
<1> DEFINE st == <<Notify>> \o stack
<1>3. Sits(st) /\ ~Holds(st, "reset") /\ \A o \in Ending : Holds(st, o) <=> Holds(stack, o)
  <2>1. /\ Notify \in MFrame /\ Notify.op = "notify" /\ Notify \notin BadWaits
        /\ Notify.op \notin Blocking
    BY FrameKinds DEF BadWaits, Blocking
  <2>2. Sits(st) /\ \A o : Holds(st, o) <=> Notify.op = o \/ Holds(stack, o)
    BY <1>2, <2>1, PushSits
  <2> QED
    BY <1>2, <2>1, <2>2 DEF Ending
<1>4. stack' = stack \/ stack' = <<Rest("reset")>> \o st
  BY DisconnectFits
<1> HIDE DEF st
<1>5. Sits(stack') /\ \A o \in Ending : Holds(stack', o) <=> Holds(stack, o)
  <2>1. CASE stack' = stack
    BY <1>2, <2>1
  <2>2. CASE stack' = <<Rest("reset")>> \o st
    <3>1. /\ Sits(<<Rest("reset")>> \o st)
          /\ \A o \in Ending : Holds(<<Rest("reset")>> \o st, o) <=> Holds(st, o)
      BY <1>3, ResetSits
    <3> QED
      BY <1>3, <2>2, <3>1
  <2> QED
    BY <1>4, <2>1, <2>2
<1> QED
  BY <1>1, <1>5 DEF Session, Sits, Fits, Holds, Ending

LEMMA RestartSession ==
  ASSUME MInv, Session, Restart, UNCHANGED wrapperVars
  PROVE  Session'
<1>1. /\ ~TopIs("reset") /\ stack' = <<Rest("reset")>> \o stack /\ UNCHANGED <<connected, link>>
  BY DEF Restart, RestartFor, TopIs, Push
<1>2. Sits(stack) /\ ~Holds(stack, "reset")
  BY <1>1, NoReset DEF MInv, Session
<1> QED
  BY <1>1, <1>2, ResetSits, SessionKept

LEMMA ClearEntriesSession ==
  ASSUME MInv, Session, ClearEntries
  PROVE  Session'
<1>1. /\ stack # <<>> /\ Head(stack).op \in {"unbind", "clear"} /\ Sits(stack)
      /\ stack' = Tail(stack) /\ entries' = {}
      /\ UNCHANGED <<connected, link, running, bound, registry, metadata>>
  BY DEF ClearEntries, TopIs, Pop, Session
<1>2. /\ Sits(stack') /\ Holds(stack, Head(stack).op)
      /\ Holds(stack, "unbound") => Holds(stack', "unbound")
  BY <1>1, PopSits
<1>3. ~bound
  BY <1>1, <1>2 DEF Session, Ending
<1> QED
  BY <1>1, <1>2, <1>3 DEF Session, Sits, Fits, Holds

\* What the main context dispatches, it dispatches within a session.
LEMMA BindSession ==
  ASSUME MInv, Session, Iterating, running, NEW id, Bind(id), UNCHANGED <<connected, link>>
  PROVE  Session'
<1>1. Sits(stack) /\ \A o \in Rests : ~Holds(stack, o)
  BY IteratingHolds DEF Session
<1>2. CASE Drop
  BY <1>1, <1>2, SessionKept DEF Drop
<1>3. CASE ~Drop
  <2>1. /\ metadata' = lastReq + 1 /\ bound' = TRUE /\ Emit(stack) /\ lastReq \in Nat
        /\ registry # NULL /\ UNCHANGED <<running, registry, entries>>
    BY <1>3 DEF Bind, MInv, ConnectionOK
  <2>2. Sits(stack') /\ \A o \in Rests : Holds(stack', o) <=> Holds(stack, o)
    BY <1>1, <2>1, EmitSits DEF Rests
  <2>3. metadata' # NULL /\ \A o \in Ending : ~Holds(stack', o)
    BY <1>1, <2>1, <2>2 DEF NULL, Ending, Rests
  <2> QED
    BY <2>1, <2>2, <2>3 DEF Session, Sits, Fits, Holds
<1> QED
  BY <1>2, <1>3

LEMMA DispatchSession ==
  ASSUME MInv, Session, Dispatch
  PROVE  Session'
<1>1. ASSUME Drop, UNCHANGED <<connected, link>>
      PROVE  Session'
  BY <1>1, SameSession DEF Drop
<1>2. CASE Keep(DispatchToken)
  BY <1>2, CoreStepSession DEF Keep, CoreStep
<1>3. CASE DispatchFound
  BY <1>1, <1>3, BindSession DEF DispatchFound, Takes, Current
<1>4. CASE DispatchRemoved
  <2>1. Iterating /\ UNCHANGED <<connected, link>>
    BY <1>4 DEF DispatchRemoved, Takes
  <2>2. Sits(stack) /\ ~Holds(stack, "reset")
    BY <2>1, IteratingHolds DEF Session, Rests
  <2> QED
    BY <1>1, <1>4, <2>1, <2>2, DestroyBoundSession DEF DispatchRemoved
<1>5. CASE DispatchChanged
  <2>1. Iterating /\ UNCHANGED <<connected, link>>
    BY <1>5 DEF DispatchChanged, Takes
  <2>2. Sits(stack) /\ \A o \in Rests : ~Holds(stack, o)
    BY <2>1, IteratingHolds DEF Session
  <2>3. CASE ~Drop
    <3>1. /\ Emit(stack) /\ running
          /\ UNCHANGED <<running, bound, registry, metadata>>
      BY <1>5, <2>3 DEF DispatchChanged, Current
    <3>2. Sits(stack') /\ \A o \in Rests : Holds(stack', o) <=> Holds(stack, o)
      BY <2>2, <3>1, EmitSits DEF Rests
    <3>3. registry # NULL /\ \A o \in Ending : ~Holds(stack', o)
      BY <2>2, <3>1, <3>2 DEF Ending, Rests, Session
    <3> QED
      BY <2>1, <3>1, <3>2, <3>3 DEF Session, Sits, Fits, Holds
  <2> QED
    BY <1>1, <2>1, <2>3
<1> QED
  BY <1>2, <1>3, <1>4, <1>5 DEF Dispatch

LEMMA ClearAllSession ==
  ASSUME MInv, Session, ClearAll
  PROVE  Session'
<1>1. /\ entries' = {}
      /\ UNCHANGED <<connected, link, stack, running, bound, registry, metadata>>
  BY DEF ClearAll
<1> QED
  BY <1>1 DEF Session, Sits, Fits, Holds

LEMMA SessionInit == MInit => Session
<1> SUFFICES ASSUME MInit
             PROVE  Session
  OBVIOUS
<1> QED
  BY EmptySits DEF MInit, Init, Session, NULL

LEMMA SessionNext ==
  ASSUME "sync" \notin HandlerCalls, MInv, Session, [MNext]_vars
  PROVE  Session'
<1>1. CASE Start \/ Sync \/ Stop \/ DisconnectCore \/ ClearAll \/ Keep(Connect)
  BY <1>1, StartSession, SyncSession, StopSession, DisconnectSession, ClearAllSession,
     ConnectSession DEF Keep
<1>2. ASSUME UNCHANGED <<connected, link, stack, wrapperVars>>
      PROVE  Session'
  BY <1>2, SameSession
<1>3. ASSUME NEW c, SetValue(c)
      PROVE  Session'
  BY <1>2, <1>3 DEF SetValue
<1>4. CASE MMainStep
  <2>1. CASE \/ Keep(SyncWake) \/ Keep(SyncTimeout) \/ Keep(HandlerReturn)
             \/ Keep(NotifyReturn) \/ Keep(Restart) \/ Keep(SyncResume(Head(stack).mark))
    BY <2>1, CoreStepSession, RestartSession, SyncResumeSession DEF Keep, CoreStep
  <2>2. CASE StartResume \/ SyncStarted \/ SyncDrainEnd
    BY <2>2, StartResumeSession, SyncStartedSession, SyncDrainEndSession
  <2>3. CASE ClearEntries \/ Halt \/ Reset \/ Unbound
    BY <2>3, ClearEntriesSession, HaltSession, ResetSession
  <2> QED
    BY <1>4, <2>1, <2>2, <2>3 DEF MMainStep
<1>5. CASE Dispatch
  BY <1>5, DispatchSession
<1>6. CASE MServerStep \/ Keep(EnterLoop)
  <2>1. UNCHANGED <<connected, link, stack, wrapperVars>>
    BY <1>6 DEF MServerStep, Keep, ServeSync, EnterLoop, ServeRegistry, ServeObject, ServeSet,
                ServeWipe
  <2> QED
    BY <1>2, <2>1
<1>7. CASE MLoopStep
  <2>1. CASE Keep(LoopStep)
    BY <2>1, CoreStepSession DEF Keep, CoreStep
  <2>2. CASE OnMessage
    BY <1>2, <2>2 DEF OnMessage
  <2> QED
    BY <1>7, <2>1, <2>2 DEF MLoopStep
<1>8. ASSUME NEW id, NEW name, ServerAdd(id, name)
      PROVE  Session'
  BY <1>2, <1>8 DEF ServerAdd
<1>9. ASSUME NEW o, ServerRemove(o)
      PROVE  Session'
  BY <1>2, <1>9 DEF ServerRemove
<1>10. ASSUME NEW o, NEW s, NEW k, ServerWrites(o, s, k)
       PROVE  Session'
  BY <1>2, <1>10 DEF ServerWrites
<1>11. CASE UNCHANGED vars
  BY <1>2, <1>11 DEF vars, coreVars
<1> QED
  BY <1>1, <1>3, <1>4, <1>5, <1>6, <1>7, <1>8, <1>9, <1>10, <1>11 DEF MNext, MCall

-----------------------------------------------------------------------------
(* What was told, and by which proxy.                                      *)

\* What a queue holds, in any order.
Elements(s) == {s[i] : i \in DOMAIN s}

\* Requests that create a proxy, and what a registry or an object tells.
Binding(r) == r.kind \in {"registry", "object"}
IsNews(m) == m.kind \in {"global", "gone", "property"}

\* Each of them has a number of its own.
Distinct(s) ==
  \A i, j \in DOMAIN s : Binding(s[i]) /\ Binding(s[j]) /\ s[i].n = s[j].n => i = j

\* The proxies that the server has still to be asked for.
Asked == {r.n : r \in {q \in Elements(toServer) : Binding(q)}}

\* Which proxy tells of which object: it is served from it, or something that
\* it told of it is still around.
Telling ==
  subs
  \cup {[p |-> m.to, o |-> m.of] : m \in {n \in Elements(wire) : n.kind = "property"}}
  \cup {[p |-> e.via, o |-> e.of] : e \in {d \in Elements(mainq) : d.kind = "property"}}
  \cup {[p |-> x.via, o |-> x.of] : x \in entries}

\* The registry and the object are asked for under numbers of their own, the
\* object under the id that is remembered.
AskedOK ==
  /\ Distinct(toServer)
  /\ \A r \in Elements(toServer) : Binding(r) => r.n # 0 /\ r.n <= lastReq
  /\ \A r \in Elements(toServer) :
       r.kind = "object" => r.n # registry /\ (r.n = metadata => r.id = metadata_id)
  /\ \A r \in Elements(toServer) : r.kind = "registry" => r.n # metadata

\* A proxy tells of one object only, the registry of none, and before the
\* server has read the request for it of nothing.
TellsOK ==
  /\ \A t \in Telling : t.p \in Nat /\ t.p <= lastReq /\ t.p \notin Asked
  /\ \A t, u \in Telling : t.p = u.p => t.o = u.o
  /\ registry # NULL => \A t \in Telling : t.p = registry => t.o = 0
  /\ \A o \in server : o.serial # 0
  /\ \A m \in Elements(wire) : m.kind = "property" => m.of # 0

\* What belongs to a session was told by a proxy of that session.
EventsOK ==
  /\ \A e \in Elements(mainq) : IsNews(e) => e.gen <= generation
  /\ \A m \in Elements(wire) : IsNews(m) => m.to <= lastReq
  /\ metadata # NULL => metadata > registry
  /\ running => \A e \in Elements(mainq) :
       e.kind = "property" /\ e.gen = generation => e.via > registry
  /\ running => \A x \in entries : x.via > registry

\* A session that has heard anything hears of removals.
Subscribed == [p |-> registry, o |-> 0] \in subs
Heard ==
  \/ metadata # NULL
  \/ \E m \in Elements(wire) : IsNews(m) /\ m.to = registry
  \/ \E e \in Elements(mainq) : IsNews(e) /\ e.gen = generation
HeardOK == connected /\ registry # NULL /\ Heard => Subscribed

\* The removal of the object that is bound is on its way.
Removals == {m \in Messages : m.kind = "gone" /\ m.to = registry /\ m.id = metadata_id}
Removers == {e \in Sources : e.kind = "gone" /\ e.gen = generation /\ e.id = metadata_id}
Coming == \/ \E m \in Elements(wire) : m \in Removals
          \/ \E e \in Elements(mainq) : e \in Removers
FollowsOK ==
  bound /\ connected =>
    \A t \in Telling : t.p = metadata =>
      Coming \/ \E q \in server : q.serial = t.o /\ q.id = metadata_id

History == AskedOK /\ TellsOK /\ EventsOK /\ HeardOK /\ FollowsOK

-----------------------------------------------------------------------------
(* Queues as sets.                                                         *)

LEMMA ElementsPopped ==
  ASSUME NEW F, NEW s \in Seq(F), s # <<>>
  PROVE  /\ Elements(s) = {Head(s)} \cup Elements(Tail(s))
         /\ Head(s) \in F /\ Tail(s) \in Seq(F)
<1> DEFINE t == Tail(s)
           x == Head(s)
<1>1. /\ t \in Seq(F) /\ x \in F /\ 1 \in DOMAIN s /\ s[1] = x
      /\ \A i \in DOMAIN t : i + 1 \in DOMAIN s /\ t[i] = s[i + 1]
      /\ \A i \in DOMAIN s : i = 1 \/ (i - 1 \in DOMAIN t /\ s[i] = t[i - 1])
  BY Popped
<1> HIDE DEF t, x
<1>2. Elements(s) \subseteq {x} \cup Elements(t)
  BY <1>1 DEF Elements
<1>3. {x} \cup Elements(t) \subseteq Elements(s)
  BY <1>1 DEF Elements
<1> QED
  BY <1>1, <1>2, <1>3 DEF t, x

LEMMA ElementsAppended ==
  ASSUME NEW F, NEW s \in Seq(F), NEW x \in F
  PROVE  Elements(Append(s, x)) = Elements(s) \cup {x}
BY Appended DEF Elements

LEMMA ElementsJoined ==
  ASSUME NEW F, NEW s \in Seq(F), NEW t \in Seq(F)
  PROVE  Elements(s \o t) = Elements(s) \cup Elements(t)
<1>1. /\ \A i \in DOMAIN s : i \in DOMAIN (s \o t) /\ (s \o t)[i] = s[i]
      /\ \A i \in DOMAIN t : Len(s) + i \in DOMAIN (s \o t) /\ (s \o t)[Len(s) + i] = t[i]
  OBVIOUS
<1>2. \A i \in DOMAIN (s \o t) :
        \/ i \in DOMAIN s /\ (s \o t)[i] = s[i]
        \/ i - Len(s) \in DOMAIN t /\ (s \o t)[i] = t[i - Len(s)]
  OBVIOUS
<1> DEFINE u == s \o t
<1> HIDE DEF u
<1>3. Elements(u) \subseteq Elements(s) \cup Elements(t)
  BY <1>2 DEF Elements, u
<1>4. Elements(s) \subseteq Elements(u) /\ Elements(t) \subseteq Elements(u)
  BY <1>1 DEF Elements, u
<1> QED
  BY <1>3, <1>4 DEF u

LEMMA ElementsTyped ==
  ASSUME NEW F, NEW s \in Seq(F)
  PROVE  Elements(s) \subseteq F
BY DEF Elements

LEMMA MessageTyped ==
  ASSUME NEW w \in Seq(Messages)
  PROVE  \A m \in Elements(w) : IsNews(m) => m.to \in Nat /\ m.of \in Nat /\ m.id \in Ids
<1>1. Elements(w) \subseteq Messages
  BY ElementsTyped
<1> QED
  BY <1>1 DEF Messages, CoreMessages, IsNews

LEMMA SourceTyped ==
  ASSUME NEW q \in Seq(Sources)
  PROVE  \A e \in Elements(q) :
           IsNews(e) => e.gen \in Nat /\ e.via \in Nat /\ e.of \in Nat /\ e.id \in Ids
<1>1. Elements(q) \subseteq Sources
  BY ElementsTyped
<1> QED
  BY <1>1 DEF Sources, CoreSources, IsNews

LEMMA RequestTyped ==
  ASSUME NEW s \in Seq(Requests)
  PROVE  \A r \in Elements(s) : r.n \in Nat
<1>1. Elements(s) \subseteq Requests
  BY ElementsTyped
<1> QED
  BY <1>1 DEF Requests

LEMMA DistinctPopped ==
  ASSUME NEW s \in Seq(Requests), s # <<>>, Distinct(s)
  PROVE  /\ Distinct(Tail(s))
         /\ Binding(Head(s)) => \A r \in Elements(Tail(s)) : Binding(r) => r.n # Head(s).n
<1> DEFINE t == Tail(s)
<1>1. /\ 1 \in DOMAIN s /\ s[1] = Head(s)
      /\ \A i \in DOMAIN t : i \in Int /\ i + 1 \in DOMAIN s /\ i + 1 # 1 /\ t[i] = s[i + 1]
  BY Popped
<1> HIDE DEF t
<1>2. Distinct(t)
  <2> SUFFICES ASSUME NEW i \in DOMAIN t, NEW j \in DOMAIN t, Binding(t[i]), Binding(t[j]),
                      t[i].n = t[j].n
               PROVE  i = j
    BY DEF Distinct
  <2>1. i + 1 = j + 1
    BY <1>1 DEF Distinct
  <2> QED
    BY <1>1, <2>1
<1>3. ASSUME Binding(Head(s)), NEW i \in DOMAIN t, Binding(t[i])
      PROVE  t[i].n # Head(s).n
  BY <1>1, <1>3 DEF Distinct
<1> QED
  BY <1>2, <1>3 DEF t, Elements

LEMMA DistinctAppended ==
  ASSUME NEW s \in Seq(Requests), Distinct(s), NEW r \in Requests,
         Binding(r) => \A x \in Elements(s) : Binding(x) => x.n # r.n
  PROVE  Distinct(Append(s, r))
<1> DEFINE t == Append(s, r)
<1>1. /\ Len(s) + 1 \in DOMAIN t /\ t[Len(s) + 1] = r
      /\ \A i \in DOMAIN t : i = Len(s) + 1 \/ (i \in DOMAIN s /\ t[i] = s[i])
  BY Appended
<1> HIDE DEF t
<1> QED
  BY <1>1 DEF Distinct, Elements, t

\* Requests that are read, or sent and create no proxy.
FewerAsked ==
  /\ Distinct(toServer')
  /\ \A r \in Elements(toServer') : Binding(r) => r \in Elements(toServer)

LEMMA AskedFewer ==
  ASSUME toServer \in Seq(Requests), Distinct(toServer),
         \/ toServer' = toServer
         \/ toServer' = <<>>
         \/ toServer # <<>> /\ toServer' = Tail(toServer)
         \/ \E r \in Requests : ~Binding(r) /\ toServer' = Append(toServer, r)
  PROVE  FewerAsked
<1>1. CASE toServer' = toServer
  BY <1>1 DEF FewerAsked
<1>2. CASE toServer' = <<>>
  BY <1>2 DEF FewerAsked, Distinct, Elements
<1>3. CASE toServer # <<>> /\ toServer' = Tail(toServer)
  BY <1>3, DistinctPopped, ElementsPopped DEF FewerAsked
<1>4. CASE \E r \in Requests : ~Binding(r) /\ toServer' = Append(toServer, r)
  <2>1. PICK r \in Requests : ~Binding(r) /\ toServer' = Append(toServer, r)
    BY <1>4
  <2>2. Distinct(Append(toServer, r))
    BY <2>1, DistinctAppended
  <2>3. Elements(Append(toServer, r)) = Elements(toServer) \cup {r}
    BY ElementsAppended
  <2> QED
    BY <2>1, <2>2, <2>3 DEF FewerAsked
<1> QED
  BY <1>1, <1>2, <1>3, <1>4

-----------------------------------------------------------------------------
(* A step that tells of nothing new.                                       *)

LEMMA TellsKept ==
  ASSUME MInv, MInv', TellsOK, Telling' \subseteq Telling,
         \A n \in Asked' : n \in Asked \/ n > lastReq, lastReq' >= lastReq,
         registry' \in {registry, NULL} \/ registry' > lastReq,
         \A o \in server' : o.serial # 0,
         \A m \in Elements(wire') : m.kind = "property" => m.of # 0
  PROVE  TellsOK'
<1>1. lastReq \in Nat /\ lastReq' \in Nat /\ registry' \in Nat
  BY DEF MInv, ConnectionOK, WrapperOK
<1>2. \A t \in Telling' : t.p \in Nat /\ t.p <= lastReq' /\ t.p \notin Asked'
  <2> SUFFICES ASSUME NEW t \in Telling'
               PROVE  t.p \in Nat /\ t.p <= lastReq' /\ t.p \notin Asked'
    OBVIOUS
  <2>1. t.p \in Nat /\ t.p <= lastReq /\ t.p \notin Asked
    BY DEF TellsOK
  <2>2. t.p \notin Asked'
    BY <1>1, <2>1
  <2> QED
    BY <1>1, <2>1, <2>2
<1>3. \A t, u \in Telling' : t.p = u.p => t.o = u.o
  BY DEF TellsOK
<1>4. registry' # NULL => \A t \in Telling' : t.p = registry' => t.o = 0
  <2> SUFFICES ASSUME registry' # NULL, NEW t \in Telling', t.p = registry'
               PROVE  t.o = 0
    OBVIOUS
  <2>1. t \in Telling /\ t.p <= lastReq
    BY DEF TellsOK
  <2>2. registry' = registry
    BY <1>1, <2>1
  <2> QED
    BY <2>1, <2>2 DEF TellsOK
<1> QED
  BY <1>2, <1>3, <1>4 DEF TellsOK


\* A step that begins nothing and tells the wrapper nothing.
Shrinks ==
  /\ lastReq' >= lastReq /\ FewerAsked
  /\ registry' \in {registry, NULL} /\ generation' >= generation /\ (running' => running)
  /\ metadata' = NULL \/ (metadata' = metadata /\ metadata_id' = metadata_id)
  /\ entries' \subseteq entries /\ subs' \subseteq subs /\ server' = server
  /\ \A m \in Elements(wire') : IsNews(m) => m \in Elements(wire)
  /\ \A e \in Elements(mainq') : IsNews(e) => e \in Elements(mainq)
  /\ connected' /\ registry' # NULL => connected /\ (Subscribed => Subscribed')
  /\ connected' /\ bound' => connected /\ bound /\ metadata' = metadata /\ (Coming => Coming')

LEMMA TellingFewer ==
  ASSUME subs' \subseteq subs, entries' \subseteq entries,
         \A m \in Elements(wire') : IsNews(m) => m \in Elements(wire),
         \A e \in Elements(mainq') : IsNews(e) => e \in Elements(mainq)
  PROVE  Telling' \subseteq Telling
<1>1. /\ {n \in Elements(wire') : n.kind = "property"}
           \subseteq {n \in Elements(wire) : n.kind = "property"}
      /\ {d \in Elements(mainq') : d.kind = "property"}
           \subseteq {d \in Elements(mainq) : d.kind = "property"}
  BY DEF IsNews
<1> QED
  BY <1>1 DEF Telling

LEMMA ShrinksKeeps ==
  ASSUME MInv, MInv', Session, History, Shrinks
  PROVE  History'
<1>1. /\ lastReq \in Nat /\ lastReq' \in Nat /\ registry \in Nat /\ metadata \in Nat
      /\ generation \in Nat /\ generation' \in Nat /\ mainq' \in Seq(Sources)
      /\ toServer' \in Seq(Requests) /\ wire' \in Seq(Messages)
  BY DEF MInv, ConnectionOK, WrapperOK
<1>2. /\ \A m \in Elements(wire') : IsNews(m) => m \in Elements(wire)
      /\ \A e \in Elements(mainq') : IsNews(e) => e \in Elements(mainq)
      /\ Telling' \subseteq Telling
  BY TellingFewer DEF Shrinks
<1>3. AskedOK'
  <2>1. \A r \in Elements(toServer') : Binding(r) => r \in Elements(toServer) /\ r.n \in Nat
    BY <1>1, RequestTyped DEF Shrinks, FewerAsked
  <2>2. Distinct(toServer')
    BY DEF Shrinks, FewerAsked
  <2>3. ASSUME NEW r \in Elements(toServer'), Binding(r)
        PROVE  /\ r.n # 0 /\ r.n <= lastReq'
               /\ r.kind = "object" => r.n # registry' /\ (r.n = metadata' => r.id = metadata_id')
               /\ r.kind = "registry" => r.n # metadata'
    <3>1. /\ r.n # 0 /\ r.n <= lastReq /\ r.n \in Nat
          /\ r.kind = "object" => r.n # registry /\ (r.n = metadata => r.id = metadata_id)
          /\ r.kind = "registry" => r.n # metadata
      BY <2>1, <2>3 DEF History, AskedOK
    <3>2. r.n <= lastReq'
      BY <1>1, <3>1 DEF Shrinks
    <3> QED
      BY <3>1, <3>2 DEF Shrinks, NULL
  <2> QED
    BY <2>2, <2>3 DEF AskedOK, Binding
<1>4. TellsOK'
  <2>1. \A n \in Asked' : n \in Asked
    BY DEF Asked, Shrinks, FewerAsked
  <2>2. \A m \in Elements(wire') : m.kind = "property" => m.of # 0
    BY <1>2 DEF IsNews, History, TellsOK
  <2>3. \A o \in server' : o.serial # 0
    BY DEF Shrinks, History, TellsOK
  <2>4. TellsOK /\ lastReq' >= lastReq /\ registry' \in {registry, NULL}
    BY DEF History, Shrinks
  <2> QED
    BY <1>2, <2>1, <2>2, <2>3, <2>4, TellsKept
<1>5. EventsOK'
  <2>1. ASSUME NEW e \in Elements(mainq'), IsNews(e)
        PROVE  /\ e.gen <= generation' /\ e.gen \in Nat /\ e.via \in Nat
               /\ e.gen = generation' => generation' = generation
               /\ e \in Elements(mainq)
    <3>1. e \in Elements(mainq) /\ e.gen \in Nat /\ e.via \in Nat
      BY <1>1, <1>2, <2>1, SourceTyped
    <3>2. e.gen <= generation
      BY <2>1, <3>1 DEF History, EventsOK
    <3> QED
      BY <1>1, <3>1, <3>2 DEF Shrinks
  <2>2. \A m \in Elements(wire') : IsNews(m) => m.to <= lastReq'
    <3> TAKE m \in Elements(wire')
    <3> HAVE IsNews(m)
    <3>1. m.to \in Nat /\ m \in Elements(wire)
      BY <1>1, <1>2, MessageTyped
    <3>2. m.to <= lastReq
      BY <3>1 DEF History, EventsOK
    <3> QED
      BY <1>1, <3>1, <3>2 DEF Shrinks
  <2>3. metadata' # NULL => metadata' > registry'
    BY <1>1 DEF Shrinks, History, EventsOK, NULL
  <2>4. running' => \A e \in Elements(mainq') :
          e.kind = "property" /\ e.gen = generation' => e.via > registry'
    <3> SUFFICES ASSUME running', NEW e \in Elements(mainq'), e.kind = "property",
                        e.gen = generation'
                 PROVE  e.via > registry'
      OBVIOUS
    <3>1. e \in Elements(mainq) /\ e.gen = generation /\ e.via \in Nat /\ running
      BY <2>1 DEF IsNews, Shrinks
    <3>2. e.via > registry
      BY <3>1 DEF History, EventsOK
    <3> QED
      BY <1>1, <3>1, <3>2 DEF Shrinks, NULL
  <2>5. running' => \A x \in entries' : x.via > registry'
    <3> SUFFICES ASSUME running', NEW x \in entries'
                 PROVE  x.via > registry'
      OBVIOUS
    <3>1. x \in entries /\ x.via > registry
      BY DEF Shrinks, History, EventsOK
    <3>2. x.via \in Nat
      BY <3>1 DEF MInv, WrapperOK, Entry
    <3> QED
      BY <1>1, <3>1, <3>2 DEF Shrinks, NULL
  <2> QED
    BY <2>1, <2>2, <2>3, <2>4, <2>5 DEF EventsOK
<1>6. HeardOK'
  <2> SUFFICES ASSUME connected', registry' # NULL, Heard'
               PROVE  Subscribed'
    BY DEF HeardOK
  <2>1. registry' = registry /\ registry # NULL /\ connected /\ (Subscribed => Subscribed')
    BY DEF Shrinks
  <2>2. Heard
    <3>1. CASE metadata' # NULL
      BY <3>1 DEF Heard, Shrinks
    <3>2. CASE \E m \in Elements(wire') : IsNews(m) /\ m.to = registry'
      BY <1>2, <2>1, <3>2 DEF Heard
    <3>3. CASE \E e \in Elements(mainq') : IsNews(e) /\ e.gen = generation'
      <4>1. PICK e \in Elements(mainq') : IsNews(e) /\ e.gen = generation'
        BY <3>3
      <4>2. e \in Elements(mainq) /\ e.gen \in Nat
        BY <1>1, <1>2, <4>1, SourceTyped
      <4>3. e.gen <= generation
        BY <4>1, <4>2 DEF History, EventsOK
      <4>4. e.gen = generation
        BY <1>1, <4>1, <4>2, <4>3 DEF Shrinks
      <4> QED
        BY <4>1, <4>2, <4>4 DEF Heard
    <3> QED
      BY <3>1, <3>2, <3>3 DEF Heard
  <2> QED
    BY <2>1, <2>2 DEF History, HeardOK
<1>7. FollowsOK'
  <2> SUFFICES ASSUME bound', connected', NEW t \in Telling', t.p = metadata'
               PROVE  Coming' \/ \E q \in server' : q.serial = t.o /\ q.id = metadata_id'
    BY DEF FollowsOK
  <2>1. connected /\ bound /\ metadata' = metadata /\ (Coming => Coming') /\ server' = server
    BY DEF Shrinks
  <2>2. metadata # NULL /\ metadata_id' = metadata_id
    BY <2>1 DEF Session, Shrinks
  <2>3. Coming \/ \E q \in server : q.serial = t.o /\ q.id = metadata_id
    BY <1>2, <2>1 DEF History, FollowsOK
  <2> QED
    BY <2>1, <2>2, <2>3
<1> QED
  BY <1>3, <1>4, <1>5, <1>6, <1>7 DEF History

-----------------------------------------------------------------------------
(* The steps that tell of nothing new.                                     *)

\* A queue from which at most a message outside X is taken, and to which at
\* most one is added that is no news.
LEMMA QueueFewer ==
  ASSUME NEW F, NEW s \in Seq(F), NEW X, NEW t,
         \/ t = s
         \/ s # <<>> /\ t = Tail(s) /\ Head(s) \notin X
         \/ \E x \in F : ~IsNews(x) /\ t = Append(s, x)
  PROVE  /\ \A x \in Elements(t) : IsNews(x) => x \in Elements(s)
         /\ \A x \in Elements(s) : x \in X => x \in Elements(t)
<1>1. CASE s # <<>> /\ t = Tail(s) /\ Head(s) \notin X
  BY <1>1, ElementsPopped
<1>2. CASE \E x \in F : ~IsNews(x) /\ t = Append(s, x)
  BY <1>2, ElementsAppended
<1> QED
  BY <1>1, <1>2

\* The wrapper stays as it is, and no removal of its object is missed.
LEMMA QuietShrinks ==
  ASSUME MInv, UNCHANGED <<connected, wrapperVars, server, subs>>,
         lastReq' >= lastReq, FewerAsked,
         \/ wire' = wire
         \/ wire # <<>> /\ wire' = Tail(wire) /\ (connected /\ bound => Head(wire) \notin Removals)
         \/ \E m \in Messages : ~IsNews(m) /\ wire' = Append(wire, m),
         \/ mainq' = mainq
         \/ mainq # <<>> /\ mainq' = Tail(mainq) /\ (bound => Head(mainq) \notin Removers)
         \/ \E e \in Sources : ~IsNews(e) /\ mainq' = Append(mainq, e)
  PROVE  Shrinks
<1>1. /\ wire \in Seq(Messages) /\ mainq \in Seq(Sources) /\ generation \in Nat
      /\ UNCHANGED <<running, bound, registry, metadata, metadata_id, generation, entries>>
  BY DEF MInv, ConnectionOK, WrapperOK, wrapperVars
<1>2. /\ \A m \in Elements(wire') : IsNews(m) => m \in Elements(wire)
      /\ \A e \in Elements(mainq') : IsNews(e) => e \in Elements(mainq)
  <2>1. \A m \in Elements(wire') : IsNews(m) => m \in Elements(wire)
    <3> DEFINE X == {}
    <3>1. \/ wire' = wire
          \/ wire # <<>> /\ wire' = Tail(wire) /\ Head(wire) \notin X
          \/ \E m \in Messages : ~IsNews(m) /\ wire' = Append(wire, m)
      OBVIOUS
    <3> HIDE DEF X
    <3> QED
      BY <1>1, <3>1, QueueFewer
  <2>2. \A e \in Elements(mainq') : IsNews(e) => e \in Elements(mainq)
    <3> DEFINE X == {}
    <3>1. \/ mainq' = mainq
          \/ mainq # <<>> /\ mainq' = Tail(mainq) /\ Head(mainq) \notin X
          \/ \E e \in Sources : ~IsNews(e) /\ mainq' = Append(mainq, e)
      OBVIOUS
    <3> HIDE DEF X
    <3> QED
      BY <1>1, <3>1, QueueFewer
  <2> QED
    BY <2>1, <2>2
<1>3. connected /\ bound /\ Coming => Coming'
  <2> SUFFICES ASSUME connected, bound, Coming
               PROVE  Coming'
    OBVIOUS
  <2>1. Removals' = Removals /\ Removers' = Removers
    BY <1>1 DEF Removals, Removers
  <2>2. \A m \in Elements(wire) : m \in Removals => m \in Elements(wire')
    BY <1>1, QueueFewer
  <2>3. \A e \in Elements(mainq) : e \in Removers => e \in Elements(mainq')
    BY <1>1, QueueFewer
  <2> QED
    BY <2>1, <2>2, <2>3 DEF Coming
<1>4. Subscribed => Subscribed'
  BY <1>1 DEF Subscribed
<1> QED
  BY <1>1, <1>2, <1>3, <1>4 DEF Shrinks

LEMMA CoreStepShrinks ==
  ASSUME MInv, History, CoreStep, UNCHANGED <<wrapperVars, serverVars>>
  PROVE  Shrinks
<1>1. /\ wire \in Seq(Messages) /\ mainq \in Seq(Sources) /\ lastReq \in Nat
      /\ toServer \in Seq(Requests) /\ Distinct(toServer)
  BY DEF MInv, ConnectionOK, History, AskedOK
<1>2. UNCHANGED <<connected, lastReq, toServer>>
  BY DEF CoreStep, SyncWake, SyncTimeout, DrainEnd, HandlerReturn, NotifyReturn, DispatchToken,
         LoopStep
<1>3. FewerAsked /\ lastReq' >= lastReq
  BY <1>1, <1>2, AskedFewer
<1>4. \/ wire' = wire
      \/ wire # <<>> /\ wire' = Tail(wire) /\ Head(wire) \notin Removals
  <2>1. CASE LoopStep
    BY <2>1 DEF LoopStep, Removals
  <2>2. CASE ~LoopStep
    BY <2>2 DEF CoreStep, SyncWake, SyncTimeout, DrainEnd, HandlerReturn, NotifyReturn,
           DispatchToken
  <2> QED
    BY <2>1, <2>2
<1>5. \/ mainq' = mainq
      \/ mainq # <<>> /\ mainq' = Tail(mainq) /\ Head(mainq) \notin Removers
      \/ \E e \in Sources : ~IsNews(e) /\ mainq' = Append(mainq, e)
  <2>1. CASE LoopStep
    <3>1. mainq' = mainq \/ mainq' = Append(mainq, Token(Head(wire).n))
      BY <2>1 DEF LoopStep, OnDone, OnError
    <3>2. wire # <<>> /\ Head(wire).kind \in {"done", "error"}
      BY <2>1 DEF LoopStep
    <3>3. Head(wire) \in Messages
      BY <1>1, <3>2
    <3>4. Head(wire).n \in Nat
      BY <3>2, <3>3 DEF Messages, CoreMessages
    <3>5. Token(Head(wire).n) \in Sources /\ ~IsNews(Token(Head(wire).n))
      BY <3>4 DEF Token, Sources, CoreSources, IsNews
    <3> QED
      BY <3>1, <3>5
  <2>2. CASE DispatchToken
    BY <2>2 DEF DispatchToken, Removers
  <2>3. CASE ~LoopStep /\ ~DispatchToken
    BY <2>3 DEF CoreStep, SyncWake, SyncTimeout, DrainEnd, HandlerReturn, NotifyReturn
  <2> QED
    BY <2>1, <2>2, <2>3
<1> QED
  BY <1>2, <1>3, <1>4, <1>5, QuietShrinks DEF serverVars

\* A request that creates no proxy, or that the server reads.
LEMMA AskingShrinks ==
  ASSUME MInv, History, UNCHANGED <<connected, wrapperVars, server, subs, mainq>>,
         lastReq' >= lastReq,
         \/ toServer' = toServer
         \/ toServer # <<>> /\ toServer' = Tail(toServer)
         \/ \E r \in Requests : ~Binding(r) /\ toServer' = Append(toServer, r),
         wire' = wire \/ \E m \in Messages : ~IsNews(m) /\ wire' = Append(wire, m)
  PROVE  Shrinks
<1>1. toServer \in Seq(Requests) /\ Distinct(toServer)
  BY DEF MInv, ConnectionOK, History, AskedOK
<1>2. FewerAsked
  BY <1>1, AskedFewer
<1> QED
  BY <1>2, QuietShrinks

LEMMA ServeSyncShrinks ==
  ASSUME MInv, History, ServeSync \/ EnterLoop, UNCHANGED <<wrapperVars, serverVars>>
  PROVE  Shrinks
<1>1. lastReq \in Nat /\ toServer \in Seq(Requests) /\ UNCHANGED <<connected, lastReq, mainq>>
  BY DEF MInv, ConnectionOK, ServeSync, EnterLoop
<1>2. CASE ServeSync
  <2> DEFINE m == [kind |-> "done", n |-> Head(toServer).n]
  <2>1. toServer # <<>> /\ toServer' = Tail(toServer) /\ wire' = Append(wire, m)
    BY <1>2 DEF ServeSync, Serves
  <2>2. m \in Messages /\ ~IsNews(m)
    <3>1. Head(toServer) \in Requests
      BY <1>1, <2>1
    <3>2. Head(toServer).n \in Nat
      BY <3>1 DEF Requests
    <3> QED
      BY <3>2 DEF Messages, CoreMessages, IsNews
  <2> HIDE DEF m
  <2> QED
    BY <1>1, <2>1, <2>2, AskingShrinks DEF serverVars
<1>3. CASE EnterLoop
  BY <1>1, <1>3, AskingShrinks DEF EnterLoop, serverVars
<1> QED
  BY <1>2, <1>3

\* A connection, before which the last one has been forgotten.
LEMMA ConnectShrinks ==
  ASSUME "reconnect" \notin Reentry, MInv, Session, History, MayConnect(Owed), Connected,
         UNCHANGED <<lastReq, mainq, wrapperVars, serverVars>>
  PROVE  Shrinks
<1>1. /\ lastReq \in Nat /\ generation \in Nat /\ ~connected
      /\ lastReq' = lastReq /\ toServer' = <<>> /\ wire' = <<>>
      /\ toServer \in Seq(Requests) /\ Distinct(toServer)
      /\ UNCHANGED <<running, bound, registry, metadata, metadata_id, generation, entries>>
      /\ UNCHANGED <<server, subs>>
  BY DEF MInv, ConnectionOK, WrapperOK, Connected, wrapperVars, serverVars, History, AskedOK
<1>2. registry = NULL /\ ~bound
  <2>1. ~Owed
    BY EmittingHeld DEF MayConnect, MInv, Fits, Owner
  <2> QED
    BY <1>1, <2>1 DEF Owed, Session
<1>3. FewerAsked /\ \A m \in Elements(wire') : FALSE
  BY <1>1, AskedFewer DEF Elements
<1> QED
  BY <1>1, <1>2, <1>3 DEF Shrinks

\* The request of a roundtrip creates no proxy.
LEMMA SendSyncShrinks ==
  ASSUME MInv, History, NEW ctx, NEW timed, NEW mark, NEW below,
         SendSync(ctx, timed, mark, below) \/ SendFails(below),
         UNCHANGED <<connected, wire, mainq, wrapperVars, serverVars>>
  PROVE  Shrinks
<1>1. lastReq \in Nat /\ toServer \in Seq(Requests)
  BY DEF MInv, ConnectionOK
<1>2. CASE SendFails(below)
  BY <1>1, <1>2, AskingShrinks DEF SendFails, serverVars
<1>3. CASE SendSync(ctx, timed, mark, below)
  <2>1. lastReq' = lastReq + 1 /\ toServer' = Append(toServer, SyncRequest)
    BY <1>3 DEF SendSync
  <2>2. SyncRequest \in Requests /\ ~Binding(SyncRequest)
    BY <1>1 DEF SyncRequest, Requests, Binding
  <2> QED
    BY <1>1, <2>1, <2>2, AskingShrinks DEF serverVars
<1> QED
  BY <1>2, <1>3

LEMMA RoundtripShrinks ==
  ASSUME "reconnect" \notin Reentry, MInv, Session, History, NEW mark, NEW below,
         Roundtrip(mark, Owed, below), UNCHANGED <<mainq, wrapperVars, serverVars>>
  PROVE  Shrinks
<1>1. CASE /\ SendSync(TRUE, TRUE, mark, below) \/ SendFails(below)
           /\ UNCHANGED <<connected, connects, link, wire>>
  BY <1>1, SendSyncShrinks
<1>2. CASE ConnectFor(Frame("sync", 0, TRUE, TRUE, mark), Owed, below)
  BY <1>2, ConnectShrinks DEF ConnectFor
<1> QED
  BY <1>1, <1>2 DEF Roundtrip

\* What the emission of notify::connected leads to.
LEMMA NotifyShrinks ==
  ASSUME "reconnect" \notin Reentry, MInv, Session, History,
         \/ SyncResume(Head(stack).mark)
         \/ Restart
         \/ MayConnect(Owed) /\ Connect,
         UNCHANGED <<wrapperVars, serverVars>>
  PROVE  Shrinks
<1>1. CASE SyncResume(Head(stack).mark)
  BY <1>1, SendSyncShrinks DEF SyncResume
<1>2. CASE Restart
  <2>1. UNCHANGED <<connected, toServer, wire, lastReq, mainq>> /\ lastReq \in Nat
    BY <1>2 DEF Restart, RestartFor, MInv, ConnectionOK
  <2> QED
    BY <2>1, AskingShrinks DEF serverVars
<1>3. CASE MayConnect(Owed) /\ Connect
  BY <1>3, ConnectShrinks DEF Connect
<1> QED
  BY <1>1, <1>2, <1>3

\* A start that fails.
LEMMA OpenFailsShrinks ==
  ASSUME MInv, History, ~running, NEW below, OpenFails(below),
         UNCHANGED <<connected, wire, mainq, serverVars>>
  PROVE  Shrinks
<1>1. registry' = NULL /\ registry = NULL /\ UNCHANGED <<lastReq, toServer, wrapperVars>>
  BY DEF OpenFails, MInv, Owner, wrapperVars
<1>2. lastReq \in Nat
  BY DEF MInv, ConnectionOK
<1> QED
  BY <1>1, <1>2, AskingShrinks DEF serverVars

\* What destroys a proxy leaves the server serving the registry, unless that
\* is the one.
LEMMA DestroyServes ==
  ASSUME MInv, NEW p, Destroy(p)
  PROVE  /\ subs' \subseteq subs
         /\ p # registry /\ Subscribed => [p |-> registry, o |-> 0] \in subs'
BY DEF Destroy, Subscribed

LEMMA DestroyBoundShrinks ==
  ASSUME MInv, History, NEW below, DestroyBoundProxy(below),
         mainq' = mainq \/ (mainq # <<>> /\ mainq' = Tail(mainq)),
         UNCHANGED <<connected, toServer, wire, lastReq, running, registry, generation, server>>
  PROVE  Shrinks
<1>1. /\ lastReq \in Nat /\ generation \in Nat /\ registry \in Nat
      /\ toServer \in Seq(Requests) /\ Distinct(toServer) /\ mainq \in Seq(Sources)
      /\ metadata' = NULL /\ bound' = FALSE /\ entries' \subseteq entries /\ Destroy(metadata)
  BY DEF MInv, ConnectionOK, WrapperOK, History, AskedOK, DestroyBoundProxy
<1>2. FewerAsked
  BY <1>1, AskedFewer
<1>3. Elements(mainq') \subseteq Elements(mainq)
  BY <1>1, ElementsPopped
<1>4. /\ subs' \subseteq subs
      /\ registry # NULL /\ Subscribed => Subscribed'
  <2>1. registry # NULL => metadata # registry
    BY DEF MInv, Owner
  <2> QED
    BY <1>1, <2>1, DestroyServes DEF Subscribed
<1> QED
  BY <1>1, <1>2, <1>3, <1>4 DEF Shrinks

LEMMA HaltShrinks ==
  ASSUME MInv, Session, History, Halt \/ Unbound
  PROVE  Shrinks
<1>1. /\ lastReq \in Nat /\ generation \in Nat
      /\ toServer \in Seq(Requests) /\ Distinct(toServer)
      /\ UNCHANGED <<connected, toServer, wire, lastReq, mainq, bound, metadata, metadata_id,
                     server>>
      /\ NotRunning(Tail(stack))
      /\ stack # <<>> /\ Head(stack).op \in {"halt", "unbound"} /\ Sits(stack)
      /\ generation' \in {generation, generation + 1}
  BY DEF MInv, ConnectionOK, WrapperOK, History, AskedOK, Halt, Unbound, TopIs, Session, serverVars
<1>2. FewerAsked
  BY <1>1, AskedFewer
<1>3. running' = FALSE /\ entries' \subseteq entries
  BY <1>1 DEF NotRunning
<1>4. Holds(stack, Head(stack).op)
  BY <1>1, PopSits
<1>5. ~bound
  BY <1>1, <1>4 DEF Session, Ending
<1>6. subs' \subseteq subs /\ registry' = NULL
  <2>1. CASE Halt
    BY <2>1, DestroyServes DEF Halt
  <2>2. CASE Unbound
    <3>1. TopIs("unbound") /\ UNCHANGED <<subs, registry>>
      BY <2>2 DEF Unbound, serverVars
    <3> QED
      BY <1>4, <3>1 DEF TopIs, MInv, Owner
  <2> QED
    BY <2>1, <2>2
<1> QED
  BY <1>1, <1>2, <1>3, <1>5, <1>6 DEF Shrinks

LEMMA ResetShrinks ==
  ASSUME MInv, History, Reset
  PROVE  Shrinks
<1>1. /\ lastReq \in Nat /\ generation \in Nat
      /\ toServer \in Seq(Requests) /\ Distinct(toServer)
      /\ registry' = NULL /\ metadata' = NULL /\ bound' = FALSE /\ generation' = generation + 1
      /\ UNCHANGED <<toServer, wire, lastReq, mainq, running, entries, server, subs>>
  BY DEF MInv, ConnectionOK, WrapperOK, History, AskedOK, Reset, serverVars
<1>2. FewerAsked
  BY <1>1, AskedFewer
<1> QED
  BY <1>1, <1>2 DEF Shrinks

LEMMA DisconnectShrinks ==
  ASSUME MInv, History, DisconnectCore
  PROVE  Shrinks
<1>1. /\ lastReq \in Nat /\ generation \in Nat
      /\ toServer \in Seq(Requests) /\ Distinct(toServer)
      /\ connected' = FALSE /\ toServer' = <<>> /\ wire' = <<>> /\ subs' = {}
      /\ UNCHANGED <<lastReq, mainq, running, bound, registry, metadata, metadata_id,
                     generation, entries, server>>
  BY DEF MInv, ConnectionOK, WrapperOK, History, AskedOK, DisconnectCore,
         DisconnectFor, Disconnected
<1>2. FewerAsked /\ \A m \in Elements(wire') : FALSE
  BY <1>1, AskedFewer DEF Elements
<1> QED
  BY <1>1, <1>2 DEF Shrinks

\* The copy is emptied, and at most the server asked to empty the original.
LEMMA EmptiesShrinks ==
  ASSUME MInv, History, entries' \subseteq entries,
         UNCHANGED <<connected, wire, mainq, running, bound, registry, metadata, metadata_id,
                     generation, server, subs>>,
         \/ UNCHANGED <<lastReq, toServer>>
         \/ \E r \in Requests : ~Binding(r) /\ Sends(<<r>>)
  PROVE  Shrinks
<1>1. lastReq \in Nat /\ generation \in Nat /\ toServer \in Seq(Requests) /\ Distinct(toServer)
  BY DEF MInv, ConnectionOK, WrapperOK, History, AskedOK
<1>2. FewerAsked /\ lastReq' >= lastReq
  <2>1. CASE UNCHANGED <<lastReq, toServer>>
    BY <1>1, <2>1, AskedFewer
  <2>2. CASE \E r \in Requests : ~Binding(r) /\ Sends(<<r>>)
    <3>1. PICK r \in Requests : ~Binding(r) /\ Sends(<<r>>)
      BY <2>2
    <3>2. toServer' = Append(toServer, r)
      BY <1>1, <3>1 DEF Sends
    <3>3. lastReq' = lastReq + 1
      BY <1>1, <3>1, SendsOne
    <3> QED
      BY <1>1, <3>1, <3>2, <3>3, AskedFewer
  <2> QED
    BY <2>1, <2>2
<1>3. Subscribed' = Subscribed /\ Coming' = Coming
  BY DEF Subscribed, Coming, Removals, Removers
<1> QED
  BY <1>1, <1>2, <1>3 DEF Shrinks

LEMMA WriteShrinks ==
  ASSUME MInv, History, (\E c \in Change : SetValue(c)) \/ ClearAll \/ ClearEntries
  PROVE  Shrinks
<1>1. \A kind \in {"set", "wipe"}, c \in Change :
        LET r == [kind |-> kind, n |-> metadata, id |-> 0, c |-> c]
        IN  r \in Requests /\ ~Binding(r)
  <2> SUFFICES ASSUME NEW kind \in {"set", "wipe"}, NEW c \in Change
               PROVE  LET r == [kind |-> kind, n |-> metadata, id |-> 0, c |-> c]
                      IN  r \in Requests /\ ~Binding(r)
    OBVIOUS
  <2>1. metadata \in Nat /\ 0 \in Nat
    BY DEF MInv, WrapperOK
  <2> QED
    BY <2>1, RequestTypes DEF Binding
<1>2. CASE \E c \in Change : SetValue(c)
  <2>1. PICK c \in Change : SetValue(c)
    BY <1>2
  <2>2. /\ Sends(<<[kind |-> "set", n |-> metadata, id |-> 0, c |-> c]>>)
        /\ UNCHANGED <<connected, wire, mainq, running, bound, registry, metadata, metadata_id,
                       generation, entries, server, subs>>
    BY <2>1 DEF SetValue, wrapperVars, serverVars
  <2> QED
    BY <1>1, <2>2, EmptiesShrinks
<1>3. CASE ClearAll
  <2>1. /\ Sends(<<[kind |-> "wipe", n |-> metadata, id |-> 0, c |-> NoChange]>>)
        /\ NoChange \in Change /\ entries' = {}
        /\ UNCHANGED <<connected, wire, mainq, running, bound, registry, metadata, metadata_id,
                       generation, server, subs>>
    BY <1>3, RequestTypes DEF ClearAll, serverVars
  <2> QED
    BY <1>1, <2>1, EmptiesShrinks
<1>4. CASE ClearEntries
  BY <1>4, EmptiesShrinks DEF ClearEntries, serverVars
<1> QED
  BY <1>2, <1>3, <1>4

\* An event of another session, or of nothing that matters to this one.
LEMMA DropShrinks ==
  ASSUME MInv, History, Drop, mainq # <<>>, mainq' = Tail(mainq),
         bound => Head(mainq) \notin Removers, UNCHANGED <<connected, wire, server>>
  PROVE  Shrinks
<1>1. lastReq \in Nat /\ toServer \in Seq(Requests) /\ Distinct(toServer)
      /\ UNCHANGED <<lastReq, toServer, wrapperVars, subs>>
  BY DEF MInv, ConnectionOK, History, AskedOK, Drop
<1>2. FewerAsked
  BY <1>1, AskedFewer
<1> QED
  BY <1>1, <1>2, QuietShrinks

-----------------------------------------------------------------------------
(* The steps of a session.                                                 *)

\* A session begins: nothing is around of it yet.
LEMMA OpenHistory ==
  ASSUME MInv, MInv', Session, History, ~running, ~Holds(stack, "clear"), NEW below,
         Open(below), UNCHANGED <<connected, wire, mainq, serverVars>>
  PROVE  History'
<1> DEFINE r == [kind |-> "registry", n |-> lastReq + 1, id |-> 0, c |-> NoChange]
<1>1. /\ lastReq \in Nat /\ generation \in Nat /\ toServer \in Seq(Requests)
      /\ wire \in Seq(Messages) /\ mainq \in Seq(Sources) /\ Sends(<<r>>)
      /\ registry' = lastReq + 1 /\ generation' = generation + 1 /\ running' = TRUE
      /\ UNCHANGED <<bound, metadata, metadata_id, entries, server, subs, wire, mainq>>
  BY DEF Open, MInv, ConnectionOK, WrapperOK, serverVars
<1>2. ~bound /\ metadata = NULL /\ entries = {}
  BY NoSession
<1>3. r \in Requests /\ r.kind = "registry" /\ r.n = lastReq + 1
  <2>1. lastReq + 1 \in Nat
    BY <1>1
  <2> QED
    BY <2>1, RequestTypes
<1> HIDE DEF r
<1>4. toServer' = Append(toServer, r) /\ lastReq' = lastReq + 1
  BY <1>1, <1>3, SendsOne DEF Sends
<1>5. Elements(toServer') = Elements(toServer) \cup {r}
  BY <1>1, <1>3, <1>4, ElementsAppended
<1>6. \A q \in Elements(toServer) : q.n \in Nat /\ (Binding(q) => q.n # 0 /\ q.n <= lastReq)
  BY <1>1, RequestTyped DEF History, AskedOK
<1>7. AskedOK'
  <2>1. Distinct(toServer')
    <3>1. Binding(r) => \A q \in Elements(toServer) : Binding(q) => q.n # r.n
      BY <1>1, <1>3, <1>6
    <3> QED
      BY <1>1, <1>3, <1>4, <3>1, DistinctAppended DEF History, AskedOK
  <2>2. ASSUME NEW q \in Elements(toServer'), Binding(q)
        PROVE  /\ q.n # 0 /\ q.n <= lastReq'
               /\ q.kind = "object" => q.n # registry' /\ q.n # metadata'
               /\ q.kind = "registry" => q.n # metadata'
    <3>1. CASE q \in Elements(toServer)
      BY <1>1, <1>2, <1>4, <1>6, <2>2, <3>1 DEF NULL
    <3>2. CASE q = r
      BY <1>1, <1>2, <1>3, <1>4, <3>2 DEF NULL
    <3> QED
      BY <1>5, <3>1, <3>2
  <2> QED
    BY <2>1, <2>2 DEF AskedOK, Binding
<1>8. TellsOK'
  <2>1. Telling' \subseteq Telling
    BY <1>1, TellingFewer
  <2>2. \A n \in Asked' : n \in Asked \/ n > lastReq
    <3>1. lastReq + 1 > lastReq
      BY <1>1
    <3> QED
      BY <1>3, <1>5, <3>1 DEF Asked
  <2>3. lastReq' >= lastReq /\ registry' > lastReq
    BY <1>1, <1>4
  <2>4. /\ TellsOK /\ \A o \in server' : o.serial # 0
        /\ \A m \in Elements(wire') : m.kind = "property" => m.of # 0
    BY <1>1 DEF History, TellsOK
  <2> QED
    BY <2>1, <2>2, <2>3, <2>4, TellsKept
<1>9. \A e \in Elements(mainq) : IsNews(e) => e.gen \in Nat /\ e.gen <= generation
  BY <1>1, SourceTyped DEF History, EventsOK
<1>10. \A m \in Elements(wire) : IsNews(m) => m.to \in Nat /\ m.to <= lastReq
  BY <1>1, MessageTyped DEF History, EventsOK
<1>11. EventsOK'
  <2>1. \A e \in Elements(mainq') : IsNews(e) => e.gen <= generation' /\ e.gen # generation'
    BY <1>1, <1>9
  <2>2. \A m \in Elements(wire') : IsNews(m) => m.to <= lastReq'
    BY <1>1, <1>4, <1>10
  <2> QED
    BY <1>1, <1>2, <2>1, <2>2 DEF EventsOK, IsNews
<1>12. ~Heard'
  <2>1. \A e \in Elements(mainq') : IsNews(e) => e.gen # generation'
    BY <1>1, <1>9
  <2>2. \A m \in Elements(wire') : IsNews(m) => m.to # registry'
    BY <1>1, <1>10
  <2> QED
    BY <1>1, <1>2, <2>1, <2>2 DEF Heard
<1>13. ~bound'
  BY <1>1, <1>2
<1> QED
  BY <1>7, <1>8, <1>11, <1>12, <1>13 DEF History, HeardOK, FollowsOK

\* The object is bound that was announced in this session.
LEMMA BindHistory ==
  ASSUME MInv, MInv', Session, History, ~Drop, NEW id, Bind(id), running, mainq # <<>>,
         IsNews(Head(mainq)), Head(mainq).gen = generation, Head(mainq).id = id,
         mainq' = Tail(mainq), UNCHANGED <<connected, wire, server>>
  PROVE  History'
<1> DEFINE r == [kind |-> "object", n |-> lastReq + 1, id |-> id, c |-> NoChange]
<1>1. /\ lastReq \in Nat /\ registry \in Nat /\ toServer \in Seq(Requests)
      /\ wire \in Seq(Messages) /\ mainq \in Seq(Sources) /\ Sends(<<r>>)
      /\ connected /\ registry # NULL /\ metadata = NULL
      /\ metadata' = lastReq + 1 /\ metadata_id' = id
      /\ UNCHANGED <<running, registry, generation, entries, subs, wire, server>>
  BY DEF Bind, MInv, ConnectionOK, WrapperOK
<1>2. Head(mainq) \in Elements(mainq) /\ Elements(mainq') \subseteq Elements(mainq)
  BY <1>1, ElementsPopped
<1>3. r \in Requests /\ r.kind = "object" /\ r.n = lastReq + 1 /\ r.id = id
  <2>1. id \in Ids
    BY <1>1, <1>2, SourceTyped
  <2>2. lastReq + 1 \in Nat /\ id \in Nat
    BY <1>1, <2>1, MetadataAssumption
  <2> QED
    BY <2>2, RequestTypes
<1> HIDE DEF r
<1>4. toServer' = Append(toServer, r) /\ lastReq' = lastReq + 1
  BY <1>1, <1>3, SendsOne DEF Sends
<1>5. Elements(toServer') = Elements(toServer) \cup {r}
  BY <1>1, <1>3, <1>4, ElementsAppended
<1>6. \A q \in Elements(toServer) : q.n \in Nat /\ (Binding(q) => q.n # 0 /\ q.n <= lastReq)
  BY <1>1, RequestTyped DEF History, AskedOK
<1>7. registry <= lastReq
  BY DEF MInv, Owner
<1>8. AskedOK'
  <2>1. Distinct(toServer')
    <3>1. Binding(r) => \A q \in Elements(toServer) : Binding(q) => q.n # r.n
      BY <1>1, <1>3, <1>6
    <3> QED
      BY <1>1, <1>3, <1>4, <3>1, DistinctAppended DEF History, AskedOK
  <2>2. ASSUME NEW q \in Elements(toServer'), Binding(q)
        PROVE  /\ q.n # 0 /\ q.n <= lastReq'
               /\ q.kind = "object" =>
                    q.n # registry' /\ (q.n = metadata' => q.id = metadata_id')
               /\ q.kind = "registry" => q.n # metadata'
    <3>1. CASE q \in Elements(toServer)
      <4>1. q.n \in Nat /\ q.n # 0 /\ q.n <= lastReq
        BY <1>6, <2>2, <3>1
      <4>2. q.kind = "object" => q.n # registry
        BY <3>1 DEF History, AskedOK
      <4> QED
        BY <1>1, <1>4, <4>1, <4>2
    <3>2. CASE q = r
      BY <1>1, <1>3, <1>4, <1>7, <3>2
    <3> QED
      BY <1>5, <3>1, <3>2
  <2> QED
    BY <2>1, <2>2 DEF AskedOK, Binding
<1>9. Telling' \subseteq Telling
  BY <1>1, <1>2, TellingFewer
<1>10. TellsOK'
  <2>1. \A n \in Asked' : n \in Asked \/ n > lastReq
    <3>1. lastReq + 1 > lastReq
      BY <1>1
    <3> QED
      BY <1>3, <1>5, <3>1 DEF Asked
  <2>2. lastReq' >= lastReq /\ registry' = registry
    BY <1>1, <1>4
  <2>3. /\ TellsOK /\ \A o \in server' : o.serial # 0
        /\ \A m \in Elements(wire') : m.kind = "property" => m.of # 0
    BY <1>1 DEF History, TellsOK
  <2> QED
    BY <1>9, <2>1, <2>2, <2>3, TellsKept
<1>11. EventsOK'
  <2>1. \A m \in Elements(wire') : IsNews(m) => m.to <= lastReq'
    <3>1. \A m \in Elements(wire) : IsNews(m) => m.to \in Nat /\ m.to <= lastReq
      BY <1>1, MessageTyped DEF History, EventsOK
    <3> QED
      BY <1>1, <1>4, <3>1
  <2>2. metadata' > registry'
    BY <1>1, <1>7
  <2> QED
    BY <1>1, <1>2, <2>1, <2>2 DEF History, EventsOK
<1>12. Subscribed' /\ HeardOK'
  <2>1. Heard
    BY <1>2 DEF Heard
  <2>2. Subscribed
    BY <1>1, <2>1 DEF History, HeardOK
  <2> QED
    BY <1>1, <2>2 DEF Subscribed, HeardOK
<1>13. \A t \in Telling' : t.p # metadata'
  <2>1. \A t \in Telling : t.p \in Nat /\ t.p <= lastReq
    BY DEF History, TellsOK
  <2> QED
    BY <1>1, <1>9, <2>1
<1> QED
  BY <1>8, <1>10, <1>11, <1>12, <1>13 DEF History, FollowsOK

\* A property that was told in this session is cached.
LEMMA CachedHistory ==
  ASSUME MInv, MInv', Session, History, mainq # <<>>, mainq' = Tail(mainq),
         Head(mainq).kind = "property", Head(mainq).gen = generation, running,
         entries' = Cached(Head(mainq)),
         UNCHANGED <<connected, wire, lastReq, toServer, running, bound, registry, metadata,
                     metadata_id, generation, server, subs>>
  PROVE  History'
<1> DEFINE e == Head(mainq)
<1>1. mainq \in Seq(Sources) /\ e \in Elements(mainq) /\ Elements(mainq) = {e} \cup Elements(mainq')
  BY ElementsPopped DEF MInv, ConnectionOK
<1>2. \A x \in entries' : x \in entries \/ (x.via = e.via /\ x.of = e.of)
  BY DEF Cached, Without
<1> HIDE DEF e
<1>3. e.kind = "property" /\ e.gen = generation
  BY DEF e
<1>4. Telling' \subseteq Telling
  <2> SUFFICES ASSUME NEW t \in Telling'
               PROVE  t \in Telling
    OBVIOUS
  <2>1. CASE t \in subs'
    BY <2>1 DEF Telling
  <2>2. CASE \E m \in Elements(wire') : m.kind = "property" /\ t = [p |-> m.to, o |-> m.of]
    BY <2>2 DEF Telling
  <2>3. CASE \E d \in Elements(mainq') : d.kind = "property" /\ t = [p |-> d.via, o |-> d.of]
    <3>1. PICK d \in Elements(mainq') : d.kind = "property" /\ t = [p |-> d.via, o |-> d.of]
      BY <2>3
    <3>2. d \in Elements(mainq)
      BY <1>1
    <3> QED
      BY <3>1, <3>2 DEF Telling
  <2>4. CASE \E x \in entries' : t = [p |-> x.via, o |-> x.of]
    <3>1. PICK x \in entries' : t = [p |-> x.via, o |-> x.of]
      BY <2>4
    <3>2. CASE x \in entries
      BY <3>1, <3>2 DEF Telling
    <3>3. CASE x.via = e.via /\ x.of = e.of
      <4>1. t = [p |-> e.via, o |-> e.of]
        BY <3>1, <3>3
      <4> QED
        BY <1>1, <1>3, <4>1 DEF Telling
    <3> QED
      BY <1>2, <3>2, <3>3
  <2> QED
    BY <2>1, <2>2, <2>3, <2>4 DEF Telling
<1>5. AskedOK'
  BY DEF History, AskedOK
<1>6. TellsOK'
  <2>1. lastReq \in Nat /\ TellsOK
    BY DEF MInv, ConnectionOK, History
  <2>2. \A n \in Asked' : n \in Asked
    BY DEF Asked
  <2>3. /\ \A o \in server' : o.serial # 0
        /\ \A m \in Elements(wire') : m.kind = "property" => m.of # 0
    BY <2>1 DEF TellsOK
  <2> QED
    BY <1>4, <2>1, <2>2, <2>3, TellsKept
<1>7. EventsOK'
  <2>1. e.via > registry
    BY <1>1, <1>3 DEF History, EventsOK
  <2> QED
    BY <1>1, <1>2, <2>1 DEF History, EventsOK
<1>8. HeardOK'
  <2>1. Heard' => Heard
    BY <1>1 DEF Heard
  <2> QED
    BY <2>1 DEF History, HeardOK, Subscribed
<1>9. FollowsOK'
  <2>1. Coming => Coming'
    <3>1. e \notin Removers
      BY <1>3 DEF Removers
    <3>2. Removals' = Removals /\ Removers' = Removers
      BY DEF Removals, Removers
    <3> QED
      BY <1>1, <3>1, <3>2 DEF Coming
  <2> QED
    BY <1>4, <2>1 DEF History, FollowsOK
<1> QED
  BY <1>5, <1>6, <1>7, <1>8, <1>9 DEF History

\* A message is queued by the listener of a proxy that is alive.
LEMMA HeardHistory ==
  ASSUME MInv, MInv', Session, History, connected, wire # <<>>, wire' = Tail(wire),
         IsNews(Head(wire)), Head(wire).to \in alive, mainq' = Append(mainq, Event(Head(wire))),
         UNCHANGED <<connected, toServer, lastReq, wrapperVars, serverVars>>
  PROVE  History'
<1> DEFINE m == Head(wire)
           e == Event(m)
<1>1. /\ wire \in Seq(Messages) /\ mainq \in Seq(Sources) /\ m \in Messages
      /\ m \in Elements(wire) /\ Elements(wire) = {m} \cup Elements(wire')
      /\ UNCHANGED <<lastReq, running, bound, registry, metadata, metadata_id, generation,
                     entries, server, subs>>
      /\ lastReq \in Nat /\ generation \in Nat /\ registry \in Nat /\ metadata \in Nat
  BY ElementsPopped DEF MInv, ConnectionOK, WrapperOK, wrapperVars, serverVars
<1>2. /\ e \in Sources /\ e.kind = m.kind /\ e.gen = generation /\ e.id = m.id
      /\ e.of = m.of /\ e.via = m.to
  BY <1>1, EventTypes DEF IsNews, Event
<1>3. m.to \in {registry, metadata} \ {NULL} /\ IsNews(m) /\ IsNews(e)
  BY <1>2 DEF MInv, Owner, IsNews
<1> HIDE DEF m, e
<1>4. Elements(mainq') = Elements(mainq) \cup {e}
  <2>1. mainq' = Append(mainq, e)
    BY DEF m, e
  <2> QED
    BY <1>1, <1>2, <2>1, ElementsAppended
<1>5. Telling' \subseteq Telling
  <2> SUFFICES ASSUME NEW t \in Telling'
               PROVE  t \in Telling
    OBVIOUS
  <2>1. CASE t \in subs'
    BY <1>1, <2>1 DEF Telling
  <2>2. CASE \E n \in Elements(wire') : n.kind = "property" /\ t = [p |-> n.to, o |-> n.of]
    <3>1. PICK n \in Elements(wire') : n.kind = "property" /\ t = [p |-> n.to, o |-> n.of]
      BY <2>2
    <3>2. n \in Elements(wire)
      BY <1>1
    <3> QED
      BY <3>1, <3>2 DEF Telling
  <2>3. CASE \E d \in Elements(mainq') : d.kind = "property" /\ t = [p |-> d.via, o |-> d.of]
    <3>1. PICK d \in Elements(mainq') : d.kind = "property" /\ t = [p |-> d.via, o |-> d.of]
      BY <2>3
    <3>2. CASE d \in Elements(mainq)
      BY <3>1, <3>2 DEF Telling
    <3>3. CASE d = e
      <4>1. m.kind = "property" /\ t = [p |-> m.to, o |-> m.of]
        BY <1>2, <3>1, <3>3
      <4> QED
        BY <1>1, <4>1 DEF Telling
    <3> QED
      BY <1>4, <3>2, <3>3
  <2>4. CASE \E x \in entries' : t = [p |-> x.via, o |-> x.of]
    BY <1>1, <2>4 DEF Telling
  <2> QED
    BY <2>1, <2>2, <2>3, <2>4 DEF Telling
<1>6. AskedOK'
  BY <1>1 DEF History, AskedOK
<1>7. TellsOK'
  <2>1. \A n \in Asked' : n \in Asked
    BY DEF Asked
  <2>2. /\ TellsOK /\ \A o \in server' : o.serial # 0
        /\ \A n \in Elements(wire') : n.kind = "property" => n.of # 0
    BY <1>1 DEF History, TellsOK
  <2> QED
    BY <1>1, <1>5, <2>1, <2>2, TellsKept
<1>8. m.kind = "property" => m.to > registry
  <2> SUFFICES ASSUME m.kind = "property"
               PROVE  m.to > registry
    OBVIOUS
  <2>1. CASE m.to = registry
    <3> DEFINE t == [p |-> m.to, o |-> m.of]
    <3>1. t \in Telling
      BY <1>1 DEF Telling
    <3>2. m.of = 0
      BY <1>3, <2>1, <3>1 DEF History, TellsOK
    <3> QED
      BY <1>1, <3>2 DEF History, TellsOK
  <2>2. CASE m.to = metadata
    BY <1>3, <2>2 DEF History, EventsOK
  <2> QED
    BY <1>3, <2>1, <2>2
<1>9. EventsOK'
  BY <1>1, <1>2, <1>4, <1>8 DEF History, EventsOK
<1>10. HeardOK'
  <2>1. Heard' => Heard
    BY <1>1, <1>3, <1>4 DEF Heard
  <2> QED
    BY <1>1, <2>1 DEF History, HeardOK, Subscribed
<1>11. FollowsOK'
  <2>1. Coming => Coming'
    <3>1. Removals' = Removals /\ Removers' = Removers
      BY <1>1 DEF Removals, Removers
    <3>2. m \in Removals => e \in Removers
      BY <1>2 DEF Removals, Removers
    <3> QED
      BY <1>1, <1>4, <3>1, <3>2 DEF Coming
  <2> QED
    BY <1>1, <1>5, <2>1 DEF History, FollowsOK
<1> QED
  BY <1>6, <1>7, <1>9, <1>10, <1>11 DEF History

-----------------------------------------------------------------------------
(* What the server tells.                                                  *)

\* Messages sent one for each element of a set, in some order.
LEMMA OrderedElements ==
  ASSUME NEW A, IsFiniteSet(A), NEW s \in Orders(A), NEW w \in Seq(Messages), NEW g,
         g = [i \in DOMAIN s |-> g[i]], \A i \in DOMAIN s : s[i] \in A => g[i] \in Messages
  PROVE  /\ Elements(w \o g) = Elements(w) \cup Elements(g)
         /\ Elements(g) \subseteq Messages
         /\ Elements(g) = {g[i] : i \in DOMAIN s}
<1>1. g \in Seq(Messages)
  BY OrderTypes
<1>2. Elements(w \o g) = Elements(w) \cup Elements(g)
  BY <1>1, ElementsJoined
<1>3. DOMAIN g = DOMAIN s
  OBVIOUS
<1> QED
  BY <1>1, <1>2, <1>3, ElementsTyped DEF Elements

\* A broadcast reaches every proxy that is served, while there is a link.
LEMMA BroadcastElements ==
  ASSUME MInv, NEW kind \in {"global", "gone", "property"}, NEW of \in Nat,
         NEW o \in Object, NEW c \in Change, Broadcast(kind, Serving(of), o, c)
  PROVE  \E G :
           /\ Elements(wire') = Elements(wire) \cup G
           /\ \A m \in G : /\ m \in Messages /\ m.kind = kind /\ m.of = o.serial /\ m.id = o.id
                           /\ [p |-> m.to, o |-> of] \in subs
           /\ link => \A t \in subs : t.o = of => \E m \in G : m.to = t.p
<1> DEFINE A == Serving(of)
<1>1. wire \in Seq(Messages) /\ A \subseteq Nat
  BY DEF MInv, ConnectionOK, ServerOK, Serving
<1>2. IsFiniteSet(A)
  <2>1. IsFiniteSet({t \in subs : t.o = of})
    BY FS_Subset DEF MInv, ServerOK
  <2> DEFINE B == {t \in subs : t.o = of}
             f == [t \in B |-> t.p]
  <2>2. DOMAIN f = B /\ A = {f[t] : t \in B}
    BY DEF Serving
  <2> HIDE DEF f, A
  <2> QED
    BY <2>1, <2>2, FiniteFields
<1>3. \A p \in A : [p |-> p, o |-> of] \in subs
  BY DEF Serving, MInv, ServerOK
<1>4. \A t \in subs : t.o = of => t.p \in A
  BY DEF Serving
<1> HIDE DEF A
<1>5. CASE link
  <2>1. PICK s \in Orders(A) : wire' = wire \o [i \in DOMAIN s |-> Tell(kind, s[i], o, c)]
    BY <1>5 DEF Broadcast, A
  <2> DEFINE g == [i \in DOMAIN s |-> Tell(kind, s[i], o, c)]
  <2>2. \A i \in DOMAIN s :
          /\ g[i].kind = kind /\ g[i].to = s[i] /\ g[i].of = o.serial /\ g[i].id = o.id
          /\ s[i] \in A => g[i] \in Messages
    <3>1. \A i \in DOMAIN s : s[i] \in A => g[i] \in Messages
      BY <1>1, TellTypes
    <3> QED
      BY <3>1 DEF Tell
  <2>3. g = [i \in DOMAIN s |-> g[i]]
    OBVIOUS
  <2>4. wire' = wire \o g
    BY <2>1
  <2> HIDE DEF g
  <2>5. /\ Elements(wire \o g) = Elements(wire) \cup Elements(g)
        /\ Elements(g) \subseteq Messages /\ Elements(g) = {g[i] : i \in DOMAIN s}
    BY <1>1, <1>2, <2>2, <2>3, OrderedElements
  <2>6. (\A i \in DOMAIN s : s[i] \in A) /\ (\A x \in A : \E i \in DOMAIN s : s[i] = x)
    BY DEF Orders
  <2>7. ASSUME NEW m \in Elements(g)
        PROVE  /\ m \in Messages /\ m.kind = kind /\ m.of = o.serial /\ m.id = o.id
               /\ [p |-> m.to, o |-> of] \in subs
    <3>1. PICK i \in DOMAIN s : m = g[i]
      BY <2>5
    <3>2. m.to \in A
      BY <2>2, <2>6, <3>1
    <3> QED
      BY <1>3, <2>2, <2>5, <3>1, <3>2
  <2>8. \A t \in subs : t.o = of => \E m \in Elements(g) : m.to = t.p
    BY <1>4, <2>2, <2>5, <2>6
  <2> QED
    BY <2>4, <2>5, <2>7, <2>8
<1>6. CASE ~link
  <2> DEFINE G == {}
  <2>1. Elements(wire') = Elements(wire) \cup G /\ \A m \in G : FALSE
    BY <1>6 DEF Broadcast
  <2> HIDE DEF G
  <2> QED
    BY <1>6, <2>1
<1> QED
  BY <1>5, <1>6

\* The server sends the messages of G, and serves as in N what it was asked
\* for; it loses no object that is bound without telling of it.
LEMMA ReportKeeps ==
  ASSUME MInv, MInv', Session, History, FewerAsked,
         UNCHANGED <<connected, lastReq, mainq, wrapperVars>>,
         NEW G, NEW N,
         Elements(wire') = Elements(wire) \cup G,
         \A m \in G : /\ IsNews(m) /\ m.to <= lastReq
                      /\ m.to = registry /\ registry # NULL => Subscribed'
                      /\ m.kind = "property" => m.of # 0,
         Telling' \subseteq Telling \cup N,
         \A t \in N : /\ t.p \in Asked /\ t.p \notin Asked'
                      /\ t.p = registry => t.o = 0
                      /\ bound /\ t.p = metadata =>
                           \E q \in server' : q.serial = t.o /\ q.id = metadata_id,
         \A t, u \in N : t.p = u.p => t.o = u.o,
         \A o \in server' : o.serial # 0,
         Subscribed => Subscribed',
         bound /\ connected =>
           \A q \in server : q.id = metadata_id =>
             Coming' \/ \E z \in server' : z.serial = q.serial /\ z.id = q.id
  PROVE  History'
<1>1. /\ lastReq \in Nat /\ toServer \in Seq(Requests)
      /\ UNCHANGED <<running, bound, registry, metadata, metadata_id, generation, entries>>
  BY DEF MInv, ConnectionOK, WrapperOK, wrapperVars
<1>2. \A n \in Asked : n \in Nat /\ n # 0 /\ n <= lastReq
  BY <1>1, RequestTyped DEF Asked, History, AskedOK
<1>3. Asked' \subseteq Asked
  BY DEF Asked, FewerAsked
<1>4. AskedOK'
  BY <1>1 DEF History, AskedOK, FewerAsked, Binding
<1>5. TellsOK'
  <2>1. \A t \in Telling : t.p \in Nat /\ t.p <= lastReq /\ t.p \notin Asked /\ t.p \notin Asked'
    BY <1>3 DEF History, TellsOK
  <2>2. \A t \in Telling' : t.p \in Nat /\ t.p <= lastReq' /\ t.p \notin Asked'
    BY <1>1, <1>2, <2>1
  <2>3. ASSUME NEW t \in Telling', NEW u \in Telling', t.p = u.p
        PROVE  t.o = u.o
    <3>1. t \in Telling /\ u \in Telling => t.o = u.o
      BY <2>3 DEF History, TellsOK
    <3>2. t \in N /\ u \in N => t.o = u.o
      BY <2>3
    <3> QED
      BY <2>1, <2>3, <3>1, <3>2
  <2>4. registry' # NULL => \A t \in Telling' : t.p = registry' => t.o = 0
    BY <1>1 DEF History, TellsOK
  <2>5. \A m \in Elements(wire') : m.kind = "property" => m.of # 0
    BY DEF History, TellsOK
  <2> QED
    BY <2>2, <2>3, <2>4, <2>5 DEF TellsOK
<1>6. EventsOK'
  BY <1>1 DEF History, EventsOK
<1>7. HeardOK'
  <2>1. Heard' => Heard \/ \E m \in G : m.to = registry
    BY <1>1 DEF Heard
  <2> QED
    BY <1>1, <2>1 DEF History, HeardOK
<1>8. FollowsOK'
  <2> SUFFICES ASSUME bound, connected, NEW t \in Telling', t.p = metadata
               PROVE  Coming' \/ \E q \in server' : q.serial = t.o /\ q.id = metadata_id
    BY <1>1 DEF FollowsOK
  <2>1. CASE t \in N
    BY <2>1
  <2>2. CASE t \in Telling
    <3>1. CASE Coming
      <4>1. Removals' = Removals /\ Removers' = Removers
        BY <1>1 DEF Removals, Removers
      <4> QED
        BY <3>1, <4>1 DEF Coming
    <3>2. CASE \E q \in server : q.serial = t.o /\ q.id = metadata_id
      BY <3>2
    <3> QED
      BY <2>2, <3>1, <3>2 DEF History, FollowsOK
  <2> QED
    BY <2>1, <2>2
<1> QED
  BY <1>4, <1>5, <1>6, <1>7, <1>8 DEF History


LEMMA TellingMore ==
  ASSUME UNCHANGED <<mainq, entries>>, NEW G, NEW N,
         Elements(wire') = Elements(wire) \cup G, subs' \subseteq subs \cup N,
         \A m \in G : m.kind = "property" => [p |-> m.to, o |-> m.of] \in subs \cup N
  PROVE  Telling' \subseteq Telling \cup N
<1> SUFFICES ASSUME NEW t \in Telling', t \notin N
             PROVE  t \in Telling
  OBVIOUS
<1>1. CASE t \in subs'
  BY <1>1 DEF Telling
<1>2. CASE \E m \in Elements(wire') : m.kind = "property" /\ t = [p |-> m.to, o |-> m.of]
  <2>1. PICK m \in Elements(wire') : m.kind = "property" /\ t = [p |-> m.to, o |-> m.of]
    BY <1>2
  <2>2. CASE m \in Elements(wire)
    BY <2>1, <2>2 DEF Telling
  <2>3. CASE m \in G
    BY <2>1, <2>3 DEF Telling
  <2> QED
    BY <2>2, <2>3
<1>3. CASE \E e \in Elements(mainq') : e.kind = "property" /\ t = [p |-> e.via, o |-> e.of]
  BY <1>3 DEF Telling
<1>4. CASE \E x \in entries' : t = [p |-> x.via, o |-> x.of]
  BY <1>4 DEF Telling
<1> QED
  BY <1>1, <1>2, <1>3, <1>4 DEF Telling

\* The request that the server reads, and what is still asked for after it.
LEMMA ServesFewer ==
  ASSUME MInv, History, NEW kinds, kinds \subseteq {"registry", "object", "set", "wipe"},
         Serves(kinds)
  PROVE  /\ FewerAsked /\ toServer # <<>> /\ toServer' = Tail(toServer)
         /\ Head(toServer) \in Elements(toServer)
         /\ Head(toServer).kind \in kinds /\ Head(toServer).n \in Nat
         /\ Binding(Head(toServer)) =>
              /\ Head(toServer).n \in Asked /\ Head(toServer).n \notin Asked'
              /\ Head(toServer).n <= lastReq
<1> DEFINE r == Head(toServer)
<1>1. /\ toServer \in Seq(Requests) /\ Distinct(toServer) /\ toServer # <<>>
      /\ toServer' = Tail(toServer) /\ r.kind \in kinds
  BY DEF Serves, MInv, ConnectionOK, History, AskedOK
<1>2. FewerAsked
  BY <1>1, AskedFewer
<1>3. r \in Elements(toServer)
  BY <1>1, ElementsPopped
<1>4. r.n \in Nat
  BY <1>1, <1>3, RequestTyped
<1>5. Binding(r) => \A q \in Elements(toServer') : Binding(q) => q.n # r.n
  BY <1>1, DistinctPopped
<1> HIDE DEF r
<1>6. Binding(r) => r.n \in Asked /\ r.n \notin Asked' /\ r.n <= lastReq
  BY <1>3, <1>5 DEF Asked, History, AskedOK
<1> QED
  BY <1>1, <1>2, <1>3, <1>4, <1>6 DEF r

\* A request that changes nothing.
LEMMA IgnoredKeeps ==
  ASSUME MInv, MInv', Session, History, NEW kinds, Serves(kinds),
         UNCHANGED <<connected, lastReq, mainq, wrapperVars, server, subs, wire>>
  PROVE  History'
<1>1. toServer # <<>> /\ toServer' = Tail(toServer) /\ lastReq \in Nat
  BY DEF Serves, MInv, ConnectionOK
<1>2. Shrinks
  BY <1>1, AskingShrinks
<1> QED
  BY <1>2, ShrinksKeeps

LEMMA ServeRegistryHistory ==
  ASSUME MInv, MInv', Session, History, ServeRegistry
  PROVE  History'
<1> DEFINE r == Head(toServer)
           n == r.n
           N == {[p |-> n, o |-> 0]}
<1>1. /\ UNCHANGED <<connected, link, lastReq, mainq, wrapperVars, server>>
      /\ UNCHANGED <<registry, metadata, metadata_id, entries, bound>>
      /\ Serves({"registry"})
  BY DEF ServeRegistry, wrapperVars
<1>2. /\ FewerAsked /\ r \in Elements(toServer) /\ r.kind = "registry" /\ n \in Nat
      /\ n \in Asked /\ n \notin Asked' /\ n <= lastReq
  BY <1>1, ServesFewer DEF Binding
<1>3. n # metadata
  BY <1>2 DEF History, AskedOK
<1>4. wire \in Seq(Messages) /\ server \subseteq Object /\ IsFiniteSet(server)
  BY DEF MInv, ConnectionOK, ServerOK
<1>5. CASE UNCHANGED <<subs, wire>>
  BY <1>1, <1>5, IgnoredKeeps
<1>6. CASE ~UNCHANGED <<subs, wire>>
  <2>1. PICK s \in Orders(server) :
          wire' = wire \o [i \in DOMAIN s |-> Tell("global", n, s[i], NoChange)]
    BY <1>6 DEF ServeRegistry
  <2>2. subs' = subs \cup N
    BY <1>6 DEF ServeRegistry
  <2> DEFINE g == [i \in DOMAIN s |-> Tell("global", n, s[i], NoChange)]
  <2> HIDE DEF n
  <2>3. \A i \in DOMAIN s : s[i] \in server => g[i] \in Messages
    BY <1>2, <1>4, TellTypes, RequestTypes
  <2>3a. \A i \in DOMAIN s : g[i].kind = "global" /\ g[i].to = n
    BY DEF Tell
  <2>4. g = [i \in DOMAIN s |-> g[i]]
    OBVIOUS
  <2>4a. wire' = wire \o g
    BY <2>1
  <2> HIDE DEF g
  <2>5. /\ Elements(wire \o g) = Elements(wire) \cup Elements(g)
        /\ Elements(g) = {g[i] : i \in DOMAIN s}
    BY <1>4, <2>3, <2>4, OrderedElements
  <2>6. \A m \in Elements(g) : m.kind = "global" /\ m.to = n
    BY <2>5, <2>3a
  <2>7. Elements(wire') = Elements(wire) \cup Elements(g)
    BY <2>4a, <2>5
  <2>8. Telling' \subseteq Telling \cup N
    <3> HIDE DEF N
    <3> QED
      BY <1>1, <2>2, <2>6, <2>7, TellingMore
  <2>9. n = registry => Subscribed'
    BY <1>1, <2>2 DEF Subscribed
  <2>10. Subscribed => Subscribed'
    BY <1>1, <2>2 DEF Subscribed
  <2>11. \A m \in Elements(g) : /\ IsNews(m) /\ m.to <= lastReq
                                /\ m.to = registry /\ registry # NULL => Subscribed'
                                /\ m.kind = "property" => m.of # 0
    BY <1>2, <2>6, <2>9 DEF IsNews
  <2>12. \A t \in N : t.p = n /\ t.o = 0
    OBVIOUS
  <2>13. \A o \in server' : o.serial # 0
    BY <1>1 DEF History, TellsOK
  <2> HIDE DEF N
  <2> QED
    BY <1>1, <1>2, <1>3, <2>7, <2>8, <2>10, <2>11, <2>12, <2>13, ReportKeeps
<1> QED
  BY <1>5, <1>6

LEMMA ServeObjectHistory ==
  ASSUME MInv, MInv', Session, History, ServeObject
  PROVE  History'
<1> DEFINE r == Head(toServer)
           n == r.n
<1>1. /\ UNCHANGED <<connected, link, lastReq, mainq, wrapperVars, server>>
      /\ UNCHANGED <<registry, metadata, metadata_id, entries, bound>>
      /\ Serves({"object"})
  BY DEF ServeObject, wrapperVars
<1>2. /\ FewerAsked /\ r \in Elements(toServer) /\ r.kind = "object" /\ n \in Nat
      /\ n \in Asked /\ n \notin Asked' /\ n <= lastReq
  BY <1>1, ServesFewer DEF Binding
<1>3. n # registry /\ (n = metadata => r.id = metadata_id)
  BY <1>2 DEF History, AskedOK
<1>4. wire \in Seq(Messages) /\ server \subseteq Object
  BY DEF MInv, ConnectionOK, ServerOK
<1>5. CASE UNCHANGED <<subs, wire>>
  BY <1>1, <1>5, IgnoredKeeps
<1>6. CASE ~UNCHANGED <<subs, wire>>
  <2>1. PICK o \in server :
          /\ o.id = r.id
          /\ subs' = subs \cup {[p |-> n, o |-> o.serial]}
          /\ \E s \in Orders(o.props) :
               wire' = wire \o [i \in DOMAIN s |-> Tell("property", n, o, s[i])]
    BY <1>6 DEF ServeObject
  <2>2. /\ o \in Object /\ o.serial \in Nat /\ o.serial # 0 /\ IsFiniteSet(o.props)
        /\ o.props \subseteq [subject : Subjects, key : Keys, value : Nat]
    BY <1>4 DEF Object, MInv, ServerOK, History, TellsOK
  <2>3. PICK s \in Orders(o.props) :
          wire' = wire \o [i \in DOMAIN s |-> Tell("property", n, o, s[i])]
    BY <2>1
  <2> DEFINE g == [i \in DOMAIN s |-> Tell("property", n, o, s[i])]
             N == {[p |-> n, o |-> o.serial]}
  <2> HIDE DEF n
  <2>4. \A i \in DOMAIN s : g[i].kind = "property" /\ g[i].to = n /\ g[i].of = o.serial
    BY DEF Tell
  <2>4a. \A i \in DOMAIN s : s[i] \in o.props => g[i] \in Messages
    <3>1. \A x \in o.props : x \in Change
      BY <2>2 DEF Change
    <3> QED
      BY <1>2, <2>2, <3>1, TellTypes
  <2>5. g = [i \in DOMAIN s |-> g[i]]
    OBVIOUS
  <2>5a. wire' = wire \o g
    BY <2>3
  <2> HIDE DEF g
  <2>6. /\ Elements(wire \o g) = Elements(wire) \cup Elements(g)
        /\ Elements(g) = {g[i] : i \in DOMAIN s}
    BY <1>4, <2>2, <2>4a, <2>5, OrderedElements
  <2>7. \A m \in Elements(g) : m.kind = "property" /\ m.to = n /\ m.of = o.serial
    BY <2>4, <2>6
  <2>8. Elements(wire') = Elements(wire) \cup Elements(g)
    BY <2>5a, <2>6
  <2>9. Telling' \subseteq Telling \cup N
    <3>1. \A m \in Elements(g) : m.kind = "property" => [p |-> m.to, o |-> m.of] \in subs \cup N
      BY <2>7
    <3>2. subs' \subseteq subs \cup N
      BY <2>1
    <3> HIDE DEF N
    <3> QED
      BY <1>1, <2>8, <3>1, <3>2, TellingMore
  <2>10. Subscribed => Subscribed'
    BY <1>1, <2>1 DEF Subscribed
  <2>11. \A m \in Elements(g) : /\ IsNews(m) /\ m.to <= lastReq
                                /\ m.to = registry /\ registry # NULL => Subscribed'
                                /\ m.kind = "property" => m.of # 0
    BY <1>2, <1>3, <2>2, <2>7 DEF IsNews
  <2>12. \A t \in N : t.p = n /\ t.o = o.serial
    OBVIOUS
  <2>13. \A x \in server' : x.serial # 0
    BY <1>1 DEF History, TellsOK
  <2> HIDE DEF N
  <2> QED
    BY <1>1, <1>2, <1>3, <2>1, <2>8, <2>9, <2>10, <2>11, <2>12, <2>13, ReportKeeps
<1> QED
  BY <1>5, <1>6

\* Properties of one object change, and those that it serves hear of it.
LEMMA ChangeKeeps ==
  ASSUME MInv, MInv', Session, History, FewerAsked,
         UNCHANGED <<connected, lastReq, mainq, wrapperVars, subs>>,
         NEW o \in server, NEW q, q.serial = o.serial, q.id = o.id,
         server' = (server \ {o}) \cup {q},
         NEW G, Elements(wire') = Elements(wire) \cup G,
         \A m \in G : /\ m.kind = "property" /\ m.of = o.serial
                      /\ [p |-> m.to, o |-> o.serial] \in subs
  PROVE  History'
<1> DEFINE N == {}
<1>1. UNCHANGED <<registry, metadata, metadata_id, entries, bound>>
  BY DEF wrapperVars
<1>2. \A x \in server : x.serial # 0
  BY DEF History, TellsOK
<1>3. ASSUME NEW m \in G
      PROVE  IsNews(m) /\ m.to <= lastReq /\ (registry # NULL => m.to # registry) /\ m.of # 0
  <2>1. [p |-> m.to, o |-> o.serial] \in Telling
    BY <1>3 DEF Telling
  <2>2. m.to <= lastReq /\ (registry # NULL => m.to # registry)
    BY <1>2, <2>1 DEF History, TellsOK
  <2> QED
    BY <1>2, <1>3, <2>2 DEF IsNews
<1>4. Telling' \subseteq Telling \cup N
  <2>1. \A m \in G : m.kind = "property" => [p |-> m.to, o |-> m.of] \in subs \cup N
    OBVIOUS
  <2>2. subs' \subseteq subs \cup N
    OBVIOUS
  <2> HIDE DEF N
  <2> QED
    BY <1>1, <2>1, <2>2, TellingMore
<1>5. Subscribed => Subscribed'
  BY <1>1 DEF Subscribed
<1>6. \A x \in server' : x.serial # 0
  BY <1>2
<1>7. \A x \in server : \E z \in server' : z.serial = x.serial /\ z.id = x.id
  OBVIOUS
<1>8. \A t \in N : FALSE
  OBVIOUS
<1> HIDE DEF N
<1> QED
  BY <1>3, <1>4, <1>5, <1>6, <1>7, <1>8, ReportKeeps

LEMMA ChangesHistory ==
  ASSUME MInv, MInv', Session, History, FewerAsked, NEW o \in server, NEW c \in Change,
         Changes(o, c), UNCHANGED <<connected, lastReq, mainq, wrapperVars, subs>>
  PROVE  History'
<1> DEFINE new == IF c.key = All \/ c.value = None THEN {}
                  ELSE {[subject |-> c.subject, key |-> c.key, value |-> c.value]}
           props == Without(o.props, c) \cup new
           q == [o EXCEPT !.props = props]
<1>1. /\ server' = (server \ {o}) \cup {q}
      /\ Broadcast("property", Serving(o.serial), o, c)
  BY DEF Changes
<1>2. o \in Object /\ o.serial \in Nat
  BY DEF Object, MInv, ServerOK
<1> HIDE DEF props
<1>3. q.serial = o.serial /\ q.id = o.id
  BY <1>2 DEF Object
<1> HIDE DEF q
<1>4. PICK G :
        /\ Elements(wire') = Elements(wire) \cup G
        /\ \A m \in G : /\ m \in Messages /\ m.kind = "property" /\ m.of = o.serial
                        /\ m.id = o.id /\ [p |-> m.to, o |-> o.serial] \in subs
        /\ link => \A t \in subs : t.o = o.serial => \E m \in G : m.to = t.p
  BY <1>1, <1>2, BroadcastElements
<1> QED
  BY <1>1, <1>3, <1>4, ChangeKeeps


LEMMA ServeSetHistory ==
  ASSUME MInv, MInv', Session, History, ServeSet
  PROVE  History'
<1> DEFINE c == Head(toServer).c
           d == [c EXCEPT !.value = IF @ = None THEN None ELSE rev + 1]
<1>1. /\ UNCHANGED <<connected, lastReq, mainq, wrapperVars, subs>>
      /\ Serves({"set"}) /\ c \in Change /\ rev \in Nat
  BY ServesTypes DEF ServeSet, MInv, ServerOK
<1>2. FewerAsked
  BY <1>1, ServesFewer
<1>3. CASE UNCHANGED <<server, wire>>
  BY <1>1, <1>3, IgnoredKeeps
<1>4. CASE \E o \in server : Changes(o, d)
  <2>1. d \in Change
    BY <1>1 DEF Change, None
  <2> HIDE DEF d
  <2> QED
    BY <1>1, <1>2, <1>4, <2>1, ChangesHistory
<1> QED
  BY <1>3, <1>4 DEF ServeSet

LEMMA ServeWipeHistory ==
  ASSUME MInv, MInv', Session, History, ServeWipe
  PROVE  History'
<1> DEFINE n == Head(toServer).n
<1>1. /\ UNCHANGED <<connected, lastReq, mainq, wrapperVars, subs>> /\ Serves({"wipe"})
  BY DEF ServeWipe
<1>2. FewerAsked /\ n \in Nat
  BY <1>1, ServesFewer
<1>3. wire \in Seq(Messages)
  BY DEF MInv, ConnectionOK
<1>4. CASE UNCHANGED <<server, wire>>
  BY <1>1, <1>4, IgnoredKeeps
<1>5. CASE ~UNCHANGED <<server, wire>>
  <2>1. PICK o \in server :
          /\ n \in Serving(o.serial)
          /\ server' = (server \ {o}) \cup {[o EXCEPT !.props = {}]}
          /\ \E s \in Orders({x.subject : x \in o.props}) :
               wire' = wire \o [i \in DOMAIN s |->
                 Tell("property", n, o, [NoChange EXCEPT !.subject = s[i]])]
    BY <1>5 DEF ServeWipe
  <2> DEFINE A == {x.subject : x \in o.props}
             q == [o EXCEPT !.props = {}]
  <2>2. /\ o \in Object /\ o.serial \in Nat /\ IsFiniteSet(o.props)
        /\ o.props \subseteq [subject : Subjects, key : Keys, value : Nat]
    BY DEF Object, MInv, ServerOK
  <2>3. q.serial = o.serial /\ q.id = o.id
    BY <2>2 DEF Object
  <2>4. A \subseteq Subjects
    BY <2>2
  <2>5. IsFiniteSet(A)
    <3> DEFINE f == [x \in o.props |-> x.subject]
    <3>1. DOMAIN f = o.props /\ A = {f[x] : x \in o.props}
      OBVIOUS
    <3> HIDE DEF f, A
    <3> QED
      BY <2>2, <3>1, FiniteFields
  <2>6. \A x \in A : [NoChange EXCEPT !.subject = x] \in Change
    BY <2>4 DEF NoChange, Change, None
  <2>7. [p |-> n, o |-> o.serial] \in subs
    BY <2>1 DEF Serving, MInv, ServerOK
  <2> HIDE DEF A
  <2>8. PICK s \in Orders(A) :
          wire' = wire \o [i \in DOMAIN s |->
            Tell("property", n, o, [NoChange EXCEPT !.subject = s[i]])]
    BY <2>1 DEF A
  <2> DEFINE g == [i \in DOMAIN s |->
                     Tell("property", n, o, [NoChange EXCEPT !.subject = s[i]])]
  <2> HIDE DEF n
  <2>9. \A i \in DOMAIN s : s[i] \in A => g[i] \in Messages
    BY <1>2, <2>2, <2>6, TellTypes
  <2>10. \A i \in DOMAIN s : g[i].kind = "property" /\ g[i].to = n /\ g[i].of = o.serial
    BY DEF Tell
  <2>11. g = [i \in DOMAIN s |-> g[i]]
    OBVIOUS
  <2>16. wire' = wire \o g
    BY <2>8
  <2> HIDE DEF g
  <2>12. /\ Elements(wire \o g) = Elements(wire) \cup Elements(g)
         /\ Elements(g) = {g[i] : i \in DOMAIN s}
    BY <1>3, <2>5, <2>9, <2>11, OrderedElements
  <2>13. \A m \in Elements(g) : /\ m.kind = "property" /\ m.of = o.serial
                                /\ [p |-> m.to, o |-> o.serial] \in subs
    BY <2>7, <2>10, <2>12
  <2>14. Elements(wire') = Elements(wire) \cup Elements(g)
    BY <2>12, <2>16
  <2>15. server' = (server \ {o}) \cup {q}
    BY <2>1
  <2> HIDE DEF q
  <2> QED
    BY <1>1, <1>2, <2>3, <2>13, <2>14, <2>15, ChangeKeeps
<1> QED
  BY <1>4, <1>5

\* Nothing is read, nothing is asked.
LEMMA StillAsked ==
  ASSUME MInv, History, UNCHANGED toServer
  PROVE  FewerAsked
<1>1. toServer \in Seq(Requests) /\ Distinct(toServer)
  BY DEF MInv, ConnectionOK, History, AskedOK
<1> QED
  BY <1>1, AskedFewer

LEMMA ServerWritesHistory ==
  ASSUME MInv, MInv', Session, History, NEW o \in server, NEW subject \in Subjects,
         NEW key \in Keys, ServerWrites(o, subject, key)
  PROVE  History'
<1> DEFINE c == [subject |-> subject, key |-> key, value |-> rev + 1]
<1>1. c \in Change
  BY DEF Change, MInv, ServerOK
<1>2. /\ Changes(o, c) /\ FewerAsked
      /\ UNCHANGED <<connected, toServer, lastReq, mainq, wrapperVars, subs>>
  BY StillAsked DEF ServerWrites
<1> HIDE DEF c
<1> QED
  BY <1>1, <1>2, ChangesHistory

LEMMA ServerAddHistory ==
  ASSUME MInv, MInv', Session, History, NEW id \in Ids, NEW name \in Names,
         ServerAdd(id, name)
  PROVE  History'
<1> DEFINE o == [id |-> id, serial |-> serial + 1, name |-> name, props |-> {}]
           N == {}
<1>1. /\ server' = server \cup {o} /\ Broadcast("global", Serving(0), o, NoChange)
      /\ UNCHANGED <<connected, toServer, lastReq, mainq, wrapperVars, subs>>
      /\ UNCHANGED <<registry, metadata, metadata_id, entries, bound>>
  BY DEF ServerAdd, wrapperVars
<1>2. serial \in Nat /\ 0 \in Nat
  BY DEF MInv, ServerOK
<1>3. o \in Object /\ o.serial # 0
  BY <1>2 DEF Object
<1> HIDE DEF o
<1>4. PICK G :
        /\ Elements(wire') = Elements(wire) \cup G
        /\ \A m \in G : /\ m \in Messages /\ m.kind = "global" /\ m.of = o.serial
                        /\ m.id = o.id /\ [p |-> m.to, o |-> 0] \in subs
        /\ link => \A t \in subs : t.o = 0 => \E m \in G : m.to = t.p
  BY <1>1, <1>2, <1>3, RequestTypes, BroadcastElements
<1>5. FewerAsked /\ (Subscribed => Subscribed')
  BY <1>1, StillAsked DEF Subscribed
<1>6. ASSUME NEW m \in G
      PROVE  /\ IsNews(m) /\ m.to <= lastReq /\ m.kind # "property"
             /\ m.to = registry => Subscribed'
  <2>1. [p |-> m.to, o |-> 0] \in Telling
    BY <1>4 DEF Telling
  <2>2. m.to <= lastReq
    BY <2>1 DEF History, TellsOK
  <2> QED
    BY <1>1, <1>4, <2>2 DEF IsNews, Subscribed
<1>7. Telling' \subseteq Telling \cup N
  <2>1. subs' \subseteq subs \cup N
    BY <1>1
  <2> HIDE DEF N
  <2> QED
    BY <1>1, <1>4, <1>6, <2>1, TellingMore
<1>8. \A x \in server' : x.serial # 0
  BY <1>1, <1>3 DEF History, TellsOK
<1>9. \A t \in N : FALSE
  OBVIOUS
<1> HIDE DEF N
<1> QED
  BY <1>1, <1>4, <1>5, <1>6, <1>7, <1>8, <1>9, ReportKeeps

\* The registry of a session that has bound an object hears of its removal.
LEMMA ServerRemoveHistory ==
  ASSUME MInv, MInv', Session, History, NEW o \in server, ServerRemove(o)
  PROVE  History'
<1> DEFINE N == {}
<1>1. /\ server' = server \ {o} /\ subs' = {s \in subs : s.o # o.serial}
      /\ Broadcast("gone", Serving(0), o, NoChange)
      /\ UNCHANGED <<connected, link, toServer, lastReq, mainq, wrapperVars>>
      /\ UNCHANGED <<registry, metadata, metadata_id, entries, bound, generation>>
  BY DEF ServerRemove, wrapperVars
<1>2. o \in Object /\ 0 \in Nat /\ o.serial # 0
  BY DEF MInv, ServerOK, History, TellsOK
<1>3. PICK G :
        /\ Elements(wire') = Elements(wire) \cup G
        /\ \A m \in G : /\ m \in Messages /\ m.kind = "gone" /\ m.of = o.serial
                        /\ m.id = o.id /\ [p |-> m.to, o |-> 0] \in subs
        /\ link => \A t \in subs : t.o = 0 => \E m \in G : m.to = t.p
  BY <1>1, <1>2, RequestTypes, BroadcastElements
<1>4. FewerAsked /\ (Subscribed => Subscribed')
  BY <1>1, <1>2, StillAsked DEF Subscribed
<1>5. ASSUME NEW m \in G
      PROVE  /\ IsNews(m) /\ m.to <= lastReq /\ m.kind # "property"
             /\ m.to = registry => Subscribed'
  <2>1. [p |-> m.to, o |-> 0] \in Telling
    BY <1>3 DEF Telling
  <2>2. m.to <= lastReq
    BY <2>1 DEF History, TellsOK
  <2>3. m.to = registry => Subscribed
    BY <1>3 DEF Subscribed
  <2> QED
    BY <1>3, <1>4, <2>2, <2>3 DEF IsNews
<1>6. Telling' \subseteq Telling \cup N
  <2>1. subs' \subseteq subs \cup N
    BY <1>1
  <2> HIDE DEF N
  <2> QED
    BY <1>1, <1>3, <1>5, <2>1, TellingMore
<1>7. \A x \in server' : x.serial # 0
  BY <1>1 DEF History, TellsOK
<1>8. bound /\ connected /\ o.id = metadata_id => Coming'
  <2> SUFFICES ASSUME bound, connected, o.id = metadata_id
               PROVE  Coming'
    OBVIOUS
  <2>1. link /\ registry # NULL /\ Heard
    BY DEF Session, Ending, Heard
  <2>2. Subscribed
    BY <2>1 DEF History, HeardOK
  <2>3. PICK m \in G : m.to = registry
    BY <1>3, <2>1, <2>2 DEF Subscribed
  <2>4. m \in Removals' /\ m \in Elements(wire')
    BY <1>1, <1>3, <2>3 DEF Removals
  <2> QED
    BY <2>4 DEF Coming
<1>9. bound /\ connected =>
        \A q \in server : q.id = metadata_id =>
          Coming' \/ \E z \in server' : z.serial = q.serial /\ z.id = q.id
  BY <1>1, <1>8
<1>10. \A t \in N : FALSE
  OBVIOUS
<1> HIDE DEF N
<1> QED
  BY <1>1, <1>3, <1>4, <1>5, <1>6, <1>7, <1>9, <1>10, ReportKeeps

LEMMA ServerHistory ==
  ASSUME MInv, MInv', Session, History, MServerStep
  PROVE  History'
<1>1. CASE Keep(ServeSync)
  BY <1>1, ServeSyncShrinks, ShrinksKeeps DEF Keep
<1>2. CASE ServeRegistry \/ ServeObject \/ ServeSet \/ ServeWipe
  BY <1>2, ServeRegistryHistory, ServeObjectHistory, ServeSetHistory, ServeWipeHistory
<1> QED
  BY <1>1, <1>2 DEF MServerStep

-----------------------------------------------------------------------------
(* The steps of both threads of the wrapper.                               *)

LEMMA StartOnHistory ==
  ASSUME "reconnect" \notin Reentry, MInv, MInv', Session, History, ~running,
         ~Holds(stack, "clear"), NEW below, StartOn(below), UNCHANGED <<mainq, serverVars>>
  PROVE  History'
<1>1. CASE connected
  <2>1. UNCHANGED <<connected, wire>> /\ (Open(below) \/ OpenFails(below))
    BY <1>1 DEF StartOn
  <2> QED
    BY <2>1, OpenHistory, OpenFailsShrinks, ShrinksKeeps
<1>2. CASE ~connected
  <2>1. MayConnect(Owed) /\ Connected /\ UNCHANGED <<lastReq, wrapperVars>>
    BY <1>2 DEF StartOn, ConnectFor
  <2> QED
    BY <2>1, ConnectShrinks, ShrinksKeeps
<1> QED
  BY <1>1, <1>2

LEMMA StartHistory ==
  ASSUME "sync" \notin HandlerCalls, "reconnect" \notin Reentry, MInv, MInv', Session,
         History, Start \/ Sync \/ StartResume
  PROVE  History'
<1>1. CASE Start
  <2>1. ~Holds(stack, "clear")
    BY <1>1, RestsHeld DEF Start, Calls, MInv, Rests
  <2> QED
    BY <1>1, <2>1, StartOnHistory DEF Start
<1>2. CASE Sync
  <2>1. CASE running
    BY <1>2, <2>1, RoundtripShrinks, ShrinksKeeps DEF Sync
  <2>2. CASE ~running
    <3>1. ~Holds(stack, "clear")
      BY <1>2, EmptySits DEF Sync, Calls, MayCall
    <3> QED
      BY <1>2, <2>2, <3>1, StartOnHistory DEF Sync
  <2> QED
    BY <2>1, <2>2
<1>3. CASE StartResume
  <2>1. /\ stack # <<>> /\ Head(stack).op = "start" /\ Sits(stack)
        /\ UNCHANGED <<connected, wire, mainq, serverVars>>
        /\ Open(Tail(stack)) \/ OpenFails(Tail(stack))
    BY <1>3 DEF StartResume, TopIs, Session
  <2>2. Holds(stack, "start") /\ ~Holds(stack, "clear")
    BY <2>1, PopSits DEF Rests
  <2>3. ~running
    BY <2>2 DEF MInv, Owner
  <2> QED
    BY <2>1, <2>2, <2>3, OpenHistory, OpenFailsShrinks, ShrinksKeeps
<1> QED
  BY <1>1, <1>2, <1>3

LEMMA SyncEndHistory ==
  ASSUME "reconnect" \notin Reentry, MInv, MInv', Session, History, SyncStarted \/ SyncDrainEnd
  PROVE  History'
<1>1. UNCHANGED <<mainq, wrapperVars, serverVars>>
  BY DEF SyncStarted, SyncDrainEnd
<1>2. CASE \E mark, below : Roundtrip(mark, Owed, below)
  BY <1>1, <1>2, RoundtripShrinks, ShrinksKeeps
<1>3. CASE DrainEnd
  BY <1>1, <1>3, CoreStepShrinks, ShrinksKeeps DEF CoreStep
<1>4. DrainEnd \/ \E mark, below : Roundtrip(mark, Owed, below)
  <2>1. CASE SyncStarted
    BY <2>1 DEF SyncStarted
  <2>2. CASE SyncDrainEnd
    BY <2>2 DEF SyncDrainEnd, DrainEnd
  <2> QED
    BY <2>1, <2>2
<1> QED
  BY <1>2, <1>3, <1>4

LEMMA StopHistory ==
  ASSUME MInv, MInv', Session, History, Stop \/ DisconnectCore \/ Halt \/ Unbound \/ Reset
  PROVE  History'
<1>1. CASE Stop
  <2>1. DestroyBoundProxy(<<Rest("halt")>> \o stack)
    BY <1>1 DEF Stop
  <2>2. UNCHANGED <<connected, toServer, wire, lastReq, mainq, running, registry, generation,
                    server>>
    BY <1>1 DEF Stop
  <2> QED
    BY <2>1, <2>2, DestroyBoundShrinks, ShrinksKeeps
<1>2. CASE DisconnectCore \/ Halt \/ Unbound \/ Reset
  BY <1>2, DisconnectShrinks, HaltShrinks, ResetShrinks, ShrinksKeeps
<1> QED
  BY <1>1, <1>2

\* A removal that no listener hears is not of the object that is bound: its
\* registry lives as long as the session.
LEMMA OnMessageHistory ==
  ASSUME "reconnect" \notin Reentry, MInv, MInv', Session, History, OnMessage
  PROVE  History'
<1> DEFINE m == Head(wire)
           wanted == m.to \in alive /\ (m.kind = "global" => m.name = Name)
<1>1. /\ connected /\ wire # <<>> /\ wire' = Tail(wire)
      /\ m.kind \in {"global", "gone", "property"}
      /\ mainq' = IF wanted THEN Append(mainq, Event(m)) ELSE mainq
      /\ UNCHANGED <<connected, toServer, lastReq, wrapperVars, serverVars>>
  BY DEF OnMessage, Reads
<1>2. CASE wanted
  BY <1>1, <1>2, HeardHistory DEF IsNews
<1>3. CASE ~wanted
  <2>1. connected /\ bound => m \notin Removals
    <3> SUFFICES ASSUME bound, m \in Removals
                 PROVE  FALSE
      OBVIOUS
    <3>1. registry \in alive
      BY <1>1 DEF Session, Ending, MInv, Owner
    <3> QED
      BY <1>3, <3>1 DEF Removals
  <2>2. /\ mainq' = mainq /\ lastReq \in Nat /\ toServer \in Seq(Requests) /\ Distinct(toServer)
        /\ UNCHANGED <<server, subs>>
    BY <1>1, <1>3 DEF MInv, ConnectionOK, History, AskedOK, serverVars
  <2>3. FewerAsked
    BY <1>1, <2>2, AskedFewer
  <2>4. Shrinks
    BY <1>1, <2>1, <2>2, <2>3, QuietShrinks
  <2> QED
    BY <2>4, ShrinksKeeps
<1> QED
  BY <1>2, <1>3

LEMMA DispatchHistory ==
  ASSUME MInv, MInv', Session, History, Dispatch
  PROVE  History'
<1> DEFINE e == Head(mainq)
<1>1. ASSUME Drop, mainq # <<>>, mainq' = Tail(mainq), bound => e \notin Removers,
             UNCHANGED <<connected, wire, server>>
      PROVE  History'
  BY <1>1, DropShrinks, ShrinksKeeps
<1>2. CASE Keep(DispatchToken)
  BY <1>2, CoreStepShrinks, ShrinksKeeps DEF Keep, CoreStep
<1>3. CASE DispatchFound
  <2>1. /\ mainq # <<>> /\ mainq' = Tail(mainq) /\ e.kind = "global"
        /\ UNCHANGED <<connected, wire, server>>
        /\ Drop \/ (Current(e) /\ Bind(e.id))
    BY <1>3 DEF DispatchFound, Takes
  <2>2. e \notin Removers /\ IsNews(e)
    BY <2>1 DEF Removers, IsNews
  <2>3. CASE Drop
    BY <1>1, <2>1, <2>2, <2>3
  <2>4. CASE ~Drop
    <3>1. Current(e) /\ Bind(e.id)
      BY <2>1, <2>4
    <3> QED
      BY <2>1, <2>2, <2>4, <3>1, BindHistory DEF Current
  <2> QED
    BY <2>3, <2>4
<1>4. CASE DispatchRemoved
  <2>1. /\ mainq # <<>> /\ mainq' = Tail(mainq)
        /\ UNCHANGED <<connected, wire, server>>
    BY <1>4 DEF DispatchRemoved, Takes
  <2>2. CASE Current(e) /\ metadata_id = e.id
    <3>1. /\ DestroyBoundProxy(stack)
          /\ UNCHANGED <<lastReq, toServer, running, registry, generation>>
      BY <1>4, <2>2 DEF DispatchRemoved
    <3>2. Shrinks
      BY <2>1, <3>1, DestroyBoundShrinks
    <3> QED
      BY <3>2, ShrinksKeeps
  <2>3. CASE ~(Current(e) /\ metadata_id = e.id)
    <3>1. Drop
      BY <1>4, <2>3 DEF DispatchRemoved
    <3>2. bound => e \notin Removers
      BY <2>3 DEF Session, Removers, Current
    <3> QED
      BY <1>1, <2>1, <3>1, <3>2
  <2> QED
    BY <2>2, <2>3
<1>5. CASE DispatchChanged
  <2>1. /\ mainq # <<>> /\ mainq' = Tail(mainq) /\ e.kind = "property"
        /\ UNCHANGED <<connected, wire, server>>
    BY <1>5 DEF DispatchChanged, Takes
  <2>2. CASE Current(e)
    <3>1. /\ entries' = Cached(e)
          /\ UNCHANGED <<lastReq, toServer, running, bound, registry, metadata, metadata_id,
                         generation, subs>>
      BY <1>5, <2>2 DEF DispatchChanged
    <3> QED
      BY <2>1, <2>2, <3>1, CachedHistory DEF Current
  <2>3. CASE ~Current(e)
    <3>1. Drop /\ e \notin Removers
      BY <1>5, <2>1, <2>3 DEF DispatchChanged, Removers
    <3> QED
      BY <1>1, <2>1, <3>1
  <2> QED
    BY <2>2, <2>3
<1> QED
  BY <1>2, <1>3, <1>4, <1>5 DEF Dispatch

LEMMA HistoryInit == MInit => History
<1> SUFFICES ASSUME MInit
             PROVE  History
  OBVIOUS
<1>1. /\ toServer = <<>> /\ wire = <<>> /\ mainq = <<>> /\ server = {} /\ subs = {}
      /\ entries = {} /\ ~running /\ ~bound /\ ~connected /\ metadata = NULL
  BY DEF MInit, Init
<1>2. Elements(toServer) = {} /\ Elements(wire) = {} /\ Elements(mainq) = {}
  BY <1>1 DEF Elements
<1>3. Telling = {}
  BY <1>1, <1>2 DEF Telling
<1> QED
  BY <1>1, <1>2, <1>3 DEF History, AskedOK, Distinct, TellsOK, EventsOK, HeardOK, FollowsOK

LEMMA HistoryNext ==
  ASSUME "sync" \notin HandlerCalls, "reconnect" \notin Reentry, MInv, MInv', Session,
         History, [MNext]_vars
  PROVE  History'
<1>1. CASE Start \/ Sync \/ Stop \/ DisconnectCore \/ ClearAll
  BY <1>1, StartHistory, StopHistory, WriteShrinks, ShrinksKeeps
<1>12. CASE MayConnect(Owed) /\ Keep(Connect)
  BY <1>12, NotifyShrinks, ShrinksKeeps DEF Keep
<1>2. ASSUME NEW s \in Subjects, NEW k \in Keys, NEW v \in {None, 1},
             SetValue([subject |-> s, key |-> k, value |-> v])
      PROVE  History'
  <2> DEFINE c == [subject |-> s, key |-> k, value |-> v]
  <2>1. c \in Change
    BY DEF Change, None
  <2>2. SetValue(c)
    BY <1>2
  <2> HIDE DEF c
  <2> QED
    BY <2>1, <2>2, WriteShrinks, ShrinksKeeps
<1>3. CASE MMainStep
  <2>1. CASE \/ Keep(SyncWake) \/ Keep(SyncTimeout) \/ Keep(HandlerReturn)
             \/ Keep(NotifyReturn)
    BY <2>1, CoreStepShrinks, ShrinksKeeps DEF Keep, CoreStep
  <2>4. CASE Keep(SyncResume(Head(stack).mark)) \/ Keep(Restart)
    BY <2>4, NotifyShrinks, ShrinksKeeps DEF Keep
  <2>2. CASE StartResume \/ SyncStarted \/ SyncDrainEnd
    BY <2>2, StartHistory, SyncEndHistory
  <2>3. CASE ClearEntries \/ Halt \/ Reset \/ Unbound
    BY <2>3, WriteShrinks, ShrinksKeeps, StopHistory
  <2> QED
    BY <1>3, <2>1, <2>2, <2>3, <2>4 DEF MMainStep
<1>4. CASE Dispatch
  BY <1>4, DispatchHistory
<1>5. CASE MServerStep
  BY <1>5, ServerHistory
<1>6. CASE Keep(EnterLoop)
  BY <1>6, ServeSyncShrinks, ShrinksKeeps DEF Keep
<1>7. CASE MLoopStep
  <2>1. CASE Keep(LoopStep)
    BY <2>1, CoreStepShrinks, ShrinksKeeps DEF Keep, CoreStep
  <2> QED
    BY <1>7, <2>1, OnMessageHistory DEF MLoopStep
<1>8. ASSUME NEW id \in Ids, NEW name \in Names, ServerAdd(id, name)
      PROVE  History'
  BY <1>8, ServerAddHistory
<1>9. ASSUME NEW o \in server, ServerRemove(o)
      PROVE  History'
  BY <1>9, ServerRemoveHistory
<1>10. ASSUME NEW o \in server, NEW s \in Subjects, NEW k \in Keys, ServerWrites(o, s, k)
       PROVE  History'
  BY <1>10, ServerWritesHistory
<1>11. CASE UNCHANGED vars
  <2>1. UNCHANGED <<connected, toServer, wire, lastReq, mainq, wrapperVars, server, subs>>
    BY <1>11 DEF vars, coreVars, serverVars
  <2>2. lastReq' >= lastReq
    BY <2>1 DEF MInv, ConnectionOK
  <2> QED
    BY <2>1, <2>2, AskingShrinks, ShrinksKeeps
<1> QED
  BY <1>1, <1>2, <1>3, <1>4, <1>5, <1>6, <1>7, <1>8, <1>9, <1>10, <1>11, <1>12
     DEF MNext, MCall

\* The inductive invariant of the next two theorems.
LEMMA HistoryInvariant ==
  ASSUME "sync" \notin HandlerCalls, "reconnect" \notin Reentry
  PROVE  MSpec => [](MInv /\ Session /\ History)
<1>1. MInit => MInv /\ Session /\ History
  BY MInitInv, SessionInit, HistoryInit
<1>2. MInv /\ Session /\ History /\ [MNext]_vars => (MInv /\ Session /\ History)'
  <2> SUFFICES ASSUME MInv, Session, History, [MNext]_vars
               PROVE  (MInv /\ Session /\ History)'
    OBVIOUS
  <2>1. MInv'
    BY MNextInv
  <2>2. Session'
    BY SessionNext
  <2> QED
    BY <2>1, <2>2, HistoryNext
<1> QED
  BY <1>1, <1>2, PTL DEF MSpec

\* Where the application's handlers do not call sync(), and do not connect in
\* the emission in which they disconnected: between calls a
\* wrapper that is stopped shows nothing, one that runs shows nothing of an
\* earlier session, and what its bound proxy told is of the object bound
\* (pwg-metadata.c: pwg_metadata_stop(), pwg_metadata_bind(), the generations).
THEOREM CacheIsOfBound ==
  ASSUME "sync" \notin HandlerCalls, "reconnect" \notin Reentry
  PROVE  MSpec => []CacheOfBound
<1>1. MInv /\ Session /\ History => CacheOfBound
  <2> SUFFICES ASSUME MInv, Session, History, ~HasRest(Rests)
               PROVE  /\ ~running => ~bound /\ registry = NULL /\ metadata = NULL /\ entries = {}
                      /\ running => \A x \in entries : x.via > registry
                      /\ \A x \in Told, o \in server :
                           metadata \in Serving(o.serial) => x.of = o.serial
    BY DEF CacheOfBound
  <2>1. ~Holds(stack, "clear")
    BY RestsHeld DEF MInv, Rests
  <2>2. ~running => ~bound /\ registry = NULL /\ metadata = NULL /\ entries = {}
    BY <2>1, NoSession
  <2>3. running => \A x \in entries : x.via > registry
    BY DEF History, EventsOK
  <2>4. ASSUME NEW x \in Told, NEW o \in server, metadata \in Serving(o.serial)
        PROVE  x.of = o.serial
    <3> DEFINE t == [p |-> x.via, o |-> x.of]
    <3>1. t \in Telling /\ t.p = metadata
      BY DEF Telling, Told
    <3>2. PICK u \in subs : u.o = o.serial /\ u.p = metadata
      BY <2>4 DEF Serving
    <3>3. u \in Telling
      BY DEF Telling
    <3>4. t.o = u.o
      BY <3>1, <3>2, <3>3 DEF History, TellsOK
    <3> QED
      BY <3>2, <3>4
  <2> QED
    BY <2>2, <2>3, <2>4
<1> QED
  BY <1>1, HistoryInvariant, PTL

\* Under the same conditions: once the object that a value was told of has
\* gone, the removal is in the socket or in the main context, and will unbind
\* the wrapper (pwg_metadata_on_global_remove()).
THEOREM GoneForgotten ==
  ASSUME "sync" \notin HandlerCalls, "reconnect" \notin Reentry
  PROVE  MSpec => []GoneIsForgotten
<1>1. MInv /\ Session /\ History => GoneIsForgotten
  <2> SUFFICES ASSUME Session, History, bound, link, NEW x \in Told
               PROVE  \/ \E o \in server : o.serial = x.of
                      \/ \E i \in DOMAIN wire : wire[i].kind = "gone" /\ wire[i].id = metadata_id
                      \/ \E i \in DOMAIN mainq : mainq[i].kind = "gone" /\ mainq[i].id = metadata_id
    BY DEF GoneIsForgotten
  <2> DEFINE t == [p |-> x.via, o |-> x.of]
  <2>1. t \in Telling /\ t.p = metadata
    BY DEF Telling, Told
  <2>2. connected
    BY DEF Session
  <2>3. Coming \/ \E o \in server : o.serial = x.of
    BY <2>1, <2>2 DEF History, FollowsOK
  <2> QED
    BY <2>3 DEF Coming, Removals, Removers, Elements
<1> QED
  BY <1>1, HistoryInvariant, PTL
=============================================================================
