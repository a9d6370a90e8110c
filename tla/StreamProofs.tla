---------------------------- MODULE StreamProofs ----------------------------
(***************************************************************************)
(* Proofs about Stream for every set of rates, queue limit, bound and set  *)
(* of calls that handlers make, dispatches inside handlers included.       *)
(***************************************************************************)
EXTENDS Stream, TLAPS

FrameType ==
  [op : {"app", "stop", "dispatch"}, at : {"none", "rate", "peak", "blocks"},
   snap : PendingType, rev : Nat]

-----------------------------------------------------------------------------
(* Types.                                                                  *)

LEMMA NothingType == Nothing \in PendingType
BY StreamAssumption DEF Nothing, NoFormat, NoRate, NoPeak, PendingType, FormatType,
     RateType, PeakType

LEMMA CallType == App \in FrameType /\ Stopping \in FrameType
BY NothingType DEF App, Stopping, Frame, FrameType

\* What a stack of frames looks like after each way of changing it.
LEMMA StackChanges ==
  ASSUME NEW st \in Seq(FrameType), NEW f \in FrameType, NEW g \in FrameType
  PROVE  /\ <<f>> \o st \in Seq(FrameType)
         /\ <<f, g>> \o st \in Seq(FrameType)
         /\ st # <<>> => Head(st) \in FrameType /\ Tail(st) \in Seq(FrameType)
OBVIOUS

LEMMA PostType ==
  ASSUME TypeOK, NEW p \in PendingType, Len(p.blocks) <= MaxPending, Post(p)
  PROVE  /\ pending' \in PendingType /\ Len(pending'.blocks) <= MaxPending
         /\ dispatchPending' \in BOOLEAN /\ sources' \in Nat
BY DEF TypeOK, Post

\* A dispatch goes on with the same snapshot.
LEMMA GoOnType ==
  ASSUME TypeOK, NEW place \in {"peak", "blocks"}, NEW handler \in BOOLEAN,
         TopIs("dispatch"), GoOn(place, handler)
  PROVE  stack' \in Seq(FrameType)
<1> DEFINE f == [Head(stack) EXCEPT !.at = place]
<1>1. stack \in Seq(FrameType) /\ stack # <<>>
  BY DEF TypeOK, FrameType, TopIs
<1>2. Head(stack) \in FrameType /\ Tail(stack) \in Seq(FrameType)
  BY <1>1
<1>3. f \in FrameType
  BY <1>2 DEF FrameType
<1>4. stack' = (IF handler THEN <<App, f>> ELSE <<f>>) \o Tail(stack)
  BY DEF GoOn
<1> QED
  BY <1>2, <1>3, <1>4, StackChanges, CallType

\* The block queue stays within its limit.
LEMMA TrimmedType ==
  ASSUME NEW q \in Seq(BlockType), Len(q) <= MaxPending, NEW b \in BlockType
  PROVE  /\ Trimmed(Append(q, b)) \in Seq(BlockType)
         /\ Len(Trimmed(Append(q, b))) <= MaxPending
<1>1. MaxPending \in Nat /\ MaxPending > 0
  BY StreamAssumption
<1>2. /\ Append(q, b) \in Seq(BlockType)
      /\ Len(Append(q, b)) = Len(q) + 1
  OBVIOUS
<1>3. /\ Tail(Append(q, b)) \in Seq(BlockType)
      /\ Len(Tail(Append(q, b))) = Len(q)
  BY <1>2
<1>4. Len(q) \in Nat
  OBVIOUS
<1> QED
  BY <1>1, <1>2, <1>3, <1>4 DEF Trimmed

-----------------------------------------------------------------------------
LEMMA InitType == Init => TypeOK
<1> SUFFICES ASSUME Init PROVE TypeOK
  OBVIOUS
<1>1. pending \in PendingType /\ Len(pending.blocks) <= MaxPending
  BY NothingType, StreamAssumption DEF Init, Nothing
<1>2. format \in FormatType /\ fmt \in FormatType
  BY DEF Init, NoFormat, FormatType
<1>3. graphRate \in RateType /\ observed \in Rates
  BY StreamAssumption DEF Init, NoRate, RateType
<1>4. level \in PeakType /\ lastBlock \in BlockType
  BY DEF Init, NoPeak, NoBlock, PeakType, BlockType
<1>5. stack \in Seq(FrameType)
  BY DEF Init
<1> QED
  BY <1>1, <1>2, <1>3, <1>4, <1>5 DEF Init, TypeOK, FrameType

LEMMA ParamChangedType == TypeOK /\ ParamChanged => TypeOK'
<1> SUFFICES ASSUME TypeOK, ParamChanged PROVE TypeOK'
  OBVIOUS
<1>1. fmt' \in FormatType
  BY DEF TypeOK, ParamChanged, FormatType
<1> DEFINE p == WithFormat(fmt')
<1>2. p \in PendingType /\ Len(p.blocks) <= MaxPending
  BY <1>1 DEF TypeOK, WithFormat, PendingType
<1>3. Post(p)
  BY DEF ParamChanged
<1>4. /\ pending' \in PendingType /\ Len(pending'.blocks) <= MaxPending
      /\ dispatchPending' \in BOOLEAN /\ sources' \in Nat
  BY <1>2, <1>3, PostType
<1> QED
  BY <1>1, <1>4 DEF TypeOK, ParamChanged, public

LEMMA ProcessType == TypeOK /\ Process => TypeOK'
<1> SUFFICES ASSUME TypeOK, Process PROVE TypeOK'
  OBVIOUS
<1>1. /\ pending' \in PendingType /\ Len(pending'.blocks) <= MaxPending
      /\ dispatchPending' \in BOOLEAN /\ sources' \in Nat
      /\ observed' \in Rates /\ revision' \in Nat
  <2>1. CASE UNCHANGED <<observed, revision, queue>>
    BY <2>1 DEF TypeOK, queue
  <2>2. CASE \E r \in Rates : QueueRate(r)
    <3>1. PICK r \in Rates : QueueRate(r)
      BY <2>2
    <3>2. CASE observed = r
      BY <2>1, <3>1, <3>2 DEF QueueRate
    <3>3. CASE observed # r
      <4> DEFINE p == [pending EXCEPT !.rate = [has |-> TRUE, rate |-> r, of |-> session]]
      <4>1. p \in PendingType /\ Len(p.blocks) <= MaxPending
        BY DEF TypeOK, PendingType, RateType
      <4>2. Post(p) /\ observed' = r /\ revision' = revision + 1
        BY <3>1, <3>3 DEF QueueRate
      <4>3. /\ pending' \in PendingType /\ Len(pending'.blocks) <= MaxPending
            /\ dispatchPending' \in BOOLEAN /\ sources' \in Nat
        BY <4>1, <4>2, PostType
      <4>4. observed' \in Rates /\ revision' \in Nat
        BY <4>2 DEF TypeOK
      <4> QED
        BY <4>3, <4>4
    <3> QED
      BY <3>2, <3>3
  <2> QED
    BY <2>1, <2>2 DEF Process
<1> QED
  BY <1>1 DEF TypeOK, Process, public

LEMMA ProcessSkipsType == TypeOK /\ ProcessSkips => TypeOK'
BY DEF TypeOK, ProcessSkips, public, queue

LEMMA ProcessPeakType == TypeOK /\ ProcessPeak => TypeOK'
<1> SUFFICES ASSUME TypeOK, ProcessPeak PROVE TypeOK'
  OBVIOUS
<1> DEFINE p == WithPeak([buf |-> buf, of |-> session])
<1>1. p \in PendingType /\ Len(p.blocks) <= MaxPending
  BY DEF TypeOK, WithPeak, PendingType, PeakType
<1>2. Post(p)
  BY DEF ProcessPeak
<1>3. /\ pending' \in PendingType /\ Len(pending'.blocks) <= MaxPending
      /\ dispatchPending' \in BOOLEAN /\ sources' \in Nat
  BY <1>1, <1>2, PostType
<1> QED
  BY <1>3 DEF TypeOK, ProcessPeak, public

LEMMA ProcessBlockType == TypeOK /\ ProcessBlock => TypeOK'
<1> SUFFICES ASSUME TypeOK, ProcessBlock PROVE TypeOK'
  OBVIOUS
<1> DEFINE b == [seq |-> nextSeq, buf |-> buf, fmt |-> fmt.n]
           p == [pending EXCEPT !.blocks = Trimmed(Append(pending.blocks, b))]
<1>1. b \in BlockType
  BY DEF TypeOK, FormatType, BlockType
<1>2. pending.blocks \in Seq(BlockType) /\ Len(pending.blocks) <= MaxPending
  BY DEF TypeOK, PendingType
<1>3. p \in PendingType /\ Len(p.blocks) <= MaxPending
  BY <1>1, <1>2, TrimmedType DEF TypeOK, PendingType
<1>4. /\ pending' \in PendingType /\ Len(pending'.blocks) <= MaxPending
      /\ dispatchPending' \in BOOLEAN /\ sources' \in Nat /\ nextSeq' \in Nat
  <2>1. CASE nextSeq' = nextSeq + 1 /\ Post(p)
    <3>1. /\ pending' \in PendingType /\ Len(pending'.blocks) <= MaxPending
          /\ dispatchPending' \in BOOLEAN /\ sources' \in Nat
      BY <1>3, <2>1, PostType
    <3>2. nextSeq' \in Nat
      BY <2>1 DEF TypeOK
    <3> QED
      BY <3>1, <3>2
  <2>2. CASE UNCHANGED <<nextSeq, queue>>
    BY <2>2 DEF TypeOK, queue
  <2> QED
    BY <2>1, <2>2 DEF ProcessBlock
<1> QED
  BY <1>4 DEF TypeOK, ProcessBlock, public

LEMMA ClearPendingType ==
  ASSUME TypeOK, ClearPending
  PROVE  /\ revision' \in Nat /\ observed' \in Rates
         /\ pending' \in PendingType /\ Len(pending'.blocks) <= MaxPending
<1>1. pending' = Nothing /\ observed' = 0 /\ revision' = revision + 1
  BY DEF ClearPending, Cleared, ForgetObserved
<1>2. Nothing.blocks = <<>>
  BY DEF Nothing
<1> QED
  BY <1>1, <1>2, NothingType, StreamAssumption DEF TypeOK

LEMMA StartType == TypeOK /\ Start => TypeOK'
<1> SUFFICES ASSUME TypeOK, Start PROVE TypeOK'
  OBVIOUS
<1>1. CASE running' = TRUE /\ stack' = <<App>> \o stack /\ UNCHANGED <<revision, pending, observed>>
  <2>1. stack' \in Seq(FrameType)
    BY <1>1, CallType, StackChanges DEF TypeOK, FrameType
  <2> QED
    BY <1>1, <2>1 DEF TypeOK, Start, public, FrameType
<1>2. CASE ClearPending /\ UNCHANGED <<running, stack>>
  BY <1>2, ClearPendingType DEF TypeOK, Start, public
<1> QED
  BY <1>1, <1>2 DEF Start

LEMMA StopType == TypeOK /\ Stop => TypeOK'
<1> SUFFICES ASSUME TypeOK, Stop PROVE TypeOK'
  OBVIOUS
<1>1. stack \in Seq(FrameType)
  BY DEF TypeOK, FrameType
<1>2. ClearPending
  BY DEF Stop
<1> DEFINE shown == IF graphRate.rate # 0 THEN <<App>> ELSE <<>>
           ran == IF running THEN <<Stopping>> ELSE <<>>
<1>3. shown \in Seq(FrameType) /\ ran \in Seq(FrameType)
  BY CallType
<1>4. stack' = shown \o ran \o stack
  BY DEF Stop
<1>5. stack' \in Seq(FrameType)
  BY <1>1, <1>3, <1>4
<1>6. graphRate' \in RateType
  BY StreamAssumption DEF Stop, NoRate, RateType
<1> QED
  BY <1>2, <1>5, <1>6, ClearPendingType DEF TypeOK, Stop, FrameType

LEMMA StopNotifiesType == TypeOK /\ StopNotifies => TypeOK'
<1> SUFFICES ASSUME TypeOK, StopNotifies PROVE TypeOK'
  OBVIOUS
<1>1. stack' \in Seq(FrameType)
  BY CallType, StackChanges DEF TypeOK, StopNotifies, TopIs, FrameType
<1> QED
  BY <1>1 DEF TypeOK, StopNotifies, public, queue, thread, FrameType

LEMMA HandlerReturnType == TypeOK /\ HandlerReturn => TypeOK'
<1> SUFFICES ASSUME TypeOK, HandlerReturn PROVE TypeOK'
  OBVIOUS
<1>1. stack' \in Seq(FrameType)
  BY CallType, StackChanges DEF TypeOK, HandlerReturn, TopIs, FrameType
<1> QED
  BY <1>1 DEF TypeOK, HandlerReturn, public, queue, thread, FrameType

LEMMA DispatchType == TypeOK /\ Dispatch => TypeOK'
<1> SUFFICES ASSUME TypeOK, Dispatch PROVE TypeOK'
  OBVIOUS
<1> DEFINE f == Frame("dispatch", "rate", pending, revision)
<1>1. f \in FrameType
  BY DEF TypeOK, Frame, FrameType
<1>2. stack' \in Seq(FrameType)
  <2>1. stack' = <<App, f>> \o stack \/ stack' = <<f>> \o stack
    BY DEF Dispatch, Snapshot
  <2>2. stack \in Seq(FrameType)
    BY DEF TypeOK, FrameType
  <2> HIDE DEF f
  <2> QED
    BY <1>1, <2>1, <2>2, CallType, StackChanges
<1>3. format' \in FormatType
  BY DEF TypeOK, Dispatch, PendingType
<1>4. /\ sources' \in Nat /\ dispatchPending' \in BOOLEAN
      /\ pending' \in PendingType /\ Len(pending'.blocks) <= MaxPending
  <2>1. sources' = sources - 1 /\ sources > 0 /\ dispatchPending' = FALSE /\ pending' = Nothing
    BY DEF Dispatch, Taken
  <2>2. Nothing.blocks = <<>>
    BY DEF Nothing
  <2>3. sources' \in Nat
    BY <2>1 DEF TypeOK
  <2>4. Len(pending'.blocks) <= MaxPending
    BY <2>1, <2>2, StreamAssumption
  <2> QED
    BY <2>1, <2>3, <2>4, NothingType
<1> QED
  BY <1>2, <1>3, <1>4 DEF TypeOK, Dispatch, thread, FrameType

LEMMA DispatchRateType == TypeOK /\ DispatchRate => TypeOK'
<1> SUFFICES ASSUME TypeOK, DispatchRate PROVE TypeOK'
  OBVIOUS
<1> DEFINE f == Head(stack)
           changed == f.snap.rate.has /\ StillCurrent(f)
                        /\ graphRate.rate # f.snap.rate.rate
<1>1. TopIs("dispatch") /\ GoOn("peak", changed)
  BY DEF DispatchRate, At
<1>2. f \in FrameType
  BY <1>1, StackChanges, CallType DEF TopIs, TypeOK, FrameType
<1>3. changed \in BOOLEAN
  BY <1>2 DEF StillCurrent
<1>4. stack' \in Seq(FrameType)
  BY <1>1, <1>3, GoOnType
<1>5. graphRate' \in RateType
  BY <1>2 DEF DispatchRate, TypeOK, FrameType, PendingType
<1> QED
  BY <1>4, <1>5 DEF TypeOK, DispatchRate, queue, thread, FrameType

LEMMA DispatchPeakType == TypeOK /\ DispatchPeak => TypeOK'
<1> SUFFICES ASSUME TypeOK, DispatchPeak PROVE TypeOK'
  OBVIOUS
<1> DEFINE f == Head(stack)
           emits == f.snap.peak.buf # 0 /\ running
<1>1. TopIs("dispatch") /\ GoOn("blocks", emits)
  BY DEF DispatchPeak, At
<1>2. f \in FrameType
  BY <1>1, StackChanges, CallType DEF TopIs, TypeOK, FrameType
<1>3. emits \in BOOLEAN
  OBVIOUS
<1>4. stack' \in Seq(FrameType)
  BY <1>1, <1>3, GoOnType
<1>5. level' \in PeakType
  BY <1>2 DEF DispatchPeak, TypeOK, FrameType, PendingType
<1> QED
  BY <1>4, <1>5 DEF TypeOK, DispatchPeak, queue, thread, FrameType

LEMMA DispatchBlockType == TypeOK /\ DispatchBlock => TypeOK'
<1> SUFFICES ASSUME TypeOK, DispatchBlock PROVE TypeOK'
  OBVIOUS
<1> DEFINE f == Head(stack)
           q == f.snap.blocks
           rest == [f EXCEPT !.snap.blocks = Tail(q)]
<1>1. stack \in Seq(FrameType) /\ stack # <<>>
  BY DEF DispatchBlock, At, TopIs, TypeOK, FrameType
<1>2. f \in FrameType /\ Tail(stack) \in Seq(FrameType)
  BY <1>1
<1>3. f.snap \in PendingType
  BY <1>2 DEF FrameType
<1>4. q \in Seq(BlockType) /\ q # <<>>
  BY <1>3 DEF PendingType, DispatchBlock
<1>5. Head(q) \in BlockType /\ Tail(q) \in Seq(BlockType)
  BY <1>4
<1>6. [f.snap EXCEPT !.blocks = Tail(q)] \in PendingType
  BY <1>3, <1>5 DEF PendingType
<1>7. rest = [f EXCEPT !.snap = [f.snap EXCEPT !.blocks = Tail(q)]]
  OBVIOUS
<1>8. rest \in FrameType
  BY <1>2, <1>6, <1>7 DEF FrameType
<1>9. stack' \in Seq(FrameType)
  <2>1. stack' = (IF running THEN <<App, rest>> ELSE <<rest>>) \o Tail(stack)
    BY DEF DispatchBlock
  <2> QED
    BY <1>2, <1>8, <2>1, CallType, StackChanges
<1>10. lastBlock' \in BlockType
  BY <1>5 DEF DispatchBlock, TypeOK
<1> QED
  BY <1>9, <1>10 DEF TypeOK, DispatchBlock, queue, thread, FrameType

LEMMA DispatchEndType == TypeOK /\ DispatchEnd => TypeOK'
<1> SUFFICES ASSUME TypeOK, DispatchEnd PROVE TypeOK'
  OBVIOUS
<1>1. stack' \in Seq(FrameType)
  BY CallType, StackChanges DEF TypeOK, DispatchEnd, At, TopIs, FrameType
<1> QED
  BY <1>1 DEF TypeOK, DispatchEnd, public, queue, thread, FrameType

LEMMA StutterType == TypeOK /\ UNCHANGED vars => TypeOK'
BY DEF TypeOK, vars, public, queue, thread

\* Every state of the stream is well-typed; the block queue keeps its limit.
THEOREM StreamTypeCorrect == Spec => []TypeOK
<1>1. TypeOK /\ [Next]_vars => TypeOK'
  BY ParamChangedType, ProcessType, ProcessSkipsType, ProcessPeakType,
     ProcessBlockType, StartType, StopType, StopNotifiesType, HandlerReturnType,
     DispatchType, DispatchRateType, DispatchPeakType, DispatchBlockType,
     DispatchEndType, StutterType
     DEF Next, MainStep, ThreadStep
<1> QED
  BY InitType, <1>1, PTL DEF Spec

-----------------------------------------------------------------------------
(* StreamInv.  FramesOfSession says that the stack is made of these.       *)

GoodFrame ==
  {f \in FrameType :
     /\ f.rev <= revision
     /\ f.snap.rate.has /\ f.rev = revision => running /\ f.snap.rate.of = session}

LEMMA FramesAreGood ==
  ASSUME TypeOK, FramesOfSession PROVE stack \in Seq(GoodFrame)
<1>1. stack \in Seq(FrameType)
  BY DEF TypeOK, FrameType
<1>2. \A i \in DOMAIN stack : stack[i] \in GoodFrame
  BY <1>1 DEF FramesOfSession, GoodFrame
<1> QED
  BY <1>1, <1>2

LEMMA GoodAreFramesNext ==
  ASSUME stack' \in Seq(GoodFrame') PROVE FramesOfSession'
<1>1. \A i \in DOMAIN stack' : stack'[i] \in GoodFrame'
  OBVIOUS
<1> QED
  BY <1>1 DEF FramesOfSession, GoodFrame

\* A call that took no snapshot is a good frame at any time.
LEMMA CallIsGood ==
  ASSUME revision \in Nat PROVE App \in GoodFrame /\ Stopping \in GoodFrame
BY CallType DEF App, Stopping, Frame, Nothing, NoRate, GoodFrame

LEMMA SeqOfMore ==
  ASSUME NEW S, NEW T, S \subseteq T, NEW q \in Seq(S) PROVE q \in Seq(T)
OBVIOUS

LEMMA GoodStacks ==
  ASSUME NEW S, NEW st \in Seq(S), NEW f \in S, NEW g \in S
  PROVE  /\ <<f>> \o st \in Seq(S)
         /\ <<f, g>> \o st \in Seq(S)
         /\ st # <<>> => Head(st) \in S /\ Tail(st) \in Seq(S)
OBVIOUS

\* What a step leaves good: all frames when neither session nor revision
\* change, or when a session begins; those below a new revision.
LEMMA GoodSame ==
  ASSUME UNCHANGED <<running, session, revision>>
  PROVE  GoodFrame' = GoodFrame
BY DEF GoodFrame

LEMMA GoodOnStart ==
  ASSUME TypeOK, ~running, running' = TRUE, revision' = revision
  PROVE  GoodFrame \subseteq GoodFrame'
BY DEF GoodFrame

LEMMA GoodOnRevision ==
  ASSUME TypeOK, revision' = revision + 1
  PROVE  GoodFrame \subseteq GoodFrame'
<1> SUFFICES ASSUME NEW f \in GoodFrame PROVE f \in GoodFrame'
  OBVIOUS
<1>1. f \in FrameType /\ f.rev \in Nat /\ f.rev <= revision /\ revision \in Nat
  BY DEF GoodFrame, FrameType, TypeOK
<1>2. f.rev <= revision' /\ f.rev # revision'
  BY <1>1
<1> QED
  BY <1>1, <1>2 DEF GoodFrame

-----------------------------------------------------------------------------
\* Posting keeps flag and source together.
LEMMA PostScheduled ==
  ASSUME TypeOK, Scheduled, NEW p, Post(p) PROVE Scheduled'
BY DEF TypeOK, Scheduled, Post

LEMMA QueueUnchanged ==
  ASSUME StreamInv, UNCHANGED <<running, session, queue>>, UNCHANGED nextSeq
  PROVE  Scheduled' /\ PendingOfSession' /\ QueueIsNewest'
BY DEF StreamInv, Scheduled, PendingOfSession, QueueIsNewest, queue

LEMMA InitInv == Init => StreamInv
<1> SUFFICES ASSUME Init PROVE StreamInv
  OBVIOUS
<1>1. Scheduled /\ PendingOfSession /\ QueueIsNewest
  BY DEF Init, Scheduled, PendingOfSession, QueueIsNewest, Nothing, NoFormat, NoRate
<1>2. FramesOfSession
  BY DEF Init, FramesOfSession
<1>3. RateOfSession
  BY DEF Init, RateOfSession, NoRate
<1> QED
  BY <1>1, <1>2, <1>3 DEF StreamInv

\* Steps of the PipeWire thread that post and open no revision.
LEMMA PostInv ==
  ASSUME TypeOK, StreamInv, NEW p, Post(p),
         UNCHANGED <<running, session, revision, graphRate, stack>>,
         p.rate = pending.rate,
         p.format.n # 0 => running /\ p.format.of = session,
         \A i \in DOMAIN p.blocks : p.blocks[i].seq = nextSeq' - Len(p.blocks) + i - 1
  PROVE  StreamInv'
<1>1. Scheduled'
  BY PostScheduled DEF StreamInv
<1>2. PendingOfSession'
  BY DEF StreamInv, PendingOfSession, Post
<1>3. FramesOfSession'
  BY DEF StreamInv, FramesOfSession
<1>4. RateOfSession'
  BY DEF StreamInv, RateOfSession
<1>5. QueueIsNewest'
  BY DEF QueueIsNewest, Post
<1> QED
  BY <1>1, <1>2, <1>3, <1>4, <1>5 DEF StreamInv

LEMMA ParamChangedInv == TypeOK /\ StreamInv /\ ParamChanged => StreamInv'
<1> SUFFICES ASSUME TypeOK, StreamInv, ParamChanged PROVE StreamInv'
  OBVIOUS
<1> DEFINE p == WithFormat(fmt')
<1>1. Post(p) /\ running /\ fmt'.of = session /\ UNCHANGED nextSeq
  BY DEF ParamChanged
<1>2. UNCHANGED <<running, session, revision, graphRate, stack>>
  BY DEF ParamChanged, public
<1>3. p.rate = pending.rate /\ p.blocks = pending.blocks /\ p.format = fmt'
  BY DEF WithFormat, TypeOK, PendingType
<1>4. \A i \in DOMAIN p.blocks : p.blocks[i].seq = nextSeq' - Len(p.blocks) + i - 1
  BY <1>1, <1>3 DEF StreamInv, QueueIsNewest
<1> HIDE DEF p
<1> QED
  BY <1>1, <1>2, <1>3, <1>4, PostInv

LEMMA ProcessInv == TypeOK /\ StreamInv /\ Process => StreamInv'
<1> SUFFICES ASSUME TypeOK, StreamInv, Process PROVE StreamInv'
  OBVIOUS
<1>1. running /\ UNCHANGED <<running, session, graphRate, stack, nextSeq>>
  BY DEF Process, public
<1>2. CASE UNCHANGED <<revision, queue>>
  <2>1. Scheduled' /\ PendingOfSession' /\ QueueIsNewest'
    BY <1>1, <1>2, QueueUnchanged
  <2> QED
    BY <1>1, <1>2, <2>1 DEF StreamInv, FramesOfSession, RateOfSession
<1>3. ASSUME NEW r \in Rates, QueueRate(r), observed # r
      PROVE  StreamInv'
  <2> DEFINE p == [pending EXCEPT !.rate = [has |-> TRUE, rate |-> r, of |-> session]]
  <2>1. Post(p) /\ revision' = revision + 1
    BY <1>3 DEF QueueRate
  <2>2. p.rate.of = session /\ p.format = pending.format /\ p.blocks = pending.blocks
    BY DEF TypeOK, PendingType
  <2> HIDE DEF p
  <2>3. Scheduled'
    BY <2>1, PostScheduled DEF StreamInv
  <2>4. PendingOfSession'
    BY <1>1, <2>1, <2>2 DEF StreamInv, PendingOfSession, Post
  <2>5. FramesOfSession'
    <3>1. stack' \in Seq(GoodFrame')
      BY <1>1, <2>1, FramesAreGood, GoodOnRevision, SeqOfMore DEF StreamInv
    <3> QED
      BY <3>1, GoodAreFramesNext
  <2>6. RateOfSession'
    BY <1>1 DEF StreamInv, RateOfSession
  <2>7. QueueIsNewest'
    BY <1>1, <2>1, <2>2 DEF StreamInv, QueueIsNewest, Post
  <2> QED
    BY <2>3, <2>4, <2>5, <2>6, <2>7 DEF StreamInv
<1> QED
  BY <1>2, <1>3 DEF Process, QueueRate

LEMMA ProcessSkipsInv == TypeOK /\ StreamInv /\ ProcessSkips => StreamInv'
<1> SUFFICES ASSUME TypeOK, StreamInv, ProcessSkips PROVE StreamInv'
  OBVIOUS
<1>1. Scheduled' /\ PendingOfSession' /\ QueueIsNewest'
  BY QueueUnchanged DEF ProcessSkips
<1> QED
  BY <1>1 DEF StreamInv, ProcessSkips, public, FramesOfSession, RateOfSession

LEMMA ProcessPeakInv == TypeOK /\ StreamInv /\ ProcessPeak => StreamInv'
<1> SUFFICES ASSUME TypeOK, StreamInv, ProcessPeak PROVE StreamInv'
  OBVIOUS
<1> DEFINE p == WithPeak([buf |-> buf, of |-> session])
<1>1. Post(p) /\ UNCHANGED nextSeq
  BY DEF ProcessPeak
<1>2. UNCHANGED <<running, session, revision, graphRate, stack>>
  BY DEF ProcessPeak, public
<1>3. p.rate = pending.rate /\ p.blocks = pending.blocks /\ p.format = pending.format
  BY DEF WithPeak, TypeOK, PendingType
<1>4. \A i \in DOMAIN p.blocks : p.blocks[i].seq = nextSeq' - Len(p.blocks) + i - 1
  BY <1>1, <1>3 DEF StreamInv, QueueIsNewest
<1>5. p.format.n # 0 => running /\ p.format.of = session
  BY <1>3 DEF StreamInv, PendingOfSession
<1> HIDE DEF p
<1> QED
  BY <1>1, <1>2, <1>3, <1>4, <1>5, PostInv

\* Adding a block and dropping the oldest keeps the newest without a gap.
LEMMA TrimmedIsNewest ==
  ASSUME NEW q \in Seq(BlockType), NEW n \in Nat, NEW b \in BlockType,
         b.seq = n, \A i \in DOMAIN q : q[i].seq = n - Len(q) + i - 1
  PROVE  LET t == Trimmed(Append(q, b))
         IN  \A i \in DOMAIN t : t[i].seq = n + 1 - Len(t) + i - 1
<1> DEFINE a == Append(q, b)
<1>1. a \in Seq(BlockType) /\ Len(a) = Len(q) + 1 /\ Len(q) \in Nat
  OBVIOUS
<1>2. ASSUME NEW i \in DOMAIN a PROVE a[i].seq = n - Len(q) + i - 1
  <2>1. i \in 1..(Len(q) + 1)
    BY <1>1
  <2>2. CASE i = Len(q) + 1
    <3>1. a[i] = b
      BY <2>2
    <3>2. a[i].seq = n
      BY <3>1
    <3>3. n - Len(q) + i - 1 = n
      <4> HIDE DEF a
      <4> QED
        BY <1>1, <2>2
    <3> QED
      BY <3>2, <3>3
  <2>3. CASE i \in 1..Len(q)
    BY <2>3
  <2> QED
    BY <1>1, <2>1, <2>2, <2>3
<1>3. CASE Trimmed(a) = a
  BY <1>1, <1>2, <1>3
<1>4. CASE Trimmed(a) = Tail(a)
  <2>1. Len(Tail(a)) = Len(q) /\ DOMAIN Tail(a) = 1..Len(q)
    BY <1>1
  <2>2. ASSUME NEW i \in 1..Len(q)
        PROVE  Tail(a)[i].seq = n + 1 - Len(q) + i - 1
    <3>1. Tail(a)[i] = a[i + 1] /\ i + 1 \in DOMAIN a
      BY <1>1
    <3>2. Tail(a)[i].seq = n - Len(q) + (i + 1) - 1
      BY <1>2, <3>1
    <3>3. n - Len(q) + (i + 1) - 1 = n + 1 - Len(q) + i - 1
      <4> HIDE DEF a
      <4> QED
        BY <1>1
    <3> QED
      BY <3>2, <3>3
  <2> QED
    BY <1>4, <2>1, <2>2
<1> QED
  BY <1>3, <1>4 DEF Trimmed

LEMMA ProcessBlockInv == TypeOK /\ StreamInv /\ ProcessBlock => StreamInv'
<1> SUFFICES ASSUME TypeOK, StreamInv, ProcessBlock PROVE StreamInv'
  OBVIOUS
<1> DEFINE b == [seq |-> nextSeq, buf |-> buf, fmt |-> fmt.n]
           t == Trimmed(Append(pending.blocks, b))
           p == [pending EXCEPT !.blocks = t]
<1>1. UNCHANGED <<running, session, revision, graphRate, stack>>
  BY DEF ProcessBlock, public
<1>2. CASE nextSeq' = nextSeq + 1 /\ Post(p)
  <2>1. p.rate = pending.rate /\ p.format = pending.format /\ p.blocks = t
    <3> HIDE DEF t
    <3> QED
      BY DEF TypeOK, PendingType
  <2>2. pending.blocks \in Seq(BlockType) /\ b \in BlockType /\ b.seq = nextSeq /\ nextSeq \in Nat
    BY DEF TypeOK, PendingType, FormatType, BlockType
  <2>3. \A i \in DOMAIN pending.blocks :
          pending.blocks[i].seq = nextSeq - Len(pending.blocks) + i - 1
    BY DEF StreamInv, QueueIsNewest
  <2>4. \A i \in DOMAIN t : t[i].seq = nextSeq + 1 - Len(t) + i - 1
    BY <2>2, <2>3, TrimmedIsNewest
  <2>5. \A i \in DOMAIN p.blocks : p.blocks[i].seq = nextSeq' - Len(p.blocks) + i - 1
    <3>1. nextSeq' = nextSeq + 1
      BY <1>2
    <3>2. p.blocks = t
      BY <2>1
    <3>3. t \in Seq(BlockType)
      BY <2>2 DEF Trimmed
    <3> HIDE DEF p, t
    <3>4. \A i \in DOMAIN t : t[i].seq = nextSeq' - Len(t) + i - 1
      BY <2>2, <2>4, <3>1, <3>3
    <3> QED
      BY <3>2, <3>4
  <2>6. p.format.n # 0 => running /\ p.format.of = session
    BY <2>1 DEF StreamInv, PendingOfSession
  <2>7. Post(p)
    BY <1>2
  <2> HIDE DEF p
  <2> QED
    BY <1>1, <2>1, <2>5, <2>6, <2>7, PostInv
<1>3. CASE UNCHANGED <<nextSeq, queue>>
  <2>1. Scheduled' /\ PendingOfSession' /\ QueueIsNewest'
    BY <1>1, <1>3, QueueUnchanged
  <2> QED
    BY <1>1, <2>1 DEF StreamInv, FramesOfSession, RateOfSession
<1> QED
  BY <1>2, <1>3 DEF ProcessBlock

-----------------------------------------------------------------------------
\* What clearing establishes, the flag and the source being left alone.
LEMMA ClearPendingInv ==
  ASSUME TypeOK, StreamInv, ClearPending, UNCHANGED <<dispatchPending, sources, nextSeq>>
  PROVE  Scheduled' /\ PendingOfSession' /\ QueueIsNewest'
<1>1. pending' = Nothing
  BY DEF ClearPending, Cleared
<1> QED
  BY <1>1 DEF StreamInv, Scheduled, PendingOfSession, QueueIsNewest, Nothing,
              NoFormat, NoRate

LEMMA StartInv == TypeOK /\ StreamInv /\ Start => StreamInv'
<1> SUFFICES ASSUME TypeOK, StreamInv, Start PROVE StreamInv'
  OBVIOUS
<1>1. ~running /\ UNCHANGED <<graphRate, dispatchPending, sources, nextSeq>>
  BY DEF Start, public
<1>2. graphRate.rate = 0
  BY <1>1 DEF StreamInv, RateOfSession
<1>3. RateOfSession'
  BY <1>1, <1>2 DEF RateOfSession
<1>4. stack \in Seq(GoodFrame)
  BY FramesAreGood DEF StreamInv
<1>5. CASE running' = TRUE /\ stack' = <<App>> \o stack /\ UNCHANGED <<revision, pending, observed>>
  <2>1. Scheduled'
    BY <1>1, <1>5 DEF StreamInv, Scheduled
  <2>2. PendingOfSession'
    BY <1>1, <1>5 DEF StreamInv, PendingOfSession
  <2>3. QueueIsNewest'
    BY <1>1, <1>5 DEF StreamInv, QueueIsNewest
  <2>4. stack' \in Seq(GoodFrame')
    <3>1. stack' \in Seq(GoodFrame)
      BY <1>4, <1>5, CallIsGood, GoodStacks DEF TypeOK
    <3> QED
      BY <1>1, <1>5, <3>1, GoodOnStart, SeqOfMore
  <2> QED
    BY <1>3, <2>1, <2>2, <2>3, <2>4, GoodAreFramesNext DEF StreamInv
<1>6. CASE ClearPending /\ UNCHANGED <<running, stack>>
  <2>1. Scheduled' /\ PendingOfSession' /\ QueueIsNewest'
    BY <1>1, <1>6, ClearPendingInv
  <2>2. revision' = revision + 1
    BY <1>6 DEF ClearPending
  <2>3. stack' \in Seq(GoodFrame')
    BY <1>4, <1>6, <2>2, GoodOnRevision, SeqOfMore
  <2> QED
    BY <1>3, <2>1, <2>3, GoodAreFramesNext DEF StreamInv
<1> QED
  BY <1>5, <1>6 DEF Start

LEMMA StopInv == TypeOK /\ StreamInv /\ Stop => StreamInv'
<1> SUFFICES ASSUME TypeOK, StreamInv, Stop PROVE StreamInv'
  OBVIOUS
<1>1. ClearPending /\ graphRate' = NoRate /\ UNCHANGED <<dispatchPending, sources, nextSeq>>
  BY DEF Stop
<1>2. Scheduled' /\ PendingOfSession' /\ QueueIsNewest'
  BY <1>1, ClearPendingInv
<1>3. RateOfSession'
  BY <1>1 DEF RateOfSession, NoRate
<1>4. stack' \in Seq(GoodFrame')
  <2>1. stack \in Seq(GoodFrame) /\ App \in GoodFrame /\ Stopping \in GoodFrame
    BY FramesAreGood, CallIsGood DEF StreamInv, TypeOK
  <2> DEFINE shown == IF graphRate.rate # 0 THEN <<App>> ELSE <<>>
             ran == IF running THEN <<Stopping>> ELSE <<>>
  <2>2. shown \in Seq(GoodFrame) /\ ran \in Seq(GoodFrame)
    BY <2>1
  <2>3. stack' = shown \o ran \o stack
    BY DEF Stop
  <2>4. stack' \in Seq(GoodFrame)
    BY <2>1, <2>2, <2>3
  <2>5. revision' = revision + 1
    BY <1>1 DEF ClearPending
  <2> QED
    BY <2>4, <2>5, GoodOnRevision, SeqOfMore
<1> QED
  BY <1>2, <1>3, <1>4, GoodAreFramesNext DEF StreamInv

-----------------------------------------------------------------------------
\* Steps of the main thread that leave session, revision and queue alone.
LEMMA MainInv ==
  ASSUME TypeOK, StreamInv, UNCHANGED <<running, session, revision, queue, nextSeq>>,
         stack' \in Seq(GoodFrame), RateOfSession'
  PROVE  StreamInv'
<1>1. Scheduled' /\ PendingOfSession' /\ QueueIsNewest'
  BY QueueUnchanged
<1>2. stack' \in Seq(GoodFrame')
  BY GoodSame
<1> QED
  BY <1>1, <1>2, GoodAreFramesNext DEF StreamInv

LEMMA GoOnGood ==
  ASSUME TypeOK, StreamInv, NEW place \in {"peak", "blocks"}, NEW handler \in BOOLEAN,
         TopIs("dispatch"), GoOn(place, handler)
  PROVE  stack' \in Seq(GoodFrame)
<1> DEFINE f == [Head(stack) EXCEPT !.at = place]
<1>1. stack \in Seq(GoodFrame) /\ stack # <<>>
  BY FramesAreGood DEF StreamInv, TopIs
<1>2. Head(stack) \in GoodFrame /\ Tail(stack) \in Seq(GoodFrame)
  BY <1>1
<1>3. f \in FrameType /\ f.rev = Head(stack).rev /\ f.snap = Head(stack).snap
  BY <1>2 DEF GoodFrame, FrameType
<1>4. f \in GoodFrame
  BY <1>2, <1>3 DEF GoodFrame
<1>5. App \in GoodFrame
  BY CallIsGood DEF TypeOK
<1>6. stack' = (IF handler THEN <<App, f>> ELSE <<f>>) \o Tail(stack)
  BY DEF GoOn
<1> HIDE DEF f
<1> QED
  BY <1>2, <1>4, <1>5, <1>6, GoodStacks

LEMMA StopNotifiesInv == TypeOK /\ StreamInv /\ StopNotifies => StreamInv'
<1> SUFFICES ASSUME TypeOK, StreamInv, StopNotifies PROVE StreamInv'
  OBVIOUS
<1>1. stack' \in Seq(GoodFrame)
  BY FramesAreGood, CallIsGood, GoodStacks DEF StreamInv, StopNotifies, TopIs, TypeOK
<1>2. RateOfSession'
  BY DEF StreamInv, RateOfSession, StopNotifies, public
<1> QED
  BY <1>1, <1>2, MainInv DEF StopNotifies, thread

LEMMA HandlerReturnInv == TypeOK /\ StreamInv /\ HandlerReturn => StreamInv'
<1> SUFFICES ASSUME TypeOK, StreamInv, HandlerReturn PROVE StreamInv'
  OBVIOUS
<1>1. stack' \in Seq(GoodFrame)
  BY FramesAreGood, CallIsGood, GoodStacks DEF StreamInv, HandlerReturn, TopIs, TypeOK
<1>2. RateOfSession'
  BY DEF StreamInv, RateOfSession, HandlerReturn, public
<1> QED
  BY <1>1, <1>2, MainInv DEF HandlerReturn, thread

\* The snapshot is of the session that runs now, under the present revision.
LEMMA DispatchInv == TypeOK /\ StreamInv /\ Dispatch => StreamInv'
<1> SUFFICES ASSUME TypeOK, StreamInv, Dispatch PROVE StreamInv'
  OBVIOUS
<1> DEFINE f == Frame("dispatch", "rate", pending, revision)
<1>1. /\ sources' = sources - 1 /\ sources > 0
      /\ dispatchPending' = FALSE /\ pending' = Nothing
      /\ UNCHANGED <<running, session, revision, graphRate, nextSeq>>
  BY DEF Dispatch, Taken, thread
<1>2. Scheduled'
  BY <1>1 DEF StreamInv, Scheduled
<1>3. PendingOfSession'
  BY <1>1 DEF PendingOfSession, Nothing, NoFormat, NoRate
<1>4. QueueIsNewest'
  BY <1>1 DEF QueueIsNewest, Nothing
<1>5. RateOfSession'
  BY <1>1 DEF StreamInv, RateOfSession
<1>6. f \in GoodFrame
  <2>1. f \in FrameType
    BY DEF TypeOK, Frame, FrameType
  <2>2. f.rev = revision /\ f.snap = pending /\ revision \in Nat
    BY DEF Frame, TypeOK
  <2>3. f.snap.rate.has => running /\ f.snap.rate.of = session
    BY <2>2 DEF StreamInv, PendingOfSession
  <2> QED
    BY <2>1, <2>2, <2>3 DEF GoodFrame
<1>7. stack' = <<App, f>> \o stack \/ stack' = <<f>> \o stack
  BY DEF Dispatch, Snapshot
<1>8. stack \in Seq(GoodFrame) /\ App \in GoodFrame
  BY FramesAreGood, CallIsGood DEF StreamInv, TypeOK
<1> HIDE DEF f
<1>9. stack' \in Seq(GoodFrame')
  BY <1>1, <1>6, <1>7, <1>8, GoodStacks, GoodSame
<1> QED
  BY <1>2, <1>3, <1>4, <1>5, <1>9, GoodAreFramesNext DEF StreamInv

\* The only step that publishes a rate: its frame is of this revision.
LEMMA DispatchRateInv == TypeOK /\ StreamInv /\ DispatchRate => StreamInv'
<1> SUFFICES ASSUME TypeOK, StreamInv, DispatchRate PROVE StreamInv'
  OBVIOUS
<1> DEFINE f == Head(stack)
           changed == f.snap.rate.has /\ StillCurrent(f)
                        /\ graphRate.rate # f.snap.rate.rate
<1>1. TopIs("dispatch") /\ GoOn("peak", changed)
  BY DEF DispatchRate, At
<1>2. f \in GoodFrame
  BY <1>1, FramesAreGood, CallIsGood, GoodStacks DEF StreamInv, TypeOK, TopIs
<1>3. changed \in BOOLEAN
  BY <1>2 DEF StillCurrent
<1>4. stack' \in Seq(GoodFrame)
  BY <1>1, <1>3, GoOnGood
<1>5. /\ UNCHANGED <<running, session, revision, queue, nextSeq>>
      /\ graphRate' = IF changed THEN f.snap.rate ELSE graphRate
  BY DEF DispatchRate, thread
<1>6. RateOfSession'
  <2>1. CASE changed
    BY <1>2, <1>5, <2>1 DEF RateOfSession, StillCurrent, GoodFrame
  <2>2. CASE ~changed
    BY <1>5, <2>2 DEF StreamInv, RateOfSession
  <2> QED
    BY <2>1, <2>2
<1> QED
  BY <1>4, <1>5, <1>6, MainInv

LEMMA DispatchPeakInv == TypeOK /\ StreamInv /\ DispatchPeak => StreamInv'
<1> SUFFICES ASSUME TypeOK, StreamInv, DispatchPeak PROVE StreamInv'
  OBVIOUS
<1> DEFINE emits == Head(stack).snap.peak.buf # 0 /\ running
<1>1. TopIs("dispatch") /\ GoOn("blocks", emits)
  BY DEF DispatchPeak, At
<1>2. stack' \in Seq(GoodFrame)
  BY <1>1, GoOnGood DEF TypeOK
<1>3. UNCHANGED <<running, session, revision, graphRate, queue, nextSeq>>
  BY DEF DispatchPeak, thread
<1>4. RateOfSession'
  BY <1>3 DEF StreamInv, RateOfSession
<1> QED
  BY <1>2, <1>3, <1>4, MainInv

LEMMA DispatchBlockInv == TypeOK /\ StreamInv /\ DispatchBlock => StreamInv'
<1> SUFFICES ASSUME TypeOK, StreamInv, DispatchBlock PROVE StreamInv'
  OBVIOUS
<1> DEFINE f == Head(stack)
           q == f.snap.blocks
           rest == [f EXCEPT !.snap.blocks = Tail(q)]
<1>1. stack \in Seq(GoodFrame) /\ stack # <<>> /\ q # <<>>
  BY FramesAreGood DEF StreamInv, DispatchBlock, At, TopIs
<1>2. f \in GoodFrame /\ Tail(stack) \in Seq(GoodFrame) /\ App \in GoodFrame
  BY <1>1, CallIsGood DEF TypeOK
<1>3. f \in FrameType /\ f.snap \in PendingType
  BY <1>2 DEF GoodFrame, FrameType
<1>4. Tail(q) \in Seq(BlockType)
  BY <1>1, <1>3 DEF PendingType
<1>5. [f.snap EXCEPT !.blocks = Tail(q)] \in PendingType
  BY <1>3, <1>4 DEF PendingType
<1>6. rest = [f EXCEPT !.snap = [f.snap EXCEPT !.blocks = Tail(q)]]
  OBVIOUS
<1>7. rest \in FrameType /\ rest.rev = f.rev /\ rest.snap.rate = f.snap.rate
  BY <1>3, <1>5, <1>6 DEF FrameType, PendingType
<1>8. rest \in GoodFrame
  BY <1>2, <1>7 DEF GoodFrame
<1>9. stack' = (IF running THEN <<App, rest>> ELSE <<rest>>) \o Tail(stack)
  BY DEF DispatchBlock
<1> HIDE DEF rest
<1>10. stack' \in Seq(GoodFrame)
  BY <1>2, <1>8, <1>9, GoodStacks
<1>11. UNCHANGED <<running, session, revision, graphRate, queue, nextSeq>>
  BY DEF DispatchBlock, thread
<1>12. RateOfSession'
  BY <1>11 DEF StreamInv, RateOfSession
<1> QED
  BY <1>10, <1>11, <1>12, MainInv

LEMMA DispatchEndInv == TypeOK /\ StreamInv /\ DispatchEnd => StreamInv'
<1> SUFFICES ASSUME TypeOK, StreamInv, DispatchEnd PROVE StreamInv'
  OBVIOUS
<1>1. stack' \in Seq(GoodFrame)
  BY FramesAreGood, CallIsGood, GoodStacks DEF StreamInv, DispatchEnd, At, TopIs, TypeOK
<1>2. RateOfSession'
  BY DEF StreamInv, RateOfSession, DispatchEnd, public
<1> QED
  BY <1>1, <1>2, MainInv DEF DispatchEnd, thread

LEMMA StutterInv == StreamInv /\ UNCHANGED vars => StreamInv'
BY DEF StreamInv, Scheduled, PendingOfSession, FramesOfSession, RateOfSession,
       QueueIsNewest, vars, public, queue, thread

LEMMA StreamInvariant == Spec => [](TypeOK /\ StreamInv)
<1>1. TypeOK /\ StreamInv /\ [Next]_vars => StreamInv'
  BY ParamChangedInv, ProcessInv, ProcessSkipsInv, ProcessPeakInv, ProcessBlockInv,
     StartInv, StopInv, StopNotifiesInv, HandlerReturnInv, DispatchInv,
     DispatchRateInv, DispatchPeakInv, DispatchBlockInv, DispatchEndInv, StutterInv
     DEF Next, MainStep, ThreadStep
<1>2. Spec => []TypeOK
  BY StreamTypeCorrect
<1> QED
  BY InitInv, <1>1, <1>2, PTL DEF Spec

\* No observation is stranded, whatever handlers call and whenever the
\* thread posts (pwg-stream.c:317-335).
THEOREM NothingIsStranded == Spec => []NothingStranded
<1>1. StreamInv => NothingStranded
  BY DEF StreamInv, Scheduled, NothingStranded
<1> QED
  BY StreamInvariant, <1>1, PTL

\* A graph rate is never shown by a stream that does not run, and never that
\* of an earlier session (pwg-stream.c:293-301).
THEOREM RateIsOfSession == Spec => []RateOfSession
<1>1. StreamInv => RateOfSession
  BY DEF StreamInv
<1> QED
  BY StreamInvariant, <1>1, PTL

\* The queue is always the newest blocks without a gap (pwg-stream.c:405-412).
THEOREM QueueKeepsNewest == Spec => []QueueIsNewest
<1>1. StreamInv => QueueIsNewest
  BY DEF StreamInv
<1> QED
  BY StreamInvariant, <1>1, PTL

\* No format of an ended session is published (pwg-stream.c:1062).
THEOREM FormatIsFresh == Spec => FormatFresh
<1>1. StreamInv /\ [Next]_vars => [format' # format => running /\ format'.of = session]_vars
  <2> SUFFICES ASSUME StreamInv, Next, format' # format
               PROVE  running /\ format'.of = session
    OBVIOUS
  <2>1. Dispatch
    BY DEF Next, MainStep, ThreadStep, Start, Stop, ParamChanged, Process, ProcessSkips,
           ProcessPeak, ProcessBlock, StopNotifies, HandlerReturn, DispatchRate,
           DispatchPeak, DispatchBlock, DispatchEnd, public
  <2> QED
    BY <2>1 DEF Dispatch, StreamInv, PendingOfSession
<1> QED
  BY StreamInvariant, <1>1, PTL DEF Spec, FormatFresh

-----------------------------------------------------------------------------
(* The order of what reaches the application: formats, peaks and blocks    *)
(* are followed from the thread through pending and the dispatches that    *)
(* are under way.                                                          *)

\* The dispatches suspended on a stack, and that there is one at most.
Suspended(st) == {st[i] : i \in {j \in DOMAIN st : st[j].op = "dispatch"}}

Alone(st) ==
  \A i, j \in DOMAIN st : i < j /\ st[i].op = "dispatch" => st[j].op # "dispatch"

Dispatches == Suspended(stack)

\* A dispatch that has yet to come to the peak of its snapshot.
Unshown(f) == f.at \in {"rate", "peak"}

\* The buffers whose peak, or that of a later one, was emitted or is on its way.
Announced ==
  {n \in Nat :
     \/ n <= level.buf
     \/ n <= pending.peak.buf
     \/ \E f \in Dispatches : Unshown(f) /\ n <= f.snap.peak.buf}

\* A thread in its callback has a format that is published or pending; stop()
\* waits for it, and what it left goes with it.
ThreadRuns ==
  /\ fmt.of <= session /\ format.n <= fmt.n
  /\ pc # "idle" => running /\ Negotiated
  /\ pending.format.n = 0 \/ pending.format.n = fmt.n
  /\ running /\ Negotiated /\ pending.format.n = 0 => format.n = fmt.n
  /\ pending.blocks # <<>> => running
  /\ \A f \in Dispatches : f.at \in {"rate", "peak", "blocks"}

\* The format of a block is published no later than the block's dispatch.
FormatOrder ==
  /\ \A i \in DOMAIN pending.blocks :
       \/ pending.blocks[i].fmt <= format.n
       \/ pending.blocks[i].fmt <= pending.format.n
  /\ \A f \in Dispatches :
       \A i \in DOMAIN f.snap.blocks : f.snap.blocks[i].fmt <= format.n
  /\ FormatBeforeBlock

\* Peaks only grow on their way from the thread to the application.
PeakOrder ==
  /\ level.buf <= buf /\ pending.peak.buf <= buf
  /\ pending.peak.buf # 0 => level.buf <= pending.peak.buf
  /\ \A f \in Dispatches :
       /\ f.snap.peak.buf <= buf
       /\ pending.peak.buf # 0 => f.snap.peak.buf <= pending.peak.buf
       /\ Unshown(f) /\ f.snap.peak.buf # 0 => level.buf <= f.snap.peak.buf

\* A block whose peak was passed over, the stream having stopped, is passed
\* over as well: no handler that could start it again runs in between.
LevelOrder ==
  /\ pc = "block" => buf \in Announced
  /\ \A i \in DOMAIN pending.blocks : pending.blocks[i].buf \in Announced
  /\ \A f \in Dispatches : \A i \in DOMAIN f.snap.blocks :
       \/ f.snap.blocks[i].buf <= level.buf
       \/ Unshown(f) /\ f.snap.blocks[i].buf <= f.snap.peak.buf
       \/ f.at = "blocks" /\ ~running /\ TopIs("dispatch")
  /\ lastBlock.buf <= level.buf

\* The blocks of a dispatch are newer than the last one emitted, ascend, and
\* are older than those pending.
BlockOrder ==
  /\ lastBlock.seq < nextSeq - Len(pending.blocks)
  /\ \A f \in Dispatches :
       /\ \A i \in DOMAIN f.snap.blocks :
            /\ lastBlock.seq < f.snap.blocks[i].seq
            /\ f.snap.blocks[i].seq < nextSeq - Len(pending.blocks)
       /\ \A i, j \in DOMAIN f.snap.blocks :
            i < j => f.snap.blocks[i].seq < f.snap.blocks[j].seq

OneAtATime == Alone(stack) /\ PeakOrder /\ LevelOrder /\ BlockOrder

OrderInv == ThreadRuns /\ FormatOrder /\ (nested \/ OneAtATime)

-----------------------------------------------------------------------------
(* Stacks and the dispatches on them.                                      *)

\* A frame on top of a stack.
LEMMA SuspendedOn ==
  ASSUME NEW st \in Seq(FrameType), NEW f \in FrameType
  PROVE  Suspended(<<f>> \o st)
           = (IF f.op = "dispatch" THEN {f} ELSE {}) \cup Suspended(st)
<1> DEFINE new == <<f>> \o st
<1>1. new \in Seq(FrameType) /\ Len(new) = Len(st) + 1 /\ new[1] = f /\ Len(st) \in Nat
  OBVIOUS
<1>2. \A i \in 1..Len(st) : new[i + 1] = st[i]
  OBVIOUS
<1>3. DOMAIN new = 1..(Len(st) + 1) /\ DOMAIN st = 1..Len(st)
  BY <1>1
<1> HIDE DEF new
<1>4. ASSUME NEW g \in Suspended(new)
      PROVE  g \in (IF f.op = "dispatch" THEN {f} ELSE {}) \cup Suspended(st)
  <2>1. PICK i \in DOMAIN new : new[i].op = "dispatch" /\ g = new[i]
    BY DEF Suspended
  <2>2. CASE i = 1
    BY <1>1, <2>1, <2>2
  <2>3. CASE i # 1
    <3>1. i - 1 \in 1..Len(st) /\ (i - 1) + 1 = i
      BY <1>1, <1>3, <2>1, <2>3
    <3>2. g = st[i - 1] /\ i - 1 \in DOMAIN st
      BY <1>2, <1>3, <2>1, <3>1
    <3> QED
      BY <2>1, <3>2 DEF Suspended
  <2> QED
    BY <2>2, <2>3
<1>5. ASSUME NEW g \in Suspended(st) PROVE g \in Suspended(new)
  <2>1. PICK i \in DOMAIN st : st[i].op = "dispatch" /\ g = st[i]
    BY DEF Suspended
  <2>2. new[i + 1] = g /\ i + 1 \in DOMAIN new
    BY <1>1, <1>2, <1>3, <2>1
  <2> QED
    BY <2>1, <2>2 DEF Suspended
<1>6. f.op = "dispatch" => f \in Suspended(new)
  <2>1. 1 \in DOMAIN new
    BY <1>1, <1>3
  <2> QED
    BY <1>1, <2>1 DEF Suspended
<1>7. Suspended(new) = (IF f.op = "dispatch" THEN {f} ELSE {}) \cup Suspended(st)
  BY <1>4, <1>5, <1>6
<1> QED
  BY <1>7 DEF new

LEMMA AloneOn ==
  ASSUME NEW st \in Seq(FrameType), NEW f \in FrameType
  PROVE  Alone(<<f>> \o st) <=> Alone(st) /\ (f.op = "dispatch" => Suspended(st) = {})
<1> DEFINE new == <<f>> \o st
<1>1. new \in Seq(FrameType) /\ Len(new) = Len(st) + 1 /\ new[1] = f /\ Len(st) \in Nat
  OBVIOUS
<1>2. \A i \in 1..Len(st) : new[i + 1] = st[i]
  OBVIOUS
<1>3. DOMAIN new = 1..(Len(st) + 1) /\ DOMAIN st = 1..Len(st)
  BY <1>1
<1> HIDE DEF new
<1>4. ASSUME Alone(new) PROVE Alone(st) /\ (f.op = "dispatch" => Suspended(st) = {})
  <2>1. Alone(st)
    <3> SUFFICES ASSUME NEW i \in DOMAIN st, NEW j \in DOMAIN st, i < j,
                        st[i].op = "dispatch"
                 PROVE  st[j].op # "dispatch"
      BY DEF Alone
    <3>1. i + 1 \in DOMAIN new /\ j + 1 \in DOMAIN new /\ i + 1 < j + 1
      BY <1>1, <1>3
    <3>2. new[i + 1] = st[i] /\ new[j + 1] = st[j]
      BY <1>2, <1>3
    <3> QED
      BY <1>4, <3>1, <3>2 DEF Alone
  <2>2. ASSUME f.op = "dispatch", NEW g \in Suspended(st) PROVE FALSE
    <3>1. PICK i \in DOMAIN st : st[i].op = "dispatch"
      BY <2>2 DEF Suspended
    <3>2. i + 1 \in DOMAIN new /\ 1 \in DOMAIN new /\ 1 < i + 1 /\ new[i + 1] = st[i]
      BY <1>1, <1>2, <1>3
    <3> QED
      BY <1>1, <1>4, <2>2, <3>1, <3>2 DEF Alone
  <2> QED
    BY <2>1, <2>2
<1>5. ASSUME Alone(st), f.op = "dispatch" => Suspended(st) = {} PROVE Alone(new)
  <2> SUFFICES ASSUME NEW i \in DOMAIN new, NEW j \in DOMAIN new, i < j,
                      new[i].op = "dispatch"
               PROVE  new[j].op # "dispatch"
    BY DEF Alone
  <2>1. j - 1 \in DOMAIN st /\ (j - 1) + 1 = j
    BY <1>1, <1>3
  <2>2. new[j] = st[j - 1]
    BY <1>2, <1>3, <2>1
  <2>3. CASE i = 1
    BY <1>1, <1>5, <2>1, <2>2, <2>3 DEF Suspended
  <2>4. CASE i # 1
    <3>1. i - 1 \in DOMAIN st /\ (i - 1) + 1 = i /\ i - 1 < j - 1
      BY <1>1, <1>3, <2>4
    <3>2. new[i] = st[i - 1]
      BY <1>2, <1>3, <3>1
    <3> QED
      BY <1>5, <2>1, <2>2, <3>1, <3>2 DEF Alone
  <2> QED
    BY <2>3, <2>4
<1>6. Alone(new) <=> Alone(st) /\ (f.op = "dispatch" => Suspended(st) = {})
  BY <1>4, <1>5
<1> QED
  BY <1>6 DEF new

\* Two frames on top of a stack.
LEMMA TwoPushed ==
  ASSUME NEW F, NEW st \in Seq(F), NEW f \in F, NEW g \in F
  PROVE  /\ <<g>> \o st \in Seq(F) /\ <<f, g>> \o st \in Seq(F)
         /\ <<f, g>> \o st = <<f>> \o (<<g>> \o st)
<1> DEFINE s == <<g>> \o st
           a == <<f, g>> \o st
           b == <<f>> \o s
<1>1. s \in Seq(F) /\ Len(s) = Len(st) + 1 /\ a \in Seq(F) /\ Len(a) = Len(st) + 2
  OBVIOUS
<1>2. s[1] = g /\ \A i \in 1..Len(st) : s[i + 1] = st[i]
  OBVIOUS
<1>3. a[1] = f /\ a[2] = g /\ \A i \in 1..Len(st) : a[i + 2] = st[i]
  OBVIOUS
<1> HIDE DEF s, a
<1>4. b \in Seq(F) /\ Len(b) = Len(s) + 1 /\ b[1] = f /\ \A i \in 1..Len(s) : b[i + 1] = s[i]
  BY <1>1
<1> HIDE DEF b
<1>5. Len(st) \in Nat
  OBVIOUS
<1>6. \A i \in 1..(Len(st) + 2) : a[i] = b[i]
  <2> TAKE i \in 1..(Len(st) + 2)
  <2>1. CASE i = 1
    BY <1>3, <1>4, <2>1
  <2>2. CASE i = 2
    <3>1. b[1 + 1] = s[1]
      BY <1>1, <1>4, <1>5
    <3> QED
      BY <1>2, <1>3, <2>2, <3>1
  <2>3. CASE i > 2
    <3> DEFINE k == i - 2
    <3>1. k \in 1..Len(st) /\ k + 1 \in 1..Len(s) /\ i = k + 2 /\ i = (k + 1) + 1
      BY <1>1, <1>5, <2>3
    <3> HIDE DEF k
    <3>2. a[k + 2] = st[k] /\ b[(k + 1) + 1] = s[k + 1] /\ s[k + 1] = st[k]
      BY <1>2, <1>3, <1>4, <3>1
    <3> QED
      BY <3>1, <3>2
  <2> QED
    BY <1>5, <2>1, <2>2, <2>3
<1>7. a = b
  BY <1>1, <1>4, <1>5, <1>6
<1> QED
  BY <1>1, <1>7 DEF s, a, b

LEMMA TopOf ==
  ASSUME NEW st \in Seq(FrameType), st # <<>>
  PROVE  st = <<Head(st)>> \o Tail(st) /\ Head(st) \in FrameType /\ Tail(st) \in Seq(FrameType)
OBVIOUS

\* Calls on top of a stack are no dispatches.
LEMMA CallsOn ==
  ASSUME NEW st \in Seq(FrameType), NEW f \in FrameType, f.op # "dispatch"
  PROVE  /\ Suspended(<<f>> \o st) = Suspended(st)
         /\ Alone(<<f>> \o st) <=> Alone(st)
BY SuspendedOn, AloneOn

\* A call on top, taken off or replaced.
LEMMA CallOff ==
  ASSUME TypeOK, NEW op \in {"app", "stop"}, TopIs(op),
         stack' = Tail(stack) \/ stack' = <<App>> \o Tail(stack)
  PROVE  Dispatches' = Dispatches /\ (Alone(stack) => Alone(stack)')
<1>1. stack \in Seq(FrameType) /\ stack # <<>> /\ Head(stack).op # "dispatch"
  BY DEF TypeOK, FrameType, TopIs
<1> DEFINE h == Head(stack)
           t == Tail(stack)
<1>2. stack = <<h>> \o t /\ h \in FrameType /\ h.op # "dispatch" /\ t \in Seq(FrameType)
  BY <1>1, TopOf
<1> HIDE DEF h, t
<1>3. Suspended(stack) = Suspended(t) /\ (Alone(stack) <=> Alone(t))
  BY <1>2, CallsOn
<1>4. /\ Suspended(<<App>> \o t) = Suspended(t)
      /\ Alone(<<App>> \o t) <=> Alone(t)
  <2>1. App \in FrameType /\ App.op # "dispatch"
    BY CallType DEF App, Frame
  <2> QED
    BY <1>2, <2>1, CallsOn
<1>5. Dispatches' = Suspended(stack') /\ Alone(stack)' = Alone(stack')
  BY DEF Dispatches, Suspended, Alone
<1>6. stack' = t \/ stack' = <<App>> \o t
  BY DEF t
<1> QED
  BY <1>3, <1>4, <1>5, <1>6 DEF Dispatches

\* The dispatch on top goes on as g.
LEMMA TopGoesOn ==
  ASSUME TypeOK, TopIs("dispatch"), NEW g \in FrameType, g.op = "dispatch",
         \/ stack' = <<g>> \o Tail(stack)
         \/ stack' = <<App, g>> \o Tail(stack)
  PROVE  /\ Head(stack) \in FrameType /\ Head(stack) \in Dispatches
         /\ Dispatches' \subseteq {g} \cup Dispatches
         /\ Alone(stack) => /\ Dispatches = {Head(stack)} /\ Dispatches' = {g}
                            /\ Alone(stack)'
<1>1. stack \in Seq(FrameType) /\ stack # <<>> /\ Head(stack).op = "dispatch"
  BY DEF TypeOK, FrameType, TopIs
<1> DEFINE t == Tail(stack)
<1>2. stack = <<Head(stack)>> \o t /\ Head(stack) \in FrameType /\ t \in Seq(FrameType)
  BY <1>1, TopOf
<1> HIDE DEF t
<1>3. /\ Suspended(stack) = {Head(stack)} \cup Suspended(t)
      /\ Alone(stack) <=> Alone(t) /\ Suspended(t) = {}
  BY <1>1, <1>2, SuspendedOn, AloneOn
<1>4. Suspended(<<g>> \o t) = {g} \cup Suspended(t)
  BY <1>2, SuspendedOn
<1>5. Alone(<<g>> \o t) <=> Alone(t) /\ Suspended(t) = {}
  BY <1>2, AloneOn
<1>6. App \in FrameType /\ App.op # "dispatch"
  BY CallType DEF App, Frame
<1>7. /\ Suspended(<<App, g>> \o t) = Suspended(<<g>> \o t)
      /\ Alone(<<App, g>> \o t) <=> Alone(<<g>> \o t)
  BY <1>2, <1>6, TwoPushed, CallsOn
<1>8. Dispatches' = Suspended(stack') /\ Alone(stack)' = Alone(stack')
  BY DEF Dispatches, Suspended, Alone
<1>9. stack' = <<g>> \o t \/ stack' = <<App, g>> \o t
  BY DEF t
<1> QED
  BY <1>2, <1>3, <1>4, <1>5, <1>7, <1>8, <1>9 DEF Dispatches

-----------------------------------------------------------------------------
(* What keeps OrderInv.                                                    *)

LEMMA BlockTypes ==
  ASSUME NEW q \in Seq(BlockType), NEW i \in DOMAIN q
  PROVE  q[i] \in BlockType /\ q[i].seq \in Int /\ q[i].buf \in Nat /\ q[i].fmt \in Nat
<1>1. q[i] \in BlockType
  OBVIOUS
<1> QED
  BY <1>1 DEF BlockType

LEMMA OrderTypes ==
  ASSUME TypeOK
  PROVE  /\ stack \in Seq(FrameType)
         /\ pending \in PendingType
         /\ pending.format.n \in Nat /\ pending.peak.buf \in Nat
         /\ pending.blocks \in Seq(BlockType)
         /\ format.n \in Nat /\ fmt.n \in Nat /\ fmt.of \in Nat /\ level.buf \in Nat
         /\ lastBlock.seq \in Int /\ lastBlock.buf \in Nat /\ lastBlock.fmt \in Nat
         /\ \A f \in Dispatches : f \in FrameType /\ f.snap.peak.buf \in Nat
                                  /\ f.snap.blocks \in Seq(BlockType)
<1>1. stack \in Seq(FrameType)
  BY DEF TypeOK, FrameType
<1>2. \A p \in PendingType : p.format.n \in Nat /\ p.peak.buf \in Nat
                             /\ p.blocks \in Seq(BlockType)
  BY DEF PendingType, FormatType, PeakType
<1>3. \A f \in Dispatches : f \in FrameType
  BY <1>1 DEF Dispatches, Suspended
<1>4. \A f \in FrameType : f.snap \in PendingType
  BY DEF FrameType
<1>5. /\ format.n \in Nat /\ fmt.n \in Nat /\ fmt.of \in Nat /\ level.buf \in Nat
      /\ lastBlock.seq \in Int /\ lastBlock.buf \in Nat /\ lastBlock.fmt \in Nat
  BY DEF TypeOK, FormatType, PeakType, BlockType
<1> QED
  BY <1>1, <1>2, <1>3, <1>4, <1>5 DEF TypeOK

LEMMA OrderInit == Init => OrderInv
<1> SUFFICES ASSUME Init PROVE OrderInv
  OBVIOUS
<1>1. Dispatches = {} /\ Alone(stack)
  BY DEF Init, Dispatches, Suspended, Alone
<1>2. ThreadRuns
  BY <1>1 DEF Init, ThreadRuns, Nothing, NoFormat
<1>3. FormatOrder
  BY <1>1 DEF Init, FormatOrder, FormatBeforeBlock, Nothing, NoFormat, NoBlock
<1>4. PeakOrder
  BY <1>1 DEF Init, PeakOrder, Nothing, NoPeak
<1>5. LevelOrder
  BY <1>1 DEF Init, LevelOrder, Nothing, NoPeak, NoBlock
<1>6. BlockOrder
  BY <1>1 DEF Init, BlockOrder, Nothing, NoBlock
<1> QED
  BY <1>1, <1>2, <1>3, <1>4, <1>5, <1>6 DEF OrderInv, OneAtATime

\* Steps of the thread leave the stack alone.
LEMMA SameStack ==
  ASSUME UNCHANGED stack
  PROVE  Dispatches' = Dispatches /\ Alone(stack)' = Alone(stack)
         /\ TopIs("dispatch")' = TopIs("dispatch")
BY DEF Dispatches, Suspended, Alone, TopIs

LEMMA ParamChangedOrder == TypeOK /\ OrderInv /\ ParamChanged => OrderInv'
<1> SUFFICES ASSUME TypeOK, OrderInv, ParamChanged PROVE OrderInv'
  OBVIOUS
<1>1. /\ UNCHANGED <<running, session, format, level, lastBlock, buf, pc, nextSeq, nested, stack>>
      /\ fmt'.n = fmt.n + 1 /\ fmt'.of = session /\ running /\ pc = "idle"
  BY DEF ParamChanged, public
<1>2. /\ pending'.format = fmt' /\ pending'.peak = pending.peak
      /\ pending'.blocks = pending.blocks
  BY DEF TypeOK, PendingType, ParamChanged, Post, WithFormat
<1>3. Dispatches' = Dispatches /\ Alone(stack)' = Alone(stack)
      /\ TopIs("dispatch")' = TopIs("dispatch")
  BY <1>1, SameStack
<1>4. ThreadRuns'
  BY <1>1, <1>2, <1>3, OrderTypes DEF OrderInv, ThreadRuns, TypeOK
<1>5. FormatOrder'
  <2>1. ASSUME NEW i \in DOMAIN pending.blocks
        PROVE  \/ pending.blocks[i].fmt <= format.n
               \/ pending.blocks[i].fmt <= pending'.format.n
    <3>1. pending.blocks[i].fmt \in Nat
      BY OrderTypes, BlockTypes
    <3>2. pending.format.n <= pending'.format.n
      BY <1>1, <1>2, OrderTypes DEF OrderInv, ThreadRuns
    <3> QED
      BY <1>1, <1>2, <3>1, <3>2, OrderTypes DEF OrderInv, FormatOrder
  <2> QED
    BY <1>1, <1>2, <1>3, <2>1 DEF OrderInv, FormatOrder, FormatBeforeBlock
<1>6. ASSUME OneAtATime PROVE OneAtATime'
  <2>1. PeakOrder'
    BY <1>1, <1>2, <1>3, <1>6 DEF OneAtATime, PeakOrder, Unshown
  <2>2. LevelOrder'
    BY <1>1, <1>2, <1>3, <1>6 DEF OneAtATime, LevelOrder, Announced, Unshown
  <2>3. BlockOrder'
    BY <1>1, <1>2, <1>3, <1>6 DEF OneAtATime, BlockOrder
  <2> QED
    BY <1>3, <1>6, <2>1, <2>2, <2>3 DEF OneAtATime
<1> QED
  BY <1>1, <1>4, <1>5, <1>6 DEF OrderInv

LEMMA ProcessOrder == TypeOK /\ OrderInv /\ Process => OrderInv'
<1> SUFFICES ASSUME TypeOK, OrderInv, Process PROVE OrderInv'
  OBVIOUS
<1>1. /\ UNCHANGED <<running, session, format, level, lastBlock, fmt, nextSeq, nested, stack>>
      /\ buf' = buf + 1 /\ pc' = "buffer" /\ running /\ Negotiated
  BY DEF Process, public
<1>2. /\ pending'.format = pending.format /\ pending'.peak = pending.peak
      /\ pending'.blocks = pending.blocks
  <2>1. CASE UNCHANGED queue
    BY <2>1 DEF queue
  <2>2. ASSUME NEW r \in Rates, QueueRate(r), observed # r
        PROVE  /\ pending'.format = pending.format /\ pending'.peak = pending.peak
               /\ pending'.blocks = pending.blocks
    BY <2>2 DEF QueueRate, Post, TypeOK, PendingType
  <2> QED
    BY <2>1, <2>2 DEF Process, QueueRate
<1>3. Dispatches' = Dispatches /\ Alone(stack)' = Alone(stack)
      /\ TopIs("dispatch")' = TopIs("dispatch")
  BY <1>1, SameStack
<1>4. ThreadRuns'
  BY <1>1, <1>2, <1>3 DEF OrderInv, ThreadRuns, Negotiated
<1>5. FormatOrder'
  BY <1>1, <1>2, <1>3 DEF OrderInv, FormatOrder, FormatBeforeBlock
<1>6. ASSUME OneAtATime PROVE OneAtATime'
  <2>1. PeakOrder'
    <3>1. buf \in Nat /\ buf' = buf + 1
      BY <1>1 DEF TypeOK
    <3>2. \A n \in Nat : n <= buf => n <= buf'
      BY <3>1
    <3>3. level.buf <= buf' /\ pending.peak.buf <= buf'
      BY <1>6, <3>2, OrderTypes DEF OneAtATime, PeakOrder
    <3>4. \A f \in Dispatches : f.snap.peak.buf <= buf'
      BY <1>6, <3>2, OrderTypes DEF OneAtATime, PeakOrder
    <3> QED
      BY <1>1, <1>2, <1>3, <1>6, <3>3, <3>4 DEF OneAtATime, PeakOrder, Unshown
  <2>2. LevelOrder'
    BY <1>1, <1>2, <1>3, <1>6 DEF OneAtATime, LevelOrder, Announced, Unshown
  <2>3. BlockOrder'
    BY <1>1, <1>2, <1>3, <1>6 DEF OneAtATime, BlockOrder
  <2> QED
    BY <1>3, <1>6, <2>1, <2>2, <2>3 DEF OneAtATime
<1> QED
  BY <1>1, <1>4, <1>5, <1>6 DEF OrderInv

LEMMA ProcessSkipsOrder == TypeOK /\ OrderInv /\ ProcessSkips => OrderInv'
<1> SUFFICES ASSUME TypeOK, OrderInv, ProcessSkips PROVE OrderInv'
  OBVIOUS
<1>1. /\ UNCHANGED <<running, session, format, level, lastBlock, fmt, buf, nextSeq, nested, stack, pending>>
      /\ pc' = "idle"
  BY DEF ProcessSkips, public, queue
<1>3. Dispatches' = Dispatches /\ Alone(stack)' = Alone(stack)
      /\ TopIs("dispatch")' = TopIs("dispatch")
  BY <1>1, SameStack
<1>4. ThreadRuns'
  BY <1>1, <1>3 DEF OrderInv, ThreadRuns, Negotiated
<1>5. FormatOrder'
  BY <1>1, <1>3 DEF OrderInv, FormatOrder, FormatBeforeBlock
<1>6. ASSUME OneAtATime PROVE OneAtATime'
  BY <1>1, <1>3, <1>6
     DEF OneAtATime, PeakOrder, LevelOrder, BlockOrder, Announced, Unshown
<1> QED
  BY <1>1, <1>4, <1>5, <1>6 DEF OrderInv

\* The peak of this buffer is the newest of all.
LEMMA ProcessPeakOrder == TypeOK /\ OrderInv /\ ProcessPeak => OrderInv'
<1> SUFFICES ASSUME TypeOK, OrderInv, ProcessPeak PROVE OrderInv'
  OBVIOUS
<1>1. /\ UNCHANGED <<running, session, format, level, lastBlock, fmt, buf, nextSeq, nested, stack>>
      /\ pc = "buffer" /\ pc' = "block"
  BY DEF ProcessPeak, public
<1>2. /\ pending'.format = pending.format /\ pending'.peak.buf = buf
      /\ pending'.blocks = pending.blocks
  BY DEF TypeOK, PendingType, ProcessPeak, Post, WithPeak
<1>3. Dispatches' = Dispatches /\ Alone(stack)' = Alone(stack)
      /\ TopIs("dispatch")' = TopIs("dispatch")
  BY <1>1, SameStack
<1>4. ThreadRuns'
  BY <1>1, <1>2, <1>3 DEF OrderInv, ThreadRuns, Negotiated
<1>5. FormatOrder'
  BY <1>1, <1>2, <1>3 DEF OrderInv, FormatOrder, FormatBeforeBlock
<1>6. ASSUME OneAtATime PROVE OneAtATime'
  <2>1. PeakOrder'
    <3>1. buf <= buf
      BY DEF TypeOK
    <3> QED
      BY <1>1, <1>2, <1>3, <1>6, <3>1 DEF OneAtATime, PeakOrder, Unshown
  <2>2. LevelOrder'
    <3>1. buf' \in Announced'
      BY <1>1, <1>2 DEF Announced, TypeOK
    <3>2. ASSUME NEW n \in Announced PROVE n \in Announced'
      <4>1. CASE n <= level.buf
        BY <1>1, <4>1 DEF Announced
      <4>2. CASE n <= pending.peak.buf
        <5>1. pending.peak.buf <= buf
          BY <1>6 DEF OneAtATime, PeakOrder
        <5>2. n <= buf
          BY <4>2, <5>1, OrderTypes DEF TypeOK, Announced
        <5> QED
          BY <1>2, <5>2 DEF Announced
      <4>3. CASE \E f \in Dispatches : Unshown(f) /\ n <= f.snap.peak.buf
        BY <1>3, <4>3 DEF Announced, Unshown
      <4> QED
        BY <4>1, <4>2, <4>3 DEF Announced
    <3>3. \A i \in DOMAIN pending.blocks : pending.blocks[i].buf \in Announced'
      BY <1>6, <3>2 DEF OneAtATime, LevelOrder
    <3>4. \A i \in DOMAIN pending'.blocks : pending'.blocks[i].buf \in Announced'
      BY <1>2, <3>3
    <3> QED
      BY <1>1, <1>2, <1>3, <1>6, <3>1, <3>4 DEF OneAtATime, LevelOrder, Unshown
  <2>3. BlockOrder'
    BY <1>1, <1>2, <1>3, <1>6 DEF OneAtATime, BlockOrder
  <2> QED
    BY <1>3, <1>6, <2>1, <2>2, <2>3 DEF OneAtATime
<1> QED
  BY <1>1, <1>4, <1>5, <1>6 DEF OrderInv

\* The queue with a block more holds only that block and earlier ones, and
\* begins where it did or later.
LEMMA TrimmedHolds ==
  ASSUME NEW q \in Seq(BlockType), NEW b \in BlockType, NEW n \in Nat
  PROVE  LET t == Trimmed(Append(q, b))
         IN  /\ t \in Seq(BlockType) /\ Len(q) \in Nat /\ Len(t) \in Nat
             /\ n - Len(q) <= n + 1 - Len(t)
             /\ \A i \in DOMAIN t : t[i] = b \/ \E j \in DOMAIN q : t[i] = q[j]
<1> DEFINE a == Append(q, b)
<1>1. a \in Seq(BlockType) /\ Len(a) = Len(q) + 1 /\ Len(q) \in Nat
  OBVIOUS
<1>2. \A i \in DOMAIN a : a[i] = b \/ \E j \in DOMAIN q : a[i] = q[j]
  OBVIOUS
<1> HIDE DEF a
<1>3. CASE Trimmed(a) = a
  <2>1. n - Len(q) <= n + 1 - Len(a)
    BY <1>1
  <2> QED
    BY <1>1, <1>2, <1>3, <2>1 DEF a
<1>4. CASE Trimmed(a) = Tail(a)
  <2>1. Tail(a) \in Seq(BlockType) /\ Len(Tail(a)) = Len(q)
    BY <1>1
  <2>2. \A i \in DOMAIN Tail(a) : Tail(a)[i] = a[i + 1] /\ i + 1 \in DOMAIN a
    BY <1>1
  <2>3. \A i \in DOMAIN Tail(a) : Tail(a)[i] = b \/ \E j \in DOMAIN q : Tail(a)[i] = q[j]
    BY <1>2, <2>2
  <2>4. n - Len(q) <= n + 1 - Len(Tail(a))
    BY <1>1, <2>1
  <2> QED
    BY <1>1, <1>4, <2>1, <2>3, <2>4 DEF a
<1> QED
  BY <1>3, <1>4 DEF Trimmed, a

LEMMA ProcessBlockOrder == TypeOK /\ OrderInv /\ ProcessBlock => OrderInv'
<1> SUFFICES ASSUME TypeOK, OrderInv, ProcessBlock PROVE OrderInv'
  OBVIOUS
<1> DEFINE q == pending.blocks
           b == [seq |-> nextSeq, buf |-> buf, fmt |-> fmt.n]
           t == Trimmed(Append(q, b))
<1>1. /\ UNCHANGED <<running, session, format, level, lastBlock, fmt, buf, nested, stack>>
      /\ pc = "block" /\ pc' = "idle"
  BY DEF ProcessBlock, public
<1>2. Dispatches' = Dispatches /\ Alone(stack)' = Alone(stack)
      /\ TopIs("dispatch")' = TopIs("dispatch")
  BY <1>1, SameStack
<1>3. CASE UNCHANGED <<nextSeq, queue>>
  <2>1. ThreadRuns' /\ FormatOrder'
    BY <1>1, <1>2, <1>3
       DEF OrderInv, ThreadRuns, FormatOrder, FormatBeforeBlock, Negotiated, queue
  <2>2. ASSUME OneAtATime PROVE OneAtATime'
    BY <1>1, <1>2, <1>3, <2>2
       DEF OneAtATime, PeakOrder, LevelOrder, BlockOrder, Announced, Unshown, queue
  <2> QED
    BY <1>1, <2>1, <2>2 DEF OrderInv
<1>4. CASE nextSeq' = nextSeq + 1 /\ Post([pending EXCEPT !.blocks = t])
  <2>1. /\ pending'.format = pending.format /\ pending'.peak = pending.peak
        /\ pending'.blocks = t
    <3> HIDE DEF t
    <3> QED
      BY <1>4 DEF TypeOK, PendingType, Post
  <2>2. b \in BlockType /\ nextSeq \in Nat /\ b.buf = buf /\ b.fmt = fmt.n /\ q \in Seq(BlockType)
    BY OrderTypes DEF TypeOK, BlockType
  <2>3. /\ t \in Seq(BlockType) /\ Len(q) \in Nat /\ Len(t) \in Nat
        /\ nextSeq - Len(q) <= nextSeq' - Len(t)
        /\ \A i \in DOMAIN t : t[i] = b \/ \E j \in DOMAIN q : t[i] = q[j]
    <3> HIDE DEF q, b
    <3> QED
      BY <1>4, <2>2, TrimmedHolds
  <2> HIDE DEF b, t
  <2>4. running /\ Negotiated /\ buf \in Nat
    BY <1>1 DEF OrderInv, ThreadRuns, TypeOK
  <2>5. ThreadRuns'
    BY <1>1, <1>2, <2>1, <2>4 DEF OrderInv, ThreadRuns, Negotiated
  <2>6. FormatOrder'
    <3>1. fmt.n <= format.n \/ fmt.n <= pending.format.n
      BY <2>4, OrderTypes DEF OrderInv, ThreadRuns
    <3>2. \A i \in DOMAIN t : t[i].fmt <= format.n \/ t[i].fmt <= pending.format.n
      BY <2>2, <2>3, <3>1 DEF OrderInv, FormatOrder
    <3> QED
      BY <1>1, <1>2, <2>1, <3>2 DEF OrderInv, FormatOrder, FormatBeforeBlock
  <2>7. ASSUME OneAtATime PROVE OneAtATime'
    <3>1. PeakOrder'
      BY <1>1, <1>2, <2>1, <2>7 DEF OneAtATime, PeakOrder, Unshown
    <3>2. Announced' = Announced
      BY <1>1, <1>2, <2>1 DEF Announced, Unshown
    <3>3. \A i \in DOMAIN t : t[i].buf \in Announced
      BY <1>1, <2>2, <2>3, <2>7 DEF OneAtATime, LevelOrder
    <3>4. LevelOrder'
      BY <1>1, <1>2, <2>1, <2>7, <3>2, <3>3 DEF OneAtATime, LevelOrder, Unshown
    <3>5. BlockOrder'
      <4>1. \A k \in Int : k < nextSeq - Len(q) => k < nextSeq' - Len(t)
        BY <1>4, <2>2, <2>3
      <4>2. \A f \in Dispatches : \A i \in DOMAIN f.snap.blocks : f.snap.blocks[i].seq \in Int
        BY OrderTypes, BlockTypes
      <4>3. lastBlock.seq < nextSeq' - Len(t)
        BY <2>7, <4>1, OrderTypes DEF OneAtATime, BlockOrder
      <4>4. \A f \in Dispatches : \A i \in DOMAIN f.snap.blocks :
              f.snap.blocks[i].seq < nextSeq' - Len(t)
        BY <2>7, <4>1, <4>2 DEF OneAtATime, BlockOrder
      <4> QED
        BY <1>1, <1>2, <2>1, <2>7, <4>3, <4>4 DEF OneAtATime, BlockOrder
    <3> QED
      BY <1>2, <2>7, <3>1, <3>4, <3>5 DEF OneAtATime
  <2> QED
    BY <1>1, <2>5, <2>6, <2>7 DEF OrderInv
<1> QED
  BY <1>3, <1>4 DEF ProcessBlock

-----------------------------------------------------------------------------
\* The calls that start() and stop() put on the stack are no dispatches.
LEMMA CallsPushed ==
  ASSUME TypeOK, NEW x \in {<<>>, <<App>>, <<Stopping>>, <<App, Stopping>>},
         stack' = x \o stack
  PROVE  Dispatches' = Dispatches /\ (Alone(stack) => Alone(stack)')
<1>1. stack \in Seq(FrameType)
  BY OrderTypes
<1>2. /\ App \in FrameType /\ App.op # "dispatch"
      /\ Stopping \in FrameType /\ Stopping.op # "dispatch"
  BY CallType DEF App, Stopping, Frame
<1>3. \A f \in {App, Stopping} :
        /\ Suspended(<<f>> \o stack) = Suspended(stack)
        /\ Alone(<<f>> \o stack) <=> Alone(stack)
  BY <1>1, <1>2, CallsOn
<1>4. /\ Suspended(<<App, Stopping>> \o stack) = Suspended(stack)
      /\ Alone(<<App, Stopping>> \o stack) <=> Alone(stack)
  <2>1. /\ <<App, Stopping>> \o stack = <<App>> \o (<<Stopping>> \o stack)
        /\ <<Stopping>> \o stack \in Seq(FrameType)
    BY <1>1, <1>2, TwoPushed
  <2>2. /\ Suspended(<<App>> \o (<<Stopping>> \o stack)) = Suspended(<<Stopping>> \o stack)
        /\ Alone(<<App>> \o (<<Stopping>> \o stack)) <=> Alone(<<Stopping>> \o stack)
    BY <1>2, <2>1, CallsOn
  <2> QED
    BY <1>3, <2>1, <2>2
<1>5. <<>> \o stack = stack
  BY <1>1
<1>6. Suspended(stack') = Suspended(stack) /\ (Alone(stack') <=> Alone(stack))
  BY <1>3, <1>4, <1>5
<1>7. Dispatches' = Suspended(stack') /\ Alone(stack)' = Alone(stack')
  BY DEF Dispatches, Suspended, Alone
<1> QED
  BY <1>6, <1>7 DEF Dispatches

\* A call that the application makes runs on no dispatch itself.
LEMMA CallerIsNoDispatch ==
  ASSUME NEW op, NEW k, MayCall(op, k) PROVE ~TopIs("dispatch")
BY DEF MayCall, TopIs

\* What the end of a session leaves in order.
LEMMA ClearedOrder ==
  ASSUME TypeOK, OrderInv, ~TopIs("dispatch"), pc = "idle",
         pending' = Nothing, running' = FALSE,
         session' = session \/ session' = session + 1,
         UNCHANGED <<format, level, lastBlock, fmt, buf, pc, nextSeq, nested>>,
         Dispatches' = Dispatches, Alone(stack) => Alone(stack)'
  PROVE  OrderInv'
<1>1. pending'.format.n = 0 /\ pending'.peak.buf = 0 /\ pending'.blocks = <<>>
  BY DEF Nothing, NoFormat, NoPeak
<1>2. ThreadRuns'
  <2>1. fmt.of <= session'
    BY OrderTypes DEF OrderInv, ThreadRuns, TypeOK
  <2> QED
    BY <1>1, <2>1 DEF OrderInv, ThreadRuns
<1>3. FormatOrder'
  BY <1>1 DEF OrderInv, FormatOrder, FormatBeforeBlock
<1>4. ASSUME OneAtATime PROVE OneAtATime'
  <2>1. PeakOrder'
    <3>1. 0 <= buf
      BY DEF TypeOK
    <3> QED
      BY <1>1, <1>4, <3>1 DEF OneAtATime, PeakOrder, Unshown
  <2>2. LevelOrder'
    BY <1>1, <1>4 DEF OneAtATime, LevelOrder, Unshown
  <2>3. BlockOrder'
    <3>1. Len(pending.blocks) \in Nat /\ Len(pending'.blocks) = 0 /\ nextSeq \in Nat
      BY <1>1, OrderTypes DEF TypeOK
    <3>2. \A k \in Int : k < nextSeq - Len(pending.blocks) => k < nextSeq' - Len(pending'.blocks)
      BY <3>1
    <3>3. \A f \in Dispatches : \A i \in DOMAIN f.snap.blocks : f.snap.blocks[i].seq \in Int
      BY OrderTypes, BlockTypes
    <3>4. lastBlock.seq < nextSeq' - Len(pending'.blocks)
      BY <1>4, <3>2, OrderTypes DEF OneAtATime, BlockOrder
    <3>5. \A f \in Dispatches : \A i \in DOMAIN f.snap.blocks :
            f.snap.blocks[i].seq < nextSeq' - Len(pending'.blocks)
      BY <1>4, <3>2, <3>3 DEF OneAtATime, BlockOrder
    <3> QED
      BY <1>4, <3>4, <3>5 DEF OneAtATime, BlockOrder
  <2> QED
    BY <1>4, <2>1, <2>2, <2>3 DEF OneAtATime
<1> QED
  BY <1>2, <1>3, <1>4 DEF OrderInv

\* A new session has yet to negotiate, so its thread cannot be in a callback.
LEMMA StartOrder == TypeOK /\ OrderInv /\ Start => OrderInv'
<1> SUFFICES ASSUME TypeOK, OrderInv, Start PROVE OrderInv'
  OBVIOUS
<1>1. /\ ~running /\ session' = session + 1
      /\ UNCHANGED <<format, level, lastBlock, fmt, buf, pc, nextSeq, nested>>
  BY DEF Start, public
<1>2. ~TopIs("dispatch")
  BY CallerIsNoDispatch DEF Start
<1>3. pc = "idle" /\ pending.blocks = <<>>
  BY <1>1 DEF OrderInv, ThreadRuns
<1>4. CASE ClearPending /\ UNCHANGED <<running, stack>>
  <2>1. pending' = Nothing
    BY <1>4 DEF ClearPending, Cleared
  <2>2. Dispatches' = Dispatches /\ Alone(stack)' = Alone(stack)
    BY <1>4, SameStack
  <2>3. running' = FALSE
    BY <1>1, <1>4 DEF TypeOK
  <2> QED
    BY <1>1, <1>2, <1>3, <1>4, <2>1, <2>2, <2>3, ClearedOrder
<1>5. CASE running' = TRUE /\ stack' = <<App>> \o stack /\ UNCHANGED <<revision, pending, observed>>
  <2>1. Dispatches' = Dispatches /\ (Alone(stack) => Alone(stack)')
    BY <1>5, CallsPushed
  <2>2. ThreadRuns'
    <3>1. fmt.of <= session' /\ fmt.of # session'
      BY <1>1, OrderTypes DEF OrderInv, ThreadRuns, TypeOK
    <3> QED
      BY <1>1, <1>3, <1>5, <2>1, <3>1 DEF OrderInv, ThreadRuns, Negotiated
  <2>3. FormatOrder'
    BY <1>1, <1>5, <2>1 DEF OrderInv, FormatOrder, FormatBeforeBlock
  <2>4. ASSUME OneAtATime PROVE OneAtATime'
    <3>1. PeakOrder'
      BY <1>1, <1>5, <2>1, <2>4 DEF OneAtATime, PeakOrder, Unshown
    <3>2. LevelOrder'
      BY <1>1, <1>2, <1>3, <1>5, <2>1, <2>4 DEF OneAtATime, LevelOrder, Unshown
    <3>3. BlockOrder'
      BY <1>1, <1>5, <2>1, <2>4 DEF OneAtATime, BlockOrder
    <3> QED
      BY <2>1, <2>4, <3>1, <3>2, <3>3 DEF OneAtATime
  <2> QED
    BY <1>1, <2>2, <2>3, <2>4 DEF OrderInv
<1> QED
  BY <1>4, <1>5 DEF Start

LEMMA StopOrder == TypeOK /\ OrderInv /\ Stop => OrderInv'
<1> SUFFICES ASSUME TypeOK, OrderInv, Stop PROVE OrderInv'
  OBVIOUS
<1>1. /\ running' = FALSE /\ pc = "idle" /\ pending' = Nothing
      /\ UNCHANGED <<session, format, level, lastBlock, fmt, buf, pc, nextSeq, nested>>
  BY DEF Stop, ClearPending, Cleared
<1>2. ~TopIs("dispatch")
  BY CallerIsNoDispatch DEF Stop
<1> DEFINE shown == IF graphRate.rate # 0 THEN <<App>> ELSE <<>>
           ran == IF running THEN <<Stopping>> ELSE <<>>
<1>3. shown \o ran \in {<<>>, <<App>>, <<Stopping>>, <<App, Stopping>>}
  <2>1. <<App>> \o <<Stopping>> = <<App, Stopping>>
    <3> DEFINE a == <<App>> \o <<Stopping>>
               b == <<App, Stopping>>
    <3>1. a \in Seq({App, Stopping}) /\ Len(a) = 2 /\ a[1] = App /\ a[2] = Stopping
      OBVIOUS
    <3>2. b \in Seq({App, Stopping}) /\ Len(b) = 2 /\ b[1] = App /\ b[2] = Stopping
      OBVIOUS
    <3> HIDE DEF a, b
    <3>3. \A i \in 1..2 : a[i] = b[i]
      BY <3>1, <3>2
    <3>4. a = b
      BY <3>1, <3>2, <3>3
    <3> QED
      BY <3>4 DEF a, b
  <2>2. <<App>> \o <<>> = <<App>> /\ <<>> \o <<Stopping>> = <<Stopping>> /\ <<>> \o <<>> = <<>>
    OBVIOUS
  <2> QED
    BY <2>1, <2>2
<1>4. stack' = shown \o ran \o stack
  BY DEF Stop
<1>5. Dispatches' = Dispatches /\ (Alone(stack) => Alone(stack)')
  <2> HIDE DEF shown, ran
  <2> QED
    BY <1>3, <1>4, CallsPushed
<1> QED
  BY <1>1, <1>2, <1>5, ClearedOrder

\* Steps that take calls off the stack and change nothing else.
LEMMA CallsEndOrder ==
  ASSUME TypeOK, OrderInv, ~TopIs("dispatch"),
         UNCHANGED <<running, session, format, level, lastBlock, pending, fmt, buf, pc,
                     nextSeq, nested>>,
         Dispatches' = Dispatches, Alone(stack) => Alone(stack)'
  PROVE  OrderInv'
<1>1. ThreadRuns' /\ FormatOrder'
  BY DEF OrderInv, ThreadRuns, FormatOrder, FormatBeforeBlock, Negotiated
<1>2. ASSUME OneAtATime PROVE OneAtATime'
  <2>1. PeakOrder'
    BY <1>2 DEF OneAtATime, PeakOrder, Unshown
  <2>2. LevelOrder'
    BY <1>2 DEF OneAtATime, LevelOrder, Announced, Unshown
  <2>3. BlockOrder'
    BY <1>2 DEF OneAtATime, BlockOrder
  <2> QED
    BY <1>2, <2>1, <2>2, <2>3 DEF OneAtATime
<1> QED
  BY <1>1, <1>2 DEF OrderInv

LEMMA StopNotifiesOrder == TypeOK /\ OrderInv /\ StopNotifies => OrderInv'
<1> SUFFICES ASSUME TypeOK, OrderInv, StopNotifies PROVE OrderInv'
  OBVIOUS
<1>1. TopIs("stop") /\ stack' = <<App>> \o Tail(stack) /\ ~TopIs("dispatch")
  BY DEF StopNotifies, TopIs
<1>2. Dispatches' = Dispatches /\ (Alone(stack) => Alone(stack)')
  BY <1>1, CallOff
<1> QED
  BY <1>1, <1>2, CallsEndOrder DEF StopNotifies, public, queue, thread

LEMMA HandlerReturnOrder == TypeOK /\ OrderInv /\ HandlerReturn => OrderInv'
<1> SUFFICES ASSUME TypeOK, OrderInv, HandlerReturn PROVE OrderInv'
  OBVIOUS
<1>1. TopIs("app") /\ stack' = Tail(stack) /\ ~TopIs("dispatch")
  BY DEF HandlerReturn, TopIs
<1>2. Dispatches' = Dispatches /\ (Alone(stack) => Alone(stack)')
  BY <1>1, CallOff
<1> QED
  BY <1>1, <1>2, CallsEndOrder DEF HandlerReturn, public, queue, thread

-----------------------------------------------------------------------------
(* The steps of a dispatch.                                                *)

\* A dispatch that begins on a stack.
LEMMA DispatchPushed ==
  ASSUME TypeOK, NEW f \in FrameType, f.op = "dispatch",
         stack' = <<App, f>> \o stack \/ stack' = <<f>> \o stack
  PROVE  /\ Dispatches' = {f} \cup Dispatches
         /\ Dispatches = {} => Alone(stack)'
<1>1. stack \in Seq(FrameType)
  BY OrderTypes
<1>2. App \in FrameType /\ App.op # "dispatch"
  BY CallType DEF App, Frame
<1>3. Suspended(<<f>> \o stack) = {f} \cup Suspended(stack)
  BY <1>1, SuspendedOn
<1>4. ASSUME Suspended(stack) = {} PROVE Alone(<<f>> \o stack)
  <2>1. Alone(stack)
    BY <1>4 DEF Suspended, Alone
  <2> QED
    BY <1>1, <1>4, <2>1, AloneOn
<1>5. /\ Suspended(<<App, f>> \o stack) = Suspended(<<f>> \o stack)
      /\ Alone(<<App, f>> \o stack) <=> Alone(<<f>> \o stack)
  BY <1>1, <1>2, TwoPushed, CallsOn
<1>6. Dispatches' = Suspended(stack') /\ Alone(stack)' = Alone(stack')
  BY DEF Dispatches, Suspended, Alone
<1> QED
  BY <1>3, <1>4, <1>5, <1>6 DEF Dispatches

\* The dispatch on top ends.
LEMMA TopEnds ==
  ASSUME TypeOK, TopIs("dispatch"), stack' = Tail(stack)
  PROVE  /\ Dispatches' \subseteq Dispatches
         /\ Alone(stack) => Dispatches' = {} /\ Alone(stack)'
<1>1. stack \in Seq(FrameType) /\ stack # <<>> /\ Head(stack).op = "dispatch"
  BY DEF TypeOK, FrameType, TopIs
<1> DEFINE t == Tail(stack)
<1>2. stack = <<Head(stack)>> \o t /\ Head(stack) \in FrameType /\ t \in Seq(FrameType)
  BY <1>1, TopOf
<1> HIDE DEF t
<1>3. /\ Suspended(stack) = {Head(stack)} \cup Suspended(t)
      /\ Alone(stack) <=> Alone(t) /\ Suspended(t) = {}
  BY <1>1, <1>2, SuspendedOn, AloneOn
<1>4. Dispatches' = Suspended(stack') /\ Alone(stack)' = Alone(stack') /\ stack' = t
  BY DEF Dispatches, Suspended, Alone, t
<1> QED
  BY <1>3, <1>4 DEF Dispatches

\* The format goes first; the peak and the blocks are those of pending.
LEMMA DispatchOrder == TypeOK /\ StreamInv /\ OrderInv /\ Dispatch => OrderInv'
<1> SUFFICES ASSUME TypeOK, StreamInv, OrderInv, Dispatch PROVE OrderInv'
  OBVIOUS
<1> DEFINE f == Frame("dispatch", "rate", pending, revision)
<1>1. /\ UNCHANGED <<running, session, level, lastBlock, fmt, buf, pc, nextSeq>>
      /\ pending' = Nothing
  BY DEF Dispatch, Taken, thread
<1>2. pending'.format.n = 0 /\ pending'.peak.buf = 0 /\ pending'.blocks = <<>>
  BY <1>1 DEF Nothing, NoFormat, NoPeak
<1>3. /\ pending.format.n # 0 => format' = pending.format
      /\ pending.format.n = 0 => format' = format
  BY DEF Dispatch
<1>4. f \in FrameType /\ f.op = "dispatch" /\ f.at = "rate" /\ f.snap = pending
  BY DEF TypeOK, Frame, FrameType
<1>5. stack' = <<App, f>> \o stack \/ stack' = <<f>> \o stack
  BY DEF Dispatch, Snapshot
<1>6. ~nested' => ~nested /\ Dispatches = {}
  BY DEF Dispatch, Dispatches, Suspended
<1> HIDE DEF f
<1>7. Dispatches' = {f} \cup Dispatches /\ (Dispatches = {} => Alone(stack)')
  BY <1>4, <1>5, DispatchPushed
<1>8. /\ format'.n = format.n \/ format'.n = fmt.n
      /\ format'.n \in Nat /\ format.n <= format'.n /\ format'.n <= fmt.n
      /\ pending.format.n <= format'.n
  BY <1>3, OrderTypes DEF OrderInv, ThreadRuns
<1>9. ThreadRuns'
  <2>1. running /\ Negotiated => format'.n = fmt.n
    BY <1>3 DEF OrderInv, ThreadRuns
  <2> QED
    BY <1>1, <1>2, <1>4, <1>7, <1>8, <2>1 DEF OrderInv, ThreadRuns, Negotiated
<1>10. FormatOrder'
  <2>1. \A n \in Nat : n <= format.n \/ n <= pending.format.n => n <= format'.n
    BY <1>8, OrderTypes
  <2>2. \A i \in DOMAIN pending.blocks : pending.blocks[i].fmt <= format'.n
    BY <2>1, OrderTypes, BlockTypes DEF OrderInv, FormatOrder
  <2>3. \A g \in Dispatches : \A i \in DOMAIN g.snap.blocks : g.snap.blocks[i].fmt <= format'.n
    BY <2>1, OrderTypes, BlockTypes DEF OrderInv, FormatOrder
  <2>4. lastBlock.fmt <= format'.n
    BY <2>1, OrderTypes DEF OrderInv, FormatOrder, FormatBeforeBlock
  <2> QED
    BY <1>1, <1>2, <1>4, <1>7, <2>2, <2>3, <2>4 DEF FormatOrder, FormatBeforeBlock
<1>11. ASSUME OneAtATime, Dispatches = {} PROVE OneAtATime'
  <2>1. PeakOrder'
    <3>1. 0 <= buf
      BY DEF TypeOK
    <3> QED
      BY <1>1, <1>2, <1>4, <1>7, <1>11, <3>1 DEF OneAtATime, PeakOrder
  <2>2. LevelOrder'
    <3>1. Announced \subseteq Announced'
      BY <1>1, <1>4, <1>7, <1>11 DEF Announced, Unshown
    <3>2. \A i \in DOMAIN pending.blocks :
            pending.blocks[i].buf <= level.buf \/ pending.blocks[i].buf <= f.snap.peak.buf
      BY <1>4, <1>11 DEF OneAtATime, LevelOrder, Announced
    <3> QED
      BY <1>1, <1>2, <1>4, <1>7, <1>11, <3>1, <3>2 DEF OneAtATime, LevelOrder, Unshown
  <2>3. BlockOrder'
    <3> DEFINE q == pending.blocks
               n == Len(q)
    <3>1. q \in Seq(BlockType) /\ n \in Nat /\ nextSeq \in Nat /\ lastBlock.seq \in Int
      BY OrderTypes DEF TypeOK
    <3>2. DOMAIN q = 1..n /\ \A i \in DOMAIN q : q[i].seq = nextSeq - n + i - 1
      BY <3>1 DEF StreamInv, QueueIsNewest
    <3>3. lastBlock.seq < nextSeq - n
      BY <1>11 DEF OneAtATime, BlockOrder
    <3> HIDE DEF q, n
    <3>4. \A i \in DOMAIN q : lastBlock.seq < q[i].seq /\ q[i].seq < nextSeq
      BY <3>1, <3>2, <3>3
    <3>5. \A i, j \in DOMAIN q : i < j => q[i].seq < q[j].seq
      BY <3>1, <3>2
    <3>6. nextSeq' - Len(pending'.blocks) = nextSeq
      BY <1>1, <1>2, <3>1
    <3>7. lastBlock.seq < nextSeq
      BY <3>1, <3>3
    <3>8. f.snap.blocks = q
      BY <1>4 DEF q
    <3> QED
      BY <1>1, <1>7, <1>11, <3>4, <3>5, <3>6, <3>7, <3>8 DEF BlockOrder
  <2> QED
    BY <1>7, <1>11, <2>1, <2>2, <2>3 DEF OneAtATime
<1> QED
  BY <1>6, <1>9, <1>10, <1>11 DEF OrderInv

\* Steps of the dispatch on top that leave its blocks alone.
LEMMA GoOnOrder ==
  ASSUME TypeOK, NEW place \in {"peak", "blocks"}, NEW handler \in BOOLEAN,
         TopIs("dispatch"), GoOn(place, handler)
  PROVE  LET f == Head(stack)
             g == [f EXCEPT !.at = place]
         IN  /\ f \in FrameType /\ g \in FrameType /\ f \in Dispatches
             /\ g.at = place /\ g.snap = f.snap
             /\ Dispatches' \subseteq {g} \cup Dispatches
             /\ Alone(stack) => /\ Dispatches = {f} /\ Dispatches' = {g}
                                /\ Alone(stack)'
<1> DEFINE f == Head(stack)
           g == [f EXCEPT !.at = place]
<1>1. f \in FrameType /\ f.op = "dispatch"
  BY OrderTypes, TopOf DEF TopIs
<1>2. g \in FrameType /\ g.op = "dispatch" /\ g.at = place /\ g.snap = f.snap
  BY <1>1 DEF FrameType
<1>3. stack' = <<g>> \o Tail(stack) \/ stack' = <<App, g>> \o Tail(stack)
  BY DEF GoOn
<1> HIDE DEF g
<1>4. /\ Head(stack) \in FrameType /\ Head(stack) \in Dispatches
      /\ Dispatches' \subseteq {g} \cup Dispatches
      /\ Alone(stack) => /\ Dispatches = {Head(stack)} /\ Dispatches' = {g}
                         /\ Alone(stack)'
  BY <1>2, <1>3, TopGoesOn
<1> QED
  BY <1>2, <1>4 DEF g

LEMMA DispatchRateOrder == TypeOK /\ OrderInv /\ DispatchRate => OrderInv'
<1> SUFFICES ASSUME TypeOK, OrderInv, DispatchRate PROVE OrderInv'
  OBVIOUS
<1> DEFINE f == Head(stack)
           g == [f EXCEPT !.at = "peak"]
           changed == f.snap.rate.has /\ StillCurrent(f)
                        /\ graphRate.rate # f.snap.rate.rate
<1>1. /\ UNCHANGED <<running, session, format, level, lastBlock, pending, fmt, buf, pc,
                     nextSeq, nested>>
      /\ TopIs("dispatch") /\ f.at = "rate" /\ GoOn("peak", changed)
  BY DEF DispatchRate, At, queue, thread
<1>2. changed \in BOOLEAN
  <2>1. f \in FrameType
    BY <1>1, OrderTypes, TopOf DEF TopIs
  <2> QED
    BY <2>1 DEF StillCurrent
<1> HIDE DEF changed
<1>3. /\ f \in FrameType /\ g \in FrameType /\ f \in Dispatches
      /\ g.at = "peak" /\ g.snap = f.snap
      /\ Dispatches' \subseteq {g} \cup Dispatches
      /\ Alone(stack) => Dispatches = {f} /\ Dispatches' = {g} /\ Alone(stack)'
  BY <1>1, <1>2, GoOnOrder
<1> HIDE DEF f, g
<1>4. ThreadRuns'
  BY <1>1, <1>3 DEF OrderInv, ThreadRuns, Negotiated
<1>5. FormatOrder'
  BY <1>1, <1>3 DEF OrderInv, FormatOrder, FormatBeforeBlock
<1>6. ASSUME OneAtATime PROVE OneAtATime'
  <2>1. Alone(stack)' /\ Dispatches = {f} /\ Dispatches' = {g} /\ Unshown(f) /\ Unshown(g)
    BY <1>1, <1>3, <1>6 DEF OneAtATime, Unshown
  <2>2. PeakOrder'
    BY <1>1, <1>3, <1>6, <2>1 DEF OneAtATime, PeakOrder, Unshown
  <2>3. Announced' = Announced
    BY <1>1, <1>3, <2>1 DEF Announced, Unshown
  <2>4. LevelOrder'
    BY <1>1, <1>3, <1>6, <2>1, <2>3 DEF OneAtATime, LevelOrder, Unshown
  <2>5. BlockOrder'
    BY <1>1, <1>3, <1>6, <2>1 DEF OneAtATime, BlockOrder
  <2> QED
    BY <2>1, <2>2, <2>4, <2>5 DEF OneAtATime
<1> QED
  BY <1>1, <1>4, <1>5, <1>6 DEF OrderInv

\* The peak is emitted, or there is none, or the stream does not run and
\* nothing that could start it comes before the blocks.
LEMMA DispatchPeakOrder == TypeOK /\ OrderInv /\ DispatchPeak => OrderInv'
<1> SUFFICES ASSUME TypeOK, OrderInv, DispatchPeak PROVE OrderInv'
  OBVIOUS
<1> DEFINE f == Head(stack)
           g == [f EXCEPT !.at = "blocks"]
           emits == f.snap.peak.buf # 0 /\ running
<1>1. /\ UNCHANGED <<running, session, format, lastBlock, pending, fmt, buf, pc, nextSeq, nested>>
      /\ TopIs("dispatch") /\ f.at = "peak" /\ GoOn("blocks", emits)
      /\ level' = IF emits THEN f.snap.peak ELSE level
  BY DEF DispatchPeak, At, queue, thread
<1>2. emits \in BOOLEAN
  BY DEF TypeOK
<1>3. /\ f \in FrameType /\ g \in FrameType /\ f \in Dispatches
      /\ g.at = "blocks" /\ g.snap = f.snap
      /\ Dispatches' \subseteq {g} \cup Dispatches
      /\ Alone(stack) => Dispatches = {f} /\ Dispatches' = {g} /\ Alone(stack)'
  <2> HIDE DEF emits
  <2> QED
    BY <1>1, <1>2, GoOnOrder
<1>4. ~emits => TopIs("dispatch")'
  <2>1. ~emits => stack' = <<g>> \o Tail(stack)
    BY <1>1 DEF GoOn
  <2>2. g.op = "dispatch" /\ Tail(stack) \in Seq(FrameType)
    BY <1>1, <1>3, OrderTypes DEF TopIs, FrameType
  <2> HIDE DEF g, emits
  <2>3. Head(<<g>> \o Tail(stack)) = g /\ <<g>> \o Tail(stack) # <<>>
    BY <1>3, <2>2
  <2> QED
    BY <2>1, <2>2, <2>3 DEF TopIs
<1> HIDE DEF f, g
<1>5. ThreadRuns'
  BY <1>1, <1>3 DEF OrderInv, ThreadRuns, Negotiated
<1>6. FormatOrder'
  BY <1>1, <1>3 DEF OrderInv, FormatOrder, FormatBeforeBlock
<1>7. ASSUME OneAtATime PROVE OneAtATime'
  <2>1. /\ Alone(stack)' /\ Dispatches = {f} /\ Dispatches' = {g}
        /\ Unshown(f) /\ ~Unshown(g)
    BY <1>1, <1>3, <1>7 DEF OneAtATime, Unshown
  <2>2. /\ level.buf \in Nat /\ level'.buf \in Nat /\ f.snap.peak.buf \in Nat
        /\ level.buf <= level'.buf /\ level'.buf <= buf
        /\ pending.peak.buf # 0 => level'.buf <= pending.peak.buf
        /\ emits => level'.buf = f.snap.peak.buf
        /\ f.snap.peak.buf = 0 => f.snap.peak.buf <= level'.buf
    BY <1>1, <1>3, <1>7, <2>1, OrderTypes DEF OneAtATime, PeakOrder
  <2>3. PeakOrder'
    BY <1>1, <1>3, <1>7, <2>1, <2>2 DEF OneAtATime, PeakOrder
  <2>4. LevelOrder'
    <3>1. \A n \in Nat : n <= level.buf => n <= level'.buf
      BY <2>2
    <3>2. running => \A n \in Nat : n <= f.snap.peak.buf => n <= level'.buf
      BY <2>2
    <3>3. running => Announced \subseteq Announced'
      BY <1>1, <2>1, <3>1, <3>2 DEF Announced
    <3>4. pc = "block" => running
      BY DEF OrderInv, ThreadRuns
    <3>5. pending.blocks # <<>> => running
      BY DEF OrderInv, ThreadRuns
    <3>6. \A i \in DOMAIN pending.blocks : pending.blocks[i].buf \in Announced'
      <4>1. CASE running
        BY <1>7, <3>3, <4>1 DEF OneAtATime, LevelOrder
      <4>2. CASE pending.blocks = <<>>
        BY <4>2
      <4> QED
        BY <3>5, <4>1, <4>2
    <3>7. pc = "block" => buf \in Announced'
      BY <1>7, <3>3, <3>4 DEF OneAtATime, LevelOrder
    <3>8. ASSUME NEW i \in DOMAIN f.snap.blocks
          PROVE  \/ f.snap.blocks[i].buf <= level'.buf
                 \/ ~running /\ TopIs("dispatch")'
      <4>1. f.snap.blocks[i].buf \in Nat
        BY <1>3, OrderTypes, BlockTypes
      <4>2. \/ f.snap.blocks[i].buf <= level.buf
            \/ f.snap.blocks[i].buf <= f.snap.peak.buf
        BY <1>1, <1>7, <2>1 DEF OneAtATime, LevelOrder
      <4> QED
        BY <1>4, <3>1, <3>2, <4>1, <4>2
    <3>9. lastBlock.buf <= level'.buf
      BY <1>7, <3>1, OrderTypes DEF OneAtATime, LevelOrder
    <3> QED
      BY <1>1, <1>3, <2>1, <3>6, <3>7, <3>8, <3>9 DEF LevelOrder
  <2>5. BlockOrder'
    BY <1>1, <1>3, <1>7, <2>1 DEF OneAtATime, BlockOrder
  <2> QED
    BY <2>1, <2>3, <2>4, <2>5 DEF OneAtATime
<1> QED
  BY <1>1, <1>5, <1>6, <1>7 DEF OrderInv

\* The head of the blocks is taken: it is newer than the last one emitted,
\* and older than what is left of them.
LEMMA DispatchBlockOrder == TypeOK /\ OrderInv /\ DispatchBlock => OrderInv'
<1> SUFFICES ASSUME TypeOK, OrderInv, DispatchBlock PROVE OrderInv'
  OBVIOUS
<1> DEFINE f == Head(stack)
           q == f.snap.blocks
           g == [f EXCEPT !.snap.blocks = Tail(q)]
<1>1. /\ UNCHANGED <<running, session, format, level, pending, fmt, buf, pc, nextSeq, nested>>
      /\ TopIs("dispatch") /\ f.at = "blocks" /\ q # <<>>
      /\ lastBlock' = IF running THEN Head(q) ELSE lastBlock
      /\ stack' = (IF running THEN <<App, g>> ELSE <<g>>) \o Tail(stack)
  BY DEF DispatchBlock, At, queue, thread
<1>2. f \in FrameType /\ f.op = "dispatch"
  BY <1>1, OrderTypes, TopOf DEF TopIs
<1>3. q \in Seq(BlockType)
  BY <1>2 DEF FrameType, PendingType
<1>4. /\ g \in FrameType /\ g.op = "dispatch" /\ g.at = "blocks"
      /\ g.snap.peak = f.snap.peak /\ g.snap.blocks = Tail(q)
  <2>1. f.snap \in PendingType /\ Tail(q) \in Seq(BlockType)
    BY <1>1, <1>2, <1>3 DEF FrameType
  <2>2. [f.snap EXCEPT !.blocks = Tail(q)] \in PendingType
    BY <2>1 DEF PendingType
  <2>3. g = [f EXCEPT !.snap = [f.snap EXCEPT !.blocks = Tail(q)]]
    OBVIOUS
  <2> QED
    BY <1>1, <1>2, <2>1, <2>2, <2>3 DEF FrameType, PendingType
<1> HIDE DEF g
<1>5. /\ f \in Dispatches
      /\ Dispatches' \subseteq {g} \cup Dispatches
      /\ Alone(stack) => Dispatches = {f} /\ Dispatches' = {g} /\ Alone(stack)'
  BY <1>1, <1>4, TopGoesOn
<1>6. ~running => TopIs("dispatch")'
  <2>1. ~running => stack' = <<g>> \o Tail(stack)
    BY <1>1
  <2>2. Tail(stack) \in Seq(FrameType)
    BY <1>1, OrderTypes DEF TopIs
  <2>3. Head(<<g>> \o Tail(stack)) = g /\ <<g>> \o Tail(stack) # <<>>
    BY <1>4, <2>2
  <2> QED
    BY <1>4, <2>1, <2>3 DEF TopIs
<1> HIDE DEF f
<1>7. /\ 1 \in DOMAIN q /\ Head(q) = q[1]
      /\ \A i \in DOMAIN Tail(q) : /\ i \in Nat /\ i + 1 \in DOMAIN q
                                   /\ 1 < i + 1 /\ Tail(q)[i] = q[i + 1]
  <2> HIDE DEF q
  <2> QED
    BY <1>1, <1>3
<1>8. \A i \in DOMAIN q : q[i].seq \in Int /\ q[i].buf \in Nat /\ q[i].fmt \in Nat
  BY <1>3, BlockTypes
<1>9. ThreadRuns'
  BY <1>1, <1>4, <1>5 DEF OrderInv, ThreadRuns, Negotiated
<1>10. FormatOrder'
  <2>1. \A i \in DOMAIN q : q[i].fmt <= format.n
    BY <1>5 DEF OrderInv, FormatOrder
  <2>2. \A i \in DOMAIN Tail(q) : Tail(q)[i].fmt <= format.n
    BY <1>7, <2>1
  <2>3. lastBlock'.fmt <= format.n
    BY <1>1, <1>7, <2>1 DEF OrderInv, FormatOrder, FormatBeforeBlock
  <2> QED
    BY <1>1, <1>4, <1>5, <2>2, <2>3 DEF OrderInv, FormatOrder, FormatBeforeBlock
<1>11. ASSUME OneAtATime PROVE OneAtATime'
  <2>1. /\ Alone(stack)' /\ Dispatches = {f} /\ Dispatches' = {g}
        /\ ~Unshown(f) /\ ~Unshown(g)
    BY <1>1, <1>4, <1>5, <1>11 DEF OneAtATime, Unshown
  <2>2. PeakOrder'
    BY <1>1, <1>4, <1>11, <2>1 DEF OneAtATime, PeakOrder
  <2>3. Announced' = Announced
    BY <1>1, <2>1 DEF Announced
  <2>4. LevelOrder'
    <3>1. \A i \in DOMAIN q : q[i].buf <= level.buf \/ ~running
      BY <1>11, <2>1 DEF OneAtATime, LevelOrder
    <3>2. \A i \in DOMAIN Tail(q) : Tail(q)[i].buf <= level.buf \/ ~running
      BY <1>7, <3>1
    <3>3. lastBlock'.buf <= level.buf
      BY <1>1, <1>7, <1>11, <3>1 DEF OneAtATime, LevelOrder
    <3> QED
      BY <1>1, <1>4, <1>6, <1>11, <2>1, <2>3, <3>2, <3>3 DEF OneAtATime, LevelOrder
  <2>5. BlockOrder'
    <3>1. /\ \A i \in DOMAIN q : /\ lastBlock.seq < q[i].seq
                                 /\ q[i].seq < nextSeq - Len(pending.blocks)
          /\ \A i, j \in DOMAIN q : i < j => q[i].seq < q[j].seq
          /\ lastBlock.seq < nextSeq - Len(pending.blocks)
      BY <1>11, <2>1 DEF OneAtATime, BlockOrder
    <3>2. lastBlock'.seq < nextSeq - Len(pending.blocks)
      BY <1>1, <1>7, <3>1
    <3>3. \A i \in DOMAIN Tail(q) : /\ lastBlock.seq < Tail(q)[i].seq
                                    /\ q[1].seq < Tail(q)[i].seq
                                    /\ Tail(q)[i].seq < nextSeq - Len(pending.blocks)
      BY <1>7, <3>1
    <3>4. \A i \in DOMAIN Tail(q) : lastBlock'.seq < Tail(q)[i].seq
      BY <1>1, <1>7, <3>3
    <3>5. ASSUME NEW i \in DOMAIN Tail(q), NEW j \in DOMAIN Tail(q), i < j
          PROVE  Tail(q)[i].seq < Tail(q)[j].seq
      <4>1. i + 1 < j + 1
        BY <1>7, <3>5
      <4> QED
        BY <1>7, <3>1, <4>1
    <3> QED
      BY <1>1, <1>4, <2>1, <3>2, <3>3, <3>4, <3>5 DEF BlockOrder
  <2> QED
    BY <2>1, <2>2, <2>4, <2>5 DEF OneAtATime
<1> QED
  BY <1>1, <1>9, <1>10, <1>11 DEF OrderInv

\* Every peak of an ended dispatch was emitted or passed over before.
LEMMA DispatchEndOrder == TypeOK /\ OrderInv /\ DispatchEnd => OrderInv'
<1> SUFFICES ASSUME TypeOK, OrderInv, DispatchEnd PROVE OrderInv'
  OBVIOUS
<1>1. /\ UNCHANGED <<running, session, format, level, lastBlock, pending, fmt, buf, pc,
                     nextSeq, nested>>
      /\ TopIs("dispatch") /\ Head(stack).at = "blocks" /\ stack' = Tail(stack)
  BY DEF DispatchEnd, At, public, queue, thread
<1>2. /\ Dispatches' \subseteq Dispatches
      /\ Alone(stack) => Dispatches' = {} /\ Alone(stack)'
  BY <1>1, TopEnds
<1>3. ThreadRuns' /\ FormatOrder'
  BY <1>1, <1>2 DEF OrderInv, ThreadRuns, FormatOrder, FormatBeforeBlock, Negotiated
<1>4. ASSUME OneAtATime PROVE OneAtATime'
  <2>1. Alone(stack)' /\ Dispatches' = {}
    BY <1>2, <1>4 DEF OneAtATime
  <2>2. \A f \in Dispatches : ~Unshown(f)
    <3>1. Alone(stack) => Dispatches = {Head(stack)}
      <4>1. stack = <<Head(stack)>> \o Tail(stack) /\ Head(stack) \in FrameType
            /\ Tail(stack) \in Seq(FrameType) /\ Head(stack).op = "dispatch"
        BY <1>1, OrderTypes, TopOf DEF TopIs
      <4> DEFINE h == Head(stack)
                 t == Tail(stack)
      <4>2. stack = <<h>> \o t /\ h \in FrameType /\ t \in Seq(FrameType) /\ h.op = "dispatch"
        BY <4>1
      <4> HIDE DEF h, t
      <4>3. Suspended(stack) = {h} \cup Suspended(t) /\ (Alone(stack) => Suspended(t) = {})
        BY <4>2, SuspendedOn, AloneOn
      <4> QED
        BY <4>3 DEF Dispatches, h
    <3> QED
      BY <1>1, <1>4, <3>1 DEF OneAtATime, Unshown
  <2>3. Announced \subseteq Announced'
    BY <1>1, <2>2 DEF Announced
  <2>4. PeakOrder'
    BY <1>1, <1>4, <2>1 DEF OneAtATime, PeakOrder
  <2>5. LevelOrder'
    BY <1>1, <1>4, <2>1, <2>3 DEF OneAtATime, LevelOrder
  <2>6. BlockOrder'
    BY <1>1, <1>4, <2>1 DEF OneAtATime, BlockOrder
  <2> QED
    BY <2>1, <2>4, <2>5, <2>6 DEF OneAtATime
<1> QED
  BY <1>1, <1>3, <1>4 DEF OrderInv

LEMMA StutterOrder == OrderInv /\ UNCHANGED vars => OrderInv'
<1> SUFFICES ASSUME OrderInv, UNCHANGED vars PROVE OrderInv'
  OBVIOUS
<1>1. UNCHANGED <<running, session, format, level, lastBlock, pending, fmt, buf, pc,
                  nextSeq, nested, stack>>
  BY DEF vars, public, queue, thread
<1>2. Dispatches' = Dispatches /\ Alone(stack)' = Alone(stack)
      /\ TopIs("dispatch")' = TopIs("dispatch")
  BY <1>1, SameStack
<1>3. ThreadRuns' /\ FormatOrder'
  BY <1>1, <1>2 DEF OrderInv, ThreadRuns, FormatOrder, FormatBeforeBlock, Negotiated
<1>4. ASSUME OneAtATime PROVE OneAtATime'
  BY <1>1, <1>2, <1>4
     DEF OneAtATime, PeakOrder, LevelOrder, BlockOrder, Announced, Unshown
<1> QED
  BY <1>1, <1>3, <1>4 DEF OrderInv

LEMMA OrderInvariant == Spec => [](TypeOK /\ OrderInv)
<1>1. TypeOK /\ StreamInv /\ OrderInv /\ [Next]_vars => OrderInv'
  BY ParamChangedOrder, ProcessOrder, ProcessSkipsOrder, ProcessPeakOrder,
     ProcessBlockOrder, StartOrder, StopOrder, StopNotifiesOrder, HandlerReturnOrder,
     DispatchOrder, DispatchRateOrder, DispatchPeakOrder, DispatchBlockOrder,
     DispatchEndOrder, StutterOrder
     DEF Next, MainStep, ThreadStep
<1> QED
  BY OrderInit, StreamInvariant, <1>1, PTL DEF Spec

\* No block reaches the application before the format it was captured in,
\* dispatches inside handlers included (pwg-stream.c:276-312).
THEOREM FormatsComeFirst == Spec => []FormatBeforeBlock
<1>1. OrderInv => FormatBeforeBlock
  BY DEF OrderInv, FormatOrder
<1> QED
  BY OrderInvariant, <1>1, PTL

\* No block reaches the application before a level that covers it, unless a
\* handler dispatched (pwg-stream.c:305-312).
THEOREM LevelsComeFirst == Spec => []LevelBeforeBlock
<1>1. OrderInv => LevelBeforeBlock
  BY DEF OrderInv, OneAtATime, LevelOrder, LevelBeforeBlock
<1> QED
  BY OrderInvariant, <1>1, PTL

\* Blocks reach the application in the order of their sequence numbers,
\* across drops and restarts, unless a handler dispatched (pwg-stream.c:308-311).
THEOREM BlocksComeInOrder == Spec => InOrderUnlessNested
<1>1. TypeOK /\ OrderInv /\ [Next]_vars
        => [lastBlock' # lastBlock => nested \/ lastBlock'.seq > lastBlock.seq]_vars
  <2> SUFFICES ASSUME TypeOK, OrderInv, Next, lastBlock' # lastBlock, ~nested
               PROVE  lastBlock'.seq > lastBlock.seq
    OBVIOUS
  <2>1. DispatchBlock
    BY DEF Next, MainStep, ThreadStep, Start, Stop, ParamChanged, Process, ProcessSkips,
           ProcessPeak, ProcessBlock, StopNotifies, HandlerReturn, Dispatch, DispatchRate,
           DispatchPeak, DispatchEnd, public
  <2> DEFINE f == Head(stack)
             q == f.snap.blocks
  <2>2. TopIs("dispatch") /\ q # <<>> /\ lastBlock' = Head(q)
    BY <2>1 DEF DispatchBlock, At
  <2>3. f \in Dispatches
    <3>1. stack \in Seq(FrameType) /\ stack # <<>> /\ Head(stack).op = "dispatch"
      BY <2>2, OrderTypes DEF TopIs
    <3>2. 1 \in DOMAIN stack /\ stack[1] = Head(stack)
      BY <3>1
    <3> QED
      BY <3>1, <3>2 DEF Dispatches, Suspended
  <2>4. q \in Seq(BlockType)
    BY <2>3, OrderTypes
  <2> HIDE DEF f
  <2>5. 1 \in DOMAIN q /\ Head(q) = q[1] /\ q[1].seq \in Int
    <3> HIDE DEF q
    <3>1. 1 \in DOMAIN q /\ Head(q) = q[1]
      BY <2>2, <2>4
    <3> QED
      BY <2>4, <3>1, BlockTypes
  <2>6. lastBlock.seq < q[1].seq
    BY <2>3, <2>5 DEF OrderInv, OneAtATime, BlockOrder
  <2> QED
    BY <2>2, <2>5, <2>6, OrderTypes
<1> QED
  BY OrderInvariant, <1>1, PTL DEF Spec, InOrderUnlessNested
=============================================================================
