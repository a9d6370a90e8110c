------------------------------- MODULE Stream -------------------------------
(***************************************************************************)
(* PwgStream: an audio capture with a PipeWire thread of its own that      *)
(* posts observations (format, graph rate, peak, audio blocks) under       *)
(* dispatch_lock, and one idle source that publishes them on the main      *)
(* thread, which may be inside the handlers of an earlier dispatch.        *)
(*                                                                         *)
(* A format, a rate and a peak carry the number of the start() they were   *)
(* observed under (of); a format is known by its number (n, fmt), a peak   *)
(* and a block by that of their last buffer (buf): history the properties  *)
(* need.  PipeWire, which negotiates a format before it delivers buffers,  *)
(* is external.                                                            *)
(***************************************************************************)
EXTENDS Integers, Sequences

CONSTANTS
  Rates,         \* graph rates PipeWire reports; 0 is an unknown rate
  MaxPending,    \* PWG_STREAM_MAX_PENDING_BLOCKS
  HandlerCalls,  \* what the application's signal handlers call back into
  MaxStart,      \* bound: calls of start()
  MaxRevision,   \* bound: graph_rate_revision
  MaxFormat,     \* bound: format negotiations
  MaxBuffer,     \* bound: process callbacks
  MaxDepth       \* bound: nested frames on the main thread's stack

ASSUME StreamAssumption ==
  /\ Rates \subseteq Nat /\ 0 \in Rates
  /\ MaxPending \in Nat \ {0}
  /\ {MaxStart, MaxRevision, MaxFormat, MaxBuffer, MaxDepth} \subseteq Nat

VARIABLES
  running, session,              \* session: the number of the last start()
  format, graphRate,             \* the public properties
  level, lastBlock,              \* the last signals emitted
  observed, revision,            \* observed_graph_rate, graph_rate_revision
  pending,                       \* what has_pending_* and pending_* hold
  dispatchPending, sources,      \* the flag, and the idle sources attached
  nextSeq,                       \* next_sequence
  fmt, buf, pc,                  \* the PipeWire thread: format, buffer, place
  stack,                         \* the main thread's frames, innermost first
  nested                         \* history: a dispatch ran inside another

public == <<format, graphRate, level, lastBlock>>
queue == <<pending, dispatchPending, sources>>
thread == <<fmt, buf, pc, observed, nextSeq>>
vars == <<running, session, revision, public, queue, thread, stack, nested>>

-----------------------------------------------------------------------------
NoFormat == [n |-> 0, of |-> 0]
NoRate == [has |-> FALSE, rate |-> 0, of |-> 0]
NoPeak == [buf |-> 0, of |-> 0]
NoBlock == [seq |-> -1, buf |-> 0, fmt |-> 0]

Nothing == [format |-> NoFormat, rate |-> NoRate, peak |-> NoPeak, blocks |-> <<>>]

\* A call on the main thread: what it took from pending, under which
\* graph_rate_revision, and which part of the dispatch comes next.
Frame(op, at, snap, rev) == [op |-> op, at |-> at, snap |-> snap, rev |-> rev]
App == Frame("app", "none", Nothing, 0)
Stopping == Frame("stop", "none", Nothing, 0)

TopIs(op) == stack # <<>> /\ Head(stack).op = op
MayCall(op, k) ==
  /\ stack = <<>> \/ (TopIs("app") /\ op \in HandlerCalls)
  /\ Len(stack) + k <= MaxDepth

Init ==
  /\ running = FALSE /\ session = 0 /\ revision = 0
  /\ format = NoFormat /\ graphRate = NoRate
  /\ level = NoPeak /\ lastBlock = NoBlock
  /\ pending = Nothing /\ dispatchPending = FALSE /\ sources = 0
  /\ observed = 0 /\ nextSeq = 0
  /\ fmt = NoFormat /\ buf = 0 /\ pc = "idle"
  /\ stack = <<>> /\ nested = FALSE

-----------------------------------------------------------------------------
(* The PipeWire thread.  Each Post is one region under dispatch_lock.      *)

\* pwg_stream_queue_dispatch_locked(): one idle source at a time.
Post(p) ==
  /\ pending' = p
  /\ dispatchPending' = TRUE
  /\ sources' = IF dispatchPending THEN sources ELSE sources + 1

\* Fault: a format that is already pending is kept.
WithFormatOnce(f) ==
  IF pending.format.n # 0 THEN pending ELSE [pending EXCEPT !.format = f]

WithFormat(f) == [pending EXCEPT !.format = f]

\* A format of this session has been negotiated.
Negotiated == fmt.n # 0 /\ fmt.of = session

\* pwg_stream_on_param_changed() with a raw audio format; any other
\* parameter changes nothing.
ParamChanged ==
  /\ running /\ pc = "idle"
  /\ fmt.n < MaxFormat
  /\ fmt' = [n |-> fmt.n + 1, of |-> session]
  /\ Post(WithFormat(fmt'))
  /\ UNCHANGED <<running, session, revision, public, buf, pc, observed, nextSeq,
                 stack, nested>>

\* pwg_stream_queue_graph_rate()
QueueRate(r) ==
  IF observed = r
    THEN UNCHANGED <<observed, revision, queue>>
    ELSE /\ revision < MaxRevision
         /\ observed' = r
         /\ revision' = revision + 1
         /\ Post([pending EXCEPT !.rate = [has |-> TRUE, rate |-> r, of |-> session]])

\* pwg_stream_on_process() up to the buffer: the rate when the time is known.
Process ==
  /\ running /\ pc = "idle" /\ Negotiated
  /\ buf < MaxBuffer
  /\ buf' = buf + 1
  /\ pc' = "buffer"
  /\ \/ \E r \in Rates : QueueRate(r)
     \/ UNCHANGED <<observed, revision, queue>>
  /\ UNCHANGED <<running, session, public, fmt, nextSeq, stack, nested>>

\* No buffer, or one that is not F32, is empty or is out of its bounds.
ProcessSkips ==
  /\ pc = "buffer"
  /\ pc' = "idle"
  /\ UNCHANGED <<running, session, revision, public, queue, fmt, buf, observed,
                 nextSeq, stack, nested>>

\* Fault: a peak that is already pending is kept.
WithPeakOnce(p) == IF pending.peak.buf # 0 THEN pending ELSE [pending EXCEPT !.peak = p]

\* The maximum of the pending peak and this one covers both.
WithPeak(p) == [pending EXCEPT !.peak = p]

\* pwg_stream_queue_peak()
ProcessPeak ==
  /\ pc = "buffer"
  /\ pc' = "block"
  /\ Post(WithPeak([buf |-> buf, of |-> session]))
  /\ UNCHANGED <<running, session, revision, public, fmt, buf, observed, nextSeq,
                 stack, nested>>

\* Fault: the block that goes is the one that came last.
TrimmedNewest(q) == IF Len(q) > MaxPending THEN SubSeq(q, 1, MaxPending) ELSE q

\* Fault: the limit is tested before the block is added.
TrimmedLate(q) == IF Len(q) > MaxPending + 1 THEN Tail(q) ELSE q

\* The oldest blocks go when the main thread does not keep up.
Trimmed(q) == IF Len(q) > MaxPending THEN Tail(q) ELSE q

\* pwg_stream_queue_audio_block(), when deliver_audio_blocks is set.
ProcessBlock ==
  /\ pc = "block"
  /\ pc' = "idle"
  /\ \/ /\ nextSeq' = nextSeq + 1
        /\ Post([pending EXCEPT !.blocks = Trimmed(Append(@,
             [seq |-> nextSeq, buf |-> buf, fmt |-> fmt.n]))])
     \/ UNCHANGED <<nextSeq, queue>>
  /\ UNCHANGED <<running, session, revision, public, fmt, buf, observed, stack, nested>>

-----------------------------------------------------------------------------
(* start() and stop() on the main thread.                                  *)

\* Fault: the pending format survives.
ClearedButFormat == [Nothing EXCEPT !.format = pending.format]

\* What stop() leaves pending, the thread having ended.
Cleared == Nothing

\* Fault: the rate last observed is not forgotten.
ForgetObservedNot == UNCHANGED observed

ForgetObserved == observed' = 0

\* The region of stop() under dispatch_lock.
ClearPending ==
  /\ revision < MaxRevision
  /\ revision' = revision + 1
  /\ pending' = Cleared
  /\ ForgetObserved

\* pwg_stream_start(): once its thread runs, or when a step of it failed and
\* stop() released what there was.
Start ==
  /\ MayCall("start", 1)
  /\ ~running
  /\ session < MaxStart
  /\ session' = session + 1
  /\ \/ /\ running' = TRUE
        /\ stack' = <<App>> \o stack
        /\ UNCHANGED <<revision, pending, observed>>
     \/ /\ ClearPending
        /\ UNCHANGED <<running, stack>>
  /\ UNCHANGED <<public, dispatchPending, sources, fmt, buf, pc, nextSeq, nested>>

\* pwg_stream_stop(): it waits for the callback the thread is in.  Handlers
\* of notify::graph-rate run before those of notify::running.
Stop ==
  /\ MayCall("stop", 2)
  /\ pc = "idle"
  /\ ClearPending
  /\ running' = FALSE
  /\ graphRate' = NoRate
  /\ stack' = (IF graphRate.rate # 0 THEN <<App>> ELSE <<>>)
              \o (IF running THEN <<Stopping>> ELSE <<>>) \o stack
  /\ UNCHANGED <<session, format, level, lastBlock, dispatchPending, sources,
                 fmt, buf, pc, nextSeq, nested>>

StopNotifies ==
  /\ TopIs("stop")
  /\ stack' = <<App>> \o Tail(stack)
  /\ UNCHANGED <<running, session, revision, public, queue, thread, nested>>

HandlerReturn ==
  /\ TopIs("app")
  /\ stack' = Tail(stack)
  /\ UNCHANGED <<running, session, revision, public, queue, thread, nested>>

-----------------------------------------------------------------------------
(* pwg_stream_dispatch_pending(), the callback of the idle source.         *)

\* Fault: dispatch_pending stays set.
TakenFlagKept == sources' = sources - 1 /\ pending' = Nothing /\ UNCHANGED dispatchPending

Taken == sources' = sources - 1 /\ pending' = Nothing /\ dispatchPending' = FALSE

\* Fault: each block is put before those taken earlier.
SnapshotReversed ==
  LET q == pending.blocks
  IN  [pending EXCEPT !.blocks = [i \in DOMAIN q |-> q[Len(q) + 1 - i]]]

Snapshot == pending

\* The snapshot, and the format with the notifies of its three properties.
\* A handler dispatches when it iterates the main context.
Dispatch ==
  /\ MayCall("iterate", 2)
  /\ sources > 0
  /\ Taken
  /\ LET frame == Frame("dispatch", "rate", Snapshot, revision)
     IN  IF pending.format.n # 0
           THEN format' = pending.format /\ stack' = <<App, frame>> \o stack
           ELSE UNCHANGED format /\ stack' = <<frame>> \o stack
  /\ nested' = (nested \/ \E i \in DOMAIN stack : stack[i].op = "dispatch")
  /\ UNCHANGED <<running, session, revision, graphRate, level, lastBlock, thread>>

At(place) == TopIs("dispatch") /\ Head(stack).at = place

\* The frame goes on to place, after a handler or at once.
GoOn(place, handler) ==
  LET frame == [Head(stack) EXCEPT !.at = place]
  IN  stack' = (IF handler THEN <<App, frame>> ELSE <<frame>>) \o Tail(stack)

\* Fault: only running is looked at again.
StillCurrentRunning(f) == running

\* Was the rate of the snapshot superseded while the format handlers ran?
StillCurrent(f) == running /\ f.rev = revision

DispatchRate ==
  /\ At("rate")
  /\ LET f == Head(stack)
         changed == f.snap.rate.has /\ StillCurrent(f)
                    /\ graphRate.rate # f.snap.rate.rate
     IN  /\ graphRate' = IF changed THEN f.snap.rate ELSE graphRate
         /\ GoOn("peak", changed)
  /\ UNCHANGED <<running, session, revision, format, level, lastBlock, queue,
                 thread, nested>>

DispatchPeak ==
  /\ At("peak")
  /\ LET emits == Head(stack).snap.peak.buf # 0 /\ running
     IN  /\ level' = IF emits THEN Head(stack).snap.peak ELSE level
         /\ GoOn("blocks", emits)
  /\ UNCHANGED <<running, session, revision, format, graphRate, lastBlock, queue,
                 thread, nested>>

\* One block of the snapshot, emitted when the stream is running by then.
DispatchBlock ==
  /\ At("blocks")
  /\ LET q == Head(stack).snap.blocks
         rest == [Head(stack) EXCEPT !.snap.blocks = Tail(q)]
     IN  /\ q # <<>>
         /\ lastBlock' = IF running THEN Head(q) ELSE lastBlock
         /\ stack' = (IF running THEN <<App, rest>> ELSE <<rest>>) \o Tail(stack)
  /\ UNCHANGED <<running, session, revision, format, graphRate, level, queue,
                 thread, nested>>

DispatchEnd ==
  /\ At("blocks") /\ Head(stack).snap.blocks = <<>>
  /\ stack' = Tail(stack)
  /\ UNCHANGED <<running, session, revision, public, queue, thread, nested>>

-----------------------------------------------------------------------------
ThreadStep == ProcessSkips \/ ProcessPeak \/ ProcessBlock

MainStep ==
  \/ StopNotifies \/ HandlerReturn
  \/ Dispatch \/ DispatchRate \/ DispatchPeak \/ DispatchBlock \/ DispatchEnd

Next == Start \/ Stop \/ ParamChanged \/ Process \/ ThreadStep \/ MainStep

\* Handlers return, the thread ends the callback it is in, and the
\* application runs its main loop whenever no call of it is on the stack.
FairSpec == Init /\ [][Next]_vars /\ WF_vars(MainStep) /\ WF_vars(ThreadStep)

Spec == Init /\ [][Next]_vars

-----------------------------------------------------------------------------
(* Properties.                                                             *)

FormatType == [n : Nat, of : Nat]
RateType == [has : BOOLEAN, rate : Rates, of : Nat]
PeakType == [buf : Nat, of : Nat]
BlockType == [seq : Int, buf : Nat, fmt : Nat]
PendingType ==
  [format : FormatType, rate : RateType, peak : PeakType, blocks : Seq(BlockType)]

\* Types; the block queue never holds more than its limit (pwg-stream.c:408).
TypeOK ==
  /\ running \in BOOLEAN /\ session \in Nat /\ revision \in Nat
  /\ format \in FormatType /\ graphRate \in RateType
  /\ level \in PeakType /\ lastBlock \in BlockType
  /\ pending \in PendingType /\ Len(pending.blocks) <= MaxPending
  /\ dispatchPending \in BOOLEAN /\ sources \in Nat
  /\ observed \in Rates /\ nextSeq \in Nat
  /\ fmt \in FormatType /\ buf \in Nat /\ pc \in {"idle", "buffer", "block"}
  /\ stack \in Seq([op : {"app", "stop", "dispatch"},
                    at : {"none", "rate", "peak", "blocks"},
                    snap : PendingType, rev : Nat])
  /\ nested \in BOOLEAN

\* No observation is stranded: while anything is pending an idle source that
\* will publish it is attached, across any stop(), restart and dispatch
\* inside a handler (dispatch_pending, pwg-stream.c:322-325).
NothingStranded == pending # Nothing => sources > 0

\* When the main thread falls behind, the queue is the newest blocks without
\* a gap: what is dropped is always the oldest (pwg-stream.c:405-412).
QueueIsNewest ==
  LET q == pending.blocks
  IN  \A i \in DOMAIN q : q[i].seq = nextSeq - Len(q) + i - 1

\* A format that is published was negotiated by the session that runs now:
\* stop() takes back what the dead session left (pwg-stream.c:1062-1063).
FormatFresh == [][format' # format => running /\ format'.of = session]_vars

\* A block reaches the application after the format it was captured in
\* (format before blocks in each dispatch, pwg-stream.c:276-312).
FormatBeforeBlock == lastBlock.fmt <= format.n

\* A known graph rate belongs to the stream that runs now, even when format
\* handlers restarted it between snapshot and publication
\* (pwg-stream.c:293-301).
RateOfSession == graphRate.rate # 0 => running /\ graphRate.of = session

\* A level signal that covers a block's samples precedes the block, in
\* whichever dispatch each was taken, unless a handler dispatched.
LevelBeforeBlock == nested \/ lastBlock.buf <= level.buf

\* Blocks come in the order of their sequence numbers, across drops and
\* restarts, unless a handler dispatched.
InOrderUnlessNested ==
  [][lastBlock' # lastBlock => nested \/ lastBlock'.seq > lastBlock.seq]_vars

\* "the negotiated sample rate, or 0 before format negotiation"
\* (pwg-stream.h:210): a stream whose format is yet to be negotiated has none.
NoFormatBeforeNegotiation == running /\ ~Negotiated => format.n = 0

\* "Never publish a snapshot superseded while those handlers ran"
\* (pwg-stream.c:294): a level is of the session that runs now.
LevelOfSession == [][level' # level => level'.of = session]_vars

\* The public rate catches up with the observed one while the stream runs,
\* in particular after a restart at the rate of the session before
\* (observed_graph_rate is reset at pwg-stream.c:1059).
RateConverges ==
  (running /\ observed # graphRate.rate) ~> (~running \/ observed = graphRate.rate)

-----------------------------------------------------------------------------
(* Why the session, queue and scheduling properties hold, whatever the     *)
(* handlers call: together with TypeOK these are inductive.                *)

\* The flag and the source agree, and cover whatever is pending.
Scheduled ==
  /\ sources = IF dispatchPending THEN 1 ELSE 0
  /\ pending # Nothing => dispatchPending

\* Nothing of an ended session is pending.
PendingOfSession ==
  /\ pending.format.n # 0 => running /\ pending.format.of = session
  /\ pending.rate.has => running /\ pending.rate.of = session

\* A suspended dispatch whose revision is the current one took its rate in
\* the running session: stop() opens a new revision.
FramesOfSession ==
  \A i \in DOMAIN stack :
    /\ stack[i].rev <= revision
    /\ stack[i].snap.rate.has /\ stack[i].rev = revision
         => running /\ stack[i].snap.rate.of = session

StreamInv ==
  Scheduled /\ PendingOfSession /\ FramesOfSession /\ RateOfSession /\ QueueIsNewest
=============================================================================
