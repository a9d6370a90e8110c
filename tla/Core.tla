-------------------------------- MODULE Core --------------------------------
(***************************************************************************)
(* PwgCore: one PipeWire connection, its loop thread, and the blocking     *)
(* sync() roundtrip (pwg-core.c).  The wrappers (Registry, ...) extend     *)
(* this module and share its connection, its main context and its stack.   *)
(*                                                                         *)
(* Two threads act.  The main thread is a stack of frames, innermost       *)
(* first: the handlers of the core's own notify::connected ("notify") and  *)
(* the application's other handlers and sources ("app"), sync() blocked in *)
(* its wait loop ("wait"), sync() iterating the main context ("drain"),    *)
(* and calls suspended by a handler they triggered.  The loop thread       *)
(* delivers the server's messages in order, holding the loop lock; the     *)
(* main thread releases that lock only in "wait" and between actions.      *)
(*                                                                         *)
(* PipeWire itself (the server, the FIFO socket both ways) and GLib (the   *)
(* FIFO of equal-priority sources of one main context) are external.       *)
(***************************************************************************)
EXTENDS Integers, Sequences

CONSTANTS
  MaxReq,        \* bound: requests sent to the server
  MaxConnect,    \* bound: successful connects
  MaxDepth,      \* bound: nested frames on the main thread's stack
  HandlerCalls,  \* what the application's signal handlers call back into
  NoMark         \* a frame about which a wrapper remembers nothing

ASSUME BoundsAssumption ==
  MaxReq \in Nat /\ MaxConnect \in Nat /\ MaxDepth \in Nat

VARIABLES
  connected,     \* self->connected: loop, context and core all exist
  connects,      \* how many connects succeeded
  link,          \* does the server still answer on this connection
  toServer,      \* requests on the socket, oldest first
  wire,          \* server messages not yet read by the loop thread
  lastReq,       \* number of the last request sent
  mainq,         \* sources attached to the main context, oldest first
  stack,         \* the main thread's frames, innermost first
  inLoop         \* is the main thread inside g_main_loop_run

coreVars == <<connected, connects, link, toServer, wire, lastReq, mainq,
              stack, inLoop>>

-----------------------------------------------------------------------------
(* PwgCoreSyncData lives in the frame of the sync() call that declared it: *)
(* n is its seq, ctx whether main_context is set, mdone main_context_done. *)
(* mark is history: what a wrapper wants to know of the time of the call.  *)

Frame(op, n, ctx, timed, mark) ==
  [op |-> op, n |-> n, ctx |-> ctx, timed |-> timed,
   done |-> FALSE, err |-> FALSE, mdone |-> FALSE, mark |-> mark]

\* A call suspended by a handler that it triggered.
Suspension(op, ctx, timed) == Frame(op, 0, ctx, timed, NoMark)

App == Suspension("app", FALSE, FALSE)
Notify == Suspension("notify", FALSE, FALSE)

\* Every frame the main thread can hold, ops being the kinds of frame.
FrameType(ops, Marks) ==
  [op : ops, n : Nat, ctx : BOOLEAN, timed : BOOLEAN,
   done : BOOLEAN, err : BOOLEAN, mdone : BOOLEAN, mark : Marks]

CoreFrames == {"app", "notify", "wait", "drain", "sync"}

TopIs(op) == stack # <<>> /\ Head(stack).op = op

Push(fs) == stack' = fs \o stack
Pop == stack' = Tail(stack)

\* Application code may call op now, and the call may nest k frames.
MayCall(op, k) ==
  /\ stack = <<>> \/ ((TopIs("app") \/ TopIs("notify")) /\ op \in HandlerCalls)
  /\ Len(stack) + k <= MaxDepth

\* notify::connected is being emitted.
Emitting == \E i \in DOMAIN stack : stack[i].op = "notify"

\* A notify of "connected" runs its handlers next.  GObject emits notify
\* with G_SIGNAL_NO_RECURSE: in one of those handlers it runs none, and the
\* emission starts over when that handler returns.  A handler may do in one
\* run what it does in two, so that starting over is no step of its own.
Notified(below) == IF Emitting THEN below ELSE <<Notify>> \o below

\* The main context is being iterated by the main thread at this point.
Iterating == (stack = <<>> /\ inLoop) \/ (TopIs("drain") /\ ~Head(stack).mdone)

OnStack(n) == \E i \in DOMAIN stack : stack[i].n = n
FrameOf(n) == CHOOSE i \in DOMAIN stack : stack[i].n = n

-----------------------------------------------------------------------------
(* Connecting and disconnecting.                                           *)

Init ==
  /\ connected = FALSE
  /\ connects = 0
  /\ link = FALSE
  /\ toServer = <<>>
  /\ wire = <<>>
  /\ lastReq = 0
  /\ mainq = <<>>
  /\ stack = <<>>
  /\ inLoop = FALSE

\* The part of a successful pwg_core_connect() before its notify.
Connected ==
  /\ connects < MaxConnect
  /\ ~connected
  /\ connected' = TRUE
  /\ connects' = connects + 1
  /\ link' = TRUE
  /\ toServer' = <<>>
  /\ wire' = <<>>

\* pwg_core_connect(): every failure releases what was created and leaves
\* the core as it was; a second call changes nothing.
Connect ==
  /\ MayCall("connect", IF Emitting THEN 0 ELSE 1)
  /\ Connected
  /\ stack' = Notified(stack)
  /\ UNCHANGED <<lastReq, mainq, inLoop>>

\* pwg_core_disconnect() up to its notify: the loop is stopped, the core
\* and with it every proxy destroyed.  Attached sources stay attached.
Disconnected ==
  /\ connected
  /\ connected' = FALSE
  /\ link' = FALSE
  /\ toServer' = <<>>
  /\ wire' = <<>>
  /\ UNCHANGED connects

Disconnect ==
  /\ MayCall("disconnect", IF Emitting THEN 0 ELSE 1)
  /\ Disconnected
  /\ stack' = Notified(stack)
  /\ UNCHANGED <<lastReq, mainq, inLoop>>

-----------------------------------------------------------------------------
(* pwg_core_sync() and pwg_core_sync_main_context_internal().              *)

SyncRequest == [kind |-> "sync", n |-> lastReq + 1]

\* Add the listener and send the request; its number is the seq waited for.
SendSync(ctx, timed, mark, below) ==
  /\ lastReq < MaxReq
  /\ lastReq' = lastReq + 1
  /\ toServer' = Append(toServer, SyncRequest)
  /\ stack' = <<Frame("wait", lastReq + 1, ctx, timed, mark)>> \o below

\* Fault: the negative result of pw_core_sync() is waited for as a seq.
SendFailsUnchecked(below) ==
  /\ stack' = <<Frame("wait", -1, TRUE, TRUE, NoMark)>> \o below
  /\ UNCHANGED <<lastReq, toServer>>

\* The listener or the request could not be added: the call returns FALSE.
SendFails(below) ==
  stack' = below /\ UNCHANGED <<lastReq, toServer>>

\* The call connects first when it has to, and resumes in SyncResume once
\* the handlers of notify::connected have run.
SyncCall(ctx, timed) ==
  /\ MayCall("sync", 2)
  /\ \/ /\ connected
        /\ SendSync(ctx, timed, NoMark, stack)
        /\ UNCHANGED <<connected, connects, link, wire>>
     \/ /\ Connected
        /\ stack' = Notified(<<Suspension("sync", ctx, timed)>> \o stack)
        /\ UNCHANGED lastReq
  /\ UNCHANGED <<mainq, inLoop>>

SyncResume(mark) ==
  /\ TopIs("sync")
  /\ \/ /\ connected
        /\ SendSync(Head(stack).ctx, Head(stack).timed, mark, Tail(stack))
     \/ SendFails(Tail(stack))
  /\ UNCHANGED <<connected, connects, link, wire, mainq, inLoop>>

\* Another request of a wrapper on the same connection.
SendOther ==
  /\ MayCall("send", 0)
  /\ connected
  /\ lastReq < MaxReq
  /\ lastReq' = lastReq + 1
  /\ toServer' = Append(toServer, [kind |-> "other", n |-> lastReq + 1])
  /\ UNCHANGED <<connected, connects, link, wire, mainq, stack, inLoop>>

\* The loop thread only finds the listener of the call that is waiting.
Waiting(n) == TopIs("wait") /\ Head(stack).n = n

SetTop(f) == stack' = <<f>> \o Tail(stack)

Token(n) == [kind |-> "token", n |-> n]

\* Fault: the seq of the answer is not compared.
OnDoneAnySeq(n) ==
  IF TopIs("wait")
    THEN /\ SetTop([Head(stack) EXCEPT !.done = TRUE])
         /\ mainq' = IF Head(stack).ctx THEN Append(mainq, Token(Head(stack).n))
                                        ELSE mainq
    ELSE UNCHANGED <<stack, mainq>>

\* Fault: the token is attached with a priority above that of the events.
OnDoneUrgent(n) ==
  IF Waiting(n)
    THEN /\ SetTop([Head(stack) EXCEPT !.done = TRUE])
         /\ mainq' = IF Head(stack).ctx THEN <<Token(n)>> \o mainq ELSE mainq
    ELSE UNCHANGED <<stack, mainq>>

\* pwg_core_sync_on_done(): mark done and attach the main context token.
OnDone(n) ==
  IF Waiting(n)
    THEN /\ SetTop([Head(stack) EXCEPT !.done = TRUE])
         /\ mainq' = IF Head(stack).ctx THEN Append(mainq, Token(n)) ELSE mainq
    ELSE UNCHANGED <<stack, mainq>>

\* pwg_core_sync_on_error()
OnError(n) ==
  /\ IF Waiting(n) THEN SetTop([Head(stack) EXCEPT !.err = TRUE])
                   ELSE UNCHANGED stack
  /\ UNCHANGED mainq

\* Fault: the wait loop only looks at done.
SyncWakeDoneOnly ==
  /\ TopIs("wait")
  /\ Head(stack).done
  /\ IF Head(stack).ctx THEN SetTop([Head(stack) EXCEPT !.op = "drain"]) ELSE Pop
  /\ UNCHANGED <<connected, connects, link, toServer, wire, lastReq, mainq, inLoop>>

\* After the wait loop: remove the listener, unlock, and look at the error
\* first, then at done.  A roundtrip without a main context returns here.
SyncWake ==
  /\ TopIs("wait")
  /\ LET f == Head(stack)
     IN  /\ f.done \/ f.err
         /\ IF ~f.err /\ f.ctx THEN SetTop([f EXCEPT !.op = "drain"]) ELSE Pop
  /\ UNCHANGED <<connected, connects, link, toServer, wire, lastReq, mainq, inLoop>>

\* Fault: the expired wait is reported although done came in with it.
SyncTimeoutFirst ==
  /\ TopIs("wait")
  /\ Head(stack).timed
  /\ Pop
  /\ UNCHANGED <<connected, connects, link, toServer, wire, lastReq, mainq, inLoop>>

\* The timed wait ended with neither an answer nor an error.
SyncTimeout ==
  /\ TopIs("wait")
  /\ Head(stack).timed
  /\ ~Head(stack).done /\ ~Head(stack).err
  /\ Pop
  /\ UNCHANGED <<connected, connects, link, toServer, wire, lastReq, mainq, inLoop>>

\* Fault: the token ends the innermost call instead of its own.
MarkDrainedTop(n) == SetTop([Head(stack) EXCEPT !.mdone = TRUE])

\* pwg_core_sync_on_main_context_done(), dispatched by whichever call or
\* main loop iterates the context: it writes into the frame of its call.
MarkDrained(n) ==
  stack' = IF OnStack(n) THEN [stack EXCEPT ![FrameOf(n)].mdone = TRUE] ELSE stack

DispatchToken ==
  /\ Iterating
  /\ mainq # <<>>
  /\ Head(mainq).kind = "token"
  /\ mainq' = Tail(mainq)
  /\ MarkDrained(Head(mainq).n)
  /\ UNCHANGED <<connected, connects, link, toServer, wire, lastReq, inLoop>>

\* The drain loop sees main_context_done and sync() returns TRUE.
DrainEnd ==
  /\ TopIs("drain")
  /\ Head(stack).mdone
  /\ Pop
  /\ UNCHANGED <<connected, connects, link, toServer, wire, lastReq, mainq, inLoop>>

-----------------------------------------------------------------------------
(* The environment: the server, the loop thread, the application.          *)

\* The server answers a sync once, after everything sent before it.
ServerStep ==
  /\ link /\ toServer # <<>>
  /\ toServer' = Tail(toServer)
  /\ LET r == Head(toServer)
     IN  \/ r.kind = "sync" /\ wire' = Append(wire, [kind |-> "done", n |-> r.n])
         \/ r.kind = "sync" /\ wire' = Append(wire, [kind |-> "error", n |-> r.n])
         \/ r.kind = "other" /\ UNCHANGED wire
  /\ UNCHANGED <<connected, connects, link, lastReq, mainq, stack, inLoop>>

\* The server goes away: the connection reports an error on the core with a
\* sequence number of no request.
LinkBreaks ==
  /\ link
  /\ link' = FALSE
  /\ toServer' = <<>>
  /\ wire' = Append(wire, [kind |-> "error", n |-> 0])
  /\ UNCHANGED <<connected, connects, lastReq, mainq, stack, inLoop>>

\* The loop thread reads one core message and runs the sync listeners.
LoopStep ==
  /\ connected /\ wire # <<>>
  /\ wire' = Tail(wire)
  /\ \/ Head(wire).kind = "done" /\ OnDone(Head(wire).n)
     \/ Head(wire).kind = "error" /\ OnError(Head(wire).n)
  /\ UNCHANGED <<connected, connects, link, toServer, lastReq, inLoop>>

HandlerReturn ==
  /\ TopIs("app")
  /\ Pop
  /\ UNCHANGED <<connected, connects, link, toServer, wire, lastReq, mainq, inLoop>>

NotifyReturn ==
  /\ TopIs("notify")
  /\ Pop
  /\ UNCHANGED <<connected, connects, link, toServer, wire, lastReq, mainq, inLoop>>

\* A drain iterates the whole context: it also dispatches sources of the
\* application (timeouts, other objects), whose callbacks may call in again.
AppSource ==
  /\ TopIs("drain") /\ ~Head(stack).mdone
  /\ Len(stack) < MaxDepth
  /\ Push(<<App>>)
  /\ UNCHANGED <<connected, connects, link, toServer, wire, lastReq, mainq, inLoop>>

\* The application enters and leaves g_main_loop_run().
ToggleLoop ==
  /\ stack = <<>>
  /\ inLoop' = ~inLoop
  /\ UNCHANGED <<connected, connects, link, toServer, wire, lastReq, mainq, stack>>

\* What the main thread does without a decision of the application.
MainStep ==
  \/ SyncResume(NoMark) \/ SyncWake \/ SyncTimeout \/ DispatchToken \/ DrainEnd
  \/ HandlerReturn \/ NotifyReturn

Next ==
  \/ Connect
  \/ Disconnect
  \/ \E ctx, timed \in BOOLEAN : SyncCall(ctx, timed)
  \/ SendOther
  \/ MainStep
  \/ ServerStep
  \/ LinkBreaks
  \/ LoopStep
  \/ AppSource
  \/ ToggleLoop

Spec == Init /\ [][Next]_coreVars

\* The threads and the server keep running; handlers return.  An iteration
\* of the context dispatches every ready source of its priority, so sources
\* of the application do not starve a token.  Nothing makes the application
\* call, connect, disconnect or run its main loop.
Fairness ==
  /\ WF_coreVars(MainStep)
  /\ SF_coreVars(DispatchToken)
  /\ WF_coreVars(ServerStep)
  /\ WF_coreVars(LoopStep)

FairSpec == Spec /\ Fairness

-----------------------------------------------------------------------------
(* Properties.                                                             *)

\* Types, for any set of requests, messages and sources that the wrappers
\* add to the core's own.
CoreTypeOK(Requests, Messages, Sources, ops, Marks) ==
  /\ connected \in BOOLEAN
  /\ connects \in Nat
  /\ link \in BOOLEAN
  /\ toServer \in Seq(Requests)
  /\ wire \in Seq(Messages)
  /\ lastReq \in Nat
  /\ mainq \in Seq(Sources)
  /\ stack \in Seq(FrameType(ops, Marks))
  /\ inLoop \in BOOLEAN

CoreRequests == [kind : {"sync", "other"}, n : Nat]
CoreMessages == [kind : {"done", "error"}, n : Nat]
CoreSources == [kind : {"token"}, n : Nat]

TypeOK ==
  CoreTypeOK(CoreRequests, CoreMessages, CoreSources, CoreFrames, {NoMark})

\* "When this returns successfully, the PipeWire server has processed all
\* operations sent on this core before the sync request" (pwg-core.h:110):
\* a call that has seen its done has no earlier request left on the socket.
\* The late answer of a roundtrip that timed out must not satisfy the next.
SyncIsBarrier ==
  \A i \in DOMAIN stack : stack[i].done =>
    \A j \in DOMAIN toServer : toServer[j].n > stack[i].n

\* The token source points at the data on the stack of the call that queued
\* it (pwg-core.c:58): while it is attached that call has not returned.
TokenHasFrame ==
  \A i \in DOMAIN mainq : mainq[i].kind = "token" =>
    \E j \in DOMAIN stack :
      stack[j].n = mainq[i].n /\ stack[j].ctx /\ ~stack[j].mdone

\* A call that blocks in g_main_context_iteration() has the source that ends
\* it still attached, whatever nested calls dispatched meanwhile.
DrainHasToken ==
  \A j \in DOMAIN stack : stack[j].op = "drain" /\ ~stack[j].mdone =>
    \E i \in DOMAIN mainq : mainq[i] = Token(stack[j].n)

\* Each sync() returns, unless an untimed wait sits on a connection whose
\* server is gone: with a timeout no loss of the server hangs the caller.
SyncReturns ==
  \A n \in 1..MaxReq :
    OnStack(n) ~> \/ ~OnStack(n)
                  \/ ~link /\ TopIs("wait") /\ ~Head(stack).timed

\* "Gets whether this wrapper currently has an active PipeWire connection"
\* (pwg-core.h:92): a lost server is eventually noticed.
LossIsNoticed == (connected /\ ~link) ~> ~connected
=============================================================================
