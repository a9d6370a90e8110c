------------------------------ MODULE Wrapper -------------------------------
(***************************************************************************)
(* What the wrappers of one object (Metadata, Node, Device, Link) share on *)
(* the connection of Core: signals whose handlers run before the rest of   *)
(* the call that emitted them, and the roundtrip of their sync().          *)
(*                                                                         *)
(* A call that emits a signal leaves what it still has to do as a frame    *)
(* below the handler's.  The wrapper's own main context is not the         *)
(* process-wide default one: g_main_context_invoke_full() always queues    *)
(* (the other case is Registry's).                                         *)
(***************************************************************************)
EXTENDS Core, FiniteSets

CONSTANT
  Reentry  \* whether an application handler of notify::connected
           \* disconnects the core, and then connects it again

ASSUME ReentryAssumption == Reentry \subseteq {"disconnect", "reconnect"}

\* A handler of the signal just emitted runs next, if one is connected.
Handlers == {<<>>} \cup (IF Len(stack) < MaxDepth THEN {<<App>>} ELSE {})
Emit(rest) == \E h \in Handlers : stack' = h \o rest

\* The rest of a call, to be run when the handlers above it have returned.
Rest(op) == Suspension(op, TRUE, TRUE)

HasRest(ops) == \E i \in DOMAIN stack : stack[i].op \in ops

\* The application calls op, but where that may begin a session, not above
\* a start or a stop that is still suspended (Registry explores that).
Calls(op, within, rests) == MayCall(op, 2) /\ (within \/ ~HasRest(rests))

Sends(requests) ==
  /\ lastReq + Len(requests) <= MaxReq
  /\ lastReq' = lastReq + Len(requests)
  /\ toServer' = toServer \o requests

\* A reset is owed when a handler of notify::connected has disconnected and
\* the emission has not started over yet.
MayConnect(owed) == Emitting /\ owed => "reconnect" \in Reentry

\* pwg_core_connect() on behalf of a call, which resumes as rest once the
\* handlers of notify::connected have run.
ConnectFor(rest, owed, below) ==
  /\ MayConnect(owed) /\ Connected
  /\ stack' = Notified(<<rest>> \o below)
  /\ UNCHANGED lastReq

\* pwg_core_sync_main_context_internal(), which connects if it has to.
Roundtrip(mark, owed, below) ==
  \/ /\ connected /\ SendSync(TRUE, TRUE, mark, below)
     /\ UNCHANGED <<connected, connects, link, wire>>
  \/ ConnectFor(Frame("sync", 0, TRUE, TRUE, mark), owed, below)
  \/ SendFails(below) /\ UNCHANGED <<connected, connects, link, wire>>

\* pwg_core_disconnect() up to its notify, of which the wrapper's handler is
\* the first; in such an emission it runs when that starts over.
DisconnectFor(reset) ==
  /\ MayCall("disconnect", IF Emitting THEN 0 ELSE 2)
  /\ Emitting => "disconnect" \in Reentry
  /\ Disconnected
  /\ stack' = IF Emitting THEN stack ELSE <<reset, Notify>> \o stack
  /\ UNCHANGED <<lastReq, mainq, inLoop>>

\* An emission in which the core was disconnected starts over, with the
\* wrapper's handler; that is no step when it has nothing to undo.
RestartFor(reset, owed) ==
  /\ TopIs("notify") /\ owed
  /\ Push(<<reset>>)
  /\ UNCHANGED <<connected, connects, link, toServer, wire, lastReq, mainq, inLoop>>

\* The main context dispatches the oldest source, one of these kinds.
Takes(kinds) ==
  /\ Iterating
  /\ mainq # <<>> /\ Head(mainq).kind \in kinds
  /\ mainq' = Tail(mainq)

\* The loop thread reads the oldest message, one of these kinds.
Reads(kinds) ==
  /\ connected
  /\ wire # <<>> /\ Head(wire).kind \in kinds
  /\ wire' = Tail(wire)

\* The server reads the oldest request, one of these kinds.
Serves(kinds) ==
  /\ link
  /\ toServer # <<>> /\ Head(toServer).kind \in kinds
  /\ toServer' = Tail(toServer)

\* The server answers a sync; that it may answer an error is Core's.
ServeSync ==
  /\ Serves({"sync"})
  /\ wire' = Append(wire, [kind |-> "done", n |-> Head(toServer).n])
  /\ UNCHANGED <<connected, connects, link, lastReq, mainq, stack, inLoop>>

\* The application enters its main loop, to stay.
EnterLoop ==
  /\ stack = <<>> /\ ~inLoop
  /\ inLoop' = TRUE
  /\ UNCHANGED <<connected, connects, link, toServer, wire, lastReq, mainq, stack>>

\* Messages with the same text to several proxies, in the server's order.
Orders(S) ==
  {s \in [1..Cardinality(S) -> S] : \A x \in S : \E i \in DOMAIN s : s[i] = x}
=============================================================================
