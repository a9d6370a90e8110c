-------------------------------- MODULE Node --------------------------------
(* PwgNode (pwg-node.c): a state, an error, parameter infos, parameters.   *)
EXTENDS Proxy

\* Fault: the parameter infos are looked at when there is no state only.
NodePartsEither(mask) ==
  IF "state" \in mask THEN <<"state", "error">>
  ELSE IF "params" \in mask THEN <<"infos">> ELSE <<>>

\* pwg_node_on_info(): which updates an info of this mask brings.  In a mask
\* "params" stands for params_changed: the bit, or a list without it.
NodeParts(mask) ==
  (IF "state" \in mask THEN <<"state", "error">> ELSE <<>>) \o
  (IF "params" \in mask THEN <<"infos">> ELSE <<>>)

\* What stop() and reset() do once the proxies are gone.
NodeEpilogue == <<"unbind", "halt", "nostate", "noerror", "lists">>

NodeWants(m) ==
  /\ m.kind = "info" => NodeParts(m.mask) # <<>>
  /\ m.kind = "gone" => m.id = Own

NodeSubscribe == Ask
NodeSetParam == Ask
NodeEnumAll == Enumerate(NItems)

NodeCall ==
  \/ Start \/ Sync \/ Stop(NodeEpilogue)
  \/ ConnectCore \/ DisconnectCore(NodeEpilogue)
  \/ \E num \in Nums : Enumerate(num) \/ EnumSync(num)
  \/ NodeEnumAll \/ NodeSubscribe \/ NodeSetParam

NodeRestart == Restart(NodeEpilogue)

NodeContinue ==
  \/ Opening \/ Synchronising \/ Enumerating \/ Destroy \/ Reset \/ Resume
  \/ NodeRestart

NodeDispatch == Dispatch(NodeParts(Head(mainq).m.mask), NodeEpilogue)
NodeOnMessage == OnMessage(NodeWants(Head(wire)))
=============================================================================
