-------------------------------- MODULE Link --------------------------------
(* PwgLink (pwg-link.c): a state and an error, no parameters at all.       *)
EXTENDS Proxy

\* pwg_link_on_info(): only the state is looked at.
LinkParts(mask) == IF "state" \in mask THEN <<"state", "error">> ELSE <<>>

LinkEpilogue == <<"unbind", "halt", "nostate", "noerror">>

LinkHears(m) == m.kind = "gone" => m.id = Own
LinkWants(m) == LinkHears(m) /\ (m.kind = "info" => LinkParts(m.mask) # <<>>)

LinkStart == Start
LinkSync == Sync
LinkStop == Stop(LinkEpilogue)
LinkReset == DisconnectCore(LinkEpilogue)

LinkCall ==
  \/ LinkStart \/ LinkSync \/ LinkStop
  \/ ConnectCore \/ LinkReset

LinkDestroy == Destroy
LinkRestart == Restart(LinkEpilogue)

LinkContinue ==
  \/ Opening \/ Synchronising \/ LinkDestroy \/ Reset \/ Resume
  \/ LinkRestart

LinkDispatch == Dispatch(LinkParts(Head(mainq).m.mask), LinkEpilogue)
LinkOnMessage == OnMessage(LinkWants(Head(wire)))
=============================================================================
