------------------------------- MODULE Device -------------------------------
(* PwgDevice (pwg-device.c): parameter infos and parameters, no state; the *)
(* functions are those of a node with these differences.                   *)
EXTENDS Proxy

\* pwg_device_on_info(): only the parameter infos are looked at.
DeviceParts(mask) == IF "params" \in mask THEN <<"infos">> ELSE <<>>

DeviceEpilogue == <<"unbind", "halt", "lists">>

DeviceHears(m) == m.kind = "gone" => m.id = Own
DeviceWants(m) ==
  DeviceHears(m) /\ (m.kind = "info" => DeviceParts(m.mask) # <<>>)

DeviceStart == Start
DeviceSync == Sync
DeviceStop == Stop(DeviceEpilogue)
DeviceReset == DisconnectCore(DeviceEpilogue)
DeviceSubscribe == Ask
DeviceEnum(num) == Enumerate(num)
DeviceEnumSync(num) == EnumSync(num)
DeviceSetParam == Ask

DeviceCall ==
  \/ DeviceStart \/ DeviceSync \/ DeviceStop
  \/ ConnectCore \/ DeviceReset
  \/ \E num \in Nums : DeviceEnum(num) \/ DeviceEnumSync(num)
  \/ DeviceSubscribe \/ DeviceSetParam

DeviceDestroy == Destroy
DeviceRestart == Restart(DeviceEpilogue)

DeviceContinue ==
  \/ Opening \/ Synchronising \/ Enumerating \/ DeviceDestroy \/ Reset \/ Resume
  \/ DeviceRestart

DeviceDispatch == Dispatch(DeviceParts(Head(mainq).m.mask), DeviceEpilogue)
DeviceOnMessage == OnMessage(DeviceWants(Head(wire)))

DeviceParamsForSeq(seq) == ParamsForSeq(seq)
=============================================================================
