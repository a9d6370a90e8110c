------------------------------- MODULE Routes -------------------------------
(***************************************************************************)
(* PwgRouteInfo: a device route read from a param (pwg-route-info.c).      *)
(*                                                                         *)
(* The fields of a ParamRoute object are a function on those present and   *)
(* of the right type; the others keep their defaults.                      *)
(***************************************************************************)
EXTENDS Params

CONSTANT Invalid  \* SPA_ID_INVALID

IntFields == {"index", "device", "profile", "priority"}
IdFields == {"direction", "available"}
TextFields == {"name", "description"}
RouteDefaults ==
  [f \in IntFields \cup IdFields \cup TextFields |->
     IF f \in IntFields THEN -1 ELSE IF f \in IdFields THEN Invalid ELSE NULL]

DirectionName(direction) ==
  CASE direction = "input" -> "input"
    [] direction = "output" -> "output"
    [] OTHER -> NULL
AvailabilityName(available) ==
  IF available \in {"unknown", "no", "yes"} THEN available ELSE NULL

\* A count and as many pairs of strings: the pairs up to the first item that
\* is not a string (NULL), or the end of the struct.
LeadingPairs(info) ==
  LET text(i) == i \in DOMAIN info.items /\ info.items[i] # NULL
      whole(i) == \A j \in 1..(2 * i) : text(j)
  IN  [i \in {k \in 1..info.count : whole(k)} |-> <<info.items[2 * i - 1], info.items[2 * i]>>]

ParseInfo(pod) ==
  IF \/ pod = NULL
     \/ pod.type # "Struct"
     \/ pod.count = NULL
     \/ pod.count < 0
  THEN <<>>
  ELSE LeadingPairs(pod)

Field(fields, f) == IF f \in DOMAIN fields THEN fields[f] ELSE RouteDefaults[f]

\* pwg_route_info_new_from_param()
RouteInfo(p) ==
  IF \/ p.id \notin {"Route", "EnumRoute"}
     \/ ObjectType(p) # "ParamRoute"
     \/ ~HoldsObject(Pod(p))
  THEN NULL
  ELSE LET fields == Pod(p).fields
       IN  [f \in DOMAIN RouteDefaults |-> Field(fields, f)]
             @@ [info |-> ParseInfo(Pod(p).info)]

RouteProperties(r) ==
  IF r = NULL THEN NULL
  ELSE r @@ [directionName |-> DirectionName(r.direction),
        availability |-> AvailabilityName(r.available)]
=============================================================================
