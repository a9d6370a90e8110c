----------------------------- MODULE CoreProofs -----------------------------
(***************************************************************************)
(* Proofs about Core: sync() is a barrier, the source that ends it points  *)
(* into a frame that is still there, and no drain waits without one; for   *)
(* any bounds and any handlers.                                            *)
(*                                                                         *)
(* The lemmas about the actions of Core leave open which requests,         *)
(* messages, sources, frames and marks there are, so that they also serve  *)
(* the modules that extend Core.                                           *)
(***************************************************************************)
EXTENDS Wrapper, FiniteSetTheorems, TLAPS

-----------------------------------------------------------------------------
(* Stacks and queues, index by index.                                      *)

\* A frame on top of a stack.
LEMMA Pushed ==
  ASSUME NEW F, NEW st \in Seq(F), NEW f \in F
  PROVE  /\ <<f>> \o st \in Seq(F)
         /\ <<f>> \o st # <<>> /\ Head(<<f>> \o st) = f /\ Tail(<<f>> \o st) = st
         /\ Len(<<f>> \o st) = Len(st) + 1
         /\ 1 \in DOMAIN (<<f>> \o st) /\ (<<f>> \o st)[1] = f
         /\ \A i \in DOMAIN st : /\ i \in Int /\ i + 1 \in DOMAIN (<<f>> \o st)
                                 /\ (<<f>> \o st)[i + 1] = st[i]
         /\ \A i \in DOMAIN (<<f>> \o st) :
              i \in Int /\ (i = 1 \/ (i - 1 \in DOMAIN st /\ (<<f>> \o st)[i] = st[i - 1]))
<1> DEFINE s == <<f>> \o st
<1>1. s \in Seq(F) /\ Len(s) = Len(st) + 1 /\ s[1] = f /\ s # <<>> /\ Head(s) = f /\ Tail(s) = st
  OBVIOUS
<1>2. \A i \in DOMAIN st : i \in Int /\ i + 1 \in DOMAIN s /\ s[i + 1] = st[i]
  OBVIOUS
<1>3. \A i \in DOMAIN s : i \in Int /\ (i = 1 \/ (i - 1 \in DOMAIN st /\ s[i] = st[i - 1]))
  OBVIOUS
<1>4. 1 \in DOMAIN s
  BY <1>1
<1> QED
  BY <1>1, <1>2, <1>3, <1>4

\* A stack or a queue without its first element.
LEMMA Popped ==
  ASSUME NEW F, NEW st \in Seq(F), st # <<>>
  PROVE  /\ Tail(st) \in Seq(F) /\ Head(st) \in F
         /\ Len(st) = Len(Tail(st)) + 1
         /\ 1 \in DOMAIN st /\ st[1] = Head(st)
         /\ \A i \in DOMAIN Tail(st) : /\ i \in Int /\ i + 1 \in DOMAIN st /\ i + 1 # 1
                                       /\ Tail(st)[i] = st[i + 1]
         /\ \A i \in DOMAIN st :
              i \in Int /\ (i = 1 \/ (i - 1 \in DOMAIN Tail(st) /\ st[i] = Tail(st)[i - 1]))
<1> DEFINE t == Tail(st)
<1>1. /\ t \in Seq(F) /\ Len(st) = Len(t) + 1 /\ Head(st) = st[1] /\ Head(st) \in F
      /\ Len(t) \in Nat /\ DOMAIN t = 1..Len(t) /\ DOMAIN st = 1..Len(st)
  OBVIOUS
<1>2. \A i \in DOMAIN t : t[i] = st[i + 1]
  OBVIOUS
<1> HIDE DEF t
<1>3. \A i \in DOMAIN t : i \in Int /\ i + 1 \in DOMAIN st /\ i + 1 # 1
  BY <1>1
<1>4. \A i \in DOMAIN st : i \in Int /\ (i = 1 \/ (i - 1 \in DOMAIN t /\ st[i] = t[i - 1]))
  <2> TAKE i \in DOMAIN st
  <2>1. i \in Int /\ 1 <= i /\ i <= Len(t) + 1
    BY <1>1
  <2>2. i # 1 => i - 1 \in DOMAIN t /\ (i - 1) + 1 = i
    BY <1>1, <2>1
  <2> QED
    BY <1>2, <2>1, <2>2
<1>5. 1 \in DOMAIN st
  BY <1>1
<1> QED
  BY <1>1, <1>2, <1>3, <1>4, <1>5 DEF t

\* Two frames on top of a stack.
LEMMA TwoPushed ==
  ASSUME NEW F, NEW st \in Seq(F), NEW f \in F, NEW g \in F
  PROVE  /\ <<g>> \o st \in Seq(F) /\ <<f, g>> \o st \in Seq(F)
         /\ <<f, g>> \o st = <<f>> \o (<<g>> \o st)
<1> DEFINE s == <<g>> \o st
           a == <<f, g>> \o st
           b == <<f>> \o s
<1>1. s \in Seq(F) /\ Len(s) = Len(st) + 1 /\ a \in Seq(F) /\ Len(a) = Len(st) + 2
  OBVIOUS
<1>2. s[1] = g /\ \A i \in 1..Len(st) : s[i + 1] = st[i]
  OBVIOUS
<1>3. a[1] = f /\ a[2] = g /\ \A i \in 1..Len(st) : a[i + 2] = st[i]
  OBVIOUS
<1> HIDE DEF s, a
<1>4. b \in Seq(F) /\ Len(b) = Len(s) + 1 /\ b[1] = f /\ \A i \in 1..Len(s) : b[i + 1] = s[i]
  BY <1>1
<1> HIDE DEF b
<1>5. Len(st) \in Nat
  OBVIOUS
<1>6. \A i \in 1..(Len(st) + 2) : a[i] = b[i]
  <2> TAKE i \in 1..(Len(st) + 2)
  <2>1. CASE i = 1
    BY <1>3, <1>4, <2>1
  <2>2. CASE i = 2
    <3>1. b[1 + 1] = s[1]
      BY <1>1, <1>4, <1>5
    <3> QED
      BY <1>2, <1>3, <2>2, <3>1
  <2>3. CASE i > 2
    <3> DEFINE k == i - 2
    <3>1. k \in 1..Len(st) /\ k + 1 \in 1..Len(s) /\ i = k + 2 /\ i = (k + 1) + 1
      BY <1>1, <1>5, <2>3
    <3> HIDE DEF k
    <3>2. a[k + 2] = st[k] /\ b[(k + 1) + 1] = s[k + 1] /\ s[k + 1] = st[k]
      BY <1>2, <1>3, <1>4, <3>1
    <3> QED
      BY <3>1, <3>2
  <2> QED
    BY <1>5, <2>1, <2>2, <2>3
<1>7. a = b
  BY <1>1, <1>4, <1>5, <1>6
<1> QED
  BY <1>1, <1>7 DEF s, a, b

LEMMA Paired ==
  ASSUME NEW F, NEW f \in F, NEW g \in F
  PROVE  <<f>> \o <<g>> = <<f, g>>
<1> DEFINE a == <<f>> \o <<g>>
           b == <<f, g>>
<1>1. a \in Seq(F) /\ Len(a) = 2 /\ a[1] = f /\ a[2] = g
  OBVIOUS
<1>2. b \in Seq(F) /\ Len(b) = 2 /\ b[1] = f /\ b[2] = g
  OBVIOUS
<1> HIDE DEF a, b
<1>3. \A i \in 1..2 : a[i] = b[i]
  <2>1. \A i \in 1..2 : i = 1 \/ i = 2
    OBVIOUS
  <2> QED
    BY <1>1, <1>2, <2>1
<1>4. a = b
  BY <1>1, <1>2, <1>3
<1> QED
  BY <1>4 DEF a, b

\* An element at the end of a queue.
LEMMA Appended ==
  ASSUME NEW F, NEW q \in Seq(F), NEW x \in F
  PROVE  /\ Append(q, x) \in Seq(F)
         /\ Len(q) + 1 \in DOMAIN Append(q, x) /\ Append(q, x)[Len(q) + 1] = x
         /\ \A i \in DOMAIN q : /\ i \in Int /\ i < Len(q) + 1 /\ i \in DOMAIN Append(q, x)
                                /\ Append(q, x)[i] = q[i]
         /\ \A i \in DOMAIN Append(q, x) :
              i \in Int /\ (i = Len(q) + 1 \/ (i \in DOMAIN q /\ Append(q, x)[i] = q[i]))
OBVIOUS

\* A frame replaced by another.
LEMMA Replaced ==
  ASSUME NEW F, NEW st \in Seq(F), NEW k \in DOMAIN st, NEW f \in F
  PROVE  /\ [st EXCEPT ![k] = f] \in Seq(F)
         /\ DOMAIN [st EXCEPT ![k] = f] = DOMAIN st
         /\ Len([st EXCEPT ![k] = f]) = Len(st)
         /\ \A i \in DOMAIN st : [st EXCEPT ![k] = f][i] = IF i = k THEN f ELSE st[i]
OBVIOUS

\* Replacing the innermost frame.
LEMMA TopReplaced ==
  ASSUME NEW F, NEW st \in Seq(F), st # <<>>, NEW f \in F
  PROVE  /\ 1 \in DOMAIN st /\ st[1] = Head(st)
         /\ <<f>> \o Tail(st) = [st EXCEPT ![1] = f]
<1>1. 1 \in DOMAIN st /\ st[1] = Head(st)
  OBVIOUS
<1> DEFINE s == <<f>> \o Tail(st)
           t == [st EXCEPT ![1] = f]
<1>2. s \in Seq(F) /\ t \in Seq(F) /\ Len(s) = Len(st) /\ Len(t) = Len(st)
  BY <1>1
<1>3. \A i \in 1..Len(st) : s[i] = t[i]
  BY <1>1
<1>4. s = t
  <2> HIDE DEF s, t
  <2> QED
    BY <1>2, <1>3
<1> QED
  BY <1>1, <1>4
-----------------------------------------------------------------------------
(* Type correctness, one lemma per action, over any wrapper's additions.   *)

\* These requests, messages, sources, frames and marks include Core's own.
Covers(Rs, Ms, Ss, ops, Marks) ==
  /\ [kind : {"sync"}, n : Nat] \subseteq Rs
  /\ \A r \in Rs : r.kind = "sync" => r.n \in Nat
  /\ CoreMessages \subseteq Ms
  /\ \A m \in Ms : m.kind \in {"done", "error"} => m.n \in Nat
  /\ CoreSources \subseteq Ss
  /\ {"app", "notify", "wait", "drain"} \subseteq ops
  /\ NoMark \in Marks

\* What a step that only changes the stack has to show.
LEMMA StackTypes ==
  ASSUME NEW Rs, NEW Ms, NEW Ss, NEW ops, NEW Marks,
         CoreTypeOK(Rs, Ms, Ss, ops, Marks), stack' \in Seq(FrameType(ops, Marks)),
         UNCHANGED <<connected, connects, link, toServer, wire, lastReq, mainq, inLoop>>
  PROVE  CoreTypeOK(Rs, Ms, Ss, ops, Marks)'
BY DEF CoreTypeOK

\* A suspended call.
LEMMA SuspensionTypes ==
  ASSUME NEW ops, NEW Marks, NoMark \in Marks,
         NEW op \in ops, NEW ctx \in BOOLEAN, NEW timed \in BOOLEAN
  PROVE  Suspension(op, ctx, timed) \in FrameType(ops, Marks)
BY DEF Suspension, Frame, FrameType

LEMMA AppTypes ==
  ASSUME NEW ops, NEW Marks, NoMark \in Marks, "app" \in ops
  PROVE  App \in FrameType(ops, Marks)
BY SuspensionTypes DEF App

LEMMA NotifyTypes ==
  ASSUME NEW ops, NEW Marks, NoMark \in Marks, "notify" \in ops
  PROVE  Notify \in FrameType(ops, Marks)
BY SuspensionTypes DEF Notify

\* A notify of "connected" pushes the frame of its handlers, or nothing.
LEMMA NotifiedCases ==
  ASSUME NEW F, Notify \in F, NEW rest \in Seq(F), stack' = Notified(rest)
  PROVE  /\ stack' \in Seq(F)
         /\ stack' = rest \/ stack' = <<Notify>> \o rest
         /\ ~Emitting => stack' = <<Notify>> \o rest
         /\ Emitting => stack' = rest
<1>1. <<Notify>> \o rest \in Seq(F)
  OBVIOUS
<1> QED
  BY <1>1 DEF Notified

\* The frames of a typed stack.
LEMMA TopTypes ==
  ASSUME NEW Rs, NEW Ms, NEW Ss, NEW ops, NEW Marks,
         CoreTypeOK(Rs, Ms, Ss, ops, Marks), stack # <<>>
  PROVE  /\ stack \in Seq(FrameType(ops, Marks))
         /\ Tail(stack) \in Seq(FrameType(ops, Marks))
         /\ Head(stack) \in FrameType(ops, Marks)
<1> DEFINE F == FrameType(ops, Marks)
<1>1. stack \in Seq(F)
  BY DEF CoreTypeOK
<1> HIDE DEF F
<1>2. Tail(stack) \in Seq(F) /\ Head(stack) \in F
  BY <1>1
<1> QED
  BY <1>1, <1>2 DEF F

LEMMA PopTypes ==
  ASSUME NEW Rs, NEW Ms, NEW Ss, NEW ops, NEW Marks,
         CoreTypeOK(Rs, Ms, Ss, ops, Marks), stack # <<>>, Pop,
         UNCHANGED <<connected, connects, link, toServer, wire, lastReq, mainq, inLoop>>
  PROVE  CoreTypeOK(Rs, Ms, Ss, ops, Marks)'
BY TopTypes, StackTypes DEF Pop

LEMMA SetTopTypes ==
  ASSUME NEW Rs, NEW Ms, NEW Ss, NEW ops, NEW Marks,
         CoreTypeOK(Rs, Ms, Ss, ops, Marks), stack # <<>>,
         NEW f \in FrameType(ops, Marks), SetTop(f)
  PROVE  stack' \in Seq(FrameType(ops, Marks))
<1> DEFINE F == FrameType(ops, Marks)
<1>1. Tail(stack) \in Seq(F) /\ f \in F
  BY TopTypes
<1> HIDE DEF F
<1>2. <<f>> \o Tail(stack) \in Seq(F)
  BY <1>1
<1> QED
  BY <1>2 DEF F, SetTop

\* The wait of a roundtrip.
LEMMA SendSyncTypes ==
  ASSUME NEW Rs, NEW Ms, NEW Ss, NEW ops, NEW Marks, Covers(Rs, Ms, Ss, ops, Marks),
         CoreTypeOK(Rs, Ms, Ss, ops, Marks),
         NEW ctx \in BOOLEAN, NEW timed \in BOOLEAN, NEW mark \in Marks,
         NEW below \in Seq(FrameType(ops, Marks)), SendSync(ctx, timed, mark, below)
  PROVE  /\ lastReq' \in Nat
         /\ toServer' \in Seq(Rs)
         /\ stack' \in Seq(FrameType(ops, Marks))
<1> DEFINE F == FrameType(ops, Marks)
           f == Frame("wait", lastReq + 1, ctx, timed, mark)
<1>1. lastReq' = lastReq + 1 /\ lastReq \in Nat /\ toServer \in Seq(Rs)
      /\ toServer' = Append(toServer, SyncRequest) /\ stack' = <<f>> \o below
  BY DEF CoreTypeOK, SendSync
<1>2. SyncRequest \in Rs
  BY <1>1 DEF SyncRequest, Covers
<1>3. f \in F
  BY <1>1 DEF Frame, FrameType, Covers
<1> HIDE DEF F, f
<1>4. <<f>> \o below \in Seq(F)
  BY <1>3 DEF F
<1> QED
  BY <1>1, <1>2, <1>4 DEF F

\* The end of the wait loop, of a wait that ran out, of a drain, of a
\* handler; entering and leaving the main loop.
LEMMA SyncWakeTypes ==
  ASSUME NEW Rs, NEW Ms, NEW Ss, NEW ops, NEW Marks, Covers(Rs, Ms, Ss, ops, Marks),
         CoreTypeOK(Rs, Ms, Ss, ops, Marks), SyncWake
  PROVE  CoreTypeOK(Rs, Ms, Ss, ops, Marks)'
<1>1. stack # <<>>
  BY DEF SyncWake, TopIs
<1>2. CASE Pop
  BY <1>1, <1>2, PopTypes DEF SyncWake
<1>3. CASE SetTop([Head(stack) EXCEPT !.op = "drain"])
  <2>1. [Head(stack) EXCEPT !.op = "drain"] \in FrameType(ops, Marks)
    BY <1>1, TopTypes DEF FrameType, Covers
  <2> QED
    BY <1>1, <1>3, <2>1, SetTopTypes, StackTypes DEF SyncWake
<1> QED
  BY <1>2, <1>3 DEF SyncWake

LEMMA ReturnTypes ==
  ASSUME NEW Rs, NEW Ms, NEW Ss, NEW ops, NEW Marks,
         CoreTypeOK(Rs, Ms, Ss, ops, Marks),
         SyncTimeout \/ DrainEnd \/ HandlerReturn \/ NotifyReturn
  PROVE  CoreTypeOK(Rs, Ms, Ss, ops, Marks)'
BY PopTypes DEF SyncTimeout, DrainEnd, HandlerReturn, NotifyReturn, TopIs

LEMMA ToggleLoopTypes ==
  ASSUME NEW Rs, NEW Ms, NEW Ss, NEW ops, NEW Marks,
         CoreTypeOK(Rs, Ms, Ss, ops, Marks), ToggleLoop
  PROVE  CoreTypeOK(Rs, Ms, Ss, ops, Marks)'
BY DEF CoreTypeOK, ToggleLoop

\* The loop thread's core messages, and the token they attach.
LEMMA LoopStepTypes ==
  ASSUME NEW Rs, NEW Ms, NEW Ss, NEW ops, NEW Marks, Covers(Rs, Ms, Ss, ops, Marks),
         CoreTypeOK(Rs, Ms, Ss, ops, Marks), LoopStep
  PROVE  CoreTypeOK(Rs, Ms, Ss, ops, Marks)'
<1> DEFINE n == Head(wire).n
<1>1. /\ wire \in Seq(Ms) /\ wire # <<>> /\ mainq \in Seq(Ss)
      /\ UNCHANGED <<connected, connects, link, toServer, lastReq, inLoop>>
      /\ wire' = Tail(wire)
  BY DEF LoopStep, CoreTypeOK
<1>2. wire' \in Seq(Ms) /\ Head(wire) \in Ms
  BY <1>1
<1>3. CASE Head(wire).kind = "done" /\ OnDone(n)
  <2>1. Token(n) \in Ss
    BY <1>2, <1>3 DEF Token, CoreSources, Covers
  <2>2. mainq' \in Seq(Ss)
    BY <1>1, <1>3, <2>1 DEF OnDone
  <2>3. stack' \in Seq(FrameType(ops, Marks))
    <3>1. CASE Waiting(n)
      <4>1. stack # <<>> /\ SetTop([Head(stack) EXCEPT !.done = TRUE])
        BY <1>3, <3>1 DEF OnDone, Waiting, TopIs
      <4>2. [Head(stack) EXCEPT !.done = TRUE] \in FrameType(ops, Marks)
        BY <4>1, TopTypes DEF FrameType
      <4> QED
        BY <4>1, <4>2, SetTopTypes
    <3>2. CASE ~Waiting(n)
      BY <1>3, <3>2 DEF OnDone, CoreTypeOK
    <3> QED
      BY <3>1, <3>2
  <2> QED
    BY <1>1, <1>2, <2>2, <2>3 DEF CoreTypeOK
<1>4. CASE Head(wire).kind = "error" /\ OnError(n)
  <2>1. stack' \in Seq(FrameType(ops, Marks))
    <3>1. CASE Waiting(n)
      <4>1. stack # <<>> /\ SetTop([Head(stack) EXCEPT !.err = TRUE])
        BY <1>4, <3>1 DEF OnError, Waiting, TopIs
      <4>2. [Head(stack) EXCEPT !.err = TRUE] \in FrameType(ops, Marks)
        BY <4>1, TopTypes DEF FrameType
      <4> QED
        BY <4>1, <4>2, SetTopTypes
    <3>2. CASE ~Waiting(n)
      BY <1>4, <3>2 DEF OnError, CoreTypeOK
    <3> QED
      BY <3>1, <3>2
  <2> QED
    BY <1>1, <1>2, <1>4, <2>1 DEF CoreTypeOK, OnError
<1> QED
  BY <1>3, <1>4 DEF LoopStep

\* A token marks the frame of its call.
LEMMA DispatchTokenTypes ==
  ASSUME NEW Rs, NEW Ms, NEW Ss, NEW ops, NEW Marks,
         CoreTypeOK(Rs, Ms, Ss, ops, Marks), DispatchToken
  PROVE  CoreTypeOK(Rs, Ms, Ss, ops, Marks)'
<1> DEFINE n == Head(mainq).n
           F == FrameType(ops, Marks)
<1>1. /\ mainq \in Seq(Ss) /\ mainq # <<>> /\ mainq' = Tail(mainq) /\ stack \in Seq(F)
      /\ UNCHANGED <<connected, connects, link, toServer, wire, lastReq, inLoop>>
  BY DEF DispatchToken, CoreTypeOK
<1>2. mainq' \in Seq(Ss)
  BY <1>1
<1>3. stack' \in Seq(F)
  <2>1. CASE OnStack(n)
    <3> DEFINE k == FrameOf(n)
               f == [stack[k] EXCEPT !.mdone = TRUE]
    <3>1. k \in DOMAIN stack /\ stack' = [stack EXCEPT ![k] = f]
      BY <2>1 DEF OnStack, FrameOf, DispatchToken, MarkDrained
    <3>2. stack[k] \in F
      BY <1>1, <3>1
    <3>3. f \in F
      BY <3>2 DEF FrameType
    <3> HIDE DEF F, k, f
    <3> QED
      BY <1>1, <3>1, <3>3, Replaced
  <2>2. CASE ~OnStack(n)
    BY <1>1, <2>2 DEF DispatchToken, MarkDrained
  <2> QED
    BY <2>1, <2>2
<1> QED
  BY <1>1, <1>2, <1>3 DEF CoreTypeOK
-----------------------------------------------------------------------------
(* The inductive invariant behind the tokens.                              *)

IsSync(r) == r.kind = "sync"
IsAnswer(m) == m.kind \in {"done", "error"}
IsToken(x) == x.kind = "token"

\* A roundtrip is on one side of the socket only, and once.
Socket(requests, messages, last) ==
  /\ \A i \in DOMAIN requests : IsSync(requests[i]) => requests[i].n \in 1..last
  /\ \A i, j \in DOMAIN requests :
       IsSync(requests[i]) /\ IsSync(requests[j]) /\ requests[i].n = requests[j].n => i = j
  /\ \A i \in DOMAIN messages : IsAnswer(messages[i]) => messages[i].n \in 0..last
  /\ \A i, j \in DOMAIN messages :
       /\ IsAnswer(messages[i]) /\ IsAnswer(messages[j])
       /\ messages[i].n = messages[j].n /\ messages[i].n # 0
       => i = j
  /\ \A i \in DOMAIN requests, j \in DOMAIN messages :
       IsSync(requests[i]) /\ IsAnswer(messages[j]) => requests[i].n # messages[j].n

\* CallFrames with a number are roundtrips, each with its own.
Numbered(st, last) ==
  /\ \A i \in DOMAIN st :
       /\ st[i].n \in 0..last
       /\ st[i].op \in {"wait", "drain"} <=> st[i].n # 0
       /\ st[i].op = "drain" => st[i].done /\ st[i].ctx
       /\ st[i].done \/ st[i].err \/ st[i].mdone => st[i].n # 0
       /\ ~(st[i].done /\ st[i].err)
       /\ st[i].mdone => st[i].done
  /\ \A i, j \in DOMAIN st : st[i].n = st[j].n /\ st[i].n # 0 => i = j

\* A roundtrip that has its answer gets no other.
Answered(st, requests, messages) ==
  \A i \in DOMAIN st : st[i].done \/ st[i].err =>
    /\ \A j \in DOMAIN requests : IsSync(requests[j]) => requests[j].n # st[i].n
    /\ \A j \in DOMAIN messages : IsAnswer(messages[j]) => messages[j].n # st[i].n

\* This frame has a token in the main context that has not been dispatched.
Due(f) == f.done /\ f.ctx /\ ~f.mdone

\* Tokens are those of the frames that are due, one each.
Tokens(st, q) ==
  /\ \A i \in DOMAIN q : IsToken(q[i]) => \E j \in DOMAIN st : st[j].n = q[i].n /\ Due(st[j])
  /\ \A i, j \in DOMAIN q : IsToken(q[i]) /\ IsToken(q[j]) /\ q[i].n = q[j].n => i = j
  /\ \A j \in DOMAIN st : Due(st[j]) => \E i \in DOMAIN q : q[i] = Token(st[j].n)

CallFrames(st) == Numbered(st, lastReq) /\ Answered(st, toServer, wire) /\ Tokens(st, mainq)

TokenInv == Socket(toServer, wire, lastReq) /\ CallFrames(stack)

\* A frame that is no roundtrip.
IsQuiet(f) ==
  /\ f.op \notin {"wait", "drain"} /\ f.n = 0
  /\ ~f.done /\ ~f.err /\ ~f.mdone

LEMMA SuspensionQuiet ==
  ASSUME NEW op, op \notin {"wait", "drain"}, NEW ctx, NEW timed
  PROVE  IsQuiet(Suspension(op, ctx, timed))
BY DEF IsQuiet, Suspension, Frame

LEMMA AppQuiet == IsQuiet(App)
BY SuspensionQuiet DEF App

LEMMA NotifyQuiet == IsQuiet(Notify)
BY SuspensionQuiet DEF Notify

-----------------------------------------------------------------------------
(* What pushing and popping frames does to it.                             *)

LEMMA PushQuiet ==
  ASSUME NEW F, NEW st \in Seq(F), NEW f \in F, IsQuiet(f), CallFrames(st), lastReq \in Nat
  PROVE  CallFrames(<<f>> \o st)
<1> DEFINE s == <<f>> \o st
<1>1. /\ s[1] = f /\ 1 \in DOMAIN s
      /\ \A i \in DOMAIN st : i \in Int /\ i + 1 \in DOMAIN s /\ s[i + 1] = st[i]
      /\ \A i \in DOMAIN s : i \in Int /\ (i = 1 \/ (i - 1 \in DOMAIN st /\ s[i] = st[i - 1]))
  BY Pushed
<1> HIDE DEF s
<1>2. Numbered(s, lastReq)
  <2>1. ASSUME NEW i \in DOMAIN s
        PROVE  /\ s[i].n \in 0..lastReq
               /\ s[i].op \in {"wait", "drain"} <=> s[i].n # 0
               /\ s[i].op = "drain" => s[i].done /\ s[i].ctx
               /\ s[i].done \/ s[i].err \/ s[i].mdone => s[i].n # 0
               /\ ~(s[i].done /\ s[i].err)
               /\ s[i].mdone => s[i].done
    <3>1. CASE i = 1
      BY <1>1, <3>1 DEF IsQuiet
    <3>2. CASE i # 1
      BY <1>1, <3>2 DEF CallFrames, Numbered
    <3> QED
      BY <3>1, <3>2
  <2>2. ASSUME NEW i \in DOMAIN s, NEW j \in DOMAIN s, s[i].n = s[j].n, s[i].n # 0
        PROVE  i = j
    <3>1. i # 1 /\ j # 1
      BY <1>1, <2>2 DEF IsQuiet
    <3>2. i - 1 = j - 1
      BY <1>1, <2>2, <3>1 DEF CallFrames, Numbered
    <3> QED
      BY <1>1, <3>2
  <2> QED
    BY <2>1, <2>2 DEF Numbered
<1>3. Answered(s, toServer, wire)
  BY <1>1 DEF CallFrames, Answered, IsQuiet
<1>4. Tokens(s, mainq)
  <2>1. ASSUME NEW i \in DOMAIN mainq, IsToken(mainq[i])
        PROVE  \E j \in DOMAIN s : s[j].n = mainq[i].n /\ Due(s[j])
    <3>1. PICK j \in DOMAIN st : st[j].n = mainq[i].n /\ Due(st[j])
      BY <2>1 DEF CallFrames, Tokens
    <3>2. j + 1 \in DOMAIN s /\ s[j + 1] = st[j]
      BY <1>1
    <3> QED
      BY <3>1, <3>2
  <2>2. ASSUME NEW j \in DOMAIN s, Due(s[j])
        PROVE  \E i \in DOMAIN mainq : mainq[i] = Token(s[j].n)
    <3>1. j # 1
      BY <1>1, <2>2 DEF IsQuiet, Due
    <3> QED
      BY <1>1, <2>2, <3>1 DEF CallFrames, Tokens
  <2> QED
    BY <2>1, <2>2 DEF Tokens, CallFrames
<1> QED
  BY <1>2, <1>3, <1>4 DEF s, CallFrames

\* A frame that returns has no token left.
LEMMA PopFrames ==
  ASSUME NEW F, NEW st \in Seq(F), st # <<>>, ~Due(Head(st)), CallFrames(st)
  PROVE  CallFrames(Tail(st))
<1> DEFINE t == Tail(st)
<1>1. /\ st[1] = Head(st) /\ 1 \in DOMAIN st
      /\ \A i \in DOMAIN t : i \in Int /\ i + 1 \in DOMAIN st /\ t[i] = st[i + 1]
      /\ \A i \in DOMAIN st : i \in Int /\ (i = 1 \/ (i - 1 \in DOMAIN t /\ st[i] = t[i - 1]))
  BY Popped
<1> HIDE DEF t
<1>2. Numbered(t, lastReq)
  <2>1. ASSUME NEW i \in DOMAIN t, NEW j \in DOMAIN t, t[i].n = t[j].n, t[i].n # 0
        PROVE  i = j
    <3>1. i + 1 = j + 1
      BY <1>1, <2>1 DEF CallFrames, Numbered
    <3> QED
      BY <1>1, <3>1
  <2> QED
    BY <1>1, <2>1 DEF CallFrames, Numbered
<1>3. Answered(t, toServer, wire)
  BY <1>1 DEF CallFrames, Answered
<1>4. Tokens(t, mainq)
  <2>1. ASSUME NEW i \in DOMAIN mainq, IsToken(mainq[i])
        PROVE  \E j \in DOMAIN t : t[j].n = mainq[i].n /\ Due(t[j])
    <3>1. PICK j \in DOMAIN st : st[j].n = mainq[i].n /\ Due(st[j])
      BY <2>1 DEF CallFrames, Tokens
    <3>2. j # 1
      BY <1>1, <3>1
    <3>3. j - 1 \in DOMAIN t /\ t[j - 1] = st[j]
      BY <1>1, <3>2
    <3> QED
      BY <3>1, <3>3
  <2> QED
    BY <1>1, <2>1 DEF Tokens, CallFrames
<1> QED
  BY <1>2, <1>3, <1>4 DEF t, CallFrames

\* The wait of a new roundtrip, its request on the socket.
LEMMA PushWait ==
  ASSUME NEW F, NEW Rs, NEW st \in Seq(F), NEW f \in F, CallFrames(st), lastReq \in Nat,
         Socket(toServer, wire, lastReq), toServer \in Seq(Rs),
         NEW r \in Rs, IsSync(r), r.n = lastReq + 1,
         f.op = "wait", f.n = lastReq + 1, ~f.done, ~f.err, ~f.mdone,
         stack' = <<f>> \o st, toServer' = Append(toServer, r), lastReq' = lastReq + 1,
         UNCHANGED <<wire, mainq>>
  PROVE  TokenInv'
<1> DEFINE s == <<f>> \o st
           q == Append(toServer, r)
<1>1. /\ s[1] = f /\ 1 \in DOMAIN s
      /\ \A i \in DOMAIN st : i \in Int /\ i + 1 \in DOMAIN s /\ s[i + 1] = st[i]
      /\ \A i \in DOMAIN s : i \in Int /\ (i = 1 \/ (i - 1 \in DOMAIN st /\ s[i] = st[i - 1]))
  BY Pushed
<1>2. \A i \in DOMAIN q : (i = Len(toServer) + 1 /\ q[i] = r) \/ (i \in DOMAIN toServer /\ q[i] = toServer[i])
  BY Appended
<1> HIDE DEF s, q
<1>3. Socket(q, wire, lastReq + 1)
  <2>1. \A i \in DOMAIN q : IsSync(q[i]) => q[i].n \in 1..(lastReq + 1)
    BY <1>2 DEF Socket
  <2>2. \A i, j \in DOMAIN q : IsSync(q[i]) /\ IsSync(q[j]) /\ q[i].n = q[j].n => i = j
    BY <1>2 DEF Socket
  <2>3. \A i \in DOMAIN wire : IsAnswer(wire[i]) => wire[i].n \in 0..(lastReq + 1)
    BY DEF Socket
  <2>4. \A i \in DOMAIN q, j \in DOMAIN wire : IsSync(q[i]) /\ IsAnswer(wire[j]) => q[i].n # wire[j].n
    BY <1>2 DEF Socket
  <2> QED
    BY <2>1, <2>2, <2>3, <2>4 DEF Socket
<1>4. Numbered(s, lastReq + 1)
  <2>1. ASSUME NEW i \in DOMAIN s
        PROVE  /\ s[i].n \in 0..(lastReq + 1)
               /\ s[i].op \in {"wait", "drain"} <=> s[i].n # 0
               /\ s[i].op = "drain" => s[i].done /\ s[i].ctx
               /\ s[i].done \/ s[i].err \/ s[i].mdone => s[i].n # 0
               /\ ~(s[i].done /\ s[i].err)
               /\ s[i].mdone => s[i].done
    <3>1. CASE i = 1
      BY <1>1, <3>1
    <3>2. CASE i # 1
      BY <1>1, <3>2 DEF CallFrames, Numbered
    <3> QED
      BY <3>1, <3>2
  <2>2. ASSUME NEW i \in DOMAIN s, NEW j \in DOMAIN s, s[i].n = s[j].n, s[i].n # 0
        PROVE  i = j
    <3>1. \A k \in DOMAIN s : k # 1 => s[k].n # lastReq + 1
      BY <1>1 DEF CallFrames, Numbered
    <3>2. CASE i = 1 \/ j = 1
      <4>1. s[1].n = lastReq + 1
        BY <1>1
      <4> QED
        BY <2>2, <3>1, <3>2, <4>1
    <3>3. CASE i # 1 /\ j # 1
      <4>1. i - 1 \in DOMAIN st /\ j - 1 \in DOMAIN st /\ i \in Int /\ j \in Int
            /\ st[i - 1].n = st[j - 1].n /\ st[i - 1].n # 0
        BY <1>1, <2>2, <3>3
      <4>2. i - 1 = j - 1
        BY <4>1 DEF CallFrames, Numbered
      <4> QED
        BY <4>1, <4>2
    <3> QED
      BY <3>2, <3>3
  <2> QED
    BY <2>1, <2>2 DEF Numbered
<1>5. Answered(s, q, wire)
  <2> SUFFICES ASSUME NEW i \in DOMAIN s, s[i].done \/ s[i].err
               PROVE  /\ \A j \in DOMAIN q : IsSync(q[j]) => q[j].n # s[i].n
                      /\ \A j \in DOMAIN wire : IsAnswer(wire[j]) => wire[j].n # s[i].n
    BY DEF Answered
  <2>1. i - 1 \in DOMAIN st /\ s[i] = st[i - 1]
    BY <1>1
  <2>2. s[i].n # lastReq + 1
    BY <2>1 DEF CallFrames, Numbered
  <2>3. \A j \in DOMAIN toServer : IsSync(toServer[j]) => toServer[j].n # s[i].n
    BY <2>1 DEF CallFrames, Answered
  <2>4. \A j \in DOMAIN wire : IsAnswer(wire[j]) => wire[j].n # s[i].n
    BY <2>1 DEF CallFrames, Answered
  <2> QED
    BY <1>2, <2>2, <2>3, <2>4
<1>6. Tokens(s, mainq)
  <2>1. ASSUME NEW i \in DOMAIN mainq, IsToken(mainq[i])
        PROVE  \E j \in DOMAIN s : s[j].n = mainq[i].n /\ Due(s[j])
    <3>1. PICK j \in DOMAIN st : st[j].n = mainq[i].n /\ Due(st[j])
      BY <2>1 DEF CallFrames, Tokens
    <3>2. j + 1 \in DOMAIN s /\ s[j + 1] = st[j]
      BY <1>1
    <3> QED
      BY <3>1, <3>2
  <2>2. ASSUME NEW j \in DOMAIN s, Due(s[j])
        PROVE  \E i \in DOMAIN mainq : mainq[i] = Token(s[j].n)
    <3>1. j # 1
      BY <1>1, <2>2 DEF Due
    <3> QED
      BY <1>1, <2>2, <3>1 DEF CallFrames, Tokens
  <2> QED
    BY <2>1, <2>2 DEF Tokens, CallFrames
<1> QED
  BY <1>3, <1>4, <1>5, <1>6 DEF s, q, TokenInv, CallFrames

\* With an empty socket, nothing is left to be answered.
LEMMA EmptySocket ==
  ASSUME CallFrames(stack'), lastReq' = lastReq, mainq' = mainq,
         toServer' = <<>>, wire' = <<>>
  PROVE  TokenInv'
<1>1. Socket(<<>>, <<>>, lastReq)
  BY DEF Socket
<1>2. Answered(stack', <<>>, <<>>)
  BY DEF Answered
<1> QED
  BY <1>1, <1>2 DEF TokenInv, CallFrames

-----------------------------------------------------------------------------
(* One lemma per action.                                                   *)

\* A frame that is no roundtrip has no token.
LEMMA QuietTop ==
  ASSUME CallFrames(stack), stack # <<>>, NEW F, stack \in Seq(F),
         Head(stack).op \notin {"wait", "drain"} \/ (~Head(stack).done) \/ Head(stack).mdone
  PROVE  ~Due(Head(stack))
<1>1. 1 \in DOMAIN stack /\ stack[1] = Head(stack)
  BY Popped
<1> QED
  BY <1>1 DEF CallFrames, Numbered, Due

\* Replacing the innermost frame by one with the same answers.
LEMMA SetTopTokens ==
  ASSUME NEW F, stack \in Seq(F), stack # <<>>, NEW g \in F, SetTop(g), TokenInv,
         g.op = "drain", Head(stack).op = "wait", g.n = Head(stack).n,
         g.done = Head(stack).done, g.err = Head(stack).err,
         g.ctx = Head(stack).ctx, g.mdone = Head(stack).mdone, g.done, g.ctx,
         UNCHANGED <<toServer, wire, lastReq, mainq>>
  PROVE  TokenInv'
<1>1. /\ 1 \in DOMAIN stack /\ stack[1] = Head(stack)
      /\ DOMAIN stack' = DOMAIN stack
      /\ \A i \in DOMAIN stack : stack'[i] = IF i = 1 THEN g ELSE stack[i]
  BY TopReplaced, Replaced DEF SetTop
<1>2. \A i \in DOMAIN stack :
        /\ stack'[i].n = stack[i].n /\ stack'[i].done = stack[i].done
        /\ stack'[i].err = stack[i].err /\ stack'[i].ctx = stack[i].ctx
        /\ stack'[i].mdone = stack[i].mdone
        /\ stack'[i].op \in {"wait", "drain"} <=> stack[i].op \in {"wait", "drain"}
        /\ stack'[i].op = "drain" => stack'[i].done /\ stack'[i].ctx
  BY <1>1 DEF TokenInv, CallFrames, Numbered
<1>3. Numbered(stack', lastReq)
  BY <1>1, <1>2 DEF TokenInv, CallFrames, Numbered
<1>4. Answered(stack', toServer, wire)
  BY <1>1, <1>2 DEF TokenInv, CallFrames, Answered
<1>5. Tokens(stack', mainq)
  <2>1. \A i \in DOMAIN stack : Due(stack'[i]) <=> Due(stack[i])
    BY <1>2 DEF Due
  <2> QED
    BY <1>1, <1>2, <2>1 DEF TokenInv, CallFrames, Tokens
<1> QED
  BY <1>3, <1>4, <1>5 DEF TokenInv, CallFrames

\* The wait loop ends: the call returns, or drains with its token attached.
LEMMA SyncWakeTokens ==
  ASSUME NEW Rs, NEW Ms, NEW Ss, NEW ops, NEW Marks, Covers(Rs, Ms, Ss, ops, Marks),
         CoreTypeOK(Rs, Ms, Ss, ops, Marks), TokenInv, SyncWake
  PROVE  TokenInv'
<1> DEFINE F == FrameType(ops, Marks)
           f == Head(stack)
<1>1. stack # <<>> /\ f.op = "wait" /\ (f.done \/ f.err)
      /\ UNCHANGED <<toServer, wire, lastReq, mainq>>
  BY DEF SyncWake, TopIs
<1>2. stack \in Seq(F) /\ f \in F /\ 1 \in DOMAIN stack /\ stack[1] = f
  BY <1>1, TopTypes, Popped
<1>3. CASE ~f.err /\ f.ctx
  <2> DEFINE g == [f EXCEPT !.op = "drain"]
  <2>1. SetTop(g) /\ f.done
    BY <1>1, <1>3 DEF SyncWake
  <2>2. /\ g \in F /\ g.op = "drain" /\ g.n = f.n /\ g.done = f.done /\ g.err = f.err
        /\ g.ctx = f.ctx /\ g.mdone = f.mdone
    BY <1>2 DEF FrameType, Covers
  <2> HIDE DEF F, g
  <2> QED
    BY <1>1, <1>2, <1>3, <2>1, <2>2, SetTopTokens
<1>4. CASE ~(~f.err /\ f.ctx)
  <2>1. Pop
    BY <1>4 DEF SyncWake
  <2>2. ~Due(f)
    BY <1>2, <1>4 DEF TokenInv, CallFrames, Numbered, Due
  <2>3. CallFrames(Tail(stack))
    BY <1>1, <1>2, <2>2, PopFrames DEF TokenInv
  <2> QED
    BY <1>1, <2>1, <2>3 DEF Pop, TokenInv, CallFrames
<1> QED
  BY <1>3, <1>4

\* A wait that ran out, a drain that saw its token, a handler: none has a
\* token left in the main context when its frame goes.
LEMMA ReturnTokens ==
  ASSUME NEW Rs, NEW Ms, NEW Ss, NEW ops, NEW Marks,
         CoreTypeOK(Rs, Ms, Ss, ops, Marks), TokenInv,
         SyncTimeout \/ DrainEnd \/ HandlerReturn \/ NotifyReturn
  PROVE  TokenInv'
<1>1. stack # <<>> /\ Pop /\ UNCHANGED <<toServer, wire, lastReq, mainq>>
  BY DEF SyncTimeout, DrainEnd, HandlerReturn, NotifyReturn, TopIs
<1>2. stack \in Seq(FrameType(ops, Marks))
  BY <1>1, TopTypes
<1>3. ~Due(Head(stack))
  BY <1>1, <1>2, QuietTop DEF TokenInv, SyncTimeout, DrainEnd, HandlerReturn, NotifyReturn, TopIs
<1>4. CallFrames(Tail(stack))
  BY <1>1, <1>2, <1>3, PopFrames DEF TokenInv
<1> QED
  BY <1>1, <1>4 DEF Pop, TokenInv, CallFrames

\* The loop thread reads an answer, which is then nowhere else: it is the
\* only one its call gets, and the token it attaches is the only one.
LEMMA LoopStepTokens ==
  ASSUME NEW Rs, NEW Ms, NEW Ss, NEW ops, NEW Marks, Covers(Rs, Ms, Ss, ops, Marks),
         CoreTypeOK(Rs, Ms, Ss, ops, Marks), TokenInv, LoopStep
  PROVE  TokenInv'
<1> DEFINE n == Head(wire).n
           F == FrameType(ops, Marks)
<1>1. /\ wire \in Seq(Ms) /\ wire # <<>> /\ wire' = Tail(wire) /\ mainq \in Seq(Ss)
      /\ lastReq' = lastReq /\ toServer' = toServer /\ IsAnswer(Head(wire))
      /\ stack \in Seq(F) /\ lastReq \in Nat
      /\ (OnDone(n) /\ Head(wire).kind = "done") \/ OnError(n)
  BY DEF LoopStep, CoreTypeOK, IsAnswer
<1>2. /\ 1 \in DOMAIN wire /\ wire[1] = Head(wire)
      /\ \A i \in DOMAIN wire' : i \in Int /\ i + 1 \in DOMAIN wire /\ i + 1 # 1
                                 /\ wire'[i] = wire[i + 1]
  <2> QED
    BY <1>1, Popped
<1>3. Socket(toServer, wire', lastReq)
  <2>1. ASSUME NEW i \in DOMAIN wire', NEW j \in DOMAIN wire',
               IsAnswer(wire'[i]), IsAnswer(wire'[j]), wire'[i].n = wire'[j].n, wire'[i].n # 0
        PROVE  i = j
    <3>1. i + 1 = j + 1
      BY <1>2, <2>1 DEF TokenInv, Socket
    <3> QED
      BY <1>2, <3>1
  <2> QED
    BY <1>2, <2>1 DEF TokenInv, Socket
<1>4. Answered(stack, toServer, wire')
  BY <1>2 DEF TokenInv, CallFrames, Answered
<1>5. CASE ~Waiting(n)
  <2>1. stack' = stack /\ mainq' = mainq
    BY <1>1, <1>5 DEF OnDone, OnError
  <2> QED
    BY <1>1, <1>3, <1>4, <2>1 DEF TokenInv, CallFrames
<1>6. CASE Waiting(n)
  <2> DEFINE f == Head(stack)
  <2>1. /\ stack # <<>> /\ 1 \in DOMAIN stack /\ stack[1] = f /\ f \in F
        /\ f.op = "wait" /\ f.n = n /\ n # 0 /\ n \in Nat
    <3>1. stack # <<>> /\ f.op = "wait" /\ f.n = n
      BY <1>6 DEF Waiting, TopIs
    <3>2. 1 \in DOMAIN stack /\ stack[1] = f /\ f \in F
      BY <1>1, <3>1, Popped, TopTypes
    <3> QED
      BY <1>1, <3>1, <3>2 DEF TokenInv, CallFrames, Numbered
  <2>2. ~f.done /\ ~f.err /\ ~f.mdone
    BY <1>1, <1>2, <2>1 DEF TokenInv, CallFrames, Answered, Numbered
  <2>3. /\ \A j \in DOMAIN toServer : IsSync(toServer[j]) => toServer[j].n # n
        /\ \A j \in DOMAIN wire' : IsAnswer(wire'[j]) => wire'[j].n # n
    BY <1>1, <1>2, <2>1 DEF TokenInv, Socket
  <2>4. PICK g \in F : /\ SetTop(g) /\ g.op = "wait" /\ g.n = n /\ g.ctx = f.ctx /\ ~g.mdone
                       /\ ~(g.done /\ g.err)
                       /\ mainq' = IF g.done /\ g.ctx THEN Append(mainq, Token(n)) ELSE mainq
    <3>1. CASE OnDone(n)
      <4> DEFINE g == [f EXCEPT !.done = TRUE]
      <4>1. g \in F /\ g.op = "wait" /\ g.n = n /\ g.ctx = f.ctx /\ ~g.mdone /\ g.done /\ ~g.err
        BY <2>1, <2>2 DEF FrameType
      <4>2. SetTop(g) /\ mainq' = IF f.ctx THEN Append(mainq, Token(n)) ELSE mainq
        BY <1>6, <3>1 DEF OnDone
      <4> QED
        BY <4>1, <4>2
    <3>2. CASE OnError(n)
      <4> DEFINE g == [f EXCEPT !.err = TRUE]
      <4>1. g \in F /\ g.op = "wait" /\ g.n = n /\ g.ctx = f.ctx /\ ~g.mdone /\ ~g.done /\ g.err
        BY <2>1, <2>2 DEF FrameType
      <4>2. SetTop(g) /\ mainq' = mainq
        BY <1>6, <3>2 DEF OnError
      <4> QED
        BY <4>1, <4>2
    <3> QED
      BY <1>1, <3>1, <3>2
  <2>5. /\ DOMAIN stack' = DOMAIN stack
        /\ \A i \in DOMAIN stack : stack'[i] = IF i = 1 THEN g ELSE stack[i]
    BY <1>1, <2>1, <2>4, TopReplaced, Replaced DEF SetTop
  <2> HIDE DEF F, n, f
  <2>6. Numbered(stack', lastReq)
    BY <2>1, <2>4, <2>5 DEF TokenInv, CallFrames, Numbered
  <2>7. Answered(stack', toServer, wire')
    BY <1>4, <2>3, <2>4, <2>5 DEF Answered
  <2>8. ~Due(stack[1])
    BY <2>1, <2>2 DEF Due
  <2>9. \A i \in DOMAIN mainq : IsToken(mainq[i]) => mainq[i].n # n
    BY <2>1, <2>8 DEF TokenInv, CallFrames, Tokens, Numbered
  <2>10. Tokens(stack', mainq')
    <3>1. CASE g.done /\ g.ctx
      <4>1. Token(n) \in [kind : {"token"}, n : Nat]
        BY <2>1 DEF Token
      <4>2. Token(n) \in Ss /\ Token(n).kind = "token" /\ Token(n).n = n
        BY <4>1 DEF Covers, CoreSources, Token
      <4>3. mainq' = Append(mainq, Token(n)) /\ Due(g)
        BY <2>4, <3>1 DEF Due
      <4>4. /\ Len(mainq) + 1 \in DOMAIN mainq' /\ mainq'[Len(mainq) + 1] = Token(n)
            /\ \A i \in DOMAIN mainq : i \in DOMAIN mainq' /\ mainq'[i] = mainq[i]
            /\ \A i \in DOMAIN mainq' :
                 \/ i = Len(mainq) + 1
                 \/ i \in DOMAIN mainq /\ mainq'[i] = mainq[i]
        BY <1>1, <4>2, <4>3, Appended
      <4>5. ASSUME NEW i \in DOMAIN mainq', IsToken(mainq'[i])
            PROVE  \E j \in DOMAIN stack' : stack'[j].n = mainq'[i].n /\ Due(stack'[j])
        <5>1. CASE i = Len(mainq) + 1
          <6>1. mainq'[i].n = n /\ stack'[1].n = n /\ Due(stack'[1]) /\ 1 \in DOMAIN stack'
            BY <2>1, <2>4, <2>5, <4>2, <4>3, <4>4, <5>1
          <6> QED
            BY <6>1
        <5>2. CASE i \in DOMAIN mainq /\ mainq'[i] = mainq[i]
          <6>1. PICK j \in DOMAIN stack : stack[j].n = mainq[i].n /\ Due(stack[j])
            BY <4>5, <5>2 DEF TokenInv, CallFrames, Tokens
          <6>2. j # 1
            BY <2>8, <6>1
          <6> QED
            BY <2>5, <5>2, <6>1, <6>2
        <5> QED
          BY <4>4, <5>1, <5>2
      <4>6. \A i, j \in DOMAIN mainq' :
              IsToken(mainq'[i]) /\ IsToken(mainq'[j]) /\ mainq'[i].n = mainq'[j].n => i = j
        BY <2>9, <4>2, <4>4 DEF TokenInv, CallFrames, Tokens
      <4>7. ASSUME NEW j \in DOMAIN stack', Due(stack'[j])
            PROVE  \E i \in DOMAIN mainq' : mainq'[i] = Token(stack'[j].n)
        <5>1. CASE j = 1
          BY <2>1, <2>4, <2>5, <4>4, <5>1
        <5>2. CASE j # 1
          <6>1. PICK i \in DOMAIN mainq : mainq[i] = Token(stack[j].n)
            BY <2>5, <4>7, <5>2 DEF TokenInv, CallFrames, Tokens
          <6> QED
            BY <2>5, <4>4, <5>2, <6>1
        <5> QED
          BY <5>1, <5>2
      <4> QED
        BY <4>5, <4>6, <4>7 DEF Tokens
    <3>2. CASE ~(g.done /\ g.ctx)
      <4>1. mainq' = mainq /\ ~Due(g)
        BY <2>4, <3>2 DEF Due
      <4>2. ASSUME NEW i \in DOMAIN mainq, IsToken(mainq[i])
            PROVE  \E j \in DOMAIN stack' : stack'[j].n = mainq[i].n /\ Due(stack'[j])
        <5>1. PICK j \in DOMAIN stack : stack[j].n = mainq[i].n /\ Due(stack[j])
          BY <4>2 DEF TokenInv, CallFrames, Tokens
        <5>2. j # 1
          BY <2>8, <5>1
        <5> QED
          BY <2>5, <5>1, <5>2
      <4>3. ASSUME NEW j \in DOMAIN stack', Due(stack'[j])
            PROVE  \E i \in DOMAIN mainq : mainq[i] = Token(stack'[j].n)
        BY <2>1, <2>5, <4>1, <4>3 DEF TokenInv, CallFrames, Tokens
      <4> QED
        BY <4>1, <4>2, <4>3 DEF Tokens, TokenInv, CallFrames
    <3> QED
      BY <3>1, <3>2
  <2> QED
    BY <1>1, <1>3, <2>6, <2>7, <2>10 DEF TokenInv, CallFrames
<1> QED
  BY <1>5, <1>6

\* The source at the head of the context marks the frame of its own call,
\* however deep that frame is in the stack.
LEMMA DispatchTokenTokens ==
  ASSUME NEW Rs, NEW Ms, NEW Ss, NEW ops, NEW Marks,
         CoreTypeOK(Rs, Ms, Ss, ops, Marks), TokenInv, DispatchToken
  PROVE  TokenInv'
<1> DEFINE n == Head(mainq).n
           F == FrameType(ops, Marks)
           k == FrameOf(n)
           g == [stack[k] EXCEPT !.mdone = TRUE]
<1>1. /\ mainq \in Seq(Ss) /\ mainq # <<>> /\ mainq' = Tail(mainq) /\ stack \in Seq(F)
      /\ IsToken(Head(mainq)) /\ UNCHANGED <<toServer, wire, lastReq>> /\ MarkDrained(n)
  BY DEF DispatchToken, CoreTypeOK, IsToken
<1>2. /\ 1 \in DOMAIN mainq /\ mainq[1] = Head(mainq)
      /\ \A i \in DOMAIN mainq' : /\ i \in Int /\ i + 1 \in DOMAIN mainq /\ i + 1 # 1
                                  /\ mainq'[i] = mainq[i + 1]
      /\ \A i \in DOMAIN mainq :
           i \in Int /\ (i = 1 \/ (i - 1 \in DOMAIN mainq' /\ mainq[i] = mainq'[i - 1]))
  BY <1>1, Popped
<1>3. PICK d \in DOMAIN stack : stack[d].n = n /\ Due(stack[d])
  BY <1>1, <1>2 DEF TokenInv, CallFrames, Tokens
<1>4. k \in DOMAIN stack /\ stack[k].n = n /\ stack' = [stack EXCEPT ![k] = g]
  BY <1>1, <1>3 DEF OnStack, FrameOf, MarkDrained
<1>5. n # 0
  BY <1>3 DEF TokenInv, CallFrames, Numbered, Due
<1>6. k = d
  BY <1>3, <1>4, <1>5 DEF TokenInv, CallFrames, Numbered
<1>7. stack[k] \in F
  BY <1>1, <1>4
<1>8. /\ g \in F /\ g.n = n /\ g.op = stack[k].op /\ g.done /\ g.err = stack[k].err
      /\ g.ctx = stack[k].ctx /\ g.mdone
  BY <1>3, <1>4, <1>6, <1>7 DEF FrameType, Due
<1> HIDE DEF F, k, g, n
<1>9. /\ DOMAIN stack' = DOMAIN stack
      /\ \A i \in DOMAIN stack : stack'[i] = IF i = k THEN g ELSE stack[i]
  BY <1>1, <1>4, <1>8, Replaced
<1>10. Numbered(stack', lastReq)
  BY <1>3, <1>4, <1>6, <1>8, <1>9 DEF TokenInv, CallFrames, Numbered, Due
<1>11. Answered(stack', toServer, wire)
  BY <1>3, <1>4, <1>6, <1>8, <1>9 DEF TokenInv, CallFrames, Answered, Due
<1>12. Tokens(stack', mainq')
  <2>1. ASSUME NEW i \in DOMAIN mainq', IsToken(mainq'[i])
        PROVE  \E j \in DOMAIN stack' : stack'[j].n = mainq'[i].n /\ Due(stack'[j])
    <3>1. i + 1 \in DOMAIN mainq /\ i + 1 # 1 /\ mainq'[i] = mainq[i + 1]
      BY <1>2
    <3>2. mainq[i + 1].n # n
      BY <1>1, <1>2, <2>1, <3>1 DEF TokenInv, CallFrames, Tokens, n
    <3>3. PICK j \in DOMAIN stack : stack[j].n = mainq[i + 1].n /\ Due(stack[j])
      BY <2>1, <3>1 DEF TokenInv, CallFrames, Tokens
    <3>4. j # k
      BY <1>4, <3>2, <3>3
    <3> QED
      BY <1>9, <3>1, <3>3, <3>4
  <2>2. ASSUME NEW i \in DOMAIN mainq', NEW j \in DOMAIN mainq',
               IsToken(mainq'[i]), IsToken(mainq'[j]), mainq'[i].n = mainq'[j].n
        PROVE  i = j
    <3>1. i + 1 = j + 1
      BY <1>2, <2>2 DEF TokenInv, CallFrames, Tokens
    <3> QED
      BY <1>2, <3>1
  <2>3. ASSUME NEW j \in DOMAIN stack', Due(stack'[j])
        PROVE  \E i \in DOMAIN mainq' : mainq'[i] = Token(stack'[j].n)
    <3>1. j \in DOMAIN stack /\ j # k /\ stack'[j] = stack[j]
      BY <1>8, <1>9, <2>3 DEF Due
    <3>2. PICK i \in DOMAIN mainq : mainq[i] = Token(stack[j].n)
      BY <2>3, <3>1 DEF TokenInv, CallFrames, Tokens
    <3>3. stack[j].n # n
      BY <1>4, <1>5, <3>1 DEF TokenInv, CallFrames, Numbered
    <3>4. i # 1
      BY <1>2, <3>2, <3>3 DEF Token, n
    <3> QED
      BY <1>2, <3>1, <3>2, <3>4
  <2> QED
    BY <2>1, <2>2, <2>3 DEF Tokens
<1> QED
  BY <1>1, <1>10, <1>11, <1>12 DEF TokenInv, CallFrames

\* Connecting and disconnecting empty the socket; a frame of a handler, or
\* of a call that connected, comes on top.
LEMMA PushedQuiet ==
  ASSUME NEW F, stack \in Seq(F), NEW f \in F, IsQuiet(f), stack' = <<f>> \o stack,
         TokenInv, lastReq \in Nat, UNCHANGED <<lastReq, mainq>>,
         \/ toServer' = <<>> /\ wire' = <<>>
         \/ UNCHANGED <<toServer, wire>>
  PROVE  TokenInv'
<1>1. CallFrames(<<f>> \o stack)
  BY PushQuiet DEF TokenInv
<1>2. CallFrames(stack')
  BY <1>1
<1>3. CASE toServer' = <<>> /\ wire' = <<>>
  BY <1>2, <1>3, EmptySocket
<1>4. CASE UNCHANGED <<toServer, wire>>
  BY <1>2, <1>4 DEF TokenInv, CallFrames
<1> QED
  BY <1>3, <1>4

LEMMA NotifiedTokens ==
  ASSUME NEW F, Notify \in F, NEW rest \in Seq(F), CallFrames(rest),
         stack' = Notified(rest), lastReq \in Nat, UNCHANGED <<lastReq, mainq>>,
         toServer' = <<>>, wire' = <<>>
  PROVE  TokenInv'
<1>1. stack' = rest \/ stack' = <<Notify>> \o rest
  BY NotifiedCases
<1>2. CallFrames(<<Notify>> \o rest)
  BY PushQuiet, NotifyQuiet
<1>3. CallFrames(stack')
  BY <1>1, <1>2
<1> QED
  BY <1>3, EmptySocket

\* A roundtrip starts over the frames that it finds, or that it resumes.
LEMMA SendSyncTokens ==
  ASSUME NEW Rs, NEW Ms, NEW Ss, NEW ops, NEW Marks, Covers(Rs, Ms, Ss, ops, Marks),
         CoreTypeOK(Rs, Ms, Ss, ops, Marks), TokenInv,
         NEW ctx \in BOOLEAN, NEW timed \in BOOLEAN, NEW mark \in Marks,
         NEW below \in Seq(FrameType(ops, Marks)), CallFrames(below),
         SendSync(ctx, timed, mark, below), UNCHANGED <<wire, mainq>>
  PROVE  TokenInv'
<1> DEFINE f == Frame("wait", lastReq + 1, ctx, timed, mark)
           F == FrameType(ops, Marks)
<1>1. /\ lastReq' = lastReq + 1 /\ lastReq \in Nat /\ toServer \in Seq(Rs)
      /\ toServer' = Append(toServer, SyncRequest) /\ stack' = <<f>> \o below
  BY DEF CoreTypeOK, SendSync
<1>2. SyncRequest \in Rs /\ IsSync(SyncRequest) /\ SyncRequest.n = lastReq + 1
  BY <1>1 DEF SyncRequest, Covers, IsSync
<1>3. f \in F /\ f.op = "wait" /\ f.n = lastReq + 1 /\ ~f.done /\ ~f.err /\ ~f.mdone
  BY <1>1 DEF Frame, FrameType, Covers
<1> HIDE DEF F, f
<1>4. below \in Seq(F)
  BY DEF F
<1> QED
  BY <1>1, <1>2, <1>3, <1>4, PushWait DEF TokenInv

\* The server answers the oldest request; it is on one side only throughout.
LEMMA ServerStepTokens ==
  ASSUME toServer \in Seq(CoreRequests), wire \in Seq(CoreMessages), TokenInv, ServerStep
  PROVE  TokenInv'
<1> DEFINE r == Head(toServer)
<1>1. /\ toServer # <<>> /\ toServer' = Tail(toServer)
      /\ UNCHANGED <<lastReq, mainq, stack>>
  BY DEF ServerStep
<1>2. /\ 1 \in DOMAIN toServer /\ toServer[1] = r /\ r \in CoreRequests
      /\ \A i \in DOMAIN toServer' : /\ i \in Int /\ i + 1 \in DOMAIN toServer /\ i + 1 # 1
                                     /\ toServer'[i] = toServer[i + 1]
  BY <1>1, Popped
<1>3. ASSUME NEW i \in DOMAIN toServer', NEW j \in DOMAIN toServer',
             IsSync(toServer'[i]), IsSync(toServer'[j]), toServer'[i].n = toServer'[j].n
      PROVE  i = j
  <2>1. i + 1 = j + 1
    BY <1>2, <1>3 DEF TokenInv, Socket
  <2> QED
    BY <1>2, <2>1
<1>4. Socket(toServer', wire, lastReq)
  BY <1>2, <1>3 DEF TokenInv, Socket
<1>5. Answered(stack, toServer', wire)
  BY <1>2 DEF TokenInv, CallFrames, Answered
<1>6. CASE wire' = wire
  BY <1>1, <1>4, <1>5, <1>6 DEF TokenInv, CallFrames
<1>7. ASSUME IsSync(r), NEW m \in CoreMessages, m.n = r.n, wire' = Append(wire, m)
      PROVE  TokenInv'
  <2>1. \A i \in DOMAIN wire' :
          \/ i = Len(wire) + 1 /\ wire'[i] = m
          \/ i \in DOMAIN wire /\ wire'[i] = wire[i]
    BY <1>7, Appended
  <2>2. r.n \in 1..lastReq
    BY <1>2, <1>7 DEF TokenInv, Socket
  <2>3. \A j \in DOMAIN wire : IsAnswer(wire[j]) => wire[j].n # r.n
    BY <1>2, <1>7 DEF TokenInv, Socket
  <2>4. \A j \in DOMAIN toServer' : IsSync(toServer'[j]) => toServer'[j].n # r.n
    BY <1>2, <1>7 DEF TokenInv, Socket
  <2>5. \A i \in DOMAIN stack : stack[i].done \/ stack[i].err => stack[i].n # r.n
    BY <1>2, <1>7 DEF TokenInv, CallFrames, Answered
  <2> HIDE DEF r
  <2>6. \A i \in DOMAIN wire' : IsAnswer(wire'[i]) => wire'[i].n \in 0..lastReq
    BY <1>4, <1>7, <2>1, <2>2 DEF Socket
  <2>7. \A i, j \in DOMAIN wire' :
          /\ IsAnswer(wire'[i]) /\ IsAnswer(wire'[j])
          /\ wire'[i].n = wire'[j].n /\ wire'[i].n # 0
          => i = j
    BY <1>4, <1>7, <2>1, <2>3 DEF Socket
  <2>8. \A i \in DOMAIN toServer', j \in DOMAIN wire' :
          IsSync(toServer'[i]) /\ IsAnswer(wire'[j]) => toServer'[i].n # wire'[j].n
    BY <1>4, <1>7, <2>1, <2>4 DEF Socket
  <2>9. Socket(toServer', wire', lastReq)
    BY <1>4, <2>6, <2>7, <2>8 DEF Socket
  <2>10. Answered(stack, toServer', wire')
    BY <1>5, <1>7, <2>1, <2>5 DEF Answered
  <2> QED
    BY <1>1, <2>9, <2>10 DEF TokenInv, CallFrames
<1>8. CASE r.kind = "sync" /\ wire' = Append(wire, [kind |-> "done", n |-> r.n])
  <2>1. [kind |-> "done", n |-> r.n] \in CoreMessages
    BY <1>2 DEF CoreMessages, CoreRequests
  <2> QED
    BY <1>7, <1>8, <2>1 DEF IsSync
<1>9. CASE r.kind = "sync" /\ wire' = Append(wire, [kind |-> "error", n |-> r.n])
  <2>1. [kind |-> "error", n |-> r.n] \in CoreMessages
    BY <1>2 DEF CoreMessages, CoreRequests
  <2> QED
    BY <1>7, <1>9, <2>1 DEF IsSync
<1> QED
  BY <1>6, <1>8, <1>9 DEF ServerStep

\* The error of a lost connection is the answer to no roundtrip.
LEMMA LinkBreaksTokens ==
  ASSUME wire \in Seq(CoreMessages), lastReq \in Nat, TokenInv, LinkBreaks
  PROVE  TokenInv'
<1> DEFINE m == [kind |-> "error", n |-> 0]
<1>1. m \in CoreMessages /\ m.n = 0
  BY DEF CoreMessages
<1>2. toServer' = <<>> /\ wire' = Append(wire, m) /\ UNCHANGED <<lastReq, mainq, stack>>
  BY DEF LinkBreaks
<1> HIDE DEF m
<1>3. \A i \in DOMAIN wire' :
        \/ i = Len(wire) + 1 /\ wire'[i] = m
        \/ i \in DOMAIN wire /\ wire'[i] = wire[i]
  BY <1>1, <1>2, Appended
<1>4. Socket(toServer', wire', lastReq)
  BY <1>1, <1>2, <1>3 DEF TokenInv, Socket
<1>5. Answered(stack, toServer', wire')
  BY <1>1, <1>2, <1>3 DEF TokenInv, CallFrames, Answered, Numbered
<1> QED
  BY <1>2, <1>4, <1>5 DEF TokenInv, CallFrames

\* Another request is no roundtrip.
LEMMA SendOtherTokens ==
  ASSUME toServer \in Seq(CoreRequests), lastReq \in Nat, TokenInv, SendOther
  PROVE  TokenInv'
<1> DEFINE r == [kind |-> "other", n |-> lastReq + 1]
<1>1. r \in CoreRequests /\ ~IsSync(r)
  BY DEF CoreRequests, IsSync
<1>2. /\ toServer' = Append(toServer, r) /\ lastReq' = lastReq + 1
      /\ UNCHANGED <<wire, mainq, stack>>
  BY DEF SendOther
<1> HIDE DEF r
<1>3. \A i \in DOMAIN toServer' :
        \/ i = Len(toServer) + 1 /\ toServer'[i] = r
        \/ i \in DOMAIN toServer /\ toServer'[i] = toServer[i]
  BY <1>1, <1>2, Appended
<1>4. Socket(toServer', wire, lastReq + 1)
  BY <1>1, <1>3 DEF TokenInv, Socket
<1>5. Answered(stack, toServer', wire)
  BY <1>1, <1>3 DEF TokenInv, CallFrames, Answered
<1>6. Numbered(stack, lastReq + 1)
  BY DEF TokenInv, CallFrames, Numbered
<1> QED
  BY <1>2, <1>4, <1>5, <1>6 DEF TokenInv, CallFrames

-----------------------------------------------------------------------------
(* For the wrappers: which frames may lie above which others.              *)

Has(st, X) == \E i \in DOMAIN st : st[i] \in X

\* Below a frame of S there is none of R, and a frame of Z is the innermost.
Nested(st, S, R, Z) ==
  /\ \A i, j \in DOMAIN st : i < j /\ st[i] \in S => st[j] \notin R
  /\ \A i \in DOMAIN st : st[i] \in Z => i = 1

\* What the steps of a roundtrip do to a frame.
SameCall(f, g) == g.mark = f.mark /\ (g.op = f.op \/ (f.op = "wait" /\ g.op = "drain"))
Closed(X, F) == \A f, g \in F : SameCall(f, g) /\ g \in X => f \in X

LEMMA NestedPushed ==
  ASSUME NEW F, NEW S, NEW R, NEW Z, NEW st \in Seq(F), NEW f \in F, Nested(st, S, R, Z),
         ~Has(st, Z), f \in S => ~Has(st, R)
  PROVE  /\ <<f>> \o st \in Seq(F) /\ Nested(<<f>> \o st, S, R, Z)
         /\ \A X : Has(<<f>> \o st, X) <=> f \in X \/ Has(st, X)
<1> DEFINE s == <<f>> \o st
<1>1. /\ s \in Seq(F) /\ 1 \in DOMAIN s /\ s[1] = f
      /\ \A i \in DOMAIN st : i \in Int /\ i + 1 \in DOMAIN s /\ s[i + 1] = st[i]
      /\ \A i \in DOMAIN s : i \in Int /\ (i = 1 \/ (i - 1 \in DOMAIN st /\ s[i] = st[i - 1]))
      /\ \A i \in DOMAIN s : i >= 1
  <2>1. \A i \in DOMAIN s : i >= 1
    OBVIOUS
  <2> QED
    BY <2>1, Pushed
<1> HIDE DEF s
<1>2. \A X : Has(s, X) <=> f \in X \/ Has(st, X)
  <2> TAKE X
  <2>1. ASSUME Has(s, X), f \notin X
        PROVE  Has(st, X)
    BY <1>1, <2>1 DEF Has
  <2>2. ASSUME NEW i \in DOMAIN st, st[i] \in X
        PROVE  Has(s, X)
    BY <1>1, <2>2 DEF Has
  <2>3. f \in X => Has(s, X)
    BY <1>1 DEF Has
  <2> QED
    BY <2>1, <2>2, <2>3 DEF Has
<1>3. \A i, j \in DOMAIN s : i < j /\ s[i] \in S => s[j] \notin R
  <2> SUFFICES ASSUME NEW i \in DOMAIN s, NEW j \in DOMAIN s, i < j, s[i] \in S
               PROVE  s[j] \notin R
    OBVIOUS
  <2>1. j # 1 /\ j - 1 \in DOMAIN st /\ s[j] = st[j - 1]
    BY <1>1
  <2>2. CASE i = 1
    BY <1>1, <2>1, <2>2 DEF Has
  <2>3. CASE i # 1
    <3>1. i - 1 \in DOMAIN st /\ s[i] = st[i - 1] /\ i - 1 < j - 1
      BY <1>1, <2>3
    <3> QED
      BY <2>1, <3>1 DEF Nested
  <2> QED
    BY <2>2, <2>3
<1>4. \A i \in DOMAIN s : s[i] \in Z => i = 1
  BY <1>1 DEF Has
<1> QED
  BY <1>1, <1>2, <1>3, <1>4 DEF s, Nested

LEMMA NestedPopped ==
  ASSUME NEW F, NEW S, NEW R, NEW Z, NEW st \in Seq(F), st # <<>>, Nested(st, S, R, Z)
  PROVE  /\ Tail(st) \in Seq(F) /\ Head(st) \in F /\ Nested(Tail(st), S, R, Z)
         /\ ~Has(Tail(st), Z)
         /\ Head(st) \in S => ~Has(Tail(st), R)
         /\ \A X : Has(st, X) <=> Head(st) \in X \/ Has(Tail(st), X)
<1> DEFINE t == Tail(st)
           f == Head(st)
<1>1. /\ t \in Seq(F) /\ f \in F /\ 1 \in DOMAIN st /\ st[1] = f
      /\ \A i \in DOMAIN t : i \in Int /\ i + 1 \in DOMAIN st /\ i + 1 # 1 /\ t[i] = st[i + 1]
      /\ \A i \in DOMAIN st : i \in Int /\ (i = 1 \/ (i - 1 \in DOMAIN t /\ st[i] = t[i - 1]))
      /\ \A i \in DOMAIN t : i >= 1
  <2>1. \A i \in DOMAIN t : i >= 1
    OBVIOUS
  <2> QED
    BY <2>1, Popped
<1> HIDE DEF t, f
<1>2. \A X : Has(st, X) <=> f \in X \/ Has(t, X)
  <2> TAKE X
  <2>1. ASSUME Has(st, X), f \notin X
        PROVE  Has(t, X)
    BY <1>1, <2>1 DEF Has
  <2>2. ASSUME NEW i \in DOMAIN t, t[i] \in X
        PROVE  Has(st, X)
    BY <1>1, <2>2 DEF Has
  <2>3. f \in X => Has(st, X)
    BY <1>1 DEF Has
  <2> QED
    BY <2>1, <2>2, <2>3 DEF Has
<1>3. ~Has(t, Z)
  BY <1>1 DEF Has, Nested
<1>4. f \in S => ~Has(t, R)
  <2>1. \A i \in DOMAIN t : 1 < i + 1
    BY <1>1
  <2> QED
    BY <1>1, <2>1 DEF Has, Nested
<1>5. Nested(t, S, R, Z)
  <2>1. \A i, j \in DOMAIN t : i < j => i + 1 < j + 1
    BY <1>1
  <2> QED
    BY <1>1, <1>3, <2>1 DEF Nested, Has
<1> QED
  BY <1>1, <1>2, <1>3, <1>4, <1>5 DEF t, f

LEMMA HasPopped ==
  ASSUME NEW F, NEW st \in Seq(F), st # <<>>, NEW X
  PROVE  Has(st, X) <=> Head(st) \in X \/ Has(Tail(st), X)
<1>1. Nested(st, {}, {}, {})
  BY DEF Nested
<1> QED
  BY <1>1, NestedPopped

LEMMA NestedReplaced ==
  ASSUME NEW F, NEW S, NEW R, NEW Z, NEW st \in Seq(F), Nested(st, S, R, Z),
         NEW k \in DOMAIN st, NEW f \in F, SameCall(st[k], f),
         Closed(S, F), Closed(R, F), Closed(Z, F)
  PROVE  /\ [st EXCEPT ![k] = f] \in Seq(F) /\ Nested([st EXCEPT ![k] = f], S, R, Z)
         /\ \A X : Closed(X, F) /\ Has([st EXCEPT ![k] = f], X) => Has(st, X)
<1> DEFINE s == [st EXCEPT ![k] = f]
<1>1. /\ s \in Seq(F) /\ DOMAIN s = DOMAIN st
      /\ \A i \in DOMAIN st : s[i] = IF i = k THEN f ELSE st[i]
  BY Replaced
<1>2. st[k] \in F
  OBVIOUS
<1> HIDE DEF s
<1>3. \A X : Closed(X, F) => \A i \in DOMAIN st : s[i] \in X => st[i] \in X
  BY <1>1, <1>2 DEF Closed
<1>4. Nested(s, S, R, Z)
  BY <1>1, <1>3 DEF Nested
<1>5. \A X : Closed(X, F) /\ Has(s, X) => Has(st, X)
  BY <1>1, <1>3 DEF Has
<1> QED
  BY <1>1, <1>4, <1>5 DEF s

\* The steps of a roundtrip that pop a frame or mark one.
CoreStep ==
  \/ SyncWake \/ SyncTimeout \/ DrainEnd \/ HandlerReturn \/ NotifyReturn \/ DispatchToken
  \/ LoopStep

LEMMA CoreStepFrames ==
  ASSUME NEW Rs, NEW Ms, NEW Ss, NEW ops, NEW Marks, Covers(Rs, Ms, Ss, ops, Marks),
         CoreTypeOK(Rs, Ms, Ss, ops, Marks), CoreStep
  PROVE  \/ stack' = stack
         \/ /\ stack # <<>> /\ stack' = Tail(stack)
            /\ Head(stack).op \in {"wait", "drain", "app", "notify"}
         \/ \E k \in DOMAIN stack, f \in FrameType(ops, Marks) :
              SameCall(stack[k], f) /\ stack' = [stack EXCEPT ![k] = f]
<1> DEFINE F == FrameType(ops, Marks)
<1>1. stack \in Seq(F)
  BY DEF CoreTypeOK
<1>2. ASSUME NEW f \in F, stack # <<>>, SetTop(f), SameCall(Head(stack), f)
      PROVE  \E k \in DOMAIN stack, g \in F :
               SameCall(stack[k], g) /\ stack' = [stack EXCEPT ![k] = g]
  <2> HIDE DEF F
  <2> QED
    BY <1>1, <1>2, TopReplaced DEF SetTop
<1>3. ASSUME stack # <<>>
      PROVE  /\ [Head(stack) EXCEPT !.done = TRUE] \in F
             /\ SameCall(Head(stack), [Head(stack) EXCEPT !.done = TRUE])
             /\ [Head(stack) EXCEPT !.err = TRUE] \in F
             /\ SameCall(Head(stack), [Head(stack) EXCEPT !.err = TRUE])
             /\ [Head(stack) EXCEPT !.op = "drain"] \in F
             /\ Head(stack).op = "wait" =>
                  SameCall(Head(stack), [Head(stack) EXCEPT !.op = "drain"])
  <2>1. Head(stack) \in F
    BY <1>3, TopTypes
  <2> QED
    BY <2>1 DEF FrameType, SameCall, Covers
<1>4. CASE SyncWake
  <2>1. stack # <<>> /\ Head(stack).op = "wait"
    BY <1>4 DEF SyncWake, TopIs
  <2>2. CASE Pop
    BY <2>1, <2>2 DEF Pop
  <2>3. CASE SetTop([Head(stack) EXCEPT !.op = "drain"])
    BY <1>2, <1>3, <2>1, <2>3
  <2> QED
    BY <1>4, <2>2, <2>3 DEF SyncWake
<1>5. CASE SyncTimeout \/ DrainEnd \/ HandlerReturn \/ NotifyReturn
  BY <1>5 DEF SyncTimeout, DrainEnd, HandlerReturn, NotifyReturn, TopIs, Pop
<1>6. CASE LoopStep
  <2> DEFINE n == Head(wire).n
  <2>1. CASE ~Waiting(n)
    BY <1>6, <2>1 DEF LoopStep, OnDone, OnError
  <2>2. CASE Waiting(n)
    <3>1. stack # <<>>
      BY <2>2 DEF Waiting, TopIs
    <3>2. \/ SetTop([Head(stack) EXCEPT !.done = TRUE])
          \/ SetTop([Head(stack) EXCEPT !.err = TRUE])
      BY <1>6, <2>2 DEF LoopStep, OnDone, OnError
    <3> QED
      BY <1>2, <1>3, <3>1, <3>2
  <2> QED
    BY <2>1, <2>2
<1>7. CASE DispatchToken
  <2> DEFINE n == Head(mainq).n
             k == FrameOf(n)
             f == [stack[k] EXCEPT !.mdone = TRUE]
  <2>1. CASE OnStack(n)
    <3>1. k \in DOMAIN stack /\ stack' = [stack EXCEPT ![k] = f]
      BY <1>7, <2>1 DEF OnStack, FrameOf, DispatchToken, MarkDrained
    <3>2. stack[k] \in F
      BY <1>1, <3>1
    <3>3. f \in F /\ SameCall(stack[k], f)
      BY <3>2 DEF FrameType, SameCall
    <3> QED
      BY <3>1, <3>3
  <2>2. CASE ~OnStack(n)
    BY <1>7, <2>2 DEF DispatchToken, MarkDrained
  <2> QED
    BY <2>1, <2>2
<1> QED
  BY <1>4, <1>5, <1>6, <1>7 DEF CoreStep

\* Those steps keep the nesting, and add no frame of a kind.
LEMMA CoreStepNested ==
  ASSUME NEW Rs, NEW Ms, NEW Ss, NEW ops, NEW Marks, Covers(Rs, Ms, Ss, ops, Marks),
         CoreTypeOK(Rs, Ms, Ss, ops, Marks), CoreStep, NEW S, NEW R, NEW Z,
         Nested(stack, S, R, Z), Closed(S, FrameType(ops, Marks)),
         Closed(R, FrameType(ops, Marks)), Closed(Z, FrameType(ops, Marks))
  PROVE  /\ Nested(stack', S, R, Z)
         /\ \A X : Closed(X, FrameType(ops, Marks)) /\ Has(stack', X) => Has(stack, X)
<1> DEFINE F == FrameType(ops, Marks)
<1>1. stack \in Seq(F)
  BY DEF CoreTypeOK
<1>2. \/ stack' = stack
      \/ stack # <<>> /\ stack' = Tail(stack)
      \/ \E k \in DOMAIN stack, f \in F :
           SameCall(stack[k], f) /\ stack' = [stack EXCEPT ![k] = f]
  BY CoreStepFrames
<1> HIDE DEF F
<1>3. CASE stack # <<>> /\ stack' = Tail(stack)
  <2>1. Nested(Tail(stack), S, R, Z)
    BY <1>1, <1>3, NestedPopped
  <2>2. ASSUME NEW X, Has(Tail(stack), X)
        PROVE  Has(stack, X)
    BY <1>1, <1>3, <2>2, HasPopped
  <2> QED
    BY <1>3, <2>1, <2>2
<1>4. CASE \E k \in DOMAIN stack, f \in F :
             SameCall(stack[k], f) /\ stack' = [stack EXCEPT ![k] = f]
  <2>1. PICK k \in DOMAIN stack, f \in F :
          SameCall(stack[k], f) /\ stack' = [stack EXCEPT ![k] = f]
    BY <1>4
  <2>2. /\ Nested([stack EXCEPT ![k] = f], S, R, Z)
        /\ \A X : Closed(X, F) /\ Has([stack EXCEPT ![k] = f], X) => Has(stack, X)
    <3>1. /\ SameCall(stack[k], f) /\ Closed(S, F) /\ Closed(R, F) /\ Closed(Z, F)
          /\ k \in DOMAIN stack /\ f \in F
      BY <2>1 DEF F
    <3>2. Nested([stack EXCEPT ![k] = f], S, R, Z)
      BY <1>1, <3>1, NestedReplaced
    <3>3. ASSUME NEW X, Closed(X, F), Has([stack EXCEPT ![k] = f], X)
          PROVE  Has(stack, X)
      <4>1. stack[k] \in F
        BY <1>1, <3>1
      <4> QED
        BY <1>1, <3>1, <3>3, <4>1 DEF Closed, Has
    <3> QED
      BY <3>2, <3>3
  <2> QED
    BY <2>1, <2>2 DEF F
<1> QED
  BY <1>2, <1>3, <1>4

-----------------------------------------------------------------------------
(* For the wrappers: emissions, roundtrips, and messages to many.          *)

\* A signal is emitted to a handler, or to none.
LEMMA EmitCases ==
  ASSUME NEW F, NEW rest \in Seq(F), Emit(rest)
  PROVE  stack' = rest \/ stack' = <<App>> \o rest
<1>1. PICK h \in Handlers : stack' = h \o rest
  BY DEF Emit
<1>2. h = <<>> \/ h = <<App>>
  BY <1>1 DEF Handlers
<1>3. <<>> \o rest = rest
  OBVIOUS
<1> QED
  BY <1>1, <1>2, <1>3

LEMMA EmitNested ==
  ASSUME NEW F, App \in F, NEW S, NEW R, NEW Z, NEW rest \in Seq(F), Emit(rest),
         Nested(rest, S, R, Z), ~Has(rest, Z), App \notin S
  PROVE  /\ stack' \in Seq(F) /\ Nested(stack', S, R, Z)
         /\ \A X : Has(stack', X) => App \in X \/ Has(rest, X)
<1>1. CASE stack' = rest
  BY <1>1
<1>2. CASE stack' = <<App>> \o rest
  <2>1. App \in S => ~Has(rest, R)
    OBVIOUS
  <2> QED
    BY <1>2, <2>1, NestedPushed
<1> QED
  BY <1>1, <1>2, EmitCases

LEMMA EmitTypes ==
  ASSUME NEW F, App \in F, NEW rest \in Seq(F), Emit(rest)
  PROVE  stack' \in Seq(F)
<1>1. stack' = rest \/ stack' = <<App>> \o rest
  BY EmitCases
<1>2. ASSUME NEW f \in F
      PROVE  <<f>> \o rest \in Seq(F)
  OBVIOUS
<1> QED
  BY <1>1, <1>2

\* The notify of a connection made for a call, under which that call waits.
LEMMA NotifiedNested ==
  ASSUME NEW F, Notify \in F, NEW S, NEW R, NEW Z, NEW rest \in Seq(F),
         stack' = Notified(rest), Nested(rest, S, R, Z), ~Has(rest, Z), Notify \notin S
  PROVE  /\ stack' \in Seq(F) /\ Nested(stack', S, R, Z)
         /\ \A X : Has(stack', X) => Notify \in X \/ Has(rest, X)
<1>1. CASE stack' = rest
  BY <1>1
<1>2. CASE stack' = <<Notify>> \o rest
  <2>1. Notify \in S => ~Has(rest, R)
    OBVIOUS
  <2> QED
    BY <1>2, <2>1, NestedPushed
<1> QED
  BY <1>1, <1>2, NotifiedCases

LEMMA ConnectForTypes ==
  ASSUME NEW Rs, NEW Ms, NEW Ss, NEW ops, NEW Marks, Covers(Rs, Ms, Ss, ops, Marks),
         CoreTypeOK(Rs, Ms, Ss, ops, Marks), NEW rest \in FrameType(ops, Marks),
         NEW owed, NEW below \in Seq(FrameType(ops, Marks)),
         ConnectFor(rest, owed, below), UNCHANGED <<mainq, inLoop>>
  PROVE  CoreTypeOK(Rs, Ms, Ss, ops, Marks)'
<1> DEFINE F == FrameType(ops, Marks)
<1>1. Notify \in F
  BY NotifyTypes DEF Covers
<1>2. stack' = Notified(<<rest>> \o below)
  BY DEF ConnectFor
<1>3. stack' \in Seq(F)
  <2> HIDE DEF F
  <2>1. <<rest>> \o below \in Seq(F)
    BY DEF F
  <2> QED
    BY <1>1, <1>2, <2>1, NotifiedCases
<1>4. toServer' \in Seq(Rs) /\ wire' \in Seq(Ms)
  BY DEF ConnectFor, Connected
<1> QED
  BY <1>3, <1>4 DEF ConnectFor, Connected, CoreTypeOK

LEMMA RoundtripTypes ==
  ASSUME NEW Rs, NEW Ms, NEW Ss, NEW ops, NEW Marks, Covers(Rs, Ms, Ss, ops, Marks),
         "sync" \in ops, CoreTypeOK(Rs, Ms, Ss, ops, Marks), NEW mark \in Marks, NEW owed,
         NEW below \in Seq(FrameType(ops, Marks)), Roundtrip(mark, owed, below),
         UNCHANGED <<mainq, inLoop>>
  PROVE  CoreTypeOK(Rs, Ms, Ss, ops, Marks)'
<1>1. CASE SendSync(TRUE, TRUE, mark, below) /\ UNCHANGED <<connected, connects, link, wire>>
  <2>1. /\ lastReq' \in Nat /\ toServer' \in Seq(Rs)
        /\ stack' \in Seq(FrameType(ops, Marks))
    BY <1>1, SendSyncTypes
  <2> QED
    BY <1>1, <2>1 DEF CoreTypeOK
<1>2. CASE ConnectFor(Frame("sync", 0, TRUE, TRUE, mark), owed, below)
  <2>1. Frame("sync", 0, TRUE, TRUE, mark) \in FrameType(ops, Marks)
    BY DEF Frame, FrameType
  <2> QED
    BY <1>2, <2>1, ConnectForTypes
<1>3. CASE SendFails(below) /\ UNCHANGED <<connected, connects, link, wire>>
  BY <1>3 DEF SendFails, CoreTypeOK
<1> QED
  BY <1>1, <1>2, <1>3 DEF Roundtrip

\* A call that resumes sends its request, or fails.
LEMMA SyncResumeTypes ==
  ASSUME NEW Rs, NEW Ms, NEW Ss, NEW ops, NEW Marks, Covers(Rs, Ms, Ss, ops, Marks),
         CoreTypeOK(Rs, Ms, Ss, ops, Marks), NEW mark \in Marks, SyncResume(mark)
  PROVE  CoreTypeOK(Rs, Ms, Ss, ops, Marks)'
<1> DEFINE F == FrameType(ops, Marks)
<1>1. /\ stack # <<>> /\ Head(stack) \in F /\ Tail(stack) \in Seq(F)
      /\ UNCHANGED <<connected, connects, link, wire, mainq, inLoop>>
  BY TopTypes DEF SyncResume, TopIs
<1>2. CASE SendSync(Head(stack).ctx, Head(stack).timed, mark, Tail(stack))
  <2>1. Head(stack).ctx \in BOOLEAN /\ Head(stack).timed \in BOOLEAN
    BY <1>1 DEF FrameType
  <2>2. PICK ctx \in BOOLEAN, timed \in BOOLEAN, below \in Seq(F) :
          SendSync(ctx, timed, mark, below)
    BY <1>1, <1>2, <2>1
  <2>3. lastReq' \in Nat /\ toServer' \in Seq(Rs) /\ stack' \in Seq(F)
    BY <2>2, SendSyncTypes
  <2> QED
    BY <1>1, <2>3 DEF CoreTypeOK
<1>3. CASE SendFails(Tail(stack))
  BY <1>1, <1>3 DEF SendFails, CoreTypeOK
<1> QED
  BY <1>2, <1>3 DEF SyncResume

LEMMA ServeSyncTypes ==
  ASSUME NEW Rs, NEW Ms, NEW Ss, NEW ops, NEW Marks, Covers(Rs, Ms, Ss, ops, Marks),
         CoreTypeOK(Rs, Ms, Ss, ops, Marks), ServeSync
  PROVE  CoreTypeOK(Rs, Ms, Ss, ops, Marks)'
<1> DEFINE m == [kind |-> "done", n |-> Head(toServer).n]
<1>1. /\ toServer \in Seq(Rs) /\ toServer # <<>> /\ Head(toServer).kind = "sync"
      /\ toServer' = Tail(toServer) /\ wire \in Seq(Ms) /\ wire' = Append(wire, m)
      /\ UNCHANGED <<connected, connects, link, lastReq, mainq, stack, inLoop>>
  BY DEF ServeSync, Serves, CoreTypeOK
<1>2. Head(toServer) \in Rs /\ toServer' \in Seq(Rs)
  BY <1>1
<1>3. m \in Ms
  BY <1>1, <1>2 DEF Covers, CoreMessages
<1> HIDE DEF m
<1>4. wire' \in Seq(Ms)
  BY <1>1, <1>3
<1> QED
  BY <1>1, <1>2, <1>4 DEF CoreTypeOK

LEMMA EnterLoopTypes ==
  ASSUME NEW Rs, NEW Ms, NEW Ss, NEW ops, NEW Marks,
         CoreTypeOK(Rs, Ms, Ss, ops, Marks), EnterLoop
  PROVE  CoreTypeOK(Rs, Ms, Ss, ops, Marks)'
BY DEF CoreTypeOK, EnterLoop

\* A field of the elements of a finite set.
LEMMA FiniteFields ==
  ASSUME NEW A, IsFiniteSet(A), NEW f, DOMAIN f = A, NEW T, T = {f[x] : x \in A}
  PROVE  IsFiniteSet(T)
<1> DEFINE g == [x \in A |-> f[x]]
<1>1. g \in Surjection(A, T)
  BY DEF Surjection
<1> HIDE DEF g
<1> QED
  BY <1>1, FS_Surjection

\* One element of T for each member of a set, in some order.
LEMMA OrderTypes ==
  ASSUME NEW A, IsFiniteSet(A), NEW s \in Orders(A), NEW T, NEW g,
         g = [i \in DOMAIN s |-> g[i]], \A i \in DOMAIN s : s[i] \in A => g[i] \in T
  PROVE  g \in Seq(T)
<1>1. Cardinality(A) \in Nat
  BY FS_CardinalityType
<1>2. DOMAIN s = 1..Cardinality(A) /\ \A i \in DOMAIN s : s[i] \in A
  BY DEF Orders
<1> QED
  BY <1>1, <1>2

-----------------------------------------------------------------------------
(* Core itself.                                                            *)

LEMMA CoreCovers == Covers(CoreRequests, CoreMessages, CoreSources, CoreFrames, {NoMark})
BY DEF Covers, CoreRequests, CoreMessages, CoreSources, CoreFrames

LEMMA InitTypes == Init => TypeOK
<1> DEFINE F == FrameType(CoreFrames, {NoMark})
<1> SUFFICES ASSUME Init
             PROVE  TypeOK
  OBVIOUS
<1>1. /\ toServer \in Seq(CoreRequests) /\ wire \in Seq(CoreMessages)
      /\ mainq \in Seq(CoreSources) /\ stack \in Seq(F)
  <2> HIDE DEF F
  <2> QED
    BY DEF Init
<1>2. connected \in BOOLEAN /\ connects \in Nat /\ link \in BOOLEAN
      /\ lastReq \in Nat /\ inLoop \in BOOLEAN
  BY DEF Init
<1> QED
  BY <1>1, <1>2 DEF TypeOK, CoreTypeOK

LEMMA InitTokens == Init => TokenInv
BY DEF Init, TokenInv, Socket, CallFrames, Numbered, Answered, Tokens

\* The frames of a typed stack of Core.
LEMMA CoreTop ==
  ASSUME TypeOK
  PROVE  /\ stack \in Seq(FrameType(CoreFrames, {NoMark}))
         /\ App \in FrameType(CoreFrames, {NoMark})
         /\ Notify \in FrameType(CoreFrames, {NoMark})
         /\ \A ctx, timed \in BOOLEAN :
              Suspension("sync", ctx, timed) \in FrameType(CoreFrames, {NoMark})
<1>1. stack \in Seq(FrameType(CoreFrames, {NoMark}))
  BY DEF TypeOK, CoreTypeOK
<1>2. App \in FrameType(CoreFrames, {NoMark}) /\ Notify \in FrameType(CoreFrames, {NoMark})
  BY AppTypes, NotifyTypes DEF CoreFrames
<1>3. \A ctx, timed \in BOOLEAN : Suspension("sync", ctx, timed) \in FrameType(CoreFrames, {NoMark})
  BY SuspensionTypes DEF CoreFrames
<1> QED
  BY <1>1, <1>2, <1>3

\* A call that resumes on a connection that is still there.
LEMMA Resumed ==
  ASSUME TypeOK, TokenInv, TopIs("sync")
  PROVE  /\ stack # <<>> /\ CallFrames(Tail(stack))
         /\ Tail(stack) \in Seq(FrameType(CoreFrames, {NoMark}))
         /\ Head(stack).ctx \in BOOLEAN /\ Head(stack).timed \in BOOLEAN
<1>1. stack # <<>> /\ Head(stack).op = "sync"
  BY DEF TopIs
<1>2. /\ Tail(stack) \in Seq(FrameType(CoreFrames, {NoMark}))
      /\ stack \in Seq(FrameType(CoreFrames, {NoMark}))
      /\ Head(stack) \in FrameType(CoreFrames, {NoMark})
  BY <1>1, TopTypes DEF TypeOK
<1>3. Head(stack).ctx \in BOOLEAN /\ Head(stack).timed \in BOOLEAN
  BY <1>2 DEF FrameType
<1>4. ~Due(Head(stack))
  BY <1>1, <1>2, QuietTop DEF TokenInv
<1>5. CallFrames(Tail(stack))
  BY <1>1, <1>2, <1>4, PopFrames DEF TokenInv
<1> QED
  BY <1>1, <1>2, <1>3, <1>5

\* Every step keeps the types.
LEMMA NextTypes == TypeOK /\ [Next]_coreVars => TypeOK'
<1> SUFFICES ASSUME TypeOK, [Next]_coreVars
             PROVE  TypeOK'
  OBVIOUS
<1> DEFINE F == FrameType(CoreFrames, {NoMark})
<1> USE CoreCovers
<1>1. /\ stack \in Seq(F) /\ App \in F /\ Notify \in F
      /\ \A ctx, timed \in BOOLEAN : Suspension("sync", ctx, timed) \in F
  BY CoreTop
<1>2. <<App>> \o stack \in Seq(F)
  <2> HIDE DEF F
  <2> QED
    BY <1>1
<1>3. CASE Connect
  <2>1. /\ connected' = TRUE /\ connects' = connects + 1 /\ link' = TRUE
        /\ toServer' = <<>> /\ wire' = <<>> /\ UNCHANGED <<lastReq, mainq, inLoop>>
        /\ stack' = Notified(stack)
    BY <1>3 DEF Connect, Connected
  <2>2. /\ toServer' \in Seq(CoreRequests) /\ wire' \in Seq(CoreMessages)
        /\ mainq' \in Seq(CoreSources) /\ stack' \in Seq(F)
    BY <1>1, <2>1, NotifiedCases DEF TypeOK, CoreTypeOK
  <2>3. /\ connected' \in BOOLEAN /\ connects' \in Nat /\ link' \in BOOLEAN
        /\ lastReq' \in Nat /\ inLoop' \in BOOLEAN
    BY <2>1 DEF TypeOK, CoreTypeOK
  <2> QED
    BY <2>2, <2>3 DEF TypeOK, CoreTypeOK
<1>4. CASE Disconnect
  <2>1. /\ connected' = FALSE /\ link' = FALSE /\ toServer' = <<>> /\ wire' = <<>>
        /\ UNCHANGED <<connects, lastReq, mainq, inLoop>> /\ stack' = Notified(stack)
    BY <1>4 DEF Disconnect, Disconnected
  <2>2. /\ toServer' \in Seq(CoreRequests) /\ wire' \in Seq(CoreMessages)
        /\ mainq' \in Seq(CoreSources) /\ stack' \in Seq(F)
    BY <1>1, <2>1, NotifiedCases DEF TypeOK, CoreTypeOK
  <2> QED
    BY <2>1, <2>2 DEF TypeOK, CoreTypeOK
<1>5. ASSUME NEW ctx \in BOOLEAN, NEW timed \in BOOLEAN, SyncCall(ctx, timed)
      PROVE  TypeOK'
  <2>1. CASE connected /\ SendSync(ctx, timed, NoMark, stack)
    <3>1. /\ SendSync(ctx, timed, NoMark, stack) /\ stack \in Seq(F) /\ NoMark \in {NoMark}
          /\ CoreTypeOK(CoreRequests, CoreMessages, CoreSources, CoreFrames, {NoMark})
      BY <1>1, <2>1 DEF TypeOK
    <3>2. lastReq' \in Nat /\ toServer' \in Seq(CoreRequests) /\ stack' \in Seq(F)
      BY <3>1, SendSyncTypes
    <3>3. UNCHANGED <<connected, connects, link, wire, mainq, inLoop>>
      BY <1>5, <2>1 DEF SyncCall, Connected
    <3> QED
      BY <3>2, <3>3 DEF TypeOK, CoreTypeOK
  <2>2. CASE /\ Connected /\ UNCHANGED lastReq
            /\ stack' = Notified(<<Suspension("sync", ctx, timed)>> \o stack)
    <3>1. stack' \in Seq(F)
      <4> HIDE DEF F
      <4>1. <<Suspension("sync", ctx, timed)>> \o stack \in Seq(F)
        BY <1>1
      <4> QED
        BY <1>1, <2>2, <4>1, NotifiedCases
    <3> QED
      BY <1>5, <2>2, <3>1 DEF SyncCall, Connected, TypeOK, CoreTypeOK
  <2> QED
    BY <1>5, <2>1, <2>2 DEF SyncCall
<1>6. CASE SendOther
  <2>1. [kind |-> "other", n |-> lastReq + 1] \in CoreRequests
    BY DEF TypeOK, CoreTypeOK, CoreRequests
  <2> QED
    BY <1>6, <2>1 DEF SendOther, TypeOK, CoreTypeOK
<1>7. CASE SyncResume(NoMark)
  BY <1>7, SyncResumeTypes DEF TypeOK
<1>8. CASE SyncWake
  BY <1>8, SyncWakeTypes DEF TypeOK
<1>9. CASE SyncTimeout \/ DrainEnd \/ HandlerReturn \/ NotifyReturn
  BY <1>9, ReturnTypes DEF TypeOK
<1>10. CASE DispatchToken
  BY <1>10, DispatchTokenTypes DEF TypeOK
<1>11. CASE ServerStep
  <2>1. toServer \in Seq(CoreRequests) /\ toServer # <<>> /\ wire \in Seq(CoreMessages)
    BY <1>11 DEF ServerStep, TypeOK, CoreTypeOK
  <2>2. Tail(toServer) \in Seq(CoreRequests) /\ Head(toServer) \in CoreRequests
    BY <2>1
  <2>3. \A kind \in {"done", "error"} : [kind |-> kind, n |-> Head(toServer).n] \in CoreMessages
    BY <2>2 DEF CoreRequests, CoreMessages
  <2>4. \/ wire' = wire
        \/ \E kind \in {"done", "error"} :
             wire' = Append(wire, [kind |-> kind, n |-> Head(toServer).n])
    BY <1>11 DEF ServerStep
  <2>5. wire' \in Seq(CoreMessages)
    BY <2>1, <2>3, <2>4
  <2>6. toServer' \in Seq(CoreRequests)
    BY <1>11, <2>2 DEF ServerStep
  <2> QED
    BY <1>11, <2>5, <2>6 DEF ServerStep, TypeOK, CoreTypeOK
<1>12. CASE LinkBreaks
  <2> DEFINE m == [kind |-> "error", n |-> 0]
  <2>1. m \in CoreMessages
    BY DEF CoreMessages
  <2>2. /\ link' = FALSE /\ toServer' = <<>> /\ wire' = Append(wire, m)
        /\ UNCHANGED <<connected, connects, lastReq, mainq, stack, inLoop>>
    BY <1>12 DEF LinkBreaks
  <2> HIDE DEF m
  <2>3. wire' \in Seq(CoreMessages) /\ toServer' \in Seq(CoreRequests)
    BY <2>1, <2>2 DEF TypeOK, CoreTypeOK
  <2> QED
    BY <2>2, <2>3 DEF TypeOK, CoreTypeOK
<1>13. CASE LoopStep
  BY <1>13, LoopStepTypes DEF TypeOK
<1>14. CASE AppSource
  BY <1>2, <1>14, StackTypes DEF AppSource, Push, TypeOK
<1>15. CASE ToggleLoop
  BY <1>15, ToggleLoopTypes DEF TypeOK
<1>16. CASE UNCHANGED coreVars
  BY <1>16 DEF coreVars, TypeOK, CoreTypeOK
<1> QED
  BY <1>3, <1>4, <1>5, <1>6, <1>7, <1>8, <1>9, <1>10, <1>11, <1>12, <1>13, <1>14,
     <1>15, <1>16 DEF Next, MainStep

\* Every step keeps the tokens in order.
LEMMA NextTokens == TypeOK /\ TokenInv /\ [Next]_coreVars => TokenInv'
<1> SUFFICES ASSUME TypeOK, TokenInv, [Next]_coreVars
             PROVE  TokenInv'
  OBVIOUS
<1> DEFINE F == FrameType(CoreFrames, {NoMark})
<1> USE CoreCovers
<1>1. /\ stack \in Seq(F) /\ App \in F /\ Notify \in F
      /\ \A ctx, timed \in BOOLEAN : Suspension("sync", ctx, timed) \in F
  BY CoreTop
<1>2. lastReq \in Nat /\ toServer \in Seq(CoreRequests) /\ wire \in Seq(CoreMessages)
  BY DEF TypeOK, CoreTypeOK
<1>3. CASE Connect
  BY <1>1, <1>2, <1>3, NotifiedTokens DEF Connect, Connected, TokenInv
<1>4. CASE Disconnect
  BY <1>1, <1>2, <1>4, NotifiedTokens DEF Disconnect, Disconnected, TokenInv
<1>5. ASSUME NEW ctx \in BOOLEAN, NEW timed \in BOOLEAN, SyncCall(ctx, timed)
      PROVE  TokenInv'
  <2>1. CASE connected /\ SendSync(ctx, timed, NoMark, stack)
    <3>1. UNCHANGED <<wire, mainq>> /\ CallFrames(stack)
      BY <1>5, <2>1 DEF SyncCall, Connected, TokenInv
    <3> QED
      BY <1>1, <2>1, <3>1, SendSyncTokens DEF TypeOK
  <2>2. CASE /\ Connected /\ UNCHANGED lastReq
            /\ stack' = Notified(<<Suspension("sync", ctx, timed)>> \o stack)
    <3> DEFINE rest == <<Suspension("sync", ctx, timed)>> \o stack
    <3>1. IsQuiet(Suspension("sync", ctx, timed))
      BY SuspensionQuiet
    <3>2. CallFrames(rest)
      BY <1>1, <1>2, <3>1, PushQuiet DEF TokenInv
    <3>3. rest \in Seq(F)
      <4> HIDE DEF F
      <4> QED
        BY <1>1
    <3>4. /\ stack' = Notified(rest) /\ UNCHANGED <<lastReq, mainq>>
          /\ toServer' = <<>> /\ wire' = <<>>
      BY <1>5, <2>2 DEF SyncCall, Connected
    <3> HIDE DEF F, rest
    <3> QED
      BY <1>1, <1>2, <3>2, <3>3, <3>4, NotifiedTokens
  <2> QED
    BY <1>5, <2>1, <2>2 DEF SyncCall
<1>6. CASE SendOther
  BY <1>2, <1>6, SendOtherTokens
<1>7. CASE SyncResume(NoMark)
  <2>1. UNCHANGED <<wire, mainq>> /\ TopIs("sync")
    BY <1>7 DEF SyncResume
  <2>2. CASE SendSync(Head(stack).ctx, Head(stack).timed, NoMark, Tail(stack))
    <3>1. PICK ctx \in BOOLEAN, timed \in BOOLEAN, below \in Seq(F) :
            SendSync(ctx, timed, NoMark, below) /\ CallFrames(below)
      BY <2>1, <2>2, Resumed
    <3> QED
      BY <2>1, <3>1, SendSyncTokens DEF TypeOK
  <2>3. CASE SendFails(Tail(stack))
    BY <2>1, <2>3, Resumed DEF SendFails, TokenInv, CallFrames
  <2> QED
    BY <1>7, <2>2, <2>3 DEF SyncResume
<1>8. CASE SyncWake
  BY <1>8, SyncWakeTokens DEF TypeOK
<1>9. CASE SyncTimeout \/ DrainEnd \/ HandlerReturn \/ NotifyReturn
  BY <1>9, ReturnTokens DEF TypeOK
<1>10. CASE DispatchToken
  BY <1>10, DispatchTokenTokens DEF TypeOK
<1>11. CASE ServerStep
  BY <1>2, <1>11, ServerStepTokens
<1>12. CASE LinkBreaks
  BY <1>2, <1>12, LinkBreaksTokens
<1>13. CASE LoopStep
  BY <1>13, LoopStepTokens DEF TypeOK
<1>14. CASE AppSource
  BY <1>1, <1>2, <1>14, PushedQuiet, AppQuiet DEF AppSource, Push
<1>15. CASE ToggleLoop
  BY <1>15 DEF ToggleLoop, TokenInv, CallFrames
<1>16. CASE UNCHANGED coreVars
  BY <1>16 DEF coreVars, TokenInv, CallFrames
<1> QED
  BY <1>3, <1>4, <1>5, <1>6, <1>7, <1>8, <1>9, <1>10, <1>11, <1>12, <1>13, <1>14,
     <1>15, <1>16 DEF Next, MainStep

-----------------------------------------------------------------------------
(* The order on the socket.                                                *)

\* Requests wait in the order of their numbers, behind every answer that is
\* already on its way and every answer that a call has seen.
BarrierInv ==
  /\ \A i, j \in DOMAIN toServer : i < j => toServer[i].n < toServer[j].n
  /\ \A i \in DOMAIN toServer : toServer[i].n \in 1..lastReq
  /\ \A i \in DOMAIN wire, j \in DOMAIN toServer : wire[i].n < toServer[j].n
  /\ \A i \in DOMAIN wire : wire[i].n <= lastReq
  /\ \A i \in DOMAIN stack : stack[i].n <= lastReq
  /\ SyncIsBarrier

LEMMA InitBarrier == Init => BarrierInv
BY DEF Init, BarrierInv, SyncIsBarrier

\* A step that sends nothing and keeps the frames, but for some that are
\* new and have no answer, or gone.
LEMMA SameSocketBarrier ==
  ASSUME BarrierInv, lastReq \in Nat,
         toServer' = toServer \/ toServer' = <<>>,
         wire' = wire \/ wire' = <<>>,
         lastReq' = lastReq,
         \A i \in DOMAIN stack' :
           \/ stack'[i].n = 0 /\ ~stack'[i].done
           \/ \E j \in DOMAIN stack : stack'[i].n = stack[j].n /\ stack'[i].done = stack[j].done
  PROVE  BarrierInv'
<1>1. SyncIsBarrier'
  <2> SUFFICES ASSUME NEW i \in DOMAIN stack', stack'[i].done, NEW j \in DOMAIN toServer'
               PROVE  toServer'[j].n > stack'[i].n
    BY DEF SyncIsBarrier
  <2> QED
    BY DEF BarrierInv, SyncIsBarrier
<1>2. \A i \in DOMAIN stack' : stack'[i].n <= lastReq'
  BY DEF BarrierInv
<1> QED
  BY <1>1, <1>2 DEF BarrierInv

\* A request with the next number goes behind everything.
LEMMA AppendBarrier ==
  ASSUME BarrierInv, TypeOK, NEW r \in CoreRequests, r.n = lastReq + 1,
         toServer' = Append(toServer, r), lastReq' = lastReq + 1, wire' = wire,
         \A i \in DOMAIN stack' :
           \/ stack'[i].n = lastReq + 1 /\ ~stack'[i].done
           \/ \E j \in DOMAIN stack : stack'[i].n = stack[j].n /\ stack'[i].done = stack[j].done
  PROVE  BarrierInv'
<1>1. lastReq \in Nat /\ toServer \in Seq(CoreRequests) /\ Len(toServer) \in Nat
  BY DEF TypeOK, CoreTypeOK
<1>2. /\ \A i \in DOMAIN toServer : i \in Int /\ i < Len(toServer) + 1
      /\ \A i \in DOMAIN toServer' :
           \/ i = Len(toServer) + 1 /\ toServer'[i] = r
           \/ i \in DOMAIN toServer /\ toServer'[i] = toServer[i]
  BY <1>1, Appended
<1>3. \A i, j \in DOMAIN toServer' : i < j => toServer'[i].n < toServer'[j].n
  BY <1>1, <1>2 DEF BarrierInv
<1>4. \A i \in DOMAIN toServer' : toServer'[i].n \in 1..lastReq'
  BY <1>1, <1>2 DEF BarrierInv
<1>5. \A i \in DOMAIN wire : wire[i].n \in Nat
  <2>1. \A i \in DOMAIN wire : wire[i] \in CoreMessages
    BY DEF TypeOK, CoreTypeOK
  <2> QED
    BY <2>1 DEF CoreMessages
<1>6. /\ \A i \in DOMAIN wire', j \in DOMAIN toServer' : wire'[i].n < toServer'[j].n
      /\ \A i \in DOMAIN wire' : wire'[i].n <= lastReq'
  BY <1>1, <1>2, <1>5 DEF BarrierInv
<1>7. \A i \in DOMAIN stack : stack[i].n \in Nat
  <2>1. \A i \in DOMAIN stack : stack[i] \in FrameType(CoreFrames, {NoMark})
    BY DEF TypeOK, CoreTypeOK
  <2> QED
    BY <2>1 DEF FrameType
<1>8. \A i \in DOMAIN stack' : stack'[i].n <= lastReq'
  BY <1>1, <1>7 DEF BarrierInv
<1>9. SyncIsBarrier'
  <2> SUFFICES ASSUME NEW i \in DOMAIN stack', stack'[i].done, NEW j \in DOMAIN toServer'
               PROVE  toServer'[j].n > stack'[i].n
    BY DEF SyncIsBarrier
  <2>1. PICK k \in DOMAIN stack : stack'[i].n = stack[k].n /\ stack[k].done
    OBVIOUS
  <2> QED
    BY <1>1, <1>2, <1>7, <2>1 DEF BarrierInv, SyncIsBarrier
<1> QED
  BY <1>3, <1>4, <1>6, <1>8, <1>9 DEF BarrierInv

\* What the frames of a step have to do with those before it.
LEMMA PushedFrames ==
  ASSUME NEW F, stack \in Seq(F), NEW f \in F, stack' = <<f>> \o stack
  PROVE  \A i \in DOMAIN stack' :
           stack'[i] = f \/ \E j \in DOMAIN stack : stack'[i] = stack[j]
<1>1. /\ stack'[1] = f
      /\ \A i \in DOMAIN stack' : i = 1 \/ (i - 1 \in DOMAIN stack /\ stack'[i] = stack[i - 1])
  BY Pushed
<1> QED
  BY <1>1

LEMMA NotifiedFrames ==
  ASSUME NEW F, Notify \in F, NEW rest \in Seq(F), stack' = Notified(rest)
  PROVE  \A i \in DOMAIN stack' :
           stack'[i] = Notify \/ \E j \in DOMAIN rest : stack'[i] = rest[j]
<1>1. CASE stack' = rest
  BY <1>1
<1>2. CASE stack' = <<Notify>> \o rest
  <2>1. /\ stack'[1] = Notify
        /\ \A i \in DOMAIN stack' : i = 1 \/ (i - 1 \in DOMAIN rest /\ stack'[i] = rest[i - 1])
    BY <1>2, Pushed
  <2> QED
    BY <2>1
<1> QED
  BY <1>1, <1>2, NotifiedCases

LEMMA PoppedFrames ==
  ASSUME NEW F, stack \in Seq(F), stack # <<>>, Pop
  PROVE  \A i \in DOMAIN stack' : \E j \in DOMAIN stack : stack'[i] = stack[j]
<1>1. \A i \in DOMAIN stack' : i + 1 \in DOMAIN stack /\ stack'[i] = stack[i + 1]
  BY Popped DEF Pop
<1> QED
  BY <1>1

LEMMA SetTopFrames ==
  ASSUME NEW F, stack \in Seq(F), stack # <<>>, NEW g \in F, SetTop(g)
  PROVE  /\ 1 \in DOMAIN stack /\ stack[1] = Head(stack)
         /\ \A i \in DOMAIN stack' :
              i \in DOMAIN stack /\ stack'[i] = IF i = 1 THEN g ELSE stack[i]
BY TopReplaced, Replaced DEF SetTop

\* A roundtrip starts.
LEMMA SendSyncBarrier ==
  ASSUME TypeOK, BarrierInv, NEW ctx \in BOOLEAN, NEW timed \in BOOLEAN,
         NEW below \in Seq(FrameType(CoreFrames, {NoMark})),
         SendSync(ctx, timed, NoMark, below), wire' = wire,
         \A i \in DOMAIN below : \E j \in DOMAIN stack : below[i] = stack[j]
  PROVE  BarrierInv'
<1> DEFINE F == FrameType(CoreFrames, {NoMark})
           f == Frame("wait", lastReq + 1, ctx, timed, NoMark)
<1>1. /\ lastReq \in Nat /\ lastReq' = lastReq + 1
      /\ toServer' = Append(toServer, SyncRequest) /\ stack' = <<f>> \o below
  BY DEF SendSync, TypeOK, CoreTypeOK
<1>2. SyncRequest \in CoreRequests /\ SyncRequest.n = lastReq + 1
  BY <1>1 DEF SyncRequest, CoreRequests
<1>3. f \in F /\ f.n = lastReq + 1 /\ ~f.done
  BY <1>1 DEF Frame, FrameType, CoreFrames
<1> HIDE DEF F, f
<1>4. below \in Seq(F)
  BY DEF F
<1>5. \A i \in DOMAIN stack' : stack'[i] = f \/ \E j \in DOMAIN stack : stack'[i] = stack[j]
  <2>1. /\ stack'[1] = f
        /\ \A i \in DOMAIN stack' : i = 1 \/ (i - 1 \in DOMAIN below /\ stack'[i] = below[i - 1])
    BY <1>1, <1>3, <1>4, Pushed
  <2> QED
    BY <2>1
<1>6. \A i \in DOMAIN stack' :
        \/ stack'[i].n = lastReq + 1 /\ ~stack'[i].done
        \/ \E j \in DOMAIN stack : stack'[i].n = stack[j].n /\ stack'[i].done = stack[j].done
  BY <1>3, <1>5
<1> QED
  BY <1>1, <1>2, <1>6, AppendBarrier

\* Only the call that waits for an answer takes it for its own.
LEMMA LoopStepBarrier ==
  ASSUME TypeOK, BarrierInv, LoopStep
  PROVE  BarrierInv'
<1> DEFINE F == FrameType(CoreFrames, {NoMark})
           n == Head(wire).n
<1>1. /\ wire \in Seq(CoreMessages) /\ wire # <<>> /\ wire' = Tail(wire) /\ stack \in Seq(F)
      /\ UNCHANGED <<lastReq, toServer>> /\ (OnDone(n) \/ OnError(n))
  BY DEF LoopStep, TypeOK, CoreTypeOK
<1>2. /\ 1 \in DOMAIN wire /\ wire[1] = Head(wire)
      /\ \A i \in DOMAIN wire' : i + 1 \in DOMAIN wire /\ wire'[i] = wire[i + 1]
  BY <1>1, Popped
<1>3. \A j \in DOMAIN toServer : n < toServer[j].n
  BY <1>2 DEF BarrierInv
<1>4. \A i \in DOMAIN stack' :
        \/ \E j \in DOMAIN stack : stack'[i].n = stack[j].n /\ stack'[i].done = stack[j].done
        \/ i \in DOMAIN stack /\ stack'[i].n = stack[i].n /\ stack'[i].n = n
  <2>1. CASE ~Waiting(n)
    BY <1>1, <2>1 DEF OnDone, OnError
  <2>2. CASE Waiting(n)
    <3>1. stack # <<>> /\ Head(stack).n = n /\ Head(stack) \in F
      BY <2>2, TopTypes DEF Waiting, TopIs, TypeOK
    <3>2. PICK g \in F : SetTop(g) /\ g.n = n
      <4>1. /\ [Head(stack) EXCEPT !.done = TRUE] \in F
            /\ [Head(stack) EXCEPT !.done = TRUE].n = n
            /\ [Head(stack) EXCEPT !.err = TRUE] \in F
            /\ [Head(stack) EXCEPT !.err = TRUE].n = n
        BY <3>1 DEF FrameType
      <4> QED
        BY <1>1, <2>2, <4>1 DEF OnDone, OnError
    <3> HIDE DEF F, n
    <3>3. /\ 1 \in DOMAIN stack /\ stack[1] = Head(stack)
          /\ \A i \in DOMAIN stack' :
               i \in DOMAIN stack /\ stack'[i] = IF i = 1 THEN g ELSE stack[i]
      BY <1>1, <3>1, <3>2, SetTopFrames
    <3> QED
      BY <3>1, <3>2, <3>3
  <2> QED
    BY <2>1, <2>2
<1>5. SyncIsBarrier'
  <2> SUFFICES ASSUME NEW i \in DOMAIN stack', stack'[i].done, NEW j \in DOMAIN toServer'
               PROVE  toServer'[j].n > stack'[i].n
    BY DEF SyncIsBarrier
  <2>1. toServer' = toServer
    BY <1>1
  <2>2. CASE stack'[i].n = n
    <3>1. n \in Nat
      <4>1. Head(wire) \in CoreMessages
        BY <1>1
      <4> QED
        BY <4>1 DEF CoreMessages
    <3>2. toServer[j].n \in Nat
      <4>1. toServer[j] \in CoreRequests
        BY <2>1 DEF TypeOK, CoreTypeOK
      <4> QED
        BY <4>1 DEF CoreRequests
    <3> HIDE DEF n
    <3> QED
      BY <1>3, <2>1, <2>2, <3>1, <3>2
  <2>3. CASE \E k \in DOMAIN stack : stack'[i].n = stack[k].n /\ stack'[i].done = stack[k].done
    BY <2>1, <2>3 DEF BarrierInv, SyncIsBarrier
  <2> QED
    BY <1>4, <2>2, <2>3
<1>6. \A i \in DOMAIN stack' : stack'[i].n <= lastReq'
  BY <1>1, <1>4 DEF BarrierInv
<1> QED
  BY <1>1, <1>2, <1>5, <1>6 DEF BarrierInv

\* The answer to the oldest request is ahead of the requests after it.
LEMMA ServerStepBarrier ==
  ASSUME TypeOK, BarrierInv, ServerStep
  PROVE  BarrierInv'
<1> DEFINE r == Head(toServer)
<1>1. /\ toServer \in Seq(CoreRequests) /\ toServer # <<>> /\ toServer' = Tail(toServer)
      /\ wire \in Seq(CoreMessages) /\ lastReq \in Nat /\ UNCHANGED <<lastReq, stack>>
  BY DEF ServerStep, TypeOK, CoreTypeOK
<1>2. /\ 1 \in DOMAIN toServer /\ toServer[1] = r /\ r \in CoreRequests
      /\ \A i \in DOMAIN toServer' : /\ i \in Int /\ i + 1 \in DOMAIN toServer /\ i + 1 > 1
                                     /\ toServer'[i] = toServer[i + 1]
  <2>1. \A i \in DOMAIN toServer' : i \in Int /\ i >= 1
    BY <1>1
  <2> QED
    BY <1>1, <2>1, Popped
<1>3. r.n \in 1..lastReq /\ \A j \in DOMAIN toServer' : r.n < toServer'[j].n
  BY <1>2 DEF BarrierInv
<1>4. \A i \in DOMAIN wire' :
        \/ i \in DOMAIN wire /\ wire'[i] = wire[i]
        \/ wire'[i].n = r.n
  <2>1. \A kind \in {"done", "error"} : [kind |-> kind, n |-> r.n] \in CoreMessages
    BY <1>2 DEF CoreRequests, CoreMessages
  <2>2. CASE wire' = wire
    BY <2>2
  <2>3. ASSUME NEW kind \in {"done", "error"}, wire' = Append(wire, [kind |-> kind, n |-> r.n])
        PROVE  \A i \in DOMAIN wire' :
                 (i \in DOMAIN wire /\ wire'[i] = wire[i]) \/ wire'[i].n = r.n
    <3> DEFINE m == [kind |-> kind, n |-> r.n]
    <3>1. m \in CoreMessages /\ m.n = r.n
      BY <2>1
    <3>2. wire' = Append(wire, m)
      BY <2>3
    <3> HIDE DEF m, r
    <3>3. \A i \in DOMAIN wire' :
            (i = Len(wire) + 1 /\ wire'[i] = m) \/ (i \in DOMAIN wire /\ wire'[i] = wire[i])
      BY <1>1, <3>1, <3>2, Appended
    <3> QED
      BY <3>1, <3>3
  <2> QED
    BY <2>2, <2>3 DEF ServerStep
<1> HIDE DEF r
<1>5. \A i, j \in DOMAIN toServer' : i < j => toServer'[i].n < toServer'[j].n
  BY <1>2 DEF BarrierInv
<1>6. \A i \in DOMAIN toServer' : toServer'[i].n \in 1..lastReq
  BY <1>2 DEF BarrierInv
<1>7. \A i \in DOMAIN wire', j \in DOMAIN toServer' : wire'[i].n < toServer'[j].n
  BY <1>2, <1>3, <1>4 DEF BarrierInv
<1>8. \A i \in DOMAIN wire' : wire'[i].n <= lastReq
  BY <1>3, <1>4 DEF BarrierInv
<1>9. SyncIsBarrier'
  BY <1>1, <1>2 DEF BarrierInv, SyncIsBarrier
<1> QED
  BY <1>1, <1>5, <1>6, <1>7, <1>8, <1>9 DEF BarrierInv

\* Every step keeps the order.
LEMMA NextBarrier == TypeOK /\ BarrierInv /\ [Next]_coreVars => BarrierInv'
<1> SUFFICES ASSUME TypeOK, BarrierInv, [Next]_coreVars
             PROVE  BarrierInv'
  OBVIOUS
<1> DEFINE F == FrameType(CoreFrames, {NoMark})
           Kept == \A i \in DOMAIN stack' :
                     \/ stack'[i].n = 0 /\ ~stack'[i].done
                     \/ \E j \in DOMAIN stack :
                          stack'[i].n = stack[j].n /\ stack'[i].done = stack[j].done
<1>1. /\ stack \in Seq(F) /\ App \in F /\ Notify \in F
      /\ \A ctx, timed \in BOOLEAN : Suspension("sync", ctx, timed) \in F
  BY CoreTop
<1>2. lastReq \in Nat /\ toServer \in Seq(CoreRequests) /\ wire \in Seq(CoreMessages)
  BY DEF TypeOK, CoreTypeOK
<1>3. \A op, ctx, timed : Suspension(op, ctx, timed).n = 0 /\ ~Suspension(op, ctx, timed).done
  BY DEF Suspension, Frame
<1>4. ASSUME stack' = <<App>> \o stack \/ stack' = Notified(stack)
      PROVE  Kept
  <2>1. App.n = 0 /\ ~App.done /\ Notify.n = 0 /\ ~Notify.done
    BY <1>3 DEF App, Notify
  <2> HIDE DEF F
  <2>2. CASE stack' = <<App>> \o stack
    BY <1>1, <2>1, <2>2, PushedFrames
  <2>3. CASE stack' = Notified(stack)
    BY <1>1, <2>1, <2>3, NotifiedFrames
  <2> QED
    BY <1>4, <2>2, <2>3
<1>5. ASSUME Pop, stack # <<>>
      PROVE  Kept
  <2> HIDE DEF F
  <2> QED
    BY <1>1, <1>5, PoppedFrames
<1>6. ASSUME Kept, lastReq' = lastReq, toServer' = toServer \/ toServer' = <<>>,
             wire' = wire \/ wire' = <<>>
      PROVE  BarrierInv'
  BY <1>2, <1>6, SameSocketBarrier
<1>7. ASSUME stack' = stack
      PROVE  Kept
  BY <1>7
<1>8. CASE Connect
  <2>1. Kept
    BY <1>8, <1>4 DEF Connect
  <2> QED
    BY <1>6, <1>8, <2>1 DEF Connect, Connected
<1>9. CASE Disconnect
  <2>1. Kept
    BY <1>9, <1>4 DEF Disconnect
  <2> QED
    BY <1>6, <1>9, <2>1 DEF Disconnect, Disconnected
<1>10. ASSUME NEW ctx \in BOOLEAN, NEW timed \in BOOLEAN, SyncCall(ctx, timed)
       PROVE  BarrierInv'
  <2>1. CASE connected /\ SendSync(ctx, timed, NoMark, stack)
    <3>1. wire' = wire
      BY <1>10, <2>1 DEF SyncCall, Connected
    <3> QED
      BY <1>1, <2>1, <3>1, SendSyncBarrier
  <2>2. CASE /\ Connected /\ UNCHANGED lastReq
            /\ stack' = Notified(<<Suspension("sync", ctx, timed)>> \o stack)
    <3> DEFINE g == Suspension("sync", ctx, timed)
    <3>1. /\ stack' = Notified(<<g>> \o stack) /\ g \in F /\ g.n = 0 /\ ~g.done
          /\ Notify.n = 0 /\ ~Notify.done
      BY <1>1, <1>3, <2>2 DEF Notify
    <3> HIDE DEF F, g
    <3>2. <<g>> \o stack \in Seq(F)
      BY <1>1, <3>1
    <3>3. \A i \in DOMAIN stack' :
            stack'[i] = Notify \/ stack'[i] = g \/ \E j \in DOMAIN stack : stack'[i] = stack[j]
      <4>1. \A i \in DOMAIN stack' :
              stack'[i] = Notify \/ \E j \in DOMAIN (<<g>> \o stack) : stack'[i] = (<<g>> \o stack)[j]
        BY <1>1, <3>1, <3>2, NotifiedFrames
      <4>2. /\ (<<g>> \o stack)[1] = g
            /\ \A i \in DOMAIN (<<g>> \o stack) :
                 i = 1 \/ (i - 1 \in DOMAIN stack /\ (<<g>> \o stack)[i] = stack[i - 1])
        BY <1>1, <3>1, Pushed
      <4> QED
        BY <4>1, <4>2
    <3> QED
      BY <1>6, <2>2, <3>1, <3>3 DEF Connected
  <2> QED
    BY <1>10, <2>1, <2>2 DEF SyncCall
<1>11. CASE SendOther
  <2> DEFINE r == [kind |-> "other", n |-> lastReq + 1]
  <2>1. r \in CoreRequests /\ r.n = lastReq + 1
    BY <1>2 DEF CoreRequests
  <2>2. /\ toServer' = Append(toServer, r) /\ lastReq' = lastReq + 1 /\ wire' = wire
        /\ stack' = stack
    BY <1>11 DEF SendOther
  <2> HIDE DEF r
  <2> QED
    BY <2>1, <2>2, AppendBarrier
<1>12. CASE SyncResume(NoMark)
  <2>1. /\ stack # <<>> /\ UNCHANGED wire
        /\ Head(stack) \in F /\ Tail(stack) \in Seq(F)
    BY <1>12, TopTypes DEF SyncResume, TopIs, TypeOK
  <2>2. CASE SendSync(Head(stack).ctx, Head(stack).timed, NoMark, Tail(stack))
    <3>1. Head(stack).ctx \in BOOLEAN /\ Head(stack).timed \in BOOLEAN
      BY <2>1 DEF FrameType
    <3>2. \A i \in DOMAIN Tail(stack) : \E j \in DOMAIN stack : Tail(stack)[i] = stack[j]
      <4> HIDE DEF F
      <4>1. \A i \in DOMAIN Tail(stack) : i + 1 \in DOMAIN stack /\ Tail(stack)[i] = stack[i + 1]
        BY <1>1, <2>1, Popped
      <4> QED
        BY <4>1
    <3>3. PICK ctx \in BOOLEAN, timed \in BOOLEAN, below \in Seq(F) :
            /\ SendSync(ctx, timed, NoMark, below)
            /\ \A i \in DOMAIN below : \E j \in DOMAIN stack : below[i] = stack[j]
      BY <2>1, <2>2, <3>1, <3>2
    <3> QED
      BY <2>1, <3>3, SendSyncBarrier
  <2>3. CASE SendFails(Tail(stack))
    <3>1. Pop /\ UNCHANGED <<lastReq, toServer>>
      BY <2>3 DEF SendFails, Pop
    <3> QED
      BY <1>5, <1>6, <2>1, <3>1
  <2> QED
    BY <1>12, <2>2, <2>3 DEF SyncResume
<1>13. CASE SyncWake
  <2>1. stack # <<>> /\ UNCHANGED <<lastReq, toServer, wire>> /\ Head(stack) \in F
    BY <1>13, TopTypes DEF SyncWake, TopIs, TypeOK
  <2>2. CASE Pop
    BY <1>5, <1>6, <2>1, <2>2
  <2>3. CASE SetTop([Head(stack) EXCEPT !.op = "drain"])
    <3> DEFINE g == [Head(stack) EXCEPT !.op = "drain"]
    <3>1. g \in F /\ g.n = Head(stack).n /\ g.done = Head(stack).done
      BY <2>1 DEF FrameType, CoreFrames
    <3> HIDE DEF F
    <3>2. /\ 1 \in DOMAIN stack /\ stack[1] = Head(stack)
          /\ \A i \in DOMAIN stack' :
               i \in DOMAIN stack /\ stack'[i] = IF i = 1 THEN g ELSE stack[i]
      BY <1>1, <2>1, <2>3, <3>1, SetTopFrames
    <3> HIDE DEF g
    <3>3. Kept
      BY <3>1, <3>2
    <3> QED
      BY <1>6, <2>1, <3>3
  <2> QED
    BY <1>13, <2>2, <2>3 DEF SyncWake
<1>14. CASE SyncTimeout \/ DrainEnd \/ HandlerReturn \/ NotifyReturn
  <2>1. stack # <<>> /\ Pop /\ UNCHANGED <<lastReq, toServer, wire>>
    BY <1>14 DEF SyncTimeout, DrainEnd, HandlerReturn, NotifyReturn, TopIs
  <2> QED
    BY <1>5, <1>6, <2>1
<1>15. CASE DispatchToken
  <2> DEFINE n == Head(mainq).n
             k == FrameOf(n)
             g == [stack[k] EXCEPT !.mdone = TRUE]
  <2>1. UNCHANGED <<lastReq, toServer, wire>> /\ MarkDrained(n)
    BY <1>15 DEF DispatchToken
  <2>2. CASE ~OnStack(n)
    BY <1>6, <1>7, <2>1, <2>2 DEF MarkDrained
  <2>3. CASE OnStack(n)
    <3>1. k \in DOMAIN stack /\ stack' = [stack EXCEPT ![k] = g]
      BY <2>1, <2>3 DEF OnStack, FrameOf, MarkDrained
    <3>2. stack[k] \in F
      BY <1>1, <3>1
    <3>3. g \in F /\ g.n = stack[k].n /\ g.done = stack[k].done
      BY <3>2 DEF FrameType
    <3> HIDE DEF F, k, g
    <3>4. /\ DOMAIN stack' = DOMAIN stack
          /\ \A i \in DOMAIN stack : stack'[i] = IF i = k THEN g ELSE stack[i]
      BY <1>1, <3>1, <3>3, Replaced
    <3>5. Kept
      BY <3>1, <3>3, <3>4
    <3> QED
      BY <1>6, <2>1, <3>5
  <2> QED
    BY <2>2, <2>3
<1>16. CASE ServerStep
  BY <1>16, ServerStepBarrier
<1>17. CASE LinkBreaks
  <2> DEFINE m == [kind |-> "error", n |-> 0]
  <2>1. m \in CoreMessages /\ m.n = 0
    BY DEF CoreMessages
  <2>2. toServer' = <<>> /\ wire' = Append(wire, m) /\ UNCHANGED <<lastReq, stack>>
    BY <1>17 DEF LinkBreaks
  <2> HIDE DEF m
  <2>3. \A i \in DOMAIN wire' :
          (i = Len(wire) + 1 /\ wire'[i] = m) \/ (i \in DOMAIN wire /\ wire'[i] = wire[i])
    BY <1>2, <2>1, <2>2, Appended
  <2> QED
    BY <1>2, <2>1, <2>2, <2>3 DEF BarrierInv, SyncIsBarrier
<1>18. CASE LoopStep
  BY <1>18, LoopStepBarrier
<1>19. CASE AppSource
  BY <1>4, <1>6, <1>19 DEF AppSource, Push
<1>20. CASE ToggleLoop
  BY <1>6, <1>7, <1>20 DEF ToggleLoop
<1>21. CASE UNCHANGED coreVars
  BY <1>6, <1>7, <1>21 DEF coreVars
<1> QED
  BY <1>8, <1>9, <1>10, <1>11, <1>12, <1>13, <1>14, <1>15, <1>16, <1>17, <1>18,
     <1>19, <1>20, <1>21 DEF Next, MainStep

-----------------------------------------------------------------------------
(* The theorems.                                                           *)

\* Every step keeps the connection, the socket, the main context and the
\* frames of the main thread in their types.
THEOREM CoreTypes == Spec => []TypeOK
<1>1. Init => TypeOK
  BY InitTypes
<1>2. TypeOK /\ [Next]_coreVars => TypeOK'
  BY NextTypes
<1> QED
  BY <1>1, <1>2, PTL DEF Spec

LEMMA TokensInOrder == Spec => []TokenInv
<1>1. Init => TokenInv
  BY InitTokens
<1>2. TypeOK /\ TokenInv /\ [Next]_coreVars => TokenInv'
  BY NextTokens
<1> QED
  BY <1>1, <1>2, CoreTypes, PTL DEF Spec

\* The source attached to the main context points into the data of a call
\* that has not returned, however the calls of handlers nest.
THEOREM NoDanglingToken == Spec => []TokenHasFrame
<1>1. TokenInv => TokenHasFrame
  BY DEF TokenInv, CallFrames, Tokens, TokenHasFrame, IsToken, Due
<1> QED
  BY <1>1, TokensInOrder, PTL

\* A call that blocks iterating the main context has the source that ends
\* it still attached.
THEOREM DrainsEnd == Spec => []DrainHasToken
<1>1. TokenInv => DrainHasToken
  BY DEF TokenInv, CallFrames, Numbered, Tokens, DrainHasToken, Due
<1> QED
  BY <1>1, TokensInOrder, PTL

\* A sync() that has its answer has no earlier request left on the socket:
\* it is a barrier, and an answer to another call never passes for its own.
THEOREM SyncIsABarrier == Spec => []SyncIsBarrier
<1>1. Init => BarrierInv
  BY InitBarrier
<1>2. TypeOK /\ BarrierInv /\ [Next]_coreVars => BarrierInv'
  BY NextBarrier
<1>3. BarrierInv => SyncIsBarrier
  BY DEF BarrierInv
<1> QED
  BY <1>1, <1>2, <1>3, CoreTypes, PTL DEF Spec
=============================================================================
