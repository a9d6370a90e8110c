--------------------------- MODULE ObjectsProofs ----------------------------
(***************************************************************************)
(* Proofs about the wrappers of one object (PwgNode, PwgDevice, PwgLink).  *)
(***************************************************************************)
EXTENDS Objects, CoreProofs, WellFoundedInduction

-----------------------------------------------------------------------------
(* Lists of steps: induction, and what performing one does.                *)

LEMMA Least ==
  ASSUME NEW T, T \subseteq Nat, T # {}
  PROVE  \E x \in T : \A y \in T : x <= y
<1> DEFINE R == OpToRel(<, Nat)
<1>1. IsWellFoundedOn(R, Nat)
  BY NatLessThanWellFounded
<1>2. ASSUME NEW x \in Nat, NEW y \in Nat, ~(<<y, x>> \in R)
      PROVE  x <= y
  BY <1>2 DEF OpToRel
<1> HIDE DEF R
<1>3. PICK x \in T : \A y \in T : ~(<<y, x>> \in R)
  BY <1>1, WFMin
<1>4. ASSUME NEW y \in T
      PROVE  x <= y
  <2>1. x \in Nat /\ y \in Nat /\ ~(<<y, x>> \in R)
    BY <1>3
  <2> QED
    BY <1>2, <2>1
<1> QED
  BY <1>3, <1>4

\* Induction up to a bound, as a fact about a set.
LEMMA Induction ==
  ASSUME NEW n \in Nat, NEW S, 0 \in S, \A i \in 1..n : i - 1 \in S => i \in S
  PROVE  0..n \subseteq S
<1> DEFINE T == (0..n) \ S
<1> SUFFICES ASSUME T # {}
             PROVE  FALSE
  OBVIOUS
<1>1. T \subseteq Nat
  OBVIOUS
<1> HIDE DEF T
<1>2. PICK x \in T : \A y \in T : x <= y
  BY <1>1, Least
<1> USE DEF T
<1>3. x # 0 /\ x \in 1..n /\ x - 1 \in 0..n /\ x - 1 < x
  BY <1>2
<1>4. x - 1 \in S
  BY <1>2, <1>3
<1> QED
  BY <1>2, <1>3, <1>4

\* The views after each step of a list: f is the function that v defines.
After(f, n, steps, v, e) ==
  f = [i \in 0..n |-> IF i = 0 THEN v ELSE Apply(steps[i], f[i - 1], e)]

LEMMA AfterExists ==
  ASSUME NEW n \in Nat, NEW steps, NEW v, NEW e
  PROVE  \E f : After(f, n, steps, v, e)
<1> DEFINE S == {k \in 0..n : \E f : After(f, k, steps, v, e)}
<1>1. 0 \in S
  <2> DEFINE f == [i \in 0..0 |-> v]
  <2>1. After(f, 0, steps, v, e)
    BY DEF After
  <2> QED
    BY <2>1
<1>2. ASSUME NEW k \in 1..n, k - 1 \in S
      PROVE  k \in S
  <2>1. PICK f : After(f, k - 1, steps, v, e)
    BY <1>2
  <2> DEFINE a(w, i) == Apply(steps[i], w, e)
             g == [i \in 0..k |-> IF i = k THEN a(f[k - 1], k) ELSE f[i]]
  <2>2. \A i \in 0..(k - 1) : f[i] = IF i = 0 THEN v ELSE a(f[i - 1], i)
    BY <2>1 DEF After
  <2> HIDE DEF a
  <2>3. \A i \in 0..k : g[i] = IF i = 0 THEN v ELSE a(g[i - 1], i)
    <3> SUFFICES ASSUME NEW i \in 0..k
                 PROVE  g[i] = IF i = 0 THEN v ELSE a(g[i - 1], i)
      OBVIOUS
    <3>1. CASE i = 0
      BY <2>2, <3>1
    <3>2. CASE i # 0 /\ i # k
      <4>1. i \in 0..(k - 1) /\ i - 1 \in 0..k /\ i - 1 # k
        BY <3>2
      <4> QED
        BY <2>2, <3>2, <4>1
    <3>3. CASE i = k
      <4>1. i - 1 \in 0..k /\ i - 1 # k /\ i # 0
        BY <3>3
      <4> QED
        BY <3>3, <4>1
    <3> QED
      BY <3>1, <3>2, <3>3
  <2>4. g = [i \in 0..k |-> IF i = 0 THEN v ELSE a(g[i - 1], i)]
    BY <2>3
  <2>5. After(g, k, steps, v, e)
    BY <2>4 DEF After, a
  <2> QED
    BY <2>5
<1> HIDE DEF S
<1>3. 0..n \subseteq S
  BY <1>1, <1>2, Induction
<1> QED
  BY <1>3 DEF S

\* What holds before the first step of a list and is passed on by every
\* step holds wherever the list is left.
LEMMA PerformReaches ==
  ASSUME NEW T, NEW steps \in Seq(T), NEW e, NEW below, NEW G, view \in G[0],
         \A i \in 1..Len(steps) : \A v \in G[i - 1] : Apply(steps[i], v, e) \in G[i],
         Perform(steps, e, below)
  PROVE  \/ view' \in G[Len(steps)] /\ stack' = below
         \/ \E i \in 1..Len(steps) :
              /\ view' \in G[i]
              /\ stack' = <<App>> \o Left(SubSeq(steps, i + 1, Len(steps)), e, below)
<1> DEFINE n == Len(steps)
           after == CHOOSE f : After(f, n, steps, view, e)
<1>1. n \in Nat /\ DOMAIN steps = 1..n
  OBVIOUS
<1>2. After(after, n, steps, view, e)
  BY <1>1, AfterExists
<1>3. \A i \in 0..n : after[i] = IF i = 0 THEN view ELSE Apply(steps[i], after[i - 1], e)
  BY <1>2 DEF After
<1>4. \/ view' = after[n] /\ stack' = below
      \/ \E i \in DOMAIN steps :
           /\ view' = after[i]
           /\ stack' = <<App>> \o Left(SubSeq(steps, i + 1, n), e, below)
  BY DEF Perform, After
<1> HIDE DEF after
<1> DEFINE S == {i \in 0..n : after[i] \in G[i]}
<1>5. 0 \in S
  BY <1>1, <1>3
<1>6. \A i \in 1..n : i - 1 \in S => i \in S
  <2> SUFFICES ASSUME NEW i \in 1..n, i - 1 \in S
               PROVE  i \in S
    OBVIOUS
  <2>1. i \in 0..n /\ i # 0
    OBVIOUS
  <2> QED
    BY <1>3, <2>1
<1> HIDE DEF S
<1>7. 0..n \subseteq S
  BY <1>1, <1>5, <1>6, Induction
<1>8. \A i \in 0..n : after[i] \in G[i]
  BY <1>7 DEF S
<1>9. view' = after[n] /\ stack' = below => view' \in G[n] /\ stack' = below
  BY <1>1, <1>8
<1>10. ASSUME NEW i \in DOMAIN steps, view' = after[i]
       PROVE  i \in 1..n /\ view' \in G[i]
  BY <1>1, <1>8, <1>10
<1> HIDE DEF n
<1> QED
  BY <1>4, <1>9, <1>10 DEF n

-----------------------------------------------------------------------------
(* What is left to do, and how much of it there can be.                    *)

OFrame == FrameType(CoreFrames \cup {"rest"}, Marks)
RestMark == [steps : Seq(Steps) \ {<<>>}, e : Event]

\* The calls suspended with one of these lists of steps left.
RestOf(M) == {f \in OFrame : f.op = "rest" /\ f.mark \in M}
Held(st, M) == Has(st, RestOf(M))

Clearing == {"unbind", "halt", "nostate", "noerror", "lists"}

\* What an object of the class tells, and what the end of a session clears.
Told(c) ==
  (IF c # "device" THEN {"state", "error"} ELSE {}) \cup
  (IF c # "link" THEN {"infos"} ELSE {})
Cleared(c) ==
  (IF c # "device" THEN {"nostate", "noerror"} ELSE {}) \cup
  (IF c # "link" THEN {"lists"} ELSE {})

Later(steps, j, s) == \E k \in DOMAIN steps : k > j /\ steps[k] = s

\* A part of the end of a session: after unbind comes halt, and after halt
\* everything else is cleared.
Ends(c, steps) ==
  \A j \in DOMAIN steps :
    /\ steps[j] \in Clearing
    /\ steps[j] = "unbind" => Later(steps, j, "halt")
    /\ steps[j] = "halt" => \A s \in Cleared(c) : Later(steps, j, s)
Epilogue(c, steps) == Ends(c, steps) /\ steps # <<>> /\ steps[1] = "unbind"

Openings ==
  {<<"open">>, <<"roundtrip">>, <<"enum">>, <<"open", "roundtrip">>, <<"open", "enum">>}

Sound(c, m) ==
  \/ m.steps \in Openings /\ (c = "link" => m.steps \notin {<<"enum">>, <<"open", "enum">>})
  \/ m.steps[1] \in {"destroy", "reset"} /\ Epilogue(c, Tail(m.steps)) /\ m.e.kind # "info"
  \/ Ends(c, m.steps) /\ m.e.kind # "info"
  \/ m.steps \in Seq(Told(c)) /\ m.e.kind = "info" /\ m.e.of # NULL

At(step) == {m \in RestMark : m.steps[1] = step}
First == At("destroy") \cup At("reset")
Ending == {m \in RestMark : m.steps[1] \in Clearing}
Pending(s) == {m \in Ending : \E k \in DOMAIN m.steps : m.steps[k] = s}
Telling == {m \in RestMark : m.steps[1] \in {"state", "error", "infos"}}
Unsound(c) == {f \in OFrame : f.op = "rest" /\ ~(f.mark \in RestMark /\ Sound(c, f.mark))}

\* The stacks of the main thread: nothing at all is left to do below a start
\* that has still to open its session, and the end of a session goes on at
\* once.
Fits(c, st) ==
  /\ st \in Seq(OFrame)
  /\ Nested(st, RestOf(At("open")), RestOf(RestMark), RestOf(First))
  /\ ~Has(st, Unsound(c))

LEMMA OCovers ==
  ASSUME NEW Rs, NEW Ms, NEW Ss,
         CoreRequests \subseteq Rs, \A r \in Rs : r.kind = "sync" => r.n \in Nat,
         CoreMessages \subseteq Ms, \A m \in Ms : m.kind \in {"done", "error"} => m.n \in Nat,
         CoreSources \subseteq Ss
  PROVE  Covers(Rs, Ms, Ss, CoreFrames \cup {"rest"}, Marks)
BY DEF Covers, CoreRequests, CoreFrames, Marks

LEMMA AppFrame == App \in OFrame /\ App.op = "app"
BY DEF App, Suspension, Frame, OFrame, FrameType, CoreFrames, Marks

LEMMA TodoFrame ==
  ASSUME NEW steps \in Seq(Steps), steps # <<>>, NEW e \in Event
  PROVE  /\ Todo(steps, e) \in OFrame /\ Todo(steps, e).op = "rest"
         /\ Todo(steps, e).mark = [steps |-> steps, e |-> e]
         /\ [steps |-> steps, e |-> e] \in RestMark
<1> DEFINE m == [steps |-> steps, e |-> e]
<1>1. m \in RestMark
  BY DEF RestMark
<1>2. RestMark \subseteq Marks
  BY DEF RestMark, Marks
<1> HIDE DEF m
<1>3. Todo(steps, e) = Frame("rest", 0, TRUE, TRUE, m)
  BY DEF Todo, m
<1> QED
  BY <1>1, <1>2, <1>3 DEF Frame, OFrame, FrameType, m

LEMMA NotifyFrame == Notify \in OFrame /\ Notify.op = "notify"
BY DEF Notify, Suspension, Frame, OFrame, FrameType, CoreFrames, Marks

LEMMA SyncFrame ==
  ASSUME NEW op \in {"wait", "sync"}, NEW n \in Nat, NEW ctx \in BOOLEAN, NEW timed \in BOOLEAN,
         NEW mark \in Marks
  PROVE  Frame(op, n, ctx, timed, mark) \in OFrame /\ Frame(op, n, ctx, timed, mark).op = op
BY DEF Frame, OFrame, FrameType, CoreFrames

\* A frame on top: a call that starts a session goes above nothing left to
\* do, and nothing goes above the end of a session.
LEMMA PushFits ==
  ASSUME NEW c, NEW st, Fits(c, st), ~Held(st, First), NEW f \in OFrame,
         f.op = "rest" => f.mark \in RestMark /\ Sound(c, f.mark),
         f.op = "rest" /\ f.mark \in At("open") => ~Held(st, RestMark)
  PROVE  /\ Fits(c, <<f>> \o st)
         /\ \A M : Held(<<f>> \o st, M) <=> (f.op = "rest" /\ f.mark \in M) \/ Held(st, M)
<1>1. f \notin Unsound(c)
  BY DEF Unsound
<1>2. \A M : f \in RestOf(M) <=> f.op = "rest" /\ f.mark \in M
  BY DEF RestOf
<1>3. f \in RestOf(At("open")) => ~Has(st, RestOf(RestMark))
  BY <1>2 DEF Held
<1>4. /\ <<f>> \o st \in Seq(OFrame)
      /\ Nested(<<f>> \o st, RestOf(At("open")), RestOf(RestMark), RestOf(First))
      /\ \A X : Has(<<f>> \o st, X) <=> f \in X \/ Has(st, X)
  BY <1>3, NestedPushed DEF Fits, Held
<1>5. Fits(c, <<f>> \o st)
  BY <1>1, <1>4 DEF Fits
<1>6. ASSUME NEW M
      PROVE  Held(<<f>> \o st, M) <=> (f.op = "rest" /\ f.mark \in M) \/ Held(st, M)
  BY <1>2, <1>4 DEF Held
<1> QED
  BY <1>5, <1>6

\* A frame that is no rest: a handler, or the wait of a roundtrip.
LEMMA PushOther ==
  ASSUME NEW c, NEW st, Fits(c, st), ~Held(st, First), NEW f \in OFrame, f.op # "rest"
  PROVE  /\ Fits(c, <<f>> \o st)
         /\ \A M : Held(<<f>> \o st, M) <=> Held(st, M)
<1>1. /\ Fits(c, <<f>> \o st)
      /\ \A M : Held(<<f>> \o st, M) <=> (f.op = "rest" /\ f.mark \in M) \/ Held(st, M)
  BY PushFits
<1> QED
  BY <1>1

LEMMA PopFits ==
  ASSUME NEW c, NEW st, Fits(c, st), st # <<>>
  PROVE  /\ Fits(c, Tail(st)) /\ ~Held(Tail(st), First) /\ Head(st) \in OFrame
         /\ Head(st).op = "rest" => Head(st).mark \in RestMark /\ Sound(c, Head(st).mark)
         /\ Head(st).op = "rest" /\ Head(st).mark \in At("open") => ~Held(Tail(st), RestMark)
         /\ \A M : Held(st, M) <=> (Head(st).op = "rest" /\ Head(st).mark \in M) \/ Held(Tail(st), M)
<1> DEFINE S == RestOf(At("open"))
           R == RestOf(RestMark)
           Z == RestOf(First)
           U == Unsound(c)
<1>1. st \in Seq(OFrame) /\ Nested(st, S, R, Z) /\ ~Has(st, U)
  BY DEF Fits
<1> HIDE DEF S, R, Z, U
<1>2. /\ Tail(st) \in Seq(OFrame) /\ Head(st) \in OFrame /\ Nested(Tail(st), S, R, Z)
      /\ ~Has(Tail(st), Z) /\ (Head(st) \in S => ~Has(Tail(st), R))
  BY <1>1, NestedPopped
<1>3. ASSUME NEW X
      PROVE  Has(st, X) <=> Head(st) \in X \/ Has(Tail(st), X)
  BY <1>1, HasPopped
<1>4. Fits(c, Tail(st)) /\ ~Held(Tail(st), First) /\ Head(st) \notin U
  BY <1>1, <1>2, <1>3 DEF Fits, Held, S, R, Z, U
<1>5. ASSUME NEW M
      PROVE  Held(st, M) <=> (Head(st).op = "rest" /\ Head(st).mark \in M) \/ Held(Tail(st), M)
  BY <1>2, <1>3 DEF Held, RestOf
<1>6. Head(st).op = "rest" => Head(st).mark \in RestMark /\ Sound(c, Head(st).mark)
  BY <1>2, <1>4 DEF Unsound, U
<1>7. Head(st).op = "rest" /\ Head(st).mark \in At("open") => ~Held(Tail(st), RestMark)
  BY <1>2 DEF Held, RestOf, S, R
<1> QED
  BY <1>2, <1>4, <1>5, <1>6, <1>7

\* Only a rest that is left to do can be held; a longer list is held longer.
LEMMA HeldSub ==
  ASSUME NEW st, NEW M, NEW N, M \subseteq N, Held(st, M)
  PROVE  Held(st, N)
BY DEF Held, Has, RestOf

LEMMA HeldNow ==
  ASSUME NEW c, Fits(c, stack), stack # <<>>
  PROVE  /\ Resting <=> Held(stack, RestMark)
         /\ \A step : On(step) => Head(stack).mark \in At(step) /\ Held(stack, At(step))
<1>1. /\ Head(stack).op = "rest" => Head(stack).mark \in RestMark
      /\ \A M : Held(stack, M) <=> (Head(stack).op = "rest" /\ Head(stack).mark \in M)
                                     \/ Held(Tail(stack), M)
  BY PopFits
<1>2. Resting <=> Held(stack, RestMark)
  BY DEF Fits, Unsound, Resting, Held, Has, RestOf
<1>3. ASSUME NEW step, On(step)
      PROVE  Head(stack).mark \in At(step) /\ Held(stack, At(step))
  BY <1>1, <1>3 DEF On, TopIs, At
<1> QED
  BY <1>2, <1>3

LEMMA NothingHeld == ASSUME NEW M PROVE ~Held(<<>>, M)
BY DEF Held, Has

\* Where no end of a session is innermost, there is none.
LEMMA NoFirst ==
  ASSUME NEW c, Fits(c, stack), ~On("destroy"), ~On("reset")
  PROVE  ~Held(stack, First)
<1>1. CASE stack = <<>>
  BY <1>1, NothingHeld
<1>2. CASE stack # <<>>
  <2>1. /\ ~Held(Tail(stack), First)
        /\ Held(stack, First) <=> (Head(stack).op = "rest" /\ Head(stack).mark \in First)
                                    \/ Held(Tail(stack), First)
    BY <1>2, PopFits
  <2>2. ~(Head(stack).op = "rest" /\ Head(stack).mark \in First)
    BY <1>2 DEF On, TopIs, First, At
  <2> QED
    BY <2>1, <2>2
<1> QED
  BY <1>1, <1>2

\* What Calls and HasRest look for.
LEMMA RestsHeld ==
  ASSUME NEW c, Fits(c, stack)
  PROVE  /\ HasRest({"rest"}) <=> Held(stack, RestMark)
         /\ Resting <=> Held(stack, RestMark)
BY DEF HasRest, Fits, Unsound, Resting, Held, Has, RestOf

\* A handler.
LEMMA EmitFits ==
  ASSUME NEW c, NEW st, Fits(c, st), ~Held(st, First), Emit(st)
  PROVE  Fits(c, stack') /\ \A M : Held(stack', M) <=> Held(st, M)
<1>1. stack' = st \/ stack' = <<App>> \o st
  BY EmitCases DEF Fits
<1>2. CASE stack' = <<App>> \o st
  <2>1. /\ Fits(c, <<App>> \o st)
        /\ \A M : Held(<<App>> \o st, M) <=> Held(st, M)
    BY AppFrame, PushOther
  <2> QED
    BY <1>2, <2>1
<1> QED
  BY <1>1, <1>2

\* The handlers of notify::connected, unless they are about to run anyway.
LEMMA NotifiedFits ==
  ASSUME NEW c, NEW st, Fits(c, st), ~Held(st, First), stack' = Notified(st)
  PROVE  Fits(c, stack') /\ \A M : Held(stack', M) <=> Held(st, M)
<1>1. stack' = st \/ stack' = <<Notify>> \o st
  BY DEF Notified
<1>2. CASE stack' = <<Notify>> \o st
  <2>1. /\ Fits(c, <<Notify>> \o st)
        /\ \A M : Held(<<Notify>> \o st, M) <=> Held(st, M)
    BY NotifyFrame, PushOther
  <2> QED
    BY <1>2, <2>1
<1> QED
  BY <1>1, <1>2

\* A list of steps that is left to do.
LEMMA LeftFits ==
  ASSUME NEW c, NEW st, Fits(c, st), ~Held(st, First), NEW steps \in Seq(Steps), NEW e \in Event,
         steps # <<>> => Sound(c, [steps |-> steps, e |-> e]),
         steps # <<>> /\ steps[1] = "open" => ~Held(st, RestMark)
  PROVE  /\ Fits(c, Left(steps, e, st))
         /\ \A M : Held(Left(steps, e, st), M)
                     <=> (steps # <<>> /\ [steps |-> steps, e |-> e] \in M) \/ Held(st, M)
<1>1. CASE steps = <<>>
  BY <1>1 DEF Left
<1>2. CASE steps # <<>>
  <2> DEFINE f == Todo(steps, e)
             m == [steps |-> steps, e |-> e]
  <2>1. Left(steps, e, st) = <<f>> \o st
    BY <1>2 DEF Left
  <2>2. f \in OFrame /\ f.op = "rest" /\ f.mark = m /\ m \in RestMark
    BY <1>2, TodoFrame
  <2>3. m.steps = steps /\ Sound(c, m)
    BY <1>2
  <2>4. m \in At("open") => ~Held(st, RestMark)
    BY <1>2, <2>3 DEF At
  <2> HIDE DEF f, m
  <2>5. /\ Fits(c, <<f>> \o st)
        /\ \A M : Held(<<f>> \o st, M) <=> (f.op = "rest" /\ f.mark \in M) \/ Held(st, M)
    BY <2>2, <2>3, <2>4, PushFits
  <2> QED
    BY <1>2, <2>1, <2>2, <2>5 DEF m
<1> QED
  BY <1>1, <1>2

\* The steps of Core leave alone what is left to do.
LEMMA CoreStepFits ==
  ASSUME NEW c, NEW Rs, NEW Ms, NEW Ss,
         Covers(Rs, Ms, Ss, CoreFrames \cup {"rest"}, Marks),
         CoreTypeOK(Rs, Ms, Ss, CoreFrames \cup {"rest"}, Marks),
         Fits(c, stack), CoreStep
  PROVE  Fits(c, stack') /\ \A M : Held(stack', M) <=> Held(stack, M)
<1> DEFINE S == RestOf(At("open"))
           R == RestOf(RestMark)
           Z == RestOf(First)
           U == Unsound(c)
<1>1. stack \in Seq(OFrame) /\ Nested(stack, S, R, Z) /\ ~Has(stack, U)
  BY DEF Fits
<1>2. /\ Closed(S, OFrame) /\ Closed(R, OFrame) /\ Closed(Z, OFrame) /\ Closed(U, OFrame)
  BY DEF Closed, SameCall, RestOf, Unsound
<1> HIDE DEF S, R, Z, U
<1>3. /\ Nested(stack', S, R, Z)
      /\ \A X : Closed(X, OFrame) /\ Has(stack', X) => Has(stack, X)
  BY <1>1, <1>2, CoreStepNested DEF OFrame
<1>4. \/ stack' = stack
      \/ stack # <<>> /\ stack' = Tail(stack) /\ Head(stack).op \in {"wait", "drain", "app", "notify"}
      \/ \E k \in DOMAIN stack, f \in OFrame :
           SameCall(stack[k], f) /\ stack' = [stack EXCEPT ![k] = f]
  BY CoreStepFrames DEF OFrame
<1>5. stack' \in Seq(OFrame)
  BY <1>1, <1>4
<1>6. Fits(c, stack')
  BY <1>1, <1>2, <1>3, <1>5 DEF Fits, S, R, Z, U
<1>7. ASSUME NEW M
      PROVE  Held(stack', M) <=> Held(stack, M)
  <2>1. Closed(RestOf(M), OFrame)
    BY DEF Closed, SameCall, RestOf
  <2>2. Held(stack', M) => Held(stack, M)
    BY <1>3, <2>1 DEF Held
  <2>3. CASE stack # <<>> /\ stack' = Tail(stack) /\ Head(stack).op \in {"wait", "drain", "app", "notify"}
    BY <2>2, <2>3, PopFits
  <2>4. CASE \E k \in DOMAIN stack, f \in OFrame :
               SameCall(stack[k], f) /\ stack' = [stack EXCEPT ![k] = f]
    <3>1. PICK k \in DOMAIN stack, f \in OFrame :
            SameCall(stack[k], f) /\ stack' = [stack EXCEPT ![k] = f]
      BY <2>4
    <3>2. k \in DOMAIN stack /\ f \in OFrame /\ SameCall(stack[k], f)
      BY <3>1
    <3>3. DOMAIN stack' = DOMAIN stack /\ \A i \in DOMAIN stack : stack'[i] = IF i = k THEN f ELSE stack[i]
      BY <1>1, <3>1, <3>2, Replaced
    <3>4. stack[k] \in RestOf(M) => f \in RestOf(M)
      BY <3>2 DEF SameCall, RestOf
    <3> QED
      BY <2>2, <3>3, <3>4 DEF Held, Has
  <2> QED
    BY <1>4, <2>2, <2>3, <2>4
<1> QED
  BY <1>6, <1>7

\* The wait of a roundtrip, and a roundtrip that connects first.
LEMMA RoundtripFits ==
  ASSUME NEW c, NEW st, Fits(c, st), ~Held(st, First), NEW op \in {"wait", "sync"}, NEW n \in Nat,
         NEW ctx \in BOOLEAN, NEW timed \in BOOLEAN, NEW mark \in Marks
  PROVE  /\ Fits(c, <<Frame(op, n, ctx, timed, mark)>> \o st)
         /\ \A M : Held(<<Frame(op, n, ctx, timed, mark)>> \o st, M) <=> Held(st, M)
<1> DEFINE f == Frame(op, n, ctx, timed, mark)
<1>1. f \in OFrame /\ f.op # "rest"
  BY SyncFrame
<1> HIDE DEF f
<1>2. /\ Fits(c, <<f>> \o st)
      /\ \A M : Held(<<f>> \o st, M) <=> Held(st, M)
  BY <1>1, PushOther
<1> QED
  BY <1>2 DEF f

-----------------------------------------------------------------------------
(* What the lists of steps do to the view and to the stack.                *)

ViewType ==
  [running : BOOLEAN, bound : BOOLEAN, state : Field, error : Field, infos : Field,
   params : Seq([seq : Nat, index : Nat, via : Nat])]

LEMMA NothingField == Nothing \in Field
BY DEF Nothing, Field, NULL

LEMMA Suffix ==
  ASSUME NEW T, NEW s \in Seq(T), NEW i \in 1..Len(s)
  PROVE  /\ SubSeq(s, i + 1, Len(s)) \in Seq(T)
         /\ SubSeq(s, i + 1, Len(s)) = <<>> <=> i = Len(s)
         /\ \A j \in DOMAIN SubSeq(s, i + 1, Len(s)) :
              /\ j \in 1..(Len(s) - i) /\ j + i \in DOMAIN s
              /\ SubSeq(s, i + 1, Len(s))[j] = s[j + i]
         /\ \A k \in DOMAIN s : k > i =>
              /\ k - i \in DOMAIN SubSeq(s, i + 1, Len(s))
              /\ SubSeq(s, i + 1, Len(s))[k - i] = s[k]
<1> DEFINE t == SubSeq(s, i + 1, Len(s))
           n == Len(s)
<1>1. /\ n \in Nat /\ DOMAIN s = 1..n /\ \A j \in 1..n : s[j] \in T
      /\ i \in Nat /\ 1 <= i /\ i <= n
  OBVIOUS
<1>2. t = [j \in 1..(n - i) |-> s[j + i]]
  <2>1. t = [j \in 1..(n - (i + 1) + 1) |-> s[(i + 1) + j - 1]]
    BY <1>1 DEF SubSeq
  <2>2. n - (i + 1) + 1 = n - i
    BY <1>1
  <2>3. \A j \in 1..(n - i) : (i + 1) + j - 1 = j + i
    BY <1>1
  <2> QED
    BY <2>1, <2>2, <2>3
<1> HIDE DEF n
<1>3. \A j \in 1..(n - i) : j + i \in 1..n
  BY <1>1
<1>4. t \in Seq(T) /\ Len(t) = n - i
  BY <1>1, <1>2, <1>3
<1>5. t = <<>> <=> i = n
  <2>1. n - i = 0 <=> i = n
    BY <1>1
  <2> HIDE DEF t
  <2>2. t = <<>> <=> Len(t) = 0
    BY <1>4
  <2> QED
    BY <1>4, <2>1, <2>2
<1>6. DOMAIN t = 1..(n - i)
  BY <1>2
<1>7. \A k \in DOMAIN s : k > i => k - i \in 1..(n - i) /\ (k - i) + i = k
  BY <1>1
<1> QED
  BY <1>1, <1>2, <1>3, <1>4, <1>5, <1>6, <1>7 DEF n

\* A value of the view that one of the steps at the end of a session clears.
Done(s, v) ==
  CASE s = "unbind"  -> ~v.bound
    [] s = "halt"    -> ~v.running
    [] s = "nostate" -> v.state = Nothing
    [] s = "noerror" -> v.error = Nothing
    [] s = "lists"   -> v.infos = Nothing /\ v.params = <<>>
    [] OTHER         -> TRUE

\* A view of which nothing has changed but that parts are cleared.
Less(v, w) ==
  /\ w.running => v.running
  /\ w.bound => v.bound
  /\ w.state \in {v.state, Nothing} /\ w.error \in {v.error, Nothing}
  /\ w.infos \in {v.infos, Nothing} /\ w.params \in {v.params, <<>>}

LEMMA ApplyClears ==
  ASSUME NEW s \in Clearing, NEW v \in ViewType, NEW e
  PROVE  /\ Apply(s, v, e) \in ViewType /\ Less(v, Apply(s, v, e)) /\ Done(s, Apply(s, v, e))
         /\ \A t \in Clearing : Done(t, v) => Done(t, Apply(s, v, e))
<1> DEFINE w == Apply(s, v, e)
<1>1. <<>> \in Seq([seq : Nat, index : Nat, via : Nat])
  OBVIOUS
<1>2. CASE s = "unbind"
  <2>1. w = [v EXCEPT !.bound = FALSE]
    BY <1>2 DEF Apply
  <2> QED
    BY <1>2, <2>1 DEF ViewType, Less, Done, Clearing
<1>3. CASE s = "halt"
  <2>1. w = [v EXCEPT !.running = FALSE]
    BY <1>3 DEF Apply
  <2> QED
    BY <1>3, <2>1 DEF ViewType, Less, Done, Clearing
<1>4. CASE s = "nostate"
  <2>1. w = [v EXCEPT !.state = Nothing]
    BY <1>4 DEF Apply
  <2> QED
    BY <1>4, <2>1, NothingField DEF ViewType, Less, Done, Clearing
<1>5. CASE s = "noerror"
  <2>1. w = [v EXCEPT !.error = Nothing]
    BY <1>5 DEF Apply
  <2> QED
    BY <1>5, <2>1, NothingField DEF ViewType, Less, Done, Clearing
<1>6. CASE s = "lists"
  <2>1. w = [v EXCEPT !.infos = Nothing, !.params = <<>>]
    BY <1>6 DEF Apply
  <2> QED
    BY <1>1, <1>6, <2>1, NothingField DEF ViewType, Less, Done, Clearing
<1> QED
  BY <1>2, <1>3, <1>4, <1>5, <1>6 DEF Clearing

LEMMA LessTransitive ==
  ASSUME NEW u, NEW v, NEW w, Less(u, v), Less(v, w)
  PROVE  Less(u, w)
BY DEF Less

LEMMA EndsSuffix ==
  ASSUME NEW c, NEW s \in Seq(Steps), Ends(c, s), NEW i \in 1..Len(s)
  PROVE  Ends(c, SubSeq(s, i + 1, Len(s)))
<1> DEFINE t == SubSeq(s, i + 1, Len(s))
<1>1. /\ \A j \in DOMAIN t : j \in Int /\ i \in Int /\ j + i \in DOMAIN s /\ t[j] = s[j + i]
      /\ \A k \in DOMAIN s : k \in Int /\ (k > i => k - i \in DOMAIN t /\ t[k - i] = s[k])
      /\ \A j \in DOMAIN t : j >= 1
  BY Suffix
<1> HIDE DEF t
<1>2. ASSUME NEW j \in DOMAIN t, NEW x, Later(s, j + i, x)
      PROVE  Later(t, j, x)
  <2>1. PICK k \in DOMAIN s : k > j + i /\ s[k] = x
    BY <1>2 DEF Later
  <2>2. k > i /\ k - i > j
    BY <1>1, <2>1
  <2> QED
    BY <1>1, <2>1, <2>2 DEF Later
<1>3. ASSUME NEW j \in DOMAIN t
      PROVE  /\ t[j] \in Clearing
             /\ t[j] = "unbind" => Later(t, j, "halt")
             /\ t[j] = "halt" => \A x \in Cleared(c) : Later(t, j, x)
  BY <1>1, <1>2 DEF Ends
<1> QED
  BY <1>3 DEF Ends, t

\* The end of a session: what is not done yet is left to do.
LEMMA PerformEnds ==
  ASSUME NEW c, NEW steps \in Seq(Steps), NEW e \in Event, e.kind # "info", Ends(c, steps),
         NEW below, Fits(c, below), ~Held(below, First), view \in ViewType,
         Perform(steps, e, below)
  PROVE  /\ view' \in ViewType /\ Less(view, view') /\ Fits(c, stack')
         /\ \A j \in DOMAIN steps : Done(steps[j], view') \/ Held(stack', Pending(steps[j]))
         /\ steps # <<>> => Done(steps[1], view')
         /\ \A M : Held(below, M) => Held(stack', M)
         /\ \A M : Held(stack', M) => Held(below, M) \/ (steps # <<>> /\ M \cap Ending # {})
<1> DEFINE n == Len(steps)
           G == [i \in 0..n |-> {v \in ViewType : /\ Less(view, v)
                                                  /\ \A j \in 1..i : Done(steps[j], v)}]
<1>1. n \in Nat /\ DOMAIN steps = 1..n /\ \A j \in 1..n : steps[j] \in Clearing
  BY DEF Ends
<1>2. view \in G[0]
  BY <1>1 DEF Less
<1>3. \A i \in 1..n : \A v \in G[i - 1] : Apply(steps[i], v, e) \in G[i]
  <2> SUFFICES ASSUME NEW i \in 1..n, NEW v \in G[i - 1]
               PROVE  Apply(steps[i], v, e) \in G[i]
    OBVIOUS
  <2>1. /\ i - 1 \in 0..n /\ i \in 0..n /\ steps[i] \in Clearing
        /\ \A j \in 1..i : j \in 1..n /\ (j = i \/ j \in 1..(i - 1))
    BY <1>1
  <2>2. v \in ViewType /\ Less(view, v) /\ \A j \in 1..(i - 1) : Done(steps[j], v)
    BY <2>1
  <2> DEFINE w == Apply(steps[i], v, e)
  <2>3. /\ w \in ViewType /\ Less(v, w) /\ Done(steps[i], w)
        /\ \A t \in Clearing : Done(t, v) => Done(t, w)
    BY <2>1, <2>2, ApplyClears
  <2> HIDE DEF w
  <2>4. Less(view, w)
    BY <2>2, <2>3, LessTransitive
  <2>5. \A j \in 1..i : Done(steps[j], w)
    BY <1>1, <2>1, <2>2, <2>3
  <2> QED
    BY <2>1, <2>3, <2>4, <2>5 DEF w
<1> HIDE DEF G
<1>4. \/ view' \in G[n] /\ stack' = below
      \/ \E i \in 1..n : /\ view' \in G[i]
                         /\ stack' = <<App>> \o Left(SubSeq(steps, i + 1, n), e, below)
  BY <1>2, <1>3, PerformReaches
<1>5. \A i \in 0..n : view' \in G[i] =>
        view' \in ViewType /\ Less(view, view') /\ \A j \in 1..i : Done(steps[j], view')
  BY DEF G
<1>6. CASE view' \in G[n] /\ stack' = below
  <2>1. n \in 0..n
    BY <1>1
  <2>2. view' \in ViewType /\ Less(view, view') /\ \A j \in 1..n : Done(steps[j], view')
    BY <1>5, <1>6, <2>1
  <2>3. steps # <<>> => 1 \in 1..n
    BY <1>1
  <2> QED
    BY <1>1, <1>6, <2>2, <2>3
<1>7. ASSUME NEW i \in 1..n, view' \in G[i],
             stack' = <<App>> \o Left(SubSeq(steps, i + 1, n), e, below)
      PROVE  /\ view' \in ViewType /\ Less(view, view') /\ Fits(c, stack')
             /\ \A j \in DOMAIN steps : Done(steps[j], view') \/ Held(stack', Pending(steps[j]))
             /\ steps # <<>> => Done(steps[1], view')
             /\ \A M : Held(below, M) => Held(stack', M)
             /\ \A M : Held(stack', M) => Held(below, M) \/ (steps # <<>> /\ M \cap Ending # {})
  <2> DEFINE t == SubSeq(steps, i + 1, n)
             m == [steps |-> t, e |-> e]
  <2>1. i \in 0..n /\ 1 \in 1..i /\ steps # <<>>
    BY <1>1
  <2>2. view' \in ViewType /\ Less(view, view') /\ \A j \in 1..i : Done(steps[j], view')
    BY <1>5, <1>7, <2>1
  <2>3. /\ t \in Seq(Steps) /\ Ends(c, t)
        /\ \A k \in DOMAIN steps : k > i => k - i \in DOMAIN t /\ t[k - i] = steps[k]
    BY Suffix, EndsSuffix
  <2> HIDE DEF t
  <2>4. t # <<>> => m \in Ending /\ Sound(c, m)
    <3> SUFFICES ASSUME t # <<>>
                 PROVE  m \in Ending /\ Sound(c, m)
      OBVIOUS
    <3>1. m \in RestMark
      BY <2>3, TodoFrame
    <3>2. 1 \in DOMAIN t
      BY <2>3
    <3>3. t[1] \in Clearing
      BY <2>3, <3>2 DEF Ends
    <3> QED
      BY <2>3, <3>1, <3>3 DEF Ending, Sound
  <2>5. t # <<>> => t[1] # "open"
    BY <2>4 DEF Ending, Clearing
  <2> DEFINE l == Left(t, e, below)
  <2>6. /\ Fits(c, l)
        /\ \A M : Held(l, M) <=> (t # <<>> /\ m \in M) \/ Held(below, M)
    BY <2>3, <2>4, <2>5, LeftFits
  <2>7. ~Held(l, First)
    BY <2>4, <2>6 DEF First, At, Ending, Clearing
  <2>8. stack' = <<App>> \o l
    BY <1>7 DEF t
  <2> HIDE DEF l, m
  <2>9. Fits(c, stack') /\ \A M : Held(stack', M) <=> Held(l, M)
    BY <2>6, <2>7, <2>8, AppFrame, PushOther
  <2>10. ASSUME NEW j \in DOMAIN steps
         PROVE  Done(steps[j], view') \/ Held(stack', Pending(steps[j]))
    <3>1. CASE j \in 1..i
      BY <2>2, <3>1
    <3>2. CASE j > i
      <4>1. j - i \in DOMAIN t /\ t[j - i] = steps[j] /\ t # <<>>
        BY <2>3, <3>2
      <4>2. m \in Pending(steps[j])
        BY <2>4, <4>1 DEF Pending, m
      <4> QED
        BY <2>6, <2>9, <4>1, <4>2
    <3> QED
      BY <1>1, <3>1, <3>2
  <2>11. ASSUME NEW M, Held(stack', M)
         PROVE  Held(below, M) \/ M \cap Ending # {}
    BY <2>4, <2>6, <2>9, <2>11
  <2> QED
    BY <2>1, <2>2, <2>6, <2>9, <2>10, <2>11
<1> QED
  BY <1>4, <1>6, <1>7

\* A view in which values told by p have replaced others.
Retold(c, v, w, p) ==
  /\ w.running = v.running /\ w.bound = v.bound /\ w.params = v.params
  /\ w.state = v.state \/ (c # "device" /\ (w.state = Nothing \/ w.state.via = p))
  /\ w.error = v.error \/ (c # "device" /\ (w.error = Nothing \/ w.error.via = p))
  /\ w.infos = v.infos \/ (c # "link" /\ w.infos.via = p)

LEMMA ApplyTells ==
  ASSUME NEW c, NEW s \in Told(c), NEW v \in ViewType, NEW e \in Event
  PROVE  Apply(s, v, e) \in ViewType /\ Retold(c, v, Apply(s, v, e), e.of)
<1> DEFINE w == Apply(s, v, e)
<1>1. /\ e.of \in Nat /\ e.server.state \in Nat /\ e.server.error \in Nat
      /\ e.server.infos \in Nat
  BY DEF Event, Value
<1>2. \A f \in Field, x \in Nat :
        /\ Updated(f, x, e.of) \in Field
        /\ Updated(f, x, e.of) \in {f, Nothing} \/ Updated(f, x, e.of).via = e.of
  BY <1>1, NothingField DEF Updated, Field
<1>3. CASE s = "state" /\ c # "device"
  <2>1. w = [v EXCEPT !.state = Updated(v.state, e.server.state, e.of)]
    BY <1>3 DEF Apply
  <2>2. v.state \in Field
    BY DEF ViewType
  <2> QED
    BY <1>1, <1>2, <1>3, <2>1, <2>2 DEF ViewType, Retold
<1>4. CASE s = "error" /\ c # "device"
  <2>1. w = [v EXCEPT !.error = Updated(v.error, e.server.error, e.of)]
    BY <1>4 DEF Apply
  <2>2. v.error \in Field
    BY DEF ViewType
  <2> QED
    BY <1>1, <1>2, <1>4, <2>1, <2>2 DEF ViewType, Retold
<1>5. CASE s = "infos" /\ c # "link"
  <2>1. w = [v EXCEPT !.infos = [value |-> e.server.infos, via |-> e.of]]
    BY <1>5 DEF Apply
  <2> QED
    BY <1>1, <1>5, <2>1 DEF ViewType, Retold, Field
<1> QED
  BY <1>3, <1>4, <1>5 DEF Told

LEMMA RetoldTransitive ==
  ASSUME NEW c, NEW u, NEW v, NEW w, NEW p, Retold(c, u, v, p), Retold(c, v, w, p)
  PROVE  Retold(c, u, w, p)
BY DEF Retold

\* An info: its parts are told one by one, those that are left by a rest.
LEMMA PerformTells ==
  ASSUME NEW c, NEW steps \in Seq(Told(c)), NEW e \in Event, e.kind = "info", e.of # NULL,
         NEW below, Fits(c, below), ~Held(below, First), view \in ViewType,
         Perform(steps, e, below)
  PROVE  /\ view' \in ViewType /\ Retold(c, view, view', e.of) /\ Fits(c, stack')
         /\ \A M : Held(below, M) => Held(stack', M)
         /\ \A M : Held(stack', M) => Held(below, M) \/ M \cap Telling # {}
<1> DEFINE n == Len(steps)
           G == [i \in 0..n |-> {v \in ViewType : Retold(c, view, v, e.of)}]
<1>1. n \in Nat /\ \A j \in 1..n : steps[j] \in Told(c)
  OBVIOUS
<1>2. view \in G[0]
  BY <1>1 DEF Retold
<1>3. \A i \in 1..n : \A v \in G[i - 1] : Apply(steps[i], v, e) \in G[i]
  <2> SUFFICES ASSUME NEW i \in 1..n, NEW v \in G[i - 1]
               PROVE  Apply(steps[i], v, e) \in G[i]
    OBVIOUS
  <2>1. i - 1 \in 0..n /\ i \in 0..n /\ steps[i] \in Told(c)
    BY <1>1
  <2>2. v \in ViewType /\ Retold(c, view, v, e.of)
    BY <2>1
  <2> DEFINE w == Apply(steps[i], v, e)
  <2>3. w \in ViewType /\ Retold(c, v, w, e.of)
    BY <2>1, <2>2, ApplyTells
  <2> HIDE DEF w
  <2>4. Retold(c, view, w, e.of)
    BY <2>2, <2>3, RetoldTransitive
  <2> QED
    BY <2>1, <2>3, <2>4 DEF w
<1> HIDE DEF G
<1>4. \/ view' \in G[n] /\ stack' = below
      \/ \E i \in 1..n : /\ view' \in G[i]
                         /\ stack' = <<App>> \o Left(SubSeq(steps, i + 1, n), e, below)
  BY <1>2, <1>3, PerformReaches
<1>5. \A i \in 0..n : view' \in G[i] => view' \in ViewType /\ Retold(c, view, view', e.of)
  BY DEF G
<1>6. CASE view' \in G[n] /\ stack' = below
  BY <1>1, <1>5, <1>6
<1>7. ASSUME NEW i \in 1..n, view' \in G[i],
             stack' = <<App>> \o Left(SubSeq(steps, i + 1, n), e, below)
      PROVE  /\ view' \in ViewType /\ Retold(c, view, view', e.of) /\ Fits(c, stack')
             /\ \A M : Held(below, M) => Held(stack', M)
             /\ \A M : Held(stack', M) => Held(below, M) \/ M \cap Telling # {}
  <2> DEFINE t == SubSeq(steps, i + 1, n)
             m == [steps |-> t, e |-> e]
  <2>1. i \in 0..n
    BY <1>1
  <2>2. view' \in ViewType /\ Retold(c, view, view', e.of)
    BY <1>5, <1>7, <2>1
  <2>3. t \in Seq(Told(c))
    BY Suffix
  <2>4. Told(c) \subseteq {"state", "error", "infos"}
    BY DEF Told
  <2> HIDE DEF t
  <2>5. t \in Seq(Steps)
    <3>1. Told(c) \subseteq Steps
      BY <2>4 DEF Steps
    <3> QED
      BY <2>3, <3>1
  <2>6. t # <<>> => m \in Telling /\ Sound(c, m)
    <3> SUFFICES ASSUME t # <<>>
                 PROVE  m \in Telling /\ Sound(c, m)
      OBVIOUS
    <3>1. m \in RestMark
      BY <2>5, TodoFrame
    <3>2. t[1] \in Told(c)
      BY <2>3
    <3> QED
      BY <2>3, <2>4, <3>1, <3>2 DEF Telling, Sound
  <2>7. t # <<>> => t[1] # "open"
    BY <2>6 DEF Telling
  <2> DEFINE l == Left(t, e, below)
  <2>8. /\ Fits(c, l)
        /\ \A M : Held(l, M) <=> (t # <<>> /\ m \in M) \/ Held(below, M)
    BY <2>5, <2>6, <2>7, LeftFits
  <2>9. ~Held(l, First)
    BY <2>6, <2>8 DEF First, At, Telling
  <2>10. stack' = <<App>> \o l
    BY <1>7 DEF t
  <2> HIDE DEF l, m
  <2>11. Fits(c, stack') /\ \A M : Held(stack', M) <=> Held(l, M)
    BY <2>8, <2>9, <2>10, AppFrame, PushOther
  <2>12. ASSUME NEW M, Held(stack', M)
         PROVE  Held(below, M) \/ M \cap Telling # {}
    BY <2>6, <2>8, <2>11, <2>12
  <2> QED
    BY <2>2, <2>8, <2>11, <2>12
<1> QED
  BY <1>4, <1>6, <1>7

\* A parameter.
LEMMA PerformAppend ==
  ASSUME NEW c, NEW e \in Event, NEW below, Fits(c, below), ~Held(below, First),
         view \in ViewType, Perform(<<"append">>, e, below)
  PROVE  /\ view' = [view EXCEPT !.params =
                       Append(@, [seq |-> e.seq, index |-> e.index, via |-> e.of])]
         /\ view' \in ViewType /\ Fits(c, stack')
         /\ \A M : Held(stack', M) <=> Held(below, M)
<1> DEFINE s == <<"append">>
           w == Apply("append", view, e)
           G == [i \in 0..1 |-> IF i = 0 THEN {view} ELSE {w}]
<1>1. s \in Seq({"append"}) /\ Len(s) = 1 /\ s[1] = "append"
  OBVIOUS
<1>2. view \in G[0] /\ G[1] = {w}
  OBVIOUS
<1>3. \A i \in 1..Len(s) : \A v \in G[i - 1] : Apply(s[i], v, e) \in G[i]
  <2> SUFFICES ASSUME NEW i \in 1..Len(s), NEW v \in G[i - 1]
               PROVE  Apply(s[i], v, e) \in G[i]
    OBVIOUS
  <2>1. i = 1 /\ i - 1 = 0
    BY <1>1
  <2>2. v = view
    BY <2>1
  <2> HIDE DEF s
  <2> QED
    BY <1>1, <1>2, <2>1, <2>2
<1>4. SubSeq(s, 2, 1) = <<>>
  BY DEF SubSeq
<1> HIDE DEF G, s, w
<1>5. \/ view' \in G[Len(s)] /\ stack' = below
      \/ \E i \in 1..Len(s) : /\ view' \in G[i]
                              /\ stack' = <<App>> \o Left(SubSeq(s, i + 1, Len(s)), e, below)
  <2>1. Perform(s, e, below)
    BY DEF s
  <2> QED
    BY <1>1, <1>2, <1>3, <2>1, PerformReaches
<1>6. view' = w /\ (stack' = below \/ stack' = <<App>> \o below)
  <2>1. CASE view' \in G[Len(s)] /\ stack' = below
    BY <1>1, <1>2, <2>1
  <2>2. ASSUME NEW i \in 1..Len(s), view' \in G[i],
               stack' = <<App>> \o Left(SubSeq(s, i + 1, Len(s)), e, below)
        PROVE  view' = w /\ stack' = <<App>> \o below
    <3>1. i = 1 /\ i + 1 = 2
      BY <1>1
    <3>2. Left(SubSeq(s, i + 1, Len(s)), e, below) = below
      BY <1>1, <1>4, <3>1 DEF Left
    <3> QED
      BY <1>2, <2>2, <3>1, <3>2
  <2> QED
    BY <1>5, <2>1, <2>2
<1>7. Fits(c, stack') /\ \A M : Held(stack', M) <=> Held(below, M)
  <2>1. CASE stack' = below
    BY <2>1
  <2>2. CASE stack' = <<App>> \o below
    BY <2>2, AppFrame, PushOther
  <2> QED
    BY <1>6, <2>1, <2>2
<1> DEFINE x == [seq |-> e.seq, index |-> e.index, via |-> e.of]
<1>8. w = [view EXCEPT !.params = Append(view.params, x)]
  BY DEF w, Apply
<1>9. x \in [seq : Nat, index : Nat, via : Nat]
  BY DEF Event
<1>10. view.params \in Seq([seq : Nat, index : Nat, via : Nat])
  BY DEF ViewType
<1> HIDE DEF x
<1>11. Append(view.params, x) \in Seq([seq : Nat, index : Nat, via : Nat])
  BY <1>9, <1>10
<1>12. w \in ViewType
  BY <1>8, <1>11 DEF ViewType
<1> QED
  BY <1>6, <1>7, <1>8, <1>12 DEF x

-----------------------------------------------------------------------------
(* The inductive invariant.                                                *)

\* A request or a message of this kind may be about proxy p: the infos and
\* the parameters are the object's, and a link has no parameters.
About(c, kind, p, last, reg) ==
  /\ p # NULL /\ p <= last
  /\ kind \in {"object", "enum", "ask", "info", "param"} => p # reg
  /\ kind \in {"enum", "ask", "param"} => c # "link"
Addressed(c, kind, p) == About(c, kind, p, lastReq, registry)

\* An event that is not dropped was told by the object of this session, or
\* the session is ending and will clear what the event brings.
Fresh(c, q) ==
  /\ q.gen <= generation /\ q.m.to # NULL
  /\ q.kind = "param" => c # "link"
  /\ q.kind # "gone" /\ Current(q) => q.m.to = object \/ Held(stack, Pending("halt"))

RequestsNow(c) ==
  CoreRequests \cup
  {r \in [kind : {"registry", "object", "enum", "ask"}, n : Nat, p : Nat, num : Nat] :
     Addressed(c, r.kind, IF r.kind \in {"registry", "object"} THEN r.n ELSE r.p)}
MessagesNow(c) == CoreMessages \cup {m \in Message : Addressed(c, m.kind, m.to)}
SourcesNow(c) ==
  CoreSources \cup
  {q \in [kind : {"info", "param", "gone"}, gen : Nat, m : Message] : Fresh(c, q)}

ConnectionOK(c) ==
  /\ connected \in BOOLEAN /\ connects \in Nat /\ link \in BOOLEAN /\ inLoop \in BOOLEAN
  /\ lastReq \in Nat
  /\ toServer \in Seq(RequestsNow(c))
  /\ wire \in Seq(MessagesNow(c))
  /\ mainq \in Seq(SourcesNow(c))

WrapperOK ==
  /\ view \in ViewType
  /\ registry \in Nat /\ object \in Nat /\ generation \in Nat
  /\ alive \subseteq Nat /\ late \subseteq Nat

ServerOK ==
  /\ exists \subseteq {Own, Other} /\ server \in Value /\ rev \in Nat
  /\ subs \subseteq Nat /\ NULL \notin subs

\* A session has both proxies or none; only while it is ending can it run
\* without them.
Owner ==
  /\ Held(stack, At("reset")) => ~connected
  /\ Held(stack, At("open")) => ~running
  /\ Held(stack, Ending) => registry = NULL /\ object = NULL /\ ~bound
  /\ ~running => registry = NULL /\ object = NULL /\ ~bound
  /\ running /\ (object = NULL \/ ~bound) => Held(stack, Pending("halt"))
  /\ alive \subseteq {registry, object} \ {NULL}
  /\ ~connected => alive = {}
  /\ registry = object => registry = NULL
  /\ registry <= lastReq /\ object <= lastReq

\* What is shown was told by the object of this session or by one whose
\* info a stop interrupted, or has still to be cleared.
Known(f, s) ==
  \/ f = Nothing
  \/ f.via = object /\ object # NULL
  \/ f.via \in late
  \/ Held(stack, Pending(s))

Shown(c) ==
  /\ c = "device" => view.state = Nothing /\ view.error = Nothing
  /\ c = "link" => view.infos = Nothing /\ view.params = <<>>
  /\ Known(view.state, "nostate") /\ Known(view.error, "noerror")
  /\ Known(view.infos, "lists")
  /\ \/ \A i \in DOMAIN view.params : view.params[i].via = object /\ object # NULL
     \/ Held(stack, Pending("lists"))

OInv(c) ==
  ConnectionOK(c) /\ WrapperOK /\ ServerOK /\ Fits(c, stack) /\ Owner /\ Shown(c)

LEMMA SeqMono ==
  ASSUME NEW S, NEW T, S \subseteq T
  PROVE  \A s : s \in Seq(S) => s \in Seq(T)
OBVIOUS

\* Requests, messages and events that were sent before stay what they are.
LEMMA NowKept ==
  ASSUME NEW c, lastReq \in Nat, lastReq' \in Nat, lastReq <= lastReq',
         generation \in Nat, generation' \in Nat, generation <= generation',
         registry' \in {registry, NULL} \/ registry' > lastReq,
         \/ generation' > generation
         \/ ~running'
         \/ Held(stack', Pending("halt"))
         \/ /\ running' => running
            /\ object' = object
            /\ Held(stack, Pending("halt")) => Held(stack', Pending("halt"))
  PROVE  /\ \A s : s \in Seq(RequestsNow(c)) => s \in Seq(RequestsNow(c)')
         /\ \A s : s \in Seq(MessagesNow(c)) => s \in Seq(MessagesNow(c)')
         /\ \A s : s \in Seq(SourcesNow(c)) => s \in Seq(SourcesNow(c)')
<1>1. \A kind : \A p \in Nat : Addressed(c, kind, p) => Addressed(c, kind, p)'
  BY DEF Addressed, About
<1>2. RequestsNow(c) \subseteq RequestsNow(c)'
  BY <1>1 DEF RequestsNow
<1>3. MessagesNow(c) \subseteq MessagesNow(c)'
  BY <1>1 DEF MessagesNow, Message
<1>4. \A q : q.gen \in Nat /\ Fresh(c, q) => Fresh(c, q)'
  BY DEF Fresh, Current
<1>5. SourcesNow(c) \subseteq SourcesNow(c)'
  BY <1>4 DEF SourcesNow
<1> QED
  BY <1>2, <1>3, <1>5, SeqMono

\* This stack says of the session what the present one does.
Kept(st) ==
  /\ Held(st, At("reset")) <=> Held(stack, At("reset"))
  /\ Held(st, At("open")) => Held(stack, At("open"))
  /\ Held(st, Ending) => Held(stack, Ending)
  /\ \A s : Held(stack, Pending(s)) => Held(st, Pending(s))

LEMMA SameKept ==
  ASSUME NEW st, NEW below, Kept(below), \A M : Held(st, M) <=> Held(below, M)
  PROVE  Kept(st)
BY DEF Kept

\* A call goes on: what it had left says nothing of a session.
LEMMA PoppedKept ==
  ASSUME NEW c, Fits(c, stack), NEW step \in {"open", "roundtrip", "enum"}, On(step)
  PROVE  /\ Kept(Tail(stack)) /\ Fits(c, Tail(stack)) /\ ~Held(Tail(stack), First)
         /\ ~Held(stack, First)
         /\ step = "open" => ~Held(Tail(stack), RestMark) /\ ~Held(stack, Ending)
<1>1. stack # <<>> /\ Head(stack).op = "rest" /\ Head(stack).mark.steps[1] = step
  BY DEF On, TopIs
<1>2. /\ Fits(c, Tail(stack)) /\ ~Held(Tail(stack), First)
      /\ Head(stack).mark \in RestMark
      /\ Head(stack).mark \in At("open") => ~Held(Tail(stack), RestMark)
      /\ \A M : Held(stack, M) <=> Head(stack).mark \in M \/ Held(Tail(stack), M)
  BY <1>1, PopFits
<1>3. Head(stack).mark \notin Ending \cup First /\ \A s : Head(stack).mark \notin Pending(s)
  BY <1>1 DEF Ending, First, At, Pending, Clearing
<1>4. Kept(Tail(stack)) /\ ~Held(stack, First)
  BY <1>2, <1>3 DEF Kept, First
<1>5. step = "open" => ~Held(Tail(stack), RestMark)
  BY <1>1, <1>2 DEF At
<1>6. Ending \subseteq RestMark
  BY DEF Ending
<1>7. ~Held(Tail(stack), RestMark) => ~Held(Tail(stack), Ending)
  BY <1>6, HeldSub
<1> QED
  BY <1>2, <1>3, <1>4, <1>5, <1>7

\* A step that leaves the session alone, or empties the list of parameters.
LEMMA WrapperKept ==
  ASSUME NEW c, WrapperOK, Owner, Shown(c), lastReq \in Nat, lastReq' \in Nat,
         lastReq <= lastReq', Kept(stack'), view' \in {view, [view EXCEPT !.params = <<>>]},
         UNCHANGED <<connected, sessionVars, late>>
  PROVE  /\ WrapperOK' /\ Owner' /\ Shown(c)'
         /\ \A s : s \in Seq(RequestsNow(c)) => s \in Seq(RequestsNow(c)')
         /\ \A s : s \in Seq(MessagesNow(c)) => s \in Seq(MessagesNow(c)')
         /\ \A s : s \in Seq(SourcesNow(c)) => s \in Seq(SourcesNow(c)')
<1>1. UNCHANGED <<connected, registry, object, generation, alive, late>>
  BY DEF sessionVars
<1>2. /\ view' \in ViewType
      /\ view'.running = view.running /\ view'.bound = view.bound
      /\ view'.state = view.state /\ view'.error = view.error /\ view'.infos = view.infos
      /\ view'.params = view.params \/ view'.params = <<>>
  <2>1. view \in ViewType
    BY DEF WrapperOK
  <2>2. CASE view' = view
    BY <2>1, <2>2
  <2>3. CASE view' = [view EXCEPT !.params = <<>>]
    <3>1. <<>> \in Seq([seq : Nat, index : Nat, via : Nat])
      OBVIOUS
    <3> QED
      BY <2>1, <2>3, <3>1 DEF ViewType
  <2> QED
    BY <2>2, <2>3
<1>3. running' = running /\ bound' = bound
  BY <1>2 DEF running, bound
<1>4. WrapperOK'
  BY <1>1, <1>2 DEF WrapperOK
<1>5. Owner'
  BY <1>1, <1>3 DEF Owner, Kept, WrapperOK
<1>6. Shown(c)'
  <2>1. \A f, s : Known(f, s) => Known(f, s)'
    BY <1>1 DEF Known, Kept
  <2>2. Known(view.state, "nostate")' /\ Known(view.error, "noerror")' /\ Known(view.infos, "lists")'
    BY <1>2, <2>1 DEF Shown
  <2>3. \/ \A i \in DOMAIN view'.params : view'.params[i].via = object' /\ object' # NULL
        \/ Held(stack', Pending("lists"))
    BY <1>1, <1>2 DEF Shown, Kept
  <2>4. /\ c = "device" => view'.state = Nothing /\ view'.error = Nothing
        /\ c = "link" => view'.infos = Nothing /\ view'.params = <<>>
    BY <1>2 DEF Shown
  <2> QED
    BY <2>2, <2>3, <2>4 DEF Shown
<1>7. generation \in Nat
  BY DEF WrapperOK
<1>8. Held(stack, Pending("halt")) => Held(stack', Pending("halt"))
  BY DEF Kept
<1> QED
  BY <1>1, <1>3, <1>4, <1>5, <1>6, <1>7, <1>8, NowKept

LEMMA ServerKept == ServerOK /\ UNCHANGED serverVars => ServerOK'
BY DEF ServerOK, serverVars

\* Core's own requests, messages and sources are among them.
LEMMA NowCovers ==
  ASSUME NEW c, NEW Rs, NEW Ms, NEW Ss,
         Rs = RequestsNow(c), Ms = MessagesNow(c), Ss = SourcesNow(c)
  PROVE  Covers(Rs, Ms, Ss, CoreFrames \cup {"rest"}, Marks)
<1>1. CoreRequests \subseteq Rs /\ \A r \in Rs : r.kind = "sync" => r.n \in Nat
  BY DEF RequestsNow, CoreRequests
<1>2. CoreMessages \subseteq Ms /\ \A m \in Ms : m.kind \in {"done", "error"} => m.n \in Nat
  BY DEF MessagesNow, CoreMessages, Message
<1>3. CoreSources \subseteq Ss
  BY DEF SourcesNow
<1> QED
  BY <1>1, <1>2, <1>3, OCovers

-----------------------------------------------------------------------------
(* The steps of Core.                                                      *)

LEMMA CoreStepKeeps ==
  ASSUME NEW c, OInv(c), CoreStep, UNCHANGED <<wrapperVars, serverVars>>
  PROVE  OInv(c)'
<1>1. PICK Rs, Ms, Ss : Rs = RequestsNow(c) /\ Ms = MessagesNow(c) /\ Ss = SourcesNow(c)
  OBVIOUS
<1> DEFINE Types == CoreTypeOK(Rs, Ms, Ss, CoreFrames \cup {"rest"}, Marks)
<1>2. Covers(Rs, Ms, Ss, CoreFrames \cup {"rest"}, Marks)
  BY <1>1, NowCovers
<1>3. Types
  BY <1>1 DEF OInv, ConnectionOK, CoreTypeOK, Fits, OFrame
<1>4. Types'
  BY <1>2, <1>3, SyncWakeTypes, ReturnTypes, DispatchTokenTypes, LoopStepTypes DEF CoreStep
<1>5. Fits(c, stack') /\ \A M : Held(stack', M) <=> Held(stack, M)
  BY <1>2, <1>3, CoreStepFits DEF OInv
<1>6. UNCHANGED <<connected, lastReq, view, sessionVars, late>>
  BY DEF CoreStep, SyncWake, SyncTimeout, DrainEnd, HandlerReturn, NotifyReturn, DispatchToken,
         LoopStep, wrapperVars
<1>7. Kept(stack')
  BY <1>5 DEF Kept
<1>8. /\ WrapperOK' /\ Owner' /\ Shown(c)'
      /\ \A s : s \in Seq(RequestsNow(c)) => s \in Seq(RequestsNow(c)')
      /\ \A s : s \in Seq(MessagesNow(c)) => s \in Seq(MessagesNow(c)')
      /\ \A s : s \in Seq(SourcesNow(c)) => s \in Seq(SourcesNow(c)')
  BY <1>6, <1>7, WrapperKept DEF OInv, ConnectionOK
<1>9. ConnectionOK(c)'
  <2>1. toServer' \in Seq(Rs) /\ wire' \in Seq(Ms) /\ mainq' \in Seq(Ss)
    BY <1>4 DEF CoreTypeOK
  <2> QED
    BY <1>1, <1>4, <1>8, <2>1 DEF CoreTypeOK, ConnectionOK
<1> QED
  BY <1>5, <1>8, <1>9, ServerKept DEF OInv

LEMMA ServeSyncKeeps ==
  ASSUME NEW c, OInv(c), ServeSync \/ EnterLoop, UNCHANGED <<wrapperVars, serverVars>>
  PROVE  OInv(c)'
<1>1. PICK Rs, Ms, Ss : Rs = RequestsNow(c) /\ Ms = MessagesNow(c) /\ Ss = SourcesNow(c)
  OBVIOUS
<1> DEFINE Types == CoreTypeOK(Rs, Ms, Ss, CoreFrames \cup {"rest"}, Marks)
<1>2. Covers(Rs, Ms, Ss, CoreFrames \cup {"rest"}, Marks)
  BY <1>1, NowCovers
<1>3. Types
  BY <1>1 DEF OInv, ConnectionOK, CoreTypeOK, Fits, OFrame
<1>4. Types'
  BY <1>2, <1>3, ServeSyncTypes, EnterLoopTypes
<1>5. UNCHANGED <<connected, lastReq, stack, view, sessionVars, late>>
  BY DEF ServeSync, EnterLoop, wrapperVars
<1>6. Kept(stack')
  BY <1>5 DEF Kept
<1>7. /\ WrapperOK' /\ Owner' /\ Shown(c)'
      /\ \A s : s \in Seq(RequestsNow(c)) => s \in Seq(RequestsNow(c)')
      /\ \A s : s \in Seq(MessagesNow(c)) => s \in Seq(MessagesNow(c)')
      /\ \A s : s \in Seq(SourcesNow(c)) => s \in Seq(SourcesNow(c)')
  BY <1>5, <1>6, WrapperKept DEF OInv, ConnectionOK
<1>8. ConnectionOK(c)'
  <2>1. toServer' \in Seq(Rs) /\ wire' \in Seq(Ms) /\ mainq' \in Seq(Ss)
    BY <1>4 DEF CoreTypeOK
  <2> QED
    BY <1>1, <1>4, <1>7, <2>1 DEF CoreTypeOK, ConnectionOK
<1> QED
  BY <1>5, <1>7, <1>8, ServerKept DEF OInv

-----------------------------------------------------------------------------
(* Starting a session, and asking.                                         *)

\* Requests of the kinds that a wrapper sends.
LEMMA RequestNow ==
  ASSUME NEW c, NEW kind \in {"registry", "object", "enum", "ask"}, NEW n \in Nat, NEW num \in Nat,
         object \in Nat,
         About(c, kind, IF kind \in {"registry", "object"} THEN n ELSE object, lastReq', registry')
  PROVE  Request(kind, n, num) \in RequestsNow(c)'
<1> DEFINE r == Request(kind, n, num)
<1>1. /\ r \in [kind : {"registry", "object", "enum", "ask"}, n : Nat, p : Nat, num : Nat]
      /\ r.kind = kind /\ r.n = n /\ r.p = object
  BY DEF Request
<1> HIDE DEF r
<1> QED
  BY <1>1 DEF RequestsNow, Addressed, r

LEMMA SendsOne ==
  ASSUME NEW S, NEW r \in S, Sends(<<r>>), lastReq \in Nat, toServer \in Seq(S)
  PROVE  toServer' \in Seq(S) /\ lastReq' = lastReq + 1 /\ lastReq' \in Nat /\ lastReq <= lastReq'
<1>1. Len(<<r>>) = 1
  OBVIOUS
<1>2. toServer \o <<r>> \in Seq(S)
  OBVIOUS
<1> QED
  BY <1>1, <1>2 DEF Sends

LEMMA SendsTwo ==
  ASSUME NEW S, NEW r \in S, NEW q \in S, Sends(<<r, q>>), lastReq \in Nat, toServer \in Seq(S)
  PROVE  toServer' \in Seq(S) /\ lastReq' = lastReq + 2 /\ lastReq' \in Nat /\ lastReq <= lastReq'
<1>1. Len(<<r, q>>) = 2
  OBVIOUS
<1>2. <<r, q>> \in Seq(S)
  OBVIOUS
<1>3. toServer \o <<r, q>> \in Seq(S)
  BY <1>2
<1> QED
  BY <1>1, <1>3 DEF Sends

LEMMA NoEventType == NoEvent \in Event /\ NoEvent.kind = "none"
BY DEF NoEvent, Event, Untold, Value, NULL, Unasked

\* What a call that starts a session does after the start.
Todos(c) == {<<>>, <<"roundtrip">>} \cup (IF c = "link" THEN {} ELSE {<<"enum">>})

LEMMA TodoSteps ==
  ASSUME NEW c, NEW todo \in Todos(c)
  PROVE  /\ todo \in Seq(Steps)
         /\ todo # <<>> => todo[1] \in {"roundtrip", "enum"} /\ Sound(c, [steps |-> todo, e |-> NoEvent])
         /\ <<"open">> \o todo \in Seq(Steps) \ {<<>>} /\ (<<"open">> \o todo)[1] = "open"
         /\ Sound(c, [steps |-> <<"open">> \o todo, e |-> NoEvent])
<1>1. {"open", "roundtrip", "enum"} \subseteq Steps
  BY DEF Steps
<1>2. /\ <<>> \in Seq(Steps) /\ <<"roundtrip">> \in Seq(Steps) /\ <<"enum">> \in Seq(Steps)
      /\ <<"open">> \in Seq(Steps) /\ <<"open">> \o <<>> = <<"open">>
      /\ <<"open">> \o <<"roundtrip">> = <<"open", "roundtrip">>
      /\ <<"open">> \o <<"enum">> = <<"open", "enum">>
      /\ <<"open", "roundtrip">> \in Seq(Steps) \ {<<>>} /\ <<"open", "enum">> \in Seq(Steps) \ {<<>>}
  BY <1>1, Paired
<1>3. todo # <<>> => todo[1] \in {"roundtrip", "enum"}
  BY DEF Todos
<1>4. (<<"open">> \o todo)[1] = "open"
  BY <1>2 DEF Todos
<1>5. todo # <<>> => Sound(c, [steps |-> todo, e |-> NoEvent])
  BY DEF Todos, Sound, Openings
<1>6. Sound(c, [steps |-> <<"open">> \o todo, e |-> NoEvent])
  <2>1. <<"open">> \o todo \in {<<"open">>, <<"open", "roundtrip">>, <<"open", "enum">>}
    BY <1>2 DEF Todos
  <2>2. c = "link" => <<"open">> \o todo \notin {<<"enum">>, <<"open", "enum">>}
    <3>1. <<"open">> # <<"enum">> /\ <<"open">> # <<"open", "enum">>
      OBVIOUS
    <3>2. <<"open", "roundtrip">> # <<"enum">> /\ <<"open", "roundtrip">> # <<"open", "enum">>
      OBVIOUS
    <3> QED
      BY <1>2, <3>1, <3>2 DEF Todos
  <2>3. [steps |-> <<"open">> \o todo, e |-> NoEvent].steps = <<"open">> \o todo
    OBVIOUS
  <2> QED
    BY <2>1, <2>2, <2>3 DEF Sound, Openings
<1>7. todo \in Seq(Steps) /\ <<"open">> \o todo \in Seq(Steps) \ {<<>>}
  <2>1. todo = <<>> \/ todo = <<"roundtrip">> \/ todo = <<"enum">>
    BY DEF Todos
  <2>2. <<"open">> # <<>>
    OBVIOUS
  <2> QED
    BY <1>2, <2>1, <2>2
<1> QED
  BY <1>3, <1>4, <1>5, <1>6, <1>7

LEMMA OpenKeeps ==
  ASSUME NEW c, OInv(c), ~running, connected, NEW todo \in Todos(c), ~Held(stack, Ending),
         NEW below, Fits(c, below), ~Held(below, RestMark), Open(todo, below),
         UNCHANGED <<mainq, inLoop, serverVars>>
  PROVE  OInv(c)'
<1> DEFINE l == Left(todo, NoEvent, below)
           a == Request("registry", lastReq + 1, 0)
           b == Request("object", lastReq + 2, 0)
<1>1. /\ Sends(<<a, b>>) /\ registry' = lastReq + 1 /\ object' = lastReq + 2
      /\ alive' = alive \cup {lastReq + 1, lastReq + 2} /\ generation' = generation + 1
      /\ view' = [view EXCEPT !.running = TRUE, !.bound = TRUE] /\ Emit(l)
      /\ UNCHANGED <<connected, connects, link, wire, late, mainq, inLoop>>
  BY DEF Open
<1>2. /\ lastReq \in Nat /\ generation \in Nat /\ view \in ViewType /\ alive \subseteq Nat
      /\ registry = NULL /\ object = NULL /\ alive = {} /\ object \in Nat
  BY DEF OInv, ConnectionOK, WrapperOK, Owner
<1>3. ~Held(below, First)
  <2>1. First \subseteq RestMark
    BY DEF First, At
  <2> QED
    BY <2>1, HeldSub
<1>4. /\ Fits(c, l)
      /\ \A M : Held(l, M) <=> (todo # <<>> /\ [steps |-> todo, e |-> NoEvent] \in M) \/ Held(below, M)
  <2>1. todo # <<>> => todo[1] # "open"
    BY TodoSteps
  <2> QED
    BY <1>3, <2>1, TodoSteps, LeftFits, NoEventType
<1> HIDE DEF l
<1>5. ~Held(l, First) /\ ~Held(l, At("open")) /\ ~Held(l, At("reset"))
  <2>1. At("open") \subseteq RestMark /\ At("reset") \subseteq RestMark
    BY DEF At
  <2>2. ~Held(below, At("open")) /\ ~Held(below, At("reset"))
    BY <2>1, HeldSub
  <2>3. todo # <<>> => [steps |-> todo, e |-> NoEvent] \notin At("open") \cup At("reset") \cup First
    BY TodoSteps DEF At, First
  <2> QED
    BY <1>3, <1>4, <2>2, <2>3
<1>6. Fits(c, stack') /\ \A M : Held(stack', M) <=> Held(l, M)
  BY <1>1, <1>4, <1>5, EmitFits
<1>7. ~Held(stack', Ending)
  <2>1. Ending \subseteq RestMark
    BY DEF Ending
  <2>2. ~Held(below, Ending)
    BY <2>1, HeldSub
  <2>3. todo # <<>> => [steps |-> todo, e |-> NoEvent] \notin Ending
    BY TodoSteps DEF Ending, Clearing
  <2> QED
    BY <1>4, <1>6, <2>2, <2>3
<1>8. lastReq' = lastReq + 2
  <2>1. Len(<<a, b>>) = 2
    OBVIOUS
  <2> QED
    BY <1>1, <2>1 DEF Sends
<1>9. /\ registry' \in Nat /\ object' \in Nat /\ registry' # object' /\ registry' # NULL
      /\ object' # NULL /\ registry' > lastReq /\ registry' <= lastReq' /\ object' <= lastReq'
      /\ lastReq <= lastReq' /\ lastReq' \in Nat /\ generation' \in Nat /\ generation < generation'
      /\ lastReq + 1 \in Nat /\ lastReq + 2 \in Nat /\ generation <= generation'
  BY <1>1, <1>2, <1>8 DEF NULL
<1>10. /\ \A s : s \in Seq(RequestsNow(c)) => s \in Seq(RequestsNow(c)')
       /\ \A s : s \in Seq(MessagesNow(c)) => s \in Seq(MessagesNow(c)')
       /\ \A s : s \in Seq(SourcesNow(c)) => s \in Seq(SourcesNow(c)')
  BY <1>2, <1>9, NowKept
<1>11. ConnectionOK(c)'
  <2>1. a \in RequestsNow(c)' /\ b \in RequestsNow(c)'
    <3>1. /\ About(c, "registry", lastReq + 1, lastReq', registry')
          /\ About(c, "object", lastReq + 2, lastReq', registry')
      BY <1>1, <1>9 DEF About, NULL
    <3> QED
      BY <1>2, <1>9, <3>1, RequestNow
  <2>2. toServer \in Seq(RequestsNow(c)') /\ wire' \in Seq(MessagesNow(c)') /\ mainq' \in Seq(SourcesNow(c)')
    BY <1>1, <1>10 DEF OInv, ConnectionOK
  <2> HIDE DEF a, b
  <2>3. toServer' \in Seq(RequestsNow(c)')
    BY <1>1, <1>2, <2>1, <2>2, SendsTwo
  <2> QED
    BY <1>1, <1>9, <2>2, <2>3 DEF OInv, ConnectionOK
<1>12. /\ view' \in ViewType /\ running' /\ bound'
       /\ view'.state = view.state /\ view'.error = view.error
       /\ view'.infos = view.infos /\ view'.params = view.params
  BY <1>1, <1>2 DEF ViewType, running, bound
<1>13. WrapperOK'
  BY <1>1, <1>2, <1>9, <1>12 DEF OInv, WrapperOK
<1>14. ServerOK'
  BY ServerKept DEF OInv
<1>15. Owner'
  <2>1. alive' = {registry', object'} /\ connected'
    BY <1>1, <1>2
  <2> QED
    BY <1>5, <1>6, <1>7, <1>9, <1>12, <2>1 DEF Owner
<1>16. Shown(c)'
  <2>1. \A s : ~Held(stack, Pending(s))
    <3>1. \A s : Pending(s) \subseteq Ending
      BY DEF Pending
    <3> QED
      BY <3>1, HeldSub
  <2>2. \A f, s : Known(f, s) => Known(f, s)'
    BY <1>1, <1>2, <2>1 DEF Known
  <2>3. Known(view.state, "nostate")' /\ Known(view.error, "noerror")' /\ Known(view.infos, "lists")'
    BY <1>12, <2>2 DEF OInv, Shown
  <2>4. \A i \in DOMAIN view'.params : FALSE
    BY <1>2, <1>12, <2>1 DEF OInv, Shown
  <2> QED
    BY <1>12, <2>3, <2>4 DEF OInv, Shown
<1> QED
  BY <1>6, <1>11, <1>13, <1>14, <1>15, <1>16 DEF OInv

\* A connection, new and empty: a session of which the reset is still owed
\* stays as it is.
LEMMA ConnectedKeeps ==
  ASSUME NEW c, OInv(c), Connected, UNCHANGED <<lastReq, mainq, inLoop, wrapperVars, serverVars>>,
         Fits(c, stack'), ~Held(stack', At("reset")),
         Held(stack', At("open")) => ~running,
         Held(stack', Ending) => Held(stack, Ending),
         \A s : Held(stack, Pending(s)) => Held(stack', Pending(s))
  PROVE  OInv(c)'
<1>1. /\ ~connected /\ connected' = TRUE /\ connects' = connects + 1 /\ link' = TRUE
      /\ toServer' = <<>> /\ wire' = <<>>
      /\ UNCHANGED <<view, registry, object, generation, alive, late>>
  BY DEF Connected, wrapperVars, sessionVars
<1>2. running' = running /\ bound' = bound
  BY <1>1 DEF running, bound
<1>3. /\ lastReq \in Nat /\ generation \in Nat /\ lastReq <= lastReq' /\ generation <= generation'
      /\ lastReq' \in Nat /\ generation' \in Nat
  BY <1>1 DEF OInv, ConnectionOK, WrapperOK
<1>4. \A s : s \in Seq(SourcesNow(c)) => s \in Seq(SourcesNow(c)')
  BY <1>1, <1>2, <1>3, NowKept
<1>5. toServer' \in Seq(RequestsNow(c)') /\ wire' \in Seq(MessagesNow(c)')
  BY <1>1
<1>6. ConnectionOK(c)'
  BY <1>1, <1>3, <1>4, <1>5 DEF OInv, ConnectionOK
<1>7. WrapperOK'
  BY <1>1 DEF OInv, WrapperOK
<1>8. Owner'
  <2>1. alive = {}
    BY <1>1 DEF OInv, Owner
  <2> QED
    BY <1>1, <1>2, <2>1 DEF OInv, Owner
<1>9. Shown(c)'
  <2>1. \A f, s : Known(f, s) => Known(f, s)'
    BY <1>1 DEF Known
  <2>2. Known(view.state, "nostate")' /\ Known(view.error, "noerror")' /\ Known(view.infos, "lists")'
    BY <1>1, <2>1 DEF OInv, Shown
  <2> QED
    BY <1>1, <2>2 DEF OInv, Shown
<1> QED
  BY <1>6, <1>7, <1>8, <1>9, ServerKept DEF OInv

\* A step that leaves the session and what is left of it alone.
LEMMA QuietKeeps ==
  ASSUME NEW c, OInv(c), UNCHANGED <<connected, connects, link, inLoop, sessionVars, late, serverVars>>,
         view' \in {view, [view EXCEPT !.params = <<>>]}, Fits(c, stack'), Kept(stack'),
         lastReq' \in Nat, lastReq <= lastReq',
         toServer' = toServer \/ toServer' \in Seq(RequestsNow(c)'),
         wire' = wire \/ wire' \in Seq(MessagesNow(c)'),
         mainq' = mainq \/ mainq' \in Seq(SourcesNow(c)')
  PROVE  OInv(c)'
<1>1. lastReq \in Nat /\ UNCHANGED connected
  BY DEF OInv, ConnectionOK
<1>2. /\ WrapperOK' /\ Owner' /\ Shown(c)'
      /\ \A s : s \in Seq(RequestsNow(c)) => s \in Seq(RequestsNow(c)')
      /\ \A s : s \in Seq(MessagesNow(c)) => s \in Seq(MessagesNow(c)')
      /\ \A s : s \in Seq(SourcesNow(c)) => s \in Seq(SourcesNow(c)')
  BY <1>1, WrapperKept DEF OInv
<1>3. ConnectionOK(c)'
  BY <1>2 DEF OInv, ConnectionOK
<1> QED
  BY <1>2, <1>3, ServerKept DEF OInv

LEMMA OpenFailsKeeps ==
  ASSUME NEW c, OInv(c), ~running, NEW below, Fits(c, below), Kept(below), OpenFails(below),
         UNCHANGED <<mainq, inLoop, serverVars>>
  PROVE  OInv(c)'
<1>1. registry = NULL /\ object = NULL
  BY DEF OInv, Owner
<1>2. /\ UNCHANGED <<connected, connects, link, inLoop, sessionVars, late, serverVars, view, lastReq,
                     toServer, wire, mainq>>
      /\ stack' = below
  BY <1>1 DEF OpenFails, sessionVars
<1>3. lastReq \in Nat /\ lastReq <= lastReq
  BY DEF OInv, ConnectionOK
<1> QED
  BY <1>2, <1>3, QuietKeeps

LEMMA StartThenKeeps ==
  ASSUME NEW c, OInv(c), ~running, ~Held(stack, RestMark), NEW todo \in Todos(c), StartThen(todo),
         UNCHANGED <<mainq, inLoop, serverVars>>
  PROVE  OInv(c)'
<1>1. \A M : M \subseteq RestMark => ~Held(stack, M)
  BY HeldSub
<1>2. ~Held(stack, First) /\ ~Held(stack, Ending) /\ ~Held(stack, At("reset")) /\ Kept(stack)
      /\ Fits(c, stack)
  BY <1>1 DEF First, At, Ending, Kept, OInv
<1>3. CASE connected /\ Open(todo, stack)
  BY <1>2, <1>3, OpenKeeps
<1>4. CASE OpenFails(stack)
  BY <1>2, <1>4, OpenFailsKeeps
<1>5. CASE /\ ~connected /\ ConnectFor(Todo(<<"open">> \o todo, NoEvent), Owed, stack)
           /\ UNCHANGED wrapperVars
  <2> DEFINE steps == <<"open">> \o todo
             f == Todo(steps, NoEvent)
             m == [steps |-> steps, e |-> NoEvent]
             st == <<f>> \o stack
  <2>1. Connected /\ stack' = Notified(st) /\ UNCHANGED lastReq
    BY <1>5 DEF ConnectFor
  <2>2. steps \in Seq(Steps) /\ steps # <<>> /\ steps[1] = "open" /\ Sound(c, m)
    BY TodoSteps
  <2> HIDE DEF steps
  <2>3. f \in OFrame /\ f.op = "rest" /\ f.mark = m /\ m \in RestMark /\ m.steps = steps
    BY <2>2, TodoFrame, NoEventType
  <2> HIDE DEF f, m
  <2>4. Fits(c, st) /\ \A M : Held(st, M) <=> m \in M \/ Held(stack, M)
    BY <1>2, <2>2, <2>3, PushFits
  <2> HIDE DEF st
  <2>5. m \notin First /\ m \notin Ending /\ m \notin At("reset")
    BY <2>2, <2>3 DEF First, At, Ending, Clearing
  <2>6. ~Held(st, First)
    BY <1>2, <2>4, <2>5
  <2>7. Fits(c, stack') /\ \A M : Held(stack', M) <=> m \in M \/ Held(stack, M)
    BY <2>1, <2>4, <2>6, NotifiedFits
  <2>8. /\ ~Held(stack', Ending) /\ ~Held(stack', At("reset"))
        /\ \A s : Held(stack, Pending(s)) => Held(stack', Pending(s))
    BY <1>2, <2>5, <2>7
  <2> QED
    BY <1>5, <2>1, <2>7, <2>8, ConnectedKeeps
<1> QED
  BY <1>3, <1>4, <1>5 DEF StartThen

\* A call that begins with a start, where nothing is left to do.
LEMMA CalledAlone ==
  ASSUME NEW c, OInv(c), NEW op, Calls(op, FALSE, {"rest"})
  PROVE  ~Held(stack, RestMark)
BY RestsHeld DEF Calls, OInv

LEMMA MayCallFits ==
  ASSUME NEW c, OInv(c), NEW op, NEW k, MayCall(op, k)
  PROVE  Fits(c, stack) /\ ~Held(stack, First) /\ Kept(stack)
<1>1. ~On("destroy") /\ ~On("reset")
  BY DEF MayCall, On, TopIs
<1> QED
  BY <1>1, NoFirst DEF OInv, Kept

LEMMA StartKeeps ==
  ASSUME NEW c, OInv(c), Start
  PROVE  OInv(c)'
<1>1. <<>> \in Todos(c)
  BY DEF Todos
<1> QED
  BY <1>1, CalledAlone, StartThenKeeps DEF Start

LEMMA OpeningKeeps ==
  ASSUME NEW c, OInv(c), Opening
  PROVE  OInv(c)'
<1>1. /\ Kept(Tail(stack)) /\ Fits(c, Tail(stack)) /\ ~Held(Tail(stack), RestMark)
      /\ ~Held(stack, Ending)
  BY PoppedKept DEF Opening, OInv
<1>2. ~running /\ stack # <<>> /\ Head(stack).op = "rest" /\ Head(stack).mark.steps[1] = "open"
  BY HeldNow DEF OInv, Owner, Opening, On, TopIs
<1>3. NextSteps \in Todos(c)
  <2>1. Sound(c, Head(stack).mark) /\ Head(stack).mark \in RestMark
    BY <1>2, PopFits DEF OInv
  <2> DEFINE s == Head(stack).mark.steps
  <2>2. s[1] = "open" /\ s \in Seq(Steps) \ {<<>>}
    BY <1>2, <2>1 DEF RestMark
  <2>3. ~Ends(c, s)
    BY <2>2 DEF Ends, Clearing
  <2>4. s \notin Seq(Told(c))
    BY <2>2 DEF Told
  <2>5. s \in Openings /\ (c = "link" => s \notin {<<"enum">>, <<"open", "enum">>})
    BY <2>1, <2>2, <2>3, <2>4 DEF Sound
  <2> HIDE DEF s
  <2>6. s \in {<<"open">>, <<"open", "roundtrip">>, <<"open", "enum">>}
    BY <2>2, <2>5 DEF Openings
  <2>7. /\ Tail(<<"open">>) = <<>> /\ Tail(<<"open", "roundtrip">>) = <<"roundtrip">>
        /\ Tail(<<"open", "enum">>) = <<"enum">>
    OBVIOUS
  <2>8. Tail(s) \in Todos(c)
    BY <2>5, <2>6, <2>7 DEF Todos
  <2> QED
    BY <2>8 DEF NextSteps, s
<1>4. UNCHANGED <<mainq, inLoop, serverVars>>
  BY DEF Opening
<1>5. CASE connected /\ Open(NextSteps, Tail(stack))
  BY <1>1, <1>2, <1>3, <1>4, <1>5, OpenKeeps
<1>6. CASE OpenFails(Tail(stack))
  BY <1>1, <1>2, <1>4, <1>6, OpenFailsKeeps
<1> QED
  BY <1>5, <1>6 DEF Opening

\* The request of a roundtrip in place of the innermost frame, or above it.
LEMMA SentKeeps ==
  ASSUME NEW c, OInv(c), NEW below, Fits(c, below), ~Held(below, First), Kept(below),
         NEW ctx \in BOOLEAN, NEW timed \in BOOLEAN, NEW mark \in Marks,
         SendSync(ctx, timed, mark, below) \/ SendFails(below),
         UNCHANGED <<connected, connects, link, wire, mainq, inLoop, wrapperVars, serverVars>>
  PROVE  OInv(c)'
<1>1. /\ lastReq \in Nat /\ lastReq + 1 \in Nat /\ lastReq <= lastReq + 1
      /\ toServer \in Seq(RequestsNow(c))
  BY DEF OInv, ConnectionOK
<1>2. UNCHANGED <<connected, connects, link, inLoop, sessionVars, late, serverVars, view, wire, mainq>>
  BY DEF wrapperVars
<1>3. CASE SendFails(below)
  <2>1. stack' = below /\ UNCHANGED <<lastReq, toServer>>
    BY <1>3 DEF SendFails
  <2> QED
    BY <1>1, <1>2, <2>1, QuietKeeps
<1>4. CASE SendSync(ctx, timed, mark, below)
  <2>1. /\ lastReq' = lastReq + 1 /\ toServer' = Append(toServer, SyncRequest)
        /\ stack' = <<Frame("wait", lastReq + 1, ctx, timed, mark)>> \o below
    BY <1>4 DEF SendSync
  <2>2. Fits(c, stack') /\ \A M : Held(stack', M) <=> Held(below, M)
    BY <1>1, <2>1, RoundtripFits
  <2>3. Kept(stack')
    BY <2>2, SameKept
  <2>4. toServer' \in Seq(RequestsNow(c)')
    <3>1. SyncRequest \in RequestsNow(c)'
      BY <1>1 DEF SyncRequest, RequestsNow, CoreRequests
    <3>2. \A s : s \in Seq(RequestsNow(c)) => s \in Seq(RequestsNow(c)')
      BY <1>1, <1>2, <2>1, <2>3, WrapperKept DEF OInv
    <3>3. toServer \in Seq(RequestsNow(c)')
      BY <1>1, <3>2
    <3> QED
      BY <2>1, <3>1, <3>3
  <2> QED
    BY <1>1, <1>2, <2>1, <2>2, <2>3, <2>4, QuietKeeps
<1> QED
  BY <1>3, <1>4

\* A roundtrip that may have to connect first.
LEMMA RoundtripKeeps ==
  ASSUME NEW c, OInv(c), NEW below, Fits(c, below), ~Held(below, First), Kept(below),
         Roundtrip(NoMark, Owed, below), UNCHANGED <<mainq, inLoop, wrapperVars, serverVars>>
  PROVE  OInv(c)'
<1>1. NoMark \in Marks
  BY DEF Marks
<1>2. CASE /\ SendSync(TRUE, TRUE, NoMark, below) \/ SendFails(below)
           /\ UNCHANGED <<connected, connects, link, wire>>
  BY <1>1, <1>2, SentKeeps
<1>3. CASE ConnectFor(Frame("sync", 0, TRUE, TRUE, NoMark), Owed, below)
  <2> DEFINE st == <<Frame("sync", 0, TRUE, TRUE, NoMark)>> \o below
  <2>1. Connected /\ stack' = Notified(st) /\ UNCHANGED lastReq
    BY <1>3 DEF ConnectFor
  <2>2. Fits(c, st) /\ \A M : Held(st, M) <=> Held(below, M)
    BY <1>1, RoundtripFits
  <2> HIDE DEF st
  <2>3. Fits(c, stack') /\ \A M : Held(stack', M) <=> Held(below, M)
    BY <2>1, <2>2, NotifiedFits
  <2>4. ~Held(stack', At("reset"))
    <3>1. At("reset") \subseteq First
      BY DEF First
    <3> QED
      BY <2>3, <3>1, HeldSub
  <2>5. /\ Held(stack', At("open")) => ~running
        /\ Held(stack', Ending) => Held(stack, Ending)
        /\ \A s : Held(stack, Pending(s)) => Held(stack', Pending(s))
    BY <2>3 DEF Kept, OInv, Owner
  <2> QED
    BY <2>1, <2>3, <2>4, <2>5, ConnectedKeeps
<1> QED
  BY <1>2, <1>3 DEF Roundtrip

\* A roundtrip goes on once it is connected.
LEMMA SyncResumeKeeps ==
  ASSUME NEW c, OInv(c), SyncResume(Head(stack).mark), UNCHANGED <<wrapperVars, serverVars>>
  PROVE  OInv(c)'
<1> DEFINE f == Head(stack)
           b == Tail(stack)
<1>1. /\ stack # <<>> /\ f.op = "sync"
      /\ SendSync(f.ctx, f.timed, f.mark, b) \/ SendFails(b)
      /\ UNCHANGED <<connected, connects, link, wire, mainq, inLoop>>
  BY DEF SyncResume, TopIs
<1>2. /\ Fits(c, b) /\ ~Held(b, First) /\ f \in OFrame
      /\ \A M : Held(stack, M) <=> Held(b, M)
  BY <1>1, PopFits DEF OInv
<1>3. f.ctx \in BOOLEAN /\ f.timed \in BOOLEAN /\ f.mark \in Marks
  BY <1>2 DEF OFrame, FrameType
<1>4. Kept(b)
  BY <1>2 DEF Kept
<1> HIDE DEF f, b
<1> QED
  BY <1>1, <1>2, <1>3, <1>4, SentKeeps

\* The application connects.
LEMMA ConnectCoreKeeps ==
  ASSUME NEW c, OInv(c), ConnectCore
  PROVE  OInv(c)'
<1>1. /\ Connected /\ stack' = Notified(stack)
      /\ UNCHANGED <<lastReq, mainq, inLoop, wrapperVars, serverVars>>
  BY DEF ConnectCore, Keep, Connect
<1>2. Fits(c, stack) /\ ~Held(stack, First)
  BY MayCallFits DEF ConnectCore, Keep, Connect
<1>3. Fits(c, stack') /\ \A M : Held(stack', M) <=> Held(stack, M)
  BY <1>1, <1>2, NotifiedFits
<1>4. ~Held(stack', At("reset"))
  <2>1. At("reset") \subseteq First
    BY DEF First
  <2> QED
    BY <1>2, <1>3, <2>1, HeldSub
<1>5. Held(stack', At("open")) => ~running
  BY <1>3 DEF OInv, Owner
<1> QED
  BY <1>1, <1>3, <1>4, <1>5, ConnectedKeeps

LEMMA SyncKeeps ==
  ASSUME NEW c, OInv(c), Sync
  PROVE  OInv(c)'
<1>1. Fits(c, stack) /\ ~Held(stack, First) /\ Kept(stack)
  BY MayCallFits DEF Sync, Calls
<1>2. CASE running
  BY <1>1, <1>2, RoundtripKeeps DEF Sync
<1>3. CASE ~running
  <2>1. <<"roundtrip">> \in Todos(c) /\ ~Held(stack, RestMark)
    BY <1>3, RestsHeld DEF Todos, Sync, Calls, OInv
  <2> QED
    BY <1>3, <2>1, StartThenKeeps DEF Sync
<1> QED
  BY <1>2, <1>3

LEMMA SynchronisingKeeps ==
  ASSUME NEW c, OInv(c), Synchronising
  PROVE  OInv(c)'
<1>1. Kept(Tail(stack)) /\ Fits(c, Tail(stack)) /\ ~Held(Tail(stack), First)
  BY PoppedKept DEF Synchronising, OInv
<1> QED
  BY <1>1, RoundtripKeeps DEF Synchronising

\* A request about the object, and the state in which it is sent.
LEMMA AskedNow ==
  ASSUME NEW c, OInv(c), c # "link", Reachable, NEW kind \in {"enum", "ask"}, NEW n \in Nat,
         NEW num \in Nat, lastReq' \in Nat, lastReq <= lastReq', UNCHANGED registry
  PROVE  Request(kind, n, num) \in RequestsNow(c)'
<1>1. /\ object \in Nat /\ registry \in Nat /\ object # NULL /\ object <= lastReq
      /\ registry # object /\ lastReq \in Nat
  BY DEF OInv, ConnectionOK, WrapperOK, Owner, Reachable
<1>2. About(c, kind, object, lastReq', registry')
  BY <1>1 DEF About
<1> QED
  BY <1>1, <1>2, RequestNow

LEMMA SocketKept ==
  ASSUME NEW c, OInv(c), lastReq' \in Nat, lastReq <= lastReq', Kept(stack'),
         view' \in {view, [view EXCEPT !.params = <<>>]}, UNCHANGED <<connected, sessionVars, late>>
  PROVE  toServer \in Seq(RequestsNow(c)')
BY WrapperKept DEF OInv, ConnectionOK

LEMMA EnumerateKeeps ==
  ASSUME NEW c, OInv(c), c # "link", NEW num \in Nat, Enumerate(num)
  PROVE  OInv(c)'
<1> DEFINE r == Request("enum", lastReq + 1, num)
<1>1. Fits(c, stack) /\ Kept(stack)
  BY MayCallFits DEF Enumerate
<1>2. /\ UNCHANGED <<connected, connects, link, inLoop, sessionVars, late, serverVars, wire, mainq>>
      /\ stack' = stack /\ view' = [view EXCEPT !.params = <<>>] /\ Reachable
      /\ Sends(<<r>>) \/ UNCHANGED <<lastReq, toServer>>
  BY DEF Enumerate
<1>3. lastReq \in Nat /\ lastReq + 1 \in Nat /\ lastReq <= lastReq /\ toServer \in Seq(RequestsNow(c))
  BY DEF OInv, ConnectionOK
<1>4. Fits(c, stack') /\ Kept(stack')
  BY <1>1, <1>2
<1>5. CASE UNCHANGED <<lastReq, toServer>>
  BY <1>2, <1>3, <1>4, <1>5, QuietKeeps
<1>6. CASE Sends(<<r>>)
  <2>1. lastReq' = lastReq + 1 /\ lastReq' \in Nat /\ lastReq <= lastReq'
    BY <1>3, <1>6, SendsOne, Len(<<r>>) = 1 DEF Sends
  <2>2. r \in RequestsNow(c)'
    BY <1>2, <1>3, <2>1, AskedNow DEF sessionVars
  <2>3. toServer \in Seq(RequestsNow(c)')
    BY <1>2, <1>4, <2>1, SocketKept
  <2> HIDE DEF r
  <2>4. toServer' \in Seq(RequestsNow(c)')
    BY <1>3, <1>6, <2>2, <2>3, SendsOne
  <2> QED
    BY <1>2, <1>4, <2>1, <2>4, QuietKeeps
<1> QED
  BY <1>2, <1>5, <1>6

LEMMA AskKeeps ==
  ASSUME NEW c, OInv(c), c # "link", Ask
  PROVE  OInv(c)'
<1> DEFINE r == Request("ask", lastReq + 1, 1)
<1>1. Fits(c, stack) /\ Kept(stack)
  BY MayCallFits DEF Ask
<1>2. /\ UNCHANGED <<connected, connects, link, inLoop, sessionVars, late, serverVars, wire, mainq, view>>
      /\ stack' = stack /\ Reachable /\ Sends(<<r>>)
  BY DEF Ask, wrapperVars
<1>3. lastReq \in Nat /\ lastReq + 1 \in Nat /\ toServer \in Seq(RequestsNow(c))
  BY DEF OInv, ConnectionOK
<1>4. Fits(c, stack') /\ Kept(stack')
  BY <1>1, <1>2
<1>5. lastReq' = lastReq + 1 /\ lastReq' \in Nat /\ lastReq <= lastReq'
  BY <1>2, <1>3, Len(<<r>>) = 1 DEF Sends
<1>6. r \in RequestsNow(c)'
  BY <1>2, <1>3, <1>5, AskedNow DEF sessionVars
<1>7. toServer \in Seq(RequestsNow(c)')
  BY <1>2, <1>4, <1>5, SocketKept
<1> HIDE DEF r
<1>8. toServer' \in Seq(RequestsNow(c)')
  BY <1>2, <1>3, <1>6, <1>7, SendsOne
<1> QED
  BY <1>2, <1>4, <1>5, <1>8, QuietKeeps

LEMMA EnumRoundtripKeeps ==
  ASSUME NEW c, OInv(c), c # "link", NEW num \in Nat, NEW below, Fits(c, below),
         ~Held(below, First), Kept(below), EnumRoundtrip(num, below),
         UNCHANGED <<mainq, inLoop, serverVars>>
  PROVE  OInv(c)'
<1> DEFINE r == Request("enum", lastReq + 1, num)
           q == [kind |-> "sync", n |-> lastReq + 2]
           mark == Mark(lastReq + 1, num)
<1>1. UNCHANGED <<connected, connects, link, inLoop, sessionVars, late, serverVars, wire, mainq>>
  BY DEF EnumRoundtrip
<1>2. /\ lastReq \in Nat /\ lastReq + 1 \in Nat /\ lastReq + 2 \in Nat /\ lastReq <= lastReq
      /\ toServer \in Seq(RequestsNow(c)) /\ object \in Nat
  BY DEF OInv, ConnectionOK, WrapperOK
<1>3. CASE view' \in {view, [view EXCEPT !.params = <<>>]} /\ SendFails(below)
  <2>1. stack' = below /\ UNCHANGED <<lastReq, toServer>>
    BY <1>3 DEF SendFails
  <2> QED
    BY <1>1, <1>2, <1>3, <2>1, QuietKeeps
<1>4. CASE /\ Reachable /\ view' = [view EXCEPT !.params = <<>>] /\ Sends(<<r, q>>)
           /\ stack' = <<Frame("wait", lastReq + 2, TRUE, TRUE, mark)>> \o below
  <2>1. lastReq' = lastReq + 2 /\ lastReq' \in Nat /\ lastReq <= lastReq'
    BY <1>2, <1>4, Len(<<r, q>>) = 2 DEF Sends
  <2>2. r \in RequestsNow(c)' /\ q \in RequestsNow(c)'
    <3>1. r \in RequestsNow(c)'
      BY <1>1, <1>2, <1>4, <2>1, AskedNow DEF sessionVars
    <3>2. q \in CoreRequests
      BY <1>2 DEF CoreRequests
    <3> QED
      BY <3>1, <3>2 DEF RequestsNow
  <2>3. mark \in Marks
    BY <1>2 DEF Mark, Marks
  <2> HIDE DEF r, q, mark
  <2> DEFINE n == lastReq + 2
             st == <<Frame("wait", n, TRUE, TRUE, mark)>> \o below
  <2>8. n \in Nat /\ stack' = st
    BY <1>2, <1>4
  <2> HIDE DEF n
  <2>9. Fits(c, st) /\ \A M : Held(st, M) <=> Held(below, M)
    BY <2>3, <2>8, RoundtripFits
  <2>4. Fits(c, stack') /\ \A M : Held(stack', M) <=> Held(below, M)
    BY <2>8, <2>9
  <2>5. Kept(stack')
    BY <2>4, SameKept
  <2>6. toServer \in Seq(RequestsNow(c)')
    BY <1>1, <1>4, <2>1, <2>5, SocketKept
  <2>7. toServer' \in Seq(RequestsNow(c)')
    BY <1>2, <1>4, <2>2, <2>6, SendsTwo
  <2> QED
    BY <1>1, <1>4, <2>1, <2>4, <2>5, <2>7, QuietKeeps
<1> QED
  BY <1>3, <1>4 DEF EnumRoundtrip

LEMMA EnumSyncKeeps ==
  ASSUME NEW c, OInv(c), c # "link", NEW num \in Nat, EnumSync(num)
  PROVE  OInv(c)'
<1>1. Fits(c, stack) /\ ~Held(stack, First) /\ Kept(stack)
  BY MayCallFits DEF EnumSync, Calls
<1>2. CASE running
  BY <1>1, <1>2, EnumRoundtripKeeps DEF EnumSync
<1>3. CASE ~running
  <2>1. <<"enum">> \in Todos(c) /\ ~Held(stack, RestMark)
    BY <1>3, RestsHeld DEF Todos, EnumSync, Calls, OInv
  <2> QED
    BY <1>3, <2>1, StartThenKeeps DEF EnumSync
<1> QED
  BY <1>2, <1>3

LEMMA EnumeratingKeeps ==
  ASSUME NEW c, OInv(c), Enumerating
  PROVE  OInv(c)'
<1>1. Kept(Tail(stack)) /\ Fits(c, Tail(stack)) /\ ~Held(Tail(stack), First)
  BY PoppedKept DEF Enumerating, OInv
<1>2. c # "link"
  <2>1. stack # <<>> /\ Head(stack).op = "rest" /\ Head(stack).mark.steps[1] = "enum"
    BY DEF Enumerating, On, TopIs
  <2>2. Sound(c, Head(stack).mark) /\ Head(stack).mark \in RestMark
    BY <2>1, PopFits DEF OInv
  <2> DEFINE s == Head(stack).mark.steps
  <2>3. s[1] = "enum" /\ s \in Seq(Steps) \ {<<>>}
    BY <2>1, <2>2 DEF RestMark
  <2>4. ~Ends(c, s) /\ s \notin Seq(Told(c))
    <3>1. 1 \in DOMAIN s
      BY <2>3
    <3> QED
      BY <2>3, <3>1 DEF Ends, Clearing, Told
  <2>5. s \in Openings /\ (c = "link" => s \notin {<<"enum">>, <<"open", "enum">>})
    BY <2>2, <2>3, <2>4 DEF Sound
  <2> HIDE DEF s
  <2> QED
    BY <2>3, <2>5 DEF Openings
<1> QED
  BY <1>1, <1>2, ProxyAssumption, EnumRoundtripKeeps DEF Enumerating

-----------------------------------------------------------------------------
(* The end of a session.                                                   *)

\* Each class clears what it shows, in this order.
LEMMA Epilogues ==
  /\ NodeEpilogue \in Seq(Steps) /\ Epilogue("node", NodeEpilogue)
  /\ DeviceEpilogue \in Seq(Steps) /\ Epilogue("device", DeviceEpilogue)
  /\ LinkEpilogue \in Seq(Steps) /\ Epilogue("link", LinkEpilogue)
<1>1. NodeEpilogue \in Seq(Steps) /\ Epilogue("node", NodeEpilogue)
  <2> DEFINE s == NodeEpilogue
  <2>1. /\ DOMAIN s = 1..5 /\ s[1] = "unbind" /\ s[2] = "halt" /\ s[3] = "nostate"
        /\ s[4] = "noerror" /\ s[5] = "lists" /\ s # <<>>
    BY DEF NodeEpilogue
  <2>2. s \in Seq(Steps)
    BY DEF NodeEpilogue, Steps
  <2> HIDE DEF s
  <2>3. \A j \in 1..5 : s[j] \in Clearing /\ (s[j] = "unbind" => j = 1) /\ (s[j] = "halt" => j = 2)
    BY <2>1 DEF Clearing
  <2>4. Later(s, 1, "halt")
    BY <2>1 DEF Later
  <2>5. Later(s, 2, "nostate") /\ Later(s, 2, "noerror") /\ Later(s, 2, "lists")
    BY <2>1 DEF Later
  <2>6. Ends("node", s)
    BY <2>1, <2>3, <2>4, <2>5 DEF Ends, Cleared
  <2> QED
    BY <2>1, <2>2, <2>6 DEF Epilogue, s
<1>2. DeviceEpilogue \in Seq(Steps) /\ Epilogue("device", DeviceEpilogue)
  <2> DEFINE s == DeviceEpilogue
  <2>1. /\ DOMAIN s = 1..3 /\ s[1] = "unbind" /\ s[2] = "halt" /\ s[3] = "lists" /\ s # <<>>
    BY DEF DeviceEpilogue
  <2>2. s \in Seq(Steps)
    BY DEF DeviceEpilogue, Steps
  <2> HIDE DEF s
  <2>3. \A j \in 1..3 : s[j] \in Clearing /\ (s[j] = "unbind" => j = 1) /\ (s[j] = "halt" => j = 2)
    BY <2>1 DEF Clearing
  <2>4. Later(s, 1, "halt") /\ Later(s, 2, "lists")
    BY <2>1 DEF Later
  <2>5. Ends("device", s)
    BY <2>1, <2>3, <2>4 DEF Ends, Cleared
  <2> QED
    BY <2>1, <2>2, <2>5 DEF Epilogue, s
<1>3. LinkEpilogue \in Seq(Steps) /\ Epilogue("link", LinkEpilogue)
  <2> DEFINE s == LinkEpilogue
  <2>1. /\ DOMAIN s = 1..4 /\ s[1] = "unbind" /\ s[2] = "halt" /\ s[3] = "nostate"
        /\ s[4] = "noerror" /\ s # <<>>
    BY DEF LinkEpilogue
  <2>2. s \in Seq(Steps)
    BY DEF LinkEpilogue, Steps
  <2> HIDE DEF s
  <2>3. \A j \in 1..4 : s[j] \in Clearing /\ (s[j] = "unbind" => j = 1) /\ (s[j] = "halt" => j = 2)
    BY <2>1 DEF Clearing
  <2>4. Later(s, 1, "halt") /\ Later(s, 2, "nostate") /\ Later(s, 2, "noerror")
    BY <2>1 DEF Later
  <2>5. Ends("link", s)
    BY <2>1, <2>3, <2>4 DEF Ends, Cleared
  <2> QED
    BY <2>1, <2>2, <2>5 DEF Epilogue, s
<1> QED
  BY <1>1, <1>2, <1>3

\* The frame of a stop or a reset that begins.
LEMMA EndFits ==
  ASSUME NEW c, NEW st, Fits(c, st), ~Held(st, First), NEW first \in {"destroy", "reset"},
         NEW epilogue \in Seq(Steps), Epilogue(c, epilogue), NEW e \in Event, e.kind # "info"
  PROVE  /\ Fits(c, <<Todo(<<first>> \o epilogue, e)>> \o st)
         /\ \A M : Held(<<Todo(<<first>> \o epilogue, e)>> \o st, M)
                     <=> [steps |-> <<first>> \o epilogue, e |-> e] \in M \/ Held(st, M)
         /\ [steps |-> <<first>> \o epilogue, e |-> e] \in At(first)
         /\ [steps |-> <<first>> \o epilogue, e |-> e] \notin Ending \cup At("open")
<1> DEFINE s == <<first>> \o epilogue
           f == Todo(s, e)
           m == [steps |-> s, e |-> e]
<1>1. first \in Steps
  BY DEF Steps
<1>2. s \in Seq(Steps) /\ s # <<>> /\ s[1] = first /\ Tail(s) = epilogue
  BY <1>1, Pushed
<1> HIDE DEF s
<1>3. f \in OFrame /\ f.op = "rest" /\ f.mark = m /\ m \in RestMark /\ m.steps = s /\ m.e = e
  BY <1>2, TodoFrame
<1> HIDE DEF f, m
<1>4. Sound(c, m)
  BY <1>2, <1>3 DEF Sound
<1>5. m \in At(first) /\ m \notin Ending \cup At("open")
  BY <1>2, <1>3 DEF At, Ending, Clearing
<1>6. Fits(c, <<f>> \o st) /\ \A M : Held(<<f>> \o st, M) <=> m \in M \/ Held(st, M)
  BY <1>3, <1>4, <1>5, PushFits
<1> QED
  BY <1>5, <1>6 DEF f, m, s

LEMMA EndSessionKeeps ==
  ASSUME NEW c, OInv(c), ~Held(stack, First), NEW epilogue \in Seq(Steps), Epilogue(c, epilogue),
         NEW e \in Event, e.kind # "info", EndSession(epilogue, e),
         mainq' \in Seq(SourcesNow(c)),
         UNCHANGED <<connected, connects, link, toServer, wire, lastReq, inLoop, serverVars>>
  PROVE  OInv(c)'
<1> DEFINE s == <<"destroy">> \o epilogue
           m == [steps |-> s, e |-> e]
<1>1. /\ generation' = generation + 1 /\ stack' = <<Todo(s, e)>> \o stack
      /\ UNCHANGED <<view, registry, object, alive, late>>
  BY DEF EndSession
<1>2. /\ lastReq \in Nat /\ generation \in Nat /\ generation' \in Nat /\ generation < generation'
      /\ lastReq <= lastReq /\ generation <= generation'
  BY <1>1 DEF OInv, ConnectionOK, WrapperOK
<1>3. /\ Fits(c, stack') /\ m \in At("destroy") /\ m \notin Ending \cup At("open")
      /\ \A M : Held(stack', M) <=> m \in M \/ Held(stack, M)
  BY <1>1, EndFits DEF OInv
<1>4. m \notin At("reset") /\ \A x : m \notin Pending(x)
  BY <1>3 DEF At, Pending
<1> HIDE DEF m
<1>5. Kept(stack')
  BY <1>3, <1>4 DEF Kept
<1>6. running' = running /\ bound' = bound
  BY <1>1 DEF running, bound
<1>7. /\ \A t : t \in Seq(RequestsNow(c)) => t \in Seq(RequestsNow(c)')
      /\ \A t : t \in Seq(MessagesNow(c)) => t \in Seq(MessagesNow(c)')
      /\ \A t : t \in Seq(SourcesNow(c)) => t \in Seq(SourcesNow(c)')
  BY <1>1, <1>2, NowKept
<1>8. ConnectionOK(c)'
  BY <1>2, <1>7 DEF OInv, ConnectionOK
<1>9. WrapperOK'
  BY <1>1, <1>2 DEF OInv, WrapperOK
<1>10. Owner'
  BY <1>1, <1>5, <1>6 DEF OInv, Owner, Kept
<1>11. Shown(c)'
  <2>1. \A f, x : Known(f, x) => Known(f, x)'
    BY <1>1, <1>5 DEF Known, Kept
  <2>2. Known(view.state, "nostate")' /\ Known(view.error, "noerror")' /\ Known(view.infos, "lists")'
    BY <1>1, <2>1 DEF OInv, Shown
  <2> QED
    BY <1>1, <1>5, <2>2 DEF OInv, Shown, Kept
<1> QED
  BY <1>3, <1>8, <1>9, <1>10, <1>11, ServerKept DEF OInv

LEMMA StopKeeps ==
  ASSUME NEW c, OInv(c), NEW epilogue \in Seq(Steps), Epilogue(c, epilogue), Stop(epilogue)
  PROVE  OInv(c)'
<1>1. ~Held(stack, First) /\ NoEvent \in Event /\ NoEvent.kind # "info"
  BY MayCallFits, NoEventType DEF Stop
<1>2. /\ EndSession(epilogue, NoEvent) /\ mainq' = mainq
      /\ UNCHANGED <<connected, connects, link, toServer, wire, lastReq, inLoop, serverVars>>
  BY DEF Stop
<1>3. mainq \in Seq(SourcesNow(c))
  BY DEF OInv, ConnectionOK
<1> QED
  BY <1>1, <1>2, <1>3, EndSessionKeeps

\* What this step of the end of a session clears is cleared, or will be.
Clears(s) == Done(s, view') \/ Held(stack', Pending(s))

\* The proxies are gone, and the end of the session goes on.
LEMMA EndStepKeeps ==
  ASSUME NEW c, OInv(c), registry' = NULL, object' = NULL, alive' = {}, ~view'.bound,
         Less(view, view'), view' \in ViewType, Fits(c, stack'),
         \A s : Held(stack, Pending(s)) => Clears(s),
         object = NULL \/ \A s \in {"halt"} \cup Cleared(c) : Clears(s),
         Held(stack', At("reset")) => Held(stack, At("reset")),
         Held(stack', At("open")) => Held(stack, At("open")),
         generation' \in Nat, generation <= generation', ServerOK',
         UNCHANGED <<connected, connects, link, toServer, wire, lastReq, mainq, inLoop, late>>
  PROVE  OInv(c)'
<1>1. /\ lastReq \in Nat /\ lastReq <= lastReq /\ generation \in Nat
      /\ running' = view'.running /\ bound' = view'.bound /\ running = view.running
      /\ NULL \in Nat /\ NULL <= lastReq
  BY DEF OInv, ConnectionOK, WrapperOK, running, bound, NULL
<1>2. running' => Held(stack', Pending("halt"))
  <2> SUFFICES ASSUME running'
               PROVE  Held(stack', Pending("halt"))
    OBVIOUS
  <2>1. ~Done("halt", view')
    BY <1>1 DEF Done
  <2>2. CASE object = NULL
    <3>1. Held(stack, Pending("halt"))
      BY <1>1, <2>2 DEF OInv, Owner, Less
    <3> QED
      BY <2>1, <3>1 DEF Clears
  <2>3. CASE \A s \in {"halt"} \cup Cleared(c) : Clears(s)
    BY <2>1, <2>3 DEF Clears
  <2> QED
    BY <2>2, <2>3
<1>3. /\ \A t : t \in Seq(RequestsNow(c)) => t \in Seq(RequestsNow(c)')
      /\ \A t : t \in Seq(MessagesNow(c)) => t \in Seq(MessagesNow(c)')
      /\ \A t : t \in Seq(SourcesNow(c)) => t \in Seq(SourcesNow(c)')
  BY <1>1, <1>2, NowKept
<1>4. ConnectionOK(c)'
  BY <1>1, <1>3 DEF OInv, ConnectionOK
<1>5. WrapperOK'
  BY <1>1 DEF OInv, WrapperOK
<1>6. Owner'
  <2>1. Held(stack', At("open")) => ~running'
    BY <1>1 DEF OInv, Owner, Less
  <2>2. Held(stack', At("reset")) => ~connected'
    BY DEF OInv, Owner
  <2> QED
    BY <1>1, <1>2, <2>1, <2>2 DEF Owner
<1>7. Shown(c)'
  <2>1. ASSUME NEW f, NEW s, Known(f, s), f # Nothing, s \in Cleared(c), ~Done(s, view')
        PROVE  Known(f, s)'
    <3>1. CASE Held(stack, Pending(s))
      BY <2>1, <3>1 DEF Known, Clears
    <3>2. CASE f.via \in late
      BY <3>2 DEF Known
    <3>3. CASE object # NULL
      BY <2>1, <3>3 DEF Known, Clears
    <3> QED
      BY <2>1, <3>1, <3>2, <3>3 DEF Known
  <2>2. /\ view'.state \in {view.state, Nothing} /\ view'.error \in {view.error, Nothing}
        /\ view'.infos \in {view.infos, Nothing} /\ view'.params \in {view.params, <<>>}
    BY DEF Less
  <2>3. /\ c = "device" => view'.state = Nothing /\ view'.error = Nothing
        /\ c = "link" => view'.infos = Nothing /\ view'.params = <<>>
    BY <2>2 DEF OInv, Shown
  <2>4. Known(view.state, "nostate") /\ Known(view.error, "noerror") /\ Known(view.infos, "lists")
    BY DEF OInv, Shown
  <2>6. Known(view.state, "nostate")'
    <3>1. CASE view'.state = Nothing
      BY <3>1 DEF Known
    <3>2. CASE view'.state # Nothing
      <4>1. "nostate" \in Cleared(c) /\ ~Done("nostate", view') /\ view'.state = view.state
        BY <2>2, <2>3, <3>2 DEF Cleared, Done
      <4> QED
        BY <2>1, <2>4, <3>2, <4>1 DEF Known
    <3> QED
      BY <3>1, <3>2
  <2>7. Known(view.error, "noerror")'
    <3>1. CASE view'.error = Nothing
      BY <3>1 DEF Known
    <3>2. CASE view'.error # Nothing
      <4>1. "noerror" \in Cleared(c) /\ ~Done("noerror", view') /\ view'.error = view.error
        BY <2>2, <2>3, <3>2 DEF Cleared, Done
      <4> QED
        BY <2>1, <2>4, <3>2, <4>1 DEF Known
    <3> QED
      BY <3>1, <3>2
  <2>8. Known(view.infos, "lists")'
    <3>1. CASE view'.infos = Nothing
      BY <3>1 DEF Known
    <3>2. CASE view'.infos # Nothing
      <4>1. "lists" \in Cleared(c) /\ ~Done("lists", view') /\ view'.infos = view.infos
        BY <2>2, <2>3, <3>2 DEF Cleared, Done
      <4> QED
        BY <2>1, <2>4, <3>2, <4>1 DEF Known
    <3> QED
      BY <3>1, <3>2
  <2>9. view'.params = <<>> \/ Held(stack', Pending("lists"))
    <3> SUFFICES ASSUME view'.params # <<>>, ~Held(stack', Pending("lists"))
                 PROVE  FALSE
      OBVIOUS
    <3>1. "lists" \in Cleared(c) /\ ~Clears("lists") /\ view.params = view'.params
      BY <2>2, <2>3 DEF Cleared, Done, Clears
    <3>2. object = NULL /\ ~Held(stack, Pending("lists"))
      BY <3>1
    <3>3. \A i \in DOMAIN view.params : FALSE
      BY <3>2 DEF OInv, Shown
    <3>4. view.params \in Seq([seq : Nat, index : Nat, via : Nat])
      BY <3>1 DEF ViewType
    <3>5. ASSUME NEW T, NEW t \in Seq(T), t # <<>>
          PROVE  1 \in DOMAIN t
      BY <3>5
    <3>6. 1 \in DOMAIN view.params
      BY <3>1, <3>4, <3>5
    <3> QED
      BY <3>3, <3>6
  <2>10. \/ \A i \in DOMAIN view'.params : view'.params[i].via = object' /\ object' # NULL
         \/ Held(stack', Pending("lists"))
    BY <2>9
  <2> QED
    BY <2>3, <2>6, <2>7, <2>8, <2>10 DEF Shown
<1> QED
  BY <1>4, <1>5, <1>6, <1>7 DEF OInv

\* What the end of a session has left, when it begins with this step.
LEMMA EndingSound ==
  ASSUME NEW c, OInv(c), NEW first \in {"destroy", "reset"}, On(first)
  PROVE  /\ stack # <<>> /\ Head(stack).op = "rest" /\ Head(stack).mark \in At(first)
         /\ Head(stack).mark \notin Ending /\ NextSteps \in Seq(Steps)
         /\ Epilogue(c, NextSteps) /\ Origin \in Event /\ Origin.kind # "info"
         /\ Fits(c, Tail(stack)) /\ ~Held(Tail(stack), First)
         /\ \A M : Held(stack, M) <=> Head(stack).mark \in M \/ Held(Tail(stack), M)
<1>1. stack # <<>> /\ Head(stack).op = "rest" /\ Head(stack).mark.steps[1] = first
  BY DEF On, TopIs
<1>2. /\ Sound(c, Head(stack).mark) /\ Head(stack).mark \in RestMark
      /\ Fits(c, Tail(stack)) /\ ~Held(Tail(stack), First)
      /\ \A M : Held(stack, M) <=> Head(stack).mark \in M \/ Held(Tail(stack), M)
  BY <1>1, PopFits DEF OInv
<1> DEFINE s == Head(stack).mark.steps
<1>3. s \in Seq(Steps) \ {<<>>} /\ s[1] = first /\ Origin \in Event
  BY <1>1, <1>2 DEF RestMark, Origin
<1>4. 1 \in DOMAIN s /\ Tail(s) \in Seq(Steps)
  BY <1>3
<1>5. ~Ends(c, s) /\ s \notin Seq(Told(c))
  BY <1>3, <1>4 DEF Ends, Clearing, Told
<1> HIDE DEF s
<1>6. s \notin Openings
  BY <1>3 DEF Openings
<1>7. Epilogue(c, Tail(s)) /\ Origin.kind # "info"
  BY <1>2, <1>5, <1>6 DEF Sound, s, Origin
<1>8. Head(stack).mark \in At(first) /\ Head(stack).mark \notin Ending
  BY <1>1, <1>2 DEF At, Ending, Clearing
<1> QED
  BY <1>1, <1>2, <1>3, <1>4, <1>7, <1>8 DEF NextSteps, s

\* The proxies are gone: what follows of stop() or of the reset.
LEMMA GoneKeeps ==
  ASSUME NEW c, OInv(c), NEW first \in {"destroy", "reset"}, On(first),
         registry' = NULL, object' = NULL, alive' = {},
         Perform(NextSteps, Origin, Tail(stack)),
         generation' \in Nat, generation <= generation', ServerOK',
         UNCHANGED <<connected, connects, link, toServer, wire, lastReq, mainq, inLoop, late>>
  PROVE  OInv(c)'
<1> DEFINE s == NextSteps
           b == Tail(stack)
           mk == Head(stack).mark
<1>1. /\ mk \in At(first) /\ mk \notin Ending /\ s \in Seq(Steps) /\ Epilogue(c, s)
      /\ Origin \in Event /\ Origin.kind # "info" /\ Fits(c, b) /\ ~Held(b, First)
      /\ \A M : Held(stack, M) <=> mk \in M \/ Held(b, M)
  BY EndingSound
<1>2. Ends(c, s) /\ s # <<>> /\ s[1] = "unbind" /\ view \in ViewType
  BY <1>1 DEF Epilogue, OInv, WrapperOK
<1> HIDE DEF s, mk
<1>3. /\ view' \in ViewType /\ Less(view, view') /\ Fits(c, stack')
      /\ \A j \in DOMAIN s : Done(s[j], view') \/ Held(stack', Pending(s[j]))
      /\ Done(s[1], view')
      /\ \A M : Held(b, M) => Held(stack', M)
      /\ \A M : Held(stack', M) => Held(b, M) \/ M \cap Ending # {}
  <2>1. Perform(s, Origin, b)
    BY DEF s
  <2> HIDE DEF b
  <2> QED
    BY <1>1, <1>2, <2>1, PerformEnds
<1> HIDE DEF b
<1>4. ~view'.bound
  BY <1>2, <1>3 DEF Done
<1>5. \A x : Held(stack, Pending(x)) => Clears(x)
  BY <1>1, <1>3 DEF Pending, Clears
<1>6. \A x \in {"halt"} \cup Cleared(c) : Clears(x)
  <2>1. 1 \in DOMAIN s
    BY <1>1, <1>2
  <2>2. PICK j \in DOMAIN s : s[j] = "halt"
    BY <1>2, <2>1 DEF Ends, Later
  <2>3. \A x \in Cleared(c) : \E k \in DOMAIN s : s[k] = x
    BY <1>2, <2>2 DEF Ends, Later
  <2> QED
    BY <1>3, <2>2, <2>3 DEF Clears
<1>7. /\ Held(stack', At("reset")) => Held(stack, At("reset"))
      /\ Held(stack', At("open")) => Held(stack, At("open"))
  BY <1>1, <1>3 DEF At, Ending, Clearing
<1> QED
  BY <1>3, <1>4, <1>5, <1>6, <1>7, EndStepKeeps

LEMMA DestroyKeeps ==
  ASSUME NEW c, OInv(c), Destroy
  PROVE  OInv(c)'
<1>1. /\ On("destroy") /\ registry' = NULL /\ object' = NULL
      /\ Perform(NextSteps, Origin, Tail(stack))
      /\ UNCHANGED <<connected, connects, link, toServer, wire, lastReq, mainq, inLoop,
                     generation, late, exists, server, rev>>
      /\ IF connected
           THEN alive' = alive \ {registry, object} /\ subs' = subs \ {registry, object}
           ELSE UNCHANGED <<alive, subs>>
  BY DEF Destroy
<1>2. alive' = {}
  BY <1>1 DEF OInv, Owner
<1>3. generation' \in Nat /\ generation <= generation'
  BY <1>1 DEF OInv, WrapperOK
<1>4. ServerOK'
  BY <1>1 DEF OInv, ServerOK
<1> QED
  BY <1>1, <1>2, <1>3, <1>4, GoneKeeps

LEMMA ResetKeeps ==
  ASSUME NEW c, OInv(c), Reset
  PROVE  OInv(c)'
<1>1. /\ On("reset") /\ registry' = NULL /\ object' = NULL /\ generation' = generation + 1
      /\ Perform(NextSteps, Origin, Tail(stack))
      /\ UNCHANGED <<connected, connects, link, toServer, wire, lastReq, mainq, inLoop,
                     alive, late, serverVars>>
  BY DEF Reset
<1>2. alive' = {}
  <2>1. Held(stack, At("reset"))
    BY <1>1, EndingSound
  <2> QED
    BY <1>1, <2>1 DEF OInv, Owner
<1>3. generation' \in Nat /\ generation <= generation'
  BY <1>1 DEF OInv, WrapperOK
<1>4. ServerOK'
  BY <1>1, ServerKept DEF OInv
<1> QED
  BY <1>1, <1>2, <1>3, <1>4, GoneKeeps

\* The parts of an info are told: by the object of this session, by one that
\* is remembered to be late, or to a session whose end clears them.
LEMMA TellsKeep ==
  ASSUME NEW c, OInv(c), NEW p, view' \in ViewType, Retold(c, view, view', p), Fits(c, stack'),
         Kept(stack'), late \subseteq late', late' \subseteq Nat,
         \/ p = object /\ object # NULL
         \/ p \in late'
         \/ \A s \in Cleared(c) : Held(stack', Pending(s)),
         mainq' \in Seq(SourcesNow(c)),
         UNCHANGED <<connected, connects, link, toServer, wire, lastReq, inLoop, sessionVars,
                     serverVars>>
  PROVE  OInv(c)'
<1>1. /\ lastReq \in Nat /\ generation \in Nat /\ lastReq <= lastReq /\ generation <= generation
      /\ UNCHANGED <<registry, object, generation, alive>>
      /\ view'.running = view.running /\ view'.bound = view.bound /\ view'.params = view.params
  BY DEF OInv, ConnectionOK, WrapperOK, sessionVars, Retold
<1>2. running' = running /\ bound' = bound
  BY <1>1 DEF running, bound
<1>3. Held(stack, Pending("halt")) => Held(stack', Pending("halt"))
  BY DEF Kept
<1>4. /\ \A t : t \in Seq(RequestsNow(c)) => t \in Seq(RequestsNow(c)')
      /\ \A t : t \in Seq(MessagesNow(c)) => t \in Seq(MessagesNow(c)')
      /\ \A t : t \in Seq(SourcesNow(c)) => t \in Seq(SourcesNow(c)')
  BY <1>1, <1>2, <1>3, NowKept
<1>5. ConnectionOK(c)'
  BY <1>1, <1>4 DEF OInv, ConnectionOK
<1>6. WrapperOK'
  BY <1>1 DEF OInv, WrapperOK
<1>7. Owner'
  BY <1>1, <1>2 DEF OInv, Owner, Kept
<1>8. Shown(c)'
  <2>1. \A f, s : Known(f, s) => Known(f, s)'
    BY <1>1 DEF Known, Kept
  <2>2. \A f, s : s \in Cleared(c) /\ (f = Nothing \/ f.via = p) => Known(f, s)'
    BY <1>1 DEF Known
  <2>3. Known(view.state, "nostate") /\ Known(view.error, "noerror") /\ Known(view.infos, "lists")
    BY DEF OInv, Shown
  <2>4. Known(view.state, "nostate")'
    BY <2>1, <2>2, <2>3 DEF Retold, Cleared
  <2>5. Known(view.error, "noerror")'
    BY <2>1, <2>2, <2>3 DEF Retold, Cleared
  <2>6. Known(view.infos, "lists")'
    BY <2>1, <2>2, <2>3 DEF Retold, Cleared
  <2>7. /\ c = "device" => view'.state = Nothing /\ view'.error = Nothing
        /\ c = "link" => view'.infos = Nothing /\ view'.params = <<>>
    BY DEF OInv, Shown, Retold
  <2>8. \/ \A i \in DOMAIN view'.params : view'.params[i].via = object' /\ object' # NULL
        \/ Held(stack', Pending("lists"))
    BY <1>1 DEF OInv, Shown, Kept
  <2> QED
    BY <2>4, <2>5, <2>6, <2>7, <2>8 DEF Shown
<1> QED
  BY <1>5, <1>6, <1>7, <1>8, ServerKept DEF OInv

\* Where the session has still to halt, it has still to clear what it shows.
LEMMA HaltClears ==
  ASSUME NEW c, Fits(c, stack), Held(stack, Pending("halt"))
  PROVE  \A s \in Cleared(c) : Held(stack, Pending(s))
<1>1. PICK i \in DOMAIN stack : stack[i] \in RestOf(Pending("halt"))
  BY DEF Held, Has
<1>2. /\ stack[i] \in OFrame /\ stack[i].op = "rest" /\ stack[i].mark \in Pending("halt")
      /\ stack[i] \notin Unsound(c)
  BY <1>1 DEF RestOf, Fits, Has
<1> DEFINE m == stack[i].mark
<1>3. /\ m \in Ending /\ m \in RestMark /\ Sound(c, m) /\ m.steps[1] \in Clearing
      /\ \E k \in DOMAIN m.steps : m.steps[k] = "halt"
  BY <1>2 DEF Pending, Ending, Unsound
<1> HIDE DEF m
<1>4. m.steps \in Seq(Steps) /\ m.steps # <<>>
  BY <1>3 DEF RestMark
<1>5. m.steps \notin Openings
  BY <1>3 DEF Openings, Clearing
<1>6. m.steps \notin Seq(Told(c))
  <2>1. 1 \in DOMAIN m.steps
    BY <1>4
  <2> QED
    BY <1>3, <2>1 DEF Told, Clearing
<1>7. Ends(c, m.steps)
  BY <1>3, <1>5, <1>6 DEF Sound, Clearing
<1>8. ASSUME NEW s \in Cleared(c)
      PROVE  m \in Pending(s)
  BY <1>3, <1>7 DEF Ends, Later, Pending
<1> QED
  BY <1>2, <1>8 DEF Held, Has, RestOf, m

LEMMA ResumeKeeps ==
  ASSUME NEW c, OInv(c), Resume
  PROVE  OInv(c)'
<1> DEFINE mk == Head(stack).mark
           s == Head(stack).mark.steps
           b == Tail(stack)
<1>1. /\ Perform(s, Origin, b) /\ Origin = mk.e
      /\ late' = IF Origin.kind = "info" /\ Origin.of # object THEN late \cup {Origin.of} ELSE late
      /\ UNCHANGED <<connected, connects, link, toServer, wire, lastReq, mainq, inLoop,
                     sessionVars, serverVars>>
      /\ stack # <<>> /\ Head(stack).op = "rest"
      /\ s[1] \notin {"open", "roundtrip", "enum", "destroy", "reset"}
  BY DEF Resume, On, TopIs, Origin
<1>2. /\ Sound(c, mk) /\ mk \in RestMark /\ Fits(c, b) /\ ~Held(b, First)
      /\ \A M : Held(stack, M) <=> mk \in M \/ Held(b, M)
  BY <1>1, PopFits DEF OInv
<1>3. s \in Seq(Steps) /\ s # <<>> /\ Origin \in Event /\ 1 \in DOMAIN s /\ view \in ViewType
  BY <1>1, <1>2 DEF RestMark, OInv, WrapperOK
<1>4. /\ UNCHANGED <<registry, object, generation, alive>>
      /\ generation \in Nat /\ generation <= generation /\ mainq \in Seq(SourcesNow(c))
  BY <1>1 DEF sessionVars, OInv, WrapperOK, ConnectionOK
<1>5. s \notin Openings
  BY <1>1 DEF Openings
<1>6. \/ Ends(c, s) /\ Origin.kind # "info"
      \/ s \in Seq(Told(c)) /\ Origin.kind = "info" /\ Origin.of # NULL
  BY <1>1, <1>2, <1>5 DEF Sound
<1> HIDE DEF b
<1>7. CASE Ends(c, s) /\ Origin.kind # "info"
  <2>1. s[1] \in Clearing /\ mk \in Ending
    BY <1>2, <1>3, <1>7 DEF Ends, Ending
  <2>2. mk \notin At("reset") /\ mk \notin At("open") /\ \A x : mk \in Pending(x) => \E j \in DOMAIN s : s[j] = x
    BY <2>1 DEF At, Pending, Clearing
  <2> HIDE DEF s, mk
  <2>3. /\ view' \in ViewType /\ Less(view, view') /\ Fits(c, stack')
        /\ \A j \in DOMAIN s : Done(s[j], view') \/ Held(stack', Pending(s[j]))
        /\ \A M : Held(b, M) => Held(stack', M)
        /\ \A M : Held(stack', M) => Held(b, M) \/ M \cap Ending # {}
    BY <1>1, <1>2, <1>3, <1>7, PerformEnds
  <2>4. Held(stack, Ending)
    BY <1>2, <2>1
  <2>5. registry = NULL /\ object = NULL /\ ~bound /\ alive = {}
    BY <2>4 DEF OInv, Owner
  <2>6. ~view'.bound
    BY <2>3, <2>5 DEF Less, bound
  <2>7. \A x : Held(stack, Pending(x)) => Clears(x)
    BY <1>2, <2>2, <2>3 DEF Clears
  <2>8. /\ Held(stack', At("reset")) => Held(stack, At("reset"))
        /\ Held(stack', At("open")) => Held(stack, At("open"))
    BY <1>2, <2>3 DEF At, Ending, Clearing
  <2>9. registry' = NULL /\ object' = NULL /\ alive' = {} /\ generation' \in Nat /\ generation <= generation'
    BY <1>4, <2>5
  <2>10. UNCHANGED late /\ ServerOK'
    BY <1>1, <1>7, ServerKept DEF OInv
  <2> QED
    BY <1>1, <2>3, <2>5, <2>6, <2>7, <2>8, <2>9, <2>10, EndStepKeeps
<1>8. CASE s \in Seq(Told(c)) /\ Origin.kind = "info" /\ Origin.of # NULL
  <2>1. s[1] \in {"state", "error", "infos"}
    <3>1. s[1] \in Told(c)
      BY <1>3, <1>8
    <3> QED
      BY <3>1 DEF Told
  <2>2. mk \notin At("reset") /\ mk \notin At("open") /\ mk \notin Ending /\ \A x : mk \notin Pending(x)
    BY <2>1 DEF At, Pending, Ending, Clearing
  <2> HIDE DEF s, mk
  <2>3. /\ view' \in ViewType /\ Retold(c, view, view', Origin.of) /\ Fits(c, stack')
        /\ \A M : Held(b, M) => Held(stack', M)
        /\ \A M : Held(stack', M) => Held(b, M) \/ M \cap Telling # {}
    BY <1>1, <1>2, <1>3, <1>8, PerformTells
  <2>4. Kept(stack')
    <3>1. At("reset") \cap Telling = {} /\ At("open") \cap Telling = {} /\ Ending \cap Telling = {}
      BY DEF At, Telling, Ending, Clearing
    <3> QED
      BY <1>2, <2>2, <2>3, <3>1 DEF Kept
  <2>5. Origin.of \in Nat
    BY <1>3 DEF Event
  <2>6. late \subseteq late' /\ late' \subseteq Nat
    BY <1>1, <2>5 DEF OInv, WrapperOK
  <2>7. (Origin.of = object /\ object # NULL) \/ Origin.of \in late'
    BY <1>1, <1>8
  <2>8. mainq' \in Seq(SourcesNow(c))
    BY <1>1, <1>4
  <2> QED
    BY <1>1, <2>3, <2>4, <2>6, <2>7, <2>8, TellsKeep
<1> QED
  BY <1>6, <1>7, <1>8

\* The connection goes, and with it every proxy.
LEMMA DisconnectedKeeps ==
  ASSUME NEW c, OInv(c), connected' = FALSE, link' = FALSE, toServer' = <<>>, wire' = <<>>,
         connects' = connects, alive' = {}, subs' = {},
         UNCHANGED <<lastReq, mainq, inLoop, view, registry, object, generation, late,
                     exists, server, rev>>,
         Fits(c, stack'),
         Held(stack', At("open")) => Held(stack, At("open")),
         Held(stack', Ending) => Held(stack, Ending),
         \A s : Held(stack, Pending(s)) => Held(stack', Pending(s))
  PROVE  OInv(c)'
<1>1. /\ lastReq \in Nat /\ generation \in Nat /\ lastReq' \in Nat /\ generation' \in Nat
      /\ lastReq <= lastReq' /\ generation <= generation' /\ running' = running /\ bound' = bound
  BY DEF OInv, ConnectionOK, WrapperOK, running, bound
<1>2. \A t : t \in Seq(SourcesNow(c)) => t \in Seq(SourcesNow(c)')
  BY <1>1, NowKept
<1>3. ConnectionOK(c)'
  <2>1. toServer' \in Seq(RequestsNow(c)') /\ wire' \in Seq(MessagesNow(c)')
    OBVIOUS
  <2>2. connected' \in BOOLEAN /\ link' \in BOOLEAN
    OBVIOUS
  <2> QED
    BY <1>1, <1>2, <2>1, <2>2 DEF OInv, ConnectionOK
<1>4. WrapperOK' /\ ServerOK'
  BY DEF OInv, WrapperOK, ServerOK
<1>5. Owner'
  BY <1>1 DEF OInv, Owner
<1>6. Shown(c)'
  <2>1. \A f, x : Known(f, x) => Known(f, x)'
    BY DEF Known
  <2>2. Known(view.state, "nostate")' /\ Known(view.error, "noerror")' /\ Known(view.infos, "lists")'
    BY <2>1 DEF OInv, Shown
  <2> QED
    BY <2>2 DEF OInv, Shown
<1> QED
  BY <1>3, <1>4, <1>5, <1>6 DEF OInv

LEMMA DisconnectCoreKeeps ==
  ASSUME NEW c, OInv(c), NEW epilogue \in Seq(Steps), Epilogue(c, epilogue),
         DisconnectCore(epilogue)
  PROVE  OInv(c)'
<1> DEFINE s == <<"reset">> \o epilogue
           r == Todo(s, NoEvent)
           m == [steps |-> s, e |-> NoEvent]
<1>1. /\ connected' = FALSE /\ link' = FALSE /\ toServer' = <<>> /\ wire' = <<>>
      /\ connects' = connects /\ alive' = {} /\ subs' = {}
      /\ stack' = IF Emitting THEN stack ELSE <<r, Notify>> \o stack
      /\ UNCHANGED <<lastReq, mainq, inLoop, view, registry, object, generation, late,
                     exists, server, rev>>
  BY DEF DisconnectCore, DisconnectFor, Disconnected
<1>2. Fits(c, stack) /\ ~Held(stack, First) /\ NoEvent \in Event /\ NoEvent.kind # "info"
  BY MayCallFits, NoEventType DEF DisconnectCore, DisconnectFor
<1>3. CASE Emitting
  <2>1. stack' = stack
    BY <1>1, <1>3
  <2> QED
    BY <1>1, <1>2, <2>1, DisconnectedKeeps
<1>4. CASE ~Emitting
  <2>1. r \in OFrame
    <3>1. s \in Seq(Steps) /\ s # <<>>
      BY Pushed, "reset" \in Steps DEF Steps
    <3> HIDE DEF s
    <3> QED
      BY <1>2, <3>1, TodoFrame
  <2> HIDE DEF r, m
  <2> DEFINE st == <<Notify>> \o stack
  <2>2. stack' = <<r>> \o st
    BY <1>1, <1>2, <1>4, <2>1, NotifyFrame, TwoPushed DEF Fits
  <2>3. Fits(c, st) /\ \A M : Held(st, M) <=> Held(stack, M)
    BY <1>2, NotifyFrame, PushOther
  <2> HIDE DEF st
  <2>4. /\ Fits(c, stack') /\ m \in At("reset") /\ m \notin Ending \cup At("open")
        /\ \A M : Held(stack', M) <=> m \in M \/ Held(stack, M)
    <3>1. ~Held(st, First)
      BY <1>2, <2>3
    <3> QED
      BY <1>2, <2>2, <2>3, <3>1, EndFits DEF r, m
  <2>5. \A x : m \notin Pending(x)
    BY <2>4 DEF Pending
  <2> QED
    BY <1>1, <2>4, <2>5, DisconnectedKeeps
<1> QED
  BY <1>3, <1>4

\* An emission that starts over: the same reset, above its handlers.
LEMMA RestartKeeps ==
  ASSUME NEW c, OInv(c), NEW epilogue \in Seq(Steps), Epilogue(c, epilogue), Restart(epilogue)
  PROVE  OInv(c)'
<1> DEFINE r == Todo(<<"reset">> \o epilogue, NoEvent)
           m == [steps |-> <<"reset">> \o epilogue, e |-> NoEvent]
<1>1. /\ TopIs("notify") /\ ~connected /\ stack' = <<r>> \o stack
      /\ UNCHANGED <<connected, connects, link, toServer, wire, lastReq, mainq, inLoop,
                     wrapperVars, serverVars>>
  BY DEF Restart, RestartFor, Owed, Push
<1>2. Fits(c, stack) /\ ~Held(stack, First) /\ NoEvent \in Event /\ NoEvent.kind # "info"
  BY <1>1, NoFirst, NoEventType DEF OInv, On, TopIs
<1>3. /\ Fits(c, stack') /\ m \in At("reset") /\ m \notin Ending \cup At("open")
      /\ \A M : Held(stack', M) <=> m \in M \/ Held(stack, M)
  BY <1>1, <1>2, EndFits
<1> HIDE DEF r, m
<1>4. UNCHANGED <<view, registry, object, generation, alive, late>>
  BY <1>1 DEF wrapperVars, sessionVars
<1>5. running' = running /\ bound' = bound
  BY <1>4 DEF running, bound
<1>6. /\ lastReq \in Nat /\ generation \in Nat /\ lastReq <= lastReq /\ generation <= generation
  BY DEF OInv, ConnectionOK, WrapperOK
<1>7. /\ \A t : t \in Seq(RequestsNow(c)) => t \in Seq(RequestsNow(c)')
      /\ \A t : t \in Seq(MessagesNow(c)) => t \in Seq(MessagesNow(c)')
      /\ \A t : t \in Seq(SourcesNow(c)) => t \in Seq(SourcesNow(c)')
  BY <1>1, <1>3, <1>4, <1>5, <1>6, NowKept
<1>8. ConnectionOK(c)'
  BY <1>1, <1>7 DEF OInv, ConnectionOK
<1>9. WrapperOK' /\ ServerOK'
  BY <1>1, <1>4, ServerKept DEF OInv, WrapperOK
<1>10. Owner'
  BY <1>1, <1>3, <1>4, <1>5 DEF OInv, Owner
<1>11. Shown(c)'
  <2>1. \A f, x : Known(f, x) => Known(f, x)'
    BY <1>3, <1>4 DEF Known
  <2>2. Known(view.state, "nostate")' /\ Known(view.error, "noerror")' /\ Known(view.infos, "lists")'
    BY <1>4, <2>1 DEF OInv, Shown
  <2> QED
    BY <1>3, <1>4, <2>2 DEF OInv, Shown
<1> QED
  BY <1>3, <1>8, <1>9, <1>10, <1>11 DEF OInv

-----------------------------------------------------------------------------
(* From the loop thread to the main context.                               *)

\* What the loop thread queues: a message to a proxy of this session.
LEMMA OnMessageKeeps ==
  ASSUME NEW c, OInv(c), NEW wanted, OnMessage(wanted)
  PROVE  OInv(c)'
<1> DEFINE m == Head(wire)
           q == [kind |-> m.kind, gen |-> generation, m |-> m]
<1>1. /\ wire \in Seq(MessagesNow(c)) /\ wire # <<>> /\ wire' = Tail(wire)
      /\ m.kind \in {"info", "param", "gone"} /\ mainq \in Seq(SourcesNow(c))
      /\ mainq' = IF m.to \in alive /\ wanted THEN Append(mainq, q) ELSE mainq
      /\ UNCHANGED <<connected, connects, link, toServer, lastReq, stack, inLoop,
                     wrapperVars, serverVars>>
  BY DEF OnMessage, Reads, OInv, ConnectionOK
<1>2. m \in MessagesNow(c) /\ wire' \in Seq(MessagesNow(c))
  BY <1>1
<1>3. m \in Message /\ Addressed(c, m.kind, m.to)
  BY <1>1, <1>2 DEF MessagesNow, CoreMessages
<1> HIDE DEF m
<1>4. m.to \in alive => q \in SourcesNow(c)
  <2> SUFFICES ASSUME m.to \in alive
               PROVE  q \in SourcesNow(c)
    OBVIOUS
  <2>1. m.to # NULL /\ m.to \in {registry, object} /\ generation \in Nat
    BY DEF OInv, Owner, WrapperOK
  <2>2. m.kind # "gone" => m.to = object
    BY <1>1, <1>3, <2>1 DEF Addressed, About
  <2>3. m.kind = "param" => c # "link"
    BY <1>3 DEF Addressed, About
  <2>4. Fresh(c, q)
    BY <2>1, <2>2, <2>3 DEF Fresh
  <2> QED
    BY <1>1, <1>3, <2>1, <2>4 DEF SourcesNow
<1> HIDE DEF q
<1>5. mainq' \in Seq(SourcesNow(c))
  BY <1>1, <1>4
<1>6. UNCHANGED <<running, object, registry, generation>>
  BY <1>1 DEF wrapperVars, sessionVars, running
<1>7. mainq' \in Seq(SourcesNow(c)') /\ wire' \in Seq(MessagesNow(c)')
  <2>1. /\ lastReq \in Nat /\ lastReq' = lastReq /\ lastReq <= lastReq'
        /\ generation \in Nat /\ generation' = generation /\ generation <= generation'
        /\ registry' = registry /\ object' = object /\ running' = running /\ stack' = stack
    BY <1>1, <1>6 DEF OInv, ConnectionOK, WrapperOK
  <2>2. /\ \A t : t \in Seq(MessagesNow(c)) => t \in Seq(MessagesNow(c)')
        /\ \A t : t \in Seq(SourcesNow(c)) => t \in Seq(SourcesNow(c)')
    BY <2>1, NowKept
  <2> QED
    BY <1>2, <1>5, <2>2
<1>8. Fits(c, stack') /\ Kept(stack') /\ lastReq' \in Nat /\ lastReq <= lastReq'
  BY <1>1 DEF OInv, ConnectionOK, Kept
<1>9. /\ UNCHANGED <<connected, connects, link, inLoop, sessionVars, late, serverVars>>
      /\ view' = view /\ toServer' = toServer
  BY <1>1 DEF wrapperVars
<1> QED
  BY <1>7, <1>8, <1>9, QuietKeeps

\* A parameter of the object of this session, or one that its end clears.
LEMMA AppendKeeps ==
  ASSUME NEW c, OInv(c), c # "link", NEW x \in [seq : Nat, index : Nat, via : Nat], x.via # NULL,
         view' = [view EXCEPT !.params = Append(@, x)], view' \in ViewType,
         Fits(c, stack'), Kept(stack'),
         x.via = object \/ Held(stack', Pending("lists")),
         mainq' \in Seq(SourcesNow(c)),
         UNCHANGED <<connected, connects, link, toServer, wire, lastReq, inLoop, sessionVars, late,
                     serverVars>>
  PROVE  OInv(c)'
<1>1. /\ lastReq \in Nat /\ generation \in Nat /\ lastReq <= lastReq /\ generation <= generation
      /\ UNCHANGED <<registry, object, generation, alive>> /\ view \in ViewType
      /\ view.params \in Seq([seq : Nat, index : Nat, via : Nat])
  <2>1. view \in ViewType
    BY DEF OInv, WrapperOK
  <2>2. view.params \in Seq([seq : Nat, index : Nat, via : Nat])
    BY <2>1 DEF ViewType
  <2> QED
    BY <2>1, <2>2 DEF OInv, ConnectionOK, WrapperOK, sessionVars
<1>2. /\ view'.running = view.running /\ view'.bound = view.bound
      /\ view'.state = view.state /\ view'.error = view.error /\ view'.infos = view.infos
      /\ view'.params = Append(view.params, x)
  <2> DEFINE p == Append(view.params, x)
  <2>1. view' = [view EXCEPT !.params = p]
    OBVIOUS
  <2> HIDE DEF p
  <2>2. view'.params = p
    BY <1>1, <2>1 DEF ViewType
  <2> QED
    BY <1>1, <2>1, <2>2 DEF ViewType, p
<1>3. running' = running /\ bound' = bound
  BY <1>2 DEF running, bound
<1>4. Held(stack, Pending("halt")) => Held(stack', Pending("halt"))
  BY DEF Kept
<1>5. /\ \A t : t \in Seq(RequestsNow(c)) => t \in Seq(RequestsNow(c)')
      /\ \A t : t \in Seq(MessagesNow(c)) => t \in Seq(MessagesNow(c)')
      /\ \A t : t \in Seq(SourcesNow(c)) => t \in Seq(SourcesNow(c)')
  BY <1>1, <1>3, <1>4, NowKept
<1>6. ConnectionOK(c)'
  BY <1>1, <1>5 DEF OInv, ConnectionOK
<1>7. WrapperOK'
  BY <1>1 DEF OInv, WrapperOK
<1>8. Owner'
  BY <1>1, <1>3 DEF OInv, Owner, Kept
<1>9. Shown(c)'
  <2>1. \A f, s : Known(f, s) => Known(f, s)'
    BY <1>1 DEF Known, Kept
  <2>2. Known(view.state, "nostate")' /\ Known(view.error, "noerror")' /\ Known(view.infos, "lists")'
    BY <1>2, <2>1 DEF OInv, Shown
  <2>3. /\ c = "device" => view'.state = Nothing /\ view'.error = Nothing
        /\ c = "link" => view'.infos = Nothing /\ view'.params = <<>>
    BY <1>2 DEF OInv, Shown
  <2>4. \/ \A i \in DOMAIN view'.params : view'.params[i].via = object' /\ object' # NULL
        \/ Held(stack', Pending("lists"))
    <3>1. CASE Held(stack', Pending("lists"))
      BY <3>1
    <3>2. CASE ~Held(stack', Pending("lists"))
      <4>1. x.via = object /\ \A i \in DOMAIN view.params : view.params[i].via = object
        BY <3>2 DEF OInv, Shown, Kept
      <4>2. \A i \in DOMAIN view'.params :
              (i \in DOMAIN view.params /\ view'.params[i] = view.params[i]) \/ view'.params[i] = x
        <5> DEFINE T == [seq : Nat, index : Nat, via : Nat]
        <5>1. view.params \in Seq(T) /\ x \in T
          BY <1>1
        <5> HIDE DEF T
        <5> QED
          BY <1>2, <5>1
      <4> QED
        BY <1>1, <4>1, <4>2
    <3> QED
      BY <3>1, <3>2
  <2> QED
    BY <2>2, <2>3, <2>4 DEF Shown
<1> QED
  BY <1>6, <1>7, <1>8, <1>9, ServerKept DEF OInv

LEMMA DispatchKeeps ==
  ASSUME NEW c, OInv(c), NEW epilogue \in Seq(Steps), Epilogue(c, epilogue), NEW parts,
         Head(mainq).kind = "info" => parts \in Seq(Told(c)), Dispatch(parts, epilogue)
  PROVE  OInv(c)'
<1> DEFINE q == Head(mainq)
           m == q.m
           e == [kind |-> q.kind, gen |-> q.gen, of |-> m.to, server |-> m.server,
                 seq |-> m.seq, index |-> m.index]
<1>1. /\ mainq # <<>> /\ q.kind \in {"info", "param", "gone"} /\ mainq' = Tail(mainq)
      /\ Iterating
      /\ UNCHANGED <<connected, connects, link, toServer, wire, lastReq, inLoop, serverVars>>
      /\ \/ ~Current(q) /\ UNCHANGED <<stack, wrapperVars>>
         \/ /\ Current(q) /\ q.kind # "gone"
            /\ Perform(IF q.kind = "info" THEN parts ELSE <<"append">>, e, stack)
            /\ UNCHANGED <<sessionVars, late>>
         \/ Current(q) /\ q.kind = "gone" /\ EndSession(epilogue, e)
  BY DEF Dispatch, Takes
<1>2. mainq \in Seq(SourcesNow(c))
  BY DEF OInv, ConnectionOK
<1>3. q \in SourcesNow(c) /\ mainq' \in Seq(SourcesNow(c))
  BY <1>1, <1>2
<1>4. q.gen \in Nat /\ m \in Message /\ Fresh(c, q)
  BY <1>1, <1>3 DEF SourcesNow, CoreSources
<1>5. e \in Event /\ e.kind = q.kind /\ e.of = m.to /\ m.to # NULL /\ m.to \in Nat
  BY <1>1, <1>4 DEF Event, Message, Fresh
<1>6. ~Held(stack, First) /\ Fits(c, stack) /\ view \in ViewType
  <2>1. ~On("destroy") /\ ~On("reset")
    BY <1>1 DEF Iterating, On, TopIs
  <2> QED
    BY <2>1, NoFirst DEF OInv, WrapperOK
<1> HIDE DEF e, m, q
<1>7. CASE ~Current(q) /\ UNCHANGED <<stack, wrapperVars>>
  <2>1. /\ UNCHANGED <<registry, object, generation, alive, late, view, running>>
        /\ lastReq \in Nat /\ lastReq' = lastReq /\ lastReq <= lastReq' /\ stack' = stack
        /\ generation \in Nat /\ generation <= generation' /\ generation' = generation
    BY <1>1, <1>7 DEF wrapperVars, sessionVars, running, OInv, ConnectionOK, WrapperOK
  <2>2. \A t : t \in Seq(SourcesNow(c)) => t \in Seq(SourcesNow(c)')
    BY <2>1, NowKept
  <2>3. mainq' \in Seq(SourcesNow(c)')
    BY <1>3, <2>2
  <2>4. Fits(c, stack') /\ Kept(stack') /\ UNCHANGED <<sessionVars, late>> /\ lastReq' \in Nat
    BY <1>6, <2>1 DEF Kept, sessionVars
  <2> QED
    BY <1>1, <2>1, <2>3, <2>4, QuietKeeps
<1>8. ASSUME Current(q), q.kind # "gone"
      PROVE  m.to = object \/ \A s \in Cleared(c) : Held(stack, Pending(s))
  <2>1. m.to = object \/ Held(stack, Pending("halt"))
    BY <1>4, <1>8 DEF Fresh, m
  <2> QED
    BY <1>6, <2>1, HaltClears
<1>9. CASE /\ Current(q) /\ q.kind = "info" /\ Perform(parts, e, stack)
           /\ UNCHANGED <<sessionVars, late>>
  <2>1. parts \in Seq(Told(c)) /\ e.kind = "info" /\ e.of # NULL
    BY <1>5, <1>9 DEF q
  <2>2. /\ view' \in ViewType /\ Retold(c, view, view', e.of) /\ Fits(c, stack')
        /\ \A M : Held(stack, M) => Held(stack', M)
        /\ \A M : Held(stack', M) => Held(stack, M) \/ M \cap Telling # {}
    BY <1>5, <1>6, <1>9, <2>1, PerformTells
  <2>3. Kept(stack')
    <3>1. At("reset") \cap Telling = {} /\ At("open") \cap Telling = {} /\ Ending \cap Telling = {}
      BY DEF At, Telling, Ending, Clearing
    <3> QED
      BY <2>2, <3>1 DEF Kept
  <2>4. \/ e.of = object /\ object # NULL
        \/ \A s \in Cleared(c) : Held(stack', Pending(s))
    BY <1>5, <1>8, <1>9, <2>2
  <2>5. late' = late /\ late \subseteq Nat
    BY <1>9 DEF OInv, WrapperOK
  <2> QED
    BY <1>1, <1>3, <1>9, <2>2, <2>3, <2>4, <2>5, TellsKeep
<1>10. CASE /\ Current(q) /\ q.kind = "param" /\ Perform(<<"append">>, e, stack)
            /\ UNCHANGED <<sessionVars, late>>
  <2> DEFINE x == [seq |-> e.seq, index |-> e.index, via |-> e.of]
  <2>1. /\ view' = [view EXCEPT !.params = Append(@, x)]
        /\ view' \in ViewType /\ Fits(c, stack')
        /\ \A M : Held(stack', M) <=> Held(stack, M)
    BY <1>5, <1>6, <1>10, PerformAppend
  <2>2. Kept(stack')
    BY <2>1 DEF Kept
  <2>3. c # "link"
    BY <1>4, <1>10 DEF Fresh
  <2>4. x \in [seq : Nat, index : Nat, via : Nat] /\ x.via = m.to
    BY <1>5 DEF Event
  <2>5. m.to = object \/ Held(stack', Pending("lists"))
    BY <1>8, <1>10, <2>1, <2>3 DEF Cleared
  <2> HIDE DEF x
  <2> QED
    BY <1>1, <1>3, <1>5, <1>10, <2>1, <2>2, <2>3, <2>4, <2>5, AppendKeeps
<1>11. CASE Current(q) /\ q.kind = "gone" /\ EndSession(epilogue, e)
  <2>1. e.kind # "info"
    BY <1>5, <1>11
  <2> QED
    BY <1>1, <1>3, <1>5, <1>6, <1>11, <2>1, EndSessionKeeps
<1> QED
  BY <1>1, <1>7, <1>9, <1>10, <1>11 DEF e

-----------------------------------------------------------------------------
(* The server.                                                             *)

\* Nothing that the server does touches the wrapper.
LEMMA ServerStepKeeps ==
  ASSUME NEW c, OInv(c), toServer' \in Seq(RequestsNow(c)), wire' \in Seq(MessagesNow(c)), ServerOK',
         UNCHANGED <<connected, connects, link, lastReq, mainq, stack, inLoop, wrapperVars>>
  PROVE  OInv(c)'
<1>1. /\ UNCHANGED <<connected, lastReq, stack, view, sessionVars, late>>
      /\ lastReq \in Nat /\ lastReq <= lastReq' /\ lastReq' \in Nat /\ Kept(stack')
  BY DEF wrapperVars, OInv, ConnectionOK, Kept
<1>2. /\ WrapperOK' /\ Owner' /\ Shown(c)'
      /\ \A s : s \in Seq(RequestsNow(c)) => s \in Seq(RequestsNow(c)')
      /\ \A s : s \in Seq(MessagesNow(c)) => s \in Seq(MessagesNow(c)')
      /\ \A s : s \in Seq(SourcesNow(c)) => s \in Seq(SourcesNow(c)')
  BY <1>1, WrapperKept DEF OInv
<1>3. ConnectionOK(c)'
  BY <1>2 DEF OInv, ConnectionOK
<1> QED
  BY <1>1, <1>2, <1>3 DEF OInv

\* The oldest request on the socket, one of a wrapper's.
LEMMA ServesTypes ==
  ASSUME NEW c, OInv(c), NEW kinds, kinds \subseteq {"registry", "object", "enum", "ask"}, Serves(kinds)
  PROVE  /\ toServer' \in Seq(RequestsNow(c)) /\ Head(toServer).kind \in kinds
         /\ Head(toServer).n \in Nat /\ Head(toServer).p \in Nat /\ Head(toServer).num \in Nat
         /\ Addressed(c, Head(toServer).kind,
                      IF Head(toServer).kind \in {"registry", "object"}
                        THEN Head(toServer).n ELSE Head(toServer).p)
<1> DEFINE r == Head(toServer)
<1>1. /\ toServer \in Seq(RequestsNow(c)) /\ toServer # <<>> /\ toServer' = Tail(toServer)
      /\ r.kind \in kinds
  BY DEF Serves, OInv, ConnectionOK
<1>2. toServer' \in Seq(RequestsNow(c)) /\ r \in RequestsNow(c)
  BY <1>1
<1> HIDE DEF r
<1>3. /\ r \in [kind : {"registry", "object", "enum", "ask"}, n : Nat, p : Nat, num : Nat]
      /\ Addressed(c, r.kind, IF r.kind \in {"registry", "object"} THEN r.n ELSE r.p)
  BY <1>1, <1>2 DEF RequestsNow, CoreRequests
<1> QED
  BY <1>1, <1>2, <1>3 DEF r

LEMMA InfoNow ==
  ASSUME NEW c, NEW p \in Nat, Addressed(c, "info", p), NEW mask \in SUBSET {"state", "params"},
         NEW of \in Value
  PROVE  Info(p, mask, of) \in MessagesNow(c)
<1> DEFINE m == Info(p, mask, of)
<1>1. m \in Message /\ m.kind = "info" /\ m.to = p
  BY DEF Info, Tell, Message, Own, Other, Unasked
<1> HIDE DEF m
<1> QED
  BY <1>1 DEF MessagesNow, m

LEMMA ServeBindKeeps ==
  ASSUME NEW c, OInv(c), ServeBind
  PROVE  OInv(c)'
<1> DEFINE p == Head(toServer).n
           kind == Head(toServer).kind
           w == Info(p, {"state", "params"}, server)
<1>1. /\ toServer' \in Seq(RequestsNow(c)) /\ kind \in {"registry", "object"} /\ p \in Nat
      /\ Addressed(c, kind, p)
  BY ServesTypes DEF ServeBind
<1>2. /\ UNCHANGED <<connected, connects, link, lastReq, mainq, stack, inLoop, wrapperVars, exists,
                     server, rev>>
      /\ \/ /\ subs' = subs \cup {p}
            /\ wire' = wire \o (IF kind = "object" THEN <<w>> ELSE <<>>)
         \/ UNCHANGED <<subs, wire>>
  BY DEF ServeBind, Announces
<1>3. p # NULL
  BY <1>1 DEF Addressed, About
<1>4. ServerOK'
  BY <1>1, <1>2, <1>3 DEF OInv, ServerOK
<1>5. kind = "object" => w \in MessagesNow(c)
  <2>1. kind = "object" => Addressed(c, "info", p)
    BY <1>1 DEF Addressed, About
  <2>2. server \in Value
    BY DEF OInv, ServerOK
  <2> QED
    BY <1>1, <2>1, <2>2, InfoNow
<1>6. wire \in Seq(MessagesNow(c))
  BY DEF OInv, ConnectionOK
<1> HIDE DEF w, kind, p
<1>7. wire' \in Seq(MessagesNow(c))
  <2>1. CASE kind = "object"
    <3>1. <<w>> \in Seq(MessagesNow(c))
      BY <1>5, <2>1
    <3>2. wire' = wire \o <<w>> \/ wire' = wire
      BY <1>2, <2>1
    <3> QED
      BY <1>6, <3>1, <3>2
  <2>2. CASE kind # "object"
    <3>1. wire' = wire \o <<>> \/ wire' = wire
      BY <1>2, <2>2
    <3> QED
      BY <1>6, <3>1
  <2> QED
    BY <2>1, <2>2
<1> QED
  BY <1>1, <1>2, <1>4, <1>7, ServerStepKeeps

LEMMA ParamNow ==
  ASSUME NEW c, NEW p \in Nat, Addressed(c, "param", p), NEW seq \in Nat, NEW index \in Nat
  PROVE  [Tell("param", p) EXCEPT !.seq = seq, !.index = index] \in MessagesNow(c)
<1> DEFINE t == Tell("param", p)
           u == [t EXCEPT !.seq = seq]
           m == [u EXCEPT !.index = index]
<1>1. t \in Message /\ t.kind = "param" /\ t.to = p
  <2>1. Untold \in Value
    BY DEF Untold, Value, NULL
  <2> QED
    BY <2>1 DEF Tell, Message, Unasked
<1> HIDE DEF t
<1>2. u \in Message /\ u.kind = "param" /\ u.to = p
  BY <1>1 DEF Message
<1> HIDE DEF u
<1>3. m \in Message /\ m.kind = "param" /\ m.to = p
  BY <1>2 DEF Message
<1> HIDE DEF m
<1>4. m \in MessagesNow(c)
  BY <1>3 DEF MessagesNow
<1> QED
  BY <1>4, Zenon DEF t, u, m

LEMMA ServeParamsKeeps ==
  ASSUME NEW c, OInv(c), ServeParams
  PROVE  OInv(c)'
<1> DEFINE r == Head(toServer)
           seq == IF r.kind = "enum" THEN r.n ELSE Unasked
           told == [i \in 1..r.num |-> [Tell("param", r.p) EXCEPT !.seq = seq, !.index = i]]
<1>1. /\ toServer' \in Seq(RequestsNow(c)) /\ r.kind \in {"enum", "ask"}
      /\ r.n \in Nat /\ r.p \in Nat /\ r.num \in Nat /\ Addressed(c, r.kind, r.p)
  <2>1. Serves({"enum", "ask"})
    BY Zenon DEF ServeParams
  <2> HIDE DEF told, seq
  <2> QED
    BY <2>1, ServesTypes
<1>2. /\ UNCHANGED <<connected, connects, link, lastReq, mainq, stack, inLoop, wrapperVars, serverVars>>
      /\ wire' = wire \o told \/ wire' = wire
  BY Zenon DEF ServeParams, Announces
<1> HIDE DEF r
<1>3. seq \in Nat /\ Addressed(c, "param", r.p)
  <2> HIDE DEF told
  <2> QED
    BY <1>1 DEF Unasked, Addressed, About
<1> HIDE DEF seq
<1>4. told \in Seq(MessagesNow(c))
  <2> DEFINE tell(i) == [Tell("param", r.p) EXCEPT !.seq = seq, !.index = i]
  <2>1. \A i \in 1..r.num : i \in Nat
    BY <1>1
  <2>2. \A i \in Nat : tell(i) \in MessagesNow(c)
    BY <1>1, <1>3, ParamNow, Zenon
  <2>3. told = [i \in 1..r.num |-> tell(i)]
    BY Zenon
  <2> HIDE DEF tell, told
  <2> QED
    BY <1>1, <2>1, <2>2, <2>3
<1> HIDE DEF told
<1>5. wire' \in Seq(MessagesNow(c))
  <2>1. wire \in Seq(MessagesNow(c))
    BY DEF OInv, ConnectionOK
  <2>2. wire \o told \in Seq(MessagesNow(c))
    BY <1>4, <2>1
  <2>3. wire' = wire \o told \/ wire' = wire
    BY <1>2
  <2> QED
    BY <2>1, <2>2, <2>3, Zenon
<1>6. ServerOK'
  BY <1>2, ServerKept DEF OInv
<1> QED
  BY <1>1, <1>2, <1>5, <1>6, ServerStepKeeps

LEMMA ServerChangesKeeps ==
  ASSUME NEW c, OInv(c), NEW mask \in Masks, ServerChanges(mask)
  PROVE  OInv(c)'
<1> DEFINE w == Info(object, mask, server')
<1>1. /\ object \in subs /\ wire' = wire \o <<w>> /\ rev' = rev + 1
      /\ server' =
           [state |-> IF "state" \in mask THEN rev + 1 ELSE server.state,
            error |-> IF "state" \notin mask THEN server.error
                      ELSE IF rev % 2 = 1 THEN rev + 1 ELSE NULL,
            infos |-> IF "params" \in mask THEN rev + 1 ELSE server.infos]
      /\ UNCHANGED <<connected, connects, link, toServer, lastReq, mainq, stack, inLoop,
                     wrapperVars, exists, subs>>
  BY DEF ServerChanges, Announces
<1>2. rev \in Nat /\ server \in Value /\ NULL \notin subs /\ object \in Nat
  BY DEF OInv, ServerOK, WrapperOK
<1>3. server' \in Value
  BY <1>1, <1>2 DEF Value, NULL
<1>4. ServerOK'
  BY <1>1, <1>2, <1>3 DEF OInv, ServerOK
<1>5. Addressed(c, "info", object)
  BY <1>1, <1>2 DEF OInv, Owner, Addressed, About
<1>6. w \in MessagesNow(c)
  <2>1. mask \in SUBSET {"state", "params"}
    BY ProxyAssumption
  <2> QED
    BY <1>2, <1>3, <1>5, <2>1, InfoNow
<1> HIDE DEF w
<1>7. wire' \in Seq(MessagesNow(c)) /\ toServer' \in Seq(RequestsNow(c))
  <2>1. wire \in Seq(MessagesNow(c)) /\ toServer \in Seq(RequestsNow(c))
    BY DEF OInv, ConnectionOK
  <2> QED
    BY <1>1, <1>6, <2>1
<1> QED
  BY <1>1, <1>4, <1>7, ServerStepKeeps

LEMMA ServerRemoveKeeps ==
  ASSUME NEW c, OInv(c), NEW id \in {Own, Other}, ServerRemove(id)
  PROVE  OInv(c)'
<1> DEFINE w == [Tell("gone", registry) EXCEPT !.id = id]
<1>1. /\ exists' = exists \ {id}
      /\ (registry \in subs /\ wire' = wire \o <<w>>) \/ wire' = wire
      /\ UNCHANGED <<connected, connects, link, toServer, lastReq, mainq, stack, inLoop,
                     wrapperVars, server, rev, subs>>
  BY DEF ServerRemove, Announces
<1>2. ServerOK'
  BY <1>1 DEF OInv, ServerOK
<1>3. registry \in subs => w \in MessagesNow(c)
  <2> SUFFICES ASSUME registry \in subs
               PROVE  w \in MessagesNow(c)
    OBVIOUS
  <2>1. registry \in Nat /\ registry # NULL /\ Addressed(c, "gone", registry)
    BY DEF OInv, WrapperOK, ServerOK, Owner, Addressed, About
  <2>2. Untold \in Value
    BY DEF Untold, Value, NULL
  <2>3. w = [kind |-> "gone", to |-> registry, id |-> id, mask |-> {}, server |-> Untold,
             seq |-> Unasked, index |-> 0]
    BY DEF Tell
  <2>4. w \in Message /\ w.kind = "gone" /\ w.to = registry
    BY <2>1, <2>2, <2>3 DEF Message, Unasked
  <2> HIDE DEF w
  <2> QED
    BY <2>1, <2>4 DEF MessagesNow
<1> HIDE DEF w
<1>4. wire' \in Seq(MessagesNow(c)) /\ toServer' \in Seq(RequestsNow(c))
  <2>1. wire \in Seq(MessagesNow(c)) /\ toServer \in Seq(RequestsNow(c))
    BY DEF OInv, ConnectionOK
  <2> QED
    BY <1>1, <1>3, <2>1
<1> QED
  BY <1>1, <1>2, <1>4, ServerStepKeeps

-----------------------------------------------------------------------------
(* The three classes, and every step.                                      *)

\* What an info of each class tells, whatever its mask.
LEMMA Parts ==
  ASSUME NEW mask
  PROVE  /\ NodeParts(mask) \in Seq(Told("node"))
         /\ DeviceParts(mask) \in Seq(Told("device"))
         /\ LinkParts(mask) \in Seq(Told("link"))
<1>1. /\ Told("node") = {"state", "error", "infos"} /\ Told("device") = {"infos"}
      /\ Told("link") = {"state", "error"}
  BY DEF Told
<1>2. \A T : <<>> \in Seq(T)
  OBVIOUS
<1>3. <<"state", "error">> \in Seq({"state", "error", "infos"})
  OBVIOUS
<1>4. <<"infos">> \in Seq({"state", "error", "infos"})
  OBVIOUS
<1>5. NodeParts(mask) \in Seq({"state", "error", "infos"})
  <2> DEFINE a == IF "state" \in mask THEN <<"state", "error">> ELSE <<>>
             b == IF "params" \in mask THEN <<"infos">> ELSE <<>>
  <2>1. /\ a \in Seq({"state", "error", "infos"})
        /\ b \in Seq({"state", "error", "infos"})
    BY <1>2, <1>3, <1>4, Zenon
  <2>2. NodeParts(mask) = a \o b
    BY DEF NodeParts
  <2> HIDE DEF a, b
  <2> QED
    BY <2>1, <2>2
<1>6. DeviceParts(mask) \in Seq({"infos"})
  <2>1. <<"infos">> \in Seq({"infos"})
    OBVIOUS
  <2> QED
    BY <1>2, <2>1, Zenon DEF DeviceParts
<1>7. LinkParts(mask) \in Seq({"state", "error"})
  <2>1. <<"state", "error">> \in Seq({"state", "error"})
    OBVIOUS
  <2> QED
    BY <1>2, <2>1, Zenon DEF LinkParts
<1> QED
  BY <1>1, <1>5, <1>6, <1>7

LEMMA CallKeeps ==
  ASSUME NEW c, OInv(c),
         \/ c = "node" /\ NodeCall
         \/ c = "device" /\ DeviceCall
         \/ c = "link" /\ LinkCall
  PROVE  OInv(c)'
<1>1. CASE c = "node" /\ NodeCall
  <2>1. ASSUME NEW num \in Nums, Enumerate(num) \/ EnumSync(num)
        PROVE  OInv(c)'
    <3>1. num \in Nat
      BY ProxyAssumption
    <3> QED
      BY <1>1, <2>1, <3>1, EnumerateKeeps, EnumSyncKeeps
  <2>2. CASE Start \/ Sync \/ NodeEnumAll \/ NodeSubscribe \/ NodeSetParam
    BY <1>1, <2>2, StartKeeps, SyncKeeps, EnumerateKeeps, AskKeeps, ProxyAssumption
       DEF NodeEnumAll, NodeSubscribe, NodeSetParam
  <2>3. CASE Stop(NodeEpilogue) \/ ConnectCore \/ DisconnectCore(NodeEpilogue)
    BY <1>1, <2>3, Epilogues, StopKeeps, ConnectCoreKeeps, DisconnectCoreKeeps
  <2> QED
    BY <1>1, <2>1, <2>2, <2>3 DEF NodeCall
<1>2. CASE c = "device" /\ DeviceCall
  <2>1. ASSUME NEW num \in Nums, DeviceEnum(num) \/ DeviceEnumSync(num)
        PROVE  OInv(c)'
    <3>1. num \in Nat
      BY ProxyAssumption
    <3> QED
      BY <1>2, <2>1, <3>1, EnumerateKeeps, EnumSyncKeeps DEF DeviceEnum, DeviceEnumSync
  <2>2. CASE DeviceStart \/ DeviceSync \/ DeviceSubscribe \/ DeviceSetParam
    BY <1>2, <2>2, StartKeeps, SyncKeeps, AskKeeps
       DEF DeviceStart, DeviceSync, DeviceSubscribe, DeviceSetParam
  <2>3. CASE DeviceStop \/ ConnectCore \/ DeviceReset
    BY <1>2, <2>3, Epilogues, StopKeeps, ConnectCoreKeeps, DisconnectCoreKeeps
       DEF DeviceStop, DeviceReset
  <2> QED
    BY <1>2, <2>1, <2>2, <2>3 DEF DeviceCall
<1>3. CASE c = "link" /\ LinkCall
  <2>1. CASE LinkStart \/ LinkSync
    BY <1>3, <2>1, StartKeeps, SyncKeeps DEF LinkStart, LinkSync
  <2>2. CASE LinkStop \/ ConnectCore \/ LinkReset
    BY <1>3, <2>2, Epilogues, StopKeeps, ConnectCoreKeeps, DisconnectCoreKeeps
       DEF LinkStop, LinkReset
  <2> QED
    BY <1>3, <2>1, <2>2 DEF LinkCall
<1> QED
  BY <1>1, <1>2, <1>3

LEMMA ContinueKeeps ==
  ASSUME NEW c, OInv(c),
         \/ c = "node" /\ NodeContinue
         \/ c = "device" /\ DeviceContinue
         \/ c = "link" /\ LinkContinue
  PROVE  OInv(c)'
<1>1. CASE \/ c = "node" /\ NodeRestart
           \/ c = "device" /\ DeviceRestart
           \/ c = "link" /\ LinkRestart
  BY <1>1, Epilogues, RestartKeeps DEF NodeRestart, DeviceRestart, LinkRestart
<1>2. CASE Opening \/ Synchronising \/ Enumerating \/ Destroy \/ Reset \/ Resume
  BY <1>2, OpeningKeeps, SynchronisingKeeps, EnumeratingKeeps, DestroyKeeps, ResetKeeps, ResumeKeeps
<1> QED
  BY <1>1, <1>2 DEF NodeContinue, DeviceContinue, LinkContinue, DeviceDestroy, LinkDestroy

LEMMA ClassDispatchKeeps ==
  ASSUME NEW c, OInv(c),
         \/ c = "node" /\ NodeDispatch
         \/ c = "device" /\ DeviceDispatch
         \/ c = "link" /\ LinkDispatch
  PROVE  OInv(c)'
BY Parts, Epilogues, DispatchKeeps DEF NodeDispatch, DeviceDispatch, LinkDispatch

\* The class is chosen once; the invariant is that of the class.
ObjectInv == \E c \in Classes : class = c /\ OInv(c)

LEMMA OInitInv == OInit => ObjectInv
<1> SUFFICES ASSUME OInit
             PROVE  ObjectInv
  OBVIOUS
<1>1. /\ connected = FALSE /\ connects = 0 /\ link = FALSE /\ toServer = <<>> /\ wire = <<>>
      /\ lastReq = 0 /\ mainq = <<>> /\ stack = <<>> /\ inLoop = FALSE
      /\ view = NoView /\ registry = NULL /\ object = NULL /\ generation = 0
      /\ alive = {} /\ late = {} /\ exists = Globals
      /\ server = [state |-> 1, error |-> NULL, infos |-> 1] /\ rev = 1 /\ subs = {}
      /\ class \in Classes
  BY DEF OInit, PInit, Init
<1>2. PICK c \in Classes : class = c
  BY <1>1
<1>3. ConnectionOK(c)
  <2>1. \A T : <<>> \in Seq(T)
    OBVIOUS
  <2>2. toServer \in Seq(RequestsNow(c)) /\ wire \in Seq(MessagesNow(c)) /\ mainq \in Seq(SourcesNow(c))
    BY <1>1, <2>1
  <2> QED
    BY <1>1, <2>2 DEF ConnectionOK
<1>4. WrapperOK
  <2>1. <<>> \in Seq([seq : Nat, index : Nat, via : Nat])
    OBVIOUS
  <2>2. NoView \in ViewType
    BY <2>1, NothingField DEF NoView, ViewType
  <2> QED
    BY <1>1, <2>2 DEF WrapperOK, NULL
<1>5. ServerOK
  BY <1>1, ProxyAssumption DEF ServerOK, Own, Other, Value, NULL
<1>6. Fits(c, stack)
  BY <1>1 DEF Fits, Nested, Has
<1>7. Owner
  BY <1>1, NothingHeld DEF Owner, running, bound, NoView, NULL
<1>8. Shown(c)
  BY <1>1 DEF Shown, Known, NoView
<1> QED
  BY <1>2, <1>3, <1>4, <1>5, <1>6, <1>7, <1>8 DEF ObjectInv, OInv

LEMMA ONextInv == ObjectInv /\ [ONext]_objectVars => ObjectInv'
<1> SUFFICES ASSUME ObjectInv, [ONext]_objectVars
             PROVE  ObjectInv'
  OBVIOUS
<1>1. PICK c \in Classes : class = c /\ OInv(c)
  BY DEF ObjectInv
<1>2. CASE ClassCall
  <2>1. /\ class' = class
        /\ \/ c = "node" /\ NodeCall
           \/ c = "device" /\ DeviceCall
           \/ c = "link" /\ LinkCall
    BY <1>1, <1>2 DEF ClassCall, Is
  <2>2. OInv(c)'
    BY <1>1, <2>1, CallKeeps
  <2> QED
    BY <1>1, <2>1, <2>2 DEF ObjectInv
<1>3. CASE OMainStep
  <2>1. CASE PMainStep /\ UNCHANGED class
    <3>1. OInv(c)'
      BY <1>1, <2>1, CoreStepKeeps, SyncResumeKeeps DEF PMainStep, Keep, CoreStep
    <3> QED
      BY <1>1, <2>1, <3>1 DEF ObjectInv
  <2>2. CASE Is("node", NodeContinue) \/ Is("device", DeviceContinue) \/ Is("link", LinkContinue)
    BY <1>1, <2>2, ContinueKeeps DEF Is, ObjectInv
  <2> QED
    BY <1>3, <2>1, <2>2 DEF OMainStep
<1>4. CASE ODispatch
  <2>1. CASE Keep(DispatchToken) /\ UNCHANGED class
    <3>1. OInv(c)'
      BY <1>1, <2>1, CoreStepKeeps DEF Keep, CoreStep
    <3> QED
      BY <1>1, <2>1, <3>1 DEF ObjectInv
  <2>2. CASE Is("node", NodeDispatch) \/ Is("device", DeviceDispatch) \/ Is("link", LinkDispatch)
    BY <1>1, <2>2, ClassDispatchKeeps DEF Is, ObjectInv
  <2> QED
    BY <1>4, <2>1, <2>2 DEF ODispatch
<1>5. CASE OLoopStep
  <2>1. CASE Keep(LoopStep) /\ UNCHANGED class
    <3>1. OInv(c)'
      BY <1>1, <2>1, CoreStepKeeps DEF Keep, CoreStep
    <3> QED
      BY <1>1, <2>1, <3>1 DEF ObjectInv
  <2>2. CASE \/ Is("node", NodeOnMessage) \/ Is("device", DeviceOnMessage)
             \/ Is("link", LinkOnMessage)
    BY <1>1, <2>2, OnMessageKeeps
       DEF Is, ObjectInv, NodeOnMessage, DeviceOnMessage, LinkOnMessage
  <2> QED
    BY <1>5, <2>1, <2>2 DEF OLoopStep
<1>6. CASE OServerStep
  <2>1. OInv(c)'
    BY <1>1, <1>6, ServeSyncKeeps, ServeBindKeeps, ServeParamsKeeps DEF OServerStep, PServerStep, Keep
  <2> QED
    BY <1>1, <1>6, <2>1 DEF OServerStep, ObjectInv
<1>7. CASE OWorld
  <2>1. OInv(c)'
    BY <1>1, <1>7, ServeSyncKeeps, ServerRemoveKeeps, ServerChangesKeeps DEF OWorld, World, Keep
  <2> QED
    BY <1>1, <1>7, <2>1 DEF OWorld, ObjectInv
<1>8. CASE UNCHANGED objectVars
  <2>1. UNCHANGED <<connected, connects, link, toServer, wire, lastReq, mainq, stack, inLoop,
                    wrapperVars, serverVars, class>>
    BY <1>8 DEF objectVars, vars, coreVars
  <2>2. ServerOK' /\ toServer' \in Seq(RequestsNow(c)) /\ wire' \in Seq(MessagesNow(c))
    BY <1>1, <2>1, ServerKept DEF OInv, ConnectionOK
  <2>3. OInv(c)'
    BY <1>1, <2>1, <2>2, ServerStepKeeps
  <2> QED
    BY <1>1, <2>1, <2>3 DEF ObjectInv
<1> QED
  BY <1>2, <1>3, <1>4, <1>5, <1>6, <1>7, <1>8 DEF ONext

LEMMA ObjectInvariant == OSpec => []ObjectInv
BY OInitInv, ONextInv, PTL DEF OSpec

LEMMA ObjectInvTypes == ObjectInv => OTypeOK
<1> SUFFICES ASSUME ObjectInv
             PROVE  OTypeOK
  OBVIOUS
<1>1. PICK c \in Classes : class = c /\ OInv(c)
  BY DEF ObjectInv
<1>2. ConnectionOK(c) /\ WrapperOK /\ ServerOK /\ Fits(c, stack)
  BY <1>1 DEF OInv
<1>3. /\ RequestsNow(c) \subseteq Requests /\ MessagesNow(c) \subseteq CoreMessages \cup Message
      /\ SourcesNow(c) \subseteq Sources
  BY DEF RequestsNow, MessagesNow, SourcesNow, Requests, Sources
<1>4. /\ toServer \in Seq(Requests) /\ wire \in Seq(CoreMessages \cup Message)
      /\ mainq \in Seq(Sources)
  BY <1>2, <1>3, SeqMono DEF ConnectionOK
<1>5. CoreTypeOK(Requests, CoreMessages \cup Message, Sources, CoreFrames \cup {"rest"}, Marks)
  BY <1>2, <1>4 DEF ConnectionOK, Fits, OFrame, CoreTypeOK
<1> QED
  BY <1>1, <1>2, <1>5 DEF OTypeOK, WrapperOK, ServerOK, ViewType

\* Every step of a wrapper of any of the classes keeps the types, and a
\* call or an event that is interrupted always has a step left to do.
THEOREM ObjectTypes == OSpec => []OTypeOK
BY ObjectInvariant, ObjectInvTypes, PTL

\* Between calls a wrapper shows one session: it is bound exactly while it
\* runs, and every value was told by its object, but for those of an info
\* whose handlers ended the session before all were written.
THEOREM ObjectsShowOneSession == OSpec => []SessionIsolation
<1>1. ASSUME ObjectInv, ~Resting
      PROVE  /\ bound = running /\ (object # NULL) = running
             /\ \A f \in {view.state, view.error, view.infos} :
                  f # Nothing => f.via \in {object} \cup late
             /\ \A i \in DOMAIN view.params : view.params[i].via = object
  <2>1. PICK c \in Classes : OInv(c)
    BY <1>1 DEF ObjectInv
  <2>2. ~Held(stack, RestMark)
    BY <1>1, <2>1, RestsHeld DEF OInv
  <2>3. ~Held(stack, Ending) /\ \A s : ~Held(stack, Pending(s))
    <3>1. Ending \subseteq RestMark /\ \A s : Pending(s) \subseteq RestMark
      BY DEF Ending, Pending
    <3> QED
      BY <2>2, <3>1, HeldSub
  <2>4. running \in BOOLEAN /\ bound \in BOOLEAN
    BY <2>1 DEF OInv, WrapperOK, ViewType, running, bound
  <2>5. bound = running /\ (object # NULL) = running
    BY <2>1, <2>3, <2>4 DEF OInv, Owner
  <2>6. \A f \in {view.state, view.error, view.infos} : f # Nothing => f.via \in {object} \cup late
    BY <2>1, <2>3 DEF OInv, Shown, Known
  <2>7. \A i \in DOMAIN view.params : view.params[i].via = object
    BY <2>1, <2>3 DEF OInv, Shown
  <2> QED
    BY <2>5, <2>6, <2>7
<1>2. ObjectInv => SessionIsolation
  BY <1>1 DEF SessionIsolation
<1> QED
  BY <1>2, ObjectInvariant, PTL

-----------------------------------------------------------------------------
(* The proxies, where no handler of notify::connected connects again at    *)
(* once.                                                                   *)

Notifying(st) == \E i \in DOMAIN st : st[i].op = "notify"

\* A stack on which an emission of notify::connected still goes on.
Calling(st) == (\E F : st \in Seq(F)) /\ (Emitting => Notifying(st))

\* A reset that is owed will come: the emission that starts over is still on
\* the stack.  So no connection is made while the wrapper holds proxies of
\* an older one.
Owned ==
  /\ Owed => Emitting
  /\ connected => {registry, object} \ {NULL} \subseteq alive

LEMMA CallingPushed ==
  ASSUME NEW st, Calling(st), NEW f
  PROVE  Calling(<<f>> \o st)
<1>1. PICK F : st \in Seq(F)
  BY DEF Calling
<1> DEFINE G == F \cup {f}
           s == <<f>> \o st
<1>2. st \in Seq(G) /\ f \in G
  BY <1>1, SeqMono
<1> HIDE DEF G
<1>3. s \in Seq(G) /\ \A i \in DOMAIN st : i + 1 \in DOMAIN s /\ s[i + 1] = st[i]
  BY <1>2, Pushed
<1> HIDE DEF s
<1>4. Notifying(st) => Notifying(s)
  BY <1>3 DEF Notifying
<1> QED
  BY <1>3, <1>4 DEF Calling, s

LEMMA CallingBelow ==
  ASSUME NEW c, Fits(c, stack)
  PROVE  /\ Calling(stack)
         /\ stack # <<>> /\ Head(stack).op # "notify" => Calling(Tail(stack))
<1>1. stack \in Seq(OFrame)
  BY DEF Fits
<1>2. Calling(stack)
  BY <1>1 DEF Calling, Emitting, Notifying
<1>3. ASSUME stack # <<>>, Head(stack).op # "notify"
      PROVE  Calling(Tail(stack))
  <2> DEFINE X == {f \in OFrame : f.op = "notify"}
  <2>1. Tail(stack) \in Seq(OFrame) /\ (Has(stack, X) <=> Head(stack) \in X \/ Has(Tail(stack), X))
    BY <1>1, <1>3, HasPopped
  <2>2. \A i \in DOMAIN stack : stack[i] \in OFrame
    BY <1>1
  <2>3. Emitting => Has(Tail(stack), X)
    BY <1>3, <2>1, <2>2 DEF Has, Emitting
  <2>4. Has(Tail(stack), X) => Notifying(Tail(stack))
    BY DEF Has, Notifying
  <2> QED
    BY <2>1, <2>3, <2>4 DEF Calling
<1> QED
  BY <1>2, <1>3

LEMMA CallingLeft ==
  ASSUME NEW st, Calling(st), NEW steps, NEW e
  PROVE  Calling(Left(steps, e, st))
BY CallingPushed DEF Left

LEMMA CallingPerform ==
  ASSUME NEW st, Calling(st), NEW steps, NEW e, Perform(steps, e, st)
  PROVE  Calling(stack')
<1>1. stack' = st \/ \E s : stack' = <<App>> \o Left(s, e, st)
  BY Zenon DEF Perform
<1> QED
  BY <1>1, CallingLeft, CallingPushed

\* A step that leaves the connection and the proxies alone.
LEMMA QuietOwned ==
  ASSUME Owned, Calling(stack'), UNCHANGED <<connected, sessionVars>>
  PROVE  Owned'
<1>1. UNCHANGED <<connected, registry, object, alive>>
  BY DEF sessionVars
<1>2. Emitting => Emitting'
  BY DEF Calling, Notifying, Emitting
<1> QED
  BY <1>1, <1>2 DEF Owned, Owed

\* No connection is made while a reset is owed.
LEMMA ConnectedOwned ==
  ASSUME "reconnect" \notin Reentry, Owned, MayConnect(Owed), Connected, UNCHANGED wrapperVars
  PROVE  Owned'
<1>1. ~connected /\ connected' = TRUE /\ UNCHANGED <<registry, object>>
  BY DEF Connected, wrapperVars, sessionVars
<1>2. registry = NULL /\ object = NULL
  BY <1>1 DEF MayConnect, Owned, Owed
<1> QED
  BY <1>1, <1>2 DEF Owned, Owed

LEMMA OpenOwned ==
  ASSUME Owned, NEW st, Calling(st), NEW todo, (Open(todo, st) /\ connected) \/ OpenFails(st)
  PROVE  Owned'
<1>1. CASE Open(todo, st) /\ connected
  BY <1>1 DEF Open, Owned, Owed
<1>2. CASE OpenFails(st) /\ connected
  BY <1>2 DEF OpenFails, Owned, Owed
<1>3. CASE OpenFails(st) /\ ~connected
  BY <1>3, QuietOwned DEF OpenFails, sessionVars
<1> QED
  BY <1>1, <1>2, <1>3

LEMMA StartOwned ==
  ASSUME "reconnect" \notin Reentry, Owned, Calling(stack), NEW todo, StartThen(todo)
  PROVE  Owned'
BY OpenOwned, ConnectedOwned DEF StartThen, ConnectFor

\* A roundtrip, on a stack that keeps the emission.
LEMMA RoundtripOwned ==
  ASSUME "reconnect" \notin Reentry, Owned, NEW st, Calling(st), NEW mark,
         Roundtrip(mark, Owed, st), UNCHANGED wrapperVars
  PROVE  Owned'
<1>1. CASE ConnectFor(Frame("sync", 0, TRUE, TRUE, mark), Owed, st)
  BY <1>1, ConnectedOwned DEF ConnectFor
<1>2. CASE /\ SendSync(TRUE, TRUE, mark, st) \/ SendFails(st)
           /\ UNCHANGED connected
  <2>1. Calling(stack')
    BY <1>2, CallingPushed DEF SendSync, SendFails
  <2> QED
    BY <1>2, <2>1, QuietOwned DEF wrapperVars
<1> QED
  BY <1>1, <1>2 DEF Roundtrip

LEMMA EnumRoundtripOwned ==
  ASSUME Owned, NEW st, Calling(st), NEW num, EnumRoundtrip(num, st)
  PROVE  Owned'
<1>1. Calling(stack')
  BY CallingPushed DEF EnumRoundtrip, SendFails
<1> QED
  BY <1>1, QuietOwned DEF EnumRoundtrip

\* What the three classes call.
LEMMA CallOwned ==
  ASSUME "reconnect" \notin Reentry, Owned, NEW c, OInv(c),
         \/ Start \/ Sync \/ Ask \/ ConnectCore
         \/ \E num \in Nat : Enumerate(num) \/ EnumSync(num)
         \/ \E epilogue : Stop(epilogue) \/ DisconnectCore(epilogue)
  PROVE  Owned'
<1>1. Calling(stack)
  BY CallingBelow DEF OInv
<1>2. CASE Start
  BY <1>1, <1>2, StartOwned DEF Start
<1>3. CASE Sync
  BY <1>1, <1>3, StartOwned, RoundtripOwned DEF Sync
<1>4. CASE Ask
  BY <1>1, <1>4, QuietOwned DEF Ask, wrapperVars
<1>5. CASE ConnectCore
  BY <1>5, ConnectedOwned DEF ConnectCore, Keep, Connect
<1>6. ASSUME NEW num \in Nat, Enumerate(num)
      PROVE  Owned'
  BY <1>1, <1>6, QuietOwned DEF Enumerate
<1>7. ASSUME NEW num \in Nat, EnumSync(num)
      PROVE  Owned'
  BY <1>1, <1>7, StartOwned, EnumRoundtripOwned DEF EnumSync
<1>8. ASSUME NEW epilogue, Stop(epilogue)
      PROVE  Owned'
  <2>1. Calling(stack')
    BY <1>1, <1>8, CallingPushed DEF Stop, EndSession
  <2> QED
    BY <1>8, <2>1 DEF Stop, EndSession, Calling, Notifying, Emitting, Owned, Owed
<1>9. ASSUME NEW epilogue, DisconnectCore(epilogue)
      PROVE  Owned'
  <2> DEFINE r == Todo(<<"reset">> \o epilogue, NoEvent)
  <2>1. /\ connected' = FALSE
        /\ stack' = IF Emitting THEN stack ELSE <<r, Notify>> \o stack
    BY <1>9 DEF DisconnectCore, DisconnectFor, Disconnected
  <2> HIDE DEF r
  <2>2. CASE Emitting
    BY <2>1, <2>2 DEF Emitting, Owned
  <2>3. CASE ~Emitting
    <3>1. PICK F : stack \in Seq(F)
      BY <1>1 DEF Calling
    <3> DEFINE G == F \cup {r, Notify}
    <3>2. stack \in Seq(G) /\ r \in G /\ Notify \in G
      BY <3>1, SeqMono
    <3> HIDE DEF G
    <3> DEFINE s == <<Notify>> \o stack
    <3>3. stack' = <<r>> \o s /\ s \in Seq(G)
      BY <2>1, <2>3, <3>2, TwoPushed
    <3>4. 1 \in DOMAIN s /\ s[1] = Notify
      BY <3>2, Pushed
    <3> HIDE DEF s
    <3>5. 1 + 1 \in DOMAIN stack' /\ stack'[1 + 1] = Notify
      BY <3>2, <3>3, <3>4, Pushed
    <3>6. Emitting'
      BY <3>5, NotifyFrame DEF Emitting
    <3> QED
      BY <2>1, <3>6 DEF Owned
  <2> QED
    BY <2>2, <2>3
<1> QED
  BY <1>2, <1>3, <1>4, <1>5, <1>6, <1>7, <1>8, <1>9

\* What goes on, in a call or with an event.
LEMMA ContinueOwned ==
  ASSUME "reconnect" \notin Reentry, Owned, NEW c, OInv(c),
         \/ Opening \/ Synchronising \/ Enumerating \/ Destroy \/ Reset \/ Resume
         \/ \E epilogue : Restart(epilogue)
         \/ \E parts, epilogue : Dispatch(parts, epilogue)
  PROVE  Owned'
<1>1. /\ Calling(stack)
      /\ TopIs("rest") => Calling(Tail(stack))
  BY CallingBelow DEF OInv, TopIs
<1>2. CASE Opening
  BY <1>1, <1>2, OpenOwned DEF Opening, On
<1>3. CASE Synchronising
  BY <1>1, <1>3, RoundtripOwned DEF Synchronising, On
<1>4. CASE Enumerating
  BY <1>1, <1>4, EnumRoundtripOwned DEF Enumerating, On
<1>5. CASE Destroy \/ Reset
  BY <1>5 DEF Destroy, Reset, Owned, Owed
<1>6. CASE Resume
  <2>1. Calling(stack')
    BY <1>1, <1>6, CallingPerform DEF Resume
  <2> QED
    BY <1>6, <2>1, QuietOwned DEF Resume
<1>7. ASSUME NEW epilogue, Restart(epilogue)
      PROVE  Owned'
  <2>1. Calling(stack')
    BY <1>1, <1>7, CallingPushed DEF Restart, RestartFor, Push
  <2> QED
    BY <1>7, <2>1, QuietOwned DEF Restart, RestartFor, wrapperVars
<1>8. ASSUME NEW parts, NEW epilogue, Dispatch(parts, epilogue)
      PROVE  Owned'
  <2>1. UNCHANGED <<connected, registry, object, alive>>
    BY <1>8 DEF Dispatch, EndSession, wrapperVars, sessionVars
  <2>2. stack' = stack \/ (\E steps, e : Perform(steps, e, stack)) \/ \E f : stack' = <<f>> \o stack
    BY <1>8, Zenon DEF Dispatch, EndSession
  <2>3. Calling(stack')
    BY <1>1, <2>2, CallingPerform, CallingPushed
  <2> QED
    BY <2>1, <2>3 DEF Calling, Notifying, Emitting, Owned, Owed
<1> QED
  BY <1>2, <1>3, <1>4, <1>5, <1>6, <1>7, <1>8

\* The steps of Core: no emission ends in which a reset is owed.
LEMMA CoreStepOwned ==
  ASSUME Owned, NEW c, OInv(c), UNCHANGED wrapperVars,
         \/ SyncResume(Head(stack).mark) \/ SyncWake \/ SyncTimeout \/ DrainEnd
         \/ HandlerReturn \/ DispatchToken \/ LoopStep \/ (~Owed /\ NotifyReturn)
  PROVE  Owned'
<1>1. UNCHANGED <<registry, object, alive>> /\ UNCHANGED sessionVars
  BY DEF wrapperVars, sessionVars
<1>2. /\ Calling(stack)
      /\ stack # <<>> /\ Head(stack).op # "notify" => Calling(Tail(stack))
  BY CallingBelow DEF OInv
<1>3. CASE SyncResume(Head(stack).mark)
  <2>1. Calling(stack')
    BY <1>2, <1>3, CallingPushed DEF SyncResume, TopIs, SendSync, SendFails
  <2> QED
    BY <1>1, <1>3, <2>1, QuietOwned DEF SyncResume
<1>4. CASE NotifyReturn /\ ~Owed
  BY <1>1, <1>4 DEF NotifyReturn, Owned, Owed
<1>5. CASE \/ SyncWake \/ SyncTimeout \/ DrainEnd \/ HandlerReturn
           \/ DispatchToken \/ LoopStep
  <2>1. UNCHANGED connected /\ CoreStep
    BY <1>5 DEF CoreStep, SyncWake, SyncTimeout, DrainEnd, HandlerReturn, DispatchToken, LoopStep
  <2>2. CASE TopIs("notify")
    <3>1. stack' = stack
      BY <1>5, <2>2 DEF SyncWake, SyncTimeout, DrainEnd, HandlerReturn, DispatchToken, LoopStep,
                        Iterating, TopIs, OnDone, OnError, Waiting
    <3> QED
      BY <1>1, <1>2, <2>1, <3>1, QuietOwned
  <2>3. CASE ~TopIs("notify")
    <3>1. PICK Rs, Ms, Ss : Rs = RequestsNow(c) /\ Ms = MessagesNow(c) /\ Ss = SourcesNow(c)
      OBVIOUS
    <3>2. Covers(Rs, Ms, Ss, CoreFrames \cup {"rest"}, Marks)
      BY <3>1, NowCovers
    <3>3. CoreTypeOK(Rs, Ms, Ss, CoreFrames \cup {"rest"}, Marks)
      BY <3>1 DEF OInv, ConnectionOK, CoreTypeOK, Fits, OFrame
    <3>4. \/ stack' = stack
          \/ stack # <<>> /\ stack' = Tail(stack)
          \/ \E k \in DOMAIN stack, f \in OFrame :
               SameCall(stack[k], f) /\ stack' = [stack EXCEPT ![k] = f]
      BY <2>1, <3>2, <3>3, CoreStepFrames DEF OFrame
    <3>5. CASE stack' = stack
      BY <1>1, <1>2, <2>1, <3>5, QuietOwned
    <3>6. CASE stack # <<>> /\ stack' = Tail(stack)
      BY <1>1, <1>2, <2>1, <2>3, <3>6, QuietOwned DEF TopIs
    <3>7. ASSUME NEW k \in DOMAIN stack, NEW f \in OFrame, SameCall(stack[k], f),
                 stack' = [stack EXCEPT ![k] = f]
          PROVE  Owned'
      <4>1. stack \in Seq(OFrame)
        BY DEF OInv, Fits
      <4>2. /\ stack' \in Seq(OFrame) /\ DOMAIN stack' = DOMAIN stack
            /\ \A i \in DOMAIN stack : stack'[i] = IF i = k THEN f ELSE stack[i]
        BY <3>7, <4>1, Replaced
      <4>3. Emitting => Notifying(stack')
        BY <3>7, <4>2 DEF Emitting, Notifying, SameCall
      <4> QED
        BY <1>1, <2>1, <4>2, <4>3, QuietOwned DEF Calling
    <3> QED
      BY <3>4, <3>5, <3>6, <3>7
  <2> QED
    BY <2>2, <2>3
<1> QED
  BY <1>3, <1>4, <1>5

LEMMA OwnedNext ==
  ASSUME "reconnect" \notin Reentry, ObjectInv, Owned, [ONext]_objectVars
  PROVE  Owned'
<1>1. PICK c \in Classes : class = c /\ OInv(c)
  BY DEF ObjectInv
<1>2. Calling(stack)
  BY <1>1, CallingBelow DEF OInv
<1>3. CASE ClassCall
  <2>1. Nums \subseteq Nat /\ NItems \in Nat
    BY ProxyAssumption
  <2>2. \/ Start \/ Sync \/ Ask \/ ConnectCore
        \/ \E num \in Nat : Enumerate(num) \/ EnumSync(num)
        \/ \E epilogue : Stop(epilogue) \/ DisconnectCore(epilogue)
    BY <1>3, <2>1
       DEF ClassCall, Is, NodeCall, DeviceCall, LinkCall, NodeEnumAll, NodeSubscribe, NodeSetParam,
           DeviceStart, DeviceSync, DeviceStop, DeviceReset, DeviceSubscribe, DeviceEnum,
           DeviceEnumSync, DeviceSetParam, LinkStart, LinkSync, LinkStop, LinkReset
  <2> QED
    BY <1>1, <2>2, CallOwned
<1>4. CASE PMainStep \/ Keep(DispatchToken) \/ Keep(LoopStep)
  BY <1>1, <1>4, CoreStepOwned DEF PMainStep, Keep
<1>5. CASE \/ NodeContinue \/ DeviceContinue \/ LinkContinue
           \/ NodeDispatch \/ DeviceDispatch \/ LinkDispatch
  BY <1>1, <1>5, ContinueOwned
     DEF NodeContinue, DeviceContinue, LinkContinue, DeviceDestroy, LinkDestroy, NodeRestart,
         DeviceRestart, LinkRestart, NodeDispatch, DeviceDispatch, LinkDispatch
<1>6. CASE \/ NodeOnMessage \/ DeviceOnMessage \/ LinkOnMessage \/ PServerStep \/ World
           \/ (\E mask \in Masks : ServerChanges(mask)) \/ UNCHANGED objectVars
  <2>1. UNCHANGED <<connected, stack, wrapperVars>>
    BY <1>6 DEF NodeOnMessage, DeviceOnMessage, LinkOnMessage, OnMessage, PServerStep, World, Keep,
                ServeSync, ServeBind, ServeParams, EnterLoop, ServerRemove, ServerChanges,
                objectVars, vars, coreVars
  <2> QED
    BY <1>2, <2>1, QuietOwned DEF wrapperVars
<1> QED
  BY <1>3, <1>4, <1>5, <1>6
     DEF ONext, OMainStep, ODispatch, OLoopStep, OServerStep, OWorld, Is

\* No proxy is forgotten and none is used that is gone: whatever handlers
\* call between the steps of a stop or a reset (but a start above one that
\* is suspended), what is alive is what the wrapper still knows, and while
\* connected what it knows is alive; unless a handler of notify::connected
\* disconnects and connects again at once.
THEOREM ObjectsOwnTheirProxies ==
  ASSUME "reconnect" \notin Reentry
  PROVE  OSpec => []ProxiesOwned
<1>1. OInit => Owned
  BY DEF OInit, PInit, Init, Owned, Owed
<1>2. ObjectInv /\ Owned /\ [ONext]_objectVars => Owned'
  BY OwnedNext
<1>3. ObjectInv /\ Owned => ProxiesOwned
  BY DEF ObjectInv, OInv, Owner, Owned, ProxiesOwned
<1> QED
  BY <1>1, <1>2, <1>3, ObjectInvariant, PTL DEF OSpec
=============================================================================
