--------------------------- MODULE DiscoveryProofs ---------------------------
(***************************************************************************)
(* A view that only lags behind the server: proof, for any ids, serials    *)
(* and number of announcements the application has not caught up with.     *)
(***************************************************************************)
EXTENDS Discovery, FiniteSetTheorems, SequenceTheorems, WellFoundedInduction, TLAPS

-----------------------------------------------------------------------------
(* Types.                                                                  *)

\* Announcing a global, or its removal, appends an announcement.
LEMMA BroadcastType ==
  ASSUME TypeOK, NEW a \in Announcement, Broadcast(a)
  PROVE  pending' \in Seq(Announcement)
BY DEF TypeOK, Broadcast

\* What is told at the opening of a session.
LEMMA OrderType ==
  ASSUME TypeOK, NEW s \in Orders(server)
  PROVE  /\ Cardinality(server) \in Nat
         /\ DOMAIN s = 1..Cardinality(server)
         /\ \A i \in DOMAIN s : s[i] \in server /\ Adding(s[i]) \in Announcement
         /\ \A x \in server : \E i \in DOMAIN s : s[i] = x
         /\ [i \in DOMAIN s |-> Adding(s[i])] \in Seq(Announcement)
<1>1. Cardinality(server) \in Nat
  BY FS_CardinalityType DEF TypeOK
<1>2. /\ DOMAIN s = 1..Cardinality(server)
      /\ \A i \in DOMAIN s : s[i] \in server
      /\ \A x \in server : \E i \in DOMAIN s : s[i] = x
  BY DEF Orders
<1>3. \A x \in server : Adding(x) \in Announcement
  BY DEF TypeOK, Adding, Announcement
<1>4. \A i \in DOMAIN s : Adding(s[i]) \in Announcement
  BY <1>2, <1>3
<1>5. [i \in DOMAIN s |-> Adding(s[i])] \in Seq(Announcement)
  BY <1>1, <1>2, <1>4
<1> QED
  BY <1>1, <1>2, <1>4, <1>5

\* Every step keeps every variable in its type.
LEMMA TypeStep ==
  ASSUME TypeOK, [Next]_vars
  PROVE  TypeOK'
<1>1. ASSUME NEW g \in Global, Add(g)
      PROVE  TypeOK'
  <2>1. Adding(g) \in Announcement
    BY DEF Adding, Announcement
  <2>2. server' = server \cup {g} /\ Broadcast(Adding(g)) /\ UNCHANGED <<open, live, view>>
    BY <1>1 DEF Add
  <2>3. IsFiniteSet(server') /\ server' \subseteq Global
    BY <2>2, FS_AddElement DEF TypeOK
  <2>4. pending' \in Seq(Announcement)
    BY <2>1, <2>2, BroadcastType
  <2> QED
    BY <2>2, <2>3, <2>4 DEF TypeOK
<1>2. ASSUME NEW g \in Global, Remove(g)
      PROVE  TypeOK'
  <2>1. Removing(g) \in Announcement
    BY DEF Removing, Announcement
  <2>2. server' = server \ {g} /\ Broadcast(Removing(g)) /\ UNCHANGED <<open, live, view>>
    BY <1>2 DEF Remove
  <2>3. IsFiniteSet(server') /\ server' \subseteq Global
    BY <2>2, FS_RemoveElement DEF TypeOK
  <2>4. pending' \in Seq(Announcement)
    BY <2>1, <2>2, BroadcastType
  <2> QED
    BY <2>2, <2>3, <2>4 DEF TypeOK
<1>3. CASE Open
  <2>1. PICK s \in Orders(server) : pending' = [i \in DOMAIN s |-> Adding(s[i])]
    BY <1>3 DEF Open
  <2>2. pending' \in Seq(Announcement)
    BY <2>1, OrderType
  <2> QED
    BY <1>3, <2>2 DEF Open, TypeOK
<1>4. CASE Apply
  <2> DEFINE a == Head(pending)
  <2>1. a \in Announcement /\ pending' \in Seq(Announcement)
    BY <1>4 DEF Apply, TypeOK
  <2>2. a.g \in Global
    BY <2>1 DEF Announcement
  <2>3. view' = Applied(a) /\ UNCHANGED <<server, open, live>>
    BY <1>4 DEF Apply
  <2> HIDE DEF a
  <2>4. view' \subseteq Global
    BY <2>2, <2>3 DEF Applied, TypeOK
  <2> QED
    BY <2>1, <2>3, <2>4 DEF TypeOK
<1>5. CASE Break \/ Clear
  BY <1>5 DEF Break, Clear, TypeOK
<1>6. CASE Close
  <2>1. pending' \in Seq(Announcement) /\ view' \subseteq Global
    BY <1>6 DEF Close, TypeOK
  <2> QED
    BY <1>6, <2>1 DEF Close, TypeOK
<1>7. CASE Linger
  <2>1. PICK a \in Announcement : view' = Applied(a) /\ UNCHANGED <<server, open, live, pending>>
    BY <1>7 DEF Linger
  <2>2. a.g \in Global
    BY DEF Announcement
  <2>3. view' \subseteq Global
    BY <2>1, <2>2 DEF Applied, TypeOK
  <2> QED
    BY <2>1, <2>3 DEF TypeOK
<1>8. CASE UNCHANGED vars
  BY <1>8 DEF vars, TypeOK
<1> QED
  BY <1>1, <1>2, <1>3, <1>4, <1>5, <1>6, <1>7, <1>8 DEF Next

-----------------------------------------------------------------------------
(* Faithfulness.                                                           *)

\* Among finitely many positions one is the last.
LEMMA LastPosition ==
  ASSUME NEW n \in Nat, NEW T \in SUBSET (1..n), T # {}
  PROVE  \E i \in T : \A j \in T : j <= i
<1> DEFINE D == {n - i : i \in T}
<1>1. D \subseteq Nat /\ D # {}
  OBVIOUS
<1>2. PICK d \in D : \A y \in D : ~(<<y, d>> \in OpToRel(<, Nat))
  BY <1>1, NatLessThanWellFounded, WFMin
<1>3. \A y \in D : ~(y < d)
  BY <1>1, <1>2 DEF OpToRel
<1>4. PICK i \in T : d = n - i
  OBVIOUS
<1>5. \A j \in T : ~(n - j < n - i)
  BY <1>3, <1>4
<1>6. T \subseteq 1..n
  OBVIOUS
<1>7. ASSUME NEW j \in T
      PROVE  j <= i
  <2>1. ~(n - j < n - i)
    BY <1>5
  <2>2. j \in 1..n /\ i \in 1..n
    BY <1>6
  <2> QED
    BY <2>1, <2>2
<1> QED
  BY <1>7

\* Announcing g leaves g due, and no other global of its id.
LEMMA DueAfterAppend ==
  ASSUME TypeOK, NEW a \in Announcement, pending' = Append(pending, a), view' = view,
         NEW g \in Global
  PROVE  /\ g.id = a.g.id => (Due(g)' <=> a = Adding(g))
         /\ g.id # a.g.id => (Due(g)' <=> Due(g))
<1> DEFINE n == Len(pending)
<1>1. /\ n \in Nat /\ DOMAIN pending = 1..n /\ DOMAIN pending' = 1..(n + 1)
      /\ pending'[n + 1] = a
      /\ \A i \in 1..n : pending'[i] = pending[i]
  BY DEF TypeOK
<1> HIDE DEF n
<1>2. ASSUME g.id = a.g.id
      PROVE  Due(g)' <=> a = Adding(g)
  <2>1. n + 1 \in Concerning(g.id)' /\ \A i \in Concerning(g.id)' : i \in Int /\ i <= n + 1
    BY <1>1, <1>2 DEF Concerning
  <2> QED
    BY <1>1, <2>1 DEF Due
<1>3. ASSUME g.id # a.g.id
      PROVE  Due(g)' <=> Due(g)
  <2>1. Concerning(g.id)' = Concerning(g.id)
    BY <1>1, <1>3 DEF Concerning
  <2>2. \A i \in Concerning(g.id) : pending'[i] = pending[i]
    BY <1>1 DEF Concerning
  <2> QED
    BY <2>1, <2>2 DEF Due
<1> QED
  BY <1>2, <1>3

\* Applying the oldest announcement changes what is due for no global.
LEMMA DueAfterApply ==
  ASSUME TypeOK, Apply, NEW g \in Global
  PROVE  Due(g)' <=> Due(g)
<1> DEFINE a == Head(pending)
           n == Len(pending')
<1>1. /\ n \in Nat /\ DOMAIN pending' = 1..n /\ DOMAIN pending = 1..(n + 1)
      /\ pending[1] = a
      /\ \A i \in 1..n : pending'[i] = pending[i + 1]
  BY DEF TypeOK, Apply
<1>2. view' = {h \in view : h.id # a.g.id} \cup (IF a.kind = "add" THEN {a.g} ELSE {})
  BY DEF Apply, Applied
<1>3. a \in Announcement
  BY DEF Apply, TypeOK
<1> HIDE DEF a, n
<1>4. \A i \in 1..n : i \in Concerning(g.id)' <=> i + 1 \in Concerning(g.id)
  BY <1>1 DEF Concerning
<1>5. 1 \in Concerning(g.id) <=> a.g.id = g.id
  BY <1>1 DEF Concerning
<1>6. \A i \in Concerning(g.id) : i = 1 \/ (i - 1 \in 1..n /\ (i - 1) + 1 = i /\ i \in Int)
  BY <1>1 DEF Concerning
<1>7. Concerning(g.id)' \subseteq 1..n
  BY <1>1 DEF Concerning
<1>8. CASE Concerning(g.id)' # {}
  <2>1. PICK k \in Concerning(g.id)' : TRUE
    BY <1>8
  <2>2. k + 1 \in Concerning(g.id) /\ k \in Int /\ k + 1 > 1
    BY <1>4, <1>7, <2>1
  <2>3. ASSUME Due(g)
        PROVE  Due(g)'
    <3>1. PICK i \in Concerning(g.id) :
            (\A j \in Concerning(g.id) : j <= i) /\ pending[i] = Adding(g)
      <4>1. Concerning(g.id) # {}
        BY <2>2
      <4> QED
        BY <2>3, <4>1, Zenon DEF Due
    <3>2. i # 1
      BY <2>2, <3>1
    <3>3. i - 1 \in Concerning(g.id)' /\ pending'[i - 1] = Adding(g)
      BY <1>1, <1>4, <1>6, <3>1, <3>2
    <3>4. \A j \in Concerning(g.id)' : j <= i - 1
      BY <1>4, <1>6, <1>7, <3>1, <3>2
    <3> QED
      BY <3>3, <3>4 DEF Due
  <2>4. ASSUME Due(g)'
        PROVE  Due(g)
    <3>1. PICK i \in Concerning(g.id)' :
            (\A j \in Concerning(g.id)' : j <= i) /\ pending'[i] = Adding(g)
      BY <1>8, <2>4 DEF Due
    <3>2. i + 1 \in Concerning(g.id) /\ pending[i + 1] = Adding(g) /\ i \in 1..n
      BY <1>1, <1>4, <1>7, <3>1
    <3>3. \A j \in Concerning(g.id) : j <= i + 1
      BY <1>4, <1>6, <3>1, <3>2
    <3> QED
      BY <3>2, <3>3 DEF Due
  <2> QED
    BY <2>3, <2>4
<1>9. CASE Concerning(g.id)' = {}
  <2>1. Concerning(g.id) = IF a.g.id = g.id THEN {1} ELSE {}
    BY <1>4, <1>5, <1>6, <1>9
  <2>2. Due(g)' <=> g \in view'
    BY <1>9 DEF Due
  <2>3. CASE a.g.id # g.id
    <3>1. Due(g) <=> g \in view
      BY <2>1, <2>3 DEF Due
    <3>2. g \in view' <=> g \in view
      BY <1>2, <2>3
    <3> QED
      BY <2>2, <3>1, <3>2
  <2>4. CASE a.g.id = g.id
    <3>1. Due(g) <=> a = Adding(g)
      BY <1>1, <2>1, <2>4 DEF Due
    <3>2. a = Adding(g) <=> a.kind = "add" /\ a.g = g
      BY <1>3 DEF Adding, Announcement
    <3>3. g \in view' <=> a.kind = "add" /\ a.g = g
      BY <1>2, <2>4
    <3> QED
      BY <2>2, <3>1, <3>2, <3>3
  <2> QED
    BY <2>3, <2>4
<1> QED
  BY <1>8, <1>9

\* What a new session is told is exactly what exists, in whatever order.
LEMMA DueAfterOpen ==
  ASSUME TypeOK, OneToAnId, Open, NEW g \in Global
  PROVE  Due(g)' <=> g \in server
<1>1. PICK s \in Orders(server) : pending' = [i \in DOMAIN s |-> Adding(s[i])]
  BY DEF Open
<1>2. view' = {}
  BY DEF Open
<1> DEFINE n == Cardinality(server)
<1>3. /\ n \in Nat /\ DOMAIN s = 1..n
      /\ \A i \in 1..n : s[i] \in server
      /\ \A x \in server : \E i \in 1..n : s[i] = x
  BY OrderType
<1>4. DOMAIN pending' = 1..n /\ \A i \in 1..n : pending'[i] = Adding(s[i])
  BY <1>1, <1>3
<1> HIDE DEF n
<1>5. Concerning(g.id)' = {i \in 1..n : s[i].id = g.id}
  BY <1>4 DEF Concerning, Adding
<1>6. ASSUME Due(g)'
      PROVE  g \in server
  <2>1. PICK i \in Concerning(g.id)' : pending'[i] = Adding(g)
    BY <1>2, <1>6 DEF Due
  <2>2. i \in 1..n /\ Adding(s[i]) = Adding(g)
    BY <1>4, <1>5, <2>1
  <2>3. s[i] = g
    BY <2>2 DEF Adding
  <2> QED
    BY <1>3, <2>2, <2>3
<1>7. ASSUME g \in server
      PROVE  Due(g)'
  <2>1. Concerning(g.id)' # {} /\ Concerning(g.id)' \in SUBSET (1..n)
    BY <1>3, <1>5, <1>7
  <2>2. PICK i \in Concerning(g.id)' : \A j \in Concerning(g.id)' : j <= i
    BY <1>3, <2>1, LastPosition
  <2>3. i \in 1..n /\ s[i].id = g.id
    BY <1>5, <2>2
  <2>4. s[i] = g
    BY <1>3, <1>7, <2>3 DEF OneToAnId
  <2>5. pending'[i] = Adding(g)
    BY <1>4, <2>3, <2>4
  <2> QED
    BY <2>2, <2>5 DEF Due
<1> QED
  BY <1>6, <1>7

\* No step gives an id a second global, or the view something undue.
LEMMA FaithfulStep ==
  ASSUME TypeOK, OneToAnId, Faithful, [Next]_vars
  PROVE  OneToAnId' /\ Faithful'
<1>1. ASSUME NEW g \in Global, Add(g)
      PROVE  OneToAnId' /\ Faithful'
  <2>1. /\ \A h \in server : h.id # g.id
        /\ server' = server \cup {g} /\ UNCHANGED <<open, live, view>>
    BY <1>1 DEF Add
  <2>2. OneToAnId'
    BY <2>1 DEF OneToAnId
  <2>3. ASSUME open, live, NEW h \in Global
        PROVE  Due(h)' <=> h \in server'
    <3>1. Adding(g) \in Announcement /\ Adding(g).g = g
      BY DEF Adding, Announcement
    <3>2. pending' = Append(pending, Adding(g))
      BY <1>1, <2>3 DEF Add, Broadcast
    <3>3. /\ h.id = g.id => (Due(h)' <=> Adding(g) = Adding(h))
          /\ h.id # g.id => (Due(h)' <=> Due(h))
      BY <2>1, <3>1, <3>2, DueAfterAppend
    <3>4. Adding(g) = Adding(h) <=> g = h
      BY DEF Adding
    <3>5. Due(h) <=> h \in server
      BY <2>3 DEF Faithful
    <3> QED
      BY <2>1, <3>3, <3>4, <3>5
  <2> QED
    BY <2>1, <2>2, <2>3 DEF Faithful
<1>2. ASSUME NEW g \in Global, Remove(g)
      PROVE  OneToAnId' /\ Faithful'
  <2>1. g \in server /\ server' = server \ {g} /\ UNCHANGED <<open, live, view>>
    BY <1>2 DEF Remove
  <2>2. OneToAnId'
    BY <2>1 DEF OneToAnId
  <2>3. ASSUME open, live, NEW h \in Global
        PROVE  Due(h)' <=> h \in server'
    <3>1. Removing(g) \in Announcement /\ Removing(g).g = g
      BY DEF Removing, Announcement
    <3>2. pending' = Append(pending, Removing(g))
      BY <1>2, <2>3 DEF Remove, Broadcast
    <3>3. /\ h.id = g.id => (Due(h)' <=> Removing(g) = Adding(h))
          /\ h.id # g.id => (Due(h)' <=> Due(h))
      BY <2>1, <3>1, <3>2, DueAfterAppend
    <3>4. Removing(g) # Adding(h)
      BY DEF Adding, Removing
    <3>5. Due(h) <=> h \in server
      BY <2>3 DEF Faithful
    <3> QED
      BY <2>1, <3>3, <3>4, <3>5 DEF OneToAnId
  <2> QED
    BY <2>1, <2>2, <2>3 DEF Faithful
<1>3. CASE Open
  BY <1>3, DueAfterOpen DEF Open, OneToAnId, Faithful
<1>4. CASE Apply
  <2>1. UNCHANGED <<server, open, live>>
    BY <1>4 DEF Apply
  <2> QED
    BY <1>4, <2>1, DueAfterApply DEF OneToAnId, Faithful
<1>5. CASE Break \/ Close
  BY <1>5 DEF Break, Close, OneToAnId, Faithful
<1>6. CASE Linger \/ Clear
  BY <1>6 DEF Linger, Clear, OneToAnId, Faithful
<1>7. CASE UNCHANGED vars
  BY <1>7 DEF vars, OneToAnId, Faithful, Due, Concerning
<1> QED
  BY <1>1, <1>2, <1>3, <1>4, <1>5, <1>6, <1>7 DEF Next

\* The invariant behind ViewIsFaithful: types, and one global to an id.
LEMMA DiscoveryInvariant == Spec => [](TypeOK /\ OneToAnId /\ Faithful)
<1>1. Init => TypeOK /\ OneToAnId /\ Faithful
  <2> SUFFICES ASSUME Init PROVE TypeOK /\ OneToAnId /\ Faithful
    OBVIOUS
  <2>1. server = {} /\ open = FALSE /\ live = FALSE /\ view = {} /\ pending = <<>>
    BY DEF Init
  <2>2. pending \in Seq(Announcement) /\ IsFiniteSet(server)
    BY <2>1, FS_EmptySet
  <2> QED
    BY <2>1, <2>2 DEF TypeOK, OneToAnId, Faithful
<1>2. TypeOK /\ OneToAnId /\ Faithful /\ [Next]_vars => (TypeOK /\ OneToAnId /\ Faithful)'
  BY TypeStep, FaithfulStep
<1> QED
  BY <1>1, <1>2, PTL DEF Spec

\* However many announcements a live session still has queued, they are the
\* ones that turn what it shows into exactly what the server has.
THEOREM ViewIsFaithful == Spec => []Faithful
BY DiscoveryInvariant, PTL
=============================================================================
