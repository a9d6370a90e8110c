----------------------------- MODULE ViewProofs -----------------------------
(***************************************************************************)
(* What the registry's list shows: proof that it is the view that          *)
(* Discovery describes, and that a sync() that returns TRUE has brought it *)
(* up to date, for any ids, serials, calls and lengths of the queues.      *)
(***************************************************************************)
EXTENDS RegistryProofs, WellFoundedInduction

-----------------------------------------------------------------------------
(* What a queue tells: the facts that recursion over its length gives.     *)

\* A set of numbers with 0 and, with each number, the next one.
LEMMA CountedUp ==
  ASSUME NEW n \in Nat, NEW S, 0 \in S, \A i \in 1..n : i - 1 \in S => i \in S
  PROVE  0..n \subseteq S
<1> DEFINE T == (0..n) \ S
           R == OpToRel(<, Nat)
<1> SUFFICES ASSUME T # {}
             PROVE  FALSE
  OBVIOUS
<1>1. T \subseteq Nat
  OBVIOUS
<1>2. IsWellFoundedOn(R, Nat)
  BY NatLessThanWellFounded
<1>3. \A x, y \in Nat : y < x => <<y, x>> \in R
  BY DEF OpToRel
<1> HIDE DEF R, T
<1>4. PICK x \in T : \A y \in T : ~(<<y, x>> \in R)
  BY <1>1, <1>2, WFMin
<1>5. x \in 0..n /\ x \notin S
  BY DEF T
<1>6. x # 0 /\ x \in 1..n /\ x - 1 \in 0..n /\ x - 1 < x
  BY <1>5
<1>7. x - 1 \notin T
  <2>1. x \in Nat /\ x - 1 \in Nat
    BY <1>6
  <2>2. <<x - 1, x>> \in R
    BY <1>3, <1>6, <2>1
  <2> QED
    BY <1>4, <2>2
<1>8. x - 1 \in S
  BY <1>6, <1>7 DEF T
<1> QED
  BY <1>5, <1>6, <1>8

\* What one entry of a queue tells.
Word(x) == [kind |-> x.kind, g |-> x.g]

\* f is what the first n entries of a queue tell, length by length.
Tells(f, n, queue, ours) ==
  f = [i \in 0..n |->
         IF i = 0 THEN <<>>
         ELSE IF i \in ours THEN Append(f[i - 1], Word(queue[i])) ELSE f[i - 1]]

\* The recursion that Told writes has a solution, one length at a time.
LEMMA TellsExists ==
  ASSUME NEW n \in Nat, NEW queue, NEW ours
  PROVE  \E f : Tells(f, n, queue, ours)
<1> DEFINE S == {k \in 0..n : \E f : Tells(f, k, queue, ours)}
<1>1. 0 \in S
  <2> DEFINE f == [i \in 0..0 |-> <<>>]
  <2>1. Tells(f, 0, queue, ours)
    BY DEF Tells
  <2> QED
    BY <2>1
<1>2. ASSUME NEW k \in 1..n, k - 1 \in S
      PROVE  k \in S
  <2>1. PICK f : Tells(f, k - 1, queue, ours)
    BY <1>2
  <2> DEFINE a(w, i) == IF i \in ours THEN Append(w, Word(queue[i])) ELSE w
             g == [i \in 0..k |-> IF i = k THEN a(f[k - 1], k) ELSE f[i]]
  <2>2. \A i \in 0..(k - 1) : f[i] = IF i = 0 THEN <<>> ELSE a(f[i - 1], i)
    BY <2>1 DEF Tells
  <2> HIDE DEF a
  <2>3. \A i \in 0..k : g[i] = IF i = 0 THEN <<>> ELSE a(g[i - 1], i)
    <3> SUFFICES ASSUME NEW i \in 0..k
                 PROVE  g[i] = IF i = 0 THEN <<>> ELSE a(g[i - 1], i)
      OBVIOUS
    <3>1. CASE i = 0
      BY <2>2, <3>1
    <3>2. CASE i # 0 /\ i # k
      <4>1. i \in 0..(k - 1) /\ i - 1 \in 0..k /\ i - 1 # k
        BY <3>2
      <4> QED
        BY <2>2, <3>2, <4>1
    <3>3. CASE i = k
      <4>1. i - 1 \in 0..k /\ i - 1 # k /\ i # 0
        BY <3>3
      <4> QED
        BY <3>3, <4>1
    <3> QED
      BY <3>1, <3>2, <3>3
  <2>4. g = [i \in 0..k |-> IF i = 0 THEN <<>> ELSE a(g[i - 1], i)]
    BY <2>3
  <2>5. Tells(g, k, queue, ours)
    BY <2>4 DEF Tells, a
  <2> QED
    BY <2>5
<1> HIDE DEF S
<1>3. 0..n \subseteq S
  BY <1>1, <1>2, CountedUp
<1> QED
  BY <1>3 DEF S

\* The equations that define what a queue tells.
LEMMA ToldDef ==
  ASSUME NEW queue, Len(queue) \in Nat, NEW ours
  PROVE  /\ Told(queue, ours)[0] = <<>>
         /\ \A n \in 1..Len(queue) :
              /\ n \in ours =>
                   Told(queue, ours)[n] =
                     Append(Told(queue, ours)[n - 1], Word(queue[n]))
              /\ n \notin ours =>
                   Told(queue, ours)[n] = Told(queue, ours)[n - 1]
<1> DEFINE n == Len(queue)
           f == CHOOSE f : Tells(f, n, queue, ours)
<1>1. Tells(f, n, queue, ours)
  BY TellsExists
<1>2. Told(queue, ours) = f
  BY DEF Told, Tells, Word
<1> HIDE DEF f
<1>3. \A i \in 0..n : f[i] = IF i = 0 THEN <<>>
                             ELSE IF i \in ours THEN Append(f[i - 1], Word(queue[i]))
                                                ELSE f[i - 1]
  BY <1>1 DEF Tells
<1>4. \A i \in 1..n : i \in 0..n /\ i # 0
  OBVIOUS
<1>5. 0 \in 0..n
  OBVIOUS
<1> HIDE DEF n
<1>6. f[0] = <<>>
  BY <1>3, <1>5
<1>7. \A i \in 1..n : f[i] = IF i \in ours THEN Append(f[i - 1], Word(queue[i]))
                                            ELSE f[i - 1]
  BY <1>3, <1>4
<1> QED
  BY <1>2, <1>6, <1>7 DEF n

\* What can be announced.
Announced == [kind : {"add", "remove"}, g : Global]

\* A sequence over a set stays one when an element of the set is added.
LEMMA Appended ==
  ASSUME NEW S, NEW s \in Seq(S), NEW e \in S
  PROVE  Append(s, e) \in Seq(S)
OBVIOUS

\* A queue whose chosen entries announce tells a sequence of announcements.
LEMMA ToldType ==
  ASSUME NEW queue, Len(queue) \in Nat, NEW ours,
         \A i \in 1..Len(queue) : i \in ours => Word(queue[i]) \in Announced
  PROVE  \A n \in 0..Len(queue) : Told(queue, ours)[n] \in Seq(Announced)
<1> DEFINE t == Told(queue, ours)
           S == {n \in 0..Len(queue) : t[n] \in Seq(Announced)}
<1> HIDE DEF t
<1>1. /\ t[0] = <<>>
      /\ \A n \in 1..Len(queue) :
           /\ n \in ours => t[n] = Append(t[n - 1], Word(queue[n]))
           /\ n \notin ours => t[n] = t[n - 1]
  BY ToldDef DEF t
<1>2. 0 \in S
  <2>1. 0 \in 0..Len(queue) /\ <<>> \in Seq(Announced)
    OBVIOUS
  <2> QED
    BY <1>1, <2>1
<1>3. ASSUME NEW i \in 1..Len(queue), i - 1 \in S
      PROVE  i \in S
  <2>1. i \in 0..Len(queue) /\ t[i - 1] \in Seq(Announced)
    BY <1>3
  <2>2. i \in ours => t[i] \in Seq(Announced)
    <3> DEFINE x == Word(queue[i])
               v == t[i - 1]
    <3>1. i \in ours => t[i] = Append(v, x) /\ x \in Announced
      BY <1>1
    <3>2. v \in Seq(Announced)
      BY <2>1
    <3> HIDE DEF x, v
    <3>3. x \in Announced => Append(v, x) \in Seq(Announced)
      BY <3>2, Appended, Zenon
    <3> QED
      BY <3>1, <3>3, Zenon
  <2>3. i \notin ours => t[i] \in Seq(Announced)
    BY <1>1, <2>1
  <2> QED
    BY <2>1, <2>2, <2>3
<1> HIDE DEF S
<1>4. 0..Len(queue) \subseteq S
  BY <1>2, <1>3, CountedUp
<1> QED
  BY <1>4 DEF S, t

\* The first n entries of two queues are the same.
Alike(n, q, I, r, J) ==
  /\ n \in Nat /\ n <= Len(q) /\ n <= Len(r)
  /\ \A i \in 1..n : (i \in I <=> i \in J) /\ (i \in I => q[i] = r[i])

\* Equal beginnings of two queues tell the same.
LEMMA ToldPrefix ==
  ASSUME NEW n, NEW q, Len(q) \in Nat, NEW r, Len(r) \in Nat, NEW I, NEW J,
         Alike(n, q, I, r, J)
  PROVE  Told(q, I)[n] = Told(r, J)[n]
<1> DEFINE t == Told(q, I)
           u == Told(r, J)
           S == {k \in 0..n : t[k] = u[k]}
<1> USE DEF Alike
<1> HIDE DEF t, u
<1>1. /\ t[0] = <<>>
      /\ \A k \in 1..n :
           /\ k \in I => t[k] = Append(t[k - 1], Word(q[k]))
           /\ k \notin I => t[k] = t[k - 1]
  <2>1. \A k \in 1..n : k \in 1..Len(q)
    OBVIOUS
  <2> QED
    BY <2>1, ToldDef DEF t
<1>2. /\ u[0] = <<>>
      /\ \A k \in 1..n :
           /\ k \in J => u[k] = Append(u[k - 1], Word(r[k]))
           /\ k \notin J => u[k] = u[k - 1]
  <2>1. \A k \in 1..n : k \in 1..Len(r)
    OBVIOUS
  <2> QED
    BY <2>1, ToldDef DEF u
<1>3. 0 \in S
  BY <1>1, <1>2
<1>4. ASSUME NEW i \in 1..n, i - 1 \in S
      PROVE  i \in S
  <2>1. t[i - 1] = u[i - 1] /\ i \in 0..n
    BY <1>4
  <2>2. i \in I => t[i] = u[i]
    <3>1. i \in I => Word(q[i]) = Word(r[i]) /\ i \in J
      OBVIOUS
    <3> QED
      BY <1>1, <1>2, <2>1, <3>1
  <2>3. i \notin I => t[i] = u[i]
    BY <1>1, <1>2, <2>1
  <2> QED
    BY <2>1, <2>2, <2>3
<1>5. n \in 0..n
  OBVIOUS
<1> HIDE DEF S
<1>6. n \in S
  BY <1>3, <1>4, <1>5, CountedUp
<1> QED
  BY <1>6 DEF S, t, u

\* Entries that are not ours tell nothing.
LEMMA ToldNothing ==
  ASSUME NEW q, Len(q) \in Nat, NEW I, NEW n \in 0..Len(q),
         \A i \in 1..n : i \notin I
  PROVE  Told(q, I)[n] = <<>>
<1> DEFINE t == Told(q, I)
           S == {k \in 0..n : t[k] = <<>>}
<1> HIDE DEF t
<1>1. t[0] = <<>> /\ \A k \in 1..n : t[k] = t[k - 1]
  <2>1. \A k \in 1..n : k \in 1..Len(q)
    OBVIOUS
  <2> QED
    BY <2>1, ToldDef DEF t
<1>2. 0 \in S /\ n \in Nat
  BY <1>1
<1>3. ASSUME NEW i \in 1..n, i - 1 \in S
      PROVE  i \in S
  BY <1>1, <1>3
<1>4. n \in 0..n
  OBVIOUS
<1> HIDE DEF S
<1>5. n \in S
  BY <1>2, <1>3, <1>4, CountedUp
<1> QED
  BY <1>5 DEF S, t

\* Appending to a sequence with something in front of it.
LEMMA CatAppend ==
  \A a, b \in Seq(Announced) : \A x \in Announced :
    Append(a \o b, x) = a \o Append(b, x)
OBVIOUS

\* J is I without the first entry of a queue that announces at I.
Shifted(q, I, J) ==
  /\ \A i \in 1..Len(Tail(q)) : i + 1 \in I <=> i \in J
  /\ \A i \in 1..Len(q) : i \in I => Word(q[i]) \in Announced

\* What a queue tells without its first entry.
LEMMA ToldTail ==
  ASSUME NEW T, NEW q \in Seq(T), q # <<>>, NEW I, NEW J, Shifted(q, I, J)
  PROVE  \A n \in 0..Len(Tail(q)) :
           /\ 1 \in I => Told(q, I)[n + 1] = <<Word(Head(q))>> \o Told(Tail(q), J)[n]
           /\ 1 \notin I => Told(q, I)[n + 1] = Told(Tail(q), J)[n]
           /\ Told(Tail(q), J)[n] \in Seq(Announced)
<1> USE DEF Shifted
<1> DEFINE r == Tail(q)
           t == Told(q, I)
           u == Told(r, J)
           w == IF 1 \in I THEN <<Word(Head(q))>> ELSE <<>>
           S == {k \in 0..Len(r) : t[k + 1] = w \o u[k]}
<1>1. /\ Len(q) \in Nat /\ Len(r) \in Nat /\ Len(q) = Len(r) + 1 /\ Head(q) = q[1]
      /\ \A i \in 1..Len(r) : r[i] = q[i + 1]
  OBVIOUS
<1>2. \A i \in 1..Len(r) : i + 1 \in 1..Len(q) /\ i + 1 # 1 /\ (i + 1) - 1 = i
  BY <1>1
<1> HIDE DEF r, t, u, w, S
<1>3. /\ t[0] = <<>>
      /\ \A k \in 1..Len(q) :
           /\ k \in I => t[k] = Append(t[k - 1], Word(q[k]))
           /\ k \notin I => t[k] = t[k - 1]
  <2>1. Len(q) \in Nat
    BY <1>1
  <2> QED
    BY <2>1, ToldDef, Zenon DEF t
<1>4. /\ u[0] = <<>>
      /\ \A k \in 1..Len(r) :
           /\ k \in J => u[k] = Append(u[k - 1], Word(r[k]))
           /\ k \notin J => u[k] = u[k - 1]
  <2>1. Len(r) \in Nat
    BY <1>1
  <2> QED
    BY <2>1, ToldDef, Zenon DEF u
<1>5. \A i \in 1..Len(r) : i \in J => Word(r[i]) \in Announced
  BY <1>1, <1>2 DEF r
<1>6. \A k \in 0..Len(r) : u[k] \in Seq(Announced)
  BY <1>1, <1>5, ToldType DEF u
<1>7. 1 \in 1..Len(q) /\ 1 - 1 = 0
  BY <1>1
<1>8. 1 \in I => Word(Head(q)) \in Announced
  BY <1>1, <1>7
<1>9. w \in Seq(Announced)
  <2>1. 1 \in I => <<Word(Head(q))>> \in Seq(Announced)
    BY <1>8
  <2> QED
    BY <2>1 DEF w
<1>10. t[1] = w
  <2>1. 1 \in I => t[1] = Append(<<>>, Word(q[1]))
    BY <1>3, <1>7
  <2>2. 1 \notin I => t[1] = <<>>
    BY <1>3, <1>7
  <2> QED
    BY <1>1, <2>1, <2>2 DEF w
<1>11. 0 \in S
  <2>1. 0 \in 0..Len(r) /\ w \o <<>> = w /\ 0 + 1 = 1
    BY <1>1, <1>9
  <2> QED
    BY <1>4, <1>10, <2>1 DEF S
<1>12. ASSUME NEW i \in 1..Len(r), i - 1 \in S
       PROVE  i \in S
  <2>1. t[i] = w \o u[i - 1] /\ i - 1 \in 0..Len(r) /\ i \in 0..Len(r)
    <3>1. t[(i - 1) + 1] = w \o u[i - 1] /\ i - 1 \in 0..Len(r)
      BY <1>12 DEF S
    <3> QED
      BY <1>1, <3>1
  <2>2. u[i - 1] \in Seq(Announced)
    BY <1>6, <2>1
  <2>3. i + 1 \in 1..Len(q) /\ (i + 1) - 1 = i /\ r[i] = q[i + 1]
    BY <1>1, <1>2
  <2>4. CASE i \in J
    <3>1. i + 1 \in I
      BY <2>4 DEF r
    <3>2. t[i + 1] = Append(w \o u[i - 1], Word(r[i]))
      BY <1>3, <2>1, <2>3, <3>1
    <3>3. u[i] = Append(u[i - 1], Word(r[i])) /\ Word(r[i]) \in Announced
      BY <1>4, <1>5, <2>4
    <3>4. Append(w \o u[i - 1], Word(r[i])) = w \o Append(u[i - 1], Word(r[i]))
      <4> DEFINE x == Word(r[i])
                 v == u[i - 1]
      <4>1. v \in Seq(Announced) /\ x \in Announced
        BY <2>2, <3>3
      <4> HIDE DEF x, v
      <4>2. Append(w \o v, x) = w \o Append(v, x)
        BY <1>9, <4>1, CatAppend
      <4> QED
        BY <4>2 DEF x, v
    <3> QED
      BY <2>1, <3>2, <3>3, <3>4 DEF S
  <2>5. CASE i \notin J
    <3>1. i + 1 \notin I
      BY <2>5 DEF r
    <3> QED
      BY <1>3, <1>4, <2>1, <2>3, <2>5, <3>1 DEF S
  <2> QED
    BY <2>4, <2>5
<1>13. \A k \in 0..Len(r) : t[k + 1] = w \o u[k]
  BY <1>1, <1>11, <1>12, CountedUp DEF S
<1>14. \A k \in 0..Len(r) : <<>> \o u[k] = u[k]
  BY <1>6
<1> QED
  BY <1>6, <1>13, <1>14 DEF r, t, u, w

\* What a queue tells with one more entry.
LEMMA ToldAppend ==
  ASSUME NEW T, NEW q \in Seq(T), NEW x \in T, NEW I, NEW J,
         \A i \in 1..Len(q) : i \in J <=> i \in I
  PROVE  /\ \A n \in 0..Len(q) : Told(Append(q, x), J)[n] = Told(q, I)[n]
         /\ Len(Append(q, x)) = Len(q) + 1
         /\ Len(q) + 1 \in J =>
              Told(Append(q, x), J)[Len(q) + 1] = Append(Told(q, I)[Len(q)], Word(x))
         /\ Len(q) + 1 \notin J =>
              Told(Append(q, x), J)[Len(q) + 1] = Told(q, I)[Len(q)]
<1> DEFINE r == Append(q, x)
           k == Len(q)
<1>1. /\ k \in Nat /\ Len(r) = k + 1 /\ Len(r) \in Nat /\ r[k + 1] = x
      /\ \A i \in 1..k : r[i] = q[i]
  OBVIOUS
<1> HIDE DEF r
<1>2. ASSUME NEW n \in 0..k
      PROVE  Told(r, J)[n] = Told(q, I)[n]
  <2>1. Alike(n, q, I, r, J)
    BY <1>1 DEF Alike
  <2>2. Len(q) \in Nat /\ Len(r) \in Nat
    BY <1>1
  <2> HIDE DEF k
  <2>3. Told(q, I)[n] = Told(r, J)[n]
    BY <2>1, <2>2, ToldPrefix
  <2> QED
    BY <2>3
<1>3. Told(r, J)[k] = Told(q, I)[k]
  BY <1>1, <1>2
<1>4. /\ k + 1 \in J => Told(r, J)[k + 1] = Append(Told(r, J)[(k + 1) - 1], Word(r[k + 1]))
      /\ k + 1 \notin J => Told(r, J)[k + 1] = Told(r, J)[(k + 1) - 1]
  <2>1. Len(r) \in Nat /\ k + 1 \in 1..Len(r)
    BY <1>1
  <2> QED
    BY <2>1, ToldDef
<1>5. (k + 1) - 1 = k
  BY <1>1
<1> QED
  BY <1>1, <1>2, <1>3, <1>4, <1>5 DEF r

\* A sequence built one entry at a time.
LEMMA OneMore ==
  ASSUME NEW k \in Nat, NEW x, \A i \in 1..k : x[i] \in Announced
  PROVE  /\ [i \in 1..0 |-> x[i]] = <<>>
         /\ \A m \in 1..k : [i \in 1..m |-> x[i]] = Append([i \in 1..(m - 1) |-> x[i]], x[m])
<1>1. [i \in 1..0 |-> x[i]] = <<>>
  OBVIOUS
<1>2. ASSUME NEW m \in 1..k
      PROVE  [i \in 1..m |-> x[i]] = Append([i \in 1..(m - 1) |-> x[i]], x[m])
  <2> DEFINE a == [i \in 1..m |-> x[i]]
             b == [i \in 1..(m - 1) |-> x[i]]
             c == Append(b, x[m])
  <2>1. b \in Seq(Announced) /\ a \in Seq(Announced) /\ x[m] \in Announced
    OBVIOUS
  <2>2. Len(a) = m /\ Len(b) = m - 1 /\ \A i \in 1..(m - 1) : b[i] = x[i]
    OBVIOUS
  <2>3. \A i \in 1..m : a[i] = x[i]
    OBVIOUS
  <2> HIDE DEF a, b
  <2>4. /\ c \in Seq(Announced) /\ Len(c) = m /\ c[m] = x[m]
        /\ \A i \in 1..(m - 1) : c[i] = b[i]
    BY <2>1, <2>2
  <2>5. \A i \in 1..m : a[i] = c[i]
    BY <2>2, <2>3, <2>4
  <2> HIDE DEF c
  <2>6. a = c
    BY <2>1, <2>2, <2>4, <2>5
  <2> QED
    BY <2>6 DEF a, b, c
<1> QED
  BY <1>1, <1>2

\* Of the n + k entries of q the last k are ours, and they say x.
OnlyLast(q, J, n, k, x) ==
  /\ \A i \in 1..n : i \notin J
  /\ \A i \in 1..k : n + i \in J /\ Word(q[n + i]) = x[i] /\ x[i] \in Announced

\* A queue of which exactly the last k entries are ours.
LEMMA ToldLast ==
  ASSUME NEW q, NEW n \in Nat, NEW k \in Nat, Len(q) = n + k, NEW J, NEW x,
         OnlyLast(q, J, n, k, x)
  PROVE  Told(q, J)[n + k] = [i \in 1..k |-> x[i]]
<1> /\ \A i \in 1..n : i \notin J
    /\ \A i \in 1..k : n + i \in J /\ Word(q[n + i]) = x[i] /\ x[i] \in Announced
  BY DEF OnlyLast
<1> DEFINE t == Told(q, J)
           u == [m \in 0..k |-> [i \in 1..m |-> x[i]]]
           S == {m \in 0..k : t[n + m] = u[m]}
<1> HIDE DEF t
<1>1. Len(q) \in Nat /\ n \in 0..Len(q)
  OBVIOUS
<1>2. t[n] = <<>>
  BY <1>1, ToldNothing DEF t
<1>3. \A m \in 1..k : n + m \in 1..Len(q) /\ (n + m) - 1 = n + (m - 1)
  OBVIOUS
<1>4. \A i \in 1..Len(q) : i \in J => t[i] = Append(t[i - 1], Word(q[i]))
  BY <1>1, ToldDef, Zenon DEF t
<1>5. \A m \in 1..k : t[n + m] = Append(t[n + (m - 1)], x[m])
  BY <1>3, <1>4
<1>6. u[0] = <<>> /\ \A m \in 1..k : u[m] = Append(u[m - 1], x[m])
  <2>1. 0 \in 0..k /\ \A m \in 1..k : m \in 0..k /\ m - 1 \in 0..k
    OBVIOUS
  <2>2. /\ [i \in 1..0 |-> x[i]] = <<>>
        /\ \A m \in 1..k : [i \in 1..m |-> x[i]] = Append([i \in 1..(m - 1) |-> x[i]], x[m])
    BY OneMore
  <2>3. \A m \in 0..k : u[m] = [i \in 1..m |-> x[i]]
    OBVIOUS
  <2> HIDE DEF u
  <2> QED
    BY <2>1, <2>2, <2>3
<1>10. \A m \in 1..k : m \in 0..k
  OBVIOUS
<1> HIDE DEF u
<1>7. 0 \in S
  BY <1>2, <1>6
<1>8. ASSUME NEW i \in 1..k, i - 1 \in S
      PROVE  i \in S
  BY <1>5, <1>6, <1>8, <1>10
<1> HIDE DEF S
<1>9. k \in S
  <2>1. 0..k \subseteq S
    BY <1>7, <1>8, CountedUp
  <2> QED
    BY <2>1
<1>11. k \in 0..k
  OBVIOUS
<1> QED
  BY <1>9, <1>11 DEF S, t, u

-----------------------------------------------------------------------------
(* What is on its way to the list.                                         *)

\* The two queues, as sequences; what is ours in them are announcements.
LEMMA LineType ==
  ASSUME RTypeOK
  PROVE  /\ mainq \in Seq(RegistrySources) /\ wire \in Seq(RegistryMessages)
         /\ Len(mainq) \in Nat /\ Len(wire) \in Nat
         /\ DOMAIN mainq = 1..Len(mainq) /\ DOMAIN wire = 1..Len(wire)
         /\ \A i \in 1..Len(mainq) : i \in Current => Word(mainq[i]) \in Announced
         /\ \A i \in 1..Len(wire) : i \in Mine => Word(wire[i]) \in Announced
<1>1. mainq \in Seq(RegistrySources) /\ wire \in Seq(RegistryMessages)
  BY DEF RTypeOK, CoreTypeOK
<1>2. /\ Len(mainq) \in Nat /\ Len(wire) \in Nat
      /\ DOMAIN mainq = 1..Len(mainq) /\ DOMAIN wire = 1..Len(wire)
  BY <1>1
<1>3. \A x \in RegistrySources : Announces(x) => Word(x) \in Announced
  BY DEF RegistrySources, CoreSources, Announces, Word, Announced
<1>4. \A x \in RegistryMessages : Announces(x) => Word(x) \in Announced
  BY DEF RegistryMessages, CoreMessages, Announces, Word, Announced
<1>5. ASSUME NEW i \in 1..Len(mainq), i \in Current
      PROVE  Word(mainq[i]) \in Announced
  <2>1. mainq[i] \in RegistrySources /\ Announces(mainq[i])
    BY <1>1, <1>5 DEF Current
  <2> QED
    BY <1>3, <2>1
<1>6. ASSUME NEW i \in 1..Len(wire), i \in Mine
      PROVE  Word(wire[i]) \in Announced
  <2>1. wire[i] \in RegistryMessages /\ Announces(wire[i])
    BY <1>1, <1>6 DEF Mine
  <2> QED
    BY <1>4, <2>1
<1> QED
  BY <1>1, <1>2, <1>5, <1>6

\* What they tell, length by length.
LEMMA LineToldType ==
  ASSUME RTypeOK
  PROVE  /\ \A n \in 0..Len(mainq) : Told(mainq, Current)[n] \in Seq(Announced)
         /\ \A n \in 0..Len(wire) : Told(wire, Mine)[n] \in Seq(Announced)
         /\ InTransit \in Seq(Announced)
<1>1. \A n \in 0..Len(mainq) : Told(mainq, Current)[n] \in Seq(Announced)
  BY LineType, ToldType
<1>2. \A n \in 0..Len(wire) : Told(wire, Mine)[n] \in Seq(Announced)
  BY LineType, ToldType
<1>3. Len(mainq) \in 0..Len(mainq) /\ Len(wire) \in 0..Len(wire)
  BY LineType
<1> QED
  BY <1>1, <1>2, <1>3 DEF InTransit

\* A message more, of this session.
LEMMA WireMine ==
  ASSUME RTypeOK, NEW m \in RegistryMessages, wire' = Append(wire, m),
         Announces(m), m.to = registry, UNCHANGED <<mainq, generation, registry>>
  PROVE  /\ InTransit' = Append(InTransit, Word(m))
         /\ Current' = Current
         /\ \A n \in 0..Len(wire) : Told(wire', Mine')[n] = Told(wire, Mine)[n]
<1>1. /\ Len(wire') = Len(wire) + 1 /\ wire'[Len(wire) + 1] = m
      /\ DOMAIN wire' = 1..(Len(wire) + 1) /\ DOMAIN wire = 1..Len(wire)
      /\ \A i \in 1..Len(wire) : wire'[i] = wire[i]
      /\ Len(wire) + 1 \in DOMAIN wire' /\ \A i \in 1..Len(wire) : i \in DOMAIN wire'
  BY LineType
<1>2. \A i \in 1..Len(wire) : i \in Mine' <=> i \in Mine
  BY <1>1 DEF Mine
<1>3. Len(wire) + 1 \in Mine'
  BY <1>1 DEF Mine
<1>4. Current' = Current
  BY DEF Current
<1> DEFINE a == Told(mainq, Current)[Len(mainq)]
           b == Told(wire, Mine)[Len(wire)]
<1>5. /\ \A n \in 0..Len(wire) : Told(wire', Mine')[n] = Told(wire, Mine)[n]
      /\ Told(wire', Mine')[Len(wire) + 1] = Append(b, Word(m))
  BY <1>2, <1>3, LineType, ToldAppend
<1>6. InTransit' = a \o Append(b, Word(m)) /\ InTransit = a \o b
  BY <1>1, <1>4, <1>5 DEF InTransit
<1>7. a \in Seq(Announced) /\ b \in Seq(Announced)
  BY LineToldType, LineType
<1>8. Word(m) \in Announced
  BY DEF RegistryMessages, CoreMessages, Announces, Word, Announced
<1> HIDE DEF a, b
<1>9. Append(a \o b, Word(m)) = a \o Append(b, Word(m))
  BY <1>7, <1>8, CatAppend
<1> QED
  BY <1>4, <1>5, <1>6, <1>9

\* A message more that announces nothing.
LEMMA WireOther ==
  ASSUME RTypeOK, NEW m \in RegistryMessages, wire' = Append(wire, m),
         ~Announces(m), UNCHANGED <<mainq, generation, registry>>
  PROVE  /\ InTransit' = InTransit
         /\ Current' = Current
         /\ \A n \in 0..Len(wire) : Told(wire', Mine')[n] = Told(wire, Mine)[n]
<1>1. /\ Len(wire') = Len(wire) + 1 /\ wire'[Len(wire) + 1] = m
      /\ DOMAIN wire' = 1..(Len(wire) + 1) /\ DOMAIN wire = 1..Len(wire)
      /\ \A i \in 1..Len(wire) : wire'[i] = wire[i]
      /\ Len(wire) + 1 \in DOMAIN wire' /\ \A i \in 1..Len(wire) : i \in DOMAIN wire'
  BY LineType
<1>2. \A i \in 1..Len(wire) : i \in Mine' <=> i \in Mine
  BY <1>1 DEF Mine
<1>3. Len(wire) + 1 \notin Mine'
  BY <1>1 DEF Mine
<1>4. Current' = Current
  BY DEF Current
<1>5. /\ \A n \in 0..Len(wire) : Told(wire', Mine')[n] = Told(wire, Mine)[n]
      /\ Told(wire', Mine')[Len(wire) + 1] = Told(wire, Mine)[Len(wire)]
  BY <1>2, <1>3, LineType, ToldAppend
<1> QED
  BY <1>1, <1>4, <1>5 DEF InTransit

\* The loop thread reads a message: what the rest of the wire tells.
LEMMA WireRead ==
  ASSUME RTypeOK, wire # <<>>, wire' = Tail(wire), UNCHANGED registry
  PROVE  /\ Len(wire) = Len(wire') + 1 /\ Len(wire') \in Nat
         /\ \A i \in 1..Len(wire') : wire'[i] = wire[i + 1]
         /\ \A n \in 0..Len(wire') :
              /\ 1 \in Mine => Told(wire, Mine)[n + 1] =
                                <<Word(Head(wire))>> \o Told(wire', Mine')[n]
              /\ 1 \notin Mine => Told(wire, Mine)[n + 1] = Told(wire', Mine')[n]
              /\ Told(wire', Mine')[n] \in Seq(Announced)
<1>1. /\ wire \in Seq(RegistryMessages)
      /\ \A i \in 1..Len(wire) : i \in Mine => Word(wire[i]) \in Announced
  BY LineType
<1>2. /\ Len(wire) = Len(wire') + 1 /\ Len(wire') \in Nat /\ DOMAIN wire' = 1..Len(wire')
      /\ \A i \in 1..Len(wire') : wire'[i] = wire[i + 1]
      /\ \A i \in 1..Len(wire') : i + 1 \in DOMAIN wire /\ i \in DOMAIN wire'
  BY <1>1
<1>3. \A i \in 1..Len(Tail(wire)) : i + 1 \in Mine <=> i \in Mine'
  BY <1>2 DEF Mine
<1>4. Shifted(wire, Mine, Mine')
  BY <1>1, <1>3 DEF Shifted
<1>5. \A n \in 0..Len(Tail(wire)) :
        /\ 1 \in Mine =>
             Told(wire, Mine)[n + 1] = <<Word(Head(wire))>> \o Told(Tail(wire), Mine')[n]
        /\ 1 \notin Mine => Told(wire, Mine)[n + 1] = Told(Tail(wire), Mine')[n]
        /\ Told(Tail(wire), Mine')[n] \in Seq(Announced)
  BY <1>1, <1>4, ToldTail
<1> QED
  BY <1>2, <1>5

\* The main context dispatches a source: what those behind it tell.
LEMMA MainRead ==
  ASSUME RTypeOK, mainq # <<>>, mainq' = Tail(mainq), UNCHANGED generation
  PROVE  /\ Len(mainq) = Len(mainq') + 1 /\ Len(mainq') \in Nat
         /\ \A i \in 1..Len(mainq') : mainq'[i] = mainq[i + 1]
         /\ \A n \in 0..Len(mainq') :
              /\ 1 \in Current => Told(mainq, Current)[n + 1] =
                                <<Word(Head(mainq))>> \o Told(mainq', Current')[n]
              /\ 1 \notin Current => Told(mainq, Current)[n + 1] = Told(mainq', Current')[n]
              /\ Told(mainq', Current')[n] \in Seq(Announced)
<1>1. /\ mainq \in Seq(RegistrySources)
      /\ \A i \in 1..Len(mainq) : i \in Current => Word(mainq[i]) \in Announced
  BY LineType
<1>2. /\ Len(mainq) = Len(mainq') + 1 /\ Len(mainq') \in Nat /\ DOMAIN mainq' = 1..Len(mainq')
      /\ \A i \in 1..Len(mainq') : mainq'[i] = mainq[i + 1]
      /\ \A i \in 1..Len(mainq') : i + 1 \in DOMAIN mainq /\ i \in DOMAIN mainq'
  BY <1>1
<1>3. \A i \in 1..Len(Tail(mainq)) : i + 1 \in Current <=> i \in Current'
  BY <1>2 DEF Current
<1>4. Shifted(mainq, Current, Current')
  BY <1>1, <1>3 DEF Shifted
<1>5. \A n \in 0..Len(Tail(mainq)) :
        /\ 1 \in Current =>
             Told(mainq, Current)[n + 1] = <<Word(Head(mainq))>> \o Told(Tail(mainq), Current')[n]
        /\ 1 \notin Current => Told(mainq, Current)[n + 1] = Told(Tail(mainq), Current')[n]
        /\ Told(Tail(mainq), Current')[n] \in Seq(Announced)
  BY <1>1, <1>4, ToldTail
<1> QED
  BY <1>2, <1>5

\* A source is attached last.
LEMMA MainAttached ==
  ASSUME RTypeOK, NEW e \in RegistrySources, mainq' = Append(mainq, e),
         UNCHANGED generation
  PROVE  /\ Len(mainq') = Len(mainq) + 1 /\ mainq'[Len(mainq) + 1] = e
         /\ \A i \in 1..Len(mainq) : mainq'[i] = mainq[i]
         /\ \A n \in 0..Len(mainq) : Told(mainq', Current')[n] = Told(mainq, Current)[n]
         /\ IF Announces(e) /\ e.gen = generation
              THEN Told(mainq', Current')[Len(mainq) + 1] =
                     Append(Told(mainq, Current)[Len(mainq)], Word(e))
              ELSE Told(mainq', Current')[Len(mainq) + 1] =
                     Told(mainq, Current)[Len(mainq)]
<1>1. /\ Len(mainq') = Len(mainq) + 1 /\ mainq'[Len(mainq) + 1] = e
      /\ DOMAIN mainq' = 1..(Len(mainq) + 1) /\ DOMAIN mainq = 1..Len(mainq)
      /\ \A i \in 1..Len(mainq) : mainq'[i] = mainq[i]
      /\ Len(mainq) + 1 \in DOMAIN mainq'
      /\ \A i \in 1..Len(mainq) : i \in DOMAIN mainq'
  BY LineType
<1>2. \A i \in 1..Len(mainq) : i \in Current' <=> i \in Current
  BY <1>1 DEF Current
<1>3. Len(mainq) + 1 \in Current' <=> Announces(e) /\ e.gen = generation
  BY <1>1 DEF Current
<1>4. /\ \A n \in 0..Len(mainq) : Told(mainq', Current')[n] = Told(mainq, Current)[n]
      /\ Len(mainq) + 1 \in Current' =>
           Told(mainq', Current')[Len(mainq) + 1] =
             Append(Told(mainq, Current)[Len(mainq)], Word(e))
      /\ Len(mainq) + 1 \notin Current' =>
           Told(mainq', Current')[Len(mainq) + 1] = Told(mainq, Current)[Len(mainq)]
  BY <1>2, LineType, ToldAppend
<1> QED
  BY <1>1, <1>3, <1>4

-----------------------------------------------------------------------------
(* The steps, by what they do to the session and to what is on its way.    *)

\* What a frame says of a roundtrip; frames of other calls say NoCall.
Call(f) == [n |-> f.n, mark |-> f.mark, mdone |-> f.mdone]
\* The frames that are no roundtrip, and all that a stack holds.
NoCall == [n |-> 0, mark |-> NoMark, mdone |-> FALSE]
Calls(st) == {Call(st[i]) : i \in DOMAIN st}

\* A roundtrip whose token has been dispatched.
Drained(c) == [n |-> c.n, mark |-> c.mark, mdone |-> TRUE]

\* The call of sync() that begins now.
NewCall == [n |-> lastReq + 1, mark |-> Mark, mdone |-> FALSE]

Adds(calls) == Calls(stack') \subseteq Calls(stack) \cup {NoCall} \cup calls

\* Handlers come and go; nothing of the session changes.
Rests ==
  /\ Adds({})
  /\ UNCHANGED <<connected, link, toServer, wire, lastReq, mainq, regVars, serverVars>>

\* sync() puts its question at the end of what is asked.
Sends ==
  /\ connected
  /\ Adds({NewCall})
  /\ lastReq' = lastReq + 1
  /\ toServer' = Append(toServer, SyncRequest)
  /\ UNCHANGED <<connected, link, wire, mainq, regVars, serverVars>>

\* connect() succeeds: a new connection, with nothing on its way.
Opens ==
  /\ ~connected /\ ~running
  /\ Adds({})
  /\ connected' = TRUE /\ link' = TRUE
  /\ toServer' = <<>> /\ wire' = <<>>
  /\ UNCHANGED <<lastReq, mainq, regVars, serverVars>>

\* start() binds the registry: a session with an empty list.
Begins ==
  /\ connected /\ ~running /\ globals = {}
  /\ Adds({})
  /\ lastReq' = lastReq + 1
  /\ toServer' = Append(toServer, [kind |-> "bind", n |-> lastReq + 1])
  /\ registry' = lastReq + 1
  /\ bound' = bound \cup {lastReq + 1}
  /\ generation' = generation + 1
  /\ running' = TRUE
  /\ UNCHANGED <<connected, link, wire, mainq, globals, serverVars>>

\* start() cannot bind the registry.
Fails ==
  /\ ~running
  /\ Adds({})
  /\ registry' = NULL
  /\ UNCHANGED <<connected, link, toServer, wire, lastReq, mainq,
                 running, generation, globals, bound, serverVars>>

\* stop() or reset(): the end of the session.  A stop() on a lost connection
\* leaves the proxy for the reset to forget.
Ends ==
  /\ Adds({})
  /\ registry' = NULL \/ registry' = registry
  /\ running' = FALSE
  /\ generation' = generation + 1
  /\ globals' = IF running THEN globals ELSE {}
  /\ bound' = {} /\ subs' = {}
  /\ UNCHANGED <<connected, link, toServer, wire, lastReq, mainq, server, serial>>

\* The list of an ended session is emptied.
Clears ==
  /\ ~running
  /\ Adds({})
  /\ globals' = {}
  /\ UNCHANGED <<connected, link, toServer, wire, lastReq, mainq,
                 registry, running, generation, bound, serverVars>>

\* disconnect(): the connection goes, the proxies with it.
Disconnects ==
  /\ Adds({})
  /\ connected' = FALSE /\ link' = FALSE
  /\ toServer' = <<>> /\ wire' = <<>>
  /\ bound' = {} /\ subs' = {}
  /\ UNCHANGED <<lastReq, mainq, registry, running, generation, globals, server, serial>>

\* The main context dispatches the token of an answer.
TakesToken ==
  /\ mainq # <<>> /\ Head(mainq).kind = "token"
  /\ mainq' = Tail(mainq)
  /\ Adds({Drained(c) : c \in {d \in Calls(stack) : d.n = Head(mainq).n}})
  /\ UNCHANGED <<connected, link, toServer, wire, lastReq, regVars, serverVars>>

\* The main context applies an announcement to the list.
TakesEvent ==
  /\ mainq # <<>> /\ Announces(Head(mainq))
  /\ mainq' = Tail(mainq)
  /\ Adds({})
  /\ LET e == Head(mainq)
         same == {x \in globals : x.id = e.g.id}
         new == [id |-> e.g.id, serial |-> e.g.serial, from |-> e.from]
     IN  globals' = IF running /\ e.gen = generation
                      THEN (globals \ same) \cup (IF e.kind = "add" THEN {new} ELSE {})
                      ELSE globals
  /\ UNCHANGED <<connected, link, toServer, wire, lastReq,
                 registry, running, generation, bound, serverVars>>

\* The loop thread reads an answer and may queue its token.
ReadsAnswer ==
  /\ connected
  /\ wire # <<>> /\ Head(wire).kind \in {"done", "error"}
  /\ wire' = Tail(wire)
  /\ \/ mainq' = mainq
     \/ Head(wire).kind = "done" /\ mainq' = Append(mainq, Token(Head(wire).n))
  /\ Adds({})
  /\ UNCHANGED <<connected, link, toServer, lastReq, regVars, serverVars>>

\* The loop thread reads an announcement and queues it for the session.
ReadsNews ==
  /\ connected
  /\ wire # <<>> /\ Announces(Head(wire))
  /\ wire' = Tail(wire)
  /\ LET m == Head(wire)
         e == [kind |-> m.kind, gen |-> generation, from |-> m.to, g |-> m.g]
     IN  mainq' = IF m.to \in bound THEN Append(mainq, e) ELSE mainq
  /\ Adds({})
  /\ UNCHANGED <<connected, link, toServer, lastReq, regVars, serverVars>>

\* The server answers a question of Core.
Answers ==
  /\ link
  /\ toServer # <<>> /\ toServer' = Tail(toServer)
  /\ \/ /\ Head(toServer).kind = "sync"
        /\ \E kind \in {"done", "error"} :
             wire' = Append(wire, [kind |-> kind, n |-> Head(toServer).n])
     \/ Head(toServer).kind = "other" /\ UNCHANGED wire
  /\ UNCHANGED <<connected, link, lastReq, mainq, stack, regVars, serverVars>>

-----------------------------------------------------------------------------
(* Calls on the stack.                                                     *)

\* One more frame.
LEMMA PushCalls ==
  ASSUME NEW st \in Seq(RFrame), NEW f \in RFrame
  PROVE  Calls(<<f>> \o st) \subseteq Calls(st) \cup {Call(f)}
<1> DEFINE s == <<f>> \o st
<1>1. \A i \in DOMAIN s : s[i] = f \/ (i - 1 \in DOMAIN st /\ s[i] = st[i - 1])
  OBVIOUS
<1> HIDE DEF s
<1>2. Calls(s) \subseteq Calls(st) \cup {Call(f)}
  BY <1>1 DEF Calls
<1> QED
  BY <1>2 DEF s

\* One frame less.
LEMMA PopCalls ==
  ASSUME NEW st \in Seq(RFrame), st # <<>>
  PROVE  /\ Calls(Tail(st)) \subseteq Calls(st)
         /\ Call(Head(st)) \in Calls(st)
<1>1. \A i \in DOMAIN Tail(st) : i + 1 \in DOMAIN st /\ Tail(st)[i] = st[i + 1]
  OBVIOUS
<1>2. 1 \in DOMAIN st /\ Head(st) = st[1]
  OBVIOUS
<1> QED
  BY <1>1, <1>2 DEF Calls

\* A handler begins, or none.
LEMMA EmitCalls ==
  ASSUME NEW rest \in Seq(RFrame), Emit(rest)
  PROVE  Calls(stack') \subseteq Calls(rest) \cup {NoCall}
<1>1. PICK h \in Handlers : stack' = h \o rest
  BY DEF Emit
<1>2. CASE h = <<>>
  <2>1. stack' = rest
    BY <1>1, <1>2
  <2> QED
    BY <2>1
<1>3. CASE h = <<App>>
  <2>1. Call(App) = NoCall
    BY DEF Call, NoCall, App, Suspension, Frame
  <2>2. stack' = <<App>> \o rest
    BY <1>1, <1>3
  <2> QED
    BY <2>1, <2>2, AppType, PushCalls
<1> QED
  BY <1>1, <1>2, <1>3 DEF Handlers

\* The handlers of notify::connected begin, or they have already begun.
LEMMA NotifiedCalls ==
  ASSUME NEW rest \in Seq(RFrame), stack' = Notified(rest)
  PROVE  Calls(stack') \subseteq Calls(rest) \cup {NoCall}
<1>1. Call(Notify) = NoCall
  BY DEF Call, NoCall, Notify, Suspension, Frame
<1>2. CASE stack' = rest
  BY <1>2
<1>3. CASE stack' = <<Notify>> \o rest
  BY <1>1, <1>3, NotifyType, PushCalls
<1> QED
  BY <1>2, <1>3 DEF Notified

\* A call suspended, and a handler on top of it.
LEMMA SuspendCalls ==
  ASSUME NEW rest \in Seq(RFrame), NEW op \in RegistryFrames,
         NEW ctx \in BOOLEAN, NEW timed \in BOOLEAN
  PROVE  /\ <<Suspension(op, ctx, timed)>> \o rest \in Seq(RFrame)
         /\ Calls(<<Suspension(op, ctx, timed)>> \o rest) \subseteq Calls(rest) \cup {NoCall}
         /\ \/ Emit(<<Suspension(op, ctx, timed)>> \o rest)
            \/ stack' = Notified(<<Suspension(op, ctx, timed)>> \o rest)
            => Calls(stack') \subseteq Calls(rest) \cup {NoCall}
<1> DEFINE f == Suspension(op, ctx, timed)
<1>1. f \in RFrame /\ Call(f) = NoCall
  BY SuspensionType DEF Call, NoCall, Suspension, Frame
<1> HIDE DEF f
<1>2. <<f>> \o rest \in Seq(RFrame)
  BY <1>1
<1>3. Calls(<<f>> \o rest) \subseteq Calls(rest) \cup {NoCall}
  BY <1>1, PushCalls
<1>4. Emit(<<f>> \o rest) \/ stack' = Notified(<<f>> \o rest) =>
        Calls(stack') \subseteq Calls(rest) \cup {NoCall}
  BY <1>2, <1>3, EmitCalls, NotifiedCalls
<1> QED
  BY <1>2, <1>3, <1>4 DEF f

\* The innermost frame replaced.
LEMMA SetTopCalls ==
  ASSUME RTypeOK, stack # <<>>, NEW f \in RFrame, SetTop(f)
  PROVE  Calls(stack') \subseteq Calls(stack) \cup {Call(f)}
<1>1. stack \in Seq(RFrame) /\ Tail(stack) \in Seq(RFrame)
  BY DEF RTypeOK, CoreTypeOK, RFrame
<1>2. Calls(stack') \subseteq Calls(Tail(stack)) \cup {Call(f)}
  BY <1>1, PushCalls DEF SetTop
<1> QED
  BY <1>1, <1>2, PopCalls

\* A failed start.
LEMMA FailedCalls ==
  ASSUME NEW st \in Seq(RFrame), Failed(st)
  PROVE  Calls(stack') \subseteq Calls(st)
<1>1. CASE st # <<>> /\ Head(st).op = "rsync"
  BY <1>1, PopCalls DEF Failed
<1>2. CASE ~(st # <<>> /\ Head(st).op = "rsync")
  BY <1>2 DEF Failed
<1> QED
  BY <1>1, <1>2

-----------------------------------------------------------------------------
(* Each step has one of these effects.                                     *)

\* What the theorems below assume: the main context is not the default one,
\* where the loop thread applies announcements past the queued ones; and the
\* two conditions on handlers that ProxiesAreOwned needs.
Settings == ~DefaultContext /\ "reconnect" \notin Reentry /\ ~Interrupts

\* What the steps are taken under.
Sound == Settings /\ RTypeOK /\ SessionInv /\ OwnerInv /\ subs \subseteq bound

\* The steps of Core.
LEMMA CoreEffect ==
  ASSUME Sound,
         \/ MayConnect /\ Keep(Connect)
         \/ Keep(AppSource) \/ Keep(ToggleLoop) \/ Keep(SyncWake)
         \/ Keep(SyncTimeout) \/ Keep(DrainEnd) \/ Keep(HandlerReturn) \/ Keep(NotifyReturn)
  PROVE  Rests \/ Opens
<1> USE DEF Sound, Settings
<1>0. stack \in Seq(RFrame)
  BY DEF RTypeOK, CoreTypeOK, RFrame
<1>1. CASE MayConnect /\ Keep(Connect)
  <2>1. Connected /\ stack' = Notified(stack)
    BY <1>1 DEF Keep, Connect
  <2>2. Adds({})
    BY <1>0, <2>1, NotifiedCalls DEF Adds
  <2>3. ~connected /\ ~running
    BY <1>1, <2>1, ConnectIsFresh DEF Connected
  <2> QED
    BY <1>1, <2>2, <2>3 DEF Opens, Keep, Connect, Connected
<1>5. CASE Keep(AppSource)
  <2>1. stack' = <<App>> \o stack
    BY <1>5 DEF Keep, AppSource, Push
  <2>2. App = Suspension("app", FALSE, FALSE) /\ "app" \in RegistryFrames
    BY DEF App, RegistryFrames, CoreFrames
  <2>3. Adds({})
    BY <1>0, <2>1, <2>2, SuspendCalls DEF Adds
  <2> QED
    BY <1>5, <2>3 DEF Rests, Keep, AppSource
<1>2. CASE Keep(SyncTimeout) \/ Keep(DrainEnd) \/ Keep(HandlerReturn) \/ Keep(NotifyReturn)
  <2>1. stack # <<>> /\ stack' = Tail(stack)
    BY <1>2 DEF Keep, SyncTimeout, DrainEnd, HandlerReturn, NotifyReturn, Pop, TopIs
  <2>2. Adds({})
    BY <1>0, <2>1, PopCalls DEF Adds
  <2> QED
    BY <1>2, <2>2 DEF Rests, Keep, SyncTimeout, DrainEnd, HandlerReturn, NotifyReturn
<1>3. CASE Keep(SyncWake)
  <2> DEFINE f == [Head(stack) EXCEPT !.op = "drain"]
  <2>1. TopIs("wait") /\ stack # <<>> /\ (Pop \/ SetTop(f))
    BY <1>3 DEF Keep, SyncWake, TopIs
  <2>2. f \in RFrame /\ Call(f) = Call(Head(stack))
    BY <2>1, TailType DEF RFrame, FrameType, Call, RegistryFrames, CoreFrames
  <2> HIDE DEF f
  <2>3. Adds({})
    BY <1>0, <2>1, <2>2, PopCalls, SetTopCalls DEF Adds, Pop
  <2> QED
    BY <1>3, <2>3 DEF Rests, Keep, SyncWake
<1>4. CASE Keep(ToggleLoop)
  BY <1>4 DEF Rests, Adds, Keep, ToggleLoop
<1> QED
  BY <1>1, <1>2, <1>3, <1>4, <1>5

\* The request of a sync.
LEMMA SendEffect ==
  ASSUME Sound, NEW ctx \in BOOLEAN, NEW timed \in BOOLEAN,
         NEW st \in Seq(RFrame), Calls(st) \subseteq Calls(stack), connected,
         SendSync(ctx, timed, Mark, st),
         UNCHANGED <<connected, link, wire, mainq, regVars, serverVars>>
  PROVE  Sends
<1> USE DEF Sound
<1> DEFINE f == Frame("wait", lastReq + 1, ctx, timed, Mark)
<1>1. lastReq + 1 \in Nat /\ Mark \in Marks
  BY DEF RTypeOK, CoreTypeOK, Mark, Marks
<1>2. f \in RFrame
  BY <1>1 DEF Frame, RFrame, FrameType, RegistryFrames, CoreFrames
<1>3. Call(f) = NewCall /\ stack' = <<f>> \o st
  BY DEF Call, NewCall, Frame, SendSync
<1> HIDE DEF f
<1>4. Adds({NewCall})
  BY <1>2, <1>3, PushCalls DEF Adds
<1> QED
  BY <1>4 DEF Sends, SendSync

\* The whole of a sync that needs no start.
LEMMA SyncOnEffect ==
  ASSUME Sound, NEW timed \in BOOLEAN, NEW st \in Seq(RFrame),
         Calls(st) \subseteq Calls(stack), SyncOn(timed, st),
         UNCHANGED <<mainq, regVars, serverVars>>
  PROVE  Sends \/ Rests \/ Opens
<1>1. CASE /\ connected /\ SendSync(TRUE, timed, Mark, st)
           /\ UNCHANGED <<connected, connects, link, wire>>
  BY <1>1, SendEffect
<1>2. CASE SendFails(st) /\ UNCHANGED <<connected, connects, link, wire>>
  BY <1>2 DEF SendFails, Rests, Adds
<1>3. CASE /\ MayConnect /\ Connected /\ UNCHANGED lastReq
           /\ stack' = Notified(<<Suspension("sync", TRUE, timed)>> \o st)
  <2>1. "sync" \in RegistryFrames
    BY DEF RegistryFrames, CoreFrames
  <2>2. Adds({})
    BY <1>3, <2>1, SuspendCalls DEF Adds
  <2>3. ~connected /\ ~running
    BY <1>3, ConnectIsFresh DEF Connected, Sound, Settings
  <2> QED
    BY <1>3, <2>2, <2>3 DEF Opens, Connected
<1> QED
  BY <1>1, <1>2, <1>3 DEF SyncOn

\* A start, or what it leaves when it fails.
LEMMA StartOnEffect ==
  ASSUME Sound, ~running, globals = {}, NEW st \in Seq(RFrame),
         Calls(st) \subseteq Calls(stack) \cup {NoCall}, StartOn(st),
         UNCHANGED <<mainq, serverVars>>
  PROVE  Begins \/ Fails \/ Opens
<1>1. CASE connected /\ Bind(st) /\ UNCHANGED <<connected, connects, link, wire>>
  <2>1. Adds({})
    BY <1>1, EmitCalls DEF Bind, Adds
  <2> QED
    BY <1>1, <2>1 DEF Begins, Bind
<1>2. CASE connected /\ BindFails(st) /\ UNCHANGED <<connected, connects, link, wire>>
  <2>1. Adds({})
    BY <1>2, FailedCalls DEF BindFails, Adds
  <2> QED
    BY <1>2, <2>1 DEF Fails, BindFails
<1>3. CASE /\ Connected /\ UNCHANGED <<lastReq, regVars>>
           /\ stack' = Notified(<<Suspension("start", FALSE, FALSE)>> \o st)
  <2>1. "start" \in RegistryFrames
    BY DEF RegistryFrames
  <2>2. Adds({})
    BY <1>3, <2>1, SuspendCalls DEF Adds
  <2> QED
    BY <1>3, <2>2 DEF Opens, Connected
<1> QED
  BY <1>1, <1>2, <1>3 DEF StartOn

\* start(), sync() and their continuations.
LEMMA CallEffect ==
  ASSUME Sound,
         \/ Start \/ StartResume \/ RsyncResume \/ Keep(SyncResume(Mark))
         \/ \E timed \in BOOLEAN : Sync(timed)
  PROVE  Sends \/ Rests \/ Opens \/ Begins \/ Fails
<1> USE DEF Sound, Settings
<1>0. stack \in Seq(RFrame)
  BY DEF RTypeOK, CoreTypeOK, RFrame
<1>1. CASE Start
  <2>1. ~Suspended /\ ~running /\ StartOn(stack) /\ UNCHANGED <<mainq, serverVars>>
    BY <1>1 DEF Start
  <2> QED
    BY <1>0, <2>1, NotSuspended, StartOnEffect
<1>2. CASE StartResume
  <2>1. TopIs("start") /\ UNCHANGED <<connected, link, wire, mainq, serverVars>>
    BY <1>2 DEF StartResume
  <2>2. stack # <<>> /\ Head(stack).op = "start" /\ Tail(stack) \in Seq(RFrame)
    BY <2>1, TailType DEF TopIs
  <2>3. HasOp(stack, "start") /\ Calls(Tail(stack)) \subseteq Calls(stack)
    BY <1>0, <2>2, PopOps, PopCalls
  <2>4. ~running /\ globals = {}
    BY <2>3 DEF SessionInv, StartIsFresh
  <2>6. CASE connected /\ (Bind(Tail(stack)) \/ BindFails(Tail(stack)))
    <3>2. StartOn(Tail(stack))
      BY <1>2, <2>6 DEF StartResume, StartOn
    <3> QED
      BY <2>1, <2>2, <2>3, <2>4, <3>2, StartOnEffect
  <2>7. CASE Failed(Tail(stack)) /\ UNCHANGED <<lastReq, toServer, regVars>>
    <3>1. Adds({})
      BY <2>2, <2>3, <2>7, FailedCalls DEF Adds
    <3> QED
      BY <2>1, <2>7, <3>1 DEF Rests
  <2> QED
    BY <1>2, <2>6, <2>7 DEF StartResume
<1>3. CASE RsyncResume
  <2>1. TopIs("rsync") /\ SyncOn(Head(stack).timed, Tail(stack))
        /\ UNCHANGED <<mainq, regVars, serverVars>>
    BY <1>3 DEF RsyncResume
  <2>2. stack # <<>> /\ Head(stack).timed \in BOOLEAN /\ Tail(stack) \in Seq(RFrame)
    BY <2>1, TailType DEF TopIs
  <2> QED
    BY <1>0, <2>1, <2>2, PopCalls, SyncOnEffect
<1>4. CASE Keep(SyncResume(Mark))
  <2>1. TopIs("sync") /\ UNCHANGED <<connected, link, wire, mainq, regVars, serverVars>>
    BY <1>4 DEF Keep, SyncResume
  <2>2. /\ stack # <<>> /\ Tail(stack) \in Seq(RFrame)
        /\ Head(stack).timed \in BOOLEAN /\ Head(stack).ctx \in BOOLEAN
    BY <2>1, TailType DEF TopIs
  <2>3. Calls(Tail(stack)) \subseteq Calls(stack)
    BY <1>0, <2>2, PopCalls
  <2>4. CASE connected /\ SendSync(Head(stack).ctx, Head(stack).timed, Mark, Tail(stack))
    BY <2>1, <2>2, <2>3, <2>4, SendEffect
  <2>5. CASE SendFails(Tail(stack))
    BY <2>1, <2>3, <2>5 DEF SendFails, Rests, Adds
  <2> QED
    BY <1>4, <2>4, <2>5 DEF Keep, SyncResume
<1>5. ASSUME NEW timed \in BOOLEAN, Sync(timed)
      PROVE  Sends \/ Rests \/ Opens \/ Begins \/ Fails
  <2>1. ~Suspended /\ UNCHANGED <<mainq, serverVars>>
    BY <1>5 DEF Sync
  <2>2. CASE running
    BY <1>0, <1>5, <2>1, <2>2, SyncOnEffect DEF Sync
  <2>3. CASE ~running
    <3> DEFINE st == <<Suspension("rsync", TRUE, timed)>> \o stack
    <3>1. StartOn(st)
      BY <1>5, <2>3 DEF Sync
    <3>2. "rsync" \in RegistryFrames
      BY DEF RegistryFrames
    <3>3. st \in Seq(RFrame) /\ Calls(st) \subseteq Calls(stack) \cup {NoCall}
      BY <1>0, <3>2, SuspendCalls
    <3> HIDE DEF st
    <3> QED
      BY <2>1, <2>3, <3>1, <3>3, NotSuspended, StartOnEffect
  <2> QED
    BY <2>2, <2>3
<1> QED
  BY <1>1, <1>2, <1>3, <1>4, <1>5

\* stop(), disconnect(), and the reset and the clearing that follow.
LEMMA EndEffect ==
  ASSUME Sound, Stop \/ Reset \/ ClearRest \/ DisconnectCore \/ Restart
  PROVE  Rests \/ Ends \/ Clears \/ Disconnects
<1> USE DEF Sound, Settings
<1>0. stack \in Seq(RFrame)
  BY DEF RTypeOK, CoreTypeOK, RFrame
<1>1. ASSUME NEW below \in Seq(RFrame), Calls(below) \subseteq Calls(stack), EndSession(below)
      PROVE  Adds({})
  <2>1. CASE running
    <3>1. "clear" \in RegistryFrames /\ Emit(<<Suspension("clear", FALSE, FALSE)>> \o below)
      BY <1>1, <2>1 DEF RegistryFrames, EndSession, Clear
    <3> QED
      BY <1>1, <3>1, SuspendCalls DEF Adds
  <2>2. CASE ~running
    BY <1>1, <2>2 DEF EndSession, Adds
  <2> QED
    BY <2>1, <2>2
<1>2. ASSUME NEW below, EndSession(below)
      PROVE  /\ generation' = generation + 1 /\ running' = FALSE
             /\ globals' = IF running THEN globals ELSE {}
  BY <1>2 DEF EndSession
<1>3. CASE Stop
  <2>1. EndSession(stack)
    BY <1>3 DEF Stop
  <2>2. bound \subseteq {registry} /\ (~connected => bound = {})
    BY DEF SessionInv, ProxyOfSession
  <2>3. (registry' = NULL \/ registry' = registry) /\ bound' = {} /\ subs' = {}
    BY <1>3, <2>2 DEF Stop
  <2> QED
    BY <1>0, <1>1, <1>2, <1>3, <2>1, <2>3 DEF Ends, Stop
<1>4. CASE Reset
  <2>1. TopIs("reset")
    BY <1>4 DEF Reset
  <2>2. stack # <<>> /\ Tail(stack) \in Seq(RFrame)
    BY <2>1, TailType DEF TopIs
  <2>3. Calls(Tail(stack)) \subseteq Calls(stack)
    BY <1>0, <2>2, PopCalls
  <2>4. CASE connected
    BY <1>4, <2>3, <2>4 DEF Reset, Rests, Adds, Pop
  <2>5. CASE ~connected
    <3>1. EndSession(Tail(stack)) /\ registry' = NULL /\ UNCHANGED <<bound, subs>>
      BY <1>4, <2>5 DEF Reset, serverVars
    <3>2. bound = {} /\ subs = {}
      BY <2>5 DEF SessionInv, ProxyOfSession
    <3> QED
      BY <1>1, <1>2, <1>4, <2>2, <2>3, <3>1, <3>2 DEF Ends, Reset, serverVars
  <2> QED
    BY <2>4, <2>5
<1>5. CASE ClearRest
  <2>1. stack # <<>> /\ TopIs("clear") /\ stack' = Tail(stack)
    BY <1>5 DEF ClearRest, TopIs, Pop
  <2>2. HasOp(stack, "clear")
    BY <1>0, <2>1, PopOps DEF TopIs
  <2>3. ~running
    BY <2>2 DEF SessionInv, ClearIsIdle
  <2>4. Adds({})
    BY <1>0, <2>1, PopCalls DEF Adds
  <2> QED
    BY <1>5, <2>3, <2>4 DEF ClearRest, Clears
<1>6. ASSUME NEW rest \in Seq(RFrame)
      PROVE  /\ <<OnConnectedNotify>> \o rest \in Seq(RFrame)
             /\ Calls(<<OnConnectedNotify>> \o rest) \subseteq Calls(rest) \cup {NoCall}
  <2>1. OnConnectedNotify = Suspension("reset", FALSE, FALSE) /\ "reset" \in RegistryFrames
    BY DEF OnConnectedNotify, RegistryFrames
  <2> QED
    BY <2>1, SuspendCalls
<1>7. CASE DisconnectCore
  <2>1. Adds({})
    <3>1. CASE Emitting
      BY <1>7, <3>1 DEF DisconnectCore, Adds
    <3>2. CASE ~Emitting
      <4>1. Notify = Suspension("notify", FALSE, FALSE) /\ "notify" \in RegistryFrames
        BY DEF Notify, RegistryFrames, CoreFrames
      <4>2. /\ <<Notify>> \o stack \in Seq(RFrame)
            /\ Calls(<<Notify>> \o stack) \subseteq Calls(stack) \cup {NoCall}
        BY <1>0, <4>1, SuspendCalls
      <4>3. stack' = <<OnConnectedNotify, Notify>> \o stack
        BY <1>7, <3>2 DEF DisconnectCore
      <4>4. OnConnectedNotify \in RFrame /\ Notify \in RFrame
        BY NotifyType, SuspensionType DEF OnConnectedNotify, RegistryFrames
      <4>5. <<OnConnectedNotify, Notify>> \o stack = <<OnConnectedNotify>> \o (<<Notify>> \o stack)
        BY <1>0, <4>4
      <4> QED
        BY <1>6, <4>2, <4>3, <4>5 DEF Adds
    <3> QED
      BY <3>1, <3>2
  <2> QED
    BY <1>7, <2>1 DEF Disconnects, DisconnectCore, Disconnected
<1>8. CASE Restart
  <2>1. Adds({})
    BY <1>0, <1>6, <1>8 DEF Restart, Push, Adds
  <2> QED
    BY <1>8, <2>1 DEF Rests, Restart
<1> QED
  BY <1>3, <1>4, <1>5, <1>7, <1>8

\* The dispatch of a token: the frame it is for is done.
LEMMA TokenEffect ==
  ASSUME Sound, Keep(DispatchToken)
  PROVE  TakesToken
<1> USE DEF Sound
<1> DEFINE n == Head(mainq).n
           k == FrameOf(n)
<1>1. stack \in Seq(RFrame)
  BY DEF RTypeOK, CoreTypeOK, RFrame
<1>2. Adds({Drained(c) : c \in {d \in Calls(stack) : d.n = n}})
  <2>1. CASE OnStack(n)
    <3>1. k \in DOMAIN stack /\ stack[k].n = n
      BY <2>1 DEF OnStack, FrameOf
    <3>2. stack' = [stack EXCEPT ![k].mdone = TRUE]
      BY <2>1 DEF Keep, DispatchToken, MarkDrained
    <3> HIDE DEF k, n
    <3>3. stack[k] \in RFrame
      BY <1>1, <3>1
    <3>4. Call([stack[k] EXCEPT !.mdone = TRUE]) = Drained(Call(stack[k]))
      <4>1. ASSUME NEW f \in RFrame
            PROVE  Call([f EXCEPT !.mdone = TRUE]) = Drained(Call(f))
        <5>1. /\ [f EXCEPT !.mdone = TRUE].n = f.n
              /\ [f EXCEPT !.mdone = TRUE].mark = f.mark
              /\ [f EXCEPT !.mdone = TRUE].mdone = TRUE
          BY DEF RFrame, FrameType
        <5> QED
          BY <5>1 DEF Call, Drained
      <4> QED
        BY <3>3, <4>1
    <3>5. Call(stack[k]) \in Calls(stack) /\ Call(stack[k]).n = n
      BY <3>1 DEF Calls, Call
    <3>6. \A i \in DOMAIN stack' :
            /\ i \in DOMAIN stack
            /\ i # k => stack'[i] = stack[i]
            /\ i = k => stack'[i] = [stack[k] EXCEPT !.mdone = TRUE]
      BY <3>1, <3>2
    <3>7. \A i \in DOMAIN stack' :
            \/ Call(stack'[i]) \in Calls(stack)
            \/ Call(stack'[i]) = Drained(Call(stack[k]))
      BY <3>4, <3>6 DEF Calls
    <3> QED
      BY <3>5, <3>7 DEF Adds, Calls
  <2>2. CASE ~OnStack(n)
    BY <2>2 DEF Keep, DispatchToken, MarkDrained, Adds
  <2> QED
    BY <2>1, <2>2
<1> QED
  BY <1>2 DEF TakesToken, Keep, DispatchToken

\* The dispatch of an event.
LEMMA EventEffect ==
  ASSUME Sound, DispatchEvent
  PROVE  TakesEvent
<1> USE DEF Sound
<1> DEFINE e == Head(mainq)
           same == {x \in globals : x.id = e.g.id}
           new == [id |-> e.g.id, serial |-> e.g.serial, from |-> e.from]
<1>1. /\ ApplyEvent(e, "main") /\ Announces(e)
      /\ mainq # <<>> /\ mainq' = Tail(mainq)
  BY DEF DispatchEvent, Announces
<1>3. stack \in Seq(RFrame)
  BY DEF RTypeOK, CoreTypeOK, RFrame
<1>4. stack' = stack \/ Emit(stack)
  BY <1>1 DEF ApplyEvent
<1>5. Adds({})
  BY <1>3, <1>4, EmitCalls DEF Adds
<1>6. globals' = IF running /\ e.gen = generation
                   THEN (globals \ same) \cup (IF e.kind = "add" THEN {new} ELSE {})
                   ELSE globals
  BY <1>1 DEF ApplyEvent, Announces
<1> QED
  BY <1>1, <1>5, <1>6 DEF TakesEvent, DispatchEvent

\* The loop thread reads the answer to a sync, or an error.
LEMMA AnswerEffect ==
  ASSUME Sound, Keep(LoopStep)
  PROVE  ReadsAnswer
<1> USE DEF Sound
<1> DEFINE m == Head(wire)
<1>1. /\ connected /\ wire # <<>> /\ wire' = Tail(wire)
      /\ \/ m.kind = "done" /\ OnDone(m.n)
         \/ m.kind = "error" /\ OnError(m.n)
  BY DEF Keep, LoopStep
<1>2. Adds({})
  <2>1. CASE ~Waiting(m.n)
    BY <1>1, <2>1 DEF OnDone, OnError, Adds
  <2>2. CASE Waiting(m.n)
    <3>1. TopIs("wait") /\ stack # <<>>
      BY <2>2 DEF Waiting, TopIs
    <3>2. /\ [Head(stack) EXCEPT !.done = TRUE] \in RFrame
          /\ [Head(stack) EXCEPT !.err = TRUE] \in RFrame
          /\ Call([Head(stack) EXCEPT !.done = TRUE]) = Call(Head(stack))
          /\ Call([Head(stack) EXCEPT !.err = TRUE]) = Call(Head(stack))
      BY <3>1, TailType DEF RFrame, FrameType, Call
    <3>3. PICK f \in RFrame : SetTop(f) /\ Call(f) = Call(Head(stack))
      BY <1>1, <2>2, <3>2 DEF OnDone, OnError
    <3>4. Call(Head(stack)) \in Calls(stack)
      BY <3>1, TailType, PopCalls
    <3> QED
      BY <3>1, <3>3, <3>4, SetTopCalls DEF Adds
  <2> QED
    BY <2>1, <2>2
<1>3. \/ mainq' = mainq
      \/ m.kind = "done" /\ mainq' = Append(mainq, Token(m.n))
  BY <1>1 DEF OnDone, OnError
<1> QED
  BY <1>1, <1>2, <1>3 DEF ReadsAnswer, Keep, LoopStep

\* The loop thread reads an announcement, and queues it.
LEMMA NewsEffect ==
  ASSUME Sound, RegistryLoopStep
  PROVE  ReadsNews
BY DEF Sound, Settings, RegistryLoopStep, OnGlobal, Invoke, ReadsNews, Announces, Adds,
       regVars

\* The server answers what Core asks of it.
LEMMA ServerEffect ==
  ASSUME Sound, Keep(ServerStep)
  PROVE  Answers
BY DEF Answers, Keep, ServerStep

\* The effects there are; those of the server are Registry's own actions.
StepEffects ==
  \/ Rests \/ Sends \/ Opens \/ Begins \/ Fails \/ Ends \/ Clears \/ Disconnects
  \/ TakesToken \/ TakesEvent \/ ReadsAnswer \/ ReadsNews
  \/ Answers \/ ServerBind \/ Keep(LinkBreaks)
  \/ \E id \in Ids : ServerAdd(id)
  \/ \E g \in server : ServerRemove(g)

\* Every step has one of them.
LEMMA StepEffect ==
  ASSUME Sound, [RNext]_vars
  PROVE  StepEffects
<1>1. CASE \/ MayConnect /\ Keep(Connect)
           \/ Keep(AppSource) \/ Keep(ToggleLoop) \/ Keep(SyncWake)
           \/ Keep(SyncTimeout) \/ Keep(DrainEnd) \/ Keep(HandlerReturn) \/ Keep(NotifyReturn)
  BY <1>1, CoreEffect DEF StepEffects
<1>2. CASE \/ Start \/ StartResume \/ RsyncResume \/ Keep(SyncResume(Mark))
           \/ \E timed \in BOOLEAN : Sync(timed)
  BY <1>2, CallEffect DEF StepEffects
<1>3. CASE Stop \/ Reset \/ ClearRest \/ DisconnectCore \/ Restart
  BY <1>3, EndEffect DEF StepEffects
<1>4. CASE \/ Keep(DispatchToken) \/ DispatchEvent \/ Keep(LoopStep) \/ RegistryLoopStep
           \/ Keep(ServerStep)
  BY <1>4, TokenEffect, EventEffect, AnswerEffect, NewsEffect, ServerEffect DEF StepEffects
<1>5. CASE \/ ServerBind \/ Keep(LinkBreaks) \/ (\E id \in Ids : ServerAdd(id))
           \/ \E g \in server : ServerRemove(g)
  BY <1>5 DEF StepEffects
<1>6. CASE UNCHANGED vars
  BY <1>6 DEF StepEffects, Rests, Adds, vars, coreVars, regVars, serverVars
<1> QED
  BY <1>1, <1>2, <1>3, <1>4, <1>5, <1>6
  DEF RNext, RMainStep, Dispatch, RServerStep, RLoopStep

-----------------------------------------------------------------------------
(* Requests and the proxies that the server knows.                         *)

\* The requests on the socket, oldest first, are numbered upwards.
RequestsInOrder ==
  /\ \A i \in DOMAIN toServer : toServer[i].n \in 1..lastReq
  /\ \A i, j \in DOMAIN toServer : i < j => toServer[i].n < toServer[j].n

\* A proxy is the number of a request made.
Numbered ==
  /\ registry <= lastReq
  /\ \A i \in DOMAIN wire : Announces(wire[i]) => wire[i].to <= lastReq

\* The server knows of a proxy after its request, and while it exists.
ProxiesTold ==
  /\ \A i \in DOMAIN toServer : toServer[i].kind = "bind" => toServer[i].n \notin subs
  /\ subs \subseteq bound

\* A session that the server does not know of has nothing, and nothing is
\* on its way to it.
Untold ==
  running /\ connected /\ registry \notin subs =>
    globals = {} /\ Current = {} /\ Mine = {}

\* No two globals have the same serial, and none a later one than the last.
Serials ==
  /\ serial <= MaxSerial
  /\ \A g \in server : g.serial \in 1..serial
  /\ \A g, h \in server : g.serial = h.serial => g = h

\* What can be announced.
Known == [id : Ids, serial : 1..MaxSerial]

\* And nothing else is.
Genuine ==
  /\ \A i \in DOMAIN wire : Announces(wire[i]) => wire[i].g \in Known
  /\ \A i \in DOMAIN mainq : Announces(mainq[i]) => mainq[i].g \in Known

\* What holds of the line between server and list.
LineInv == RequestsInOrder /\ Numbered /\ ProxiesTold /\ Untold /\ Serials /\ Genuine

\* The least that every step is taken under.
StepInv == Settings /\ RTypeOK /\ SessionInv /\ OwnerInv /\ LineInv

\* It gives what the effects were found under.
LEMMA StepInvSound == StepInv => Sound
BY DEF StepInv, Sound, LineInv, ProxiesTold

\* A queue without its first entry, and with one more.
LEMMA Shorter ==
  ASSUME NEW T, NEW q \in Seq(T), q # <<>>
  PROVE  /\ Head(q) = q[1] /\ 1 \in DOMAIN q /\ Tail(q) \in Seq(T) /\ Head(q) \in T
         /\ \A i \in DOMAIN Tail(q) :
              i \in Int /\ i >= 1 /\ i + 1 \in DOMAIN q /\ Tail(q)[i] = q[i + 1]
OBVIOUS

\* The same of a queue with one more entry.
LEMMA Longer ==
  ASSUME NEW T, NEW q \in Seq(T), NEW x
  PROVE  \A i \in DOMAIN Append(q, x) :
           \/ i \in DOMAIN q /\ Append(q, x)[i] = q[i]
           \/ i = Len(q) + 1 /\ Append(q, x)[i] = x /\ \A j \in DOMAIN q : j < i /\ ~(i < j)
OBVIOUS

\* A change is told to the session's proxy, when the server knows it.
LEMMA BroadcastTells ==
  ASSUME RTypeOK, SessionInv, subs \subseteq bound, NEW kind, NEW g, Broadcast(kind, g)
  PROVE  /\ link /\ registry \in subs => wire' = Append(wire, Announce(kind, g, registry))
         /\ ~(link /\ registry \in subs) => wire' = wire
<1>1. subs \subseteq {registry}
  BY DEF SessionInv, ProxyOfSession
<1>2. wire \in Seq(RegistryMessages)
  BY DEF RTypeOK, CoreTypeOK
<1>3. ASSUME link, registry \in subs
      PROVE  wire' = Append(wire, Announce(kind, g, registry))
  <2>1. subs = {registry} /\ Cardinality(subs) = 1
    BY <1>1, <1>3, FS_Singleton
  <2>2. PICK s \in Orders(subs) :
          wire' = wire \o [i \in DOMAIN s |-> Announce(kind, g, s[i])]
    BY <1>3 DEF Broadcast
  <2>3. s \in [1..1 -> {registry}]
    BY <2>1, <2>2 DEF Orders
  <2>4. [i \in DOMAIN s |-> Announce(kind, g, s[i])] = <<Announce(kind, g, registry)>>
    <3>1. DOMAIN s = {1} /\ s[1] = registry
      BY <2>3
    <3> QED
      BY <3>1
  <2> DEFINE x == Announce(kind, g, registry)
  <2> HIDE DEF x
  <2>5. wire \o <<x>> = Append(wire, x)
    BY <1>2
  <2> QED
    BY <2>2, <2>4, <2>5 DEF x
<1>4. ASSUME ~(link /\ registry \in subs)
      PROVE  wire' = wire
  <2>1. CASE link
    <3>1. subs = {} /\ Cardinality(subs) = 0
      BY <1>1, <1>4, <2>1, FS_EmptySet
    <3>2. PICK s \in Orders(subs) :
            wire' = wire \o [i \in DOMAIN s |-> Announce(kind, g, s[i])]
      BY <2>1 DEF Broadcast
    <3>3. DOMAIN s = {}
      BY <3>1, <3>2 DEF Orders
    <3>4. [i \in DOMAIN s |-> Announce(kind, g, s[i])] = <<>>
      BY <3>3
    <3> QED
      BY <1>2, <3>2, <3>4
  <2>2. CASE ~link
    BY <2>2 DEF Broadcast
  <2> QED
    BY <2>1, <2>2
<1> QED
  BY <1>3, <1>4

\* The announcements a new proxy begins with: the server's globals, in some
\* order, behind what is on the wire.
LEMMA BindTells ==
  ASSUME RTypeOK, ServerBind, Head(toServer).n \in bound
  PROVE  \E s \in Orders(server) :
           /\ Len(s) \in Nat /\ DOMAIN s = 1..Len(s)
           /\ wire' = wire \o [i \in 1..Len(s) |-> Announce("add", s[i], Head(toServer).n)]
           /\ Len(wire') = Len(wire) + Len(s)
           /\ \A i \in 1..Len(wire) : wire'[i] = wire[i]
           /\ \A i \in 1..Len(s) :
                wire'[Len(wire) + i] = Announce("add", s[i], Head(toServer).n)
<1> DEFINE p == Head(toServer).n
<1>1. PICK s \in Orders(server) :
        wire' = wire \o [i \in DOMAIN s |-> Announce("add", s[i], p)]
  BY DEF ServerBind
<1> DEFINE k == Cardinality(server)
<1>2. k \in Nat
  BY FS_CardinalityType DEF RTypeOK
<1>3. s \in [1..k -> server]
  BY <1>1 DEF Orders
<1> HIDE DEF k
<1>4. s \in Seq(server) /\ Len(s) = k /\ DOMAIN s = 1..k
  BY <1>2, <1>3
<1>5. wire \in Seq(RegistryMessages)
  BY DEF RTypeOK, CoreTypeOK
<1> HIDE DEF p
<1> DEFINE a == [i \in 1..k |-> Announce("add", s[i], p)]
<1>10. p \in Nat
  BY DEF p, ServerBind, RTypeOK, CoreTypeOK, RegistryRequests, CoreRequests
<1>6. Len(a) = k /\ DOMAIN a = 1..k /\ a \in Seq(RegistryMessages)
  <2>1. \A i \in 1..k : Announce("add", s[i], p) \in RegistryMessages
    BY <1>3, <1>10 DEF RTypeOK, Announce, RegistryMessages
  <2> QED
    BY <1>2, <2>1
<1>7. \A i \in 1..k : a[i] = Announce("add", s[i], p)
  OBVIOUS
<1>8. wire' = wire \o a
  BY <1>1, <1>4
<1> HIDE DEF a
<1>9. /\ Len(wire') = Len(wire) + k
      /\ \A i \in 1..Len(wire) : wire'[i] = wire[i]
      /\ \A i \in 1..k : wire'[Len(wire) + i] = a[i]
  BY <1>2, <1>5, <1>6, <1>8
<1> QED
  BY <1>1, <1>2, <1>4, <1>7, <1>8, <1>9 DEF a, p

\* Steps that change neither the requests nor the proxies known, and announce
\* nothing: what is on the wire was there before, or is no announcement.
LEMMA SameRequests ==
  ASSUME RequestsInOrder, Numbered, ProxiesTold,
         UNCHANGED <<toServer, lastReq>>, registry' = registry \/ registry' = NULL,
         (subs' = subs /\ bound' = bound) \/ subs' = {},
         \A i \in DOMAIN wire' : Announces(wire'[i]) =>
           \E j \in DOMAIN wire : wire'[i] = wire[j],
         lastReq \in Nat
  PROVE  RequestsInOrder' /\ Numbered' /\ ProxiesTold'
<1>1. RequestsInOrder'
  BY DEF RequestsInOrder
<1>2. Numbered'
  BY DEF Numbered, NULL
<1>3. ProxiesTold'
  BY DEF ProxiesTold
<1> QED
  BY <1>1, <1>2, <1>3

\* A request is sent.
LEMMA NextRequest ==
  ASSUME RTypeOK, RequestsInOrder, NEW kind, lastReq' = lastReq + 1,
         toServer' = Append(toServer, [kind |-> kind, n |-> lastReq + 1])
  PROVE  RequestsInOrder'
<1> DEFINE r == [kind |-> kind, n |-> lastReq + 1]
<1>1. toServer \in Seq(RegistryRequests) /\ lastReq \in Nat /\ r.n = lastReq + 1
  BY DEF RTypeOK, CoreTypeOK
<1> HIDE DEF r
<1>2. \A i \in DOMAIN toServer' :
        \/ i \in DOMAIN toServer /\ toServer'[i] = toServer[i]
        \/ /\ i = Len(toServer) + 1 /\ toServer'[i] = r
           /\ \A j \in DOMAIN toServer : j < i /\ ~(i < j)
  BY <1>1, Longer DEF r
<1>3. \A i \in DOMAIN toServer : toServer[i].n \in Nat /\ toServer[i].n <= lastReq /\ 1 <= toServer[i].n
  BY <1>1 DEF RequestsInOrder
<1>4. \A i \in DOMAIN toServer' : toServer'[i].n \in 1..lastReq'
  BY <1>1, <1>2, <1>3
<1>5. ASSUME NEW i \in DOMAIN toServer', NEW j \in DOMAIN toServer', i < j
      PROVE  toServer'[i].n < toServer'[j].n
  <2>1. CASE i \in DOMAIN toServer /\ j \in DOMAIN toServer
    <3>1. toServer'[i] = toServer[i] /\ toServer'[j] = toServer[j]
      BY <1>2, <2>1
    <3> QED
      BY <1>5, <2>1, <3>1 DEF RequestsInOrder
  <2>2. CASE i \in DOMAIN toServer /\ j \notin DOMAIN toServer
    <3>1. toServer'[i] = toServer[i] /\ toServer'[j] = r
      BY <1>2, <2>2
    <3> QED
      BY <1>1, <1>3, <2>2, <3>1
  <2>3. CASE i \notin DOMAIN toServer
    <3>1. i = Len(toServer) + 1 /\ Len(toServer) \in Nat
      BY <1>1, <1>2, <2>3
    <3>2. j \in DOMAIN toServer \/ j = Len(toServer) + 1
      BY <1>2
    <3> QED
      BY <1>2, <1>5, <2>3, <3>1, <3>2
  <2> QED
    BY <2>1, <2>2, <2>3
<1> QED
  BY <1>4, <1>5 DEF RequestsInOrder

\* The server has taken the oldest request: the others are later.
LEMMA OldestTaken ==
  ASSUME RTypeOK, RequestsInOrder, lastReq' = lastReq,
         toServer # <<>>, toServer' = Tail(toServer)
  PROVE  /\ RequestsInOrder'
         /\ Head(toServer).n \in 1..lastReq
         /\ \A i \in DOMAIN toServer' :
              /\ Head(toServer).n < toServer'[i].n
              /\ \E j \in DOMAIN toServer : j # 1 /\ toServer'[i] = toServer[j]
<1>1. toServer \in Seq(RegistryRequests) /\ lastReq \in Nat
  BY DEF RTypeOK, CoreTypeOK
<1>2. /\ Head(toServer) = toServer[1] /\ 1 \in DOMAIN toServer
      /\ \A i \in DOMAIN toServer' :
           /\ i \in Int /\ i >= 1 /\ i + 1 \in DOMAIN toServer
           /\ toServer'[i] = toServer[i + 1]
  BY <1>1, Shorter
<1>3. \A i \in DOMAIN toServer' : toServer'[i].n \in 1..lastReq'
  BY <1>2 DEF RequestsInOrder
<1>4. \A i, j \in DOMAIN toServer' : i < j => i + 1 < j + 1
  BY <1>2
<1>5. \A i, j \in DOMAIN toServer' : i < j => toServer'[i].n < toServer'[j].n
  BY <1>2, <1>4 DEF RequestsInOrder
<1>6. \A i \in DOMAIN toServer' : 1 < i + 1 /\ i + 1 # 1
  BY <1>2
<1>7. \A i \in DOMAIN toServer' : Head(toServer).n < toServer'[i].n
  BY <1>2, <1>6 DEF RequestsInOrder
<1>8. Head(toServer).n \in 1..lastReq
  BY <1>2 DEF RequestsInOrder
<1> QED
  BY <1>2, <1>3, <1>5, <1>6, <1>7, <1>8 DEF RequestsInOrder

\* Each step keeps the numbering.
LEMMA RequestsStep ==
  ASSUME StepInv, StepEffects
  PROVE  RequestsInOrder' /\ Numbered' /\ ProxiesTold'
<1> USE DEF StepInv, LineInv
<1>0. /\ wire \in Seq(RegistryMessages) /\ mainq \in Seq(RegistrySources)
      /\ toServer \in Seq(RegistryRequests) /\ lastReq \in Nat /\ registry \in Nat
  BY DEF RTypeOK, CoreTypeOK
<1>11. \A i \in DOMAIN wire : Announces(wire[i]) => wire[i].to \in Nat
  BY <1>0 DEF RegistryMessages, CoreMessages, Announces
<1>1. CASE Rests \/ Fails \/ Ends \/ Clears \/ TakesToken \/ TakesEvent
  <2>1. /\ UNCHANGED <<toServer, lastReq, wire>>
        /\ registry' = registry \/ registry' = NULL
        /\ (subs' = subs /\ bound' = bound) \/ subs' = {}
    BY <1>1 DEF Rests, Fails, Ends, Clears, TakesToken, TakesEvent, regVars, serverVars
  <2> QED
    BY <1>0, <2>1, SameRequests
<1>2. CASE ReadsAnswer \/ ReadsNews
  <2>1. /\ UNCHANGED <<toServer, lastReq, registry, subs, bound>>
        /\ wire # <<>> /\ wire' = Tail(wire)
    BY <1>2 DEF ReadsAnswer, ReadsNews, regVars, serverVars
  <2>2. \A i \in DOMAIN wire' : i + 1 \in DOMAIN wire /\ wire'[i] = wire[i + 1]
    BY <1>0, <2>1, Shorter
  <2> QED
    BY <1>0, <2>1, <2>2, SameRequests
<1>3. CASE Sends
  <2>1. RequestsInOrder'
    BY <1>3, NextRequest DEF Sends, SyncRequest
  <2>2. Numbered'
    BY <1>0, <1>3, <1>11 DEF Numbered, Sends, regVars
  <2>3. \A i \in DOMAIN toServer' : toServer'[i].kind = "bind" =>
          i \in DOMAIN toServer /\ toServer'[i] = toServer[i]
    <3>1. toServer' = Append(toServer, SyncRequest) /\ SyncRequest.kind # "bind"
      BY <1>3 DEF Sends, SyncRequest
    <3> QED
      BY <1>0, <3>1, Longer
  <2>4. ProxiesTold'
    BY <1>3, <2>3 DEF ProxiesTold, Sends, regVars, serverVars
  <2> QED
    BY <2>1, <2>2, <2>4
<1>4. CASE Begins
  <2>1. RequestsInOrder'
    BY <1>4, NextRequest DEF Begins
  <2>2. bound = {} /\ subs = {} /\ subs' = {}
    BY <1>4 DEF SessionInv, ProxyOfSession, ProxiesTold, Begins, serverVars
  <2>3. Numbered'
    <3>1. registry' = lastReq + 1 /\ lastReq' = lastReq + 1 /\ wire' = wire
      BY <1>4 DEF Begins
    <3> QED
      BY <1>0, <1>11, <3>1 DEF Numbered
  <2> QED
    BY <2>1, <2>2, <2>3 DEF ProxiesTold
<1>5. CASE Opens \/ Disconnects
  <2>1. /\ toServer' = <<>> /\ wire' = <<>> /\ UNCHANGED <<lastReq, registry>>
        /\ UNCHANGED <<subs, bound>> \/ subs' = {}
    BY <1>5 DEF Opens, Disconnects, regVars, serverVars
  <2> QED
    BY <2>1 DEF RequestsInOrder, Numbered, ProxiesTold
<1>6. CASE Answers
  <2>1. /\ toServer # <<>> /\ toServer' = Tail(toServer)
        /\ UNCHANGED <<lastReq, registry, subs, bound>>
    BY <1>6 DEF Answers, regVars, serverVars
  <2>2. RequestsInOrder' /\ \A i \in DOMAIN toServer' : \E j \in DOMAIN toServer : toServer'[i] = toServer[j]
    BY <2>1, OldestTaken
  <2>3. ProxiesTold'
    BY <2>1, <2>2 DEF ProxiesTold
  <2>4. \A i \in DOMAIN wire' : Announces(wire'[i]) => i \in DOMAIN wire /\ wire'[i] = wire[i]
    <3>1. ASSUME NEW kind \in {"done", "error"}, NEW n,
                 wire' = Append(wire, [kind |-> kind, n |-> n])
          PROVE  \A i \in DOMAIN wire' :
                   Announces(wire'[i]) => i \in DOMAIN wire /\ wire'[i] = wire[i]
      <4>1. ~Announces([kind |-> kind, n |-> n])
        BY DEF Announces
      <4> QED
        BY <1>0, <3>1, <4>1, Longer
    <3> QED
      BY <1>6, <3>1 DEF Answers
  <2> QED
    BY <2>1, <2>2, <2>3, <2>4 DEF Numbered
<1>7. CASE Keep(LinkBreaks)
  <2> DEFINE m == [kind |-> "error", n |-> 0]
  <2>1. /\ toServer' = <<>> /\ wire' = Append(wire, m) /\ ~Announces(m)
        /\ UNCHANGED <<lastReq, registry, subs, bound>>
    BY <1>7 DEF Keep, LinkBreaks, regVars, serverVars, Announces
  <2> HIDE DEF m
  <2>2. \A i \in DOMAIN wire' : Announces(wire'[i]) => i \in DOMAIN wire /\ wire'[i] = wire[i]
    BY <1>0, <2>1, Longer
  <2> QED
    BY <2>1, <2>2 DEF RequestsInOrder, Numbered, ProxiesTold
<1>8. CASE ServerBind
  <2> DEFINE p == Head(toServer).n
  <2>1. /\ toServer # <<>> /\ toServer' = Tail(toServer) /\ Head(toServer).kind = "bind"
        /\ UNCHANGED <<lastReq, registry, bound>>
    BY <1>8 DEF ServerBind, regVars
  <2>2. /\ RequestsInOrder' /\ p \in 1..lastReq
        /\ \A i \in DOMAIN toServer' :
             /\ p < toServer'[i].n
             /\ \E j \in DOMAIN toServer : j # 1 /\ toServer'[i] = toServer[j]
    BY <2>1, OldestTaken
  <2>3. subs' \subseteq subs \cup {p} /\ subs' \subseteq bound'
    BY <1>8, <2>1 DEF ServerBind, ProxiesTold
  <2>4. \A i \in DOMAIN toServer' : p # toServer'[i].n
    BY <2>2
  <2>5. ProxiesTold'
    BY <2>2, <2>3, <2>4 DEF ProxiesTold
  <2>6. CASE p \in bound
    <3> HIDE DEF p
    <3>1. PICK s \in Orders(server) :
            /\ Len(s) \in Nat
            /\ Len(wire') = Len(wire) + Len(s)
            /\ \A i \in 1..Len(wire) : wire'[i] = wire[i]
            /\ \A i \in 1..Len(s) : wire'[Len(wire) + i] = Announce("add", s[i], p)
      BY <1>8, <2>6, BindTells DEF p
    <3>2. wire' \in Seq(RegistryMessages)
      BY <1>8, ServerBindType DEF RTypeOK, CoreTypeOK
    <3>3. ASSUME NEW i \in DOMAIN wire'
          PROVE  (i \in DOMAIN wire /\ wire'[i] = wire[i]) \/ wire'[i].to = p
      <4>1. i \in 1..Len(wire) \/ i - Len(wire) \in 1..Len(s)
        BY <1>0, <3>1, <3>2
      <4>2. CASE i \in 1..Len(wire)
        BY <1>0, <3>1, <4>2
      <4>3. CASE i - Len(wire) \in 1..Len(s)
        <5>1. i = Len(wire) + (i - Len(wire))
          BY <1>0, <3>2
        <5>2. wire'[i] = Announce("add", s[i - Len(wire)], p)
          BY <3>1, <4>3, <5>1
        <5> QED
          BY <5>2 DEF Announce
      <4> QED
        BY <4>1, <4>2, <4>3
    <3>4. p <= lastReq
      BY <1>0, <2>2
    <3>5. Numbered'
      BY <2>1, <3>3, <3>4 DEF Numbered
    <3> QED
      BY <2>2, <2>5, <3>5
  <2>7. CASE p \notin bound
    <3>1. wire' = wire
      BY <1>8, <2>7 DEF ServerBind
    <3> QED
      BY <2>1, <2>2, <2>5, <3>1 DEF Numbered
  <2> QED
    BY <2>6, <2>7
<1>9. ASSUME NEW kind, NEW g, Broadcast(kind, g),
             UNCHANGED <<toServer, lastReq, registry, subs, bound>>
      PROVE  RequestsInOrder' /\ Numbered' /\ ProxiesTold'
  <2> DEFINE m == Announce(kind, g, registry)
  <2>1. m.to = registry
    BY DEF Announce
  <2>2. wire' = Append(wire, m) \/ wire' = wire
    BY <1>9, BroadcastTells DEF ProxiesTold
  <2> HIDE DEF m
  <2>3. \A i \in DOMAIN wire' : wire'[i] = m \/ (i \in DOMAIN wire /\ wire'[i] = wire[i])
    BY <1>0, <2>2, Longer
  <2> QED
    BY <1>9, <2>1, <2>3 DEF RequestsInOrder, Numbered, ProxiesTold
<1>10. CASE (\E id \in Ids : ServerAdd(id)) \/ \E g \in server : ServerRemove(g)
  BY <1>9, <1>10 DEF ServerAdd, ServerRemove, regVars
<1> QED
  BY <1>1, <1>2, <1>3, <1>4, <1>5, <1>6, <1>7, <1>8, <1>10 DEF StepEffects

\* Only a new global gets a serial, and it is the next one.
LEMMA SerialsStep ==
  ASSUME StepInv, StepEffects
  PROVE  Serials'
<1> USE DEF StepInv, LineInv
<1>1. CASE UNCHANGED <<server, serial>>
  BY <1>1 DEF Serials
<1>2. ASSUME NEW id \in Ids, ServerAdd(id)
      PROVE  Serials'
  <2> DEFINE g == [id |-> id, serial |-> serial + 1]
  <2>1. server' = server \cup {g} /\ serial' = serial + 1 /\ serial < MaxSerial /\ serial \in Nat
    BY <1>2 DEF ServerAdd, RTypeOK
  <2>2. \A h \in server : h.serial \in 1..serial
    BY DEF Serials
  <2> HIDE DEF g
  <2>3. g.serial = serial + 1
    BY DEF g
  <2>4. \A h \in server' : h = g \/ h \in server
    BY <2>1
  <2>5. \A h \in server' : h.serial \in 1..serial'
    BY <2>1, <2>2, <2>3, <2>4
  <2>6. \A h, k \in server' : h.serial = k.serial => h = k
    BY <2>1, <2>2, <2>3, <2>4 DEF Serials
  <2>7. serial' <= MaxSerial
    BY <2>1, RegistryAssumption
  <2> QED
    BY <2>5, <2>6, <2>7 DEF Serials
<1>3. ASSUME NEW g \in server, ServerRemove(g)
      PROVE  Serials'
  BY <1>3 DEF ServerRemove, Serials
<1>4. StepEffects =>
        \/ UNCHANGED <<server, serial>>
        \/ \E id \in Ids : ServerAdd(id)
        \/ \E g \in server : ServerRemove(g)
  BY DEF StepEffects, Rests, Sends, Opens, Begins, Fails, Ends, Clears, Disconnects,
         TakesToken, TakesEvent, ReadsAnswer, ReadsNews, Answers, ServerBind, Keep,
         serverVars
<1> QED
  BY <1>1, <1>2, <1>3, <1>4

\* The server's globals are among them.
LEMMA ServerKnown ==
  ASSUME RTypeOK, Serials
  PROVE  server \subseteq Known
<1>1. \A g \in server : g \in Global /\ g.serial \in 1..serial
  BY DEF Serials, RTypeOK
<1>2. serial <= MaxSerial /\ serial \in Nat /\ MaxSerial \in Nat
  BY RegistryAssumption DEF Serials, RTypeOK
<1>3. \A g \in server : g.serial \in 1..MaxSerial
  BY <1>1, <1>2
<1> QED
  BY <1>1, <1>3 DEF Known, Global

\* What is announced stays so on its way, and the server announces what it
\* has, or had.
LEMMA GenuineStep ==
  ASSUME StepInv, StepEffects
  PROVE  Genuine'
<1> USE DEF StepInv, LineInv
<1>0. /\ wire \in Seq(RegistryMessages) /\ mainq \in Seq(RegistrySources)
      /\ server \subseteq Known
  BY ServerKnown DEF RTypeOK, CoreTypeOK
<1>2. ASSUME \A i \in DOMAIN wire' :
               \/ ~Announces(wire'[i])
               \/ \E j \in DOMAIN wire : wire'[i] = wire[j]
               \/ wire'[i].g \in Known,
             \A i \in DOMAIN mainq' :
               \/ ~Announces(mainq'[i])
               \/ \E j \in DOMAIN mainq : mainq'[i] = mainq[j]
               \/ mainq'[i].g \in Known
      PROVE  Genuine'
  BY <1>2 DEF Genuine
<1>3. CASE UNCHANGED <<wire, mainq>>
  BY <1>2, <1>3
<1>4. CASE Opens \/ Disconnects
  BY <1>2, <1>4 DEF Opens, Disconnects
<1>5. CASE TakesToken \/ TakesEvent
  <2>1. mainq # <<>> /\ mainq' = Tail(mainq) /\ wire' = wire
    BY <1>5 DEF TakesToken, TakesEvent
  <2>2. \A i \in DOMAIN mainq' : i + 1 \in DOMAIN mainq /\ mainq'[i] = mainq[i + 1]
    BY <1>0, <2>1, Shorter
  <2> QED
    BY <1>2, <2>1, <2>2
<1>6. CASE ReadsAnswer \/ ReadsNews
  <2>1. wire # <<>> /\ wire' = Tail(wire)
    BY <1>6 DEF ReadsAnswer, ReadsNews
  <2>2. /\ \A i \in DOMAIN wire' : i + 1 \in DOMAIN wire /\ wire'[i] = wire[i + 1]
        /\ Head(wire) = wire[1] /\ 1 \in DOMAIN wire
    BY <1>0, <2>1, Shorter
  <2>3. PICK e :
          /\ mainq' = mainq \/ mainq' = Append(mainq, e)
          /\ Announces(e) => e.g \in Known
    <3>1. CASE ReadsAnswer
      <4>1. mainq' = mainq \/ mainq' = Append(mainq, Token(Head(wire).n))
        BY <3>1 DEF ReadsAnswer
      <4>2. ~Announces(Token(Head(wire).n))
        BY DEF Announces, Token
      <4> QED
        BY <4>1, <4>2
    <3>2. CASE ReadsNews
      <4> DEFINE m == Head(wire)
                 e == [kind |-> m.kind, gen |-> generation, from |-> m.to, g |-> m.g]
      <4>1. mainq' = mainq \/ mainq' = Append(mainq, e)
        BY <3>2 DEF ReadsNews
      <4>2. m.g \in Known
        BY <2>2, <3>2 DEF ReadsNews, Genuine
      <4> QED
        BY <4>1, <4>2
    <3> QED
      BY <1>6, <3>1, <3>2
  <2>4. \A i \in DOMAIN mainq' : (i \in DOMAIN mainq /\ mainq'[i] = mainq[i]) \/ mainq'[i] = e
    BY <1>0, <2>3, Longer
  <2> QED
    BY <1>2, <2>2, <2>3, <2>4
<1>7. ASSUME mainq' = mainq, NEW m, Announces(m) => m.g \in Known,
             wire' = Append(wire, m)
      PROVE  Genuine'
  <2>1. \A i \in DOMAIN wire' : (i \in DOMAIN wire /\ wire'[i] = wire[i]) \/ wire'[i] = m
    BY <1>0, <1>7, Longer
  <2> QED
    BY <1>2, <1>7, <2>1
<1>8. CASE Answers
  <2>1. mainq' = mainq
    BY <1>8 DEF Answers
  <2>2. ASSUME NEW kind \in {"done", "error"},
               wire' = Append(wire, [kind |-> kind, n |-> Head(toServer).n])
        PROVE  Genuine'
    <3> DEFINE m == [kind |-> kind, n |-> Head(toServer).n]
    <3>1. ~Announces(m)
      BY DEF Announces
    <3> QED
      BY <1>7, <2>1, <2>2, <3>1
  <2> QED
    BY <1>3, <1>8, <2>1, <2>2 DEF Answers
<1>9. CASE Keep(LinkBreaks)
  <2> DEFINE m == [kind |-> "error", n |-> 0]
  <2>1. mainq' = mainq /\ wire' = Append(wire, m) /\ ~Announces(m)
    BY <1>9 DEF Keep, LinkBreaks, Announces
  <2> QED
    BY <1>7, <2>1
<1>10. CASE ServerBind
  <2>1. mainq' = mainq
    BY <1>10 DEF ServerBind
  <2>2. CASE Head(toServer).n \in bound
    <3>1. PICK s \in Orders(server) :
            /\ Len(s) \in Nat /\ DOMAIN s = 1..Len(s)
            /\ Len(wire') = Len(wire) + Len(s)
            /\ \A i \in 1..Len(wire) : wire'[i] = wire[i]
            /\ \A i \in 1..Len(s) :
                 wire'[Len(wire) + i] = Announce("add", s[i], Head(toServer).n)
      BY <1>10, <2>2, BindTells
    <3>2. wire' \in Seq(RegistryMessages)
      BY <1>10, ServerBindType DEF RTypeOK, CoreTypeOK
    <3>3. \A i \in DOMAIN wire' :
            \/ i \in 1..Len(wire) /\ i \in DOMAIN wire
            \/ i - Len(wire) \in 1..Len(s) /\ Len(wire) + (i - Len(wire)) = i
      BY <1>0, <3>1, <3>2
    <3>4. \A i \in 1..Len(s) : wire'[Len(wire) + i].g \in Known
      <4>1. \A x : Announce("add", x, Head(toServer).n).g = x
        BY DEF Announce
      <4>2. \A i \in 1..Len(s) : s[i] \in server
        BY <3>1 DEF Orders
      <4> QED
        BY <1>0, <3>1, <4>1, <4>2
    <3>5. \A i \in DOMAIN wire' :
            wire'[i].g \in Known \/ \E j \in DOMAIN wire : wire'[i] = wire[j]
      BY <3>1, <3>3, <3>4
    <3> QED
      BY <1>2, <2>1, <3>5
  <2>3. CASE Head(toServer).n \notin bound
    BY <1>3, <1>10, <2>1, <2>3 DEF ServerBind
  <2> QED
    BY <2>2, <2>3
<1>11. ASSUME NEW kind, NEW g \in Known, Broadcast(kind, g), mainq' = mainq
       PROVE  Genuine'
  <2>1. wire' = wire \/ wire' = Append(wire, Announce(kind, g, registry))
    BY <1>11, BroadcastTells DEF ProxiesTold
  <2>2. Announce(kind, g, registry).g = g
    BY DEF Announce
  <2> QED
    BY <1>3, <1>7, <1>11, <2>1, <2>2
<1>12. CASE (\E id \in Ids : ServerAdd(id)) \/ (\E g \in server : ServerRemove(g))
  <2>1. ASSUME NEW id \in Ids, ServerAdd(id)
        PROVE  Genuine'
    <3>1. serial < MaxSerial /\ serial \in Nat /\ MaxSerial \in Nat
      BY <2>1, RegistryAssumption DEF ServerAdd, RTypeOK
    <3>2. [id |-> id, serial |-> serial + 1] \in Known
      BY <3>1 DEF Known
    <3> QED
      BY <1>11, <2>1, <3>2 DEF ServerAdd
  <2>2. ASSUME NEW g \in server, ServerRemove(g)
        PROVE  Genuine'
    BY <1>0, <1>11, <2>2 DEF ServerRemove
  <2> QED
    BY <1>12, <2>1, <2>2
<1>13. CASE Rests \/ Sends \/ Begins \/ Fails \/ Ends \/ Clears
  BY <1>3, <1>13 DEF Rests, Sends, Begins, Fails, Ends, Clears
<1> QED
  BY <1>4, <1>5, <1>6, <1>8, <1>9, <1>10, <1>12, <1>13 DEF StepEffects

-----------------------------------------------------------------------------
(* A session that the server does not know of yet.                         *)

\* With nothing of this session in them, the queues get nothing of it by
\* losing their first entry.
LEMMA NothingRead ==
  ASSUME RTypeOK, UNCHANGED <<generation, registry>>
  PROVE  /\ Current = {} /\ mainq # <<>> /\ mainq' = Tail(mainq) => Current' = {}
         /\ Mine = {} /\ wire # <<>> /\ wire' = Tail(wire) => Mine' = {}
<1>0. mainq \in Seq(RegistrySources) /\ wire \in Seq(RegistryMessages)
  BY DEF RTypeOK, CoreTypeOK
<1>1. ASSUME Current = {}, mainq # <<>>, mainq' = Tail(mainq)
      PROVE  Current' = {}
  <2>1. \A i \in DOMAIN mainq' : i + 1 \in DOMAIN mainq /\ mainq'[i] = mainq[i + 1]
    BY <1>0, <1>1, Shorter
  <2> QED
    BY <1>1, <2>1 DEF Current
<1>2. ASSUME Mine = {}, wire # <<>>, wire' = Tail(wire)
      PROVE  Mine' = {}
  <2>1. \A i \in DOMAIN wire' : i + 1 \in DOMAIN wire /\ wire'[i] = wire[i + 1]
    BY <1>0, <1>2, Shorter
  <2> QED
    BY <1>2, <2>1 DEF Mine
<1> QED
  BY <1>1, <1>2

\* Nor by something that announces nothing to it.
LEMMA NothingQueued ==
  ASSUME RTypeOK, UNCHANGED generation, NEW e, Current = {}, mainq' = Append(mainq, e),
         ~(Announces(e) /\ e.gen = generation)
  PROVE  Current' = {}
<1>1. mainq \in Seq(RegistrySources)
  BY DEF RTypeOK, CoreTypeOK
<1>2. \A i \in DOMAIN mainq' :
        mainq'[i] = e \/ (i \in DOMAIN mainq /\ mainq'[i] = mainq[i])
  BY <1>1, Longer
<1> QED
  BY <1>2 DEF Current

\* A message that tells the session nothing leaves it untold.
LEMMA NothingSent ==
  ASSUME RTypeOK, UNCHANGED registry, NEW m, Mine = {}, wire' = Append(wire, m),
         ~(Announces(m) /\ m.to = registry)
  PROVE  Mine' = {}
<1>1. wire \in Seq(RegistryMessages)
  BY DEF RTypeOK, CoreTypeOK
<1>2. \A i \in DOMAIN wire' :
        wire'[i] = m \/ (i \in DOMAIN wire /\ wire'[i] = wire[i])
  BY <1>1, Longer
<1> QED
  BY <1>2 DEF Mine

\* No step breaks this.
LEMMA UntoldStep ==
  ASSUME StepInv, StepEffects
  PROVE  Untold'
<1> USE DEF StepInv, LineInv
<1>0. /\ wire \in Seq(RegistryMessages) /\ mainq \in Seq(RegistrySources)
      /\ toServer \in Seq(RegistryRequests) /\ lastReq \in Nat /\ registry \in Nat
      /\ generation \in Nat
  BY DEF RTypeOK, CoreTypeOK
<1> DEFINE Before == running /\ connected /\ registry \notin subs
<1>1. CASE UNCHANGED <<running, connected, registry, generation, subs, globals, mainq, wire>>
  BY <1>1 DEF Untold, Current, Mine
<1>2. CASE ~running' \/ ~connected'
  BY <1>2 DEF Untold
<1>3. CASE Begins
  <2>1. registry' = lastReq + 1 /\ generation' = generation + 1 /\ globals' = {}
        /\ mainq' = mainq /\ wire' = wire
    BY <1>3 DEF Begins
  <2>2. Current' = {}
    <3>1. \A i \in DOMAIN mainq : mainq[i] \in RegistrySources
      BY <1>0
    <3>2. \A x \in RegistrySources : Announces(x) => x.kind # "token" /\ x.gen \in Nat
      BY DEF RegistrySources, CoreSources, Announces
    <3>3. \A i \in DOMAIN mainq : Announces(mainq[i]) =>
            mainq[i].gen <= generation /\ mainq[i].gen \in Nat
      BY <3>1, <3>2 DEF SessionInv, EventsOfSession
    <3>4. \A i \in DOMAIN mainq : Announces(mainq[i]) => mainq[i].gen # generation + 1
      BY <1>0, <3>3
    <3> QED
      BY <2>1, <3>4 DEF Current
  <2>3. Mine' = {}
    <3>1. \A i \in DOMAIN wire : Announces(wire[i]) => wire[i].to \in Nat /\ wire[i].to <= lastReq
      BY <1>0 DEF RegistryMessages, CoreMessages, Announces, Numbered
    <3>2. \A i \in DOMAIN wire : Announces(wire[i]) => wire[i].to # lastReq + 1
      BY <1>0, <3>1
    <3> QED
      BY <2>1, <3>2 DEF Mine
  <2> QED
    BY <2>1, <2>2, <2>3 DEF Untold
<1>4. CASE UNCHANGED <<running, connected, registry, generation, subs>>
  <2> SUFFICES ASSUME Before
               PROVE  globals' = {} /\ Current' = {} /\ Mine' = {}
    BY <1>4 DEF Untold
  <2>1. globals = {} /\ Current = {} /\ Mine = {}
    BY DEF Untold
  <2>2. CASE TakesToken
    <3>1. globals' = globals /\ wire' = wire /\ mainq # <<>> /\ mainq' = Tail(mainq)
      BY <2>2 DEF TakesToken, regVars
    <3>2. Mine' = Mine
      BY <1>4, <3>1 DEF Mine
    <3> QED
      BY <1>4, <2>1, <3>1, <3>2, NothingRead
  <2>3. CASE TakesEvent
    <3>1. wire' = wire /\ mainq # <<>> /\ mainq' = Tail(mainq) /\ Announces(Head(mainq))
      BY <2>3 DEF TakesEvent
    <3>2. Head(mainq) = mainq[1] /\ 1 \in DOMAIN mainq
      BY <1>0, <3>1, Shorter
    <3>3. Head(mainq).gen # generation
      BY <2>1, <3>1, <3>2 DEF Current
    <3>4. globals' = globals /\ Mine' = Mine
      BY <1>4, <2>3, <3>1, <3>3 DEF TakesEvent, Mine
    <3> QED
      BY <1>4, <2>1, <3>1, <3>4, NothingRead
  <2>4. CASE ReadsAnswer
    <3>1. globals' = globals /\ wire # <<>> /\ wire' = Tail(wire)
      BY <2>4 DEF ReadsAnswer, regVars
    <3>2. mainq' = mainq \/ mainq' = Append(mainq, Token(Head(wire).n))
      BY <2>4 DEF ReadsAnswer
    <3>3. ~Announces(Token(Head(wire).n))
      BY DEF Announces, Token
    <3>4. CASE mainq' = mainq
      BY <1>4, <2>1, <3>1, <3>4, NothingRead DEF Current
    <3>5. CASE mainq' = Append(mainq, Token(Head(wire).n))
      BY <1>4, <2>1, <3>1, <3>3, <3>5, NothingRead, NothingQueued
    <3> QED
      BY <3>2, <3>4, <3>5
  <2>5. CASE ReadsNews
    <3>1. globals' = globals /\ wire # <<>> /\ wire' = Tail(wire) /\ Announces(Head(wire))
      BY <2>5 DEF ReadsNews, regVars
    <3>2. Head(wire) = wire[1] /\ 1 \in DOMAIN wire
      BY <1>0, <3>1, Shorter
    <3>3. Head(wire).to # registry
      BY <2>1, <3>1, <3>2 DEF Mine
    <3>4. Head(wire).to \notin bound
      BY <3>3 DEF SessionInv, ProxyOfSession
    <3>5. mainq' = mainq
      BY <2>5, <3>4 DEF ReadsNews
    <3> QED
      BY <1>4, <2>1, <3>1, <3>5, NothingRead DEF Current
  <2>6. CASE Answers
    <3>1. globals' = globals /\ mainq' = mainq
      BY <2>6 DEF Answers, regVars
    <3>2. Current' = Current
      BY <1>4, <3>1 DEF Current
    <3>3. CASE wire' = wire
      BY <1>4, <2>1, <3>1, <3>2, <3>3 DEF Mine
    <3>4. ASSUME NEW kind \in {"done", "error"}, NEW n,
                 wire' = Append(wire, [kind |-> kind, n |-> n])
          PROVE  Mine' = {}
      <4>1. ~Announces([kind |-> kind, n |-> n])
        BY DEF Announces
      <4> QED
        BY <1>4, <2>1, <3>4, <4>1, NothingSent
    <3> QED
      BY <2>1, <2>6, <3>1, <3>2, <3>3, <3>4 DEF Answers
  <2>7. CASE Keep(LinkBreaks)
    <3> DEFINE m == [kind |-> "error", n |-> 0]
    <3>1. globals' = globals /\ mainq' = mainq /\ wire' = Append(wire, m) /\ ~Announces(m)
      BY <2>7 DEF Keep, LinkBreaks, regVars, Announces
    <3> HIDE DEF m
    <3>2. Current' = Current
      BY <1>4, <3>1 DEF Current
    <3> QED
      BY <1>4, <2>1, <3>1, <3>2, NothingSent
  <2>8. ASSUME NEW kind, NEW g, Broadcast(kind, g), UNCHANGED <<globals, mainq>>
        PROVE  globals' = {} /\ Current' = {} /\ Mine' = {}
    <3>1. wire' = wire
      BY <2>8, BroadcastTells DEF ProxiesTold
    <3> QED
      BY <1>4, <2>1, <2>8, <3>1 DEF Current, Mine
  <2>9. CASE (\E id \in Ids : ServerAdd(id)) \/ \E g \in server : ServerRemove(g)
    BY <2>8, <2>9 DEF ServerAdd, ServerRemove, regVars
  <2>10. CASE Rests \/ Sends \/ Clears
    BY <2>1, <2>10, <1>1 DEF Rests, Sends, Clears, regVars, serverVars, Current, Mine
  <2>11. CASE Begins \/ Opens \/ Fails \/ Ends \/ Disconnects
    BY <1>4, <2>11 DEF Begins, Opens, Fails, Ends, Disconnects
  <2>12. CASE ServerBind
    <3>2. globals' = globals /\ mainq' = mainq /\ (subs' = subs \cup {Head(toServer).n} \/ wire' = wire)
      BY <2>12 DEF ServerBind, regVars
    <3>3. CASE wire' = wire
      BY <1>4, <2>1, <3>2, <3>3 DEF Current, Mine
    <3>4. CASE subs' = subs \cup {Head(toServer).n} /\ wire' # wire
      <4>1. Head(toServer).n \in bound
        BY <2>12, <3>4 DEF ServerBind
      <4>2. Head(toServer).n = registry
        BY <4>1 DEF SessionInv, ProxyOfSession
      <4> QED
        BY <1>4, <3>4, <4>2
    <3> QED
      BY <3>2, <3>3, <3>4
  <2> QED
    BY <2>2, <2>3, <2>4, <2>5, <2>6, <2>7, <2>9, <2>10, <2>11, <2>12 DEF StepEffects
<1>5. CASE ServerBind
  <2>1. UNCHANGED <<running, connected, registry, generation, globals, mainq>>
    BY <1>5 DEF ServerBind, regVars
  <2>2. CASE Head(toServer).n \in bound
    <3>1. Head(toServer).n = registry /\ registry \in subs'
      BY <1>5, <2>2 DEF ServerBind, SessionInv, ProxyOfSession
    <3> QED
      BY <2>1, <3>1 DEF Untold
  <2>3. CASE Head(toServer).n \notin bound
    BY <1>1, <1>5, <2>1, <2>3 DEF ServerBind
  <2> QED
    BY <2>2, <2>3
<1>6. CASE Opens \/ Fails \/ Ends \/ Disconnects
  BY <1>2, <1>6 DEF Opens, Fails, Ends, Disconnects, regVars
<1>7. StepEffects =>
        \/ UNCHANGED <<running, connected, registry, generation, subs>>
        \/ Begins \/ ServerBind \/ Opens \/ Fails \/ Ends \/ Disconnects
  BY DEF StepEffects, Rests, Sends, Clears, TakesToken, TakesEvent, ReadsAnswer,
         ReadsNews, Answers, Keep, LinkBreaks, ServerAdd, ServerRemove, regVars, serverVars
<1> QED
  BY <1>3, <1>4, <1>5, <1>6, <1>7

\* The line stays as it is described, at every step.
LEMMA LineStep ==
  ASSUME StepInv, StepEffects
  PROVE  LineInv'
BY RequestsStep, SerialsStep, UntoldStep, GenuineStep DEF LineInv

\* What the refinement rests on, from the first state on.
LEMMA StepInvariant ==
  ASSUME Settings
  PROVE  RSpec => []StepInv
<1> USE DEF Settings
<1>1. RInit => LineInv
  <2> SUFFICES ASSUME RInit PROVE LineInv
    OBVIOUS
  <2>1. /\ toServer = <<>> /\ wire = <<>> /\ registry = 0 /\ lastReq = 0 /\ running = FALSE
        /\ server = {} /\ serial = 0 /\ subs = {} /\ bound = {} /\ MaxSerial \in Nat
        /\ mainq = <<>>
    BY RegistryAssumption DEF RInit, Init, NULL
  <2> QED
    BY <2>1 DEF LineInv, RequestsInOrder, Numbered, ProxiesTold, Untold, Serials, Genuine
<1>2. RTypeOK /\ SessionInv /\ OwnerInv /\ LineInv /\ [RNext]_vars => LineInv'
  BY StepInvSound, StepEffect, LineStep DEF StepInv
<1>3. RSpec => []OwnerInv
  BY OwnerInvariant
<1>4. RTypeOK /\ SessionInv /\ OwnerInv /\ LineInv <=> StepInv
  BY DEF StepInv
<1> QED
  BY <1>1, <1>2, <1>3, <1>4, RTypeCorrect, SessionInvariant, PTL DEF RSpec

-----------------------------------------------------------------------------
(* What is on its way to the list, step by step.                           *)

\* One in front of the other: what leaves a queue and joins the one before.
LEMMA CatMove ==
  \A a, b \in Seq(Announced) : \A x \in Announced :
    Append(a, x) \o b = a \o (<<x>> \o b)
OBVIOUS

\* What leaves the front of the first queue leaves the front of both.
LEMMA CatFirst ==
  \A a, b \in Seq(Announced) : \A x \in Announced :
    /\ (<<x>> \o a) \o b = <<x>> \o (a \o b)
    /\ Head(<<x>> \o a) = x /\ Tail(<<x>> \o a) = a /\ <<x>> \o a # <<>>
OBVIOUS

\* Nothing moves.
LEMMA SameTransit ==
  ASSUME UNCHANGED <<mainq, wire, generation, registry>>
  PROVE  InTransit' = InTransit
<1>1. Current' = Current /\ Mine' = Mine
  BY DEF Current, Mine
<1> QED
  BY <1>1 DEF InTransit

\* A token is dispatched.
LEMMA TokenTransit ==
  ASSUME RTypeOK, mainq # <<>>, mainq' = Tail(mainq), Head(mainq).kind = "token",
         UNCHANGED <<wire, generation, registry>>
  PROVE  InTransit' = InTransit
<1>1. 1 \notin Current
  <2>1. Head(mainq) = mainq[1]
    BY LineType
  <2> QED
    BY <2>1 DEF Current, Announces
<1>2. /\ Len(mainq) = Len(mainq') + 1 /\ Len(mainq') \in 0..Len(mainq')
      /\ Told(mainq, Current)[Len(mainq') + 1] = Told(mainq', Current')[Len(mainq')]
  BY <1>1, MainRead
<1>3. Mine' = Mine
  BY DEF Mine
<1> QED
  BY <1>2, <1>3 DEF InTransit

\* An event is dispatched: the oldest that is on its way, or none of them.
LEMMA EventTransit ==
  ASSUME RTypeOK, mainq # <<>>, mainq' = Tail(mainq), Announces(Head(mainq)),
         UNCHANGED <<wire, generation, registry>>
  PROVE  /\ Head(mainq).gen # generation => InTransit' = InTransit
         /\ Head(mainq).gen = generation =>
              /\ Word(Head(mainq)) \in Announced
              /\ InTransit = <<Word(Head(mainq))>> \o InTransit'
              /\ InTransit # <<>>
              /\ Head(InTransit) = Word(Head(mainq)) /\ Tail(InTransit) = InTransit'
<1> DEFINE a == Told(mainq', Current')[Len(mainq')]
           b == Told(wire, Mine)[Len(wire)]
           x == Word(Head(mainq))
<1>1. Head(mainq) = mainq[1] /\ 1 \in DOMAIN mainq /\ 1 \in 1..Len(mainq)
  BY LineType
<1>2. 1 \in Current <=> Head(mainq).gen = generation
  BY <1>1 DEF Current
<1>3. /\ Len(mainq) = Len(mainq') + 1 /\ Len(mainq') \in 0..Len(mainq')
      /\ 1 \in Current => Told(mainq, Current)[Len(mainq') + 1] = <<x>> \o a
      /\ 1 \notin Current => Told(mainq, Current)[Len(mainq') + 1] = a
      /\ a \in Seq(Announced)
  BY MainRead
<1>4. Mine' = Mine
  BY DEF Mine
<1>5. b \in Seq(Announced)
  BY LineToldType, LineType
<1>6. 1 \in Current => x \in Announced
  BY <1>1, LineType
<1>7. InTransit' = a \o b
  BY <1>4 DEF InTransit
<1>8. 1 \in Current => InTransit = (<<x>> \o a) \o b
  BY <1>3 DEF InTransit
<1>9. 1 \notin Current => InTransit = a \o b
  BY <1>3 DEF InTransit
<1>10. a \o b \in Seq(Announced)
  BY <1>3, <1>5
<1> HIDE DEF a, b, x
<1>11. 1 \in Current => InTransit = <<x>> \o InTransit'
  BY <1>3, <1>5, <1>6, <1>7, <1>8, CatFirst
<1>12. 1 \in Current => /\ Head(InTransit) = x /\ Tail(InTransit) = InTransit'
                        /\ InTransit # <<>>
  BY <1>6, <1>7, <1>10, <1>11, CatFirst
<1> QED
  BY <1>2, <1>6, <1>7, <1>9, <1>11, <1>12 DEF x

\* The loop thread takes a message: what it told stays between the same
\* neighbours, wherever it is now.
Hands ==
  /\ Len(wire) = Len(wire') + 1 /\ Len(wire') \in Nat
  /\ \A n \in 0..Len(mainq) : Told(mainq', Current')[n] = Told(mainq, Current)[n]
  /\ \A n \in 0..Len(wire') :
       Told(mainq', Current')[Len(mainq')] \o Told(wire', Mine')[n] =
         Told(mainq, Current)[Len(mainq)] \o Told(wire, Mine)[n + 1]

\* An answer hands nothing over.
LEMMA AnswerHands ==
  ASSUME RTypeOK, wire # <<>>, wire' = Tail(wire), ~Announces(Head(wire)),
         mainq' = mainq \/ \E n \in Nat : mainq' = Append(mainq, Token(n)),
         UNCHANGED <<generation, registry>>
  PROVE  Hands
<1>1. 1 \notin Mine
  <2>1. Head(wire) = wire[1]
    BY LineType
  <2> QED
    BY <2>1 DEF Mine
<1>2. /\ Len(wire) = Len(wire') + 1 /\ Len(wire') \in Nat
      /\ \A n \in 0..Len(wire') : Told(wire, Mine)[n + 1] = Told(wire', Mine')[n]
  BY <1>1, WireRead
<1>3. /\ \A n \in 0..Len(mainq) : Told(mainq', Current')[n] = Told(mainq, Current)[n]
      /\ Told(mainq', Current')[Len(mainq')] = Told(mainq, Current)[Len(mainq)]
  <2>1. ASSUME mainq' = mainq
        PROVE  /\ \A k \in 0..Len(mainq) : Told(mainq', Current')[k] = Told(mainq, Current)[k]
               /\ Told(mainq', Current')[Len(mainq')] = Told(mainq, Current)[Len(mainq)]
    <3>1. Current' = Current
      BY <2>1 DEF Current
    <3> QED
      BY <2>1, <3>1
  <2>2. ASSUME NEW n \in Nat, mainq' = Append(mainq, Token(n))
        PROVE  /\ \A k \in 0..Len(mainq) : Told(mainq', Current')[k] = Told(mainq, Current)[k]
               /\ Told(mainq', Current')[Len(mainq')] = Told(mainq, Current)[Len(mainq)]
    <3>1. Token(n) \in RegistrySources /\ ~Announces(Token(n))
      BY DEF Token, RegistrySources, CoreSources, Announces
    <3> QED
      BY <2>2, <3>1, MainAttached
  <2> QED
    BY <2>1, <2>2
<1> QED
  BY <1>2, <1>3 DEF Hands

\* An announcement is handed from the wire to the main context.
LEMMA NewsHands ==
  ASSUME RTypeOK, ReadsNews, bound = {registry}
  PROVE  Hands
<1> DEFINE m == Head(wire)
           e == [kind |-> m.kind, gen |-> generation, from |-> m.to, g |-> m.g]
           a == Told(mainq, Current)[Len(mainq)]
           x == Word(m)
<1>1. /\ wire # <<>> /\ wire' = Tail(wire) /\ Announces(m)
      /\ mainq' = IF m.to \in bound THEN Append(mainq, e) ELSE mainq
      /\ UNCHANGED <<generation, registry>>
  BY DEF ReadsNews, regVars
<1>2. m = wire[1] /\ 1 \in DOMAIN wire /\ m \in RegistryMessages
  BY <1>1, LineType
<1>3. 1 \in Mine <=> m.to = registry
  BY <1>1, <1>2 DEF Mine
<1>4. /\ Len(wire) = Len(wire') + 1 /\ Len(wire') \in Nat
      /\ \A n \in 0..Len(wire') :
           /\ 1 \in Mine => Told(wire, Mine)[n + 1] = <<x>> \o Told(wire', Mine')[n]
           /\ 1 \notin Mine => Told(wire, Mine)[n + 1] = Told(wire', Mine')[n]
           /\ Told(wire', Mine')[n] \in Seq(Announced)
  BY <1>1, WireRead
<1>5. CASE m.to = registry
  <2>1. m \in [kind : {"add", "remove"}, to : Nat, g : Global] /\ generation \in Nat
    BY <1>1, <1>2 DEF Announces, RegistryMessages, CoreMessages, RTypeOK
  <2>2. e \in RegistrySources /\ Announces(e) /\ e.gen = generation /\ Word(e) = x
    BY <2>1 DEF RegistrySources, Announces, Word
  <2>3. x \in Announced /\ a \in Seq(Announced)
    <3>1. x \in Announced
      BY <2>1 DEF Word, Announced
    <3>2. a \in Seq(Announced)
      BY LineToldType, LineType
    <3> QED
      BY <3>1, <3>2
  <2>4. mainq' = Append(mainq, e)
    BY <1>1, <1>5
  <2> HIDE DEF e
  <2>5. /\ Len(mainq') = Len(mainq) + 1 /\ Told(mainq', Current')[Len(mainq')] = Append(a, x)
        /\ \A n \in 0..Len(mainq) : Told(mainq', Current')[n] = Told(mainq, Current)[n]
    BY <1>1, <2>2, <2>4, MainAttached
  <2> HIDE DEF a, x
  <2>6. ASSUME NEW n \in 0..Len(wire')
        PROVE  Append(a, x) \o Told(wire', Mine')[n] = a \o Told(wire, Mine)[n + 1]
    <3> DEFINE b == Told(wire', Mine')[n]
    <3>1. b \in Seq(Announced) /\ Told(wire, Mine)[n + 1] = <<x>> \o b
      BY <1>3, <1>4, <1>5
    <3> HIDE DEF b
    <3>2. Append(a, x) \o b = a \o (<<x>> \o b)
      BY <2>3, <3>1, CatMove
    <3> QED
      BY <3>1, <3>2 DEF b
  <2> QED
    BY <1>4, <2>5, <2>6 DEF Hands, a
<1>6. CASE m.to # registry
  <2>1. mainq' = mainq
    BY <1>1, <1>6
  <2>2. Current' = Current
    BY <1>1, <2>1 DEF Current
  <2> QED
    BY <1>3, <1>4, <1>6, <2>1, <2>2 DEF Hands
<1> QED
  BY <1>5, <1>6

\* So what is on its way, as a whole, is the same.
LEMMA HandsTransit ==
  ASSUME Hands
  PROVE  InTransit' = InTransit
<1>1. Len(wire') \in 0..Len(wire') /\ Len(wire) = Len(wire') + 1
  BY DEF Hands
<1> QED
  BY <1>1 DEF Hands, InTransit

\* The server binds the session's proxy: what it tells is all that there is.
LEMMA BindTransit ==
  ASSUME RTypeOK, ServerBind, Head(toServer).n \in bound, Head(toServer).n = registry,
         Current = {}, Mine = {}
  PROVE  \E s \in Orders(server) :
           InTransit' = [i \in DOMAIN s |-> [kind |-> "add", g |-> s[i]]]
<1>1. PICK s \in Orders(server) :
        /\ Len(s) \in Nat /\ DOMAIN s = 1..Len(s)
        /\ Len(wire') = Len(wire) + Len(s)
        /\ \A i \in 1..Len(wire) : wire'[i] = wire[i]
        /\ \A i \in 1..Len(s) : wire'[Len(wire) + i] = Announce("add", s[i], registry)
  BY BindTells
<1>2. UNCHANGED <<mainq, generation, registry>>
  BY DEF ServerBind, regVars
<1>3. wire' \in Seq(RegistryMessages)
  BY ServerBindType DEF RTypeOK, CoreTypeOK
<1>4. Len(wire) \in Nat /\ DOMAIN wire = 1..Len(wire) /\ DOMAIN wire' = 1..(Len(wire) + Len(s))
  BY <1>1, <1>3, LineType
<1> DEFINE x == [i \in 1..Len(s) |-> [kind |-> "add", g |-> s[i]]]
<1>5. \A i \in 1..Len(wire) : i \notin Mine'
  BY <1>1, <1>2, <1>4 DEF Mine
<1>6. \A i \in 1..Len(s) : s[i] \in Global
  BY <1>1 DEF Orders, RTypeOK
<1>7. ASSUME NEW i \in 1..Len(s)
      PROVE  Len(wire) + i \in Mine' /\ Word(wire'[Len(wire) + i]) = x[i] /\ x[i] \in Announced
  <2>1. wire'[Len(wire) + i] = Announce("add", s[i], registry)
    BY <1>1
  <2>2. Len(wire) + i \in DOMAIN wire'
    BY <1>1, <1>4
  <2> QED
    BY <1>2, <1>6, <2>1, <2>2 DEF Mine, Announces, Announce, Word, Announced
<1> HIDE DEF x
<1>8. Told(wire', Mine')[Len(wire) + Len(s)] = [i \in 1..Len(s) |-> x[i]]
  <2> DEFINE q == wire'
             J == Mine'
             n == Len(wire)
             k == Len(s)
  <2>1. n \in Nat /\ k \in Nat /\ Len(q) = n + k
    BY <1>1, <1>4
  <2>2. \A i \in 1..n : i \notin J
    BY <1>5
  <2>3. \A i \in 1..k : n + i \in J /\ Word(q[n + i]) = x[i] /\ x[i] \in Announced
    BY <1>7
  <2> HIDE DEF q, J, n, k
  <2>4. Told(q, J)[n + k] = [i \in 1..k |-> x[i]]
    <3>1. OnlyLast(q, J, n, k, x)
      BY <2>2, <2>3 DEF OnlyLast
    <3> QED
      BY <2>1, <3>1, ToldLast
  <2> QED
    BY <2>4 DEF q, J, n, k
<1>9. Told(mainq', Current')[Len(mainq')] = <<>>
  <2>1. Current' = {}
    BY <1>2 DEF Current
  <2> QED
    BY <1>2, <2>1, LineType, ToldNothing
<1>10. [i \in 1..Len(s) |-> x[i]] = x /\ x \in Seq(Announced)
  BY <1>1, <1>7 DEF x
<1>11. InTransit' = x
  BY <1>1, <1>8, <1>9, <1>10 DEF InTransit
<1> QED
  BY <1>1, <1>11 DEF x

-----------------------------------------------------------------------------
(* The registry as Discovery sees it, one action at a time.                *)

\* Nothing that Discovery sees has changed.
LEMMA SeesNothing ==
  ASSUME server' = server, View' = View, Established' = Established,
         Established => link' = link /\ InTransit' = InTransit
  PROVE  UNCHANGED Abstract!vars
<1>1. (Established /\ link)' = (Established /\ link)
  OBVIOUS
<1>2. (IF Established THEN InTransit ELSE <<>>)' = IF Established THEN InTransit ELSE <<>>
  OBVIOUS
<1> QED
  BY <1>1, <1>2 DEF Abstract!vars

\* A session ends, and its view is cleared or not yet.
LEMMA SeesClose ==
  ASSUME Established, ~Established', server' = server, View' = View \/ View' = {}
  PROVE  Abstract!Close
<1>1. ~(Established /\ link)' /\ (IF Established THEN InTransit ELSE <<>>)' = <<>>
  OBVIOUS
<1> QED
  BY <1>1 DEF Abstract!Close

\* The view is cleared with no session open.
LEMMA SeesClear ==
  ASSUME ~Established, ~Established', server' = server, View' = {}
  PROVE  Abstract!Clear
<1>1. /\ (Established /\ link)' = (Established /\ link)
      /\ (IF Established THEN InTransit ELSE <<>>)' =
           IF Established THEN InTransit ELSE <<>>
  OBVIOUS
<1>2. Established' = Established
  BY DEF Established
<1> QED
  BY <1>1, <1>2 DEF Abstract!Clear

\* An announcement is applied with no session open.
LEMMA SeesLinger ==
  ASSUME ~Established, ~Established', server' = server,
         NEW a \in Abstract!Announcement, View' = Abstract!Applied(a)
  PROVE  Abstract!Linger
<1>1. /\ (Established /\ link)' = (Established /\ link)
      /\ (IF Established THEN InTransit ELSE <<>>)' =
           IF Established THEN InTransit ELSE <<>>
  OBVIOUS
<1>2. Established' = Established
  BY DEF Established
<1> QED
  BY <1>1, <1>2 DEF Abstract!Linger

\* The oldest announcement is applied to the view.
LEMMA SeesApply ==
  ASSUME Established, Established', server' = server, link' = link,
         InTransit # <<>>, InTransit' = Tail(InTransit),
         View' = Abstract!Applied(Head(InTransit))
  PROVE  Abstract!Apply
<1> DEFINE p == IF Established THEN InTransit ELSE <<>>
<1>1. p = InTransit /\ p' = InTransit'
  OBVIOUS
<1>2. (Established /\ link)' = (Established /\ link)
  OBVIOUS
<1> QED
  BY <1>1, <1>2 DEF Abstract!Apply

\* The link breaks under the session.
LEMMA SeesBreak ==
  ASSUME Established, Established', link, ~link', server' = server, View' = View,
         InTransit' = InTransit
  PROVE  Abstract!Break
<1> DEFINE p == IF Established THEN InTransit ELSE <<>>
<1>1. p' = p /\ (Established /\ link) /\ ~(Established /\ link)'
  OBVIOUS
<1> QED
  BY <1>1 DEF Abstract!Break

\* A session opens: it shows nothing, and all that exists is on its way.
LEMMA SeesOpen ==
  ASSUME ~Established, Established', link', server' = server, View = {}, View' = {},
         NEW s \in Orders(server),
         InTransit' = [i \in DOMAIN s |-> [kind |-> "add", g |-> s[i]]]
  PROVE  Abstract!Open
<1> DEFINE p == IF Established THEN InTransit ELSE <<>>
<1>1. p' = InTransit' /\ (Established /\ link)'
  OBVIOUS
<1>2. p' = [i \in DOMAIN s |-> Abstract!Adding(s[i])]
  BY <1>1 DEF Abstract!Adding
<1>3. s \in Abstract!Orders(server)
  <2>1. Orders(server) = Abstract!Orders(server)
    BY Zenon DEF Orders, Abstract!Orders, Cardinality, Abstract!Cardinality
  <2> QED
    BY <2>1
<1> QED
  BY <1>1, <1>2, <1>3 DEF Abstract!Open

\* A change of the server's globals is told at the end, while the link holds.
LEMMA SeesChange ==
  ASSUME Established' = Established, link' = link, View' = View,
         NEW a, Established /\ link => InTransit' = Append(InTransit, a),
         Established /\ ~link => InTransit' = InTransit
  PROVE  /\ Abstract!Broadcast(a)
         /\ (Established /\ link)' = (Established /\ link)
<1> DEFINE p == IF Established THEN InTransit ELSE <<>>
<1>1. p' = IF Established /\ link THEN Append(p, a) ELSE p
  OBVIOUS
<1>2. (Established /\ link)' = (Established /\ link)
  OBVIOUS
<1> QED
  BY <1>1, <1>2 DEF Abstract!Broadcast

\* The server's proxies are the session's.
LEMMA OnlyProxy ==
  ASSUME StepInv
  PROVE  /\ subs \subseteq {registry} /\ bound \subseteq {registry}
         /\ bound # {} => running /\ connected
         /\ Established => connected /\ bound = {registry}
         /\ Established \in BOOLEAN
         /\ RTypeOK
<1>1. subs \subseteq bound /\ bound \subseteq {registry} /\ (bound # {} => running /\ connected)
  BY DEF StepInv, LineInv, ProxiesTold, SessionInv, ProxyOfSession
<1>2. Established => registry \in subs
  BY DEF Established
<1>3. Established \in BOOLEAN
  BY DEF Established
<1>4. RTypeOK
  BY DEF StepInv
<1> QED
  BY <1>1, <1>2, <1>3, <1>4

\* Steps that change neither the list nor the proxies that the server knows.
LEMMA QuietRefines ==
  ASSUME StepInv,
         Rests \/ Sends \/ Opens \/ Begins \/ Fails \/ TakesToken \/ ReadsAnswer
           \/ ReadsNews \/ Answers
  PROVE  UNCHANGED Abstract!vars
<1>0. RTypeOK /\ Established \in BOOLEAN /\ Established' \in BOOLEAN
  BY OnlyProxy DEF Established
<1>1. CASE Rests \/ Sends
  <2>1. InTransit' = InTransit
    BY <1>1, SameTransit DEF Rests, Sends, regVars
  <2>2. server' = server /\ View' = View /\ Established' = Established /\ link' = link
    BY <1>1 DEF Rests, Sends, regVars, serverVars, View, Established
  <2> QED
    BY <2>1, <2>2, SeesNothing
<1>2. CASE Opens \/ Fails
  <2>1. ~running /\ ~running' /\ server' = server /\ globals' = globals
    BY <1>2 DEF Opens, Fails, regVars, serverVars
  <2>2. ~Established /\ ~Established' /\ View' = View
    BY <2>1 DEF Established, View
  <2> QED
    BY <1>0, <2>1, <2>2, SeesNothing
<1>3. CASE Begins
  <2>1. ~running /\ subs' = subs /\ server' = server /\ globals' = globals
        /\ registry' = lastReq + 1
    BY <1>3 DEF Begins, serverVars
  <2>2. subs = {}
    BY <2>1, OnlyProxy DEF StepInv, LineInv, ProxiesTold
  <2>3. ~Established /\ ~Established' /\ View' = View
    BY <2>1, <2>2 DEF Established, View
  <2> QED
    BY <1>0, <2>1, <2>3, SeesNothing
<1>4. CASE TakesToken
  <2>1. InTransit' = InTransit
    BY <1>0, <1>4, TokenTransit DEF TakesToken, regVars
  <2>2. server' = server /\ View' = View /\ Established' = Established /\ link' = link
    BY <1>4 DEF TakesToken, regVars, serverVars, View, Established
  <2> QED
    BY <2>1, <2>2, SeesNothing
<1>5. CASE ReadsAnswer
  <2>1. /\ wire # <<>> /\ wire' = Tail(wire) /\ Head(wire).kind \in {"done", "error"}
        /\ \/ mainq' = mainq
           \/ Head(wire).kind = "done" /\ mainq' = Append(mainq, Token(Head(wire).n))
        /\ UNCHANGED <<generation, registry>>
    BY <1>5 DEF ReadsAnswer, regVars
  <2>2. ~Announces(Head(wire))
    BY <2>1 DEF Announces
  <2>3. Head(wire).kind = "done" => Head(wire).n \in Nat
    <3>1. wire \in Seq(RegistryMessages)
      BY <1>0, LineType
    <3>2. Head(wire) \in RegistryMessages
      BY <2>1, <3>1, Shorter
    <3> QED
      BY <3>2 DEF RegistryMessages, CoreMessages
  <2>4. mainq' = mainq \/ \E n \in Nat : mainq' = Append(mainq, Token(n))
    BY <2>1, <2>3
  <2>5. InTransit' = InTransit
    BY <1>0, <2>1, <2>2, <2>4, AnswerHands, HandsTransit
  <2>6. server' = server /\ View' = View /\ Established' = Established /\ link' = link
    BY <1>5 DEF ReadsAnswer, regVars, serverVars, View, Established
  <2> QED
    BY <2>5, <2>6, SeesNothing
<1>6. CASE ReadsNews
  <2>1. Established => InTransit' = InTransit
    BY <1>0, <1>6, OnlyProxy, NewsHands, HandsTransit
  <2>2. server' = server /\ View' = View /\ Established' = Established /\ link' = link
    BY <1>6 DEF ReadsNews, regVars, serverVars, View, Established
  <2> QED
    BY <2>1, <2>2, SeesNothing
<1>7. CASE Answers
  <2>1. mainq' = mainq /\ generation' = generation /\ registry' = registry /\ toServer # <<>>
    BY <1>7 DEF Answers, regVars
  <2>2. ASSUME \E kind \in {"done", "error"} :
                 wire' = Append(wire, [kind |-> kind, n |-> Head(toServer).n])
        PROVE  InTransit' = InTransit
    <3>1. PICK kind \in {"done", "error"} :
                 wire' = Append(wire, [kind |-> kind, n |-> Head(toServer).n])
      BY <2>2
    <3> DEFINE m == [kind |-> kind, n |-> Head(toServer).n]
    <3>2. m \in RegistryMessages /\ ~Announces(m)
      <4>1. Head(toServer) \in RegistryRequests
        BY <1>0, <2>1 DEF RTypeOK, CoreTypeOK
      <4>2. Head(toServer).n \in Nat
        BY <4>1 DEF RegistryRequests, CoreRequests
      <4> QED
        BY <4>2 DEF RegistryMessages, CoreMessages, Announces
    <3> HIDE DEF m
    <3>3. wire' = Append(wire, m)
      BY <3>1 DEF m
    <3> QED
      BY <1>0, <2>1, <3>2, <3>3, WireOther
  <2>3. ASSUME wire' = wire
        PROVE  InTransit' = InTransit
    BY <2>1, <2>3, SameTransit
  <2>4. InTransit' = InTransit
    BY <1>7, <2>2, <2>3 DEF Answers
  <2>5. server' = server /\ View' = View /\ Established' = Established /\ link' = link
    BY <1>7 DEF Answers, regVars, serverVars, View, Established
  <2> QED
    BY <2>4, <2>5, SeesNothing
<1> QED
  BY <1>1, <1>2, <1>3, <1>4, <1>5, <1>6, <1>7

\* The end of a session, or of the connection it was on.
LEMMA EndRefines ==
  ASSUME StepInv, Ends \/ Disconnects \/ Clears
  PROVE  Abstract!Close \/ Abstract!Clear \/ UNCHANGED Abstract!vars
<1>1. ~Established' /\ server' = server /\ (View' = View \/ View' = {})
  <2>1. ~Established'
    BY OnlyProxy DEF Ends, Disconnects, Clears, Established
  <2>2. server' = server /\ (globals' = globals \/ globals' = {})
    BY DEF Ends, Disconnects, Clears, serverVars
  <2> QED
    BY <2>1, <2>2 DEF View
<1>2. CASE Established
  BY <1>1, <1>2, SeesClose
<1>3. CASE ~Established /\ View' = {}
  BY <1>1, <1>3, SeesClear
<1>4. CASE ~Established /\ View' = View
  <2>1. Established' = Established
    BY <1>1, <1>4, OnlyProxy DEF Established
  <2> QED
    BY <1>1, <1>4, <2>1, SeesNothing
<1> QED
  BY <1>1, <1>2, <1>3, <1>4

\* What the view has once an announcement is applied to it.
Applied(v, x) ==
  {h \in v : h.id # x.g.id} \cup (IF x.kind = "add" THEN {x.g} ELSE {})

\* The list shows the event of the session that is dispatched.
LEMMA EventShows ==
  ASSUME RTypeOK, TakesEvent, running, Head(mainq).gen = generation
  PROVE  View' = Applied(View, Word(Head(mainq)))
<1> DEFINE e == Head(mainq)
           new == [id |-> e.g.id, serial |-> e.g.serial, from |-> e.from]
           same == {x \in globals : x.id = e.g.id}
<1>1. mainq # <<>> /\ Announces(e) /\ e \in RegistrySources
  BY LineType, Shorter DEF TakesEvent
<1>2. e.g \in Global /\ e.kind = Word(e).kind /\ Word(e).g = e.g
  BY <1>1 DEF Announces, RegistrySources, CoreSources, Word
<1>3. globals' = (globals \ same) \cup (IF e.kind = "add" THEN {new} ELSE {})
  BY DEF TakesEvent
<1>4. [id |-> new.id, serial |-> new.serial] = e.g
  BY <1>2 DEF Global
<1> HIDE DEF e, new
<1>5. View' = {[id |-> x.id, serial |-> x.serial] : x \in globals \ same}
                \cup (IF e.kind = "add" THEN {e.g} ELSE {})
  BY <1>3, <1>4 DEF View
<1>6. {[id |-> x.id, serial |-> x.serial] : x \in globals \ same} =
      {h \in View : h.id # e.g.id}
  BY DEF View
<1> QED
  BY <1>2, <1>5, <1>6 DEF Applied, e

\* An event of the session is what Discovery applies, one of a session whose
\* connection has gone what lingers; others leave the list.
LEMMA EventRefines ==
  ASSUME StepInv, TakesEvent
  PROVE  Abstract!Apply \/ Abstract!Linger \/ UNCHANGED Abstract!vars
<1> DEFINE e == Head(mainq)
<1>1. /\ mainq # <<>> /\ mainq' = Tail(mainq) /\ Announces(e)
      /\ UNCHANGED <<wire, generation, registry, running, link, subs, server>>
  BY DEF TakesEvent, serverVars
<1>2. RTypeOK /\ e \in RegistrySources /\ e = mainq[1] /\ 1 \in DOMAIN mainq
  BY <1>1, OnlyProxy, LineType
<1>3. Established' = Established
  BY <1>1 DEF Established
<1>4. CASE connected /\ running /\ e.gen = generation
  <2>1. 1 \in Current
    BY <1>1, <1>2, <1>4 DEF Current
  <2>2. Established
    BY <1>1, <1>4, <2>1 DEF StepInv, LineInv, Untold, Established
  <2>3. /\ InTransit # <<>> /\ InTransit' = Tail(InTransit)
        /\ Head(InTransit) = Word(e)
    BY <1>1, <1>2, <1>4, EventTransit
  <2>4. View' = Abstract!Applied(Word(e))
    <3>1. View' = Applied(View, Word(e))
      BY <1>2, <1>4, EventShows
    <3> QED
      BY <3>1 DEF Applied, Abstract!Applied
  <2> HIDE DEF e
  <2> QED
    BY <1>1, <1>3, <2>2, <2>3, <2>4, SeesApply
<1>6. CASE ~connected /\ running /\ e.gen = generation
  <2>1. ~Established /\ ~Established'
    BY <1>3, <1>6, OnlyProxy
  <2>2. Word(e) \in Abstract!Announcement
    <3>1. e.g \in Known /\ e.kind \in {"add", "remove"}
      BY <1>1, <1>2 DEF StepInv, LineInv, Genuine, Announces
    <3>2. Known = Abstract!Global
      BY DEF Known, Abstract!Global
    <3> QED
      BY <3>1, <3>2 DEF Word, Abstract!Announcement
  <2>3. View' = Abstract!Applied(Word(e))
    <3>1. View' = Applied(View, Word(e))
      BY <1>2, <1>6, EventShows
    <3> QED
      BY <3>1 DEF Applied, Abstract!Applied
  <2> HIDE DEF e
  <2> QED
    BY <1>1, <2>1, <2>2, <2>3, SeesLinger
<1>5. CASE ~(running /\ e.gen = generation)
  <2>1. globals' = globals
    BY <1>5 DEF TakesEvent
  <2>2. View' = View
    BY <2>1 DEF View
  <2>3. Established => InTransit' = InTransit
    <3>1. Established => running
      BY DEF Established
    <3> QED
      BY <1>1, <1>2, <1>5, <3>1, EventTransit
  <2> QED
    BY <1>1, <1>3, <2>2, <2>3, SeesNothing
<1> QED
  BY <1>4, <1>5, <1>6

\* The server tells a new proxy of what exists: the session opens.
LEMMA BindRefines ==
  ASSUME StepInv, ServerBind
  PROVE  Abstract!Open \/ UNCHANGED Abstract!vars
<1> DEFINE p == Head(toServer).n
<1>1. /\ link /\ toServer # <<>> /\ toServer[1].kind = "bind" /\ p = toServer[1].n
      /\ 1 \in DOMAIN toServer
      /\ link' = link /\ server' = server /\ globals' = globals /\ registry' = registry
      /\ running' = running /\ mainq' = mainq /\ generation' = generation
  <2>1. toServer \in Seq(RegistryRequests)
    BY OnlyProxy DEF RTypeOK, CoreTypeOK
  <2>2. toServer # <<>> => 1 \in DOMAIN toServer /\ Head(toServer) = toServer[1]
    BY <2>1
  <2> QED
    BY <2>2 DEF ServerBind, regVars
<1>2. View' = View
  BY <1>1 DEF View
<1>3. CASE p \in bound
  <2>1. p = registry /\ running /\ connected
    BY <1>3, OnlyProxy
  <2>2. registry \notin subs
    BY <1>1, <2>1 DEF StepInv, LineInv, ProxiesTold
  <2>3. globals = {} /\ Current = {} /\ Mine = {}
    BY <2>1, <2>2 DEF StepInv, LineInv, Untold
  <2>4. ~Established /\ Established'
    BY <1>1, <1>3, <2>1, <2>2 DEF Established, ServerBind
  <2>5. PICK s \in Orders(server) :
          InTransit' = [i \in DOMAIN s |-> [kind |-> "add", g |-> s[i]]]
    BY <1>3, <2>1, <2>3, OnlyProxy, BindTransit
  <2>6. View = {}
    BY <2>3 DEF View
  <2> QED
    BY <1>1, <1>2, <2>4, <2>5, <2>6, SeesOpen
<1>4. CASE p \notin bound
  <2>1. subs' = subs /\ wire' = wire
    BY <1>4 DEF ServerBind
  <2>2. Established' = Established
    BY <1>1, <2>1 DEF Established
  <2>3. InTransit' = InTransit
    BY <1>1, <2>1, SameTransit
  <2> QED
    BY <1>1, <1>2, <2>2, <2>3, SeesNothing
<1> QED
  BY <1>3, <1>4

\* The link breaks.
LEMMA BreakRefines ==
  ASSUME StepInv, Keep(LinkBreaks)
  PROVE  Abstract!Break \/ UNCHANGED Abstract!vars
<1>1. /\ link /\ ~link' /\ wire' = Append(wire, [kind |-> "error", n |-> 0])
      /\ mainq' = mainq /\ generation' = generation /\ registry' = registry
      /\ running' = running /\ subs' = subs /\ server' = server /\ globals' = globals
  BY DEF Keep, LinkBreaks, regVars, serverVars
<1> DEFINE m == [kind |-> "error", n |-> 0]
<1>2. m \in RegistryMessages /\ ~Announces(m)
  BY DEF RegistryMessages, CoreMessages, Announces
<1>3. wire' = Append(wire, m)
  BY <1>1
<1> HIDE DEF m
<1>4. InTransit' = InTransit
  BY <1>1, <1>2, <1>3, OnlyProxy, WireOther
<1>5. Established' = Established /\ View' = View
  BY <1>1 DEF Established, View
<1>6. CASE Established
  BY <1>1, <1>4, <1>5, <1>6, SeesBreak
<1>7. CASE ~Established
  BY <1>1, <1>4, <1>5, <1>7, SeesNothing
<1> QED
  BY <1>6, <1>7

\* A change that the server tells of reaches the session's queue at its end.
LEMMA ChangeRefines ==
  ASSUME StepInv, NEW kind \in {"add", "remove"}, NEW g \in Global, Broadcast(kind, g),
         UNCHANGED <<link, mainq, regVars, subs>>
  PROVE  /\ Abstract!Broadcast([kind |-> kind, g |-> g])
         /\ UNCHANGED <<Established, (Established /\ link), View>>
<1> DEFINE m == Announce(kind, g, registry)
<1>1. RTypeOK /\ SessionInv /\ subs \subseteq bound
  BY DEF StepInv, LineInv, ProxiesTold
<1>2. /\ link' = link /\ mainq' = mainq /\ generation' = generation /\ registry' = registry
      /\ running' = running /\ subs' = subs /\ globals' = globals
  BY DEF regVars
<1>3. Established' = Established /\ View' = View /\ (Established => registry \in subs)
  BY <1>2 DEF Established, View
<1>4. /\ link /\ registry \in subs => wire' = Append(wire, m)
      /\ ~(link /\ registry \in subs) => wire' = wire
  BY <1>1, BroadcastTells
<1>5. /\ m \in RegistryMessages /\ Announces(m) /\ m.to = registry
      /\ Word(m) = [kind |-> kind, g |-> g]
  BY <1>1 DEF RTypeOK, Announce, Announces, RegistryMessages, Word
<1> HIDE DEF m
<1>6. link /\ registry \in subs => InTransit' = Append(InTransit, Word(m))
  BY <1>1, <1>2, <1>4, <1>5, WireMine
<1>7. ~(link /\ registry \in subs) => InTransit' = InTransit
  BY <1>2, <1>4, SameTransit
<1>8. /\ Abstract!Broadcast([kind |-> kind, g |-> g])
      /\ (Established /\ link)' = (Established /\ link)
  BY <1>2, <1>3, <1>5, <1>6, <1>7, SeesChange
<1> QED
  BY <1>3, <1>8

\* A global appears, and another goes.
LEMMA AddRefines ==
  ASSUME StepInv, NEW id \in Ids, ServerAdd(id)
  PROVE  \E g \in Abstract!Global : Abstract!Add(g)
<1> DEFINE g == [id |-> id, serial |-> serial + 1]
<1>1. /\ serial < MaxSerial /\ \A h \in server : h.id # g.id
      /\ server' = server \cup {g} /\ Broadcast("add", g)
      /\ UNCHANGED <<link, mainq, regVars, subs>>
  BY DEF ServerAdd
<1>2. serial \in Nat /\ MaxSerial \in Nat
  BY OnlyProxy, RegistryAssumption DEF RTypeOK
<1>3. g \in Global /\ g \in Abstract!Global
  BY <1>1, <1>2 DEF Global, Abstract!Global
<1> HIDE DEF g
<1>4. /\ Abstract!Broadcast([kind |-> "add", g |-> g])
      /\ UNCHANGED <<Established, (Established /\ link), View>>
  BY <1>1, <1>3, ChangeRefines
<1>5. Abstract!Add(g)
  BY <1>1, <1>4 DEF Abstract!Add, Abstract!Adding
<1> QED
  BY <1>3, <1>5

\* A global leaves the server: Discovery's Remove.
LEMMA RemoveRefines ==
  ASSUME StepInv, NEW g \in server, ServerRemove(g)
  PROVE  g \in Abstract!Global /\ Abstract!Remove(g)
<1>1. /\ server' = server \ {g} /\ Broadcast("remove", g)
      /\ UNCHANGED <<link, mainq, regVars, subs>>
  BY DEF ServerRemove
<1>2. serial \in Nat /\ MaxSerial \in Nat /\ g \in Global
  BY OnlyProxy, RegistryAssumption DEF RTypeOK
<1>3. g.serial \in 1..serial /\ serial <= MaxSerial
  BY DEF StepInv, LineInv, Serials
<1>4. g \in Abstract!Global
  <2>1. g.serial \in 1..MaxSerial
    BY <1>2, <1>3
  <2> QED
    BY <1>2, <2>1 DEF Global, Abstract!Global
<1>5. /\ Abstract!Broadcast([kind |-> "remove", g |-> g])
      /\ UNCHANGED <<Established, (Established /\ link), View>>
  BY <1>1, <1>2, ChangeRefines
<1> QED
  BY <1>1, <1>4, <1>5 DEF Abstract!Remove, Abstract!Removing

\* Every step of the registry is a step of Discovery, or none.
LEMMA StepRefines ==
  ASSUME StepInv, StepEffects
  PROVE  [Abstract!Next]_(Abstract!vars)
<1>1. CASE Rests \/ Sends \/ Opens \/ Begins \/ Fails \/ TakesToken \/ ReadsAnswer
             \/ ReadsNews \/ Answers
  BY <1>1, QuietRefines
<1>2. CASE Ends \/ Disconnects \/ Clears
  BY <1>2, EndRefines DEF Abstract!Next
<1>3. CASE TakesEvent
  BY <1>3, EventRefines DEF Abstract!Next
<1>4. CASE ServerBind
  BY <1>4, BindRefines DEF Abstract!Next
<1>5. CASE Keep(LinkBreaks)
  BY <1>5, BreakRefines DEF Abstract!Next
<1>6. CASE \E id \in Ids : ServerAdd(id)
  BY <1>6, AddRefines DEF Abstract!Next
<1>7. CASE \E g \in server : ServerRemove(g)
  BY <1>7, RemoveRefines DEF Abstract!Next
<1> QED
  BY <1>1, <1>2, <1>3, <1>4, <1>5, <1>6, <1>7 DEF StepEffects

\* The registry implements Discovery, when its main context is not the default
\* one, no handler of notify::connected connects the core again after a
\* disconnect that the registry has not been told of, and no handler starts a
\* session above a suspended start or stop: announcements reach the list in the
\* order the server made them, once, within the session they were made to, and
\* the list is cleared before another session shows anything.
THEOREM RegistryImplementsDiscovery ==
  ASSUME ~DefaultContext, "reconnect" \notin Reentry, ~Interrupts
  PROVE  RSpec => ImplementsDiscovery
<1>1. Settings
  BY DEF Settings
<1>2. RInit => Abstract!Init
  <2> SUFFICES ASSUME RInit PROVE Abstract!Init
    OBVIOUS
  <2>1. server = {} /\ ~Established /\ View = {}
    BY DEF RInit, Established, View
  <2> QED
    BY <2>1 DEF Abstract!Init, Established
<1>3. StepInv /\ [RNext]_vars => [Abstract!Next]_(Abstract!vars)
  BY StepInvSound, StepEffect, StepRefines
<1>4. RSpec => []StepInv
  BY <1>1, StepInvariant
<1> QED
  BY <1>2, <1>3, <1>4, PTL DEF RSpec, ImplementsDiscovery, Abstract!Spec

-----------------------------------------------------------------------------
(* What DiscoveryProofs says of Discovery, said of this registry.          *)

\* Discovery once more, with the theorems about it.
Pure == INSTANCE DiscoveryProofs WITH
  Serials <- 1..MaxSerial,
  open <- Established,
  live <- Established /\ link,
  view <- View,
  pending <- IF Established THEN InTransit ELSE <<>>

\* Both instances are the same specification.
LEMMA SameDiscovery ==
  /\ Abstract!Init => Pure!Init
  /\ [Abstract!Next]_(Abstract!vars) => [Pure!Next]_(Pure!vars)
<1>1. Abstract!Init => Pure!Init
  BY DEF Abstract!Init, Pure!Init
<1>2. \A S : Abstract!Orders(S) = Pure!Orders(S)
  BY Zenon DEF Abstract!Orders, Pure!Orders, Abstract!Cardinality, Pure!Cardinality
<1>3. Abstract!Open => Pure!Open
  BY <1>2 DEF Abstract!Open, Pure!Open, Abstract!Adding, Pure!Adding
<1>4. Abstract!Global = Pure!Global
  BY DEF Abstract!Global, Pure!Global
<1>5. ASSUME NEW g \in Abstract!Global
      PROVE  /\ Abstract!Add(g) => Pure!Add(g)
             /\ Abstract!Remove(g) => Pure!Remove(g)
  BY Zenon DEF Abstract!Add, Pure!Add, Abstract!Remove, Pure!Remove, Abstract!Broadcast,
         Pure!Broadcast, Abstract!Adding, Pure!Adding, Abstract!Removing, Pure!Removing
<1>6. Abstract!Apply => Pure!Apply
  BY Zenon DEF Abstract!Apply, Pure!Apply, Abstract!Applied, Pure!Applied
<1>7. /\ Abstract!Break => Pure!Break
      /\ Abstract!Close => Pure!Close
      /\ Abstract!Clear => Pure!Clear
  BY Zenon DEF Abstract!Break, Pure!Break, Abstract!Close, Pure!Close,
         Abstract!Clear, Pure!Clear
<1>8. UNCHANGED Abstract!vars => UNCHANGED Pure!vars
  BY Zenon DEF Abstract!vars, Pure!vars
<1>9. Abstract!Linger => Pure!Linger
  <2>1. Abstract!Announcement = Pure!Announcement
    BY <1>4 DEF Abstract!Announcement, Pure!Announcement
  <2> QED
    BY <2>1, Zenon DEF Abstract!Linger, Pure!Linger, Abstract!Applied, Pure!Applied
<1> QED
  BY <1>1, <1>3, <1>4, <1>5, <1>6, <1>7, <1>8, <1>9 DEF Abstract!Next, Pure!Next

\* g is what view has for its id once all of p is applied to it: the last
\* announcement about the id adds it, or there is none and view has it.
DueIn(v, p, g) ==
  LET about == {i \in DOMAIN p : p[i].g.id = g.id}
  IN  \/ about = {} /\ g \in v
      \/ \E i \in about : (\A j \in about : j <= i) /\ p[i] = [kind |-> "add", g |-> g]

\* The list, once it has caught up, is the server's set of globals.
CatchesUp ==
  /\ View \subseteq Known
  /\ \A g, h \in server : g.id = h.id => g = h
  /\ Established /\ link => \A g \in Known : DueIn(View, InTransit, g) <=> g \in server

\* Its invariant, read in this registry's terms.
LEMMA CatchesUpHere ==
  Pure!TypeOK /\ Pure!OneToAnId /\ Pure!Faithful => CatchesUp
<1> SUFFICES ASSUME Pure!TypeOK, Pure!OneToAnId, Pure!Faithful
             PROVE  CatchesUp
  OBVIOUS
<1>1. Known = Pure!Global
  BY DEF Known, Pure!Global
<1>2. View \subseteq Known
  BY <1>1 DEF Pure!TypeOK
<1>3. ASSUME Established, link, NEW g \in Known
      PROVE  DueIn(View, InTransit, g) <=> g \in server
  <2> DEFINE p == IF Established THEN InTransit ELSE <<>>
  <2>1. p = InTransit
    BY <1>3
  <2>2. Pure!Due(g) <=> g \in server
    BY <1>1, <1>3 DEF Pure!Faithful
  <2>3. Pure!Due(g) <=> DueIn(View, p, g)
    BY Zenon DEF Pure!Due, Pure!Concerning, Pure!Adding, DueIn
  <2> HIDE DEF p
  <2> QED
    BY <2>1, <2>2, <2>3
<1> QED
  BY <1>2, <1>3 DEF CatchesUp, Pure!OneToAnId

\* In a session that the server can reach, what is on its way turns the list
\* into exactly the server's set of globals: nothing is missing for good,
\* nothing stale stays.
THEOREM RegistryCatchesUp ==
  ASSUME Settings
  PROVE  RSpec => []CatchesUp
<1>1. RSpec => Abstract!Spec
  BY RegistryImplementsDiscovery DEF ImplementsDiscovery, Settings
<1>2. Abstract!Spec => Pure!Spec
  BY SameDiscovery, PTL DEF Abstract!Spec, Pure!Spec
<1>3. Pure!Spec => [](Pure!TypeOK /\ Pure!OneToAnId /\ Pure!Faithful)
  BY Pure!DiscoveryInvariant
<1> QED
  BY <1>1, <1>2, <1>3, CatchesUpHere, PTL

-----------------------------------------------------------------------------
(* What a sync() has dispatched by the time it returns.                    *)

\* Applying the first announcement leaves the same to be shown; with none
\* left that is the view.
LEMMA DueNow ==
  ASSUME NEW v, NEW g
  PROVE  DueIn(v, <<>>, g) <=> g \in v
BY DEF DueIn

\* With one more in front, the rest is due after that one is applied.
LEMMA DueNext ==
  ASSUME NEW v, NEW g, NEW x \in Announced, NEW p \in Seq(Announced)
  PROVE  DueIn(v, <<x>> \o p, g) <=> DueIn(Applied(v, x), p, g)
<1> DEFINE q == <<x>> \o p
           A == {i \in DOMAIN q : q[i].g.id = g.id}
           B == {i \in DOMAIN p : p[i].g.id = g.id}
           a == [kind |-> "add", g |-> g]
<1>1. /\ q[1] = x /\ 1 \in DOMAIN q
      /\ \A i \in DOMAIN p : i \in Nat /\ i >= 1 /\ i + 1 \in DOMAIN q /\ q[i + 1] = p[i]
      /\ \A i \in DOMAIN q : i \in Nat /\ (i = 1 \/ (i > 1 /\ i - 1 \in DOMAIN p /\ q[i] = p[i - 1]))
  OBVIOUS
<1>2. /\ DueIn(v, q, g) <=> (A = {} /\ g \in v) \/ \E i \in A : (\A j \in A : j <= i) /\ q[i] = a
      /\ DueIn(Applied(v, x), p, g) <=>
           \/ B = {} /\ g \in Applied(v, x)
           \/ \E i \in B : (\A j \in B : j <= i) /\ p[i] = a
  BY DEF DueIn
<1>3. x = a <=> x.kind = "add" /\ x.g = g
  BY DEF Announced
<1> SUFFICES DueIn(v, q, g) <=> DueIn(Applied(v, x), p, g)
  OBVIOUS
<1> HIDE DEF q
<1>4. /\ 1 \in A <=> x.g.id = g.id
      /\ \A i \in B : i \in Nat /\ i >= 1 /\ i + 1 \in A /\ q[i + 1] = p[i]
      /\ \A i \in A : i \in Nat /\ (i = 1 \/ (i > 1 /\ i - 1 \in B /\ q[i] = p[i - 1]))
  BY <1>1
<1>5. q[1] = x
  BY <1>1
<1> HIDE DEF A, B, a
<1>6. CASE B = {}
  <2>1. A \subseteq {1}
    BY <1>4, <1>6
  <2>2. g \in Applied(v, x) <=> (g \in v /\ g.id # x.g.id) \/ x = a
    BY <1>3 DEF Applied
  <2>3. CASE x.g.id = g.id
    <3>1. A = {1}
      BY <1>4, <2>1, <2>3
    <3> QED
      BY <1>2, <1>5, <1>6, <2>2, <2>3, <3>1
  <2>4. CASE x.g.id # g.id
    <3>1. A = {} /\ x # a
      BY <1>3, <1>4, <2>1, <2>4
    <3> QED
      BY <1>2, <1>6, <2>2, <2>4, <3>1
  <2> QED
    BY <2>3, <2>4
<1>7. CASE B # {}
  <2>1. A # {}
    BY <1>4, <1>7
  <2>2. ASSUME NEW i \in A, \A j \in A : j <= i, q[i] = a
        PROVE  \E k \in B : (\A j \in B : j <= k) /\ p[k] = a
    <3>1. i # 1
      <4>1. PICK b \in B : TRUE
        BY <1>7
      <4>2. b + 1 \in A /\ b \in Nat /\ b >= 1
        BY <1>4
      <4> QED
        BY <2>2, <4>2
    <3>2. i \in Nat /\ i > 1 /\ i - 1 \in B /\ q[i] = p[i - 1]
      BY <1>4, <3>1
    <3>3. \A j \in B : j <= i - 1
      <4> SUFFICES ASSUME NEW j \in B PROVE j <= i - 1
        OBVIOUS
      <4>1. j \in Nat /\ j + 1 <= i
        BY <1>4, <2>2
      <4> QED
        BY <3>2, <4>1
    <3> QED
      BY <2>2, <3>2, <3>3
  <2>3. ASSUME NEW k \in B, \A j \in B : j <= k, p[k] = a
        PROVE  \E i \in A : (\A j \in A : j <= i) /\ q[i] = a
    <3>1. k \in Nat /\ k >= 1 /\ k + 1 \in A /\ q[k + 1] = a
      BY <1>4, <2>3
    <3>2. \A j \in A : j <= k + 1
      <4> SUFFICES ASSUME NEW j \in A PROVE j <= k + 1
        OBVIOUS
      <4>1. j \in Nat /\ (j = 1 \/ (j > 1 /\ j - 1 \in B))
        BY <1>4
      <4>2. j - 1 \in B => j - 1 <= k
        BY <2>3
      <4> QED
        BY <3>1, <4>1, <4>2
    <3> QED
      BY <3>1, <3>2
  <2> QED
    BY <1>2, <1>7, <2>1, <2>2, <2>3
<1> QED
  BY <1>6, <1>7

\* Once p is applied to the view v, it shows what a roundtrip promises: p is
\* the first part of what is on its way; it leaves v with every global of
\* the mark that still exists, and with no older one that the mark has not,
\* and nothing behind it changes that.
CaughtBy(c, v, srv, all, p) ==
  \E q \in Seq(Announced) :
    /\ all = p \o q
    /\ \A g \in c.mark.have \cap srv :
         DueIn(v, p, g) /\ \A j \in DOMAIN q : q[j].g.id # g.id
    /\ \A g \in Known : g.serial <= c.mark.upto /\ DueIn(v, p, g) => g \in c.mark.have
    /\ \A j \in DOMAIN q : q[j].kind = "add" => q[j].g.serial > c.mark.upto

\* What the view shows of the promise now.
ShownBy(c, v, srv) ==
  /\ c.mark.have \cap srv \subseteq v
  /\ \A g \in v : g.serial <= c.mark.upto => g \in c.mark.have

\* All that is on its way is about the server's set as it is now.
LEMMA CaughtWhole ==
  ASSUME NEW c, NEW v, NEW srv \in SUBSET Known, NEW all \in Seq(Announced),
         \A g \in Known : DueIn(v, all, g) <=> g \in srv,
         \A g \in srv : g.serial <= c.mark.upto => g \in c.mark.have
  PROVE  CaughtBy(c, v, srv, all, all)
<1>1. all = all \o <<>> /\ <<>> \in Seq(Announced) /\ DOMAIN <<>> = {}
  OBVIOUS
<1>2. \A g \in c.mark.have \cap srv : DueIn(v, all, g)
  OBVIOUS
<1>3. \A g \in Known : g.serial <= c.mark.upto /\ DueIn(v, all, g) => g \in c.mark.have
  OBVIOUS
<1> QED
  BY <1>1, <1>2, <1>3 DEF CaughtBy

\* Globals of the mark disappear.
LEMMA CaughtFewer ==
  ASSUME NEW c, NEW v, NEW srv, NEW all, NEW p, CaughtBy(c, v, srv, all, p),
         NEW new, c.mark.have \cap new \subseteq srv
  PROVE  CaughtBy(c, v, new, all, p)
BY DEF CaughtBy

\* One more announcement: none about a global of the mark, and none that adds
\* one as old as the mark.
LEMMA CaughtLonger ==
  ASSUME NEW c, NEW v, NEW srv, NEW all, NEW p \in Seq(Announced),
         CaughtBy(c, v, srv, all, p), NEW a \in Announced,
         \A g \in c.mark.have \cap srv : a.g.id # g.id,
         a.kind = "add" => a.g.serial > c.mark.upto
  PROVE  CaughtBy(c, v, srv, Append(all, a), p)
<1>1. PICK q \in Seq(Announced) :
        /\ all = p \o q
        /\ \A g \in c.mark.have \cap srv :
             DueIn(v, p, g) /\ \A j \in DOMAIN q : q[j].g.id # g.id
        /\ \A g \in Known : g.serial <= c.mark.upto /\ DueIn(v, p, g) => g \in c.mark.have
        /\ \A j \in DOMAIN q : q[j].kind = "add" => q[j].g.serial > c.mark.upto
  BY DEF CaughtBy
<1> DEFINE r == Append(q, a)
<1>2. r \in Seq(Announced) /\ \A j \in DOMAIN r : r[j] = a \/ (j \in DOMAIN q /\ r[j] = q[j])
  OBVIOUS
<1>3. Append(all, a) = p \o r
  BY <1>1, CatAppend
<1> HIDE DEF r
<1>4. \A g \in c.mark.have \cap srv : \A j \in DOMAIN r : r[j].g.id # g.id
  BY <1>1, <1>2
<1>5. \A j \in DOMAIN r : r[j].kind = "add" => r[j].g.serial > c.mark.upto
  BY <1>1, <1>2
<1> QED
  BY <1>1, <1>2, <1>3, <1>4, <1>5 DEF CaughtBy

\* The same behind the same.
LEMMA CatSame ==
  \A a, b \in Seq(Announced) : \A x \in Announced : <<x>> \o a = <<x>> \o b => a = b
<1> SUFFICES ASSUME NEW a \in Seq(Announced), NEW b \in Seq(Announced), NEW x \in Announced,
                    NEW y, y = <<x>> \o a, y = <<x>> \o b
             PROVE  a = b
  OBVIOUS
<1>1. Tail(y) = a
  BY CatFirst
<1>2. Tail(y) = b
  BY CatFirst
<1> QED
  BY <1>1, <1>2

\* The first announcement of p is applied.
LEMMA CaughtNext ==
  ASSUME NEW c, NEW v, NEW srv, NEW x \in Announced, NEW rest \in Seq(Announced),
         NEW p \in Seq(Announced), CaughtBy(c, v, srv, <<x>> \o rest, <<x>> \o p)
  PROVE  CaughtBy(c, Applied(v, x), srv, rest, p)
<1>1. PICK q \in Seq(Announced) :
        /\ <<x>> \o rest = (<<x>> \o p) \o q
        /\ \A g \in c.mark.have \cap srv :
             DueIn(v, <<x>> \o p, g) /\ \A j \in DOMAIN q : q[j].g.id # g.id
        /\ \A g \in Known :
             g.serial <= c.mark.upto /\ DueIn(v, <<x>> \o p, g) => g \in c.mark.have
        /\ \A j \in DOMAIN q : q[j].kind = "add" => q[j].g.serial > c.mark.upto
  BY DEF CaughtBy
<1>2. rest = p \o q
  <2>1. <<x>> \o rest = <<x>> \o (p \o q) /\ p \o q \in Seq(Announced)
    <3>1. (<<x>> \o p) \o q = <<x>> \o (p \o q)
      BY CatFirst, Zenon
    <3>2. p \o q \in Seq(Announced)
      OBVIOUS
    <3> QED
      BY <1>1, <3>1, <3>2, Zenon
  <2> DEFINE r == p \o q
  <2>2. r \in Seq(Announced) /\ <<x>> \o rest = <<x>> \o r
    BY <2>1
  <2> HIDE DEF r
  <2>3. rest = r
    BY <2>2, CatSame
  <2> QED
    BY <2>3 DEF r
<1>3. \A g : DueIn(v, <<x>> \o p, g) <=> DueIn(Applied(v, x), p, g)
  BY DueNext
<1> QED
  BY <1>1, <1>2, <1>3 DEF CaughtBy

\* An announcement is applied after all that matters has been.
LEMMA CaughtLater ==
  ASSUME NEW c, NEW v, NEW srv, NEW x \in Announced, NEW rest \in Seq(Announced),
         CaughtBy(c, v, srv, <<x>> \o rest, <<>>), c.mark.upto \in Nat,
         x.g.serial \in Nat
  PROVE  CaughtBy(c, Applied(v, x), srv, rest, <<>>)
<1>1. PICK q \in Seq(Announced) :
        /\ <<x>> \o rest = <<>> \o q
        /\ \A g \in c.mark.have \cap srv :
             DueIn(v, <<>>, g) /\ \A j \in DOMAIN q : q[j].g.id # g.id
        /\ \A g \in Known : g.serial <= c.mark.upto /\ DueIn(v, <<>>, g) => g \in c.mark.have
        /\ \A j \in DOMAIN q : q[j].kind = "add" => q[j].g.serial > c.mark.upto
  BY DEF CaughtBy
<1>2. <<x>> \o rest = q /\ rest = <<>> \o rest
  BY <1>1
<1>3. /\ 1 \in DOMAIN q /\ q[1] = x
      /\ \A j \in DOMAIN rest : j + 1 \in DOMAIN q /\ rest[j] = q[j + 1]
  BY <1>2
<1>4. \A h : DueIn(v, <<>>, h) <=> h \in v
  BY DueNow
<1>5. \A h : DueIn(Applied(v, x), <<>>, h) <=> h \in Applied(v, x)
  BY DueNow
<1>6. \A g \in c.mark.have \cap srv :
        DueIn(Applied(v, x), <<>>, g) /\ \A j \in DOMAIN rest : rest[j].g.id # g.id
  BY <1>1, <1>3, <1>4, <1>5 DEF Applied
<1>7. \A g \in Known : g.serial <= c.mark.upto /\ DueIn(Applied(v, x), <<>>, g) => g \in c.mark.have
  BY <1>1, <1>3, <1>4, <1>5 DEF Applied
<1>8. \A j \in DOMAIN rest : rest[j].kind = "add" => rest[j].g.serial > c.mark.upto
  BY <1>1, <1>3
<1> QED
  BY <1>2, <1>6, <1>7, <1>8 DEF CaughtBy

\* Nothing left to apply: the promise shows.
LEMMA CaughtShows ==
  ASSUME NEW c, NEW v \in SUBSET Known, NEW srv, NEW all, CaughtBy(c, v, srv, all, <<>>)
  PROVE  ShownBy(c, v, srv)
<1>1. \A h : DueIn(v, <<>>, h) <=> h \in v
  BY DueNow
<1> QED
  BY <1>1 DEF CaughtBy, ShownBy

\* What the first m entries of a queue tell, the first n tell first.
LEMMA ToldLeads ==
  ASSUME RTypeOK, NEW m \in 0..Len(mainq)
  PROVE  \E r \in Seq(Announced) :
           Told(mainq, Current)[Len(mainq)] = Told(mainq, Current)[m] \o r
<1> DEFINE t == Told(mainq, Current)
           n == Len(mainq)
           S == {k \in 0..n : m <= k => \E r \in Seq(Announced) : t[k] = t[m] \o r}
<1> HIDE DEF t
<1>0. n \in Nat /\ m \in 0..n
  BY LineType
<1>1. \A k \in 1..n :
        /\ k \in Current => t[k] = Append(t[k - 1], Word(mainq[k])) /\ Word(mainq[k]) \in Announced
        /\ k \notin Current => t[k] = t[k - 1]
  BY <1>0, LineType, ToldDef DEF t
<1>2. \A k \in 0..n : t[k] \in Seq(Announced)
  BY LineToldType DEF t
<1> HIDE DEF n
<1>3. t[m] = t[m] \o <<>> /\ <<>> \in Seq(Announced)
  <2>1. t[m] \in Seq(Announced)
    BY <1>0, <1>2
  <2> QED
    BY <2>1
<1>4. 0 \in S
  <2>1. 0 \in 0..n /\ (m <= 0 => m = 0)
    BY <1>0
  <2> QED
    BY <1>3, <2>1
<1>5. ASSUME NEW i \in 1..n, i - 1 \in S
      PROVE  i \in S
  <2>1. i \in 0..n /\ (m <= i => m = i \/ m <= i - 1)
    BY <1>0
  <2>2. ASSUME m <= i - 1
        PROVE  \E r \in Seq(Announced) : t[i] = t[m] \o r
    <3>1. PICK r \in Seq(Announced) : t[i - 1] = t[m] \o r
      BY <1>5, <2>2
    <3>2. CASE i \in Current
      <4> DEFINE x == Word(mainq[i])
                 a == t[m]
      <4>1. t[i] = Append(t[i - 1], x) /\ x \in Announced
        BY <1>1, <3>2
      <4>2. a \in Seq(Announced)
        BY <1>0, <1>2
      <4> HIDE DEF x, a
      <4>3. Append(a \o r, x) = a \o Append(r, x)
        BY <4>1, <4>2, CatAppend
      <4>4. Append(r, x) \in Seq(Announced)
        BY <4>1
      <4> QED
        BY <3>1, <4>1, <4>3, <4>4 DEF a
    <3>3. CASE i \notin Current
      BY <1>1, <3>1, <3>3
    <3> QED
      BY <3>2, <3>3
  <2>3. m <= i => \E r \in Seq(Announced) : t[i] = t[m] \o r
    BY <1>3, <2>1, <2>2
  <2> QED
    BY <2>1, <2>3
<1> HIDE DEF S
<1>6. n \in S
  <2>1. n \in 0..n
    BY <1>0
  <2> QED
    BY <1>0, <1>4, <1>5, <2>1, CountedUp
<1> QED
  BY <1>0, <1>6 DEF S, t, n

\* The wire is cut: what the queue still tells keeps the promise.
LEMMA CaughtCut ==
  ASSUME NEW c, NEW v, NEW srv, NEW p \in Seq(Announced), NEW r \in Seq(Announced),
         NEW w \in Seq(Announced), CaughtBy(c, v, srv, (p \o r) \o w, p)
  PROVE  CaughtBy(c, v, srv, p \o r, p)
<1>1. PICK q \in Seq(Announced) :
        /\ (p \o r) \o w = p \o q
        /\ \A g \in c.mark.have \cap srv :
             DueIn(v, p, g) /\ \A j \in DOMAIN q : q[j].g.id # g.id
        /\ \A g \in Known : g.serial <= c.mark.upto /\ DueIn(v, p, g) => g \in c.mark.have
        /\ \A j \in DOMAIN q : q[j].kind = "add" => q[j].g.serial > c.mark.upto
  BY DEF CaughtBy
<1>2. \A j \in DOMAIN r : j \in DOMAIN q /\ r[j] = q[j]
  <2>1. Len(r) <= Len(q)
    <3>1. Len((p \o r) \o w) = Len(p) + Len(r) + Len(w) /\ Len(p \o q) = Len(p) + Len(q)
      OBVIOUS
    <3> QED
      BY <1>1, <3>1
  <2> SUFFICES ASSUME NEW j \in 1..Len(r) PROVE j \in DOMAIN q /\ r[j] = q[j]
    OBVIOUS
  <2>2. j \in 1..Len(q)
    BY <2>1
  <2>3. (p \o q)[Len(p) + j] = q[j]
    BY <2>2
  <2>4. ((p \o r) \o w)[Len(p) + j] = r[j]
    <3>1. (p \o r)[Len(p) + j] = r[j] /\ Len(p) + j \in 1..Len(p \o r)
      OBVIOUS
    <3> DEFINE u == p \o r
    <3>2. u \in Seq(Announced)
      OBVIOUS
    <3> HIDE DEF u
    <3>3. \A k \in 1..Len(u) : (u \o w)[k] = u[k]
      BY <3>2
    <3> QED
      BY <3>1, <3>3 DEF u
  <2> QED
    BY <1>1, <2>2, <2>3, <2>4
<1>3. \A g \in c.mark.have \cap srv : DueIn(v, p, g) /\ \A j \in DOMAIN r : r[j].g.id # g.id
  BY <1>1, <1>2
<1>4. \A j \in DOMAIN r : r[j].kind = "add" => r[j].g.serial > c.mark.upto
  BY <1>1, <1>2
<1> QED
  BY <1>1, <1>3, <1>4 DEF CaughtBy

-----------------------------------------------------------------------------
(* Roundtrips, their marks and their answers.                              *)

\* A roundtrip's request is later than the proxy of the session it was made
\* in, and its mark has the globals of then, that is: of those that still
\* exist, all up to its serial.
Marked(c) ==
  /\ c.n \in 1..lastReq
  /\ c.mark \in Marks
  /\ c.mark.session < c.n
  /\ c.mark.upto <= serial
  /\ \A g \in c.mark.have : g.serial <= c.mark.upto
  /\ \A g \in server : g.serial <= c.mark.upto => g \in c.mark.have

\* Every roundtrip on the stack is such.
CallsMarked == \A c \in Calls(stack) : c = NoCall \/ Marked(c)

\* Only requests made are answered.
Answered ==
  /\ \A i \in DOMAIN wire : wire[i].kind = "done" => wire[i].n \in 1..lastReq
  /\ \A i \in DOMAIN mainq : mainq[i].kind = "token" => mainq[i].n \in 1..lastReq

\* A session that the server does not know of is still to be asked for.
BindIsComing ==
  running /\ connected /\ link /\ registry \notin subs =>
    \E i \in DOMAIN toServer : toServer[i].kind = "bind" /\ toServer[i].n = registry

\* A call made in the session that runs.
Ours(c) == running /\ c # NoCall /\ c.mark.session = registry

\* The server knows of the session, or did until its connection was lost.
Reached == running /\ (registry \in subs \/ ~connected)

\* What is on its way brings the call what it promises.
Caught(c, p) == Reached /\ CaughtBy(c, View, server, InTransit, p)

\* The answer on the wire comes after it; so does the token in the queue;
\* and once the token is dispatched it shows.
StageWire(c) ==
  connected => \A k \in DOMAIN wire : wire[k].kind = "done" /\ wire[k].n = c.n =>
    Caught(c, Told(mainq, Current)[Len(mainq)] \o Told(wire, Mine)[k - 1])
StageQueue(c) ==
  \A k \in DOMAIN mainq : mainq[k].kind = "token" /\ mainq[k].n = c.n =>
    Caught(c, Told(mainq, Current)[k - 1])
StageShown(c) ==
  c.mdone => ShownBy(c, View, server) /\ Caught(c, <<>>)

\* All three, of one call and of every call of the session.
Stages(c) == StageWire(c) /\ StageQueue(c) /\ StageShown(c)

Staged == \A c \in Calls(stack) : Ours(c) => Stages(c)

\* The inductive invariant behind SyncedView.
SyncInv == CallsMarked /\ Answered /\ BindIsComing /\ Staged

\* What the steps are taken under.
SyncStep == StepInv /\ StepEffects /\ SyncInv /\ CatchesUp

\* The types they need.
LEMMA SyncTypes ==
  ASSUME StepInv
  PROVE  /\ RTypeOK /\ lastReq \in Nat /\ serial \in Nat /\ registry \in Nat
         /\ server \subseteq Global /\ server \subseteq Known
         /\ wire \in Seq(RegistryMessages) /\ mainq \in Seq(RegistrySources)
         /\ toServer \in Seq(RegistryRequests)
         /\ MaxSerial \in Nat
<1>1. /\ RTypeOK /\ lastReq \in Nat /\ serial \in Nat /\ registry \in Nat
      /\ server \subseteq Global
      /\ wire \in Seq(RegistryMessages) /\ mainq \in Seq(RegistrySources)
      /\ toServer \in Seq(RegistryRequests)
      /\ MaxSerial \in Nat
  BY RegistryAssumption DEF StepInv, RTypeOK, CoreTypeOK
<1>2. server \subseteq Known
  <2>1. \A g \in server : g.serial \in 1..serial
    BY DEF StepInv, LineInv, Serials
  <2>2. serial <= MaxSerial
    BY DEF StepInv, LineInv, Serials
  <2>3. \A g \in server : g.serial \in 1..MaxSerial
    BY <1>1, <2>1, <2>2
  <2> QED
    BY <1>1, <2>3 DEF Known, Global
<1> QED
  BY <1>1, <1>2

\* The calls after a step.
LEMMA CallsStep ==
  ASSUME StepEffects, NEW c \in Calls(stack')
  PROVE  \/ c \in Calls(stack)
         \/ c = NoCall
         \/ Sends /\ c = NewCall
         \/ TakesToken /\ \E d \in Calls(stack) : d.n = Head(mainq).n /\ c = Drained(d)
<1>1. CASE Rests \/ Opens \/ Begins \/ Fails \/ Ends \/ Clears \/ Disconnects
             \/ TakesEvent \/ ReadsAnswer \/ ReadsNews
  BY <1>1 DEF Rests, Opens, Begins, Fails, Ends, Clears, Disconnects, TakesEvent,
              ReadsAnswer, ReadsNews, Adds
<1>2. CASE Sends
  BY <1>2 DEF Sends, Adds
<1>3. CASE TakesToken
  BY <1>3 DEF TakesToken, Adds
<1>4. CASE Answers \/ ServerBind \/ Keep(LinkBreaks)
             \/ (\E id \in Ids : ServerAdd(id)) \/ (\E g \in server : ServerRemove(g))
  <2>1. stack' = stack
    BY <1>4 DEF Answers, ServerBind, Keep, LinkBreaks, ServerAdd, ServerRemove
  <2> QED
    BY <2>1
<1> QED
  BY <1>1, <1>2, <1>3, <1>4 DEF StepEffects

\* The counters only grow, and a new global is later than the last.
LEMMA CountersStep ==
  ASSUME StepInv, StepEffects
  PROVE  /\ lastReq' \in Nat /\ lastReq <= lastReq'
         /\ serial' \in Nat /\ serial <= serial'
         /\ \A g \in server' : g \in server \/ g.serial = serial + 1
<1>0. lastReq \in Nat /\ serial \in Nat
  BY SyncTypes
<1>1. CASE UNCHANGED <<server, serial>>
  <2>1. lastReq' = lastReq \/ lastReq' = lastReq + 1
    BY DEF StepEffects, Rests, Sends, Opens, Begins, Fails, Ends, Clears, Disconnects,
           TakesToken, TakesEvent, ReadsAnswer, ReadsNews, Answers, ServerBind, Keep,
           LinkBreaks, ServerAdd, ServerRemove
  <2> QED
    BY <1>0, <1>1, <2>1
<1>2. CASE (\E id \in Ids : ServerAdd(id)) \/ (\E g \in server : ServerRemove(g))
  <2>1. /\ lastReq' = lastReq
        /\ \/ serial' = serial /\ server' \subseteq server
           \/ serial' = serial + 1
                /\ \E id \in Ids : server' = server \cup {[id |-> id, serial |-> serial + 1]}
    BY <1>2 DEF ServerAdd, ServerRemove
  <2> QED
    BY <1>0, <2>1
<1> QED
  BY <1>1, <1>2 DEF StepEffects, Rests, Sends, Opens, Begins, Fails, Ends, Clears,
     Disconnects, TakesToken, TakesEvent, ReadsAnswer, ReadsNews, Answers, ServerBind,
     Keep, LinkBreaks, serverVars

\* Marks stay what they were.
LEMMA MarkedStep ==
  ASSUME StepInv, StepEffects, NEW c, Marked(c)
  PROVE  Marked(c)'
<1>1. c.mark.upto \in Nat
  BY DEF Marked, Marks
<1>2. lastReq \in Nat /\ serial \in Nat
  BY SyncTypes
<1>3. \A g \in server' : g \in server \/ ~(g.serial <= c.mark.upto)
  <2> SUFFICES ASSUME NEW g \in server', g \notin server, g.serial <= c.mark.upto
               PROVE  FALSE
    OBVIOUS
  <2>1. g.serial = serial + 1 /\ c.mark.upto <= serial
    BY CountersStep DEF Marked
  <2> QED
    BY <1>1, <1>2, <2>1
<1> QED
  BY <1>1, <1>2, <1>3, CountersStep DEF Marked

\* Marks stay true: serials only grow, and a global gone is gone for good.
LEMMA CallsMarkedStep ==
  ASSUME SyncStep
  PROVE  CallsMarked'
<1> USE DEF SyncStep, SyncInv
<1>1. ASSUME Sends, NEW c, c = NewCall
      PROVE  Marked(c)'
  <2>1. /\ lastReq' = lastReq + 1 /\ serial' = serial /\ server' = server
        /\ lastReq \in Nat /\ serial \in Nat /\ registry \in Nat /\ server \subseteq Global
    BY <1>1, SyncTypes DEF Sends, serverVars
  <2>2. registry <= lastReq /\ \A g \in server : g.serial <= serial
    <3>1. registry <= lastReq /\ \A g \in server : g.serial \in 1..serial
      BY DEF StepInv, LineInv, Numbered, Serials
    <3> QED
      BY <2>1, <3>1
  <2>3. /\ c.n = lastReq + 1
        /\ c.mark.session = registry /\ c.mark.have = server /\ c.mark.upto = serial
        /\ c.mark \in Marks
    BY <1>1, <2>1 DEF NewCall, Mark, Marks
  <2>4. c.n \in 1..lastReq' /\ c.mark.session < c.n
    BY <2>1, <2>2, <2>3
  <2>5. c.mark.upto <= serial' /\ \A g \in c.mark.have : g.serial <= c.mark.upto
    BY <2>1, <2>2, <2>3
  <2>6. \A g \in server' : g \in c.mark.have
    BY <2>1, <2>3
  <2> QED
    BY <2>3, <2>4, <2>5, <2>6 DEF Marked
<1>2. ASSUME TakesToken, NEW d \in Calls(stack), d.n = Head(mainq).n
      PROVE  Marked(Drained(d))'
  <2>1. d.n \in 1..lastReq
    <3>1. mainq # <<>> /\ Head(mainq).kind = "token" /\ Head(mainq) = mainq[1] /\ 1 \in DOMAIN mainq
      BY <1>2, SyncTypes, Shorter DEF TakesToken
    <3> QED
      BY <1>2, <3>1 DEF Answered
  <2>2. d # NoCall
    BY <2>1, SyncTypes DEF NoCall
  <2>3. Marked(d)
    BY <2>2 DEF CallsMarked
  <2>4. Marked(d)'
    BY <2>3, MarkedStep
  <2>5. Drained(d).n = d.n /\ Drained(d).mark = d.mark
    BY DEF Drained
  <2> QED
    BY <2>4, <2>5 DEF Marked
<1>3. ASSUME NEW c \in Calls(stack')
      PROVE  c = NoCall \/ Marked(c)'
  <2>1. CASE c \in Calls(stack)
    BY <2>1, MarkedStep DEF CallsMarked
  <2>2. CASE c = NoCall
    BY <2>2
  <2>3. CASE Sends /\ c = NewCall
    BY <1>1, <2>3
  <2>4. CASE TakesToken /\ \E d \in Calls(stack) : d.n = Head(mainq).n /\ c = Drained(d)
    BY <1>2, <2>4
  <2> QED
    BY <2>1, <2>2, <2>3, <2>4, CallsStep
<1> QED
  BY <1>3 DEF CallsMarked

\* An answer is to a request that was made.
LEMMA AnsweredStep ==
  ASSUME SyncStep
  PROVE  Answered'
<1> USE DEF SyncStep, SyncInv
<1>0. /\ wire \in Seq(RegistryMessages) /\ mainq \in Seq(RegistrySources)
      /\ toServer \in Seq(RegistryRequests) /\ lastReq \in Nat /\ lastReq' \in Nat
      /\ lastReq <= lastReq'
  BY SyncTypes, CountersStep
<1>1. \A n \in 1..lastReq : n \in 1..lastReq'
  BY <1>0
<1>2. ASSUME \A i \in DOMAIN wire' :
               \/ wire'[i].kind # "done"
               \/ \E j \in DOMAIN wire : wire'[i] = wire[j]
               \/ wire'[i].n \in 1..lastReq,
             \A i \in DOMAIN mainq' :
               \/ mainq'[i].kind # "token"
               \/ \E j \in DOMAIN mainq : mainq'[i] = mainq[j]
               \/ mainq'[i].n \in 1..lastReq
      PROVE  Answered'
  BY <1>1, <1>2 DEF Answered
<1>3. CASE UNCHANGED <<wire, mainq>>
  BY <1>2, <1>3
<1>4. CASE Opens \/ Disconnects
  BY <1>2, <1>4 DEF Opens, Disconnects
<1>5. CASE TakesToken \/ TakesEvent
  <2>1. mainq # <<>> /\ mainq' = Tail(mainq) /\ wire' = wire
    BY <1>5 DEF TakesToken, TakesEvent
  <2>2. \A i \in DOMAIN mainq' : i + 1 \in DOMAIN mainq /\ mainq'[i] = mainq[i + 1]
    BY <1>0, <2>1, Shorter
  <2> QED
    BY <1>2, <2>1, <2>2
<1>6. CASE ReadsAnswer \/ ReadsNews
  <2>1. wire # <<>> /\ wire' = Tail(wire)
    BY <1>6 DEF ReadsAnswer, ReadsNews
  <2>2. /\ \A i \in DOMAIN wire' : i + 1 \in DOMAIN wire /\ wire'[i] = wire[i + 1]
        /\ Head(wire) = wire[1] /\ 1 \in DOMAIN wire
    BY <1>0, <2>1, Shorter
  <2>3. PICK e :
          /\ mainq' = mainq \/ mainq' = Append(mainq, e)
          /\ e.kind = "token" => e.n \in 1..lastReq
    <3>1. CASE ReadsAnswer
      <4>1. mainq' = mainq \/ (Head(wire).kind = "done" /\ mainq' = Append(mainq, Token(Head(wire).n)))
        BY <3>1 DEF ReadsAnswer
      <4>2. Head(wire).kind = "done" => Head(wire).n \in 1..lastReq
        BY <2>2 DEF Answered
      <4>3. Token(Head(wire).n).n = Head(wire).n
        BY DEF Token
      <4>4. [kind |-> "none"].kind # "token"
        OBVIOUS
      <4>5. CASE mainq' = mainq
        BY <4>4, <4>5
      <4>6. CASE Head(wire).kind = "done" /\ mainq' = Append(mainq, Token(Head(wire).n))
        BY <4>2, <4>3, <4>6
      <4> QED
        BY <4>1, <4>5, <4>6
    <3>2. CASE ReadsNews
      <4> DEFINE m == Head(wire)
                 e == [kind |-> m.kind, gen |-> generation, from |-> m.to, g |-> m.g]
      <4>1. mainq' = mainq \/ mainq' = Append(mainq, e)
        BY <3>2 DEF ReadsNews
      <4>2. e.kind # "token"
        BY <3>2 DEF ReadsNews, Announces
      <4> QED
        BY <4>1, <4>2
    <3> QED
      BY <1>6, <3>1, <3>2
  <2>4. \A i \in DOMAIN mainq' : (i \in DOMAIN mainq /\ mainq'[i] = mainq[i]) \/ mainq'[i] = e
    BY <1>0, <2>3, Longer
  <2> QED
    BY <1>2, <2>2, <2>3, <2>4
<1>7. ASSUME mainq' = mainq, NEW m, m.kind = "done" => m.n \in 1..lastReq,
             wire' = Append(wire, m)
      PROVE  Answered'
  <2>1. \A i \in DOMAIN wire' : (i \in DOMAIN wire /\ wire'[i] = wire[i]) \/ wire'[i] = m
    BY <1>0, <1>7, Longer
  <2> QED
    BY <1>2, <1>7, <2>1
<1>8. CASE Answers
  <2>1. mainq' = mainq /\ toServer # <<>>
    BY <1>8 DEF Answers
  <2>2. CASE wire' = wire
    BY <1>3, <2>1, <2>2
  <2>3. ASSUME NEW kind, wire' = Append(wire, [kind |-> kind, n |-> Head(toServer).n])
        PROVE  Answered'
    <3> DEFINE m == [kind |-> kind, n |-> Head(toServer).n]
    <3>1. Head(toServer) = toServer[1] /\ 1 \in DOMAIN toServer
      BY <1>0, <2>1, Shorter
    <3>2. m.n \in 1..lastReq
      BY <3>1 DEF StepInv, LineInv, RequestsInOrder
    <3> QED
      BY <1>7, <2>1, <2>3, <3>2
  <2> QED
    BY <1>8, <2>2, <2>3 DEF Answers
<1>9. CASE Keep(LinkBreaks)
  <2> DEFINE m == [kind |-> "error", n |-> 0]
  <2>1. mainq' = mainq /\ wire' = Append(wire, m) /\ m.kind # "done"
    BY <1>9 DEF Keep, LinkBreaks
  <2> QED
    BY <1>7, <2>1
<1>10. CASE ServerBind
  <2>1. mainq' = mainq
    BY <1>10 DEF ServerBind
  <2>2. CASE Head(toServer).n \in bound
    <3>1. PICK s \in Orders(server) :
            /\ Len(s) \in Nat /\ DOMAIN s = 1..Len(s)
            /\ Len(wire') = Len(wire) + Len(s)
            /\ \A i \in 1..Len(wire) : wire'[i] = wire[i]
            /\ \A i \in 1..Len(s) :
                 wire'[Len(wire) + i] = Announce("add", s[i], Head(toServer).n)
      BY <1>10, <2>2, SyncTypes, BindTells
    <3>2. wire' \in Seq(RegistryMessages)
      BY <1>10, ServerBindType DEF StepInv, RTypeOK, CoreTypeOK
    <3>3. \A i \in DOMAIN wire' :
            \/ i \in 1..Len(wire) /\ i \in DOMAIN wire
            \/ i - Len(wire) \in 1..Len(s) /\ Len(wire) + (i - Len(wire)) = i
      BY <1>0, <3>1, <3>2
    <3>4. \A i \in DOMAIN wire' :
            wire'[i].kind = "add" \/ \E j \in DOMAIN wire : wire'[i] = wire[j]
      <4>1. \A x : Announce("add", x, Head(toServer).n).kind = "add"
        BY DEF Announce
      <4>2. \A i \in 1..Len(s) : wire'[Len(wire) + i].kind = "add"
        BY <3>1, <4>1
      <4> QED
        BY <3>1, <3>3, <4>2
    <3> QED
      BY <1>2, <2>1, <3>4
  <2>3. CASE Head(toServer).n \notin bound
    BY <1>3, <1>10, <2>1, <2>3 DEF ServerBind
  <2> QED
    BY <2>2, <2>3
<1>11. ASSUME NEW kind \in {"add", "remove"}, NEW g \in Global, Broadcast(kind, g), mainq' = mainq
       PROVE  Answered'
  <2>1. wire' = wire \/ wire' = Append(wire, Announce(kind, g, registry))
    BY <1>11, BroadcastTells, SyncTypes DEF StepInv, LineInv, ProxiesTold
  <2>2. Announce(kind, g, registry).kind # "done"
    BY DEF Announce
  <2> QED
    BY <1>3, <1>7, <1>11, <2>1, <2>2
<1>12. CASE (\E id \in Ids : ServerAdd(id)) \/ (\E g \in server : ServerRemove(g))
  <2>1. ASSUME NEW id \in Ids, ServerAdd(id)
        PROVE  Answered'
    <3>1. [id |-> id, serial |-> serial + 1] \in Global
      BY SyncTypes DEF Global
    <3> QED
      BY <1>11, <2>1, <3>1 DEF ServerAdd
  <2>2. ASSUME NEW g \in server, ServerRemove(g)
        PROVE  Answered'
    <3>1. g \in Global
      BY SyncTypes
    <3> QED
      BY <1>11, <2>2, <3>1 DEF ServerRemove
  <2> QED
    BY <1>12, <2>1, <2>2
<1>13. CASE Rests \/ Sends \/ Begins \/ Fails \/ Ends \/ Clears
  BY <1>3, <1>13 DEF Rests, Sends, Begins, Fails, Ends, Clears
<1> QED
  BY <1>4, <1>5, <1>6, <1>8, <1>9, <1>10, <1>12, <1>13 DEF StepEffects

\* A bind not yet read stays among the requests.
LEMMA BindIsComingStep ==
  ASSUME SyncStep
  PROVE  BindIsComing'
<1> USE DEF SyncStep, SyncInv
<1>0. toServer \in Seq(RegistryRequests) /\ lastReq \in Nat
  BY SyncTypes
<1>1. CASE \/ UNCHANGED <<running, connected, link, toServer, registry, subs>>
           \/ ~running' \/ ~connected' \/ ~link'
  <2>1. CASE ~running' \/ ~connected' \/ ~link'
    BY <2>1 DEF BindIsComing
  <2>2. CASE /\ running' = running /\ connected' = connected /\ link' = link
             /\ toServer' = toServer /\ registry' = registry /\ subs' = subs
    BY <2>2 DEF BindIsComing
  <2> QED
    BY <1>1, <2>1, <2>2
<1>2. CASE Rests \/ Opens \/ Fails \/ Ends \/ Clears \/ Disconnects \/ TakesToken
             \/ TakesEvent \/ ReadsAnswer \/ ReadsNews \/ Keep(LinkBreaks)
             \/ (\E id \in Ids : ServerAdd(id)) \/ (\E g \in server : ServerRemove(g))
  BY <1>1, <1>2 DEF Rests, Opens, Fails, Ends, Clears, Disconnects, TakesToken, TakesEvent,
     ReadsAnswer, ReadsNews, Keep, LinkBreaks, ServerAdd, ServerRemove, regVars, serverVars
<1>3. ASSUME NEW r, toServer' = Append(toServer, r)
      PROVE  /\ \A i \in DOMAIN toServer : i \in DOMAIN toServer' /\ toServer'[i] = toServer[i]
             /\ \E i \in DOMAIN toServer' : toServer'[i] = r
  <2>1. Len(toServer) + 1 \in DOMAIN toServer' /\ toServer'[Len(toServer) + 1] = r
    BY <1>0, <1>3
  <2> QED
    BY <1>0, <1>3, <2>1
<1>4. CASE Sends
  <2>1. UNCHANGED <<running, connected, link, registry, subs>>
    BY <1>4 DEF Sends, regVars, serverVars
  <2>2. toServer' = Append(toServer, SyncRequest)
    BY <1>4 DEF Sends
  <2> QED
    BY <1>3, <2>1, <2>2 DEF BindIsComing
<1>5. CASE Begins
  <2> DEFINE r == [kind |-> "bind", n |-> lastReq + 1]
  <2>1. toServer' = Append(toServer, r) /\ registry' = lastReq + 1
    BY <1>5 DEF Begins
  <2>2. \E i \in DOMAIN toServer' : toServer'[i] = r
    BY <1>3, <2>1
  <2>3. r.kind = "bind" /\ r.n = registry'
    BY <2>1
  <2> HIDE DEF r
  <2> QED
    BY <2>2, <2>3 DEF BindIsComing
<1>6. ASSUME toServer # <<>>, toServer' = Tail(toServer)
      PROVE  /\ Head(toServer) = toServer[1] /\ 1 \in DOMAIN toServer
             /\ \A i \in DOMAIN toServer : i # 1 =>
                  i - 1 \in DOMAIN toServer' /\ toServer'[i - 1] = toServer[i]
  BY <1>0, <1>6
<1>7. CASE Answers
  <2>1. UNCHANGED <<running, connected, link, registry, subs>> /\ toServer # <<>>
        /\ toServer' = Tail(toServer) /\ Head(toServer).kind # "bind"
    BY <1>7 DEF Answers, regVars, serverVars
  <2> QED
    BY <1>6, <2>1 DEF BindIsComing
<1>8. CASE ServerBind
  <2>1. /\ UNCHANGED <<running, connected, link, registry>> /\ toServer # <<>>
        /\ toServer' = Tail(toServer) /\ subs \subseteq subs'
        /\ Head(toServer).n \in bound => Head(toServer).n \in subs'
    BY <1>8 DEF ServerBind, regVars
  <2>2. Head(toServer).n = registry /\ connected => registry \in bound
    <3>1. Head(toServer).n \in 1..lastReq
      BY <1>6, <2>1 DEF StepInv, LineInv, RequestsInOrder
    <3>2. Head(toServer).n # NULL
      BY <1>0, <3>1 DEF NULL
    <3> QED
      BY <3>2 DEF StepInv, OwnerInv, ProxyIsAlive
  <2> QED
    BY <1>6, <2>1, <2>2 DEF BindIsComing
<1> QED
  BY <1>2, <1>4, <1>5, <1>7, <1>8 DEF StepEffects

-----------------------------------------------------------------------------
(* A roundtrip's stages, step by step.                                     *)

\* At most one more message, at the end of the wire.
LEMMA WireStages ==
  ASSUME RTypeOK, NEW c, Stages(c),
         UNCHANGED <<mainq, generation, registry, connected>>,
         Reached' = Reached, View' = View,
         \/ wire' = wire
         \/ \E m \in RegistryMessages :
              /\ wire' = Append(wire, m)
              /\ Announces(m) => m.to = registry
              /\ connected /\ m.kind = "done" /\ m.n = c.n =>
                   Reached /\ CaughtBy(c, View, server', InTransit', InTransit),
         Reached => \A p \in Seq(Announced) :
           CaughtBy(c, View, server, InTransit, p) => CaughtBy(c, View, server', InTransit', p),
         ShownBy(c, View, server) => ShownBy(c, View, server')
  PROVE  Stages(c)'
<1>0. /\ Len(wire) \in Nat /\ Len(mainq) \in Nat
      /\ DOMAIN wire = 1..Len(wire) /\ DOMAIN mainq = 1..Len(mainq)
      /\ wire \in Seq(RegistryMessages)
  BY LineType
<1>1. Current' = Current
  BY DEF Current
<1>2. /\ \A n \in 0..Len(mainq) : Told(mainq, Current)[n] \in Seq(Announced)
      /\ \A n \in 0..Len(wire) : Told(wire, Mine)[n] \in Seq(Announced)
  BY LineToldType
<1>3. \A p \in Seq(Announced) :
        Reached /\ CaughtBy(c, View, server, InTransit, p) =>
          Reached' /\ CaughtBy(c, View', server', InTransit', p)
  OBVIOUS
<1>4. StageQueue(c)'
  <2> SUFFICES ASSUME NEW k \in DOMAIN mainq',
                      mainq'[k].kind = "token", mainq'[k].n = c.n
               PROVE  /\ Reached'
                      /\ CaughtBy(c, View', server', InTransit', Told(mainq', Current')[k - 1])
    BY Zenon DEF StageQueue, Caught
  <2>1. k \in DOMAIN mainq /\ k - 1 \in 0..Len(mainq)
    BY <1>0
  <2>2. Told(mainq', Current')[k - 1] = Told(mainq, Current)[k - 1]
    BY <1>1
  <2>3. /\ Reached
        /\ CaughtBy(c, View, server, InTransit, Told(mainq, Current)[k - 1])
    BY <2>1 DEF Stages, StageQueue, Caught
  <2>4. Told(mainq, Current)[k - 1] \in Seq(Announced)
    BY <1>2, <2>1
  <2> QED
    BY <1>3, <2>2, <2>3, <2>4
<1>5. StageShown(c)'
  <2> SUFFICES ASSUME c.mdone
               PROVE  /\ ShownBy(c, View', server')
                      /\ Reached' /\ CaughtBy(c, View', server', InTransit', <<>>)
    BY Zenon DEF StageShown, Caught
  <2>1. <<>> \in Seq(Announced)
    OBVIOUS
  <2> QED
    BY <1>3, <2>1 DEF Stages, StageShown, Caught
<1>6. StageWire(c)'
  <2> SUFFICES ASSUME connected', NEW k \in DOMAIN wire',
                      wire'[k].kind = "done", wire'[k].n = c.n
               PROVE  /\ Reached'
                      /\ CaughtBy(c, View', server', InTransit',
                           Told(mainq', Current')[Len(mainq')] \o Told(wire', Mine')[k - 1])
    BY Zenon DEF StageWire, Caught
  <2> DEFINE a == Told(mainq, Current)[Len(mainq)]
  <2>1. Told(mainq', Current')[Len(mainq')] = a /\ a \in Seq(Announced)
    BY <1>0, <1>1, <1>2
  <2>2. ASSUME k \in DOMAIN wire, wire'[k] = wire[k],
               Told(wire', Mine')[k - 1] = Told(wire, Mine)[k - 1]
        PROVE  /\ Reached'
               /\ CaughtBy(c, View', server', InTransit', a \o Told(wire', Mine')[k - 1])
    <3>1. Reached /\ CaughtBy(c, View, server, InTransit, a \o Told(wire, Mine)[k - 1])
      BY <2>2 DEF Stages, StageWire, Caught
    <3>2. k - 1 \in 0..Len(wire)
      BY <1>0, <2>2
    <3> DEFINE b == Told(wire, Mine)[k - 1]
    <3>3. b \in Seq(Announced)
      BY <1>2, <3>2
    <3> HIDE DEF a, b
    <3>4. a \o b \in Seq(Announced)
      BY <2>1, <3>3
    <3>5. Reached' /\ CaughtBy(c, View', server', InTransit', a \o b)
      BY <1>3, <3>1, <3>4 DEF b
    <3> QED
      BY <2>2, <3>5 DEF b
  <2>3. CASE wire' = wire
    <3>1. Mine' = Mine
      BY <2>3 DEF Mine
    <3> QED
      BY <2>1, <2>2, <2>3, <3>1
  <2>4. ASSUME NEW m \in RegistryMessages, wire' = Append(wire, m),
               Announces(m) => m.to = registry,
               connected /\ m.kind = "done" /\ m.n = c.n =>
                 Reached /\ CaughtBy(c, View, server', InTransit', InTransit)
        PROVE  /\ Reached'
               /\ CaughtBy(c, View', server', InTransit', a \o Told(wire', Mine')[k - 1])
    <3>1. \A n \in 0..Len(wire) : Told(wire', Mine')[n] = Told(wire, Mine)[n]
      <4>1. CASE Announces(m)
        BY <2>4, <4>1, WireMine
      <4>2. CASE ~Announces(m)
        BY <2>4, <4>2, WireOther
      <4> QED
        BY <4>1, <4>2
    <3>2. \/ k \in DOMAIN wire /\ wire'[k] = wire[k] /\ k - 1 \in 0..Len(wire)
          \/ k - 1 = Len(wire) /\ wire'[k] = m
      <4>1. \/ k \in DOMAIN wire /\ wire'[k] = wire[k]
            \/ k = Len(wire) + 1 /\ wire'[k] = m
        BY <1>0, <2>4, Longer
      <4> QED
        BY <1>0, <4>1
    <3>3. CASE k \in DOMAIN wire /\ wire'[k] = wire[k] /\ k - 1 \in 0..Len(wire)
      BY <2>2, <3>1, <3>3
    <3>4. CASE k - 1 = Len(wire) /\ wire'[k] = m
      <4>1. Told(wire', Mine')[k - 1] = Told(wire, Mine)[Len(wire)]
        BY <1>0, <3>1, <3>4
      <4>2. a \o Told(wire', Mine')[k - 1] = InTransit
        BY <4>1 DEF InTransit
      <4> QED
        BY <2>4, <3>4, <4>2
    <3> QED
      BY <3>2, <3>3, <3>4
  <2> QED
    BY <2>1, <2>3, <2>4
<1> QED
  BY <1>4, <1>5, <1>6 DEF Stages

\* The main context dispatches its oldest source: an event of the session is
\* applied, others change nothing that shows.
LEMMA QueueStages ==
  ASSUME RTypeOK, NEW c, Stages(c), c.mark.upto \in Nat,
         mainq # <<>>, mainq' = Tail(mainq),
         UNCHANGED <<wire, generation, registry, connected, server>>,
         Reached' = Reached, View' \in SUBSET Known,
         1 \notin Current => View' = View,
         1 \in Current => View' = Applied(View, Word(Head(mainq)))
  PROVE  Stages(c)'
<1> DEFINE x == Word(Head(mainq))
           a == Told(mainq, Current)
           r == Told(mainq', Current')
           w == Told(wire, Mine)
<1>1. /\ Len(mainq) = Len(mainq') + 1 /\ Len(mainq') \in Nat
      /\ \A i \in 1..Len(mainq') : mainq'[i] = mainq[i + 1]
      /\ \A n \in 0..Len(mainq') :
           /\ 1 \in Current => a[n + 1] = <<x>> \o r[n]
           /\ 1 \notin Current => a[n + 1] = r[n]
           /\ r[n] \in Seq(Announced)
  BY MainRead
<1>2. /\ mainq' \in Seq(RegistrySources) /\ DOMAIN mainq' = 1..Len(mainq')
      /\ DOMAIN mainq = 1..Len(mainq) /\ DOMAIN wire = 1..Len(wire)
      /\ Len(wire) \in Nat /\ Len(mainq) \in Nat
      /\ Head(mainq) = mainq[1]
  <2>1. mainq \in Seq(RegistrySources)
    BY LineType
  <2> QED
    BY <2>1, LineType
<1>3. Told(wire', Mine') = w /\ \A n \in 0..Len(wire) : w[n] \in Seq(Announced)
  <2>1. Mine' = Mine
    BY DEF Mine
  <2> QED
    BY <2>1, LineToldType
<1>4. 1 \in Current => x \in Announced
  BY <1>1, <1>2, LineType
<1> DEFINE all == r[Len(mainq')] \o w[Len(wire)]
<1>5. all \in Seq(Announced) /\ r[Len(mainq')] \in Seq(Announced)
  <2>1. r[Len(mainq')] \in Seq(Announced) /\ w[Len(wire)] \in Seq(Announced)
    BY <1>1, <1>2, <1>3
  <2> QED
    BY <2>1
<1>6. InTransit' = all
  BY <1>3 DEF InTransit
<1>7. /\ 1 \in Current => InTransit = (<<x>> \o r[Len(mainq')]) \o w[Len(wire)]
      /\ 1 \notin Current => InTransit = all
  <2>1. Len(mainq') \in 0..Len(mainq') /\ Len(mainq') + 1 = Len(mainq)
    BY <1>1
  <2>2. /\ 1 \in Current => a[Len(mainq)] = <<x>> \o r[Len(mainq')]
        /\ 1 \notin Current => a[Len(mainq)] = r[Len(mainq')]
    BY <1>1, <2>1
  <2>3. InTransit = a[Len(mainq)] \o w[Len(wire)]
    BY DEF InTransit
  <2> HIDE DEF a, r, w
  <2> QED
    BY <2>2, <2>3
<1>8. 1 \in Current => InTransit = <<x>> \o all
  <2> DEFINE h == r[Len(mainq')]
             b == w[Len(wire)]
  <2>1. h \in Seq(Announced) /\ b \in Seq(Announced)
    BY <1>2, <1>3, <1>5
  <2>2. all = h \o b /\ (1 \in Current => InTransit = (<<x>> \o h) \o b)
    BY <1>7
  <2> HIDE DEF h, b, x, all
  <2> QED
    BY <1>4, <2>1, <2>2, CatFirst, Zenon
<1> HIDE DEF x, all
<1>9. ASSUME NEW p \in Seq(Announced),
             1 \in Current => CaughtBy(c, View, server, InTransit, <<x>> \o p),
             1 \notin Current => CaughtBy(c, View, server, InTransit, p)
      PROVE  CaughtBy(c, View', server', InTransit', p)
  <2>1. CASE 1 \in Current
    <3>1. CaughtBy(c, View, server, <<x>> \o all, <<x>> \o p)
      BY <1>8, <1>9, <2>1
    <3>2. CaughtBy(c, Applied(View, x), server, all, p)
      BY <1>4, <1>5, <2>1, <3>1, CaughtNext
    <3> QED
      BY <1>6, <2>1, <3>2 DEF x
  <2>2. CASE 1 \notin Current
    BY <1>6, <1>7, <1>9, <2>2
  <2> QED
    BY <2>1, <2>2
<1>10. StageQueue(c)'
  <2> SUFFICES ASSUME NEW k \in DOMAIN mainq',
                      mainq'[k].kind = "token", mainq'[k].n = c.n
               PROVE  /\ Reached'
                      /\ CaughtBy(c, View', server', InTransit', Told(mainq', Current')[k - 1])
    BY Zenon DEF StageQueue, Caught
  <2>1. /\ k \in 1..Len(mainq') /\ k - 1 \in 0..Len(mainq') /\ (k - 1) + 1 = k
        /\ (k + 1) - 1 = k /\ k + 1 \in DOMAIN mainq /\ mainq[k + 1] = mainq'[k]
    BY <1>1, <1>2
  <2>2. Reached /\ CaughtBy(c, View, server, InTransit, a[k])
    <3>1. mainq[k + 1].kind = "token" /\ mainq[k + 1].n = c.n
      BY <2>1
    <3>2. Caught(c, a[(k + 1) - 1])
      BY <2>1, <3>1 DEF Stages, StageQueue
    <3> QED
      BY <2>1, <3>2 DEF Caught
  <2>3. /\ r[k - 1] \in Seq(Announced)
        /\ 1 \in Current => a[k] = <<x>> \o r[k - 1]
        /\ 1 \notin Current => a[k] = r[k - 1]
    BY <1>1, <2>1 DEF x
  <2> HIDE DEF a, r
  <2>4. CaughtBy(c, View', server', InTransit', r[k - 1])
    BY <1>9, <2>2, <2>3
  <2> QED
    BY <2>2, <2>4 DEF r
<1>11. StageWire(c)'
  <2> SUFFICES ASSUME connected', NEW k \in DOMAIN wire',
                      wire'[k].kind = "done", wire'[k].n = c.n
               PROVE  /\ Reached'
                      /\ CaughtBy(c, View', server', InTransit',
                           Told(mainq', Current')[Len(mainq')] \o Told(wire', Mine')[k - 1])
    BY Zenon DEF StageWire, Caught
  <2>1. k \in DOMAIN wire /\ k - 1 \in 0..Len(wire)
    BY <1>2
  <2> DEFINE b == w[k - 1]
             h == r[Len(mainq')]
  <2>2. b \in Seq(Announced) /\ h \in Seq(Announced)
    BY <1>3, <1>5, <2>1
  <2>3. Reached /\ CaughtBy(c, View, server, InTransit, a[Len(mainq)] \o b)
    BY <2>1 DEF Stages, StageWire, Caught
  <2>4. /\ 1 \in Current => a[Len(mainq)] = <<x>> \o h
        /\ 1 \notin Current => a[Len(mainq)] = h
    BY <1>1 DEF x
  <2>5. Told(wire', Mine')[k - 1] = b /\ Told(mainq', Current')[Len(mainq')] = h
    BY <1>3
  <2> HIDE DEF a, b, h
  <2>6. 1 \in Current => (<<x>> \o h) \o b = <<x>> \o (h \o b)
    BY <1>4, <2>2, CatFirst, Zenon
  <2>7. h \o b \in Seq(Announced)
    BY <2>2
  <2>8. CaughtBy(c, View', server', InTransit', h \o b)
    BY <1>9, <2>3, <2>4, <2>6, <2>7
  <2> QED
    BY <2>3, <2>5, <2>8
<1>12. StageShown(c)'
  <2> SUFFICES ASSUME c.mdone
               PROVE  /\ ShownBy(c, View', server')
                      /\ Reached' /\ CaughtBy(c, View', server', InTransit', <<>>)
    BY Zenon DEF StageShown, Caught
  <2>1. CASE 1 \in Current
    <3>1. Reached /\ CaughtBy(c, View, server, InTransit, <<>>)
      BY <2>1 DEF Stages, StageShown, Caught
    <3>2. CaughtBy(c, View, server, <<x>> \o all, <<>>)
      BY <1>8, <2>1, <3>1
    <3>3. x.g.serial \in Nat
      BY <1>4, <2>1 DEF Announced, Global
    <3>4. CaughtBy(c, Applied(View, x), server, all, <<>>)
      BY <1>4, <1>5, <2>1, <3>2, <3>3, CaughtLater
    <3>5. CaughtBy(c, View', server', InTransit', <<>>)
      BY <1>6, <2>1, <3>4 DEF x
    <3> QED
      BY <3>1, <3>5, CaughtShows
  <2>2. CASE 1 \notin Current
    <3>1. View' = View /\ server' = server /\ InTransit' = InTransit /\ connected' = connected
      BY <1>6, <1>7, <2>2
    <3> QED
      BY <3>1 DEF Stages, StageShown, Caught
  <2> QED
    BY <2>1, <2>2
<1> QED
  BY <1>10, <1>11, <1>12 DEF Stages

\* The loop thread hands a message over, or drops it.
LEMMA ReadStages ==
  ASSUME RTypeOK, NEW c, Stages(c), connected, wire # <<>>, wire' = Tail(wire),
         UNCHANGED <<generation, registry, connected, server>>,
         Reached' = Reached, View' = View,
         \/ mainq' = mainq
         \/ \E e \in RegistrySources :
              /\ mainq' = Append(mainq, e)
              /\ e.kind = "token" => Head(wire).kind = "done" /\ Head(wire).n = e.n,
         Reached => Hands
  PROVE  Stages(c)'
<1>0. /\ Len(wire) \in Nat /\ Len(mainq) \in Nat
      /\ DOMAIN wire = 1..Len(wire) /\ DOMAIN mainq = 1..Len(mainq)
      /\ wire \in Seq(RegistryMessages) /\ mainq \in Seq(RegistrySources)
  BY LineType
<1>1. Reached => InTransit' = InTransit
  BY HandsTransit
<1>2. \A p \in Seq(Announced) :
        Reached /\ CaughtBy(c, View, server, InTransit, p) =>
          Reached' /\ CaughtBy(c, View', server', InTransit', p)
  BY <1>1
<1>3. /\ \A n \in 0..Len(mainq) : Told(mainq, Current)[n] \in Seq(Announced)
      /\ \A n \in 0..Len(wire) : Told(wire, Mine)[n] \in Seq(Announced)
  BY LineToldType
<1>4. /\ Head(wire) = wire[1] /\ 1 \in DOMAIN wire
      /\ DOMAIN wire' = 1..Len(wire')
      /\ \A k \in DOMAIN wire' : k + 1 \in DOMAIN wire /\ wire'[k] = wire[k + 1]
  BY <1>0, Shorter
<1> DEFINE a == Told(mainq, Current)
<1>5. a[Len(mainq)] \in Seq(Announced)
  BY <1>0, <1>3
<1>6. StageWire(c)'
  <2> SUFFICES ASSUME connected', NEW k \in DOMAIN wire',
                      wire'[k].kind = "done", wire'[k].n = c.n
               PROVE  /\ Reached'
                      /\ CaughtBy(c, View', server', InTransit',
                           Told(mainq', Current')[Len(mainq')] \o Told(wire', Mine')[k - 1])
    BY Zenon DEF StageWire, Caught
  <2>1. k + 1 \in DOMAIN wire /\ wire[k + 1] = wire'[k] /\ (k + 1) - 1 = k /\ k \in 0..Len(wire)
        /\ (k - 1) + 1 = k
    BY <1>0, <1>4
  <2>2. Caught(c, a[Len(mainq)] \o Told(wire, Mine)[(k + 1) - 1])
    BY <2>1 DEF Stages, StageWire
  <2> DEFINE b == Told(wire, Mine)[k]
  <2>3. Reached /\ CaughtBy(c, View, server, InTransit, a[Len(mainq)] \o b)
    BY <2>1, <2>2 DEF Caught
  <2>4. b \in Seq(Announced)
    BY <1>3, <2>1
  <2>5. a[Len(mainq)] \o b \in Seq(Announced)
    BY <1>5, <2>4
  <2>6. k - 1 \in 0..Len(wire')
    BY <1>4, <2>1
  <2>7. Told(mainq', Current')[Len(mainq')] \o Told(wire', Mine')[k - 1] = a[Len(mainq)] \o b
    BY <2>1, <2>3, <2>6 DEF Hands
  <2> HIDE DEF a, b
  <2> QED
    BY <1>2, <2>3, <2>5, <2>7
<1>7. StageQueue(c)'
  <2> SUFFICES ASSUME NEW k \in DOMAIN mainq',
                      mainq'[k].kind = "token", mainq'[k].n = c.n
               PROVE  /\ Reached'
                      /\ CaughtBy(c, View', server', InTransit', Told(mainq', Current')[k - 1])
    BY Zenon DEF StageQueue, Caught
  <2>1. ASSUME k \in DOMAIN mainq, mainq'[k] = mainq[k]
        PROVE  /\ Reached'
               /\ CaughtBy(c, View', server', InTransit', Told(mainq', Current')[k - 1])
    <3>1. k - 1 \in 0..Len(mainq)
      BY <1>0, <2>1
    <3>2. Reached /\ CaughtBy(c, View, server, InTransit, a[k - 1])
      BY <2>1 DEF Stages, StageQueue, Caught
    <3>3. Told(mainq', Current')[k - 1] = a[k - 1] /\ a[k - 1] \in Seq(Announced)
      BY <1>3, <3>1, <3>2 DEF Hands
    <3> HIDE DEF a
    <3> QED
      BY <1>2, <3>2, <3>3
  <2>2. CASE mainq' = mainq
    BY <2>1, <2>2
  <2>3. ASSUME NEW e \in RegistrySources, mainq' = Append(mainq, e),
               e.kind = "token" => Head(wire).kind = "done" /\ Head(wire).n = e.n
        PROVE  /\ Reached'
               /\ CaughtBy(c, View', server', InTransit', Told(mainq', Current')[k - 1])
    <3>1. \/ k \in DOMAIN mainq /\ mainq'[k] = mainq[k]
          \/ k = Len(mainq) + 1 /\ mainq'[k] = e
      BY <1>0, <2>3, Longer
    <3>2. CASE k = Len(mainq) + 1 /\ mainq'[k] = e
      <4>1. wire[1].kind = "done" /\ wire[1].n = c.n
        BY <1>4, <2>3, <3>2
      <4>2. Reached /\ CaughtBy(c, View, server, InTransit,
                                    a[Len(mainq)] \o Told(wire, Mine)[1 - 1])
        BY <1>4, <4>1 DEF Stages, StageWire, Caught
      <4>3. Told(wire, Mine)[1 - 1] = <<>>
        <5>1. 0 \in 0..Len(wire) /\ \A i \in 1..0 : i \notin Mine
          BY <1>0
        <5> QED
          BY <1>0, <5>1, ToldNothing
      <4>4. a[Len(mainq)] \o <<>> = a[Len(mainq)]
        <5> HIDE DEF a
        <5> QED
          BY <1>5
      <4>5. k - 1 = Len(mainq) /\ Len(mainq) \in 0..Len(mainq)
        BY <1>0, <3>2
      <4>6. Told(mainq', Current')[k - 1] = a[Len(mainq)]
        BY <4>2, <4>5 DEF Hands
      <4> HIDE DEF a
      <4> QED
        BY <1>2, <1>5, <4>2, <4>3, <4>4, <4>6
    <3> QED
      BY <2>1, <3>1, <3>2
  <2> QED
    BY <2>2, <2>3
<1>8. StageShown(c)'
  <2> SUFFICES ASSUME c.mdone
               PROVE  /\ ShownBy(c, View', server')
                      /\ Reached' /\ CaughtBy(c, View', server', InTransit', <<>>)
    BY Zenon DEF StageShown, Caught
  <2>1. <<>> \in Seq(Announced)
    OBVIOUS
  <2> QED
    BY <1>2, <2>1 DEF Stages, StageShown, Caught
<1> QED
  BY <1>6, <1>7, <1>8 DEF Stages

\* The call whose token is dispatched.
LEMMA DrainedStages ==
  ASSUME SyncStep, TakesToken, NEW d, Stages(d), d.n = Head(mainq).n
  PROVE  StageShown(Drained(d))'
<1> USE DEF SyncStep
<1>1. /\ mainq # <<>> /\ mainq' = Tail(mainq) /\ Head(mainq).kind = "token"
      /\ wire' = wire /\ generation' = generation /\ registry' = registry /\ server' = server
      /\ connected' = connected /\ running' = running /\ subs' = subs /\ globals' = globals
  BY DEF TakesToken, regVars, serverVars
<1>2. RTypeOK /\ Head(mainq) = mainq[1] /\ 1 \in DOMAIN mainq /\ Len(mainq) \in Nat
  BY <1>1, SyncTypes, Shorter, LineType
<1>3. Told(mainq, Current)[1 - 1] = <<>>
  <2>1. 0 \in 0..Len(mainq) /\ \A i \in 1..0 : i \notin Current
    BY <1>2
  <2> QED
    BY <1>2, <2>1, ToldNothing
<1>4. Reached /\ CaughtBy(d, View, server, InTransit, <<>>)
  BY <1>1, <1>2, <1>3 DEF Stages, StageQueue, Caught
<1>5. InTransit' = InTransit
  BY <1>1, <1>2, TokenTransit
<1>6. View' = View /\ Reached' = Reached
  BY <1>1 DEF View, Reached
<1>7. Drained(d).mark = d.mark
  BY DEF Drained
<1>8. Reached' /\ CaughtBy(Drained(d), View', server', InTransit', <<>>)
  BY <1>1, <1>4, <1>5, <1>6, <1>7, Zenon DEF CaughtBy
<1>9. ShownBy(Drained(d), View', server')
  <2>1. View' \in SUBSET Known
    BY <1>6 DEF CatchesUp
  <2> QED
    BY <1>8, <2>1, CaughtShows
<1> QED
  BY <1>8, <1>9, Zenon DEF StageShown, Caught

\* A source is dispatched.
LEMMA DispatchStages ==
  ASSUME SyncStep, CatchesUp', TakesToken \/ TakesEvent, NEW c, Stages(c), Marked(c), running
  PROVE  Stages(c)'
<1> USE DEF SyncStep
<1> DEFINE e == Head(mainq)
<1>1. /\ mainq # <<>> /\ mainq' = Tail(mainq)
      /\ UNCHANGED <<wire, generation, registry, connected, server>>
      /\ running' = running /\ subs' = subs
  BY DEF TakesToken, TakesEvent, regVars, serverVars
<1>2. RTypeOK /\ e = mainq[1] /\ 1 \in DOMAIN mainq /\ e \in RegistrySources
  BY <1>1, SyncTypes, Shorter
<1>3. Reached' = Reached /\ c.mark.upto \in Nat /\ View' \in SUBSET Known
  BY <1>1 DEF Reached, Marked, Marks, CatchesUp
<1>4. CASE TakesToken
  <2>1. e.kind = "token" /\ globals' = globals
    BY <1>4 DEF TakesToken, regVars
  <2>2. 1 \notin Current /\ View' = View
    BY <1>2, <2>1 DEF Current, Announces, View
  <2> HIDE DEF e
  <2> QED
    BY <1>1, <1>2, <1>3, <2>2, QueueStages
<1>5. CASE TakesEvent
  <2>1. Announces(e)
    BY <1>5 DEF TakesEvent
  <2>2. 1 \in Current <=> e.gen = generation
    BY <1>2, <2>1 DEF Current
  <2>3. CASE e.gen # generation
    <3>1. globals' = globals
      BY <1>5, <2>3 DEF TakesEvent
    <3>2. View' = View
      BY <3>1 DEF View
    <3> QED
      BY <1>1, <1>2, <1>3, <2>2, <2>3, <3>2, QueueStages
  <2>4. CASE e.gen = generation
    <3>1. View' = Applied(View, Word(e))
      BY <1>2, <1>5, <2>1, <2>4, EventShows
    <3> HIDE DEF e
    <3>2. 1 \in Current /\ View' = Applied(View, Word(Head(mainq)))
      BY <2>2, <2>4, <3>1 DEF e
    <3> QED
      BY <1>1, <1>2, <1>3, <3>2, QueueStages
  <2> QED
    BY <2>3, <2>4
<1> QED
  BY <1>4, <1>5

\* The loop thread reads.
LEMMA LoopStages ==
  ASSUME SyncStep, ReadsAnswer \/ ReadsNews, NEW c, Stages(c)
  PROVE  Stages(c)'
<1> USE DEF SyncStep
<1> DEFINE m == Head(wire)
<1>1. /\ wire # <<>> /\ wire' = Tail(wire) /\ connected
      /\ UNCHANGED <<generation, registry, connected, server>>
      /\ Reached' = Reached /\ View' = View
  BY DEF ReadsAnswer, ReadsNews, regVars, serverVars, Reached, View
<1>2. RTypeOK /\ m = wire[1] /\ m \in RegistryMessages
  BY <1>1, SyncTypes, Shorter
<1>3. CASE ReadsAnswer
  <2>1. /\ m.kind \in {"done", "error"}
        /\ mainq' = mainq \/ (m.kind = "done" /\ mainq' = Append(mainq, Token(m.n)))
    BY <1>3 DEF ReadsAnswer
  <2>2. ~Announces(m)
    BY <2>1 DEF Announces
  <2>3. m.kind = "done" => m.n \in Nat
    BY <1>2 DEF RegistryMessages, CoreMessages
  <2>4. mainq' = mainq \/ \E n \in Nat : mainq' = Append(mainq, Token(n))
    BY <2>1, <2>3
  <2>5. Hands
    BY <1>1, <1>2, <2>2, <2>4, AnswerHands
  <2>6. \/ mainq' = mainq
        \/ \E e \in RegistrySources :
             /\ mainq' = Append(mainq, e)
             /\ e.kind = "token" => m.kind = "done" /\ m.n = e.n
    <3>1. ASSUME m.kind = "done"
          PROVE  Token(m.n) \in RegistrySources /\ Token(m.n).n = m.n
      BY <2>3, <3>1 DEF Token, RegistrySources, CoreSources
    <3> QED
      BY <2>1, <3>1
  <2> HIDE DEF m
  <2> QED
    BY <1>1, <1>2, <2>5, <2>6, ReadStages DEF m
<1>4. CASE ReadsNews
  <2> DEFINE e == [kind |-> m.kind, gen |-> generation, from |-> m.to, g |-> m.g]
  <2>1. Announces(m) /\ mainq' = IF m.to \in bound THEN Append(mainq, e) ELSE mainq
    BY <1>4 DEF ReadsNews
  <2>2. Reached => Hands
    <3>1. Reached => Established
      BY <1>1 DEF Reached, Established
    <3> QED
      BY <1>2, <1>4, <3>1, OnlyProxy, NewsHands
  <2>3. e \in RegistrySources /\ e.kind # "token"
    <3>1. m \in [kind : {"add", "remove"}, to : Nat, g : Global] /\ generation \in Nat
      BY <1>2, <2>1 DEF Announces, RegistryMessages, CoreMessages, RTypeOK
    <3> QED
      BY <3>1 DEF RegistrySources
  <2> HIDE DEF e
  <2>4. mainq' = mainq \/ \E x \in RegistrySources : mainq' = Append(mainq, x) /\ x.kind # "token"
    BY <2>1, <2>3
  <2> QED
    BY <1>1, <1>2, <2>2, <2>4, ReadStages
<1> QED
  BY <1>3, <1>4

\* The server answers: a roundtrip of the session that it has bound is
\* answered behind all that the server has told.
LEMMA AnswerStages ==
  ASSUME SyncStep, Answers, NEW c, Stages(c), Marked(c), Ours(c)
  PROVE  Stages(c)'
<1> USE DEF SyncStep, SyncInv
<1> DEFINE r == Head(toServer)
<1>1. /\ link /\ toServer # <<>>
      /\ UNCHANGED <<mainq, generation, registry, connected>>
      /\ server' = server /\ running' = running /\ subs' = subs /\ globals' = globals
  BY DEF Answers, regVars, serverVars
<1>2. Reached' = Reached /\ View' = View /\ RTypeOK
  BY <1>1, SyncTypes DEF Reached, View
<1>3. r = toServer[1] /\ 1 \in DOMAIN toServer /\ r.n \in Nat
  <2>1. r = toServer[1] /\ 1 \in DOMAIN toServer /\ r \in RegistryRequests
    BY <1>1, SyncTypes, Shorter
  <2> QED
    BY <2>1 DEF RegistryRequests, CoreRequests
<1>4. CASE wire' = wire
  <2>1. InTransit' = InTransit
    BY <1>1, <1>4, SameTransit
  <2> QED
    BY <1>1, <1>2, <1>4, <2>1, WireStages
<1>5. ASSUME r.kind = "sync", NEW kind \in {"done", "error"},
             wire' = Append(wire, [kind |-> kind, n |-> r.n])
      PROVE  Stages(c)'
  <2> DEFINE m == [kind |-> kind, n |-> r.n]
  <2>1. m \in RegistryMessages /\ ~Announces(m)
    BY <1>3 DEF RegistryMessages, CoreMessages, Announces
  <2>2. InTransit' = InTransit
    <3> HIDE DEF m
    <3>1. wire' = Append(wire, m)
      BY <1>5 DEF m
    <3> QED
      BY <1>1, <1>2, <2>1, <3>1, WireOther
  <2>3. ASSUME connected, r.n = c.n
        PROVE  Reached /\ CaughtBy(c, View, server', InTransit', InTransit)
    <3>1. registry < r.n
      BY <2>3 DEF Marked, Ours
    <3>2. registry \in subs
      <4>1. ASSUME NEW i \in DOMAIN toServer, toServer[i].kind = "bind", toServer[i].n = registry
            PROVE  FALSE
        <5>1. i # 1 /\ i \in Nat /\ i >= 1 /\ registry \in Nat
          BY <1>3, <1>5, <4>1, SyncTypes
        <5>2. 1 < i
          BY <5>1
        <5>3. toServer[1].n < toServer[i].n
          BY <1>3, <5>2 DEF StepInv, LineInv, RequestsInOrder
        <5> QED
          BY <1>3, <3>1, <4>1, <5>1, <5>3
      <4> QED
        BY <1>1, <2>3, <4>1 DEF BindIsComing, Ours
    <3>3. Established /\ Reached
      BY <3>2 DEF Established, Reached, Ours
    <3>4. server \in SUBSET Known /\ InTransit \in Seq(Announced)
      BY <1>2, SyncTypes, LineToldType
    <3>5. \A g \in Known : DueIn(View, InTransit, g) <=> g \in server
      BY <1>1, <3>3 DEF CatchesUp
    <3>6. \A g \in server : g.serial <= c.mark.upto => g \in c.mark.have
      BY DEF Marked
    <3>7. CaughtBy(c, View, server, InTransit, InTransit)
      BY <3>4, <3>5, <3>6, CaughtWhole
    <3> QED
      BY <1>1, <2>2, <3>3, <3>7
  <2>4. m.n = r.n
    OBVIOUS
  <2>5. \E x \in RegistryMessages :
          /\ wire' = Append(wire, x)
          /\ Announces(x) => x.to = registry
          /\ connected /\ x.kind = "done" /\ x.n = c.n =>
               Reached /\ CaughtBy(c, View, server', InTransit', InTransit)
    <3> HIDE DEF m
    <3>1. wire' = Append(wire, m)
      BY <1>5 DEF m
    <3> QED
      BY <2>1, <2>3, <2>4, <3>1
  <2>6. \A p \in Seq(Announced) :
          CaughtBy(c, View, server, InTransit, p) => CaughtBy(c, View, server', InTransit', p)
    BY <1>1, <2>2
  <2>7. ShownBy(c, View, server) => ShownBy(c, View, server')
    BY <1>1
  <2> QED
    BY <1>1, <1>2, <2>5, <2>6, <2>7, WireStages
<1> QED
  BY <1>4, <1>5 DEF Answers

\* The link breaks.
LEMMA BreakStages ==
  ASSUME SyncStep, Keep(LinkBreaks), NEW c, Stages(c)
  PROVE  Stages(c)'
<1> USE DEF SyncStep
<1> DEFINE m == [kind |-> "error", n |-> 0]
<1>1. /\ UNCHANGED <<mainq, generation, registry, connected>>
      /\ server' = server /\ running' = running /\ subs' = subs /\ globals' = globals
      /\ wire' = Append(wire, m)
  BY DEF Keep, LinkBreaks, regVars, serverVars
<1>2. Reached' = Reached /\ View' = View /\ RTypeOK
  BY <1>1, SyncTypes DEF Reached, View
<1>3. m \in RegistryMessages /\ ~Announces(m) /\ m.kind # "done"
  BY DEF RegistryMessages, CoreMessages, Announces
<1> HIDE DEF m
<1>4. InTransit' = InTransit
  BY <1>1, <1>2, <1>3, WireOther
<1>5. \E x \in RegistryMessages :
        /\ wire' = Append(wire, x)
        /\ Announces(x) => x.to = registry
        /\ connected /\ x.kind = "done" /\ x.n = c.n =>
             Reached /\ CaughtBy(c, View, server', InTransit', InTransit)
  BY <1>1, <1>3
<1>6. \A p \in Seq(Announced) :
        CaughtBy(c, View, server, InTransit, p) => CaughtBy(c, View, server', InTransit', p)
  BY <1>1, <1>4
<1>7. ShownBy(c, View, server) => ShownBy(c, View, server')
  BY <1>1
<1> QED
  BY <1>1, <1>2, <1>5, <1>6, <1>7, WireStages

\* A change of the server's globals is news to every roundtrip: a global added
\* is later than its mark, and of an id that no other has; one removed no
\* longer counts.
LEMMA ChangeStages ==
  ASSUME SyncStep, NEW c, Stages(c), Marked(c), NEW kind \in {"add", "remove"},
         NEW g \in Global, Broadcast(kind, g),
         UNCHANGED <<link, mainq, regVars, subs, connected>>,
         c.mark.have \cap server' \subseteq server,
         \A h \in c.mark.have \cap server' : h.id # g.id,
         kind = "add" => g.serial > c.mark.upto
  PROVE  Stages(c)'
<1> USE DEF SyncStep
<1> DEFINE m == Announce(kind, g, registry)
           a == [kind |-> kind, g |-> g]
<1>1. /\ UNCHANGED <<mainq, generation, registry, connected>> /\ subs \subseteq bound
      /\ running' = running /\ subs' = subs /\ globals' = globals /\ RTypeOK /\ SessionInv
  BY SyncTypes DEF regVars, StepInv, LineInv, ProxiesTold
<1>2. Reached' = Reached /\ View' = View
  BY <1>1 DEF Reached, View
<1>3. /\ link /\ registry \in subs => wire' = Append(wire, m)
      /\ ~(link /\ registry \in subs) => wire' = wire
  BY <1>1, BroadcastTells
<1>4. /\ m \in RegistryMessages /\ Announces(m) /\ m.to = registry /\ m.kind # "done"
      /\ Word(m) = a /\ a \in Announced
  BY <1>1 DEF RTypeOK, Announce, Announces, RegistryMessages, Word, Announced
<1> HIDE DEF m
<1>5. link /\ registry \in subs => InTransit' = Append(InTransit, a)
  BY <1>1, <1>3, <1>4, WireMine
<1>6. ~(link /\ registry \in subs) => InTransit' = InTransit
  BY <1>1, <1>3, SameTransit
<1>7. \/ wire' = wire
      \/ \E x \in RegistryMessages :
           /\ wire' = Append(wire, x)
           /\ Announces(x) => x.to = registry
           /\ connected /\ x.kind = "done" /\ x.n = c.n =>
                Reached /\ CaughtBy(c, View, server', InTransit', InTransit)
  BY <1>3, <1>4
<1>8. ASSUME NEW p \in Seq(Announced), CaughtBy(c, View, server, InTransit, p)
      PROVE  CaughtBy(c, View, server', InTransit', p)
  <2>1. CaughtBy(c, View, server', InTransit, p)
    BY <1>8, CaughtFewer
  <2>2. CASE link /\ registry \in subs
    <3>1. \A h \in c.mark.have \cap server' : a.g.id # h.id
      OBVIOUS
    <3>2. a.kind = "add" => a.g.serial > c.mark.upto
      OBVIOUS
    <3> HIDE DEF a
    <3>3. CaughtBy(c, View, server', Append(InTransit, a), p)
      BY <1>4, <2>1, <3>1, <3>2, CaughtLonger
    <3> QED
      BY <1>5, <2>2, <3>3
  <2>3. CASE ~(link /\ registry \in subs)
    BY <1>6, <2>1, <2>3
  <2> QED
    BY <2>2, <2>3
<1>9. ShownBy(c, View, server) => ShownBy(c, View, server')
  BY DEF ShownBy
<1> QED
  BY <1>1, <1>2, <1>7, <1>8, <1>9, WireStages

\* A new proxy: the session was not established, so no answer is on its way.
LEMMA BindStages ==
  ASSUME SyncStep, ServerBind, NEW c, Stages(c)
  PROVE  Stages(c)'
<1> USE DEF SyncStep
<1>1. /\ link /\ toServer # <<>> /\ toServer[1].kind = "bind" /\ Head(toServer) = toServer[1]
      /\ 1 \in DOMAIN toServer
      /\ UNCHANGED <<mainq, generation, registry, connected>>
      /\ server' = server /\ globals' = globals /\ running' = running
  <2>1. toServer # <<>> => 1 \in DOMAIN toServer /\ Head(toServer) = toServer[1]
    BY SyncTypes, Shorter
  <2> QED
    BY <2>1 DEF ServerBind, regVars
<1>2. View' = View /\ RTypeOK
  BY <1>1, SyncTypes DEF View
<1>3. CASE Head(toServer).n \in bound
  <2>1. Head(toServer).n = registry /\ connected
    BY <1>3, OnlyProxy
  <2>2. registry \notin subs
    BY <1>1, <2>1 DEF StepInv, LineInv, ProxiesTold
  <2>3. ~Reached
    BY <2>1, <2>2 DEF Reached
  <2>4. PICK s \in Orders(server) :
          /\ Len(s) \in Nat /\ DOMAIN s = 1..Len(s)
          /\ Len(wire') = Len(wire) + Len(s)
          /\ \A i \in 1..Len(wire) : wire'[i] = wire[i]
          /\ \A i \in 1..Len(s) :
               wire'[Len(wire) + i] = Announce("add", s[i], Head(toServer).n)
    BY <1>2, <1>3, BindTells
  <2>5. wire' \in Seq(RegistryMessages) /\ Len(wire) \in Nat /\ DOMAIN wire = 1..Len(wire)
    BY <1>2, ServerBindType, LineType DEF StepInv, RTypeOK, CoreTypeOK
  <2>6. \A k \in DOMAIN wire' : wire'[k].kind = "done" => k \in DOMAIN wire /\ wire'[k] = wire[k]
    <3>1. \A k \in DOMAIN wire' :
            \/ k \in 1..Len(wire)
            \/ k - Len(wire) \in 1..Len(s) /\ Len(wire) + (k - Len(wire)) = k
      BY <2>4, <2>5
    <3>2. \A x : Announce("add", x, Head(toServer).n).kind = "add"
      BY DEF Announce
    <3>3. \A i \in 1..Len(s) : wire'[Len(wire) + i].kind = "add"
      BY <2>4, <3>2
    <3> QED
      BY <2>4, <2>5, <3>1, <3>3
  <2>7. StageWire(c)'
    BY <1>1, <2>1, <2>3, <2>6, Zenon DEF Stages, StageWire, Caught
  <2>8. StageQueue(c)'
    BY <1>1, <2>1, <2>3, Zenon DEF Stages, StageQueue, Caught
  <2>9. StageShown(c)'
    BY <1>1, <2>1, <2>3, Zenon DEF Stages, StageShown, Caught
  <2> QED
    BY <2>7, <2>8, <2>9 DEF Stages
<1>4. CASE Head(toServer).n \notin bound
  <2>1. subs' = subs /\ wire' = wire
    BY <1>4 DEF ServerBind
  <2>2. Reached' = Reached
    BY <1>1, <2>1 DEF Reached
  <2>3. InTransit' = InTransit
    BY <1>1, <2>1, SameTransit
  <2> QED
    BY <1>1, <1>2, <2>1, <2>2, <2>3, WireStages
<1> QED
  BY <1>3, <1>4

\* The connection is lost: the answer on the wire with it, but what has been
\* queued stays so, in its order.
LEMMA CutStages ==
  ASSUME SyncStep, Disconnects, NEW c, Stages(c), running
  PROVE  Stages(c)'
<1> USE DEF SyncStep
<1>1. /\ UNCHANGED <<mainq, generation, registry, running>> /\ wire' = <<>>
      /\ ~connected' /\ server' = server /\ globals' = globals
  BY DEF Disconnects
<1>2. View' = View /\ Reached' /\ Current' = Current /\ RTypeOK
  BY <1>1, SyncTypes DEF View, Reached, Current
<1> DEFINE a == Told(mainq, Current)
           w == Told(wire, Mine)[Len(wire)]
<1>3. /\ \A n \in 0..Len(mainq) : a[n] \in Seq(Announced)
      /\ w \in Seq(Announced)
      /\ Len(mainq) \in 0..Len(mainq) /\ DOMAIN mainq = 1..Len(mainq)
  <2>1. Len(wire) \in 0..Len(wire) /\ Len(mainq) \in 0..Len(mainq) /\ DOMAIN mainq = 1..Len(mainq)
    BY <1>2, LineType
  <2> QED
    BY <1>2, <2>1, LineToldType
<1>4. InTransit' = a[Len(mainq)]
  <2>1. Told(wire', Mine')[Len(wire')] = <<>>
    <3>1. Len(wire') = 0 /\ \A i \in 1..0 : i \notin Mine'
      BY <1>1
    <3>2. Len(wire') \in Nat /\ 0 \in 0..Len(wire')
      BY <3>1
    <3>3. Told(wire', Mine')[0] = <<>>
      BY <3>2, ToldDef
    <3> QED
      BY <3>1, <3>3
  <2>2. InTransit' = a[Len(mainq)] \o <<>>
    BY <1>1, <1>2, <2>1 DEF InTransit
  <2>3. a[Len(mainq)] \in Seq(Announced)
    BY <1>3
  <2> HIDE DEF a
  <2> QED
    BY <2>2, <2>3
<1>5. ASSUME NEW p \in Seq(Announced), NEW r \in Seq(Announced),
             a[Len(mainq)] = p \o r, CaughtBy(c, View, server, InTransit, p)
      PROVE  CaughtBy(c, View', server', InTransit', p)
  <2>1. InTransit = (p \o r) \o w
    BY <1>5 DEF InTransit
  <2> HIDE DEF w, a
  <2>2. CaughtBy(c, View, server, p \o r, p)
    BY <1>3, <1>5, <2>1, CaughtCut
  <2> QED
    BY <1>1, <1>2, <1>4, <1>5, <2>2
<1>6. StageWire(c)'
  BY <1>1 DEF StageWire
<1>7. StageQueue(c)'
  <2> SUFFICES ASSUME NEW k \in DOMAIN mainq,
                      mainq[k].kind = "token", mainq[k].n = c.n
               PROVE  CaughtBy(c, View', server', InTransit', a[k - 1])
    BY <1>1, <1>2, Zenon DEF StageQueue, Caught
  <2>1. CaughtBy(c, View, server, InTransit, a[k - 1])
    BY DEF Stages, StageQueue, Caught
  <2>2. k - 1 \in 0..Len(mainq)
    BY <1>3
  <2>3. \E r \in Seq(Announced) : a[Len(mainq)] = a[k - 1] \o r
    BY <1>2, <2>2, ToldLeads
  <2>4. a[k - 1] \in Seq(Announced)
    BY <1>3, <2>2
  <2> HIDE DEF a
  <2> QED
    BY <1>5, <2>1, <2>3, <2>4
<1>8. StageShown(c)'
  <2> SUFFICES ASSUME c.mdone
               PROVE  ShownBy(c, View', server') /\ CaughtBy(c, View', server', InTransit', <<>>)
    BY <1>2, Zenon DEF StageShown, Caught
  <2>1. ShownBy(c, View, server) /\ CaughtBy(c, View, server, InTransit, <<>>)
    BY DEF Stages, StageShown, Caught
  <2>2. <<>> \in Seq(Announced) /\ a[Len(mainq)] \in Seq(Announced)
    BY <1>3
  <2> HIDE DEF a
  <2>3. a[Len(mainq)] = <<>> \o a[Len(mainq)]
    BY <2>2
  <2> QED
    BY <1>1, <1>2, <1>5, <2>1, <2>2, <2>3
<1> QED
  BY <1>6, <1>7, <1>8 DEF Stages

\* A call of the session stays on its way, whatever the step.
LEMMA CallStages ==
  ASSUME SyncStep, CatchesUp', NEW c \in Calls(stack), Ours(c)'
  PROVE  Stages(c)'
<1> USE DEF SyncStep, SyncInv
<1>0. Marked(c)
  BY DEF CallsMarked, Ours
<1>1. lastReq \in Nat /\ serial \in Nat /\ c.n \in Nat /\ c.n <= lastReq
      /\ c.mark.upto \in Nat /\ c.mark.upto <= serial /\ c.mark.session < c.n
      /\ c.mark.session \in Nat /\ RTypeOK
  BY <1>0, SyncTypes DEF Marked, Marks
<1>2. ASSUME UNCHANGED <<registry, running>>
      PROVE  Ours(c) /\ Stages(c)
  <2>1. Ours(c)
    BY <1>2 DEF Ours
  <2> QED
    BY <2>1 DEF Staged
<1>3. CASE Opens \/ Fails \/ Clears \/ Ends
  <2>1. ~running'
    BY <1>3 DEF Opens, Fails, Clears, Ends, regVars
  <2> QED
    BY <2>1 DEF Ours
<1>4. CASE Begins
  <2>1. registry' = lastReq + 1
    BY <1>4 DEF Begins
  <2> QED
    BY <1>1, <2>1 DEF Ours
<1>5. CASE Disconnects
  <2>1. UNCHANGED <<registry, running>>
    BY <1>5 DEF Disconnects
  <2> QED
    BY <1>2, <1>5, <2>1, CutStages DEF Ours
<1>6. CASE Rests \/ Sends
  <2>1. /\ UNCHANGED <<mainq, generation, registry, connected>> /\ UNCHANGED <<registry, running>>
        /\ wire' = wire /\ server' = server /\ globals' = globals /\ subs' = subs
    BY <1>6 DEF Rests, Sends, regVars, serverVars
  <2>2. View' = View /\ Reached' = Reached
    BY <2>1 DEF View, Reached
  <2>3. InTransit' = InTransit
    BY <2>1, SameTransit
  <2> QED
    BY <1>1, <1>2, <2>1, <2>2, <2>3, WireStages
<1>7. CASE TakesToken \/ TakesEvent
  <2>1. UNCHANGED <<registry, running>>
    BY <1>7 DEF TakesToken, TakesEvent, regVars
  <2> QED
    BY <1>0, <1>2, <1>7, <2>1, DispatchStages DEF Ours
<1>8. CASE ReadsAnswer \/ ReadsNews
  <2>1. UNCHANGED <<registry, running>>
    BY <1>8 DEF ReadsAnswer, ReadsNews, regVars
  <2> QED
    BY <1>2, <1>8, <2>1, LoopStages
<1>9. CASE Answers
  <2>1. UNCHANGED <<registry, running>>
    BY <1>9 DEF Answers, regVars
  <2> QED
    BY <1>0, <1>2, <1>9, <2>1, AnswerStages
<1>10. CASE ServerBind \/ Keep(LinkBreaks)
  <2>1. UNCHANGED <<registry, running>>
    BY <1>10 DEF ServerBind, Keep, LinkBreaks, regVars
  <2> QED
    BY <1>2, <1>10, <2>1, BindStages, BreakStages
<1>11. ASSUME NEW id \in Ids, ServerAdd(id)
       PROVE  Stages(c)'
  <2> DEFINE g == [id |-> id, serial |-> serial + 1]
  <2>1. /\ \A h \in server : h.id # g.id
        /\ server' = server \cup {g} /\ Broadcast("add", g)
        /\ UNCHANGED <<link, mainq, regVars, subs, connected>> /\ UNCHANGED <<registry, running>>
    BY <1>11 DEF ServerAdd, regVars
  <2>2. g \in Global /\ g.serial > c.mark.upto
    BY <1>1 DEF Global
  <2>3. g \notin c.mark.have
    <3>1. \A h \in c.mark.have : h.serial <= c.mark.upto
      BY <1>0 DEF Marked
    <3>2. ~(g.serial <= c.mark.upto)
      BY <1>1
    <3> HIDE DEF g
    <3> QED
      BY <3>1, <3>2
  <2> HIDE DEF g
  <2>4. c.mark.have \cap server' \subseteq server
    BY <2>1, <2>3
  <2>5. \A h \in c.mark.have \cap server' : h.id # g.id
    BY <2>1, <2>4
  <2> QED
    BY <1>0, <1>2, <2>1, <2>2, <2>4, <2>5, ChangeStages
<1>12. ASSUME NEW g \in server, ServerRemove(g)
       PROVE  Stages(c)'
  <2>1. /\ server' = server \ {g} /\ Broadcast("remove", g)
        /\ UNCHANGED <<link, mainq, regVars, subs, connected>> /\ UNCHANGED <<registry, running>>
    BY <1>12 DEF ServerRemove, regVars
  <2>2. g \in Global /\ c.mark.have \cap server' \subseteq server
    BY <2>1, SyncTypes
  <2>3. \A h \in c.mark.have \cap server' : h.id # g.id
    BY <2>1 DEF CatchesUp
  <2> QED
    BY <1>0, <1>2, <2>1, <2>2, <2>3, ChangeStages
<1> QED
  BY <1>3, <1>4, <1>5, <1>6, <1>7, <1>8, <1>9, <1>10, <1>11, <1>12 DEF StepEffects

\* A call's promise moves along with its answer, at every step.
LEMMA StagedStep ==
  ASSUME SyncStep, CatchesUp'
  PROVE  Staged'
<1> USE DEF SyncStep, SyncInv
<1>1. ASSUME NEW c \in Calls(stack'), Ours(c)'
      PROVE  Stages(c)'
  <2>1. CASE c \in Calls(stack)
    BY <1>1, <2>1, CallStages
  <2>2. CASE c = NoCall
    BY <1>1, <2>2 DEF Ours
  <2>3. CASE Sends /\ c = NewCall
    <3>1. /\ wire' = wire /\ mainq' = mainq /\ c.n = lastReq + 1 /\ c.mdone = FALSE
          /\ lastReq \in Nat
      BY <2>3, SyncTypes DEF Sends, NewCall
    <3>2. c.n \notin 1..lastReq
      BY <3>1
    <3>3. StageWire(c)'
      BY <3>1, <3>2 DEF Answered, StageWire
    <3>4. StageQueue(c)'
      BY <3>1, <3>2 DEF Answered, StageQueue
    <3>5. StageShown(c)'
      BY <3>1 DEF StageShown
    <3> QED
      BY <3>3, <3>4, <3>5 DEF Stages
  <2>4. ASSUME TakesToken, NEW d \in Calls(stack), d.n = Head(mainq).n, c = Drained(d)
        PROVE  Stages(c)'
    <3>1. /\ c.n = d.n /\ c.mark = d.mark
      BY <2>4 DEF Drained
    <3>2. d # NoCall
      <4>1. /\ mainq # <<>> /\ Head(mainq).kind = "token" /\ Head(mainq) = mainq[1]
            /\ 1 \in DOMAIN mainq
        BY <2>4, SyncTypes, Shorter DEF TakesToken
      <4>2. d.n \in 1..lastReq
        BY <2>4, <4>1 DEF Answered
      <4> QED
        BY <4>2, SyncTypes DEF NoCall
    <3>3. running' = running /\ registry' = registry
      BY <2>4 DEF TakesToken, regVars
    <3>4. Ours(d) /\ Ours(d)'
      BY <1>1, <3>1, <3>2, <3>3 DEF Ours
    <3>5. Stages(d)
      BY <3>4 DEF Staged
    <3>6. Stages(d)'
      BY <3>4, CallStages
    <3>7. StageShown(c)'
      BY <2>4, <3>4, <3>5, DrainedStages
    <3>8. \A v, srv, all, p : CaughtBy(d, v, srv, all, p) => CaughtBy(c, v, srv, all, p)
      BY <3>1, Zenon DEF CaughtBy
    <3>9. StageWire(c)' /\ StageQueue(c)'
      BY <3>1, <3>6, <3>8, Zenon DEF Stages, StageWire, StageQueue, Caught
    <3> QED
      BY <3>7, <3>9 DEF Stages
  <2> QED
    BY <2>1, <2>2, <2>3, <2>4, CallsStep
<1> QED
  BY <1>1 DEF Staged

\* What a roundtrip promises, from the first state on.
LEMMA SyncInvariant ==
  ASSUME Settings
  PROVE  RSpec => []SyncInv
<1>1. RInit => SyncInv
  <2> SUFFICES ASSUME RInit PROVE SyncInv
    OBVIOUS
  <2>1. stack = <<>> /\ wire = <<>> /\ mainq = <<>> /\ running = FALSE
    BY DEF RInit, Init
  <2>2. Calls(stack) = {}
    BY <2>1 DEF Calls
  <2> QED
    BY <2>1, <2>2 DEF SyncInv, CallsMarked, Answered, BindIsComing, Staged
<1>2. StepInv /\ CatchesUp /\ CatchesUp' /\ SyncInv /\ [RNext]_vars => SyncInv'
  <2> SUFFICES ASSUME StepInv, CatchesUp, CatchesUp', SyncInv, [RNext]_vars
               PROVE  SyncInv'
    OBVIOUS
  <2>1. SyncStep
    BY StepInvSound, StepEffect DEF SyncStep
  <2> QED
    BY <2>1, CallsMarkedStep, AnsweredStep, BindIsComingStep, StagedStep DEF SyncInv
<1> QED
  BY <1>1, <1>2, StepInvariant, RegistryCatchesUp, PTL DEF RSpec

\* When sync() returns within one session, the list has every global of the
\* time of the call that still exists, and none that had gone by then: the
\* token of the answer is queued behind every announcement made before it.
THEOREM SyncShowsView ==
  ASSUME ~DefaultContext, "reconnect" \notin Reentry, ~Interrupts
  PROVE  RSpec => []SyncedView
<1>1. Settings
  BY DEF Settings
<1>2. SyncInv => SyncedView
  <2> SUFFICES ASSUME SyncInv, NEW i \in DOMAIN stack, stack[i].mdone, running,
                      stack[i].mark.session = registry
               PROVE  /\ \A g \in stack[i].mark.have \cap server :
                           \E x \in globals : x.serial = g.serial
                      /\ \A x \in globals : x.serial <= stack[i].mark.upto =>
                           \E g \in stack[i].mark.have : g.serial = x.serial
    BY DEF SyncedView
  <2> DEFINE c == Call(stack[i])
  <2>1. c \in Calls(stack) /\ c.mdone = stack[i].mdone /\ c.mark = stack[i].mark
    BY DEF Calls, Call
  <2> HIDE DEF c
  <2>2. c # NoCall
    <3>1. NoCall.mdone = FALSE
      BY DEF NoCall
    <3>2. ASSUME c = NoCall
          PROVE  stack[i].mdone = FALSE
      BY <2>1, <3>1, <3>2
    <3> QED
      BY <3>2
  <2>3. Stages(c)
    BY <2>1, <2>2 DEF SyncInv, Staged, Ours
  <2>4. ShownBy(c, View, server)
    BY <2>1, <2>3 DEF Stages, StageShown
  <2>5. ASSUME NEW g \in c.mark.have \cap server
        PROVE  \E x \in globals : x.serial = g.serial
    <3>1. g \in View
      BY <2>4 DEF ShownBy
    <3>2. PICK x \in globals : g = [id |-> x.id, serial |-> x.serial]
      BY <3>1 DEF View
    <3> QED
      BY <3>2
  <2>6. ASSUME NEW x \in globals, x.serial <= c.mark.upto
        PROVE  \E g \in c.mark.have : g.serial = x.serial
    <3> DEFINE g == [id |-> x.id, serial |-> x.serial]
    <3>1. g \in View /\ g.serial <= c.mark.upto /\ g.serial = x.serial
      BY <2>6 DEF View
    <3> QED
      BY <2>4, <3>1 DEF ShownBy
  <2> QED
    BY <2>1, <2>5, <2>6
<1> QED
  BY <1>1, <1>2, SyncInvariant, PTL
=============================================================================
