----------------------------- MODULE Discovery ------------------------------
(***************************************************************************)
(* What a registry promises its application, without threads, contexts or  *)
(* generations: during a session it shows a set of globals that lags       *)
(* behind the server's by a queue of announcements, applied in the order   *)
(* the server made them, none lost, none repeated, none of another         *)
(* session.  Registry is shown to implement this.                          *)
(***************************************************************************)
EXTENDS Integers, Sequences, FiniteSets

CONSTANTS Ids, Serials

VARIABLES
  server,    \* globals that exist
  open,      \* a session is established
  live,      \* and the server can still reach it
  view,      \* globals shown
  pending    \* announcements made and not yet applied

vars == <<server, open, live, view, pending>>

Global == [id : Ids, serial : Serials]
Announcement == [kind : {"add", "remove"}, g : Global]

Adding(g) == [kind |-> "add", g |-> g]
Removing(g) == [kind |-> "remove", g |-> g]

Init ==
  /\ server = {}
  /\ open = FALSE
  /\ live = FALSE
  /\ view = {}
  /\ pending = <<>>

Broadcast(a) == pending' = IF live THEN Append(pending, a) ELSE pending

\* A global of an id that no other has.
Add(g) ==
  /\ \A h \in server : h.id # g.id
  /\ server' = server \cup {g}
  /\ Broadcast(Adding(g))
  /\ UNCHANGED <<open, live, view>>

Remove(g) ==
  /\ g \in server
  /\ server' = server \ {g}
  /\ Broadcast(Removing(g))
  /\ UNCHANGED <<open, live, view>>

\* A session starts from nothing and is told of all that exists, in any order.
Orders(S) ==
  {s \in [1..Cardinality(S) -> S] : \A x \in S : \E i \in DOMAIN s : s[i] = x}

Open ==
  /\ ~open
  /\ view = {}
  /\ open' = TRUE
  /\ live' = TRUE
  /\ \E s \in Orders(server) : pending' = [i \in DOMAIN s |-> Adding(s[i])]
  /\ UNCHANGED <<server, view>>

\* An add replaces what the view had for the id; a remove goes by the id.
Applied(a) ==
  {h \in view : h.id # a.g.id} \cup (IF a.kind = "add" THEN {a.g} ELSE {})

Apply ==
  /\ open /\ pending # <<>>
  /\ view' = Applied(Head(pending))
  /\ pending' = Tail(pending)
  /\ UNCHANGED <<server, open, live>>

\* The server is lost: what it already announced still arrives.
Break ==
  /\ live
  /\ live' = FALSE
  /\ UNCHANGED <<server, open, view, pending>>

\* The end of a session discards what is pending; what it showed is cleared
\* then or a little later, never shown as part of another session.
Close ==
  /\ open
  /\ open' = FALSE
  /\ live' = FALSE
  /\ pending' = <<>>
  /\ view' \in {view, {}}
  /\ UNCHANGED server

\* While the application is still being told that the session has ended,
\* announcements that had already arrived may be applied: nothing is
\* promised of what shows from there until it is cleared.
Linger ==
  /\ ~open
  /\ \E a \in Announcement : view' = Applied(a)
  /\ UNCHANGED <<server, open, live, pending>>

Clear ==
  /\ ~open
  /\ view' = {}
  /\ UNCHANGED <<server, open, live, pending>>

Next ==
  \/ \E g \in Global : Add(g) \/ Remove(g)
  \/ Open \/ Apply \/ Break \/ Close \/ Linger \/ Clear

Spec == Init /\ [][Next]_vars

-----------------------------------------------------------------------------
TypeOK ==
  /\ server \subseteq Global
  /\ IsFiniteSet(server)
  /\ open \in BOOLEAN
  /\ live \in BOOLEAN
  /\ view \subseteq Global
  /\ pending \in Seq(Announcement)

Concerning(id) == {i \in DOMAIN pending : pending[i].g.id = id}

\* g is what the view has for its id once everything pending is applied:
\* the last announcement about the id adds it, or there is none and it shows.
Due(g) ==
  LET about == Concerning(g.id)
  IN  \/ about = {} /\ g \in view
      \/ \E i \in about : (\A j \in about : j <= i) /\ pending[i] = Adding(g)

\* The server keeps one global to an id.
OneToAnId == \A g, h \in server : g.id = h.id => g = h

\* In a live session the view, once it catches up, is exactly the server's
\* set of globals: nothing is missing for good and nothing stale stays.
Faithful == open /\ live => \A g \in Global : Due(g) <=> g \in server
=============================================================================
