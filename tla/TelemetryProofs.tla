--------------------------- MODULE TelemetryProofs ---------------------------
(***************************************************************************)
(* Proofs about Hub and Telemetry, for any number of subscribers, jobs and *)
(* messages, and any buffer size.                                          *)
(*                                                                         *)
(* The hub, with publishers that publish whatever they like.  The drop     *)
(* accounting is inductive together with two facts: a connection has       *)
(* something in hand (evs, lost) only between a drain and the end of the   *)
(* flush that follows, and a publisher that still has connections to serve *)
(* has an event for them.  That no event waits without a token is then a   *)
(* matter of mu.at, the connection whose signal is still to come.  The     *)
(* services implement that hub: the messages sent bound the counters, so   *)
(* every report they compute is one of its events.                         *)
(*                                                                         *)
(* The aggregator.  The counters follow every change of a.active (Tallied);*)
(* the messages that wait lead from what was handled to the farm           *)
(* (Agreement); at most one handler has a report to publish (Published).   *)
(*                                                                         *)
(* The hardware loop.  A status is published before its sample (Sources),  *)
(* and a client without drops knows the sticky status (Clients).           *)
(***************************************************************************)
EXTENDS Telemetry, FiniteSetTheorems, SequenceTheorems, WellFoundedInduction, TLAPS

\* Nothing is in hand outside of a flush.
HandsFree(x) == x.pc \notin {"write", "leave"} => x.evs = << >> /\ x.lost = 0

\* What one connection keeps, whoever takes the step.
ConnOK(x) == x \in Conn /\ Accounted(x) /\ HandsFree(x)

\* A publisher in its loop has an event.
LoopHasEvent == mu.todo # {} => mu.ev \in Events

HubInv ==
    /\ HubTypeOK
    /\ \A c \in Conns : ConnOK(conn[c])
    /\ LoopHasEvent
    /\ NoStalledEvents

-----------------------------------------------------------------------------
(* Steps of a single connection.                                           *)

LEMMA AppendNumbered ==
    ASSUME NEW s \in Seq(Packet), NEW k \in Nat, NEW p \in Packet,
           Numbered(s, k), p.n = k + Len(s) + 1
    PROVE  Numbered(Append(s, p), k) /\ Len(Append(s, p)) = Len(s) + 1
<1>1. Len(s) \in Nat /\ Len(Append(s, p)) = Len(s) + 1
  BY DEF Packet
<1>2. \A i \in 1..(Len(s) + 1) : Append(s, p)[i] = IF i <= Len(s) THEN s[i] ELSE p
  BY <1>1
<1>3. ASSUME NEW i \in 1..(Len(s) + 1) PROVE Append(s, p)[i].n = k + i
  <2>1. CASE i <= Len(s)
    BY <1>1, <1>2, <2>1 DEF Numbered
  <2>2. CASE i = Len(s) + 1
    BY <1>1, <1>2, <2>2
  <2> QED BY <1>1, <2>1, <2>2
<1> QED BY <1>1, <1>3 DEF Numbered

LEMMA TailNumbered ==
    ASSUME NEW s \in Seq(Packet), NEW k \in Nat, Numbered(s, k), s # << >>
    PROVE  /\ Tail(s) \in Seq(Packet) /\ Len(s) = Len(Tail(s)) + 1
           /\ Numbered(Tail(s), k + 1)
<1>1. /\ Tail(s) \in Seq(Packet) /\ Len(s) \in Nat /\ Len(Tail(s)) = Len(s) - 1
      /\ Len(Tail(s)) \in Nat
      /\ \A i \in 1..Len(Tail(s)) : Tail(s)[i] = s[i + 1]
  OBVIOUS
<1>2. \A i \in 1..Len(Tail(s)) : i + 1 \in 1..Len(s) /\ s[i + 1].n = k + (i + 1)
  BY <1>1 DEF Numbered
<1> QED BY <1>1, <1>2 DEF Numbered

\* The fields that push writes, and those it leaves alone.
Buffering(x, b, d, a) == [x EXCEPT !.buf = b, !.dropped = d, !.accepted = a]

SameButBuffer(y, x, b, d, a) ==
    /\ y \in Conn
    /\ y.buf = b /\ y.dropped = d /\ y.accepted = a
    /\ y.pc = x.pc /\ y.notify = x.notify /\ y.filter = x.filter
    /\ y.evs = x.evs /\ y.lost = x.lost
    /\ y.delivered = x.delivered /\ y.announced = x.announced

LEMMA BufferingFields ==
    ASSUME NEW x \in Conn, NEW b \in Seq(Packet), NEW d \in Nat, NEW a \in Nat
    PROVE  SameButBuffer(Buffering(x, b, d, a), x, b, d, a)
BY DEF Conn, Buffering, SameButBuffer

\* Conn.push: the event that is dropped is the one that is counted.
LEMMA PushedOK ==
    ASSUME NEW x, ConnOK(x), NEW ev \in Events
    PROVE  /\ ConnOK(Pushed(x, ev))
           /\ Pushed(x, ev).pc = x.pc /\ Pushed(x, ev).notify = x.notify
<1> DEFINE y     == Pushed(x, ev)
           p     == [ev |-> ev, n |-> x.accepted + 1]
           full  == Len(x.buf) >= BufSize
           kept  == IF full THEN Tail(x.buf) ELSE x.buf
           d     == IF full THEN x.dropped + 1 ELSE x.dropped
           first == x.delivered + x.announced + x.lost
           next  == first + Len(x.evs) + x.dropped
<1>1. x \in Conn /\ Accounted(x) /\ HandsFree(x)
  BY DEF ConnOK
<1>2. /\ x.buf \in Seq(Packet) /\ x.evs \in Seq(Packet)
      /\ x.accepted \in Nat /\ x.dropped \in Nat /\ x.lost \in Nat
      /\ x.delivered \in Nat /\ x.announced \in Nat
  BY <1>1 DEF Conn
<1>3. Len(x.buf) \in Nat /\ Len(x.evs) \in Nat
  <2>1. \A s \in Seq(Packet) : Len(s) \in Nat
    OBVIOUS
  <2> QED BY <1>2, <2>1
<1>4. first \in Nat /\ next \in Nat
  <2>1. \A a, b, c, e, f \in Nat : a + b + c \in Nat /\ a + b + c + e + f \in Nat
    OBVIOUS
  <2> QED BY <1>2, <1>3, <2>1
<1>5. /\ Numbered(x.evs, first) /\ Numbered(x.buf, next)
      /\ x.accepted = next + Len(x.buf)
  BY <1>1 DEF Accounted
<1>6. p \in Packet /\ p.n = x.accepted + 1
  BY <1>2 DEF Packet
<1> HIDE DEF next, first, p
<1>7. /\ kept \in Seq(Packet) /\ d \in Nat /\ Len(kept) \in Nat
      /\ Numbered(kept, next + (d - x.dropped))
      /\ x.accepted = next + (d - x.dropped) + Len(kept)
  <2>1. CASE full
    <3>1. x.buf # << >>
      BY <1>2, <2>1, HubAssumption
    <3>2. /\ Tail(x.buf) \in Seq(Packet) /\ Len(x.buf) = Len(Tail(x.buf)) + 1
          /\ Numbered(Tail(x.buf), next + 1)
      BY <1>2, <1>4, <1>5, <3>1, TailNumbered
    <3>3. kept = Tail(x.buf) /\ d = x.dropped + 1
      BY <2>1
    <3>4. Len(Tail(x.buf)) \in Nat
      <4>1. \A s \in Seq(Packet) : Len(s) \in Nat
        OBVIOUS
      <4> QED BY <3>2, <4>1
    <3>5. d - x.dropped = 1 /\ d \in Nat
      BY <3>3, <1>2
    <3> HIDE DEF kept, d
    <3>6. x.accepted = next + 1 + Len(kept)
      BY <1>3, <1>4, <1>5, <3>2, <3>3, <3>4
    <3> QED BY <3>2, <3>3, <3>4, <3>5, <3>6
  <2>2. CASE ~full
    <3>1. kept = x.buf /\ d = x.dropped /\ d - x.dropped = 0 /\ next + 0 = next
      BY <2>2, <1>2, <1>4
    <3> HIDE DEF kept, d
    <3> QED BY <1>2, <1>3, <1>5, <3>1
  <2> QED BY <2>1, <2>2
<1> DEFINE k == next + (d - x.dropped)
<1>8. k \in Nat /\ k = first + Len(x.evs) + d
  <2>1. d - x.dropped \in Nat /\ d = x.dropped + (d - x.dropped)
    BY <1>2
  <2>2. \A f, l, m, n \in Nat :
           n - m \in Nat => f + l + m + (n - m) = f + l + n /\ f + l + n \in Nat
    OBVIOUS
  <2>3. d \in Nat
    BY <1>7
  <2> HIDE DEF d
  <2>4. /\ first + Len(x.evs) + x.dropped + (d - x.dropped) = first + Len(x.evs) + d
        /\ first + Len(x.evs) + d \in Nat
    BY <1>2, <1>3, <1>4, <2>1, <2>2, <2>3
  <2> QED BY <2>4 DEF next
<1> HIDE DEF kept, d, k
<1>9. /\ Append(kept, p) \in Seq(Packet)
      /\ Numbered(Append(kept, p), k) /\ Len(Append(kept, p)) = Len(kept) + 1
  <2>1. Numbered(kept, k) /\ p.n = k + Len(kept) + 1
    BY <1>6, <1>7 DEF k
  <2>2. Append(kept, p) \in Seq(Packet)
    BY <1>6, <1>7
  <2> QED BY <1>6, <1>7, <1>8, <2>1, <2>2, AppendNumbered
<1>10. y = Buffering(x, Append(kept, p), d, x.accepted + 1)
  BY DEF Pushed, Buffering, kept, d, p
<1>11. x.accepted + 1 \in Nat
  BY <1>2
<1> HIDE DEF y
<1>12. /\ y \in Conn
       /\ y.buf = Append(kept, p) /\ y.dropped = d /\ y.accepted = x.accepted + 1
       /\ y.pc = x.pc /\ y.notify = x.notify
       /\ y.evs = x.evs /\ y.lost = x.lost
       /\ y.delivered = x.delivered /\ y.announced = x.announced
  <2>1. Append(kept, p) \in Seq(Packet) /\ d \in Nat
    BY <1>7, <1>9
  <2> HIDE DEF p
  <2> DEFINE b == Append(kept, p)
             a == x.accepted + 1
  <2>2. b \in Seq(Packet) /\ a \in Nat /\ y = Buffering(x, b, d, a)
    BY <1>10, <1>11, <2>1
  <2> HIDE DEF a, b
  <2>3. x \in Conn /\ d \in Nat
    BY <1>1, <2>1
  <2>4. SameButBuffer(y, x, b, d, a)
    BY <2>2, <2>3, BufferingFields
  <2> QED BY <2>4 DEF a, b, SameButBuffer
<1>13. Accounted(y)
  <2>1. Numbered(y.evs, y.delivered + y.announced + y.lost)
    BY <1>5, <1>12 DEF first
  <2>2. y.delivered + y.announced + y.lost + Len(y.evs) + y.dropped = k
    BY <1>8, <1>12 DEF first
  <2>3. Numbered(y.buf, k)
    BY <1>9, <1>12
  <2>4. y.accepted = k + Len(y.buf)
    <3>1. x.accepted = k + Len(kept)
      BY <1>7 DEF k
    <3>2. y.accepted = x.accepted + 1 /\ Len(y.buf) = Len(kept) + 1
      BY <1>9, <1>12
    <3>3. \A m, n \in Nat : (m + n) + 1 = m + (n + 1)
      OBVIOUS
    <3> QED BY <1>7, <1>8, <3>1, <3>2, <3>3
  <2> QED BY <2>1, <2>2, <2>3, <2>4 DEF Accounted
<1>14. HandsFree(y)
  BY <1>1, <1>12 DEF HandsFree
<1> QED BY <1>12, <1>13, <1>14 DEF ConnOK, y

\* A connection that moves on without touching what it has counted.
LEMMA AccountedSame ==
    ASSUME NEW x, NEW y, Accounted(x),
           y.buf = x.buf, y.dropped = x.dropped, y.evs = x.evs, y.lost = x.lost,
           y.accepted = x.accepted, y.delivered = x.delivered, y.announced = x.announced
    PROVE  Accounted(y)
BY DEF Accounted

\* Select, Leave, Signal and a drain that found nothing.
LEMMA MovesOK ==
    ASSUME NEW x, ConnOK(x)
    PROVE  /\ ConnOK([x EXCEPT !.notify = TRUE])
           /\ ConnOK([x EXCEPT !.pc = "leave"])
           /\ x.pc = "select" => ConnOK([x EXCEPT !.notify = FALSE, !.pc = "drain"])
           /\ x.pc = "drain" => ConnOK([x EXCEPT !.pc = "select"])
<1> DEFINE s == [x EXCEPT !.notify = TRUE]
           l == [x EXCEPT !.pc = "leave"]
           d == [x EXCEPT !.notify = FALSE, !.pc = "drain"]
           e == [x EXCEPT !.pc = "select"]
<1>1. x \in Conn /\ Accounted(x) /\ HandsFree(x)
  BY DEF ConnOK
<1>2. /\ s \in Conn /\ s.pc = x.pc /\ l \in Conn /\ l.pc = "leave"
      /\ d \in Conn /\ d.pc = "drain" /\ e \in Conn /\ e.pc = "select"
  BY <1>1 DEF Conn
<1>3. \A y \in {s, l, d, e} :
         /\ y.buf = x.buf /\ y.dropped = x.dropped /\ y.evs = x.evs /\ y.lost = x.lost
         /\ y.accepted = x.accepted /\ y.delivered = x.delivered /\ y.announced = x.announced
  BY <1>1 DEF Conn
<1> HIDE DEF s, l, d, e
<1>4. \A y \in {s, l, d, e} : Accounted(y)
  BY <1>1, <1>3, AccountedSame
<1>5. HandsFree(s) /\ HandsFree(l)
  BY <1>1, <1>2, <1>3 DEF HandsFree
<1>6. x.pc = "select" => HandsFree(d)
  BY <1>1, <1>2, <1>3 DEF HandsFree
<1>7. x.pc = "drain" => HandsFree(e)
  BY <1>1, <1>2, <1>3 DEF HandsFree
<1>8. ConnOK(s) /\ ConnOK(l) /\ (x.pc = "select" => ConnOK(d)) /\ (x.pc = "drain" => ConnOK(e))
  BY <1>2, <1>4, <1>5, <1>6, <1>7 DEF ConnOK
<1> QED BY <1>8 DEF s, l, d, e

\* Conn.Drain: the buffer and its drop count change hands together.
LEMMA DrainOK ==
    ASSUME NEW x, ConnOK(x), x.pc = "drain"
    PROVE  ConnOK([x EXCEPT !.pc = "write", !.evs = x.buf, !.lost = x.dropped,
                            !.buf = << >>, !.dropped = 0])
<1> DEFINE y == [x EXCEPT !.pc = "write", !.evs = x.buf, !.lost = x.dropped,
                          !.buf = << >>, !.dropped = 0]
           said == x.delivered + x.announced
<1>1. x \in Conn /\ Accounted(x) /\ x.evs = << >> /\ x.lost = 0
  BY DEF ConnOK, HandsFree
<1>2. /\ x.buf \in Seq(Packet) /\ x.dropped \in Nat
      /\ x.delivered \in Nat /\ x.announced \in Nat
  BY <1>1 DEF Conn
<1>3. /\ y \in Conn /\ y.pc = "write" /\ y.evs = x.buf /\ y.lost = x.dropped
      /\ y.buf = << >> /\ y.dropped = 0 /\ y.accepted = x.accepted
      /\ y.delivered = x.delivered /\ y.announced = x.announced
  BY <1>1 DEF Conn
<1> HIDE DEF y
<1>4. said \in Nat /\ Len(x.buf) \in Nat
  <2>1. \A s \in Seq(Packet) : Len(s) \in Nat
    OBVIOUS
  <2> QED BY <1>2, <2>1
<1>5. /\ Numbered(x.buf, said + 0 + Len(<< >>) + x.dropped)
      /\ x.accepted = said + 0 + Len(<< >>) + x.dropped + Len(x.buf)
  BY <1>1 DEF Accounted
<1>6. said + 0 + Len(<< >>) + x.dropped = said + x.dropped
  <2>1. \A m, n \in Nat : m + 0 + 0 + n = m + n
    OBVIOUS
  <2>2. Len(<< >>) = 0
    OBVIOUS
  <2> QED BY <1>2, <1>4, <2>1, <2>2
<1>7. Accounted(y)
  <2>1. Numbered(y.evs, y.delivered + y.announced + y.lost)
    BY <1>3, <1>5, <1>6
  <2>2. Numbered(y.buf, y.delivered + y.announced + y.lost + Len(y.evs) + y.dropped)
    <3>1. Len(y.buf) = 0
      BY <1>3
    <3> QED BY <3>1 DEF Numbered
  <2>3. y.accepted = y.delivered + y.announced + y.lost + Len(y.evs) + y.dropped + Len(y.buf)
    <3>1. x.accepted = said + x.dropped + Len(x.buf)
      BY <1>5, <1>6
    <3>2. \A m, n \in Nat : m + n = m + n + 0 + 0
      OBVIOUS
    <3>3. said + x.dropped \in Nat
      BY <1>2, <1>4
    <3>4. said + x.dropped + Len(x.buf) = said + x.dropped + Len(x.buf) + 0 + 0
      BY <1>4, <3>2, <3>3
    <3>5. Len(y.buf) = 0
      BY <1>3
    <3> QED BY <1>3, <3>1, <3>4, <3>5
  <2> QED BY <2>1, <2>2, <2>3 DEF Accounted
<1>8. ConnOK(y)
  BY <1>3, <1>7 DEF ConnOK, HandsFree
<1> QED BY <1>8 DEF y

\* The flush: what was in hand has been told.
LEMMA FlushOK ==
    ASSUME NEW x, ConnOK(x)
    PROVE  ConnOK([x EXCEPT !.pc = "drain", !.evs = << >>, !.lost = 0,
                            !.delivered = x.delivered + Len(x.evs),
                            !.announced = x.announced + x.lost])
<1> DEFINE e == x.delivered + Len(x.evs)
           n == x.announced + x.lost
           y == [x EXCEPT !.pc = "drain", !.evs = << >>, !.lost = 0,
                          !.delivered = e, !.announced = n]
           k == x.delivered + x.announced + x.lost + Len(x.evs) + x.dropped
<1>1. x \in Conn /\ Accounted(x)
  BY DEF ConnOK
<1>2. /\ x.evs \in Seq(Packet) /\ x.dropped \in Nat /\ x.lost \in Nat
      /\ x.delivered \in Nat /\ x.announced \in Nat /\ x.accepted \in Nat
  BY <1>1 DEF Conn
<1>3. Len(x.evs) \in Nat
  <2>1. \A s \in Seq(Packet) : Len(s) \in Nat
    OBVIOUS
  <2> QED BY <1>2, <2>1
<1>4. e \in Nat /\ n \in Nat
  BY <1>2, <1>3
<1>5. e + n + 0 + Len(<< >>) + x.dropped = k
  <2>1. \A d, a, l, m, r \in Nat : (d + m) + (a + l) + 0 + 0 + r = d + a + l + m + r
    OBVIOUS
  <2>2. Len(<< >>) = 0
    OBVIOUS
  <2> QED BY <1>2, <1>3, <2>1, <2>2
<1>6. Numbered(x.buf, k) /\ x.accepted = k + Len(x.buf)
  BY <1>1 DEF Accounted
<1> HIDE DEF e, n, k
<1>7. /\ y \in Conn /\ y.pc = "drain" /\ y.evs = << >> /\ y.lost = 0
      /\ y.buf = x.buf /\ y.dropped = x.dropped /\ y.accepted = x.accepted
      /\ y.delivered = e /\ y.announced = n
  <2>1. << >> \in Seq(Packet)
    OBVIOUS
  <2>2. /\ y.pc = "drain" /\ y.evs = << >> /\ y.lost = 0
        /\ y.buf = x.buf /\ y.dropped = x.dropped /\ y.accepted = x.accepted
        /\ y.delivered = e /\ y.announced = n
    BY <1>1 DEF Conn
  <2>3. y \in Conn
    BY <1>1, <1>4, <2>1 DEF Conn
  <2> QED BY <2>2, <2>3
<1> HIDE DEF y
<1>8. Accounted(y)
  <2>1. Numbered(y.evs, y.delivered + y.announced + y.lost)
    <3>1. Len(y.evs) = 0
      BY <1>7
    <3> QED BY <3>1 DEF Numbered
  <2>2. y.delivered + y.announced + y.lost + Len(y.evs) + y.dropped = k
    BY <1>5, <1>7
  <2> QED BY <1>6, <1>7, <2>1, <2>2 DEF Accounted
<1>9. ConnOK(y)
  BY <1>7, <1>8 DEF ConnOK, HandsFree
<1> QED BY <1>9 DEF y, e, n

\* Subscribe, before the sticky event is pushed.
LEMMA NewOK ==
    ASSUME NEW f \in Tags \cup {None}
    PROVE  ConnOK(NoConn) /\ ConnOK([NoConn EXCEPT !.pc = "select", !.filter = f])
<1> DEFINE y == [NoConn EXCEPT !.pc = "select", !.filter = f]
<1>1. << >> \in Seq(Packet) /\ Len(<< >>) = 0
  OBVIOUS
<1>2. /\ NoConn \in Conn /\ NoConn.pc = "off" /\ NoConn.evs = << >> /\ NoConn.lost = 0
      /\ NoConn.buf = << >> /\ NoConn.dropped = 0 /\ NoConn.accepted = 0
      /\ NoConn.delivered = 0 /\ NoConn.announced = 0
  BY <1>1 DEF NoConn, Conn
<1>3. /\ y \in Conn /\ y.pc = "select" /\ y.evs = << >> /\ y.lost = 0
      /\ y.buf = << >> /\ y.dropped = 0 /\ y.accepted = 0
      /\ y.delivered = 0 /\ y.announced = 0
  BY <1>2 DEF Conn
<1> HIDE DEF y
<1>4. Accounted(NoConn) /\ HandsFree(NoConn)
  BY <1>1, <1>2 DEF Accounted, HandsFree, Numbered
<1>5. Accounted(y) /\ HandsFree(y)
  BY <1>1, <1>3 DEF Accounted, HandsFree, Numbered
<1>6. ConnOK(NoConn) /\ ConnOK(y)
  BY <1>2, <1>3, <1>4, <1>5 DEF ConnOK
<1> QED BY <1>6 DEF y

-----------------------------------------------------------------------------
(* Every step keeps the invariant.                                         *)

\* A step that replaces one connection.
LEMMA ConnStep ==
    ASSUME HubInv, NEW c \in Conns, NEW y, ConnOK(y), conn' = [conn EXCEPT ![c] = y]
    PROVE  /\ conn' \in [Conns -> Conn]
           /\ \A d \in Conns : ConnOK(conn'[d])
           /\ conn'[c] = y
           /\ \A d \in Conns : d # c => conn'[d] = conn[d]
<1>1. conn \in [Conns -> Conn] /\ \A d \in Conns : ConnOK(conn[d])
  BY DEF HubInv, HubTypeOK
<1>2. y \in Conn
  BY DEF ConnOK
<1>3. /\ conn' \in [Conns -> Conn] /\ conn'[c] = y
      /\ \A d \in Conns : d # c => conn'[d] = conn[d]
  BY <1>1, <1>2
<1>4. \A d \in Conns : ConnOK(conn'[d])
  <2> TAKE d \in Conns
  <2>1. CASE d = c
    BY <1>3, <2>1
  <2>2. CASE d # c
    BY <1>1, <1>3, <2>2
  <2> QED BY <2>1, <2>2
<1> QED BY <1>3, <1>4

LEMMA InitInv == HubInit => HubInv
<1> SUFFICES ASSUME HubInit PROVE HubInv
  OBVIOUS
<1>1. ConnOK(NoConn) /\ NoConn \in Conn /\ NoConn.pc = "off"
  <2>1. None \in Tags \cup {None}
    OBVIOUS
  <2>2. ConnOK(NoConn)
    BY <2>1, NewOK
  <2>3. NoConn.pc = "off"
    BY DEF NoConn
  <2> QED BY <2>2, <2>3 DEF ConnOK
<1>2. HubTypeOK
  <2>1. Free \in Mu
    BY DEF Free, Mu
  <2>2. work \in [Publishers -> Seq(Offer)]
    BY DEF HubInit
  <2> QED BY <1>1, <2>1, <2>2 DEF HubInit, HubTypeOK
<1>3. \A c \in Conns : ConnOK(conn[c])
  BY <1>1 DEF HubInit
<1>4. LoopHasEvent
  BY DEF HubInit, Free, LoopHasEvent
<1>5. NoStalledEvents
  BY <1>1 DEF HubInit, NoStalledEvents
<1> QED BY <1>2, <1>3, <1>4, <1>5 DEF HubInv

\* Steps of a publisher that leave the connections alone.
LEMMA PublisherInv ==
    ASSUME HubInv, NEW p \in Publishers,
           Lock(p) \/ Unlock(p) \/ \E offers \in Seq(Offer) : Compute(p, offers)
    PROVE  HubInv'
<1>1. /\ HubTypeOK /\ LoopHasEvent /\ NoStalledEvents
      /\ \A c \in Conns : ConnOK(conn[c])
  BY DEF HubInv
<1>2. conn' = conn /\ conns' = conns
  BY DEF Lock, Unlock, Compute
<1>3. (\A c \in Conns : ConnOK(conn[c]))'
  BY <1>1, <1>2
<1>4. /\ mu' \in Mu /\ mu'.at = mu.at
      /\ mu'.todo # {} => mu'.ev \in Events
      /\ sticky' \in Events \cup {None} /\ work' \in [Publishers -> Seq(Offer)]
  <2>1. CASE Lock(p)
    <3> DEFINE o == Head(work[p])
    <3>1. work[p] \in Seq(Offer) /\ work[p] # << >>
      BY <1>1, <2>1 DEF HubTypeOK, Lock
    <3>2. o \in Offer /\ Tail(work[p]) \in Seq(Offer)
      BY <3>1
    <3>3. o.ev \in Events
      BY <3>2 DEF Offer
    <3>4. /\ mu = Free
          /\ mu' = [by |-> p, ev |-> o.ev, todo |-> conns, at |-> None]
          /\ sticky' = IF o.keep THEN o.ev ELSE sticky
          /\ work' = [work EXCEPT ![p] = Tail(work[p])]
      BY <2>1 DEF Lock
    <3> HIDE DEF o
    <3>5. mu' \in Mu /\ mu'.at = None /\ mu.at = None /\ mu'.ev \in Events
      BY <1>1, <3>3, <3>4 DEF HubTypeOK, Mu, Free
    <3>6. sticky' \in Events \cup {None}
      BY <1>1, <3>3, <3>4 DEF HubTypeOK
    <3>7. work' \in [Publishers -> Seq(Offer)]
      BY <1>1, <3>2, <3>4 DEF HubTypeOK
    <3> QED BY <3>5, <3>6, <3>7
  <2>2. CASE Unlock(p)
    <3>1. mu' = Free /\ mu.at = None /\ sticky' = sticky /\ work' = work
      BY <2>2 DEF Unlock
    <3>2. Free \in Mu /\ Free.at = None /\ Free.todo = {}
      BY DEF Free, Mu
    <3> QED BY <1>1, <3>1, <3>2 DEF HubTypeOK
  <2>3. CASE \E offers \in Seq(Offer) : Compute(p, offers)
    <3>1. mu' = mu /\ sticky' = sticky /\ work' \in [Publishers -> Seq(Offer)]
      BY <1>1, <2>3 DEF Compute, HubTypeOK
    <3> QED BY <1>1, <3>1 DEF HubTypeOK, LoopHasEvent
  <2> QED BY <2>1, <2>2, <2>3
<1>5. HubTypeOK'
  BY <1>1, <1>2, <1>4 DEF HubTypeOK
<1>6. LoopHasEvent'
  BY <1>4 DEF LoopHasEvent
<1>7. NoStalledEvents'
  BY <1>1, <1>2, <1>4 DEF NoStalledEvents
<1> QED BY <1>3, <1>5, <1>6, <1>7 DEF HubInv

LEMMA PushInv ==
    ASSUME HubInv, NEW c \in Conns, Push(c)
    PROVE  HubInv'
<1>1. /\ HubTypeOK /\ LoopHasEvent /\ NoStalledEvents
      /\ \A d \in Conns : ConnOK(conn[d])
  BY DEF HubInv
<1>2. /\ mu \in Mu /\ mu.ev \in Events /\ mu.at = None
  BY <1>1 DEF Push, HubTypeOK, LoopHasEvent
<1>3. /\ conns' = conns /\ sticky' = sticky /\ work' = work
      /\ mu' = [mu EXCEPT !.todo = mu.todo \ {c}, !.at = IF Accepts(c, mu.ev) THEN c ELSE None]
  BY DEF Push
<1>4. mu' \in Mu /\ mu'.ev = mu.ev /\ mu'.at = IF Accepts(c, mu.ev) THEN c ELSE None
  <2> DEFINE at == IF Accepts(c, mu.ev) THEN c ELSE None
  <2>1. at \in Conns \cup {None}
    OBVIOUS
  <2>2. mu' = [mu EXCEPT !.todo = mu.todo \ {c}, !.at = at]
    BY <1>3
  <2> HIDE DEF at
  <2>3. mu' \in Mu /\ mu'.ev = mu.ev /\ mu'.at = at
    BY <1>2, <2>1, <2>2 DEF Mu
  <2> QED BY <2>3 DEF at
<1>5. LoopHasEvent'
  BY <1>2, <1>4 DEF LoopHasEvent
<1>6. CASE Accepts(c, mu.ev)
  <2> DEFINE y == Pushed(conn[c], mu.ev)
  <2>1. conn' = [conn EXCEPT ![c] = y] /\ mu'.at = c
    BY <1>4, <1>6 DEF Push
  <2>2. ConnOK(y)
    BY <1>1, <1>2, PushedOK
  <2> HIDE DEF y
  <2>3. /\ conn' \in [Conns -> Conn] /\ \A d \in Conns : ConnOK(conn'[d])
        /\ \A d \in Conns : d # c => conn'[d] = conn[d]
    BY <2>1, <2>2, ConnStep
  <2>4. HubTypeOK'
    BY <1>1, <1>3, <1>4, <2>3 DEF HubTypeOK
  <2>5. NoStalledEvents'
    BY <1>1, <1>2, <2>1, <2>3, HubAssumption DEF NoStalledEvents
  <2> QED BY <1>5, <2>3, <2>4, <2>5 DEF HubInv
<1>7. CASE ~Accepts(c, mu.ev)
  <2>1. conn' = conn /\ mu'.at = None
    BY <1>4, <1>7 DEF Push
  <2>2. HubTypeOK'
    BY <1>1, <1>3, <1>4, <2>1 DEF HubTypeOK
  <2>3. NoStalledEvents'
    BY <1>1, <1>2, <2>1 DEF NoStalledEvents
  <2>4. (\A d \in Conns : ConnOK(conn[d]))'
    BY <1>1, <2>1
  <2> QED BY <1>5, <2>2, <2>3, <2>4 DEF HubInv
<1> QED BY <1>6, <1>7

LEMMA SignalInv ==
    ASSUME HubInv, NEW c \in Conns, Signal(c)
    PROVE  HubInv'
<1> DEFINE y == [conn[c] EXCEPT !.notify = TRUE]
<1>1. /\ HubTypeOK /\ LoopHasEvent /\ NoStalledEvents /\ ConnOK(conn[c]) /\ mu \in Mu
      /\ conn[c] \in Conn
  BY DEF HubInv, HubTypeOK
<1>2. /\ conns' = conns /\ sticky' = sticky /\ work' = work /\ mu.at = c
      /\ mu' = [mu EXCEPT !.at = None] /\ conn' = [conn EXCEPT ![c] = y]
  BY DEF Signal
<1>3. ConnOK(y) /\ y.notify
  <2>1. y.notify
    BY <1>1 DEF Conn
  <2> QED BY <1>1, <2>1, MovesOK
<1> HIDE DEF y
<1>4. /\ conn' \in [Conns -> Conn] /\ \A d \in Conns : ConnOK(conn'[d])
      /\ conn'[c] = y /\ \A d \in Conns : d # c => conn'[d] = conn[d]
  BY <1>2, <1>3, ConnStep
<1>5. mu' \in Mu /\ mu'.at = None /\ mu'.todo = mu.todo /\ mu'.ev = mu.ev
  BY <1>1, <1>2 DEF Mu
<1>6. HubTypeOK' /\ LoopHasEvent'
  BY <1>1, <1>2, <1>4, <1>5 DEF HubTypeOK, LoopHasEvent
<1>7. NoStalledEvents'
  BY <1>1, <1>2, <1>3, <1>4 DEF NoStalledEvents
<1> QED BY <1>4, <1>6, <1>7 DEF HubInv

\* A step of the goroutine that serves c.
LEMMA ServingInv ==
    ASSUME HubInv, NEW c \in Conns, NEW y, ConnOK(y), conn' = [conn EXCEPT ![c] = y],
           UNCHANGED <<sticky, mu, work>>, conns' \subseteq Conns,
           y.pc = "select" /\ y.buf # << >> => y.notify
    PROVE  HubInv'
<1>1. HubTypeOK /\ LoopHasEvent /\ NoStalledEvents
  BY DEF HubInv
<1>2. /\ conn' \in [Conns -> Conn] /\ \A d \in Conns : ConnOK(conn'[d])
      /\ conn'[c] = y /\ \A d \in Conns : d # c => conn'[d] = conn[d]
  BY ConnStep
<1>3. HubTypeOK' /\ LoopHasEvent'
  BY <1>1, <1>2 DEF HubTypeOK, LoopHasEvent
<1>4. NoStalledEvents'
  BY <1>1, <1>2 DEF NoStalledEvents
<1> QED BY <1>2, <1>3, <1>4 DEF HubInv

LEMMA SubscribeInv ==
    ASSUME HubInv, NEW c \in Conns, NEW f \in Tags \cup {None}, Subscribe(c, f)
    PROVE  HubInv'
<1> DEFINE new == [NoConn EXCEPT !.pc = "select", !.filter = f]
           full == [Pushed(new, sticky) EXCEPT !.notify = TRUE]
<1>1. ConnOK(new) /\ new.buf = << >>
  <2>1. new.buf = << >>
    BY DEF NoConn
  <2> QED BY <2>1, NewOK
<1>2. /\ UNCHANGED <<sticky, mu, work>> /\ conns' \subseteq Conns
      /\ sticky \in Events \cup {None}
  BY DEF Subscribe, HubInv, HubTypeOK
<1>3. CASE sticky # None /\ (f = None \/ sticky.tag = f)
  <2>1. conn' = [conn EXCEPT ![c] = full] /\ sticky \in Events
    BY <1>2, <1>3 DEF Subscribe
  <2> HIDE DEF new
  <2> DEFINE q == Pushed(new, sticky)
  <2>2. ConnOK(q)
    BY <1>1, <2>1, PushedOK
  <2> HIDE DEF q
  <2>3. ConnOK([q EXCEPT !.notify = TRUE])
    BY <2>2, MovesOK
  <2>4. [q EXCEPT !.notify = TRUE].notify
    BY <2>2 DEF ConnOK, Conn
  <2> QED BY <1>2, <2>1, <2>3, <2>4, ServingInv DEF q
<1>4. CASE ~(sticky # None /\ (f = None \/ sticky.tag = f))
  <2>1. conn' = [conn EXCEPT ![c] = new]
    BY <1>4 DEF Subscribe
  <2> HIDE DEF new
  <2> QED BY <1>1, <1>2, <2>1, ServingInv
<1> QED BY <1>3, <1>4

LEMMA LoopInv ==
    ASSUME HubInv, NEW c \in Conns, Serving(c) \/ Flush(c)
    PROVE  HubInv'
<1> DEFINE x == conn[c]
<1>1. ConnOK(x) /\ x \in Conn
  BY DEF HubInv, ConnOK
<1>2. UNCHANGED <<sticky, mu, work>> /\ conns' \subseteq Conns
  BY DEF Serving, Select, Drain, Leave, Unsubscribe, Flush, HubInv, HubTypeOK
<1>3. CASE Select(c)
  <2> DEFINE y == [x EXCEPT !.notify = FALSE, !.pc = "drain"]
  <2>1. conn' = [conn EXCEPT ![c] = y] /\ x.pc = "select"
    BY <1>3 DEF Select
  <2>2. y.pc = "drain"
    BY <1>1 DEF Conn
  <2>3. ConnOK(y)
    BY <1>1, <2>1, MovesOK
  <2> HIDE DEF y
  <2> QED BY <1>2, <2>1, <2>2, <2>3, ServingInv
<1>4. CASE Drain(c)
  <2>1. x.pc = "drain"
    BY <1>4 DEF Drain
  <2>2. CASE x.dropped = 0 /\ x.buf = << >>
    <3> DEFINE y == [x EXCEPT !.pc = "select"]
    <3>1. conn' = [conn EXCEPT ![c] = y]
      BY <1>4, <2>2 DEF Drain
    <3>2. y.buf = << >>
      BY <1>1, <2>2 DEF Conn
    <3>3. ConnOK(y)
      BY <1>1, <2>1, MovesOK
    <3> HIDE DEF y
    <3> QED BY <1>2, <3>1, <3>2, <3>3, ServingInv
  <2>3. CASE ~(x.dropped = 0 /\ x.buf = << >>)
    <3> DEFINE y == [x EXCEPT !.pc = "write", !.evs = x.buf, !.lost = x.dropped,
                              !.buf = << >>, !.dropped = 0]
    <3>1. conn' = [conn EXCEPT ![c] = y]
      BY <1>4, <2>3 DEF Drain
    <3>2. y.buf = << >>
      BY <1>1 DEF Conn
    <3>3. ConnOK(y)
      BY <1>1, <2>1, DrainOK
    <3> HIDE DEF y
    <3> QED BY <1>2, <3>1, <3>2, <3>3, ServingInv
  <2> QED BY <2>2, <2>3
<1>5. CASE Flush(c)
  <2> DEFINE y == [x EXCEPT !.pc = "drain", !.evs = << >>, !.lost = 0,
                            !.delivered = x.delivered + Len(x.evs),
                            !.announced = x.announced + x.lost]
  <2>1. conn' = [conn EXCEPT ![c] = y]
    BY <1>5 DEF Flush
  <2>2. y.pc = "drain"
    BY <1>1 DEF Conn
  <2>3. ConnOK(y)
    BY <1>1, FlushOK
  <2> HIDE DEF y
  <2> QED BY <1>2, <2>1, <2>2, <2>3, ServingInv
<1>6. CASE Leave(c)
  <2> DEFINE y == [x EXCEPT !.pc = "leave"]
  <2>1. conn' = [conn EXCEPT ![c] = y]
    BY <1>6 DEF Leave
  <2>2. y.pc = "leave"
    BY <1>1 DEF Conn
  <2>3. ConnOK(y)
    BY <1>1, MovesOK
  <2> HIDE DEF y
  <2> QED BY <1>2, <2>1, <2>2, <2>3, ServingInv
<1>7. CASE Unsubscribe(c)
  <2>1. conn' = [conn EXCEPT ![c] = NoConn]
    BY <1>7 DEF Unsubscribe
  <2>2. NoConn.pc = "off"
    BY DEF NoConn
  <2>3. ConnOK(NoConn)
    <3>1. None \in Tags \cup {None}
      OBVIOUS
    <3> QED BY <3>1, NewOK
  <2> QED BY <1>2, <2>1, <2>2, <2>3, ServingInv
<1> QED BY <1>3, <1>4, <1>5, <1>6, <1>7 DEF Serving

LEMMA StepInv == HubInv /\ [HubNext]_hubVars => HubInv'
<1> SUFFICES ASSUME HubInv, [HubNext]_hubVars PROVE HubInv'
  OBVIOUS
<1>1. CASE \E p \in Publishers, offers \in Seq(Offer) : Compute(p, offers)
  BY <1>1, PublisherInv
<1>2. CASE Publishing
  <2>1. CASE \E p \in Publishers : Lock(p) \/ Unlock(p)
    BY <2>1, PublisherInv
  <2>2. CASE \E c \in Conns : Push(c) \/ Signal(c)
    BY <2>2, PushInv, SignalInv
  <2> QED BY <1>2, <2>1, <2>2 DEF Publishing
<1>3. CASE \E c \in Conns : \/ \E f \in Tags \cup {None} : Subscribe(c, f)
                            \/ Serving(c) \/ Flush(c)
  <2> PICK c \in Conns : \/ \E f \in Tags \cup {None} : Subscribe(c, f)
                         \/ Serving(c) \/ Flush(c)
    BY <1>3
  <2>1. CASE \E f \in Tags \cup {None} : Subscribe(c, f)
    BY <2>1, SubscribeInv
  <2>2. CASE Serving(c) \/ Flush(c)
    BY <2>2, LoopInv
  <2> QED BY <2>1, <2>2
<1>4. CASE UNCHANGED hubVars
  <2>1. /\ conns' = conns /\ sticky' = sticky /\ mu' = mu /\ work' = work /\ conn' = conn
    BY <1>4 DEF hubVars
  <2>2. HubTypeOK'
    BY <2>1 DEF HubInv, HubTypeOK
  <2>3. LoopHasEvent' /\ NoStalledEvents'
    BY <2>1 DEF HubInv, LoopHasEvent, NoStalledEvents
  <2>4. (\A c \in Conns : ConnOK(conn[c]))'
    BY <2>1 DEF HubInv
  <2> QED BY <2>2, <2>3, <2>4 DEF HubInv
<1> QED BY <1>1, <1>2, <1>3, <1>4 DEF HubNext

\* Hub.Publish, Conn.push and Conn.Drain under every interleaving: a subscriber
\* can always number the next event it will get from what it has been sent,
\* whatever the buffer size and whoever publishes.
THEOREM NoSilentLoss == HubSpec => []LossIsAccounted
<1>1. HubInv => LossIsAccounted
  BY DEF HubInv, ConnOK, LossIsAccounted
<1> QED BY <1>1, InitInv, StepInv, PTL DEF HubSpec

\* The notify channel of capacity one loses no wake-up: a connection that is
\* back at its select with buffered events has a token, or is about to get one.
THEOREM NoStall == HubSpec => []NoStalledEvents
<1>1. HubInv => NoStalledEvents
  BY DEF HubInv
<1> QED BY <1>1, InitInv, StepInv, PTL DEF HubSpec

-----------------------------------------------------------------------------
(***************************************************************************)
(* The farm.  The counters are exact, so none is taken below zero, and the *)
(* messages that were sent bound them: what the services publish are       *)
(* events of the hub.                                                      *)
(***************************************************************************)
Counts   == [queued : Nat, inFlight : Nat, completed : Nat, failed : Nat]
Entries  == {"queued", "running", None}
In(a, v) == {j \in Jobs : a[j] = v}
Expected(s) == IF s \in {"queued", "running"} THEN s ELSE None

FarmTypeOK ==
    /\ stream \in Streams
    /\ phase \in [Jobs -> States \cup {None}]
    /\ queue \in [Subjects -> Seq(Message)]
    /\ active \in [Jobs -> Entries]
    /\ counts \in Counts
    /\ lastStatus \in Readings \cup {None}
    /\ excused \subseteq Jobs
    /\ overlapped \in BOOLEAN
    /\ sent \in 0..MaxMessages

Tallied(n, a) ==
    n.queued = Cardinality(In(a, "queued")) /\ n.inFlight = Cardinality(In(a, "running"))

Waiting(q) == Len(q["state"]) + Len(q["progress"])
Sum(n)  == n.queued + n.inFlight + n.completed + n.failed
Bounded == Sum(counts) + Waiting(queue) <= sent

FarmInv == FarmTypeOK /\ Tallied(counts, active) /\ Bounded

\* What a set of jobs of one kind becomes when the entry of j is set to new.
Moves(a, b, j, new, v) ==
    /\ Cardinality(In(a, v)) \in Nat /\ Cardinality(In(b, v)) \in Nat
    /\ a[j] = v => Cardinality(In(a, v)) >= 1
    /\ (a[j] = v <=> new = v) => Cardinality(In(b, v)) = Cardinality(In(a, v))
    /\ a[j] # v /\ new = v => Cardinality(In(b, v)) = Cardinality(In(a, v)) + 1
    /\ a[j] = v /\ new # v => Cardinality(In(b, v)) = Cardinality(In(a, v)) - 1

\* One entry of a.active changes.
LEMMA EntryMoves ==
    ASSUME TelemetryAssumption, NEW a \in [Jobs -> Entries], NEW j \in Jobs, NEW new \in Entries, NEW v,
           NEW b, b = [a EXCEPT ![j] = new]
    PROVE  Moves(a, b, j, new, v)
<1> DEFINE A == In(a, v)
           B == In(b, v)
<1>1. IsFiniteSet(A) /\ IsFiniteSet(B)
  <2>1. A \subseteq Jobs /\ B \subseteq Jobs
    BY DEF In
  <2> HIDE DEF A, B
  <2> QED BY <2>1, FS_Subset DEF TelemetryAssumption
<1>2. /\ (a[j] = v <=> new = v) => B = A
      /\ a[j] # v /\ new = v => B = A \cup {j} /\ j \notin A
      /\ a[j] = v /\ new # v => B = A \ {j}
      /\ a[j] = v => j \in A
  BY DEF In
<1> HIDE DEF A, B
<1>3. Cardinality(A) \in Nat /\ Cardinality(B) \in Nat
  BY <1>1, FS_CardinalityType
<1>4. j \notin A => Cardinality(A \cup {j}) = Cardinality(A) + 1
  BY <1>1, FS_AddElement
<1>5. j \in A => Cardinality(A \ {j}) = Cardinality(A) - 1
  BY <1>1, FS_RemoveElement
<1>6. j \in A => Cardinality(A) >= 1
  <2> SUFFICES ASSUME j \in A PROVE Cardinality(A) >= 1
    OBVIOUS
  <2>1. Cardinality(A) # 0
    BY <1>1, FS_EmptySet
  <2> QED BY <1>3, <2>1
<1>7. /\ Cardinality(A) \in Nat /\ Cardinality(B) \in Nat
      /\ a[j] = v => Cardinality(A) >= 1
      /\ (a[j] = v <=> new = v) => Cardinality(B) = Cardinality(A)
      /\ a[j] # v /\ new = v => Cardinality(B) = Cardinality(A) + 1
      /\ a[j] = v /\ new # v => Cardinality(B) = Cardinality(A) - 1
  BY <1>2, <1>3, <1>4, <1>5, <1>6
<1> QED BY <1>7 DEF A, B, Moves

\* Without and With, on the four counters.
LEMMA Recounted ==
    ASSUME NEW n \in Counts, NEW old \in Entries, NEW s \in States, None \notin States,
           old = "queued" => n.queued >= 1, old = "running" => n.inFlight >= 1
    PROVE  LET r == With(Without(n, old), s) IN
           /\ r \in Counts
           /\ r.queued = (IF old = "queued" THEN n.queued - 1 ELSE n.queued)
                         + (IF s = "queued" THEN 1 ELSE 0)
           /\ r.inFlight = (IF old = "running" THEN n.inFlight - 1 ELSE n.inFlight)
                           + (IF s = "running" THEN 1 ELSE 0)
           /\ Sum(r) <= Sum(n) + 1
<1> DEFINE m == Without(n, old)
           r == With(m, s)
<1>1. /\ m \in Counts
      /\ m.queued = IF old = "queued" THEN n.queued - 1 ELSE n.queued
      /\ m.inFlight = IF old = "running" THEN n.inFlight - 1 ELSE n.inFlight
      /\ m.completed = n.completed /\ m.failed = n.failed
  <2>1. CASE old = "queued"
    <3>1. n.queued - 1 \in Nat
      BY <2>1 DEF Counts
    <3> QED BY <2>1, <3>1 DEF Without, Counts
  <2>2. CASE old = "running"
    <3>1. n.inFlight - 1 \in Nat
      BY <2>2 DEF Counts
    <3> QED BY <2>2, <3>1 DEF Without, Counts
  <2>3. CASE old = None
    BY <2>3 DEF Without, States
  <2> QED BY <2>1, <2>2, <2>3 DEF Entries
<1> HIDE DEF m
<1>2. /\ r \in Counts
      /\ r.queued = m.queued + (IF s = "queued" THEN 1 ELSE 0)
      /\ r.inFlight = m.inFlight + (IF s = "running" THEN 1 ELSE 0)
      /\ r.completed + r.failed <= m.completed + m.failed
                                   + (IF s \in {"queued", "running"} THEN 0 ELSE 1)
  <2>1. m.queued + 1 \in Nat /\ m.inFlight + 1 \in Nat /\ m.completed + 1 \in Nat /\ m.failed + 1 \in Nat
    BY <1>1 DEF Counts
  <2>2. CASE s = "queued"
    BY <1>1, <2>1, <2>2 DEF With, Counts
  <2>3. CASE s = "running"
    BY <1>1, <2>1, <2>3 DEF With, Counts
  <2>4. CASE s = "completed"
    BY <1>1, <2>1, <2>4 DEF With, Counts
  <2>5. CASE s = "failed"
    BY <1>1, <2>1, <2>5 DEF With, Counts
  <2> QED BY <2>2, <2>3, <2>4, <2>5 DEF States
<1> HIDE DEF r
<1>3. /\ n.queued \in Nat /\ n.inFlight \in Nat /\ n.completed \in Nat /\ n.failed \in Nat
      /\ r.queued \in Nat /\ r.inFlight \in Nat /\ r.completed \in Nat /\ r.failed \in Nat
  BY <1>2 DEF Counts
<1>4. Sum(r) <= Sum(n) + 1
  BY <1>1, <1>2, <1>3 DEF Sum
<1>5. /\ r \in Counts
      /\ r.queued = (IF old = "queued" THEN n.queued - 1 ELSE n.queued)
                    + (IF s = "queued" THEN 1 ELSE 0)
      /\ r.inFlight = (IF old = "running" THEN n.inFlight - 1 ELSE n.inFlight)
                      + (IF s = "running" THEN 1 ELSE 0)
  BY <1>1, <1>2
<1> QED BY <1>4, <1>5 DEF r, m

\* The counters follow an entry that becomes what the message says.
LEMMA TallyKept ==
    ASSUME TelemetryAssumption, EventsAssumption, NEW a \in [Jobs -> Entries], NEW n \in Counts,
           Tallied(n, a), NEW j \in Jobs, NEW s \in States
    PROVE  LET r == With(Without(n, a[j]), s) IN
           r \in Counts /\ Tallied(r, [a EXCEPT ![j] = Expected(s)]) /\ Sum(r) <= Sum(n) + 1
<1> DEFINE old == a[j]
           new == Expected(s)
           r == With(Without(n, old), s)
<1>0. None \notin States /\ old \in Entries /\ new \in Entries
  BY DEF EventsAssumption, Expected, Entries
<1>1. PICK b \in [Jobs -> Entries] : b = [a EXCEPT ![j] = new]
  BY <1>0
<1>m. ASSUME NEW v PROVE Moves(a, b, j, new, v)
  BY <1>0, <1>1, EntryMoves
<1>2. (old = "queued" => n.queued >= 1) /\ (old = "running" => n.inFlight >= 1)
  BY <1>m DEF Tallied, Moves
<1>3. /\ r \in Counts
      /\ r.queued = (IF old = "queued" THEN n.queued - 1 ELSE n.queued)
                    + (IF s = "queued" THEN 1 ELSE 0)
      /\ r.inFlight = (IF old = "running" THEN n.inFlight - 1 ELSE n.inFlight)
                      + (IF s = "running" THEN 1 ELSE 0)
      /\ Sum(r) <= Sum(n) + 1
  BY <1>0, <1>2, Recounted
<1>4. (new = "queued" <=> s = "queued") /\ (new = "running" <=> s = "running")
  BY <1>0 DEF Expected, States
<1> HIDE DEF old, new, r
<1>5. r.queued = Cardinality(In(b, "queued"))
  <2>1. n.queued = Cardinality(In(a, "queued"))
    BY DEF Tallied
  <2> QED BY <1>3, <1>4, <1>m, <2>1 DEF Moves, old
<1>6. r.inFlight = Cardinality(In(b, "running"))
  <2>1. n.inFlight = Cardinality(In(a, "running"))
    BY DEF Tallied
  <2> QED BY <1>3, <1>4, <1>m, <2>1 DEF Moves, old
<1> QED BY <1>1, <1>3, <1>5, <1>6 DEF Tallied, r, old, new

\* What is known of the constants.
Assumptions == HubAssumption /\ TelemetryAssumption /\ EventsAssumption

\* The variables of a message that waits, or is taken from the queue.
LEMMA QueueType ==
    ASSUME FarmTypeOK, NEW s \in Subjects, queue[s] # << >>
    PROVE  /\ Head(queue[s]) \in Message /\ Tail(queue[s]) \in Seq(Message)
           /\ Len(Tail(queue[s])) = Len(queue[s]) - 1
           /\ [queue EXCEPT ![s] = Tail(queue[s])] \in [Subjects -> Seq(Message)]
<1>1. queue[s] \in Seq(Message)
  BY DEF FarmTypeOK
<1>2. /\ Head(queue[s]) \in Message /\ Tail(queue[s]) \in Seq(Message)
      /\ Len(Tail(queue[s])) = Len(queue[s]) - 1
  BY <1>1
<1> QED BY <1>2 DEF FarmTypeOK

LEMMA BacklogType ==
    ASSUME Assumptions, FarmTypeOK
    PROVE  /\ Len(queue["state"]) \in Nat /\ Len(queue["progress"]) \in Nat
           /\ Waiting(queue) \in Nat /\ Sum(counts) \in Nat /\ sent \in Nat
<1>1. queue["state"] \in Seq(Message) /\ queue["progress"] \in Seq(Message)
  BY DEF FarmTypeOK, Subjects
<1>2. counts.queued \in Nat /\ counts.inFlight \in Nat /\ counts.completed \in Nat /\ counts.failed \in Nat
  BY DEF FarmTypeOK, Counts
<1>3. PICK a \in Nat, b \in Nat : a = Len(queue["state"]) /\ b = Len(queue["progress"])
  BY <1>1
<1>4. Waiting(queue) = a + b
  BY <1>3 DEF Waiting
<1>5. Waiting(queue) \in Nat
  BY <1>4
<1>6. Sum(counts) \in Nat
  BY <1>2 DEF Sum
<1>7. sent \in Nat
  BY DEF FarmTypeOK, Assumptions, TelemetryAssumption
<1> QED BY <1>1, <1>5, <1>6, <1>7

LEMMA Shorter ==
    ASSUME NEW q, NEW r, NEW s \in Subjects, Len(q["state"]) \in Nat, Len(q["progress"]) \in Nat,
           Len(r[s]) = Len(q[s]) - 1, \A o \in Subjects \ {s} : r[o] = q[o]
    PROVE  Waiting(r) = Waiting(q) - 1 /\ Waiting(q) \in Nat
<1>1. CASE s = "state"
  <2>1. r["progress"] = q["progress"]
    BY <1>1 DEF Subjects
  <2>2. Len(r["state"]) = Len(q["state"]) - 1
    BY <1>1
  <2>3. Len(r["progress"]) = Len(q["progress"])
    BY <2>1
  <2> HIDE <1>1
  <2>4. PICK a \in Nat, b \in Nat : a = Len(q["state"]) /\ b = Len(q["progress"])
    OBVIOUS
  <2>5. PICK c \in Int, d \in Int : c = Len(r["state"]) /\ d = Len(r["progress"])
    BY <2>2, <2>3, <2>4
  <2>6. c + d = a + b - 1
    BY <2>2, <2>3, <2>4, <2>5
  <2>7. Waiting(r) = c + d /\ Waiting(q) = a + b
    BY <2>4, <2>5 DEF Waiting
  <2> QED BY <2>6, <2>7
<1>2. CASE s = "progress"
  <2>1. r["state"] = q["state"]
    BY <1>2 DEF Subjects
  <2>2. Len(r["progress"]) = Len(q["progress"]) - 1
    BY <1>2
  <2>3. Len(r["state"]) = Len(q["state"])
    BY <2>1
  <2> HIDE <1>2
  <2>4. PICK a \in Nat, b \in Nat : a = Len(q["state"]) /\ b = Len(q["progress"])
    OBVIOUS
  <2>5. PICK c \in Int, d \in Int : c = Len(r["state"]) /\ d = Len(r["progress"])
    BY <2>2, <2>3, <2>4
  <2>6. c + d = a + b - 1
    BY <2>2, <2>3, <2>4, <2>5
  <2>7. Waiting(r) = c + d /\ Waiting(q) = a + b
    BY <2>4, <2>5 DEF Waiting
  <2> QED BY <2>6, <2>7
<1> QED BY <1>1, <1>2 DEF Subjects

\* A message is taken from its queue and counted at most once.
LEMMA TakeBounded ==
    ASSUME Assumptions, FarmTypeOK, Bounded, NEW s \in Subjects, queue[s] # << >>,
           queue' = [queue EXCEPT ![s] = Tail(queue[s])],
           counts' \in Counts, Sum(counts') <= Sum(counts) + 1, sent' = sent
    PROVE  Bounded'
<1>1. \A n \in Counts : Sum(n) \in Nat
  BY DEF Counts, Sum
<1>2. /\ Len(queue'[s]) = Len(queue[s]) - 1
      /\ \A o \in Subjects \ {s} : queue'[o] = queue[o]
  BY QueueType DEF FarmTypeOK
<1>3. Waiting(queue)' = Waiting(queue) - 1 /\ Waiting(queue) \in Nat
  <2>1. PICK r : r = queue'
    OBVIOUS
  <2>2. Len(queue["state"]) \in Nat /\ Len(queue["progress"]) \in Nat
    BY BacklogType
  <2>3. Waiting(r) = Waiting(queue) - 1 /\ Waiting(queue) \in Nat
    BY <1>2, <2>1, <2>2, Shorter
  <2> QED BY <2>1, <2>3 DEF Waiting
<1>4. Sum(counts)' \in Nat /\ Sum(counts)' <= Sum(counts) + 1
  BY <1>1 DEF Sum
<1>5. Sum(counts) \in Nat /\ sent \in Nat
  BY BacklogType
<1> QED BY <1>3, <1>4, <1>5 DEF Bounded

\* The counters stay within the events that can be published.
LEMMA AggregateIsEvent ==
    ASSUME Assumptions, NEW n \in Counts, Sum(n) <= MaxMessages
    PROVE  AggregateEvent(n) \in Events
<1> DEFINE K == {"queued", "inFlight", "completed", "failed"}
           f == [k \in K |-> n[k]]
<1>1. n.queued \in Nat /\ n.inFlight \in Nat /\ n.completed \in Nat /\ n.failed \in Nat /\ MaxMessages \in Nat
  BY DEF Counts, Assumptions, TelemetryAssumption
<1>2. n.queued \in 0..MaxMessages /\ n.inFlight \in 0..MaxMessages /\ n.completed \in 0..MaxMessages
      /\ n.failed \in 0..MaxMessages
  BY <1>1 DEF Sum
<1>3. f \in [K -> 0..MaxMessages]
  BY <1>2
<1>4. AggregateEvent(f) = AggregateEvent(n)
  BY DEF AggregateEvent, Event
<1> HIDE DEF f
<1>5. AggregateEvent(f) \in Aggregates
  BY <1>3 DEF Aggregates
<1>6. AggregateEvent(f) \in AllEvents
  BY <1>5 DEF AllEvents
<1> QED BY <1>4, <1>6 DEF Assumptions, EventsAssumption

\* The messages sent bound the counters.
LEMMA WithinBound ==
    ASSUME Assumptions, FarmTypeOK, Bounded
    PROVE  Sum(counts) <= MaxMessages
<1>1. sent \in 0..MaxMessages /\ MaxMessages \in Nat
  BY DEF FarmTypeOK, Assumptions, TelemetryAssumption
<1> QED BY <1>1, BacklogType DEF Bounded

\* Everything that is published is an event of the hub.
LEMMA AreEvents ==
    ASSUME Assumptions
    PROVE  /\ \A j \in Jobs, s \in States : JobEvent(j, s) \in Events
           /\ \A t \in Tags : LogEvent(t) \in Events
           /\ \A g \in Readings : StatusEvent(g) \in Events
           /\ \A b \in {"gpu", "no gpu"} : SampleEvent(b) \in Events
<1>1. /\ \A j \in Jobs, s \in States : JobEvent(j, s) \in JobEvents
      /\ \A t \in Tags : LogEvent(t) \in LogEvents
      /\ \A g \in Readings : StatusEvent(g) \in Statuses
      /\ \A b \in {"gpu", "no gpu"} : SampleEvent(b) \in Samples
  BY DEF JobEvents, LogEvents, Statuses, Samples
<1> QED BY <1>1 DEF Assumptions, EventsAssumption, AllEvents

LEMMA SampleOffers ==
    ASSUME Assumptions, NEW smp \in Sample
    PROVE  publishStatus(smp.gpu) \in Seq(Offer) /\ publishSample(smp) \in Seq(Offer)
<1> DEFINE a == [ev |-> StatusEvent(smp.gpu), keep |-> TRUE]
           b == [ev |-> SampleEvent(IF smp.gpu = "ok" THEN "gpu" ELSE "no gpu"), keep |-> FALSE]
<1>1. a \in Offer /\ b \in Offer
  BY AreEvents DEF Sample, Offer
<1>2. publishStatus(smp.gpu) \in {<< >>, <<a>>} /\ publishSample(smp) \in {<< >>, <<b>>}
  BY DEF publishStatus, publishSample
<1> HIDE DEF a, b
<1>3. << >> \in Seq(Offer) /\ <<a>> \in Seq(Offer) /\ <<b>> \in Seq(Offer)
  BY <1>1
<1> QED BY <1>2, <1>3

LEMMA FarmInit == ASSUME Assumptions, Init PROVE FarmInv
<1>1. /\ phase = [j \in Jobs |-> None] /\ active = [j \in Jobs |-> None]
      /\ queue = [s \in Subjects |-> << >>] /\ sent = 0
      /\ counts = [queued |-> 0, inFlight |-> 0, completed |-> 0, failed |-> 0]
  BY DEF Init
<1>2. FarmTypeOK
  <2>1. counts \in Counts
    BY <1>1 DEF Counts
  <2>2. queue \in [Subjects -> Seq(Message)]
    BY <1>1
  <2>3. active \in [Jobs -> Entries] /\ phase \in [Jobs -> States \cup {None}]
    BY <1>1 DEF Entries
  <2>4. sent \in 0..MaxMessages
    BY <1>1 DEF Assumptions, TelemetryAssumption
  <2> QED BY <2>1, <2>2, <2>3, <2>4 DEF Init, FarmTypeOK
<1>3. Tallied(counts, active)
  <2>1. In(active, "queued") = {} /\ In(active, "running") = {}
    <3>1. None # "queued" /\ None # "running"
      BY DEF Assumptions, EventsAssumption, States
    <3> QED BY <1>1, <3>1 DEF In
  <2>2. Cardinality({}) = 0
    BY FS_EmptySet
  <2>3. counts.queued = 0 /\ counts.inFlight = 0
    BY <1>1
  <2> QED BY <2>1, <2>2, <2>3 DEF Tallied
<1>4. Bounded
  <2>1. Len(queue["state"]) = 0 /\ Len(queue["progress"]) = 0
    BY <1>1 DEF Subjects
  <2>2. Waiting(queue) = 0
    BY <2>1 DEF Waiting
  <2>3. Sum(counts) = 0
    BY <1>1 DEF Sum
  <2> QED BY <1>1, <2>2, <2>3 DEF Bounded
<1> QED BY <1>2, <1>3, <1>4 DEF FarmInv

\* The two handlers of the aggregator: what becomes of the counters.
LEMMA StateCounted ==
    ASSUME Assumptions, FarmInv, HandleState
    PROVE  FarmInv'
<1>1. PICK m \in Message : m = Head(queue["state"])
  BY QueueType DEF HandleState, FarmInv, Subjects
<1> DEFINE old == active[m.job]
           new == StateAfter(old, m.state)
<1>2. m.job \in Jobs /\ m.state \in States /\ old \in Entries
  BY DEF Message, FarmInv, FarmTypeOK
<1>3. /\ active' = [active EXCEPT ![m.job] = new]
      /\ counts' = IF new = old /\ new # None THEN counts ELSE With(Without(counts, old), m.state)
      /\ excused' \in {excused, excused \cup {m.job}}
      /\ overlapped' \in BOOLEAN
      /\ queue' = [queue EXCEPT !["state"] = Tail(queue["state"])]
      /\ UNCHANGED <<stream, phase, lastStatus, told, sent>>
  BY <1>1 DEF HandleState, Report
<1>4. /\ active' \in [Jobs -> Entries] /\ counts' \in Counts
      /\ Tallied(counts', active') /\ Sum(counts') <= Sum(counts) + 1
  <2>0. active \in [Jobs -> Entries] /\ counts \in Counts /\ Tallied(counts, active)
    BY DEF FarmInv, FarmTypeOK
  <2>1. CASE new = old /\ new # None
    <3>1. active' = active /\ counts' = counts
      BY <1>2, <1>3, <2>0, <2>1
    <3>2. Sum(counts) \in Nat
      BY BacklogType DEF FarmInv
    <3> QED BY <2>0, <3>1, <3>2
  <2>2. CASE ~(new = old /\ new # None)
    <3>1. new = Expected(m.state)
      BY <1>2, <2>2 DEF StateAfter, Expected, States, Entries
    <3>2. counts' = With(Without(counts, active[m.job]), m.state)
          /\ active' = [active EXCEPT ![m.job] = Expected(m.state)]
      BY <1>3, <2>2, <3>1
    <3>3. Expected(m.state) \in Entries
      BY DEF Expected, Entries
    <3> HIDE DEF old, new
    <3> QED BY <1>2, <2>0, <3>2, <3>3, TallyKept DEF Assumptions
  <2> QED BY <2>1, <2>2
<1>5. queue["state"] # << >> /\ "state" \in Subjects
  BY DEF HandleState, Subjects
<1>6. Bounded'
  BY <1>3, <1>4, <1>5, TakeBounded DEF FarmInv
<1>7. FarmTypeOK'
  <2>1. queue' \in [Subjects -> Seq(Message)]
    BY <1>3, <1>5, QueueType DEF FarmInv
  <2>2. excused' \subseteq Jobs
    BY <1>2, <1>3 DEF FarmInv, FarmTypeOK
  <2> QED BY <1>3, <1>4, <2>1, <2>2 DEF FarmInv, FarmTypeOK
<1> QED BY <1>4, <1>6, <1>7 DEF FarmInv

LEMMA ProgressCounted ==
    ASSUME Assumptions, FarmInv, HandleProgress
    PROVE  FarmInv'
<1>1. PICK m \in Message : m = Head(queue["progress"])
  BY QueueType DEF HandleProgress, FarmInv, Subjects
<1>2. m.job \in Jobs /\ "running" \in States /\ "running" \in Entries /\ Expected("running") = "running"
  BY DEF Message, States, Entries, Expected
<1>3. /\ active' = [active EXCEPT ![m.job] = "running"]
      /\ counts' = With(Without(counts, active[m.job]), "running")
      /\ overlapped' \in BOOLEAN
      /\ queue' = [queue EXCEPT !["progress"] = Tail(queue["progress"])]
      /\ UNCHANGED <<stream, phase, lastStatus, told, excused, sent>>
  BY <1>1 DEF HandleProgress, Report
<1>4. /\ active' \in [Jobs -> Entries] /\ counts' \in Counts
      /\ Tallied(counts', active') /\ Sum(counts') <= Sum(counts) + 1
  <2>0. active \in [Jobs -> Entries] /\ counts \in Counts /\ Tallied(counts, active)
    BY DEF FarmInv, FarmTypeOK
  <2> QED BY <1>2, <1>3, <2>0, TallyKept DEF Assumptions
<1>5. queue["progress"] # << >> /\ "progress" \in Subjects
  BY DEF HandleProgress, Subjects
<1>6. Bounded'
  BY <1>3, <1>4, <1>5, TakeBounded DEF FarmInv
<1>7. FarmTypeOK'
  <2>1. queue' \in [Subjects -> Seq(Message)]
    BY <1>3, <1>5, QueueType DEF FarmInv
  <2> QED BY <1>3, <1>4, <2>1 DEF FarmInv, FarmTypeOK
<1> QED BY <1>4, <1>6, <1>7 DEF FarmInv

\* A message that is published or lost.
LEMMA MessageCounted ==
    ASSUME Assumptions, FarmInv, NEW s \in Subjects,
           UNCHANGED <<stream, active, counts, lastStatus, overlapped>>,
           phase' \in [Jobs -> States \cup {None}], excused' \subseteq Jobs,
           \/ Send /\ \E m \in Message : queue' = [queue EXCEPT ![s] = Append(queue[s], m)]
           \/ UNCHANGED sent /\ queue[s] # << >> /\ queue' = [queue EXCEPT ![s] = Tail(queue[s])]
    PROVE  FarmInv'
<1>0. FarmTypeOK /\ Bounded /\ queue \in [Subjects -> Seq(Message)]
  BY DEF FarmInv, FarmTypeOK
<1>1. CASE Send /\ \E m \in Message : queue' = [queue EXCEPT ![s] = Append(queue[s], m)]
  <2>1. PICK m \in Message : queue' = [queue EXCEPT ![s] = Append(queue[s], m)]
    BY <1>1
  <2>a. queue[s] \in Seq(Message) /\ Append(queue[s], m) \in Seq(Message)
    BY <1>0
  <2>2. PICK r \in [Subjects -> Seq(Message)] : r = queue'
    BY <1>0, <2>1, <2>a
  <2>3. Len(queue[s]) = Len(r[s]) - 1 /\ \A o \in Subjects \ {s} : queue[o] = r[o]
    BY <1>0, <2>1, <2>2, <2>a
  <2>4. r["state"] \in Seq(Message) /\ r["progress"] \in Seq(Message)
    BY DEF Subjects
  <2>5. Len(r["state"]) \in Nat /\ Len(r["progress"]) \in Nat
    BY <2>4
  <2>6. Waiting(queue) = Waiting(r) - 1
    BY <2>3, <2>5, Shorter
  <2>7. Waiting(queue)' = Waiting(queue) + 1
    <3>1. Waiting(r) \in Nat
      BY <2>3, <2>5, Shorter
    <3>2. Waiting(r) = Waiting(queue) + 1
      BY <1>0, <2>6, <3>1, BacklogType
    <3> QED BY <2>2, <3>2 DEF Waiting
  <2>8. sent' = sent + 1 /\ sent' \in 0..MaxMessages
    BY <1>1, BacklogType, <1>0 DEF Send, Assumptions, TelemetryAssumption
  <2>9. Bounded'
    <3>1. Sum(counts)' = Sum(counts)
      BY DEF Sum
    <3> QED BY <1>0, <2>7, <2>8, <3>1, BacklogType DEF Bounded
  <2> QED BY <2>2, <2>8, <2>9 DEF FarmInv, FarmTypeOK
<1>2. CASE UNCHANGED sent /\ queue[s] # << >> /\ queue' = [queue EXCEPT ![s] = Tail(queue[s])]
  <2>1. counts' \in Counts /\ Sum(counts') <= Sum(counts) + 1
    BY <1>0, BacklogType DEF FarmTypeOK
  <2>2. Bounded'
    BY <1>0, <1>2, <2>1, TakeBounded
  <2>3. queue' \in [Subjects -> Seq(Message)]
    BY <1>0, <1>2, QueueType
  <2> QED BY <1>2, <2>2, <2>3 DEF FarmInv, FarmTypeOK
<1> QED BY <1>1, <1>2

LEMMA FarmStep == ASSUME Assumptions, FarmInv, [Next]_vars PROVE FarmInv'
<1>0. FarmTypeOK /\ phase \in [Jobs -> States \cup {None}] /\ excused \subseteq Jobs
  BY DEF FarmInv, FarmTypeOK
<1>1. ASSUME NEW j \in Jobs, NEW s \in States, PublishState(j, s) PROVE FarmInv'
  <2>1. [job |-> j, state |-> s] \in Message /\ "state" \in Subjects
    BY DEF Message, Subjects
  <2>2. phase' \in [Jobs -> States \cup {None}]
    BY <1>0, <1>1 DEF PublishState
  <2>3. /\ UNCHANGED <<stream, active, counts, lastStatus, overlapped>> /\ excused' \subseteq Jobs
        /\ Send /\ \E m \in Message : queue' = [queue EXCEPT !["state"] = Append(queue["state"], m)]
    BY <1>0, <1>1, <2>1 DEF PublishState
  <2> QED BY <2>1, <2>2, <2>3, MessageCounted
<1>2. ASSUME NEW j \in Jobs, PublishProgress(j) PROVE FarmInv'
  <2>1. [job |-> j, state |-> "running"] \in Message /\ "progress" \in Subjects
    BY DEF Message, Subjects, States
  <2>2. phase' \in [Jobs -> States \cup {None}] /\ excused' \subseteq Jobs
    BY <1>0, <1>2 DEF PublishProgress
  <2>3. /\ UNCHANGED <<stream, active, counts, lastStatus, overlapped>>
        /\ Send /\ \E m \in Message : queue' = [queue EXCEPT !["progress"] = Append(queue["progress"], m)]
    BY <1>2, <2>1 DEF PublishProgress
  <2> QED BY <2>1, <2>2, <2>3, MessageCounted
<1>3. ASSUME NEW s \in Subjects, Lose(s) PROVE FarmInv'
  <2>1. Head(queue[s]).job \in Jobs
    BY <1>0, <1>3, QueueType DEF Lose, Message
  <2>2. phase' \in [Jobs -> States \cup {None}] /\ excused' \subseteq Jobs
    BY <1>0, <1>3, <2>1 DEF Lose
  <2>3. /\ UNCHANGED <<stream, active, counts, lastStatus, overlapped>>
        /\ UNCHANGED sent /\ queue[s] # << >> /\ queue' = [queue EXCEPT ![s] = Tail(queue[s])]
    BY <1>3 DEF Lose
  <2> QED BY <2>2, <2>3, MessageCounted
<1>4. CASE HandleState \/ HandleProgress
  BY <1>4, StateCounted, ProgressCounted
<1>5. ASSUME UNCHANGED <<stream, phase, queue, active, counts, excused, overlapped>>,
             lastStatus' \in Readings \cup {None}, sent' = sent \/ Send
      PROVE  FarmInv'
  <2>1. sent' \in 0..MaxMessages /\ sent' >= sent
    BY <1>0, <1>5, BacklogType DEF FarmTypeOK, Send, Assumptions, TelemetryAssumption
  <2>2. Bounded'
    <3>1. Sum(counts)' = Sum(counts) /\ Waiting(queue)' = Waiting(queue)
      BY <1>5 DEF Sum, Waiting
    <3>2. sent' \in Nat
      BY <2>1
    <3> QED BY <1>0, <2>1, <3>1, <3>2, BacklogType DEF Bounded, FarmInv
  <2> QED BY <1>5, <2>1, <2>2 DEF FarmInv, FarmTypeOK
<1>6. lastStatus \in Readings \cup {None}
  BY <1>0 DEF FarmTypeOK
<1>7. ASSUME NEW t \in Tags, Handle(t) PROVE FarmInv'
  BY <1>5, <1>6, <1>7 DEF Handle
<1>8. ASSUME NEW smp \in Sample, RunHardware(smp) PROVE FarmInv'
  <2>1. smp.gpu \in Readings
    BY DEF Sample
  <2> QED BY <1>5, <1>8, <2>1 DEF RunHardware
<1>9. CASE UNCHANGED farmVars
  BY <1>5, <1>6, <1>9 DEF farmVars
<1>10. ASSUME NEW c \in Conns,
              \/ \E f \in Tags \cup {None} : ServeSSE(c, f)
              \/ (Select(c) \/ Drain(c) \/ Leave(c)) /\ UNCHANGED farmVars
              \/ WriteEvents(c) \/ EndStream(c)
       PROVE  FarmInv'
  BY <1>5, <1>6, <1>9, <1>10 DEF ServeSSE, WriteEvents, EndStream
<1>11. CASE UNCHANGED vars
  BY <1>9, <1>11 DEF vars
<1> QED BY <1>1, <1>2, <1>3, <1>4, <1>7, <1>8, <1>9, <1>10, <1>11 DEF Next

\* Every step of the services is a step of the hub, or none of its business.
LEMMA HubStep == ASSUME Assumptions, FarmInv, FarmInv', HubInv, [Next]_vars PROVE [HubNext]_hubVars
<1>0. {"state", "progress", "log", "hardware"} \subseteq Publishers
  BY DEF Assumptions, TelemetryAssumption
<1>1. AggregateEvent(counts') \in Events
  <2>1. (FarmTypeOK /\ Bounded => Sum(counts) <= MaxMessages)'
    BY WithinBound, PTL
  <2>2. FarmTypeOK' /\ Bounded' /\ counts' \in Counts
    BY DEF FarmInv, FarmTypeOK
  <2>3. PICK n \in Counts : n = counts'
    BY <2>2
  <2>4. Sum(n) <= MaxMessages
    BY <2>1, <2>2, <2>3 DEF Sum
  <2> QED BY <2>3, <2>4, AggregateIsEvent
<1>2. ASSUME NEW h \in Subjects, NEW j \in Jobs, NEW s \in States, Report(h, j, s)
      PROVE  HubNext
  <2> DEFINE offers == <<[ev |-> JobEvent(j, s), keep |-> FALSE],
                         [ev |-> AggregateEvent(counts'), keep |-> TRUE]>>
  <2>1. [ev |-> JobEvent(j, s), keep |-> FALSE] \in Offer
        /\ [ev |-> AggregateEvent(counts'), keep |-> TRUE] \in Offer
    BY <1>1, AreEvents DEF Offer
  <2>2. offers \in Seq(Offer)
    BY <2>1
  <2>3. Compute(h, offers) /\ h \in Publishers
    BY <1>0, <1>2 DEF Report, Subjects
  <2> HIDE DEF offers
  <2> QED BY <2>2, <2>3 DEF HubNext
<1>3. CASE HandleState
  <2>1. PICK m \in Message : m = Head(queue["state"])
    BY <1>3, QueueType DEF HandleState, FarmInv, Subjects
  <2>2. m.job \in Jobs /\ m.state \in States /\ "state" \in Subjects
    BY DEF Message, Subjects
  <2> QED BY <1>2, <1>3, <2>1, <2>2 DEF HandleState
<1>4. CASE HandleProgress
  <2>1. PICK m \in Message : m = Head(queue["progress"])
    BY <1>4, QueueType DEF HandleProgress, FarmInv, Subjects
  <2>2. m.job \in Jobs /\ "running" \in States /\ "progress" \in Subjects
    BY DEF Message, Subjects, States
  <2> QED BY <1>2, <1>4, <2>1, <2>2 DEF HandleProgress
<1>5. ASSUME NEW t \in Tags, Handle(t) PROVE HubNext
  <2>1. [ev |-> LogEvent(t), keep |-> FALSE] \in Offer
    BY AreEvents DEF Offer
  <2>2. <<[ev |-> LogEvent(t), keep |-> FALSE]>> \in Seq(Offer)
    BY <2>1
  <2> QED BY <1>0, <1>5, <2>2 DEF Handle, HubNext
<1>6. ASSUME NEW smp \in Sample, RunHardware(smp) PROVE HubNext
  <2>1. publishStatus(smp.gpu) \in Seq(Offer) /\ publishSample(smp) \in Seq(Offer)
    BY SampleOffers
  <2>2. publishStatus(smp.gpu) \o publishSample(smp) \in Seq(Offer)
    BY <2>1
  <2> QED BY <1>0, <1>6, <2>2 DEF RunHardware, HubNext
<1>7. CASE Publishing /\ UNCHANGED farmVars
  BY <1>7 DEF HubNext
<1>8. ASSUME NEW c \in Conns,
             \/ \E f \in Tags \cup {None} : ServeSSE(c, f)
             \/ (Select(c) \/ Drain(c) \/ Leave(c)) /\ UNCHANGED farmVars
             \/ WriteEvents(c) \/ EndStream(c)
      PROVE  HubNext
  BY <1>8 DEF ServeSSE, WriteEvents, EndStream, HubNext, Serving
<1>9. ASSUME NEW j \in Jobs, NEW s \in States, PublishProgress(j) \/ PublishState(j, s) PROVE UNCHANGED hubVars
  BY <1>9 DEF PublishProgress, PublishState
<1>9a. ASSUME NEW j \in Jobs, PublishProgress(j) PROVE UNCHANGED hubVars
  BY <1>9a DEF PublishProgress
<1>10. ASSUME NEW s \in Subjects, Lose(s) PROVE UNCHANGED hubVars
  BY <1>10 DEF Lose
<1>11. CASE UNCHANGED vars
  BY <1>11 DEF vars
<1> QED BY <1>3, <1>4, <1>5, <1>6, <1>7, <1>8, <1>9, <1>9a, <1>10, <1>11 DEF Next

\* Aggregator, log consumer and hardware loop, with the HTTP handlers, use the
\* hub as Hub describes it: each of their steps is one of its steps or leaves
\* it alone, so what holds of any publisher holds of them.
THEOREM ImplementsHub == Spec => HubSpec
<1> USE HubAssumption, TelemetryAssumption, EventsAssumption DEF Assumptions
<1>1. Init => HubInit /\ HubInv /\ FarmInv
  BY InitInv, FarmInit DEF Init
<1>2. HubInv /\ FarmInv /\ [Next]_vars => HubInv' /\ FarmInv' /\ [HubNext]_hubVars
  BY FarmStep, HubStep, StepInv
<1> QED BY <1>1, <1>2, PTL DEF Spec, HubSpec

\* Hence the guarantees of Conn.push, Conn.Drain and the notify channel hold of
\* the services as main.go wires them.
THEOREM ServicesKeepHub == Spec => [](LossIsAccounted /\ NoStalledEvents)
<1> QED BY ImplementsHub, NoSilentLoss, NoStall, PTL

-----------------------------------------------------------------------------
(***************************************************************************)
(* a.active and the farm.  For a job that no message was lost of, h is the *)
(* last state of it that the aggregator has handled.  The states that wait *)
(* lead from h to the state in the farm, and a "queued" among them follows *)
(* a "failed".  The entry in a.active is the one h calls for, unless       *)
(* progress has overtaken a "running" that is still due.                   *)
(***************************************************************************)
Is(m, j, s) == m.job = j /\ m.state = s
Mentions(q, j) == \E i \in 1..Len(q) : q[i].job = j
Due(q, j) == \E i \in 1..Len(q) : Is(q[i], j, "running")

Retries(q, j, h) ==
    \A i \in 1..Len(q) :
        Is(q[i], j, "queued") =>
            \/ h \in {None, "failed"} /\ \A l \in 1..Len(q) : l < i => q[l].job # j
            \/ \E k \in 1..Len(q) : /\ k < i /\ Is(q[k], j, "failed")
                                    /\ \A l \in 1..Len(q) : k < l /\ l < i => q[l].job # j

Leads(q, j, h, ph) ==
    \/ h = ph /\ \A l \in 1..Len(q) : q[l].job # j
    \/ \E k \in 1..Len(q) : Is(q[k], j, ph) /\ \A l \in 1..Len(q) : k < l => q[l].job # j

Path(q, j, h, ph) == Retries(q, j, h) /\ Leads(q, j, h, ph)

LEMMA Appended ==
    ASSUME NEW q \in Seq(Message), NEW m \in Message
    PROVE  /\ Append(q, m) \in Seq(Message) /\ Len(q) \in Nat /\ Len(Append(q, m)) = Len(q) + 1
           /\ \A i \in 1..Len(q) : Append(q, m)[i] = q[i]
           /\ Append(q, m)[Len(q) + 1] = m
OBVIOUS

LEMMA Shifted ==
    ASSUME NEW q \in Seq(Message), q # << >>
    PROVE  /\ Tail(q) \in Seq(Message) /\ Len(q) \in Nat /\ Len(Tail(q)) \in Nat /\ Len(q) = Len(Tail(q)) + 1
           /\ \A i \in 1..Len(Tail(q)) : Tail(q)[i] = q[i + 1]
           /\ Head(q) = q[1] /\ Head(q) \in Message
OBVIOUS

\* Which jobs a queue mentions, and whether a "running" is due.
LEMMA MentionsAppend ==
    ASSUME NEW q \in Seq(Message), NEW m \in Message, NEW j
    PROVE  /\ Mentions(Append(q, m), j) <=> Mentions(q, j) \/ m.job = j
           /\ Due(Append(q, m), j) <=> Due(q, j) \/ Is(m, j, "running")
<1> DEFINE r == Append(q, m)
<1>1. /\ Len(q) \in Nat /\ Len(r) = Len(q) + 1
      /\ \A i \in 1..Len(q) : r[i] = q[i]
      /\ r[Len(q) + 1] = m
  BY Appended
<1> HIDE DEF r
<1>2. Mentions(r, j) <=> Mentions(q, j) \/ m.job = j
  BY <1>1 DEF Mentions
<1>3. Due(r, j) <=> Due(q, j) \/ Is(m, j, "running")
  BY <1>1 DEF Due
<1> QED BY <1>2, <1>3 DEF r

LEMMA MentionsTail ==
    ASSUME NEW q \in Seq(Message), q # << >>, NEW j
    PROVE  /\ Mentions(q, j) <=> Mentions(Tail(q), j) \/ Head(q).job = j
           /\ Due(q, j) <=> Due(Tail(q), j) \/ Is(Head(q), j, "running")
<1> DEFINE r == Tail(q)
           m == Head(q)
<1>1. /\ Len(q) \in Nat /\ Len(r) \in Nat /\ Len(q) = Len(r) + 1
      /\ \A i \in 1..Len(r) : r[i] = q[i + 1]
      /\ m = q[1]
  BY Shifted
<1> HIDE DEF r, m
<1>2. \A i \in 1..Len(q) : i = 1 \/ (i - 1 \in 1..Len(r) /\ r[i - 1] = q[i])
  BY <1>1
<1>3. \A i \in 1..Len(r) : i + 1 \in 1..Len(q)
  BY <1>1
<1>4. Mentions(q, j) <=> Mentions(r, j) \/ m.job = j
  BY <1>1, <1>2, <1>3 DEF Mentions
<1>5. Due(q, j) <=> Due(r, j) \/ Is(m, j, "running")
  <2>1. ASSUME Due(q, j) PROVE Due(r, j) \/ Is(m, j, "running")
    <3>1. PICK i \in 1..Len(q) : Is(q[i], j, "running")
      BY <2>1 DEF Due
    <3>2. CASE i = 1
      BY <1>1, <3>1, <3>2
    <3>3. CASE i # 1
      BY <1>2, <3>1, <3>3 DEF Due
    <3> QED BY <3>2, <3>3
  <2>2. ASSUME Due(r, j) PROVE Due(q, j)
    <3>1. PICK i \in 1..Len(r) : Is(r[i], j, "running")
      BY <2>2 DEF Due
    <3>2. i + 1 \in 1..Len(q) /\ Is(q[i + 1], j, "running")
      BY <1>1, <1>3, <3>1
    <3> QED BY <3>2 DEF Due
  <2>3. ASSUME Is(m, j, "running") PROVE Due(q, j)
    <3>1. 1 \in 1..Len(q) /\ Is(q[1], j, "running")
      BY <1>1, <2>3
    <3> QED BY <3>1 DEF Due
  <2> QED BY <2>1, <2>2, <2>3
<1> QED BY <1>4, <1>5 DEF r, m

\* A message of another job joins the queue, or one of this job.
LEMMA PathAppendOther ==
    ASSUME NEW q \in Seq(Message), NEW m \in Message, NEW j, NEW h, NEW ph,
           Path(q, j, h, ph), m.job # j
    PROVE  Path(Append(q, m), j, h, ph)
<1> DEFINE r == Append(q, m)
<1>1. /\ Len(q) \in Nat /\ Len(r) = Len(q) + 1
      /\ \A i \in 1..Len(q) : r[i] = q[i]
      /\ r[Len(q) + 1] = m
  BY Appended
<1> HIDE DEF r
<1>2. ASSUME NEW i \in 1..Len(r), Is(r[i], j, "queued")
      PROVE  \/ h \in {None, "failed"} /\ \A l \in 1..Len(r) : l < i => r[l].job # j
             \/ \E k \in 1..Len(r) : /\ k < i /\ Is(r[k], j, "failed")
                                     /\ \A l \in 1..Len(r) : k < l /\ l < i => r[l].job # j
  <2>1. i \in 1..Len(q) /\ Is(q[i], j, "queued")
    BY <1>1, <1>2 DEF Is
  <2>2. CASE h \in {None, "failed"} /\ \A l \in 1..Len(q) : l < i => q[l].job # j
    BY <1>1, <2>1, <2>2
  <2>3. CASE \E k \in 1..Len(q) : /\ k < i /\ Is(q[k], j, "failed")
                                  /\ \A l \in 1..Len(q) : k < l /\ l < i => q[l].job # j
    BY <1>1, <2>1, <2>3
  <2> QED BY <2>1, <2>2, <2>3 DEF Path, Retries
<1>3. Leads(r, j, h, ph)
  BY <1>1 DEF Path, Leads
<1> QED BY <1>2, <1>3 DEF Path, Retries, r

LEMMA PathAppendOwn ==
    ASSUME NEW q \in Seq(Message), NEW m \in Message, NEW j, NEW h, NEW ph,
           Path(q, j, h, ph), m.job = j, None \notin States,
           m.state = "queued" => ph \in {None, "failed"}
    PROVE  Path(Append(q, m), j, h, m.state)
<1> DEFINE r == Append(q, m)
           n == Len(q) + 1
<1>1. /\ Len(q) \in Nat /\ Len(r) = n
      /\ \A i \in 1..Len(q) : r[i] = q[i]
      /\ r[n] = m
  BY Appended
<1> HIDE DEF r
<1>2. ASSUME NEW i \in 1..Len(r), Is(r[i], j, "queued")
      PROVE  \/ h \in {None, "failed"} /\ \A l \in 1..Len(r) : l < i => r[l].job # j
             \/ \E k \in 1..Len(r) : /\ k < i /\ Is(r[k], j, "failed")
                                     /\ \A l \in 1..Len(r) : k < l /\ l < i => r[l].job # j
  <2>1. CASE i \in 1..Len(q)
    <3>1. Is(q[i], j, "queued")
      BY <1>1, <1>2, <2>1
    <3>2. CASE h \in {None, "failed"} /\ \A l \in 1..Len(q) : l < i => q[l].job # j
      BY <1>1, <2>1, <3>2
    <3>3. CASE \E k \in 1..Len(q) : /\ k < i /\ Is(q[k], j, "failed")
                                    /\ \A l \in 1..Len(q) : k < l /\ l < i => q[l].job # j
      BY <1>1, <2>1, <3>3
    <3> QED BY <2>1, <3>1, <3>2, <3>3 DEF Path, Retries
  <2>2. CASE i = n
    <3>1. ph \in {None, "failed"}
      BY <1>1, <1>2, <2>2 DEF Is
    <3>2. CASE h = ph /\ \A l \in 1..Len(q) : q[l].job # j
      BY <1>1, <2>2, <3>1, <3>2
    <3>3. CASE \E k \in 1..Len(q) : Is(q[k], j, ph) /\ \A l \in 1..Len(q) : k < l => q[l].job # j
      <4>1. PICK k \in 1..Len(q) : Is(q[k], j, ph) /\ \A l \in 1..Len(q) : k < l => q[l].job # j
        BY <3>3
      <4>2. q[k] \in Message
        OBVIOUS
      <4>3. ph = "failed"
        BY <3>1, <4>1, <4>2 DEF Message, Is
      <4>4. k \in 1..Len(r) /\ k < i /\ Is(r[k], j, "failed")
        BY <1>1, <2>2, <4>1, <4>3
      <4>5. \A l \in 1..Len(r) : k < l /\ l < i => r[l].job # j
        BY <1>1, <2>2, <4>1
      <4> QED BY <4>4, <4>5
    <3> QED BY <3>2, <3>3 DEF Path, Leads
  <2> QED BY <1>1, <2>1, <2>2
<1>3. Leads(r, j, h, m.state)
  <2>1. n \in 1..Len(r) /\ Is(r[n], j, m.state) /\ \A l \in 1..Len(r) : n < l => r[l].job # j
    BY <1>1 DEF Is
  <2> QED BY <2>1 DEF Leads
<1> QED BY <1>2, <1>3 DEF Path, Retries, r

\* A message of another job leaves the queue, or one of this job.
LEMMA PathTailOther ==
    ASSUME NEW q \in Seq(Message), q # << >>, NEW j, NEW h, NEW ph,
           Path(q, j, h, ph), Head(q).job # j
    PROVE  Path(Tail(q), j, h, ph)
<1> DEFINE r == Tail(q)
           m == Head(q)
<1>1. /\ Len(q) \in Nat /\ Len(r) \in Nat /\ Len(q) = Len(r) + 1
      /\ \A i \in 1..Len(r) : i + 1 \in 1..Len(q) /\ r[i] = q[i + 1]
      /\ m = q[1]
  BY Shifted
<1> HIDE DEF r, m
<1>2. \A i \in 1..Len(q) : q[i].job = j => i - 1 \in 1..Len(r) /\ r[i - 1] = q[i]
  BY <1>1 DEF m
<1>3. ASSUME NEW i \in 1..Len(r), Is(r[i], j, "queued")
      PROVE  \/ h \in {None, "failed"} /\ \A l \in 1..Len(r) : l < i => r[l].job # j
             \/ \E k \in 1..Len(r) : /\ k < i /\ Is(r[k], j, "failed")
                                     /\ \A l \in 1..Len(r) : k < l /\ l < i => r[l].job # j
  <2>1. i + 1 \in 1..Len(q) /\ Is(q[i + 1], j, "queued")
    BY <1>1, <1>3
  <2>2. CASE h \in {None, "failed"} /\ \A l \in 1..Len(q) : l < i + 1 => q[l].job # j
    BY <1>1, <2>2
  <2>3. CASE \E k \in 1..Len(q) : /\ k < i + 1 /\ Is(q[k], j, "failed")
                                  /\ \A l \in 1..Len(q) : k < l /\ l < i + 1 => q[l].job # j
    <3>1. PICK k \in 1..Len(q) : /\ k < i + 1 /\ Is(q[k], j, "failed")
                                 /\ \A l \in 1..Len(q) : k < l /\ l < i + 1 => q[l].job # j
      BY <2>3
    <3>2. k - 1 \in 1..Len(r) /\ k - 1 < i /\ Is(r[k - 1], j, "failed")
      BY <1>1, <1>2, <3>1 DEF Is
    <3>3. \A l \in 1..Len(r) : k - 1 < l /\ l < i => r[l].job # j
      BY <1>1, <3>1
    <3> QED BY <3>2, <3>3
  <2> QED BY <2>1, <2>2, <2>3 DEF Path, Retries
<1>4. Leads(r, j, h, ph)
  <2>1. CASE h = ph /\ \A l \in 1..Len(q) : q[l].job # j
    BY <1>1, <2>1 DEF Leads
  <2>2. CASE \E k \in 1..Len(q) : Is(q[k], j, ph) /\ \A l \in 1..Len(q) : k < l => q[l].job # j
    <3>1. PICK k \in 1..Len(q) : Is(q[k], j, ph) /\ \A l \in 1..Len(q) : k < l => q[l].job # j
      BY <2>2
    <3>2. k - 1 \in 1..Len(r) /\ Is(r[k - 1], j, ph)
      BY <1>1, <1>2, <3>1 DEF Is
    <3>3. \A l \in 1..Len(r) : k - 1 < l => r[l].job # j
      BY <1>1, <3>1
    <3> QED BY <3>2, <3>3 DEF Leads
  <2> QED BY <2>1, <2>2 DEF Path, Leads
<1> QED BY <1>3, <1>4 DEF Path, Retries, r

LEMMA PathTailOwn ==
    ASSUME NEW q \in Seq(Message), q # << >>, NEW j, NEW h, NEW ph,
           Path(q, j, h, ph), Head(q).job = j
    PROVE  /\ Path(Tail(q), j, Head(q).state, ph)
           /\ Head(q).state = "queued" => h \in {None, "failed"}
<1> DEFINE r == Tail(q)
           m == Head(q)
           s == m.state
<1>1. /\ Len(q) \in Nat /\ Len(r) \in Nat /\ Len(q) = Len(r) + 1
      /\ \A i \in 1..Len(r) : i + 1 \in 1..Len(q) /\ r[i] = q[i + 1]
      /\ m = q[1] /\ 1 \in 1..Len(q)
  BY Shifted
<1>0. q[1].job = j /\ q[1].state = s
  BY <1>1
<1> HIDE DEF r, m, s
<1>2. \A i \in 1..Len(q) : i # 1 => i - 1 \in 1..Len(r) /\ r[i - 1] = q[i]
  BY <1>1
<1>3. ASSUME NEW i \in 1..Len(r), Is(r[i], j, "queued")
      PROVE  \/ s \in {None, "failed"} /\ \A l \in 1..Len(r) : l < i => r[l].job # j
             \/ \E k \in 1..Len(r) : /\ k < i /\ Is(r[k], j, "failed")
                                     /\ \A l \in 1..Len(r) : k < l /\ l < i => r[l].job # j
  <2>1. i + 1 \in 1..Len(q) /\ Is(q[i + 1], j, "queued")
    BY <1>1, <1>3
  <2>2. PICK k \in 1..Len(q) : /\ k < i + 1 /\ Is(q[k], j, "failed")
                               /\ \A l \in 1..Len(q) : k < l /\ l < i + 1 => q[l].job # j
    <3>1. 1 < i + 1
      OBVIOUS
    <3> QED BY <1>0, <1>1, <2>1, <3>1 DEF Path, Retries
  <2>3. CASE k = 1
    <3>1. s = "failed"
      BY <1>0, <2>2, <2>3 DEF Is
    <3>2. \A l \in 1..Len(r) : l < i => r[l].job # j
      BY <1>1, <2>2, <2>3
    <3> QED BY <3>1, <3>2
  <2>4. CASE k # 1
    <3>1. k - 1 \in 1..Len(r) /\ k - 1 < i /\ Is(r[k - 1], j, "failed")
      BY <1>1, <1>2, <2>2, <2>4
    <3>2. \A l \in 1..Len(r) : k - 1 < l /\ l < i => r[l].job # j
      BY <1>1, <2>2
    <3> QED BY <3>1, <3>2
  <2> QED BY <2>3, <2>4
<1>4. Leads(r, j, s, ph)
  <2>1. PICK k \in 1..Len(q) : Is(q[k], j, ph) /\ \A l \in 1..Len(q) : k < l => q[l].job # j
    BY <1>0, <1>1 DEF Path, Leads
  <2>2. CASE k = 1
    <3>1. s = ph
      BY <1>0, <2>1, <2>2 DEF Is
    <3>2. \A l \in 1..Len(r) : r[l].job # j
      BY <1>1, <2>1, <2>2
    <3> QED BY <3>1, <3>2 DEF Leads
  <2>3. CASE k # 1
    <3>1. k - 1 \in 1..Len(r) /\ Is(r[k - 1], j, ph)
      BY <1>2, <2>1, <2>3
    <3>2. \A l \in 1..Len(r) : k - 1 < l => r[l].job # j
      BY <1>1, <2>1
    <3> QED BY <3>1, <3>2 DEF Leads
  <2> QED BY <2>2, <2>3
<1>5. s = "queued" => h \in {None, "failed"}
  <2> SUFFICES ASSUME s = "queued" PROVE h \in {None, "failed"}
    OBVIOUS
  <2>1. Is(q[1], j, "queued")
    BY <1>0 DEF Is
  <2>2. \A k \in 1..Len(q) : ~(k < 1)
    BY <1>1
  <2> QED BY <1>1, <2>1, <2>2 DEF Path, Retries
<1> QED BY <1>3, <1>4, <1>5 DEF Path, Retries, r, m, s

Follows(q, p, j, h, ph, entry) ==
    /\ Path(q, j, h, ph)
    /\ entry = Expected(h) \/ (entry = "running" /\ Due(q, j))
    /\ Mentions(p, j) => h = "running" \/ Due(q, j)

Tracks(q, p, j, ph, entry) == \E h \in States \cup {None} : Follows(q, p, j, h, ph, entry)

Agreement ==
    \A j \in Jobs \ excused : Tracks(queue["state"], queue["progress"], j, phase[j], active[j])

\* The state of a job changes in the farm.
LEMMA StatePublished ==
    ASSUME NEW q \in Seq(Message), NEW p, NEW m \in Message, NEW j, NEW ph, NEW entry,
           Tracks(q, p, j, ph, entry), None \notin States
    PROVE  /\ m.job # j => Tracks(Append(q, m), p, j, ph, entry)
           /\ m.job = j /\ m.state \in CanFollow(ph) /\ ph \in States \cup {None}
                 => Tracks(Append(q, m), p, j, m.state, entry)
<1>1. PICK h \in States \cup {None} : Follows(q, p, j, h, ph, entry)
  BY DEF Tracks
<1>2. Due(q, j) => Due(Append(q, m), j)
  BY MentionsAppend
<1>3. ASSUME NEW ph2, Path(Append(q, m), j, h, ph2) PROVE Tracks(Append(q, m), p, j, ph2, entry)
  <2>1. Follows(Append(q, m), p, j, h, ph2, entry)
    BY <1>1, <1>2, <1>3 DEF Follows
  <2> QED BY <2>1 DEF Tracks
<1>4. ASSUME m.job # j PROVE Tracks(Append(q, m), p, j, ph, entry)
  BY <1>1, <1>3, <1>4, PathAppendOther DEF Follows
<1>5. ASSUME m.job = j, m.state \in CanFollow(ph), ph \in States \cup {None}
      PROVE  Tracks(Append(q, m), p, j, m.state, entry)
  <2>1. m.state = "queued" => ph \in {None, "failed"}
    BY <1>5 DEF CanFollow, States
  <2> QED BY <1>1, <1>3, <1>5, <2>1, PathAppendOwn DEF Follows
<1> QED BY <1>4, <1>5

\* Progress of a running job is published.
LEMMA ProgressPublished ==
    ASSUME NEW q \in Seq(Message), NEW p \in Seq(Message), NEW m \in Message, NEW j, NEW ph, NEW entry,
           Tracks(q, p, j, ph, entry), m.job = j => ph = "running"
    PROVE  Tracks(q, Append(p, m), j, ph, entry)
<1>1. PICK h \in States \cup {None} : Follows(q, p, j, h, ph, entry)
  BY DEF Tracks
<1>2. Mentions(Append(p, m), j) => Mentions(p, j) \/ ph = "running"
  BY MentionsAppend
<1>3. ph = "running" => h = "running" \/ Due(q, j)
  BY <1>1 DEF Follows, Path, Leads, Due
<1>4. Follows(q, Append(p, m), j, h, ph, entry)
  BY <1>1, <1>2, <1>3 DEF Follows
<1> QED BY <1>4 DEF Tracks

\* A message of another job is handled or lost.
LEMMA OtherTaken ==
    ASSUME NEW q \in Seq(Message), NEW p \in Seq(Message), NEW j, NEW ph, NEW entry, Tracks(q, p, j, ph, entry)
    PROVE  /\ q # << >> /\ Head(q).job # j => Tracks(Tail(q), p, j, ph, entry)
           /\ p # << >> => Tracks(q, Tail(p), j, ph, entry)
<1>1. PICK h \in States \cup {None} : Follows(q, p, j, h, ph, entry)
  BY DEF Tracks
<1>2. ASSUME q # << >>, Head(q).job # j PROVE Tracks(Tail(q), p, j, ph, entry)
  <2>1. Due(q, j) => Due(Tail(q), j)
    BY <1>2, MentionsTail DEF Is
  <2>2. Path(Tail(q), j, h, ph)
    BY <1>1, <1>2, PathTailOther DEF Follows
  <2>3. Follows(Tail(q), p, j, h, ph, entry)
    BY <1>1, <2>1, <2>2 DEF Follows
  <2> QED BY <2>3 DEF Tracks
<1>3. ASSUME p # << >> PROVE Tracks(q, Tail(p), j, ph, entry)
  <2>1. Mentions(Tail(p), j) => Mentions(p, j)
    BY <1>3, MentionsTail
  <2>2. Follows(q, Tail(p), j, h, ph, entry)
    BY <1>1, <2>1 DEF Follows
  <2> QED BY <2>2 DEF Tracks
<1> QED BY <1>2, <1>3

\* A state of the job is handled, and no progress of it waits if that was the end.
LEMMA StateTaken ==
    ASSUME NEW q \in Seq(Message), q # << >>, NEW p, NEW j, NEW ph, NEW entry, None \notin States,
           Tracks(q, p, j, ph, entry), Head(q).job = j,
           StateAfter(entry, Head(q).state) = None => ~Mentions(p, j)
    PROVE  Tracks(Tail(q), p, j, ph, StateAfter(entry, Head(q).state))
<1>1. PICK h \in States \cup {None} : Follows(q, p, j, h, ph, entry)
  BY DEF Tracks
<1>2. PICK s \in States : s = Head(q).state
  BY Shifted DEF Message
<1>3. Path(Tail(q), j, s, ph) /\ (s = "queued" => h \in {None, "failed"})
  BY <1>1, <1>2, PathTailOwn DEF Follows
<1>4. Due(q, j) => Due(Tail(q), j) \/ s = "running"
  BY <1>2, MentionsTail DEF Is
<1>5. /\ StateAfter(entry, s) = Expected(s) \/ (StateAfter(entry, s) = "running" /\ Due(Tail(q), j))
      /\ Mentions(p, j) => s = "running" \/ Due(Tail(q), j)
  <2>1. CASE s = "running"
    BY <2>1 DEF StateAfter, Expected
  <2>2. CASE s \in {"completed", "failed"}
    <3>1. StateAfter(entry, s) = None /\ Expected(s) = None
      BY <2>2 DEF StateAfter, Expected
    <3> QED BY <1>2, <3>1
  <2>3. CASE s = "queued"
    <3>1. h \in {None, "failed"} /\ Expected(h) = None /\ h # "running"
      BY <1>3, <2>3 DEF Expected, States
    <3>2. entry = None \/ (entry = "running" /\ Due(Tail(q), j))
      BY <1>1, <1>4, <2>3, <3>1 DEF Follows
    <3>3. StateAfter(entry, s) = IF entry # None THEN entry ELSE "queued"
      BY <2>3 DEF StateAfter
    <3>4. Expected(s) = "queued" /\ None # "running"
      BY <2>3 DEF Expected, States
    <3>5. Mentions(p, j) => Due(Tail(q), j)
      BY <1>1, <1>4, <2>3, <3>1 DEF Follows
    <3> QED BY <3>2, <3>3, <3>4, <3>5
  <2> QED BY <2>1, <2>2, <2>3 DEF States
<1>6. Follows(Tail(q), p, j, s, ph, StateAfter(entry, s))
  BY <1>3, <1>5 DEF Follows
<1> QED BY <1>2, <1>6 DEF Tracks

\* Progress of the job is handled.
LEMMA ProgressTaken ==
    ASSUME NEW q \in Seq(Message), NEW p \in Seq(Message), p # << >>, NEW j, NEW ph, NEW entry,
           Tracks(q, p, j, ph, entry), Head(p).job = j
    PROVE  Tracks(q, Tail(p), j, ph, "running")
<1>1. PICK h \in States \cup {None} : Follows(q, p, j, h, ph, entry)
  BY DEF Tracks
<1>2. Mentions(p, j)
  BY MentionsTail
<1>3. "running" = Expected(h) \/ Due(q, j)
  BY <1>1, <1>2 DEF Follows, Expected
<1>4. Follows(q, Tail(p), j, h, ph, "running")
  BY <1>1, <1>2, <1>3 DEF Follows
<1> QED BY <1>4 DEF Tracks

LEMMA AgreementStep ==
    ASSUME Assumptions, FarmTypeOK, Agreement, [Next]_vars
    PROVE  Agreement'
<1>0. PICK q \in Seq(Message), p \in Seq(Message) : q = queue["state"] /\ p = queue["progress"]
  BY DEF FarmTypeOK, Subjects
<1>1. /\ queue \in [Subjects -> Seq(Message)] /\ "state" \in Subjects /\ "progress" \in Subjects
      /\ phase \in [Jobs -> States \cup {None}] /\ active \in [Jobs -> Entries] /\ excused \subseteq Jobs
      /\ None \notin States
  BY DEF FarmTypeOK, Subjects, Assumptions, EventsAssumption
<1>2. ASSUME NEW j \in Jobs \ excused PROVE Tracks(q, p, j, phase[j], active[j])
  BY <1>0 DEF Agreement
<1>3. ASSUME NEW i \in Jobs, NEW s \in States, PublishState(i, s) PROVE Agreement'
  <2>1. PICK m \in Message : m = [job |-> i, state |-> s]
    BY DEF Message
  <2>2. m.job = i /\ m.state = s
    BY <2>1
  <2>3. /\ queue'["state"] = Append(q, m) /\ queue'["progress"] = p
        /\ excused' = excused /\ active' = active /\ s \in CanFollow(phase[i])
        /\ phase'[i] = s /\ \A j \in Jobs \ {i} : phase'[j] = phase[j]
    BY <1>0, <1>1, <1>3, <2>1 DEF PublishState
  <2>4. ASSUME NEW j \in Jobs \ excused PROVE Tracks(Append(q, m), p, j, phase'[j], active[j])
    <3>1. CASE j = i
      <4>1. m.job = j /\ m.state \in CanFollow(phase[j]) /\ phase[j] \in States \cup {None}
        BY <1>1, <2>2, <2>3, <3>1
      <4>2. Tracks(Append(q, m), p, j, m.state, active[j])
        BY <1>1, <1>2, <4>1, StatePublished
      <4> QED BY <2>2, <2>3, <3>1, <4>2
    <3>2. CASE j # i
      BY <1>1, <1>2, <2>2, <2>3, <3>2, StatePublished
    <3> QED BY <3>1, <3>2
  <2> QED BY <2>3, <2>4 DEF Agreement
<1>4. ASSUME NEW i \in Jobs, PublishProgress(i) PROVE Agreement'
  <2>1. PICK m \in Message : m = [job |-> i, state |-> "running"]
    BY DEF Message, States
  <2>2. m.job = i
    BY <2>1
  <2>3. /\ queue'["state"] = q /\ queue'["progress"] = Append(p, m)
        /\ excused' = excused /\ active' = active /\ phase' = phase /\ phase[i] = "running"
    BY <1>0, <1>1, <1>4, <2>1 DEF PublishProgress
  <2>4. ASSUME NEW j \in Jobs \ excused PROVE Tracks(q, Append(p, m), j, phase[j], active[j])
    BY <1>2, <2>2, <2>3, ProgressPublished
  <2> QED BY <2>3, <2>4 DEF Agreement
<1>5. ASSUME Lose("state") PROVE Agreement'
  <2>1. /\ q # << >> /\ queue'["state"] = Tail(q) /\ queue'["progress"] = p
        /\ excused' = excused \cup {Head(q).job} /\ active' = active /\ phase' = phase
    BY <1>0, <1>1, <1>5 DEF Lose
  <2>2. ASSUME NEW j \in Jobs \ excused' PROVE Tracks(Tail(q), p, j, phase[j], active[j])
    BY <1>2, <2>1, OtherTaken
  <2> QED BY <2>1, <2>2 DEF Agreement
<1>6. ASSUME Lose("progress") PROVE Agreement'
  <2>1. /\ p # << >> /\ queue'["state"] = q /\ queue'["progress"] = Tail(p)
        /\ excused' = excused \cup {Head(p).job} /\ active' = active /\ phase' = phase
    BY <1>0, <1>1, <1>6 DEF Lose
  <2>2. ASSUME NEW j \in Jobs \ excused' PROVE Tracks(q, Tail(p), j, phase[j], active[j])
    BY <1>2, <2>1, OtherTaken
  <2> QED BY <2>1, <2>2 DEF Agreement
<1>7. CASE HandleState
  <2>1. q # << >>
    BY <1>0, <1>7 DEF HandleState
  <2>2. PICK m \in Message : m = Head(q)
    BY <2>1, Shifted
  <2>3. m.job \in Jobs
    BY DEF Message
  <2>4. /\ queue'["state"] = Tail(q) /\ queue'["progress"] = p /\ phase' = phase
        /\ active' = [active EXCEPT ![m.job] = StateAfter(active[m.job], m.state)]
        /\ excused' = IF StateAfter(active[m.job], m.state) = None /\ Mentions(p, m.job)
                      THEN excused \cup {m.job} ELSE excused
    BY <1>0, <1>1, <1>7, <2>2 DEF HandleState, Pending, Mentions
  <2>5. ASSUME NEW j \in Jobs \ excused' PROVE Tracks(Tail(q), p, j, phase[j], active'[j])
    <3>1. j \in Jobs \ excused
      BY <2>4
    <3>2. CASE j = m.job
      <4>1. active'[j] = StateAfter(active[j], m.state)
        BY <1>1, <2>3, <2>4, <3>2
      <4>2. StateAfter(active[j], m.state) = None => ~Mentions(p, j)
        BY <2>4, <3>2
      <4>3. Tracks(Tail(q), p, j, phase[j], StateAfter(active[j], Head(q).state))
        BY <1>1, <1>2, <2>1, <2>2, <3>1, <3>2, <4>2, StateTaken
      <4> QED BY <2>2, <4>1, <4>3
    <3>3. CASE j # m.job
      <4>1. active'[j] = active[j]
        BY <1>1, <2>4, <3>3
      <4> QED BY <1>2, <2>1, <2>2, <3>1, <3>3, <4>1, OtherTaken
    <3> QED BY <3>2, <3>3
  <2> QED BY <2>4, <2>5 DEF Agreement
<1>8. CASE HandleProgress
  <2>1. p # << >>
    BY <1>0, <1>8 DEF HandleProgress
  <2>2. PICK m \in Message : m = Head(p)
    BY <2>1, Shifted
  <2>3. m.job \in Jobs
    BY DEF Message
  <2>4. /\ queue'["state"] = q /\ queue'["progress"] = Tail(p) /\ phase' = phase /\ excused' = excused
        /\ active' = [active EXCEPT ![m.job] = "running"]
    BY <1>0, <1>1, <1>8, <2>2 DEF HandleProgress
  <2>5. ASSUME NEW j \in Jobs \ excused PROVE Tracks(q, Tail(p), j, phase[j], active'[j])
    <3>1. CASE j = m.job
      <4>1. active'[j] = "running"
        BY <1>1, <2>3, <2>4, <3>1
      <4> QED BY <1>2, <2>1, <2>2, <3>1, <4>1, ProgressTaken
    <3>2. CASE j # m.job
      <4>1. active'[j] = active[j]
        BY <1>1, <2>4, <3>2
      <4> QED BY <1>2, <2>1, <4>1, OtherTaken
    <3> QED BY <3>1, <3>2
  <2> QED BY <2>4, <2>5 DEF Agreement
<1>9. ASSUME UNCHANGED <<phase, queue, active, excused>> PROVE Agreement'
  BY <1>9 DEF Agreement
<1>10. ASSUME NEW c \in Conns,
              \/ \E f \in Tags \cup {None} : ServeSSE(c, f)
              \/ (Select(c) \/ Drain(c) \/ Leave(c)) /\ UNCHANGED farmVars
              \/ WriteEvents(c) \/ EndStream(c)
       PROVE  Agreement'
  BY <1>9, <1>10 DEF ServeSSE, WriteEvents, EndStream, farmVars
<1>11. ASSUME NEW t \in Tags, Handle(t) PROVE Agreement'
  BY <1>9, <1>11 DEF Handle
<1>12. ASSUME NEW smp \in Sample, RunHardware(smp) PROVE Agreement'
  BY <1>9, <1>12 DEF RunHardware
<1>13. CASE UNCHANGED farmVars \/ UNCHANGED vars
  BY <1>9, <1>13 DEF farmVars, vars
<1>14. ASSUME NEW s \in Subjects, Lose(s) PROVE Agreement'
  BY <1>5, <1>6, <1>14 DEF Subjects
<1> QED BY <1>3, <1>4, <1>7, <1>8, <1>10, <1>11, <1>12, <1>13, <1>14 DEF Next

-----------------------------------------------------------------------------
(***************************************************************************)
(* The aggregate that subscribers are left with.  Unless the handlers      *)
(* overlapped, at most one of them has something to publish, and the last  *)
(* of it is the aggregate of the counters as they are.                     *)
(***************************************************************************)
Current(n) == [ev |-> AggregateEvent(n), keep |-> TRUE]

Reporting(w, n) == w = <<Current(n)>> \/ \E o \in Offer : ~o.keep /\ w = <<o, Current(n)>>

UpToDate ==
    \/ (\A h \in Subjects : work[h] = << >>) /\ sticky \in {None, AggregateEvent(counts)}
    \/ \E h \in Subjects : /\ \A o \in Subjects \ {h} : work[o] = << >>
                           /\ Reporting(work[h], counts)

Published == stream = "jobs" => /\ \A p \in Publishers \ Subjects : work[p] = << >>
                                /\ ~overlapped => UpToDate

\* A handler has computed its report.
LEMMA ReportPublished ==
    ASSUME Assumptions, HubTypeOK, Published, stream' = stream, sticky' = sticky,
           NEW h \in Subjects, NEW j \in Jobs, NEW s \in States, Report(h, j, s)
    PROVE  Published'
<1> SUFFICES ASSUME stream = "jobs"
             PROVE  /\ \A p \in Publishers \ Subjects : work'[p] = << >>
                    /\ ~overlapped' => UpToDate'
  BY DEF Published
<1>0. Subjects \subseteq Publishers /\ work \in [Publishers -> Seq(Offer)]
  BY DEF Subjects, Assumptions, TelemetryAssumption, HubTypeOK
<1> DEFINE o == [ev |-> JobEvent(j, s), keep |-> FALSE]
<1>1. o \in Offer /\ ~o.keep
  BY AreEvents DEF Offer
<1>2. /\ work' = [work EXCEPT ![h] = <<o, Current(counts')>>]
      /\ overlapped' = \E other \in Subjects \ {h} : ~Idle(other)
  BY DEF Report, Compute, Current
<1> HIDE DEF o
<1>3. \A p \in Publishers \ Subjects : work'[p] = << >>
  BY <1>0, <1>2 DEF Published
<1>4. ASSUME ~overlapped' PROVE UpToDate'
  <2>1. \A other \in Subjects \ {h} : work[other] = << >>
    BY <1>2, <1>4 DEF Idle
  <2>2. \A other \in Subjects \ {h} : work'[other] = << >>
    BY <1>0, <1>2, <2>1
  <2>3. work'[h] = <<o, Current(counts')>>
    BY <1>0, <1>2
  <2>4. Reporting(work'[h], counts')
    BY <1>1, <2>3 DEF Reporting
  <2>5. \E k \in Subjects : /\ \A other \in Subjects \ {k} : work'[other] = << >>
                            /\ Reporting(work'[k], counts')
    BY <2>2, <2>4
  <2> QED BY <2>5 DEF UpToDate, Reporting, Current, AggregateEvent
<1> QED BY <1>3, <1>4

\* A publisher takes the next event.
LEMMA LockPublished ==
    ASSUME Assumptions, HubTypeOK, Published, UNCHANGED farmVars, NEW p \in Publishers, Lock(p)
    PROVE  Published'
<1> SUFFICES ASSUME stream = "jobs"
             PROVE  /\ \A r \in Publishers \ Subjects : work'[r] = << >>
                    /\ ~overlapped' => UpToDate'
  BY DEF Published, farmVars
<1>0. Subjects \subseteq Publishers /\ work \in [Publishers -> Seq(Offer)]
  BY DEF Subjects, Assumptions, TelemetryAssumption, HubTypeOK
<1>1. /\ work[p] # << >> /\ work' = [work EXCEPT ![p] = Tail(work[p])]
      /\ sticky' = IF Head(work[p]).keep THEN Head(work[p]).ev ELSE sticky
      /\ counts' = counts /\ overlapped' = overlapped
  BY DEF Lock, farmVars
<1>2. p \in Subjects
  BY <1>1 DEF Published
<1>3. \A r \in Publishers \ Subjects : work'[r] = << >>
  BY <1>0, <1>1, <1>2 DEF Published
<1>4. ASSUME ~overlapped' PROVE UpToDate'
  <2>1. UpToDate
    BY <1>1, <1>4 DEF Published
  <2>2. PICK h \in Subjects : (\A o \in Subjects \ {h} : work[o] = << >>) /\ Reporting(work[h], counts)
    BY <1>1, <1>2, <2>1 DEF UpToDate
  <2>3. h = p
    BY <1>1, <1>2, <2>2
  <2>4. \A o \in Subjects \ {p} : work'[o] = << >>
    BY <1>0, <1>1, <2>2, <2>3
  <2>5. CASE work[p] = <<Current(counts)>>
    <3>1. Head(work[p]) = Current(counts) /\ Tail(work[p]) = << >>
      BY <2>5
    <3>2. work'[p] = << >> /\ sticky' = AggregateEvent(counts)
      BY <1>0, <1>1, <3>1 DEF Current
    <3>3. (\A k \in Subjects : work'[k] = << >>) /\ sticky' = AggregateEvent(counts')
      BY <1>1, <2>4, <3>2
    <3> QED BY <3>3 DEF UpToDate, AggregateEvent
  <2>6. CASE \E o \in Offer : ~o.keep /\ work[p] = <<o, Current(counts)>>
    <3>1. PICK o \in Offer : ~o.keep /\ work[p] = <<o, Current(counts)>>
      BY <2>6
    <3>2. Tail(work[p]) = <<Current(counts)>>
      BY <3>1
    <3>3. work'[p] = <<Current(counts')>>
      BY <1>0, <1>1, <3>2
    <3>4. Reporting(work'[p], counts')
      BY <3>3 DEF Reporting
    <3>5. \E k \in Subjects : /\ \A other \in Subjects \ {k} : work'[other] = << >>
                              /\ Reporting(work'[k], counts')
      BY <1>2, <2>4, <3>4
    <3> QED BY <3>5 DEF UpToDate, Reporting, Current, AggregateEvent
  <2> QED BY <2>2, <2>3, <2>5, <2>6 DEF Reporting
<1> QED BY <1>3, <1>4

LEMMA PublishedStep ==
    ASSUME Assumptions, FarmTypeOK, HubTypeOK, Published, [Next]_vars
    PROVE  Published'
<1>1. ASSUME UNCHANGED <<stream, work, sticky, counts, overlapped>> PROVE Published'
  BY <1>1 DEF Published, UpToDate
<1>2. ASSUME NEW j \in Jobs, NEW s \in States, PublishState(j, s) PROVE Published'
  BY <1>1, <1>2 DEF PublishState, hubVars
<1>3. ASSUME NEW j \in Jobs, PublishProgress(j) PROVE Published'
  BY <1>1, <1>3 DEF PublishProgress, hubVars
<1>4. ASSUME NEW s \in Subjects, Lose(s) PROVE Published'
  BY <1>1, <1>4 DEF Lose, hubVars
<1>5. CASE HandleState
  <2>1. PICK m \in Message : m = Head(queue["state"])
    BY <1>5, QueueType DEF HandleState, Subjects
  <2>2. m.job \in Jobs /\ m.state \in States /\ "state" \in Subjects
    BY DEF Message, Subjects
  <2>3. Report("state", m.job, m.state) /\ stream' = stream
    BY <1>5, <2>1 DEF HandleState
  <2>4. sticky' = sticky
    BY <2>3 DEF Report, Compute
  <2> QED BY <2>2, <2>3, <2>4, ReportPublished
<1>6. CASE HandleProgress
  <2>1. PICK m \in Message : m = Head(queue["progress"])
    BY <1>6, QueueType DEF HandleProgress, Subjects
  <2>2. m.job \in Jobs /\ "running" \in States /\ "progress" \in Subjects
    BY DEF Message, Subjects, States
  <2>3. Report("progress", m.job, "running") /\ stream' = stream
    BY <1>6, <2>1 DEF HandleProgress
  <2>4. sticky' = sticky
    BY <2>3 DEF Report, Compute
  <2> QED BY <2>2, <2>3, <2>4, ReportPublished
<1>7. ASSUME NEW t \in Tags, Handle(t) PROVE Published'
  BY <1>7 DEF Handle, Published
<1>8. ASSUME NEW smp \in Sample, RunHardware(smp) PROVE Published'
  BY <1>8 DEF RunHardware, Published
<1>9. CASE Publishing /\ UNCHANGED farmVars
  <2>1. ASSUME NEW p \in Publishers, Lock(p) PROVE Published'
    BY <1>9, <2>1, LockPublished
  <2>2. ASSUME NEW p \in Publishers, Unlock(p) PROVE Published'
    BY <1>1, <1>9, <2>2 DEF Unlock, farmVars
  <2>3. ASSUME NEW c \in Conns, Push(c) \/ Signal(c) PROVE Published'
    BY <1>1, <1>9, <2>3 DEF Push, Signal, farmVars
  <2> QED BY <1>9, <2>1, <2>2, <2>3 DEF Publishing
<1>10. ASSUME NEW c \in Conns, NEW f \in Tags \cup {None}, ServeSSE(c, f) PROVE Published'
  BY <1>1, <1>10 DEF ServeSSE, Subscribe, farmVars
<1>11. ASSUME NEW c \in Conns, (Select(c) \/ Drain(c) \/ Leave(c)) /\ UNCHANGED farmVars PROVE Published'
  BY <1>1, <1>11 DEF Select, Drain, Leave, farmVars
<1>12. ASSUME NEW c \in Conns, WriteEvents(c) \/ EndStream(c) PROVE Published'
  BY <1>1, <1>12 DEF WriteEvents, EndStream, Flush, Unsubscribe
<1>13. CASE UNCHANGED vars
  BY <1>1, <1>13 DEF vars, hubVars, farmVars
<1> QED BY <1>2, <1>3, <1>4, <1>5, <1>6, <1>7, <1>8, <1>9, <1>10, <1>11, <1>12, <1>13 DEF Next

JobsInv == HubInv /\ FarmInv /\ Agreement /\ Published

LEMMA JobsInit == ASSUME Assumptions, Init PROVE JobsInv
<1>1. HubInv /\ FarmInv
  BY InitInv, FarmInit DEF Init
<1>2. Agreement
  <2> SUFFICES ASSUME NEW j \in Jobs
               PROVE  Tracks(queue["state"], queue["progress"], j, phase[j], active[j])
    BY DEF Agreement
  <2>1. queue["state"] = << >> /\ queue["progress"] = << >> /\ phase[j] = None /\ active[j] = None
    BY DEF Init, Subjects
  <2>2. Path(<< >>, j, None, None)
    BY DEF Path, Retries, Leads
  <2>3. Expected(None) = None
    BY DEF Expected
  <2>4. ~Mentions(<< >>, j)
    BY DEF Mentions
  <2>5. Follows(<< >>, << >>, j, None, None, None)
    BY <2>2, <2>3, <2>4 DEF Follows
  <2> QED BY <2>1, <2>5 DEF Tracks
<1>3. Published
  <2>1. sticky = None /\ \A p \in Publishers : work[p] = << >>
    BY DEF Init, HubInit
  <2>2. Subjects \subseteq Publishers
    BY DEF Assumptions, TelemetryAssumption, Subjects
  <2> QED BY <2>1, <2>2 DEF Published, UpToDate
<1> QED BY <1>1, <1>2, <1>3 DEF JobsInv

LEMMA JobsStep == ASSUME Assumptions, JobsInv, [Next]_vars PROVE JobsInv'
<1>1. HubInv /\ HubTypeOK /\ FarmInv /\ FarmTypeOK /\ Agreement /\ Published
  BY DEF JobsInv, HubInv, FarmInv
<1>2. FarmInv'
  BY <1>1, FarmStep
<1>3. HubInv'
  BY <1>1, <1>2, HubStep, StepInv
<1> QED BY <1>1, <1>2, <1>3, AgreementStep, PublishedStep DEF JobsInv

LEMMA JobsCounted == ASSUME JobsInv PROVE FarmIsCounted
<1>1. /\ counts.queued = Cardinality({j \in Jobs : active[j] = "queued"})
      /\ counts.inFlight = Cardinality({j \in Jobs : active[j] = "running"})
  BY DEF JobsInv, FarmInv, Tallied, In
<1>2. ASSUME NEW j \in Jobs \ excused, \A s \in Subjects : ~Pending(s, j)
      PROVE  active[j] = IF phase[j] \in {"queued", "running"} THEN phase[j] ELSE None
  <2>1. PICK h \in States \cup {None} :
            Follows(queue["state"], queue["progress"], j, h, phase[j], active[j])
    BY DEF JobsInv, Agreement, Tracks
  <2>2. \A i \in 1..Len(queue["state"]) : queue["state"][i].job # j
    BY <1>2 DEF Pending, Subjects
  <2>3. h = phase[j] /\ ~Due(queue["state"], j)
    BY <2>1, <2>2 DEF Follows, Path, Leads, Due, Is
  <2> QED BY <2>1, <2>3 DEF Follows, Expected
<1>3. ASSUME \A h \in Subjects : Idle(h), ~overlapped, stream = "jobs", sticky # None
      PROVE  sticky = AggregateEvent(counts)
  <2>1. \A h \in Subjects : work[h] = << >>
    BY <1>3 DEF Idle
  <2>2. UpToDate
    BY <1>3 DEF JobsInv, Published
  <2>3. \A n : ~Reporting(<< >>, n)
    BY DEF Reporting
  <2> QED BY <1>3, <2>1, <2>2, <2>3 DEF UpToDate
<1> QED BY <1>1, <1>2, <1>3 DEF FarmIsCounted

\* Aggregator.handleState and handleProgress, in whatever order the two
\* subscriptions take their messages, for any number of jobs and messages.
THEOREM FarmCounted == Spec => []FarmIsCounted
<1> USE HubAssumption, TelemetryAssumption, EventsAssumption DEF Assumptions
<1>1. Init => JobsInv
  BY JobsInit
<1>2. JobsInv /\ [Next]_vars => JobsInv'
  BY JobsStep
<1>3. JobsInv => FarmIsCounted
  BY JobsCounted
<1> QED BY <1>1, <1>2, <1>3, PTL DEF Spec

-----------------------------------------------------------------------------
(***************************************************************************)
(* The status a client has been told of, along the packets of its          *)
(* connection.                                                             *)
(***************************************************************************)
IsStatus(p) == p.ev.name = "status"
Silent(s)   == \A k \in 1..Len(s) : ~IsStatus(s[k])
LastAt(s, i) == i \in 1..Len(s) /\ IsStatus(s[i]) /\ \A k \in 1..Len(s) : IsStatus(s[k]) => k <= i

LEMMA Smallest == ASSUME NEW T \in SUBSET Nat, T # {} PROVE \E n \in T : \A m \in T : n <= m
<1> DEFINE R == OpToRel(<, Nat)
<1>1. IsWellFoundedOn(R, Nat)
  BY NatLessThanWellFounded
<1>2. ASSUME NEW x \in Nat, NEW y \in Nat, x < y PROVE <<x, y>> \in R
  BY <1>2 DEF OpToRel
<1> HIDE DEF R
<1>3. PICK n \in T : \A y \in T : ~ (<<y, n>> \in R)
  BY <1>1, WFMin
<1>4. ASSUME NEW m \in T PROVE n <= m
  <2>1. n \in Nat /\ m \in Nat
    OBVIOUS
  <2>2. CASE m < n
    BY <1>2, <1>3, <2>1, <2>2
  <2> QED BY <2>1, <2>2
<1> QED BY <1>4

LEMMA LastExists == ASSUME NEW s \in Seq(Packet) PROVE Silent(s) \/ \E i \in 1..Len(s) : LastAt(s, i)
<1> SUFFICES ASSUME ~Silent(s) PROVE \E i \in 1..Len(s) : LastAt(s, i)
  OBVIOUS
<1> DEFINE n == Len(s)
           T == {n - k : k \in {i \in 1..n : IsStatus(s[i])}}
<1>1. n \in Nat
  OBVIOUS
<1>2. T \in SUBSET Nat /\ T # {}
  BY <1>1 DEF Silent
<1>3. PICK m \in T : \A d \in T : m <= d
  <2> HIDE DEF T
  <2> QED BY <1>2, Smallest
<1>4. PICK i \in 1..n : IsStatus(s[i]) /\ m = n - i
  OBVIOUS
<1>5. ASSUME NEW k \in 1..n, IsStatus(s[k]) PROVE k <= i
  <2>1. n - k \in T
    BY <1>5
  <2>2. n - i <= n - k
    BY <1>3, <1>4, <2>1
  <2> QED BY <1>1, <2>2
<1> QED BY <1>4, <1>5 DEF LastAt

LEMMA LastIs ==
    ASSUME NEW s \in Seq(Packet), NEW old
    PROVE  /\ Silent(s) => LastStatus(old, s) = old
           /\ \A i \in 1..Len(s) : LastAt(s, i) => LastStatus(old, s) = s[i].ev.data[1]
<1> DEFINE at == {i \in 1..Len(s) : s[i].ev.name = "status"}
           last == CHOOSE i \in at : \A k \in at : k <= i
<1>1. ASSUME Silent(s) PROVE LastStatus(old, s) = old
  BY <1>1 DEF Silent, IsStatus, LastStatus
<1>2. ASSUME NEW i \in 1..Len(s), LastAt(s, i) PROVE LastStatus(old, s) = s[i].ev.data[1]
  <2>1. i \in at /\ \A k \in at : k <= i
    BY <1>2 DEF LastAt, IsStatus
  <2>2. at \subseteq Int
    OBVIOUS
  <2>3. at # {} /\ LastStatus(old, s) = s[last].ev.data[1]
    BY <2>1 DEF LastStatus
  <2> HIDE DEF at
  <2>4. last \in at /\ \A k \in at : k <= last
    BY <2>1
  <2> HIDE DEF last
  <2>5. last = i
    BY <2>1, <2>2, <2>4
  <2> QED BY <2>3, <2>5
<1> QED BY <1>1, <1>2

\* One more packet.
LEMMA LastOfAppend ==
    ASSUME NEW s \in Seq(Packet), NEW p \in Packet, NEW old
    PROVE  LastStatus(old, Append(s, p)) = IF IsStatus(p) THEN p.ev.data[1] ELSE LastStatus(old, s)
<1> DEFINE r == Append(s, p)
           n == Len(s)
<1>1. /\ r \in Seq(Packet) /\ n \in Nat /\ Len(r) = n + 1 /\ r[n + 1] = p
      /\ \A i \in 1..n : r[i] = s[i]
  OBVIOUS
<1> HIDE DEF r
<1>2. CASE IsStatus(p)
  <2>1. n + 1 \in 1..Len(r) /\ LastAt(r, n + 1)
    BY <1>1, <1>2 DEF LastAt
  <2> QED BY <1>1, <1>2, <2>1, LastIs DEF r
<1>3. CASE ~IsStatus(p)
  <2>1. CASE Silent(s)
    <3>1. Silent(r)
      BY <1>1, <1>3, <2>1 DEF Silent
    <3> QED BY <1>1, <1>3, <2>1, <3>1, LastIs DEF r
  <2>2. ASSUME NEW i \in 1..Len(s), LastAt(s, i) PROVE LastStatus(old, r) = LastStatus(old, s)
    <3>1. i \in 1..Len(r) /\ r[i] = s[i]
      BY <1>1
    <3>2. LastAt(r, i)
      BY <1>1, <1>3, <2>2, <3>1 DEF LastAt
    <3> QED BY <1>1, <2>2, <3>1, <3>2, LastIs
  <2> QED BY <1>3, <2>1, <2>2, LastExists DEF r
<1> QED BY <1>2, <1>3

\* One run of packets after another.
LEMMA LastOfBoth ==
    ASSUME NEW s \in Seq(Packet), NEW t \in Seq(Packet), NEW old
    PROVE  LastStatus(old, s \o t) = LastStatus(LastStatus(old, s), t)
<1> DEFINE r == s \o t
           n == Len(s)
<1>1. /\ r \in Seq(Packet) /\ n \in Nat /\ Len(t) \in Nat /\ Len(r) = n + Len(t)
      /\ \A i \in 1..n : r[i] = s[i]
      /\ \A i \in 1..Len(t) : r[n + i] = t[i]
  OBVIOUS
<1> HIDE DEF r
<1>2. \A i \in 1..Len(r) : i \in 1..n \/ (i - n \in 1..Len(t) /\ r[i] = t[i - n])
  BY <1>1
<1>3. CASE Silent(t)
  <2>0. LastStatus(LastStatus(old, s), t) = LastStatus(old, s)
    BY <1>3, LastIs
  <2>1. CASE Silent(s)
    <3>1. Silent(r)
      BY <1>1, <1>2, <1>3, <2>1 DEF Silent
    <3>2. LastStatus(old, r) = old
      BY <1>1, <3>1, LastIs
    <3>3. LastStatus(old, s) = old
      BY <2>1, LastIs
    <3> QED BY <2>0, <3>2, <3>3 DEF r
  <2>2. ASSUME NEW i \in 1..Len(s), LastAt(s, i) PROVE LastStatus(old, r) = LastStatus(old, s)
    <3>1. i \in 1..Len(r) /\ r[i] = s[i]
      BY <1>1
    <3>2. LastAt(r, i)
      BY <1>1, <1>2, <1>3, <2>2, <3>1 DEF LastAt, Silent
    <3> QED BY <1>1, <2>2, <3>1, <3>2, LastIs
  <2> QED BY <2>0, <2>1, <2>2, LastExists DEF r
<1>4. ASSUME NEW i \in 1..Len(t), LastAt(t, i)
      PROVE  LastStatus(old, r) = LastStatus(LastStatus(old, s), t)
  <2>1. PICK e \in 1..Len(r) : e = n + i /\ r[e] = t[i]
    BY <1>1
  <2>2. LastAt(r, e)
    <3>1. IsStatus(r[e])
      BY <1>4, <2>1 DEF LastAt
    <3>2. ASSUME NEW k \in 1..Len(r), IsStatus(r[k]) PROVE k <= e
      <4>1. CASE k \in 1..n
        BY <1>1, <2>1, <4>1
      <4>2. CASE k - n \in 1..Len(t) /\ r[k] = t[k - n]
        <5>1. k - n <= i
          BY <1>4, <3>2, <4>2 DEF LastAt
        <5> QED BY <1>1, <2>1, <5>1
      <4> QED BY <1>2, <4>1, <4>2
    <3> QED BY <3>1, <3>2 DEF LastAt
  <2>3. LastStatus(old, r) = r[e].ev.data[1]
    BY <1>1, <2>2, LastIs
  <2>4. LastStatus(LastStatus(old, s), t) = t[i].ev.data[1]
    BY <1>4, LastIs
  <2> QED BY <2>1, <2>3, <2>4
<1> QED BY <1>3, <1>4, LastExists DEF r

\* The first packets of a sequence, as a sequence.
LEMMA Prefix ==
    ASSUME NEW s \in Seq(Packet), NEW m \in 0..Len(s)
    PROVE  /\ SubSeq(s, 1, m) \in Seq(Packet) /\ Len(SubSeq(s, 1, m)) = m
           /\ \A k \in 1..m : SubSeq(s, 1, m)[k] = s[k]
<1>1. Len(s) \in Nat /\ m \in Nat
  OBVIOUS
<1>2. \A k \in 1..m : s[k] \in Packet
  BY <1>1
<1>3. /\ SubSeq(s, 1, m) \in Seq(Packet)
      /\ Len(SubSeq(s, 1, m)) = IF 1 <= m THEN m - 1 + 1 ELSE 0
      /\ \A k \in 1..(m - 1 + 1) : SubSeq(s, 1, m)[k] = s[1 + k - 1]
  BY <1>1, <1>2, SubSeqProperties
<1> QED BY <1>1, <1>3

LEMMA PrefixOfAppend ==
    ASSUME NEW s \in Seq(Packet), NEW p \in Packet, NEW m \in 0..Len(s)
    PROVE  SubSeq(Append(s, p), 1, m) = SubSeq(s, 1, m)
<1> DEFINE r == Append(s, p)
<1>1. r \in Seq(Packet) /\ Len(s) \in Nat /\ Len(r) = Len(s) + 1 /\ \A i \in 1..Len(s) : r[i] = s[i]
  OBVIOUS
<1> HIDE DEF r
<1>2. m \in 0..Len(r)
  BY <1>1
<1>3. PICK a \in Seq(Packet) : a = SubSeq(r, 1, m) /\ Len(a) = m /\ \A k \in 1..m : a[k] = r[k]
  BY <1>1, <1>2, Prefix
<1>4. PICK b \in Seq(Packet) : b = SubSeq(s, 1, m) /\ Len(b) = m /\ \A k \in 1..m : b[k] = s[k]
  BY Prefix
<1>5. \A k \in 1..Len(a) : a[k] = b[k]
  BY <1>1, <1>3, <1>4
<1>6. a = b
  BY <1>3, <1>4, <1>5, SeqEqual
<1> QED BY <1>3, <1>4, <1>6 DEF r

LEMMA PrefixOfBoth ==
    ASSUME NEW s \in Seq(Packet), NEW t \in Seq(Packet), NEW m \in 0..Len(t)
    PROVE  SubSeq(s \o t, 1, Len(s) + m) = s \o SubSeq(t, 1, m)
<1> DEFINE r == s \o t
           n == Len(s)
<1>1. /\ r \in Seq(Packet) /\ n \in Nat /\ Len(t) \in Nat /\ Len(r) = n + Len(t)
      /\ \A i \in 1..n : r[i] = s[i]
      /\ \A i \in 1..Len(t) : r[n + i] = t[i]
  OBVIOUS
<1> HIDE DEF r
<1>2. PICK e \in 0..Len(r) : e = n + m
  BY <1>1
<1>3. PICK a \in Seq(Packet) : a = SubSeq(r, 1, e) /\ Len(a) = e /\ \A k \in 1..e : a[k] = r[k]
  BY <1>1, Prefix
<1>4. PICK b \in Seq(Packet) : b = SubSeq(t, 1, m) /\ Len(b) = m /\ \A k \in 1..m : b[k] = t[k]
  BY Prefix
<1>5. PICK d \in Seq(Packet) : /\ d = s \o b /\ Len(d) = n + m
                               /\ \A i \in 1..n : d[i] = s[i]
                               /\ \A i \in 1..m : d[n + i] = b[i]
  <2> DEFINE d == s \o b
  <2>1. /\ d \in Seq(Packet) /\ Len(d) = n + m
        /\ \A i \in 1..n : d[i] = s[i]
        /\ \A i \in 1..Len(b) : d[n + i] = b[i]
    BY <1>4
  <2> QED BY <1>4, <2>1
<1>6. ASSUME NEW k \in 1..Len(a) PROVE a[k] = d[k]
  <2>1. k \in 1..e /\ a[k] = r[k]
    BY <1>3
  <2>2. CASE k <= n
    BY <1>1, <1>2, <1>5, <2>1, <2>2
  <2>3. CASE k > n
    <3>0. k - n \in 1..m /\ k = n + (k - n)
      BY <1>1, <1>2, <2>1, <2>3
    <3>1. PICK i \in 1..m : k = n + i
      BY <3>0
    <3>2. r[k] = t[i] /\ d[k] = b[i]
      BY <1>1, <1>5, <3>1
    <3> QED BY <1>4, <2>1, <3>2
  <2> QED BY <1>1, <2>1, <2>2, <2>3
<1>7. a = d
  BY <1>2, <1>3, <1>5, <1>6, SeqEqual
<1> QED BY <1>2, <1>3, <1>4, <1>5, <1>7 DEF r

IsSample(p)   == p.ev.name = "sample"
HasNumbers(p) == p.ev.data[1] = "gpu"

\* The samples of a sequence agree with the status before them.
Agrees(old, s) ==
    \A i \in 1..Len(s) :
        IsSample(s[i]) => (HasNumbers(s[i]) <=> LastStatus(old, SubSeq(s, 1, i - 1)) = "ok")

LEMMA AgreesAppend ==
    ASSUME NEW s \in Seq(Packet), NEW p \in Packet, NEW old, Agrees(old, s),
           IsSample(p) => (HasNumbers(p) <=> LastStatus(old, s) = "ok")
    PROVE  Agrees(old, Append(s, p))
<1> DEFINE r == Append(s, p)
           n == Len(s)
<1>1. r \in Seq(Packet) /\ n \in Nat /\ Len(r) = n + 1 /\ r[n + 1] = p /\ \A i \in 1..n : r[i] = s[i]
  OBVIOUS
<1>2. \A m \in 0..n : SubSeq(r, 1, m) = SubSeq(s, 1, m)
  BY PrefixOfAppend
<1>3. SubSeq(s, 1, n) = s
  BY SubSeqFull
<1> HIDE DEF r, n
<1>4. ASSUME NEW i \in 1..Len(r), IsSample(r[i])
      PROVE  HasNumbers(r[i]) <=> LastStatus(old, SubSeq(r, 1, i - 1)) = "ok"
  <2>0. i - 1 \in 0..n
    BY <1>1
  <2>1. SubSeq(r, 1, i - 1) = SubSeq(s, 1, i - 1)
    BY <1>2, <2>0
  <2>2. CASE i \in 1..n
    <3>1. r[i] = s[i]
      BY <1>1, <2>2
    <3> QED BY <1>4, <2>1, <2>2, <3>1 DEF Agrees, n
  <2>3. CASE i = n + 1
    <3>1. r[i] = p /\ i - 1 = n
      BY <1>1, <2>3
    <3> QED BY <1>3, <1>4, <2>1, <3>1
  <2> QED BY <1>1, <2>2, <2>3
<1> QED BY <1>4 DEF Agrees, r

LEMMA AgreesAfter ==
    ASSUME NEW s \in Seq(Packet), NEW t \in Seq(Packet), NEW old, Agrees(old, s \o t)
    PROVE  Agrees(LastStatus(old, s), t)
<1> DEFINE r == s \o t
           n == Len(s)
<1>1. /\ r \in Seq(Packet) /\ n \in Nat /\ Len(t) \in Nat /\ Len(r) = n + Len(t)
      /\ \A i \in 1..Len(t) : r[n + i] = t[i]
  OBVIOUS
<1>2. \A m \in 0..Len(t) : SubSeq(r, 1, n + m) = s \o SubSeq(t, 1, m)
  BY PrefixOfBoth
<1>3. Agrees(old, r)
  OBVIOUS
<1> HIDE DEF r, n
<1>4. ASSUME NEW i \in 1..Len(t), IsSample(t[i])
      PROVE  HasNumbers(t[i]) <=> LastStatus(LastStatus(old, s), SubSeq(t, 1, i - 1)) = "ok"
  <2>1. PICK m \in 0..Len(t) : m = i - 1
    BY <1>1
  <2>2. PICK b \in Seq(Packet) : b = SubSeq(t, 1, m)
    BY Prefix
  <2>3. LastStatus(old, s \o b) = LastStatus(LastStatus(old, s), b)
    BY LastOfBoth
  <2>4. PICK k \in 1..Len(r) : k = n + i /\ r[k] = t[i]
    BY <1>1
  <2>5. k - 1 = n + m
    BY <1>1, <2>1, <2>4
  <2>6. SubSeq(r, 1, k - 1) = s \o b
    BY <1>2, <2>2, <2>5
  <2>7. HasNumbers(r[k]) <=> LastStatus(old, SubSeq(r, 1, k - 1)) = "ok"
    BY <1>3, <1>4, <2>4 DEF Agrees
  <2> QED BY <2>1, <2>2, <2>3, <2>4, <2>6, <2>7
<1> QED BY <1>4 DEF Agrees

-----------------------------------------------------------------------------
(***************************************************************************)
(* What the hardware loop offers.  A changed status goes out before the    *)
(* sample that goes with it, and the sticky status is the last one that    *)
(* went out; on the other two streams nobody publishes samples.            *)
(***************************************************************************)
StatusOf(e) == IF e = None THEN None ELSE e.data[1]
SampleOf(g) == SampleEvent(IF g = "ok" THEN "gpu" ELSE "no gpu")
StatusOffer(g) == [ev |-> StatusEvent(g), keep |-> TRUE]
SampleOffer(g) == [ev |-> SampleOf(g), keep |-> FALSE]

\* What is left to publish of a sample that reported g, when st is out.
Sampling(w, g, st) ==
    \/ w \in {<< >>, <<SampleOffer(g)>>} /\ st = g
    \/ w \in {<<StatusOffer(g)>>, <<StatusOffer(g), SampleOffer(g)>>}

NoSamples(w) == \A i \in 1..Len(w) : w[i].ev.name # "sample"

Hardware ==
    /\ \A p \in Publishers \ {"hardware"} : work[p] = << >>
    /\ Sampling(work["hardware"], lastStatus, StatusOf(sticky))
    /\ sticky \in Statuses \cup {None}
    /\ mu.todo # {} => mu.ev = sticky \/ mu.ev = SampleOf(StatusOf(sticky))

Others ==
    /\ \A p \in Publishers : NoSamples(work[p])
    /\ sticky # None => sticky.name # "sample"
    /\ mu.todo # {} => mu.ev.name # "sample"

Sources ==
    /\ stream # "jobs" => \A s \in Subjects : queue[s] = << >>
    /\ mu.todo \subseteq conns
    /\ stream = "hardware" => Hardware
    /\ stream # "hardware" => Others

\* The hub takes no event, and nobody computes one.
LEMMA SourcesSame ==
    ASSUME Sources, UNCHANGED <<stream, work, sticky, lastStatus>>,
           stream # "jobs" => queue' = queue,
           mu'.todo \subseteq conns', mu'.todo # {} => mu'.ev = mu.ev /\ mu.todo # {}
    PROVE  Sources'
<1>1. Hardware => Hardware'
  BY DEF Hardware
<1>2. Others => Others'
  BY DEF Others
<1> QED BY <1>1, <1>2 DEF Sources

LEMMA ReportSources ==
    ASSUME Assumptions, HubTypeOK, Sources, stream = "jobs", stream' = stream,
           NEW h \in Subjects, NEW j \in Jobs, NEW s \in States, Report(h, j, s)
    PROVE  Sources'
<1> DEFINE w == <<[ev |-> JobEvent(j, s), keep |-> FALSE], [ev |-> AggregateEvent(counts'), keep |-> TRUE]>>
<1>1. work' = [work EXCEPT ![h] = w] /\ UNCHANGED <<conns, sticky, mu, conn>>
  BY DEF Report, Compute
<1>2. NoSamples(w)
  <2>1. JobEvent(j, s).name # "sample" /\ AggregateEvent(counts').name # "sample"
    BY DEF JobEvent, AggregateEvent, Event
  <2>2. Len(w) = 2 /\ w[1].ev = JobEvent(j, s) /\ w[2].ev = AggregateEvent(counts')
    OBVIOUS
  <2>3. \A i \in 1..Len(w) : i = 1 \/ i = 2
    BY <2>2
  <2> HIDE DEF w
  <2> QED BY <2>1, <2>2, <2>3 DEF NoSamples
<1> HIDE DEF w
<1>3. \A p \in Publishers : NoSamples(work'[p])
  BY <1>1, <1>2 DEF Sources, Others, HubTypeOK
<1> QED BY <1>1, <1>3 DEF Sources, Others

LEMMA LogSources ==
    ASSUME HubTypeOK, Sources, NEW t \in Tags, Handle(t)
    PROVE  Sources'
<1> DEFINE w == <<[ev |-> LogEvent(t), keep |-> FALSE]>>
<1>1. /\ work' = [work EXCEPT !["log"] = w] /\ UNCHANGED <<conns, sticky, mu, stream, queue>>
      /\ stream = "logs"
  BY DEF Handle, Compute
<1>2. NoSamples(w)
  <2>1. LogEvent(t).name # "sample"
    BY DEF LogEvent
  <2>2. Len(w) = 1 /\ w[1].ev = LogEvent(t)
    OBVIOUS
  <2>3. \A i \in 1..Len(w) : i = 1
    BY <2>2
  <2> HIDE DEF w
  <2> QED BY <2>1, <2>2, <2>3 DEF NoSamples
<1> HIDE DEF w
<1>3. \A p \in Publishers : NoSamples(work'[p])
  BY <1>1, <1>2 DEF Sources, Others, HubTypeOK
<1> QED BY <1>1, <1>3 DEF Sources, Others

LEMMA Joined ==
    ASSUME NEW x \in Offer, NEW y \in Offer
    PROVE  <<x>> \o << >> = <<x>> /\ <<x>> \o <<y>> = <<x, y>>
<1>0. /\ <<x>> \in Seq(Offer) /\ Len(<<x>>) = 1 /\ <<x>>[1] = x
      /\ <<y>> \in Seq(Offer) /\ Len(<<y>>) = 1 /\ <<y>>[1] = y
      /\ <<x, y>> \in Seq(Offer) /\ Len(<<x, y>>) = 2 /\ <<x, y>>[1] = x /\ <<x, y>>[2] = y
  OBVIOUS
<1> DEFINE a == <<x>>
           b == <<y>>
           e == <<x, y>>
<1>1. a \in Seq(Offer) /\ Len(a) = 1 /\ a[1] = x
  BY <1>0
<1>2. b \in Seq(Offer) /\ Len(b) = 1 /\ b[1] = y
  BY <1>0
<1>3. e \in Seq(Offer) /\ Len(e) = 2 /\ e[1] = x /\ e[2] = y
  BY <1>0
<1> HIDE DEF a, b, e
<1>4. a \o << >> = a
  BY <1>1, ConcatEmptySeq
<1>5. /\ a \o b \in Seq(Offer) /\ Len(a \o b) = Len(a) + Len(b)
      /\ \A i \in 1..(Len(a) + Len(b)) : (a \o b)[i] = IF i <= Len(a) THEN a[i] ELSE b[i - Len(a)]
  BY <1>1, <1>2, ConcatProperties
<1> DEFINE d == a \o b
<1>6. d \in Seq(Offer) /\ Len(d) = 2 /\ d[1] = x /\ d[2] = y
  <2>1. 1 \in 1..(Len(a) + Len(b)) /\ 2 \in 1..(Len(a) + Len(b)) /\ Len(a) + Len(b) = 2
    BY <1>1, <1>2
  <2>2. d[1] = a[1] /\ d[2] = b[1]
    BY <1>1, <1>5, <2>1
  <2> QED BY <1>1, <1>2, <1>5, <2>1, <2>2
<1> HIDE DEF d
<1>7. \A i \in 1..Len(d) : d[i] = e[i]
  <2>1. \A i \in 1..Len(d) : i = 1 \/ i = 2
    BY <1>6
  <2> QED BY <1>3, <1>6, <2>1
<1>8. d = e
  BY <1>3, <1>6, <1>7, SeqEqual
<1> QED BY <1>4, <1>8 DEF a, b, d, e

LEMMA SampleSources ==
    ASSUME Assumptions, HubTypeOK, Sources, NEW smp \in Sample, RunHardware(smp)
    PROVE  Sources'
<1> DEFINE g == smp.gpu
           w == publishStatus(g) \o publishSample(smp)
<1>1. /\ work' = [work EXCEPT !["hardware"] = w] /\ UNCHANGED <<conns, sticky, mu, stream, queue>>
      /\ stream = "hardware" /\ lastStatus' = g /\ work["hardware"] = << >>
  BY DEF RunHardware, Compute, Idle
<1>2. "hardware" \in Publishers /\ work \in [Publishers -> Seq(Offer)]
  BY DEF Assumptions, TelemetryAssumption, HubTypeOK
<1>3. StatusOf(sticky) = lastStatus
  BY <1>1 DEF Sources, Hardware, Sampling
<1>4. Sampling(w, g, StatusOf(sticky))
  <2>1. publishStatus(g) = IF g = lastStatus THEN << >> ELSE <<StatusOffer(g)>>
    BY DEF publishStatus, StatusOffer
  <2>2. publishSample(smp) \in {<< >>, <<SampleOffer(g)>>}
    BY DEF publishSample, SampleOffer, SampleOf
  <2>3. CASE g = lastStatus
    <3>1. w = publishSample(smp)
      BY <2>1, <2>2, <2>3
    <3> QED BY <1>3, <2>2, <2>3, <3>1 DEF Sampling
  <2>4. CASE g # lastStatus
    <3>0. StatusOffer(g) \in Offer /\ SampleOffer(g) \in Offer
      BY AreEvents DEF Sample, Offer, StatusOffer, SampleOffer, SampleOf
    <3>1. w \in {<<StatusOffer(g)>>, <<StatusOffer(g), SampleOffer(g)>>}
      <4>1. publishStatus(g) = <<StatusOffer(g)>>
        BY <2>1, <2>4
      <4>2. <<StatusOffer(g)>> \o << >> = <<StatusOffer(g)>>
            /\ <<StatusOffer(g)>> \o <<SampleOffer(g)>> = <<StatusOffer(g), SampleOffer(g)>>
        BY <3>0, Joined
      <4> HIDE DEF g
      <4>3. CASE publishSample(smp) = << >>
        BY <3>0, <4>1, <4>2, <4>3
      <4>4. CASE publishSample(smp) = <<SampleOffer(g)>>
        BY <3>0, <4>1, <4>2, <4>4
      <4> QED BY <2>2, <4>3, <4>4
    <3> QED BY <3>1 DEF Sampling
  <2> QED BY <2>3, <2>4
<1> HIDE DEF w, g
<1>5. Hardware'
  <2>1. \A p \in Publishers \ {"hardware"} : work'[p] = << >>
    BY <1>1, <1>2 DEF Sources, Hardware
  <2>2. work'["hardware"] = w
    BY <1>1, <1>2
  <2>3. Sampling(work["hardware"], lastStatus, StatusOf(sticky))'
    BY <1>1, <1>4, <2>2 DEF Sampling, StatusOf, StatusOffer, SampleOffer
  <2> QED BY <1>1, <2>1, <2>3 DEF Sources, Hardware, StatusOf
<1> QED BY <1>1, <1>5 DEF Sources

\* A status names a reading.
LEMMA StatusEvents ==
    ASSUME Assumptions, NEW e \in Events, e.name = "status"
    PROVE  e \in Statuses /\ e.data[1] \in Readings
<1>1. e \in JobEvents \cup Aggregates \cup LogEvents \cup Statuses \cup Samples
  BY DEF Assumptions, EventsAssumption, AllEvents
<1>2. e \notin JobEvents
  BY DEF JobEvents, JobEvent, Event
<1>3. e \notin Aggregates
  BY DEF Aggregates, AggregateEvent, Event
<1>4. e \notin LogEvents
  BY DEF LogEvents, LogEvent
<1>5. e \notin Samples
  <2>1. \A b : SampleEvent(b).name = "sample"
    BY DEF SampleEvent, Event
  <2> QED BY <2>1 DEF Samples
<1>6. e \in Statuses => e.data[1] \in Readings
  BY DEF Statuses, StatusEvent, Event
<1> QED BY <1>1, <1>2, <1>3, <1>4, <1>5, <1>6

LEMMA LockSources ==
    ASSUME Assumptions, HubTypeOK, Sources, UNCHANGED farmVars, NEW p \in Publishers, Lock(p)
    PROVE  Sources'
<1>0. "hardware" \in Publishers /\ work \in [Publishers -> Seq(Offer)]
  BY DEF Assumptions, TelemetryAssumption, HubTypeOK
<1>1. /\ work[p] # << >> /\ work' = [work EXCEPT ![p] = Tail(work[p])]
      /\ mu' = [by |-> p, ev |-> Head(work[p]).ev, todo |-> conns, at |-> None]
      /\ sticky' = IF Head(work[p]).keep THEN Head(work[p]).ev ELSE sticky
      /\ UNCHANGED <<conns, stream, queue, lastStatus>>
  BY DEF Lock, farmVars
<1>2. mu'.ev = Head(work[p]).ev /\ mu'.todo = conns
  BY <1>1
<1>3. ASSUME stream = "hardware" PROVE Hardware'
  <2>0. Hardware
    BY <1>3 DEF Sources
  <2>1. p = "hardware"
    BY <1>1, <2>0 DEF Hardware
  <2>2. \A r \in Publishers \ {"hardware"} : work'[r] = << >>
    BY <1>0, <1>1, <2>0, <2>1 DEF Hardware
  <2>3. work'["hardware"] = Tail(work["hardware"])
    BY <1>0, <1>1, <2>1
  <2>4. CASE work["hardware"] = <<SampleOffer(lastStatus)>> /\ StatusOf(sticky) = lastStatus
    <3>1. Head(work[p]) = SampleOffer(lastStatus) /\ Tail(work[p]) = << >>
      BY <2>1, <2>4
    <3>2. sticky' = sticky /\ mu'.ev = SampleOf(lastStatus)
      BY <1>1, <1>2, <3>1 DEF SampleOffer
    <3>3. work'["hardware"] = << >> /\ StatusOf(sticky') = lastStatus'
      BY <1>1, <2>1, <2>3, <2>4, <3>1, <3>2
    <3>4. Sampling(work'["hardware"], lastStatus', StatusOf(sticky'))
      BY <3>3 DEF Sampling
    <3>5. sticky' \in Statuses \cup {None} /\ mu'.ev = SampleOf(StatusOf(sticky'))
      BY <1>1, <2>0, <2>4, <3>2 DEF Hardware
    <3> QED BY <2>2, <3>4, <3>5 DEF Hardware, Sampling, StatusOf, SampleOffer, StatusOffer
  <2>5. CASE work["hardware"] \in {<<StatusOffer(lastStatus)>>, <<StatusOffer(lastStatus), SampleOffer(lastStatus)>>}
    <3>1. /\ Head(work[p]) = StatusOffer(lastStatus)
          /\ Tail(work[p]) \in {<< >>, <<SampleOffer(lastStatus)>>}
      <4>1. CASE work["hardware"] = <<StatusOffer(lastStatus)>>
        BY <2>1, <4>1
      <4>2. CASE work["hardware"] = <<StatusOffer(lastStatus), SampleOffer(lastStatus)>>
        BY <2>1, <4>2
      <4> QED BY <2>5, <4>1, <4>2
    <3>2. sticky' = StatusEvent(lastStatus) /\ mu'.ev = sticky'
      BY <1>1, <1>2, <3>1 DEF StatusOffer
    <3>3. StatusOffer(lastStatus) \in Offer
      <4>1. work["hardware"][1] = StatusOffer(lastStatus) /\ work["hardware"] # << >>
        BY <2>5
      <4> QED BY <1>0, <4>1
    <3>4. sticky' \in Statuses /\ sticky' # None /\ StatusOf(sticky') = lastStatus
      <4>1. StatusEvent(lastStatus) \in Events
        BY <3>3 DEF Offer, StatusOffer
      <4>2. StatusEvent(lastStatus).name = "status" /\ StatusEvent(lastStatus).data = <<lastStatus>>
        BY DEF StatusEvent, Event
      <4>3. StatusEvent(lastStatus) # None
        BY <4>1 DEF Assumptions, HubAssumption
      <4>4. StatusEvent(lastStatus) \in Statuses
        BY <4>1, <4>2, StatusEvents
      <4> QED BY <3>2, <4>2, <4>3, <4>4 DEF StatusOf
    <3>5. Sampling(work'["hardware"], lastStatus', StatusOf(sticky'))
      BY <1>1, <2>1, <2>3, <3>1, <3>4 DEF Sampling
    <3> QED BY <2>2, <3>2, <3>4, <3>5 DEF Hardware, Sampling, StatusOf, SampleOffer, StatusOffer
  <2> QED BY <1>1, <2>0, <2>1, <2>4, <2>5 DEF Hardware, Sampling
<1>4. ASSUME stream # "hardware" PROVE Others'
  <2>0. Others
    BY <1>4 DEF Sources
  <2>1. PICK w \in Seq(Offer) : w = work[p]
    BY <1>0
  <2>2. NoSamples(w) /\ w # << >>
    BY <1>1, <2>0, <2>1 DEF Others
  <2>3. NoSamples(Tail(w)) /\ Head(w).ev.name # "sample"
    <3>1. /\ Len(w) \in Nat /\ Len(Tail(w)) \in Nat /\ Len(w) = Len(Tail(w)) + 1
          /\ \A i \in 1..Len(Tail(w)) : Tail(w)[i] = w[i + 1]
          /\ Head(w) = w[1]
      BY <2>2
    <3> QED BY <2>2, <3>1 DEF NoSamples
  <2>4. \A r \in Publishers : NoSamples(work'[r])
    BY <1>0, <1>1, <2>0, <2>1, <2>3 DEF Others
  <2>5. sticky' # None => sticky'.name # "sample"
    BY <1>1, <2>0, <2>1, <2>3 DEF Others
  <2> QED BY <1>2, <2>1, <2>3, <2>4, <2>5 DEF Others
<1> QED BY <1>1, <1>2, <1>3, <1>4 DEF Sources

LEMMA SourcesStep ==
    ASSUME Assumptions, FarmTypeOK, HubTypeOK, Sources, [Next]_vars
    PROVE  Sources'
<1>0. mu.todo \subseteq conns
  BY DEF Sources
<1>1. ASSUME UNCHANGED <<stream, work, sticky, lastStatus, mu, conns>>, stream # "jobs" => queue' = queue
      PROVE  Sources'
  BY <1>0, <1>1, SourcesSame
<1>2. ASSUME NEW j \in Jobs, NEW s \in States, PublishState(j, s) PROVE Sources'
  BY <1>1, <1>2 DEF PublishState, hubVars
<1>3. ASSUME NEW j \in Jobs, PublishProgress(j) PROVE Sources'
  BY <1>1, <1>3 DEF PublishProgress, hubVars
<1>4. ASSUME NEW s \in Subjects, Lose(s) PROVE Sources'
  <2>1. stream = "jobs"
    BY <1>4 DEF Lose, Sources
  <2> QED BY <1>1, <1>4, <2>1 DEF Lose, hubVars
<1>5. CASE HandleState
  <2>1. PICK m \in Message : m = Head(queue["state"])
    BY <1>5, QueueType DEF HandleState, Subjects
  <2>2. m.job \in Jobs /\ m.state \in States /\ "state" \in Subjects
    BY DEF Message, Subjects
  <2>3. Report("state", m.job, m.state) /\ stream' = stream
    BY <1>5, <2>1 DEF HandleState
  <2>4. stream = "jobs"
    BY <1>5, <2>2 DEF HandleState, Sources
  <2> QED BY <2>2, <2>3, <2>4, ReportSources
<1>6. CASE HandleProgress
  <2>1. PICK m \in Message : m = Head(queue["progress"])
    BY <1>6, QueueType DEF HandleProgress, Subjects
  <2>2. m.job \in Jobs /\ "running" \in States /\ "progress" \in Subjects
    BY DEF Message, Subjects, States
  <2>3. Report("progress", m.job, "running") /\ stream' = stream
    BY <1>6, <2>1 DEF HandleProgress
  <2>4. stream = "jobs"
    BY <1>6, <2>2 DEF HandleProgress, Sources
  <2> QED BY <2>2, <2>3, <2>4, ReportSources
<1>7. ASSUME NEW t \in Tags, Handle(t) PROVE Sources'
  BY <1>7, LogSources
<1>8. ASSUME NEW smp \in Sample, RunHardware(smp) PROVE Sources'
  BY <1>8, SampleSources
<1>9. CASE Publishing /\ UNCHANGED farmVars
  <2>0. UNCHANGED <<stream, queue, lastStatus>>
    BY <1>9 DEF farmVars
  <2>1. ASSUME NEW p \in Publishers, Lock(p) PROVE Sources'
    BY <1>9, <2>1, LockSources
  <2>2. ASSUME NEW p \in Publishers, Unlock(p) PROVE Sources'
    <3>1. mu' = Free /\ mu'.todo = {} /\ UNCHANGED <<conns, sticky, work>>
      BY <2>2 DEF Unlock, Free
    <3> QED BY <2>0, <3>1, SourcesSame
  <2>3. ASSUME NEW c \in Conns, Push(c) \/ Signal(c) PROVE Sources'
    <3>0. mu \in Mu
      BY DEF HubTypeOK
    <3>1. mu'.todo \subseteq mu.todo /\ mu'.ev = mu.ev /\ UNCHANGED <<conns, sticky, work>>
      BY <2>3, <3>0 DEF Push, Signal, Mu
    <3> QED BY <1>0, <2>0, <3>1, SourcesSame
  <2> QED BY <1>9, <2>1, <2>2, <2>3 DEF Publishing
<1>10. ASSUME NEW c \in Conns, NEW f \in Tags \cup {None}, ServeSSE(c, f) PROVE Sources'
  <2>1. UNCHANGED <<stream, queue, lastStatus, sticky, mu, work>> /\ conns' = conns \cup {c}
    BY <1>10 DEF ServeSSE, Subscribe, farmVars
  <2> QED BY <1>0, <2>1, SourcesSame
<1>11. ASSUME NEW c \in Conns, (Select(c) \/ Drain(c) \/ Leave(c)) /\ UNCHANGED farmVars PROVE Sources'
  BY <1>1, <1>11 DEF Select, Drain, Leave, farmVars
<1>12. ASSUME NEW c \in Conns, WriteEvents(c) PROVE Sources'
  BY <1>1, <1>12 DEF WriteEvents, Flush
<1>13. ASSUME NEW c \in Conns, EndStream(c) PROVE Sources'
  <2>1. UNCHANGED <<stream, queue, lastStatus, sticky, mu, work>> /\ mu.todo = {}
    BY <1>13 DEF EndStream, Unsubscribe, Free
  <2> QED BY <2>1, SourcesSame
<1>14. CASE UNCHANGED vars
  BY <1>1, <1>14 DEF vars, hubVars, farmVars
<1> QED BY <1>2, <1>3, <1>4, <1>5, <1>6, <1>7, <1>8, <1>9, <1>10, <1>11, <1>12, <1>13, <1>14 DEF Next

-----------------------------------------------------------------------------
(***************************************************************************)
(* The clients.  One that was told of no drop has all the packets since it *)
(* subscribed: at the end of its line it knows the sticky status, unless   *)
(* that status is still on its way to it.                                  *)
(***************************************************************************)
NoDrops(x)    == x.announced + x.lost + x.dropped = 0
Line(x)       == x.evs \o x.buf
Honest(x, t)  == NoDrops(x) => Agrees(t, Line(x))
Seen(x, t, v) == NoDrops(x) => LastStatus(t, Line(x)) = v

OnItsWay(c) == c \in mu.todo /\ mu.ev.name = "status"

Clients ==
    /\ told \in [Conns -> Readings \cup {None}]
    /\ \A c \in Conns : Honest(conn[c], told[c])
    /\ \A c \in Conns : conn[c].pc = "off" => told[c] = None /\ c \notin conns
    /\ stream = "hardware" =>
          /\ \A c \in Conns : conn[c].filter = None
          /\ \A c \in conns : OnItsWay(c) \/ Seen(conn[c], told[c], StatusOf(sticky))

LEMMA ConnFields ==
    ASSUME NEW x \in Conn
    PROVE  /\ x.evs \in Seq(Packet) /\ x.buf \in Seq(Packet) /\ Line(x) \in Seq(Packet)
           /\ x.announced \in Nat /\ x.lost \in Nat /\ x.dropped \in Nat /\ x.accepted \in Nat
<1>1. /\ x.evs \in Seq(Packet) /\ x.buf \in Seq(Packet)
      /\ x.announced \in Nat /\ x.lost \in Nat /\ x.dropped \in Nat /\ x.accepted \in Nat
  BY DEF Conn
<1> QED BY <1>1, ConcatProperties DEF Line

LEMMA JoinAppend ==
    ASSUME NEW s \in Seq(Packet), NEW t \in Seq(Packet), NEW p \in Packet
    PROVE  s \o Append(t, p) = Append(s \o t, p)
<1> DEFINE b == Append(t, p)
           l == s \o b
           u == s \o t
           r == Append(u, p)
           n == Len(s)
<1>1. /\ b \in Seq(Packet) /\ Len(t) \in Nat /\ Len(b) = Len(t) + 1 /\ b[Len(t) + 1] = p
      /\ \A i \in 1..Len(t) : b[i] = t[i]
  OBVIOUS
<1> HIDE DEF b
<1>0. n \in Nat
  OBVIOUS
<1>2. /\ l \in Seq(Packet) /\ Len(l) = n + Len(b)
      /\ \A i \in 1..(n + Len(b)) : l[i] = IF i <= n THEN s[i] ELSE b[i - n]
  BY <1>1, ConcatProperties
<1>3. /\ u \in Seq(Packet) /\ Len(u) = n + Len(t)
      /\ \A i \in 1..(n + Len(t)) : u[i] = IF i <= n THEN s[i] ELSE t[i - n]
  BY <1>1, ConcatProperties
<1> HIDE DEF l, u
<1>4. /\ r \in Seq(Packet) /\ Len(r) = Len(u) + 1 /\ r[Len(u) + 1] = p
      /\ \A i \in 1..Len(u) : r[i] = u[i]
  BY <1>3
<1> HIDE DEF r, n
<1>5. ASSUME NEW i \in 1..Len(l) PROVE l[i] = r[i]
  <2>0. i \in 1..(n + Len(t) + 1)
    BY <1>0, <1>1, <1>2
  <2>1. CASE i <= n
    <3>1. i \in 1..Len(u) /\ i \in 1..(n + Len(b)) /\ i \in 1..(n + Len(t))
      BY <1>0, <1>1, <1>3, <2>0, <2>1
    <3> QED BY <1>2, <1>3, <1>4, <2>1, <3>1
  <2>2. CASE i > n /\ i <= n + Len(t)
    <3>1. i - n \in 1..Len(t) /\ i \in 1..Len(u)
      BY <1>0, <1>1, <1>2, <1>3, <2>2
    <3> QED BY <1>1, <1>2, <1>3, <1>4, <2>2, <3>1
  <2>3. CASE i = n + Len(t) + 1
    BY <1>0, <1>1, <1>2, <1>3, <1>4, <2>3
  <2> QED BY <1>0, <1>1, <2>0, <2>1, <2>2, <2>3
<1>6. l = r
  <2>1. Len(l) = Len(r)
    BY <1>0, <1>1, <1>2, <1>3, <1>4
  <2> QED BY <1>2, <1>4, <1>5, <2>1, SeqEqual
<1> QED BY <1>6 DEF l, r, u, b

\* Push at the end of the line, unless it drops a packet.
LEMMA PushedLine ==
    ASSUME HubAssumption, NEW x \in Conn, NEW ev \in Events, NEW y, y = Pushed(x, ev)
    PROVE  /\ y \in Conn /\ y.pc = x.pc /\ y.filter = x.filter
           /\ NoDrops(y) => /\ NoDrops(x)
                            /\ \E p \in Packet : p.ev = ev /\ Line(y) = Append(Line(x), p)
<1> DEFINE p    == [ev |-> ev, n |-> x.accepted + 1]
           full == Len(x.buf) >= BufSize
           kept == IF full THEN Tail(x.buf) ELSE x.buf
           d    == IF full THEN x.dropped + 1 ELSE x.dropped
<1>1. /\ x.evs \in Seq(Packet) /\ x.buf \in Seq(Packet) /\ Line(x) \in Seq(Packet)
      /\ x.announced \in Nat /\ x.lost \in Nat /\ x.dropped \in Nat /\ x.accepted \in Nat
  BY ConnFields
<1>2. p \in Packet /\ p.ev = ev /\ x.accepted + 1 \in Nat /\ d \in Nat
  BY <1>1 DEF Packet
<1>3. kept \in Seq(Packet)
  <2>1. CASE full
    <3>1. x.buf # << >>
      BY <2>1 DEF HubAssumption
    <3> QED BY <1>1, <2>1, <3>1
  <2>2. CASE ~full
    BY <1>1, <2>2
  <2> QED BY <2>1, <2>2
<1>4. y = Buffering(x, Append(kept, p), d, x.accepted + 1)
  BY DEF Pushed, Buffering
<1>5. Append(kept, p) \in Seq(Packet)
  BY <1>2, <1>3
<1> HIDE DEF p
<1>6. SameButBuffer(y, x, Append(kept, p), d, x.accepted + 1)
  <2> HIDE DEF kept, d
  <2> QED BY <1>2, <1>4, <1>5, BufferingFields
<1>7. ASSUME NoDrops(y) PROVE NoDrops(x) /\ kept = x.buf
  <2>1. x.announced + x.lost + d = 0
    BY <1>6, <1>7 DEF NoDrops, SameButBuffer
  <2>2. ~full
    BY <1>1, <2>1
  <2> QED BY <2>1, <2>2 DEF NoDrops
<1>8. ASSUME NoDrops(y) PROVE Line(y) = Append(Line(x), p)
  <2>1. Line(y) = x.evs \o Append(x.buf, p)
    BY <1>6, <1>7, <1>8 DEF Line, SameButBuffer
  <2> QED BY <1>1, <1>2, <2>1, JoinAppend DEF Line
<1> QED BY <1>2, <1>6, <1>7, <1>8 DEF SameButBuffer

\* A move of the loop that touches neither packets nor drops.
LEMMA SameLine ==
    ASSUME NEW x, NEW y, NEW t, y.evs = x.evs, y.buf = x.buf, y.announced = x.announced,
           y.lost = x.lost, y.dropped = x.dropped
    PROVE  /\ Honest(x, t) => Honest(y, t)
           /\ \A v : Seen(x, t, v) => Seen(y, t, v)
BY DEF Honest, Seen, NoDrops, Line

\* The line between a drain and the flush.
LEMMA DrainedLine ==
    ASSUME NEW x \in Conn, x.evs = << >>, x.lost = 0, NEW t,
           NEW y \in Conn, y.evs = x.buf, y.lost = x.dropped, y.buf = << >>, y.dropped = 0,
           y.announced = x.announced
    PROVE  /\ Honest(x, t) => Honest(y, t)
           /\ \A v : Seen(x, t, v) => Seen(y, t, v)
<1>1. x.buf \in Seq(Packet) /\ x.announced \in Nat /\ x.dropped \in Nat
  BY ConnFields
<1>2. Line(y) = x.buf /\ Line(x) = x.buf
  BY <1>1, ConcatEmptySeq DEF Line
<1>3. NoDrops(y) => NoDrops(x)
  BY <1>1 DEF NoDrops
<1> QED BY <1>2, <1>3 DEF Honest, Seen

LEMMA FlushedLine ==
    ASSUME NEW x \in Conn, NEW t,
           NEW y \in Conn, y.evs = << >>, y.lost = 0, y.buf = x.buf, y.dropped = x.dropped,
           y.announced = x.announced + x.lost
    PROVE  /\ Honest(x, t) => Honest(y, LastStatus(t, x.evs))
           /\ \A v : Seen(x, t, v) => Seen(y, LastStatus(t, x.evs), v)
<1>1. x.evs \in Seq(Packet) /\ x.buf \in Seq(Packet)
      /\ x.announced \in Nat /\ x.lost \in Nat /\ x.dropped \in Nat
  BY ConnFields
<1>2. Line(y) = x.buf
  BY <1>1, ConcatEmptySeq DEF Line
<1>3. NoDrops(y) => NoDrops(x)
  BY <1>1 DEF NoDrops
<1>4. Agrees(t, Line(x)) => Agrees(LastStatus(t, x.evs), x.buf)
  BY <1>1, AgreesAfter DEF Line
<1>5. LastStatus(t, Line(x)) = LastStatus(LastStatus(t, x.evs), x.buf)
  BY <1>1, LastOfBoth DEF Line
<1> QED BY <1>2, <1>3, <1>4, <1>5 DEF Honest, Seen

\* A step that moves one client.
LEMMA ClientMoves ==
    ASSUME HubTypeOK, Clients, stream' = stream, sticky' = sticky,
           NEW c \in Conns, NEW y \in Conn, NEW v \in Readings \cup {None},
           conn' = [conn EXCEPT ![c] = y], told' = [told EXCEPT ![c] = v],
           conns' \subseteq conns \cup {c},
           \A d \in Conns \ {c} : OnItsWay(d) => OnItsWay(d)',
           Honest(y, v), y.pc = "off" => v = None /\ c \notin conns',
           stream = "hardware" => /\ y.filter = None
                                  /\ c \in conns' => OnItsWay(c)' \/ Seen(y, v, StatusOf(sticky))
    PROVE  Clients'
<1>0. conn \in [Conns -> Conn] /\ told \in [Conns -> Readings \cup {None}] /\ conns \subseteq Conns
  BY DEF HubTypeOK, Clients
<1>1. conn'[c] = y /\ told'[c] = v
  BY <1>0
<1>2. \A d \in Conns \ {c} : conn'[d] = conn[d] /\ told'[d] = told[d]
  BY <1>0
<1>3. told' \in [Conns -> Readings \cup {None}]
  BY <1>0
<1>4. ASSUME NEW d \in Conns
      PROVE  /\ Honest(conn'[d], told'[d])
             /\ conn'[d].pc = "off" => told'[d] = None /\ d \notin conns'
  <2>1. CASE d = c
    BY <1>1, <2>1
  <2>2. CASE d # c
    BY <1>2, <2>2 DEF Clients
  <2> QED BY <2>1, <2>2
<1>5. ASSUME stream = "hardware", NEW d \in Conns
      PROVE  /\ conn'[d].filter = None
             /\ d \in conns' => OnItsWay(d)' \/ Seen(conn'[d], told'[d], StatusOf(sticky))
  <2>1. CASE d = c
    BY <1>1, <1>5, <2>1
  <2>2. CASE d # c
    <3>1. OnItsWay(d) => OnItsWay(d)'
      BY <2>2
    <3>2. d \in conns' => d \in conns
      BY <2>2
    <3>3. d \in conns => OnItsWay(d) \/ Seen(conn[d], told[d], StatusOf(sticky))
      BY <1>5 DEF Clients
    <3> QED BY <1>2, <1>5, <2>2, <3>1, <3>2, <3>3 DEF Clients
  <2> QED BY <2>1, <2>2
<1>6. StatusOf(sticky)' = StatusOf(sticky)
  BY DEF StatusOf
<1>7. \A d \in Conns : Honest(conn[d], told[d])'
  BY <1>4 DEF Honest, NoDrops, Line
<1>8. conns' \subseteq Conns
  BY <1>0
<1>9. ASSUME stream = "hardware", NEW d \in conns' PROVE OnItsWay(d)' \/ Seen(conn[d], told[d], StatusOf(sticky))'
  <2>1. d \in Conns
    BY <1>8
  <2>2. OnItsWay(d)' \/ Seen(conn'[d], told'[d], StatusOf(sticky)')
    BY <1>5, <1>6, <1>9, <2>1
  <2> QED BY <2>2 DEF Seen, NoDrops, Line
<1> QED BY <1>3, <1>4, <1>5, <1>7, <1>9 DEF Clients

\* The same when the client has been told nothing new.
LEMMA ClientWaits ==
    ASSUME HubTypeOK, Clients, UNCHANGED <<stream, sticky, told, conns>>,
           NEW c \in Conns, NEW y \in Conn, conn' = [conn EXCEPT ![c] = y],
           \A d \in Conns : OnItsWay(d) => OnItsWay(d)',
           y.pc = "off" => conn[c].pc = "off", y.filter = conn[c].filter,
           Honest(conn[c], told[c]) => Honest(y, told[c]),
           \A v : Seen(conn[c], told[c], v) => Seen(y, told[c], v)
    PROVE  Clients'
<1>1. told' = [told EXCEPT ![c] = told[c]] /\ told[c] \in Readings \cup {None}
  BY DEF Clients
<1>2. Honest(y, told[c])
  BY DEF Clients
<1>3. stream = "hardware" => /\ y.filter = None
                             /\ c \in conns' => OnItsWay(c)' \/ Seen(y, told[c], StatusOf(sticky))
  BY DEF Clients
<1>4. y.pc = "off" => told[c] = None /\ c \notin conns'
  BY DEF Clients
<1> QED BY <1>1, <1>2, <1>3, <1>4, ClientMoves

LEMMA LoopClients ==
    ASSUME HubInv, Clients, UNCHANGED farmVars, NEW c \in Conns,
           Signal(c) \/ Select(c) \/ Drain(c) \/ Leave(c)
    PROVE  Clients'
<1> DEFINE x == conn[c]
<1>0. HubTypeOK /\ x \in Conn /\ ConnOK(x) /\ mu \in Mu
  BY DEF HubInv, HubTypeOK
<1>1. UNCHANGED <<stream, sticky, told, conns>>
  BY DEF farmVars, Signal, Select, Drain, Leave
<1>2. mu'.todo = mu.todo /\ mu'.ev = mu.ev
  BY <1>0 DEF Signal, Select, Drain, Leave, Mu
<1>3. \A d \in Conns : OnItsWay(d) => OnItsWay(d)'
  BY <1>2 DEF OnItsWay
<1>4. CASE Signal(c)
  <2> DEFINE y == [x EXCEPT !.notify = TRUE]
  <2>1. conn' = [conn EXCEPT ![c] = y]
    BY <1>4 DEF Signal
  <2>2. /\ y \in Conn /\ y.pc = x.pc /\ y.filter = x.filter /\ y.evs = x.evs /\ y.buf = x.buf
        /\ y.announced = x.announced /\ y.lost = x.lost /\ y.dropped = x.dropped
    BY <1>0 DEF Conn
  <2> HIDE DEF y
  <2>3. y.pc = "off" => x.pc = "off"
    BY <2>2
  <2> QED BY <1>0, <1>1, <1>3, <2>1, <2>2, <2>3, SameLine, ClientWaits
<1>5. CASE Select(c)
  <2> DEFINE y == [x EXCEPT !.notify = FALSE, !.pc = "drain"]
  <2>1. conn' = [conn EXCEPT ![c] = y]
    BY <1>5 DEF Select
  <2>2. /\ y \in Conn /\ y.pc = "drain" /\ y.filter = x.filter /\ y.evs = x.evs /\ y.buf = x.buf
        /\ y.announced = x.announced /\ y.lost = x.lost /\ y.dropped = x.dropped
    BY <1>0 DEF Conn
  <2> HIDE DEF y
  <2>3. y.pc = "off" => x.pc = "off"
    BY <2>2
  <2> QED BY <1>0, <1>1, <1>3, <2>1, <2>2, <2>3, SameLine, ClientWaits
<1>6. CASE Leave(c)
  <2> DEFINE y == [x EXCEPT !.pc = "leave"]
  <2>1. conn' = [conn EXCEPT ![c] = y]
    BY <1>6 DEF Leave
  <2>2. /\ y \in Conn /\ y.pc = "leave" /\ y.filter = x.filter /\ y.evs = x.evs /\ y.buf = x.buf
        /\ y.announced = x.announced /\ y.lost = x.lost /\ y.dropped = x.dropped
    BY <1>0 DEF Conn
  <2> HIDE DEF y
  <2>3. y.pc = "off" => x.pc = "off"
    BY <2>2
  <2> QED BY <1>0, <1>1, <1>3, <2>1, <2>2, <2>3, SameLine, ClientWaits
<1>7. CASE Drain(c) /\ x.dropped = 0 /\ x.buf = << >>
  <2> DEFINE y == [x EXCEPT !.pc = "select"]
  <2>1. conn' = [conn EXCEPT ![c] = y]
    BY <1>7 DEF Drain
  <2>2. /\ y \in Conn /\ y.pc = "select" /\ y.filter = x.filter /\ y.evs = x.evs /\ y.buf = x.buf
        /\ y.announced = x.announced /\ y.lost = x.lost /\ y.dropped = x.dropped
    BY <1>0 DEF Conn
  <2> HIDE DEF y
  <2>3. y.pc = "off" => x.pc = "off"
    BY <2>2
  <2> QED BY <1>0, <1>1, <1>3, <2>1, <2>2, <2>3, SameLine, ClientWaits
<1>8. CASE Drain(c) /\ ~(x.dropped = 0 /\ x.buf = << >>)
  <2> DEFINE y == [x EXCEPT !.pc = "write", !.evs = x.buf, !.lost = x.dropped,
                            !.buf = << >>, !.dropped = 0]
  <2>1. conn' = [conn EXCEPT ![c] = y]
    BY <1>8 DEF Drain
  <2>2. /\ y \in Conn /\ y.pc = "write" /\ y.filter = x.filter /\ y.evs = x.buf /\ y.buf = << >>
        /\ y.announced = x.announced /\ y.lost = x.dropped /\ y.dropped = 0
    <3>1. x.pc = "drain"
      BY <1>8 DEF Drain
    <3>2. y \in Conn
      BY <1>0, <3>1, DrainOK DEF ConnOK
    <3>3. /\ y.pc = "write" /\ y.filter = x.filter /\ y.evs = x.buf /\ y.buf = << >>
          /\ y.announced = x.announced /\ y.lost = x.dropped /\ y.dropped = 0
      BY <1>0 DEF Conn
    <3> QED BY <3>2, <3>3
  <2> HIDE DEF y
  <2>3. y.pc = "off" => x.pc = "off"
    BY <2>2
  <2>4. x.evs = << >> /\ x.lost = 0
    BY <1>0, <1>8 DEF ConnOK, HandsFree, Drain
  <2>5. /\ Honest(x, told[c]) => Honest(y, told[c])
        /\ \A v : Seen(x, told[c], v) => Seen(y, told[c], v)
    BY <1>0, <2>2, <2>4, DrainedLine
  <2> QED BY <1>0, <1>1, <1>3, <2>1, <2>2, <2>3, <2>5, ClientWaits
<1> QED BY <1>4, <1>5, <1>6, <1>7, <1>8

LEMMA LastStatusType ==
    ASSUME Assumptions, NEW s \in Seq(Packet), NEW old \in Readings \cup {None}
    PROVE  LastStatus(old, s) \in Readings \cup {None}
<1>1. CASE Silent(s)
  BY <1>1, LastIs
<1>2. ASSUME NEW i \in 1..Len(s), LastAt(s, i) PROVE LastStatus(old, s) \in Readings \cup {None}
  <2>1. s[i] \in Packet
    OBVIOUS
  <2>2. s[i].ev \in Events /\ s[i].ev.name = "status"
    BY <1>2, <2>1 DEF Packet, LastAt, IsStatus
  <2>3. s[i].ev.data[1] \in Readings
    BY <2>2, StatusEvents
  <2> QED BY <1>2, <2>3, LastIs
<1> QED BY <1>1, <1>2, LastExists

LEMMA WriteClients ==
    ASSUME Assumptions, HubInv, Clients, NEW c \in Conns, WriteEvents(c)
    PROVE  Clients'
<1> DEFINE x == conn[c]
           e == x.delivered + Len(x.evs)
           n == x.announced + x.lost
           y == [x EXCEPT !.pc = "drain", !.evs = << >>, !.lost = 0, !.delivered = e, !.announced = n]
           v == LastStatus(told[c], x.evs)
<1>0. HubTypeOK /\ x \in Conn /\ ConnOK(x)
  BY DEF HubInv, HubTypeOK
<1>1. /\ conn' = [conn EXCEPT ![c] = y] /\ told' = [told EXCEPT ![c] = v]
      /\ UNCHANGED <<stream, sticky, conns, mu>> /\ x.pc = "write"
  BY DEF WriteEvents, Flush
<1>2. v \in Readings \cup {None}
  BY <1>0, ConnFields, LastStatusType DEF Clients
<1>3. e \in Nat /\ n \in Nat
  <2>1. x.delivered \in Nat /\ x.evs \in Seq(Packet) /\ x.announced \in Nat /\ x.lost \in Nat
    BY <1>0 DEF Conn
  <2>2. Len(x.evs) \in Nat
    BY <2>1
  <2> QED BY <2>1, <2>2
<1> HIDE DEF e
<1>4. /\ y \in Conn /\ y.pc = "drain" /\ y.filter = x.filter /\ y.evs = << >> /\ y.buf = x.buf
      /\ y.announced = x.announced + x.lost /\ y.lost = 0 /\ y.dropped = x.dropped
  <2>1. y \in Conn
    BY <1>0, FlushOK DEF ConnOK, e, n
  <2>2. y.pc = "drain" /\ y.filter = x.filter /\ y.evs = << >> /\ y.buf = x.buf
    BY <1>0 DEF Conn
  <2>3. y.announced = n /\ y.lost = 0 /\ y.dropped = x.dropped
    <3> HIDE DEF n
    <3> QED BY <1>0 DEF Conn
  <2> QED BY <2>1, <2>2, <2>3
<1> HIDE DEF y
<1>5. /\ Honest(x, told[c]) => Honest(y, v)
      /\ \A w : Seen(x, told[c], w) => Seen(y, v, w)
  BY <1>0, <1>4, FlushedLine
<1> HIDE DEF v
<1>6. Honest(y, v) /\ y.pc # "off"
  BY <1>4, <1>5 DEF Clients
<1>7. \A d \in Conns : OnItsWay(d) => OnItsWay(d)'
  BY <1>1 DEF OnItsWay
<1>8. stream = "hardware" => /\ y.filter = None
                             /\ c \in conns' => OnItsWay(c)' \/ Seen(y, v, StatusOf(sticky))
  BY <1>1, <1>4, <1>5, <1>7 DEF Clients
<1> QED BY <1>0, <1>1, <1>2, <1>4, <1>6, <1>7, <1>8, ClientMoves

LEMMA EndClients ==
    ASSUME HubInv, Clients, NEW c \in Conns, EndStream(c)
    PROVE  Clients'
<1>1. /\ conn' = [conn EXCEPT ![c] = NoConn] /\ told' = [told EXCEPT ![c] = None]
      /\ UNCHANGED <<stream, sticky, mu>> /\ conns' = conns \ {c}
  BY DEF EndStream, Unsubscribe
<1>2. NoConn \in Conn /\ NoConn.filter = None
  BY DEF NoConn, Conn
<1>3. Honest(NoConn, None)
  <2>1. NoConn.evs = << >> /\ NoConn.buf = << >>
    BY DEF NoConn
  <2>2. Line(NoConn) = << >>
    BY <2>1, ConcatEmptySeq DEF Line
  <2> QED BY <2>2 DEF Honest, Agrees
<1>4. \A d \in Conns : OnItsWay(d) => OnItsWay(d)'
  BY <1>1 DEF OnItsWay
<1>5. HubTypeOK /\ None \in Readings \cup {None} /\ conns' \subseteq conns \cup {c} /\ c \notin conns'
  BY <1>1 DEF HubInv
<1> HIDE DEF HubInv
<1> QED BY <1>1, <1>2, <1>3, <1>4, <1>5, ClientMoves

LEMMA SubscribeClients ==
    ASSUME Assumptions, HubInv, Sources, Clients, NEW c \in Conns, NEW f \in Tags \cup {None}, ServeSSE(c, f)
    PROVE  Clients'
<1> DEFINE new == [NoConn EXCEPT !.pc = "select", !.filter = f]
           q == Pushed(new, sticky)
           y == [q EXCEPT !.notify = TRUE]
           joins == sticky # None /\ (f = None \/ sticky.tag = f)
<1>0. HubTypeOK /\ sticky \in Events \cup {None}
  BY DEF HubInv, HubTypeOK
<1>1. /\ conn[c].pc = "off" /\ conn' = [conn EXCEPT ![c] = IF joins THEN y ELSE new]
      /\ UNCHANGED <<stream, sticky, mu, told>> /\ conns' = conns \cup {c}
      /\ f = None \/ stream = "logs"
  BY DEF ServeSSE, Subscribe, farmVars
<1>2. told[c] = None /\ told' = [told EXCEPT ![c] = None] /\ None \in Readings \cup {None}
  BY <1>1 DEF Clients
<1>3. \A d \in Conns : OnItsWay(d) => OnItsWay(d)'
  BY <1>1 DEF OnItsWay
<1>4. new \in Conn /\ new.pc = "select" /\ new.filter = f /\ new.evs = << >> /\ new.buf = << >>
  <2>1. new \in Conn
    BY NewOK DEF ConnOK
  <2> QED BY <2>1 DEF NoConn
<1>5. Line(new) = << >>
  BY <1>4, ConcatEmptySeq DEF Line
<1>6. << >> \in Seq(Packet) /\ Agrees(None, << >>) /\ LastStatus(None, << >>) = None
  <2>1. << >> \in Seq(Packet) /\ Agrees(None, << >>) /\ Silent(<< >>)
    BY DEF Agrees, Silent
  <2> QED BY <2>1, LastIs
<1> HIDE DEF new
<1>7. CASE ~joins
  <2>1. Honest(new, None)
    BY <1>5, <1>6 DEF Honest
  <2>2. stream = "hardware" => new.filter = None /\ Seen(new, None, StatusOf(sticky))
    BY <1>1, <1>4, <1>5, <1>6, <1>7 DEF Seen, StatusOf
  <2>3. conn' = [conn EXCEPT ![c] = new] /\ new.pc # "off" /\ conns' \subseteq conns \cup {c}
    BY <1>1, <1>4, <1>7
  <2> HIDE DEF joins
  <2> QED BY <1>0, <1>1, <1>2, <1>3, <1>4, <2>1, <2>2, <2>3, ClientMoves
<1>8. CASE joins
  <2>0. sticky \in Events
    BY <1>0, <1>8
  <2>1. /\ q \in Conn /\ q.pc = "select" /\ q.filter = f
        /\ NoDrops(q) => \E p \in Packet : p.ev = sticky /\ Line(q) = Append(<< >>, p)
    <3>1. HubAssumption
      BY DEF Assumptions
    <3>2. /\ q \in Conn /\ q.pc = new.pc /\ q.filter = new.filter
          /\ NoDrops(q) => \E p \in Packet : p.ev = sticky /\ Line(q) = Append(Line(new), p)
      BY <1>4, <2>0, <3>1, PushedLine
    <3> QED BY <1>4, <1>5, <3>2
  <2> HIDE DEF q
  <2>2. /\ y \in Conn /\ y.pc = "select" /\ y.filter = f /\ y.evs = q.evs /\ y.buf = q.buf
        /\ y.announced = q.announced /\ y.lost = q.lost /\ y.dropped = q.dropped
    BY <2>1 DEF Conn
  <2> HIDE DEF y
  <2>3. sticky.name # "sample"
    <3>1. CASE stream = "hardware"
      <4>1. \A g : StatusEvent(g).name = "status"
        BY DEF StatusEvent, Event
      <4>2. sticky \in Statuses
        BY <1>8, <3>1 DEF Sources, Hardware
      <4> QED BY <4>1, <4>2 DEF Statuses
    <3>2. CASE stream # "hardware"
      BY <1>8, <3>2 DEF Sources, Others
    <3> QED BY <3>1, <3>2
  <2>4. Honest(q, None)
    <3> SUFFICES ASSUME NoDrops(q) PROVE Agrees(None, Line(q))
      BY DEF Honest
    <3>1. PICK p \in Packet : p.ev = sticky /\ Line(q) = Append(<< >>, p)
      BY <2>1
    <3>2. ~IsSample(p)
      BY <2>3, <3>1 DEF IsSample
    <3> QED BY <1>6, <3>1, <3>2, AgreesAppend
  <2>5. ASSUME stream = "hardware" PROVE Seen(q, None, StatusOf(sticky))
    <3> SUFFICES ASSUME NoDrops(q) PROVE LastStatus(None, Line(q)) = StatusOf(sticky)
      BY DEF Seen
    <3>1. PICK p \in Packet : p.ev = sticky /\ Line(q) = Append(<< >>, p)
      BY <2>1
    <3>2. sticky \in Statuses
      BY <1>8, <2>5 DEF Sources, Hardware
    <3>3. IsStatus(p)
      <4>1. \A g : StatusEvent(g).name = "status"
        BY DEF StatusEvent, Event
      <4> QED BY <3>1, <3>2, <4>1 DEF Statuses, IsStatus
    <3>4. LastStatus(None, Append(<< >>, p)) = p.ev.data[1]
      BY <1>6, <3>3, LastOfAppend
    <3> QED BY <1>8, <3>1, <3>4 DEF StatusOf
  <2>6. Honest(y, None) /\ (stream = "hardware" => y.filter = None /\ Seen(y, None, StatusOf(sticky)))
    BY <1>1, <2>2, <2>4, <2>5, SameLine
  <2>7. conn' = [conn EXCEPT ![c] = y] /\ y.pc # "off" /\ conns' \subseteq conns \cup {c}
    BY <1>1, <1>8, <2>2
  <2> HIDE DEF joins
  <2> QED BY <1>0, <1>1, <1>2, <1>3, <2>2, <2>6, <2>7, ClientMoves
<1> QED BY <1>7, <1>8

LEMMA PushClients ==
    ASSUME Assumptions, HubInv, Sources, Clients, UNCHANGED farmVars, NEW c \in Conns, Push(c)
    PROVE  Clients'
<1> DEFINE x == conn[c]
           ev == mu.ev
           t == told[c]
<1>0. /\ HubTypeOK /\ x \in Conn /\ mu \in Mu /\ c \in mu.todo /\ ev \in Events
      /\ conn \in [Conns -> Conn] /\ t \in Readings \cup {None} /\ told = [told EXCEPT ![c] = t]
  BY DEF HubInv, HubTypeOK, LoopHasEvent, Push, Clients
<1>1. /\ conn' = IF Accepts(c, ev) THEN [conn EXCEPT ![c] = Pushed(x, ev)] ELSE conn
      /\ UNCHANGED <<conns, sticky, work, stream, told>>
  BY DEF Push, farmVars
<1>2. mu'.todo = mu.todo \ {c} /\ mu'.ev = ev
  BY <1>0 DEF Push, Mu
<1>3. \A d \in Conns \ {c} : OnItsWay(d) => OnItsWay(d)'
  BY <1>2 DEF OnItsWay
<1>4. c \in conns /\ x.pc # "off"
  BY <1>0 DEF Sources, Clients
<1>5. CASE Accepts(c, ev)
  <2>1. PICK y : y = Pushed(x, ev)
    OBVIOUS
  <2>2. /\ y \in Conn /\ y.pc = x.pc /\ y.filter = x.filter
        /\ NoDrops(y) => /\ NoDrops(x)
                         /\ \E p \in Packet : p.ev = ev /\ Line(y) = Append(Line(x), p)
    BY <1>0, <2>1, PushedLine DEF Assumptions
  <2>3. ASSUME stream = "hardware"
        PROVE  \/ ev.name = "status" /\ ev.data[1] = StatusOf(sticky)
               \/ /\ ev.name = "sample" /\ (ev.data[1] = "gpu" <=> StatusOf(sticky) = "ok")
                  /\ Seen(x, t, StatusOf(sticky))
    <3>1. CASE ev = sticky
      <4>1. \A g : StatusEvent(g).name = "status"
        BY DEF StatusEvent, Event
      <4>2. sticky # None
        BY <1>0, <3>1 DEF Assumptions, HubAssumption
      <4>3. sticky \in Statuses
        BY <2>3, <4>2 DEF Sources, Hardware
      <4> QED BY <3>1, <4>1, <4>2, <4>3 DEF Statuses, StatusOf
    <3>2. CASE ev = SampleOf(StatusOf(sticky))
      <4>1. ev.name = "sample" /\ (ev.data[1] = "gpu" <=> StatusOf(sticky) = "ok")
        <5>1. \A b : SampleEvent(b).name = "sample" /\ SampleEvent(b).data[1] = b
          BY DEF SampleEvent, Event
        <5>2. "gpu" # "no gpu"
          OBVIOUS
        <5> QED BY <3>2, <5>1, <5>2 DEF SampleOf
      <4>2. ~OnItsWay(c)
        BY <4>1 DEF OnItsWay
      <4> QED BY <1>4, <2>3, <4>1, <4>2 DEF Clients
    <3> QED BY <1>0, <2>3, <3>1, <3>2 DEF Sources, Hardware
  <2>4. ev.name = "sample" => stream = "hardware"
    BY <1>0 DEF Sources, Others
  <2>5. Honest(x, t) /\ Line(x) \in Seq(Packet)
    BY <1>0, ConnFields DEF Clients
  <2>6. Honest(y, t)
    <3> SUFFICES ASSUME NoDrops(y) PROVE Agrees(t, Line(y))
      BY DEF Honest
    <3>1. PICK p \in Packet : p.ev = ev /\ Line(y) = Append(Line(x), p)
      BY <2>2
    <3>2. NoDrops(x) /\ Agrees(t, Line(x))
      BY <2>2, <2>5 DEF Honest
    <3>3. IsSample(p) => (HasNumbers(p) <=> LastStatus(t, Line(x)) = "ok")
      BY <2>3, <2>4, <3>1, <3>2 DEF IsSample, HasNumbers, Seen
    <3> QED BY <2>5, <3>1, <3>2, <3>3, AgreesAppend
  <2>7. ASSUME stream = "hardware" PROVE Seen(y, t, StatusOf(sticky))
    <3> SUFFICES ASSUME NoDrops(y) PROVE LastStatus(t, Line(y)) = StatusOf(sticky)
      BY DEF Seen
    <3>1. PICK p \in Packet : p.ev = ev /\ Line(y) = Append(Line(x), p)
      BY <2>2
    <3>2. LastStatus(t, Line(y)) = IF IsStatus(p) THEN p.ev.data[1] ELSE LastStatus(t, Line(x))
      BY <2>5, <3>1, LastOfAppend
    <3>3. NoDrops(x)
      BY <2>2
    <3> QED BY <2>3, <2>7, <3>1, <3>2, <3>3 DEF IsStatus, Seen
  <2>8. stream = "hardware" => y.filter = None
    BY <2>2 DEF Clients
  <2>9. conn' = [conn EXCEPT ![c] = y] /\ conns' \subseteq conns \cup {c} /\ y.pc # "off"
        /\ told' = [told EXCEPT ![c] = t]
    BY <1>0, <1>1, <1>4, <1>5, <2>1, <2>2
  <2> HIDE DEF t
  <2> QED BY <1>0, <1>1, <1>3, <2>2, <2>6, <2>7, <2>8, <2>9, ClientMoves
<1>6. CASE ~Accepts(c, ev)
  <2>1. conn' = conn
    BY <1>1, <1>6
  <2>2. stream # "hardware"
    BY <1>6 DEF Accepts, Clients
  <2> QED BY <1>1, <2>1, <2>2 DEF Clients, Honest, NoDrops, Line
<1> QED BY <1>5, <1>6

LEMMA LockClients ==
    ASSUME HubTypeOK, Sources, Clients, UNCHANGED farmVars, NEW p \in Publishers, Lock(p)
    PROVE  Clients'
<1>1. /\ work[p] # << >> /\ mu = Free
      /\ mu' = [by |-> p, ev |-> Head(work[p]).ev, todo |-> conns, at |-> None]
      /\ sticky' = IF Head(work[p]).keep THEN Head(work[p]).ev ELSE sticky
      /\ UNCHANGED <<conns, conn, stream, told>>
  BY DEF Lock, farmVars
<1>2. mu'.todo = conns /\ mu'.ev = Head(work[p]).ev /\ mu.todo = {}
  BY <1>1 DEF Free
<1>3. ASSUME stream = "hardware", NEW c \in conns
      PROVE  OnItsWay(c)' \/ Seen(conn[c], told[c], StatusOf(sticky))'
  <2>1. p = "hardware"
    BY <1>1, <1>3 DEF Sources, Hardware
  <2>2. Head(work[p]) \in {StatusOffer(lastStatus), SampleOffer(lastStatus)}
    <3>1. PICK w : w = work["hardware"]
      OBVIOUS
    <3>2. \/ w = <<SampleOffer(lastStatus)>> \/ w = <<StatusOffer(lastStatus)>>
          \/ w = <<StatusOffer(lastStatus), SampleOffer(lastStatus)>>
      BY <1>1, <1>3, <2>1, <3>1 DEF Sources, Hardware, Sampling
    <3>3. Head(w) \in {StatusOffer(lastStatus), SampleOffer(lastStatus)}
      BY <3>2
    <3> QED BY <2>1, <3>1, <3>3
  <2>3. CASE Head(work[p]) = StatusOffer(lastStatus)
    <3>1. mu'.ev.name = "status"
      BY <1>2, <2>3 DEF StatusOffer, StatusEvent, Event
    <3> QED BY <1>2, <1>3, <3>1 DEF OnItsWay
  <2>4. CASE Head(work[p]) = SampleOffer(lastStatus)
    <3>1. sticky' = sticky
      BY <1>1, <2>4 DEF SampleOffer
    <3>2. Seen(conn[c], told[c], StatusOf(sticky))
      BY <1>2, <1>3 DEF Clients, OnItsWay
    <3> QED BY <1>1, <3>1, <3>2 DEF Seen, NoDrops, Line, StatusOf
  <2> QED BY <2>2, <2>3, <2>4
<1>4. \A c \in Conns : Honest(conn[c], told[c])'
  BY <1>1 DEF Clients, Honest, NoDrops, Line
<1> QED BY <1>1, <1>3, <1>4 DEF Clients

LEMMA ClientsStep ==
    ASSUME Assumptions, HubInv, Sources, Clients, [Next]_vars
    PROVE  Clients'
<1>1. ASSUME UNCHANGED <<stream, told, conns, conn, sticky>>,
             \A c \in Conns : OnItsWay(c) => OnItsWay(c)'
      PROVE  Clients'
  <2>1. \A c \in Conns : Honest(conn[c], told[c])'
    BY <1>1 DEF Clients, Honest, NoDrops, Line
  <2>2. \A c \in Conns : Seen(conn[c], told[c], StatusOf(sticky)) => Seen(conn[c], told[c], StatusOf(sticky))'
    BY <1>1 DEF Seen, NoDrops, Line, StatusOf
  <2>3. conns \subseteq Conns
    BY DEF HubInv, HubTypeOK
  <2> QED BY <1>1, <2>1, <2>2, <2>3 DEF Clients
<1>2. ASSUME UNCHANGED <<stream, told, conns, conn, sticky, mu>> PROVE Clients'
  BY <1>1, <1>2 DEF OnItsWay
<1>3. ASSUME NEW j \in Jobs, NEW s \in States, PublishState(j, s) PROVE Clients'
  BY <1>2, <1>3 DEF PublishState, hubVars
<1>4. ASSUME NEW j \in Jobs, PublishProgress(j) PROVE Clients'
  BY <1>2, <1>4 DEF PublishProgress, hubVars
<1>5. ASSUME NEW s \in Subjects, Lose(s) PROVE Clients'
  BY <1>2, <1>5 DEF Lose, hubVars
<1>6. CASE HandleState
  BY <1>2, <1>6 DEF HandleState, Report, Compute
<1>7. CASE HandleProgress
  BY <1>2, <1>7 DEF HandleProgress, Report, Compute
<1>8. ASSUME NEW t \in Tags, Handle(t) PROVE Clients'
  BY <1>2, <1>8 DEF Handle, Compute
<1>9. ASSUME NEW smp \in Sample, RunHardware(smp) PROVE Clients'
  BY <1>2, <1>9 DEF RunHardware, Compute
<1>10. CASE Publishing /\ UNCHANGED farmVars
  <2>1. ASSUME NEW p \in Publishers, Lock(p) PROVE Clients'
    BY <1>10, <2>1, LockClients DEF HubInv
  <2>2. ASSUME NEW p \in Publishers, Unlock(p) PROVE Clients'
    <3>1. UNCHANGED <<stream, told, conns, conn, sticky>> /\ mu.todo = {}
      BY <1>10, <2>2 DEF Unlock, farmVars
    <3> QED BY <1>1, <3>1 DEF OnItsWay
  <2>3. ASSUME NEW c \in Conns, Push(c) PROVE Clients'
    BY <1>10, <2>3, PushClients
  <2>4. ASSUME NEW c \in Conns, Signal(c) PROVE Clients'
    BY <1>10, <2>4, LoopClients
  <2> QED BY <1>10, <2>1, <2>2, <2>3, <2>4 DEF Publishing
<1>11. ASSUME NEW c \in Conns, NEW f \in Tags \cup {None}, ServeSSE(c, f) PROVE Clients'
  BY <1>11, SubscribeClients
<1>12. ASSUME NEW c \in Conns, (Select(c) \/ Drain(c) \/ Leave(c)) /\ UNCHANGED farmVars PROVE Clients'
  BY <1>12, LoopClients
<1>13. ASSUME NEW c \in Conns, WriteEvents(c) \/ EndStream(c) PROVE Clients'
  BY <1>13, WriteClients, EndClients
<1>14. CASE UNCHANGED vars
  BY <1>2, <1>14 DEF vars, hubVars, farmVars
<1> QED BY <1>3, <1>4, <1>5, <1>6, <1>7, <1>8, <1>9, <1>10, <1>11, <1>12, <1>13, <1>14 DEF Next

HardwareInv == HubInv /\ FarmInv /\ Sources /\ Clients

LEMMA HardwareInit == ASSUME Assumptions, Init PROVE HardwareInv
<1>1. HubInv /\ FarmInv
  BY InitInv, FarmInit DEF Init
<1>2. /\ conns = {} /\ sticky = None /\ mu = Free /\ work = [p \in Publishers |-> << >>]
      /\ conn = [c \in Conns |-> NoConn] /\ told = [c \in Conns |-> None] /\ lastStatus = None
      /\ queue = [s \in Subjects |-> << >>]
  BY DEF Init, HubInit
<1>3. mu.todo = {} /\ "hardware" \in Publishers
  BY <1>2 DEF Free, Assumptions, TelemetryAssumption
<1>4. Sources
  <2>1. Hardware
    BY <1>2, <1>3 DEF Hardware, Sampling, StatusOf
  <2>2. Others
    BY <1>2, <1>3 DEF Others, NoSamples
  <2> QED BY <1>2, <1>3, <2>1, <2>2 DEF Sources
<1>5. Clients
  <2>1. NoConn.evs = << >> /\ NoConn.buf = << >> /\ NoConn.filter = None
    BY DEF NoConn
  <2>2. Line(NoConn) = << >>
    BY <2>1, ConcatEmptySeq DEF Line
  <2>3. Honest(NoConn, None)
    BY <2>2 DEF Honest, Agrees
  <2>4. \A c \in Conns : conn[c] = NoConn /\ told[c] = None
    BY <1>2
  <2> QED BY <1>2, <2>1, <2>3, <2>4 DEF Clients
<1> QED BY <1>1, <1>4, <1>5 DEF HardwareInv

LEMMA HardwareStep == ASSUME Assumptions, HardwareInv, [Next]_vars PROVE HardwareInv'
<1>1. HubInv /\ HubTypeOK /\ FarmInv /\ FarmTypeOK /\ Sources /\ Clients
  BY DEF HardwareInv, HubInv, FarmInv
<1>2. FarmInv'
  BY <1>1, FarmStep
<1>3. HubInv'
  BY <1>1, <1>2, HubStep, StepInv
<1> QED BY <1>1, <1>2, <1>3, SourcesStep, ClientsStep DEF HardwareInv

\* RunHardware, publishStatus and publishSample against Subscribe, push, Drain
\* and the flush, whatever the interleaving and the size of the buffers.
THEOREM SamplesAgree == Spec => []SampleAgreesWithStatus
<1> USE HubAssumption, TelemetryAssumption, EventsAssumption DEF Assumptions
<1>1. Init => HardwareInv
  BY HardwareInit
<1>2. HardwareInv /\ [Next]_vars => HardwareInv'
  BY HardwareStep
<1>3. HardwareInv => SampleAgreesWithStatus
  <2>1. ASSUME Clients, NEW c \in Conns PROVE Honest(conn[c], told[c])
    BY <2>1 DEF Clients
  <2> QED BY <2>1 DEF HardwareInv, SampleAgreesWithStatus, Honest, NoDrops, Agrees, Line, IsSample, HasNumbers
<1> QED BY <1>1, <1>2, <1>3, PTL DEF Spec

\* The types of the hub and of the services, the counters among them: none is
\* ever taken below zero.
THEOREM TypesHold == Spec => []TypeOK
<1> USE HubAssumption, TelemetryAssumption, EventsAssumption DEF Assumptions
<1>1. Init => HardwareInv
  BY HardwareInit
<1>2. HardwareInv /\ [Next]_vars => HardwareInv'
  BY HardwareStep
<1>3. HardwareInv => TypeOK
  BY DEF HardwareInv, HubInv, FarmInv, FarmTypeOK, Clients, TypeOK, Counts, Entries
<1> QED BY <1>1, <1>2, <1>3, PTL DEF Spec

=============================================================================
