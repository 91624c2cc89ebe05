-------------------------------- MODULE Hub --------------------------------
(***************************************************************************)
(* services/telemetry/internal/hub: the SSE fan-out behind every stream.   *)
(*                                                                         *)
(* A publisher holds h.mu while it pushes an event to one connection after *)
(* the other; a push appends under c.mu and signals after it has released  *)
(* c.mu.  The goroutine of a connection takes only c.mu, to drain, so the  *)
(* two interleave.  In main.go every hub has at most one sticky name (the  *)
(* aggregate, the hardware status, none for logs): sticky is that event.   *)
(* Heartbeats change nothing; one that cannot be written ends the loop.    *)
(***************************************************************************)
EXTENDS Naturals, Sequences

CONSTANTS
    Conns,        \* subscribers
    Publishers,   \* goroutines that call Publish and PublishSticky
    Events,       \* what they publish: records with a field tag
    Tags,         \* what a subscriber may filter on
    BufSize,      \* events a connection buffers
    None          \* no value

ASSUME HubAssumption ==
    /\ BufSize \in Nat \ {0}
    /\ None \notin Conns /\ None \notin Publishers /\ None \notin Events

VARIABLES
    conns,        \* h.conns: the registered connections
    sticky,       \* the sticky event, None before the first
    mu,           \* h.mu and the loop of the Publish that holds it
    work,         \* work[p]: what the code of p has still to publish, in order
    conn          \* conn[c]: the Conn and the loop of ServeConn

hubVars == <<conns, sticky, mu, work, conn>>

\* accepted, delivered and announced are history: the events the connection
\* took from publishers, those it flushed, and the drops it told the client.
\* A packet carries the number of its event among the accepted ones.
Packet  == [ev : Events, n : Nat]
Offer   == [ev : Events, keep : BOOLEAN]
Conn    == [pc : {"off", "select", "drain", "write", "leave"}, filter : Tags \cup {None},
            buf : Seq(Packet), dropped : Nat, notify : BOOLEAN,
            evs : Seq(Packet), lost : Nat,
            accepted : Nat, delivered : Nat, announced : Nat]
NoConn  == [pc |-> "off", filter |-> None, buf |-> << >>, dropped |-> 0, notify |-> FALSE,
            evs |-> << >>, lost |-> 0, accepted |-> 0, delivered |-> 0, announced |-> 0]
Free    == [by |-> None, ev |-> None, todo |-> {}, at |-> None]
Mu      == [by : Publishers \cup {None}, ev : Events \cup {None},
            todo : SUBSET Conns, at : Conns \cup {None}]

\* Every variable of the hub holds values of its kind.
HubTypeOK ==
    /\ conns \subseteq Conns
    /\ sticky \in Events \cup {None}
    /\ mu \in Mu
    /\ work \in [Publishers -> Seq(Offer)]
    /\ conn \in [Conns -> Conn]

HubInit ==
    /\ conns = {}
    /\ sticky = None
    /\ mu = Free
    /\ work = [p \in Publishers |-> << >>]
    /\ conn = [c \in Conns |-> NoConn]

-----------------------------------------------------------------------------
(* Conn.push and the publishers.                                           *)

Accepts(c, ev) == conn[c].filter = None \/ ev.tag = conn[c].filter

\* Mutant: the overflow is not counted.
PushedSilently(x, ev) ==
    [x EXCEPT !.buf = Append(IF Len(x.buf) >= BufSize THEN Tail(x.buf) ELSE x.buf,
                             [ev |-> ev, n |-> x.accepted + 1]),
              !.accepted = x.accepted + 1]

\* The part of push under c.mu: a full buffer drops its oldest event.
Pushed(x, ev) ==
    LET full == Len(x.buf) >= BufSize IN
    [x EXCEPT !.buf = Append(IF full THEN Tail(x.buf) ELSE x.buf,
                             [ev |-> ev, n |-> x.accepted + 1]),
              !.dropped = IF full THEN x.dropped + 1 ELSE x.dropped,
              !.accepted = x.accepted + 1]

Idle(p) == work[p] = << >> /\ mu.by # p

\* p has computed what it will publish.
Compute(p, offers) ==
    /\ Idle(p)
    /\ work' = [work EXCEPT ![p] = offers]
    /\ UNCHANGED <<conns, sticky, mu, conn>>

\* Publish and PublishSticky take h.mu.
Lock(p) ==
    /\ work[p] # << >> /\ mu = Free
    /\ LET o == Head(work[p]) IN
       /\ mu' = [by |-> p, ev |-> o.ev, todo |-> conns, at |-> None]
       /\ sticky' = IF o.keep THEN o.ev ELSE sticky
    /\ work' = [work EXCEPT ![p] = Tail(work[p])]
    /\ UNCHANGED <<conns, conn>>

Push(c) ==
    /\ c \in mu.todo /\ mu.at = None
    /\ conn' = IF Accepts(c, mu.ev) THEN [conn EXCEPT ![c] = Pushed(conn[c], mu.ev)] ELSE conn
    /\ mu' = [mu EXCEPT !.todo = mu.todo \ {c}, !.at = IF Accepts(c, mu.ev) THEN c ELSE None]
    /\ UNCHANGED <<conns, sticky, work>>

\* The send on the channel of capacity one, skipped when it is full.
Signal(c) ==
    /\ mu.at = c
    /\ conn' = [conn EXCEPT ![c] = [conn[c] EXCEPT !.notify = TRUE]]
    /\ mu' = [mu EXCEPT !.at = None]
    /\ UNCHANGED <<conns, sticky, work>>

Unlock(p) ==
    /\ mu.by = p /\ mu.todo = {} /\ mu.at = None
    /\ mu' = Free
    /\ UNCHANGED <<conns, sticky, work, conn>>

-----------------------------------------------------------------------------
(* Subscribe, ServeConn and Unsubscribe.                                   *)

Subscribe(c, f) ==
    LET new == [NoConn EXCEPT !.pc = "select", !.filter = f] IN
    /\ conn[c].pc = "off" /\ mu = Free
    /\ conns' = conns \cup {c}
    /\ conn' = [conn EXCEPT ![c] =
                   IF sticky # None /\ (f = None \/ sticky.tag = f)
                   THEN [Pushed(new, sticky) EXCEPT !.notify = TRUE] ELSE new]
    /\ UNCHANGED <<sticky, mu, work>>

\* The select takes the token from notify.
Select(c) ==
    /\ conn[c].pc = "select" /\ conn[c].notify
    /\ conn' = [conn EXCEPT ![c] = [conn[c] EXCEPT !.notify = FALSE, !.pc = "drain"]]
    /\ UNCHANGED <<conns, sticky, mu, work>>

\* Drain empties the buffer; the loop goes back to select when there was
\* nothing in it.
Drain(c) ==
    LET x == conn[c] IN
    /\ x.pc = "drain"
    /\ conn' = [conn EXCEPT ![c] =
                   IF x.dropped = 0 /\ x.buf = << >>
                   THEN [x EXCEPT !.pc = "select"]
                   ELSE [x EXCEPT !.pc = "write", !.evs = x.buf, !.lost = x.dropped,
                                  !.buf = << >>, !.dropped = 0]]
    /\ UNCHANGED <<conns, sticky, mu, work>>

\* Mutant: a single drain, and the token is taken after it.
FlushThenReset(c) ==
    LET x == conn[c] IN
    /\ x.pc = "write"
    /\ conn' = [conn EXCEPT ![c] =
                   [x EXCEPT !.pc = "select", !.notify = FALSE, !.evs = << >>, !.lost = 0,
                             !.delivered = x.delivered + Len(x.evs),
                             !.announced = x.announced + x.lost]]
    /\ UNCHANGED <<conns, sticky, mu, work>>

\* The marker, then the events, in one flush.
Flush(c) ==
    LET x == conn[c] IN
    /\ x.pc = "write"
    /\ conn' = [conn EXCEPT ![c] =
                   [x EXCEPT !.pc = "drain", !.evs = << >>, !.lost = 0,
                             !.delivered = x.delivered + Len(x.evs),
                             !.announced = x.announced + x.lost]]
    /\ UNCHANGED <<conns, sticky, mu, work>>

\* The request's context ends, or a flush (of a heartbeat or of events) fails.
Leave(c) ==
    /\ conn[c].pc \in {"select", "write"}
    /\ conn' = [conn EXCEPT ![c] = [conn[c] EXCEPT !.pc = "leave"]]
    /\ UNCHANGED <<conns, sticky, mu, work>>

Unsubscribe(c) ==
    /\ conn[c].pc = "leave" /\ mu = Free
    /\ conns' = conns \ {c}
    /\ conn' = [conn EXCEPT ![c] = NoConn]
    /\ UNCHANGED <<sticky, mu, work>>

Publishing == \/ \E p \in Publishers : Lock(p) \/ Unlock(p)
              \/ \E c \in Conns : Push(c) \/ Signal(c)
Serving(c) == Select(c) \/ Drain(c) \/ Leave(c) \/ Unsubscribe(c)

\* Publishers that publish whatever they like.
HubNext ==
    \/ \E p \in Publishers, offers \in Seq(Offer) : Compute(p, offers)
    \/ Publishing
    \/ \E c \in Conns : \/ \E f \in Tags \cup {None} : Subscribe(c, f)
                        \/ Serving(c) \/ Flush(c)

HubSpec == HubInit /\ [][HubNext]_hubVars

-----------------------------------------------------------------------------
(* Properties.                                                             *)

\* The packets of s are the events after the k-th, one after the other.
Numbered(s, k) == \A i \in 1..Len(s) : s[i].n = k + i

\* "never silent loss": at every moment the client can number the next event
\* it will get, from the events and the drop counts it was sent; so whatever
\* pushes and drains interleave, it knows where events are missing and how many.
Accounted(x) ==
    LET first == x.delivered + x.announced + x.lost
        next  == first + Len(x.evs) + x.dropped
    IN  /\ Numbered(x.evs, first)
        /\ Numbered(x.buf, next)
        /\ x.accepted = next + Len(x.buf)

LossIsAccounted == \A c \in Conns : Accounted(conn[c])

\* No event waits for the next one to be published: when the loop of a
\* connection is back at its select with something buffered, the token is in
\* notify or about to be put there.
NoStalledEvents ==
    \A c \in Conns :
        conn[c].pc = "select" /\ conn[c].buf # << >> => conn[c].notify \/ mu.at = c
=============================================================================
