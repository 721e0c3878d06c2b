--------------------------- MODULE OrderTracking ---------------------------
(***************************************************************************)
(* Who sees an order change: every call that writes an order then sends    *)
(* frames through the hub, to the restaurant's admins and to the public    *)
(* channel of the order's number.                                          *)
(*                                                                         *)
(* The hub copies the subscribers of a channel under its read lock and     *)
(* writes to them after it has released the lock, in the goroutine of the  *)
(* call.  So frames of two calls may overtake each other, and two calls    *)
(* may write to one connection at a time, which the WebSocket library      *)
(* does not support: such a frame may arrive, be lost, or the write may    *)
(* panic and end its call, with the order already written.  A client that  *)
(* stops reading blocks the write until its own handler gives it up.       *)
(*                                                                         *)
(* What the hub copies are the wrappers of the connections, which come     *)
(* from a pool and go back to it, emptied, when a handler returns.  A      *)
(* write to one that was released in the meantime panics, or goes to the   *)
(* client that has it by then.                                             *)
(*                                                                         *)
(* The contents of an order are the number of its writes.                  *)
(***************************************************************************)
EXTENDS Naturals, Sequences, FiniteSets

CONSTANTS
    Order,
    Restaurant,
    RestaurantOf,   \* [Order -> Restaurant]
    NumberOf,       \* [Order -> order number], drawn again once it is free
    Placed,         \* orders placed before, with distinct numbers
    Call,           \* handlers that write an order: each runs once
    Client,         \* WebSocket connections: each is made once
    ChannelOf,      \* [Client -> Channel]
    Slow,           \* clients that may stop reading
    Nobody          \* no client

Admins(x) == <<"admin", x>>
Public(n) == <<"order", n>>
Channel == {Admins(x) : x \in Restaurant} \cup {Public(NumberOf[o]) : o \in Order}

ASSUME TrackingAssumption ==
    /\ Order # {} /\ RestaurantOf \in [Order -> Restaurant]
    /\ DOMAIN NumberOf = Order
    /\ Placed \subseteq Order
    /\ \A o, q \in Placed : NumberOf[o] = NumberOf[q] => o = q
    /\ ChannelOf \in [Client -> Channel]
    /\ Slow \subseteq Client
    /\ Nobody \notin Client

VARIABLES
    live,       \* collection orders: the ids that exist
    written,    \* writes to each order so far, its insert and delete included
    calls,      \* the handlers
    subs,       \* Hub.adminSubs and Hub.orderSubs
    conn,       \* how far the handler of a connection has come
    stuck,      \* clients that have stopped reading
    wrapper,    \* the pooled *websocket.Conn of each connection
    view,       \* the last frame sent to each client of each order
    audience,   \* clients subscribed since before the last write of an order
    disturbed   \* orders whose calls overlapped, clashed or panicked

hubVars    == <<subs, conn, stuck, wrapper>>
reportVars == <<audience, disturbed>>
vars == <<live, written, calls, hubVars, view, reportVars>>

CallStages == {"idle", "inserted", "found", "sending", "done"}
Underway == {"inserted", "found", "sending"}

\* order: the order a call is about, version: what its frames say, todo: the
\* channels it still broadcasts to, targets: the copied subscribers it still
\* writes to, at: the client it is writing to.  A wrapper is named after the
\* client that had it first.
TypeOK ==
    /\ live \subseteq Order
    /\ written \in [Order -> Nat]
    /\ calls \in [Call -> [stage : CallStages, order : Order, version : Nat,
                           todo : Seq(Channel), targets : SUBSET Client,
                           at : Client \cup {Nobody}]]
    /\ subs \in [Channel -> SUBSET Client]
    /\ conn \in [Client -> {"off", "added", "open", "closing", "closed"}]
    /\ stuck \subseteq Slow
    /\ wrapper \in [Client -> Client \cup {Nobody}]
    /\ view \in [Client -> [Order -> Nat]]
    /\ audience \in [Order -> SUBSET Client]
    /\ disturbed \subseteq Order

Blank(stage) == [stage |-> stage, order |-> CHOOSE o \in Order : TRUE, version |-> 0,
                 todo |-> <<>>, targets |-> {}, at |-> Nobody]

Init ==
    /\ live = Placed
    /\ written = [o \in Order |-> IF o \in Placed THEN 1 ELSE 0]
    /\ calls = [k \in Call |-> Blank("idle")]
    /\ subs = [h \in Channel |-> {}]
    /\ conn = [c \in Client |-> "off"]
    /\ stuck = {}
    /\ wrapper = [c \in Client |-> Nobody]
    /\ view = [c \in Client |-> [o \in Order |-> 0]]
    /\ audience = [o \in Order |-> {}]
    /\ disturbed = {}

-----------------------------------------------------------------------------
(* Writes                                                                   *)

CallsOn(o) == {k \in Call : calls[k].stage \in Underway /\ calls[k].order = o}
Subscribers(o) == subs[Admins(RestaurantOf[o])] \cup subs[Public(NumberOf[o])]

\* What every write leaves for the properties: who was there to see it, and
\* whether another call about the order is still under way.
Observe(k, o) ==
    /\ audience' = [audience EXCEPT ![o] = Subscribers(o)]
    /\ disturbed' = IF CallsOn(o) \ {k} = {} THEN disturbed ELSE disturbed \cup {o}

Write(o) == written' = [written EXCEPT ![o] = @ + 1]

Begin(k, stage, o, version, todo) ==
    calls' = [calls EXCEPT ![k] = [@ EXCEPT !.stage = stage, !.order = o,
                                            !.version = version, !.todo = todo]]

\* Mutant: the admins are addressed with the order's id.
EventsById(o) == <<Admins(o), Public(NumberOf[o])>>

\* The legacy events, for admins and for the order's channel; a change of
\* status also sends a raw frame to the order's channel (with a second one
\* right behind it when the order is delivered, not told apart here).
Events(o) == <<Admins(RestaurantOf[o]), Public(NumberOf[o])>>
EventsAndStatus(o) == Append(Events(o), Public(NumberOf[o]))

\* Mutant: the driver's default, the document before the update.
ReturnedBefore(o) == written[o]

\* FindOneAndUpdate with ReturnDocument(After).
Returned(o) == written[o] + 1

\* Checkout inserts the order; the frame it will send is this first state.
InsertOrder(k, o) ==
    /\ calls[k].stage = "idle" /\ written[o] = 0
    /\ ~\E q \in live : NumberOf[q] = NumberOf[o]
    /\ live' = live \cup {o}
    /\ Write(o)
    /\ Begin(k, "inserted", o, 1, <<>>)
    /\ Observe(k, o)
    /\ UNCHANGED <<hubVars, view>>

\* Stripe has answered: BroadcastCreated sends the handler's copy.
BroadcastCreated(k) ==
    /\ calls[k].stage = "inserted"
    /\ Begin(k, "sending", calls[k].order, calls[k].version, EventsAndStatus(calls[k].order))
    /\ UNCHANGED <<live, written, hubVars, view, reportVars>>

\* ... or it has not, and the order is deleted without a frame.
RollBack(k) ==
    /\ calls[k].stage = "inserted"
    /\ live' = live \ {calls[k].order}
    /\ calls' = [calls EXCEPT ![k] = Blank("done")]
    /\ disturbed' = disturbed \cup {calls[k].order}
    /\ UNCHANGED <<written, hubVars, view, audience>>

UpdateStatus(k, o) ==
    /\ calls[k].stage = "idle" /\ o \in live
    /\ Write(o)
    /\ Begin(k, "sending", o, Returned(o), EventsAndStatus(o))
    /\ Observe(k, o)
    /\ UNCHANGED <<live, hubVars, view>>

UpdatePaymentStatus(k, o) ==
    /\ calls[k].stage = "idle" /\ o \in live
    /\ Write(o)
    /\ Begin(k, "sending", o, Returned(o), Events(o))
    /\ Observe(k, o)
    /\ UNCHANGED <<live, hubVars, view>>

FindForDelete(k, o) ==
    /\ calls[k].stage = "idle" /\ o \in live
    /\ Begin(k, "found", o, 0, <<>>)
    /\ UNCHANGED <<live, written, hubVars, view, reportVars>>

\* Whether the row is still there is not looked at: the frame goes out.
DeleteOrder(k) ==
    LET o == calls[k].order
    IN  /\ calls[k].stage = "found"
        /\ IF o \in live
           THEN /\ live' = live \ {o}
                /\ Write(o)
                /\ Begin(k, "sending", o, written[o] + 1, Events(o))
                /\ Observe(k, o)
           ELSE /\ Begin(k, "sending", o, written[o], Events(o))
                /\ UNCHANGED <<live, written, reportVars>>
        /\ UNCHANGED <<hubVars, view>>

-----------------------------------------------------------------------------
(* The hub: one broadcast after the other                                   *)

\* Mutant: the lock is kept until the frames are written (defer RUnlock).
HoldsLockWhileWriting(k) == calls[k].targets # {} \/ calls[k].at # Nobody

\* The read lock is released when the subscribers are copied, which is one
\* step, so that a call holds it in no state.
HoldsLock(k) == FALSE

LockFree == \A k \in Call : ~HoldsLock(k)

\* A call with nothing left to send has ended.
Settled(call) ==
    IF call.todo = <<>> /\ call.targets = {} /\ call.at = Nobody
    THEN Blank("done") ELSE call

CopySubscribers(k) ==
    LET call == calls[k]
    IN  /\ call.stage = "sending" /\ call.targets = {} /\ call.at = Nobody
        /\ calls' = [calls EXCEPT ![k] =
               Settled([call EXCEPT !.targets = subs[Head(call.todo)], !.todo = Tail(call.todo)])]
        /\ UNCHANGED <<live, written, hubVars, view, reportVars>>

WritersTo(c) == {k \in Call : calls[k].at = c}

\* What becomes of a call whose WriteJSON overlapped another one.
Goes(call) == call
Loses(call) == Settled([call EXCEPT !.at = Nobody])
Panics(call) == Blank("done")
Fates(call) == {Goes(call), Loses(call), Panics(call)}

\* The calls in K clash: each keeps writing, loses its frame, or panics.
Clash(K, now) ==
    /\ \E next \in [K -> UNION {Fates(now[k]) : k \in K}] :
         /\ \A k \in K : next[k] \in Fates(now[k])
         /\ calls' = [k \in Call |-> IF k \in K THEN next[k] ELSE now[k]]
    /\ disturbed' = disturbed \cup {now[k].order : k \in K}

\* From the start of its handler to its end a connection holds its wrapper.
Held == {c \in Client : conn[c] \in {"added", "open", "closing"}}

\* The clients whose connection the wrapper of c leads to: c itself until its
\* handler returns, then nobody or who was given the wrapper after it.
Holders(c) == {d \in Held : wrapper[d] = wrapper[c]}

\* WriteJSON starts on the connection of d; another call may be inside it.
WriteTo(k, c, d) ==
    LET now == [calls EXCEPT ![k].at = d, ![k].targets = @ \ {c}]
    IN  IF WritersTo(d) = {}
        THEN calls' = now /\ UNCHANGED disturbed
        ELSE Clash(WritersTo(d) \cup {k}, now)

\* ... or on a released wrapper: its nil connection panics, the call ends, and
\* what it had still to send is not sent.
WriteToReleased(k) ==
    /\ calls' = [calls EXCEPT ![k] = Panics(@)]
    /\ disturbed' = disturbed \cup {calls[k].order}

StartWrite(k, c) ==
    /\ calls[k].at = Nobody /\ c \in calls[k].targets
    /\ \/ Holders(c) = {} /\ WriteToReleased(k)
       \/ \E d \in Holders(c) : WriteTo(k, c, d)
    /\ UNCHANGED <<live, written, hubVars, view, audience>>

Connected(c) == conn[c] \in {"added", "open"}

\* The frame is out; or the client has gone and the error is logged.
FinishWrite(k) ==
    LET c == calls[k].at
    IN  /\ c # Nobody
        /\ conn[c] = "closed" \/ c \notin stuck
        /\ \/ /\ conn[c] # "closed"
              /\ view' = [view EXCEPT ![c][calls[k].order] = calls[k].version]
           \/ ~Connected(c) /\ UNCHANGED view
        /\ calls' = [calls EXCEPT ![k] = Settled([@ EXCEPT !.at = Nobody])]
        /\ UNCHANGED <<live, written, hubVars, reportVars>>

-----------------------------------------------------------------------------
(* The handler of a connection                                              *)

\* The pool gives a new wrapper or one that was released.
FreeWrappers(c) ==
    ({c} \cup {wrapper[d] : d \in {e \in Client : conn[e] = "closed"}})
        \ {wrapper[d] : d \in Held}

Subscribe(c) ==
    /\ conn[c] = "off" /\ LockFree
    /\ \E w \in FreeWrappers(c) : wrapper' = [wrapper EXCEPT ![c] = w]
    /\ subs' = [subs EXCEPT ![ChannelOf[c]] = @ \cup {c}]
    /\ conn' = [conn EXCEPT ![c] = "added"]
    /\ UNCHANGED <<live, written, calls, stuck, view, reportVars>>

\* The "ready" frame, which is not coordinated with broadcasts either.
SendReady(c) ==
    /\ conn[c] = "added"
    /\ IF WritersTo(c) = {}
       THEN /\ conn' = [conn EXCEPT ![c] = "open"]
            /\ UNCHANGED <<calls, disturbed>>
       ELSE /\ \E stage \in {"open", "closing"} : conn' = [conn EXCEPT ![c] = stage]
            /\ Clash(WritersTo(c), calls)
    /\ UNCHANGED <<live, written, subs, stuck, wrapper, view, audience>>

\* The client's network or machine stops, and what is sent to it piles up.
StopReading(c) ==
    /\ c \in Slow \ stuck /\ conn[c] = "open"
    /\ stuck' = stuck \cup {c}
    /\ UNCHANGED <<live, written, calls, subs, conn, wrapper, view, reportVars>>

\* Mutant: no read deadline and no ping: a silent client is kept.
OnlyWhenClosed(c) == FALSE

\* No pong for 30 s, or no ping could be written: the pumps end.
GivesUp(c) == c \in stuck

EndPumps(c) ==
    /\ conn[c] = "open"
    /\ GivesUp(c)
    /\ conn' = [conn EXCEPT ![c] = "closing"]
    /\ UNCHANGED <<live, written, calls, subs, stuck, wrapper, view, reportVars>>

\* The client goes away: the read fails.
Disconnect(c) ==
    /\ conn[c] = "open" /\ c \notin stuck
    /\ conn' = [conn EXCEPT ![c] = "closing"]
    /\ UNCHANGED <<live, written, calls, subs, stuck, wrapper, view, reportVars>>

\* The deferred RemoveAdmin or RemoveOrder; then the wrapper is released and
\* the connection closed.
Unsubscribe(c) ==
    /\ conn[c] = "closing" /\ LockFree
    /\ subs' = [subs EXCEPT ![ChannelOf[c]] = @ \ {c}]
    /\ conn' = [conn EXCEPT ![c] = "closed"]
    /\ stuck' = stuck \ {c}
    /\ UNCHANGED <<live, written, calls, wrapper, view, reportVars>>

\* The process ends: it is deployed anew, or a reader that a failed ping has
\* left behind panics on its released wrapper, where nothing recovers it.
Crash ==
    /\ calls' = [k \in Call |-> IF calls[k].stage \in Underway THEN Blank("done") ELSE calls[k]]
    /\ subs' = [h \in Channel |-> {}]
    /\ conn' = [c \in Client |-> IF c \in Held THEN "closed" ELSE conn[c]]
    /\ stuck' = {}
    /\ UNCHANGED <<live, written, wrapper, view, reportVars>>

-----------------------------------------------------------------------------
CallStep(k) ==
    \/ BroadcastCreated(k) \/ RollBack(k) \/ DeleteOrder(k)
    \/ CopySubscribers(k) \/ (\E c \in Client : StartWrite(k, c)) \/ FinishWrite(k)

ClientStep(c) == SendReady(c) \/ EndPumps(c) \/ Unsubscribe(c)

Next ==
    \/ \E k \in Call :
         \/ CallStep(k)
         \/ \E o \in Order : InsertOrder(k, o) \/ UpdateStatus(k, o)
                             \/ UpdatePaymentStatus(k, o) \/ FindForDelete(k, o)
    \/ \E c \in Client : Subscribe(c) \/ ClientStep(c) \/ StopReading(c) \/ Disconnect(c)
    \/ Crash

Spec == Init /\ [][Next]_vars

\* Started handlers run on: of calls, and of connections.
FairSpec ==
    /\ Spec
    /\ \A k \in Call : WF_vars(CallStep(k))
    /\ \A c \in Client : WF_vars(Subscribe(c) \/ ClientStep(c))

-----------------------------------------------------------------------------
(* Properties                                                               *)

\* When the calls about an order have ended, did not overlap and did not panic
\* on a connection that had closed while they broadcast, whoever was connected
\* before the last write and still is was sent the order as it is: the frame is
\* the row after the write, subscribers are looked up after it, and a wrapper
\* leads to its own client as long as that one is connected.
Watching(o) == {c \in audience[o] : Connected(c)}
LatestShown ==
    \A o \in Order \ disturbed : CallsOn(o) = {} =>
        \A c \in Watching(o) : view[c][o] = written[o]

\* Every call that was made ends, although a client has stopped reading and
\* the write to it has no deadline.
CallsEnd == <>[](\A k \in Call : calls[k].stage \notin Underway)

\* A connection that wants to subscribe ("off") does, whatever broadcasts and
\* other clients do.
ClientsAreAdmitted == <>(\A c \in Client : conn[c] # "off")
=============================================================================
