------------------------ MODULE OrderTrackingProofs ------------------------
(* Whoever watches an order sees its last state: the proofs.                *)
EXTENDS OrderTracking, TLAPS

-----------------------------------------------------------------------------
(* The inductive invariant                                                  *)

\* Only a call that broadcasts has something left to send, and it has.
Quiet(call) == call.todo = <<>> /\ call.targets = {} /\ call.at = Nobody
Shaped == \A k \in Call : Quiet(calls[k]) <=> calls[k].stage # "sending"

\* Connections subscribe to their own channel, for as long as they are
\* connected, and an audience is of such connections.
Subscribed ==
    /\ \A c \in Client, h \in Channel : c \in subs[h] => h = ChannelOf[c] /\ conn[c] # "off"
    /\ \A o \in Order : \A c \in audience[o] :
         /\ conn[c] # "off"
         /\ ChannelOf[c] \in {Admins(RestaurantOf[o]), Public(NumberOf[o])}
         /\ Connected(c) => c \in subs[ChannelOf[c]]

\* A wrapper is held by one connection at a time.
Pooled == \A c, d \in Held : wrapper[c] = wrapper[d] => c = d

\* Without an overlap one call at a time has written the order, the last one,
\* and an order that is about to be deleted exists.
Writes(k, o) == calls[k].stage \in {"inserted", "sending"} /\ calls[k].order = o
Alone ==
    \A o \in Order \ disturbed, k \in Call :
        /\ Writes(k, o) => /\ calls[k].version = written[o]
                           /\ \A q \in Call : Writes(q, o) => q = k
        /\ calls[k].stage = "found" /\ calls[k].order = o => o \in live

\* That call still owes its frame to whoever of the audience has not had it.
Owes(k, c) ==
    \/ calls[k].stage = "inserted"
    \/ c \in calls[k].targets \/ calls[k].at = c
    \/ \E i \in 1..Len(calls[k].todo) : calls[k].todo[i] = ChannelOf[c]
Told ==
    \A o \in Order \ disturbed : \A c \in Watching(o) :
        view[c][o] = written[o] \/ \E k \in Call : Writes(k, o) /\ Owes(k, c)

TrackInv == TypeOK /\ Shaped /\ Subscribed /\ Pooled /\ Alone /\ Told


-----------------------------------------------------------------------------
(* Rows of calls                                                            *)

CallRow == [stage : CallStages, order : Order, version : Nat, todo : Seq(Channel),
            targets : SUBSET Client, at : Client \cup {Nobody}]

LEMMA BlankRow ==
    ASSUME NEW stage \in CallStages
    PROVE  Blank(stage) \in CallRow /\ Blank(stage).stage = stage /\ Quiet(Blank(stage))
<1>1. PICK o \in Order : TRUE BY TrackingAssumption
<1>2. (CHOOSE q \in Order : TRUE) \in Order BY <1>1
<1>3. <<>> \in Seq(Channel) OBVIOUS
<1> QED BY <1>2, <1>3 DEF Blank, CallRow, Quiet

LEMMA ItsChannels ==
    ASSUME NEW o \in Order
    PROVE  /\ Admins(RestaurantOf[o]) \in Channel /\ Public(NumberOf[o]) \in Channel
           /\ Events(o) \in Seq(Channel) /\ Events(o) # <<>>
           /\ EventsAndStatus(o) \in Seq(Channel) /\ EventsAndStatus(o) # <<>>
           /\ \A h \in {Admins(RestaurantOf[o]), Public(NumberOf[o])} :
                /\ \E i \in 1..Len(Events(o)) : Events(o)[i] = h
                /\ \E i \in 1..Len(EventsAndStatus(o)) : EventsAndStatus(o)[i] = h
<1> DEFINE a == Admins(RestaurantOf[o])
           p == Public(NumberOf[o])
<1>1. a \in Channel /\ p \in Channel BY TrackingAssumption DEF Channel
<1> HIDE DEF a, p
<1>2. Events(o) = <<a, p>> BY DEF Events, a, p
<1>3. EventsAndStatus(o) = Append(<<a, p>>, p) BY <1>2 DEF EventsAndStatus, p
<1>4. <<a, p>> \in Seq(Channel) /\ Append(<<a, p>>, p) \in Seq(Channel) BY <1>1
<1>5. Len(<<a, p>>) = 2 /\ <<a, p>>[1] = a /\ <<a, p>>[2] = p OBVIOUS
<1>6. Len(Append(<<a, p>>, p)) = 3 /\ Append(<<a, p>>, p)[1] = a /\ Append(<<a, p>>, p)[2] = p
  BY <1>1
<1>7. Events(o) # <<>> /\ EventsAndStatus(o) # <<>> BY <1>2, <1>3, <1>5, <1>6
<1>8. \A h \in {a, p} : /\ \E i \in 1..Len(Events(o)) : Events(o)[i] = h
                        /\ \E i \in 1..Len(EventsAndStatus(o)) : EventsAndStatus(o)[i] = h
  BY <1>2, <1>3, <1>5, <1>6
<1> QED BY <1>1, <1>2, <1>3, <1>4, <1>7, <1>8 DEF a, p

LEMMA BeginRow ==
    ASSUME TypeOK, NEW k \in Call, NEW stage \in CallStages, NEW o \in Order,
           NEW version \in Nat, NEW todo \in Seq(Channel), Begin(k, stage, o, version, todo)
    PROVE  /\ calls' \in [Call -> CallRow] /\ \A q \in Call \ {k} : calls'[q] = calls[q]
           /\ calls'[k].stage = stage /\ calls'[k].order = o /\ calls'[k].version = version
           /\ calls'[k].todo = todo /\ calls'[k].targets = calls[k].targets
           /\ calls'[k].at = calls[k].at
<1>1. calls[k] \in CallRow BY DEF TypeOK, CallRow
<1> DEFINE row == [calls[k] EXCEPT !.stage = stage, !.order = o, !.version = version,
                                   !.todo = todo]
<1>2. /\ row \in CallRow /\ row.stage = stage /\ row.order = o /\ row.version = version
      /\ row.todo = todo /\ row.targets = calls[k].targets /\ row.at = calls[k].at
  BY <1>1 DEF CallRow
<1>3. calls' = [calls EXCEPT ![k] = row] BY DEF Begin
<1> HIDE DEF row
<1>4. calls' \in [Call -> CallRow] /\ calls'[k] = row /\ \A q \in Call \ {k} : calls'[q] = calls[q]
  BY <1>2, <1>3 DEF TypeOK, CallRow
<1> QED BY <1>2, <1>4

\* A call that is settled has ended or still broadcasts what it did.
LEMMA SettledRow ==
    ASSUME NEW call \in CallRow, call.stage = "sending"
    PROVE  /\ Settled(call) \in CallRow
           /\ Settled(call).stage \in {"sending", "done"}
           /\ Quiet(Settled(call)) <=> Settled(call).stage # "sending"
           /\ Settled(call).stage = "sending" => Settled(call) = call
           /\ Settled(call).stage = "done" => Quiet(call)
<1>1. "done" \in CallStages BY DEF CallStages
<1> QED BY <1>1, BlankRow DEF Settled, Quiet

LEMMA FateRow ==
    ASSUME NEW call \in CallRow, call.stage = "sending", call.at # Nobody,
           NEW next \in Fates(call)
    PROVE  /\ next \in CallRow /\ next.stage \in {"sending", "done"}
           /\ Quiet(next) <=> next.stage # "sending"
           /\ next.stage = "sending" => next.order = call.order
<1>1. "done" \in CallStages BY DEF CallStages
<1>2. next = call \/ next = Settled([call EXCEPT !.at = Nobody]) \/ next = Blank("done")
  BY DEF Fates, Goes, Loses, Panics
<1> DEFINE lost == [call EXCEPT !.at = Nobody]
<1>3. lost \in CallRow /\ lost.stage = "sending" /\ lost.order = call.order BY DEF CallRow
<1> HIDE DEF lost
<1>4. CASE next = Settled(lost) BY <1>3, <1>4, SettledRow
<1>5. CASE next = call BY <1>5 DEF Quiet
<1>6. CASE next = Blank("done") BY <1>1, <1>6, BlankRow
<1> QED BY <1>2, <1>4, <1>5, <1>6 DEF lost


-----------------------------------------------------------------------------
(* A call writes an order                                                   *)

ShapedAt(k) == Quiet(calls[k]) <=> calls[k].stage # "sending"

\* The call has written o, which it holds as written, for all of o's channels.
Publishes(k, o) ==
    /\ calls[k].stage \in {"idle", "found"}
    /\ calls' \in [Call -> CallRow] /\ \A q \in Call \ {k} : calls'[q] = calls[q]
    /\ calls'[k].stage \in {"inserted", "sending"} /\ ShapedAt(k)'
    /\ calls'[k].order = o /\ calls'[k].version = written[o] + 1
    /\ calls'[k].stage = "sending" =>
         \A h \in {Admins(RestaurantOf[o]), Public(NumberOf[o])} :
           \E i \in 1..Len(calls'[k].todo) : calls'[k].todo[i] = h
    /\ Write(o) /\ Observe(k, o)
    /\ live' \subseteq Order /\ live \subseteq live' \cup {o}
    /\ UNCHANGED <<hubVars, view>>

LEMMA PublishStep ==
    ASSUME TypeOK, Shaped, NEW k \in Call, NEW o \in Order,
           \/ InsertOrder(k, o) \/ UpdateStatus(k, o) \/ UpdatePaymentStatus(k, o)
           \/ DeleteOrder(k) /\ o = calls[k].order /\ o \in live
    PROVE  Publishes(k, o)
<1> USE DEF Publishes, ShapedAt, Quiet
<1>1. written[o] \in Nat /\ written[o] + 1 \in Nat /\ 1 \in Nat BY DEF TypeOK
<1>2. {"inserted", "sending"} \subseteq CallStages BY DEF CallStages
<1>3. calls[k].stage \in {"idle", "found"} =>
        calls[k].todo = <<>> /\ calls[k].targets = {} /\ calls[k].at = Nobody
  BY DEF Shaped
<1>4. <<>> \in Seq(Channel) OBVIOUS
<1>5. CASE InsertOrder(k, o)
  <2>1. written[o] = 0 /\ calls[k].stage = "idle" BY <1>5 DEF InsertOrder
  <2>2. /\ Begin(k, "inserted", o, 1, <<>>) /\ Write(o) /\ Observe(k, o)
        /\ live' = live \cup {o} /\ UNCHANGED <<hubVars, view>>
    BY <1>5 DEF InsertOrder
  <2>3. live' \subseteq Order /\ live \subseteq live' \cup {o} BY <2>2 DEF TypeOK
  <2>4. /\ calls' \in [Call -> CallRow] /\ \A q \in Call \ {k} : calls'[q] = calls[q]
        /\ calls'[k].stage = "inserted" /\ calls'[k].order = o
        /\ calls'[k].version = 1 /\ calls'[k].todo = <<>>
        /\ calls'[k].targets = calls[k].targets /\ calls'[k].at = calls[k].at
    <3>1. PICK one \in Nat, none \in Seq(Channel) : one = 1 /\ none = <<>> BY <1>1, <1>4
    <3>2. Begin(k, "inserted", o, one, none) BY <2>2, <3>1 DEF Begin
    <3>3. /\ calls' \in [Call -> CallRow] /\ \A q \in Call \ {k} : calls'[q] = calls[q]
          /\ calls'[k].stage = "inserted" /\ calls'[k].order = o
          /\ calls'[k].version = one /\ calls'[k].todo = none
          /\ calls'[k].targets = calls[k].targets /\ calls'[k].at = calls[k].at
      BY <1>2, <3>2, BeginRow
    <3> QED BY <3>1, <3>3
  <2>5. calls'[k].version = written[o] + 1 BY <2>1, <2>4
  <2>6. calls'[k].targets = {} /\ calls'[k].at = Nobody BY <1>3, <2>1, <2>4
  <2> QED BY <2>1, <2>2, <2>3, <2>4, <2>5, <2>6
<1>6. CASE UpdateStatus(k, o)
  <2>1. /\ calls[k].stage = "idle" /\ Begin(k, "sending", o, written[o] + 1, EventsAndStatus(o))
        /\ Write(o) /\ Observe(k, o) /\ UNCHANGED <<live, hubVars, view>>
    BY <1>6 DEF UpdateStatus, Returned
  <2>2. live \subseteq Order BY DEF TypeOK
  <2>3. EventsAndStatus(o) \in Seq(Channel) BY ItsChannels
  <2>4. /\ calls' \in [Call -> CallRow] /\ \A q \in Call \ {k} : calls'[q] = calls[q]
        /\ calls'[k].stage = "sending" /\ calls'[k].order = o
        /\ calls'[k].version = written[o] + 1 /\ calls'[k].todo = EventsAndStatus(o)
    BY <1>1, <1>2, <2>1, <2>3, BeginRow
  <2> QED BY <2>1, <2>2, <2>4, ItsChannels
<1>7. CASE UpdatePaymentStatus(k, o)
  <2>1. /\ calls[k].stage = "idle" /\ Begin(k, "sending", o, written[o] + 1, Events(o))
        /\ Write(o) /\ Observe(k, o) /\ UNCHANGED <<live, hubVars, view>>
    BY <1>7 DEF UpdatePaymentStatus, Returned
  <2>2. live \subseteq Order BY DEF TypeOK
  <2>3. Events(o) \in Seq(Channel) BY ItsChannels
  <2>4. /\ calls' \in [Call -> CallRow] /\ \A q \in Call \ {k} : calls'[q] = calls[q]
        /\ calls'[k].stage = "sending" /\ calls'[k].order = o
        /\ calls'[k].version = written[o] + 1 /\ calls'[k].todo = Events(o)
    BY <1>1, <1>2, <2>1, <2>3, BeginRow
  <2> QED BY <2>1, <2>2, <2>4, ItsChannels
<1>8. CASE DeleteOrder(k) /\ o = calls[k].order /\ o \in live
  <2>1. /\ calls[k].stage = "found" /\ Begin(k, "sending", o, written[o] + 1, Events(o))
        /\ Write(o) /\ Observe(k, o) /\ live' = live \ {o} /\ UNCHANGED <<hubVars, view>>
    BY <1>8 DEF DeleteOrder
  <2>2. live \subseteq Order BY DEF TypeOK
  <2>3. Events(o) \in Seq(Channel) BY ItsChannels
  <2>4. /\ calls' \in [Call -> CallRow] /\ \A q \in Call \ {k} : calls'[q] = calls[q]
        /\ calls'[k].stage = "sending" /\ calls'[k].order = o
        /\ calls'[k].version = written[o] + 1 /\ calls'[k].todo = Events(o)
    BY <1>1, <1>2, <2>1, <2>3, BeginRow
  <2> QED BY <2>1, <2>2, <2>4, ItsChannels
<1> QED BY <1>5, <1>6, <1>7, <1>8

\* Then whoever is subscribed has the frame to come, and no other call's.
LEMMA PublishInv ==
    ASSUME TrackInv, NEW k \in Call, NEW o \in Order, Publishes(k, o)
    PROVE  TrackInv'
<1> USE DEF TrackInv
<1>1. Subscribers(o) \subseteq Client
  <2>1. Admins(RestaurantOf[o]) \in Channel /\ Public(NumberOf[o]) \in Channel
    BY ItsChannels
  <2> QED BY <2>1 DEF Subscribers, TypeOK
<1>2. /\ written' \in [Order -> Nat] /\ written'[o] = written[o] + 1
      /\ \A x \in Order \ {o} : written'[x] = written[x]
  BY DEF Publishes, Write, TypeOK
<1>3. /\ audience' \in [Order -> SUBSET Client] /\ audience'[o] = Subscribers(o)
      /\ \A x \in Order \ {o} : audience'[x] = audience[x]
  BY <1>1 DEF Publishes, Observe, TypeOK
<1>4. /\ disturbed \subseteq disturbed' /\ disturbed' \subseteq Order
      /\ o \notin disturbed' => CallsOn(o) \ {k} = {}
  BY DEF Publishes, Observe, TypeOK
<1>5. UNCHANGED <<subs, conn, stuck, wrapper, view>> BY DEF Publishes, hubVars
<1>6. /\ calls' \in [Call -> CallRow] /\ \A q \in Call \ {k} : calls'[q] = calls[q]
      /\ calls[k].stage \in {"idle", "found"} /\ calls'[k].stage \in {"inserted", "sending"}
      /\ calls'[k].order = o /\ calls'[k].version = written'[o]
      /\ live' \subseteq Order /\ live \subseteq live' \cup {o}
  BY <1>2 DEF Publishes
<1>7. TypeOK' BY <1>2, <1>3, <1>4, <1>5, <1>6 DEF TypeOK, CallRow
<1>8. Shaped' BY <1>6 DEF Shaped, ShapedAt, Publishes, Quiet
<1>9. \A c \in Subscribers(o) : /\ c \in subs[ChannelOf[c]] /\ conn[c] # "off"
                                /\ ChannelOf[c] \in {Admins(RestaurantOf[o]), Public(NumberOf[o])}
  BY <1>1, ItsChannels DEF Subscribers, Subscribed
<1>10. Subscribed'
  <2>1. \A x \in Order : \A c \in audience'[x] :
          /\ conn[c] # "off"
          /\ ChannelOf[c] \in {Admins(RestaurantOf[x]), Public(NumberOf[x])}
          /\ Connected(c) => c \in subs[ChannelOf[c]]
    BY <1>3, <1>9 DEF Subscribed
  <2> QED BY <1>5, <2>1 DEF Subscribed, Connected
<1>11. \A q \in Call \ {k}, x \in Order : Writes(q, x)' = Writes(q, x) BY <1>6 DEF Writes
<1>12. \A x \in Order : Writes(k, x)' <=> x = o BY <1>6 DEF Writes
<1>13. o \notin disturbed' => \A q \in Call \ {k} :
         ~Writes(q, o) /\ ~(calls[q].stage = "found" /\ calls[q].order = o)
  BY <1>4 DEF CallsOn, Underway, Writes
<1>14. Alone'
  <2> SUFFICES ASSUME NEW x \in Order \ disturbed', NEW q \in Call
               PROVE  /\ Writes(q, x)' => /\ calls'[q].version = written'[x]
                                          /\ \A r \in Call : Writes(r, x)' => r = q
                      /\ calls'[q].stage = "found" /\ calls'[q].order = x => x \in live'
    BY DEF Alone
  <2>1. x \notin disturbed BY <1>4
  <2>2. CASE x = o BY <1>6, <1>11, <1>12, <1>13, <2>2
  <2>3. CASE x # o
    <3>1. CASE q = k BY <1>6, <1>12, <2>3, <3>1
    <3>2. CASE q # k
      <4>1. calls'[q] = calls[q] /\ written'[x] = written[x] BY <1>2, <1>6, <2>3, <3>2
      <4> QED BY <1>6, <1>11, <1>12, <2>1, <2>3, <3>2, <4>1 DEF Alone
    <3> QED BY <3>1, <3>2
  <2> QED BY <2>2, <2>3
<1>15. Told'
  <2> SUFFICES ASSUME NEW x \in Order \ disturbed', NEW c \in Watching(x)'
               PROVE  view'[c][x] = written'[x] \/ \E q \in Call : Writes(q, x)' /\ Owes(q, c)'
    BY DEF Told
  <2>1. x \notin disturbed BY <1>4
  <2>2. CASE x = o
    <3>1. ChannelOf[c] \in {Admins(RestaurantOf[o]), Public(NumberOf[o])}
      BY <1>3, <1>9, <2>2 DEF Watching
    <3>2. Owes(k, c)' BY <1>6, <3>1 DEF Owes, Publishes
    <3> QED BY <1>12, <2>2, <3>2
  <2>3. CASE x # o
    <3>1. view[c][x] = written[x] \/ \E q \in Call : Writes(q, x) /\ Owes(q, c)
      BY <1>3, <1>5, <2>1, <2>3 DEF Told, Watching, Connected
    <3>2. \A q \in Call : Writes(q, x) => q # k BY <1>6 DEF Writes
    <3>3. \A q \in Call \ {k} : Owes(q, c)' = Owes(q, c) BY <1>6 DEF Owes
    <3> QED BY <1>2, <1>5, <1>11, <2>3, <3>1, <3>2, <3>3
  <2> QED BY <2>2, <2>3
<1>16. Pooled' BY <1>5 DEF Pooled, Held
<1> QED BY <1>7, <1>8, <1>10, <1>14, <1>15, <1>16


-----------------------------------------------------------------------------
(* A step that writes no order                                              *)

\* Calls stay with what they have written, and orders that are found exist.
Stays(k, o) ==
    /\ Writes(k, o)' => Writes(k, o) /\ calls'[k].version = calls[k].version
    /\ calls'[k].stage = "found" /\ calls'[k].order = o => o \in live'

\* A frame that a connection has or waits for is not lost to it.
Delivers(o, c) ==
    /\ c \in Watching(o)
    /\ view[c][o] = written[o] => view'[c][o] = written[o]
    /\ \A k \in Call : Writes(k, o) /\ Owes(k, c) =>
         (Writes(k, o)' /\ Owes(k, c)') \/ view'[c][o] = written[o]

LEMMA StepInv ==
    ASSUME TrackInv, TypeOK', Shaped', Subscribed', Pooled', UNCHANGED written,
           disturbed \subseteq disturbed',
           \A o \in Order \ disturbed', k \in Call : Stays(k, o),
           \A o \in Order \ disturbed' : \A c \in Watching(o)' : Delivers(o, c)
    PROVE  TrackInv'
<1>1. Alone'
  <2> SUFFICES ASSUME NEW o \in Order \ disturbed', NEW k \in Call
               PROVE  /\ Writes(k, o)' => /\ calls'[k].version = written'[o]
                                          /\ \A q \in Call : Writes(q, o)' => q = k
                      /\ calls'[k].stage = "found" /\ calls'[k].order = o => o \in live'
    BY DEF Alone
  <2>1. o \notin disturbed OBVIOUS
  <2>2. \A q \in Call : Writes(q, o)' => Writes(q, o) BY DEF Stays
  <2> QED BY <2>1, <2>2 DEF Stays, TrackInv, Alone
<1>2. Told'
  <2> SUFFICES ASSUME NEW o \in Order \ disturbed', NEW c \in Watching(o)'
               PROVE  view'[c][o] = written'[o] \/ \E k \in Call : Writes(k, o)' /\ Owes(k, c)'
    BY DEF Told
  <2>1. o \notin disturbed /\ Delivers(o, c) OBVIOUS
  <2> QED BY <2>1 DEF Delivers, TrackInv, Told
<1> QED BY <1>1, <1>2 DEF TrackInv

\* ... because the calls are not touched,
LEMMA HubStepInv ==
    ASSUME TrackInv, TypeOK', Subscribed', Pooled',
           UNCHANGED <<live, written, calls, view, disturbed>>,
           \A o \in Order : Watching(o)' \subseteq Watching(o)
    PROVE  TrackInv'
<1>1. Shaped' BY DEF TrackInv, Shaped, Quiet
<1>2. \A o \in Order, k \in Call : Writes(k, o)' = Writes(k, o) BY DEF Writes
<1>3. \A k \in Call, c \in Client : Owes(k, c)' = Owes(k, c) BY DEF Owes
<1>4. \A o \in Order \ disturbed', k \in Call : Stays(k, o)
  BY <1>2 DEF Stays, TrackInv, Alone
<1>5. \A o \in Order : \A c \in Watching(o) : c \in Client BY DEF TrackInv, TypeOK, Watching
<1>6. \A o \in Order \ disturbed' : \A c \in Watching(o)' : Delivers(o, c)
  BY <1>2, <1>3, <1>5 DEF Delivers
<1> QED BY <1>1, <1>4, <1>6, StepInv

\* ... or because one call goes on.
LEMMA CallStepInv ==
    ASSUME TrackInv, NEW k \in Call, calls' \in [Call -> CallRow],
           \A q \in Call \ {k} : calls'[q] = calls[q],
           ShapedAt(k)', live' \subseteq Order, disturbed' \subseteq Order, disturbed \subseteq disturbed',
           UNCHANGED <<written, hubVars, audience>>, view' \in [Client -> [Order -> Nat]],
           \A q \in Call, o \in Order \ disturbed' : q # k =>
               (calls[q].stage = "found" /\ calls[q].order = o => o \in live'),
           \A o \in Order \ disturbed' : Stays(k, o),
           \A o \in Order \ disturbed' : \A c \in Watching(o) :
              /\ view[c][o] = written[o] => view'[c][o] = written[o]
              /\ Writes(k, o) /\ Owes(k, c) =>
                   (Writes(k, o)' /\ Owes(k, c)') \/ view'[c][o] = written[o]
    PROVE  TrackInv'
<1>1. TypeOK' BY DEF TrackInv, TypeOK, hubVars, CallRow
<1>2. Shaped' BY DEF TrackInv, Shaped, ShapedAt, Quiet
<1>3. Subscribed' /\ Pooled' BY DEF TrackInv, Subscribed, Connected, Pooled, Held, hubVars
<1>4. \A o \in Order, q \in Call \ {k} : Writes(q, o)' = Writes(q, o) BY DEF Writes
<1>5. \A q \in Call \ {k}, c \in Client : Owes(q, c)' = Owes(q, c) BY DEF Owes
<1>6. \A o \in Order \ disturbed', q \in Call : Stays(q, o)
  <2> SUFFICES ASSUME NEW o \in Order \ disturbed', NEW q \in Call, q # k PROVE Stays(q, o)
    OBVIOUS
  <2>1. calls'[q] = calls[q] OBVIOUS
  <2> QED BY <1>4, <2>1 DEF Stays
<1>7. \A o \in Order : \A c \in Watching(o) : c \in Client BY DEF TrackInv, TypeOK, Watching
<1>8. \A o \in Order : Watching(o)' = Watching(o) BY DEF Watching, Connected, hubVars
<1>9. \A o \in Order \ disturbed' : \A c \in Watching(o)' : Delivers(o, c)
  BY <1>4, <1>5, <1>7, <1>8 DEF Delivers
<1> QED BY <1>1, <1>2, <1>3, <1>6, <1>9, StepInv


-----------------------------------------------------------------------------
(* The steps of calls                                                       *)

LEMMA BroadcastCreatedInv ==
    ASSUME TrackInv, NEW k \in Call, BroadcastCreated(k)
    PROVE  TrackInv'
<1> USE DEF TrackInv
<1>1. PICK o \in Order : o = calls[k].order BY DEF TypeOK
<1>2. calls[k].stage = "inserted" /\ Begin(k, "sending", o, calls[k].version, EventsAndStatus(o))
  BY <1>1 DEF BroadcastCreated
<1>3. calls[k].version \in Nat /\ EventsAndStatus(o) \in Seq(Channel) /\ "sending" \in CallStages
  BY <1>1, ItsChannels DEF TypeOK, CallStages
<1>4. /\ calls' \in [Call -> CallRow] /\ \A q \in Call \ {k} : calls'[q] = calls[q]
      /\ calls'[k].stage = "sending" /\ calls'[k].order = o
      /\ calls'[k].version = calls[k].version /\ calls'[k].todo = EventsAndStatus(o)
  BY <1>2, <1>3, BeginRow
<1>5. UNCHANGED <<live, written, hubVars, view, audience, disturbed>>
  BY DEF BroadcastCreated, reportVars
<1>6. ShapedAt(k)' BY <1>4, ItsChannels DEF ShapedAt, Quiet
<1>7. \A x \in Order : Writes(k, x)' <=> Writes(k, x) BY <1>1, <1>2, <1>4 DEF Writes
<1>8. \A c \in Watching(o) : Owes(k, c)'
  <2> SUFFICES ASSUME NEW c \in Watching(o) PROVE Owes(k, c)' OBVIOUS
  <2>1. ChannelOf[c] \in {Admins(RestaurantOf[o]), Public(NumberOf[o])}
    BY DEF Subscribed, Watching
  <2> QED BY <1>4, <2>1, ItsChannels DEF Owes
<1>9. \A x \in Order : Stays(k, x) BY <1>4, <1>7 DEF Stays
<1>10. \A q \in Call, x \in Order \ disturbed :
         calls[q].stage = "found" /\ calls[q].order = x => x \in live'
  BY <1>5 DEF Alone
<1>11. \A x \in Order : Writes(k, x) => x = o BY <1>1 DEF Writes
<1>12. live' \subseteq Order /\ disturbed' \subseteq Order /\ view' \in [Client -> [Order -> Nat]]
  BY <1>5 DEF TypeOK
<1> QED BY <1>4, <1>5, <1>6, <1>7, <1>8, <1>9, <1>10, <1>11, <1>12, CallStepInv

\* A call that ends or looks an order up has written nothing it still owes.
LEMMA RollBackInv ==
    ASSUME TrackInv, NEW k \in Call, RollBack(k)
    PROVE  TrackInv'
<1> USE DEF TrackInv
<1>1. PICK o \in Order : o = calls[k].order BY DEF TypeOK
<1>2. "done" \in CallStages BY DEF CallStages
<1>3. /\ live' = live \ {o} /\ calls' = [calls EXCEPT ![k] = Blank("done")]
      /\ disturbed' = disturbed \cup {o} /\ UNCHANGED <<written, hubVars, view, audience>>
  BY <1>1 DEF RollBack
<1>4. /\ calls' \in [Call -> CallRow] /\ \A q \in Call \ {k} : calls'[q] = calls[q]
      /\ calls'[k].stage = "done" /\ ShapedAt(k)'
  BY <1>2, <1>3, BlankRow DEF TypeOK, CallRow, ShapedAt, Quiet
<1>5. \A x \in Order \ disturbed' : ~Writes(k, x) /\ ~Writes(k, x)'
  BY <1>1, <1>3, <1>4 DEF Writes
<1>6. \A x \in Order \ disturbed' : Stays(k, x) BY <1>4, <1>5 DEF Stays
<1>7. \A q \in Call, x \in Order \ disturbed' :
         calls[q].stage = "found" /\ calls[q].order = x => x \in live'
  BY <1>3 DEF Alone
<1>8. live' \subseteq Order /\ disturbed' \subseteq Order /\ disturbed \subseteq disturbed'
      /\ view' \in [Client -> [Order -> Nat]]
  BY <1>3 DEF TypeOK
<1> QED BY <1>3, <1>4, <1>5, <1>6, <1>7, <1>8, CallStepInv

LEMMA FindForDeleteInv ==
    ASSUME TrackInv, NEW k \in Call, NEW o \in Order, FindForDelete(k, o)
    PROVE  TrackInv'
<1> USE DEF TrackInv
<1>1. "found" \in CallStages BY DEF CallStages
<1>2. calls[k].stage = "idle" /\ o \in live /\ UNCHANGED <<live, written, hubVars, view, audience, disturbed>>
  BY DEF FindForDelete, reportVars
<1>3. calls[k].targets = {} /\ calls[k].at = Nobody BY <1>2 DEF Shaped, Quiet
<1>4. PICK none \in Seq(Channel), zero \in Nat : none = <<>> /\ zero = 0
  <2>1. <<>> \in Seq(Channel) /\ 0 \in Nat OBVIOUS
  <2> QED BY <2>1
<1>5. Begin(k, "found", o, zero, none) BY <1>4 DEF FindForDelete
<1>6. /\ calls' \in [Call -> CallRow] /\ \A q \in Call \ {k} : calls'[q] = calls[q]
      /\ calls'[k].stage = "found" /\ calls'[k].order = o /\ calls'[k].todo = none
      /\ calls'[k].targets = calls[k].targets /\ calls'[k].at = calls[k].at
  <2>1. TypeOK OBVIOUS
  <2> QED BY ONLY <1>1, <1>5, <2>1, BeginRow
<1>7. ShapedAt(k)' BY <1>3, <1>4, <1>6 DEF ShapedAt, Quiet
<1>8. \A x \in Order : ~Writes(k, x) /\ ~Writes(k, x)' BY <1>2, <1>6 DEF Writes
<1>9. \A x \in Order : Stays(k, x) BY <1>2, <1>6, <1>8 DEF Stays
<1>10. \A q \in Call, x \in Order \ disturbed :
         calls[q].stage = "found" /\ calls[q].order = x => x \in live'
  BY <1>2 DEF Alone
<1>11. live' \subseteq Order /\ disturbed' \subseteq Order /\ view' \in [Client -> [Order -> Nat]]
  BY <1>2 DEF TypeOK
<1> QED BY <1>2, <1>6, <1>7, <1>8, <1>9, <1>10, <1>11, CallStepInv

\* An order that is gone when its deletion comes was taken by another call.
LEMMA GoneInv ==
    ASSUME TrackInv, NEW k \in Call, DeleteOrder(k), calls[k].order \notin live
    PROVE  TrackInv'
<1> USE DEF TrackInv
<1>1. PICK o \in Order : o = calls[k].order BY DEF TypeOK
<1>2. /\ calls[k].stage = "found" /\ Begin(k, "sending", o, written[o], Events(o))
      /\ UNCHANGED <<live, written, hubVars, view, audience, disturbed>>
  BY <1>1 DEF DeleteOrder, reportVars
<1>3. written[o] \in Nat /\ Events(o) \in Seq(Channel) /\ "sending" \in CallStages
  BY ItsChannels DEF TypeOK, CallStages
<1>4. /\ calls' \in [Call -> CallRow] /\ \A q \in Call \ {k} : calls'[q] = calls[q]
      /\ calls'[k].stage = "sending" /\ calls'[k].order = o /\ calls'[k].todo = Events(o)
  BY <1>2, <1>3, BeginRow
<1>5. ShapedAt(k)' BY <1>4, ItsChannels DEF ShapedAt, Quiet
<1>6. o \in disturbed BY <1>1, <1>2 DEF Alone
<1>7. \A x \in Order \ disturbed' : ~Writes(k, x) /\ ~Writes(k, x)'
  BY <1>2, <1>4, <1>6 DEF Writes
<1>8. \A x \in Order \ disturbed' : Stays(k, x) BY <1>4, <1>7 DEF Stays
<1>9. \A q \in Call, x \in Order \ disturbed :
         calls[q].stage = "found" /\ calls[q].order = x => x \in live'
  BY <1>2 DEF Alone
<1>10. live' \subseteq Order /\ disturbed' \subseteq Order /\ view' \in [Client -> [Order -> Nat]]
  BY <1>2 DEF TypeOK
<1> QED BY <1>2, <1>4, <1>5, <1>7, <1>8, <1>9, <1>10, CallStepInv


\* Who is owed a frame through a channel is copied from it, for good.
LEMMA CopySubscribersInv ==
    ASSUME TrackInv, NEW k \in Call, CopySubscribers(k)
    PROVE  TrackInv'
<1> USE DEF TrackInv
<1> DEFINE call == calls[k]
           next == [call EXCEPT !.targets = subs[Head(call.todo)], !.todo = Tail(call.todo)]
<1>1. /\ call \in CallRow /\ call.stage = "sending" /\ call.targets = {} /\ call.at = Nobody
      /\ calls' = [calls EXCEPT ![k] = Settled(next)]
      /\ UNCHANGED <<live, written, hubVars, view, audience, disturbed>>
  BY DEF CopySubscribers, TypeOK, CallRow, reportVars
<1>2. call.todo \in Seq(Channel) /\ call.todo # <<>> BY <1>1 DEF Shaped, Quiet, CallRow
<1>3. Head(call.todo) \in Channel /\ Tail(call.todo) \in Seq(Channel) BY <1>2
<1>4. subs[Head(call.todo)] \subseteq Client BY <1>3 DEF TypeOK
<1>5. /\ next \in CallRow /\ next.stage = "sending" /\ next.order = call.order
      /\ next.version = call.version /\ next.targets = subs[Head(call.todo)]
      /\ next.todo = Tail(call.todo)
  BY <1>1, <1>3, <1>4 DEF CallRow
<1> HIDE DEF next
<1>6. /\ calls' \in [Call -> CallRow] /\ \A q \in Call \ {k} : calls'[q] = calls[q]
      /\ calls'[k] = Settled(next)
  BY <1>1, <1>5, SettledRow DEF TypeOK, CallRow
<1>7. ShapedAt(k)' BY <1>5, <1>6, SettledRow DEF ShapedAt, Quiet
<1>8. \A x \in Order : Writes(k, x)' => Writes(k, x) /\ calls'[k].version = calls[k].version
  BY <1>1, <1>5, <1>6, SettledRow DEF Writes
<1>9. calls'[k].stage # "found" BY <1>5, <1>6, SettledRow
<1>10. ASSUME NEW x \in Order, NEW c \in Watching(x), Writes(k, x), Owes(k, c)
       PROVE  Writes(k, x)' /\ Owes(k, c)'
  <2>1. c \in next.targets \/ \E i \in 1..Len(next.todo) : next.todo[i] = ChannelOf[c]
    <3>1. PICK i \in 1..Len(call.todo) : call.todo[i] = ChannelOf[c]
      <4>1. c # Nobody BY TrackingAssumption DEF TypeOK, Watching
      <4> QED BY <1>1, <1>10, <4>1 DEF Owes
    <3>2. CASE i = 1
      <4>1. Head(call.todo) = ChannelOf[c] BY <1>2, <3>1, <3>2
      <4> QED BY <1>5, <4>1 DEF Subscribed, Watching
    <3>3. CASE i # 1
      <4>1. i - 1 \in 1..Len(Tail(call.todo)) /\ Tail(call.todo)[i - 1] = call.todo[i]
        BY <1>2, <3>1, <3>3
      <4> QED BY <1>5, <3>1, <4>1
    <3> QED BY <3>2, <3>3
  <2>2. ~Quiet(next)
    <3>1. next.todo = <<>> => Len(next.todo) = 0 OBVIOUS
    <3> QED BY <2>1, <3>1 DEF Quiet
  <2>3. calls'[k] = next BY <1>5, <1>6, <2>2, SettledRow
  <2> QED BY <1>5, <1>10, <2>1, <2>3 DEF Writes, Owes
<1>11. \A x \in Order : Stays(k, x) BY <1>8, <1>9 DEF Stays
<1>12. \A q \in Call, x \in Order \ disturbed :
         calls[q].stage = "found" /\ calls[q].order = x => x \in live'
  BY <1>1 DEF Alone
<1>13. live' \subseteq Order /\ disturbed' \subseteq Order /\ view' \in [Client -> [Order -> Nat]]
  BY <1>1 DEF TypeOK
<1> QED BY <1>1, <1>6, <1>7, <1>10, <1>11, <1>12, <1>13, CallStepInv

\* The frame that is out says what was last written.
LEMMA FinishWriteInv ==
    ASSUME TrackInv, NEW k \in Call, FinishWrite(k)
    PROVE  TrackInv'
<1> USE DEF TrackInv
<1> DEFINE call == calls[k]
           next == [call EXCEPT !.at = Nobody]
<1>1. PICK c \in Client : c = call.at BY DEF FinishWrite, TypeOK
<1>2. c # Nobody /\ call \in CallRow BY TrackingAssumption DEF TypeOK, CallRow
<1>3. call.stage = "sending" BY <1>1, <1>2 DEF Shaped, Quiet
<1>4. /\ calls' = [calls EXCEPT ![k] = Settled(next)]
      /\ UNCHANGED <<live, written, hubVars, audience, disturbed>>
      /\ \/ view' = [view EXCEPT ![c][call.order] = call.version]
         \/ ~Connected(c) /\ view' = view
  BY <1>1 DEF FinishWrite, reportVars
<1>5. /\ next \in CallRow /\ next.stage = "sending" /\ next.order = call.order
      /\ next.version = call.version /\ next.targets = call.targets /\ next.todo = call.todo
  BY <1>2, <1>3 DEF CallRow
<1> HIDE DEF next
<1>6. /\ calls' \in [Call -> CallRow] /\ \A q \in Call \ {k} : calls'[q] = calls[q]
      /\ calls'[k] = Settled(next)
  BY <1>4, <1>5, SettledRow DEF TypeOK, CallRow
<1>7. ShapedAt(k)' BY <1>5, <1>6, SettledRow DEF ShapedAt, Quiet
<1>8. \A x \in Order : Writes(k, x)' => Writes(k, x) /\ calls'[k].version = calls[k].version
  BY <1>3, <1>5, <1>6, SettledRow DEF Writes
<1>9. calls'[k].stage # "found" BY <1>5, <1>6, SettledRow
<1>10. call.order \in Order /\ call.version \in Nat BY <1>2 DEF CallRow
<1>11. view' \in [Client -> [Order -> Nat]]
  <2>1. view \in [Client -> [Order -> Nat]] BY DEF TypeOK
  <2>2. CASE view' = [view EXCEPT ![c][call.order] = call.version]
    BY <1>10, <2>1, <2>2
  <2> QED BY <1>4, <2>1, <2>2
<1>12. \A d \in Client, x \in Order :
         Connected(d) => view'[d][x] = IF d = c /\ x = call.order THEN call.version
                                       ELSE view[d][x]
  BY <1>4, <1>10 DEF TypeOK
<1>13. \A x \in Order : \A d \in Watching(x) : d \in Client /\ Connected(d)
  BY DEF Watching, TypeOK
<1>14. \A x \in Order \ disturbed : call.order = x => call.version = written[x]
  BY <1>3 DEF Alone, Writes
<1>15. ASSUME NEW x \in Order \ disturbed, NEW d \in Watching(x)
       PROVE  /\ view[d][x] = written[x] => view'[d][x] = written[x]
              /\ Writes(k, x) /\ Owes(k, d) =>
                   (Writes(k, x)' /\ Owes(k, d)') \/ view'[d][x] = written[x]
  <2>1. view[d][x] = written[x] => view'[d][x] = written[x] BY <1>12, <1>13, <1>14
  <2>2. ASSUME Writes(k, x), d = c PROVE view'[d][x] = written[x]
    BY <1>12, <1>13, <1>14, <2>2 DEF Writes
  <2>3. ASSUME Writes(k, x), Owes(k, d), d # c PROVE Writes(k, x)' /\ Owes(k, d)'
    <3>1. d \in next.targets \/ \E i \in 1..Len(next.todo) : next.todo[i] = ChannelOf[d]
      BY <1>1, <1>3, <1>5, <2>3 DEF Owes
    <3>2. ~Quiet(next)
      <4>1. next.todo = <<>> => Len(next.todo) = 0 OBVIOUS
      <4> QED BY <3>1, <4>1 DEF Quiet
    <3>3. calls'[k] = next BY <1>5, <1>6, <3>2, SettledRow
    <3> QED BY <1>5, <2>3, <3>1, <3>3 DEF Writes, Owes
  <2> QED BY <2>1, <2>2, <2>3
<1>16. \A x \in Order : Stays(k, x) BY <1>8, <1>9 DEF Stays
<1>17. \A q \in Call, x \in Order \ disturbed :
         calls[q].stage = "found" /\ calls[q].order = x => x \in live'
  BY <1>4 DEF Alone
<1>18. live' \subseteq Order /\ disturbed' \subseteq Order BY <1>4 DEF TypeOK
<1> QED BY <1>4, <1>6, <1>7, <1>11, <1>15, <1>16, <1>17, <1>18, CallStepInv


\* Calls that clash may lose frames: their orders are disturbed, and no others.
LEMMA ClashStep ==
    ASSUME TrackInv, NEW K \in SUBSET Call, NEW now \in [Call -> CallRow], Clash(K, now),
           \A q \in K : /\ now[q].stage = "sending" /\ now[q].at # Nobody
                        /\ calls[q].stage = "sending" /\ calls[q].order = now[q].order,
           \A q \in Call \ K : now[q] = calls[q]
    PROVE  /\ calls' \in [Call -> CallRow] /\ \A q \in Call \ K : calls'[q] = calls[q]
           /\ disturbed \subseteq disturbed' /\ disturbed' \subseteq Order
           /\ Shaped' /\ \A q \in K : calls'[q].stage # "found"
           /\ \A o \in Order \ disturbed', q \in K : ~Writes(q, o) /\ ~Writes(q, o)'
<1> USE DEF TrackInv
<1>1. PICK next \in [K -> UNION {Fates(now[k]) : k \in K}] :
        /\ \A q \in K : next[q] \in Fates(now[q])
        /\ calls' = [k \in Call |-> IF k \in K THEN next[k] ELSE now[k]]
  BY DEF Clash
<1>2. disturbed' = disturbed \cup {now[k].order : k \in K} BY DEF Clash
<1>3. \A q \in K : /\ next[q] \in CallRow /\ next[q].stage \in {"sending", "done"}
                   /\ Quiet(next[q]) <=> next[q].stage # "sending"
                   /\ next[q].stage = "sending" => next[q].order = now[q].order
  <2> SUFFICES ASSUME NEW q \in K
               PROVE  /\ next[q] \in CallRow /\ next[q].stage \in {"sending", "done"}
                      /\ Quiet(next[q]) <=> next[q].stage # "sending"
                      /\ next[q].stage = "sending" => next[q].order = now[q].order
    OBVIOUS
  <2>1. PICK call \in CallRow : call = now[q] OBVIOUS
  <2>2. PICK fate \in Fates(call) : fate = next[q] BY <1>1, <2>1
  <2> QED BY <2>1, <2>2, FateRow
<1>4. \A q \in Call : calls'[q] = IF q \in K THEN next[q] ELSE calls[q] BY <1>1
<1>5. calls' \in [Call -> CallRow] BY <1>1, <1>3
<1>6. disturbed' \subseteq Order BY <1>2 DEF TypeOK, CallRow
<1>7. Shaped' BY <1>3, <1>4 DEF Shaped, Quiet
<1>8. \A o \in Order \ disturbed', q \in K : now[q].order # o BY <1>2
<1>9. \A o \in Order \ disturbed', q \in K : ~Writes(q, o) /\ ~Writes(q, o)'
  BY <1>3, <1>4, <1>8 DEF Writes
<1> QED BY <1>2, <1>3, <1>4, <1>5, <1>6, <1>7, <1>9

\* ... while all else stays as it was.
LEMMA ClashInv ==
    ASSUME TrackInv, NEW K \in SUBSET Call, NEW now \in [Call -> CallRow], Clash(K, now),
           \A q \in K : /\ now[q].stage = "sending" /\ now[q].at # Nobody
                        /\ calls[q].stage = "sending" /\ calls[q].order = now[q].order,
           \A q \in Call \ K : now[q] = calls[q],
           UNCHANGED <<live, written, subs, stuck, wrapper, view, audience>>,
           conn' \in [Client -> {"off", "added", "open", "closing", "closed"}],
           Subscribed', Pooled', \A o \in Order : Watching(o)' \subseteq Watching(o)
    PROVE  TrackInv'
<1> USE DEF TrackInv
<1>1. /\ calls' \in [Call -> CallRow] /\ \A q \in Call \ K : calls'[q] = calls[q]
      /\ disturbed \subseteq disturbed' /\ disturbed' \subseteq Order
      /\ Shaped' /\ \A q \in K : calls'[q].stage # "found"
      /\ \A o \in Order \ disturbed', q \in K : ~Writes(q, o) /\ ~Writes(q, o)'
  BY ClashStep
<1>2. TypeOK' BY <1>1 DEF TypeOK, CallRow
<1>4. \A o \in Order, q \in Call \ K : Writes(q, o)' = Writes(q, o) BY <1>1 DEF Writes
<1>5. \A o \in Order \ disturbed', q \in Call : Stays(q, o)
  <2> SUFFICES ASSUME NEW o \in Order \ disturbed', NEW q \in Call PROVE Stays(q, o) OBVIOUS
  <2>1. CASE q \in K BY <1>1, <2>1 DEF Stays
  <2>2. CASE q \notin K
    <3>1. calls'[q] = calls[q] /\ o \notin disturbed BY <1>1, <2>2
    <3> QED BY <1>4, <2>2, <3>1 DEF Stays, Alone
  <2> QED BY <2>1, <2>2
<1>6. \A o \in Order \ disturbed' : \A c \in Watching(o)' : Delivers(o, c)
  BY <1>1, <1>4 DEF Delivers, Owes
<1> QED BY <1>1, <1>2, <1>5, <1>6, StepInv

\* A write that starts on the connection of d, which a client that is still
\* connected is itself.
LEMMA WriteToInv ==
    ASSUME TrackInv, NEW k \in Call, NEW c \in Client, NEW d \in Holders(c), WriteTo(k, c, d),
           calls[k].at = Nobody, c \in calls[k].targets,
           UNCHANGED <<live, written, subs, conn, stuck, wrapper, view, audience>>
    PROVE  TrackInv'
<1> USE DEF TrackInv
<1> DEFINE call == calls[k]
           next == [call EXCEPT !.at = d, !.targets = @ \ {c}]
<1>1. /\ call \in CallRow /\ d \in Client /\ d # Nobody
      /\ Connected(c) => c = d
  BY TrackingAssumption DEF TypeOK, CallRow, Holders, Held, Pooled, Connected
<1>2. call.stage = "sending" BY DEF Shaped, Quiet
<1>3. /\ next \in CallRow /\ next.stage = "sending" /\ next.order = call.order /\ next.at = d
      /\ next.version = call.version /\ next.targets = call.targets \ {c}
      /\ next.todo = call.todo
  BY <1>1, <1>2 DEF CallRow
<1>4. [calls EXCEPT ![k].at = d, ![k].targets = @ \ {c}] = [calls EXCEPT ![k] = next]
  BY DEF TypeOK
<1> HIDE DEF next
<1>5. PICK now \in [Call -> CallRow] : now = [calls EXCEPT ![k] = next]
  BY <1>3 DEF TypeOK, CallRow
<1>6. now[k] = next /\ \A q \in Call \ {k} : now[q] = calls[q] BY <1>5 DEF TypeOK
<1>7. CASE WritersTo(d) = {}
  <2>1. calls' = now /\ UNCHANGED disturbed BY <1>4, <1>5, <1>7 DEF WriteTo
  <2>2. ShapedAt(k)' BY <1>1, <1>3, <1>6, <2>1 DEF ShapedAt, Quiet
  <2>3. \A x \in Order : /\ Writes(k, x)' <=> Writes(k, x)
                         /\ calls'[k].version = calls[k].version
    BY <1>2, <1>3, <1>6, <2>1 DEF Writes
  <2>4. \A e : Owes(k, e) /\ e # Nobody /\ (e = c => c = d) => Owes(k, e)'
    BY <1>1, <1>2, <1>3, <1>6, <2>1 DEF Owes
  <2>5. \A x \in Order : \A e \in Watching(x) : e # Nobody /\ (e = c => c = d)
    BY <1>1, TrackingAssumption DEF TypeOK, Watching
  <2>6. \A x \in Order : Stays(k, x) BY <1>3, <1>6, <2>1, <2>3 DEF Stays
  <2>7. \A q \in Call, x \in Order \ disturbed :
           calls[q].stage = "found" /\ calls[q].order = x => x \in live'
    BY DEF Alone
  <2>8. live' \subseteq Order /\ disturbed' \subseteq Order /\ view' \in [Client -> [Order -> Nat]]
    BY <2>1 DEF TypeOK
  <2>9. calls' \in [Call -> CallRow] /\ \A q \in Call \ {k} : calls'[q] = calls[q]
    BY <1>6, <2>1
  <2>10. UNCHANGED hubVars BY DEF hubVars
  <2> QED BY <2>1, <2>2, <2>3, <2>4, <2>5, <2>6, <2>7, <2>8, <2>9, <2>10, CallStepInv
<1>8. CASE WritersTo(d) # {}
  <2>1. PICK K \in SUBSET Call : K = WritersTo(d) \cup {k} BY DEF WritersTo
  <2>2. Clash(K, now) BY <1>4, <1>5, <1>8, <2>1 DEF WriteTo
  <2>3. \A q \in K : /\ now[q].stage = "sending" /\ now[q].at # Nobody
                     /\ calls[q].stage = "sending" /\ calls[q].order = now[q].order
    BY <1>1, <1>2, <1>3, <1>6, <2>1 DEF WritersTo, Shaped, Quiet
  <2>4. \A q \in Call \ K : now[q] = calls[q] BY <1>6, <2>1
  <2>5. conn' \in [Client -> {"off", "added", "open", "closing", "closed"}] BY DEF TypeOK
  <2>6. Subscribed' /\ Pooled' BY DEF Subscribed, Connected, Pooled, Held
  <2>7. \A o \in Order : Watching(o)' \subseteq Watching(o) BY DEF Watching, Connected
  <2> QED BY <2>2, <2>3, <2>4, <2>5, <2>6, <2>7, ClashInv
<1> QED BY <1>7, <1>8

\* A call that panics owes frames only of an order that is then disturbed.
LEMMA StartWriteInv ==
    ASSUME TrackInv, NEW k \in Call, NEW c \in Client, StartWrite(k, c)
    PROVE  TrackInv'
<1> USE DEF TrackInv
<1>1. /\ calls[k].at = Nobody /\ c \in calls[k].targets
      /\ UNCHANGED <<live, written, subs, conn, stuck, wrapper, view, audience>>
  BY DEF StartWrite, hubVars
<1>2. ASSUME NEW d \in Holders(c), WriteTo(k, c, d) PROVE TrackInv'
  BY <1>1, <1>2, WriteToInv
<1>3. CASE WriteToReleased(k)
  <2>1. "done" \in CallStages /\ calls[k].order \in Order BY DEF CallStages, TypeOK
  <2>2. calls' = [calls EXCEPT ![k] = Blank("done")] /\ disturbed' = disturbed \cup {calls[k].order}
    BY <1>3 DEF WriteToReleased, Panics
  <2>3. /\ calls' \in [Call -> CallRow] /\ \A q \in Call \ {k} : calls'[q] = calls[q]
        /\ calls'[k].stage = "done" /\ ShapedAt(k)'
    BY <2>1, <2>2, BlankRow DEF TypeOK, CallRow, ShapedAt, Quiet
  <2>4. \A x \in Order \ disturbed' : ~Writes(k, x) /\ ~Writes(k, x)'
    BY <2>2, <2>3 DEF Writes
  <2>5. \A x \in Order \ disturbed' : Stays(k, x) BY <2>3, <2>4 DEF Stays
  <2>6. \A q \in Call, x \in Order \ disturbed' :
           calls[q].stage = "found" /\ calls[q].order = x => x \in live'
    BY <1>1, <2>2 DEF Alone
  <2>7. /\ live' \subseteq Order /\ disturbed' \subseteq Order /\ disturbed \subseteq disturbed'
        /\ view' \in [Client -> [Order -> Nat]] /\ UNCHANGED <<written, hubVars, view, audience>>
    BY <1>1, <2>1, <2>2 DEF TypeOK, hubVars
  <2> QED BY <2>3, <2>4, <2>5, <2>6, <2>7, CallStepInv
<1> QED BY <1>2, <1>3 DEF StartWrite


-----------------------------------------------------------------------------
(* The steps of connections                                                 *)

\* What a wrapper is given for is in nobody's hands, and who comes is in no
\* audience yet.
LEMMA SubscribeInv ==
    ASSUME TrackInv, NEW c \in Client, Subscribe(c)
    PROVE  TrackInv'
<1> USE DEF TrackInv
<1>1. /\ conn[c] = "off" /\ ChannelOf[c] \in Channel
      /\ subs' = [subs EXCEPT ![ChannelOf[c]] = @ \cup {c}]
      /\ conn' = [conn EXCEPT ![c] = "added"]
      /\ UNCHANGED <<live, written, calls, stuck, view, audience, disturbed>>
  BY TrackingAssumption DEF Subscribe, reportVars
<1>2. \A h \in Channel : subs'[h] = IF h = ChannelOf[c] THEN subs[h] \cup {c} ELSE subs[h]
  BY <1>1 DEF TypeOK
<1>3. \A d \in Client : conn'[d] = IF d = c THEN "added" ELSE conn[d] BY <1>1 DEF TypeOK
<1>4. PICK w \in FreeWrappers(c) : wrapper' = [wrapper EXCEPT ![c] = w] BY DEF Subscribe
<1>5. /\ w \in Client \cup {Nobody} /\ \A d \in Held : wrapper[d] # w
      /\ \A d \in Client : wrapper'[d] = IF d = c THEN w ELSE wrapper[d]
  BY <1>4 DEF FreeWrappers, TypeOK
<1>6. TypeOK' BY <1>1, <1>4, <1>5 DEF TypeOK
<1>7. \A o \in Order : \A d \in audience[o] : d \in Client /\ d # c BY <1>1 DEF Subscribed, TypeOK
<1>8. Subscribed'
  <2>1. ASSUME NEW d \in Client, NEW h \in Channel, d \in subs'[h]
        PROVE  h = ChannelOf[d] /\ conn'[d] # "off"
    <3>1. CASE d = c BY <1>2, <1>3, <2>1, <3>1 DEF Subscribed
    <3>2. CASE d # c
      <4>1. d \in subs[h] BY <1>2, <2>1, <3>2
      <4> QED BY <1>3, <3>2, <4>1 DEF Subscribed
    <3> QED BY <3>1, <3>2
  <2>2. ASSUME NEW o \in Order, NEW d \in audience'[o]
        PROVE  /\ conn'[d] # "off"
               /\ ChannelOf[d] \in {Admins(RestaurantOf[o]), Public(NumberOf[o])}
               /\ Connected(d)' => d \in subs'[ChannelOf[d]]
    <3>1. d \in audience[o] /\ d \in Client /\ d # c /\ ChannelOf[d] \in Channel
      BY <1>1, <1>7, TrackingAssumption
    <3> QED BY <1>2, <1>3, <3>1 DEF Subscribed, Connected
  <2> QED BY <2>1, <2>2 DEF Subscribed
<1>9. Pooled'
  <2>1. Held' = Held \cup {c} /\ c \notin Held BY <1>1, <1>3 DEF Held
  <2>2. Held \subseteq Client BY DEF Held
  <2> QED BY <1>5, <2>1, <2>2 DEF Pooled
<1>10. \A o \in Order : Watching(o)' \subseteq Watching(o)
  BY <1>1, <1>3, <1>7 DEF Watching, Connected
<1> QED BY <1>1, <1>6, <1>8, <1>9, <1>10, HubStepInv

\* Who is not added to the hub may only leave it.
LEMMA FewerInv ==
    ASSUME TrackInv, UNCHANGED <<wrapper, audience>>,
           \A h \in Channel : subs'[h] \subseteq subs[h],
           \A d \in Client : /\ conn'[d] = "off" => conn[d] = "off"
                             /\ d \in Held' => d \in Held
                             /\ Connected(d)' => Connected(d)
                             /\ Connected(d)' /\ d \in subs[ChannelOf[d]]
                                  => d \in subs'[ChannelOf[d]]
    PROVE  Subscribed' /\ Pooled' /\ \A o \in Order : Watching(o)' \subseteq Watching(o)
<1> USE DEF TrackInv
<1>1. \A o \in Order : \A d \in audience[o] : d \in Client BY DEF TypeOK
<1>2. \A o \in Order : Watching(o)' \subseteq Watching(o) BY <1>1 DEF Watching
<1>3. Pooled' BY DEF Pooled, Held
<1>4. Subscribed'
  <2>1. \A d \in Client, h \in Channel : d \in subs'[h] => h = ChannelOf[d] /\ conn'[d] # "off"
    BY DEF Subscribed
  <2>2. ASSUME NEW o \in Order, NEW d \in audience'[o]
        PROVE  /\ conn'[d] # "off"
               /\ ChannelOf[d] \in {Admins(RestaurantOf[o]), Public(NumberOf[o])}
               /\ Connected(d)' => d \in subs'[ChannelOf[d]]
    BY <1>1, <2>2 DEF Subscribed
  <2> QED BY <2>1, <2>2 DEF Subscribed
<1> QED BY <1>2, <1>3, <1>4

LEMMA SendReadyInv ==
    ASSUME TrackInv, NEW c \in Client, SendReady(c)
    PROVE  TrackInv'
<1> USE DEF TrackInv
<1>1. UNCHANGED <<live, written, subs, stuck, wrapper, view, audience>> BY DEF SendReady
<1>2. PICK stage \in {"open", "closing"} : conn' = [conn EXCEPT ![c] = stage] BY DEF SendReady
<1>3. conn' \in [Client -> {"off", "added", "open", "closing", "closed"}] BY <1>2 DEF TypeOK
<1>4. conn[c] = "added" /\ \A d \in Client : conn'[d] = IF d = c THEN stage ELSE conn[d]
  BY <1>2 DEF SendReady, TypeOK
<1>5. Subscribed' /\ Pooled' /\ \A o \in Order : Watching(o)' \subseteq Watching(o)
  <2>1. \A d \in Client : /\ conn'[d] = "off" => conn[d] = "off"
                          /\ d \in Held' => d \in Held
                          /\ Connected(d)' => Connected(d)
    BY <1>4 DEF Held, Connected
  <2> QED BY <1>1, <2>1, FewerInv
<1>6. CASE WritersTo(c) = {}
  <2>1. UNCHANGED <<calls, disturbed>> BY <1>6 DEF SendReady
  <2>2. TypeOK' BY <1>1, <1>3, <2>1 DEF TypeOK
  <2> QED BY <1>1, <1>5, <2>1, <2>2, HubStepInv
<1>7. CASE WritersTo(c) # {}
  <2>1. PICK K \in SUBSET Call : K = WritersTo(c) BY DEF WritersTo
  <2>2. PICK now \in [Call -> CallRow] : now = calls BY DEF TypeOK, CallRow
  <2>3. Clash(K, now) BY <1>7, <2>1, <2>2 DEF SendReady
  <2>4. \A q \in K : calls[q].at # Nobody /\ calls[q].stage = "sending"
    BY <2>1, TrackingAssumption DEF WritersTo, Shaped, Quiet
  <2> QED BY <1>1, <1>3, <1>5, <2>2, <2>3, <2>4, ClashInv
<1> QED BY <1>6, <1>7

LEMMA UnsubscribeInv ==
    ASSUME TrackInv, NEW c \in Client, Unsubscribe(c)
    PROVE  TrackInv'
<1> USE DEF TrackInv
<1>1. /\ ChannelOf[c] \in Channel
      /\ subs' = [subs EXCEPT ![ChannelOf[c]] = @ \ {c}]
      /\ conn' = [conn EXCEPT ![c] = "closed"] /\ stuck' = stuck \ {c}
      /\ UNCHANGED <<live, written, calls, wrapper, view, audience, disturbed>>
  BY TrackingAssumption DEF Unsubscribe, reportVars
<1>2. \A h \in Channel : subs'[h] = IF h = ChannelOf[c] THEN subs[h] \ {c} ELSE subs[h]
  BY <1>1 DEF TypeOK
<1>3. \A d \in Client : conn'[d] = IF d = c THEN "closed" ELSE conn[d] BY <1>1 DEF TypeOK
<1>4. TypeOK' BY <1>1 DEF TypeOK
<1>5. \A d \in Client : /\ conn'[d] = "off" => conn[d] = "off"
                        /\ d \in Held' => d \in Held
                        /\ Connected(d)' => Connected(d)
                        /\ Connected(d)' /\ d \in subs[ChannelOf[d]] => d \in subs'[ChannelOf[d]]
  <2> SUFFICES ASSUME NEW d \in Client
               PROVE  /\ conn'[d] = "off" => conn[d] = "off"
                      /\ d \in Held' => d \in Held
                      /\ Connected(d)' => Connected(d)
                      /\ Connected(d)' /\ d \in subs[ChannelOf[d]] => d \in subs'[ChannelOf[d]]
    OBVIOUS
  <2>1. ChannelOf[d] \in Channel BY TrackingAssumption
  <2> QED BY <1>2, <1>3, <2>1 DEF Held, Connected
<1>6. \A h \in Channel : subs'[h] \subseteq subs[h] BY <1>2
<1>7. Subscribed' /\ Pooled' /\ \A o \in Order : Watching(o)' \subseteq Watching(o)
  BY <1>1, <1>5, <1>6, FewerInv
<1> QED BY <1>1, <1>4, <1>7, HubStepInv

\* StopReading, EndPumps and Disconnect change what the hub does not look at.
LEMMA FadeInv ==
    ASSUME TrackInv, NEW c \in Client, StopReading(c) \/ EndPumps(c) \/ Disconnect(c)
    PROVE  TrackInv'
<1> USE DEF TrackInv
<1>1. UNCHANGED <<live, written, calls, subs, wrapper, view, audience, disturbed>>
  BY DEF StopReading, EndPumps, Disconnect, reportVars
<1>2. conn[c] = "open" /\ (UNCHANGED conn \/ conn' = [conn EXCEPT ![c] = "closing"])
  BY DEF StopReading, EndPumps, Disconnect
<1>3. stuck' \subseteq Slow BY DEF StopReading, EndPumps, Disconnect, TypeOK
<1>4. /\ conn' \in [Client -> {"off", "added", "open", "closing", "closed"}]
      /\ \A d \in Client : conn'[d] = conn[d] \/ (d = c /\ conn'[d] = "closing")
  BY <1>2 DEF TypeOK
<1>5. TypeOK' BY <1>1, <1>3, <1>4 DEF TypeOK
<1>6. \A d \in Client : /\ conn'[d] = "off" => conn[d] = "off"
                        /\ d \in Held' => d \in Held
                        /\ Connected(d)' => Connected(d)
  BY <1>2, <1>4 DEF Held, Connected
<1>7. Subscribed' /\ Pooled' /\ \A o \in Order : Watching(o)' \subseteq Watching(o)
  BY <1>1, <1>6, FewerInv
<1> QED BY <1>1, <1>5, <1>7, HubStepInv

\* A crash ends the calls, and nobody is connected after it.
LEMMA CrashInv == TrackInv /\ Crash => TrackInv'
<1> SUFFICES ASSUME TrackInv, Crash PROVE TrackInv' OBVIOUS
<1> USE DEF TrackInv
<1>1. /\ calls' = [k \in Call |-> IF calls[k].stage \in Underway THEN Blank("done") ELSE calls[k]]
      /\ subs' = [h \in Channel |-> {}] /\ stuck' = {}
      /\ conn' = [c \in Client |-> IF c \in Held THEN "closed" ELSE conn[c]]
      /\ UNCHANGED <<live, written, wrapper, view, audience, disturbed>>
  BY DEF Crash, reportVars
<1>2. "done" \in CallStages BY DEF CallStages
<1>3. \A k \in Call : /\ calls'[k] \in CallRow /\ calls'[k].stage \in {"idle", "done"}
                      /\ Quiet(calls'[k])
  <2> SUFFICES ASSUME NEW k \in Call
               PROVE  /\ calls'[k] \in CallRow /\ calls'[k].stage \in {"idle", "done"}
                      /\ Quiet(calls'[k])
    OBVIOUS
  <2>1. calls[k] \in CallRow /\ calls[k].stage \in CallStages BY DEF TypeOK, CallRow
  <2>2. CASE calls[k].stage \in Underway
    <3>1. calls'[k] = Blank("done") BY <1>1, <2>2
    <3> QED BY <1>2, <3>1, BlankRow
  <2>3. CASE calls[k].stage \notin Underway
    <3>1. calls'[k] = calls[k] BY <1>1, <2>3
    <3>2. calls[k].stage \in {"idle", "done"} BY <2>1, <2>3 DEF CallStages, Underway
    <3> QED BY <2>1, <3>1, <3>2 DEF Shaped
  <2> QED BY <2>2, <2>3
<1>4. \A d \in Client : d \notin Held' /\ ~Connected(d)' /\ (conn'[d] = "off" => conn[d] = "off")
  BY <1>1 DEF Held, Connected
<1>5. conn' \in [Client -> {"off", "added", "open", "closing", "closed"}] BY <1>1 DEF TypeOK
<1>6. TypeOK'
  <2>1. calls' \in [Call -> CallRow] BY <1>1, <1>3
  <2> QED BY <1>1, <1>5, <2>1 DEF TypeOK, CallRow
<1>7. Shaped' BY <1>3 DEF Shaped, Quiet
<1>8. \A h \in Channel : subs'[h] \subseteq subs[h] BY <1>1
<1>9. Subscribed' /\ Pooled' BY <1>1, <1>4, <1>8, FewerInv
<1>10. \A o \in Order, k \in Call : Stays(k, o) BY <1>3 DEF Stays, Writes
<1>11. \A o \in Order : Watching(o)' = {}
  <2>1. \A o \in Order : audience[o] \subseteq Client BY DEF TypeOK
  <2> QED BY <1>1, <1>4, <2>1 DEF Watching
<1> QED BY <1>1, <1>6, <1>7, <1>9, <1>10, <1>11, StepInv

-----------------------------------------------------------------------------
(* The invariant is inductive                                               *)

LEMMA InitInv == Init => TrackInv
<1> SUFFICES ASSUME Init PROVE TrackInv OBVIOUS
<1>1. "idle" \in CallStages BY DEF CallStages
<1>2. calls \in [Call -> CallRow] /\ \A k \in Call : calls[k].stage = "idle" /\ Quiet(calls[k])
  BY <1>1, BlankRow DEF Init
<1>3. TypeOK BY <1>2, TrackingAssumption DEF Init, TypeOK, CallRow
<1>4. Shaped BY <1>2 DEF Shaped
<1>5. Subscribed /\ Pooled BY DEF Init, Subscribed, Pooled, Held
<1>6. Alone BY <1>2 DEF Alone, Writes
<1>7. Told BY DEF Init, Told, Watching
<1> QED BY <1>3, <1>4, <1>5, <1>6, <1>7 DEF TrackInv

LEMMA NextInv == TrackInv /\ [Next]_vars => TrackInv'
<1> SUFFICES ASSUME TrackInv, [Next]_vars PROVE TrackInv' OBVIOUS
<1>1. ASSUME NEW k \in Call, CallStep(k) PROVE TrackInv'
  <2>1. CASE DeleteOrder(k) /\ calls[k].order \in live
    <3>1. PICK o \in Order : o = calls[k].order BY DEF TrackInv, TypeOK
    <3>2. Publishes(k, o) BY <2>1, <3>1, PublishStep DEF TrackInv
    <3> QED BY <3>2, PublishInv
  <2> QED BY <1>1, <2>1, BroadcastCreatedInv, RollBackInv, GoneInv, CopySubscribersInv,
      StartWriteInv, FinishWriteInv DEF CallStep
<1>2. ASSUME NEW k \in Call, NEW o \in Order,
             InsertOrder(k, o) \/ UpdateStatus(k, o) \/ UpdatePaymentStatus(k, o)
      PROVE  TrackInv'
  <2>1. Publishes(k, o) BY <1>2, PublishStep DEF TrackInv
  <2> QED BY <2>1, PublishInv
<1>3. ASSUME NEW k \in Call, NEW o \in Order, FindForDelete(k, o) PROVE TrackInv'
  BY <1>3, FindForDeleteInv
<1>4. ASSUME NEW c \in Client,
             Subscribe(c) \/ ClientStep(c) \/ StopReading(c) \/ Disconnect(c)
      PROVE  TrackInv'
  BY <1>4, SubscribeInv, SendReadyInv, UnsubscribeInv, FadeInv DEF ClientStep
<1>5. CASE UNCHANGED vars
  BY <1>5 DEF vars, hubVars, reportVars, TrackInv, TypeOK, Shaped, Quiet, Subscribed, Pooled,
     Held, Alone, Told, Watching, Connected, Writes, Owes
<1>6. CASE Crash BY <1>6, CrashInv
<1> QED BY <1>1, <1>2, <1>3, <1>4, <1>5, <1>6 DEF Next

LEMMA InvHolds == Spec => []TrackInv
  BY InitInv, NextInv, PTL DEF Spec

-----------------------------------------------------------------------------
(* The theorems                                                             *)

\* Broadcasts go to channels of the hub, and clients are where their handler
\* put them, however calls and connections interleave.
THEOREM TrackingTypeCorrect == Spec => []TypeOK
<1>1. TrackInv => TypeOK BY DEF TrackInv
<1> QED BY <1>1, InvHolds, PTL

\* When the calls about an order have ended without an overlap, and none has
\* panicked on a connection that closed while it broadcast, whoever has been
\* connected since before the last write was sent what it wrote: the row is
\* written before the hub copies the subscribers (order/service/service.go,
\* UpdateStatus; realtime/hub.go, BroadcastOrder), and a wrapper leads to its own
\* client while that one is connected.
THEOREM LatestShownHolds == Spec => []LatestShown
<1>1. ASSUME TrackInv PROVE LatestShown
  <2> SUFFICES ASSUME NEW o \in Order \ disturbed, CallsOn(o) = {}, NEW c \in Watching(o)
               PROVE  view[c][o] = written[o]
    BY DEF LatestShown
  <2>1. ~\E k \in Call : Writes(k, o) BY DEF CallsOn, Writes, Underway
  <2> QED BY <1>1, <2>1 DEF TrackInv, Told
<1> QED BY <1>1, InvHolds, PTL
=============================================================================
