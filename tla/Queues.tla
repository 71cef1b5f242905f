------------------------------- MODULE Queues -------------------------------
(***************************************************************************)
(* The emulated broker (internal/queues): its queues, its exchanges, and   *)
(* the deliveries its connections have not settled.                        *)
(*                                                                         *)
(* Every operation runs under one mutex, but a delivery leaves the critical*)
(* section as soon as it is put into its session's outbox.  An operation   *)
(* is therefore one action that takes the mutex and writes down the loop   *)
(* it will run (work), and one step per iteration of that loop; nobody     *)
(* else can start before the work is done (Free).                          *)
(*                                                                         *)
(* A queue is an object with an identity of its own: a name that is        *)
(* deleted and declared again is another object, and a delivery that is    *)
(* still out keeps pointing at the old one.                                *)
(***************************************************************************)
EXTENDS Naturals, Sequences, FiniteSets, Routing

CONSTANTS
  Conn,         \* client connections
  Channel,      \* channel numbers a connection uses
  Name,         \* names clients give to queues
  Exchange,     \* exchange names, the default one aside
  Key,          \* routing keys and patterns: sequences of words
  Tag,          \* consumer tags clients choose
  Unnamed,      \* the empty name: the server is to choose
  TagsOf,       \* the tags each connection asks for
  Prefetch,     \* the prefetch counts clients set
  MaxMessages,  \* bound: messages published
  MaxQueues,    \* bound: queue objects ever created
  MaxGenerated, \* bound: consumer tags the server makes up, per connection
  MaxTag,       \* bound: delivery tags issued before requeueing stops
  MaxBindings   \* bound: bindings of one exchange

ASSUME QueuesAssumption ==
  /\ IsFiniteSet(Conn) /\ IsFiniteSet(Channel)
  /\ Unnamed \notin Name \cup Tag
  /\ TagsOf \in [Conn -> SUBSET (Tag \cup {Unnamed})]
  /\ Prefetch \subseteq Nat
  /\ {MaxMessages, MaxQueues, MaxGenerated, MaxTag, MaxBindings} \subseteq Nat

VARIABLES
  named,       \* queue name -> queue object, or NoQueue
  ready,       \* object -> the messages waiting in it
  unacked,     \* object -> how many of its messages are out
  consumers,   \* object -> the consumers that take turns at it
  turn,        \* object -> where the round robin left off
  created,     \* queue objects created so far
  generated,   \* names the server made up for queues
  exchanges,   \* exchange name -> kind and bindings, or NoExchange
  published,   \* messages published so far
  status,      \* connection -> not yet open, open or closed
  nextTag,     \* connection -> the last delivery tag issued
  held,        \* the deliveries out and not settled, of all connections
  outstanding, \* connection -> channel -> how many deliveries it holds
  prefetch,    \* connection -> channel -> its limit, 0 for none
  subscribed,  \* the consumers each connection knows of
  ctags,       \* connection -> consumer tags made up for it
  work,        \* what is left of the operation that has the mutex
  op           \* that operation: who runs it, and what it gives back

queueVars == <<named, ready, unacked, consumers, turn, created, generated>>
connVars == <<status, nextTag, held, outstanding, prefetch, subscribed, ctags>>
vars == <<queueVars, exchanges, published, connVars, work, op>>

NoQueue == 0
Object == 1 .. MaxQueues
QueueName == Name \cup (1 .. MaxQueues)
NoExchange == [kind |-> "none", bindings |-> {}]
NoOp == [conn |-> "none"]
AllDeliveries == 0

Pending == [msg : 1 .. MaxMessages, redelivered : BOOLEAN]
Consumer == [tag : Tag \cup (1 .. MaxGenerated), queue : Object, owner : Conn,
             channel : Channel, noAck : BOOLEAN]
Held == [conn : Conn, tag : Nat \ {0}, queue : Object, msg : 1 .. MaxMessages,
         channel : Channel]
\* A binding and its place in the exchange's list of them.
Binding == [target : Object, key : Key, place : 1 .. MaxBindings]
Step == [do : {"append"}, queue : Object, msg : 1 .. MaxMessages]
          \cup [do : {"dispatch"}, queue : Object]
          \cup [do : {"drop"}, queue : Object, tag : Tag \cup (1 .. MaxGenerated)]
          \cup [do : {"give"}, tag : Nat \ {0}]

----------------------------------------------------------------------------
(* Reading the state *)

Free == work = <<>>
Open(c) == status[c] = "open"
HeldBy(c) == {h \in held : h.conn = c}
HeldAs(c, tag) == CHOOSE h \in HeldBy(c) : h.tag = tag
ConsumersOf(c) == {s \in subscribed : s.owner = c}

\* The orders in which a loop over a Go map may visit a set.
Orderings(S) ==
  {s \in [1 .. Cardinality(S) -> S] : \A i, j \in DOMAIN s : s[i] = s[j] => i = j}

HasRoom(c, ch) ==
  \/ prefetch[c][ch] = 0
  \/ outstanding[c][ch] < prefetch[c][ch]

\* The indices of a queue's consumers that have room, as offsets from turn.
Willing(q) ==
  {k \in 0 .. Len(consumers[q]) - 1 :
     LET taking == consumers[q][((turn[q] + k) % Len(consumers[q])) + 1]
     IN HasRoom(taking.owner, taking.channel)}

\* selected: the one delivery named, on whichever channel it is, or every
\* delivery of the channel up to the tag; in the latter case highest first.
Selected(c, tag, ch, multiple) ==
  IF multiple
  THEN {h \in HeldBy(c) : h.channel = ch /\ (tag = AllDeliveries \/ h.tag <= tag)}
  ELSE {h \in HeldBy(c) : h.tag = tag}

\* The queues a message addressed this way reaches, each once, in the order
\* of the first binding that leads to each.
BindingsTo(e, key, q) ==
  {b \in exchanges[e].bindings :
     b.target = q /\ Reaches(exchanges[e].kind, b.key, key)}
Destinations(e, key) == {q \in Object : BindingsTo(e, key, q) # {}}
InBindingOrder(e, key, order) ==
  \A i, j \in DOMAIN order : i < j =>
    \E a \in BindingsTo(e, key, order[i]) :
      \A b \in BindingsTo(e, key, order[j]) : a.place < b.place

----------------------------------------------------------------------------
(* Mutants: one slip of the code each, used only to test the properties. *)

GiveForgetsUnacked(h, requeue) ==
  /\ held' = held \ {h}
  /\ outstanding' = [outstanding EXCEPT ![h.conn][h.channel] = @ - 1]
  /\ ready' = [ready EXCEPT ![h.queue] =
                 IF requeue THEN <<[msg |-> h.msg, redelivered |-> TRUE]>> \o @
                 ELSE @]
  /\ UNCHANGED unacked

GiveLosesMessage(h, requeue) ==
  /\ held' = held \ {h}
  /\ outstanding' = [outstanding EXCEPT ![h.conn][h.channel] = @ - 1]
  /\ unacked' = [unacked EXCEPT ![h.queue] = @ - 1]
  /\ UNCHANGED ready

GiveToTheTail(h, requeue) ==
  /\ held' = held \ {h}
  /\ outstanding' = [outstanding EXCEPT ![h.conn][h.channel] = @ - 1]
  /\ unacked' = [unacked EXCEPT ![h.queue] = @ - 1]
  /\ ready' = [ready EXCEPT ![h.queue] =
                 IF requeue THEN Append(@, [msg |-> h.msg, redelivered |-> TRUE])
                 ELSE @]

DropNewest(q, tag) ==
  IF consumers[q] = <<>> THEN UNCHANGED <<consumers, turn>>
  ELSE /\ consumers' = [consumers EXCEPT ![q] = SubSeq(@, 1, Len(@) - 1)]
       /\ turn' = [turn EXCEPT ![q] = 0]

----------------------------------------------------------------------------
(* The pieces operations are made of *)

\* Take the mutex with a loop to run; an empty loop gives it back at once.
Enter(c, requeue, batch, steps) ==
  /\ work' = steps
  /\ op' = IF steps = <<>> THEN NoOp
           ELSE [conn |-> c, requeue |-> requeue, batch |-> batch]

Advance ==
  /\ work' = Tail(work)
  /\ op' = IF Tail(work) = <<>> THEN NoOp ELSE op

\* give: release one delivery, and with requeue put the message back at the
\* head of the queue it came from.
GiveBack(h, requeue) ==
  /\ held' = held \ {h}
  /\ outstanding' = [outstanding EXCEPT ![h.conn][h.channel] = @ - 1]
  /\ unacked' = [unacked EXCEPT ![h.queue] = @ - 1]
  /\ ready' = [ready EXCEPT ![h.queue] =
                 IF requeue THEN <<[msg |-> h.msg, redelivered |-> TRUE]>> \o @
                 ELSE @]

\* hold, with the removal of the message from the head of its queue.
HandOut(c, q, ch, noAck) ==
  /\ nextTag' = [nextTag EXCEPT ![c] = @ + 1]
  /\ ready' = [ready EXCEPT ![q] = Tail(@)]
  /\ IF noAck
     THEN UNCHANGED <<held, outstanding, unacked>>
     ELSE /\ held' = held \cup
                       {[conn |-> c, tag |-> nextTag[c] + 1, queue |-> q,
                         msg |-> Head(ready[q]).msg, channel |-> ch]}
          /\ outstanding' = [outstanding EXCEPT ![c][ch] = @ + 1]
          /\ unacked' = [unacked EXCEPT ![q] = @ + 1]

\* dropConsumer: the first consumer of the queue that carries the tag goes,
\* whichever connection it belongs to.
DropConsumer(q, tag) ==
  LET carrying == {i \in DOMAIN consumers[q] : consumers[q][i].tag = tag}
      first == CHOOSE i \in carrying : \A j \in carrying : i <= j
  IN IF carrying = {} THEN UNCHANGED <<consumers, turn>>
     ELSE /\ consumers' = [consumers EXCEPT ![q] =
                             SubSeq(@, 1, first - 1)
                               \o SubSeq(@, first + 1, Len(@))]
          /\ turn' = [turn EXCEPT ![q] = 0]

Dispatch(q) == [do |-> "dispatch", queue |-> q]

----------------------------------------------------------------------------
(* Mutants of whole operations, again one slip each. *)

CloseLeavesConsumers(c) ==
  /\ Free /\ Open(c)
  /\ status' = [status EXCEPT ![c] = "closed"]
  /\ \E gives \in Orderings(HeldBy(c)) :
       Enter(c, TRUE, HeldBy(c),
             [i \in DOMAIN gives |-> [do |-> "give", tag |-> gives[i].tag]])
  /\ UNCHANGED <<queueVars, exchanges, published, nextTag, held, outstanding,
                 prefetch, subscribed, ctags>>

SettleOffersNothing(c, tag, ch, multiple, requeue) ==
  LET chosen == Selected(c, tag, ch, multiple)
  IN /\ Free /\ Open(c) /\ chosen # {}
     /\ requeue => \A d \in Conn : nextTag[d] < MaxTag
     /\ \E order \in Orderings(chosen) :
          Enter(c, requeue, chosen,
                [i \in DOMAIN order |-> [do |-> "give", tag |-> order[i].tag]])
     /\ UNCHANGED <<queueVars, exchanges, published, connVars>>

PublishPerBinding(c, e, key) ==
  /\ Free /\ Open(c) /\ published < MaxMessages /\ exchanges[e] # NoExchange
  /\ published' = published + 1
  /\ \E order \in Orderings(UNION {BindingsTo(e, key, q) : q \in Object}) :
       Enter(c, FALSE, {}, [i \in DOMAIN order |->
               [do |-> "append", queue |-> order[i].target, msg |-> published + 1]])
  /\ UNCHANGED <<queueVars, exchanges, connVars>>

DeleteLeavesSubscriptions(c, name) ==
  /\ Free /\ Open(c) /\ named[name] # NoQueue
  /\ named' = [named EXCEPT ![name] = NoQueue]
  /\ ready' = [ready EXCEPT ![named[name]] = <<>>]
  /\ consumers' = [consumers EXCEPT ![named[name]] = <<>>]
  /\ UNCHANGED <<unacked, turn, created, generated, exchanges, published, connVars,
                 work, op>>

DispatchSpins ==
  /\ work # <<>> /\ Head(work).do = "dispatch" /\ ready[Head(work).queue] = <<>>
  /\ Advance
  /\ UNCHANGED <<queueVars, exchanges, published, connVars>>

----------------------------------------------------------------------------
(* Connections come and go *)

OpenConn(c) ==
  /\ Free /\ status[c] = "new"
  /\ status' = [status EXCEPT ![c] = "open"]
  /\ UNCHANGED <<queueVars, exchanges, published, nextTag, held, outstanding,
                 prefetch, subscribed, ctags, work, op>>

\* Close: the consumers go, everything held goes back, every queue is offered
\* to whoever is left.  Each of the three loops ranges over a map.
CloseConn(c) ==
  /\ Free /\ Open(c)
  /\ status' = [status EXCEPT ![c] = "closed"]
  /\ subscribed' = subscribed \ ConsumersOf(c)
  /\ \E drops \in Orderings(ConsumersOf(c)), gives \in Orderings(HeldBy(c)),
        offers \in Orderings({named[n] : n \in QueueName} \ {NoQueue}) :
       Enter(c, TRUE, HeldBy(c),
             [i \in DOMAIN drops |-> [do |-> "drop", queue |-> drops[i].queue,
                                      tag |-> drops[i].tag]]
               \o [i \in DOMAIN gives |-> [do |-> "give", tag |-> gives[i].tag]]
               \o [i \in DOMAIN offers |-> Dispatch(offers[i])])
  /\ UNCHANGED <<queueVars, exchanges, published, nextTag, held, outstanding,
                 prefetch, ctags>>

----------------------------------------------------------------------------
(* The operations of a connection.  One that is refused changes nothing,   *)
(* so its early return is a guard here.                                    *)

DeclareExchange(c, e, kind) ==
  /\ Free /\ Open(c) /\ exchanges[e] = NoExchange
  /\ exchanges' = [exchanges EXCEPT ![e] = [kind |-> kind, bindings |-> {}]]
  /\ UNCHANGED <<queueVars, published, connVars, work, op>>

\* declare, not passive: a name the server makes up is counted even when a
\* queue already has it.
Declare(c, name) ==
  /\ Free /\ Open(c)
  /\ LET called == IF name = Unnamed THEN generated + 1 ELSE name
     IN /\ name = Unnamed => generated < MaxQueues
        /\ generated' = IF name = Unnamed THEN generated + 1 ELSE generated
        /\ IF named[called] = NoQueue
           THEN /\ created < MaxQueues
                /\ created' = created + 1
                /\ named' = [named EXCEPT ![called] = created + 1]
           ELSE UNCHANGED <<created, named>>
  /\ UNCHANGED <<ready, unacked, consumers, turn, exchanges, published,
                 connVars, work, op>>

Bind(c, name, e, key) ==
  /\ Free /\ Open(c) /\ named[name] # NoQueue /\ exchanges[e] # NoExchange
  /\ \E place \in 1 .. MaxBindings :
       /\ \A b \in exchanges[e].bindings : b.place < place
       /\ place = 1 \/ \E b \in exchanges[e].bindings : b.place = place - 1
       /\ exchanges' = [exchanges EXCEPT ![e].bindings =
            @ \cup {[target |-> named[name], key |-> key, place |-> place]}]
  /\ UNCHANGED <<queueVars, published, connVars, work, op>>

\* publish: into every queue the exchange routes to, one after the other, and
\* out of it again as far as its consumers have room.
PublishTo(c, order) ==
  /\ published' = published + 1
  /\ Enter(c, FALSE, {},
           [i \in 1 .. 2 * Len(order) |->
              IF i % 2 = 1
              THEN [do |-> "append", queue |-> order[(i + 1) \div 2],
                    msg |-> published + 1]
              ELSE Dispatch(order[i \div 2])])
  /\ UNCHANGED <<queueVars, exchanges, connVars>>

\* On the default exchange a message goes to the queue its key names.
PublishDefault(c, name) ==
  /\ Free /\ Open(c) /\ published < MaxMessages
  /\ PublishTo(c, IF named[name] = NoQueue THEN <<>> ELSE <<named[name]>>)

Publish(c, e, key) ==
  /\ Free /\ Open(c) /\ published < MaxMessages /\ exchanges[e] # NoExchange
  /\ \E order \in Orderings(Destinations(e, key)) :
       InBindingOrder(e, key, order) /\ PublishTo(c, order)

\* get: one message now; it counts against the channel but is not limited
\* by its prefetch.
Get(c, name, ch, noAck) ==
  /\ Free /\ Open(c) /\ named[name] # NoQueue /\ ready[named[name]] # <<>>
  /\ HandOut(c, named[name], ch, noAck)
  /\ UNCHANGED <<named, consumers, turn, created, generated, exchanges,
                 published, status, prefetch, subscribed, ctags, work, op>>

\* consume: a made-up tag is spent even when it turns out to be taken.
Consume(c, name, requested, ch, noAck) ==
  /\ Free /\ Open(c) /\ named[name] # NoQueue
  /\ requested = Unnamed => ctags[c] < MaxGenerated
  /\ LET tag == IF requested = Unnamed THEN ctags[c] + 1 ELSE requested
         taking == [tag |-> tag, queue |-> named[name], owner |-> c,
                    channel |-> ch, noAck |-> noAck]
     IN /\ ctags' = IF requested = Unnamed THEN [ctags EXCEPT ![c] = @ + 1] ELSE ctags
        /\ IF \E s \in ConsumersOf(c) : s.tag = tag
           THEN UNCHANGED <<subscribed, consumers, work, op>>
           ELSE /\ subscribed' = subscribed \cup {taking}
                /\ consumers' = [consumers EXCEPT ![named[name]] = Append(@, taking)]
                /\ Enter(c, FALSE, {}, <<Dispatch(named[name])>>)
  /\ UNCHANGED <<named, ready, unacked, turn, created, generated, exchanges,
                 published, status, nextTag, held, outstanding, prefetch>>

Cancel(c, taking) ==
  /\ Free /\ Open(c)
  /\ subscribed' = subscribed \ {taking}
  /\ DropConsumer(taking.queue, taking.tag)
  /\ UNCHANGED <<named, ready, unacked, created, generated, exchanges, published,
                 status, nextTag, held, outstanding, prefetch, ctags, work, op>>

Qos(c, ch, limit) ==
  /\ Free /\ Open(c)
  /\ prefetch' = [prefetch EXCEPT ![c][ch] = limit]
  /\ \E offers \in Orderings({s.queue : s \in ConsumersOf(c)}) :
       Enter(c, FALSE, {}, [i \in DOMAIN offers |-> Dispatch(offers[i])])
  /\ UNCHANGED <<queueVars, exchanges, published, status, nextTag, held,
                 outstanding, subscribed, ctags>>

\* settle (Basic.Ack, Basic.Nack and Basic.Reject): each delivery is released
\* and its queue offered again before the next one is.
Settle(c, tag, ch, multiple, requeue) ==
  LET chosen == Selected(c, tag, ch, multiple)
  IN /\ Free /\ Open(c) /\ chosen # {}
     /\ requeue => \A d \in Conn : nextTag[d] < MaxTag
     /\ \E order \in Orderings(chosen) :
          /\ \A i, j \in DOMAIN order : i < j => order[i].tag > order[j].tag
          /\ Enter(c, requeue, chosen,
                   [i \in 1 .. 2 * Len(order) |->
                      IF i % 2 = 1
                      THEN [do |-> "give", tag |-> order[(i + 1) \div 2].tag]
                      ELSE Dispatch(order[i \div 2].queue)])
     /\ UNCHANGED <<queueVars, exchanges, published, connVars>>

Purge(c, name) ==
  /\ Free /\ Open(c) /\ named[name] # NoQueue
  /\ ready' = [ready EXCEPT ![named[name]] = <<>>]
  /\ UNCHANGED <<named, unacked, consumers, turn, created, generated, exchanges,
                 published, connVars, work, op>>

\* remove: the queue's bindings and consumers go with it; what is out stays
\* out, and comes back to an object no name leads to.
Delete(c, name) ==
  /\ Free /\ Open(c) /\ named[name] # NoQueue
  /\ LET target == named[name]
     IN /\ named' = [named EXCEPT ![name] = NoQueue]
        /\ exchanges' = [e \in Exchange |->
             [exchanges[e] EXCEPT !.bindings = {b \in @ : b.target # target}]]
        /\ subscribed' = {s \in subscribed :
             ~ \E i \in DOMAIN consumers[target] :
                 /\ consumers[target][i].owner = s.owner
                 /\ consumers[target][i].tag = s.tag}
        /\ ready' = [ready EXCEPT ![target] = <<>>]
        /\ consumers' = [consumers EXCEPT ![target] = <<>>]
  /\ UNCHANGED <<unacked, turn, created, generated, published, status, nextTag,
                 held, outstanding, prefetch, ctags, work, op>>

----------------------------------------------------------------------------
(* The loop of the operation that has the mutex *)

Doing(what) == work # <<>> /\ Head(work).do = what

AppendStep ==
  /\ Doing("append")
  /\ ready' = [ready EXCEPT ![Head(work).queue] =
                 Append(@, [msg |-> Head(work).msg, redelivered |-> FALSE])]
  /\ Advance
  /\ UNCHANGED <<named, unacked, consumers, turn, created, generated, exchanges,
                 published, connVars>>

DropStep ==
  /\ Doing("drop")
  /\ DropConsumer(Head(work).queue, Head(work).tag)
  /\ Advance
  /\ UNCHANGED <<named, ready, unacked, created, generated, exchanges, published,
                 connVars>>

GiveStep ==
  /\ Doing("give")
  /\ GiveBack(HeldAs(op.conn, Head(work).tag), op.requeue)
  /\ Advance
  /\ UNCHANGED <<named, consumers, turn, created, generated, exchanges, published,
                 status, nextTag, prefetch, subscribed, ctags>>

\* One iteration of dispatch: next() finds a consumer with room and push
\* hands it the message at the head of the queue.
PushStep ==
  /\ Doing("dispatch")
  /\ LET q == Head(work).queue
         k == CHOOSE i \in Willing(q) : \A j \in Willing(q) : i <= j
         taking == consumers[q][((turn[q] + k) % Len(consumers[q])) + 1]
     IN /\ ready[q] # <<>> /\ Willing(q) # {}
        /\ turn' = [turn EXCEPT ![q] = (@ + k + 1) % Len(consumers[q])]
        /\ HandOut(taking.owner, q, taking.channel, taking.noAck)
  /\ UNCHANGED <<named, consumers, created, generated, exchanges, published,
                 status, prefetch, subscribed, ctags, work, op>>

\* dispatch is over when the queue is empty or nobody has room; in the latter
\* case next() has gone round once and is back where it started.
DispatchDone ==
  /\ Doing("dispatch")
  /\ ready[Head(work).queue] = <<>> \/ Willing(Head(work).queue) = {}
  /\ Advance
  /\ UNCHANGED <<queueVars, exchanges, published, connVars>>

----------------------------------------------------------------------------
Init ==
  /\ named = [n \in QueueName |-> NoQueue]
  /\ ready = [q \in Object |-> <<>>]
  /\ unacked = [q \in Object |-> 0]
  /\ consumers = [q \in Object |-> <<>>]
  /\ turn = [q \in Object |-> 0]
  /\ created = 0 /\ generated = 0 /\ published = 0
  /\ exchanges = [e \in Exchange |-> NoExchange]
  /\ status = [c \in Conn |-> "new"]
  /\ nextTag = [c \in Conn |-> 0]
  /\ held = {}
  /\ outstanding = [c \in Conn |-> [ch \in Channel |-> 0]]
  /\ prefetch = [c \in Conn |-> [ch \in Channel |-> 0]]
  /\ subscribed = {}
  /\ ctags = [c \in Conn |-> 0]
  /\ work = <<>> /\ op = NoOp

Operation(c) ==
  \/ OpenConn(c) \/ CloseConn(c)
  \/ \E e \in Exchange, kind \in Kinds : DeclareExchange(c, e, kind)
  \/ \E name \in Name \cup {Unnamed} : Declare(c, name)
  \/ \E name \in QueueName, e \in Exchange, key \in Key : Bind(c, name, e, key)
  \/ \E name \in QueueName : PublishDefault(c, name)
  \/ \E e \in Exchange, key \in Key : Publish(c, e, key)
  \/ \E name \in QueueName, ch \in Channel, noAck \in BOOLEAN : Get(c, name, ch, noAck)
  \/ \E name \in QueueName, requested \in TagsOf[c], ch \in Channel, noAck \in BOOLEAN :
       Consume(c, name, requested, ch, noAck)
  \/ \E taking \in ConsumersOf(c) : Cancel(c, taking)
  \/ \E ch \in Channel, limit \in Prefetch : Qos(c, ch, limit)
  \/ \E tag \in 0 .. nextTag[c], ch \in Channel, multiple, requeue \in BOOLEAN :
       Settle(c, tag, ch, multiple, requeue)
  \/ \E name \in QueueName : Purge(c, name) \/ Delete(c, name)

LoopStep == AppendStep \/ DropStep \/ GiveStep \/ PushStep \/ DispatchDone

Next == LoopStep \/ \E c \in Conn : Operation(c)

Spec == Init /\ [][Next]_vars

\* The goroutine that has the mutex is scheduled until it gives it back.
FairSpec == Spec /\ WF_vars(LoopStep)

----------------------------------------------------------------------------
(* What the broker promises *)

\* Every variable has its type; tags issued are positive, counters natural.
TypeOK ==
  /\ named \in [QueueName -> Object \cup {NoQueue}]
  /\ ready \in [Object -> Seq(Pending)]
  /\ unacked \in [Object -> Nat]
  /\ consumers \in [Object -> Seq(Consumer)]
  /\ turn \in [Object -> Nat]
  /\ created \in 0 .. MaxQueues /\ generated \in 0 .. MaxQueues
  /\ published \in 0 .. MaxMessages
  /\ exchanges \in [Exchange -> [kind : Kinds \cup {"none"}, bindings : SUBSET Binding]]
  /\ status \in [Conn -> {"new", "open", "closed"}]
  /\ nextTag \in [Conn -> Nat]
  /\ held \subseteq Held /\ IsFiniteSet(held)
  /\ outstanding \in [Conn -> [Channel -> Nat]]
  /\ prefetch \in [Conn -> [Channel -> Nat]]
  /\ subscribed \subseteq Consumer /\ IsFiniteSet(subscribed)
  /\ ctags \in [Conn -> 0 .. MaxGenerated]
  /\ work \in Seq(Step)
  /\ ~Free => op \in [conn : Conn, requeue : BOOLEAN, batch : SUBSET Held]

HeldOn(c, ch) == {h \in held : h.conn = c /\ h.channel = ch}
HeldFrom(q) == {h \in held : h.queue = q}

\* The two counters the code keeps beside the map of held deliveries agree
\* with it: unacked is what the gauges and the depth rules read, outstanding
\* is what prefetch is compared with.  hold and give update all three.
Accounting ==
  /\ \A q \in Object : unacked[q] = Cardinality(HeldFrom(q))
  /\ \A c \in Conn, ch \in Channel : outstanding[c][ch] = Cardinality(HeldOn(c, ch))

Waiting(q, m) == {i \in DOMAIN ready[q] : ready[q][i].msg = m}
Out(q, m) == {h \in held : h.queue = q /\ h.msg = m}
Present(q, m) == Waiting(q, m) # {} \/ Out(q, m) # {}

\* A queue has at most one copy of a message, waiting or out with one
\* connection: no worker pool receives a message twice (queues.go:5-8).
AtMostOneCopy ==
  \A q \in Object, m \in 1 .. MaxMessages :
    /\ \A i, j \in Waiting(q, m) : i = j
    /\ \A g, h \in Out(q, m) : g = h
    /\ Waiting(q, m) = {} \/ Out(q, m) = {}

\* A waiting message that never went out is behind all that did, and those
\* that never went out wait in the order they were published: requeue puts a
\* message at the head (queues.go:223-228), publish at the tail.
FreshInOrder ==
  \A q \in Object : \A i, j \in DOMAIN ready[q] : i < j =>
    \/ ready[q][i].redelivered
    \/ ~ready[q][j].redelivered /\ ready[q][i].msg < ready[q][j].msg

(* What these rest on: the parts of the inductive invariant. *)

\* Tags are issued once, and a tag that is out was issued.
TagsIssued ==
  /\ \A h \in held : h.tag <= nextTag[h.conn]
  /\ \A g, h \in held : g.conn = h.conn /\ g.tag = h.tag => g = h

Gives == {i \in DOMAIN work : work[i].do = "give"}
Appends == {i \in DOMAIN work : work[i].do = "append"}

\* What the running loop is still to give back is out, each delivery once.
GivesAreHeld ==
  /\ \A i \in Gives : \E h \in held : h.conn = op.conn /\ h.tag = work[i].tag
  /\ \A i, j \in Gives : work[i].tag = work[j].tag => i = j

\* The steps that may end a copy: an acknowledgement or a refusal without
\* requeue, a delivery nobody has to acknowledge, a purge, a deletion.
EndsCopy(q, m) ==
  \/ /\ Doing("give") /\ ~op.requeue
     /\ HeldAs(op.conn, Head(work).tag).msg = m
  \/ /\ Doing("dispatch") /\ Head(ready[q]).msg = m
     /\ consumers[q][IF turn'[q] = 0 THEN Len(consumers[q]) ELSE turn'[q]].noAck
  \/ \E c \in Conn, n \in QueueName :
       /\ named[n] = q
       /\ \/ Purge(c, n) \/ Delete(c, n)
          \/ \E ch \in Channel : Get(c, n, ch, TRUE) /\ Head(ready[q]).msg = m

\* No other step loses a message: not a requeue, not a connection that goes
\* away with deliveries out ("must not take the job with it", exec.go:93-95).
NoLoss ==
  [][\A q \in Object, m \in 1 .. MaxMessages :
       Present(q, m) /\ ~Present(q, m)' => EndsCopy(q, m)]_vars

\* A connection that is gone holds no delivery and takes no more turns: "its
\* unsettled deliveries go to the head of their queues and its consumers stop
\* being offered new ones" (exec.go:94-95).
DeadHoldNothing ==
  Free => \A c \in Conn : status[c] = "closed" =>
    /\ HeldBy(c) = {}
    /\ \A q \in Object : \A i \in DOMAIN consumers[q] : consumers[q][i].owner # c

\* The queue's list of consumers and the connections' maps of them tell the
\* same story between operations, each consumer once.
ConsumersAgree ==
  Free => /\ \A q \in Object : \A i, j \in DOMAIN consumers[q] :
               /\ consumers[q][i] \in subscribed
               /\ consumers[q][i].queue = q
               /\ consumers[q][i] = consumers[q][j] => i = j
          /\ \A s \in subscribed : \E i \in DOMAIN consumers[s.queue] :
               consumers[s.queue][i] = s

\* dispatch "hands messages to consumers until the queue runs out or every
\* consumer is holding as much as its channel's prefetch allows"
\* (queues.go:196-197): between operations no message waits for a consumer
\* that has room.
NoStall == Free => \A q \in Object : ready[q] # <<>> => Willing(q) = {}

\* Binding patterns and routing keys of one to three words; strings.Split
\* never yields an empty slice.
Texts == UNION {[1 .. n -> {"a", "b", OneWord, AnyWords}] : n \in 1 .. 3}

TopicIsCut ==
  \A pattern, key \in Texts : Reaches("topic", pattern, key) <=> CutsTo(pattern, key)

\* An exchange that was declared as a topic reaches, through a binding of up
\* to three words, exactly the keys that a definition without recursion says:
\* wordsMatch's two ways of reading "#" find every cut and no other
\* (routing.go:128-150).
MatchIsCut ==
  \A e \in Exchange :
    exchanges[e] # NoExchange /\ exchanges[e].kind = "topic" => TopicIsCut

\* m is behind n on its way out of q.
Behind(q, m, n) ==
  \/ \E i \in Waiting(q, m), j \in Waiting(q, n) : i > j
  \/ Waiting(q, m) # {} /\ Out(q, n) # {}
  \/ \E g \in Out(q, m), h \in Out(q, n) : g.conn = h.conn /\ g.tag > h.tag

BatchBehindItself ==
  \E g, h \in op.batch : g.queue = h.queue /\ g.tag < h.tag /\ Behind(g.queue, g.msg, h.msg)'

\* "Sorted so that requeueing a batch puts it back in the order it went out"
\* (exec.go:288): a nack of several deliveries does not turn them round.
SettleKeepsOrder ==
  [][work' = <<>> /\ op # NoOp /\ op.requeue /\ Open(op.conn) => ~BatchBehindItself]_vars

\* A requeue "must not have reordered the queue for the worker that can"
\* (queues.go:223-225): nor does the end of a connection.
CloseKeepsOrder ==
  [][work' = <<>> /\ op # NoOp /\ op.requeue /\ ~Open(op.conn) => ~BatchBehindItself]_vars

\* An operation gives the mutex back: the dispatch loops end although every
\* settle makes room for the next delivery.
MutexReleased == ~Free ~> Free

============================================================================
