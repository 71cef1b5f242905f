---------------------------- MODULE AmqpSession ----------------------------
(***************************************************************************)
(* One AMQP connection (internal/amqp): the session that decodes a         *)
(* client's frames into operations, the serve loop that runs them, the     *)
(* outbox other connections' publishes land in, and the client at the far  *)
(* end of two streams of frames.                                           *)
(*                                                                         *)
(* The client keeps the rules of the protocol (it uses a channel only      *)
(* between Open-Ok and Close, it answers a Channel.Close, a message's      *)
(* frames follow each other on their channel) or breaks one once and for   *)
(* all (ReceiveBroken).  It cannot know what is already on its way to it,  *)
(* and that is where the session is put to the test.                       *)
(*                                                                         *)
(* There is one queue: whether an operation names it is all a rule can     *)
(* see of its target.  A delivery or a returned message is one frame here, *)
(* content included.                                                       *)
(***************************************************************************)
EXTENDS Naturals, Sequences, FiniteSets

CONSTANTS
  Channel,    \* channel numbers the client uses
  Uses,       \* channel number -> the methods the client sends on it
  Tag,        \* consumer tags the client chooses
  NoTag,
  MaxFrames,  \* bound: methods the client sends, Channel.Open aside
  MaxTag,     \* bound: delivery tags the broker issues
  InFlight,   \* bound: frames on their way to the session
  Unread      \* bound: frames the client has not read when a write blocks

ASSUME AmqpAssumption ==
  /\ IsFiniteSet(Channel) /\ Channel \subseteq Nat \ {0}
  /\ NoTag \notin Tag /\ Uses \in [Channel -> SUBSET STRING]
  /\ {MaxFrames, MaxTag, InFlight, Unread} \subseteq Nat

VARIABLES
  phase,      \* where the serve loop is
  channels,   \* channel number -> what the session keeps of it, or Gone
  staged,     \* operations decoded and not yet returned by Next
  active,     \* the operation Next returned last, until it is answered
  pending,    \* the Basic.Publish whose content is still arriving
  fromQueue,  \* delivery tags whose queue the session remembers
  waiting,    \* the outbox: deliveries pushed and not yet taken
  taken,      \* deliveries the session has taken and not yet written
  woken,      \* its wake-up signal, at most one
  pushing,    \* a Deliver has appended and not yet signalled
  subscribed, \* the broker's consumers of this connection
  held,       \* the deliveries the broker holds as unsettled
  lastTag,    \* the last delivery tag it issued
  toServer,   \* frames from the client
  toClient,   \* frames to the client
  view,       \* channel number -> what the client believes of it
  history     \* what happened, for the bounds and the properties

sessionVars == <<channels, staged, active, pending, fromQueue>>
outboxVars == <<waiting, taken, woken, pushing>>
brokerVars == <<subscribed, held, lastTag>>
vars == <<phase, sessionVars, outboxVars, brokerVars, toServer, toClient, view, history>>

Gone == [live |-> FALSE, closing |-> FALSE, confirms |-> FALSE, published |-> 0,
         consumers |-> {}]
Closed == [state |-> "closed", confirms |-> FALSE, count |-> 0, owes |-> 0,
           holds |-> {}]
NoPublish == [ch |-> 0, mandatory |-> FALSE, ord |-> 0, size |-> 0, got |-> 0]

\* Frames and the operations made of them.  ord is the publish's number as its
\* client counts them, size the bodies its header announces, named whether
\* the operation names its queue.
Blank == [op |-> "none", ch |-> 0, noWait |-> TRUE, tag |-> NoTag, dtag |-> 0,
          noAck |-> FALSE, multiple |-> FALSE, mandatory |-> FALSE, ord |-> 0,
          size |-> 0, named |-> FALSE, broken |-> FALSE]
Frame(kind, ch) == [Blank EXCEPT !.op = kind, !.ch = ch]
Task(frame, named) == [frame EXCEPT !.named = named]

Live(ch) == channels[ch].live
Usable(ch) == Live(ch) /\ ~channels[ch].closing
\* A write blocks while the client does not read.
Writable == Len(toClient) < Unread
Send(frames) == toClient' = toClient \o frames

----------------------------------------------------------------------------
(* Mutants of the helpers below, one slip of the code each. *)

NumberFromZero(ch) == channels[ch].published
CancelNothing(ch) == <<>>

\* A channel of signals with no room for one.
SignalUnbuffered ==
  /\ pushing /\ pushing' = FALSE /\ woken' = (woken \/ phase = "select")
  /\ UNCHANGED <<waiting, taken>>

DeliverableAnyway(ch) == TRUE

----------------------------------------------------------------------------
(* Pieces of the session *)

\* remember: a delivery nobody has to settle is not remembered.
Remember(d) == IF d.noAck THEN fromQueue ELSE fromQueue \cup {d.dtag}

\* forget, for the tags an acknowledgement names, whatever their channel.
Forget(dtag, multiple) ==
  IF multiple THEN {t \in fromQueue : dtag # 0 /\ t > dtag} ELSE fromQueue \ {dtag}

\* cancelConsumers: a cancellation for each consumer of the channel.
InOrder(S) == CHOOSE s \in [1 .. Cardinality(S) -> S] :
                \A i, j \in DOMAIN s : s[i] = s[j] => i = j
Cancels(ch) ==
  LET tags == InOrder(channels[ch].consumers)
  IN [i \in DOMAIN tags |-> [Frame("cancel", ch) EXCEPT !.tag = tags[i], !.named = TRUE]]

\* confirm: the number of the publish on its channel, counted from one.
NextConfirm(ch) == channels[ch].published + 1

\* What is kept of a channel that is closing by the server's wish.
Closing(ch) == [channels[ch] EXCEPT !.closing = TRUE, !.consumers = {}]

\* The end of a connection: the session closes, then the executor, which
\* takes the consumers and the deliveries with it.
Over(why) ==
  /\ phase' = "over" /\ history' = [history EXCEPT !.ended = why]
  /\ subscribed' = {} /\ held' = {}
  /\ UNCHANGED <<sessionVars, outboxVars, lastTag, view>>

\* fatal: a Connection.Close with the reason, and the loop ends.
Fatal(f, why) ==
  /\ Over(IF f.broken THEN "broken frame" ELSE why)
  /\ Send(<<Frame("connectionClose", 0)>>)

\* A frame that is dealt with sends the loop round.
Round == phase' = "loop" /\ UNCHANGED <<active, outboxVars, brokerVars, view>>

\* stage, for an operation decoded in full.
Stage(task) ==
  /\ Round /\ staged' = Append(staged, task)
  /\ UNCHANGED <<channels, toClient>>

----------------------------------------------------------------------------
(* Next: the operations already decoded first, then what the outbox holds,  *)
(* then whichever comes first of a frame, a wake-up and a heartbeat.        *)

\* The handshake: anything but the frame it waits for ends it.
Accept ==
  /\ phase = "accepting"
  /\ \/ phase' = "new" /\ UNCHANGED history
     \/ phase' = "over" /\ history' = [history EXCEPT !.ended = "handshake"]
  /\ UNCHANGED <<sessionVars, outboxVars, brokerVars, toServer, toClient, view>>

Greet ==
  /\ phase = "new" /\ phase' = "serving"
  /\ active' = [Frame("connect", 0) EXCEPT !.noWait = FALSE]
  /\ UNCHANGED <<channels, staged, pending, fromQueue, outboxVars, brokerVars,
                 toServer, toClient, view, history>>

TakeStaged ==
  /\ phase = "loop" /\ staged # <<>> /\ phase' = "serving"
  /\ active' = Head(staged) /\ staged' = Tail(staged)
  /\ UNCHANGED <<channels, pending, fromQueue, outboxVars, brokerVars, toServer,
                 toClient, view, history>>

\* sendDelivery skips a channel that is gone or closing.
Deliverable(ch) == Usable(ch)

\* deliver: all that waits is taken, and written one by one.  More may be
\* pushed while the writes take their time.
Take ==
  /\ phase = "loop" /\ staged = <<>>
  /\ phase' = IF waiting = <<>> THEN "select" ELSE "writing"
  /\ taken' = waiting /\ waiting' = <<>>
  /\ UNCHANGED <<sessionVars, woken, pushing, brokerVars, toServer, toClient, view, history>>

SendDelivery ==
  /\ phase = "writing" /\ taken # <<>> /\ Writable
  /\ taken' = Tail(taken) /\ phase' = IF taken' = <<>> THEN "select" ELSE "writing"
  /\ LET d == Head(taken)
     IN IF Deliverable(d.ch)
        THEN Send(<<d>>) /\ fromQueue' = Remember(d)
        ELSE UNCHANGED <<toClient, fromQueue>>
  /\ UNCHANGED <<channels, staged, active, pending, waiting, woken, pushing,
                 brokerVars, toServer, view, history>>

Wake ==
  /\ phase = "select" /\ woken
  /\ woken' = FALSE /\ phase' = "loop"
  /\ UNCHANGED <<sessionVars, waiting, taken, pushing, brokerVars, toServer, toClient,
                 view, history>>

\* A heartbeat that is due changes nothing but sends the loop round.
Beat ==
  /\ phase = "select" /\ phase' = "loop"
  /\ UNCHANGED <<sessionVars, outboxVars, brokerVars, toServer, toClient, view, history>>

\* The reader goroutine found the end of the stream.
EndOfStream ==
  /\ phase = "select" /\ toServer = <<>>
  /\ Over("left") /\ UNCHANGED <<toServer, toClient>>

----------------------------------------------------------------------------
(* Mutants of closeChannel *)

CloseForgetsToSay(f) ==
  /\ Usable(f.ch)
  /\ Round /\ staged' = staged \o Cancels(f.ch)
  /\ channels' = [channels EXCEPT ![f.ch] = Gone]
  /\ UNCHANGED <<pending, fromQueue, toClient, history>>

----------------------------------------------------------------------------
(* receive and method: one frame of the client, with staged empty.          *)

OpenChannel(f) ==
  IF Live(f.ch) THEN Fatal(f, "channel already open")
  ELSE /\ Round /\ Send(<<Frame("openOk", f.ch)>>)
       /\ channels' = [channels EXCEPT ![f.ch] = [Gone EXCEPT !.live = TRUE]]
       /\ UNCHANGED <<staged, pending, fromQueue, history>>

CloseOk(f) ==
  /\ Live(f.ch)
  /\ Round /\ channels' = [channels EXCEPT ![f.ch] = Gone]
  /\ UNCHANGED <<staged, pending, fromQueue, toClient, history>>

\* Everything that reaches a channel the session is closing is discarded.
Discard(f) ==
  /\ Live(f.ch) /\ channels[f.ch].closing
  /\ Round
  /\ history' = [history EXCEPT !.discarded =
                   IF f.op = "publish" THEN @ \cup {f.ch} ELSE @]
  /\ UNCHANGED <<channels, staged, pending, fromQueue, toClient>>

\* closeChannel: the client is answered at once, its consumers go after.
CloseChannel(f) ==
  /\ Usable(f.ch)
  /\ Round /\ Send(<<Frame("closeOk", f.ch)>>)
  /\ staged' = staged \o Cancels(f.ch)
  /\ channels' = [channels EXCEPT ![f.ch] = Gone]
  /\ UNCHANGED <<pending, fromQueue, history>>

\* unsupported: the channel is closed on the client; its consumers stay.
Unsupported(f) ==
  /\ Usable(f.ch)
  /\ Round /\ Send(<<Frame("close", f.ch)>>)
  /\ channels' = [channels EXCEPT ![f.ch].closing = TRUE]
  /\ history' = [history EXCEPT !.leaked = @ \cup channels[f.ch].consumers]
  /\ UNCHANGED <<staged, pending, fromQueue>>

\* The methods that only name a queue or an exchange, and Basic.Qos; a cancel
\* names the queue its consumer is on, if the channel has such a consumer.
Decode(f) ==
  /\ Usable(f.ch)
  /\ Stage(Task(f, f.op = "cancel" => f.tag \in channels[f.ch].consumers))
  /\ UNCHANGED <<pending, fromQueue, history>>

\* Basic.Ack, Basic.Nack and Basic.Reject.
SettleDecode(f) ==
  /\ Usable(f.ch)
  /\ Stage(Task(f, f.dtag \in fromQueue))
  /\ fromQueue' = Forget(f.dtag, f.multiple)
  /\ history' = [history EXCEPT !.blurred = @ \cup
        {t \in fromQueue \ fromQueue' :
           \E h \in held : h.dtag = t /\ h.ch # f.ch}]
  /\ UNCHANGED pending

SelectConfirms(f) ==
  /\ Usable(f.ch)
  /\ Round /\ channels' = [channels EXCEPT ![f.ch].confirms = TRUE]
  /\ Send(IF f.noWait THEN <<>> ELSE <<Frame("selectOk", f.ch)>>)
  /\ UNCHANGED <<staged, pending, fromQueue, history>>

PublishMethod(f) ==
  /\ Usable(f.ch)
  /\ IF pending # NoPublish THEN Fatal(f, "second publish")
     ELSE /\ pending' = [NoPublish EXCEPT !.ch = f.ch, !.mandatory = f.mandatory,
                                           !.ord = f.ord]
          /\ Round /\ UNCHANGED <<channels, staged, fromQueue, toClient, history>>

\* publishComplete
Complete(p) ==
  /\ IF p.got < p.size
     THEN pending' = p /\ Round /\ UNCHANGED <<channels, staged, toClient>>
     ELSE /\ pending' = NoPublish
          /\ Stage([Frame("publish", p.ch) EXCEPT !.ord = p.ord, !.named = TRUE,
                                                  !.mandatory = p.mandatory])
  /\ UNCHANGED <<fromQueue, history>>

ContentHeader(f) ==
  IF pending.ch # f.ch THEN Fatal(f, "stray content")
  ELSE Complete([pending EXCEPT !.size = f.size])

ContentBody(f) ==
  IF pending.ch # f.ch THEN Fatal(f, "stray content")
  ELSE IF pending.got + 1 > pending.size THEN Fatal(f, "body too long")
  ELSE Complete([pending EXCEPT !.got = @ + 1])

Dispatch(f) ==
  LET first == {"garbled", "bye", "header", "body", "open"}
  IN \/ f.op = "garbled" /\ Fatal(f, "unknown frame")
     \/ f.op = "bye" /\ Over("bye") /\ Send(<<Frame("connectionCloseOk", 0)>>)
     \/ f.op = "header" /\ ContentHeader(f)
     \/ f.op = "body" /\ ContentBody(f)
     \/ f.op = "open" /\ OpenChannel(f)
     \/ f.op \notin first /\ ~Live(f.ch) /\ Fatal(f, "channel never opened")
     \/ f.op = "closeOk" /\ CloseOk(f)
     \/ f.op \notin first \cup {"closeOk"} /\ Discard(f)
     \/ f.op = "close" /\ CloseChannel(f)
     \/ f.op = "unsupported" /\ Unsupported(f)
     \/ f.op \in {"call", "consume", "cancel", "get"} /\ Decode(f)
     \/ f.op = "settle" /\ SettleDecode(f)
     \/ f.op = "select" /\ SelectConfirms(f)
     \/ f.op = "publish" /\ PublishMethod(f)

Receive ==
  /\ phase = "select" /\ toServer # <<>> /\ Writable
  /\ Dispatch(Head(toServer)) /\ toServer' = Tail(toServer)

\* A frame that does not belong where it is, and ends the connection.
ReceiveBroken ==
  /\ phase = "select" /\ toServer = <<>> /\ Writable
  /\ \E kind \in {"garbled", "open", "call", "header", "body"}, ch \in Channel :
       Dispatch([Frame(kind, ch) EXCEPT !.broken = TRUE])
  /\ phase' = "over" /\ UNCHANGED toServer

----------------------------------------------------------------------------
(* The serve loop with the verdict on the active operation: the connection  *)
(* is dropped, the operation fails (by a rule or in the broker), or it runs.*)

Serving == phase = "serving" /\ Writable /\ UNCHANGED toServer

DropConnection == Serving /\ Over("dropped") /\ UNCHANGED toClient

\* Fail.  A cancellation that fails once its channel is gone or closing is
\* not tried again.
RefuseConnection ==
  /\ Serving /\ active.op = "connect" /\ Fatal(active, "refused")

FailOperation ==
  /\ Serving /\ active.op # "connect" /\ phase' = "loop"
  /\ IF Live(active.ch) /\ channels[active.ch].closing
     THEN UNCHANGED <<channels, staged, toClient>>
     ELSE /\ Send(<<Frame("close", active.ch)>>)
          /\ IF Live(active.ch)
             THEN /\ staged' = staged \o Cancels(active.ch)
                  /\ channels' = [channels EXCEPT ![active.ch] = Closing(active.ch)]
             ELSE UNCHANGED <<channels, staged>>
  /\ history' = [history EXCEPT !.leaked =
         IF active.op = "cancel" /\ ~Usable(active.ch) THEN @ \cup {active.tag} ELSE @,
       !.stale = @ \/ ~Live(active.ch)]
  /\ active' = Blank
  /\ UNCHANGED <<pending, fromQueue, outboxVars, brokerVars, view>>

\* Reply to what only needs a yes: one answer, unless the client wanted none.
Answer == Send(IF active.noWait THEN <<>> ELSE <<Frame("answer", active.ch)>>)
Reply ==
  /\ Serving /\ phase' = "loop" /\ active' = Blank
  /\ UNCHANGED <<staged, pending, outboxVars, view>>

ReplyPlain ==
  /\ active.op \in {"connect", "call"} /\ Reply /\ Answer
  /\ UNCHANGED <<channels, fromQueue, brokerVars, history>>

\* The broker takes the consumer on unless its tag is in use; track notes it.
ReplyConsume ==
  /\ active.op = "consume" /\ active.tag \notin {s.tag : s \in subscribed}
  /\ Reply /\ Answer
  /\ subscribed' = subscribed \cup
       {[tag |-> active.tag, ch |-> active.ch, noAck |-> active.noAck]}
  /\ channels' = [channels EXCEPT ![active.ch].consumers =
       IF Live(active.ch) THEN @ \cup {active.tag} ELSE @]
  /\ history' = [history EXCEPT !.leaked = @ \ {active.tag}]
  /\ UNCHANGED <<fromQueue, held, lastTag>>

ReplyCancel ==
  /\ active.op = "cancel" /\ active.tag \in {s.tag : s \in subscribed}
  /\ Reply /\ Answer
  /\ subscribed' = {s \in subscribed : s.tag # active.tag}
  /\ channels' = IF Live(active.ch)
                 THEN [channels EXCEPT ![active.ch].consumers = @ \ {active.tag}]
                 ELSE channels
  /\ UNCHANGED <<fromQueue, held, lastTag, history>>

\* fetched: a message with its content, or Get-Empty.
ReplyGet ==
  /\ active.op = "get" /\ Reply
  /\ \/ /\ Send(<<Frame("getEmpty", active.ch)>>)
        /\ UNCHANGED <<fromQueue, brokerVars>>
     \/ LET got == [Frame("getOk", active.ch) EXCEPT !.dtag = lastTag + 1,
                                                    !.noAck = active.noAck]
        IN /\ lastTag < MaxTag /\ lastTag' = lastTag + 1
           /\ held' = IF active.noAck THEN held
                      ELSE held \cup {[dtag |-> got.dtag, ch |-> active.ch]}
           /\ Send(<<got>>) /\ fromQueue' = Remember(got)
           /\ UNCHANGED subscribed
  /\ UNCHANGED <<channels, history>>

\* Settling what the broker does not hold fails there.
Settled(task) ==
  {h \in held : IF task.multiple THEN h.ch = task.ch /\ (task.dtag = 0 \/ h.dtag <= task.dtag)
                ELSE h.dtag = task.dtag}
ReplySettle ==
  /\ active.op = "settle" /\ Settled(active) # {} /\ Reply
  /\ held' = held \ Settled(active)
  /\ UNCHANGED <<channels, fromQueue, subscribed, lastTag, toClient, history>>

\* async: a mandatory message that went nowhere comes back before its confirm.
ReplyPublish ==
  /\ active.op = "publish" /\ Reply
  /\ \E routed \in BOOLEAN :
       LET returned == IF active.mandatory /\ ~routed
                       THEN <<Frame("return", active.ch)>> ELSE <<>>
       IN IF Live(active.ch) /\ channels[active.ch].confirms
          THEN /\ channels' = [channels EXCEPT ![active.ch].published = @ + 1]
               /\ Send(returned \o <<[Frame("confirm", active.ch) EXCEPT
                           !.dtag = NextConfirm(active.ch), !.ord = active.ord]>>)
          ELSE Send(returned) /\ UNCHANGED channels
  /\ UNCHANGED <<fromQueue, brokerVars, history>>

----------------------------------------------------------------------------
(* The broker and the other connections *)

\* The outbox's Deliver, in whichever connection published: the message first,
\* then the signal, which is dropped when one is already there.
PushAppend(s) ==
  /\ ~pushing /\ pushing' = TRUE
  /\ waiting' = Append(waiting, [Frame("deliver", s.ch) EXCEPT !.tag = s.tag,
                                   !.dtag = lastTag + 1, !.noAck = s.noAck])
  /\ UNCHANGED <<taken, woken>>
PushSignal == pushing /\ pushing' = FALSE /\ woken' = TRUE /\ UNCHANGED <<waiting, taken>>

Push(s) ==
  /\ phase # "over" /\ lastTag < MaxTag
  /\ PushAppend(s)
  /\ lastTag' = lastTag + 1
  /\ held' = IF s.noAck THEN held ELSE held \cup {[dtag |-> lastTag + 1, ch |-> s.ch]}
  /\ UNCHANGED <<phase, sessionVars, subscribed, toServer, toClient, view, history>>

Signal ==
  /\ phase # "over" /\ PushSignal
  /\ UNCHANGED <<phase, sessionVars, brokerVars, toServer, toClient, view, history>>

\* Somebody deletes the queue, and its consumers with it.
QueueDeleted ==
  /\ phase # "over" /\ subscribed # {} /\ subscribed' = {}
  /\ UNCHANGED <<phase, sessionVars, outboxVars, held, lastTag, toServer, toClient,
                 view, history>>

----------------------------------------------------------------------------
(* The client *)

\* It sends a frame, with what that makes it believe of the channel.
Sends(f, believes) ==
  /\ phase \notin {"accepting", "new", "over"}
  /\ f.op \in Uses[f.ch] \cup {"open", "header", "body", "bye"}
  /\ Len(toServer) < InFlight /\ history.frames < MaxFrames
  /\ toServer' = Append(toServer, f)
  /\ view' = [view EXCEPT ![f.ch] = believes]
  /\ history' = [history EXCEPT !.frames =
                   IF f.op \in {"open", "header", "body"} THEN @ ELSE @ + 1]
  /\ UNCHANGED <<phase, sessionVars, outboxVars, brokerVars, toClient>>

ClientOpens(ch) ==
  /\ view[ch].state = "closed"
  /\ Sends(Frame("open", ch), [Closed EXCEPT !.state = "opening"])

Idle(ch) == view[ch].state = "open" /\ view[ch].owes = 0

ClientCloses(ch) ==
  /\ Idle(ch) /\ Sends(Frame("close", ch), [view[ch] EXCEPT !.state = "closing"])

\* No-wait only changes whether there is an answer: a plain call tries both.
ClientAsks(ch) ==
  /\ Idle(ch)
  /\ \/ \E noWait \in BOOLEAN :
          Sends([Frame("call", ch) EXCEPT !.noWait = noWait], view[ch])
     \/ Sends([Frame("select", ch) EXCEPT !.noWait = FALSE],
              [view[ch] EXCEPT !.confirms = TRUE])

ClientConsumes(ch) ==
  /\ Idle(ch)
  /\ \E tag \in Tag, noAck \in BOOLEAN :
       \/ Sends([Frame("consume", ch) EXCEPT !.tag = tag, !.noAck = noAck, !.noWait = FALSE],
                view[ch])
       \/ Sends([Frame("cancel", ch) EXCEPT !.tag = tag, !.noWait = FALSE], view[ch])
       \/ Sends([Frame("get", ch) EXCEPT !.noAck = noAck], view[ch])

ClientSettles(ch) ==
  /\ Idle(ch)
  /\ \E dtag \in view[ch].holds \cup {0}, multiple \in BOOLEAN :
       /\ dtag = 0 => multiple
       /\ Sends([Frame("settle", ch) EXCEPT !.dtag = dtag, !.multiple = multiple],
                [view[ch] EXCEPT !.holds =
                   IF multiple THEN {t \in @ : dtag # 0 /\ t > dtag} ELSE @ \ {dtag}])

ClientAsksTooMuch(ch) == Idle(ch) /\ Sends(Frame("unsupported", ch), view[ch])

ClientPublishes(ch) ==
  /\ view[ch].state = "open"
  /\ \/ /\ view[ch].owes = 0
        /\ LET n == IF view[ch].confirms THEN view[ch].count + 1 ELSE 0
           IN \E mandatory \in BOOLEAN :
                Sends([Frame("publish", ch) EXCEPT !.ord = n, !.mandatory = mandatory],
                      [view[ch] EXCEPT !.count = n, !.owes = 2])
     \/ /\ view[ch].owes = 2
        /\ \E size \in {0, 1} : Sends([Frame("header", ch) EXCEPT !.size = size],
                                      [view[ch] EXCEPT !.owes = size])
     \/ /\ view[ch].owes = 1
        /\ Sends(Frame("body", ch), [view[ch] EXCEPT !.owes = 0])

ClientSaysGoodbye == \E ch \in Channel : Sends(Frame("bye", ch), view[ch])

\* What the client reads, and its answer to a Channel.Close.  A frame on a
\* channel it holds closed is a surprise, and it lets it pass.
ClientReads ==
  /\ phase # "over" /\ toClient # <<>>
  /\ toClient' = Tail(toClient)
  /\ LET f == Head(toClient)
         v == view[f.ch]
         now == IF v.state = "closed" THEN v
                ELSE CASE f.op = "openOk" /\ v.state = "opening" -> [v EXCEPT !.state = "open"]
                       [] f.op \in {"close", "closeOk"} -> Closed
                       [] f.op \in {"deliver", "getOk"} /\ ~f.noAck ->
                            [v EXCEPT !.holds = @ \cup {f.dtag}]
                       [] OTHER -> v
     IN IF f.ch = 0 THEN UNCHANGED <<toServer, view, history>>
        ELSE /\ view' = [view EXCEPT ![f.ch] = now]
             /\ toServer' = IF f.op = "close" /\ v.state # "closed"
                            THEN Append(toServer, Frame("closeOk", f.ch)) ELSE toServer
             /\ history' = [history EXCEPT !.surprised = @ \/ v.state = "closed"]
  /\ UNCHANGED <<phase, sessionVars, outboxVars, brokerVars>>

----------------------------------------------------------------------------
Init ==
  /\ phase = "accepting"
  /\ channels = [ch \in Channel |-> Gone] /\ view = [ch \in Channel |-> Closed]
  /\ staged = <<>> /\ active = Blank /\ pending = NoPublish /\ fromQueue = {}
  /\ waiting = <<>> /\ taken = <<>> /\ woken = FALSE /\ pushing = FALSE
  /\ subscribed = {} /\ held = {} /\ lastTag = 0
  /\ toServer = <<>> /\ toClient = <<>>
  /\ history = [ended |-> "no", frames |-> 0,
                discarded |-> {}, leaked |-> {}, blurred |-> {}, stale |-> FALSE, surprised |-> FALSE]

Serve == \/ RefuseConnection \/ FailOperation \/ ReplyPlain \/ ReplyConsume
         \/ ReplyCancel \/ ReplyGet \/ ReplySettle \/ ReplyPublish
Loop == Accept \/ Greet \/ TakeStaged \/ Take \/ SendDelivery \/ Wake \/ Beat \/ EndOfStream
Client == \/ \E ch \in Channel :
               \/ ClientOpens(ch) \/ ClientCloses(ch) \/ ClientAsks(ch)
               \/ ClientConsumes(ch) \/ ClientSettles(ch) \/ ClientAsksTooMuch(ch)
               \/ ClientPublishes(ch)
          \/ ClientSaysGoodbye
Broker == (\E s \in subscribed : Push(s)) \/ Signal \/ QueueDeleted

Next == Loop \/ Receive \/ ReceiveBroken \/ Serve \/ DropConnection \/ Client \/ ClientReads \/ Broker
Spec == Init /\ [][Next]_vars

\* The loop and the verdicts are the session's own goroutine; select picks at
\* random among what is ready, so a frame that waits is not passed over for
\* ever; a Deliver that has begun ends; the client reads what it is sent.
FairSpec == /\ Spec
            /\ WF_vars(Loop) /\ WF_vars(Serve) /\ SF_vars(Receive) /\ WF_vars(Signal)
            /\ WF_vars(ClientReads)

----------------------------------------------------------------------------
(* Properties *)

Kinds ==
  {"none", "connect", "open", "openOk", "close", "closeOk", "call", "answer", "select",
   "selectOk", "consume", "cancel", "get", "getOk", "getEmpty", "settle", "publish",
   "header", "body", "unsupported", "deliver", "return", "confirm", "garbled", "bye",
   "connectionClose", "connectionCloseOk"}
TaskType ==
  [op : Kinds, ch : Channel \cup {0}, noWait : BOOLEAN, tag : Tag \cup {NoTag},
   dtag : Nat, noAck : BOOLEAN, multiple : BOOLEAN, mandatory : BOOLEAN, ord : Nat,
   size : {0, 1}, named : BOOLEAN, broken : BOOLEAN]

\* The session's maps hold what their types say, a channel that is gone keeps
\* nothing, and the tags remembered are tags the broker issued.
TypeOK ==
  /\ phase \in {"accepting", "new", "loop", "writing", "select", "serving", "over"}
  /\ channels \in [Channel -> [live : BOOLEAN, closing : BOOLEAN, confirms : BOOLEAN,
                               published : Nat, consumers : SUBSET Tag]]
  /\ \A ch \in Channel : Live(ch) \/ channels[ch] = Gone
  /\ \A s \in {staged, waiting, taken, toServer, toClient} : \A i \in DOMAIN s : s[i] \in TaskType
  /\ active \in TaskType
  /\ pending \in [ch : Channel \cup {0}, mandatory : BOOLEAN, ord : Nat, size : {0, 1},
                  got : {0, 1}]
  /\ fromQueue \subseteq 1 .. lastTag /\ lastTag \in 0 .. MaxTag
  /\ subscribed \subseteq [tag : Tag, ch : Channel, noAck : BOOLEAN]
  /\ held \subseteq [dtag : 1 .. lastTag, ch : Channel]
  /\ woken \in BOOLEAN /\ pushing \in BOOLEAN

\* outbox: one wake-up is enough.  The session never sits in its select with a
\* delivery in the outbox unless the signal is there or about to be.
NoLostWakeUp == phase = "select" /\ waiting # <<>> => woken \/ pushing

\* confirm: a Basic.Ack carries the number under which the client counts the
\* publish it is for, across failures, closings and reopenings of the channel.
ConfirmNamesItsPublish ==
  \A i \in DOMAIN toClient : toClient[i].op = "confirm" => toClient[i].dtag = toClient[i].ord

\* track and cancelConsumers: whatever the broker still pushes to belongs to a
\* channel that has it on its list, or is about to be cancelled; except where
\* a cancellation failed, and after a method emu does not implement.
NoOrphanConsumer ==
  \A s \in subscribed :
    \/ Live(s.ch) /\ s.tag \in channels[s.ch].consumers
    \/ \E i \in DOMAIN staged : staged[i].op = "cancel" /\ staged[i].tag = s.tag
    \/ phase = "serving" /\ active.op = "cancel" /\ active.tag = s.tag
    \/ s.tag \in history.leaked

\* fatal: a client that keeps the rules is cut off for two reasons only: two
\* of its channels publish at once, or the rest of a message arrives whose
\* Basic.Publish was discarded on a channel that was closing.
EndedForCause ==
  /\ history.ended \notin {"channel already open", "channel never opened", "body too long"}
  /\ history.ended = "stray content" => history.discarded # {}

\* sendDelivery, closeChannel, Fail: nothing reaches the client on a channel
\* it holds closed until a cancellation has failed after its channel was gone,
\* for which Fail sends a Channel.Close all the same.  That one does arrive,
\* may close a channel the client is opening again, and nothing is claimed of
\* what comes after it.
NothingAfterClose == history.surprised => history.stale

\* remember and forget: the acknowledgement of a delivery the broker still
\* holds names its queue, unless another channel acknowledged several at once.
AckNamesQueue ==
  phase = "serving" /\ active.op = "settle" /\ active.dtag \in {h.dtag : h \in held}
    => active.named \/ active.dtag \in history.blurred

\* The session's own maps beside the broker's: every consumer the broker knows
\* is on a channel's list or being cancelled, and every acknowledgement of a
\* delivery that is out names its queue (track, cancelConsumers, remember).
BooksKept == TypeOK /\ NoOrphanConsumer /\ AckNamesQueue

\* fatal, sendDelivery: a client that keeps the rules is neither cut off nor
\* spoken to on a channel it has closed, but for the causes named above.
RuleKeeperServed == EndedForCause /\ NothingAfterClose

\* closeChannel: a client that closes a channel hears Close-Ok, or the
\* server's own Close that crossed it; it is not left waiting.
CloseAnswered ==
  \A ch \in Channel :
    view[ch].state = "closing" ~> view[ch].state # "closing" \/ phase = "over"

\* Kept for the record: Fail says that a second exception would be emu talking
\* over itself.  A cancellation that fails after the client closed its channel
\* sends one for a channel that is gone.
NeverTalksOver == ~history.stale
=============================================================================
