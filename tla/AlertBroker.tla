----------------------------- MODULE AlertBroker -----------------------------
(***************************************************************************)
(* Alerts from the processors to the clients.  Each processor makes sure   *)
(* the transfer-impacts topic exists and publishes its broken transfers,   *)
(* keyed by station (internal/transfer/kafka.go).  In the gRPC server      *)
(* (internal/server/alerts.go, StreamAlerts in handlers.go, cmd/server) a  *)
(* goroutine per partition publishes the alerts to every subscriber under  *)
(* the read lock, without waiting for a full buffer; a StreamAlerts        *)
(* handler per client drains its buffer, filters, and sends; and           *)
(* GracefulStop waits for the handlers.                                    *)
(*                                                                         *)
(* A client here is one call of StreamAlerts, a publisher a processor with *)
(* one claim, which sends its impacts one after another.  The RWMutex is   *)
(* modelled with its writer preference: a waiting writer holds new readers *)
(* off.                                                                    *)
(***************************************************************************)
EXTENDS Integers, Sequences, FiniteSets

CONSTANTS
  Parts,       \* partitions of transfer-impacts
  Clients,     \* StreamAlerts calls
  Tags,        \* what a filter tells apart: the routes and station of an alert
  Unreadable,  \* the tag of a message that does not unmarshal
  Hashed,      \* the partition each tag's station is hashed to
  OnePart,     \* the partition of a topic with only one
  Publishers,  \* processors
  NoTag,
  Wanted,      \* the tags each client's filter lets through
  BufSize,     \* a subscription's buffer (64 in the code)
  AlertBudget  \* how often each environment event may happen

AlertBudgetKinds == {"alerts", "losses", "failures", "closes", "signals"}

ASSUME AlertAssumption ==
  /\ Unreadable \in Tags /\ NoTag \notin Tags \cup Publishers
  /\ IsFiniteSet(Publishers)
  /\ Hashed \in [Tags -> Parts] /\ OnePart \in Parts
  /\ Wanted \in [Clients -> SUBSET (Tags \ {Unreadable})]
  /\ BufSize \in Nat \ {0}
  /\ AlertBudget \in [AlertBudgetKinds -> Nat]

VARIABLES
  topic,     \* the partitions transfer-impacts has; none while it does not exist
  pub,       \* each publisher: "listing", "creating", "ready", "sending", "failed"
  inHand,    \* the tag of the impact it is sending
  sent,      \* how many impacts it has begun to send
  impacts,   \* each partition's log
  run,       \* RunKafkaConsumer: "connecting", "running", "backoff", "stopped"
  reader,    \* each partition's goroutine
  next,      \* offset it reads next, or has in hand
  offers,    \* subscribers its Publish has still to offer the alert to
  subs,      \* subscribed clients
  stream,    \* each client's StreamAlerts handler
  buf,       \* each subscription's channel
  hung,      \* clients that went away
  first,     \* history: the offset each partition was started at
  since,     \* history: where each partition was when a client subscribed
  taken,     \* history: alerts a handler took off its channel
  overflow,  \* history: clients an alert was dropped for
  server,    \* the gRPC server: "serving", "draining", "exited"
  signalled, \* the signal context is done
  alertLeft  \* remaining budget

pubVars    == <<pub, inHand, sent>>
kafkaVars  == <<impacts, run, reader, next, offers, first>>
clientVars == <<subs, stream, buf, hung, since, taken, overflow>>
alertVars  == <<topic, pubVars, kafkaVars, clientVars, server, signalled, alertLeft>>

SpendAlert(what) ==
  alertLeft[what] > 0 /\ alertLeft' = [alertLeft EXCEPT ![what] = @ - 1]

Alert == [part : Parts, offset : Nat, tag : Tags]
AlertAt(p, o) == [part |-> p, offset |-> o, tag |-> impacts[p][o + 1].tag]

\* What a log holds: whose impact it is, and the publisher's count of it.
Message == [tag : Tags, from : Publishers \cup {NoTag}, n : Nat]

AlertTypeOK ==
  /\ topic \in {{}, {OnePart}, Parts}
  /\ pub \in [Publishers -> {"listing", "creating", "ready", "sending", "failed"}]
  /\ inHand \in [Publishers -> Tags \cup {NoTag}] /\ sent \in [Publishers -> Nat]
  /\ impacts \in [Parts -> Seq(Message)]
  /\ run \in {"connecting", "running", "backoff", "stopped"}
  /\ reader \in [Parts -> {"off", "idle", "holding", "publishing"}]
  /\ next \in [Parts -> Nat] /\ first \in [Parts -> Nat]
  /\ offers \in [Parts -> SUBSET Clients]
  /\ subs \in SUBSET Clients
  /\ stream \in [Clients -> {"absent", "joining", "serving", "sending", "leaving", "left"}]
  /\ buf \in [Clients -> Seq(Alert)]
  /\ \A c \in Clients : Len(buf[c]) <= BufSize
  /\ hung \in SUBSET Clients
  /\ since \in [Clients -> [Parts -> Nat]]
  /\ taken \in [Clients -> Seq(Alert)]
  /\ overflow \in SUBSET Clients
  /\ server \in {"serving", "draining", "exited"}
  /\ signalled \in BOOLEAN
  /\ alertLeft \in [AlertBudgetKinds -> Nat]

AlertInit ==
  /\ topic = {}
  /\ pub = [b \in Publishers |-> "listing"]
  /\ inHand = [b \in Publishers |-> NoTag] /\ sent = [b \in Publishers |-> 0]
  /\ impacts = [p \in Parts |-> <<>>]
  /\ run = "connecting"
  /\ reader = [p \in Parts |-> "off"]
  /\ next = [p \in Parts |-> 0] /\ first = next
  /\ offers = [p \in Parts |-> {}]
  /\ subs = {} /\ hung = {} /\ overflow = {}
  /\ stream = [c \in Clients |-> "absent"]
  /\ buf = [c \in Clients |-> <<>>]
  /\ since = [c \in Clients |-> [p \in Parts |-> 0]]
  /\ taken = [c \in Clients |-> <<>>]
  /\ server = "serving" /\ signalled = FALSE
  /\ alertLeft = AlertBudget

-----------------------------------------------------------------------------
(* The lock around subs.                                                   *)

\* Faulty variant: Subscribe does not take the lock.
CanWriteAlways == TRUE

Writers  == {c \in Clients : stream[c] \in {"joining", "leaving"}}
CanRead  == Writers = {}
CanWrite == \A p \in Parts : reader[p] # "publishing"

-----------------------------------------------------------------------------
(* KafkaImpactPublisher.                                                   *)

PubBecomes(b, from, to) == pub[b] = from /\ pub' = [pub EXCEPT ![b] = to]

rest == <<run, reader, next, offers, first, clientVars, server, signalled>>

\* The topic with the partitions asked for, unless it is there.
Created == IF topic = {} THEN Parts ELSE topic

\* ensureTopic: a topic in the list is taken as it is.
ListTopics(b) ==
  /\ PubBecomes(b, "listing", IF topic # {} THEN "ready" ELSE "creating")
  /\ UNCHANGED <<topic, inHand, sent, impacts, alertLeft, rest>>

\* CreateTopic reports a topic that is there already as a *TopicError, which the
\* comparison with ErrTopicAlreadyExists (kafka.go:77) does not match: a process
\* that finds another's topic ends.
CreateTopic(b) ==
  /\ PubBecomes(b, "creating", IF topic = {} THEN "ready" ELSE "failed")
  /\ topic' = Created
  /\ UNCHANGED <<inHand, sent, impacts, alertLeft, rest>>

\* Any step of it may fail, or the producer after it, which ends the process, too.
SetupFails(b) ==
  /\ SpendAlert("losses")
  /\ \/ PubBecomes(b, "listing", "failed") /\ UNCHANGED topic
     \/ PubBecomes(b, "creating", "failed") /\ topic' \in {topic, Created}
  /\ UNCHANGED <<inHand, sent, impacts, rest>>

\* Faulty variant: an impact may go to any partition.
AnyPartition(tag) == topic

\* The hash partitioner.
PartitionsOf(tag) == IF topic = Parts THEN {Hashed[tag]} ELSE topic

\* PublishImpact: the claim waits until the message is sent.
PublishImpact(b) ==
  /\ SpendAlert("alerts")
  /\ PubBecomes(b, "ready", "sending")
  /\ \E tag \in Tags \ {Unreadable} : inHand' = [inHand EXCEPT ![b] = tag]
  /\ sent' = [sent EXCEPT ![b] = @ + 1]
  /\ UNCHANGED <<topic, impacts, rest>>

\* The broker appends the message; when its answer is lost the producer sends it
\* again, so that the log may hold it twice.
Appended(b) ==
  /\ pub[b] = "sending"
  /\ \E p \in PartitionsOf(inHand[b]) :
       impacts' = [impacts EXCEPT ![p] =
                     Append(@, [tag |-> inHand[b], from |-> b, n |-> sent[b]])]
  /\ \/ pub' = [pub EXCEPT ![b] = "ready"] /\ inHand' = [inHand EXCEPT ![b] = NoTag]
        /\ UNCHANGED alertLeft
     \/ SpendAlert("losses") /\ UNCHANGED <<pub, inHand>>
  /\ UNCHANGED <<topic, sent, rest>>

\* The producer gives up, which is logged only.
PublishFails(b) ==
  /\ SpendAlert("losses")
  /\ PubBecomes(b, "sending", "ready")
  /\ inHand' = [inHand EXCEPT ![b] = NoTag]
  /\ UNCHANGED <<topic, sent, impacts, rest>>

PublisherStep(b) == \/ ListTopics(b) \/ CreateTopic(b) \/ SetupFails(b)
                    \/ PublishImpact(b) \/ Appended(b) \/ PublishFails(b)

-----------------------------------------------------------------------------
(* RunKafkaConsumer and consumeOnce.                                       *)

\* Some partitions may fail to start; if none started the session is an error.
\* A started partition begins at its newest offset.  Asking for the partitions of
\* a topic that does not exist is an error, or has the broker create it.
Connect ==
  /\ run = "connecting" /\ ~signalled
  /\ IF topic = {} THEN topic' \in {{}, {OnePart}} ELSE UNCHANGED topic
  /\ \E started \in SUBSET topic' :
       /\ IF started = topic' THEN UNCHANGED alertLeft ELSE SpendAlert("failures")
       /\ run' = IF started = {} THEN "backoff" ELSE "running"
       /\ reader' = [p \in Parts |-> IF p \in started THEN "idle" ELSE "off"]
       /\ next' = [p \in Parts |-> IF p \in started THEN Len(impacts[p]) ELSE next[p]]
       /\ first' = next'
  /\ UNCHANGED <<pubVars, impacts, offers, clientVars, server, signalled>>

Reconnect ==
  /\ run = "backoff" /\ ~signalled
  /\ run' = "connecting"
  /\ UNCHANGED <<topic, pubVars, first, impacts, reader, next, offers, clientVars, server, signalled, alertLeft>>

\* A running session ends only with the context, when its goroutines have.
ConsumerStops ==
  /\ signalled /\ run # "stopped"
  /\ \A p \in Parts : reader[p] = "off"
  /\ run' = "stopped"
  /\ UNCHANGED <<topic, pubVars, first, impacts, reader, next, offers, clientVars, server, signalled, alertLeft>>

(* A partition's goroutine.                                                *)

Take(p) ==
  /\ reader[p] = "idle" /\ next[p] < Len(impacts[p])
  /\ IF impacts[p][next[p] + 1].tag = Unreadable
     THEN next' = [next EXCEPT ![p] = @ + 1] /\ UNCHANGED reader
     ELSE reader' = [reader EXCEPT ![p] = "holding"] /\ UNCHANGED next
  /\ UNCHANGED <<topic, pubVars, first, impacts, run, offers, clientVars, server, signalled, alertLeft>>

StartPublish(p) ==
  /\ reader[p] = "holding" /\ CanRead
  /\ reader' = [reader EXCEPT ![p] = "publishing"]
  /\ offers' = [offers EXCEPT ![p] = subs]
  /\ UNCHANGED <<topic, pubVars, first, impacts, run, next, clientVars, server, signalled, alertLeft>>

\* Faulty variant: the send waits for room.
HasRoom(c) == Len(buf[c]) < BufSize
OfferBlocking(p, c) ==
  /\ reader[p] = "publishing" /\ c \in offers[p] /\ HasRoom(c)
  /\ buf' = [buf EXCEPT ![c] = Append(@, AlertAt(p, next[p]))]
  /\ offers' = [offers EXCEPT ![p] = @ \ {c}]
  /\ UNCHANGED <<topic, pubVars, first, impacts, run, reader, next, subs, stream, hung, since, taken,
                 overflow, server, signalled, alertLeft>>

\* The non-blocking send: a full buffer drops the alert.
Offer(p, c) ==
  /\ reader[p] = "publishing" /\ c \in offers[p]
  /\ IF HasRoom(c)
     THEN buf' = [buf EXCEPT ![c] = Append(@, AlertAt(p, next[p]))]
          /\ UNCHANGED overflow
     ELSE overflow' = overflow \cup {c} /\ UNCHANGED buf
  /\ offers' = [offers EXCEPT ![p] = @ \ {c}]
  /\ UNCHANGED <<topic, pubVars, first, impacts, run, reader, next, subs, stream, hung, since, taken,
                 server, signalled, alertLeft>>

\* Faulty variant: the alert is published again.
EndPublishAgain(p) ==
  /\ reader[p] = "publishing" /\ offers[p] = {}
  /\ reader' = [reader EXCEPT ![p] = "idle"]
  /\ UNCHANGED <<topic, pubVars, first, impacts, run, next, offers, clientVars, server, signalled,
                 alertLeft>>

EndPublish(p) ==
  /\ reader[p] = "publishing" /\ offers[p] = {}
  /\ reader' = [reader EXCEPT ![p] = "idle"]
  /\ next' = [next EXCEPT ![p] = @ + 1]
  /\ UNCHANGED <<topic, pubVars, first, impacts, run, offers, clientVars, server, signalled, alertLeft>>

\* sarama closes the partition's channel (its offset went out of range), or the
\* context is done.
ReaderEnds(p) ==
  /\ reader[p] = "idle"
  /\ IF signalled THEN UNCHANGED alertLeft ELSE SpendAlert("closes")
  /\ reader' = [reader EXCEPT ![p] = "off"]
  /\ UNCHANGED <<topic, pubVars, first, impacts, run, next, offers, clientVars, server, signalled>>

-----------------------------------------------------------------------------
(* StreamAlerts.                                                           *)

Become(c, from, to) == stream[c] = from /\ stream' = [stream EXCEPT ![c] = to]

Call(c) ==
  /\ server = "serving"
  /\ Become(c, "absent", "joining")
  /\ UNCHANGED <<topic, pubVars, kafkaVars, subs, buf, hung, since, taken, overflow, server,
                 signalled, alertLeft>>

Subscribe(c) ==
  /\ CanWrite
  /\ Become(c, "joining", "serving")
  /\ subs' = subs \cup {c}
  /\ since' = [since EXCEPT ![c] = next]
  /\ UNCHANGED <<topic, pubVars, kafkaVars, buf, hung, taken, overflow, server, signalled, alertLeft>>

\* Takes the next alert, and goes on to send it if the filter lets it through.
Filter(c) ==
  /\ stream[c] = "serving" /\ buf[c] # <<>>
  /\ buf' = [buf EXCEPT ![c] = Tail(@)]
  /\ taken' = [taken EXCEPT ![c] = Append(@, Head(buf[c]))]
  /\ stream' = IF Head(buf[c]).tag \in Wanted[c]
               THEN [stream EXCEPT ![c] = "sending"] ELSE stream
  /\ UNCHANGED <<topic, pubVars, kafkaVars, subs, hung, since, overflow, server, signalled, alertLeft>>

\* Flow control may keep a send from returning as long as the client is there.
Send(c) ==
  /\ Become(c, "sending", IF c \in hung THEN "leaving" ELSE "serving")
  /\ UNCHANGED <<topic, pubVars, kafkaVars, subs, buf, hung, since, taken, overflow, server,
                 signalled, alertLeft>>

\* Faulty variant: the handler looks at its context only between alerts.
SeesDoneLater(c) ==
  /\ c \in hung /\ buf[c] # <<>> /\ Become(c, "serving", "leaving")
  /\ UNCHANGED <<topic, pubVars, kafkaVars, subs, buf, hung, since, taken, overflow, server,
                 signalled, alertLeft>>

SeesDone(c) ==
  /\ c \in hung /\ Become(c, "serving", "leaving")
  /\ UNCHANGED <<topic, pubVars, kafkaVars, subs, buf, hung, since, taken, overflow, server,
                 signalled, alertLeft>>

Unsubscribe(c) ==
  /\ CanWrite
  /\ Become(c, "leaving", "left")
  /\ subs' = subs \ {c}
  /\ UNCHANGED <<topic, pubVars, kafkaVars, buf, hung, since, taken, overflow, server, signalled,
                 alertLeft>>

HangUp(c) ==
  /\ stream[c] \in {"joining", "serving", "sending"} /\ c \notin hung
  /\ hung' = hung \cup {c}
  /\ UNCHANGED <<topic, pubVars, kafkaVars, subs, stream, buf, since, taken, overflow, server,
                 signalled, alertLeft>>

-----------------------------------------------------------------------------
(* main, and the environment.                                              *)

Signal ==
  /\ SpendAlert("signals")
  /\ signalled' = TRUE
  /\ UNCHANGED <<topic, pubVars, kafkaVars, clientVars, server>>

\* GracefulStop refuses new calls and waits for the ones in progress.
BeginGracefulStop ==
  /\ signalled /\ server = "serving"
  /\ server' = "draining"
  /\ UNCHANGED <<topic, pubVars, kafkaVars, clientVars, signalled, alertLeft>>

ServeReturns ==
  /\ server = "draining"
  /\ \A c \in Clients : stream[c] \in {"absent", "left"}
  /\ server' = "exited"
  /\ UNCHANGED <<topic, pubVars, kafkaVars, clientVars, signalled, alertLeft>>

\* Somebody else writes to the topic.
Garbage ==
  /\ SpendAlert("alerts")
  /\ \E p \in topic :
       impacts' = [impacts EXCEPT ![p] = Append(@, [tag |-> Unreadable, from |-> NoTag, n |-> 0])]
  /\ UNCHANGED <<topic, pubVars, first, run, reader, next, offers, clientVars, server, signalled>>

ReaderStep(p) == \/ Take(p) \/ StartPublish(p) \/ EndPublish(p)
                 \/ (signalled /\ ReaderEnds(p)) \/ \E c \in Clients : Offer(p, c)
\* A handler's steps that no client can hold up.
HandlerStep(c) == \/ Subscribe(c) \/ SeesDone(c) \/ Unsubscribe(c)
                  \/ (c \in hung /\ Send(c))
RunStep == Connect \/ Reconnect \/ ConsumerStops
Stopping == BeginGracefulStop \/ ServeReturns

AlertNext ==
  \/ RunStep \/ Signal \/ Stopping \/ Garbage
  \/ \E b \in Publishers : PublisherStep(b)
  \/ \E p \in Parts : ReaderStep(p) \/ ReaderEnds(p)
  \/ \E c \in Clients : HandlerStep(c) \/ Call(c) \/ Filter(c) \/ Send(c) \/ HangUp(c)

AlertSpec == AlertInit /\ [][AlertNext]_alertVars

\* Goroutines run; a client need never read, and need never leave.
AlertFairSpec ==
  /\ AlertSpec
  /\ WF_alertVars(RunStep) /\ WF_alertVars(Stopping)
  /\ \A p \in Parts : WF_alertVars(ReaderStep(p))
  /\ \A c \in Clients : WF_alertVars(HandlerStep(c))

-----------------------------------------------------------------------------
(* What the alert stream promises.                                         *)

HeldBack(c) == taken[c] \o buf[c]

SentAs(a) == impacts[a.part][a.offset + 1]

\* Each client sees a publisher's alerts for a station in the order they were
\* sent, and every message of the log at most once, although partitions publish
\* concurrently, a lost answer has an impact sent again, and clients come and go.
InSendOrder ==
  \A c \in Clients : \A i, j \in DOMAIN HeldBack(c) :
    LET a == HeldBack(c)[i]  b == HeldBack(c)[j] IN
    i < j =>
      /\ a.part = b.part => a.offset < b.offset
      /\ a.tag = b.tag /\ SentAs(a).from = SentAs(b).from => SentAs(a).n <= SentAs(b).n

\* What the comment "creates the transfer-impacts topic (if needed)" (kafka.go:18)
\* suggests and the code does not keep: processors that start together, or against
\* a broker that creates topics by itself, all get to publish unless the broker
\* fails one of them.
EveryoneGetsTopic ==
  Cardinality({b \in Publishers : pub[b] = "failed"}) <= AlertBudget["losses"] - alertLeft["losses"]

Offered(c, p, o) ==
  \/ o < next[p]
  \/ o = next[p] /\ reader[p] = "publishing" /\ c \notin offers[p]

\* "receives all future alerts" (alerts.go:35): a subscriber misses an alert
\* that was published after it subscribed only if its buffer was full.
OnlyOverflowLoses ==
  \A c \in subs \ overflow : \A p \in Parts :
    \A o \in since[c][p]..(Len(impacts[p]) - 1) :
      o >= first[p] /\ impacts[p][o + 1].tag # Unreadable /\ Offered(c, p, o)
        => \E i \in DOMAIN HeldBack(c) : HeldBack(c)[i] = AlertAt(p, o)

\* Whatever the clients do, no publisher is held up: "slow subscribers that have
\* a full buffer are skipped (non-blocking send)" (alerts.go:53-54), and no
\* handler waiting for the lock starves it.
PublisherNeverStalls ==
  \A p \in Parts : reader[p] \in {"holding", "publishing"} ~> reader[p] \in {"idle", "off"}

\* A client that went away is unsubscribed, also while alerts keep coming.
GoneUnsubscribed == \A c \in Clients : c \in hung ~> c \notin subs /\ stream[c] = "left"

\* "reconnecting with backoff on failure so a transient Kafka outage ... does not
\* kill the alert stream for the process lifetime" (alerts.go:72-75): every
\* partition is consumed again once failures stop.
AlertsReconnect ==
  <>(signalled \/ \A p \in Parts : [](reader[p] # "off" \/ signalled))

\* "Graceful shutdown" (cmd/server/main.go:110): a signal ends the process.
ServerShutsDown == signalled ~> server = "exited"

\* Clients that all leave are enough: no handler, publisher or reconnecting
\* consumer holds the shutdown up on the lock, and the consumer stops too.
ShutsDownWhenClientsLeave ==
  (\A c \in Clients : stream[c] # "absent" ~> c \in hung)
    => (signalled ~> server = "exited" /\ run = "stopped")
=============================================================================
