-------------------------- MODULE AlertBrokerProofs --------------------------
(***************************************************************************)
(* Proofs about AlertBroker, for any processors, partitions, clients,      *)
(* filters, buffers and budgets: its types, the order in which a client    *)
(* sees the alerts, and what it may miss.                                  *)
(***************************************************************************)
EXTENDS AlertBroker, FiniteSetTheorems, SequenceTheorems, TLAPS

\* A send has an impact; a partition's goroutine has a message of the log in hand
\* and is off until a session starts it.
HandOK  == \A b \in Publishers : pub[b] = "sending" => inHand[b] \in Tags
AheadOK == \A p \in Parts :
             /\ next[p] <= Len(impacts[p])
             /\ reader[p] \in {"holding", "publishing"} => next[p] < Len(impacts[p])
QuietOK == run \in {"connecting", "backoff"} => \A p \in Parts : reader[p] = "off"

StreamInv == AlertTypeOK /\ HandOK /\ AheadOK /\ QuietOK

PubSteps == {"listing", "creating", "ready", "sending", "failed"}
HandlerSteps == {"absent", "joining", "serving", "sending", "leaving", "left"}

-----------------------------------------------------------------------------
\* Spending from a budget leaves it a number.
LEMMA SpendAlertType ==
  ASSUME alertLeft \in [AlertBudgetKinds -> Nat], NEW k \in AlertBudgetKinds, SpendAlert(k)
  PROVE  alertLeft' \in [AlertBudgetKinds -> Nat]
  BY DEF SpendAlert

\* The topic, once created, has one of its forms.
LEMMA CreatedType ==
  topic \in {{}, {OnePart}, Parts} => Created \in {{}, {OnePart}, Parts}
  BY DEF Created

\* A handler's change of step keeps the types.
LEMMA BecomeType ==
  ASSUME stream \in [Clients -> HandlerSteps], NEW c \in Clients, NEW to \in HandlerSteps,
         NEW from, Become(c, from, to)
  PROVE  stream' \in [Clients -> HandlerSteps]
  BY DEF Become

\* A message at the end of a log.
LEMMA LogAppended ==
  ASSUME impacts \in [Parts -> Seq(Message)], NEW p \in Parts, NEW m \in Message,
         impacts' = [impacts EXCEPT ![p] = Append(@, m)]
  PROVE  /\ impacts' \in [Parts -> Seq(Message)]
         /\ \A q \in Parts : Len(impacts[q]) \in Nat /\ Len(impacts'[q]) >= Len(impacts[q])
         /\ \A q \in Parts : \A k \in 1..Len(impacts[q]) : impacts'[q][k] = impacts[q][k]
         /\ Len(impacts'[p]) = Len(impacts[p]) + 1
         /\ impacts'[p][Len(impacts[p]) + 1] = m
         /\ \A q \in Parts \ {p} : impacts'[q] = impacts[q]
  OBVIOUS

\* The initial states satisfy the invariant.
LEMMA StreamStart == AlertInit => StreamInv
<1> SUFFICES ASSUME AlertInit PROVE StreamInv
  OBVIOUS
<1> USE AlertAssumption DEF AlertInit
<1>1. \A S : <<>> \in Seq(S) /\ Len(<<>>) = 0
  OBVIOUS
<1>2. /\ impacts \in [Parts -> Seq(Message)] /\ buf \in [Clients -> Seq(Alert)]
      /\ taken \in [Clients -> Seq(Alert)]
      /\ \A c \in Clients : Len(buf[c]) <= BufSize
  BY <1>1
<1>3. next \in [Parts -> Nat] /\ first \in [Parts -> Nat] /\ since \in [Clients -> [Parts -> Nat]]
  OBVIOUS
<1>4. AlertTypeOK
  BY <1>2, <1>3 DEF AlertTypeOK
<1>5. HandOK /\ AheadOK /\ QuietOK
  BY <1>1 DEF HandOK, AheadOK, QuietOK
<1> QED BY <1>4, <1>5 DEF StreamInv

\* The steps of a publisher keep to the topic, the log and the publishers.
LEMMA PublisherKeepsStream ==
  ASSUME StreamInv, NEW b \in Publishers, PublisherStep(b)
  PROVE  StreamInv'
<1> USE DEF StreamInv, AlertTypeOK, HandOK, AheadOK, QuietOK, rest, clientVars
<1>1. CASE ListTopics(b)
  BY <1>1 DEF ListTopics, PubBecomes
<1>2. CASE CreateTopic(b)
  BY <1>2, CreatedType DEF CreateTopic, PubBecomes
<1>3. CASE SetupFails(b)
  <2>1. alertLeft' \in [AlertBudgetKinds -> Nat]
    BY <1>3, SpendAlertType DEF SetupFails, AlertBudgetKinds
  <2> QED BY <1>3, <2>1, CreatedType DEF SetupFails, PubBecomes
<1>4. CASE PublishImpact(b)
  <2>1. alertLeft' \in [AlertBudgetKinds -> Nat]
    BY <1>4, SpendAlertType DEF PublishImpact, AlertBudgetKinds
  <2> QED BY <1>4, <2>1 DEF PublishImpact, PubBecomes
<1>5. CASE Appended(b)
  <2>1. PICK p \in PartitionsOf(inHand[b]) :
          impacts' = [impacts EXCEPT ![p] =
                        Append(@, [tag |-> inHand[b], from |-> b, n |-> sent[b]])]
    BY <1>5 DEF Appended
  <2>2. p \in Parts
    BY <1>5, <2>1, AlertAssumption DEF Appended, PartitionsOf
  <2>3. [tag |-> inHand[b], from |-> b, n |-> sent[b]] \in Message
    BY <1>5 DEF Appended, Message
  <2>4. alertLeft' \in [AlertBudgetKinds -> Nat]
    BY <1>5, SpendAlertType DEF Appended, AlertBudgetKinds
  <2>5. /\ impacts' \in [Parts -> Seq(Message)]
        /\ \A q \in Parts : Len(impacts[q]) \in Nat /\ Len(impacts'[q]) >= Len(impacts[q])
        /\ \A q \in Parts : Len(impacts'[q]) \in Nat
    BY <2>1, <2>2, <2>3, LogAppended
  <2>6. AheadOK'
    BY <1>5, <2>5 DEF Appended
  <2>7. HandOK'
    BY <1>5 DEF Appended
  <2> QED BY <1>5, <2>4, <2>5, <2>6, <2>7 DEF Appended
<1>6. CASE PublishFails(b)
  <2>1. alertLeft' \in [AlertBudgetKinds -> Nat]
    BY <1>6, SpendAlertType DEF PublishFails, AlertBudgetKinds
  <2> QED BY <1>6, <2>1 DEF PublishFails, PubBecomes
<1> QED BY <1>1, <1>2, <1>3, <1>4, <1>5, <1>6 DEF PublisherStep

\* The consumer's goroutines move through logs that they do not change.
LEMMA ConsumerKeepsStream ==
  ASSUME StreamInv, RunStep PROVE StreamInv'
<1> USE DEF StreamInv, AlertTypeOK, HandOK, AheadOK, QuietOK, pubVars, clientVars
<1>1. CASE Connect
  <2>1. topic' \in {{}, {OnePart}, Parts}
    BY <1>1 DEF Connect
  <2>2. PICK started \in SUBSET topic' :
          /\ IF started = topic' THEN UNCHANGED alertLeft ELSE SpendAlert("failures")
          /\ run' = IF started = {} THEN "backoff" ELSE "running"
          /\ reader' = [p \in Parts |-> IF p \in started THEN "idle" ELSE "off"]
          /\ next' = [p \in Parts |-> IF p \in started THEN Len(impacts[p]) ELSE next[p]]
          /\ first' = next'
    BY <1>1 DEF Connect
  <2>3. alertLeft' \in [AlertBudgetKinds -> Nat]
    BY <2>2, SpendAlertType DEF AlertBudgetKinds
  <2>4. \A p \in Parts : Len(impacts[p]) \in Nat
    OBVIOUS
  <2>5. next' \in [Parts -> Nat] /\ first' \in [Parts -> Nat]
    BY <2>2, <2>4
  <2>6. AheadOK'
    BY <1>1, <2>2, <2>4 DEF Connect
  <2>7. QuietOK'
    BY <2>2
  <2> QED BY <1>1, <2>1, <2>2, <2>3, <2>5, <2>6, <2>7 DEF Connect
<1>2. CASE Reconnect
  BY <1>2 DEF Reconnect
<1>3. CASE ConsumerStops
  BY <1>3 DEF ConsumerStops
<1> QED BY <1>1, <1>2, <1>3 DEF RunStep

\* What a reader has in hand is an alert.
LEMMA AlertAtType ==
  ASSUME StreamInv, NEW p \in Parts, reader[p] \in {"holding", "publishing"}
  PROVE  AlertAt(p, next[p]) \in Alert
<1>1. next[p] \in Nat /\ next[p] + 1 \in 1..Len(impacts[p])
  BY DEF StreamInv, AlertTypeOK, AheadOK
<1>2. impacts[p][next[p] + 1] \in Message
  BY <1>1, ElementOfSeq DEF StreamInv, AlertTypeOK
<1> QED BY <1>1, <1>2 DEF AlertAt, Alert, Message

\* A partition's reader keeps the invariant,
LEMMA ReaderKeepsStream ==
  ASSUME StreamInv, NEW p \in Parts, ReaderStep(p) \/ ReaderEnds(p) PROVE StreamInv'
<1> USE DEF StreamInv, AlertTypeOK, HandOK, AheadOK, QuietOK, pubVars, clientVars
<1>1. CASE Take(p)
  <2>1. \A q \in Parts : Len(impacts[q]) \in Nat
    OBVIOUS
  <2>2. CASE impacts[p][next[p] + 1].tag = Unreadable
    <3>1. next' = [next EXCEPT ![p] = @ + 1] /\ UNCHANGED reader
      BY <1>1, <2>2 DEF Take
    <3> QED BY <1>1, <2>1, <3>1 DEF Take
  <2>3. CASE impacts[p][next[p] + 1].tag # Unreadable
    <3>1. reader' = [reader EXCEPT ![p] = "holding"] /\ UNCHANGED next
      BY <1>1, <2>3 DEF Take
    <3> QED BY <1>1, <2>1, <3>1 DEF Take
  <2> QED BY <2>2, <2>3
<1>2. CASE StartPublish(p)
  BY <1>2 DEF StartPublish
<1>3. CASE EndPublish(p)
  BY <1>3 DEF EndPublish
<1>4. CASE ReaderEnds(p)
  <2>1. alertLeft' \in [AlertBudgetKinds -> Nat]
    BY <1>4, SpendAlertType DEF ReaderEnds, AlertBudgetKinds
  <2> QED BY <1>4, <2>1 DEF ReaderEnds
<1>5. ASSUME NEW c \in Clients, Offer(p, c) PROVE StreamInv'
  <2>1. AlertAt(p, next[p]) \in Alert
    BY <1>5, AlertAtType DEF Offer
  <2>2. /\ buf' \in [Clients -> Seq(Alert)]
        /\ \A d \in Clients : Len(buf'[d]) <= BufSize
    <3>1. CASE ~HasRoom(c)
      BY <1>5, <3>1 DEF Offer
    <3>2. CASE HasRoom(c)
      <4>1. buf' = [buf EXCEPT ![c] = Append(@, AlertAt(p, next[p]))]
        BY <1>5, <3>2 DEF Offer
      <4>2. /\ Append(buf[c], AlertAt(p, next[p])) \in Seq(Alert)
            /\ Len(Append(buf[c], AlertAt(p, next[p]))) = Len(buf[c]) + 1
        BY <2>1
      <4>3. Len(buf[c]) + 1 <= BufSize
        BY <3>2, AlertAssumption DEF HasRoom
      <4> QED BY <4>1, <4>2, <4>3
    <3> QED BY <3>1, <3>2
  <2>3. offers' \in [Parts -> SUBSET Clients] /\ overflow' \in SUBSET Clients
    BY <1>5 DEF Offer
  <2> QED BY <1>5, <2>2, <2>3 DEF Offer
<1> QED BY <1>1, <1>2, <1>3, <1>4, <1>5 DEF ReaderStep

HandlerNext(c) == HandlerStep(c) \/ Call(c) \/ Filter(c) \/ Send(c) \/ HangUp(c)

\* and so does a client's handler,
LEMMA HandlerKeepsStream ==
  ASSUME StreamInv, NEW c \in Clients, HandlerNext(c) PROVE StreamInv'
<1> USE DEF StreamInv, AlertTypeOK, HandOK, AheadOK, QuietOK, pubVars, kafkaVars, HandlerSteps
<1>1. CASE Subscribe(c)
  BY <1>1, BecomeType DEF Subscribe
<1>2. CASE SeesDone(c)
  BY <1>2, BecomeType DEF SeesDone
<1>3. CASE Unsubscribe(c)
  BY <1>3, BecomeType DEF Unsubscribe
<1>4. CASE Call(c)
  BY <1>4, BecomeType DEF Call
<1>5. CASE Filter(c)
  <2>1. /\ Head(buf[c]) \in Alert
        /\ Tail(buf[c]) \in Seq(Alert) /\ Len(Tail(buf[c])) = Len(buf[c]) - 1
    BY <1>5, HeadTailProperties DEF Filter
  <2>2. buf' \in [Clients -> Seq(Alert)] /\ \A d \in Clients : Len(buf'[d]) <= BufSize
    BY <1>5, <2>1, AlertAssumption DEF Filter
  <2>3. taken' \in [Clients -> Seq(Alert)]
    BY <1>5, <2>1 DEF Filter
  <2>4. stream' \in [Clients -> HandlerSteps]
    BY <1>5 DEF Filter
  <2> QED BY <1>5, <2>2, <2>3, <2>4 DEF Filter
<1>6. CASE Send(c)
  BY <1>6, BecomeType DEF Send
<1>7. CASE HangUp(c)
  BY <1>7 DEF HangUp
<1> QED BY <1>1, <1>2, <1>3, <1>4, <1>5, <1>6, <1>7 DEF HandlerNext, HandlerStep

\* and the shutdown and the garbage in the topic.
LEMMA WorldKeepsStream ==
  ASSUME StreamInv, Signal \/ Stopping \/ Garbage \/ UNCHANGED alertVars PROVE StreamInv'
<1> USE DEF StreamInv, AlertTypeOK, HandOK, AheadOK, QuietOK, pubVars, clientVars
<1>1. CASE Signal
  <2>1. alertLeft' \in [AlertBudgetKinds -> Nat]
    BY <1>1, SpendAlertType DEF Signal, AlertBudgetKinds
  <2> QED BY <1>1, <2>1 DEF Signal, kafkaVars
<1>2. CASE Stopping
  BY <1>2 DEF Stopping, BeginGracefulStop, ServeReturns, kafkaVars
<1>3. CASE Garbage
  <2>1. PICK p \in topic :
          impacts' = [impacts EXCEPT ![p] = Append(@, [tag |-> Unreadable, from |-> NoTag, n |-> 0])]
    BY <1>3 DEF Garbage
  <2>2. p \in Parts
    BY <2>1, AlertAssumption
  <2>3. [tag |-> Unreadable, from |-> NoTag, n |-> 0] \in Message
    BY AlertAssumption DEF Message
  <2>4. alertLeft' \in [AlertBudgetKinds -> Nat]
    BY <1>3, SpendAlertType DEF Garbage, AlertBudgetKinds
  <2>5. /\ impacts' \in [Parts -> Seq(Message)]
        /\ \A q \in Parts : Len(impacts[q]) \in Nat /\ Len(impacts'[q]) >= Len(impacts[q])
        /\ \A q \in Parts : Len(impacts'[q]) \in Nat
    BY <2>1, <2>2, <2>3, LogAppended
  <2>6. AheadOK'
    BY <1>3, <2>5 DEF Garbage
  <2> QED BY <1>3, <2>4, <2>5, <2>6 DEF Garbage
<1>4. CASE UNCHANGED alertVars
  BY <1>4 DEF alertVars, kafkaVars
<1> QED BY <1>1, <1>2, <1>3, <1>4

\* Every step keeps the invariant.
LEMMA StreamStep == StreamInv /\ [AlertNext]_alertVars => StreamInv'
  BY PublisherKeepsStream, ConsumerKeepsStream, ReaderKeepsStream, HandlerKeepsStream,
     WorldKeepsStream DEF AlertNext, HandlerNext

-----------------------------------------------------------------------------
\* The types, and what publishers and readers have in hand, in every reachable state.
THEOREM StreamInvariant == AlertSpec => []StreamInv
  BY StreamStart, StreamStep, PTL DEF AlertSpec

\* Every reachable state of the alert stream has its types.
THEOREM TypeCorrect == AlertSpec => []AlertTypeOK
  BY StreamInvariant, PTL DEF StreamInv

-----------------------------------------------------------------------------
(* The logs: a publisher's messages for a tag are in one partition, in the *)
(* order of its count.                                                     *)

LogOK ==
  \A p \in Parts : \A k \in 1..Len(impacts[p]) :
    /\ impacts[p][k].from = NoTag => impacts[p][k].n = 0
    /\ impacts[p][k].from \in Publishers =>
         p \in PartitionsOf(impacts[p][k].tag) /\ impacts[p][k].n <= sent[impacts[p][k].from]

LogSorted ==
  \A p \in Parts : \A j, k \in 1..Len(impacts[p]) :
    j < k /\ impacts[p][j].from = impacts[p][k].from => impacts[p][j].n <= impacts[p][k].n

LogInv == LogOK /\ LogSorted

\* A tag has one partition.
LEMMA OnePartition ==
  ASSUME topic \in {{}, {OnePart}, Parts}, NEW tag \in Tags,
         NEW p \in PartitionsOf(tag), NEW q \in PartitionsOf(tag)
  PROVE  p = q /\ p \in Parts
  BY AlertAssumption DEF PartitionsOf

\* Without the topic no tag has a partition.
LEMMA NoTopicNoPartition ==
  ASSUME topic = {}, NEW tag \in Tags
  PROVE  PartitionsOf(tag) = {}
  BY AlertAssumption DEF PartitionsOf

\* What a step may do to the logs.
LEMMA LogSteps ==
  ASSUME [AlertNext]_alertVars
  PROVE  \/ UNCHANGED <<topic, impacts, sent>>
         \/ topic = {} /\ UNCHANGED <<impacts, sent>>
         \/ \E b \in Publishers : PublishImpact(b) \/ Appended(b)
         \/ Garbage
<1> USE DEF rest, pubVars, kafkaVars, clientVars
<1>1. ASSUME NEW b \in Publishers, PublisherStep(b), ~PublishImpact(b), ~Appended(b)
      PROVE  UNCHANGED <<topic, impacts, sent>> \/ (topic = {} /\ UNCHANGED <<impacts, sent>>)
  BY <1>1 DEF PublisherStep, ListTopics, CreateTopic, SetupFails, PublishFails, Created
<1>2. RunStep => UNCHANGED <<topic, impacts, sent>> \/ (topic = {} /\ UNCHANGED <<impacts, sent>>)
  BY DEF RunStep, Connect, Reconnect, ConsumerStops
<1>3. ASSUME NEW p \in Parts, ReaderStep(p) \/ ReaderEnds(p)
      PROVE  UNCHANGED <<topic, impacts, sent>>
  BY <1>3 DEF ReaderStep, Take, StartPublish, EndPublish, ReaderEnds, Offer
<1>4. ASSUME NEW c \in Clients, HandlerNext(c)
      PROVE  UNCHANGED <<topic, impacts, sent>>
  BY <1>4 DEF HandlerNext, HandlerStep, Subscribe, SeesDone, Unsubscribe, Send, Call, Filter, HangUp
<1>5. Signal \/ Stopping \/ UNCHANGED alertVars => UNCHANGED <<topic, impacts, sent>>
  BY DEF Signal, Stopping, BeginGracefulStop, ServeReturns, alertVars
<1> QED BY <1>1, <1>2, <1>3, <1>4, <1>5 DEF AlertNext, HandlerNext

\* Initially the logs are empty, and so sorted.
LEMMA LogStart == AlertInit => LogInv
  BY DEF AlertInit, LogInv, LogOK, LogSorted

\* Every step keeps the logs in the order of sending.
LEMMA LogStep == StreamInv /\ LogInv /\ [AlertNext]_alertVars => LogInv'
<1> SUFFICES ASSUME StreamInv, LogInv, [AlertNext]_alertVars PROVE LogInv'
  OBVIOUS
<1>0. /\ impacts \in [Parts -> Seq(Message)] /\ sent \in [Publishers -> Nat]
      /\ topic \in {{}, {OnePart}, Parts}
      /\ \A p \in Parts : Len(impacts[p]) \in Nat
      /\ \A p \in Parts : \A k \in 1..Len(impacts[p]) : impacts[p][k] \in Message
  BY ElementOfSeq DEF StreamInv, AlertTypeOK
<1>1. CASE UNCHANGED <<topic, impacts, sent>>
  BY <1>1 DEF LogInv, LogOK, LogSorted, PartitionsOf
<1>2. CASE topic = {} /\ UNCHANGED <<impacts, sent>>
  <2>1. \A p \in Parts : \A k \in 1..Len(impacts[p]) : impacts[p][k].from \notin Publishers
    BY <1>0, <1>2, NoTopicNoPartition DEF LogInv, LogOK, Message
  <2> QED BY <1>2, <2>1 DEF LogInv, LogOK, LogSorted
<1>3. ASSUME NEW b \in Publishers, PublishImpact(b) PROVE LogInv'
  <2>1. \A d \in Publishers : sent[d] \in Nat /\ sent'[d] \in Nat /\ sent[d] <= sent'[d]
    BY <1>0, <1>3 DEF PublishImpact
  <2>2. UNCHANGED <<topic, impacts>>
    BY <1>3 DEF PublishImpact
  <2>3. \A tag : PartitionsOf(tag)' = PartitionsOf(tag)
    BY <2>2 DEF PartitionsOf
  <2> QED BY <1>0, <2>1, <2>2, <2>3 DEF LogInv, LogOK, LogSorted, Message
<1>4. ASSUME NEW b \in Publishers, Appended(b) PROVE LogInv'
  <2> DEFINE m == [tag |-> inHand[b], from |-> b, n |-> sent[b]]
  <2>1. PICK p \in PartitionsOf(inHand[b]) : impacts' = [impacts EXCEPT ![p] = Append(@, m)]
    BY <1>4 DEF Appended
  <2>2. inHand[b] \in Tags /\ UNCHANGED <<topic, sent>>
    BY <1>4 DEF Appended, StreamInv, HandOK
  <2>3. p \in Parts
    BY <1>0, <2>1, <2>2, OnePartition
  <2>4. m \in Message /\ m.tag = inHand[b] /\ m.from = b /\ m.n = sent[b]
    BY <1>0, <2>2 DEF Message
  <2> HIDE DEF m
  <2>5. /\ \A q \in Parts : \A k \in 1..Len(impacts[q]) : impacts'[q][k] = impacts[q][k]
        /\ Len(impacts'[p]) = Len(impacts[p]) + 1
        /\ impacts'[p][Len(impacts[p]) + 1] = m
        /\ \A q \in Parts \ {p} : impacts'[q] = impacts[q]
    BY <1>0, <2>1, <2>3, <2>4, LogAppended
  <2>6. \A q \in Parts : \A k \in 1..Len(impacts'[q]) :
          k \in 1..Len(impacts[q]) \/ (q = p /\ k = Len(impacts[p]) + 1 /\ impacts'[q][k] = m)
    BY <1>0, <2>5
  <2>7. \A tag : PartitionsOf(tag)' = PartitionsOf(tag)
    BY <2>2 DEF PartitionsOf
  <2>8. b # NoTag
    BY AlertAssumption
  <2>9. LogOK'
    BY <1>0, <2>1, <2>2, <2>4, <2>5, <2>6, <2>7, <2>8 DEF LogInv, LogOK
  <2>10. LogSorted'
    <3> SUFFICES ASSUME NEW q \in Parts, NEW j \in 1..Len(impacts'[q]), NEW k \in 1..Len(impacts'[q]),
                        j < k, impacts'[q][j].from = impacts'[q][k].from
                 PROVE  impacts'[q][j].n <= impacts'[q][k].n
      BY DEF LogSorted
    <3>1. j \in 1..Len(impacts[q]) /\ impacts'[q][j] = impacts[q][j]
      BY <1>0, <2>5, <2>6
    <3>2. CASE k \in 1..Len(impacts[q])
      BY <3>1, <3>2, <2>5 DEF LogInv, LogSorted
    <3>3. CASE k \notin 1..Len(impacts[q])
      <4>1. impacts'[q][k] = m
        BY <3>3, <2>6
      <4> QED BY <3>1, <4>1, <1>0, <2>4 DEF LogInv, LogOK
    <3> QED BY <3>2, <3>3
  <2> QED BY <2>9, <2>10 DEF LogInv
<1>5. CASE Garbage
  <2> DEFINE m == [tag |-> Unreadable, from |-> NoTag, n |-> 0]
  <2>1. PICK p \in topic : impacts' = [impacts EXCEPT ![p] = Append(@, m)]
    BY <1>5 DEF Garbage
  <2>2. p \in Parts /\ UNCHANGED <<topic, sent>>
    BY <1>0, <1>5, AlertAssumption DEF Garbage, pubVars
  <2>3. m \in Message /\ m.from = NoTag /\ m.n = 0 /\ NoTag \notin Publishers
    BY AlertAssumption DEF Message
  <2> HIDE DEF m
  <2>4. /\ \A q \in Parts : \A k \in 1..Len(impacts[q]) : impacts'[q][k] = impacts[q][k]
        /\ Len(impacts'[p]) = Len(impacts[p]) + 1
        /\ impacts'[p][Len(impacts[p]) + 1] = m
        /\ \A q \in Parts \ {p} : impacts'[q] = impacts[q]
    BY <1>0, <2>1, <2>2, <2>3, LogAppended
  <2>5. \A q \in Parts : \A k \in 1..Len(impacts'[q]) :
          k \in 1..Len(impacts[q]) \/ (q = p /\ k = Len(impacts[p]) + 1 /\ impacts'[q][k] = m)
    BY <1>0, <2>4
  <2>6. \A tag : PartitionsOf(tag)' = PartitionsOf(tag)
    BY <2>2 DEF PartitionsOf
  <2>7. LogOK'
    BY <1>0, <2>2, <2>3, <2>4, <2>5, <2>6 DEF LogInv, LogOK
  <2>8. LogSorted'
    <3> SUFFICES ASSUME NEW q \in Parts, NEW j \in 1..Len(impacts'[q]), NEW k \in 1..Len(impacts'[q]),
                        j < k, impacts'[q][j].from = impacts'[q][k].from
                 PROVE  impacts'[q][j].n <= impacts'[q][k].n
      BY DEF LogSorted
    <3>1. j \in 1..Len(impacts[q]) /\ impacts'[q][j] = impacts[q][j]
      BY <1>0, <2>4, <2>5
    <3>2. CASE k \in 1..Len(impacts[q])
      BY <3>1, <3>2, <2>4 DEF LogInv, LogSorted
    <3>3. CASE k \notin 1..Len(impacts[q])
      <4>1. impacts'[q][k] = m
        BY <3>3, <2>5
      <4> QED BY <3>1, <4>1, <1>0, <2>3 DEF LogInv, LogOK
    <3> QED BY <3>2, <3>3
  <2> QED BY <2>7, <2>8 DEF LogInv
<1> QED BY <1>1, <1>2, <1>3, <1>4, <1>5, LogSteps

-----------------------------------------------------------------------------
(* What a client has: alerts of the log that its partition's goroutine has *)
(* passed, or is just publishing, in the order of the log.                 *)

IsInLog(a) ==
  /\ a.offset + 1 \in 1..Len(impacts[a.part])
  /\ impacts[a.part][a.offset + 1].tag = a.tag

HeldOK ==
  \A c \in Clients : \A i \in 1..Len(HeldBack(c)) :
    LET a == HeldBack(c)[i] IN IsInLog(a) /\ Offered(c, a.part, a.offset)

HeldSorted ==
  \A c \in Clients : \A i, j \in 1..Len(HeldBack(c)) :
    i < j /\ HeldBack(c)[i].part = HeldBack(c)[j].part
      => HeldBack(c)[i].offset < HeldBack(c)[j].offset

HeldInv == HeldOK /\ HeldSorted

\* What a client has and what waits for it are alerts.
LEMMA HeldBackType ==
  ASSUME AlertTypeOK, NEW c \in Clients
  PROVE  /\ HeldBack(c) \in Seq(Alert) /\ Len(HeldBack(c)) \in Nat
         /\ DOMAIN HeldBack(c) = 1..Len(HeldBack(c))
         /\ \A i \in 1..Len(HeldBack(c)) : /\ HeldBack(c)[i].part \in Parts
                                           /\ HeldBack(c)[i].offset \in Nat
                                           /\ HeldBack(c)[i].tag \in Tags
<1>1. HeldBack(c) \in Seq(Alert)
  BY ConcatProperties DEF HeldBack, AlertTypeOK
<1>2. \A i \in 1..Len(HeldBack(c)) : HeldBack(c)[i] \in Alert
  BY <1>1, ElementOfSeq
<1> QED BY <1>1, <1>2, LenProperties DEF Alert

\* A step that leaves the channels alone and lets no log or goroutine go back.
LEMMA HeldKept ==
  ASSUME StreamInv, HeldInv,
         \A c \in Clients : HeldBack(c)' = HeldBack(c),
         \A p \in Parts : /\ Len(impacts[p]) \in Nat /\ Len(impacts'[p]) \in Nat
                         /\ Len(impacts'[p]) >= Len(impacts[p])
                         /\ \A k \in 1..Len(impacts[p]) : impacts'[p][k] = impacts[p][k],
         \A c \in Clients, p \in Parts : \A o \in Nat :
           o + 1 \in 1..Len(impacts[p]) /\ Offered(c, p, o) => Offered(c, p, o)'
  PROVE  HeldInv'
<1>1. HeldSorted'
  BY DEF HeldInv, HeldSorted
<1>2. ASSUME NEW c \in Clients, NEW i \in 1..Len(HeldBack(c))
      PROVE  IsInLog(HeldBack(c)[i])' /\ Offered(c, HeldBack(c)[i].part, HeldBack(c)[i].offset)'
  <2> DEFINE a == HeldBack(c)[i]
  <2>1. a.part \in Parts /\ a.offset \in Nat
    BY HeldBackType DEF StreamInv
  <2>2. IsInLog(a) /\ Offered(c, a.part, a.offset)
    BY DEF HeldInv, HeldOK
  <2>3. a' = a
    OBVIOUS
  <2> HIDE DEF a
  <2>4. IsInLog(a)' /\ Offered(c, a.part, a.offset)'
    BY <2>1, <2>2, <2>3 DEF IsInLog
  <2> QED BY <2>4 DEF a
<1>3. HeldOK'
  BY <1>2 DEF HeldOK
<1> QED BY <1>1, <1>3 DEF HeldInv

\* Initially no client holds an alert.
LEMMA HeldStart == AlertInit => HeldInv
<1> SUFFICES ASSUME AlertInit PROVE HeldInv
  OBVIOUS
<1>1. \A c \in Clients : HeldBack(c) = <<>>
  BY DEF AlertInit, HeldBack
<1>2. Len(<<>>) = 0
  OBVIOUS
<1> QED BY <1>1, <1>2 DEF HeldInv, HeldOK, HeldSorted

\* Publishers change nothing of what a client holds or is offered,
LEMMA PublisherKeepsHeld ==
  ASSUME StreamInv, HeldInv, NEW b \in Publishers, PublisherStep(b)
  PROVE  HeldInv'
<1>1. UNCHANGED <<next, reader, offers, buf, taken>>
  BY DEF PublisherStep, ListTopics, CreateTopic, SetupFails, PublishImpact, Appended, PublishFails,
         rest, clientVars
<1>2. \A c \in Clients : HeldBack(c)' = HeldBack(c)
  BY <1>1 DEF HeldBack
<1>3. \A c, p, o : Offered(c, p, o)' = Offered(c, p, o)
  BY <1>1 DEF Offered
<1>4. \A p \in Parts : /\ Len(impacts[p]) \in Nat /\ Len(impacts'[p]) \in Nat
                      /\ Len(impacts'[p]) >= Len(impacts[p])
                      /\ \A k \in 1..Len(impacts[p]) : impacts'[p][k] = impacts[p][k]
  <2>1. CASE Appended(b)
    <3>1. PICK p \in PartitionsOf(inHand[b]) :
            impacts' = [impacts EXCEPT ![p] =
                          Append(@, [tag |-> inHand[b], from |-> b, n |-> sent[b]])]
      BY <2>1 DEF Appended
    <3>2. inHand[b] \in Tags
      BY <2>1 DEF Appended, StreamInv, HandOK
    <3>3. p \in Parts
      BY <3>1, <3>2, OnePartition DEF StreamInv, AlertTypeOK
    <3>4. [tag |-> inHand[b], from |-> b, n |-> sent[b]] \in Message
      BY <3>2 DEF Message, StreamInv, AlertTypeOK
    <3> QED BY <3>1, <3>3, <3>4, LogAppended DEF StreamInv, AlertTypeOK
  <2>2. CASE ~Appended(b)
    <3>1. UNCHANGED impacts
      BY <2>2 DEF PublisherStep, ListTopics, CreateTopic, SetupFails, PublishImpact, PublishFails
    <3> QED BY <3>1 DEF StreamInv, AlertTypeOK
  <2> QED BY <2>1, <2>2
<1> QED BY <1>2, <1>3, <1>4, HeldKept

\* nor do the shutdown and the garbage,
LEMMA WorldKeepsHeld ==
  ASSUME StreamInv, HeldInv, Signal \/ Stopping \/ Garbage \/ UNCHANGED alertVars
  PROVE  HeldInv'
<1>1. UNCHANGED <<next, reader, offers, buf, taken>>
  BY DEF Signal, Stopping, BeginGracefulStop, ServeReturns, Garbage, alertVars, kafkaVars, clientVars
<1>2. \A c \in Clients : HeldBack(c)' = HeldBack(c)
  BY <1>1 DEF HeldBack
<1>3. \A c, p, o : Offered(c, p, o)' = Offered(c, p, o)
  BY <1>1 DEF Offered
<1>4. \A p \in Parts : /\ Len(impacts[p]) \in Nat /\ Len(impacts'[p]) \in Nat
                      /\ Len(impacts'[p]) >= Len(impacts[p])
                      /\ \A k \in 1..Len(impacts[p]) : impacts'[p][k] = impacts[p][k]
  <2>1. CASE Garbage
    <3>1. PICK p \in topic :
            impacts' = [impacts EXCEPT ![p] =
                          Append(@, [tag |-> Unreadable, from |-> NoTag, n |-> 0])]
      BY <2>1 DEF Garbage
    <3>2. p \in Parts
      BY <3>1, AlertAssumption DEF StreamInv, AlertTypeOK
    <3>3. [tag |-> Unreadable, from |-> NoTag, n |-> 0] \in Message
      BY AlertAssumption DEF Message
    <3> QED BY <3>1, <3>2, <3>3, LogAppended DEF StreamInv, AlertTypeOK
  <2>2. CASE ~Garbage
    <3>1. UNCHANGED impacts
      BY <2>2 DEF Signal, Stopping, BeginGracefulStop, ServeReturns, alertVars, kafkaVars
    <3> QED BY <3>1 DEF StreamInv, AlertTypeOK
  <2> QED BY <2>1, <2>2
<1> QED BY <1>2, <1>3, <1>4, HeldKept

\* nor the consumer's sessions.
LEMMA ConsumerKeepsHeld ==
  ASSUME StreamInv, HeldInv, RunStep PROVE HeldInv'
<1>1. UNCHANGED <<impacts, offers, buf, taken>>
  BY DEF RunStep, Connect, Reconnect, ConsumerStops, clientVars
<1>2. \A c \in Clients : HeldBack(c)' = HeldBack(c)
  BY <1>1 DEF HeldBack
<1>3. \A p \in Parts : Len(impacts[p]) \in Nat /\ next[p] \in Nat /\ next[p] <= Len(impacts[p])
  BY DEF StreamInv, AlertTypeOK, AheadOK
<1>4. ASSUME NEW c \in Clients, NEW p \in Parts, NEW o \in Nat,
             o + 1 \in 1..Len(impacts[p]), Offered(c, p, o)
      PROVE  Offered(c, p, o)'
  <2>1. CASE Connect
    <3>1. reader[p] = "off"
      BY <2>1 DEF Connect, StreamInv, QuietOK
    <3>2. o < next[p]
      BY <1>4, <3>1 DEF Offered
    <3>3. next'[p] \in {next[p], Len(impacts[p])}
      BY <2>1 DEF Connect
    <3> QED BY <1>3, <3>2, <3>3 DEF Offered
  <2>2. CASE Reconnect \/ ConsumerStops
    BY <1>4, <2>2 DEF Reconnect, ConsumerStops, Offered
  <2> QED BY <2>1, <2>2 DEF RunStep
<1> QED BY <1>1, <1>2, <1>3, <1>4, HeldKept

\* Adding to the buffer adds to what a client holds.
LEMMA AddedAtEnd ==
  ASSUME NEW S, NEW s \in Seq(S), NEW t \in Seq(S), NEW e \in S
  PROVE  s \o Append(t, e) = Append(s \o t, e)
  BY AppendIsConcat, ConcatAssociative, ConcatProperties

\* An alert offered to a client is younger than what it has of the partition.
LEMMA OfferKeepsHeld ==
  ASSUME StreamInv, HeldInv, NEW p \in Parts, NEW c \in Clients, Offer(p, c)
  PROVE  HeldInv'
<1> DEFINE a == AlertAt(p, next[p])
           P(d, q, o) == \/ o < next[q]
                         \/ o = next[q] /\ reader[q] = "publishing" /\ d \notin offers'[q]
<1>1. /\ reader[p] = "publishing" /\ c \in offers[p]
      /\ UNCHANGED <<impacts, next, reader, taken>>
      /\ offers' = [offers EXCEPT ![p] = @ \ {c}]
  BY DEF Offer
<1>2. /\ a \in Alert /\ a.part = p /\ a.offset = next[p]
      /\ a.tag = impacts[p][next[p] + 1].tag
  BY <1>1, AlertAtType DEF AlertAt
<1>3. IsInLog(a)
  BY <1>1, <1>2 DEF IsInLog, StreamInv, AlertTypeOK, AheadOK
<1> HIDE DEF a
<1>4. \A d \in Clients, q \in Parts : \A o \in Nat : Offered(d, q, o) => P(d, q, o)
  BY <1>1 DEF Offered, StreamInv, AlertTypeOK
<1>5. P(c, p, next[p])
  BY <1>1 DEF StreamInv, AlertTypeOK
<1> HIDE DEF P
<1>6. \A d \in Clients : HeldBack(d)' = HeldBack(d) \/ (d = c /\ HeldBack(d)' = Append(HeldBack(d), a))
  <2>1. CASE ~HasRoom(c)
    BY <1>1, <2>1 DEF Offer, HeldBack
  <2>2. CASE HasRoom(c)
    <3>1. buf' = [buf EXCEPT ![c] = Append(@, a)]
      BY <2>2 DEF Offer, a
    <3>2. \A d \in Clients \ {c} : HeldBack(d)' = HeldBack(d)
      BY <1>1, <3>1 DEF HeldBack, StreamInv, AlertTypeOK
    <3>3. buf'[c] = Append(buf[c], a) /\ buf[c] \in Seq(Alert) /\ taken[c] \in Seq(Alert)
      BY <3>1 DEF StreamInv, AlertTypeOK
    <3>4. taken[c] \o Append(buf[c], a) = Append(taken[c] \o buf[c], a)
      <4>1. buf[c] \in Seq(Alert) /\ taken[c] \in Seq(Alert) /\ a \in Alert
        BY <1>2, <3>3
      <4>2. \A s, t \in Seq(Alert) : \A e \in Alert : s \o Append(t, e) = Append(s \o t, e)
        BY AddedAtEnd
      <4> QED BY <4>1, <4>2
    <3> QED BY <1>1, <3>2, <3>3, <3>4 DEF HeldBack
  <2> QED BY <2>1, <2>2
<1>7. ASSUME NEW d \in Clients, NEW g, g = HeldBack(d)'
      PROVE  /\ \A i \in 1..Len(g) : IsInLog(g[i]) /\ P(d, g[i].part, g[i].offset)
             /\ \A i, j \in 1..Len(g) : i < j /\ g[i].part = g[j].part => g[i].offset < g[j].offset
  <2> DEFINE h == HeldBack(d)
  <2>1. /\ h \in Seq(Alert) /\ Len(h) \in Nat
        /\ \A i \in 1..Len(h) : h[i].part \in Parts /\ h[i].offset \in Nat
    BY HeldBackType DEF StreamInv
  <2>2. /\ \A i \in 1..Len(h) : IsInLog(h[i]) /\ Offered(d, h[i].part, h[i].offset)
        /\ \A i, j \in 1..Len(h) : i < j /\ h[i].part = h[j].part => h[i].offset < h[j].offset
    BY DEF HeldInv, HeldOK, HeldSorted
  <2>3. g = h \/ (d = c /\ g = Append(h, a))
    BY <1>6, <1>7
  <2> HIDE DEF h
  <2>4. \A i \in 1..Len(h) : P(d, h[i].part, h[i].offset)
    BY <1>4, <2>1, <2>2
  <2>5. CASE g = h
    BY <2>2, <2>4, <2>5
  <2>6. CASE d = c /\ g = Append(h, a)
    <3>1. /\ Len(g) = Len(h) + 1
          /\ g[Len(h) + 1] = a
          /\ \A i \in 1..Len(h) : g[i] = h[i]
      BY <1>2, <2>1, <2>6
    <3>2. \A i \in 1..Len(h) : h[i].part = p => h[i].offset < next[p]
      BY <1>1, <2>2, <2>6 DEF Offered
    <3>3. \A i \in 1..Len(g) : i \in 1..Len(h) \/ i = Len(h) + 1
      BY <2>1, <3>1
    <3>4. IsInLog(a) /\ P(d, a.part, a.offset)
      BY <1>2, <1>3, <1>5, <2>6
    <3>5. \A i \in 1..Len(g) : IsInLog(g[i]) /\ P(d, g[i].part, g[i].offset)
      <4> SUFFICES ASSUME NEW i \in 1..Len(g)
                   PROVE  IsInLog(g[i]) /\ P(d, g[i].part, g[i].offset)
        OBVIOUS
      <4>1. CASE i \in 1..Len(h)
        BY <2>2, <2>4, <3>1, <4>1
      <4>2. CASE i = Len(h) + 1
        BY <3>1, <3>4, <4>2
      <4> QED BY <3>3, <4>1, <4>2
    <3>6. \A i, j \in 1..Len(g) : i < j /\ g[i].part = g[j].part => g[i].offset < g[j].offset
      BY <1>2, <2>1, <2>2, <3>1, <3>2, <3>3
    <3> QED BY <3>5, <3>6
  <2> QED BY <2>3, <2>5, <2>6
<1>8. HeldSorted'
  BY <1>7 DEF HeldSorted
<1>9. HeldOK'
  BY <1>1, <1>7 DEF HeldOK, IsInLog, Offered, P
<1> QED BY <1>8, <1>9 DEF HeldInv

\* A reader keeps what clients hold in the order of the partitions.
LEMMA ReaderKeepsHeld ==
  ASSUME StreamInv, HeldInv, NEW p \in Parts, ReaderStep(p) \/ ReaderEnds(p)
  PROVE  HeldInv'
<1>1. CASE \E c \in Clients : Offer(p, c)
  BY <1>1, OfferKeepsHeld
<1>2. CASE Take(p) \/ StartPublish(p) \/ EndPublish(p) \/ ReaderEnds(p)
  <2>1. UNCHANGED <<impacts, buf, taken>>
    BY <1>2 DEF Take, StartPublish, EndPublish, ReaderEnds, clientVars
  <2>2. \A c \in Clients : HeldBack(c)' = HeldBack(c)
    BY <2>1 DEF HeldBack
  <2>3. \A q \in Parts : Len(impacts[q]) \in Nat /\ next[q] \in Nat
    BY DEF StreamInv, AlertTypeOK
  <2>4. ASSUME NEW c \in Clients, NEW q \in Parts, NEW o \in Nat, Offered(c, q, o)
        PROVE  Offered(c, q, o)'
    <3>1. CASE Take(p)
      <4>1. CASE impacts[p][next[p] + 1].tag = Unreadable
        <5>1. next' = [next EXCEPT ![p] = @ + 1] /\ UNCHANGED <<reader, offers>>
          BY <3>1, <4>1 DEF Take
        <5> QED BY <2>3, <2>4, <5>1 DEF Offered, StreamInv, AlertTypeOK
      <4>2. CASE impacts[p][next[p] + 1].tag # Unreadable
        <5>1. /\ reader' = [reader EXCEPT ![p] = "holding"] /\ reader[p] = "idle"
              /\ UNCHANGED <<next, offers>>
          BY <3>1, <4>2 DEF Take
        <5> QED BY <2>4, <5>1 DEF Offered, StreamInv, AlertTypeOK
      <4> QED BY <4>1, <4>2
    <3>2. CASE StartPublish(p)
      BY <2>4, <3>2 DEF StartPublish, Offered, StreamInv, AlertTypeOK
    <3>3. CASE EndPublish(p)
      BY <2>3, <2>4, <3>3 DEF EndPublish, Offered, StreamInv, AlertTypeOK
    <3>4. CASE ReaderEnds(p)
      BY <2>4, <3>4 DEF ReaderEnds, Offered, StreamInv, AlertTypeOK
    <3> QED BY <1>2, <3>1, <3>2, <3>3, <3>4
  <2> QED BY <2>1, <2>2, <2>3, <2>4, HeldKept
<1> QED BY <1>1, <1>2 DEF ReaderStep

\* Moving an element from the head of one sequence to the end of another before it.
LEMMA MovedAlong ==
  ASSUME NEW S, NEW s \in Seq(S), NEW t \in Seq(S), t # <<>>
  PROVE  Append(s, Head(t)) \o Tail(t) = s \o t
<1> DEFINE u == Append(s, Head(t)) \o Tail(t)
<1>1. /\ Head(t) \in S /\ Tail(t) \in Seq(S) /\ Len(Tail(t)) = Len(t) - 1
      /\ \A i \in 1..Len(Tail(t)) : Tail(t)[i] = t[i + 1]
      /\ Head(t) = t[1] /\ Len(t) \in Nat \ {0} /\ Len(s) \in Nat
  BY HeadTailProperties, EmptySeq
<1>2. /\ Append(s, Head(t)) \in Seq(S) /\ Len(Append(s, Head(t))) = Len(s) + 1
      /\ \A i \in 1..Len(s) : Append(s, Head(t))[i] = s[i]
      /\ Append(s, Head(t))[Len(s) + 1] = Head(t)
  BY <1>1
<1>3. /\ u \in Seq(S) /\ Len(u) = Len(s) + Len(t)
      /\ \A i \in 1..Len(s) + Len(t) : u[i] = IF i <= Len(s) + 1 THEN Append(s, Head(t))[i]
                                              ELSE Tail(t)[i - (Len(s) + 1)]
  BY <1>1, <1>2, ConcatProperties
<1>4. /\ s \o t \in Seq(S) /\ Len(s \o t) = Len(s) + Len(t)
      /\ \A i \in 1..Len(s) + Len(t) : (s \o t)[i] = IF i <= Len(s) THEN s[i] ELSE t[i - Len(s)]
  BY ConcatProperties
<1> HIDE DEF u
<1>5. \A i \in 1..Len(u) : u[i] = (s \o t)[i]
  <2> SUFFICES ASSUME NEW i \in 1..Len(s) + Len(t) PROVE u[i] = (s \o t)[i]
    BY <1>3
  <2>1. CASE i <= Len(s)
    BY <1>1, <1>2, <1>3, <1>4, <2>1
  <2>2. CASE i = Len(s) + 1
    BY <1>1, <1>2, <1>3, <1>4, <2>2
  <2>3. CASE i > Len(s) + 1
    <3>1. i - (Len(s) + 1) \in 1..Len(Tail(t)) /\ (i - (Len(s) + 1)) + 1 = i - Len(s)
      BY <1>1, <2>3
    <3> QED BY <1>1, <1>3, <1>4, <2>3, <3>1
  <2> QED BY <1>1, <2>1, <2>2, <2>3
<1>6. u = s \o t
  BY <1>3, <1>4, <1>5, SeqEqual
<1> QED BY <1>6 DEF u

\* Taking an alert off the channel leaves what the client has.
LEMMA HandlerKeepsBack ==
  ASSUME StreamInv, NEW c \in Clients, HandlerNext(c)
  PROVE  \A d \in Clients : HeldBack(d)' = HeldBack(d)
<1>1. CASE Filter(c)
  <2>1. /\ buf[c] # <<>> /\ buf' = [buf EXCEPT ![c] = Tail(@)]
        /\ taken' = [taken EXCEPT ![c] = Append(@, Head(buf[c]))]
    BY <1>1 DEF Filter
  <2>2. buf[c] \in Seq(Alert) /\ taken[c] \in Seq(Alert)
    BY DEF StreamInv, AlertTypeOK
  <2>3. buf'[c] = Tail(buf[c]) /\ taken'[c] = Append(taken[c], Head(buf[c]))
    BY <2>1 DEF StreamInv, AlertTypeOK
  <2>4. HeldBack(c)' = HeldBack(c)
    BY <2>1, <2>2, <2>3, MovedAlong DEF HeldBack
  <2>5. \A d \in Clients \ {c} : HeldBack(d)' = HeldBack(d)
    BY <2>1 DEF HeldBack, StreamInv, AlertTypeOK
  <2> QED BY <2>4, <2>5
<1>2. CASE ~Filter(c)
  <2>1. UNCHANGED <<buf, taken>>
    BY <1>2 DEF HandlerNext, HandlerStep, Subscribe, SeesDone, Unsubscribe, Send, Call, HangUp
  <2> QED BY <2>1 DEF HeldBack
<1> QED BY <1>1, <1>2

\* A handler moves what it holds along, in order.
LEMMA HandlerKeepsHeld ==
  ASSUME StreamInv, HeldInv, NEW c \in Clients, HandlerNext(c)
  PROVE  HeldInv'
<1>1. UNCHANGED <<impacts, next, reader, offers>>
  BY DEF HandlerNext, HandlerStep, Subscribe, SeesDone, Unsubscribe, Send, Call, Filter, HangUp,
         kafkaVars
<1>2. \A d \in Clients : HeldBack(d)' = HeldBack(d)
  BY HandlerKeepsBack
<1>3. \A d, p, o : Offered(d, p, o)' = Offered(d, p, o)
  BY <1>1 DEF Offered
<1>4. \A p \in Parts : Len(impacts[p]) \in Nat
  BY DEF StreamInv, AlertTypeOK
<1> QED BY <1>1, <1>2, <1>3, <1>4, HeldKept

\* Every step keeps what clients hold in the order of the partitions.
LEMMA HeldStep == StreamInv /\ HeldInv /\ [AlertNext]_alertVars => HeldInv'
  BY PublisherKeepsHeld, ConsumerKeepsHeld, ReaderKeepsHeld, HandlerKeepsHeld, WorldKeepsHeld
  DEF AlertNext, HandlerNext

-----------------------------------------------------------------------------
\* With logs in the order of sending, clients hold alerts in that order.
LEMMA HeldInOrder == StreamInv /\ LogInv /\ HeldInv => InSendOrder
<1> SUFFICES ASSUME StreamInv, LogInv, HeldInv, NEW c \in Clients,
                    NEW i \in DOMAIN HeldBack(c), NEW j \in DOMAIN HeldBack(c), i < j
             PROVE  LET a == HeldBack(c)[i]  b == HeldBack(c)[j] IN
                      /\ a.part = b.part => a.offset < b.offset
                      /\ a.tag = b.tag /\ SentAs(a).from = SentAs(b).from
                           => SentAs(a).n <= SentAs(b).n
  BY DEF InSendOrder
<1> DEFINE a == HeldBack(c)[i]
           b == HeldBack(c)[j]
           k == a.offset + 1
           l == b.offset + 1
<1>1. i \in 1..Len(HeldBack(c)) /\ j \in 1..Len(HeldBack(c))
  BY HeldBackType DEF StreamInv
<1>2. /\ a.part \in Parts /\ a.offset \in Nat /\ a.tag \in Tags
      /\ b.part \in Parts /\ b.offset \in Nat /\ b.tag \in Tags
  BY <1>1, HeldBackType DEF StreamInv
<1>3. /\ k \in 1..Len(impacts[a.part]) /\ impacts[a.part][k].tag = a.tag
      /\ l \in 1..Len(impacts[b.part]) /\ impacts[b.part][l].tag = b.tag
  BY <1>1 DEF HeldInv, HeldOK, IsInLog
<1>4. a.part = b.part => a.offset < b.offset
  BY <1>1 DEF HeldInv, HeldSorted
<1> HIDE DEF a, b
<1>5. SentAs(a) \in Message /\ SentAs(b) \in Message
  BY <1>2, <1>3, ElementOfSeq DEF SentAs, StreamInv, AlertTypeOK
<1>6. ASSUME a.tag = b.tag, SentAs(a).from = SentAs(b).from PROVE SentAs(a).n <= SentAs(b).n
  <2>1. CASE SentAs(a).from = NoTag
    <3>1. SentAs(a).n = 0
      BY <1>2, <1>3, <2>1 DEF LogInv, LogOK, SentAs
    <3>2. SentAs(b).n = 0
      BY <1>2, <1>3, <1>6, <2>1 DEF LogInv, LogOK, SentAs
    <3> QED BY <3>1, <3>2
  <2>2. CASE SentAs(a).from \in Publishers
    <3>1. a.part \in PartitionsOf(a.tag) /\ b.part \in PartitionsOf(a.tag)
      BY <1>2, <1>3, <1>6, <2>2 DEF LogInv, LogOK, SentAs
    <3>2. a.part = b.part
      BY <1>2, <3>1, OnePartition DEF StreamInv, AlertTypeOK
    <3>3. k < l
      BY <1>2, <1>4, <3>2
    <3> QED BY <1>2, <1>3, <1>6, <3>2, <3>3 DEF LogInv, LogSorted, SentAs
  <2> QED BY <1>5, <2>1, <2>2 DEF Message
<1> QED BY <1>4, <1>6 DEF a, b

\* For any number of processors, partitions, clients and stations, and whatever is
\* lost, sent again, dropped for a full buffer or closed, a client never sees a
\* processor's alerts of a station out of order, nor a message twice (kafka.go:37
\* keys by station, alerts.go:127 reads a partition by one goroutine).
THEOREM AlertsInSendOrder == AlertSpec => []InSendOrder
<1>1. StreamInv /\ LogInv /\ HeldInv /\ [AlertNext]_alertVars => StreamInv' /\ LogInv' /\ HeldInv'
  BY StreamStep, LogStep, HeldStep
<1>2. AlertInit => StreamInv /\ LogInv /\ HeldInv
  BY StreamStart, LogStart, HeldStart
<1> QED BY <1>1, <1>2, HeldInOrder, PTL DEF AlertSpec

-----------------------------------------------------------------------------
(* Nothing is lost but to a full buffer.                                   *)

\* An alert that a subscriber should have.
Owed(c, p, o) ==
  /\ c \in subs \ overflow
  /\ o \in since[c][p]..(Len(impacts[p]) - 1) /\ o >= first[p]
  /\ impacts[p][o + 1].tag # Unreadable
  /\ Offered(c, p, o)

Has(c, p, o) == \E i \in DOMAIN HeldBack(c) : HeldBack(c)[i] = AlertAt(p, o)

\* A step that takes nothing from a client and owes it nothing that it does not get.
LEMMA LossesKept ==
  ASSUME StreamInv, StreamInv', OnlyOverflowLoses,
         \A c \in Clients, p \in Parts : \A o \in Nat : Owed(c, p, o)' => Owed(c, p, o) \/ Has(c, p, o)',
         \A c \in Clients, x \in Alert :
           (\E i \in DOMAIN HeldBack(c) : HeldBack(c)[i] = x)
             => \E i \in DOMAIN HeldBack(c)' : HeldBack(c)'[i] = x,
         \A p \in Parts : \A k \in 1..Len(impacts[p]) : impacts'[p][k] = impacts[p][k]
  PROVE  OnlyOverflowLoses'
<1> SUFFICES ASSUME NEW c \in Clients, NEW p \in Parts, NEW o \in Nat, Owed(c, p, o)'
             PROVE  Has(c, p, o)'
  BY DEF OnlyOverflowLoses, Owed, Has, StreamInv, AlertTypeOK
<1>1. CASE Owed(c, p, o)
  <2>1. o + 1 \in 1..Len(impacts[p]) /\ impacts[p][o + 1] \in Message
    BY <1>1, ElementOfSeq DEF Owed, StreamInv, AlertTypeOK
  <2>2. AlertAt(p, o) \in Alert /\ AlertAt(p, o)' = AlertAt(p, o)
    BY <2>1 DEF AlertAt, Alert, Message
  <2>3. \E i \in DOMAIN HeldBack(c) : HeldBack(c)[i] = AlertAt(p, o)
    BY <1>1 DEF OnlyOverflowLoses, Owed
  <2> QED BY <2>2, <2>3 DEF Has
<1> QED BY <1>1

\* Initially nothing is lost.
LEMMA LossesStart == AlertInit => OnlyOverflowLoses
  BY DEF AlertInit, OnlyOverflowLoses

\* What publishers add is still to be read.
LEMMA PublisherKeepsLosses ==
  ASSUME StreamInv, StreamInv', OnlyOverflowLoses,
         (\E b \in Publishers : PublisherStep(b)) \/ Signal \/ Stopping \/ Garbage
           \/ UNCHANGED alertVars
  PROVE  OnlyOverflowLoses'
<1>1. UNCHANGED <<next, first, reader, offers, subs, since, buf, taken, overflow>>
  BY DEF PublisherStep, ListTopics, CreateTopic, SetupFails, PublishImpact, Appended, PublishFails,
         rest, Signal, Stopping, BeginGracefulStop, ServeReturns, Garbage, alertVars, kafkaVars,
         clientVars
<1>2. \A c \in Clients : HeldBack(c)' = HeldBack(c)
  BY <1>1 DEF HeldBack
<1>3. \A p \in Parts : /\ Len(impacts[p]) \in Nat
                      /\ \A k \in 1..Len(impacts[p]) : impacts'[p][k] = impacts[p][k]
  <2>1. ASSUME NEW b \in Publishers, Appended(b)
        PROVE  \A p \in Parts : \A k \in 1..Len(impacts[p]) : impacts'[p][k] = impacts[p][k]
    <3>1. PICK p \in PartitionsOf(inHand[b]) :
            impacts' = [impacts EXCEPT ![p] =
                          Append(@, [tag |-> inHand[b], from |-> b, n |-> sent[b]])]
      BY <2>1 DEF Appended
    <3>2. inHand[b] \in Tags
      BY <2>1 DEF Appended, StreamInv, HandOK
    <3>3. p \in Parts
      BY <3>1, <3>2, OnePartition DEF StreamInv, AlertTypeOK
    <3>4. [tag |-> inHand[b], from |-> b, n |-> sent[b]] \in Message
      BY <3>2 DEF Message, StreamInv, AlertTypeOK
    <3> QED BY <3>1, <3>3, <3>4, LogAppended DEF StreamInv, AlertTypeOK
  <2>2. CASE Garbage
    <3>1. PICK p \in topic :
            impacts' = [impacts EXCEPT ![p] =
                          Append(@, [tag |-> Unreadable, from |-> NoTag, n |-> 0])]
      BY <2>2 DEF Garbage
    <3>2. p \in Parts
      BY <3>1, AlertAssumption DEF StreamInv, AlertTypeOK
    <3>3. [tag |-> Unreadable, from |-> NoTag, n |-> 0] \in Message
      BY AlertAssumption DEF Message
    <3> QED BY <3>1, <3>2, <3>3, LogAppended DEF StreamInv, AlertTypeOK
  <2>3. CASE ~Garbage /\ ~(\E b \in Publishers : Appended(b))
    <3>1. UNCHANGED impacts
      BY <2>3 DEF PublisherStep, ListTopics, CreateTopic, SetupFails, PublishImpact, PublishFails,
                  Signal, Stopping, BeginGracefulStop, ServeReturns, alertVars, kafkaVars
    <3> QED BY <3>1 DEF StreamInv, AlertTypeOK
  <2>4. \A p \in Parts : Len(impacts[p]) \in Nat
    BY DEF StreamInv, AlertTypeOK
  <2> QED BY <2>1, <2>2, <2>3, <2>4
<1>4. ASSUME NEW c \in Clients, NEW p \in Parts, NEW o \in Nat, Owed(c, p, o)'
      PROVE  Owed(c, p, o)
  <2>1. Offered(c, p, o) /\ o < Len(impacts[p])
    BY <1>1, <1>3, <1>4 DEF Owed, Offered, StreamInv, AheadOK, AlertTypeOK
  <2>2. impacts'[p][o + 1] = impacts[p][o + 1]
    BY <1>3, <2>1
  <2> QED BY <1>1, <1>3, <1>4, <2>1, <2>2 DEF Owed, StreamInv, AlertTypeOK
<1> QED BY <1>2, <1>3, <1>4, LossesKept

\* A session starts its partitions at their newest offsets.
LEMMA ConsumerKeepsLosses ==
  ASSUME StreamInv, StreamInv', OnlyOverflowLoses, RunStep PROVE OnlyOverflowLoses'
<1>1. UNCHANGED <<impacts, offers, subs, since, buf, taken, overflow>>
  BY DEF RunStep, Connect, Reconnect, ConsumerStops, clientVars
<1>2. \A c \in Clients : HeldBack(c)' = HeldBack(c)
  BY <1>1 DEF HeldBack
<1>3. \A p \in Parts : Len(impacts[p]) \in Nat /\ next[p] \in Nat
  BY DEF StreamInv, AlertTypeOK
<1>4. ASSUME NEW c \in Clients, NEW p \in Parts, NEW o \in Nat, Owed(c, p, o)'
      PROVE  Owed(c, p, o)
  <2>1. CASE Connect
    <3>1. reader'[p] \in {"idle", "off"} /\ first' = next' /\ next'[p] \in Nat
      BY <2>1 DEF Connect, StreamInv, AlertTypeOK
    <3> QED BY <1>4, <3>1 DEF Owed, Offered
  <2>2. CASE Reconnect \/ ConsumerStops
    BY <1>1, <1>4, <2>2 DEF Reconnect, ConsumerStops, Owed, Offered
  <2> QED BY <2>1, <2>2 DEF RunStep
<1> QED BY <1>1, <1>2, <1>4, LossesKept

\* The alert goes to the channel, or the client's buffer is full.
LEMMA OfferKeepsLosses ==
  ASSUME StreamInv, StreamInv', OnlyOverflowLoses, NEW p \in Parts, NEW c \in Clients, Offer(p, c)
  PROVE  OnlyOverflowLoses'
<1> DEFINE a == AlertAt(p, next[p])
<1>1. /\ reader[p] = "publishing" /\ c \in offers[p]
      /\ UNCHANGED <<impacts, next, first, reader, subs, since, taken>>
      /\ offers' = [offers EXCEPT ![p] = @ \ {c}]
  BY DEF Offer
<1>2. a \in Alert /\ a' = a
  BY <1>1, AlertAtType DEF AlertAt
<1>3. \A d \in Clients : /\ HeldBack(d) \in Seq(Alert) /\ Len(HeldBack(d)) \in Nat
                        /\ DOMAIN HeldBack(d) = 1..Len(HeldBack(d))
  BY HeldBackType DEF StreamInv
<1> HIDE DEF a
<1>4. CASE ~HasRoom(c)
  <2>1. UNCHANGED buf /\ overflow' = overflow \cup {c}
    BY <1>4 DEF Offer
  <2>2. \A d \in Clients : HeldBack(d)' = HeldBack(d)
    BY <1>1, <2>1 DEF HeldBack
  <2>3. \A d \in Clients, q \in Parts : \A o \in Nat : Owed(d, q, o)' => Owed(d, q, o)
    BY <1>1, <2>1 DEF Owed, Offered, StreamInv, AlertTypeOK
  <2> QED BY <1>1, <2>2, <2>3, LossesKept
<1>5. CASE HasRoom(c)
  <2>1. buf' = [buf EXCEPT ![c] = Append(@, a)] /\ UNCHANGED overflow
    BY <1>5 DEF Offer, a
  <2>2. \A d \in Clients \ {c} : HeldBack(d)' = HeldBack(d)
    BY <1>1, <2>1 DEF HeldBack, StreamInv, AlertTypeOK
  <2>3. HeldBack(c)' = Append(HeldBack(c), a)
    <3>1. buf'[c] = Append(buf[c], a) /\ buf[c] \in Seq(Alert) /\ taken[c] \in Seq(Alert)
      BY <2>1 DEF StreamInv, AlertTypeOK
    <3>2. \A s, t \in Seq(Alert) : \A e \in Alert : s \o Append(t, e) = Append(s \o t, e)
      BY AddedAtEnd
    <3>3. taken[c] \o Append(buf[c], a) = Append(taken[c] \o buf[c], a)
      BY <1>2, <3>1, <3>2
    <3> QED BY <1>1, <3>1, <3>3 DEF HeldBack
  <2>4. /\ DOMAIN Append(HeldBack(c), a) = 1..Len(HeldBack(c)) + 1
        /\ Append(HeldBack(c), a)[Len(HeldBack(c)) + 1] = a
        /\ \A i \in 1..Len(HeldBack(c)) : Append(HeldBack(c), a)[i] = HeldBack(c)[i]
    BY <1>2, <1>3
  <2>5. Has(c, p, next[p])'
    <3>1. AlertAt(p, next[p])' = a
      BY <1>2 DEF a
    <3>2. Len(HeldBack(c)) + 1 \in DOMAIN HeldBack(c)'
          /\ HeldBack(c)'[Len(HeldBack(c)) + 1] = a
      BY <1>3, <2>3, <2>4
    <3>3. \E i \in DOMAIN HeldBack(c)' : HeldBack(c)'[i] = AlertAt(p, next[p])'
      BY <3>1, <3>2
    <3> QED BY <3>3 DEF Has
  <2>6. \A d \in Clients, x \in Alert :
          (\E i \in DOMAIN HeldBack(d) : HeldBack(d)[i] = x)
            => \E i \in DOMAIN HeldBack(d)' : HeldBack(d)'[i] = x
    BY <1>3, <2>2, <2>3, <2>4
  <2>7. ASSUME NEW d \in Clients, NEW q \in Parts, NEW o \in Nat, Owed(d, q, o)'
        PROVE  Owed(d, q, o) \/ Has(d, q, o)'
    <3>1. CASE d = c /\ q = p /\ o = next[p]
      <4>1. next'[p] = next[p]
        BY <1>1
      <4>2. \A n : n = next[p] => (Has(c, p, n)' <=> \E i \in DOMAIN HeldBack(c)' : HeldBack(c)'[i] = a)
        BY <1>1, <1>2 DEF Has, AlertAt, a
      <4> QED BY <1>1, <2>3, <2>4, <1>3, <3>1, <4>2
    <3>2. CASE ~(d = c /\ q = p /\ o = next[p])
      BY <1>1, <2>1, <2>7, <3>2 DEF Owed, Offered, StreamInv, AlertTypeOK
    <3> QED BY <3>1, <3>2
  <2> QED BY <1>1, <2>6, <2>7, LossesKept
<1> QED BY <1>4, <1>5

\* A reader offers what it reads to every subscriber before it moves on.
LEMMA ReaderKeepsLosses ==
  ASSUME StreamInv, StreamInv', OnlyOverflowLoses, NEW p \in Parts, ReaderStep(p) \/ ReaderEnds(p)
  PROVE  OnlyOverflowLoses'
<1>1. CASE \E c \in Clients : Offer(p, c)
  BY <1>1, OfferKeepsLosses
<1>2. CASE Take(p) \/ StartPublish(p) \/ EndPublish(p) \/ ReaderEnds(p)
  <2>1. UNCHANGED <<impacts, first, subs, since, buf, taken, overflow>>
    BY <1>2 DEF Take, StartPublish, EndPublish, ReaderEnds, clientVars
  <2>2. \A c \in Clients : HeldBack(c)' = HeldBack(c)
    BY <2>1 DEF HeldBack
  <2>3. \A q \in Parts : Len(impacts[q]) \in Nat /\ next[q] \in Nat
    BY DEF StreamInv, AlertTypeOK
  <2>4. ASSUME NEW c \in Clients, NEW q \in Parts, NEW o \in Nat, Owed(c, q, o)'
        PROVE  Offered(c, q, o)
    <3>0. Offered(c, q, o)' /\ c \in subs /\ impacts[q][o + 1].tag # Unreadable
      BY <2>1, <2>4 DEF Owed
    <3>1. CASE Take(p)
      <4>1. CASE impacts[p][next[p] + 1].tag = Unreadable
        <5>1. next' = [next EXCEPT ![p] = @ + 1] /\ UNCHANGED <<reader, offers>>
              /\ reader[p] = "idle"
          BY <3>1, <4>1 DEF Take
        <5>2. CASE q = p
          <6>1. o < next[p] + 1 /\ o # next[p]
            BY <2>3, <3>0, <4>1, <5>1, <5>2 DEF Offered, StreamInv, AlertTypeOK
          <6> QED BY <2>3, <5>2, <6>1 DEF Offered
        <5>3. CASE q # p
          BY <3>0, <5>1, <5>3 DEF Offered, StreamInv, AlertTypeOK
        <5> QED BY <5>2, <5>3
      <4>2. CASE impacts[p][next[p] + 1].tag # Unreadable
        <5>1. reader' = [reader EXCEPT ![p] = "holding"] /\ UNCHANGED <<next, offers>>
          BY <3>1, <4>2 DEF Take
        <5> QED BY <3>0, <5>1 DEF Offered, StreamInv, AlertTypeOK
      <4> QED BY <4>1, <4>2
    <3>2. CASE StartPublish(p)
      BY <3>0, <3>2 DEF StartPublish, Offered, StreamInv, AlertTypeOK
    <3>3. CASE EndPublish(p)
      BY <2>3, <3>0, <3>3 DEF EndPublish, Offered, StreamInv, AlertTypeOK
    <3>4. CASE ReaderEnds(p)
      BY <3>0, <3>4 DEF ReaderEnds, Offered, StreamInv, AlertTypeOK
    <3> QED BY <1>2, <3>1, <3>2, <3>3, <3>4
  <2>5. \A c \in Clients, q \in Parts : \A o \in Nat : Owed(c, q, o)' => Owed(c, q, o)
    BY <2>1, <2>4 DEF Owed
  <2> QED BY <2>1, <2>2, <2>5, LossesKept
<1> QED BY <1>1, <1>2 DEF ReaderStep

\* Nobody is subscribed in the middle of a publication.
LEMMA HandlerKeepsLosses ==
  ASSUME StreamInv, StreamInv', OnlyOverflowLoses, NEW c \in Clients, HandlerNext(c)
  PROVE  OnlyOverflowLoses'
<1>1. UNCHANGED <<impacts, next, first, reader, offers, overflow>>
  BY DEF HandlerNext, HandlerStep, Subscribe, SeesDone, Unsubscribe, Send, Call, Filter, HangUp,
         kafkaVars
<1>2. \A d \in Clients : HeldBack(d)' = HeldBack(d)
  BY HandlerKeepsBack
<1>3. ASSUME NEW d \in Clients, NEW p \in Parts, NEW o \in Nat, Owed(d, p, o)'
      PROVE  Owed(d, p, o)
  <2>1. CASE Subscribe(c)
    <3>1. /\ since' = [since EXCEPT ![c] = next] /\ subs' = subs \cup {c}
          /\ reader[p] # "publishing"
      BY <2>1 DEF Subscribe, CanWrite
    <3>2. CASE d = c
      <4>1. o >= next[p]
        BY <1>1, <1>3, <3>1, <3>2 DEF Owed, StreamInv, AlertTypeOK
      <4>2. next[p] \in Nat
        BY DEF StreamInv, AlertTypeOK
      <4> QED BY <1>1, <1>3, <3>1, <4>1, <4>2 DEF Owed, Offered
    <3>3. CASE d # c
      BY <1>1, <1>3, <3>1, <3>3 DEF Owed, Offered, StreamInv, AlertTypeOK
    <3> QED BY <3>2, <3>3
  <2>2. CASE ~Subscribe(c)
    <3>1. UNCHANGED since /\ subs' \subseteq subs
      BY <2>2 DEF HandlerNext, HandlerStep, SeesDone, Unsubscribe, Send, Call, Filter, HangUp
    <3> QED BY <1>1, <1>3, <3>1 DEF Owed, Offered
  <2> QED BY <2>1, <2>2
<1> QED BY <1>1, <1>2, <1>3, LossesKept

\* No step loses an alert but by a full buffer.
LEMMA LossesStep ==
  StreamInv /\ StreamInv' /\ OnlyOverflowLoses /\ [AlertNext]_alertVars => OnlyOverflowLoses'
  BY PublisherKeepsLosses, ConsumerKeepsLosses, ReaderKeepsLosses, HandlerKeepsLosses
  DEF AlertNext, HandlerNext

\* For any number of processors, partitions and clients: a subscriber has every alert
\* published while it was subscribed, unless its buffer was full (alerts.go:55).
THEOREM AlertsNotLost == AlertSpec => []OnlyOverflowLoses
<1>1. StreamInv /\ OnlyOverflowLoses /\ [AlertNext]_alertVars => StreamInv' /\ OnlyOverflowLoses'
  BY StreamStep, LossesStep
<1> QED BY <1>1, StreamStart, LossesStart, PTL DEF AlertSpec

=============================================================================
