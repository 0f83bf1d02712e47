-------------------------- MODULE PredictionsProofs --------------------------
(***************************************************************************)
(* Proofs about Predictions, for any loaded graph that is well-formed, any *)
(* configuration, clock, delays, requests and faults: a SCAN that succeeds *)
(* is faithful; each outcome is filed once and taught to its own key; an   *)
(* estimate rests on its pair's outcomes and lies between them and the     *)
(* schedule's; every impact has its cause earlier in the result, and the   *)
(* largest of those at hand; the primary is the receiving route's first    *)
(* stop; and every reply and result has its type.                          *)
(***************************************************************************)
EXTENDS Predictions, DataLemmas

-----------------------------------------------------------------------------
(* Scans.                                                                  *)

\* A SCAN under way has met the keys before its cursor.  What it holds was there
\* at some time, and of the keys that stayed as they are it holds the wanted ones.
ScanShape ==
  scan = [want |-> scan.want, next |-> scan.next, ok |-> scan.ok, got |-> scan.got,
          steady |-> scan.steady, held |-> scan.held]

ScanRead ==
  /\ scan.next \in 1..(Len(DelayKeys) + 1) /\ scan.steady \subseteq KeyIds
  /\ scan.got \subseteq scan.held /\ IsFiniteSet(scan.got)
  /\ \A h \in scan.got : /\ h.key \in KeyIds /\ h.key < scan.next
                         /\ h.value \in State \cup {NoState} /\ h.value # NoState
  /\ \A i \in KeyIds : Holding(i, stored[i]) \in scan.held
  /\ \A i \in scan.steady : scan.ok /\ i < scan.next =>
       (Wanted(scan.want, i, stored[i]) <=> Holding(i, stored[i]) \in scan.got)

ScanInv ==
  /\ stored \in [KeyIds -> State \cup {NoState}]
  /\ stage \in ScanStages => ScanShape /\ ScanRead

\* A SCAN begins before the first key.
LEMMA ScanStarts ==
  ASSUME ScanInv, NEW want, StartScan(want), stored' = stored
  PROVE  ScanInv'
<1>1. ScanShape' /\ ScanRead'
  BY PredictionsAssumption, FS_EmptySet
     DEF ScanInv, StartScan, ScanShape, ScanRead, Holding
<1>2. QED
  BY <1>1 DEF ScanInv

\* Reading a key takes the SCAN past it.
LEMMA ScanAdvances ==
  ASSUME ScanInv, GetNext
  PROVE  ScanInv'
<1> DEFINE i == scan.next
           new == {h \in {Holding(i, stored[i])} : Wanted(scan.want, i, stored[i])}
<1>0. /\ stage \in ScanStages /\ i \in KeyIds /\ ScanShape /\ ScanRead
      /\ stored' = stored /\ stage' = stage
      /\ scan' = [scan EXCEPT !.next = i + 1, !.got = scan.got \cup new]
  BY PredictionsAssumption DEF GetNext, Scanning, ScanInv, ScanRead, redisVars
<1>1. scan' = [want |-> scan.want, next |-> i + 1, ok |-> scan.ok, got |-> scan.got \cup new,
               steady |-> scan.steady, held |-> scan.held]
  BY <1>0 DEF ScanShape
<1>2. IsFiniteSet(scan'.got)
  <2>1. IsFiniteSet(new)
    <3>1. IsFiniteSet({Holding(i, stored[i])}) /\ new \subseteq {Holding(i, stored[i])}
      BY FS_Singleton
    <3>2. QED
      BY <3>1, FS_Subset
  <2>2. IsFiniteSet(scan.got \cup new)
    BY <1>0, <2>1, FS_Union DEF ScanRead
  <2>3. QED
    BY <2>2, <1>1
<1>3. ASSUME NEW h \in new
      PROVE  /\ h = Holding(i, stored[i]) /\ h.key = i /\ h.value = stored[i]
             /\ h.value \in State \cup {NoState} /\ h.value # NoState /\ h \in scan.held
  BY <1>0 DEF Holding, Wanted, ScanInv, ScanRead
<1>4. ScanShape'
  BY <1>1 DEF ScanShape
<1>5. ScanRead'
  <2>1. scan'.next \in 1..(Len(DelayKeys) + 1) /\ scan'.steady \subseteq KeyIds
    BY <1>0, <1>1, PredictionsAssumption DEF ScanRead
  <2>2. scan'.got \subseteq scan'.held
    BY <1>0, <1>1, <1>3 DEF ScanRead
  <2>3. ASSUME NEW h \in scan'.got
        PROVE  /\ h.key \in KeyIds /\ h.key < scan'.next
               /\ h.value \in State \cup {NoState} /\ h.value # NoState
    <3>1. CASE h \in scan.got
      BY <3>1, <1>0, <1>1, PredictionsAssumption DEF ScanRead
    <3>2. CASE h \in new
      BY <3>2, <1>0, <1>1, <1>3, PredictionsAssumption
    <3>3. QED
      BY <3>1, <3>2, <1>1
  <2>4. ASSUME NEW k \in scan.steady, scan.ok, k < i + 1
        PROVE  Wanted(scan.want, k, stored[k]) <=> Holding(k, stored[k]) \in scan.got \cup new
    <3>0. k \in KeyIds /\ KeyIds \subseteq Nat
      BY <1>0, PredictionsAssumption DEF ScanRead
    <3>1. CASE k = i
      BY <3>1, <1>0, <3>0 DEF Holding, ScanRead
    <3>2. CASE k # i
      <4>1. Holding(k, stored[k]) \notin new
        BY <3>2 DEF Holding
      <4>2. k < i
        BY <3>2, <2>4, <3>0, <1>0
      <4>3. QED
        BY <4>1, <4>2, <2>4, <1>0 DEF ScanRead
    <3>3. QED
      BY <3>1, <3>2
  <2>5. \A k \in KeyIds : Holding(k, stored[k]) \in scan.held
    BY <1>0 DEF ScanRead
  <2>6. QED
    BY <2>1, <2>2, <2>3, <2>4, <2>5, <1>2, <1>1, <1>0 DEF ScanRead
<1>6. QED
  BY <1>0, <1>4, <1>5 DEF ScanInv

\* A failed GET leaves its key out, and a failed SCAN ends without success.
LEMMA ScanSkips ==
  ASSUME ScanInv, ReadFails
  PROVE  ScanInv'
<1>0. /\ stage \in ScanStages /\ scan.next \in KeyIds /\ ScanShape /\ ScanRead
      /\ stored' = stored /\ stage' = stage
  BY PredictionsAssumption DEF ReadFails, Scanning, ScanInv, ScanRead, redisVars
<1>1. ScanShape' /\ ScanRead'
  <2>1. CASE scan' = [scan EXCEPT !.next = @ + 1, !.steady = @ \ {scan.next}]
    <3>1. scan' = [want |-> scan.want, next |-> scan.next + 1, ok |-> scan.ok, got |-> scan.got,
                   steady |-> scan.steady \ {scan.next}, held |-> scan.held]
      BY <2>1, <1>0 DEF ScanShape
    <3>2. \A h \in scan.got : h.key < scan.next + 1
      BY <1>0, PredictionsAssumption DEF ScanRead
    <3>3. \A i \in scan.steady \ {scan.next} : i < scan.next + 1 => i < scan.next
      BY <1>0, PredictionsAssumption DEF ScanRead
    <3>4. scan.next + 1 \in 1..(Len(DelayKeys) + 1)
      BY <1>0, PredictionsAssumption
    <3>5. QED
      BY <3>1, <3>2, <3>3, <3>4, <1>0 DEF ScanShape, ScanRead
  <2>2. CASE scan' = [scan EXCEPT !.next = Len(DelayKeys) + 1, !.ok = FALSE]
    <3>1. scan' = [want |-> scan.want, next |-> Len(DelayKeys) + 1, ok |-> FALSE, got |-> scan.got,
                   steady |-> scan.steady, held |-> scan.held]
      BY <2>2, <1>0 DEF ScanShape
    <3>2. \A h \in scan.got : h.key < Len(DelayKeys) + 1
      BY <1>0, PredictionsAssumption DEF ScanRead
    <3>3. Len(DelayKeys) + 1 \in 1..(Len(DelayKeys) + 1)
      BY PredictionsAssumption
    <3>4. QED
      BY <3>1, <3>2, <3>3, <1>0 DEF ScanShape, ScanRead
  <2>3. QED
    BY <2>1, <2>2 DEF ReadFails
<1>2. QED
  BY <1>0, <1>1 DEF ScanInv

\* A key written meanwhile is no longer among the steady ones.
LEMMA ScanDisturbed ==
  ASSUME ScanInv, now \in Moments, DelayChanges
  PROVE  ScanInv'
<1>0. stage \in ScanStages /\ ScanShape /\ ScanRead /\ stage' = stage
  BY DEF DelayChanges, ScanInv
<1>1. PICK i \in KeyIds, value \in {[delay |-> d, at |-> now] : d \in Delays} \cup {NoState} :
        /\ stored' = [stored EXCEPT ![i] = value]
        /\ scan' = [scan EXCEPT !.steady = @ \ {i}, !.held = @ \cup {Holding(i, value)}]
  BY DEF DelayChanges
<1>2. scan' = [want |-> scan.want, next |-> scan.next, ok |-> scan.ok, got |-> scan.got,
               steady |-> scan.steady \ {i}, held |-> scan.held \cup {Holding(i, value)}]
  BY <1>0, <1>1 DEF ScanShape
<1>3. stored' \in [KeyIds -> State \cup {NoState}]
  <2>1. value \in State \cup {NoState}
    BY DEF State
  <2>2. QED
    BY <2>1, <1>1 DEF ScanInv
<1>4. \A k \in KeyIds : stored'[k] = IF k = i THEN value ELSE stored[k]
  BY <1>1 DEF ScanInv
<1>5. \A k \in KeyIds : Holding(k, stored'[k]) \in scan'.held
  BY <1>4, <1>2, <1>0 DEF ScanRead
<1>6. \A k \in scan'.steady : scan'.ok /\ k < scan'.next =>
        (Wanted(scan'.want, k, stored'[k]) <=> Holding(k, stored'[k]) \in scan'.got)
  BY <1>4, <1>2, <1>0 DEF ScanRead
<1>7. ScanShape'
  BY <1>2 DEF ScanShape
<1>8. ScanRead'
  <2>1. /\ scan'.next \in 1..(Len(DelayKeys) + 1) /\ scan'.steady \subseteq KeyIds
        /\ scan'.got \subseteq scan'.held /\ IsFiniteSet(scan'.got)
        /\ \A h \in scan'.got : /\ h.key \in KeyIds /\ h.key < scan'.next
                                /\ h.value \in State \cup {NoState} /\ h.value # NoState
    BY <1>2, <1>0 DEF ScanRead
  <2>2. QED
    BY <2>1, <1>5, <1>6 DEF ScanRead
<1>9. QED
  BY <1>3, <1>7, <1>8 DEF ScanInv

\* No SCAN is under way at the start.
LEMMA ScanInit == PredictionsInit => ScanInv
BY PredictionsAssumption DEF PredictionsInit, ScanInv, ScanStages

\* Every step keeps what a SCAN has read.
LEMMA ScanStep ==
  ASSUME ScanInv, now \in Moments, [PredictionsNext]_predictionVars
  PROVE  ScanInv'
<1> USE DEF redisVars
<1>1. ASSUME \/ TimePasses \/ AskBlastRadius \/ AskReliability \/ TransferBroken \/ EndListing
             \/ Count \/ EndBlastScan \/ EndBlast \/ Start \/ (\E item \in queue : Pop(item))
             \/ Finish \/ Return \/ BeginTracking \/ EndBaselineScan \/ Track \/ Judge
             \/ JudgeUnrecorded
      PROVE  stored' = stored /\ stage' \notin ScanStages
  BY <1>1 DEF TimePasses, Asked, AskBlastRadius, AskReliability, TransferBroken, EndListing, Count,
       EndBlastScan, EndBlast, Start, Pop, Finish, Return, BeginTracking, EndBaselineScan, Track,
       Judge, JudgeUnrecorded, ScanStages
<1>2. ASSUME \/ AskDelays \/ BlastRoute \/ BlastDelay \/ TakeSlot \/ BaselineRoute
      PROVE  stored' = stored /\ \E want : StartScan(want)
  BY <1>2 DEF Asked, AskDelays, BlastRoute, BlastDelay, TakeSlot, BaselineRoute
<1>3. ASSUME AskPrediction
      PROVE  stored' = stored /\ (stage' \notin ScanStages \/ \E want : StartScan(want))
  BY <1>3 DEF Asked, AskPrediction, ScanStages
<1>4. CASE GetNext \/ ReadFails \/ DelayChanges
  BY <1>4, ScanAdvances, ScanSkips, ScanDisturbed
<1>5. CASE UNCHANGED predictionVars
  BY <1>5 DEF predictionVars, ScanInv, ScanShape, ScanRead
<1>6. ASSUME stored' = stored, stage' \notin ScanStages PROVE ScanInv'
  BY <1>6 DEF ScanInv
<1>7. QED
  BY <1>1, <1>2, <1>3, <1>4, <1>5, <1>6, ScanStarts DEF PredictionsNext

-----------------------------------------------------------------------------
(* Time.                                                                   *)

\* The first moment is on the clock.
LEMMA TimeInit == PredictionsInit => now \in Moments
<1>1. 0 \in 0..(Cardinality(Moments) - 1)
  BY PredictionsAssumption
<1>2. Moments = 0..(Cardinality(Moments) - 1)
  BY PredictionsAssumption DEF Moments
<1>3. QED
  BY <1>1, <1>2 DEF PredictionsInit

\* Time stays on the clock.
LEMMA TimeStep ==
  ASSUME now \in Moments, [PredictionsNext]_predictionVars
  PROVE  now' \in Moments
BY DEF PredictionsNext, predictionVars, redisVars, TimePasses, DelayChanges, GetNext, ReadFails,
       Asked, AskDelays, AskPrediction, AskBlastRadius, AskReliability, TransferBroken, EndListing,
       Count, BlastRoute, EndBlastScan, BlastDelay, EndBlast, TakeSlot, Start, Pop, Finish, Return,
       BeginTracking, BaselineRoute, EndBaselineScan, Track, Judge, JudgeUnrecorded

\* A scan that succeeds returns the delays that were there all the time, and
\* nothing that was never stored, whatever is written while the keys are read one
\* by one (GetAllActiveDelays, GetRouteDelays).
THEOREM ScansFaithful == PredictionsSpec => []ScanFaithful
<1> DEFINE Inv == ScanInv /\ now \in Moments
<1>1. PredictionsInit => Inv
  BY ScanInit, TimeInit
<1>2. Inv /\ [PredictionsNext]_predictionVars => Inv'
  BY ScanStep, TimeStep
<1>3. ScanInv => ScanFaithful
  <2>1. SUFFICES ASSUME ScanInv, stage \in ScanStages, Scanned, scan.ok PROVE ScanFaithful!2
    BY DEF ScanFaithful
  <2>2. QED
    BY <2>1, PredictionsAssumption DEF ScanInv, ScanRead, Scanned
<1>4. QED
  BY <1>1, <1>2, <1>3, PTL DEF PredictionsSpec

-----------------------------------------------------------------------------
(* The outcome stores and the log.                                         *)

Entry(entries, n) == Member(entries[n].at, n, entries[n].value)

\* A store at time t holds the young ones of some entries of the history, each
\* under its key and no other, and nothing else.
Keeps(store, entries, t, mine, key) ==
  /\ store = [k \in DOMAIN store |-> store[k]]
  /\ \A k \in DOMAIN store :
       /\ IsFiniteSet(store[k])
       /\ \A o \in store[k] : \E n \in mine : key[n] = k /\ o = Entry(entries, n)
  /\ \A n \in mine : Young(entries[n].at, t) =>
       key[n] \in DOMAIN store /\ Entry(entries, n) \in store[key[n]]

\* An outcome that is kept is kept until it is a retention period old.
LEMMA KeptLater ==
  ASSUME NEW store, NEW entries, NEW t \in Int, NEW u \in Int, t <= u, NEW mine, NEW key,
         Keeps(store, entries, t, mine, key),
         \A n \in mine : entries[n].at \in Int
  PROVE  Keeps(store, entries, u, mine, key)
<1>1. \A n \in mine : Young(entries[n].at, u) => Young(entries[n].at, t)
  BY HistoryAssumption DEF Young
<1>2. QED
  BY <1>1 DEF Keeps

\* A store that gets nothing keeps what it has when an outcome is logged.
LEMMA KeptUnrecorded ==
  ASSUME NEW store, NEW entries, NEW t, NEW mine, NEW key, NEW more,
         Keeps(store, entries, t, mine, key),
         \A n \in mine : more[n] = entries[n]
  PROVE  Keeps(store, more, t, mine, key)
<1>1. \A n \in mine : Entry(more, n) = Entry(entries, n)
  BY DEF Entry
<1>2. QED
  BY <1>1 DEF Keeps

\* A store that records the outcome logged keeps it with its others.
LEMMA KeptRecorded ==
  ASSUME NEW store, NEW entries, NEW t \in Int, NEW mine, NEW key, NEW more, NEW keys, NEW next,
         NEW n, NEW k,
         Keeps(store, entries, t, mine, key),
         \A m \in mine : more[m] = entries[m] /\ keys[m] = key[m] /\ entries[m].at \in Int,
         keys[n] = k, more[n].at = t,
         next = Stored(store, k, t, Entry(more, n))
  PROVE  Keeps(next, more, t, mine \cup {n}, keys)
<1>1. Keeps(store, more, t, mine, key)
  BY KeptUnrecorded
<1> DEFINE old == IF k \in DOMAIN store THEN store[k] ELSE {}
<1>2. /\ next = [j \in DOMAIN next |-> next[j]]
      /\ DOMAIN next = DOMAIN store \cup {k}
      /\ \A j \in DOMAIN store : j # k => next[j] = store[j]
      /\ next[k] = {p \in old \cup {Entry(more, n)} : p.at > t - Retention}
  <2>1. store = [j \in DOMAIN store |-> store[j]]
    BY DEF Keeps
  <2>2. QED
    BY <2>1 DEF Stored, Outcomes, NoOutcomes
<1>3. IsFiniteSet(old) /\ \A o \in old : \E m \in mine : key[m] = k /\ o = Entry(more, m)
  BY <1>1, FS_EmptySet DEF Keeps
<1>4. \A m \in mine \cup {n} : Entry(more, m).at = more[m].at
  BY DEF Entry, Member
<1>5. ASSUME NEW j \in DOMAIN next
      PROVE  /\ IsFiniteSet(next[j])
             /\ \A o \in next[j] : \E m \in mine \cup {n} : keys[m] = j /\ o = Entry(more, m)
  <2>1. CASE j # k
    BY <2>1, <1>1, <1>2 DEF Keeps
  <2>2. CASE j = k
    <3>1. IsFiniteSet(old \cup {Entry(more, n)})
      BY <1>3, FS_AddElement
    <3>2. IsFiniteSet(next[k])
      BY <3>1, <1>2, FS_Subset
    <3>3. \A o \in next[k] : \E m \in mine \cup {n} : keys[m] = k /\ o = Entry(more, m)
      BY <1>2, <1>3
    <3>4. QED
      BY <2>2, <3>2, <3>3
  <2>3. QED
    BY <2>1, <2>2
<1>6. ASSUME NEW m \in mine \cup {n}, Young(more[m].at, t)
      PROVE  keys[m] \in DOMAIN next /\ Entry(more, m) \in next[keys[m]]
  <2>1. more[m].at > t - Retention
    BY <1>6 DEF Young
  <2>2. CASE keys[m] = k
    <3>1. Entry(more, m) \in old \cup {Entry(more, n)}
      BY <2>2, <1>1, <1>6 DEF Keeps
    <3>2. QED
      BY <3>1, <2>1, <2>2, <1>2, <1>4
  <2>3. CASE keys[m] # k
    BY <2>3, <1>1, <1>2, <1>6 DEF Keeps
  <2>4. QED
    BY <2>2, <2>3
<1>7. QED
  BY <1>2, <1>5, <1>6 DEF Keeps

KeyOf(p) == IF p.primary THEN PairKey(p.from, p.route, p.source, p.hour)
            ELSE StopKey(p.route, p.station, p.hour)

Keys(entries) == [n \in DOMAIN entries |-> KeyOf(entries[n].prediction)]
Primaries(entries) == {n \in DOMAIN entries : entries[n].prediction.primary}
Others(entries) == {n \in DOMAIN entries : ~entries[n].prediction.primary}

HistoryInv ==
  /\ Len(log) \in Nat /\ log = [n \in 1..Len(log) |-> log[n]]
  /\ \A n \in 1..Len(log) :
       log[n].at \in Moments /\ log[n].at <= now /\ log[n].value \in Nat
  /\ Keeps(pairs, log, now, Primaries(log), Keys(log))
  /\ Keeps(stops, log, now, Others(log), Keys(log))

\* The stores and the log are empty at the start.
LEMMA HistoryInit == PredictionsInit => HistoryInv
BY DEF PredictionsInit, HistoryInv, Keeps, Primaries, Others, Keys

\* An outcome filed is kept by the store of its kind.
LEMMA HistoryLonger ==
  ASSUME HistoryInv, now \in Moments, Judge
  PROVE  HistoryInv'
<1>1. PICK p \in pending, outcome \in ObservedMax :
       /\ pairs' = IF p.primary THEN FiledPair(p, outcome) ELSE pairs
       /\ stops' = IF FiledStop(p)
                   THEN RecordStopOutcome(stops, p.route, p.station, p.hour, now, Filing, outcome)
                   ELSE stops
       /\ log' = Append(log, [prediction |-> p, at |-> now, value |-> outcome])
  BY DEF Judge
<1> DEFINE e == [prediction |-> p, at |-> now, value |-> outcome]
           N == Len(log)
<1>2. now' = now
  BY DEF Judge, redisVars
<1>3. Moments \subseteq Int
  BY PredictionsAssumption DEF Moments
<1>4. /\ N \in Nat /\ DOMAIN log = 1..N /\ Len(log') = N + 1 /\ DOMAIN log' = 1..(N + 1)
      /\ log' = [i \in 1..(N + 1) |-> IF i = N + 1 THEN e ELSE log[i]]
  BY <1>1, AppendAny DEF HistoryInv
<1>5. log'[N + 1] = e /\ \A n \in 1..N : log'[n] = log[n]
  BY <1>4
<1>6. log' = [n \in 1..Len(log') |-> log'[n]]
  BY <1>4
<1>7. \A n \in 1..Len(log') :
        log'[n].at \in Moments /\ log'[n].at <= now' /\ log'[n].value \in Nat
  <2>1. e.at = now /\ e.value = outcome /\ outcome \in Nat /\ now <= now
    BY PredictionsAssumption, <1>3
  <2>2. QED
    BY <2>1, <1>2, <1>4, <1>5 DEF HistoryInv
<1> DEFINE K == Keys(log')
<1>8. /\ \A n \in 1..N : K[n] = Keys(log)[n]
      /\ K[N + 1] = KeyOf(p)
  BY <1>4, <1>5 DEF Keys
<1>9. /\ Primaries(log') = IF p.primary THEN Primaries(log) \cup {N + 1} ELSE Primaries(log)
      /\ Others(log') = IF p.primary THEN Others(log) ELSE Others(log) \cup {N + 1}
  BY <1>4, <1>5 DEF Primaries, Others
<1>10. Entry(log', N + 1) = Member(now, Filing, outcome)
  BY <1>5 DEF Entry, Filing
<1>11. ASSUME NEW S \in {Primaries(log), Others(log)}, NEW n \in S
       PROVE  log'[n] = log[n] /\ K[n] = Keys(log)[n] /\ log[n].at \in Int
  BY <1>3, <1>4, <1>5, <1>8 DEF Primaries, Others, HistoryInv
<1> HIDE DEF K, e
<1>12. Keeps(pairs', log', now, Primaries(log'), K)
  <2>0. PICK newer : newer = log'
    OBVIOUS
  <2>1. CASE p.primary
    <3>1. pairs' = Stored(pairs, KeyOf(p), now, Entry(newer, N + 1))
      BY <2>0, <2>1, <1>1, <1>10 DEF FiledPair, RecordObservation, Record, KeyOf
    <3>2. newer[N + 1].at = now
      BY <2>0, <1>5 DEF e
    <3>3. \A n \in Primaries(log) : newer[n] = log[n] /\ K[n] = Keys(log)[n] /\ log[n].at \in Int
      BY <2>0, <1>11
    <3>4. Keeps(pairs', newer, now, Primaries(log) \cup {N + 1}, K)
      <4>1. Keeps(pairs, log, now, Primaries(log), Keys(log)) /\ now \in Int
        BY <1>3 DEF HistoryInv
      <4>2. QED
        BY <3>1, <3>2, <3>3, <4>1, <1>8, KeptRecorded
    <3>5. QED
      BY <3>4, <2>0, <2>1, <1>9
  <2>2. CASE ~p.primary
    <3>1. Keeps(pairs, newer, now, Primaries(log), Keys(log))
      BY <1>11, <2>0, KeptUnrecorded DEF HistoryInv
    <3>2. Keeps(pairs, newer, now, Primaries(log), K)
      BY <3>1, <1>11 DEF Keeps
    <3>3. QED
      BY <3>2, <2>0, <2>2, <1>1, <1>9
  <2>3. QED
    BY <2>1, <2>2
<1>13. Keeps(stops', log', now, Others(log'), K)
  <2>0. PICK newer : newer = log'
    OBVIOUS
  <2>1. CASE ~p.primary
    <3>1. stops' = Stored(stops, KeyOf(p), now, Entry(newer, N + 1))
      BY <2>0, <2>1, <1>1, <1>10 DEF FiledStop, RecordStopOutcome, Record, KeyOf
    <3>2. newer[N + 1].at = now
      BY <2>0, <1>5 DEF e
    <3>3. \A n \in Others(log) : newer[n] = log[n] /\ K[n] = Keys(log)[n] /\ log[n].at \in Int
      BY <2>0, <1>11
    <3>4. Keeps(stops', newer, now, Others(log) \cup {N + 1}, K)
      <4>1. Keeps(stops, log, now, Others(log), Keys(log)) /\ now \in Int
        BY <1>3 DEF HistoryInv
      <4>2. QED
        BY <3>1, <3>2, <3>3, <4>1, <1>8, KeptRecorded
    <3>5. QED
      BY <3>4, <2>0, <2>1, <1>9
  <2>2. CASE p.primary
    <3>1. Keeps(stops, newer, now, Others(log), Keys(log))
      BY <1>11, <2>0, KeptUnrecorded DEF HistoryInv
    <3>2. Keeps(stops, newer, now, Others(log), K)
      BY <3>1, <1>11 DEF Keeps
    <3>3. QED
      BY <3>2, <2>0, <2>2, <1>1, <1>9 DEF FiledStop
  <2>3. QED
    BY <2>1, <2>2
<1>14. QED
  BY <1>2, <1>4, <1>6, <1>7, <1>12, <1>13 DEF HistoryInv, K

\* The stores hold what they held when time passes.
LEMMA HistoryTime ==
  ASSUME HistoryInv, now \in Moments, TimePasses
  PROVE  HistoryInv'
<1>1. /\ now' = now + 1 /\ log' = log /\ pairs' = pairs /\ stops' = stops /\ now \in Int
      /\ now + 1 \in Int /\ now <= now + 1 /\ Moments \subseteq Int
  BY PredictionsAssumption DEF TimePasses, redisVars, Moments
<1>2. PICK u : u = now + 1
  OBVIOUS
<1>3. \A n \in 1..Len(log) : log[n].at \in Int /\ log[n].at <= u
  BY <1>1, <1>2 DEF HistoryInv
<1>4. DOMAIN log = 1..Len(log)
  BY DEF HistoryInv
<1>5. Keeps(pairs, log, u, Primaries(log), Keys(log))
  <2>1. \A n \in Primaries(log) : log[n].at \in Int
    BY <1>3, <1>4 DEF Primaries
  <2>2. QED
    BY <1>1, <1>2, <2>1, KeptLater DEF HistoryInv
<1>6. Keeps(stops, log, u, Others(log), Keys(log))
  <2>1. \A n \in Others(log) : log[n].at \in Int
    BY <1>3, <1>4 DEF Others
  <2>2. QED
    BY <1>1, <1>2, <2>1, KeptLater DEF HistoryInv
<1>8. QED
  BY <1>1, <1>2, <1>3, <1>5, <1>6 DEF HistoryInv

\* Every step keeps log and stores in agreement.
LEMMA HistoryStep ==
  ASSUME HistoryInv, now \in Moments, [PredictionsNext]_predictionVars
  PROVE  HistoryInv'
<1> USE DEF redisVars
<1>1. ASSUME \/ DelayChanges \/ GetNext \/ ReadFails \/ AskDelays \/ AskPrediction
             \/ AskBlastRadius \/ AskReliability \/ TransferBroken \/ EndListing \/ Count
             \/ BlastRoute \/ EndBlastScan \/ BlastDelay \/ EndBlast \/ TakeSlot \/ Start
             \/ (\E item \in queue : Pop(item)) \/ Finish \/ Return \/ BeginTracking
             \/ BaselineRoute \/ EndBaselineScan \/ Track \/ JudgeUnrecorded
             \/ UNCHANGED predictionVars
      PROVE  UNCHANGED <<now, pairs, stops, log>>
  BY <1>1 DEF predictionVars, DelayChanges, GetNext, ReadFails,
       Asked, AskDelays, AskPrediction, AskBlastRadius, AskReliability, TransferBroken, EndListing,
       Count, BlastRoute, EndBlastScan, BlastDelay, EndBlast, TakeSlot, Start, Pop, Finish, Return,
       BeginTracking, BaselineRoute, EndBaselineScan, Track, JudgeUnrecorded
<1>2. ASSUME UNCHANGED <<now, pairs, stops, log>> PROVE HistoryInv'
  BY <1>2 DEF HistoryInv, Keeps, Entry, Member, Young, Primaries, Others, Keys, KeyOf
<1>3. QED
  BY <1>1, <1>2, HistoryTime, HistoryLonger DEF PredictionsNext

\* A young outcome is in one store under one key.
LEMMA FiledUnderOne ==
  ASSUME NEW store, NEW entries, NEW t, NEW mine, NEW key, NEW n,
         Keeps(store, entries, t, mine, key)
  PROVE  /\ n \in mine /\ Young(entries[n].at, t) =>
              {k \in DOMAIN store : Entry(entries, n) \in store[k]} = {key[n]}
         /\ n \notin mine => {k \in DOMAIN store : Entry(entries, n) \in store[k]} = {}
<1>1. ASSUME NEW k \in DOMAIN store, Entry(entries, n) \in store[k]
      PROVE  n \in mine /\ k = key[n]
  <2>1. PICK m \in mine : key[m] = k /\ Entry(entries, n) = Entry(entries, m)
    BY <1>1 DEF Keeps
  <2>2. n = m
    BY <2>1 DEF Entry, Member
  <2>3. QED
    BY <2>1, <2>2
<1>2. QED
  BY <1>1 DEF Keeps

\* Each outcome of the last thirty days is in one of the two stores, under one
\* key, and nothing else is (RecordObservation, RecordStopOutcome, sweepOnce).
THEOREM OutcomesFiledOnce == PredictionsSpec => []FiledOnce
<1> DEFINE Inv == HistoryInv /\ now \in Moments
<1>1. PredictionsInit => Inv
  BY HistoryInit, TimeInit
<1>2. Inv /\ [PredictionsNext]_predictionVars => Inv'
  BY HistoryStep, TimeStep
<1>3. HistoryInv => FiledOnce
  <2> SUFFICES ASSUME HistoryInv PROVE FiledOnce
    OBVIOUS
  <2>1. \A n : Filed(n) = Entry(log, n)
    BY DEF Filed, Entry
  <2>2. ASSUME NEW n \in DOMAIN log, Young(log[n].at, now)
        PROVE  Cardinality({k \in DOMAIN pairs : Filed(n) \in pairs[k]})
                 + Cardinality({k \in DOMAIN stops : Filed(n) \in stops[k]}) = 1
    <3> DEFINE P == {k \in DOMAIN pairs : Filed(n) \in pairs[k]}
               S == {k \in DOMAIN stops : Filed(n) \in stops[k]}
    <3>1. P = {k \in DOMAIN pairs : Entry(log, n) \in pairs[k]}
      BY <2>1
    <3>2. S = {k \in DOMAIN stops : Entry(log, n) \in stops[k]}
      BY <2>1
    <3>3. Keeps(pairs, log, now, Primaries(log), Keys(log)) /\ Keeps(stops, log, now, Others(log), Keys(log))
      BY DEF HistoryInv
    <3>4. CASE log[n].prediction.primary
      <4>1. n \in Primaries(log) /\ n \notin Others(log)
        BY <3>4 DEF Primaries, Others
      <4>2. P = {Keys(log)[n]} /\ S = {}
        BY <4>1, <3>1, <3>2, <3>3, <2>2, FiledUnderOne
      <4>3. Cardinality(P) = 1 /\ Cardinality(S) = 0
        BY <4>2, FS_Singleton, FS_EmptySet, Zenon
      <4>4. QED
        BY <4>3
    <3>5. CASE ~log[n].prediction.primary
      <4>1. n \in Others(log) /\ n \notin Primaries(log)
        BY <3>5 DEF Primaries, Others
      <4>2. S = {Keys(log)[n]} /\ P = {}
        BY <4>1, <3>1, <3>2, <3>3, <2>2, FiledUnderOne
      <4>3. Cardinality(P) = 0 /\ Cardinality(S) = 1
        BY <4>2, FS_Singleton, FS_EmptySet, Zenon
      <4>4. QED
        BY <4>3
    <3>6. QED
      BY <3>4, <3>5
  <2>3. \A store \in {pairs, stops} : \A k \in DOMAIN store :
          store[k] \subseteq {Filed(n) : n \in DOMAIN log}
    BY <2>1 DEF HistoryInv, Keeps, Primaries, Others
  <2>4. QED
    BY <2>2, <2>3 DEF FiledOnce
<1>4. QED
  BY <1>1, <1>2, <1>3, PTL DEF PredictionsSpec

-----------------------------------------------------------------------------
(* Evidence.                                                               *)

\* The pair whose outcomes a propagation learns from.
PairOf(imp) == PairKey(imp.from, imp.to, Station(Graph, imp.station), HourOf(imp.detected))

\* The estimate under way rests on what the store holds for its pair, or on nothing
\* when it could not be read: nothing is filed, and no time passes, while the
\* engine walks.
EvidenceInv ==
  stage = "walking" =>
    LET known == Evidence(pairs, PairOf(impact), now) IN
    IF evidence.read THEN evidence.sum = known.sum /\ evidence.count = known.count
    ELSE evidence.sum = 0 /\ evidence.count = 0

\* Propagate gathers what the pair's key holds.
LEMMA EvidenceStart ==
  ASSUME Start
  PROVE  EvidenceInv'
<1>1. evidence' \in Gathered /\ pairs' = pairs /\ impact' = impact /\ now' = now
  BY DEF Start, redisVars
<1>2. PICK e : e = evidence'
  OBVIOUS
<1>3. PICK known : known = Evidence(pairs, PairOf(impact), now)
  OBVIOUS
<1>4. IF e.read THEN e.sum = known.sum /\ e.count = known.count ELSE e.sum = 0 /\ e.count = 0
  BY <1>1, <1>2, <1>3 DEF Gathered, GetAverageImpact, NoEvidence, PairOf
<1>5. PairOf(impact)' = PairOf(impact)
  BY <1>1 DEF PairOf
<1>6. QED
  BY <1>1, <1>2, <1>3, <1>4, <1>5 DEF EvidenceInv

\* The evidence of a walk under way stays what the stores hold.
LEMMA EvidenceStep ==
  ASSUME EvidenceInv, [PredictionsNext]_predictionVars
  PROVE  EvidenceInv'
<1> USE DEF redisVars
<1>1. ASSUME \/ TimePasses \/ DelayChanges \/ GetNext \/ ReadFails \/ AskDelays \/ AskPrediction
             \/ AskBlastRadius \/ AskReliability \/ TransferBroken \/ EndListing \/ Count
             \/ BlastRoute \/ EndBlastScan \/ BlastDelay \/ EndBlast \/ TakeSlot
             \/ Finish \/ Return \/ BeginTracking
             \/ BaselineRoute \/ EndBaselineScan \/ Track \/ Judge \/ JudgeUnrecorded
      PROVE  stage' # "walking"
  BY <1>1 DEF TimePasses, DelayChanges, GetNext, ReadFails, ScanStages, Scanning,
       Asked, AskDelays, AskPrediction, AskBlastRadius, AskReliability, TransferBroken, EndListing,
       Count, BlastRoute, EndBlastScan, BlastDelay, EndBlast, TakeSlot, Finish, Return,
       BeginTracking, BaselineRoute, EndBaselineScan, Track, Judge, JudgeUnrecorded
<1>2. ASSUME (\E item \in queue : Pop(item)) \/ UNCHANGED predictionVars
      PROVE  UNCHANGED <<stage, evidence, pairs, impact, now>>
  BY <1>2 DEF predictionVars, walkVars, foundVars, Pop
<1>3. ASSUME stage' # "walking" PROVE EvidenceInv'
  BY <1>3 DEF EvidenceInv
<1>4. ASSUME UNCHANGED <<stage, evidence, pairs, impact, now>> PROVE EvidenceInv'
  BY <1>4 DEF EvidenceInv, PairOf
<1>5. QED
  BY <1>1, <1>2, <1>3, <1>4, EvidenceStart DEF PredictionsNext

\* The counts of a set and of its values under an injection.
LEMMA RecentOnesCounted ==
  ASSUME HistoryInv, now \in Moments, NEW imp
  PROVE  LET found == Recent(pairs, PairOf(imp), now)
             mine(oldest) == {i \in LoggedFor(imp) : log[i].at >= oldest}
         IN /\ IsFiniteSet(found)
            /\ Cardinality(mine(now - Retention + 1)) <= Cardinality(found)
            /\ Cardinality(found) <= Cardinality(mine(now - Retention))
<1> DEFINE K == PairOf(imp)
           found == Recent(pairs, K, now)
           mine(oldest) == {i \in LoggedFor(imp) : log[i].at >= oldest}
<1>1. Keeps(pairs, log, now, Primaries(log), Keys(log)) /\ DOMAIN log = 1..Len(log)
      /\ Len(log) \in Nat /\ now \in Int
      /\ \A n \in DOMAIN log : log[n].at \in Int
  BY PredictionsAssumption DEF HistoryInv, Moments
<1>2. \A n \in DOMAIN log : n \in LoggedFor(imp) <=> n \in Primaries(log) /\ Keys(log)[n] = K
  BY DEF LoggedFor, Primaries, Keys, KeyOf, PairOf, PairKey
<1>3. IsFiniteSet(DOMAIN log)
  <2>1. 1 \in Int /\ Len(log) \in Int
    BY <1>1
  <2>2. IsFiniteSet(1..Len(log))
    BY <2>1, FS_Interval
  <2>3. QED
    BY <2>2, <1>1
<1>4. \A o : IsFiniteSet(mine(o)) /\ mine(o) \subseteq DOMAIN log
  BY <1>3, FS_Subset DEF LoggedFor
<1>5. \A n \in DOMAIN log : Entry(log, n).at = log[n].at /\ Entry(log, n).nanos = n
  BY DEF Entry, Member
<1>6. found \subseteq {Entry(log, n) : n \in mine(now - Retention)}
  <2>1. ASSUME NEW o \in found PROVE \E n \in mine(now - Retention) : o = Entry(log, n)
    <3>1. K \in DOMAIN pairs /\ o \in pairs[K] /\ o.at >= now - Retention
      BY DEF Recent, Outcomes, NoOutcomes
    <3>2. PICK n \in Primaries(log) : Keys(log)[n] = K /\ o = Entry(log, n)
      BY <3>1, <1>1 DEF Keeps
    <3>3. n \in DOMAIN log
      BY DEF Primaries
    <3>4. n \in mine(now - Retention)
      BY <3>1, <3>2, <3>3, <1>2, <1>5
    <3>5. QED
      BY <3>2, <3>4
  <2>2. QED
    BY <2>1
<1>7. IsFiniteSet(found) /\ Cardinality(found) <= Cardinality(mine(now - Retention))
  <2> DEFINE S == mine(now - Retention)
             f == [n \in S |-> Entry(log, n)]
  <2>1. IsFiniteSet({f[n] : n \in S}) /\ Cardinality({f[n] : n \in S}) <= Cardinality(S)
    <3> HIDE DEF f, S
    <3>1. IsFiniteSet(S)
      BY <1>4 DEF S
    <3>2. QED
      BY <3>1, ValuesFinite
  <2>2. found \subseteq {f[n] : n \in S}
    BY <1>6
  <2> DEFINE V == {f[n] : n \in S}
  <2> HIDE DEF V, found, S
  <2>3. IsFiniteSet(found) /\ Cardinality(found) <= Cardinality(V)
    BY <2>1, <2>2, FS_Subset DEF V
  <2>4. Cardinality(found) \in Nat /\ Cardinality(V) \in Nat /\ Cardinality(S) \in Nat
    BY <2>1, <2>3, <1>4, FS_CardinalityType DEF V, S
  <2>5. QED
    BY <2>1, <2>3, <2>4 DEF V, S
<1>8. Cardinality(mine(now - Retention + 1)) <= Cardinality(found)
  <2> DEFINE S == mine(now - Retention + 1)
             f == [o \in found |-> o.nanos]
             V == {f[o] : o \in found}
  <2>1. S \subseteq V
    <3>1. ASSUME NEW n \in S PROVE \E o \in found : n = o.nanos
      <4>1. n \in DOMAIN log /\ n \in LoggedFor(imp) /\ log[n].at >= now - Retention + 1
        BY DEF LoggedFor
      <4>2. Young(log[n].at, now) /\ log[n].at >= now - Retention
        BY <4>1, <1>1, HistoryAssumption DEF Young
      <4>3. K \in DOMAIN pairs /\ Entry(log, n) \in pairs[K]
        BY <4>1, <4>2, <1>1, <1>2 DEF Keeps
      <4>4. Entry(log, n) \in found
        BY <4>1, <4>2, <4>3, <1>5 DEF Recent, Outcomes
      <4>5. QED
        BY <4>1, <4>4, <1>5
    <3>2. QED
      BY <3>1
  <2> HIDE DEF f, found, S
  <2>2. IsFiniteSet(V) /\ Cardinality(V) <= Cardinality(found)
    BY <1>7, ValuesFinite
  <2> HIDE DEF V
  <2>3. IsFiniteSet(S) /\ Cardinality(S) <= Cardinality(V)
    BY <2>1, <2>2, FS_Subset
  <2>4. Cardinality(found) \in Nat /\ Cardinality(V) \in Nat /\ Cardinality(S) \in Nat
    BY <2>2, <2>3, <1>7, FS_CardinalityType
  <2>5. QED
    BY <2>2, <2>3, <2>4 DEF S
<1>9. QED
  BY <1>7, <1>8

\* An estimate rests on the outcomes filed for its pair in its hour and on no other
\* (Propagate, GetAverageImpact, sweepOnce).
THEOREM EstimatesRestOnOutcomes == PredictionsSpec => []EvidenceIsOutcomes
<1> DEFINE Inv == HistoryInv /\ now \in Moments /\ EvidenceInv
<1>1. PredictionsInit => Inv
  BY HistoryInit, TimeInit DEF PredictionsInit, EvidenceInv
<1>2. Inv /\ [PredictionsNext]_predictionVars => Inv'
  BY HistoryStep, TimeStep, EvidenceStep
<1>3. Inv => EvidenceIsOutcomes
  <2>1. SUFFICES ASSUME HistoryInv, now \in Moments, EvidenceInv, stage = "walking", evidence.read
                 PROVE  EvidenceIsOutcomes!2
    BY DEF EvidenceIsOutcomes
  <2>2. evidence.count = Cardinality(Recent(pairs, PairOf(impact), now))
    BY <2>1 DEF EvidenceInv, Evidence
  <2>3. QED
    BY <2>1, <2>2, RecentOnesCounted
<1>4. QED
  BY <1>1, <1>2, <1>3, PTL DEF PredictionsSpec

-----------------------------------------------------------------------------
(* The engine's numbers.                                                   *)

\* The configuration's parameters are numbers, the elasticity a share.
LEMMA ConfigTyped ==
  /\ \A f \in DOMAIN DefaultConfig : Cfg[f] \in Nat
  /\ Cfg.baseDwell \in Nat /\ Cfg.elasticity \in 0..10 /\ Cfg.loadIncrease \in Nat
  /\ Cfg.minDelay \in Nat /\ Cfg.maxDepth \in Nat /\ Cfg.maxImpacts \in Nat /\ Cfg.perStopMin \in Nat
<1>1. DefaultConfig \in [DOMAIN DefaultConfig -> Nat]
  BY DEF DefaultConfig
<1>2. Cfg \in [DOMAIN DefaultConfig -> Nat]
  <2>1. CASE GivenConfig = NoConfig
    BY <2>1, <1>1 DEF Cfg
  <2>2. CASE GivenConfig # NoConfig
    <3>1. GivenConfig \in [DOMAIN DefaultConfig -> Nat]
      BY <2>2, CascadeAssumption
    <3>2. QED
      BY <3>1, <2>2, <1>1 DEF Cfg, LoadConfig, WithDefaults
  <2>3. QED
    BY <2>1, <2>2
<1>3. DOMAIN DefaultConfig = {"baseDwell", "elasticity", "loadIncrease", "decay", "minConfidence",
                              "minDelay", "maxDepth", "maxImpacts", "perStopMin"}
  BY DEF DefaultConfig
<1> HIDE DEF DefaultConfig
<1>4. QED
  BY <1>2, <1>3, CascadeAssumption

\* Rounding gives an integer.
LEMMA RoundedTyped ==
  ASSUME NEW p \in Int, NEW q \in Int, q > 0
  PROVE  Rounded(p, q) \in Int
BY DEF Rounded

\* The extra dwell of a stop is an integer.
LEMMA DwellTyped == ExtraDwell \in Int
<1>1. Cfg.baseDwell * Cfg.loadIncrease \in Int
  BY ConfigTyped
<1>2. Cfg.baseDwell * Cfg.loadIncrease * Cfg.elasticity \in Int
  BY <1>1, ConfigTyped
<1>3. QED
  BY <1>2, RoundedTyped DEF ExtraDwell

\* A blend of outcomes and model is an integer.
LEMMA BlendedTyped ==
  ASSUME NEW e, e.sum \in Int, e.count \in Nat, NEW thousandths \in Int
  PROVE  Blended(e, thousandths) \in Int
<1>1. Shrinkage * thousandths \in Int
  BY CascadeAssumption
<1>2. 1000 * e.sum + Shrinkage * thousandths \in Int
  BY <1>1
<1>3. 1000 * (e.count + Shrinkage) \in Int /\ 1000 * (e.count + Shrinkage) > 0
  BY CascadeAssumption
<1>4. QED
  BY <1>2, <1>3, RoundedTyped DEF Blended

LiveTyped(lv) == IsFiniteSet(lv) /\ \A s \in lv : s.delay \in Int

\* The live delay of a route at a station is an integer, 0 when there is none.
LEMMA LiveDelayTyped ==
  ASSUME NEW lv, LiveTyped(lv), NEW route, NEW station
  PROVE  LiveDelay(lv, route, station) \in Nat
<1> DEFINE D == {d \in lv : d.route = route /\ Station(Graph, d.stop) = station}
           f == [s \in D |-> s.delay]
           V == {s.delay : s \in D}
<1>1. IsFiniteSet(D)
  BY FS_Subset DEF LiveTyped
<1>2. IsFiniteSet({f[s] : s \in D})
  <2> HIDE DEF f, D
  <2>1. QED
    BY <1>1, ValuesFinite
<1>3. V = {f[s] : s \in D} /\ V \subseteq Int
  BY DEF LiveTyped
<1> HIDE DEF V, f, D
<1>4. IsFiniteSet({0} \cup V)
  <2>1. IsFiniteSet({0})
    BY FS_Singleton
  <2>2. QED
    BY <2>1, <1>2, <1>3, FS_Union
<1>5. Max({0} \cup V) \in Int /\ Max({0} \cup V) >= 0
  BY <1>3, <1>4, MaxIs
<1>6. QED
  BY <1>5 DEF LiveDelay, V, D

\* A headway is a number when there is one.
LEMMA HeadwayTyped ==
  ASSUME NEW route, NEW dir, NEW stop, NEW tod
  PROVE  GetScheduledHeadway(Graph, route, dir, stop, tod) \in Nat \cup {NoHeadway}
<1> DEFINE g == Graph
           Bucket(hour) == [route |-> route, dir |-> dir, station |-> Station(g, stop), hour |-> hour]
           hour == tod \div Hour
<1>1. \A b \in DOMAIN g.headways : g.headways[b] \in Nat
  BY CascadeAssumption DEF WellFormed
<1> HIDE DEF g
<1>2. CASE Bucket(hour) \in DOMAIN g.headways
  BY <1>1, <1>2 DEF GetScheduledHeadway, g
<1>3. CASE Bucket(hour) \notin DOMAIN g.headways
  BY <1>1, <1>3 DEF GetScheduledHeadway, g
<1>4. QED
  BY <1>2, <1>3

\* The schedule's estimate is an integer.
LEMMA EstimateTyped ==
  ASSUME NEW imp, imp.delay \in Int, imp.wait \in Nat, NEW dir, NEW conn \in Int, NEW tod
  PROVE  ScheduleEstimate(imp, dir, conn, tod) \in Int
<1> DEFINE headway == GetScheduledHeadway(Graph, imp.to, dir, imp.station, tod)
           W == {1000 * imp.wait} \cup {250 * h : h \in {headway} \ {NoHeadway}}
           waited == Max(W)
           rides == IF waited > 0 THEN waited ELSE (imp.delay * Cfg.loadIncrease * Cfg.elasticity) \div 10
           cap == IF headway = NoHeadway THEN 1000 * MaxConnAdd ELSE 500 * headway
           C == {1000 * conn, cap}
<1>1. headway \in Nat \cup {NoHeadway}
  BY HeadwayTyped
<1> HIDE DEF headway
<1>2. waited \in Int
  <2>1. W = IF headway = NoHeadway THEN {1000 * imp.wait} ELSE {1000 * imp.wait} \cup {250 * headway}
    OBVIOUS
  <2>2. IsFiniteSet(W)
    <3> HIDE DEF W
    <3>1. PICK p, q : p = 1000 * imp.wait /\ q = 250 * headway
      OBVIOUS
    <3>2. W = {p} \/ W = {p, q}
      BY <2>1, <3>1
    <3>3. QED
      BY <3>2, PairFinite
  <2>3. W \subseteq Int /\ W # {}
    BY <1>1, <2>1
  <2> HIDE DEF W
  <2>4. QED
    BY <2>2, <2>3, MaxIs
<1>3. imp.delay * Cfg.loadIncrease * Cfg.elasticity \in Int
  <2>1. imp.delay * Cfg.loadIncrease \in Int
    BY ConfigTyped
  <2>2. QED
    BY <2>1, ConfigTyped
<1> HIDE DEF waited
<1>4. rides \in Int
  BY <1>2, <1>3
<1>5. Min(C) \in Int
  <2>1. cap \in Int
    BY <1>1, CascadeAssumption
  <2> HIDE DEF cap
  <2>2. IsFiniteSet(C)
    <3>1. PICK p, q : p = 1000 * conn /\ q = cap
      OBVIOUS
    <3>2. C = {p, q}
      BY <3>1
    <3> HIDE DEF C
    <3>3. QED
      BY <3>2, PairFinite
  <2>3. C \subseteq Int /\ C # {}
    BY <2>1
  <2> HIDE DEF C
  <2>4. QED
    BY <2>2, <2>3, MinIs
<1> HIDE DEF rides, C
<1>6. ScheduleEstimate(imp, dir, conn, tod)
        = IF imp.from # NoRoute /\ imp.from = imp.to THEN 1000 * imp.delay ELSE rides + Min(C)
  BY DEF ScheduleEstimate, headway, waited, rides, C
<1>7. QED
  BY <1>4, <1>5, <1>6

\* The rest of a trip of the route.
RestOfTrip(rows, route) ==
  \E t \in DOMAIN Graph.byTrip : \E m \in 1..Len(Graph.byTrip[t]) :
    Graph.route[t] = route /\ rows = SubSeq(Graph.byTrip[t], m, Len(Graph.byTrip[t]))

\* The stops downstream are the rest of a trip, if there are any.
LEMMA RowsOfTrip ==
  ASSUME NEW route, NEW stop, NEW dir
  PROVE  \/ GetDownstreamStops(Graph, route, stop, dir) = <<>>
         \/ RestOfTrip(GetDownstreamStops(Graph, route, stop, dir), route)
<1> DEFINE g == Graph
           R == IndexedRow(g)
           station == Station(g, stop)
           rows  == StopTimesAt(g, stop)
           going == {k \in DOMAIN rows : /\ g.route[rows[k].trip] = route
                                         /\ g.dir[rows[k].trip] = dir
                                         /\ CallsAt(g, rows[k].trip, station) # {}}
           trip == rows[Min(going)].trip
           calls == CallsAt(g, trip, station)
<1>1. rows \in Seq(R)
  BY CascadeAssumption DEF WellFormed, StopTimesAt
<1>2. \A t \in DOMAIN g.byTrip : g.byTrip[t] \in Seq(R)
  BY CascadeAssumption DEF WellFormed
<1>3. GetDownstreamStops(g, route, stop, dir)
        = IF going = {} THEN <<>> ELSE SubSeq(g.byTrip[trip], Min(calls) + 1, Len(g.byTrip[trip]))
  BY DEF GetDownstreamStops
<1>4. ASSUME going # {}
      PROVE  RestOfTrip(SubSeq(g.byTrip[trip], Min(calls) + 1, Len(g.byTrip[trip])), route)
  <2>1. going \subseteq 1..Len(rows) /\ Len(rows) \in Nat
    BY <1>1
  <2>2. IsFiniteSet(going)
    <3>1. IsFiniteSet(1..Len(rows))
      BY <2>1, FS_Interval
    <3>2. QED
      BY <3>1, <2>1, FS_Subset
  <2>3. Min(going) \in going
    <3> HIDE DEF going
    <3>1. QED
      BY <1>4, <2>1, <2>2, MinIs
  <2>4. trip \in DOMAIN g.byTrip /\ calls # {} /\ g.route[trip] = route
    <3>1. PICK k : /\ k = Min(going) /\ k \in 1..Len(rows) /\ CallsAt(g, rows[k].trip, station) # {}
                   /\ g.route[rows[k].trip] = route
      BY <2>1, <2>3
    <3>2. rows[k] \in R
      <4> HIDE DEF rows, going, R
      <4>1. QED
        BY <3>1, <1>1
    <3>3. rows[k].trip \in DOMAIN g.byTrip
      BY <3>2 DEF IndexedRow
    <3>4. QED
      BY <3>1, <3>3
  <2> HIDE DEF g, trip
  <2>5. PICK s : s = g.byTrip[trip] /\ s \in Seq(R) /\ Len(s) \in Nat
    BY <1>2, <2>4
  <2>6. calls \subseteq 1..(Len(s) - 1)
    BY <2>5 DEF CallsAt
  <2>7. Min(calls) \in 1..(Len(s) - 1)
    <3>1. IsFiniteSet(1..(Len(s) - 1))
      BY <2>5, FS_Interval
    <3>2. IsFiniteSet(calls)
      BY <2>6, <3>1, FS_Subset
    <3>3. calls \subseteq Int
      BY <2>6, <2>5
    <3> HIDE DEF calls
    <3>4. QED
      BY <2>4, <2>6, <3>2, <3>3, MinIs
  <2> HIDE DEF calls
  <2>8. Min(calls) + 1 \in 1..Len(s)
    BY <2>5, <2>7
  <2>9. QED
    BY <2>4, <2>5, <2>8 DEF RestOfTrip, g
<1>5. QED
  BY <1>3, <1>4

\* They are rows of the graph.
LEMMA RowsTyped ==
  ASSUME NEW route, NEW stop, NEW dir
  PROVE  GetDownstreamStops(Graph, route, stop, dir) \in Seq(IndexedRow(Graph))
<1>1. PICK rows : rows = GetDownstreamStops(Graph, route, stop, dir)
  OBVIOUS
<1>2. CASE rows = <<>>
  BY <1>1, <1>2
<1>3. CASE RestOfTrip(rows, route)
  <2>1. PICK t, m : /\ t \in DOMAIN Graph.byTrip /\ m \in 1..Len(Graph.byTrip[t])
                    /\ rows = SubSeq(Graph.byTrip[t], m, Len(Graph.byTrip[t]))
    BY <1>3 DEF RestOfTrip
  <2>2. PICK s : s = Graph.byTrip[t] /\ s \in Seq(IndexedRow(Graph)) /\ Len(s) \in Nat
    BY <2>1, CascadeAssumption DEF WellFormed
  <2>3. \A i \in m..Len(s) : s[i] \in IndexedRow(Graph)
    BY <2>1, <2>2
  <2>4. QED
    BY <1>1, <2>1, <2>2, <2>3, SubSeqProperties
<1>4. QED
  BY <1>1, <1>2, <1>3, RowsOfTrip

\* A first part of them calls at a station once.
LEMMA RowsApart ==
  ASSUME NoLoops, MaxDecay \in Nat, NEW route, NEW stop, NEW dir, NEW rows,
         rows = GetDownstreamStops(Graph, route, stop, dir),
         NEW i \in DOMAIN rows, 1 < i, i <= MaxDecay
  PROVE  Station(Graph, rows[1].stop) # Station(Graph, rows[i].stop)
<1>1. RestOfTrip(rows, route)
  BY RowsOfTrip
<1>2. PICK t, m : /\ t \in DOMAIN Graph.byTrip /\ m \in 1..Len(Graph.byTrip[t])
                  /\ rows = SubSeq(Graph.byTrip[t], m, Len(Graph.byTrip[t]))
  BY <1>1 DEF RestOfTrip
<1>3. PICK s : s = Graph.byTrip[t] /\ s \in Seq(IndexedRow(Graph)) /\ Len(s) \in Nat
  BY <1>2, CascadeAssumption DEF WellFormed
<1>4. \A k \in m..Len(s) : s[k] \in IndexedRow(Graph)
  BY <1>2, <1>3
<1>5. /\ rows \in Seq(IndexedRow(Graph)) /\ Len(rows) = (Len(s) - m) + 1
      /\ \A k \in 1..((Len(s) - m) + 1) : rows[k] = s[(m + k) - 1]
  BY <1>2, <1>3, <1>4, SubSeqProperties
<1>6. /\ i \in 1..((Len(s) - m) + 1) /\ 1 \in 1..((Len(s) - m) + 1)
      /\ (m + 1) - 1 = m /\ m \in DOMAIN s
      /\ (m + i) - 1 \in DOMAIN s /\ m < (m + i) - 1 /\ (m + i) - 1 < m + MaxDecay
  BY <1>2, <1>3, <1>5
<1>7. rows[1] = s[m] /\ rows[i] = s[(m + i) - 1]
  BY <1>5, <1>6
<1>8. \A a, b \in DOMAIN s : a < b /\ b < a + MaxDecay =>
        Station(Graph, s[a].stop) # Station(Graph, s[b].stop)
  BY <1>2, <1>3 DEF NoLoops
<1>9. QED
  BY <1>6, <1>7, <1>8

StoreTyped(store) ==
  \A k \in DOMAIN store : IsFiniteSet(store[k]) /\ \A o \in store[k] : o.value \in Nat

\* Evidence is a sum and a count.
LEMMA EvidenceTyped ==
  ASSUME NEW store, StoreTyped(store), NEW k, NEW t
  PROVE  Evidence(store, k, t).sum \in Int /\ Evidence(store, k, t).count \in Nat
<1> DEFINE S == Recent(store, k, t)
<1>1. IsFiniteSet(S)
  <2>1. IsFiniteSet(Outcomes(store, k))
    BY FS_EmptySet DEF StoreTyped, Outcomes, NoOutcomes
  <2>2. QED
    BY <2>1, FS_Subset DEF Recent
<1>2. \A o \in S : o.value \in Nat
  BY DEF StoreTyped, Recent, Outcomes, NoOutcomes
<1>3. PICK top \in Int : \A o \in S : o.value <= top
  <2> DEFINE f == [o \in S |-> o.value]
             V == {f[o] : o \in S} \cup {0}
  <2>1. IsFiniteSet(V)
    <3> HIDE DEF f, S
    <3>1. IsFiniteSet({f[o] : o \in S})
      BY <1>1, ValuesFinite
    <3>2. QED
      BY <3>1, FS_AddElement
  <2>2. V \subseteq Int /\ V # {} /\ \A o \in S : o.value \in V
    BY <1>2
  <2> HIDE DEF V, S
  <2>3. Max(V) \in Int /\ \A v \in V : v <= Max(V)
    BY <2>1, <2>2, MaxIs
  <2>4. QED
    BY <2>2, <2>3
<1> HIDE DEF S
<1>4. \A o \in S : o.value \in 0..top
  BY <1>2, <1>3
<1>5. MapThenSumSet(LAMBDA o : o.value, S) \in Int
  <2>1. 0 \in Int
    OBVIOUS
  <2>2. QED
    BY <1>1, <1>4, <2>1, SumOfValues
<1>6. Cardinality(S) \in Nat
  BY <1>1, FS_CardinalityType
<1>7. QED
  BY <1>5, <1>6 DEF Evidence, S

\* A stop's learnt delay is an integer.
LEMMA PerStopTyped ==
  ASSUME NEW store, StoreTyped(store), NEW route, NEW station, NEW hour, NEW t, NEW modelled \in Int
  PROVE  PerStop(store, route, station, hour, t, modelled) \in Int
<1>1. 1000 * modelled \in Int
  OBVIOUS
<1>2. PICK e : e = Evidence(store, StopKey(route, station, hour), t) /\ e.sum \in Int /\ e.count \in Nat
  BY EvidenceTyped
<1>3. Blended(e, 1000 * modelled) \in Int
  BY <1>1, <1>2, BlendedTyped
<1>4. QED
  BY <1>2, <1>3 DEF PerStop, GetAverageStopImpact

\* What a seeded item carries.
LEMMA Seeded ==
  ASSUME NEW store, StoreTyped(store), NEW t, NEW hour, NEW route, NEW station, NEW dir,
         NEW start \in Int, NEW decay \in Nat, NEW hops, NEW kind,
         NEW item \in Seed(store, t, hour, route, station, dir, start, decay, hops, kind)
  PROVE  /\ item.route = route /\ item.hops = hops /\ item.kind = kind
         /\ item.delay \in Int /\ item.decay \in Nat /\ item.decay >= decay
<1> DEFINE rows == GetDownstreamStops(Graph, route, station, dir)
           stopOf(i) == Station(Graph, rows[i].stop)
<1>1. DOMAIN rows = 1..Len(rows) /\ Len(rows) \in Nat
  BY RowsTyped
<1> HIDE DEF rows
<1>2. PICK i \in DOMAIN rows :
        item = [route |-> route, stop |-> stopOf(i), hops |-> hops, kind |-> kind,
                delay |-> IF i = 1 THEN start
                   ELSE PerStop(store, route, stopOf(i), hour, t, start + (i - 1) * ExtraDwell),
                decay |-> IF i = 1 THEN decay ELSE decay + i]
  BY DEF Seed, rows
<1>3. i \in Nat \ {0}
  BY <1>1
<1>4. start + (i - 1) * ExtraDwell \in Int
  <2>1. (i - 1) * ExtraDwell \in Int
    BY <1>3, DwellTyped
  <2>2. QED
    BY <2>1
<1>5. item.delay \in Int
  BY <1>2, <1>4, PerStopTyped
<1>6. item.decay \in Nat /\ item.decay >= decay
  BY <1>2, <1>3
<1>7. QED
  BY <1>2, <1>5, <1>6

-----------------------------------------------------------------------------
(* The impact in hand.                                                     *)

WalkStages == {"walking", "walked", "baselines", "baselineScan", "tracked"}

\* Who called, and the impact to propagate.
CallInv ==
  /\ budget \in [menu : SUBSET Call, requests : Nat, writes : Nat, faults : Nat]
  /\ \A h \in jobs : h.key \in KeyIds /\ h.value \in State
  /\ stage \in {"queued", "snapshot", "walking"} => impact.delay \in Int /\ impact.wait \in Nat

\* Nothing is asked at the start.
LEMMA CallInit == PredictionsInit => CallInv
BY PredictionsAssumption DEF PredictionsInit, CallInv

\* A call's fields, by its kind.
LEMMA CallKinds ==
  ASSUME NEW r \in Call
  PROVE  /\ r.kind = "broken" => r.impact \in BrokenImpact
         /\ r.kind = "predict" => r.key \in KeyIds
         /\ r.kind = "delays" => r.route \in Routes \cup {Everything}
BY DEF Call, Request, RouteDelaysRequest, PredictImpactRequest, BlastRadiusRequest, ReliabilityRequest

\* Budgets are spent and never go below nothing.
LEMMA BudgetStep ==
  ASSUME CallInv, [PredictionsNext]_predictionVars
  PROVE  budget' \in [menu : SUBSET Call, requests : Nat, writes : Nat, faults : Nat]
<1> DEFINE B == [menu : SUBSET Call, requests : Nat, writes : Nat, faults : Nat]
<1>1. budget \in B
  BY DEF CallInv
<1> HIDE DEF B
<1>2. budget.requests \in Nat /\ budget.writes \in Nat /\ budget.faults \in Nat
  BY <1>1 DEF B
<1>3. ASSUME NEW m \in Nat PROVE /\ [budget EXCEPT !.requests = m] \in B
                                 /\ [budget EXCEPT !.writes = m] \in B
                                 /\ [budget EXCEPT !.faults = m] \in B
  BY <1>1 DEF B
<1>4. ASSUME \/ TimePasses \/ GetNext \/ EndListing \/ Count
             \/ BlastRoute \/ EndBlastScan \/ BlastDelay \/ EndBlast \/ TakeSlot
             \/ (\E item \in queue : Pop(item)) \/ Finish \/ Return \/ BeginTracking
             \/ BaselineRoute \/ EndBaselineScan \/ Track \/ Judge
             \/ UNCHANGED predictionVars
      PROVE  budget' = budget
  BY <1>4 DEF predictionVars, TimePasses, GetNext, EndListing,
       Count, BlastRoute, EndBlastScan, BlastDelay, EndBlast, TakeSlot, Pop, Finish, Return,
       BeginTracking, BaselineRoute, EndBaselineScan, Track, Judge
<1>5. ASSUME AskDelays \/ AskPrediction \/ AskBlastRadius \/ AskReliability \/ TransferBroken
      PROVE  budget.requests > 0 /\ budget' = [budget EXCEPT !.requests = budget.requests - 1]
  BY <1>5 DEF Asked, AskDelays, AskPrediction, AskBlastRadius, AskReliability, TransferBroken
<1>6. ASSUME DelayChanges
      PROVE  budget.writes > 0 /\ budget' = [budget EXCEPT !.writes = budget.writes - 1]
  BY <1>6 DEF DelayChanges
<1>7. ASSUME ReadFails \/ JudgeUnrecorded
      PROVE  budget.faults > 0 /\ budget' = [budget EXCEPT !.faults = budget.faults - 1]
  BY <1>7 DEF ReadFails, JudgeUnrecorded
<1>8. ASSUME Start
      PROVE  \/ budget' = budget
             \/ budget.faults > 0 /\ budget' = [budget EXCEPT !.faults = budget.faults - 1]
  BY <1>8 DEF Start, Gathered
<1>9. budget' \in B
  <2>1. \A m \in Nat : m > 0 => m - 1 \in Nat
    OBVIOUS
  <2>2. CASE budget' = budget
    BY <2>2, <1>1
  <2>3. CASE budget.requests > 0 /\ budget' = [budget EXCEPT !.requests = budget.requests - 1]
    BY <2>3, <2>1, <1>2, <1>3
  <2>4. CASE budget.writes > 0 /\ budget' = [budget EXCEPT !.writes = budget.writes - 1]
    BY <2>4, <2>1, <1>2, <1>3
  <2>5. CASE budget.faults > 0 /\ budget' = [budget EXCEPT !.faults = budget.faults - 1]
    BY <2>5, <2>1, <1>2, <1>3
  <2>6. QED
    BY <2>2, <2>3, <2>4, <2>5, <1>4, <1>5, <1>6, <1>7, <1>8, Zenon DEF PredictionsNext
<1>10. QED
  BY <1>9 DEF B

\* Who calls takes a call from the menu.
LEMMA AskedFromMenu ==
  ASSUME CallInv, NEW kind, Asked(kind)
  PROVE  request' \in Call /\ request'.kind = kind
<1>1. budget.menu \subseteq Call
  BY DEF CallInv
<1>2. QED
  BY <1>1 DEF Asked

\* A moment has a time of day.
LEMMA ClockTyped ==
  ASSUME NEW t \in Moments
  PROVE  Clock[t] \in 0..(Day - 1)
BY PredictionsAssumption DEF Moments

\* Every step keeps the impact in hand a transfer impact.
LEMMA CallStep ==
  ASSUME CallInv, ScanInv, [PredictionsNext]_predictionVars
  PROVE  CallInv'
<1> USE DEF redisVars, askVars, walkVars
<1> DEFINE Propagating == {"queued", "snapshot", "walking"}
           Due == stage \in Propagating => impact.delay \in Int /\ impact.wait \in Nat
           Jobs == \A h \in jobs : h.key \in KeyIds /\ h.value \in State
<1>1. ASSUME \/ TimePasses \/ DelayChanges \/ GetNext \/ ReadFails \/ EndListing \/ Count
             \/ BlastRoute \/ EndBlast \/ TakeSlot \/ Start
             \/ (\E item \in queue : Pop(item)) \/ Finish \/ Return \/ BeginTracking
             \/ BaselineRoute \/ EndBaselineScan \/ Track \/ Judge \/ JudgeUnrecorded
             \/ UNCHANGED predictionVars
      PROVE  jobs' = jobs
  BY <1>1 DEF predictionVars, TimePasses, DelayChanges, GetNext, ReadFails, EndListing, Count,
       BlastRoute, EndBlast, TakeSlot, Start, Pop, Finish, Return,
       BeginTracking, BaselineRoute, EndBaselineScan, Track, Judge, JudgeUnrecorded
<1>2. ASSUME AskDelays \/ AskPrediction \/ AskBlastRadius \/ AskReliability \/ TransferBroken
      PROVE  jobs' = jobs
  BY <1>2 DEF Asked, AskDelays, AskPrediction, AskBlastRadius, AskReliability, TransferBroken
<1>3. ASSUME BlastDelay PROVE jobs' \subseteq jobs
  BY <1>3 DEF BlastDelay
<1>4. ASSUME EndBlastScan PROVE Jobs'
  <2>1. jobs' \subseteq scan.got
    BY <1>4 DEF EndBlastScan
  <2>2. \A h \in scan.got : h.key \in KeyIds /\ h.value \in State
    BY <1>4 DEF EndBlastScan, ScanInv, ScanRead, ScanStages
  <2>3. QED
    BY <2>1, <2>2
<1>5. Jobs'
  <2>1. Jobs
    BY DEF CallInv
  <2>2. CASE jobs' \subseteq jobs
    BY <2>1, <2>2
  <2>3. QED
    BY <2>2, <1>1, <1>2, <1>3, <1>4 DEF PredictionsNext
<1>6. ASSUME \/ TimePasses \/ DelayChanges \/ GetNext \/ ReadFails \/ TakeSlot
             \/ Start \/ (\E item \in queue : Pop(item)) \/ UNCHANGED predictionVars
      PROVE  impact' = impact /\ (stage' \in Propagating => stage \in Propagating)
  BY <1>6 DEF predictionVars, TimePasses, DelayChanges, GetNext, ReadFails, TakeSlot, Start, Pop
<1>7. ASSUME \/ AskDelays \/ AskBlastRadius \/ AskReliability \/ EndListing \/ Count
             \/ BlastRoute \/ EndBlastScan \/ EndBlast \/ Finish \/ Return \/ BeginTracking
             \/ BaselineRoute \/ EndBaselineScan \/ Track \/ Judge \/ JudgeUnrecorded
      PROVE  stage' \notin Propagating
  BY <1>7 DEF AskDelays, AskBlastRadius, AskReliability, EndListing, Count, BlastRoute, EndBlastScan,
       EndBlast, Finish, Return, BeginTracking, BaselineRoute, EndBaselineScan, Track,
       Judge, JudgeUnrecorded, Asked
<1>8. ASSUME AskPrediction PROVE Due'
  <2>1. CASE stored[request'.key] = NoState
    BY <1>8, <2>1 DEF AskPrediction
  <2>2. CASE stored[request'.key] # NoState
    <3>1. request'.key \in KeyIds
      BY <1>8, AskedFromMenu, CallKinds DEF AskPrediction
    <3>2. stored[request'.key] \in State
      BY <3>1, <2>2 DEF ScanInv
    <3>3. impact' = SelfImpact(request'.key)
      BY <1>8, <2>2 DEF AskPrediction
    <3>4. PICK k : k = request'.key
      OBVIOUS
    <3>5. SelfImpact(k).delay \in Int /\ SelfImpact(k).wait \in Nat
      BY <3>2, <3>4, PredictionsAssumption DEF SelfImpact, State
    <3>6. QED
      BY <3>3, <3>4, <3>5
  <2>3. QED
    BY <2>1, <2>2
<1>9. ASSUME TransferBroken PROVE Due'
  <2>1. request'.impact \in BrokenImpact
    BY <1>9, AskedFromMenu, CallKinds DEF TransferBroken
  <2>2. PICK i : i = request'.impact
    OBVIOUS
  <2>3. impact' = [i EXCEPT !.detected = Clock[now]]
    BY <1>9, <2>2 DEF TransferBroken
  <2>4. [i EXCEPT !.detected = Clock[now]].delay \in Int /\ [i EXCEPT !.detected = Clock[now]].wait \in Nat
    BY <2>1, <2>2 DEF BrokenImpact
  <2>5. QED
    BY <2>3, <2>4
<1>10. ASSUME BlastDelay PROVE Due'
  <2>1. PICK h \in jobs : impact' = BlastImpact(h, Station(Graph, request.station))
    BY <1>10 DEF BlastDelay
  <2>2. h.value \in State
    BY DEF CallInv
  <2>3. impact'.delay = h.value.delay /\ impact'.wait = 0
    BY <2>1 DEF BlastImpact
  <2>4. h.value.delay \in Int
    BY <2>2, PredictionsAssumption DEF State
  <2>5. impact'.delay \in Int /\ impact'.wait \in Nat
    BY <2>3, <2>4
  <2>6. QED
    BY <2>5
<1>11. Due'
  <2>1. Due
    BY DEF CallInv
  <2>2. CASE stage' \notin Propagating
    BY <2>2
  <2>3. CASE impact' = impact /\ (stage' \in Propagating => stage \in Propagating)
    BY <2>1, <2>3
  <2> HIDE DEF Due
  <2>4. QED
    BY <2>2, <2>3, <1>6, <1>7, <1>8, <1>9, <1>10, Zenon DEF PredictionsNext
<1>12. QED
  BY <1>5, <1>11, BudgetStep DEF CallInv

-----------------------------------------------------------------------------
(* Causes.                                                                 *)

ItemTyped(q) == q.delay \in Int /\ q.decay \in Nat /\ q.hops \in Nat

\* An item on the receiving route, or with its cause among the first n impacts.
Caused(b, n, list, known, imp) ==
  \/ b.kind = "dwell" /\ b.route = imp.to /\ b.hops = 1
  \/ \E j \in 1..n : Triggers(known, list[j], b) \/ Ripples(list[j], b)

\* The result so far and what the heap holds.
Walked(list, heap, known, imp) ==
  /\ Len(list) \in Nat /\ list = [i \in 1..Len(list) |-> list[i]]
  /\ LiveTyped(known)
  /\ \A i \in 1..Len(list) : ItemTyped(list[i]) /\ Caused(list[i], i - 1, list, known, imp)
  /\ \A item \in heap : ItemTyped(item) /\ Caused(item, Len(list), list, known, imp)

WalkInv ==
  IF stage \in WalkStages THEN Walked(impacts, queue, live, impact)
  ELSE impacts = <<>> /\ queue = {} /\ visited = {}

\* A cause stays one when the result grows.
LEMMA CausedKept ==
  ASSUME NEW b, NEW n \in Nat, NEW m \in Nat, n <= m, NEW list, NEW longer, NEW known, NEW imp,
         Caused(b, n, list, known, imp), \A j \in 1..n : longer[j] = list[j]
  PROVE  Caused(b, m, longer, known, imp)
<1>1. \A j \in 1..n : j \in 1..m /\ longer[j] = list[j]
  OBVIOUS
<1>2. QED
  BY <1>1 DEF Caused

\* A minimum transfer time is a number of seconds.
LEMMA MinTimeTyped ==
  ASSUME NEW stop, NEW x \in GetTransfersFrom(Graph, stop)
  PROVE  MinTime(x) \in Nat
BY CascadeAssumption DEF GetTransfersFrom, WellFormed, MinTime

\* What is passed on is no more than the delay.
LEMMA PassedOnLess ==
  ASSUME NEW n \in Nat
  PROVE  PassedOn(n) \in Int /\ PassedOn(n) <= n
<1>1. PICK e \in 0..10 : e = Cfg.elasticity
  BY ConfigTyped
<1>2. n * e \in Nat /\ n * e <= n * 10
  <2>1. n * e = e * n /\ e \in {0, 1, 2, 3, 4, 5, 6, 7, 8, 9, 10}
    OBVIOUS
  <2>2. QED
    BY <2>1
<1>3. (n * e) \div 10 \in Int /\ (n * e) \div 10 <= n
  <2>1. PICK p \in Nat : p = n * e /\ p <= 10 * n
    BY <1>2
  <2>2. p \div 10 \in Int /\ p \div 10 <= n
    BY <2>1
  <2>3. QED
    BY <2>1, <2>2
<1>4. QED
  BY <1>1, <1>3 DEF PassedOn

\* The transfers an impact breaks, and the ripple it sends.
LEMMA CascadedCaused ==
  ASSUME NEW known, LiveTyped(known), NEW a, ItemTyped(a), Expands(a), NEW v,
         NEW b \in Cascaded(a, v, known)
  PROVE  ItemTyped(b) /\ Triggers(known, a, b)
<1>1. a.delay \in Nat
  BY ConfigTyped DEF ItemTyped, Expands
<1>2. PICK x : x \in BrokenTransfers(a, v, known) /\ b =
         [route |-> x[2], stop |-> x[1].to, delay |-> PassedOn(a.delay),
          decay |-> a.decay + 1, hops |-> a.hops + 1, kind |-> "transfer"]
  BY DEF Cascaded
<1>3. /\ x[1] \in GetTransfersFrom(Graph, a.stop) /\ x[2] # a.route
      /\ a.delay >= MinTime(x[1]) + LiveDelay(known, x[2], x[1].to)
  BY <1>2 DEF BrokenTransfers
<1>4. LiveDelay(known, x[2], x[1].to) \in Nat
  BY LiveDelayTyped
<1>5. MinTime(x[1]) \in Nat
  BY <1>3, MinTimeTyped
<1>6. a.delay - LiveDelay(known, x[2], x[1].to) >= MinTime(x[1])
  BY <1>1, <1>3, <1>4, <1>5
<1>7. PassedOn(a.delay) \in Int /\ PassedOn(a.delay) <= a.delay
  BY <1>1, PassedOnLess
<1>8. ItemTyped(b)
  BY <1>2, <1>7 DEF ItemTyped
<1>9. b.kind = "transfer" /\ b.route = x[2] /\ b.stop = x[1].to /\ b.hops = a.hops + 1
      /\ b.decay = a.decay + 1 /\ b.delay = PassedOn(a.delay)
  BY <1>2
<1>10. QED
  BY <1>3, <1>6, <1>7, <1>8, <1>9 DEF Triggers

\* A ripple's items follow from their transfer.
LEMMA RippledCaused ==
  ASSUME NEW store, StoreTyped(store), NEW a, ItemTyped(a), NEW t, NEW hour, NEW tod,
         NEW b \in Rippled(a, store, t, hour, tod)
  PROVE  ItemTyped(b) /\ Ripples(a, b)
<1>1. a.kind = "transfer"
  BY DEF Rippled
<1>2. PICK dir : b \in Seed(store, t, hour, a.route, a.stop, dir, a.delay, a.decay, a.hops, "cascadeDwell")
  BY <1>1 DEF Rippled
<1>3. /\ b.route = a.route /\ b.hops = a.hops /\ b.kind = "cascadeDwell"
      /\ b.delay \in Int /\ b.decay \in Nat /\ b.decay >= a.decay
  BY <1>2, Seeded DEF ItemTyped
<1>4. QED
  BY <1>1, <1>3 DEF ItemTyped, Ripples

\* The stores' outcomes are finitely many, with integer values.
LEMMA StoresTyped ==
  ASSUME HistoryInv
  PROVE  StoreTyped(pairs) /\ StoreTyped(stops)
<1>1. ASSUME NEW store, NEW mine, NEW key, mine \subseteq 1..Len(log),
             Keeps(store, log, now, mine, key)
      PROVE  StoreTyped(store)
  <2>1. \A n \in mine : Entry(log, n).value \in Nat
    BY <1>1 DEF HistoryInv, Entry, Member
  <2>2. QED
    BY <1>1, <2>1 DEF Keeps, StoreTyped
<1>2. Primaries(log) \subseteq 1..Len(log) /\ Others(log) \subseteq 1..Len(log)
  BY DEF HistoryInv, Primaries, Others
<1>3. QED
  BY <1>1, <1>2 DEF HistoryInv

\* The live delays are finitely many, with integer delays.
LEMMA SnapshotTyped ==
  ASSUME ScanInv, stage = "snapshot"
  PROVE  LiveTyped(Snapshot)
<1> DEFINE S == {g \in scan.got : scan.ok /\ g.value.delay > 0}
           f == [h \in S |-> [route |-> DelayKeys[h.key].route, stop |-> DelayKeys[h.key].stop,
                              delay |-> h.value.delay]]
<1>1. IsFiniteSet(scan.got) /\ \A h \in scan.got : h.value \in State
  BY DEF ScanInv, ScanRead, ScanStages
<1>2. IsFiniteSet(S)
  BY <1>1, FS_Subset
<1>3. IsFiniteSet({f[h] : h \in S})
  <2> HIDE DEF S, f
  <2>1. QED
    BY <1>2, ValuesFinite
<1>4. Snapshot = {f[h] : h \in S}
  BY DEF Snapshot
<1>5. \A s \in Snapshot : s.delay \in Int
  BY <1>1, PredictionsAssumption DEF Snapshot, State
<1>6. QED
  BY <1>3, <1>4, <1>5 DEF LiveTyped

\* A walk starts from an integer delay.
LEMMA StartTyped ==
  ASSUME HistoryInv, ScanInv, CallInv, Start
  PROVE  /\ LiveTyped(live') /\ StartDelay(impact, live', evidence') \in Int
         /\ queue' = Seed(stops, now, HourOf(impact.detected), impact.to, impact.station,
                          ImpactDirection(impact), StartDelay(impact, live', evidence'), 0, 1, "dwell")
<1>1. LiveTyped(live')
  BY SnapshotTyped DEF Start
<1>2. PICK lv, ev : lv = live' /\ ev = evidence'
  OBVIOUS
<1>3. ev.sum \in Int /\ ev.count \in Nat
  <2>1. ev \in Gathered
    BY <1>2 DEF Start
  <2>2. PICK found : /\ found = GetAverageImpact(pairs, impact.from, impact.to,
                               Station(Graph, impact.station), HourOf(impact.detected), now)
                     /\ found.sum \in Int /\ found.count \in Nat
    BY StoresTyped, EvidenceTyped DEF GetAverageImpact
  <2>3. ev = [sum |-> found.sum, count |-> found.count, read |-> TRUE] \/ ev = NoEvidence
    BY <2>1, <2>2 DEF Gathered
  <2>4. QED
    BY <2>2, <2>3 DEF NoEvidence
<1>4. LiveDelay(lv, impact.to, Station(Graph, impact.station)) \in Nat
  BY <1>1, <1>2, LiveDelayTyped
<1>5. impact.delay \in Int /\ impact.wait \in Nat
  BY DEF CallInv, Start
<1>6. ScheduleEstimate(impact, ImpactDirection(impact),
         LiveDelay(lv, impact.to, Station(Graph, impact.station)), impact.detected) \in Int
  BY <1>4, <1>5, EstimateTyped
<1>7. StartDelay(impact, lv, ev) \in Int
  BY <1>3, <1>6, BlendedTyped DEF StartDelay
<1>8. queue' = Seed(stops, now, HourOf(impact.detected), impact.to, impact.station,
                    ImpactDirection(impact), StartDelay(impact, lv, ev), 0, 1, "dwell")
  BY <1>2 DEF Start, StartDelay
<1>9. QED
  BY <1>1, <1>2, <1>7, <1>8

\* At the start of a walk every item is on the receiving route.
LEMMA WalkStarts ==
  ASSUME WalkInv, HistoryInv, ScanInv, CallInv, Start
  PROVE  WalkInv'
<1>1. impacts' = <<>> /\ impact' = impact /\ stage' = "walking"
  BY DEF WalkInv, Start, WalkStages
<1>2. /\ LiveTyped(live') /\ StartDelay(impact, live', evidence') \in Int
      /\ queue' = Seed(stops, now, HourOf(impact.detected), impact.to, impact.station,
                       ImpactDirection(impact), StartDelay(impact, live', evidence'), 0, 1, "dwell")
  BY StartTyped
<1>3. PICK start, known, heap :
        start = StartDelay(impact, live', evidence') /\ known = live' /\ heap = queue'
  OBVIOUS
<1>4. ASSUME NEW item \in heap PROVE ItemTyped(item) /\ Caused(item, 0, <<>>, known, impact)
  <2>1. /\ item.kind = "dwell" /\ item.route = impact.to /\ item.hops = 1
        /\ item.delay \in Int /\ item.decay \in Nat
    <3>1. item \in Seed(stops, now, HourOf(impact.detected), impact.to, impact.station,
                        ImpactDirection(impact), start, 0, 1, "dwell") /\ start \in Int
      BY <1>2, <1>3
    <3>2. 0 \in Nat
      OBVIOUS
    <3>3. QED
      BY <3>1, <3>2, StoresTyped, Seeded
  <2>2. QED
    BY <2>1 DEF ItemTyped, Caused
<1>5. Len(<<>>) = 0 /\ <<>> = [i \in 1..0 |-> <<>>[i]]
  OBVIOUS
<1>6. Walked(<<>>, heap, known, impact)
  BY <1>2, <1>3, <1>4, <1>5 DEF Walked
<1>7. QED
  BY <1>1, <1>3, <1>6 DEF WalkInv, WalkStages

\* Walking on keeps the causes of what is in the result and in the queue.
LEMMA WalkedOn ==
  ASSUME NEW list, NEW heap, NEW known, NEW imp, Walked(list, heap, known, imp), NEW item \in heap,
         NEW rest, \A q \in rest : q \notin heap =>
                       ItemTyped(q) /\ (Triggers(known, item, q) \/ Ripples(item, q))
  PROVE  Walked(Append(list, item), rest, known, imp)
<1> DEFINE n == Len(list)
<1>1. /\ n \in Nat /\ list = [i \in 1..n |-> list[i]] /\ LiveTyped(known)
      /\ \A i \in 1..n : ItemTyped(list[i]) /\ Caused(list[i], i - 1, list, known, imp)
      /\ \A q \in heap : ItemTyped(q) /\ Caused(q, n, list, known, imp)
  BY DEF Walked
<1>2. PICK longer : longer = Append(list, item)
  OBVIOUS
<1> HIDE DEF n
<1>3. /\ Len(longer) = n + 1 /\ longer = [i \in 1..(n + 1) |-> longer[i]]
      /\ longer[n + 1] = item /\ \A i \in 1..n : longer[i] = list[i]
  BY <1>1, <1>2, AppendAny DEF n
<1>4. ASSUME NEW b, NEW m \in Nat, NEW k \in Nat, m <= n, m <= k, Caused(b, m, list, known, imp)
      PROVE  Caused(b, k, longer, known, imp)
  <2>1. \A j \in 1..m : longer[j] = list[j]
    BY <1>1, <1>3, <1>4
  <2>2. QED
    BY <2>1, <1>4, CausedKept
<1>5. ASSUME NEW i \in 1..(n + 1)
      PROVE  ItemTyped(longer[i]) /\ Caused(longer[i], i - 1, longer, known, imp)
  <2>1. CASE i = n + 1
    <3>1. longer[i] = item /\ i - 1 = n /\ n <= n
      BY <2>1, <1>1, <1>3
    <3>2. ItemTyped(item) /\ Caused(item, n, longer, known, imp)
      BY <3>1, <1>1, <1>4
    <3>3. QED
      BY <3>1, <3>2
  <2>2. CASE i # n + 1
    <3>1. i \in 1..n /\ i - 1 \in Nat /\ i - 1 <= n /\ i - 1 <= i - 1
      BY <2>2, <1>1
    <3>2. PICK e : e = list[i] /\ e = longer[i]
      BY <3>1, <1>3
    <3>3. ItemTyped(e) /\ Caused(e, i - 1, list, known, imp)
      BY <3>1, <3>2, <1>1
    <3>4. Caused(e, i - 1, longer, known, imp)
      BY <3>1, <3>3, <1>4
    <3>5. QED
      BY <3>2, <3>3, <3>4
  <2>3. QED
    BY <2>1, <2>2
<1>6. ASSUME NEW q \in rest PROVE ItemTyped(q) /\ Caused(q, n + 1, longer, known, imp)
  <2>1. CASE q \in heap
    <3>1. n <= n /\ n <= n + 1 /\ n + 1 \in Nat
      BY <1>1
    <3>2. ItemTyped(q) /\ Caused(q, n, list, known, imp)
      BY <2>1, <1>1
    <3>3. QED
      BY <3>1, <3>2, <1>1, <1>4
  <2>2. CASE q \notin heap
    <3>1. n + 1 \in 1..(n + 1)
      BY <1>1
    <3>2. QED
      BY <2>2, <3>1, <1>3 DEF Caused
  <2>3. QED
    BY <2>1, <2>2
<1>7. n + 1 \in Nat
  BY <1>1
<1>8. QED
  BY <1>1, <1>2, <1>3, <1>5, <1>6, <1>7 DEF Walked

\* Taking an item from the queue keeps the causes.
LEMMA WalkPops ==
  ASSUME WalkInv, HistoryInv, NEW item \in queue, Pop(item)
  PROVE  WalkInv'
<1>1. /\ stage \in WalkStages /\ stage' = stage /\ live' = live /\ impact' = impact
      /\ Walked(impacts, queue, live, impact)
  BY DEF Pop, WalkInv, WalkStages
<1>2. PICK list, heap, v : list = impacts' /\ heap = queue' /\ v = visited'
  OBVIOUS
<1>3. Walked(list, heap, live, impact)
  <2>1. CASE <<item.route, item.stop>> \in visited
    <3>1. heap \subseteq queue /\ list = impacts
      BY <2>1, <1>2 DEF Pop
    <3>2. QED
      BY <3>1, <1>1 DEF Walked
  <2>2. CASE <<item.route, item.stop>> \notin visited
    <3>1. list = Append(impacts, item)
      BY <2>2, <1>2 DEF Pop
    <3>2. ItemTyped(item) /\ LiveTyped(live) /\ StoreTyped(stops)
      BY <1>1, StoresTyped DEF Walked
    <3>3. ASSUME NEW q \in heap, q \notin queue
          PROVE  ItemTyped(q) /\ (Triggers(live, item, q) \/ Ripples(item, q))
      <4>1. /\ Expands(item)
            /\ \/ q \in Cascaded(item, v, live)
               \/ q \in Rippled(item, stops, now, HourOf(impact.detected), impact.detected)
        BY <3>3, <2>2, <1>2 DEF Pop
      <4>2. QED
        BY <4>1, <3>2, CascadedCaused, RippledCaused
    <3>4. \A q \in heap : q \notin queue =>
            ItemTyped(q) /\ (Triggers(live, item, q) \/ Ripples(item, q))
      BY <3>3
    <3>5. Walked(Append(impacts, item), heap, live, impact)
      BY <3>4, <1>1, WalkedOn
    <3>6. QED
      BY <3>1, <3>5
  <2>3. QED
    BY <2>1, <2>2
<1>4. QED
  BY <1>1, <1>2, <1>3 DEF WalkInv

\* Every step keeps the causes of a walk.
LEMMA WalkStep ==
  ASSUME WalkInv, HistoryInv, ScanInv, CallInv, [PredictionsNext]_predictionVars
  PROVE  WalkInv'
<1> USE DEF redisVars, askVars, walkVars, foundVars
<1>1. ASSUME \/ TimePasses \/ DelayChanges \/ GetNext \/ ReadFails \/ EndListing \/ Count
             \/ BlastRoute \/ EndBlastScan \/ BlastDelay \/ EndBlast
             \/ Finish \/ BeginTracking \/ BaselineRoute \/ EndBaselineScan \/ Track
             \/ JudgeUnrecorded \/ Judge \/ UNCHANGED predictionVars
      PROVE  /\ UNCHANGED <<live, queue, visited, impacts>>
             /\ stage' \in WalkStages <=> stage \in WalkStages
             /\ stage \in WalkStages => impact' = impact
  BY <1>1 DEF predictionVars, TimePasses, DelayChanges, GetNext, ReadFails, EndListing, Count,
       BlastRoute, EndBlastScan, BlastDelay, EndBlast, Finish, BeginTracking, BaselineRoute,
       EndBaselineScan, Track, JudgeUnrecorded, Judge, WalkStages
<1>2. ASSUME AskDelays \/ AskPrediction \/ AskBlastRadius \/ AskReliability \/ TransferBroken \/ TakeSlot
      PROVE  /\ UNCHANGED <<queue, visited, impacts>>
             /\ stage \notin WalkStages /\ stage' \notin WalkStages
  BY <1>2 DEF Asked, AskDelays, AskPrediction, AskBlastRadius, AskReliability, TransferBroken, TakeSlot,
       WalkStages
<1>3. ASSUME Return PROVE WalkInv'
  BY <1>3 DEF Return, WalkInv, WalkStages
<1>4. CASE \/ TimePasses \/ DelayChanges \/ GetNext \/ ReadFails \/ EndListing \/ Count
           \/ BlastRoute \/ EndBlastScan \/ BlastDelay \/ EndBlast
           \/ Finish \/ BeginTracking \/ BaselineRoute \/ EndBaselineScan \/ Track
           \/ JudgeUnrecorded \/ Judge \/ UNCHANGED predictionVars
  BY <1>1, <1>4 DEF WalkInv
<1>5. CASE AskDelays \/ AskPrediction \/ AskBlastRadius \/ AskReliability \/ TransferBroken \/ TakeSlot
  BY <1>2, <1>5 DEF WalkInv
<1>6. QED
  BY <1>3, <1>4, <1>5, WalkStarts, WalkPops DEF PredictionsNext

\* What an instance of the processor and the handlers keeps to all the time.
BaseInv == now \in Moments /\ ScanInv /\ HistoryInv /\ CallInv /\ WalkInv

\* The invariants that the others need.
LEMMA BaseHolds == PredictionsSpec => []BaseInv
<1>1. PredictionsInit => BaseInv
  BY TimeInit, ScanInit, HistoryInit, CallInit DEF BaseInv, PredictionsInit, WalkInv, WalkStages
<1>2. BaseInv /\ [PredictionsNext]_predictionVars => BaseInv'
  BY TimeStep, ScanStep, HistoryStep, CallStep, WalkStep DEF BaseInv
<1>3. QED
  BY <1>1, <1>2, PTL DEF PredictionsSpec

\* Every impact of a result is on the receiving route or has its cause earlier in
\* the result (Propagate, seedDownstream, propagateTransfers, propagateDwell).
THEOREM ImpactsCaused == PredictionsSpec => []CausedByEarlier
<1>1. BaseInv => CausedByEarlier
  <2>1. SUFFICES ASSUME WalkInv, NEW i \in DOMAIN impacts
                 PROVE  \/ impacts[i].kind = "dwell" /\ impacts[i].route = impact.to /\ impacts[i].hops = 1
                        \/ \E j \in 1..(i - 1) :
                             Triggers(live, impacts[j], impacts[i]) \/ Ripples(impacts[j], impacts[i])
    BY DEF BaseInv, CausedByEarlier
  <2>2. stage \in WalkStages /\ Walked(impacts, queue, live, impact)
    BY <2>1 DEF WalkInv
  <2>3. i \in 1..Len(impacts)
    BY <2>1, <2>2 DEF Walked
  <2>4. Caused(impacts[i], i - 1, impacts, live, impact)
    BY <2>2, <2>3 DEF Walked
  <2>5. QED
    BY <2>4 DEF Caused
<1>2. QED
  BY <1>1, BaseHolds, PTL

-----------------------------------------------------------------------------
(* Largest causes.                                                         *)

\* Each place of the result once; an effect of the j-th cause is in the heap or has
\* its place in the result, and if that came later, with no smaller delay.
Kept(list, heap, seen, eff) ==
  /\ Len(list) \in Nat /\ list = [i \in 1..Len(list) |-> list[i]]
  /\ seen = {Place(list[i]) : i \in 1..Len(list)}
  /\ \A i, j \in 1..Len(list) : i # j => Place(list[i]) # Place(list[j])
  /\ \A j \in 0..Len(list) : \A q \in eff[j] :
       /\ q \in heap \/ Place(q) \in seen
       /\ \A m \in 1..Len(list) : Place(list[m]) = Place(q) /\ j < m => q.delay <= list[m].delay

AllEffects == [j \in 0..Len(impacts) |-> Effects(j)]

KeptInv ==
  stage \in WalkStages =>
    /\ Kept(impacts, queue, visited, AllEffects)
    /\ Len(impacts) <= Cfg.maxImpacts
    /\ stage # "walking" => queue = {} \/ Len(impacts) = Cfg.maxImpacts

\* A place met before is dropped from the heap.
LEMMA KeptDrops ==
  ASSUME NEW list, NEW heap, NEW seen, NEW eff, Kept(list, heap, seen, eff),
         NEW item \in heap, Place(item) \in seen
  PROVE  Kept(list, heap \ {item}, seen, eff)
BY DEF Kept

\* The heap's top goes to the result and its effects to the heap.
LEMMA KeptTakes ==
  ASSUME NEW list, NEW heap, NEW seen, NEW eff, Kept(list, heap, seen, eff),
         NEW item \in heap, Place(item) \notin seen, \A q \in heap : q.delay <= item.delay,
         NEW further, NEW grown, grown[Len(list) + 1] \subseteq further,
         \A j \in 0..Len(list) : grown[j] = eff[j]
  PROVE  Kept(Append(list, item), (heap \ {item}) \cup further, seen \cup {Place(item)}, grown)
<1>1. PICK n \in Nat : n = Len(list)
  BY DEF Kept
<1>2. /\ list = [i \in 1..n |-> list[i]] /\ seen = {Place(list[i]) : i \in 1..n}
      /\ \A i, j \in 1..n : i # j => Place(list[i]) # Place(list[j])
      /\ \A j \in 0..n : \A q \in eff[j] :
           /\ q \in heap \/ Place(q) \in seen
           /\ \A m \in 1..n : Place(list[m]) = Place(q) /\ j < m => q.delay <= list[m].delay
  BY <1>1 DEF Kept
<1>3. PICK longer : longer = Append(list, item)
  OBVIOUS
<1>4. /\ Len(longer) = n + 1 /\ longer = [i \in 1..(n + 1) |-> longer[i]]
      /\ longer[n + 1] = item /\ \A i \in 1..n : longer[i] = list[i]
  BY <1>2, <1>3, AppendAny
<1>5. PICK met : met = seen \cup {Place(item)}
  OBVIOUS
<1>6. \A i \in 1..(n + 1) : i = n + 1 \/ (i \in 1..n /\ Place(longer[i]) \in seen)
  <2>1. SUFFICES ASSUME NEW i \in 1..(n + 1), i # n + 1
                 PROVE  i \in 1..n /\ Place(longer[i]) \in seen
    OBVIOUS
  <2>2. i \in 1..n
    BY <2>1
  <2>3. longer[i] = list[i] /\ Place(list[i]) \in seen
    BY <2>2, <1>2, <1>4
  <2>4. QED
    BY <2>2, <2>3
<1>7. /\ met = {Place(longer[i]) : i \in 1..(n + 1)}
      /\ \A i, j \in 1..(n + 1) : i # j => Place(longer[i]) # Place(longer[j])
  <2>1. \A i \in 1..n : i \in 1..(n + 1)
    OBVIOUS
  <2>2. n + 1 \in 1..(n + 1)
    OBVIOUS
  <2>3. ASSUME NEW place \in met PROVE \E i \in 1..(n + 1) : place = Place(longer[i])
    BY <2>1, <2>2, <2>3, <1>2, <1>4, <1>5
  <2>4. ASSUME NEW i \in 1..(n + 1) PROVE Place(longer[i]) \in met
    BY <1>4, <1>5, <1>6
  <2>5. ASSUME NEW i \in 1..(n + 1), NEW j \in 1..(n + 1), i # j
        PROVE  Place(longer[i]) # Place(longer[j])
    <3>1. CASE i = n + 1
      BY <2>5, <3>1, <1>4, <1>6
    <3>2. CASE j = n + 1
      BY <2>5, <3>2, <1>4, <1>6
    <3>3. CASE i # n + 1 /\ j # n + 1
      <4>1. i \in 1..n /\ j \in 1..n
        BY <3>3, <1>6
      <4>2. QED
        BY <2>5, <4>1, <1>2, <1>4
    <3>4. QED
      BY <3>1, <3>2, <3>3
  <2>6. QED
    BY <2>3, <2>4, <2>5
<1>8. ASSUME NEW j \in 0..(n + 1), NEW q \in grown[j]
      PROVE  /\ q \in (heap \ {item}) \cup further \/ Place(q) \in met
             /\ \A m \in 1..(n + 1) : Place(longer[m]) = Place(q) /\ j < m => q.delay <= longer[m].delay
  <2>1. CASE j = n + 1
    BY <2>1, <1>1, <1>8
  <2>2. CASE j # n + 1
    <3>1. j \in 0..n /\ q \in eff[j]
      BY <2>2, <1>1, <1>8
    <3>2. q \in heap \/ Place(q) \in seen
      BY <3>1, <1>2
    <3>3. ASSUME NEW m \in 1..(n + 1), Place(longer[m]) = Place(q), j < m
          PROVE  q.delay <= longer[m].delay
      <4>1. CASE m = n + 1
        BY <4>1, <3>2, <3>3, <1>4
      <4>2. CASE m # n + 1
        <5>1. m \in 1..n
          BY <4>2, <1>6
        <5>2. longer[m] = list[m]
          BY <5>1, <1>4
        <5>3. QED
          BY <5>1, <5>2, <3>1, <3>3, <1>2
      <4>3. QED
        BY <4>1, <4>2
    <3>4. QED
      BY <3>2, <3>3, <1>5
  <2>3. QED
    BY <2>1, <2>2
<1>9. n + 1 \in Nat
  BY <1>1
<1>10. Kept(longer, (heap \ {item}) \cup further, met, grown)
  BY <1>4, <1>7, <1>8, <1>9 DEF Kept
<1>11. QED
  BY <1>3, <1>5, <1>10

\* The receiving route's stops are in the heap.
LEMMA KeptStarts ==
  ASSUME WalkInv, Start
  PROVE  KeptInv'
<1>1. impacts' = <<>> /\ visited' = {} /\ stage' = "walking" /\ Cfg.maxImpacts \in Nat
  BY ConfigTyped DEF WalkInv, Start, WalkStages
<1>2. Len(<<>>) = 0 /\ <<>> = [i \in 1..0 |-> <<>>[i]]
  OBVIOUS
<1>3. PICK eff : eff = AllEffects'
  OBVIOUS
<1>4. AllEffects' = [j \in 0..0 |-> Effects(j)']
  BY <1>1, <1>2 DEF AllEffects
<1>5. Effects(0)' = queue'
  BY DEF Effects, Start, redisVars
<1>6. eff[0] = queue'
  BY <1>3, <1>4, <1>5
<1>7. Kept(<<>>, queue', {}, eff)
  BY <1>2, <1>6 DEF Kept
<1>8. QED
  BY <1>1, <1>2, <1>3, <1>7 DEF KeptInv

\* Taking an item from the heap,
LEMMA KeptPops ==
  ASSUME KeptInv, NEW item \in queue, Pop(item)
  PROVE  KeptInv'
<1>1. /\ stage = "walking" /\ stage' = stage /\ Len(impacts) < Cfg.maxImpacts /\ Cfg.maxImpacts \in Nat
      /\ Kept(impacts, queue, visited, AllEffects)
      /\ UNCHANGED <<live, impact, stops, now, evidence>>
  BY ConfigTyped DEF Pop, KeptInv, WalkStages, redisVars
<1>2. CASE Place(item) \in visited
  <2>1. queue' = queue \ {item} /\ visited' = visited /\ impacts' = impacts
    BY <1>2 DEF Pop, Place
  <2>2. AllEffects' = AllEffects
    BY <1>1, <2>1 DEF AllEffects, Effects
  <2>3. Kept(impacts, queue \ {item}, visited, AllEffects)
    BY <1>1, <1>2, KeptDrops
  <2>4. QED
    BY <1>1, <2>1, <2>2, <2>3 DEF KeptInv, WalkStages
<1>3. CASE Place(item) \notin visited
  <2>1. PICK n \in Nat : n = Len(impacts)
    BY <1>1 DEF Kept
  <2>2. PICK further : further =
          IF Expands(item)
          THEN Cascaded(item, visited', live)
                 \cup Rippled(item, stops, now, HourOf(impact.detected), impact.detected)
          ELSE {}
    OBVIOUS
  <2>3. /\ impacts' = Append(impacts, item) /\ visited' = visited \cup {Place(item)}
        /\ queue' = (queue \ {item}) \cup further
    BY <1>3, <2>2 DEF Pop, Place
  <2>4. /\ Len(impacts') = n + 1 /\ impacts'[n + 1] = item
        /\ \A i \in 1..n : impacts'[i] = impacts[i]
    BY <1>1, <2>1, <2>3, AppendAny DEF Kept
  <2>5. \A j \in 0..n : Effects(j)' = Effects(j)
    <3>1. Effects(0)' = Effects(0)
      BY <1>1 DEF Effects
    <3>2. ASSUME NEW j \in 1..n PROVE Effects(j)' = Effects(j)
      <4>1. impacts'[j] = impacts[j] /\ j # 0
        BY <2>4
      <4>2. {Place(impacts'[i]) : i \in 1..j} = {Place(impacts[i]) : i \in 1..j}
        BY <2>4
      <4>3. QED
        BY <1>1, <4>1, <4>2 DEF Effects
    <3>3. QED
      BY <3>1, <3>2
  <2>6. Effects(n + 1)' = further
    <3>1. visited' = {Place(impacts'[i]) : i \in 1..(n + 1)}
      <4>1. visited = {Place(impacts[i]) : i \in 1..n}
        BY <1>1, <2>1 DEF Kept
      <4>2. \A i \in 1..(n + 1) : i = n + 1 \/ i \in 1..n
        OBVIOUS
      <4>3. QED
        BY <2>3, <2>4, <4>1, <4>2
    <3>2. n + 1 # 0
      OBVIOUS
    <3>3. QED
      BY <1>1, <2>2, <2>4, <3>1, <3>2 DEF Effects
  <2>7. PICK grown : grown = AllEffects'
    OBVIOUS
  <2>8. grown = [j \in 0..(n + 1) |-> Effects(j)']
    BY <2>4, <2>7 DEF AllEffects
  <2>9. grown[n + 1] = further /\ \A j \in 0..n : grown[j] = AllEffects[j]
    BY <2>1, <2>5, <2>6, <2>8 DEF AllEffects
  <2>10. \A q \in queue : q.delay <= item.delay
    BY DEF Pop, Tops
  <2>11. Kept(Append(impacts, item), (queue \ {item}) \cup further, visited \cup {Place(item)}, grown)
    BY <1>1, <1>3, <2>1, <2>9, <2>10, KeptTakes
  <2>12. n + 1 <= Cfg.maxImpacts
    BY <1>1, <2>1
  <2>13. QED
    BY <1>1, <2>3, <2>4, <2>7, <2>11, <2>12 DEF KeptInv, WalkStages
<1>4. QED
  BY <1>2, <1>3

\* and any other step, keep the largest causes.
LEMMA KeptStep ==
  ASSUME WalkInv, KeptInv, [PredictionsNext]_predictionVars
  PROVE  KeptInv'
<1> USE DEF redisVars, askVars, walkVars, foundVars
<1>1. ASSUME \/ TimePasses \/ DelayChanges \/ GetNext \/ ReadFails \/ EndListing \/ Count
             \/ BlastRoute \/ EndBlastScan \/ BlastDelay \/ EndBlast
             \/ BeginTracking \/ BaselineRoute \/ EndBaselineScan \/ Track
             \/ JudgeUnrecorded \/ Judge \/ UNCHANGED predictionVars
      PROVE  /\ stage' \in WalkStages => stage \in WalkStages
             /\ stage' \in WalkStages =>
                  UNCHANGED <<live, queue, visited, impacts, impact, evidence, stops, now>>
             /\ stage' \in WalkStages \ {"walking"} => stage # "walking"
  BY <1>1 DEF predictionVars, TimePasses, DelayChanges, GetNext, ReadFails, EndListing, Count,
       BlastRoute, EndBlastScan, BlastDelay, EndBlast, BeginTracking, BaselineRoute,
       EndBaselineScan, Track, JudgeUnrecorded, Judge, WalkStages
<1>2. ASSUME Finish
      PROVE  /\ stage \in WalkStages /\ UNCHANGED <<live, queue, visited, impacts, impact, evidence, stops, now>>
             /\ queue = {} \/ Len(impacts) >= Cfg.maxImpacts
  BY <1>2 DEF Finish, WalkStages
<1>3. ASSUME \/ AskDelays \/ AskPrediction \/ AskBlastRadius \/ AskReliability \/ TransferBroken
             \/ TakeSlot \/ Return
      PROVE  stage' \notin WalkStages
  BY <1>3 DEF Asked, AskDelays, AskPrediction, AskBlastRadius, AskReliability, TransferBroken, TakeSlot,
       Return, WalkStages
<1>4. ASSUME UNCHANGED <<live, queue, visited, impacts, impact, evidence, stops, now>>
      PROVE  AllEffects' = AllEffects
  BY <1>4 DEF AllEffects, Effects
<1>5. CASE \/ TimePasses \/ DelayChanges \/ GetNext \/ ReadFails \/ EndListing \/ Count
           \/ BlastRoute \/ EndBlastScan \/ BlastDelay \/ EndBlast
           \/ BeginTracking \/ BaselineRoute \/ EndBaselineScan \/ Track
           \/ JudgeUnrecorded \/ Judge \/ UNCHANGED predictionVars
  BY <1>1, <1>4, <1>5 DEF KeptInv
<1>6. CASE Finish
  <2>1. Len(impacts) \in Nat /\ Cfg.maxImpacts \in Nat /\ Len(impacts) <= Cfg.maxImpacts
    BY <1>2, <1>6, ConfigTyped DEF KeptInv, Kept
  <2>2. queue = {} \/ Len(impacts) = Cfg.maxImpacts
    BY <1>2, <1>6, <2>1
  <2>3. QED
    BY <1>2, <1>4, <1>6, <2>2 DEF KeptInv
<1>7. CASE \/ AskDelays \/ AskPrediction \/ AskBlastRadius \/ AskReliability \/ TransferBroken
           \/ TakeSlot \/ Return
  BY <1>3, <1>7 DEF KeptInv
<1>8. QED
  BY <1>5, <1>6, <1>7, KeptStarts, KeptPops DEF PredictionsNext

\* For any graph, configuration and delays: no place is in a result twice, each has
\* the largest delay that had reached it, and only the cap leaves an effect of an
\* impact out (Propagate's heap and visited).
THEOREM LargestCausesKept == PredictionsSpec => []LargestCauseKept
<1>1. PredictionsInit => KeptInv
  BY DEF PredictionsInit, KeptInv, WalkStages
<1>2. BaseInv /\ KeptInv /\ [PredictionsNext]_predictionVars => KeptInv'
  BY KeptStep DEF BaseInv
<1>3. KeptInv => LargestCauseKept
  <2>1. SUFFICES ASSUME KeptInv, stage = "walked"
                 PROVE  /\ \A i, j \in DOMAIN impacts : i # j => Place(impacts[i]) # Place(impacts[j])
                        /\ \A j \in 0..Len(impacts) : \A item \in Effects(j) :
                             \/ item \in queue /\ Len(impacts) = Cfg.maxImpacts
                             \/ \E m \in DOMAIN impacts :
                                  /\ Place(impacts[m]) = Place(item)
                                  /\ m <= j \/ item.delay <= impacts[m].delay
    BY DEF LargestCauseKept
  <2>2. /\ Kept(impacts, queue, visited, AllEffects)
        /\ queue = {} \/ Len(impacts) = Cfg.maxImpacts
    BY <2>1 DEF KeptInv, WalkStages
  <2>3. DOMAIN impacts = 1..Len(impacts) /\ Len(impacts) \in Nat
    BY <2>2 DEF Kept
  <2>4. ASSUME NEW j \in 0..Len(impacts), NEW item \in Effects(j), item \notin queue
        PROVE  \E m \in DOMAIN impacts :
                 Place(impacts[m]) = Place(item) /\ (m <= j \/ item.delay <= impacts[m].delay)
    <3>1. item \in AllEffects[j]
      BY <2>4 DEF AllEffects
    <3>2. PICK m \in 1..Len(impacts) : Place(item) = Place(impacts[m])
      BY <2>2, <2>4, <3>1 DEF Kept
    <3>3. j < m => item.delay <= impacts[m].delay
      BY <2>2, <3>1, <3>2 DEF Kept
    <3>4. m <= j \/ j < m
      BY <2>3
    <3>5. QED
      BY <2>3, <3>2, <3>3, <3>4
  <2>5. \A i, j \in DOMAIN impacts : i # j => Place(impacts[i]) # Place(impacts[j])
    BY <2>2, <2>3 DEF Kept
  <2>6. QED
    BY <2>2, <2>4, <2>5
<1>4. QED
  BY <1>1, <1>2, <1>3, BaseHolds, PTL DEF PredictionsSpec

-----------------------------------------------------------------------------
(* Tracking.                                                               *)

\* The impacts tracked of a result, the primary among them, are no more than the
\* cap (TrackPrediction's loop over rest).
TrackInv ==
  stage = "tracked" => IsFiniteSet(tracked) /\ Cardinality(tracked) <= MaxTracked

\* The impacts chosen for tracking keep to the cap.
LEMMA TrackedCapped ==
  ASSUME NEW n \in Nat, DOMAIN impacts = 1..n, NEW p
  PROVE  IsFiniteSet(Tracked(p)) /\ Cardinality(Tracked(p)) <= MaxTracked
<1> DEFINE others == {i \in DOMAIN impacts : impacts[i].decay <= TrackDecay} \ {p}
           room == IF p = 0 THEN MaxTracked ELSE MaxTracked - 1
           first == {i \in others : Cardinality({j \in others : j < i}) < room}
<1>1. MaxTracked \in Nat /\ room \in Nat
  BY PredictionsAssumption
<1>2. others \in SUBSET Nat /\ IsFiniteSet(others)
  <2>1. others \subseteq 1..n
    OBVIOUS
  <2>2. IsFiniteSet(1..n)
    BY FS_Interval
  <2>3. QED
    BY <2>1, <2>2, FS_Subset
<1>3. IsFiniteSet(first) /\ Cardinality(first) <= room
  <2> HIDE DEF others, room
  <2>1. QED
    BY <1>1, <1>2, FirstOnes
<1>4. Tracked(p) = IF p = 0 THEN first ELSE first \cup {p}
  BY DEF Tracked
<1> HIDE DEF first
<1>5. CASE p = 0
  BY <1>1, <1>3, <1>4, <1>5
<1>6. CASE p # 0
  <2>1. IsFiniteSet(first \cup {p}) /\ Cardinality(first \cup {p}) <= Cardinality(first) + 1
    <3>1. Cardinality(first) \in Nat
      BY <1>3, FS_CardinalityType
    <3>2. /\ IsFiniteSet(first \cup {p})
          /\ Cardinality(first \cup {p})
               = IF p \in first THEN Cardinality(first) ELSE Cardinality(first) + 1
      BY <1>3, FS_AddElement
    <3>3. QED
      BY <3>1, <3>2
  <2>2. Cardinality(first) \in Nat /\ Cardinality(first \cup {p}) \in Nat
    BY <2>1, <1>3, FS_CardinalityType
  <2>3. room = MaxTracked - 1
    BY <1>6
  <2>4. QED
    BY <1>1, <1>3, <1>4, <1>6, <2>1, <2>2, <2>3
<1>7. QED
  BY <1>5, <1>6

\* Every step keeps a finished tracking as it is.
LEMMA TrackStep ==
  ASSUME TrackInv, WalkInv, [PredictionsNext]_predictionVars
  PROVE  TrackInv'
<1> USE DEF redisVars, askVars, walkVars, foundVars
<1>1. ASSUME UNCHANGED predictionVars PROVE TrackInv'
  BY <1>1 DEF predictionVars, TrackInv
<1>2. ASSUME \/ TimePasses \/ DelayChanges \/ GetNext \/ ReadFails
             \/ AskDelays \/ AskPrediction \/ AskBlastRadius \/ AskReliability \/ TransferBroken
             \/ EndListing \/ Count \/ BlastRoute \/ EndBlastScan \/ BlastDelay \/ EndBlast
             \/ TakeSlot \/ Start \/ (\E item \in queue : Pop(item)) \/ Finish \/ Return
             \/ BeginTracking \/ BaselineRoute \/ EndBaselineScan \/ Judge \/ JudgeUnrecorded
      PROVE  stage' # "tracked"
  BY <1>2 DEF TimePasses, DelayChanges, GetNext, ReadFails, ScanStages, Scanning, AskDelays, AskPrediction,
       AskBlastRadius, AskReliability, TransferBroken, EndListing, Count, BlastRoute, EndBlastScan,
       BlastDelay, EndBlast, TakeSlot, Start, Pop, Finish, Return, BeginTracking, BaselineRoute,
       EndBaselineScan, Judge, JudgeUnrecorded, Asked
<1>3. ASSUME Track PROVE TrackInv'
  <2>1. PICK p : p = primary'
    OBVIOUS
  <2>2. tracked' = Tracked(p)
    BY <1>3, <2>1 DEF Track
  <2>3. DOMAIN impacts = 1..Len(impacts) /\ Len(impacts) \in Nat
    BY <1>3 DEF Track, WalkInv, WalkStages, Walked
  <2>4. QED
    BY <2>1, <2>2, <2>3, TrackedCapped DEF TrackInv
<1>4. ASSUME stage' # "tracked" PROVE TrackInv'
  BY <1>4 DEF TrackInv
<1>5. QED
  BY <1>1, <1>2, <1>3, <1>4 DEF PredictionsNext

\* At most maxTracked impacts of a result are tracked (TrackPrediction).
THEOREM TrackingCapped == PredictionsSpec => [](stage = "tracked" => Cardinality(tracked) <= MaxTracked)
<1>1. PredictionsInit => TrackInv
  BY DEF PredictionsInit, TrackInv
<1>2. BaseInv /\ TrackInv /\ [PredictionsNext]_predictionVars => TrackInv'
  BY TrackStep DEF BaseInv
<1>3. TrackInv => (stage = "tracked" => Cardinality(tracked) <= MaxTracked)
  BY DEF TrackInv
<1>4. QED
  BY <1>1, <1>2, <1>3, BaseHolds, PTL DEF PredictionsSpec

-----------------------------------------------------------------------------
(* Rounding.                                                               *)

\* A quotient and its remainder.
LEMMA Quotient ==
  ASSUME NEW p \in Int, NEW d \in Nat \ {0}
  PROVE  /\ p \div d \in Int
         /\ d * (p \div d) <= p /\ p < d * (p \div d) + d
OBVIOUS

\* A quotient is at most n when the dividend is below n + 1 times the divisor.
LEMMA QuotientBound ==
  ASSUME NEW p \in Int, NEW d \in Nat \ {0}, NEW n \in Int
  PROVE  p \div d <= n <=> p < d * n + d
<1>1. PICK q \in Int : q = p \div d /\ d * q <= p /\ p < d * q + d
  BY Quotient
<1>2. ASSUME q <= n PROVE p < d * n + d
  <2>1. d * q <= d * n
    BY <1>2
  <2>2. d * q \in Int /\ d * n \in Int
    OBVIOUS
  <2>3. QED
    BY <1>1, <2>1, <2>2
<1>3. ASSUME q >= n + 1 PROVE ~(p < d * n + d)
  <2>1. d * (n + 1) <= d * q
    BY <1>3
  <2>2. d * (n + 1) = d * n + d /\ d * n \in Int /\ d * q \in Int
    OBVIOUS
  <2>3. QED
    BY <1>1, <2>1, <2>2
<1>4. q <= n \/ q >= n + 1
  OBVIOUS
<1>5. QED
  BY <1>1, <1>2, <1>3, <1>4

\* When a rounded quotient is at most n: the dividend is at most n and a half times
\* the divisor, and below it unless it is negative.
LEMMA RoundedAtMost ==
  ASSUME NEW p \in Int, NEW d \in Nat \ {0}, NEW n \in Int
  PROVE  Rounded(p, d) <= n <=> IF p >= 0 THEN 2 * p < d * (2 * n + 1) ELSE 2 * p <= d * (2 * n + 1)
<1>1. PICK dn \in Int : dn = d * n
  OBVIOUS
<1>2. d * (2 * n + 1) = 2 * dn + d
  BY <1>1
<1>3. 2 * d \in Nat \ {0} /\ 2 * p + d \in Int /\ d - 2 * p \in Int /\ -n - 1 \in Int
  OBVIOUS
<1>4. (2 * d) * n = 2 * dn /\ (2 * d) * (-n - 1) = -(2 * dn) - 2 * d
  BY <1>1
<1>5. CASE p >= 0
  <2>1. (2 * p + d) \div (2 * d) <= n <=> 2 * p + d < 2 * dn + 2 * d
    BY <1>3, <1>4, QuotientBound
  <2>2. 2 * p + d < 2 * dn + 2 * d <=> 2 * p < 2 * dn + d
    BY <1>1
  <2>3. QED
    BY <1>2, <1>5, <2>1, <2>2 DEF Rounded
<1>6. CASE p < 0
  <2>1. PICK q \in Int : q = (d - 2 * p) \div (2 * d)
    BY <1>3, Quotient
  <2>2. q <= -n - 1 <=> d - 2 * p < -(2 * dn)
    <3>1. q <= -n - 1 <=> d - 2 * p < (2 * d) * (-n - 1) + 2 * d
      BY <2>1, <1>3, QuotientBound
    <3>2. (2 * d) * (-n - 1) + 2 * d = -(2 * dn)
      BY <1>1, <1>4
    <3>3. QED
      BY <3>1, <3>2
  <2>3. Rounded(p, d) = -q
    BY <1>6, <2>1 DEF Rounded
  <2>4. -q <= n <=> ~(q <= -n - 1)
    OBVIOUS
  <2>5. QED
    BY <1>1, <1>2, <1>6, <2>2, <2>3, <2>4
<1>7. QED
  BY <1>5, <1>6

\* Averages of what lies between two bounds lie between them.
LEMMA BlendedAtMost ==
  ASSUME NEW plan \in Int, NEW sum \in Int, NEW count \in Nat, NEW high \in Int,
         sum <= high * count, Rounded(plan, 1000) <= high
  PROVE  Rounded(1000 * sum + Shrinkage * plan, 1000 * (count + Shrinkage)) <= high
<1> DEFINE p == 1000 * sum + Shrinkage * plan
           d == 1000 * (count + Shrinkage)
           m == 2 * high + 1
<1>1. Shrinkage \in Nat \ {0}
  BY CascadeAssumption
<1>2. PICK hc \in Int, cm \in Int, sm \in Int, sp \in Int :
        hc = high * count /\ cm = count * m /\ sm = Shrinkage * m /\ sp = Shrinkage * plan
  BY <1>1
<1>3. cm = 2 * hc + count
  BY <1>2
<1>4. d * m = 1000 * cm + 1000 * sm /\ d \in Nat \ {0} /\ p \in Int
  BY <1>1, <1>2
<1>5. IF plan >= 0 THEN 2 * plan < 1000 * m ELSE 2 * plan <= 1000 * m
  BY RoundedAtMost
<1>6. IF plan >= 0 THEN 2 * sp < 1000 * sm ELSE 2 * sp <= 1000 * sm
  <2>1. ASSUME NEW x \in Int, NEW y \in Int, x < y PROVE Shrinkage * x < Shrinkage * y
    BY <2>1, <1>1
  <2>2. Shrinkage * (2 * plan) = 2 * sp /\ Shrinkage * (1000 * m) = 1000 * sm
    BY <1>1, <1>2
  <2>3. 2 * plan \in Int /\ 1000 * m \in Int
    OBVIOUS
  <2> HIDE DEF m
  <2>4. CASE plan >= 0
    BY <2>1, <2>2, <2>3, <2>4, <1>5
  <2>5. CASE plan < 0
    <3>1. CASE 2 * plan < 1000 * m
      <4>1. 2 * sp < 1000 * sm
        BY <2>1, <2>2, <2>3, <3>1
      <4>2. QED
        BY <2>5, <4>1, <1>2
    <3>2. CASE 2 * plan = 1000 * m
      BY <2>2, <2>5, <3>2, <1>2
    <3>3. QED
      BY <2>3, <2>5, <3>1, <3>2, <1>5
  <2>6. QED
    BY <2>4, <2>5
<1>7. 2 * p <= d * m - 1000 * count
  BY <1>2, <1>3, <1>4, <1>6
<1>8. p >= 0 => 2 * p < d * m
  <2>1. CASE count > 0
    BY <2>1, <1>2, <1>4, <1>7
  <2>2. CASE count = 0
    <3>1. hc = 0 /\ sum <= 0 /\ cm = 0
      BY <2>2, <1>2, <1>3
    <3>2. plan < 0 => sp < 0
      BY <1>1, <1>2
    <3>3. QED
      BY <2>2, <3>1, <3>2, <1>2, <1>4, <1>6
  <2>3. QED
    BY <2>1, <2>2
<1>9. 2 * p <= d * m
  BY <1>2, <1>4, <1>7
<1>10. QED
  <2> HIDE DEF p, d
  <2>1. Rounded(p, d) <= high
    BY <1>4, <1>8, <1>9, RoundedAtMost
  <2>2. QED
    BY <2>1 DEF p, d

\* Halves are rounded away from zero on both sides of it.
LEMMA RoundedOdd ==
  ASSUME NEW p \in Int, NEW d \in Nat \ {0}
  PROVE  Rounded(-p, d) = -Rounded(p, d)
<1>1. CASE p = 0
  <2>1. (2 * d) * 0 = 0 /\ 2 * d \in Nat \ {0} /\ (2 * d) * (0 - 1) = -(2 * d)
    OBVIOUS
  <2>2. d \div (2 * d) <= 0
    BY <2>1, QuotientBound
  <2>3. ~(d \div (2 * d) <= 0 - 1)
    <3>1. 0 - 1 \in Int
      OBVIOUS
    <3>2. d \div (2 * d) <= 0 - 1 <=> d < (2 * d) * (0 - 1) + 2 * d
      BY <2>1, <3>1, QuotientBound
    <3>3. QED
      BY <2>1, <3>2
  <2>4. d \div (2 * d) \in Int
    BY <2>1, Quotient
  <2>5. d \div (2 * d) = 0
    BY <2>2, <2>3, <2>4
  <2>6. Rounded(0, d) = 0
    BY <2>5 DEF Rounded
  <2>7. QED
    BY <1>1, <2>6
<1>2. CASE p > 0
  <2>1. Rounded(p, d) = (2 * p + d) \div (2 * d) /\ Rounded(-p, d) = -((d - 2 * (-p)) \div (2 * d))
    BY <1>2 DEF Rounded
  <2>2. d - 2 * (-p) = 2 * p + d
    OBVIOUS
  <2>3. QED
    BY <2>1, <2>2
<1>3. CASE p < 0
  <2>1. Rounded(-p, d) = (2 * (-p) + d) \div (2 * d) /\ Rounded(p, d) = -((d - 2 * p) \div (2 * d))
    BY <1>3 DEF Rounded
  <2>2. d - 2 * p = 2 * (-p) + d
    OBVIOUS
  <2>3. (d - 2 * p) \div (2 * d) \in Int
    BY Quotient
  <2>4. QED
    BY <2>1, <2>2, <2>3
<1>4. QED
  BY <1>1, <1>2, <1>3

\* A blend lies between bounds of the model and of each outcome: rounding halves away
\* from zero never crosses an integer that both respect.
LEMMA BlendedBetween ==
  ASSUME NEW plan \in Int, NEW sum \in Int, NEW count \in Nat, NEW low \in Int, NEW high \in Int,
         low * count <= sum, sum <= high * count,
         low <= Rounded(plan, 1000), Rounded(plan, 1000) <= high
  PROVE  Rounded(1000 * sum + Shrinkage * plan, 1000 * (count + Shrinkage)) \in low..high
<1> DEFINE p == 1000 * sum + Shrinkage * plan
           d == 1000 * (count + Shrinkage)
<1>1. Shrinkage \in Nat \ {0}
  BY CascadeAssumption
<1>2. p \in Int /\ d \in Nat \ {0}
  <2>1. Shrinkage * plan \in Int
    BY <1>1
  <2>2. QED
    BY <1>1, <2>1
<1>3. Rounded(p, d) <= high
  BY BlendedAtMost
<1>4. Rounded(-p, d) <= -low
  <2>1. 1000 * (-sum) + Shrinkage * (-plan) = -p
    <3>1. Shrinkage * (-plan) = -(Shrinkage * plan)
      BY <1>1
    <3>2. Shrinkage * plan \in Int
      BY <1>1
    <3>3. QED
      BY <3>1, <3>2
  <2>2. -sum <= (-low) * count
    <3>1. (-low) * count = -(low * count) /\ low * count \in Int
      OBVIOUS
    <3>2. QED
      BY <3>1
  <2>3. Rounded(-plan, 1000) <= -low
    <3>1. Rounded(-plan, 1000) = -Rounded(plan, 1000) /\ Rounded(plan, 1000) \in Int
      BY RoundedOdd, RoundedTyped
    <3>2. QED
      BY <3>1
  <2>4. -plan \in Int /\ -sum \in Int /\ -low \in Int
    OBVIOUS
  <2> HIDE DEF p
  <2>5. Rounded(1000 * (-sum) + Shrinkage * (-plan), d) <= -low
    <3>1. PICK s \in Int, t \in Int, h \in Int : s = -sum /\ t = -plan /\ h = -low
      BY <2>4
    <3>2. s <= h * count /\ Rounded(t, 1000) <= h
      BY <2>2, <2>3, <3>1
    <3>3. Rounded(1000 * s + Shrinkage * t, d) <= h
      BY <3>2, BlendedAtMost
    <3>4. QED
      BY <3>1, <3>3
  <2>6. QED
    BY <2>1, <2>5
<1> HIDE DEF p, d
<1>5. Rounded(-p, d) = -Rounded(p, d) /\ Rounded(p, d) \in Int
  BY <1>2, RoundedOdd, RoundedTyped
<1>6. Rounded(p, d) \in low..high
  BY <1>3, <1>4, <1>5
<1>7. QED
  BY <1>6 DEF p, d

-----------------------------------------------------------------------------
(* The first item of a walk.                                               *)

\* Until the first item is popped the heap holds what the first route was seeded with.
SeedInv ==
  stage = "walking" /\ impacts = <<>> =>
    /\ visited = {}
    /\ queue = Seed(stops, now, HourOf(impact.detected), impact.to, impact.station,
                    ImpactDirection(impact), StartDelay(impact, live, evidence), 0, 1, "dwell")

Crossing(from, to) == from # to /\ from \in Routes \cup {NoRoute} /\ to \in Routes

\* Broken transfers lead from one route to another, and so do the predictions that
\* teach a pair.
CrossInv ==
  /\ stage = "queued" \/ stage = "snapshot" \/ stage \in WalkStages =>
       (request.kind = "broken" => Crossing(impact.from, impact.to))
  /\ stage \in {"baselines", "baselineScan", "tracked"} => request.kind = "broken"
  /\ stage \in {"blasting", "blastScan"} => request.kind = "blast"
  /\ \A p \in pending : p.primary => Crossing(p.from, p.route)
  /\ \A n \in 1..Len(log) :
       log[n].prediction.primary => Crossing(log[n].prediction.from, log[n].prediction.route)

\* Until its first item is taken, a walk's queue is its seed.
LEMMA SeedStep ==
  ASSUME SeedInv, WalkInv, [PredictionsNext]_predictionVars
  PROVE  SeedInv'
<1> USE DEF redisVars, askVars, walkVars, foundVars
<1>1. ASSUME \/ TimePasses \/ DelayChanges \/ GetNext \/ ReadFails \/ AskDelays \/ AskPrediction
             \/ AskBlastRadius \/ AskReliability \/ TransferBroken \/ EndListing \/ Count
             \/ BlastRoute \/ EndBlastScan \/ BlastDelay \/ EndBlast \/ TakeSlot
             \/ Finish \/ Return \/ BeginTracking
             \/ BaselineRoute \/ EndBaselineScan \/ Track \/ Judge \/ JudgeUnrecorded
      PROVE  stage' # "walking"
  BY <1>1 DEF TimePasses, DelayChanges, GetNext, ReadFails, ScanStages, Scanning,
       Asked, AskDelays, AskPrediction, AskBlastRadius, AskReliability, TransferBroken, EndListing,
       Count, BlastRoute, EndBlastScan, BlastDelay, EndBlast, TakeSlot, Finish, Return,
       BeginTracking, BaselineRoute, EndBaselineScan, Track, Judge, JudgeUnrecorded
<1>2. ASSUME stage' # "walking" PROVE SeedInv'
  BY <1>2 DEF SeedInv
<1>3. ASSUME Start PROVE SeedInv'
  <2>1. /\ visited = {} /\ UNCHANGED <<stops, now, impact, visited>>
        /\ queue' = Seed(stops, now, HourOf(impact.detected), impact.to, impact.station,
                         ImpactDirection(impact), StartDelay(impact, live', evidence'), 0, 1, "dwell")
    BY <1>3 DEF Start, StartDelay, WalkInv, WalkStages
  <2>2. PICK known, ev : known = live' /\ ev = evidence'
    OBVIOUS
  <2>3. HourOf(impact.detected)' = HourOf(impact.detected) /\ ImpactDirection(impact)' = ImpactDirection(impact)
        /\ StartDelay(impact, live, evidence)' = StartDelay(impact, known, ev)
    BY <2>1, <2>2 DEF HourOf, ImpactDirection, StartDelay
  <2>4. QED
    BY <2>1, <2>2, <2>3 DEF SeedInv
<1>4. ASSUME NEW item \in queue, Pop(item) PROVE SeedInv'
  <2>1. Len(impacts) \in Nat /\ impacts = [i \in 1..Len(impacts) |-> impacts[i]]
    BY <1>4 DEF Pop, WalkInv, WalkStages, Walked
  <2>2. CASE impacts = <<>>
    <3>1. impacts' = Append(impacts, item)
      BY <1>4, <2>2 DEF Pop, SeedInv
    <3>2. Len(impacts') = Len(impacts) + 1
      BY <3>1, <2>1, AppendAny
    <3>3. impacts' # <<>>
      BY <3>2, <2>1
    <3>4. QED
      BY <3>3 DEF SeedInv
  <2>3. CASE impacts # <<>>
    <3>1. impacts' = impacts \/ impacts' = Append(impacts, item)
      BY <1>4 DEF Pop
    <3>2. impacts' # <<>>
      <4>1. Len(Append(impacts, item)) = Len(impacts) + 1
        BY <2>1, AppendAny
      <4>2. QED
        BY <2>1, <2>3, <3>1, <4>1
    <3>3. QED
      BY <3>2 DEF SeedInv
  <2>4. QED
    BY <2>2, <2>3
<1>5. ASSUME UNCHANGED predictionVars PROVE SeedInv'
  BY <1>5 DEF predictionVars, SeedInv, HourOf, ImpactDirection, StartDelay
<1>6. QED
  BY <1>1, <1>2, <1>3, <1>4, <1>5 DEF PredictionsNext

\* A primary is about the receiving route of its transfer, and no other impact there
\* has a smaller delay.
LEMMA PrimaryOnReceiving ==
  ASSUME Len(impacts) \in Nat, DOMAIN impacts = 1..Len(impacts),
         \A i \in DOMAIN impacts : impacts[i].delay \in Int, Primary # 0
  PROVE  /\ Primary \in OnReceivingRoute
         /\ \A j \in OnReceivingRoute : impacts[Primary].delay <= impacts[j].delay
<1> DEFINE O == OnReceivingRoute
           C == {i \in O : \A j \in O : impacts[i].delay <= impacts[j].delay}
           f == [i \in O |-> impacts[i].delay]
           V == {f[i] : i \in O}
<1>1. O # {} /\ Primary = Min(C)
  BY DEF Primary
<1>2. O \subseteq 1..Len(impacts) /\ IsFiniteSet(O)
  <2>1. 1 \in Int /\ Len(impacts) \in Int
    OBVIOUS
  <2>2. IsFiniteSet(1..Len(impacts))
    BY <2>1, FS_Interval
  <2>3. O \subseteq 1..Len(impacts)
    BY DEF OnReceivingRoute
  <2>4. QED
    BY <2>2, <2>3, FS_Subset
<1>3. C # {}
  <2>1. V \subseteq Int /\ V # {}
    BY <1>1 DEF OnReceivingRoute
  <2>2. IsFiniteSet(V)
    <3> HIDE DEF f, O
    <3>1. QED
      BY <1>2, ValuesFinite
  <2>3. PICK x \in V : \A y \in V : x <= y
    <3> HIDE DEF V
    <3>1. QED
      BY <2>1, <2>2, Extremes
  <2>4. PICK i \in O : x = impacts[i].delay
    OBVIOUS
  <2>5. i \in C
    BY <2>3, <2>4
  <2>6. QED
    BY <2>5
<1>4. IsFiniteSet(C) /\ C \subseteq Int
  <2>1. C \subseteq O /\ O \subseteq Int
    BY <1>2
  <2> HIDE DEF O, C
  <2>2. QED
    BY <2>1, <1>2, FS_Subset
<1> HIDE DEF C
<1>5. Min(C) \in C
  BY <1>3, <1>4, MinIs
<1>6. QED
  BY <1>1, <1>5 DEF C

\* Nothing is propagated, pending or logged at the start.
LEMMA CrossInit == PredictionsInit => CrossInv
BY DEF PredictionsInit, CrossInv, WalkStages

\* Tracking adds primaries of transfers between two routes.
LEMMA CrossTracks ==
  ASSUME CrossInv, WalkInv, Track
  PROVE  \A p \in pending' : p.primary => Crossing(p.from, p.route)
<1>1. /\ stage \in WalkStages /\ request.kind = "broken" /\ Crossing(impact.from, impact.to)
      /\ primary' = Primary /\ tracked' = Tracked(primary')
      /\ pending' = pending \cup {Prediction(i, primary') : i \in tracked'}
  BY DEF Track, WalkStages, CrossInv
<1>2. /\ Len(impacts) \in Nat /\ DOMAIN impacts = 1..Len(impacts)
      /\ \A i \in DOMAIN impacts : impacts[i].delay \in Int
  <2>1. /\ Len(impacts) \in Nat /\ impacts = [i \in 1..Len(impacts) |-> impacts[i]]
        /\ \A i \in 1..Len(impacts) : ItemTyped(impacts[i])
    BY <1>1 DEF WalkInv, Walked
  <2>2. DOMAIN impacts = 1..Len(impacts)
    BY <2>1
  <2>3. QED
    BY <2>1, <2>2 DEF ItemTyped
<1>3. PICK m : m = Primary
  OBVIOUS
<1>4. ASSUME NEW i \in Tracked(m), Prediction(i, m).primary
      PROVE  Crossing(Prediction(i, m).from, Prediction(i, m).route)
  <2>1. i = m /\ Prediction(i, m).from = impact.from /\ Prediction(i, m).route = impacts[i].route
    BY <1>4 DEF Prediction
  <2>2. m # 0
    BY <2>1, <1>2 DEF Tracked
  <2>3. impacts[m].route = impact.to
    BY <2>2, <1>2, <1>3, PrimaryOnReceiving DEF OnReceivingRoute
  <2>4. QED
    BY <2>1, <2>3, <1>1
<1>5. pending' = pending \cup {Prediction(i, m) : i \in Tracked(m)}
  BY <1>1, <1>3
<1>6. QED
  BY <1>4, <1>5 DEF CrossInv

\* Every step keeps pending and logged primaries about two routes.
LEMMA CrossPending ==
  ASSUME CrossInv, WalkInv, HistoryInv, [PredictionsNext]_predictionVars
  PROVE  /\ \A p \in pending' : p.primary => Crossing(p.from, p.route)
         /\ \A n \in 1..Len(log') :
              log'[n].prediction.primary => Crossing(log'[n].prediction.from, log'[n].prediction.route)
<1> USE DEF redisVars, askVars, walkVars, foundVars
<1>1. ASSUME \/ TimePasses \/ DelayChanges \/ GetNext \/ ReadFails \/ AskDelays \/ AskPrediction
             \/ AskBlastRadius \/ AskReliability \/ TransferBroken \/ EndListing \/ Count
             \/ BlastRoute \/ EndBlastScan \/ BlastDelay \/ EndBlast \/ TakeSlot \/ Start
             \/ (\E item \in queue : Pop(item)) \/ Finish \/ Return \/ BeginTracking
             \/ BaselineRoute \/ EndBaselineScan \/ JudgeUnrecorded
             \/ UNCHANGED predictionVars
      PROVE  pending' \subseteq pending /\ log' = log
  BY <1>1 DEF predictionVars, TimePasses, DelayChanges, GetNext, ReadFails,
       Asked, AskDelays, AskPrediction, AskBlastRadius, AskReliability, TransferBroken, EndListing,
       Count, BlastRoute, EndBlastScan, BlastDelay, EndBlast, TakeSlot, Start, Pop, Finish, Return,
       BeginTracking, BaselineRoute, EndBaselineScan, JudgeUnrecorded
<1>2. CASE pending' \subseteq pending /\ log' = log
  BY <1>2 DEF CrossInv
<1>3. CASE Track
  <2>1. log' = log
    BY <1>3 DEF Track
  <2>2. QED
    BY <1>3, <2>1, CrossTracks DEF CrossInv
<1>4. CASE Judge
  <2>1. PICK p \in pending, outcome \in ObservedMax :
          pending' = pending \ {p} /\ log' = Append(log, [prediction |-> p, at |-> now, value |-> outcome])
    BY <1>4 DEF Judge
  <2>2. PICK e : e = [prediction |-> p, at |-> now, value |-> outcome]
    OBVIOUS
  <2>3. /\ Len(log) \in Nat /\ Len(log') = Len(log) + 1
        /\ log' = [i \in 1..(Len(log) + 1) |-> IF i = Len(log) + 1 THEN e ELSE log[i]]
    BY <2>1, <2>2, AppendAny DEF HistoryInv
  <2>4. ASSUME NEW n \in 1..Len(log')
        PROVE  log'[n].prediction.primary =>
                 Crossing(log'[n].prediction.from, log'[n].prediction.route)
    <3>1. CASE n = Len(log) + 1
      <4>1. log'[n] = e
        BY <3>1, <2>3
      <4>2. log'[n].prediction = p
        BY <4>1, <2>2
      <4>3. QED
        BY <4>2 DEF CrossInv
    <3>2. CASE n # Len(log) + 1
      <4>1. n \in 1..Len(log) /\ log'[n] = log[n]
        BY <3>2, <2>3
      <4>2. QED
        BY <4>1 DEF CrossInv
    <3>3. QED
      BY <3>1, <3>2
  <2>5. QED
    BY <2>1, <2>4 DEF CrossInv
<1>5. QED
  BY <1>1, <1>2, <1>3, <1>4, Zenon DEF PredictionsNext

\* Every step keeps broken transfers between two routes.
LEMMA CrossStep ==
  ASSUME CrossInv, WalkInv, HistoryInv, CallInv, [PredictionsNext]_predictionVars
  PROVE  CrossInv'
<1> USE DEF redisVars, askVars, walkVars, foundVars
<1> DEFINE Cross == stage = "queued" \/ stage = "snapshot" \/ stage \in WalkStages =>
                      (request.kind = "broken" => Crossing(impact.from, impact.to))
           Own == stage \in {"baselines", "baselineScan", "tracked"} => request.kind = "broken"
           Blasts == stage \in {"blasting", "blastScan"} => request.kind = "blast"
<1>0. Cross /\ Own /\ Blasts
  BY DEF CrossInv
<1>1. ASSUME \/ AskDelays \/ AskBlastRadius \/ AskReliability \/ EndListing \/ Count \/ BlastRoute
             \/ EndBlastScan \/ EndBlast \/ Return \/ Judge \/ JudgeUnrecorded
      PROVE  stage' \notin {"queued", "snapshot"} \cup WalkStages /\ Blasts'
  BY <1>0, <1>1 DEF Asked, AskDelays, AskBlastRadius, AskReliability, EndListing, Count, BlastRoute,
       EndBlastScan, EndBlast, Return, Judge, JudgeUnrecorded, WalkStages
<1>2. ASSUME \/ TimePasses \/ DelayChanges \/ GetNext \/ ReadFails \/ TakeSlot \/ Start
             \/ (\E item \in queue : Pop(item)) \/ Finish \/ BaselineRoute
             \/ EndBaselineScan \/ Track \/ UNCHANGED predictionVars
      PROVE  /\ UNCHANGED <<request, impact>>
             /\ stage' \in {"queued", "snapshot"} \cup WalkStages => stage \in {"queued", "snapshot"} \cup WalkStages
             /\ stage' \in {"baselines", "baselineScan", "tracked"} => stage \in {"baselines", "baselineScan", "tracked"}
             /\ stage' \in {"blasting", "blastScan"} => stage \in {"blasting", "blastScan"}
  BY <1>2 DEF predictionVars, TimePasses, DelayChanges, GetNext, ReadFails, TakeSlot, Start, Pop, Finish,
       BaselineRoute, EndBaselineScan, Track, WalkStages
<1>3. ASSUME BeginTracking PROVE Cross' /\ Own' /\ Blasts'
  BY <1>0, <1>3 DEF BeginTracking, WalkStages
<1>4. ASSUME AskPrediction PROVE Cross' /\ Own' /\ Blasts'
  BY <1>4 DEF AskPrediction, Asked, WalkStages
<1>5. ASSUME BlastDelay PROVE Cross' /\ Own' /\ Blasts'
  <2>1. stage = "blasting" /\ request' = request /\ stage' = "snapshot"
    BY <1>5 DEF BlastDelay
  <2>2. QED
    BY <1>0, <2>1 DEF WalkStages
<1>6. ASSUME TransferBroken PROVE Cross' /\ Own' /\ Blasts'
  <2>1. request'.impact \in BrokenImpact /\ stage' = "queued"
    BY <1>6, AskedFromMenu, CallKinds DEF TransferBroken
  <2>2. PICK i : i = request'.impact
    OBVIOUS
  <2>3. impact' = [i EXCEPT !.detected = Clock[now]]
    BY <1>6, <2>2 DEF TransferBroken
  <2>4. Crossing([i EXCEPT !.detected = Clock[now]].from, [i EXCEPT !.detected = Clock[now]].to)
    BY <2>1, <2>2 DEF BrokenImpact, Crossing
  <2>5. QED
    BY <2>1, <2>3, <2>4 DEF WalkStages
<1>7. Cross' /\ Own' /\ Blasts'
  <2>1. CASE stage' \notin {"queued", "snapshot"} \cup WalkStages /\ Blasts'
    BY <2>1 DEF WalkStages
  <2>2. CASE /\ UNCHANGED <<request, impact>>
             /\ stage' \in {"queued", "snapshot"} \cup WalkStages => stage \in {"queued", "snapshot"} \cup WalkStages
             /\ stage' \in {"baselines", "baselineScan", "tracked"} => stage \in {"baselines", "baselineScan", "tracked"}
             /\ stage' \in {"blasting", "blastScan"} => stage \in {"blasting", "blastScan"}
    BY <1>0, <2>2
  <2>3. QED
    BY <2>1, <2>2, <1>1, <1>2, <1>3, <1>4, <1>5, <1>6, Zenon DEF PredictionsNext
<1>8. QED
  BY <1>7, CrossPending DEF CrossInv

-----------------------------------------------------------------------------
(* Estimates.                                                              *)

\* The outcomes a store holds for the impact's pair are those logged for it.
LEMMA FoundAreLogged ==
  ASSUME HistoryInv, NEW imp, NEW o \in Recent(pairs, PairOf(imp), now)
  PROVE  \E n \in LoggedFor(imp) : o.value = log[n].value
<1> DEFINE K == PairOf(imp)
<1>1. K \in DOMAIN pairs /\ o \in pairs[K]
  BY DEF Recent, Outcomes, NoOutcomes
<1>2. PICK n \in Primaries(log) : Keys(log)[n] = K /\ o = Entry(log, n)
  BY <1>1 DEF HistoryInv, Keeps
<1>3. n \in LoggedFor(imp)
  BY <1>2 DEF LoggedFor, Primaries, Keys, KeyOf, PairOf, PairKey
<1>4. QED
  BY <1>2, <1>3 DEF Entry, Member

\* What the pair's evidence sums up to, between bounds of the outcomes logged.
LEMMA EvidenceBetween ==
  ASSUME HistoryInv, EvidenceInv, stage = "walking", NEW low \in Int, NEW high \in Int,
         evidence.count > 0 => \A n \in LoggedFor(impact) : log[n].value \in low..high
  PROVE  /\ evidence.sum \in Int /\ evidence.count \in Nat
         /\ low * evidence.count <= evidence.sum /\ evidence.sum <= high * evidence.count
<1> DEFINE S == Recent(pairs, PairOf(impact), now)
<1>1. CASE ~evidence.read
  <2>1. evidence.sum = 0 /\ evidence.count = 0
    BY <1>1 DEF EvidenceInv
  <2>2. QED
    BY <2>1
<1>2. CASE evidence.read
  <2>1. evidence.sum = MapThenSumSet(LAMBDA o : o.value, S) /\ evidence.count = Cardinality(S)
    BY <1>2 DEF EvidenceInv, Evidence
  <2>2. IsFiniteSet(S)
    <3>1. IsFiniteSet(Outcomes(pairs, PairOf(impact)))
      BY StoresTyped, FS_EmptySet DEF StoreTyped, Outcomes, NoOutcomes
    <3>2. QED
      BY <3>1, FS_Subset DEF Recent
  <2>3. ASSUME NEW o \in S PROVE o.value \in low..high
    <3>1. Cardinality(S) > 0
      <4> HIDE DEF S
      <4>1. Cardinality(S) \in Nat /\ Cardinality(S) # 0
        BY <2>2, FS_CardinalityType, FS_EmptySet
      <4>2. QED
        BY <4>1
    <3>2. PICK n \in LoggedFor(impact) : o.value = log[n].value
      BY FoundAreLogged
    <3>3. QED
      BY <2>1, <3>1, <3>2
  <2> HIDE DEF S
  <2>4. Cardinality(S) \in Nat
    BY <2>2, FS_CardinalityType
  <2>5. PICK sum : sum = MapThenSumSet(LAMBDA o : o.value, S)
    OBVIOUS
  <2>6. sum \in Int /\ low * Cardinality(S) <= sum /\ sum <= high * Cardinality(S)
    BY <2>2, <2>3, <2>5, SumOfValues
  <2>7. QED
    BY <2>1, <2>4, <2>5, <2>6
<1>3. QED
  BY <1>1, <1>2

\* Rounding to thousands keeps whole ones.
LEMMA WholeThousands ==
  ASSUME NEW n \in Int
  PROVE  Rounded(1000 * n, 1000) = n
BY DEF Rounded

\* The start of a walk lies between two bounds of the plan and the outcomes.
LEMMA StartBetween ==
  ASSUME HistoryInv, EvidenceInv, CallInv, WalkInv, stage = "walking",
         NEW low \in Int, NEW high \in Int, NEW plan,
         plan = ScheduleEstimate(impact, ImpactDirection(impact),
                  LiveDelay(live, impact.to, Station(Graph, impact.station)), impact.detected),
         Rounded(plan, 1000) \in low..high,
         evidence.count > 0 => \A n \in LoggedFor(impact) : log[n].value \in low..high
  PROVE  plan \in Int /\ StartDelay(impact, live, evidence) \in low..high
<1>1. LiveDelay(live, impact.to, Station(Graph, impact.station)) \in Int
  BY LiveDelayTyped DEF WalkInv, Walked, WalkStages
<1>2. plan \in Int
  BY <1>1, EstimateTyped DEF CallInv
<1>3. /\ evidence.sum \in Int /\ evidence.count \in Nat
      /\ low * evidence.count <= evidence.sum /\ evidence.sum <= high * evidence.count
  BY EvidenceBetween
<1>4. Blended(evidence, plan) \in low..high
  <2>1. low <= Rounded(plan, 1000) /\ Rounded(plan, 1000) <= high
    OBVIOUS
  <2>2. QED
    BY <1>2, <1>3, <2>1, BlendedBetween DEF Blended
<1>5. QED
  BY <1>2, <1>4 DEF StartDelay

\* No train runs on a route that is not known.
LEMMA NoRouteNowhere ==
  ASSUME NEW stop, NEW dir
  PROVE  GetDownstreamStops(Graph, NoRoute, stop, dir) = <<>>
BY RowsOfTrip, CascadeAssumption DEF RestOfTrip, WellFormed

\* A walk that has stops to visit begins with the first of them.
LEMMA SeedFirst ==
  ASSUME NEW route, NEW stop, NEW dir, NEW hour, NEW start, NEW decay, NEW hops, NEW kind,
         Seed(stops, now, hour, route, stop, dir, start, decay, hops, kind) # {}
  PROVE  /\ GetDownstreamStops(Graph, route, stop, dir) # <<>>
         /\ \E item \in Seed(stops, now, hour, route, stop, dir, start, decay, hops, kind) :
              /\ item.stop = Station(Graph, GetDownstreamStops(Graph, route, stop, dir)[1].stop)
              /\ item.decay = decay /\ item.delay = start
<1>1. PICK rows : rows = GetDownstreamStops(Graph, route, stop, dir)
  OBVIOUS
<1> DEFINE Reaches(i) == decay + i <= MaxDecay /\ start + (i - 1) * ExtraDwell >= Cfg.minDelay
           At(i) == LET st == Station(Graph, rows[i].stop) IN
             [route |-> route, stop |-> st, hops |-> hops, kind |-> kind,
              delay |-> IF i = 1 THEN start
                        ELSE PerStop(stops, route, st, hour, now, start + (i - 1) * ExtraDwell),
              decay |-> IF i = 1 THEN decay ELSE decay + i]
           chosen == {j \in DOMAIN rows : \A k \in 2..j : Reaches(k)}
<1>2. Seed(stops, now, hour, route, stop, dir, start, decay, hops, kind) = {At(i) : i \in chosen}
  BY <1>1 DEF Seed
<1>3. rows \in Seq(IndexedRow(Graph))
  BY <1>1, RowsTyped
<1>4. chosen # {}
  <2> HIDE DEF chosen, At
  <2>1. QED
    BY <1>2
<1>5. DOMAIN rows # {}
  BY <1>4
<1>6. 1 \in DOMAIN rows
  BY <1>3, <1>5
<1>7. 1 \in chosen
  <2>1. 2..1 = {}
    OBVIOUS
  <2> HIDE DEF Reaches
  <2>2. QED
    BY <1>6, <2>1
<1>8. At(1).stop = Station(Graph, rows[1].stop) /\ At(1).decay = decay /\ At(1).delay = start
  OBVIOUS
<1>9. rows # <<>>
  BY <1>6
<1> HIDE DEF At, chosen
<1>10. QED
  BY <1>1, <1>2, <1>7, <1>8, <1>9

\* The invariants bound the first item of a walk by its evidence.
LEMMA EstimateBetween ==
  ASSUME HistoryInv, EvidenceInv, CallInv, WalkInv, SeedInv, CrossInv, now \in Moments
  PROVE  EstimateWithinEvidence
<1> SUFFICES ASSUME stage = "walking", impacts = <<>>, queue # {} PROVE EstimateWithinEvidence!2
  BY DEF EstimateWithinEvidence
<1> DEFINE dir == ImpactDirection(impact)
           conn == LiveDelay(live, impact.to, Station(Graph, impact.station))
           estimate == ScheduleEstimate(impact, dir, conn, impact.detected)
           plan == Rounded(estimate, 1000)
           mine == {j \in LoggedFor(impact) : evidence.count > 0}
           f == [i \in mine |-> log[i].value]
           seen == {plan} \cup {log[i].value : i \in mine}
           start == StartDelay(impact, live, evidence)
           rows == GetDownstreamStops(Graph, impact.to, impact.station, dir)
<1>1. /\ impact.delay \in Int /\ impact.wait \in Nat
      /\ queue = Seed(stops, now, HourOf(impact.detected), impact.to, impact.station, dir, start, 0, 1, "dwell")
  BY DEF CallInv, SeedInv
<1>2. estimate \in Int
  <2>1. conn \in Int
    BY LiveDelayTyped DEF WalkInv, Walked, WalkStages
  <2>2. QED
    BY <1>1, <2>1, EstimateTyped
<1>3. plan \in Int
  BY <1>2, RoundedTyped
<1>4. IsFiniteSet(seen) /\ seen \subseteq Int
  <2>1. DOMAIN log = 1..Len(log) /\ Len(log) \in Nat /\ \A n \in DOMAIN log : log[n].value \in Nat
    BY DEF HistoryInv
  <2>2. mine \subseteq 1..Len(log)
    BY <2>1 DEF LoggedFor
  <2>3. IsFiniteSet(mine)
    <3>1. 1 \in Int /\ Len(log) \in Int
      BY <2>1
    <3>2. IsFiniteSet(1..Len(log))
      BY <3>1, FS_Interval
    <3>3. QED
      BY <3>2, <2>2, FS_Subset
  <2>4. IsFiniteSet({f[i] : i \in mine})
    <3> HIDE DEF f, mine
    <3>1. QED
      BY <2>3, ValuesFinite
  <2>5. seen = {f[i] : i \in mine} \cup {plan}
    <3>1. \A i \in mine : f[i] = log[i].value
      OBVIOUS
    <3> HIDE DEF f, mine, plan
    <3>2. {f[i] : i \in mine} = {log[i].value : i \in mine}
      BY <3>1
    <3>3. QED
      BY <3>2
  <2>6. \A i \in mine : log[i].value \in Int
    BY <2>1, <2>2
  <2> HIDE DEF f, mine, plan
  <2>7. IsFiniteSet({f[i] : i \in mine} \cup {plan})
    BY <2>4, FS_AddElement
  <2>8. QED
    BY <2>5, <2>6, <2>7, <1>3
<1>5. PICK low \in Int, high \in Int :
        low = Min(seen) /\ high = Max(seen) /\ \A v \in seen : low <= v /\ v <= high
  <2>1. seen # {}
    OBVIOUS
  <2> HIDE DEF seen
  <2>2. Min(seen) \in Int /\ Max(seen) \in Int /\ \A v \in seen : Min(seen) <= v /\ v <= Max(seen)
    BY <1>4, <2>1, MinIs, MaxIs
  <2>3. QED
    BY <2>2
<1>6. start \in low..high
  <2>1. plan \in low..high
    BY <1>3, <1>5
  <2>2. evidence.count > 0 => \A n \in LoggedFor(impact) : log[n].value \in low..high
    BY <1>4, <1>5
  <2> HIDE DEF start
  <2>3. QED
    BY <2>1, <2>2, StartBetween DEF start
<1>7. impact.from = impact.to => start = impact.delay
  <2> SUFFICES ASSUME impact.from = impact.to PROVE start = impact.delay
    OBVIOUS
  <2>1. LoggedFor(impact) = {}
    BY DEF LoggedFor, CrossInv, Crossing, HistoryInv
  <2>2. impact.to # NoRoute
    <3> HIDE DEF start, dir
    <3>1. queue # {} => GetDownstreamStops(Graph, impact.to, impact.station, dir) # <<>>
      BY <1>1, SeedFirst
    <3>2. QED
      BY <3>1, NoRouteNowhere
  <2>3. estimate = 1000 * impact.delay
    BY <2>2 DEF ScheduleEstimate
  <2>4. plan = impact.delay
    BY <2>3, <1>1, WholeThousands
  <2>5. PICK due \in Int : due = impact.delay
    BY <1>1
  <2>6. plan \in due..due
    BY <2>4, <2>5
  <2> HIDE DEF start
  <2>7. start \in due..due
    BY <2>1, <2>5, <2>6, StartBetween DEF start
  <2>8. QED
    BY <2>5, <2>7
<1>8. QED
  <2>1. PICK item \in queue : /\ item.stop = Station(Graph, FirstStop[1].stop)
                              /\ item.decay = 0 /\ item.delay = start
    <3> HIDE DEF start
    <3>1. QED
      BY <1>1, SeedFirst DEF FirstStop
  <2> HIDE DEF start
  <2>2. low <= item.delay /\ item.delay <= high
    BY <1>6, <2>1
  <2>3. impact.from = impact.to => item.delay = impact.delay
    BY <1>7, <2>1
  <2>4. /\ item.stop = Station(Graph, FirstStop[1].stop) /\ item.decay = 0
        /\ Min(seen) <= item.delay /\ item.delay <= Max(seen)
        /\ impact.from = impact.to => item.delay = impact.delay
    <3> HIDE DEF seen
    <3>1. QED
      BY <1>5, <2>1, <2>2, <2>3
  <2>5. QED
    BY <2>4

\* The learnt estimate lies between the schedule's and the outcomes it rests on,
\* is the schedule's alone without any, and a train's own delay is kept (Propagate,
\* blendHistorical).
THEOREM EstimatesWithinEvidence == PredictionsSpec => []EstimateWithinEvidence
<1> DEFINE More == EvidenceInv /\ SeedInv /\ CrossInv
<1>1. PredictionsInit => More
  BY CrossInit DEF PredictionsInit, EvidenceInv, SeedInv
<1>2. BaseInv /\ More /\ [PredictionsNext]_predictionVars => More'
  BY EvidenceStep, SeedStep, CrossStep DEF BaseInv
<1>3. BaseInv /\ More => EstimateWithinEvidence
  BY EstimateBetween DEF BaseInv
<1>4. QED
  BY <1>1, <1>2, <1>3, BaseHolds, PTL DEF PredictionsSpec

-----------------------------------------------------------------------------
(* The primary.                                                            *)

\* Parameters that matter are given or have a default, which is not zero.
LEMMA ConfigPositive ==
  \A f \in {"minDelay", "maxImpacts", "maxDepth", "perStopMin"} : Cfg[f] \in Nat \ {0}
<1> DEFINE F == {"minDelay", "maxImpacts", "maxDepth", "perStopMin"}
<1>1. F \subseteq DOMAIN DefaultConfig /\ \A f \in F : DefaultConfig[f] \in Nat \ {0}
  BY DEF DefaultConfig
<1>2. \A f \in F : Cfg[f] \in Nat \ {0}
  <2>1. CASE GivenConfig = NoConfig
    BY <2>1, <1>1 DEF Cfg
  <2>2. CASE GivenConfig # NoConfig
    <3>1. GivenConfig \in [DOMAIN DefaultConfig -> Nat]
      BY <2>2, CascadeAssumption
    <3> HIDE DEF F
    <3>2. ASSUME NEW f \in F PROVE WithDefaults(GivenConfig)[f] \in Nat \ {0}
      <4>1. f \in DOMAIN DefaultConfig /\ DefaultConfig[f] \in Nat \ {0} /\ GivenConfig[f] \in Nat
        BY <1>1, <3>1, <3>2
      <4>2. QED
        BY <4>1 DEF WithDefaults
    <3>3. QED
      BY <3>2, <2>2 DEF Cfg, LoadConfig
  <2>3. QED
    BY <2>1, <2>2
<1>3. QED
  BY <1>2

\* The exponents are numbers.
LEMMA ExponentsTyped == MaxDecay \in Nat /\ TrackDecay \in Nat
<1>1. ASSUME NEW tenths PROVE MaxExponent(tenths) \in Nat
  <2> DEFINE S == {0} \cup {n \in 1..ExponentCap : 10 * Cfg.decay ^ n >= tenths * 10 ^ n}
  <2>1. S \subseteq 0..ExponentCap /\ ExponentCap \in Nat
    BY CascadeAssumption
  <2>2. IsFiniteSet(S)
    <3>1. IsFiniteSet(0..ExponentCap)
      BY <2>1, FS_Interval
    <3> HIDE DEF S
    <3>2. QED
      BY <3>1, <2>1, FS_Subset
  <2>3. S # {} /\ S \subseteq Int
    BY <2>1
  <2>4. MaxExponent(tenths) = Max(S)
    BY DEF MaxExponent
  <2> HIDE DEF S
  <2>5. PICK m : m = Max(S) /\ m \in S
    BY <2>2, <2>3, MaxIs
  <2>6. m \in Nat
    BY <2>1, <2>5
  <2>7. QED
    BY <2>4, <2>5, <2>6
<1>2. QED
  BY <1>1 DEF MaxDecay, TrackDecay

\* The stops the receiving route is seeded with, and their items.
FirstRows(imp) == GetDownstreamStops(Graph, imp.to, imp.station, ImpactDirection(imp))
RowStop(imp, k) == Station(Graph, FirstRows(imp)[k].stop)
SeedItem(imp, start, k) ==
  [route |-> imp.to, stop |-> RowStop(imp, k), hops |-> 1, kind |-> "dwell",
   delay |-> start + (k - 1) * ExtraDwell, decay |-> IF k = 1 THEN 0 ELSE k]
SeedItems(imp, start) ==
  {SeedItem(imp, start, k) : k \in {j \in DOMAIN FirstRows(imp) : j = 1 \/ j <= MaxDecay}}

\* An item's origin: a seed, or further than one hop.
FromSeed(q, imp, start) == q.hops \in Nat \ {0} /\ (q.hops = 1 => q \in SeedItems(imp, start))

\* As long as the first stop is in the heap, the walk takes only seeds, from the last
\* to the first, and every cascade's delay is below the first stop's.
Ahead(list, heap, seen, imp, start) ==
  /\ FirstRows(imp) # <<>> /\ SeedItem(imp, start, 1) \in heap
  /\ <<imp.to, RowStop(imp, 1)>> \notin seen
  /\ \A i \in 1..Len(list) : list[i].decay \in 2..((MaxDecay + 1) - i)
  /\ \A q \in heap : IF q.hops = 1 THEN \A i \in 1..Len(list) : q.decay < list[i].decay
                     ELSE q.delay < start

\* The first stop waits, or is in the result, or nothing is downstream.
FirstStopFate(list, heap, seen, imp, start) ==
  \/ Ahead(list, heap, seen, imp, start)
  \/ FirstRows(imp) # <<>> /\ \E i \in 1..Len(list) : list[i] = SeedItem(imp, start, 1)
  \/ Len(list) = 0 /\ heap = {}

Headed(list, heap, seen, imp, start) ==
  /\ \A i \in 1..Len(list) : FromSeed(list[i], imp, start)
  /\ \A q \in heap : FromSeed(q, imp, start)
  /\ FirstStopFate(list, heap, seen, imp, start)

FirstInv ==
  stage \in WalkStages /\ NothingLearnt =>
    \E start \in Int :
      /\ Headed(impacts, queue, visited, impact, start)
      /\ stage # "walking" => ~Ahead(impacts, queue, visited, impact, start)

\* A seed's fields, and that its decay tells which it is.
LEMMA SeedKnown ==
  ASSUME DwellGrows, NEW imp, NEW start \in Int, NEW p \in SeedItems(imp, start)
  PROVE  /\ p.hops = 1 /\ p.kind = "dwell" /\ p.route = imp.to /\ p.delay \in Int
         /\ \/ p = SeedItem(imp, start, 1) /\ p.delay = start /\ p.decay = 0
            \/ /\ p.decay \in 2..MaxDecay /\ p.decay \in DOMAIN FirstRows(imp)
               /\ p = SeedItem(imp, start, p.decay)
               /\ p.delay = start + (p.decay - 1) * ExtraDwell /\ p.delay > start
<1>1. PICK k \in DOMAIN FirstRows(imp) : (k = 1 \/ k <= MaxDecay) /\ p = SeedItem(imp, start, k)
  BY DEF SeedItems
<1>2. k \in Nat \ {0}
  BY <1>1, RowsTyped DEF FirstRows
<1>3. PICK w : w = ExtraDwell /\ w \in Nat \ {0}
  BY DwellTyped DEF DwellGrows
<1>4. PICK d \in Nat : d = (k - 1) * w /\ (k = 1 => d = 0) /\ (k > 1 => d > 0)
  <2>1. CASE k = 1
    BY <2>1, <1>3
  <2>2. CASE k # 1
    <3>1. PICK n \in Nat : n = k - 1 /\ n > 0
      BY <2>2, <1>2
    <3>2. n * w \in Nat /\ n * w > 0
      BY <3>1, <1>3
    <3>3. QED
      BY <3>1, <3>2, <1>2
  <2>3. QED
    BY <2>1, <2>2
<1>5. /\ p.hops = 1 /\ p.kind = "dwell" /\ p.route = imp.to /\ p.delay = start + d
      /\ p.decay = IF k = 1 THEN 0 ELSE k
  BY <1>1, <1>3, <1>4 DEF SeedItem
<1>6. CASE k = 1
  BY <1>1, <1>4, <1>5, <1>6
<1>7. CASE k # 1
  <2>1. p.decay = k /\ k \in 2..MaxDecay /\ d > 0
    BY <1>1, <1>2, <1>4, <1>5, <1>7, ExponentsTyped
  <2>2. p.delay > start
    BY <2>1, <1>5
  <2>3. QED
    BY <2>1, <2>2, <1>1, <1>3, <1>4, <1>5
<1>8. QED
  BY <1>6, <1>7

\* Of two seeds the one that is no later is nearer.
LEMMA SeedsOrdered ==
  ASSUME DwellGrows, NEW imp, NEW start \in Int,
         NEW p \in SeedItems(imp, start), NEW q \in SeedItems(imp, start), p # q, q.delay <= p.delay
  PROVE  q.decay < p.decay
<1>1. PICK w : w = ExtraDwell /\ w \in Nat \ {0}
  BY DwellTyped DEF DwellGrows
<1>2. CASE q = SeedItem(imp, start, 1) /\ q.delay = start /\ q.decay = 0
  BY <1>2, SeedKnown, ExponentsTyped
<1>3. CASE p = SeedItem(imp, start, 1) /\ p.delay = start /\ q.delay > start
  BY <1>3, SeedKnown
<1>4. CASE /\ q.decay \in 2..MaxDecay /\ q = SeedItem(imp, start, q.decay)
           /\ q.delay = start + (q.decay - 1) * ExtraDwell
           /\ p.decay \in 2..MaxDecay /\ p = SeedItem(imp, start, p.decay)
           /\ p.delay = start + (p.decay - 1) * ExtraDwell
  <2>1. PICK a, b \in Nat : a = p.decay /\ b = q.decay
    BY <1>4, ExponentsTyped
  <2>2. a # b
    BY <2>1, <1>4
  <2>3. start + (b - 1) * w <= start + (a - 1) * w
    BY <2>1, <1>1, <1>4
  <2>4. ASSUME a < b PROVE FALSE
    <3>1. PICK n \in Nat : b = a + n /\ n > 0
      <4>1. b - a \in Nat /\ b = a + (b - a) /\ b - a > 0
        BY <2>4, <2>1
      <4>2. QED
        BY <4>1
    <3>2. (b - 1) * w = (a - 1) * w + n * w
      BY <3>1, <2>1, <1>1
    <3>3. n * w > 0 /\ n * w \in Nat /\ (a - 1) * w \in Int
      BY <3>1, <2>1, <1>1
    <3>4. QED
      BY <3>2, <3>3, <2>3
  <2>5. QED
    BY <2>1, <2>2, <2>4
<1>5. QED
  BY <1>2, <1>3, <1>4, SeedKnown

\* A transfer takes a seed's delay below the first stop's.
LEMMA SeedFades ==
  ASSUME DwellGrows, CascadesFade, NEW imp, NEW start \in Int, NEW p \in SeedItems(imp, start),
         p.decay + 1 <= MaxDecay, PassedOn(p.delay) >= Cfg.minDelay
  PROVE  PassedOn(p.delay) < start
<1>1. PICK w : w = ExtraDwell /\ w \in Nat \ {0}
  BY DwellTyped DEF DwellGrows
<1>2. PICK e, m : e = Cfg.elasticity /\ m = Cfg.minDelay /\ e \in 0..10 /\ m \in Nat \ {0}
  BY ConfigTyped, ConfigPositive
<1>3. PICK n \in 0..MaxDecay : (n = 0 \/ n + 2 <= MaxDecay) /\ p.delay = start + n * w
  <2>1. CASE p.delay = start
    <3>1. 0 \in 0..MaxDecay /\ start = start + 0 * w
      BY <1>1, ExponentsTyped
    <3>2. QED
      BY <2>1, <3>1
  <2>2. CASE p.decay \in 2..MaxDecay /\ p.delay = start + (p.decay - 1) * ExtraDwell
    <3>1. p.decay - 1 \in 0..MaxDecay /\ (p.decay - 1) + 2 <= MaxDecay
      BY <2>2, ExponentsTyped
    <3>2. QED
      BY <3>1, <2>2, <1>1
  <2>3. QED
    BY <2>1, <2>2, SeedKnown
<1>4. n * w * e < m * (10 - e)
  BY <1>1, <1>2, <1>3 DEF CascadesFade
<1>5. PICK a \in Nat : a = n * w
  BY <1>1, <1>3, ExponentsTyped
<1>6. PICK d \in Int : d = p.delay /\ d = start + a
  BY <1>3, <1>5
<1>7. a * e < m * (10 - e) /\ (d * e) \div 10 >= m
  BY <1>2, <1>4, <1>5, <1>6 DEF PassedOn
<1>8. (d * e) \div 10 < start
  <2>1. e \in {0, 1, 2, 3, 4, 5, 6, 7, 8, 9, 10}
    BY <1>2
  <2>2. QED
    BY <2>1, <1>2, <1>6, <1>7
<1>9. QED
  BY <1>2, <1>6, <1>8 DEF PassedOn

Unlearnt(store, t) == \A k \in DOMAIN store : Evidence(store, k, t).count < Cfg.perStopMin

\* A stop that has taught nothing keeps its model.
LEMMA UnlearntKeeps ==
  ASSUME NEW store, NEW t, Unlearnt(store, t), NEW route, NEW station, NEW hour, NEW modelled
  PROVE  PerStop(store, route, station, hour, t, modelled) = modelled
<1>1. PICK k : k = StopKey(route, station, hour)
  OBVIOUS
<1>2. Evidence(store, k, t).count < Cfg.perStopMin
  <2>1. CASE k \in DOMAIN store
    BY <2>1 DEF Unlearnt
  <2>2. CASE k \notin DOMAIN store
    <3>1. Recent(store, k, t) = {}
      BY <2>2 DEF Recent, Outcomes, NoOutcomes
    <3>2. Evidence(store, k, t).count = 0
      BY <3>1, FS_EmptySet DEF Evidence
    <3>3. QED
      BY <3>2, ConfigPositive, ConfigTyped
  <2>3. QED
    BY <2>1, <2>2
<1>3. QED
  BY <1>1, <1>2 DEF PerStop, GetAverageStopImpact

\* A walk begins with the first stop in its heap, if there is one.
LEMMA HeadStarts ==
  ASSUME DwellGrows, NEW store, NEW t, Unlearnt(store, t), NEW imp, NEW hour, NEW start \in Int, NEW heap,
         heap = Seed(store, t, hour, imp.to, imp.station, ImpactDirection(imp), start, 0, 1, "dwell")
  PROVE  Headed(<<>>, heap, {}, imp, start)
<1> DEFINE rows == FirstRows(imp)
           Reaches(i) == 0 + i <= MaxDecay /\ start + (i - 1) * ExtraDwell >= Cfg.minDelay
           chosen == {j \in DOMAIN rows : \A k \in 2..j : Reaches(k)}
           At(i) == LET st == Station(Graph, rows[i].stop) IN
             [route |-> imp.to, stop |-> st, hops |-> 1, kind |-> "dwell",
              delay |-> IF i = 1 THEN start
                        ELSE PerStop(store, imp.to, st, hour, t, start + (i - 1) * ExtraDwell),
              decay |-> IF i = 1 THEN 0 ELSE 0 + i]
<1>1. heap = {At(i) : i \in chosen}
  BY DEF Seed, FirstRows
<1>2. rows \in Seq(IndexedRow(Graph)) /\ DOMAIN rows = 1..Len(rows) /\ Len(rows) \in Nat
  BY RowsTyped DEF FirstRows
<1>3. ASSUME NEW i \in DOMAIN rows PROVE At(i) = SeedItem(imp, start, i)
  <2>1. i \in Nat \ {0}
    BY <1>2
  <2>2. (i = 1 => start = start + (i - 1) * ExtraDwell) /\ 0 + i = i
    BY <2>1, DwellTyped
  <2>3. PerStop(store, imp.to, Station(Graph, rows[i].stop), hour, t, start + (i - 1) * ExtraDwell)
          = start + (i - 1) * ExtraDwell
    BY UnlearntKeeps
  <2>4. QED
    BY <2>2, <2>3 DEF SeedItem, RowStop
<1>4. ASSUME NEW j \in chosen PROVE j = 1 \/ j <= MaxDecay
  <2>1. j \in Nat \ {0} /\ \A k \in 2..j : 0 + k <= MaxDecay
    BY <1>2
  <2>2. CASE j # 1
    <3>1. j \in 2..j
      BY <2>1, <2>2
    <3>2. QED
      BY <2>1, <3>1
  <2>3. QED
    BY <2>2
<1>5. \A q \in heap : q \in SeedItems(imp, start)
  <2>1. ASSUME NEW j \in chosen PROVE At(j) \in SeedItems(imp, start)
    <3>1. j \in DOMAIN rows /\ At(j) = SeedItem(imp, start, j)
      BY <1>3
    <3> HIDE DEF At
    <3>2. QED
      BY <3>1, <1>4 DEF SeedItems
  <2> HIDE DEF At, chosen
  <2>2. QED
    BY <2>1, <1>1
<1>6. \A q \in heap : FromSeed(q, imp, start) /\ q.hops = 1
  BY <1>5, SeedKnown DEF FromSeed
<1>7. CASE rows = <<>>
  <2>1. heap = {}
    BY <1>1, <1>7
  <2>2. Len(<<>>) = 0
    OBVIOUS
  <2>3. QED
    BY <1>6, <2>1, <2>2 DEF Headed, FirstStopFate
<1>8. CASE rows # <<>>
  <2>1. 1 \in DOMAIN rows
    BY <1>2, <1>8
  <2>2. 1 \in chosen
    <3>1. 2..1 = {}
      OBVIOUS
    <3> HIDE DEF Reaches
    <3>2. QED
      BY <2>1, <3>1
  <2>3. At(1) \in heap /\ At(1) = SeedItem(imp, start, 1)
    <3> HIDE DEF At, chosen
    <3>1. QED
      BY <1>1, <1>3, <2>1, <2>2
  <2>4. Len(<<>>) = 0 /\ 1..0 = {}
    OBVIOUS
  <2> HIDE DEF At, chosen
  <2>5. Ahead(<<>>, heap, {}, imp, start)
    BY <1>6, <1>8, <2>3, <2>4 DEF Ahead
  <2>6. QED
    BY <1>6, <2>4, <2>5 DEF Headed, FirstStopFate
<1>9. QED
  BY <1>7, <1>8

\* What an impact sends on is further than one hop, and below the first stop's delay
\* when it comes from a seed.
Further(q, item, start) ==
  q.hops \in Nat /\ q.hops > 1 /\ (item.hops = 1 => q.delay < start)

LEMMA SentFurther ==
  ASSUME DwellGrows, CascadesFade, NEW imp, NEW start \in Int, NEW item, ItemTyped(item),
         FromSeed(item, imp, start), NEW v, NEW known, NEW store, StoreTyped(store),
         NEW t, NEW hour, NEW tod, NEW q,
         q \in Cascaded(item, v, known) \cup Rippled(item, store, t, hour, tod)
  PROVE  Further(q, item, start)
<1>1. item.hops \in Nat \ {0} /\ (item.hops = 1 => item \in SeedItems(imp, start) /\ item.kind = "dwell")
  BY SeedKnown DEF FromSeed
<1>2. CASE q \in Cascaded(item, v, known)
  <2>1. PICK b : b \in BrokenTransfers(item, v, known) /\ q =
           [route |-> b[2], stop |-> b[1].to, delay |-> PassedOn(item.delay),
            decay |-> item.decay + 1, hops |-> item.hops + 1, kind |-> "transfer"]
    BY <1>2 DEF Cascaded
  <2>2. item.decay + 1 <= MaxDecay /\ PassedOn(item.delay) >= Cfg.minDelay
    BY <2>1 DEF BrokenTransfers
  <2>3. item.hops = 1 => PassedOn(item.delay) < start
    BY <1>1, <2>2, SeedFades
  <2>4. q.hops = item.hops + 1 /\ q.delay = PassedOn(item.delay)
    BY <2>1
  <2>5. QED
    BY <1>1, <2>3, <2>4 DEF Further
<1>3. CASE q \in Rippled(item, store, t, hour, tod)
  <2>1. item.kind = "transfer"
    BY <1>3 DEF Rippled
  <2>2. PICK dir : q \in Seed(store, t, hour, item.route, item.stop, dir, item.delay, item.decay,
                              item.hops, "cascadeDwell")
    BY <1>3, <2>1 DEF Rippled
  <2>3. q.hops = item.hops
    BY <2>2, Seeded DEF ItemTyped
  <2>4. QED
    BY <1>1, <2>1, <2>3 DEF Further
<1>4. QED
  BY <1>2, <1>3

\* The seed taken while the first stop waits is another stop's.
LEMMA TopIsSeed ==
  ASSUME DwellGrows, NoLoops, NEW imp, NEW start \in Int, NEW list, NEW heap, NEW seen,
         Headed(list, heap, seen, imp, start), Ahead(list, heap, seen, imp, start),
         \A q \in heap : ItemTyped(q), NEW item \in heap, \A q \in heap : q.delay <= item.delay
  PROVE  \/ item = SeedItem(imp, start, 1)
         \/ /\ item \in SeedItems(imp, start) /\ item.decay \in 2..MaxDecay
            /\ item # SeedItem(imp, start, 1)
            /\ <<item.route, item.stop>> # <<imp.to, RowStop(imp, 1)>>
<1>1. SeedItem(imp, start, 1) \in heap /\ FirstRows(imp) # <<>>
  BY DEF Ahead
<1>2. SeedItem(imp, start, 1).delay = start /\ item.delay \in Int
  <2>1. start + (1 - 1) * ExtraDwell = start
    BY DwellTyped
  <2>2. QED
    BY <2>1 DEF SeedItem, ItemTyped
<1>3. start <= item.delay
  BY <1>1, <1>2
<1>4. item.hops = 1
  BY <1>2, <1>3 DEF Ahead
<1>5. item \in SeedItems(imp, start)
  BY <1>4 DEF Headed, FromSeed
<1>6. ASSUME item # SeedItem(imp, start, 1)
      PROVE  /\ item.decay \in 2..MaxDecay
             /\ <<item.route, item.stop>> # <<imp.to, RowStop(imp, 1)>>
  <2>1. PICK k : /\ k = item.decay /\ k \in 2..MaxDecay /\ k \in DOMAIN FirstRows(imp)
                 /\ item = SeedItem(imp, start, k)
    BY <1>5, <1>6, SeedKnown
  <2>2. item.stop = RowStop(imp, k)
    BY <2>1 DEF SeedItem
  <2>3. k \in Nat /\ 1 < k /\ k <= MaxDecay
    BY <2>1, ExponentsTyped
  <2>4. Station(Graph, FirstRows(imp)[1].stop) # Station(Graph, FirstRows(imp)[k].stop)
    BY <2>1, <2>3, RowsApart, ExponentsTyped DEF FirstRows
  <2>5. QED
    BY <2>1, <2>2, <2>4 DEF RowStop
<1>7. QED
  BY <1>5, <1>6

\* An item whose stop was visited is dropped.
LEMMA HeadDrops ==
  ASSUME DwellGrows, NoLoops, NEW imp, NEW start \in Int, NEW list, NEW heap, NEW seen,
         Headed(list, heap, seen, imp, start), \A q \in heap : ItemTyped(q),
         NEW item \in heap, \A q \in heap : q.delay <= item.delay,
         <<item.route, item.stop>> \in seen
  PROVE  Headed(list, heap \ {item}, seen \cup {<<item.route, item.stop>>}, imp, start)
<1>1. seen \cup {<<item.route, item.stop>>} = seen
  OBVIOUS
<1>2. CASE Ahead(list, heap, seen, imp, start)
  <2>1. item # SeedItem(imp, start, 1)
    <3>1. <<imp.to, RowStop(imp, 1)>> \notin seen
      BY <1>2 DEF Ahead
    <3>2. QED
      BY <3>1 DEF SeedItem
  <2>2. Ahead(list, heap \ {item}, seen, imp, start)
    BY <1>2, <2>1 DEF Ahead
  <2>3. QED
    BY <1>1, <2>2 DEF Headed, FirstStopFate
<1>3. CASE ~Ahead(list, heap, seen, imp, start)
  BY <1>1, <1>3 DEF Headed, FirstStopFate
<1>4. QED
  BY <1>2, <1>3

\* An item whose stop was not visited joins the result.
LEMMA HeadTakes ==
  ASSUME DwellGrows, NoLoops, NEW imp, NEW start \in Int, NEW list, NEW heap, NEW seen,
         Headed(list, heap, seen, imp, start), \A q \in heap : ItemTyped(q),
         Len(list) \in Nat, list = [i \in 1..Len(list) |-> list[i]],
         NEW item \in heap, \A q \in heap : q.delay <= item.delay, NEW rest,
         heap \ {item} \subseteq rest,
         \A q \in rest : q \in heap \ {item} \/ Further(q, item, start)
  PROVE  Headed(Append(list, item), rest, seen \cup {<<item.route, item.stop>>}, imp, start)
<1> DEFINE n == Len(list)
<1>1. PICK longer : longer = Append(list, item)
  OBVIOUS
<1>2. /\ Len(longer) = n + 1 /\ longer[n + 1] = item /\ \A i \in 1..n : longer[i] = list[i]
      /\ n \in Nat /\ \A i \in 1..(n + 1) : i = n + 1 \/ i \in 1..n
  BY <1>1, AppendAny
<1> HIDE DEF n
<1>3. \A i \in 1..(n + 1) : FromSeed(longer[i], imp, start)
  BY <1>2 DEF Headed, n
<1>4. \A q \in rest : FromSeed(q, imp, start)
  <2>1. ASSUME NEW q, Further(q, item, start) PROVE FromSeed(q, imp, start)
    BY <2>1 DEF Further, FromSeed
  <2>2. QED
    BY <2>1 DEF Headed
<1>5. CASE item = SeedItem(imp, start, 1) /\ FirstRows(imp) # <<>>
  <2>1. n + 1 \in 1..(n + 1)
    BY <1>2
  <2>2. \E i \in 1..(n + 1) : longer[i] = SeedItem(imp, start, 1)
    BY <1>2, <1>5, <2>1
  <2>3. QED
    BY <1>1, <1>2, <1>3, <1>4, <1>5, <2>2 DEF Headed, FirstStopFate
<1>6. CASE FirstRows(imp) # <<>> /\ \E i \in 1..n : list[i] = SeedItem(imp, start, 1)
  <2>1. \A i \in 1..n : i \in 1..(n + 1)
    BY <1>2
  <2>2. \E i \in 1..(n + 1) : longer[i] = SeedItem(imp, start, 1)
    BY <1>2, <1>6, <2>1
  <2>3. QED
    BY <1>1, <1>2, <1>3, <1>4, <1>6, <2>2 DEF Headed, FirstStopFate
<1>7. CASE Ahead(list, heap, seen, imp, start) /\ item # SeedItem(imp, start, 1)
  <2>1. /\ item \in SeedItems(imp, start) /\ item.decay \in 2..MaxDecay
        /\ <<item.route, item.stop>> # <<imp.to, RowStop(imp, 1)>>
    BY <1>7, TopIsSeed
  <2>2. item.hops = 1
    BY <2>1, SeedKnown
  <2>3. PICK m \in Nat : m = MaxDecay
    BY ExponentsTyped
  <2>4. /\ SeedItem(imp, start, 1) \in rest /\ FirstRows(imp) # <<>>
        /\ <<imp.to, RowStop(imp, 1)>> \notin seen \cup {<<item.route, item.stop>>}
    BY <1>7, <2>1 DEF Ahead
  <2>5. \A i \in 1..n : list[i].decay \in 2..((m + 1) - i) /\ item.decay < list[i].decay
    BY <1>7, <2>2, <2>3 DEF Ahead, n
  <2>6. item.decay \in 2..((m + 1) - (n + 1))
    <3>1. PICK k \in 2..m : k = item.decay
      BY <2>1, <2>3
    <3>2. CASE n = 0
      BY <3>1, <3>2
    <3>3. CASE n # 0
      <4>1. n \in 1..n
        BY <1>2, <3>3
      <4>2. PICK l \in 2..((m + 1) - n) : l = list[n].decay /\ k < l
        BY <2>5, <3>1, <4>1
      <4>3. QED
        BY <1>2, <2>3, <3>1, <4>2
    <3>4. QED
      BY <3>2, <3>3
  <2>7. \A i \in 1..(n + 1) : longer[i].decay \in 2..((m + 1) - i)
    BY <1>2, <2>5, <2>6
  <2>8. ASSUME NEW q \in rest
        PROVE  IF q.hops = 1 THEN \A i \in 1..(n + 1) : q.decay < longer[i].decay ELSE q.delay < start
    <3>1. CASE Further(q, item, start)
      BY <3>1, <2>2 DEF Further
    <3>2. CASE q \in heap \ {item} /\ q.hops = 1
      <4>1. q \in SeedItems(imp, start)
        BY <3>2 DEF Headed, FromSeed
      <4>2. q.decay < item.decay
        BY <2>1, <3>2, <4>1, SeedsOrdered
      <4>3. \A i \in 1..n : q.decay < list[i].decay
        BY <1>7, <3>2 DEF Ahead, n
      <4>4. QED
        BY <1>2, <3>2, <4>2, <4>3
    <3>3. CASE q \in heap \ {item} /\ q.hops # 1
      BY <1>7, <3>3 DEF Ahead
    <3>4. QED
      BY <3>1, <3>2, <3>3
  <2>9. Ahead(longer, rest, seen \cup {<<item.route, item.stop>>}, imp, start)
    BY <1>2, <2>3, <2>4, <2>7, <2>8 DEF Ahead
  <2>10. QED
    BY <1>1, <1>2, <1>3, <1>4, <2>9 DEF Headed, FirstStopFate
<1>8. QED
  BY <1>5, <1>6, <1>7 DEF Headed, FirstStopFate, Ahead, n

\* A walk does not end before it has taken the first stop.
LEMMA NotAheadAtEnd ==
  ASSUME SeedFits, NEW list, NEW heap, NEW seen, NEW imp, NEW start, Len(list) \in Nat,
         Ahead(list, heap, seen, imp, start)
  PROVE  heap # {} /\ Len(list) < Cfg.maxImpacts
<1>1. PICK n \in Nat, m \in Nat : n = Len(list) /\ m = MaxDecay
  BY ExponentsTyped
<1>2. \A i \in 1..n : list[i].decay \in 2..((m + 1) - i)
  BY <1>1 DEF Ahead
<1>3. n = 0 \/ n < m
  <2>1. CASE n # 0
    <3>1. n \in 1..n
      BY <1>1, <2>1
    <3>2. PICK k : k \in 2..((m + 1) - n)
      BY <1>2, <3>1
    <3>3. QED
      BY <3>2, <1>1
  <2>2. QED
    BY <2>1
<1>4. m <= Cfg.maxImpacts /\ Cfg.maxImpacts >= 1 /\ Cfg.maxImpacts \in Nat
  BY <1>1, ConfigPositive, ConfigTyped DEF SeedFits
<1>5. QED
  BY <1>1, <1>3, <1>4 DEF Ahead

\* The steps of a walk under way: the first stop waits until it is taken.
LEMMA FirstPops ==
  ASSUME FirstStopLeast, FirstInv, WalkInv, HistoryInv, NEW item \in queue, Pop(item)
  PROVE  FirstInv'
<1>1. /\ stage = "walking" /\ stage' = "walking" /\ UNCHANGED <<stops, now, impact, live>>
      /\ Walked(impacts, queue, live, impact)
  BY DEF Pop, WalkInv, WalkStages, redisVars
<1>2. SUFFICES ASSUME NothingLearnt
               PROVE  \E start \in Int : Headed(impacts', queue', visited', impact', start)
  BY <1>1 DEF FirstInv, NothingLearnt
<1>3. PICK start \in Int : Headed(impacts, queue, visited, impact, start)
  BY <1>1, <1>2 DEF FirstInv, WalkStages
<1>4. /\ \A q \in queue : ItemTyped(q) /\ q.delay <= item.delay
      /\ Len(impacts) \in Nat /\ impacts = [i \in 1..Len(impacts) |-> impacts[i]]
  BY <1>1 DEF Pop, Tops, Walked
<1>5. DwellGrows /\ NoLoops /\ CascadesFade
  BY DEF FirstStopLeast
<1>6. PICK list, heap, v : list = impacts' /\ heap = queue' /\ v = visited'
  OBVIOUS
<1>7. v = visited \cup {<<item.route, item.stop>>}
  BY <1>6 DEF Pop
<1>8. CASE <<item.route, item.stop>> \in visited
  <2>1. heap = queue \ {item} /\ list = impacts
    BY <1>6, <1>8 DEF Pop
  <2>2. Headed(list, heap, v, impact, start)
    BY <1>3, <1>4, <1>5, <1>7, <1>8, <2>1, HeadDrops
  <2>3. QED
    BY <1>1, <1>6, <2>2
<1>9. CASE <<item.route, item.stop>> \notin visited
  <2>1. list = Append(impacts, item) /\ queue \ {item} \subseteq heap
    BY <1>6, <1>9 DEF Pop
  <2>2. ASSUME NEW q \in heap PROVE q \in queue \ {item} \/ Further(q, item, start)
    <3>1. \/ q \in queue \ {item}
          \/ q \in Cascaded(item, v, live)
                     \cup Rippled(item, stops, now, HourOf(impact.detected), impact.detected)
      BY <1>6, <1>9 DEF Pop
    <3>2. FromSeed(item, impact, start) /\ ItemTyped(item) /\ StoreTyped(stops)
      BY <1>3, <1>4, StoresTyped DEF Headed
    <3>3. QED
      BY <1>5, <3>1, <3>2, SentFurther
  <2>3. Headed(list, heap, v, impact, start)
    BY <1>3, <1>4, <1>5, <1>7, <2>1, <2>2, HeadTakes
  <2>4. QED
    BY <1>1, <1>6, <2>3
<1>10. QED
  BY <1>8, <1>9

\* Every step of the program keeps it.
LEMMA FirstStep ==
  ASSUME FirstStopLeast, FirstInv, WalkInv, HistoryInv, ScanInv, CallInv,
         [PredictionsNext]_predictionVars
  PROVE  FirstInv'
<1> USE DEF redisVars, askVars, walkVars, foundVars
<1>1. ASSUME \/ TimePasses \/ AskDelays \/ AskPrediction \/ AskBlastRadius \/ AskReliability
             \/ TransferBroken \/ EndListing \/ Count \/ BlastRoute \/ EndBlastScan \/ BlastDelay
             \/ EndBlast \/ TakeSlot \/ Return \/ Judge \/ JudgeUnrecorded
      PROVE  FirstInv'
  <2>1. stage' \notin WalkStages
    BY <1>1 DEF TimePasses, Asked, AskDelays, AskPrediction, AskBlastRadius, AskReliability, TransferBroken,
         EndListing, Count, BlastRoute, EndBlastScan, BlastDelay, EndBlast, TakeSlot, Return,
         Judge, JudgeUnrecorded, WalkStages
  <2>2. QED
    BY <2>1 DEF FirstInv
<1>2. ASSUME \/ DelayChanges \/ GetNext \/ ReadFails \/ BeginTracking \/ BaselineRoute
             \/ EndBaselineScan \/ Track \/ UNCHANGED predictionVars
      PROVE  FirstInv'
  <2>1. /\ UNCHANGED <<stops, now, impact, impacts, queue, visited>>
        /\ stage' \in WalkStages => stage \in WalkStages
        /\ stage' = "walking" <=> stage = "walking"
    BY <1>2 DEF predictionVars, DelayChanges, GetNext, ReadFails, Scanning, ScanStages, BeginTracking,
         BaselineRoute, EndBaselineScan, Track, WalkStages
  <2>2. QED
    BY <2>1 DEF FirstInv, NothingLearnt
<1>3. ASSUME Start PROVE FirstInv'
  <2>1. /\ impacts = <<>> /\ visited = {} /\ UNCHANGED <<impacts, visited, impact, stops, now>>
        /\ stage' = "walking"
    BY <1>3 DEF Start, WalkInv, WalkStages
  <2>2. SUFFICES ASSUME NothingLearnt
                 PROVE  \E start \in Int : Headed(impacts', queue', visited', impact', start)
    BY <2>1 DEF FirstInv, NothingLearnt
  <2>3. PICK start \in Int : queue' = Seed(stops, now, HourOf(impact.detected), impact.to,
                                           impact.station, ImpactDirection(impact), start, 0, 1, "dwell")
    BY <1>3, StartTyped
  <2>4. PICK heap : heap = queue'
    OBVIOUS
  <2>5. Unlearnt(stops, now) /\ DwellGrows
    BY <2>2 DEF NothingLearnt, Unlearnt, FirstStopLeast
  <2>6. Headed(<<>>, heap, {}, impact, start)
    BY <2>3, <2>4, <2>5, HeadStarts
  <2>7. QED
    BY <2>1, <2>4, <2>6
<1>4. ASSUME Finish PROVE FirstInv'
  <2>1. /\ UNCHANGED <<stops, now, impact, impacts, queue, visited>> /\ stage = "walking"
        /\ queue = {} \/ Len(impacts) >= Cfg.maxImpacts
    BY <1>4 DEF Finish
  <2>2. SUFFICES ASSUME NothingLearnt
                 PROVE  \E start \in Int : /\ Headed(impacts, queue, visited, impact, start)
                                           /\ ~Ahead(impacts, queue, visited, impact, start)
    BY <2>1 DEF FirstInv, NothingLearnt
  <2>3. PICK start \in Int : Headed(impacts, queue, visited, impact, start)
    BY <2>1, <2>2 DEF FirstInv, WalkStages
  <2>4. Len(impacts) \in Nat /\ Cfg.maxImpacts \in Nat
    BY <2>1, ConfigTyped DEF WalkInv, WalkStages, Walked
  <2>5. ~Ahead(impacts, queue, visited, impact, start)
    BY <2>1, <2>4, NotAheadAtEnd DEF FirstStopLeast
  <2>6. QED
    BY <2>3, <2>5
<1>5. QED
  BY <1>1, <1>2, <1>3, <1>4, FirstPops DEF PredictionsNext

\* What is tracked as the primary is the engine's choice.
ChosenInv == stage = "tracked" => primary = Primary

LEMMA ChosenStep ==
  ASSUME ChosenInv, [PredictionsNext]_predictionVars
  PROVE  ChosenInv'
<1> USE DEF redisVars, askVars, walkVars, foundVars
<1>1. ASSUME UNCHANGED predictionVars PROVE ChosenInv'
  BY <1>1 DEF predictionVars, ChosenInv, Primary, OnReceivingRoute
<1>2. ASSUME \/ TimePasses \/ DelayChanges \/ GetNext \/ ReadFails
             \/ AskDelays \/ AskPrediction \/ AskBlastRadius \/ AskReliability \/ TransferBroken
             \/ EndListing \/ Count \/ BlastRoute \/ EndBlastScan \/ BlastDelay \/ EndBlast
             \/ TakeSlot \/ Start \/ (\E item \in queue : Pop(item)) \/ Finish \/ Return
             \/ BeginTracking \/ BaselineRoute \/ EndBaselineScan \/ Judge \/ JudgeUnrecorded
      PROVE  stage' # "tracked"
  BY <1>2 DEF TimePasses, DelayChanges, GetNext, ReadFails, ScanStages, Scanning, AskDelays, AskPrediction,
       AskBlastRadius, AskReliability, TransferBroken, EndListing, Count, BlastRoute, EndBlastScan,
       BlastDelay, EndBlast, TakeSlot, Start, Pop, Finish, Return, BeginTracking, BaselineRoute,
       EndBaselineScan, Judge, JudgeUnrecorded, Asked
<1>3. ASSUME Track PROVE ChosenInv'
  BY <1>3 DEF Track, ChosenInv, Primary, OnReceivingRoute
<1>4. ASSUME stage' # "tracked" PROVE ChosenInv'
  BY <1>4 DEF ChosenInv
<1>5. QED
  BY <1>1, <1>2, <1>3, <1>4 DEF PredictionsNext

\* Of a result whose seeds are those of the first route, the primary is the first stop.
LEMMA FirstIsPrimary ==
  ASSUME DwellGrows, BaseInv, stage = "tracked", primary = Primary, primary # 0, NEW start \in Int,
         Headed(impacts, queue, visited, impact, start),
         ~Ahead(impacts, queue, visited, impact, start)
  PROVE  impacts[primary].stop = RowStop(impact, 1)
<1>1. /\ Len(impacts) \in Nat /\ DOMAIN impacts = 1..Len(impacts)
      /\ \A i \in DOMAIN impacts : impacts[i].delay \in Int
  <2>1. /\ Len(impacts) \in Nat /\ impacts = [i \in 1..Len(impacts) |-> impacts[i]]
        /\ \A i \in 1..Len(impacts) : ItemTyped(impacts[i])
    BY DEF BaseInv, WalkInv, WalkStages, Walked
  <2>2. DOMAIN impacts = 1..Len(impacts)
    BY <2>1
  <2>3. QED
    BY <2>1, <2>2 DEF ItemTyped
<1>2. /\ primary \in OnReceivingRoute
      /\ \A j \in OnReceivingRoute : impacts[primary].delay <= impacts[j].delay
  BY <1>1, PrimaryOnReceiving
<1>3. primary \in 1..Len(impacts) /\ impacts[primary].hops = 1
  BY <1>1, <1>2 DEF OnReceivingRoute
<1>4. PICK p : p = impacts[primary] /\ p \in SeedItems(impact, start)
  BY <1>3 DEF Headed, FromSeed
<1>5. PICK i \in 1..Len(impacts) : impacts[i] = SeedItem(impact, start, 1)
  <2>1. ~(Len(impacts) = 0)
    BY <1>1, <1>3
  <2>2. QED
    BY <2>1 DEF Headed, FirstStopFate
<1>6. impacts[i].hops = 1 /\ impacts[i].route = impact.to /\ impacts[i].delay = start
  <2>1. start + (1 - 1) * ExtraDwell = start
    BY DwellTyped
  <2>2. QED
    BY <2>1, <1>5 DEF SeedItem
<1>7. i \in OnReceivingRoute
  BY <1>1, <1>6 DEF OnReceivingRoute
<1>8. p.delay <= start /\ p.delay \in Int
  BY <1>1, <1>2, <1>3, <1>4, <1>6, <1>7
<1>9. p = SeedItem(impact, start, 1)
  BY <1>4, <1>8, SeedKnown
<1>10. QED
  BY <1>4, <1>9 DEF SeedItem

\* The primary is the first stop of the receiving route (TrackPrediction's minimum is
\* the delay estimateInitialDelay seeded), unless stops have taught the engine.
THEOREM PrimariesInitial ==
  ASSUME FirstStopLeast
  PROVE  PredictionsSpec => []PrimaryIsInitial
<1>1. PredictionsInit => FirstInv /\ ChosenInv
  BY DEF PredictionsInit, FirstInv, ChosenInv, WalkStages
<1>2. BaseInv /\ FirstInv /\ [PredictionsNext]_predictionVars => FirstInv'
  BY FirstStep DEF BaseInv
<1>3. ChosenInv /\ [PredictionsNext]_predictionVars => ChosenInv'
  BY ChosenStep
<1>4. BaseInv /\ FirstInv /\ ChosenInv => PrimaryIsInitial
  <2>1. SUFFICES ASSUME BaseInv, FirstInv, ChosenInv, stage = "tracked", primary # 0, NothingLearnt
                 PROVE  impacts[primary].stop = RowStop(impact, 1)
    BY DEF PrimaryIsInitial, PrimaryIsFirstStop, FirstStop, RowStop, FirstRows
  <2>2. PICK start \in Int : /\ Headed(impacts, queue, visited, impact, start)
                             /\ ~Ahead(impacts, queue, visited, impact, start)
    BY <2>1 DEF FirstInv, WalkStages
  <2>3. QED
    BY <2>1, <2>2, FirstIsPrimary DEF ChosenInv, FirstStopLeast
<1>5. QED
  BY <1>1, <1>2, <1>3, <1>4, BaseHolds, PTL DEF PredictionsSpec

-----------------------------------------------------------------------------
(* Types.                                                                  *)

\* The process, its request and the impact in hand.
StateInv ==
  /\ stage \in ScanStages \cup {"idle", "queued", "counting", "blasting", "walking", "walked",
                                "baselines", "tracked"}
  /\ request = NoRequest \/ request \in Call
  /\ computed \in Moments
  /\ impact = NoImpact \/ impact.delay \in Int

CursorInv ==
  ScanShape /\ scan.next \in 1..(Len(DelayKeys) + 1) /\ scan.steady \subseteq KeyIds

ReplyInv == reply \subseteq StopDelay \/ reply \subseteq ReliabilityOf

\* What is in the heap and in the result.
ItemsInv == queue \subseteq Item /\ impacts \in Seq(Item) /\ Len(impacts) <= Cfg.maxImpacts

\* What is chosen of it.
ChoiceInv ==
  /\ primary \in 0..Len(impacts) /\ tracked \subseteq DOMAIN impacts
  /\ IsFiniteSet(tracked) /\ Cardinality(tracked) <= MaxTracked

\* Stages, requests and moments of computation stay what they are.
LEMMA StateStep ==
  ASSUME StateInv, BaseInv, [PredictionsNext]_predictionVars
  PROVE  StateInv'
<1> USE DEF redisVars, askVars, walkVars, foundVars
<1>1. stage' \in ScanStages \cup {"idle", "queued", "counting", "blasting", "walking", "walked",
                                  "baselines", "tracked"}
  BY DEF StateInv, PredictionsNext, predictionVars, TimePasses, DelayChanges, GetNext, ReadFails,
       Asked, AskDelays, AskPrediction, AskBlastRadius, AskReliability, TransferBroken, EndListing,
       Count, BlastRoute, EndBlastScan, BlastDelay, EndBlast, TakeSlot, Start, Pop, Finish, Return,
       BeginTracking, BaselineRoute, EndBaselineScan, Track, Judge, JudgeUnrecorded, ScanStages
<1>2. request' = NoRequest \/ request' \in Call
  <2>1. CASE AskDelays \/ AskPrediction \/ AskBlastRadius \/ AskReliability \/ TransferBroken
    BY <2>1, AskedFromMenu DEF BaseInv, AskDelays, AskPrediction, AskBlastRadius, AskReliability,
         TransferBroken
  <2>2. CASE \/ TimePasses \/ DelayChanges \/ GetNext \/ ReadFails \/ EndListing \/ Count
             \/ BlastRoute \/ EndBlastScan \/ BlastDelay \/ EndBlast \/ TakeSlot \/ Start
             \/ (\E item \in queue : Pop(item)) \/ Finish \/ Return \/ BeginTracking
             \/ BaselineRoute \/ EndBaselineScan \/ Track \/ Judge \/ JudgeUnrecorded
             \/ UNCHANGED predictionVars
    BY <2>2 DEF StateInv, predictionVars, TimePasses, DelayChanges, GetNext, ReadFails, EndListing,
         Count, BlastRoute, EndBlastScan, BlastDelay, EndBlast, TakeSlot, Start, Pop, Finish, Return,
         BeginTracking, BaselineRoute, EndBaselineScan, Track, Judge, JudgeUnrecorded
  <2>3. QED
    BY <2>1, <2>2, Zenon DEF PredictionsNext
<1>3. computed' \in Moments
  <2>1. now \in Moments /\ 0 \in Moments
    <3>1. 0 \in 0..(Cardinality(Moments) - 1)
      BY PredictionsAssumption
    <3>2. Moments = 0..(Cardinality(Moments) - 1)
      BY PredictionsAssumption DEF Moments
    <3>3. QED
      BY <3>1, <3>2 DEF BaseInv
  <2>2. computed' = computed \/ computed' = now \/ computed' = 0
    BY DEF PredictionsNext, predictionVars, TimePasses, DelayChanges, GetNext, ReadFails,
       Asked, AskDelays, AskPrediction, AskBlastRadius, AskReliability, TransferBroken, EndListing,
       Count, BlastRoute, EndBlastScan, BlastDelay, EndBlast, TakeSlot, Start, Pop, Finish, Return,
       BeginTracking, BaselineRoute, EndBaselineScan, Track, Judge, JudgeUnrecorded
  <2>3. QED
    BY <2>1, <2>2 DEF StateInv
<1>4. impact' = NoImpact \/ impact'.delay \in Int
  <2>1. CASE stage' \in {"queued", "snapshot", "walking"}
    BY <2>1, CallStep DEF BaseInv, CallInv
  <2>2. CASE stage' \notin {"queued", "snapshot", "walking"}
    <3>1. impact' = impact \/ impact' = NoImpact
      BY <2>2 DEF PredictionsNext, predictionVars, TimePasses, DelayChanges, GetNext, ReadFails,
         Asked, AskDelays, AskPrediction, AskBlastRadius, AskReliability, TransferBroken, EndListing,
         Count, BlastRoute, EndBlastScan, BlastDelay, EndBlast, TakeSlot, Start, Pop, Finish, Return,
         BeginTracking, BaselineRoute, EndBaselineScan, Track, Judge, JudgeUnrecorded
    <3>2. QED
      BY <3>1 DEF StateInv
  <2>3. QED
    BY <2>1, <2>2
<1>5. QED
  BY <1>1, <1>2, <1>3, <1>4 DEF StateInv

\* A SCAN's cursor stays within the keys and one past them.
LEMMA CursorStep ==
  ASSUME CursorInv, [PredictionsNext]_predictionVars
  PROVE  CursorInv'
<1> USE DEF redisVars, askVars, walkVars, foundVars
<1> DEFINE Same == \/ TimePasses \/ AskBlastRadius \/ AskReliability \/ TransferBroken \/ EndListing
                   \/ Count \/ EndBlastScan \/ EndBlast \/ (\E item \in queue : Pop(item)) \/ Finish
                   \/ Return \/ BeginTracking \/ Track \/ Judge \/ JudgeUnrecorded
                   \/ UNCHANGED predictionVars
<1>1. ASSUME Same PROVE scan' = scan
  BY <1>1 DEF predictionVars, TimePasses, AskBlastRadius, AskReliability, TransferBroken, EndListing,
       Count, EndBlastScan, EndBlast, Pop, Finish, Return, BeginTracking, Track, Judge, JudgeUnrecorded
<1>2. ASSUME AskDelays \/ AskPrediction \/ BlastRoute \/ BlastDelay \/ TakeSlot \/ BaselineRoute
      PROVE  scan' = scan \/ \E want : StartScan(want)
  BY <1>2 DEF AskDelays, AskPrediction, BlastRoute, BlastDelay, TakeSlot, BaselineRoute
<1>3. ASSUME Start \/ EndBaselineScan PROVE scan' = NoScan
  BY <1>3 DEF Start, EndBaselineScan
<1>4. ASSUME GetNext \/ ReadFails \/ DelayChanges PROVE CursorInv'
  <2> DEFINE K == Len(DelayKeys)
  <2>1. K \in Nat /\ CursorInv
    BY PredictionsAssumption
  <2>2. CASE GetNext
    <3>1. PICK got : scan' = [scan EXCEPT !.next = scan.next + 1, !.got = got] /\ scan.next <= K
      BY <2>2 DEF GetNext, Scanning
    <3>2. scan' = [want |-> scan.want, next |-> scan.next + 1, ok |-> scan.ok, got |-> got,
                   steady |-> scan.steady, held |-> scan.held]
      BY <2>1, <3>1 DEF CursorInv, ScanShape
    <3>3. scan.next + 1 \in 1..(K + 1) /\ scan.steady \subseteq KeyIds
      BY <2>1, <3>1 DEF CursorInv
    <3>4. ScanShape' /\ scan'.next = scan.next + 1 /\ scan'.steady = scan.steady
      BY <3>2 DEF ScanShape
    <3>5. QED
      BY <3>3, <3>4 DEF CursorInv
  <2>3. CASE ReadFails
    <3>1. /\ scan.next <= K
          /\ \/ scan' = [scan EXCEPT !.next = scan.next + 1, !.steady = scan.steady \ {scan.next}]
             \/ scan' = [scan EXCEPT !.next = K + 1, !.ok = FALSE]
      BY <2>3 DEF ReadFails, Scanning
    <3>2. \/ scan' = [want |-> scan.want, next |-> scan.next + 1, ok |-> scan.ok, got |-> scan.got,
                      steady |-> scan.steady \ {scan.next}, held |-> scan.held]
          \/ scan' = [want |-> scan.want, next |-> K + 1, ok |-> FALSE, got |-> scan.got,
                      steady |-> scan.steady, held |-> scan.held]
      BY <2>1, <3>1 DEF CursorInv, ScanShape
    <3>3. /\ scan.next + 1 \in 1..(K + 1) /\ K + 1 \in 1..(K + 1)
          /\ scan.steady \subseteq KeyIds /\ scan.steady \ {scan.next} \subseteq KeyIds
      BY <2>1, <3>1 DEF CursorInv
    <3> HIDE DEF K
    <3>4. /\ ScanShape' /\ scan'.next \in {scan.next + 1, K + 1}
          /\ scan'.steady \in {scan.steady, scan.steady \ {scan.next}}
      BY <3>2 DEF ScanShape
    <3>5. QED
      BY <3>3, <3>4 DEF CursorInv, K
  <2>4. CASE DelayChanges
    <3>1. PICK i, held : scan' = [scan EXCEPT !.steady = scan.steady \ {i}, !.held = held]
      BY <2>4 DEF DelayChanges
    <3>2. scan' = [want |-> scan.want, next |-> scan.next, ok |-> scan.ok, got |-> scan.got,
                   steady |-> scan.steady \ {i}, held |-> held]
      BY <2>1, <3>1 DEF CursorInv, ScanShape
    <3>3. QED
      BY <2>1, <3>2 DEF CursorInv, ScanShape
  <2>5. QED
    BY <1>4, <2>2, <2>3, <2>4
<1>5. ASSUME scan' = scan PROVE CursorInv'
  BY <1>5 DEF CursorInv, ScanShape
<1>6. ASSUME scan' = NoScan \/ \E want : StartScan(want) PROVE CursorInv'
  BY <1>6, PredictionsAssumption DEF NoScan, StartScan, CursorInv, ScanShape
<1> HIDE DEF Same
<1>7. QED
  BY <1>1, <1>2, <1>3, <1>4, <1>5, <1>6, Zenon DEF PredictionsNext, Same

\* A listing tells of keys,
LEMMA ListingTyped ==
  ASSUME BaseInv, EndListing
  PROVE  reply' \subseteq StopDelay
<1>1. \A h \in scan.got : h.key \in KeyIds /\ h.value \in State
  BY DEF BaseInv, ScanInv, ScanRead, ScanStages, EndListing
<1>2. QED
  BY <1>1 DEF EndListing, StopDelay, State

\* and a reliability of pairs with evidence.
LEMMA ReliabilityTyped ==
  ASSUME BaseInv, CrossInv, Count
  PROVE  reply' \subseteq ReliabilityOf
<1>1. SUFFICES ASSUME NEW k \in DOMAIN pairs, Evidence(pairs, k, now).count > 0
               PROVE  [from |-> k.from, to |-> k.to, evidence |-> Evidence(pairs, k, now)]
                        \in ReliabilityOf
  BY DEF Count, TransferStats
<1>2. PICK e : e = Evidence(pairs, k, now) /\ e.sum \in Int /\ e.count \in Nat /\ e.count > 0
  BY <1>1, StoresTyped, EvidenceTyped DEF BaseInv
<1>3. e \in [sum : Int, count : Nat \ {0}]
  BY <1>2 DEF Evidence
<1>4. Recent(pairs, k, now) # {}
  <2>1. e.count = Cardinality(Recent(pairs, k, now))
    BY <1>2 DEF Evidence
  <2>2. QED
    BY <1>2, <2>1, FS_EmptySet
<1>5. PICK o \in pairs[k] : TRUE
  BY <1>4 DEF Recent, Outcomes, NoOutcomes
<1>6. PICK n \in Primaries(log) : Keys(log)[n] = k
  BY <1>5 DEF BaseInv, HistoryInv, Keeps
<1>7. n \in 1..Len(log) /\ n \in DOMAIN log /\ log[n].prediction.primary
  BY <1>6 DEF BaseInv, HistoryInv, Primaries
<1>8. k.from = log[n].prediction.from /\ k.to = log[n].prediction.route
  BY <1>6, <1>7 DEF Keys, KeyOf, PairKey
<1>9. Crossing(k.from, k.to)
  BY <1>7, <1>8 DEF CrossInv
<1>10. QED
  BY <1>2, <1>3, <1>9 DEF ReliabilityOf, Crossing

\* Every step leaves a reply that is the one or the other.
LEMMA ReplyStep ==
  ASSUME ReplyInv, BaseInv, CrossInv, [PredictionsNext]_predictionVars
  PROVE  ReplyInv'
<1> USE DEF redisVars, askVars, walkVars, foundVars
<1>1. CASE EndListing \/ Count
  BY <1>1, ListingTyped, ReliabilityTyped DEF ReplyInv
<1>2. CASE AskDelays \/ AskPrediction \/ AskBlastRadius \/ AskReliability \/ TransferBroken
  BY <1>2 DEF ReplyInv, Asked, AskDelays, AskPrediction, AskBlastRadius, AskReliability, TransferBroken
<1>3. CASE \/ TimePasses \/ DelayChanges \/ GetNext \/ ReadFails \/ BlastRoute \/ EndBlastScan
           \/ BlastDelay \/ EndBlast \/ TakeSlot \/ Start
           \/ (\E item \in queue : Pop(item)) \/ Finish \/ Return \/ BeginTracking
           \/ BaselineRoute \/ EndBaselineScan \/ Track \/ Judge \/ JudgeUnrecorded
           \/ UNCHANGED predictionVars
  <2>1. reply' = reply
    BY <1>3 DEF predictionVars, TimePasses, DelayChanges, GetNext, ReadFails, BlastRoute,
         EndBlastScan, BlastDelay, EndBlast, TakeSlot, Start, Pop, Finish, Return,
         BeginTracking, BaselineRoute, EndBaselineScan, Track, Judge, JudgeUnrecorded
  <2>2. QED
    BY <2>1 DEF ReplyInv
<1>4. QED
  BY <1>1, <1>2, <1>3, Zenon DEF PredictionsNext

\* The stops of a seed are stations of the graph, no less certain than counts.
LEMMA SeedTyped ==
  ASSUME NEW store, StoreTyped(store), NEW t, NEW hour, NEW route, NEW station, NEW dir,
         NEW start \in Int, NEW decay \in 0..MaxDecay, NEW hops \in 1..Cfg.maxDepth,
         NEW kind \in {"dwell", "cascadeDwell"},
         NEW item \in Seed(store, t, hour, route, station, dir, start, decay, hops, kind)
  PROVE  item \in Item
<1>1. PICK rows : rows = GetDownstreamStops(Graph, route, station, dir)
  OBVIOUS
<1>2. rows \in Seq(IndexedRow(Graph)) /\ DOMAIN rows = 1..Len(rows) /\ Len(rows) \in Nat
  BY <1>1, RowsTyped
<1>3. PICK i \in DOMAIN rows :
        /\ i # 1 => decay + i <= MaxDecay
        /\ item = [route |-> route, stop |-> Station(Graph, rows[i].stop), hops |-> hops,
                   kind |-> kind, delay |-> item.delay,
                   decay |-> IF i = 1 THEN decay ELSE decay + i]
  <2> DEFINE Reaches(k) == decay + k <= MaxDecay /\ start + (k - 1) * ExtraDwell >= Cfg.minDelay
  <2>1. PICK i \in {j \in DOMAIN rows : \A k \in 2..j : Reaches(k)} :
          item = [route |-> route, stop |-> Station(Graph, rows[i].stop), hops |-> hops,
                  kind |-> kind, delay |-> item.delay,
                  decay |-> IF i = 1 THEN decay ELSE decay + i]
    BY <1>1 DEF Seed
  <2>2. i # 1 => i \in 2..i
    BY <1>2, <2>1
  <2>3. QED
    BY <2>1, <2>2
<1>4. item.delay \in Int
  BY ExponentsTyped, Seeded
<1>5. rows[i].stop \in DOMAIN Graph.parent
  <2>1. rows[i] \in IndexedRow(Graph)
    BY <1>2, <1>3
  <2>2. QED
    BY <2>1 DEF IndexedRow
<1>6. route \in Routes
  <2>1. RestOfTrip(rows, route)
    BY <1>1, <1>2, <1>3, RowsOfTrip
  <2>2. PICK t2 \in DOMAIN Graph.byTrip : Graph.route[t2] = route
    BY <2>1 DEF RestOfTrip
  <2>3. QED
    BY <2>2, CascadeAssumption DEF WellFormed, Routes
<1>7. (IF i = 1 THEN decay ELSE decay + i) \in 0..MaxDecay
  BY <1>2, <1>3, ExponentsTyped
<1>8. QED
  BY <1>3, <1>4, <1>5, <1>6, <1>7 DEF Item, Stations

\* What an impact breaks is again an item, one hop further but not too far.
LEMMA CascadedTyped ==
  ASSUME NEW known, NEW a \in Item, Expands(a), NEW v, NEW b \in Cascaded(a, v, known)
  PROVE  b \in Item
<1>1. PICK x : x \in BrokenTransfers(a, v, known) /\ b =
         [route |-> x[2], stop |-> x[1].to, delay |-> PassedOn(a.delay),
          decay |-> a.decay + 1, hops |-> a.hops + 1, kind |-> "transfer"]
  BY DEF Cascaded
<1>2. /\ x[1] \in GetTransfersFrom(Graph, a.stop) /\ x[2] \in Routes
      /\ a.decay + 1 <= MaxDecay
  BY <1>1 DEF BrokenTransfers, Routes
<1>3. x[1].to \in Stations
  BY <1>2, CascadeAssumption DEF GetTransfersFrom, WellFormed, Stations, Station
<1>4. a.delay \in Nat
  BY ConfigTyped DEF Item, Expands
<1>5. PassedOn(a.delay) \in Int
  BY <1>4, PassedOnLess
<1>6. a.decay + 1 \in 0..MaxDecay /\ a.hops + 1 \in 1..Cfg.maxDepth
  <2>1. Cfg.maxDepth \in Nat
    BY ConfigPositive
  <2>2. QED
    BY <1>2, <2>1, ExponentsTyped DEF Item, Expands
<1>7. QED
  BY <1>1, <1>2, <1>3, <1>5, <1>6 DEF Item

\* So is what ripples after it.
LEMMA RippledTyped ==
  ASSUME NEW store, StoreTyped(store), NEW a \in Item, NEW t, NEW hour, NEW tod,
         NEW b \in Rippled(a, store, t, hour, tod)
  PROVE  b \in Item
<1>1. PICK dir : b \in Seed(store, t, hour, a.route, a.stop, dir, a.delay, a.decay, a.hops, "cascadeDwell")
  BY DEF Rippled
<1>2. a.delay \in Int /\ a.decay \in 0..MaxDecay /\ a.hops \in 1..Cfg.maxDepth
  BY DEF Item
<1>3. QED
  BY <1>1, <1>2, SeedTyped

\* Every step keeps items items and the result within its cap.
LEMMA ItemsStep ==
  ASSUME ItemsInv, BaseInv, [PredictionsNext]_predictionVars
  PROVE  ItemsInv'
<1> USE DEF redisVars, askVars, walkVars, foundVars
<1>1. CASE \/ TimePasses \/ DelayChanges \/ GetNext \/ ReadFails \/ AskDelays \/ AskPrediction
           \/ AskBlastRadius \/ AskReliability \/ TransferBroken \/ EndListing \/ Count
           \/ BlastRoute \/ EndBlastScan \/ BlastDelay \/ EndBlast \/ TakeSlot \/ Finish
           \/ BeginTracking \/ BaselineRoute \/ EndBaselineScan \/ Track \/ Judge
           \/ JudgeUnrecorded \/ UNCHANGED predictionVars
  <2>1. queue' = queue /\ impacts' = impacts
    BY <1>1 DEF predictionVars, TimePasses, DelayChanges, GetNext, ReadFails, Asked, AskDelays,
         AskPrediction, AskBlastRadius, AskReliability, TransferBroken, EndListing, Count, BlastRoute,
         EndBlastScan, BlastDelay, EndBlast, TakeSlot, Finish, BeginTracking, BaselineRoute,
         EndBaselineScan, Track, Judge, JudgeUnrecorded
  <2>2. QED
    BY <2>1 DEF ItemsInv
<1>2. CASE Return
  <2>1. queue' = {} /\ impacts' = <<>> /\ Cfg.maxImpacts \in Nat
    BY <1>2, ConfigPositive DEF Return
  <2>2. QED
    BY <2>1 DEF ItemsInv
<1>3. CASE Start
  <2>1. impacts' = impacts
    BY <1>3 DEF Start
  <2>2. PICK start \in Int : queue' = Seed(stops, now, HourOf(impact.detected), impact.to,
                               impact.station, ImpactDirection(impact), start, 0, 1, "dwell")
    BY <1>3, StartTyped DEF BaseInv
  <2>3. 0 \in 0..MaxDecay /\ 1 \in 1..Cfg.maxDepth
    BY ConfigPositive, ExponentsTyped
  <2>4. StoreTyped(stops)
    BY StoresTyped DEF BaseInv
  <2>5. queue' \subseteq Item
    BY <2>2, <2>3, <2>4, SeedTyped
  <2>6. QED
    BY <2>1, <2>5 DEF ItemsInv
<1>4. ASSUME NEW item \in queue, Pop(item) PROVE ItemsInv'
  <2>1. /\ item \in Item /\ Len(impacts) < Cfg.maxImpacts /\ impacts \in Seq(Item)
        /\ Cfg.maxImpacts \in Nat /\ StoreTyped(stops)
    BY <1>4, ConfigPositive, StoresTyped DEF ItemsInv, Pop, BaseInv
  <2>2. impacts' \in Seq(Item) /\ Len(impacts') <= Cfg.maxImpacts
    <3>1. impacts' = impacts \/ impacts' = Append(impacts, item)
      BY <1>4 DEF Pop
    <3>2. QED
      BY <2>1, <3>1
  <2>3. ASSUME NEW q \in queue' PROVE q \in Item
    <3>1. CASE q \in queue
      BY <3>1 DEF ItemsInv
    <3>2. CASE q \notin queue
      <4>1. /\ Expands(item)
            /\ \/ q \in Cascaded(item, visited', live)
               \/ q \in Rippled(item, stops, now, HourOf(impact.detected), impact.detected)
        BY <1>4, <2>3, <3>2 DEF Pop
      <4>2. PICK v : v = visited'
        OBVIOUS
      <4>3. QED
        BY <2>1, <4>1, <4>2, CascadedTyped, RippledTyped
    <3>3. QED
      BY <3>1, <3>2
  <2>4. QED
    BY <2>2, <2>3 DEF ItemsInv
<1>5. QED
  BY <1>1, <1>2, <1>3, <1>4, Zenon DEF PredictionsNext

\* What is chosen is part of the result, which only grows.
LEMMA ChoiceStep ==
  ASSUME ChoiceInv, ItemsInv, [PredictionsNext]_predictionVars
  PROVE  ChoiceInv'
<1> USE DEF redisVars, askVars, walkVars, foundVars
<1>0. Len(impacts) \in Nat /\ DOMAIN impacts = 1..Len(impacts) /\ impacts \in Seq(Item)
  BY DEF ItemsInv
<1>1. CASE \/ TimePasses \/ DelayChanges \/ GetNext \/ ReadFails \/ AskDelays \/ AskPrediction
           \/ AskBlastRadius \/ AskReliability \/ TransferBroken \/ EndListing \/ Count
           \/ BlastRoute \/ EndBlastScan \/ BlastDelay \/ EndBlast \/ TakeSlot \/ Start \/ Finish
           \/ BeginTracking \/ BaselineRoute \/ EndBaselineScan \/ Judge
           \/ JudgeUnrecorded \/ UNCHANGED predictionVars
  <2>1. UNCHANGED <<primary, tracked, impacts>>
    BY <1>1 DEF predictionVars, TimePasses, DelayChanges, GetNext, ReadFails, Asked, AskDelays,
         AskPrediction, AskBlastRadius, AskReliability, TransferBroken, EndListing, Count, BlastRoute,
         EndBlastScan, BlastDelay, EndBlast, TakeSlot, Start, Finish, BeginTracking, BaselineRoute,
         EndBaselineScan, Judge, JudgeUnrecorded
  <2>2. QED
    BY <2>1 DEF ChoiceInv
<1>2. CASE Return
  <2>1. primary' = 0 /\ tracked' = {} /\ impacts' = <<>> /\ MaxTracked \in Nat
    BY <1>2, PredictionsAssumption DEF Return
  <2>2. QED
    BY <2>1, FS_EmptySet DEF ChoiceInv
<1>3. ASSUME NEW item \in queue, Pop(item) PROVE ChoiceInv'
  <2>1. primary' = primary /\ tracked' = tracked /\ item \in Item
        /\ (impacts' = impacts \/ impacts' = Append(impacts, item))
    BY <1>3 DEF Pop, ItemsInv
  <2>2. Len(impacts') \in Nat /\ DOMAIN impacts' = 1..Len(impacts') /\ Len(impacts) <= Len(impacts')
    BY <1>0, <2>1
  <2>3. primary \in 0..Len(impacts') /\ tracked \subseteq DOMAIN impacts'
    BY <1>0, <2>2 DEF ChoiceInv
  <2>4. QED
    BY <2>1, <2>3 DEF ChoiceInv
<1>4. CASE Track
  <2>1. PICK p : p = Primary /\ p = primary' /\ tracked' = Tracked(p) /\ impacts' = impacts
    BY <1>4 DEF Track
  <2>2. \A i \in DOMAIN impacts : impacts[i].delay \in Int
    <3>1. \A i \in DOMAIN impacts : impacts[i] \in Item
      BY <1>0
    <3>2. QED
      BY <3>1 DEF Item
  <2>3. p \in 0..Len(impacts)
    <3>1. CASE p = 0
      BY <3>1, <1>0
    <3>2. CASE p # 0
      <4>1. p \in OnReceivingRoute
        BY <3>2, <2>1, <2>2, <1>0, PrimaryOnReceiving
      <4>2. QED
        BY <4>1, <1>0 DEF OnReceivingRoute
    <3>3. QED
      BY <3>1, <3>2
  <2>4. Tracked(p) \subseteq DOMAIN impacts
    BY <1>0, <2>3 DEF Tracked
  <2>5. IsFiniteSet(Tracked(p)) /\ Cardinality(Tracked(p)) <= MaxTracked
    BY <1>0, TrackedCapped
  <2>6. QED
    BY <2>1, <2>3, <2>4, <2>5 DEF ChoiceInv
<1>5. QED
  BY <1>1, <1>2, <1>3, <1>4, Zenon DEF PredictionsNext

\* Replies, results and what is tracked of them have their types: a result keeps to
\* the configured cap and depth, and to confidences that count.
THEOREM TypeCorrect == PredictionsSpec => []PredictionsTypeOK
<1> DEFINE Inv == StateInv /\ CursorInv /\ CrossInv /\ ReplyInv /\ ItemsInv /\ ChoiceInv
<1>1. PredictionsInit => Inv
  <2> SUFFICES ASSUME PredictionsInit PROVE Inv
    OBVIOUS
  <2>1. StateInv /\ CursorInv
    BY TimeInit, PredictionsAssumption DEF PredictionsInit, StateInv, CursorInv, ScanShape, NoScan
  <2>2. ReplyInv /\ ItemsInv /\ ChoiceInv
    BY ConfigPositive, PredictionsAssumption, FS_EmptySet
       DEF PredictionsInit, ReplyInv, ItemsInv, ChoiceInv
  <2>3. QED
    BY <2>1, <2>2, CrossInit
<1>2. BaseInv /\ Inv /\ [PredictionsNext]_predictionVars => Inv'
  BY StateStep, CursorStep, CrossStep, ReplyStep, ItemsStep, ChoiceStep DEF BaseInv
<1>3. BaseInv /\ Inv => PredictionsTypeOK
  <2> SUFFICES ASSUME BaseInv, Inv PROVE PredictionsTypeOK
    OBVIOUS
  <2>1. now \in Moments /\ stored \in [KeyIds -> State \cup {NoState}]
    BY DEF BaseInv, ScanInv
  <2>2. request # NoRequest /\ request.kind # "broken" => request \in Request
    BY DEF StateInv, Call
  <2>3. impact # NoImpact =>
          [delay |-> impact.delay, impacts |-> impacts, computed |-> computed] \in PropagationResult
    BY DEF StateInv, ItemsInv, PropagationResult
  <2>4. QED
    BY <2>1, <2>2, <2>3 DEF StateInv, CursorInv, ReplyInv, ItemsInv, ChoiceInv, PredictionsTypeOK
<1>4. QED
  BY <1>1, <1>2, <1>3, BaseHolds, PTL DEF PredictionsSpec
=============================================================================
