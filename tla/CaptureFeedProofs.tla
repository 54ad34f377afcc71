-------------------------- MODULE CaptureFeedProofs --------------------------
(***************************************************************************)
(* What holds of the consumer hosts when the capture and its publishers    *)
(* feed them, for any number of hosts, partitions, publishers, accounts,   *)
(* captured changes and lines of the file, in any order, and any number of *)
(* faults.                                                                 *)
(***************************************************************************)
EXTENDS CaptureFeed, CosmosConsumerProofs

-----------------------------------------------------------------------------
(* The hosts in the feed.                                                  *)

(* Messages reach the hub, or a fault is counted, while no host moves: what*)
(* the publishers and the operator do, as the hosts see it.                *)
Arrives ==
    /\ \/ UNCHANGED log
       \/ \E e \in Message : log' = [log EXCEPT ![PartitionOf[e.account]] = Append(@, e)]
    /\ Fault \/ NoFault
    /\ UNCHANGED <<checkpoint, sink, next, callback, latch>>

(* A step of the feed is a step of the hosts or of the producers.          *)
LEMMA FeedMoves ==
    ASSUME [FeedNext]_feedVars, FeedTypes
    PROVE  \/ \E h \in Host : HostStep(h) /\ UNCHANGED feed
           \/ Arrives
<1> USE DEF hub
<1>1. CASE \E e \in Message : Capture(e) \/ WriteLine(e)
  BY <1>1 DEF Capture, WriteLine, AppendLine, Arrives, vars, NoFault
<1>2. ASSUME NEW e \in Message, Stray(e) PROVE Arrives
  BY <1>2 DEF Stray, Arrives
<1>3. ASSUME NEW w \in Publisher, Open(w) \/ Republish(w) PROVE Arrives
  BY <1>3 DEF Open, Republish, Start, Arrives
<1>4. ASSUME NEW w \in Publisher, line[w] \in 1..last[w] PROVE file[line[w]] \in Message
  BY <1>4 DEF FeedTypes
<1>5. ASSUME NEW w \in Publisher, Send(w) PROVE Arrives
  <2>1. file[line[w]] \in Message
    BY <1>4, <1>5 DEF Send
  <2>2. QED
    BY <1>5, <2>1 DEF Send, Publish, Arrives, NoFault
<1>6. ASSUME NEW w \in Publisher, Done(w) PROVE Arrives
  BY <1>6 DEF Done, Arrives, vars, NoFault
<1>7. ASSUME NEW w \in Publisher, Abort(w) PROVE Arrives
  <2>1. file[line[w]] \in Message
    BY <1>4, <1>7 DEF Abort
  <2>2. QED
    BY <1>7, <2>1 DEF Abort, Arrives
<1>8. CASE UNCHANGED feedVars
  BY <1>8 DEF feedVars, vars, Arrives, NoFault
<1>9. QED
  BY <1>1, <1>2, <1>3, <1>5, <1>6, <1>7, <1>8 DEF FeedNext

(* Arrivals are appended.                                                  *)
LEMMA ArrivalsAppend ==
    ASSUME TypeOK, Arrives
    PROVE  /\ log' \in [Partition -> Seq(Message)]
           /\ \A p \in Partition : Len(log'[p]) \in Nat /\ Len(log[p]) <= Len(log'[p])
           /\ \A p \in Partition : \A i \in 1..Len(log[p]) : log'[p][i] = log[p][i]
<1>1. log \in [Partition -> Seq(Message)]
  BY DEF TypeOK, StoreTypeOK
<1>2. CASE UNCHANGED log
  BY <1>1, <1>2
<1>3. ASSUME NEW e \in Message, log' = [log EXCEPT ![PartitionOf[e.account]] = Append(@, e)]
      PROVE  /\ log' \in [Partition -> Seq(Message)]
             /\ \A p \in Partition : Len(log'[p]) \in Nat /\ Len(log[p]) <= Len(log'[p])
             /\ \A p \in Partition : \A i \in 1..Len(log[p]) : log'[p][i] = log[p][i]
  <2> DEFINE q == PartitionOf[e.account]
  <2>1. q \in Partition
    BY MessageAssumption, ConsumerAssumption
  <2>2. log' = [log EXCEPT ![q] = Append(log[q], e)]
    BY <1>3
  <2> HIDE DEF q
  <2>3. log[q] \in Seq(Message) /\ Append(log[q], e) \in Seq(Message)
    BY <1>1, <2>1
  <2>4. \A p \in Partition : log'[p] = IF p = q THEN Append(log[q], e) ELSE log[p]
    BY <1>1, <2>1, <2>2
  <2>5. Len(Append(log[q], e)) = Len(log[q]) + 1
        /\ \A i \in 1..Len(log[q]) : Append(log[q], e)[i] = log[q][i]
    BY <2>3
  <2>6. log' \in [Partition -> Seq(Message)]
    BY <1>1, <2>2, <2>3
  <2>7. QED
    BY <1>1, <2>3, <2>4, <2>5, <2>6
<1>4. QED
  BY <1>2, <1>3 DEF Arrives

(* What the hosts know is not disturbed by arrivals.                       *)
LEMMA ArrivalsKeep ==
    ASSUME Inductive, Arrives
    PROVE  Inductive'
<1> USE DEF callback, latch, sink
<1>0. TypeOK
  BY DEF Inductive
<1>1. /\ UNCHANGED <<docs, quarantine, applied, checkpoint, next, pc, job, seen, attempt, failed, error>>
      /\ Fault \/ NoFault
  BY DEF Arrives
<1>2. ASSUME NEW d, Delivery(d)
      PROVE  Delivery(d)' /\ log'[d[1]][d[2]] = log[d[1]][d[2]]
  BY <1>0, <1>2, ArrivalsAppend DEF Delivery, TypeOK, StoreTypeOK
<1>3. ASSUME NEW h \in Host, ~Idle(h)
      PROVE  Event(h)' = Event(h)
  BY <1>0, <1>1, <1>2, <1>3 DEF Event, TypeOK, DeliveriesExist
<1>4. ASSUME NEW p \in Partition, NEW i \in 1..Len(log[p])
      PROVE  Sink!Settled(p, i)' <=> Sink!Settled(p, i)
  BY <1>0, <1>1, ArrivalsAppend DEF Sink!Settled
<1>5. ASSUME NEW p \in Partition, NEW n \in Nat, n <= Len(log[p]) + 1, Sink!SettledBefore(p, n)
      PROVE  Sink!SettledBefore(p, n)'
  <2>1. \A i \in 1..(n-1) : i \in 1..Len(log[p])
    BY <1>0, <1>5 DEF TypeOK, StoreTypeOK
  <2>2. QED
    BY <1>4, <1>5, <2>1 DEF Sink!SettledBefore
<1>6. ASSUME NEW h \in Host, ~Idle(h)
      PROVE  job[h][1] \in Partition /\ job[h][2] \in Nat /\ job[h][2] <= Len(log[job[h][1]])
             /\ job[h][2] \in 1..Len(log[job[h][1]])
  BY <1>0, <1>6, EventInMessage DEF TypeOK, StoreTypeOK
<1>7. TypeOK'
  <2>1. faults' \in 0..MaxFaults
    BY <1>0, <1>1, ConsumerAssumption DEF Fault, NoFault, TypeOK, HostTypeOK
  <2>2. StoreTypeOK' /\ HostTypeOK'
    BY <1>0, <1>1, <2>1, ArrivalsAppend DEF TypeOK, StoreTypeOK, HostTypeOK
  <2>3. DeliveriesExist'
    BY <1>0, <1>1, <1>2, <1>3 DEF TypeOK, DeliveriesExist, Idle
  <2>4. QED
    BY <2>2, <2>3 DEF TypeOK
<1>8. WriteJudged' /\ SecondRoundIsLate' /\ SecondRoundSettles' /\ HaltedHostIsQuiet'
  BY <1>1, <1>3 DEF Inductive, WriteJudged, SecondRoundIsLate, SecondRoundSettles,
     HaltedHostIsQuiet, Idle
<1>9. CheckpointSafe'
  <2> SUFFICES ASSUME NEW p \in Partition
               PROVE  checkpoint'[p] <= Len(log'[p]) /\ Sink!SettledBefore(p, checkpoint[p] + 1)'
    BY DEF CheckpointSafe
  <2>1. checkpoint[p] \in Nat /\ Len(log[p]) \in Nat /\ checkpoint'[p] = checkpoint[p]
        /\ checkpoint[p] <= Len(log[p]) /\ Sink!SettledBefore(p, checkpoint[p] + 1)
    BY <1>0, <1>1 DEF Inductive, CheckpointSafe, TypeOK, StoreTypeOK
  <2> DEFINE n == checkpoint[p] + 1
  <2>2. n \in Nat /\ n <= Len(log[p]) + 1 /\ n' = n
    BY <2>1
  <2>3. Sink!SettledBefore(p, n)
    BY <2>1
  <2> HIDE DEF n
  <2>4. Sink!SettledBefore(p, n)'
    BY <1>5, <2>2, <2>3
  <2>5. QED
    BY <1>0, <2>1, <2>4, ArrivalsAppend DEF n
<1>10. CallbackInOrder'
  <2> SUFFICES ASSUME NEW h \in Host, ~Idle(h)
               PROVE  /\ Sink!SettledBefore(job[h][1], job[h][2])'
                      /\ pc[h] = "checkpoint" => Sink!Settled(job[h][1], job[h][2])'
    BY <1>1 DEF CallbackInOrder, Idle
  <2>1. PICK p \in Partition, o \in Nat : p = job[h][1] /\ o = job[h][2]
    BY <1>6
  <2>2. o <= Len(log[p]) + 1 /\ o \in 1..Len(log[p]) /\ job'[h] = job[h]
    BY <1>0, <1>1, <1>6, <2>1 DEF TypeOK, StoreTypeOK
  <2>3. Sink!SettledBefore(p, o) /\ (pc[h] = "checkpoint" => Sink!Settled(p, o))
    BY <2>1 DEF Inductive, CallbackInOrder
  <2>4. Sink!SettledBefore(p, o)' /\ (pc[h] = "checkpoint" => Sink!Settled(p, o)')
    BY <1>4, <1>5, <2>2, <2>3
  <2>5. QED
    BY <2>1, <2>2, <2>4 DEF Sink!SettledBefore, Sink!Settled
<1>11. PassedIsSettled'
  <2> SUFFICES ASSUME NEW h \in Host, ~failed[h], NEW p \in Partition
               PROVE  /\ next[h][p] <= Len(log'[p]) + 1
                      /\ \A i \in 1..(next[h][p] - 1) :
                            Sink!Settled(p, i)' \/ (~Idle(h) /\ job[h] = <<p, i>>)
    BY <1>1 DEF PassedIsSettled, Idle
  <2>1. next[h][p] \in Nat /\ Len(log[p]) \in Nat
    BY <1>0, NextTypes DEF TypeOK, StoreTypeOK
  <2>2. /\ next[h][p] <= Len(log[p]) + 1
        /\ \A i \in 1..(next[h][p] - 1) : Sink!Settled(p, i) \/ (~Idle(h) /\ job[h] = <<p, i>>)
    BY DEF Inductive, PassedIsSettled
  <2>3. \A i \in 1..(next[h][p] - 1) : i \in 1..Len(log[p])
    BY <2>1, <2>2
  <2>4. QED
    BY <1>0, <1>4, <2>1, <2>2, <2>3, ArrivalsAppend
<1>12. RefusalJudged'
  <2> SUFFICES ASSUME NEW h \in Host, pc[h] = "quarantine", Valid(Event(h))
               PROVE  /\ seen[h] \in Sink!Had(Event(h).account)'
                      /\ Transition(seen[h], Event(h)) = "quarantined"
                      /\ Sink!Reflects(seen[h], job[h][1], job[h][2])'
    BY <1>1, <1>3 DEF RefusalJudged, Idle
  <2>1. ~Idle(h) /\ Event(h)' = Event(h) /\ job'[h] = job[h] /\ seen'[h] = seen[h]
    BY <1>1, <1>3 DEF Idle
  <2>2. /\ seen[h] \in Sink!Had(Event(h).account)
        /\ Transition(seen[h], Event(h)) = "quarantined"
        /\ Sink!Reflects(seen[h], job[h][1], job[h][2])
    BY DEF Inductive, RefusalJudged
  <2>3. seen[h] \in Sink!Had(Event(h).account)'
    BY <1>1, <2>1, <2>2 DEF Sink!Had
  <2>4. PICK p \in Partition, o \in Nat : p = job[h][1] /\ o = job[h][2]
    BY <1>6, <2>1
  <2>5. o \in 1..Len(log[p]) /\ Len(log[p]) \in Nat
    BY <1>0, <1>6, <2>1, <2>4 DEF TypeOK, StoreTypeOK
  <2>6. \A i \in 1..o : log'[p][i] = log[p][i]
    BY <1>0, <2>4, <2>5, ArrivalsAppend
  <2>7. Sink!Reflects(seen[h], p, o)'
    <3>1. quarantine' = quarantine /\ seen'[h] = seen[h] /\ Sink!Reflects(seen[h], p, o)
      BY <1>1, <2>1, <2>2, <2>4
    <3>2. \A i \in 1..(o-1) : log'[p][i] = log[p][i] /\ log'[p][o] = log[p][o]
      BY <2>5, <2>6
    <3>3. QED
      BY <3>1, <3>2 DEF Sink!Reflects, Sink!Covers, Sink!Trusted
  <2>8. QED
    BY <2>1, <2>2, <2>3, <2>4, <2>7 DEF Sink!Reflects
<1>13. DocumentsApplied' /\ UnbrokenChain'
  BY <1>1 DEF Inductive, DocumentsApplied, UnbrokenChain
<1>14. QED
  BY <1>7, <1>8, <1>9, <1>10, <1>11, <1>12, <1>13 DEF Inductive

(* The invariant of the hosts is kept by every step of the feed.           *)
LEMMA HostsKeep ==
    ASSUME Inductive, FeedTypes, [FeedNext]_feedVars
    PROVE  Inductive'
<1>1. CASE \E h \in Host : HostStep(h)
  BY <1>1, InductiveStep DEF Next
<1>2. QED
  BY <1>1, FeedMoves, ArrivalsKeep

-----------------------------------------------------------------------------
(* What it is to come in order.                                            *)

(* Only what comes before matters.                                         *)
LEMMA OrderKept ==
    ASSUME NEW s, NEW t, NEW i \in Nat, \A k \in 1..i : t[k] = s[k], InOrder(s, i)
    PROVE  InOrder(t, i)
BY DEF InOrder

(* What comes in order can be used.                                        *)
LEMMA OrderIsValid ==
    ASSUME NEW s, NEW i \in Nat, InOrder(s, i)
    PROVE  i \in 1..i /\ Valid(s[i])
BY DEF InOrder

(* What comes in order has its predecessor before it, in order as well.    *)
LEMMA OrderGoesBack ==
    ASSUME NEW s, NEW i \in Nat, InOrder(s, i), s[i].prev # 0
    PROVE  \E j \in 1..(i-1) : /\ s[j].account = s[i].account
                               /\ s[j].version = s[i].prev
                               /\ InOrder(s, j)
<1>1. PICK K \in SUBSET (1..i) :
         /\ i \in K
         /\ \A k \in K :
               /\ Valid(s[k])
               /\ s[k].prev # 0 =>
                     \E j \in K : j < k /\ s[j].account = s[k].account /\ s[j].version = s[k].prev
  BY DEF InOrder
<1>2. PICK j \in K : j < i /\ s[j].account = s[i].account /\ s[j].version = s[i].prev
  BY <1>1
<1>3. j \in 1..(i-1) /\ K \cap (1..j) \in SUBSET (1..j) /\ j \in K \cap (1..j)
  BY <1>1, <1>2
<1>4. ASSUME NEW k \in K \cap (1..j), s[k].prev # 0
      PROVE  \E l \in K \cap (1..j) :
                l < k /\ s[l].account = s[k].account /\ s[l].version = s[k].prev
  <2>1. PICK l \in K : l < k /\ s[l].account = s[k].account /\ s[l].version = s[k].prev
    BY <1>1, <1>4
  <2>2. k \in 1..i /\ l \in 1..i /\ k \in 1..j
    BY <2>1
  <2>3. l \in 1..j
    BY <1>3, <2>1, <2>2
  <2>4. QED
    BY <2>1, <2>3
<1>5. InOrder(s, j)
  BY <1>1, <1>3, <1>4 DEF InOrder
<1>6. QED
  BY <1>2, <1>3, <1>5

(* What comes after its predecessor, itself in order, comes in order.      *)
LEMMA OrderGoesOn ==
    ASSUME NEW s, NEW i \in Nat \ {0}, Valid(s[i]),
           s[i].prev = 0 \/ \E j \in 1..(i-1) : /\ s[j].account = s[i].account
                                                /\ s[j].version = s[i].prev
                                                /\ InOrder(s, j)
    PROVE  InOrder(s, i)
<1>1. CASE s[i].prev = 0
  <2>1. {i} \in SUBSET (1..i)
    OBVIOUS
  <2>2. QED
    BY <1>1, <2>1 DEF InOrder
<1>2. CASE s[i].prev # 0
  <2>1. PICK j \in 1..(i-1) : s[j].account = s[i].account /\ s[j].version = s[i].prev /\ InOrder(s, j)
    BY <1>2
  <2>2. PICK K \in SUBSET (1..j) :
           /\ j \in K
           /\ \A k \in K :
                 /\ Valid(s[k])
                 /\ s[k].prev # 0 =>
                       \E l \in K : l < k /\ s[l].account = s[k].account /\ s[l].version = s[k].prev
    BY <2>1 DEF InOrder
  <2>3. K \union {i} \in SUBSET (1..i) /\ j < i
    BY <2>1, <2>2
  <2>4. ASSUME NEW k \in K \union {i}
        PROVE  /\ Valid(s[k])
               /\ s[k].prev # 0 =>
                     \E l \in K \union {i} :
                        l < k /\ s[l].account = s[k].account /\ s[l].version = s[k].prev
    <3>1. CASE k = i
      BY <2>1, <2>2, <2>3, <3>1
    <3>2. CASE k \in K
      BY <2>2, <3>2
    <3>3. QED
      BY <3>1, <3>2
  <2>5. QED
    BY <2>3, <2>4 DEF InOrder
<1>3. QED
  BY <1>1, <1>2

-----------------------------------------------------------------------------
(* The file and the hub.                                                   *)

(* The file only grows, by captured changes and unusable events.           *)
LEMMA FileGrows ==
    ASSUME FeedTypes, [FeedNext]_feedVars
    PROVE  /\ file' \in Seq(Message)
           /\ Len(file) \in Nat /\ Len(file') \in Nat /\ Len(file) <= Len(file')
           /\ \A i \in 1..Len(file) : file'[i] = file[i]
           /\ \A i \in 1..Len(file') : i \in 1..Len(file) \/ file'[i] \in captured \/ ~Valid(file'[i])
<1>1. file \in Seq(Message)
  BY DEF FeedTypes
<1>2. ASSUME NEW e \in Message, WriteLine(e)
      PROVE  file' = Append(file, e) /\ (e \in captured \/ ~Valid(e))
  BY <1>2 DEF WriteLine, AppendLine
<1>3. UNCHANGED file \/ \E e \in Message : WriteLine(e)
  BY DEF FeedNext, Capture, Stray, Open, Republish, Start, Send, Done, Abort, feed, feedVars
<1>4. CASE UNCHANGED file
  BY <1>1, <1>4
<1>5. CASE \E e \in Message : WriteLine(e)
  <2>1. PICK e \in Message : file' = Append(file, e) /\ (e \in captured \/ ~Valid(e))
    BY <1>2, <1>5
  <2>2. /\ file' \in Seq(Message) /\ Len(file') = Len(file) + 1 /\ Len(file) \in Nat
        /\ file'[Len(file) + 1] = e
        /\ \A i \in 1..Len(file) : file'[i] = file[i]
    BY <1>1, <2>1
  <2>3. \A i \in 1..Len(file') : i \in 1..Len(file) \/ i = Len(file) + 1
    BY <2>2
  <2>4. QED
    BY <2>1, <2>2, <2>3
<1>6. QED
  BY <1>3, <1>4, <1>5

(* What comes new to the hub is unusable, or the line a publisher is at.   *)
LEMMA HubGrows ==
    ASSUME FeedTypes, [FeedNext]_feedVars
    PROVE  \/ UNCHANGED log
           \/ \E e \in Message :
                 /\ log' = [log EXCEPT ![PartitionOf[e.account]] = Append(@, e)]
                 /\ ~Valid(e) \/ \E i \in 1..Len(file) : e = file[i]
<1> USE DEF hub
<1>1. CASE \E e \in Message : Capture(e) \/ WriteLine(e)
  BY <1>1 DEF Capture, WriteLine, AppendLine, vars
<1>2. CASE \E e \in Message : Stray(e)
  BY <1>2 DEF Stray
<1>3. CASE \E w \in Publisher : Open(w) \/ Republish(w) \/ Done(w)
  BY <1>3 DEF Open, Republish, Start, Done, vars
<1>4. ASSUME NEW w \in Publisher, line[w] \in 1..last[w]
      PROVE  line[w] \in 1..Len(file) /\ file[line[w]] \in Message
  BY <1>4 DEF FeedTypes
<1>5. CASE \E w \in Publisher : Send(w)
  BY <1>4, <1>5 DEF Send, Publish
<1>6. CASE \E w \in Publisher : Abort(w)
  BY <1>4, <1>6 DEF Abort
<1>7. CASE \E h \in Host : HostStep(h)
  BY <1>7, HostEffect DEF RemoteCall, DocumentCall, QuarantineCall, CheckpointCall, StoresKept,
     SaveCheckpoint
<1>8. CASE UNCHANGED feedVars
  BY <1>8 DEF feedVars, vars
<1>9. QED
  BY <1>1, <1>2, <1>3, <1>5, <1>6, <1>7, <1>8 DEF FeedNext

(* A message that came new is the last of its partition.                   *)
Newest(e, q) ==
    /\ q = PartitionOf[e.account]
    /\ Len(log[q]) \in Nat /\ Len(log'[q]) = Len(log[q]) + 1
    /\ log'[q][Len(log[q]) + 1] = e
    /\ \A p \in Partition : p # q => log'[p] = log[p]

LEMMA NewestIsLast ==
    ASSUME TypeOK, NEW e \in Message, log' = [log EXCEPT ![PartitionOf[e.account]] = Append(@, e)]
    PROVE  \E q \in Partition : Newest(e, q)
<1>1. log \in [Partition -> Seq(Message)] /\ PartitionOf[e.account] \in Partition
  BY MessageAssumption, ConsumerAssumption DEF TypeOK, StoreTypeOK
<1> PICK q \in Partition : q = PartitionOf[e.account]
  BY <1>1
<1>2. log[q] \in Seq(Message)
  BY <1>1
<1>3. log' = [log EXCEPT ![q] = Append(log[q], e)]
  OBVIOUS
<1>4. log'[q] = Append(log[q], e) /\ \A p \in Partition : p # q => log'[p] = log[p]
  BY <1>1, <1>3
<1>5. Newest(e, q)
  BY <1>1, <1>2, <1>4 DEF Newest
<1>6. QED
  BY <1>5

(* The hub only grows.                                                     *)
LEMMA HubKeepsLog ==
    ASSUME TypeOK, FeedTypes, [FeedNext]_feedVars, NEW p \in Partition
    PROVE  /\ log'[p] \in Seq(Message)
           /\ Len(log[p]) \in Nat /\ Len(log'[p]) \in Nat /\ Len(log[p]) <= Len(log'[p])
           /\ \A o \in 1..Len(log[p]) : log'[p][o] = log[p][o]
<1>1. log \in [Partition -> Seq(Message)]
  BY DEF TypeOK, StoreTypeOK
<1>2. CASE \E h \in Host : HostStep(h)
  BY <1>1, <1>2, LogGrows DEF Next
<1>3. CASE Arrives
  BY <1>1, <1>3, ArrivalsAppend
<1>4. QED
  BY <1>2, <1>3, FeedMoves

(* What came in order keeps its place.                                     *)
LEMMA ReachedStays ==
    ASSUME TypeOK, FeedTypes, [FeedNext]_feedVars, NEW i \in 1..Len(file), Reached(i)
    PROVE  Reached(i)'
<1>1. PICK p \in Partition : \E o \in 1..Len(log[p]) : log[p][o] = file[i] /\ InOrder(log[p], o)
  BY DEF Reached
<1>2. PICK o \in 1..Len(log[p]) : log[p][o] = file[i] /\ InOrder(log[p], o)
  BY <1>1
<1>3. /\ Len(log[p]) \in Nat /\ Len(log'[p]) \in Nat /\ Len(log[p]) <= Len(log'[p])
      /\ \A k \in 1..Len(log[p]) : log'[p][k] = log[p][k]
  BY HubKeepsLog
<1>4. o \in Nat /\ o \in 1..Len(log'[p]) /\ \A k \in 1..o : log'[p][k] = log[p][k]
  BY <1>3
<1>5. InOrder(log'[p], o)
  BY <1>2, <1>4, OrderKept
<1>6. log'[p][o] = file'[i]
  BY <1>2, <1>3, FileGrows
<1>7. QED
  BY <1>4, <1>5, <1>6 DEF Reached

(* Whatever can be used was captured, in the file and in the hub.          *)
LEMMA CapturedStep ==
    ASSUME TypeOK, FeedTypes, OnlyCapturedWritten, OnlyCapturedSent, [FeedNext]_feedVars
    PROVE  captured \subseteq captured' /\ OnlyCapturedWritten' /\ OnlyCapturedSent'
<1>1. captured \subseteq captured'
  BY DEF FeedNext, Capture, WriteLine, AppendLine, Stray, Open, Republish, Start, Send, Done, Abort, feed, feedVars
<1>2. OnlyCapturedWritten'
  BY <1>1, FileGrows DEF OnlyCapturedWritten
<1>3. ASSUME NEW p \in Partition, NEW o \in 1..Len(log'[p]), Valid(log'[p][o])
      PROVE  log'[p][o] \in captured' /\ PartitionOf[log'[p][o].account] = p
  <2>1. /\ Len(log[p]) \in Nat /\ Len(log'[p]) \in Nat
        /\ \A k \in 1..Len(log[p]) : log'[p][k] = log[p][k]
    BY HubKeepsLog
  <2>2. CASE o \in 1..Len(log[p])
    BY <1>1, <1>3, <2>1, <2>2 DEF OnlyCapturedSent
  <2>3. CASE o \notin 1..Len(log[p])
    <3>1. PICK e \in Message :
             /\ log' = [log EXCEPT ![PartitionOf[e.account]] = Append(@, e)]
             /\ ~Valid(e) \/ \E i \in 1..Len(file) : e = file[i]
      BY <2>3, HubGrows
    <3>2. PICK q \in Partition : Newest(e, q)
      BY <3>1, NewestIsLast
    <3>3. p = q
      BY <2>3, <3>2 DEF Newest
    <3>4. o = Len(log[p]) + 1
      BY <2>1, <2>3, <3>2, <3>3 DEF Newest
    <3>5. p = PartitionOf[e.account] /\ log'[p][o] = e
      BY <3>2, <3>3, <3>4 DEF Newest
    <3>6. e \in captured
      BY <1>3, <3>1, <3>5 DEF OnlyCapturedWritten
    <3>7. QED
      BY <1>1, <3>5, <3>6
  <2>4. QED
    BY <2>2, <2>3
<1>4. QED
  BY <1>1, <1>2, <1>3 DEF OnlyCapturedSent

(* How many lines a publisher has sent: lines of the file, and one more    *)
(* only with the sending of that line.                                     *)
LEMMA LinesSent ==
    ASSUME FeedTypes, NEW w \in Publisher
    PROVE  /\ SentLines(w) <= Len(file) /\ Len(file) \in Nat
           /\ \A i \in 1..SentLines(w) : i \in 1..Len(file)
           /\ SentLines(w) \in Nat
<1>1. line[w] \in Nat /\ last[w] \in 0..Len(file) /\ Len(file) \in Nat /\ line[w] <= last[w] + 1
  BY DEF FeedTypes
<1>2. SentLines(w) \in Nat /\ SentLines(w) <= Len(file)
  BY <1>1 DEF SentLines
<1>3. QED
  BY <1>1, <1>2

LEMMA LinesAreSent ==
    ASSUME FeedTypes, [FeedNext]_feedVars, NEW w \in Publisher
    PROVE  \/ SentLines(w)' = SentLines(w)
           \/ SentLines(w)' = 0
           \/ /\ SentLines(w)' = line[w] /\ SentLines(w) = line[w] - 1 /\ line[w] \in 1..Len(file)
              /\ log' = [log EXCEPT ![PartitionOf[file[line[w]].account]] = Append(@, file[line[w]])]
<1>1. /\ line \in [Publisher -> Nat] /\ last \in [Publisher -> 0..Len(file)] /\ Len(file) \in Nat
      /\ line[w] <= last[w] + 1 /\ line[w] \in Nat /\ last[w] \in 0..Len(file)
  BY DEF FeedTypes
<1>2. CASE UNCHANGED <<line, last>>
  BY <1>2 DEF SentLines
<1>3. ASSUME NEW v \in Publisher, Start(v) \/ Abort(v)
      PROVE  SentLines(w)' = SentLines(w) \/ SentLines(w)' = 0
  <2>1. \/ line' = [line EXCEPT ![v] = 1]
        \/ line' = [line EXCEPT ![v] = 0] /\ last' = [last EXCEPT ![v] = 0]
    BY <1>3 DEF Start, Abort
  <2>2. CASE v # w
    <3>1. line'[w] = line[w] /\ last'[w] = last[w]
      BY <1>1, <1>3, <2>2 DEF Start, Abort
    <3>2. QED
      BY <3>1 DEF SentLines
  <2>3. CASE v = w
    <3>1. line'[w] = 1 \/ (line'[w] = 0 /\ last'[w] = 0)
      BY <1>1, <2>1, <2>3
    <3>2. QED
      BY <3>1 DEF SentLines
  <2>4. QED
    BY <2>2, <2>3
<1>4. ASSUME NEW v \in Publisher, Done(v)
      PROVE  SentLines(w)' = SentLines(w)
  <2>1. line' = [line EXCEPT ![v] = 0] /\ last' = last /\ line[v] > last[v]
    BY <1>4 DEF Done
  <2>2. CASE v # w
    BY <1>1, <2>1, <2>2 DEF SentLines
  <2>3. CASE v = w
    <3>1. line'[w] = 0 /\ last'[w] = last[w] /\ line[w] = last[w] + 1 /\ line[w] # 0
      BY <1>1, <2>1, <2>3
    <3>2. QED
      BY <1>1, <3>1 DEF SentLines
  <2>4. QED
    BY <2>2, <2>3
<1>5. ASSUME NEW v \in Publisher, Send(v), v # w
      PROVE  SentLines(w)' = SentLines(w)
  BY <1>1, <1>5 DEF Send, SentLines
<1>6. ASSUME Send(w)
      PROVE  /\ SentLines(w)' = line[w] /\ SentLines(w) = line[w] - 1 /\ line[w] \in 1..Len(file)
             /\ log' = [log EXCEPT ![PartitionOf[file[line[w]].account]] = Append(@, file[line[w]])]
  <2>1. line'[w] = line[w] + 1 /\ line[w] \in 1..last[w]
    BY <1>1, <1>6 DEF Send
  <2>2. SentLines(w)' = line[w] /\ SentLines(w) = line[w] - 1 /\ line[w] \in 1..Len(file)
    BY <1>1, <2>1 DEF SentLines
  <2>3. QED
    BY <1>6, <2>2 DEF Send, Publish
<1>7. QED
  BY <1>2, <1>3, <1>4, <1>5, <1>6
  DEF FeedNext, Capture, WriteLine, AppendLine, Stray, Open, Republish, feed, feedVars

(* So what the file holds in order reaches the hub in order.               *)
LEMMA PublisherOrderStep ==
    ASSUME TypeOK, FeedTypes, OnlyCapturedSent, PublishersInOrder, [FeedNext]_feedVars
    PROVE  PublishersInOrder'
<1> SUFFICES ASSUME NEW w \in Publisher, NEW i \in 1..SentLines(w)', InOrder(file', i)
             PROVE  Reached(i)'
  BY DEF PublishersInOrder
<1>1. /\ Len(file) \in Nat /\ \A j \in 1..Len(file) : file'[j] = file[j]
      /\ SentLines(w) \in Nat /\ SentLines(w) <= Len(file)
  BY FileGrows, LinesSent
<1>2. ASSUME i \in 1..SentLines(w) PROVE Reached(i)'
  <2>1. i \in 1..Len(file) /\ i \in Nat /\ \A k \in 1..i : file[k] = file'[k]
    BY <1>1, <1>2
  <2>2. InOrder(file, i)
    BY <2>1, OrderKept
  <2>3. Reached(i)
    BY <1>2, <2>2 DEF PublishersInOrder
  <2>4. QED
    BY <2>1, <2>3, ReachedStays
<1>3. CASE /\ SentLines(w)' = line[w] /\ SentLines(w) = line[w] - 1 /\ line[w] \in 1..Len(file)
           /\ log' = [log EXCEPT ![PartitionOf[file[line[w]].account]] = Append(@, file[line[w]])]
  <2>1. CASE i \in 1..SentLines(w)
    BY <1>2, <2>1
  <2>2. CASE i \notin 1..SentLines(w)
    <3>1. i = line[w] /\ i \in Nat \ {0} /\ i \in 1..Len(file)
      BY <1>1, <1>3, <2>2
    <3>2. PICK e \in Message : e = file[i]
      BY <3>1 DEF FeedTypes
    <3>3. log' = [log EXCEPT ![PartitionOf[e.account]] = Append(@, e)]
      BY <1>3, <3>1, <3>2
    <3>4. PICK q \in Partition : Newest(e, q)
      BY <3>2, <3>3, NewestIsLast
    <3>5. PICK n \in Nat \ {0} : n = Len(log[q]) + 1 /\ log'[q][n] = e /\ n = Len(log'[q])
      BY <3>4 DEF Newest
    <3>6. \A k \in 1..i : file[k] = file'[k]
      BY <1>1, <3>1
    <3>7. InOrder(file, i) /\ Valid(e)
      BY <3>1, <3>2, <3>6, OrderKept, OrderIsValid
    <3>8. ASSUME e.prev # 0
          PROVE  \E o \in 1..(n-1) : /\ log'[q][o].account = e.account
                                     /\ log'[q][o].version = e.prev
                                     /\ InOrder(log'[q], o)
      <4>1. PICK j \in 1..(i-1) :
               file[j].account = e.account /\ file[j].version = e.prev /\ InOrder(file, j)
        BY <3>1, <3>2, <3>7, <3>8, OrderGoesBack
      <4>2. j \in 1..SentLines(w)
        BY <1>3, <3>1
      <4>3. Reached(j)
        BY <4>1, <4>2 DEF PublishersInOrder
      <4>4. PICK p \in Partition : \E o \in 1..Len(log[p]) : log[p][o] = file[j] /\ InOrder(log[p], o)
        BY <4>3 DEF Reached
      <4>5. PICK o \in 1..Len(log[p]) : log[p][o] = file[j] /\ InOrder(log[p], o)
        BY <4>4
      <4>6. Len(log[p]) \in Nat /\ o \in Nat /\ \A k \in 1..Len(log[p]) : log'[p][k] = log[p][k]
        BY HubKeepsLog
      <4>7. Valid(log[p][o])
        BY <4>5, <4>6, OrderIsValid
      <4>8. p = q
        BY <3>4, <4>1, <4>5, <4>7 DEF OnlyCapturedSent, Newest
      <4>9. \A k \in 1..o : log'[p][k] = log[p][k]
        BY <4>6
      <4>10. InOrder(log'[p], o) /\ log'[p][o] = file[j]
        BY <4>5, <4>6, <4>9, OrderKept
      <4>11. o \in 1..(n-1)
        BY <3>5, <4>6, <4>8
      <4>12. QED
        BY <4>1, <4>8, <4>10, <4>11
    <3>9. InOrder(log'[q], n)
      BY <3>5, <3>7, <3>8, OrderGoesOn
    <3>10. n \in 1..Len(log'[q]) /\ log'[q][n] = file'[i]
      BY <3>1, <3>2, <3>5, <3>6
    <3>11. QED
      BY <3>9, <3>10 DEF Reached
  <2>3. QED
    BY <2>1, <2>2
<1>4. CASE SentLines(w)' = SentLines(w)
  <2>1. i \in 1..SentLines(w)
    BY <1>4
  <2>2. QED
    BY <1>2, <2>1
<1>5. CASE SentLines(w)' = 0
  <2>1. i \in 1..0
    BY <1>5
  <2>2. QED
    BY <2>1
<1>6. QED
  BY <1>3, <1>4, <1>5, LinesAreSent

-----------------------------------------------------------------------------
(* The source.                                                             *)

(* A change is captured, or source and captures stay as they are.          *)
LEMMA SourceMoves ==
    ASSUME [FeedNext]_feedVars
    PROVE  (\E e \in Message : Capture(e)) \/ UNCHANGED <<source, captured>>
BY DEF FeedNext, WriteLine, AppendLine, Stray, Open, Republish, Start, Send, Done, Abort, feed, feedVars

(* A captured change is the successor of the account's last one.           *)
LEMMA CaptureAdds ==
    ASSUME FeedTypes, NEW e \in Message, Capture(e)
    PROVE  /\ e \in Envelope /\ e.account \in Account
           /\ e.version \in Nat /\ e.prev \in Nat /\ e.prev < e.version
           /\ e.prev = CurrentVersion(source[e.account])
           /\ captured' = captured \union {e}
           /\ source' \in [Account -> {Absent} \union Envelope]
           /\ \A a \in Account : source'[a] = IF a = e.account THEN e ELSE source[a]
<1>1. e \in Envelope /\ source \in [Account -> {Absent} \union Envelope]
  BY DEF Capture, Succeeds, FeedTypes, Envelope
<1>2. e.account \in Account /\ e.version \in Nat /\ e.prev \in Nat /\ e.prev < e.version
  BY <1>1, EnvelopeTypes
<1>3. /\ captured' = captured \union {e} /\ source' = [source EXCEPT ![e.account] = e]
      /\ e.prev = CurrentVersion(source[e.account])
  BY DEF Capture, Succeeds
<1>4. QED
  BY <1>1, <1>2, <1>3

(* The feed's variables keep their types.                                  *)
LEMMA FeedTypesStep ==
    ASSUME FeedTypes, [FeedNext]_feedVars
    PROVE  FeedTypes'
<1>1. /\ file' \in Seq(Message) /\ Len(file) \in Nat /\ Len(file') \in Nat
      /\ Len(file) <= Len(file')
  BY FileGrows
<1>2. source' \in [Account -> {Absent} \union Envelope] /\ captured' \subseteq Envelope
  BY SourceMoves, CaptureAdds DEF FeedTypes
<1>3. /\ line \in [Publisher -> Nat] /\ last \in [Publisher -> 0..Len(file)]
      /\ \A w \in Publisher : line[w] <= last[w] + 1 /\ last[w] \in 0..Len(file')
  BY <1>1 DEF FeedTypes
<1> DEFINE Fits == /\ last' \in [Publisher -> 0..Len(file')]
                   /\ line' \in [Publisher -> Nat]
                   /\ \A w \in Publisher : line'[w] <= last'[w] + 1
<1>4. ASSUME UNCHANGED <<line, last>> PROVE Fits
  BY <1>3, <1>4
<1>5. ASSUME NEW v \in Publisher, Open(v) \/ Republish(v) PROVE Fits
  <2>1. line' = [line EXCEPT ![v] = 1] /\ last' = [last EXCEPT ![v] = Len(file)]
    BY <1>5 DEF Open, Republish, Start
  <2>2. Len(file) \in 0..Len(file')
    BY <1>1
  <2>3. \A w \in Publisher : /\ line'[w] = IF w = v THEN 1 ELSE line[w]
                             /\ last'[w] = IF w = v THEN Len(file) ELSE last[w]
    BY <1>3, <2>1
  <2>4. last' \in [Publisher -> 0..Len(file')] /\ line' \in [Publisher -> Nat]
    BY <1>3, <2>1, <2>2
  <2>5. QED
    BY <1>1, <1>3, <2>3, <2>4
<1>6. ASSUME NEW v \in Publisher, Send(v) PROVE Fits
  <2>1. line' = [line EXCEPT ![v] = line[v] + 1] /\ last' = last /\ line[v] <= last[v]
    BY <1>3, <1>6 DEF Send
  <2>2. QED
    BY <1>3, <2>1
<1>7. ASSUME NEW v \in Publisher, Done(v) PROVE Fits
  BY <1>3, <1>7 DEF Done
<1>8. ASSUME NEW v \in Publisher, Abort(v) PROVE Fits
  <2>1. line' = [line EXCEPT ![v] = 0] /\ last' = [last EXCEPT ![v] = 0]
    BY <1>8 DEF Abort
  <2>2. 0 \in 0..Len(file')
    BY <1>1
  <2>3. QED
    BY <1>3, <2>1, <2>2
<1>9. Fits
  BY <1>4, <1>5, <1>6, <1>7, <1>8 DEF FeedNext, Capture, WriteLine, AppendLine, Stray, feed, feedVars
<1>10. QED
  BY <1>1, <1>2, <1>9 DEF FeedTypes

(* The captured envelopes of an account go on to follow one another, up to *)
(* the source.                                                             *)
LEMMA SourceStep ==
    ASSUME FeedTypes, CapturesChain, SourceIsLast, [FeedNext]_feedVars
    PROVE  CapturesChain' /\ SourceIsLast'
<1>1. CASE UNCHANGED <<source, captured>>
  BY <1>1 DEF CapturesChain, SourceIsLast
<1>2. ASSUME NEW e \in Message, Capture(e)
      PROVE  CapturesChain' /\ SourceIsLast'
  <2> DEFINE a == e.account
  <2>1. /\ e \in Envelope /\ a \in Account
        /\ e.version \in Nat /\ e.prev \in Nat /\ e.prev < e.version
        /\ e.prev = CurrentVersion(source[a])
        /\ captured' = captured \union {e}
        /\ \A b \in Account : source'[b] = IF b = a THEN e ELSE source[b]
    BY <1>2, CaptureAdds
  <2>2. e # Absent
    BY <2>1, EnvelopeTypes DEF Trusted
  <2>3. \A f \in captured : f.account \in Account /\ f.version \in Nat
    BY EnvelopeTypes DEF FeedTypes
  <2>4. \A b \in Account : source[b] # Absent => CurrentVersion(source[b]) = source[b].version
    BY EnvelopeTypes DEF FeedTypes
  <2>5. \A f \in captured : f.account = a => f.version <= e.prev
    BY <2>1, <2>4 DEF SourceIsLast
  <2>6. CapturesChain'
    BY <2>1, <2>5 DEF CapturesChain
  <2>7. ASSUME NEW b \in Account, source'[b] # Absent
        PROVE  source'[b] \in captured' /\ source'[b].account = b
    BY <2>1, <2>7 DEF SourceIsLast
  <2>8. ASSUME NEW f \in captured'
        PROVE  source'[f.account] # Absent /\ f.version <= source'[f.account].version
    <3>1. CASE f = e
      BY <2>1, <2>2, <3>1
    <3>2. CASE f \in captured /\ f.account = a
      <4>1. f.version <= e.version
        BY <2>1, <2>3, <2>5, <3>2
      <4>2. QED
        BY <2>1, <2>2, <3>2, <4>1
    <3>3. CASE f \in captured /\ f.account # a
      BY <2>1, <2>3, <3>3 DEF SourceIsLast
    <3>4. QED
      BY <2>1, <3>1, <3>2, <3>3
  <2>9. QED
    BY <2>6, <2>7, <2>8 DEF SourceIsLast
<1>3. QED
  BY <1>1, <1>2, SourceMoves

-----------------------------------------------------------------------------
(* What the hosts make of it.                                              *)

(* No host refuses a change that comes in order: the predecessor came      *)
(* before it, in order as well, so was not refused; the document judged by *)
(* reflects it, and is a captured envelope of the account, so the change   *)
(* is that document's successor, or the document itself, or older.         *)
LEMMA NoRefusal ==
    ASSUME FeedInvariant, NEW h \in Host, pc[h] = "quarantine"
    PROVE  ~InOrder(log[job[h][1]], job[h][2])
<1> SUFFICES ASSUME InOrder(log[job[h][1]], job[h][2]) PROVE FALSE
  OBVIOUS
<1>0. TypeOK /\ FeedTypes /\ ~Idle(h)
  BY DEF FeedInvariant, Inductive, Idle
<1>1. PICK p \in Partition, o \in Nat : p = job[h][1] /\ o = job[h][2]
  BY <1>0, EventInMessage DEF TypeOK, StoreTypeOK
<1>2. /\ o \in 1..Len(log[p]) /\ Len(log[p]) \in Nat /\ Event(h) = log[p][o]
      /\ InOrder(log[p], o)
  BY <1>0, <1>1, EventInMessage DEF Event, TypeOK, StoreTypeOK
<1>3. Valid(log[p][o])
  BY <1>1, <1>2, OrderIsValid
<1>4. PICK e \in captured : e = log[p][o]
  BY <1>2, <1>3 DEF FeedInvariant, OnlyCapturedSent
<1>5. e \in Envelope /\ e.account \in Account /\ e.version \in Nat /\ e.prev \in Nat /\ e.prev < e.version
  BY <1>0, EnvelopeTypes DEF FeedTypes
<1> DEFINE doc == seen[h]
<1>6. /\ doc \in Sink!Had(e.account)
      /\ Transition(doc, e) = "quarantined"
      /\ Sink!Reflects(doc, p, o)
  BY <1>1, <1>2, <1>3, <1>4 DEF FeedInvariant, Inductive, RefusalJudged
<1>7. doc = Absent \/ (doc \in captured /\ doc.account = e.account)
  BY <1>5, <1>6 DEF Sink!Had, FeedInvariant, OnlyCapturedApplied
<1>8. ASSUME e.prev # 0 PROVE doc \in captured /\ doc.version >= e.prev
  <2>1. PICK j \in 1..(o-1) :
           log[p][j].account = e.account /\ log[p][j].version = e.prev /\ InOrder(log[p], j)
    BY <1>1, <1>2, <1>4, <1>8, OrderGoesBack
  <2>2. <<p, j>> \notin quarantine
    BY <2>1 DEF FeedInvariant, OnlyGapsQuarantined
  <2>3. Covers(doc, log[p][j])
    BY <1>4, <1>6, <2>1, <2>2, SameContract DEF Sink!Reflects
  <2>4. doc \in captured /\ doc.version \in Nat
    BY <1>0, <1>7, <2>3, EnvelopeTypes DEF Covers, Trusted, FeedTypes
  <2>5. QED
    BY <1>5, <2>1, <2>3, <2>4 DEF Covers
<1>9. CASE doc = Absent
  <2>1. Absent \notin captured
    BY <1>0, EnvelopeTypes DEF FeedTypes, Trusted
  <2>2. e.prev = 0 /\ ~Trusted(doc) /\ doc # Untrusted
    BY <1>8, <1>9, <2>1, SentinelAssumption DEF Trusted
  <2>3. QED
    BY <1>5, <1>6, <2>2 DEF Transition, CurrentVersion
<1>10. ASSUME doc \in captured, doc.account = e.account PROVE FALSE
  <2>1. /\ doc.version \in Nat /\ doc.prev \in Nat /\ doc.prev < doc.version
        /\ Trusted(doc) /\ CurrentVersion(doc) = doc.version /\ doc # Untrusted
    BY <1>0, <1>10, EnvelopeTypes DEF Trusted, FeedTypes
  <2>2. CASE doc.version <= e.prev
    <3>1. doc.version = e.prev
      BY <1>5, <1>8, <2>1, <2>2
    <3>2. QED
      BY <1>5, <1>6, <2>1, <3>1 DEF Transition
  <2>3. CASE doc = e
    BY <1>6, <2>1, <2>3 DEF Transition
  <2>4. CASE e.version <= doc.prev
    BY <1>5, <1>6, <2>1, <2>4 DEF Transition
  <2>5. doc = e \/ doc.version <= e.prev \/ e.version <= doc.prev
    BY <1>10 DEF FeedInvariant, CapturesChain
  <2>6. QED
    BY <2>2, <2>3, <2>4, <2>5
<1>11. QED
  BY <1>7, <1>9, <1>10

(* Quarantine documents are only of what came out of order.                *)
LEMMA QuarantineStep ==
    ASSUME FeedInvariant, [FeedNext]_feedVars
    PROVE  OnlyGapsQuarantined'
<1>0. TypeOK /\ FeedTypes
  BY DEF FeedInvariant, Inductive
<1>1. quarantine' \subseteq quarantine \union {job[h] : h \in {g \in Host : pc[g] = "quarantine"}}
  BY <1>0, FeedMoves, HostEffect DEF Arrives, RemoteCall, DocumentCall, QuarantineCall,
     CheckpointCall, StoresKept, sink, WriteDocument, WriteQuarantineDocument
<1>2. \A q \in quarantine : ~InOrder(log[q[1]], q[2]) /\ Delivery(q)
  BY DEF FeedInvariant, OnlyGapsQuarantined, Inductive, TypeOK, DeliveriesExist
<1>3. \A h \in Host : pc[h] = "quarantine" => ~InOrder(log[job[h][1]], job[h][2]) /\ Delivery(job[h])
  BY <1>0, NoRefusal DEF TypeOK, DeliveriesExist, Idle
<1>4. ASSUME NEW q, Delivery(q), InOrder(log'[q[1]], q[2])
      PROVE  InOrder(log[q[1]], q[2])
  <2>1. PICK p \in Partition : p = q[1] /\ q[2] \in 1..Len(log[p])
    BY <1>4 DEF Delivery
  <2> PICK o \in 1..Len(log[p]) : o = q[2]
    BY <2>1
  <2>2. Len(log[p]) \in Nat /\ \A k \in 1..Len(log[p]) : log'[p][k] = log[p][k]
    BY <1>0, HubKeepsLog
  <2>3. o \in Nat /\ \A k \in 1..o : log[p][k] = log'[p][k]
    BY <2>2
  <2>4. InOrder(log'[p], o)
    BY <1>4, <2>1
  <2>5. InOrder(log[p], o)
    BY <2>3, <2>4, OrderKept
  <2>6. QED
    BY <2>1, <2>5
<1>5. QED
  BY <1>1, <1>2, <1>3, <1>4 DEF OnlyGapsQuarantined

(* Only captured envelopes are written.                                    *)
LEMMA AppliedStep ==
    ASSUME FeedInvariant, captured \subseteq captured', [FeedNext]_feedVars
    PROVE  OnlyCapturedApplied'
<1>0. TypeOK /\ FeedTypes
  BY DEF FeedInvariant, Inductive
<1>1. CASE UNCHANGED <<docs, applied>>
  BY <1>1 DEF FeedInvariant, OnlyCapturedApplied
<1>2. ASSUME NEW h \in Host, DocumentCall(h)
      PROVE  OnlyCapturedApplied'
  <2>1. Event(h) \in Envelope /\ Event(h).account \in Account /\ ~Idle(h) /\ Valid(Event(h))
    BY <1>0, <1>2, EventVersions DEF DocumentCall, Idle, Envelope
  <2>2. PICK p \in Partition : \E o \in 1..Len(log[p]) : Event(h) = log[p][o]
    <3>1. job[h][1] \in Partition /\ job[h][2] \in 1..Len(log[job[h][1]])
      BY <1>0, <2>1, EventInMessage
    <3>2. QED
      BY <3>1 DEF Event
  <2>3. Event(h) \in captured
    BY <2>1, <2>2 DEF FeedInvariant, OnlyCapturedSent
  <2>4. Event(h) # Untrusted
    BY <2>1, EnvelopeTypes DEF Trusted
  <2>5. /\ docs' = [docs EXCEPT ![Event(h).account] = Event(h)]
        /\ applied' = applied \union {Event(h)}
    BY <1>2 DEF DocumentCall, WriteDocument
  <2>6. QED
    BY <1>0, <2>3, <2>4, <2>5 DEF FeedInvariant, OnlyCapturedApplied, TypeOK, StoreTypeOK
<1>3. UNCHANGED <<docs, applied>> \/ \E h \in Host : DocumentCall(h)
  BY <1>0, FeedMoves, HostEffect DEF Arrives, RemoteCall, QuarantineCall, CheckpointCall,
     StoresKept, sink, WriteQuarantineDocument
<1>4. QED
  BY <1>1, <1>2, <1>3

-----------------------------------------------------------------------------
(* The theorems.                                                           *)

(* Nothing was captured, written or sent yet.                              *)
LEMMA FeedStarts == FeedInit => FeedInvariant
<1> SUFFICES ASSUME FeedInit PROVE FeedInvariant
  OBVIOUS
<1>1. Inductive
  BY InductiveInit DEF FeedInit
<1>2. Len(file) = 0 /\ file \in Seq(Message) /\ captured = {}
  BY DEF FeedInit
<1>3. FeedTypes
  BY <1>2 DEF FeedInit, FeedTypes
<1>4. CapturesChain /\ SourceIsLast /\ OnlyCapturedWritten
  BY <1>2 DEF FeedInit, CapturesChain, SourceIsLast, OnlyCapturedWritten
<1>5. PublishersInOrder
  BY DEF FeedInit, PublishersInOrder, SentLines
<1>6. OnlyCapturedSent /\ OnlyCapturedApplied /\ OnlyGapsQuarantined
  BY SentinelAssumption DEF FeedInit, Init, Sink!Init, OnlyCapturedSent, OnlyCapturedApplied,
     OnlyGapsQuarantined
<1>7. QED
  BY <1>1, <1>3, <1>4, <1>5, <1>6 DEF FeedInvariant

(* The invariant holds of every reachable state: each part is kept by      *)
(* every step, given the others.                                           *)
THEOREM FeedInvariantHolds == FeedSpec => []FeedInvariant
<1>1. FeedInvariant /\ [FeedNext]_feedVars => FeedInvariant'
  <2> SUFFICES ASSUME FeedInvariant, [FeedNext]_feedVars PROVE FeedInvariant'
    OBVIOUS
  <2>1. /\ Inductive /\ TypeOK /\ FeedTypes /\ CapturesChain /\ SourceIsLast
        /\ OnlyCapturedWritten /\ OnlyCapturedSent /\ PublishersInOrder
    BY DEF FeedInvariant, Inductive
  <2>2. Inductive' /\ FeedTypes'
    BY <2>1, HostsKeep, FeedTypesStep
  <2>3. CapturesChain' /\ SourceIsLast'
    BY <2>1, SourceStep
  <2>4. captured \subseteq captured' /\ OnlyCapturedWritten' /\ OnlyCapturedSent'
    BY <2>1, CapturedStep
  <2>5. PublishersInOrder'
    BY <2>1, PublisherOrderStep
  <2>6. OnlyCapturedApplied' /\ OnlyGapsQuarantined'
    BY <2>4, AppliedStep, QuarantineStep
  <2>7. QED
    BY <2>2, <2>3, <2>4, <2>5, <2>6 DEF FeedInvariant
<1>2. QED
  BY FeedStarts, <1>1, PTL DEF FeedSpec

(* In whatever order the file was written, and however often and by        *)
(* however many publishers it is sent, a captured change is refused only   *)
(* where what it builds on has not come before it in order.                *)
THEOREM OnlyGapsAreRefused == FeedSpec => []OnlyGapsQuarantined
<1>1. FeedInvariant => OnlyGapsQuarantined
  BY DEF FeedInvariant
<1>2. QED
  BY FeedInvariantHolds, <1>1, PTL

(* What reconcile() compares: when the file holds every account's last     *)
(* change in order, a publisher has sent all of it and all partitions are  *)
(* checkpointed to their end, the documents are the source.                *)
THEOREM DrainedIsReconciled == FeedSpec => []DrainedMeansReconciled
<1>1. FeedInvariant => DrainedMeansReconciled
  <2> SUFFICES ASSUME FeedInvariant, FileComplete, AllPublished, Drained PROVE docs = source
    BY DEF DrainedMeansReconciled
  <2>1. TypeOK /\ FeedTypes
    BY DEF FeedInvariant, Inductive
  <2>2. docs \in [Account -> Document] /\ source \in [Account -> {Absent} \union Envelope]
    BY <2>1 DEF TypeOK, StoreTypeOK, FeedTypes
  <2> SUFFICES ASSUME NEW a \in Account PROVE docs[a] = source[a]
    BY <2>2
  <2>3. Trusted(docs[a]) => docs[a] \in captured /\ docs[a].account = a
    BY DEF FeedInvariant, Inductive, DocumentsApplied, OnlyCapturedApplied
  <2>4. docs[a] = Absent \/ Trusted(docs[a])
    BY <2>2 DEF FeedInvariant, OnlyCapturedApplied, Trusted
  <2>5. CASE source[a] = Absent
    <3>1. ~Trusted(docs[a])
      BY <2>3, <2>5 DEF FeedInvariant, SourceIsLast
    <3>2. QED
      BY <2>4, <2>5, <3>1
  <2>6. CASE source[a] # Absent
    <3>1. source[a].account = a /\ source[a].version \in Nat
      BY <2>2, <2>6, EnvelopeTypes DEF FeedInvariant, SourceIsLast
    <3>2. PICK i \in 1..Len(file) : file[i] = source[a] /\ InOrder(file, i)
      BY <2>6 DEF FileComplete, Written
    <3>3. PICK w \in Publisher : SentLines(w) = Len(file)
      BY DEF AllPublished
    <3>4. Reached(i)
      BY <3>2, <3>3 DEF FeedInvariant, PublishersInOrder
    <3>5. PICK p \in Partition : \E o \in 1..Len(log[p]) : log[p][o] = file[i] /\ InOrder(log[p], o)
      BY <3>4 DEF Reached
    <3>6. PICK o \in 1..Len(log[p]) : log[p][o] = source[a] /\ InOrder(log[p], o)
      BY <3>2, <3>5
    <3>7. Sink!Settled(p, o)
      <4>1. Len(log[p]) \in Nat /\ Sink!SettledBefore(p, Len(log[p]) + 1)
        BY <2>1 DEF FeedInvariant, Inductive, CheckpointSafe, Drained, TypeOK, StoreTypeOK
      <4>2. QED
        BY <4>1 DEF Sink!SettledBefore
    <3>8. <<p, o>> \notin quarantine
      BY <3>6 DEF FeedInvariant, OnlyGapsQuarantined
    <3>9. Covers(docs[a], source[a])
      BY <3>1, <3>6, <3>7, <3>8, SameContract DEF Sink!Settled
    <3>10. docs[a] \in captured /\ docs[a].account = a /\ docs[a].version \in Nat
      BY <2>1, <2>3, <3>9, EnvelopeTypes DEF Covers, FeedTypes
    <3>11. docs[a].version <= source[a].version
      BY <3>10 DEF FeedInvariant, SourceIsLast
    <3>12. QED
      BY <3>1, <3>9, <3>10, <3>11 DEF Covers
  <2>7. QED
    BY <2>5, <2>6
<1>2. QED
  BY FeedInvariantHolds, <1>1, PTL

(* The hosts keep the promise of the sink in the feed as well, where       *)
(* publishers fail and are run again.                                      *)
THEOREM FeedImplementsSink == FeedSpec => ImplementsSink
<1>1. FeedInit => Sink!Init
  BY DEF FeedInit, Init
<1>2. FeedInvariant /\ [FeedNext]_feedVars => [Sink!Next]_(Sink!vars)
  <2> SUFFICES ASSUME FeedInvariant, [FeedNext]_feedVars PROVE [Sink!Next]_(Sink!vars)
    OBVIOUS
  <2>1. Inductive /\ FeedTypes
    BY DEF FeedInvariant
  <2>2. ASSUME NEW h \in Host, HostStep(h) PROVE [Sink!Next]_(Sink!vars)
    BY <2>1, <2>2, HostEffect, CallIsSinkStep DEF StoresKept, hub, sink, Sink!vars
  <2>3. CASE Arrives
    BY <2>3 DEF Arrives, sink, Sink!Next, Sink!Publish, Sink!vars
  <2>4. QED
    BY <2>1, <2>2, <2>3, FeedMoves
<1>3. QED
  BY FeedInvariantHolds, <1>1, <1>2, PTL DEF FeedSpec, ImplementsSink, Sink!Spec
=============================================================================
