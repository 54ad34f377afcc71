---------------------------- MODULE CaptureFeed -----------------------------
(***************************************************************************)
(* The consumer hosts fed by the repository's own producer.  run_demo's    *)
(* capture() builds the envelope of each committed change once, naming the *)
(* version it follows, keeps it whole, and keeps the source image beside   *)
(* it.  The file (events.jsonl) holds one line per attempted delivery: the *)
(* captured envelopes in any order, some of them again, some of them late, *)
(* and unusable events between them; a change that was dropped is written  *)
(* at last when reconciliation shows it missing.  Publisher processes      *)
(* (eventhub_publisher) read the file and send its lines in order.  A      *)
(* publisher that dies is run again and starts from the first line, an     *)
(* operator may publish again at any time, and two publishers may be at    *)
(* work; the hub therefore holds prefixes of the file interleaved, and     *)
(* between them unusable messages of other producers.                      *)
(***************************************************************************)
EXTENDS CosmosConsumer, FiniteSets

CONSTANTS
    Publisher,     \* publisher processes
    MaxCaptures    \* bound: changes captured

ASSUME FeedAssumption == MaxCaptures \in Nat

VARIABLES
    source,        \* account -> envelope of its last committed change
    captured,      \* the envelopes built, each kept for every later delivery
    file,          \* the lines of the file, in the order they were written
    line,          \* publisher -> next line to send, 0 when it is not running
    last           \* publisher -> last line of the file as it was read

feed == <<source, captured, file, line, last>>
feedVars == <<vars, feed>>

FeedInit ==
    /\ Init
    /\ docs = [a \in Account |-> Absent]
    /\ source = [a \in Account |-> Absent]
    /\ captured = {}
    /\ file = <<>>
    /\ line = [w \in Publisher |-> 0]
    /\ last = [w \in Publisher |-> 0]

(* Element i of s is a usable envelope, and the changes it builds on, from *)
(* the account's first one, come before it in their order.                 *)
InOrder(s, i) ==
    \E K \in SUBSET (1..i) :
        /\ i \in K
        /\ \A k \in K :
              /\ Valid(s[k])
              /\ s[k].prev # 0 =>
                    \E j \in K : j < k /\ s[j].account = s[k].account /\ s[j].version = s[k].prev

(* make_event, called once for a change: its envelope names the version    *)
(* the change follows.                                                     *)
Succeeds(e) == Valid(e) /\ e.prev = CurrentVersion(source[e.account])

(* A change is committed at the source and its envelope is kept.           *)
Capture(e) ==
    /\ Cardinality(captured) < MaxCaptures
    /\ Succeeds(e)
    /\ source' = [source EXCEPT ![e.account] = e]
    /\ captured' = captured \union {e}
    /\ UNCHANGED <<vars, file, line, last>>

(* A captured change that the file does not hold in order, though all it   *)
(* builds on is there: what reconciliation points at, and the replay of a  *)
(* gap after its predecessor.                                              *)
Written(e) == \E i \in 1..Len(file) : file[i] = e /\ InOrder(file, i)

Owed(e) ==
    /\ e \in captured
    /\ ~Written(e)
    /\ InOrder(Append(file, e), Len(file) + 1)

(* The first statement of every delivery writes its line.  What is owed is *)
(* written in the end; any other line counts as a fault, which bounds it.  *)
AppendLine(e) ==
    /\ IF Owed(e) THEN NoFault ELSE Fault
    /\ file' = Append(file, e)
    /\ UNCHANGED <<hub, sink, next, callback, latch, source, captured, line, last>>

(* Mutant: the envelope is built again for this delivery.                  *)
WriteRebuilt(e) ==
    /\ \E f \in captured : f.account = e.account /\ f.version = e.version /\ f.prev = e.prev
    /\ AppendLine(e)

(* A captured change, whichever it is, early, late or once more, or an     *)
(* event made unusable on purpose.                                         *)
WriteLine(e) ==
    /\ e \in captured \/ ~Valid(e)
    /\ AppendLine(e)

(* A publisher starts: it reads the lines there are.  It is due when there *)
(* are lines no publisher has read to the end of.                          *)
Start(w) ==
    /\ line[w] = 0
    /\ line' = [line EXCEPT ![w] = 1]
    /\ last' = [last EXCEPT ![w] = Len(file)]
    /\ UNCHANGED <<hub, sink, next, callback, latch, source, captured, file>>

Open(w) ==
    /\ NoFault
    /\ \A u \in Publisher : last[u] < Len(file)
    /\ Start(w)

(* The operator publishes the file again without need.                     *)
Republish(w) == Fault /\ Start(w)

(* Mutant: a line that repeats an earlier one is not sent again.           *)
SendOnce(w) ==
    /\ line[w] \in 1..last[w]
    /\ IF \E j \in 1..(line[w] - 1) : file[j] = file[line[w]]
          THEN UNCHANGED vars
          ELSE Publish(file[line[w]])
    /\ line' = [line EXCEPT ![w] = @ + 1]
    /\ UNCHANGED <<source, captured, file, last>>

(* One batch per line, with the account as partition key.                  *)
Send(w) ==
    /\ line[w] \in 1..last[w]
    /\ Publish(file[line[w]])
    /\ line' = [line EXCEPT ![w] = @ + 1]
    /\ UNCHANGED <<source, captured, file, last>>

Done(w) ==
    /\ line[w] > last[w]
    /\ line' = [line EXCEPT ![w] = 0]
    /\ UNCHANGED <<vars, source, captured, file, last>>

(* send_batch raises, before or after the hub took the batch, or the       *)
(* process dies: the lines are to be published again.                      *)
Abort(w) ==
    /\ Fault
    /\ line[w] \in 1..last[w]
    /\ \/ UNCHANGED log
       \/ log' = [log EXCEPT ![PartitionOf[file[line[w]].account]] = Append(@, file[line[w]])]
    /\ line' = [line EXCEPT ![w] = 0]
    /\ last' = [last EXCEPT ![w] = 0]
    /\ UNCHANGED <<checkpoint, sink, next, callback, latch, source, captured, file>>

(* A message of another producer, which no consumer can use.               *)
Stray(e) ==
    /\ Fault
    /\ ~Valid(e)
    /\ LET p == PartitionOf[e.account] IN
         /\ Len(log[p]) < MaxLog
         /\ log' = [log EXCEPT ![p] = Append(@, e)]
    /\ UNCHANGED <<checkpoint, sink, next, callback, latch, feed>>

FeedNext ==
    \/ \E e \in Message : Capture(e) \/ WriteLine(e) \/ Stray(e)
    \/ \E w \in Publisher : Open(w) \/ Republish(w) \/ Send(w) \/ Done(w) \/ Abort(w)
    \/ \E h \in Host : HostStep(h) /\ UNCHANGED feed

FeedSpec == FeedInit /\ [][FeedNext]_feedVars

(* As for the hosts; a change that is owed is written in the end, and a    *)
(* publisher that is due is run and keeps sending.                         *)
FeedFairness ==
    /\ \A h \in Host :
        /\ WF_feedVars(Callback(h) /\ UNCHANGED feed)
        /\ WF_feedVars(Exit(h) /\ UNCHANGED feed)
        /\ \A p \in Partition :
            /\ WF_feedVars(Claim(h, p) /\ UNCHANGED feed)
            /\ WF_feedVars(Deliver(h, p) /\ UNCHANGED feed)
    /\ WF_feedVars(\E e \in Message : Owed(e) /\ WriteLine(e))
    /\ \A w \in Publisher : WF_feedVars(Open(w) \/ Send(w) \/ Done(w))

FairFeedSpec == FeedSpec /\ FeedFairness

-----------------------------------------------------------------------------
(* Properties.                                                             *)

(* A captured change is refused only where it comes out of order: what has *)
(* the changes it builds on before it in its partition is never in         *)
(* quarantine (demo-guide.md:545 "Predecessor ausente"), however often the *)
(* file is replayed, by however many publishers, whatever old, repeated or *)
(* unusable lines come between, and although other copies of the same      *)
(* change may have been refused before.                                    *)
OnlyGapsQuarantined == \A q \in quarantine : ~InOrder(log[q[1]], q[2])

(* What reconcile() compares: once the file holds every account's last     *)
(* change in order, a publisher has sent the whole of it and every         *)
(* partition is checkpointed to its end, each document is the account's    *)
(* last committed image, whatever was quarantined on the way.              *)
FileComplete == \A a \in Account : source[a] # Absent => Written(source[a])

SentLines(w) == IF line[w] = 0 THEN last[w] ELSE line[w] - 1

AllPublished == \E w \in Publisher : SentLines(w) = Len(file)

Drained == \A p \in Partition : checkpoint[p] = Len(log[p])

DrainedMeansReconciled == FileComplete /\ AllPublished /\ Drained => docs = source

(* When the source pauses and faults stop, the documents become and stay   *)
(* the source image.                                                       *)
EventuallyReconciled == <>[](docs = source)
-----------------------------------------------------------------------------
(* The inductive invariant behind these, with that of the hosts.           *)

FeedTypes ==
    /\ source \in [Account -> {Absent} \union Envelope]
    /\ captured \subseteq Envelope
    /\ file \in Seq(Message)
    /\ last \in [Publisher -> 0..Len(file)]
    /\ line \in [Publisher -> Nat]
    /\ \A w \in Publisher : line[w] <= last[w] + 1

(* The captured envelopes of an account follow one another.                *)
CapturesChain ==
    \A e, f \in captured :
        f = e \/ f.account # e.account \/ f.version <= e.prev \/ e.version <= f.prev

SourceIsLast ==
    /\ \A a \in Account : source[a] # Absent => source[a] \in captured /\ source[a].account = a
    /\ \A e \in captured :
          source[e.account] # Absent /\ e.version <= source[e.account].version

(* What a consumer can use, in the file and in the hub, was captured.      *)
OnlyCapturedWritten == \A i \in 1..Len(file) : Valid(file[i]) => file[i] \in captured

OnlyCapturedSent ==
    \A p \in Partition : \A o \in 1..Len(log[p]) :
        Valid(log[p][o]) => log[p][o] \in captured /\ PartitionOf[log[p][o].account] = p

(* What the file holds in order among the lines a publisher has sent, the  *)
(* hub holds in order.                                                     *)
Reached(i) ==
    \E p \in Partition : \E o \in 1..Len(log[p]) : log[p][o] = file[i] /\ InOrder(log[p], o)

PublishersInOrder ==
    \A w \in Publisher : \A i \in 1..SentLines(w) : InOrder(file, i) => Reached(i)

OnlyCapturedApplied ==
    /\ \A a \in Account : docs[a] # Untrusted
    /\ applied \subseteq captured

FeedInvariant ==
    /\ Inductive
    /\ FeedTypes
    /\ CapturesChain
    /\ SourceIsLast
    /\ OnlyCapturedWritten
    /\ OnlyCapturedSent
    /\ PublishersInOrder
    /\ OnlyCapturedApplied
    /\ OnlyGapsQuarantined
=============================================================================
